------------------------------ MODULE Storage -------------------------------
(***************************************************************************)
(* The event store (internal/storage/storage.go): StoreEvent appends to a  *)
(* batch that is written in one transaction when it is full, at each tick  *)
(* of the batch worker and twice during Close; StoreEventImmediate inserts *)
(* at once; the cleanup worker deletes old rows without taking the lock;   *)
(* a client reads a row, changes its copy and writes it back.  A crash     *)
(* loses the batch and keeps the table.  The SQLite drivers never fail in  *)
(* LastInsertId, and neither a transaction nor a statement is ever applied *)
(* in part, so a flush, like every other statement, is one step.           *)
(***************************************************************************)
EXTENDS Integers, Sequences, FiniteSets

CONSTANTS Batched,     \* events passed to StoreEvent
          Immediate,   \* events passed to StoreEventImmediate
          BatchSize,   \* config.BatchSize
          MaxCrashes   \* bound: crashes followed by a restart

Events == Batched \cup Immediate
None == <<>>

ASSUME StorageAssumption ==
  /\ Batched \cap Immediate = {}
  /\ BatchSize \in Nat \ {0} /\ MaxCrashes \in Nat

VARIABLES
  batch,        \* batchQueue
  table,        \* the events table: live ids to rows
  nextId,       \* the next AUTOINCREMENT id
  open,         \* the database is open
  cancelled,    \* s.ctx is done
  batchWorker,  \* the goroutine that flushes at each tick
  cleaner,      \* the goroutine that removes old rows
  closing,      \* where Close is
  copy,         \* a client's copy of a row, from GetEvent
  answer,       \* what the storing call of each event returned
  old,          \* events past the retention period
  flushFailed,  \* history: the last flush that had events to write failed
  late,         \* history: events batched after the last flush of Close
  lost,         \* history: events that were in the batch at a crash
  removed,      \* history: rows of each event deleted by the cleanup
  crashes

tableVars == <<table, nextId>>
lifeVars  == <<open, cancelled, batchWorker, cleaner, closing, crashes>>
history   == <<late, lost, removed>>
vars == <<batch, table, nextId, open, cancelled, batchWorker, cleaner, closing,
          copy, answer, old, flushFailed, late, lost, removed, crashes>>

Row == [event: Events, acked: BOOLEAN]

TypeOK ==
  /\ batch \in Seq(Batched)
  /\ nextId \in Nat \ {0}
  /\ DOMAIN table \subseteq 1..(nextId - 1)
  /\ \A id \in DOMAIN table : table[id] \in Row
  /\ open \in BOOLEAN /\ cancelled \in BOOLEAN
  /\ batchWorker \in {"running", "exited"} /\ cleaner \in {"running", "exited"}
  /\ closing \in {"no", "waiting", "flushed", "closed"}
  /\ copy = None \/ copy \in [id: 1..(nextId - 1), acked: BOOLEAN]
  /\ answer \in [Events -> {"none", "nil", "error"}]
  /\ old \in SUBSET Events
  /\ flushFailed \in BOOLEAN
  /\ late \in SUBSET Batched /\ lost \in SUBSET Batched
  /\ removed \in [Events -> Nat]
  /\ crashes \in 0..MaxCrashes

\* NewStorage on a fresh file: the schema is created, both workers run.
Init ==
  /\ batch = <<>> /\ table = <<>> /\ nextId = 1
  /\ open = TRUE /\ cancelled = FALSE
  /\ batchWorker = "running" /\ cleaner = "running" /\ closing = "no"
  /\ copy = None
  /\ answer = [e \in Events |-> "none"]
  /\ old = {} /\ flushFailed = FALSE
  /\ late = {} /\ lost = {} /\ removed = [e \in Events |-> 0]
  /\ crashes = 0

-----------------------------------------------------------------------------
(* Storing *)

\* packetToEvent: an unacknowledged row, whatever the enriched data says.
NewRow(e) == [event |-> e, acked |-> FALSE]

\* The table with a row for each event of s. No key but the id is unique, so
\* INSERT OR REPLACE only ever inserts.
Inserted(s) ==
  [id \in DOMAIN table \cup (nextId..(nextId + Len(s) - 1)) |->
     IF id < nextId THEN table[id] ELSE NewRow(s[id - nextId + 1])]

\* Faulty variant: the batch is cleared when the transaction fails.
ClearedIfFailed(b) == <<>>

AfterCommit(b) == <<>>
AfterRollback(b) == b

\* flushBatch on the batch b: all of it is written and the batch cleared, or
\* none of it is written and the batch kept.
Commits(b) == /\ open
              /\ table' = Inserted(b)
              /\ nextId' = nextId + Len(b)
              /\ batch' = AfterCommit(b)
              /\ flushFailed' = FALSE

RollsBack(b) == /\ batch' = AfterRollback(b)
                /\ flushFailed' = TRUE
                /\ UNCHANGED tableVars

Flush(b) == IF b = <<>> THEN UNCHANGED <<batch, tableVars, flushFailed>>
                        ELSE Commits(b) \/ RollsBack(b)

\* Faulty variant: an off-by-one in the test for a full batch.
FullByOneMore(b) == Len(b) > BatchSize
Full(b) == Len(b) >= BatchSize

\* After a failed flush StoreEvent returns the error of a batch that, the new
\* event included, is still to be written.
StoreEvent(e) ==
  /\ answer[e] = "none"
  /\ LET b == Append(batch, e)
     IN \/ /\ ~Full(b)
           /\ batch' = b
           /\ answer' = [answer EXCEPT ![e] = "nil"]
           /\ UNCHANGED <<tableVars, flushFailed>>
        \/ /\ Full(b) /\ Commits(b)
           /\ answer' = [answer EXCEPT ![e] = "nil"]
        \/ /\ Full(b) /\ RollsBack(b)
           /\ answer' = [answer EXCEPT ![e] = "error"]
  /\ late' = IF closing \in {"flushed", "closed"} THEN late \cup {e} ELSE late
  /\ UNCHANGED <<lifeVars, copy, old, lost, removed>>

StoreEventImmediate(e) ==
  /\ answer[e] = "none"
  /\ \/ /\ open
        /\ table' = Inserted(<<e>>)
        /\ nextId' = nextId + 1
        /\ answer' = [answer EXCEPT ![e] = "nil"]
     \/ /\ answer' = [answer EXCEPT ![e] = "error"]
        /\ UNCHANGED tableVars
  /\ UNCHANGED <<batch, lifeVars, copy, old, flushFailed, history>>

-----------------------------------------------------------------------------
(* Clients of stored rows *)

GetEvent(id) ==
  /\ open /\ copy = None
  /\ copy' = [id |-> id, acked |-> table[id].acked]
  /\ UNCHANGED <<batch, tableVars, lifeVars, answer, old, flushFailed, history>>

\* Faulty variant: the row is written whether or not it still exists.
Replaced(id, b) ==
  [i \in DOMAIN table \cup {id} |->
     IF i = id THEN [event |-> CHOOSE e \in Events : TRUE, acked |-> b] ELSE table[i]]

\* UPDATE ... WHERE id = ?: nothing happens when the row was deleted.
Updated(id, b) == IF id \in DOMAIN table THEN [table EXCEPT ![id].acked = b]
                                         ELSE table

UpdateEvent ==
  /\ open /\ copy # None
  /\ table' = Updated(copy.id, copy.acked)
  /\ copy' = None
  /\ UNCHANGED <<batch, nextId, lifeVars, answer, old, flushFailed, history>>

AcknowledgeEvent(id) ==
  /\ open
  /\ table' = Updated(id, TRUE)
  /\ UNCHANGED <<batch, nextId, lifeVars, copy, answer, old, flushFailed,
                 history>>

-----------------------------------------------------------------------------
(* The background workers *)

\* Faulty variant: the ticker flushes full batches only.
DueWhenFull == Full(batch)
Due == batch # <<>>

Tick ==
  /\ batchWorker = "running" /\ Due
  /\ Flush(batch)
  /\ UNCHANGED <<lifeVars, copy, answer, old, history>>

FinalFlush ==
  /\ batchWorker = "running" /\ cancelled
  /\ Flush(batch)
  /\ batchWorker' = "exited"
  /\ UNCHANGED <<open, cancelled, cleaner, closing, crashes, copy, answer, old,
                 history>>

\* The retention period of an event runs out, stored or not.
GrowsOld(e) ==
  /\ answer[e] # "none" /\ e \notin old
  /\ old' = old \cup {e}
  /\ UNCHANGED <<batch, tableVars, lifeVars, copy, answer, flushFailed, history>>

Expired == {id \in DOMAIN table : table[id].event \in old}

Cleanup ==
  /\ cleaner = "running" /\ Expired # {}
  /\ table' = [id \in DOMAIN table \ Expired |-> table[id]]
  /\ removed' = [e \in Events |-> removed[e]
                   + Cardinality({id \in Expired : table[id].event = e})]
  /\ UNCHANGED <<batch, nextId, lifeVars, copy, answer, old, flushFailed, late,
                 lost>>

CleanerExits ==
  /\ cleaner = "running" /\ cancelled
  /\ cleaner' = "exited"
  /\ UNCHANGED <<batch, tableVars, open, cancelled, batchWorker, closing,
                 crashes, copy, answer, old, flushFailed, history>>

-----------------------------------------------------------------------------
(* Close, a crash and the restart after it *)

CloseCancels ==
  /\ closing = "no"
  /\ closing' = "waiting" /\ cancelled' = TRUE
  /\ UNCHANGED <<batch, tableVars, open, batchWorker, cleaner, crashes, copy,
                 answer, old, flushFailed, history>>

\* Faulty variant: Close relies on the last flush of the batch worker.
NoSecondFlush == UNCHANGED <<batch, tableVars, flushFailed>>
SecondFlush == Flush(batch)

\* wg.Wait() returned; the error of the flush is ignored.
CloseFlushes ==
  /\ closing = "waiting"
  /\ batchWorker = "exited" /\ cleaner = "exited"
  /\ SecondFlush
  /\ closing' = "flushed"
  /\ UNCHANGED <<open, cancelled, batchWorker, cleaner, crashes, copy, answer,
                 old, history>>

CloseDb ==
  /\ closing = "flushed"
  /\ closing' = "closed" /\ open' = FALSE
  /\ UNCHANGED <<batch, tableVars, cancelled, batchWorker, cleaner, crashes,
                 copy, answer, old, flushFailed, history>>

\* The process dies and NewStorage runs again on the same file.
CrashAndRestart ==
  /\ crashes < MaxCrashes
  /\ crashes' = crashes + 1
  /\ lost' = lost \cup {batch[i] : i \in 1..Len(batch)}
  /\ batch' = <<>> /\ copy' = None
  /\ open' = TRUE /\ cancelled' = FALSE
  /\ batchWorker' = "running" /\ cleaner' = "running" /\ closing' = "no"
  /\ flushFailed' = FALSE
  /\ UNCHANGED <<tableVars, answer, old, late, removed>>

-----------------------------------------------------------------------------
Next ==
  \/ \E e \in Batched : StoreEvent(e)
  \/ \E e \in Immediate : StoreEventImmediate(e)
  \/ \E e \in Events : GrowsOld(e)
  \/ \E id \in DOMAIN table : GetEvent(id)
  \/ \E id \in 1..(nextId - 1) : AcknowledgeEvent(id)
  \/ UpdateEvent
  \/ Tick \/ FinalFlush \/ Cleanup \/ CleanerExits
  \/ CloseCancels \/ CloseFlushes \/ CloseDb
  \/ CrashAndRestart

TickCommits == Commits(batch) /\ Tick

\* The ticker fires, both workers see the cancelled context, Close runs on,
\* and a database that fails now and then does not fail at every tick.
Fairness ==
  /\ SF_vars(TickCommits)
  /\ WF_vars(FinalFlush) /\ WF_vars(CleanerExits)
  /\ WF_vars(CloseFlushes) /\ WF_vars(CloseDb)

Spec == Init /\ [][Next]_vars /\ Fairness

-----------------------------------------------------------------------------
(* Properties *)

InBatch(e) == \E i \in 1..Len(batch) : batch[i] = e

Copies(e) == Cardinality({i \in 1..Len(batch) : batch[i] = e})
               + Cardinality({id \in DOMAIN table : table[id].event = e})
               + removed[e]
               + (IF e \in lost THEN 1 ELSE 0)

\* Whatever transactions fail, and whoever flushes, an event passed to
\* StoreEvent is in the batch, or in one row, or was removed by the retention,
\* or was lost in a crash: exactly one of these, even when StoreEvent returned
\* an error.  StoreEventImmediate wrote one row iff it returned no error.
StoredOnce ==
  /\ \A e \in Batched : Copies(e) = IF answer[e] = "none" THEN 0 ELSE 1
  /\ \A e \in Immediate : Copies(e) = IF answer[e] = "nil" THEN 1 ELSE 0

\* Only a failing database lets the batch reach BatchSize.
BatchBounded == Len(batch) < BatchSize \/ flushFailed

\* Close writes everything that was batched before its last flush, unless that
\* flush failed, although callers may go on storing while it waits.
CloseLosesNothing ==
  closing = "closed" /\ ~flushFailed => \A i \in 1..Len(batch) : batch[i] \in late

\* The retention removes nothing before its time.
OnlyOldRemoved == \A e \in Events : removed[e] > 0 => e \in old

\* The types, the bound of the batch, and the time before which no row goes.
BatchAndRowsSound == TypeOK /\ BatchBounded /\ OnlyOldRemoved

RowsOf(e) == {id \in DOMAIN table : table[id].event = e}

PlaceOf(e) ==
  IF InBatch(e) THEN "waiting"
  ELSE IF RowsOf(e) # {} THEN "stored"
  ELSE IF removed[e] > 0 THEN "removed"
  ELSE IF e \in lost THEN "lost"
  ELSE IF answer[e] = "none" THEN "nowhere" ELSE "refused"

place == [e \in Events |-> PlaceOf(e)]

acknowledged == {e \in Events : \E id \in RowsOf(e) : table[id].acked}

Store == INSTANCE EventStore WITH
           Deferred <- Batched, place <- place, old <- old, acked <- acknowledged

\* Every event keeps the course EventStore allows: the whole batch is written
\* or none of it, a crash takes the batch and no row, only the retention
\* removes, and neither a client that writes its copy back late nor a late
\* acknowledgement brings a removed event back.
KeepsEvents == Store!Spec

\* A batched event is written even when no other event follows it.
BatchIsWritten == \A e \in Batched : InBatch(e) ~> (~InBatch(e) \/ closing # "no")
=============================================================================
