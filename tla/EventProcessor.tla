--------------------------- MODULE EventProcessor ---------------------------
(***************************************************************************)
(* The event processor (internal/events/events.go).  ProcessEvent hands a  *)
(* task to a bounded channel and waits for its result or a timeout; the    *)
(* workers correlate and store the event, and put a failed task back from  *)
(* a goroutine of its own after RetryDelay.  ProcessEventSync does the     *)
(* same work on the caller's goroutine, without queue and retry.  Of the   *)
(* correlator only the hashes it still remembers matter here, of the       *)
(* storage only whether an insert succeeds.  Enrichment (a module of its   *)
(* own) always ends and never fails; it is part of the step that starts    *)
(* the processing.                                                         *)
(***************************************************************************)
EXTENDS Integers, Sequences, FiniteSets

CONSTANTS Queued,         \* events passed to ProcessEvent
          Direct,         \* events passed to ProcessEventSync
          Hash,           \* [events -> hashes]: the correlator's event hash
          QueueSize,      \* cap(eventQueue)
          RetryAttempts,  \* config.RetryAttempts
          Workers         \* config.MaxConcurrentEvents worker goroutines

Events == Queued \cup Direct
Hashes == {Hash[e] : e \in Events}
Agents == Workers \cup Direct       \* the goroutines that process events
None == <<>>

ASSUME ProcessorAssumption ==
  /\ Queued \cap Direct = {} /\ Workers \cap Direct = {}
  /\ DOMAIN Hash = Events
  /\ QueueSize \in Nat \ {0}
  /\ RetryAttempts \in Nat
  /\ None \notin Events
  /\ IsFiniteSet(Events) /\ IsFiniteSet(Workers)

VARIABLES
  queue,      \* eventQueue, oldest task first
  cancelled,  \* p.ctx is done
  closed,     \* eventQueue was closed
  at,         \* program counter of each agent
  job,        \* the event an agent works on
  ok,         \* whether the processing of it succeeded
  attempts,   \* task.Attempts
  sleeping,   \* tasks held by a retry goroutine that sleeps RetryDelay
  result,     \* task.ResultChan, a channel with room for one result
  caller,     \* what the caller of each event does or was told
  recent,     \* hashes the correlator would call duplicates
  duplicate,  \* is_duplicate, as the last attempt set it
  stats,      \* ProcessorStats
  rows,       \* history: rows stored for each event
  tried,      \* history: inserts tried for each event
  sends,      \* history: results put into each ResultChan
  panic       \* "no", or the goroutine that sent on the closed channel

procVars == <<at, job, ok>>
chanVars == <<result, sends>>
corrVars == <<recent, duplicate>>
histVars == <<rows, tried>>
vars == <<queue, cancelled, closed, at, job, ok, attempts, sleeping, result,
          caller, recent, duplicate, stats, rows, tried, sends, panic>>

Verdicts == {"ok", "fail"}

TypeOK ==
  /\ queue \in Seq(Queued)
  /\ cancelled \in BOOLEAN /\ closed \in BOOLEAN
  /\ at \in [Agents -> {"idle", "correlate", "store", "finish", "exited"}]
  /\ job \in [Agents -> Events \cup {None}]
  /\ ok \in [Agents -> BOOLEAN]
  /\ attempts \in [Queued -> 0..RetryAttempts]
  /\ sleeping \in SUBSET Queued
  /\ result \in [Queued -> Verdicts \cup {"empty"}]
  /\ caller \in [Events -> {"none", "waiting", "refused", "timeout"} \cup Verdicts]
  /\ recent \in SUBSET Hashes
  /\ duplicate \in [Events -> BOOLEAN]
  /\ stats \in [received: Nat, processed: Nat, failed: Nat, stored: Nat,
                active: Nat, retries: Nat, timeouts: Nat]
  /\ rows \in [Events -> Nat] /\ tried \in [Events -> Nat]
  /\ sends \in [Queued -> Nat]
  /\ panic \in {"no", "caller", "retry"}

Init ==
  /\ queue = <<>> /\ cancelled = FALSE /\ closed = FALSE
  /\ at = [a \in Agents |-> "idle"]
  /\ job = [a \in Agents |-> None]
  /\ ok = [a \in Agents |-> FALSE]
  /\ attempts = [e \in Queued |-> 0]
  /\ sleeping = {}
  /\ result = [e \in Queued |-> "empty"]
  /\ caller = [e \in Events |-> "none"]
  /\ recent = {}
  /\ duplicate = [e \in Events |-> FALSE]
  /\ stats = [received |-> 0, processed |-> 0, failed |-> 0, stored |-> 0,
              active |-> 0, retries |-> 0, timeouts |-> 0]
  /\ rows = [e \in Events |-> 0] /\ tried = [e \in Events |-> 0]
  /\ sends = [e \in Queued |-> 0]
  /\ panic = "no"

HasRoom == Len(queue) < QueueSize

\* Faulty variant: the error of the insert is swallowed.
ReportedOk(a) == "ok"
\* What processEventInternal returned, as the caller is told it.
Reported(a) == IF ok[a] THEN "ok" ELSE "fail"

-----------------------------------------------------------------------------
(* ProcessEvent *)

Submit(e) ==
  /\ caller[e] = "none"
  /\ stats' = [stats EXCEPT !.received = @ + 1]
  /\ \/ /\ ~closed /\ HasRoom
        /\ queue' = Append(queue, e)
        /\ caller' = [caller EXCEPT ![e] = "waiting"]
        /\ UNCHANGED panic
     \/ /\ ~closed /\ ~HasRoom
        /\ caller' = [caller EXCEPT ![e] = "refused"]
        /\ UNCHANGED <<queue, panic>>
     \/ /\ closed
        /\ panic' = "caller"
        /\ UNCHANGED <<queue, caller>>
  /\ UNCHANGED <<cancelled, closed, procVars, attempts, sleeping, chanVars,
                 corrVars, histVars>>

Receive(e) ==
  /\ caller[e] = "waiting" /\ result[e] # "empty"
  /\ caller' = [caller EXCEPT ![e] = result[e]]
  /\ result' = [result EXCEPT ![e] = "empty"]
  /\ UNCHANGED <<queue, cancelled, closed, procVars, attempts, sleeping, sends,
                 corrVars, stats, histVars, panic>>

\* ProcessingTimeout runs out; the task is not withdrawn.
Timeout(e) ==
  /\ caller[e] = "waiting"
  /\ caller' = [caller EXCEPT ![e] = "timeout"]
  /\ stats' = [stats EXCEPT !.timeouts = @ + 1]
  /\ UNCHANGED <<queue, cancelled, closed, procVars, attempts, sleeping,
                 chanVars, corrVars, histVars, panic>>

-----------------------------------------------------------------------------
(* processEventInternal, on a worker or on the caller of ProcessEventSync *)

Correlate(a) ==
  /\ at[a] = "correlate"
  /\ duplicate' = [duplicate EXCEPT ![job[a]] = Hash[job[a]] \in recent]
  /\ recent' = recent \cup {Hash[job[a]]}
  /\ at' = [at EXCEPT ![a] = "store"]
  /\ UNCHANGED <<queue, cancelled, closed, job, ok, attempts, sleeping,
                 chanVars, caller, stats, histVars, panic>>

\* The deduplication window of a hash runs out.
Forget(h) ==
  /\ h \in recent
  /\ recent' = recent \ {h}
  /\ UNCHANGED <<queue, cancelled, closed, procVars, attempts, sleeping,
                 chanVars, caller, duplicate, stats, histVars, panic>>

Store(a) ==
  /\ at[a] = "store"
  /\ rows' = [rows EXCEPT ![job[a]] = @ + 1]
  /\ tried' = [tried EXCEPT ![job[a]] = @ + 1]
  /\ stats' = [stats EXCEPT !.stored = @ + 1]
  /\ ok' = [ok EXCEPT ![a] = TRUE]
  /\ at' = [at EXCEPT ![a] = "finish"]
  /\ UNCHANGED <<queue, cancelled, closed, job, attempts, sleeping, chanVars,
                 caller, corrVars, panic>>

StoreFails(a) ==
  /\ at[a] = "store"
  /\ tried' = [tried EXCEPT ![job[a]] = @ + 1]
  /\ ok' = [ok EXCEPT ![a] = FALSE]
  /\ at' = [at EXCEPT ![a] = "finish"]
  /\ UNCHANGED <<queue, cancelled, closed, job, attempts, sleeping, chanVars,
                 caller, corrVars, stats, rows, panic>>

CallSync(e) ==
  /\ caller[e] = "none"
  /\ caller' = [caller EXCEPT ![e] = "waiting"]
  /\ stats' = [stats EXCEPT !.received = @ + 1]
  /\ job' = [job EXCEPT ![e] = e]
  /\ at' = [at EXCEPT ![e] = "correlate"]
  /\ UNCHANGED <<queue, cancelled, closed, ok, attempts, sleeping, chanVars,
                 corrVars, histVars, panic>>

ReturnSync(e) ==
  /\ at[e] = "finish"
  /\ stats' = [stats EXCEPT !.processed = @ + (IF ok[e] THEN 1 ELSE 0),
                            !.failed = @ + (IF ok[e] THEN 0 ELSE 1)]
  /\ caller' = [caller EXCEPT ![e] = Reported(e)]
  /\ at' = [at EXCEPT ![e] = "exited"]
  /\ UNCHANGED <<queue, cancelled, closed, job, ok, attempts, sleeping,
                 chanVars, corrVars, histVars, panic>>

-----------------------------------------------------------------------------
(* The workers and the retry goroutines *)

\* A closed channel still yields the tasks it holds.
Take(w) ==
  /\ at[w] = "idle" /\ queue # <<>>
  /\ job' = [job EXCEPT ![w] = Head(queue)]
  /\ queue' = Tail(queue)
  /\ at' = [at EXCEPT ![w] = "correlate"]
  /\ stats' = [stats EXCEPT !.active = @ + 1]
  /\ UNCHANGED <<cancelled, closed, ok, attempts, sleeping, chanVars, caller,
                 corrVars, histVars, panic>>

\* Faulty variant: only the closed and drained channel ends a worker, and the
\* channel is closed only once the context is done.
LeavesWhenDrained == closed /\ queue = <<>> /\ ~cancelled
\* Faulty variant: a worker leaves when it finds no task.
LeavesWhenIdle == cancelled \/ queue = <<>>
Leaves == cancelled \/ (closed /\ queue = <<>>)

Exit(w) ==
  /\ at[w] = "idle" /\ Leaves
  /\ at' = [at EXCEPT ![w] = "exited"]
  /\ UNCHANGED <<queue, cancelled, closed, job, ok, attempts, sleeping,
                 chanVars, caller, corrVars, stats, histVars, panic>>

\* Faulty variant: the first attempt is not counted as one.
RetriesOnceMore(w) == ~ok[w] /\ attempts[job[w]] <= RetryAttempts
Retries(w) == ~ok[w] /\ attempts[job[w]] < RetryAttempts

CountRetry(w) == [stats EXCEPT !.active = @ - 1, !.failed = @ + 1,
                               !.retries = @ + 1]

Retry(w) ==
  /\ at[w] = "finish" /\ Retries(w)
  /\ attempts' = [attempts EXCEPT ![job[w]] = @ + 1]
  /\ sleeping' = sleeping \cup {job[w]}
  /\ stats' = CountRetry(w)
  /\ at' = [at EXCEPT ![w] = "idle"]
  /\ job' = [job EXCEPT ![w] = None]
  /\ UNCHANGED <<queue, cancelled, closed, ok, chanVars, caller, corrVars,
                 histVars, panic>>

\* The non-blocking send of the result; the caller may be gone by now.
Finish(w) ==
  /\ at[w] = "finish" /\ ~Retries(w)
  /\ stats' = [stats EXCEPT !.active = @ - 1,
                            !.processed = @ + (IF ok[w] THEN 1 ELSE 0),
                            !.failed = @ + (IF ok[w] THEN 0 ELSE 1)]
  /\ IF result[job[w]] = "empty"
     THEN /\ result' = [result EXCEPT ![job[w]] = Reported(w)]
          /\ sends' = [sends EXCEPT ![job[w]] = @ + 1]
     ELSE UNCHANGED chanVars
  /\ at' = [at EXCEPT ![w] = "idle"]
  /\ job' = [job EXCEPT ![w] = None]
  /\ UNCHANGED <<queue, cancelled, closed, ok, attempts, sleeping, caller,
                 corrVars, histVars, panic>>

\* Faulty variant: the goroutine keeps the task after it was requeued.
KeepSleeping(e) == sleeping
Woken(e) == sleeping \ {e}

Requeue(e) ==
  /\ e \in sleeping /\ ~closed /\ HasRoom
  /\ queue' = Append(queue, e)
  /\ sleeping' = Woken(e)
  /\ UNCHANGED <<cancelled, closed, procVars, attempts, chanVars, caller,
                 corrVars, stats, histVars, panic>>

\* Faulty variant: after "queue full" the goroutine tries once more.
KeepsTrying(e) == sleeping
GivenUp(e) == sleeping \ {e}

\* "retry failed: queue full": this send blocks while a result is in the way.
RequeueFails(e) ==
  /\ e \in sleeping /\ ~closed /\ ~HasRoom
  /\ result[e] = "empty"
  /\ result' = [result EXCEPT ![e] = "fail"]
  /\ sends' = [sends EXCEPT ![e] = @ + 1]
  /\ sleeping' = GivenUp(e)
  /\ UNCHANGED <<queue, cancelled, closed, procVars, attempts, caller,
                 corrVars, stats, histVars, panic>>

RequeueOnClosed(e) ==
  /\ e \in sleeping /\ closed
  /\ panic' = "retry"
  /\ UNCHANGED <<queue, cancelled, closed, procVars, attempts, sleeping,
                 chanVars, caller, corrVars, stats, histVars>>

-----------------------------------------------------------------------------
(* Close: the context is cancelled, the channel is closed at once, and the  *)
(* workers are awaited.                                                     *)

Cancel == /\ ~cancelled
          /\ cancelled' = TRUE
          /\ UNCHANGED <<queue, closed, procVars, attempts, sleeping, chanVars,
                         caller, corrVars, stats, histVars, panic>>

CloseQueue == /\ cancelled /\ ~closed
              /\ closed' = TRUE
              /\ UNCHANGED <<queue, cancelled, procVars, attempts, sleeping,
                             chanVars, caller, corrVars, stats, histVars, panic>>

WorkersGone == \A w \in Workers : at[w] = "exited"

-----------------------------------------------------------------------------
Process(a) == Correlate(a) \/ Store(a) \/ StoreFails(a)
Work(w) == Take(w) \/ Process(w) \/ Retry(w) \/ Finish(w)
Wake(e) == Requeue(e) \/ RequeueFails(e) \/ RequeueOnClosed(e)

Next == /\ panic = "no"
        /\ \/ \E e \in Queued : Submit(e) \/ Receive(e) \/ Timeout(e) \/ Wake(e)
           \/ \E e \in Direct : CallSync(e) \/ Process(e) \/ ReturnSync(e)
           \/ \E w \in Workers : Work(w) \/ Exit(w)
           \/ \E h \in Hashes : Forget(h)
           \/ Cancel \/ CloseQueue

\* Goroutines are scheduled, inserts return, sleeps and timeouts end, and
\* Close runs on once called.
Fairness ==
  /\ \A e \in Queued : /\ WF_vars(panic = "no" /\ (Receive(e) \/ Timeout(e)))
                       /\ WF_vars(panic = "no" /\ Wake(e))
  /\ \A e \in Direct : WF_vars(panic = "no" /\ (Process(e) \/ ReturnSync(e)))
  /\ \A w \in Workers : /\ WF_vars(panic = "no" /\ Work(w))
                        /\ WF_vars(panic = "no" /\ Exit(w))
  /\ WF_vars(panic = "no" /\ CloseQueue)

Spec == Init /\ [][Next]_vars /\ Fairness

-----------------------------------------------------------------------------
(* Properties *)

InQueue(e) == \E i \in 1..Len(queue) : queue[i] = e
Held(e)    == \E w \in Workers : at[w] \in {"correlate", "store", "finish"}
                                   /\ job[w] = e
Live(e)    == InQueue(e) \/ Held(e) \/ e \in sleeping

\* A task is in the queue once, with one worker, or with one retry goroutine,
\* and nowhere else: its Attempts field, which nothing locks, has one owner.
OneOwner ==
  /\ \A i, j \in 1..Len(queue) : queue[i] = queue[j] => i = j
  /\ \A v, w \in Workers : (job[v] = job[w] /\ job[v] # None) => v = w
  /\ \A e \in Queued : /\ ~(InQueue(e) /\ Held(e))
                       /\ ~(InQueue(e) /\ e \in sleeping)
                       /\ ~(Held(e) /\ e \in sleeping)

\* A task gets one result in its life, after its last attempt, so the send of
\* the retry goroutine, the only blocking one, finds the channel empty.
OneResult == \A e \in Queued : /\ sends[e] <= 1
                               /\ Live(e) => sends[e] = 0 /\ result[e] = "empty"

\* What a caller is told is what happened: success iff the event was stored,
\* exactly once, however often it was tried.  Only a timeout tells nothing.
ResultIsTruthful ==
  \A e \in Events : /\ rows[e] <= 1
                    /\ caller[e] = "ok" => rows[e] = 1
                    /\ caller[e] \in {"fail", "refused"} => rows[e] = 0

\* The counters agree: every failed attempt of a worker is a retry or ends its
\* task, and ActiveWorkers counts the workers inside a task.
StatsAgree ==
  /\ stats.active = Cardinality({w \in Workers : job[w] # None})
  /\ stats.stored = stats.processed
       + Cardinality({a \in Agents : at[a] = "finish" /\ ok[a]})
  /\ stats.retries <= stats.failed
  /\ stats.received = Cardinality({e \in Events : caller[e] # "none"})
                        + (IF panic = "caller" THEN 1 ELSE 0)

\* The types, one owner and one result for each task, and statistics that agree.
ResultsAccounted == TypeOK /\ OneOwner /\ OneResult /\ StatsAgree

\* Without a Close every accepted task ends with a result for its caller,
\* through retries and full queues.
EveryTaskAnswered ==
  \A e \in Queued : Live(e) ~> (sends[e] = 1 \/ cancelled \/ panic # "no")

\* Close ends: each worker leaves, unless the process went down before.
CloseReturns == cancelled ~> (WorkersGone \/ panic # "no")

Decided(e) == \E w \in Workers : job[w] = e /\ at[w] = "finish" /\ ~Retries(w)

\* What the promise calls the state of a queued event: a row decides before the
\* caller hears of it, and an event whose retry found the queue full has not
\* used the attempt that was counted for it.
StatusOf(e) ==
  IF caller[e] \in {"none", "refused"} THEN caller[e]
  ELSE IF rows[e] > 0 THEN "delivered"
  ELSE IF Live(e) /\ ~Decided(e) THEN "pending"
  ELSE IF tried[e] > attempts[e] THEN "failed" ELSE "dropped"

status == [e \in Queued |-> StatusOf(e)]

Promise == INSTANCE Outbox WITH
             Tasks <- Queued, Budget <- [e \in Queued |-> RetryAttempts + 1],
             status <- status, tries <- [e \in Queued |-> tried[e]]

\* The processor keeps the promise the notifier makes for its tasks: an event
\* taken into the queue is stored, failed after at most RetryAttempts + 1
\* inserts, or given up between two of them, and it is never inserted again
\* afterwards, whether or not its caller still waits.
KeepsPromise == Promise!Spec

\* "Close shuts down the event processor" (events.go:506): a retry goroutine
\* that sleeps meanwhile does not bring the process down.
CloseIsSafe == panic # "retry"

\* "Automatic duplicate event detection" (README.md:20): an event that is the
\* only one with its hash is never stored as a duplicate.
NotItsOwnDuplicate ==
  \A e \in Events :
    (/\ rows[e] > 0 /\ duplicate[e]) =>
      \E f \in Events \ {e} : Hash[f] = Hash[e] /\ caller[f] # "none"
=============================================================================
