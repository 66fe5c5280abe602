---------------------------- MODULE StorageProofs -----------------------------
(***************************************************************************)
(* Proofs about Storage for any events, any size of the batch and any      *)
(* number of crashes.  IInv says that an event has at most one entry in    *)
(* the batch and one row, and that of its entry, its row, its removal and  *)
(* its loss an accepted event has exactly one.                             *)
(***************************************************************************)
EXTENDS Storage, FiniteSetTheorems, TLAPS

-----------------------------------------------------------------------------
(* The invariant *)

InSeq(q, x) == \E i \in 1..Len(q) : q[i] = x
Distinct(q) == \A i, j \in 1..Len(q) : q[i] = q[j] => i = j

\* What is known of one event: it is in one place, if it was accepted at all.
HasRow(e) == \E id \in DOMAIN table : table[id].event = e
Taken(e)  == IF e \in Batched THEN answer[e] # "none" ELSE answer[e] = "nil"
Spot(e) ==
  /\ ~(InBatch(e) /\ HasRow(e))
  /\ removed[e] \in {0, 1}
  /\ removed[e] = 1 => ~InBatch(e) /\ ~HasRow(e) /\ e \notin lost
  /\ e \in lost => ~InBatch(e) /\ ~HasRow(e)
  /\ Taken(e) <=> InBatch(e) \/ HasRow(e) \/ removed[e] = 1 \/ e \in lost

OneRow == \A i, j \in DOMAIN table : table[i].event = table[j].event => i = j

\* Once Close has flushed, what is in the batch came after, unless it failed.
LateOK == closing \in {"flushed", "closed"} /\ ~flushFailed
            => \A i \in 1..Len(batch) : batch[i] \in late

IInv == /\ TypeOK /\ BatchBounded /\ OnlyOldRemoved
        /\ Distinct(batch) /\ OneRow /\ (\A e \in Events : Spot(e))
        /\ LateOK

\* NewStorage on a fresh file: an empty batch and an empty table.
LEMMA IInit == Init => IInv
<1> SUFFICES ASSUME Init PROVE IInv
  OBVIOUS
<1>1. /\ DOMAIN table = {} /\ Len(batch) = 0 /\ 1..Len(batch) = {}
      /\ batch \in Seq(Batched)
  BY DEF Init
<1>2. TypeOK
  <2>1. 0 \in 0..MaxCrashes /\ nextId \in Nat \ {0}
    BY StorageAssumption DEF Init
  <2>2. DOMAIN table \subseteq 1..(nextId - 1) /\ \A id \in DOMAIN table : table[id] \in Row
    BY <1>1
  <2>3. answer \in [Events -> {"none", "nil", "error"}] /\ removed \in [Events -> Nat]
    BY DEF Init
  <2>4. late \in SUBSET Batched /\ lost \in SUBSET Batched /\ old \in SUBSET Events
    BY DEF Init
  <2>5. QED  BY <1>1, <2>1, <2>2, <2>3, <2>4 DEF Init, TypeOK
<1>3. BatchBounded /\ OnlyOldRemoved /\ LateOK /\ Distinct(batch) /\ OneRow
  BY <1>1, StorageAssumption DEF Init, BatchBounded, OnlyOldRemoved, LateOK, Distinct, OneRow
<1>4. \A e \in Events : Spot(e)
  BY <1>1 DEF Init, Spot, InBatch, HasRow, Taken, Events
<1>5. QED  BY <1>2, <1>3, <1>4 DEF IInv

\* The types by which the proofs below work.
LEMMA Types ==
  ASSUME TypeOK
  PROVE  /\ batch \in Seq(Batched) /\ Len(batch) \in Nat /\ nextId \in Nat \ {0}
         /\ DOMAIN table \subseteq 1..(nextId - 1) /\ \A id \in DOMAIN table : table[id] \in Row
         /\ answer \in [Events -> {"none", "nil", "error"}] /\ removed \in [Events -> Nat]
         /\ old \in SUBSET Events /\ late \in SUBSET Batched /\ lost \in SUBSET Batched
         /\ flushFailed \in BOOLEAN
         /\ Batched \subseteq Events /\ Immediate \subseteq Events /\ Batched \cap Immediate = {}
         /\ Events = Batched \cup Immediate /\ BatchSize \in Nat \ {0}
BY StorageAssumption DEF TypeOK, Events

\* What StoreEvent does to the batch.
LEMMA AppendLemma ==
  ASSUME NEW S, NEW q \in Seq(S), NEW x \in S
  PROVE  /\ Append(q, x) \in Seq(S)
         /\ \A y : InSeq(Append(q, x), y) <=> InSeq(q, y) \/ y = x
         /\ Distinct(q) /\ ~InSeq(q, x) => Distinct(Append(q, x))
<1>1. /\ Append(q, x) \in Seq(S)
      /\ Len(Append(q, x)) = Len(q) + 1
      /\ \A i \in 1..Len(q) : Append(q, x)[i] = q[i]
      /\ Append(q, x)[Len(q) + 1] = x
      /\ Len(q) \in Nat
  OBVIOUS
<1>2. 1..Len(Append(q, x)) = (1..Len(q)) \cup {Len(q) + 1}
  BY <1>1
<1>3. \A y : InSeq(Append(q, x), y) <=> InSeq(q, y) \/ y = x
  BY <1>1, <1>2 DEF InSeq
<1>4. ASSUME Distinct(q), ~InSeq(q, x)
      PROVE  Distinct(Append(q, x))
  BY <1>1, <1>2, <1>4 DEF Distinct, InSeq
<1>5. QED
  BY <1>1, <1>3, <1>4

-----------------------------------------------------------------------------
(* The table *)

\* One transaction gives each event of s a new row and touches no other.
LEMMA InsertLemma ==
  ASSUME TypeOK, NEW s \in Seq(Events), table' = Inserted(s), nextId' = nextId + Len(s)
  PROVE  /\ nextId' \in Nat \ {0} /\ nextId' >= nextId
         /\ DOMAIN table' \subseteq 1..(nextId' - 1) /\ \A id \in DOMAIN table' : table'[id] \in Row
         /\ \A id \in DOMAIN table : id \in DOMAIN table' /\ table'[id] = table[id]
         /\ \A id \in DOMAIN table' \ DOMAIN table : ~table'[id].acked /\ InSeq(s, table'[id].event)
         /\ \A e : HasRow(e)' <=> HasRow(e) \/ InSeq(s, e)
         /\ OneRow /\ Distinct(s) /\ (\A i \in 1..Len(s) : ~HasRow(s[i])) => OneRow'
<1> DEFINE New == nextId..(nextId + Len(s) - 1)
<1>0. /\ nextId \in Nat \ {0} /\ Len(s) \in Nat /\ \A i \in 1..Len(s) : s[i] \in Events
      /\ \A id \in DOMAIN table : id \in 1..(nextId - 1) /\ table[id] \in Row
  BY Types
<1>1. nextId' \in Nat \ {0} /\ nextId' >= nextId
  BY <1>0
<1>2. \A id \in New : id - nextId + 1 \in 1..Len(s)
  BY <1>0
<1>3. DOMAIN table' = DOMAIN table \cup New
  BY DEF Inserted
<1>4. \A id \in DOMAIN table : id \notin New /\ table'[id] = table[id]
  BY <1>0, <1>3 DEF Inserted
<1>5. \A id \in New : table'[id] = NewRow(s[id - nextId + 1])
  BY <1>0, <1>3 DEF Inserted
<1>6. \A id \in New : table'[id] \in Row /\ ~table'[id].acked /\ table'[id].event = s[id - nextId + 1]
                      /\ InSeq(s, table'[id].event)
  <2>1. \A e \in Events : NewRow(e) \in Row /\ ~NewRow(e).acked /\ NewRow(e).event = e
    BY DEF NewRow, Row
  <2>2. \A id \in New : table'[id] \in Row /\ ~table'[id].acked /\ table'[id].event = s[id - nextId + 1]
    BY <1>0, <1>2, <1>5, <2>1
  <2>3. QED  BY <1>2, <2>2 DEF InSeq
<1>7. DOMAIN table' \subseteq 1..(nextId' - 1) /\ \A id \in DOMAIN table' : table'[id] \in Row
  BY <1>0, <1>3, <1>4, <1>6
<1>8. ASSUME NEW e, InSeq(s, e) PROVE HasRow(e)'
  <2>1. PICK i \in 1..Len(s) : s[i] = e
    BY <1>8 DEF InSeq
  <2>2. nextId + i - 1 \in New /\ (nextId + i - 1) - nextId + 1 = i
    BY <1>0
  <2>3. table'[nextId + i - 1].event = e
    BY <1>6, <2>1, <2>2
  <2>4. QED  BY <1>3, <2>2, <2>3 DEF HasRow
<1>9. \A e : HasRow(e)' <=> HasRow(e) \/ InSeq(s, e)
  <2>1. \A e : HasRow(e) => HasRow(e)'
    BY <1>3, <1>4 DEF HasRow
  <2>2. \A e : HasRow(e)' => HasRow(e) \/ InSeq(s, e)
    BY <1>3, <1>4, <1>6 DEF HasRow
  <2>3. QED  BY <1>8, <2>1, <2>2
<1>10. ASSUME OneRow, Distinct(s), \A i \in 1..Len(s) : ~HasRow(s[i])
       PROVE  OneRow'
  <2>1. ASSUME NEW i \in New, NEW j \in New, table'[i].event = table'[j].event PROVE i = j
    <3>1. i - nextId + 1 = j - nextId + 1
      BY <1>2, <1>6, <1>10, <2>1 DEF Distinct
    <3>2. QED  BY <1>0, <3>1
  <2>2. \A i \in DOMAIN table : \A j \in New : table'[i].event # table'[j].event
    BY <1>2, <1>4, <1>6, <1>10 DEF HasRow
  <2>3. \A i, j \in DOMAIN table : table'[i].event = table'[j].event => i = j
    BY <1>4, <1>10 DEF OneRow
  <2>4. QED  BY <1>3, <2>1, <2>2, <2>3 DEF OneRow
<1>11. QED  BY <1>1, <1>3, <1>4, <1>6, <1>7, <1>9, <1>10

\* A client that writes its copy back, or acknowledges, keeps every event.
LEMMA UpdateLemma ==
  ASSUME TypeOK, OneRow, NEW id, NEW b \in BOOLEAN, table' = Updated(id, b)
  PROVE  /\ DOMAIN table' = DOMAIN table
         /\ \A i \in DOMAIN table : /\ table'[i] \in Row /\ table'[i].event = table[i].event
                                    /\ i # id => table'[i] = table[i]
                                    /\ i = id => table'[i].acked = b
         /\ OneRow' /\ \A e : HasRow(e)' <=> HasRow(e)
<1>1. \A i \in DOMAIN table : table[i] \in Row
  BY Types
<1>2. /\ DOMAIN table' = DOMAIN table
      /\ \A i \in DOMAIN table : i # id => table'[i] = table[i]
      /\ \A i \in DOMAIN table : i = id => table'[i] = [table[i] EXCEPT !.acked = b]
  BY DEF Updated
<1>3. \A i \in DOMAIN table : /\ table'[i] \in Row /\ table'[i].event = table[i].event
                              /\ i = id => table'[i].acked = b
  BY <1>1, <1>2 DEF Row
<1>4. QED  BY <1>2, <1>3 DEF OneRow, HasRow

-----------------------------------------------------------------------------
(* The steps *)

\* What concerns types alone.
BatchTypes == batch \in Seq(Batched) /\ flushFailed \in BOOLEAN
TableTypes == /\ nextId \in Nat \ {0} /\ DOMAIN table \subseteq 1..(nextId - 1)
              /\ \A id \in DOMAIN table : table[id] \in Row
OtherTypes ==
  /\ open \in BOOLEAN /\ cancelled \in BOOLEAN
  /\ batchWorker \in {"running", "exited"} /\ cleaner \in {"running", "exited"}
  /\ closing \in {"no", "waiting", "flushed", "closed"}
  /\ answer \in [Events -> {"none", "nil", "error"}]
  /\ old \in SUBSET Events
  /\ late \in SUBSET Batched /\ lost \in SUBSET Batched
  /\ removed \in [Events -> Nat]
  /\ crashes \in 0..MaxCrashes
CopyType == copy = None \/ copy \in [id: 1..(nextId - 1), acked: BOOLEAN]

\* TypeOK in these parts.
LEMMA TypeParts ==
  /\ TypeOK <=> BatchTypes /\ TableTypes /\ OtherTypes /\ CopyType
  /\ TypeOK' <=> BatchTypes' /\ TableTypes' /\ OtherTypes' /\ CopyType'
BY DEF TypeOK, BatchTypes, TableTypes, OtherTypes, CopyType

\* Ids that were given out stay given out.
LEMMA RangeGrows == ASSUME NEW m \in Nat, NEW n \in Nat, n >= m PROVE 1..(m - 1) \subseteq 1..(n - 1)
OBVIOUS

\* A copy that no step touches keeps its type, as the ids only grow.
LEMMA CopyStays ==
  ASSUME TypeOK, nextId' \in Nat, nextId' >= nextId, copy' = copy
  PROVE  CopyType'
<1>1. nextId \in Nat /\ CopyType
  BY DEF TypeOK, CopyType
<1>2. 1..(nextId - 1) \subseteq 1..(nextId' - 1)
  BY <1>1, RangeGrows
<1>3. QED  BY <1>1, <1>2 DEF CopyType

\* An event keeps its place, or an event nobody took gets one.
LEMMA SpotMoves ==
  ASSUME NEW e \in Events, Spot(e), NEW new \in BOOLEAN, new => ~Taken(e),
         ~(InBatch(e)' /\ HasRow(e)'), removed'[e] = removed[e], e \in lost' <=> e \in lost,
         InBatch(e)' \/ HasRow(e)' <=> InBatch(e) \/ HasRow(e) \/ new,
         Taken(e)' <=> Taken(e) \/ new
  PROVE  Spot(e)'
BY DEF Spot

\* flushBatch: all of b in the table, or all of it in the batch.
LEMMA FlushMoves ==
  ASSUME TypeOK, OneRow, NEW b \in Seq(Batched), Distinct(b), \A i \in 1..Len(b) : ~HasRow(b[i]),
         Commits(b) \/ RollsBack(b)
  PROVE  /\ BatchTypes' /\ TableTypes' /\ nextId' >= nextId /\ Distinct(batch') /\ OneRow'
         /\ flushFailed' \/ batch' = <<>>
         /\ \A e : InBatch(e)' \/ HasRow(e)' <=> InSeq(b, e) \/ HasRow(e)
         /\ \A e : ~(InBatch(e)' /\ HasRow(e)')
<1>0. \A e : InSeq(b, e) => ~HasRow(e)
  BY DEF InSeq
<1>1. CASE Commits(b)
  <2>1. table' = Inserted(b) /\ nextId' = nextId + Len(b) /\ batch' = <<>> /\ flushFailed' = FALSE
    BY <1>1 DEF Commits, AfterCommit
  <2>2. b \in Seq(Events)
    BY Types
  <2>3. TableTypes' /\ nextId' >= nextId /\ OneRow' /\ \A e : HasRow(e)' <=> HasRow(e) \/ InSeq(b, e)
    BY <2>1, <2>2, InsertLemma DEF TableTypes
  <2>4. 1..Len(batch') = {} /\ batch' \in Seq(Batched)
    BY <2>1
  <2>5. BatchTypes' /\ Distinct(batch') /\ \A e : ~InBatch(e)'
    BY <2>1, <2>4 DEF BatchTypes, Distinct, InBatch
  <2>6. QED  BY <2>1, <2>3, <2>5
<1>2. CASE RollsBack(b)
  <2>1. batch' = b /\ flushFailed' = TRUE /\ table' = table /\ nextId' = nextId
    BY <1>2 DEF RollsBack, AfterRollback, tableVars
  <2>2. TableTypes' /\ nextId' >= nextId /\ OneRow' /\ \A e : HasRow(e)' <=> HasRow(e)
    BY <2>1, Types DEF TableTypes, OneRow, HasRow
  <2>3. BatchTypes' /\ Distinct(batch') /\ \A e : InBatch(e)' <=> InSeq(b, e)
    BY <2>1 DEF BatchTypes, InBatch, InSeq
  <2>4. QED  BY <1>0, <2>1, <2>2, <2>3
<1>3. QED  BY <1>1, <1>2

\* The same of the batch as it is, for the ticker and both flushes of Close.
LEMMA FlushBatch ==
  ASSUME IInv, Flush(batch)
  PROVE  /\ BatchTypes' /\ TableTypes' /\ nextId' >= nextId /\ Distinct(batch') /\ OneRow'
         /\ \/ flushFailed' \/ batch' = <<>>
         /\ \A e \in Events : InBatch(e)' \/ HasRow(e)' <=> InBatch(e) \/ HasRow(e)
         /\ \A e \in Events : ~(InBatch(e)' /\ HasRow(e)')
<1>0. /\ TypeOK /\ OneRow /\ Distinct(batch) /\ \A e \in Events : ~(InBatch(e) /\ HasRow(e))
  BY DEF IInv, Spot
<1>1. CASE batch = <<>>
  <2>1. UNCHANGED <<batch, table, nextId, flushFailed>>
    BY <1>1 DEF Flush, tableVars
  <2>2. BatchTypes' /\ TableTypes' /\ nextId' >= nextId
    BY <1>0, <2>1, Types DEF BatchTypes, TableTypes
  <2>3. \A e \in Events : (InBatch(e)' <=> InBatch(e)) /\ (HasRow(e)' <=> HasRow(e))
    BY <2>1 DEF InBatch, HasRow
  <2>4. QED  BY <1>0, <1>1, <2>1, <2>2, <2>3 DEF OneRow
<1>2. CASE batch # <<>>
  <2>1. Commits(batch) \/ RollsBack(batch)
    BY <1>2 DEF Flush
  <2>2. batch \in Seq(Batched)
    BY <1>0, Types
  <2>3. \A i \in 1..Len(batch) : ~HasRow(batch[i])
    <3>1. \A i \in 1..Len(batch) : batch[i] \in Events /\ InBatch(batch[i])
      BY <1>0, <2>2, Types DEF InBatch
    <3>2. QED  BY <1>0, <3>1
  <2>4. QED  BY <1>0, <2>1, <2>2, <2>3, FlushMoves DEF InBatch, InSeq
<1>3. QED  BY <1>1, <1>2

\* What the ticker and Close leave of the invariant when they flush.
LEMMA FlushKeeps ==
  ASSUME IInv, Flush(batch), UNCHANGED <<copy, answer, old, history, crashes>>, OtherTypes'
  PROVE  IInv'
<1>0. /\ TypeOK /\ OnlyOldRemoved /\ \A e \in Events : Spot(e)
  BY DEF IInv
<1>1. /\ BatchTypes' /\ TableTypes' /\ nextId' >= nextId /\ Distinct(batch') /\ OneRow'
      /\ flushFailed' \/ batch' = <<>>
      /\ \A e \in Events : InBatch(e)' \/ HasRow(e)' <=> InBatch(e) \/ HasRow(e)
      /\ \A e \in Events : ~(InBatch(e)' /\ HasRow(e)')
  BY FlushBatch
<1>2. TypeOK'
  <2>1. CopyType'
    BY <1>0, <1>1, CopyStays DEF TableTypes
  <2>2. QED  BY <1>1, <2>1, TypeParts
<1>3. Len(batch') = 0 \/ flushFailed'
  BY <1>1
<1>4. BatchBounded' /\ LateOK'
  BY <1>0, <1>3, Types DEF BatchBounded, LateOK
<1>5. OnlyOldRemoved'
  BY <1>0 DEF OnlyOldRemoved, history
<1>6. \A e \in Events : Spot(e)'
  BY <1>0, <1>1, SpotMoves DEF history, Taken
<1>7. QED  BY <1>1, <1>2, <1>4, <1>5, <1>6 DEF IInv

\* StoreEvent.
LEMMA StoreStep ==
  ASSUME IInv, NEW e \in Batched, StoreEvent(e)
  PROVE  IInv'
<1>0. /\ TypeOK /\ OnlyOldRemoved /\ OneRow /\ Distinct(batch) /\ LateOK /\ BatchBounded
      /\ \A f \in Events : Spot(f)
  BY DEF IInv
<1>1. PICK b : b = Append(batch, e)
  OBVIOUS
<1>2. answer[e] = "none" /\ ~Taken(e) /\ e \in Events
  BY <1>0, Types DEF StoreEvent, Taken
<1>3. ~InBatch(e) /\ ~HasRow(e)
  BY <1>0, <1>2 DEF Spot
<1>4. /\ b \in Seq(Batched) /\ Distinct(b)
      /\ \A f : InSeq(b, f) <=> InBatch(f) \/ f = e
  <2>1. \A f : InSeq(batch, f) <=> InBatch(f)
    BY DEF InSeq, InBatch
  <2>2. QED  BY <1>0, <1>1, <1>3, <2>1, Types, AppendLemma
<1>5. \A i \in 1..Len(b) : ~HasRow(b[i])
  <2>1. \A i \in 1..Len(b) : b[i] \in Events /\ InSeq(b, b[i])
    BY <1>0, <1>4, Types DEF InSeq
  <2>2. QED  BY <1>0, <1>3, <1>4, <2>1 DEF Spot
<1>6. /\ UNCHANGED <<lifeVars, copy, old, lost, removed>>
      /\ answer' = [answer EXCEPT ![e] = "nil"] \/ answer' = [answer EXCEPT ![e] = "error"]
      /\ late' = IF closing \in {"flushed", "closed"} THEN late \cup {e} ELSE late
  BY DEF StoreEvent
<1>7. /\ BatchTypes' /\ TableTypes' /\ nextId' >= nextId /\ Distinct(batch') /\ OneRow'
      /\ \A f : InBatch(f)' \/ HasRow(f)' <=> InSeq(b, f) \/ HasRow(f)
      /\ \A f \in Events : ~(InBatch(f)' /\ HasRow(f)')
      /\ BatchBounded'
      /\ \/ flushFailed' \/ batch' = <<>> \/ (batch' = b /\ flushFailed' = flushFailed)
  <2>1. CASE ~Full(b) /\ batch' = b /\ UNCHANGED <<tableVars, flushFailed>>
    <3>1. table' = table /\ nextId' = nextId /\ flushFailed' = flushFailed /\ batch' = b
      BY <2>1 DEF tableVars
    <3>2. \A f : (InBatch(f)' <=> InSeq(b, f)) /\ (HasRow(f)' <=> HasRow(f))
      BY <3>1 DEF InBatch, InSeq, HasRow
    <3>3. \A f \in Events : ~(InBatch(f)' /\ HasRow(f)')
      BY <1>0, <1>3, <1>4, <3>2 DEF Spot
    <3>4. Len(batch') < BatchSize
      BY <1>0, <1>4, <2>1, <3>1, Types DEF Full
    <3>5. BatchTypes' /\ TableTypes' /\ nextId' >= nextId /\ Distinct(batch') /\ OneRow'
      BY <1>0, <1>4, <3>1, Types DEF BatchTypes, TableTypes, OneRow
    <3>6. QED  BY <3>1, <3>2, <3>3, <3>4, <3>5 DEF BatchBounded
  <2>2. CASE Commits(b) \/ RollsBack(b)
    <3>1. /\ BatchTypes' /\ TableTypes' /\ nextId' >= nextId /\ Distinct(batch') /\ OneRow'
          /\ flushFailed' \/ batch' = <<>>
          /\ \A f : InBatch(f)' \/ HasRow(f)' <=> InSeq(b, f) \/ HasRow(f)
          /\ \A f : ~(InBatch(f)' /\ HasRow(f)')
      BY <1>0, <1>4, <1>5, <2>2, FlushMoves
    <3>2. Len(batch') = 0 \/ flushFailed'
      BY <3>1
    <3>3. BatchBounded'
      BY <1>0, <3>2, Types DEF BatchBounded
    <3>4. QED  BY <3>1, <3>3
  <2>3. QED  BY <1>1, <2>1, <2>2 DEF StoreEvent
<1>8. TypeOK'
  <2>1. OtherTypes'
    <3>1. late' \in SUBSET Batched
      BY <1>0, <1>6, Types
    <3>2. answer' \in [Events -> {"none", "nil", "error"}]
      BY <1>0, <1>6, Types
    <3>3. OtherTypes
      BY <1>0, TypeParts
    <3>4. QED  BY <1>6, <3>1, <3>2, <3>3 DEF OtherTypes, lifeVars
  <2>2. CopyType'
    BY <1>0, <1>6, <1>7, CopyStays DEF TableTypes
  <2>3. QED  BY <1>7, <2>1, <2>2, TypeParts
<1>9. OnlyOldRemoved'
  BY <1>0, <1>6 DEF OnlyOldRemoved
<1>10. \A f \in Events : Spot(f)'
  <2>1. \A f \in Events : Taken(f)' <=> Taken(f) \/ f = e
    BY <1>0, <1>6, Types DEF Taken
  <2>2. ASSUME NEW f \in Events PROVE Spot(f)'
    <3>1. (f = e) \in BOOLEAN
      OBVIOUS
    <3>2. InBatch(f)' \/ HasRow(f)' <=> InBatch(f) \/ HasRow(f) \/ f = e
      BY <1>4, <1>7
    <3>3. removed'[f] = removed[f] /\ (f \in lost' <=> f \in lost)
      BY <1>6
    <3>4. f = e => ~Taken(f)
      BY <1>2
    <3>5. QED  BY <1>0, <1>7, <2>1, <3>1, <3>2, <3>3, <3>4, SpotMoves
  <2>3. QED  BY <2>2
<1>11. LateOK'
  <2>1. SUFFICES ASSUME closing' \in {"flushed", "closed"}, ~flushFailed', NEW i \in 1..Len(batch')
                 PROVE  batch'[i] \in late'
    BY DEF LateOK
  <2>2. closing' = closing
    BY <1>6 DEF lifeVars
  <2>3. batch' # <<>>
    BY <2>1
  <2>4. batch' = b /\ ~flushFailed
    BY <1>7, <2>1, <2>3
  <2>5. InSeq(b, batch'[i])
    BY <2>1, <2>4 DEF InSeq
  <2>6. batch'[i] = e \/ InBatch(batch'[i])
    BY <1>4, <2>5
  <2>7. QED  BY <1>0, <1>6, <2>1, <2>2, <2>4, <2>6 DEF LateOK, InBatch
<1>12. QED  BY <1>7, <1>8, <1>9, <1>10, <1>11 DEF IInv

\* StoreEventImmediate.
LEMMA ImmediateStep ==
  ASSUME IInv, NEW e \in Immediate, StoreEventImmediate(e)
  PROVE  IInv'
<1>0. /\ TypeOK /\ OnlyOldRemoved /\ OneRow /\ Distinct(batch) /\ LateOK /\ BatchBounded
      /\ \A f \in Events : Spot(f)
  BY DEF IInv
<1>1. /\ UNCHANGED <<batch, lifeVars, copy, old, flushFailed, history>> /\ e \in Events /\ e \notin Batched
      /\ answer[e] = "none"
      /\ \/ answer' = [answer EXCEPT ![e] = "nil"] /\ table' = Inserted(<<e>>) /\ nextId' = nextId + 1
         \/ answer' = [answer EXCEPT ![e] = "error"] /\ table' = table /\ nextId' = nextId
  BY <1>0, Types DEF StoreEventImmediate, tableVars
<1>2. ~Taken(e) /\ ~InBatch(e) /\ ~HasRow(e)
  <2>1. ~Taken(e)
    BY <1>1 DEF Taken
  <2>2. QED  BY <1>0, <1>1, <2>1 DEF Spot
<1>3. \A f \in Events : InBatch(f)' <=> InBatch(f)
  BY <1>1 DEF InBatch
<1>4. BatchTypes' /\ OtherTypes'
  <2>1. BatchTypes /\ OtherTypes
    BY <1>0, TypeParts
  <2>2. answer' \in [Events -> {"none", "nil", "error"}]
    BY <1>0, <1>1, Types
  <2>3. QED  BY <1>1, <2>1, <2>2 DEF BatchTypes, OtherTypes, lifeVars, history
<1>5. PICK new \in BOOLEAN : new <=> answer' = [answer EXCEPT ![e] = "nil"]
  OBVIOUS
<1>6. /\ TableTypes' /\ nextId' >= nextId /\ OneRow'
      /\ \A f : HasRow(f)' <=> HasRow(f) \/ (new /\ f = e)
  <2>1. CASE answer' = [answer EXCEPT ![e] = "nil"] /\ table' = Inserted(<<e>>) /\ nextId' = nextId + 1
    <3>1. PICK s : s = <<e>>
      OBVIOUS
    <3>2. /\ s \in Seq(Events) /\ Len(s) = 1 /\ \A i \in 1..Len(s) : s[i] = e
          /\ table' = Inserted(s) /\ nextId' = nextId + Len(s)
      BY <1>1, <2>1, <3>1
    <3>3. Distinct(s) /\ (\A f : InSeq(s, f) <=> f = e) /\ \A i \in 1..Len(s) : ~HasRow(s[i])
      <4>1. 1..Len(s) = {1}
        BY <3>2
      <4>2. QED  BY <1>2, <3>2, <4>1 DEF Distinct, InSeq
    <3>4. TableTypes' /\ nextId' >= nextId /\ OneRow' /\ \A f : HasRow(f)' <=> HasRow(f) \/ InSeq(s, f)
      BY <1>0, <3>2, <3>3, InsertLemma DEF TableTypes
    <3>5. QED  BY <1>5, <2>1, <3>3, <3>4
  <2>2. CASE answer' = [answer EXCEPT ![e] = "error"] /\ table' = table /\ nextId' = nextId
    <3>1. ~new
      <4>1. answer'[e] = "error"
        BY <1>0, <1>1, <2>2, Types
      <4>2. new => answer'[e] = "nil"
        BY <1>0, <1>1, <1>5, Types
      <4>3. QED  BY <4>1, <4>2
    <3>2. QED  BY <1>0, <2>2, <3>1, Types DEF TableTypes, OneRow, HasRow
  <2>3. QED  BY <1>1, <2>1, <2>2
<1>7. TypeOK'
  BY <1>0, <1>1, <1>4, <1>6, CopyStays, TypeParts DEF TableTypes
<1>8. ASSUME NEW f \in Events PROVE Spot(f)'
  <2>1. Taken(f)' <=> Taken(f) \/ (new /\ f = e)
    BY <1>0, <1>1, <1>5, Types DEF Taken
  <2>2. (new /\ f = e) \in BOOLEAN /\ (new /\ f = e => ~Taken(f))
    BY <1>2
  <2>3. removed'[f] = removed[f] /\ (f \in lost' <=> f \in lost)
    BY <1>1 DEF history
  <2>4. ~(InBatch(f)' /\ HasRow(f)') /\ (InBatch(f)' \/ HasRow(f)' <=> InBatch(f) \/ HasRow(f) \/ (new /\ f = e))
    BY <1>0, <1>2, <1>3, <1>6 DEF Spot
  <2>5. QED  BY <1>0, <2>1, <2>2, <2>3, <2>4, SpotMoves
<1>9. Distinct(batch') /\ BatchBounded' /\ LateOK' /\ OnlyOldRemoved'
  BY <1>0, <1>1 DEF BatchBounded, LateOK, OnlyOldRemoved, lifeVars, history
<1>10. QED  BY <1>6, <1>7, <1>8, <1>9 DEF IInv

\* A step that neither moves a row nor an entry of the batch.
LEMMA NothingMoves ==
  ASSUME IInv, UNCHANGED <<batch, flushFailed, answer, nextId, history>>, OtherTypes', CopyType', TableTypes',
         OneRow', \A e : HasRow(e)' <=> HasRow(e), old \subseteq old',
         closing' \in {"flushed", "closed"} => closing \in {"flushed", "closed"}
  PROVE  IInv'
<1>0. /\ TypeOK /\ OnlyOldRemoved /\ OneRow /\ Distinct(batch) /\ LateOK /\ BatchBounded
      /\ \A f \in Events : Spot(f)
  BY DEF IInv
<1>1. TypeOK'
  BY <1>0, TypeParts DEF BatchTypes
<1>2. \A f \in Events : Spot(f)'
  BY <1>0 DEF Spot, InBatch, Taken, history
<1>3. Distinct(batch') /\ BatchBounded' /\ LateOK' /\ OnlyOldRemoved'
  BY <1>0 DEF BatchBounded, LateOK, OnlyOldRemoved, history
<1>4. QED  BY <1>1, <1>2, <1>3 DEF IInv

\* The clients, the clock, and the goroutines that end.
LEMMA QuietStep ==
  ASSUME IInv,
         \/ \E e \in Events : GrowsOld(e)
         \/ \E id \in DOMAIN table : GetEvent(id)
         \/ \E id \in 1..(nextId - 1) : AcknowledgeEvent(id)
         \/ UpdateEvent \/ CleanerExits \/ CloseCancels \/ CloseDb \/ UNCHANGED vars
  PROVE  IInv'
<1>0. TypeOK /\ OneRow /\ BatchTypes /\ TableTypes /\ OtherTypes /\ CopyType
  BY TypeParts DEF IInv
<1>1. CASE (\E id \in 1..(nextId - 1) : AcknowledgeEvent(id)) \/ UpdateEvent
  <2>1. PICK id \in 1..(nextId - 1), b \in BOOLEAN : table' = Updated(id, b)
    <3>1. CASE \E id \in 1..(nextId - 1) : AcknowledgeEvent(id)
      BY <3>1 DEF AcknowledgeEvent
    <3>2. CASE UpdateEvent
      <4>1. copy \in [id: 1..(nextId - 1), acked: BOOLEAN]
        BY <1>0, <3>2 DEF UpdateEvent, CopyType
      <4>2. copy.acked \in BOOLEAN /\ copy.id \in 1..(nextId - 1)
        BY <4>1
      <4>3. QED  BY <3>2, <4>2 DEF UpdateEvent
    <3>3. QED  BY <1>1, <3>1, <3>2
  <2>2. /\ UNCHANGED <<batch, flushFailed, answer, nextId, history, lifeVars, old>>
        /\ copy' = copy \/ copy' = None
    BY <1>1 DEF AcknowledgeEvent, UpdateEvent
  <2>3. /\ DOMAIN table' = DOMAIN table /\ \A i \in DOMAIN table : table'[i] \in Row
        /\ OneRow' /\ \A e : HasRow(e)' <=> HasRow(e)
    BY <1>0, <2>1, UpdateLemma
  <2>4. OtherTypes' /\ CopyType' /\ TableTypes'
    BY <1>0, <2>2, <2>3 DEF OtherTypes, CopyType, TableTypes, lifeVars, history
  <2>5. QED  BY <2>2, <2>3, <2>4, NothingMoves DEF lifeVars
<1>2. CASE \/ \E e \in Events : GrowsOld(e)
           \/ \E id \in DOMAIN table : GetEvent(id)
           \/ CleanerExits \/ CloseCancels \/ CloseDb \/ UNCHANGED vars
  <2>1. /\ UNCHANGED <<batch, flushFailed, answer, table, nextId, history>>
    BY <1>2 DEF GrowsOld, GetEvent, CleanerExits, CloseCancels, CloseDb, vars, tableVars, history
  <2>2. CopyType'
    <3>1. CASE \E id \in DOMAIN table : GetEvent(id)
      <4>1. PICK id \in DOMAIN table : copy' = [id |-> id, acked |-> table[id].acked]
        BY <3>1 DEF GetEvent
      <4>2. id \in 1..(nextId - 1) /\ table[id].acked \in BOOLEAN
        BY <1>0 DEF TableTypes, Row
      <4>3. QED  BY <2>1, <4>1, <4>2 DEF CopyType
    <3>2. CASE copy' = copy
      BY <1>0, <2>1, <3>2 DEF CopyType
    <3>3. QED  BY <1>2, <3>1, <3>2 DEF GrowsOld, CleanerExits, CloseCancels, CloseDb, vars
  <2>3. OtherTypes' /\ old \subseteq old'
        /\ (closing' \in {"flushed", "closed"} => closing \in {"flushed", "closed"})
    BY <1>0, <1>2 DEF OtherTypes, GrowsOld, GetEvent, CleanerExits, CloseCancels, CloseDb, vars, lifeVars,
                      history
  <2>4. TableTypes' /\ OneRow' /\ \A e : HasRow(e)' <=> HasRow(e)
    BY <1>0, <2>1 DEF TableTypes, OneRow, HasRow
  <2>5. QED  BY <2>1, <2>2, <2>3, <2>4, NothingMoves
<1>3. QED  BY <1>1, <1>2

\* The retention counts the row it deletes.
LEMMA CleanupMoves ==
  ASSUME IInv, Cleanup, NEW e \in Events
  PROVE  /\ HasRow(e)' <=> HasRow(e) /\ e \notin old
         /\ removed'[e] = IF HasRow(e) /\ e \in old THEN removed[e] + 1 ELSE removed[e]
<1>0. TypeOK /\ OneRow /\ removed[e] \in Nat
  BY Types DEF IInv
<1>1. table' = [id \in DOMAIN table \ Expired |-> table[id]]
  BY DEF Cleanup
<1>2. HasRow(e)' <=> HasRow(e) /\ e \notin old
  BY <1>1 DEF HasRow, Expired
<1>3. removed'[e] = removed[e] + Cardinality({id \in Expired : table[id].event = e})
  BY DEF Cleanup
<1>4. CASE HasRow(e) /\ e \in old
  <2>1. PICK id \in DOMAIN table : table[id].event = e
    BY <1>4 DEF HasRow
  <2>2. {i \in Expired : table[i].event = e} = {id}
    BY <1>0, <1>4, <2>1 DEF Expired, OneRow
  <2>3. Cardinality({id}) = 1
    BY FS_Singleton
  <2>4. QED  BY <1>2, <1>3, <1>4, <2>2, <2>3
<1>5. CASE ~(HasRow(e) /\ e \in old)
  <2>1. {i \in Expired : table[i].event = e} = {}
    BY <1>5 DEF Expired, HasRow
  <2>2. Cardinality({}) = 0
    BY FS_EmptySet
  <2>3. QED  BY <1>0, <1>2, <1>3, <1>5, <2>1, <2>2
<1>6. QED  BY <1>4, <1>5

\* Cleanup.
LEMMA CleanupStep ==
  ASSUME IInv, Cleanup
  PROVE  IInv'
<1>0. /\ TypeOK /\ OnlyOldRemoved /\ OneRow /\ Distinct(batch) /\ LateOK /\ BatchBounded
      /\ \A f \in Events : Spot(f)
  BY DEF IInv
<1>1. /\ UNCHANGED <<batch, nextId, lifeVars, copy, answer, old, flushFailed, late, lost>>
      /\ table' = [id \in DOMAIN table \ Expired |-> table[id]]
  BY DEF Cleanup
<1>2. \A f \in Events : /\ Spot(f) /\ removed[f] \in Nat
                        /\ HasRow(f)' <=> HasRow(f) /\ f \notin old
                        /\ removed'[f] = IF HasRow(f) /\ f \in old THEN removed[f] + 1 ELSE removed[f]
  BY <1>0, Types, CleanupMoves
<1>3. \A f \in Events : Spot(f)'
  <2>1. ASSUME NEW f \in Events PROVE Spot(f)'
    <3>1. (InBatch(f)' <=> InBatch(f)) /\ (Taken(f)' <=> Taken(f)) /\ (f \in lost' <=> f \in lost)
      BY <1>1 DEF InBatch, Taken
    <3>2. QED  BY <1>2, <3>1 DEF Spot
  <2>2. QED  BY <2>1
<1>4. OnlyOldRemoved'
  BY <1>0, <1>1, <1>2 DEF OnlyOldRemoved
<1>5. TypeOK'
  <2>1. BatchTypes /\ TableTypes /\ OtherTypes /\ CopyType
    BY <1>0, TypeParts
  <2>2. removed' \in [Events -> Nat]
    <3>1. removed' = [e \in Events |-> removed[e] + Cardinality({id \in Expired : table[id].event = e})]
      BY DEF Cleanup
    <3>2. \A f \in Events : removed'[f] \in Nat
      BY <1>2
    <3>3. QED  BY <3>1, <3>2
  <2>3. BatchTypes' /\ TableTypes' /\ OtherTypes' /\ CopyType'
    BY <1>1, <2>1, <2>2 DEF BatchTypes, TableTypes, OtherTypes, CopyType, lifeVars
  <2>4. QED  BY <2>3, TypeParts
<1>6. OneRow' /\ Distinct(batch') /\ BatchBounded' /\ LateOK'
  BY <1>0, <1>1 DEF OneRow, BatchBounded, LateOK, lifeVars
<1>7. QED  BY <1>3, <1>4, <1>5, <1>6 DEF IInv

\* A crash takes the batch.
LEMMA CrashStep ==
  ASSUME IInv, CrashAndRestart
  PROVE  IInv'
<1>0. /\ TypeOK /\ OnlyOldRemoved /\ OneRow /\ \A f \in Events : Spot(f)
  BY DEF IInv
<1>1. /\ batch' = <<>> /\ Len(batch') = 0 /\ 1..Len(batch') = {} /\ copy' = None
      /\ closing' = "no" /\ flushFailed' = FALSE
      /\ UNCHANGED <<table, nextId, answer, old, late, removed>>
      /\ \A f : f \in lost' <=> f \in lost \/ InBatch(f)
  BY DEF CrashAndRestart, tableVars, InBatch
<1>2. TypeOK'
  <2>1. BatchTypes /\ TableTypes /\ OtherTypes /\ CopyType
    BY <1>0, TypeParts
  <2>2. lost' \in SUBSET Batched
    BY <1>0, Types DEF CrashAndRestart
  <2>3. crashes' \in 0..MaxCrashes
    BY <2>1, StorageAssumption DEF OtherTypes, CrashAndRestart
  <2>4. BatchTypes' /\ TableTypes' /\ CopyType'
    <3>1. batch' \in Seq(Batched) /\ flushFailed' \in BOOLEAN
      <4>1. <<>> \in Seq(Batched)
        OBVIOUS
      <4>2. QED  BY <1>1, <4>1
    <3>2. TableTypes'
      BY <1>1, <2>1 DEF TableTypes
    <3>3. QED  BY <1>1, <3>1, <3>2 DEF BatchTypes, CopyType
  <2>5. OtherTypes'
    BY <1>1, <2>1, <2>2, <2>3 DEF OtherTypes, CrashAndRestart
  <2>6. QED  BY <2>4, <2>5, TypeParts
<1>3. \A f \in Events : Spot(f)'
  <2>1. \A f \in Events : ~InBatch(f)' /\ (HasRow(f)' <=> HasRow(f)) /\ (Taken(f)' <=> Taken(f))
    BY <1>1 DEF InBatch, HasRow, Taken
  <2>2. QED  BY <1>0, <1>1, <2>1 DEF Spot
<1>4. OneRow' /\ Distinct(batch') /\ BatchBounded' /\ LateOK' /\ OnlyOldRemoved'
  BY <1>0, <1>1, StorageAssumption DEF OneRow, Distinct, BatchBounded, LateOK, OnlyOldRemoved
<1>5. QED  BY <1>2, <1>3, <1>4 DEF IInv

\* The invariant is inductive.
LEMMA IStep == IInv /\ [Next]_vars => IInv'
<1> SUFFICES ASSUME IInv, [Next]_vars PROVE IInv'
  OBVIOUS
<1>1. CASE Tick \/ FinalFlush \/ CloseFlushes
  <2>1. Flush(batch) /\ UNCHANGED <<copy, answer, old, history, crashes>>
    BY <1>1 DEF Tick, FinalFlush, CloseFlushes, SecondFlush, lifeVars
  <2>2. OtherTypes'
    <3>1. OtherTypes
      BY TypeParts DEF IInv
    <3>2. QED
      BY <1>1, <3>1 DEF OtherTypes, Tick, FinalFlush, CloseFlushes, lifeVars, history
  <2>3. QED  BY <2>1, <2>2, FlushKeeps
<1>2. QED
  BY <1>1, StoreStep, ImmediateStep, QuietStep, CleanupStep, CrashStep DEF Next

-----------------------------------------------------------------------------
(* The promise *)

\* What place says, read off the invariant.
LEMMA PlaceIs ==
  ASSUME IInv, NEW e \in Events
  PROVE  /\ place[e] = PlaceOf(e)
         /\ place[e] = "waiting" <=> InBatch(e)
         /\ place[e] = "stored" <=> HasRow(e)
         /\ place[e] = "nowhere" <=> answer[e] = "none"
         /\ e \in acknowledged <=> \E id \in DOMAIN table : table[id].event = e /\ table[id].acked
<1>0. Spot(e) /\ (answer[e] = "none" => ~Taken(e))
  BY DEF IInv, Taken
<1>1. place[e] = PlaceOf(e)
  BY DEF place
<1>2. RowsOf(e) # {} <=> HasRow(e)
  BY DEF RowsOf, HasRow
<1>3. e \in acknowledged <=> \E id \in DOMAIN table : table[id].event = e /\ table[id].acked
  BY DEF acknowledged, RowsOf
<1>4. answer[e] \in {"none", "nil", "error"}
  BY Types DEF IInv
<1>5. PlaceOf(e) = "nowhere" <=> answer[e] = "none"
  BY <1>0, <1>2 DEF PlaceOf, Spot
<1>6. QED  BY <1>0, <1>1, <1>2, <1>3, <1>5 DEF PlaceOf, Spot

\* A step that leaves one event alone.
LEMMA PlaceStays ==
  ASSUME NEW e \in Events, InBatch(e)' <=> InBatch(e), HasRow(e)' <=> HasRow(e),
         removed'[e] = removed[e], e \in lost' <=> e \in lost, answer'[e] = answer[e]
  PROVE  PlaceOf(e)' = PlaceOf(e)
<1>1. (RowsOf(e) # {} <=> HasRow(e)) /\ (RowsOf(e)' # {} <=> HasRow(e)')
  BY DEF RowsOf, HasRow
<1>2. QED  BY <1>1 DEF PlaceOf

\* An event with an entry, or a row, is where that is.
LEMMA PlaceNext ==
  ASSUME NEW e \in Events
  PROVE  /\ InBatch(e)' => PlaceOf(e)' = "waiting"
         /\ ~InBatch(e)' /\ HasRow(e)' => PlaceOf(e)' = "stored"
         /\ ~InBatch(e)' /\ ~HasRow(e)' /\ removed'[e] > 0 => PlaceOf(e)' = "removed"
         /\ ~InBatch(e)' /\ ~HasRow(e)' /\ ~(removed'[e] > 0) /\ e \in lost' => PlaceOf(e)' = "lost"
         /\ ~InBatch(e)' /\ ~HasRow(e)' /\ ~(removed'[e] > 0) /\ e \notin lost' /\ answer'[e] = "error"
              => PlaceOf(e)' = "refused"
<1>1. RowsOf(e)' # {} <=> HasRow(e)'
  BY DEF RowsOf, HasRow
<1>2. QED  BY <1>1 DEF PlaceOf

\* Moving the events of one set, as EventStore says it.
LEMMA Moves ==
  ASSUME NEW S, NEW to, \A e \in Events : PlaceOf(e)' = IF e \in S THEN to ELSE PlaceOf(e)
  PROVE  Store!Move(S, to)
<1>1. place' = [e \in Events |-> PlaceOf(e)'] /\ \A e \in Events : place[e] = PlaceOf(e)
  BY DEF place
<1>2. place' = [e \in Events |-> IF e \in S THEN to ELSE place[e]]
  BY <1>1
<1>3. QED  BY <1>2 DEF Store!Move

\* Moving none.
LEMMA NoMoves ==
  ASSUME \A e \in Events : PlaceOf(e)' = PlaceOf(e)
  PROVE  place' = place
BY DEF place

\* Which events are acknowledged is read off the rows.
LEMMA AckedStays ==
  ASSUME \A id \in DOMAIN table : id \in DOMAIN table' /\ table'[id] = table[id],
         \A id \in DOMAIN table' \ DOMAIN table : ~table'[id].acked
  PROVE  acknowledged' = acknowledged
<1>1. /\ acknowledged = {e \in Events : \E id \in DOMAIN table : table[id].event = e /\ table[id].acked}
      /\ acknowledged' = {e \in Events : \E id \in DOMAIN table' : table'[id].event = e /\ table'[id].acked}
  BY DEF acknowledged, RowsOf
<1>2. QED  BY <1>1

\* The transaction of a flush is a Write of all that wait, with the event that
\* filled the batch if one did.
LEMMA CommitPromise ==
  ASSUME IInv, IInv', NEW b \in Seq(Batched), Commits(b), UNCHANGED <<old, lost, removed>>, NEW S,
         \A e \in Events : InSeq(b, e) <=> InBatch(e) \/ e \in S,
         \A e \in Events \ S : answer'[e] = answer[e]
  PROVE  /\ Store!Move(Store!Waiting \cup S, "stored")
         /\ UNCHANGED <<acknowledged, old>>
<1>0. TypeOK /\ \A e \in Events : Spot(e)
  BY DEF IInv
<1>1. table' = Inserted(b) /\ nextId' = nextId + Len(b) /\ batch' = <<>>
  BY DEF Commits, AfterCommit
<1>2. b \in Seq(Events) /\ 1..Len(batch') = {}
  BY <1>0, <1>1, Types
<1>3. /\ \A id \in DOMAIN table : id \in DOMAIN table' /\ table'[id] = table[id]
      /\ \A id \in DOMAIN table' \ DOMAIN table : ~table'[id].acked
      /\ \A e : HasRow(e)' <=> HasRow(e) \/ InSeq(b, e)
  BY <1>0, <1>1, <1>2, InsertLemma
<1>4. acknowledged' = acknowledged
  BY <1>3, AckedStays
<1>5. \A e \in Events : ~InBatch(e)'
  BY <1>2 DEF InBatch
<1>6. \A e \in Events : e \in Store!Waiting <=> InBatch(e)
  BY PlaceIs DEF Store!Waiting
<1>7. \A e \in Events : PlaceOf(e)' = IF e \in Store!Waiting \cup S THEN "stored" ELSE PlaceOf(e)
  BY <1>3, <1>5, <1>6, PlaceNext, PlaceStays
<1>8. QED  BY <1>4, <1>7, Moves

\* The ticker and Close write all that wait, or nothing happens.
LEMMA FlushPromise ==
  ASSUME IInv, IInv', Flush(batch), UNCHANGED <<answer, old, history>>
  PROVE  [Store!Next]_(Store!vars)
<1>1. CASE batch = <<>> \/ RollsBack(batch)
  <2>1. batch' = batch /\ table' = table
    BY <1>1 DEF Flush, RollsBack, AfterRollback, tableVars
  <2>2. \A e \in Events : PlaceOf(e)' = PlaceOf(e)
    BY <2>1, PlaceStays DEF history, InBatch, HasRow
  <2>3. acknowledged' = acknowledged
    BY <2>1 DEF acknowledged, RowsOf
  <2>4. QED  BY <2>2, <2>3, NoMoves DEF Store!vars
<1>2. CASE Commits(batch)
  <2>1. batch \in Seq(Batched) /\ \A e \in Events : InSeq(batch, e) <=> InBatch(e) \/ e \in {}
    BY Types DEF InSeq, InBatch, IInv
  <2>2. Store!Move(Store!Waiting \cup {}, "stored") /\ UNCHANGED <<acknowledged, old>>
    BY <1>2, <2>1, CommitPromise DEF history
  <2>3. Store!Waiting \cup {} = Store!Waiting
    OBVIOUS
  <2>4. Store!Write
    BY <2>2, <2>3 DEF Store!Write
  <2>5. QED  BY <2>4 DEF Store!Next
<1>3. QED  BY <1>1, <1>2 DEF Flush

\* StoreEvent lets the event wait, or writes it with all that wait.
LEMMA StorePromise ==
  ASSUME IInv, IInv', NEW e \in Batched, StoreEvent(e)
  PROVE  [Store!Next]_(Store!vars)
<1>0. TypeOK /\ e \in Events /\ answer[e] = "none" /\ \A f \in Events : Spot(f)
  BY Types DEF StoreEvent, IInv
<1>1. PICK b : b = Append(batch, e)
  OBVIOUS
<1>2. /\ b \in Seq(Batched) /\ \A f \in Events : InSeq(b, f) <=> InBatch(f) \/ f \in {e}
  <2>1. \A f : InSeq(batch, f) <=> InBatch(f)
    BY DEF InSeq, InBatch
  <2>2. QED  BY <1>0, <1>1, <2>1, Types, AppendLemma
<1>3. /\ UNCHANGED <<old, lost, removed>> /\ \A f \in Events \ {e} : answer'[f] = answer[f]
  BY <1>0, Types DEF StoreEvent
<1>4. place[e] = "nowhere" /\ ~InBatch(e)
  BY <1>0, PlaceIs
<1>5. CASE Commits(b)
  <2>1. Store!Move(Store!Waiting \cup {e}, "stored") /\ UNCHANGED <<acknowledged, old>>
    BY <1>2, <1>3, <1>5, CommitPromise
  <2>2. Store!Write
    BY <1>0, <1>4, <2>1 DEF Store!Write
  <2>3. QED  BY <2>2 DEF Store!Next
<1>6. CASE batch' = b /\ table' = table
  <2>1. \A f \in Events : (InBatch(f)' <=> InBatch(f) \/ f = e) /\ (HasRow(f)' <=> HasRow(f))
    BY <1>2, <1>6 DEF InBatch, InSeq, HasRow
  <2>2. \A f \in Events : PlaceOf(f)' = IF f \in {e} THEN "waiting" ELSE PlaceOf(f)
    BY <1>3, <2>1, PlaceNext, PlaceStays
  <2>3. Store!Move({e}, "waiting")
    BY <2>2, Moves
  <2>4. acknowledged' = acknowledged
    BY <1>6 DEF acknowledged, RowsOf
  <2>5. Store!Accept(e)
    BY <1>3, <1>4, <2>3, <2>4 DEF Store!Accept
  <2>6. QED  BY <1>0, <2>5 DEF Store!Next
<1>7. QED
  BY <1>1, <1>5, <1>6 DEF StoreEvent, RollsBack, AfterRollback, tableVars

\* StoreEventImmediate.
LEMMA ImmediatePromise ==
  ASSUME IInv, IInv', NEW e \in Immediate, StoreEventImmediate(e)
  PROVE  [Store!Next]_(Store!vars)
<1>0. /\ TypeOK /\ e \in Events /\ e \notin Batched /\ answer[e] = "none" /\ \A f \in Events : Spot(f)
  BY Types DEF StoreEventImmediate, IInv
<1>1. /\ UNCHANGED <<batch, old, lost, removed>> /\ \A f \in Events \ {e} : answer'[f] = answer[f]
      /\ \A f \in Events : InBatch(f)' <=> InBatch(f)
  BY <1>0, Types DEF StoreEventImmediate, history, InBatch
<1>2. place[e] = "nowhere" /\ ~InBatch(e) /\ ~HasRow(e) /\ removed[e] = 0 /\ e \notin lost
  <2>1. ~Taken(e)
    BY <1>0 DEF Taken
  <2>2. QED  BY <1>0, <2>1, PlaceIs DEF Spot
<1>3. CASE table' = Inserted(<<e>>) /\ nextId' = nextId + 1
  <2>1. PICK s : s = <<e>>
    OBVIOUS
  <2>2. /\ s \in Seq(Events) /\ Len(s) = 1 /\ \A i \in 1..Len(s) : s[i] = e
        /\ table' = Inserted(s) /\ nextId' = nextId + Len(s)
    BY <1>0, <1>3, <2>1
  <2>3. \A f : InSeq(s, f) <=> f = e
    <3>1. 1..Len(s) = {1}
      BY <2>2
    <3>2. QED  BY <2>2, <3>1 DEF InSeq
  <2>4. /\ \A id \in DOMAIN table : id \in DOMAIN table' /\ table'[id] = table[id]
        /\ \A id \in DOMAIN table' \ DOMAIN table : ~table'[id].acked
        /\ \A f : HasRow(f)' <=> HasRow(f) \/ f = e
    BY <1>0, <2>2, <2>3, InsertLemma
  <2>5. \A f \in Events : PlaceOf(f)' = IF f \in {e} THEN "stored" ELSE PlaceOf(f)
    BY <1>1, <1>2, <2>4, PlaceNext, PlaceStays
  <2>6. Store!Move({e}, "stored") /\ acknowledged' = acknowledged
    BY <2>4, <2>5, Moves, AckedStays
  <2>7. Store!Insert(e)
    BY <1>0, <1>1, <1>2, <2>6 DEF Store!Insert
  <2>8. QED  BY <1>0, <2>7 DEF Store!Next
<1>4. CASE answer' = [answer EXCEPT ![e] = "error"] /\ table' = table
  <2>1. answer'[e] = "error" /\ acknowledged' = acknowledged
    BY <1>0, <1>4, Types DEF acknowledged, RowsOf
  <2>2. \A f \in Events : HasRow(f)' <=> HasRow(f)
    BY <1>4 DEF HasRow
  <2>3. \A f \in Events : PlaceOf(f)' = IF f \in {e} THEN "refused" ELSE PlaceOf(f)
    <3>1. \A f \in Events \ {e} : PlaceOf(f)' = PlaceOf(f)
      BY <1>1, <2>2, PlaceStays
    <3>2. ~(removed'[e] > 0) /\ e \notin lost' /\ ~InBatch(e)' /\ ~HasRow(e)'
      BY <1>0, <1>1, <1>2, <2>2
    <3>3. PlaceOf(e)' = "refused"
      BY <1>0, <2>1, <3>2, PlaceNext
    <3>4. QED  BY <3>1, <3>3
  <2>4. Store!Move({e}, "refused")
    BY <2>3, Moves
  <2>5. Store!Insert(e)
    BY <1>0, <1>1, <1>2, <2>1, <2>4 DEF Store!Insert
  <2>6. QED  BY <1>0, <2>5 DEF Store!Next
<1>5. QED  BY <1>3, <1>4 DEF StoreEventImmediate, tableVars

\* The clients change one stored event at most.
LEMMA ChangePromise ==
  ASSUME IInv, IInv', NEW id, NEW b \in BOOLEAN, table' = Updated(id, b),
         UNCHANGED <<batch, answer, old, history>>
  PROVE  [Store!Next]_(Store!vars)
<1>0. TypeOK /\ OneRow /\ \A i \in DOMAIN table : table[i].event \in Events
  BY Types DEF IInv, Row
<1>1. /\ DOMAIN table' = DOMAIN table
      /\ \A i \in DOMAIN table : /\ table'[i].event = table[i].event
                                 /\ i # id => table'[i] = table[i]
                                 /\ i = id => table'[i].acked = b
      /\ \A e : HasRow(e)' <=> HasRow(e)
  BY <1>0, UpdateLemma
<1>2. \A e \in Events : PlaceOf(e)' = PlaceOf(e)
  BY <1>1, PlaceStays DEF history, InBatch
<1>3. place' = place
  BY <1>2, NoMoves
<1>4. /\ acknowledged = {e \in Events : \E i \in DOMAIN table : table[i].event = e /\ table[i].acked}
      /\ acknowledged' = {e \in Events : \E i \in DOMAIN table' : table'[i].event = e /\ table'[i].acked}
  BY DEF acknowledged, RowsOf
<1>5. CASE id \in DOMAIN table
  <2>1. PICK e \in Events : e = table[id].event
    BY <1>0, <1>5
  <2>2. place[e] = "stored"
    BY <1>5, <2>1, PlaceIs DEF HasRow
  <2>3. \A i \in DOMAIN table : table[i].event = e => i = id
    BY <1>0, <1>5, <2>1 DEF OneRow
  <2>4. acknowledged' = IF b THEN acknowledged \cup {e} ELSE acknowledged \ {e}
    <3>1. \A f \in Events \ {e} : f \in acknowledged' <=> f \in acknowledged
      BY <1>1, <1>4, <2>1
    <3>2. e \in acknowledged' <=> b
      BY <1>1, <1>4, <1>5, <2>1, <2>3
    <3>3. acknowledged \subseteq Events /\ acknowledged' \subseteq Events
      BY <1>4
    <3>4. QED  BY <3>1, <3>2, <3>3
  <2>5. Store!Change(e)
    BY <1>3, <2>2, <2>4 DEF Store!Change
  <2>6. QED  BY <2>5 DEF Store!Next
<1>6. CASE id \notin DOMAIN table
  <2>1. table' = table
    BY <1>6 DEF Updated
  <2>2. acknowledged' = acknowledged
    BY <2>1 DEF acknowledged, RowsOf
  <2>3. QED  BY <1>3, <2>2 DEF Store!vars
<1>7. QED  BY <1>5, <1>6

\* The clock, and the steps the promise does not see.
LEMMA QuietPromise ==
  ASSUME IInv, IInv',
         \/ \E e \in Events : GrowsOld(e)
         \/ \E id \in DOMAIN table : GetEvent(id)
         \/ CleanerExits \/ CloseCancels \/ CloseDb \/ UNCHANGED vars
  PROVE  [Store!Next]_(Store!vars)
<1>1. batch' = batch /\ table' = table /\ answer' = answer /\ removed' = removed /\ lost' = lost
  BY DEF GrowsOld, GetEvent, CleanerExits, CloseCancels, CloseDb, vars, tableVars, history
<1>2. \A e \in Events : PlaceOf(e)' = PlaceOf(e)
  BY <1>1, PlaceStays DEF InBatch, HasRow
<1>3. place' = place /\ acknowledged' = acknowledged
  BY <1>1, <1>2, NoMoves DEF acknowledged, RowsOf
<1>4. ASSUME NEW e \in Events, GrowsOld(e)
      PROVE  Store!Next
  <2>1. place[e] # "nowhere" /\ old' = old \cup {e}
    BY <1>4, PlaceIs DEF GrowsOld
  <2>2. Store!Age(e)
    BY <1>3, <2>1 DEF Store!Age
  <2>3. QED  BY <2>2 DEF Store!Next
<1>5. CASE old' = old
  BY <1>3, <1>5 DEF Store!vars
<1>6. QED
  BY <1>4, <1>5 DEF GetEvent, CleanerExits, CloseCancels, CloseDb, vars

\* The retention removes every old row.
LEMMA CleanupPromise ==
  ASSUME IInv, IInv', Cleanup
  PROVE  [Store!Next]_(Store!vars)
<1>0. TypeOK /\ (\A e \in Events : Spot(e)) /\ \A e \in Events : Spot(e)'
  BY DEF IInv
<1>1. /\ UNCHANGED <<batch, answer, old, lost>>
      /\ table' = [id \in DOMAIN table \ Expired |-> table[id]]
  BY DEF Cleanup
<1>2. \A e \in Events : /\ HasRow(e)' <=> HasRow(e) /\ e \notin old
                        /\ removed'[e] = IF HasRow(e) /\ e \in old THEN removed[e] + 1 ELSE removed[e]
                        /\ removed[e] \in Nat /\ (InBatch(e)' <=> InBatch(e))
  BY <1>0, <1>1, CleanupMoves, Types DEF InBatch
<1>3. \A e \in Events : e \in Store!Stored \cap old <=> HasRow(e) /\ e \in old
  BY PlaceIs DEF Store!Stored
<1>4. ASSUME NEW e \in Events
      PROVE  PlaceOf(e)' = IF e \in Store!Stored \cap old THEN "removed" ELSE PlaceOf(e)
  <2>1. CASE HasRow(e) /\ e \in old
    <3>1. ~HasRow(e)' /\ removed'[e] > 0 /\ ~InBatch(e)'
      BY <1>0, <1>2, <2>1 DEF Spot
    <3>2. QED  BY <1>3, <2>1, <3>1, PlaceNext
  <2>2. CASE ~(HasRow(e) /\ e \in old)
    <3>1. (HasRow(e)' <=> HasRow(e)) /\ removed'[e] = removed[e]
      BY <1>2, <2>2
    <3>2. QED  BY <1>1, <1>2, <1>3, <2>2, <3>1, PlaceStays
  <2>3. QED  BY <2>1, <2>2
<1>5. acknowledged' = acknowledged \ old
  <2>1. /\ acknowledged = {e \in Events : \E i \in DOMAIN table : table[i].event = e /\ table[i].acked}
        /\ acknowledged' = {e \in Events : \E i \in DOMAIN table' : table'[i].event = e /\ table'[i].acked}
    BY DEF acknowledged, RowsOf
  <2>2. /\ DOMAIN table' = {id \in DOMAIN table : table[id].event \notin old}
        /\ \A id \in DOMAIN table' : table'[id] = table[id]
    BY <1>1 DEF Expired
  <2>3. QED  BY <2>1, <2>2
<1>6. Store!Retain
  BY <1>1, <1>4, <1>5, Moves DEF Store!Retain
<1>7. QED  BY <1>6 DEF Store!Next

\* A crash takes all that wait.
LEMMA CrashPromise ==
  ASSUME IInv, IInv', CrashAndRestart
  PROVE  [Store!Next]_(Store!vars)
<1>0. TypeOK /\ \A e \in Events : Spot(e)
  BY DEF IInv
<1>1. /\ 1..Len(batch') = {} /\ UNCHANGED <<table, answer, old, removed>>
      /\ \A f : f \in lost' <=> f \in lost \/ InBatch(f)
  BY DEF CrashAndRestart, tableVars, InBatch
<1>2. \A e \in Events : ~InBatch(e)' /\ (HasRow(e)' <=> HasRow(e))
  BY <1>1 DEF InBatch, HasRow
<1>3. \A e \in Events : e \in Store!Waiting <=> InBatch(e)
  BY PlaceIs DEF Store!Waiting
<1>4. ASSUME NEW e \in Events
      PROVE  PlaceOf(e)' = IF e \in Store!Waiting THEN "lost" ELSE PlaceOf(e)
  <2>1. CASE InBatch(e)
    <3>1. ~HasRow(e)' /\ ~(removed'[e] > 0) /\ ~InBatch(e)' /\ e \in lost'
      BY <1>0, <1>1, <1>2, <2>1 DEF Spot
    <3>2. QED  BY <1>3, <2>1, <3>1, PlaceNext
  <2>2. CASE ~InBatch(e)
    BY <1>1, <1>2, <1>3, <2>2, PlaceStays
  <2>3. QED  BY <2>1, <2>2
<1>5. Store!Move(Store!Waiting, "lost")
  BY <1>4, Moves
<1>6. acknowledged' = acknowledged
  BY <1>1 DEF acknowledged, RowsOf
<1>7. Store!Crash
  BY <1>1, <1>5, <1>6 DEF Store!Crash
<1>8. QED  BY <1>7 DEF Store!Next

\* Every step is a step of EventStore or a stutter.
LEMMA PromiseStep == IInv /\ [Next]_vars => [Store!Next]_(Store!vars)
<1> SUFFICES ASSUME IInv, [Next]_vars PROVE [Store!Next]_(Store!vars)
  OBVIOUS
<1>0. IInv'
  BY IStep
<1>1. CASE Tick \/ FinalFlush \/ CloseFlushes
  <2>1. Flush(batch) /\ UNCHANGED <<answer, old, history>>
    BY <1>1 DEF Tick, FinalFlush, CloseFlushes, SecondFlush
  <2>2. QED  BY <1>0, <2>1, FlushPromise
<1>2. ASSUME NEW id \in 1..(nextId - 1), AcknowledgeEvent(id)
      PROVE  [Store!Next]_(Store!vars)
  BY <1>0, <1>2, ChangePromise DEF AcknowledgeEvent
<1>3. CASE UpdateEvent
  <2>1. copy \in [id: 1..(nextId - 1), acked: BOOLEAN]
    BY <1>3, TypeParts DEF IInv, UpdateEvent, CopyType
  <2>2. copy.acked \in BOOLEAN
    BY <2>1
  <2>3. QED  BY <1>0, <1>3, <2>2, ChangePromise DEF UpdateEvent
<1>4. QED
  BY <1>0, <1>1, <1>2, <1>3, StorePromise, ImmediatePromise, QuietPromise, CleanupPromise, CrashPromise
     DEF Next

-----------------------------------------------------------------------------
(* The theorems *)

\* The inductive invariant: the types, one entry or one row for an event, and
\* nothing but late events in the batch after the flush of Close.
THEOREM Invariance == Spec => []IInv
BY IInit, IStep, PTL DEF Spec

\* The types, the bound of the batch, and no row removed before its time.
THEOREM BatchAndRows == Spec => []BatchAndRowsSound
<1>1. IInv => BatchAndRowsSound
  BY DEF IInv, BatchAndRowsSound
<1>2. QED  BY Invariance, <1>1, PTL

\* Close loses no event that was batched before its last flush.
THEOREM CloseKeeps == Spec => []CloseLosesNothing
<1>1. IInv => CloseLosesNothing
  BY DEF IInv, LateOK, CloseLosesNothing
<1>2. QED  BY Invariance, <1>1, PTL

\* Every event that was taken is in one place and counted once, for any number
\* of events, failed transactions and crashes: StoreEvent, flushBatch,
\* StoreEventImmediate and cleanup of storage.go.
THEOREM EveryEventOnce == Spec => []StoredOnce
<1>1. ASSUME IInv, NEW e \in Events
      PROVE  Copies(e) = IF Taken(e) THEN 1 ELSE 0
  <2>0. Spot(e) /\ Distinct(batch) /\ OneRow
    BY <1>1 DEF IInv
  <2>1. Cardinality({i \in 1..Len(batch) : batch[i] = e}) = IF InBatch(e) THEN 1 ELSE 0
    <3>1. CASE InBatch(e)
      <4>1. PICK i \in 1..Len(batch) : batch[i] = e
        BY <3>1 DEF InBatch
      <4>2. {j \in 1..Len(batch) : batch[j] = e} = {i}
        BY <2>0, <4>1 DEF Distinct
      <4>3. Cardinality({i}) = 1
        BY FS_Singleton
      <4>4. QED  BY <3>1, <4>2, <4>3
    <3>2. CASE ~InBatch(e)
      <4>1. {j \in 1..Len(batch) : batch[j] = e} = {}
        BY <3>2 DEF InBatch
      <4>2. Cardinality({}) = 0
        BY FS_EmptySet
      <4>3. QED  BY <3>2, <4>1, <4>2
    <3>3. QED  BY <3>1, <3>2
  <2>2. Cardinality({id \in DOMAIN table : table[id].event = e}) = IF HasRow(e) THEN 1 ELSE 0
    <3>1. CASE HasRow(e)
      <4>1. PICK i \in DOMAIN table : table[i].event = e
        BY <3>1 DEF HasRow
      <4>2. {j \in DOMAIN table : table[j].event = e} = {i}
        BY <2>0, <4>1 DEF OneRow
      <4>3. Cardinality({i}) = 1
        BY FS_Singleton
      <4>4. QED  BY <3>1, <4>2, <4>3
    <3>2. CASE ~HasRow(e)
      <4>1. {j \in DOMAIN table : table[j].event = e} = {}
        BY <3>2 DEF HasRow
      <4>2. Cardinality({}) = 0
        BY FS_EmptySet
      <4>3. QED  BY <3>2, <4>1, <4>2
    <3>3. QED  BY <3>1, <3>2
  <2>3. Copies(e) = (IF InBatch(e) THEN 1 ELSE 0) + (IF HasRow(e) THEN 1 ELSE 0) + removed[e]
                      + (IF e \in lost THEN 1 ELSE 0)
    BY <2>1, <2>2 DEF Copies
  <2>4. QED  BY <2>0, <2>3 DEF Spot
<1>2. IInv => StoredOnce
  <2> SUFFICES ASSUME IInv PROVE StoredOnce
    OBVIOUS
  <2>1. \A e \in Events : Copies(e) = IF Taken(e) THEN 1 ELSE 0
    BY <1>1
  <2>2. QED  BY <2>1, StorageAssumption DEF StoredOnce, Taken, Events
<1>3. QED  BY Invariance, <1>2, PTL

\* The batch, the workers, the clients and the crashes implement EventStore.
THEOREM Refinement == Spec => KeepsEvents
<1>1. Init => Store!Init
  <2> SUFFICES ASSUME Init PROVE Store!Init
    OBVIOUS
  <2>1. \A e \in Events : ~InBatch(e) /\ RowsOf(e) = {} /\ removed[e] = 0 /\ e \notin lost /\ answer[e] = "none"
    BY DEF Init, InBatch, RowsOf
  <2>2. place = [e \in Events |-> "nowhere"]
    BY <2>1 DEF place, PlaceOf
  <2>3. acknowledged = {}
    BY <2>1 DEF acknowledged
  <2>4. QED  BY <2>2, <2>3 DEF Init, Store!Init
<1>2. QED
  BY Invariance, <1>1, PromiseStep, PTL DEF Spec, KeepsEvents, Store!Spec
=============================================================================
