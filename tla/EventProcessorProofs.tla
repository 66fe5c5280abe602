------------------------ MODULE EventProcessorProofs ------------------------
(***************************************************************************)
(* Proofs about EventProcessor for any events, hashes, number of workers   *)
(* and retries, and any size of the queue.  IInv says who has each task,   *)
(* what is known of an event at each place of its way, how often it was    *)
(* tried there, and what the counters count.                               *)
(***************************************************************************)
EXTENDS EventProcessor, FiniteSetTheorems, TLAPS

-----------------------------------------------------------------------------
(* Sequences without repetition *)

InSeq(q, x) == \E i \in 1..Len(q) : q[i] = x
Distinct(q) == \A i, j \in 1..Len(q) : q[i] = q[j] => i = j

\* What the send on eventQueue does to the set of queued tasks.
LEMMA AppendLemma ==
  ASSUME NEW S, NEW q \in Seq(S), NEW x \in S
  PROVE  /\ Append(q, x) \in Seq(S)
         /\ \A y : InSeq(Append(q, x), y) <=> InSeq(q, y) \/ y = x
         /\ Distinct(q) /\ ~InSeq(q, x) => Distinct(Append(q, x))
<1>1. /\ Append(q, x) \in Seq(S)
      /\ Len(Append(q, x)) = Len(q) + 1
      /\ \A i \in 1..Len(q) : Append(q, x)[i] = q[i]
      /\ Append(q, x)[Len(q) + 1] = x
      /\ Len(q) \in Nat
  OBVIOUS
<1>2. 1..Len(Append(q, x)) = (1..Len(q)) \cup {Len(q) + 1}
  BY <1>1
<1>3. \A y : InSeq(Append(q, x), y) <=> InSeq(q, y) \/ y = x
  BY <1>1, <1>2 DEF InSeq
<1>4. ASSUME Distinct(q), ~InSeq(q, x)
      PROVE  Distinct(Append(q, x))
  BY <1>1, <1>2, <1>4 DEF Distinct, InSeq
<1>5. QED
  BY <1>1, <1>3, <1>4

\* What the receive from eventQueue does to it.
LEMMA TailLemma ==
  ASSUME NEW S, NEW q \in Seq(S), q # <<>>
  PROVE  /\ Head(q) \in S /\ Tail(q) \in Seq(S)
         /\ InSeq(q, Head(q))
         /\ \A y : InSeq(Tail(q), y) => InSeq(q, y)
         /\ \A y : InSeq(q, y) => InSeq(Tail(q), y) \/ y = Head(q)
         /\ Distinct(q) => Distinct(Tail(q)) /\ ~InSeq(Tail(q), Head(q))
<1>1. /\ Head(q) \in S /\ Tail(q) \in Seq(S) /\ Head(q) = q[1]
      /\ Len(q) \in Nat \ {0} /\ Len(Tail(q)) = Len(q) - 1
      /\ \A i \in 1..Len(Tail(q)) : Tail(q)[i] = q[i + 1] /\ i + 1 \in 1..Len(q)
  OBVIOUS
<1>2. InSeq(q, Head(q))
  BY <1>1 DEF InSeq
<1>3. \A y : InSeq(Tail(q), y) => InSeq(q, y)
  BY <1>1 DEF InSeq
<1>a. ASSUME NEW y, InSeq(q, y), y # Head(q)
      PROVE  InSeq(Tail(q), y)
  <2>1. PICK i \in 1..Len(q) : q[i] = y
    BY <1>a DEF InSeq
  <2>2. i - 1 \in 1..Len(Tail(q)) /\ Tail(q)[i - 1] = y
    BY <1>1, <1>a, <2>1
  <2>3. QED  BY <2>2 DEF InSeq
<1>4. ASSUME Distinct(q)
      PROVE  Distinct(Tail(q)) /\ ~InSeq(Tail(q), Head(q))
  <2>1. Distinct(Tail(q))
    BY <1>1, <1>4 DEF Distinct
  <2>2. ~InSeq(Tail(q), Head(q))
    BY <1>1, <1>4 DEF Distinct, InSeq
  <2>3. QED  BY <2>1, <2>2
<1>5. QED
  BY <1>1, <1>2, <1>3, <1>4, <1>a

-----------------------------------------------------------------------------
(* The invariant *)

Inside == {"correlate", "store", "finish"}
ProcessorStats == [received: Nat, processed: Nat, failed: Nat, stored: Nat,
                   active: Nat, retries: Nat, timeouts: Nat]

\* A worker inside a task has one that came from the queue; the caller of
\* ProcessEventSync works on its own event until it is told the result.
WorkerOK == \A w \in Workers : IF at[w] \in Inside THEN job[w] \in Queued ELSE job[w] = None
DirectOK == \A e \in Direct : /\ at[e] = "idle" <=> caller[e] = "none"
                              /\ at[e] \in Inside <=> caller[e] = "waiting"
                              /\ at[e] \in Inside => job[e] = e

TypeInv == TypeOK /\ WorkerOK /\ DirectOK

\* Nothing happened yet to an event that was not accepted; a live task has no
\* result; and a caller that was told one was told the only one.
ResultOK ==
  \A e \in Queued :
    /\ caller[e] \in {"none", "refused"} => ~Live(e) /\ sends[e] = 0
    /\ sends[e] \in {0, 1}
    /\ Live(e) => sends[e] = 0
    /\ sends[e] = 0 => result[e] = "empty"
    /\ caller[e] \in Verdicts => sends[e] = 1

\* The row of an event is written at the end of its last attempt, and what
\* waits in its channel or was told its caller agrees with it.
Waiting(e) == InQueue(e) \/ e \in sleeping
Told(verdict, e) == /\ verdict = "ok" => rows[e] = 1
                    /\ verdict \in {"fail", "none", "refused"} => rows[e] = 0
RowsOK ==
  /\ \A a \in Agents : /\ at[a] \in {"correlate", "store"} => rows[job[a]] = 0
                       /\ at[a] = "finish" => rows[job[a]] = IF ok[a] THEN 1 ELSE 0
  /\ \A e \in Queued : (Waiting(e) => rows[e] = 0) /\ Told(result[e], e)
  /\ \A e \in Events : Told(caller[e], e) /\ rows[e] <= 1

\* Between two attempts an event was tried as often as its task counts, and
\* once more when an attempt has ended and its worker did not count it yet.
TriesOK ==
  /\ \A w \in Workers : /\ at[w] \in {"correlate", "store"} => tried[job[w]] = attempts[job[w]]
                        /\ at[w] = "finish" => tried[job[w]] = attempts[job[w]] + 1
  /\ \A e \in Queued : /\ Waiting(e) => tried[e] = attempts[e]
                       /\ e \in sleeping => attempts[e] > 0
                       /\ caller[e] \in {"none", "refused"} => tried[e] = 0 /\ attempts[e] = 0

IInv == TypeInv /\ OneOwner /\ ResultOK /\ RowsOK /\ TriesOK /\ StatsAgree

\* NewEventProcessor: every queue and counter empty, every goroutine idle.
LEMMA IInit == Init => IInv
<1> SUFFICES ASSUME Init PROVE IInv
  OBVIOUS
<1>1. TypeInv
  <2>1. queue \in Seq(Queued) /\ 0 \in 0..RetryAttempts
    BY ProcessorAssumption DEF Init
  <2>2. stats \in ProcessorStats
    BY DEF Init, ProcessorStats
  <2>3. WorkerOK /\ DirectOK
    BY DEF Init, WorkerOK, DirectOK, Inside, Agents, Events
  <2>4. QED
    BY <2>1, <2>2, <2>3 DEF Init, TypeInv, TypeOK, ProcessorStats, Verdicts
<1>2. \A e \in Queued : ~InQueue(e) /\ ~Held(e) /\ ~Live(e)
  BY DEF Init, InQueue, Held, Live, Agents
<1>3. OneOwner
  BY <1>2, ProcessorAssumption DEF Init, OneOwner, Agents
<1>4. ResultOK
  BY <1>2 DEF Init, ResultOK, Verdicts, Events
<1>5. RowsOK
  BY <1>2 DEF Init, RowsOK, Waiting, Told, Events, Agents
<1>6. TriesOK
  BY <1>2 DEF Init, TriesOK, Waiting, Events, Agents
<1>7. StatsAgree
  <2>1. /\ {w \in Workers : job[w] # None} = {} /\ {a \in Agents : at[a] = "finish" /\ ok[a]} = {}
        /\ {e \in Events : caller[e] # "none"} = {}
    BY DEF Init, Agents
  <2>2. /\ Cardinality({w \in Workers : job[w] # None}) = 0
        /\ Cardinality({a \in Agents : at[a] = "finish" /\ ok[a]}) = 0
        /\ Cardinality({e \in Events : caller[e] # "none"}) = 0
    BY <2>1, FS_EmptySet
  <2>3. /\ stats.active = 0 /\ stats.stored = 0 /\ stats.processed = 0 /\ stats.retries = 0
        /\ stats.failed = 0 /\ stats.received = 0 /\ panic = "no"
    BY DEF Init
  <2>4. QED  BY <2>2, <2>3 DEF StatsAgree
<1>8. QED  BY <1>1, <1>3, <1>4, <1>5, <1>6, <1>7 DEF IInv

\* The steps that touch no task and no event.
Closed(e) == Submit(e) /\ closed
Still == \/ (\E h \in Hashes : Forget(h)) \/ Cancel \/ CloseQueue
         \/ (\E e \in Queued : RequeueOnClosed(e) \/ Closed(e)) \/ UNCHANGED vars

\* What stays the same in all of them.
LEMMA StillMovesNothing ==
  ASSUME Still
  PROVE  UNCHANGED <<queue, procVars, attempts, sleeping, chanVars, caller, histVars>>
BY DEF Still, Forget, Cancel, CloseQueue, RequeueOnClosed, Closed, Submit, vars, procVars, chanVars,
       histVars, corrVars

\* The first two outcomes of ProcessEvent.
Accepted(e) == Submit(e) /\ ~closed /\ HasRoom
Refused(e)  == Submit(e) /\ ~closed /\ ~HasRoom

\* ProcessEvent has no other outcome but ErrClosed.
LEMMA SubmitSplits == \A e \in Queued : Submit(e) => Accepted(e) \/ Refused(e) \/ Closed(e)
BY DEF Accepted, Refused, Closed

-----------------------------------------------------------------------------
(* Types, except those of the statistics *)

\* The counters apart, the types of Init.
LEMMA TypeStep ==
  ASSUME TypeInv, stats' \in ProcessorStats, [Next]_vars
  PROVE  TypeInv'
<1>0. /\ TypeOK /\ WorkerOK /\ DirectOK /\ Workers \subseteq Agents /\ Direct \subseteq Agents
      /\ Queued \subseteq Events /\ Direct \subseteq Events /\ Events = Queued \cup Direct
      /\ Agents = Workers \cup Direct /\ Workers \cap Direct = {} /\ Queued \cap Direct = {}
      /\ RetryAttempts \in Nat /\ None \notin Events
  BY ProcessorAssumption DEF TypeInv, Events, Agents
<1>a. stats' \in [received: Nat, processed: Nat, failed: Nat, stored: Nat,
                  active: Nat, retries: Nat, timeouts: Nat]
  BY DEF ProcessorStats
<1>b. /\ queue \in Seq(Queued) /\ sleeping \in SUBSET Queued /\ recent \in SUBSET Hashes
      /\ at \in [Agents -> {"idle", "correlate", "store", "finish", "exited"}]
      /\ job \in [Agents -> Events \cup {None}] /\ ok \in [Agents -> BOOLEAN]
      /\ attempts \in [Queued -> 0..RetryAttempts] /\ sends \in [Queued -> Nat]
      /\ result \in [Queued -> Verdicts \cup {"empty"}] /\ duplicate \in [Events -> BOOLEAN]
      /\ caller \in [Events -> {"none", "waiting", "refused", "timeout"} \cup Verdicts]
      /\ rows \in [Events -> Nat] /\ tried \in [Events -> Nat]
  BY <1>0 DEF TypeOK
<1>1. CASE Still
  <2>1. cancelled' \in BOOLEAN /\ closed' \in BOOLEAN /\ recent' \in SUBSET Hashes
        /\ duplicate' \in [Events -> BOOLEAN] /\ panic' \in {"no", "caller", "retry"}
    BY <1>0, <1>1 DEF Still, Forget, Cancel, CloseQueue, RequeueOnClosed, Closed, Submit, vars,
                      corrVars, TypeOK
  <2>2. QED
    BY <1>0, <1>a, <1>1, <2>1, StillMovesNothing
       DEF TypeInv, TypeOK, WorkerOK, DirectOK, procVars, chanVars, histVars
<1>2. ASSUME NEW e \in Queued, Accepted(e) \/ Refused(e)
      PROVE  TypeInv'
  <2>1. queue' \in Seq(Queued)
    <3>1. queue' = queue \/ queue' = Append(queue, e)
      BY <1>2 DEF Accepted, Refused, Submit
    <3>2. queue \in Seq(Queued) /\ sleeping \in SUBSET Queued
      BY <1>b
    <3>3. Append(queue, e) \in Seq(Queued)
      BY <3>2
    <3>4. QED  BY <3>1, <3>2, <3>3
  <2>2. caller' \in [Events -> {"none", "waiting", "refused", "timeout"} \cup Verdicts]
        /\ \A d \in Direct : caller'[d] = caller[d]
    BY <1>0, <1>2 DEF Accepted, Refused, Submit, TypeOK
  <2>3. UNCHANGED <<cancelled, closed, procVars, attempts, sleeping, chanVars, corrVars, histVars, panic>>
    BY <1>2 DEF Accepted, Refused, Submit
  <2>4. QED
    BY <1>0, <1>a, <2>1, <2>2, <2>3
       DEF TypeInv, TypeOK, WorkerOK, DirectOK, procVars, chanVars, histVars, corrVars
<1>3. ASSUME NEW e \in Queued, Receive(e) \/ Timeout(e)
      PROVE  TypeInv'
  <2>1. caller' \in [Events -> {"none", "waiting", "refused", "timeout"} \cup Verdicts]
        /\ \A d \in Direct : caller'[d] = caller[d]
    BY <1>0, <1>3 DEF Receive, Timeout, TypeOK
  <2>2. result' \in [Queued -> Verdicts \cup {"empty"}] /\ sends' = sends
    BY <1>0, <1>3 DEF Receive, Timeout, TypeOK, chanVars
  <2>3. UNCHANGED <<queue, cancelled, closed, procVars, attempts, sleeping, corrVars, histVars, panic>>
    BY <1>3 DEF Receive, Timeout
  <2>4. QED
    BY <1>0, <1>a, <2>1, <2>2, <2>3
       DEF TypeInv, TypeOK, WorkerOK, DirectOK, procVars, histVars, corrVars
<1>4. ASSUME NEW a \in Agents, Process(a)
      PROVE  TypeInv'
  <2>1. job[a] \in Events
    BY <1>0, <1>4 DEF Process, Correlate, Store, StoreFails, WorkerOK, DirectOK, Inside
  <2>2. /\ at[a] \in Inside /\ at'[a] \in Inside /\ \A b \in Agents \ {a} : at'[b] = at[b]
        /\ at' \in [Agents -> {"idle", "correlate", "store", "finish", "exited"}]
    BY <1>0, <1>4 DEF Process, Correlate, Store, StoreFails, TypeOK, Inside
  <2>3. UNCHANGED <<queue, cancelled, closed, job, attempts, sleeping, chanVars, caller, panic>>
    BY <1>4 DEF Process, Correlate, Store, StoreFails
  <2>a. rows[job[a]] + 1 \in Nat /\ tried[job[a]] + 1 \in Nat /\ Hash[job[a]] \in Hashes
    BY <1>b, <2>1 DEF Hashes
  <2>4. ok' \in [Agents -> BOOLEAN] /\ rows' \in [Events -> Nat] /\ tried' \in [Events -> Nat]
    <3>1. CASE Correlate(a)
      BY <1>b, <3>1 DEF Correlate, histVars
    <3>2. CASE Store(a)
      BY <1>b, <2>1, <2>a, <3>2 DEF Store
    <3>3. CASE StoreFails(a)
      BY <1>b, <2>1, <2>a, <3>3 DEF StoreFails
    <3>4. QED  BY <1>4, <3>1, <3>2, <3>3 DEF Process
  <2>5. recent' \in SUBSET Hashes /\ duplicate' \in [Events -> BOOLEAN]
    <3>1. CASE Correlate(a)
      <4>1. (Hash[job[a]] \in recent) \in BOOLEAN
        OBVIOUS
      <4>2. recent' \in SUBSET Hashes
        BY <1>b, <2>a, <3>1 DEF Correlate
      <4>3. duplicate' = [duplicate EXCEPT ![job[a]] = Hash[job[a]] \in recent]
        BY <3>1 DEF Correlate
      <4>4. QED  BY <1>b, <2>1, <4>1, <4>2, <4>3, Zenon
    <3>2. CASE Store(a) \/ StoreFails(a)
      BY <1>b, <3>2 DEF Store, StoreFails, corrVars
    <3>3. QED  BY <1>4, <3>1, <3>2 DEF Process
  <2>6. WorkerOK'
    BY <1>0, <2>2, <2>3 DEF WorkerOK
  <2>7. DirectOK'
    BY <1>0, <2>2, <2>3 DEF DirectOK, Inside
  <2>8. QED
    BY <1>0, <1>a, <2>2, <2>3, <2>4, <2>5, <2>6, <2>7 DEF TypeInv, TypeOK, chanVars
<1>5. ASSUME NEW e \in Direct, CallSync(e) \/ ReturnSync(e)
      PROVE  TypeInv'
  <2>1. caller' \in [Events -> {"none", "waiting", "refused", "timeout"} \cup Verdicts]
    <3>1. \E v \in {"waiting", "ok", "fail"} : caller' = [caller EXCEPT ![e] = v]
      BY <1>5 DEF CallSync, ReturnSync, Reported
    <3>2. QED  BY <1>b, <3>1 DEF Verdicts
  <2>2. at' \in [Agents -> {"idle", "correlate", "store", "finish", "exited"}]
        /\ job' \in [Agents -> Events \cup {None}]
    <3>1. \E v \in {"correlate", "exited"} : at' = [at EXCEPT ![e] = v]
      BY <1>5 DEF CallSync, ReturnSync
    <3>2. job' = job \/ job' = [job EXCEPT ![e] = e]
      BY <1>5 DEF CallSync, ReturnSync
    <3>3. at' \in [Agents -> {"idle", "correlate", "store", "finish", "exited"}]
      BY <1>b, <3>1
    <3>4. job' \in [Agents -> Events \cup {None}]
      BY <1>0, <1>b, <3>2
    <3>5. QED  BY <3>3, <3>4
  <2>3. UNCHANGED <<queue, cancelled, closed, ok, attempts, sleeping, chanVars, corrVars, histVars, panic>>
    BY <1>5 DEF CallSync, ReturnSync
  <2>4. \A b \in Agents \ {e} : at'[b] = at[b] /\ job'[b] = job[b]
    BY <1>0, <1>5 DEF CallSync, ReturnSync, TypeOK
  <2>5. \A d \in Direct \ {e} : caller'[d] = caller[d]
    BY <1>0, <1>5 DEF CallSync, ReturnSync, TypeOK
  <2>6. \/ at'[e] = "correlate" /\ job'[e] = e /\ caller'[e] = "waiting"
        \/ at'[e] = "exited" /\ caller'[e] \in {"ok", "fail"}
    BY <1>0, <1>5 DEF CallSync, ReturnSync, TypeOK, Reported
  <2>7. WorkerOK'
    BY <1>0, <2>4 DEF WorkerOK
  <2>8. DirectOK'
    BY <1>0, <2>4, <2>5, <2>6 DEF DirectOK, Inside
  <2>9. QED
    BY <1>0, <1>a, <2>1, <2>2, <2>3, <2>7, <2>8 DEF TypeInv, TypeOK, chanVars, corrVars, histVars
<1>6. ASSUME NEW w \in Workers, Take(w)
      PROVE  TypeInv'
  <2>1. Head(queue) \in Queued /\ queue' \in Seq(Queued)
    BY <1>0, <1>6 DEF Take, TypeOK
  <2>2. /\ at' \in [Agents -> {"idle", "correlate", "store", "finish", "exited"}]
        /\ job' \in [Agents -> Events \cup {None}]
        /\ at'[w] = "correlate" /\ job'[w] \in Queued
        /\ \A b \in Agents \ {w} : at'[b] = at[b] /\ job'[b] = job[b]
    BY <1>0, <1>6, <2>1 DEF Take, TypeOK
  <2>3. UNCHANGED <<cancelled, closed, ok, attempts, sleeping, chanVars, caller, corrVars, histVars, panic>>
    BY <1>6 DEF Take
  <2>4. WorkerOK' /\ DirectOK'
    BY <1>0, <2>2, <2>3 DEF WorkerOK, DirectOK, Inside
  <2>5. QED
    BY <1>0, <1>a, <2>1, <2>2, <2>3, <2>4 DEF TypeInv, TypeOK, chanVars, corrVars, histVars
<1>7. ASSUME NEW w \in Workers, Exit(w)
      PROVE  TypeInv'
  <2>1. /\ at' \in [Agents -> {"idle", "correlate", "store", "finish", "exited"}]
        /\ at[w] = "idle" /\ at'[w] = "exited" /\ \A b \in Agents \ {w} : at'[b] = at[b]
    BY <1>0, <1>7 DEF Exit, TypeOK
  <2>2. UNCHANGED <<queue, cancelled, closed, job, ok, attempts, sleeping, chanVars, caller, corrVars,
                    histVars, panic>>
    BY <1>7 DEF Exit
  <2>3. WorkerOK' /\ DirectOK'
    BY <1>0, <2>1, <2>2 DEF WorkerOK, DirectOK, Inside
  <2>4. QED
    BY <1>0, <1>a, <2>1, <2>2, <2>3 DEF TypeInv, TypeOK, chanVars, corrVars, histVars
<1>8. ASSUME NEW w \in Workers, Retry(w) \/ Finish(w)
      PROVE  TypeInv'
  <2>0. job[w] \in Queued
    BY <1>0, <1>8 DEF Retry, Finish, WorkerOK, Inside
  <2>1. /\ at' \in [Agents -> {"idle", "correlate", "store", "finish", "exited"}]
        /\ job' \in [Agents -> Events \cup {None}]
        /\ at'[w] = "idle" /\ job'[w] = None
        /\ \A b \in Agents \ {w} : at'[b] = at[b] /\ job'[b] = job[b]
    BY <1>0, <1>8 DEF Retry, Finish, TypeOK
  <2>2. UNCHANGED <<queue, cancelled, closed, ok, caller, corrVars, histVars, panic>>
    BY <1>8 DEF Retry, Finish
  <2>3. attempts' \in [Queued -> 0..RetryAttempts]
    <3>1. CASE Retry(w)
      <4>1. attempts[job[w]] \in 0..RetryAttempts /\ attempts[job[w]] < RetryAttempts
        BY <1>b, <2>0, <3>1 DEF Retry, Retries
      <4>2. attempts[job[w]] + 1 \in 0..RetryAttempts
        BY <1>0, <4>1
      <4>3. attempts' = [attempts EXCEPT ![job[w]] = attempts[job[w]] + 1]
        BY <3>1 DEF Retry
      <4>4. QED  BY <1>b, <4>2, <4>3
    <3>2. CASE Finish(w)
      BY <1>b, <3>2 DEF Finish
    <3>3. QED  BY <1>8, <3>1, <3>2
  <2>4. sleeping' \in SUBSET Queued
    BY <1>0, <1>8, <2>0 DEF Retry, Finish, TypeOK
  <2>5. result' \in [Queued -> Verdicts \cup {"empty"}]
    <3>1. \/ result' = result
          \/ \E v \in {"ok", "fail"} : result' = [result EXCEPT ![job[w]] = v]
      BY <1>8 DEF Retry, Finish, Reported, chanVars
    <3>2. QED  BY <1>b, <3>1 DEF Verdicts
  <2>6. sends' \in [Queued -> Nat]
    <3>1. sends' = sends \/ sends' = [sends EXCEPT ![job[w]] = sends[job[w]] + 1]
      BY <1>8 DEF Retry, Finish, chanVars
    <3>2. QED  BY <1>b, <2>0, <3>1
  <2>7. WorkerOK' /\ DirectOK'
    BY <1>0, <2>1, <2>2 DEF WorkerOK, DirectOK, Inside
  <2>8. QED
    BY <1>0, <1>a, <2>1, <2>2, <2>3, <2>4, <2>5, <2>6, <2>7 DEF TypeInv, TypeOK, corrVars, histVars
<1>9. ASSUME NEW e \in Queued, Requeue(e) \/ RequeueFails(e)
      PROVE  TypeInv'
  <2>1. queue' \in Seq(Queued) /\ sleeping' \in SUBSET Queued
    <3>1. (queue' = queue \/ queue' = Append(queue, e)) /\ sleeping' = sleeping \ {e}
      BY <1>9 DEF Requeue, Woken, RequeueFails, GivenUp
    <3>2. queue \in Seq(Queued) /\ sleeping \in SUBSET Queued
      BY <1>b
    <3>3. Append(queue, e) \in Seq(Queued)
      BY <3>2
    <3>4. QED  BY <3>1, <3>2, <3>3
  <2>2. result' \in [Queued -> Verdicts \cup {"empty"}] /\ sends' \in [Queued -> Nat]
    <3>1. \/ result' = result /\ sends' = sends
          \/ /\ result' = [result EXCEPT ![e] = "fail"]
             /\ sends' = [sends EXCEPT ![e] = sends[e] + 1]
      BY <1>9 DEF Requeue, RequeueFails, chanVars
    <3>2. sends[e] + 1 \in Nat
      BY <1>b
    <3>3. sends' \in [Queued -> Nat]
      BY <1>b, <3>1, <3>2
    <3>4. result' \in [Queued -> Verdicts \cup {"empty"}]
      BY <1>b, <3>1 DEF Verdicts
    <3>5. QED  BY <3>3, <3>4
  <2>3. UNCHANGED <<cancelled, closed, procVars, attempts, caller, corrVars, histVars, panic>>
    BY <1>9 DEF Requeue, RequeueFails
  <2>4. QED
    BY <1>0, <1>a, <2>1, <2>2, <2>3 DEF TypeInv, TypeOK, WorkerOK, DirectOK, procVars, corrVars, histVars
<1>10. QED
  BY <1>0, <1>1, <1>2, <1>3, <1>4, <1>5, <1>6, <1>7, <1>8, <1>9, SubmitSplits
     DEF Next, Work, Wake, Still

-----------------------------------------------------------------------------
(* Who has each task *)

\* The types by which the proofs below work.
LEMMA Types ==
  ASSUME TypeInv
  PROVE  /\ queue \in Seq(Queued) /\ sleeping \in SUBSET Queued
         /\ at \in [Agents -> {"idle", "correlate", "store", "finish", "exited"}]
         /\ job \in [Agents -> Events \cup {None}] /\ ok \in [Agents -> BOOLEAN]
         /\ attempts \in [Queued -> 0..RetryAttempts] /\ sends \in [Queued -> Nat]
         /\ result \in [Queued -> Verdicts \cup {"empty"}]
         /\ caller \in [Events -> {"none", "waiting", "refused", "timeout"} \cup Verdicts]
         /\ rows \in [Events -> Nat] /\ tried \in [Events -> Nat]
         /\ Workers \subseteq Agents /\ Direct \subseteq Agents /\ Agents = Workers \cup Direct
         /\ Queued \subseteq Events /\ Direct \subseteq Events /\ Events = Queued \cup Direct
         /\ Queued \cap Direct = {} /\ Workers \cap Direct = {}
         /\ None \notin Events /\ RetryAttempts \in Nat
BY ProcessorAssumption DEF TypeInv, TypeOK, Agents, Events

\* A worker has a task exactly while it is inside it.
LEMMA HeldByJob ==
  /\ TypeInv => \A e \in Queued : Held(e) <=> \E w \in Workers : job[w] = e
  /\ TypeInv' => \A e \in Queued : Held(e)' <=> \E w \in Workers : job'[w] = e
<1>1. ASSUME TypeInv, NEW e \in Queued
      PROVE  Held(e) <=> \E w \in Workers : job[w] = e
  <2>1. \A w \in Workers : job[w] = e => at[w] \in Inside
    BY <1>1, ProcessorAssumption DEF TypeInv, WorkerOK, Events
  <2>2. QED  BY <2>1 DEF Held, Inside
<1>2. ASSUME TypeInv', NEW e \in Queued
      PROVE  Held(e)' <=> \E w \in Workers : job'[w] = e
  <2>1. \A w \in Workers : job'[w] = e => at'[w] \in Inside
    BY <1>2, ProcessorAssumption DEF TypeInv, WorkerOK, Events
  <2>2. QED  BY <2>1 DEF Held, Inside
<1>3. QED  BY <1>1, <1>2

\* So nobody else has it.
LEMMA Owned ==
  ASSUME TypeInv, OneOwner, NEW w \in Workers, at[w] \in Inside
  PROVE  /\ job[w] \in Queued /\ Held(job[w]) /\ Live(job[w]) /\ ~Waiting(job[w])
         /\ \A v \in Workers : job[v] = job[w] => v = w
<1>1. job[w] \in Queued /\ job[w] # None
  BY ProcessorAssumption DEF TypeInv, WorkerOK, Events
<1>2. Held(job[w])
  BY DEF Held, Inside
<1>3. QED
  BY <1>1, <1>2 DEF OneOwner, Live, Waiting

\* Where a task is seen to be, in one state and in the next.
Seen(e) == /\ InQueue(e)' <=> InQueue(e)
           /\ e \in sleeping' <=> e \in sleeping
           /\ Held(e)' <=> Held(e)
           /\ Live(e)' <=> Live(e)
           /\ Waiting(e)' <=> Waiting(e)

\* A step that leaves the queue, the sleepers and the workers' tasks alone.
Quiet == queue' = queue /\ sleeping' = sleeping /\ \A w \in Workers : job'[w] = job[w]

\* Such a step leaves every task with its owner.
LEMMA OwnersStay ==
  ASSUME TypeInv, TypeInv', OneOwner, Quiet
  PROVE  OneOwner' /\ \A e \in Queued : Seen(e)
<1>1. \A e \in Queued : Seen(e)
  BY HeldByJob DEF Quiet, Seen, InQueue, Live, Waiting
<1>2. QED  BY <1>1 DEF Quiet, Seen, OneOwner

\* A task that is sent to eventQueue is there once.
LEMMA SentIsQueued ==
  ASSUME TypeInv, OneOwner, NEW e \in Queued, ~InQueue(e), queue' = Append(queue, e)
  PROVE  /\ InQueue(e)' /\ \A f \in Queued \ {e} : InQueue(f)' <=> InQueue(f)
         /\ Distinct(queue')
<1>1. queue \in Seq(Queued)
  BY Types
<1>2. \A f : (InQueue(f) <=> InSeq(queue, f)) /\ (InQueue(f)' <=> InSeq(queue', f))
  BY DEF InQueue, InSeq
<1>3. Distinct(queue) /\ ~InSeq(queue, e)
  BY <1>2 DEF OneOwner, Distinct
<1>4. QED  BY <1>1, <1>2, <1>3, AppendLemma

\* ProcessEvent gives away a task that nobody had.
LEMMA AcceptedMoves ==
  ASSUME TypeInv, TypeInv', OneOwner, ResultOK, NEW e \in Queued, Accepted(e)
  PROVE  /\ OneOwner' /\ \A f \in Queued \ {e} : Seen(f)
         /\ InQueue(e)' /\ Live(e)' /\ Waiting(e)' /\ e \notin sleeping' /\ ~Held(e)'
         /\ caller[e] = "none" /\ caller' = [caller EXCEPT ![e] = "waiting"]
         /\ UNCHANGED <<procVars, attempts, sleeping, chanVars, histVars>>
<1>1. /\ caller[e] = "none" /\ caller' = [caller EXCEPT ![e] = "waiting"]
      /\ queue' = Append(queue, e)
      /\ UNCHANGED <<procVars, attempts, sleeping, chanVars, histVars>>
  BY DEF Accepted, Submit
<1>2. ~InQueue(e) /\ ~Held(e) /\ e \notin sleeping
  BY <1>1 DEF ResultOK, Live
<1>3. /\ InQueue(e)' /\ \A f \in Queued \ {e} : InQueue(f)' <=> InQueue(f)
      /\ Distinct(queue')
  BY <1>1, <1>2, SentIsQueued
<1>4. sleeping' = sleeping /\ job' = job
  BY <1>1 DEF procVars
<1>5. \A f \in Queued : Held(f)' <=> Held(f)
  BY <1>4, HeldByJob
<1>6. \A f \in Queued \ {e} : Seen(f)
  BY <1>3, <1>4, <1>5 DEF Seen, Live, Waiting
<1>7. OneOwner'
  BY <1>2, <1>3, <1>4, <1>5 DEF OneOwner, Distinct
<1>8. QED
  BY <1>1, <1>2, <1>3, <1>4, <1>5, <1>6, <1>7 DEF Live, Waiting

\* A worker takes the oldest task, which goes with it.
LEMMA TakeMoves ==
  ASSUME TypeInv, TypeInv', OneOwner, NEW w \in Workers, Take(w)
  PROVE  /\ OneOwner' /\ \A f \in Queued : Live(f)' <=> Live(f)
         /\ \E e \in Queued :
              /\ InQueue(e) /\ ~Waiting(e)' /\ \A f \in Queued \ {e} : Seen(f)
              /\ at[w] = "idle" /\ at' = [at EXCEPT ![w] = "correlate"]
              /\ job' = [job EXCEPT ![w] = e]
              /\ UNCHANGED <<ok, attempts, sleeping, chanVars, caller, histVars>>
<1>0. queue \in Seq(Queued) /\ queue # <<>>
  BY Types DEF Take
<1>1. PICK e \in Queued : e = Head(queue)
  BY <1>0, TailLemma
<1>2. /\ at[w] = "idle" /\ at' = [at EXCEPT ![w] = "correlate"]
      /\ job' = [job EXCEPT ![w] = e] /\ queue' = Tail(queue)
      /\ UNCHANGED <<ok, attempts, sleeping, chanVars, caller, histVars>>
  BY <1>1 DEF Take
<1>3. \A f : (InQueue(f) <=> InSeq(queue, f)) /\ (InQueue(f)' <=> InSeq(queue', f))
  BY DEF InQueue, InSeq
<1>4. Distinct(queue)
  BY DEF OneOwner, Distinct
<1>5. /\ InQueue(e) /\ ~InQueue(e)' /\ Distinct(queue')
      /\ \A f \in Queued \ {e} : InQueue(f)' <=> InQueue(f)
  BY <1>0, <1>1, <1>2, <1>3, <1>4, TailLemma
<1>6. /\ job[w] = None /\ job'[w] = e /\ \A v \in Workers \ {w} : job'[v] = job[v]
  BY <1>2, Types DEF TypeInv, WorkerOK, Inside
<1>7. Held(e)' /\ \A f \in Queued \ {e} : Held(f)' <=> Held(f)
  <2>1. \A f \in Queued : f # None
    BY Types
  <2>2. \A f \in Queued \ {e} : (\E v \in Workers : job'[v] = f) <=> (\E v \in Workers : job[v] = f)
    BY <1>6, <2>1
  <2>3. \A f \in Queued : /\ Held(f) <=> \E v \in Workers : job[v] = f
                          /\ Held(f)' <=> \E v \in Workers : job'[v] = f
    BY HeldByJob
  <2>4. QED  BY <1>6, <2>2, <2>3
<1>8. ~Held(e) /\ e \notin sleeping /\ sleeping' = sleeping
  BY <1>2, <1>5 DEF OneOwner
<1>9. \A v \in Workers : job[v] # e
  BY <1>8, HeldByJob
<1>10. OneOwner'
  <2>1. \A u, v \in Workers : job'[u] = job'[v] /\ job'[u] # None => u = v
    BY <1>6, <1>9 DEF OneOwner
  <2>2. QED  BY <1>5, <1>7, <1>8, <2>1 DEF OneOwner, Distinct
<1>11. \A f \in Queued \ {e} : Seen(f)
  BY <1>5, <1>7, <1>8 DEF Seen, Live, Waiting
<1>12. Live(e)' /\ Live(e) /\ ~Waiting(e)'
  BY <1>5, <1>7, <1>8 DEF Live, Waiting
<1>13. QED
  BY <1>2, <1>5, <1>10, <1>11, <1>12 DEF Seen

\* A worker that is through with a task lets go of it.
LEMMA LetGo ==
  ASSUME TypeInv, TypeInv', OneOwner, NEW w \in Workers, at[w] = "finish",
         job' = [job EXCEPT ![w] = None]
  PROVE  /\ \A e \in Queued : Held(e)' <=> Held(e) /\ e # job[w]
         /\ \A u, v \in Workers : job'[u] = job'[v] /\ job'[u] # None => u = v
<1>1. job'[w] = None /\ \A v \in Workers \ {w} : job'[v] = job[v] /\ job[v] # job[w]
  BY Owned, Types DEF Inside
<1>2. \A e \in Queued : Held(e)' <=> Held(e) /\ e # job[w]
  BY <1>1, HeldByJob, Types
<1>3. QED
  BY <1>1, <1>2 DEF OneOwner

\* After a failure that is not the last the task goes to a goroutine that sleeps.
LEMMA RetryMoves ==
  ASSUME TypeInv, TypeInv', OneOwner, NEW w \in Workers, Retry(w)
  PROVE  /\ OneOwner' /\ \A f \in Queued : Live(f)' <=> Live(f)
         /\ \E e \in Queued :
              /\ e = job[w] /\ e \in sleeping' /\ \A f \in Queued \ {e} : Seen(f)
              /\ at[w] = "finish" /\ ~ok[w] /\ attempts[e] < RetryAttempts
              /\ at' = [at EXCEPT ![w] = "idle"] /\ job' = [job EXCEPT ![w] = None]
              /\ attempts' = [attempts EXCEPT ![e] = @ + 1]
              /\ UNCHANGED <<ok, chanVars, caller, histVars>>
<1>1. PICK e \in Queued : e = job[w]
  BY Owned DEF Retry, Inside
<1>2. /\ at[w] = "finish" /\ ~ok[w] /\ attempts[e] < RetryAttempts
      /\ at' = [at EXCEPT ![w] = "idle"] /\ job' = [job EXCEPT ![w] = None]
      /\ attempts' = [attempts EXCEPT ![e] = @ + 1] /\ sleeping' = sleeping \cup {e}
      /\ queue' = queue
      /\ UNCHANGED <<ok, chanVars, caller, histVars>>
  BY <1>1 DEF Retry, Retries
<1>3. /\ \A f \in Queued : Held(f)' <=> Held(f) /\ f # e
      /\ \A u, v \in Workers : job'[u] = job'[v] /\ job'[u] # None => u = v
  BY <1>1, <1>2, LetGo
<1>4. Held(e) /\ ~InQueue(e)
  BY <1>1, <1>2, Owned DEF Inside, Waiting
<1>5. \A f \in Queued : InQueue(f)' <=> InQueue(f)
  BY <1>2 DEF InQueue
<1>6. OneOwner'
  BY <1>2, <1>3, <1>4, <1>5 DEF OneOwner
<1>7. \A f \in Queued \ {e} : Seen(f)
  BY <1>2, <1>3, <1>5 DEF Seen, Live, Waiting
<1>8. Live(e)' /\ Live(e)
  BY <1>2, <1>4 DEF Live
<1>9. QED
  BY <1>1, <1>2, <1>6, <1>7, <1>8 DEF Seen

\* After the last attempt nobody has the task any more.
LEMMA FinishMoves ==
  ASSUME TypeInv, TypeInv', OneOwner, NEW w \in Workers, Finish(w)
  PROVE  /\ OneOwner'
         /\ \E e \in Queued :
              /\ e = job[w] /\ ~Live(e)' /\ ~Waiting(e)' /\ \A f \in Queued \ {e} : Seen(f)
              /\ at[w] = "finish" /\ ~Retries(w)
              /\ at' = [at EXCEPT ![w] = "idle"] /\ job' = [job EXCEPT ![w] = None]
              /\ IF result[e] = "empty"
                 THEN /\ result' = [result EXCEPT ![e] = Reported(w)]
                      /\ sends' = [sends EXCEPT ![e] = @ + 1]
                 ELSE result' = result /\ sends' = sends
              /\ UNCHANGED <<ok, attempts, caller, histVars, sleeping>>
<1>1. PICK e \in Queued : e = job[w]
  BY Owned DEF Finish, Inside
<1>2. /\ at[w] = "finish" /\ ~Retries(w)
      /\ at' = [at EXCEPT ![w] = "idle"] /\ job' = [job EXCEPT ![w] = None]
      /\ queue' = queue /\ sleeping' = sleeping
      /\ UNCHANGED <<ok, attempts, caller, histVars, sleeping>>
      /\ IF result[e] = "empty"
         THEN /\ result' = [result EXCEPT ![e] = Reported(w)]
              /\ sends' = [sends EXCEPT ![e] = @ + 1]
         ELSE result' = result /\ sends' = sends
  BY <1>1 DEF Finish, chanVars
<1>3. /\ \A f \in Queued : Held(f)' <=> Held(f) /\ f # e
      /\ \A u, v \in Workers : job'[u] = job'[v] /\ job'[u] # None => u = v
  BY <1>1, <1>2, LetGo
<1>4. ~Waiting(e)
  BY <1>1, <1>2, Owned DEF Inside
<1>5. \A f \in Queued : InQueue(f)' <=> InQueue(f)
  BY <1>2 DEF InQueue
<1>6. OneOwner'
  BY <1>2, <1>3, <1>5 DEF OneOwner
<1>7. \A f \in Queued \ {e} : Seen(f)
  BY <1>2, <1>3, <1>5 DEF Seen, Live, Waiting
<1>8. ~Live(e)' /\ ~Waiting(e)'
  BY <1>2, <1>3, <1>4, <1>5 DEF Live, Waiting
<1>9. QED
  BY <1>1, <1>2, <1>6, <1>7, <1>8

\* A retry goroutine wakes and sends its task, or gives it up.
LEMMA RequeueMoves ==
  ASSUME TypeInv, TypeInv', OneOwner, NEW e \in Queued, Requeue(e)
  PROVE  /\ OneOwner' /\ e \in sleeping /\ \A f \in Queued \ {e} : Seen(f)
         /\ \A f \in Queued : (Live(f)' <=> Live(f)) /\ (Waiting(f)' <=> Waiting(f))
         /\ sleeping' = sleeping \ {e}
         /\ UNCHANGED <<procVars, attempts, chanVars, caller, histVars>>
<1>1. /\ queue' = Append(queue, e) /\ e \in sleeping /\ sleeping' = sleeping \ {e}
      /\ UNCHANGED <<procVars, attempts, chanVars, caller, histVars>>
  BY DEF Requeue, Woken
<1>2. ~InQueue(e) /\ ~Held(e)
  BY <1>1 DEF OneOwner
<1>3. /\ InQueue(e)' /\ \A f \in Queued \ {e} : InQueue(f)' <=> InQueue(f)
      /\ Distinct(queue')
  BY <1>1, <1>2, SentIsQueued
<1>4. job' = job
  BY <1>1 DEF procVars
<1>5. \A f \in Queued : Held(f)' <=> Held(f)
  BY <1>4, HeldByJob
<1>6. \A f \in Queued \ {e} : Seen(f)
  BY <1>1, <1>3, <1>5 DEF Seen, Live, Waiting
<1>7. OneOwner'
  BY <1>1, <1>2, <1>3, <1>4, <1>5 DEF OneOwner, Distinct
<1>8. Live(e)' /\ Live(e) /\ Waiting(e)' /\ Waiting(e)
  BY <1>1, <1>3 DEF Live, Waiting
<1>9. QED
  BY <1>1, <1>6, <1>7, <1>8 DEF Seen

\* The second outcome.
LEMMA GivenUpMoves ==
  ASSUME TypeInv, TypeInv', OneOwner, NEW e \in Queued, RequeueFails(e)
  PROVE  /\ OneOwner' /\ e \in sleeping /\ ~Live(e)' /\ ~Waiting(e)' /\ \A f \in Queued \ {e} : Seen(f)
         /\ result[e] = "empty" /\ result' = [result EXCEPT ![e] = "fail"]
         /\ sends' = [sends EXCEPT ![e] = @ + 1] /\ sleeping' = sleeping \ {e}
         /\ UNCHANGED <<queue, procVars, attempts, caller, histVars>>
<1>1. /\ e \in sleeping /\ sleeping' = sleeping \ {e}
      /\ result[e] = "empty" /\ result' = [result EXCEPT ![e] = "fail"]
      /\ sends' = [sends EXCEPT ![e] = @ + 1]
      /\ UNCHANGED <<queue, procVars, attempts, caller, histVars>>
  BY DEF RequeueFails, GivenUp
<1>2. ~InQueue(e) /\ ~Held(e)
  BY <1>1 DEF OneOwner
<1>3. job' = job /\ queue' = queue
  BY <1>1 DEF procVars
<1>4. \A f \in Queued : (Held(f)' <=> Held(f)) /\ (InQueue(f)' <=> InQueue(f))
  BY <1>3, HeldByJob DEF InQueue
<1>5. \A f \in Queued \ {e} : Seen(f)
  BY <1>1, <1>4 DEF Seen, Live, Waiting
<1>6. OneOwner'
  BY <1>1, <1>3, <1>4 DEF OneOwner
<1>7. ~Live(e)' /\ ~Waiting(e)'
  BY <1>1, <1>2, <1>4 DEF Live, Waiting
<1>8. QED
  BY <1>1, <1>5, <1>6, <1>7

\* The steps that change no owner.
LEMMA QuietSteps ==
  ASSUME TypeInv,
         \/ Still \/ (\E e \in Queued : Refused(e) \/ Receive(e) \/ Timeout(e))
         \/ (\E a \in Agents : Process(a)) \/ (\E e \in Direct : CallSync(e) \/ ReturnSync(e))
         \/ (\E w \in Workers : Exit(w))
  PROVE  Quiet
<1>1. ASSUME NEW e \in Direct, CallSync(e) \/ ReturnSync(e)
      PROVE  Quiet
  <2>1. /\ queue' = queue /\ sleeping' = sleeping
        /\ job' = job \/ job' = [job EXCEPT ![e] = e]
    BY <1>1 DEF CallSync, ReturnSync
  <2>2. \A w \in Workers : w # e /\ job'[w] = job[w]
    BY <2>1, Types
  <2>3. QED  BY <2>1, <2>2 DEF Quiet
<1>2. CASE Still
  BY <1>2, StillMovesNothing DEF Quiet, procVars
<1>3. ASSUME NEW e \in Queued, Refused(e) \/ Receive(e) \/ Timeout(e)
      PROVE  Quiet
  BY <1>3 DEF Refused, Submit, Receive, Timeout, Quiet, procVars
<1>4. ASSUME NEW a \in Agents, Process(a) \/ Exit(a)
      PROVE  Quiet
  BY <1>4 DEF Process, Correlate, Store, StoreFails, Exit, Quiet
<1>5. QED
  BY <1>1, <1>2, <1>3, <1>4, Types

\* A task keeps one owner, whatever the workers and the retry goroutines do.
LEMMA OwnerStep ==
  ASSUME TypeInv, TypeInv', OneOwner, ResultOK, [Next]_vars
  PROVE  OneOwner'
<1>1. ASSUME NEW w \in Workers, Work(w) \/ Exit(w)
      PROVE  OneOwner'
  BY <1>1, TakeMoves, RetryMoves, FinishMoves, QuietSteps, OwnersStay, Types DEF Work
<1>2. ASSUME NEW e \in Queued, Submit(e) \/ Receive(e) \/ Timeout(e) \/ Wake(e)
      PROVE  OneOwner'
  BY <1>2, AcceptedMoves, RequeueMoves, GivenUpMoves, QuietSteps, OwnersStay, SubmitSplits DEF Wake, Still
<1>3. ASSUME NEW e \in Direct, CallSync(e) \/ Process(e) \/ ReturnSync(e)
      PROVE  OneOwner'
  BY <1>3, QuietSteps, OwnersStay, Types
<1>4. CASE Still
  BY <1>4, QuietSteps, OwnersStay
<1>5. QED
  BY <1>1, <1>2, <1>3, <1>4 DEF Next, Still

-----------------------------------------------------------------------------
(* The results *)

\* What concerns one event.
ResultOf(e) ==
  /\ caller[e] \in {"none", "refused"} => ~Live(e) /\ sends[e] = 0
  /\ sends[e] \in {0, 1}
  /\ Live(e) => sends[e] = 0
  /\ sends[e] = 0 => result[e] = "empty"
  /\ caller[e] \in Verdicts => sends[e] = 1

\* A step that leaves a task and its caller alone keeps what was sent to it.
LEMMA ResultStays ==
  ASSUME NEW e \in Queued, ResultOf(e), Live(e)' <=> Live(e),
         caller'[e] = caller[e], sends'[e] = sends[e], result'[e] = result[e]
  PROVE  ResultOf(e)'
BY DEF ResultOf

\* One result for each task, sent when nobody can try it again.
LEMMA ResultStep ==
  ASSUME TypeInv, TypeInv', OneOwner, ResultOK, [Next]_vars
  PROVE  ResultOK'
<1>0. \A f \in Queued : ResultOf(f)
  BY DEF ResultOK, ResultOf
<1>1. CASE Still \/ (\E a \in Agents : Process(a)) \/ (\E e \in Direct : CallSync(e) \/ ReturnSync(e))
             \/ (\E w \in Workers : Exit(w))
  <2>1. \A f \in Queued : Seen(f)
    BY <1>1, QuietSteps, OwnersStay
  <2>2. \A f \in Queued : caller'[f] = caller[f] /\ sends'[f] = sends[f] /\ result'[f] = result[f]
    <3>1. ASSUME NEW e \in Direct, CallSync(e) \/ ReturnSync(e), NEW f \in Queued
          PROVE  caller'[f] = caller[f]
      <4>1. \E v : caller' = [caller EXCEPT ![e] = v]
        BY <3>1 DEF CallSync, ReturnSync
      <4>2. f # e
        BY Types
      <4>3. QED  BY <4>1, <4>2, Types
    <3>2. ASSUME NEW e \in Direct, CallSync(e) \/ ReturnSync(e)
          PROVE  sends' = sends /\ result' = result
      BY <3>2 DEF CallSync, ReturnSync, chanVars
    <3>3. ASSUME NEW a \in Agents, Process(a) \/ Exit(a)
          PROVE  sends' = sends /\ result' = result /\ caller' = caller
      BY <3>3 DEF Process, Correlate, Store, StoreFails, Exit, chanVars
    <3>4. CASE Still
      BY <3>4, StillMovesNothing DEF chanVars
    <3>5. QED  BY <1>1, <3>1, <3>2, <3>3, <3>4, Types
  <2>3. \A f \in Queued : ResultOf(f)'
    BY <1>0, <2>1, <2>2, ResultStays DEF Seen
  <2>4. QED  BY <2>3 DEF ResultOK, ResultOf
<1>2. ASSUME NEW e \in Queued, Accepted(e)
      PROVE  ResultOK'
  <2>1. /\ \A f \in Queued \ {e} : Seen(f)
        /\ caller[e] = "none" /\ caller' = [caller EXCEPT ![e] = "waiting"]
        /\ sends' = sends /\ result' = result
    BY <1>2, AcceptedMoves DEF chanVars
  <2>2. \A f \in Queued \ {e} : ResultOf(f)'
    BY <1>0, <2>1, Types, ResultStays DEF Seen
  <2>3. caller'[e] = "waiting"
    BY <2>1, Types
  <2>4. ResultOf(e)'
    BY <1>0, <2>1, <2>3 DEF ResultOf, Verdicts
  <2>5. QED  BY <2>2, <2>4 DEF ResultOK, ResultOf
<1>3. ASSUME NEW e \in Queued, Refused(e) \/ Receive(e) \/ Timeout(e)
      PROVE  ResultOK'
  <2>1. \A f \in Queued : Seen(f)
    BY <1>3, QuietSteps, OwnersStay
  <2>2. \A f \in Queued \ {e} : caller'[f] = caller[f] /\ sends'[f] = sends[f] /\ result'[f] = result[f]
    BY <1>3, Types DEF Refused, Submit, Receive, Timeout, chanVars
  <2>3. \A f \in Queued \ {e} : ResultOf(f)'
    BY <1>0, <2>1, <2>2, ResultStays DEF Seen
  <2>4. ResultOf(e)'
    <3>1. CASE Refused(e)
      <4>1. caller[e] = "none" /\ caller'[e] = "refused" /\ sends' = sends /\ result' = result
        BY <3>1, Types DEF Refused, Submit, chanVars
      <4>2. QED  BY <1>0, <2>1, <4>1 DEF ResultOf, Seen, Verdicts
    <3>2. CASE Receive(e)
      <4>1. /\ caller[e] = "waiting" /\ result[e] # "empty" /\ caller'[e] = result[e]
            /\ sends' = sends /\ result'[e] = "empty" /\ caller'[e] \in Verdicts
        BY <3>2, Types DEF Receive
      <4>2. QED  BY <1>0, <2>1, <4>1 DEF ResultOf, Seen, Verdicts
    <3>3. CASE Timeout(e)
      <4>1. caller'[e] = "timeout" /\ sends' = sends /\ result' = result
        BY <3>3, Types DEF Timeout, chanVars
      <4>2. QED  BY <1>0, <2>1, <4>1 DEF ResultOf, Seen, Verdicts
    <3>4. QED  BY <1>3, <3>1, <3>2, <3>3
  <2>5. QED  BY <2>3, <2>4 DEF ResultOK, ResultOf
<1>4. ASSUME \A f \in Queued : Live(f)' <=> Live(f), UNCHANGED <<caller, chanVars>>
      PROVE  ResultOK'
  <2>1. \A f \in Queued : ResultOf(f)'
    BY <1>0, <1>4, ResultStays DEF chanVars
  <2>2. QED  BY <2>1 DEF ResultOK, ResultOf
<1>5. ASSUME NEW w \in Workers, Take(w) \/ Retry(w)
      PROVE  ResultOK'
  BY <1>4, <1>5, TakeMoves, RetryMoves
<1>6. ASSUME NEW e \in Queued, Requeue(e)
      PROVE  ResultOK'
  BY <1>4, <1>6, RequeueMoves
<1>7. ASSUME NEW e \in Queued, NEW s, Live(e), ~Live(e)', \A f \in Queued \ {e} : Seen(f), caller' = caller,
             result' = [result EXCEPT ![e] = s], sends' = [sends EXCEPT ![e] = @ + 1]
      PROVE  ResultOK'
  <2>1. \A f \in Queued \ {e} : ResultOf(f)'
    BY <1>0, <1>7, Types, ResultStays DEF Seen
  <2>2. sends[e] = 0 /\ sends'[e] = 1
    BY <1>0, <1>7, Types DEF ResultOf
  <2>3. ResultOf(e)'
    BY <1>0, <1>7, <2>2 DEF ResultOf
  <2>4. QED  BY <2>1, <2>3 DEF ResultOK, ResultOf
<1>8. ASSUME NEW w \in Workers, Finish(w)
      PROVE  ResultOK'
  <2>1. PICK e \in Queued :
          /\ e = job[w] /\ ~Live(e)' /\ ~Waiting(e)' /\ \A f \in Queued \ {e} : Seen(f)
          /\ at[w] = "finish"
          /\ IF result[e] = "empty"
             THEN /\ result' = [result EXCEPT ![e] = Reported(w)]
                  /\ sends' = [sends EXCEPT ![e] = @ + 1]
             ELSE result' = result /\ sends' = sends
          /\ caller' = caller
    BY <1>8, FinishMoves
  <2>2. Live(e)
    BY <2>1, Owned DEF Inside
  <2>3. result[e] = "empty"
    BY <1>0, <2>2 DEF ResultOf
  <2>4. QED  BY <1>7, <2>1, <2>2, <2>3
<1>9. ASSUME NEW e \in Queued, RequeueFails(e)
      PROVE  ResultOK'
  <2>1. Live(e)
    BY <1>9, GivenUpMoves DEF Live
  <2>2. QED  BY <1>7, <1>9, <2>1, GivenUpMoves
<1>10. QED
  BY <1>1, <1>2, <1>3, <1>5, <1>6, <1>8, <1>9, SubmitSplits, Types DEF Next, Work, Wake, Still

-----------------------------------------------------------------------------
(* The rows *)

\* No two goroutines work on one event.
LEMMA JobUnique ==
  ASSUME TypeInv, OneOwner, NEW a \in Agents, at[a] \in Inside
  PROVE  /\ job[a] \in Events /\ (a \in Direct => job[a] = a) /\ (a \in Workers => job[a] \in Queued)
         /\ \A b \in Agents : at[b] \in Inside /\ job[b] = job[a] => b = a
<1>1. \A b \in Direct : at[b] \in Inside => job[b] = b
  BY DEF TypeInv, DirectOK
<1>2. \A b \in Workers : at[b] \in Inside => job[b] \in Queued
  BY DEF TypeInv, WorkerOK
<1>3. \A b \in Workers : a \in Workers /\ job[b] = job[a] => b = a
  BY Owned
<1>4. QED  BY <1>1, <1>2, <1>3, Types

\* The three parts of RowsOK, for one goroutine and for one event.
AgentRows(a) == /\ at[a] \in {"correlate", "store"} => rows[job[a]] = 0
                /\ at[a] = "finish" => rows[job[a]] = IF ok[a] THEN 1 ELSE 0
TaskRows(e)  == (Waiting(e) => rows[e] = 0) /\ Told(result[e], e)
CallRows(e)  == Told(caller[e], e) /\ rows[e] <= 1

\* Together they are RowsOK.
LEMMA RowsParts ==
  RowsOK <=> /\ \A a \in Agents : AgentRows(a)
             /\ \A e \in Queued : TaskRows(e)
             /\ \A e \in Events : CallRows(e)
BY DEF RowsOK, AgentRows, TaskRows, CallRows

\* What a step leaves alone keeps its part.
LEMMA RowsStay ==
  ASSUME RowsOK
  PROVE  /\ \A a \in Agents : (at'[a] = at[a] \/ at'[a] \notin Inside) /\ job'[a] = job[a] /\ ok'[a] = ok[a]
                                /\ rows'[job[a]] = rows[job[a]] => AgentRows(a)'
         /\ \A e \in Queued : (Waiting(e)' => Waiting(e)) /\ result'[e] = result[e] /\ rows'[e] = rows[e]
                                => TaskRows(e)'
         /\ \A e \in Events : caller'[e] = caller[e] /\ rows'[e] = rows[e] => CallRows(e)'
BY RowsParts DEF AgentRows, TaskRows, CallRows, Told, Inside

\* Processing writes at most one row of its event, as its result says.
LEMMA ProcessRows ==
  ASSUME TypeInv, TypeInv', OneOwner, ResultOK, RowsOK, NEW a \in Agents, Process(a)
  PROVE  RowsOK'
<1>0. /\ Quiet /\ \A f \in Queued : Seen(f)
      /\ UNCHANGED <<job, caller, result>> /\ at[a] \in Inside
      /\ \A b \in Agents \ {a} : at'[b] = at[b] /\ ok'[b] = ok[b]
  <2>1. Quiet
    BY QuietSteps
  <2>2. \A f \in Queued : Seen(f)
    BY <2>1, OwnersStay
  <2>3. UNCHANGED <<job, caller, result>> /\ at[a] \in Inside
    BY DEF Process, Correlate, Store, StoreFails, Inside, chanVars
  <2>4. \A b \in Agents \ {a} : at'[b] = at[b] /\ ok'[b] = ok[b]
    BY Types DEF Process, Correlate, Store, StoreFails
  <2>5. QED  BY <2>1, <2>2, <2>3, <2>4
<1>1. PICK j \in Events : j = job[a]
  BY <1>0, JobUnique
<1>2. \A b \in Agents \ {a} : at[b] \in Inside => job[b] # j
  BY <1>0, <1>1, JobUnique
<1>3. CASE Correlate(a) \/ StoreFails(a)
  <2>1. rows' = rows
    BY <1>3 DEF Correlate, StoreFails, histVars
  <2>2. \A b \in Agents \ {a} : AgentRows(b)'
    BY <1>0, <2>1, RowsStay
  <2>3. AgentRows(a)'
    BY <1>0, <1>1, <1>3, <2>1, RowsParts, Types DEF Correlate, StoreFails, AgentRows
  <2>4. (\A e \in Queued : TaskRows(e)') /\ (\A e \in Events : CallRows(e)')
    BY <1>0, <2>1, RowsStay DEF Seen
  <2>5. QED  BY <2>2, <2>3, <2>4 DEF RowsOK, AgentRows, TaskRows, CallRows
<1>4. CASE Store(a)
  <2>0. /\ at[a] = "store" /\ at'[a] = "finish" /\ ok'[a] = TRUE /\ rows[j] = 0
    BY <1>1, <1>4, RowsParts, Types DEF Store, AgentRows
  <2>1. rows'[j] = 1 /\ \A e \in Events \ {j} : rows'[e] = rows[e]
    BY <1>1, <1>4, <2>0, Types DEF Store
  <2>2. ASSUME NEW b \in Agents \ {a} PROVE AgentRows(b)'
    <3>1. CASE at[b] \in Inside
      <4>1. job[b] \in Events \ {j}
        BY <1>2, <3>1, JobUnique
      <4>2. QED  BY <1>0, <2>1, <4>1, RowsStay
    <3>2. CASE at[b] \notin Inside
      BY <1>0, <3>2 DEF AgentRows, Inside
    <3>3. QED  BY <3>1, <3>2
  <2>3. AgentRows(a)'
    BY <1>0, <1>1, <2>0, <2>1 DEF AgentRows
  <2>4. /\ j \in Queued => ~Waiting(j) /\ result[j] = "empty" /\ caller[j] \notin {"none", "refused", "fail"}
        /\ j \in Direct => caller[j] = "waiting"
    <3>1. ASSUME j \in Queued
          PROVE  ~Waiting(j) /\ result[j] = "empty" /\ caller[j] \notin {"none", "refused", "fail"}
      <4>1. a \in Workers
        BY <1>0, <1>1, <3>1, JobUnique, Types
      <4>2. ~Waiting(j) /\ Live(j)
        BY <1>0, <1>1, <4>1, Owned
      <4>3. QED  BY <3>1, <4>2 DEF ResultOK, Verdicts
    <3>2. ASSUME j \in Direct
          PROVE  caller[j] = "waiting"
      <4>1. a \in Direct /\ a = j
        BY <1>0, <1>1, <3>2, JobUnique, Types
      <4>2. QED  BY <1>0, <4>1 DEF TypeInv, DirectOK
    <3>3. QED  BY <3>1, <3>2
  <2>5. ASSUME NEW e \in Queued PROVE TaskRows(e)'
    <3>1. CASE e = j
      BY <1>0, <2>1, <2>4, <3>1 DEF TaskRows, Told, Seen
    <3>2. CASE e # j
      BY <1>0, <2>1, <3>2, RowsStay, Types DEF Seen
    <3>3. QED  BY <3>1, <3>2
  <2>6. ASSUME NEW e \in Events PROVE CallRows(e)'
    <3>1. CASE e = j
      <4>1. caller[j] \notin {"none", "refused", "fail"}
        BY <2>4, Types
      <4>2. QED  BY <1>0, <2>1, <3>1, <4>1 DEF CallRows, Told
    <3>2. CASE e # j
      BY <1>0, <2>1, <3>2, RowsStay
    <3>3. QED  BY <3>1, <3>2
  <2>7. QED  BY <2>2, <2>3, <2>5, <2>6 DEF RowsOK, AgentRows, TaskRows, CallRows
<1>5. QED  BY <1>3, <1>4 DEF Process

\* A step that touches no row and one goroutine at most.
LEMMA NoRow ==
  ASSUME TypeInv, RowsOK, rows' = rows, NEW a \in Agents,
         \A b \in Agents \ {a} : at'[b] = at[b] /\ job'[b] = job[b] /\ ok'[b] = ok[b],
         AgentRows(a)', \A e \in Queued : TaskRows(e)', \A e \in Events : CallRows(e)'
  PROVE  RowsOK'
<1>1. \A b \in Agents \ {a} : AgentRows(b)'
  BY RowsStay
<1>2. QED  BY <1>1 DEF RowsOK, AgentRows, TaskRows, CallRows

\* ... or one event.
LEMMA NoRowNoAgent ==
  ASSUME RowsOK, UNCHANGED <<rows, procVars>>,
         \A e \in Queued : TaskRows(e)', \A e \in Events : CallRows(e)'
  PROVE  RowsOK'
<1>1. \A b \in Agents : AgentRows(b)'
  BY RowsStay DEF procVars
<1>2. QED  BY <1>1 DEF RowsOK, AgentRows, TaskRows, CallRows

\* The callers learn what the rows say.
LEMMA CallerRows ==
  ASSUME TypeInv, TypeInv', OneOwner, ResultOK, RowsOK, NEW e \in Queued,
         Accepted(e) \/ Refused(e) \/ Receive(e) \/ Timeout(e)
  PROVE  RowsOK'
<1>1. /\ UNCHANGED <<procVars, rows>> /\ sleeping' = sleeping
      /\ \E v : caller' = [caller EXCEPT ![e] = v]
      /\ result' = result \/ result' = [result EXCEPT ![e] = "empty"]
  BY DEF Accepted, Refused, Submit, Receive, Timeout, histVars, chanVars
<1>2. \A f \in Events \ {e} : caller'[f] = caller[f]
  <2>1. PICK v : caller' = [caller EXCEPT ![e] = v]
    BY <1>1
  <2>2. caller \in [Events -> {"none", "waiting", "refused", "timeout"} \cup Verdicts]
    BY Types
  <2>3. QED  BY <2>1, <2>2
<1>3. \A f \in Queued : (result'[f] = result[f] \/ result'[f] = "empty") /\ (f # e => result'[f] = result[f])
  BY <1>1, Types
<1>4. TaskRows(e) /\ CallRows(e) /\ e \in Events
  BY RowsParts, Types
<1>5. CallRows(e)'
  <2>1. caller'[e] = "waiting" \/ caller'[e] = "timeout" \/ (caller[e] = "none" /\ caller'[e] = "refused")
          \/ caller'[e] = result[e]
    BY <1>4, Types DEF Accepted, Refused, Submit, Receive, Timeout
  <2>2. QED  BY <1>1, <1>4, <2>1, Types DEF CallRows, TaskRows, Told
<1>6. \A f \in Events : CallRows(f)'
  BY <1>1, <1>2, <1>5, RowsStay
<1>7. ASSUME NEW f \in Queued PROVE Waiting(f)' => rows[f] = 0
  <2>1. CASE Accepted(e)
    <3>1. \A g \in Queued \ {e} : Seen(g)
      BY <2>1, AcceptedMoves
    <3>2. caller[e] = "none"
      BY <2>1, AcceptedMoves
    <3>3. rows[e] = 0
      BY <1>4, <3>2 DEF CallRows, Told
    <3>4. TaskRows(f)
      BY RowsParts
    <3>5. QED  BY <3>1, <3>3, <3>4 DEF Seen, TaskRows
  <2>2. CASE Refused(e) \/ Receive(e) \/ Timeout(e)
    <3>1. Seen(f) /\ TaskRows(f)
      BY <2>2, QuietSteps, OwnersStay, RowsParts
    <3>2. QED  BY <3>1 DEF Seen, TaskRows
  <2>3. QED  BY <2>1, <2>2
<1>8. ASSUME NEW f \in Queued PROVE TaskRows(f)'
  <2>1. TaskRows(f)
    BY RowsParts
  <2>2. QED  BY <1>1, <1>3, <1>7, <2>1 DEF TaskRows, Told
<1>9. QED  BY <1>1, <1>6, <1>8, NoRowNoAgent

\* The workers carry it through the attempts.
LEMMA WorkerRows ==
  ASSUME TypeInv, TypeInv', OneOwner, ResultOK, RowsOK, NEW w \in Workers,
         Take(w) \/ Exit(w) \/ Retry(w) \/ Finish(w)
  PROVE  RowsOK'
<1>0. w \in Agents /\ rows' = rows /\ caller' = caller
      /\ \A b \in Agents \ {w} : at'[b] = at[b] /\ job'[b] = job[b] /\ ok'[b] = ok[b]
  BY Types DEF Take, Exit, Retry, Finish, histVars
<1>1. \A e \in Events : CallRows(e)'
  BY <1>0, RowsStay
<1>2. CASE Take(w)
  <2>1. PICK e \in Queued :
              /\ InQueue(e) /\ ~Waiting(e)' /\ \A f \in Queued \ {e} : Seen(f)
              /\ at' = [at EXCEPT ![w] = "correlate"]
              /\ job' = [job EXCEPT ![w] = e] /\ UNCHANGED chanVars
    BY <1>2, TakeMoves
  <2>2. TaskRows(e) /\ rows[e] = 0
    BY <2>1, RowsParts DEF TaskRows, Waiting
  <2>3. AgentRows(w)'
    BY <1>0, <2>1, <2>2, Types DEF AgentRows
  <2>4. \A f \in Queued : TaskRows(f)'
    BY <1>0, <2>1, RowsStay DEF Seen, chanVars
  <2>5. QED  BY <1>0, <1>1, <2>3, <2>4, NoRow
<1>3. CASE Exit(w)
  <2>1. \A f \in Queued : Seen(f)
    BY <1>3, QuietSteps, OwnersStay
  <2>2. AgentRows(w)'
    BY <1>3, Types DEF Exit, AgentRows
  <2>3. \A f \in Queued : TaskRows(f)'
    BY <1>0, <1>3, <2>1, RowsStay DEF Seen, Exit, chanVars
  <2>4. QED  BY <1>0, <1>1, <2>2, <2>3, NoRow
<1>4. CASE Retry(w)
  <2>1. PICK e \in Queued :
              /\ e = job[w] /\ \A f \in Queued \ {e} : Seen(f)
              /\ at[w] = "finish" /\ ~ok[w] /\ at' = [at EXCEPT ![w] = "idle"]
              /\ UNCHANGED chanVars
    BY <1>4, RetryMoves
  <2>2. rows[e] = 0 /\ TaskRows(e)
    BY <1>0, <2>1, RowsParts DEF AgentRows
  <2>3. AgentRows(w)'
    BY <1>0, <2>1, Types DEF AgentRows
  <2>4. TaskRows(e)'
    BY <1>0, <2>1, <2>2 DEF TaskRows, Told, chanVars
  <2>5. \A f \in Queued \ {e} : TaskRows(f)'
    BY <1>0, <2>1, RowsStay DEF Seen, chanVars
  <2>6. QED  BY <1>0, <1>1, <2>3, <2>4, <2>5, NoRow
<1>5. CASE Finish(w)
  <2>1. PICK e \in Queued :
              /\ e = job[w] /\ ~Waiting(e)' /\ \A f \in Queued \ {e} : Seen(f)
              /\ at[w] = "finish" /\ at' = [at EXCEPT ![w] = "idle"]
              /\ IF result[e] = "empty"
                 THEN result' = [result EXCEPT ![e] = Reported(w)]
                 ELSE result' = result
    BY <1>5, FinishMoves
  <2>2. (rows[e] = IF ok[w] THEN 1 ELSE 0) /\ TaskRows(e)
    BY <1>0, <2>1, RowsParts DEF AgentRows
  <2>3. AgentRows(w)'
    BY <1>0, <2>1, Types DEF AgentRows
  <2>4. result'[e] = result[e] \/ result'[e] = IF ok[w] THEN "ok" ELSE "fail"
    BY <2>1, Types DEF Reported
  <2>5. TaskRows(e)'
    BY <1>0, <2>1, <2>2, <2>4 DEF TaskRows, Told
  <2>6. \A f \in Queued \ {e} : result'[f] = result[f]
    BY <2>1, Types
  <2>7. \A f \in Queued \ {e} : TaskRows(f)'
    BY <1>0, <2>1, <2>6, RowsStay DEF Seen
  <2>8. QED  BY <1>0, <1>1, <2>3, <2>5, <2>7, NoRow
<1>6. QED  BY <1>2, <1>3, <1>4, <1>5

\* And the callers of ProcessEventSync.
LEMMA SyncRows ==
  ASSUME TypeInv, TypeInv', OneOwner, RowsOK, NEW e \in Direct, CallSync(e) \/ ReturnSync(e)
  PROVE  RowsOK'
<1>0. /\ e \in Agents /\ e \in Events /\ rows' = rows /\ result' = result
      /\ CallRows(e) /\ AgentRows(e)
  BY Types, RowsParts DEF CallSync, ReturnSync, histVars, chanVars
<1>1. \A b \in Agents \ {e} : at'[b] = at[b] /\ job'[b] = job[b] /\ ok'[b] = ok[b]
  BY Types DEF CallSync, ReturnSync
<1>2. \A f \in Events \ {e} : caller'[f] = caller[f]
  BY Types DEF CallSync, ReturnSync
<1>3. \A f \in Queued : TaskRows(f)'
  BY <1>0, QuietSteps, OwnersStay, RowsStay DEF Seen
<1>4. AgentRows(e)' /\ CallRows(e)'
  <2>1. CASE CallSync(e)
    <3>1. /\ caller[e] = "none" /\ caller'[e] = "waiting" /\ job'[e] = e /\ at'[e] = "correlate"
      BY <1>0, <2>1, Types DEF CallSync
    <3>2. QED  BY <1>0, <3>1 DEF AgentRows, CallRows, Told
  <2>2. CASE ReturnSync(e)
    <3>1. /\ at[e] = "finish" /\ at'[e] = "exited" /\ caller'[e] = IF ok[e] THEN "ok" ELSE "fail"
      BY <1>0, <2>2, Types DEF ReturnSync, Reported
    <3>2. job[e] = e
      BY <1>0, <3>1, JobUnique DEF Inside
    <3>3. QED  BY <1>0, <3>1, <3>2 DEF AgentRows, CallRows, Told
  <2>3. QED  BY <2>1, <2>2
<1>5. \A f \in Events : CallRows(f)'
  BY <1>0, <1>2, <1>4, RowsStay
<1>6. QED  BY <1>0, <1>1, <1>3, <1>4, <1>5, NoRow

\* What is told of an event is what its rows say.
LEMMA RowsStep ==
  ASSUME TypeInv, TypeInv', OneOwner, ResultOK, RowsOK, [Next]_vars
  PROVE  RowsOK'
<1>1. CASE Still
  <2>1. UNCHANGED <<rows, procVars, result, caller>>
    BY <1>1, StillMovesNothing DEF histVars, chanVars
  <2>2. \A f \in Queued : Seen(f)
    BY <1>1, QuietSteps, OwnersStay
  <2>3. QED  BY <2>1, <2>2, RowsStay, NoRowNoAgent DEF Seen
<1>2. ASSUME NEW e \in Queued, Requeue(e)
      PROVE  RowsOK'
  <2>1. UNCHANGED <<rows, procVars, result, caller>> /\ \A f \in Queued : Waiting(f)' <=> Waiting(f)
    BY <1>2, RequeueMoves DEF histVars, chanVars
  <2>2. QED  BY <2>1, RowsStay, NoRowNoAgent
<1>3. ASSUME NEW e \in Queued, RequeueFails(e)
      PROVE  RowsOK'
  <2>1. /\ UNCHANGED <<rows, procVars, caller>> /\ e \in sleeping /\ ~Waiting(e)'
        /\ result' = [result EXCEPT ![e] = "fail"] /\ \A f \in Queued \ {e} : Seen(f)
    BY <1>3, GivenUpMoves DEF histVars
  <2>2. rows[e] = 0
    BY <2>1, RowsParts DEF TaskRows, Waiting
  <2>3. result'[e] = "fail" /\ \A f \in Queued \ {e} : result'[f] = result[f]
    BY <2>1, Types
  <2>4. TaskRows(e)'
    BY <2>1, <2>2, <2>3 DEF TaskRows, Told
  <2>5. (\A f \in Queued \ {e} : TaskRows(f)') /\ (\A f \in Events : CallRows(f)')
    BY <2>1, <2>3, RowsStay DEF Seen
  <2>6. QED  BY <2>1, <2>4, <2>5, NoRowNoAgent
<1>4. ASSUME NEW w \in Workers, Work(w) \/ Exit(w)
      PROVE  RowsOK'
  BY <1>4, ProcessRows, WorkerRows, Types DEF Work
<1>5. ASSUME NEW e \in Direct, CallSync(e) \/ Process(e) \/ ReturnSync(e)
      PROVE  RowsOK'
  BY <1>5, ProcessRows, SyncRows, Types
<1>6. ASSUME NEW e \in Queued, Submit(e) \/ Receive(e) \/ Timeout(e) \/ Wake(e)
      PROVE  RowsOK'
  BY <1>1, <1>2, <1>3, <1>6, CallerRows, SubmitSplits DEF Wake, Still
<1>7. QED
  BY <1>1, <1>4, <1>5, <1>6 DEF Next, Still

-----------------------------------------------------------------------------
(* The attempts *)

\* The two parts of TriesOK, for one worker and for one event.
WorkerTries(w) == /\ at[w] \in {"correlate", "store"} => tried[job[w]] = attempts[job[w]]
                  /\ at[w] = "finish" => tried[job[w]] = attempts[job[w]] + 1
TaskTries(e) == /\ Waiting(e) => tried[e] = attempts[e]
                /\ e \in sleeping => attempts[e] > 0
                /\ caller[e] \in {"none", "refused"} => tried[e] = 0 /\ attempts[e] = 0

\* The two parts are TriesOK.
LEMMA TriesParts ==
  TriesOK <=> (\A w \in Workers : WorkerTries(w)) /\ (\A e \in Queued : TaskTries(e))
BY DEF TriesOK, WorkerTries, TaskTries

\* What a step leaves alone keeps its part.
LEMMA TriesStay ==
  ASSUME TriesOK
  PROVE  /\ \A w \in Workers : at'[w] = at[w] /\ job'[w] = job[w] /\ tried'[job[w]] = tried[job[w]]
                                 /\ attempts'[job[w]] = attempts[job[w]] => WorkerTries(w)'
         /\ \A w \in Workers : at'[w] \notin Inside => WorkerTries(w)'
         /\ \A e \in Queued : (Waiting(e)' => Waiting(e)) /\ (e \in sleeping' => e \in sleeping)
                                /\ (caller'[e] \in {"none", "refused"} => caller[e] \in {"none", "refused"})
                                /\ tried'[e] = tried[e] /\ attempts'[e] = attempts[e] => TaskTries(e)'
BY TriesParts DEF WorkerTries, TaskTries, Inside

\* A step that counts no attempt, wakes nobody and moves one worker at most.
LEMMA NoTry ==
  ASSUME TypeInv, TriesOK, tried' = tried, attempts' = attempts, NEW w \in Workers,
         \A v \in Workers \ {w} : at'[v] = at[v] /\ job'[v] = job[v],
         WorkerTries(w)', \A e \in Queued : TaskTries(e)'
  PROVE  TriesOK'
<1>1. \A v \in Workers \ {w} : WorkerTries(v)'
  BY TriesStay
<1>2. QED  BY <1>1 DEF TriesOK, WorkerTries, TaskTries

\* ... or none.
LEMMA NoTryNoWorker ==
  ASSUME TriesOK, tried' = tried, attempts' = attempts,
         \A w \in Workers : at'[w] = at[w] /\ job'[w] = job[w],
         \A e \in Queued : TaskTries(e)'
  PROVE  TriesOK'
<1>1. \A w \in Workers : WorkerTries(w)'
  BY TriesStay
<1>2. QED  BY <1>1 DEF TriesOK, WorkerTries, TaskTries

\* One attempt to store an event: the worker still has to count it.
LEMMA ProcessTries ==
  ASSUME TypeInv, TypeInv', OneOwner, ResultOK, TriesOK, NEW a \in Agents, Process(a)
  PROVE  TriesOK'
<1>0. /\ \A f \in Queued : Seen(f)
      /\ UNCHANGED <<job, caller, attempts>> /\ sleeping' = sleeping /\ at[a] \in Inside
      /\ \A b \in Agents \ {a} : at'[b] = at[b]
  <2>1. \A f \in Queued : Seen(f)
    BY QuietSteps, OwnersStay
  <2>2. UNCHANGED <<job, caller, attempts>> /\ sleeping' = sleeping /\ at[a] \in Inside
    BY DEF Process, Correlate, Store, StoreFails, Inside
  <2>3. \A b \in Agents \ {a} : at'[b] = at[b]
    BY Types DEF Process, Correlate, Store, StoreFails
  <2>4. QED  BY <2>1, <2>2, <2>3
<1>1. PICK j \in Events : j = job[a]
  BY <1>0, JobUnique
<1>2. CASE Correlate(a)
  <2>1. tried' = tried /\ at[a] = "correlate" /\ at'[a] = "store"
    BY <1>2, Types DEF Correlate, histVars
  <2>2. ASSUME NEW w \in Workers PROVE WorkerTries(w)'
    <3>1. w # a => WorkerTries(w)'
      BY <1>0, <2>1, TriesStay, Types
    <3>2. w = a => WorkerTries(w)'
      BY <1>0, <2>1, TriesParts DEF WorkerTries
    <3>3. QED  BY <3>1, <3>2
  <2>3. \A e \in Queued : TaskTries(e)'
    BY <1>0, <2>1, TriesStay DEF Seen
  <2>4. QED  BY <2>2, <2>3 DEF TriesOK, WorkerTries, TaskTries
<1>3. CASE Store(a) \/ StoreFails(a)
  <2>1. at[a] = "store" /\ at'[a] = "finish"
    BY <1>3, Types DEF Store, StoreFails
  <2>2. tried'[j] = tried[j] + 1 /\ \A e \in Events \ {j} : tried'[e] = tried[e]
    <3>1. tried' = [tried EXCEPT ![j] = tried[j] + 1]
      BY <1>1, <1>3 DEF Store, StoreFails
    <3>2. QED  BY <3>1, Types
  <2>3. ASSUME NEW w \in Workers, w # a PROVE WorkerTries(w)'
    <3>1. CASE at[w] \in Inside
      <4>1. job[w] \in Events \ {j}
        BY <1>0, <1>1, <2>3, <3>1, JobUnique, Types
      <4>2. QED  BY <1>0, <2>2, <2>3, <4>1, TriesStay, Types
    <3>2. CASE at[w] \notin Inside
      BY <1>0, <2>3, <3>2, TriesStay, Types
    <3>3. QED  BY <3>1, <3>2
  <2>4. ASSUME a \in Workers PROVE WorkerTries(a)'
    <3>1. tried[j] = attempts[j]
      BY <1>1, <2>1, <2>4, TriesParts DEF WorkerTries
    <3>2. QED  BY <1>0, <1>1, <2>1, <2>2, <3>1 DEF WorkerTries
  <2>5. ASSUME NEW e \in Queued PROVE TaskTries(e)'
    <3>1. CASE e = j
      <4>1. a \in Workers
        BY <1>0, <1>1, <3>1, JobUnique, Types
      <4>2. ~Waiting(e) /\ Live(e)
        BY <1>0, <1>1, <3>1, <4>1, Owned
      <4>3. ~Waiting(e)' /\ e \notin sleeping' /\ caller'[e] \notin {"none", "refused"}
        BY <1>0, <4>2 DEF Seen, ResultOK, Waiting
      <4>4. QED  BY <4>3 DEF TaskTries
    <3>2. CASE e # j
      BY <1>0, <2>2, <3>2, TriesStay, Types DEF Seen
    <3>3. QED  BY <3>1, <3>2
  <2>6. QED  BY <2>3, <2>4, <2>5 DEF TriesOK, WorkerTries, TaskTries
<1>4. QED  BY <1>2, <1>3 DEF Process

\* A worker takes a task at the attempts it counts, and counts the one it made.
LEMMA WorkerTriesStep ==
  ASSUME TypeInv, TypeInv', OneOwner, TriesOK, NEW w \in Workers,
         Take(w) \/ Exit(w) \/ Retry(w) \/ Finish(w)
  PROVE  TriesOK'
<1>0. /\ w \in Agents /\ tried' = tried /\ caller' = caller
      /\ \A v \in Workers \ {w} : at'[v] = at[v] /\ job'[v] = job[v]
  BY Types DEF Take, Exit, Retry, Finish, histVars
<1>1. CASE Take(w)
  <2>1. PICK e \in Queued :
              /\ InQueue(e) /\ ~Waiting(e)' /\ \A f \in Queued \ {e} : Seen(f)
              /\ at' = [at EXCEPT ![w] = "correlate"]
              /\ job' = [job EXCEPT ![w] = e] /\ UNCHANGED <<attempts, sleeping>>
    BY <1>1, TakeMoves
  <2>2. tried[e] = attempts[e]
    BY <2>1, TriesParts DEF TaskTries, Waiting
  <2>3. WorkerTries(w)'
    BY <1>0, <2>1, <2>2, Types DEF WorkerTries
  <2>4. \A f \in Queued : TaskTries(f)'
    BY <1>0, <2>1, TriesStay DEF Seen
  <2>5. QED  BY <1>0, <2>1, <2>3, <2>4, NoTry
<1>2. CASE Exit(w)
  <2>1. \A f \in Queued : Seen(f)
    BY <1>2, QuietSteps, OwnersStay
  <2>2. attempts' = attempts /\ at'[w] = "exited"
    BY <1>2, <1>0, Types DEF Exit
  <2>3. WorkerTries(w)'
    BY <2>2 DEF WorkerTries
  <2>4. \A f \in Queued : TaskTries(f)'
    BY <1>0, <2>1, <2>2, TriesStay DEF Seen
  <2>5. QED  BY <1>0, <2>2, <2>3, <2>4, NoTry
<1>3. CASE Retry(w)
  <2>1. PICK e \in Queued :
              /\ e = job[w] /\ \A f \in Queued \ {e} : Seen(f)
              /\ at[w] = "finish" /\ at' = [at EXCEPT ![w] = "idle"]
              /\ attempts' = [attempts EXCEPT ![e] = attempts[e] + 1]
    BY <1>3, RetryMoves
  <2>2. attempts'[e] = attempts[e] + 1 /\ \A f \in Queued \ {e} : attempts'[f] = attempts[f]
    BY <2>1, Types
  <2>3. tried[e] = attempts[e] + 1 /\ attempts[e] \in Nat
    BY <2>1, TriesParts, Types DEF WorkerTries
  <2>4. Live(e)
    BY <2>1, Owned DEF Inside
  <2>5. \A v \in Workers \ {w} : WorkerTries(v)'
    <3>1. ASSUME NEW v \in Workers \ {w}, at[v] \in Inside
          PROVE  job[v] \in Queued \ {e}
      BY <2>1, <3>1, Owned DEF Inside
    <3>2. \A v \in Workers \ {w} : at[v] \in Inside => WorkerTries(v)'
      BY <1>0, <2>2, <3>1, TriesStay
    <3>3. \A v \in Workers \ {w} : at[v] \notin Inside => WorkerTries(v)'
      BY <1>0, TriesStay
    <3>4. QED  BY <3>2, <3>3
  <2>6. WorkerTries(w)'
    BY <1>0, <2>1, Types DEF WorkerTries
  <2>7. caller[e] \notin {"none", "refused"}
    BY <2>3, <2>1, TriesParts DEF TaskTries
  <2>8. TaskTries(e)'
    BY <1>0, <2>2, <2>3, <2>7 DEF TaskTries
  <2>9. \A f \in Queued \ {e} : TaskTries(f)'
    BY <1>0, <2>1, <2>2, TriesStay DEF Seen
  <2>10. QED  BY <2>5, <2>6, <2>8, <2>9 DEF TriesOK, WorkerTries, TaskTries
<1>4. CASE Finish(w)
  <2>1. PICK e \in Queued :
              /\ ~Waiting(e)' /\ \A f \in Queued \ {e} : Seen(f)
              /\ at' = [at EXCEPT ![w] = "idle"] /\ UNCHANGED <<attempts, sleeping>>
    BY <1>4, FinishMoves
  <2>2. WorkerTries(w)'
    BY <1>0, <2>1, Types DEF WorkerTries
  <2>3. \A f \in Queued : TaskTries(f)'
    BY <1>0, <2>1, TriesStay DEF Seen
  <2>4. QED  BY <1>0, <2>1, <2>2, <2>3, NoTry
<1>5. QED  BY <1>1, <1>2, <1>3, <1>4

\* The tries of an event agree with the attempts its task counts.
LEMMA TriesStep ==
  ASSUME TypeInv, TypeInv', OneOwner, ResultOK, TriesOK, [Next]_vars
  PROVE  TriesOK'
<1>1. CASE Still
  <2>1. UNCHANGED <<tried, attempts, caller, sleeping>> /\ at' = at /\ job' = job
    BY <1>1, StillMovesNothing DEF histVars, procVars
  <2>2. \A f \in Queued : Seen(f)
    BY <1>1, QuietSteps, OwnersStay
  <2>3. \A f \in Queued : TaskTries(f)'
    BY <2>1, <2>2, TriesStay DEF Seen
  <2>4. QED  BY <2>1, <2>3, NoTryNoWorker
<1>2. ASSUME NEW e \in Queued, Accepted(e)
      PROVE  TriesOK'
  <2>1. /\ \A f \in Queued \ {e} : Seen(f)
        /\ caller[e] = "none" /\ caller' = [caller EXCEPT ![e] = "waiting"]
        /\ UNCHANGED <<tried, attempts>> /\ at' = at /\ job' = job /\ e \notin sleeping'
    BY <1>2, AcceptedMoves DEF histVars, procVars
  <2>2. caller'[e] = "waiting" /\ \A f \in Queued \ {e} : caller'[f] = caller[f]
    BY <2>1, Types
  <2>3. tried[e] = 0 /\ attempts[e] = 0
    BY <2>1, TriesParts DEF TaskTries
  <2>4. TaskTries(e)'
    BY <2>1, <2>2, <2>3 DEF TaskTries
  <2>5. \A f \in Queued \ {e} : TaskTries(f)'
    BY <2>1, <2>2, TriesStay DEF Seen
  <2>6. QED  BY <2>1, <2>4, <2>5, NoTryNoWorker
<1>3. ASSUME NEW e \in Queued, Refused(e) \/ Receive(e) \/ Timeout(e)
      PROVE  TriesOK'
  <2>1. \A f \in Queued : Seen(f)
    BY <1>3, QuietSteps, OwnersStay
  <2>2. UNCHANGED <<tried, attempts>> /\ at' = at /\ job' = job
    BY <1>3 DEF Refused, Submit, Receive, Timeout, histVars, procVars
  <2>3. \A f \in Queued : caller'[f] \in {"none", "refused"} => caller[f] \in {"none", "refused"}
    <3>1. \A f \in Queued \ {e} : caller'[f] = caller[f]
      BY <1>3, Types DEF Refused, Submit, Receive, Timeout
    <3>2. caller[e] = "none" \/ caller'[e] = "timeout" \/ caller'[e] \in Verdicts
      BY <1>3, Types DEF Refused, Submit, Receive, Timeout
    <3>3. QED  BY <3>1, <3>2 DEF Verdicts
  <2>4. \A f \in Queued : TaskTries(f)'
    BY <2>1, <2>2, <2>3, TriesStay DEF Seen
  <2>5. QED  BY <2>2, <2>4, NoTryNoWorker
<1>4. ASSUME NEW e \in Direct, CallSync(e) \/ ReturnSync(e)
      PROVE  TriesOK'
  <2>1. \A f \in Queued : Seen(f)
    BY <1>4, QuietSteps, OwnersStay
  <2>2. UNCHANGED <<tried, attempts>>
    BY <1>4 DEF CallSync, ReturnSync, histVars
  <2>3. \A w \in Workers : at'[w] = at[w] /\ job'[w] = job[w]
    <3>1. /\ \E v : at' = [at EXCEPT ![e] = v]
          /\ job' = job \/ job' = [job EXCEPT ![e] = e]
      BY <1>4 DEF CallSync, ReturnSync
    <3>2. \A w \in Workers : w # e
      BY Types
    <3>3. QED  BY <3>1, <3>2, Types
  <2>4. \A f \in Queued : caller'[f] = caller[f]
    <3>1. PICK v : caller' = [caller EXCEPT ![e] = v]
      BY <1>4 DEF CallSync, ReturnSync
    <3>2. QED  BY <3>1, Types
  <2>5. \A f \in Queued : TaskTries(f)'
    BY <2>1, <2>2, <2>4, TriesStay DEF Seen
  <2>6. QED  BY <2>2, <2>3, <2>5, NoTryNoWorker
<1>5. ASSUME NEW e \in Queued, Requeue(e) \/ RequeueFails(e)
      PROVE  TriesOK'
  <2>1. /\ UNCHANGED <<tried, attempts, caller>> /\ at' = at /\ job' = job
        /\ sleeping' = sleeping \ {e} /\ \A f \in Queued : Waiting(f)' => Waiting(f)
    BY <1>5, RequeueMoves, GivenUpMoves DEF histVars, procVars, Seen
  <2>2. \A f \in Queued : TaskTries(f)'
    BY <2>1, TriesStay
  <2>3. QED  BY <2>1, <2>2, NoTryNoWorker
<1>6. ASSUME NEW w \in Workers, Work(w) \/ Exit(w)
      PROVE  TriesOK'
  BY <1>6, ProcessTries, WorkerTriesStep, Types DEF Work
<1>7. ASSUME NEW e \in Direct, CallSync(e) \/ Process(e) \/ ReturnSync(e)
      PROVE  TriesOK'
  BY <1>4, <1>7, ProcessTries, Types
<1>8. ASSUME NEW e \in Queued, Submit(e) \/ Receive(e) \/ Timeout(e) \/ Wake(e)
      PROVE  TriesOK'
  BY <1>1, <1>2, <1>3, <1>5, <1>8, SubmitSplits DEF Wake, Still
<1>9. QED
  BY <1>1, <1>6, <1>7, <1>8 DEF Next, Still

-----------------------------------------------------------------------------
(* The statistics *)

Holding == {w \in Workers : job[w] # None}
Unsaid  == {a \in Agents : at[a] = "finish" /\ ok[a]}
Called  == {e \in Events : caller[e] # "none"}

\* Replacing counters by naturals keeps the type and the other counters.
LEMMA StatsReplaced ==
  ASSUME NEW s \in ProcessorStats, NEW i \in Nat, NEW j \in Nat, NEW k \in Nat
  PROVE  /\ [s EXCEPT !.received = i] \in ProcessorStats
         /\ [s EXCEPT !.timeouts = i] \in ProcessorStats
         /\ [s EXCEPT !.stored = i] \in ProcessorStats
         /\ [s EXCEPT !.active = i] \in ProcessorStats
         /\ [s EXCEPT !.processed = i, !.failed = j] \in ProcessorStats
         /\ [s EXCEPT !.active = i, !.failed = j, !.retries = k] \in ProcessorStats
         /\ [s EXCEPT !.active = i, !.processed = j, !.failed = k] \in ProcessorStats
BY DEF ProcessorStats

\* The counters are naturals, and so are the numbers they are compared with.
LEMMA Counters ==
  ASSUME TypeInv
  PROVE  /\ stats \in ProcessorStats
         /\ stats.received \in Nat /\ stats.processed \in Nat /\ stats.failed \in Nat
         /\ stats.stored \in Nat /\ stats.active \in Nat /\ stats.retries \in Nat
         /\ stats.timeouts \in Nat
         /\ IsFiniteSet(Holding) /\ IsFiniteSet(Unsaid) /\ IsFiniteSet(Called)
         /\ Cardinality(Holding) \in Nat /\ Cardinality(Unsaid) \in Nat /\ Cardinality(Called) \in Nat
<1>1. stats \in ProcessorStats
  BY DEF TypeInv, TypeOK, ProcessorStats
<1>2. IsFiniteSet(Workers) /\ IsFiniteSet(Events) /\ IsFiniteSet(Direct)
  BY ProcessorAssumption, FS_Subset DEF Events
<1>3. IsFiniteSet(Agents)
  BY <1>2, FS_Union DEF Agents
<1>4. IsFiniteSet(Holding) /\ IsFiniteSet(Unsaid) /\ IsFiniteSet(Called)
  BY <1>2, <1>3, FS_Subset DEF Holding, Unsaid, Called
<1>5. QED
  BY <1>1, <1>4, FS_CardinalityType DEF ProcessorStats

\* A step that counts nothing, for none of the sets changes.
LEMMA CountsStay ==
  ASSUME TypeInv, StatsAgree, Holding' = Holding, Unsaid' = Unsaid, Called' = Called,
         panic' = panic \/ (panic = "no" /\ panic' = "retry"),
         stats' = stats \/ stats' = [stats EXCEPT !.timeouts = @ + 1]
  PROVE  stats' \in ProcessorStats /\ StatsAgree'
<1>1. stats \in ProcessorStats /\ stats.timeouts + 1 \in Nat
  BY Counters
<1>2. /\ stats' \in ProcessorStats /\ stats'.active = stats.active /\ stats'.stored = stats.stored
      /\ stats'.processed = stats.processed /\ stats'.retries = stats.retries
      /\ stats'.failed = stats.failed /\ stats'.received = stats.received
  <2>1. CASE stats' = stats
    BY <1>1, <2>1
  <2>2. CASE stats' = [stats EXCEPT !.timeouts = stats.timeouts + 1]
    BY <1>1, <2>2, StatsReplaced DEF ProcessorStats
  <2>3. QED  BY <2>1, <2>2
<1>3. QED
  BY <1>2 DEF StatsAgree, Holding, Unsaid, Called

\* What the callers do: TotalReceived counts the calls.
LEMMA CallStats ==
  ASSUME TypeInv, StatsAgree, panic = "no", NEW e \in Events, caller[e] = "none",
         stats' = [stats EXCEPT !.received = @ + 1], Holding' = Holding, Unsaid' = Unsaid,
         \/ panic' = "caller" /\ caller' = caller
         \/ panic' = "no" /\ \E v : v # "none" /\ caller' = [caller EXCEPT ![e] = v]
  PROVE  stats' \in ProcessorStats /\ StatsAgree'
<1>1. stats \in ProcessorStats /\ stats.received + 1 \in Nat /\ Cardinality(Called) \in Nat
  BY Counters
<1>2. /\ stats' \in ProcessorStats /\ stats'.active = stats.active /\ stats'.stored = stats.stored
      /\ stats'.processed = stats.processed /\ stats'.retries = stats.retries
      /\ stats'.failed = stats.failed /\ stats'.received = stats.received + 1
  <2>1. stats' = [stats EXCEPT !.received = stats.received + 1]
    OBVIOUS
  <2>2. stats' \in ProcessorStats
    BY <1>1, <2>1, StatsReplaced
  <2>3. QED  BY <1>1, <2>1, <2>2 DEF ProcessorStats
<1>3. stats.received = Cardinality(Called)
  BY <1>1, Counters DEF StatsAgree, Called
<1>4. stats'.received = Cardinality(Called') + (IF panic' = "caller" THEN 1 ELSE 0)
  <2>1. CASE panic' = "caller" /\ caller' = caller
    BY <1>2, <1>3, <2>1 DEF Called
  <2>2. CASE panic' = "no" /\ \E v : v # "none" /\ caller' = [caller EXCEPT ![e] = v]
    <3>1. PICK v : v # "none" /\ caller' = [caller EXCEPT ![e] = v]
      BY <2>2
    <3>2. caller'[e] # "none" /\ \A f \in Events \ {e} : caller'[f] = caller[f]
      BY <3>1, Types
    <3>3. Called' = Called \cup {e} /\ e \notin Called
      BY <3>2 DEF Called
    <3>4. Cardinality(Called') = Cardinality(Called) + 1
      BY <3>3, Counters, FS_AddElement
    <3>5. QED  BY <1>1, <1>2, <1>3, <2>2, <3>4
  <2>3. QED  BY <2>1, <2>2
<1>5. QED
  BY <1>2, <1>4 DEF StatsAgree, Holding, Unsaid, Called

\* What the workers and the callers of ProcessEventSync count: a row stored and
\* not yet reported is in Unsaid, a task taken and not yet left in Holding.
LEMMA WorkStats ==
  ASSUME TypeInv, StatsAgree, panic = "no", panic' = "no",
         NEW h \in {-1, 0, 1}, NEW u \in {-1, 0, 1}, NEW s \in {0, 1}, NEW p \in {0, 1}, NEW f \in {0, 1},
         NEW y \in {0, 1}, Called' = Called,
         Cardinality(Holding') = Cardinality(Holding) + h, Cardinality(Holding') \in Nat,
         Cardinality(Unsaid') = Cardinality(Unsaid) + u, s = p + u, y <= f,
         stats' \in ProcessorStats,
         /\ stats'.received = stats.received /\ stats'.active = stats.active + h
         /\ stats'.stored = stats.stored + s /\ stats'.processed = stats.processed + p
         /\ stats'.failed = stats.failed + f /\ stats'.retries = stats.retries + y
  PROVE  StatsAgree'
<1>1. /\ stats.received \in Nat /\ stats.active \in Nat /\ stats.stored \in Nat /\ stats.processed \in Nat
      /\ stats.failed \in Nat /\ stats.retries \in Nat
      /\ Cardinality(Holding) \in Nat /\ Cardinality(Unsaid) \in Nat
  BY Counters
<1>2. /\ stats.active = Cardinality(Holding) /\ stats.stored = stats.processed + Cardinality(Unsaid)
      /\ stats.retries <= stats.failed /\ stats.received = Cardinality(Called)
  BY <1>1, Counters DEF StatsAgree, Holding, Unsaid, Called
<1>3. stats'.active = Cardinality(Holding') /\ stats'.received = Cardinality(Called')
  BY <1>1, <1>2
<1>4. stats'.stored = stats'.processed + Cardinality(Unsaid')
  BY <1>1, <1>2
<1>5. stats'.retries <= stats'.failed
  BY <1>1, <1>2
<1>6. stats'.received = Cardinality(Called') + (IF panic' = "caller" THEN 1 ELSE 0)
  BY <1>1, <1>2, <1>3
<1>7. QED
  BY <1>3, <1>4, <1>5, <1>6 DEF StatsAgree, Holding, Unsaid, Called

\* One goroutine at its insert, or telling its result.
LEMMA UnsaidMoves ==
  ASSUME TypeInv, NEW a \in Agents, \A b \in Agents \ {a} : at'[b] = at[b] /\ ok'[b] = ok[b]
  PROVE  /\ at[a] # "finish" /\ at'[a] = "finish" /\ ok'[a] => Cardinality(Unsaid') = Cardinality(Unsaid) + 1
         /\ at[a] = "finish" /\ at'[a] # "finish" /\ ok[a] => Cardinality(Unsaid') = Cardinality(Unsaid) - 1
         /\ (at[a] # "finish" \/ ~ok[a]) /\ (at'[a] # "finish" \/ ~ok'[a]) => Unsaid' = Unsaid
<1>1. IsFiniteSet(Unsaid) /\ Cardinality(Unsaid) \in Nat
  BY Counters
<1>2. ASSUME at[a] # "finish", at'[a] = "finish", ok'[a]
      PROVE  Cardinality(Unsaid') = Cardinality(Unsaid) + 1
  <2>1. Unsaid' = Unsaid \cup {a} /\ a \notin Unsaid
    BY <1>2 DEF Unsaid
  <2>2. QED  BY <1>1, <2>1, FS_AddElement
<1>3. ASSUME at[a] = "finish", at'[a] # "finish", ok[a]
      PROVE  Cardinality(Unsaid') = Cardinality(Unsaid) - 1
  <2>1. Unsaid' = Unsaid \ {a} /\ a \in Unsaid
    BY <1>3 DEF Unsaid
  <2>2. QED  BY <1>1, <2>1, FS_RemoveElement
<1>4. (at[a] # "finish" \/ ~ok[a]) /\ (at'[a] # "finish" \/ ~ok'[a]) => Unsaid' = Unsaid
  BY DEF Unsaid
<1>5. QED  BY <1>2, <1>3, <1>4

\* TotalStored and the end of an attempt.
LEMMA ProcessStats ==
  ASSUME TypeInv, StatsAgree, panic = "no", NEW a \in Agents, Process(a)
  PROVE  stats' \in ProcessorStats /\ StatsAgree'
<1>0. /\ Holding' = Holding /\ Called' = Called /\ panic' = panic
      /\ \A b \in Agents \ {a} : at'[b] = at[b] /\ ok'[b] = ok[b]
  <2>1. job' = job /\ caller' = caller /\ panic' = panic
    BY DEF Process, Correlate, Store, StoreFails
  <2>2. \A b \in Agents \ {a} : at'[b] = at[b] /\ ok'[b] = ok[b]
    BY Types DEF Process, Correlate, Store, StoreFails
  <2>3. QED  BY <2>1, <2>2 DEF Holding, Called
<1>1. CASE Correlate(a) \/ StoreFails(a)
  <2>1. /\ stats' = stats /\ at[a] # "finish" /\ (at'[a] # "finish" \/ ~ok'[a])
    BY <1>1, Types DEF Correlate, StoreFails
  <2>2. Unsaid' = Unsaid
    BY <1>0, <2>1, UnsaidMoves
  <2>3. QED  BY <1>0, <2>1, <2>2, CountsStay
<1>2. CASE Store(a)
  <2>1. at[a] # "finish" /\ at'[a] = "finish" /\ ok'[a]
    BY <1>2, Types DEF Store
  <2>2. Cardinality(Unsaid') = Cardinality(Unsaid) + 1
    BY <1>0, <2>1, UnsaidMoves
  <2>3. stats' = [stats EXCEPT !.stored = stats.stored + 1]
    BY <1>2 DEF Store
  <2>4. stats \in ProcessorStats /\ stats.stored + 1 \in Nat
    BY Counters
  <2>5. stats' \in ProcessorStats
    BY <2>3, <2>4, StatsReplaced
  <2>6. /\ stats'.received = stats.received /\ stats'.active = stats.active + 0
        /\ stats'.stored = stats.stored + 1 /\ stats'.processed = stats.processed + 0
        /\ stats'.failed = stats.failed + 0 /\ stats'.retries = stats.retries + 0
    BY <2>3, <2>4 DEF ProcessorStats
  <2>7. Cardinality(Holding') = Cardinality(Holding) + 0 /\ Cardinality(Holding') \in Nat
    BY <1>0, Counters
  <2>8. QED  BY <1>0, <2>2, <2>5, <2>6, <2>7, WorkStats
<1>3. QED  BY <1>1, <1>2 DEF Process

\* The callers of ProcessEventSync.
LEMMA SyncStats ==
  ASSUME TypeInv, StatsAgree, panic = "no", NEW e \in Direct, CallSync(e) \/ ReturnSync(e)
  PROVE  stats' \in ProcessorStats /\ StatsAgree'
<1>0. /\ e \in Agents /\ e \in Events /\ panic' = panic /\ Holding' = Holding
      /\ \A b \in Agents \ {e} : at'[b] = at[b] /\ ok'[b] = ok[b]
  <2>1. /\ panic' = panic /\ ok' = ok /\ \E v : at' = [at EXCEPT ![e] = v]
        /\ job' = job \/ job' = [job EXCEPT ![e] = e]
    BY DEF CallSync, ReturnSync
  <2>2. \A w \in Workers : job'[w] = job[w]
    <3>1. \A w \in Workers : w # e
      BY Types
    <3>2. QED  BY <2>1, <3>1, Types
  <2>3. QED  BY <2>1, <2>2, Types DEF Holding
<1>1. CASE CallSync(e)
  <2>1. /\ caller[e] = "none" /\ caller' = [caller EXCEPT ![e] = "waiting"]
        /\ stats' = [stats EXCEPT !.received = @ + 1]
        /\ at[e] = "idle" /\ at'[e] = "correlate"
    BY <1>0, <1>1, Types DEF CallSync, TypeInv, DirectOK
  <2>2. Unsaid' = Unsaid
    BY <1>0, <2>1, UnsaidMoves
  <2>3. QED  BY <1>0, <2>1, <2>2, CallStats
<1>2. CASE ReturnSync(e)
  <2>1. /\ at[e] = "finish" /\ at'[e] = "exited" /\ ok[e] \in BOOLEAN
        /\ caller[e] = "waiting" /\ caller' = [caller EXCEPT ![e] = Reported(e)]
    BY <1>0, <1>2, Types DEF ReturnSync, TypeInv, DirectOK, Inside
  <2>2. Called' = Called
    <3>1. caller'[e] # "none" /\ \A f \in Events \ {e} : caller'[f] = caller[f]
      BY <2>1, Types DEF Reported
    <3>2. QED  BY <2>1, <3>1 DEF Called
  <2>3. PICK p \in {0, 1} : p = IF ok[e] THEN 1 ELSE 0
    OBVIOUS
  <2>4. PICK f \in {0, 1} : f = IF ok[e] THEN 0 ELSE 1
    OBVIOUS
  <2>5. Cardinality(Unsaid') = Cardinality(Unsaid) + (0 - p)
    <3>1. CASE ok[e]
      BY <1>0, <2>1, <2>3, <3>1, UnsaidMoves, Counters
    <3>2. CASE ~ok[e]
      <4>1. Unsaid' = Unsaid
        BY <1>0, <2>1, <3>2, UnsaidMoves
      <4>2. QED  BY <2>3, <3>2, <4>1, Counters
    <3>3. QED  BY <3>1, <3>2
  <2>6. stats' = [stats EXCEPT !.processed = stats.processed + p, !.failed = stats.failed + f]
    BY <1>2, <2>3, <2>4 DEF ReturnSync
  <2>7. stats \in ProcessorStats /\ stats.processed + p \in Nat /\ stats.failed + f \in Nat
    BY Counters
  <2>8. stats' \in ProcessorStats
    BY <2>6, <2>7, StatsReplaced
  <2>9. /\ stats'.received = stats.received /\ stats'.active = stats.active + 0
        /\ stats'.stored = stats.stored + 0 /\ stats'.processed = stats.processed + p
        /\ stats'.failed = stats.failed + f /\ stats'.retries = stats.retries + 0
    BY <2>6, <2>7 DEF ProcessorStats
  <2>10. Cardinality(Holding') = Cardinality(Holding) + 0 /\ Cardinality(Holding') \in Nat
    BY <1>0, Counters
  <2>11. QED  BY <1>0, <2>2, <2>5, <2>8, <2>9, <2>10, WorkStats
<1>3. QED  BY <1>1, <1>2

\* ActiveWorkers, and what an attempt of a worker was counted as.
LEMMA WorkerStats ==
  ASSUME TypeInv, StatsAgree, panic = "no", NEW w \in Workers,
         Take(w) \/ Exit(w) \/ Retry(w) \/ Finish(w)
  PROVE  stats' \in ProcessorStats /\ StatsAgree'
<1>0. /\ w \in Agents /\ panic' = panic /\ Called' = Called
      /\ \A b \in Agents \ {w} : at'[b] = at[b] /\ ok'[b] = ok[b] /\ job'[b] = job[b]
      /\ ok' = ok /\ ok[w] \in BOOLEAN
  BY Types DEF Take, Exit, Retry, Finish, Called
<1>a. stats \in ProcessorStats /\ stats.active \in Nat /\ Cardinality(Holding) \in Nat
      /\ Cardinality(Unsaid) \in Nat /\ stats.active = Cardinality(Holding) /\ IsFiniteSet(Holding)
  BY Counters DEF StatsAgree, Holding
<1>1. CASE Take(w)
  <2>1. /\ at[w] = "idle" /\ at'[w] = "correlate" /\ job[w] = None /\ job'[w] # None
    <3>1. Head(queue) \in Queued
      BY <1>1, Types, TailLemma DEF Take
    <3>2. at[w] = "idle" /\ at'[w] = "correlate" /\ job'[w] = Head(queue)
      BY <1>0, <1>1, Types DEF Take
    <3>3. job[w] = None
      BY <3>2 DEF TypeInv, WorkerOK, Inside
    <3>4. QED  BY <3>1, <3>2, <3>3, Types
  <2>2. Holding' = Holding \cup {w} /\ w \notin Holding
    BY <1>0, <2>1, Types DEF Holding
  <2>3. Cardinality(Holding') = Cardinality(Holding) + 1
    BY <1>a, <2>2, FS_AddElement
  <2>4. Unsaid' = Unsaid
    BY <1>0, <2>1, UnsaidMoves
  <2>5. stats' = [stats EXCEPT !.active = stats.active + 1]
    BY <1>1 DEF Take
  <2>6. stats' \in ProcessorStats
    <3>1. stats.active + 1 \in Nat
      BY <1>a
    <3>2. QED  BY <1>a, <2>5, <3>1, StatsReplaced
  <2>7. /\ stats'.received = stats.received /\ stats'.active = stats.active + 1
        /\ stats'.stored = stats.stored + 0 /\ stats'.processed = stats.processed + 0
        /\ stats'.failed = stats.failed + 0 /\ stats'.retries = stats.retries + 0
    BY <1>a, <2>5 DEF ProcessorStats
  <2>8. Cardinality(Unsaid') = Cardinality(Unsaid) + 0 /\ Cardinality(Holding') \in Nat
    BY <1>a, <2>3, <2>4
  <2>9. QED  BY <1>0, <2>3, <2>6, <2>7, <2>8, WorkStats
<1>2. CASE Exit(w)
  <2>1. at[w] = "idle" /\ at'[w] = "exited" /\ job' = job /\ stats' = stats
    BY <1>0, <1>2, Types DEF Exit
  <2>2. Unsaid' = Unsaid /\ Holding' = Holding
    BY <1>0, <2>1, UnsaidMoves DEF Holding
  <2>3. QED  BY <1>0, <2>1, <2>2, CountsStay
<1>3. ASSUME Retry(w) \/ Finish(w)
      PROVE  /\ Cardinality(Holding') = Cardinality(Holding) + (-1) /\ Cardinality(Holding') \in Nat
             /\ stats.active - 1 \in Nat
             /\ at[w] = "finish" /\ at'[w] = "idle"
  <2>1. at[w] = "finish" /\ at'[w] = "idle" /\ job[w] # None /\ job'[w] = None
    BY <1>0, <1>3, Types DEF Retry, Finish, TypeInv, WorkerOK, Inside
  <2>2. Holding' = Holding \ {w} /\ w \in Holding
    BY <1>0, <2>1, Types DEF Holding
  <2>3. Cardinality(Holding') = Cardinality(Holding) - 1 /\ IsFiniteSet(Holding')
    BY <1>a, <2>2, FS_RemoveElement
  <2>4. Cardinality(Holding') \in Nat
    BY <2>3, FS_CardinalityType
  <2>5. QED  BY <1>a, <2>1, <2>3, <2>4
<1>4. CASE Retry(w)
  <2>1. ~ok[w]
    BY <1>4 DEF Retry, Retries
  <2>2. Unsaid' = Unsaid
    BY <1>0, <1>3, <1>4, <2>1, UnsaidMoves
  <2>3. stats' = [stats EXCEPT !.active = stats.active - 1, !.failed = stats.failed + 1,
                               !.retries = stats.retries + 1]
    BY <1>4 DEF Retry, CountRetry
  <2>4. stats.failed + 1 \in Nat /\ stats.retries + 1 \in Nat
    BY Counters
  <2>5. stats' \in ProcessorStats
    BY <1>3, <1>4, <1>a, <2>3, <2>4, StatsReplaced
  <2>6. /\ stats'.received = stats.received /\ stats'.active = stats.active + (-1)
        /\ stats'.stored = stats.stored + 0 /\ stats'.processed = stats.processed + 0
        /\ stats'.failed = stats.failed + 1 /\ stats'.retries = stats.retries + 1
    BY <1>a, <2>3 DEF ProcessorStats
  <2>7. Cardinality(Unsaid') = Cardinality(Unsaid) + 0
    BY <1>a, <2>2
  <2>8. QED  BY <1>0, <1>3, <1>4, <2>5, <2>6, <2>7, WorkStats
<1>5. CASE Finish(w)
  <2>1. PICK p \in {0, 1} : p = IF ok[w] THEN 1 ELSE 0
    OBVIOUS
  <2>2. PICK f \in {0, 1} : f = IF ok[w] THEN 0 ELSE 1
    OBVIOUS
  <2>3. Cardinality(Unsaid') = Cardinality(Unsaid) + (0 - p)
    <3>1. CASE ok[w]
      BY <1>0, <1>3, <1>5, <2>1, <3>1, UnsaidMoves, Counters
    <3>2. CASE ~ok[w]
      <4>1. Unsaid' = Unsaid
        BY <1>0, <1>3, <1>5, <3>2, UnsaidMoves
      <4>2. QED  BY <2>1, <3>2, <4>1, Counters
    <3>3. QED  BY <3>1, <3>2
  <2>4. stats' = [stats EXCEPT !.active = stats.active - 1, !.processed = stats.processed + p,
                               !.failed = stats.failed + f]
    BY <1>5, <2>1, <2>2 DEF Finish
  <2>5. stats.processed + p \in Nat /\ stats.failed + f \in Nat
    BY Counters
  <2>6. stats' \in ProcessorStats
    BY <1>3, <1>5, <1>a, <2>4, <2>5, StatsReplaced
  <2>7. /\ stats'.received = stats.received /\ stats'.active = stats.active + (-1)
        /\ stats'.stored = stats.stored + 0 /\ stats'.processed = stats.processed + p
        /\ stats'.failed = stats.failed + f /\ stats'.retries = stats.retries + 0
    BY <1>a, <2>4 DEF ProcessorStats
  <2>8. QED  BY <1>0, <1>3, <1>5, <2>3, <2>6, <2>7, WorkStats
<1>6. QED  BY <1>1, <1>2, <1>4, <1>5

\* The counters agree after every step.
LEMMA StatsStep ==
  ASSUME TypeInv, StatsAgree, [Next]_vars
  PROVE  stats' \in ProcessorStats /\ StatsAgree'
<1>1. CASE UNCHANGED vars
  BY <1>1, Counters DEF vars, procVars, StatsAgree
<1>2. ASSUME panic = "no", Still
      PROVE  stats' \in ProcessorStats /\ StatsAgree'
  <2>1. Holding' = Holding /\ Unsaid' = Unsaid /\ Called' = Called
    BY <1>2, StillMovesNothing DEF procVars, Holding, Unsaid, Called
  <2>2. ASSUME NEW e \in Queued, Closed(e)
        PROVE  stats' \in ProcessorStats /\ StatsAgree'
    <3>1. /\ caller[e] = "none" /\ panic' = "caller" /\ caller' = caller
          /\ stats' = [stats EXCEPT !.received = @ + 1]
      BY <2>2 DEF Closed, Submit
    <3>2. QED  BY <1>2, <2>1, <3>1, CallStats, Types
  <2>3. CASE \/ (\E h \in Hashes : Forget(h)) \/ Cancel \/ CloseQueue
             \/ (\E e \in Queued : RequeueOnClosed(e)) \/ UNCHANGED vars
    <3>1. stats' = stats /\ (panic' = panic \/ panic' = "retry")
      BY <2>3 DEF Forget, Cancel, CloseQueue, RequeueOnClosed, vars
    <3>2. QED  BY <1>2, <2>1, <3>1, CountsStay
  <2>4. QED  BY <1>2, <2>2, <2>3 DEF Still
<1>3. ASSUME panic = "no", NEW e \in Queued, Submit(e) \/ Receive(e) \/ Timeout(e) \/ Wake(e)
      PROVE  stats' \in ProcessorStats /\ StatsAgree'
  <2>1. CASE Closed(e) \/ RequeueOnClosed(e)
    BY <1>2, <1>3, <2>1 DEF Still
  <2>2. CASE Accepted(e) \/ Refused(e)
    <3>1. /\ Holding' = Holding /\ Unsaid' = Unsaid /\ panic' = "no" /\ caller[e] = "none"
          /\ stats' = [stats EXCEPT !.received = @ + 1]
          /\ \E v : v # "none" /\ caller' = [caller EXCEPT ![e] = v]
      BY <1>3, <2>2 DEF Accepted, Refused, Submit, procVars, Holding, Unsaid
    <3>2. QED  BY <1>3, <3>1, CallStats, Types
  <2>3. CASE Receive(e) \/ Timeout(e)
    <3>1. /\ Holding' = Holding /\ Unsaid' = Unsaid /\ panic' = panic
          /\ stats' = stats \/ stats' = [stats EXCEPT !.timeouts = @ + 1]
      BY <2>3 DEF Receive, Timeout, procVars, Holding, Unsaid
    <3>2. /\ caller[e] = "waiting" /\ caller'[e] # "none"
          /\ \A f \in Events \ {e} : caller'[f] = caller[f]
      BY <2>3, Types DEF Receive, Timeout, Verdicts
    <3>3. Called' = Called
      BY <3>2 DEF Called
    <3>4. QED  BY <3>1, <3>3, CountsStay
  <2>4. CASE Requeue(e) \/ RequeueFails(e)
    <3>1. Holding' = Holding /\ Unsaid' = Unsaid /\ Called' = Called /\ panic' = panic /\ stats' = stats
      BY <2>4 DEF Requeue, RequeueFails, procVars, Holding, Unsaid, Called
    <3>2. QED  BY <3>1, CountsStay
  <2>5. QED  BY <1>3, <2>1, <2>2, <2>3, <2>4, SubmitSplits DEF Wake
<1>4. ASSUME panic = "no", NEW w \in Workers, Work(w) \/ Exit(w)
      PROVE  stats' \in ProcessorStats /\ StatsAgree'
  BY <1>4, ProcessStats, WorkerStats, Types DEF Work, TypeInv
<1>5. ASSUME panic = "no", NEW e \in Direct, CallSync(e) \/ Process(e) \/ ReturnSync(e)
      PROVE  stats' \in ProcessorStats /\ StatsAgree'
  BY <1>5, ProcessStats, SyncStats, Types
<1>6. QED
  BY <1>1, <1>2, <1>3, <1>4, <1>5 DEF Next, Still

\* The invariant is inductive.
LEMMA IStep == IInv /\ [Next]_vars => IInv'
<1> SUFFICES ASSUME IInv, [Next]_vars PROVE IInv'
  OBVIOUS
<1>1. stats' \in ProcessorStats /\ StatsAgree'
  BY StatsStep DEF IInv
<1>2. TypeInv'
  BY <1>1, TypeStep DEF IInv
<1>3. OneOwner' /\ ResultOK' /\ RowsOK' /\ TriesOK'
  BY <1>2, OwnerStep, ResultStep, RowsStep, TriesStep DEF IInv
<1>4. QED
  BY <1>1, <1>2, <1>3 DEF IInv

-----------------------------------------------------------------------------
(* The promise *)

\* Which worker makes an event Decided.
DecidedBy(w, e) == job[w] = e /\ at[w] = "finish" /\ ~Retries(w)

\* What a step does not change of an event leaves its status.
LEMMA StatusStays ==
  ASSUME NEW e \in Queued,
         caller[e] \in {"none", "refused"} \/ caller'[e] \in {"none", "refused"} => caller'[e] = caller[e],
         rows'[e] = rows[e], tried'[e] = tried[e], attempts'[e] = attempts[e], Live(e)' <=> Live(e),
         \A w \in Workers : DecidedBy(w, e)' <=> DecidedBy(w, e)
  PROVE  StatusOf(e)' = StatusOf(e)
<1>1. Decided(e)' <=> Decided(e)
  BY DEF Decided, DecidedBy
<1>2. QED  BY <1>1 DEF StatusOf

\* A worker that a step leaves alone decides what it decided.
LEMMA DecidedStays ==
  ASSUME NEW w \in Workers, NEW e \in Queued,
         job'[w] = job[w], at'[w] = at[w], ok'[w] = ok[w], attempts'[e] = attempts[e]
  PROVE  DecidedBy(w, e)' <=> DecidedBy(w, e)
BY DEF DecidedBy, Retries

\* A step for one event is a step of the promise, or a stutter.
LEMMA OneEvent ==
  ASSUME TypeInv, TypeInv', NEW e \in Queued,
         \A f \in Queued \ {e} : StatusOf(f)' = StatusOf(f) /\ tried'[f] = tried[f],
         \/ StatusOf(e)' = StatusOf(e) /\ tried'[e] = tried[e]
         \/ StatusOf(e) = "none" /\ StatusOf(e)' \in {"pending", "refused"} /\ tried'[e] = tried[e]
         \/ /\ StatusOf(e) = "pending" /\ tried[e] < RetryAttempts + 1 /\ tried'[e] = tried[e] + 1
            /\ \/ StatusOf(e)' = "delivered"
               \/ tried[e] + 1 = RetryAttempts + 1 /\ StatusOf(e)' = "failed"
               \/ tried[e] + 1 < RetryAttempts + 1 /\ StatusOf(e)' = "pending"
         \/ /\ StatusOf(e) = "pending" /\ tried[e] > 0 /\ tried'[e] = tried[e]
            /\ StatusOf(e)' = "dropped"
  PROVE  [Promise!Next]_(Promise!vars)
<1> DEFINE tries == [f \in Queued |-> tried[f]]
           Budget == [f \in Queued |-> RetryAttempts + 1]
<1>1. /\ status = [f \in Queued |-> StatusOf(f)] /\ status' = [f \in Queued |-> StatusOf(f)']
      /\ tries' = [f \in Queued |-> tried'[f]]
  BY DEF status
<1>2. \A f \in Queued : status[f] = StatusOf(f) /\ tries[f] = tried[f] /\ Budget[f] = RetryAttempts + 1
  BY <1>1
<1>3. /\ status' = [status EXCEPT ![e] = StatusOf(e)']
      /\ tries' = [tries EXCEPT ![e] = tried'[e]]
  BY <1>1
<1>4. tried'[e] = tried[e] => tries' = tries
  BY <1>3
<1>5. StatusOf(e)' = StatusOf(e) => status' = status
  BY <1>1
<1> HIDE DEF tries, Budget
<1>6. CASE StatusOf(e)' = StatusOf(e) /\ tried'[e] = tried[e]
  BY <1>4, <1>5, <1>6 DEF Promise!vars, tries
<1>7. CASE StatusOf(e) = "none" /\ StatusOf(e)' \in {"pending", "refused"} /\ tried'[e] = tried[e]
  <2>1. Promise!Accept(e) \/ Promise!Refuse(e)
    BY <1>2, <1>3, <1>4, <1>7 DEF Promise!Accept, Promise!Refuse, tries
  <2>2. QED  BY <2>1 DEF Promise!Next
<1>8. CASE /\ StatusOf(e) = "pending" /\ tried[e] < RetryAttempts + 1 /\ tried'[e] = tried[e] + 1
           /\ \/ StatusOf(e)' = "delivered"
              \/ tried[e] + 1 = RetryAttempts + 1 /\ StatusOf(e)' = "failed"
              \/ tried[e] + 1 < RetryAttempts + 1 /\ StatusOf(e)' = "pending"
  <2>1. /\ status[e] = "pending" /\ tries[e] < Budget[e]
        /\ tries' = [tries EXCEPT ![e] = @ + 1]
    BY <1>2, <1>3, <1>8
  <2>2. \/ status' = [status EXCEPT ![e] = "delivered"]
        \/ tries[e] + 1 = Budget[e] /\ status' = [status EXCEPT ![e] = "failed"]
        \/ tries[e] + 1 < Budget[e] /\ status' = status
    BY <1>2, <1>3, <1>5, <1>8
  <2>3. Promise!Try(e)
    BY <2>1, <2>2 DEF Promise!Try, tries, Budget
  <2>4. QED  BY <2>3 DEF Promise!Next
<1>9. CASE /\ StatusOf(e) = "pending" /\ tried[e] > 0 /\ tried'[e] = tried[e]
           /\ StatusOf(e)' = "dropped"
  <2>1. Promise!Drop(e)
    BY <1>2, <1>3, <1>4, <1>9 DEF Promise!Drop, tries
  <2>2. QED  BY <2>1 DEF Promise!Next
<1>10. QED  BY <1>6, <1>7, <1>8, <1>9

\* A step that changes no status is a stutter.
LEMMA NoEvent ==
  ASSUME TypeInv, TypeInv', \A f \in Queued : StatusOf(f)' = StatusOf(f) /\ tried'[f] = tried[f]
  PROVE  [Promise!Next]_(Promise!vars)
<1>1. status' = status
  BY DEF status
<1>2. [f \in Queued |-> tried[f]]' = [f \in Queued |-> tried[f]]
  OBVIOUS
<1>3. QED  BY <1>1, <1>2 DEF Promise!vars

\* What the callers do: a task is accepted or refused once.
LEMMA CallerPromise ==
  ASSUME IInv, IInv', NEW e \in Queued, Accepted(e) \/ Refused(e) \/ Receive(e) \/ Timeout(e)
  PROVE  [Promise!Next]_(Promise!vars)
<1>0. TypeInv /\ TypeInv' /\ OneOwner /\ ResultOK /\ RowsOK
  BY DEF IInv
<1>1. /\ UNCHANGED <<at, job, ok, attempts, rows, tried>> /\ \A f \in Queued \ {e} : Seen(f)
      /\ \E v : caller' = [caller EXCEPT ![e] = v]
  <2>1. UNCHANGED <<at, job, ok, attempts, rows, tried>> /\ \E v : caller' = [caller EXCEPT ![e] = v]
    BY DEF Accepted, Refused, Submit, Receive, Timeout, procVars, histVars
  <2>2. \A f \in Queued \ {e} : Seen(f)
    BY <1>0, AcceptedMoves, QuietSteps, OwnersStay
  <2>3. QED  BY <2>1, <2>2
<1>2. \A w \in Workers : \A f \in Queued : DecidedBy(w, f)' <=> DecidedBy(w, f)
  BY <1>1, DecidedStays
<1>3. \A f \in Queued \ {e} : StatusOf(f)' = StatusOf(f) /\ tried'[f] = tried[f]
  <2>1. \A f \in Queued \ {e} : caller'[f] = caller[f]
    <3>1. PICK v : caller' = [caller EXCEPT ![e] = v]
      BY <1>1
    <3>2. QED  BY <1>0, <3>1, Types
  <2>2. \A f \in Queued \ {e} : Live(f)' <=> Live(f)
    BY <1>1 DEF Seen
  <2>3. QED  BY <1>1, <1>2, <2>1, <2>2, StatusStays
<1>4. CASE Accepted(e)
  <2>1. caller[e] = "none" /\ caller'[e] = "waiting" /\ Live(e)' /\ ~Held(e)'
    BY <1>0, <1>4, AcceptedMoves, Types
  <2>2. ~Decided(e)'
    BY <1>0, <2>1, HeldByJob DEF Decided
  <2>3. rows'[e] = 0
    BY <1>0, <1>1, <2>1, Types DEF RowsOK, Told
  <2>4. StatusOf(e) = "none" /\ StatusOf(e)' = "pending"
    BY <2>1, <2>2, <2>3 DEF StatusOf
  <2>5. QED  BY <1>0, <1>1, <1>3, <2>4, OneEvent
<1>5. CASE Refused(e)
  <2>1. caller[e] = "none" /\ caller'[e] = "refused"
    BY <1>0, <1>5, Types DEF Refused, Submit
  <2>2. StatusOf(e) = "none" /\ StatusOf(e)' = "refused"
    BY <2>1 DEF StatusOf
  <2>3. QED  BY <1>0, <1>1, <1>3, <2>2, OneEvent
<1>6. CASE Receive(e) \/ Timeout(e)
  <2>1. caller[e] = "waiting" /\ caller'[e] \notin {"none", "refused"}
    BY <1>0, <1>6, Types DEF Receive, Timeout, Verdicts
  <2>2. Live(e)' <=> Live(e)
    BY <1>0, <1>6, QuietSteps, OwnersStay DEF Seen
  <2>3. StatusOf(e)' = StatusOf(e)
    BY <1>1, <1>2, <2>1, <2>2, StatusStays
  <2>4. QED  BY <1>0, <1>1, <1>3, <2>3, OneEvent
<1>7. QED  BY <1>4, <1>5, <1>6

\* One insert by a worker: it stores the event, or fails it for good after the
\* last attempt, or leaves it pending.
LEMMA StorePromise ==
  ASSUME IInv, IInv', NEW w \in Workers, Store(w) \/ StoreFails(w)
  PROVE  [Promise!Next]_(Promise!vars)
<1>0. TypeInv /\ TypeInv' /\ OneOwner /\ ResultOK /\ RowsOK /\ TriesOK /\ w \in Agents
  BY Types DEF IInv
<1>1. at[w] = "store" /\ at'[w] = "finish" /\ job' = job /\ attempts' = attempts /\ caller' = caller
      /\ \A v \in Workers \ {w} : at'[v] = at[v] /\ ok'[v] = ok[v]
  BY <1>0, Types DEF Store, StoreFails
<1>2. PICK e \in Queued : e = job[w]
  BY <1>0, <1>1, Owned DEF Inside
<1>3. Live(e) /\ \A v \in Workers : job[v] = e => v = w
  BY <1>0, <1>1, <1>2, Owned DEF Inside
<1>4. \A f \in Queued : Live(f)' <=> Live(f)
  BY <1>0, QuietSteps, OwnersStay DEF Process, Seen
<1>5. /\ tried[e] = attempts[e] /\ tried'[e] = tried[e] + 1 /\ rows[e] = 0
      /\ caller[e] \notin {"none", "refused"} /\ attempts[e] \in 0..RetryAttempts
      /\ rows'[e] = IF ok'[w] THEN 1 ELSE 0
      /\ \A f \in Queued \ {e} : tried'[f] = tried[f] /\ rows'[f] = rows[f]
  <2>1. tried[e] = attempts[e] /\ rows[e] = 0
    BY <1>0, <1>1, <1>2 DEF TriesOK, RowsOK
  <2>2. tried' = [tried EXCEPT ![e] = tried[e] + 1]
        /\ (\/ rows' = [rows EXCEPT ![e] = rows[e] + 1] /\ ok'[w] = TRUE
            \/ rows' = rows /\ ok'[w] = FALSE)
    BY <1>0, <1>2, Types DEF Store, StoreFails
  <2>3. caller[e] \notin {"none", "refused"}
    BY <1>0, <1>3 DEF ResultOK
  <2>4. QED  BY <1>0, <2>1, <2>2, <2>3, Types
<1>6. \A f \in Queued \ {e} : StatusOf(f)' = StatusOf(f) /\ tried'[f] = tried[f]
  <2>1. \A f \in Queued \ {e} : \A v \in Workers : DecidedBy(v, f)' <=> DecidedBy(v, f)
    <3>1. \A f \in Queued \ {e} : DecidedBy(w, f)' <=> DecidedBy(w, f)
      BY <1>1, <1>2 DEF DecidedBy
    <3>2. \A f \in Queued \ {e} : \A v \in Workers \ {w} : DecidedBy(v, f)' <=> DecidedBy(v, f)
      BY <1>1, DecidedStays
    <3>3. QED  BY <3>1, <3>2
  <2>2. QED  BY <1>1, <1>4, <1>5, <2>1, StatusStays
<1>7. ~Decided(e)
  BY <1>1, <1>3 DEF Decided
<1>8. StatusOf(e) = "pending"
  BY <1>3, <1>5, <1>7 DEF StatusOf
<1>9. tried[e] < RetryAttempts + 1 /\ tried'[e] = tried[e] + 1
  BY <1>0, <1>5, Types
<1>10. CASE ok'[w]
  <2>1. StatusOf(e)' = "delivered"
    BY <1>1, <1>5, <1>10 DEF StatusOf
  <2>2. QED  BY <1>0, <1>6, <1>8, <1>9, <2>1, OneEvent
<1>11. CASE ~ok'[w]
  <2>1. Decided(e)' <=> ~(attempts[e] < RetryAttempts)
    <3>1. Decided(e)' <=> ~Retries(w)'
      BY <1>1, <1>2, <1>3 DEF Decided
    <3>2. Retries(w)' <=> attempts[e] < RetryAttempts
      BY <1>1, <1>2, <1>11 DEF Retries
    <3>3. QED  BY <3>1, <3>2
  <2>2. CASE attempts[e] < RetryAttempts
    <3>1. StatusOf(e)' = "pending"
      BY <1>1, <1>3, <1>4, <1>5, <1>11, <2>1, <2>2 DEF StatusOf
    <3>2. tried[e] + 1 < RetryAttempts + 1
      BY <1>0, <1>5, <2>2, Types
    <3>3. QED  BY <1>0, <1>6, <1>8, <1>9, <3>1, <3>2, OneEvent
  <2>3. CASE ~(attempts[e] < RetryAttempts)
    <3>1. attempts[e] = RetryAttempts /\ tried'[e] > attempts'[e]
      BY <1>0, <1>1, <1>5, <2>3, Types
    <3>2. StatusOf(e)' = "failed"
      BY <1>1, <1>5, <1>11, <2>1, <2>3, <3>1 DEF StatusOf
    <3>3. tried[e] + 1 = RetryAttempts + 1
      BY <1>5, <3>1
    <3>4. QED  BY <1>0, <1>6, <1>8, <1>9, <3>2, <3>3, OneEvent
  <2>4. QED  BY <2>2, <2>3
<1>12. QED  BY <1>10, <1>11

\* Everything else a worker does with a task: it takes it, puts it to sleep, or
\* is through with it. The promise sees none of this.
LEMMA WorkerPromise ==
  ASSUME IInv, IInv', NEW w \in Workers, Take(w) \/ Exit(w) \/ Correlate(w) \/ Retry(w) \/ Finish(w)
  PROVE  [Promise!Next]_(Promise!vars)
<1>0. TypeInv /\ TypeInv' /\ OneOwner /\ ResultOK /\ RowsOK /\ TriesOK /\ w \in Agents
  BY Types DEF IInv
<1>1. /\ rows' = rows /\ tried' = tried /\ caller' = caller /\ at'[w] # "finish"
      /\ \A v \in Workers \ {w} : at'[v] = at[v] /\ ok'[v] = ok[v] /\ job'[v] = job[v]
  BY <1>0, Types DEF Take, Exit, Correlate, Retry, Finish, histVars
<1>2. ~Retry(w) => attempts' = attempts
  BY DEF Take, Exit, Correlate, Finish
<1>3. CASE Take(w) \/ Exit(w) \/ Correlate(w)
  <2>1. \A f \in Queued : Live(f)' <=> Live(f)
    <3>1. CASE Take(w)
      BY <1>0, <3>1, TakeMoves
    <3>2. CASE Exit(w) \/ Correlate(w)
      BY <1>0, <3>2, QuietSteps, OwnersStay DEF Process, Seen
    <3>3. QED  BY <1>3, <3>1, <3>2
  <2>2. attempts' = attempts /\ at[w] # "finish"
    BY <1>3 DEF Take, Exit, Correlate
  <2>3. \A f \in Queued : \A v \in Workers : DecidedBy(v, f)' <=> DecidedBy(v, f)
    <3>1. \A f \in Queued : \A v \in Workers \ {w} : DecidedBy(v, f)' <=> DecidedBy(v, f)
      BY <1>1, <2>2, DecidedStays
    <3>2. \A f \in Queued : ~DecidedBy(w, f)' /\ ~DecidedBy(w, f)
      BY <1>1, <2>2 DEF DecidedBy
    <3>3. QED  BY <3>1, <3>2
  <2>4. \A f \in Queued : StatusOf(f)' = StatusOf(f)
    BY <1>1, <2>1, <2>2, <2>3, StatusStays
  <2>5. QED  BY <1>0, <1>1, <2>4, NoEvent
<1>4. ASSUME Retry(w) \/ Finish(w), NEW e \in Queued, e = job[w], \A f \in Queued \ {e} : Seen(f),
             \A f \in Queued \ {e} : attempts'[f] = attempts[f]
      PROVE  \A f \in Queued \ {e} : StatusOf(f)' = StatusOf(f)
  <2>1. \A f \in Queued \ {e} : \A v \in Workers \ {w} : DecidedBy(v, f)' <=> DecidedBy(v, f)
    BY <1>1, <1>4, DecidedStays
  <2>2. \A f \in Queued \ {e} : ~DecidedBy(w, f)' /\ ~DecidedBy(w, f)
    BY <1>1, <1>4 DEF DecidedBy
  <2>3. \A f \in Queued \ {e} : Live(f)' <=> Live(f)
    BY <1>4 DEF Seen
  <2>4. QED  BY <1>1, <1>4, <2>1, <2>2, <2>3, StatusStays
<1>5. CASE Retry(w)
  <2>1. PICK e \in Queued :
              /\ e = job[w] /\ e \in sleeping' /\ \A f \in Queued \ {e} : Seen(f)
              /\ at[w] = "finish" /\ ~ok[w] /\ attempts[e] < RetryAttempts
              /\ attempts' = [attempts EXCEPT ![e] = attempts[e] + 1]
    BY <1>0, <1>5, RetryMoves
  <2>2. \A f \in Queued \ {e} : attempts'[f] = attempts[f]
    BY <1>0, <2>1, Types
  <2>3. rows[e] = 0 /\ Live(e) /\ Live(e)' /\ \A v \in Workers : job[v] = e => v = w
    BY <1>0, <2>1, Owned DEF RowsOK, Live, Inside
  <2>4. ~Decided(e)
    BY <2>1, <2>3 DEF Decided, Retries
  <2>5. ~Decided(e)'
    BY <1>1, <2>3 DEF Decided
  <2>6. StatusOf(e)' = StatusOf(e)
    BY <1>1, <2>3, <2>4, <2>5 DEF StatusOf
  <2>7. QED  BY <1>0, <1>1, <1>4, <1>5, <2>1, <2>2, <2>6, NoEvent
<1>6. CASE Finish(w)
  <2>1. PICK e \in Queued :
              /\ e = job[w] /\ ~Live(e)' /\ \A f \in Queued \ {e} : Seen(f)
              /\ at[w] = "finish" /\ ~Retries(w)
    BY <1>0, <1>6, FinishMoves
  <2>2. Decided(e)
    BY <2>1 DEF Decided
  <2>3. attempts' = attempts
    BY <1>6 DEF Finish
  <2>4. StatusOf(e)' = StatusOf(e)
    BY <1>1, <2>1, <2>2, <2>3 DEF StatusOf
  <2>5. QED  BY <1>0, <1>1, <1>4, <1>6, <2>1, <2>3, <2>4, NoEvent
<1>7. QED  BY <1>3, <1>5, <1>6

\* A retry goroutine sends its task, or gives it up between two attempts.
LEMMA WakePromise ==
  ASSUME IInv, IInv', NEW e \in Queued, Requeue(e) \/ RequeueFails(e)
  PROVE  [Promise!Next]_(Promise!vars)
<1>0. TypeInv /\ TypeInv' /\ OneOwner /\ ResultOK /\ RowsOK /\ TriesOK
  BY DEF IInv
<1>1. /\ UNCHANGED <<at, job, ok, attempts, rows, tried, caller>> /\ e \in sleeping
      /\ \A f \in Queued \ {e} : Seen(f)
  BY <1>0, RequeueMoves, GivenUpMoves DEF procVars, histVars
<1>2. \A w \in Workers : \A f \in Queued : DecidedBy(w, f)' <=> DecidedBy(w, f)
  BY <1>1, DecidedStays
<1>3. \A f \in Queued \ {e} : StatusOf(f)' = StatusOf(f) /\ tried'[f] = tried[f]
  BY <1>1, <1>2, StatusStays DEF Seen
<1>4. CASE Requeue(e)
  <2>1. StatusOf(e)' = StatusOf(e)
    BY <1>0, <1>1, <1>2, <1>4, RequeueMoves, StatusStays
  <2>2. QED  BY <1>0, <1>1, <1>3, <2>1, NoEvent
<1>5. CASE RequeueFails(e)
  <2>1. ~Live(e)' /\ Live(e) /\ Waiting(e)
    BY <1>0, <1>1, <1>5, GivenUpMoves DEF Live, Waiting
  <2>2. caller[e] \notin {"none", "refused"} /\ rows[e] = 0 /\ tried[e] = attempts[e] /\ attempts[e] > 0
    BY <1>0, <1>1, <2>1 DEF ResultOK, RowsOK, TriesOK
  <2>3. ~Decided(e)
    BY <1>0, <1>1, HeldByJob DEF Decided, OneOwner
  <2>4. StatusOf(e) = "pending"
    BY <2>1, <2>2, <2>3 DEF StatusOf
  <2>5. ~(tried'[e] > attempts'[e])
    BY <1>0, <1>1, <2>2, Types
  <2>6. StatusOf(e)' = "dropped"
    BY <1>1, <2>1, <2>2, <2>5 DEF StatusOf
  <2>7. QED  BY <1>0, <1>1, <1>3, <2>2, <2>4, <2>6, OneEvent
<1>6. QED  BY <1>4, <1>5

\* The callers of ProcessEventSync have events of their own.
LEMMA DirectPromise ==
  ASSUME IInv, IInv', NEW e \in Direct, CallSync(e) \/ Process(e) \/ ReturnSync(e)
  PROVE  [Promise!Next]_(Promise!vars)
<1>0. TypeInv /\ TypeInv' /\ OneOwner /\ e \in Agents /\ e \notin Queued /\ e \notin Workers
      /\ Queued \subseteq Events /\ Workers \subseteq Agents
  BY Types DEF IInv
<1>1. \A f \in Queued : Live(f)' <=> Live(f)
  BY <1>0, QuietSteps, OwnersStay DEF Seen
<1>2. attempts' = attempts
  BY DEF CallSync, Process, Correlate, Store, StoreFails, ReturnSync
<1>3. \A w \in Workers : at'[w] = at[w] /\ job'[w] = job[w] /\ ok'[w] = ok[w]
  <2>1. /\ \E v : at' = [at EXCEPT ![e] = v]
        /\ \E v : job' = [job EXCEPT ![e] = v] \/ job' = job
        /\ \E v : ok' = [ok EXCEPT ![e] = v] \/ ok' = ok
    BY DEF CallSync, Process, Correlate, Store, StoreFails, ReturnSync
  <2>2. QED  BY <1>0, <2>1, Types
<1>4. \A f \in Queued : caller'[f] = caller[f]
  <2>1. \E v : caller' = [caller EXCEPT ![e] = v] \/ caller' = caller
    BY DEF CallSync, Process, Correlate, Store, StoreFails, ReturnSync
  <2>2. QED  BY <1>0, <2>1, Types
<1>5. \A f \in Queued : tried'[f] = tried[f] /\ rows'[f] = rows[f]
  <2>1. CASE Process(e)
    <3>1. job[e] = e
      BY <1>0, <2>1, JobUnique DEF Process, Correlate, Store, StoreFails, Inside
    <3>2. /\ \E v : tried' = [tried EXCEPT ![e] = v] \/ tried' = tried
          /\ \E v : rows' = [rows EXCEPT ![e] = v] \/ rows' = rows
      BY <2>1, <3>1 DEF Process, Correlate, Store, StoreFails, histVars
    <3>3. QED  BY <1>0, <3>2, Types
  <2>2. CASE CallSync(e) \/ ReturnSync(e)
    BY <2>2 DEF CallSync, ReturnSync, histVars
  <2>3. QED  BY <2>1, <2>2
<1>6. \A f \in Queued : \A w \in Workers : DecidedBy(w, f)' <=> DecidedBy(w, f)
  BY <1>2, <1>3, DecidedStays
<1>7. \A f \in Queued : StatusOf(f)' = StatusOf(f)
  BY <1>1, <1>2, <1>4, <1>5, <1>6, StatusStays
<1>8. QED  BY <1>0, <1>5, <1>7, NoEvent

\* Every step is a step of the promise or a stutter.
LEMMA PromiseStep == IInv /\ [Next]_vars => [Promise!Next]_(Promise!vars)
<1> SUFFICES ASSUME IInv, [Next]_vars PROVE [Promise!Next]_(Promise!vars)
  OBVIOUS
<1>0. IInv' /\ TypeInv /\ TypeInv' /\ OneOwner
  BY IStep DEF IInv
<1>1. CASE Still
  <2>1. UNCHANGED <<at, job, ok, attempts, rows, tried, caller>>
    BY <1>1, StillMovesNothing DEF procVars, histVars
  <2>2. \A f \in Queued : Live(f)' <=> Live(f)
    BY <1>0, <1>1, QuietSteps, OwnersStay DEF Seen
  <2>3. \A f \in Queued : StatusOf(f)' = StatusOf(f)
    BY <2>1, <2>2, DecidedStays, StatusStays
  <2>4. QED  BY <1>0, <2>1, <2>3, NoEvent
<1>2. ASSUME NEW e \in Queued, Submit(e) \/ Receive(e) \/ Timeout(e) \/ Wake(e)
      PROVE  [Promise!Next]_(Promise!vars)
  BY <1>0, <1>1, <1>2, CallerPromise, WakePromise, SubmitSplits DEF Wake, Still
<1>3. ASSUME NEW w \in Workers, Work(w) \/ Exit(w)
      PROVE  [Promise!Next]_(Promise!vars)
  BY <1>0, <1>3, StorePromise, WorkerPromise DEF Work, Process
<1>4. ASSUME NEW e \in Direct, CallSync(e) \/ Process(e) \/ ReturnSync(e)
      PROVE  [Promise!Next]_(Promise!vars)
  BY <1>0, <1>4, DirectPromise
<1>5. QED
  BY <1>1, <1>2, <1>3, <1>4 DEF Next, Still

-----------------------------------------------------------------------------
(* The theorems *)

\* The inductive invariant: the types, one owner for each task, one result at
\* the end of its last attempt, rows and attempts that agree with both, and
\* exact counters.
THEOREM Invariance == Spec => []IInv
BY IInit, IStep, PTL DEF Spec

\* One owner and one result for each task, and statistics that agree, for any
\* number of workers, retries and events: worker, processTask and ProcessEvent
\* of events.go.
THEOREM EveryResultAccounted == Spec => []ResultsAccounted
<1>1. IInv => ResultsAccounted
  BY DEF IInv, TypeInv, ResultOK, OneResult, ResultsAccounted
<1>2. QED  BY Invariance, <1>1, PTL

\* A caller is told success only of an event that was stored, failure only of
\* one that was not, and no event is stored twice: worker, processEventInternal and ProcessEvent.
THEOREM EveryResultTruthful == Spec => []ResultIsTruthful
<1>1. IInv => ResultIsTruthful
  BY DEF IInv, RowsOK, Told, ResultIsTruthful
<1>2. QED  BY Invariance, <1>1, PTL

\* The event processor implements Outbox: an accepted event is inserted at most
\* RetryAttempts + 1 times, ends once, and is never inserted after its end.
THEOREM Refinement == Spec => KeepsPromise
<1>1. Init => Promise!Init
  <2> SUFFICES ASSUME Init PROVE Promise!Init
    OBVIOUS
  <2>1. \A e \in Queued : caller[e] = "none" /\ tried[e] = 0
    BY DEF Init, Events
  <2>2. status = [e \in Queued |-> "none"]
    BY <2>1 DEF status, StatusOf
  <2>3. [e \in Queued |-> tried[e]] = [e \in Queued |-> 0]
    BY <2>1
  <2>4. QED  BY <2>2, <2>3 DEF Promise!Init
<1>2. QED
  BY Invariance, <1>1, PromiseStep, PTL DEF Spec, KeepsPromise, Promise!Spec
=============================================================================
