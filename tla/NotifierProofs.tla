--------------------------- MODULE NotifierProofs ---------------------------
(***************************************************************************)
(* Proofs about Notifier for any number of events, webhooks and workers    *)
(* and any queue size.  TypeInv makes the types inductive; IInv adds where *)
(* each task is and how its posts relate to its Attempt counter.           *)
(***************************************************************************)
EXTENDS Notifier, FiniteSetTheorems, TLAPS

-----------------------------------------------------------------------------
(* Sequences without repetition *)

InSeq(q, x) == \E i \in 1..Len(q) : q[i] = x
Distinct(q) == \A i, j \in 1..Len(q) : q[i] = q[j] => i = j

\* What the send on taskQueue does to the set of queued tasks.
LEMMA AppendLemma ==
  ASSUME NEW S, NEW q \in Seq(S), NEW x \in S
  PROVE  /\ Append(q, x) \in Seq(S)
         /\ \A y : InSeq(Append(q, x), y) <=> InSeq(q, y) \/ y = x
         /\ Distinct(q) /\ ~InSeq(q, x) => Distinct(Append(q, x))
<1>1. /\ Append(q, x) \in Seq(S)
      /\ Len(Append(q, x)) = Len(q) + 1
      /\ \A i \in 1..Len(q) : Append(q, x)[i] = q[i]
      /\ Append(q, x)[Len(q) + 1] = x
      /\ Len(q) \in Nat
  OBVIOUS
<1>2. 1..Len(Append(q, x)) = (1..Len(q)) \cup {Len(q) + 1}
  BY <1>1
<1>3. \A y : InSeq(Append(q, x), y) <=> InSeq(q, y) \/ y = x
  BY <1>1, <1>2 DEF InSeq
<1>4. ASSUME Distinct(q), ~InSeq(q, x)
      PROVE  Distinct(Append(q, x))
  BY <1>1, <1>2, <1>4 DEF Distinct, InSeq
<1>5. QED
  BY <1>1, <1>3, <1>4

\* What the receive from taskQueue does to it.
LEMMA TailLemma ==
  ASSUME NEW S, NEW q \in Seq(S), q # <<>>
  PROVE  /\ Head(q) \in S /\ Tail(q) \in Seq(S)
         /\ InSeq(q, Head(q))
         /\ \A y : InSeq(Tail(q), y) => InSeq(q, y)
         /\ \A y : InSeq(q, y) => InSeq(Tail(q), y) \/ y = Head(q)
         /\ Distinct(q) => Distinct(Tail(q)) /\ ~InSeq(Tail(q), Head(q))
<1>1. /\ Head(q) \in S /\ Tail(q) \in Seq(S) /\ Head(q) = q[1]
      /\ Len(q) \in Nat \ {0} /\ Len(Tail(q)) = Len(q) - 1
      /\ \A i \in 1..Len(Tail(q)) : Tail(q)[i] = q[i + 1] /\ i + 1 \in 1..Len(q)
  OBVIOUS
<1>2. InSeq(q, Head(q))
  BY <1>1 DEF InSeq
<1>3. \A y : InSeq(Tail(q), y) => InSeq(q, y)
  BY <1>1 DEF InSeq
<1>a. ASSUME NEW y, InSeq(q, y), y # Head(q)
      PROVE  InSeq(Tail(q), y)
  <2>1. PICK i \in 1..Len(q) : q[i] = y
    BY <1>a DEF InSeq
  <2>2. i - 1 \in 1..Len(Tail(q)) /\ Tail(q)[i - 1] = y
    BY <1>1, <1>a, <2>1
  <2>3. QED  BY <2>2 DEF InSeq
<1>4. ASSUME Distinct(q)
      PROVE  Distinct(Tail(q)) /\ ~InSeq(Tail(q), Head(q))
  <2>1. Distinct(Tail(q))
    BY <1>1, <1>4 DEF Distinct
  <2>2. ~InSeq(Tail(q), Head(q))
    BY <1>1, <1>4 DEF Distinct, InSeq
  <2>3. QED  BY <2>1, <2>2
<1>5. QED
  BY <1>1, <1>2, <1>3, <1>4, <1>a

-----------------------------------------------------------------------------
(* Types *)

\* The updates of the statistics keep the type of the record.
LEMMA StatsCounted ==
  ASSUME NEW s \in NotifierStats
  PROVE  /\ [s EXCEPT !.filtered = @ + 1] \in NotifierStats
         /\ [s EXCEPT !.filtered = @ + 1].active = s.active
         /\ [s EXCEPT !.queueFull = @ + 1] \in NotifierStats
         /\ [s EXCEPT !.queueFull = @ + 1].active = s.active
         /\ [s EXCEPT !.active = @ + 1] \in NotifierStats
         /\ [s EXCEPT !.active = @ + 1].active = s.active + 1
         /\ s.active \in Nat
BY DEF NotifierStats

\* Counters replaced by natural numbers leave a statistics record.
LEMMA StatsReplaced ==
  ASSUME NEW s \in NotifierStats, NEW i \in Nat, NEW j \in Nat, NEW k \in Nat, NEW l \in Nat
  PROVE  [s EXCEPT !.sent = i, !.active = j, !.succeeded = k, !.failed = l] \in NotifierStats
BY DEF NotifierStats

\* So does recordStats after a delivery, as long as ActiveWorkers is not 0.
LEMMA StatsRecorded ==
  ASSUME NEW s \in NotifierStats, s.active - 1 \in Nat, NEW i \in Nat, NEW j \in Nat
  PROVE  [s EXCEPT !.sent = @ + 1, !.active = @ - 1, !.succeeded = @ + i, !.failed = @ + j]
           \in NotifierStats
<1>1. s.sent + 1 \in Nat /\ s.succeeded + i \in Nat /\ s.failed + j \in Nat
  BY DEF NotifierStats
<1>2. QED  BY <1>1, StatsReplaced

\* A worker that posts has a task.
JobOK == \A w \in Workers : at[w] = "posting" => job[w] \in Tasks

\* ActiveWorkers is the number of busy workers; so it is never negative.
ActiveExact == stats.active = Cardinality(BusyWorkers)

TypeInv == TypeOK /\ JobOK /\ ActiveExact

\* NewNotifier leaves every variable in its type and no worker busy.
LEMMA TypeInit == Init => TypeInv
<1>1. ASSUME Init PROVE TypeOK /\ JobOK
  <2>1. 0 \in 0..(NumWebhooks + 1)
    BY NotifierAssumption
  <2>2. queue \in Seq(Tasks)
    BY <1>1 DEF Init
  <2>3. QED  BY <1>1, <2>1, <2>2, NotifierAssumption DEF Init, TypeOK, JobOK, NotifierStats
<1>2. ASSUME Init PROVE ActiveExact
  <2>1. BusyWorkers = {}
    BY <1>2 DEF Init, BusyWorkers, Busy
  <2>2. QED  BY <1>2, <2>1, FS_EmptySet DEF Init, ActiveExact
<1>3. QED  BY <1>1, <1>2 DEF TypeInv

\* A worker that becomes busy, or stops being so, is counted.
LEMMA BusyFinite == TypeOK => IsFiniteSet(BusyWorkers)
BY NotifierAssumption, FS_Subset DEF BusyWorkers

\* A worker that takes a task adds one to the busy workers.
LEMMA OneMoreBusy ==
  ASSUME TypeInv, NEW w \in Workers, at[w] = "idle", at' = [at EXCEPT ![w] = "posting"]
  PROVE  Cardinality(BusyWorkers') = stats.active + 1
<1>1. BusyWorkers' = BusyWorkers \cup {w} /\ w \notin BusyWorkers
  BY DEF TypeInv, TypeOK, BusyWorkers, Busy
<1>2. QED
  BY <1>1, BusyFinite, FS_AddElement DEF TypeInv, ActiveExact

\* A worker that has recorded its result leaves one less, and there was one.
LEMMA OneLessBusy ==
  ASSUME TypeInv, NEW w \in Workers, at[w] = "recording", at' = [at EXCEPT ![w] = "idle"]
  PROVE  Cardinality(BusyWorkers') = stats.active - 1 /\ stats.active \in Nat \ {0}
<1>1. /\ BusyWorkers' = BusyWorkers \ {w} /\ w \in BusyWorkers
      /\ IsFiniteSet(BusyWorkers')
  BY BusyFinite, FS_Subset DEF TypeInv, TypeOK, BusyWorkers, Busy
<1>2. Cardinality(BusyWorkers') = Cardinality(BusyWorkers) - 1
  BY <1>1, BusyFinite, FS_RemoveElement DEF TypeInv
<1>3. Cardinality(BusyWorkers') \in Nat
  BY <1>1, FS_CardinalityType
<1>4. stats.active = Cardinality(BusyWorkers) /\ stats.active \in Nat
  BY StatsCounted DEF TypeInv, TypeOK, ActiveExact
<1>5. QED
  BY <1>2, <1>3, <1>4

\* A step that moves no worker keeps ActiveWorkers exact.
LEMMA SameBusy ==
  ASSUME TypeInv, at' = at, stats'.active = stats.active
  PROVE  ActiveExact'
BY DEF TypeInv, ActiveExact, BusyWorkers

\* The steps of SendNotification leave the workers alone.
LEMMA TypeSend ==
  ASSUME TypeInv, NEW e \in Events, SendNotification(e)
  PROVE  TypeInv'
<1>0. ASSUME NEW w \in Eligible(e)
      PROVE  w \in Webhooks /\ <<e, w>> \in Tasks
  BY NotifierAssumption DEF Eligible, Webhooks, Tasks
<1>1. at' = at /\ job' = job /\ stats'.active = stats.active
  BY StatsCounted
     DEF TypeInv, TypeOK, headerVars, SendNotification, Call, SkipDisabled, SkipFiltered, Enqueue, Refuse,
          SendOnClosed, Return, workerVars, callVars
<1>2. JobOK' /\ ActiveExact'
  BY <1>1, SameBusy DEF TypeInv, JobOK
<1>3. CASE Call(e)
  <2>1. 1 \in 0..(NumWebhooks + 1)
    BY NotifierAssumption
  <2>2. QED
    BY <1>2, <1>3, <2>1 DEF TypeInv, TypeOK, headerVars, Call, workerVars, history
<1>4. CASE SkipDisabled(e)
  <2>1. call[e] + 1 \in 0..(NumWebhooks + 1)
    BY <1>4, NotifierAssumption DEF SkipDisabled, Webhooks
  <2>2. QED
    BY <1>2, <1>4, <2>1 DEF TypeInv, TypeOK, headerVars, SkipDisabled, workerVars, history
<1>5. CASE SkipFiltered(e)
  <2>1. call[e] + 1 \in 0..(NumWebhooks + 1)
    BY <1>5, NotifierAssumption DEF SkipFiltered, Webhooks
  <2>2. stats' \in NotifierStats
    BY <1>5, StatsCounted DEF SkipFiltered, TypeInv, TypeOK
  <2>3. QED
    BY <1>2, <1>5, <2>1, <2>2 DEF TypeInv, TypeOK, headerVars, SkipFiltered, workerVars, history
<1>6. CASE Enqueue(e)
  <2>1. /\ call[e] + 1 \in 0..(NumWebhooks + 1)
        /\ Append(queue, <<e, call[e]>>) \in Seq(Tasks)
    BY <1>0, <1>6, AppendLemma, NotifierAssumption DEF Enqueue, TypeInv, TypeOK, Webhooks
  <2>2. queue' \in Seq(Tasks) /\ sent' \in [Events -> Nat] /\ call' \in [Events -> 0..(NumWebhooks + 1)]
    BY <1>6, <2>1 DEF Enqueue, TypeInv, TypeOK
  <2>3. QED
    BY <1>2, <1>6, <2>2 DEF TypeInv, TypeOK, headerVars, Enqueue, workerVars, history
<1>7. CASE Refuse(e)
  <2>1. call[e] + 1 \in 0..(NumWebhooks + 1) /\ <<e, call[e]>> \in Tasks
    BY <1>0, <1>7, NotifierAssumption DEF Refuse, Webhooks
  <2>2. stats' \in NotifierStats
    BY <1>7, StatsCounted DEF Refuse, TypeInv, TypeOK
  <2>3. QED
    BY <1>2, <1>7, <2>1, <2>2 DEF TypeInv, TypeOK, headerVars, Refuse, workerVars, EndStates
<1>8. CASE SendOnClosed(e)
  BY <1>2, <1>8 DEF TypeInv, TypeOK, headerVars, SendOnClosed, workerVars, callVars, history
<1>9. CASE Return(e)
  BY <1>2, <1>9 DEF TypeInv, TypeOK, headerVars, Return, workerVars, history
<1>10. QED
  BY <1>3, <1>4, <1>5, <1>6, <1>7, <1>8, <1>9 DEF SendNotification

\* The steps of a worker.
LEMMA TypeWork ==
  ASSUME TypeInv, NEW w \in Workers, Work(w) \/ Exit(w)
  PROVE  TypeInv'
<1>1. CASE Take(w)
  <2>1. Head(queue) \in Tasks /\ Tail(queue) \in Seq(Tasks)
    BY <1>1, TailLemma DEF Take, TypeInv, TypeOK
  <2>2. stats' \in NotifierStats /\ stats'.active = stats.active + 1
    BY <1>1, StatsCounted DEF Take, Activated, TypeInv, TypeOK
  <2>3. TypeOK' /\ JobOK'
    BY <1>1, <2>1, <2>2 DEF TypeInv, TypeOK, headerVars, JobOK, Take, Busy, callVars, history
  <2>4. ActiveExact'
    BY <1>1, <2>2, OneMoreBusy DEF Take, ActiveExact
  <2>5. QED  BY <2>3, <2>4 DEF TypeInv
<1>2. CASE PostSucceeds(w) \/ PostFailsAndRetries(w) \/ PostFailsForGood(w)
  <2>1. /\ at[w] = "posting" /\ job[w] \in Tasks
        /\ at' = [at EXCEPT ![w] = "recording"]
        /\ job' = [job EXCEPT ![w] = NoTask]
        /\ stats' = stats
    BY <1>2 DEF PostSucceeds, PostFailsAndRetries, PostFailsForGood, Posted, TypeInv, JobOK
  <2>2. TypeOK'
    <3>1. CASE PostSucceeds(w)
      BY <2>1, <3>1 DEF TypeInv, TypeOK, headerVars, PostSucceeds, Posted, Busy, EndStates, callVars
    <3>2. CASE PostFailsAndRetries(w)
      BY <2>1, <3>2 DEF TypeInv, TypeOK, headerVars, PostFailsAndRetries, Posted, Busy, callVars
    <3>3. CASE PostFailsForGood(w)
      BY <2>1, <3>3 DEF TypeInv, TypeOK, headerVars, PostFailsForGood, Posted, Busy, EndStates, callVars
    <3>4. QED  BY <1>2, <3>1, <3>2, <3>3
  <2>3. JobOK'
    BY <2>1 DEF TypeInv, TypeOK, headerVars, JobOK
  <2>4. BusyWorkers' = BusyWorkers
    BY <2>1 DEF TypeInv, TypeOK, headerVars, BusyWorkers, Busy
  <2>5. QED  BY <2>1, <2>2, <2>3, <2>4 DEF TypeInv, ActiveExact
<1>3. CASE Record(w)
  <2>1. Cardinality(BusyWorkers') = stats.active - 1 /\ stats.active \in Nat \ {0}
    BY <1>3, OneLessBusy DEF Record
  <2>2. stats' \in NotifierStats /\ stats'.active = stats.active - 1
    <3>1. stats \in NotifierStats /\ stats.active - 1 \in Nat
      BY <2>1 DEF TypeInv, TypeOK
    <3>2. stats' \in NotifierStats
      BY <1>3, <3>1, StatsRecorded DEF Record
    <3>3. stats'.active = stats.active - 1
      BY <1>3, <3>1 DEF Record, NotifierStats
    <3>4. QED  BY <3>2, <3>3
  <2>3. TypeOK' /\ JobOK'
    BY <1>3, <2>2 DEF TypeInv, TypeOK, headerVars, JobOK, Record, Busy, callVars, history
  <2>4. ActiveExact'
    BY <2>1, <2>2 DEF ActiveExact
  <2>5. QED  BY <2>3, <2>4 DEF TypeInv
<1>4. CASE Exit(w)
  <2>1. TypeOK' /\ JobOK'
    BY <1>4 DEF TypeInv, TypeOK, headerVars, JobOK, Exit, callVars, history
  <2>2. BusyWorkers' = BusyWorkers
    BY <1>4 DEF TypeInv, TypeOK, headerVars, Exit, BusyWorkers, Busy
  <2>3. QED  BY <1>4, <2>1, <2>2 DEF TypeInv, ActiveExact, Exit
<1>5. CASE WriteHeaders(w) \/ HeadersWritten(w)
  <2>1. at' = at /\ job' = job /\ stats' = stats
    BY <1>5 DEF WriteHeaders, HeadersWritten, workerVars
  <2>2. complete' \in SUBSET Webhooks /\ writing' \in SUBSET Workers
    <3>1. job[w] \in Tasks
      BY <1>5 DEF WriteHeaders, HeadersWritten, TypeInv, JobOK
    <3>2. job[w][2] \in Webhooks
      BY <3>1 DEF Tasks
    <3>3. QED  BY <1>5, <3>2 DEF WriteHeaders, HeadersWritten, TypeInv, TypeOK
  <2>3. TypeOK'
    BY <1>5, <2>1, <2>2 DEF TypeInv, TypeOK, WriteHeaders, HeadersWritten, workerVars, callVars, history
  <2>4. QED  BY <2>1, <2>3, SameBusy DEF TypeInv, JobOK
<1>6. QED
  BY <1>1, <1>2, <1>3, <1>4, <1>5 DEF Work

\* The steps of the retry goroutines.
LEMMA TypeWake ==
  ASSUME TypeInv, NEW t \in Tasks, Wake(t)
  PROVE  TypeInv'
<1>1. at' = at /\ job' = job /\ stats' = stats
  BY DEF Wake, Requeue, DropRetry, RetryOnClosed, workerVars
<1>2. JobOK' /\ ActiveExact'
  BY <1>1, SameBusy DEF TypeInv, JobOK
<1>3. CASE Requeue(t)
  BY <1>2, <1>3, AppendLemma DEF TypeInv, TypeOK, headerVars, Requeue, Woken, workerVars, callVars, history
<1>4. CASE DropRetry(t)
  BY <1>2, <1>4 DEF TypeInv, TypeOK, headerVars, DropRetry, Woken, EndStates, workerVars, callVars
<1>5. CASE RetryOnClosed(t)
  BY <1>2, <1>5 DEF TypeInv, TypeOK, headerVars, RetryOnClosed, workerVars, callVars, history
<1>6. QED
  BY <1>3, <1>4, <1>5 DEF Wake

\* Start and the two steps of Stop.
LEMMA TypeLifecycle ==
  ASSUME TypeInv, Start \/ Cancel \/ CloseQueue
  PROVE  TypeInv'
<1>1. CASE Start
  <2>1. TypeOK' /\ JobOK'
    BY <1>1 DEF TypeInv, TypeOK, headerVars, JobOK, Start, callVars, history
  <2>2. BusyWorkers' = BusyWorkers
    BY <1>1 DEF Start, BusyWorkers, Busy
  <2>3. QED  BY <1>1, <2>1, <2>2 DEF TypeInv, ActiveExact, Start
<1>2. CASE Cancel \/ CloseQueue
  <2>1. at' = at /\ job' = job /\ stats' = stats
    BY <1>2 DEF Cancel, CloseQueue, workerVars
  <2>2. TypeOK'
    BY <1>2 DEF TypeInv, TypeOK, headerVars, Cancel, CloseQueue, workerVars, callVars, history
  <2>3. QED  BY <2>1, <2>2, SameBusy DEF TypeInv, JobOK
<1>3. QED  BY <1>1, <1>2

\* No step of the notifier leaves the types or miscounts ActiveWorkers.
LEMMA TypeStep == TypeInv /\ [Next]_vars => TypeInv'
<1> SUFFICES ASSUME TypeInv, [Next]_vars PROVE TypeInv'
  OBVIOUS
<1>1. CASE Next
  BY <1>1, TypeSend, TypeWork, TypeWake, TypeLifecycle DEF Next
<1>2. CASE UNCHANGED vars
  BY <1>2, SameBusy DEF vars, headerVars, TypeInv, TypeOK, JobOK, workerVars, callVars, history
<1>3. QED  BY <1>1, <1>2

\* Every variable keeps its type, and ActiveWorkers never goes below zero.
THEOREM TypeCorrect == Spec => []TypeOK
<1>1. TypeInv => TypeOK
  BY DEF TypeInv
<1>2. QED
  BY TypeInit, TypeStep, <1>1, PTL DEF Spec

-----------------------------------------------------------------------------
(* Where the tasks are *)

\* A task whose turn in SendNotification has not come is nowhere yet.
Fresh == \A e \in Events, w \in Webhooks :
           call[e] <= w => ~Live(<<e, w>>) /\ ended[<<e, w>>] = "no"

\* The counter in the task tells how often it was posted, which is once more
\* when the post ended it; a sleeping task was posted.
PostsExact ==
  \A t \in Tasks :
    /\ attempt[t] <= RetryCount[t[2]]
    /\ posts[t] = attempt[t] + (IF ended[t] \in {"delivered", "failed"} THEN 1 ELSE 0)
    /\ t \in sleeping => attempt[t] > 0

IInv == TypeInv /\ OnePlace /\ Fresh /\ PostsExact /\ ClosedIsQuiet

\* OnePlace by its parts.
DistinctPosters ==
  \A v, w \in Workers : (at[v] = "posting" /\ at[w] = "posting" /\ job[v] = job[w]) => v = w
Apart ==
  \A t \in Tasks : /\ ~(Queued(t) /\ Posting(t))
                   /\ ~(Queued(t) /\ t \in sleeping)
                   /\ ~(Posting(t) /\ t \in sleeping)
                   /\ ended[t] # "no" => ~Live(t)

\* The three ways in which a task could have two owners, one by one.
LEMMA OnePlaceParts == /\ OnePlace <=> Distinct(queue) /\ DistinctPosters /\ Apart
                       /\ \A t : Queued(t) <=> InSeq(queue, t)
BY DEF OnePlace, Distinct, DistinctPosters, Apart, Queued, InSeq

\* The same after a step.
LEMMA OnePlacePartsNext == /\ OnePlace' <=> Distinct(queue') /\ DistinctPosters' /\ Apart'
                           /\ \A t : Queued(t)' <=> InSeq(queue', t)
BY DEF OnePlace, Distinct, DistinctPosters, Apart, Queued, InSeq

\* The inductive invariant holds when the notifier is created.
LEMMA IInit == Init => IInv
<1> SUFFICES ASSUME Init PROVE IInv
  OBVIOUS
<1>1. \A t \in Tasks : ~Live(t)
  BY DEF Init, Live, Queued, Posting
<1>2. OnePlace
  BY <1>1 DEF Init, OnePlace, Live, Queued, Posting
<1>3. Fresh
  <2>1. \A e \in Events, w \in Webhooks : <<e, w>> \in Tasks
    BY DEF Tasks
  <2>2. QED  BY <1>1, <2>1 DEF Init, Fresh
<1>4. PostsExact
  <2> SUFFICES ASSUME NEW t \in Tasks
               PROVE  0 <= RetryCount[t[2]]
    BY DEF Init, PostsExact
  <2>1. t[2] \in Webhooks
    BY DEF Tasks
  <2>2. QED  BY <2>1, NotifierAssumption
<1>5. ClosedIsQuiet
  BY DEF Init, ClosedIsQuiet
<1>6. QED
  BY TypeInit, <1>2, <1>3, <1>4, <1>5 DEF IInv

\* What a step is to Outbox.
PromiseStep == [Promise!Next]_(Promise!vars)

\* A step that changes no task's fate is a stutter of Outbox.
LEMMA StatusSame ==
  ASSUME \A u \in Tasks : ended'[u] = ended[u] /\ (Live(u)' <=> Live(u)), posts' = posts
  PROVE  PromiseStep
<1>1. status' = status
  BY DEF status
<1>2. QED  BY <1>1 DEF PromiseStep, Promise!vars

\* A step that changes one task's fate changes its status in Outbox only.
LEMMA StatusChanged ==
  ASSUME NEW t \in Tasks,
         \A u \in Tasks \ {t} : ended'[u] = ended[u] /\ (Live(u)' <=> Live(u))
  PROVE  /\ status \in [Tasks -> {"none", "pending"} \cup {ended[u] : u \in Tasks}]
         /\ status[t] = IF ended[t] # "no" THEN ended[t] ELSE IF Live(t) THEN "pending" ELSE "none"
         /\ status' = [status EXCEPT ![t] = IF ended'[t] # "no" THEN ended'[t]
                                           ELSE IF Live(t)' THEN "pending" ELSE "none"]
BY DEF status

\* A step that moves no task keeps the invariant.
LEMMA NothingMoves ==
  ASSUME IInv, TypeInv',
         queue' = queue, sleeping' = sleeping, ended' = ended, posts' = posts,
         attempt' = attempt,
         \A w \in Workers : /\ at'[w] = "posting" <=> at[w] = "posting"
                            /\ at[w] = "posting" => job'[w] = job[w],
         \A e \in Events : call'[e] = call[e] \/ call'[e] = call[e] + 1
  PROVE  OnePlace' /\ Fresh' /\ PostsExact' /\ PromiseStep
<1>1. \A t : Posting(t)' <=> Posting(t)
  BY DEF Posting
<1>2. \A t : (Queued(t)' <=> Queued(t)) /\ (Live(t)' <=> Live(t))
  BY <1>1 DEF Live, Queued
<1>3. OnePlace'
  BY <1>1, <1>2 DEF IInv, OnePlace
<1>4. Fresh'
  <2> SUFFICES ASSUME NEW e \in Events, NEW w \in Webhooks, call'[e] <= w
               PROVE  ~Live(<<e, w>>)' /\ ended'[<<e, w>>] = "no"
    BY DEF Fresh
  <2>1. call[e] \in Int /\ w \in Int
    BY NotifierAssumption DEF IInv, TypeInv, TypeOK, Webhooks
  <2>2. call[e] <= w
    BY <2>1
  <2>3. QED  BY <2>2, <1>2 DEF IInv, Fresh
<1>5. PostsExact'
  BY DEF IInv, PostsExact
<1>6. PromiseStep
  BY <1>2, StatusSame
<1>7. QED  BY <1>3, <1>4, <1>5, <1>6

\* A new task enters the queue, from SendNotification or from a retry
\* goroutine, which then no longer has it.
LEMMA TaskQueued ==
  ASSUME IInv, TypeInv', NEW t \in Tasks,
         ended[t] = "no", ~Queued(t), ~Posting(t),
         queue' = Append(queue, t), sleeping' = sleeping \ {t},
         at' = at, job' = job, ended' = ended, posts' = posts, attempt' = attempt
  PROVE  /\ OnePlace' /\ PostsExact'
         /\ \A u \in Tasks : Live(u)' <=> Live(u) \/ u = t
<1>1. \A u : Posting(u)' <=> Posting(u)
  BY DEF Posting
<1>2. queue \in Seq(Tasks) /\ Distinct(queue) /\ DistinctPosters /\ Apart
  BY OnePlaceParts DEF IInv, TypeInv, TypeOK
<1>3. \A u : Queued(u)' <=> Queued(u) \/ u = t
  BY <1>2, AppendLemma, OnePlaceParts, OnePlacePartsNext
<1>4. Distinct(queue')
  BY <1>2, AppendLemma, OnePlaceParts
<1>5. DistinctPosters'
  BY <1>2 DEF DistinctPosters
<1>6. Apart'
  BY <1>1, <1>2, <1>3 DEF Apart, Live
<1>7. PostsExact'
  BY DEF IInv, PostsExact
<1>8. QED
  BY <1>1, <1>3, <1>4, <1>5, <1>6, <1>7, OnePlacePartsNext DEF Live

\* SendNotification: a task is fresh until its turn, then queued or refused.
LEMMA PlaceSend ==
  ASSUME IInv, TypeInv', NEW e \in Events, SendNotification(e)
  PROVE  OnePlace' /\ Fresh' /\ PostsExact' /\ PromiseStep
<1>0. ASSUME NEW f \in Events
      PROVE  call[f] \in Int
  BY NotifierAssumption DEF IInv, TypeInv, TypeOK
<1>1. CASE Call(e) \/ SkipDisabled(e) \/ SkipFiltered(e) \/ SendOnClosed(e) \/ Return(e)
  <2>1. /\ queue' = queue /\ sleeping' = sleeping /\ ended' = ended /\ posts' = posts
        /\ attempt' = attempt /\ at' = at /\ job' = job
    BY <1>1 DEF Call, SkipDisabled, SkipFiltered, SendOnClosed, Return, workerVars, callVars, history
  <2>2. \A f \in Events : call'[f] = call[f] \/ call'[f] = call[f] + 1
    <3>1. call \in [Events -> 0..(NumWebhooks + 1)]
      BY DEF IInv, TypeInv, TypeOK
    <3>2. \/ call' = call
          \/ call' = [call EXCEPT ![e] = @ + 1]
          \/ call[e] = 0 /\ call' = [call EXCEPT ![e] = 1]
      BY <1>1 DEF Call, SkipDisabled, SkipFiltered, SendOnClosed, Return, callVars
    <3>3. QED  BY <1>0, <3>1, <3>2
  <2>3. QED  BY <2>1, <2>2, NothingMoves
<1>2. CASE Enqueue(e) \/ Refuse(e)
  <2> DEFINE t == <<e, call[e]>>
  <2>1. /\ call[e] \in Webhooks /\ t \in Tasks
        /\ call' = [call EXCEPT ![e] = call[e] + 1]
        /\ at' = at /\ job' = job /\ sleeping' = sleeping /\ posts' = posts
        /\ attempt' = attempt
    BY <1>2, NotifierAssumption DEF Enqueue, Refuse, Eligible, Webhooks, Tasks, workerVars, history
  <2>2. ~Live(t) /\ ended[t] = "no"
    BY <1>0, <2>1 DEF IInv, Fresh
  <2>3. ASSUME NEW f \in Events, NEW w \in Webhooks, call'[f] <= w
        PROVE  call[f] <= w /\ <<f, w>> # t /\ <<f, w>> \in Tasks
    <3>1. call[f] \in Int /\ call[e] \in Int /\ w \in Int
      BY <1>0, NotifierAssumption DEF Webhooks
    <3>2. call'[f] = IF f = e THEN call[e] + 1 ELSE call[f]
      BY <2>1 DEF IInv, TypeInv, TypeOK
    <3>3. call[f] <= w /\ <<f, w>> # t
      BY <2>3, <3>1, <3>2
    <3>4. QED  BY <3>3 DEF Tasks
  <2>4. CASE Enqueue(e)
    <3>1. queue' = Append(queue, t) /\ sleeping' = sleeping \ {t} /\ ended' = ended
      BY <2>1, <2>2, <2>4 DEF Enqueue, Live, history
    <3>2. OnePlace' /\ PostsExact' /\ \A u \in Tasks : Live(u)' <=> Live(u) \/ u = t
      BY <2>1, <2>2, <3>1, TaskQueued DEF Live
    <3>3. Fresh'
      BY <2>3, <3>1, <3>2 DEF IInv, Fresh
    <3>4. Promise!Accept(t)
      BY <2>1, <2>2, <3>1, <3>2, StatusChanged DEF Promise!Accept
    <3>5. QED  BY <2>1, <3>2, <3>3, <3>4 DEF PromiseStep, Promise!Next
  <2>5. CASE Refuse(e)
    <3>1. queue' = queue /\ ended' = [ended EXCEPT ![t] = "refused"]
      BY <2>5 DEF Refuse
    <3>2. \A u : /\ Live(u)' <=> Live(u)
                 /\ Queued(u)' <=> Queued(u)
                 /\ Posting(u)' <=> Posting(u)
      BY <2>1, <3>1 DEF Live, Queued, Posting
    <3>3. \A u \in Tasks : ended'[u] = IF u = t THEN "refused" ELSE ended[u]
      BY <3>1 DEF IInv, TypeInv, TypeOK
    <3>4. OnePlace'
      BY <2>1, <2>2, <3>1, <3>2, <3>3 DEF IInv, OnePlace
    <3>5. Fresh'
      BY <2>3, <3>2, <3>3 DEF IInv, Fresh
    <3>6. PostsExact'
      BY <2>1, <2>2, <3>3 DEF IInv, PostsExact
    <3>7. Promise!Refuse(t)
      BY <2>1, <2>2, <3>2, <3>3, StatusChanged DEF Promise!Refuse
    <3>8. QED  BY <2>1, <3>4, <3>5, <3>6, <3>7 DEF PromiseStep, Promise!Next
  <2>6. QED  BY <1>2, <2>4, <2>5
<1>3. QED
  BY <1>1, <1>2 DEF SendNotification

\* The worker that takes a task is the only one to have it.
LEMMA PlaceTake ==
  ASSUME IInv, TypeInv', NEW w \in Workers, Take(w)
  PROVE  OnePlace' /\ Fresh' /\ PostsExact' /\ PromiseStep
<1>0. /\ queue \in Seq(Tasks)
      /\ at \in [Workers -> {"off", "idle", "exited"} \cup Busy]
      /\ job \in [Workers -> Tasks \cup {NoTask}]
  BY DEF IInv, TypeInv, TypeOK
<1>a. PICK t \in Tasks : t = Head(queue)
  BY <1>0, TailLemma DEF Take
<1>1. /\ at[w] = "idle" /\ queue # <<>> /\ queue' = Tail(queue)
      /\ at' = [at EXCEPT ![w] = "posting"] /\ job' = [job EXCEPT ![w] = t]
      /\ sleeping' = sleeping /\ ended' = ended /\ posts' = posts /\ attempt' = attempt
      /\ call' = call
  BY <1>a DEF Take, callVars, history
<1>2. Distinct(queue) /\ DistinctPosters /\ Apart
  BY OnePlaceParts DEF IInv
<1>3. /\ Queued(t) /\ ~Queued(t)' /\ Distinct(queue')
      /\ \A u : Queued(u)' <=> Queued(u) /\ u # t
  <2>1. /\ InSeq(queue, t) /\ ~InSeq(queue', t) /\ Distinct(queue')
        /\ \A u : InSeq(queue', u) <=> InSeq(queue, u) /\ u # t
    BY <1>0, <1>a, <1>1, <1>2, TailLemma
  <2>2. QED  BY <2>1, OnePlaceParts, OnePlacePartsNext
<1>4. \A u \in Tasks : Posting(u)' <=> Posting(u) \/ u = t
  BY <1>0, <1>1 DEF Posting
<1>5. DistinctPosters'
  <2> SUFFICES ASSUME NEW v \in Workers, NEW x \in Workers,
                      at'[v] = "posting", at'[x] = "posting", job'[v] = job'[x]
               PROVE  v = x
    BY DEF DistinctPosters
  <2>1. \A y \in Workers \ {w} : at'[y] = at[y] /\ job'[y] = job[y]
    BY <1>1 DEF IInv, TypeInv, TypeOK
  <2>2. job'[w] = t
    BY <1>1 DEF IInv, TypeInv, TypeOK
  <2>3. \A y \in Workers \ {w} : at[y] = "posting" => job[y] # t
    BY <1>2, <1>3 DEF Apart, Posting
  <2>4. QED  BY <1>2, <2>1, <2>2, <2>3 DEF DistinctPosters
<1>6. Apart'
  BY <1>1, <1>2, <1>3, <1>4 DEF Apart, Live
<1>7. \A u \in Tasks : Live(u)' <=> Live(u)
  BY <1>1, <1>3, <1>4 DEF Live
<1>8. Fresh'
  <2>1. \A e \in Events, x \in Webhooks : <<e, x>> \in Tasks
    BY DEF Tasks
  <2>2. QED  BY <1>1, <1>7, <2>1 DEF IInv, Fresh
<1>9. PostsExact'
  BY <1>1 DEF IInv, PostsExact
<1>10. PromiseStep
  BY <1>1, <1>7, StatusSame
<1>11. QED
  BY <1>3, <1>5, <1>6, <1>8, <1>9, <1>10, OnePlacePartsNext

\* A post takes the task from the worker: it ended, or a retry goroutine has
\* it from now on.
LEMMA PlacePost ==
  ASSUME IInv, TypeInv', NEW w \in Workers,
         PostSucceeds(w) \/ PostFailsAndRetries(w) \/ PostFailsForGood(w)
  PROVE  OnePlace' /\ Fresh' /\ PostsExact' /\ PromiseStep
<1>0. /\ at \in [Workers -> {"off", "idle", "exited"} \cup Busy]
      /\ job \in [Workers -> Tasks \cup {NoTask}]
      /\ attempt \in [Tasks -> Nat] /\ posts \in [Tasks -> Nat]
      /\ ended \in [Tasks -> {"no"} \cup EndStates]
  BY DEF IInv, TypeInv, TypeOK
<1>a. PICK t \in Tasks : t = job[w]
  BY DEF PostSucceeds, PostFailsAndRetries, PostFailsForGood, Posted, IInv, TypeInv, JobOK
<1>1. /\ at[w] = "posting" /\ queue' = queue /\ call' = call
      /\ at' = [at EXCEPT ![w] = "recording"] /\ job' = [job EXCEPT ![w] = NoTask]
      /\ posts' = [posts EXCEPT ![t] = @ + 1]
  BY <1>a DEF PostSucceeds, PostFailsAndRetries, PostFailsForGood, Posted, callVars
<1>2. Distinct(queue) /\ DistinctPosters /\ Apart
  BY OnePlaceParts DEF IInv
<1>3. /\ Posting(t) /\ Live(t) /\ ended[t] = "no" /\ t \notin sleeping /\ ~Queued(t)
  BY <1>0, <1>a, <1>1, <1>2 DEF Posting, Live, Apart
<1>4. \A u \in Tasks : Posting(u)' <=> Posting(u) /\ u # t
  <2>1. \A v \in Workers : at'[v] = "posting" => v # w /\ at[v] = "posting" /\ job'[v] = job[v]
    BY <1>0, <1>1
  <2>2. \A v \in Workers : at[v] = "posting" /\ v # w =>
                             at'[v] = "posting" /\ job'[v] = job[v] /\ job[v] # t
    BY <1>0, <1>a, <1>1, <1>2 DEF DistinctPosters
  <2>3. QED  BY <1>a, <2>1, <2>2 DEF Posting
<1>5. DistinctPosters'
  BY <1>0, <1>1, <1>2 DEF DistinctPosters
<1>6. \A u : Queued(u)' <=> Queued(u)
  BY <1>1 DEF Queued
<1>7. attempt[t] <= RetryCount[t[2]] /\ posts[t] = attempt[t]
  BY <1>0, <1>3 DEF IInv, PostsExact
<1>b. RetryCount[t[2]] \in Nat
  <2>1. t[2] \in Webhooks
    BY DEF Tasks
  <2>2. QED  BY <2>1, NotifierAssumption
<1>8. /\ \A u \in Tasks : u # t => posts'[u] = posts[u]
      /\ posts'[t] = posts[t] + 1
  BY <1>0, <1>1
<1>9. CASE PostSucceeds(w) \/ PostFailsForGood(w)
  <2>1. /\ sleeping' = sleeping /\ attempt' = attempt
        /\ \A u \in Tasks : u # t => ended'[u] = ended[u]
        /\ ended'[t] \in {"delivered", "failed"}
    BY <1>0, <1>a, <1>9 DEF PostSucceeds, PostFailsForGood
  <2>2. Apart'
    BY <1>2, <1>3, <1>4, <1>6, <2>1 DEF Apart, Live
  <2>3. PostsExact'
    BY <1>7, <1>8, <2>1 DEF IInv, PostsExact
  <2>4. \A u \in Tasks : (Live(u)' => Live(u)) /\ (~Live(u) => ended'[u] = ended[u])
    BY <1>3, <1>4, <1>6, <2>1 DEF Live
  <2>5. Fresh'
    <3>1. \A e \in Events, x \in Webhooks : <<e, x>> \in Tasks
      BY DEF Tasks
    <3>2. QED  BY <1>1, <2>4, <3>1 DEF IInv, Fresh
  <2>6. Promise!Try(t)
    <3>1. /\ \A u \in Tasks \ {t} : ended'[u] = ended[u] /\ (Live(u)' <=> Live(u))
          /\ ended'[t] # "no"
      BY <1>4, <1>6, <2>1 DEF Live
    <3>2. status[t] = "pending" /\ status' = [status EXCEPT ![t] = ended'[t]]
      BY <1>3, <3>1, StatusChanged
    <3>3. posts[t] < RetryCount[t[2]] + 1
      BY <1>0, <1>7, <1>b
    <3>4. \/ status' = [status EXCEPT ![t] = "delivered"]
          \/ status' = [status EXCEPT ![t] = "failed"] /\ ~(attempt[t] < RetryCount[t[2]])
      BY <1>0, <1>a, <1>9, <3>2 DEF PostSucceeds, PostFailsForGood, Retryable
    <3>5. ~(attempt[t] < RetryCount[t[2]]) => posts[t] + 1 = RetryCount[t[2]] + 1
      BY <1>0, <1>7, <1>b
    <3>6. QED  BY <1>1, <3>2, <3>3, <3>4, <3>5 DEF Promise!Try
  <2>7. QED
    BY <1>1, <1>2, <1>5, <2>2, <2>3, <2>5, <2>6, OnePlacePartsNext DEF PromiseStep, Promise!Next
<1>10. CASE PostFailsAndRetries(w)
  <2>1. /\ sleeping' = sleeping \cup {t} /\ ended' = ended
        /\ attempt' = [attempt EXCEPT ![t] = @ + 1]
        /\ attempt[t] < RetryCount[t[2]]
    BY <1>a, <1>10 DEF PostFailsAndRetries, Retryable
  <2>2. Apart'
    BY <1>2, <1>3, <1>4, <1>6, <2>1 DEF Apart, Live
  <2>3. PostsExact'
    <3> SUFFICES ASSUME NEW u \in Tasks
                 PROVE  /\ attempt'[u] <= RetryCount[u[2]]
                        /\ posts'[u] = attempt'[u] +
                             (IF ended'[u] \in {"delivered", "failed"} THEN 1 ELSE 0)
                        /\ u \in sleeping' => attempt'[u] > 0
      BY DEF PostsExact
    <3>1. CASE u = t
      <4>1. attempt[t] \in Nat /\ attempt'[u] = attempt[t] + 1
        BY <1>0, <2>1, <3>1
      <4>2. QED  BY <1>3, <1>7, <1>8, <1>b, <2>1, <3>1, <4>1
    <3>2. CASE u # t
      BY <1>0, <1>8, <2>1, <3>2 DEF IInv, PostsExact
    <3>3. QED  BY <3>1, <3>2
  <2>4. \A u \in Tasks : Live(u)' => Live(u)
    BY <1>3, <1>4, <1>6, <2>1 DEF Live
  <2>5. Fresh'
    <3>1. \A e \in Events, x \in Webhooks : <<e, x>> \in Tasks
      BY DEF Tasks
    <3>2. QED  BY <1>1, <2>1, <2>4, <3>1 DEF IInv, Fresh
  <2>6. Promise!Try(t)
    <3>1. \A u \in Tasks : Live(u)' <=> Live(u)
      BY <1>3, <1>4, <1>6, <2>1 DEF Live
    <3>2. status[t] = "pending" /\ status' = status
      BY <1>3, <2>1, <3>1 DEF status
    <3>3. QED  BY <1>0, <1>1, <1>7, <1>b, <2>1, <3>2 DEF Promise!Try
  <2>7. QED
    BY <1>1, <1>2, <1>5, <2>2, <2>3, <2>5, <2>6, OnePlacePartsNext DEF PromiseStep, Promise!Next
<1>11. QED
  BY <1>9, <1>10

\* A retry goroutine hands its task to the queue or drops it.
LEMMA PlaceWake ==
  ASSUME IInv, TypeInv', NEW t \in Tasks, Wake(t)
  PROVE  OnePlace' /\ Fresh' /\ PostsExact' /\ PromiseStep
<1>1. CASE Requeue(t)
  <2>1. /\ t \in sleeping /\ queue' = Append(queue, t) /\ sleeping' = sleeping \ {t}
        /\ at' = at /\ job' = job /\ ended' = ended /\ posts' = posts /\ attempt' = attempt
        /\ call' = call
    BY <1>1 DEF Requeue, Woken, workerVars, callVars, history
  <2>2. ended[t] = "no" /\ ~Queued(t) /\ ~Posting(t) /\ Live(t)
    BY <2>1, OnePlaceParts DEF IInv, Apart, Live
  <2>3. OnePlace' /\ PostsExact' /\ \A u \in Tasks : Live(u)' <=> Live(u) \/ u = t
    BY <2>1, <2>2, TaskQueued
  <2>4. Fresh'
    <3>1. \A e \in Events, x \in Webhooks : <<e, x>> \in Tasks
      BY DEF Tasks
    <3>2. QED  BY <2>1, <2>2, <2>3, <3>1 DEF IInv, Fresh
  <2>5. PromiseStep
    BY <2>1, <2>2, <2>3, StatusSame
  <2>6. QED  BY <2>3, <2>4, <2>5
<1>2. CASE DropRetry(t)
  <2>1. /\ t \in sleeping /\ queue' = queue /\ sleeping' = sleeping \ {t}
        /\ at' = at /\ job' = job /\ posts' = posts /\ attempt' = attempt /\ call' = call
        /\ ended' = [ended EXCEPT ![t] = "dropped"]
    BY <1>2 DEF DropRetry, Woken, workerVars, callVars
  <2>2. \A u \in Tasks : ended'[u] = IF u = t THEN "dropped" ELSE ended[u]
    BY <2>1 DEF IInv, TypeInv, TypeOK
  <2>3. /\ \A u : (Queued(u)' <=> Queued(u)) /\ (Posting(u)' <=> Posting(u))
        /\ \A u \in Tasks : Live(u)' => Live(u)
        /\ ended[t] = "no" /\ Live(t) /\ ~Live(t)'
    BY <2>1, OnePlaceParts DEF Queued, Posting, Live, IInv, Apart
  <2>4. OnePlace'
    BY <2>1, <2>2, <2>3 DEF IInv, OnePlace
  <2>5. Fresh'
    <3>1. \A e \in Events, x \in Webhooks : <<e, x>> \in Tasks
      BY DEF Tasks
    <3>2. QED  BY <2>1, <2>2, <2>3, <3>1 DEF IInv, Fresh
  <2>6. PostsExact'
    BY <2>1, <2>2, <2>3 DEF IInv, PostsExact
  <2>7. Promise!Drop(t)
    <3>1. \A u \in Tasks \ {t} : ended'[u] = ended[u] /\ (Live(u)' <=> Live(u))
      BY <2>1, <2>2, <2>3 DEF Live
    <3>2. status[t] = "pending" /\ status' = [status EXCEPT ![t] = "dropped"]
      BY <2>2, <2>3, <3>1, StatusChanged
    <3>3. posts[t] > 0
      <4>1. attempt[t] \in Nat
        BY DEF IInv, TypeInv, TypeOK
      <4>2. attempt[t] > 0 /\ posts[t] = attempt[t]
        BY <2>1, <2>3, <4>1 DEF IInv, PostsExact
      <4>3. QED  BY <4>1, <4>2
    <3>4. QED  BY <2>1, <3>2, <3>3 DEF Promise!Drop
  <2>8. QED  BY <2>4, <2>5, <2>6, <2>7 DEF PromiseStep, Promise!Next
<1>3. CASE RetryOnClosed(t)
  BY <1>3, NothingMoves DEF RetryOnClosed, workerVars, callVars, history
<1>4. QED
  BY <1>1, <1>2, <1>3 DEF Wake

\* The other steps move no task.
LEMMA PlaceRest ==
  ASSUME IInv, TypeInv',
         \/ Start \/ Cancel \/ CloseQueue \/ UNCHANGED vars
         \/ \E w \in Workers : Record(w) \/ Exit(w) \/ WriteHeaders(w) \/ HeadersWritten(w)
  PROVE  OnePlace' /\ Fresh' /\ PostsExact' /\ PromiseStep
<1>0. at \in [Workers -> {"off", "idle", "exited"} \cup Busy]
  BY DEF IInv, TypeInv, TypeOK
<1>1. CASE Start
  <2>1. \A w \in Workers : at[w] = "off" /\ at'[w] = "idle"
    BY <1>1 DEF Start
  <2>2. QED  BY <1>1, <2>1, NothingMoves DEF Start, callVars, history
<1>2. CASE Cancel \/ CloseQueue
  BY <1>2, NothingMoves DEF Cancel, CloseQueue, workerVars, callVars, history
<1>3. CASE UNCHANGED vars
  BY <1>3, NothingMoves DEF vars, workerVars, callVars, history
<1>4. ASSUME NEW w \in Workers, Record(w) \/ Exit(w)
      PROVE  OnePlace' /\ Fresh' /\ PostsExact' /\ PromiseStep
  <2>1. at[w] # "posting" /\ at'[w] # "posting" /\ \A v \in Workers \ {w} : at'[v] = at[v]
    BY <1>0, <1>4 DEF Record, Exit
  <2>2. \A v \in Workers : at'[v] = "posting" <=> at[v] = "posting"
    BY <2>1
  <2>3. QED  BY <1>4, <2>2, NothingMoves DEF Record, Exit, callVars, history
<1>5. ASSUME NEW w \in Workers, WriteHeaders(w) \/ HeadersWritten(w)
      PROVE  OnePlace' /\ Fresh' /\ PostsExact' /\ PromiseStep
  BY <1>5, NothingMoves DEF WriteHeaders, HeadersWritten, workerVars, callVars, history
<1>6. QED  BY <1>1, <1>2, <1>3, <1>4, <1>5

\* The channel is closed by the one step that finds every worker gone, and
\* afterwards none comes back.
LEMMA QuietStep ==
  ASSUME IInv, [Next]_vars
  PROVE  ClosedIsQuiet'
<1>0. at \in [Workers -> {"off", "idle", "exited"} \cup Busy]
  BY DEF IInv, TypeInv, TypeOK
<1>1. CASE Start
  BY <1>1 DEF Start, IInv, ClosedIsQuiet
<1>2. CASE CloseQueue
  BY <1>2 DEF CloseQueue, WorkersGone, ClosedIsQuiet, workerVars
<1>3. CASE Cancel
  BY <1>3 DEF Cancel, IInv, ClosedIsQuiet, workerVars
<1>4. ASSUME NEW e \in Events, SendNotification(e)
      PROVE  ClosedIsQuiet'
  BY <1>4 DEF SendNotification, Call, SkipDisabled, SkipFiltered, Enqueue, Refuse, SendOnClosed,
              Return, IInv, ClosedIsQuiet, workerVars
<1>5. ASSUME NEW w \in Workers, Work(w) \/ Exit(w)
      PROVE  ClosedIsQuiet'
  <2>1. at[w] \notin {"off", "exited"} /\ closed' = closed
    BY <1>5 DEF Work, Exit, Take, WriteHeaders, HeadersWritten,
                PostSucceeds, PostFailsAndRetries, PostFailsForGood, Posted, Record
  <2>2. QED  BY <2>1 DEF IInv, ClosedIsQuiet
<1>6. ASSUME NEW t \in Tasks, Wake(t)
      PROVE  ClosedIsQuiet'
  BY <1>6 DEF Wake, Requeue, DropRetry, RetryOnClosed, IInv, ClosedIsQuiet, workerVars
<1>7. CASE UNCHANGED vars
  BY <1>7 DEF vars, IInv, ClosedIsQuiet, workerVars
<1>8. QED
  BY <1>1, <1>2, <1>3, <1>4, <1>5, <1>6, <1>7 DEF Next

\* Every step keeps the inductive invariant and is a step of Outbox.
LEMMA IStep == IInv /\ [Next]_vars => IInv' /\ PromiseStep
<1> SUFFICES ASSUME IInv, [Next]_vars PROVE IInv' /\ PromiseStep
  OBVIOUS
<1>1. TypeInv'
  BY TypeStep DEF IInv
<1>2. OnePlace' /\ Fresh' /\ PostsExact' /\ PromiseStep
  BY <1>1, PlaceSend, PlaceTake, PlacePost, PlaceWake, PlaceRest DEF Next, Work
<1>3. QED
  BY <1>1, <1>2, QuietStep DEF IInv

-----------------------------------------------------------------------------
(* The statistics and the answers of SendNotification *)

\* The counters other than ActiveWorkers, which TypeInv has.
BooksOK ==
  /\ stats.sent = stats.succeeded + stats.failed
  /\ stats.succeeded + Cardinality(Successes) = Cardinality(EndedAs("delivered"))
  /\ stats.queueFull = Cardinality(EndedAs("refused"))

\* The webhooks SendNotification has offered the event to so far.
Offered(e) == {w \in Eligible(e) : w < call[e]}

\* Its two local variables tell what became of the offers, and its answer what
\* they told at the end.
AnswersOK ==
  \A e \in Events :
    /\ sent[e] = 0 <=> \A w \in Offered(e) : ended[<<e, w>>] = "refused"
    /\ lastError[e] <=> \E w \in Offered(e) : ended[<<e, w>>] = "refused"
    /\ ret[e] # "none" => /\ call[e] = NumWebhooks + 1
                          /\ ret[e] = "error" <=> Failing(e)

\* Tasks and workers can be counted.
LEMMA CountsFinite ==
  /\ IsFiniteSet(Tasks)
  /\ \A s : IsFiniteSet(EndedAs(s)) /\ Cardinality(EndedAs(s)) \in Nat
  /\ IsFiniteSet(Successes) /\ Cardinality(Successes) \in Nat
<1>1. IsFiniteSet(Webhooks)
  BY NotifierAssumption, FS_Interval DEF Webhooks
<1>2. IsFiniteSet(Tasks)
  BY <1>1, NotifierAssumption, FS_Product DEF Tasks
<1>3. \A s : IsFiniteSet(EndedAs(s)) /\ Cardinality(EndedAs(s)) \in Nat
  BY <1>2, FS_Subset, FS_CardinalityType DEF EndedAs
<1>4. IsFiniteSet(Successes) /\ Cardinality(Successes) \in Nat
  BY NotifierAssumption, FS_Subset, FS_CardinalityType DEF Successes
<1>5. QED  BY <1>2, <1>3, <1>4

\* A task that ends is counted with those that ended in the same way.
LEMMA TaskEnds ==
  ASSUME TypeInv, NEW t \in Tasks, NEW s \in EndStates,
         ended[t] = "no", ended' = [ended EXCEPT ![t] = s]
  PROVE  /\ Cardinality(EndedAs(s)') = Cardinality(EndedAs(s)) + 1
         /\ \A r \in EndStates \ {s} : EndedAs(r)' = EndedAs(r)
         /\ ended'[t] = s /\ \A u \in Tasks \ {t} : ended'[u] = ended[u]
<1>1. ended \in [Tasks -> {"no"} \cup EndStates]
  BY DEF TypeInv, TypeOK
<1>2. ended'[t] = s /\ \A u \in Tasks \ {t} : ended'[u] = ended[u]
  BY <1>1
<1>3. EndedAs(s)' = EndedAs(s) \cup {t} /\ t \notin EndedAs(s)
  BY <1>2 DEF EndedAs, EndStates
<1>4. \A r \in EndStates \ {s} : EndedAs(r)' = EndedAs(r)
  BY <1>2 DEF EndedAs, EndStates
<1>5. QED
  BY <1>2, <1>3, <1>4, CountsFinite, FS_AddElement

\* The counters are natural numbers.
LEMMA StatsNat ==
  ASSUME TypeInv
  PROVE  /\ stats.sent \in Nat /\ stats.succeeded \in Nat /\ stats.failed \in Nat
         /\ stats.queueFull \in Nat /\ stats.active \in Nat /\ stats.filtered \in Nat
         /\ DOMAIN stats = {"sent", "succeeded", "failed", "queueFull", "filtered", "active"}
BY DEF TypeInv, TypeOK, NotifierStats

\* A step of a task that ends neither delivered nor refused, and moves no
\* worker in or out of Successes, leaves the books as they are.
LEMMA BooksSame ==
  ASSUME BooksOK, Successes' = Successes,
         EndedAs("delivered")' = EndedAs("delivered"), EndedAs("refused")' = EndedAs("refused"),
         stats'.sent = stats.sent, stats'.succeeded = stats.succeeded,
         stats'.failed = stats.failed, stats'.queueFull = stats.queueFull
  PROVE  BooksOK'
BY DEF BooksOK

\* SendNotification counts each refusal.
LEMMA BooksSend ==
  ASSUME IInv, BooksOK, NEW e \in Events, SendNotification(e)
  PROVE  BooksOK'
<1>0. TypeInv /\ Successes' = Successes
  BY DEF IInv, SendNotification, Call, SkipDisabled, SkipFiltered, Enqueue, Refuse, SendOnClosed,
         Return, workerVars, Successes
<1>1. CASE Refuse(e)
  <2>1. /\ call[e] \in Webhooks /\ <<e, call[e]>> \in Tasks
        /\ ended' = [ended EXCEPT ![<<e, call[e]>>] = "refused"]
    BY <1>1, NotifierAssumption DEF Refuse, Eligible, Webhooks, Tasks
  <2>2. ended[<<e, call[e]>>] = "no"
    BY <2>1 DEF IInv, Fresh, Webhooks
  <2>3. /\ Cardinality(EndedAs("refused")') = Cardinality(EndedAs("refused")) + 1
        /\ EndedAs("delivered")' = EndedAs("delivered")
    BY <1>0, <2>1, <2>2, TaskEnds DEF EndStates
  <2>4. /\ stats'.sent = stats.sent /\ stats'.succeeded = stats.succeeded
        /\ stats'.failed = stats.failed /\ stats'.queueFull = stats.queueFull + 1
    BY <1>0, <1>1, StatsNat DEF Refuse
  <2>5. QED  BY <1>0, <2>3, <2>4 DEF BooksOK
<1>2. CASE SkipFiltered(e)
  <2>1. /\ stats'.sent = stats.sent /\ stats'.succeeded = stats.succeeded
        /\ stats'.failed = stats.failed /\ stats'.queueFull = stats.queueFull
    BY <1>0, <1>2, StatsNat DEF SkipFiltered
  <2>2. QED  BY <1>0, <1>2, <2>1, BooksSame DEF SkipFiltered, history, EndedAs
<1>3. CASE Call(e) \/ SkipDisabled(e) \/ Enqueue(e) \/ SendOnClosed(e) \/ Return(e)
  <2>1. stats' = stats /\ ended' = ended
    BY <1>3 DEF Call, SkipDisabled, Enqueue, SendOnClosed, Return, history
  <2>2. QED  BY <1>0, <2>1, BooksSame DEF EndedAs
<1>4. QED
  BY <1>1, <1>2, <1>3 DEF SendNotification

\* A worker that posted and did not record yet stands for one delivered task.
LEMMA BooksWork ==
  ASSUME IInv, BooksOK, NEW w \in Workers, Work(w) \/ Exit(w)
  PROVE  BooksOK'
<1>0. /\ TypeInv /\ at \in [Workers -> {"off", "idle", "exited"} \cup Busy]
      /\ success \in [Workers -> BOOLEAN]
  BY DEF IInv, TypeInv, TypeOK
<1>1. CASE PostSucceeds(w) \/ PostFailsAndRetries(w) \/ PostFailsForGood(w)
  <2>0. /\ at[w] = "posting" /\ at' = [at EXCEPT ![w] = "recording"] /\ stats' = stats
        /\ job[w] \in Tasks
    BY <1>0, <1>1 DEF PostSucceeds, PostFailsAndRetries, PostFailsForGood, Posted, TypeInv, JobOK
  <2>1. ended[job[w]] = "no"
    BY <2>0 DEF IInv, OnePlace, Live, Posting
  <2>2. CASE PostSucceeds(w)
    <3>1. Successes' = Successes \cup {w} /\ w \notin Successes
      BY <1>0, <2>0, <2>2 DEF PostSucceeds, Posted, Successes
    <3>2. Cardinality(Successes') = Cardinality(Successes) + 1
      BY <3>1, CountsFinite, FS_AddElement
    <3>3. /\ Cardinality(EndedAs("delivered")') = Cardinality(EndedAs("delivered")) + 1
          /\ EndedAs("refused")' = EndedAs("refused")
      BY <1>0, <2>0, <2>1, <2>2, TaskEnds DEF PostSucceeds, EndStates
    <3>4. QED  BY <1>0, <2>0, <3>2, <3>3, CountsFinite, StatsNat DEF BooksOK
  <2>3. CASE PostFailsAndRetries(w) \/ PostFailsForGood(w)
    <3>1. Successes' = Successes
      BY <1>0, <2>0, <2>3 DEF PostFailsAndRetries, PostFailsForGood, Posted, Successes
    <3>2. EndedAs("delivered")' = EndedAs("delivered") /\ EndedAs("refused")' = EndedAs("refused")
      <4>1. CASE PostFailsAndRetries(w)
        BY <4>1 DEF PostFailsAndRetries, EndedAs
      <4>2. CASE PostFailsForGood(w)
        BY <1>0, <2>0, <2>1, <4>2, TaskEnds DEF PostFailsForGood, EndStates
      <4>3. QED  BY <2>3, <4>1, <4>2
    <3>3. QED  BY <2>0, <3>1, <3>2, BooksSame
  <2>4. QED  BY <1>1, <2>2, <2>3
<1>2. CASE Record(w)
  <2>0. /\ at[w] = "recording" /\ at' = [at EXCEPT ![w] = "idle"] /\ success' = success
        /\ EndedAs("delivered")' = EndedAs("delivered") /\ EndedAs("refused")' = EndedAs("refused")
    BY <1>2 DEF Record, history, EndedAs
  <2>1. CASE success[w]
    <3>1. Successes' = Successes \ {w} /\ w \in Successes
      BY <1>0, <2>0, <2>1 DEF Successes
    <3>2. Cardinality(Successes') = Cardinality(Successes) - 1
      BY <3>1, CountsFinite, FS_RemoveElement
    <3>3. /\ stats'.sent = stats.sent + 1 /\ stats'.succeeded = stats.succeeded + 1
          /\ stats'.failed = stats.failed /\ stats'.queueFull = stats.queueFull
      BY <1>0, <1>2, <2>1, StatsNat DEF Record
    <3>4. QED  BY <1>0, <2>0, <3>2, <3>3, CountsFinite, StatsNat DEF BooksOK
  <2>2. CASE ~success[w]
    <3>1. Successes' = Successes
      BY <1>0, <2>0, <2>2 DEF Successes
    <3>2. /\ stats'.sent = stats.sent + 1 /\ stats'.succeeded = stats.succeeded
          /\ stats'.failed = stats.failed + 1 /\ stats'.queueFull = stats.queueFull
      BY <1>0, <1>2, <2>2, StatsNat DEF Record
    <3>3. QED  BY <1>0, <2>0, <3>1, <3>2, StatsNat DEF BooksOK
  <2>3. QED  BY <2>1, <2>2
<1>3. CASE Take(w) \/ WriteHeaders(w) \/ HeadersWritten(w) \/ Exit(w)
  <2>1. Successes' = Successes
    BY <1>0, <1>3 DEF Take, WriteHeaders, HeadersWritten, Exit, workerVars, Successes
  <2>2. EndedAs("delivered")' = EndedAs("delivered") /\ EndedAs("refused")' = EndedAs("refused")
    BY <1>3 DEF Take, WriteHeaders, HeadersWritten, Exit, history, EndedAs
  <2>3. /\ stats'.sent = stats.sent /\ stats'.succeeded = stats.succeeded
        /\ stats'.failed = stats.failed /\ stats'.queueFull = stats.queueFull
    BY <1>0, <1>3, StatsNat DEF Take, Activated, WriteHeaders, HeadersWritten, Exit
  <2>4. QED  BY <2>1, <2>2, <2>3, BooksSame
<1>4. QED
  BY <1>1, <1>2, <1>3 DEF Work

\* The retry goroutines, Start and Stop count nothing.
LEMMA BooksRest ==
  ASSUME IInv, BooksOK,
         (\E t \in Tasks : Wake(t)) \/ Start \/ Cancel \/ CloseQueue \/ UNCHANGED vars
  PROVE  BooksOK'
<1>0. TypeInv /\ stats' = stats
  BY DEF IInv, Wake, Requeue, DropRetry, RetryOnClosed, Start, Cancel, CloseQueue, vars
<1>1. Successes' = Successes
  BY DEF Wake, Requeue, DropRetry, RetryOnClosed, Start, Cancel, CloseQueue, vars, workerVars, Successes
<1>2. EndedAs("delivered")' = EndedAs("delivered") /\ EndedAs("refused")' = EndedAs("refused")
  <2>1. ASSUME NEW t \in Tasks, DropRetry(t)
        PROVE  EndedAs("delivered")' = EndedAs("delivered") /\ EndedAs("refused")' = EndedAs("refused")
    <3>1. ended[t] = "no" /\ ended' = [ended EXCEPT ![t] = "dropped"]
      BY <2>1 DEF DropRetry, IInv, OnePlace, Live
    <3>2. QED  BY <1>0, <3>1, TaskEnds DEF EndStates
  <2>2. CASE ended' = ended
    BY <2>2 DEF EndedAs
  <2>3. QED
    BY <2>1, <2>2 DEF Wake, Requeue, RetryOnClosed, Start, Cancel, CloseQueue, vars, history
<1>3. QED
  BY <1>0, <1>1, <1>2, BooksSame

\* No step cooks the books.
LEMMA BooksStep == IInv /\ BooksOK /\ [Next]_vars => BooksOK'
BY BooksSend, BooksWork, BooksRest DEF Next

\* Once refused, or once not, a task offered stays so.
LEMMA VerdictsStay ==
  ASSUME AnswersOK, call' = call, ret' = ret, sent' = sent, lastError' = lastError,
         \A t \in Tasks : ended'[t] = "refused" <=> ended[t] = "refused"
  PROVE  AnswersOK'
<1>1. \A e \in Events : Offered(e)' = Offered(e) /\ (Failing(e)' <=> Failing(e))
  BY DEF Offered, Failing
<1>2. \A e \in Events : \A w \in Offered(e) : <<e, w>> \in Tasks
  BY NotifierAssumption DEF Offered, Eligible, Tasks
<1>3. QED
  BY <1>1, <1>2 DEF AnswersOK

\* SendNotification learns the fate of one offer at a time.
LEMMA AnswersSend ==
  ASSUME IInv, AnswersOK, NEW e \in Events, SendNotification(e)
  PROVE  AnswersOK'
<1>0. /\ call \in [Events -> 0..(NumWebhooks + 1)] /\ sent \in [Events -> Nat]
      /\ lastError \in [Events -> BOOLEAN] /\ ret \in [Events -> {"none", "nil", "error"}]
      /\ ended \in [Tasks -> {"no"} \cup EndStates] /\ NumWebhooks \in Nat /\ TypeInv
  BY NotifierAssumption DEF IInv, TypeInv, TypeOK
<1>1. \A f \in Events : Offered(f) \subseteq Webhooks
  BY NotifierAssumption DEF Offered, Eligible
<1>2. ASSUME NEW f \in Events, f # e
      PROVE  /\ call'[f] = call[f] /\ ret'[f] = ret[f] /\ sent'[f] = sent[f]
             /\ lastError'[f] = lastError[f]
             /\ \A w \in Webhooks : ended'[<<f, w>>] = ended[<<f, w>>]
  <2>1. /\ call'[f] = call[f] /\ ret'[f] = ret[f] /\ sent'[f] = sent[f]
        /\ lastError'[f] = lastError[f]
    BY <1>0, <1>2 DEF SendNotification, Call, SkipDisabled, SkipFiltered, Enqueue, Refuse,
                       SendOnClosed, Return, callVars
  <2>2. ended' = ended \/ ended' = [ended EXCEPT ![<<e, call[e]>>] = "refused"]
    BY DEF SendNotification, Call, SkipDisabled, SkipFiltered, Enqueue, Refuse, SendOnClosed,
           Return, history
  <2>3. \A w \in Webhooks : <<f, w>> \in Tasks /\ <<f, w>> # <<e, call[e]>>
    BY <1>2 DEF Tasks
  <2>4. \A w \in Webhooks : ended'[<<f, w>>] = ended[<<f, w>>]
    BY <1>0, <2>2, <2>3
  <2>5. QED  BY <2>1, <2>4
<1>3. ASSUME NEW f \in Events, f # e
      PROVE  /\ sent'[f] = 0 <=> \A w \in Offered(f)' : ended'[<<f, w>>] = "refused"
             /\ lastError'[f] <=> \E w \in Offered(f)' : ended'[<<f, w>>] = "refused"
             /\ ret'[f] # "none" => /\ call'[f] = NumWebhooks + 1
                                    /\ ret'[f] = "error" <=> Failing(f)'
  <2>1. /\ call'[f] = call[f] /\ ret'[f] = ret[f] /\ sent'[f] = sent[f]
        /\ lastError'[f] = lastError[f]
        /\ \A w \in Webhooks : ended'[<<f, w>>] = ended[<<f, w>>]
    BY <1>2, <1>3
  <2>2. Offered(f)' = Offered(f) /\ (Failing(f)' <=> Failing(f))
    BY <2>1 DEF Offered, Failing
  <2>3. /\ sent[f] = 0 <=> \A w \in Offered(f) : ended[<<f, w>>] = "refused"
        /\ lastError[f] <=> \E w \in Offered(f) : ended[<<f, w>>] = "refused"
        /\ ret[f] # "none" => /\ call[f] = NumWebhooks + 1
                              /\ ret[f] = "error" <=> Failing(f)
    BY DEF AnswersOK
  <2>4. \A w \in Offered(f) : ended'[<<f, w>>] = ended[<<f, w>>]
    BY <1>1, <2>1
  <2>5. QED
    BY <2>1, <2>2, <2>3, <2>4
<1>4. /\ sent'[e] = 0 <=> \A w \in Offered(e)' : ended'[<<e, w>>] = "refused"
      /\ lastError'[e] <=> \E w \in Offered(e)' : ended'[<<e, w>>] = "refused"
      /\ ret'[e] # "none" => /\ call'[e] = NumWebhooks + 1
                             /\ ret'[e] = "error" <=> Failing(e)'
  <2>0. /\ sent[e] = 0 <=> \A w \in Offered(e) : ended[<<e, w>>] = "refused"
        /\ lastError[e] <=> \E w \in Offered(e) : ended[<<e, w>>] = "refused"
        /\ ret[e] # "none" => /\ call[e] = NumWebhooks + 1
                              /\ ret[e] = "error" <=> Failing(e)
    BY DEF AnswersOK
  <2>1. CASE Call(e) \/ SkipDisabled(e) \/ SkipFiltered(e)
    <3>0. Eligible(e) \subseteq Webhooks
      BY NotifierAssumption DEF Eligible
    <3>1. call[e] = 0 \/ (call[e] \in Webhooks /\ call[e] \notin Eligible(e))
      BY <2>1, NotifierAssumption DEF Call, SkipDisabled, SkipFiltered, Eligible
    <3>2. /\ call'[e] = call[e] + 1
          /\ sent' = sent /\ lastError' = lastError /\ ret' = ret /\ ended' = ended
      BY <1>0, <2>1 DEF Call, SkipDisabled, SkipFiltered, history
    <3>3. call[e] \notin Eligible(e) /\ call[e] # NumWebhooks + 1 /\ call[e] \in Nat
      BY <1>0, <3>0, <3>1 DEF Webhooks
    <3>4. \A w \in Eligible(e) : w < call[e] + 1 <=> w < call[e]
      BY <1>0, <3>0, <3>3 DEF Webhooks
    <3>5. Offered(e)' = Offered(e)
      BY <3>2, <3>4 DEF Offered
    <3>6. ret[e] = "none"
      BY <2>0, <3>3
    <3>7. QED  BY <2>0, <3>2, <3>5, <3>6
  <2>2. CASE Enqueue(e) \/ Refuse(e)
    <3>1. /\ call[e] \in Eligible(e) /\ call'[e] = call[e] + 1 /\ ret' = ret
          /\ call[e] \in Webhooks /\ <<e, call[e]>> \in Tasks
      BY <1>0, <2>2, NotifierAssumption DEF Enqueue, Refuse, Eligible, Tasks
    <3>2. Offered(e)' = Offered(e) \cup {call[e]}
      <4>1. \A w \in Eligible(e) : w < call[e] + 1 <=> w < call[e] \/ w = call[e]
        BY <3>1, NotifierAssumption DEF Eligible, Webhooks
      <4>2. QED  BY <3>1, <4>1 DEF Offered
    <3>3. ret[e] = "none" /\ ended[<<e, call[e]>>] = "no" /\ call[e] \notin Offered(e)
      BY <1>0, <2>0, <3>1 DEF IInv, Fresh, Webhooks, Offered
    <3>4. CASE Enqueue(e)
      <4>1. sent'[e] = sent[e] + 1 /\ lastError' = lastError /\ ended' = ended
        BY <1>0, <3>4 DEF Enqueue, history
      <4>2. sent'[e] # 0
        BY <1>0, <4>1
      <4>3. QED  BY <2>0, <3>1, <3>2, <3>3, <4>1, <4>2
    <3>5. CASE Refuse(e)
      <4>1. sent' = sent /\ lastError'[e] /\ ended' = [ended EXCEPT ![<<e, call[e]>>] = "refused"]
        BY <1>0, <3>5 DEF Refuse
      <4>2. /\ ended'[<<e, call[e]>>] = "refused"
            /\ \A w \in Offered(e) : ended'[<<e, w>>] = ended[<<e, w>>]
        <5>1. \A w \in Offered(e) : <<e, w>> \in Tasks /\ <<e, w>> # <<e, call[e]>>
          BY <1>1, <3>3 DEF Tasks
        <5>2. QED  BY <1>0, <3>1, <4>1, <5>1
      <4>3. QED  BY <2>0, <3>1, <3>2, <3>3, <4>1, <4>2
    <3>6. QED  BY <2>2, <3>4, <3>5
  <2>3. CASE SendOnClosed(e)
    BY <2>0, <2>3 DEF SendOnClosed, callVars, history, Offered, Failing
  <2>4. CASE Return(e)
    <3>1. /\ call' = call /\ sent' = sent /\ lastError' = lastError /\ ended' = ended
          /\ call[e] = NumWebhooks + 1 /\ ret'[e] = IF Failing(e) THEN "error" ELSE "nil"
      BY <1>0, <2>4 DEF Return, history
    <3>2. Offered(e)' = Offered(e) /\ (Failing(e)' <=> Failing(e))
      BY <3>1 DEF Offered, Failing
    <3>3. QED  BY <2>0, <3>1, <3>2
  <2>5. QED
    BY <2>1, <2>2, <2>3, <2>4 DEF SendNotification
<1>5. QED
  BY <1>3, <1>4 DEF AnswersOK

\* Nothing that happens to the tasks afterwards changes an answer.
LEMMA AnswersStep == IInv /\ AnswersOK /\ [Next]_vars => AnswersOK'
<1> SUFFICES ASSUME IInv, AnswersOK, [Next]_vars PROVE AnswersOK'
  OBVIOUS
<1>0. ended \in [Tasks -> {"no"} \cup EndStates]
  BY DEF IInv, TypeInv, TypeOK
<1>1. ASSUME ended' = ended, UNCHANGED callVars
      PROVE  AnswersOK'
  BY <1>1, VerdictsStay DEF callVars
<1>2. ASSUME NEW t \in Tasks, NEW s \in EndStates \ {"refused"}, ended[t] = "no",
             ended' = [ended EXCEPT ![t] = s], UNCHANGED callVars
      PROVE  AnswersOK'
  <2>1. \A u \in Tasks : ended'[u] = "refused" <=> ended[u] = "refused"
    BY <1>0, <1>2
  <2>2. QED  BY <1>2, <2>1, VerdictsStay DEF callVars
<1>3. ASSUME NEW w \in Workers, PostSucceeds(w) \/ PostFailsForGood(w)
      PROVE  AnswersOK'
  <2>1. job[w] \in Tasks /\ ended[job[w]] = "no"
    BY <1>3 DEF PostSucceeds, PostFailsForGood, Posted, IInv, TypeInv, JobOK, OnePlace, Live, Posting
  <2>2. UNCHANGED callVars
    BY <1>3 DEF PostSucceeds, PostFailsForGood, Posted
  <2>3. QED
    BY <1>2, <1>3, <2>1, <2>2 DEF PostSucceeds, PostFailsForGood, EndStates
<1>4. ASSUME NEW t \in Tasks, DropRetry(t)
      PROVE  AnswersOK'
  <2>1. ended[t] = "no"
    BY <1>4 DEF DropRetry, IInv, OnePlace, Live
  <2>2. QED  BY <1>2, <1>4, <2>1 DEF DropRetry, EndStates
<1>5. ASSUME NEW w \in Workers, Take(w) \/ WriteHeaders(w) \/ HeadersWritten(w)
                                  \/ PostFailsAndRetries(w) \/ Record(w) \/ Exit(w)
      PROVE  AnswersOK'
  BY <1>1, <1>5 DEF Take, WriteHeaders, HeadersWritten, PostFailsAndRetries, Posted, Record, Exit,
                    history
<1>6. ASSUME NEW t \in Tasks, Requeue(t) \/ RetryOnClosed(t)
      PROVE  AnswersOK'
  BY <1>1, <1>6 DEF Requeue, RetryOnClosed, history
<1>7. CASE Start \/ Cancel \/ CloseQueue \/ UNCHANGED vars
  BY <1>1, <1>7 DEF Start, Cancel, CloseQueue, vars, history, callVars
<1>8. QED
  BY <1>3, <1>4, <1>5, <1>6, <1>7, AnswersSend DEF Next, Work, Wake

-----------------------------------------------------------------------------
(* The theorems *)

\* The inductive invariant: the types, one owner for each task, no trace of a
\* task before its turn, exact counts of posts, and silence after the close.
THEOREM Invariance == Spec => []IInv
BY IInit, IStep, PTL DEF Spec

\* A task has one owner, whatever the number of workers and retry timers.
THEOREM OneOwner == Spec => []OnePlace
<1>1. IInv => OnePlace
  BY DEF IInv
<1>2. QED  BY Invariance, <1>1, PTL

\* A webhook is posted an event at most RetryCount + 1 times.
THEOREM PostsBounded == Spec => []AttemptsBounded
<1>1. IInv => AttemptsBounded
  <2> SUFFICES ASSUME IInv, NEW t \in Tasks
               PROVE  posts[t] <= RetryCount[t[2]] + 1
    BY DEF AttemptsBounded
  <2>1. t[2] \in Webhooks
    BY DEF Tasks
  <2>2. attempt[t] \in Nat /\ RetryCount[t[2]] \in Nat
    BY <2>1, NotifierAssumption DEF IInv, TypeInv, TypeOK
  <2>3. QED  BY <2>2 DEF IInv, PostsExact
<1>2. QED  BY Invariance, <1>1, PTL

\* After Stop closed the channel no worker posts any more.
THEOREM QuietAfterClose == Spec => []ClosedIsQuiet
<1>1. IInv => ClosedIsQuiet
  BY DEF IInv
<1>2. QED  BY Invariance, <1>1, PTL

\* The statistics agree with what happened to the tasks, and SendNotification
\* answers with an error exactly when every webhook it asked was refused:
\* recordResult and SendNotification of notifier.go.
THEOREM EveryTaskAccounted == Spec => []TasksAccounted
<1>1. Init => BooksOK /\ AnswersOK
  <2> SUFFICES ASSUME Init PROVE BooksOK /\ AnswersOK
    OBVIOUS
  <2>1. Successes = {} /\ EndedAs("delivered") = {} /\ EndedAs("refused") = {}
    BY DEF Init, Successes, EndedAs
  <2>2. BooksOK
    <3>1. Cardinality(Successes) = 0 /\ Cardinality(EndedAs("delivered")) = 0
          /\ Cardinality(EndedAs("refused")) = 0
      BY <2>1, FS_EmptySet
    <3>2. /\ stats.sent = 0 /\ stats.succeeded = 0 /\ stats.failed = 0 /\ stats.queueFull = 0
      BY DEF Init
    <3>3. QED  BY <3>1, <3>2 DEF BooksOK
  <2>3. \A e \in Events : Offered(e) = {}
    <3>1. ASSUME NEW e \in Events, NEW w \in Eligible(e) PROVE w >= 1 /\ ~(w < call[e])
      <4>1. w \in Webhooks /\ call[e] = 0
        BY <3>1, NotifierAssumption DEF Init, Eligible
      <4>2. QED  BY <4>1, NotifierAssumption DEF Webhooks
    <3>2. QED  BY <3>1 DEF Offered
  <2>4. QED  BY <2>2, <2>3 DEF Init, AnswersOK
<1>2. IInv /\ BooksOK /\ AnswersOK => TasksAccounted
  <2> SUFFICES ASSUME IInv, BooksOK, AnswersOK PROVE TasksAccounted
    OBVIOUS
  <2>1. TypeOK /\ StatsAgree
    BY DEF IInv, TypeInv, ActiveExact, BooksOK, StatsAgree
  <2>2. ASSUME NEW e \in Events, ret[e] # "none"
        PROVE  ret[e] = "error" <=> /\ Eligible(e) # {}
                                    /\ \A w \in Eligible(e) : ended[<<e, w>>] = "refused"
    <3>1. call[e] = NumWebhooks + 1 /\ (ret[e] = "error" <=> Failing(e))
          /\ (sent[e] = 0 <=> \A w \in Offered(e) : ended[<<e, w>>] = "refused")
          /\ (lastError[e] <=> \E w \in Offered(e) : ended[<<e, w>>] = "refused")
      BY <2>2 DEF AnswersOK
    <3>2. ASSUME NEW w \in Eligible(e) PROVE w < call[e]
      <4>1. w \in Webhooks
        BY <3>2, NotifierAssumption DEF Eligible
      <4>2. QED  BY <3>1, <4>1, NotifierAssumption DEF Webhooks
    <3>3. Offered(e) = Eligible(e)
      BY <3>2 DEF Offered
    <3>4. QED  BY <3>1, <3>3 DEF Failing
  <2>3. QED  BY <2>1, <2>2 DEF TasksAccounted, ErrorMeansNothingQueued
<1>3. QED
  BY <1>1, <1>2, BooksStep, AnswersStep, IInit, IStep, PTL DEF Spec

\* The queue, the workers and the retry timers implement Outbox: the initial
\* states are its initial states, and every step is a step of it or a stutter.
THEOREM Refinement == Spec => KeepsPromise
<1>1. Init => Promise!Init
  <2> SUFFICES ASSUME Init PROVE Promise!Init
    OBVIOUS
  <2>1. \A t \in Tasks : ~Live(t) /\ ended[t] = "no"
    BY DEF Init, Live, Queued, Posting
  <2>2. status = [t \in Tasks |-> "none"]
    BY <2>1 DEF status
  <2>3. QED  BY <2>2 DEF Init, Promise!Init
<1>2. IInv /\ [Next]_vars => [Promise!Next]_(Promise!vars)
  BY IStep DEF PromiseStep
<1>3. QED
  BY Invariance, <1>1, <1>2, PTL DEF Spec, KeepsPromise, Promise!Spec
=============================================================================
