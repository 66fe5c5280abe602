----------------------------- MODULE InfraProofs -----------------------------
(***************************************************************************)
(* Proofs about the two halves of the infrastructure manager.  Webhook,    *)
(* for any number of callers and any thresholds: the types, the state of   *)
(* the breaker against its count, the bound on what a tripped breaker      *)
(* still lets through, what a nil result means, and that each call is      *)
(* counted once.  Reload, for any components, triggers, versions and any   *)
(* length of the history: one reload at a time, none missing from the      *)
(* history, and no torn configuration; ReloadInv is what the two safety    *)
(* properties of its run say, together: that a configuration is not torn   *)
(* needs that one actor at a time is inside the reload, and both need the  *)
(* types.                                                                  *)
(***************************************************************************)
EXTENDS Webhook, Reload, FiniteSetTheorems, TLAPS

-----------------------------------------------------------------------------
(* The HTTP client *)

\* Nothing ever makes the breaker half-open.
BreakerOK(b) == /\ b.state # "half-open"
                /\ b.state = "closed" => b.failures < FailureThreshold
                /\ b.state = "open" => b.failures = FailureThreshold

\* A caller between its first attempt and its verdict.
Trying == {"attempt", "answered", "failed", "wait"}

\* The attempt a caller is at; a caller that waits has one left.
AttemptOK ==
  \A c \in Callers : /\ pc[c] \in Trying => attempt[c] \in 1..Attempts
                     /\ pc[c] = "wait" => attempt[c] < Attempts

\* What a caller made of its attempts since the breaker tripped.
LateOK ==
  Hot => \A c \in Callers :
           late[c] <= IF pc[c] = "attempt" THEN attempt[c] - 1
                      ELSE IF pc[c] \in Trying THEN attempt[c] ELSE Attempts

\* A success was answered, a failure left its error, and a caller that has
\* no answer and gets an error has nothing else to report.
AnswerOK ==
  \A c \in Callers : /\ pc[c] \in {"answered", "won", "success"} => response[c] # "none"
                     /\ pc[c] \in {"failed", "wait", "lost", "failure"} => lastError[c]
                     /\ reply[c] = "nil" => pc[c] = "idle"

IInv == TypeOK /\ BreakerOK(cb) /\ AttemptOK /\ LateOK /\ AnswerOK /\ NilMeansAnswered

\* A request is tried at least once: MaxRetries retries and the first.
LEMMA AttemptsNat == Attempts \in Nat \ {0}
BY WebhookAssumption DEF Attempts

-----------------------------------------------------------------------------
(* The circuit breaker *)

\* A recorded success leaves a breaker that agrees with its count.
LEMMA SuccessLemma ==
  ASSUME NEW b \in Breakers, BreakerOK(b)
  PROVE  /\ AfterSuccess(b) \in Breakers /\ BreakerOK(AfterSuccess(b))
         /\ AfterSuccess(b).state = b.state
<1>1. CASE b.state = "closed"
  <2>1. AfterSuccess(b) = [b EXCEPT !.failures = 0]
    BY <1>1 DEF AfterSuccess
  <2>2. QED  BY <1>1, <2>1, WebhookAssumption DEF Breakers, BreakerOK
<1>2. CASE b.state = "open"
  <2>1. AfterSuccess(b) = b
    BY <1>2 DEF AfterSuccess
  <2>2. QED  BY <2>1
<1>3. b.state \in {"closed", "open"}
  BY DEF Breakers, BreakerOK
<1>4. QED  BY <1>1, <1>2, <1>3

\* So does a recorded failure, which opens it at the threshold and not before.
LEMMA FailureLemma ==
  ASSUME NEW b \in Breakers, BreakerOK(b)
  PROVE  /\ AfterFailure(b) \in Breakers /\ BreakerOK(AfterFailure(b))
         /\ b.state = "open" => AfterFailure(b) = b
<1>1. CASE b.state = "closed"
  <2>1. PICK n \in Nat : n = b.failures /\ n < FailureThreshold
    BY <1>1 DEF Breakers, BreakerOK
  <2>2. AfterFailure(b) = [b EXCEPT !.failures = n + 1,
                              !.state = IF Opens(n + 1) THEN "open" ELSE "closed"]
    BY <1>1, <2>1 DEF AfterFailure
  <2>3. CASE Opens(n + 1)
    <3>1. AfterFailure(b) = [b EXCEPT !.failures = n + 1, !.state = "open"]
      BY <2>2, <2>3
    <3>2. n + 1 \in Nat /\ n + 1 = FailureThreshold
      BY <2>1, <2>3, WebhookAssumption DEF Opens
    <3>3. PICK k \in Nat : k = n + 1
      BY <3>2
    <3>4. QED  BY <1>1, <3>1, <3>2, <3>3 DEF Breakers, BreakerOK
  <2>4. CASE ~Opens(n + 1)
    <3>1. AfterFailure(b) = [b EXCEPT !.failures = n + 1, !.state = "closed"]
      BY <2>2, <2>4
    <3>2. n + 1 \in Nat /\ n + 1 < FailureThreshold
      BY <2>1, <2>4, WebhookAssumption DEF Opens
    <3>3. PICK k \in Nat : k = n + 1
      BY <3>2
    <3>4. QED  BY <1>1, <3>1, <3>2, <3>3 DEF Breakers, BreakerOK
  <2>5. QED  BY <2>3, <2>4
<1>2. CASE b.state = "open"
  <2>1. AfterFailure(b) = b
    BY <1>2 DEF AfterFailure
  <2>2. QED  BY <1>2, <2>1
<1>3. b.state \in {"closed", "open"}
  BY DEF Breakers, BreakerOK
<1>4. QED  BY <1>1, <1>2, <1>3

-----------------------------------------------------------------------------
(* The invariant *)

\* The counters are numbers, and one more of any of them keeps the type.
LEMMA StatsCounted ==
  ASSUME NEW s \in InfraStats
  PROVE  /\ [s EXCEPT !.sent = @ + 1] \in InfraStats
         /\ [s EXCEPT !.total = @ + 1] \in InfraStats
         /\ [s EXCEPT !.successful = @ + 1] \in InfraStats
         /\ [s EXCEPT !.unsuccessful = @ + 1] \in InfraStats
         /\ [s EXCEPT !.succeeded = @ + 1] \in InfraStats
         /\ [s EXCEPT !.failed = @ + 1] \in InfraStats
BY DEF InfraStats

\* A closed breaker and idle callers satisfy the inductive invariant.
LEMMA IInit == Init => IInv
<1> SUFFICES ASSUME Init PROVE IInv
  OBVIOUS
<1>1. TypeOK
  <2>1. 0 \in 0..Attempts /\ 0 \in 0..MaxCalls
    BY WebhookAssumption, AttemptsNat
  <2>2. cb \in Breakers /\ stats \in InfraStats
    BY DEF Init, Breakers, InfraStats
  <2>3. QED  BY <2>1, <2>2 DEF Init, TypeOK
<1>2. BreakerOK(cb)
  BY WebhookAssumption DEF Init, BreakerOK
<1>3. AttemptOK /\ LateOK /\ AnswerOK /\ NilMeansAnswered
  BY DEF Init, AttemptOK, LateOK, AnswerOK, NilMeansAnswered, Trying, Hot
<1>4. QED  BY <1>1, <1>2, <1>3 DEF IInv

\* Beginning and ending a call.
LEMMA CallStep ==
  ASSUME IInv, NEW c \in Callers,
         Begin(c) \/ EnterRetry(c) \/ Admit(c) \/ Reject(c) \/ RetrySucceeds(c) \/ RetryFails(c)
           \/ Finish(c)
  PROVE  IInv'
<1>1. TypeOK'
  <2>1. CASE Begin(c)
    <3>1. calls[c] + 1 \in 0..MaxCalls
      BY <2>1, WebhookAssumption DEF Begin, IInv, TypeOK
    <3>2. stats' \in InfraStats
      BY <2>1, StatsCounted DEF Begin, IInv, TypeOK
    <3>3. QED  BY <2>1, <3>1, <3>2 DEF Begin, IInv, TypeOK, InCall, InRetry
  <2>2. CASE Admit(c)
    <3>1. 1 \in 0..Attempts
      BY AttemptsNat
    <3>2. QED  BY <2>2, <3>1 DEF Admit, IInv, TypeOK, InCall, InRetry
  <2>3. CASE Reject(c)
    BY <2>3 DEF Reject, IInv, TypeOK, InCall, InRetry
  <2>4. CASE Finish(c)
    <3>1. stats' \in InfraStats
      BY <2>4, StatsCounted DEF Finish, IInv, TypeOK
    <3>2. QED  BY <2>4, <3>1 DEF Finish, IInv, TypeOK
  <2>5. CASE EnterRetry(c)
    <3>1. 0 \in 0..Attempts
      BY AttemptsNat
    <3>2. stats' \in InfraStats
      BY <2>5, StatsCounted DEF EnterRetry, IInv, TypeOK
    <3>3. pc' \in [Callers -> {"idle"} \cup InCall] /\ attempt' \in [Callers -> 0..Attempts]
      BY <2>5, <3>1 DEF EnterRetry, IInv, TypeOK, InCall, InRetry
    <3>4. response' \in [Callers -> {"none", "2xx", "other"}] /\ lastError' \in [Callers -> BOOLEAN]
      BY <2>5 DEF EnterRetry, IInv, TypeOK
    <3>5. QED  BY <2>5, <3>2, <3>3, <3>4 DEF EnterRetry, IInv, TypeOK
  <2>6. CASE RetrySucceeds(c) \/ RetryFails(c)
    <3>1. stats' \in InfraStats
      BY <2>6, StatsCounted DEF RetrySucceeds, RetryFails, IInv, TypeOK
    <3>2. QED  BY <2>6, <3>1 DEF RetrySucceeds, RetryFails, IInv, TypeOK, InCall, InRetry
  <2>7. QED  BY <2>1, <2>2, <2>3, <2>4, <2>5, <2>6
<1>2. BreakerOK(cb)'
  BY DEF Begin, EnterRetry, Admit, Reject, RetrySucceeds, RetryFails, Finish, IInv
<1>3. AttemptOK'
  BY AttemptsNat DEF Begin, EnterRetry, Admit, Reject, RetrySucceeds, RetryFails, Finish,
                      IInv, TypeOK, AttemptOK, Trying
<1>4. LateOK'
  <2> SUFFICES ASSUME Hot', NEW d \in Callers
               PROVE  late'[d] <= (IF pc[d] = "attempt" THEN attempt[d] - 1
                                   ELSE IF pc[d] \in Trying THEN attempt[d] ELSE Attempts)'
    BY DEF LateOK
  <2>1. Hot /\ late' = late /\ ~Admit(c)
    BY DEF Begin, EnterRetry, Admit, Reject, RetrySucceeds, RetryFails, Finish, Hot, CanExecute
  <2>2. CASE d = c
    <3>1. late[c] <= Attempts
      BY <2>1, AttemptsNat DEF IInv, LateOK, AttemptOK, TypeOK, Trying,
             Begin, EnterRetry, Reject, RetrySucceeds, RetryFails, Finish
    <3>2. pc'[c] \notin Trying
      BY <2>1 DEF Begin, EnterRetry, Reject, RetrySucceeds, RetryFails, Finish, IInv, TypeOK, Trying
    <3>3. QED  BY <2>1, <2>2, <3>1, <3>2 DEF Trying
  <2>3. CASE d # c
    <3>1. pc'[d] = pc[d] /\ attempt'[d] = attempt[d]
      BY <2>1, <2>3 DEF Begin, EnterRetry, Reject, RetrySucceeds, RetryFails, Finish, IInv, TypeOK
    <3>2. QED  BY <2>1, <3>1 DEF IInv, LateOK
  <2>4. QED  BY <2>2, <2>3
<1>5. AnswerOK' /\ NilMeansAnswered'
  BY DEF Begin, EnterRetry, Admit, Reject, RetrySucceeds, RetryFails, Finish,
         ReturnsError, IInv, TypeOK, AnswerOK, NilMeansAnswered, InCall, InRetry
<1>6. QED
  BY <1>1, <1>2, <1>3, <1>4, <1>5 DEF IInv

\* One attempt and the wait between two.
LEMMA AttemptStep ==
  ASSUME IInv, NEW c \in Callers, Answered(c) \/ Errs(c) \/ NextAttempt(c) \/ GiveUp(c)
  PROVE  IInv'
<1>0. /\ pc \in [Callers -> {"idle"} \cup InCall] /\ attempt \in [Callers -> 0..Attempts]
      /\ late \in [Callers -> Nat]
  BY DEF IInv, TypeOK
<1>1. TypeOK'
  <2>1. CASE Answered(c)
    BY <2>1 DEF Answered, Tried, IInv, TypeOK, InCall, InRetry
  <2>2. CASE Errs(c)
    BY <2>2 DEF Errs, Tried, IInv, TypeOK, InCall, InRetry
  <2>3. CASE NextAttempt(c)
    <3>1. attempt[c] + 1 \in 0..Attempts
      BY <1>0, <2>3, AttemptsNat DEF NextAttempt, IInv, AttemptOK
    <3>2. QED  BY <2>3, <3>1 DEF NextAttempt, IInv, TypeOK, InCall, InRetry
  <2>4. CASE GiveUp(c)
    BY <2>4 DEF GiveUp, IInv, TypeOK, InCall, InRetry
  <2>5. QED  BY <2>1, <2>2, <2>3, <2>4
<1>2. cb' = cb /\ cooled' = cooled
  BY DEF Answered, Errs, NextAttempt, GiveUp
<1>3. AttemptOK'
  BY <1>0, AttemptsNat DEF Answered, Errs, NextAttempt, GiveUp, IInv, AttemptOK, Trying, InCall, InRetry
<1>4. LateOK'
  <2> SUFFICES ASSUME Hot', NEW d \in Callers
               PROVE  late'[d] <= (IF pc[d] = "attempt" THEN attempt[d] - 1
                                   ELSE IF pc[d] \in Trying THEN attempt[d] ELSE Attempts)'
    BY DEF LateOK
  <2>1. Hot
    BY <1>2 DEF Hot
  <2>2. CASE d = c
    <3>1. CASE Answered(c) \/ Errs(c)
      <4>1. /\ pc[c] = "attempt" /\ pc'[c] \in {"answered", "failed"}
            /\ attempt'[c] = attempt[c] /\ late'[c] = late[c] + 1
        BY <1>0, <2>1, <3>1 DEF Answered, Errs, Tried
      <4>2. late[c] <= attempt[c] - 1
        BY <2>1, <4>1 DEF IInv, LateOK
      <4>3. late'[c] <= attempt'[c]
        BY <1>0, <4>1, <4>2
      <4>4. QED  BY <2>2, <4>1, <4>3 DEF Trying
    <3>2. CASE NextAttempt(c)
      <4>1. /\ pc[c] = "wait" /\ pc'[c] = "attempt"
            /\ attempt'[c] = attempt[c] + 1 /\ late'[c] = late[c]
        BY <1>0, <3>2 DEF NextAttempt
      <4>2. late[c] <= attempt[c]
        BY <2>1, <4>1 DEF IInv, LateOK, Trying
      <4>3. late'[c] <= attempt'[c] - 1
        BY <1>0, <4>1, <4>2
      <4>4. QED  BY <2>2, <4>1, <4>3
    <3>3. CASE GiveUp(c)
      <4>1. /\ pc[c] = "wait" /\ pc'[c] = "lost"
            /\ attempt'[c] = attempt[c] /\ late'[c] = late[c]
        BY <1>0, <3>3 DEF GiveUp
      <4>2. late[c] <= attempt[c]
        BY <2>1, <4>1 DEF IInv, LateOK, Trying
      <4>3. late'[c] <= Attempts
        BY <1>0, <4>1, <4>2, AttemptsNat
      <4>4. QED  BY <2>2, <4>1, <4>3 DEF Trying
    <3>4. QED  BY <3>1, <3>2, <3>3
  <2>3. CASE d # c
    <3>1. pc'[d] = pc[d] /\ attempt'[d] = attempt[d] /\ late'[d] = late[d]
      BY <1>0, <2>3 DEF Answered, Errs, NextAttempt, GiveUp, Tried
    <3>2. QED  BY <2>1, <3>1 DEF IInv, LateOK
  <2>4. QED  BY <2>2, <2>3
<1>5. AnswerOK' /\ NilMeansAnswered'
  BY DEF Answered, Errs, NextAttempt, GiveUp, IInv, TypeOK, AnswerOK, NilMeansAnswered, InCall, InRetry
<1>6. QED
  BY <1>1, <1>2, <1>3, <1>4, <1>5 DEF IInv

\* A success is reported to the breaker.
LEMMA SuccessStep ==
  ASSUME IInv, NEW c \in Callers, RecordSuccess(c)
  PROVE  IInv'
<1>1. /\ cb' \in Breakers /\ BreakerOK(cb)' /\ (Hot' => Hot)
  BY SuccessLemma DEF RecordSuccess, IInv, TypeOK, Hot, BreakerOK
<1>2. TypeOK' /\ AttemptOK' /\ AnswerOK' /\ NilMeansAnswered'
  BY <1>1 DEF RecordSuccess, IInv, TypeOK, AttemptOK, AnswerOK, NilMeansAnswered, InCall, InRetry, Trying
<1>3. LateOK'
  <2> SUFFICES ASSUME Hot', NEW d \in Callers
               PROVE  late'[d] <= (IF pc[d] = "attempt" THEN attempt[d] - 1
                                   ELSE IF pc[d] \in Trying THEN attempt[d] ELSE Attempts)'
    BY DEF LateOK
  <2>1. Hot /\ late' = late /\ attempt' = attempt
    BY <1>1 DEF RecordSuccess
  <2>2. CASE d = c
    <3>1. late[c] <= attempt[c] /\ pc'[c] = "won"
      BY <2>1 DEF RecordSuccess, IInv, TypeOK, LateOK, Trying
    <3>2. attempt[c] \in 0..Attempts /\ late[c] \in Nat
      BY DEF IInv, TypeOK
    <3>3. late[c] <= Attempts
      BY <3>1, <3>2, AttemptsNat
    <3>4. QED  BY <2>1, <2>2, <3>1, <3>3 DEF Trying
  <2>3. CASE d # c
    <3>1. pc'[d] = pc[d]
      BY <2>3 DEF RecordSuccess, IInv, TypeOK
    <3>2. QED  BY <2>1, <3>1 DEF IInv, LateOK
  <2>4. QED  BY <2>2, <2>3
<1>4. QED  BY <1>1, <1>2, <1>3 DEF IInv

\* A failure is: only the one that trips the breaker begins a hot period.
LEMMA FailureStep ==
  ASSUME IInv, NEW c \in Callers, RecordFailure(c)
  PROVE  IInv'
<1>0. /\ pc \in [Callers -> {"idle"} \cup InCall] /\ attempt \in [Callers -> 0..Attempts]
      /\ late \in [Callers -> Nat]
  BY DEF IInv, TypeOK
<1>1. cb' \in Breakers /\ BreakerOK(cb)' /\ (cb.state = "open" => cb' = cb)
  BY FailureLemma DEF RecordFailure, IInv, TypeOK, BreakerOK
<1>2. /\ pc[c] = "failed" /\ attempt' = attempt
      /\ pc'[c] = IF MoreAttempts(c) THEN "wait" ELSE "lost"
      /\ \A d \in Callers \ {c} : pc'[d] = pc[d]
  BY <1>0 DEF RecordFailure
<1>3. TypeOK'
  <2>1. late' \in [Callers -> Nat] /\ cooled' \in BOOLEAN
    <3>1. CASE cb.state # "open" /\ cb'.state = "open"
      <4>1. late' = [d \in Callers |-> 0] /\ cooled' = FALSE
        BY <3>1 DEF RecordFailure
      <4>2. QED  BY <4>1
    <3>2. CASE ~(cb.state # "open" /\ cb'.state = "open")
      <4>1. late' = late /\ cooled' = cooled
        BY <3>2 DEF RecordFailure
      <4>2. QED  BY <1>0, <4>1 DEF IInv, TypeOK
    <3>3. QED  BY <3>1, <3>2
  <2>2. QED  BY <1>1, <2>1 DEF RecordFailure, IInv, TypeOK, InCall, InRetry
<1>4. AttemptOK'
  BY <1>0, <1>2 DEF IInv, AttemptOK, Trying, MoreAttempts
<1>5. LateOK'
  <2> SUFFICES ASSUME Hot', NEW d \in Callers
               PROVE  late'[d] <= (IF pc[d] = "attempt" THEN attempt[d] - 1
                                   ELSE IF pc[d] \in Trying THEN attempt[d] ELSE Attempts)'
    BY DEF LateOK
  <2>1. attempt[d] \in Int /\ (pc'[d] \in Trying => attempt[d] \in 1..Attempts)
    BY <1>0, <1>2, <1>4, AttemptsNat DEF AttemptOK
  <2>2. CASE cb.state # "open" /\ cb'.state = "open"
    <3>1. late'[d] = 0
      BY <2>2 DEF RecordFailure
    <3>2. QED  BY <1>2, <2>1, <3>1, AttemptsNat DEF Trying
  <2>3. CASE ~(cb.state # "open" /\ cb'.state = "open")
    <3>1. Hot /\ late' = late
      BY <2>3 DEF RecordFailure, Hot
    <3>2. CASE d = c
      <4>1. late[c] <= attempt[c]
        BY <1>2, <3>1 DEF IInv, LateOK, Trying
      <4>2. late[c] <= Attempts
        BY <1>0, <4>1, AttemptsNat
      <4>3. QED  BY <1>2, <3>1, <3>2, <4>1, <4>2 DEF Trying
    <3>3. CASE d # c
      BY <1>2, <3>1, <3>3 DEF IInv, LateOK
    <3>4. QED  BY <3>2, <3>3
  <2>4. QED  BY <2>2, <2>3
<1>6. AnswerOK' /\ NilMeansAnswered'
  BY DEF RecordFailure, IInv, TypeOK, AnswerOK, NilMeansAnswered, InCall, InRetry
<1>7. QED  BY <1>1, <1>3, <1>4, <1>5, <1>6 DEF IInv

\* Every step of a caller, and the passing of time, keeps it.
LEMMA IStep == IInv /\ [Next]_vars => IInv'
<1> SUFFICES ASSUME IInv, [Next]_vars PROVE IInv'
  OBVIOUS
<1>1. CASE CoolDown
  BY <1>1 DEF CoolDown, IInv, TypeOK, BreakerOK, AttemptOK, LateOK, AnswerOK, NilMeansAnswered, Hot
<1>2. ASSUME NEW c \in Callers, Expire(c)
      PROVE  IInv'
  BY <1>2 DEF Expire, IInv, TypeOK, BreakerOK, AttemptOK, LateOK, AnswerOK, NilMeansAnswered, Hot
<1>3. CASE UNCHANGED vars
  BY <1>3 DEF vars, IInv, TypeOK, BreakerOK, AttemptOK, LateOK, AnswerOK, NilMeansAnswered, Hot
<1>4. QED
  BY <1>1, <1>2, <1>3, CallStep, AttemptStep, SuccessStep, FailureStep DEF Next, Run

-----------------------------------------------------------------------------
(* The statistics *)

\* The sets that are counted are finite, and how one caller changes their size.
LEMMA Sizes ==
  /\ \A S \in {Running, Entering, Succeeding, Failing} : Cardinality(S) \in Nat
  /\ \A S \in {Running, Entering, Succeeding, Failing}, c \in Callers :
       /\ c \notin S => Cardinality(S \cup {c}) = Cardinality(S) + 1
       /\ c \in S => Cardinality(S \ {c}) = Cardinality(S) - 1
<1>1. ASSUME NEW S \in SUBSET Callers, NEW c \in Callers
      PROVE  /\ Cardinality(S) \in Nat
             /\ c \notin S => Cardinality(S \cup {c}) = Cardinality(S) + 1
             /\ c \in S => Cardinality(S \ {c}) = Cardinality(S) - 1
  <2>1. IsFiniteSet(S)
    BY WebhookAssumption, FS_Subset
  <2>2. QED  BY <2>1, FS_CardinalityType, FS_AddElement, FS_RemoveElement
<1>2. /\ Running \in SUBSET Callers /\ Entering \in SUBSET Callers
      /\ Succeeding \in SUBSET Callers /\ Failing \in SUBSET Callers
  BY DEF Running, Entering, Succeeding, Failing
<1>3. \A S \in SUBSET Callers : Cardinality(S) \in Nat
  BY WebhookAssumption, FS_Subset, FS_CardinalityType
<1>4. QED  BY <1>1, <1>2, <1>3

\* The steps of a call that take no lock of the statistics.
Unlocked(c) == Admit(c) \/ Reject(c) \/ Answered(c) \/ Errs(c) \/ RecordSuccess(c)
                 \/ RecordFailure(c) \/ NextAttempt(c) \/ GiveUp(c)

\* Each critical section moves one counter together with the callers that are
\* between it and the next one; a request is counted as succeeded iff Retry
\* was, since a success has been answered.
LEMMA CountStep == IInv /\ CountedOnce /\ [Next]_vars => CountedOnce'
<1> SUFFICES ASSUME IInv, CountedOnce, [Next]_vars PROVE CountedOnce'
  OBVIOUS
<1>0. /\ pc \in [Callers -> {"idle"} \cup InCall] /\ stats \in InfraStats
      /\ stats.sent \in Nat /\ stats.total \in Nat /\ stats.succeeded \in Nat
      /\ stats.failed \in Nat /\ stats.successful \in Nat /\ stats.unsuccessful \in Nat
  BY DEF IInv, TypeOK, InfraStats
<1>1. ASSUME NEW c \in Callers, Begin(c) PROVE CountedOnce'
  <2>1. pc[c] = "idle" /\ pc' = [pc EXCEPT ![c] = "sent"] /\ stats' = [stats EXCEPT !.sent = @ + 1]
    BY <1>1 DEF Begin
  <2>2. /\ stats'.sent = stats.sent + 1 /\ stats'.total = stats.total /\ stats'.succeeded = stats.succeeded
        /\ stats'.failed = stats.failed /\ stats'.successful = stats.successful
        /\ stats'.unsuccessful = stats.unsuccessful
    BY <1>0, <2>1 DEF InfraStats
  <2>3. /\ c \notin Running /\ Running' = Running \cup {c}
        /\ c \notin Entering /\ Entering' = Entering \cup {c}
        /\ Succeeding' = Succeeding
        /\ Failing' = Failing
    BY <1>0, <2>1 DEF Running, Entering, Succeeding, Failing
  <2>4. /\ Cardinality(Running') = Cardinality(Running) + 1
        /\ Cardinality(Entering') = Cardinality(Entering) + 1
        /\ Cardinality(Succeeding') = Cardinality(Succeeding)
        /\ Cardinality(Failing') = Cardinality(Failing)
    BY <2>3, Sizes
  <2>5. QED  BY <1>0, <2>2, <2>4, Sizes DEF CountedOnce
<1>2. ASSUME NEW c \in Callers, EnterRetry(c) PROVE CountedOnce'
  <2>1. pc[c] = "sent" /\ pc' = [pc EXCEPT ![c] = "check"] /\ stats' = [stats EXCEPT !.total = @ + 1]
    BY <1>2 DEF EnterRetry
  <2>2. /\ stats'.sent = stats.sent /\ stats'.total = stats.total + 1 /\ stats'.succeeded = stats.succeeded
        /\ stats'.failed = stats.failed /\ stats'.successful = stats.successful
        /\ stats'.unsuccessful = stats.unsuccessful
    BY <1>0, <2>1 DEF InfraStats
  <2>3. /\ Running' = Running
        /\ c \in Entering /\ Entering' = Entering \ {c}
        /\ Succeeding' = Succeeding
        /\ Failing' = Failing
    BY <1>0, <2>1 DEF Running, Entering, Succeeding, Failing
  <2>4. /\ Cardinality(Running') = Cardinality(Running)
        /\ Cardinality(Entering') = Cardinality(Entering) - 1
        /\ Cardinality(Succeeding') = Cardinality(Succeeding)
        /\ Cardinality(Failing') = Cardinality(Failing)
    BY <2>3, Sizes
  <2>5. QED  BY <1>0, <2>2, <2>4, Sizes DEF CountedOnce
<1>3. ASSUME NEW c \in Callers, RetrySucceeds(c) PROVE CountedOnce'
  <2>1. pc[c] = "won" /\ pc' = [pc EXCEPT ![c] = "success"] /\ stats' = [stats EXCEPT !.successful = @ + 1]
    BY <1>3 DEF RetrySucceeds
  <2>2. /\ stats'.sent = stats.sent /\ stats'.total = stats.total /\ stats'.succeeded = stats.succeeded
        /\ stats'.failed = stats.failed /\ stats'.successful = stats.successful + 1
        /\ stats'.unsuccessful = stats.unsuccessful
    BY <1>0, <2>1 DEF InfraStats
  <2>3. /\ Running' = Running
        /\ Entering' = Entering
        /\ c \notin Succeeding /\ Succeeding' = Succeeding \cup {c}
        /\ Failing' = Failing
    BY <1>0, <2>1 DEF Running, Entering, Succeeding, Failing
  <2>4. /\ Cardinality(Running') = Cardinality(Running)
        /\ Cardinality(Entering') = Cardinality(Entering)
        /\ Cardinality(Succeeding') = Cardinality(Succeeding) + 1
        /\ Cardinality(Failing') = Cardinality(Failing)
    BY <2>3, Sizes
  <2>5. QED  BY <1>0, <2>2, <2>4, Sizes DEF CountedOnce
<1>4. ASSUME NEW c \in Callers, RetryFails(c) PROVE CountedOnce'
  <2>1. pc[c] = "lost" /\ pc' = [pc EXCEPT ![c] = "failure"] /\ stats' = [stats EXCEPT !.unsuccessful = @ + 1]
    BY <1>4 DEF RetryFails
  <2>2. /\ stats'.sent = stats.sent /\ stats'.total = stats.total /\ stats'.succeeded = stats.succeeded
        /\ stats'.failed = stats.failed /\ stats'.successful = stats.successful
        /\ stats'.unsuccessful = stats.unsuccessful + 1
    BY <1>0, <2>1 DEF InfraStats
  <2>3. /\ Running' = Running
        /\ Entering' = Entering
        /\ Succeeding' = Succeeding
        /\ c \notin Failing /\ Failing' = Failing \cup {c}
    BY <1>0, <2>1 DEF Running, Entering, Succeeding, Failing
  <2>4. /\ Cardinality(Running') = Cardinality(Running)
        /\ Cardinality(Entering') = Cardinality(Entering)
        /\ Cardinality(Succeeding') = Cardinality(Succeeding)
        /\ Cardinality(Failing') = Cardinality(Failing) + 1
    BY <2>3, Sizes
  <2>5. QED  BY <1>0, <2>2, <2>4, Sizes DEF CountedOnce
<1>5. ASSUME NEW c \in Callers, Finish(c) PROVE CountedOnce'
  <2>1. Succeeded(c) <=> pc[c] = "success"
    BY DEF Succeeded, IInv, AnswerOK
  <2>2. CASE pc[c] = "success"
    <3>1. pc[c] = "success" /\ pc' = [pc EXCEPT ![c] = "idle"] /\ stats' = [stats EXCEPT !.succeeded = @ + 1]
      BY <1>5, <2>1, <2>2 DEF Finish
    <3>2. /\ stats'.sent = stats.sent /\ stats'.total = stats.total /\ stats'.succeeded = stats.succeeded + 1
          /\ stats'.failed = stats.failed /\ stats'.successful = stats.successful
          /\ stats'.unsuccessful = stats.unsuccessful
      BY <1>0, <3>1 DEF InfraStats
    <3>3. /\ c \in Running /\ Running' = Running \ {c}
          /\ Entering' = Entering
          /\ c \in Succeeding /\ Succeeding' = Succeeding \ {c}
          /\ Failing' = Failing
      BY <1>0, <3>1 DEF Running, Entering, Succeeding, Failing
    <3>4. /\ Cardinality(Running') = Cardinality(Running) - 1
          /\ Cardinality(Entering') = Cardinality(Entering)
          /\ Cardinality(Succeeding') = Cardinality(Succeeding) - 1
          /\ Cardinality(Failing') = Cardinality(Failing)
      BY <3>3, Sizes
    <3>5. QED  BY <1>0, <3>2, <3>4, Sizes DEF CountedOnce
  <2>3. CASE pc[c] = "failure"
    <3>1. pc[c] = "failure" /\ pc' = [pc EXCEPT ![c] = "idle"] /\ stats' = [stats EXCEPT !.failed = @ + 1]
      BY <1>5, <2>1, <2>3 DEF Finish
    <3>2. /\ stats'.sent = stats.sent /\ stats'.total = stats.total /\ stats'.succeeded = stats.succeeded
          /\ stats'.failed = stats.failed + 1 /\ stats'.successful = stats.successful
          /\ stats'.unsuccessful = stats.unsuccessful
      BY <1>0, <3>1 DEF InfraStats
    <3>3. /\ c \in Running /\ Running' = Running \ {c}
          /\ Entering' = Entering
          /\ Succeeding' = Succeeding
          /\ c \in Failing /\ Failing' = Failing \ {c}
      BY <1>0, <3>1 DEF Running, Entering, Succeeding, Failing
    <3>4. /\ Cardinality(Running') = Cardinality(Running) - 1
          /\ Cardinality(Entering') = Cardinality(Entering)
          /\ Cardinality(Succeeding') = Cardinality(Succeeding)
          /\ Cardinality(Failing') = Cardinality(Failing) - 1
      BY <3>3, Sizes
    <3>5. QED  BY <1>0, <3>2, <3>4, Sizes DEF CountedOnce
  <2>4. QED  BY <1>5, <2>2, <2>3 DEF Finish
<1>6. ASSUME NEW c \in Callers, Unlocked(c) PROVE CountedOnce'
  <2>1. stats' = stats
    BY <1>6 DEF Unlocked, Admit, Reject, Answered, Errs, RecordSuccess, RecordFailure, NextAttempt, GiveUp
  <2>2. Running' = Running /\ Entering' = Entering /\ Succeeding' = Succeeding /\ Failing' = Failing
    BY <1>0, <1>6 DEF Unlocked, Admit, Reject, Answered, Errs, RecordSuccess, RecordFailure, NextAttempt,
                      GiveUp, Running, Entering, Succeeding, Failing
  <2>3. QED  BY <2>1, <2>2 DEF CountedOnce
<1>7. ASSUME pc' = pc, stats' = stats PROVE CountedOnce'
  BY <1>7 DEF CountedOnce, Running, Entering, Succeeding, Failing
<1>8. QED
  BY <1>1, <1>2, <1>3, <1>4, <1>5, <1>6, <1>7 DEF Next, Run, Unlocked, Expire, CoolDown, vars

-----------------------------------------------------------------------------
(* The theorems *)

\* The inductive invariant: the breaker agrees with its failure count and is
\* never half-open, and every caller's attempts and answer agree with its place.
THEOREM Invariance == Spec => []IInv
BY IInit, IStep, PTL DEF Spec

\* Retry never counts past MaxAttempts, and SendWebhook and Retry of infra.go
\* count every call once when it begins and in one verdict when it ends: at any
\* moment at which GetStats may read, the statistics of the requests and of the
\* retries differ by the callers that have taken the one lock and not the next.
THEOREM EveryCallCounted == Spec => []CallsAccounted
<1>1. Init => CountedOnce
  <2> SUFFICES ASSUME Init PROVE CountedOnce
    OBVIOUS
  <2>1. Running = {} /\ Entering = {} /\ Succeeding = {} /\ Failing = {}
    BY DEF Init, Running, Entering, Succeeding, Failing
  <2>2. QED  BY <2>1, FS_EmptySet DEF Init, CountedOnce
<1>2. IInv /\ CountedOnce => CallsAccounted
  BY DEF IInv, CallsAccounted
<1>3. QED
  BY <1>1, <1>2, CountStep, IStep, IInit, PTL DEF Spec

\* The breaker is open exactly from the FailureThreshold-th failure on.
THEOREM ThresholdExact == Spec => []OpensAtThreshold
<1>1. IInv => OpensAtThreshold
  BY DEF IInv, BreakerOK, OpensAtThreshold
<1>2. QED  BY Invariance, <1>1, PTL

\* A tripped breaker lets each caller make at most MaxAttempts requests more.
THEOREM HotBounded == Spec => []HotAttemptsBounded
<1>1. IInv => HotAttemptsBounded
  <2> SUFFICES ASSUME IInv, Hot, NEW c \in Callers
               PROVE  late[c] <= Attempts
    BY DEF HotAttemptsBounded
  <2>1. attempt[c] \in 0..Attempts /\ late[c] \in Nat
    BY DEF IInv, TypeOK
  <2>2. QED  BY <2>1, AttemptsNat DEF IInv, LateOK
<1>2. QED  BY Invariance, <1>1, PTL

\* A caller told nil has an answer.
THEOREM NilIsAnswered == Spec => []NilMeansAnswered
<1>1. IInv => NilMeansAnswered
  BY DEF IInv
<1>2. QED  BY Invariance, <1>1, PTL
-----------------------------------------------------------------------------
(* Hot reload *)

ReloadInv == ReloadTypeOK /\ OneReload /\ HistoryComplete /\ NoTornConfiguration

\* StartHotReload begins with the first version everywhere and nobody inside.
LEMMA ReloadInitHolds == ReloadInit => ReloadInv
<1> SUFFICES ASSUME ReloadInit PROVE ReloadInv
  OBVIOUS
<1>1. 1 \in Versions /\ Watcher \in Actors
  BY ReloadAssumption DEF Versions, Actors
<1>2. ReloadTypeOK
  <2>1. events \in Seq(BOOLEAN)
    BY DEF ReloadInit
  <2>2. reloadStats \in [total: Nat, ok: Nat, failed: Nat]
    BY DEF ReloadInit
  <2>3. at \in [Actors -> {"off", "idle", "called", "gone"} \cup Inside]
    BY DEF ReloadInit
  <2>4. QED  BY <1>1, <2>1, <2>2, <2>3 DEF ReloadInit, ReloadTypeOK
<1>3. \A a \in Actors : at[a] \notin Inside
  BY DEF ReloadInit, Inside
<1>4. OneReload
  BY <1>3 DEF ReloadInit, OneReload
<1>5. HistoryComplete
  BY ReloadAssumption DEF ReloadInit, HistoryComplete
<1>6. Iterating = {}
  BY <1>3 DEF Iterating, Inside
<1>7. NoTornConfiguration
  BY <1>6 DEF ReloadInit, NoTornConfiguration
<1>8. QED  BY <1>2, <1>4, <1>5, <1>7 DEF ReloadInv

-----------------------------------------------------------------------------
(* Where the actors are *)

\* An actor that neither enters nor leaves the reload disturbs nobody: its
\* place may change on either side of the flag.
LEMMA StaysOneReload ==
  ASSUME ReloadTypeOK, OneReload, NEW a \in Actors, NEW place, Goes(a, place),
         place \in Inside <=> at[a] \in Inside, inProgress' = inProgress
  PROVE  OneReload'
<1>1. at'[a] = place /\ \A b \in Actors \ {a} : at'[b] = at[b]
  BY DEF ReloadTypeOK, Goes
<1>2. \A b \in Actors : at'[b] \in Inside <=> at[b] \in Inside
  BY <1>1
<1>3. (\E b \in Actors : at'[b] \in Inside) <=> (\E b \in Actors : at[b] \in Inside)
  BY <1>2
<1>4. inProgress' = (\E b \in Actors : at'[b] \in Inside)
  BY <1>3 DEF OneReload, ReloadTypeOK
<1>5. QED  BY <1>2, <1>4 DEF OneReload

\* The test of reloadInProgress lets the first one in, and only when nobody is.
LEMMA EnterOneReload ==
  ASSUME ReloadTypeOK, OneReload, NEW a \in Actors, Enter(a)
  PROVE  OneReload'
<1>1. at[a] = "called" /\ at[a] \notin Inside /\ Home(a) \notin Inside
  BY DEF Enter, Inside, Home
<1>2. CASE inProgress
  BY <1>1, <1>2, StaysOneReload DEF Enter, MayEnter
<1>3. CASE ~inProgress
  <2>1. inProgress' = TRUE /\ Goes(a, "reload")
    BY <1>3 DEF Enter, MayEnter
  <2>2. at'[a] = "reload" /\ \A b \in Actors \ {a} : at'[b] = at[b] /\ at[b] \notin Inside
    BY <1>3, <2>1 DEF ReloadTypeOK, OneReload, Goes
  <2>3. "reload" \in Inside
    BY DEF Inside
  <2>4. QED  BY <2>1, <2>2, <2>3 DEF OneReload
<1>4. QED  BY <1>2, <1>3

\* The deferred function lowers the flag as the one inside leaves.
LEMMA LeaveOneReload ==
  ASSUME ReloadTypeOK, OneReload, NEW a \in Actors, Leave(a)
  PROVE  OneReload'
<1>1. at[a] \in Inside /\ Home(a) \notin Inside
  BY DEF Leave, Inside, Home
<1>2. at'[a] = Home(a) /\ \A b \in Actors \ {a} : at'[b] = at[b] /\ at[b] \notin Inside
  BY <1>1 DEF ReloadTypeOK, OneReload, Leave, Goes
<1>3. inProgress' = FALSE
  BY DEF Leave
<1>4. QED  BY <1>1, <1>2, <1>3 DEF OneReload

\* One goroutine at a time is inside handleReload.
LEMMA OneReloadStep ==
  ASSUME ReloadTypeOK, OneReload, [ReloadNext]_reloadVars
  PROVE  OneReload'
<1>1. ASSUME at' = at, inProgress' = inProgress
      PROVE  OneReload'
  BY <1>1 DEF OneReload
<1>2. Watcher \in Actors /\ Triggers \subseteq Actors
  BY DEF Actors
<1>3. CASE TimerFires
  BY <1>1, <1>2, <1>3, StaysOneReload DEF TimerFires, Inside
<1>4. CASE WatcherExits
  BY <1>2, <1>4, StaysOneReload DEF WatcherExits, Inside
<1>5. ASSUME NEW t \in Triggers, TriggerReload(t)
      PROVE  OneReload'
  BY <1>2, <1>5, StaysOneReload DEF TriggerReload, Inside
<1>6. ASSUME NEW a \in Actors, Handle(a)
      PROVE  OneReload'
  <2>1. CASE ReloadConfig(a)
    BY <2>1, StaysOneReload DEF ReloadConfig, Inside
  <2>2. CASE Update(a)
    BY <2>2, StaysOneReload DEF Update, Inside
  <2>3. CASE NotifyHandlers(a)
    BY <2>3, StaysOneReload DEF NotifyHandlers, Inside
  <2>4. CASE RecordReloadEvent(a)
    BY <2>4, StaysOneReload DEF RecordReloadEvent, ThenLeave, Inside
  <2>5. CASE \E c \in Components : ReloadComponent(a, c)
    BY <1>1, <2>5 DEF ReloadComponent
  <2>6. QED
    BY <1>6, <2>1, <2>2, <2>3, <2>4, <2>5, EnterOneReload, LeaveOneReload DEF Handle
<1>7. ASSUME WriteFile \/ SeeEvent \/ HoldEnds \/ Close \/ UNCHANGED reloadVars
               \/ \E c \in Components : RegisterComponent(c) \/ UnregisterComponent(c)
      PROVE  OneReload'
  BY <1>1, <1>7 DEF WriteFile, SeeEvent, HoldEnds, Close, reloadVars, RegisterComponent,
                    UnregisterComponent
<1>8. QED
  BY <1>3, <1>4, <1>5, <1>6, <1>7 DEF ReloadNext, Watch

-----------------------------------------------------------------------------
(* The history and the counters *)

\* The history drops its oldest event only when it would be too long.
LEMMA KeptLength ==
  ASSUME NEW s \in Seq(BOOLEAN), NEW x \in BOOLEAN
  PROVE  /\ Kept(Append(s, x)) \in Seq(BOOLEAN)
         /\ Len(Kept(Append(s, x))) = IF Len(s) + 1 > KeepEvents THEN Len(s) ELSE Len(s) + 1
<1>1. Append(s, x) \in Seq(BOOLEAN) /\ Len(Append(s, x)) = Len(s) + 1 /\ Len(s) \in Nat
  OBVIOUS
<1>2. Append(s, x) # <<>>
  BY <1>1
<1>3. Tail(Append(s, x)) \in Seq(BOOLEAN) /\ Len(Tail(Append(s, x))) = Len(s)
  BY <1>1, <1>2
<1>4. QED  BY <1>1, <1>3, ReloadAssumption DEF Kept

\* Counters replaced by natural numbers leave a statistics record.
LEMMA StatsReplaced ==
  ASSUME NEW s \in [total: Nat, ok: Nat, failed: Nat], NEW i \in Nat, NEW j \in Nat, NEW k \in Nat
  PROVE  LET n == [s EXCEPT !.total = i, !.ok = j, !.failed = k]
         IN n \in [total: Nat, ok: Nat, failed: Nat] /\ n.total = i /\ n.ok = j /\ n.failed = k
OBVIOUS

\* One record counts one reload, and as one outcome.
LEMMA RecordCounts ==
  ASSUME ReloadTypeOK, NEW a \in Actors, RecordReloadEvent(a)
  PROVE  /\ reloadStats' \in [total: Nat, ok: Nat, failed: Nat]
         /\ reloadStats'.total = reloadStats.total + 1
         /\ reloadStats'.ok + reloadStats'.failed = reloadStats.ok + reloadStats.failed + 1
         /\ reloadStats.total \in Nat /\ reloadStats.ok \in Nat /\ reloadStats.failed \in Nat
<1>1. reloadStats.total \in Nat /\ reloadStats.ok \in Nat /\ reloadStats.failed \in Nat /\ success[a] \in BOOLEAN
  BY DEF ReloadTypeOK
<1>2. CASE success[a]
  <2>1. reloadStats.total + 1 \in Nat /\ reloadStats.ok + 1 \in Nat /\ reloadStats.failed + 0 \in Nat
    BY <1>1
  <2>2. reloadStats' = [reloadStats EXCEPT !.total = reloadStats.total + 1, !.ok = reloadStats.ok + 1,
                               !.failed = reloadStats.failed + 0]
    BY <1>2 DEF RecordReloadEvent
  <2>3. /\ reloadStats' \in [total: Nat, ok: Nat, failed: Nat]
        /\ reloadStats'.total = reloadStats.total + 1 /\ reloadStats'.ok = reloadStats.ok + 1
        /\ reloadStats'.failed = reloadStats.failed + 0
    BY <2>1, <2>2, StatsReplaced DEF ReloadTypeOK
  <2>4. QED  BY <1>1, <2>3
<1>3. CASE ~success[a]
  <2>1. reloadStats.total + 1 \in Nat /\ reloadStats.ok + 0 \in Nat /\ reloadStats.failed + 1 \in Nat
    BY <1>1
  <2>2. reloadStats' = [reloadStats EXCEPT !.total = reloadStats.total + 1, !.ok = reloadStats.ok + 0,
                               !.failed = reloadStats.failed + 1]
    BY <1>3 DEF RecordReloadEvent
  <2>3. /\ reloadStats' \in [total: Nat, ok: Nat, failed: Nat]
        /\ reloadStats'.total = reloadStats.total + 1 /\ reloadStats'.ok = reloadStats.ok + 0
        /\ reloadStats'.failed = reloadStats.failed + 1
    BY <2>1, <2>2, StatsReplaced DEF ReloadTypeOK
  <2>4. QED  BY <1>1, <2>3
<1>4. QED  BY <1>2, <1>3

\* No reload is missing from the history or the counters.
LEMMA HistoryStep ==
  ASSUME ReloadTypeOK, HistoryComplete, [ReloadNext]_reloadVars
  PROVE  HistoryComplete'
<1>1. ASSUME NEW a \in Actors, RecordReloadEvent(a)
      PROVE  HistoryComplete'
  <2>1. /\ events \in Seq(BOOLEAN) /\ success[a] \in BOOLEAN
        /\ events' = Kept(Append(events, success[a]))
    BY <1>1 DEF ReloadTypeOK, RecordReloadEvent
  <2>2. Len(events') = IF Len(events) + 1 > KeepEvents THEN Len(events) ELSE Len(events) + 1
    BY <2>1, KeptLength
  <2>3. QED
    BY <1>1, <2>1, <2>2, RecordCounts, ReloadAssumption DEF HistoryComplete
<1>2. ASSUME UNCHANGED logVars
      PROVE  HistoryComplete'
  BY <1>2 DEF HistoryComplete, logVars
<1>3. ASSUME NEW a \in Actors, Handle(a), ~RecordReloadEvent(a)
      PROVE  UNCHANGED logVars
  BY <1>3 DEF Handle, Enter, ReloadConfig, Update, ReloadComponent, NotifyHandlers, Leave
<1>4. QED
  BY <1>1, <1>2, <1>3 DEF ReloadNext, Watch, WriteFile, SeeEvent, TimerFires, WatcherExits, HoldEnds,
     Close, TriggerReload, RegisterComponent, UnregisterComponent, reloadVars, logVars

-----------------------------------------------------------------------------
(* The versions *)

\* A step that touches no version and starts no iteration tears nothing.
LEMMA VersionsStay ==
  ASSUME NoTornConfiguration, UNCHANGED confVars, file' = file, Iterating' \subseteq Iterating
  PROVE  NoTornConfiguration'
BY DEF NoTornConfiguration, confVars

\* An actor that goes anywhere but into the iteration starts none.
LEMMA NoNewIteration ==
  ASSUME ReloadTypeOK, NEW a \in Actors, NEW place, place # "components", Goes(a, place)
  PROVE  Iterating' \subseteq Iterating
BY DEF ReloadTypeOK, Goes, Iterating

\* Only the reload moves versions, one stage behind the other.
LEMMA TornHandle ==
  ASSUME ReloadInv, NEW a \in Actors, Handle(a)
  PROVE  NoTornConfiguration'
<1>0. /\ file \in Nat /\ loaded \in Nat /\ applied \in Nat /\ ReloadTypeOK
      /\ \A c \in Components : comp[c] \in Nat /\ comp[c] <= applied
      /\ applied <= loaded /\ loaded <= file
  BY ReloadAssumption DEF ReloadInv, ReloadTypeOK, Versions, NoTornConfiguration
<1>1. CASE Enter(a)
  <2>1. CASE inProgress
    <3>1. Home(a) # "components"
      BY DEF Home
    <3>2. QED
      BY <1>0, <1>1, <2>1, <3>1, NoNewIteration, VersionsStay
         DEF Enter, MayEnter, fileVars, ReloadInv
  <2>2. CASE ~inProgress
    BY <1>0, <1>1, <2>2, NoNewIteration, VersionsStay DEF Enter, MayEnter, fileVars, ReloadInv
  <2>3. QED  BY <2>1, <2>2
<1>2. CASE ReloadConfig(a)
  <2>1. loaded' \in {file, loaded} /\ applied' = applied /\ comp' = comp /\ file' = file
    BY <1>2 DEF ReloadConfig, fileVars
  <2>2. at[a] = "reload" /\ at[a] \in Inside
    BY <1>2 DEF ReloadConfig, Inside
  <2>3. \A b \in Actors : b # a => at[b] \notin Inside
    BY <2>2 DEF ReloadInv, OneReload
  <2>4. at'[a] \in {"update", "record"} /\ \A b \in Actors : b # a => at'[b] = at[b]
    BY <1>0, <1>2 DEF ReloadConfig, Goes, ReloadTypeOK
  <2>5. Iterating' = {}
    BY <2>3, <2>4 DEF Iterating, Inside
  <2>6. QED  BY <1>0, <2>1, <2>5 DEF NoTornConfiguration
<1>3. CASE Update(a)
  <2>1. applied' = loaded /\ loaded' = loaded /\ comp' = comp /\ file' = file
    BY <1>3 DEF Update, Applied, fileVars
  <2>2. QED  BY <1>0, <2>1 DEF NoTornConfiguration
<1>4. CASE \E c \in Components : ReloadComponent(a, c)
  <2>1. PICK c \in Components : ReloadComponent(a, c)
    BY <1>4
  <2>2. applied = loaded
    BY <2>1 DEF ReloadComponent, Iterating, ReloadInv, NoTornConfiguration
  <2>3. /\ loaded' = loaded /\ applied' = applied /\ file' = file /\ Iterating' = Iterating
        /\ comp' = comp \/ comp' = [comp EXCEPT ![c] = loaded]
    BY <2>1 DEF ReloadComponent, fileVars, Iterating
  <2>4. \A d \in Components : comp'[d] <= applied
    BY <1>0, <2>2, <2>3 DEF ReloadTypeOK
  <2>5. QED  BY <1>0, <2>2, <2>3, <2>4 DEF NoTornConfiguration
<1>5. CASE NotifyHandlers(a)
  BY <1>0, <1>5, NoNewIteration, VersionsStay DEF NotifyHandlers, fileVars, ReloadInv
<1>6. CASE RecordReloadEvent(a)
  BY <1>0, <1>6, NoNewIteration, VersionsStay DEF RecordReloadEvent, ThenLeave, fileVars, ReloadInv
<1>7. CASE Leave(a)
  <2>1. Home(a) # "components" /\ Goes(a, Home(a)) /\ UNCHANGED <<fileVars, confVars>>
    BY <1>7 DEF Home, Leave
  <2>2. QED  BY <1>0, <2>1, NoNewIteration, VersionsStay DEF fileVars, ReloadInv
<1>8. QED
  BY <1>1, <1>2, <1>3, <1>4, <1>5, <1>6, <1>7 DEF Handle

\* Whoever writes the file, triggers or registers leaves the stages in order.
LEMMA TornStep ==
  ASSUME ReloadInv, [ReloadNext]_reloadVars
  PROVE  NoTornConfiguration'
<1>0. ReloadTypeOK /\ NoTornConfiguration /\ Watcher \in Actors /\ Triggers \subseteq Actors
  BY DEF ReloadInv, Actors
<1>1. CASE WriteFile
  <2>1. /\ file \in Nat /\ loaded \in Nat /\ file' = file + 1 /\ loaded' = loaded
        /\ applied' = applied /\ comp' = comp /\ at' = at
    BY <1>0, <1>1, ReloadAssumption DEF WriteFile, ReloadTypeOK, Versions, confVars
  <2>2. Iterating' = Iterating
    BY <2>1 DEF Iterating
  <2>3. QED  BY <1>0, <2>1, <2>2 DEF NoTornConfiguration
<1>2. ASSUME at' = at, UNCHANGED <<confVars, fileVars>> \/ (UNCHANGED confVars /\ file' = file)
      PROVE  NoTornConfiguration'
  BY <1>0, <1>2, VersionsStay DEF Iterating, fileVars
<1>3. CASE TimerFires
  BY <1>0, <1>2, <1>3, NoNewIteration, VersionsStay DEF TimerFires, fileVars
<1>4. CASE WatcherExits
  BY <1>0, <1>4, NoNewIteration, VersionsStay DEF WatcherExits, fileVars
<1>5. ASSUME NEW t \in Triggers, TriggerReload(t)
      PROVE  NoTornConfiguration'
  BY <1>0, <1>5, NoNewIteration, VersionsStay DEF TriggerReload, fileVars
<1>6. ASSUME SeeEvent \/ HoldEnds \/ Close \/ UNCHANGED reloadVars
               \/ \E c \in Components : RegisterComponent(c) \/ UnregisterComponent(c)
      PROVE  NoTornConfiguration'
  BY <1>2, <1>6 DEF SeeEvent, HoldEnds, Close, reloadVars, confVars, fileVars, RegisterComponent,
                    UnregisterComponent
<1>7. QED
  BY <1>1, <1>3, <1>4, <1>5, <1>6, TornHandle DEF ReloadNext, Watch

-----------------------------------------------------------------------------
(* Types *)

\* Every step keeps the types.
LEMMA ReloadTypeStep ==
  ASSUME ReloadTypeOK, [ReloadNext]_reloadVars
  PROVE  ReloadTypeOK'
<1>0. Watcher \in Actors /\ Triggers \subseteq Actors /\ MaxVersion \in Nat \ {0}
  BY ReloadAssumption DEF Actors
<1>1. CASE WriteFile
  <2>1. file' \in Versions
    BY <1>0, <1>1 DEF WriteFile, ReloadTypeOK, Versions
  <2>2. notified' \in BOOLEAN
    BY <1>1 DEF WriteFile
  <2>3. QED  BY <1>1, <2>1, <2>2 DEF WriteFile, ReloadTypeOK, confVars, gateVars, logVars
<1>2. CASE Watch
  BY <1>0, <1>2 DEF Watch, SeeEvent, TimerFires, WatcherExits, Goes, ReloadTypeOK, confVars, gateVars,
                    logVars, fileVars
<1>3. CASE HoldEnds \/ Close \/ \E t \in Triggers : TriggerReload(t)
  BY <1>0, <1>3 DEF HoldEnds, Close, TriggerReload, Goes, ReloadTypeOK, confVars, gateVars, logVars,
                    fileVars
<1>4. CASE \E c \in Components : RegisterComponent(c) \/ UnregisterComponent(c)
  BY <1>4 DEF RegisterComponent, UnregisterComponent, MapWritten, ReloadTypeOK, confVars, gateVars,
              logVars, fileVars
<1>5. ASSUME NEW a \in Actors, Handle(a)
      PROVE  ReloadTypeOK'
  <2>1. CASE Enter(a)
    BY <2>1 DEF Enter, Goes, Home, Inside, ReloadTypeOK, confVars, gateVars, logVars, fileVars
  <2>2. CASE ReloadConfig(a)
    <3>1. loaded' \in Versions
      BY <2>2 DEF ReloadConfig, ReloadTypeOK
    <3>2. QED
      BY <2>2, <3>1 DEF ReloadConfig, Goes, Inside, ReloadTypeOK, confVars, gateVars, logVars, fileVars
  <2>3. CASE Update(a)
    BY <2>3 DEF Update, Applied, Goes, Inside, ReloadTypeOK, confVars, gateVars, logVars, fileVars
  <2>4. CASE \E c \in Components : ReloadComponent(a, c)
    BY <2>4 DEF ReloadComponent, ReloadTypeOK, confVars, gateVars, logVars, fileVars
  <2>5. CASE NotifyHandlers(a)
    BY <2>5 DEF NotifyHandlers, Goes, Inside, ReloadTypeOK, confVars, gateVars, logVars, fileVars
  <2>6. CASE RecordReloadEvent(a)
    <3>1. events' \in Seq(BOOLEAN) /\ reloadStats' \in [total: Nat, ok: Nat, failed: Nat]
      BY <2>6, KeptLength, RecordCounts DEF RecordReloadEvent, ReloadTypeOK
    <3>2. QED
      BY <2>6, <3>1 DEF RecordReloadEvent, ThenLeave, Goes, Inside, ReloadTypeOK, confVars, gateVars,
                        fileVars
  <2>7. CASE Leave(a)
    BY <2>7 DEF Leave, Goes, Home, Inside, ReloadTypeOK, confVars, gateVars, logVars, fileVars
  <2>8. QED
    BY <1>5, <2>1, <2>2, <2>3, <2>4, <2>5, <2>6, <2>7 DEF Handle
<1>6. CASE UNCHANGED reloadVars
  BY <1>6 DEF reloadVars, ReloadTypeOK
<1>7. QED
  BY <1>1, <1>2, <1>3, <1>4, <1>5, <1>6 DEF ReloadNext

-----------------------------------------------------------------------------
(* The theorems *)

\* The four parts hold one another up.
LEMMA ReloadInvStep == ReloadInv /\ [ReloadNext]_reloadVars => ReloadInv'
BY ReloadTypeStep, OneReloadStep, HistoryStep, TornStep DEF ReloadInv

\* However the watcher, the triggers and the components meet, one goroutine at
\* a time is inside handleReload, reloadInProgress says so, and the history
\* and the counters of recordReloadEvent miss no reload.
THEOREM ReloadsCounted == ReloadSpec => []ReloadsAccounted
<1>1. ReloadInv => ReloadsAccounted
  BY DEF ReloadInv, ReloadsAccounted
<1>2. QED  BY ReloadInitHolds, ReloadInvStep, <1>1, PTL DEF ReloadSpec

\* The settings and the components never run ahead of the file, and every
\* component is given the configuration that handleReload has applied.
THEOREM NeverTorn == ReloadSpec => []NoTornConfiguration
<1>1. ReloadInv => NoTornConfiguration
  BY DEF ReloadInv
<1>2. QED  BY ReloadInitHolds, ReloadInvStep, <1>1, PTL DEF ReloadSpec
=============================================================================
