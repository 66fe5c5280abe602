------------------------------ MODULE Webhook -------------------------------
(***************************************************************************)
(* The HTTP client of the infra manager (internal/infra/infra.go):         *)
(* SendWebhook runs sendHTTPRequest under Retry, and all its callers share *)
(* one circuit breaker.  The breaker is asked once per Retry, before the   *)
(* first attempt, and told the outcome of every attempt.  The time since   *)
(* the last failure is abstracted to cooled: the circuit timeout is over.  *)
(* Requests are valid: validateRequest only refuses an empty URL.          *)
(***************************************************************************)
EXTENDS Integers, FiniteSets

CONSTANTS Callers,            \* goroutines that call SendWebhook
          MaxAttempts,        \* config.MaxAttempts
          FailureThreshold,   \* CircuitFailureThreshold
          SuccessThreshold,   \* CircuitSuccessThreshold
          HalfOpenMaxCalls,   \* CircuitHalfOpenMaxCalls
          MaxCalls            \* bound: calls made by each caller

ASSUME WebhookAssumption ==
  /\ MaxAttempts \in Int
  /\ FailureThreshold \in Nat \ {0}
  /\ SuccessThreshold \in Nat
  /\ HalfOpenMaxCalls \in Nat
  /\ MaxCalls \in Nat
  /\ IsFiniteSet(Callers)

Attempts == IF MaxAttempts <= 0 THEN 1 ELSE MaxAttempts

VARIABLES
  cb,        \* the CircuitBreaker
  cooled,    \* time.Since(cb.lastFailureTime) > cb.timeout
  pc,        \* program counter of each caller
  attempt,   \* the attempt Retry is at, result.Attempts
  response,  \* the response retryFunc kept: none, 2xx or another status
  lastError, \* result.LastError is set
  expired,   \* the context of the call is done
  reply,     \* what the last SendWebhook of the caller returned
  calls,     \* calls begun by each caller
  late,      \* history: attempts a caller made in the current hot period
  stats      \* InfraStats

vars == <<cb, cooled, pc, attempt, response, lastError, expired, reply, calls,
          late, stats>>

\* SendWebhook has counted the request ("sent"), Retry is under way ("won" and
\* "lost" before it has counted its verdict), or it has returned its result
\* ("success", "failure") and the request has no verdict yet.
InRetry == {"check", "attempt", "answered", "failed", "wait", "won", "lost"}
InCall == {"sent", "success", "failure"} \cup InRetry

Breakers == [state: {"closed", "open", "half-open"}, failures: Nat,
             successes: Nat, halfOpenCalls: Nat]
InfraStats == [sent: Nat, succeeded: Nat, failed: Nat, total: Nat,
               successful: Nat, unsuccessful: Nat]

TypeOK ==
  /\ cb \in Breakers
  /\ cooled \in BOOLEAN
  /\ pc \in [Callers -> {"idle"} \cup InCall]
  /\ attempt \in [Callers -> 0..Attempts]
  /\ response \in [Callers -> {"none", "2xx", "other"}]
  /\ lastError \in [Callers -> BOOLEAN]
  /\ expired \in [Callers -> BOOLEAN]
  /\ reply \in [Callers -> {"none", "nil", "error"}]
  /\ calls \in [Callers -> 0..MaxCalls]
  /\ late \in [Callers -> Nat]
  /\ stats \in InfraStats

Init ==
  /\ cb = [state |-> "closed", failures |-> 0, successes |-> 0,
           halfOpenCalls |-> 0]
  /\ cooled = FALSE
  /\ pc = [c \in Callers |-> "idle"]
  /\ attempt = [c \in Callers |-> 0]
  /\ response = [c \in Callers |-> "none"]
  /\ lastError = [c \in Callers |-> FALSE]
  /\ expired = [c \in Callers |-> FALSE]
  /\ reply = [c \in Callers |-> "none"]
  /\ calls = [c \in Callers |-> 0]
  /\ late = [c \in Callers |-> 0]
  /\ stats = [sent |-> 0, succeeded |-> 0, failed |-> 0, total |-> 0,
              successful |-> 0, unsuccessful |-> 0]

-----------------------------------------------------------------------------
(* The circuit breaker *)

\* Faulty variant: the state is not looked at while it is open.
CanExecuteAlways == cb.state \in {"closed", "open"}

CanExecute ==
  \/ cb.state = "closed"
  \/ cb.state = "open" /\ cooled
  \/ cb.state = "half-open" /\ cb.halfOpenCalls < HalfOpenMaxCalls

\* A success in the open state changes nothing.
AfterSuccess(b) ==
  CASE b.state = "closed" -> [b EXCEPT !.failures = 0]
    [] b.state = "half-open" ->
         IF b.successes + 1 >= SuccessThreshold
         THEN [state |-> "closed", failures |-> 0, successes |-> 0,
               halfOpenCalls |-> 0]
         ELSE [b EXCEPT !.successes = @ + 1, !.halfOpenCalls = @ + 1]
    [] OTHER -> b

\* Faulty variant: the breaker opens one failure late.
OpensAt(n) == n > FailureThreshold
Opens(n) == n >= FailureThreshold

\* A failure in the open state changes nothing, lastFailureTime included.
AfterFailure(b) ==
  CASE b.state = "closed" ->
         [b EXCEPT !.failures = @ + 1,
                   !.state = IF Opens(b.failures + 1) THEN "open" ELSE "closed"]
    [] b.state = "half-open" ->
         [b EXCEPT !.state = "open", !.successes = 0, !.halfOpenCalls = 0]
    [] OTHER -> b

\* The open breaker rejects: the circuit timeout is still running.
Hot == cb.state = "open" /\ ~cooled

\* The circuit timeout of an open breaker runs out.
CoolDown == /\ Hot
            /\ cooled' = TRUE
            /\ UNCHANGED <<cb, pc, attempt, response, lastError, expired,
                           reply, calls, late, stats>>

-----------------------------------------------------------------------------
(* SendWebhook and Retry.  Each takes the lock of the statistics twice, when *)
(* it begins and when it ends; between these critical sections other callers *)
(* run, and GetStats may read.                                               *)

Begin(c) ==
  /\ pc[c] = "idle" /\ calls[c] < MaxCalls
  /\ pc' = [pc EXCEPT ![c] = "sent"]
  /\ calls' = [calls EXCEPT ![c] = @ + 1]
  /\ expired' = [expired EXCEPT ![c] = FALSE]
  /\ reply' = [reply EXCEPT ![c] = "none"]
  /\ stats' = [stats EXCEPT !.sent = @ + 1]
  /\ UNCHANGED <<cb, cooled, attempt, response, lastError, late>>

\* Retry makes a new result and counts itself.
EnterRetry(c) ==
  /\ pc[c] = "sent"
  /\ pc' = [pc EXCEPT ![c] = "check"]
  /\ attempt' = [attempt EXCEPT ![c] = 0]
  /\ response' = [response EXCEPT ![c] = "none"]
  /\ lastError' = [lastError EXCEPT ![c] = FALSE]
  /\ stats' = [stats EXCEPT !.total = @ + 1]
  /\ UNCHANGED <<cb, cooled, expired, reply, calls, late>>

Admit(c) ==
  /\ pc[c] = "check" /\ CanExecute
  /\ pc' = [pc EXCEPT ![c] = "attempt"]
  /\ attempt' = [attempt EXCEPT ![c] = 1]
  /\ UNCHANGED <<cb, cooled, response, lastError, expired, reply, calls, late,
                 stats>>

\* "circuit breaker is open": no attempt is made.
Reject(c) ==
  /\ pc[c] = "check" /\ ~CanExecute
  /\ pc' = [pc EXCEPT ![c] = "lost"]
  /\ lastError' = [lastError EXCEPT ![c] = TRUE]
  /\ UNCHANGED <<cb, cooled, attempt, response, expired, reply, calls, late,
                 stats>>

Tried(c) == late' = [late EXCEPT ![c] = IF Hot THEN @ + 1 ELSE @]

\* sendHTTPRequest got a response; a status outside 200..299 is no error here.
Answered(c) ==
  /\ pc[c] = "attempt" /\ ~expired[c]
  /\ \E r \in {"2xx", "other"} : response' = [response EXCEPT ![c] = r]
  /\ pc' = [pc EXCEPT ![c] = "answered"]
  /\ Tried(c)
  /\ UNCHANGED <<cb, cooled, attempt, lastError, expired, reply, calls, stats>>

\* A transport error, an oversized body or the context: result.LastError is
\* set, and nothing ever clears it.
Errs(c) ==
  /\ pc[c] = "attempt"
  /\ lastError' = [lastError EXCEPT ![c] = TRUE]
  /\ pc' = [pc EXCEPT ![c] = "failed"]
  /\ Tried(c)
  /\ UNCHANGED <<cb, cooled, attempt, response, expired, reply, calls, stats>>

RecordSuccess(c) ==
  /\ pc[c] = "answered"
  /\ cb' = AfterSuccess(cb)
  /\ pc' = [pc EXCEPT ![c] = "won"]
  /\ UNCHANGED <<cooled, attempt, response, lastError, expired, reply, calls,
                 late, stats>>

MoreAttempts(c) == attempt[c] < Attempts

\* Tripping the breaker starts a new hot period.
RecordFailure(c) ==
  /\ pc[c] = "failed"
  /\ cb' = AfterFailure(cb)
  /\ IF cb.state # "open" /\ cb'.state = "open"
     THEN cooled' = FALSE /\ late' = [d \in Callers |-> 0]
     ELSE UNCHANGED <<cooled, late>>
  /\ pc' = [pc EXCEPT ![c] = IF MoreAttempts(c) THEN "wait" ELSE "lost"]
  /\ UNCHANGED <<attempt, response, lastError, expired, reply, calls, stats>>

\* time.After(delay) fires; the breaker is not asked again.
NextAttempt(c) ==
  /\ pc[c] = "wait"
  /\ attempt' = [attempt EXCEPT ![c] = @ + 1]
  /\ pc' = [pc EXCEPT ![c] = "attempt"]
  /\ UNCHANGED <<cb, cooled, response, lastError, expired, reply, calls, late,
                 stats>>

GiveUp(c) ==
  /\ pc[c] = "wait" /\ expired[c]
  /\ pc' = [pc EXCEPT ![c] = "lost"]
  /\ UNCHANGED <<cb, cooled, attempt, response, lastError, expired, reply,
                 calls, late, stats>>

\* Retry counts its verdict and returns.
RetrySucceeds(c) ==
  /\ pc[c] = "won"
  /\ stats' = [stats EXCEPT !.successful = @ + 1]
  /\ pc' = [pc EXCEPT ![c] = "success"]
  /\ UNCHANGED <<cb, cooled, attempt, response, lastError, expired, reply, calls, late>>

RetryFails(c) ==
  /\ pc[c] = "lost"
  /\ stats' = [stats EXCEPT !.unsuccessful = @ + 1]
  /\ pc' = [pc EXCEPT ![c] = "failure"]
  /\ UNCHANGED <<cb, cooled, attempt, response, lastError, expired, reply, calls, late>>

\* Faulty variant: a request counts as succeeded when it got a 2xx status.
SucceededOn2xx(c) == pc[c] = "success" /\ response[c] = "2xx"
Succeeded(c) == pc[c] = "success" /\ response[c] # "none"

\* Faulty variant: the error is dropped when the retries are used up.
ErrorUnlessLost(c) == lastError[c] /\ pc[c] # "failure"
ReturnsError(c) == lastError[c]

\* SendWebhook counts the request and returns LastError.
Finish(c) ==
  /\ pc[c] \in {"success", "failure"}
  /\ stats' = IF Succeeded(c) THEN [stats EXCEPT !.succeeded = @ + 1]
                              ELSE [stats EXCEPT !.failed = @ + 1]
  /\ reply' = [reply EXCEPT ![c] = IF ReturnsError(c) THEN "error" ELSE "nil"]
  /\ pc' = [pc EXCEPT ![c] = "idle"]
  /\ UNCHANGED <<cb, cooled, attempt, response, lastError, expired, calls, late>>

\* webhook.Timeout runs out, or the notifier is stopped.
Expire(c) ==
  /\ pc[c] # "idle" /\ ~expired[c]
  /\ expired' = [expired EXCEPT ![c] = TRUE]
  /\ UNCHANGED <<cb, cooled, pc, attempt, response, lastError, reply, calls,
                 late, stats>>

\* Faulty variant: a call waits for an open breaker instead of failing fast.
RunWaiting(c) ==
  EnterRetry(c) \/ Admit(c) \/ Answered(c) \/ Errs(c) \/ RecordSuccess(c) \/ RecordFailure(c)
    \/ NextAttempt(c) \/ GiveUp(c) \/ RetrySucceeds(c) \/ RetryFails(c) \/ Finish(c)

Run(c) ==
  EnterRetry(c) \/ Admit(c) \/ Reject(c) \/ Answered(c) \/ Errs(c) \/ RecordSuccess(c)
    \/ RecordFailure(c) \/ NextAttempt(c) \/ GiveUp(c) \/ RetrySucceeds(c) \/ RetryFails(c)
    \/ Finish(c)

Next == CoolDown \/ \E c \in Callers : Begin(c) \/ Run(c) \/ Expire(c)

\* A call that began runs on: the goroutine is scheduled, the HTTP request and
\* the delay are bounded by the timeouts.
Fairness == \A c \in Callers : WF_vars(Run(c))

Spec == Init /\ [][Next]_vars /\ Fairness

-----------------------------------------------------------------------------
(* Properties *)

\* Whatever the callers record in whatever order, the breaker is open exactly
\* from the FailureThreshold-th failure on: a closed one never carries a
\* count that should have opened it, and an open one never counts on.
OpensAtThreshold ==
  /\ cb.state = "closed" => cb.failures < FailureThreshold
  /\ cb.state = "open" => cb.failures = FailureThreshold

\* A tripped breaker does not stop the calls it had already admitted (Retry
\* asks it once), but what they may still send during the circuit timeout is
\* bounded: at most MaxAttempts requests by each caller.
HotAttemptsBounded == Hot => \A c \in Callers : late[c] <= Attempts

\* The callers under way, and those between two critical sections: of
\* SendWebhook and Retry on the way in, of Retry and SendWebhook on the way out
\* with a success or a failure.
Running    == {c \in Callers : pc[c] # "idle"}
Entering   == {c \in Callers : pc[c] = "sent"}
Succeeding == {c \in Callers : pc[c] = "success"}
Failing    == {c \in Callers : pc[c] = "failure"}

\* Whenever GetStats reads: every call has one verdict once it is over and
\* none before, and the statistics of requests and of retries differ by exactly
\* the callers that have left the critical section of one and not yet entered
\* that of the other, on the way in as for each of the two verdicts.  When no
\* call is under way the two agree.
CountedOnce ==
  /\ stats.sent = stats.succeeded + stats.failed + Cardinality(Running)
  /\ stats.sent = stats.total + Cardinality(Entering)
  /\ stats.successful = stats.succeeded + Cardinality(Succeeding)
  /\ stats.unsuccessful = stats.failed + Cardinality(Failing)

\* The types, and both statistics agree on every call up to the callers that
\* are between the two.
CallsAccounted == TypeOK /\ CountedOnce

\* A caller told nil has an answer of the endpoint (whatever its status), so a
\* delivery is never reported that did not happen.
NilMeansAnswered == \A c \in Callers : reply[c] = "nil" => response[c] # "none"

\* Every SendWebhook returns, open breaker or not.
EveryCallReturns == \A c \in Callers : pc[c] # "idle" ~> pc[c] = "idle"

\* "return true // Will transition to half-open" (infra.go:705): a call that
\* an open breaker lets through puts it in the half-open state.
ProbeHalfOpens ==
  [][\A c \in Callers : pc[c] = "check" /\ pc'[c] = "attempt" /\ cb.state = "open"
       => cb'.state = "half-open"]_vars

\* A request counted in RequestsSucceeded (infra.go:426) is returned to the
\* caller without an error.
SuccessIsReported ==
  [][\A c \in Callers : pc[c] = "success" /\ pc'[c] = "idle"
       => reply'[c] = "nil"]_vars
=============================================================================
