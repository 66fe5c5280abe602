------------------------------ MODULE Notifier ------------------------------
(***************************************************************************)
(* The webhook notifier (internal/notifier/notifier.go): SendNotification  *)
(* offers one task per matching webhook to a bounded channel, a pool of    *)
(* workers posts them, a failed post is put back by a goroutine of its own *)
(* after a delay, and Stop cancels the context, waits for the workers and  *)
(* closes the channel.  A goroutine that sends on the closed channel takes *)
(* the whole process down: panic names the sender, and nothing follows.    *)
(***************************************************************************)
EXTENDS Integers, Sequences, FiniteSets

CONSTANTS Events,        \* the stored events passed to SendNotification
          NumWebhooks,   \* len(config.DefaultWebhooks)
          Enabled,       \* positions of the enabled webhooks
          Filters,       \* webhook.Filters of each position: a set of names
          FilterRules,   \* config.FilterRules, a sequence of rules
          Field,         \* what getEventFieldValue yields: [Events -> [name -> text]]
          Complete,      \* positions whose Headers are configured in full
          RetryCount,    \* webhook.RetryCount of each position
          QueueSize,     \* cap(taskQueue)
          Workers        \* config.MaxConcurrent worker goroutines

Webhooks == 1..NumWebhooks

ASSUME NotifierAssumption ==
  /\ NumWebhooks \in Nat
  /\ Enabled \subseteq Webhooks
  /\ Complete \subseteq Webhooks
  /\ RetryCount \in [Webhooks -> Nat]
  /\ QueueSize \in Nat \ {0}
  /\ IsFiniteSet(Events) /\ IsFiniteSet(Workers)

-----------------------------------------------------------------------------
(* Filters.  loadNotifierConfig never fills FilterRules, so in the program    *)
(* every filter is unknown and passes; here the rules are any.  A text is a   *)
(* sequence of words, and a field that an event does not have is empty.       *)

Contains(text, part) ==
  \E i \in 1..Len(text) + 1, j \in 0..Len(text) : SubSeq(text, i, j) = part

FieldValue(e, name) == IF name \in DOMAIN Field[e] THEN Field[e][name] ELSE <<>>

\* An unknown operator holds of nothing.
Holds(c, value) ==
  \/ c.operator = "equals"       /\ value = c.value
  \/ c.operator = "not_equals"   /\ value # c.value
  \/ c.operator = "contains"     /\ Contains(value, c.value)
  \/ c.operator = "not_contains" /\ ~Contains(value, c.value)
  \/ c.operator = "in"           /\ value \in c.values
  \/ c.operator = "not_in"       /\ value \notin c.values

\* The first rule of a name counts, if it is enabled.
Applies(i, name) ==
  /\ FilterRules[i].name = name /\ FilterRules[i].enabled
  /\ \A j \in 1..i - 1 : FilterRules[j].name # name

\* Every condition of every rule that applies; an unknown or disabled filter
\* is passed over.
PassesFilters(e, w) ==
  \A name \in Filters[w], i \in 1..Len(FilterRules) :
    Applies(i, name) =>
      \A c \in FilterRules[i].conditions : Holds(c, FieldValue(e, c.field))

Matches == UNION {{e} \X {w \in Webhooks : PassesFilters(e, w)} : e \in Events}

Eligible(e) == {w \in Enabled : <<e, w>> \in Matches}

-----------------------------------------------------------------------------
Tasks == Events \X Webhooks
NoTask == <<>>

VARIABLES
  queue,      \* taskQueue: the buffered tasks, oldest first
  closed,     \* taskQueue was closed
  cancelled,  \* n.ctx is done
  at,         \* program counter of each worker
  job,        \* the task a worker took from the queue
  success,    \* the result a worker is about to record
  attempt,    \* task.Attempt
  complete,   \* webhooks whose shared header map has both default headers
  writing,    \* workers that write the header map of their webhook
  sleeping,   \* tasks held by a retry goroutine that sleeps RetryDelay
  call,       \* per event: next webhook of its SendNotification, 0 = not called
  ret,        \* per event: what SendNotification returned
  sent,       \* per event: the local variable sent
  lastError,  \* per event: the local variable lastError is set
  stats,      \* NotifierStats
  posts,      \* history: how often each task was posted
  ended,      \* history: how each task ended
  panic       \* "no", or the goroutine that sent on the closed channel

workerVars == <<at, job, success>>
callVars   == <<call, ret, sent, lastError>>
headerVars == <<complete, writing>>
history    == <<posts, ended>>
vars == <<queue, closed, cancelled, at, job, success, attempt, headerVars,
          sleeping, call, ret, sent, lastError, stats, posts, ended, panic>>

Busy == {"posting", "recording"}
NotifierStats == [sent: Nat, succeeded: Nat, failed: Nat, queueFull: Nat,
                  filtered: Nat, active: Nat]
EndStates == {"refused", "delivered", "failed", "dropped"}

TypeOK ==
  /\ queue \in Seq(Tasks)
  /\ closed \in BOOLEAN /\ cancelled \in BOOLEAN
  /\ at \in [Workers -> {"off", "idle", "exited"} \cup Busy]
  /\ job \in [Workers -> Tasks \cup {NoTask}]
  /\ success \in [Workers -> BOOLEAN]
  /\ attempt \in [Tasks -> Nat]
  /\ complete \in SUBSET Webhooks /\ writing \in SUBSET Workers
  /\ sleeping \in SUBSET Tasks
  /\ call \in [Events -> 0..(NumWebhooks + 1)]
  /\ ret \in [Events -> {"none", "nil", "error"}]
  /\ sent \in [Events -> Nat]
  /\ lastError \in [Events -> BOOLEAN]
  /\ stats \in NotifierStats
  /\ posts \in [Tasks -> Nat]
  /\ ended \in [Tasks -> {"no"} \cup EndStates]
  /\ panic \in {"no", "send", "retry"}

Init ==
  /\ queue = <<>> /\ closed = FALSE /\ cancelled = FALSE
  /\ at = [w \in Workers |-> "off"]
  /\ job = [w \in Workers |-> NoTask]
  /\ success = [w \in Workers |-> FALSE]
  /\ attempt = [t \in Tasks |-> 0]
  /\ complete = Complete /\ writing = {}
  /\ sleeping = {}
  /\ call = [e \in Events |-> 0]
  /\ ret = [e \in Events |-> "none"]
  /\ sent = [e \in Events |-> 0]
  /\ lastError = [e \in Events |-> FALSE]
  /\ stats = [sent |-> 0, succeeded |-> 0, failed |-> 0, queueFull |-> 0,
              filtered |-> 0, active |-> 0]
  /\ posts = [t \in Tasks |-> 0]
  /\ ended = [t \in Tasks |-> "no"]
  /\ panic = "no"

-----------------------------------------------------------------------------
(* Start and SendNotification *)

\* Every worker goroutine is launched; the caller calls Start at most once,
\* and not after Stop.
Start == /\ ~cancelled
         /\ \A w \in Workers : at[w] = "off"
         /\ at' = [w \in Workers |-> "idle"]
         /\ UNCHANGED <<queue, closed, cancelled, job, success, attempt,
                        headerVars, sleeping, callVars, stats, history,
                        panic>>

HasRoom == Len(queue) < QueueSize

Call(e) == /\ call[e] = 0
           /\ call' = [call EXCEPT ![e] = 1]
           /\ UNCHANGED <<queue, closed, cancelled, workerVars, attempt,
                          headerVars, sleeping, ret, sent, lastError, stats,
                          history, panic>>

\* The loop of SendNotification passes over a disabled webhook.
SkipDisabled(e) ==
  /\ call[e] \in Webhooks \ Enabled
  /\ call' = [call EXCEPT ![e] = @ + 1]
  /\ UNCHANGED <<queue, closed, cancelled, workerVars, attempt, headerVars,
                 sleeping, ret, sent, lastError, stats, history, panic>>

\* ... and over one whose filters reject the event.
SkipFiltered(e) ==
  /\ call[e] \in Enabled \ Eligible(e)
  /\ stats' = [stats EXCEPT !.filtered = @ + 1]
  /\ call' = [call EXCEPT ![e] = @ + 1]
  /\ UNCHANGED <<queue, closed, cancelled, workerVars, attempt, headerVars,
                 sleeping, ret, sent, lastError, history, panic>>

\* The non-blocking send of a new task finds room in the channel.
Enqueue(e) ==
  /\ call[e] \in Eligible(e)
  /\ ~closed /\ HasRoom
  /\ queue' = Append(queue, <<e, call[e]>>)
  /\ sent' = [sent EXCEPT ![e] = @ + 1]
  /\ call' = [call EXCEPT ![e] = @ + 1]
  /\ UNCHANGED <<closed, cancelled, workerVars, attempt, headerVars,
                 sleeping, ret, lastError, stats, history, panic>>

\* ... or takes the default branch: the task is never created again.
Refuse(e) ==
  /\ call[e] \in Eligible(e)
  /\ ~closed /\ ~HasRoom
  /\ stats' = [stats EXCEPT !.queueFull = @ + 1]
  /\ lastError' = [lastError EXCEPT ![e] = TRUE]
  /\ ended' = [ended EXCEPT ![<<e, call[e]>>] = "refused"]
  /\ call' = [call EXCEPT ![e] = @ + 1]
  /\ UNCHANGED <<queue, closed, cancelled, workerVars, attempt, headerVars,
                 sleeping, ret, sent, posts, panic>>

\* ... or panics, when Stop has closed the channel.
SendOnClosed(e) ==
  /\ call[e] \in Eligible(e)
  /\ closed
  /\ panic' = "send"
  /\ UNCHANGED <<queue, closed, cancelled, workerVars, attempt, headerVars,
                 sleeping, callVars, stats, history>>

\* Faulty variant: any refusal is an error.
FailingOnAny(e) == lastError[e]

Failing(e) == sent[e] = 0 /\ lastError[e]

\* What SendNotification returns once its loop is over.
Return(e) ==
  /\ call[e] = NumWebhooks + 1
  /\ ret[e] = "none"
  /\ ret' = [ret EXCEPT ![e] = IF Failing(e) THEN "error" ELSE "nil"]
  /\ UNCHANGED <<queue, closed, cancelled, workerVars, attempt, headerVars,
                 sleeping, call, sent, lastError, stats, history, panic>>

SendNotification(e) ==
  \/ Call(e) \/ SkipDisabled(e) \/ SkipFiltered(e)
  \/ Enqueue(e) \/ Refuse(e) \/ SendOnClosed(e) \/ Return(e)

-----------------------------------------------------------------------------
(* The workers and the retry goroutines *)

Activated == [stats EXCEPT !.active = @ + 1]

\* select picks the queue, which it may do after the cancellation too, as
\* long as a task is ready.
Take(w) ==
  /\ at[w] = "idle"
  /\ queue # <<>>
  /\ job' = [job EXCEPT ![w] = Head(queue)]
  /\ queue' = Tail(queue)
  /\ at' = [at EXCEPT ![w] = "posting"]
  /\ stats' = Activated
  /\ UNCHANGED <<closed, cancelled, success, attempt, headerVars, sleeping,
                 callVars, history, panic>>

\* Faulty variants: a worker leaves when it finds no task, and a worker leaves
\* only once the channel is closed.
MayExitWhenEmpty == cancelled \/ queue = <<>>
MayExitWhenClosed == closed

MayExit == cancelled

\* select picks ctx.Done().
Exit(w) ==
  /\ at[w] = "idle"
  /\ MayExit
  /\ at' = [at EXCEPT ![w] = "exited"]
  /\ UNCHANGED <<queue, closed, cancelled, job, success, attempt, headerVars,
                 sleeping, callVars, stats, history, panic>>

\* sendHTTPRequest puts default headers into webhook.Headers when they are
\* missing.  Every task of a webhook shares that map, and nothing locks it: a
\* worker looks at it and writes while another may be writing.
WriteHeaders(w) ==
  /\ at[w] = "posting" /\ w \notin writing
  /\ job[w][2] \notin complete
  /\ writing' = writing \cup {w}
  /\ UNCHANGED <<queue, closed, cancelled, workerVars, attempt, complete,
                 sleeping, callVars, stats, history, panic>>

HeadersWritten(w) ==
  /\ at[w] = "posting" /\ w \in writing
  /\ writing' = writing \ {w}
  /\ complete' = complete \cup {job[w][2]}
  /\ UNCHANGED <<queue, closed, cancelled, workerVars, attempt, sleeping,
                 callVars, stats, history, panic>>

\* processTask is left with a result: the task is no longer the worker's.
Posted(w, ok) ==
  /\ at[w] = "posting" /\ w \notin writing
  /\ job[w][2] \in complete
  /\ posts' = [posts EXCEPT ![job[w]] = @ + 1]
  /\ success' = [success EXCEPT ![w] = ok]
  /\ at' = [at EXCEPT ![w] = "recording"]
  /\ job' = [job EXCEPT ![w] = NoTask]
  /\ UNCHANGED <<queue, closed, cancelled, callVars, headerVars, stats,
                 panic>>

PostSucceeds(w) ==
  /\ Posted(w, TRUE)
  /\ ended' = [ended EXCEPT ![job[w]] = "delivered"]
  /\ UNCHANGED <<attempt, sleeping>>

\* Faulty variant: one retry too many.
RetryableOnceMore(t) == attempt[t] <= RetryCount[t[2]]

Retryable(t) == attempt[t] < RetryCount[t[2]]

\* A transport error, a status outside 200..299, a timeout or the cancelled
\* context: the task goes to a goroutine that sleeps RetryDelay.
PostFailsAndRetries(w) ==
  /\ Posted(w, FALSE)
  /\ Retryable(job[w])
  /\ attempt' = [attempt EXCEPT ![job[w]] = @ + 1]
  /\ sleeping' = sleeping \cup {job[w]}
  /\ UNCHANGED ended

\* The last attempt failed.  The other failure that is not retried, that of
\* generatePayload, does not happen: no event is nil, and the one template is
\* rendered with every key that it names.
PostFailsForGood(w) ==
  /\ Posted(w, FALSE)
  /\ ~Retryable(job[w])
  /\ ended' = [ended EXCEPT ![job[w]] = "failed"]
  /\ UNCHANGED <<attempt, sleeping>>

\* recordResult, and the worker is back at its select.
Record(w) ==
  /\ at[w] = "recording"
  /\ stats' = [stats EXCEPT !.sent = @ + 1, !.active = @ - 1,
                            !.succeeded = @ + (IF success[w] THEN 1 ELSE 0),
                            !.failed = @ + (IF success[w] THEN 0 ELSE 1)]
  /\ at' = [at EXCEPT ![w] = "idle"]
  /\ UNCHANGED <<queue, closed, cancelled, job, success, attempt, headerVars,
                 sleeping, callVars, history, panic>>

\* Faulty variant: the retry goroutine sends in a loop.
StillSleeping(t) == sleeping

Woken(t) == sleeping \ {t}

Requeue(t) ==
  /\ t \in sleeping
  /\ ~closed /\ HasRoom
  /\ queue' = Append(queue, t)
  /\ sleeping' = Woken(t)
  /\ UNCHANGED <<closed, cancelled, workerVars, attempt, callVars,
                 headerVars, stats, history, panic>>

\* The queue is full: the retry is dropped, with a log line only.
DropRetry(t) ==
  /\ t \in sleeping
  /\ ~closed /\ ~HasRoom
  /\ ended' = [ended EXCEPT ![t] = "dropped"]
  /\ sleeping' = Woken(t)
  /\ UNCHANGED <<queue, closed, cancelled, workerVars, attempt, callVars,
                 headerVars, stats, posts, panic>>

RetryOnClosed(t) ==
  /\ t \in sleeping
  /\ closed
  /\ panic' = "retry"
  /\ UNCHANGED <<queue, closed, cancelled, workerVars, attempt, headerVars,
                 sleeping, callVars, stats, history>>

-----------------------------------------------------------------------------
(* Stop *)

Cancel == /\ ~cancelled
          /\ cancelled' = TRUE
          /\ UNCHANGED <<queue, closed, workerVars, attempt, headerVars,
                         sleeping, callVars, stats, history, panic>>

\* Faulty variant: Stop does not wait for the posts in flight.
SomeWorkerGone == \A w \in Workers : at[w] # "idle"

WorkersGone == \A w \in Workers : at[w] \in {"off", "exited"}

\* wg.Wait() returns, and the channel is closed over whatever it still holds.
CloseQueue == /\ cancelled /\ ~closed
              /\ WorkersGone
              /\ closed' = TRUE
              /\ UNCHANGED <<queue, cancelled, workerVars, attempt,
                             headerVars, sleeping, callVars, stats, history,
                             panic>>

-----------------------------------------------------------------------------
Work(w) == \/ Take(w) \/ WriteHeaders(w) \/ HeadersWritten(w)
           \/ PostSucceeds(w) \/ PostFailsAndRetries(w) \/ PostFailsForGood(w)
           \/ Record(w)

Wake(t) == Requeue(t) \/ DropRetry(t) \/ RetryOnClosed(t)

Next == /\ panic = "no"
        /\ \/ Start \/ Cancel \/ CloseQueue
           \/ \E e \in Events : SendNotification(e)
           \/ \E w \in Workers : Work(w) \/ Exit(w)
           \/ \E t \in Tasks : Wake(t)

\* Goroutines are scheduled, an HTTP request ends within webhook.Timeout, a
\* sleep ends, and Stop runs on once called.  Whether Start and Stop are
\* called at all is the caller's business.
Fairness ==
  /\ \A e \in Events : WF_vars(panic = "no" /\ call[e] > 0 /\ SendNotification(e))
  /\ \A w \in Workers : /\ WF_vars(panic = "no" /\ Work(w))
                        /\ WF_vars(panic = "no" /\ Exit(w))
  /\ \A t \in Tasks : WF_vars(panic = "no" /\ Wake(t))
  /\ WF_vars(panic = "no" /\ CloseQueue)

Spec == Init /\ [][Next]_vars /\ Fairness

-----------------------------------------------------------------------------
(* Properties *)

Queued(t)  == \E i \in 1..Len(queue) : queue[i] = t
Posting(t) == \E w \in Workers : at[w] = "posting" /\ job[w] = t
Live(t)    == Queued(t) \/ Posting(t) \/ t \in sleeping

\* A task is in one place only: once in the queue, or with one worker, or with
\* one retry goroutine; and in none of them once it ended.  Nothing locks a
\* *NotificationTask: two owners of one would race on task.Attempt and post it
\* twice.
OnePlace ==
  /\ \A i, j \in 1..Len(queue) : queue[i] = queue[j] => i = j
  /\ \A v, w \in Workers : (at[v] = "posting" /\ at[w] = "posting"
                              /\ job[v] = job[w]) => v = w
  /\ \A t \in Tasks : /\ ~(Queued(t) /\ Posting(t))
                      /\ ~(Queued(t) /\ t \in sleeping)
                      /\ ~(Posting(t) /\ t \in sleeping)
                      /\ ended[t] # "no" => ~Live(t)

\* However posts, sleeps, drops and shutdown interleave, a webhook is posted
\* an event at most RetryCount + 1 times.
AttemptsBounded == \A t \in Tasks : posts[t] <= RetryCount[t[2]] + 1

\* SendNotification returns an error exactly when some webhook wanted the
\* event and the queue refused it for every one of them; a partly refused
\* event is reported as sent.
ErrorMeansNothingQueued ==
  \A e \in Events : ret[e] # "none" =>
    (ret[e] = "error" <=> /\ Eligible(e) # {}
                          /\ \A w \in Eligible(e) : ended[<<e, w>>] = "refused")

BusyWorkers == {w \in Workers : at[w] \in Busy}
Successes   == {w \in Workers : at[w] = "recording" /\ success[w]}
EndedAs(s)  == {t \in Tasks : ended[t] = s}

\* The statistics agree with what happened: every recorded result is a success
\* or a failure, none is lost, and ActiveWorkers counts the busy workers, so
\* it is zero again after Stop.
StatsAgree ==
  /\ stats.sent = stats.succeeded + stats.failed
  /\ stats.active = Cardinality(BusyWorkers)
  /\ stats.succeeded + Cardinality(Successes) = Cardinality(EndedAs("delivered"))
  /\ stats.queueFull = Cardinality(EndedAs("refused"))

\* Whatever happens to a task, the books are right: the types, the statistics
\* and what SendNotification answered.
TasksAccounted == TypeOK /\ StatsAgree /\ ErrorMeansNothingQueued

\* Once the channel is closed no worker runs, so nothing is posted any more:
\* what is still queued is lost, never half delivered.
ClosedIsQuiet ==
  closed => cancelled /\ \A w \in Workers : at[w] \in {"off", "exited"}

\* Without a shutdown every task a worker pool accepted ends: delivered,
\* failed after its last attempt, or dropped by a full queue.
EveryTaskEnds ==
  \A t \in Tasks :
    (Live(t) /\ ~WorkersGone) ~> (ended[t] # "no" \/ cancelled \/ panic # "no")

\* Stop always returns: the workers leave although the queue still has tasks
\* and failed posts keep refilling it, unless the process went down first.
StopReturns == cancelled ~> (closed \/ panic # "no")

\* "Stop stops the notification service gracefully" (notifier.go:653): no
\* retry goroutine that was asleep when Stop closed the channel brings the
\* process down.
GracefulStop == panic # "retry"

\* "Create a deep copy to avoid race conditions" (notifier.go:1067) is how this
\* code treats a shared map: no two workers are in a webhook's header map while
\* one of them writes it.
HeadersHaveOneWriter ==
  \A v, w \in writing : job[v][2] = job[w][2] => v = w

status == [t \in Tasks |-> IF ended[t] # "no" THEN ended[t]
                           ELSE IF Live(t) THEN "pending" ELSE "none"]

Promise == INSTANCE Outbox WITH
             Budget <- [t \in Tasks |-> RetryCount[t[2]] + 1],
             status <- status, tries <- posts

\* The queue, the workers and the timers keep the per-task promise of Outbox.
KeepsPromise == Promise!Spec
=============================================================================
