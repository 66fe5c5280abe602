----------------------------- MODULE Application -----------------------------
(***************************************************************************)
(* The application (internal/app/app.go): it creates the components one by *)
(* one, forwards every valid trap through the event processor and the      *)
(* storage to the notifier, and closes the components while workers of the *)
(* listener may still be handling traps.  The metrics manager is Metrics,  *)
(* whose variables this module shares; what the other components do inside *)
(* is in their own modules: here each is absent, created, started, closed. *)
(***************************************************************************)
EXTENDS Metrics, Sequences, FiniteSets

CONSTANTS Traps,      \* the traps that reach the listener and are valid
          Workers,    \* max_handlers handler goroutines
          QueueSize,  \* room for notification tasks
          MaxTicks    \* bound: ticks of the statistics updater

Idle == "idle"

ASSUME ApplicationAssumption ==
  /\ QueueSize \in Nat /\ MaxTicks \in Nat
  /\ IsFiniteSet(Traps) /\ IsFiniteSet(Workers)
  /\ "none" \notin Traps

Signals == {"SIGINT", "SIGTERM", "SIGHUP"}

\* The order of Initialize.  Infrastructure stands for its hot reload.
InitOrder == <<"metrics", "mib", "infra", "storage", "correlator", "notifier",
               "processor", "listener">>

\* Faulty variant: the components are closed in the order they were created.
CreationOrder == <<"metrics", "storage", "infra", "notifier", "processor", "listener">>

\* The order of Shutdown.
StopOrder == <<"listener", "processor", "notifier", "infra", "storage", "metrics">>

Components == {InitOrder[i] : i \in 1..Len(InitOrder)}

VARIABLES
  phase,     \* "initializing", "initialized", "running", "stopping", "stopped"
             \* or "failed" (runServer returns an error)
  comps,     \* state of each component
  ctxDone,   \* a.ctx is done
  signal,    \* the signal that Run received
  stop,      \* where Shutdown is in StopOrder
  updater,   \* statsUpdater: off, select, updating, exited
  ticks,     \* ticks of its timer so far
  unsent,    \* traps that have not arrived yet
  waiting,   \* valid traps in the listener's channel
  at,        \* program counter of each worker in handleTrap
  job,       \* the trap a worker handles
  stats,     \* AppStats: TotalTrapsReceived, Processed, Failed
  exported,  \* TrapMetrics: TrapsReceived, Processed, Failed
  tasks      \* notification tasks enqueued

workVars  == <<at, job>>
countVars == <<stats, exported>>
lifeVars  == <<phase, comps, ctxDone, signal, stop, metricsVars>>
tickVars  == <<updater, ticks>>
trapVars  == <<unsent, waiting, workVars, countVars, tasks>>
vars == <<lifeVars, tickVars, trapVars>>

Counters == [received: 0..Cardinality(Traps), processed: 0..Cardinality(Traps),
             failed: 0..Cardinality(Traps)]
Inside == {"receive", "process", "count", "fetch", "send"}

TypeOK ==
  /\ phase \in {"initializing", "initialized", "running", "stopping", "stopped", "failed"}
  /\ comps \in [Components -> {"absent", "created", "started", "closed"}]
  /\ MetricsTypeOK /\ ctxDone \in BOOLEAN
  /\ signal \in Signals \cup {"none"}
  /\ stop \in 0..Len(StopOrder) + 1
  /\ updater \in {"off", "select", "updating", "exited"}
  /\ ticks \in 0..MaxTicks
  /\ unsent \subseteq Traps /\ waiting \subseteq Traps
  /\ at \in [Workers -> {"off", Idle, "exited"} \cup Inside]
  /\ job \in [Workers -> Traps \cup {"none"}]
  /\ stats \in Counters /\ exported \in Counters
  /\ tasks \subseteq Traps /\ Cardinality(tasks) <= QueueSize

Zero == [received |-> 0, processed |-> 0, failed |-> 0]

Init ==
  /\ phase = "initializing"
  /\ comps = [c \in Components |-> "absent"]
  /\ MetricsInit /\ ctxDone = FALSE /\ signal = "none" /\ stop = 0
  /\ updater = "off" /\ ticks = 0
  /\ unsent = Traps /\ waiting = {}
  /\ at = [w \in Workers |-> "off"] /\ job = [w \in Workers |-> "none"]
  /\ stats = Zero /\ exported = Zero /\ tasks = {}

-----------------------------------------------------------------------------
(* Initialize and Run *)

\* The notifier is created and never started, the listener is started by Run;
\* the others start with what Initialize calls.
Made(c) == IF c \in {"notifier", "listener"} THEN "created" ELSE "started"

InitializeNext ==
  /\ phase = "initializing"
  /\ \E i \in 1..Len(InitOrder) :
       /\ comps[InitOrder[i]] = "absent"
       /\ \A j \in 1..i - 1 : comps[InitOrder[j]] # "absent"
       /\ comps' = [comps EXCEPT ![InitOrder[i]] = Made(InitOrder[i])]
       /\ phase' = IF i = Len(InitOrder) THEN "initialized" ELSE phase
       /\ IF InitOrder[i] = "metrics" THEN StartMetrics("app", TRUE)
          ELSE UNCHANGED metricsVars
  /\ UNCHANGED <<ctxDone, signal, stop, tickVars, trapVars>>

\* A component cannot be created, or the socket not be bound: the process ends.
\* The metrics manager does not fail: its server starts in a goroutine.
Fail ==
  /\ phase \in {"initializing", "initialized"} /\ comps["metrics"] # "absent"
  /\ phase' = "failed"
  /\ UNCHANGED <<comps, ctxDone, signal, stop, metricsVars, tickVars, trapVars>>

Run ==
  /\ phase = "initialized"
  /\ phase' = "running"
  /\ comps' = [comps EXCEPT !["listener"] = "started"]
  /\ at' = [w \in Workers |-> Idle]
  /\ updater' = "select"
  /\ UNCHANGED <<ctxDone, signal, stop, metricsVars, ticks, unsent, waiting,
                 job, countVars, tasks>>

\* Any of the three signals starts Shutdown, which cancels the context first.
ReceiveSignal(s) ==
  /\ phase = "running"
  /\ phase' = "stopping" /\ signal' = s /\ ctxDone' = TRUE /\ stop' = 1
  /\ UNCHANGED <<comps, metricsVars, tickVars, trapVars>>

-----------------------------------------------------------------------------
(* handleTrap *)

\* The listener's reader, which looks at the context before each read, is left
\* out: traps may arrive until the socket is closed.
Arrive(t) ==
  /\ comps["listener"] = "started" /\ t \in unsent
  /\ unsent' = unsent \ {t}
  /\ waiting' = waiting \cup {t}
  /\ UNCHANGED <<lifeVars, tickVars, workVars, countVars, tasks>>

Take(w, t) ==
  /\ at[w] = Idle /\ t \in waiting
  /\ waiting' = waiting \ {t}
  /\ at' = [at EXCEPT ![w] = "receive"]
  /\ job' = [job EXCEPT ![w] = t]
  /\ UNCHANGED <<lifeVars, tickVars, unsent, countVars, tasks>>

\* Faulty variant: a worker waits for traps only.
LeavesNever == FALSE
Leaves == ctxDone \/ (comps["listener"] = "closed" /\ waiting = {})

Leave(w) ==
  /\ at[w] = Idle /\ Leaves
  /\ at' = [at EXCEPT ![w] = "exited"]
  /\ UNCHANGED <<lifeVars, tickVars, unsent, waiting, job, countVars, tasks>>

CountReceived(w) ==
  /\ at[w] = "receive"
  /\ stats' = [stats EXCEPT !.received = @ + 1]
  /\ exported' = [exported EXCEPT !.received = @ + 1]
  /\ at' = [at EXCEPT ![w] = "process"]
  /\ UNCHANGED <<lifeVars, tickVars, unsent, waiting, job, tasks>>

\* ProcessEventSync enriches, correlates and stores; each may fail.
Processed(w) ==
  /\ at[w] = "process"
  /\ at' = [at EXCEPT ![w] = "count"]
  /\ UNCHANGED <<lifeVars, tickVars, unsent, waiting, job, countVars, tasks>>

\* Faulty variant: the failure is only logged.
FailureLogged == stats
FailureCounted == [stats EXCEPT !.failed = @ + 1]

\* ProcessEventSync reports a failure in its result and never returns an
\* error, so only the second of handleTrap's two error branches is reached.
Failed(w) ==
  /\ at[w] = "process"
  /\ stats' = FailureCounted
  /\ at' = [at EXCEPT ![w] = Idle]
  /\ job' = [job EXCEPT ![w] = "none"]
  /\ UNCHANGED <<lifeVars, tickVars, unsent, waiting, exported, tasks>>

CountProcessed(w) ==
  /\ at[w] = "count"
  /\ stats' = [stats EXCEPT !.processed = @ + 1]
  /\ exported' = [exported EXCEPT !.processed = @ + 1]
  /\ at' = [at EXCEPT ![w] = "fetch"]
  /\ UNCHANGED <<lifeVars, tickVars, unsent, waiting, job, tasks>>

Done(w) == /\ at' = [at EXCEPT ![w] = Idle]
           /\ job' = [job EXCEPT ![w] = "none"]

\* storage.GetEvent: the event may have been removed meanwhile.
Fetch(w) ==
  /\ at[w] = "fetch"
  /\ at' = [at EXCEPT ![w] = "send"]
  /\ UNCHANGED <<lifeVars, tickVars, unsent, waiting, job, countVars, tasks>>

FetchFails(w) ==
  /\ at[w] = "fetch" /\ Done(w)
  /\ UNCHANGED <<lifeVars, tickVars, unsent, waiting, countVars, tasks>>

HasRoom == Cardinality(tasks) < QueueSize

\* A task that finds the queue full is lost; the error is logged.
SendNotification(w) ==
  /\ at[w] = "send" /\ Done(w)
  /\ tasks' = IF HasRoom THEN tasks \cup {job[w]} ELSE tasks
  /\ UNCHANGED <<lifeVars, tickVars, unsent, waiting, countVars>>

HandleTrap(w) ==
  CountReceived(w) \/ Processed(w) \/ Failed(w) \/ CountProcessed(w)
    \/ Fetch(w) \/ FetchFails(w) \/ SendNotification(w)

-----------------------------------------------------------------------------
(* statsUpdater: when the context is done and the timer fired, select takes *)
(* either, so statistics may be collected from closed components.           *)

Tick ==
  /\ updater = "select" /\ ticks < MaxTicks
  /\ updater' = "updating" /\ ticks' = ticks + 1
  /\ UNCHANGED <<lifeVars, trapVars>>

UpdateStats ==
  /\ updater = "updating" /\ updater' = "select"
  /\ UNCHANGED <<lifeVars, ticks, trapVars>>

UpdaterExits ==
  /\ updater = "select" /\ ctxDone
  /\ updater' = "exited"
  /\ UNCHANGED <<lifeVars, ticks, trapVars>>

-----------------------------------------------------------------------------
(* Shutdown *)

WorkersGone == \A w \in Workers : at[w] = "exited"

\* Each Close or Stop ends; the listener's waits for its workers, and has
\* closed its socket and channel before.
CloseSocket ==
  /\ phase = "stopping" /\ stop <= Len(StopOrder)
  /\ StopOrder[stop] = "listener" /\ comps["listener"] = "started"
  /\ comps' = [comps EXCEPT !["listener"] = "closed"]
  /\ UNCHANGED <<phase, ctxDone, signal, stop, metricsVars, tickVars, trapVars>>

ListenerStopped ==
  /\ phase = "stopping" /\ stop <= Len(StopOrder)
  /\ StopOrder[stop] = "listener" /\ comps["listener"] = "closed" /\ WorkersGone
  /\ stop' = stop + 1
  /\ UNCHANGED <<phase, comps, ctxDone, signal, metricsVars, tickVars, trapVars>>

CloseNext ==
  /\ phase = "stopping" /\ stop <= Len(StopOrder)
  /\ StopOrder[stop] \notin {"listener", "metrics"}
  /\ comps' = [comps EXCEPT ![StopOrder[stop]] = "closed"]
  /\ stop' = stop + 1
  /\ UNCHANGED <<phase, ctxDone, signal, metricsVars, tickVars, trapVars>>

StopMetrics ==
  /\ phase = "stopping" /\ stop <= Len(StopOrder) /\ StopOrder[stop] = "metrics"
  /\ \/ /\ CancelCollector \/ ShutdownServer
        /\ UNCHANGED <<comps, stop>>
     \/ /\ MetricsStopped
        /\ comps' = [comps EXCEPT !["metrics"] = "closed"]
        /\ stop' = stop + 1
  /\ UNCHANGED <<phase, ctxDone, signal, tickVars, trapVars>>

\* The timeout bounds this last wait and no other.
Return ==
  /\ phase = "stopping" /\ stop > Len(StopOrder)
  /\ phase' = "stopped"
  /\ UNCHANGED <<comps, ctxDone, signal, stop, metricsVars, tickVars, trapVars>>

Shutdown == CloseSocket \/ ListenerStopped \/ CloseNext \/ StopMetrics \/ Return

MetricsRun == /\ Background
              /\ UNCHANGED <<phase, comps, ctxDone, signal, stop, tickVars, trapVars>>


-----------------------------------------------------------------------------
Next ==
  /\ phase \notin {"stopped", "failed"}
  /\ \/ InitializeNext \/ Fail \/ Run \/ Shutdown
     \/ Tick \/ UpdateStats \/ UpdaterExits \/ MetricsRun
     \/ \E s \in Signals : ReceiveSignal(s)
     \/ \E t \in Traps : Arrive(t)
     \/ \E w \in Workers :
          Leave(w) \/ HandleTrap(w) \/ \E t \in Traps : Take(w, t)

\* Goroutines are scheduled; a trap may be taken or not when the context is
\* done as well, so only leaving is fair.  The collector's timer never stops,
\* but a select picks at random between it and the done context: in the end it
\* picks the context.
Fairness ==
  /\ WF_vars(InitializeNext) /\ WF_vars(Run) /\ WF_vars(Shutdown)
  /\ \A w \in Workers : WF_vars(HandleTrap(w)) /\ WF_vars(Leave(w))
  /\ WF_vars(MetricsRun /\ ServerReturns) /\ WF_vars(MetricsRun /\ CollectorUpdates)
  /\ SF_vars(MetricsRun /\ CollectorExits)

Spec == Init /\ [][Next]_vars /\ Fairness

-----------------------------------------------------------------------------
(* Properties *)

Handling(w) == at[w] \in Inside

\* Whatever the order in which a signal, the workers and Shutdown take their
\* steps, no worker handles a trap with a component that is closed already or
\* not there yet.
ComponentsThere ==
  \A w \in Workers : Handling(w) =>
    /\ \A c \in {"metrics", "mib", "storage", "correlator", "processor"} :
         comps[c] = "started"
    /\ comps["notifier"] = "created"

\* No goroutine of the metrics manager outlives its Stop, and each of them
\* runs only after Start.
MetricsEndWithStop ==
  comps["metrics"] # "started" => {server, collector} \cap {"serving", "select", "updating"} = {}

\* No worker uses a component outside of its life, and no goroutine of the metrics
\* runs outside of theirs.  Nothing is said of statsUpdater, which may ask a closed
\* storage for its statistics (app.go:619-648).
LivesRespected == ComponentsThere /\ MetricsEndWithStop

\* Each trap received is processed, failed or still being handled: none is
\* counted twice or forgotten on one of handleTrap's early returns.
TrapsAccounted ==
  stats.received = stats.processed + stats.failed
                     + Cardinality({w \in Workers : at[w] \in {"process", "count"}})

\* The types, and every trap is accounted for.
EveryTrapAccounted == TypeOK /\ TrapsAccounted

\* Shutdown returns, also when a signal arrives while every worker is busy.
ShutdownEnds == phase = "stopping" ~> phase = "stopped"

\* "Readiness probe that indicates if the service is ready to accept traffic"
\* (docs/api.md:49): a running service becomes ready.
BecomesReady ==
  phase = "running" /\ server = "serving" ~> ReadyStatus = 200 \/ phase # "running"

\* "503 Service Unavailable: Service is not healthy" (docs/api.md:36): while a
\* component of the running service is not started, its health is not good.
HealthIsTold ==
  phase = "running" /\ server = "serving" /\ (\E c \in Components : comps[c] # "started")
    => HealthStatus = 503

\* "Total number of SNMP traps that failed processing" (docs/api.md:130): the
\* exported counter counts the failures the application counts.
FailuresExported == exported.failed = stats.failed

\* "Notification: Webhook delivery to configured endpoints"
\* (docs/architecture.md:199): when the application runs, so does everything
\* a trap passes through.
EverythingStarted ==
  phase = "running" => \A c \in Components : comps[c] = "started"

\* "Wait for in-flight operations to complete" (.augment/rules/development.md:
\* 169): Shutdown leaves no accepted trap behind in the channel.
AcceptedIsHandled == phase = "stopped" => waiting = {}

\* "Proper cleanup of background workers" (docs/architecture.md:247): whatever
\* Initialize or Run started a goroutine of is closed when Shutdown returns.
GoroutinesEnded ==
  phase = "stopped" => \A c \in Components \ {"correlator"} : comps[c] # "started"

\* "ExecReload=/bin/kill -HUP $MAINPID" (docs/deployment.md:327): a hangup
\* reloads and does not end the service.
HangupDoesNotStop == [][phase' = "stopping" => phase = "stopping" \/ signal' # "SIGHUP"]_vars
=============================================================================
