-------------------------- MODULE ApplicationProofs --------------------------
(***************************************************************************)
(* Proofs about Application and the Metrics it extends, for any traps, any *)
(* number of workers, any room for notification tasks and metrics on or    *)
(* off.  IInv says which components are in use in each phase and at each   *)
(* place in Shutdown, which phases have workers, what the goroutines of    *)
(* the metrics manager may do, where a trap is, and what was counted.      *)
(***************************************************************************)
EXTENDS Application, FiniteSetTheorems, TLAPS

-----------------------------------------------------------------------------
(* The invariant *)

\* The types, with counters that are not known to be bounded yet.
Natural == [received: Nat, processed: Nat, failed: Nat]

Types ==
  /\ phase \in {"initializing", "initialized", "running", "stopping", "stopped", "failed"}
  /\ comps \in [Components -> {"absent", "created", "started", "closed"}]
  /\ MetricsTypeOK /\ ctxDone \in BOOLEAN
  /\ signal \in Signals \cup {"none"}
  /\ stop \in 0..Len(StopOrder) + 1
  /\ updater \in {"off", "select", "updating", "exited"}
  /\ ticks \in 0..MaxTicks
  /\ unsent \subseteq Traps /\ waiting \subseteq Traps
  /\ at \in [Workers -> {"off", Idle, "exited"} \cup Inside]
  /\ job \in [Workers -> Traps \cup {"none"}]
  /\ stats \in Natural /\ exported \in Natural
  /\ tasks \subseteq Traps /\ Cardinality(tasks) <= QueueSize

\* What handleTrap uses is there.
InUse ==
  /\ \A c \in {"metrics", "mib", "storage", "correlator", "processor"} :
       comps[c] = "started"
  /\ comps["notifier"] = "created"

\* From the end of Initialize until Shutdown has stopped the listener, which
\* is the first thing it stops, everything is in use; the metrics go last.
LifeOK ==
  /\ phase \in {"stopping", "stopped"} <=> stop # 0
  /\ phase = "stopped" => stop = Len(StopOrder) + 1
  /\ phase = "initializing" => \A c \in Components : comps[c] \in {"absent", Made(c)}
  /\ phase \in {"initialized", "running"} \/ stop = 1 => InUse
  /\ stop \in 2..Len(StopOrder) => comps["metrics"] = "started"

\* No worker before Run, none once the listener's Stop has waited for them.
WorkersOK ==
  /\ phase \in {"initializing", "initialized", "failed"} => \A w \in Workers : at[w] = "off"
  /\ stop >= 2 => WorkersGone

\* The goroutines of the metrics manager run only if metrics are enabled, start
\* with the manager and are gone when its Stop returns.
MetricsOK ==
  /\ comps["metrics"] # "created"
  /\ comps["metrics"] = "absent" => server = "off" /\ collector = "off" /\ stopping = "no"
  /\ comps["metrics"] = "closed" => stopping = "returned"
  /\ stopping = "returned" => {server, collector} \subseteq {"off", "gone"}
  /\ ~enabled => server = "off" /\ collector = "off"

\* A trap has not arrived, waits or is with one worker, and a worker has one
\* while it is inside handleTrap.
OnePlace ==
  /\ unsent \cap waiting = {}
  /\ \A w \in Workers : job[w] # "none" <=> Handling(w)
  /\ \A w \in Workers : job[w] \notin unsent \cup waiting
  /\ \A v, w \in Workers : job[v] = job[w] /\ job[v] # "none" => v = w

\* The traps handleTrap has not counted, and the workers that have one which
\* is counted as received and neither as processed nor as failed.
AtReceive == {t \in Traps : \E w \in Workers : at[w] = "receive" /\ job[w] = t}
Uncounted == unsent \cup waiting \cup AtReceive
Pending   == {w \in Workers : at[w] \in {"process", "count"}}

\* The counters are exact, and those that are exported agree with them, but
\* for the failures.
CountOK ==
  /\ stats.received + Cardinality(Uncounted) = Cardinality(Traps)
  /\ stats.received = stats.processed + stats.failed + Cardinality(Pending)
  /\ exported = [received |-> stats.received, processed |-> stats.processed, failed |-> 0]

IInv == Types /\ LifeOK /\ WorkersOK /\ MetricsOK /\ OnePlace /\ CountOK

-----------------------------------------------------------------------------
(* The components and the two orders *)

\* What InitOrder and StopOrder hold.
LEMMA Orders ==
  /\ Len(InitOrder) = 8 /\ InitOrder[1] = "metrics" /\ InitOrder[8] = "listener"
  /\ Components = {"metrics", "mib", "infra", "storage", "correlator", "notifier",
                   "processor", "listener"}
  /\ \A i \in 1..8 : InitOrder[i] \in Components
  /\ \A i \in 2..8 : InitOrder[i] # "metrics"
  /\ \A c \in Components \ {"listener"} : \E i \in 1..7 : InitOrder[i] = c
  /\ Len(StopOrder) = 6 /\ StopOrder[1] = "listener" /\ StopOrder[6] = "metrics"
  /\ \A i \in 2..5 : StopOrder[i] \in Components \ {"listener", "metrics"}
<1>1. /\ Len(InitOrder) = 8
      /\ InitOrder[1] = "metrics" /\ InitOrder[2] = "mib" /\ InitOrder[3] = "infra"
      /\ InitOrder[4] = "storage" /\ InitOrder[5] = "correlator"
      /\ InitOrder[6] = "notifier" /\ InitOrder[7] = "processor" /\ InitOrder[8] = "listener"
  BY DEF InitOrder
<1>2. 1..8 = {1, 2, 3, 4, 5, 6, 7, 8}
  OBVIOUS
<1>3. Components = {"metrics", "mib", "infra", "storage", "correlator", "notifier",
                    "processor", "listener"}
  BY <1>1, <1>2 DEF Components
<1>4. /\ Len(StopOrder) = 6
      /\ StopOrder[1] = "listener" /\ StopOrder[2] = "processor" /\ StopOrder[3] = "notifier"
      /\ StopOrder[4] = "infra" /\ StopOrder[5] = "storage" /\ StopOrder[6] = "metrics"
  BY DEF StopOrder
<1>5. \A i \in 2..5 : StopOrder[i] \in Components \ {"listener", "metrics"}
  BY <1>3, <1>4
<1>6. \A i \in 2..8 : InitOrder[i] # "metrics"
  BY <1>1
<1>7. \A c \in Components \ {"listener"} : \E i \in 1..7 : InitOrder[i] = c
  BY <1>1, <1>2, <1>3
<1>8. QED
  BY <1>1, <1>2, <1>3, <1>4, <1>5, <1>6, <1>7 DEF Components

-----------------------------------------------------------------------------
(* The actions, by what they move *)

\* Shutdown, Initialize and Run.
Life == \/ InitializeNext \/ Fail \/ Run \/ Shutdown
        \/ \E s \in Signals : ReceiveSignal(s)

\* The goroutines beside them.
Beside == Tick \/ UpdateStats \/ UpdaterExits \/ MetricsRun

\* The steps of a worker that count nothing.
Quiet(w) == Leave(w) \/ Processed(w) \/ Fetch(w) \/ FetchFails(w) \/ SendNotification(w)

Work == \/ \E t \in Traps : Arrive(t)
        \/ \E w \in Workers : \/ Quiet(w) \/ CountReceived(w) \/ CountProcessed(w) \/ Failed(w)
                              \/ \E t \in Traps : Take(w, t)

\* Every step is of one of these kinds.
LEMMA NextSplits == [Next]_vars => Life \/ Beside \/ Work \/ UNCHANGED vars
BY DEF Next, Life, Beside, Work, Quiet, HandleTrap

\* What Initialize, Run and Shutdown leave alone: nothing moves but the workers
\* that Run launches.
LEMMA LifeStill ==
  ASSUME Life
  PROVE  /\ UNCHANGED <<unsent, waiting, job, countVars, tasks, ticks>>
         /\ at' = at \/ Run
BY DEF Life, InitializeNext, Fail, Run, Shutdown, CloseSocket, ListenerStopped, CloseNext,
       StopMetrics, Return, ReceiveSignal, trapVars, tickVars, workVars

\* The goroutines beside them move no trap and no component.
LEMMA BesideStill ==
  ASSUME Beside
  PROVE  UNCHANGED <<phase, comps, ctxDone, signal, stop, trapVars>>
BY DEF Beside, Tick, UpdateStats, UpdaterExits, MetricsRun, lifeVars

\* The way of a trap changes nothing of the life of the application.
LEMMA WorkStill ==
  ASSUME Work
  PROVE  UNCHANGED <<lifeVars, tickVars>>
BY DEF Work, Quiet, Arrive, Take, Leave, CountReceived, Processed, Failed, CountProcessed, Fetch,
       FetchFails, SendNotification

-----------------------------------------------------------------------------
(* The types *)

\* Initialize creates or starts.
LEMMA MadeType == \A c : Made(c) \in {"created", "started"}
BY DEF Made

\* Start and SetComponentHealth keep the types of the metrics manager.
LEMMA StartType ==
  ASSUME MetricsTypeOK, StartMetrics("app", TRUE)
  PROVE  MetricsTypeOK'
BY DEF MetricsTypeOK, StartMetrics

\* So do its goroutines and its Stop.
LEMMA MetricsType ==
  ASSUME MetricsTypeOK,
         Background \/ CancelCollector \/ ShutdownServer \/ MetricsStopped \/ UNCHANGED metricsVars
  PROVE  MetricsTypeOK'
BY DEF MetricsTypeOK, Background, CancelCollector, ShutdownServer, MetricsStopped, metricsVars,
       ServerListens, ServerFails, ServerReturns, CollectorTick, CollectorUpdates, CollectorExits

\* The types hold at first.
LEMMA TypeInit == Init => Types
<1> SUFFICES ASSUME Init PROVE Types
  OBVIOUS
<1>1. MetricsTypeOK
  BY DEF Init, MetricsInit, MetricsTypeOK
<1>2. tasks = {} /\ Cardinality(tasks) = 0
  BY FS_EmptySet DEF Init
<1>3. stats \in Natural /\ exported \in Natural
  BY DEF Init, Zero, Natural
<1>4. stop \in 0..Len(StopOrder) + 1 /\ ticks \in 0..MaxTicks
  BY Orders, ApplicationAssumption DEF Init
<1>5. comps \in [Components -> {"absent", "created", "started", "closed"}]
  BY DEF Init
<1>6. /\ at \in [Workers -> {"off", Idle, "exited"} \cup Inside]
      /\ job \in [Workers -> Traps \cup {"none"}]
  BY DEF Init
<1>7. phase = "initializing" /\ updater = "off" /\ signal = "none" /\ ctxDone \in BOOLEAN
      /\ unsent = Traps /\ waiting = {}
  BY DEF Init
<1>8. tasks \subseteq Traps /\ Cardinality(tasks) <= QueueSize
  BY <1>2, ApplicationAssumption
<1>9. QED
  BY <1>1, <1>3, <1>4, <1>5, <1>6, <1>7, <1>8 DEF Types

\* Initialize, Run and Shutdown keep the types.
LEMMA TypeLife ==
  ASSUME Types, Life
  PROVE  Types'
<1>1. UNCHANGED <<unsent, waiting, job, countVars, tasks, ticks>> /\ (at' = at \/ Run)
  BY LifeStill
<1>2. at' \in [Workers -> {"off", Idle, "exited"} \cup Inside]
  BY <1>1 DEF Types, Run
<1>3. stop \in 0..7
  BY Orders DEF Types
<1>4. CASE InitializeNext
  <2>1. PICK i \in 1..Len(InitOrder) :
          /\ comps' = [comps EXCEPT ![InitOrder[i]] = Made(InitOrder[i])]
          /\ phase' = IF i = Len(InitOrder) THEN "initialized" ELSE phase
          /\ IF InitOrder[i] = "metrics" THEN StartMetrics("app", TRUE)
             ELSE UNCHANGED metricsVars
    BY <1>4 DEF InitializeNext
  <2>2. MetricsTypeOK'
    BY <2>1, StartType, MetricsType DEF Types
  <2>3. comps' \in [Components -> {"absent", "created", "started", "closed"}]
    BY <2>1, MadeType DEF Types
  <2>4. UNCHANGED <<ctxDone, signal, stop, updater>>
    BY <1>4 DEF InitializeNext, tickVars
  <2>5. QED
    BY <1>1, <1>2, <2>1, <2>2, <2>3, <2>4 DEF Types, countVars
<1>5. CASE Fail \/ (\E s \in Signals : ReceiveSignal(s)) \/ Return
  <2>1. UNCHANGED <<comps, metricsVars, updater>>
    BY <1>5 DEF Fail, ReceiveSignal, Return, tickVars
  <2>2. MetricsTypeOK'
    BY <2>1, MetricsType DEF Types
  <2>3. phase' \in {"failed", "stopping", "stopped"}
    BY <1>5 DEF Fail, ReceiveSignal, Return
  <2>4. ctxDone' \in BOOLEAN /\ signal' \in Signals \cup {"none"}
    BY <1>5 DEF Fail, ReceiveSignal, Return, Types
  <2>5. stop' \in 0..Len(StopOrder) + 1
    BY <1>5, <1>3, Orders DEF Fail, ReceiveSignal, Return, Types
  <2>6. QED
    BY <1>1, <1>2, <2>1, <2>2, <2>3, <2>4, <2>5 DEF Types, countVars
<1>6. CASE Run
  <2>1. UNCHANGED metricsVars /\ MetricsTypeOK'
    BY <1>6, MetricsType DEF Run, Types
  <2>2. QED
    BY <1>1, <1>2, <1>6, <2>1 DEF Run, Types, countVars
<1>7. CASE CloseSocket \/ ListenerStopped \/ CloseNext \/ StopMetrics
  <2>1. UNCHANGED <<phase, ctxDone, signal, updater>>
    BY <1>7 DEF CloseSocket, ListenerStopped, CloseNext, StopMetrics, tickVars
  <2>2. MetricsTypeOK'
    BY <1>7, MetricsType DEF CloseSocket, ListenerStopped, CloseNext, StopMetrics, Types
  <2>3. stop' = stop \/ (stop <= Len(StopOrder) /\ stop' = stop + 1)
    BY <1>7 DEF CloseSocket, ListenerStopped, CloseNext, StopMetrics
  <2>4. stop' \in 0..Len(StopOrder) + 1
    BY <1>3, <2>3, Orders
  <2>5. comps' = comps \/ \E c : comps' = [comps EXCEPT ![c] = "closed"]
    BY <1>7 DEF CloseSocket, ListenerStopped, CloseNext, StopMetrics
  <2>6. comps' \in [Components -> {"absent", "created", "started", "closed"}]
    BY <2>5 DEF Types
  <2>7. QED
    BY <1>1, <1>2, <2>1, <2>2, <2>4, <2>6 DEF Types, countVars
<1>8. QED
  BY <1>4, <1>5, <1>6, <1>7 DEF Life, Shutdown

\* The updater and the metrics manager keep the types.
LEMMA TypeBeside ==
  ASSUME Types, Beside
  PROVE  Types'
<1>1. UNCHANGED <<phase, comps, ctxDone, signal, stop, trapVars>>
  BY BesideStill
<1>2. MetricsTypeOK'
  BY MetricsType DEF Beside, Tick, UpdateStats, UpdaterExits, MetricsRun, lifeVars, Types
<1>3. updater' \in {"off", "select", "updating", "exited"} /\ ticks' \in 0..MaxTicks
  BY ApplicationAssumption
     DEF Beside, Tick, UpdateStats, UpdaterExits, MetricsRun, tickVars, Types
<1>4. QED
  BY <1>1, <1>2, <1>3 DEF Types, trapVars, workVars, countVars

\* The steps on the way of a trap keep the types; the tasks stay within their room.
LEMMA TypeWork ==
  ASSUME Types, OnePlace, Work
  PROVE  Types'
<1>1. UNCHANGED <<lifeVars, tickVars>>
  BY WorkStill
<1>2. MetricsTypeOK'
  BY <1>1, MetricsType DEF lifeVars, Types
<1>3. at' \in [Workers -> {"off", Idle, "exited"} \cup Inside]
  BY DEF Work, Quiet, Arrive, Take, Leave, CountReceived, Processed, Failed, CountProcessed, Fetch,
         FetchFails, SendNotification, Done, workVars, Types, Inside
<1>4. job' \in [Workers -> Traps \cup {"none"}]
  BY DEF Work, Quiet, Arrive, Take, Leave, CountReceived, Processed, Failed, CountProcessed, Fetch,
         FetchFails, SendNotification, Done, workVars, Types
<1>5. unsent' \subseteq Traps /\ waiting' \subseteq Traps
  BY DEF Work, Quiet, Arrive, Take, Leave, CountReceived, Processed, Failed, CountProcessed, Fetch,
         FetchFails, SendNotification, Types
<1>6. stats' \in Natural /\ exported' \in Natural
  BY DEF Work, Quiet, Arrive, Take, Leave, CountReceived, Processed, Failed, CountProcessed, Fetch,
         FetchFails, SendNotification, FailureCounted, countVars, Natural, Types
<1>7. tasks' \subseteq Traps /\ Cardinality(tasks') <= QueueSize
  <2>1. CASE UNCHANGED tasks
    BY <2>1 DEF Types
  <2>2. ASSUME NEW w \in Workers, SendNotification(w), HasRoom, job[w] \in Traps
        PROVE  tasks' \subseteq Traps /\ Cardinality(tasks') <= QueueSize
    <3>1. tasks' = tasks \cup {job[w]}
      BY <2>2 DEF SendNotification
    <3>2. IsFiniteSet(tasks) /\ Cardinality(tasks) \in Nat
      BY ApplicationAssumption, FS_Subset, FS_CardinalityType DEF Types
    <3>3. Cardinality(tasks') \in {Cardinality(tasks), Cardinality(tasks) + 1}
      BY <3>1, <3>2, FS_AddElement
    <3>4. QED
      BY <2>2, <3>1, <3>2, <3>3, ApplicationAssumption DEF HasRoom, Types
  <2>3. ASSUME NEW w \in Workers, SendNotification(w)
        PROVE  job[w] \in Traps /\ (HasRoom \/ UNCHANGED tasks)
    BY <2>3 DEF SendNotification, Types, OnePlace, Handling, Inside
  <2>4. UNCHANGED tasks \/ \E w \in Workers : SendNotification(w)
    BY DEF Work, Quiet, Arrive, Take, Leave, CountReceived, Processed, Failed, CountProcessed,
           Fetch, FetchFails
  <2>5. QED
    BY <2>1, <2>2, <2>3, <2>4
<1>8. QED
  BY <1>1, <1>2, <1>3, <1>4, <1>5, <1>6, <1>7 DEF Types, lifeVars, tickVars

-----------------------------------------------------------------------------
(* The life of the components *)

\* At first there is no component, no worker and no metrics manager.
LEMMA LifeInit == Init => LifeOK /\ WorkersOK /\ MetricsOK
<1> SUFFICES ASSUME Init PROVE LifeOK /\ WorkersOK /\ MetricsOK
  OBVIOUS
<1>1. stop = 0 /\ phase = "initializing" /\ \A c \in Components : comps[c] = "absent"
  BY DEF Init
<1>2. \A w \in Workers : at[w] = "off"
  BY DEF Init
<1>3. server = "off" /\ collector = "off" /\ stopping = "no"
  BY DEF Init, MetricsInit
<1>4. LifeOK
  BY <1>1, Orders DEF LifeOK
<1>5. WorkersOK
  BY <1>1, <1>2 DEF WorkersOK
<1>6. MetricsOK
  BY <1>1, <1>3, Orders DEF MetricsOK
<1>7. QED  BY <1>4, <1>5, <1>6

\* Initialize creates what comes next in InitOrder, the listener last: when it
\* ends, everything is as it was made.
LEMMA LifeInitialize ==
  ASSUME Types, LifeOK, WorkersOK, MetricsOK, InitializeNext
  PROVE  LifeOK' /\ WorkersOK' /\ MetricsOK'
<1>1. PICK i \in 1..Len(InitOrder) :
        /\ comps[InitOrder[i]] = "absent"
        /\ \A j \in 1..i - 1 : comps[InitOrder[j]] # "absent"
        /\ comps' = [comps EXCEPT ![InitOrder[i]] = Made(InitOrder[i])]
        /\ phase' = IF i = Len(InitOrder) THEN "initialized" ELSE phase
        /\ IF InitOrder[i] = "metrics" THEN StartMetrics("app", TRUE)
           ELSE UNCHANGED metricsVars
  BY DEF InitializeNext
<1>2. phase = "initializing" /\ stop = 0 /\ UNCHANGED <<stop, at>>
  BY DEF InitializeNext, LifeOK, trapVars, workVars
<1>3. /\ InitOrder[i] \in Components /\ comps'[InitOrder[i]] = Made(InitOrder[i])
      /\ \A c \in Components \ {InitOrder[i]} : comps'[c] = comps[c]
  BY <1>1, Orders DEF Types
<1>4. \A c \in Components : comps'[c] \in {"absent", Made(c)}
  BY <1>2, <1>3 DEF LifeOK
<1>5. ASSUME i = 8
      PROVE  InUse'
  <2>1. \A c \in Components \ {"listener"} : comps[c] = Made(c)
    <3> SUFFICES ASSUME NEW c \in Components \ {"listener"}
                 PROVE  comps[c] = Made(c)
      OBVIOUS
    <3>1. PICK j \in 1..7 : InitOrder[j] = c
      BY Orders
    <3>2. comps[c] # "absent"
      BY <1>1, <1>5, <3>1
    <3>3. QED  BY <1>2, <3>2 DEF LifeOK
  <2>2. \A c \in Components \ {"listener"} : comps'[c] = Made(c)
    BY <1>3, <1>5, <2>1, Orders
  <2>3. QED  BY <2>2, Orders DEF InUse, Made
<1>6. LifeOK'
  BY <1>1, <1>2, <1>4, <1>5, Orders DEF LifeOK
<1>7. WorkersOK'
  BY <1>1, <1>2 DEF WorkersOK
<1>8. MetricsOK'
  <2>1. CASE InitOrder[i] = "metrics"
    <3>1. comps["metrics"] = "absent" /\ comps'["metrics"] = "started"
      BY <1>1, <1>3, <2>1 DEF Made
    <3>2. /\ server = "off" /\ collector = "off" /\ stopping = "no"
          /\ UNCHANGED <<enabled, stopping>>
          /\ ~enabled => UNCHANGED <<server, collector>>
      BY <1>1, <2>1, <3>1 DEF MetricsOK, StartMetrics
    <3>3. QED  BY <3>1, <3>2 DEF MetricsOK
  <2>2. CASE InitOrder[i] # "metrics"
    <3>1. comps'["metrics"] = comps["metrics"] /\ UNCHANGED metricsVars
      BY <1>1, <1>3, <2>2, Orders
    <3>2. QED  BY <3>1 DEF MetricsOK, metricsVars
  <2>3. QED  BY <2>1, <2>2
<1>9. QED  BY <1>6, <1>7, <1>8

\* Run launches the workers, a signal or an error ends what there is.
LEMMA LifeTurns ==
  ASSUME Types, LifeOK, WorkersOK, MetricsOK,
         Run \/ Fail \/ (\E s \in Signals : ReceiveSignal(s)) \/ Return
  PROVE  LifeOK' /\ WorkersOK' /\ MetricsOK'
<1>1. \A c \in Components \ {"listener"} : comps'[c] = comps[c]
  BY DEF Run, Fail, ReceiveSignal, Return, Types
<1>2. UNCHANGED metricsVars /\ comps'["metrics"] = comps["metrics"]
  BY <1>1, Orders DEF Run, Fail, ReceiveSignal, Return
<1>3. MetricsOK'
  BY <1>2 DEF MetricsOK, metricsVars
<1>4. InUse => InUse'
  BY <1>1, Orders DEF InUse
<1>5. stop \in 0..7
  BY Orders DEF Types
<1>6. CASE Run
  <2>1. phase = "initialized" /\ phase' = "running" /\ stop = 0 /\ stop' = 0
    BY <1>6 DEF Run, LifeOK
  <2>2. QED
    BY <1>3, <1>4, <2>1 DEF LifeOK, WorkersOK
<1>7. CASE Fail
  <2>1. /\ phase \in {"initializing", "initialized"} /\ phase' = "failed"
        /\ stop = 0 /\ stop' = 0 /\ at' = at
    BY <1>7 DEF Fail, LifeOK, trapVars, workVars
  <2>2. QED
    BY <1>3, <2>1, Orders DEF LifeOK, WorkersOK
<1>8. ASSUME NEW s \in Signals, ReceiveSignal(s)
      PROVE  LifeOK' /\ WorkersOK' /\ MetricsOK'
  <2>1. phase = "running" /\ phase' = "stopping" /\ stop' = 1
    BY <1>8 DEF ReceiveSignal
  <2>2. QED
    BY <1>3, <1>4, <2>1, Orders DEF LifeOK, WorkersOK
<1>9. CASE Return
  <2>1. /\ phase = "stopping" /\ phase' = "stopped" /\ stop = 7 /\ stop' = 7 /\ at' = at
    BY <1>5, <1>9, Orders DEF Return, trapVars, workVars
  <2>2. QED
    BY <1>3, <2>1, Orders DEF LifeOK, WorkersOK, WorkersGone
<1>10. QED  BY <1>6, <1>7, <1>8, <1>9

\* Shutdown closes the listener's socket, waits for its workers and closes the
\* next components; the metrics it closes when their Stop has returned.
LEMMA LifeShutdown ==
  ASSUME Types, LifeOK, WorkersOK, MetricsOK,
         CloseSocket \/ ListenerStopped \/ CloseNext \/ StopMetrics
  PROVE  LifeOK' /\ WorkersOK' /\ MetricsOK'
<1>1. phase = "stopping" /\ phase' = "stopping" /\ at' = at /\ stop \in 1..6
  BY Orders DEF CloseSocket, ListenerStopped, CloseNext, StopMetrics, Types, LifeOK, trapVars, workVars
<1>2. CASE CloseSocket
  <2>1. stop = 1 /\ stop' = 1
    BY <1>1, <1>2, Orders DEF CloseSocket
  <2>2. /\ \A c \in Components \ {"listener"} : comps'[c] = comps[c]
        /\ UNCHANGED metricsVars
    BY <1>2 DEF CloseSocket, Types
  <2>3. InUse' /\ comps'["metrics"] = comps["metrics"]
    BY <2>1, <2>2, Orders DEF LifeOK, InUse
  <2>4. QED
    BY <1>1, <2>1, <2>2, <2>3, Orders DEF LifeOK, WorkersOK, MetricsOK, metricsVars
<1>3. CASE ListenerStopped
  <2>1. stop = 1 /\ stop' = 2 /\ WorkersGone
    BY <1>1, <1>3, Orders DEF ListenerStopped
  <2>2. UNCHANGED <<comps, metricsVars>>
    BY <1>3 DEF ListenerStopped
  <2>3. WorkersGone' /\ comps'["metrics"] = "started"
    BY <1>1, <2>1, <2>2 DEF WorkersGone, LifeOK, InUse
  <2>4. QED
    BY <1>1, <2>1, <2>2, <2>3, Orders DEF LifeOK, WorkersOK, MetricsOK, metricsVars
<1>4. CASE CloseNext
  <2>1. stop \in 2..5 /\ stop' = stop + 1 /\ UNCHANGED metricsVars
    BY <1>1, <1>4, Orders DEF CloseNext
  <2>2. comps'["metrics"] = comps["metrics"] /\ comps["metrics"] = "started"
    BY <1>4, <2>1, Orders DEF CloseNext, Types, LifeOK
  <2>3. WorkersGone'
    BY <1>1, <2>1 DEF WorkersOK, WorkersGone
  <2>4. QED
    BY <1>1, <2>1, <2>2, <2>3, Orders DEF LifeOK, WorkersOK, MetricsOK, metricsVars
<1>5. CASE StopMetrics
  <2>1. stop = 6
    BY <1>1, <1>5, Orders DEF StopMetrics
  <2>2. WorkersGone' /\ comps["metrics"] = "started"
    BY <1>1, <2>1, Orders DEF WorkersOK, WorkersGone, LifeOK
  <2>3. CASE (CancelCollector \/ ShutdownServer) /\ UNCHANGED <<comps, stop>>
    BY <1>1, <2>1, <2>2, <2>3, Orders
       DEF LifeOK, WorkersOK, MetricsOK, CancelCollector, ShutdownServer
  <2>4. CASE /\ MetricsStopped
             /\ comps' = [comps EXCEPT !["metrics"] = "closed"] /\ stop' = stop + 1
    <3>1. comps'["metrics"] = "closed" /\ stop' = 7
      BY <2>1, <2>4, Orders DEF Types
    <3>2. {server', collector'} \subseteq {"off", "gone"} /\ stopping' = "returned"
      BY <2>4 DEF MetricsStopped, GoroutinesGone, MetricsOK
    <3>3. ~enabled' => server' = "off" /\ collector' = "off"
      BY <2>4 DEF MetricsStopped, MetricsOK
    <3>4. QED
      BY <1>1, <2>2, <3>1, <3>2, <3>3, Orders DEF LifeOK, WorkersOK, MetricsOK
  <2>5. QED
    BY <1>5, <2>3, <2>4 DEF StopMetrics
<1>6. QED
  BY <1>2, <1>3, <1>4, <1>5

\* What runs beside them changes no component; no goroutine of the metrics
\* manager starts after its Stop.
LEMMA LifeBeside ==
  ASSUME LifeOK, WorkersOK, MetricsOK, Beside
  PROVE  LifeOK' /\ WorkersOK' /\ MetricsOK'
<1>1. UNCHANGED <<phase, comps, stop, at>>
  BY BesideStill DEF trapVars, workVars
<1>2. LifeOK' /\ WorkersOK'
  BY <1>1 DEF LifeOK, WorkersOK, InUse, WorkersGone
<1>3. MetricsOK'
  <2>1. CASE UNCHANGED metricsVars
    BY <1>1, <2>1 DEF MetricsOK, metricsVars
  <2>2. CASE Background
    BY <1>1, <2>2
       DEF MetricsOK, Background, ServerListens, ServerFails, ServerReturns, CollectorTick,
           CollectorUpdates, CollectorExits
  <2>3. QED
    BY <2>1, <2>2 DEF Beside, Tick, UpdateStats, UpdaterExits, MetricsRun, lifeVars
<1>4. QED  BY <1>2, <1>3

\* A worker that was not launched or has exited takes no step.
LEMMA LifeWork ==
  ASSUME Types, LifeOK, WorkersOK, MetricsOK, Work
  PROVE  LifeOK' /\ WorkersOK' /\ MetricsOK'
<1>1. UNCHANGED <<phase, comps, stop, metricsVars>>
  BY WorkStill DEF lifeVars
<1>2. LifeOK' /\ MetricsOK'
  BY <1>1 DEF LifeOK, InUse, MetricsOK, metricsVars
<1>3. \A w \in Workers : at[w] \in {"off", "exited"} => at'[w] = at[w]
  BY DEF Work, Quiet, Arrive, Take, Leave, CountReceived, Processed, Failed, CountProcessed, Fetch,
         FetchFails, SendNotification, Done, workVars, Types, Idle
<1>4. WorkersOK'
  BY <1>1, <1>3 DEF WorkersOK, WorkersGone
<1>5. QED  BY <1>2, <1>4

\* So every step keeps the life of the components.
LEMMA LifeStep ==
  ASSUME Types, LifeOK, WorkersOK, MetricsOK, [Next]_vars
  PROVE  LifeOK' /\ WorkersOK' /\ MetricsOK'
<1>1. CASE Life
  BY <1>1, LifeInitialize, LifeTurns, LifeShutdown DEF Life, Shutdown
<1>2. CASE UNCHANGED vars
  BY <1>2 DEF vars, lifeVars, trapVars, workVars, metricsVars, LifeOK, WorkersOK, MetricsOK, InUse,
              WorkersGone
<1>3. QED
  BY <1>1, <1>2, NextSplits, LifeBeside, LifeWork

-----------------------------------------------------------------------------
(* One place for each trap *)

\* At first every trap is still to arrive.
LEMMA PlaceInit == Init => OnePlace
BY ApplicationAssumption DEF Init, OnePlace, Handling, Inside

\* What a step of a worker in handleTrap moves: its own place and trap.
LEMMA WorkerMoves ==
  ASSUME Types, NEW w \in Workers,
         Quiet(w) \/ CountReceived(w) \/ CountProcessed(w) \/ Failed(w)
  PROVE  /\ UNCHANGED <<unsent, waiting>>
         /\ \A v \in Workers \ {w} : at'[v] = at[v] /\ job'[v] = job[v]
         /\ \/ at[w] \in Inside /\ at'[w] \in Inside /\ job'[w] = job[w]
            \/ at[w] \in Inside /\ at'[w] = Idle /\ job'[w] = "none"
            \/ at[w] = Idle /\ at'[w] = "exited" /\ job'[w] = job[w]
BY DEF Quiet, Leave, CountReceived, Processed, Failed, CountProcessed, Fetch, FetchFails,
       SendNotification, Done, Types, Inside

\* When Run launches the workers, none of them is in handleTrap before or after.
LEMMA WorkersLaunched ==
  ASSUME WorkersOK, Run, NEW w \in Workers
  PROVE  at[w] = "off" /\ at'[w] = Idle
BY DEF WorkersOK, Run

\* A trap arrives, is taken by one worker, and is gone when that one is done.
LEMMA PlaceStep ==
  ASSUME Types, WorkersOK, OnePlace, [Next]_vars
  PROVE  OnePlace'
<1>1. ASSUME UNCHANGED <<unsent, waiting, job>>,
             \A w \in Workers : Handling(w)' <=> Handling(w)
      PROVE  OnePlace'
  BY <1>1 DEF OnePlace
<1>2. ASSUME Life
      PROVE  OnePlace'
  <2>1. \A w \in Workers : Handling(w)' <=> Handling(w)
    BY <1>2, LifeStill, WorkersLaunched DEF Handling, Inside, Idle
  <2>2. QED  BY <1>1, <1>2, <2>1, LifeStill
<1>3. CASE Beside \/ UNCHANGED vars
  BY <1>1, <1>3, BesideStill DEF vars, trapVars, workVars, Handling
<1>4. ASSUME NEW t \in Traps, Arrive(t)
      PROVE  OnePlace'
  <2>1. UNCHANGED <<at, job>> /\ unsent' = unsent \ {t} /\ waiting' = waiting \cup {t} /\ t \in unsent
    BY <1>4 DEF Arrive, workVars
  <2>2. QED  BY <2>1 DEF OnePlace, Handling
<1>5. ASSUME NEW w \in Workers, NEW t \in Traps, Take(w, t)
      PROVE  OnePlace'
  <2>1. /\ at[w] = Idle /\ at'[w] = "receive" /\ job'[w] = t
        /\ \A v \in Workers \ {w} : at'[v] = at[v] /\ job'[v] = job[v]
        /\ t \in waiting /\ waiting' = waiting \ {t} /\ unsent' = unsent
    BY <1>5 DEF Take, Types
  <2>2. \A v \in Workers : job[v] # t
    BY <2>1 DEF OnePlace
  <2>3. t # "none"
    BY ApplicationAssumption
  <2>4. \A v \in Workers : job'[v] # "none" <=> Handling(v)'
    BY <2>1, <2>3 DEF OnePlace, Handling, Inside
  <2>5. \A v \in Workers : job'[v] \notin unsent' \cup waiting'
    BY <2>1 DEF OnePlace
  <2>6. \A u, v \in Workers : job'[u] = job'[v] /\ job'[u] # "none" => u = v
    BY <2>1, <2>2 DEF OnePlace
  <2>7. QED  BY <2>1, <2>4, <2>5, <2>6 DEF OnePlace
<1>6. ASSUME NEW w \in Workers, Quiet(w) \/ CountReceived(w) \/ CountProcessed(w) \/ Failed(w)
      PROVE  OnePlace'
  <2>1. /\ UNCHANGED <<unsent, waiting>>
        /\ \A v \in Workers \ {w} : at'[v] = at[v] /\ job'[v] = job[v]
        /\ \/ at[w] \in Inside /\ at'[w] \in Inside /\ job'[w] = job[w]
           \/ at[w] \in Inside /\ at'[w] = Idle /\ job'[w] = "none"
           \/ at[w] = Idle /\ at'[w] = "exited" /\ job'[w] = job[w]
    BY <1>6, WorkerMoves
  <2>2. Idle \notin Inside /\ "exited" \notin Inside /\ "none" \notin Traps
    BY ApplicationAssumption DEF Idle, Inside
  <2>3. unsent \subseteq Traps /\ waiting \subseteq Traps
    BY DEF Types
  <2>4. \A v \in Workers : job'[v] = job[v] \/ job'[v] = "none"
    BY <2>1
  <2>5. \A v \in Workers : job'[v] # "none" <=> Handling(v)'
    BY <2>1, <2>2 DEF OnePlace, Handling
  <2>6. \A v \in Workers : job'[v] \notin unsent' \cup waiting'
    BY <2>1, <2>2, <2>3, <2>4 DEF OnePlace
  <2>7. \A u, v \in Workers : job'[u] = job'[v] /\ job'[u] # "none" => u = v
    BY <2>4 DEF OnePlace
  <2>8. QED  BY <2>1, <2>5, <2>6, <2>7 DEF OnePlace
<1>7. QED
  BY <1>2, <1>3, <1>4, <1>5, <1>6, NextSplits DEF Work

-----------------------------------------------------------------------------
(* The counters *)

\* The sets that are counted are finite.
LEMMA SetsFinite ==
  ASSUME Types
  PROVE  /\ IsFiniteSet(Uncounted) /\ Cardinality(Uncounted) \in Nat
         /\ IsFiniteSet(Pending) /\ Cardinality(Pending) \in Nat
         /\ Cardinality(Traps) \in Nat
<1>1. Uncounted \subseteq Traps /\ Pending \subseteq Workers
  BY DEF Types, Uncounted, AtReceive, Pending
<1>2. IsFiniteSet(Uncounted) /\ IsFiniteSet(Pending)
  BY <1>1, ApplicationAssumption, FS_Subset
<1>3. QED  BY <1>2, ApplicationAssumption, FS_CardinalityType

\* At first no trap has arrived, and nothing is counted.
LEMMA CountInit == Init => CountOK
<1> SUFFICES ASSUME Init PROVE CountOK
  OBVIOUS
<1>1. \A w \in Workers : at[w] = "off"
  BY DEF Init
<1>2. Pending = {} /\ Uncounted = Traps
  BY <1>1 DEF Init, Pending, Uncounted, AtReceive
<1>3. Cardinality(Pending) = 0 /\ Cardinality(Traps) \in Nat
  BY <1>2, ApplicationAssumption, FS_EmptySet, FS_CardinalityType
<1>4. QED
  BY <1>2, <1>3 DEF Init, Zero, CountOK

\* A step that moves no trap past the counters.
LEMMA CountStays ==
  ASSUME CountOK, Uncounted' = Uncounted, Pending' = Pending, UNCHANGED countVars
  PROVE  CountOK'
BY DEF CountOK, countVars

\* Leaving, processing, reading the event back and notifying count nothing.
LEMMA CountQuiet ==
  ASSUME Types, WorkersOK, OnePlace, CountOK, NEW w \in Workers, Quiet(w)
  PROVE  CountOK'
<1>1. /\ UNCHANGED <<unsent, waiting, countVars>>
      /\ \A v \in Workers \ {w} : at'[v] = at[v] /\ job'[v] = job[v]
  BY WorkerMoves DEF Quiet, Leave, Processed, Fetch, FetchFails, SendNotification
<1>2. /\ at[w] \in {"process", "count"} <=> at'[w] \in {"process", "count"}
      /\ at[w] # "receive" /\ at'[w] # "receive"
  BY DEF Quiet, Leave, Processed, Fetch, FetchFails, SendNotification, Done, Types, Idle
<1>3. AtReceive' = AtReceive /\ Pending' = Pending
  BY <1>1, <1>2 DEF AtReceive, Pending
<1>4. QED  BY <1>1, <1>3, CountStays DEF Uncounted

\* The trap handleTrap counts first was not counted before.
LEMMA ReceivedCounts ==
  ASSUME Types, OnePlace, CountOK, NEW w \in Workers, CountReceived(w)
  PROVE  CountOK'
<1>1. /\ at[w] = "receive" /\ at'[w] = "process" /\ job[w] \in Traps
      /\ UNCHANGED <<unsent, waiting, job>>
      /\ \A v \in Workers \ {w} : at'[v] = at[v]
  BY DEF CountReceived, Types, OnePlace, Handling, Inside
<1>2. job[w] \in Uncounted /\ Uncounted' = Uncounted \ {job[w]}
  BY <1>1, ApplicationAssumption DEF Uncounted, AtReceive, OnePlace
<1>3. w \notin Pending /\ Pending' = Pending \cup {w}
  BY <1>1 DEF Pending
<1>4. Cardinality(Uncounted') = Cardinality(Uncounted) - 1
  BY <1>2, SetsFinite, FS_RemoveElement
<1>5. Cardinality(Pending') = Cardinality(Pending) + 1
  BY <1>3, SetsFinite, FS_AddElement
<1>6. /\ stats' = [stats EXCEPT !.received = @ + 1]
      /\ exported' = [exported EXCEPT !.received = @ + 1]
  BY DEF CountReceived
<1>7. /\ stats'.received = stats.received + 1
      /\ stats'.processed = stats.processed /\ stats'.failed = stats.failed
      /\ exported' = [received |-> stats.received + 1, processed |-> stats.processed, failed |-> 0]
  BY <1>6 DEF Types, Natural, CountOK
<1>8. stats.received \in Nat /\ stats.processed \in Nat /\ stats.failed \in Nat
  BY DEF Types, Natural
<1>9. QED
  BY <1>4, <1>5, <1>7, <1>8, SetsFinite DEF CountOK

\* One that is processed, or failed, was counted as received and as neither.
LEMMA EndCounts ==
  ASSUME Types, CountOK, NEW w \in Workers, CountProcessed(w) \/ Failed(w)
  PROVE  CountOK'
<1>1. /\ at[w] \in {"process", "count"} /\ at'[w] \in {"fetch", Idle}
      /\ UNCHANGED <<unsent, waiting>>
      /\ \A v \in Workers \ {w} : at'[v] = at[v] /\ job'[v] = job[v]
  BY DEF CountProcessed, Failed, Types
<1>2. Uncounted' = Uncounted
  BY <1>1 DEF Uncounted, AtReceive, Idle
<1>3. w \in Pending /\ Pending' = Pending \ {w}
  BY <1>1 DEF Pending, Idle
<1>4. Cardinality(Pending') = Cardinality(Pending) - 1
  BY <1>3, SetsFinite, FS_RemoveElement
<1>5. stats.received \in Nat /\ stats.processed \in Nat /\ stats.failed \in Nat
  BY DEF Types, Natural
<1>6. CASE CountProcessed(w)
  <2>1. /\ stats'.received = stats.received
        /\ stats'.processed = stats.processed + 1 /\ stats'.failed = stats.failed
        /\ exported' = [received |-> stats.received, processed |-> stats.processed + 1, failed |-> 0]
    BY <1>6 DEF CountProcessed, Types, Natural, CountOK
  <2>2. QED
    BY <1>2, <1>4, <1>5, <2>1, SetsFinite DEF CountOK
<1>7. CASE Failed(w)
  <2>1. /\ stats'.received = stats.received /\ stats'.processed = stats.processed
        /\ stats'.failed = stats.failed + 1 /\ exported' = exported
    BY <1>7 DEF Failed, FailureCounted, Types, Natural
  <2>2. QED
    BY <1>2, <1>4, <1>5, <2>1, SetsFinite DEF CountOK
<1>8. QED  BY <1>6, <1>7

\* Every other step leaves the traps on the same side of the counters.
LEMMA CountStep ==
  ASSUME Types, WorkersOK, OnePlace, CountOK, [Next]_vars
  PROVE  CountOK'
<1>1. ASSUME Life
      PROVE  CountOK'
  <2>1. UNCHANGED <<unsent, waiting, job, countVars>> /\ (at' = at \/ Run)
    BY <1>1, LifeStill
  <2>2. \A w \in Workers : \A a \in {"receive", "process", "count"} : at'[w] = a <=> at[w] = a
    BY <2>1, WorkersLaunched DEF Idle
  <2>3. AtReceive' = AtReceive /\ Pending' = Pending
    BY <2>1, <2>2 DEF AtReceive, Pending
  <2>4. QED  BY <2>1, <2>3, CountStays DEF Uncounted
<1>2. CASE Beside \/ UNCHANGED vars
  <2>1. UNCHANGED trapVars
    BY <1>2, BesideStill DEF vars
  <2>2. QED  BY <2>1, CountStays DEF trapVars, workVars, Uncounted, AtReceive, Pending
<1>3. ASSUME NEW t \in Traps, Arrive(t)
      PROVE  CountOK'
  <2>1. /\ UNCHANGED <<at, job, countVars>> /\ t \in unsent
        /\ unsent' = unsent \ {t} /\ waiting' = waiting \cup {t}
    BY <1>3 DEF Arrive, workVars
  <2>2. QED  BY <2>1, CountStays DEF Uncounted, AtReceive, Pending
<1>4. ASSUME NEW w \in Workers, NEW t \in Traps, Take(w, t)
      PROVE  CountOK'
  <2>1. /\ at[w] = Idle /\ at'[w] = "receive" /\ job'[w] = t
        /\ \A v \in Workers \ {w} : at'[v] = at[v] /\ job'[v] = job[v]
        /\ t \in waiting /\ waiting' = waiting \ {t} /\ UNCHANGED <<unsent, countVars>>
    BY <1>4 DEF Take, Types
  <2>2. AtReceive' = AtReceive \cup {t} /\ Pending' = Pending
    BY <2>1 DEF AtReceive, Pending, Idle
  <2>3. Uncounted' = Uncounted
    BY <2>1, <2>2 DEF Uncounted
  <2>4. QED  BY <2>1, <2>2, <2>3, CountStays
<1>5. QED
  BY <1>1, <1>2, <1>3, <1>4, CountQuiet, ReceivedCounts, EndCounts, NextSplits DEF Work

-----------------------------------------------------------------------------
(* The theorems *)

\* IInv holds at first ...
LEMMA IInit == Init => IInv
BY TypeInit, LifeInit, PlaceInit, CountInit DEF IInv

\* ... and is kept by every step.
LEMMA IStep == IInv /\ [Next]_vars => IInv'
<1> SUFFICES ASSUME IInv, [Next]_vars PROVE IInv'
  OBVIOUS
<1>1. Types'
  <2>1. CASE UNCHANGED vars
    <3>1. MetricsTypeOK'
      BY <2>1, MetricsType DEF IInv, Types, vars, lifeVars
    <3>2. QED
      BY <2>1, <3>1 DEF IInv, Types, vars, lifeVars, tickVars, trapVars, workVars, countVars
  <2>2. QED
    BY <2>1, NextSplits, TypeLife, TypeBeside, TypeWork DEF IInv
<1>2. QED
  BY <1>1, LifeStep, PlaceStep, CountStep DEF IInv

\* The inductive invariant: which components are in use, which goroutines
\* run, where each trap is and what was counted of it.
THEOREM Invariance == Spec => []IInv
BY IInit, IStep, PTL DEF Spec

\* Whenever a signal arrives and however Shutdown and the workers interleave, a
\* worker in handleTrap uses only components that are there, and the goroutines of
\* the metrics manager run only between its Start and the return of its Stop.
THEOREM LivesAreRespected == Spec => []LivesRespected
<1>1. IInv => LivesRespected
  <2> SUFFICES ASSUME IInv PROVE LivesRespected
    OBVIOUS
  <2>1. ASSUME NEW w \in Workers, Handling(w)
        PROVE  InUse
    <3>1. at[w] \notin {"off", "exited"}
      BY <2>1 DEF Handling, Inside
    <3>2. stop \in 0..7 /\ ~(stop >= 2)
      BY <3>1, Orders DEF IInv, Types, WorkersOK, WorkersGone
    <3>3. phase \notin {"initializing", "initialized", "failed"}
      BY <3>1 DEF IInv, WorkersOK
    <3>4. phase = "running" \/ stop = 1
      BY <3>2, <3>3 DEF IInv, Types, LifeOK
    <3>5. QED  BY <3>4 DEF IInv, LifeOK
  <2>2. ComponentsThere
    BY <2>1 DEF ComponentsThere, InUse
  <2>3. comps["metrics"] \in {"absent", "created", "started", "closed"}
    BY Orders DEF IInv, Types
  <2>4. comps["metrics"] # "created"
    BY DEF IInv, MetricsOK
  <2>5. MetricsEndWithStop
    BY <2>3, <2>4 DEF IInv, MetricsOK, MetricsEndWithStop
  <2>6. QED  BY <2>2, <2>5 DEF LivesRespected
<1>2. QED  BY Invariance, <1>1, PTL

\* handleTrap counts each trap once as received and once as processed or as
\* failed, on every one of its early returns; no counter exceeds the traps.
THEOREM TrapsCounted == Spec => []EveryTrapAccounted
<1>1. IInv => EveryTrapAccounted
  <2> SUFFICES ASSUME IInv PROVE EveryTrapAccounted
    OBVIOUS
  <2>1. /\ stats \in Natural
        /\ stats.received \in Nat /\ stats.processed \in Nat /\ stats.failed \in Nat
    BY DEF IInv, Types, Natural
  <2>2. /\ Cardinality(Uncounted) \in Nat /\ Cardinality(Pending) \in Nat
        /\ Cardinality(Traps) \in Nat
    BY SetsFinite DEF IInv
  <2>3. /\ stats.received \in 0..Cardinality(Traps)
        /\ stats.processed \in 0..Cardinality(Traps)
        /\ stats.failed \in 0..Cardinality(Traps) /\ 0 \in 0..Cardinality(Traps)
    BY <2>1, <2>2 DEF IInv, CountOK
  <2>4. stats \in Counters
    BY <2>1, <2>3 DEF Natural, Counters
  <2>5. exported \in Counters
    BY <2>3 DEF IInv, CountOK, Counters
  <2>6. TypeOK
    BY <2>4, <2>5 DEF IInv, Types, TypeOK
  <2>7. QED
    BY <2>6 DEF IInv, CountOK, Pending, TrapsAccounted, EveryTrapAccounted
<1>2. QED  BY Invariance, <1>1, PTL
=============================================================================
