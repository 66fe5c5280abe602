------------------------------- MODULE Reload -------------------------------
(***************************************************************************)
(* Hot reload of the infrastructure manager (internal/infra/infra.go): the *)
(* watcher goroutine turns changes of the configuration file into debounced*)
(* and rate-limited reloads, TriggerReload starts one on a goroutine of its*)
(* own, and reloadInProgress keeps them apart.  The components map is read *)
(* without the lock that Register and Unregister take, which the runtime   *)
(* may answer with "concurrent map iteration and map write".  A version    *)
(* stands for the content of the configuration.                            *)
(***************************************************************************)
EXTENDS Integers, Sequences, FiniteSets

CONSTANTS Components,   \* names of components that may be registered
          Triggers,     \* goroutines started by TriggerReload
          FileWatched,  \* WatchConfigFile /\ ConfigFile # ""
          HasManager,   \* StartHotReload was given a configManager
          KeepEvents,   \* length of the reload history (100)
          MaxVersion    \* bound: versions of the configuration file

ASSUME ReloadAssumption ==
  /\ FileWatched \in BOOLEAN /\ HasManager \in BOOLEAN
  /\ KeepEvents \in Nat \ {0} /\ MaxVersion \in Nat \ {0}

Watcher == "watcher"
Actors == Triggers \cup {Watcher}
Defaults == 0

VARIABLES
  file,        \* version of the configuration file
  loaded,      \* version the configuration manager and provider hold
  applied,     \* version of client.timeout and client.max_retries in m.config
  rest,        \* version of all other settings in m.config
  comp,        \* version each component was last given
  registered,  \* the keys of m.components
  notified,    \* a file event waits in watcher.Events
  timer,       \* the debounce timer runs
  held,        \* lastReloadTime is less than MaxReloadFrequency ago
  inProgress,  \* m.reloadInProgress
  at,          \* program counter of each actor
  todo,        \* positions of the map an actor has still to iterate over
  success,     \* event.Success of an actor's reload
  reloadStats, \* TotalReloads, SuccessfulReloads, FailedReloads
  events,      \* m.reloadEvents: the outcomes, oldest first
  cancelled,   \* m.ctx is done, or the fsnotify watcher was closed
  panic        \* the runtime caught an unsynchronised map access

fileVars == <<file, notified>>
confVars == <<loaded, applied, rest, comp>>
gateVars == <<timer, held>>
logVars  == <<reloadStats, events>>
reloadVars == <<file, loaded, applied, rest, comp, registered, notified, timer,
                held, inProgress, at, todo, success, reloadStats, events,
                cancelled, panic>>

Inside == {"reload", "update", "components", "record", "leave"}
Versions == 1..MaxVersion

ReloadTypeOK ==
  /\ file \in Versions /\ loaded \in Versions /\ applied \in Versions
  /\ rest \in Versions \cup {Defaults}
  /\ comp \in [Components -> Versions]
  /\ registered \in SUBSET Components
  /\ notified \in BOOLEAN /\ timer \in BOOLEAN /\ held \in BOOLEAN
  /\ inProgress \in BOOLEAN
  /\ at \in [Actors -> {"off", "idle", "called", "gone"} \cup Inside]
  /\ todo \in [Actors -> SUBSET Components]
  /\ success \in [Actors -> BOOLEAN]
  /\ reloadStats \in [total: Nat, ok: Nat, failed: Nat]
  /\ events \in Seq(BOOLEAN)
  /\ cancelled \in BOOLEAN /\ panic \in BOOLEAN

\* After NewManager and StartHotReload.
ReloadInit ==
  /\ file = 1 /\ loaded = 1 /\ applied = 1 /\ rest = 1
  /\ comp = [c \in Components |-> 1]
  /\ registered = {}
  /\ notified = FALSE /\ timer = FALSE /\ held = FALSE
  /\ inProgress = FALSE
  /\ at = [a \in Actors |-> IF a = Watcher THEN "idle" ELSE "off"]
  /\ todo = [a \in Actors |-> {}]
  /\ success = [a \in Actors |-> FALSE]
  /\ reloadStats = [total |-> 0, ok |-> 0, failed |-> 0]
  /\ events = <<>>
  /\ cancelled = FALSE /\ panic = FALSE

Goes(a, place) == at' = [at EXCEPT ![a] = place]
Home(a) == IF a = Watcher THEN "idle" ELSE "gone"

-----------------------------------------------------------------------------
(* The watcher goroutine and TriggerReload *)

WriteFile ==
  /\ file < MaxVersion
  /\ file' = file + 1
  /\ notified' = (notified \/ FileWatched)
  /\ UNCHANGED <<confVars, registered, gateVars, inProgress, at, todo, success,
                 logVars, cancelled, panic>>

\* A write or create event restarts the debounce timer.
SeeEvent ==
  /\ at[Watcher] = "idle" /\ notified
  /\ notified' = FALSE /\ timer' = TRUE
  /\ UNCHANGED <<file, confVars, registered, held, inProgress, at, todo,
                 success, logVars, cancelled, panic>>

\* The timer fires: a reload begins, or the rate limit forgets the change.
TimerFires ==
  /\ at[Watcher] = "idle" /\ timer
  /\ timer' = FALSE
  /\ IF held THEN UNCHANGED at ELSE Goes(Watcher, "called")
  /\ UNCHANGED <<fileVars, confVars, registered, held, inProgress, todo,
                 success, logVars, cancelled, panic>>

HoldEnds ==
  /\ held /\ held' = FALSE
  /\ UNCHANGED <<fileVars, confVars, registered, timer, inProgress, at, todo,
                 success, logVars, cancelled, panic>>

TriggerReload(t) ==
  /\ at[t] = "off"
  /\ Goes(t, "called")
  /\ UNCHANGED <<fileVars, confVars, registered, gateVars, inProgress, todo,
                 success, logVars, cancelled, panic>>

\* Close, or StopHotReload.
Close ==
  /\ ~cancelled /\ cancelled' = TRUE
  /\ UNCHANGED <<fileVars, confVars, registered, gateVars, inProgress, at,
                 todo, success, logVars, panic>>

WatcherExits ==
  /\ at[Watcher] = "idle" /\ cancelled
  /\ Goes(Watcher, "gone")
  /\ UNCHANGED <<fileVars, confVars, registered, gateVars, inProgress, todo,
                 success, logVars, cancelled, panic>>

-----------------------------------------------------------------------------
(* handleReload *)

\* Faulty variant: the flag is not looked at.
AlwaysMayEnter == TRUE
MayEnter == ~inProgress

Enter(a) ==
  /\ at[a] = "called"
  /\ IF MayEnter THEN inProgress' = TRUE /\ Goes(a, "reload")
                 ELSE UNCHANGED inProgress /\ Goes(a, Home(a))
  /\ UNCHANGED <<fileVars, confVars, registered, gateVars, todo, success,
                 logVars, cancelled, panic>>

\* configManager.Reload succeeds or not; without a manager it is not called.
ReloadConfig(a) ==
  /\ at[a] = "reload"
  /\ success' = [success EXCEPT ![a] = FALSE]
  /\ \/ Goes(a, "update") /\ loaded' = IF HasManager THEN file ELSE loaded
     \/ HasManager /\ Goes(a, "record") /\ UNCHANGED loaded
  /\ UNCHANGED <<fileVars, applied, rest, comp, registered, gateVars,
                 inProgress, todo, logVars, cancelled, panic>>

\* Faulty variant: the last settings are kept.
AppliedLast == applied
Applied == loaded

\* UpdateConfig starts from the defaults and reads two settings.
Update(a) ==
  /\ at[a] = "update"
  /\ applied' = Applied /\ rest' = Defaults
  /\ todo' = [todo EXCEPT ![a] = Components]
  /\ Goes(a, "components")
  /\ UNCHANGED <<fileVars, loaded, comp, registered, gateVars, inProgress,
                 success, logVars, cancelled, panic>>

\* The map is iterated over in any order, so a key that is added meanwhile may
\* be visited or not; a component that fails to reload is skipped.
ReloadComponent(a, c) ==
  /\ at[a] = "components" /\ c \in todo[a]
  /\ todo' = [todo EXCEPT ![a] = @ \ {c}]
  /\ \/ c \in registered /\ comp' = [comp EXCEPT ![c] = loaded]
     \/ UNCHANGED comp
  /\ UNCHANGED <<fileVars, loaded, applied, rest, registered, gateVars,
                 inProgress, at, success, logVars, cancelled, panic>>

\* The handlers are called, with event.Success still false, and then it is set.
NotifyHandlers(a) ==
  /\ at[a] = "components" /\ todo[a] = {}
  /\ success' = [success EXCEPT ![a] = TRUE]
  /\ Goes(a, "record")
  /\ UNCHANGED <<fileVars, confVars, registered, gateVars, inProgress, todo,
                 logVars, cancelled, panic>>

\* Faulty variant: the history drops its oldest event one reload too early.
KeptTooFew(s) == IF Len(s) >= KeepEvents THEN Tail(s) ELSE s
Kept(s) == IF Len(s) > KeepEvents THEN Tail(s) ELSE s

\* Faulty variant: the defer runs only after a successful reload.
LeaveIfSuccessful(a) == IF success[a] THEN "leave" ELSE Home(a)
ThenLeave(a) == "leave"

RecordReloadEvent(a) ==
  /\ at[a] = "record"
  /\ reloadStats' = [reloadStats EXCEPT !.total = @ + 1,
                                        !.ok = @ + (IF success[a] THEN 1 ELSE 0),
                                        !.failed = @ + (IF success[a] THEN 0 ELSE 1)]
  /\ events' = Kept(Append(events, success[a]))
  /\ Goes(a, ThenLeave(a))
  /\ UNCHANGED <<fileVars, confVars, registered, gateVars, inProgress, todo,
                 success, cancelled, panic>>

\* The deferred function.
Leave(a) ==
  /\ at[a] = "leave"
  /\ inProgress' = FALSE /\ held' = TRUE
  /\ Goes(a, Home(a))
  /\ UNCHANGED <<fileVars, confVars, registered, timer, todo, success, logVars,
                 cancelled, panic>>

-----------------------------------------------------------------------------
(* RegisterComponent and UnregisterComponent, from any goroutine *)

Iterating == {a \in Actors : at[a] = "components"}

\* The runtime may notice a write that falls into an iteration.
MapWritten == panic' \in {FALSE, Iterating # {}}

RegisterComponent(c) ==
  /\ c \notin registered
  /\ registered' = registered \cup {c}
  /\ MapWritten
  /\ UNCHANGED <<fileVars, confVars, gateVars, inProgress, at, todo, success,
                 logVars, cancelled>>

UnregisterComponent(c) ==
  /\ c \in registered
  /\ registered' = registered \ {c}
  /\ MapWritten
  /\ UNCHANGED <<fileVars, confVars, gateVars, inProgress, at, todo, success,
                 logVars, cancelled>>

-----------------------------------------------------------------------------
Handle(a) ==
  \/ Enter(a) \/ ReloadConfig(a) \/ Update(a)
  \/ \E c \in Components : ReloadComponent(a, c)
  \/ NotifyHandlers(a) \/ RecordReloadEvent(a) \/ Leave(a)

Watch == SeeEvent \/ TimerFires \/ WatcherExits

ReloadNext ==
  /\ ~panic
  /\ \/ WriteFile \/ Watch \/ HoldEnds \/ Close
     \/ \E t \in Triggers : TriggerReload(t)
     \/ \E a \in Actors : Handle(a)
     \/ \E c \in Components : RegisterComponent(c) \/ UnregisterComponent(c)

\* Goroutines are scheduled, time passes, reloads of components return.
ReloadFairness ==
  /\ WF_reloadVars(~panic /\ Watch) /\ WF_reloadVars(~panic /\ HoldEnds)
  /\ \A a \in Actors : WF_reloadVars(~panic /\ Handle(a))

ReloadSpec == ReloadInit /\ [][ReloadNext]_reloadVars /\ ReloadFairness

-----------------------------------------------------------------------------
(* Properties *)

\* The flag is up exactly while one goroutine is inside the reload, although a
\* trigger may come at any point of a reload of the watcher.
OneReload ==
  /\ \A a, b \in Actors : (at[a] \in Inside /\ at[b] \in Inside) => a = b
  /\ inProgress = (\E a \in Actors : at[a] \in Inside)

\* The settings and the components never run ahead of the file, and while the
\* components are told of a configuration it is the one the manager applied.
NoTornConfiguration ==
  /\ applied <= loaded /\ loaded <= file
  /\ \A c \in Components : comp[c] <= applied
  /\ Iterating # {} => applied = loaded

\* The history holds the outcomes of the last KeepEvents reloads, and none is
\* missing from the counters.
HistoryComplete ==
  /\ reloadStats.total = reloadStats.ok + reloadStats.failed
  /\ Len(events) = IF reloadStats.total < KeepEvents THEN reloadStats.total ELSE KeepEvents

\* The types, one reload at a time, and a history and counters in which no
\* reload is missing.
ReloadsAccounted == ReloadTypeOK /\ OneReload /\ HistoryComplete

\* A reload ends and lets the next one in, whatever fails in it.
ReloadEnds == inProgress ~> (~inProgress \/ panic)

\* "config/MIB changes are debounced and applied safely"
\* (.github/copilot-instructions.md:79), "Dynamic MIB and configuration
\* reloading without service restart" (README.md:16): unless a reload fails,
\* the last version of the file is applied in the end.
ChangesApplied ==
  file = MaxVersion ~> \/ applied = MaxVersion
                       \/ reloadStats.failed > 0 \/ cancelled \/ panic

\* "Apply configuration updates (similar to NewManager)" (infra.go:777): no
\* setting falls back to its default because another one is updated.
SettingsKept == rest # Defaults

\* "config/MIB changes are debounced and applied safely": a component that is
\* registered or unregistered during a reload does not crash the process.
RegistrationIsSafe == ~panic
=============================================================================
