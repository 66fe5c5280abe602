------------------------------- MODULE Metrics -------------------------------
(***************************************************************************)
(* The metrics manager (internal/metrics/metrics.go): Start launches the   *)
(* goroutine of an HTTP server and the collector of system metrics, the    *)
(* handlers answer probes from the health map and the readiness flag, and  *)
(* Stop cancels the collector, shuts the server down and waits for both.   *)
(***************************************************************************)
EXTENDS Integers

VARIABLES
  enabled,    \* config.Enabled
  server,     \* its goroutine: off, starting, serving, gone
  collector,  \* collectSystemMetrics: off, select, updating, gone
  stopping,   \* where Stop is: no, cancelled, shutdown, returned
  health,     \* healthStatus: a function from component names to BOOLEAN
  ready       \* readyStatus

metricsVars == <<enabled, server, collector, stopping, health, ready>>

MetricsTypeOK ==
  /\ enabled \in BOOLEAN
  /\ server \in {"off", "starting", "serving", "gone"}
  /\ collector \in {"off", "select", "updating", "gone"}
  /\ stopping \in {"no", "cancelled", "shutdown", "returned"}
  /\ DOMAIN health \subseteq {"app"} /\ \A c \in DOMAIN health : health[c] \in BOOLEAN
  /\ ready \in BOOLEAN

MetricsInit ==
  /\ enabled \in BOOLEAN
  /\ server = "off" /\ collector = "off" /\ stopping = "no"
  /\ health = [c \in {} |-> TRUE] /\ ready = FALSE

-----------------------------------------------------------------------------
\* Start, and the caller's SetComponentHealth(c, healthy) right after it.
StartMetrics(c, healthy) ==
  /\ server' = IF enabled THEN "starting" ELSE server
  /\ collector' = IF enabled THEN "select" ELSE collector
  /\ health' = [d \in DOMAIN health \cup {c} |-> IF d = c THEN healthy ELSE health[d]]
  /\ UNCHANGED <<enabled, stopping, ready>>

\* ListenAndServe binds the address, or fails, which is only logged; it returns
\* at once when Shutdown came first.
ServerListens ==
  /\ server = "starting" /\ stopping \in {"no", "cancelled"}
  /\ server' = "serving"
  /\ UNCHANGED <<enabled, collector, stopping, health, ready>>

ServerFails ==
  /\ server = "starting"
  /\ server' = "gone"
  /\ UNCHANGED <<enabled, collector, stopping, health, ready>>

ServerReturns ==
  /\ server \in {"starting", "serving"} /\ stopping = "shutdown"
  /\ server' = "gone"
  /\ UNCHANGED <<enabled, collector, stopping, health, ready>>

CollectorTick ==
  /\ collector = "select" /\ collector' = "updating"
  /\ UNCHANGED <<enabled, server, stopping, health, ready>>

CollectorUpdates ==
  /\ collector = "updating" /\ collector' = "select"
  /\ UNCHANGED <<enabled, server, stopping, health, ready>>

\* Faulty variant: the context is not looked at.
CollectorMayExitNever == FALSE
CollectorMayExit == stopping # "no"

CollectorExits ==
  /\ collector = "select" /\ CollectorMayExit
  /\ collector' = "gone"
  /\ UNCHANGED <<enabled, server, stopping, health, ready>>

-----------------------------------------------------------------------------
(* Stop.  The five seconds bound the wait for open connections only.        *)

CancelCollector ==
  /\ enabled /\ stopping = "no"
  /\ stopping' = "cancelled"
  /\ UNCHANGED <<enabled, server, collector, health, ready>>

ShutdownServer ==
  /\ stopping = "cancelled"
  /\ stopping' = "shutdown"
  /\ UNCHANGED <<enabled, server, collector, health, ready>>

\* Faulty variant: Stop does not wait for its goroutines.
NobodyAwaited == TRUE
GoroutinesGone == server = "gone" /\ collector = "gone"

\* Stop returns: after wg.Wait(), or at once when metrics are disabled.
MetricsStopped ==
  /\ \/ stopping = "shutdown" /\ GoroutinesGone
     \/ ~enabled /\ stopping = "no"
  /\ stopping' = "returned"
  /\ UNCHANGED <<enabled, server, collector, health, ready>>

Background == ServerListens \/ ServerFails \/ ServerReturns \/ CollectorTick
                \/ CollectorUpdates \/ CollectorExits

-----------------------------------------------------------------------------
(* What GET /health and GET /ready answer while the server runs *)

HealthStatus == IF \A c \in DOMAIN health : health[c] THEN 200 ELSE 503
ReadyStatus  == IF ready THEN 200 ELSE 503
=============================================================================
