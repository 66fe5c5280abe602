-------------------------- MODULE MCEventProcessor --------------------------
(* Two queued events and one handled synchronously, two of them with one     *)
(* hash; one retry; a queue of one.  One worker: the direct caller is the    *)
(* second goroutine that processes, so two events still meet in the          *)
(* correlator and in the storage.                                            *)
EXTENDS EventProcessor, TLC

CONSTANTS q1, q2, d1, v1

MCQueued == {q1, q2}
MCDirect == {d1}
MCHash == q1 :> "h1" @@ q2 :> "h2" @@ d1 :> "h1"
=============================================================================
