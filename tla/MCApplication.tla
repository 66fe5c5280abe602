--------------------------- MODULE MCApplication ---------------------------
(* Two workers and three traps; notification tasks for two of them.         *)
EXTENDS Application

CONSTANTS t1, t2, t3, w1, w2

MCTraps == {t1, t2, t3}
MCWorkers == {w1, w2}
=============================================================================
