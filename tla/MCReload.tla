------------------------------ MODULE MCReload ------------------------------
(* Two components, two manual triggers beside the watcher, two file changes. *)
EXTENDS Reload

CONSTANTS c1, c2, t1, t2

MCComponents == {c1, c2}
MCTriggers   == {t1, t2}
=============================================================================
