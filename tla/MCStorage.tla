----------------------------- MODULE MCStorage ------------------------------
(* A batch of two that two events may fill, or leave half empty when one     *)
(* comes after a flush, and an event stored immediately.                     *)
EXTENDS Storage

CONSTANTS b1, b2, i1

MCBatched   == {b1, b2}
MCImmediate == {i1}
=============================================================================
