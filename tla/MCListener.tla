----------------------------- MODULE MCListener -----------------------------
(* Four packets, one malformed and one invalid, two workers, a channel of    *)
(* one and a restart.                                                        *)
EXTENDS Listener

CONSTANTS p1, p2, p3, p4, h1, h2

MCPackets == {p1, p2, p3, p4}
MCMalformed == {p3}
MCInvalid == {p4}
MCWorkers == {h1, h2}
=============================================================================
