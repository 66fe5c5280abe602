---------------------------- MODULE MCMibManager ----------------------------
(* OIDs below, at and outside the known nodes, more than the cache holds; two *)
(* files, both watched and required.                                         *)
EXTENDS MibManager

CONSTANTS f1, f2, v1, bad, big

MCFiles == {f1, f2}
MCObjects == [v \in {v1} |-> {"trapSource"}]
MCOids == {<<1, 3, 6, 1, 4, 1, 9>>, <<1, 3, 6, 1, 2, 1>>, <<1, 3>>, <<2, 5>>}
=============================================================================
