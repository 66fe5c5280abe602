----------------------------- MODULE EventStore ------------------------------
(***************************************************************************)
(* What the event store promises about each event, whatever its batch, its *)
(* workers, its clients and the crashes do: an accepted event waits, is    *)
(* written together with all that wait, and stays until the retention      *)
(* removes it; a crash takes exactly the waiting ones; nothing comes back. *)
(***************************************************************************)
CONSTANTS Events,     \* everything that may be stored
          Deferred    \* those that may wait in a batch

VARIABLES place,   \* where each event is
          acked,   \* which stored events are acknowledged
          old      \* past their retention period

vars == <<place, acked, old>>

Places == {"nowhere", "waiting", "stored", "refused", "removed", "lost"}

Init == /\ place = [e \in Events |-> "nowhere"]
        /\ acked = {} /\ old = {}

Waiting == {e \in Events : place[e] = "waiting"}
Stored  == {e \in Events : place[e] = "stored"}

Move(S, to) == place' = [e \in Events |-> IF e \in S THEN to ELSE place[e]]

Accept(e) == /\ place[e] = "nowhere" /\ e \in Deferred
             /\ Move({e}, "waiting")
             /\ UNCHANGED <<acked, old>>

\* All that wait are written in one go, the last one accepted perhaps with them.
Write == /\ \/ Move(Waiting, "stored")
            \/ \E e \in Events : place[e] = "nowhere" /\ Move(Waiting \cup {e}, "stored")
         /\ UNCHANGED <<acked, old>>

Insert(e) == /\ place[e] = "nowhere" /\ e \notin Deferred
             /\ Move({e}, "stored") \/ Move({e}, "refused")
             /\ UNCHANGED <<acked, old>>

Change(e) == /\ place[e] = "stored"
             /\ acked' \in {acked \cup {e}, acked \ {e}}
             /\ UNCHANGED <<place, old>>

Age(e) == /\ place[e] # "nowhere"
          /\ old' = old \cup {e}
          /\ UNCHANGED <<place, acked>>

\* The retention removes what is old, all of it.
Retain == /\ Move(Stored \cap old, "removed")
          /\ acked' = acked \ old
          /\ UNCHANGED old

Crash == /\ Move(Waiting, "lost")
         /\ UNCHANGED <<acked, old>>

Next == \/ \E e \in Events : Accept(e) \/ Insert(e) \/ Change(e) \/ Age(e)
        \/ Write \/ Retain \/ Crash

Spec == Init /\ [][Next]_vars
=============================================================================
