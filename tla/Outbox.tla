------------------------------- MODULE Outbox -------------------------------
(***************************************************************************)
(* What the notifier promises about one notification task, whatever the    *)
(* queue, the workers and the retry timers do to it: a task is refused or  *)
(* accepted once, an accepted task is tried at most Budget[t] times, it    *)
(* ends once, and it is never tried again after it ended.                  *)
(***************************************************************************)
EXTENDS Integers

CONSTANTS Tasks,    \* the notification tasks: one per event and webhook
          Budget    \* [Tasks -> Nat]: the posts a task may use

VARIABLES status,   \* where each task is in its life
          tries     \* how often each task was posted

vars == <<status, tries>>

Ended == {"refused", "delivered", "failed", "dropped"}

TypeOK == /\ status \in [Tasks -> {"none", "pending"} \cup Ended]
          /\ tries \in [Tasks -> Nat]

Init == /\ status = [t \in Tasks |-> "none"]
        /\ tries = [t \in Tasks |-> 0]

Accept(t) == /\ status[t] = "none"
             /\ status' = [status EXCEPT ![t] = "pending"]
             /\ UNCHANGED tries

Refuse(t) == /\ status[t] = "none"
             /\ status' = [status EXCEPT ![t] = "refused"]
             /\ UNCHANGED tries

\* One post: it delivers the task, or fails it if it was the last one that the
\* budget has, or leaves it pending for the next one.
Try(t) == /\ status[t] = "pending"
          /\ tries[t] < Budget[t]
          /\ tries' = [tries EXCEPT ![t] = @ + 1]
          /\ \/ status' = [status EXCEPT ![t] = "delivered"]
             \/ /\ tries[t] + 1 = Budget[t]
                /\ status' = [status EXCEPT ![t] = "failed"]
             \/ tries[t] + 1 < Budget[t] /\ UNCHANGED status

\* A task is given up between two posts, never before its first one.
Drop(t) == /\ status[t] = "pending"
           /\ tries[t] > 0
           /\ status' = [status EXCEPT ![t] = "dropped"]
           /\ UNCHANGED tries

Next == \E t \in Tasks : Accept(t) \/ Refuse(t) \/ Try(t) \/ Drop(t)

Spec == Init /\ [][Next]_vars
=============================================================================
