------------------------------ MODULE Listener ------------------------------
(***************************************************************************)
(* The SNMP listener (internal/listener/listener.go): one goroutine reads  *)
(* UDP packets and offers them to a bounded channel, max_handlers workers  *)
(* parse, validate, count and forward them, and Stop closes the socket and *)
(* the channel before it waits for all of them.  The counters are shared   *)
(* by the workers without a lock: an increment is a load and a store, and  *)
(* two workers writing the statistics maps at once may be caught by the    *)
(* runtime, which ends the process.                                        *)
(***************************************************************************)
EXTENDS Integers, Sequences, FiniteSets

CONSTANTS Packets,     \* the datagrams that reach the socket, each once
          Malformed,   \* those parseSNMPPacket refuses
          Invalid,     \* those ValidatePacket refuses
          Workers,     \* max_handlers handler goroutines
          QueueSize,   \* cap(handlers), also max_handlers
          MaxStarts    \* bound: calls of Start

NoPacket == <<>>

ASSUME ListenerAssumption ==
  /\ Malformed \subseteq Packets /\ Invalid \subseteq Packets
  /\ Malformed \cap Invalid = {}
  /\ NoPacket \notin Packets /\ IsFiniteSet(Packets)
  /\ Workers # {}              \* the schema has max_handlers: int & >=1
  /\ QueueSize \in Nat \ {0}
  /\ MaxStarts \in Nat

VARIABLES
  running,   \* l.running
  connOpen,  \* the UDP socket is open
  closed,    \* the handlers channel was closed; it is made only once
  ctxDone,   \* the context passed to Start is done
  stopping,  \* where Stop is: no, locked (it holds l.mu), waiting, returned
  reader,    \* program counter of the listen goroutine
  hand,      \* the packet the listen goroutine is about to send
  queue,     \* the handlers channel, oldest first
  at,        \* program counter of each worker
  job,       \* the packet a worker processes
  loaded,    \* the value of PacketsReceived a worker has read
  stats,     \* ListenerStats: PacketsReceived and PacketsDropped
  fate,      \* history: what became of each packet
  starts,    \* calls of Start
  panic      \* "no", "closed" (send on closed channel) or "maps"

stopVars == <<running, connOpen, closed, stopping>>
workVars == <<at, job, loaded>>
vars == <<running, connOpen, closed, ctxDone, stopping, reader, hand, queue,
          at, job, loaded, stats, fate, starts, panic>>

Ends == {"dropped", "malformed", "invalid", "forwarded"}
Inside == {"load", "store", "parse", "maps", "forward"}

TypeOK ==
  /\ running \in BOOLEAN /\ connOpen \in BOOLEAN /\ closed \in BOOLEAN
  /\ ctxDone \in BOOLEAN
  /\ stopping \in {"no", "locked", "waiting", "returned"}
  /\ reader \in {"off", "loop", "read", "send", "failed", "exited"}
  /\ hand \in Packets \cup {NoPacket}
  /\ queue \in Seq(Packets) /\ Len(queue) <= QueueSize
  /\ at \in [Workers -> {"off", "idle", "exited"} \cup Inside]
  /\ job \in [Workers -> Packets \cup {NoPacket}]
  /\ loaded \in [Workers -> Nat]
  /\ stats \in [received: Nat, dropped: Nat]
  /\ fate \in [Packets -> {"unread", "taken"} \cup Ends]
  /\ starts \in 0..MaxStarts
  /\ panic \in {"no", "closed", "maps"}

Init ==
  /\ running = FALSE /\ connOpen = FALSE /\ closed = FALSE /\ ctxDone = FALSE
  /\ stopping = "no" /\ reader = "off" /\ hand = NoPacket /\ queue = <<>>
  /\ at = [w \in Workers |-> "off"]
  /\ job = [w \in Workers |-> NoPacket]
  /\ loaded = [w \in Workers |-> 0]
  /\ stats = [received |-> 0, dropped |-> 0]
  /\ fate = [p \in Packets |-> "unread"]
  /\ starts = 0
  /\ panic = "no"

AllGone == /\ reader \in {"off", "exited"}
           /\ \A w \in Workers : at[w] \in {"off", "exited"}

-----------------------------------------------------------------------------
(* Start and Stop *)

\* Start after Stop finds running false and the old, closed channel.  The
\* caller does not call it while Stop still waits.
Start ==
  /\ ~running /\ stopping \in {"no", "returned"} /\ starts < MaxStarts
  /\ running' = TRUE /\ connOpen' = TRUE /\ stopping' = "no"
  /\ reader' = "loop"
  /\ at' = [w \in Workers |-> "idle"]
  /\ starts' = starts + 1
  /\ UNCHANGED <<closed, ctxDone, hand, queue, job, loaded, stats, fate, panic>>

\* Stop takes l.mu, clears running and closes the socket ...
StopConn ==
  /\ running /\ stopping = "no"
  /\ running' = FALSE /\ connOpen' = FALSE /\ stopping' = "locked"
  /\ UNCHANGED <<closed, ctxDone, reader, hand, queue, workVars, stats, fate,
                 starts, panic>>

\* ... closes the channel and releases l.mu; a second close panics ...
StopChannel ==
  /\ stopping = "locked" /\ ~closed
  /\ closed' = TRUE
  /\ stopping' = "waiting"
  /\ UNCHANGED <<running, connOpen, ctxDone, reader, hand, queue, workVars,
                 stats, fate, starts, panic>>

CloseTwice ==
  /\ stopping = "locked" /\ closed
  /\ panic' = "closed"
  /\ UNCHANGED <<stopVars, ctxDone, reader, hand, queue, workVars, stats, fate,
                 starts>>

\* Faulty variant: Stop does not wait for the workers.
ReaderGone == reader \in {"off", "exited"}
Waited == AllGone

\* ... and waits.
StopReturn ==
  /\ stopping = "waiting" /\ Waited
  /\ stopping' = "returned"
  /\ UNCHANGED <<running, connOpen, closed, ctxDone, reader, hand, queue,
                 workVars, stats, fate, starts, panic>>

CancelContext ==
  /\ ~ctxDone /\ starts > 0
  /\ ctxDone' = TRUE
  /\ UNCHANGED <<stopVars, reader, hand, queue, workVars, stats, fate, starts,
                 panic>>

-----------------------------------------------------------------------------
(* listen *)

ReaderTo(s) ==
  /\ reader' = s
  /\ UNCHANGED <<stopVars, ctxDone, hand, queue, workVars, stats, fate, starts,
                 panic>>

CheckContext == reader = "loop" /\ ReaderTo(IF ctxDone THEN "exited" ELSE "read")

Read(p) ==
  /\ reader = "read" /\ connOpen
  /\ fate[p] = "unread"
  /\ hand' = p
  /\ fate' = [fate EXCEPT ![p] = "taken"]
  /\ reader' = "send"
  /\ UNCHANGED <<stopVars, ctxDone, queue, workVars, stats, starts, panic>>

ReadTimeout == reader = "read" /\ connOpen /\ ReaderTo("loop")

\* Any other error; on a closed socket it is the only outcome.
ReadFails == reader = "read" /\ ReaderTo("failed")

\* Faulty variant: a read error never ends the loop.
ContinuesAlways == TRUE
Continues == running

\* IsRunning waits for l.mu, which Stop may hold.
AfterError == /\ reader = "failed" /\ stopping # "locked"
              /\ ReaderTo(IF Continues THEN "loop" ELSE "exited")

HasRoom == Len(queue) < QueueSize

\* Faulty variant: the worker is given the read buffer, not a copy.
KeepsBuffer == hand
Copied == NoPacket

Send ==
  /\ reader = "send" /\ ~closed /\ HasRoom
  /\ queue' = Append(queue, hand)
  /\ hand' = Copied
  /\ reader' = "loop"
  /\ UNCHANGED <<stopVars, ctxDone, workVars, stats, fate, starts, panic>>

Drop ==
  /\ reader = "send" /\ ~closed /\ ~HasRoom
  /\ stats' = [stats EXCEPT !.dropped = @ + 1]
  /\ fate' = [fate EXCEPT ![hand] = "dropped"]
  /\ hand' = NoPacket
  /\ reader' = "loop"
  /\ UNCHANGED <<stopVars, ctxDone, queue, workVars, starts, panic>>

SendOnClosed ==
  /\ reader = "send" /\ closed
  /\ panic' = "closed"
  /\ UNCHANGED <<stopVars, ctxDone, reader, hand, queue, workVars, stats, fate,
                 starts>>

Listen == \/ CheckContext \/ ReadTimeout \/ ReadFails \/ AfterError
          \/ Send \/ Drop \/ SendOnClosed
          \/ \E p \in Packets : Read(p)

-----------------------------------------------------------------------------
(* handlerWorker and processTrap *)

Take(w) ==
  /\ at[w] = "idle" /\ queue # <<>>
  /\ job' = [job EXCEPT ![w] = Head(queue)]
  /\ queue' = Tail(queue)
  /\ at' = [at EXCEPT ![w] = "load"]
  /\ UNCHANGED <<stopVars, ctxDone, reader, hand, loaded, stats, fate, starts,
                 panic>>

Leaves == ctxDone \/ (closed /\ queue = <<>>)

Exit(w) ==
  /\ at[w] = "idle" /\ Leaves
  /\ at' = [at EXCEPT ![w] = "exited"]
  /\ UNCHANGED <<stopVars, ctxDone, reader, hand, queue, job, loaded, stats,
                 fate, starts, panic>>

\* l.stats.PacketsReceived++ is a load ...
Load(w) ==
  /\ at[w] = "load"
  /\ loaded' = [loaded EXCEPT ![w] = stats.received]
  /\ at' = [at EXCEPT ![w] = "store"]
  /\ UNCHANGED <<stopVars, ctxDone, reader, hand, queue, job, stats, fate,
                 starts, panic>>

\* Faulty variant: a packet is counted when read and when parsed.
StoredTwice(w) == [stats EXCEPT !.received = loaded[w] + 2]
Stored(w) == [stats EXCEPT !.received = loaded[w] + 1]

\* ... and a store.
Store(w) ==
  /\ at[w] = "store"
  /\ stats' = Stored(w)
  /\ at' = [at EXCEPT ![w] = "parse"]
  /\ UNCHANGED <<stopVars, ctxDone, reader, hand, queue, job, loaded, fate,
                 starts, panic>>

Refused(p) == p \in Malformed \cup Invalid

Refuse(w) ==
  /\ at[w] = "parse" /\ Refused(job[w])
  /\ fate' = [fate EXCEPT ![job[w]] =
                IF job[w] \in Malformed THEN "malformed" ELSE "invalid"]
  /\ at' = [at EXCEPT ![w] = "idle"]
  /\ job' = [job EXCEPT ![w] = NoPacket]
  /\ UNCHANGED <<stopVars, ctxDone, reader, hand, queue, loaded, stats, starts,
                 panic>>

Validated(w) ==
  /\ at[w] = "parse" /\ ~Refused(job[w])
  /\ at' = [at EXCEPT ![w] = "maps"]
  /\ UNCHANGED <<stopVars, ctxDone, reader, hand, queue, job, loaded, stats,
                 fate, starts, panic>>

\* The map assignments of lines 560 to 567 end undisturbed.
MapsWritten(w) ==
  /\ at[w] = "maps"
  /\ at' = [at EXCEPT ![w] = "forward"]
  /\ UNCHANGED <<stopVars, ctxDone, reader, hand, queue, job, loaded, stats,
                 fate, starts, panic>>

\* "fatal error: concurrent map writes"
MapsCollide(v, w) ==
  /\ v # w /\ at[v] = "maps" /\ at[w] = "maps"
  /\ panic' = "maps"
  /\ UNCHANGED <<stopVars, ctxDone, reader, hand, queue, workVars, stats, fate,
                 starts>>

Forward(w) ==
  /\ at[w] = "forward"
  /\ fate' = [fate EXCEPT ![job[w]] = "forwarded"]
  /\ at' = [at EXCEPT ![w] = "idle"]
  /\ job' = [job EXCEPT ![w] = NoPacket]
  /\ UNCHANGED <<stopVars, ctxDone, reader, hand, queue, loaded, stats, starts,
                 panic>>

Work(w) == Take(w) \/ Load(w) \/ Store(w) \/ Refuse(w) \/ Validated(w)
             \/ MapsWritten(w) \/ Forward(w)

Stop == StopConn \/ StopChannel \/ CloseTwice \/ StopReturn

Next == /\ panic = "no"
        /\ \/ Start \/ Stop \/ CancelContext \/ Listen
           \/ \E w \in Workers : Work(w) \/ Exit(w)
           \/ \E v, w \in Workers : MapsCollide(v, w)

\* Goroutines are scheduled, a read ends by its deadline, and Stop runs on
\* once called.
Fairness ==
  /\ WF_vars(panic = "no" /\ Listen)
  /\ WF_vars(panic = "no" /\ (StopChannel \/ CloseTwice \/ StopReturn))
  /\ \A w \in Workers : WF_vars(panic = "no" /\ (Work(w) \/ Exit(w)))

Spec == Init /\ [][Next]_vars /\ Fairness

-----------------------------------------------------------------------------
(* Properties *)

InQueue(p) == \E i \in 1..Len(queue) : queue[i] = p
Held(p)    == \E w \in Workers : job[w] = p

\* Every packet read is in one place or has one end: with the reader, in the
\* channel once, or with one worker; none is processed twice, and none is
\* lost while the process lives, whatever Start, Stop and the context do.
EveryPacketInOnePlace ==
  /\ \A i, j \in 1..Len(queue) : queue[i] = queue[j] => i = j
  /\ \A v, w \in Workers : job[v] = job[w] /\ job[v] # NoPacket => v = w
  /\ \A p \in Packets :
       /\ fate[p] = "taken" <=> (hand = p \/ InQueue(p) \/ Held(p))
       /\ ~(hand = p /\ InQueue(p)) /\ ~(hand = p /\ Held(p))
       /\ ~(InQueue(p) /\ Held(p))

\* The workers count without a lock, so PacketsReceived may lose increments;
\* but no interleaving makes the two counters claim more packets than were read.
CountersNeverTooHigh ==
  stats.received + stats.dropped <= Cardinality({p \in Packets : fate[p] # "unread"})

\* The types, one place for every packet, and counters that never exceed the
\* packets read, although each increment is a load and a store.
PacketsAccounted == TypeOK /\ EveryPacketInOnePlace /\ CountersNeverTooHigh

\* When Stop has returned without a cancelled context, the workers have
\* emptied the channel: every packet accepted was processed.
StopDrains ==
  stopping = "returned" /\ ~ctxDone => queue = <<>> /\ AllGone

\* Stop returns: no goroutine it waits for waits for the lock it holds.
StopReturns == stopping = "locked" ~> (stopping = "returned" \/ panic # "no")

\* "Stop stops the SNMP trap listener gracefully" (listener.go:417): the reader
\* never sends on the channel that Stop closed.
GracefulStop == panic # "closed"

\* "Concurrent packet processing" (docs/architecture.md:39): the workers do not
\* write the statistics maps at the same time.
MapsHaveOneWriter == \A v, w \in Workers : at[v] = "maps" /\ at[w] = "maps" => v = w
=============================================================================
