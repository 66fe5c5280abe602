--------------------------- MODULE ListenerProofs ---------------------------
(***************************************************************************)
(* Proofs about Listener for any packets, any number of workers and        *)
(* starts, and any size of the channel.  IInv has four parts: the types    *)
(* with what a busy reader and a busy worker hold, one place for each      *)
(* packet, a bound of the counters that the unlocked increments keep, and  *)
(* what Stop knows of the goroutines it waits for.                         *)
(***************************************************************************)
EXTENDS Listener, FiniteSetTheorems, TLAPS

-----------------------------------------------------------------------------
(* Sequences without repetition *)

InSeq(q, x) == \E i \in 1..Len(q) : q[i] = x
Distinct(q) == \A i, j \in 1..Len(q) : q[i] = q[j] => i = j

\* What the send on handlers does to the set of queued packets.
LEMMA AppendLemma ==
  ASSUME NEW S, NEW q \in Seq(S), NEW x \in S
  PROVE  /\ Append(q, x) \in Seq(S)
         /\ \A y : InSeq(Append(q, x), y) <=> InSeq(q, y) \/ y = x
         /\ Distinct(q) /\ ~InSeq(q, x) => Distinct(Append(q, x))
<1>1. /\ Append(q, x) \in Seq(S)
      /\ Len(Append(q, x)) = Len(q) + 1
      /\ \A i \in 1..Len(q) : Append(q, x)[i] = q[i]
      /\ Append(q, x)[Len(q) + 1] = x
      /\ Len(q) \in Nat
  OBVIOUS
<1>2. 1..Len(Append(q, x)) = (1..Len(q)) \cup {Len(q) + 1}
  BY <1>1
<1>3. \A y : InSeq(Append(q, x), y) <=> InSeq(q, y) \/ y = x
  BY <1>1, <1>2 DEF InSeq
<1>4. ASSUME Distinct(q), ~InSeq(q, x)
      PROVE  Distinct(Append(q, x))
  BY <1>1, <1>2, <1>4 DEF Distinct, InSeq
<1>5. QED
  BY <1>1, <1>3, <1>4

\* What the receive of a worker does to it.
LEMMA TailLemma ==
  ASSUME NEW S, NEW q \in Seq(S), q # <<>>
  PROVE  /\ Head(q) \in S /\ Tail(q) \in Seq(S)
         /\ InSeq(q, Head(q))
         /\ \A y : InSeq(Tail(q), y) => InSeq(q, y)
         /\ \A y : InSeq(q, y) => InSeq(Tail(q), y) \/ y = Head(q)
         /\ Distinct(q) => Distinct(Tail(q)) /\ ~InSeq(Tail(q), Head(q))
<1>1. /\ Head(q) \in S /\ Tail(q) \in Seq(S) /\ Head(q) = q[1]
      /\ Len(q) \in Nat \ {0} /\ Len(Tail(q)) = Len(q) - 1
      /\ \A i \in 1..Len(Tail(q)) : Tail(q)[i] = q[i + 1] /\ i + 1 \in 1..Len(q)
  OBVIOUS
<1>2. InSeq(q, Head(q))
  BY <1>1 DEF InSeq
<1>3. \A y : InSeq(Tail(q), y) => InSeq(q, y)
  BY <1>1 DEF InSeq
<1>a. ASSUME NEW y, InSeq(q, y), y # Head(q)
      PROVE  InSeq(Tail(q), y)
  <2>1. PICK i \in 1..Len(q) : q[i] = y
    BY <1>a DEF InSeq
  <2>2. i - 1 \in 1..Len(Tail(q)) /\ Tail(q)[i - 1] = y
    BY <1>1, <1>a, <2>1
  <2>3. QED  BY <2>2 DEF InSeq
<1>4. ASSUME Distinct(q)
      PROVE  Distinct(Tail(q)) /\ ~InSeq(Tail(q), Head(q))
  <2>1. Distinct(Tail(q))
    BY <1>1, <1>4 DEF Distinct
  <2>2. ~InSeq(Tail(q), Head(q))
    BY <1>1, <1>4 DEF Distinct, InSeq
  <2>3. QED  BY <2>1, <2>2
<1>5. QED
  BY <1>1, <1>2, <1>3, <1>4, <1>a

-----------------------------------------------------------------------------
(* The invariant *)

\* The reader holds a packet when it is about to send, a worker inside
\* processTrap.
HandOK == hand # NoPacket <=> reader = "send"
JobOK  == \A w \in Workers : job[w] # NoPacket <=> at[w] \in Inside

TypeInv == TypeOK /\ HandOK /\ JobOK

\* The packets that a worker has counted: it is past its store.
Counted == {p \in Packets : \/ fate[p] \in {"malformed", "invalid", "forwarded"}
                            \/ \E w \in Workers : /\ at[w] \in {"parse", "maps", "forward"}
                                                  /\ job[w] = p}
Dropped == {p \in Packets : fate[p] = "dropped"}

\* A lost increment makes PacketsReceived smaller, never larger: what a worker
\* has loaded is no more than the packets counted, its own not among them.
CountOK ==
  /\ stats.received <= Cardinality(Counted)
  /\ stats.dropped = Cardinality(Dropped)
  /\ \A w \in Workers : at[w] = "store" => loaded[w] <= Cardinality(Counted)

\* Before a start and after a stop nobody runs; once started every worker was
\* launched; and a worker leaves a live context only behind the last packet.
StopOK ==
  /\ stopping # "no" => ~running
  /\ ~running /\ stopping \in {"no", "returned"} => AllGone
  /\ running \/ stopping # "no" => \A w \in Workers : at[w] # "off"
  /\ ~ctxDone => \A w \in Workers : at[w] = "exited" => closed /\ queue = <<>>

IInv == TypeInv /\ EveryPacketInOnePlace /\ CountOK /\ StopOK

\* NewListener: nothing read, nobody running.
LEMMA IInit == Init => IInv
<1> SUFFICES ASSUME Init PROVE IInv
  OBVIOUS
<1>1. TypeInv
  <2>1. queue \in Seq(Packets) /\ Len(queue) <= QueueSize
    BY ListenerAssumption DEF Init
  <2>2. stats \in [received: Nat, dropped: Nat]
    BY DEF Init
  <2>3. HandOK /\ JobOK
    BY DEF Init, HandOK, JobOK, Inside
  <2>4. 0 \in 0..MaxStarts
    BY ListenerAssumption
  <2>5. /\ at \in [Workers -> {"off", "idle", "exited"} \cup Inside]
        /\ loaded \in [Workers -> Nat] /\ job \in [Workers -> Packets \cup {NoPacket}]
        /\ fate \in [Packets -> {"unread", "taken"} \cup Ends]
    BY DEF Init
  <2>6. QED  BY <2>1, <2>2, <2>3, <2>4, <2>5 DEF Init, TypeInv, TypeOK
<1>2. EveryPacketInOnePlace
  BY ListenerAssumption DEF Init, EveryPacketInOnePlace, InQueue, Held
<1>3. CountOK
  <2>1. Counted = {} /\ Dropped = {}
    BY DEF Init, Counted, Dropped
  <2>2. Cardinality(Counted) = 0 /\ Cardinality(Dropped) = 0
    BY <2>1, FS_EmptySet
  <2>3. QED  BY <2>2 DEF Init, CountOK
<1>4. StopOK
  BY DEF Init, StopOK, AllGone
<1>5. QED  BY <1>1, <1>2, <1>3, <1>4 DEF IInv

\* Nothing that Stop, the context, an error or a panic does moves a packet.
Still == StopConn \/ StopChannel \/ CloseTwice \/ StopReturn \/ CancelContext
           \/ SendOnClosed \/ (\E v, w \in Workers : MapsCollide(v, w)) \/ UNCHANGED vars

\* Not even the counters change.
LEMMA StillMovesNothing ==
  ASSUME Still
  PROVE  UNCHANGED <<reader, hand, queue, workVars, stats, fate, starts>>
BY DEF Still, StopConn, StopChannel, CloseTwice, StopReturn, CancelContext, SendOnClosed,
       MapsCollide, vars, workVars

\* The steps of listen that only move its program counter.
Turn == CheckContext \/ ReadTimeout \/ ReadFails \/ AfterError

\* They hold no packet before or after.
LEMMA TurnMovesReader ==
  ASSUME Turn
  PROVE  /\ UNCHANGED <<stopVars, ctxDone, hand, queue, workVars, stats, fate, starts, panic>>
         /\ reader # "send" /\ reader' # "send" /\ reader \notin {"off", "exited"}
         /\ reader' \in {"loop", "read", "failed", "exited"}
BY DEF Turn, CheckContext, ReadTimeout, ReadFails, AfterError, ReaderTo

\* The end of processTrap: the packet is refused or forwarded.
Done(w) == Refuse(w) \/ Forward(w)

\* Both ends give the packet its fate and leave the worker idle.
LEMMA DoneEnds ==
  ASSUME TypeInv, NEW w \in Workers, Done(w)
  PROVE  /\ at[w] \in {"parse", "forward"} /\ job[w] \in Packets
         /\ \E s \in {"malformed", "invalid", "forwarded"} : fate' = [fate EXCEPT ![job[w]] = s]
         /\ at' = [at EXCEPT ![w] = "idle"] /\ job' = [job EXCEPT ![w] = NoPacket]
         /\ UNCHANGED <<stopVars, ctxDone, reader, hand, queue, loaded, stats, starts, panic>>
BY DEF Done, Refuse, Forward, TypeInv, TypeOK, JobOK, Inside

-----------------------------------------------------------------------------
(* Types *)

\* The updates of the counters keep the type of the record.
LEMMA StatsCounted ==
  ASSUME NEW s \in [received: Nat, dropped: Nat], NEW n \in Nat
  PROVE  LET d == [s EXCEPT !.dropped = @ + 1]
             c == [s EXCEPT !.received = n]
         IN /\ d \in [received: Nat, dropped: Nat] /\ d.dropped = s.dropped + 1
            /\ d.received = s.received
            /\ c \in [received: Nat, dropped: Nat] /\ c.received = n /\ c.dropped = s.dropped
            /\ s.dropped \in Nat /\ s.received \in Nat
OBVIOUS

\* Every step keeps the types and what the busy ones hold.
LEMMA TypeStep ==
  ASSUME TypeInv, StopOK, [Next]_vars
  PROVE  TypeInv'
<1>0. TypeOK /\ HandOK /\ JobOK /\ QueueSize \in Nat /\ MaxStarts \in Nat /\ NoPacket \notin Packets
  BY ListenerAssumption DEF TypeInv
<1>1. CASE Start
  <2>1. \A w \in Workers : job[w] = NoPacket
    BY <1>0, <1>1 DEF Start, StopOK, AllGone, JobOK, Inside
  <2>2. hand = NoPacket
    BY <1>0, <1>1 DEF Start, StopOK, AllGone, HandOK
  <2>3. starts' \in 0..MaxStarts
    BY <1>0, <1>1 DEF Start, TypeOK
  <2>4. QED
    BY <1>0, <1>1, <2>1, <2>2, <2>3 DEF Start, TypeInv, TypeOK, HandOK, JobOK, Inside
<1>2. CASE Still
  <2>1. /\ running' \in BOOLEAN /\ connOpen' \in BOOLEAN /\ closed' \in BOOLEAN /\ ctxDone' \in BOOLEAN
        /\ stopping' \in {"no", "locked", "waiting", "returned"} /\ panic' \in {"no", "closed", "maps"}
    BY <1>0, <1>2 DEF Still, StopConn, StopChannel, CloseTwice, StopReturn, CancelContext,
       SendOnClosed, MapsCollide, vars, TypeOK, stopVars
  <2>2. QED
    BY <1>0, <1>2, <2>1, StillMovesNothing DEF TypeInv, TypeOK, HandOK, JobOK, workVars
<1>3. CASE Turn
  BY <1>0, <1>3, TurnMovesReader DEF TypeInv, TypeOK, HandOK, JobOK, workVars, stopVars
<1>4. ASSUME NEW p \in Packets, Read(p)
      PROVE  TypeInv'
  BY <1>0, <1>4 DEF Read, TypeInv, TypeOK, HandOK, JobOK, workVars, stopVars
<1>5. CASE Send
  <2>1. hand \in Packets
    BY <1>0, <1>5 DEF Send, TypeOK, HandOK
  <2>2. queue' \in Seq(Packets) /\ Len(queue') <= QueueSize
    BY <1>0, <1>5, <2>1 DEF Send, HasRoom, TypeOK
  <2>3. QED
    BY <1>0, <1>5, <2>2 DEF Send, Copied, TypeInv, TypeOK, HandOK, JobOK, workVars, stopVars
<1>6. CASE Drop
  <2>1. hand \in Packets
    BY <1>0, <1>6 DEF Drop, TypeOK, HandOK
  <2>2. fate' \in [Packets -> {"unread", "taken"} \cup Ends]
    BY <1>0, <1>6, <2>1 DEF Drop, TypeOK, Ends
  <2>3. stats' \in [received: Nat, dropped: Nat]
    BY <1>0, <1>6, StatsCounted DEF Drop, TypeOK
  <2>4. QED
    BY <1>0, <1>6, <2>2, <2>3 DEF Drop, TypeInv, TypeOK, HandOK, JobOK, workVars, stopVars
<1>7. ASSUME NEW w \in Workers, Take(w)
      PROVE  TypeInv'
  <2>1. Head(queue) \in Packets /\ queue' \in Seq(Packets) /\ Len(queue') <= QueueSize
    BY <1>0, <1>7 DEF Take, TypeOK
  <2>2. QED
    BY <1>0, <1>7, <2>1 DEF Take, TypeInv, TypeOK, HandOK, JobOK, Inside, stopVars
<1>8. ASSUME NEW w \in Workers, Exit(w) \/ Validated(w) \/ MapsWritten(w)
      PROVE  TypeInv'
  <2>1. /\ at[w] \in Inside => job[w] # NoPacket
        /\ at[w] \notin Inside => job[w] = NoPacket
    BY <1>0 DEF JobOK
  <2>2. /\ at' \in [Workers -> {"off", "idle", "exited"} \cup Inside]
        /\ at'[w] \in Inside <=> at[w] \in Inside
        /\ \A v \in Workers \ {w} : at'[v] = at[v]
    BY <1>0, <1>8 DEF Exit, Validated, MapsWritten, TypeOK, Inside
  <2>3. UNCHANGED <<stopVars, ctxDone, reader, hand, queue, job, loaded, stats, fate, starts, panic>>
    BY <1>8 DEF Exit, Validated, MapsWritten
  <2>4. JobOK'
    BY <1>0, <2>2, <2>3 DEF JobOK
  <2>5. QED
    BY <1>0, <2>2, <2>3, <2>4 DEF TypeInv, TypeOK, HandOK, stopVars
<1>9. ASSUME NEW w \in Workers, Load(w)
      PROVE  TypeInv'
  BY <1>0, <1>9 DEF Load, TypeInv, TypeOK, HandOK, JobOK, Inside, stopVars
<1>10. ASSUME NEW w \in Workers, Store(w)
       PROVE  TypeInv'
  <2>1. loaded[w] + 1 \in Nat /\ stats' = [stats EXCEPT !.received = loaded[w] + 1]
    BY <1>0, <1>10 DEF Store, Stored, TypeOK
  <2>2. stats' \in [received: Nat, dropped: Nat]
    BY <1>0, <2>1, StatsCounted DEF TypeOK
  <2>3. QED
    BY <1>0, <1>10, <2>2 DEF Store, TypeInv, TypeOK, HandOK, JobOK, Inside, stopVars
<1>11. ASSUME NEW w \in Workers, Done(w)
       PROVE  TypeInv'
  <2>1. PICK s \in {"malformed", "invalid", "forwarded"} : fate' = [fate EXCEPT ![job[w]] = s]
    BY <1>11, DoneEnds
  <2>2. fate' \in [Packets -> {"unread", "taken"} \cup Ends]
    BY <1>0, <2>1 DEF TypeOK, Ends
  <2>3. QED
    BY <1>0, <1>11, <2>2, DoneEnds DEF TypeInv, TypeOK, HandOK, JobOK, Inside, stopVars
<1>12. QED
  BY <1>1, <1>2, <1>3, <1>4, <1>5, <1>6, <1>7, <1>8, <1>9, <1>10, <1>11
     DEF Next, Stop, Listen, Work, Still, Turn, Done

-----------------------------------------------------------------------------
(* One place for each packet *)

\* A step that moves no packet keeps their places.
LEMMA PlacesStay ==
  ASSUME EveryPacketInOnePlace, UNCHANGED <<hand, queue, job, fate>>
  PROVE  EveryPacketInOnePlace'
BY DEF EveryPacketInOnePlace, InQueue, Held

\* The reader takes a packet that nobody has.
LEMMA ReadPlace ==
  ASSUME TypeInv, EveryPacketInOnePlace, NEW p \in Packets, Read(p)
  PROVE  EveryPacketInOnePlace'
<1>1. hand = NoPacket /\ ~InQueue(p) /\ ~Held(p)
  BY DEF Read, TypeInv, HandOK, EveryPacketInOnePlace
<1>2. /\ hand' = p /\ queue' = queue /\ job' = job
      /\ fate'[p] = "taken" /\ \A r \in Packets \ {p} : fate'[r] = fate[r]
  BY DEF Read, TypeInv, TypeOK, workVars
<1>3. \A r \in Packets : (InQueue(r)' <=> InQueue(r)) /\ (Held(r)' <=> Held(r)) /\ hand # r
  BY <1>1, <1>2, ListenerAssumption DEF InQueue, Held
<1>4. QED
  BY <1>1, <1>2, <1>3 DEF EveryPacketInOnePlace

\* The send moves it into the channel ...
LEMMA SendPlace ==
  ASSUME TypeInv, EveryPacketInOnePlace, Send
  PROVE  EveryPacketInOnePlace'
<1>1. hand \in Packets /\ queue \in Seq(Packets) /\ NoPacket \notin Packets
  BY ListenerAssumption DEF Send, TypeInv, TypeOK, HandOK
<1>2. /\ queue' = Append(queue, hand) /\ hand' = NoPacket /\ job' = job /\ fate' = fate
      /\ ~InQueue(hand) /\ ~Held(hand)
  BY <1>1 DEF Send, Copied, workVars, EveryPacketInOnePlace
<1>3. \A r \in Packets : InQueue(r) <=> InSeq(queue, r)
  BY DEF InQueue, InSeq
<1>4. \A r \in Packets : InQueue(r)' <=> InSeq(Append(queue, hand), r)
  BY <1>2 DEF InQueue, InSeq
<1>5. \A r \in Packets : InQueue(r)' <=> InQueue(r) \/ r = hand
  BY <1>1, <1>3, <1>4, AppendLemma
<1>6. Distinct(queue')
  BY <1>1, <1>2, <1>3, AppendLemma DEF EveryPacketInOnePlace, Distinct
<1>7. \A r \in Packets : Held(r)' <=> Held(r)
  BY <1>2 DEF Held
<1>8. QED
  BY <1>1, <1>2, <1>5, <1>6, <1>7 DEF EveryPacketInOnePlace, Distinct

\* ... and a full channel ends it.
LEMMA DropPlace ==
  ASSUME TypeInv, EveryPacketInOnePlace, Drop
  PROVE  EveryPacketInOnePlace'
<1>1. hand \in Packets /\ NoPacket \notin Packets
  BY ListenerAssumption DEF Drop, TypeInv, TypeOK, HandOK
<1>2. /\ hand' = NoPacket /\ queue' = queue /\ job' = job
      /\ fate'[hand] = "dropped" /\ \A r \in Packets \ {hand} : fate'[r] = fate[r]
  BY <1>1 DEF Drop, TypeInv, TypeOK, workVars
<1>3. \A r \in Packets : (InQueue(r)' <=> InQueue(r)) /\ (Held(r)' <=> Held(r))
  BY <1>2 DEF InQueue, Held
<1>4. QED
  BY <1>1, <1>2, <1>3 DEF EveryPacketInOnePlace

\* A worker takes the oldest packet from the channel.
LEMMA TakePlace ==
  ASSUME TypeInv, EveryPacketInOnePlace, NEW w \in Workers, Take(w)
  PROVE  EveryPacketInOnePlace'
<1>0. queue \in Seq(Packets) /\ queue # <<>> /\ job \in [Workers -> Packets \cup {NoPacket}]
  BY DEF Take, TypeInv, TypeOK
<1>a. PICK h : h = Head(queue)
  OBVIOUS
<1>1. job[w] = NoPacket
  BY DEF Take, TypeInv, JobOK, Inside
<1>2. h \in Packets /\ NoPacket \notin Packets
  BY <1>0, <1>a, TailLemma, ListenerAssumption
<1>3. /\ queue' = Tail(queue) /\ hand' = hand /\ fate' = fate
      /\ job'[w] = h /\ \A v \in Workers \ {w} : job'[v] = job[v]
  BY <1>0, <1>a DEF Take
<1>4. \A r \in Packets : InQueue(r) <=> InSeq(queue, r)
  BY DEF InQueue, InSeq
<1>5. \A r \in Packets : InQueue(r)' <=> InSeq(Tail(queue), r)
  BY <1>3 DEF InQueue, InSeq
<1>6. Distinct(queue)
  BY DEF EveryPacketInOnePlace, Distinct
<1>7. /\ InQueue(h) /\ ~InQueue(h)' /\ Distinct(Tail(queue))
      /\ \A r \in Packets \ {h} : InQueue(r)' <=> InQueue(r)
  BY <1>0, <1>a, <1>2, <1>4, <1>5, <1>6, TailLemma
<1>8. Held(h)' /\ \A r \in Packets \ {h} : Held(r)' <=> Held(r)
  BY <1>1, <1>2, <1>3 DEF Held
<1>9. fate[h] = "taken" /\ hand # h /\ ~Held(h)
  BY <1>2, <1>7 DEF EveryPacketInOnePlace
<1>10. \A u, v \in Workers : job'[u] = job'[v] /\ job'[u] # NoPacket => u = v
  BY <1>1, <1>2, <1>3, <1>9 DEF EveryPacketInOnePlace, Held
<1>11. \A i, j \in 1..Len(queue') : queue'[i] = queue'[j] => i = j
  BY <1>3, <1>7 DEF Distinct
<1>12. ASSUME NEW r \in Packets
       PROVE  /\ fate'[r] = "taken" <=> (hand' = r \/ InQueue(r)' \/ Held(r)')
              /\ ~(hand' = r /\ InQueue(r)') /\ ~(hand' = r /\ Held(r)')
              /\ ~(InQueue(r)' /\ Held(r)')
  <2>1. CASE r = h
    BY <1>3, <1>7, <1>8, <1>9, <2>1
  <2>2. CASE r # h
    BY <1>3, <1>7, <1>8, <2>2 DEF EveryPacketInOnePlace
  <2>3. QED  BY <2>1, <2>2
<1>13. QED
  BY <1>10, <1>11, <1>12 DEF EveryPacketInOnePlace

\* A worker that is done has ended its packet, and no other one has it.
LEMMA DonePlace ==
  ASSUME TypeInv, EveryPacketInOnePlace, NEW w \in Workers, Done(w)
  PROVE  EveryPacketInOnePlace'
<1>0. PICK p \in Packets : p = job[w]
  BY DoneEnds
<1>1. PICK s \in {"malformed", "invalid", "forwarded"} : fate' = [fate EXCEPT ![job[w]] = s]
  BY DoneEnds
<1>2. /\ queue' = queue /\ hand' = hand
      /\ job'[w] = NoPacket /\ \A v \in Workers \ {w} : job'[v] = job[v]
      /\ fate'[p] # "taken" /\ \A r \in Packets \ {p} : fate'[r] = fate[r]
      /\ NoPacket \notin Packets
  <2>1. job' = [job EXCEPT ![w] = NoPacket] /\ queue' = queue /\ hand' = hand
    BY DoneEnds
  <2>2. job \in [Workers -> Packets \cup {NoPacket}] /\ fate \in [Packets -> {"unread", "taken"} \cup Ends]
    BY DEF TypeInv, TypeOK
  <2>3. fate' = [fate EXCEPT ![p] = s] /\ s # "taken"
    BY <1>0, <1>1
  <2>4. fate'[p] # "taken" /\ \A r \in Packets \ {p} : fate'[r] = fate[r]
    BY <2>2, <2>3
  <2>5. job'[w] = NoPacket /\ \A v \in Workers \ {w} : job'[v] = job[v]
    BY <2>1, <2>2
  <2>6. QED  BY <2>1, <2>4, <2>5, ListenerAssumption
<1>3. \A r \in Packets : InQueue(r)' <=> InQueue(r)
  BY <1>2 DEF InQueue
<1>4. ~Held(p)' /\ \A r \in Packets \ {p} : Held(r)' <=> Held(r)
  BY <1>0, <1>2 DEF Held, EveryPacketInOnePlace
<1>5. Held(p)
  BY <1>0 DEF Held
<1>6. hand # p /\ ~InQueue(p)
  BY <1>2, <1>5 DEF EveryPacketInOnePlace
<1>7. \A u, v \in Workers : job'[u] = job'[v] /\ job'[u] # NoPacket => u = v
  BY <1>2 DEF EveryPacketInOnePlace
<1>8. ASSUME NEW r \in Packets
      PROVE  /\ fate'[r] = "taken" <=> (hand' = r \/ InQueue(r)' \/ Held(r)')
             /\ ~(hand' = r /\ InQueue(r)') /\ ~(hand' = r /\ Held(r)')
             /\ ~(InQueue(r)' /\ Held(r)')
  <2>1. CASE r = p
    BY <1>2, <1>3, <1>4, <1>6, <2>1
  <2>2. CASE r # p
    BY <1>2, <1>3, <1>4, <2>2 DEF EveryPacketInOnePlace
  <2>3. QED  BY <2>1, <2>2
<1>9. QED
  BY <1>2, <1>7, <1>8 DEF EveryPacketInOnePlace

\* No step duplicates a packet or loses one.
LEMMA PlaceStep ==
  ASSUME TypeInv, EveryPacketInOnePlace, [Next]_vars
  PROVE  EveryPacketInOnePlace'
<1>1. CASE Start \/ Still \/ Turn
  BY <1>1, PlacesStay, StillMovesNothing, TurnMovesReader DEF Start, workVars
<1>2. ASSUME NEW w \in Workers, Exit(w) \/ Load(w) \/ Store(w) \/ Validated(w) \/ MapsWritten(w)
      PROVE  EveryPacketInOnePlace'
  BY <1>2, PlacesStay DEF Exit, Load, Store, Validated, MapsWritten
<1>3. QED
  BY <1>1, <1>2, ReadPlace, SendPlace, DropPlace, TakePlace, DonePlace
     DEF Next, Stop, Listen, Work, Still, Turn, Done

-----------------------------------------------------------------------------
(* The counters *)

\* The sets of counted packets are finite.
LEMMA SetsFinite ==
  /\ IsFiniteSet(Counted) /\ Cardinality(Counted) \in Nat
  /\ IsFiniteSet(Dropped) /\ Cardinality(Dropped) \in Nat
BY ListenerAssumption, FS_Subset, FS_CardinalityType DEF Counted, Dropped

\* A step that counts nothing and lets no worker load keeps the bound.
LEMMA CountsStay ==
  ASSUME CountOK, Counted' = Counted, Dropped' = Dropped, stats' = stats,
         \A w \in Workers : at'[w] = "store" => at[w] = "store" /\ loaded'[w] = loaded[w]
  PROVE  CountOK'
BY DEF CountOK

\* What a worker loads is no more than what was counted when it loads.
LEMMA LoadCounts ==
  ASSUME TypeInv, CountOK, NEW w \in Workers, Load(w)
  PROVE  CountOK'
<1>1. at[w] = "load" /\ at'[w] = "store" /\ \A v \in Workers \ {w} : at'[v] = at[v]
  BY DEF Load, TypeInv, TypeOK
<1>2. loaded'[w] = stats.received /\ \A v \in Workers \ {w} : loaded'[v] = loaded[v]
  BY DEF Load, TypeInv, TypeOK
<1>3. UNCHANGED <<job, stats, fate>>
  BY DEF Load
<1>4. Counted' = Counted
  BY <1>1, <1>3 DEF Counted
<1>5. Dropped' = Dropped
  BY <1>3 DEF Dropped
<1>6. QED
  BY <1>1, <1>2, <1>3, <1>4, <1>5 DEF CountOK

\* Its store counts its own packet, which was not counted before.
LEMMA StoreCounts ==
  ASSUME TypeInv, EveryPacketInOnePlace, CountOK, NEW w \in Workers, Store(w)
  PROVE  CountOK'
<1>0. at[w] = "store" /\ loaded[w] \in Nat
  BY DEF Store, TypeInv, TypeOK
<1>a. PICK p \in Packets : p = job[w]
  BY <1>0 DEF TypeInv, TypeOK, JobOK, Inside
<1>1. at'[w] = "parse" /\ \A v \in Workers \ {w} : at'[v] = at[v]
  BY DEF Store, TypeInv, TypeOK
<1>2. UNCHANGED <<job, fate, loaded>>
  BY DEF Store
<1>3. stats'.received = loaded[w] + 1 /\ stats'.dropped = stats.dropped
  BY <1>0, StatsCounted DEF Store, Stored, TypeInv, TypeOK
<1>4. p # NoPacket /\ fate[p] = "taken"
  BY <1>a, ListenerAssumption DEF EveryPacketInOnePlace, Held
<1>5. p \notin Counted
  <2>1. \A v \in Workers : job[v] = p => v = w
    BY <1>a, <1>4 DEF EveryPacketInOnePlace
  <2>2. QED  BY <1>0, <1>4, <2>1 DEF Counted
<1>6. Counted' = Counted \cup {p}
  BY <1>0, <1>a, <1>1, <1>2 DEF Counted
<1>7. Cardinality(Counted') = Cardinality(Counted) + 1
  BY <1>5, <1>6, SetsFinite, FS_AddElement
<1>8. Dropped' = Dropped
  BY <1>2 DEF Dropped
<1>9. loaded[w] <= Cardinality(Counted)
  BY <1>0 DEF CountOK
<1>10. ASSUME NEW v \in Workers, at'[v] = "store"
       PROVE  loaded'[v] <= Cardinality(Counted')
  <2>1. v # w /\ at[v] = "store" /\ loaded[v] \in Nat
    BY <1>1, <1>10 DEF TypeInv, TypeOK
  <2>2. QED  BY <1>2, <1>7, <2>1, SetsFinite DEF CountOK
<1>11. QED
  BY <1>0, <1>3, <1>7, <1>8, <1>9, <1>10, SetsFinite DEF CountOK

\* The reader counts each packet that it drops.
LEMMA DropCounts ==
  ASSUME TypeInv, EveryPacketInOnePlace, CountOK, Drop
  PROVE  CountOK'
<1>1. PICK p \in Packets : p = hand
  BY DEF Drop, TypeInv, TypeOK, HandOK
<1>2. fate[p] = "taken" /\ ~Held(p)
  BY <1>1 DEF EveryPacketInOnePlace
<1>3. /\ UNCHANGED workVars
      /\ fate'[p] = "dropped" /\ \A r \in Packets \ {p} : fate'[r] = fate[r]
  BY <1>1 DEF Drop, TypeInv, TypeOK
<1>4. Counted' = Counted
  BY <1>2, <1>3 DEF Counted, Held, workVars
<1>5. Dropped' = Dropped \cup {p} /\ p \notin Dropped
  BY <1>2, <1>3 DEF Dropped
<1>6. Cardinality(Dropped') = Cardinality(Dropped) + 1
  BY <1>5, SetsFinite, FS_AddElement
<1>7. stats'.dropped = stats.dropped + 1 /\ stats'.received = stats.received
  BY StatsCounted DEF Drop, TypeInv, TypeOK
<1>8. QED
  BY <1>3, <1>4, <1>6, <1>7 DEF CountOK, workVars

\* Workers that move on otherwise, or are launched, count nothing.
LEMMA CountStep ==
  ASSUME TypeInv, EveryPacketInOnePlace, CountOK, StopOK, [Next]_vars
  PROVE  CountOK'
<1>0. at \in [Workers -> {"off", "idle", "exited"} \cup Inside]
  BY DEF TypeInv, TypeOK
<1>1. ASSUME UNCHANGED <<workVars, stats, fate>>
      PROVE  CountOK'
  BY <1>1, CountsStay DEF Counted, Dropped, workVars
<1>2. CASE Start
  <2>1. \A w \in Workers : at[w] \in {"off", "exited"} /\ at'[w] = "idle"
    BY <1>2 DEF Start, StopOK, AllGone
  <2>2. Counted' = Counted /\ Dropped' = Dropped
    BY <1>2, <2>1 DEF Start, Counted, Dropped
  <2>3. QED  BY <1>2, <2>1, <2>2, CountsStay DEF Start
<1>3. CASE Still \/ Turn \/ Send
  BY <1>1, <1>3, StillMovesNothing, TurnMovesReader DEF Send
<1>4. ASSUME NEW p \in Packets, Read(p)
      PROVE  CountOK'
  <2>1. fate[p] = "unread" /\ fate'[p] = "taken" /\ \A r \in Packets \ {p} : fate'[r] = fate[r]
    BY <1>4 DEF Read, TypeInv, TypeOK
  <2>2. UNCHANGED <<workVars, stats>>
    BY <1>4 DEF Read
  <2>3. Counted' = Counted /\ Dropped' = Dropped
    BY <2>1, <2>2 DEF Counted, Dropped, workVars
  <2>4. QED  BY <2>2, <2>3, CountsStay DEF workVars
<1>5. ASSUME NEW w \in Workers, Take(w)
      PROVE  CountOK'
  <2>1. at[w] = "idle" /\ at'[w] = "load" /\ \A v \in Workers \ {w} : at'[v] = at[v] /\ job'[v] = job[v]
    BY <1>5 DEF Take, TypeInv, TypeOK
  <2>2. UNCHANGED <<loaded, stats, fate>>
    BY <1>5 DEF Take
  <2>3. Counted' = Counted /\ Dropped' = Dropped
    BY <2>1, <2>2 DEF Counted, Dropped
  <2>4. QED  BY <2>1, <2>2, <2>3, CountsStay
<1>6. ASSUME NEW w \in Workers, Exit(w) \/ Validated(w) \/ MapsWritten(w)
      PROVE  CountOK'
  <2>1. /\ at'[w] \in {"parse", "maps", "forward"} <=> at[w] \in {"parse", "maps", "forward"}
        /\ at'[w] # "store" /\ \A v \in Workers \ {w} : at'[v] = at[v]
    BY <1>0, <1>6 DEF Exit, Validated, MapsWritten
  <2>2. UNCHANGED <<job, loaded, stats, fate>>
    BY <1>6 DEF Exit, Validated, MapsWritten
  <2>3. Counted' = Counted /\ Dropped' = Dropped
    BY <2>1, <2>2 DEF Counted, Dropped
  <2>4. QED  BY <2>1, <2>2, <2>3, CountsStay
<1>7. ASSUME NEW w \in Workers, Done(w)
      PROVE  CountOK'
  <2>0. PICK p \in Packets : p = job[w]
    BY <1>7, DoneEnds
  <2>1. PICK s \in {"malformed", "invalid", "forwarded"} : fate' = [fate EXCEPT ![p] = s]
    BY <1>7, <2>0, DoneEnds
  <2>2. /\ at[w] \in {"parse", "forward"} /\ at'[w] = "idle" /\ job'[w] = NoPacket
        /\ \A v \in Workers \ {w} : at'[v] = at[v] /\ job'[v] = job[v]
        /\ UNCHANGED <<loaded, stats>>
    BY <1>0, <1>7, DoneEnds DEF TypeInv, TypeOK
  <2>3. fate'[p] = s /\ \A r \in Packets \ {p} : fate'[r] = fate[r]
    BY <2>1 DEF TypeInv, TypeOK
  <2>4. fate[p] = "taken"
    BY <2>0 DEF EveryPacketInOnePlace, Held
  <2>5. Counted' = Counted
    BY <2>0, <2>2, <2>3, ListenerAssumption DEF Counted
  <2>6. Dropped' = Dropped
    BY <2>3, <2>4 DEF Dropped
  <2>7. QED  BY <2>2, <2>5, <2>6, CountsStay
<1>8. QED
  BY <1>2, <1>3, <1>4, <1>5, <1>6, <1>7, LoadCounts, StoreCounts, DropCounts
     DEF Next, Stop, Listen, Work, Still, Turn, Done

-----------------------------------------------------------------------------
(* Stop and the goroutines it waits for *)

\* Nobody comes back after Stop has waited, and the last worker to leave a live
\* context leaves an empty channel that stays empty.
LEMMA StopStep ==
  ASSUME TypeInv, StopOK, [Next]_vars
  PROVE  StopOK'
<1>0. at \in [Workers -> {"off", "idle", "exited"} \cup Inside]
  BY DEF TypeInv, TypeOK
<1>1. CASE Start
  BY <1>1 DEF Start, StopOK
<1>2. CASE StopConn \/ StopChannel \/ CloseTwice \/ StopReturn \/ CancelContext \/ UNCHANGED vars
  BY <1>2 DEF StopConn, StopChannel, CloseTwice, StopReturn, Waited, CancelContext, vars, stopVars,
              workVars, StopOK, AllGone
<1>3. ASSUME Turn \/ SendOnClosed \/ Drop \/ (\E p \in Packets : Read(p))
               \/ (\E v, w \in Workers : MapsCollide(v, w))
      PROVE  StopOK'
  <2>1. UNCHANGED <<stopVars, ctxDone, queue, workVars>>
    BY <1>3, TurnMovesReader DEF SendOnClosed, Drop, Read, MapsCollide
  <2>2. reader \in {"off", "exited"} => reader' \in {"off", "exited"}
    BY <1>3, TurnMovesReader DEF SendOnClosed, Drop, Read, MapsCollide
  <2>3. QED  BY <2>1, <2>2 DEF StopOK, AllGone, stopVars, workVars
<1>4. CASE Send
  <2>1. UNCHANGED <<stopVars, ctxDone, workVars>> /\ ~closed /\ reader = "send"
    BY <1>4 DEF Send
  <2>2. QED  BY <2>1 DEF StopOK, AllGone, stopVars, workVars
<1>5. ASSUME NEW w \in Workers, Take(w)
      PROVE  StopOK'
  <2>1. /\ at[w] = "idle" /\ at'[w] = "load" /\ \A v \in Workers \ {w} : at'[v] = at[v]
        /\ queue # <<>> /\ UNCHANGED <<stopVars, ctxDone, reader>>
    BY <1>0, <1>5 DEF Take
  <2>2. QED  BY <2>1 DEF StopOK, AllGone, stopVars
<1>6. ASSUME NEW w \in Workers, Exit(w)
      PROVE  StopOK'
  <2>1. /\ at[w] = "idle" /\ at'[w] = "exited" /\ \A v \in Workers \ {w} : at'[v] = at[v]
        /\ ctxDone \/ (closed /\ queue = <<>>)
        /\ UNCHANGED <<stopVars, ctxDone, reader, queue>>
    BY <1>0, <1>6 DEF Exit, Leaves
  <2>2. QED  BY <2>1 DEF StopOK, AllGone, stopVars
<1>7. ASSUME NEW w \in Workers,
             Load(w) \/ Store(w) \/ Done(w) \/ Validated(w) \/ MapsWritten(w)
      PROVE  StopOK'
  <2>1. /\ at[w] \notin {"off", "exited"} /\ at'[w] \notin {"off", "exited"}
        /\ \A v \in Workers \ {w} : at'[v] = at[v]
        /\ UNCHANGED <<stopVars, ctxDone, reader, queue>>
    BY <1>0, <1>7, DoneEnds DEF Load, Store, Validated, MapsWritten
  <2>2. QED  BY <2>1 DEF StopOK, AllGone, stopVars
<1>8. QED
  BY <1>1, <1>2, <1>3, <1>4, <1>5, <1>6, <1>7 DEF Next, Stop, Listen, Work, Turn, Done

-----------------------------------------------------------------------------
(* The theorems *)

\* Every step keeps the invariant.
LEMMA IStep == IInv /\ [Next]_vars => IInv'
BY TypeStep, PlaceStep, CountStep, StopStep DEF IInv

\* The inductive invariant: types, places, counters and what Stop waits for.
THEOREM Invariance == Spec => []IInv
BY IInit, IStep, PTL DEF Spec

\* Whatever Start, Stop, the context and the errors do, each packet that listen
\* read is with one goroutine or in the channel once, or has one end; and the
\* unlocked counters of processTrap and listen never claim more than was read.
THEOREM EveryPacketAccounted == Spec => []PacketsAccounted
<1>1. IInv => CountersNeverTooHigh
  <2> SUFFICES ASSUME IInv PROVE CountersNeverTooHigh
    OBVIOUS
  <2> DEFINE Seen == {p \in Packets : fate[p] # "unread"}
  <2>1. Counted \cap Dropped = {}
    BY DEF IInv, EveryPacketInOnePlace, Held, Counted, Dropped
  <2>2. Counted \cup Dropped \subseteq Seen
    BY DEF IInv, EveryPacketInOnePlace, Held, Counted, Dropped
  <2>3. IsFiniteSet(Seen)
    BY ListenerAssumption, FS_Subset
  <2>4. Cardinality(Seen) \in Nat
    BY <2>3, FS_CardinalityType
  <2>5. Cardinality(Counted \cup Dropped) <= Cardinality(Seen)
    BY <2>2, <2>3, FS_Subset
  <2>6. Cardinality(Counted \cup Dropped) = Cardinality(Counted) + Cardinality(Dropped)
    <3>1. Cardinality(Counted \cap Dropped) = 0
      BY <2>1, FS_EmptySet
    <3>2. Cardinality(Counted \cup Dropped)
            = Cardinality(Counted) + Cardinality(Dropped) - Cardinality(Counted \cap Dropped)
      BY SetsFinite, FS_Union
    <3>3. QED  BY <3>1, <3>2, SetsFinite
  <2>7. stats.received \in Nat /\ stats.dropped \in Nat
    BY DEF IInv, TypeInv, TypeOK
  <2>8. QED
    BY <2>4, <2>5, <2>6, <2>7, SetsFinite DEF IInv, CountOK, CountersNeverTooHigh
<1>2. IInv => PacketsAccounted
  BY <1>1 DEF IInv, TypeInv, PacketsAccounted
<1>3. QED  BY Invariance, <1>2, PTL

\* When Stop has returned and the context was not cancelled, every packet that
\* the channel accepted was processed.
THEOREM EveryStopDrains == Spec => []StopDrains
<1>1. IInv => StopDrains
  <2> SUFFICES ASSUME IInv, stopping = "returned", ~ctxDone
               PROVE  queue = <<>> /\ AllGone
    BY DEF StopDrains
  <2>1. AllGone /\ \A w \in Workers : at[w] # "off"
    BY DEF IInv, StopOK
  <2>2. \A w \in Workers : at[w] = "exited"
    BY <2>1 DEF AllGone
  <2>3. QED  BY <2>1, <2>2, ListenerAssumption DEF IInv, StopOK
<1>2. QED  BY Invariance, <1>1, PTL
=============================================================================
