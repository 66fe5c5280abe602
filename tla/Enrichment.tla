----------------------------- MODULE Enrichment -----------------------------
(***************************************************************************)
(* What the worker does next with a trap that Decoder forwards: enrichEvent*)
(* (internal/events/events.go) asks the resolver for each object identifier*)
(* in turn, from a goroutine of its own, and waits for its answer or for a *)
(* timeout.  The resolver is a MIB manager whose lock may be taken for any *)
(* time, so an answer may come when nobody waits for it any more, or never.*)
(***************************************************************************)
EXTENDS Decoder

sysUpTime   == <<1, 3, 6, 1, 2, 1, 1, 3, 0>>
snmpTrapOID == <<1, 3, 6, 1, 6, 3, 1, 1, 4, 1, 0>>

VARIABLES
  enrichedData, \* the keys of the map that are not copied from the packet
  place,        \* of the worker in enrichEvent: resolve, wait, done
  lookups,      \* the goroutines, in the order they were started
  named         \* the lookup whose information was added to each varbind,
                \* and last to the trap; or None

enrichVars == <<enrichedData, place, lookups, named>>
allVars == <<vars, enrichVars>>

None == 0
Lookup == [at : {"asking", "sending", "sent", "read"}, found : BOOLEAN]

\* The number of the lookup the worker starts or waits for.
Turn == Len(named) + 1

EnrichTypeOK ==
  /\ DOMAIN enrichedData \subseteq {"trap_oid", "system_uptime"}
  /\ place \in {"resolve", "wait", "done"}
  /\ lookups \in Seq(Lookup) /\ named \in Seq(Nat)
  /\ Len(lookups) = IF place = "wait" THEN Turn ELSE Len(named)

EnrichInit == /\ Init
              /\ enrichedData = <<>> /\ place = "resolve"
              /\ lookups = <<>> /\ named = <<>>

-----------------------------------------------------------------------------
\* Value.(string) holds for an object identifier and for the text of an
\* address, which has the form of one.
HasTrapOID == /\ Len(varbinds) > 1
              /\ Arcs(Octets(varbinds[2].oid)) = snmpTrapOID
              /\ varbinds[2].type \in {tagObjectIdentifier, tagIPAddress}

HasUpTime == /\ varbinds # <<>>
             /\ Arcs(Octets(varbinds[1].oid)) = sysUpTime
             /\ varbinds[1].type \in Unsigned32

Ask == lookups' = Append(lookups, [at |-> "asking", found |-> FALSE])

With(key, value) == [k \in DOMAIN enrichedData \cup {key} |->
                       IF k = key THEN value ELSE enrichedData[k]]

ResolveVarbind ==
  /\ at = "forwarded" /\ place = "resolve" /\ Turn <= Len(varbinds)
  /\ Ask /\ place' = "wait"
  /\ UNCHANGED <<enrichedData, named>>

ResolveTrap ==
  /\ at = "forwarded" /\ place = "resolve" /\ Turn > Len(varbinds) /\ HasTrapOID
  /\ Ask /\ place' = "wait"
  /\ enrichedData' = With("trap_oid", Value(varbinds[2]))
  /\ UNCHANGED named

\* The end of enrichEvent, with or without a trap OID.
Finished == IF HasUpTime THEN With("system_uptime", Value(varbinds[1]))
                         ELSE enrichedData

NoTrap ==
  /\ at = "forwarded" /\ place = "resolve" /\ Turn > Len(varbinds) /\ ~HasTrapOID
  /\ enrichedData' = Finished /\ place' = "done"
  /\ UNCHANGED <<lookups, named>>

\* What follows the select of each lookup.
Continue(info) ==
  /\ named' = Append(named, info)
  /\ IF Turn <= Len(varbinds) THEN place' = "resolve" /\ UNCHANGED enrichedData
                              ELSE place' = "done" /\ enrichedData' = Finished

\* Faulty variant: the channel and the variables are declared before the loop.
SharedDone == 1..Len(lookups)
\* The lookups whose answer the select may see: each has a channel of its own.
OwnDone == {Turn}

TakeAnswer ==
  /\ place = "wait"
  /\ \E i \in OwnDone :
       /\ lookups[i].at = "sent"
       /\ lookups' = [lookups EXCEPT ![i].at = "read"]
       /\ Continue(IF lookups[i].found THEN i ELSE None)

\* After two seconds, or half a second for the trap.  The goroutine stays.
TimedOut ==
  /\ place = "wait"
  /\ Continue(None)
  /\ UNCHANGED lookups

\* The goroutine: ResolveOID returns, with information or with an error.
Resolved(i) ==
  /\ i \in DOMAIN lookups /\ lookups[i].at = "asking"
  /\ \E f \in BOOLEAN : lookups' = [lookups EXCEPT ![i] = [at |-> "sending", found |-> f]]
  /\ UNCHANGED <<enrichedData, place, named>>

\* Faulty variant: the channel has no buffer.
SomebodyWaits(i) == place = "wait" /\ Turn = i
\* The channel has room for the one answer.
MaySend(i) == lookups[i].at = "sending"

Sends(i) ==
  /\ i \in DOMAIN lookups /\ lookups[i].at = "sending" /\ MaySend(i)
  /\ lookups' = [lookups EXCEPT ![i].at = "sent"]
  /\ UNCHANGED <<enrichedData, place, named>>

-----------------------------------------------------------------------------
Enrich == ResolveVarbind \/ ResolveTrap \/ NoTrap \/ TakeAnswer \/ TimedOut

Worker == (Next /\ UNCHANGED enrichVars) \/ (Enrich /\ UNCHANGED vars)

Positions == 1..(MaxVarbinds + 1)

EnrichNext ==
  \/ Worker
  \/ \E i \in Positions : (Resolved(i) \/ Sends(i)) /\ UNCHANGED vars

\* The worker and the goroutines are scheduled, and timers fire.  Nothing is
\* assumed of the resolver: its lock may never be free.
EnrichSpec ==
  /\ EnrichInit /\ [][EnrichNext]_allVars
  /\ WF_allVars(Worker)
  /\ \A i \in Positions : WF_allVars(Sends(i) /\ UNCHANGED vars)

-----------------------------------------------------------------------------
(* Properties *)

\* However late the answers come, a varbind is never given the name of another
\* one, nor the trap that of a varbind; where no answer came in time there is
\* no name.
NamesAreOwn ==
  EnrichTypeOK /\ \A i \in DOMAIN named : named[i] \in {None, i}

\* The worker is done with every datagram: no length keeps the parser in the
\* loop over the varbinds, and no lookup keeps the worker waiting, even if the
\* resolver is blocked for ever.  A goroutine whose answer nobody waits for any
\* more ends as well.
TrapEnds ==
  /\ <>(at \in {"malformed", "invalid"} \/ place = "done")
  /\ \A i \in Positions :
       (i \in DOMAIN lookups /\ lookups[i].at = "sending")
         ~> (i \in DOMAIN lookups /\ lookups[i].at \in {"sent", "read"})
=============================================================================
