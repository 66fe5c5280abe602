------------------------------ MODULE MCDecoder ------------------------------
(* Eight traps in both length forms, intact, truncated anywhere, and with    *)
(* any one byte replaced, from an allowed, a blocked and an unlisted source. *)
EXTENDS Enrichment

CONSTANTS agent, banned, stranger

MCSources == {agent, banned, stranger}
MCBlocked == {{banned}}
MCAllowed == {{agent, banned}}

public == <<112>>

coldStart == <<1, 3, 6, 127, 128, 300>>
short == <<1, 3, 0>>
long == <<1, 3, 6, 1, 4, 1, 32768, 255>>

Trap(community, id, status, vbs) ==
  [version |-> 1, community |-> community, requestID |-> id,
   errorStatus |-> status, errorIndex |-> 0, varbinds |-> vbs]

Bind(name, type, value) == [oid |-> name, type |-> type, value |-> value]

MCMessages ==
  {Trap(public, 1, 0, <<>>),
   Trap(public, -128, 0, <<Bind(sysUpTime, 67, 200), Bind(snmpTrapOID, 6, coldStart)>>),
   Trap(public, 127, 0, <<Bind(<<2, 39>>, 2, -200), Bind(short, 70, 65535),
                          Bind(short, 5, <<>>)>>),
   Trap(public, 0, 0, <<Bind(short, 64, <<10, 0, 0, 255>>),
                        Bind(<<1, 3>>, 4, [i \in 1..120 |-> 48])>>),
   Trap(<<>>, 5, 0, <<Bind(short, 65, 0), Bind(short, 2, -1)>>),
   Trap(public, 5, 3, <<Bind(short, 66, 255)>>),
   Trap(public, 6, 0, <<Bind(long, 6, <<0, 39, 200>>)>>),
   [Trap(public, 9, 0, <<>>) EXCEPT !.version = 0]}

\* All of them are within what the proofs take for granted of a trap.
ASSUME MCMessages \subseteq Sendable

Interesting == {0, 1, 2, 4, 6, 48, 64, 127, 128, 129, 130, 131, 132, 167, 255}

Sent == UNION {Sender!Encodings(m) : m \in MCMessages}

Corrupted(s) == {[s EXCEPT ![i] = b] : i \in 1..Len(s), b \in Interesting}

\* The densest datagrams: the shortest header, and two varbinds without a
\* value whose object identifiers have one byte or none.
Dense(name) ==
  LET vb == Sender!Element(48, Sender!Element(6, name, FALSE) \o <<5, 0>>, FALSE)
  IN Sender!Element(48, <<2, 1, 1, 4, 0, 167, 9, 2, 0, 2, 0, 2, 0>>
       \o Sender!Element(48, vb \o vb, FALSE), FALSE)

\* A byte is replaced in the shorter encodings only.
MCDatagrams ==
  Sent \cup {Dense(<<>>), Dense(<<43>>)} \cup UNION {Prefixes(s) : s \in Sent}
    \cup UNION {Corrupted(s) : s \in {t \in Sent : Len(t) < 55}}

MCCommunities == {public}

\* A name with a second arc above 39, which the code decodes to another one.
WideArcs == {Trap(public, 1, 0, <<Bind(<<2, 40>>, 5, <<>>)>>)}
WideDatagrams == UNION {Sender!Encodings(m) : m \in WideArcs}
=============================================================================
