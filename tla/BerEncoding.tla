----------------------------- MODULE BerEncoding -----------------------------
(***************************************************************************)
(* Reference definition: how an agent encodes an SNMPv2c trap with the     *)
(* basic encoding rules.  It stands for the senders, not for the program:  *)
(* the decoder of internal/mib/parser.go is checked against it.  A message *)
(* is a record of the community, the three integers of the PDU and its     *)
(* varbinds; an object identifier is the sequence of its arcs.             *)
(***************************************************************************)
EXTENDS Integers, SequencesExt

\* The shortest two's complement of n: a byte holds it, or the last byte follows
\* the shortest one of what is above it.
IntegerBytes[n \in Int] ==
  IF -128 <= n /\ n < 128 THEN <<n % 256>>
  ELSE Append(IntegerBytes[n \div 256], n % 256)

\* An arc in groups of seven bits, all but the last with the high bit set.
Continued[n \in Nat] ==
  IF n = 0 THEN <<>> ELSE Append(Continued[n \div 128], 128 + (n % 128))
ArcBytes(n) == Append(Continued[n \div 128], n % 128)

\* The first two arcs share a group.
OIDBytes(arcs) ==
  ArcBytes(40 * arcs[1] + arcs[2])
    \o FlattenSeq([i \in 1..(Len(arcs) - 2) |-> ArcBytes(arcs[i + 2])])

\* A sender may use the long form of a length where the short one would do.
LengthOctets(n, long) ==
  IF ~long /\ n < 128 THEN <<n>>
  ELSE IF ~long /\ n < 256 THEN <<129, n>>
  ELSE <<130, n \div 256, n % 256>>

Element(tag, content, long) == <<tag>> \o LengthOctets(Len(content), long) \o content

\* 2 INTEGER, 4 OCTET STRING, 5 NULL, 6 OBJECT IDENTIFIER, 64 IpAddress,
\* 65..67 and 70 the unsigned types.
ValueBytes(v) ==
  CASE v.type \in {2, 65, 66, 67, 70} -> IntegerBytes[v.value]
    [] v.type \in {4, 64}             -> v.value
    [] v.type = 5                     -> <<>>
    [] v.type = 6                     -> OIDBytes(v.value)

VarbindBytes(v, long) ==
  Element(48, Element(6, OIDBytes(v.oid), long)
                \o Element(v.type, ValueBytes(v), long), long)

Encode(m, long) ==
  Element(48,
    Element(2, IntegerBytes[m.version], long)
      \o Element(4, m.community, long)
      \o Element(167,
           Element(2, IntegerBytes[m.requestID], long)
             \o Element(2, IntegerBytes[m.errorStatus], long)
             \o Element(2, IntegerBytes[m.errorIndex], long)
             \o Element(48, FlattenSeq([i \in DOMAIN m.varbinds |->
                                       VarbindBytes(m.varbinds[i], long)]), long),
           long),
    long)

Encodings(m) == {Encode(m, long) : long \in BOOLEAN}
=============================================================================
