----------------------------- MODULE MibProofs -----------------------------
(***************************************************************************)
(* What holds of internal/mib/parser.go, and of the enrichment after it,   *)
(* for every datagram, tree of files and limit.  The decoder stays inside  *)
(* the datagram and pays for every varbind it appends, and a trap comes    *)
(* out of it as it was sent.  The cache of the MIB manager is bounded and  *)
(* its answers are the closest nodes, none of them older than its time or  *)
(* than the last reload.                                                   *)
(***************************************************************************)
EXTENDS Enrichment, MibManager, SequenceTheorems, FiniteSetTheorems,
        WellFoundedInduction, TLAPS

-----------------------------------------------------------------------------
(* The decoder: every step that reads an element first checks that the     *)
(* tag, the length and what it declares fit, and has paid for them.        *)

VarbindSpan == [oid : Span, type : Byte, value : Span]

TypeInv ==
  /\ data \in Seq(Byte) /\ source \in Sources
  /\ at \in Steps \cup Ends
  /\ offset \in Nat /\ endOffset \in Nat
  /\ fields \in [Fields -> Span] /\ oid \in Span
  /\ varbinds \in Seq(VarbindSpan)

\* The bytes that tags and lengths have taken when a field is expected.
Paid ==
  /\ at = "version" => offset >= 2
  /\ at = "community" => offset >= 4
  /\ at = "pdu" => offset >= 6
  /\ at = "requestID" => offset >= 8
  /\ at = "errorStatus" => offset >= 10
  /\ at = "errorIndex" => offset >= 12
  /\ at = "list" => offset >= 14
  /\ at = "varbind" => offset >= 16 + 7 * Len(varbinds)
  /\ at = "oid" => offset >= 18 + 7 * Len(varbinds)
  /\ at = "value" => offset >= 21 + 7 * Len(varbinds)
  /\ at \in {"message", "version", "community", "pdu", "requestID",
             "errorStatus", "errorIndex", "list"} => varbinds = <<>>

IInv == TypeInv /\ InsideDatagram /\ Paid /\ VarbindsPaidFor

\* A byte of the datagram is a small natural number.
LEMMA ByteIsNat == \A b \in Byte : b \in Nat /\ b <= 255
BY DEF Byte

\* Reading at any offset gives a byte; behind the end it gives one as well.
LEMMA ByteAtType ==
  ASSUME data \in Seq(Byte), NEW o \in Nat
  PROVE  ByteAt(o) \in Byte
<1>1. CASE o < Size
  <2>1. o + 1 \in 1..Len(data)
    BY <1>1 DEF Size
  <2>2. data[o + 1] \in Byte
    BY <2>1
  <2> QED
    BY <1>1, <2>2 DEF ByteAt
<1>2. CASE ~(o < Size)
  BY <1>2 DEF ByteAt, Byte
<1> QED
  BY <1>1, <1>2

\* The octets of a long length make a natural number.
LEMMA LongLengthType ==
  ASSUME data \in Seq(Byte), NEW o \in Nat, NEW n \in 1..4
  PROVE  LongLength(o, n) \in Nat
<1>1. \A i \in Nat : ByteAt(i) \in Nat
  BY ByteAtType, ByteIsNat
<1>2. /\ ByteAt(o) \in Nat /\ ByteAt(o + 1) \in Nat
      /\ ByteAt(o + 2) \in Nat /\ ByteAt(o + 3) \in Nat
  BY <1>1
<1>3. \A m, b \in Nat : (256 * m) + b \in Nat
  OBVIOUS
<1> DEFINE two == (256 * ByteAt(o)) + ByteAt(o + 1)
           three == (256 * two) + ByteAt(o + 2)
<1>4. two \in Nat /\ three \in Nat /\ (256 * three) + ByteAt(o + 3) \in Nat
  BY <1>2, <1>3, Zenon
<1>5. LongLength(o, n) = CASE n = 1 -> ByteAt(o) [] n = 2 -> two [] n = 3 -> three
                           [] OTHER -> (256 * three) + ByteAt(o + 3)
  BY DEF LongLength
<1> HIDE DEF two, three
<1> QED
  BY <1>2, <1>4, <1>5

\* parseLength succeeds only on octets that are inside the datagram.
LEMMA ReadLengthInside ==
  ASSUME data \in Seq(Byte), NEW o \in Nat, ReadLength(o).ok
  PROVE  /\ ReadLength(o).next \in Nat /\ ReadLength(o).len \in Nat
         /\ ReadLength(o).next >= o + 1 /\ ReadLength(o).next <= Size
<1> DEFINE first == ByteAt(o)
           count == first - 128
<1>1. first \in Nat /\ first <= 255 /\ Size \in Nat
  BY ByteAtType, ByteIsNat DEF Size
<1>2. Fits(o + 1)
  BY DEF ReadLength
<1>3. CASE first < 128
  <2>1. ReadLength(o) = [ok |-> TRUE, len |-> first, next |-> o + 1]
    BY <1>2, <1>3 DEF ReadLength
  <2> QED
    BY <1>1, <1>2, <2>1 DEF Fits
<1>4. CASE ~(first < 128)
  <2>1. ~(count = 0 \/ count > LengthBytes \/ ~Fits(o + 1 + count))
    BY <1>4 DEF ReadLength
  <2>2. ReadLength(o) = [ok |-> TRUE, next |-> o + 1 + count, len |-> LongLength(o + 1, count)]
    BY <1>2, <1>4, <2>1 DEF ReadLength
  <2>3. count \in 1..4
    BY <1>1, <1>4, <2>1, DecoderAssumption
  <2> HIDE DEF count
  <2>4. LongLength(o + 1, count) \in Nat
    <3>1. o + 1 \in Nat
      OBVIOUS
    <3> QED
      BY <2>3, <3>1, LongLengthType
  <2> QED
    BY <1>1, <2>1, <2>2, <2>3, <2>4 DEF Fits
<1> QED
  BY <1>3, <1>4

\* An element that opens at the offset has its tag and length inside it ...
LEMMA OpensInside ==
  ASSUME TypeInv, NEW tag, Opens(tag)
  PROVE  /\ Inside \in Nat /\ Inside >= offset + 2 /\ Inside <= Size
         /\ Declared \in Nat /\ Declared >= Inside
<1>1. data \in Seq(Byte) /\ offset \in Nat /\ Size \in Nat
  BY DEF TypeInv, Size
<1>2. ReadLength(offset + 1).ok
  BY DEF Opens
<1>3. /\ Inside \in Nat /\ ReadLength(offset + 1).len \in Nat
      /\ Inside >= offset + 1 + 1 /\ Inside <= Size
  BY <1>1, <1>2, ReadLengthInside DEF Inside
<1> QED
  BY <1>1, <1>3 DEF Declared

\* ... and one that is complete has its content inside it as well.
LEMMA CompleteInside ==
  ASSUME TypeInv, NEW tag, Complete(tag)
  PROVE  /\ Declared \in Nat /\ Declared >= offset + 2 /\ Declared <= Size
         /\ Inside \in Nat /\ Inside >= offset + 2 /\ Declared >= Inside
         /\ InData(Content) /\ Content \in Span
         /\ Width(Content) > 0 => Declared >= offset + 3
<1>1. Opens(tag) /\ Declared <= Size
  BY DEF Complete, Fits
<1>2. offset \in Nat /\ Size \in Nat
  BY DEF TypeInv, Size
<1> QED
  BY <1>1, <1>2, OpensInside DEF InData, Content, Span, Width

\* A parser starts at the first octet of any datagram.
LEMMA InitInv == Init => IInv
<1> SUFFICES ASSUME Init PROVE IInv
  OBVIOUS
<1>1. data \in Seq(Byte)
  BY DecoderAssumption DEF Init
<1>2. Size \in Nat
  BY <1>1 DEF Size
<1>3. TypeInv
  BY <1>1 DEF Init, TypeInv, Nowhere, Span, Steps
<1> QED
  BY <1>2, <1>3 DEF Init, IInv, InsideDatagram, InData, Nowhere, Span, Paid,
                    VarbindsPaidFor, Fields

\* Every step leaves the offset in the datagram and pays for the field that
\* comes next.
LEMMA StepInv ==
  ASSUME IInv, Next
  PROVE  IInv'
<1> USE DEF IInv
<1>0. /\ data \in Seq(Byte) /\ source \in Sources /\ at \in Steps \cup Ends
      /\ offset \in Nat /\ endOffset \in Nat /\ fields \in [Fields -> Span]
      /\ oid \in Span /\ varbinds \in Seq(VarbindSpan) /\ Len(varbinds) \in Nat
      /\ Size \in Nat
  BY DEF TypeInv, Size
<1>00. Size' = Size
  BY DEF Next, Parse, ParseMessage, ParseInteger, ParseCommunity, ParsePDU,
         ParseVarbindList, OpenVarbind, EndOfList, ParseOID, ParseValue,
         Validate, Refuse, Kept, Size
<1>1. ASSUME Refuse, at \notin Ends PROVE IInv'
  <2>1. /\ at' = "malformed"
        /\ UNCHANGED <<data, source, offset, fields, endOffset, oid, varbinds>>
    BY <1>1 DEF Refuse
  <2>2. TypeInv'
    BY <1>0, <2>1 DEF TypeInv, Ends
  <2>3. InsideDatagram'
    BY <2>1, <1>00 DEF InsideDatagram, InData
  <2>4. Paid'
    BY <2>1 DEF Paid
  <2>5. VarbindsPaidFor'
    BY <2>1 DEF VarbindsPaidFor
  <2> QED
    BY <2>2, <2>3, <2>4, <2>5
<1>2. CASE ParseMessage
  <2>1. CASE Complete(tagSequence)
    <3>1. /\ at = "message" /\ at' = "version" /\ offset' = Inside
          /\ UNCHANGED <<data, source, fields, endOffset, oid, varbinds>>
      BY <1>2, <2>1 DEF ParseMessage, Reached, Kept
    <3>2. Inside \in Nat /\ Inside >= offset + 2 /\ Inside <= Size
      BY <2>1, OpensInside DEF Complete
    <3>3. TypeInv'
      BY <1>0, <3>1, <3>2 DEF TypeInv, Steps, Fields
    <3>4. InsideDatagram'
      BY <3>1, <3>2, <1>00 DEF InsideDatagram, InData
    <3>5. Paid' /\ VarbindsPaidFor'
      BY <1>0, <3>1, <3>2 DEF Paid, VarbindsPaidFor
    <3> QED
      BY <3>3, <3>4, <3>5
  <2>2. CASE ~Complete(tagSequence)
    BY <1>1, <1>2, <2>2 DEF ParseMessage, Ends
  <2> QED
    BY <2>1, <2>2
<1>3. CASE ParseInteger
  <2>1. CASE Complete(tagInteger)
    <3>1. /\ at \in DOMAIN After /\ at' = After[at] /\ offset' = Declared
          /\ fields' = [fields EXCEPT ![at] = Content]
          /\ UNCHANGED <<data, source, endOffset, oid, varbinds>>
      BY <1>3, <2>1 DEF ParseInteger, Reached, Kept
    <3>2. /\ Declared \in Nat /\ Declared >= offset + 2 /\ Declared <= Size
          /\ InData(Content) /\ Content \in Span
      BY <2>1, CompleteInside
    <3>3. \/ at = "version" /\ at' = "community"
          \/ at = "requestID" /\ at' = "errorStatus"
          \/ at = "errorStatus" /\ at' = "errorIndex"
          \/ at = "errorIndex" /\ at' = "list"
      BY <3>1 DEF After
    <3>4. TypeInv'
      BY <1>0, <3>1, <3>2, <3>3 DEF TypeInv, Steps, Fields
    <3>5. InsideDatagram'
      BY <1>0, <3>1, <3>2, <3>3, <1>00 DEF InsideDatagram, InData, Fields
    <3>6. Paid' /\ VarbindsPaidFor'
      BY <1>0, <3>1, <3>2, <3>3 DEF Paid, VarbindsPaidFor
    <3> QED
      BY <3>4, <3>5, <3>6
  <2>2. CASE ~Complete(tagInteger)
    BY <1>1, <1>3, <2>2 DEF ParseInteger, After, Ends
  <2> QED
    BY <2>1, <2>2
<1>4. CASE ParseCommunity
  <2>1. CASE Complete(tagOctetString) /\ Integer(fields["version"]) = versionSNMPv2c
    <3>1. /\ at = "community" /\ at' = "pdu" /\ offset' = Declared
          /\ fields' = [fields EXCEPT !["community"] = Content]
          /\ UNCHANGED <<data, source, endOffset, oid, varbinds>>
      BY <1>4, <2>1 DEF ParseCommunity, Reached, Kept
    <3>2. /\ Declared \in Nat /\ Declared >= offset + 2 /\ Declared <= Size
          /\ InData(Content) /\ Content \in Span
      BY <2>1, CompleteInside
    <3>3. TypeInv'
      BY <1>0, <3>1, <3>2 DEF TypeInv, Steps, Fields
    <3>4. InsideDatagram'
      BY <1>0, <3>1, <3>2, <1>00 DEF InsideDatagram, InData, Fields
    <3>5. Paid' /\ VarbindsPaidFor'
      BY <1>0, <3>1, <3>2 DEF Paid, VarbindsPaidFor
    <3> QED
      BY <3>3, <3>4, <3>5
  <2>2. CASE ~(Complete(tagOctetString) /\ Integer(fields["version"]) = versionSNMPv2c)
    BY <1>1, <1>4, <2>2 DEF ParseCommunity, Ends
  <2> QED
    BY <2>1, <2>2
<1>5. CASE ParsePDU
  <2>1. CASE Opens(tagTrapV2)
    <3>1. /\ at = "pdu" /\ at' = "requestID" /\ offset' = Inside
          /\ UNCHANGED <<data, source, fields, endOffset, oid, varbinds>>
      BY <1>5, <2>1 DEF ParsePDU, Reached, Kept
    <3>2. Inside \in Nat /\ Inside >= offset + 2 /\ Inside <= Size
      BY <2>1, OpensInside
    <3>3. TypeInv'
      BY <1>0, <3>1, <3>2 DEF TypeInv, Steps, Fields
    <3>4. InsideDatagram'
      BY <3>1, <3>2, <1>00 DEF InsideDatagram, InData
    <3>5. Paid' /\ VarbindsPaidFor'
      BY <1>0, <3>1, <3>2 DEF Paid, VarbindsPaidFor
    <3> QED
      BY <3>3, <3>4, <3>5
  <2>2. CASE ~Opens(tagTrapV2)
    BY <1>1, <1>5, <2>2 DEF ParsePDU, Ends
  <2> QED
    BY <2>1, <2>2
<1>6. CASE ParseVarbindList
  <2>1. CASE Opens(tagSequence)
    <3>1. /\ at = "list" /\ at' = "varbind" /\ offset' = Inside /\ endOffset' = Declared
          /\ UNCHANGED <<data, source, fields, oid, varbinds>>
      BY <1>6, <2>1 DEF ParseVarbindList, Reached, Kept
    <3>2. Inside \in Nat /\ Inside >= offset + 2 /\ Inside <= Size /\ Declared \in Nat
      BY <2>1, OpensInside
    <3>3. TypeInv'
      BY <1>0, <3>1, <3>2 DEF TypeInv, Steps
    <3>4. InsideDatagram'
      BY <3>1, <3>2, <1>00 DEF InsideDatagram, InData
    <3>5. Paid' /\ VarbindsPaidFor'
      BY <1>0, <3>1, <3>2 DEF Paid, VarbindsPaidFor
    <3> QED
      BY <3>3, <3>4, <3>5
  <2>2. CASE ~Opens(tagSequence)
    BY <1>1, <1>6, <2>2 DEF ParseVarbindList, Ends
  <2> QED
    BY <2>1, <2>2
<1>7. CASE OpenVarbind
  <2>1. CASE Opens(tagSequence)
    <3>1. /\ at = "varbind" /\ at' = "oid" /\ offset' = Inside
          /\ UNCHANGED <<data, source, fields, endOffset, oid, varbinds>>
      BY <1>7, <2>1 DEF OpenVarbind, Reached, Kept
    <3>2. Inside \in Nat /\ Inside >= offset + 2 /\ Inside <= Size
      BY <2>1, OpensInside
    <3>3. TypeInv'
      BY <1>0, <3>1, <3>2 DEF TypeInv, Steps
    <3>4. InsideDatagram'
      BY <3>1, <3>2, <1>00 DEF InsideDatagram, InData
    <3>5. Paid' /\ VarbindsPaidFor'
      BY <1>0, <3>1, <3>2 DEF Paid, VarbindsPaidFor
    <3> QED
      BY <3>3, <3>4, <3>5
  <2>2. CASE ~Opens(tagSequence)
    BY <1>1, <1>7, <2>2 DEF OpenVarbind, Ends
  <2> QED
    BY <2>1, <2>2
<1>8. CASE EndOfList
  <2>1. /\ at = "varbind" /\ at' = "parsed" /\ offset' = offset
        /\ UNCHANGED <<data, source, fields, endOffset, oid, varbinds>>
    BY <1>8 DEF EndOfList, Reached, Kept
  <2>2. TypeInv'
    BY <1>0, <2>1 DEF TypeInv, Steps
  <2>3. InsideDatagram'
    BY <2>1, <1>00 DEF InsideDatagram, InData
  <2>4. Paid' /\ VarbindsPaidFor'
    BY <1>0, <2>1 DEF Paid, VarbindsPaidFor
  <2> QED
    BY <2>2, <2>3, <2>4
<1>9. CASE ParseOID
  <2>1. CASE Complete(tagObjectIdentifier) /\ Width(Content) > 0
    <3>1. /\ at = "oid" /\ at' = "value" /\ offset' = Declared /\ oid' = Content
          /\ UNCHANGED <<data, source, fields, endOffset, varbinds>>
      BY <1>9, <2>1 DEF ParseOID, Reached, Kept
    <3>2. /\ Declared \in Nat /\ Declared >= offset + 3 /\ Declared <= Size
          /\ InData(Content) /\ Content \in Span
      BY <2>1, CompleteInside
    <3>3. TypeInv'
      BY <1>0, <3>1, <3>2 DEF TypeInv, Steps
    <3>4. InsideDatagram'
      BY <3>1, <3>2, <1>00 DEF InsideDatagram, InData
    <3>5. Paid' /\ VarbindsPaidFor'
      BY <1>0, <3>1, <3>2 DEF Paid, VarbindsPaidFor
    <3> QED
      BY <3>3, <3>4, <3>5
  <2>2. CASE ~(Complete(tagObjectIdentifier) /\ Width(Content) > 0)
    BY <1>1, <1>9, <2>2 DEF ParseOID, Ends
  <2> QED
    BY <2>1, <2>2
<1>10. CASE ParseValue
  <2> DEFINE tag == ByteAt(offset)
             vb == [oid |-> oid, type |-> tag, value |-> Content]
  <2>1. CASE Complete(tag) /\ Acceptable(tag, Content)
    <3>1. /\ at = "value" /\ at' = "varbind" /\ offset' = Declared
          /\ varbinds' = Append(varbinds, vb)
          /\ UNCHANGED <<data, source, fields, endOffset, oid>>
      BY <1>10, <2>1 DEF ParseValue, Reached, Kept
    <3>2. /\ Declared \in Nat /\ Declared >= offset + 2 /\ Declared <= Size
          /\ InData(Content) /\ Content \in Span
      BY <2>1, CompleteInside
    <3>3. vb \in VarbindSpan
      BY <1>0, <3>2, ByteAtType DEF VarbindSpan
    <3> HIDE DEF vb
    <3>4. TypeInv'
      BY <1>0, <3>1, <3>2, <3>3 DEF TypeInv, Steps
    <3>5. /\ Len(varbinds') = Len(varbinds) + 1
          /\ \A i \in 1..Len(varbinds) : varbinds'[i] = varbinds[i]
          /\ varbinds'[Len(varbinds) + 1] = vb
      BY <1>0, <3>1, <3>3
    <3>6. InData(vb.oid) /\ InData(vb.value)
      BY <3>2 DEF InsideDatagram, vb
    <3>7. InsideDatagram'
      <4>1. ASSUME NEW i \in 1..Len(varbinds')
            PROVE  InData(varbinds[i].oid)' /\ InData(varbinds[i].value)'
        <5>1. CASE i \in 1..Len(varbinds)
          BY <1>00, <3>5, <5>1 DEF InsideDatagram, InData
        <5>2. CASE i = Len(varbinds) + 1
          BY <1>00, <3>5, <3>6, <5>2 DEF InData
        <5> QED
          BY <1>0, <3>5, <4>1, <5>1, <5>2
      <4> QED
        BY <3>1, <3>2, <4>1, <1>00 DEF InsideDatagram, InData
    <3>8. Paid' /\ VarbindsPaidFor'
      BY <1>0, <3>1, <3>2, <3>5 DEF Paid, VarbindsPaidFor
    <3> QED
      BY <3>4, <3>7, <3>8
  <2>2. CASE ~(Complete(tag) /\ Acceptable(tag, Content))
    BY <1>1, <1>10, <2>2 DEF ParseValue, Ends
  <2> QED
    BY <2>1, <2>2
<1>11. CASE Validate
  <2>1. /\ at = "parsed" /\ at' \in {"forwarded", "invalid"}
        /\ UNCHANGED <<data, source, offset, fields, endOffset, oid, varbinds>>
    BY <1>11 DEF Validate
  <2>2. TypeInv'
    BY <1>0, <2>1 DEF TypeInv, Ends
  <2>3. InsideDatagram'
    BY <2>1, <1>00 DEF InsideDatagram, InData
  <2>4. Paid' /\ VarbindsPaidFor'
    BY <1>0, <2>1 DEF Paid, VarbindsPaidFor
  <2> QED
    BY <2>2, <2>3, <2>4
<1> QED
  BY <1>2, <1>3, <1>4, <1>5, <1>6, <1>7, <1>8, <1>9, <1>10, <1>11 DEF Next, Parse

\* No field moves the offset behind the end, and each costs its bytes.
LEMMA KeepsInv == IInv /\ [Next]_vars => IInv'
<1>1. IInv /\ UNCHANGED vars => IInv'
  BY DEF IInv, TypeInv, InsideDatagram, InData, Paid, VarbindsPaidFor, vars, Size
<1> QED
  BY <1>1, StepInv

\* The invariant contains what the run checks.
LEMMA InvImplies == IInv => DecodeSound
BY DEF IInv, TypeInv, DecodeSound, TypeOK, VarbindsPaidFor

\* The parser never leaves the datagram, and every varbind it appends has cost
\* at least seven bytes, whatever the bytes are: SNMPParser of parser.go.
THEOREM StaysInside == Spec => []DecodeSound
BY InitInv, KeepsInv, InvImplies, PTL DEF Spec

\* The enrichment, its goroutines and its timeouts leave what was parsed alone:
\* enrichEvent of events.go.
THEOREM EnrichedStaysInside == EnrichSpec => []DecodeSound
<1>1. EnrichInit => IInv
  BY InitInv DEF EnrichInit
<1>2. [EnrichNext]_allVars => [Next]_vars
  BY DEF EnrichNext, Worker, allVars
<1> QED
  BY <1>1, <1>2, KeepsInv, InvImplies, PTL DEF EnrichSpec

\* A name comes from the lookup of its own varbind, however late other answers
\* arrive: the select of enrichEvent in events.go.
THEOREM NamesStayOwn == EnrichSpec => []NamesAreOwn
<1> DEFINE Own == \A i \in DOMAIN named : named[i] \in {None, i}
<1>1. EnrichInit => NamesAreOwn
  BY DEF EnrichInit, NamesAreOwn, EnrichTypeOK
<1>2. ASSUME NamesAreOwn, [EnrichNext]_allVars PROVE NamesAreOwn'
  <2>0. /\ DOMAIN enrichedData \subseteq {"trap_oid", "system_uptime"}
        /\ place \in {"resolve", "wait", "done"}
        /\ lookups \in Seq(Lookup) /\ named \in Seq(Nat)
        /\ Len(lookups) = IF place = "wait" THEN Turn ELSE Len(named)
        /\ Own
    BY <1>2 DEF NamesAreOwn, EnrichTypeOK
  <2>1. CASE UNCHANGED enrichVars
    BY <2>0, <2>1 DEF NamesAreOwn, EnrichTypeOK, enrichVars, Turn
  <2>2. ASSUME Ask, place' = "wait", place = "resolve", UNCHANGED named,
               DOMAIN enrichedData' \subseteq {"trap_oid", "system_uptime"}
        PROVE  NamesAreOwn'
    <3>1. /\ lookups' \in Seq(Lookup) /\ Len(lookups') = Len(lookups) + 1
      BY <2>0, <2>2 DEF Ask, Lookup
    <3> QED
      BY <2>0, <2>2, <3>1 DEF NamesAreOwn, EnrichTypeOK, Turn
  <2>3. CASE ResolveVarbind
    BY <2>0, <2>2, <2>3 DEF ResolveVarbind
  <2>4. CASE ResolveTrap
    <3>1. DOMAIN enrichedData' \subseteq {"trap_oid", "system_uptime"}
      BY <2>0, <2>4 DEF ResolveTrap, With
    <3> QED
      BY <2>0, <2>2, <2>4, <3>1 DEF ResolveTrap
  <2>5. DOMAIN Finished \subseteq {"trap_oid", "system_uptime"}
    BY <2>0 DEF Finished, With
  <2>6. CASE NoTrap
    BY <2>0, <2>5, <2>6 DEF NoTrap, NamesAreOwn, EnrichTypeOK, Turn
  <2>7. ASSUME NEW info \in {None, Turn}, Continue(info), place = "wait",
               lookups' \in Seq(Lookup), Len(lookups') = Len(lookups)
        PROVE  NamesAreOwn'
    <3>1. info \in Nat /\ Turn = Len(named) + 1 /\ Len(named) \in Nat
      BY <2>0 DEF None, Turn
    <3>2. named' = Append(named, info)
      BY <2>7 DEF Continue
    <3>3. /\ named' \in Seq(Nat) /\ Len(named') = Len(named) + 1
          /\ \A i \in 1..Len(named) : named'[i] = named[i]
          /\ named'[Len(named) + 1] = info
      BY <2>0, <3>1, <3>2
    <3>4. ASSUME NEW i \in 1..(Len(named) + 1) PROVE named'[i] \in {None, i}
      <4>1. CASE i = Len(named) + 1
        BY <2>7, <3>1, <3>3, <4>1
      <4>2. CASE i \in 1..Len(named)
        BY <2>0, <3>3, <4>2
      <4> QED
        BY <3>1, <4>1, <4>2
    <3>5. /\ place' \in {"resolve", "done"}
          /\ DOMAIN enrichedData' \subseteq {"trap_oid", "system_uptime"}
      BY <2>0, <2>5, <2>7 DEF Continue
    <3> QED
      BY <2>0, <2>7, <3>1, <3>3, <3>4, <3>5 DEF NamesAreOwn, EnrichTypeOK
  <2>8. CASE TakeAnswer
    <3>1. /\ place = "wait" /\ lookups[Turn].at = "sent"
          /\ lookups' = [lookups EXCEPT ![Turn].at = "read"]
          /\ Continue(IF lookups[Turn].found THEN Turn ELSE None)
      BY <2>8 DEF TakeAnswer, OwnDone
    <3>2. Turn \in 1..Len(lookups)
      BY <2>0, <3>1 DEF Turn
    <3>3. PICK l \in Lookup : lookups' = [lookups EXCEPT ![Turn] = l]
      <4>1. lookups[Turn] \in Lookup
        BY <2>0, <3>2, ElementOfSeq
      <4>2. [lookups[Turn] EXCEPT !.at = "read"] \in Lookup
        BY <4>1 DEF Lookup
      <4> QED
        BY <3>1, <4>2
    <3>4. lookups' \in Seq(Lookup) /\ Len(lookups') = Len(lookups)
      BY <2>0, <3>2, <3>3, ExceptSeq
    <3> QED
      BY <2>7, <3>1, <3>4
  <2>9. CASE TimedOut
    BY <2>0, <2>7, <2>9 DEF TimedOut
  <2>10. ASSUME NEW i \in Positions, Resolved(i) \/ Sends(i) PROVE NamesAreOwn'
    <3>1. i \in 1..Len(lookups) /\ UNCHANGED <<enrichedData, place, named>>
      BY <2>0, <2>10 DEF Resolved, Sends
    <3>2. [lookups[i] EXCEPT !.at = "sent"] \in Lookup
      <4>1. lookups[i] \in Lookup
        BY <2>0, <3>1, ElementOfSeq
      <4> QED
        BY <4>1 DEF Lookup
    <3>3. PICK l \in Lookup : lookups' = [lookups EXCEPT ![i] = l]
      BY <2>10, <3>2 DEF Resolved, Sends, Lookup
    <3>4. lookups' \in Seq(Lookup) /\ Len(lookups') = Len(lookups)
      BY <2>0, <3>1, <3>3, ExceptSeq
    <3> QED
      BY <2>0, <3>1, <3>4 DEF NamesAreOwn, EnrichTypeOK, Turn
  <2> QED
    BY <1>2, <2>1, <2>3, <2>4, <2>6, <2>8, <2>9, <2>10
       DEF EnrichNext, Worker, Enrich, allVars
<1> QED
  BY <1>1, <1>2, PTL DEF EnrichSpec

-----------------------------------------------------------------------------
(* Recursion: a function defined by recursion along a decreasing measure is *)
(* defined, by induction over sets of numbers.  The decoder and the sender *)
(* are made of such functions.                                             *)

\* A set of natural numbers has a smallest one.
LEMMA SmallestNumber ==
  ASSUME NEW K, K \subseteq Nat, K # {}
  PROVE  \E k \in K : \A j \in K : k <= j
<1>1. PICK k \in K : \A j \in K : <<j, k>> \notin OpToRel(<, Nat)
  BY NatLessThanWellFounded, WFMin
<1>2. \A j \in K : ~(j < k)
  BY <1>1 DEF OpToRel
<1>3. \A j \in K : j \in Nat /\ k \in Nat
  OBVIOUS
<1>4. \A j \in K : k <= j
  BY <1>2, <1>3
<1> QED BY <1>4

\* Induction over the natural numbers, Good being those that have the property.
LEMMA SetInduction ==
  ASSUME NEW Good, \A n \in Nat : (\A m \in Nat : m < n => m \in Good) => n \in Good
  PROVE  Nat \subseteq Good
<1> SUFFICES ASSUME Nat \ Good # {} PROVE FALSE
  OBVIOUS
<1>1. PICK n \in Nat \ Good : \A j \in Nat \ Good : n <= j
  BY SmallestNumber
<1>2. \A m \in Nat : m < n => m \in Good
  BY <1>1
<1> QED BY <1>1, <1>2

\* What a definition by recursion on D is made of: in Base the values are those of
\* b, elsewhere g makes them of the value at h, where mu is smaller.
Recursion(D, V, Base, b, h, g, mu) ==
  /\ b \in [D -> V] /\ h \in [D -> D] /\ g \in [D -> [V -> V]] /\ mu \in [D -> Nat]
  /\ \A n \in D : n \notin Base => mu[h[n]] < mu[n]

Solves(f, D, V, Base, b, h, g) ==
  f \in [D -> V] /\ \A n \in D : f[n] = IF n \in Base THEN b[n] ELSE g[n][f[h[n]]]

\* Such a function exists.
LEMMA RecursionDefined ==
  ASSUME NEW D, NEW V, NEW Base, NEW b, NEW h, NEW g, NEW mu,
         Recursion(D, V, Base, b, h, g, mu)
  PROVE  \E f : Solves(f, D, V, Base, b, h, g)
<1> USE DEF Recursion
<1> DEFINE Step(f, n) == IF n \in Base THEN b[n] ELSE g[n][f[h[n]]]
           Sol(f, k) == \A n \in D : mu[n] < k => f[n] = Step(f, n)
           Agree == {k \in Nat : \A f1, f2 \in [D -> V] : Sol(f1, k) /\ Sol(f2, k) =>
                       \A n \in D : mu[n] < k => f1[n] = f2[n]}
           Has == {k \in Nat : \E f \in [D -> V] : Sol(f, k)}
<1>0. \A n \in D : mu[n] \in Nat /\ h[n] \in D /\ mu[h[n]] \in Nat
  OBVIOUS
<1>1. Nat \subseteq Agree
  <2>1. ASSUME NEW k \in Nat, \A j \in Nat : j < k => j \in Agree PROVE k \in Agree
    <3> SUFFICES ASSUME NEW f1 \in [D -> V], NEW f2 \in [D -> V], Sol(f1, k), Sol(f2, k),
                        NEW n \in D, mu[n] < k
                 PROVE  f1[n] = f2[n]
      OBVIOUS
    <3>1. f1[n] = Step(f1, n) /\ f2[n] = Step(f2, n)
      OBVIOUS
    <3>2. CASE n \in Base
      BY <3>1, <3>2
    <3>3. CASE n \notin Base
      <4>1. mu[h[n]] < mu[n]
        BY <3>3
      <4>2. mu[n] \in Agree
        BY <1>0, <2>1
      <4>3. Sol(f1, mu[n]) /\ Sol(f2, mu[n])
        BY <1>0
      <4>4. f1[h[n]] = f2[h[n]]
        BY <1>0, <4>1, <4>2, <4>3
      <4> QED BY <3>1, <3>3, <4>4
    <3> QED BY <3>2, <3>3
  <2> HIDE DEF Agree
  <2> QED BY <2>1, SetInduction
<1>2. Nat \subseteq Has
  <2>1. ASSUME NEW k \in Nat, \A j \in Nat : j < k => j \in Has PROVE k \in Has
    <3>1. CASE k = 0
      <4>1. Sol(b, k)
        BY <1>0, <3>1
      <4> QED BY <4>1
    <3>2. CASE k # 0
      <4>1. k - 1 \in Nat /\ k - 1 < k
        BY <3>2
      <4>2. PICK f \in [D -> V] : Sol(f, k - 1)
        BY <2>1, <4>1
      <4> DEFINE e == [n \in D |-> Step(f, n)]
      <4>3. e \in [D -> V]
        BY <1>0
      <4>4. ASSUME NEW n \in D, mu[n] < k PROVE e[n] = Step(e, n)
        <5>1. CASE n \in Base
          BY <5>1
        <5>2. CASE n \notin Base
          <6>1. mu[h[n]] < k - 1
            BY <1>0, <4>4, <5>2
          <6>2. f[h[n]] = Step(f, h[n])
            BY <1>0, <4>2, <6>1
          <6>3. e[h[n]] = f[h[n]]
            BY <1>0, <6>2
          <6> QED BY <5>2, <6>3
        <5> QED BY <5>1, <5>2
      <4>5. Sol(e, k)
        BY <4>4
      <4> HIDE DEF e, Sol
      <4> QED BY <4>3, <4>5
    <3> QED BY <3>1, <3>2
  <2> HIDE DEF Has
  <2> QED BY <2>1, SetInduction
<1> DEFINE sol(n) == CHOOSE f \in [D -> V] : Sol(f, mu[n] + 1)
           F == [n \in D |-> sol(n)[n]]
<1>3. ASSUME NEW n \in D PROVE sol(n) \in [D -> V] /\ Sol(sol(n), mu[n] + 1)
  <2>1. mu[n] + 1 \in Nat
    BY <1>0
  <2>2. \E f \in [D -> V] : Sol(f, mu[n] + 1)
    BY <1>2, <2>1
  <2> HIDE DEF Sol
  <2> QED BY <2>2
<1>4. ASSUME NEW n \in D PROVE F[n] = Step(F, n)
  <2> HIDE DEF sol
  <2>1. sol(n)[n] = Step(sol(n), n)
    BY <1>0, <1>3
  <2>2. CASE n \in Base
    BY <2>1, <2>2
  <2>3. CASE n \notin Base
    <3>1. mu[h[n]] < mu[n] /\ mu[h[n]] + 1 \in Nat
      BY <1>0, <2>3
    <3>2. Sol(sol(n), mu[h[n]] + 1)
      BY <1>0, <1>3, <3>1
    <3>3. Sol(sol(h[n]), mu[h[n]] + 1)
      BY <1>0, <1>3
    <3>4. sol(n)[h[n]] = sol(h[n])[h[n]]
      <4>1. mu[h[n]] + 1 \in Agree /\ mu[h[n]] < mu[h[n]] + 1
        <5> HIDE DEF Agree
        <5> QED BY <1>0, <1>1, <3>1
      <4>2. sol(n) \in [D -> V] /\ sol(h[n]) \in [D -> V]
        BY <1>0, <1>3
      <4> HIDE DEF Sol
      <4> QED BY <1>0, <3>2, <3>3, <4>1, <4>2
    <3> QED BY <1>0, <2>1, <2>3, <3>4
  <2> QED BY <2>2, <2>3
<1>5. F \in [D -> V]
  <2>1. \A n \in D : sol(n)[n] \in V
    BY <1>3
  <2> HIDE DEF sol
  <2> QED BY <2>1
<1> HIDE DEF F
<1> QED BY <1>4, <1>5 DEF Solves

-----------------------------------------------------------------------------
(* Integers: the bytes of a number, read back in a word that is wide enough, *)
(* are the number, with its sign.                                          *)

\* The number of values of a word: 256 times as many with each byte.
LEMMA WordsDefined ==
  /\ Words \in [Nat -> Nat] /\ Words[0] = 1
  /\ \A w \in Nat : Words[w + 1] = 256 * Words[w]
<1> DEFINE Z == {0}
           b == [w \in Nat |-> 1]
           h == [w \in Nat |-> IF w = 0 THEN 0 ELSE w - 1]
           g == [w \in Nat |-> [v \in Nat |-> 256 * v]]
           mu == [w \in Nat |-> w]
<1>1. PICK f : Solves(f, Nat, Nat, Z, b, h, g)
  <2>1. Recursion(Nat, Nat, Z, b, h, g, mu)
    BY DEF Recursion
  <2> QED BY <2>1, RecursionDefined
<1>2. f = [w \in Nat |-> IF w = 0 THEN 1 ELSE 256 * f[w - 1]]
  <2>1. ASSUME NEW w \in Nat PROVE f[w] = IF w = 0 THEN 1 ELSE 256 * f[w - 1]
    <3>1. f[w] = IF w \in Z THEN b[w] ELSE g[w][f[h[w]]]
      BY <1>1 DEF Solves
    <3>2. h[w] \in Nat /\ f[h[w]] \in Nat
      BY <1>1 DEF Solves
    <3>3. g[w][f[h[w]]] = 256 * f[h[w]]
      BY <3>2
    <3> HIDE DEF g
    <3> QED BY <3>1, <3>3
  <2>2. f = [w \in Nat |-> f[w]]
    BY <1>1 DEF Solves
  <2> QED BY <2>1, <2>2, Zenon
<1>3. Words = [w \in Nat |-> IF w = 0 THEN 1 ELSE 256 * Words[w - 1]]
  BY <1>2 DEF Words
<1>4. \A w \in Nat : Words[w] \in Nat
  <2> DEFINE Good == {w \in Nat : Words[w] \in Nat}
  <2>1. ASSUME NEW n \in Nat, \A m \in Nat : m < n => m \in Good PROVE n \in Good
    <3>1. CASE n = 0
      BY <1>3, <3>1
    <3>2. CASE n # 0
      <4>1. n - 1 \in Nat /\ n - 1 < n
        BY <3>2
      <4>2. Words[n - 1] \in Nat
        BY <2>1, <4>1
      <4> QED BY <1>3, <3>2, <4>2
    <3> QED BY <3>1, <3>2
  <2> HIDE DEF Good
  <2>2. Nat \subseteq Good
    BY <2>1, SetInduction
  <2> QED BY <2>2 DEF Good
<1>5. \A w \in Nat : Words[w + 1] = 256 * Words[w]
  BY <1>3
<1>6. Words[0] = 1
  BY <1>3
<1> QED BY <1>3, <1>4, <1>5, <1>6

\* A longer word has more values; from one byte on their number is even.
LEMMA WordsGrow ==
  /\ \A w \in Nat : Words[w] >= 1
  /\ \A v \in Nat : \A w \in Nat : v <= w => Words[v] <= Words[w]
  /\ \A w \in Nat : w >= 1 => \E half \in Nat : Words[w] = 2 * half /\ half >= 128
<1>1. \A w \in Nat : Words[w] \in Nat
  BY WordsDefined
<1>2. \A w \in Nat : Words[w] >= 1
  <2> DEFINE Good == {w \in Nat : Words[w] >= 1}
  <2>1. ASSUME NEW n \in Nat, \A m \in Nat : m < n => m \in Good PROVE n \in Good
    <3>1. CASE n = 0
      BY <3>1, WordsDefined
    <3>2. CASE n # 0
      <4>1. n - 1 \in Nat /\ n - 1 < n /\ n - 1 + 1 = n
        BY <3>2
      <4>2. Words[n - 1] >= 1 /\ Words[n] = 256 * Words[n - 1]
        BY <2>1, <4>1, WordsDefined
      <4> QED BY <1>1, <4>1, <4>2
    <3> QED BY <3>1, <3>2
  <2> HIDE DEF Good
  <2>2. Nat \subseteq Good
    BY <2>1, SetInduction
  <2> QED BY <2>2 DEF Good
<1>3. ASSUME NEW v \in Nat PROVE \A w \in Nat : v <= w => Words[v] <= Words[w]
  <2> DEFINE Good == {w \in Nat : v <= w => Words[v] <= Words[w]}
  <2>1. ASSUME NEW n \in Nat, \A m \in Nat : m < n => m \in Good PROVE n \in Good
    <3>1. CASE n <= v
      BY <1>1, <3>1
    <3>2. CASE ~(n <= v)
      <4>1. n - 1 \in Nat /\ n - 1 < n /\ n - 1 + 1 = n /\ v <= n - 1
        BY <3>2
      <4>2. Words[v] <= Words[n - 1] /\ Words[n] = 256 * Words[n - 1]
        BY <2>1, <4>1, WordsDefined
      <4>3. Words[v] \in Nat /\ Words[n - 1] \in Nat /\ Words[n] \in Nat
        BY <1>1, <4>1
      <4> QED BY <4>2, <4>3
    <3> QED BY <3>1, <3>2
  <2> HIDE DEF Good
  <2>2. Nat \subseteq Good
    BY <2>1, SetInduction
  <2> QED BY <2>2 DEF Good
<1>4. ASSUME NEW w \in Nat, w >= 1
      PROVE  \E half \in Nat : Words[w] = 2 * half /\ half >= 128
  <2>1. w - 1 \in Nat /\ w - 1 + 1 = w
    BY <1>4
  <2>2. Words[w] = 256 * Words[w - 1] /\ Words[w - 1] \in Nat /\ Words[w - 1] >= 1
    BY <1>1, <1>2, <2>1, WordsDefined
  <2> DEFINE half == 128 * Words[w - 1]
  <2>3. half \in Nat /\ Words[w] = 2 * half /\ half >= 128
    BY <2>2
  <2> QED BY <2>3
<1> QED BY <1>2, <1>3, <1>4

\* Words of one and of two bytes.
LEMMA SmallWords == Words[1] = 256 /\ Words[2] = 65536
<1>1. Words[0 + 1] = 256 * Words[0] /\ Words[1 + 1] = 256 * Words[1]
  BY WordsDefined
<1>2. Words[1] = 256
  BY <1>1, WordsDefined
<1> QED BY <1>1, <1>2

\* The value of a number below the size of a word is not cut off.
LEMMA NoWrap ==
  ASSUME NEW n \in Nat, NEW W \in Nat, n < W
  PROVE  n % W = n
BY SMT

\* What Unsigned computes byte by byte.
ValueUpTo(bytes, w) ==
  CHOOSE value : value = [i \in 0..Len(bytes) |->
    IF i = 0 THEN 0 ELSE (256 * value[i - 1] + bytes[i]) % Words[w]]

\* The recursion over the bytes has a value after each of them.
LEMMA ValueUpToDefined ==
  ASSUME NEW bytes \in Seq(Byte), NEW w \in Nat
  PROVE  /\ ValueUpTo(bytes, w)[0] = 0
         /\ \A i \in 1..Len(bytes) : ValueUpTo(bytes, w)[i] =
              (256 * ValueUpTo(bytes, w)[i - 1] + bytes[i]) % Words[w]
         /\ \A i \in 0..Len(bytes) : ValueUpTo(bytes, w)[i] \in Nat
<1> DEFINE D == 0..Len(bytes)
           Z == {0}
           b == [i \in D |-> 0]
           h == [i \in D |-> IF i = 0 THEN 0 ELSE i - 1]
           g == [i \in D |-> [v \in Nat |->
                   IF i = 0 THEN 0 ELSE (256 * v + bytes[i]) % Words[w]]]
           mu == [i \in D |-> i]
           V == ValueUpTo(bytes, w)
<1>0. /\ Len(bytes) \in Nat /\ \A i \in 1..Len(bytes) : bytes[i] \in Nat
      /\ Words[w] \in Nat /\ Words[w] >= 1
  <2>1. \A i \in 1..Len(bytes) : bytes[i] \in Byte
    OBVIOUS
  <2>2. \A i \in 1..Len(bytes) : bytes[i] \in Nat
    BY <2>1, ByteIsNat
  <2>3. Words[w] \in Nat /\ Words[w] >= 1
    BY WordsDefined, WordsGrow
  <2> QED BY <2>2, <2>3
<1>1. \A n \in Nat : n % Words[w] \in Nat
  BY <1>0
<1>2. \A i \in D : i # 0 => i \in 1..Len(bytes) /\ i - 1 \in D
  BY <1>0
<1>3. PICK f : Solves(f, D, Nat, Z, b, h, g)
  <2>1. h \in [D -> D] /\ mu \in [D -> Nat] /\ b \in [D -> Nat]
    BY <1>0
  <2>2. g \in [D -> [Nat -> Nat]]
    <3>1. ASSUME NEW i \in D, NEW v \in Nat, i # 0
          PROVE  (256 * v + bytes[i]) % Words[w] \in Nat
      <4>1. bytes[i] \in Nat
        BY <1>0, <1>2, <3>1
      <4>2. 256 * v + bytes[i] \in Nat
        BY <4>1
      <4> QED BY <1>1, <4>2
    <3> HIDE DEF D
    <3> QED BY <3>1
  <2>3. Recursion(D, Nat, Z, b, h, g, mu)
    BY <1>0, <2>1, <2>2 DEF Recursion
  <2> QED BY <2>3, RecursionDefined
<1>4. f = [i \in D |-> IF i = 0 THEN 0 ELSE (256 * f[i - 1] + bytes[i]) % Words[w]]
  <2>1. f = [i \in D |-> f[i]] /\ \A i \in D : f[i] \in Nat
    BY <1>3 DEF Solves
  <2>2. ASSUME NEW i \in D
        PROVE  f[i] = IF i = 0 THEN 0 ELSE (256 * f[i - 1] + bytes[i]) % Words[w]
    <3>1. f[i] = IF i \in Z THEN b[i] ELSE g[i][f[h[i]]]
      BY <1>3 DEF Solves
    <3>2. CASE i = 0
      BY <3>1, <3>2
    <3>3. CASE i # 0
      <4>1. h[i] = i - 1 /\ i - 1 \in D /\ f[i - 1] \in Nat
        BY <1>2, <2>1, <3>3
      <4>2. g[i][f[i - 1]] = (256 * f[i - 1] + bytes[i]) % Words[w]
        BY <3>3, <4>1
      <4> HIDE DEF g, h, D
      <4> QED BY <3>1, <3>3, <4>1, <4>2
    <3> QED BY <3>2, <3>3
  <2> HIDE DEF D
  <2> QED BY <2>1, <2>2, Zenon
<1>5. V = [i \in D |-> IF i = 0 THEN 0 ELSE (256 * V[i - 1] + bytes[i]) % Words[w]]
  BY <1>4 DEF ValueUpTo
<1>6. /\ V[0] = 0
      /\ \A i \in 1..Len(bytes) : V[i] = (256 * V[i - 1] + bytes[i]) % Words[w]
  <2> HIDE DEF V
  <2> QED BY <1>0, <1>5
<1>7. \A i \in D : V[i] \in Nat
  <2> DEFINE Good == {i \in Nat : i \in D => V[i] \in Nat}
  <2> HIDE DEF V
  <2>1. ASSUME NEW n \in Nat, \A m \in Nat : m < n => m \in Good PROVE n \in Good
    <3>1. CASE n = 0
      BY <1>6, <3>1
    <3>2. CASE n # 0 /\ n \in D
      <4>1. n - 1 \in Nat /\ n - 1 < n /\ n - 1 \in D /\ n \in 1..Len(bytes)
        BY <1>2, <3>2
      <4>2. V[n - 1] \in Nat /\ bytes[n] \in Nat
        BY <1>0, <2>1, <4>1
      <4>3. 256 * V[n - 1] + bytes[n] \in Nat
        BY <4>2
      <4> QED BY <1>1, <1>6, <4>1, <4>3
    <3> QED BY <3>1, <3>2
  <2> HIDE DEF Good
  <2>2. Nat \subseteq Good
    BY <2>1, SetInduction
  <2> QED BY <1>0, <2>2 DEF Good
<1> QED BY <1>6, <1>7

\* The value of some bytes and one more.
LEMMA UnsignedAppend ==
  ASSUME NEW bytes \in Seq(Byte), NEW x \in Byte, NEW w \in Nat
  PROVE  /\ Unsigned(<<>>, w) = 0
         /\ Unsigned(bytes, w) \in Nat
         /\ Unsigned(Append(bytes, x), w) = (256 * Unsigned(bytes, w) + x) % Words[w]
<1> DEFINE more == Append(bytes, x)
           U == ValueUpTo(bytes, w)
           V == ValueUpTo(more, w)
<1>1. /\ <<>> \in Seq(Byte) /\ more \in Seq(Byte) /\ Len(bytes) \in Nat
      /\ Len(more) = Len(bytes) + 1 /\ more[Len(bytes) + 1] = x
      /\ \A i \in 1..Len(bytes) : more[i] = bytes[i]
  OBVIOUS
<1>2. /\ Unsigned(<<>>, w) = ValueUpTo(<<>>, w)[Len(<<>>)]
      /\ Unsigned(bytes, w) = U[Len(bytes)] /\ Unsigned(more, w) = V[Len(more)]
  BY DEF Unsigned, ValueUpTo
<1>3. ValueUpTo(<<>>, w)[0] = 0 /\ Len(<<>>) = 0
  BY <1>1, ValueUpToDefined
<1>4. /\ U[0] = 0 /\ V[0] = 0 /\ \A i \in 0..Len(bytes) : U[i] \in Nat
      /\ \A i \in 1..Len(bytes) : U[i] = (256 * U[i - 1] + bytes[i]) % Words[w]
      /\ \A i \in 1..Len(more) : V[i] = (256 * V[i - 1] + more[i]) % Words[w]
  BY <1>1, ValueUpToDefined, ZenonT(30)
<1> HIDE DEF U, V, more
<1>5. \A i \in Nat : i <= Len(bytes) => U[i] = V[i]
  <2> DEFINE Good == {i \in Nat : i <= Len(bytes) => U[i] = V[i]}
  <2>1. ASSUME NEW n \in Nat, \A m \in Nat : m < n => m \in Good PROVE n \in Good
    <3>1. CASE n = 0
      BY <1>4, <3>1
    <3>2. CASE n # 0 /\ n <= Len(bytes)
      <4>1. /\ n - 1 \in Nat /\ n - 1 < n /\ n - 1 <= Len(bytes)
            /\ n \in 1..Len(bytes) /\ n \in 1..Len(more)
        BY <1>1, <3>2
      <4>2. U[n - 1] = V[n - 1] /\ more[n] = bytes[n]
        BY <1>1, <2>1, <4>1
      <4> QED BY <1>4, <4>1, <4>2
    <3> QED BY <3>1, <3>2
  <2> HIDE DEF Good
  <2>2. Nat \subseteq Good
    BY <2>1, SetInduction
  <2> QED BY <2>2 DEF Good
<1>6. V[Len(more)] = (256 * V[Len(bytes)] + x) % Words[w]
  <2>1. Len(more) \in 1..Len(more) /\ Len(more) - 1 = Len(bytes)
    BY <1>1
  <2> QED BY <1>1, <1>4, <2>1
<1>7. V[Len(bytes)] = U[Len(bytes)] /\ U[Len(bytes)] \in Nat
  BY <1>1, <1>4, <1>5
<1> QED BY <1>2, <1>3, <1>6, <1>7 DEF more

\* Induction along what is above the last byte of a number.
LEMMA IntInduction ==
  ASSUME NEW Good, \A n \in Int : -128 <= n /\ n < 128 => n \in Good,
         \A n \in Int : n \div 256 \in Good => n \in Good
  PROVE  Int \subseteq Good
<1> DEFINE mu(n) == IF n < 0 THEN -n ELSE n
           Sized == {k \in Nat : \A n \in Int : mu(n) = k => n \in Good}
<1>1. ASSUME NEW k \in Nat, \A j \in Nat : j < k => j \in Sized PROVE k \in Sized
  <2> SUFFICES ASSUME NEW n \in Int, mu(n) = k PROVE n \in Good
    OBVIOUS
  <2>1. CASE -128 <= n /\ n < 128
    BY <2>1
  <2>2. CASE ~(-128 <= n /\ n < 128)
    <3>1. n \div 256 \in Int /\ mu(n \div 256) < k /\ mu(n \div 256) \in Nat
      BY <2>2, SMT
    <3>2. n \div 256 \in Good
      BY <1>1, <3>1
    <3> QED BY <3>2
  <2> QED BY <2>1, <2>2
<1>2. Nat \subseteq Sized
  <2> HIDE DEF Sized
  <2> QED BY <1>1, SetInduction
<1>3. \A n \in Int : mu(n) \in Nat
  BY SMT
<1> QED BY <1>2, <1>3

\* The recursion of IntegerBytes, which ends as the number moves towards zero.
LEMMA IntegerBytesDefined ==
  \A n \in Int :
    /\ Sender!IntegerBytes[n] \in Seq(Byte)
    /\ Sender!IntegerBytes[n] = IF -128 <= n /\ n < 128 THEN <<n % 256>>
                                ELSE Append(Sender!IntegerBytes[n \div 256], n % 256)
<1> DEFINE V == Seq(Byte)
           Z == {n \in Int : -128 <= n /\ n < 128}
           b == [n \in Int |-> <<n % 256>>]
           h == [n \in Int |-> n \div 256]
           g == [n \in Int |-> [s \in V |-> Append(s, n % 256)]]
           mu == [n \in Int |-> IF n < 0 THEN -n ELSE n]
           I == Sender!IntegerBytes
<1>0. \A n \in Int : n % 256 \in Byte /\ n \div 256 \in Int
  BY SMT DEF Byte
<1>1. \A n \in Int : n \notin Z => mu[n \div 256] < mu[n]
  BY SMT
<1>2. PICK f : Solves(f, Int, V, Z, b, h, g)
  <2>1. h \in [Int -> Int] /\ mu \in [Int -> Nat]
    BY <1>0, SMT
  <2>2. b \in [Int -> V]
    BY <1>0
  <2>3. g \in [Int -> [V -> V]]
    <3>1. ASSUME NEW n \in Int, NEW s \in V PROVE Append(s, n % 256) \in V
      BY <1>0
    <3> HIDE DEF V
    <3> QED BY <3>1
  <2>4. \A n \in Int : n \notin Z => mu[h[n]] < mu[n]
    BY <1>0, <1>1
  <2> HIDE DEF V, Z, b, h, g, mu
  <2>5. Recursion(Int, V, Z, b, h, g, mu)
    BY <2>1, <2>2, <2>3, <2>4 DEF Recursion
  <2> QED BY <2>5, RecursionDefined
<1>3. f = [n \in Int |-> IF -128 <= n /\ n < 128 THEN <<n % 256>>
                         ELSE Append(f[n \div 256], n % 256)]
  <2>1. f = [n \in Int |-> f[n]] /\ \A n \in Int : f[n] \in V
    BY <1>2 DEF Solves
  <2>2. ASSUME NEW n \in Int
        PROVE  f[n] = IF -128 <= n /\ n < 128 THEN <<n % 256>>
                      ELSE Append(f[n \div 256], n % 256)
    <3>1. f[n] = IF n \in Z THEN b[n] ELSE g[n][f[h[n]]]
      BY <1>2 DEF Solves
    <3>2. h[n] = n \div 256 /\ f[n \div 256] \in V
      BY <1>0, <2>1
    <3>3. g[n][f[n \div 256]] = Append(f[n \div 256], n % 256)
      BY <3>2
    <3>4. b[n] = <<n % 256>> /\ (n \in Z <=> -128 <= n /\ n < 128)
      OBVIOUS
    <3> HIDE DEF g, h, V, b, Z
    <3> QED BY <3>1, <3>2, <3>3, <3>4
  <2> HIDE DEF V
  <2> QED BY <2>1, <2>2, Zenon
<1>4. I = [n \in Int |-> IF -128 <= n /\ n < 128 THEN <<n % 256>>
                         ELSE Append(I[n \div 256], n % 256)]
  BY <1>3 DEF Sender!IntegerBytes
<1>5. \A n \in Int : I[n] = IF -128 <= n /\ n < 128 THEN <<n % 256>>
                            ELSE Append(I[n \div 256], n % 256)
  <2> HIDE DEF I
  <2> QED BY <1>4
<1>6. Int \subseteq {n \in Int : I[n] \in V}
  <2> DEFINE Good == {n \in Int : I[n] \in V}
  <2> HIDE DEF I
  <2>1. ASSUME NEW n \in Int, -128 <= n /\ n < 128 PROVE n \in Good
    <3>1. I[n] = <<n % 256>> /\ n % 256 \in Byte
      BY <1>0, <1>5, <2>1
    <3>2. \A x \in Byte : <<x>> \in V
      OBVIOUS
    <3>3. I[n] \in V
      BY <3>1, <3>2
    <3> QED BY <3>3
  <2>2. ASSUME NEW n \in Int, n \div 256 \in Good PROVE n \in Good
    <3>1. CASE ~(-128 <= n /\ n < 128)
      <4>1. I[n] = Append(I[n \div 256], n % 256) /\ n % 256 \in Byte
        BY <1>0, <1>5, <3>1
      <4>2. I[n \div 256] \in V
        BY <2>2
      <4>3. \A s \in V, x \in Byte : Append(s, x) \in V
        OBVIOUS
      <4>4. I[n] \in V
        BY <4>1, <4>2, <4>3
      <4> QED BY <4>4
    <3> QED BY <2>1, <3>1
  <2> HIDE DEF Good
  <2>3. Int \subseteq Good
    BY <2>1, <2>2, IntInduction
  <2> QED BY <2>3 DEF Good
<1>7. \A n \in Int : I[n] \in V
  <2> HIDE DEF I, V
  <2> QED BY <1>6
<1> QED BY <1>5, <1>7

\* The bytes of an integer are its value in two's complement, and no more than
\* the smallest word it fits in.
LEMMA IntegerBytesValue ==
  ASSUME NEW n \in Int
  PROVE  /\ Len(Sender!IntegerBytes[n]) \in Nat /\ Len(Sender!IntegerBytes[n]) >= 1
         /\ \E U \in Nat :
              /\ U < Words[Len(Sender!IntegerBytes[n])]
              /\ n = IF 2 * U >= Words[Len(Sender!IntegerBytes[n])]
                     THEN U - Words[Len(Sender!IntegerBytes[n])] ELSE U
              /\ \A w \in Nat : U < Words[w] => Unsigned(Sender!IntegerBytes[n], w) = U
<1> DEFINE I(m) == Sender!IntegerBytes[m]
           Reads(m, U) ==
             /\ U < Words[Len(I(m))]
             /\ m = IF 2 * U >= Words[Len(I(m))] THEN U - Words[Len(I(m))] ELSE U
             /\ \A w \in Nat : U < Words[w] => Unsigned(I(m), w) = U
           Good == {m \in Int : /\ Len(I(m)) \in Nat /\ Len(I(m)) >= 1
                                /\ \E U \in Nat : Reads(m, U)}
<1>0. \A w \in Nat : Words[w] \in Nat
  BY WordsDefined
<1>1. ASSUME NEW m \in Int, -128 <= m /\ m < 128 PROVE m \in Good
  <2> DEFINE U == m % 256
  <2>1. I(m) = <<U>> /\ Len(I(m)) = 1 /\ I(m) = Append(<<>>, U)
    <3>1. I(m) = <<U>>
      BY <1>1, IntegerBytesDefined, Zenon
    <3>2. Len(<<U>>) = 1 /\ <<U>> = Append(<<>>, U)
      OBVIOUS
    <3> HIDE DEF U
    <3> QED BY <3>1, <3>2
  <2>2. U \in Byte /\ U \in Nat /\ U < 256 /\ m = IF 2 * U >= 256 THEN U - 256 ELSE U
    BY <1>1, SMT DEF Byte
  <2>3. ASSUME NEW w \in Nat, U < Words[w] PROVE Unsigned(I(m), w) = U
    <3>1. Unsigned(<<>>, w) = 0 /\ Unsigned(Append(<<>>, U), w) = (256 * Unsigned(<<>>, w) + U) % Words[w]
      <4> HIDE DEF U
      <4> QED BY <2>2, EmptySeq, UnsignedAppend, ZenonT(30)
    <3>2. U % Words[w] = U
      BY <1>0, <2>2, <2>3, NoWrap
    <3> HIDE DEF U
    <3> QED BY <2>1, <2>2, <3>1, <3>2
  <2>4. Reads(m, U)
    BY <2>1, <2>2, <2>3, SmallWords
  <2>5. Len(I(m)) \in Nat /\ Len(I(m)) >= 1
    BY <2>1
  <2> HIDE DEF Reads
  <2> QED BY <2>2, <2>4, <2>5
<1>2. ASSUME NEW m \in Int, m \div 256 \in Good PROVE m \in Good
  <2>1. CASE -128 <= m /\ m < 128
    BY <1>1, <2>1
  <2>2. CASE ~(-128 <= m /\ m < 128)
    <3> DEFINE q == m \div 256
               r == m % 256
               k == Len(I(q))
    <3>1. q \in Int /\ r \in Byte /\ r \in Nat /\ r < 256 /\ m = 256 * q + r
      BY SMT DEF Byte
    <3>2. k \in Nat /\ k >= 1
      BY <1>2
    <3>3. PICK W \in Nat : Reads(q, W)
      BY <1>2
    <3>4. I(m) = Append(I(q), r) /\ I(q) \in Seq(Byte)
      <4>1. I(m) = Append(I(q), r)
        BY <2>2, IntegerBytesDefined, Zenon
      <4>2. I(q) \in Seq(Byte)
        <5> HIDE DEF q
        <5> QED BY <3>1, IntegerBytesDefined, ZenonT(30)
      <4> QED BY <4>1, <4>2
    <3> DEFINE U == 256 * W + r
    <3> HIDE DEF q, r, I
    <3>5. Len(I(m)) = k + 1 /\ U \in Nat
      BY <3>1, <3>2, <3>4
    <3>6. PICK half \in Nat : Words[k] = 2 * half
      BY <3>2, WordsGrow
    <3>7. Words[Len(I(m))] = 256 * Words[k] /\ Words[k] \in Nat
      BY <1>0, <3>2, <3>5, WordsDefined
    <3>8. /\ U < Words[Len(I(m))]
          /\ m = IF 2 * U >= Words[Len(I(m))] THEN U - Words[Len(I(m))] ELSE U
      <4>1. W < Words[k] /\ q = IF 2 * W >= Words[k] THEN W - Words[k] ELSE W
        BY <3>3
      <4>2. 2 * W >= 2 * half <=> 2 * U >= 256 * (2 * half)
        BY <3>1
      <4> HIDE DEF k
      <4> QED BY <3>1, <3>6, <3>7, <4>1, <4>2
    <3>9. ASSUME NEW w \in Nat, U < Words[w] PROVE Unsigned(I(m), w) = U
      <4>1. W < Words[w] /\ Words[w] \in Nat
        BY <1>0, <3>1, <3>9
      <4>2. Unsigned(I(q), w) = W
        BY <3>3, <4>1
      <4>3. Unsigned(Append(I(q), r), w) = (256 * Unsigned(I(q), w) + r) % Words[w]
        BY <3>1, <3>4, UnsignedAppend
      <4>4. U % Words[w] = U
        BY <3>5, <3>9, <4>1, NoWrap
      <4> QED BY <3>4, <4>2, <4>3, <4>4
    <3>10. Reads(m, U)
      BY <3>8, <3>9
    <3> HIDE DEF Reads, U
    <3> QED BY <3>2, <3>5, <3>10
  <2> QED BY <2>1, <2>2
<1> HIDE DEF Good
<1>3. Int \subseteq Good
  BY <1>1, <1>2, IntInduction
<1> QED BY <1>3 DEF Good

\* An integer that fits in a word has no more bytes than the word.
LEMMA IntegerBytesFit ==
  ASSUME NEW n \in Int, NEW w \in Nat, w >= 1, -Words[w] <= 2 * n, 2 * n < Words[w]
  PROVE  Len(Sender!IntegerBytes[n]) <= w
<1> DEFINE I(m) == Sender!IntegerBytes[m]
           Good == {m \in Int : \A v \in Nat : v >= 1 /\ -Words[v] <= 2 * m /\ 2 * m < Words[v] =>
                                  Len(I(m)) <= v}
<1>1. ASSUME NEW m \in Int, -128 <= m /\ m < 128 PROVE m \in Good
  <2>1. I(m) = <<m % 256>>
    BY <1>1, IntegerBytesDefined, Zenon
  <2>2. Len(I(m)) = 1
    BY <2>1
  <2> HIDE DEF I
  <2> QED BY <2>2
<1>2. ASSUME NEW m \in Int, m \div 256 \in Good PROVE m \in Good
  <2>1. CASE -128 <= m /\ m < 128
    BY <1>1, <2>1
  <2>2. CASE ~(-128 <= m /\ m < 128)
    <3> DEFINE q == m \div 256
               r == m % 256
    <3>1. q \in Int /\ r \in Nat /\ r < 256 /\ m = 256 * q + r
      BY SMT
    <3>2. r \in Byte
      BY <3>1 DEF Byte
    <3>3. I(m) = Append(I(q), r)
      BY <2>2, IntegerBytesDefined, Zenon
    <3> HIDE DEF q, r
    <3>4. I(q) \in Seq(Byte)
      BY <3>1, IntegerBytesDefined, ZenonT(30)
    <3> SUFFICES ASSUME NEW v \in Nat, v >= 1, -Words[v] <= 2 * m, 2 * m < Words[v]
                 PROVE  Len(I(m)) <= v
      OBVIOUS
    <3>5. v >= 2
      <4>1. v # 1
        BY <2>2, SmallWords
      <4> QED BY <4>1
    <3>6. v - 1 \in Nat /\ v - 1 >= 1 /\ v - 1 + 1 = v
      BY <3>5
    <3>7. /\ Words[v] = 256 * Words[v - 1]
          /\ \E half \in Nat : Words[v - 1] = 2 * half /\ half >= 128
      BY <3>6, WordsDefined, WordsGrow, ZenonT(30)
    <3>8. PICK half \in Nat : Words[v - 1] = 2 * half /\ Words[v] = 256 * (2 * half)
      BY <3>7
    <3>9. -Words[v - 1] <= 2 * q /\ 2 * q < Words[v - 1]
      <4>1. -(2 * half) <= 2 * q /\ 2 * q < 2 * half
        BY <3>1, <3>8
      <4> QED BY <3>8, <4>1
    <3>10. Len(I(q)) <= v - 1
      BY <1>2, <3>6, <3>9 DEF q
    <3>11. Len(I(m)) = Len(I(q)) + 1 /\ Len(I(q)) \in Nat
      BY <3>2, <3>3, <3>4
    <3> HIDE DEF I
    <3> QED BY <3>10, <3>11
  <2> QED BY <2>1, <2>2
<1> HIDE DEF Good
<1>3. Int \subseteq Good
  BY <1>1, <1>2, IntInduction
<1> QED BY <1>3 DEF Good

\* An integer that fits the decoder's word is decoded to itself, with its sign.
LEMMA SignedDecoded ==
  ASSUME NEW w \in Nat, w >= 1, NEW n \in Signeds(w)
  PROVE  Signed(Sender!IntegerBytes[n], w) = n
<1> DEFINE bytes == Sender!IntegerBytes[n]
<1>1. n \in Int /\ -Words[w] <= 2 * n /\ 2 * n < Words[w]
  BY DEF Signeds
<1>2. Len(bytes) <= w
  BY <1>1, IntegerBytesFit
<1>3. Len(bytes) \in Nat
  BY <1>1, IntegerBytesValue
<1>4. PICK U \in Nat :
        /\ U < Words[Len(bytes)]
        /\ n = IF 2 * U >= Words[Len(bytes)] THEN U - Words[Len(bytes)] ELSE U
        /\ \A v \in Nat : U < Words[v] => Unsigned(bytes, v) = U
  BY <1>1, IntegerBytesValue
<1>5. Words[Len(bytes)] <= Words[w] /\ Words[Len(bytes)] \in Nat /\ Words[w] \in Nat
  BY <1>2, <1>3, WordsDefined, WordsGrow
<1>6. Unsigned(bytes, w) = U
  BY <1>4, <1>5
<1>7. (IF Len(bytes) < w THEN Len(bytes) ELSE w) = Len(bytes)
  BY <1>2, <1>3
<1> HIDE DEF bytes
<1>8. Signed(bytes, w) = IF 2 * U >= Words[Len(bytes)] THEN U - Words[Len(bytes)] ELSE U
  BY <1>6, <1>7 DEF Signed
<1> QED BY <1>4, <1>8 DEF bytes

\* A number that fits an unsigned word is decoded to itself, though the sender
\* may have put a byte before it to keep it positive.
LEMMA UnsignedDecoded ==
  ASSUME NEW w \in Nat, NEW n \in Unsigneds(w)
  PROVE  Unsigned(Sender!IntegerBytes[n], w) = n
<1> DEFINE bytes == Sender!IntegerBytes[n]
<1>1. n \in Nat /\ n \in Int /\ n < Words[w]
  BY DEF Unsigneds
<1>2. PICK U \in Nat :
        /\ U < Words[Len(bytes)]
        /\ n = IF 2 * U >= Words[Len(bytes)] THEN U - Words[Len(bytes)] ELSE U
        /\ \A v \in Nat : U < Words[v] => Unsigned(bytes, v) = U
  BY <1>1, IntegerBytesValue
<1>3. Len(bytes) \in Nat /\ Words[Len(bytes)] \in Nat
  BY <1>1, IntegerBytesValue, WordsDefined
<1>4. n = U
  BY <1>1, <1>2, <1>3
<1> QED BY <1>1, <1>2, <1>4

-----------------------------------------------------------------------------
(* Object identifiers: groups of seven bits make the arcs they were made of. *)

\* The last seven bits of a number and what is above them.
LEMMA SevenBits ==
  ASSUME NEW n \in Nat
  PROVE  /\ n \div 128 \in Nat /\ n % 128 \in Nat /\ n % 128 < 128
         /\ n = 128 * (n \div 128) + (n % 128) /\ n \div 128 <= n
         /\ n # 0 => n \div 128 < n
         /\ n % 128 \in Byte /\ 128 + (n % 128) \in Byte
         /\ (128 + (n % 128)) % 128 = n % 128
<1> DEFINE q == n \div 128
           r == n % 128
<1>1. q \in Nat /\ r \in 0..127 /\ n = 128 * q + r
  BY SMT
<1> HIDE DEF q, r
<1>2. r \in Byte /\ 128 + r \in Byte /\ q <= n /\ (n # 0 => q < n)
  BY <1>1 DEF Byte
<1>3. (128 + r) % 128 = r
  BY <1>1, SMT
<1> QED BY <1>1, <1>2, <1>3 DEF q, r

\* The concatenation of the first i sequences of seqs.
FlatUpTo(seqs, S) ==
  CHOOSE flat : /\ flat \in [0..Len(seqs) -> Seq(S)] /\ flat[0] = <<>>
                /\ \A i \in 1..Len(seqs) : flat[i] = flat[i - 1] \o seqs[i]

\* FlattenSeq of a sequence of sequences is what FlatUpTo ends with.
LEMMA FlattenDefined ==
  ASSUME NEW S, NEW seqs \in Seq(Seq(S))
  PROVE  /\ FlatUpTo(seqs, S) \in [0..Len(seqs) -> Seq(S)] /\ FlatUpTo(seqs, S)[0] = <<>>
         /\ \A i \in 1..Len(seqs) : FlatUpTo(seqs, S)[i] = FlatUpTo(seqs, S)[i - 1] \o seqs[i]
         /\ Sender!FlattenSeq(seqs) = FlatUpTo(seqs, S)[Len(seqs)]
<1> DEFINE N == Len(seqs)
           D == 1..N
           V == Seq(S)
           Z == {1}
           b == [i \in D |-> seqs[1]]
           h == [i \in D |-> IF i = 1 THEN 1 ELSE i - 1]
           g == [i \in D |-> [s \in V |-> s \o seqs[i]]]
           mu == [i \in D |-> i]
           flatten == CHOOSE f : f = [i \in D |-> IF i = 1 THEN seqs[i] ELSE f[i - 1] \o seqs[i]]
<1>0. /\ N \in Nat /\ \A i \in D : seqs[i] \in V
      /\ \A s \in V, t \in V : s \o t \in V
  <2>1. N \in Nat /\ \A i \in D : seqs[i] \in V
    OBVIOUS
  <2>2. \A s \in V, t \in V : s \o t \in V
    BY ConcatProperties
  <2> QED BY <2>1, <2>2
<1>1. PICK f : Solves(f, D, V, Z, b, h, g)
  <2>1. Recursion(D, V, Z, b, h, g, mu)
    <3>1. h \in [D -> D] /\ mu \in [D -> Nat]
      BY <1>0
    <3>2. b \in [D -> V] /\ g \in [D -> [V -> V]]
      <4>1. \A i \in D : seqs[1] \in V
        BY <1>0
      <4> HIDE DEF V, D
      <4> QED BY <1>0, <4>1
    <3>3. \A i \in D : i \notin Z => mu[h[i]] < mu[i]
      BY <1>0
    <3> QED BY <3>1, <3>2, <3>3 DEF Recursion
  <2> QED BY <2>1, RecursionDefined
<1>2. f = [i \in D |-> IF i = 1 THEN seqs[i] ELSE f[i - 1] \o seqs[i]]
  <2>1. f = [i \in D |-> f[i]] /\ \A i \in D : f[i] \in V
    BY <1>1 DEF Solves
  <2>2. ASSUME NEW i \in D PROVE f[i] = IF i = 1 THEN seqs[i] ELSE f[i - 1] \o seqs[i]
    <3>1. f[i] = IF i \in Z THEN b[i] ELSE g[i][f[h[i]]]
      BY <1>1 DEF Solves
    <3>2. CASE i = 1
      BY <3>1, <3>2
    <3>3. CASE i # 1
      <4>1. h[i] = i - 1 /\ i - 1 \in D
        BY <1>0, <3>3
      <4>2. f[i - 1] \in V
        BY <2>1, <4>1
      <4>3. g[i][f[i - 1]] = f[i - 1] \o seqs[i]
        BY <4>2
      <4> HIDE DEF g, h, D, V
      <4> QED BY <3>1, <3>3, <4>1, <4>3
    <3> QED BY <3>2, <3>3
  <2> HIDE DEF D, V
  <2> QED BY <2>1, <2>2, Zenon
<1>3. flatten = [i \in D |-> IF i = 1 THEN seqs[i] ELSE flatten[i - 1] \o seqs[i]]
  BY <1>2
<1>4. Sender!FlattenSeq(seqs) = IF N = 0 THEN seqs ELSE flatten[N]
  BY DEF Sender!FlattenSeq
<1> HIDE DEF flatten
<1>5. \A i \in D : flatten[i] \in V
  <2> DEFINE Good == {i \in Nat : i \in D => flatten[i] \in V}
  <2>1. ASSUME NEW n \in Nat, \A m \in Nat : m < n => m \in Good PROVE n \in Good
    <3>1. CASE n = 1 /\ n \in D
      <4>1. flatten[n] = seqs[n] /\ seqs[n] \in V
        BY <1>0, <1>3, <3>1
      <4> HIDE DEF V
      <4> QED BY <4>1
    <3>2. CASE n # 1 /\ n \in D
      <4>1. n - 1 \in Nat /\ n - 1 < n /\ n - 1 \in D
        BY <1>0, <3>2
      <4>2. flatten[n - 1] \in V /\ seqs[n] \in V /\ flatten[n] = flatten[n - 1] \o seqs[n]
        BY <1>0, <1>3, <2>1, <3>2, <4>1
      <4> HIDE DEF V
      <4> QED BY <1>0, <4>2
    <3> QED BY <3>1, <3>2
  <2> HIDE DEF Good
  <2>2. Nat \subseteq Good
    BY <2>1, SetInduction
  <2>3. D \subseteq Nat
    BY <1>0
  <2> HIDE DEF D
  <2> QED BY <2>2, <2>3 DEF Good
<1> DEFINE flat == [i \in 0..N |-> IF i = 0 THEN <<>> ELSE flatten[i]]
<1>6. flat \in [0..N -> V] /\ flat[0] = <<>>
  <2>1. <<>> \in V /\ \A i \in 0..N : i # 0 => i \in D
    BY <1>0
  <2> HIDE DEF D, V
  <2>2. ASSUME NEW i \in 0..N PROVE (IF i = 0 THEN <<>> ELSE flatten[i]) \in V
    BY <1>5, <2>1
  <2>3. 0 \in 0..N
    BY <1>0
  <2> QED BY <2>2, <2>3
<1>7. ASSUME NEW i \in D PROVE flat[i] = flat[i - 1] \o seqs[i]
  <2>1. flat[i] = flatten[i] /\ i \in 1..N /\ i - 1 \in 0..N
    BY <1>0
  <2>2. CASE i = 1
    <3>1. flat[i - 1] = <<>> /\ flat[i] = seqs[i]
      BY <1>3, <1>6, <2>1, <2>2
    <3>2. <<>> \o seqs[i] = seqs[i]
      BY <1>0, ConcatEmptySeq
    <3> HIDE DEF flat
    <3> QED BY <3>1, <3>2
  <2>3. CASE i # 1
    <3>1. flat[i - 1] = flatten[i - 1]
      BY <2>1, <2>3
    <3>2. flatten[i] = flatten[i - 1] \o seqs[i]
      BY <1>3, <2>3
    <3> HIDE DEF flat
    <3> QED BY <2>1, <3>1, <3>2
  <2> QED BY <2>2, <2>3
<1>8. Sender!FlattenSeq(seqs) = flat[N]
  <2>1. CASE N = 0
    <3>1. seqs = <<>> /\ flat[N] = <<>>
      BY <2>1
    <3> HIDE DEF flat
    <3> QED BY <1>4, <2>1, <3>1
  <2>2. CASE N # 0
    <3>1. flat[N] = flatten[N]
      BY <1>0, <2>2
    <3> HIDE DEF flat
    <3> QED BY <1>4, <2>2, <3>1
  <2> QED BY <2>1, <2>2
<1> HIDE DEF flat
<1> DEFINE Is(f_) == /\ f_ \in [0..N -> V] /\ f_[0] = <<>>
                     /\ \A i \in D : f_[i] = f_[i - 1] \o seqs[i]
<1>9. Is(flat)
  BY <1>6, <1>7
<1>10. Is(FlatUpTo(seqs, S))
  BY <1>9 DEF FlatUpTo
<1>11. ASSUME NEW i \in Nat PROVE i <= N => FlatUpTo(seqs, S)[i] = flat[i]
  <2> DEFINE Good == {n \in Nat : n <= N => FlatUpTo(seqs, S)[n] = flat[n]}
  <2>1. ASSUME NEW n \in Nat, \A m \in Nat : m < n => m \in Good PROVE n \in Good
    <3>1. CASE n = 0
      BY <1>9, <1>10, <3>1
    <3>2. CASE n # 0 /\ n <= N
      <4>1. n - 1 \in Nat /\ n - 1 < n /\ n - 1 <= N /\ n \in D
        BY <1>0, <3>2
      <4>2. FlatUpTo(seqs, S)[n - 1] = flat[n - 1]
        BY <2>1, <4>1
      <4> QED BY <1>9, <1>10, <4>1, <4>2
    <3> QED BY <3>1, <3>2
  <2> HIDE DEF Good
  <2>2. Nat \subseteq Good
    BY <2>1, SetInduction
  <2> QED BY <2>2 DEF Good
<1>12. Sender!FlattenSeq(seqs) = FlatUpTo(seqs, S)[N]
  <2>1. FlatUpTo(seqs, S)[N] = flat[N]
    BY <1>0, <1>11
  <2> QED BY <1>8, <2>1
<1> QED BY <1>10, <1>12

\* The bytes of s lie in t from the offset o on.
Within(s, t, o) == o + Len(s) <= Len(t) /\ \A i \in 1..Len(s) : t[o + i] = s[i]

\* The two parts of a concatenation lie in it.
LEMMA WithinConcat ==
  ASSUME NEW S, NEW s \in Seq(S), NEW t \in Seq(S)
  PROVE  /\ s \o t \in Seq(S) /\ Len(s \o t) = Len(s) + Len(t)
         /\ Len(s) \in Nat /\ Len(t) \in Nat
         /\ Within(s, s \o t, 0) /\ Within(t, s \o t, Len(s))
<1>1. /\ s \o t \in Seq(S) /\ Len(s \o t) = Len(s) + Len(t)
      /\ Len(s) \in Nat /\ Len(t) \in Nat
      /\ \A i \in 1..Len(s) : (s \o t)[i] = s[i]
      /\ \A i \in 1..Len(t) : (s \o t)[Len(s) + i] = t[i]
  OBVIOUS
<1>2. \A i \in 1..Len(s) : (s \o t)[0 + i] = s[i]
  BY <1>1
<1> QED BY <1>1, <1>2 DEF Within

\* What lies in a part lies in the whole.
LEMMA WithinWithin ==
  ASSUME NEW S, NEW r \in Seq(S), NEW s \in Seq(S), NEW t \in Seq(S),
         NEW o \in Nat, NEW p \in Nat, Within(r, s, o), Within(s, t, p)
  PROVE  Within(r, t, p + o)
<1>1. Len(r) \in Nat /\ Len(s) \in Nat /\ Len(t) \in Nat
  OBVIOUS
<1>2. o + Len(r) <= Len(s) /\ p + Len(s) <= Len(t)
  BY DEF Within
<1>3. ASSUME NEW i \in 1..Len(r) PROVE t[p + o + i] = r[i]
  <2>1. o + i \in 1..Len(s) /\ p + o + i = p + (o + i)
    BY <1>1, <1>2
  <2>2. s[o + i] = r[i] /\ t[p + (o + i)] = s[o + i]
    BY <2>1 DEF Within
  <2> QED BY <2>1, <2>2
<1> QED BY <1>1, <1>2, <1>3 DEF Within

\* Each of the sequences lies in the concatenation where those before it end.
LEMMA FlattenParts ==
  ASSUME NEW S, NEW seqs \in Seq(Seq(S)), NEW n \in 0..Len(seqs), NEW k \in 1..n
  PROVE  /\ FlatUpTo(seqs, S)[n] \in Seq(S) /\ FlatUpTo(seqs, S)[k - 1] \in Seq(S)
         /\ seqs[k] \in Seq(S)
         /\ Len(FlatUpTo(seqs, S)[k - 1]) \in Nat
         /\ Len(FlatUpTo(seqs, S)[k]) = Len(FlatUpTo(seqs, S)[k - 1]) + Len(seqs[k])
         /\ Within(seqs[k], FlatUpTo(seqs, S)[n], Len(FlatUpTo(seqs, S)[k - 1]))
<1> DEFINE F(m) == FlatUpTo(seqs, S)[m]
           N == Len(seqs)
           Good == {m \in Nat : k <= m /\ m <= N => Within(seqs[k], F(m), Len(F(k - 1)))}
<1>0. /\ N \in Nat /\ n \in Nat /\ n <= N /\ k \in Nat /\ k <= n /\ 1 <= k
      /\ \A i \in 1..N : seqs[i] \in Seq(S)
  OBVIOUS
<1>1. /\ \A i \in 0..N : F(i) \in Seq(S)
      /\ \A i \in 1..N : F(i) = F(i - 1) \o seqs[i]
  BY FlattenDefined
<1> HIDE DEF F, N
<1>2. ASSUME NEW m \in 1..N
      PROVE  /\ F(m) \in Seq(S) /\ F(m - 1) \in Seq(S) /\ seqs[m] \in Seq(S)
             /\ Len(F(m)) = Len(F(m - 1)) + Len(seqs[m]) /\ Len(F(m - 1)) \in Nat
             /\ Within(F(m - 1), F(m), 0) /\ Within(seqs[m], F(m), Len(F(m - 1)))
  <2>1. m - 1 \in 0..N /\ m \in 0..N
    BY <1>0
  <2>2. F(m - 1) \in Seq(S) /\ seqs[m] \in Seq(S) /\ F(m) = F(m - 1) \o seqs[m]
    BY <1>0, <1>1, <2>1
  <2> QED BY <2>2, WithinConcat
<1>3. k \in 1..N
  BY <1>0
<1>4. ASSUME NEW m \in Nat, \A j \in Nat : j < m => j \in Good PROVE m \in Good
  <2>1. CASE m = k
    BY <1>2, <1>3, <2>1
  <2>2. CASE k < m /\ m <= N
    <3>1. m - 1 \in Nat /\ m - 1 < m /\ k <= m - 1 /\ m - 1 <= N /\ m \in 1..N
      BY <1>0, <2>2
    <3>2. Within(seqs[k], F(m - 1), Len(F(k - 1)))
      BY <1>4, <3>1
    <3>3. /\ F(m) \in Seq(S) /\ F(m - 1) \in Seq(S) /\ Within(F(m - 1), F(m), 0)
          /\ seqs[k] \in Seq(S) /\ Len(F(k - 1)) \in Nat
      BY <1>2, <1>3, <3>1
    <3>4. Within(seqs[k], F(m), 0 + Len(F(k - 1)))
      BY <3>2, <3>3, WithinWithin
    <3>5. 0 + Len(F(k - 1)) = Len(F(k - 1))
      BY <3>3
    <3> QED BY <3>4, <3>5
  <2> QED BY <1>0, <2>1, <2>2
<1>5. n \in Good
  <2> HIDE DEF Good
  <2>1. Nat \subseteq Good
    BY <1>4, SetInduction
  <2> QED BY <1>0, <2>1
<1>6. Within(seqs[k], F(n), Len(F(k - 1)))
  BY <1>0, <1>5
<1>7. n \in 0..N
  BY <1>0
<1>8. F(n) \in Seq(S)
  BY <1>1, <1>7
<1>9. /\ F(k - 1) \in Seq(S) /\ seqs[k] \in Seq(S) /\ Len(F(k - 1)) \in Nat
      /\ Len(F(k)) = Len(F(k - 1)) + Len(seqs[k])
  BY <1>2, <1>3
<1> QED BY <1>6, <1>8, <1>9 DEF F

\* The recursion of Continued, seven bits at a time.
LEMMA ContinuedDefined ==
  \A n \in Nat :
    /\ Sender!Continued[n] \in Seq(Byte)
    /\ Sender!Continued[n] = IF n = 0 THEN <<>>
                             ELSE Append(Sender!Continued[n \div 128], 128 + (n % 128))
<1> DEFINE V == Seq(Byte)
           Z == {0}
           b == [n \in Nat |-> <<>>]
           h == [n \in Nat |-> n \div 128]
           g == [n \in Nat |-> [s \in V |-> Append(s, 128 + (n % 128))]]
           mu == [n \in Nat |-> n]
           C == Sender!Continued
<1>0. \A n \in Nat : 128 + (n % 128) \in Byte /\ n \div 128 \in Nat
  BY SMT DEF Byte
<1>1. \A n \in Nat : n # 0 => n \div 128 < n
  BY SMT
<1>2. PICK f : Solves(f, Nat, V, Z, b, h, g)
  <2>1. h \in [Nat -> Nat] /\ mu \in [Nat -> Nat]
    BY <1>0
  <2>2. b \in [Nat -> V]
    OBVIOUS
  <2>3. g \in [Nat -> [V -> V]]
    <3>1. ASSUME NEW n \in Nat, NEW s \in V PROVE Append(s, 128 + (n % 128)) \in V
      BY <1>0
    <3> HIDE DEF V
    <3> QED BY <3>1
  <2>4. \A n \in Nat : n \notin Z => mu[h[n]] < mu[n]
    BY <1>0, <1>1
  <2> HIDE DEF V, Z, b, h, g, mu
  <2>5. Recursion(Nat, V, Z, b, h, g, mu)
    BY <2>1, <2>2, <2>3, <2>4 DEF Recursion
  <2> QED BY <2>5, RecursionDefined
<1>3. f = [n \in Nat |-> IF n = 0 THEN <<>> ELSE Append(f[n \div 128], 128 + (n % 128))]
  <2>1. f = [n \in Nat |-> f[n]] /\ \A n \in Nat : f[n] \in V
    BY <1>2 DEF Solves
  <2>2. ASSUME NEW n \in Nat
        PROVE  f[n] = IF n = 0 THEN <<>> ELSE Append(f[n \div 128], 128 + (n % 128))
    <3>1. f[n] = IF n \in Z THEN b[n] ELSE g[n][f[h[n]]]
      BY <1>2 DEF Solves
    <3>2. h[n] = n \div 128 /\ f[n \div 128] \in V
      BY <1>0, <2>1
    <3>3. g[n][f[n \div 128]] = Append(f[n \div 128], 128 + (n % 128))
      BY <3>2
    <3>4. b[n] = <<>> /\ (n \in Z <=> n = 0)
      OBVIOUS
    <3> HIDE DEF g, h, V, b, Z
    <3> QED BY <3>1, <3>2, <3>3, <3>4
  <2> HIDE DEF V
  <2> QED BY <2>1, <2>2, Zenon
<1>4. C = [n \in Nat |-> IF n = 0 THEN <<>> ELSE Append(C[n \div 128], 128 + (n % 128))]
  BY <1>3 DEF Sender!Continued
<1> HIDE DEF C
<1>5. \A n \in Nat : C[n] = IF n = 0 THEN <<>> ELSE Append(C[n \div 128], 128 + (n % 128))
  BY <1>4
<1> DEFINE Good == {n \in Nat : C[n] \in V}
<1>6. ASSUME NEW n \in Nat, \A m \in Nat : m < n => m \in Good PROVE n \in Good
  <2>1. CASE n = 0
    <3>1. C[n] = <<>> /\ <<>> \in V
      BY <1>5, <2>1
    <3> QED BY <3>1
  <2>2. CASE n # 0
    <3>1. n \div 128 \in Nat /\ n \div 128 < n /\ 128 + (n % 128) \in Byte
      BY <1>0, <1>1, <2>2
    <3>2. C[n] = Append(C[n \div 128], 128 + (n % 128)) /\ C[n \div 128] \in V
      BY <1>5, <1>6, <2>2, <3>1
    <3>3. \A s \in V, x \in Byte : Append(s, x) \in V
      OBVIOUS
    <3>4. C[n] \in V
      BY <3>1, <3>2, <3>3
    <3> QED BY <3>4
  <2> QED BY <2>1, <2>2
<1> HIDE DEF Good
<1>7. Nat \subseteq Good
  BY <1>6, SetInduction
<1>8. \A n \in Nat : C[n] \in V
  BY <1>7 DEF Good
<1> QED BY <1>5, <1>8 DEF C

\* A step of the loop of decodeObjectIdentifier, and all of it: what it has found
\* after each byte.
ReadOn(bytes, i, before) ==
  LET n == (128 * before.sum + (bytes[i] % 128)) % Words[Counter64Bytes]
  IN IF bytes[i] < 128 \/ i = Len(bytes)
     THEN [arcs |-> Append(before.arcs, n), sum |-> 0]
     ELSE [arcs |-> before.arcs, sum |-> n]

FirstRead(bytes) == [arcs |-> <<bytes[1] \div 40, bytes[1] % 40>>, sum |-> 0]

ReadUpTo(bytes) ==
  CHOOSE read : read = [i \in 1..Len(bytes) |->
    IF i = 1 THEN FirstRead(bytes) ELSE ReadOn(bytes, i, read[i - 1])]

ReadState == [arcs : Seq(Nat), sum : Nat]

\* decodeObjectIdentifier has a state after each byte, and ends with the last.
LEMMA ReadUpToDefined ==
  ASSUME NEW bytes \in Seq(Byte), Len(bytes) >= 1
  PROVE  /\ Arcs(bytes) = ReadUpTo(bytes)[Len(bytes)].arcs
         /\ ReadUpTo(bytes)[1] = FirstRead(bytes)
         /\ \A i \in 2..Len(bytes) :
              ReadUpTo(bytes)[i] = ReadOn(bytes, i, ReadUpTo(bytes)[i - 1])
         /\ \A i \in 1..Len(bytes) : ReadUpTo(bytes)[i] \in ReadState
<1> DEFINE D == 1..Len(bytes)
           V == ReadState
           Z == {1}
           b == [i \in D |-> FirstRead(bytes)]
           h == [i \in D |-> IF i = 1 THEN 1 ELSE i - 1]
           g == [i \in D |-> [s \in V |-> ReadOn(bytes, i, s)]]
           mu == [i \in D |-> i]
           R == ReadUpTo(bytes)
<1>0. /\ Len(bytes) \in Nat /\ \A i \in D : bytes[i] \in Nat
      /\ Words[Counter64Bytes] \in Nat /\ Words[Counter64Bytes] >= 1
  <2>1. \A i \in D : bytes[i] \in Byte
    OBVIOUS
  <2>2. \A i \in D : bytes[i] \in Nat
    BY <2>1, ByteIsNat
  <2>3. Words[Counter64Bytes] \in Nat /\ Words[Counter64Bytes] >= 1
    BY WordsDefined, WordsGrow, DecoderAssumption
  <2> QED BY <2>2, <2>3
<1>1. ASSUME NEW i \in D, NEW s \in V PROVE ReadOn(bytes, i, s) \in V
  <2>1. s.arcs \in Seq(Nat) /\ s.sum \in Nat
    BY DEF ReadState
  <2> DEFINE n == (128 * s.sum + (bytes[i] % 128)) % Words[Counter64Bytes]
  <2>2. n \in Nat
    <3>1. bytes[i] % 128 \in Nat
      BY <1>0
    <3>2. 128 * s.sum + (bytes[i] % 128) \in Nat
      BY <2>1, <3>1
    <3> QED BY <1>0, <3>2
  <2> HIDE DEF n
  <2>3. Append(s.arcs, n) \in Seq(Nat)
    BY <2>1, <2>2
  <2>4. /\ [arcs |-> Append(s.arcs, n), sum |-> 0] \in V
        /\ [arcs |-> s.arcs, sum |-> n] \in V
    BY <2>1, <2>2, <2>3 DEF ReadState
  <2> QED BY <2>4 DEF ReadOn, n
<1>2. FirstRead(bytes) \in V
  <2>1. bytes[1] \div 40 \in Nat /\ bytes[1] % 40 \in Nat
    BY <1>0, SMT
  <2> QED BY <2>1 DEF FirstRead, ReadState
<1> HIDE DEF V
<1>3. PICK f : Solves(f, D, V, Z, b, h, g)
  <2>1. h \in [D -> D] /\ mu \in [D -> Nat] /\ \A i \in D : i \notin Z => mu[h[i]] < mu[i]
    BY <1>0
  <2>2. b \in [D -> V] /\ g \in [D -> [V -> V]]
    <3> HIDE DEF D
    <3> QED BY <1>1, <1>2
  <2> HIDE DEF Z, b, h, g, mu, D
  <2>3. Recursion(D, V, Z, b, h, g, mu)
    BY <2>1, <2>2 DEF Recursion
  <2> QED BY <2>3, RecursionDefined
<1>4. f = [i \in D |-> IF i = 1 THEN FirstRead(bytes) ELSE ReadOn(bytes, i, f[i - 1])]
  <2>1. f = [i \in D |-> f[i]] /\ \A i \in D : f[i] \in V
    BY <1>3 DEF Solves
  <2>2. ASSUME NEW i \in D
        PROVE  f[i] = IF i = 1 THEN FirstRead(bytes) ELSE ReadOn(bytes, i, f[i - 1])
    <3>1. f[i] = IF i \in Z THEN b[i] ELSE g[i][f[h[i]]]
      BY <1>3 DEF Solves
    <3>2. CASE i = 1
      BY <3>1, <3>2
    <3>3. CASE i # 1
      <4>1. h[i] = i - 1 /\ i - 1 \in D
        BY <1>0, <3>3
      <4>2. f[i - 1] \in V
        BY <2>1, <4>1
      <4>3. g[i][f[i - 1]] = ReadOn(bytes, i, f[i - 1])
        BY <4>2
      <4> HIDE DEF g, h, D
      <4> QED BY <3>1, <3>3, <4>1, <4>3
    <3> QED BY <3>2, <3>3
  <2> HIDE DEF D
  <2> QED BY <2>1, <2>2, Zenon
<1>5. R = [i \in D |-> IF i = 1 THEN FirstRead(bytes) ELSE ReadOn(bytes, i, R[i - 1])]
  BY <1>4 DEF ReadUpTo
<1>6. Arcs(bytes) = R[Len(bytes)].arcs
  BY DEF Arcs, ReadUpTo, ReadOn, FirstRead
<1> HIDE DEF R
<1>7. R[1] = FirstRead(bytes) /\ \A i \in 2..Len(bytes) : R[i] = ReadOn(bytes, i, R[i - 1])
  BY <1>0, <1>5
<1> DEFINE Good == {i \in Nat : i \in D => R[i] \in V}
<1>8. ASSUME NEW n \in Nat, \A m \in Nat : m < n => m \in Good PROVE n \in Good
  <2>1. CASE n = 1
    BY <1>2, <1>7, <2>1
  <2>2. CASE n # 1 /\ n \in D
    <3>1. n - 1 \in Nat /\ n - 1 < n /\ n - 1 \in D /\ n \in 2..Len(bytes)
      BY <1>0, <2>2
    <3>2. R[n - 1] \in V
      BY <1>8, <3>1
    <3>3. R[n] \in V
      BY <1>1, <1>7, <2>2, <3>1, <3>2
    <3> QED BY <3>3
  <2> QED BY <2>1, <2>2
<1> HIDE DEF Good
<1>9. Nat \subseteq Good
  BY <1>8, SetInduction
<1>10. \A i \in D : R[i] \in V
  BY <1>0, <1>9 DEF Good
<1> QED BY <1>6, <1>7, <1>10 DEF R, V

\* What is left to read may be anything: the loop has read a number when it has
\* seen the bytes of it that continue.
LEMMA ContinuedRead ==
  ASSUME NEW bytes \in Seq(Byte), NEW p \in 1..Len(bytes), ReadUpTo(bytes)[p].sum = 0,
         NEW n \in Nat, n < Words[Counter64Bytes], Within(Sender!Continued[n], bytes, p),
         p + Len(Sender!Continued[n]) < Len(bytes)
  PROVE  /\ p + Len(Sender!Continued[n]) \in 1..Len(bytes)
         /\ ReadUpTo(bytes)[p + Len(Sender!Continued[n])]
              = [arcs |-> ReadUpTo(bytes)[p].arcs, sum |-> n]
<1> DEFINE R == ReadUpTo(bytes)
           C(k) == Sender!Continued[k]
           W == Words[Counter64Bytes]
           Reads(k) == k < W /\ Within(C(k), bytes, p) /\ p + Len(C(k)) < Len(bytes) =>
                         R[p + Len(C(k))] = [arcs |-> R[p].arcs, sum |-> k]
           Good == {k \in Nat : Reads(k)}
<1>0. Len(bytes) \in Nat /\ Len(bytes) >= 1 /\ p \in Nat /\ p >= 1 /\ W \in Nat
  <2>1. Counter64Bytes \in Nat
    BY DecoderAssumption
  <2>2. Len(bytes) \in Nat
    OBVIOUS
  <2>3. W \in Nat
    BY <2>1, WordsDefined
  <2> QED BY <2>2, <2>3
<1>1. R[p] \in ReadState /\ \A i \in 2..Len(bytes) : R[i] = ReadOn(bytes, i, R[i - 1])
  BY <1>0, ReadUpToDefined
<1>10. ASSUME NEW i \in Nat, NEW j \in Nat, j = i + 1, 1 <= i, j <= Len(bytes)
       PROVE  R[j] = ReadOn(bytes, j, R[i])
  <2>1. j \in 2..Len(bytes) /\ j - 1 = i
    BY <1>0, <1>10
  <2> QED BY <1>1, <2>1
<1> HIDE DEF R
<1>2. ASSUME NEW k \in Nat, \A j \in Nat : j < k => j \in Good PROVE k \in Good
  <2> SUFFICES ASSUME k < W, Within(C(k), bytes, p), p + Len(C(k)) < Len(bytes)
               PROVE  R[p + Len(C(k))] = [arcs |-> R[p].arcs, sum |-> k]
    OBVIOUS
  <2>1. CASE k = 0
    <3>1. C(k) = <<>>
      BY <2>1, ContinuedDefined
    <3>2. Len(C(k)) = 0
      BY <3>1
    <3>3. R[p] = [arcs |-> R[p].arcs, sum |-> 0]
      BY <1>1 DEF ReadState, R
    <3>4. p + Len(C(k)) = p
      BY <1>0, <3>2
    <3> QED BY <2>1, <3>3, <3>4
  <2>2. CASE k # 0
    <3> DEFINE q == k \div 128
               r == k % 128
               l == Len(C(q))
    <3>1. q \in Nat /\ r \in Nat /\ r < 128 /\ k = 128 * q + r /\ q < k /\ 128 + r \in Byte
      <4>1. /\ k \div 128 \in Nat /\ k % 128 \in Nat /\ k % 128 < 128
            /\ k = 128 * (k \div 128) + (k % 128) /\ 128 + (k % 128) \in Byte
        BY SevenBits, ZenonT(30)
      <4>2. k \div 128 < k
        BY <2>2, SevenBits, ZenonT(30)
      <4> QED BY <4>1, <4>2, ZenonT(30)
    <3>14. (128 + r) % 128 = r
      BY SevenBits, Zenon
    <3>2. C(k) = Append(C(q), 128 + r) /\ C(q) \in Seq(Byte)
      <4>1. C(k) = Append(C(q), 128 + r)
        BY <2>2, ContinuedDefined, Zenon
      <4>2. C(q) \in Seq(Byte)
        <5> HIDE DEF q
        <5> QED BY <3>1, ContinuedDefined
      <4> QED BY <4>1, <4>2
    <3>3. Reads(q)
      BY <1>2, <3>1
    <3> HIDE DEF q, r
    <3>4. /\ l \in Nat /\ Len(C(k)) = l + 1 /\ C(k)[l + 1] = 128 + r
          /\ \A i \in 1..l : C(k)[i] = C(q)[i]
      <4> DEFINE s == C(q)
      <4>1. s \in Seq(Byte) /\ C(k) = Append(s, 128 + r)
        BY <3>2
      <4> HIDE DEF s, C
      <4>2. ASSUME NEW x \in Byte
            PROVE  /\ Len(s) \in Nat /\ Len(Append(s, x)) = Len(s) + 1
                   /\ Append(s, x)[Len(s) + 1] = x
                   /\ \A i \in 1..Len(s) : Append(s, x)[i] = s[i]
        BY <4>1
      <4> DEFINE x == 128 + r
      <4> HIDE DEF x
      <4>3. x \in Byte /\ C(k) = Append(s, x)
        BY <3>1, <4>1 DEF x
      <4>4. /\ Len(s) \in Nat /\ Len(C(k)) = Len(s) + 1 /\ C(k)[Len(s) + 1] = x
            /\ \A i \in 1..Len(s) : C(k)[i] = s[i]
        BY <4>2, <4>3
      <4> QED BY <4>4 DEF s, x
    <3> HIDE DEF C, l
    <3>5. Within(C(q), bytes, p) /\ p + l < Len(bytes)
      <4>1. p + l < Len(bytes)
        BY <1>0, <3>4
      <4>2. \A i \in 1..l : bytes[p + i] = C(q)[i]
        BY <1>0, <3>4 DEF Within
      <4> QED BY <1>0, <3>4, <4>1, <4>2 DEF Within, l
    <3>6. R[p + l] = [arcs |-> R[p].arcs, sum |-> q]
      BY <1>0, <3>1, <3>3, <3>5 DEF l
    <3>7. bytes[p + l + 1] = 128 + r
      <4>1. l + 1 \in 1..Len(C(k)) /\ p + l + 1 = p + (l + 1)
        BY <1>0, <3>4
      <4>2. bytes[p + (l + 1)] = C(k)[l + 1]
        BY <4>1 DEF Within
      <4> QED BY <3>4, <4>1, <4>2
    <3>8. /\ p + l + 1 \in 2..Len(bytes) /\ p + l + 1 # Len(bytes)
          /\ p + l + 1 - 1 = p + l /\ p + Len(C(k)) = p + l + 1
      BY <1>0, <3>4
    <3>9. R[p + l + 1] = ReadOn(bytes, p + l + 1, R[p + l])
      <4>1. p + l \in Nat /\ p + l + 1 \in Nat /\ 1 <= p + l /\ p + l + 1 <= Len(bytes)
        BY <1>0, <3>4, <3>8
      <4> QED BY <1>10, <4>1
    <3> DEFINE m == (128 * R[p + l].sum + (bytes[p + l + 1] % 128)) % W
    <3>10. m = k
      <4>1. (128 + r) % 128 = r
        BY <3>14
      <4>2. 128 * q + r = k /\ k % W = k
        BY <1>0, <3>1, NoWrap
      <4>3. R[p + l].sum = q
        BY <3>6
      <4> QED BY <3>7, <4>1, <4>2, <4>3
    <3>11. ~(bytes[p + l + 1] < 128 \/ p + l + 1 = Len(bytes))
      BY <3>1, <3>7, <3>8
    <3>12. ReadOn(bytes, p + l + 1, R[p + l]) = [arcs |-> R[p + l].arcs, sum |-> m]
      BY <3>11 DEF ReadOn
    <3> HIDE DEF m
    <3>13. R[p + l].arcs = R[p].arcs
      BY <3>6
    <3> QED BY <3>8, <3>9, <3>10, <3>12, <3>13
  <2> QED BY <2>1, <2>2
<1>3. Reads(n)
  <2> HIDE DEF Good
  <2>1. Nat \subseteq Good
    BY <1>2, SetInduction
  <2>2. n \in Good
    BY <2>1
  <2> QED BY <2>2 DEF Good
<1>4. C(n) \in Seq(Byte)
  BY ContinuedDefined
<1>5. p + Len(C(n)) \in 1..Len(bytes)
  <2>1. Len(C(n)) \in Nat /\ p + Len(C(n)) < Len(bytes)
    BY <1>4
  <2> HIDE DEF C
  <2> QED BY <1>0, <2>1
<1> QED BY <1>3, <1>5 DEF R

\* An arc has at least one byte; one below 128 is its own.
LEMMA ArcBytesType ==
  ASSUME NEW n \in Nat
  PROVE  /\ Sender!ArcBytes(n) \in Seq(Byte) /\ Len(Sender!ArcBytes(n)) >= 1
         /\ Len(Sender!ArcBytes(n)) \in Nat
         /\ n < 128 => Sender!ArcBytes(n) = <<n>>
<1>1. n \div 128 \in Nat /\ n % 128 \in Byte
  BY SMT DEF Byte
<1>2. Sender!Continued[n \div 128] \in Seq(Byte)
  BY <1>1, ContinuedDefined
<1>3. \A s \in Seq(Byte), x \in Byte :
        Append(s, x) \in Seq(Byte) /\ Len(Append(s, x)) >= 1 /\ Len(Append(s, x)) \in Nat
  OBVIOUS
<1>4. /\ Sender!ArcBytes(n) \in Seq(Byte) /\ Len(Sender!ArcBytes(n)) >= 1
      /\ Len(Sender!ArcBytes(n)) \in Nat
  BY <1>1, <1>2, <1>3 DEF Sender!ArcBytes
<1>5. ASSUME n < 128 PROVE Sender!ArcBytes(n) = <<n>>
  <2>1. n \div 128 = 0 /\ n % 128 = n
    BY <1>5, SMT
  <2>2. Sender!Continued[0] = <<>>
    BY ContinuedDefined
  <2>3. Append(<<>>, n) = <<n>>
    OBVIOUS
  <2> QED BY <2>1, <2>2, <2>3 DEF Sender!ArcBytes
<1> QED BY <1>4, <1>5

\* An arc adds itself to the arcs that were found before it.
LEMMA ArcRead ==
  ASSUME NEW bytes \in Seq(Byte), NEW p \in 1..Len(bytes), ReadUpTo(bytes)[p].sum = 0,
         NEW n \in Unsigneds(Counter64Bytes), Within(Sender!ArcBytes(n), bytes, p)
  PROVE  ReadUpTo(bytes)[p + Len(Sender!ArcBytes(n))]
           = [arcs |-> Append(ReadUpTo(bytes)[p].arcs, n), sum |-> 0]
<1> DEFINE R == ReadUpTo(bytes)
           q == n \div 128
           r == n % 128
           C == Sender!Continued[q]
           l == Len(C)
           W == Words[Counter64Bytes]
<1>0. Len(bytes) \in Nat /\ Len(bytes) >= 1 /\ p \in Nat /\ p >= 1 /\ W \in Nat
  <2>1. Counter64Bytes \in Nat
    BY DecoderAssumption
  <2>2. Len(bytes) \in Nat
    OBVIOUS
  <2>3. W \in Nat
    BY <2>1, WordsDefined
  <2> QED BY <2>2, <2>3
<1>1. n \in Nat /\ n < W
  BY DEF Unsigneds
<1>2. q \in Nat /\ r \in Nat /\ r < 128 /\ n = 128 * q + r /\ q <= n /\ r \in Byte
  BY <1>1, SMT DEF Byte
<1>3. Sender!ArcBytes(n) = Append(C, r)
  BY DEF Sender!ArcBytes
<1> HIDE DEF q, r
<1>4. C \in Seq(Byte)
  BY <1>2, ContinuedDefined
<1> HIDE DEF C
<1> DEFINE A == Sender!ArcBytes(n)
<1>5. /\ l \in Nat /\ Len(A) = l + 1 /\ A[l + 1] = r
      /\ \A i \in 1..l : A[i] = C[i]
  BY <1>2, <1>3, <1>4
<1>6. \A i \in Nat : 1 <= i /\ i <= l + 1 => bytes[p + i] = A[i]
  BY <1>5 DEF Within
<1>7. p + (l + 1) <= Len(bytes)
  BY <1>5 DEF Within
<1> HIDE DEF A, l, W, R
<1>8. Within(C, bytes, p) /\ p + l < Len(bytes)
  <2>1. p + l < Len(bytes)
    BY <1>0, <1>5, <1>7
  <2>2. \A i \in 1..l : bytes[p + i] = C[i]
    BY <1>0, <1>5, <1>6
  <2> QED BY <1>0, <1>5, <2>1, <2>2 DEF Within, l
<1>9. R[p + l] = [arcs |-> R[p].arcs, sum |-> q]
  BY <1>0, <1>1, <1>2, <1>8, ContinuedRead DEF l, R, C, W
<1>10. bytes[p + l + 1] = r
  <2>1. l + 1 \in Nat /\ 1 <= l + 1 /\ p + l + 1 = p + (l + 1)
    BY <1>0, <1>5
  <2> QED BY <1>5, <1>6, <2>1
<1>11. p + l + 1 \in 2..Len(bytes) /\ p + l + 1 - 1 = p + l /\ p + Len(A) = p + l + 1
  BY <1>0, <1>5, <1>7
<1>12. R[p + l + 1] = ReadOn(bytes, p + l + 1, R[p + l])
  <2>1. \A i \in 2..Len(bytes) : R[i] = ReadOn(bytes, i, R[i - 1])
    BY <1>0, ReadUpToDefined DEF R
  <2> DEFINE i == p + l + 1
             j == p + l
  <2>2. i \in 2..Len(bytes) /\ i - 1 = j
    BY <1>0, <1>5, <1>7
  <2> HIDE DEF i, j
  <2>3. R[i] = ReadOn(bytes, i, R[j])
    BY <2>1, <2>2
  <2> QED BY <2>3 DEF i, j
<1> DEFINE m == (128 * R[p + l].sum + (bytes[p + l + 1] % 128)) % W
<1>13. m = n
  <2>1. r % 128 = r
    BY <1>2, SMT
  <2>2. 128 * q + r = n /\ n % W = n
    BY <1>0, <1>1, <1>2, NoWrap
  <2>3. R[p + l].sum = q
    BY <1>9
  <2> QED BY <1>10, <2>1, <2>2, <2>3
<1>14. bytes[p + l + 1] < 128
  BY <1>2, <1>10
<1>15. ReadOn(bytes, p + l + 1, R[p + l]) = [arcs |-> Append(R[p + l].arcs, m), sum |-> 0]
  BY <1>14 DEF ReadOn, W
<1> HIDE DEF m
<1>16. R[p + l].arcs = R[p].arcs
  BY <1>9
<1> QED BY <1>11, <1>12, <1>13, <1>15, <1>16 DEF A, R

\* The encodings of the arcs behind the first two.
LaterArcs(arcs) == [i \in 1..(Len(arcs) - 2) |-> Sender!ArcBytes(arcs[i + 2])]

\* What is known of a name that may be sent.
LEMMA NameTypes ==
  ASSUME NEW arcs \in Names
  PROVE  /\ arcs \in Seq(Nat) /\ Len(arcs) \in Nat /\ Len(arcs) >= 2
         /\ \A i \in 1..Len(arcs) : arcs[i] \in Unsigneds(Counter64Bytes)
         /\ arcs[1] \in Nat /\ arcs[2] \in Nat /\ arcs[2] < 40 /\ 40 * arcs[1] + arcs[2] < 128
         /\ LaterArcs(arcs) \in Seq(Seq(Byte)) /\ Len(LaterArcs(arcs)) = Len(arcs) - 2
         /\ \A i \in 1..(Len(arcs) - 2) :
              LaterArcs(arcs)[i] = Sender!ArcBytes(arcs[i + 2]) /\ i + 2 \in 1..Len(arcs)
<1> DEFINE U == Unsigneds(Counter64Bytes)
<1>1. arcs \in Seq(U) /\ Len(arcs) >= 2 /\ arcs[2] < 40 /\ 40 * arcs[1] + arcs[2] < 128
  BY DEF Names
<1>2. \A n \in U : n \in Nat
  BY DEF Unsigneds
<1> HIDE DEF U
<1>3. Len(arcs) \in Nat /\ \A i \in 1..Len(arcs) : arcs[i] \in U
  BY <1>1
<1>4. arcs = [i \in 1..Len(arcs) |-> arcs[i]]
  BY <1>1
<1>5. arcs \in Seq(Nat)
  <2>1. \A i \in 1..Len(arcs) : arcs[i] \in Nat
    BY <1>2, <1>3
  <2> QED BY <1>3, <1>4, <2>1
<1>6. 1 \in 1..Len(arcs) /\ 2 \in 1..Len(arcs)
  BY <1>1, <1>3
<1>7. \A i \in 1..(Len(arcs) - 2) : i + 2 \in 1..Len(arcs) /\ arcs[i + 2] \in Nat
  BY <1>1, <1>2, <1>3
<1>8. \A i \in 1..(Len(arcs) - 2) : Sender!ArcBytes(arcs[i + 2]) \in Seq(Byte)
  BY <1>7, ArcBytesType
<1>9. LaterArcs(arcs) \in Seq(Seq(Byte)) /\ Len(LaterArcs(arcs)) = Len(arcs) - 2
  <2>1. Len(arcs) - 2 \in Nat
    BY <1>1, <1>3
  <2> DEFINE N == Len(arcs) - 2
             f == LaterArcs(arcs)
  <2>2. f \in [1..N -> Seq(Byte)]
    BY <1>8 DEF LaterArcs
  <2> HIDE DEF N, f
  <2>3. f \in Seq(Seq(Byte)) /\ Len(f) = N
    BY <2>1, <2>2 DEF N
  <2> QED BY <2>3 DEF N, f
<1>10. \A i \in 1..(Len(arcs) - 2) : LaterArcs(arcs)[i] = Sender!ArcBytes(arcs[i + 2])
  BY DEF LaterArcs
<1>11. arcs[1] \in Nat /\ arcs[2] \in Nat
  BY <1>2, <1>3, <1>6
<1> QED BY <1>1, <1>3, <1>5, <1>7, <1>9, <1>10, <1>11 DEF U

\* An object identifier is decoded to its arcs.
LEMMA OIDDecoded ==
  ASSUME NEW arcs \in Names
  PROVE  /\ Sender!OIDBytes(arcs) \in Seq(Byte) /\ Len(Sender!OIDBytes(arcs)) >= 1
         /\ Arcs(Sender!OIDBytes(arcs)) = arcs
<1> DEFINE N == Len(arcs) - 2
           x == 40 * arcs[1] + arcs[2]
           F(k) == FlatUpTo(LaterArcs(arcs), Byte)[k]
           bytes == <<x>> \o F(N)
           R(i) == ReadUpTo(bytes)[i]
           P(k) == 1 + Len(F(k))
           Found(r, k) == /\ r.sum = 0 /\ r.arcs \in Seq(Nat) /\ Len(r.arcs) = k + 2
                          /\ \A i \in 1..(k + 2) : r.arcs[i] = arcs[i]
<1>0. /\ arcs \in Seq(Nat) /\ N \in Nat /\ Len(arcs) = N + 2
      /\ \A i \in 1..Len(arcs) : arcs[i] \in Unsigneds(Counter64Bytes)
      /\ arcs[1] \in Nat /\ arcs[2] \in Nat /\ arcs[2] < 40 /\ x < 128 /\ x \in Nat
      /\ LaterArcs(arcs) \in Seq(Seq(Byte)) /\ Len(LaterArcs(arcs)) = N
      /\ \A i \in 1..N : LaterArcs(arcs)[i] = Sender!ArcBytes(arcs[i + 2]) /\ i + 2 \in 1..Len(arcs)
  <2>1. Len(arcs) \in Nat /\ Len(arcs) >= 2
    BY NameTypes
  <2>2. N \in Nat /\ Len(arcs) = N + 2
    BY <2>1
  <2>3. arcs[1] \in Nat /\ arcs[2] \in Nat /\ arcs[2] < 40 /\ 40 * arcs[1] + arcs[2] < 128
    BY NameTypes
  <2>4. x \in Nat /\ x < 128
    BY <2>3
  <2> HIDE DEF x
  <2> QED BY <2>2, <2>3, <2>4, NameTypes
<1>12. /\ arcs[1] \in Nat /\ arcs[2] \in Nat /\ arcs[2] < 40
        /\ x = 40 * arcs[1] + arcs[2]
  BY <1>0
<1>1. Sender!OIDBytes(arcs) = bytes
  <2>1. Sender!ArcBytes(x) = <<x>>
    BY <1>0, ArcBytesType
  <2>2. Sender!FlattenSeq(LaterArcs(arcs)) = F(N)
    BY <1>0, FlattenDefined
  <2> HIDE DEF F
  <2> QED BY <2>1, <2>2 DEF Sender!OIDBytes, LaterArcs
<1>2. F(0) = <<>> /\ \A k \in 0..N : F(k) \in Seq(Byte)
  BY <1>0, FlattenDefined
<1>3. x \in Byte
  <2>1. x \in Nat /\ x < 128
    BY <1>0
  <2> HIDE DEF x
  <2> QED BY <2>1 DEF Byte
<1>4. ASSUME NEW k \in 1..N
      PROVE  /\ Len(F(k - 1)) \in Nat /\ Sender!ArcBytes(arcs[k + 2]) \in Seq(Byte)
             /\ Len(F(k)) = Len(F(k - 1)) + Len(Sender!ArcBytes(arcs[k + 2]))
             /\ Within(Sender!ArcBytes(arcs[k + 2]), F(N), Len(F(k - 1)))
  <2>1. N \in 0..Len(LaterArcs(arcs)) /\ k \in 1..N
    BY <1>0
  <2>2. LaterArcs(arcs)[k] = Sender!ArcBytes(arcs[k + 2])
    BY <1>0
  <2> HIDE DEF N
  <2> QED BY <1>0, <2>1, <2>2, FlattenParts
<1> HIDE DEF F, N, x
<1>5. /\ bytes \in Seq(Byte) /\ Len(bytes) = P(N) /\ Len(bytes) \in Nat /\ Len(bytes) >= 1
      /\ bytes[1] = x /\ Within(F(N), bytes, 1) /\ F(N) \in Seq(Byte)
  <2>1. F(N) \in Seq(Byte) /\ <<x>> \in Seq(Byte) /\ Len(<<x>>) = 1
    BY <1>0, <1>2, <1>3
  <2>2. /\ bytes \in Seq(Byte) /\ Len(bytes) = 1 + Len(F(N)) /\ Len(F(N)) \in Nat
        /\ Within(<<x>>, bytes, 0) /\ Within(F(N), bytes, 1)
    BY <2>1, WithinConcat
  <2>3. bytes[1] = x
    BY <2>1
  <2> HIDE DEF bytes
  <2> QED BY <2>1, <2>2, <2>3
<1>6. ASSUME NEW k \in 1..N
      PROVE  /\ Within(Sender!ArcBytes(arcs[k + 2]), bytes, P(k - 1))
             /\ P(k) = P(k - 1) + Len(Sender!ArcBytes(arcs[k + 2]))
             /\ P(k - 1) \in 1..Len(bytes)
  <2>1. Within(Sender!ArcBytes(arcs[k + 2]), bytes, 1 + Len(F(k - 1)))
    BY <1>4, <1>5, WithinWithin
  <2>2. /\ Len(Sender!ArcBytes(arcs[k + 2])) \in Nat
        /\ P(k - 1) + Len(Sender!ArcBytes(arcs[k + 2])) <= Len(bytes)
    BY <1>4, <2>1 DEF Within
  <2> HIDE DEF bytes
  <2> QED BY <1>4, <1>5, <2>1, <2>2
<1> HIDE DEF bytes, P, R
<1>7. ASSUME NEW k \in Nat PROVE k <= N => Found(R(P(k)), k)
  <2> DEFINE Good == {m \in Nat : m <= N => Found(R(P(m)), m)}
  <2>1. ASSUME NEW m \in Nat, \A j \in Nat : j < m => j \in Good PROVE m \in Good
    <3>1. CASE m = 0
      <4>1. P(m) = 1
        BY <1>2, <3>1 DEF P
      <4>2. R(1) = FirstRead(bytes)
        BY <1>5, ReadUpToDefined DEF R
      <4>3. x \div 40 = arcs[1] /\ x % 40 = arcs[2]
        <5> DEFINE a == arcs[1]
                   b == arcs[2]
        <5>1. a \in Nat /\ b \in Nat /\ b < 40 /\ x = 40 * a + b
          BY <1>12
        <5> HIDE DEF a, b
        <5>2. x \div 40 = a /\ x % 40 = b
          BY <5>1, SMT
        <5> QED BY <5>2 DEF a, b
      <4>4. R(1) = [arcs |-> <<arcs[1], arcs[2]>>, sum |-> 0]
        BY <1>5, <4>2, <4>3 DEF FirstRead
      <4>5. /\ R(1).sum = 0 /\ R(1).arcs = <<arcs[1], arcs[2]>>
        BY <4>4
      <4>6. Found(R(1), 0)
        <5> DEFINE u == <<arcs[1], arcs[2]>>
        <5>1. u \in Seq(Nat) /\ Len(u) = 0 + 2 /\ u[1] = arcs[1] /\ u[2] = arcs[2]
          BY <1>12
        <5>2. \A i \in 1..(0 + 2) : i = 1 \/ i = 2
          OBVIOUS
        <5> HIDE DEF u
        <5>3. R(1).sum = 0 /\ R(1).arcs = u
          BY <4>5 DEF u
        <5> QED BY <5>1, <5>2, <5>3
      <4> QED BY <3>1, <4>1, <4>6
    <3>2. CASE m # 0 /\ m <= N
      <4>1. m - 1 \in Nat /\ m - 1 < m /\ m - 1 <= N /\ m \in 1..N /\ m - 1 + 2 = m + 1
        BY <1>0, <3>2
      <4>2. Found(R(P(m - 1)), m - 1)
        BY <2>1, <4>1
      <4> DEFINE s == R(P(m - 1)).arcs
                 a == arcs[m + 2]
      <4>3. R(P(m)) = [arcs |-> Append(s, a), sum |-> 0]
        <5>1. m + 2 \in 1..Len(arcs)
          BY <1>0, <4>1
        <5>2. a \in Unsigneds(Counter64Bytes)
          BY <1>0, <5>1
        <5>3. R(P(m - 1) + Len(Sender!ArcBytes(a))) = [arcs |-> Append(s, a), sum |-> 0]
          BY <1>5, <1>6, <4>1, <4>2, <5>2, ArcRead DEF R
        <5> QED BY <1>6, <4>1, <5>3
      <4>4. a \in Nat
        <5>1. m + 2 \in 1..Len(arcs)
          BY <1>0, <4>1
        <5>2. a \in Unsigneds(Counter64Bytes)
          BY <1>0, <5>1
        <5> QED BY <5>2 DEF Unsigneds
      <4>5. s \in Seq(Nat) /\ Len(s) = m + 1 /\ \A i \in 1..(m + 1) : s[i] = arcs[i]
        BY <4>1, <4>2
      <4>6. R(P(m)).sum = 0 /\ R(P(m)).arcs = Append(s, a)
        BY <4>3
      <4> HIDE DEF s
      <4>7. /\ Append(s, a) \in Seq(Nat) /\ Len(Append(s, a)) = m + 2
            /\ \A i \in 1..(m + 1) : Append(s, a)[i] = arcs[i]
            /\ Append(s, a)[m + 2] = arcs[m + 2]
        BY <4>4, <4>5
      <4>8. \A i \in 1..(m + 2) : Append(s, a)[i] = arcs[i]
        BY <4>7
      <4> QED BY <4>6, <4>7, <4>8
    <3> QED BY <3>1, <3>2
  <2> HIDE DEF Good
  <2>2. Nat \subseteq Good
    BY <2>1, SetInduction
  <2> QED BY <2>2 DEF Good
<1>8. Found(R(Len(bytes)), N)
  <2>1. Found(R(P(N)), N)
    BY <1>0, <1>7
  <2> QED BY <1>5, <2>1
<1>9. Arcs(bytes) = R(Len(bytes)).arcs
  BY <1>5, ReadUpToDefined DEF R
<1> DEFINE t == R(Len(bytes)).arcs
<1>10. t \in Seq(Nat) /\ Len(t) = Len(arcs) /\ \A i \in 1..Len(t) : t[i] = arcs[i]
  BY <1>0, <1>8
<1> HIDE DEF t
<1>11. t = arcs
  BY <1>0, <1>10, SeqEqual
<1> QED BY <1>1, <1>5, <1>9, <1>11 DEF t

-----------------------------------------------------------------------------
(* Elements: one that lies at the offset is read as it was made.  Layout   *)
(* says where all the parts of an encoded message lie.                     *)

\* The bytes of an element before its content.
HeadOf(content, long) == 1 + Len(Sender!LengthOctets(Len(content), long))

\* A length takes one to three bytes.
LEMMA LengthOctetsType ==
  ASSUME NEW n \in Nat, NEW long \in BOOLEAN
  PROVE  /\ Sender!LengthOctets(n, long) \in Seq(Nat)
         /\ Len(Sender!LengthOctets(n, long)) \in 1..3
<1>1. n \div 256 \in Nat /\ n % 256 \in Nat
  BY SMT
<1>2. <<n>> \in Seq(Nat) /\ <<129, n>> \in Seq(Nat) /\ <<130, n \div 256, n % 256>> \in Seq(Nat)
  BY <1>1
<1>3. Len(<<n>>) = 1 /\ Len(<<129, n>>) = 2 /\ Len(<<130, n \div 256, n % 256>>) = 3
  OBVIOUS
<1>4. \/ Sender!LengthOctets(n, long) = <<n>> \/ Sender!LengthOctets(n, long) = <<129, n>>
      \/ Sender!LengthOctets(n, long) = <<130, n \div 256, n % 256>>
  BY DEF Sender!LengthOctets
<1> DEFINE L == Sender!LengthOctets(n, long)
           a == <<n>>
           b == <<129, n>>
           c == <<130, n \div 256, n % 256>>
<1>5. /\ a \in Seq(Nat) /\ b \in Seq(Nat) /\ c \in Seq(Nat)
      /\ Len(a) = 1 /\ Len(b) = 2 /\ Len(c) = 3 /\ (L = a \/ L = b \/ L = c)
  BY <1>2, <1>3, <1>4
<1> HIDE DEF L, a, b, c
<1>6. L \in Seq(Nat) /\ Len(L) \in 1..3
  BY <1>5
<1> QED BY <1>6 DEF L

\* An element is its tag, its length and its content.
LEMMA ElementType ==
  ASSUME NEW tag \in Nat, NEW c \in Seq(Nat), NEW long \in BOOLEAN
  PROVE  /\ Sender!Element(tag, c, long) \in Seq(Nat)
         /\ HeadOf(c, long) \in 2..4 /\ Len(c) \in Nat
         /\ Len(Sender!Element(tag, c, long)) = HeadOf(c, long) + Len(c)
         /\ Sender!Element(tag, c, long)[1] = tag
         /\ Within(Sender!LengthOctets(Len(c), long), Sender!Element(tag, c, long), 1)
         /\ Within(c, Sender!Element(tag, c, long), HeadOf(c, long))
<1> DEFINE L == Sender!LengthOctets(Len(c), long)
           t == <<tag>>
           h == t \o L
           e == h \o c
<1>1. Len(c) \in Nat
  OBVIOUS
<1>2. L \in Seq(Nat) /\ Len(L) \in 1..3
  BY <1>1, LengthOctetsType
<1>3. t \in Seq(Nat) /\ Len(t) = 1 /\ t[1] = tag
  OBVIOUS
<1>4. Sender!Element(tag, c, long) = e
  BY DEF Sender!Element
<1> HIDE DEF L, t
<1>5. h \in Seq(Nat) /\ Len(h) = 1 + Len(L) /\ Within(L, h, 1) /\ Within(t, h, 0)
  BY <1>2, <1>3, WithinConcat
<1> HIDE DEF h
<1>6. e \in Seq(Nat) /\ Len(e) = Len(h) + Len(c) /\ Within(h, e, 0) /\ Within(c, e, Len(h))
  BY <1>5, WithinConcat
<1> HIDE DEF e
<1>7. Within(L, e, 0 + 1) /\ Within(t, e, 0 + 0)
  BY <1>2, <1>3, <1>5, <1>6, WithinWithin
<1>8. e[1] = tag
  BY <1>3, <1>7 DEF Within
<1>9. HeadOf(c, long) = Len(h) /\ HeadOf(c, long) \in 2..4
  <2>1. HeadOf(c, long) = 1 + Len(L)
    BY DEF HeadOf, L
  <2>2. Len(L) \in 1..3 /\ Len(h) = 1 + Len(L)
    BY <1>2, <1>5
  <2>3. \A l \in 1..3 : 1 + l \in 2..4
    OBVIOUS
  <2> QED BY <2>1, <2>2, <2>3
<1> QED BY <1>1, <1>4, <1>6, <1>7, <1>8, <1>9 DEF L

\* The parser reads the bytes of a sequence where the sequence lies.
LEMMA ByteRead ==
  ASSUME data \in Seq(Nat), NEW s \in Seq(Nat), NEW o \in Nat, Within(s, data, o),
         NEW i \in 1..Len(s), NEW p, p = o + i - 1
  PROVE  ByteAt(p) = s[i] /\ Fits(o + i) /\ Size \in Nat
<1>1. Size \in Nat /\ Len(s) \in Nat
  BY DEF Size
<1>2. o + Len(s) <= Size /\ data[o + i] = s[i]
  BY DEF Within, Size
<1>3. p < Size /\ p + 1 = o + i /\ o + i <= Size
  BY <1>1, <1>2
<1> QED BY <1>1, <1>2, <1>3 DEF ByteAt, Fits

\* A length is read as the sender wrote it.
LEMMA LengthRead ==
  ASSUME data \in Seq(Nat), NEW n \in Nat, n < 65536, NEW long \in BOOLEAN, NEW o \in Nat,
         Within(Sender!LengthOctets(n, long), data, o)
  PROVE  /\ ReadLength(o).ok /\ ReadLength(o).len = n
         /\ ReadLength(o).next = o + Len(Sender!LengthOctets(n, long))
<1> DEFINE L == Sender!LengthOctets(n, long)
           hi == n \div 256
           lo == n % 256
<1>1. hi \in Nat /\ lo \in Nat /\ n = 256 * hi + lo
  BY SMT
<1>2. L \in Seq(Nat)
  BY LengthOctetsType
<1>3. LengthBytes \in 2..4
  BY DecoderAssumption
<1>4. \A i \in 1..Len(L) : ByteAt(o + i - 1) = L[i] /\ Fits(o + i)
  BY <1>2, ByteRead
<1> SUFFICES /\ ReadLength(o).ok /\ ReadLength(o).len = n
             /\ ReadLength(o).next = o + Len(L)
  OBVIOUS
<1>5. CASE L = <<n>> /\ n < 128
  <2>1. ByteAt(o) = n /\ Fits(o + 1) /\ Len(L) = 1
    <3>1. Len(L) = 1 /\ L[1] = n /\ 1 \in 1..Len(L) /\ o + 1 - 1 = o
      BY <1>5
    <3> HIDE DEF L
    <3> QED BY <1>4, <3>1
  <2>2. ReadLength(o) = [ok |-> TRUE, len |-> n, next |-> o + 1]
    BY <1>5, <2>1 DEF ReadLength
  <2> HIDE DEF L
  <2> QED BY <2>1, <2>2
<1>6. CASE L = <<129, n>> /\ n < 256
  <2>1. /\ ByteAt(o) = 129 /\ Fits(o + 1) /\ Len(L) = 2
        /\ ByteAt(o + 1) = n /\ Fits(o + 2)
    <3>1. /\ Len(L) = 2 /\ L[1] = 129 /\ L[2] = n /\ 1 \in 1..Len(L) /\ 2 \in 1..Len(L)
          /\ o + 1 - 1 = o /\ o + 2 - 1 = o + 1
      BY <1>6
    <3> HIDE DEF L
    <3> QED BY <1>4, <3>1
  <2>2. LongLength(o + 1, 1) = n
    BY <2>1 DEF LongLength
  <2>3. ReadLength(o) = [ok |-> TRUE, next |-> o + 1 + 1, len |-> LongLength(o + 1, 1)]
    <3>1. 129 - 128 = 1 /\ ~(129 < 128) /\ ~(1 = 0) /\ ~(1 > LengthBytes) /\ o + 1 + 1 = o + 2
      BY <1>3
    <3> QED BY <2>1, <3>1 DEF ReadLength
  <2> HIDE DEF L
  <2> QED BY <2>1, <2>2, <2>3
<1>7. CASE L = <<130, hi, lo>>
  <2>1. /\ ByteAt(o) = 130 /\ Fits(o + 1) /\ Len(L) = 3
        /\ ByteAt(o + 1) = hi /\ ByteAt(o + 2) = lo /\ Fits(o + 3)
    <3>1. /\ Len(L) = 3 /\ L[1] = 130 /\ L[2] = hi /\ L[3] = lo
          /\ 1 \in 1..Len(L) /\ 2 \in 1..Len(L) /\ 3 \in 1..Len(L)
          /\ o + 1 - 1 = o /\ o + 2 - 1 = o + 1 /\ o + 3 - 1 = o + 2
      BY <1>7
    <3> HIDE DEF L, hi, lo
    <3> QED BY <1>4, <3>1
  <2>2. LongLength(o + 1, 2) = n
    <3>1. o + 1 + 1 = o + 2
      OBVIOUS
    <3>2. LongLength(o + 1, 2) = (256 * ByteAt(o + 1)) + ByteAt(o + 2)
      BY <3>1 DEF LongLength
    <3> HIDE DEF L, hi, lo
    <3> QED BY <1>1, <2>1, <3>2
  <2>3. ReadLength(o) = [ok |-> TRUE, next |-> o + 1 + 2, len |-> LongLength(o + 1, 2)]
    <3>1. 130 - 128 = 2 /\ ~(130 < 128) /\ ~(2 = 0) /\ ~(2 > LengthBytes) /\ o + 1 + 2 = o + 3
      BY <1>3
    <3> HIDE DEF L, hi, lo
    <3> QED BY <2>1, <3>1 DEF ReadLength
  <2> HIDE DEF L, hi, lo
  <2> QED BY <2>1, <2>2, <2>3
<1>8. (L = <<n>> /\ n < 128) \/ (L = <<129, n>> /\ n < 256) \/ L = <<130, hi, lo>>
  BY DEF Sender!LengthOctets
<1> HIDE DEF L, hi, lo
<1> QED BY <1>5, <1>6, <1>7, <1>8

\* An element that lies at the offset is opened and complete, and its content is
\* the one it was made of.
LEMMA ElementRead ==
  ASSUME data \in Seq(Nat), NEW tag \in Nat, NEW c \in Seq(Nat), NEW long \in BOOLEAN,
         offset \in Nat, Len(c) < 65536, Within(Sender!Element(tag, c, long), data, offset)
  PROVE  /\ ByteAt(offset) = tag /\ Opens(tag) /\ Complete(tag)
         /\ Inside = offset + HeadOf(c, long)
         /\ Declared = offset + Len(Sender!Element(tag, c, long))
         /\ Octets(Content) = c /\ Width(Content) = Len(c)
<1> DEFINE e == Sender!Element(tag, c, long)
           L == Sender!LengthOctets(Len(c), long)
<1>1. /\ e \in Seq(Nat) /\ HeadOf(c, long) \in 2..4 /\ Len(c) \in Nat
      /\ Len(e) = HeadOf(c, long) + Len(c) /\ e[1] = tag
      /\ Within(L, e, 1) /\ Within(c, e, HeadOf(c, long))
  BY ElementType
<1>2. L \in Seq(Nat) /\ HeadOf(c, long) = 1 + Len(L) /\ Len(L) \in Nat
  BY <1>1, LengthOctetsType DEF HeadOf
<1>3. Within(L, data, offset + 1) /\ Within(c, data, offset + HeadOf(c, long))
  <2>1. HeadOf(c, long) \in Nat
    BY <1>1
  <2> HIDE DEF e, L
  <2>2. Within(e, data, offset)
    BY DEF e
  <2> QED BY <1>1, <1>2, <2>1, <2>2, WithinWithin
<1>4. ByteAt(offset) = tag /\ Fits(offset + 1) /\ Size \in Nat
  <2>1. 1 \in 1..Len(e) /\ offset = offset + 1 - 1
    BY <1>1
  <2>2. Within(e, data, offset)
    OBVIOUS
  <2> HIDE DEF e
  <2> QED BY <1>1, <2>1, <2>2, ByteRead
<1>5. /\ ReadLength(offset + 1).ok /\ ReadLength(offset + 1).len = Len(c)
      /\ ReadLength(offset + 1).next = offset + 1 + Len(L)
  BY <1>1, <1>3, LengthRead
<1> HIDE DEF e, L
<1>6. Inside = offset + HeadOf(c, long) /\ Declared = offset + HeadOf(c, long) + Len(c)
  <2> DEFINE h == HeadOf(c, long)
             l == Len(L)
             k == Len(c)
  <2>1. Inside = offset + 1 + l
    BY <1>5 DEF Inside
  <2>2. Declared = Inside + k
    BY <1>5 DEF Declared
  <2>3. h = 1 + l /\ l \in Nat /\ k \in Nat
    BY <1>1, <1>2
  <2> HIDE DEF h, l, k
  <2>4. Inside = offset + h /\ Declared = offset + h + k
    BY <2>1, <2>2, <2>3
  <2> QED BY <2>4 DEF h, k
<1>7. Opens(tag)
  BY <1>4, <1>5 DEF Opens
<1>8. Complete(tag)
  <2>1. offset + Len(e) <= Size
    BY DEF Within, Size, e
  <2>2. Declared <= Size
    BY <1>1, <1>6, <2>1
  <2> QED BY <1>7, <2>2 DEF Complete, Fits
<1>9. Width(Content) = Len(c)
  <2>1. Content.from = Inside /\ Content.to = Declared
    BY DEF Content
  <2> QED BY <1>1, <1>6, <2>1 DEF Width
<1>10. Octets(Content) = c
  <2> DEFINE o == offset + HeadOf(c, long)
  <2>1. o \in Nat /\ Content.from = o
    BY <1>1, <1>6 DEF Content
  <2> HIDE DEF o
  <2>2. Within(c, data, o)
    BY <1>3 DEF o
  <2>3. ASSUME NEW i \in 1..Len(c) PROVE ByteAt(Content.from + i - 1) = c[i]
    BY <2>1, <2>2, ByteRead
  <2>4. c = [i \in 1..Len(c) |-> c[i]]
    OBVIOUS
  <2> QED BY <1>9, <2>3, <2>4 DEF Octets
<1>11. offset + HeadOf(c, long) + Len(c) = offset + Len(e)
  BY <1>1
<1> QED BY <1>4, <1>6, <1>7, <1>8, <1>9, <1>10, <1>11 DEF e

\* What a varbind that may be sent looks like, by its type.
LEMMA VarbindKinds ==
  ASSUME NEW v \in Varbinds
  PROVE  /\ v.oid \in Names /\ v = [oid |-> v.oid, type |-> v.type, value |-> v.value]
         /\ \/ v.type = 2 /\ v.value \in Signeds(IntBytes)
            \/ v.type = 4 /\ v.value \in Seq(Byte)
            \/ v.type = 5 /\ v.value = <<>>
            \/ v.type = 6 /\ v.value \in Names
            \/ v.type = 64 /\ v.value \in Seq(Byte) /\ Len(v.value) = 4
            \/ v.type \in {65, 66, 67} /\ v.value \in Unsigneds(CounterBytes)
            \/ v.type = 70 /\ v.value \in Unsigneds(Counter64Bytes)
BY DEF Varbinds, tagInteger, tagOctetString, tagNull, tagObjectIdentifier, tagIPAddress,
       Unsigned32, tagCounter64

\* The content of a value is bytes, four of an address, and some of a name.
LEMMA ValueBytesType ==
  ASSUME NEW v \in Varbinds
  PROVE  /\ Sender!ValueBytes(v) \in Seq(Byte) /\ v.type \in Nat
         /\ v.type = tagIPAddress => Len(Sender!ValueBytes(v)) = 4
         /\ v.type = tagObjectIdentifier => Len(Sender!ValueBytes(v)) > 0
<1> USE DEF Sender!ValueBytes, tagIPAddress, tagObjectIdentifier
<1>1. CASE v.type = 2 /\ v.value \in Signeds(IntBytes)
  <2>1. v.value \in Int
    BY <1>1 DEF Signeds
  <2>2. Sender!ValueBytes(v) = Sender!IntegerBytes[v.value]
    BY <1>1
  <2>3. Sender!ValueBytes(v) \in Seq(Byte)
    BY <2>1, <2>2, IntegerBytesDefined
  <2> QED BY <1>1, <2>3
<1>2. CASE v.type = 4 /\ v.value \in Seq(Byte)
  BY <1>2
<1>3. CASE v.type = 5 /\ v.value = <<>>
  <2>1. Sender!ValueBytes(v) = <<>>
    BY <1>3
  <2>2. Sender!ValueBytes(v) \in Seq(Byte)
    BY <2>1, EmptySeq
  <2> QED BY <1>3, <2>2
<1>4. CASE v.type = 6 /\ v.value \in Names
  <2>1. Sender!ValueBytes(v) = Sender!OIDBytes(v.value)
    BY <1>4
  <2>2. Sender!ValueBytes(v) \in Seq(Byte) /\ Len(Sender!ValueBytes(v)) >= 1
    BY <1>4, <2>1, OIDDecoded
  <2>3. Len(Sender!ValueBytes(v)) \in Nat
    BY <2>2
  <2>4. Len(Sender!ValueBytes(v)) > 0
    <3> HIDE DEF Sender!ValueBytes
    <3> QED BY <2>2, <2>3
  <2> QED BY <1>4, <2>2, <2>4
<1>5. CASE v.type = 64 /\ v.value \in Seq(Byte) /\ Len(v.value) = 4
  BY <1>5
<1>6. CASE v.type \in {65, 66, 67} /\ v.value \in Unsigneds(CounterBytes)
  <2>1. v.value \in Int
    BY <1>6 DEF Unsigneds
  <2>2. Sender!ValueBytes(v) = Sender!IntegerBytes[v.value]
    BY <1>6
  <2>3. Sender!ValueBytes(v) \in Seq(Byte)
    BY <2>1, <2>2, IntegerBytesDefined
  <2> QED BY <1>6, <2>3
<1>7. CASE v.type = 70 /\ v.value \in Unsigneds(Counter64Bytes)
  <2>1. v.value \in Int
    BY <1>7 DEF Unsigneds
  <2>2. Sender!ValueBytes(v) = Sender!IntegerBytes[v.value]
    BY <1>7
  <2>3. Sender!ValueBytes(v) \in Seq(Byte)
    BY <2>1, <2>2, IntegerBytesDefined
  <2> QED BY <1>7, <2>3
<1> HIDE DEF Sender!ValueBytes
<1> QED BY <1>1, <1>2, <1>3, <1>4, <1>5, <1>6, <1>7, VarbindKinds

\* The value of each type is decoded to what was encoded.
LEMMA ValueDecoded ==
  ASSUME NEW v \in Varbinds, NEW w, w.type = v.type, Octets(w.value) = Sender!ValueBytes(v)
  PROVE  Value(w) = v.value
<1> USE DEF tagInteger, tagOctetString, tagNull, tagObjectIdentifier, tagIPAddress,
            Unsigned32, tagCounter64
<1>0. IntBytes \in Nat /\ IntBytes >= 1 /\ CounterBytes \in Nat /\ Counter64Bytes \in Nat
  BY DecoderAssumption
<1>1. CASE v.type = 2 /\ v.value \in Signeds(IntBytes)
  <2>1. Sender!ValueBytes(v) = Sender!IntegerBytes[v.value]
    BY <1>1 DEF Sender!ValueBytes
  <2>2. Value(w) = Signed(Sender!IntegerBytes[v.value], IntBytes)
    BY <1>1, <2>1 DEF Value, Integer
  <2> QED BY <1>0, <1>1, <2>2, SignedDecoded
<1>2. CASE v.type = 4 /\ v.value \in Seq(Byte)
  BY <1>2 DEF Value, Sender!ValueBytes
<1>3. CASE v.type = 5 /\ v.value = <<>>
  BY <1>3 DEF Value
<1>4. CASE v.type = 6 /\ v.value \in Names
  <2>1. Sender!ValueBytes(v) = Sender!OIDBytes(v.value)
    BY <1>4 DEF Sender!ValueBytes
  <2>2. Value(w) = Arcs(Sender!OIDBytes(v.value))
    BY <1>4, <2>1 DEF Value
  <2> QED BY <1>4, <2>2, OIDDecoded
<1>5. CASE v.type = 64 /\ v.value \in Seq(Byte) /\ Len(v.value) = 4
  BY <1>5 DEF Value, Sender!ValueBytes
<1>6. CASE v.type \in {65, 66, 67} /\ v.value \in Unsigneds(CounterBytes)
  <2>1. Sender!ValueBytes(v) = Sender!IntegerBytes[v.value]
    BY <1>6 DEF Sender!ValueBytes
  <2>2. Value(w) = Unsigned(Sender!IntegerBytes[v.value], CounterBytes)
    BY <1>6, <2>1 DEF Value
  <2> QED BY <1>0, <1>6, <2>2, UnsignedDecoded
<1>7. CASE v.type = 70 /\ v.value \in Unsigneds(Counter64Bytes)
  <2>1. Sender!ValueBytes(v) = Sender!IntegerBytes[v.value]
    BY <1>7 DEF Sender!ValueBytes
  <2>2. Value(w) = Unsigned(Sender!IntegerBytes[v.value], Counter64Bytes)
    BY <1>7, <2>1 DEF Value
  <2> QED BY <1>0, <1>7, <2>2, UnsignedDecoded
<1> QED BY <1>1, <1>2, <1>3, <1>4, <1>5, <1>6, <1>7, VarbindKinds

\* The encoding of m is no longer than a datagram can be.
Short(m, long) == Len(Sender!Encode(m, long)) < 65536

\* The contents of the constructed elements of a message.
VarbindContent(v, long) ==
  Sender!Element(6, Sender!OIDBytes(v.oid), long)
    \o Sender!Element(v.type, Sender!ValueBytes(v), long)
ListParts(m, long) ==
  [i \in DOMAIN m.varbinds |-> Sender!VarbindBytes(m.varbinds[i], long)]
ListContent(m, long) == Sender!FlattenSeq(ListParts(m, long))
PDUContent(m, long) ==
  Sender!Element(2, Sender!IntegerBytes[m.requestID], long)
    \o Sender!Element(2, Sender!IntegerBytes[m.errorStatus], long)
    \o Sender!Element(2, Sender!IntegerBytes[m.errorIndex], long)
    \o Sender!Element(48, ListContent(m, long), long)
MessageContent(m, long) ==
  Sender!Element(2, Sender!IntegerBytes[m.version], long)
    \o Sender!Element(4, m.community, long)
    \o Sender!Element(167, PDUContent(m, long), long)

\* An element that lies in the encoding of m at o, and where it ends.
Placed(tag, c, m, long, o) ==
  /\ o \in Nat /\ tag \in Nat /\ c \in Seq(Nat) /\ Len(c) < 65536
  /\ Within(Sender!Element(tag, c, long), Sender!Encode(m, long), o)
Past(tag, c, long, o) == o + Len(Sender!Element(tag, c, long))

\* The offsets at which the parser is to find the parts of an encoded message:
\* its fields, the varbinds (start[i] is the end of the first i) and their parts.
VarbindLayout(m, long, pos, i) ==
  /\ Placed(48, VarbindContent(m.varbinds[i], long), m, long, pos.start[i - 1])
  /\ pos.oid[i] = pos.start[i - 1] + HeadOf(VarbindContent(m.varbinds[i], long), long)
  /\ Placed(6, Sender!OIDBytes(m.varbinds[i].oid), m, long, pos.oid[i])
  /\ pos.value[i] = Past(6, Sender!OIDBytes(m.varbinds[i].oid), long, pos.oid[i])
  /\ Placed(m.varbinds[i].type, Sender!ValueBytes(m.varbinds[i]), m, long, pos.value[i])
  /\ pos.start[i] = Past(m.varbinds[i].type, Sender!ValueBytes(m.varbinds[i]), long,
                         pos.value[i])
  /\ pos.start[i - 1] < pos.start[Len(m.varbinds)]

IntegerLayout(n, m, long, from, to) ==
  /\ Placed(2, Sender!IntegerBytes[n], m, long, from)
  /\ to = Past(2, Sender!IntegerBytes[n], long, from)

Layout(m, long, pos) ==
  /\ Placed(48, MessageContent(m, long), m, long, 0)
  /\ pos.version = HeadOf(MessageContent(m, long), long)
  /\ IntegerLayout(m.version, m, long, pos.version, pos.community)
  /\ Placed(4, m.community, m, long, pos.community)
  /\ pos.pdu = Past(4, m.community, long, pos.community)
  /\ Placed(167, PDUContent(m, long), m, long, pos.pdu)
  /\ pos.requestID = pos.pdu + HeadOf(PDUContent(m, long), long)
  /\ IntegerLayout(m.requestID, m, long, pos.requestID, pos.errorStatus)
  /\ IntegerLayout(m.errorStatus, m, long, pos.errorStatus, pos.errorIndex)
  /\ IntegerLayout(m.errorIndex, m, long, pos.errorIndex, pos.list)
  /\ Placed(48, ListContent(m, long), m, long, pos.list)
  /\ pos.start[0] = pos.list + HeadOf(ListContent(m, long), long)
  /\ pos.start[Len(m.varbinds)] = Past(48, ListContent(m, long), long, pos.list)
  /\ \A i \in 1..Len(m.varbinds) : VarbindLayout(m, long, pos, i)

\* Bytes are natural numbers.
LEMMA BytesAreNats == ASSUME NEW s \in Seq(Byte) PROVE s \in Seq(Nat)
<1>1. Len(s) \in Nat /\ \A i \in 1..Len(s) : s[i] \in Byte
  OBVIOUS
<1>2. \A i \in 1..Len(s) : s[i] \in Nat
  BY <1>1, ByteIsNat
<1>3. s = [i \in 1..Len(s) |-> s[i]]
  OBVIOUS
<1> QED BY <1>1, <1>2, <1>3

\* Where two sequences lie one after the other, each of them lies.
LEMMA ConcatPlaced ==
  ASSUME NEW s \in Seq(Nat), NEW t \in Seq(Nat), NEW d \in Seq(Nat), NEW o \in Nat,
         Within(s \o t, d, o)
  PROVE  Within(s, d, o) /\ Within(t, d, o + Len(s)) /\ o + Len(s) \in Nat
<1> DEFINE u == s \o t
<1>1. /\ u \in Seq(Nat) /\ Len(s) \in Nat /\ Within(s, u, 0) /\ Within(t, u, Len(s))
  BY WithinConcat
<1>2. Within(u, d, o)
  OBVIOUS
<1> HIDE DEF u
<1>3. Within(s, d, o + 0) /\ Within(t, d, o + Len(s))
  BY <1>1, <1>2, WithinWithin
<1>4. o + 0 = o /\ o + Len(s) \in Nat
  BY <1>1
<1> QED BY <1>3, <1>4

\* Where an element lies in a datagram, its content lies behind its head.
LEMMA ElementPlaced ==
  ASSUME NEW tag \in Nat, NEW c \in Seq(Nat), NEW long \in BOOLEAN, NEW d \in Seq(Nat),
         Len(d) < 65536, NEW o \in Nat, Within(Sender!Element(tag, c, long), d, o)
  PROVE  /\ Within(c, d, o + HeadOf(c, long)) /\ o + HeadOf(c, long) \in Nat
         /\ Len(c) < 65536
<1> DEFINE e == Sender!Element(tag, c, long)
           h == HeadOf(c, long)
<1>1. /\ e \in Seq(Nat) /\ h \in 2..4 /\ Len(e) = h + Len(c) /\ Len(c) \in Nat
      /\ Within(c, e, h)
  BY ElementType
<1>2. Within(e, d, o)
  OBVIOUS
<1> HIDE DEF e, h
<1>3. h \in Nat /\ o + h \in Nat
  BY <1>1
<1>4. Within(c, d, o + h)
  BY <1>1, <1>2, <1>3, WithinWithin
<1>5. Len(c) < 65536
  <2>1. o + Len(e) <= Len(d) /\ Len(d) \in Nat
    BY <1>2 DEF Within
  <2> QED BY <1>1, <1>3, <2>1
<1> QED BY <1>3, <1>4, <1>5 DEF h

\* What is known of a trap that may be sent.
LEMMA TrapTypes ==
  ASSUME NEW m \in Traps
  PROVE  /\ m.version \in Signeds(IntBytes) /\ m.requestID \in Signeds(RequestBytes)
         /\ m.errorStatus \in Signeds(IntBytes) /\ m.errorIndex \in Signeds(IntBytes)
         /\ m.community \in Seq(Byte) /\ m.varbinds \in Seq(Varbinds)
         /\ Len(m.varbinds) \in Nat /\ DOMAIN m.varbinds = 1..Len(m.varbinds)
         /\ \A i \in 1..Len(m.varbinds) : m.varbinds[i] \in Varbinds
         /\ m = [version |-> m.version, community |-> m.community,
                 requestID |-> m.requestID, errorStatus |-> m.errorStatus,
                 errorIndex |-> m.errorIndex, varbinds |-> m.varbinds]
<1> DEFINE S == Signeds(IntBytes)
           R == Signeds(RequestBytes)
           V == Varbinds
<1>1. m \in [version : S, community : Seq(Byte), requestID : R, errorStatus : S,
             errorIndex : S, varbinds : Seq(V)]
  BY DEF Traps
<1> HIDE DEF S, R, V
<1>2. /\ m.version \in S /\ m.requestID \in R /\ m.errorStatus \in S /\ m.errorIndex \in S
      /\ m.community \in Seq(Byte) /\ m.varbinds \in Seq(V)
  BY <1>1
<1>3. m = [version |-> m.version, community |-> m.community,
           requestID |-> m.requestID, errorStatus |-> m.errorStatus,
           errorIndex |-> m.errorIndex, varbinds |-> m.varbinds]
  BY <1>1
<1>4. /\ Len(m.varbinds) \in Nat /\ DOMAIN m.varbinds = 1..Len(m.varbinds)
      /\ \A i \in 1..Len(m.varbinds) : m.varbinds[i] \in V
  BY <1>2
<1> QED BY <1>2, <1>3, <1>4 DEF S, R, V

\* The octets of an integer are natural numbers.
LEMMA IntegerContent ==
  ASSUME NEW w, NEW n \in Signeds(w)
  PROVE  Sender!IntegerBytes[n] \in Seq(Nat)
<1>1. n \in Int
  BY DEF Signeds
<1> QED BY <1>1, IntegerBytesDefined, BytesAreNats

\* Sequences of natural numbers are closed under concatenation.
LEMMA ConcatNats ==
  \A s \in Seq(Nat), t \in Seq(Nat) : s \o t \in Seq(Nat)
BY ConcatProperties

\* A varbind is an element of its name and its value.
LEMMA VarbindContents ==
  ASSUME NEW v \in Varbinds, NEW long \in BOOLEAN
  PROVE  /\ v.type \in Nat
         /\ Sender!OIDBytes(v.oid) \in Seq(Nat) /\ Sender!ValueBytes(v) \in Seq(Nat)
         /\ VarbindContent(v, long) \in Seq(Nat)
         /\ Sender!VarbindBytes(v, long) = Sender!Element(48, VarbindContent(v, long), long)
         /\ Sender!VarbindBytes(v, long) \in Seq(Nat)
<1>1. v.type \in Nat /\ Sender!ValueBytes(v) \in Seq(Nat)
  BY ValueBytesType, BytesAreNats
<1>2. Sender!OIDBytes(v.oid) \in Seq(Nat)
  BY VarbindKinds, OIDDecoded, BytesAreNats
<1>3. VarbindContent(v, long) \in Seq(Nat)
  <2> DEFINE s == Sender!Element(6, Sender!OIDBytes(v.oid), long)
             t == Sender!Element(v.type, Sender!ValueBytes(v), long)
  <2>1. s \in Seq(Nat) /\ t \in Seq(Nat)
    BY <1>1, <1>2, ElementType
  <2>2. VarbindContent(v, long) = s \o t
    BY DEF VarbindContent
  <2> HIDE DEF s, t
  <2> QED BY <2>1, <2>2, ConcatNats
<1>4. Sender!VarbindBytes(v, long) = Sender!Element(48, VarbindContent(v, long), long)
  BY DEF Sender!VarbindBytes, VarbindContent
<1> QED BY <1>1, <1>2, <1>3, <1>4, ElementType

\* The varbind list is the varbinds one after the other.
LEMMA ListContents ==
  ASSUME NEW m \in Traps, NEW long \in BOOLEAN
  PROVE  /\ ListParts(m, long) \in Seq(Seq(Nat))
         /\ Len(ListParts(m, long)) = Len(m.varbinds)
         /\ \A i \in 1..Len(m.varbinds) :
              ListParts(m, long)[i]
                = Sender!Element(48, VarbindContent(m.varbinds[i], long), long)
         /\ ListContent(m, long) = FlatUpTo(ListParts(m, long), Nat)[Len(m.varbinds)]
         /\ ListContent(m, long) \in Seq(Nat)
<1> DEFINE n == Len(m.varbinds)
           p == ListParts(m, long)
<1>1. n \in Nat /\ DOMAIN m.varbinds = 1..n /\ \A i \in 1..n : m.varbinds[i] \in Varbinds
  BY TrapTypes
<1>2. p = [i \in 1..n |-> Sender!VarbindBytes(m.varbinds[i], long)]
  BY <1>1 DEF ListParts
<1>3. \A i \in 1..n : /\ Sender!VarbindBytes(m.varbinds[i], long) \in Seq(Nat)
                      /\ Sender!VarbindBytes(m.varbinds[i], long)
                           = Sender!Element(48, VarbindContent(m.varbinds[i], long), long)
  BY <1>1, VarbindContents
<1> HIDE DEF n, p
<1>4. p \in [1..n -> Seq(Nat)]
  BY <1>2, <1>3
<1>5. p \in Seq(Seq(Nat)) /\ Len(p) = n
  BY <1>1, <1>4
<1>6. /\ FlatUpTo(p, Nat) \in [0..Len(p) -> Seq(Nat)]
      /\ Sender!FlattenSeq(p) = FlatUpTo(p, Nat)[Len(p)]
  BY <1>5, FlattenDefined
<1>7. ListContent(m, long) = FlatUpTo(p, Nat)[n] /\ ListContent(m, long) \in Seq(Nat)
  <2>1. n \in 0..Len(p)
    BY <1>1, <1>5
  <2> QED BY <1>5, <1>6, <2>1 DEF ListContent, p
<1>8. \A i \in 1..n : p[i] = Sender!Element(48, VarbindContent(m.varbinds[i], long), long)
  BY <1>2, <1>3
<1> QED BY <1>5, <1>7, <1>8 DEF n, p

\* A message is one element, and so is its PDU.
LEMMA MessageContents ==
  ASSUME NEW m \in Traps, NEW long \in BOOLEAN
  PROVE  /\ PDUContent(m, long) \in Seq(Nat) /\ MessageContent(m, long) \in Seq(Nat)
         /\ Sender!Encode(m, long) = Sender!Element(48, MessageContent(m, long), long)
         /\ Sender!Encode(m, long) \in Seq(Nat)
<1> DEFINE E(n) == Sender!Element(2, Sender!IntegerBytes[n], long)
           L == Sender!Element(48, ListContent(m, long), long)
           C == Sender!Element(4, m.community, long)
           P == Sender!Element(167, PDUContent(m, long), long)
<1>1. /\ E(m.version) \in Seq(Nat) /\ E(m.requestID) \in Seq(Nat)
      /\ E(m.errorStatus) \in Seq(Nat) /\ E(m.errorIndex) \in Seq(Nat)
  BY TrapTypes, IntegerContent, ElementType
<1>2. L \in Seq(Nat) /\ C \in Seq(Nat)
  <2>1. m.community \in Seq(Nat)
    BY TrapTypes, BytesAreNats
  <2> QED BY <2>1, ListContents, ElementType
<1>3. PDUContent(m, long) \in Seq(Nat)
  <2>1. PDUContent(m, long) = E(m.requestID) \o E(m.errorStatus) \o E(m.errorIndex) \o L
    BY DEF PDUContent
  <2> HIDE DEF E, L
  <2> QED BY <1>1, <1>2, <2>1, ConcatNats
<1>4. P \in Seq(Nat)
  BY <1>3, ElementType
<1>5. MessageContent(m, long) \in Seq(Nat)
  <2>1. MessageContent(m, long) = E(m.version) \o C \o P
    BY DEF MessageContent
  <2> HIDE DEF E, C, P
  <2> QED BY <1>1, <1>2, <1>4, <2>1, ConcatNats
<1>6. Sender!Encode(m, long) = Sender!Element(48, MessageContent(m, long), long)
  BY DEF Sender!Encode, MessageContent, PDUContent, ListContent, ListParts
<1> QED BY <1>3, <1>5, <1>6, ElementType

\* An element that lies in a short encoding is placed there, and its content too.
LEMMA IsPlaced ==
  ASSUME NEW m \in Traps, NEW long \in BOOLEAN, Short(m, long),
         NEW tag \in Nat, NEW c \in Seq(Nat), NEW o \in Nat,
         Within(Sender!Element(tag, c, long), Sender!Encode(m, long), o)
  PROVE  /\ Placed(tag, c, m, long, o) /\ Past(tag, c, long, o) \in Nat
         /\ o + HeadOf(c, long) \in Nat
         /\ Within(c, Sender!Encode(m, long), o + HeadOf(c, long))
         /\ Past(tag, c, long, o) = o + HeadOf(c, long) + Len(c)
         /\ Len(c) \in Nat /\ HeadOf(c, long) \in Nat /\ HeadOf(c, long) >= 2
<1> DEFINE d == Sender!Encode(m, long)
           h == HeadOf(c, long)
           e == Sender!Element(tag, c, long)
<1>1. d \in Seq(Nat)
  BY MessageContents
<1>2. e \in Seq(Nat) /\ h \in 2..4 /\ Len(c) \in Nat /\ Len(e) = h + Len(c)
  BY ElementType
<1>3. Len(d) < 65536 /\ Within(e, d, o)
  BY SMT DEF Short
<1> HIDE DEF d
<1>4. Within(c, d, o + h) /\ o + h \in Nat /\ Len(c) < 65536
  BY <1>1, <1>3, ElementPlaced
<1>5. Placed(tag, c, m, long, o)
  BY <1>4 DEF Placed
<1> HIDE DEF h, e
<1>6. Past(tag, c, long, o) = o + h + Len(c) /\ Past(tag, c, long, o) \in Nat
  <2>1. Past(tag, c, long, o) = o + Len(e)
    BY DEF Past, e
  <2>2. Len(e) = h + Len(c) /\ h \in Nat /\ Len(c) \in Nat
    BY <1>2
  <2> QED BY <2>1, <2>2
<1>7. h \in Nat /\ h >= 2
  BY <1>2
<1> QED BY <1>2, <1>4, <1>5, <1>6, <1>7 DEF d, h

\* Where the varbinds and their parts lie in the list.
PlacesOfVarbinds(m, long, pos) ==
  /\ \A i \in 0..Len(m.varbinds) :
       pos.start[i] = pos.list + HeadOf(ListContent(m, long), long)
                        + Len(FlatUpTo(ListParts(m, long), Nat)[i])
  /\ \A i \in 1..Len(m.varbinds) :
       /\ pos.oid[i] = pos.start[i - 1] + HeadOf(VarbindContent(m.varbinds[i], long), long)
       /\ pos.value[i] = Past(6, Sender!OIDBytes(m.varbinds[i].oid), long, pos.oid[i])

\* Every varbind of the list has its place, before the end of the list.
LEMMA VarbindsPlaced ==
  ASSUME NEW m \in Traps, NEW long \in BOOLEAN, Short(m, long),
         NEW pos, pos.list \in Nat, PlacesOfVarbinds(m, long, pos),
         Within(Sender!Element(48, ListContent(m, long), long), Sender!Encode(m, long), pos.list)
  PROVE  /\ Placed(48, ListContent(m, long), m, long, pos.list)
         /\ pos.start[0] = pos.list + HeadOf(ListContent(m, long), long)
         /\ pos.start[Len(m.varbinds)] = Past(48, ListContent(m, long), long, pos.list)
         /\ \A i \in 1..Len(m.varbinds) : VarbindLayout(m, long, pos, i)
<1> DEFINE n == Len(m.varbinds)
           d == Sender!Encode(m, long)
           p == ListParts(m, long)
           c == ListContent(m, long)
           h == HeadOf(c, long)
           F(i) == FlatUpTo(p, Nat)[i]
           start(i) == pos.start[i]
           b == pos.list + h
<1>0. p \in Seq(Seq(Nat)) /\ Len(p) = n
  BY ListContents
<1>1. /\ n \in Nat /\ d \in Seq(Nat)
      /\ c = F(n) /\ c \in Seq(Nat)
      /\ \A i \in 1..n : p[i] = Sender!Element(48, VarbindContent(m.varbinds[i], long), long)
      /\ \A i \in 1..n : m.varbinds[i] \in Varbinds
  BY TrapTypes, MessageContents, ListContents
<1>2. /\ Placed(48, c, m, long, pos.list) /\ b \in Nat /\ Within(c, d, b)
      /\ Past(48, c, long, pos.list) = b + Len(c)
  BY <1>1, IsPlaced
<1>3. F(0) = <<>>
  <2>1. p \in Seq(Seq(Nat))
    BY <1>0
  <2> HIDE DEF p
  <2> QED BY <2>1, FlattenDefined, Zenon
<1>4. \A i \in 0..n : start(i) = b + Len(F(i))
  BY Zenon DEF PlacesOfVarbinds
<1>5. ASSUME NEW i \in 1..n
      PROVE  /\ p[i] \in Seq(Nat) /\ Len(F(i - 1)) \in Nat
             /\ Len(F(i)) = Len(F(i - 1)) + Len(p[i])
             /\ Within(p[i], c, Len(F(i - 1)))
  <2>1. n \in 0..Len(p) /\ i \in 1..n /\ p \in Seq(Seq(Nat)) /\ c = F(n)
    BY <1>0, <1>1
  <2> HIDE DEF n, p, c
  <2>2. /\ p[i] \in Seq(Nat) /\ Len(F(i - 1)) \in Nat
        /\ Len(F(i)) = Len(F(i - 1)) + Len(p[i])
        /\ Within(p[i], F(n), Len(F(i - 1)))
    BY <2>1, FlattenParts, Zenon
  <2> HIDE DEF F
  <2> QED BY <2>1, <2>2, Zenon
<1>6. \A i \in 1..n :
        /\ pos.oid[i] = start(i - 1) + HeadOf(VarbindContent(m.varbinds[i], long), long)
        /\ pos.value[i] = Past(6, Sender!OIDBytes(m.varbinds[i].oid), long, pos.oid[i])
  BY Zenon DEF PlacesOfVarbinds
<1> HIDE DEF n, d, p, c, h, F, b
<1>7. start(0) = b /\ start(n) = b + Len(c)
  <2>1. 0 \in 0..n /\ n \in 0..n /\ Len(F(0)) = 0 /\ b + 0 = b
    BY <1>1, <1>2, <1>3
  <2>2. c = F(n)
    BY <1>1
  <2> HIDE DEF start
  <2> QED BY <1>4, <2>1, <2>2, Zenon
<1>8. ASSUME NEW i \in 1..n PROVE VarbindLayout(m, long, pos, i)
  <2> DEFINE v == m.varbinds[i]
             vc == VarbindContent(v, long)
             s == start(i - 1)
             q == pos.oid[i]
             r == pos.value[i]
             ob == Sender!OIDBytes(v.oid)
             vb == Sender!ValueBytes(v)
             e6 == Sender!Element(6, ob, long)
             ev == Sender!Element(v.type, vb, long)
  <2>16. /\ p[i] \in Seq(Nat) /\ Len(F(i - 1)) \in Nat
          /\ Len(F(i)) = Len(F(i - 1)) + Len(p[i])
          /\ Within(p[i], c, Len(F(i - 1)))
    BY <1>5, Zenon
  <2>1. /\ v \in Varbinds /\ v.type \in Nat /\ ob \in Seq(Nat) /\ vb \in Seq(Nat)
        /\ vc \in Seq(Nat) /\ p[i] = Sender!Element(48, vc, long)
    BY <1>1, VarbindContents
  <2>2. /\ i - 1 \in 0..n /\ i \in 0..n
    BY <1>1
  <2>3. /\ s = b + Len(F(i - 1)) /\ s \in Nat /\ start(i) = s + Len(p[i]) /\ Len(p[i]) \in Nat
    <3>1. s = b + Len(F(i - 1)) /\ start(i) = b + Len(F(i))
      BY <1>4, <2>2
    <3>2. Len(p[i]) \in Nat
      <4>1. p[i] \in Seq(Nat)
        BY <2>16
      <4> QED BY <4>1
    <3>3. Len(F(i)) = Len(F(i - 1)) + Len(p[i]) /\ Len(F(i - 1)) \in Nat
      BY <2>16
    <3>4. b \in Nat
      BY <1>2
    <3> DEFINE lf == Len(F(i - 1))
               lp == Len(p[i])
               li == Len(F(i))
               si == start(i)
    <3>5. /\ s = b + lf /\ si = b + li /\ lp \in Nat /\ lf \in Nat /\ li = lf + lp
          /\ b \in Nat
      BY <3>1, <3>2, <3>3, <3>4, Zenon
    <3> HIDE DEF s, lf, lp, li, si
    <3>6. s = b + lf /\ s \in Nat /\ si = s + lp /\ lp \in Nat
      BY <3>5
    <3> QED BY <3>6 DEF lf, lp, si
  <2>4. q = s + HeadOf(vc, long) /\ r = Past(6, ob, long, q)
    BY <1>6
  <2> HIDE DEF v, vc, s, q, r, ob, vb
  <2>5. Within(p[i], d, s)
    BY <1>1, <1>2, <2>16, <2>3, WithinWithin
  <2>6. /\ Placed(48, vc, m, long, s) /\ q \in Nat /\ Within(vc, d, q)
        /\ Past(48, vc, long, s) = q + Len(vc) /\ HeadOf(vc, long) >= 2
        /\ HeadOf(vc, long) \in Nat /\ Len(vc) \in Nat
    BY <2>1, <2>3, <2>4, <2>5, IsPlaced DEF d
  <2>7. e6 \in Seq(Nat) /\ ev \in Seq(Nat)
    <3>1. 6 \in Nat /\ v.type \in Nat /\ ob \in Seq(Nat) /\ vb \in Seq(Nat)
      BY <2>1
    <3> QED BY <3>1, ElementType, Zenon
  <2>8. vc = e6 \o ev
    BY DEF vc, VarbindContent, ob, vb
  <2>9. Within(e6, d, q) /\ Within(ev, d, q + Len(e6)) /\ q + Len(e6) \in Nat
    <3> HIDE DEF e6, ev
    <3> QED BY <1>1, <2>6, <2>7, <2>8, ConcatPlaced
  <2>10. r = q + Len(e6)
    BY <2>4 DEF Past
  <2>11. Placed(6, ob, m, long, q)
    BY <2>1, <2>6, <2>9, IsPlaced DEF d
  <2>12. Placed(v.type, vb, m, long, r)
    BY <2>1, <2>9, <2>10, IsPlaced DEF d
  <2>13. Len(p[i]) = HeadOf(vc, long) + Len(vc) /\ Len(vc) = Len(e6) + Len(ev)
    <3>1. Len(p[i]) = HeadOf(vc, long) + Len(vc)
      BY <2>1, ElementType
    <3> HIDE DEF e6, ev
    <3>2. Len(vc) = Len(e6) + Len(ev)
      BY <2>7, <2>8, WithinConcat
    <3> QED BY <3>1, <3>2
  <2>14. start(i) = Past(v.type, vb, long, r)
    <3>1. Past(v.type, vb, long, r) = r + Len(ev)
      BY DEF Past
    <3>2. Len(e6) \in Nat /\ Len(ev) \in Nat
      BY <2>7
    <3> HIDE DEF e6, ev
    <3>3. start(i) = s + (HeadOf(vc, long) + (Len(e6) + Len(ev)))
      BY <2>3, <2>13
    <3>4. r = s + HeadOf(vc, long) + Len(e6)
      BY <2>4, <2>10
    <3>5. s \in Nat /\ HeadOf(vc, long) \in Nat
      BY <2>3, <2>6
    <3> QED BY <3>1, <3>2, <3>3, <3>4, <3>5
  <2>15. s < start(n)
    <3>1. Len(F(i - 1)) + Len(p[i]) <= Len(c)
      <4>1. Within(p[i], c, Len(F(i - 1)))
        BY <2>16
      <4> QED BY <4>1, Zenon DEF Within
    <3>2. Len(c) \in Nat /\ Len(F(i - 1)) \in Nat
      BY <1>1, <2>16
    <3>3. s = b + Len(F(i - 1)) /\ start(n) = b + Len(c) /\ b \in Nat
      BY <1>2, <1>7, <2>3
    <3>4. Len(p[i]) >= 2 /\ Len(p[i]) \in Nat
      BY <2>3, <2>6, <2>13
    <3> DEFINE lf == Len(F(i - 1))
               lp == Len(p[i])
               lc == Len(c)
               sn == start(n)
    <3>5. /\ s = b + lf /\ sn = b + lc /\ lp \in Nat /\ lp >= 2 /\ lf \in Nat /\ lc \in Nat
          /\ lf + lp <= lc /\ b \in Nat
      BY <3>1, <3>2, <3>3, <3>4, Zenon
    <3> HIDE DEF lf, lp, lc, sn
    <3>6. s < sn
      BY <3>5
    <3> QED BY <3>6 DEF sn
  <2> QED BY <2>4, <2>6, <2>11, <2>12, <2>14, <2>15
          DEF VarbindLayout, v, vc, s, q, r, ob, vb, n
<1> QED BY <1>2, <1>7, <1>8 DEF b, c, h, n

\* A header field has its place.
LEMMA IntegerPlaced ==
  ASSUME NEW m \in Traps, NEW long \in BOOLEAN, Short(m, long), NEW w, NEW n \in Signeds(w),
         NEW o \in Nat, NEW to, to = Past(2, Sender!IntegerBytes[n], long, o),
         Within(Sender!Element(2, Sender!IntegerBytes[n], long), Sender!Encode(m, long), o)
  PROVE  IntegerLayout(n, m, long, o, to) /\ to \in Nat
<1>1. Sender!IntegerBytes[n] \in Seq(Nat)
  BY IntegerContent
<1>2. /\ Placed(2, Sender!IntegerBytes[n], m, long, o)
      /\ Past(2, Sender!IntegerBytes[n], long, o) \in Nat
  BY <1>1, IsPlaced
<1> QED BY <1>2 DEF IntegerLayout

\* Every part of a message has its place in the encoding.
LEMMA LayoutExists ==
  ASSUME NEW m \in Traps, NEW long \in BOOLEAN, Short(m, long)
  PROVE  \E pos : Layout(m, long, pos)
<1> DEFINE d == Sender!Encode(m, long)
           I(n) == Sender!IntegerBytes[n]
           E(n) == Sender!Element(2, I(n), long)
           lc == ListContent(m, long)
           pc == PDUContent(m, long)
           mc == MessageContent(m, long)
           L == Sender!Element(48, lc, long)
           C == Sender!Element(4, m.community, long)
           P == Sender!Element(167, pc, long)
           version == 0 + HeadOf(mc, long)
           community == Past(2, I(m.version), long, version)
           pdu == Past(4, m.community, long, community)
           requestID == pdu + HeadOf(pc, long)
           errorStatus == Past(2, I(m.requestID), long, requestID)
           errorIndex == Past(2, I(m.errorStatus), long, errorStatus)
           list == Past(2, I(m.errorIndex), long, errorIndex)
<1>1. /\ d \in Seq(Nat) /\ d = Sender!Element(48, mc, long)
      /\ lc \in Seq(Nat) /\ pc \in Seq(Nat) /\ mc \in Seq(Nat) /\ m.community \in Seq(Nat)
      /\ I(m.version) \in Seq(Nat) /\ I(m.requestID) \in Seq(Nat)
      /\ I(m.errorStatus) \in Seq(Nat) /\ I(m.errorIndex) \in Seq(Nat)
  <2>1. m.community \in Seq(Nat)
    BY TrapTypes, BytesAreNats
  <2>2. /\ I(m.version) \in Seq(Nat) /\ I(m.requestID) \in Seq(Nat)
        /\ I(m.errorStatus) \in Seq(Nat) /\ I(m.errorIndex) \in Seq(Nat)
    BY TrapTypes, IntegerContent
  <2> QED BY <2>1, <2>2, ListContents, MessageContents
<1>2. /\ E(m.version) \in Seq(Nat) /\ C \in Seq(Nat) /\ P \in Seq(Nat) /\ L \in Seq(Nat)
      /\ E(m.requestID) \in Seq(Nat) /\ E(m.errorStatus) \in Seq(Nat)
      /\ E(m.errorIndex) \in Seq(Nat)
  <2> HIDE DEF I, lc, pc
  <2> QED BY <1>1, ElementType, ZenonT(30)
<1>3. mc = E(m.version) \o C \o P
  BY DEF MessageContent
<1>4. pc = E(m.requestID) \o E(m.errorStatus) \o E(m.errorIndex) \o L
  BY DEF PDUContent
<1>5. Placed(48, mc, m, long, 0) /\ version \in Nat /\ Within(mc, d, version)
  <2>1. Within(d, d, 0)
    <3>1. Len(d) \in Nat
      BY <1>1
    <3>2. 0 + Len(d) <= Len(d) /\ \A i \in 1..Len(d) : d[0 + i] = d[i]
      BY <3>1
    <3> QED BY <3>2 DEF Within
  <2>2. Within(Sender!Element(48, mc, long), Sender!Encode(m, long), 0)
    BY <1>1, <2>1
  <2> HIDE DEF mc
  <2> QED BY <1>1, <2>2, IsPlaced
<1>6. /\ Within(E(m.version), d, version) /\ Within(C, d, community)
      /\ Within(P, d, pdu) /\ community \in Nat /\ pdu \in Nat
  <2> HIDE DEF mc, E, C, P, version, d
  <2>1. E(m.version) \o C \in Seq(Nat)
    BY <1>2, ConcatNats
  <2>2. /\ Within(E(m.version) \o C, d, version)
        /\ Within(P, d, version + Len(E(m.version) \o C))
    BY <1>1, <1>2, <1>3, <1>5, <2>1, ConcatPlaced
  <2>3. /\ Within(E(m.version), d, version) /\ Within(C, d, version + Len(E(m.version)))
        /\ version + Len(E(m.version)) \in Nat
    BY <1>1, <1>2, <1>5, <2>2, ConcatPlaced
  <2>4. community = version + Len(E(m.version)) /\ pdu = community + Len(C)
    BY DEF Past, E, C
  <2>5. /\ Len(E(m.version) \o C) = Len(E(m.version)) + Len(C)
        /\ Len(E(m.version)) \in Nat /\ Len(C) \in Nat
    BY <1>2, WithinConcat
  <2> HIDE DEF community, pdu
  <2>6. pdu = version + Len(E(m.version) \o C) /\ pdu \in Nat
    BY <1>5, <2>4, <2>5
  <2> QED BY <2>2, <2>3, <2>4, <2>6
<1>7. /\ Placed(4, m.community, m, long, community) /\ Placed(167, pc, m, long, pdu)
      /\ requestID \in Nat /\ Within(pc, d, requestID)
  <2> HIDE DEF community, pdu, pc
  <2> QED BY <1>1, <1>6, IsPlaced
<1>8. /\ Within(E(m.requestID), d, requestID) /\ Within(E(m.errorStatus), d, errorStatus)
      /\ Within(E(m.errorIndex), d, errorIndex) /\ Within(L, d, list)
      /\ errorStatus \in Nat /\ errorIndex \in Nat /\ list \in Nat
  <2> DEFINE r == E(m.requestID)
             s == E(m.errorStatus)
             t == E(m.errorIndex)
  <2>1. r \in Seq(Nat) /\ s \in Seq(Nat) /\ t \in Seq(Nat) /\ pc = r \o s \o t \o L
    BY <1>2, <1>4
  <2>2. /\ errorStatus = requestID + Len(r) /\ errorIndex = errorStatus + Len(s)
        /\ list = errorIndex + Len(t)
    BY DEF Past
  <2> HIDE DEF pc, r, s, t, L, requestID, errorStatus, errorIndex, list, d
  <2>3. r \o s \in Seq(Nat) /\ r \o s \o t \in Seq(Nat)
    BY <2>1, ConcatNats
  <2>4. Within(r \o s \o t, d, requestID) /\ Within(L, d, requestID + Len(r \o s \o t))
    BY <1>1, <1>2, <1>7, <2>1, <2>3, ConcatPlaced
  <2>5. Within(r \o s, d, requestID) /\ Within(t, d, requestID + Len(r \o s))
    BY <1>1, <1>7, <2>1, <2>3, <2>4, ConcatPlaced
  <2>6. Within(r, d, requestID) /\ Within(s, d, requestID + Len(r))
    BY <1>1, <1>7, <2>1, <2>5, ConcatPlaced
  <2>7. /\ Len(r \o s) = Len(r) + Len(s) /\ Len(r \o s \o t) = Len(r \o s) + Len(t)
        /\ Len(r) \in Nat /\ Len(s) \in Nat /\ Len(t) \in Nat
    BY <2>1, <2>3, WithinConcat
  <2>8. /\ errorIndex = requestID + Len(r \o s) /\ list = requestID + Len(r \o s \o t)
        /\ errorStatus \in Nat /\ errorIndex \in Nat /\ list \in Nat
    BY <1>7, <2>2, <2>7
  <2> QED BY <2>2, <2>4, <2>5, <2>6, <2>8 DEF r, s, t
<1>9. /\ IntegerLayout(m.version, m, long, version, community)
      /\ IntegerLayout(m.requestID, m, long, requestID, errorStatus)
      /\ IntegerLayout(m.errorStatus, m, long, errorStatus, errorIndex)
      /\ IntegerLayout(m.errorIndex, m, long, errorIndex, list)
  <2>1. /\ m.version \in Signeds(IntBytes) /\ m.requestID \in Signeds(RequestBytes)
        /\ m.errorStatus \in Signeds(IntBytes) /\ m.errorIndex \in Signeds(IntBytes)
    BY TrapTypes
  <2>2. /\ community = Past(2, Sender!IntegerBytes[m.version], long, version)
        /\ errorStatus = Past(2, Sender!IntegerBytes[m.requestID], long, requestID)
        /\ errorIndex = Past(2, Sender!IntegerBytes[m.errorStatus], long, errorStatus)
        /\ list = Past(2, Sender!IntegerBytes[m.errorIndex], long, errorIndex)
    OBVIOUS
  <2>3. /\ Within(Sender!Element(2, Sender!IntegerBytes[m.version], long), d, version)
        /\ Within(Sender!Element(2, Sender!IntegerBytes[m.requestID], long), d, requestID)
        /\ Within(Sender!Element(2, Sender!IntegerBytes[m.errorStatus], long), d, errorStatus)
        /\ Within(Sender!Element(2, Sender!IntegerBytes[m.errorIndex], long), d, errorIndex)
    BY <1>6, <1>8
  <2> HIDE DEF version, community, pdu, requestID, errorStatus, errorIndex, list
  <2> QED BY <1>5, <1>7, <1>8, <2>1, <2>2, <2>3, IntegerPlaced
<1> HIDE DEF version, community, pdu, requestID, errorStatus, errorIndex, list
<1> DEFINE N == Len(m.varbinds)
           VC(i) == VarbindContent(m.varbinds[i], long)
           OB(i) == Sender!OIDBytes(m.varbinds[i].oid)
           start == [i \in 0..N |-> list + HeadOf(lc, long)
                                      + Len(FlatUpTo(ListParts(m, long), Nat)[i])]
           oids == [i \in 1..N |-> start[i - 1] + HeadOf(VC(i), long)]
           values == [i \in 1..N |-> Past(6, OB(i), long, oids[i])]
           pos == [version |-> version, community |-> community, pdu |-> pdu,
                   requestID |-> requestID, errorStatus |-> errorStatus,
                   errorIndex |-> errorIndex, list |-> list,
                   start |-> start, oid |-> oids, value |-> values]
<1>10. PlacesOfVarbinds(m, long, pos)
  <2>1. /\ \A i \in 0..N : start[i] = list + HeadOf(lc, long)
                                        + Len(FlatUpTo(ListParts(m, long), Nat)[i])
        /\ \A i \in 1..N : /\ oids[i] = start[i - 1] + HeadOf(VC(i), long)
                           /\ values[i] = Past(6, OB(i), long, oids[i])
    <3> HIDE DEF start
    <3>1. \A i \in 1..N : /\ oids[i] = start[i - 1] + HeadOf(VC(i), long)
                          /\ values[i] = Past(6, OB(i), long, oids[i])
      BY Zenon
    <3> QED BY <3>1, Zenon DEF start
  <2> HIDE DEF start, oids, values
  <2>2. pos.start = start /\ pos.oid = oids /\ pos.value = values /\ pos.list = list
    BY Zenon
  <2> HIDE DEF pos
  <2> QED BY <2>1, <2>2, Zenon DEF PlacesOfVarbinds
<1> HIDE DEF start, oids, values
<1>11. /\ pos.version = version /\ pos.community = community /\ pos.pdu = pdu
       /\ pos.requestID = requestID /\ pos.errorStatus = errorStatus
       /\ pos.errorIndex = errorIndex /\ pos.list = list
  BY Zenon
<1> HIDE DEF pos
<1>12. /\ Placed(48, lc, m, long, list)
       /\ pos.start[0] = list + HeadOf(lc, long)
       /\ pos.start[N] = Past(48, lc, long, list)
       /\ \A i \in 1..N : VarbindLayout(m, long, pos, i)
  <2>1. Within(Sender!Element(48, ListContent(m, long), long), Sender!Encode(m, long), pos.list)
    BY <1>8, <1>11
  <2>2. pos.list \in Nat
    BY <1>8, <1>11
  <2> QED BY <1>10, <1>11, <2>1, <2>2, VarbindsPlaced, Zenon
<1>13. version = HeadOf(mc, long)
  <2>1. HeadOf(mc, long) \in 2..4
    BY <1>1, ElementType
  <2>2. version = 0 + HeadOf(mc, long)
    BY DEF version
  <2> QED BY <2>1, <2>2
<1>14. pdu = Past(4, m.community, long, community) /\ requestID = pdu + HeadOf(pc, long)
  BY DEF pdu, requestID
<1>15. Layout(m, long, pos)
  BY <1>5, <1>7, <1>9, <1>11, <1>12, <1>13, <1>14, Zenon DEF Layout
<1> QED BY <1>15

-----------------------------------------------------------------------------
(* The parser finds the parts of a message one after the other: Intact is  *)
(* what it has read when it is about to read the next one.                 *)

\* The bytes at a place of the datagram d.
Slice(d, s) == [i \in 1..Width(s) |-> IF s.from + i - 1 < Len(d) THEN d[s.from + i] ELSE 0]

\* What the code reads at a place is the slice of the datagram.
LEMMA OctetsAreSlice ==
  ASSUME NEW s \in Span
  PROVE  Octets(s) = Slice(data, s)
<1>1. s.from \in Nat
  BY DEF Span
<1>2. ASSUME NEW i \in 1..Width(s)
      PROVE  ByteAt(s.from + i - 1)
               = IF s.from + i - 1 < Len(data) THEN data[s.from + i] ELSE 0
  <2>1. s.from + i - 1 + 1 = s.from + i
    BY <1>1
  <2> QED BY <2>1 DEF ByteAt, Size
<1> QED BY <1>2 DEF Octets, Slice

\* The parser reads an element where it has been placed, as it was made.
LEMMA PlacedRead ==
  ASSUME data \in Seq(Byte), NEW m, NEW long \in BOOLEAN, data = Sender!Encode(m, long),
         NEW tag, NEW c, Placed(tag, c, m, long, offset)
  PROVE  /\ ByteAt(offset) = tag /\ Opens(tag) /\ Complete(tag)
         /\ Inside = offset + HeadOf(c, long) /\ Declared = Past(tag, c, long, offset)
         /\ Content \in Span /\ Slice(data, Content) = c /\ Width(Content) = Len(c)
<1>1. /\ offset \in Nat /\ tag \in Nat /\ c \in Seq(Nat) /\ Len(c) < 65536
      /\ Within(Sender!Element(tag, c, long), data, offset)
  BY SMT DEF Placed
<1>2. data \in Seq(Nat)
  BY BytesAreNats
<1>3. /\ ByteAt(offset) = tag /\ Opens(tag) /\ Complete(tag)
      /\ Inside = offset + HeadOf(c, long)
      /\ Declared = offset + Len(Sender!Element(tag, c, long))
      /\ Octets(Content) = c /\ Width(Content) = Len(c)
  BY <1>1, <1>2, ElementRead
<1>4. Content \in Span
  <2>1. HeadOf(c, long) \in Nat /\ Len(Sender!Element(tag, c, long)) \in Nat
    <3>1. Sender!Element(tag, c, long) \in Seq(Nat) /\ HeadOf(c, long) \in 2..4
      BY <1>1, ElementType
    <3>2. Len(Sender!Element(tag, c, long)) \in Nat
      BY <3>1
    <3> QED BY <3>1, <3>2
  <2>2. Inside \in Nat /\ Declared \in Nat
    BY <1>1, <1>3, <2>1
  <2> QED BY <2>2 DEF Content, Span
<1> QED BY <1>3, <1>4, OctetsAreSlice DEF Past

\* What the parser has read of an intact message m, whose encoding is d and whose
\* parts lie at pos, and where it is.
AtPlace(m, d, pos) ==
  /\ at = "message" => offset = 0
  /\ at = "version" => offset = pos.version
  /\ at = "community" => offset = pos.community
  /\ at = "pdu" => offset = pos.pdu
  /\ at = "requestID" => offset = pos.requestID
  /\ at = "errorStatus" => offset = pos.errorStatus
  /\ at = "errorIndex" => offset = pos.errorIndex
  /\ at = "list" => offset = pos.list
  /\ at \in {"varbind", "oid", "value"} => endOffset = pos.start[Len(m.varbinds)]
  /\ at = "varbind" => offset = pos.start[Len(varbinds)]
  /\ at = "oid" => offset = pos.oid[Len(varbinds) + 1]
  /\ at = "value" =>
       /\ offset = pos.value[Len(varbinds) + 1]
       /\ Slice(d, oid) = Sender!OIDBytes(m.varbinds[Len(varbinds) + 1].oid)

FieldsRead(m, d) ==
  /\ at \notin {"message", "version", "malformed"} =>
       Slice(d, fields["version"]) = Sender!IntegerBytes[m.version]
  /\ at \notin {"message", "version", "community", "malformed"} =>
       Slice(d, fields["community"]) = m.community
  /\ at \notin {"message", "version", "community", "pdu", "requestID", "malformed"} =>
       Slice(d, fields["requestID"]) = Sender!IntegerBytes[m.requestID]
  /\ at \notin {"message", "version", "community", "pdu", "requestID", "errorStatus",
                "malformed"} =>
       Slice(d, fields["errorStatus"]) = Sender!IntegerBytes[m.errorStatus]
  /\ at \notin {"message", "version", "community", "pdu", "requestID", "errorStatus",
                "errorIndex", "malformed"} =>
       Slice(d, fields["errorIndex"]) = Sender!IntegerBytes[m.errorIndex]

VarbindsRead(m, d) ==
  /\ at \in {"message", "version", "community", "pdu", "requestID", "errorStatus",
             "errorIndex", "list"} => varbinds = <<>>
  /\ Len(varbinds) <= Len(m.varbinds)
  /\ at \in {"oid", "value"} => Len(varbinds) < Len(m.varbinds)
  /\ at \in {"parsed", "invalid", "forwarded"} => Len(varbinds) = Len(m.varbinds)
  /\ \A i \in 1..Len(varbinds) :
       /\ Slice(d, varbinds[i].oid) = Sender!OIDBytes(m.varbinds[i].oid)
       /\ varbinds[i].type = m.varbinds[i].type
       /\ Slice(d, varbinds[i].value) = Sender!ValueBytes(m.varbinds[i])

\* Any version but SNMPv2c is refused with the community, and nothing else is.
Accepted(m) ==
  IF m.version = versionSNMPv2c THEN at # "malformed"
  ELSE at \in {"message", "version", "community", "malformed"}

Verdict == (at = "forwarded" => Valid) /\ (at = "invalid" => ~Valid)

Intact(m, d, pos) ==
  AtPlace(m, d, pos) /\ FieldsRead(m, d) /\ VarbindsRead(m, d) /\ Accepted(m) /\ Verdict

\* The verdict of the validator stays.
LEMMA ValidStays ==
  ASSUME UNCHANGED <<data, source, fields, varbinds>>
  PROVE  Valid' <=> Valid
<1>1. /\ (Size <= MaxPacketSize)' <=> Size <= MaxPacketSize
      /\ SourceAllowed' <=> SourceAllowed
  BY DEF Size, SourceAllowed
<1>2. CommunityAllowed' <=> CommunityAllowed
  BY DEF CommunityAllowed, Octets, ByteAt, Size
<1>3. VarbindsAllowed' <=> VarbindsAllowed
  BY DEF VarbindsAllowed, Octets, ByteAt, Size
<1>4. NoError' <=> NoError
  BY DEF NoError, Integer, Octets, ByteAt, Size
<1> QED BY <1>1, <1>2, <1>3, <1>4 DEF Valid

\* A message is read part by part.
LEMMA IntactInit ==
  ASSUME Init, NEW m \in Traps, NEW d, NEW pos
  PROVE  Intact(m, d, pos)
<1>1. at = "message" /\ offset = 0 /\ varbinds = <<>>
  BY DEF Init
<1>2. Len(varbinds) = 0 /\ Len(m.varbinds) \in Nat
  BY <1>1, TrapTypes
<1>3. AtPlace(m, d, pos) /\ FieldsRead(m, d) /\ Accepted(m) /\ Verdict
  BY <1>1 DEF AtPlace, FieldsRead, Accepted, Verdict
<1>4. VarbindsRead(m, d)
  BY <1>1, <1>2 DEF VarbindsRead
<1> QED BY <1>3, <1>4 DEF Intact

\* What a step of the parser may rely on.
Reading(m, long, d, pos) ==
  /\ m \in Traps /\ long \in BOOLEAN /\ d = Sender!Encode(m, long) /\ Layout(m, long, pos)
  /\ TypeInv /\ data = d /\ Intact(m, d, pos)

\* The parts of Reading, and the types they need.
LEMMA ReadingFacts ==
  ASSUME NEW m, NEW long, NEW d, NEW pos, Reading(m, long, d, pos)
  PROVE  /\ m \in Traps /\ long \in BOOLEAN /\ data \in Seq(Byte)
         /\ data = Sender!Encode(m, long) /\ data = d
         /\ AtPlace(m, d, pos) /\ FieldsRead(m, d) /\ VarbindsRead(m, d) /\ Accepted(m)
         /\ Verdict /\ Len(varbinds) \in Nat /\ Len(m.varbinds) \in Nat
         /\ varbinds \in Seq(VarbindSpan)
         /\ at \in Steps \cup Ends /\ offset \in Nat /\ fields \in [Fields -> Span]
         /\ oid \in Span
<1>1. /\ m \in Traps /\ long \in BOOLEAN /\ data \in Seq(Byte)
      /\ data = Sender!Encode(m, long) /\ data = d
      /\ AtPlace(m, d, pos) /\ FieldsRead(m, d) /\ VarbindsRead(m, d) /\ Accepted(m)
      /\ Verdict /\ varbinds \in Seq(VarbindSpan)
      /\ at \in Steps \cup Ends /\ offset \in Nat /\ fields \in [Fields -> Span]
      /\ oid \in Span
  BY DEF Reading, TypeInv, Intact
<1>2. Len(m.varbinds) \in Nat
  BY <1>1, TrapTypes
<1> QED BY <1>1, <1>2

\* parseSequence of the message finds its content.
LEMMA ReadMessage ==
  ASSUME NEW m, NEW long, NEW d, NEW pos, Reading(m, long, d, pos), ParseMessage
  PROVE  Intact(m, d, pos)'
<1>0. /\ AtPlace(m, d, pos) /\ FieldsRead(m, d) /\ VarbindsRead(m, d) /\ Accepted(m)
  BY ReadingFacts
<1>1. at = "message" /\ offset = 0 /\ varbinds = <<>>
  BY <1>0 DEF ParseMessage, AtPlace, VarbindsRead
<1>2. /\ Placed(48, MessageContent(m, long), m, long, offset)
      /\ pos.version = HeadOf(MessageContent(m, long), long)
  BY <1>1, SMT DEF Reading, Layout
<1>3. Complete(48) /\ Inside = offset + HeadOf(MessageContent(m, long), long)
  BY <1>2, ReadingFacts, PlacedRead
<1>4. /\ at' = "version" /\ offset' = Inside
      /\ UNCHANGED <<data, source, fields, endOffset, oid, varbinds>>
  BY <1>3 DEF ParseMessage, tagSequence, Reached, Kept
<1>5. offset' = pos.version
  <2>1. HeadOf(MessageContent(m, long), long) \in 2..4
    BY ReadingFacts, MessageContents, ElementType
  <2> QED BY <1>1, <1>2, <1>3, <1>4, <2>1
<1>6. AtPlace(m, d, pos)'
  BY <1>4, <1>5 DEF AtPlace
<1>7. FieldsRead(m, d)' /\ Accepted(m)' /\ Verdict'
  BY <1>4 DEF FieldsRead, Accepted, Verdict
<1>8. VarbindsRead(m, d)'
  BY <1>0, <1>1, <1>4 DEF VarbindsRead
<1> QED BY <1>6, <1>7, <1>8 DEF Intact

\* A field that holds an integer.
LEMMA ReadOneInteger ==
  ASSUME NEW m, NEW long, NEW d, NEW pos, Reading(m, long, d, pos), ParseInteger,
         NEW n, NEW to, IntegerLayout(n, m, long, offset, to)
  PROVE  /\ at' = After[at] /\ offset' = to /\ fields' = [fields EXCEPT ![at] = Content]
         /\ Slice(d, Content) = Sender!IntegerBytes[n]
         /\ UNCHANGED <<data, source, endOffset, oid, varbinds>>
<1>1. /\ Placed(2, Sender!IntegerBytes[n], m, long, offset)
      /\ to = Past(2, Sender!IntegerBytes[n], long, offset)
  BY DEF IntegerLayout
<1>2. /\ Complete(2) /\ Declared = Past(2, Sender!IntegerBytes[n], long, offset)
      /\ Slice(data, Content) = Sender!IntegerBytes[n] /\ data = d
  BY <1>1, ReadingFacts, PlacedRead
<1> QED BY <1>1, <1>2 DEF ParseInteger, tagInteger, Reached, Kept

\* Each integer of the header is read where it was put: parseInteger.
LEMMA ReadInteger ==
  ASSUME NEW m, NEW long, NEW d, NEW pos, Reading(m, long, d, pos), ParseInteger
  PROVE  Intact(m, d, pos)'
<1>0. /\ AtPlace(m, d, pos) /\ FieldsRead(m, d) /\ VarbindsRead(m, d) /\ Accepted(m)
      /\ fields \in [Fields -> Span]
  BY ReadingFacts
<1>1. at \in {"version", "requestID", "errorStatus", "errorIndex"}
  BY DEF ParseInteger, After
<1>2. /\ IntegerLayout(m.version, m, long, pos.version, pos.community)
      /\ IntegerLayout(m.requestID, m, long, pos.requestID, pos.errorStatus)
      /\ IntegerLayout(m.errorStatus, m, long, pos.errorStatus, pos.errorIndex)
      /\ IntegerLayout(m.errorIndex, m, long, pos.errorIndex, pos.list)
  BY DEF Reading, Layout
<1>3. ASSUME NEW n, NEW to, IntegerLayout(n, m, long, offset, to)
      PROVE  /\ at' = After[at] /\ offset' = to /\ fields' = [fields EXCEPT ![at] = Content]
             /\ Slice(d, Content) = Sender!IntegerBytes[n]
             /\ UNCHANGED <<data, source, endOffset, oid, varbinds>>
  BY <1>3, ReadOneInteger
<1>4. /\ at \in Fields /\ varbinds = <<>>
      /\ at # "version" => m.version = versionSNMPv2c
  BY <1>0, <1>1 DEF Fields, VarbindsRead, Accepted
<1>5. CASE at = "version"
  <2>1. offset = pos.version
    BY <1>0, <1>5 DEF AtPlace
  <2>2. /\ at' = "community" /\ offset' = pos.community
        /\ fields' = [fields EXCEPT !["version"] = Content]
        /\ Slice(d, Content) = Sender!IntegerBytes[m.version]
        /\ UNCHANGED <<data, source, endOffset, oid, varbinds>>
    BY <1>2, <1>3, <1>5, <2>1 DEF After
  <2>3. AtPlace(m, d, pos)' /\ VarbindsRead(m, d)' /\ Accepted(m)' /\ Verdict'
    BY <1>0, <1>4, <2>2 DEF AtPlace, VarbindsRead, Accepted, Verdict
  <2>4. FieldsRead(m, d)'
    BY <1>0, <1>4, <1>5, <2>2 DEF FieldsRead
  <2> QED BY <2>3, <2>4 DEF Intact
<1>6. CASE at = "requestID"
  <2>1. offset = pos.requestID
    BY <1>0, <1>6 DEF AtPlace
  <2>2. /\ at' = "errorStatus" /\ offset' = pos.errorStatus
        /\ fields' = [fields EXCEPT !["requestID"] = Content]
        /\ Slice(d, Content) = Sender!IntegerBytes[m.requestID]
        /\ UNCHANGED <<data, source, endOffset, oid, varbinds>>
    BY <1>2, <1>3, <1>6, <2>1 DEF After
  <2>3. AtPlace(m, d, pos)' /\ VarbindsRead(m, d)' /\ Accepted(m)' /\ Verdict'
    BY <1>0, <1>4, <1>6, <2>2 DEF AtPlace, VarbindsRead, Accepted, Verdict
  <2>4. FieldsRead(m, d)'
    BY <1>0, <1>4, <1>6, <2>2 DEF FieldsRead, Fields
  <2> QED BY <2>3, <2>4 DEF Intact
<1>7. CASE at = "errorStatus"
  <2>1. offset = pos.errorStatus
    BY <1>0, <1>7 DEF AtPlace
  <2>2. /\ at' = "errorIndex" /\ offset' = pos.errorIndex
        /\ fields' = [fields EXCEPT !["errorStatus"] = Content]
        /\ Slice(d, Content) = Sender!IntegerBytes[m.errorStatus]
        /\ UNCHANGED <<data, source, endOffset, oid, varbinds>>
    BY <1>2, <1>3, <1>7, <2>1 DEF After
  <2>3. AtPlace(m, d, pos)' /\ VarbindsRead(m, d)' /\ Accepted(m)' /\ Verdict'
    BY <1>0, <1>4, <1>7, <2>2 DEF AtPlace, VarbindsRead, Accepted, Verdict
  <2>4. FieldsRead(m, d)'
    BY <1>0, <1>4, <1>7, <2>2 DEF FieldsRead, Fields
  <2> QED BY <2>3, <2>4 DEF Intact
<1>8. CASE at = "errorIndex"
  <2>1. offset = pos.errorIndex
    BY <1>0, <1>8 DEF AtPlace
  <2>2. /\ at' = "list" /\ offset' = pos.list
        /\ fields' = [fields EXCEPT !["errorIndex"] = Content]
        /\ Slice(d, Content) = Sender!IntegerBytes[m.errorIndex]
        /\ UNCHANGED <<data, source, endOffset, oid, varbinds>>
    BY <1>2, <1>3, <1>8, <2>1 DEF After
  <2>3. AtPlace(m, d, pos)' /\ VarbindsRead(m, d)' /\ Accepted(m)' /\ Verdict'
    BY <1>0, <1>4, <1>8, <2>2 DEF AtPlace, VarbindsRead, Accepted, Verdict
  <2>4. FieldsRead(m, d)'
    BY <1>0, <1>4, <1>8, <2>2 DEF FieldsRead, Fields
  <2> QED BY <2>3, <2>4 DEF Intact
<1> QED BY <1>1, <1>5, <1>6, <1>7, <1>8

\* The version that was read is the one that was sent, and it decides.
LEMMA ReadCommunity ==
  ASSUME NEW m, NEW long, NEW d, NEW pos, Reading(m, long, d, pos), ParseCommunity
  PROVE  Intact(m, d, pos)'
<1>0. /\ AtPlace(m, d, pos) /\ FieldsRead(m, d) /\ VarbindsRead(m, d) /\ Accepted(m)
      /\ fields \in [Fields -> Span] /\ data = d /\ m \in Traps
  BY ReadingFacts
<1>1. at = "community" /\ offset = pos.community /\ varbinds = <<>>
  BY <1>0 DEF ParseCommunity, AtPlace, VarbindsRead
<1>2. /\ Placed(4, m.community, m, long, offset)
      /\ pos.pdu = Past(4, m.community, long, offset)
  BY <1>1 DEF Reading, Layout
<1>3. /\ Complete(4) /\ Declared = pos.pdu /\ Slice(d, Content) = m.community
  BY <1>0, <1>2, ReadingFacts, PlacedRead
<1>4. Integer(fields["version"]) = m.version
  <2>1. fields["version"] \in Span
    BY <1>0 DEF Fields
  <2>2. Octets(fields["version"]) = Sender!IntegerBytes[m.version]
    BY <1>0, <1>1, <2>1, OctetsAreSlice DEF FieldsRead
  <2>3. IntBytes \in Nat /\ IntBytes >= 1 /\ m.version \in Signeds(IntBytes)
    BY <1>0, DecoderAssumption, TrapTypes
  <2> QED BY <2>2, <2>3, SignedDecoded DEF Integer
<1>5. CASE m.version = versionSNMPv2c
  <2>1. /\ at' = "pdu" /\ offset' = pos.pdu
        /\ fields' = [fields EXCEPT !["community"] = Content]
        /\ UNCHANGED <<data, source, endOffset, oid, varbinds>>
    BY <1>3, <1>4, <1>5 DEF ParseCommunity, tagOctetString, Reached, Kept
  <2>2. AtPlace(m, d, pos)' /\ VarbindsRead(m, d)' /\ Accepted(m)' /\ Verdict'
    BY <1>0, <1>1, <1>5, <2>1 DEF AtPlace, VarbindsRead, Accepted, Verdict
  <2>3. FieldsRead(m, d)'
    BY <1>0, <1>1, <1>3, <2>1 DEF FieldsRead, Fields
  <2> QED BY <2>2, <2>3 DEF Intact
<1>6. CASE m.version # versionSNMPv2c
  <2>1. at' = "malformed" /\ varbinds' = varbinds
    BY <1>4, <1>6 DEF ParseCommunity, Refuse
  <2>2. AtPlace(m, d, pos)' /\ FieldsRead(m, d)' /\ Accepted(m)' /\ Verdict'
    BY <1>6, <2>1 DEF AtPlace, FieldsRead, Accepted, Verdict
  <2>3. VarbindsRead(m, d)'
    BY <1>0, <1>1, <2>1 DEF VarbindsRead
  <2> QED BY <2>2, <2>3 DEF Intact
<1> QED BY <1>5, <1>6

\* The PDU is entered at its first field.
LEMMA ReadPDU ==
  ASSUME NEW m, NEW long, NEW d, NEW pos, Reading(m, long, d, pos), ParsePDU
  PROVE  Intact(m, d, pos)'
<1>0. /\ AtPlace(m, d, pos) /\ FieldsRead(m, d) /\ VarbindsRead(m, d) /\ Accepted(m)
  BY ReadingFacts
<1>1. at = "pdu" /\ offset = pos.pdu /\ varbinds = <<>> /\ m.version = versionSNMPv2c
  BY <1>0 DEF ParsePDU, AtPlace, VarbindsRead, Accepted
<1>2. /\ Placed(167, PDUContent(m, long), m, long, offset)
      /\ pos.requestID = offset + HeadOf(PDUContent(m, long), long)
  BY <1>1 DEF Reading, Layout
<1>3. Opens(167) /\ Inside = pos.requestID
  BY <1>2, ReadingFacts, PlacedRead
<1>4. /\ at' = "requestID" /\ offset' = pos.requestID
      /\ UNCHANGED <<data, source, fields, endOffset, oid, varbinds>>
  BY <1>3 DEF ParsePDU, tagTrapV2, Reached, Kept
<1>5. AtPlace(m, d, pos)' /\ VarbindsRead(m, d)' /\ Accepted(m)' /\ Verdict'
  BY <1>0, <1>1, <1>4 DEF AtPlace, VarbindsRead, Accepted, Verdict
<1>6. FieldsRead(m, d)'
  BY <1>0, <1>1, <1>4 DEF FieldsRead
<1> QED BY <1>5, <1>6 DEF Intact

\* While the list is read: how many varbinds have been, and where the next lies.
LEMMA ListFacts ==
  ASSUME NEW m, NEW long, NEW d, NEW pos, Reading(m, long, d, pos),
         at \in {"varbind", "oid", "value"}
  PROVE  /\ Len(varbinds) \in Nat /\ Len(m.varbinds) \in Nat
         /\ Len(varbinds) <= Len(m.varbinds)
         /\ endOffset = pos.start[Len(m.varbinds)] /\ endOffset \in Nat
         /\ m.version = versionSNMPv2c
         /\ Len(varbinds) < Len(m.varbinds) =>
              /\ VarbindLayout(m, long, pos, Len(varbinds) + 1)
              /\ pos.start[Len(varbinds)] < endOffset
              /\ m.varbinds[Len(varbinds) + 1] \in Varbinds
<1> DEFINE k == Len(varbinds)
           n == Len(m.varbinds)
<1>1. /\ k \in Nat /\ n \in Nat /\ k <= n /\ m \in Traps
      /\ endOffset = pos.start[n] /\ m.version = versionSNMPv2c
  BY ReadingFacts DEF AtPlace, VarbindsRead, Accepted
<1>2. endOffset \in Nat
  BY DEF Reading, TypeInv
<1>3. \A i \in 1..n : VarbindLayout(m, long, pos, i)
  BY DEF Reading, Layout
<1>4. ASSUME k < n
      PROVE  /\ VarbindLayout(m, long, pos, k + 1) /\ pos.start[k] < endOffset
             /\ m.varbinds[k + 1] \in Varbinds
  <2>1. k + 1 \in 1..n /\ k + 1 - 1 = k
    BY <1>1, <1>4
  <2>2. VarbindLayout(m, long, pos, k + 1)
    BY <1>3, <2>1
  <2>3. pos.start[k + 1 - 1] < pos.start[n]
    BY <2>2 DEF VarbindLayout
  <2>4. pos.start[k] < pos.start[n]
    BY <2>1, <2>3
  <2>5. m.varbinds[k + 1] \in Varbinds
    BY <1>1, <2>1, TrapTypes
  <2> QED BY <1>1, <2>2, <2>4, <2>5
<1> QED BY <1>1, <1>2, <1>4

\* The varbind list is entered, and its end noted.
LEMMA ReadList ==
  ASSUME NEW m, NEW long, NEW d, NEW pos, Reading(m, long, d, pos), ParseVarbindList
  PROVE  Intact(m, d, pos)'
<1>0. /\ AtPlace(m, d, pos) /\ FieldsRead(m, d) /\ VarbindsRead(m, d) /\ Accepted(m)
  BY ReadingFacts
<1>1. at = "list" /\ offset = pos.list /\ varbinds = <<>> /\ m.version = versionSNMPv2c
  BY <1>0 DEF ParseVarbindList, AtPlace, VarbindsRead, Accepted
<1>2. /\ Placed(48, ListContent(m, long), m, long, offset)
      /\ pos.start[0] = offset + HeadOf(ListContent(m, long), long)
      /\ pos.start[Len(m.varbinds)] = Past(48, ListContent(m, long), long, offset)
  BY <1>1 DEF Reading, Layout
<1>3. Opens(48) /\ Inside = pos.start[0] /\ Declared = pos.start[Len(m.varbinds)]
  BY <1>2, ReadingFacts, PlacedRead
<1>4. /\ at' = "varbind" /\ offset' = pos.start[0]
      /\ endOffset' = pos.start[Len(m.varbinds)]
      /\ UNCHANGED <<data, source, fields, oid, varbinds>>
  BY <1>3 DEF ParseVarbindList, tagSequence, Reached, Kept
<1>5. Len(varbinds) = 0
  BY <1>1
<1>6. AtPlace(m, d, pos)' /\ VarbindsRead(m, d)' /\ Accepted(m)' /\ Verdict'
  BY <1>0, <1>1, <1>4, <1>5 DEF AtPlace, VarbindsRead, Accepted, Verdict
<1>7. FieldsRead(m, d)'
  BY <1>0, <1>1, <1>4 DEF FieldsRead
<1> QED BY <1>6, <1>7 DEF Intact

\* The next varbind is entered while there is one.
LEMMA ReadVarbind ==
  ASSUME NEW m, NEW long, NEW d, NEW pos, Reading(m, long, d, pos), OpenVarbind
  PROVE  Intact(m, d, pos)'
<1> DEFINE k == Len(varbinds)
           n == Len(m.varbinds)
           c == VarbindContent(m.varbinds[k + 1], long)
<1>0. /\ AtPlace(m, d, pos) /\ FieldsRead(m, d) /\ VarbindsRead(m, d) /\ Accepted(m)
  BY ReadingFacts
<1>1. at = "varbind" /\ offset = pos.start[k] /\ offset < endOffset
  BY <1>0 DEF OpenVarbind, AtPlace
<1>2. /\ k \in Nat /\ n \in Nat /\ k <= n /\ endOffset = pos.start[n] /\ endOffset \in Nat
      /\ m.version = versionSNMPv2c
      /\ k < n => VarbindLayout(m, long, pos, k + 1)
  BY <1>1, ListFacts
<1>3. k < n
  <2>1. k # n
    BY <1>1, <1>2
  <2> QED BY <1>2, <2>1
<1>4. Placed(48, c, m, long, offset) /\ pos.oid[k + 1] = offset + HeadOf(c, long)
  <2>1. k + 1 - 1 = k
    BY <1>2
  <2> QED BY <1>1, <1>2, <1>3, <2>1 DEF VarbindLayout
<1>5. Opens(48) /\ Inside = pos.oid[k + 1]
  BY <1>4, ReadingFacts, PlacedRead
<1>6. /\ at' = "oid" /\ offset' = pos.oid[k + 1]
      /\ UNCHANGED <<data, source, fields, endOffset, oid, varbinds>>
  BY <1>5 DEF OpenVarbind, tagSequence, Reached, Kept
<1> HIDE DEF c
<1>7. AtPlace(m, d, pos)' /\ VarbindsRead(m, d)' /\ Accepted(m)' /\ Verdict'
  BY <1>0, <1>1, <1>2, <1>3, <1>6 DEF AtPlace, VarbindsRead, Accepted, Verdict
<1>8. FieldsRead(m, d)'
  BY <1>0, <1>1, <1>6 DEF FieldsRead
<1> QED BY <1>7, <1>8 DEF Intact

\* The list ends where its last varbind does.
LEMMA ReadEnd ==
  ASSUME NEW m, NEW long, NEW d, NEW pos, Reading(m, long, d, pos), EndOfList
  PROVE  Intact(m, d, pos)'
<1>0. /\ AtPlace(m, d, pos) /\ FieldsRead(m, d) /\ VarbindsRead(m, d) /\ Accepted(m)
      /\ offset \in Nat
  BY ReadingFacts
<1>1. at = "varbind" /\ offset = pos.start[Len(varbinds)] /\ offset >= endOffset
  BY <1>0 DEF EndOfList, AtPlace
<1>2. /\ Len(varbinds) \in Nat /\ Len(m.varbinds) \in Nat /\ Len(varbinds) <= Len(m.varbinds)
      /\ m.version = versionSNMPv2c /\ endOffset \in Nat
      /\ Len(varbinds) < Len(m.varbinds) => offset < endOffset
  BY <1>1, ListFacts
<1>3. Len(varbinds) = Len(m.varbinds)
  BY <1>0, <1>1, <1>2
<1>4. /\ at' = "parsed" /\ UNCHANGED <<data, source, fields, endOffset, oid, varbinds>>
  BY DEF EndOfList, Reached, Kept
<1>5. AtPlace(m, d, pos)' /\ VarbindsRead(m, d)' /\ Accepted(m)' /\ Verdict'
  BY <1>0, <1>1, <1>2, <1>3, <1>4 DEF AtPlace, VarbindsRead, Accepted, Verdict
<1>6. FieldsRead(m, d)'
  BY <1>0, <1>1, <1>4 DEF FieldsRead
<1> QED BY <1>5, <1>6 DEF Intact

\* The name of the varbind is read as it was sent.
LEMMA ReadOID ==
  ASSUME NEW m, NEW long, NEW d, NEW pos, Reading(m, long, d, pos), ParseOID
  PROVE  Intact(m, d, pos)'
<1> DEFINE k == Len(varbinds)
           n == Len(m.varbinds)
           c == Sender!OIDBytes(m.varbinds[k + 1].oid)
<1>0. /\ AtPlace(m, d, pos) /\ FieldsRead(m, d) /\ VarbindsRead(m, d) /\ Accepted(m)
      /\ data = d
  BY ReadingFacts
<1>1. at = "oid" /\ offset = pos.oid[k + 1] /\ k < n
  BY <1>0 DEF ParseOID, AtPlace, VarbindsRead
<1>2. /\ k \in Nat /\ n \in Nat /\ endOffset = pos.start[n] /\ m.version = versionSNMPv2c
      /\ VarbindLayout(m, long, pos, k + 1) /\ m.varbinds[k + 1] \in Varbinds
  BY <1>1, ListFacts
<1>3. Placed(6, c, m, long, offset) /\ pos.value[k + 1] = Past(6, c, long, offset)
  BY <1>1, <1>2 DEF VarbindLayout
<1>4. /\ Complete(6) /\ Declared = pos.value[k + 1] /\ Slice(d, Content) = c
      /\ Width(Content) = Len(c)
  BY <1>0, <1>3, ReadingFacts, PlacedRead
<1>5. Width(Content) > 0
  <2>1. c \in Seq(Byte) /\ Len(c) >= 1
    BY <1>2, VarbindKinds, OIDDecoded
  <2> HIDE DEF c
  <2> QED BY <1>4, <2>1
<1>6. /\ at' = "value" /\ offset' = pos.value[k + 1] /\ oid' = Content
      /\ UNCHANGED <<data, source, fields, endOffset, varbinds>>
  BY <1>4, <1>5 DEF ParseOID, tagObjectIdentifier, Reached, Kept
<1>7. AtPlace(m, d, pos)' /\ VarbindsRead(m, d)' /\ Accepted(m)' /\ Verdict'
  BY <1>0, <1>1, <1>2, <1>4, <1>6 DEF AtPlace, VarbindsRead, Accepted, Verdict
<1>8. FieldsRead(m, d)'
  BY <1>0, <1>1, <1>6 DEF FieldsRead
<1> QED BY <1>7, <1>8 DEF Intact

\* The value of the varbind is read, and the varbind appended.
LEMMA ReadValue ==
  ASSUME NEW m, NEW long, NEW d, NEW pos, Reading(m, long, d, pos), ParseValue
  PROVE  Intact(m, d, pos)'
<1> DEFINE k == Len(varbinds)
           n == Len(m.varbinds)
           v == m.varbinds[k + 1]
           c == Sender!ValueBytes(v)
           w == [oid |-> oid, type |-> v.type, value |-> Content]
<1>0. /\ AtPlace(m, d, pos) /\ FieldsRead(m, d) /\ VarbindsRead(m, d) /\ Accepted(m)
      /\ data = d /\ varbinds \in Seq(VarbindSpan)
  BY ReadingFacts
<1>1. /\ at = "value" /\ offset = pos.value[k + 1] /\ k < n
      /\ Slice(d, oid) = Sender!OIDBytes(v.oid)
  BY <1>0 DEF ParseValue, AtPlace, VarbindsRead
<1>2. /\ k \in Nat /\ n \in Nat /\ endOffset = pos.start[n] /\ m.version = versionSNMPv2c
      /\ VarbindLayout(m, long, pos, k + 1) /\ v \in Varbinds
  BY <1>1, ListFacts
<1>3. Placed(v.type, c, m, long, offset) /\ pos.start[k + 1] = Past(v.type, c, long, offset)
  BY <1>1, <1>2 DEF VarbindLayout
<1>4. /\ ByteAt(offset) = v.type /\ Complete(v.type) /\ Declared = pos.start[k + 1]
      /\ Slice(d, Content) = c /\ Width(Content) = Len(c)
  BY <1>0, <1>3, ReadingFacts, PlacedRead
<1>5. Acceptable(v.type, Content)
  BY <1>2, <1>4, ValueBytesType DEF Acceptable
<1>6. /\ at' = "varbind" /\ offset' = pos.start[k + 1] /\ varbinds' = Append(varbinds, w)
      /\ UNCHANGED <<data, source, fields, endOffset, oid>>
  BY <1>4, <1>5 DEF ParseValue, Reached, Kept
<1>7. /\ w.type = v.type /\ Slice(d, w.oid) = Sender!OIDBytes(v.oid)
      /\ Slice(d, w.value) = Sender!ValueBytes(v)
  BY <1>1, <1>4
<1> HIDE DEF w, c
<1>8. /\ Len(varbinds') = k + 1 /\ varbinds'[k + 1] = w
      /\ \A i \in 1..k : varbinds'[i] = varbinds[i]
  <2> DEFINE s == varbinds
  <2>1. s \in Seq(VarbindSpan)
    BY <1>0
  <2> HIDE DEF s
  <2>2. /\ Len(Append(s, w)) = Len(s) + 1 /\ Append(s, w)[Len(s) + 1] = w
        /\ \A i \in 1..Len(s) : Append(s, w)[i] = s[i]
    BY <2>1
  <2> QED BY <1>6, <2>2 DEF s
<1>9. \A i \in 1..(k + 1) :
        /\ Slice(d, varbinds'[i].oid) = Sender!OIDBytes(m.varbinds[i].oid)
        /\ varbinds'[i].type = m.varbinds[i].type
        /\ Slice(d, varbinds'[i].value) = Sender!ValueBytes(m.varbinds[i])
  <2> SUFFICES ASSUME NEW i \in 1..(k + 1)
               PROVE  /\ Slice(d, varbinds'[i].oid) = Sender!OIDBytes(m.varbinds[i].oid)
                      /\ varbinds'[i].type = m.varbinds[i].type
                      /\ Slice(d, varbinds'[i].value) = Sender!ValueBytes(m.varbinds[i])
    OBVIOUS
  <2>1. CASE i = k + 1
    BY <1>7, <1>8, <2>1
  <2>2. CASE i # k + 1
    <3>1. i \in 1..k
      BY <1>2, <2>2
    <3> QED BY <1>0, <1>8, <3>1 DEF VarbindsRead
  <2> QED BY <2>1, <2>2
<1>10. VarbindsRead(m, d)'
  BY <1>1, <1>2, <1>6, <1>8, <1>9 DEF VarbindsRead
<1>11. AtPlace(m, d, pos)' /\ Accepted(m)' /\ Verdict'
  BY <1>0, <1>1, <1>2, <1>6, <1>8 DEF AtPlace, Accepted, Verdict
<1>12. FieldsRead(m, d)'
  BY <1>0, <1>1, <1>6 DEF FieldsRead
<1> QED BY <1>10, <1>11, <1>12 DEF Intact

\* The validator judges once, and changes nothing it has judged.
LEMMA ReadVerdict ==
  ASSUME NEW m, NEW long, NEW d, NEW pos, Reading(m, long, d, pos), Validate
  PROVE  Intact(m, d, pos)'
<1>0. /\ FieldsRead(m, d) /\ VarbindsRead(m, d) /\ Accepted(m)
  BY ReadingFacts
<1>1. /\ at = "parsed" /\ at' = IF Valid THEN "forwarded" ELSE "invalid"
      /\ UNCHANGED <<data, source, offset, fields, endOffset, oid, varbinds>>
  BY DEF Validate
<1>2. m.version = versionSNMPv2c
  BY <1>0, <1>1 DEF Accepted
<1>3. Verdict'
  BY <1>1, ValidStays DEF Verdict
<1>4. AtPlace(m, d, pos)' /\ VarbindsRead(m, d)' /\ Accepted(m)'
  BY <1>0, <1>1, <1>2 DEF AtPlace, VarbindsRead, Accepted
<1>5. FieldsRead(m, d)'
  BY <1>0, <1>1 DEF FieldsRead
<1> QED BY <1>3, <1>4, <1>5 DEF Intact

\* Whatever step the parser takes, it reads the next part of the message.
LEMMA IntactStep ==
  ASSUME NEW m, NEW long, NEW d, NEW pos, Reading(m, long, d, pos), [Next]_vars
  PROVE  Intact(m, d, pos)' /\ data' = data
<1>1. CASE UNCHANGED vars
  <2>1. Intact(m, d, pos) /\ Verdict
    BY ReadingFacts DEF Reading
  <2>2. UNCHANGED <<data, source, offset, at, fields, endOffset, oid, varbinds>>
    BY <1>1 DEF vars
  <2>3. Verdict'
    BY <2>1, <2>2, ValidStays DEF Verdict
  <2>4. AtPlace(m, d, pos)' /\ FieldsRead(m, d)' /\ VarbindsRead(m, d)' /\ Accepted(m)'
    BY <2>1, <2>2 DEF Intact, AtPlace, FieldsRead, VarbindsRead, Accepted
  <2> QED BY <2>2, <2>3, <2>4 DEF Intact
<1>2. CASE Next
  <2>1. data' = data
    BY <1>2 DEF Next, Parse, ParseMessage, ParseInteger, ParseCommunity, ParsePDU,
       ParseVarbindList, OpenVarbind, EndOfList, ParseOID, ParseValue, Validate, Refuse, Kept
  <2>2. Intact(m, d, pos)'
    BY <1>2, ReadMessage, ReadInteger, ReadCommunity, ReadPDU, ReadList, ReadVarbind,
       ReadEnd, ReadOID, ReadValue, ReadVerdict DEF Next, Parse
  <2> QED BY <2>1, <2>2
<1> QED BY <1>1, <1>2

-----------------------------------------------------------------------------
(* A message that was read is the one that was sent, and one that lost its *)
(* tail is not read at all.                                                *)

\* A field that holds the octets of an integer has its value.
LEMMA FieldDecoded ==
  ASSUME NEW s \in Span, NEW n \in Signeds(IntBytes), Slice(data, s) = Sender!IntegerBytes[n]
  PROVE  Integer(s) = n
<1>1. IntBytes \in Nat /\ IntBytes >= 1
  BY DecoderAssumption
<1>2. Octets(s) = Sender!IntegerBytes[n]
  BY OctetsAreSlice
<1> QED BY <1>1, <1>2, SignedDecoded DEF Integer

\* The low half of an integer that fits in it is the integer.
LEMMA LowHalf ==
  ASSUME NEW n \in Int, NEW half \in Nat, half >= 1, -half <= n, n < half
  PROVE  LET low == n % (2 * half)
         IN n = IF 2 * low >= 2 * half THEN low - 2 * half ELSE low
<1> DEFINE W == 2 * half
<1>1. CASE n >= 0
  <2>1. n \in Nat /\ W \in Nat /\ n < W
    BY <1>1
  <2>2. n % W = n
    BY <2>1, NoWrap
  <2> QED BY <1>1, <2>2
<1>2. CASE n < 0
  <2>1. n % W = n + W
    BY <1>2, SMT
  <2> QED BY <1>2, <2>1
<1> QED BY <1>1, <1>2

\* int32(requestID) is the request ID that was sent.
LEMMA RequestDecoded ==
  ASSUME NEW s \in Span, NEW n \in Signeds(RequestBytes),
         Slice(data, s) = Sender!IntegerBytes[n]
  PROVE  Request(s) = n
<1> DEFINE W == Words[RequestBytes]
<1>1. /\ RequestBytes \in Nat /\ RequestBytes >= 1 /\ IntBytes \in Nat
      /\ RequestBytes <= IntBytes
  BY DecoderAssumption
<1>2. PICK half \in Nat : W = 2 * half /\ half >= 128
  BY <1>1, WordsGrow
<1>3. n \in Int /\ -W <= 2 * n /\ 2 * n < W
  BY DEF Signeds
<1>4. Integer(s) = n
  <2>1. W <= Words[IntBytes] /\ Words[IntBytes] \in Nat
    BY <1>1, WordsGrow, WordsDefined
  <2> DEFINE V == Words[IntBytes]
  <2> HIDE DEF W, V
  <2>2. -V <= 2 * n /\ 2 * n < V
    BY <1>2, <1>3, <2>1 DEF V
  <2>3. n \in Signeds(IntBytes)
    BY <1>3, <2>2 DEF Signeds, V
  <2> QED BY <2>3, FieldDecoded
<1> HIDE DEF W
<1>5. -half <= n /\ n < half
  BY <1>2, <1>3
<1>6. n = IF 2 * (n % W) >= W THEN (n % W) - W ELSE n % W
  BY <1>2, <1>3, <1>5, LowHalf
<1>7. Request(s) = IF 2 * (n % W) >= W THEN (n % W) - W ELSE n % W
  BY <1>4, Zenon DEF Request, W
<1> QED BY <1>6, <1>7

\* What the parser has of the fields once it has read them all.
Whole(m) ==
  /\ Integer(fields["version"]) = m.version
  /\ Octets(fields["community"]) = m.community
  /\ Request(fields["requestID"]) = m.requestID
  /\ Integer(fields["errorStatus"]) = m.errorStatus
  /\ Integer(fields["errorIndex"]) = m.errorIndex
  /\ Len(varbinds) = Len(m.varbinds)
  /\ \A i \in 1..Len(m.varbinds) :
       /\ Arcs(Octets(varbinds[i].oid)) = m.varbinds[i].oid
       /\ varbinds[i].type = m.varbinds[i].type
       /\ Value(varbinds[i]) = m.varbinds[i].value

\* A trap that was decoded was read whole.
LEMMA AllIsRead ==
  ASSUME NEW m, NEW long, NEW d, NEW pos, Reading(m, long, d, pos), Decoded
  PROVE  Whole(m)
<1>1. /\ FieldsRead(m, d) /\ VarbindsRead(m, d) /\ data = d /\ m \in Traps
      /\ fields \in [Fields -> Span] /\ varbinds \in Seq(VarbindSpan)
  BY ReadingFacts
<1>2. at \in {"parsed", "invalid", "forwarded"}
  BY DEF Decoded
<1>3. /\ fields["version"] \in Span /\ fields["community"] \in Span
      /\ fields["requestID"] \in Span /\ fields["errorStatus"] \in Span
      /\ fields["errorIndex"] \in Span
  BY <1>1 DEF Fields
<1>4. /\ Slice(data, fields["version"]) = Sender!IntegerBytes[m.version]
      /\ Slice(data, fields["community"]) = m.community
      /\ Slice(data, fields["requestID"]) = Sender!IntegerBytes[m.requestID]
      /\ Slice(data, fields["errorStatus"]) = Sender!IntegerBytes[m.errorStatus]
      /\ Slice(data, fields["errorIndex"]) = Sender!IntegerBytes[m.errorIndex]
  BY <1>1, <1>2 DEF FieldsRead
<1>5. /\ m.version \in Signeds(IntBytes) /\ m.requestID \in Signeds(RequestBytes)
      /\ m.errorStatus \in Signeds(IntBytes) /\ m.errorIndex \in Signeds(IntBytes)
      /\ Len(m.varbinds) \in Nat
  BY <1>1, TrapTypes
<1>6. /\ Integer(fields["version"]) = m.version
      /\ Integer(fields["errorStatus"]) = m.errorStatus
      /\ Integer(fields["errorIndex"]) = m.errorIndex
  BY <1>3, <1>4, <1>5, FieldDecoded
<1>7. Request(fields["requestID"]) = m.requestID
  BY <1>3, <1>4, <1>5, RequestDecoded
<1>8. Octets(fields["community"]) = m.community
  BY <1>3, <1>4, OctetsAreSlice
<1>9. Len(varbinds) = Len(m.varbinds)
  BY <1>1, <1>2 DEF VarbindsRead
<1>10. ASSUME NEW i \in 1..Len(m.varbinds)
       PROVE  /\ Arcs(Octets(varbinds[i].oid)) = m.varbinds[i].oid
              /\ varbinds[i].type = m.varbinds[i].type
              /\ Value(varbinds[i]) = m.varbinds[i].value
  <2>1. varbinds[i] \in VarbindSpan /\ m.varbinds[i] \in Varbinds
    <3>1. i \in 1..Len(varbinds)
      BY <1>9
    <3>2. \A s \in Seq(VarbindSpan) : \A j \in 1..Len(s) : s[j] \in VarbindSpan
      OBVIOUS
    <3> QED BY <1>1, <3>1, <3>2, TrapTypes, Zenon
  <2>2. varbinds[i].oid \in Span /\ varbinds[i].value \in Span
    BY <2>1 DEF VarbindSpan
  <2>3. /\ Slice(data, varbinds[i].oid) = Sender!OIDBytes(m.varbinds[i].oid)
        /\ varbinds[i].type = m.varbinds[i].type
        /\ Slice(data, varbinds[i].value) = Sender!ValueBytes(m.varbinds[i])
    BY <1>1, <1>9 DEF VarbindsRead
  <2>4. Octets(varbinds[i].oid) = Sender!OIDBytes(m.varbinds[i].oid)
    BY <2>2, <2>3, OctetsAreSlice
  <2>5. Octets(varbinds[i].value) = Sender!ValueBytes(m.varbinds[i])
    BY <2>2, <2>3, OctetsAreSlice
  <2>6. m.varbinds[i].oid \in Names
    BY <2>1, VarbindKinds
  <2>7. Arcs(Octets(varbinds[i].oid)) = m.varbinds[i].oid
    BY <2>4, <2>6, OIDDecoded
  <2>8. Value(varbinds[i]) = m.varbinds[i].value
    BY <2>1, <2>3, <2>5, ValueDecoded
  <2> QED BY <2>3, <2>7, <2>8
<1> QED BY <1>6, <1>7, <1>8, <1>9, <1>10 DEF Whole

\* What has been read of a trap makes the packet that was sent.
LEMMA WholePacket ==
  ASSUME NEW m \in Traps, Whole(m)
  PROVE  Packet = m
<1> DEFINE bind(i) == [oid |-> Arcs(Octets(varbinds[i].oid)), type |-> varbinds[i].type,
                       value |-> Value(varbinds[i])]
           n == Len(m.varbinds)
<1>1. /\ n \in Nat /\ m.varbinds \in Seq(Varbinds)
      /\ m = [version |-> m.version, community |-> m.community,
              requestID |-> m.requestID, errorStatus |-> m.errorStatus,
              errorIndex |-> m.errorIndex, varbinds |-> m.varbinds]
      /\ \A i \in 1..n : m.varbinds[i] \in Varbinds
  BY TrapTypes
<1>2. ASSUME NEW i \in 1..n PROVE bind(i) = m.varbinds[i]
  <2> DEFINE v == m.varbinds[i]
  <2>1. v = [oid |-> v.oid, type |-> v.type, value |-> v.value]
    BY <1>1, VarbindKinds
  <2>2. /\ Arcs(Octets(varbinds[i].oid)) = v.oid /\ varbinds[i].type = v.type
        /\ Value(varbinds[i]) = v.value
    BY DEF Whole
  <2> HIDE DEF v
  <2>3. bind(i) = [oid |-> v.oid, type |-> v.type, value |-> v.value]
    BY <2>2, Zenon
  <2> QED BY <2>1, <2>3, Zenon DEF v
<1>3. [i \in 1..n |-> bind(i)] = m.varbinds
  <2> DEFINE s == m.varbinds
  <2>1. s = [i \in 1..Len(s) |-> s[i]]
    <3>1. s \in Seq(Varbinds)
      BY <1>1
    <3> HIDE DEF s
    <3> QED BY <3>1
  <2> HIDE DEF bind
  <2> QED BY <1>2, <2>1, Zenon
<1>4. Packet = [version |-> m.version, community |-> m.community,
                requestID |-> m.requestID, errorStatus |-> m.errorStatus,
                errorIndex |-> m.errorIndex, varbinds |-> [i \in 1..n |-> bind(i)]]
  <2>1. /\ Integer(fields["version"]) = m.version
        /\ Octets(fields["community"]) = m.community
        /\ Request(fields["requestID"]) = m.requestID
        /\ Integer(fields["errorStatus"]) = m.errorStatus
        /\ Integer(fields["errorIndex"]) = m.errorIndex
        /\ Len(varbinds) = Len(m.varbinds)
    BY DEF Whole
  <2> QED BY <2>1, Zenon DEF Packet
<1> HIDE DEF bind, n
<1> QED BY <1>1, <1>3, <1>4, Zenon

\* The validator judges what was sent.
LEMMA WholeVerdict ==
  ASSUME NEW m \in Traps, Whole(m)
  PROVE  Valid <=> Permitted(m)
<1>1. DOMAIN m.varbinds = 1..Len(m.varbinds)
  BY TrapTypes
<1>2. SourceAllowed <=> /\ \A pattern \in BlockedSources : source \notin pattern
                        /\ AllowedSources # {} => source \in UNION AllowedSources
  BY DEF SourceAllowed
<1>3. CommunityAllowed <=> (AllowedCommunities # {} => m.community \in AllowedCommunities)
  BY DEF CommunityAllowed, Whole
<1>4. NoError <=> m.errorStatus = 0 /\ m.errorIndex = 0
  BY DEF NoError, Whole
<1>5. VarbindsAllowed <=>
        /\ Len(m.varbinds) <= MaxVarbinds
        /\ \A i \in DOMAIN m.varbinds : TextLength(m.varbinds[i].oid) <= MaxOIDLength
  BY <1>1, Zenon DEF VarbindsAllowed, Whole
<1> QED BY <1>2, <1>3, <1>4, <1>5, Zenon DEF Valid, Permitted

\* What the run checks of an intact trap, at the end of its datagram.
LEMMA IntactAtEnd ==
  ASSUME NEW m, NEW long, NEW d, NEW pos, Reading(m, long, d, pos), Ended
  PROVE  IF m.version # versionSNMPv2c THEN at = "malformed"
         ELSE Decoded /\ Packet = m /\ (at = "forwarded" <=> Permitted(m))
<1>1. Accepted(m) /\ Verdict /\ m \in Traps
  BY ReadingFacts
<1>2. at \in {"malformed", "invalid", "forwarded"}
  BY DEF Ended, Ends
<1>3. CASE m.version # versionSNMPv2c
  BY <1>1, <1>2, <1>3 DEF Accepted
<1>4. CASE m.version = versionSNMPv2c
  <2>1. at \in {"invalid", "forwarded"}
    BY <1>1, <1>2, <1>4 DEF Accepted
  <2>2. Decoded
    BY <2>1 DEF Decoded
  <2>3. Packet = m /\ (Valid <=> Permitted(m))
    BY <1>1, <2>2, AllIsRead, WholePacket, WholeVerdict
  <2>4. at = "forwarded" <=> Valid
    BY <1>1, <2>1 DEF Verdict
  <2> QED BY <1>4, <2>2, <2>3, <2>4
<1> QED BY <1>3, <1>4

\* A datagram that lost its tail is shorter than what was sent, and the same as
\* far as it goes.
LEMMA Truncation ==
  ASSUME NEW s \in Seq(Nat), NEW e \in Seq(Nat), IsStrictPrefix(s, e)
  PROVE  Len(s) < Len(e) /\ \A i \in 1..Len(s) : s[i] = e[i]
<1>1. /\ Len(s) \in Nat /\ Len(e) \in Nat /\ Len(s) <= Len(e) /\ s # e
      /\ SubSeq(s, 1, Len(s)) = SubSeq(e, 1, Len(s))
  BY DEF IsStrictPrefix, IsPrefix
<1>2. ASSUME NEW i \in 1..Len(s) PROVE s[i] = e[i]
  <2>1. SubSeq(s, 1, Len(s))[i] = s[i] /\ SubSeq(e, 1, Len(s))[i] = e[i]
    BY <1>1
  <2> QED BY <1>1, <2>1, Zenon
<1>3. Len(s) # Len(e)
  BY <1>1, <1>2, SeqEqual
<1> QED BY <1>1, <1>2, <1>3

\* The octets of a length say how many they are.
LEMMA LengthForms ==
  ASSUME NEW n \in Nat, NEW long \in BOOLEAN
  PROVE  LET L == Sender!LengthOctets(n, long)
         IN Len(L) = 1 \/ (Len(L) \in {2, 3} /\ L[1] = 127 + Len(L))
<1> DEFINE L == Sender!LengthOctets(n, long)
           a == <<n>>
           b == <<129, n>>
           c == <<130, n \div 256, n % 256>>
<1>1. L = a \/ L = b \/ L = c
  BY DEF Sender!LengthOctets
<1>2. Len(a) = 1 /\ Len(b) = 2 /\ b[1] = 129 /\ Len(c) = 3 /\ c[1] = 130
  OBVIOUS
<1> SUFFICES Len(L) = 1 \/ (Len(L) \in {2, 3} /\ L[1] = 127 + Len(L))
  OBVIOUS
<1> HIDE DEF L, a, b, c
<1>3. Len(L) = 1 \/ (Len(L) = 2 /\ L[1] = 129) \/ (Len(L) = 3 /\ L[1] = 130)
  BY <1>1, <1>2, Zenon
<1>4. 129 = 127 + 2 /\ 130 = 127 + 3
  OBVIOUS
<1> QED BY <1>3, <1>4, Zenon

\* A content that two octets can give the length of.
Fitting(c) == Len(c) < 65536

\* The outer sequence of a datagram that lost its tail is not complete: its length
\* is cut off, or it declares more than there is.
LEMMA TruncatedIncomplete ==
  ASSUME NEW tag \in Nat, NEW c \in Seq(Nat), NEW long \in BOOLEAN, Fitting(c),
         data \in Seq(Byte), offset = 0,
         IsStrictPrefix(data, Sender!Element(tag, c, long))
  PROVE  ~Complete(tag)
<1> DEFINE e == Sender!Element(tag, c, long)
           L == Sender!LengthOctets(Len(c), long)
<1>1. /\ e \in Seq(Nat) /\ Len(c) \in Nat /\ Len(e) = 1 + Len(L) + Len(c) /\ Within(L, e, 1)
  BY ElementType DEF HeadOf
<1>2. L \in Seq(Nat) /\ Len(L) \in 1..3 /\ (Len(L) = 1 \/ L[1] = 127 + Len(L))
  <2>1. Len(c) \in Nat
    BY <1>1
  <2> QED BY <2>1, LengthOctetsType, LengthForms
<1>3. Size \in Nat /\ Size < Len(e) /\ \A i \in 1..Size : data[i] = e[i]
  <2>1. data \in Seq(Nat)
    BY BytesAreNats
  <2> HIDE DEF e
  <2>2. IsStrictPrefix(data, e)
    BY DEF e
  <2> QED BY <1>1, <2>1, <2>2, Truncation DEF Size
<1> HIDE DEF e, L
<1>4. CASE Size >= 1 + Len(L)
  <2>1. Within(L, data, 0 + 1)
    <3>1. \A i \in 1..Len(L) : 1 + i \in 1..Size /\ e[1 + i] = L[i]
      BY <1>1, <1>2, <1>3, <1>4 DEF Within
    <3> QED BY <1>2, <1>3, <1>4, <3>1 DEF Within, Size
  <2>2. /\ ReadLength(offset + 1).len = Len(c)
        /\ ReadLength(offset + 1).next = 0 + 1 + Len(L)
    <3>1. data \in Seq(Nat)
      BY BytesAreNats
    <3> QED BY <1>1, <2>1, <3>1, LengthRead DEF L, Fitting
  <2>3. Declared = Len(e)
    <3>1. Declared = 0 + 1 + Len(L) + Len(c)
      BY <2>2, Zenon DEF Declared, Inside
    <3> DEFINE l == Len(L)
               k == Len(c)
    <3>2. /\ l \in 1..3 /\ k \in Nat /\ Len(e) = 1 + l + k /\ Declared = 0 + 1 + l + k
      BY <1>1, <1>2, <3>1, Zenon
    <3> HIDE DEF l, k
    <3> QED BY <3>2
  <2> QED BY <1>3, <2>3 DEF Complete, Fits
<1>5. CASE Size < 1 + Len(L)
  <2>1. ~ReadLength(1).ok
    <3>1. CASE ~Fits(2)
      <4>1. ReadLength(1) = [ok |-> FALSE, len |-> 0, next |-> 1]
        BY <3>1 DEF ReadLength
      <4> QED BY <4>1
    <3>2. CASE Fits(2)
      <4>1. Size >= 2 /\ Len(L) \in {2, 3} /\ L[1] = 127 + Len(L)
        <5> DEFINE l == Len(L)
        <5>1. /\ Size \in Nat /\ 2 <= Size /\ Size < 1 + l /\ l \in 1..3
              /\ (l = 1 \/ L[1] = 127 + l)
          BY <1>2, <1>3, <1>5, <3>2, Zenon DEF Fits
        <5> HIDE DEF l
        <5>2. Size >= 2 /\ l \in {2, 3} /\ L[1] = 127 + l
          BY <5>1
        <5> QED BY <5>2 DEF l
      <4>2. ByteAt(1) = L[1]
        <5>1. data[2] = e[2] /\ e[1 + 1] = L[1] /\ 1 + 1 = 2
          <6>1. 2 \in 1..Size /\ 1 \in 1..Len(L)
            BY <1>3, <4>1
          <6>2. data[2] = e[2]
            BY <1>3, <6>1, Zenon
          <6>3. e[1 + 1] = L[1]
            BY <1>1, <6>1, Zenon DEF Within
          <6>4. 1 + 1 = 2
            OBVIOUS
          <6> QED BY <6>2, <6>3, <6>4, Zenon
        <5>2. 1 < Size /\ data[1 + 1] = L[1]
          BY <1>3, <4>1, <5>1
        <5> QED BY <5>2, Zenon DEF ByteAt
      <4>3. ~Fits(1 + 1 + (ByteAt(1) - 128)) /\ ~(ByteAt(1) < 128)
        BY <1>3, <1>5, <4>1, <4>2 DEF Fits
      <4>4. ReadLength(1) = [ok |-> FALSE, len |-> 0, next |-> 1 + 1]
        BY <3>2, <4>3 DEF ReadLength
      <4> QED BY <4>4
    <3> QED BY <3>1, <3>2
  <2> QED BY <2>1 DEF Complete, Opens
<1> QED BY <1>2, <1>3, <1>4, <1>5

\* The parser looks at the first byte of a truncated datagram, or has refused it.
Cut == at = "malformed" \/ (at = "message" /\ offset = 0)

\* A truncated datagram is refused by the first step.
LEMMA CutStep ==
  ASSUME NEW m \in Traps, NEW long \in BOOLEAN, Short(m, long), data \in Seq(Byte),
         IsStrictPrefix(data, Sender!Encode(m, long)), Cut, [Next]_vars
  PROVE  Cut'
<1>1. CASE UNCHANGED vars
  BY <1>1 DEF vars, Cut
<1>2. CASE Next /\ at = "malformed"
  BY <1>2 DEF Next, Parse, ParseMessage, ParseInteger, ParseCommunity, ParsePDU,
     ParseVarbindList, OpenVarbind, EndOfList, ParseOID, ParseValue, Validate, After
<1>3. CASE Next /\ at = "message" /\ offset = 0
  <2>1. ParseMessage
    BY <1>3 DEF Next, Parse, ParseInteger, ParseCommunity, ParsePDU,
       ParseVarbindList, OpenVarbind, EndOfList, ParseOID, ParseValue, Validate, After
  <2>2. ~Complete(48)
    <3> DEFINE c == MessageContent(m, long)
    <3>1. /\ c \in Seq(Nat) /\ Sender!Encode(m, long) = Sender!Element(48, c, long)
          /\ Len(c) < 65536
      <4>1. /\ c \in Seq(Nat) /\ Sender!Encode(m, long) = Sender!Element(48, c, long)
        BY MessageContents
      <4>2. Len(Sender!Element(48, c, long)) < 65536
        BY <4>1 DEF Short
      <4>3. /\ Len(Sender!Element(48, c, long)) = HeadOf(c, long) + Len(c)
            /\ HeadOf(c, long) \in 2..4 /\ Len(c) \in Nat
        BY <4>1, ElementType
      <4> HIDE DEF c
      <4> QED BY <4>1, <4>2, <4>3
    <3> HIDE DEF c
    <3> QED BY <1>3, <3>1, TruncatedIncomplete DEF Fitting
  <2>3. at' = "malformed"
    BY <2>1, <2>2 DEF ParseMessage, tagSequence, Refuse
  <2> QED BY <2>3 DEF Cut
<1> QED BY <1>1, <1>2, <1>3 DEF Cut

\* Where the parts of an encoded trap lie.
Places(m, long) == CHOOSE pos : Layout(m, long, pos)

\* Whatever part of an intact trap the parser has reached, it has read the parts
\* before it as they were sent; of a truncated one it has read nothing.
SentInv ==
  /\ TypeInv
  /\ \A m \in Messages : \A long \in BOOLEAN :
       /\ data = Sender!Encode(m, long) =>
            Intact(m, Sender!Encode(m, long), Places(m, long))
       /\ IsStrictPrefix(data, Sender!Encode(m, long)) => Cut

\* A message that may be sent has a layout.
LEMMA SentIsShort ==
  ASSUME Messages \subseteq Sendable, NEW m \in Messages, NEW long \in BOOLEAN
  PROVE  m \in Traps /\ Short(m, long) /\ Layout(m, long, Places(m, long))
<1>1. m \in Traps /\ \A bytes \in Sender!Encodings(m) : Len(bytes) < Words[2]
  BY DEF Sendable
<1>2. Sender!Encode(m, long) \in Sender!Encodings(m)
  BY DEF Sender!Encodings
<1>3. Len(Sender!Encode(m, long)) < Words[2]
  BY <1>1, <1>2
<1>4. Short(m, long)
  BY <1>3, SmallWords, SMT DEF Short
<1>5. \E pos : Layout(m, long, pos)
  BY <1>1, <1>4, LayoutExists
<1>6. Layout(m, long, Places(m, long))
  BY <1>5, Zenon DEF Places
<1> QED BY <1>1, <1>4, <1>6

\* The parser starts with nothing read.
LEMMA SentInit ==
  ASSUME Messages \subseteq Sendable, Init, TypeInv
  PROVE  SentInv
<1> SUFFICES ASSUME NEW m \in Messages, NEW long \in BOOLEAN
             PROVE  Intact(m, Sender!Encode(m, long), Places(m, long)) /\ Cut
  BY DEF SentInv
<1>1. m \in Traps
  BY SentIsShort
<1>2. Cut
  BY DEF Init, Cut
<1> QED BY <1>1, <1>2, IntactInit

\* Every step of the parser keeps what it has read as it was sent.
LEMMA SentStep ==
  ASSUME Messages \subseteq Sendable, SentInv, TypeInv', [Next]_vars
  PROVE  SentInv'
<1>1. data' = data
  BY DEF Next, Parse, ParseMessage, ParseInteger, ParseCommunity, ParsePDU,
     ParseVarbindList, OpenVarbind, EndOfList, ParseOID, ParseValue, Validate, Refuse,
     Kept, vars
<1>2. ASSUME NEW m \in Messages, NEW long \in BOOLEAN, data = Sender!Encode(m, long)
      PROVE  Intact(m, Sender!Encode(m, long), Places(m, long))'
  <2>1. m \in Traps /\ Layout(m, long, Places(m, long))
    BY SentIsShort
  <2>2. Intact(m, Sender!Encode(m, long), Places(m, long)) /\ TypeInv
    BY <1>2 DEF SentInv
  <2>3. Reading(m, long, Sender!Encode(m, long), Places(m, long))
    BY <1>2, <2>1, <2>2, Zenon DEF Reading
  <2> QED BY <2>3, IntactStep
<1>3. ASSUME NEW m \in Messages, NEW long \in BOOLEAN,
             IsStrictPrefix(data, Sender!Encode(m, long))
      PROVE  Cut'
  <2>1. m \in Traps /\ Short(m, long)
    BY SentIsShort
  <2>2. Cut /\ data \in Seq(Byte)
    BY <1>3 DEF SentInv, TypeInv
  <2> QED BY <1>3, <2>1, <2>2, CutStep
<1> QED BY <1>1, <1>2, <1>3 DEF SentInv

\* What the run checks follows from what the parser has read.
LEMMA SentImplies ==
  ASSUME Messages \subseteq Sendable, SentInv
  PROVE  DecodedAsSent
<1>1. ASSUME NEW m \in Messages, data \in Sender!Encodings(m), Ended
      PROVE  IF m.version # versionSNMPv2c THEN at = "malformed"
             ELSE Decoded /\ Packet = m /\ (at = "forwarded" <=> Permitted(m))
  <2>1. PICK long \in BOOLEAN : data = Sender!Encode(m, long)
    BY <1>1 DEF Sender!Encodings
  <2>2. m \in Traps /\ Layout(m, long, Places(m, long))
    BY SentIsShort
  <2>3. Intact(m, Sender!Encode(m, long), Places(m, long)) /\ TypeInv
    BY <2>1 DEF SentInv
  <2>4. Reading(m, long, Sender!Encode(m, long), Places(m, long))
    BY <2>1, <2>2, <2>3, Zenon DEF Reading
  <2> QED BY <1>1, <2>4, IntactAtEnd
<1>2. ASSUME NEW m \in Messages, NEW sent \in Sender!Encodings(m), IsStrictPrefix(data, sent)
      PROVE  ~Decoded
  <2>1. PICK long \in BOOLEAN : sent = Sender!Encode(m, long)
    BY DEF Sender!Encodings
  <2>2. Cut
    BY <1>2, <2>1 DEF SentInv
  <2> QED BY <2>2 DEF Cut, Decoded
<1> QED BY <1>1, <1>2 DEF DecodedAsSent, IntactIsDecoded, TruncatedIsRefused

\* A trap that fits in a datagram, as its sender encoded it, is decoded to what
\* was sent and judged by it, and no part of it passes for a trap: SNMPParser of
\* parser.go and PacketValidator of listener.go, for any traps and limits.
THEOREM SentIsDecoded ==
  ASSUME Messages \subseteq Sendable
  PROVE  EnrichSpec => []DecodedAsSent
<1>1. EnrichInit => IInv /\ SentInv
  BY InitInv, SentInit DEF EnrichInit, IInv
<1>2. [EnrichNext]_allVars => [Next]_vars
  BY DEF EnrichNext, Worker, allVars
<1>3. IInv /\ SentInv /\ [Next]_vars => IInv' /\ SentInv'
  BY KeepsInv, SentStep DEF IInv
<1>4. SentInv => DecodedAsSent
  BY SentImplies
<1> QED
  BY <1>1, <1>2, <1>3, <1>4, PTL DEF EnrichSpec

-----------------------------------------------------------------------------
(* The MIB manager: the cleanup makes room for one entry at most, so the   *)
(* cache is never more than full, and an entry is replaced, never renewed. *)

\* The cache is a finite map.
CacheIsMap == cache \in [DOMAIN cache -> Entry] /\ IsFiniteSet(DOMAIN cache)

MibInv == CacheSound /\ CacheIsMap

\* The search up from an OID ends at the longest of the known nodes above it.
LEMMA ClosestIsLongest ==
  ASSUME NEW o \in Oids, Ancestors(o) \cap Tree # {}
  PROVE  /\ Closest(o) \in Tree
         /\ \A p \in Tree : (\E i \in 1..Len(o) : p = SubSeq(o, 1, i)) =>
              Len(p) <= Len(Closest(o))
<1> DEFINE A == Ancestors(o) \cap Tree
           K == {Len(o) - Len(p) : p \in A}
<1>1. o \in Seq(Nat) /\ Len(o) \in Nat
  BY MibAssumption
<1>2. \A p \in A : Len(p) \in 1..Len(o)
  <2>1. \A i \in 1..Len(o) : Len(SubSeq(o, 1, i)) = i
    BY <1>1
  <2> QED BY <2>1 DEF Ancestors
<1>3. K \subseteq Nat /\ K # {}
  BY <1>1, <1>2
<1>4. PICK k \in K : \A j \in K : k <= j
  <2> HIDE DEF K
  <2> QED BY <1>3, SmallestNumber
<1>5. PICK p \in A : k = Len(o) - Len(p)
  BY <1>4
<1>6. \A q \in A : Len(q) <= Len(p)
  <2> TAKE q \in A
  <2>1. Len(o) - Len(q) \in K
    OBVIOUS
  <2>2. Len(o) - Len(p) <= Len(o) - Len(q)
    BY <1>4, <1>5, <2>1
  <2>3. Len(p) \in Nat /\ Len(q) \in Nat
    BY <1>2
  <2> HIDE DEF A, K
  <2> QED BY <1>1, <2>2, <2>3
<1>7. Closest(o) \in A /\ \A q \in A : Len(q) <= Len(Closest(o))
  <2> HIDE DEF A
  <2>1. Closest(o) = CHOOSE r \in A : \A q \in A : Len(q) <= Len(r)
    BY DEF Closest, A
  <2> QED BY <1>6, <2>1
<1> QED BY <1>7 DEF Ancestors

\* Some entry of a cache that is not empty has the fewest hits.
LEMMA FewestExist ==
  ASSUME NEW c, NEW D, c \in [D -> Entry], D # {}
  PROVE  FewestHits(c) # {} /\ FewestHits(c) \subseteq D
<1> DEFINE K == {c[o].hits : o \in D}
<1>1. K \subseteq Nat /\ K # {}
  BY DEF Entry
<1>2. PICK k \in K : \A j \in K : k <= j
  <2> HIDE DEF K
  <2> QED BY <1>1, SmallestNumber
<1>3. PICK o \in D : k = c[o].hits
  BY <1>2
<1>4. \A p \in D : c[o].hits <= c[p].hits
  BY <1>2, <1>3
<1> QED BY <1>4 DEF FewestHits

\* The cleanup makes room in a cache that is not larger than it may be: what
\* stays is unchanged, and of what goes before its time, nothing was used more
\* often than what stays.
LEMMA RoomIsMade ==
  ASSUME now \in Nat, NEW c, NEW D, c \in [D -> Entry], IsFiniteSet(D),
         Cardinality(D) <= CacheSize, NEW k \in MakesRoom(c)
  PROVE  /\ DOMAIN k \subseteq D /\ \A o \in DOMAIN k : k[o] = c[o]
         /\ IsFiniteSet(DOMAIN k) /\ Cardinality(DOMAIN k) + 1 <= CacheSize
         /\ k = c \/ DOMAIN k \subseteq DOMAIN Unexpired(c)
         /\ \A o \in DOMAIN Unexpired(c) \ DOMAIN k :
              \A p \in DOMAIN Unexpired(c) : c[o].hits <= c[p].hits
<1>1. Cardinality(D) \in Nat /\ CacheSize \in Nat \ {0} /\ DOMAIN c = D
  BY FS_CardinalityType, MibAssumption
<1>2. CASE k = c /\ Cardinality(D) < CacheSize
  <2>1. DOMAIN Unexpired(c) \subseteq D
    BY DEF Unexpired, Without
  <2> QED BY <1>1, <1>2, <2>1
<1>3. CASE k \in CleanedUp(c)
  <2> DEFINE u == Unexpired(c)
             U == DOMAIN u
             surplus == Cardinality(U) - CacheSize + 1
  <2>1. U \subseteq D /\ u \in [U -> Entry] /\ \A o \in U : u[o] = c[o]
    BY DEF Unexpired, Without
  <2>2. IsFiniteSet(U) /\ Cardinality(U) \in Nat /\ Cardinality(U) <= Cardinality(D)
    <3> HIDE DEF U
    <3> QED BY <2>1, FS_Subset, FS_CardinalityType
  <2>3. CASE surplus <= 0
    <3>1. k = u
      BY <1>3, <2>3 DEF CleanedUp
    <3> QED BY <1>1, <2>1, <2>2, <2>3, <3>1
  <2>4. CASE ~(surplus <= 0)
    <3> DEFINE F == FewestHits(u)
    <3>1. surplus = 1
      BY <1>1, <2>2, <2>4
    <3>2. PICK t \in SUBSET F :
            /\ k = Without(u, t)
            /\ Cardinality(t) = IF Cardinality(F) < surplus THEN Cardinality(F) ELSE surplus
      BY <1>3, <2>4 DEF CleanedUp
    <3>3. F # {} /\ F \subseteq U
      <4>1. U # {}
        BY <1>1, <2>2, <3>1, FS_EmptySet
      <4> HIDE DEF u, U
      <4> QED BY <2>1, <4>1, FewestExist
    <3>4. IsFiniteSet(F) /\ Cardinality(F) \in Nat /\ Cardinality(F) # 0
      <4> HIDE DEF F, U
      <4> QED BY <2>2, <3>3, FS_Subset, FS_CardinalityType, FS_EmptySet
    <3>5. Cardinality(t) = 1
      BY <3>1, <3>2, <3>4
    <3>6. DOMAIN k = U \ t /\ \A o \in U \ t : k[o] = u[o]
      BY <3>2 DEF Without
    <3>7. Cardinality(U \ t) = Cardinality(U) - Cardinality(U \cap t)
      <4> HIDE DEF U
      <4> QED BY <2>2, FS_Difference
    <3>8. U \cap t = t
      BY <3>2, <3>3
    <3>9. IsFiniteSet(DOMAIN k) /\ Cardinality(DOMAIN k) + 1 <= CacheSize
      <4>1. IsFiniteSet(U \ t)
        <5> HIDE DEF U
        <5> QED BY <2>2, FS_Difference
      <4>2. Cardinality(U) = CacheSize
        BY <1>1, <2>2, <3>1
      <4>3. Cardinality(DOMAIN k) = CacheSize - 1
        BY <3>5, <3>6, <3>7, <3>8, <4>2
      <4> QED BY <1>1, <3>6, <4>1, <4>3
    <3>10. ASSUME NEW o \in U \ DOMAIN k, NEW p \in U PROVE c[o].hits <= c[p].hits
      <4>1. o \in F
        BY <3>2, <3>6, <3>10
      <4>2. u[o].hits <= u[p].hits
        BY <4>1 DEF FewestHits
      <4> QED BY <2>1, <3>10, <4>2
    <3> QED BY <2>1, <3>6, <3>9, <3>10
  <2> QED BY <2>3, <2>4
<1> QED BY <1>1, <1>2, <1>3 DEF MakesRoom

\* What the invariant says of the cache.
CacheInv == CacheIsMap /\ DOMAIN cache \subseteq Oids /\ CacheBounded /\ CachedIsClosest

\* An empty cache is sound.
LEMMA EmptyCache == ASSUME cache' = <<>> PROVE CacheInv'
<1>1. DOMAIN cache' = {} /\ cache' \in [{} -> Entry]
  OBVIOUS
<1>2. IsFiniteSet({}) /\ Cardinality({}) = 0
  BY FS_EmptySet
<1>3. CacheBounded'
  BY <1>1, <1>2, MibAssumption DEF CacheBounded
<1> QED BY <1>1, <1>2, <1>3 DEF CacheInv, CacheIsMap, CachedIsClosest

\* A hit counts in its entry.
LEMMA HitCache ==
  ASSUME CacheInv, NEW o \in Oids, ResolveHit(o)
  PROVE  CacheInv'
<1>1. /\ o \in DOMAIN cache /\ cache \in [DOMAIN cache -> Entry]
      /\ cache' = [cache EXCEPT ![o].hits = @ + 1]
  BY DEF ResolveHit, Fresh, CacheInv, CacheIsMap
<1>2. cache[o] \in Entry /\ [cache[o] EXCEPT !.hits = @ + 1] \in Entry
      /\ [cache[o] EXCEPT !.hits = @ + 1].node = cache[o].node
  BY <1>1 DEF Entry
<1>3. cache' = [cache EXCEPT ![o] = [cache[o] EXCEPT !.hits = @ + 1]]
  BY <1>1
<1>4. /\ DOMAIN cache' = DOMAIN cache /\ cache' \in [DOMAIN cache -> Entry]
      /\ \A p \in DOMAIN cache : cache'[p].node = cache[p].node
  BY <1>1, <1>2, <1>3
<1> QED BY <1>4 DEF CacheInv, CacheIsMap, CacheBounded, CachedIsClosest

\* An answer is cached in the room that was made for it.
LEMMA MissCache ==
  ASSUME CacheInv, now \in 0..MaxTime, NEW o \in Oids,
         Ancestors(o) \cap Tree # {}, CacheResult(o, Closest(o))
  PROVE  CacheInv'
<1> DEFINE e == [node |-> Closest(o), stamp |-> now, hits |-> 0]
<1>1. PICK c \in MakesRoom(cache) :
        cache' = [p \in DOMAIN c \cup {o} |-> IF p = o THEN e ELSE c[p]]
  BY DEF CacheResult
<1>2. /\ DOMAIN c \subseteq DOMAIN cache /\ \A p \in DOMAIN c : c[p] = cache[p]
      /\ IsFiniteSet(DOMAIN c) /\ Cardinality(DOMAIN c) + 1 <= CacheSize
  <2>1. now \in Nat
    BY MibAssumption
  <2> QED BY <2>1, RoomIsMade DEF CacheInv, CacheIsMap, CacheBounded
<1>3. /\ Closest(o) \in Tree
      /\ \A p \in Tree : (\E i \in 1..Len(o) : p = SubSeq(o, 1, i)) =>
           Len(p) <= Len(Closest(o))
  BY ClosestIsLongest
<1>4. e \in Entry
  BY <1>3 DEF Entry
<1>5. /\ DOMAIN cache' = DOMAIN c \cup {o} /\ cache'[o] = e
      /\ \A p \in DOMAIN c : p # o => cache'[p] = cache[p]
  BY <1>1, <1>2
<1>6. cache' \in [DOMAIN cache' -> Entry]
  <2>1. \A p \in DOMAIN cache : cache[p] \in Entry
    BY DEF CacheInv, CacheIsMap
  <2> HIDE DEF e
  <2> QED BY <1>1, <1>2, <1>4, <1>5, <2>1
<1>7. /\ IsFiniteSet(DOMAIN c \cup {o})
      /\ Cardinality(DOMAIN c \cup {o}) =
           IF o \in DOMAIN c THEN Cardinality(DOMAIN c) ELSE Cardinality(DOMAIN c) + 1
  BY <1>2, FS_AddElement
<1>8. CacheBounded'
  <2>1. Cardinality(DOMAIN c) \in Nat
    BY <1>2, FS_CardinalityType
  <2> QED BY <1>2, <1>5, <1>7, <2>1, MibAssumption DEF CacheBounded
<1>9. CachedIsClosest'
  <2>1. \A p \in DOMAIN c : p # o => cache'[p].node = cache[p].node /\ p \in DOMAIN cache
    BY <1>2, <1>5
  <2>2. cache'[o].node = Closest(o)
    BY <1>5
  <2> HIDE DEF e
  <2> QED BY <1>3, <1>5, <2>1, <2>2 DEF CacheInv, CachedIsClosest
<1> QED BY <1>2, <1>5, <1>6, <1>7, <1>8, <1>9 DEF CacheInv, CacheIsMap

\* Every step keeps the cache bounded and right.
LEMMA CacheStep ==
  ASSUME CacheInv, now \in 0..MaxTime, [MibNext]_mibVars
  PROVE  CacheInv'
<1>1. CASE UNCHANGED cache
  BY <1>1 DEF CacheInv, CacheIsMap, CacheBounded, CachedIsClosest
<1>2. CASE cache' = <<>>
  BY <1>2, EmptyCache
<1>3. ASSUME NEW o \in Oids, ResolveOIDDetailed(o) PROVE CacheInv'
  <2>1. CASE ResolveHit(o)
    BY <2>1, HitCache
  <2>2. CASE ResolveMiss(o)
    BY <1>1, <2>2, MissCache DEF ResolveMiss
  <2> QED BY <1>3, <2>1, <2>2 DEF ResolveOIDDetailed
<1>4. HandleFileChange => UNCHANGED cache \/ cache' = <<>>
  BY DEF HandleFileChange, CacheCleared
<1> QED BY <1>1, <1>2, <1>3, <1>4
        DEF MibNext, LoadAll, StartHotReload, StopHotReload, SeeEvent, ClearCache,
            ResolveNameDetailed, TimePasses, WriteFile, mibVars

\* What was loaded is what the files hold.
LEMMA LoadTypes ==
  ASSUME MibTypeOK, NEW fs \in SUBSET Files, Load(fs)
  PROVE  /\ files' \in [Files -> Contents \cup {NoFile}]
         /\ parsedOK' \in [Files -> BOOLEAN]
         /\ mibs' \in [Files -> Versions \cup {NoFile}]
         /\ nodes' \subseteq UNION {Objects[v] : v \in Versions}
<1>1. ParsedObjects(fs) \subseteq UNION {Objects[v] : v \in Versions}
  BY DEF ParsedObjects
<1>2. nodes' \subseteq UNION {Objects[v] : v \in Versions}
  BY <1>1 DEF Load, MibTypeOK
<1>3. \A f \in Files : disk[f] \in Contents /\ files[f] \in Contents \cup {NoFile}
                       /\ mibs[f] \in Versions \cup {NoFile} /\ parsedOK[f] \in BOOLEAN
  BY DEF MibTypeOK
<1>4. files' \in [Files -> Contents \cup {NoFile}]
  BY <1>3 DEF Load
<1>5. parsedOK' \in [Files -> BOOLEAN]
  <2>1. \A f \in Files : (disk[f] \in Versions) \in BOOLEAN /\ parsedOK[f] \in BOOLEAN
    BY <1>3
  <2>2. \A f \in Files : (IF f \in fs THEN disk[f] \in Versions ELSE parsedOK[f]) \in BOOLEAN
    BY <2>1
  <2>3. parsedOK' = [f \in Files |-> IF f \in fs THEN disk[f] \in Versions ELSE parsedOK[f]]
    BY DEF Load
  <2> QED BY <2>2, <2>3
<1>6. mibs' \in [Files -> Versions \cup {NoFile}]
  BY <1>3 DEF Load
<1> QED BY <1>2, <1>4, <1>5, <1>6

\* Every lookup is counted once.
LEMMA CountedTypes ==
  ASSUME mibStats \in [Counters -> Nat], NEW cs, mibStats' = Counted(cs)
  PROVE  /\ mibStats' \in [Counters -> Nat]
         /\ \A c \in Counters : mibStats'[c] = mibStats[c] + (IF c \in cs THEN 1 ELSE 0)
BY DEF Counted

\* Every step keeps the types and the counters.
LEMMA MibTypeStep ==
  ASSUME MibTypeOK, LookupsCounted, CacheInv', [MibNext]_mibVars
  PROVE  MibTypeOK' /\ LookupsCounted'
<1>0. /\ DOMAIN cache' \subseteq Oids
      /\ \A o \in DOMAIN cache' : cache'[o] \in Entry
  BY DEF CacheInv, CacheIsMap
<1> USE <1>0
<1>1. CASE UNCHANGED mibVars
  BY <1>1 DEF mibVars, MibTypeOK, LookupsCounted
<1>2. CASE LoadAll
  <2>1. Loadable \in SUBSET Files
    BY DEF Loadable
  <2>2. phase' \in {"loaded", "failed"}
    BY <1>2 DEF LoadAll
  <2> QED BY <1>2, <2>1, <2>2, LoadTypes DEF LoadAll, MibTypeOK, LookupsCounted
<1>3. CASE StartHotReload \/ StopHotReload
  <2>1. /\ UNCHANGED <<disk, files, parsedOK, mibs, nodes, changing, now, mibStats,
                       stuck, missed, writes>>
        /\ phase' \in {"watching", "stopped"} /\ events' \in Seq(Files)
    <3>1. events \in Seq(Files) /\ <<>> \in Seq(Files)
      BY DEF MibTypeOK
    <3>2. CASE StartHotReload
      BY <3>1, <3>2 DEF StartHotReload, diskVars, loadVars
    <3>3. CASE StopHotReload
      BY <3>1, <3>3 DEF StopHotReload, diskVars, loadVars
    <3> QED BY <1>3, <3>2, <3>3
  <2> QED BY <2>1 DEF MibTypeOK, LookupsCounted
<1>4. CASE SeeEvent
  <2>1. events \in Seq(Files) /\ events # <<>>
    BY <1>4 DEF SeeEvent, MibTypeOK
  <2>2. Head(events) \in Files /\ Tail(events) \in Seq(Files)
    BY <2>1
  <2> QED BY <1>4, <2>2 DEF SeeEvent, AfterSeen, MibTypeOK, LookupsCounted, diskVars, loadVars
<1>5. CASE HandleFileChange
  <2>1. {changing} \cap Loadable \in SUBSET Files
    BY DEF Loadable
  <2> QED BY <1>5, <2>1, LoadTypes DEF HandleFileChange, MibTypeOK, LookupsCounted, diskVars
<1>6. CASE ClearCache \/ ResolveNameDetailed
  BY <1>6 DEF ClearCache, ResolveNameDetailed, MibTypeOK, LookupsCounted, diskVars, loadVars,
              watchVars
<1>7. CASE TimePasses
  BY <1>7, MibAssumption DEF TimePasses, MibTypeOK, LookupsCounted, diskVars, loadVars, watchVars
<1>8. ASSUME NEW f \in Files, NEW c \in Contents, WriteFile(f, c)
      PROVE  MibTypeOK' /\ LookupsCounted'
  <2>1. events' \in Seq(Files)
    BY <1>8 DEF WriteFile, MibTypeOK
  <2>2. writes' \in 0..MaxWrites
    BY <1>8, MibAssumption DEF WriteFile, MibTypeOK
  <2>3. disk' \in [Files -> Contents] /\ missed' \in SUBSET Files
    BY <1>8 DEF WriteFile, MibTypeOK
  <2> QED BY <1>8, <2>1, <2>2, <2>3 DEF WriteFile, MibTypeOK, LookupsCounted, loadVars
<1>9. ASSUME NEW o \in Oids, ResolveOIDDetailed(o) PROVE MibTypeOK' /\ LookupsCounted'
  <2>1. \E cs \in {HitCounters, {"lookups", "misses"}, {"lookups", "misses", "exact"},
                   {"lookups", "misses", "partial"}} : mibStats' = Counted(cs)
    BY <1>9 DEF ResolveOIDDetailed, ResolveHit, ResolveMiss
  <2>2. mibStats \in [Counters -> Nat]
    BY DEF MibTypeOK
  <2>3. mibStats' \in [Counters -> Nat] /\ LookupsCounted'
    <3>1. \A c \in Counters : mibStats[c] \in Nat
      BY <2>2
    <3>2. PICK cs \in {HitCounters, {"lookups", "misses"}, {"lookups", "misses", "exact"},
                       {"lookups", "misses", "partial"}} : mibStats' = Counted(cs)
      BY <2>1
    <3>3. /\ mibStats' \in [Counters -> Nat]
          /\ \A c \in Counters : mibStats'[c] = mibStats[c] + (IF c \in cs THEN 1 ELSE 0)
      BY <2>2, <3>2, CountedTypes
    <3> QED BY <3>1, <3>2, <3>3 DEF Counters, HitCounters, LookupsCounted
  <2> QED BY <1>9, <2>3 DEF ResolveOIDDetailed, MibTypeOK, diskVars, loadVars, watchVars
<1> QED BY <1>1, <1>2, <1>3, <1>4, <1>5, <1>6, <1>7, <1>8, <1>9 DEF MibNext

\* The invariant holds at the start and is kept.
LEMMA MibInitHolds == MibInit => MibInv
<1> SUFFICES ASSUME MibInit PROVE MibInv
  OBVIOUS
<1>1. cache = <<>> /\ DOMAIN cache = {} /\ cache \in [{} -> Entry]
  BY DEF MibInit
<1>2. IsFiniteSet({}) /\ Cardinality({}) = 0
  BY FS_EmptySet
<1>3. CacheIsMap /\ CacheBounded /\ CachedIsClosest
  BY <1>1, <1>2, MibAssumption DEF CacheIsMap, CacheBounded, CachedIsClosest
<1>4. MibTypeOK
  <2>1. events \in Seq(Files) /\ nodes \subseteq UNION {Objects[v] : v \in Versions}
    BY DEF MibInit
  <2>2. /\ disk \in [Files -> Contents] /\ files \in [Files -> Contents \cup {NoFile}]
        /\ parsedOK \in [Files -> BOOLEAN] /\ mibs \in [Files -> Versions \cup {NoFile}]
        /\ mibStats \in [Counters -> Nat]
    BY DEF MibInit
  <2>3. now \in 0..MaxTime /\ writes \in 0..MaxWrites
    BY MibAssumption DEF MibInit
  <2> QED BY <1>1, <2>1, <2>2, <2>3 DEF MibInit, MibTypeOK
<1>5. LookupsCounted
  BY DEF MibInit, LookupsCounted, Counters
<1> QED BY <1>3, <1>4, <1>5 DEF MibInv, CacheSound

\* Every step keeps the invariant.
LEMMA MibInvStep == MibInv /\ [MibNext]_mibVars => MibInv'
<1> SUFFICES ASSUME MibInv, [MibNext]_mibVars PROVE MibInv'
  OBVIOUS
<1>1. CacheInv /\ now \in 0..MaxTime
  BY DEF MibInv, CacheSound, MibTypeOK, CacheInv
<1>2. CacheInv'
  BY <1>1, CacheStep
<1>3. MibTypeOK' /\ LookupsCounted'
  BY <1>2, MibTypeStep DEF MibInv, CacheSound
<1> QED BY <1>2, <1>3 DEF MibInv, CacheSound, CacheInv

\* However lookups, expiry, reloads and evictions interleave, the cache of OIDs
\* is bounded, its answers name the closest known node, and each lookup is
\* counted once.
THEOREM CacheStaysSound == MibSpec => []CacheSound
<1>1. MibInv => CacheSound
  BY DEF MibInv
<1> QED BY <1>1, MibInitHolds, MibInvStep, PTL DEF MibSpec

\* What a step does to the cache: it leaves it, empties it, counts a hit, or
\* makes room and adds an answer.
LEMMA CacheChanges ==
  ASSUME [MibNext]_mibVars
  PROVE  \/ UNCHANGED cache
         \/ cache' = <<>>
         \/ \E o \in Oids : UNCHANGED phase /\ UNCHANGED files /\ ResolveHit(o)
         \/ \E o \in Oids : UNCHANGED phase /\ UNCHANGED files /\ ~Fresh(o)
                              /\ CacheResult(o, Closest(o))
<1>1. ASSUME NEW o \in Oids, ResolveOIDDetailed(o)
      PROVE  \/ UNCHANGED cache
             \/ UNCHANGED phase /\ UNCHANGED files /\ ResolveHit(o)
             \/ UNCHANGED phase /\ UNCHANGED files /\ ~Fresh(o) /\ CacheResult(o, Closest(o))
  <2>1. UNCHANGED phase /\ UNCHANGED files
    BY <1>1 DEF ResolveOIDDetailed, loadVars, watchVars
  <2> QED BY <1>1, <2>1 DEF ResolveOIDDetailed, ResolveMiss
<1>2. HandleFileChange => UNCHANGED cache \/ cache' = <<>>
  BY DEF HandleFileChange, CacheCleared
<1> QED BY <1>1, <1>2
        DEF MibNext, LoadAll, StartHotReload, StopHotReload, SeeEvent, ClearCache,
            ResolveNameDetailed, TimePasses, WriteFile, mibVars

\* An entry is hit only while it is fresh: a new answer starts without hits.
LEMMA HitsAreFresh ==
  ASSUME MibInv, [MibNext]_mibVars,
         NEW o \in DOMAIN cache, o \in DOMAIN cache', cache'[o].hits > cache[o].hits
  PROVE  now - cache[o].stamp < CacheExpiry
<1>0. cache \in [DOMAIN cache -> Entry] /\ cache[o].hits \in Nat
  BY DEF MibInv, CacheIsMap, Entry
<1>1. CASE UNCHANGED cache
  BY <1>0, <1>1
<1>2. CASE cache' = <<>>
  BY <1>2
<1>3. ASSUME NEW q \in Oids, ResolveHit(q) PROVE now - cache[o].stamp < CacheExpiry
  <2>1. q # o => cache'[o] = cache[o]
    BY <1>0, <1>3 DEF ResolveHit
  <2>2. q = o
    BY <1>0, <2>1
  <2> QED BY <1>3, <2>2 DEF ResolveHit, Fresh
<1>4. ASSUME NEW q \in Oids, CacheResult(q, Closest(q)) PROVE FALSE
  <2> DEFINE e == [node |-> Closest(q), stamp |-> now, hits |-> 0]
  <2>1. PICK c \in MakesRoom(cache) :
          cache' = [p \in DOMAIN c \cup {q} |-> IF p = q THEN e ELSE c[p]]
    BY <1>4 DEF CacheResult
  <2>2. \A p \in DOMAIN c : c[p] = cache[p]
    <3>1. now \in Nat
      BY MibAssumption DEF MibInv, CacheSound, MibTypeOK
    <3> QED BY <3>1, RoomIsMade DEF MibInv, CacheSound, CacheIsMap, CacheBounded
  <2>3. cache'[o].hits = 0 \/ cache'[o] = cache[o]
    BY <2>1, <2>2
  <2> QED BY <1>0, <2>3
<1> QED BY <1>1, <1>2, <1>3, <1>4, CacheChanges

\* A file is read again only by the watcher goroutine, which clears the cache.
LEMMA ReloadClears ==
  ASSUME MibInv, [MibNext]_mibVars, files' # files, phase = "watching"
  PROVE  cache' = <<>>
<1>1. ASSUME HandleFileChange PROVE cache' = <<>>
  <2>1. CASE changing \in Loadable
    BY <1>1, <2>1 DEF HandleFileChange, CacheCleared
  <2>2. CASE changing \notin Loadable
    <3>1. {changing} \cap Loadable = {}
      BY <2>2
    <3>2. files' = [f \in Files |-> files[f]]
      BY <1>1, <3>1 DEF HandleFileChange, Load
    <3>3. files' = files
      BY <3>2 DEF MibInv, CacheSound, MibTypeOK
    <3> QED BY <3>3
  <2> QED BY <2>1, <2>2
<1> QED BY <1>1 DEF MibNext, LoadAll, StartHotReload, StopHotReload, SeeEvent, ClearCache,
            ResolveNameDetailed, TimePasses, WriteFile, ResolveOIDDetailed, mibVars, loadVars

\* An entry leaves before its time for a new answer only, and then no entry
\* that stays was used less often.
LEMMA PopularStayStep ==
  ASSUME MibInv, [MibNext]_mibVars, cache' # <<>>,
         NEW o \in DOMAIN Unexpired(cache) \ DOMAIN cache',
         NEW p \in DOMAIN cache \cap DOMAIN cache', cache[p] = cache'[p]
  PROVE  cache[o].hits <= cache[p].hits
<1>0. cache \in [DOMAIN cache -> Entry] /\ now \in Nat /\ CacheExpiry \in Nat
      /\ o \in DOMAIN cache
  BY MibAssumption DEF MibInv, CacheSound, MibTypeOK, CacheIsMap, Unexpired, Without
<1>1. CASE UNCHANGED cache
  BY <1>0, <1>1
<1>2. ASSUME NEW q \in Oids, ResolveHit(q) PROVE FALSE
  BY <1>0, <1>2 DEF ResolveHit
<1>3. ASSUME NEW q \in Oids, CacheResult(q, Closest(q))
      PROVE  cache[o].hits <= cache[p].hits
  <2> DEFINE e == [node |-> Closest(q), stamp |-> now, hits |-> 0]
  <2>1. PICK c \in MakesRoom(cache) :
          cache' = [r \in DOMAIN c \cup {q} |-> IF r = q THEN e ELSE c[r]]
    BY <1>3 DEF CacheResult
  <2>2. /\ DOMAIN c \subseteq DOMAIN cache
        /\ \A r \in DOMAIN Unexpired(cache) \ DOMAIN c :
             \A s \in DOMAIN Unexpired(cache) : cache[r].hits <= cache[s].hits
        /\ c = cache \/ DOMAIN c \subseteq DOMAIN Unexpired(cache)
    BY <1>0, RoomIsMade DEF MibInv, CacheSound, CacheIsMap, CacheBounded
  <2>3. DOMAIN cache' = DOMAIN c \cup {q}
    BY <2>1
  <2>4. o \notin DOMAIN c
    BY <2>3
  <2>5. p \in DOMAIN Unexpired(cache)
    <3>1. CASE p = q
      <4>1. cache[p].stamp = now
        BY <2>1, <2>3, <3>1
      <4>2. ~(now - cache[p].stamp > CacheExpiry)
        BY <1>0, <4>1
      <4> QED BY <4>2 DEF Unexpired, Without
    <3>2. CASE p # q
      <4>1. p \in DOMAIN c
        BY <2>3, <3>2
      <4>2. c # cache
        BY <1>0, <2>4
      <4> QED BY <2>2, <4>1, <4>2
    <3> QED BY <3>1, <3>2
  <2> QED BY <2>2, <2>4, <2>5
<1> QED BY <1>1, <1>2, <1>3, CacheChanges

\* No answer from the cache is older than its time or than the last reload, and
\* what is evicted before its time was not used more often than what stays,
\* whatever was looked up, written and reloaded in between.
THEOREM AnswersStayCurrent == MibSpec => AnswersCurrent
<1>1. MibInv /\ [MibNext]_mibVars =>
        [\A o \in DOMAIN cache :
           (o \in DOMAIN cache' /\ cache'[o].hits > cache[o].hits) =>
             now - cache[o].stamp < CacheExpiry]_mibVars
  BY HitsAreFresh
<1>2. MibInv /\ [MibNext]_mibVars =>
        [files' # files /\ phase = "watching" => cache' = <<>>]_mibVars
  BY ReloadClears
<1>3. MibInv /\ [MibNext]_mibVars =>
        [phase' = phase /\ cache' # <<>> =>
           \A o \in DOMAIN Unexpired(cache) \ DOMAIN cache',
              p \in DOMAIN cache \cap DOMAIN cache' :
             cache[p] = cache'[p] => cache[o].hits <= cache[p].hits]_mibVars
  BY PopularStayStep
<1>4. MibSpec => ExpiredNotServed
  BY <1>1, MibInitHolds, MibInvStep, PTL DEF MibSpec, ExpiredNotServed
<1>5. MibSpec => ReloadForgets
  BY <1>2, MibInitHolds, MibInvStep, PTL DEF MibSpec, ReloadForgets
<1>6. MibSpec => PopularStay
  BY <1>3, MibInitHolds, MibInvStep, PTL DEF MibSpec, PopularStay
<1> QED BY <1>4, <1>5, <1>6 DEF AnswersCurrent

=============================================================================
