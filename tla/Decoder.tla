------------------------------- MODULE Decoder -------------------------------
(***************************************************************************)
(* What a worker of the listener does with one datagram: SNMPParser        *)
(* (internal/mib/parser.go) walks over the bytes with an offset, and       *)
(* PacketValidator (internal/listener/listener.go) checks the packet it    *)
(* found.  A step is one parse function.  The parser trusts nothing but    *)
(* its own bounds checks: the lengths of the PDU and of a varbind are read *)
(* and ignored, and the end of the varbind list may lie anywhere.          *)
(*                                                                         *)
(* What was parsed is kept as the place of its bytes in the datagram,      *)
(* which never changes; Packet computes the values the code computes.  A   *)
(* byte past the end, which the code would panic on, reads as 0: that the  *)
(* offset and every place a value is read from lie inside the datagram is  *)
(* a property.                                                             *)
(***************************************************************************)
EXTENDS Integers, SequencesExt

CONSTANTS Datagrams,    \* the byte strings that may arrive
          Messages,     \* the traps whose encodings the properties speak of
          LengthBytes,  \* bytes a long length may have: 4 in the code
          IntBytes,     \* bytes of an int64: 8 in the code
          RequestBytes, \* bytes of the int32 of the request ID: 4 in the code
          CounterBytes, \* bytes of a uint32: 4 in the code
          Counter64Bytes \* bytes of a uint64: 8 in the code

CONSTANTS Sources,            \* the addresses datagrams come from
          MaxPacketSize, MaxVarbinds, MaxOIDLength, MaxStringLength,
          AllowedCommunities, \* set of byte strings; empty for no restriction
          BlockedSources,     \* patterns; a pattern is the set of addresses
          AllowedSources      \* it matches.  Empty for no restriction

Byte == 0..255

ASSUME DecoderAssumption ==
  /\ Datagrams \subseteq Seq(Byte)
  /\ LengthBytes \in 2..4 /\ IntBytes \in Nat \ {0} /\ RequestBytes \in 1..IntBytes
  /\ CounterBytes \in Nat \ {0} /\ Counter64Bytes \in Nat \ {0}
  /\ MaxPacketSize \in Nat /\ MaxVarbinds \in Nat /\ MaxOIDLength \in Nat
  /\ MaxStringLength \in Nat

tagInteger == 2
tagOctetString == 4
tagNull == 5
tagObjectIdentifier == 6
tagSequence == 48
tagIPAddress == 64
Unsigned32 == {65, 66, 67}
tagCounter64 == 70
tagTrapV2 == 167
versionSNMPv2c == 1

VARIABLES
  data,      \* SNMPParser.data
  source,    \* the address of the sender
  offset,    \* SNMPParser.offset
  at,        \* the field the parser expects, or how the datagram ended
  fields,    \* the places of the header fields parsed so far
  endOffset, \* end of the varbind list
  oid,       \* the place of the object identifier of the current varbind
  varbinds   \* the varbinds parsed so far

vars == <<data, source, offset, at, fields, endOffset, oid, varbinds>>

Fields == {"version", "community", "requestID", "errorStatus", "errorIndex"}
Steps == {"message", "pdu", "list", "varbind", "oid", "value", "parsed"} \cup Fields
Ends == {"malformed", "invalid", "forwarded"}

\* The bytes from..to-1 of the datagram.
Span == [from : Nat, to : Nat]
Nowhere == [from |-> 0, to |-> 0]

Init ==
  /\ data \in Datagrams /\ source \in Sources
  /\ offset = 0 /\ at = "message" /\ endOffset = 0
  /\ fields = [f \in Fields |-> Nowhere]
  /\ oid = Nowhere /\ varbinds = <<>>

-----------------------------------------------------------------------------
(* Bytes, tags and lengths *)

Size == Len(data)

ByteAt(o) == IF o < Size THEN data[o + 1] ELSE 0

\* Faulty variant: one byte too many is let through.
FitsOrNearly(end) == end <= Size + 1
Fits(end) == end <= Size

\* The big-endian value of n <= 4 bytes at o.
LongLength(o, n) ==
  LET two == (256 * ByteAt(o)) + ByteAt(o + 1)
      three == (256 * two) + ByteAt(o + 2)
  IN CASE n = 1 -> ByteAt(o) [] n = 2 -> two [] n = 3 -> three
       [] OTHER -> (256 * three) + ByteAt(o + 3)

\* parseLength at o: whether it succeeds, the length and where it leaves the
\* offset.
ReadLength(o) ==
  LET first == ByteAt(o)
      count == first - 128
  IN IF ~Fits(o + 1) THEN [ok |-> FALSE, len |-> 0, next |-> o]
     ELSE IF first < 128 THEN [ok |-> TRUE, len |-> first, next |-> o + 1]
     ELSE IF count = 0 \/ count > LengthBytes \/ ~Fits(o + 1 + count)
          THEN [ok |-> FALSE, len |-> 0, next |-> o + 1]
     ELSE [ok |-> TRUE, next |-> o + 1 + count,
           len |-> LongLength(o + 1, count)]

\* expectTag and parseLength of a constructed element.
Opens(tag) == Fits(offset + 1) /\ ByteAt(offset) = tag /\ ReadLength(offset + 1).ok
Inside == ReadLength(offset + 1).next
Declared == Inside + ReadLength(offset + 1).len

\* A primitive element is used only when its content lies in the datagram.
\* Faulty variant: the claimed length is believed.
Believed(tag) == Opens(tag)
Complete(tag) == Opens(tag) /\ Fits(Declared)
Content == [from |-> Inside, to |-> Declared]

-----------------------------------------------------------------------------
(* Values *)

Width(s) == s.to - s.from

Octets(s) == [i \in 1..Width(s) |-> ByteAt(s.from + i - 1)]

\* The number of values a word of w bytes has.
Words[w \in Nat] == IF w = 0 THEN 1 ELSE 256 * Words[w - 1]

\* value << 8 | b for each byte, in a word of w bytes.
Unsigned(bytes, w) ==
  LET value[i \in 0..Len(bytes)] ==
        IF i = 0 THEN 0 ELSE (256 * value[i - 1] + bytes[i]) % Words[w]
  IN value[Len(bytes)]

\* Two's complement: the first byte has the sign of a value shorter than the
\* word, the word itself that of a longer one.
Signed(bytes, w) ==
  LET n == Unsigned(bytes, w)
      word == Words[IF Len(bytes) < w THEN Len(bytes) ELSE w]
  IN IF 2 * n >= word THEN n - word ELSE n

\* Faulty variant: the sign is lost.
Magnitude(s) == Unsigned(Octets(s), IntBytes)
Integer(s) == Signed(Octets(s), IntBytes)

\* int32(requestID): the low half of the integer.
Request(s) ==
  LET word == Words[RequestBytes]
      low == Integer(s) % word
  IN IF 2 * low >= word THEN low - word ELSE low

\* decodeObjectIdentifier: a byte without the high bit ends an arc, and so
\* does the end of the data.
Arcs(bytes) ==
  LET read[i \in 1..Len(bytes)] ==
        IF i = 1 THEN [arcs |-> <<bytes[1] \div 40, bytes[1] % 40>>, sum |-> 0]
        ELSE LET before == read[i - 1]
                 n == (128 * before.sum + (bytes[i] % 128)) % Words[Counter64Bytes]
             IN IF bytes[i] < 128 \/ i = Len(bytes)
                THEN [arcs |-> Append(before.arcs, n), sum |-> 0]
                ELSE [arcs |-> before.arcs, sum |-> n]
  IN read[Len(bytes)].arcs

\* The decimal text of an arc has a digit per power of ten.
Digits[n \in Nat] == IF n < 10 THEN 1 ELSE 1 + Digits[n \div 10]

\* The characters of the dotted notation.
TextLength(arcs) ==
  FoldLeft(LAMBDA n, arc : n + 1 + Digits[arc], -1, arcs)

Value(v) ==
  LET bytes == Octets(v.value)
  IN CASE v.type = tagInteger          -> Integer(v.value)
       [] v.type = tagNull             -> <<>>
       [] v.type = tagObjectIdentifier -> Arcs(bytes)
       [] v.type \in Unsigned32        -> Unsigned(bytes, CounterBytes)
       [] v.type = tagCounter64        -> Unsigned(bytes, Counter64Bytes)
       [] OTHER                        -> bytes

\* The packet ParseSNMPPacket returns, without its time.
Packet ==
  [version |-> Integer(fields["version"]), community |-> Octets(fields["community"]),
   requestID |-> Request(fields["requestID"]),
   errorStatus |-> Integer(fields["errorStatus"]),
   errorIndex |-> Integer(fields["errorIndex"]),
   varbinds |-> [i \in 1..Len(varbinds) |->
                   [oid |-> Arcs(Octets(varbinds[i].oid)), type |-> varbinds[i].type,
                    value |-> Value(varbinds[i])]]]

-----------------------------------------------------------------------------
(* ParseSNMPPacket: one action per parse function *)

Reached(step, o) == at' = step /\ offset' = o
Kept == UNCHANGED <<data, source>>

Refuse ==
  /\ at' = "malformed"
  /\ UNCHANGED <<data, source, offset, fields, endOffset, oid, varbinds>>

\* The outer sequence must lie in the datagram; bytes after it are ignored.
ParseMessage ==
  /\ at = "message"
  /\ IF Complete(tagSequence)
     THEN /\ Reached("version", Inside)
          /\ Kept /\ UNCHANGED <<fields, endOffset, oid, varbinds>>
     ELSE Refuse

After == [version |-> "community", requestID |-> "errorStatus",
          errorStatus |-> "errorIndex", errorIndex |-> "list"]

ParseInteger ==
  /\ at \in DOMAIN After
  /\ IF Complete(tagInteger)
     THEN /\ Reached(After[at], Declared)
          /\ fields' = [fields EXCEPT ![at] = Content]
          /\ Kept /\ UNCHANGED <<endOffset, oid, varbinds>>
     ELSE Refuse

\* The version decides after the community was parsed.
ParseCommunity ==
  /\ at = "community"
  /\ IF Complete(tagOctetString) /\ Integer(fields["version"]) = versionSNMPv2c
     THEN /\ Reached("pdu", Declared)
          /\ fields' = [fields EXCEPT !["community"] = Content]
          /\ Kept /\ UNCHANGED <<endOffset, oid, varbinds>>
     ELSE Refuse

\* The length of the PDU is read and ignored.
ParsePDU ==
  /\ at = "pdu"
  /\ IF Opens(tagTrapV2)
     THEN /\ Reached("requestID", Inside)
          /\ Kept /\ UNCHANGED <<fields, endOffset, oid, varbinds>>
     ELSE Refuse

ParseVarbindList ==
  /\ at = "list"
  /\ IF Opens(tagSequence)
     THEN /\ Reached("varbind", Inside)
          /\ endOffset' = Declared
          /\ Kept /\ UNCHANGED <<fields, oid, varbinds>>
     ELSE Refuse

\* Faulty variant: a varbind that does not open is passed over, by no byte.
TriesAgain ==
  /\ at = "varbind" /\ offset < endOffset
  /\ Opens(tagSequence)
  /\ Reached("oid", Inside)
  /\ Kept /\ UNCHANGED <<fields, endOffset, oid, varbinds>>

\* The length of a varbind is read and ignored, so the last one may overshoot
\* the list.
OpenVarbind ==
  /\ at = "varbind" /\ offset < endOffset
  /\ IF Opens(tagSequence)
     THEN /\ Reached("oid", Inside)
          /\ Kept /\ UNCHANGED <<fields, endOffset, oid, varbinds>>
     ELSE Refuse

EndOfList ==
  /\ at = "varbind" /\ offset >= endOffset
  /\ Reached("parsed", offset)
  /\ Kept /\ UNCHANGED <<fields, endOffset, oid, varbinds>>

\* Faulty variant: an object identifier may be empty.
EmptyOID ==
  /\ at = "oid"
  /\ IF Complete(tagObjectIdentifier)
     THEN /\ Reached("value", Declared)
          /\ oid' = Content
          /\ Kept /\ UNCHANGED <<fields, endOffset, varbinds>>
     ELSE Refuse

\* parseObjectIdentifier; decodeObjectIdentifier refuses no bytes at all.
ParseOID ==
  /\ at = "oid"
  /\ IF Complete(tagObjectIdentifier) /\ Width(Content) > 0
     THEN /\ Reached("value", Declared)
          /\ oid' = Content
          /\ Kept /\ UNCHANGED <<fields, endOffset, varbinds>>
     ELSE Refuse

\* A value may have any tag; an address has four bytes and an object
\* identifier at least one.
Acceptable(tag, s) == /\ tag = tagIPAddress => Width(s) = 4
                      /\ tag = tagObjectIdentifier => Width(s) > 0

ParseValue ==
  LET tag == ByteAt(offset)
  IN /\ at = "value"
     /\ IF Complete(tag) /\ Acceptable(tag, Content)
        THEN /\ Reached("varbind", Declared)
             /\ varbinds' = Append(varbinds, [oid |-> oid, type |-> tag, value |-> Content])
             /\ Kept /\ UNCHANGED <<fields, endOffset, oid>>
        ELSE Refuse

-----------------------------------------------------------------------------
(* ValidatePacket *)

\* Faulty variant: a source that is allowed is not looked up in the blocked ones.
AllowedFirst == \/ \A pattern \in BlockedSources : source \notin pattern
                \/ \E pattern \in AllowedSources : source \in pattern
SourceAllowed == /\ \A pattern \in BlockedSources : source \notin pattern
                 /\ AllowedSources = {} \/ \E pattern \in AllowedSources : source \in pattern

CommunityAllowed == \/ AllowedCommunities = {}
                    \/ Octets(fields["community"]) \in AllowedCommunities

\* The length of strings is not checked: the decoder gives bytes, the check
\* asks for a Go string.
VarbindsAllowed ==
  /\ Len(varbinds) <= MaxVarbinds
  /\ \A i \in 1..Len(varbinds) : TextLength(Arcs(Octets(varbinds[i].oid))) <= MaxOIDLength

NoError == Integer(fields["errorStatus"]) = 0 /\ Integer(fields["errorIndex"]) = 0

Valid == /\ Size <= MaxPacketSize /\ SourceAllowed /\ CommunityAllowed
         /\ VarbindsAllowed /\ NoError

\* processTrap counts a packet that is refused and forwards one that is not.
Validate ==
  /\ at = "parsed"
  /\ at' = IF Valid THEN "forwarded" ELSE "invalid"
  /\ UNCHANGED <<data, source, offset, fields, endOffset, oid, varbinds>>

Parse == \/ ParseMessage \/ ParseInteger \/ ParseCommunity \/ ParsePDU
         \/ ParseVarbindList \/ OpenVarbind \/ EndOfList
         \/ ParseOID \/ ParseValue

Next == Parse \/ Validate

\* A worker runs processTrap to its end.
Spec == Init /\ [][Next]_vars /\ WF_vars(Next)

-----------------------------------------------------------------------------
(* Properties *)

Sender == INSTANCE BerEncoding

\* What an agent may send so that it is decoded to the same: integers that fit
\* the decoder's words, and object identifiers whose first two arcs share a
\* byte as it takes them apart.
Signeds(w) == {n \in Int : -Words[w] <= 2 * n /\ 2 * n < Words[w]}
Unsigneds(w) == {n \in Nat : n < Words[w]}

Names == {arcs \in Seq(Unsigneds(Counter64Bytes)) :
            Len(arcs) >= 2 /\ arcs[2] < 40 /\ 40 * arcs[1] + arcs[2] < 128}

Varbinds ==
  [oid : Names, type : {tagInteger}, value : Signeds(IntBytes)]
    \cup [oid : Names, type : {tagOctetString}, value : Seq(Byte)]
    \cup [oid : Names, type : {tagNull}, value : {<<>>}]
    \cup [oid : Names, type : {tagObjectIdentifier}, value : Names]
    \cup [oid : Names, type : {tagIPAddress}, value : {b \in Seq(Byte) : Len(b) = 4}]
    \cup [oid : Names, type : Unsigned32, value : Unsigneds(CounterBytes)]
    \cup [oid : Names, type : {tagCounter64}, value : Unsigneds(Counter64Bytes)]

Traps ==
  [version : Signeds(IntBytes), community : Seq(Byte),
   requestID : Signeds(RequestBytes), errorStatus : Signeds(IntBytes),
   errorIndex : Signeds(IntBytes), varbinds : Seq(Varbinds)]

\* A datagram has less than 2^16 bytes.
Sendable == {m \in Traps : \A bytes \in Sender!Encodings(m) : Len(bytes) < Words[2]}

Ended == at \in Ends
Decoded == at \in {"parsed", "invalid", "forwarded"}

InData(s) == s \in Span /\ s.from <= s.to /\ s.to <= Size

TypeOK ==
  /\ data \in Seq(Byte) /\ source \in Sources
  /\ at \in Steps \cup Ends
  /\ offset \in Nat /\ endOffset \in Nat
  /\ DOMAIN fields = Fields

\* Whatever lengths the datagram claims, the parser stays inside it: the
\* offset, and every place a value is read from, lies in the bytes received.
InsideDatagram ==
  /\ offset <= Size
  /\ \A f \in Fields : InData(fields[f])
  /\ InData(oid)
  /\ \A i \in 1..Len(varbinds) : InData(varbinds[i].oid) /\ InData(varbinds[i].value)

\* Claimed lengths buy no memory: behind the sixteen bytes that the tags and
\* lengths of the header take, every varbind appended has cost at least seven
\* bytes of the datagram.
VarbindsPaidFor == varbinds # <<>> => 16 + 7 * Len(varbinds) <= offset

\* The types, no read outside the datagram, and no varbind for nothing.
DecodeSound == TypeOK /\ InsideDatagram /\ VarbindsPaidFor

Permitted(m) ==
  /\ \A pattern \in BlockedSources : source \notin pattern
  /\ AllowedSources # {} => source \in UNION AllowedSources
  /\ AllowedCommunities # {} => m.community \in AllowedCommunities
  /\ Size <= MaxPacketSize /\ Len(m.varbinds) <= MaxVarbinds
  /\ \A i \in DOMAIN m.varbinds : TextLength(m.varbinds[i].oid) <= MaxOIDLength
  /\ m.errorStatus = 0 /\ m.errorIndex = 0

\* A trap as its sender encoded it, with short or long lengths, is decoded to
\* the trap that was sent, every integer with its sign and every varbind in
\* its order, and it is forwarded exactly when the validator's limits permit
\* what was sent.  Any other version is refused.
IntactIsDecoded ==
  \A m \in Messages : data \in Sender!Encodings(m) /\ Ended =>
    IF m.version # versionSNMPv2c THEN at = "malformed"
    ELSE Decoded /\ Packet = m /\ (at = "forwarded" <=> Permitted(m))

\* A trap that lost its tail on the way never passes for a shorter trap.
TruncatedIsRefused ==
  \A m \in Messages : \A sent \in Sender!Encodings(m) :
    IsStrictPrefix(data, sent) => ~Decoded

\* What the worker finds in a datagram is what its sender put into it, whole.
DecodedAsSent == IntactIsDecoded /\ TruncatedIsRefused

\* "Validate string values" (listener.go:249): no forwarded string is longer
\* than MaxStringLength.
StringsBounded ==
  at = "forwarded" => \A i \in 1..Len(varbinds) :
    varbinds[i].type = tagOctetString => Width(varbinds[i].value) <= MaxStringLength
=============================================================================
