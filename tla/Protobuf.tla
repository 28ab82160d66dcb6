------------------------------ MODULE Protobuf -------------------------------
(***************************************************************************)
(* packages/protocol-parser/src/parsers/protobuf: messages whose           *)
(* properties are each a header (the number of the property and its wire   *)
(* type) and a value, in the schema of test/protobuf.ts:                   *)
(*   object(a: varint, c: sub(object(x: varint, y: varint)), d: packed)    *)
(* A property of a message is a sequence: <<>> when it is undefined.       *)
(***************************************************************************)
EXTENDS Varints

CONSTANTS
  Numbers,  \* values of the properties that are numbers
  Lists,    \* values of the packed property
  Null      \* what a sub that is longer than its message is read as

VARIABLES
  sent,     \* the message: <<a, c, d>>, with c of the form <<x, y>>
  buffer,   \* what was written of it
  offset,   \* bytes read
  parser,   \* the parser that reads: which, up to where, for which property
  inside,   \* what the inner parser has read
  got       \* the message that is read

protoVars == <<sent, buffer, offset, parser, inside, got>>

------------------------------------------------------------------------------
Schema == [message |-> <<"varint", "object", "packed">>, object |-> <<"varint", "varint">>]

Empty(kind) == IF kind = "object" THEN <<<<>>, <<>>>> ELSE <<>>

WireType(kind) == IF kind = "varint" THEN {} ELSE {1}

\* The bits of the numbers that the parsers count with.
BitsOf[n \in Nat] ==
  IF n = 0 THEN {} ELSE {i \in {0} : n % 2 = 1} \union {i + 1 : i \in BitsOf[n \div 2]}

\* A byte: 3 bits of the wire type, 5 of the number of the property.
Header(id, kind) == WireType(kind) \union {i + 3 : i \in BitsOf[id]}

\* The reducer of getLength() does not use what it has summed so far.
LengthOf(o) == FoldLeft(LAMBDA previous, p : IF p = <<>> THEN 0 ELSE VarintLength(p[1]) + 1, 0, o)

\* Nothing is written of a property that writes nothing.
PropertyBytes(id, kind, body) == IF body = <<>> THEN <<>> ELSE <<Header(id, kind)>> \o body

NumberBytes(p) == IF p = <<>> THEN <<>> ELSE WriteVarint(p[1])

ObjectBytes(o) ==
  PropertyBytes(1, "varint", NumberBytes(o[1])) \o PropertyBytes(2, "varint", NumberBytes(o[2]))

ListBytes(items) == FlattenSeq([j \in DOMAIN items |-> WriteVarint(items[j])])
ListLength(items) == Len(ListBytes(items))

\* The length that the inner parser tells, then what it writes.
SubBytes(told, body) == WriteVarint(BitsOf[told]) \o body

MessageBytes(m) ==
  PropertyBytes(1, "varint", NumberBytes(m[1])) \o
  PropertyBytes(2, "object", IF m[2] = <<>> THEN <<>> ELSE SubBytes(LengthOf(m[2][1]), ObjectBytes(m[2][1]))) \o
  PropertyBytes(3, "packed", IF m[3] = <<>> THEN <<>> ELSE SubBytes(ListLength(m[3][1]), ListBytes(m[3][1])))

------------------------------------------------------------------------------
Optional(S) == {<<>>} \union {<<v>> : v \in S}
Outer == [kind |-> "message", end |-> Len(buffer), id |-> 0]

\* Numbers, and the length of a list in bytes, are what a varint is written for.
ASSUME MessagesAssumption ==
  /\ \A v \in Numbers : Accepts("varint", v)
  /\ Lists \subseteq Seq(Numbers) /\ \A l \in Lists : Accepts("varint", BitsOf[ListLength(l)])

ProtoInit ==
  /\ sent \in Optional(Numbers) \X Optional(Optional(Numbers) \X Optional(Numbers)) \X Optional(Lists)
  /\ buffer = MessageBytes(sent)
  /\ offset = 0
  /\ parser = Outer
  /\ inside = <<>>
  /\ got = <<<<>>, <<>>, <<>>>>

\* The number after the next `skip` bytes, in what the parser may read.
Ending(skip) == VarintEnd(buffer, offset + skip + 1, parser.end)
NumberNext(skip) == ReadTo(buffer, offset + skip + 1, Ending(skip))

InMessage == parser.kind \in DOMAIN Schema /\ offset < parser.end
head == buffer[offset + 1]
Names(id) == head = Header(id, Schema[parser.kind][id])
Known == \E id \in DOMAIN Schema[parser.kind] : Names(id)
property == CHOOSE id \in DOMAIN Schema[parser.kind] : Names(id)
Is(kinds) == InMessage /\ Known /\ Schema[parser.kind][property] \in kinds

Set(v) ==
  IF parser.kind = "message" THEN got' = [got EXCEPT ![property] = v] /\ UNCHANGED inside
  ELSE inside' = [inside EXCEPT ![property] = v] /\ UNCHANGED got

Throws == parser' = [parser EXCEPT !.kind = "thrown"] /\ UNCHANGED <<offset, inside, got>>

\* A header that names no property, or another wire type.
ReadUnknown == InMessage /\ ~Known /\ Throws /\ UNCHANGED <<sent, buffer>>

\* A header that ends what is read: ZeroOrOne reads nothing.
ReadNothing ==
  /\ InMessage /\ Known /\ offset + 1 = parser.end
  /\ Set(<<>>) /\ offset' = offset + 1
  /\ UNCHANGED <<sent, buffer, parser>>

ReadNumberProperty ==
  /\ Is({"varint"}) /\ offset + 1 < parser.end
  /\ IF NumberNext(1) = Overflow THEN Throws
     ELSE Set(<<NumberNext(1)>>) /\ offset' = Ending(1) /\ UNCHANGED parser
  /\ UNCHANGED <<sent, buffer>>

\* Mutant of TooLong: the reader goes back before the header.
TooLongAgain == Set(<<Null>>) /\ offset' = offset /\ UNCHANGED parser

\* The reader goes back before the length, and reads it as a header.
TooLong == Set(<<Null>>) /\ offset' = offset + 1 /\ UNCHANGED parser

\* The inner parser reads a part of the bytes.
OpenSub ==
  /\ Is({"object", "packed"}) /\ offset + 1 < parser.end
  /\ IF NumberNext(1) = Overflow THEN Throws
     ELSE IF \E n \in 0..(parser.end - Ending(1)) : BitsOf[n] = NumberNext(1)
     THEN LET n == CHOOSE n \in 0..(parser.end - Ending(1)) : BitsOf[n] = NumberNext(1)
              kind == Schema[parser.kind][property]
          IN /\ parser' = [kind |-> kind, end |-> Ending(1) + n, id |-> property]
             /\ offset' = Ending(1)
             /\ inside' = Empty(kind)
             /\ UNCHANGED got
     ELSE TooLong
  /\ UNCHANGED <<sent, buffer>>

ReadItem ==
  /\ parser.kind = "packed" /\ offset < parser.end
  /\ IF NumberNext(0) = Overflow THEN Throws
     ELSE inside' = Append(inside, NumberNext(0)) /\ offset' = Ending(0) /\ UNCHANGED <<parser, got>>
  /\ UNCHANGED <<sent, buffer>>

\* The property is assigned when its parser returns.
CloseSub ==
  /\ parser.kind \in {"object", "packed"} /\ offset = parser.end
  /\ got' = [got EXCEPT ![parser.id] = <<inside>>]
  /\ inside' = <<>>
  /\ parser' = Outer
  /\ UNCHANGED <<sent, buffer, offset>>

MessageRead ==
  /\ parser.kind = "message" /\ offset = parser.end
  /\ parser' = [parser EXCEPT !.kind = "read"]
  /\ UNCHANGED <<sent, buffer, offset, inside, got>>

ProtoNext ==
  \/ ReadUnknown \/ ReadNothing \/ ReadNumberProperty \/ OpenSub \/ ReadItem \/ CloseSub \/ MessageRead

ProtoSpec == ProtoInit /\ [][ProtoNext]_protoVars /\ WF_protoVars(ProtoNext)

------------------------------------------------------------------------------
Over == parser.kind \in {"read", "thrown"}

\* The numbers a message is made of, among them the length of its list.
NumbersOf(m) ==
  UNION ({ToSet(m[1])} \union {ToSet(o[1]) \union ToSet(o[2]) : o \in ToSet(m[2])} \union
         {ToSet(l) \union {BitsOf[ListLength(l)]} : l \in ToSet(m[3])})

AllKept == \A v \in NumbersOf(sent) : Representable("varint", v)

\* The length that getLength() tells of an object is that of its last property.
LengthTold == \A o \in ToSet(sent[2]) : LengthOf(o) = Len(ObjectBytes(o))

ReadAsSent == parser.kind = "read" /\ got = sent

\* A message whose numbers are kept by their varints, and whose objects have the
\* length they tell, is read as it was written.
MessageReadsBack == Over /\ AllKept /\ LengthTold => ReadAsSent

\* "should parse nested object" (test/protobuf.ts:56): an object that is a
\* property is read as it was written, whatever its properties.
NestedReadsBack == AllKept /\ Over => ReadAsSent

\* An inner parser reads nothing beyond the part that is its own.
ReadsInside == offset <= parser.end /\ parser.end <= Len(buffer)

\* The reader comes to an end of whatever was written, right or wrong: each turn
\* of its loops reads at least a byte. Then no message that was written otherwise is
\* read as it was meant: each of the two conditions is needed.
ReaderEnds == <>(Over /\ (ReadAsSent => AllKept /\ LengthTold))

\* Numbers are read as they were written exactly when the writer kept all of them,
\* and messages when it did, by a reader that stays inside what is its own.
MessagesReadBack == NumberReadsBack /\ OneNumber /\ MessageReadsBack /\ ReadsInside
==============================================================================
