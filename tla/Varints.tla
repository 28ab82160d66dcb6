------------------------------- MODULE Varints -------------------------------
(***************************************************************************)
(* packages/protocol-parser: numbers of a variable length, 7 bits in each  *)
(* byte and a last bit that says whether another follows: the varint of    *)
(* protobuf (protobuf/varint.ts), and LEB128.unsigned.ts and               *)
(* LEB128.signed.ts, the constants of the WebAssembly that packages/wasm   *)
(* emits.  A number is the set of its bits that are 1, a byte too; a       *)
(* negative number has 64 bits.                                            *)
(***************************************************************************)
EXTENDS Integers, Sequences, SequencesExt, FiniteSetsExt

CONSTANTS Samples  \* [codec |-> the numbers to try with it]

VARIABLES
  codec, number,  \* what is written
  encoded,        \* the bytes
  answer          \* what was read of them: <<>> before, then the number or Overflow

varintVars == <<codec, number, encoded, answer>>

Overflow == {-1}

------------------------------------------------------------------------------
Fits(v, n) == v \subseteq 0..(n - 1)
Low7(b) == b \cap 0..6
More(b) == 7 \in b
Group(v, j) == {i - 7 * (j - 1) : i \in v \cap (7 * (j - 1))..(7 * j - 1)}

Groups(v, k) == [j \in 1..k |-> Group(v, j) \union IF j < k THEN {7} ELSE {}]

\* Mutant of Joined: the groups are joined as whole bytes.
JoinedBytes(bs) == UNION {{i + 8 * (j - 1) : i \in Low7(bs[j])} : j \in DOMAIN bs}

Joined(bs) == UNION {{i + 7 * (j - 1) : i \in Low7(bs[j])} : j \in DOMAIN bs}

\* As many bytes as the number has of 8 bits, or nearly: write() and getLength().
\* Numbers that do not fit in the last of these throw, and are not written (Accepts).
VarintLength(v) == IF Fits(v, 7) THEN 1 ELSE IF Fits(v, 15) THEN 2 ELSE IF Fits(v, 23) THEN 3 ELSE 4

WriteVarint(v) == Groups(v, VarintLength(v))

\* v <= 1n << n.
AtMost(v, n) == Fits(v, n) \/ v = {n}

UnsignedLength(v) == IF Fits(v, 7) THEN 1 ELSE IF AtMost(v, 16) THEN 2 ELSE IF AtMost(v, 24) THEN 3 ELSE 4
WriteUnsigned(v) == Groups(v, UnsignedLength(v))

Within(v, n) == IF 63 \in v THEN (n - 1)..63 \subseteq v ELSE AtMost(v, n - 1)
Small(v) == Within(v, 7) /\ v # {6} /\ v # 6..63

\* One byte more when the last one would be read as a negative number.
SignedLength(v) ==
  LET k == IF Within(v, 16) THEN 2 ELSE IF Within(v, 24) THEN 3 ELSE 4 IN
  IF Small(v) THEN 1 ELSE IF 7 * k - 1 \in v THEN k + 1 ELSE k
WriteSigned(v) == Groups(v, SignedLength(v))

\* The bytes of the number that starts at a place: 0 if it does not end before limit.
LastByte(bs, from, limit, Stops(_)) ==
  LET ends == {j \in from..limit : Stops(bs[j])} IN IF ends = {} THEN 0 ELSE Min(ends)

\* The loop of Varint.read() goes on for the bytes above 0x80: that byte itself is
\* taken for a last one.
VarintEnd(bs, from, limit) == LastByte(bs, from, limit, LAMBDA b : ~More(b) \/ b = {7})
UnsignedEnd(bs, from, limit) == LastByte(bs, from, limit, LAMBDA b : ~More(b))

\* Of more than four bytes the fifth does not fit in the four that are kept.
ReadTo(bs, from, last) ==
  IF last = 0 \/ last > from + 3 THEN Overflow ELSE Joined(SubSeq(bs, from, last))

\* What reads the constants is a WebAssembly engine: the sign is the last bit.
Signed(bs) ==
  LET last == 7 * Len(bs) - 1 IN IF last \in Joined(bs) THEN Joined(bs) \union last..63 ELSE Joined(bs)

------------------------------------------------------------------------------
\* What a codec writes without an exception.
Accepts(c, v) ==
  CASE c = "varint" -> Fits(v, 31) [] c = "unsignedLEB128" -> AtMost(v, 32) [] c = "signedLEB128" -> Fits(v, 64)

ASSUME SamplesAssumption ==
  /\ DOMAIN Samples \subseteq {"varint", "unsignedLEB128", "signedLEB128"}
  /\ \A c \in DOMAIN Samples : \A v \in Samples[c] : Accepts(c, v)

VarintInit ==
  /\ \E c \in DOMAIN Samples : codec = c /\ number \in Samples[c]
  /\ encoded = <<>> /\ answer = <<>>

WriteNumber ==
  /\ encoded = <<>>
  /\ encoded' = CASE codec = "varint" -> WriteVarint(number)
               [] codec = "unsignedLEB128" -> WriteUnsigned(number)
               [] codec = "signedLEB128" -> WriteSigned(number)
  /\ UNCHANGED <<codec, number, answer>>

ReadNumber ==
  /\ encoded # <<>> /\ answer = <<>>
  /\ answer' = <<CASE codec = "varint" -> ReadTo(encoded, 1, VarintEnd(encoded, 1, Len(encoded)))
                   [] codec = "unsignedLEB128" -> ReadTo(encoded, 1, UnsignedEnd(encoded, 1, Len(encoded)))
                   [] codec = "signedLEB128" -> Signed(encoded)>>
  /\ UNCHANGED <<codec, number, encoded>>

VarintNext == WriteNumber \/ ReadNumber

VarintSpec == VarintInit /\ [][VarintNext]_varintVars

------------------------------------------------------------------------------
\* The bits that a number of k bytes has room for.
RoomFor(v, k) == Fits(v, 7 * k)

\* What a writer loses: the bits between 7 and 8 for each byte (varint.ts:72,
\* LEB128.unsigned.ts:82), the sign of a number whose last group has none
\* (LEB128.signed.ts:110), and what a varint has after 7 bits that are all zero
\* (varint.ts:45).
Representable(c, v) ==
  CASE c = "varint" -> RoomFor(v, VarintLength(v)) /\ \A j \in 1..(VarintLength(v) - 1) : Group(v, j) # {}
    [] c = "unsignedLEB128" -> RoomFor(v, UnsignedLength(v))
    [] c = "signedLEB128" ->
         LET k == SignedLength(v) IN IF 63 \in v THEN (7 * k - 1)..63 \subseteq v ELSE Fits(v, 7 * k - 1)

\* A number is read as it was written if and only if the writer kept all its bits:
\* the tests read 300, 150, 3, 270 and 86942 (test/protobuf.ts:25).
NumberReadsBack == answer # <<>> => (answer = <<number>> <=> Representable(codec, number))

\* No number ends before its last byte, or after it, and none is written without
\* one: bytes that the next field would take for its own.
OneNumber ==
  encoded # <<>> /\ Representable(codec, number) =>
    /\ VarintEnd(encoded, 1, Len(encoded)) \in IF codec = "varint" THEN {Len(encoded)} ELSE 1..Len(encoded)
    /\ UnsignedEnd(encoded, 1, Len(encoded)) = Len(encoded)
==============================================================================
