------------------------------- MODULE Fields --------------------------------
(***************************************************************************)
(* packages/protocol-parser/src/parsers: the parsers of numbers and of     *)
(* buffers, one after the other in a message.  A cursor counts bits: a     *)
(* field may start inside a byte.  Each parser has a write() and a read(), *)
(* and they agree only if they split a field over bytes in the same way.   *)
(*                                                                         *)
(* A number is the set of its bits that are 1, as the operators of         *)
(* JavaScript see it: 32 bits, a negative one with the bits above its      *)
(* width.  A buffer of bytes is the set of its bits, from its first byte.  *)
(***************************************************************************)
EXTENDS Integers, Sequences, SequencesExt, FiniteSets

CONSTANTS Menu  \* for each place of a message, the fields and values to try there

VARIABLES
  message,  \* what was written: fields, values, and the writer's cursor before each
  out,      \* the buffer, and the cursor of the writer
  whole,    \* the message is complete
  base,     \* where the buffer that is read starts in the bytes it is a part of
  heard,    \* the values that were read
  cursor,   \* the cursor of the reader
  thrown    \* the reader has thrown an error

fieldVars == <<message, out, whole, base, heard, cursor, thrown>>

------------------------------------------------------------------------------
Low(v, n) == v \cap 0..(n - 1)
Up(v, k) == {i + k : i \in v}
Down(v, k) == {i - k : i \in {j \in v : j >= k}}

\* The byte the cursor is in, and where in it.
floorOffset(pos) == pos \div 8
subByteOffset(pos) == pos % 8

\* One byte is read, and written with more bits: what is there stays.
OrBits(b, n, v) == [bits |-> b.bits \union Up(Low(v, n), b.pos), pos |-> b.pos + n]

\* Bytes are written over what is there.
PutBits(b, n, v) == [bits |-> {i \in b.bits : i \notin b.pos..(b.pos + n - 1)} \union Up(Low(v, n), b.pos), pos |-> b.pos + n]

\* How a number is split at the end of a byte: widths, and the bits each skips.
Split(n) == [off \in 0..7 |-> IF off + n <= 8 THEN <<<<n, 0>>>> ELSE <<<<8 - off, 0>>, <<n - 8 + off, 8 - off>>>>]

\* The parsers of less than a byte, or one: the parts that write() makes of the
\* number, by where it starts, and those whose masks read() applies. The classes of
\* 2 and 4 bits write otherwise on the last bit of a byte.
Masks(n, writes) == [writes |-> writes, reads |-> Split(n)]
Bit == Masks(1, Split(1))
Uint2 == Masks(2, [Split(2) EXCEPT ![7] = <<<<1, 1>>, <<1, 0>>>>])
Uint3 == Masks(3, Split(3))
Uint4 == Masks(4, [Split(4) EXCEPT ![7] = <<<<1, 0>>, <<2, 1>>>>])
Uint5 == Masks(5, Split(5))
Uint6 == Masks(6, Split(6))
Uint7 == Masks(7, Split(7))
Uint8 == Masks(8, Split(8))
Int2 == Masks(2, [Split(2) EXCEPT ![7] = <<<<1, 1>>, <<1, 0>>>>])
Int3 == Masks(3, Split(3))
Int4 == Masks(4, [Split(4) EXCEPT ![7] = <<<<1, 0>>, <<2, 1>>>>])
Int5 == Masks(5, Split(5))
Int6 == Masks(6, Split(6))
Int7 == Masks(7, Split(7))
Int8 == Masks(8, Split(8))

Narrow ==
  [uint |-> <<Bit, Uint2, Uint3, Uint4, Uint5, Uint6, Uint7, Uint8>>,
   int |-> <<Bit, Int2, Int3, Int4, Int5, Int6, Int7, Int8>>]

OrPart(b, part, v) == OrBits(b, part[1], Down(v, part[2]))

\* Mutant of WriteParts: the cursor moves by one bit.
WritePartsStuck(b, n, v) == [OrPart(b, n.writes[subByteOffset(b.pos)][1], v) EXCEPT !.pos = b.pos + 1]

WriteParts(b, n, v) ==
  LET parts == n.writes[subByteOffset(b.pos)] IN
  IF Len(parts) = 1 THEN OrPart(b, parts[1], v) ELSE OrPart(OrPart(b, parts[1], v), parts[2], v)

ReadParts(bits, pos, n) ==
  UNION {{i \in p[2]..(p[1] + p[2] - 1) : pos + i \in bits} : p \in ToSet(n.reads[subByteOffset(pos)])}

\* The byte of the cursor is read, and the next one if the number goes into it.
PartsEnd(pos, n) == floorOffset(pos) + Len(n.reads[subByteOffset(pos)])

------------------------------------------------------------------------------
(***************************************************************************)
(* Numbers of whole bytes: the bytes of the value, 0 the lowest, in the    *)
(* order they are written and read, at the start of a byte and inside one. *)
(***************************************************************************)
Aligned(pos) == subByteOffset(pos) = 0
BigEndian(k) == [j \in 1..k |-> k - j]
LittleEndian(k) == [j \in 1..k |-> j - 1]

Bytes(aligned, writes, reads) ==
  [writes |-> [a \in BOOLEAN |-> IF a THEN aligned ELSE writes], reads |-> [a \in BOOLEAN |-> IF a THEN aligned ELSE reads]]

Uint16 == Bytes(BigEndian(2), BigEndian(2), BigEndian(2))
Uint16LE == Bytes(LittleEndian(2), LittleEndian(2), LittleEndian(2))
\* Four bytes are written, or the first three of four.
Uint24 == Bytes(BigEndian(4), <<3, 2, 1>>, <<3, 2, 1>>)
Uint24LE == Bytes(LittleEndian(3), LittleEndian(3), LittleEndian(3))
Uint32 == Bytes(BigEndian(4), BigEndian(4), BigEndian(4))
\* Each half is written by Uint16, whose first byte is the high one.
Uint32LE == Bytes(LittleEndian(4), <<1, 0, 3, 2>>, LittleEndian(4))
Uint64 == Bytes(BigEndian(8), BigEndian(8), BigEndian(8))
\* The high half, then the low one, by Uint32.
Uint64LE == Bytes(LittleEndian(8), BigEndian(8), LittleEndian(8))
Int16 == Bytes(BigEndian(2), BigEndian(2), BigEndian(2))
Int16LE == Bytes(LittleEndian(2), LittleEndian(2), LittleEndian(2))
Int24 == Bytes(BigEndian(4), <<3, 2, 1>>, <<3, 2, 1>>)
Int24LE == Bytes(LittleEndian(3), LittleEndian(3), LittleEndian(3))
Int32 == Bytes(BigEndian(4), BigEndian(4), BigEndian(4))
Int32LE == Bytes(LittleEndian(4), <<1, 0, 3, 2>>, LittleEndian(4))
\* The second half is taken two bytes after the first.
Int64 == Bytes(BigEndian(8), <<7, 6, 5, 4, 5, 4, 3, 2>>, BigEndian(8))
Int64LE == Bytes(LittleEndian(8), <<5, 4, 3, 2, 3, 2, 1, 0>>, LittleEndian(8))

Wide ==
  [uint16 |-> Uint16, uint16LE |-> Uint16LE, uint24 |-> Uint24, uint24LE |-> Uint24LE,
   uint32 |-> Uint32, uint32LE |-> Uint32LE, uint64 |-> Uint64, uint64LE |-> Uint64LE,
   int16 |-> Int16, int16LE |-> Int16LE, int24 |-> Int24, int24LE |-> Int24LE,
   int32 |-> Int32, int32LE |-> Int32LE, int64 |-> Int64, int64LE |-> Int64LE]

Cut == {"uint24", "int24"}
Big == {"uint64", "uint64LE", "int64", "int64LE"}
\* A cursor moves by the width of the class, whatever was written.
Length(kind) == IF kind \in Cut THEN 3 ELSE Len(Wide[kind].writes[FALSE])

\* At the start of a byte the bytes are put there at once. Inside one they are
\* written by Uint8 one after the other, as 24 bits in little endian always are:
\* it adds the 8 bits at the cursor to what is there, wherever that is in a byte,
\* and moves the cursor by 8 (lemma EightBits).
ByBytes(kind, pos) == ~Aligned(pos) \/ kind \in {"uint24LE", "int24LE"}

\* The bits of the bytes of a number, in an order.
Arranged(v, order) == UNION {Up(Low(Down(v, 8 * order[j]), 8), 8 * (j - 1)) : j \in DOMAIN order}

WriteWide(b, kind, v) ==
  LET order == Wide[kind].writes[Aligned(b.pos)]
      put == IF ByBytes(kind, b.pos) THEN OrBits(b, 8 * Len(order), Arranged(v, order))
             ELSE PutBits(b, 8 * Len(order), Arranged(v, order))
  IN [put EXCEPT !.pos = b.pos + 8 * Length(kind)]

\* The sign of a number of 16 bits is that of its last bit.
SignExtended(kind, v) == IF kind \in {"int16", "int16LE"} /\ 15 \in v THEN v \union 16..31 ELSE v

\* Numbers of 64 bits are read at once as two of 32 bits, each of which adds the
\* place of the buffer in its own bytes once more.
Shift(kind, pos) == IF kind \in Big /\ Aligned(pos) THEN base ELSE 0

ReadWide(bits, pos, kind) ==
  LET order == Wide[kind].reads[Aligned(pos)] IN
  SignExtended(kind, UNION {Up(ReadParts(bits, pos + Shift(kind, pos) + 8 * (j - 1), Uint8), 8 * order[j]) : j \in DOMAIN order})

WideEnds(pos, kind) ==
  floorOffset(pos + Shift(kind, pos)) + Len(Wide[kind].reads[Aligned(pos)]) + IF Aligned(pos) THEN 0 ELSE 1

------------------------------------------------------------------------------
(***************************************************************************)
(* A field: a "uint" or "int" of a width, a number of whole bytes, or a    *)
(* buffer of one byte, whose length is fixed, comes before it, or was read *)
(* with an earlier property.                                               *)
(***************************************************************************)
Buffers == {"fixed", "prefixed", "preparsed"}

\* A buffer is copied to the cursor, which only a prefixed one moves.
WriteBuffer(b, kind, v) ==
  IF kind = "prefixed" THEN PutBits(WriteParts(b, Uint8, {0}), 8, v)
  ELSE [PutBits(b, 8, v) EXCEPT !.pos = b.pos]

Written(b, f, v) ==
  IF f.kind \in DOMAIN Wide THEN WriteWide(b, f.kind, v)
  ELSE IF f.kind \in Buffers THEN WriteBuffer(b, f.kind, v)
  ELSE WriteParts(b, Narrow[f.kind][f.width], v)

\* Only a number of 8 bits at the start of a byte is read with its sign.
ReadInt(bits, pos, f) ==
  LET v == ReadParts(bits, pos, Narrow.int[f.width]) IN
  IF f.width = 8 /\ Aligned(pos) /\ 7 \in v THEN v \union 8..31 ELSE v

Heard(bits, pos, f) ==
  CASE f.kind \in DOMAIN Wide -> ReadWide(bits, pos, f.kind)
    [] f.kind = "int" -> ReadInt(bits, pos, f)
    [] f.kind = "uint" -> ReadParts(bits, pos, Narrow.uint[f.width])
    [] f.kind = "prefixed" -> ReadParts(bits, pos + 8, Uint8)
    [] f.kind \in {"fixed", "preparsed"} -> ReadParts(bits, pos, Uint8)

\* How far the reader moves, and the bytes the buffer must have for it.
Advance(f) ==
  CASE f.kind \in DOMAIN Wide -> 8 * Length(f.kind) [] f.kind = "prefixed" -> 16
    [] f.kind \in {"fixed", "preparsed"} -> 8 [] f.kind \in {"uint", "int"} -> f.width

Reaches(pos, f) ==
  CASE f.kind \in DOMAIN Wide -> WideEnds(pos, f.kind)
    [] f.kind \in Buffers -> floorOffset(pos + Advance(f))
    [] f.kind \in {"uint", "int"} -> PartsEnd(pos, Narrow[f.kind][f.width])

\* Buffers do not start inside a byte, and a prefix that was overwritten tells
\* another length: the reader throws, or reads what is not modelled further.
Refused(bits, pos, f) ==
  /\ f.kind \in Buffers
  /\ ~Aligned(pos) \/ (f.kind = "prefixed" /\ ReadParts(bits, pos, Uint8) # {0})

------------------------------------------------------------------------------
(***************************************************************************)
(* What a schema may be made of, and the values that its fields are        *)
(* written with: those that fit in the width of the class.                 *)
(***************************************************************************)
FieldKinds == DOMAIN Narrow \union DOMAIN Wide \union Buffers
Unsigned(v, n) == v \subseteq 0..(n - 1)
WithSign(v, n) == v \subseteq 0..31 /\ (v \subseteq 0..(n - 2) \/ (n - 1)..31 \subseteq v)

Takes(f, v) ==
  CASE f.kind = "uint" -> f.width \in 1..8 /\ Unsigned(v, f.width)
    [] f.kind = "int" -> f.width \in 1..8 /\ WithSign(v, f.width)
    [] f.kind \in Buffers -> Unsigned(v, 8)
    [] f.kind \in {"int16", "int16LE"} -> WithSign(v, 16)
    [] f.kind \in {"int24", "int24LE"} -> WithSign(v, 24)
    [] OTHER -> Unsigned(v, 8 * Length(f.kind))

ASSUME FieldsAssumption ==
  /\ Menu \in Seq(SUBSET [field : [kind : FieldKinds, width : 0..8], value : SUBSET (0..63)])
  /\ \A k \in DOMAIN Menu : \A choice \in Menu[k] : Takes(choice.field, choice.value)

FieldsInit ==
  /\ message = <<>> /\ heard = <<>>
  /\ out = [bits |-> {}, pos |-> 0]
  /\ whole = FALSE /\ thrown = FALSE
  /\ base = 0 /\ cursor = 0

\* write() of the next field. A schema that puts a buffer inside a byte cannot be
\* read by any message, and is not one that is used.
WriteField ==
  /\ ~whole /\ Len(message) < Len(Menu)
  /\ \E choice \in Menu[Len(message) + 1] :
       /\ choice.field.kind \in Buffers => Aligned(out.pos)
       /\ message' = Append(message, [field |-> choice.field, value |-> choice.value, pos |-> out.pos])
       /\ out' = Written(out, choice.field, choice.value)
  /\ UNCHANGED <<whole, base, heard, cursor, thrown>>

\* parserWrite() cuts the buffer after the cursor. It is read as it is, or as a
\* part of what was received, after a byte of something else.
FinishWrite ==
  /\ ~whole /\ message # <<>>
  /\ whole' = TRUE
  /\ base' \in {0, 8}
  /\ UNCHANGED <<message, out, heard, cursor, thrown>>

bufferLength == floorOffset(out.pos + 7)

ReadField ==
  /\ whole /\ ~thrown /\ Len(heard) < Len(message)
  /\ LET f == message[Len(heard) + 1].field IN
     IF Refused(out.bits, cursor, f) \/ Reaches(cursor, f) > bufferLength
     THEN thrown' = TRUE /\ UNCHANGED <<heard, cursor>>
     ELSE /\ heard' = Append(heard, Heard(out.bits, cursor, f))
          /\ cursor' = cursor + Advance(f)
          /\ UNCHANGED thrown
  /\ UNCHANGED <<message, out, whole, base>>

FieldsNext == WriteField \/ FinishWrite \/ ReadField

FieldsSpec == FieldsInit /\ [][FieldsNext]_fieldVars

------------------------------------------------------------------------------
\* The fields are well typed.
FieldsTypeOK ==
  /\ out.bits \subseteq 0..(out.pos + 7) /\ out.pos \in Nat /\ base \in {0, 8}
  /\ cursor \in Nat /\ Len(heard) <= Len(message) /\ (heard # <<>> => whole)
  /\ \A k \in DOMAIN heard : heard[k] \subseteq 0..63

\* The writer and the reader part after a field that one of them steps over
\* otherwise: a number of 4 bits on the last bit of a byte is written in 3
\* (uint4.ts:90), and buffers that are not prefixed do not move the writer
\* (buffer-fixed.ts:39, buffer-preparsed.ts:33).
Misaligns(m) ==
  \/ m.field.kind \in DOMAIN Narrow /\ m.field.width = 4 /\ subByteOffset(m.pos) = 7
  \/ m.field.kind \in {"fixed", "preparsed"}

\* What is not read as it was written even so: 2 bits that differ, on the last
\* bit of a byte, are swapped (uint2.ts:64); negative numbers lose their sign
\* (int7.ts:26, int24LE.ts:26); inside a byte the halves of a number in little
\* endian, or of a signed one of 64 bits, are written in another order than they
\* are read (uint32LE.ts:43, uint64LE.ts:47, int64.ts:50, int64LE.ts:48); and at
\* the start of one 64 bits are read from elsewhere in a buffer that is a part of
\* another (core/src/helpers.ts:848).
Negative(m) == m.field.kind \in {"int", "int24LE"} /\ 31 \in m.value
Swapped == {"uint32LE", "int32LE", "uint64LE", "int64", "int64LE"}
Lost(m) ==
  \/ m.field.kind \in DOMAIN Narrow /\ m.field.width = 2 /\ subByteOffset(m.pos) = 7 /\ Cardinality(Low(m.value, 2)) = 1
  \/ Negative(m) /\ ~(m.field.kind = "int" /\ m.field.width = 8 /\ Aligned(m.pos))
  \/ m.field.kind \in Swapped /\ ~Aligned(m.pos)
  \/ m.field.kind \in Big /\ Aligned(m.pos) /\ base # 0

\* The reader starts each field where the writer started it, unless a field
\* before it misaligns the two.
CursorsAgree ==
  (\A k \in 1..Len(heard) : ~Misaligns(message[k])) =>
    cursor = IF Len(heard) < Len(message) THEN message[Len(heard) + 1].pos ELSE out.pos

\* A message is read as it was written ("should read and write from buffer",
\* test/raw.ts:16), whatever the widths of its fields and wherever they start in
\* a byte, but for those named here, which the tests do not reach. Numbers of 24
\* bits in big endian are written over the field that follows (uint24.ts:47).
ReadsBack ==
  (\A k \in DOMAIN message : ~Misaligns(message[k]) /\ message[k].field.kind \notin Cut) =>
    /\ thrown => Len(heard) < Len(message) /\ Lost(message[Len(heard) + 1])
    /\ \A k \in DOMAIN heard : ~Lost(message[k]) => heard[k] = message[k].value

\* Writing a field changes no bit of those before it.
NothingErased == [][Low(out'.bits, out.pos) = Low(out.bits, out.pos)]_fieldVars

\* What is written is read back, from where it was written, and stays written.
FieldsReadBack ==
  /\ [](FieldsTypeOK /\ CursorsAgree /\ ReadsBack)
  /\ NothingErased
==============================================================================
