------------------------------- MODULE MCWire --------------------------------
(* What goes through a server, one at a time: requests through middlewares,  *)
(* what the protocol parser writes and reads, and the records kept in files. *)
(* The parser's messages have three fields, one that moves the cursor to any *)
(* bit of a byte, one of every kind and value, and one that follows it; its  *)
(* numbers of a variable length have bits at the edges of their groups.      *)
EXTENDS Fields, Protobuf, Middlewares, JsonFiles

VARIABLE part

F(kind, width) == [kind |-> kind, width |-> width]
With(f, values) == [field : {f}, value : values]

Uints(n) == With(F("uint", n), {{}, 0..(n - 1), {n - 1}, {0}})
Ints(n) == With(F("int", n), {{0}, (n - 1)..31})

\* Of the values that fit in a number of whole bytes: all bits, one of each byte.
Fitting(kind) ==
  CASE kind \in {"uint16", "uint16LE"} -> {0..15, {0, 9}, {15}}
    [] kind \in {"uint24", "uint24LE"} -> {0..23, {0, 9, 18}}
    [] kind \in {"uint32", "uint32LE"} -> {0..31, {0, 9, 18, 27}}
    [] kind \in {"int16", "int16LE"} -> {15..31, {0, 9}}
    [] kind \in {"int24", "int24LE"} -> {23..31, {0, 9, 18}}
    [] kind \in {"int32", "int32LE"} -> {{31}, {0, 9, 18, 27}}
    [] kind \in Big -> {{63}, {0, 9, 18, 27, 36, 45, 54}}
Wides(kind) == With(F(kind, 0), Fitting(kind))

Places ==
  <<UNION {With(F("uint", n), {0..(n - 1)}) : n \in 1..8},
    UNION {Uints(n) : n \in 1..8} \union UNION {Ints(n) : n \in 2..8} \union
      UNION {Wides(kind) : kind \in DOMAIN Wide} \union UNION {With(F(kind, 0), {{0, 7}}) : kind \in Buffers},
    UNION {Uints(n) : n \in {1, 5, 8}} \union Wides("uint16") \union With(F("prefixed", 0), {{0, 7}})>>

Edges == SUBSET {0, 6, 7, 13, 14, 15, 20, 21, 22, 27}
Negatives == UNION {{v \union (Max(v) + 1)..63, v \union (Max(v) + 2)..63} : v \in Edges \ {{}}}
Codecs ==
  [varint |-> Edges \union {{30}, {7, 14, 21, 28}},
   unsignedLEB128 |-> Edges \union {{16}, {24}, {31}, {32}},
   signedLEB128 |-> Edges \union Negatives]

SomeNumbers == {{0}, {8, 11}, {1, 2, 4, 7}, {7}, {0, 14}, {0, 8, 14, 15, 16}}
\* The length of a list has a group that is empty, or two that are not.
Many(n) == [j \in 1..n |-> {0}]
SomeLists == {<<>>, <<{0}>>, <<{1, 2, 4, 7}, {0}>>, <<{0}, {1, 2, 4, 7}, {7}>>, Many(128), Many(129)}

NoMessage ==
  /\ sent = <<<<>>, <<>>, <<>>>> /\ got = sent
  /\ buffer = <<>> /\ offset = 0 /\ inside = <<>>
  /\ parser = [Outer EXCEPT !.kind = "read"]
NoNumber == codec = "varint" /\ number = {} /\ encoded = <<>> /\ answer = <<>>

CONSTANTS app, users, ranked, auth, list, find, recover, report, fallback, user

\* app tries auth, the route users (list, recover), ranked (find, report) and
\* fallback.
Node(priority, n) == [priority |-> priority, node |-> n]
MCMembers ==
  app :> <<Node(0, auth), Node(0, users), Node(0, ranked), Node(0, fallback)>>
    @@ users :> <<Node(0, list), Node(0, recover)>>
    @@ ranked :> <<Node(2, find), Node(4, report)>>
MCRouteOf == [c \in {app, users, ranked} |-> IF c = users THEN user ELSE None]
MCPaths == {<<>>, <<user>>, <<user, user>>}

NoRequest == MiddlewaresInit /\ sync /\ path = <<>>
NoRecord == JsonInit /\ store = 0

MCInit ==
  \/ part = "fields" /\ FieldsInit /\ NoMessage /\ NoNumber /\ NoRequest /\ NoRecord
  \/ part = "numbers" /\ VarintInit /\ FieldsInit /\ NoMessage /\ NoRequest /\ NoRecord
  \/ part = "messages" /\ ProtoInit /\ FieldsInit /\ NoNumber /\ NoRequest /\ NoRecord
  \/ part = "requests" /\ MiddlewaresInit /\ FieldsInit /\ NoMessage /\ NoNumber /\ NoRecord
  \/ part = "records" /\ JsonInit /\ FieldsInit /\ NoMessage /\ NoNumber /\ NoRequest

MCNext ==
  \/ part = "fields" /\ FieldsNext /\ UNCHANGED <<part, varintVars, protoVars, middlewaresVars, jsonVars>>
  \/ part = "numbers" /\ VarintNext /\ UNCHANGED <<part, fieldVars, protoVars, middlewaresVars, jsonVars>>
  \/ part = "messages" /\ ProtoNext /\ UNCHANGED <<part, fieldVars, varintVars, middlewaresVars, jsonVars>>
  \/ part = "requests" /\ MiddlewaresNext /\ UNCHANGED <<part, fieldVars, varintVars, protoVars, jsonVars>>
  \/ part = "records" /\ JsonNext /\ UNCHANGED <<part, fieldVars, varintVars, protoVars, middlewaresVars>>

MCSpec ==
  /\ MCInit /\ [][MCNext]_<<part, fieldVars, varintVars, protoVars, middlewaresVars, jsonVars>>
  /\ WF_protoVars(part = "messages" /\ ProtoNext /\ UNCHANGED <<part, fieldVars, varintVars, middlewaresVars, jsonVars>>)
  /\ WF_jsonVars(part = "records" /\ (\/ \E c \in Commands : Continues(c)
                                     \/ \E f \in DOMAIN folders : Opens(f)))

\* A message is read to its end, or refused; and the commands on a record are
\* answered, unless the process ends: nothing waits for what does not come.
ReaderAndCommandsEnd == ReaderEnds /\ CommandsEnd
==============================================================================
