--------------------------- MODULE TransportProofs ----------------------------
(***************************************************************************)
(* Calls over a socket, for any calls, chunks, replies, sockets and timers: *)
(* the callback of a call runs at most once, and a call that waits has its *)
(* request, its reply or its stream somewhere (JsonRpc); the table of      *)
(* connections, the sockets and the promises of disconnect() agree         *)
(* (RpcClient); one chain of retries, that close() ends (Retry); whatever  *)
(* the transport cuts, the adapter hands over what was sent, to everybody  *)
(* who listens (Network); numbers of a variable length, and messages of    *)
(* them, are read as they were written, for any numbers and any lists      *)
(* (Varints, Protobuf).                                                    *)
(***************************************************************************)
EXTENDS JsonRpc, RpcClient, Retry, Network, Protobuf, SequenceFacts,
        FiniteSetTheorems

\* The types of what CallbackOnce counts.
CallTypeOK == awaiting \subseteq Call /\ called \in [Call -> Nat]

CallbackInv == CallTypeOK /\ CallbackOnce

LEMMA CallbackInit == Init => CallbackInv
BY DEF Init, CallbackInv, CallTypeOK, CallbackOnce

\* Only sendMethod and the arrival of a reply touch a call's response handler,
\* and each moves the call forward.
LEMMA CallbackStep == CallbackInv /\ [Next]_vars => CallbackInv'
<1> SUFFICES ASSUME CallbackInv, [Next]_vars PROVE CallbackInv'
  OBVIOUS
<1>1. CASE UNCHANGED <<awaiting, called>>
  BY <1>1 DEF CallbackInv, CallTypeOK, CallbackOnce
<1>2. ASSUME NEW i \in Call, NEW k, NEW chunks, SendMethod(i, k, chunks)
      PROVE  CallbackInv'
  <2>1. i \notin awaiting /\ called[i] = 0
    BY <1>2 DEF SendMethod, Sent, CallbackInv, CallTypeOK
  <2>2. awaiting' = awaiting \cup {i} /\ called' = called
    BY <1>2 DEF SendMethod
  <2>3. QED
    BY <2>1, <2>2 DEF CallbackInv, CallTypeOK, CallbackOnce
<1>3. ASSUME NEW p \in Peer, CallbackRuns(p) PROVE CallbackInv'
  <2> DEFINE i == First(p).id
  <2>1. i \in awaiting /\ awaiting' = awaiting \ {i}
        /\ called' = [called EXCEPT ![i] = @ + 1]
    BY <1>3 DEF CallbackRuns
  <2>2. i \in Call /\ called[i] = 0
    BY <2>1 DEF CallbackInv, CallTypeOK, CallbackOnce
  <2> HIDE DEF i
  <2>3. CallTypeOK'
    BY <2>1, <2>2 DEF CallbackInv, CallTypeOK
  <2>4. ASSUME NEW j \in Call
        PROVE  called'[j] + (IF j \in awaiting' THEN 1 ELSE 0) <= 1
    <3>1. CASE j = i
      BY <2>1, <2>2, <3>1 DEF CallbackInv, CallTypeOK
    <3>2. CASE j # i
      BY <2>1, <2>2, <3>2 DEF CallbackInv, CallTypeOK, CallbackOnce
    <3>3. QED
      BY <3>1, <3>2
  <2>5. QED
    BY <2>3, <2>4 DEF CallbackInv, CallbackOnce
<1>4. ASSUME NEW p \in Peer, Deliver(p), ~CallbackRuns(p)
      PROVE  UNCHANGED <<awaiting, called>>
  BY <1>4 DEF Deliver, DropUnheard, UnknownMethod, Request, InvalidResponse, StreamReceives
<1>5. QED
  BY <1>1, <1>2, <1>3, <1>4
     DEF Next, vars, Answer, Reply, StreamData, StreamEnd, Close, SocketCloses

\* The callback of a call runs at most once, and never while the call waits,
\* whatever the other end sends with its id.
THEOREM CallbackRunsOnce == Spec => []CallbackOnce
<1>1. Spec => []CallbackInv
  BY CallbackInit, CallbackStep, PTL DEF Spec
<1>2. CallbackInv => CallbackOnce
  BY DEF CallbackInv
<1>3. QED
  BY <1>1, <1>2, PTL

-----------------------------------------------------------------------------
\* The types of what carries a call.
PathTypeOK ==
    /\ wire \in [Peer -> Seq(Payload)]
    /\ awaiting \subseteq Call /\ reading \subseteq Call /\ running \subseteq Call
    /\ streaming \in [Call -> Int] /\ called \in [Call -> Nat]

\* Nothing travels, runs or streams for a call that was not made, and only the
\* streams that were passed are read.
OnlySentCalls ==
    /\ \A p \in Peer : \A m \in ToSet(wire[p]) : Sent(m.id)
    /\ \A i \in running : Sent(i)
    /\ \A i \in Call : HasStream(i) => Sent(i)
    /\ \A i \in reading : HasStream(i)

\* The inductive invariant of the calls that wait for an answer.
WaitInv == PathTypeOK /\ OnlySentCalls /\ WaitingCallIsSomewhere

\* Each end of the socket is the other of the other one.
LEMMA TwoPeers ==
    /\ \A p \in Peer : Other(p) \in Peer /\ Other(p) # p /\ Other(Other(p)) = p
    /\ \A p, q \in Peer : q # p => q = Other(p)
    /\ \A i \in Call : Caller[i] \in Peer /\ Callee(i) \in Peer /\ Callee(i) # Caller[i]
                       /\ Other(Callee(i)) = Caller[i] /\ Other(Caller[i]) = Callee(i)
<1>1. ASSUME NEW p \in Peer PROVE \E q \in Peer : Peer \ {p} = {q}
  <2>1. IsFiniteSet(Peer \ {p}) /\ Cardinality(Peer \ {p}) = 1
    BY RpcAssumption, FS_RemoveElement
  <2> QED
    BY <2>1, FS_Singleton
<1>2. ASSUME NEW p \in Peer PROVE Other(p) \in Peer \ {p} /\ \A q \in Peer : q # p => q = Other(p)
  <2>1. PICK q \in Peer : Peer \ {p} = {q}
    BY <1>1
  <2>2. Other(p) = q
    BY <2>1 DEF Other
  <2> QED
    BY <2>1, <2>2
<1>3. \A p \in Peer : Other(p) \in Peer /\ Other(p) # p /\ Other(Other(p)) = p
  BY <1>2
<1>4. \A i \in Call : Caller[i] \in Peer
  BY RpcAssumption
<1> QED
  BY <1>2, <1>3, <1>4 DEF Callee

\* A payload of one of these kinds about a call, somewhere in a sequence.
Holds(s, kinds, i) == \E m \in ToSet(s) : m.id = i /\ m.kind \in kinds

\* What is on its way holds a call.
LEMMA InFlightHolds ==
    ASSUME NEW p, NEW kinds, NEW i
    PROVE  InFlight(p, kinds, i) <=> Holds(wire[p], kinds, i)
BY DEF InFlight, Holds, ToSet

\* What socket.send() does to the payloads on their way, while the socket is open.
LEMMA SendToKeeps ==
    ASSUME PathTypeOK, NEW w \in [Peer -> Seq(Payload)], NEW p \in Peer, NEW k \in Kind, NEW i \in Call,
           SendTo(p, w, k, i)
    PROVE  /\ wire' \in [Peer -> Seq(Payload)]
           /\ \A q \in Peer : ToSet(wire'[q]) \subseteq ToSet(w[q]) \union {Message(k, i)}
           /\ up => /\ \A q \in Peer : ToSet(w[q]) \subseteq ToSet(wire'[q])
                    /\ Message(k, i) \in ToSet(wire'[p])
<1>1. Message(k, i) \in Payload
  BY DEF Message, Payload
<1>2. CASE up
  <2>1. wire' = [w EXCEPT ![p] = Append(w[p], Message(k, i))]
    BY <1>2 DEF SendTo
  <2>2. /\ Append(w[p], Message(k, i)) \in Seq(Payload)
        /\ ToSet(Append(w[p], Message(k, i))) = ToSet(w[p]) \union {Message(k, i)}
    <3>1. w[p] \in Seq(Payload)
      OBVIOUS
    <3> QED
      BY <1>1, <3>1, ElementsOfAppend, AppendProperties
  <2>3. \A q \in Peer : wire'[q] = IF q = p THEN Append(w[p], Message(k, i)) ELSE w[q]
    BY <2>1
  <2> QED
    BY <1>2, <2>1, <2>2, <2>3
<1>3. CASE ~up
  <2>1. wire' = [w EXCEPT ![p] = w[p]]
    BY <1>3 DEF SendTo
  <2>2. wire' = w
    BY <2>1
  <2> QED
    BY <1>3, <2>2
<1> QED
  BY <1>2, <1>3

\* What is left on its way to an end that takes its first payload.
LEMMA RestKeeps ==
    ASSUME PathTypeOK, NEW p \in Peer, wire[p] # <<>>
    PROVE  /\ Rest(p) \in [Peer -> Seq(Payload)] /\ First(p) \in ToSet(wire[p])
           /\ First(p).id \in Call /\ First(p).kind \in Kind
           /\ ToSet(wire[p]) = {First(p)} \union ToSet(Rest(p)[p])
           /\ \A q \in Peer : q # p => Rest(p)[q] = wire[q]
           /\ \A q \in Peer : ToSet(Rest(p)[q]) \subseteq ToSet(wire[q])
<1>1. wire[p] \in Seq(Payload)
  BY DEF PathTypeOK
<1>2. /\ Head(wire[p]) \in Payload /\ Tail(wire[p]) \in Seq(Payload)
      /\ ToSet(wire[p]) = {Head(wire[p])} \union ToSet(Tail(wire[p]))
  BY <1>1, ElementsOfTail
<1>3. Rest(p) = [wire EXCEPT ![p] = Tail(wire[p])]
  BY DEF Rest
<1>4. Rest(p)[p] = Tail(wire[p]) /\ \A q \in Peer : q # p => Rest(p)[q] = wire[q]
  BY <1>3 DEF PathTypeOK
<1>5. Rest(p) \in [Peer -> Seq(Payload)]
  BY <1>2, <1>3 DEF PathTypeOK
<1>6. First(p) \in ToSet(wire[p]) /\ First(p).id \in Call /\ First(p).kind \in Kind
  BY <1>2 DEF First, Payload
<1> QED
  BY <1>2, <1>4, <1>5, <1>6 DEF First

\* The places where a call that waits may be.
Somewhere(i) ==
    \/ Holds(wire[Callee(i)], {"request", "unknown", "error"}, i)
    \/ i \in running
    \/ Holds(wire[Caller[i]], {"result", "void", "error"}, i)
    \/ i \in broken

\* A call that waits is somewhere.
LEMMA WaitingIsSomewhere ==
    WaitingCallIsSomewhere <=> (up /\ connected = Peer => \A i \in awaiting : Somewhere(i))
BY InFlightHolds DEF WaitingCallIsSomewhere, Somewhere

\* It is enough to find the calls that wait after a step that leaves the socket
\* open and both ends connected.
LEMMA StillSomewhere ==
    ASSUME WaitInv, up' => up, connected' = Peer => connected = Peer,
           ASSUME up', up, connected = Peer, NEW j \in awaiting',
                  j \in awaiting => Somewhere(j)
           PROVE  Somewhere(j)'
    PROVE  WaitingCallIsSomewhere'
<1>1. up' /\ connected' = Peer => \A j \in awaiting' : Somewhere(j)'
  BY WaitingIsSomewhere DEF WaitInv
<1> QED
  BY <1>1 DEF WaitingCallIsSomewhere, Somewhere, InFlight, Holds, ToSet, HasStream

\* A payload that is sent about a call that was made.
LEMMA SendToIsSent ==
    ASSUME WaitInv, NEW w \in [Peer -> Seq(Payload)], NEW p \in Peer, NEW k \in Kind, NEW i \in Call,
           SendTo(p, w, k, i), Sent(i)',
           \A q \in Peer : ToSet(w[q]) \subseteq ToSet(wire[q]),
           \A j : Sent(j) => Sent(j)'
    PROVE  /\ wire' \in [Peer -> Seq(Payload)]
           /\ \A q \in Peer : \A m \in ToSet(wire'[q]) : Sent(m.id)'
<1>1. /\ wire' \in [Peer -> Seq(Payload)]
      /\ \A q \in Peer : ToSet(wire'[q]) \subseteq ToSet(w[q]) \union {Message(k, i)}
  BY SendToKeeps DEF WaitInv
<1>2. Message(k, i).id = i
  BY DEF Message
<1> QED
  BY <1>1, <1>2 DEF WaitInv, OnlySentCalls

\* A method is called.
LEMMA SendMethodWaits ==
    ASSUME WaitInv, NEW i \in Call, NEW k \in {"request", "unknown"},
           NEW chunks \in {NoStream} \cup 0..MaxChunks[i], SendMethod(i, k, chunks)
    PROVE  WaitInv'
<1>1. /\ ~Sent(i) /\ awaiting' = awaiting \cup {i}
      /\ streaming' = [streaming EXCEPT ![i] = chunks]
      /\ SendTo(Callee(i), wire, k, i)
      /\ UNCHANGED <<up, connected, reading, running, called, broken>>
  BY DEF SendMethod
<1>2. wire \in [Peer -> Seq(Payload)] /\ Callee(i) \in Peer /\ k \in Kind /\ chunks \in Int
  BY TwoPeers, RpcAssumption DEF WaitInv, PathTypeOK, Kind, NoStream
<1>3. Sent(i)' /\ \A j : Sent(j) => Sent(j)'
  BY <1>1 DEF Sent
<1>4. wire' \in [Peer -> Seq(Payload)] /\ \A q \in Peer : \A m \in ToSet(wire'[q]) : Sent(m.id)'
  BY <1>1, <1>2, <1>3, SendToIsSent
<1>5. up => /\ \A q \in Peer : ToSet(wire[q]) \subseteq ToSet(wire'[q])
            /\ Message(k, i) \in ToSet(wire'[Callee(i)])
  BY <1>1, <1>2, SendToKeeps DEF WaitInv
<1>6. i \notin reading /\ \A j \in Call \ {i} : streaming'[j] = streaming[j]
  BY <1>1 DEF WaitInv, PathTypeOK, OnlySentCalls
<1>7. PathTypeOK'
  BY <1>1, <1>2, <1>4 DEF WaitInv, PathTypeOK
<1>8. OnlySentCalls'
  BY <1>1, <1>3, <1>4, <1>6 DEF WaitInv, OnlySentCalls, HasStream, PathTypeOK
<1>9. ASSUME up, NEW j \in awaiting', j \in awaiting => Somewhere(j)
      PROVE  Somewhere(j)'
  <2>1. CASE j = i
    BY <1>5, <1>9, <2>1 DEF Somewhere, Holds, Message
  <2>2. CASE j # i
    <3>1. j \in awaiting /\ j \in Call /\ Somewhere(j)
      BY <1>1, <1>9, <2>2 DEF WaitInv, PathTypeOK
    <3> QED
      BY <1>1, <1>5, <1>6, <1>9, <2>2, <3>1, TwoPeers DEF Somewhere, Holds, HasStream
  <2> QED
    BY <2>1, <2>2
<1>10. WaitingCallIsSomewhere'
  BY <1>1, <1>9, StillSomewhere
<1> QED
  BY <1>7, <1>8, <1>10 DEF WaitInv

\* A chunk of a stream, or its end: the stream goes on being one.
LEMMA StreamWaits ==
    ASSUME WaitInv, NEW i \in Call, StreamData(i) \/ StreamEnd(i)
    PROVE  WaitInv'
<1>1. PICK k \in {"data", "end"}, n \in Int :
        /\ HasStream(i) /\ n # NoStream
        /\ streaming' = [streaming EXCEPT ![i] = n]
        /\ SendTo(Callee(i), wire, k, i)
        /\ UNCHANGED <<up, connected, awaiting, reading, running, called, broken>>
  <2>1. CASE StreamData(i)
    <3>1. streaming[i] \in Int /\ streaming[i] > 0
      BY <2>1 DEF StreamData, WaitInv, PathTypeOK
    <3>2. streaming[i] - 1 \in Int /\ streaming[i] - 1 # NoStream /\ HasStream(i)
      BY <3>1 DEF NoStream, HasStream
    <3> QED
      BY <2>1, <3>2 DEF StreamData
  <2>2. CASE StreamEnd(i)
    <3>1. Ended \in Int /\ Ended # NoStream
      BY DEF Ended, NoStream
    <3>2. HasStream(i)
      BY <2>2 DEF StreamEnd, HasStream, NoStream
    <3> QED
      BY <2>2, <3>1, <3>2 DEF StreamEnd
  <2> QED
    BY <2>1, <2>2
<1>2. wire \in [Peer -> Seq(Payload)] /\ Callee(i) \in Peer /\ k \in Kind
  BY TwoPeers DEF WaitInv, PathTypeOK, Kind
<1>3. Sent(i) /\ \A j : Sent(j) => Sent(j)'
  BY <1>1 DEF Sent, WaitInv, OnlySentCalls
<1>4. wire' \in [Peer -> Seq(Payload)] /\ \A q \in Peer : \A m \in ToSet(wire'[q]) : Sent(m.id)'
  BY <1>1, <1>2, <1>3, SendToIsSent
<1>5. up => \A q \in Peer : ToSet(wire[q]) \subseteq ToSet(wire'[q])
  BY <1>1, <1>2, SendToKeeps DEF WaitInv
<1>6. \A j \in Call : HasStream(j)' <=> HasStream(j)
  BY <1>1 DEF HasStream, WaitInv, PathTypeOK
<1>7. PathTypeOK'
  BY <1>1, <1>4 DEF WaitInv, PathTypeOK
<1>8. OnlySentCalls'
  BY <1>1, <1>3, <1>4, <1>6 DEF WaitInv, OnlySentCalls, PathTypeOK
<1>9. ASSUME up, NEW j \in awaiting', j \in awaiting => Somewhere(j)
      PROVE  Somewhere(j)'
  <2>1. j \in Call /\ Somewhere(j)
    BY <1>1, <1>9 DEF WaitInv, PathTypeOK
  <2> QED
    BY <1>1, <1>5, <1>6, <1>9, <2>1, TwoPeers DEF Somewhere, Holds
<1>10. WaitingCallIsSomewhere'
  BY <1>1, <1>9, StillSomewhere
<1> QED
  BY <1>7, <1>8, <1>10 DEF WaitInv

\* A call is answered.
LEMMA ReplyWaits ==
    ASSUME WaitInv, NEW i \in Call, NEW k \in {"result", "error", "void"}, NEW again \in BOOLEAN,
           Reply(i, k, again)
    PROVE  WaitInv'
<1>1. /\ i \in running /\ running' \subseteq running /\ running \ {i} \subseteq running'
      /\ SendTo(Caller[i], wire, k, i)
      /\ UNCHANGED <<up, connected, awaiting, reading, streaming, called, broken>>
  BY DEF Reply
<1>2. wire \in [Peer -> Seq(Payload)] /\ Caller[i] \in Peer /\ k \in Kind
  BY TwoPeers DEF WaitInv, PathTypeOK, Kind
<1>3. Sent(i) /\ \A j : Sent(j) => Sent(j)'
  BY <1>1 DEF Sent, WaitInv, OnlySentCalls
<1>4. wire' \in [Peer -> Seq(Payload)] /\ \A q \in Peer : \A m \in ToSet(wire'[q]) : Sent(m.id)'
  BY <1>1, <1>2, <1>3, SendToIsSent
<1>5. up => /\ \A q \in Peer : ToSet(wire[q]) \subseteq ToSet(wire'[q])
            /\ Message(k, i) \in ToSet(wire'[Caller[i]])
  BY <1>1, <1>2, SendToKeeps DEF WaitInv
<1>6. PathTypeOK'
  BY <1>1, <1>4 DEF WaitInv, PathTypeOK
<1>7. OnlySentCalls'
  BY <1>1, <1>3, <1>4 DEF WaitInv, OnlySentCalls, HasStream
<1>8. ASSUME up, NEW j \in awaiting', j \in awaiting => Somewhere(j)
      PROVE  Somewhere(j)'
  <2>1. j \in Call /\ Somewhere(j)
    BY <1>1, <1>8 DEF WaitInv, PathTypeOK
  <2>2. CASE j = i
    BY <1>5, <1>8, <2>2 DEF Somewhere, Holds, Message
  <2>3. CASE j # i
    BY <1>1, <1>5, <1>8, <2>1, <2>3, TwoPeers DEF Somewhere, Holds, HasStream
  <2> QED
    BY <2>2, <2>3
<1>9. WaitingCallIsSomewhere'
  BY <1>1, <1>8, StillSomewhere
<1> QED
  BY <1>6, <1>7, <1>9 DEF WaitInv

\* What an end does with the payload it takes: where the call may be now.
LEMMA TakesKeeps ==
    ASSUME WaitInv, NEW p \in Peer, wire[p] # <<>>, NEW i, i = First(p).id, UNCHANGED <<up, connected, streaming>>,
           awaiting' \subseteq awaiting, reading' \subseteq reading \cup {i},
           broken \subseteq broken',
           \A j : Sent(j) => Sent(j)',
           called' \in [Call -> Nat], running' \subseteq running \cup {i}, running \subseteq running',
           i \in reading' => HasStream(i),
           Consume(p) \/ Bounce(p, i),
           up /\ connected = Peer /\ i \in awaiting' /\ Somewhere(i) => Somewhere(i)'
    PROVE  WaitInv'
<1>1. /\ Rest(p) \in [Peer -> Seq(Payload)] /\ First(p) \in ToSet(wire[p])
      /\ i \in Call
      /\ ToSet(wire[p]) = {First(p)} \union ToSet(Rest(p)[p])
      /\ \A q \in Peer : q # p => Rest(p)[q] = wire[q]
      /\ \A q \in Peer : ToSet(Rest(p)[q]) \subseteq ToSet(wire[q])
  BY RestKeeps DEF WaitInv
<1>2. Sent(i) /\ Sent(i)'
  BY <1>1 DEF WaitInv, OnlySentCalls
<1>3. /\ wire' \in [Peer -> Seq(Payload)] /\ \A q \in Peer : \A m \in ToSet(wire'[q]) : Sent(m.id)'
      /\ up => \A q \in Peer : ToSet(Rest(p)[q]) \subseteq ToSet(wire'[q])
  <2>1. CASE Consume(p)
    BY <1>1, <2>1 DEF Consume, WaitInv, OnlySentCalls
  <2>2. CASE Bounce(p, i)
    <3>1. SendTo(Other(p), Rest(p), "error", i) /\ Other(p) \in Peer /\ "error" \in Kind
      BY <2>2, TwoPeers DEF Bounce, Kind
    <3> QED
      BY <1>1, <1>2, <3>1, SendToIsSent, SendToKeeps DEF WaitInv
  <2> QED
    BY <2>1, <2>2
<1>4. PathTypeOK'
  BY <1>1, <1>3 DEF WaitInv, PathTypeOK
<1>5. OnlySentCalls'
  BY <1>2, <1>3 DEF WaitInv, OnlySentCalls, HasStream
<1>6. ASSUME up, connected = Peer, NEW j \in awaiting', j \in awaiting => Somewhere(j)
      PROVE  Somewhere(j)'
  <2>1. j \in Call /\ Somewhere(j)
    BY <1>6 DEF WaitInv, PathTypeOK
  <2>2. CASE j = i
    BY <1>6, <2>1, <2>2
  <2>3. CASE j # i
    <3>1. \A q \in Peer : \A m \in ToSet(wire[q]) : m.id = j => m \in ToSet(wire'[q])
      BY <1>1, <1>3, <1>6, <2>3
    <3> QED
      BY <2>1, <2>3, <3>1, TwoPeers DEF Somewhere, Holds, HasStream
  <2> QED
    BY <2>2, <2>3
<1>7. WaitingCallIsSomewhere'
  BY <1>6, StillSomewhere
<1> QED
  BY <1>4, <1>5, <1>7 DEF WaitInv

\* An error that bounces is on its way to the other end.
LEMMA BounceIsSomewhere ==
    ASSUME WaitInv, NEW p \in Peer, wire[p] # <<>>, NEW i, i = First(p).id, Bounce(p, i), up
    PROVE  Somewhere(i)'
<1>1. Rest(p) \in [Peer -> Seq(Payload)] /\ i \in Call
  BY RestKeeps DEF WaitInv
<1>2. SendTo(Other(p), Rest(p), "error", i) /\ Other(p) \in Peer /\ "error" \in Kind
  BY TwoPeers DEF Bounce, Kind
<1>3. Message("error", i) \in ToSet(wire'[Other(p)])
  BY <1>1, <1>2, SendToKeeps DEF WaitInv
<1>4. Other(p) = Callee(i) \/ Other(p) = Caller[i]
  BY <1>1, <1>2, TwoPeers
<1> QED
  BY <1>3, <1>4 DEF Somewhere, Holds, Message

\* A payload that goes leaves its call where else it was, unless it was of a kind
\* that counts.
LEMMA GoneIsElsewhere ==
    ASSUME WaitInv, NEW p \in Peer, wire[p] # <<>>, NEW i, i = First(p).id, Consume(p), UNCHANGED streaming,
           i \in running => i \in running',
           broken \subseteq broken',
           ~(p = Callee(i) /\ First(p).kind \in {"request", "unknown", "error"}),
           ~(p = Caller[i] /\ First(p).kind \in {"result", "void", "error"}),
           Somewhere(i)
    PROVE  Somewhere(i)'
<1>1. /\ i \in Call
      /\ ToSet(wire[p]) = {First(p)} \union ToSet(Rest(p)[p])
      /\ \A q \in Peer : q # p => Rest(p)[q] = wire[q]
  BY RestKeeps DEF WaitInv
<1>2. wire' = Rest(p)
  BY DEF Consume
<1>3. Callee(i) \in Peer /\ Caller[i] \in Peer
  BY <1>1, TwoPeers
<1>4. Holds(wire[Callee(i)], {"request", "unknown", "error"}, i)
      => Holds(wire'[Callee(i)], {"request", "unknown", "error"}, i)
  BY <1>1, <1>2, <1>3 DEF Holds
<1>5. Holds(wire[Caller[i]], {"result", "void", "error"}, i)
      => Holds(wire'[Caller[i]], {"result", "void", "error"}, i)
  BY <1>1, <1>2, <1>3 DEF Holds
<1> QED
  BY <1>4, <1>5 DEF Somewhere, HasStream

\* A message arrives.
LEMMA DeliverWaits ==
    ASSUME WaitInv, NEW p \in Peer, NEW i, i = First(p).id, Deliver(p)
    PROVE  WaitInv'
<1>t. /\ called \in [Call -> Nat] /\ reading \subseteq Call
      /\ \A j \in reading : HasStream(j)
  BY DEF WaitInv, PathTypeOK, OnlySentCalls
<1>p. ASSUME wire[p] # <<>>
      PROVE  i \in Call /\ First(p).kind \in Kind /\ (p = Callee(i) \/ p = Caller[i]) /\ Callee(i) # Caller[i]
  <2>1. i \in Call /\ First(p).kind \in Kind
    BY <1>p, RestKeeps DEF WaitInv
  <2> QED
    BY <2>1, TwoPeers
<1>1. CASE DropUnheard(p)
  <2>1. /\ p \notin connected /\ wire[p] # <<>> /\ Consume(p)
        /\ UNCHANGED <<up, connected, awaiting, reading, streaming, running, called, broken>>
    BY <1>1 DEF DropUnheard
  <2> QED
    BY <1>t, <2>1, TakesKeeps DEF Sent
<1>2. CASE UnknownMethod(p) \/ InvalidResponse(p)
  <2>1. /\ wire[p] # <<>> /\ Bounce(p, i)
        /\ UNCHANGED <<up, connected, awaiting, reading, streaming, running, called, broken>>
    BY <1>2 DEF UnknownMethod, InvalidResponse, Arrives
  <2>2. up => Somewhere(i)'
    BY <2>1, BounceIsSomewhere
  <2> QED
    BY <1>t, <2>1, <2>2, TakesKeeps DEF Sent
<1>3. CASE Request(p)
  <2>1. /\ wire[p] # <<>> /\ running' = running \cup {i}
        /\ reading' = IF HasStream(i) THEN reading \cup {i} ELSE reading
        /\ Consume(p)
        /\ UNCHANGED <<up, connected, awaiting, streaming, called, broken>>
    BY <1>3 DEF Request, Arrives
  <2>2. Somewhere(i)'
    BY <2>1 DEF Somewhere
  <2>3. i \in reading' => HasStream(i)
    BY <1>t, <2>1
  <2> QED
    BY <1>t, <2>1, <2>2, <2>3, TakesKeeps DEF Sent
<1>4. CASE CallbackRuns(p)
  <2>1. /\ wire[p] # <<>> /\ i \in awaiting /\ awaiting' = awaiting \ {i}
        /\ called' = [called EXCEPT ![i] = @ + 1] /\ Consume(p)
        /\ UNCHANGED <<up, connected, reading, streaming, running, broken>>
    BY <1>4 DEF CallbackRuns, Arrives
  <2>2. i \in Call /\ called' \in [Call -> Nat]
    BY <1>p, <1>t, <2>1
  <2>3. \A j : Sent(j) => Sent(j)'
    <3> SUFFICES ASSUME NEW j, Sent(j) PROVE Sent(j)'
      OBVIOUS
    <3>1. CASE j = i
      BY <1>t, <2>1, <2>2, <3>1 DEF Sent
    <3>2. CASE j # i
      <4>1. called'[j] = called[j]
        BY <1>t, <2>1, <2>2, <3>2
      <4> QED
        BY <2>1, <3>2, <4>1 DEF Sent
    <3> QED
      BY <3>1, <3>2
  <2> QED
    BY <1>t, <2>1, <2>2, <2>3, TakesKeeps
<1>5. CASE StreamReceives(p)
  <2>1. /\ wire[p] # <<>> /\ p = Callee(i) /\ i \in reading
        /\ First(p).kind \in {"data", "end", "error"}
        /\ reading' = IF First(p).kind = "error" THEN reading \ {i} ELSE reading
        /\ broken' = IF First(p).kind = "error" THEN broken \cup {i} ELSE broken
        /\ Consume(p)
        /\ UNCHANGED <<up, connected, awaiting, streaming, running, called>>
    BY <1>5 DEF StreamReceives, Arrives
  <2>2. ASSUME Somewhere(i) PROVE Somewhere(i)'
    <3>1. CASE First(p).kind = "error"
      BY <1>t, <2>1, <3>1 DEF Somewhere, HasStream
    <3>2. CASE First(p).kind # "error"
      BY <1>p, <2>1, <2>2, <3>2, GoneIsElsewhere
    <3> QED
      BY <3>1, <3>2
  <2> QED
    BY <1>t, <2>1, <2>2, TakesKeeps DEF Sent
<1> QED
  BY <1>1, <1>2, <1>3, <1>4, <1>5 DEF Deliver

\* A socket closes.
LEMMA ClosingWaits ==
    ASSUME WaitInv, SocketCloses \/ \E p \in Peer : Close(p)
    PROVE  WaitInv'
<1>1. CASE SocketCloses
  <2>1. /\ ~up' /\ wire' = [p \in Peer |-> <<>>]
        /\ UNCHANGED <<connected, awaiting, reading, streaming, running, replies, called, broken>>
    BY <1>1 DEF SocketCloses
  <2>2. WaitingCallIsSomewhere'
    BY <2>1 DEF WaitingCallIsSomewhere
  <2>3. OnlySentCalls'
    BY <2>1, ElementsOfNothing DEF WaitInv, OnlySentCalls, Sent, HasStream
  <2> QED
    BY <2>1, <2>2, <2>3 DEF WaitInv, PathTypeOK
<1>2. ASSUME NEW p \in Peer, Close(p) PROVE WaitInv'
  <2>1. /\ connected' # Peer
        /\ UNCHANGED <<up, wire, awaiting, reading, streaming, running, replies, called, broken>>
    BY <1>2 DEF Close
  <2>2. WaitingCallIsSomewhere'
    BY <2>1 DEF WaitingCallIsSomewhere
  <2> QED
    BY <2>1, <2>2 DEF WaitInv, PathTypeOK, OnlySentCalls, Sent, HasStream
<1> QED
  BY <1>1, <1>2

\* Every step keeps the calls somewhere.
LEMMA WaitStep == WaitInv /\ [Next]_vars => WaitInv'
<1> SUFFICES ASSUME WaitInv, [Next]_vars PROVE WaitInv'
  OBVIOUS
<1>1. CASE UNCHANGED vars
  BY <1>1 DEF vars, WaitInv, PathTypeOK, OnlySentCalls, Sent, HasStream, WaitingCallIsSomewhere,
              InFlight
<1>2. ASSUME NEW p \in Peer, Deliver(p) PROVE WaitInv'
  <2>1. PICK i : i = First(p).id
    OBVIOUS
  <2> QED
    BY <1>2, <2>1, DeliverWaits
<1> QED
  BY <1>1, <1>2, SendMethodWaits, StreamWaits, ReplyWaits, ClosingWaits DEF Next, Answer

\* While both ends listen, a call that waits is always somewhere: on its way, in
\* its handler, in a reply or in an error that comes back, however many calls go
\* either way, whatever bounces and however often a handler replies.
THEOREM WaitingCallsAreSomewhere == Spec => []WaitingCallIsSomewhere
<1>1. Init => WaitInv
  <2> SUFFICES ASSUME Init PROVE WaitInv
    OBVIOUS
  <2>1. \A p \in Peer : wire[p] = <<>> /\ ToSet(wire[p]) = {}
    BY ElementsOfNothing DEF Init
  <2>2. PathTypeOK
    BY DEF Init, PathTypeOK, NoStream
  <2>3. OnlySentCalls
    BY <2>1 DEF Init, OnlySentCalls, HasStream
  <2> QED
    BY <2>2, <2>3 DEF Init, WaitInv, WaitingCallIsSomewhere
<1>2. WaitInv => WaitingCallIsSomewhere
  BY DEF WaitInv
<1> QED
  BY <1>1, <1>2, WaitStep, PTL DEF Spec

-----------------------------------------------------------------------------
-----------------------------------------------------------------------------
\* While connect() has not overlapped, one socket connects at most, and only
\* while the table is empty.
OneConnects ==
  ~overlapped =>
    /\ Len(table) <= 1
    /\ \A s \in Sockets : socket[s] = "connecting" => table = <<>>
    /\ \A s, t \in Sockets : socket[s] = "connecting" /\ socket[t] = "connecting" => s = t

\* A socket that was seen open is past connecting, and one that is open was seen so.
OpenedAfter ==
  \A s \in Sockets : /\ s \in opened => socket[s] \notin {"none", "connecting"}
                     /\ socket[s] \in {"open", "closing"} => s \in opened

ClientInv == ClientInStep /\ OneConnects /\ OpenedAfter

LEMMA ClientInitInv == ClientInit => ClientInv
<1> SUFFICES ASSUME ClientInit PROVE ClientInv
  OBVIOUS
<1>1. table = <<>> /\ table \in Seq(Sockets) /\ Len(table) = 0 /\ DOMAIN table = {}
  BY DEF ClientInit
<1>2. hangups \in Seq([of : Sockets, is : {"pending", "resolved", "rejected"}]) /\ DOMAIN hangups = {}
  BY DEF ClientInit
<1>3. ClientTypeOK
  <2>1. IsInjective(table)
    BY <1>1 DEF IsInjective
  <2>2. calledBack \in [Sockets -> 0..1]
    BY DEF ClientInit
  <2>3. overlapped \in BOOLEAN /\ opened \subseteq Sockets
    BY DEF ClientInit
  <2>4. socket \in [Sockets -> {"none", "connecting", "open", "broken", "closing", "closed"}]
    BY DEF ClientInit
  <2>5. QED
    BY <1>1, <1>2, <2>1, <2>2, <2>4, <2>3, Zenon DEF ClientTypeOK
<1>4. TableIsOpen /\ OneUnlessOverlapped /\ CalledBackOnce /\ PendingIsClosing
  BY <1>1, <1>2 DEF ClientInit, TableIsOpen, OneUnlessOverlapped, CalledBackOnce, PendingIsClosing
<1>5. OneConnects /\ OpenedAfter
  BY <1>1 DEF ClientInit, OneConnects, OpenedAfter
<1>6. QED
  BY <1>3, <1>4, <1>5 DEF ClientInv, ClientInStep

\* What ends a socket takes its connection out of the table, and no other.
LEMMA DisconnectedLeaves ==
  ASSUME ClientTypeOK, NEW s \in Sockets, Disconnected(s)
  PROVE  /\ table' \in Seq(Sockets) /\ IsInjective(table') /\ Len(table') <= Len(table)
         /\ \A i \in DOMAIN table' : table'[i] # s /\ \E j \in DOMAIN table : table'[i] = table[j]
<1>1. table \in Seq(Sockets) /\ IsInjective(table)
  BY DEF ClientTypeOK
<1>2. PICK n \in Nat : n = Len(table) /\ DOMAIN table = 1..n
  BY <1>1, LenProperties
<1>3. CASE s \notin ToSet(table) /\ UNCHANGED table
  BY <1>1, <1>2, <1>3 DEF ToSet
<1>4. CASE \E k \in DOMAIN table : table[k] = s /\ table' = RemoveAt(table, k)
  <2>1. PICK k \in 1..n : table[k] = s /\ table' = RemoveAt(table, k)
    BY <1>2, <1>4
  <2>2. table' \in Seq(Sockets) /\ Len(table') = n - 1
    BY <1>1, <1>2, <2>1, RemovedAt
  <2>3. IsInjective(table') /\ ToSet(table') = ToSet(table) \ {s}
    BY <1>1, <1>2, <2>1, ElementsOfRemoved
  <2>4. ASSUME NEW i \in DOMAIN table'
        PROVE  table'[i] # s /\ \E j \in DOMAIN table : table'[i] = table[j]
    <3>1. table'[i] \in ToSet(table')
      BY DEF ToSet
    <3>2. table'[i] \in ToSet(table) \ {s}
      BY <2>3, <3>1
    <3>3. QED
      BY <3>2 DEF ToSet
  <2>5. QED
    BY <1>2, <2>2, <2>3, <2>4
<1>5. QED
  BY <1>3, <1>4 DEF Disconnected

\* Every promise of disconnect() that waits for s is settled, and no other.
LEMMA SettledForSocket ==
  ASSUME ClientTypeOK, NEW s \in Sockets, NEW outcome \in {"resolved", "rejected"}, Settle(s, outcome)
  PROVE  /\ hangups' \in Seq([of : Sockets, is : {"pending", "resolved", "rejected"}])
         /\ DOMAIN hangups' = DOMAIN hangups
         /\ \A k \in DOMAIN hangups : hangups'[k].is = "pending" => hangups'[k] = hangups[k] /\ hangups[k].of # s
<1> DEFINE R == [of : Sockets, is : {"pending", "resolved", "rejected"}]
<1>1. PICK n \in Nat : n = Len(hangups) /\ DOMAIN hangups = 1..n
  BY LenProperties DEF ClientTypeOK
<1>2. \A k \in 1..n : hangups[k] \in R
  <2>1. hangups \in Seq(R)
    BY DEF ClientTypeOK
  <2>2. QED
    BY <1>1, <2>1, ElementOfSeq
<1>3. hangups' = [k \in 1..n |->
        IF hangups[k] = [of |-> s, is |-> "pending"] THEN [of |-> s, is |-> outcome] ELSE hangups[k]]
  BY <1>1 DEF Settle
<1>4. \A k \in 1..n : hangups'[k] \in R
  BY <1>2, <1>3
<1>5. hangups' \in [1..n -> R]
  BY <1>3, <1>4
<1>6. hangups' \in Seq(R) /\ DOMAIN hangups' = 1..n
  <2>1. Seq(R) = UNION {[1..m -> R] : m \in Nat}
    BY SeqDef
  <2> HIDE DEF R
  <2>2. hangups' \in Seq(R)
    BY <1>1, <1>5, <2>1
  <2>3. QED
    BY <1>5, <2>2
<1>7. ASSUME NEW k \in 1..n, hangups'[k].is = "pending"
      PROVE  hangups'[k] = hangups[k] /\ hangups[k].of # s
  <2>1. hangups[k] # [of |-> s, is |-> "pending"] /\ hangups'[k] = hangups[k]
    BY <1>3, <1>7
  <2>2. QED
    BY <1>2, <1>7, <2>1
<1>8. QED
  BY <1>1, <1>6, <1>7

-----------------------------------------------------------------------------
\* A socket that fails or closes leaves the table, and the promises that wait for
\* it are settled.
LEMMA EndsKeepsStep ==
  ASSUME ClientInv, NEW s \in Sockets, Disconnected(s),
         NEW outcome \in {"resolved", "rejected"}, Settle(s, outcome),
         NEW end \in {"broken", "closed"}, socket' = [socket EXCEPT ![s] = end],
         calledBack' \in [Sockets -> 0..1], CalledBackOnce', UNCHANGED <<opened, overlapped>>
  PROVE  ClientInv'
<1>1. ClientTypeOK /\ TableIsOpen /\ OneUnlessOverlapped /\ PendingIsClosing /\ OneConnects /\ OpenedAfter
  BY DEF ClientInv, ClientInStep
<1>2. /\ table' \in Seq(Sockets) /\ IsInjective(table') /\ Len(table') <= Len(table)
      /\ \A i \in DOMAIN table' : table'[i] # s /\ \E j \in DOMAIN table : table'[i] = table[j]
  BY <1>1, DisconnectedLeaves
<1>3. /\ hangups' \in Seq([of : Sockets, is : {"pending", "resolved", "rejected"}])
      /\ DOMAIN hangups' = DOMAIN hangups
      /\ \A k \in DOMAIN hangups : hangups'[k].is = "pending" => hangups'[k] = hangups[k] /\ hangups[k].of # s
  BY <1>1, SettledForSocket
<1>4. socket \in [Sockets -> {"none", "connecting", "open", "broken", "closing", "closed"}]
  BY <1>1 DEF ClientTypeOK
<1>5. socket' \in [Sockets -> {"none", "connecting", "open", "broken", "closing", "closed"}]
  BY <1>4
<1>6. \A t \in Sockets : t # s => socket'[t] = socket[t]
  BY <1>4
<1>7. ClientTypeOK'
  BY <1>1, <1>2, <1>3, <1>5 DEF ClientTypeOK
<1>8. TableIsOpen'
  <2>1. ASSUME NEW i \in DOMAIN table' PROVE socket'[table'[i]] \in {"open", "closing"}
    <3>1. PICK j \in DOMAIN table : table'[i] = table[j] /\ table'[i] # s
      BY <1>2, <2>1
    <3>2. table[j] \in Sockets
      BY <1>1 DEF ClientTypeOK
    <3>3. QED
      BY <1>1, <1>6, <3>1, <3>2 DEF TableIsOpen
  <2>2. QED
    BY <2>1 DEF TableIsOpen
<1>9. PICK n \in Nat : n = Len(table)
  BY <1>1, LenProperties DEF ClientTypeOK
<1>10. PICK m \in Nat : m = Len(table') /\ m <= n
  BY <1>2, <1>9, LenProperties
<1>11. OneUnlessOverlapped'
  BY <1>1, <1>9, <1>10 DEF OneUnlessOverlapped
<1>12. PendingIsClosing'
  <2>1. ASSUME NEW k \in DOMAIN hangups, hangups'[k].is = "pending"
        PROVE  socket'[hangups'[k].of] = "closing"
    <3>1. hangups'[k] = hangups[k] /\ hangups[k].of # s /\ hangups[k].of \in Sockets
      <4>1. hangups \in Seq([of : Sockets, is : {"pending", "resolved", "rejected"}])
        BY <1>1 DEF ClientTypeOK
      <4>2. hangups[k] \in [of : Sockets, is : {"pending", "resolved", "rejected"}]
        <5>1. k \in 1..Len(hangups)
          BY <2>1, <4>1, LenProperties
        <5>2. QED
          BY <4>1, <5>1, ElementOfSeq
      <4>3. QED
        BY <1>3, <2>1, <4>2
    <3>2. QED
      BY <1>1, <1>6, <2>1, <3>1 DEF PendingIsClosing
  <2>2. QED
    BY <1>3, <2>1 DEF PendingIsClosing
<1>13. OneConnects'
  <2>1. ASSUME ~overlapped, table = <<>> PROVE table' = <<>>
    <3>1. n = 0 /\ m = 0
      BY <1>9, <1>10, <2>1
    <3>2. QED
      BY <1>2, <1>10, <3>1, EmptySeq
  <2>2. \A t \in Sockets : socket'[t] = "connecting" => socket[t] = "connecting"
    BY <1>4
  <2>3. QED
    BY <1>1, <1>9, <1>10, <2>1, <2>2 DEF OneConnects
<1>14. OpenedAfter'
  <2>1. opened' = opened /\ socket'[s] \in {"broken", "closed"}
    BY <1>4
  <2>2. s \in opened => socket[s] \notin {"none", "connecting"}
    BY <1>1 DEF OpenedAfter
  <2>3. QED
    BY <1>1, <1>6, <2>1, <2>2 DEF OpenedAfter
<1>15. QED
  BY <1>7, <1>8, <1>11, <1>12, <1>13, <1>14 DEF ClientInv, ClientInStep

-----------------------------------------------------------------------------
\* connect() of a socket that nothing knows yet.
LEMMA ConnectStep == ASSUME ClientInv, NEW s \in Sockets, Connect(s) PROVE ClientInv'
<1>1. ClientTypeOK /\ TableIsOpen /\ CalledBackOnce /\ PendingIsClosing /\ OneConnects /\ OpenedAfter
  BY DEF ClientInv, ClientInStep
<1>2. socket \in [Sockets -> {"none", "connecting", "open", "broken", "closing", "closed"}]
  BY <1>1 DEF ClientTypeOK
<1>3. socket' = [socket EXCEPT ![s] = "connecting"] /\ socket[s] = "none" /\ table = <<>>
  BY DEF Connect, isConnected
<1>4. table' = table /\ opened' = opened /\ calledBack' = calledBack /\ hangups' = hangups /\ DOMAIN table = {} /\ Len(table) = 0
  BY <1>3 DEF Connect
<1>5. ClientTypeOK'
  <2>1. overlapped' \in BOOLEAN
    BY <1>1 DEF Connect, ClientTypeOK
  <2>2. socket' \in [Sockets -> {"none", "connecting", "open", "broken", "closing", "closed"}]
    BY <1>2, <1>3
  <2>3. QED
    BY <1>1, <1>4, <2>1, <2>2, Zenon DEF ClientTypeOK
<1>6. TableIsOpen' /\ OneUnlessOverlapped'
  BY <1>4 DEF TableIsOpen, OneUnlessOverlapped
<1>11. s \notin opened /\ OpenedAfter'
  <2>1. s \notin opened
    BY <1>1, <1>3 DEF OpenedAfter
  <2>2. QED
    BY <1>1, <1>2, <1>3, <1>4, <2>1 DEF OpenedAfter
<1>7. CalledBackOnce'
  BY <1>1, <1>2, <1>3, <1>4, <1>11 DEF CalledBackOnce
<1>8. PendingIsClosing'
  <2>1. ASSUME NEW k \in DOMAIN hangups, hangups[k].is = "pending" PROVE socket'[hangups[k].of] = "closing"
    <3>1. socket[hangups[k].of] = "closing"
      BY <1>1, <2>1 DEF PendingIsClosing
    <3>2. hangups[k].of # s
      BY <1>3, <3>1
    <3>3. QED
      BY <1>2, <1>3, <3>1, <3>2
  <2>2. QED
    BY <1>4, <2>1 DEF PendingIsClosing
<1>9. OneConnects'
  <2>1. ASSUME ~overlapped' PROVE ~overlapped /\ \A t \in Sockets : socket[t] # "connecting"
    BY <2>1 DEF Connect
  <2>2. ASSUME ~overlapped', NEW t \in Sockets, socket'[t] = "connecting" PROVE t = s
    BY <1>2, <1>3, <2>1, <2>2
  <2>3. QED
    BY <1>3, <1>4, <2>2 DEF OneConnects
<1>10. QED
  BY <1>5, <1>6, <1>7, <1>8, <1>9, <1>11 DEF ClientInv, ClientInStep

\* A socket that opens enters the table behind the others.
LEMMA OpensStep == ASSUME ClientInv, NEW s \in Sockets, Opens(s) PROVE ClientInv'
<1>1. ClientTypeOK /\ TableIsOpen /\ OneUnlessOverlapped /\ CalledBackOnce /\ PendingIsClosing /\ OneConnects /\ OpenedAfter
  BY DEF ClientInv, ClientInStep
<1>2. socket \in [Sockets -> {"none", "connecting", "open", "broken", "closing", "closed"}]
  BY <1>1 DEF ClientTypeOK
<1>3. table \in Seq(Sockets) /\ IsInjective(table)
  BY <1>1 DEF ClientTypeOK
<1>4. /\ socket[s] = "connecting" /\ socket' = [socket EXCEPT ![s] = "open"]
      /\ table' = Append(table, s) /\ hangups' = hangups /\ overlapped' = overlapped
      /\ calledBack' = [calledBack EXCEPT ![s] = @ + 1] /\ opened' = opened \union {s}
  BY DEF Opens
<1>5. PICK n \in Nat : n = Len(table) /\ DOMAIN table = 1..n
  BY <1>3, LenProperties
<1>6. /\ table' \in Seq(Sockets) /\ Len(table') = n + 1
      /\ \A i \in 1..n : table'[i] = table[i]
      /\ table'[n + 1] = s
  BY <1>3, <1>4, <1>5, AppendProperties
<1>7. DOMAIN table' = 1..(n + 1)
  BY <1>6, LenProperties
<1>8. \A i \in 1..n : table[i] # s /\ table[i] \in Sockets
  BY <1>1, <1>3, <1>4, <1>5 DEF TableIsOpen
<1>9. \A i \in 1..(n + 1) : i \in 1..n \/ i = n + 1
  BY <1>5
<1>10. ClientTypeOK'
  <2>1. IsInjective(table')
    <3>1. \A i, j \in 1..n : table[i] = table[j] => i = j
      BY <1>3, <1>5 DEF IsInjective
    <3>2. \A i, j \in 1..(n + 1) : table'[i] = table'[j] => i = j
      BY <1>6, <1>8, <1>9, <3>1
    <3>3. QED
      BY <1>7, <3>2 DEF IsInjective
  <2>2. calledBack \in [Sockets -> 0..1] /\ calledBack[s] = 0
    BY <1>1, <1>4 DEF ClientTypeOK, CalledBackOnce, OpenedAfter
  <2>3. calledBack' \in [Sockets -> 0..1] /\ opened' \subseteq Sockets
    BY <1>1, <1>4, <2>2 DEF ClientTypeOK
  <2>4. socket' \in [Sockets -> {"none", "connecting", "open", "broken", "closing", "closed"}]
    BY <1>2, <1>4
  <2>5. QED
    BY <1>1, <1>4, <1>6, <2>1, <2>3, <2>4, Zenon DEF ClientTypeOK
<1>11. TableIsOpen'
  <2>1. ASSUME NEW i \in 1..(n + 1) PROVE socket'[table'[i]] \in {"open", "closing"}
    <3>1. CASE i = n + 1
      BY <1>2, <1>4, <1>6, <3>1
    <3>2. CASE i \in 1..n
      BY <1>1, <1>2, <1>4, <1>5, <1>6, <1>8, <3>2 DEF TableIsOpen
    <3>3. QED
      BY <1>9, <2>1, <3>1, <3>2
  <2>2. QED
    BY <1>7, <2>1 DEF TableIsOpen
<1>12. ~overlapped => table = <<>> /\ n = 0
  <2>1. ~overlapped => table = <<>>
    BY <1>1, <1>4 DEF OneConnects
  <2>2. Len(<<>>) = 0
    OBVIOUS
  <2>3. QED
    BY <1>5, <2>1, <2>2
<1>13. OneUnlessOverlapped'
  BY <1>4, <1>6, <1>12 DEF OneUnlessOverlapped
<1>14. CalledBackOnce'
  <2>1. calledBack \in [Sockets -> 0..1] /\ s \notin opened
    BY <1>1, <1>4 DEF ClientTypeOK, OpenedAfter
  <2>2. calledBack[s] = 0
    BY <1>1, <1>4, <2>1 DEF CalledBackOnce
  <2>3. QED
    BY <1>1, <1>2, <1>4, <2>1, <2>2 DEF CalledBackOnce
<1>18. OpenedAfter'
  BY <1>1, <1>2, <1>4 DEF OpenedAfter
<1>15. PendingIsClosing'
  <2>1. ASSUME NEW k \in DOMAIN hangups, hangups[k].is = "pending" PROVE socket'[hangups[k].of] = "closing"
    <3>1. socket[hangups[k].of] = "closing"
      BY <1>1, <2>1 DEF PendingIsClosing
    <3>2. hangups[k].of # s
      BY <1>4, <3>1
    <3>3. QED
      BY <1>2, <1>4, <3>1, <3>2
  <2>2. QED
    BY <1>4, <2>1 DEF PendingIsClosing
<1>16. OneConnects'
  <2>1. ASSUME ~overlapped, NEW t \in Sockets, socket'[t] = "connecting" PROVE FALSE
    <3>1. t # s /\ socket[t] = "connecting"
      BY <1>2, <1>4, <2>1
    <3>2. QED
      BY <1>1, <1>4, <2>1, <3>1 DEF OneConnects
  <2>2. QED
    BY <1>4, <1>6, <1>12, <2>1 DEF OneConnects
<1>17. QED
  BY <1>10, <1>11, <1>13, <1>14, <1>15, <1>16, <1>18 DEF ClientInv, ClientInStep

\* disconnect() closes the socket of a connection, which is open.
LEMMA DisconnectStep == ASSUME ClientInv, Disconnect PROVE ClientInv'
<1> DEFINE h == Head(table)
           R == [of : Sockets, is : {"pending", "resolved", "rejected"}]
<1>1. ClientTypeOK /\ TableIsOpen /\ OneUnlessOverlapped /\ CalledBackOnce /\ PendingIsClosing /\ OneConnects /\ OpenedAfter
  BY DEF ClientInv, ClientInStep
<1>2. socket \in [Sockets -> {"none", "connecting", "open", "broken", "closing", "closed"}]
  BY <1>1 DEF ClientTypeOK
<1>3. table \in Seq(Sockets) /\ table # <<>>
  BY <1>1 DEF ClientTypeOK, Disconnect, isConnected
<1>4. h \in Sockets /\ h = table[1] /\ 1 \in DOMAIN table
  BY <1>3
<1>5. socket[h] \in {"open", "closing"}
  BY <1>1, <1>4 DEF TableIsOpen
<1>6. /\ hangups' = Append(hangups, [of |-> h, is |-> "pending"])
      /\ socket' = [socket EXCEPT ![h] = "closing"]
      /\ table' = table /\ opened' = opened /\ calledBack' = calledBack /\ overlapped' = overlapped
  BY DEF Disconnect
<1> HIDE DEF h
<1>7. hangups \in Seq(R) /\ [of |-> h, is |-> "pending"] \in R
  BY <1>1, <1>4 DEF ClientTypeOK
<1>8. PICK n \in Nat : n = Len(hangups) /\ DOMAIN hangups = 1..n
  BY <1>7, LenProperties
<1>9. /\ hangups' \in Seq(R) /\ Len(hangups') = n + 1
      /\ \A i \in 1..n : hangups'[i] = hangups[i]
      /\ hangups'[n + 1] = [of |-> h, is |-> "pending"]
  BY <1>6, <1>7, <1>8, AppendProperties
<1>10. ClientTypeOK'
  <2>1. socket' \in [Sockets -> {"none", "connecting", "open", "broken", "closing", "closed"}]
    BY <1>2, <1>6
  <2>2. QED
    BY <1>1, <1>6, <1>9, <2>1, Zenon DEF ClientTypeOK
<1>11. TableIsOpen'
  <2>1. \A i \in DOMAIN table : table[i] \in Sockets
    BY <1>3
  <2>2. QED
    BY <1>1, <1>2, <1>6, <2>1 DEF TableIsOpen
<1>12. OneUnlessOverlapped'
  BY <1>1, <1>6 DEF OneUnlessOverlapped
<1>13. CalledBackOnce'
  BY <1>1, <1>2, <1>5, <1>6 DEF CalledBackOnce
<1>14. PendingIsClosing'
  <2>1. ASSUME NEW k \in 1..(n + 1), hangups'[k].is = "pending" PROVE socket'[hangups'[k].of] = "closing"
    <3>1. CASE k = n + 1
      BY <1>2, <1>4, <1>6, <1>9, <3>1
    <3>2. CASE k \in 1..n
      <4>1. hangups'[k] = hangups[k] /\ hangups[k] \in R
        BY <1>7, <1>8, <1>9, <3>2, ElementOfSeq
      <4>2. socket[hangups[k].of] = "closing" /\ hangups[k].of \in Sockets
        BY <1>1, <1>8, <2>1, <3>2, <4>1 DEF PendingIsClosing
      <4>3. QED
        BY <1>2, <1>6, <4>1, <4>2
    <3>3. QED
      BY <1>8, <2>1, <3>1, <3>2
  <2>2. DOMAIN hangups' = 1..(n + 1)
    BY <1>9, LenProperties
  <2>3. QED
    BY <2>1, <2>2 DEF PendingIsClosing
<1>15. OneConnects'
  <2>1. \A t \in Sockets : socket'[t] = "connecting" => socket[t] = "connecting"
    BY <1>2, <1>6
  <2>2. QED
    BY <1>1, <1>6, <2>1 DEF OneConnects
<1>16. OpenedAfter'
  <2>1. h \in opened
    BY <1>1, <1>4, <1>5 DEF OpenedAfter
  <2>2. QED
    BY <1>1, <1>2, <1>6, <2>1 DEF OpenedAfter
<1>17. QED
  BY <1>10, <1>11, <1>12, <1>13, <1>14, <1>15, <1>16 DEF ClientInv, ClientInStep

\* Each step of a client, its sockets included, keeps the invariant.
LEMMA ClientStep == ClientInv /\ [ClientNext]_clientVars => ClientInv'
<1> SUFFICES ASSUME ClientInv, [ClientNext]_clientVars PROVE ClientInv'
  OBVIOUS
<1>1. ClientTypeOK /\ TableIsOpen /\ OneUnlessOverlapped /\ CalledBackOnce /\ PendingIsClosing /\ OneConnects /\ OpenedAfter
  BY DEF ClientInv, ClientInStep
<1>2. ASSUME NEW s \in Sockets, Fails(s) PROVE ClientInv'
  <2>1. /\ calledBack' = [calledBack EXCEPT ![s] = IF s \notin opened /\ SelfIsBound THEN @ + 1 ELSE @]
        /\ opened' = opened /\ socket' = [socket EXCEPT ![s] = "broken"]
        /\ socket[s] \in {"connecting", "open", "closing"}
    BY <1>2 DEF Fails
  <2>2. socket \in [Sockets -> {"none", "connecting", "open", "broken", "closing", "closed"}]
    BY <1>1 DEF ClientTypeOK
  <2>3. calledBack \in [Sockets -> 0..1] /\ (s \notin opened => calledBack[s] = 0)
    BY <1>1, <2>1 DEF ClientTypeOK, CalledBackOnce
  <2>4. calledBack' \in [Sockets -> 0..1]
    BY <2>1, <2>3
  <2>5. CalledBackOnce'
    BY <1>1, <2>1, <2>2, <2>3 DEF CalledBackOnce
  <2>6. QED
    BY <1>2, <2>4, <2>5, EndsKeepsStep DEF Fails
<1>3. ASSUME NEW s \in Sockets, Closes(s) PROVE ClientInv'
  <2>1. /\ calledBack' = calledBack /\ opened' = opened /\ socket' = [socket EXCEPT ![s] = "closed"]
        /\ socket[s] \in {"open", "closing", "broken"}
    BY <1>3 DEF Closes
  <2>2. calledBack' \in [Sockets -> 0..1]
    BY <1>1, <2>1 DEF ClientTypeOK
  <2>3. socket \in [Sockets -> {"none", "connecting", "open", "broken", "closing", "closed"}]
    BY <1>1 DEF ClientTypeOK
  <2>4. CalledBackOnce'
    <3>1. socket[s] \in {"open", "closing"} => s \in opened
      BY <1>1 DEF OpenedAfter
    <3>2. QED
      BY <1>1, <2>1, <2>3, <3>1 DEF CalledBackOnce
  <2>5. QED
    BY <1>3, <2>2, <2>4, EndsKeepsStep DEF Closes
<1>4. CASE Hangup
  <2>1. table' = <<>> /\ DOMAIN table' = {} /\ Len(table') = 0 /\ table' \in Seq(Sockets)
    BY <1>4 DEF Hangup
  <2>2. /\ socket' = socket /\ opened' = opened /\ calledBack' = calledBack /\ hangups' = hangups
        /\ overlapped' = overlapped
    BY <1>4 DEF Hangup
  <2>3. IsInjective(table')
    BY <2>1 DEF IsInjective
  <2>4. ClientTypeOK'
    BY <1>1, <2>1, <2>2, <2>3, Zenon DEF ClientTypeOK
  <2>5. TableIsOpen' /\ OneUnlessOverlapped' /\ CalledBackOnce' /\ PendingIsClosing' /\ OneConnects' /\ OpenedAfter'
    BY <1>1, <2>1, <2>2 DEF TableIsOpen, OneUnlessOverlapped, CalledBackOnce, PendingIsClosing, OneConnects, OpenedAfter
  <2>6. QED
    BY <2>4, <2>5 DEF ClientInv, ClientInStep
<1>5. CASE UNCHANGED clientVars
  BY <1>1, <1>5
  DEF clientVars, ClientInv, ClientInStep, ClientTypeOK, TableIsOpen, OneUnlessOverlapped, CalledBackOnce,
      PendingIsClosing, OneConnects, OpenedAfter
<1>6. QED
  BY <1>2, <1>3, <1>4, <1>5, ConnectStep, OpensStep, DisconnectStep DEF ClientNext

\* Whatever its sockets emit and in which order, what a client's table holds can be
\* sent on, each connect() that succeeds calls back once, and each one that fails where
\* self is bound, disconnect() returns with the end of its socket, and only overlapping calls of connect() give a second connection
\* (packages/json-rpc-ws/src/shared-client.ts:81, 125).
THEOREM ClientStaysInStep == ClientSpec => []ClientInStep
<1>1. ClientInit => ClientInv
  BY ClientInitInv
<1>2. ClientInv /\ [ClientNext]_clientVars => ClientInv'
  BY ClientStep
<1>3. ClientInv => ClientInStep
  BY DEF ClientInv
<1>4. QED
  BY <1>1, <1>2, <1>3, PTL DEF ClientSpec

-----------------------------------------------------------------------------
\* The types of what the chain of retries is made of.
RetryTypeOK ==
    /\ inner \in {"open", "closing", "closed"}
    /\ timers \in Nat
    /\ armed \subseteq Nat \ {0} /\ timeout \in Nat

\* close() of an open socket takes back the permission to retry.
ClosedForGood == closedOpen => ~shouldRetry

\* The inductive invariant of the retries.
RetryInv == RetryTypeOK /\ OneRetryChain /\ ClosedOpenIsNotRetried /\ ClosedForGood

\* start() goes on with the chain there is, or begins one.
LEMMA StartRetryKeeps ==
  ASSUME RetryInv, StartRetry, shouldRetry, inner' \in {"open", "closing", "closed"},
         UNCHANGED <<shouldRetry, retrying, closedOpen, stopInside, threw, byHand>>
  PROVE  RetryInv'
<1> USE DEF RetryInv, RetryTypeOK, OneRetryChain, ClosedOpenIsNotRetried, ClosedForGood
<1>1. CASE timeout = 0
  <2>1. NextRetry
    BY <1>1 DEF StartRetry
  <2> QED
    BY <1>1, <2>1 DEF NextRetry
<1>2. CASE timeout # 0
  <2>1. UNCHANGED <<timers, timeout, armed>>
    BY <1>2 DEF StartRetry
  <2> QED
    BY <2>1
<1> QED
  BY <1>1, <1>2

\* stop() between two retries ends the chain.
LEMMA StopRetryKeeps ==
  ASSUME RetryInv, StopRetry, ~retrying, inner' \in {"open", "closing", "closed"},
         UNCHANGED <<shouldRetry, retrying, closedOpen, stopInside>>
  PROVE  RetryInv'
BY DEF RetryInv, RetryTypeOK, OneRetryChain, ClosedOpenIsNotRetried, ClosedForGood, StopRetry

\* Every step of the retries keeps the invariant.
LEMMA RetryStep == RetryInv /\ [RetryNext]_retryVars => RetryInv'
<1> SUFFICES ASSUME RetryInv, [RetryNext]_retryVars PROVE RetryInv'
  OBVIOUS
<1> USE DEF RetryInv
<1>1. CASE SocketClosed
  <2>1. CASE shouldRetry
    BY <1>1, <2>1, StartRetryKeeps DEF SocketClosed, OnClose
  <2>2. CASE ~shouldRetry
    BY <1>1, <2>2, StopRetryKeeps DEF SocketClosed, OnClose
  <2> QED
    BY <2>1, <2>2
<1>2. CASE CloseForGood
  BY <1>2 DEF CloseForGood, RetryTypeOK, OneRetryChain, ClosedOpenIsNotRetried, ClosedForGood
<1>3. CASE Reconnect
  BY <1>3 DEF Reconnect, RetryTypeOK, OneRetryChain, ClosedOpenIsNotRetried, ClosedForGood
<1>4. CASE ProgramStops
  <2>1. CASE retrying
    BY <1>4, <2>1 DEF ProgramStops, StopRetry, RetryTypeOK, OneRetryChain,
                      ClosedOpenIsNotRetried, ClosedForGood
  <2>2. CASE ~retrying
    BY <1>4, <2>2 DEF ProgramStops, StopRetry, RetryTypeOK, OneRetryChain,
                      ClosedOpenIsNotRetried, ClosedForGood
  <2> QED
    BY <2>1, <2>2
<1>5. CASE ProgramStarts
  <2>1. CASE shouldRetry
    BY <1>5, <2>1, StartRetryKeeps DEF ProgramStarts, RetryTypeOK
  <2>2. CASE ~shouldRetry
    <3>1. CASE timeout = 0
      <4>1. NextRetry /\ byHand'
        BY <1>5, <2>2, <3>1 DEF ProgramStarts, StartRetry
      <4> QED
        BY <1>5, <3>1, <4>1 DEF ProgramStarts, NextRetry, RetryTypeOK, OneRetryChain,
                                ClosedOpenIsNotRetried, ClosedForGood
    <3>2. CASE timeout # 0
      BY <1>5, <2>2, <3>2 DEF ProgramStarts, StartRetry, RetryTypeOK, OneRetryChain,
                              ClosedOpenIsNotRetried, ClosedForGood
    <3> QED
      BY <3>1, <3>2
  <2> QED
    BY <2>1, <2>2
<1>6. ASSUME NEW t \in armed, RetryFires(t) PROVE RetryInv'
  BY <1>6 DEF RetryFires, RetryTypeOK, OneRetryChain, ClosedOpenIsNotRetried, ClosedForGood
<1>7. CASE RetryReturns
  BY <1>7 DEF RetryReturns, NextRetry, RetryTypeOK, OneRetryChain,
              ClosedOpenIsNotRetried, ClosedForGood
<1>8. CASE RetryThrows
  BY <1>8 DEF RetryThrows, RetryTypeOK, OneRetryChain, ClosedOpenIsNotRetried, ClosedForGood
<1>9. CASE UNCHANGED retryVars
  BY <1>9 DEF retryVars, RetryTypeOK, OneRetryChain, ClosedOpenIsNotRetried, ClosedForGood
<1> QED
  BY <1>1, <1>2, <1>3, <1>4, <1>5, <1>6, <1>7, <1>8, <1>9 DEF RetryNext

\* One chain of retries at most, which close() of an open socket ends, however
\* start(), stop() and the handler are called, and whenever the handler throws (for
\* any number of timers).
THEOREM RetriesAreStopped == RetrySpec => []RetriesStop
<1>1. RetryInit => RetryInv
  BY DEF RetryInit, RetryInv, RetryTypeOK, OneRetryChain, ClosedOpenIsNotRetried, ClosedForGood
<1>2. RetryInv => RetriesStop
  BY DEF RetryInv, RetriesStop
<1> QED
  BY <1>1, <1>2, RetryStep, PTL DEF RetrySpec

-----------------------------------------------------------------------------
\* A message is being handed over exactly while the adapter has messages to
\* hand over, to a function that is not the first to be called.
Handing ==
  /\ dispatch \in [todo : Seq(Text), at : Nat \ {0}, running : Handler \cup {Nobody}, shrunk : BOOLEAN]
  /\ dispatch.todo = <<>> => dispatch = Idle
  /\ dispatch.running # Nobody => dispatch.at # 1

\* The loop has called those it went past, as long as none was removed.
HeardSoFar ==
  dispatch.todo # <<>> /\ ~dispatch.shrunk =>
    /\ dispatch.at <= Len(listeners) + 1
    /\ \A k \in 1..(dispatch.at - 1) : lastHeard[listeners[k]] = Len(arrived)

\* What a handler did not give up it asked for.
OwedOnce == \A h \in Handler : owed[h] <= onCalls

AdapterInv ==
  /\ NetworkTypeOK /\ Handing /\ HeardSoFar /\ OwedOnce
  /\ socketSub = "once" => "once" \in misuse
  /\ SubscribedWhileListening /\ KeepsItsPlace

\* The bytes of what was said: s, in which the k-th message ends at cut[k].
Spoken(s, cut) ==
  /\ s \in Seq(0..3) /\ cut \in [0..Len(said) -> Nat]
  /\ cut[0] = 0 /\ cut[Len(said)] = Len(s)
  /\ \A j, k \in 0..Len(said) : j < k => cut[j] < cut[k]
  /\ \A k \in 1..Len(said) :
       /\ cut[k] = cut[k - 1] + Len(said[k]) + 1 /\ s[cut[k]] = 0
       /\ \A i \in 1..Len(said[k]) : s[cut[k - 1] + i] = said[k][i]
  /\ \A p \in 1..Len(s) : s[p] = 0 => \E k \in 1..Len(said) : cut[k] = p

\* The messages decoded and still to be handed over, and all that were decoded as
\* long as none is dropped.
Pending == IF dispatch.at = 1 THEN dispatch.todo ELSE Tail(dispatch.todo)
Decoded == arrived \o Pending

\* They are the messages that were decoded, then the text that did not end, then
\* the bytes on their way.
Carried(s, cut) ==
  /\ Len(Decoded) <= Len(said)
  /\ \A k \in 1..Len(Decoded) : Decoded[k] = said[k]
  /\ cut[Len(Decoded)] + Len(remainder) + Len(bytes) = Len(s)
  /\ \A i \in 1..Len(remainder) : remainder[i] = s[cut[Len(Decoded)] + i]
  /\ \A i \in 1..Len(bytes) : bytes[i] = s[Len(s) - Len(bytes) + i]

StreamInv == NetworkTypeOK /\ (~Spoilt => \E s, cut : Spoken(s, cut) /\ Carried(s, cut))

-----------------------------------------------------------------------------
Code == {0, 1, 2, 3, 9}

\* The ends of lines in a text, and the k-th of them.
LEMMA EndsOf ==
  ASSUME NEW text \in Text
  PROVE  /\ Ends(text) \subseteq 1..Len(text) /\ Ends(text) \subseteq Nat /\ IsFiniteSet(Ends(text))
         /\ Cardinality(Ends(text)) \in Nat /\ Len(text) \in Nat
         /\ LastEnd(text, 0) = 0
         /\ \A k \in 1..Cardinality(Ends(text)) :
              LastEnd(text, k) \in Ends(text) /\ Rank(Ends(text), LastEnd(text, k)) = k
<1>1. DOMAIN text = 1..Len(text) /\ Len(text) \in Nat
  BY LenProperties DEF Text
<1>2. Ends(text) \subseteq 1..Len(text) /\ Ends(text) \subseteq Nat
  BY <1>1 DEF Ends
<1>3. IsFiniteSet(Ends(text))
  <2>1. IsFiniteSet(1..Len(text)) /\ Ends(text) \in SUBSET (1..Len(text))
    BY <1>1, <1>2, FS_Interval
  <2> QED
    BY <2>1, FS_Subset
<1>4. ASSUME NEW k \in 1..Cardinality(Ends(text))
      PROVE  LastEnd(text, k) \in Ends(text) /\ Rank(Ends(text), LastEnd(text, k)) = k
  <2>1. \E i \in Ends(text) : Rank(Ends(text), i) = k
    BY <1>2, <1>3, RankExists
  <2>2. \E i \in Ends(text) : Cardinality({j \in Ends(text) : j <= i}) = k
    BY <2>1 DEF Rank
  <2>3. k # 0
    OBVIOUS
  <2> QED
    BY <2>2, <2>3 DEF LastEnd, Rank
<1> QED
  BY <1>1, <1>2, <1>3, <1>4, FS_CardinalityType DEF LastEnd

\* What a text is split into is text.
LEMMA LinesAreText ==
  ASSUME NEW text \in Text
  PROVE  /\ Lines(text) \in Seq(Text) /\ Len(Lines(text)) = Cardinality(Ends(text))
         /\ RestOfText(text) \in Text
<1> DEFINE n == Cardinality(Ends(text))
<1>1. text \in Seq(Code) /\ Len(text) \in Nat /\ n \in Nat /\ \A i \in 1..Len(text) : text[i] \in Code
  BY EndsOf, LenProperties DEF Text, Code
<1>2. ASSUME NEW k \in 0..n PROVE LastEnd(text, k) \in 0..Len(text) /\ LastEnd(text, k) \in Int
  <2>1. CASE k = 0
    BY <2>1, <1>1, EndsOf
  <2>2. CASE k # 0
    <3>1. k \in 1..n
      BY <2>2, <1>1
    <3> QED
      BY <3>1, EndsOf
  <2> QED
    BY <2>1, <2>2
<1>3. ASSUME NEW a \in 0..Len(text), NEW b \in Int, b <= Len(text) PROVE SubSeq(text, a + 1, b) \in Text
  <2>1. a + 1 \in Int /\ \A i \in (a + 1)..b : text[i] \in Code
    BY <1>1, <1>3
  <2> QED
    BY <2>1, SubSeqProperties DEF Text, Code
<1>4. ASSUME NEW k \in 1..n PROVE Lines(text)[k] \in Text
  <2>1. k - 1 \in 0..n /\ k \in 0..n
    BY <1>1
  <2>2. PICK a \in 0..Len(text) : a = LastEnd(text, k - 1)
    BY <2>1, <1>2
  <2>3. PICK b \in Int : b = LastEnd(text, k) - 1 /\ b <= Len(text)
    BY <2>1, <1>1, <1>2
  <2>4. Lines(text)[k] = SubSeq(text, a + 1, b)
    BY <2>2, <2>3 DEF Lines
  <2> QED
    BY <2>3, <2>4, <1>3
<1>5. Lines(text) \in [1..n -> Text]
  BY <1>4 DEF Lines
<1>6. Lines(text) \in Seq(Text) /\ Len(Lines(text)) = n
  BY <1>1, <1>5
<1>7. RestOfText(text) \in Text
  <2>1. n \in 0..n
    BY <1>1
  <2>2. PICK a \in 0..Len(text) : a = LastEnd(text, n)
    BY <2>1, <1>2
  <2>3. RestOfText(text) = SubSeq(text, a + 1, Len(text)) /\ Len(text) <= Len(text)
    BY <2>2, <1>1 DEF RestOfText
  <2> QED
    BY <2>3, <1>1, <1>3
<1> QED
  BY <1>6, <1>7

\* The next bytes, decoded, and those that follow.
LEMMA ChunkIsText ==
  ASSUME bytes \in Seq(0..3), remainder \in Text, NEW n \in 1..Len(bytes)
  PROVE  /\ SubSeq(bytes, 1, n) \in Seq(0..3) /\ Len(SubSeq(bytes, 1, n)) = n
         /\ \A i \in 1..n : SubSeq(bytes, 1, n)[i] = bytes[i]
         /\ Decode(SubSeq(bytes, 1, n)) \in Text
         /\ remainder \o Decode(SubSeq(bytes, 1, n)) \in Text
         /\ SubSeq(bytes, n + 1, Len(bytes)) \in Seq(0..3)
         /\ Len(SubSeq(bytes, n + 1, Len(bytes))) = Len(bytes) - n
         /\ \A i \in 1..(Len(bytes) - n) : SubSeq(bytes, n + 1, Len(bytes))[i] = bytes[n + i]
<1> DEFINE c == SubSeq(bytes, 1, n)
           d == SubSeq(bytes, n + 1, Len(bytes))
<1>1. /\ Len(bytes) \in Nat /\ n \in Nat /\ n <= Len(bytes)
      /\ \A i \in 1..Len(bytes) : bytes[i] \in 0..3
  BY LenProperties
<1>2. /\ c \in Seq(0..3) /\ Len(c) = n /\ \A i \in 1..n : c[i] = bytes[i]
  <2>1. \A i \in 1..n : bytes[i] \in 0..3
    BY <1>1
  <2>2. /\ c \in Seq(0..3) /\ Len(c) = (IF 1 <= n THEN n - 1 + 1 ELSE 0)
        /\ \A i \in 1..(n - 1 + 1) : c[i] = bytes[1 + i - 1]
    BY <2>1, <1>1, SubSeqProperties
  <2>3. n - 1 + 1 = n /\ 1 <= n /\ \A i \in 1..n : 1 + i - 1 = i
    BY <1>1
  <2> QED
    BY <2>2, <2>3
<1>3. Decode(c) \in Text
  <2>1. DOMAIN c = 1..n
    BY <1>2, LenProperties
  <2>2. Decode(c) \in [1..n -> Code]
    BY <2>1, <1>1, <1>2 DEF Decode, Code
  <2> QED
    BY <2>2, <1>1 DEF Text, Code
<1>4. /\ d \in Seq(0..3) /\ Len(d) = Len(bytes) - n
      /\ \A i \in 1..(Len(bytes) - n) : d[i] = bytes[n + i]
  <2>1. \A i \in (n + 1)..Len(bytes) : bytes[i] \in 0..3
    BY <1>1
  <2>2. n + 1 \in Int /\ Len(bytes) \in Int
    BY <1>1
  <2>3. /\ d \in Seq(0..3) /\ Len(d) = (IF n + 1 <= Len(bytes) THEN Len(bytes) - (n + 1) + 1 ELSE 0)
        /\ \A i \in 1..(Len(bytes) - (n + 1) + 1) : d[i] = bytes[n + 1 + i - 1]
    BY <2>1, <2>2, SubSeqProperties
  <2>4. /\ (IF n + 1 <= Len(bytes) THEN Len(bytes) - (n + 1) + 1 ELSE 0) = Len(bytes) - n
        /\ Len(bytes) - (n + 1) + 1 = Len(bytes) - n
        /\ \A i \in 1..(Len(bytes) - n) : n + 1 + i - 1 = n + i
    BY <1>1
  <2> QED
    BY <2>3, <2>4
<1>5. remainder \o Decode(c) \in Text
  BY <1>3, ConcatProperties DEF Text
<1> QED
  BY <1>2, <1>3, <1>4, <1>5

\* What is handed over, and what else the steps of the adapter leave alone.
LEMMA DispatchFields ==
  ASSUME AdapterInv
  PROVE  /\ dispatch.todo \in Seq(Text) /\ dispatch.at \in Nat \ {0}
         /\ dispatch.running \in Handler \cup {Nobody} /\ dispatch.shrunk \in BOOLEAN
         /\ Len(dispatch.todo) \in Nat /\ Len(arrived) \in Nat /\ Len(listeners) \in Nat
         /\ DOMAIN listeners = 1..Len(listeners)
         /\ \A k \in DOMAIN listeners : listeners[k] \in Handler
BY LenProperties DEF AdapterInv, NetworkTypeOK, Handing

LEMMA HandingRecord ==
  ASSUME NEW todo \in Seq(Text)
  PROVE  [todo |-> todo, at |-> 1, running |-> Nobody, shrunk |-> FALSE] \in
           [todo : Seq(Text), at : Nat \ {0}, running : Handler \cup {Nobody}, shrunk : BOOLEAN]
OBVIOUS

LEMMA IdleFields ==
  ASSUME NEW todo \in Seq(Text), NEW d, d = [Idle EXCEPT !.todo = todo]
  PROVE  /\ d \in [todo : Seq(Text), at : Nat \ {0}, running : Handler \cup {Nobody}, shrunk : BOOLEAN]
         /\ d.todo = todo /\ d.at = 1 /\ d.running = Nobody /\ d.shrunk = FALSE
         /\ todo = <<>> => d = Idle
<1>1. d = [todo |-> todo, at |-> 1, running |-> Nobody, shrunk |-> FALSE]
  BY DEF Idle
<1>2. d.todo = todo /\ d.at = 1 /\ d.running = Nobody /\ d.shrunk = FALSE
  BY <1>1
<1>3. d \in [todo : Seq(Text), at : Nat \ {0}, running : Handler \cup {Nobody}, shrunk : BOOLEAN]
  BY <1>1, HandingRecord, Zenon
<1>4. todo = <<>> => d = Idle
  BY <1>1 DEF Idle
<1> QED
  BY <1>2, <1>3, <1>4

\* An action that touches neither the listeners nor what is handed over.
LEMMA QuietKeeps ==
  ASSUME AdapterInv, NetworkTypeOK',
         UNCHANGED <<socketSub, listeners, dispatch, arrived, dropped, lastHeard, onCalls, owed, misuse>>
  PROVE  AdapterInv'
BY DEF AdapterInv, Handing, HeardSoFar, OwedOnce, SubscribedWhileListening, KeepsItsPlace

LEMMA SendLineKeeps ==
  ASSUME AdapterInv, SendLine
  PROVE  AdapterInv'
<1>1. Len(said) \in Nat /\ said \in Seq(Seq({1, 2, 3})) /\ bytes \in Seq(0..3)
  BY LenProperties DEF AdapterInv, NetworkTypeOK
<1>2. Len(said) + 1 \in 1..Len(Script)
  BY <1>1, NetworkAssumption, LenProperties DEF SendLine
<1>3. PICK line \in Seq({1, 2, 3}) : line = Script[Len(said) + 1]
  BY <1>2, NetworkAssumption, ElementOfSeq
<1>4. said' \in Seq(Seq({1, 2, 3}))
  BY <1>1, <1>3, AppendProperties DEF SendLine
<1>5. line \in Seq(0..3)
  BY <1>3, SeqMonotonic
<1>6. Append(line, 0) \in Seq(0..3)
  BY <1>5, AppendProperties
<1>7. bytes' \in Seq(0..3)
  BY <1>1, <1>3, <1>6, ConcatProperties DEF SendLine
<1>8. NetworkTypeOK'
  BY <1>4, <1>7 DEF SendLine, AdapterInv, NetworkTypeOK
<1> QED
  BY <1>8, QuietKeeps DEF SendLine

LEMMA ReceiveKeeps ==
  ASSUME AdapterInv, NEW n \in 1..Len(bytes), Receive(n)
  PROVE  AdapterInv'
<1> DEFINE chunk == SubSeq(bytes, 1, n)
           text == remainder \o Decode(chunk)
<1>1. bytes \in Seq(0..3) /\ remainder \in Text /\ arrived \in Seq(Text) /\ Len(arrived) \in Nat
  BY LenProperties DEF AdapterInv, NetworkTypeOK
<1>2. text \in Text /\ bytes' \in Seq(0..3)
  BY <1>1, ChunkIsText DEF Receive
<1>3. CASE Unheard
  <2>1. /\ UNCHANGED <<said, flowing, listeners, lastHeard, onCalls, owed, remainder, dispatch, arrived, dropped, socketSub>>
        /\ misuse' = misuse \cup {"gap"}
    BY <1>3 DEF Receive
  <2>2. NetworkTypeOK'
    BY <2>1, <1>2 DEF AdapterInv, NetworkTypeOK, Misuse
  <2> QED
    BY <2>1, <2>2 DEF AdapterInv, Handing, HeardSoFar, OwedOnce, SubscribedWhileListening, KeepsItsPlace
<1>4. CASE ~Unheard
  <2> DEFINE lines == Lines(text)
  <2>1. /\ dispatch' = [Idle EXCEPT !.todo = lines]
        /\ remainder' = RestOfText(text)
        /\ socketSub' = (IF socketSub = "once" THEN "none" ELSE socketSub)
        /\ misuse \subseteq misuse' /\ misuse' \subseteq misuse \union {"split"}
        /\ UNCHANGED <<said, flowing, listeners, arrived, dropped, lastHeard, onCalls, owed>>
    BY <1>4 DEF Receive
  <2>2. lines \in Seq(Text) /\ RestOfText(text) \in Text /\ Len(lines) \in Nat
    BY <1>2, LinesAreText, LenProperties
  <2>3. /\ dispatch' \in [todo : Seq(Text), at : Nat \ {0}, running : Handler \cup {Nobody}, shrunk : BOOLEAN]
        /\ dispatch'.todo = lines /\ dispatch'.at = 1 /\ dispatch'.running = Nobody
        /\ lines = <<>> => dispatch' = Idle
    BY <2>1, <2>2, IdleFields
  <2>4. arrived' \in Seq(Text) /\ arrived' = arrived
    BY <2>1, <1>1
  <2>5. Handing'
    BY <2>3 DEF Handing
  <2>6. HeardSoFar'
    <3>1. Len(listeners) \in Nat
      BY DispatchFields
    <3> QED
      BY <2>1, <2>3, <3>1 DEF HeardSoFar
  <2>7. NetworkTypeOK'
    <3>1. lastHeard' \in [Handler -> 0..Len(arrived')]
      BY <2>1, <2>2, <2>4, <1>1 DEF AdapterInv, NetworkTypeOK
    <3>2. /\ dispatch'.todo \in Seq(Text) /\ dispatch'.at \in Nat \ {0}
          /\ dispatch'.running \in Handler \cup {Nobody} /\ dispatch'.shrunk \in BOOLEAN
      BY <2>3
    <3>3. misuse' \subseteq Misuse /\ socketSub' \in {"none", "on", "once"}
      BY <2>1 DEF AdapterInv, NetworkTypeOK, Misuse
    <3> QED
      BY <2>1, <2>2, <2>4, <1>2, <3>1, <3>2, <3>3 DEF AdapterInv, NetworkTypeOK
  <2>8. /\ OwedOnce' /\ KeepsItsPlace' /\ SubscribedWhileListening'
        /\ (socketSub = "once" => "once" \in misuse)'
    BY <2>1 DEF AdapterInv, OwedOnce, KeepsItsPlace, SubscribedWhileListening
  <2> QED
    BY <2>5, <2>6, <2>7, <2>8 DEF AdapterInv
<1> QED
  BY <1>3, <1>4

LEMMA ReceiveGarbageKeeps ==
  ASSUME AdapterInv, NEW n \in 1..Len(bytes), ReceiveGarbage(n)
  PROVE  AdapterInv'
<1>1. bytes \in Seq(0..3) /\ remainder \in Text
  BY DEF AdapterInv, NetworkTypeOK
<1>2. remainder' \in Text /\ bytes' \in Seq(0..3)
  BY <1>1, ChunkIsText DEF ReceiveGarbage
<1>3. NetworkTypeOK'
  BY <1>2 DEF ReceiveGarbage, AdapterInv, NetworkTypeOK
<1> QED
  BY <1>3 DEF ReceiveGarbage, AdapterInv, Handing, HeardSoFar, OwedOnce,
              SubscribedWhileListening, KeepsItsPlace

\* The loop calls the next function of the array.
LEMMA CallListenerKeeps ==
  ASSUME AdapterInv, CallListener
  PROVE  AdapterInv'
<1> DEFINE h == listeners[dispatch.at]
           d == [dispatch EXCEPT !.at = dispatch.at + 1, !.running = h]
<1>1. /\ dispatch.todo # <<>> /\ dispatch' = d /\ lastHeard' = [lastHeard EXCEPT ![h] = Len(arrived')]
      /\ dispatch.at \in 1..Len(listeners) /\ h \in Handler
      /\ UNCHANGED <<streamVars, dropped, listeners, socketSub, onCalls, owed, misuse>>
  BY DispatchFields DEF CallListener
<1>2. /\ arrived' \in Seq(Text) /\ Len(arrived') \in Nat /\ Len(arrived) <= Len(arrived')
      /\ dispatch.at # 1 => arrived' = arrived
  <2>1. arrived' = IF dispatch.at = 1 THEN Append(arrived, Head(dispatch.todo)) ELSE arrived
    BY DEF CallListener
  <2>2. arrived \in Seq(Text) /\ Len(arrived) \in Nat
    BY LenProperties DEF AdapterInv, NetworkTypeOK
  <2>3. Head(dispatch.todo) \in Text
    BY <1>1, DispatchFields, HeadTailProperties
  <2>4. /\ Append(arrived, Head(dispatch.todo)) \in Seq(Text)
        /\ Len(Append(arrived, Head(dispatch.todo))) = Len(arrived) + 1
    BY <2>2, <2>3, AppendProperties
  <2> QED
    BY <2>1, <2>2, <2>4
<1>3. /\ d \in [todo : Seq(Text), at : Nat \ {0}, running : Handler \cup {Nobody}, shrunk : BOOLEAN]
      /\ d.todo = dispatch.todo /\ d.at = dispatch.at + 1 /\ d.shrunk = dispatch.shrunk /\ d.running = h
  <2>1. dispatch \in [todo : Seq(Text), at : Nat \ {0}, running : Handler \cup {Nobody}, shrunk : BOOLEAN]
    BY DEF AdapterInv, Handing
  <2>2. PICK n \in Nat \ {0} : n = dispatch.at + 1
    BY DispatchFields
  <2>3. d = [dispatch EXCEPT !.at = n, !.running = h]
    BY <2>2
  <2> QED
    BY <1>1, <2>1, <2>2, <2>3
<1>4. Handing'
  <2>1. dispatch.at + 1 # 1
    BY DispatchFields
  <2> QED
    BY <1>1, <1>3, <2>1 DEF AdapterInv, Handing
<1>5. lastHeard' \in [Handler -> 0..Len(arrived')]
  <2>1. PICK x \in Nat : x = Len(arrived) /\ x <= Len(arrived')
    BY <1>2, DispatchFields
  <2>2. lastHeard \in [Handler -> 0..x]
    BY <2>1 DEF AdapterInv, NetworkTypeOK
  <2>3. 0..x \subseteq 0..Len(arrived') /\ Len(arrived') \in 0..Len(arrived')
    BY <1>2, <2>1
  <2> QED
    BY <1>1, <2>2, <2>3
<1>6. HeardSoFar'
  <2> SUFFICES ASSUME ~dispatch.shrunk
               PROVE  /\ dispatch'.at <= Len(listeners') + 1
                      /\ \A k \in 1..(dispatch'.at - 1) : lastHeard'[listeners'[k]] = Len(arrived')
    BY <1>1, <1>3 DEF HeardSoFar
  <2>1. PICK n \in Nat : n = dispatch.at /\ n >= 1 /\ n <= Len(listeners)
    BY <1>1, DispatchFields
  <2>2. \A k \in 1..(n - 1) : lastHeard[listeners[k]] = Len(arrived) /\ n # 1
    BY <1>1, <2>1 DEF AdapterInv, HeardSoFar
  <2>3. \A k \in 1..n : listeners[k] \in Handler
    BY <2>1, DispatchFields
  <2>4. \A x \in Handler : lastHeard'[x] = IF x = h THEN Len(arrived') ELSE lastHeard[x]
    BY <1>1 DEF AdapterInv, NetworkTypeOK
  <2>5. \A k \in 1..n : lastHeard'[listeners[k]] = Len(arrived')
    <3>1. ASSUME NEW k \in 1..n PROVE lastHeard'[listeners[k]] = Len(arrived')
      <4>1. CASE k = n
        BY <4>1, <2>1, <2>3, <2>4
      <4>2. CASE k # n
        <5>1. k \in 1..(n - 1)
          BY <4>2, <2>1
        <5>2. arrived' = arrived /\ lastHeard[listeners[k]] = Len(arrived)
          BY <5>1, <1>2, <2>1, <2>2
        <5> QED
          BY <5>2, <2>3, <2>4
      <4> QED
        BY <4>1, <4>2
    <3> QED
      BY <3>1
  <2>6. dispatch'.at = n + 1 /\ n + 1 - 1 = n
    BY <1>1, <1>3, <2>1
  <2> QED
    BY <1>1, <2>1, <2>5, <2>6, DispatchFields
<1>7. NetworkTypeOK'
  <2>1. /\ dispatch'.todo \in Seq(Text) /\ dispatch'.at \in Nat \ {0}
        /\ dispatch'.running \in Handler \cup {Nobody} /\ dispatch'.shrunk \in BOOLEAN
    BY <1>1, <1>3
  <2> QED
    BY <1>1, <1>2, <1>5, <2>1 DEF AdapterInv, NetworkTypeOK, streamVars
<1>8. /\ OwedOnce' /\ KeepsItsPlace' /\ SubscribedWhileListening'
      /\ (socketSub = "once" => "once" \in misuse)'
  BY <1>1 DEF AdapterInv, OwedOnce, KeepsItsPlace, SubscribedWhileListening
<1> QED
  BY <1>4, <1>6, <1>7, <1>8 DEF AdapterInv

\* The loop over the messages goes on, or ends with an exception.
LEMMA LoopKeeps ==
  ASSUME AdapterInv, NextMessage \/ ListenerReturns \/ ListenerThrows
  PROVE  AdapterInv'
<1>1. UNCHANGED <<streamVars, arrived, listeners, socketSub, lastHeard, onCalls, owed, misuse>>
  BY DEF NextMessage, ListenerReturns, ListenerThrows
<1>2. dispatch \in [todo : Seq(Text), at : Nat \ {0}, running : Handler \cup {Nobody}, shrunk : BOOLEAN]
  BY DEF AdapterInv, Handing
<1>3. Handing' /\ HeardSoFar'
  <2>1. CASE NextMessage
    <3>1. dispatch.todo # <<>> /\ dispatch' = [Idle EXCEPT !.todo = Tail(dispatch.todo)]
      BY <2>1 DEF NextMessage, Returned
    <3>2. Tail(dispatch.todo) \in Seq(Text) /\ Len(Tail(dispatch.todo)) = Len(dispatch.todo) - 1
      BY <3>1, DispatchFields, HeadTailProperties
    <3>3. /\ dispatch' \in [todo : Seq(Text), at : Nat \ {0}, running : Handler \cup {Nobody}, shrunk : BOOLEAN]
          /\ dispatch'.todo = Tail(dispatch.todo) /\ dispatch'.at = 1
          /\ Tail(dispatch.todo) = <<>> => dispatch' = Idle
      BY <3>1, <3>2, IdleFields
    <3>4. Len(listeners') \in Nat
      BY <1>1, DispatchFields
    <3>5. dispatch'.running = Nobody
      BY <3>1, <3>2, IdleFields
    <3> QED
      BY <3>3, <3>4, <3>5 DEF Handing, HeardSoFar
  <2>2. CASE ListenerReturns
    <3>1. dispatch' = [dispatch EXCEPT !.running = Nobody] /\ dispatch.running # Nobody
      BY <2>2 DEF ListenerReturns
    <3>2. /\ dispatch' \in [todo : Seq(Text), at : Nat \ {0}, running : Handler \cup {Nobody}, shrunk : BOOLEAN]
          /\ dispatch'.todo = dispatch.todo /\ dispatch'.at = dispatch.at
          /\ dispatch'.shrunk = dispatch.shrunk /\ dispatch'.running = Nobody
      BY <3>1, <1>2
    <3>3. dispatch.todo # <<>>
      BY <3>1 DEF AdapterInv, Handing, Idle
    <3>4. Handing'
      BY <3>2, <3>3, <1>1 DEF AdapterInv, Handing, streamVars
    <3> QED
      BY <3>2, <3>4, <1>1 DEF AdapterInv, HeardSoFar
  <2>3. CASE ListenerThrows
    <3>1. dispatch' = Idle /\ <<>> \in Seq(Text)
      BY <2>3, EmptySeq DEF ListenerThrows
    <3>2. dispatch' \in [todo : Seq(Text), at : Nat \ {0}, running : Handler \cup {Nobody}, shrunk : BOOLEAN]
          /\ dispatch'.todo = <<>> /\ dispatch'.running = Nobody
      BY <3>1 DEF Idle
    <3> QED
      BY <3>1, <3>2 DEF Handing, HeardSoFar
  <2> QED
    BY <2>1, <2>2, <2>3
<1>4. NetworkTypeOK'
  <2>1. /\ dispatch'.todo \in Seq(Text) /\ dispatch'.at \in Nat \ {0}
        /\ dispatch'.running \in Handler \cup {Nobody} /\ dispatch'.shrunk \in BOOLEAN
    BY <1>3 DEF Handing
  <2>2. dropped' \in Nat
    <3>1. dropped \in Nat /\ Len(dispatch.todo) \in Nat
      BY DispatchFields DEF AdapterInv, NetworkTypeOK
    <3>2. CASE NextMessage
      BY <3>1, <3>2 DEF NextMessage
    <3>3. CASE ListenerReturns
      BY <3>1, <3>3 DEF ListenerReturns
    <3>4. CASE ListenerThrows
      <4>1. dispatch.todo # <<>>
        BY <3>4 DEF ListenerThrows, AdapterInv, Handing, Idle
      <4>2. Len(dispatch.todo) # 0
        BY <4>1, DispatchFields, EmptySeq
      <4>3. dropped' = dropped + Len(dispatch.todo) - 1
        BY <3>4 DEF ListenerThrows
      <4> QED
        BY <3>1, <4>2, <4>3
    <3> QED
      BY <3>2, <3>3, <3>4
  <2> QED
    BY <1>1, <2>1, <2>2 DEF AdapterInv, NetworkTypeOK, streamVars
<1>5. /\ OwedOnce' /\ KeepsItsPlace' /\ SubscribedWhileListening'
      /\ (socketSub = "once" => "once" \in misuse)'
  BY <1>1 DEF AdapterInv, OwedOnce, KeepsItsPlace, SubscribedWhileListening
<1> QED
  BY <1>3, <1>4, <1>5 DEF AdapterInv

\* A function is added behind the others.
LEMMA OnKeeps ==
  ASSUME AdapterInv, NEW h \in Handler, NEW once \in BOOLEAN, On(h, once)
  PROVE  AdapterInv'
<1>1. /\ UserCode /\ onCalls < MaxOn /\ Subscribe(once) /\ listeners' = Append(listeners, h)
      /\ onCalls' = onCalls + 1 /\ owed' = [owed EXCEPT ![h] = @ + 1]
      /\ misuse' = (IF once THEN misuse \cup {"once"} ELSE misuse)
      /\ UNCHANGED <<said, bytes, remainder, arrived, dropped, dispatch, lastHeard>>
  BY DEF On
<1>2. /\ listeners \in Seq(Handler) /\ onCalls \in 0..MaxOn /\ owed \in [Handler -> 0..MaxOn]
      /\ MaxOn \in Nat /\ misuse \subseteq Misuse /\ socketSub \in {"none", "on", "once"}
      /\ flowing \in BOOLEAN
  BY NetworkAssumption DEF AdapterInv, NetworkTypeOK
<1>3. /\ listeners' \in Seq(Handler) /\ Len(listeners') = Len(listeners) + 1 /\ listeners' # <<>>
      /\ \A k \in 1..Len(listeners) : listeners'[k] = listeners[k]
      /\ Len(listeners) \in Nat
  <2>1. /\ listeners' \in Seq(Handler) /\ Len(listeners') = Len(listeners) + 1
        /\ \A k \in 1..Len(listeners) : listeners'[k] = listeners[k]
        /\ Len(listeners) \in Nat
    BY <1>1, <1>2, AppendProperties, LenProperties
  <2>2. listeners' # <<>>
    BY <2>1, EmptySeq
  <2> QED
    BY <2>1, <2>2
<1>4. /\ socketSub' \in {"none", "on", "once"} /\ flowing' \in BOOLEAN
      /\ socketSub' = "once" => "once" \in misuse'
      /\ "once" \notin misuse' => socketSub' = "on"
  BY <1>1, <1>2 DEF Subscribe, AdapterInv, SubscribedWhileListening
<1>5. /\ owed' \in [Handler -> 0..MaxOn] /\ onCalls' \in 0..MaxOn
      /\ \A x \in Handler : owed'[x] <= onCalls'
      /\ \A x \in Handler : owed'[x] = IF x = h THEN owed[x] + 1 ELSE owed[x]
  <2>1. \A x \in Handler : owed[x] <= onCalls /\ owed[x] \in Nat
    BY <1>2 DEF AdapterInv, OwedOnce
  <2>2. \A x \in Handler : owed'[x] = IF x = h THEN owed[x] + 1 ELSE owed[x]
    BY <1>1, <1>2
  <2> QED
    BY <1>1, <1>2, <2>1, <2>2
<1>6. NetworkTypeOK'
  <2>1. misuse' \subseteq Misuse
    BY <1>1, <1>2 DEF Misuse
  <2> QED
    BY <1>1, <1>3, <1>4, <1>5, <2>1 DEF AdapterInv, NetworkTypeOK
<1>7. Handing'
  BY <1>1 DEF AdapterInv, Handing
<1>8. HeardSoFar'
  <2> SUFFICES ASSUME dispatch.todo # <<>>, ~dispatch.shrunk
               PROVE  /\ dispatch.at <= Len(listeners') + 1
                      /\ \A k \in 1..(dispatch.at - 1) : lastHeard[listeners'[k]] = Len(arrived)
    BY <1>1 DEF HeardSoFar
  <2>1. PICK n \in Nat : n = dispatch.at
    BY DispatchFields
  <2>2. n <= Len(listeners) + 1 /\ \A k \in 1..(n - 1) : lastHeard[listeners[k]] = Len(arrived)
    BY <2>1 DEF AdapterInv, HeardSoFar
  <2> QED
    BY <2>1, <2>2, <1>3
<1>9. SubscribedWhileListening'
  BY <1>3, <1>4 DEF SubscribedWhileListening
<1>10. KeepsItsPlace'
  <2> SUFFICES ASSUME "stranger" \notin misuse, NEW x \in Handler
               PROVE  Cardinality(Places(listeners', x)) = owed'[x]
    BY <1>1 DEF KeepsItsPlace, Places
  <2>1. Cardinality(Places(listeners, x)) = owed[x]
    BY DEF AdapterInv, KeepsItsPlace, Places
  <2> QED
    BY <2>1, <1>1, <1>2, <1>5, PlacesOfAppend
<1> QED
  BY <1>4, <1>5, <1>6, <1>7, <1>8, <1>9, <1>10 DEF AdapterInv, OwedOnce

\* A function that gives up a place is owed one less.
LEMMA GivenUp ==
  ASSUME AdapterInv, NEW h \in Handler, GiveUp(h)
  PROVE  /\ owed' \in [Handler -> 0..MaxOn] /\ \A x \in Handler : owed'[x] <= onCalls
         /\ \A x \in Handler : owed'[x] = IF x = h /\ owed[x] # 0 THEN owed[x] - 1 ELSE owed[x]
<1>1. owed \in [Handler -> 0..MaxOn] /\ MaxOn \in Nat /\ onCalls \in Nat
      /\ \A x \in Handler : owed[x] <= onCalls /\ owed[x] \in Nat
  BY NetworkAssumption DEF AdapterInv, NetworkTypeOK, OwedOnce
<1>2. \A x \in Handler : owed'[x] = IF x = h /\ owed[x] # 0 THEN owed[x] - 1 ELSE owed[x]
  BY <1>1 DEF GiveUp
<1>3. owed' \in [Handler -> 0..MaxOn]
  <2>1. (IF owed[h] = 0 THEN 0 ELSE owed[h] - 1) \in 0..MaxOn
    BY <1>1
  <2> QED
    BY <1>1, <2>1 DEF GiveUp
<1> QED
  BY <1>1, <1>2, <1>3

\* Functions leave the array: a message that is being handed over is told.
LEMMA LeaveKeeps ==
  ASSUME AdapterInv, NEW rest \in Seq(Handler), LeaveWith(rest), UserCode,
         Len(rest) < Len(listeners) \/ rest = listeners,
         misuse' \in {misuse, misuse \union {"stranger"}},
         owed' \in [Handler -> 0..MaxOn], \A x \in Handler : owed'[x] <= onCalls,
         "stranger" \notin misuse' =>
           \A x \in Handler : Cardinality(Places(rest, x)) = owed'[x]
  PROVE  AdapterInv'
<1>1. /\ listeners' = rest /\ socketSub' = (IF rest = <<>> THEN "none" ELSE socketSub)
      /\ UNCHANGED <<streamVars, arrived, dropped, lastHeard, onCalls>>
  BY DEF LeaveWith
<1>2. Len(rest) \in Nat /\ Len(listeners) \in Nat
      /\ dispatch \in [todo : Seq(Text), at : Nat \ {0}, running : Handler \cup {Nobody}, shrunk : BOOLEAN]
      /\ misuse \subseteq Misuse /\ socketSub \in {"none", "on", "once"}
  BY LenProperties DEF AdapterInv, NetworkTypeOK, Handing
<1>3. \/ dispatch' = dispatch /\ (dispatch = Idle \/ rest = listeners)
      \/ dispatch' = [dispatch EXCEPT !.shrunk = TRUE] /\ dispatch # Idle
  BY <1>2 DEF LeaveWith
<1>4. /\ dispatch' \in [todo : Seq(Text), at : Nat \ {0}, running : Handler \cup {Nobody}, shrunk : BOOLEAN]
      /\ dispatch'.todo = dispatch.todo /\ dispatch'.at = dispatch.at
      /\ dispatch'.running = dispatch.running
      /\ dispatch'.shrunk \/ dispatch = Idle \/ rest = listeners
  BY <1>2, <1>3
<1>5. Handing'
  <2>1. dispatch.todo = <<>> => dispatch = Idle
    BY DEF AdapterInv, Handing
  <2>2. dispatch'.todo = <<>> => dispatch' = Idle
    BY <2>1, <1>3, <1>4
  <2> QED
    BY <2>2, <1>1, <1>4 DEF AdapterInv, Handing, streamVars
<1>6. HeardSoFar'
  <2>1. CASE dispatch'.shrunk
    BY <2>1 DEF HeardSoFar
  <2>2. CASE dispatch = Idle
    BY <2>2, <1>4 DEF HeardSoFar, Idle
  <2>3. CASE ~dispatch'.shrunk /\ dispatch # Idle
    <3>1. rest = listeners /\ dispatch' = dispatch
      BY <2>3, <1>3, <1>4
    <3> QED
      BY <3>1, <1>1 DEF AdapterInv, HeardSoFar, streamVars
  <2> QED
    BY <2>1, <2>2, <2>3
<1>7. SubscribedWhileListening' /\ (socketSub = "once" => "once" \in misuse)'
  <2>1. rest # <<>> => listeners # <<>>
    <3>1. listeners = <<>> => Len(listeners) = 0
      BY EmptySeq
    <3> QED
      BY <3>1, <1>2
  <2>2. "once" \in misuse' <=> "once" \in misuse
    OBVIOUS
  <2> QED
    BY <2>1, <2>2, <1>1 DEF AdapterInv, SubscribedWhileListening
<1>8. KeepsItsPlace'
  BY <1>1 DEF KeepsItsPlace, Places
<1>9. NetworkTypeOK'
  <2>1. misuse' \subseteq Misuse
    BY <1>2 DEF Misuse
  <2>2. /\ dispatch'.todo \in Seq(Text) /\ dispatch'.at \in Nat \ {0}
        /\ dispatch'.running \in Handler \cup {Nobody} /\ dispatch'.shrunk \in BOOLEAN
    BY <1>4
  <2>3. socketSub' \in {"none", "on", "once"}
    BY <1>1, <1>2
  <2> QED
    BY <1>1, <2>1, <2>2, <2>3 DEF AdapterInv, NetworkTypeOK, streamVars
<1> QED
  BY <1>1, <1>5, <1>6, <1>7, <1>8, <1>9 DEF AdapterInv, OwedOnce

\* An array without its last element.
LEMMA FrontIsShorter ==
  ASSUME NEW S, NEW s \in Seq(S), s # <<>>
  PROVE  Front(s) \in Seq(S) /\ Len(Front(s)) < Len(s)
BY FrontOf

\* A subscription is ended, once or again.
LEMMA UnsubscribeHandlerKeeps ==
  ASSUME AdapterInv, NEW h \in Handler, Unsubscribe(h)
  PROVE  AdapterInv'
<1> DEFINE rest == SpliceFound(h)
<1>1. /\ UserCode /\ LeaveWith(rest) /\ GiveUp(h)
      /\ misuse' = (IF h \notin ToSet(listeners) /\ listeners # <<>> THEN misuse \cup {"stranger"} ELSE misuse)
  BY DEF Unsubscribe
<1>2. listeners \in Seq(Handler) /\ owed \in [Handler -> 0..MaxOn]
  BY DEF AdapterInv, NetworkTypeOK
<1>3. /\ owed' \in [Handler -> 0..MaxOn] /\ \A x \in Handler : owed'[x] <= onCalls
      /\ \A x \in Handler : owed'[x] = IF x = h /\ owed[x] # 0 THEN owed[x] - 1 ELSE owed[x]
  BY <1>1, GivenUp
<1>4. "stranger" \notin misuse => \A x \in Handler : Cardinality(Places(listeners, x)) = owed[x]
  BY DEF AdapterInv, KeepsItsPlace, Places
<1>5. CASE h \in ToSet(listeners)
  <2>1. rest = RemoveFirst(listeners, h)
    BY <1>5 DEF SpliceFound
  <2>2. rest \in Seq(Handler) /\ Len(rest) < Len(listeners)
    BY <2>1, <1>2, <1>5, RemoveFirstInSeq, PlacesOfRemoveFirst, LenProperties
  <2>3. \A x \in Handler : Cardinality(Places(rest, x)) =
          IF x = h THEN Cardinality(Places(listeners, x)) - 1 ELSE Cardinality(Places(listeners, x))
    BY <2>1, <1>2, <1>5, PlacesOfRemoveFirst
  <2>4. Cardinality(Places(listeners, h)) # 0
    BY <1>2, <1>5, PlacesAreFinite
  <2>5. "stranger" \notin misuse' => \A x \in Handler : Cardinality(Places(rest, x)) = owed'[x]
    BY <1>1, <1>3, <1>4, <2>3, <2>4
  <2> QED
    BY <1>1, <1>3, <2>2, <2>5, LeaveKeeps
<1>6. CASE h \notin ToSet(listeners) /\ listeners # <<>>
  <2>1. rest = Front(listeners)
    BY <1>6 DEF SpliceFound
  <2>2. rest \in Seq(Handler) /\ Len(rest) < Len(listeners)
    BY <2>1, <1>2, <1>6, FrontIsShorter
  <2>3. "stranger" \in misuse'
    BY <1>1, <1>6
  <2> QED
    BY <1>1, <1>3, <2>2, <2>3, LeaveKeeps
<1>7. CASE h \notin ToSet(listeners) /\ listeners = <<>>
  <2>1. rest = <<>> /\ rest = listeners
    BY <1>7 DEF SpliceFound
  <2>2. "stranger" \notin misuse => Cardinality(Places(listeners, h)) = owed[h]
    BY <1>4
  <2>3. Cardinality(Places(listeners, h)) = 0
    BY <1>2, <1>7, PlacesAreFinite
  <2>4. "stranger" \notin misuse' => \A x \in Handler : Cardinality(Places(rest, x)) = owed'[x]
    BY <1>1, <1>3, <1>4, <1>7, <2>1, <2>2, <2>3
  <2> QED
    BY <1>1, <1>2, <1>3, <2>1, <2>4, LeaveKeeps
<1> QED
  BY <1>5, <1>6, <1>7

\* off() of a function, and of all.
LEMMA OffKeeps ==
  ASSUME AdapterInv, OffAll \/ \E h \in Handler : Off(h)
  PROVE  AdapterInv'
<1>1. listeners \in Seq(Handler) /\ owed \in [Handler -> 0..MaxOn] /\ MaxOn \in Nat
      /\ onCalls \in Nat /\ Len(listeners) \in Nat /\ misuse \in {misuse, misuse \union {"stranger"}}
  BY NetworkAssumption, LenProperties DEF AdapterInv, NetworkTypeOK
<1>2. <<>> \in Seq(Handler) /\ \A x \in Handler : Cardinality(Places(<<>>, x)) = 0
  BY EmptySeq, PlacesAreFinite, ElementsOfNothing
<1>3. Len(<<>>) < Len(listeners) \/ <<>> = listeners
  BY <1>1, EmptySeq
<1>4. CASE OffAll
  <2>1. UserCode /\ LeaveWith(<<>>) /\ owed' = [x \in Handler |-> 0] /\ misuse' = misuse
    BY <1>4 DEF OffAll
  <2>2. /\ owed' \in [Handler -> 0..MaxOn] /\ \A x \in Handler : owed'[x] <= onCalls
        /\ \A x \in Handler : Cardinality(Places(<<>>, x)) = owed'[x]
    BY <2>1, <1>1, <1>2
  <2> QED
    BY <2>1, <2>2, <1>2, <1>3, LeaveKeeps
<1>5. ASSUME NEW h \in Handler, Off(h) PROVE AdapterInv'
  <2>1. /\ UserCode /\ GiveUp(h) /\ LeaveWith(IF listeners = <<>> THEN <<>> ELSE Front(listeners))
        /\ misuse' = (IF listeners # <<>> THEN misuse \cup {"stranger"} ELSE misuse)
    BY <1>5 DEF Off
  <2>2. /\ owed' \in [Handler -> 0..MaxOn] /\ \A x \in Handler : owed'[x] <= onCalls
        /\ \A x \in Handler : owed'[x] = IF x = h /\ owed[x] # 0 THEN owed[x] - 1 ELSE owed[x]
    BY <2>1, GivenUp
  <2>3. CASE listeners # <<>>
    <3>1. Front(listeners) \in Seq(Handler) /\ Len(Front(listeners)) < Len(listeners)
      BY <2>3, <1>1, FrontIsShorter
    <3>2. "stranger" \in misuse' /\ LeaveWith(Front(listeners)) /\ misuse' = misuse \union {"stranger"}
      BY <2>1, <2>3
    <3> QED
      BY <2>1, <2>2, <3>1, <3>2, LeaveKeeps
  <2>4. CASE listeners = <<>>
    <3>1. LeaveWith(<<>>) /\ misuse' = misuse
      BY <2>1, <2>4
    <3>2. "stranger" \notin misuse => \A x \in Handler : owed[x] = 0
      BY <2>4, <1>2 DEF AdapterInv, KeepsItsPlace, Places
    <3>3. "stranger" \notin misuse' => \A x \in Handler : Cardinality(Places(<<>>, x)) = owed'[x]
      BY <3>1, <3>2, <2>2, <1>2
    <3> QED
      BY <2>1, <2>2, <3>1, <3>3, <1>2, <1>3, LeaveKeeps
  <2> QED
    BY <2>3, <2>4
<1> QED
  BY <1>4, <1>5

LEMMA AdapterInitInv == NetworkInit => AdapterInv
<1> SUFFICES ASSUME NetworkInit PROVE AdapterInv
  OBVIOUS
<1>1. /\ said = <<>> /\ bytes = <<>> /\ remainder = <<>> /\ listeners = <<>> /\ arrived = <<>>
      /\ dispatch = Idle /\ socketSub = "none" /\ misuse = {} /\ flowing = FALSE /\ dropped = 0
      /\ onCalls = 0 /\ owed = [h \in Handler |-> 0] /\ lastHeard = [h \in Handler |-> 0]
  BY DEF NetworkInit
<1>2. \A S : <<>> \in Seq(S) /\ Len(<<>>) = 0
  BY EmptySeq
<1>3. /\ dispatch.todo = <<>> /\ dispatch.at = 1 /\ dispatch.running = Nobody /\ dispatch.shrunk = FALSE
      /\ dispatch \in [todo : Seq(Text), at : Nat \ {0}, running : Handler \cup {Nobody}, shrunk : BOOLEAN]
  BY <1>1, <1>2 DEF Idle
<1>4. NetworkTypeOK
  <2>1. said \in Seq(Seq({1, 2, 3})) /\ bytes \in Seq(0..3) /\ listeners \in Seq(Handler)
    BY <1>1, <1>2
  <2>2. arrived \in Seq(Text) /\ remainder \in Text
    BY <1>1, <1>2 DEF Text
  <2>3. Len(arrived) = 0
    BY <1>1, <1>2
  <2>4. lastHeard \in [Handler -> 0..Len(arrived)]
    BY <1>1, <2>3
  <2>5. onCalls \in 0..MaxOn /\ owed \in [Handler -> 0..MaxOn]
    BY <1>1, NetworkAssumption
  <2>6. /\ dispatch.todo \in Seq(Text) /\ dispatch.at \in Nat \ {0}
        /\ dispatch.running \in Handler \cup {Nobody} /\ dispatch.shrunk \in BOOLEAN
    BY <1>3
  <2>7. dropped \in Nat /\ flowing \in BOOLEAN /\ socketSub \in {"none", "on", "once"} /\ misuse \subseteq Misuse
    BY <1>1
  <2> QED
    BY <2>1, <2>2, <2>4, <2>5, <2>6, <2>7 DEF NetworkTypeOK
<1>5. Handing /\ HeardSoFar /\ OwedOnce /\ SubscribedWhileListening
  BY <1>1, <1>2, <1>3 DEF Handing, HeardSoFar, OwedOnce, SubscribedWhileListening
<1>6. KeepsItsPlace
  <2>1. \A x \in Handler : Cardinality(Places(<<>>, x)) = 0
    BY <1>2, PlacesAreFinite, ElementsOfNothing
  <2> QED
    BY <2>1, <1>1 DEF KeepsItsPlace, Places
<1> QED
  BY <1>1, <1>4, <1>5, <1>6 DEF AdapterInv

\* Every step of the adapter keeps its invariant.
LEMMA AdapterStep == AdapterInv /\ [NetworkNext]_networkVars => AdapterInv'
<1> SUFFICES ASSUME AdapterInv, [NetworkNext]_networkVars PROVE AdapterInv'
  OBVIOUS
<1>1. ASSUME NEW n \in 1..Len(bytes), Receive(n) \/ ReceiveGarbage(n) PROVE AdapterInv'
  BY <1>1, ReceiveKeeps, ReceiveGarbageKeeps
<1>2. CASE SendLine \/ CallListener \/ NextMessage \/ ListenerReturns \/ ListenerThrows
  BY <1>2, SendLineKeeps, CallListenerKeeps, LoopKeeps
<1>3. ASSUME NEW h \in Handler, NEW once \in BOOLEAN, On(h, once) PROVE AdapterInv'
  BY <1>3, OnKeeps
<1>4. ASSUME NEW h \in Handler, Unsubscribe(h) PROVE AdapterInv'
  BY <1>4, UnsubscribeHandlerKeeps
<1>5. CASE OffAll \/ \E h \in Handler : Off(h)
  BY <1>5, OffKeeps
<1>6. CASE UNCHANGED networkVars
  <2>1. NetworkTypeOK'
    BY <1>6 DEF networkVars, AdapterInv, NetworkTypeOK
  <2> QED
    BY <1>6, <2>1, QuietKeeps DEF networkVars
<1> QED
  BY <1>1, <1>2, <1>3, <1>4, <1>5, <1>6 DEF NetworkNext

LEMMA AdapterInvariant == NetworkSpec => []AdapterInv
BY AdapterInitInv, AdapterStep, PTL DEF NetworkSpec

\* Whatever functions add and remove each other while a message is handed over,
\* the adapter listens to its socket exactly while somebody listens to it, a
\* function loses its places by its own calls only, and who is there when the
\* loop ends has heard the message (shared.socket-protocol-adapter.ts:77-180).
THEOREM AdaptersKeepTheirListeners == NetworkSpec => []ListenersKept
<1>1. AdapterInv => ListenersKept
  <2> SUFFICES ASSUME AdapterInv PROVE ListenersKept
    OBVIOUS
  <2>1. EveryoneHears
    <3> SUFFICES ASSUME Returned, ~dispatch.shrunk, NEW k \in DOMAIN listeners
                 PROVE  lastHeard[listeners[k]] = Len(arrived)
      BY DEF EveryoneHears
    <3>1. PICK n \in Nat : n = dispatch.at /\ n > Len(listeners) /\ dispatch.todo # <<>>
      BY DispatchFields DEF Returned
    <3>2. k \in 1..(n - 1)
      BY <3>1, DispatchFields
    <3> QED
      BY <3>1, <3>2 DEF AdapterInv, HeardSoFar
  <2> QED
    BY <2>1 DEF AdapterInv, ListenersKept
<1> QED
  BY <1>1, AdapterInvariant, PTL

\* The lines in a stretch of the stream that begins where a message begins are
\* the messages that end in it; the rest of it begins where the next one does.
LEMMA LinesOfTheStream ==
  ASSUME NetworkTypeOK, NEW s, NEW cut, Spoken(s, cut), NEW m \in 0..Len(said), NEW text \in Text,
         cut[m] + Len(text) <= Len(s), \A i \in 1..Len(text) : text[i] = s[cut[m] + i]
  PROVE  \E q \in 0..(Len(said) - m) :
           /\ Len(Lines(text)) = q /\ \A j \in 1..q : Lines(text)[j] = said[m + j]
           /\ cut[m + q] + Len(RestOfText(text)) = cut[m] + Len(text)
           /\ \A i \in 1..Len(RestOfText(text)) : RestOfText(text)[i] = s[cut[m + q] + i]
<1> DEFINE M == Len(said)
           L == Len(text)
<1>1. /\ M \in Nat /\ L \in Nat /\ Len(s) \in Nat /\ m \in Nat /\ m <= M
      /\ \A k \in 1..M : said[k] \in Seq({1, 2, 3}) /\ Len(said[k]) \in Nat
  BY LenProperties DEF NetworkTypeOK, Text, Spoken
<1>2. /\ \A k \in 0..M : cut[k] \in Nat
      /\ \A j, k \in 0..M : j < k => cut[j] < cut[k]
      /\ \A k \in 1..M : cut[k] = cut[k - 1] + Len(said[k]) + 1
      /\ \A k \in 1..M : s[cut[k]] = 0
      /\ \A k \in 1..M : \A i \in 1..Len(said[k]) : s[cut[k - 1] + i] = said[k][i]
      /\ \A p \in 1..Len(s) : s[p] = 0 => \E k \in 1..M : cut[k] = p
  BY DEF Spoken
<1>3. PICK c \in Nat : c = cut[m]
  BY <1>1, <1>2
<1>4. c + L <= Len(s) /\ \A i \in 1..L : text[i] = s[c + i]
  BY <1>3
<1> DEFINE Later == {k \in m..(M + 1) : k <= M => cut[k] > c + L}
<1>5. PICK p \in Later : \A k \in Later : p <= k
  <2>1. M + 1 \in Later /\ Later \subseteq Nat
    BY <1>1
  <2> QED
    BY <2>1, LeastElement
<1>6. p \in (m + 1)..(M + 1) /\ p \in Nat /\ (p <= M => cut[p] > c + L)
      /\ \A k \in m..(M + 1) : (k <= M => cut[k] > c + L) => p <= k
  <2>1. p \in m..(M + 1) /\ (p <= M => cut[p] > c + L)
        /\ \A k \in m..(M + 1) : (k <= M => cut[k] > c + L) => p <= k
    BY <1>5
  <2>2. p # m
    BY <2>1, <1>1, <1>3
  <2> QED
    BY <2>1, <2>2, <1>1
<1> HIDE DEF Later
<1> DEFINE q == p - 1 - m
<1>7. q \in 0..(M - m) /\ q \in Nat /\ m + q = p - 1
  BY <1>1, <1>6
<1>8. ASSUME NEW k \in m..M PROVE cut[k] <= c + L <=> k <= m + q
  <2>1. k \in Nat /\ k \in 0..M /\ k \in m..(M + 1) /\ cut[k] \in Nat
    BY <1>1, <1>2
  <2>2. CASE k < p
    BY <2>1, <2>2, <1>1, <1>6, <1>7
  <2>3. CASE k = p
    BY <2>1, <2>3, <1>1, <1>6, <1>7
  <2>4. CASE k > p
    <3>1. p \in 0..M /\ cut[p] \in Nat /\ p <= M
      BY <2>1, <2>4, <1>1, <1>2, <1>6
    <3>2. cut[p] < cut[k] /\ cut[p] > c + L
      BY <2>1, <2>4, <3>1, <1>2, <1>6
    <3> QED
      BY <2>1, <2>4, <3>1, <3>2, <1>1, <1>7
  <2> QED
    BY <2>1, <2>2, <2>3, <2>4, <1>6
<1> HIDE DEF q
<1> DEFINE f == [i \in 1..q |-> cut[m + i] - c]
<1>9. ASSUME NEW i \in 1..q
      PROVE  /\ m + i \in m..M /\ m + i \in 1..M /\ m + i \in 0..M /\ m + i - 1 \in 0..M
             /\ cut[m + i] \in Nat /\ cut[m + i] > c /\ cut[m + i] <= c + L
             /\ f[i] \in 1..L /\ f[i] \in Nat /\ c + f[i] = cut[m + i]
  <2>1. /\ m + i \in m..M /\ m + i \in 1..M /\ m + i \in 0..M /\ m + i - 1 \in 0..M
        /\ m < m + i /\ m \in 0..M /\ m + i <= m + q
    BY <1>1, <1>7
  <2>2. PICK e \in Nat : e = cut[m + i] /\ c < e /\ e <= c + L
    BY <2>1, <1>2, <1>3, <1>8
  <2>3. f[i] = e - c
    BY <2>2
  <2>4. f[i] \in 1..L /\ f[i] \in Nat /\ c + f[i] = e
    <3>1. PICK x \in Nat : x = e - c /\ x >= 1 /\ x <= L /\ c + x = e
      <4>1. L \in Nat /\ c \in Nat /\ e \in Nat
        BY <1>1
      <4> QED
        BY <4>1, <2>2
    <3>2. f[i] = x
      BY <3>1, <2>3
    <3> HIDE DEF f, L
    <3> QED
      BY <3>1, <3>2, <1>1
  <2> HIDE DEF f
  <2> QED
    BY <2>1, <2>2, <2>4
<1>10. f \in [1..q -> Nat] /\ \A i, j \in 1..q : i < j => f[i] < f[j]
  <2>1. ASSUME NEW i \in 1..q, NEW j \in 1..q, i < j PROVE f[i] < f[j]
    <3>1. cut[m + i] < cut[m + j]
      <4>1. m + i < m + j
        BY <2>1, <1>1, <1>7
      <4> QED
        BY <4>1, <1>9, <1>2
    <3> QED
      BY <3>1, <1>9
  <2>2. f \in [1..q -> Nat]
    <3>1. \A i \in 1..q : cut[m + i] - c \in Nat
      BY <1>9
    <3> QED
      BY <3>1
  <2> QED
    BY <2>1, <2>2
<1>11. \A x : x \in Ends(text) <=> \E i \in 1..q : f[i] = x
  <2>1. DOMAIN text = 1..L
    BY LenProperties DEF Text
  <2>2. ASSUME NEW i \in 1..q PROVE f[i] \in Ends(text)
    <3>1. PICK e \in 1..L : e = f[i] /\ c + e = cut[m + i]
      BY <1>9
    <3>2. text[e] = s[cut[m + i]] /\ s[cut[m + i]] = 0
      BY <3>1, <1>4, <1>9, <1>2
    <3> QED
      BY <2>1, <3>1, <3>2 DEF Ends
  <2>3. ASSUME NEW e \in Ends(text) PROVE \E i \in 1..q : f[i] = e
    <3>1. e \in 1..L /\ e \in Nat /\ text[e] = 0
      BY <2>1, <1>1 DEF Ends
    <3>2. c + e \in 1..Len(s) /\ s[c + e] = 0
      BY <3>1, <1>1, <1>4
    <3>3. PICK k \in 1..M : cut[k] = c + e
      BY <3>2, <1>2
    <3>4. k \in Nat /\ k \in 0..M /\ m \in 0..M
      BY <1>1
    <3>5. ~ k < m /\ k # m
      <4>1. CASE k < m
        <5>1. cut[k] < cut[m]
          BY <4>1, <3>4, <1>2
        <5> QED
          BY <5>1, <3>1, <3>3, <1>3
      <4>2. CASE k = m
        BY <4>2, <3>1, <3>3, <1>3
      <4> QED
        BY <4>1, <4>2
    <3>6. k \in m..M /\ cut[k] <= c + L
      BY <3>1, <3>3, <3>4, <3>5, <1>1
    <3>7. k <= m + q
      BY <3>6, <1>8
    <3>8. PICK i \in 1..q : i = k - m /\ m + i = k
      BY <3>4, <3>5, <3>7, <1>1, <1>7
    <3>9. c + f[i] = c + e /\ f[i] \in Nat
      BY <3>3, <3>8, <1>9
    <3> QED
      BY <3>1, <3>9
  <2> QED
    BY <2>2, <2>3
<1>12. Cardinality(Ends(text)) = q /\ \A k \in 1..q : f[k] \in Ends(text) /\ Rank(Ends(text), f[k]) = k
  <2> HIDE DEF f
  <2>1. PICK n, g, I : n = q /\ g = f /\ I = Ends(text)
    OBVIOUS
  <2>2. n \in Nat
    BY <2>1, <1>7
  <2>3. g \in [1..n -> Nat]
    BY <2>1, <1>10
  <2>4. \A i, j \in 1..n : i < j => g[i] < g[j]
    BY <2>1, <1>10
  <2>5. \A x : x \in I <=> \E i \in 1..n : g[i] = x
    BY <2>1, <1>11
  <2>6. Cardinality(I) = n /\ \A k \in 1..n : g[k] \in I /\ Rank(I, g[k]) = k
    BY <2>2, <2>3, <2>4, <2>5, RankOfAscending
  <2> QED
    BY <2>1, <2>6
<1>13. ASSUME NEW k \in 0..q PROVE LastEnd(text, k) \in Nat /\ c + LastEnd(text, k) = cut[m + k]
  <2>1. CASE k = 0
    BY <2>1, <1>1, <1>3, EndsOf
  <2>2. CASE k # 0
    <3>1. k \in 1..q
      BY <2>2, <1>7
    <3>2. LastEnd(text, k) \in Ends(text) /\ Rank(Ends(text), LastEnd(text, k)) = k
      BY <3>1, <1>12, EndsOf
    <3>3. Ends(text) \subseteq Nat /\ IsFiniteSet(Ends(text))
      BY EndsOf
    <3>4. f[k] \in Ends(text) /\ Rank(Ends(text), f[k]) = k
      BY <3>1, <1>12
    <3>5. LastEnd(text, k) = f[k]
      BY <3>2, <3>3, <3>4, RankTells
    <3> QED
      BY <3>1, <3>5, <1>9
  <2> QED
    BY <2>1, <2>2
<1> HIDE DEF f
<1>14. text \in Seq(Code)
  BY DEF Text, Code
<1>15. Len(Lines(text)) = q
  BY <1>12, LinesAreText
<1>16. ASSUME NEW j \in 1..q PROVE Lines(text)[j] = said[m + j]
  <2>1. PICK k \in 1..M : k = m + j /\ k - 1 = m + (j - 1)
    BY <1>1, <1>9
  <2>2. j \in 0..q /\ j - 1 \in 0..q /\ k \in Nat /\ k - 1 \in 0..M
    BY <2>1, <1>1, <1>7
  <2>3. PICK a \in Nat : a = LastEnd(text, j - 1) /\ c + a = cut[k - 1]
    BY <2>1, <2>2, <1>13
  <2>4. PICK e \in Nat : e = LastEnd(text, j) /\ c + e = cut[k]
    BY <2>1, <2>2, <1>13
  <2>5. e <= L
    <3>1. cut[k] <= c + L
      BY <2>1, <1>9
    <3> QED
      BY <3>1, <2>4, <1>1
  <2>6. PICK n \in Nat : n = Len(said[k]) /\ cut[k] = cut[k - 1] + n + 1
    BY <2>1, <1>1, <1>2
  <2>7. c + e = c + a + n + 1
    BY <2>3, <2>4, <2>6
  <2>8. e - 1 \in Nat /\ a <= e - 1 /\ e - 1 <= L /\ e - 1 - a = n /\ a + n <= L
    <3>1. L \in Nat
      BY <1>1
    <3>2. e = a + n + 1
      BY <2>7
    <3> QED
      BY <2>5, <3>1, <3>2
  <2>9. PICK b \in Nat : b = e - 1 /\ a <= b /\ b <= L /\ b - a = n
    BY <2>8
  <2>10. /\ SubSeq(text, a + 1, b) \in Seq(Code) /\ Len(SubSeq(text, a + 1, b)) = n
         /\ \A i \in 1..n : SubSeq(text, a + 1, b)[i] = text[a + i]
    <3>1. a \in Nat /\ b \in Nat /\ a <= b /\ b <= Len(text) /\ b - a = n
      BY <2>9
    <3>2. /\ SubSeq(text, a + 1, b) \in Seq(Code) /\ Len(SubSeq(text, a + 1, b)) = b - a
          /\ \A i \in 1..(b - a) : SubSeq(text, a + 1, b)[i] = text[a + i]
      BY <3>1, <1>14, PartOf
    <3> QED
      BY <3>1, <3>2
  <2>11. Lines(text)[j] = SubSeq(text, a + 1, b)
    BY <2>3, <2>4, <2>9, <1>12 DEF Lines
  <2>12. said[k] \in Seq(Code)
    <3>1. said[k] \in Seq({1, 2, 3})
      BY <1>1
    <3> QED
      BY <3>1, SeqMonotonic DEF Code
  <2>13. ASSUME NEW i \in 1..n PROVE text[a + i] = said[k][i]
    <3>1. PICK x \in 1..L : x = a + i /\ c + x = c + a + i
      BY <2>8, <1>1
    <3>2. text[x] = s[c + x] /\ c + x = cut[k - 1] + i
      BY <3>1, <2>3, <1>4
    <3>3. s[cut[k - 1] + i] = said[k][i]
      BY <2>6, <1>2
    <3> QED
      BY <3>1, <3>2, <3>3
  <2>14. \A i \in 1..n : Lines(text)[j][i] = said[k][i]
    BY <2>10, <2>11, <2>13
  <2> QED
    <3>1. PICK t \in Seq(Code) : t = Lines(text)[j] /\ Len(t) = n /\ \A i \in 1..n : t[i] = said[k][i]
      BY <2>10, <2>11, <2>14
    <3>2. PICK u \in Seq(Code) : u = said[k] /\ Len(u) = n
      BY <2>6, <2>12
    <3>3. t = u
      BY <3>1, <3>2, SeqEqual
    <3> QED
      BY <2>1, <3>1, <3>2, <3>3
<1>17. /\ cut[m + q] + Len(RestOfText(text)) = cut[m] + L
       /\ \A i \in 1..Len(RestOfText(text)) : RestOfText(text)[i] = s[cut[m + q] + i]
  <2>1. PICK k \in m..M : k = m + q /\ k <= m + q
    BY <1>1, <1>7
  <2>2. q \in 0..q
    BY <1>7
  <2>3. PICK a \in Nat : a = LastEnd(text, q) /\ c + a = cut[k]
    BY <2>1, <2>2, <1>13
  <2>4. a <= L
    <3>1. cut[k] <= c + L
      BY <2>1, <1>8
    <3> QED
      BY <3>1, <2>3, <1>1
  <2>5. /\ SubSeq(text, a + 1, L) \in Seq(Code) /\ Len(SubSeq(text, a + 1, L)) = L - a
        /\ \A i \in 1..(L - a) : SubSeq(text, a + 1, L)[i] = text[a + i]
    BY <2>4, <1>1, <1>14, PartOf
  <2>6. RestOfText(text) = SubSeq(text, a + 1, L)
    BY <2>3, <1>12 DEF RestOfText
  <2>7. ASSUME NEW i \in 1..(L - a) PROVE text[a + i] = s[cut[k] + i]
    <3>1. PICK x \in 1..L : x = a + i /\ c + x = c + a + i
      BY <2>4, <1>1
    <3>2. text[x] = s[c + x] /\ c + x = cut[k] + i
      BY <3>1, <2>3, <1>4
    <3> QED
      BY <3>1, <3>2
  <2>8. cut[k] + (L - a) = cut[m] + L
    BY <2>3, <1>1, <1>3
  <2> QED
    BY <2>1, <2>5, <2>6, <2>7, <2>8
<1> QED
  BY <1>7, <1>15, <1>16, <1>17

\* What was decoded is text, and changes only when bytes are decoded, or when what
\* is to be handed over is dropped.
LEMMA DecodedIsText ==
  ASSUME AdapterInv
  PROVE  Pending \in Seq(Text) /\ Decoded \in Seq(Text) /\ arrived \in Seq(Text)
<1>1. dispatch.todo \in Seq(Text) /\ arrived \in Seq(Text)
  BY DEF AdapterInv, NetworkTypeOK
<1>2. Pending \in Seq(Text)
  <2>1. CASE dispatch.at = 1
    BY <1>1, <2>1 DEF Pending
  <2>2. CASE dispatch.at # 1
    <3>1. dispatch.todo # <<>>
      BY <2>2 DEF AdapterInv, Handing, Idle
    <3>2. Tail(dispatch.todo) \in Seq(Text)
      BY <1>1, <3>1, HeadTailProperties
    <3> QED
      BY <2>2, <3>2 DEF Pending
  <2> QED
    BY <2>1, <2>2
<1> QED
  BY <1>1, <1>2, ConcatParts DEF Decoded

\* Nothing is to be handed over while the adapter waits for bytes.
LEMMA IdleDecodes ==
  ASSUME AdapterInv, dispatch = Idle
  PROVE  Pending = <<>> /\ Decoded = arrived
<1>1. Pending = <<>>
  BY DEF Pending, Idle
<1>2. arrived \in Seq(Text)
  BY DecodedIsText
<1>3. arrived \o <<>> = arrived
  BY <1>2, ConcatProperties
<1> QED
  BY <1>1, <1>3 DEF Decoded

\* The lines of the bytes that come are decoded, and wait to be handed over.
LEMMA BytesDecode ==
  ASSUME AdapterInv, NEW n \in 1..Len(bytes), Receive(n), ~Unheard
  PROVE  Decoded' = Decoded \o Lines(remainder \o Decode(SubSeq(bytes, 1, n)))
<1> DEFINE lines == Lines(remainder \o Decode(SubSeq(bytes, 1, n)))
<1>1. dispatch = Idle /\ dispatch' = [Idle EXCEPT !.todo = lines] /\ arrived' = arrived
  BY DEF Receive
<1>2. dispatch'.todo = lines /\ dispatch'.at = 1
  BY <1>1 DEF Idle
<1>3. Pending' = lines
  BY <1>2 DEF Pending
<1> QED
  BY <1>1, <1>3, IdleDecodes DEF Decoded

\* While no message is dropped, handing one over moves it from what waits to what
\* arrived.
LEMMA HandingOver ==
  ASSUME AdapterInv, AdapterInv',
         CallListener \/ NextMessage \/ ListenerReturns \/ ListenerThrows, ~Spoilt'
  PROVE  /\ Decoded' = Decoded
         /\ \/ arrived' = arrived
            \/ Len(arrived') = Len(arrived) + 1 /\ IsPrefix(arrived, arrived')
<1>1. arrived \in Seq(Text) /\ dispatch.todo \in Seq(Text) /\ dropped \in Nat /\ dropped' \in Nat
      /\ Len(dispatch.todo) \in Nat /\ Len(arrived) \in Nat
  BY LenProperties DEF AdapterInv, NetworkTypeOK
<1>2. dropped' = 0
  BY <1>1 DEF Spoilt
<1>3. dispatch.todo # <<>>
  BY DEF CallListener, NextMessage, Returned, ListenerReturns, ListenerThrows, AdapterInv, Handing, Idle
<1>4. /\ Head(dispatch.todo) \in Text /\ Tail(dispatch.todo) \in Seq(Text)
      /\ dispatch.todo = <<Head(dispatch.todo)>> \o Tail(dispatch.todo)
      /\ Len(Tail(dispatch.todo)) = Len(dispatch.todo) - 1
  BY <1>1, <1>3, HeadTailProperties
<1>5. CASE CallListener
  <2>1. /\ dispatch'.todo = dispatch.todo /\ dispatch'.at = dispatch.at + 1
        /\ arrived' = IF dispatch.at = 1 THEN Append(arrived, Head(dispatch.todo)) ELSE arrived
    BY <1>5 DEF CallListener, AdapterInv, Handing
  <2>2. Pending' = Tail(dispatch.todo)
    <3>1. dispatch.at + 1 # 1
      BY DispatchFields
    <3> QED
      BY <2>1, <3>1 DEF Pending
  <2>3. CASE dispatch.at = 1
    <3>1. Decoded = arrived \o (<<Head(dispatch.todo)>> \o Tail(dispatch.todo))
      BY <1>4, <2>3 DEF Decoded, Pending
    <3>2. Decoded' = Append(arrived, Head(dispatch.todo)) \o Tail(dispatch.todo)
      BY <2>1, <2>2, <2>3 DEF Decoded
    <3>3. Append(arrived, Head(dispatch.todo)) \o Tail(dispatch.todo) =
            arrived \o (<<Head(dispatch.todo)>> \o Tail(dispatch.todo))
      <4>1. PICK h \in Text : h = Head(dispatch.todo)
        BY <1>4
      <4>2. <<h>> \in Seq(Text) /\ Append(arrived, h) = arrived \o <<h>>
        BY <1>1, AppendIsConcat
      <4>3. PICK others \in Seq(Text) : others = Tail(dispatch.todo)
        BY <1>4
      <4>4. PICK one \in Seq(Text) : one = <<h>>
        BY <4>2
      <4>5. (arrived \o one) \o others = arrived \o (one \o others)
        BY <1>1, ConcatAssociative
      <4> QED
        BY <4>1, <4>2, <4>3, <4>4, <4>5, Zenon
    <3>4. /\ arrived' \in Seq(Text) /\ Len(arrived') = Len(arrived) + 1
          /\ \A k \in 1..Len(arrived) : arrived'[k] = arrived[k]
      BY <1>1, <1>4, <2>1, <2>3, AppendProperties
    <3>5. IsPrefix(arrived, arrived')
      <4>1. Len(arrived) <= Len(arrived') /\ \A k \in 1..Len(arrived) : arrived[k] = arrived'[k]
        BY <1>1, <3>4
      <4> QED
        BY <1>1, <3>4, <4>1, PrefixOf
    <3> QED
      BY <3>1, <3>2, <3>3, <3>4, <3>5
  <2>4. CASE dispatch.at # 1
    BY <2>1, <2>2, <2>4 DEF Decoded, Pending
  <2> QED
    BY <2>3, <2>4
<1>6. CASE NextMessage
  <2>1. dispatch' = [Idle EXCEPT !.todo = Tail(dispatch.todo)] /\ arrived' = arrived
        /\ dropped' = IF dispatch.at = 1 THEN dropped + 1 ELSE dropped
    BY <1>6 DEF NextMessage
  <2>2. dispatch.at # 1
    BY <1>1, <1>2, <2>1
  <2>3. dispatch'.todo = Tail(dispatch.todo) /\ dispatch'.at = 1
    BY <2>1 DEF Idle
  <2> QED
    BY <2>1, <2>2, <2>3 DEF Decoded, Pending
<1>7. CASE ListenerReturns
  <2>1. dispatch'.todo = dispatch.todo /\ dispatch'.at = dispatch.at /\ arrived' = arrived
    BY <1>7 DEF ListenerReturns, AdapterInv, Handing
  <2> QED
    BY <2>1 DEF Decoded, Pending
<1>8. CASE ListenerThrows
  <2>1. dispatch' = Idle /\ arrived' = arrived /\ dropped' = dropped + Len(dispatch.todo) - 1
        /\ dispatch.at # 1
    BY <1>8 DEF ListenerThrows, AdapterInv, Handing
  <2>2. Len(dispatch.todo) # 0
    BY <1>1, <1>3, EmptySeq
  <2>3. Len(Tail(dispatch.todo)) = 0
    BY <1>1, <1>2, <1>4, <2>1, <2>2
  <2>4. Tail(dispatch.todo) = <<>>
    BY <1>4, <2>3, EmptySeq
  <2>5. Pending = <<>> /\ Pending' = <<>>
    BY <2>1, <2>4 DEF Pending, Idle
  <2> QED
    BY <2>1, <2>5 DEF Decoded
<1> QED
  BY <1>5, <1>6, <1>7, <1>8

LEMMA StreamInit == NetworkInit => StreamInv
<1> SUFFICES ASSUME NetworkInit PROVE StreamInv
  OBVIOUS
<1>1. NetworkTypeOK
  BY AdapterInitInv DEF AdapterInv
<1>2. /\ said = <<>> /\ arrived = <<>> /\ remainder = <<>> /\ bytes = <<>>
      /\ Len(<<>>) = 0 /\ \A S : <<>> \in Seq(S)
  BY EmptySeq DEF NetworkInit
<1>7. Decoded = <<>>
  <2>1. dispatch = Idle /\ AdapterInv
    BY AdapterInitInv DEF NetworkInit
  <2> QED
    BY <2>1, <1>2, IdleDecodes
<1>3. PICK cut : cut = [k \in {0} |-> 0]
  OBVIOUS
<1>4. 0..Len(said) = {0} /\ Len(said) = 0 /\ cut[0] = 0
  BY <1>2, <1>3
<1>5. Spoken(<<>>, cut)
  <2>1. cut \in [0..Len(said) -> Nat]
    BY <1>3, <1>4
  <2> QED
    BY <2>1, <1>2, <1>4 DEF Spoken
<1>6. Carried(<<>>, cut)
  BY <1>2, <1>4, <1>7 DEF Carried
<1> QED
  BY <1>1, <1>5, <1>6 DEF StreamInv

\* A line more is said: the stream grows by its bytes.
LEMMA SpeechGrows ==
  ASSUME AdapterInv, NEW s, NEW cut, Spoken(s, cut), Carried(s, cut), SendLine
  PROVE  \E t, ends : (Spoken(t, ends) /\ Carried(t, ends))'
<1> DEFINE M == Len(said)
<1>1. M \in Nat /\ M + 1 \in 1..Len(Script)
  BY NetworkAssumption, LenProperties DEF AdapterInv, NetworkTypeOK, SendLine
<1>2. PICK line \in Seq({1, 2, 3}) : line = Script[M + 1]
  BY <1>1, NetworkAssumption, ElementOfSeq
<1>3. /\ said' = Append(said, line) /\ bytes' = bytes \o Append(line, 0)
      /\ UNCHANGED <<Decoded, remainder>>
  BY <1>2 DEF SendLine, Decoded, Pending
<1>4. /\ said' \in Seq(Seq({1, 2, 3})) /\ Len(said') = M + 1 /\ said'[M + 1] = line
      /\ \A k \in 1..M : said'[k] = said[k]
  BY <1>3, AppendProperties DEF AdapterInv, NetworkTypeOK
<1>5. PICK n \in Nat : n = Len(line)
  BY LenProperties
<1>6. line \in Seq(0..3) /\ \A i \in 1..n : line[i] \in {1, 2, 3}
  BY <1>5, SeqMonotonic, LenProperties
<1>7. PICK more \in Seq(0..3) : /\ more = Append(line, 0) /\ Len(more) = n + 1 /\ more[n + 1] = 0
                                /\ \A i \in 1..n : more[i] = line[i]
  <2>1. 0 \in 0..3
    OBVIOUS
  <2>2. /\ Append(line, 0) \in Seq(0..3) /\ Len(Append(line, 0)) = Len(line) + 1
        /\ \A i \in 1..Len(line) : Append(line, 0)[i] = line[i]
        /\ Append(line, 0)[Len(line) + 1] = 0
    BY <2>1, <1>6, AppendProperties
  <2>3. PICK more : more = Append(line, 0)
    OBVIOUS
  <2> QED
    BY <2>2, <2>3, <1>5, Zenon
<1>8. s \in Seq(0..3)
  BY DEF Spoken
<1>9. PICK l \in Nat : l = Len(s)
  BY <1>8, LenProperties
<1>10. PICK t \in Seq(0..3) : /\ t = s \o more /\ Len(t) = l + (n + 1)
                              /\ (\A i \in 1..l : t[i] = s[i])
                              /\ (\A i \in 1..(n + 1) : t[l + i] = more[i])
  <2>1. PICK t : t = s \o more
    OBVIOUS
  <2>2. /\ s \o more \in Seq(0..3) /\ Len(s \o more) = Len(s) + Len(more)
        /\ \A i \in 1..Len(s) : (s \o more)[i] = s[i]
        /\ \A i \in 1..Len(more) : (s \o more)[Len(s) + i] = more[i]
    BY <1>7, <1>8, ConcatParts
  <2>3. Len(more) = n + 1
    BY <1>7
  <2> QED
    BY <2>1, <2>2, <2>3, <1>9
<1>11. /\ cut \in [0..M -> Nat] /\ cut[0] = 0 /\ cut[M] = l
       /\ \A j, k \in 0..M : j < k => cut[j] < cut[k]
       /\ \A k \in 1..M : cut[k] = cut[k - 1] + Len(said[k]) + 1
       /\ \A k \in 1..M : s[cut[k]] = 0
       /\ \A k \in 1..M : \A i \in 1..Len(said[k]) : s[cut[k - 1] + i] = said[k][i]
       /\ \A p \in 1..Len(s) : s[p] = 0 => \E k \in 1..M : cut[k] = p
  BY <1>9 DEF Spoken
<1>12. PICK ends \in [0..(M + 1) -> Nat] :
         /\ ends[M + 1] = l + (n + 1) /\ \A k \in 0..M : ends[k] = cut[k]
  <2> DEFINE e == [k \in 0..(M + 1) |-> IF k <= M THEN cut[k] ELSE l + (n + 1)]
  <2>1. \A k \in 0..(M + 1) : (k <= M => k \in 0..M) /\ (k \in 0..M => k <= M)
    BY <1>1
  <2>2. \A k \in 0..(M + 1) : (IF k <= M THEN cut[k] ELSE l + (n + 1)) \in Nat
    <3> SUFFICES ASSUME NEW k \in 0..(M + 1), k <= M PROVE cut[k] \in Nat
      OBVIOUS
    <3> QED
      BY <2>1, <1>11
  <2>3. e \in [0..(M + 1) -> Nat]
    BY <2>2
  <2>4. e[M + 1] = l + (n + 1) /\ \A k \in 0..M : e[k] = cut[k]
    BY <1>1
  <2> QED
    BY <2>3, <2>4
<1>13. ASSUME NEW k \in 1..(M + 1)
       PROVE  \/ k \in 1..M /\ k \in 0..M /\ k - 1 \in 0..M
              \/ k = M + 1
  BY <1>1
<1>14. ASSUME NEW k \in 1..M
       PROVE  /\ cut[k - 1] \in Nat /\ cut[k] \in Nat /\ cut[k] <= l /\ cut[k] >= 1
              /\ \A i \in 1..Len(said[k]) : cut[k - 1] + i \in 1..l
  <2>1. k - 1 \in 0..M /\ k \in 0..M /\ M \in 0..M /\ k \in Nat
    BY <1>1
  <2>2. PICK a \in Nat : a = cut[k - 1]
    BY <2>1, <1>11
  <2>3. PICK b \in Nat : b = cut[k]
    BY <2>1, <1>11
  <2>4. PICK c \in Nat : c = Len(said[k])
    BY LenProperties DEF AdapterInv, NetworkTypeOK
  <2>5. b = a + c + 1
    BY <2>2, <2>3, <2>4, <1>11
  <2>6. b <= l
    <3>1. k = M \/ k < M
      BY <1>1
    <3> QED
      BY <3>1, <2>1, <2>3, <1>11
  <2>7. \A i \in 1..c : a + i \in 1..l
    BY <2>5, <2>6
  <2>8. b >= 1
    BY <2>5
  <2> QED
    BY <2>2, <2>3, <2>4, <2>6, <2>7, <2>8
<1>15. \A j, k \in 0..(M + 1) : j < k => ends[j] < ends[k]
  <2> SUFFICES ASSUME NEW j \in 0..(M + 1), NEW k \in 0..(M + 1), j < k PROVE ends[j] < ends[k]
    OBVIOUS
  <2>1. j \in 0..M /\ (k \in 0..M \/ k = M + 1) /\ M \in 0..M
    BY <1>1
  <2>2. CASE k \in 0..M
    BY <2>1, <2>2, <1>11, <1>12
  <2>3. CASE k = M + 1
    <3>1. cut[j] \in Nat /\ cut[j] <= l
      <4>1. j = M \/ j < M
        BY <2>1, <1>1
      <4>2. PICK a \in Nat : a = cut[j]
        BY <2>1, <1>11
      <4>3. a = l \/ a < l
        BY <4>1, <4>2, <2>1, <1>11
      <4> QED
        BY <4>2, <4>3
    <3> QED
      BY <3>1, <2>1, <2>3, <1>12
  <2> QED
    BY <2>1, <2>2, <2>3
<1>16. ASSUME NEW k \in 1..(M + 1)
       PROVE  /\ ends[k] = ends[k - 1] + Len(said'[k]) + 1 /\ t[ends[k]] = 0
              /\ \A i \in 1..Len(said'[k]) : t[ends[k - 1] + i] = said'[k][i]
  <2>1. CASE k \in 1..M
    <3>1. k \in 0..M /\ k - 1 \in 0..M
      BY <1>13, <2>1, <1>1
    <3>2. ends[k] = cut[k] /\ ends[k - 1] = cut[k - 1] /\ said'[k] = said[k]
      BY <3>1, <2>1, <1>4, <1>12
    <3>3. cut[k] \in 1..l /\ \A i \in 1..Len(said[k]) : cut[k - 1] + i \in 1..l
      BY <2>1, <1>14
    <3>4. t[cut[k]] = 0
      BY <2>1, <3>3, <1>10, <1>11
    <3>5. \A i \in 1..Len(said[k]) : t[cut[k - 1] + i] = said[k][i]
      BY <2>1, <3>3, <1>10, <1>11
    <3>6. cut[k] = cut[k - 1] + Len(said[k]) + 1
      BY <2>1, <1>11
    <3> QED
      BY <3>2, <3>4, <3>5, <3>6
  <2>2. CASE k = M + 1
    <3>1. M \in 0..M /\ k - 1 = M
      BY <2>2, <1>1
    <3>2. ends[k] = l + (n + 1) /\ ends[k - 1] = l /\ said'[k] = line
      BY <3>1, <2>2, <1>4, <1>11, <1>12
    <3>3. t[l + (n + 1)] = 0
      <4>1. n + 1 \in 1..(n + 1)
        OBVIOUS
      <4> QED
        BY <4>1, <1>7, <1>10
    <3>4. \A i \in 1..n : t[l + i] = line[i]
      <4>1. \A i \in 1..n : i \in 1..(n + 1)
        OBVIOUS
      <4> QED
        BY <4>1, <1>7, <1>10
    <3>5. ends[k] = ends[k - 1] + Len(said'[k]) + 1 /\ t[ends[k]] = 0
      BY <3>2, <3>3, <1>5
    <3>6. \A i \in 1..Len(said'[k]) : t[ends[k - 1] + i] = said'[k][i]
      BY <3>2, <3>4, <1>5
    <3> QED
      BY <3>5, <3>6
  <2> QED
    BY <2>1, <2>2, <1>13
<1>17. \A p \in 1..Len(t) : t[p] = 0 => \E k \in 1..(M + 1) : ends[k] = p
  <2> SUFFICES ASSUME NEW p \in 1..Len(t), t[p] = 0 PROVE \E k \in 1..(M + 1) : ends[k] = p
    OBVIOUS
  <2>1. CASE p <= l
    <3>1. p \in 1..l /\ s[p] = 0
      BY <2>1, <1>10
    <3>2. PICK k \in 1..M : cut[k] = p
      BY <3>1, <1>9, <1>11
    <3>3. k \in 0..M /\ k \in 1..(M + 1)
      BY <1>1
    <3> QED
      BY <3>2, <3>3, <1>12
  <2>2. CASE p > l
    <3>1. PICK i \in 1..(n + 1) : p = l + i
      <4>1. p \in 1..(l + (n + 1)) /\ p - l \in 1..(n + 1) /\ l + (p - l) = p
        BY <2>2, <1>10
      <4> QED
        BY <4>1
    <3>2. more[i] = 0
      BY <3>1, <1>10
    <3>3. i = n + 1
      <4> SUFFICES ASSUME i # n + 1 PROVE FALSE
        OBVIOUS
      <4>1. i \in 1..n
        OBVIOUS
      <4>2. line[i] = 0 /\ line[i] \in {1, 2, 3}
        BY <4>1, <3>2, <1>6, <1>7
      <4> QED
        BY <4>2
    <3>4. M + 1 \in 1..(M + 1) /\ ends[M + 1] = p
      BY <3>1, <3>3, <1>1, <1>12
    <3> QED
      BY <3>4
  <2>3. p \in Nat
    BY <1>10, LenProperties
  <2> QED
    BY <2>1, <2>2, <2>3
<1>18. Spoken(t, ends)'
  <2>1. ends[0] = 0
    BY <1>1, <1>11, <1>12
  <2> QED
    BY <2>1, <1>4, <1>10, <1>12, <1>15, <1>16, <1>17 DEF Spoken
<1>19. Carried(t, ends)'
  <2>1. PICK m \in Nat : m = Len(Decoded) /\ m <= M
    BY DecodedIsText, LenProperties DEF Carried
  <2>2. PICK r \in Nat : r = Len(remainder)
    BY LenProperties DEF AdapterInv, NetworkTypeOK, Text
  <2>3. PICK b \in Nat : b = Len(bytes)
    BY LenProperties DEF AdapterInv, NetworkTypeOK
  <2>4. PICK c \in Nat : c = cut[m] /\ c = ends[m]
    <3>1. m \in 0..M
      BY <2>1, <1>1
    <3> QED
      BY <3>1, <1>11, <1>12
  <2>5. /\ c + r + b = l
        /\ (\A i \in 1..r : remainder[i] = s[c + i]) /\ \A i \in 1..b : bytes[i] = s[l - b + i]
    BY <2>1, <2>2, <2>3, <2>4, <1>9 DEF Carried
  <2>6. /\ Len(bytes') = b + (n + 1)
        /\ \A i \in 1..b : bytes'[i] = bytes[i]
        /\ \A i \in 1..(n + 1) : bytes'[b + i] = more[i]
    <3>1. bytes \in Seq(0..3) /\ bytes' = bytes \o more
      BY <1>3, <1>7 DEF AdapterInv, NetworkTypeOK
    <3>2. /\ Len(bytes \o more) = Len(bytes) + Len(more)
          /\ \A i \in 1..Len(bytes) : (bytes \o more)[i] = bytes[i]
          /\ \A i \in 1..Len(more) : (bytes \o more)[Len(bytes) + i] = more[i]
      BY <3>1, <1>7, ConcatParts
    <3>3. Len(more) = n + 1
      BY <1>7
    <3> QED
      BY <3>1, <3>2, <3>3, <2>3
  <2>7. \A i \in 1..r : remainder[i] = t[c + i]
    <3>1. \A i \in 1..r : c + i \in 1..l
      BY <2>5
    <3> QED
      BY <3>1, <2>5, <1>10
  <2>8. ASSUME NEW i \in 1..(b + (n + 1)) PROVE bytes'[i] = t[l + (n + 1) - (b + (n + 1)) + i]
    <3>1. PICK x \in Nat : x = l + (n + 1) - (b + (n + 1)) + i /\ x = l - b + i /\ i \in Nat
      <4>1. c + r + b = l
        BY <2>5
      <4>2. i \in Nat /\ l - b + i = c + r + i
        BY <4>1
      <4>3. l + (n + 1) - (b + (n + 1)) + i = c + r + i
        BY <4>1, <4>2
      <4> QED
        BY <4>2, <4>3
    <3>2. CASE i <= b
      <4>1. i \in 1..b /\ x \in 1..l
        BY <3>1, <3>2, <2>5
      <4>2. bytes'[i] = bytes[i] /\ bytes[i] = s[x] /\ t[x] = s[x]
        BY <3>1, <4>1, <2>5, <2>6, <1>10
      <4> QED
        BY <3>1, <4>2
    <3>3. CASE i > b
      <4>1. PICK j \in 1..(n + 1) : b + j = i /\ x = l + j
        <5>1. i - b \in 1..(n + 1) /\ b + (i - b) = i /\ x = l + (i - b)
          BY <3>1, <3>3
        <5> QED
          BY <5>1
      <4>2. bytes'[b + j] = more[j] /\ t[l + j] = more[j]
        BY <2>6, <1>10
      <4> QED
        BY <3>1, <4>1, <4>2
    <3> QED
      BY <3>1, <3>2, <3>3
  <2>9. Len(Decoded') = m /\ m <= M + 1 /\ \A k \in 1..m : Decoded'[k] = said'[k]
    <3>1. \A k \in 1..m : k \in 1..M /\ Decoded[k] = said[k]
      BY <2>1, <1>1 DEF Carried
    <3> QED
      BY <3>1, <2>1, <1>1, <1>3, <1>4
  <2>10. c + r + (b + (n + 1)) = l + (n + 1)
    <3>1. c + r + b = l
      BY <2>5
    <3> QED
      BY <3>1
  <2>11. ends[Len(Decoded')] = c /\ Len(remainder') = r /\ remainder' = remainder /\ Len(t) = l + (n + 1)
    BY <2>2, <2>4, <2>9, <1>3, <1>10
  <2>12. ends[Len(Decoded')] + Len(remainder') + Len(bytes') = Len(t)
    BY <2>6, <2>10, <2>11
  <2>13. \A i \in 1..Len(remainder') : remainder'[i] = t[ends[Len(Decoded')] + i]
    BY <2>7, <2>11
  <2>14. \A i \in 1..Len(bytes') : bytes'[i] = t[Len(t) - Len(bytes') + i]
    BY <2>6, <2>8, <2>11
  <2>15. Len(Decoded') <= Len(said') /\ \A k \in 1..Len(Decoded') : Decoded'[k] = said'[k]
    BY <2>9, <1>4
  <2> QED
    BY <2>12, <2>13, <2>14, <2>15 DEF Carried
<1> QED
  BY <1>18, <1>19

\* Bytes are heard and no character is cut: the messages that end in them arrive.
LEMMA BytesArrive ==
  ASSUME AdapterInv, NEW s, NEW cut, Spoken(s, cut), Carried(s, cut),
         NEW n \in 1..Len(bytes), Receive(n), ~Spoilt'
  PROVE  (Spoken(s, cut) /\ Carried(s, cut))' /\ UNCHANGED <<said, arrived>>
<1> DEFINE chunk == SubSeq(bytes, 1, n)
<1>1. /\ ~Unheard /\ Decode(chunk) = chunk /\ said' = said /\ arrived' = arrived
      /\ bytes' = SubSeq(bytes, n + 1, Len(bytes))
  BY DEF Receive, Spoilt
<1>2. bytes \in Seq(0..3) /\ remainder \in Text /\ Decoded \in Seq(Text) /\ said \in Seq(Seq({1, 2, 3}))
  BY DecodedIsText DEF AdapterInv, NetworkTypeOK
<1>3. PICK text \in Text : text = remainder \o chunk /\ chunk \in Text
  <2>1. Decode(chunk) \in Text /\ remainder \o Decode(chunk) \in Text
    BY <1>2, ChunkIsText
  <2> QED
    BY <2>1, <1>1
<1>4. remainder' = RestOfText(text) /\ Decoded' = Decoded \o Lines(text)
  <2>1. Decoded' = Decoded \o Lines(remainder \o Decode(chunk))
    BY <1>1, BytesDecode
  <2> QED
    BY <1>1, <1>3, <2>1 DEF Receive
<1>5. PICK b \in Nat : b = Len(bytes) /\ n \in Nat /\ n >= 1 /\ n <= b
  BY <1>2, LenProperties
<1>6. PICK r \in Nat : r = Len(remainder)
  BY <1>2, LenProperties DEF Text
<1>7. PICK m \in Nat : m = Len(Decoded) /\ m \in 0..Len(said)
  BY <1>2, LenProperties DEF Carried
<1>8. PICK c \in Nat : c = cut[m]
  BY <1>7 DEF Spoken
<1>9. PICK l \in Nat : l = Len(s)
  BY LenProperties DEF Spoken
<1>10. /\ c + r + b = l
       /\ \A k \in 1..m : Decoded[k] = said[k]
       /\ \A i \in 1..r : remainder[i] = s[c + i]
       /\ \A i \in 1..b : bytes[i] = s[l - b + i]
  BY <1>5, <1>6, <1>7, <1>8, <1>9 DEF Carried
<1>11. /\ Len(chunk) = n /\ \A i \in 1..n : chunk[i] = bytes[i]
       /\ bytes' \in Seq(0..3) /\ Len(bytes') = b - n
       /\ \A i \in 1..(b - n) : bytes'[i] = bytes[n + i]
  BY <1>1, <1>2, <1>5, ChunkIsText
<1>12. /\ Len(text) = r + n
       /\ (\A i \in 1..r : text[i] = remainder[i]) /\ \A i \in 1..n : text[r + i] = chunk[i]
  <2> HIDE DEF chunk
  <2>1. remainder \in Seq(Code) /\ chunk \in Seq(Code)
    BY <1>2, <1>3 DEF Text, Code
  <2>2. /\ Len(remainder \o chunk) = Len(remainder) + Len(chunk)
        /\ \A i \in 1..Len(remainder) : (remainder \o chunk)[i] = remainder[i]
        /\ \A i \in 1..Len(chunk) : (remainder \o chunk)[Len(remainder) + i] = chunk[i]
    BY <2>1, ConcatParts
  <2> QED
    BY <2>2, <1>3, <1>6, <1>11
<1>13. \A i \in 1..Len(text) : text[i] = s[c + i]
  <2> SUFFICES ASSUME NEW i \in 1..(r + n) PROVE text[i] = s[c + i]
    BY <1>12
  <2>1. CASE i <= r
    <3>1. i \in 1..r
      BY <2>1
    <3> QED
      BY <3>1, <1>10, <1>12
  <2>2. CASE i > r
    <3>1. PICK j \in 1..n : i = r + j
      <4>1. i - r \in 1..n /\ i = r + (i - r)
        BY <2>2, <1>5
      <4> QED
        BY <4>1
    <3>2. j \in 1..b /\ l - b + j = c + i
      <4>1. c + r + b = l
        BY <1>10
      <4> QED
        BY <4>1, <3>1, <1>5
    <3>3. text[i] = bytes[j] /\ bytes[j] = s[l - b + j]
      BY <3>1, <3>2, <1>10, <1>11, <1>12
    <3> QED
      BY <3>2, <3>3
  <2> QED
    BY <2>1, <2>2
<1>14. PICK q \in 0..(Len(said) - m) :
         /\ Len(Lines(text)) = q /\ \A j \in 1..q : Lines(text)[j] = said[m + j]
         /\ cut[m + q] + Len(RestOfText(text)) = cut[m] + Len(text)
         /\ \A i \in 1..Len(RestOfText(text)) : RestOfText(text)[i] = s[cut[m + q] + i]
  <2>1. cut[m] + Len(text) <= Len(s)
    BY <1>5, <1>8, <1>9, <1>10, <1>12
  <2>2. \A i \in 1..Len(text) : text[i] = s[cut[m] + i]
    BY <1>8, <1>13
  <2>3. m \in 0..Len(said) /\ text \in Text
    BY <1>3, <1>7
  <2>4. NetworkTypeOK /\ Spoken(s, cut)
    BY DEF AdapterInv
  <2> HIDE DEF chunk
  <2> QED
    BY <2>1, <2>2, <2>3, <2>4, LinesOfTheStream
<1>15. PICK M \in Nat : M = Len(said) /\ q \in Nat /\ m + q \in 0..M /\ m <= M
  <2>1. Len(said) \in Nat
    BY <1>2, LenProperties
  <2> QED
    BY <2>1, <1>7
<1>16. /\ Decoded' \in Seq(Text) /\ Len(Decoded') = m + q
       /\ (\A k \in 1..m : Decoded'[k] = Decoded[k]) /\ \A j \in 1..q : Decoded'[m + j] = said[m + j]
  <2>1. Lines(text) \in Seq(Text)
    BY LinesAreText
  <2>2. /\ Decoded \o Lines(text) \in Seq(Text)
        /\ Len(Decoded \o Lines(text)) = Len(Decoded) + Len(Lines(text))
        /\ \A i \in 1..Len(Decoded) : (Decoded \o Lines(text))[i] = Decoded[i]
        /\ \A i \in 1..Len(Lines(text)) : (Decoded \o Lines(text))[Len(Decoded) + i] = Lines(text)[i]
    BY <2>1, <1>2, ConcatParts
  <2> QED
    BY <2>2, <1>4, <1>7, <1>14
<1>17. \A k \in 1..(m + q) : Decoded'[k] = said[k]
  <2> SUFFICES ASSUME NEW k \in 1..(m + q) PROVE Decoded'[k] = said[k]
    OBVIOUS
  <2>1. CASE k <= m
    <3>1. k \in 1..m
      BY <2>1
    <3> QED
      BY <3>1, <1>10, <1>16
  <2>2. CASE k > m
    <3>1. PICK j \in 1..q : k = m + j
      <4>1. k - m \in 1..q /\ k = m + (k - m)
        BY <2>2, <1>15
      <4> QED
        BY <4>1
    <3> QED
      BY <3>1, <1>16
  <2> QED
    BY <2>1, <2>2
<1>18. Spoken(s, cut)'
  BY <1>1 DEF Spoken
<1>19. Carried(s, cut)'
  <2>1. PICK e \in Nat : e = cut[m + q]
    BY <1>15 DEF Spoken
  <2>2. PICK rest \in Nat : rest = Len(remainder') /\ e + rest = c + (r + n)
    <3>1. RestOfText(text) \in Text
      BY LinesAreText
    <3>2. Len(RestOfText(text)) \in Nat
      BY <3>1, LenProperties DEF Text
    <3> QED
      BY <3>2, <2>1, <1>4, <1>8, <1>12, <1>14
  <2>3. e + rest + (b - n) = l
    <3>1. c + r + b = l
      BY <1>10
    <3> QED
      BY <3>1, <2>1, <2>2, <1>5
  <2>4. \A i \in 1..rest : remainder'[i] = s[e + i]
    BY <2>1, <2>2, <1>4, <1>14
  <2>5. ASSUME NEW i \in 1..(b - n) PROVE bytes'[i] = s[l - (b - n) + i]
    <3>1. PICK j \in 1..b : j = n + i /\ l - b + j = l - (b - n) + i
      BY <1>5
    <3>2. bytes'[i] = bytes[j] /\ bytes[j] = s[l - b + j]
      BY <3>1, <1>10, <1>11
    <3> QED
      BY <3>1, <3>2
  <2>6. Len(Decoded') <= Len(said') /\ \A k \in 1..Len(Decoded') : Decoded'[k] = said'[k]
    BY <1>1, <1>15, <1>16, <1>17
  <2>7. cut[Len(Decoded')] + Len(remainder') + Len(bytes') = Len(s)
    BY <2>1, <2>2, <2>3, <1>9, <1>11, <1>16
  <2>8. \A i \in 1..Len(remainder') : remainder'[i] = s[cut[Len(Decoded')] + i]
    BY <2>1, <2>2, <2>4, <1>16
  <2>9. \A i \in 1..Len(bytes') : bytes'[i] = s[Len(s) - Len(bytes') + i]
    BY <2>5, <1>9, <1>11
  <2> QED
    BY <2>6, <2>7, <2>8, <2>9 DEF Carried
<1> QED
  BY <1>1, <1>18, <1>19

\* Whatever happened before, one message more is said.
LEMMA SpeechLengthens ==
  ASSUME NetworkTypeOK, SendLine
  PROVE  Len(said') = Len(said) + 1 /\ IsPrefix(said, said')
<1> DEFINE M == Len(said)
<1>1. M \in Nat /\ M + 1 \in 1..Len(Script)
  BY NetworkAssumption, LenProperties DEF NetworkTypeOK, SendLine
<1>2. PICK line \in Seq({1, 2, 3}) : line = Script[M + 1]
  BY <1>1, NetworkAssumption, ElementOfSeq
<1>3. /\ said' \in Seq(Seq({1, 2, 3})) /\ Len(said') = M + 1
      /\ \A k \in 1..M : said'[k] = said[k]
  BY <1>2, AppendProperties DEF NetworkTypeOK, SendLine
<1>4. said \in Seq(Seq({1, 2, 3})) /\ Len(said) <= Len(said') /\ \A i \in 1..Len(said) : said[i] = said'[i]
  <2>1. said \in Seq(Seq({1, 2, 3})) /\ said' \in Seq(Seq({1, 2, 3})) /\ \A i \in 1..Len(said) : said[i] = said'[i]
    BY <1>3 DEF NetworkTypeOK
  <2>2. Len(said) <= Len(said')
    BY <1>1, <1>3
  <2> QED
    BY <2>1, <2>2
<1> QED
  BY <1>3, <1>4, PrefixOf

\* What every other step leaves alone.
LEMMA OthersCarryOn ==
  ASSUME StreamInv, NetworkTypeOK', UNCHANGED <<said, remainder, bytes>>, Spoilt => Spoilt',
         ~Spoilt' => Decoded' = Decoded
  PROVE  StreamInv'
<1>1. ASSUME NEW s, NEW cut, Spoken(s, cut), Carried(s, cut), ~Spoilt'
      PROVE  Spoken(s, cut)' /\ Carried(s, cut)'
  <2>1. UNCHANGED <<said, remainder, bytes, Decoded>>
    BY <1>1
  <2> QED
    BY <1>1, <2>1 DEF Spoken, Carried
<1> QED
  BY <1>1 DEF StreamInv

\* What arrived are the first messages that were sent.
LEMMA ArrivedWereSent == AdapterInv /\ (\E s, cut : Carried(s, cut)) => IsPrefix(arrived, said)
<1> SUFFICES ASSUME AdapterInv, NEW s, NEW cut, Carried(s, cut) PROVE IsPrefix(arrived, said)
  OBVIOUS
<1>1. arrived \in Seq(Text) /\ Pending \in Seq(Text) /\ Decoded \in Seq(Text)
  BY DecodedIsText
<1>2. /\ Len(Decoded) = Len(arrived) + Len(Pending)
      /\ \A k \in 1..Len(arrived) : Decoded[k] = arrived[k]
  BY <1>1, ConcatParts DEF Decoded
<1>3. Len(arrived) \in Nat /\ Len(Pending) \in Nat /\ Len(said) \in Nat
  BY <1>1, LenProperties DEF AdapterInv, NetworkTypeOK
<1>4. Len(Decoded) <= Len(said) /\ \A k \in 1..Len(Decoded) : Decoded[k] = said[k]
  BY DEF Carried
<1>5. Len(arrived) <= Len(said)
  BY <1>2, <1>3, <1>4
<1>6. \A k \in 1..Len(arrived) : arrived[k] = said[k]
  <2>1. \A k \in 1..Len(arrived) : k \in 1..Len(Decoded)
    BY <1>2, <1>3
  <2> QED
    BY <2>1, <1>2, <1>4
<1>7. said \in Seq(Text)
  <2>1. Seq({1, 2, 3}) \subseteq Text
    BY SeqMonotonic DEF Text
  <2> QED
    BY <2>1, SeqMonotonic DEF AdapterInv, NetworkTypeOK
<1> QED
  BY <1>1, <1>5, <1>6, <1>7, PrefixOf

\* A step as the abstract transport sees it.
StreamStep == Transport!Next \/ UNCHANGED <<said, arrived, Spoilt>>

\* A step that spoils the stream, or goes on once it is spoilt.
LEMMA SpoiltStep ==
  ASSUME NetworkTypeOK', Spoilt', said' = said
  PROVE  StreamInv' /\ StreamStep
<1>1. Transport!Spoil
  BY DEF Transport!Spoil
<1> QED
  BY <1>1 DEF StreamStep, Transport!Next, StreamInv

LEMMA StreamSteps ==
  ASSUME AdapterInv, StreamInv, [NetworkNext]_networkVars
  PROVE  StreamInv' /\ StreamStep
<1>1. NetworkTypeOK /\ NetworkTypeOK' /\ AdapterInv'
  BY AdapterStep DEF AdapterInv
<1>11. dropped \in Nat /\ dropped' \in Nat
  BY <1>1 DEF NetworkTypeOK
<1>2. CASE SendLine
  <2>1. UNCHANGED <<arrived, misuse, dropped>> /\ Spoilt' = Spoilt
    BY <1>2 DEF SendLine, Spoilt
  <2>2. Len(said') = Len(said) + 1 /\ IsPrefix(said, said')
    BY <1>1, <1>2, SpeechLengthens
  <2>3. Transport!Send
    BY <2>1, <2>2 DEF Transport!Send, Transport!IsPrefix, IsPrefix
  <2>4. StreamInv'
    BY <1>1, <1>2, <2>1, SpeechGrows DEF StreamInv
  <2> QED
    BY <2>3, <2>4 DEF StreamStep, Transport!Next
<1>3. ASSUME NEW n \in 1..Len(bytes), Receive(n) PROVE StreamInv' /\ StreamStep
  <2>1. UNCHANGED <<said, arrived, dropped>> /\ misuse \subseteq misuse'
    BY <1>3 DEF Receive
  <2>2. CASE Spoilt'
    BY <2>1, <2>2, <1>1, SpoiltStep
  <2>3. CASE ~Spoilt'
    <3>1. ~Spoilt
      BY <2>1, <2>3 DEF Spoilt
    <3>2. PICK s, cut : Spoken(s, cut) /\ Carried(s, cut)
      BY <3>1 DEF StreamInv
    <3>3. (Spoken(s, cut) /\ Carried(s, cut))'
      BY <3>2, <1>3, <2>3, BytesArrive
    <3>4. StreamInv'
      BY <3>3, <1>1 DEF StreamInv
    <3>5. UNCHANGED <<said, arrived, Spoilt>>
      BY <3>1, <2>1, <2>3 DEF Spoilt
    <3> QED
      BY <3>4, <3>5 DEF StreamStep
  <2> QED
    BY <2>2, <2>3
<1>4. ASSUME NEW n \in 1..Len(bytes), ReceiveGarbage(n) PROVE StreamInv' /\ StreamStep
  <2>1. UNCHANGED <<said, misuse>> /\ "gap" \in misuse
    BY <1>4 DEF ReceiveGarbage
  <2>2. Spoilt'
    BY <2>1 DEF Spoilt
  <2> QED
    BY <2>1, <2>2, <1>1, SpoiltStep
<1>5. ASSUME UNCHANGED <<said, arrived, remainder, bytes, dropped, Decoded>>,
             misuse \subseteq misuse', misuse' \subseteq misuse \union {"once", "stranger"}
      PROVE  StreamInv' /\ StreamStep
  <2>1. Spoilt' = Spoilt
    <3>1. misuse' \cap {"split", "gap"} = misuse \cap {"split", "gap"}
      BY <1>5
    <3> QED
      BY <3>1, <1>5 DEF Spoilt
  <2>2. StreamInv'
    BY <1>1, <1>5, <2>1, OthersCarryOn
  <2> QED
    BY <2>1, <2>2, <1>5 DEF StreamStep
<1>6. CASE CallListener \/ NextMessage \/ ListenerReturns \/ ListenerThrows
  <2>1. UNCHANGED <<said, remainder, bytes, misuse>>
    BY <1>6 DEF CallListener, NextMessage, ListenerReturns, ListenerThrows, streamVars
  <2>2. dropped <= dropped'
    <3>1. CASE CallListener \/ ListenerReturns
      BY <3>1, <1>11 DEF CallListener, ListenerReturns
    <3>2. CASE NextMessage
      BY <3>2, <1>11 DEF NextMessage
    <3>3. CASE ListenerThrows
      <4>1. dispatch.todo # <<>> /\ dropped' = dropped + Len(dispatch.todo) - 1
        BY <3>3 DEF ListenerThrows, AdapterInv, Handing, Idle
      <4>2. Len(dispatch.todo) \in Nat /\ Len(dispatch.todo) # 0
        BY <4>1, DispatchFields, EmptySeq
      <4> QED
        BY <4>1, <4>2, <1>11
    <3> QED
      BY <1>6, <3>1, <3>2, <3>3
  <2>3. CASE Spoilt'
    BY <2>1, <2>3, <1>1, SpoiltStep
  <2>4. CASE ~Spoilt'
    <3>1. ~Spoilt
      BY <2>1, <2>2, <2>4, <1>11 DEF Spoilt
    <3>2. /\ Decoded' = Decoded
          /\ \/ arrived' = arrived
             \/ Len(arrived') = Len(arrived) + 1 /\ IsPrefix(arrived, arrived')
      BY <1>1, <1>6, <2>4, HandingOver
    <3>3. StreamInv'
      BY <1>1, <2>1, <3>1, <3>2, OthersCarryOn
    <3>4. CASE arrived' = arrived
      <4>1. Spoilt' = Spoilt
        BY <2>4, <3>1 DEF Spoilt
      <4> QED
        BY <2>1, <3>3, <3>4, <4>1 DEF StreamStep
    <3>5. CASE Len(arrived') = Len(arrived) + 1 /\ IsPrefix(arrived, arrived')
      <4>1. (\E s, cut : Carried(s, cut))'
        BY <3>3, <2>4 DEF StreamInv
      <4>2. IsPrefix(arrived, said)'
        BY <1>1, <4>1, ArrivedWereSent, PTL
      <4>3. Len(arrived') > Len(arrived)
        BY <3>5, DispatchFields
      <4>4. Transport!Deliver
        BY <2>1, <2>4, <3>1, <3>5, <4>2, <4>3 DEF Transport!Deliver, Transport!IsPrefix, IsPrefix
      <4> QED
        BY <3>3, <4>4 DEF StreamStep, Transport!Next
    <3> QED
      BY <3>2, <3>4, <3>5
  <2> QED
    BY <2>3, <2>4
<1>7. CASE \E h \in Handler, once \in BOOLEAN : On(h, once)
  <2>1. UNCHANGED <<said, arrived, remainder, bytes, dropped, dispatch>> /\ misuse \subseteq misuse'
        /\ misuse' \subseteq misuse \union {"once", "stranger"}
    BY <1>7 DEF On
  <2>2. Decoded' = Decoded
    BY <2>1 DEF Decoded, Pending
  <2> QED
    BY <2>1, <2>2, <1>5
<1>8. CASE OffAll \/ \E h \in Handler : Unsubscribe(h) \/ Off(h)
  <2>1. UNCHANGED <<said, arrived, remainder, bytes, dropped>> /\ misuse \subseteq misuse'
        /\ misuse' \subseteq misuse \union {"once", "stranger"}
        /\ dispatch' \in {dispatch, [dispatch EXCEPT !.shrunk = TRUE]}
    BY <1>8 DEF OffAll, Unsubscribe, Off, LeaveWith, streamVars
  <2>2. dispatch'.todo = dispatch.todo /\ dispatch'.at = dispatch.at
    BY <2>1 DEF AdapterInv, Handing
  <2>3. Decoded' = Decoded
    BY <2>1, <2>2 DEF Decoded, Pending
  <2> QED
    BY <2>1, <2>3, <1>5
<1>9. CASE UNCHANGED networkVars
  <2>1. UNCHANGED <<said, arrived, remainder, bytes, misuse, dropped, dispatch>>
    BY <1>9 DEF networkVars
  <2>2. Decoded' = Decoded
    BY <2>1 DEF Decoded, Pending
  <2> QED
    BY <2>1, <2>2, <1>5
<1> QED
  BY <1>2, <1>3, <1>4, <1>6, <1>7, <1>8, <1>9 DEF NetworkNext

\* However the transport cuts the bytes, the adapter hands over the messages the
\* other end sent, each once and in order, until a character is cut in two, bytes
\* come while nobody listens, or a message is dropped by a function that throws or
\* because the last one left: it implements the stream of Stream.tla
\* (long-message-protocol-transformer.ts, shared.socket-protocol-adapter.ts).
THEOREM AdaptersCarryTheStream == NetworkSpec => CarriesTheStream
<1>1. NetworkInit => Transport!Init
  BY DEF NetworkInit, Transport!Init, Spoilt
<1>2. AdapterInv /\ StreamInv /\ [NetworkNext]_networkVars => StreamInv' /\ StreamStep
  BY StreamSteps
<1>3. StreamStep => [Transport!Next]_<<said, arrived, Spoilt>>
  BY DEF StreamStep
<1>4. NetworkSpec => []AdapterInv /\ []StreamInv
  BY <1>2, AdapterInvariant, StreamInit, PTL DEF NetworkSpec
<1> QED
  BY <1>1, <1>2, <1>3, <1>4, PTL DEF NetworkSpec, CarriesTheStream, Transport!Spec

-----------------------------------------------------------------------------
\* The bytes of a number: groups of 7 of its bits, and which is the last.
GroupsOf(w, v, k) ==
  /\ w \in Seq(SUBSET (0..7)) /\ Len(w) = k
  /\ \A j \in 1..k : /\ Low7(w[j]) = Group(v, j)
                     /\ More(w[j]) <=> j < k
                     /\ w[j] = {7} <=> j < k /\ Group(v, j) = {}

\* A part of the bytes, from a place on.
Carries(bs, from, w) == \A j \in 1..Len(w) : bs[from + j - 1] = w[j]

\* The group at which the reader of a number of k groups stops.
StopsAt(bs, from, limit, v, k, m) ==
  /\ VarintEnd(bs, from, limit) = from + m - 1
  /\ m = k <=> \A j \in 1..(k - 1) : Group(v, j) # {}

\* No group but the last one is empty.
Filled(v, k) == \A j \in 1..(k - 1) : Group(v, j) # {}

-----------------------------------------------------------------------------
\* The j-th group has the seven bits from its place on.
LEMMA GroupBits ==
  ASSUME NEW v \in SUBSET Nat, NEW j \in Nat, j > 0
  PROVE  Group(v, j) \in SUBSET (0..6) /\ \A i \in 0..6 : i \in Group(v, j) <=> i + 7 * (j - 1) \in v
<1>1. \A i \in v \cap (7 * (j - 1))..(7 * j - 1) : i - 7 * (j - 1) \in 0..6
  OBVIOUS
<1>2. ASSUME NEW i \in 0..6, i + 7 * (j - 1) \in v PROVE i \in Group(v, j)
  <2>1. i + 7 * (j - 1) \in v \cap (7 * (j - 1))..(7 * j - 1) /\ i = (i + 7 * (j - 1)) - 7 * (j - 1)
    BY <1>2
  <2> QED
    BY <2>1 DEF Group
<1>3. ASSUME NEW i \in Group(v, j) PROVE i + 7 * (j - 1) \in v
  <2>1. PICK x \in v \cap (7 * (j - 1))..(7 * j - 1) : i = x - 7 * (j - 1)
    BY <1>3 DEF Group
  <2>2. i + 7 * (j - 1) = x
    BY <2>1
  <2> QED
    BY <2>2
<1> QED
  BY <1>1, <1>2, <1>3 DEF Group

\* Groups put side by side again are the number, as far as they go.
LEMMA JoinedGroups ==
  ASSUME NEW v \in SUBSET Nat, NEW m \in Nat, NEW bs, DOMAIN bs = 1..m, \A j \in 1..m : Low7(bs[j]) = Group(v, j)
  PROVE  Joined(bs) = v \cap 0..(7 * m - 1)
<1>1. ASSUME NEW x \in Joined(bs) PROVE x \in v \cap 0..(7 * m - 1)
  <2>1. PICK j \in 1..m : \E i \in Low7(bs[j]) : x = i + 7 * (j - 1)
    BY <1>1 DEF Joined
  <2>2. PICK i \in 0..6 : x = i + 7 * (j - 1) /\ i + 7 * (j - 1) \in v
    <3>1. Low7(bs[j]) = Group(v, j) /\ j \in Nat /\ j > 0
      OBVIOUS
    <3> QED
      BY <2>1, <3>1, GroupBits
  <2> QED
    BY <2>2
<1>2. ASSUME NEW x \in v \cap 0..(7 * m - 1) PROVE x \in Joined(bs)
  <2>1. PICK j \in 1..m, i \in 0..6 : x = i + 7 * (j - 1)
    <3>1. x \div 7 + 1 \in 1..m /\ x % 7 \in 0..6 /\ x = (x % 7) + 7 * ((x \div 7 + 1) - 1)
      OBVIOUS
    <3> QED
      BY <3>1
  <2>2. i \in Low7(bs[j])
    <3>1. Low7(bs[j]) = Group(v, j) /\ j \in Nat /\ j > 0
      OBVIOUS
    <3> QED
      BY <2>1, <3>1, GroupBits
  <2> QED
    BY <2>1, <2>2 DEF Joined
<1> QED
  BY <1>1, <1>2

\* A sequence of bytes stands in itself.
LEMMA CarriesItself ==
  ASSUME NEW S, NEW w \in Seq(S)
  PROVE  Carries(w, 1, w)
<1>1. Len(w) \in Nat /\ \A j \in 1..Len(w) : 1 + j - 1 = j
  OBVIOUS
<1> QED
  BY <1>1 DEF Carries

\* What the codecs write is the groups of the number.
LEMMA GroupsAre ==
  ASSUME NEW v \in SUBSET Nat, NEW k \in Nat
  PROVE  GroupsOf(Groups(v, k), v, k)
<1> DEFINE w == Groups(v, k)
<1>1. \A j \in 1..k : Group(v, j) \in SUBSET (0..6)
  BY GroupBits
<1>2. \A j \in 1..k : w[j] = Group(v, j) \union IF j < k THEN {7} ELSE {}
  BY DEF Groups
<1>3. w \in Seq(SUBSET (0..7)) /\ Len(w) = k
  BY <1>1 DEF Groups
<1> HIDE DEF w
<1>4. ASSUME NEW j \in 1..k
      PROVE  /\ Low7(w[j]) = Group(v, j)
             /\ More(w[j]) <=> j < k
             /\ w[j] = {7} <=> j < k /\ Group(v, j) = {}
  <2>1. Group(v, j) \in SUBSET (0..6) /\ 7 \notin Group(v, j)
    BY <1>1
  <2>2. CASE j < k
    <3>1. w[j] = Group(v, j) \union {7}
      BY <1>2, <2>2
    <3> QED
      BY <2>1, <2>2, <3>1 DEF Low7, More
  <2>3. CASE ~(j < k)
    <3>1. w[j] = Group(v, j)
      BY <1>2, <2>3
    <3> QED
      BY <2>1, <2>3, <3>1 DEF Low7, More
  <2> QED
    BY <2>2, <2>3
<1> QED
  BY <1>3, <1>4 DEF GroupsOf, w

\* The first byte that ends a number is the least place of one.
LEMMA LeastIs ==
  ASSUME NEW S \in SUBSET Int, NEW e \in S, \A x \in S : e <= x
  PROVE  Min(S) = e
<1>1. \A m \in S : (\A y \in S : m =< y) => m = e
  OBVIOUS
<1> QED
  BY <1>1 DEF Min

\* A varint ends at its first empty group, or else at its last.
LEMMA NumberEndsAt ==
  ASSUME NEW bs, NEW from \in Nat, NEW limit \in Nat, NEW e \in from..limit,
         ~More(bs[e]) \/ bs[e] = {7}, \A j \in from..(e - 1) : More(bs[j]) /\ bs[j] # {7}
  PROVE  VarintEnd(bs, from, limit) = e
<1> DEFINE ends == {j \in from..limit : ~More(bs[j]) \/ bs[j] = {7}}
<1>1. ends \in SUBSET Int /\ e \in ends /\ ends # {}
  OBVIOUS
<1>2. \A x \in ends : e <= x
  OBVIOUS
<1>3. VarintEnd(bs, from, limit) = Min(ends)
  BY <1>1 DEF VarintEnd, LastByte
<1> HIDE DEF ends
<1> QED
  BY <1>1, <1>2, <1>3, LeastIs

\* A LEB128 ends at its last group.
LEMMA UnsignedEndsAt ==
  ASSUME NEW bs, NEW from \in Nat, NEW limit \in Nat, NEW e \in from..limit,
         ~More(bs[e]), \A j \in from..(e - 1) : More(bs[j])
  PROVE  UnsignedEnd(bs, from, limit) = e
<1> DEFINE ends == {j \in from..limit : ~More(bs[j])}
<1>1. ends \in SUBSET Int /\ e \in ends /\ ends # {}
  OBVIOUS
<1>2. \A x \in ends : e <= x
  OBVIOUS
<1>3. UnsignedEnd(bs, from, limit) = Min(ends)
  BY <1>1 DEF UnsignedEnd, LastByte
<1> HIDE DEF ends
<1> QED
  BY <1>1, <1>2, <1>3, LeastIs

\* A number ends where its bytes do, or before, at a group that is empty; and the
\* bits of those groups are read.
LEMMA VarintStops ==
  ASSUME NEW v \in SUBSET Nat, NEW k \in Nat, k > 0, NEW bs, NEW from \in Nat, from > 0, NEW limit \in Nat,
         from + k - 1 <= limit, Carries(bs, from, Groups(v, k))
  PROVE  \E m \in 1..k : StopsAt(bs, from, limit, v, k, m)
<1> DEFINE w == Groups(v, k)
           S == {j \in 1..k : ~More(w[j]) \/ w[j] = {7}}
<1>1. GroupsOf(w, v, k)
  BY GroupsAre
<1>2. \A j \in 1..k : bs[from + j - 1] = w[j]
  BY <1>1 DEF Carries, GroupsOf
<1> HIDE DEF w
<1>3. k \in S
  BY <1>1 DEF GroupsOf
<1>4. PICK m \in S : \A x \in S : m <= x
  <2>1. S \subseteq Nat /\ S # {}
    BY <1>3
  <2> QED
    BY <2>1, LeastElement
<1>5. m \in 1..k /\ (~More(w[m]) \/ w[m] = {7}) /\ \A j \in 1..(m - 1) : More(w[j]) /\ w[j] # {7}
  BY <1>4
<1>6. VarintEnd(bs, from, limit) = from + m - 1
  <2> DEFINE e == from + m - 1
  <2>1. e \in from..limit /\ bs[e] = w[m]
    BY <1>2, <1>5
  <2>2. ASSUME NEW j \in from..(e - 1) PROVE More(bs[j]) /\ bs[j] # {7}
    <3>1. j - from + 1 \in 1..(m - 1) /\ j - from + 1 \in 1..k /\ from + (j - from + 1) - 1 = j
      BY <1>5
    <3> QED
      BY <1>2, <1>5, <3>1
  <2> HIDE DEF e
  <2>3. VarintEnd(bs, from, limit) = e
    BY <1>5, <2>1, <2>2, NumberEndsAt
  <2> QED
    BY <2>3 DEF e
<1>7. ASSUME NEW j \in 1..(k - 1), Group(v, j) = {} PROVE m <= j
  <2>1. j \in 1..k /\ j < k
    OBVIOUS
  <2>2. w[j] = {7}
    BY <1>1, <1>7, <2>1 DEF GroupsOf
  <2> QED
    BY <1>4, <2>1, <2>2
<1>8. m = k <=> Filled(v, k)
  <2>1. ASSUME Filled(v, k) PROVE m = k
    <3>1. CASE m < k
      <4>1. m \in 1..(k - 1) /\ Group(v, m) # {} /\ More(w[m]) /\ ~(w[m] = {7})
        BY <1>1, <1>5, <2>1, <3>1 DEF GroupsOf, Filled
      <4> QED
        BY <1>5, <4>1
    <3> QED
      BY <1>5, <3>1
  <2>2. ASSUME m = k PROVE Filled(v, k)
    <3>1. ASSUME NEW j \in 1..(k - 1) PROVE Group(v, j) # {}
      BY <1>5, <1>7, <2>2
    <3> QED
      BY <3>1 DEF Filled
  <2> QED
    BY <2>1, <2>2
<1> QED
  BY <1>5, <1>6, <1>8 DEF StopsAt, Filled

\* The part of a sequence from a place on, of so many elements.
LEMMA PartHere ==
  ASSUME NEW S, NEW bs \in Seq(S), NEW from \in Nat, from > 0, NEW m \in Nat, from + m - 1 <= Len(bs)
  PROVE  /\ DOMAIN SubSeq(bs, from, from + m - 1) = 1..m
         /\ \A j \in 1..m : SubSeq(bs, from, from + m - 1)[j] = bs[from + j - 1]
<1> DEFINE a == from - 1
           b == from + m - 1
<1>1. a \in Nat /\ b \in Nat /\ a <= b /\ b <= Len(bs) /\ b - a = m /\ from = a + 1 /\ \A j \in Nat : a + j = from + j - 1
  OBVIOUS
<1> DEFINE part == SubSeq(bs, a + 1, b)
<1> HIDE DEF a, b
<1>2. part \in Seq(S) /\ Len(part) = b - a /\ \A j \in 1..(b - a) : part[j] = bs[a + j]
  BY <1>1, PartOf
<1>3. part = SubSeq(bs, from, from + m - 1)
  BY <1>1 DEF b
<1> HIDE DEF part
<1>4. Len(part) = m /\ \A j \in 1..m : part[j] = bs[a + j]
  BY <1>1, <1>2
<1>5. DOMAIN part = 1..m
  BY <1>2, <1>4
<1>6. ASSUME NEW j \in 1..m PROVE part[j] = bs[from + j - 1]
  <2>1. part[j] = bs[a + j]
    BY <1>4
  <2>2. a + j = from + j - 1
    BY <1>1
  <2> QED
    BY <2>1, <2>2
<1> QED
  BY <1>3, <1>5, <1>6

ReadsBits(bs, from, v, m) == ReadTo(bs, from, from + m - 1) = v \cap 0..(7 * m - 1)

\* The bits of a number that are in the groups read.
LEMMA ReadBits ==
  ASSUME NEW v \in SUBSET Nat, NEW k \in 1..4, NEW bs \in Seq(SUBSET (0..7)), NEW from \in Nat, from > 0,
         from + k - 1 <= Len(bs), Carries(bs, from, Groups(v, k)), NEW m \in 1..k
  PROVE  ReadsBits(bs, from, v, m)
<1> DEFINE last == from + m - 1
           part == SubSeq(bs, from, last)
<1>1. last # 0 /\ ~(last > from + 3)
  OBVIOUS
<1>2. DOMAIN part = 1..m /\ m \in Nat /\ \A j \in 1..m : part[j] = bs[from + j - 1]
  <2> DEFINE S == SUBSET (0..7)
  <2>1. bs \in Seq(S) /\ from + m - 1 <= Len(bs) /\ m \in Nat
    OBVIOUS
  <2> HIDE DEF S
  <2> QED
    BY <2>1, PartHere
<1>3. ASSUME NEW j \in 1..m PROVE Low7(part[j]) = Group(v, j)
  <2>1. GroupsOf(Groups(v, k), v, k) /\ j \in 1..k
    BY GroupsAre
  <2>2. part[j] = Groups(v, k)[j]
    BY <1>2, <2>1 DEF Carries, GroupsOf
  <2> HIDE DEF part
  <2> QED
    BY <2>1, <2>2 DEF GroupsOf
<1> HIDE DEF part
<1>4. Joined(part) = v \cap 0..(7 * m - 1)
  BY <1>2, <1>3, JoinedGroups
<1> QED
  BY <1>1, <1>4 DEF ReadTo, ReadsBits, part

\* How many bytes a number is written in.
LEMMA LengthOfVarint ==
  ASSUME NEW v, Fits(v, 31)
  PROVE  /\ v \in SUBSET Nat /\ VarintLength(v) \in 1..4
         /\ VarintLength(v) > 1 => \E i \in v : i >= 7 * (VarintLength(v) - 1)
<1>1. v \in SUBSET Nat /\ \A i \in v : i \in 0..30
  BY DEF Fits
<1>2. CASE Fits(v, 7)
  BY <1>1, <1>2 DEF VarintLength
<1>3. CASE ~Fits(v, 7) /\ Fits(v, 15)
  <2>1. VarintLength(v) = 2
    BY <1>3 DEF VarintLength
  <2>2. \E i \in v : i >= 7
    BY <1>1, <1>3 DEF Fits
  <2> QED
    BY <1>1, <2>1, <2>2
<1>4. CASE ~Fits(v, 7) /\ ~Fits(v, 15) /\ Fits(v, 23)
  <2>1. VarintLength(v) = 3
    BY <1>4 DEF VarintLength
  <2>2. \E i \in v : i >= 15
    BY <1>1, <1>4 DEF Fits
  <2> QED
    BY <1>1, <2>1, <2>2
<1>5. CASE ~Fits(v, 7) /\ ~Fits(v, 15) /\ ~Fits(v, 23)
  <2>1. VarintLength(v) = 4
    BY <1>5 DEF VarintLength
  <2>2. \E i \in v : i >= 23
    BY <1>1, <1>5 DEF Fits
  <2> QED
    BY <1>1, <2>1, <2>2
<1> QED
  BY <1>2, <1>3, <1>4, <1>5

\* Four groups at most.
LEMMA LengthOfUnsigned ==
  ASSUME NEW v, AtMost(v, 32)
  PROVE  v \in SUBSET Nat /\ UnsignedLength(v) \in 1..4
<1>1. v \in SUBSET Nat
  BY DEF AtMost, Fits
<1>2. UnsignedLength(v) \in {1, 2, 3, 4}
  BY DEF UnsignedLength
<1> QED
  BY <1>1, <1>2

\* Five groups at most.
LEMMA LengthOfSigned ==
  ASSUME NEW v, Fits(v, 64)
  PROVE  v \in SUBSET Nat /\ SignedLength(v) \in 1..5
BY DEF SignedLength, Fits

\* What Representable says of a varint, by its groups.
LEMMA KeptByVarint ==
  ASSUME NEW v
  PROVE  Representable("varint", v) <=> RoomFor(v, VarintLength(v)) /\ Filled(v, VarintLength(v))
BY DEF Representable, Filled

\* The bytes of a varint are read as the number, from any place, if it was kept.
LEMMA VarintAt ==
  ASSUME NEW v, Fits(v, 31), Representable("varint", v),
         NEW bs \in Seq(SUBSET (0..7)), NEW from \in Nat, from > 0, NEW limit \in Nat, limit <= Len(bs),
         from + VarintLength(v) - 1 <= limit, Carries(bs, from, WriteVarint(v))
  PROVE  /\ VarintEnd(bs, from, limit) = from + VarintLength(v) - 1
         /\ ReadTo(bs, from, VarintEnd(bs, from, limit)) = v
<1> DEFINE k == VarintLength(v)
<1>1. v \in SUBSET Nat /\ k \in 1..4
  BY LengthOfVarint
<1>2. RoomFor(v, k) /\ Filled(v, k)
  BY KeptByVarint
<1>3. Carries(bs, from, Groups(v, k))
  BY DEF WriteVarint
<1>4. from + k - 1 <= limit
  OBVIOUS
<1> HIDE DEF k
<1>5. k \in Nat /\ k > 0 /\ k \in 1..k /\ Len(bs) \in Nat /\ from + k - 1 <= Len(bs)
  BY <1>1, <1>4
<1>6. VarintEnd(bs, from, limit) = from + k - 1
  <2>1. PICK m \in 1..k : StopsAt(bs, from, limit, v, k, m)
    BY <1>1, <1>3, <1>4, <1>5, VarintStops
  <2> QED
    BY <1>2, <2>1 DEF StopsAt, Filled
<1>7. ReadTo(bs, from, from + k - 1) = v \cap 0..(7 * k - 1)
  <2>1. ReadsBits(bs, from, v, k)
    BY <1>1, <1>3, <1>5, ReadBits
  <2> QED
    BY <2>1 DEF ReadsBits
<1> QED
  BY <1>2, <1>6, <1>7 DEF RoomFor, Fits, k

\* And one that was not is not read.
LEMMA VarintReads ==
  ASSUME NEW v, Fits(v, 31)
  PROVE  /\ ReadTo(WriteVarint(v), 1, VarintEnd(WriteVarint(v), 1, Len(WriteVarint(v)))) = v <=> Representable("varint", v)
         /\ VarintEnd(WriteVarint(v), 1, Len(WriteVarint(v))) \in 1..Len(WriteVarint(v))
         /\ Representable("varint", v) => VarintEnd(WriteVarint(v), 1, Len(WriteVarint(v))) = Len(WriteVarint(v))
<1> DEFINE k == VarintLength(v)
           w == WriteVarint(v)
<1>1. v \in SUBSET Nat /\ k \in 1..4 /\ (k > 1 => \E i \in v : i >= 7 * (k - 1))
  BY LengthOfVarint
<1>2. Representable("varint", v) <=> RoomFor(v, k) /\ Filled(v, k)
  BY KeptByVarint
<1>3. w = Groups(v, k)
  BY DEF WriteVarint
<1> HIDE DEF k, w
<1>4. GroupsOf(w, v, k)
  BY <1>1, <1>3, GroupsAre
<1>5. w \in Seq(SUBSET (0..7)) /\ Len(w) = k /\ Carries(w, 1, Groups(v, k))
  <2>1. Carries(w, 1, w)
    BY <1>1, <1>4, CarriesItself DEF GroupsOf
  <2> QED
    BY <1>3, <1>4, <2>1 DEF GroupsOf
<1>6. PICK m \in 1..k : StopsAt(w, 1, k, v, k, m)
  <2>1. k \in Nat /\ k > 0 /\ 1 + k - 1 <= k
    BY <1>1
  <2> QED
    BY <1>1, <1>5, <2>1, VarintStops
<1>7. VarintEnd(w, 1, Len(w)) = m /\ (m = k <=> Filled(v, k))
  <2>1. VarintEnd(w, 1, k) = 1 + m - 1 /\ (m = k <=> Filled(v, k))
    BY <1>6 DEF StopsAt, Filled
  <2> QED
    BY <1>1, <1>5, <2>1
<1>8. ReadTo(w, 1, m) = v \cap 0..(7 * m - 1)
  <2>1. 1 + k - 1 <= Len(w) /\ 1 + m - 1 = m
    BY <1>1, <1>5, <1>6
  <2>2. ReadsBits(w, 1, v, m)
    BY <1>1, <1>5, <1>6, <2>1, ReadBits
  <2> QED
    BY <2>1, <2>2 DEF ReadsBits
<1>9. v \cap 0..(7 * m - 1) = v <=> RoomFor(v, k) /\ Filled(v, k)
  <2>1. CASE m = k
    BY <1>7, <2>1 DEF RoomFor, Fits
  <2>2. CASE m # k
    <3>1. PICK i \in v : i >= 7 * (k - 1)
      BY <1>1, <1>6, <2>2
    <3>2. i \in Nat /\ 7 * m <= 7 * (k - 1)
      BY <1>1, <1>6, <2>2
    <3>3. i \notin 0..(7 * m - 1)
      BY <1>1, <1>6, <3>1, <3>2
    <3> QED
      BY <1>7, <2>2, <3>1, <3>3
  <2> QED
    BY <2>1, <2>2
<1>10. ReadTo(w, 1, VarintEnd(w, 1, Len(w))) = v <=> Representable("varint", v)
  BY <1>2, <1>7, <1>8, <1>9
<1>11. VarintEnd(w, 1, Len(w)) \in 1..Len(w) /\ (Representable("varint", v) => VarintEnd(w, 1, Len(w)) = Len(w))
  BY <1>2, <1>5, <1>6, <1>7
<1> QED
  BY <1>10, <1>11 DEF w

\* However many bytes it has, a number ends at the last of them.
EndsLast(w, v, k) ==
  /\ UnsignedEnd(w, 1, Len(w)) = k
  /\ VarintEnd(w, 1, Len(w)) \in 1..k
  /\ Len(w) = k /\ w # <<>>
  /\ Joined(w) = v \cap 0..(7 * k - 1)

\* Where the written bytes of a number end.
LEMMA LastOfGroups ==
  ASSUME NEW v \in SUBSET Nat, NEW k \in Nat, k > 0
  PROVE  EndsLast(Groups(v, k), v, k)
<1> DEFINE w == Groups(v, k)
<1>1. GroupsOf(w, v, k)
  BY GroupsAre
<1>2. PICK m \in 1..k : StopsAt(w, 1, k, v, k, m)
  <2>1. Carries(w, 1, Groups(v, k))
    BY <1>1, CarriesItself DEF GroupsOf
  <2>2. 1 + k - 1 <= k
    OBVIOUS
  <2> HIDE DEF w
  <2> QED
    BY <2>1, <2>2, VarintStops
<1> HIDE DEF w
<1>3. UnsignedEnd(w, 1, k) = k
  <2>1. ~More(w[k]) /\ \A j \in 1..(k - 1) : More(w[j])
    BY <1>1 DEF GroupsOf
  <2>2. k \in 1..k
    OBVIOUS
  <2> QED
    BY <2>1, <2>2, UnsignedEndsAt
<1>4. VarintEnd(w, 1, k) \in 1..k
  BY <1>2 DEF StopsAt
<1>5. Len(w) = k /\ w # <<>> /\ DOMAIN w = 1..k
  BY <1>1 DEF GroupsOf
<1>6. Joined(w) = v \cap 0..(7 * k - 1)
  BY <1>1, <1>5, JoinedGroups DEF GroupsOf
<1> QED
  BY <1>3, <1>4, <1>5, <1>6 DEF w, EndsLast

\* A LEB128 is read as it was written if and only if it was kept.
LEMMA UnsignedReads ==
  ASSUME NEW v, AtMost(v, 32)
  PROVE  ReadTo(WriteUnsigned(v), 1, UnsignedEnd(WriteUnsigned(v), 1, Len(WriteUnsigned(v)))) = v <=> Representable("unsignedLEB128", v)
<1> DEFINE k == UnsignedLength(v)
           w == WriteUnsigned(v)
<1>1. v \in SUBSET Nat /\ k \in 1..4
  BY LengthOfUnsigned
<1>2. Representable("unsignedLEB128", v) <=> RoomFor(v, k)
  BY DEF Representable
<1>3. w = Groups(v, k)
  BY DEF WriteUnsigned
<1> HIDE DEF k, w
<1>4. GroupsOf(w, v, k) /\ k \in Nat /\ k > 0
  BY <1>1, <1>3, GroupsAre
<1>5. UnsignedEnd(w, 1, Len(w)) = k
  BY <1>1, <1>3, <1>4, LastOfGroups DEF EndsLast
<1>6. ReadTo(w, 1, k) = v \cap 0..(7 * k - 1)
  <2>1. w \in Seq(SUBSET (0..7)) /\ Len(w) = k /\ Carries(w, 1, Groups(v, k))
    <3>1. Carries(w, 1, w)
      BY <1>4, CarriesItself DEF GroupsOf
    <3> QED
      BY <1>3, <1>4, <3>1 DEF GroupsOf
  <2>2. 1 + k - 1 = k /\ k <= Len(w) /\ k \in 1..k
    BY <1>1, <2>1
  <2>3. ReadsBits(w, 1, v, k)
    BY <1>1, <2>1, <2>2, ReadBits
  <2> QED
    BY <2>2, <2>3 DEF ReadsBits
<1>7. v \cap 0..(7 * k - 1) = v <=> RoomFor(v, k)
  BY DEF RoomFor, Fits
<1> QED
  BY <1>2, <1>5, <1>6, <1>7 DEF w

\* A signed LEB128 is read as it was written if and only if it was kept.
LEMMA SignedReads ==
  ASSUME NEW v, Fits(v, 64)
  PROVE  Signed(WriteSigned(v)) = v <=> Representable("signedLEB128", v)
<1> DEFINE k == SignedLength(v)
           w == WriteSigned(v)
           last == 7 * k - 1
           bits == v \cap 0..last
<1>1. v \in SUBSET Nat /\ k \in 1..5 /\ v \subseteq 0..63
  <2>1. v \subseteq 0..63
    BY DEF Fits
  <2> QED
    BY <2>1, LengthOfSigned
<1>2. Representable("signedLEB128", v) <=> IF 63 \in v THEN last..63 \subseteq v ELSE v \subseteq 0..(last - 1)
  BY DEF Representable, Fits
<1>3. w = Groups(v, k)
  BY DEF WriteSigned
<1>4. Joined(w) = bits /\ Len(w) = k
  <2>1. k \in Nat /\ k > 0
    BY <1>1
  <2> HIDE DEF k, w
  <2>2. Joined(Groups(v, k)) = v \cap 0..(7 * k - 1) /\ Len(Groups(v, k)) = k
    BY <1>1, <2>1, LastOfGroups DEF EndsLast
  <2> QED
    BY <1>3, <2>2
<1>5. Signed(w) = IF last \in bits THEN bits \union last..63 ELSE bits
  BY <1>4 DEF Signed
<1> HIDE DEF k, w
<1>6. last \in 6..34
  BY <1>1
<1> HIDE DEF last
<1>7. CASE last \in bits
  <2>1. 63 \in last..63 /\ 63 \in Signed(w)
    BY <1>5, <1>6, <1>7
  <2>2. last..63 \subseteq v => bits \union last..63 = v
    <3>1. \A i \in v : i \in 0..last \/ i \in last..63
      BY <1>1, <1>6
    <3> QED
      BY <3>1
  <2>3. last \in v /\ ~(v \subseteq 0..(last - 1))
    BY <1>6, <1>7
  <2> QED
    BY <1>2, <1>5, <1>7, <2>1, <2>2, <2>3 DEF w
<1>8. CASE last \notin bits
  <2>1. last \notin v
    BY <1>6, <1>8
  <2>2. last \in last..63
    BY <1>6
  <2>3. bits = v <=> v \subseteq 0..(last - 1)
    <3>1. \A i \in v : i \in 0..last <=> i \in 0..(last - 1)
      BY <1>1, <1>6, <2>1
    <3> QED
      BY <3>1
  <2>4. 63 \notin bits
    BY <1>6
  <2> QED
    BY <1>2, <1>5, <1>8, <2>1, <2>2, <2>3, <2>4 DEF w
<1> QED
  BY <1>7, <1>8

-----------------------------------------------------------------------------
\* Where a number stands: not written, written, or read.
NumberInv ==
  /\ codec \in {"varint", "unsignedLEB128", "signedLEB128"} /\ Accepts(codec, number)
  /\ encoded = <<>> \/ encoded = (CASE codec = "varint" -> WriteVarint(number)
                              [] codec = "unsignedLEB128" -> WriteUnsigned(number)
                              [] codec = "signedLEB128" -> WriteSigned(number))
  /\ answer = <<>> \/ (encoded # <<>> /\
       answer = <<CASE codec = "varint" -> ReadTo(encoded, 1, VarintEnd(encoded, 1, Len(encoded)))
                    [] codec = "unsignedLEB128" -> ReadTo(encoded, 1, UnsignedEnd(encoded, 1, Len(encoded)))
                    [] codec = "signedLEB128" -> Signed(encoded)>>)

\* What was written and read of a number has the promised properties.
LEMMA NumberIsRead == NumberInv => NumberReadsBack /\ OneNumber
<1> SUFFICES ASSUME NumberInv PROVE NumberReadsBack /\ OneNumber
  OBVIOUS
<1>1. CASE codec = "varint"
  <2>1. Fits(number, 31) /\ (encoded = <<>> \/ encoded = WriteVarint(number))
        /\ (answer = <<>> \/ (encoded # <<>> /\ answer = <<ReadTo(encoded, 1, VarintEnd(encoded, 1, Len(encoded)))>>))
    BY <1>1 DEF NumberInv, Accepts
  <2>2. NumberReadsBack
    BY <1>1, <2>1, VarintReads DEF NumberReadsBack
  <2>3. number \in SUBSET Nat /\ VarintLength(number) \in Nat /\ VarintLength(number) > 0
    BY <2>1, LengthOfVarint
  <2>4. encoded # <<>> => UnsignedEnd(encoded, 1, Len(encoded)) = Len(encoded)
    BY <2>1, <2>3, LastOfGroups DEF EndsLast, WriteVarint
  <2> QED
    BY <1>1, <2>1, <2>2, <2>4, VarintReads DEF OneNumber
<1>2. CASE codec = "unsignedLEB128"
  <2>1. AtMost(number, 32) /\ (encoded = <<>> \/ encoded = WriteUnsigned(number))
        /\ (answer = <<>> \/ (encoded # <<>> /\ answer = <<ReadTo(encoded, 1, UnsignedEnd(encoded, 1, Len(encoded)))>>))
    BY <1>2 DEF NumberInv, Accepts
  <2>2. NumberReadsBack
    BY <1>2, <2>1, UnsignedReads DEF NumberReadsBack
  <2>3. number \in SUBSET Nat /\ UnsignedLength(number) \in Nat /\ UnsignedLength(number) > 0
    BY <2>1, LengthOfUnsigned
  <2>4. encoded # <<>> => UnsignedEnd(encoded, 1, Len(encoded)) = Len(encoded) /\ VarintEnd(encoded, 1, Len(encoded)) \in 1..Len(encoded)
    <3>1. EndsLast(WriteUnsigned(number), number, UnsignedLength(number))
      BY <2>3, LastOfGroups DEF WriteUnsigned
    <3> QED
      BY <2>1, <3>1 DEF EndsLast
  <2> QED
    BY <1>2, <2>2, <2>4 DEF OneNumber
<1>3. CASE codec = "signedLEB128"
  <2>1. Fits(number, 64) /\ (encoded = <<>> \/ encoded = WriteSigned(number))
        /\ (answer = <<>> \/ (encoded # <<>> /\ answer = <<Signed(encoded)>>))
    BY <1>3 DEF NumberInv, Accepts
  <2>2. NumberReadsBack
    BY <1>3, <2>1, SignedReads DEF NumberReadsBack
  <2>3. number \in SUBSET Nat /\ SignedLength(number) \in Nat /\ SignedLength(number) > 0
    BY <2>1, LengthOfSigned
  <2>4. encoded # <<>> => UnsignedEnd(encoded, 1, Len(encoded)) = Len(encoded) /\ VarintEnd(encoded, 1, Len(encoded)) \in 1..Len(encoded)
    <3>1. EndsLast(WriteSigned(number), number, SignedLength(number))
      BY <2>3, LastOfGroups DEF WriteSigned
    <3> QED
      BY <2>1, <3>1 DEF EndsLast
  <2> QED
    BY <1>3, <2>2, <2>4 DEF OneNumber
<1> QED
  BY <1>1, <1>2, <1>3 DEF NumberInv

\* Nothing is written, nothing is read.
LEMMA NumbersStart == VarintInit => NumberInv
BY SamplesAssumption DEF VarintInit, NumberInv

\* A number is written, then read.
LEMMA NumberStep == NumberInv /\ [VarintNext]_varintVars => NumberInv'
<1> SUFFICES ASSUME NumberInv, [VarintNext]_varintVars PROVE NumberInv'
  OBVIOUS
<1>1. CASE WriteNumber
  BY <1>1 DEF WriteNumber, NumberInv
<1>2. CASE ReadNumber
  BY <1>2 DEF ReadNumber, NumberInv
<1>3. CASE UNCHANGED varintVars
  BY <1>3 DEF varintVars, NumberInv
<1> QED
  BY <1>1, <1>2, <1>3 DEF VarintNext

-----------------------------------------------------------------------------
\* The bits of a number: what halving it i times leaves is odd.
Halves(n, i, h) == h \in [0..i -> Nat] /\ h[0] = n /\ \A j \in 1..i : h[j] = h[j - 1] \div 2
Odd(n, i) == \E h \in [0..i -> Nat] : Halves(n, i, h) /\ h[i] % 2 = 1

\* The first bit of a number: whether it is odd.
LEMMA OddFirst == ASSUME NEW n \in Nat PROVE Odd(n, 0) <=> n % 2 = 1
<1>1. [j \in 0..0 |-> n] \in [0..0 -> Nat] /\ [j \in 0..0 |-> n][0] = n
  OBVIOUS
<1>2. Halves(n, 0, [j \in 0..0 |-> n])
  BY <1>1 DEF Halves
<1> QED
  BY <1>1, <1>2 DEF Odd, Halves

\* The next bits are those of its half.
LEMMA OddNext == ASSUME NEW n \in Nat, NEW i \in Nat PROVE Odd(n, i + 1) <=> Odd(n \div 2, i)
<1>1. ASSUME Odd(n, i + 1) PROVE Odd(n \div 2, i)
  <2>1. PICK h \in [0..(i + 1) -> Nat] : Halves(n, i + 1, h) /\ h[i + 1] % 2 = 1
    BY <1>1 DEF Odd
  <2> DEFINE g == [j \in 0..i |-> h[j + 1]]
  <2>2. \A j \in 0..i : j + 1 \in 0..(i + 1) /\ j + 1 \in 1..(i + 1) /\ (j + 1) - 1 = j
    OBVIOUS
  <2>3. g \in [0..i -> Nat] /\ \A j \in 0..i : g[j] = h[j + 1]
    BY <2>2
  <2> HIDE DEF g
  <2>4. g[0] = n \div 2
    <3>1. 0 \in 0..i /\ 0 + 1 = 1 /\ 1 \in 1..(i + 1) /\ 1 - 1 = 0
      OBVIOUS
    <3>2. g[0] = h[1] /\ h[1] = h[0] \div 2 /\ h[0] = n
      BY <2>1, <2>3, <3>1 DEF Halves
    <3> QED
      BY <3>2
  <2>5. ASSUME NEW j \in 1..i PROVE g[j] = g[j - 1] \div 2
    <3>1. j \in 0..i /\ j - 1 \in 0..i /\ (j - 1) + 1 = j /\ j + 1 \in 1..(i + 1) /\ (j + 1) - 1 = j
      OBVIOUS
    <3>2. h[j + 1] = h[j] \div 2
      BY <2>1, <3>1 DEF Halves
    <3> QED
      BY <2>3, <3>1, <3>2
  <2>6. g[i] % 2 = 1
    BY <2>1, <2>3
  <2>7. Halves(n \div 2, i, g)
    BY <2>3, <2>4, <2>5 DEF Halves
  <2> QED
    BY <2>3, <2>6, <2>7 DEF Odd
<1>2. ASSUME Odd(n \div 2, i) PROVE Odd(n, i + 1)
  <2>1. PICK g \in [0..i -> Nat] : Halves(n \div 2, i, g) /\ g[i] % 2 = 1
    BY <1>2 DEF Odd
  <2> DEFINE h == [j \in 0..(i + 1) |-> IF j = 0 THEN n ELSE g[j - 1]]
  <2>2. \A j \in 0..(i + 1) : j # 0 => j - 1 \in 0..i
    OBVIOUS
  <2>3. h \in [0..(i + 1) -> Nat] /\ h[0] = n /\ \A j \in 1..(i + 1) : h[j] = g[j - 1]
    BY <2>2
  <2> HIDE DEF h
  <2>4. ASSUME NEW j \in 1..(i + 1) PROVE h[j] = h[j - 1] \div 2
    <3>1. CASE j = 1
      <4>1. h[1] = g[1 - 1] /\ g[0] = n \div 2 /\ h[0] = n
        BY <2>1, <2>3, <3>1 DEF Halves
      <4>2. 1 - 1 = 0
        OBVIOUS
      <4> QED
        BY <3>1, <4>1, <4>2
    <3>2. CASE j # 1
      <4>1. j - 1 \in 1..i /\ j - 1 \in 1..(i + 1)
        BY <3>2
      <4>2. g[j - 1] = g[(j - 1) - 1] \div 2
        BY <2>1, <4>1 DEF Halves
      <4> QED
        BY <2>3, <4>1, <4>2
    <3> QED
      BY <3>1, <3>2
  <2>5. h[i + 1] % 2 = 1
    BY <2>1, <2>3
  <2>6. Halves(n, i + 1, h)
    BY <2>3, <2>4 DEF Halves
  <2> QED
    BY <2>3, <2>5, <2>6 DEF Odd
<1> QED
  BY <1>1, <1>2

\* Zero has no bits.
LEMMA ZeroIsEven == \A i \in Nat : ~Odd(0, i)
<1> SUFFICES ASSUME NEW N \in Nat PROVE ~Odd(0, N)
  OBVIOUS
<1> DEFINE P == {i \in Nat : ~Odd(0, i)}
<1>1. 0 \in P
  <2>1. ~(0 % 2 = 1)
    OBVIOUS
  <2> QED
    BY <2>1, OddFirst
<1>2. ASSUME NEW i \in 1..N, i - 1 \in P PROVE i \in P
  <2>1. i - 1 \in Nat /\ (i - 1) + 1 = i /\ i \in Nat /\ 0 \div 2 = 0
    OBVIOUS
  <2>2. Odd(0, (i - 1) + 1) <=> Odd(0 \div 2, i - 1)
    BY <2>1, OddNext
  <2> QED
    BY <1>2, <2>1, <2>2
<1> HIDE DEF P
<1>3. \A i \in 0..N : i \in P
  <2>1. \A i \in 1..N : i - 1 \in P => i \in P
    BY <1>2
  <2> QED
    BY <1>1, <2>1, StepByStep
<1> QED
  BY <1>3 DEF P

\* So the recursive definition has a solution.
Bits == [n \in Nat |-> {i \in Nat : Odd(n, i)}]

\* The bits of a number from those of its half.
LEMMA BitsStep ==
  ASSUME NEW n \in Nat
  PROVE  Bits[n] = IF n = 0 THEN {} ELSE {i \in {0} : n % 2 = 1} \union {i + 1 : i \in Bits[n \div 2]}
<1>1. n \div 2 \in Nat
  OBVIOUS
<1>2. CASE n = 0
  BY <1>2, ZeroIsEven DEF Bits
<1>3. CASE n # 0
  <2>1. ASSUME NEW x \in Bits[n] PROVE x \in {i \in {0} : n % 2 = 1} \union {i + 1 : i \in Bits[n \div 2]}
    <3>1. x \in Nat /\ Odd(n, x)
      BY <2>1 DEF Bits
    <3>2. CASE x = 0
      BY <3>1, <3>2, OddFirst
    <3>3. CASE x # 0
      <4>1. x - 1 \in Nat /\ (x - 1) + 1 = x
        BY <3>1, <3>3
      <4>2. Odd(n \div 2, x - 1)
        BY <3>1, <4>1, OddNext
      <4>3. x - 1 \in Bits[n \div 2]
        BY <1>1, <4>1, <4>2 DEF Bits
      <4> QED
        BY <4>1, <4>3
    <3> QED
      BY <3>2, <3>3
  <2>2. ASSUME NEW x \in {i \in {0} : n % 2 = 1} PROVE x \in Bits[n]
    BY <2>2, OddFirst DEF Bits
  <2>3. ASSUME NEW i \in Bits[n \div 2] PROVE i + 1 \in Bits[n]
    <3>1. i \in Nat /\ Odd(n \div 2, i) /\ i + 1 \in Nat
      BY <1>1, <2>3 DEF Bits
    <3> QED
      BY <3>1, OddNext DEF Bits
  <2> QED
    BY <1>3, <2>1, <2>2, <2>3
<1> QED
  BY <1>2, <1>3

\* The recursive function is the set of places whose halves are odd.
LEMMA BitsOfIs ==
  BitsOf = [n \in Nat |-> IF n = 0 THEN {} ELSE {i \in {0} : n % 2 = 1} \union {i + 1 : i \in BitsOf[n \div 2]}]
<1> DEFINE Solves(f) == f = [n \in Nat |-> IF n = 0 THEN {} ELSE {i \in {0} : n % 2 = 1} \union {i + 1 : i \in f[n \div 2]}]
<1>1. Solves(Bits)
  <2>1. Bits = [n \in Nat |-> Bits[n]]
    BY DEF Bits
  <2> QED
    BY <2>1, BitsStep
<1>2. BitsOf = CHOOSE f : Solves(f)
  BY DEF BitsOf
<1> HIDE DEF Solves
<1>3. Solves(BitsOf)
  BY <1>1, <1>2
<1> QED
  BY <1>3 DEF Solves

\* What the recursion says, for one number.
LEMMA BitsOfStep ==
  ASSUME NEW n \in Nat
  PROVE  BitsOf[n] = IF n = 0 THEN {} ELSE {i \in {0} : n % 2 = 1} \union {i + 1 : i \in BitsOf[n \div 2]}
<1> DEFINE f == BitsOf
<1>1. f = [m \in Nat |-> IF m = 0 THEN {} ELSE {i \in {0} : m % 2 = 1} \union {i + 1 : i \in f[m \div 2]}]
  BY BitsOfIs
<1> HIDE DEF f
<1>2. f[n] = IF n = 0 THEN {} ELSE {i \in {0} : n % 2 = 1} \union {i + 1 : i \in f[n \div 2]}
  BY <1>1
<1> QED
  BY <1>2 DEF f

\* Bits are places.
LEMMA BitsAreNumbers == \A n \in Nat : BitsOf[n] \in SUBSET Nat
<1> DEFINE S == {n \in Nat : ~(BitsOf[n] \in SUBSET Nat)}
<1> SUFFICES ASSUME S # {} PROVE FALSE
  OBVIOUS
<1>1. PICK n \in S : \A m \in S : n <= m
  <2>1. S \subseteq Nat
    OBVIOUS
  <2> HIDE DEF S
  <2> QED
    BY <2>1, LeastElement
<1>2. n \in Nat /\ ~(BitsOf[n] \in SUBSET Nat)
  OBVIOUS
<1>3. n # 0
  BY <1>2, BitsOfStep
<1>4. n \div 2 \in Nat /\ n \div 2 < n
  BY <1>2, <1>3
<1>5. BitsOf[n \div 2] \in SUBSET Nat
  BY <1>1, <1>4
<1>6. BitsOf[n] = {i \in {0} : n % 2 = 1} \union {i + 1 : i \in BitsOf[n \div 2]}
  BY <1>2, <1>3, BitsOfStep
<1> QED
  BY <1>2, <1>5, <1>6

\* The lowest bit of a number, and the others.
LEMMA LowestBit ==
  ASSUME NEW n \in Nat
  PROVE  /\ 0 \in BitsOf[n] <=> n % 2 = 1
         /\ \A i \in Nat : i + 1 \in BitsOf[n] <=> i \in BitsOf[n \div 2]
<1>1. CASE n = 0
  <2>1. BitsOf[n] = {}
    BY <1>1, BitsOfStep
  <2>2. n \div 2 = n /\ n % 2 = 0
    BY <1>1
  <2> QED
    BY <2>1, <2>2
<1>2. CASE n # 0
  <2>1. BitsOf[n] = {i \in {0} : n % 2 = 1} \union {i + 1 : i \in BitsOf[n \div 2]}
    BY <1>2, BitsOfStep
  <2>2. n \div 2 \in Nat
    OBVIOUS
  <2>3. BitsOf[n \div 2] \in SUBSET Nat
    BY <2>2, BitsAreNumbers
  <2> QED
    BY <2>1, <2>3
<1> QED
  BY <1>1, <1>2

\* Only zero has no bits.
LEMMA BitsOfPositive == \A n \in Nat : BitsOf[n] = {} => n = 0
<1> DEFINE S == {n \in Nat : BitsOf[n] = {} /\ n # 0}
<1> SUFFICES ASSUME S # {} PROVE FALSE
  OBVIOUS
<1>1. PICK n \in S : \A m \in S : n <= m
  <2>1. S \subseteq Nat
    OBVIOUS
  <2> HIDE DEF S
  <2> QED
    BY <2>1, LeastElement
<1>2. n \in Nat /\ BitsOf[n] = {} /\ n # 0
  OBVIOUS
<1>3. n % 2 # 1 /\ \A i \in Nat : i \notin BitsOf[n \div 2]
  BY <1>2, LowestBit
<1>4. n \div 2 \in Nat /\ n \div 2 < n /\ n \div 2 # 0
  BY <1>2, <1>3
<1>5. BitsOf[n \div 2] = {}
  BY <1>3, <1>4, BitsAreNumbers
<1> QED
  BY <1>1, <1>4, <1>5

\* The length that is read is the length that was written.
LEMMA BitsTellNumbersApart == \A n, m \in Nat : BitsOf[n] = BitsOf[m] => n = m
<1> DEFINE S == {n \in Nat : \E m \in Nat : BitsOf[n] = BitsOf[m] /\ n # m}
<1> SUFFICES ASSUME S # {} PROVE FALSE
  OBVIOUS
<1>1. PICK n \in S : \A m \in S : n <= m
  <2>1. S \subseteq Nat
    OBVIOUS
  <2> HIDE DEF S
  <2> QED
    BY <2>1, LeastElement
<1>2. PICK m \in Nat : BitsOf[n] = BitsOf[m] /\ n # m
  OBVIOUS
<1>3. n \in Nat
  OBVIOUS
<1>4. n # 0
  <2>1. n = 0 => BitsOf[n] = {}
    BY BitsOfStep
  <2> QED
    BY <1>2, <2>1, BitsOfPositive
<1>5. n % 2 = 1 <=> m % 2 = 1
  BY <1>2, <1>3, LowestBit
<1>6. n \div 2 \in Nat /\ m \div 2 \in Nat /\ n \div 2 < n
  BY <1>3, <1>4
<1>7. BitsOf[n \div 2] = BitsOf[m \div 2]
  <2>1. \A i \in Nat : i \in BitsOf[n \div 2] <=> i \in BitsOf[m \div 2]
    BY <1>2, <1>3, LowestBit
  <2>2. BitsOf[n \div 2] \in SUBSET Nat /\ BitsOf[m \div 2] \in SUBSET Nat
    BY <1>6, BitsAreNumbers
  <2> QED
    BY <2>1, <2>2
<1>8. n \div 2 = m \div 2
  BY <1>1, <1>6, <1>7
<1> QED
  BY <1>2, <1>3, <1>5, <1>8

\* A bit less for half the number.
LEMMA HalfFits ==
  ASSUME NEW n \in Nat, NEW k \in Nat, Fits(BitsOf[n \div 2], k)
  PROVE  Fits(BitsOf[n], k + 1)
<1>1. ASSUME NEW x \in BitsOf[n] PROVE x \in 0..k
  <2>1. x \in Nat
    BY BitsAreNumbers
  <2>2. CASE x # 0
    <3>1. x - 1 \in Nat /\ (x - 1) + 1 = x
      BY <2>1, <2>2
    <3>2. x - 1 \in BitsOf[n \div 2]
      BY <3>1, LowestBit
    <3>3. x - 1 \in 0..(k - 1)
      BY <3>2 DEF Fits
    <3> QED
      BY <2>1, <3>3
  <2> QED
    BY <2>1, <2>2
<1> QED
  BY <1>1 DEF Fits

\* Numbers below 16 have four bits.
LEMMA SmallFits == \A n \in 0..15 : Fits(BitsOf[n], 4)
<1> SUFFICES ASSUME NEW n \in 0..15 PROVE Fits(BitsOf[n], 4)
  OBVIOUS
<1>1. n \in Nat /\ n \div 2 \in 0..7
  OBVIOUS
<1>2. (n \div 2) \div 2 \in 0..3
  BY <1>1
<1>3. ((n \div 2) \div 2) \div 2 \in 0..1
  BY <1>2
<1>4. (((n \div 2) \div 2) \div 2) \div 2 = 0
  BY <1>3
<1>5. Fits(BitsOf[0], 0)
  BY BitsOfStep DEF Fits
<1>6. Fits(BitsOf[((n \div 2) \div 2) \div 2], 1)
  <2>1. Fits(BitsOf[((n \div 2) \div 2) \div 2], 0 + 1)
    BY <1>3, <1>4, <1>5, HalfFits
  <2> QED
    BY <2>1
<1>7. Fits(BitsOf[(n \div 2) \div 2], 2)
  <2>1. Fits(BitsOf[(n \div 2) \div 2], 1 + 1)
    BY <1>2, <1>6, HalfFits
  <2> QED
    BY <2>1
<1>8. Fits(BitsOf[n \div 2], 3)
  <2>1. Fits(BitsOf[n \div 2], 2 + 1)
    BY <1>1, <1>7, HalfFits
  <2> QED
    BY <2>1
<1>9. Fits(BitsOf[n], 3 + 1)
  BY <1>1, <1>8, HalfFits
<1> QED
  BY <1>9

\* The headers of the properties of either schema differ.
LEMMA Headers ==
  /\ Header(1, "varint") = {3} /\ Header(2, "varint") = {4}
  /\ Header(2, "object") = {1, 4} /\ Header(3, "packed") = {1, 3, 4}
<1>1. BitsOf[0] = {}
  BY BitsOfStep
<1>2. BitsOf[1] = {0}
  <2> SUFFICES ASSUME NEW n \in Nat, n = 1 PROVE BitsOf[n] = {0}
    OBVIOUS
  <2>1. n \div 2 = 0 /\ n % 2 = 1 /\ n # 0
    OBVIOUS
  <2>2. BitsOf[n] = {i \in {0} : n % 2 = 1} \union {i + 1 : i \in BitsOf[n \div 2]}
    BY <2>1, BitsOfStep
  <2> QED
    BY <1>1, <2>1, <2>2
<1>3. BitsOf[2] = {1}
  <2> SUFFICES ASSUME NEW n \in Nat, n = 2 PROVE BitsOf[n] = {1}
    OBVIOUS
  <2>1. n \div 2 = 1 /\ n % 2 = 0 /\ n # 0
    OBVIOUS
  <2>2. BitsOf[n] = {i \in {0} : n % 2 = 1} \union {i + 1 : i \in BitsOf[n \div 2]}
    BY <2>1, BitsOfStep
  <2> QED
    BY <1>2, <2>1, <2>2
<1>4. BitsOf[3] = {0, 1}
  <2> SUFFICES ASSUME NEW n \in Nat, n = 3 PROVE BitsOf[n] = {0, 1}
    OBVIOUS
  <2>1. n \div 2 = 1 /\ n % 2 = 1 /\ n # 0
    OBVIOUS
  <2>2. BitsOf[n] = {i \in {0} : n % 2 = 1} \union {i + 1 : i \in BitsOf[n \div 2]}
    BY <2>1, BitsOfStep
  <2> QED
    BY <1>2, <2>1, <2>2
<1> QED
  BY <1>2, <1>3, <1>4 DEF Header, WireType

-----------------------------------------------------------------------------
\* Where each of the sequences that are put together begins in the whole.
Flat(seqs, g, S) ==
  /\ g \in [0..Len(seqs) -> Nat] /\ g[0] = 0
  /\ FlattenSeq(seqs) \in Seq(S) /\ Len(FlattenSeq(seqs)) = g[Len(seqs)]
  /\ \A j \in 1..Len(seqs) : g[j] = g[j - 1] + Len(seqs[j]) /\ Carries(FlattenSeq(seqs), g[j - 1] + 1, seqs[j])

\* What the first of them make, one after the other.
Gathers(acc, seqs, S) ==
  /\ acc \in [0..Len(seqs) -> Seq(S)] /\ acc[0] = <<>>
  /\ \A i \in 1..Len(seqs) : acc[i] = acc[i - 1] \o seqs[i]

\* What stands in bytes stands there when others follow.
LEMMA CarriesOn ==
  ASSUME NEW S, NEW s \in Seq(S), NEW t \in Seq(S), NEW w \in Seq(S), NEW at \in Nat
  PROVE  /\ at + Len(w) <= Len(s) /\ Carries(s, at + 1, w) => Carries(s \o t, at + 1, w)
         /\ Carries(s \o t, Len(s) + 1, t)
<1>1. /\ Len(s) \in Nat /\ Len(t) \in Nat /\ Len(w) \in Nat
      /\ \A i \in 1..Len(s) : (s \o t)[i] = s[i]
      /\ \A i \in 1..Len(t) : (s \o t)[Len(s) + i] = t[i]
  BY ConcatParts
<1>2. ASSUME at + Len(w) <= Len(s), Carries(s, at + 1, w) PROVE Carries(s \o t, at + 1, w)
  <2>1. ASSUME NEW j \in 1..Len(w) PROVE (s \o t)[at + 1 + j - 1] = w[j]
    <3>1. at + 1 + j - 1 \in 1..Len(s)
      BY <1>1, <1>2
    <3> QED
      BY <1>1, <1>2, <3>1 DEF Carries
  <2> QED
    BY <2>1 DEF Carries
<1>3. Carries(s \o t, Len(s) + 1, t)
  <2>1. ASSUME NEW j \in 1..Len(t) PROVE (s \o t)[Len(s) + 1 + j - 1] = t[j]
    <3>1. Len(s) + 1 + j - 1 = Len(s) + j
      BY <1>1
    <3> QED
      BY <1>1, <3>1
  <2> QED
    BY <2>1 DEF Carries
<1> QED
  BY <1>2, <1>3

\* One more sequence is gathered.
LEMMA Gathered ==
  ASSUME NEW S, NEW seqs \in Seq(Seq(S))
  PROVE  \E acc \in [0..Len(seqs) -> Seq(S)] : Gathers(acc, seqs, S)
<1> DEFINE n == Len(seqs)
           step == [i \in 1..n |-> [x \in Seq(S) |-> x \o seqs[i]]]
<1>1. n \in Nat /\ <<>> \in Seq(S) /\ \A i \in 1..n : seqs[i] \in Seq(S)
  OBVIOUS
<1>2. \A i \in 1..n : \A x \in Seq(S) : x \o seqs[i] \in Seq(S)
  BY <1>1, ConcatParts
<1>3. step \in [1..n -> [Seq(S) -> Seq(S)]]
  BY <1>2
<1>4. \A i \in 1..n : \A x \in Seq(S) : step[i][x] = x \o seqs[i]
  OBVIOUS
<1> HIDE DEF step
<1>5. PICK acc \in [0..n -> Seq(S)] : Iterates(acc, <<>>, step, n)
  BY <1>1, <1>3, Recursion
<1>6. acc[0] = <<>> /\ \A i \in 1..n : acc[i] = step[i][acc[i - 1]]
  BY <1>5 DEF Iterates
<1>7. ASSUME NEW i \in 1..n PROVE acc[i] = acc[i - 1] \o seqs[i]
  <2>1. i - 1 \in 0..n
    OBVIOUS
  <2>2. acc[i - 1] \in Seq(S)
    BY <1>5, <2>1
  <2> QED
    BY <1>4, <1>6, <2>2
<1> QED
  BY <1>5, <1>6, <1>7 DEF Gathers

\* FlattenSeq gathers its sequences one after another.
LEMMA FlattenGathers ==
  ASSUME NEW S, NEW seqs \in Seq(Seq(S)), NEW acc, Gathers(acc, seqs, S)
  PROVE  FlattenSeq(seqs) = acc[Len(seqs)]
<1> DEFINE n == Len(seqs)
           Solves(f) == f = [i \in 1..n |-> IF i = 1 THEN seqs[i] ELSE f[i - 1] \o seqs[i]]
           flat == CHOOSE f : Solves(f)
<1>1. n \in Nat /\ \A i \in 1..n : seqs[i] \in Seq(S)
  OBVIOUS
<1>2. CASE n = 0
  <2>1. seqs = <<>>
    BY <1>2
  <2> QED
    BY <1>2, <2>1 DEF FlattenSeq, Gathers
<1>3. CASE n # 0
  <2>1. FlattenSeq(seqs) = flat[n]
    BY <1>3 DEF FlattenSeq
  <2>2. Solves([i \in 1..n |-> acc[i]])
    <3> DEFINE a == [i \in 1..n |-> acc[i]]
    <3>1. ASSUME NEW i \in 1..n PROVE a[i] = IF i = 1 THEN seqs[i] ELSE a[i - 1] \o seqs[i]
      <4>1. CASE i = 1
        <5>1. acc[1] = acc[1 - 1] \o seqs[1] /\ acc[0] = <<>>
          BY <1>3, <4>1 DEF Gathers
        <5>2. <<>> \o seqs[1] = seqs[1]
          BY <1>1, <4>1
        <5>3. 1 - 1 = 0
          OBVIOUS
        <5> QED
          BY <4>1, <5>1, <5>2, <5>3
      <4>2. CASE i # 1
        <5>1. i - 1 \in 1..n
          BY <4>2
        <5> QED
          BY <4>2, <5>1 DEF Gathers
      <4> QED
        BY <4>1, <4>2
    <3> QED
      BY <3>1
  <2> HIDE DEF Solves
  <2>3. Solves(flat)
    BY <2>2
  <2> HIDE DEF flat
  <2>4. \A i \in 1..n : flat[i] = IF i = 1 THEN seqs[i] ELSE flat[i - 1] \o seqs[i]
    BY <2>3 DEF Solves
  <2> DEFINE P == {i \in 0..n : i > 0 => flat[i] = acc[i]}
  <2>5. 0 \in P
    BY <1>1
  <2>6. ASSUME NEW i \in 1..n, i - 1 \in P PROVE i \in P
    <3>1. i \in 0..n
      OBVIOUS
    <3>2. CASE i = 1
      <4>1. acc[1] = acc[1 - 1] \o seqs[1] /\ acc[0] = <<>>
        BY <1>3, <3>2 DEF Gathers
      <4>2. <<>> \o seqs[1] = seqs[1]
        BY <1>1, <3>2
      <4>3. 1 - 1 = 0 /\ flat[1] = seqs[1]
        BY <2>4, <3>2
      <4>4. flat[i] = acc[i]
        BY <3>2, <4>1, <4>2, <4>3
      <4> QED
        BY <3>1, <4>4
    <3>3. CASE i # 1
      <4>1. flat[i] = flat[i - 1] \o seqs[i]
        BY <2>4, <3>3
      <4>2. acc[i] = acc[i - 1] \o seqs[i]
        BY DEF Gathers
      <4>3. flat[i - 1] = acc[i - 1]
        BY <2>6, <3>3
      <4>4. flat[i] = acc[i]
        BY <4>1, <4>2, <4>3
      <4> QED
        BY <3>1, <4>4
    <3> QED
      BY <3>2, <3>3
  <2> HIDE DEF P
  <2>7. \A i \in 0..n : i \in P
    <3>1. \A i \in 1..n : i - 1 \in P => i \in P
      BY <2>6
    <3> HIDE DEF n
    <3> QED
      BY <1>1, <2>5, <3>1, StepByStep
  <2> QED
    BY <1>1, <1>3, <2>1, <2>7 DEF P
<1> QED
  BY <1>2, <1>3

\* Each sequence stands in the flattened one, after those before it.
LEMMA Flattened ==
  ASSUME NEW S, NEW seqs \in Seq(Seq(S))
  PROVE  \E g \in [0..Len(seqs) -> Nat] : Flat(seqs, g, S)
<1>1. PICK acc \in [0..Len(seqs) -> Seq(S)] : Gathers(acc, seqs, S)
  BY Gathered
<1>2. FlattenSeq(seqs) = acc[Len(seqs)]
  BY <1>1, FlattenGathers
<1> DEFINE n == Len(seqs)
           g == [i \in 0..n |-> Len(acc[i])]
<1>3. n \in Nat /\ (\A i \in 1..n : seqs[i] \in Seq(S)) /\ \A i \in 0..n : acc[i] \in Seq(S)
  BY <1>1
<1>4. g \in [0..n -> Nat] /\ (\A i \in 0..n : g[i] = Len(acc[i])) /\ g[0] = 0
  BY <1>1, <1>3 DEF Gathers
<1>5. \A i \in 1..n : acc[i] = acc[i - 1] \o seqs[i]
  BY <1>1 DEF Gathers
<1> HIDE DEF n, g
<1>6. ASSUME NEW i \in 1..n PROVE g[i] = g[i - 1] + Len(seqs[i]) /\ g[i] \in Nat /\ g[i - 1] \in Nat /\ Len(seqs[i]) \in Nat
  <2>1. i \in 0..n /\ i - 1 \in 0..n
    BY <1>3
  <2>2. Len(acc[i - 1] \o seqs[i]) = Len(acc[i - 1]) + Len(seqs[i])
    BY <1>3, <2>1, ConcatParts
  <2>3. g[i] = Len(acc[i]) /\ g[i - 1] = Len(acc[i - 1])
    BY <1>4, <2>1
  <2>4. acc[i] = acc[i - 1] \o seqs[i] /\ acc[i] \in Seq(S) /\ acc[i - 1] \in Seq(S) /\ seqs[i] \in Seq(S)
    BY <1>3, <1>5, <2>1
  <2>5. Len(acc[i]) \in Nat /\ Len(acc[i - 1]) \in Nat /\ Len(seqs[i]) \in Nat
    <3>1. Len(acc[i]) \in Nat
      BY <2>4, LenProperties
    <3>2. Len(acc[i - 1]) \in Nat
      BY <2>4, LenProperties
    <3>3. Len(seqs[i]) \in Nat
      BY <2>4, LenProperties
    <3> QED
      BY <3>1, <3>2, <3>3
  <2> QED
    BY <2>2, <2>3, <2>4, <2>5
<1> DEFINE InPlace(i) == \A j \in 1..i : g[j] <= g[i] /\ Carries(acc[i], g[j - 1] + 1, seqs[j])
           P == {i \in 0..n : InPlace(i)}
<1>7. 0 \in P
  BY <1>3
<1>8. ASSUME NEW i \in 1..n, i - 1 \in P PROVE i \in P
  <2>1. i - 1 \in 0..n /\ InPlace(i - 1) /\ i \in 0..n
    BY <1>3, <1>8
  <2>2. acc[i] = acc[i - 1] \o seqs[i] /\ acc[i - 1] \in Seq(S) /\ seqs[i] \in Seq(S) /\ g[i - 1] = Len(acc[i - 1])
    BY <1>3, <1>4, <1>5, <2>1
  <2>3. Carries(acc[i], g[i - 1] + 1, seqs[i])
    BY <2>2, CarriesOn, LenProperties
  <2>4. ASSUME NEW j \in 1..(i - 1) PROVE g[j] <= g[i] /\ Carries(acc[i], g[j - 1] + 1, seqs[j])
    <3>1. j \in 1..n
      BY <1>3
    <3>2. g[j] <= g[i - 1] /\ Carries(acc[i - 1], g[j - 1] + 1, seqs[j])
      BY <2>1
    <3>3. g[j] = g[j - 1] + Len(seqs[j]) /\ g[j] \in Nat /\ g[j - 1] \in Nat /\ Len(seqs[j]) \in Nat
      BY <1>6, <3>1
    <3>4. g[i] = g[i - 1] + Len(seqs[i]) /\ g[i - 1] \in Nat /\ Len(seqs[i]) \in Nat
      BY <1>6
    <3>5. g[j - 1] + Len(seqs[j]) <= Len(acc[i - 1])
      BY <2>2, <3>2, <3>3
    <3>6. Carries(acc[i - 1] \o seqs[i], g[j - 1] + 1, seqs[j])
      BY <1>3, <2>2, <3>1, <3>2, <3>3, <3>5, CarriesOn
    <3>7. g[j] <= g[i]
      BY <3>2, <3>3, <3>4
    <3> QED
      BY <2>2, <3>6, <3>7
  <2>5. \A j \in 1..i : j = i \/ j \in 1..(i - 1)
    BY <1>3
  <2>6. g[i] <= g[i]
    BY <1>6
  <2> QED
    BY <2>1, <2>3, <2>4, <2>5, <2>6
<1> HIDE DEF P
<1>9. n \in P
  <2>1. \A i \in 1..n : i - 1 \in P => i \in P
    BY <1>8
  <2>2. \A i \in 0..n : i \in P
    BY <1>3, <1>7, <2>1, StepByStep
  <2> QED
    BY <1>3, <2>2
<1>10. \A j \in 1..n : Carries(acc[n], g[j - 1] + 1, seqs[j])
  BY <1>9 DEF P
<1>11. acc[n] \in Seq(S) /\ Len(acc[n]) = g[n]
  BY <1>3, <1>4
<1>12. FlattenSeq(seqs) = acc[n]
  BY <1>2 DEF n
<1>13. Flat(seqs, g, S)
  BY <1>4, <1>6, <1>10, <1>11, <1>12 DEF Flat, n
<1> QED
  BY <1>4, <1>13 DEF n

-----------------------------------------------------------------------------
Byte == SUBSET (0..7)

\* The bytes of a number are bytes, one to four.
LEMMA VarintBytes ==
  ASSUME NEW v
  PROVE  /\ VarintLength(v) \in 1..4 /\ Len(WriteVarint(v)) = VarintLength(v)
         /\ Fits(v, 31) => WriteVarint(v) \in Seq(Byte)
<1>1. VarintLength(v) \in 1..4
  BY DEF VarintLength
<1>2. Len(WriteVarint(v)) = VarintLength(v)
  BY <1>1 DEF WriteVarint, Groups
<1>3. ASSUME Fits(v, 31) PROVE WriteVarint(v) \in Seq(Byte)
  <2>1. v \in SUBSET Nat /\ VarintLength(v) \in Nat
    BY <1>3, LengthOfVarint
  <2>2. GroupsOf(Groups(v, VarintLength(v)), v, VarintLength(v))
    BY <2>1, GroupsAre
  <2> QED
    BY <2>2 DEF GroupsOf, WriteVarint, Byte
<1> QED
  BY <1>1, <1>2, <1>3

\* The places of the items of a list in its bytes.
LaidOut(items, g) ==
  /\ g \in [0..Len(items) -> Nat] /\ g[0] = 0
  /\ ListBytes(items) \in Seq(Byte) /\ Len(ListBytes(items)) = g[Len(items)]
  /\ \A j \in 1..Len(items) :
       /\ g[j] = g[j - 1] + VarintLength(items[j])
       /\ Carries(ListBytes(items), g[j - 1] + 1, WriteVarint(items[j]))
  /\ \A j \in 0..Len(items) : g[j] <= g[Len(items)] /\ (g[j] = g[Len(items)] => j = Len(items))

\* The numbers of a list stand one after another.
LEMMA ListLaidOut ==
  ASSUME NEW items \in Seq(Numbers)
  PROVE  \E g \in [0..Len(items) -> Nat] : LaidOut(items, g)
<1> DEFINE n == Len(items)
           seqs == [j \in DOMAIN items |-> WriteVarint(items[j])]
<1>1. n \in Nat /\ DOMAIN items = 1..n /\ \A j \in 1..n : items[j] \in Numbers
  <2>1. \A j \in 1..Len(items) : items[j] \in Numbers
    BY ElementOfSeq
  <2> QED
    BY <2>1
<1>2. \A j \in 1..n : Fits(items[j], 31)
  BY <1>1, MessagesAssumption DEF Accepts
<1>3. \A j \in 1..n : /\ WriteVarint(items[j]) \in Seq(Byte) /\ VarintLength(items[j]) \in 1..4
                      /\ Len(WriteVarint(items[j])) = VarintLength(items[j])
  BY <1>2, VarintBytes
<1>4. seqs \in Seq(Seq(Byte)) /\ Len(seqs) = n /\ \A j \in 1..n : seqs[j] = WriteVarint(items[j])
  BY <1>1, <1>3
<1>5. ListBytes(items) = FlattenSeq(seqs)
  BY DEF ListBytes
<1> HIDE DEF n, seqs
<1>6. PICK g \in [0..n -> Nat] : Flat(seqs, g, Byte)
  BY <1>4, Flattened
<1>7. /\ g[0] = 0 /\ ListBytes(items) \in Seq(Byte) /\ Len(ListBytes(items)) = g[n]
      /\ \A j \in 1..n : g[j] = g[j - 1] + Len(seqs[j]) /\ Carries(ListBytes(items), g[j - 1] + 1, seqs[j])
  BY <1>4, <1>5, <1>6 DEF Flat
<1>8. ASSUME NEW j \in 1..n
      PROVE  /\ g[j] = g[j - 1] + VarintLength(items[j]) /\ Carries(ListBytes(items), g[j - 1] + 1, WriteVarint(items[j]))
             /\ g[j - 1] < g[j]
  <2>1. g[j] = g[j - 1] + VarintLength(items[j]) /\ Carries(ListBytes(items), g[j - 1] + 1, WriteVarint(items[j]))
    BY <1>3, <1>4, <1>7
  <2>2. g[j - 1] \in Nat /\ VarintLength(items[j]) \in 1..4
    <3>1. j - 1 \in 0..n
      BY <1>1
    <3> QED
      BY <1>3, <3>1
  <2> QED
    BY <2>1, <2>2
<1> DEFINE P == {i \in 0..n : \A j \in 0..i : g[j] <= g[i] /\ (g[j] = g[i] => j = i)}
<1>9. 0 \in P
  <2>1. 0 \in 0..n /\ g[0] \in Nat /\ \A j \in 0..0 : j = 0
    BY <1>1
  <2> QED
    BY <2>1
<1>10. ASSUME NEW i \in 1..n, i - 1 \in P PROVE i \in P
  <2>1. i \in 0..n /\ i - 1 \in 0..n /\ g[i] \in Nat /\ g[i - 1] \in Nat
    BY <1>1, <1>6
  <2>2. g[i - 1] < g[i]
    BY <1>8
  <2>3. ASSUME NEW j \in 0..i PROVE g[j] <= g[i] /\ (g[j] = g[i] => j = i)
    <3>1. CASE j = i
      BY <2>1, <3>1
    <3>2. CASE j # i
      <4>1. j \in 0..(i - 1) /\ j \in 0..n
        BY <1>1, <3>2
      <4>2. g[j] <= g[i - 1] /\ g[j] \in Nat
        BY <1>10, <4>1
      <4> QED
        BY <2>1, <2>2, <4>2
    <3> QED
      BY <3>1, <3>2
  <2> QED
    BY <2>1, <2>3
<1> HIDE DEF P
<1>11. n \in P
  <2>1. \A i \in 1..n : i - 1 \in P => i \in P
    BY <1>10
  <2>2. \A i \in 0..n : i \in P
    BY <1>1, <1>9, <2>1, StepByStep
  <2> QED
    BY <1>1, <2>2
<1>12. \A j \in 0..n : g[j] <= g[n] /\ (g[j] = g[n] => j = n)
  BY <1>11 DEF P
<1>13. LaidOut(items, g)
  BY <1>6, <1>7, <1>8, <1>12 DEF LaidOut, n
<1> QED
  BY <1>6, <1>13 DEF n

-----------------------------------------------------------------------------
\* What is carried as a whole is carried in parts.
LEMMA CarriesParts ==
  ASSUME NEW S, NEW s \in Seq(S), NEW t \in Seq(S), NEW bs, NEW from \in Nat, Carries(bs, from, s \o t)
  PROVE  Carries(bs, from, s) /\ Carries(bs, from + Len(s), t)
<1>1. /\ Len(s) \in Nat /\ Len(t) \in Nat /\ Len(s \o t) = Len(s) + Len(t)
      /\ \A i \in 1..Len(s) : (s \o t)[i] = s[i]
      /\ \A i \in 1..Len(t) : (s \o t)[Len(s) + i] = t[i]
  BY ConcatParts
<1>2. ASSUME NEW j \in 1..Len(s) PROVE bs[from + j - 1] = s[j]
  <2>1. j \in 1..Len(s \o t)
    BY <1>1
  <2> QED
    BY <1>1, <2>1 DEF Carries
<1>3. ASSUME NEW j \in 1..Len(t) PROVE bs[from + Len(s) + j - 1] = t[j]
  <2>1. Len(s) + j \in 1..Len(s \o t) /\ from + (Len(s) + j) - 1 = from + Len(s) + j - 1
    BY <1>1
  <2> QED
    BY <1>1, <2>1 DEF Carries
<1> QED
  BY <1>2, <1>3 DEF Carries

\* What stands within a part stands within the whole.
LEMMA CarriesWithin ==
  ASSUME NEW S, NEW body \in Seq(S), NEW w \in Seq(S), NEW bs, NEW from \in Nat, NEW at \in Nat,
         Carries(bs, from, body), Carries(body, at + 1, w), at + Len(w) <= Len(body)
  PROVE  Carries(bs, from + at, w)
<1>1. Len(body) \in Nat /\ Len(w) \in Nat
  OBVIOUS
<1>2. ASSUME NEW j \in 1..Len(w) PROVE bs[from + at + j - 1] = w[j]
  <2>1. at + j \in 1..Len(body) /\ from + (at + j) - 1 = from + at + j - 1 /\ at + 1 + j - 1 = at + j
    BY <1>1
  <2> QED
    BY <2>1 DEF Carries
<1> QED
  BY <1>2 DEF Carries

\* Three sequences one after the other.
Follows(bs, s, t, u) ==
  /\ Len(bs) = Len(s) + Len(t) + Len(u)
  /\ Carries(bs, 1, s) /\ Carries(bs, Len(s) + 1, t) /\ Carries(bs, Len(s) + Len(t) + 1, u)

\* Three sequences that follow each other stand where they should.
LEMMA ThreeFollow ==
  ASSUME NEW S, NEW s \in Seq(S), NEW t \in Seq(S), NEW u \in Seq(S)
  PROVE  s \o t \o u \in Seq(S) /\ Follows(s \o t \o u, s, t, u)
<1>1. s \o t \in Seq(S) /\ Len(s \o t) = Len(s) + Len(t) /\ Len(s) \in Nat /\ Len(t) \in Nat /\ Len(u) \in Nat
  BY ConcatParts, LenProperties
<1> DEFINE st == s \o t
<1>2. st \in Seq(S) /\ Len(st) = Len(s) + Len(t)
  BY <1>1
<1>3. Carries(st, Len(s) + 1, t)
  BY CarriesOn, <1>1
<1>4. Carries(st, 1, s)
  <2>1. Carries(s, 1, s)
    BY CarriesItself
  <2>2. 0 + Len(s) <= Len(s) /\ 0 + 1 = 1 /\ 0 \in Nat
    BY <1>1
  <2> QED
    BY <2>1, <2>2, CarriesOn
<1> HIDE DEF st
<1>5. st \o u \in Seq(S) /\ Len(st \o u) = Len(st) + Len(u)
  BY <1>2, ConcatParts
<1>6. Carries(st \o u, Len(st) + 1, u)
  BY <1>1, <1>2, CarriesOn
<1>7. Carries(st \o u, 1, s)
  <2>1. 0 + Len(s) <= Len(st) /\ 0 + 1 = 1 /\ 0 \in Nat
    BY <1>1, <1>2
  <2> QED
    BY <1>2, <1>4, <2>1, CarriesOn
<1>8. Carries(st \o u, Len(s) + 1, t)
  <2>1. Len(s) + Len(t) <= Len(st)
    BY <1>1, <1>2
  <2> QED
    BY <1>1, <1>2, <1>3, <2>1, CarriesOn
<1> QED
  BY <1>2, <1>5, <1>6, <1>7, <1>8 DEF Follows, st

\* Where a property that is a number, or one with a length, stands in the bytes.
NumberAt(bs, at, id, v, next) ==
  /\ bs[at + 1] = Header(id, "varint") /\ Carries(bs, at + 2, WriteVarint(v))
  /\ next = at + 1 + VarintLength(v)

SubAt(bs, at, header, told, body, next) ==
  /\ bs[at + 1] = header /\ Carries(bs, at + 2, WriteVarint(BitsOf[told]))
  /\ Carries(bs, at + 2 + VarintLength(BitsOf[told]), body)
  /\ next = at + 1 + VarintLength(BitsOf[told]) + Len(body)

\* A property that is not written, or one that is.
PropertyIs(s, p, id) ==
  /\ s \in Seq(Byte)
  /\ p = <<>> => s = <<>>
  /\ p # <<>> => s = <<Header(id, "varint")>> \o WriteVarint(p[1]) /\ Len(s) = 1 + VarintLength(p[1])

NumberProperty(id, p) == PropertyBytes(id, "varint", NumberBytes(p))

\* A number is written after its header, and nothing without a number.
LEMMA NumberPropertyIs ==
  ASSUME NEW id \in {1, 2}, NEW p \in Optional(Numbers)
  PROVE  PropertyIs(NumberProperty(id, p), p, id)
<1>1. CASE p = <<>>
  <2>1. NumberProperty(id, p) = <<>>
    BY <1>1 DEF NumberProperty, PropertyBytes, NumberBytes
  <2>2. <<>> \in Seq(Byte)
    OBVIOUS
  <2> QED
    BY <1>1, <2>1, <2>2 DEF PropertyIs
<1>2. CASE p # <<>>
  <2>1. PICK v \in Numbers : p = <<v>>
    BY <1>2 DEF Optional
  <2>2. p[1] = v /\ Fits(v, 31)
    BY <2>1, MessagesAssumption DEF Accepts
  <2> DEFINE w == WriteVarint(v)
  <2>3. w \in Seq(Byte) /\ Len(w) = VarintLength(v) /\ VarintLength(v) \in 1..4
    BY <2>2, VarintBytes
  <2>4. NumberProperty(id, p) = IF w = <<>> THEN <<>> ELSE <<Header(id, "varint")>> \o w
    BY <1>2, <2>2 DEF NumberProperty, PropertyBytes, NumberBytes
  <2> HIDE DEF w
  <2>5. w # <<>>
    BY <2>3
  <2>6. Header(id, "varint") \in Byte
    BY Headers DEF Byte
  <2>7. <<Header(id, "varint")>> \in Seq(Byte) /\ Len(<<Header(id, "varint")>>) = 1
    BY <2>6
  <2>8. <<Header(id, "varint")>> \o w \in Seq(Byte) /\ Len(<<Header(id, "varint")>> \o w) = 1 + Len(w)
    BY <2>3, <2>7, ConcatParts
  <2> QED
    BY <1>2, <2>2, <2>3, <2>4, <2>5, <2>8 DEF PropertyIs, w
<1> QED
  BY <1>1, <1>2

\* A number after its header stands where they were written.
LEMMA NumberStands ==
  ASSUME NEW bs, NEW at \in Nat, NEW id \in {1, 2}, NEW v \in Numbers,
         Carries(bs, at + 1, <<Header(id, "varint")>> \o WriteVarint(v))
  PROVE  NumberAt(bs, at, id, v, at + 1 + VarintLength(v))
<1> DEFINE w == WriteVarint(v)
           h == <<Header(id, "varint")>>
<1>1. w \in Seq(Byte)
  BY VarintBytes, MessagesAssumption DEF Accepts
<1>2. h \in Seq(Byte) /\ Len(h) = 1 /\ h[1] = Header(id, "varint")
  BY Headers DEF Byte
<1> HIDE DEF w, h
<1>3. Carries(bs, at + 1, h) /\ Carries(bs, at + 1 + Len(h), w)
  <2>1. Carries(bs, at + 1, h \o w)
    BY DEF h, w
  <2>2. at + 1 \in Nat
    OBVIOUS
  <2> QED
    BY <1>1, <1>2, <2>1, <2>2, CarriesParts
<1>4. bs[at + 1] = Header(id, "varint")
  <2>1. 1 \in 1..Len(h) /\ at + 1 + 1 - 1 = at + 1
    BY <1>2
  <2> QED
    BY <1>2, <1>3, <2>1 DEF Carries
<1>5. at + 1 + Len(h) = at + 2
  BY <1>2
<1> QED
  BY <1>3, <1>4, <1>5 DEF NumberAt, w

\* Varint.write() accepts what fits in 31 bits.
LEMMA VarintAccepts ==
  ASSUME NEW v
  PROVE  Accepts("varint", v) <=> Fits(v, 31)
BY DEF Accepts

\* A part after its header and its length stands where they were written.
LEMMA SubStands ==
  ASSUME NEW bs, NEW at \in Nat, NEW header \in Byte, NEW told, Fits(BitsOf[told], 31), NEW body \in Seq(Byte),
         Carries(bs, at + 1, <<header>> \o SubBytes(told, body))
  PROVE  SubAt(bs, at, header, told, body, at + 1 + VarintLength(BitsOf[told]) + Len(body))
<1> DEFINE w == WriteVarint(BitsOf[told])
           h == <<header>>
<1>1. w \in Seq(Byte) /\ Len(w) = VarintLength(BitsOf[told]) /\ VarintLength(BitsOf[told]) \in Nat
  BY VarintBytes
<1>2. h \in Seq(Byte) /\ Len(h) = 1 /\ h[1] = header
  OBVIOUS
<1>3. Carries(bs, at + 1, h \o (w \o body))
  BY DEF SubBytes
<1> HIDE DEF w, h
<1>4. w \o body \in Seq(Byte)
  BY <1>1, ConcatParts
<1>5. Carries(bs, at + 1, h) /\ Carries(bs, at + 1 + Len(h), w \o body)
  <2>1. at + 1 \in Nat
    OBVIOUS
  <2> QED
    BY <1>2, <1>3, <1>4, <2>1, CarriesParts
<1>6. at + 1 + Len(h) = at + 2 /\ at + 2 \in Nat
  BY <1>2
<1>7. Carries(bs, at + 2, w) /\ Carries(bs, at + 2 + Len(w), body)
  BY <1>1, <1>5, <1>6, CarriesParts
<1>8. bs[at + 1] = header
  <2>1. 1 \in 1..Len(h) /\ at + 1 + 1 - 1 = at + 1
    BY <1>2
  <2> QED
    BY <1>2, <1>5, <2>1 DEF Carries
<1> QED
  BY <1>1, <1>7, <1>8 DEF SubAt, w

-----------------------------------------------------------------------------
Objects == Optional(Numbers) \X Optional(Numbers)

ObjectAt(o, k) ==
  IF k = 0 THEN 0
  ELSE IF k = 1 THEN Len(NumberProperty(1, o[1]))
  ELSE Len(NumberProperty(1, o[1])) + Len(NumberProperty(2, o[2]))

\* Where the properties of an object stand in its bytes.
ObjectLaid(o) ==
  /\ ObjectBytes(o) \in Seq(Byte) /\ Len(ObjectBytes(o)) = ObjectAt(o, 2) /\ ObjectAt(o, 2) \in 0..10
  /\ ObjectAt(o, 0) = 0 /\ ObjectAt(o, 1) \in 0..ObjectAt(o, 2)
  /\ \A k \in {1, 2} :
       /\ o[k] = <<>> => ObjectAt(o, k) = ObjectAt(o, k - 1)
       /\ o[k] # <<>> => NumberAt(ObjectBytes(o), ObjectAt(o, k - 1), k, o[k][1], ObjectAt(o, k)) /\ o[k][1] \in Numbers

\* A property is undefined or has one value.
LEMMA OptionIs ==
  ASSUME NEW S, NEW p \in Optional(S), p # <<>>
  PROVE  p[1] \in S /\ p = <<p[1]>>
BY DEF Optional

\* The properties of an object stand one after another.
LEMMA ObjectLaidOut ==
  ASSUME NEW o \in Objects
  PROVE  ObjectLaid(o)
<1> DEFINE s == NumberProperty(1, o[1])
           t == NumberProperty(2, o[2])
<1>1. o[1] \in Optional(Numbers) /\ o[2] \in Optional(Numbers)
  BY DEF Objects
<1>2. PropertyIs(s, o[1], 1) /\ PropertyIs(t, o[2], 2)
  BY <1>1, NumberPropertyIs
<1>3. ObjectBytes(o) = s \o t
  BY DEF ObjectBytes, NumberProperty
<1>4. ObjectAt(o, 0) = 0 /\ ObjectAt(o, 1) = Len(s) /\ ObjectAt(o, 2) = Len(s) + Len(t)
  BY DEF ObjectAt
<1> HIDE DEF s, t
<1>5. s \in Seq(Byte) /\ t \in Seq(Byte)
  BY <1>2 DEF PropertyIs
<1>6. o[1] = <<>> => Len(s) = 0
  <2>1. o[1] = <<>> => s = <<>>
    BY <1>2 DEF PropertyIs
  <2> QED
    BY <2>1
<1>7. o[2] = <<>> => Len(t) = 0
  <2>1. o[2] = <<>> => t = <<>>
    BY <1>2 DEF PropertyIs
  <2> QED
    BY <2>1
<1>8. Len(s) \in 0..5 /\ Len(t) \in 0..5
  <2>1. VarintLength(o[1][1]) \in 1..4 /\ VarintLength(o[2][1]) \in 1..4
    BY VarintBytes
  <2>2. o[1] # <<>> => Len(s) = 1 + VarintLength(o[1][1])
    BY <1>2 DEF PropertyIs
  <2>3. o[2] # <<>> => Len(t) = 1 + VarintLength(o[2][1])
    BY <1>2 DEF PropertyIs
  <2>4. \A x \in 1..4 : 1 + x \in 0..5
    OBVIOUS
  <2>5. Len(s) \in 0..5
    <3>1. CASE o[1] = <<>>
      BY <1>6, <3>1
    <3>2. CASE o[1] # <<>>
      BY <2>4, <2>1, <2>2, <3>2
    <3> QED
      BY <3>1, <3>2
  <2>6. Len(t) \in 0..5
    <3>1. CASE o[2] = <<>>
      BY <1>7, <3>1
    <3>2. CASE o[2] # <<>>
      BY <2>4, <2>1, <2>3, <3>2
    <3> QED
      BY <3>1, <3>2
  <2> QED
    BY <2>5, <2>6
<1>9. s \o t \in Seq(Byte) /\ Len(s \o t) = Len(s) + Len(t)
  BY <1>5, ConcatParts
<1>10. Carries(s \o t, 1, s) /\ Carries(s \o t, Len(s) + 1, t)
  <2>1. Carries(s \o t, 1, s \o t)
    BY <1>9, CarriesItself
  <2>2. Carries(s \o t, 1, s) /\ Carries(s \o t, 1 + Len(s), t)
    BY <1>5, <2>1, CarriesParts
  <2>3. 1 + Len(s) = Len(s) + 1
    BY <1>8
  <2> QED
    BY <2>2, <2>3
<1>11. ASSUME o[1] # <<>> PROVE NumberAt(s \o t, 0, 1, o[1][1], Len(s)) /\ o[1][1] \in Numbers
  <2>1. o[1][1] \in Numbers
    BY <1>1, <1>11, OptionIs
  <2>2. s = <<Header(1, "varint")>> \o WriteVarint(o[1][1]) /\ Len(s) = 1 + VarintLength(o[1][1])
    BY <1>2, <1>11 DEF PropertyIs
  <2>3. Carries(s \o t, 0 + 1, <<Header(1, "varint")>> \o WriteVarint(o[1][1]))
    BY <1>10, <2>2
  <2>4. NumberAt(s \o t, 0, 1, o[1][1], 0 + 1 + VarintLength(o[1][1]))
    BY <2>1, <2>3, NumberStands
  <2>5. 0 + 1 + VarintLength(o[1][1]) = Len(s)
    BY <2>2, VarintBytes
  <2> QED
    BY <2>1, <2>4, <2>5
<1>12. ASSUME o[2] # <<>> PROVE NumberAt(s \o t, Len(s), 2, o[2][1], Len(s) + Len(t)) /\ o[2][1] \in Numbers
  <2>1. o[2][1] \in Numbers
    BY <1>1, <1>12, OptionIs
  <2>2. t = <<Header(2, "varint")>> \o WriteVarint(o[2][1]) /\ Len(t) = 1 + VarintLength(o[2][1])
    BY <1>2, <1>12 DEF PropertyIs
  <2>3. Carries(s \o t, Len(s) + 1, <<Header(2, "varint")>> \o WriteVarint(o[2][1]))
    BY <1>10, <2>2
  <2>4. NumberAt(s \o t, Len(s), 2, o[2][1], Len(s) + 1 + VarintLength(o[2][1]))
    BY <1>8, <2>1, <2>3, NumberStands
  <2>5. Len(s) + 1 + VarintLength(o[2][1]) = Len(s) + Len(t)
    <3>1. VarintLength(o[2][1]) \in 1..4
      BY VarintBytes
    <3> QED
      BY <1>8, <2>2, <3>1
  <2> QED
    BY <2>1, <2>4, <2>5
<1>13. ObjectBytes(o) \in Seq(Byte) /\ Len(ObjectBytes(o)) = ObjectAt(o, 2)
  BY <1>3, <1>4, <1>9
<1>14. ObjectAt(o, 2) \in 0..10 /\ ObjectAt(o, 0) = 0 /\ ObjectAt(o, 1) \in 0..ObjectAt(o, 2)
  <2>1. \A a, b \in 0..5 : a + b \in 0..10 /\ a \in 0..(a + b)
    OBVIOUS
  <2>2. Len(s) + Len(t) \in 0..10 /\ Len(s) \in 0..(Len(s) + Len(t))
    BY <1>8, <2>1
  <2> QED
    BY <1>4, <2>2
<1>15. ASSUME NEW k \in {1, 2}
      PROVE  /\ o[k] = <<>> => ObjectAt(o, k) = ObjectAt(o, k - 1)
             /\ o[k] # <<>> => NumberAt(ObjectBytes(o), ObjectAt(o, k - 1), k, o[k][1], ObjectAt(o, k)) /\ o[k][1] \in Numbers
  <2>1. CASE k = 1
    <3>1. k - 1 = 0
      BY <2>1
    <3> QED
      BY <1>3, <1>4, <1>6, <1>11, <2>1, <3>1
  <2>2. CASE k = 2
    <3>1. k - 1 = 1
      BY <2>2
    <3>2. o[2] = <<>> => Len(s) + Len(t) = Len(s)
      BY <1>8, <1>7
    <3> QED
      BY <1>3, <1>4, <1>12, <2>2, <3>1, <3>2
  <2> QED
    BY <2>1, <2>2
<1> QED
  BY <1>13, <1>14, <1>15 DEF ObjectLaid

Messages == Optional(Numbers) \X Optional(Objects) \X Optional(Lists)

ObjectProperty(p) == PropertyBytes(2, "object", IF p = <<>> THEN <<>> ELSE SubBytes(LengthOf(p[1]), ObjectBytes(p[1])))
ListProperty(p) == PropertyBytes(3, "packed", IF p = <<>> THEN <<>> ELSE SubBytes(ListLength(p[1]), ListBytes(p[1])))

MessageAt(m, k) ==
  IF k = 0 THEN 0
  ELSE IF k = 1 THEN Len(NumberProperty(1, m[1]))
  ELSE IF k = 2 THEN Len(NumberProperty(1, m[1])) + Len(ObjectProperty(m[2]))
  ELSE Len(NumberProperty(1, m[1])) + Len(ObjectProperty(m[2])) + Len(ListProperty(m[3]))

SubIs(s, header, told, body) ==
  /\ s \in Seq(Byte) /\ s = <<header>> \o SubBytes(told, body)
  /\ Len(s) = 1 + VarintLength(BitsOf[told]) + Len(body)

\* A part is written after its header and length, and nothing without one.
LEMMA SubPropertyIs ==
  ASSUME NEW id, NEW kind, Header(id, kind) \in Byte, NEW told, Fits(BitsOf[told], 31), NEW body \in Seq(Byte)
  PROVE  SubIs(PropertyBytes(id, kind, SubBytes(told, body)), Header(id, kind), told, body)
<1> DEFINE w == WriteVarint(BitsOf[told])
           h == <<Header(id, kind)>>
           k == VarintLength(BitsOf[told])
<1>1. w \in Seq(Byte) /\ Len(w) = k /\ k \in 1..4
  BY VarintBytes
<1>2. h \in Seq(Byte) /\ Len(h) = 1
  OBVIOUS
<1>3. SubBytes(told, body) = w \o body
  BY DEF SubBytes
<1> HIDE DEF w, h, k
<1>4. w \o body \in Seq(Byte) /\ Len(w \o body) = k + Len(body)
  BY <1>1, ConcatParts
<1>5. Len(body) \in Nat
  BY LenProperties
<1>6. w \o body # <<>>
  <2>1. Len(w \o body) # 0
    BY <1>1, <1>4, <1>5
  <2> QED
    BY <2>1
<1>7. PropertyBytes(id, kind, w \o body) = h \o (w \o body)
  BY <1>6 DEF PropertyBytes, h
<1>8. h \o (w \o body) \in Seq(Byte) /\ Len(h \o (w \o body)) = Len(h) + Len(w \o body)
  <2> DEFINE x == w \o body
  <2>1. x \in Seq(Byte)
    BY <1>4
  <2> HIDE DEF x
  <2>2. h \o x \in Seq(Byte) /\ Len(h \o x) = Len(h) + Len(x)
    BY <1>2, <2>1, ConcatParts
  <2> QED
    BY <2>2 DEF x
<1>9. Len(h \o (w \o body)) = 1 + k + Len(body)
  BY <1>1, <1>2, <1>4, <1>5, <1>8
<1> QED
  BY <1>3, <1>7, <1>8, <1>9 DEF SubIs, h, k

\* Where the properties of a message stand in its bytes.
MessageLaid(m) ==
  /\ MessageBytes(m) \in Seq(Byte) /\ Len(MessageBytes(m)) = MessageAt(m, 3)
  /\ MessageAt(m, 0) = 0 /\ \A k \in 1..3 : MessageAt(m, k) \in Nat /\ MessageAt(m, k - 1) <= MessageAt(m, k)
  /\ \A k \in 1..3 : m[k] = <<>> => MessageAt(m, k) = MessageAt(m, k - 1)
  /\ m[1] # <<>> => NumberAt(MessageBytes(m), 0, 1, m[1][1], MessageAt(m, 1))
  /\ m[2] # <<>> => SubAt(MessageBytes(m), MessageAt(m, 1), Header(2, "object"), Len(ObjectBytes(m[2][1])),
                          ObjectBytes(m[2][1]), MessageAt(m, 2))
  /\ m[3] # <<>> => SubAt(MessageBytes(m), MessageAt(m, 2), Header(3, "packed"), ListLength(m[3][1]),
                          ListBytes(m[3][1]), MessageAt(m, 3))

\* The parts of a message, when its object has the length that is told of it.
PartsAre(m) ==
  /\ m[1] # <<>> => m[1][1] \in Numbers
  /\ m[2] # <<>> => m[2][1] \in Objects /\ LengthOf(m[2][1]) = Len(ObjectBytes(m[2][1]))
  /\ m[3] # <<>> => m[3][1] \in Lists
  /\ m[1] \in Optional(Numbers)

\* A message is its three properties.
LEMMA MessageParts ==
  ASSUME NEW m \in Messages, \A o \in ToSet(m[2]) : LengthOf(o) = Len(ObjectBytes(o))
  PROVE  PartsAre(m)
<1>1. m[1] \in Optional(Numbers) /\ m[2] \in Optional(Objects) /\ m[3] \in Optional(Lists)
  BY DEF Messages
<1>2. m[1] # <<>> => m[1][1] \in Numbers
  BY <1>1, OptionIs
<1>3. m[3] # <<>> => m[3][1] \in Lists
  BY <1>1, OptionIs
<1>4. ASSUME m[2] # <<>> PROVE m[2][1] \in Objects /\ LengthOf(m[2][1]) = Len(ObjectBytes(m[2][1]))
  <2>1. PICK o \in Objects : m[2] = <<o>>
    BY <1>1, <1>4 DEF Optional
  <2>2. m[2][1] = o
    BY <2>1
  <2>3. ToSet(m[2]) = {o}
    BY <2>1, ElementsOfNothing
  <2> QED
    BY <2>2, <2>3
<1> QED
  BY <1>1, <1>2, <1>3, <1>4 DEF PartsAre

FitsInto(s, p, header, told, body) ==
  /\ s \in Seq(Byte) /\ Len(s) \in Nat
  /\ p = <<>> => Len(s) = 0
  /\ p # <<>> => SubIs(s, header, told, body) /\ Fits(BitsOf[told], 31) /\ body \in Seq(Byte) /\ header \in Byte

\* Numbers of four bits fit in 31.
LEMMA FitsMore ==
  ASSUME NEW v, Fits(v, 4)
  PROVE  Fits(v, 31)
BY DEF Fits

\* How an object is written whose length is told right.
LEMMA ObjectPropertyIs ==
  ASSUME NEW m, PartsAre(m)
  PROVE  FitsInto(ObjectProperty(m[2]), m[2], Header(2, "object"), Len(ObjectBytes(m[2][1])), ObjectBytes(m[2][1]))
<1> DEFINE s == ObjectProperty(m[2])
           body == ObjectBytes(m[2][1])
<1>1. CASE m[2] = <<>>
  <2>1. s = <<>>
    BY <1>1 DEF ObjectProperty, PropertyBytes
  <2>2. <<>> \in Seq(Byte) /\ Len(<<>>) = 0 /\ 0 \in Nat
    OBVIOUS
  <2> QED
    BY <1>1, <2>1, <2>2 DEF FitsInto
<1>2. CASE m[2] # <<>>
  <2>1. m[2][1] \in Objects /\ LengthOf(m[2][1]) = Len(body)
    BY <1>2 DEF PartsAre
  <2>2. body \in Seq(Byte) /\ Len(body) \in 0..10
    BY <2>1, ObjectLaidOut DEF ObjectLaid
  <2>3. Fits(BitsOf[Len(body)], 31)
    <3>1. Len(body) \in 0..15
      BY <2>2
    <3> HIDE DEF body
    <3> QED
      BY <3>1, SmallFits, FitsMore
  <2>4. s = PropertyBytes(2, "object", SubBytes(Len(body), body))
    BY <1>2, <2>1 DEF ObjectProperty
  <2>5. Header(2, "object") \in Byte
    BY Headers DEF Byte
  <2> HIDE DEF s, body
  <2>6. SubIs(s, Header(2, "object"), Len(body), body)
    BY <2>2, <2>3, <2>4, <2>5, SubPropertyIs
  <2>7. s \in Seq(Byte) /\ Len(s) \in Nat
    BY <2>6, LenProperties DEF SubIs
  <2>8. FitsInto(s, m[2], Header(2, "object"), Len(body), body)
    BY <1>2, <2>2, <2>3, <2>5, <2>6, <2>7 DEF FitsInto
  <2> QED
    BY <2>8 DEF s, body
<1> QED
  BY <1>1, <1>2

\* How a list is written.
LEMMA ListPropertyIs ==
  ASSUME NEW m, PartsAre(m)
  PROVE  FitsInto(ListProperty(m[3]), m[3], Header(3, "packed"), ListLength(m[3][1]), ListBytes(m[3][1]))
<1> DEFINE s == ListProperty(m[3])
           body == ListBytes(m[3][1])
<1>1. CASE m[3] = <<>>
  <2>1. s = <<>>
    BY <1>1 DEF ListProperty, PropertyBytes
  <2>2. <<>> \in Seq(Byte) /\ Len(<<>>) = 0 /\ 0 \in Nat
    OBVIOUS
  <2> QED
    BY <1>1, <2>1, <2>2 DEF FitsInto
<1>2. CASE m[3] # <<>>
  <2>1. m[3][1] \in Lists /\ ListLength(m[3][1]) = Len(body)
    BY <1>2 DEF PartsAre, ListLength
  <2>2. body \in Seq(Byte)
    <3>1. m[3][1] \in Seq(Numbers)
      BY <2>1, MessagesAssumption
    <3> QED
      BY <3>1, ListLaidOut DEF LaidOut
  <2>3. Fits(BitsOf[Len(body)], 31)
    BY <2>1, MessagesAssumption, VarintAccepts
  <2>4. s = PropertyBytes(3, "packed", SubBytes(Len(body), body))
    BY <1>2, <2>1 DEF ListProperty
  <2>5. Header(3, "packed") \in Byte
    BY Headers DEF Byte
  <2> HIDE DEF s, body
  <2>6. SubIs(s, Header(3, "packed"), Len(body), body)
    BY <2>2, <2>3, <2>4, <2>5, SubPropertyIs
  <2>7. s \in Seq(Byte) /\ Len(s) \in Nat
    BY <2>6, LenProperties DEF SubIs
  <2>8. FitsInto(s, m[3], Header(3, "packed"), Len(body), body)
    BY <1>2, <2>2, <2>3, <2>5, <2>6, <2>7 DEF FitsInto
  <2> QED
    BY <2>1, <2>8 DEF s, body
<1> QED
  BY <1>1, <1>2

\* The properties of a message stand one after another.
LEMMA MessageLaidOut ==
  ASSUME NEW m, PartsAre(m)
  PROVE  MessageLaid(m)
<1> DEFINE s == NumberProperty(1, m[1])
           t == ObjectProperty(m[2])
           u == ListProperty(m[3])
           object == ObjectBytes(m[2][1])
           list == ListBytes(m[3][1])
           b == MessageBytes(m)
<1>1. PropertyIs(s, m[1], 1)
  BY NumberPropertyIs DEF PartsAre
<1>2. FitsInto(t, m[2], Header(2, "object"), Len(object), object)
  BY ObjectPropertyIs
<1>3. FitsInto(u, m[3], Header(3, "packed"), ListLength(m[3][1]), list)
  BY ListPropertyIs
<1>4. b = s \o t \o u
  BY DEF MessageBytes, NumberProperty, ObjectProperty, ListProperty
<1>5. MessageAt(m, 0) = 0 /\ MessageAt(m, 1) = Len(s) /\ MessageAt(m, 2) = Len(s) + Len(t)
      /\ MessageAt(m, 3) = Len(s) + Len(t) + Len(u)
  BY DEF MessageAt
<1> HIDE DEF s, t, u, object, list, b
<1>6. s \in Seq(Byte) /\ t \in Seq(Byte) /\ u \in Seq(Byte) /\ Len(s) \in Nat /\ Len(t) \in Nat /\ Len(u) \in Nat
  <2>1. s \in Seq(Byte)
    BY <1>1 DEF PropertyIs
  <2>2. Len(s) \in Nat
    BY <2>1, LenProperties
  <2> QED
    BY <1>2, <1>3, <2>1, <2>2 DEF FitsInto
<1>7. b \in Seq(Byte) /\ Len(b) = Len(s) + Len(t) + Len(u)
      /\ Carries(b, 1, s) /\ Carries(b, Len(s) + 1, t) /\ Carries(b, Len(s) + Len(t) + 1, u)
  BY <1>4, <1>6, ThreeFollow DEF Follows
<1>8. m[1] = <<>> => Len(s) = 0
  <2>1. m[1] = <<>> => s = <<>>
    BY <1>1 DEF PropertyIs
  <2> QED
    BY <2>1
<1>9. ASSUME m[1] # <<>> PROVE NumberAt(b, 0, 1, m[1][1], Len(s))
  <2>1. s = <<Header(1, "varint")>> \o WriteVarint(m[1][1]) /\ Len(s) = 1 + VarintLength(m[1][1])
    BY <1>1, <1>9 DEF PropertyIs
  <2>2. m[1][1] \in Numbers
    BY <1>9 DEF PartsAre
  <2>3. Carries(b, 0 + 1, <<Header(1, "varint")>> \o WriteVarint(m[1][1]))
    BY <1>7, <2>1
  <2>4. NumberAt(b, 0, 1, m[1][1], 0 + 1 + VarintLength(m[1][1]))
    BY <2>2, <2>3, NumberStands
  <2>5. 0 + 1 + VarintLength(m[1][1]) = Len(s)
    BY <2>1, VarintBytes
  <2> QED
    BY <2>4, <2>5
<1>10. ASSUME NEW at \in Nat, NEW p, NEW w, NEW header, NEW told, NEW body,
              FitsInto(w, p, header, told, body), p # <<>>, Carries(b, at + 1, w)
       PROVE  SubAt(b, at, header, told, body, at + Len(w))
  <2>1. SubIs(w, header, told, body) /\ Fits(BitsOf[told], 31) /\ body \in Seq(Byte) /\ header \in Byte
    BY <1>10 DEF FitsInto
  <2>2. SubAt(b, at, header, told, body, at + 1 + VarintLength(BitsOf[told]) + Len(body))
    BY <1>10, <2>1, SubStands DEF SubIs
  <2>3. Len(w) = 1 + VarintLength(BitsOf[told]) + Len(body) /\ Len(body) \in Nat
    BY <2>1, LenProperties DEF SubIs
  <2>4. VarintLength(BitsOf[told]) \in 1..4
    BY VarintBytes
  <2>5. at + 1 + VarintLength(BitsOf[told]) + Len(body) = at + Len(w)
    BY <2>3, <2>4
  <2> QED
    BY <2>2, <2>5
<1>11. m[2] # <<>> => SubAt(b, Len(s), Header(2, "object"), Len(object), object, Len(s) + Len(t))
  BY <1>2, <1>6, <1>7, <1>10
<1>12. m[3] # <<>> => SubAt(b, Len(s) + Len(t), Header(3, "packed"), ListLength(m[3][1]), list, Len(s) + Len(t) + Len(u))
  <2>1. Len(s) + Len(t) \in Nat
    BY <1>6
  <2> QED
    BY <1>3, <1>7, <1>10, <2>1
<1>13. ASSUME NEW k \in 1..3
       PROVE  /\ MessageAt(m, k) \in Nat /\ MessageAt(m, k - 1) <= MessageAt(m, k)
              /\ m[k] = <<>> => MessageAt(m, k) = MessageAt(m, k - 1)
  <2>1. (m[2] = <<>> => Len(t) = 0) /\ (m[3] = <<>> => Len(u) = 0)
    BY <1>2, <1>3 DEF FitsInto
  <2>2. \A x, y, z \in Nat : /\ x \in Nat /\ x + y \in Nat /\ x + y + z \in Nat /\ 0 <= x /\ x <= x + y /\ x + y <= x + y + z
                             /\ (y = 0 => x + y = x) /\ (z = 0 => x + y + z = x + y)
    OBVIOUS
  <2>3. CASE k = 1
    <3>1. k - 1 = 0
      BY <2>3
    <3> QED
      BY <1>5, <1>6, <1>8, <2>2, <2>3, <3>1
  <2>4. CASE k = 2
    <3>1. k - 1 = 1
      BY <2>4
    <3> QED
      BY <1>5, <1>6, <2>1, <2>2, <2>4, <3>1
  <2>5. CASE k = 3
    <3>1. k - 1 = 2
      BY <2>5
    <3> QED
      BY <1>5, <1>6, <2>1, <2>2, <2>5, <3>1
  <2> QED
    BY <2>3, <2>4, <2>5
<1> QED
  BY <1>5, <1>7, <1>9, <1>11, <1>12, <1>13 DEF MessageLaid, object, list, b

Upto(m, k) == [i \in 1..3 |-> IF i <= k THEN m[i] ELSE <<>>]
ObjectUpto(o, k) == [i \in 1..2 |-> IF i <= k THEN o[i] ELSE <<>>]

\* What is written of a property takes place.
LEMMA NumberGrows ==
  ASSUME NEW bs, NEW at \in Nat, NEW id, NEW v, NEW next, NumberAt(bs, at, id, v, next)
  PROVE  at < next
<1>1. next = at + 1 + VarintLength(v) /\ VarintLength(v) \in 1..4
  BY VarintBytes DEF NumberAt
<1> QED
  BY <1>1

\* A part takes a byte at least.
LEMMA SubGrows ==
  ASSUME NEW bs, NEW at \in Nat, NEW header, NEW told, NEW body \in Seq(Byte), NEW next, SubAt(bs, at, header, told, body, next)
  PROVE  at < next
<1>1. next = at + 1 + VarintLength(BitsOf[told]) + Len(body) /\ VarintLength(BitsOf[told]) \in 1..4
  BY VarintBytes DEF SubAt
<1>2. Len(body) \in Nat
  BY LenProperties
<1> QED
  BY <1>1, <1>2

Grows(m) == \A k \in 1..3 : m[k] # <<>> => MessageAt(m, k - 1) < MessageAt(m, k)

\* Properties that are written take bytes.
LEMMA MessageGrows ==
  ASSUME NEW m, PartsAre(m), MessageLaid(m)
  PROVE  Grows(m)
<1>1. MessageAt(m, 0) = 0 /\ \A k \in 1..3 : MessageAt(m, k) \in Nat
  BY DEF MessageLaid
<1>2. ASSUME m[1] # <<>> PROVE MessageAt(m, 0) < MessageAt(m, 1)
  <2>1. NumberAt(MessageBytes(m), 0, 1, m[1][1], MessageAt(m, 1))
    BY <1>2 DEF MessageLaid
  <2> QED
    BY <1>1, <2>1, NumberGrows
<1>3. ASSUME m[2] # <<>> PROVE MessageAt(m, 1) < MessageAt(m, 2)
  <2>1. SubAt(MessageBytes(m), MessageAt(m, 1), Header(2, "object"), Len(ObjectBytes(m[2][1])), ObjectBytes(m[2][1]), MessageAt(m, 2))
    BY <1>3 DEF MessageLaid
  <2>2. ObjectBytes(m[2][1]) \in Seq(Byte)
    BY <1>3, ObjectLaidOut DEF PartsAre, ObjectLaid
  <2> QED
    BY <1>1, <2>1, <2>2, SubGrows
<1>4. ASSUME m[3] # <<>> PROVE MessageAt(m, 2) < MessageAt(m, 3)
  <2>1. SubAt(MessageBytes(m), MessageAt(m, 2), Header(3, "packed"), ListLength(m[3][1]), ListBytes(m[3][1]), MessageAt(m, 3))
    BY <1>4 DEF MessageLaid
  <2>2. m[3][1] \in Seq(Numbers)
    BY <1>4, MessagesAssumption DEF PartsAre
  <2>3. ListBytes(m[3][1]) \in Seq(Byte)
    BY <2>2, ListLaidOut DEF LaidOut
  <2> QED
    BY <1>1, <2>1, <2>3, SubGrows
<1>5. ASSUME NEW k \in 1..3, m[k] # <<>> PROVE MessageAt(m, k - 1) < MessageAt(m, k)
  <2>1. 1 - 1 = 0 /\ 2 - 1 = 1 /\ 3 - 1 = 2 /\ \A i \in 1..3 : i = 1 \/ i = 2 \/ i = 3
    OBVIOUS
  <2> QED
    BY <1>2, <1>3, <1>4, <1>5, <2>1
<1> QED
  BY <1>5 DEF Grows

\* What follows a place: nothing, or the property that is written there.
NextIs(m, k, j) == m[j] # <<>> /\ MessageAt(m, j - 1) = MessageAt(m, k) /\ Upto(m, j - 1) = Upto(m, k)

\* The next property that was written, if the message is not at its end.
LEMMA NextOfMessage ==
  ASSUME NEW m \in Messages, PartsAre(m), MessageLaid(m), NEW k \in 0..3
  PROVE  \/ MessageAt(m, k) = MessageAt(m, 3) /\ Upto(m, k) = m
         \/ MessageAt(m, k) < MessageAt(m, 3) /\ \E j \in 1..3 : NextIs(m, k, j)
<1>1. Grows(m)
  BY MessageGrows
<1>2. \A i \in 1..3 : m[i] = <<>> => MessageAt(m, i) = MessageAt(m, i - 1)
  BY DEF MessageLaid
<1>3. \A i \in 0..3 : MessageAt(m, i) \in Nat
  <2>1. \A i \in 0..3 : i = 0 \/ i \in 1..3
    OBVIOUS
  <2> QED
    BY <2>1 DEF MessageLaid
<1>4. \A i \in 1..3 : MessageAt(m, i - 1) <= MessageAt(m, i)
  BY DEF MessageLaid
<1>5. m = [i \in 1..3 |-> m[i]]
  BY DEF Messages
<1> DEFINE Empties == {j \in 0..3 : j >= k /\ \A i \in (k + 1)..j : m[i] = <<>>}
<1>6. ASSUME NEW j \in Empties PROVE MessageAt(m, j) = MessageAt(m, k) /\ Upto(m, j) = Upto(m, k)
  <2>1. Upto(m, j) = Upto(m, k)
    <3>1. ASSUME NEW i \in 1..3 PROVE (IF i <= j THEN m[i] ELSE <<>>) = (IF i <= k THEN m[i] ELSE <<>>)
      <4>1. i <= j /\ i > k => i \in (k + 1)..j
        OBVIOUS
      <4> QED
        BY <4>1
    <3> QED
      BY <3>1 DEF Upto
  <2>2. MessageAt(m, j) = MessageAt(m, k)
    <3> DEFINE P == {i \in 0..3 : i >= k /\ i <= j => MessageAt(m, i) = MessageAt(m, k)}
    <3>1. 0 \in P
      OBVIOUS
    <3>2. ASSUME NEW i \in 1..3, i - 1 \in P PROVE i \in P
      <4>1. CASE i >= k + 1 /\ i <= j
        <5>1. MessageAt(m, i - 1) = MessageAt(m, k) /\ i \in (k + 1)..j
          BY <3>2, <4>1
        <5>2. m[i] = <<>>
          BY <5>1
        <5> QED
          BY <1>2, <5>1, <5>2
      <4>2. CASE ~(i >= k + 1 /\ i <= j)
        BY <4>2
      <4> QED
        BY <4>1, <4>2
    <3> HIDE DEF P
    <3>3. \A i \in 0..3 : i \in P
      <4>1. \A i \in 1..3 : i - 1 \in P => i \in P
        BY <3>2
      <4>2. 3 \in Nat
        OBVIOUS
      <4> QED
        BY <3>1, <4>1, <4>2, StepByStep
    <3> QED
      BY <3>3 DEF P
  <2> QED
    BY <2>1, <2>2
<1>7. CASE 3 \in Empties
  <2>1. MessageAt(m, 3) = MessageAt(m, k) /\ Upto(m, 3) = Upto(m, k)
    BY <1>6, <1>7
  <2>2. Upto(m, 3) = m
    BY <1>5 DEF Upto
  <2> QED
    BY <2>1, <2>2
<1>8. CASE 3 \notin Empties
  <2> DEFINE Full == {i \in (k + 1)..3 : m[i] # <<>>}
  <2>1. Full # {} /\ Full \subseteq Nat
    BY <1>8
  <2> HIDE DEF Empties
  <2>2. PICK j \in Full : \A i \in Full : j <= i
    <3> HIDE DEF Full
    <3> QED
      BY <2>1, LeastElement
  <2>3. j \in 1..3 /\ m[j] # <<>> /\ j >= k + 1 /\ \A i \in (k + 1)..(j - 1) : m[i] = <<>>
    BY <2>2
  <2>4. j - 1 \in Empties
    BY <2>3 DEF Empties
  <2>5. MessageAt(m, j - 1) = MessageAt(m, k) /\ Upto(m, j - 1) = Upto(m, k)
    BY <1>6, <2>4
  <2>6. MessageAt(m, j - 1) < MessageAt(m, j)
    BY <1>1, <2>3 DEF Grows
  <2>7. MessageAt(m, j) <= MessageAt(m, 3)
    <3>1. MessageAt(m, 1) <= MessageAt(m, 2) /\ MessageAt(m, 2) <= MessageAt(m, 3)
      <4>1. MessageAt(m, 2 - 1) <= MessageAt(m, 2) /\ MessageAt(m, 3 - 1) <= MessageAt(m, 3)
        BY <1>4
      <4>2. 2 - 1 = 1 /\ 3 - 1 = 2
        OBVIOUS
      <4> QED
        BY <4>1, <4>2
    <3>2. j = 1 \/ j = 2 \/ j = 3
      BY <2>3
    <3> QED
      BY <1>3, <3>1, <3>2
  <2>8. MessageAt(m, k) < MessageAt(m, 3)
    <3>1. j \in 0..3
      BY <2>3
    <3> QED
      BY <1>3, <2>5, <2>6, <2>7, <3>1
  <2> QED
    BY <2>3, <2>5, <2>8 DEF NextIs
<1> QED
  BY <1>7, <1>8

ObjectNextIs(o, k, j) == o[j] # <<>> /\ ObjectAt(o, j - 1) = ObjectAt(o, k) /\ ObjectUpto(o, j - 1) = ObjectUpto(o, k)

\* The next property of an object, if it is not at its end.
LEMMA NextOfObject ==
  ASSUME NEW o \in Objects, NEW k \in 0..2
  PROVE  \/ ObjectAt(o, k) = ObjectAt(o, 2) /\ ObjectUpto(o, k) = o
         \/ ObjectAt(o, k) < ObjectAt(o, 2) /\ \E j \in 1..2 : ObjectNextIs(o, k, j)
<1>1. ObjectLaid(o)
  BY ObjectLaidOut
<1>2. o = [i \in 1..2 |-> o[i]]
  BY DEF Objects
<1>3. ObjectAt(o, 0) = 0 /\ ObjectAt(o, 1) \in 0..ObjectAt(o, 2) /\ ObjectAt(o, 2) \in 0..10
  BY <1>1 DEF ObjectLaid
<1>4. (o[1] = <<>> => ObjectAt(o, 1) = ObjectAt(o, 0)) /\ (o[2] = <<>> => ObjectAt(o, 2) = ObjectAt(o, 1))
  <2>1. (o[1] = <<>> => ObjectAt(o, 1) = ObjectAt(o, 1 - 1)) /\ (o[2] = <<>> => ObjectAt(o, 2) = ObjectAt(o, 2 - 1))
    BY <1>1 DEF ObjectLaid
  <2>2. 1 - 1 = 0 /\ 2 - 1 = 1
    OBVIOUS
  <2> QED
    BY <2>1, <2>2
<1>5. o[1] # <<>> => ObjectAt(o, 0) < ObjectAt(o, 1)
  <2>1. o[1] # <<>> => NumberAt(ObjectBytes(o), ObjectAt(o, 1 - 1), 1, o[1][1], ObjectAt(o, 1))
    BY <1>1 DEF ObjectLaid
  <2>2. 1 - 1 = 0 /\ ObjectAt(o, 0) \in Nat
    BY <1>3
  <2> QED
    BY <2>1, <2>2, NumberGrows
<1>6. o[2] # <<>> => ObjectAt(o, 1) < ObjectAt(o, 2)
  <2>1. o[2] # <<>> => NumberAt(ObjectBytes(o), ObjectAt(o, 2 - 1), 2, o[2][1], ObjectAt(o, 2))
    BY <1>1 DEF ObjectLaid
  <2>2. 2 - 1 = 1 /\ ObjectAt(o, 1) \in Nat
    BY <1>3
  <2> QED
    BY <2>1, <2>2, NumberGrows
<1>7. /\ o[1] = <<>> => ObjectUpto(o, 1) = ObjectUpto(o, 0)
      /\ o[2] = <<>> => ObjectUpto(o, 2) = ObjectUpto(o, 1)
      /\ ObjectUpto(o, 2) = o
  <2>1. \A i \in 1..2 : i = 1 \/ i = 2
    OBVIOUS
  <2> QED
    BY <1>2, <2>1 DEF ObjectUpto
<1>8. 1 - 1 = 0 /\ 2 - 1 = 1 /\ 1 \in 1..2 /\ 2 \in 1..2
  OBVIOUS
<1>9. CASE k = 2
  BY <1>7, <1>9
<1>10. CASE k = 1
  <2>1. CASE o[2] = <<>>
    BY <1>4, <1>7, <1>10, <2>1
  <2>2. CASE o[2] # <<>>
    <3>1. ObjectNextIs(o, k, 2)
      BY <1>8, <1>10, <2>2 DEF ObjectNextIs
    <3> QED
      BY <1>6, <1>8, <1>10, <2>2, <3>1
  <2> QED
    BY <2>1, <2>2
<1>11. CASE k = 0
  <2>1. CASE o[1] # <<>>
    <3>1. ObjectNextIs(o, k, 1)
      BY <1>8, <1>11, <2>1 DEF ObjectNextIs
    <3>2. ObjectAt(o, 0) < ObjectAt(o, 2)
      BY <1>3, <1>5, <2>1
    <3> QED
      BY <1>8, <1>11, <3>1, <3>2
  <2>2. CASE o[1] = <<>> /\ o[2] # <<>>
    <3>1. ObjectNextIs(o, k, 2)
      BY <1>4, <1>7, <1>8, <1>11, <2>2 DEF ObjectNextIs
    <3> QED
      BY <1>4, <1>6, <1>8, <1>11, <2>2, <3>1
  <2>3. CASE o[1] = <<>> /\ o[2] = <<>>
    BY <1>4, <1>7, <1>11, <2>3
  <2> QED
    BY <2>1, <2>2, <2>3
<1> QED
  BY <1>9, <1>10, <1>11

-----------------------------------------------------------------------------
\* The reader is within what was written, whatever it was.
ReaderKinds == {"message", "object", "packed", "thrown", "read"}

Bounds ==
  /\ sent \in Messages /\ buffer = MessageBytes(sent) /\ Len(buffer) \in Nat
  /\ parser \in [kind : ReaderKinds, end : Nat, id : 0..3]
  /\ offset \in Nat /\ offset <= parser.end /\ parser.end <= Len(buffer)

\* Where the reader is in a message that is kept, and what it has read: between two
\* properties, in its object, in its list, or at its end.
AtProperty(k) == parser = Outer /\ offset = MessageAt(sent, k) /\ got = Upto(sent, k)

AtObject(k) ==
  /\ sent[2] # <<>> /\ got = Upto(sent, 1)
  /\ parser = [kind |-> "object", end |-> MessageAt(sent, 2), id |-> 2]
  /\ offset = MessageAt(sent, 2) - ObjectAt(sent[2][1], 2) + ObjectAt(sent[2][1], k)
  /\ inside = ObjectUpto(sent[2][1], k)

AtItem(g, n) ==
  /\ sent[3] # <<>> /\ got = Upto(sent, 2)
  /\ parser = [kind |-> "packed", end |-> MessageAt(sent, 3), id |-> 3]
  /\ LaidOut(sent[3][1], g)
  /\ offset = MessageAt(sent, 3) - g[Len(sent[3][1])] + g[n]
  /\ inside = SubSeq(sent[3][1], 1, n)

Reader ==
  \/ \E k \in 0..3 : AtProperty(k)
  \/ \E k \in 0..2 : AtObject(k)
  \/ sent[3] # <<>> /\ \E g \in [0..Len(sent[3][1]) -> Nat] : \E n \in 0..Len(sent[3][1]) : AtItem(g, n)
  \/ ReadAsSent

ProtoInv == Bounds /\ (AllKept /\ LengthTold => Reader)

\* The numbers of a message are kept.
PartsKept(m) ==
  /\ m[1] # <<>> => Representable("varint", m[1][1])
  /\ m[2] # <<>> => \A k \in 1..2 : m[2][1][k] # <<>> => Representable("varint", m[2][1][k][1])
  /\ m[3] # <<>> => /\ Representable("varint", BitsOf[ListLength(m[3][1])])
                    /\ \A j \in 1..Len(m[3][1]) : Representable("varint", m[3][1][j])

\* The numbers of a message that is kept are kept.
LEMMA KeptInParts ==
  ASSUME NEW m \in Messages, \A v \in NumbersOf(m) : Representable("varint", v)
  PROVE  PartsKept(m)
<1>1. m[1] \in Optional(Numbers) /\ m[2] \in Optional(Objects) /\ m[3] \in Optional(Lists)
  BY DEF Messages
<1>2. ASSUME m[1] # <<>> PROVE Representable("varint", m[1][1])
  <2>1. PICK v \in Numbers : m[1] = <<v>>
    BY <1>1, <1>2 DEF Optional
  <2>2. ToSet(m[1]) = {v} /\ m[1][1] = v
    BY <2>1, ElementsOfNothing
  <2>3. v \in NumbersOf(m)
    BY <2>2 DEF NumbersOf
  <2> QED
    BY <2>2, <2>3
<1>3. ASSUME m[2] # <<>>, NEW k \in 1..2, m[2][1][k] # <<>> PROVE Representable("varint", m[2][1][k][1])
  <2>1. PICK o \in Objects : m[2] = <<o>>
    BY <1>1, <1>3 DEF Optional
  <2>2. ToSet(m[2]) = {o} /\ m[2][1] = o
    BY <2>1, ElementsOfNothing
  <2>3. o[1] \in Optional(Numbers) /\ o[2] \in Optional(Numbers) /\ (k = 1 \/ k = 2)
    BY DEF Objects
  <2>4. PICK v \in Numbers : o[k] = <<v>>
    BY <1>3, <2>2, <2>3 DEF Optional
  <2>5. ToSet(o[k]) = {v} /\ o[k][1] = v
    BY <2>4, ElementsOfNothing
  <2>6. v \in NumbersOf(m)
    <3>1. v \in ToSet(o[1]) \union ToSet(o[2])
      BY <2>3, <2>5
    <3>2. v \in UNION {ToSet(x[1]) \union ToSet(x[2]) : x \in ToSet(m[2])}
      BY <2>2, <3>1
    <3> QED
      BY <3>2 DEF NumbersOf
  <2> QED
    BY <2>2, <2>5, <2>6
<1>4. ASSUME m[3] # <<>>
      PROVE  /\ Representable("varint", BitsOf[ListLength(m[3][1])])
             /\ \A j \in 1..Len(m[3][1]) : Representable("varint", m[3][1][j])
  <2>1. PICK l \in Lists : m[3] = <<l>>
    BY <1>1, <1>4 DEF Optional
  <2>2. ToSet(m[3]) = {l} /\ m[3][1] = l
    BY <2>1, ElementsOfNothing
  <2>3. ToSet(l) \union {BitsOf[ListLength(l)]} \subseteq NumbersOf(m)
    <3>1. ToSet(l) \union {BitsOf[ListLength(l)]} \in {ToSet(x) \union {BitsOf[ListLength(x)]} : x \in ToSet(m[3])}
      BY <2>2
    <3> QED
      BY <3>1 DEF NumbersOf
  <2>4. l \in Seq(Numbers)
    BY <2>1, MessagesAssumption
  <2>5. \A j \in 1..Len(l) : l[j] \in ToSet(l)
    BY <2>4, ElementsOf
  <2> QED
    BY <2>2, <2>3, <2>5
<1> QED
  BY <1>2, <1>3, <1>4 DEF PartsKept

\* Numbers of four bits are kept.
LEMMA SmallKept ==
  ASSUME NEW v, Fits(v, 4)
  PROVE  Representable("varint", v) /\ Fits(v, 31)
<1>1. Fits(v, 7) /\ Fits(v, 31)
  BY DEF Fits
<1>2. VarintLength(v) = 1
  BY <1>1 DEF VarintLength
<1>3. RoomFor(v, 1) /\ Filled(v, 1)
  BY <1>1 DEF RoomFor, Fits, Filled
<1> QED
  BY <1>1, <1>2, <1>3, KeptByVarint

-----------------------------------------------------------------------------
\* What the reader finds at a header.
FindsHeader(j) == Known /\ property = j

\* A header of a property of the message is found to be its own.
LEMMA HeaderOfMessage ==
  ASSUME parser.kind = "message", NEW j \in 1..3, head = Header(j, Schema["message"][j])
  PROVE  FindsHeader(j)
<1>1. Schema["message"] = <<"varint", "object", "packed">>
  BY DEF Schema
<1>2. DOMAIN Schema[parser.kind] = 1..3
  BY <1>1
<1>3. \A i \in 1..3 : Names(i) <=> i = j
  <2>1. Schema["message"][1] = "varint" /\ Schema["message"][2] = "object" /\ Schema["message"][3] = "packed"
    BY <1>1
  <2>2. \A i \in 1..3 : i = 1 \/ i = 2 \/ i = 3
    OBVIOUS
  <2>3. {3} # {1, 4} /\ {3} # {1, 3, 4} /\ {1, 4} # {1, 3, 4}
    OBVIOUS
  <2>4. \A i \in 1..3 : Header(i, Schema["message"][i]) = Header(j, Schema["message"][j]) => i = j
    BY <2>1, <2>2, <2>3, Headers
  <2> QED
    BY <2>4 DEF Names
<1> HIDE DEF Names, head
<1> QED
  BY <1>2, <1>3 DEF FindsHeader, Known, property

\* A header of a property of the object is found to be its own.
LEMMA HeaderOfObject ==
  ASSUME parser.kind = "object", NEW j \in 1..2, head = Header(j, Schema["object"][j])
  PROVE  FindsHeader(j)
<1>1. Schema["object"] = <<"varint", "varint">>
  BY DEF Schema
<1>2. DOMAIN Schema[parser.kind] = 1..2
  BY <1>1
<1>3. \A i \in 1..2 : Names(i) <=> i = j
  <2>1. Schema["object"][1] = "varint" /\ Schema["object"][2] = "varint"
    BY <1>1
  <2>2. \A i \in 1..2 : i = 1 \/ i = 2
    OBVIOUS
  <2>3. {3} # {4}
    OBVIOUS
  <2>4. \A i \in 1..2 : Header(i, Schema["object"][i]) = Header(j, Schema["object"][j]) => i = j
    BY <2>1, <2>2, <2>3, Headers
  <2> QED
    BY <2>4 DEF Names
<1> HIDE DEF Names, head
<1> QED
  BY <1>2, <1>3 DEF FindsHeader, Known, property

\* A number after the next bytes, that ends at a place.
FindsNumber(skip, v, next) == Ending(skip) = next /\ NumberNext(skip) = v /\ v # Overflow /\ offset + skip < next

\* A number that stands where the reader is is the one it reads.
LEMMA NumberFound ==
  ASSUME NEW skip \in {0, 1}, NEW v, Fits(v, 31), Representable("varint", v),
         buffer \in Seq(Byte), offset \in Nat, parser.end \in Nat, parser.end <= Len(buffer),
         Carries(buffer, offset + skip + 1, WriteVarint(v)), offset + skip + VarintLength(v) <= parser.end
  PROVE  FindsNumber(skip, v, offset + skip + VarintLength(v))
<1> DEFINE from == offset + skip + 1
           limit == parser.end
<1>1. from \in Nat /\ from > 0 /\ limit \in Nat /\ limit <= Len(buffer)
  OBVIOUS
<1>2. VarintLength(v) \in 1..4 /\ from + VarintLength(v) - 1 = offset + skip + VarintLength(v)
  <2>1. VarintLength(v) \in 1..4
    BY VarintBytes
  <2> QED
    BY <2>1
<1>3. buffer \in Seq(SUBSET (0..7))
  BY DEF Byte
<1>4. Carries(buffer, from, WriteVarint(v)) /\ from + VarintLength(v) - 1 <= limit
  BY <1>2
<1> HIDE DEF from, limit
<1>5. VarintEnd(buffer, from, limit) = from + VarintLength(v) - 1 /\ ReadTo(buffer, from, VarintEnd(buffer, from, limit)) = v
  BY <1>1, <1>3, <1>4, VarintAt
<1>6. Ending(skip) = offset + skip + VarintLength(v) /\ NumberNext(skip) = v
  BY <1>2, <1>5 DEF Ending, NumberNext, from, limit
<1>7. v # Overflow
  BY DEF Fits, Overflow
<1>8. offset + skip < offset + skip + VarintLength(v)
  BY <1>2
<1> QED
  BY <1>6, <1>7, <1>8 DEF FindsNumber

\* Any number that is read ends within what may be read.
LEMMA NumberEnds ==
  ASSUME NEW skip \in {0, 1}, offset \in Nat, parser.end \in Nat, NumberNext(skip) # Overflow
  PROVE  Ending(skip) \in (offset + skip + 1)..parser.end
<1> DEFINE from == offset + skip + 1
           limit == parser.end
           ends == {j \in from..limit : ~More(buffer[j]) \/ buffer[j] = {7}}
<1>1. Ending(skip) = IF ends = {} THEN 0 ELSE Min(ends)
  BY DEF Ending, VarintEnd, LastByte
<1>2. Ending(skip) # 0
  BY DEF NumberNext, ReadTo
<1>3. ends # {} /\ ends \subseteq Nat /\ Ending(skip) = Min(ends)
  BY <1>1, <1>2
<1> HIDE DEF ends
<1>4. Ending(skip) \in ends
  BY <1>3, LeastElement
<1> QED
  BY <1>4 DEF ends

\* A sequence over a set is one over a larger set.
LEMMA SeqOfMore ==
  ASSUME NEW S, NEW T, S \subseteq T, NEW s \in Seq(S)
  PROVE  s \in Seq(T)
<1>1. Len(s) \in Nat /\ s = [i \in 1..Len(s) |-> s[i]] /\ \A i \in 1..Len(s) : s[i] \in S
  OBVIOUS
<1> QED
  BY <1>1

\* Whatever the length that is told of its object, a message has a number of bytes.
LEMMA MessageHasLength ==
  ASSUME NEW m \in Messages
  PROVE  Len(MessageBytes(m)) \in Nat
<1> DEFINE s == NumberProperty(1, m[1])
           t == ObjectProperty(m[2])
           u == ListProperty(m[3])
           x == WriteVarint(BitsOf[LengthOf(m[2][1])])
           S == Byte \union {x[j] : j \in 1..4}
<1>1. m[1] \in Optional(Numbers) /\ m[2] \in Optional(Objects) /\ m[3] \in Optional(Lists)
  BY DEF Messages
<1>2. MessageBytes(m) = s \o t \o u
  BY DEF MessageBytes, NumberProperty, ObjectProperty, ListProperty
<1>3. s \in Seq(Byte)
  BY <1>1, NumberPropertyIs DEF PropertyIs
<1>4. u \in Seq(Byte)
  <2> DEFINE n == <<m[1], <<>>, m[3]>>
  <2>1. n[1] = m[1] /\ n[2] = <<>> /\ n[3] = m[3]
    OBVIOUS
  <2> HIDE DEF n
  <2>2. m[1] # <<>> => m[1][1] \in Numbers
    BY <1>1, OptionIs
  <2>3. m[3] # <<>> => m[3][1] \in Lists
    BY <1>1, OptionIs
  <2>4. PartsAre(n)
    BY <1>1, <2>1, <2>2, <2>3 DEF PartsAre
  <2>5. ListProperty(n[3]) \in Seq(Byte)
    BY <2>4, ListPropertyIs DEF FitsInto
  <2> QED
    BY <2>1, <2>5
<1>5. Byte \subseteq S
  OBVIOUS
<1>6. t \in Seq(S)
  <2>1. CASE m[2] = <<>>
    <3>1. t = <<>>
      BY <2>1 DEF ObjectProperty, PropertyBytes
    <3>2. <<>> \in Seq(S)
      OBVIOUS
    <3> QED
      BY <3>1, <3>2
  <2>2. CASE m[2] # <<>>
    <3> DEFINE body == ObjectBytes(m[2][1])
               h == <<Header(2, "object")>>
    <3>1. body \in Seq(Byte)
      <4>1. m[2][1] \in Objects
        BY <1>1, <2>2, OptionIs
      <4> QED
        BY <4>1, ObjectLaidOut DEF ObjectLaid
    <3>2. x \in Seq(S)
      <4> DEFINE k == VarintLength(BitsOf[LengthOf(m[2][1])])
      <4>1. k \in 1..4
        BY VarintBytes
      <4>2. x = [j \in 1..k |-> x[j]] /\ \A j \in 1..k : x[j] \in S
        BY <4>1 DEF WriteVarint, Groups
      <4> HIDE DEF k, x, S
      <4> QED
        BY <4>1, <4>2
    <3>3. Header(2, "object") \in Byte
      BY Headers DEF Byte
    <3>4. t = IF x \o body = <<>> THEN <<>> ELSE h \o (x \o body)
      BY <2>2 DEF ObjectProperty, SubBytes, PropertyBytes
    <3> HIDE DEF x, S, body
    <3>5. h \in Seq(S)
      BY <1>5, <3>3
    <3> HIDE DEF h, t
    <3>6. body \in Seq(S)
      BY <1>5, <3>1, SeqOfMore
    <3>7. x \o body \in Seq(S)
      BY <3>2, <3>6, ConcatParts
    <3> DEFINE y == x \o body
    <3>8. y \in Seq(S)
      BY <3>7
    <3>9. t = IF y = <<>> THEN <<>> ELSE h \o y
      BY <3>4
    <3> HIDE DEF y
    <3>10. h \o y \in Seq(S)
      BY <3>5, <3>8, ConcatParts
    <3>11. <<>> \in Seq(S)
      OBVIOUS
    <3> QED
      BY <3>9, <3>10, <3>11
  <2> QED
    BY <2>1, <2>2
<1> HIDE DEF s, t, u, S
<1>7. s \in Seq(S)
  BY <1>3, <1>5, SeqOfMore
<1>8. u \in Seq(S)
  BY <1>4, <1>5, SeqOfMore
<1>9. s \o t \o u \in Seq(S)
  BY <1>6, <1>7, <1>8, ThreeFollow
<1>10. Len(s \o t \o u) \in Nat
  BY <1>9, LenProperties
<1> QED
  BY <1>2, <1>10

\* The reader starts before the first property.
LEMMA MessagesStart == ProtoInit => ProtoInv
<1> SUFFICES ASSUME ProtoInit PROVE ProtoInv
  OBVIOUS
<1>1. sent \in Messages
  BY DEF ProtoInit, Messages, Objects
<1>2. Len(buffer) \in Nat /\ buffer = MessageBytes(sent)
  BY <1>1, MessageHasLength DEF ProtoInit
<1>3. parser = Outer /\ offset = 0
  BY DEF ProtoInit
<1>4. parser \in [kind : ReaderKinds, end : Nat, id : 0..3] /\ parser.end = Len(buffer)
  BY <1>2, <1>3 DEF Outer, ReaderKinds
<1>5. Bounds
  BY <1>1, <1>2, <1>3, <1>4 DEF Bounds
<1>6. AtProperty(0)
  <2>1. got = <<<<>>, <<>>, <<>>>>
    BY DEF ProtoInit
  <2>2. <<<<>>, <<>>, <<>>>> = [i \in 1..3 |-> IF i <= 0 THEN sent[i] ELSE <<>>]
    OBVIOUS
  <2> QED
    BY <1>3, <2>1, <2>2 DEF AtProperty, MessageAt, Upto
<1>7. 0 \in 0..3
  OBVIOUS
<1> QED
  BY <1>5, <1>6, <1>7 DEF ProtoInv, Reader

-----------------------------------------------------------------------------
\* Nothing is read beyond a part of the message, nor beyond the message.
SameBytes == sent' = sent /\ buffer' = buffer

\* So does throwing, which moves nothing.
LEMMA Thrown ==
  ASSUME Bounds, Throws, SameBytes
  PROVE  Bounds'
<1>1. parser \in [kind : ReaderKinds, end : Nat, id : 0..3]
  BY DEF Bounds
<1>2. parser' = [parser EXCEPT !.kind = "thrown"] /\ offset' = offset
  BY DEF Throws
<1>3. parser' \in [kind : ReaderKinds, end : Nat, id : 0..3] /\ parser'.end = parser.end
  BY <1>1, <1>2 DEF ReaderKinds
<1> QED
  BY <1>2, <1>3 DEF Bounds, SameBytes

\* Moving on within its part keeps the reader in what was written.
LEMMA Moved ==
  ASSUME Bounds, SameBytes, parser' = parser, offset' \in Nat, offset' <= parser.end
  PROVE  Bounds'
BY DEF Bounds, SameBytes

\* No call of the reader goes beyond the part it reads.
LEMMA BoundsStep ==
  ASSUME Bounds, ProtoNext
  PROVE  Bounds'
<1>1. /\ offset \in Nat /\ parser \in [kind : ReaderKinds, end : Nat, id : 0..3] /\ parser.end \in Nat
      /\ offset <= parser.end /\ parser.end <= Len(buffer) /\ Len(buffer) \in Nat
  BY DEF Bounds
<1>2. SameBytes
  BY DEF ProtoNext, ReadUnknown, ReadNothing, ReadNumberProperty, OpenSub, ReadItem, CloseSub, MessageRead, SameBytes
<1>3. CASE ReadUnknown
  BY <1>2, <1>3, Thrown DEF ReadUnknown
<1>4. CASE ReadNothing
  <2>1. offset' = offset + 1 /\ offset + 1 = parser.end /\ parser' = parser
    BY <1>4 DEF ReadNothing
  <2>2. offset' \in Nat /\ offset' <= parser.end
    BY <1>1, <2>1
  <2> QED
    BY <1>2, <2>1, <2>2, Moved
<1>5. CASE ReadNumberProperty
  <2>1. CASE NumberNext(1) = Overflow
    BY <1>2, <1>5, <2>1, Thrown DEF ReadNumberProperty
  <2>2. CASE NumberNext(1) # Overflow
    <3>1. offset' = Ending(1) /\ parser' = parser
      BY <1>5, <2>2 DEF ReadNumberProperty
    <3>2. Ending(1) \in (offset + 1 + 1)..parser.end
      BY <1>1, <2>2, NumberEnds
    <3>3. offset' \in Nat /\ offset' <= parser.end
      BY <1>1, <3>1, <3>2
    <3> QED
      BY <1>2, <3>1, <3>3, Moved
  <2> QED
    BY <2>1, <2>2
<1>6. CASE OpenSub
  <2>1. CASE NumberNext(1) = Overflow
    BY <1>2, <1>6, <2>1, Thrown DEF OpenSub
  <2> DEFINE Lengths == {n \in 0..(parser.end - Ending(1)) : BitsOf[n] = NumberNext(1)}
  <2>2. CASE NumberNext(1) # Overflow /\ Lengths = {}
    <3>1. TooLong
      BY <1>6, <2>2 DEF OpenSub
    <3>2. offset' = offset + 1 /\ parser' = parser /\ offset + 1 < parser.end
      BY <1>6, <3>1 DEF TooLong, OpenSub
    <3>3. offset' \in Nat /\ offset' <= parser.end
      BY <1>1, <3>2
    <3> QED
      BY <1>2, <3>2, <3>3, Moved
  <2>3. CASE NumberNext(1) # Overflow /\ Lengths # {}
    <3> DEFINE n == CHOOSE n \in 0..(parser.end - Ending(1)) : BitsOf[n] = NumberNext(1)
               kind == Schema[parser.kind][property]
    <3>1. \E i \in 0..(parser.end - Ending(1)) : BitsOf[i] = NumberNext(1)
      BY <2>3
    <3>2. n \in 0..(parser.end - Ending(1))
      BY <3>1
    <3>3. parser' = [kind |-> kind, end |-> Ending(1) + n, id |-> property] /\ offset' = Ending(1)
      BY <1>6, <2>3, <3>1 DEF OpenSub
    <3>4. kind \in {"object", "packed"} /\ Known /\ parser.kind \in DOMAIN Schema
      BY <1>6 DEF OpenSub, Is, InMessage
    <3>5. property \in 0..3
      <4>1. property \in DOMAIN Schema[parser.kind]
        BY <3>4 DEF Known, property
      <4>2. DOMAIN Schema[parser.kind] \subseteq 0..3
        <5>1. Schema["message"] = <<"varint", "object", "packed">> /\ Schema["object"] = <<"varint", "varint">>
              /\ DOMAIN Schema = {"message", "object"}
          BY DEF Schema
        <5>2. DOMAIN Schema["message"] = 1..3 /\ DOMAIN Schema["object"] = 1..2
          BY <5>1
        <5> QED
          BY <3>4, <5>1, <5>2
      <4> QED
        BY <4>1, <4>2
    <3> HIDE DEF n, kind
    <3>6. Ending(1) \in (offset + 1 + 1)..parser.end
      BY <1>1, <2>3, NumberEnds
    <3>7. Ending(1) \in Nat /\ Ending(1) + n \in Nat /\ Ending(1) <= Ending(1) + n /\ Ending(1) + n <= parser.end
      BY <1>1, <3>2, <3>6
    <3>8. parser' \in [kind : ReaderKinds, end : Nat, id : 0..3] /\ parser'.end = Ending(1) + n
      BY <3>3, <3>4, <3>5, <3>7 DEF ReaderKinds
    <3>9. parser'.end <= Len(buffer) /\ offset' <= parser'.end /\ offset' \in Nat
      BY <1>1, <3>3, <3>7, <3>8
    <3> QED
      BY <1>2, <3>8, <3>9 DEF Bounds, SameBytes
  <2> QED
    BY <2>1, <2>2, <2>3
<1>7. CASE ReadItem
  <2>1. CASE NumberNext(0) = Overflow
    BY <1>2, <1>7, <2>1, Thrown DEF ReadItem
  <2>2. CASE NumberNext(0) # Overflow
    <3>1. offset' = Ending(0) /\ parser' = parser
      BY <1>7, <2>2 DEF ReadItem
    <3>2. Ending(0) \in (offset + 0 + 1)..parser.end
      BY <1>1, <2>2, NumberEnds
    <3>3. offset' \in Nat /\ offset' <= parser.end
      BY <1>1, <3>1, <3>2
    <3> QED
      BY <1>2, <3>1, <3>3, Moved
  <2> QED
    BY <2>1, <2>2
<1>8. CASE CloseSub
  <2>1. parser' = Outer /\ offset' = offset /\ offset = parser.end
    BY <1>8 DEF CloseSub
  <2>2. parser' \in [kind : ReaderKinds, end : Nat, id : 0..3] /\ parser'.end = Len(buffer)
    BY <1>1, <2>1 DEF Outer, ReaderKinds
  <2>3. offset' \in Nat /\ offset' <= parser'.end
    BY <1>1, <2>1, <2>2
  <2>4. parser'.end <= Len(buffer')
    BY <1>1, <1>2, <2>2 DEF SameBytes
  <2> QED
    BY <1>2, <2>2, <2>3, <2>4 DEF Bounds, SameBytes
<1>9. CASE MessageRead
  <2>1. parser' = [parser EXCEPT !.kind = "read"] /\ offset' = offset
    BY <1>9 DEF MessageRead
  <2>2. parser' \in [kind : ReaderKinds, end : Nat, id : 0..3] /\ parser'.end = parser.end
    BY <1>1, <2>1 DEF ReaderKinds
  <2> QED
    BY <1>2, <2>1, <2>2 DEF Bounds, SameBytes
<1> QED
  BY <1>3, <1>4, <1>5, <1>6, <1>7, <1>8, <1>9 DEF ProtoNext

\* The kinds of the properties.
LEMMA SchemaIs ==
  /\ DOMAIN Schema = {"message", "object"}
  /\ Schema["message"][1] = "varint" /\ Schema["message"][2] = "object" /\ Schema["message"][3] = "packed"
  /\ \A j \in 1..2 : Schema["object"][j] = "varint"
<1>1. Schema["message"] = <<"varint", "object", "packed">> /\ Schema["object"] = <<"varint", "varint">>
  BY DEF Schema
<1>2. \A j \in 1..2 : j = 1 \/ j = 2
  OBVIOUS
<1> QED
  BY <1>1, <1>2 DEF Schema

\* Nobody writes while the reader reads.
LEMMA StepStays == ProtoNext => SameBytes
BY DEF ProtoNext, ReadUnknown, ReadNothing, ReadNumberProperty, OpenSub, ReadItem, CloseSub, MessageRead, SameBytes

\* What the reader does where a number stands, where an inner parser begins, where
\* one ends, and at the end of the message.
SetsNumber(j, v, next) ==
  /\ parser' = parser /\ offset' = next
  /\ IF parser.kind = "message" THEN got' = [got EXCEPT ![j] = <<v>>]
     ELSE got' = got /\ inside' = [inside EXCEPT ![j] = <<v>>]

\* A property that is a number is read.
LEMMA NumberIsSet ==
  ASSUME ProtoNext, NEW j, NEW v, NEW next \in Nat, parser.kind \in {"message", "object"}, FindsHeader(j),
         Schema[parser.kind][j] = "varint", FindsNumber(1, v, next),
         offset \in Nat, parser.end \in Nat, next <= parser.end
  PROVE  SetsNumber(j, v, next)
<1>1. Known /\ property = j
  BY DEF FindsHeader
<1>2. Ending(1) = next /\ NumberNext(1) = v /\ v # Overflow /\ offset + 1 < parser.end
  BY DEF FindsNumber
<1>3. ~ReadUnknown
  BY <1>1 DEF ReadUnknown
<1>4. ~ReadNothing
  BY <1>2 DEF ReadNothing
<1>5. ~OpenSub
  BY <1>1 DEF OpenSub, Is
<1>6. ~ReadItem /\ ~CloseSub /\ ~MessageRead
  BY <1>2 DEF ReadItem, CloseSub, MessageRead
<1>7. ReadNumberProperty
  BY <1>3, <1>4, <1>5, <1>6 DEF ProtoNext
<1>8. Set(<<v>>) /\ offset' = next /\ parser' = parser
  BY <1>2, <1>7 DEF ReadNumberProperty
<1> QED
  BY <1>1, <1>8 DEF SetsNumber, Set

OpensInner(kind, j, next, length) ==
  /\ parser' = [kind |-> kind, end |-> next + length, id |-> j] /\ offset' = next
  /\ inside' = Empty(kind) /\ got' = got

\* An inner parser begins.
LEMMA SubIsOpened ==
  ASSUME ProtoNext, NEW j, NEW length \in Nat, NEW next \in Nat, parser.kind = "message", FindsHeader(j),
         Schema["message"][j] \in {"object", "packed"}, FindsNumber(1, BitsOf[length], next),
         offset \in Nat, parser.end \in Nat, next + length <= parser.end
  PROVE  OpensInner(Schema["message"][j], j, next, length)
<1>1. Known /\ property = j
  BY DEF FindsHeader
<1>2. Ending(1) = next /\ NumberNext(1) = BitsOf[length] /\ NumberNext(1) # Overflow /\ offset + 1 < parser.end
  BY DEF FindsNumber
<1>3. ~ReadUnknown
  BY <1>1 DEF ReadUnknown
<1>4. ~ReadNothing
  BY <1>2 DEF ReadNothing
<1>5. ~ReadNumberProperty
  BY <1>1 DEF ReadNumberProperty, Is
<1>6. ~ReadItem /\ ~CloseSub /\ ~MessageRead
  BY <1>2 DEF ReadItem, CloseSub, MessageRead
<1>7. OpenSub
  BY <1>3, <1>4, <1>5, <1>6 DEF ProtoNext
<1> DEFINE n == CHOOSE n \in 0..(parser.end - Ending(1)) : BitsOf[n] = NumberNext(1)
<1>8. length \in 0..(parser.end - Ending(1)) /\ BitsOf[length] = NumberNext(1)
  BY <1>2
<1>9. n = length
  <2>1. n \in 0..(parser.end - Ending(1)) /\ BitsOf[n] = NumberNext(1)
    BY <1>8
  <2>2. n \in Nat
    BY <2>1
  <2> HIDE DEF n
  <2> QED
    BY <1>2, <2>1, <2>2, BitsTellNumbersApart
<1>10. /\ parser' = [kind |-> Schema[parser.kind][property], end |-> Ending(1) + n, id |-> property]
       /\ offset' = Ending(1) /\ inside' = Empty(Schema[parser.kind][property]) /\ got' = got
  BY <1>2, <1>7, <1>8 DEF OpenSub
<1> HIDE DEF n
<1> QED
  BY <1>1, <1>2, <1>9, <1>10 DEF OpensInner

\* An inner parser returns.
LEMMA SubIsClosed ==
  ASSUME ProtoNext, parser.kind \in {"object", "packed"}, offset = parser.end, offset \in Nat
  PROVE  got' = [got EXCEPT ![parser.id] = <<inside>>] /\ parser' = Outer /\ offset' = offset
<1>1. ~ReadUnknown /\ ~ReadNothing /\ ~ReadNumberProperty /\ ~OpenSub /\ ~ReadItem /\ ~MessageRead
  BY DEF ReadUnknown, ReadNothing, ReadNumberProperty, OpenSub, ReadItem, MessageRead, Is, InMessage
<1>2. CloseSub
  BY <1>1 DEF ProtoNext
<1> QED
  BY <1>2 DEF CloseSub

\* The outer parser returns.
LEMMA EndOfMessage ==
  ASSUME ProtoNext, parser.kind = "message", offset = parser.end, offset \in Nat
  PROVE  got' = got /\ parser' = [parser EXCEPT !.kind = "read"]
<1>1. ~ReadUnknown /\ ~ReadNothing /\ ~ReadNumberProperty /\ ~OpenSub /\ ~ReadItem /\ ~CloseSub
  BY DEF ReadUnknown, ReadNothing, ReadNumberProperty, OpenSub, ReadItem, CloseSub, Is, InMessage
<1>2. MessageRead
  BY <1>1 DEF ProtoNext
<1> QED
  BY <1>2 DEF MessageRead

\* Nothing is read once the message is.
LEMMA NothingAfterTheEnd ==
  ASSUME parser.kind = "read"
  PROVE  ~ProtoNext
BY SchemaIs DEF ProtoNext, ReadUnknown, ReadNothing, ReadNumberProperty, OpenSub, ReadItem, CloseSub, MessageRead, Is, InMessage

-----------------------------------------------------------------------------
Layout ==
  /\ PartsAre(sent) /\ MessageLaid(sent) /\ PartsKept(sent)
  /\ buffer \in Seq(Byte) /\ Len(buffer) = MessageAt(sent, 3) /\ \A k \in 0..3 : MessageAt(sent, k) \in Nat

\* Where the properties stand in a message that is kept.
LEMMA LayoutKnown ==
  ASSUME Bounds, AllKept, LengthTold
  PROVE  Layout
<1>1. sent \in Messages /\ buffer = MessageBytes(sent)
  BY DEF Bounds
<1>2. PartsAre(sent)
  BY <1>1, MessageParts DEF LengthTold
<1>3. PartsKept(sent)
  BY <1>1, KeptInParts DEF AllKept
<1>4. MessageLaid(sent)
  BY <1>2, MessageLaidOut
<1>5. \A k \in 0..3 : MessageAt(sent, k) \in Nat
  <2>1. \A i \in 0..3 : i = 0 \/ i \in 1..3
    OBVIOUS
  <2> QED
    BY <1>4, <2>1 DEF MessageLaid
<1>6. buffer \in Seq(Byte) /\ Len(buffer) = MessageAt(sent, 3)
  BY <1>1, <1>4 DEF MessageLaid
<1> QED
  BY <1>2, <1>3, <1>4, <1>5, <1>6 DEF Layout

\* A number that stands where the reader is.
LEMMA NumberHere ==
  ASSUME NEW id, NEW v \in Numbers, Representable("varint", v), NEW next \in Nat, NumberAt(buffer, offset, id, v, next),
         buffer \in Seq(Byte), offset \in Nat, parser.end \in Nat, parser.end <= Len(buffer), next <= parser.end
  PROVE  head = Header(id, "varint") /\ FindsNumber(1, v, next)
<1>1. head = Header(id, "varint") /\ Carries(buffer, offset + 2, WriteVarint(v)) /\ next = offset + 1 + VarintLength(v)
  BY DEF NumberAt, head
<1>2. Fits(v, 31)
  BY MessagesAssumption, VarintAccepts
<1>3. offset + 2 = offset + 1 + 1
  OBVIOUS
<1>4. FindsNumber(1, v, offset + 1 + VarintLength(v))
  <2> SUFFICES ASSUME NEW skip \in {0, 1}, skip = 1 PROVE FindsNumber(skip, v, offset + skip + VarintLength(v))
    OBVIOUS
  <2>1. Carries(buffer, offset + skip + 1, WriteVarint(v)) /\ offset + skip + VarintLength(v) <= parser.end
    BY <1>1, <1>3
  <2> QED
    BY <1>2, <2>1, NumberFound
<1> QED
  BY <1>1, <1>4

\* The length of an inner parser, and what it reads.
LEMMA SubHere ==
  ASSUME NEW header, NEW length \in Nat, Representable("varint", BitsOf[length]), Fits(BitsOf[length], 31), NEW body \in Seq(Byte),
         Len(body) = length, NEW next \in Nat, SubAt(buffer, offset, header, length, body, next),
         buffer \in Seq(Byte), offset \in Nat, parser.end \in Nat, parser.end <= Len(buffer), next <= parser.end
  PROVE  /\ head = header /\ next - length \in Nat
         /\ FindsNumber(1, BitsOf[length], next - length) /\ Carries(buffer, next - length + 1, body)
<1> DEFINE k == VarintLength(BitsOf[length])
<1>1. /\ head = header /\ Carries(buffer, offset + 2, WriteVarint(BitsOf[length]))
      /\ Carries(buffer, offset + 2 + k, body) /\ next = offset + 1 + k + length
  BY DEF SubAt, head
<1>2. k \in 1..4
  BY VarintBytes
<1>3. FindsNumber(1, BitsOf[length], offset + 1 + k)
  <2> SUFFICES ASSUME NEW skip \in {0, 1}, skip = 1 PROVE FindsNumber(skip, BitsOf[length], offset + skip + k)
    OBVIOUS
  <2>1. offset + skip + 1 = offset + 2 /\ offset + skip + k <= parser.end
    BY <1>1, <1>2
  <2>2. Carries(buffer, offset + skip + 1, WriteVarint(BitsOf[length]))
    BY <1>1, <2>1
  <2> QED
    BY <2>1, <2>2, NumberFound
<1> HIDE DEF k
<1>4. offset + 1 + k = next - length /\ next - length \in Nat /\ next - length + 1 = offset + 2 + k
  BY <1>1, <1>2
<1> QED
  BY <1>1, <1>3, <1>4

\* One more property of the message is read.
LEMMA OneMore ==
  ASSUME NEW m \in Messages, NEW j \in 1..3, m[j] # <<>>
  PROVE  [Upto(m, j - 1) EXCEPT ![j] = <<m[j][1]>>] = Upto(m, j)
<1>1. m[j] = <<m[j][1]>>
  <2>1. m[1] \in Optional(Numbers) /\ m[2] \in Optional(Objects) /\ m[3] \in Optional(Lists) /\ (j = 1 \/ j = 2 \/ j = 3)
    BY DEF Messages
  <2> QED
    BY <2>1, OptionIs
<1>2. ASSUME NEW i \in 1..3
      PROVE  (IF i = j THEN m[j] ELSE IF i <= j - 1 THEN m[i] ELSE <<>>) = (IF i <= j THEN m[i] ELSE <<>>)
  OBVIOUS
<1>3. [Upto(m, j - 1) EXCEPT ![j] = m[j]] = [i \in 1..3 |-> IF i = j THEN m[j] ELSE IF i <= j - 1 THEN m[i] ELSE <<>>]
  BY DEF Upto
<1>4. [Upto(m, j - 1) EXCEPT ![j] = m[j]] = Upto(m, j)
  BY <1>2, <1>3 DEF Upto
<1> QED
  BY <1>1, <1>4

\* One more property of the object is read.
LEMMA OneMoreOfObject ==
  ASSUME NEW o \in Objects, NEW j \in 1..2, o[j] # <<>>
  PROVE  [ObjectUpto(o, j - 1) EXCEPT ![j] = <<o[j][1]>>] = ObjectUpto(o, j)
<1>1. o[j] = <<o[j][1]>>
  <2>1. o[1] \in Optional(Numbers) /\ o[2] \in Optional(Numbers) /\ (j = 1 \/ j = 2)
    BY DEF Objects
  <2> QED
    BY <2>1, OptionIs
<1>2. ASSUME NEW i \in 1..2
      PROVE  (IF i = j THEN o[j] ELSE IF i <= j - 1 THEN o[i] ELSE <<>>) = (IF i <= j THEN o[i] ELSE <<>>)
  OBVIOUS
<1>3. [ObjectUpto(o, j - 1) EXCEPT ![j] = o[j]] = [i \in 1..2 |-> IF i = j THEN o[j] ELSE IF i <= j - 1 THEN o[i] ELSE <<>>]
  BY DEF ObjectUpto
<1>4. [ObjectUpto(o, j - 1) EXCEPT ![j] = o[j]] = ObjectUpto(o, j)
  BY <1>2, <1>3 DEF ObjectUpto
<1> QED
  BY <1>1, <1>4

\* The reader between two properties.
LEMMA FromProperty ==
  ASSUME Bounds, Layout, NEW k \in 0..3, AtProperty(k), ProtoNext
  PROVE  Reader'
<1>1. SameBytes /\ sent \in Messages
  BY StepStays DEF Bounds
<1>2. parser = [kind |-> "message", end |-> Len(buffer), id |-> 0] /\ offset = MessageAt(sent, k) /\ got = Upto(sent, k)
  BY DEF AtProperty, Outer
<1>3. parser.kind = "message" /\ parser.end = MessageAt(sent, 3) /\ parser.end \in Nat /\ offset \in Nat /\ parser.end <= Len(buffer)
  BY <1>2 DEF Layout, Bounds
<1>4. Outer' = Outer
  BY <1>1 DEF Outer, SameBytes
<1>5. CASE MessageAt(sent, k) = MessageAt(sent, 3) /\ Upto(sent, k) = sent
  <2>1. got' = got /\ parser' = [parser EXCEPT !.kind = "read"]
    BY <1>2, <1>3, <1>5, EndOfMessage
  <2>2. got' = sent' /\ parser'.kind = "read"
    BY <1>1, <1>2, <1>5, <2>1 DEF SameBytes
  <2> QED
    BY <2>2 DEF Reader, ReadAsSent
<1>6. CASE \E j \in 1..3 : NextIs(sent, k, j)
  <2>1. PICK j \in 1..3 : NextIs(sent, k, j)
    BY <1>6
  <2>2. sent[j] # <<>> /\ offset = MessageAt(sent, j - 1) /\ got = Upto(sent, j - 1)
    BY <1>2, <2>1 DEF NextIs
  <2>3. 1 - 1 = 0 /\ 2 - 1 = 1 /\ 3 - 1 = 2 /\ \A i \in 1..3 : (i = 1 \/ i = 2 \/ i = 3) /\ i \in 0..3
    OBVIOUS
  <2>4. MessageAt(sent, j) \in Nat /\ MessageAt(sent, j) <= parser.end
    <3>1. /\ MessageAt(sent, 1) \in Nat /\ MessageAt(sent, 2) \in Nat /\ MessageAt(sent, 3) \in Nat
          /\ MessageAt(sent, 2 - 1) <= MessageAt(sent, 2) /\ MessageAt(sent, 3 - 1) <= MessageAt(sent, 3)
      BY DEF Layout, MessageLaid
    <3> QED
      BY <1>3, <2>3, <3>1
  <2>5. buffer \in Seq(Byte) /\ buffer = MessageBytes(sent)
    BY DEF Layout, Bounds
  <2>6. CASE j = 1
    <3> DEFINE v == sent[1][1]
    <3>1. v \in Numbers /\ Representable("varint", v)
      BY <2>2, <2>6 DEF Layout, PartsAre, PartsKept
    <3>2. NumberAt(buffer, offset, 1, v, MessageAt(sent, 1))
      <4>1. NumberAt(buffer, 0, 1, v, MessageAt(sent, 1))
        BY <2>2, <2>5, <2>6 DEF Layout, MessageLaid
      <4>2. offset = 0
        BY <2>2, <2>3, <2>6 DEF MessageAt
      <4> QED
        BY <4>1, <4>2
    <3> HIDE DEF v
    <3>3. head = Header(1, "varint") /\ FindsNumber(1, v, MessageAt(sent, 1))
      BY <1>3, <2>4, <2>5, <2>6, <3>1, <3>2, NumberHere
    <3>4. FindsHeader(j)
      BY <1>3, <2>6, <3>3, SchemaIs, HeaderOfMessage
    <3>5. SetsNumber(j, v, MessageAt(sent, 1))
      BY <1>3, <2>4, <2>6, <3>3, <3>4, SchemaIs, NumberIsSet
    <3>6. parser' = parser /\ offset' = MessageAt(sent, 1) /\ got' = [got EXCEPT ![1] = <<v>>]
      BY <1>3, <2>6, <3>5 DEF SetsNumber
    <3>7. got' = Upto(sent, 1)
      BY <1>1, <2>2, <2>3, <2>6, <3>6, OneMore DEF v
    <3>8. AtProperty(1)'
      BY <1>1, <1>2, <1>4, <3>6, <3>7 DEF AtProperty, SameBytes, Outer
    <3> QED
      BY <2>3, <3>8 DEF Reader
  <2>7. CASE j = 2
    <3> DEFINE o == sent[2][1]
               body == ObjectBytes(o)
               length == Len(body)
               next == MessageAt(sent, 2)
    <3>1. o \in Objects
      BY <2>2, <2>7 DEF Layout, PartsAre
    <3>2. body \in Seq(Byte) /\ length = ObjectAt(o, 2) /\ length \in 0..10 /\ ObjectAt(o, 0) = 0
      BY <3>1, ObjectLaidOut DEF ObjectLaid
    <3>3. SubAt(buffer, offset, Header(2, "object"), length, body, next)
      BY <2>2, <2>3, <2>5, <2>7 DEF Layout, MessageLaid
    <3> HIDE DEF o, body
    <3>4. length \in Nat /\ length \in 0..15
      BY <3>2
    <3> HIDE DEF length
    <3>5. Representable("varint", BitsOf[length]) /\ Fits(BitsOf[length], 31)
      BY <3>4, SmallFits, SmallKept
    <3>6. head = Header(2, "object") /\ next - length \in Nat /\ FindsNumber(1, BitsOf[length], next - length)
      BY <1>3, <2>4, <2>5, <2>7, <3>2, <3>3, <3>4, <3>5, SubHere DEF length
    <3>7. FindsHeader(j)
      BY <1>3, <2>7, <3>6, SchemaIs, HeaderOfMessage
    <3>8. (next - length) + length = next /\ (next - length) + length <= parser.end
      BY <2>4, <2>7, <3>4
    <3>9. OpensInner("object", 2, next - length, length)
      BY <1>3, <2>7, <3>4, <3>6, <3>7, <3>8, SchemaIs, SubIsOpened
    <3>10. parser' = [kind |-> "object", end |-> next, id |-> 2] /\ offset' = next - length
           /\ inside' = <<<<>>, <<>>>> /\ got' = got
      BY <3>8, <3>9 DEF OpensInner, Empty
    <3>11. inside' = ObjectUpto(o, 0)
      <4>1. <<<<>>, <<>>>> = [i \in 1..2 |-> IF i <= 0 THEN o[i] ELSE <<>>]
        OBVIOUS
      <4> QED
        BY <3>10, <4>1 DEF ObjectUpto
    <3>12. offset' = next - ObjectAt(o, 2) + ObjectAt(o, 0)
      BY <2>4, <2>7, <3>2, <3>4, <3>10
    <3>13. AtObject(0)'
      BY <1>1, <2>2, <2>3, <2>7, <3>10, <3>11, <3>12 DEF AtObject, SameBytes, o
    <3>14. 0 \in 0..2
      OBVIOUS
    <3> QED
      BY <3>13, <3>14 DEF Reader
  <2>8. CASE j = 3
    <3> DEFINE l == sent[3][1]
               body == ListBytes(l)
               length == ListLength(l)
               next == MessageAt(sent, 3)
    <3>1. l \in Lists /\ l \in Seq(Numbers)
      BY <2>2, <2>8, MessagesAssumption DEF Layout, PartsAre
    <3>2. PICK g \in [0..Len(l) -> Nat] : LaidOut(l, g)
      BY <3>1, ListLaidOut
    <3>3. body \in Seq(Byte) /\ length = Len(body) /\ length = g[Len(l)] /\ g[0] = 0
      BY <3>2 DEF LaidOut, ListLength
    <3>4. SubAt(buffer, offset, Header(3, "packed"), length, body, next)
      BY <2>2, <2>3, <2>5, <2>8 DEF Layout, MessageLaid
    <3>5. Representable("varint", BitsOf[length]) /\ Fits(BitsOf[length], 31)
      BY <2>2, <2>8, <3>1, MessagesAssumption, VarintAccepts DEF Layout, PartsKept
    <3>6. sent[3] # <<>> /\ Len(l) \in Nat
      BY <2>2, <2>8, <3>1
    <3> HIDE DEF l, body, length
    <3>7. length \in Nat
      BY <3>3, LenProperties
    <3>8. head = Header(3, "packed") /\ next - length \in Nat /\ FindsNumber(1, BitsOf[length], next - length)
      BY <1>3, <2>4, <2>5, <2>8, <3>3, <3>4, <3>5, <3>7, SubHere
    <3>9. FindsHeader(j)
      BY <1>3, <2>8, <3>8, SchemaIs, HeaderOfMessage
    <3>10. (next - length) + length = next /\ (next - length) + length <= parser.end
      BY <2>4, <2>8, <3>7
    <3>11. OpensInner("packed", 3, next - length, length)
      BY <1>3, <2>8, <3>7, <3>8, <3>9, <3>10, SchemaIs, SubIsOpened
    <3>12. parser' = [kind |-> "packed", end |-> next, id |-> 3] /\ offset' = next - length
           /\ inside' = <<>> /\ got' = got
      BY <3>10, <3>11 DEF OpensInner, Empty
    <3>13. inside' = SubSeq(l, 1, 0)
      BY <3>1, <3>12
    <3>14. offset' = next - g[Len(l)] + g[0]
      BY <2>4, <2>8, <3>3, <3>7, <3>12
    <3>15. AtItem(g, 0)'
      BY <1>1, <2>2, <2>3, <2>8, <3>2, <3>12, <3>13, <3>14 DEF AtItem, SameBytes, l
    <3>16. 0 \in 0..Len(l)
      BY <3>6
    <3>17. sent' = sent
      BY <1>1 DEF SameBytes
    <3> QED
      BY <3>6, <3>2, <3>15, <3>16, <3>17 DEF Reader, l
  <2> QED
    BY <2>3, <2>6, <2>7, <2>8
<1> QED
  BY <1>1, <1>5, <1>6, NextOfMessage DEF Layout

\* The body of a part stands at the end of its part.
LEMMA BodyHere ==
  ASSUME NEW bs, NEW at \in Nat, NEW header, NEW told, NEW body \in Seq(Byte), NEW next, SubAt(bs, at, header, told, body, next)
  PROVE  next - Len(body) \in Nat /\ Carries(bs, next - Len(body) + 1, body)
<1>1. next = at + 1 + VarintLength(BitsOf[told]) + Len(body) /\ Carries(bs, at + 2 + VarintLength(BitsOf[told]), body)
  BY DEF SubAt
<1>2. VarintLength(BitsOf[told]) \in 1..4
  BY VarintBytes
<1>3. Len(body) \in Nat
  BY LenProperties
<1>4. next - Len(body) \in Nat /\ next - Len(body) + 1 = at + 2 + VarintLength(BitsOf[told])
  BY <1>1, <1>2, <1>3
<1> QED
  BY <1>1, <1>4

\* What stands in a part of the bytes stands in the bytes.
LEMMA NumberWithin ==
  ASSUME NEW bs, NEW begin \in Nat, NEW body \in Seq(Byte), Carries(bs, begin + 1, body), NEW at \in Nat, NEW id, NEW v,
         Fits(v, 31), NEW next \in Nat, NumberAt(body, at, id, v, next), next <= Len(body)
  PROVE  NumberAt(bs, begin + at, id, v, begin + next)
<1> DEFINE w == WriteVarint(v)
<1>1. w \in Seq(Byte) /\ Len(w) = VarintLength(v) /\ VarintLength(v) \in 1..4
  BY VarintBytes
<1>2. body[at + 1] = Header(id, "varint") /\ Carries(body, at + 2, w) /\ next = at + 1 + VarintLength(v)
  BY DEF NumberAt
<1> HIDE DEF w
<1>3. Len(body) \in Nat /\ at + 1 \in 1..Len(body)
  <2>1. Len(body) \in Nat
    BY LenProperties
  <2> QED
    BY <1>1, <1>2, <2>1
<1>4. bs[begin + at + 1] = Header(id, "varint")
  <2>1. bs[begin + 1 + (at + 1) - 1] = body[at + 1]
    BY <1>3 DEF Carries
  <2>2. begin + 1 + (at + 1) - 1 = begin + at + 1
    OBVIOUS
  <2> QED
    BY <1>2, <2>1, <2>2
<1>5. Carries(bs, begin + at + 2, w)
  <2>1. begin + 1 \in Nat /\ at + 1 \in Nat /\ (at + 1) + 1 = at + 2 /\ (begin + 1) + (at + 1) = begin + at + 2
    OBVIOUS
  <2>2. (at + 1) + Len(w) <= Len(body) /\ Carries(body, (at + 1) + 1, w)
    BY <1>1, <1>2, <2>1
  <2>3. Carries(bs, (begin + 1) + (at + 1), w)
    BY <1>1, <2>1, <2>2, CarriesWithin
  <2> QED
    BY <2>1, <2>3
<1>6. begin + next = begin + at + 1 + VarintLength(v)
  BY <1>1, <1>2
<1> QED
  BY <1>4, <1>5, <1>6 DEF NumberAt, w

\* The reader in an object.
LEMMA FromObject ==
  ASSUME Bounds, Layout, NEW k \in 0..2, AtObject(k), ProtoNext
  PROVE  Reader'
<1> DEFINE o == sent[2][1]
           body == ObjectBytes(o)
           begin == MessageAt(sent, 2) - ObjectAt(o, 2)
<1>1. SameBytes /\ sent \in Messages
  BY StepStays DEF Bounds
<1>2. /\ sent[2] # <<>> /\ got = Upto(sent, 1)
      /\ parser = [kind |-> "object", end |-> MessageAt(sent, 2), id |-> 2]
      /\ offset = begin + ObjectAt(o, k) /\ inside = ObjectUpto(o, k)
  BY DEF AtObject
<1>3. parser.kind = "object" /\ parser.end = MessageAt(sent, 2) /\ parser.id = 2
      /\ parser.end \in Nat /\ offset \in Nat /\ parser.end <= Len(buffer)
  BY <1>2 DEF Layout, Bounds
<1>4. o \in Objects
  BY <1>2 DEF Layout, PartsAre
<1>5. ObjectLaid(o)
  BY <1>4, ObjectLaidOut
<1>6. body \in Seq(Byte) /\ Len(body) = ObjectAt(o, 2) /\ ObjectAt(o, 2) \in Nat /\ \A i \in 0..2 : ObjectAt(o, i) \in Nat /\ ObjectAt(o, i) <= ObjectAt(o, 2)
  <2>1. /\ ObjectBytes(o) \in Seq(Byte) /\ Len(ObjectBytes(o)) = ObjectAt(o, 2) /\ ObjectAt(o, 2) \in 0..10
        /\ ObjectAt(o, 0) = 0 /\ ObjectAt(o, 1) \in 0..ObjectAt(o, 2)
    BY <1>5 DEF ObjectLaid
  <2>2. \A i \in 0..2 : i = 0 \/ i = 1 \/ i = 2
    OBVIOUS
  <2> HIDE DEF o
  <2>3. ObjectAt(o, 2) \in Nat /\ ObjectAt(o, 1) \in Nat /\ ObjectAt(o, 1) <= ObjectAt(o, 2)
    BY <2>1
  <2> QED
    BY <2>1, <2>2, <2>3
<1>7. begin \in Nat /\ Carries(buffer, begin + 1, body)
  <2>1. SubAt(buffer, MessageAt(sent, 1), Header(2, "object"), Len(body), body, MessageAt(sent, 2))
    BY <1>2 DEF Layout, MessageLaid, Bounds
  <2>2. MessageAt(sent, 1) \in Nat
    BY DEF Layout
  <2> HIDE DEF body
  <2> QED
    BY <1>6, <2>1, <2>2, BodyHere
<1> HIDE DEF begin
<1>8. begin + ObjectAt(o, 2) = MessageAt(sent, 2)
  <2>1. MessageAt(sent, 2) \in Nat /\ ObjectAt(o, 2) \in Nat
    BY <1>6 DEF Layout
  <2> QED
    BY <2>1 DEF begin
<1>9. CASE ObjectAt(o, k) = ObjectAt(o, 2) /\ ObjectUpto(o, k) = o
  <2>1. offset = parser.end
    BY <1>2, <1>3, <1>8, <1>9
  <2>2. got' = [got EXCEPT ![2] = <<inside>>] /\ parser' = Outer /\ offset' = offset
    BY <1>3, <2>1, SubIsClosed
  <2>3. got' = Upto(sent, 2)
    <3>1. 2 - 1 = 1 /\ 2 \in 1..3
      OBVIOUS
    <3>2. [Upto(sent, 2 - 1) EXCEPT ![2] = <<sent[2][1]>>] = Upto(sent, 2)
      BY <1>1, <1>2, <3>1, OneMore
    <3> QED
      BY <1>2, <1>9, <2>2, <3>1, <3>2
  <2>4. AtProperty(2)'
    BY <1>1, <1>3, <2>1, <2>2, <2>3 DEF AtProperty, SameBytes, Outer
  <2>5. 2 \in 0..3
    OBVIOUS
  <2> QED
    BY <2>4, <2>5 DEF Reader
<1>10. CASE \E j \in 1..2 : ObjectNextIs(o, k, j)
  <2>1. PICK j \in 1..2 : ObjectNextIs(o, k, j)
    BY <1>10
  <2>2. o[j] # <<>> /\ ObjectAt(o, j - 1) = ObjectAt(o, k) /\ ObjectUpto(o, j - 1) = ObjectUpto(o, k)
    BY <2>1 DEF ObjectNextIs
  <2> DEFINE v == o[j][1]
  <2>3. NumberAt(body, ObjectAt(o, j - 1), j, v, ObjectAt(o, j)) /\ v \in Numbers
    BY <1>5, <2>2 DEF ObjectLaid
  <2>4. Representable("varint", v)
    BY <1>2, <2>2 DEF Layout, PartsKept
  <2>5. ObjectAt(o, j) \in Nat /\ ObjectAt(o, j - 1) \in Nat /\ ObjectAt(o, j) <= ObjectAt(o, 2)
    <3>1. j \in 0..2 /\ j - 1 \in 0..2
      OBVIOUS
    <3> QED
      BY <1>6, <3>1
  <2> HIDE DEF v, o, body
  <2>6. NumberAt(buffer, begin + ObjectAt(o, j - 1), j, v, begin + ObjectAt(o, j))
    <3>1. Fits(v, 31)
      BY <2>3, MessagesAssumption, VarintAccepts
    <3> QED
      BY <1>6, <1>7, <2>3, <2>5, <3>1, NumberWithin
  <2> DEFINE next == begin + ObjectAt(o, j)
  <2>7. next \in Nat /\ next <= parser.end /\ offset = begin + ObjectAt(o, j - 1)
    <3>1. next \in Nat
      BY <1>7, <2>5
    <3>2. next <= begin + ObjectAt(o, 2)
      BY <1>6, <1>7, <2>5
    <3>3. parser.end = begin + ObjectAt(o, 2)
      BY <1>3, <1>8
    <3>4. offset = begin + ObjectAt(o, j - 1)
      BY <1>2, <2>2
    <3> QED
      BY <3>1, <3>2, <3>3, <3>4
  <2>8. buffer \in Seq(Byte)
    BY DEF Layout
  <2>9. NumberAt(buffer, offset, j, v, next)
    BY <2>6, <2>7
  <2> HIDE DEF next
  <2>10. head = Header(j, "varint") /\ FindsNumber(1, v, next)
    BY <1>3, <2>3, <2>4, <2>7, <2>8, <2>9, NumberHere
  <2>11. FindsHeader(j)
    BY <1>3, <2>10, SchemaIs, HeaderOfObject
  <2>12. SetsNumber(j, v, next)
    BY <1>3, <2>7, <2>10, <2>11, SchemaIs, NumberIsSet
  <2>13. parser' = parser /\ offset' = next /\ got' = got /\ inside' = [inside EXCEPT ![j] = <<v>>]
    BY <1>3, <2>12 DEF SetsNumber
  <2>14. inside' = ObjectUpto(o, j)
    BY <1>2, <1>4, <2>2, <2>13, OneMoreOfObject DEF v
  <2>15. AtObject(j)'
    BY <1>1, <1>2, <2>13, <2>14 DEF AtObject, SameBytes, o, begin, next
  <2>16. j \in 0..2
    OBVIOUS
  <2> QED
    BY <2>15, <2>16 DEF Reader
<1> QED
  BY <1>4, <1>9, <1>10, NextOfObject

\* Where a number ends, as the place of the next one is counted.
LEMMA NothingSkipped ==
  ASSUME NEW from \in Nat, NEW low \in Nat, NEW high \in Nat, NEW size \in Nat, high = low + size
  PROVE  /\ (from + low) + 0 + 1 = (from + 1) + low
         /\ (from + low) + 0 + size = from + high
OBVIOUS

\* The reader in a list.
LEMMA FromItem ==
  ASSUME Bounds, Layout, sent[3] # <<>>, NEW g \in [0..Len(sent[3][1]) -> Nat], NEW n \in 0..Len(sent[3][1]), AtItem(g, n), ProtoNext
  PROVE  Reader'
<1> DEFINE l == sent[3][1]
           body == ListBytes(l)
           begin == MessageAt(sent, 3) - g[Len(l)]
<1>1. SameBytes /\ sent \in Messages
  BY StepStays DEF Bounds
<1>2. /\ got = Upto(sent, 2)
      /\ parser = [kind |-> "packed", end |-> MessageAt(sent, 3), id |-> 3]
      /\ LaidOut(l, g) /\ offset = begin + g[n] /\ inside = SubSeq(l, 1, n)
  BY DEF AtItem
<1>3. parser.kind = "packed" /\ parser.end = MessageAt(sent, 3) /\ parser.id = 3
      /\ parser.end \in Nat /\ offset \in Nat /\ parser.end <= Len(buffer)
  BY <1>2 DEF Layout, Bounds
<1>4. l \in Seq(Numbers) /\ Len(l) \in Nat
  <2>1. l \in Seq(Numbers)
    BY MessagesAssumption DEF Layout, PartsAre
  <2> QED
    BY <2>1, LenProperties
<1>5. /\ body \in Seq(Byte) /\ Len(body) = g[Len(l)]
      /\ \A j \in 1..Len(l) : g[j] = g[j - 1] + VarintLength(l[j]) /\ Carries(body, g[j - 1] + 1, WriteVarint(l[j]))
      /\ \A j \in 0..Len(l) : g[j] <= g[Len(l)] /\ (g[j] = g[Len(l)] => j = Len(l))
      /\ \A j \in 0..Len(l) : g[j] \in Nat
  BY <1>2 DEF LaidOut
<1>6. begin \in Nat /\ Carries(buffer, begin + 1, body)
  <2>1. SubAt(buffer, MessageAt(sent, 2), Header(3, "packed"), ListLength(l), body, MessageAt(sent, 3))
    BY DEF Layout, MessageLaid, Bounds
  <2>2. MessageAt(sent, 2) \in Nat
    BY DEF Layout
  <2> HIDE DEF body, l
  <2> QED
    BY <1>5, <2>1, <2>2, BodyHere
<1>7. n \in 0..Len(l) /\ Len(l) \in 0..Len(l)
  BY <1>4
<1> HIDE DEF begin, l, body
<1>8. begin + g[Len(l)] = MessageAt(sent, 3)
  <2>1. MessageAt(sent, 3) \in Nat /\ g[Len(l)] \in Nat
    BY <1>7, <1>5 DEF Layout
  <2> QED
    BY <2>1 DEF begin
<1>9. CASE n = Len(l)
  <2>1. offset = parser.end
    BY <1>2, <1>3, <1>8, <1>9
  <2>2. got' = [got EXCEPT ![3] = <<inside>>] /\ parser' = Outer /\ offset' = offset
    BY <1>3, <2>1, SubIsClosed
  <2>3. inside = l
    BY <1>2, <1>4, <1>9
  <2>4. got' = Upto(sent, 3)
    <3>1. 3 - 1 = 2 /\ 3 \in 1..3
      OBVIOUS
    <3>2. [Upto(sent, 3 - 1) EXCEPT ![3] = <<sent[3][1]>>] = Upto(sent, 3)
      BY <1>1, <3>1, OneMore
    <3> QED
      BY <1>2, <2>2, <2>3, <3>1, <3>2 DEF l
  <2>5. AtProperty(3)'
    BY <1>1, <1>3, <2>1, <2>2, <2>4 DEF AtProperty, SameBytes, Outer
  <2>6. 3 \in 0..3
    OBVIOUS
  <2> QED
    BY <2>5, <2>6 DEF Reader
<1>10. CASE n # Len(l)
  <2>1. n \in 0..Len(l) /\ n + 1 \in 1..Len(l) /\ n + 1 \in 0..Len(l) /\ (n + 1) - 1 = n
    BY <1>7, <1>4, <1>10
  <2> DEFINE v == l[n + 1]
             next == begin + g[n + 1]
  <2>2. v \in Numbers
    BY <1>4, <2>1, ElementOfSeq
  <2>3. Fits(v, 31) /\ Representable("varint", v)
    <3>1. Representable("varint", v)
      BY <2>1 DEF Layout, PartsKept, l
    <3> QED
      BY <2>2, <3>1, MessagesAssumption, VarintAccepts
  <2>4. g[n + 1] = g[n] + VarintLength(v) /\ Carries(body, g[n] + 1, WriteVarint(v))
    BY <1>5, <2>1
  <2>5. g[n] \in Nat /\ g[n + 1] \in Nat /\ g[n + 1] <= g[Len(l)] /\ g[n] < g[Len(l)] /\ g[Len(l)] \in Nat
    BY <1>7, <1>5, <1>10, <2>1
  <2> HIDE DEF v
  <2>6. WriteVarint(v) \in Seq(Byte) /\ Len(WriteVarint(v)) = VarintLength(v) /\ VarintLength(v) \in 1..4
    BY <2>3, VarintBytes
  <2>7. Carries(buffer, (begin + 1) + g[n], WriteVarint(v))
    <3> DEFINE w == WriteVarint(v)
    <3>1. w \in Seq(Byte) /\ g[n] + Len(w) <= Len(body) /\ begin + 1 \in Nat /\ Carries(body, g[n] + 1, w)
      BY <1>5, <1>6, <2>4, <2>5, <2>6
    <3> HIDE DEF w
    <3>2. Carries(buffer, (begin + 1) + g[n], w)
      BY <1>5, <1>6, <2>5, <3>1, CarriesWithin
    <3> QED
      BY <3>2 DEF w
  <2>8. FindsNumber(0, v, next)
    <3> SUFFICES ASSUME NEW skip \in {0, 1}, skip = 0 PROVE FindsNumber(skip, v, next)
      OBVIOUS
    <3>1. offset + skip + 1 = (begin + 1) + g[n] /\ offset + skip + VarintLength(v) = next
      <4>1. VarintLength(v) \in Nat
        BY <2>6
      <4>2. /\ (begin + g[n]) + 0 + 1 = (begin + 1) + g[n]
            /\ (begin + g[n]) + 0 + VarintLength(v) = begin + g[n + 1]
        <5> DEFINE size == VarintLength(v)  low == g[n]  high == g[n + 1]
        <5>1. begin \in Nat /\ low \in Nat /\ high \in Nat /\ size \in Nat /\ high = low + size
          BY <1>6, <2>4, <2>5, <4>1
        <5> HIDE DEF size, low, high
        <5>2. (begin + low) + 0 + 1 = (begin + 1) + low /\ (begin + low) + 0 + size = begin + high
          BY <5>1, NothingSkipped
        <5> QED
          BY <5>2 DEF size, low, high
      <4>3. skip = 0 /\ offset = begin + g[n]
        BY <1>2, Zenon
      <4> QED
        BY <4>2, <4>3, Zenon
    <3>2. next <= parser.end
      BY <1>3, <1>6, <1>8, <2>5
    <3>3. buffer \in Seq(Byte)
      BY DEF Layout
    <3>4. FindsNumber(skip, v, offset + skip + VarintLength(v))
      BY <1>3, <2>3, <2>7, <3>1, <3>2, <3>3, NumberFound
    <3> QED
      BY <3>1, <3>4
  <2>9. offset < parser.end
    BY <1>2, <1>3, <1>6, <1>8, <2>5
  <2>10. ReadItem
    <3>1. ~ReadUnknown /\ ~ReadNothing /\ ~ReadNumberProperty /\ ~OpenSub /\ ~MessageRead
      BY <1>3, SchemaIs DEF ReadUnknown, ReadNothing, ReadNumberProperty, OpenSub, MessageRead, Is, InMessage
    <3>2. ~CloseSub
      BY <1>3, <2>9 DEF CloseSub
    <3> QED
      BY <3>1, <3>2 DEF ProtoNext
  <2>11. NumberNext(0) = v /\ Ending(0) = next /\ NumberNext(0) # Overflow
    BY <2>8 DEF FindsNumber
  <2>12. inside' = Append(inside, v) /\ offset' = next /\ parser' = parser /\ got' = got
    BY <2>10, <2>11 DEF ReadItem
  <2>13. inside' = SubSeq(l, 1, n + 1)
    BY <1>2, <1>4, <2>1, <2>12 DEF v
  <2>14. AtItem(g, n + 1)'
    BY <1>1, <1>2, <2>12, <2>13 DEF AtItem, SameBytes, l, begin, next
  <2> QED
    BY <1>1, <2>1, <2>14 DEF Reader, SameBytes, l
<1> QED
  BY <1>9, <1>10

-----------------------------------------------------------------------------
\* Each call of the reader takes it from one place of the message to the next.
LEMMA MessageStep == ProtoInv /\ [ProtoNext]_protoVars => ProtoInv'
<1> SUFFICES ASSUME ProtoInv, [ProtoNext]_protoVars PROVE ProtoInv'
  OBVIOUS
<1>1. CASE ProtoNext
  <2>1. Bounds /\ Bounds'
    BY <1>1, BoundsStep DEF ProtoInv
  <2>2. sent' = sent /\ buffer' = buffer
    BY <1>1, StepStays DEF SameBytes
  <2>3. ASSUME AllKept', LengthTold' PROVE Reader'
    <3>1. AllKept /\ LengthTold
      BY <2>2, <2>3 DEF AllKept, LengthTold
    <3>2. Layout
      BY <2>1, <3>1, LayoutKnown
    <3>3. Reader
      BY <3>1 DEF ProtoInv
    <3>4. ~ReadAsSent
      BY <1>1, NothingAfterTheEnd DEF ReadAsSent
    <3> QED
      BY <1>1, <2>1, <3>2, <3>3, <3>4, FromProperty, FromObject, FromItem DEF Reader
  <2> QED
    BY <2>1, <2>3 DEF ProtoInv
<1>2. CASE UNCHANGED protoVars
  BY <1>2 DEF protoVars, ProtoInv, Bounds, Reader, AtProperty, AtObject, AtItem, ReadAsSent, Outer, AllKept, LengthTold
<1> QED
  BY <1>1, <1>2

\* Where the reader ends, it has the message.
LEMMA MessageIsRead == ProtoInv => MessageReadsBack /\ ReadsInside
<1> SUFFICES ASSUME ProtoInv PROVE MessageReadsBack /\ ReadsInside
  OBVIOUS
<1>1. ReadsInside
  BY DEF ProtoInv, Bounds, ReadsInside
<1>2. ASSUME Over, AllKept, LengthTold PROVE ReadAsSent
  <2>1. parser.kind \notin {"message", "object", "packed"}
    BY <1>2 DEF Over
  <2>2. ~(\E k \in 0..3 : AtProperty(k)) /\ ~(\E k \in 0..2 : AtObject(k)) /\ ~(\E g, n : AtItem(g, n))
    BY <2>1 DEF AtProperty, AtObject, AtItem, Outer
  <2>3. Reader
    BY <1>2 DEF ProtoInv
  <2> QED
    BY <2>2, <2>3 DEF Reader
<1> QED
  BY <1>1, <1>2 DEF MessageReadsBack

\* A number is read as it was written if the writer kept all its bits, and as
\* another otherwise; the reader of a message never goes beyond its part; and a
\* message whose numbers are kept, with an object as long as the length it tells,
\* is read as it was sent: for any numbers the codec accepts and any lists
\* (varint.ts, protobuf.ts).
THEOREM MessagesAreReadBack == VarintSpec /\ ProtoSpec => []MessagesReadBack
<1>1. VarintSpec => []NumberInv
  BY NumbersStart, NumberStep, PTL DEF VarintSpec
<1>2. ProtoSpec => []ProtoInv
  BY MessagesStart, MessageStep, PTL DEF ProtoSpec
<1>3. NumberInv /\ ProtoInv => MessagesReadBack
  BY NumberIsRead, MessageIsRead DEF MessagesReadBack
<1> QED
  BY <1>1, <1>2, <1>3, PTL
=============================================================================
