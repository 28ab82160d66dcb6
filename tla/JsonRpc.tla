------------------------------- MODULE JsonRpc -------------------------------
(***************************************************************************)
(* packages/json-rpc-ws/src/shared-connection.ts and connection.ts: two    *)
(* peers that call each other's methods over one socket. Each end has a    *)
(* Connection, whose responseHandlers hold, by message id, the callbacks   *)
(* of the calls it made and the streams it is reading.                     *)
(*                                                                         *)
(* The socket delivers in order. A payload is processed to completion:     *)
(* processPayload() runs handlers and callbacks, which may reply or call   *)
(* later. Ids are random, so a call is its id.                             *)
(***************************************************************************)
EXTENDS Integers, Sequences, SequencesExt, FiniteSets, FiniteSetsExt

CONSTANTS
    Peer,      \* the two ends of the socket
    Call,      \* the calls that are made, by their message id
    Caller,    \* the peer that makes each call
    MaxChunks, \* bound: chunks of the stream a call passes as params
    MaxReplies \* bound: how often the handler of a call replies

ASSUME RpcAssumption ==
    /\ IsFiniteSet(Peer) /\ Cardinality(Peer) = 2
    /\ Caller \in [Call -> Peer]
    /\ MaxChunks \in [Call -> Nat] /\ MaxReplies \in [Call -> Nat \ {0}]

Other(p) == CHOOSE q \in Peer : q # p
Callee(i) == Other(Caller[i])

VARIABLES
    up,        \* the socket is open
    connected, \* the ends whose Connection listens to the socket
    wire,      \* the payloads on their way to each end
    awaiting,  \* calls whose callback is in the caller's responseHandlers
    reading,   \* calls whose stream is in the callee's responseHandlers
    streaming, \* chunks left of the stream a call passed, -1 after its end
    running,   \* calls whose handler may still reply
    replies,   \* payloads the callee sent in reply to each call
    called,    \* how often each call's callback ran
    broken     \* history: calls whose stream an error with their id has removed

vars == <<up, connected, wire, awaiting, reading, streaming, running, replies, called, broken>>

NoStream == -2
Ended == -1
Kind == {"request", "unknown", "data", "end", "result", "void", "error"}
Payload == [kind : Kind, id : Call]
Message(k, i) == [kind |-> k, id |-> i]

Init ==
    /\ up = TRUE
    /\ connected = Peer
    /\ wire = [p \in Peer |-> <<>>]
    /\ awaiting = {}
    /\ reading = {}
    /\ streaming = [i \in Call |-> NoStream]
    /\ running = {}
    /\ replies = [i \in Call |-> 0]
    /\ called = [i \in Call |-> 0]
    /\ broken = {}

-----------------------------------------------------------------------------
Sent(i) == i \in awaiting \/ called[i] > 0
HasStream(i) == streaming[i] # NoStream

\* socket.send() to p: a socket that is closed loses the payload. A reply to a
\* call (whatever its callee sends about it) is counted, up to one too many.
SendTo(p, w, k, i) ==
    /\ wire' = [w EXCEPT ![p] = IF up THEN Append(@, Message(k, i)) ELSE @]
    /\ replies' = IF p = Caller[i] THEN [replies EXCEPT ![i] = Min({@ + 1, MaxReplies[i] + 1})]
                ELSE replies

\* sendMethod(), with a method the callee exposes or not, and params that are a
\* stream of so many chunks, or not a stream.
SendMethod(i, k, chunks) ==
    /\ Caller[i] \in connected /\ ~Sent(i)
    /\ awaiting' = awaiting \cup {i}
    /\ streaming' = [streaming EXCEPT ![i] = chunks]
    /\ SendTo(Callee(i), wire, k, i)
    /\ UNCHANGED <<up, connected, reading, running, called, broken>>

\* sendStream(): a chunk, then the end, while the socket is open.
StreamData(i) ==
    /\ up /\ streaming[i] > 0
    /\ streaming' = [streaming EXCEPT ![i] = @ - 1]
    /\ SendTo(Callee(i), wire, "data", i)
    /\ UNCHANGED <<up, connected, awaiting, reading, running, called, broken>>

StreamEnd(i) ==
    /\ up /\ streaming[i] = 0
    /\ streaming' = [streaming EXCEPT ![i] = Ended]
    /\ SendTo(Callee(i), wire, "end", i)
    /\ UNCHANGED <<up, connected, awaiting, reading, running, called, broken>>

\* A handler calls reply(): with an error (null included) or a result that is
\* sent, or with neither, which sends a payload that has neither. The callback
\* does not know that it was called before, so a handler may reply again.
Reply(i, k, again) ==
    /\ i \in running
    /\ again => replies[i] + 1 < MaxReplies[i]
    /\ running' = IF again THEN running ELSE running \ {i}
    /\ SendTo(Caller[i], wire, k, i)
    /\ UNCHANGED <<up, connected, awaiting, reading, streaming, called, broken>>

-----------------------------------------------------------------------------
\* message(): the payload that arrives at p is of one of these kinds. An end that
\* has closed does not listen any more.
First(p) == Head(wire[p])
Arrives(p, kinds) == p \in connected /\ wire[p] # <<>> /\ First(p).kind \in kinds
Rest(p) == [wire EXCEPT ![p] = Tail(@)]
Consume(p) == wire' = Rest(p) /\ UNCHANGED replies
Bounce(p, i) == SendTo(Other(p), Rest(p), "error", i)

DropUnheard(p) ==
    /\ p \notin connected /\ wire[p] # <<>>
    /\ Consume(p)
    /\ UNCHANGED <<up, connected, awaiting, reading, streaming, running, called, broken>>

\* Mutant of UnknownMethod: the call is ignored.
UnknownMethodIgnored(p) ==
    /\ Arrives(p, {"unknown"})
    /\ Consume(p)
    /\ UNCHANGED <<up, connected, awaiting, reading, streaming, running, called, broken>>

\* methodNotFound.
UnknownMethod(p) ==
    /\ Arrives(p, {"unknown"})
    /\ Bounce(p, First(p).id)
    /\ UNCHANGED <<up, connected, awaiting, reading, streaming, running, called, broken>>

Request(p) ==
    /\ Arrives(p, {"request"})
    /\ running' = running \cup {First(p).id}
    /\ reading' = IF HasStream(First(p).id) THEN reading \cup {First(p).id} ELSE reading
    /\ Consume(p)
    /\ UNCHANGED <<up, connected, awaiting, streaming, called, broken>>

\* A payload that is no request and has neither result nor error, or whose id
\* has no response handler, is answered with invalidRequest, with its own id.
InvalidResponse(p) ==
    /\ Arrives(p, Kind \ {"request", "unknown"})
    /\ First(p).kind # "void" => First(p).id \notin IF p = Caller[First(p).id] THEN awaiting ELSE reading
    /\ Bounce(p, First(p).id)
    /\ UNCHANGED <<up, connected, awaiting, reading, streaming, running, called, broken>>

\* Mutant of CallbackRuns: the response handler is not deleted.
CallbackRunsKept(p) ==
    /\ Arrives(p, {"result", "error"})
    /\ p = Caller[First(p).id] /\ First(p).id \in awaiting
    /\ called' = [called EXCEPT ![First(p).id] = @ + 1]
    /\ Consume(p)
    /\ UNCHANGED <<up, connected, awaiting, reading, streaming, running, broken>>

\* The reply to a call: its response handler is deleted and called.
CallbackRuns(p) ==
    /\ Arrives(p, {"result", "error"})
    /\ p = Caller[First(p).id] /\ First(p).id \in awaiting
    /\ awaiting' = awaiting \ {First(p).id}
    /\ called' = [called EXCEPT ![First(p).id] = @ + 1]
    /\ Consume(p)
    /\ UNCHANGED <<up, connected, reading, streaming, running, broken>>

\* What arrives for a stream: data registers the handler that was deleted again,
\* and so does the end, because its payload is marked as a stream and builds one.
\* An error is emitted on the stream and removes it.
StreamReceives(p) ==
    /\ Arrives(p, {"data", "end", "error"})
    /\ p = Callee(First(p).id) /\ First(p).id \in reading
    /\ reading' = IF First(p).kind = "error" THEN reading \ {First(p).id} ELSE reading
    /\ broken' = IF First(p).kind = "error" THEN broken \cup {First(p).id} ELSE broken
    /\ Consume(p)
    /\ UNCHANGED <<up, connected, awaiting, streaming, running, called>>

-----------------------------------------------------------------------------
\* close(): on the socket's close or error event, or from hangup() of the server,
\* which leaves the socket open. Nobody is told about the calls that wait.
Close(p) ==
    /\ p \in connected
    /\ connected' = connected \ {p}
    /\ UNCHANGED <<up, wire, awaiting, reading, streaming, running, replies, called, broken>>

\* The socket closes: what is on its way is lost.
SocketCloses ==
    /\ up
    /\ up' = FALSE
    /\ wire' = [p \in Peer |-> <<>>]
    /\ UNCHANGED <<connected, awaiting, reading, streaming, running, replies, called, broken>>

Deliver(p) ==
    \/ DropUnheard(p)
    \/ UnknownMethod(p) \/ Request(p) \/ InvalidResponse(p)
    \/ CallbackRuns(p) \/ StreamReceives(p)

Answer(i) == \E k \in {"result", "error", "void"}, again \in BOOLEAN : Reply(i, k, again)

Next ==
    \/ \E i \in Call, k \in {"request", "unknown"} :
          \E chunks \in {NoStream} \cup 0..MaxChunks[i] : SendMethod(i, k, chunks)
    \/ \E i \in Call : StreamData(i) \/ StreamEnd(i) \/ Answer(i)
    \/ \E p \in Peer : Deliver(p) \/ Close(p)
    \/ SocketCloses

Spec == Init /\ [][Next]_vars

-----------------------------------------------------------------------------
TypeOK ==
    /\ up \in BOOLEAN
    /\ connected \subseteq Peer
    /\ wire \in [Peer -> Seq(Payload)]
    /\ awaiting \subseteq Call /\ reading \subseteq Call /\ running \subseteq Call
    /\ broken \subseteq Call
    /\ \A i \in Call : streaming[i] \in NoStream..MaxChunks[i]
    /\ replies \in [Call -> Nat] /\ called \in [Call -> Nat]

\* The callback of a call runs at most once, whatever replies, errors and
\* bounced errors come back with its id, and never while it is still registered.
CallbackOnce ==
    \A i \in Call : called[i] + (IF i \in awaiting THEN 1 ELSE 0) <= 1

InFlight(p, kinds, i) == \E k \in DOMAIN wire[p] : wire[p][k].id = i /\ wire[p][k].kind \in kinds

\* While both ends listen, a call that waits is never forgotten: its request is
\* on its way, or its handler can reply, or a reply is on its way, or the bounced
\* error that will come back as one. (Except that an error that bounces while the
\* callee reads a stream with the same id ends in the stream.)
WaitingCallIsSomewhere ==
    up /\ connected = Peer =>
        \A i \in awaiting :
            \/ InFlight(Callee(i), {"request", "unknown", "error"}, i)
            \/ i \in running
            \/ InFlight(Caller[i], {"result", "void", "error"}, i)
            \/ i \in broken

-----------------------------------------------------------------------------
(***************************************************************************)
(* Fairness: the socket delivers, and a handler that runs replies.         *)
(***************************************************************************)
CallFairness ==
    /\ \A p \in Peer : WF_vars(Deliver(p))
    /\ \A i \in Call : WF_vars(Answer(i)) /\ WF_vars(StreamData(i)) /\ WF_vars(StreamEnd(i))

FairSpec == Spec /\ CallFairness

\* A call is answered, with a result or an error, unless an end closes, or an error
\* that bounced has ended in the stream the callee was reading.
EveryCallSettles ==
    \A i \in Call : i \in awaiting ~>
        (called[i] > 0 \/ ~up \/ connected # Peer \/ i \in broken)
=============================================================================
