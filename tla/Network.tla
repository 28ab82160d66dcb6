------------------------------- MODULE Network -------------------------------
(***************************************************************************)
(* packages/core/src/network: a SocketProtocolAdapter over a socket that   *)
(* cuts the bytes it carries anywhere. Messages are lines of JSON          *)
(* (JsonNDRpcTransformer); LongMessageProtocolTransformer keeps the text   *)
(* of a line that has not ended; the adapter hands each message to the     *)
(* functions that listen, going through its array while they may change it.*)
(*                                                                         *)
(* A byte is 0 (the end of a line), 1 (a character of one byte), or 2 and  *)
(* 3 (the first and the second byte of a character of two). 9 stands for   *)
(* the replacement character that decoding half a character gives.         *)
(***************************************************************************)
EXTENDS Integers, Sequences, SequencesExt, FiniteSets

CONSTANTS
    Handler, \* the functions of the program that listen to messages
    Script,  \* the messages the other end sends, without the end of line
    MaxOn    \* bound: calls of on() and once()

ASSUME NetworkAssumption == Script \in Seq(Seq({1, 2, 3})) /\ MaxOn \in Nat

Nobody == "nobody"
Misuse == {"split", "gap", "once", "stranger"}

VARIABLES
    said,       \* the messages of the script that were sent
    bytes,      \* the bytes on their way
    flowing,    \* the socket was listened to once: it no longer keeps its data
    remainder,  \* the buffer of the LongMessageProtocolTransformer
    listeners,  \* this.messageListeners
    socketSub,  \* whether the adapter listens to the socket: "none", "on", "once"
    dispatch,   \* the messages being handed over: [todo, at, running, shrunk]
    arrived,    \* the messages handed over so far, to one function at least
    dropped,    \* how many were decoded and never handed over
    lastHeard,  \* the number of the message each handler heard last
    onCalls,    \* how many times on() or once() was called
    owed,       \* the places in the array each handler asked for and did not give up
    misuse      \* what happened that the code does not handle

networkVars == <<said, bytes, flowing, remainder, listeners, socketSub, dispatch, arrived,
                 dropped, lastHeard, onCalls, owed, misuse>>
streamVars == <<said, bytes, flowing, remainder>>

Idle == [todo |-> <<>>, at |-> 1, running |-> Nobody, shrunk |-> FALSE]

NetworkInit ==
    /\ said = <<>> /\ bytes = <<>> /\ flowing = FALSE /\ remainder = <<>>
    /\ listeners = <<>> /\ socketSub = "none" /\ dispatch = Idle
    /\ arrived = <<>> /\ dropped = 0 /\ lastHeard = [h \in Handler |-> 0]
    /\ onCalls = 0 /\ owed = [h \in Handler |-> 0] /\ misuse = {}

-----------------------------------------------------------------------------
\* The other end: one line of JSON.
SendLine ==
    /\ Len(said) < Len(Script)
    /\ said' = Append(said, Script[Len(said) + 1])
    /\ bytes' = bytes \o Append(Script[Len(said) + 1], 0)
    /\ UNCHANGED <<flowing, remainder, listeners, socketSub, dispatch, arrived,
                   dropped, lastHeard, onCalls, owed, misuse>>

\* toString('utf8') of a chunk: half a character at either end is not kept.
Half(chunk, i) == (i = 1 /\ chunk[i] = 3) \/ (i = Len(chunk) /\ chunk[i] = 2)
Decode(chunk) == [i \in DOMAIN chunk |-> IF Half(chunk, i) THEN 9 ELSE chunk[i]]

\* split('\n'): the lines that ended, and the one that did not.
Ends(text) == {i \in DOMAIN text : text[i] = 0}
LastEnd(text, k) ==
  IF k = 0 THEN 0 ELSE CHOOSE i \in Ends(text) : Cardinality({j \in Ends(text) : j <= i}) = k
Lines(text) == [k \in 1..Cardinality(Ends(text)) |->
                  SubSeq(text, LastEnd(text, k - 1) + 1, LastEnd(text, k) - 1)]
\* Mutant of RestOfText: the text of a line that has not ended is forgotten.
RestForgotten(text) == <<>>

RestOfText(text) == SubSeq(text, LastEnd(text, Cardinality(Ends(text))) + 1, Len(text))

Unheard == socketSub = "none"

\* The socket emits its next n bytes. Nobody hears them when the adapter is not
\* subscribed; a subscription made by once() ends before its function runs.
Receive(n) ==
    LET chunk == SubSeq(bytes, 1, n)
        text == remainder \o Decode(chunk)
    IN  /\ flowing /\ dispatch = Idle
        /\ bytes' = SubSeq(bytes, n + 1, Len(bytes))
        /\ IF Unheard
           THEN /\ misuse' = misuse \cup {"gap"}
                /\ UNCHANGED <<remainder, dispatch, socketSub>>
           ELSE /\ remainder' = RestOfText(text)
                /\ dispatch' = [Idle EXCEPT !.todo = Lines(text)]
                /\ socketSub' = IF socketSub = "once" THEN "none" ELSE socketSub
                /\ misuse' = IF Decode(chunk) = chunk THEN misuse ELSE misuse \cup {"split"}
        /\ UNCHANGED <<said, flowing, listeners, arrived, dropped, lastHeard, onCalls, owed>>

\* The same, once bytes were lost: the text may no longer be JSON. The exception of
\* the parser is caught, and the loop over no messages throws another one.
ReceiveGarbage(n) ==
    /\ flowing /\ dispatch = Idle /\ ~Unheard
    /\ "gap" \in misuse
    /\ bytes' = SubSeq(bytes, n + 1, Len(bytes))
    /\ remainder' = remainder \o Decode(SubSeq(bytes, 1, n))
    /\ socketSub' = IF socketSub = "once" THEN "none" ELSE socketSub
    /\ UNCHANGED <<said, flowing, dispatch, arrived, dropped, listeners, lastHeard,
                   onCalls, owed, misuse>>

-----------------------------------------------------------------------------
UserCode == dispatch.running # Nobody \/ dispatch = Idle

\* The loop over the array calls the function at its index of this moment; with
\* the first one the message is handed over.
CallListener ==
    /\ dispatch.todo # <<>> /\ dispatch.running = Nobody
    /\ dispatch.at <= Len(listeners)
    /\ dispatch' = [dispatch EXCEPT !.at = @ + 1, !.running = listeners[dispatch.at]]
    /\ arrived' = IF dispatch.at = 1 THEN Append(arrived, Head(dispatch.todo)) ELSE arrived
    /\ lastHeard' = [lastHeard EXCEPT ![listeners[dispatch.at]] = Len(arrived')]
    /\ UNCHANGED <<streamVars, dropped, listeners, socketSub, onCalls, owed, misuse>>

Returned == dispatch.todo # <<>> /\ dispatch.running = Nobody /\ dispatch.at > Len(listeners)

\* A message whose turn comes when nobody is left in the array is dropped.
NextMessage ==
    /\ Returned
    /\ dispatch' = [Idle EXCEPT !.todo = Tail(dispatch.todo)]
    /\ dropped' = IF dispatch.at = 1 THEN dropped + 1 ELSE dropped
    /\ UNCHANGED <<streamVars, arrived, listeners, socketSub, lastHeard, onCalls, owed, misuse>>

ListenerReturns ==
    /\ dispatch.running # Nobody
    /\ dispatch' = [dispatch EXCEPT !.running = Nobody]
    /\ UNCHANGED <<streamVars, arrived, dropped, listeners, socketSub, lastHeard, onCalls,
                   owed, misuse>>

\* An exception leaves both loops: the messages that came with this one are dropped.
ListenerThrows ==
    /\ dispatch.running # Nobody
    /\ dispatch' = Idle
    /\ dropped' = dropped + Len(dispatch.todo) - 1
    /\ UNCHANGED <<streamVars, arrived, listeners, socketSub, lastHeard, onCalls, owed, misuse>>

\* Mutant of Subscribe: once subscribed, the adapter takes itself for subscribed.
SubscribeFirstTimeOnly(once) ==
    /\ socketSub' = IF flowing THEN socketSub ELSE IF once THEN "once" ELSE "on"
    /\ flowing' = TRUE

\* The adapter listens to the socket from its first listener on, with the options
\* of that listener.
Subscribe(once) ==
    IF listeners = <<>>
    THEN socketSub' = (IF once THEN "once" ELSE "on") /\ flowing' = TRUE
    ELSE UNCHANGED <<socketSub, flowing>>

\* on('message', h) and once('message', h): the array keeps both for ever.
On(h, once) ==
    /\ UserCode /\ onCalls < MaxOn
    /\ Subscribe(once)
    /\ listeners' = Append(listeners, h)
    /\ onCalls' = onCalls + 1
    /\ owed' = [owed EXCEPT ![h] = @ + 1]
    /\ misuse' = IF once THEN misuse \cup {"once"} ELSE misuse
    /\ UNCHANGED <<said, bytes, remainder, arrived, dropped, dispatch, lastHeard>>

\* Mutant of SpliceFound: pop() whatever is to be removed.
SplicePops(h) == IF listeners = <<>> THEN <<>> ELSE Front(listeners)

\* splice(findIndex(h), 1): an index of -1 removes the last one.
SpliceFound(h) ==
    IF h \in ToSet(listeners) THEN RemoveFirst(listeners, h)
    ELSE IF listeners = <<>> THEN <<>> ELSE Front(listeners)

\* The array becomes rest; the last listener to leave ends the subscription.
LeaveWith(rest) ==
    /\ listeners' = rest
    /\ socketSub' = IF rest = <<>> THEN "none" ELSE socketSub
    /\ dispatch' = IF dispatch = Idle \/ Len(rest) = Len(listeners) THEN dispatch
                   ELSE [dispatch EXCEPT !.shrunk = TRUE]
    /\ UNCHANGED <<streamVars, arrived, dropped, lastHeard, onCalls>>

GiveUp(h) == owed' = [owed EXCEPT ![h] = IF @ = 0 THEN 0 ELSE @ - 1]

\* The subscription that on() returned, called for the first time or again.
Unsubscribe(h) ==
    /\ UserCode /\ onCalls > 0
    /\ LeaveWith(SpliceFound(h))
    /\ GiveUp(h)
    /\ misuse' = IF h \notin ToSet(listeners) /\ listeners # <<>>
                 THEN misuse \cup {"stranger"} ELSE misuse

\* off('message', h) compares the first element of each function with h: it finds
\* nothing, and removes the last one.
Off(h) ==
    /\ UserCode
    /\ LeaveWith(IF listeners = <<>> THEN <<>> ELSE Front(listeners))
    /\ GiveUp(h)
    /\ misuse' = IF listeners # <<>> THEN misuse \cup {"stranger"} ELSE misuse

\* off('message').
OffAll ==
    /\ UserCode
    /\ LeaveWith(<<>>)
    /\ owed' = [h \in Handler |-> 0]
    /\ UNCHANGED misuse

NetworkNext ==
    \/ SendLine
    \/ \E n \in 1..Len(bytes) : Receive(n) \/ ReceiveGarbage(n)
    \/ CallListener
    \/ NextMessage
    \/ ListenerReturns
    \/ ListenerThrows
    \/ \E h \in Handler, once \in BOOLEAN : On(h, once)
    \/ \E h \in Handler : Unsubscribe(h)
    \/ \E h \in Handler : Off(h)
    \/ OffAll

NetworkSpec == NetworkInit /\ [][NetworkNext]_networkVars

-----------------------------------------------------------------------------
Text == Seq({0, 1, 2, 3, 9})

NetworkTypeOK ==
    /\ said \in Seq(Seq({1, 2, 3})) /\ arrived \in Seq(Text)
    /\ dropped \in Nat /\ bytes \in Seq(0..3) /\ remainder \in Text
    /\ flowing \in BOOLEAN /\ socketSub \in {"none", "on", "once"}
    /\ listeners \in Seq(Handler)
    /\ dispatch.todo \in Seq(Text) /\ dispatch.at \in Nat \ {0}
    /\ dispatch.running \in Handler \cup {Nobody} /\ dispatch.shrunk \in BOOLEAN
    /\ lastHeard \in [Handler -> 0..Len(arrived)]
    /\ onCalls \in 0..MaxOn /\ owed \in [Handler -> 0..MaxOn]
    /\ misuse \subseteq Misuse

\* A character was cut in two, bytes came while nobody listened, or a message was
\* dropped, by a function that threw or because the last one had left.
Spoilt == misuse \cap {"split", "gap"} # {} \/ dropped > 0

\* However the bytes are cut, the messages handed over are those the other end
\* sent, in order, each of them once, until the stream is spoilt.
Transport == INSTANCE Stream WITH
    sent <- said, received <- arrived, spoilt <- Spoilt
CarriesTheStream == Transport!Spec

\* The adapter listens to its socket exactly while somebody listens to the
\* adapter, as long as nobody uses once(): it is never deaf, and never hears for
\* nobody, whatever is added and removed while messages are handed over.
SubscribedWhileListening ==
    /\ listeners = <<>> => socketSub = "none"
    /\ "once" \notin misuse /\ listeners # <<>> => socketSub = "on"

\* A handler loses its places in the array by its own calls only, unless off() is
\* given a handler or a subscription is ended twice.
KeepsItsPlace ==
    "stranger" \notin misuse =>
        \A h \in Handler : Cardinality({k \in DOMAIN listeners : listeners[k] = h}) = owed[h]

\* When the loop over the listeners is done with a message, all of them have heard
\* it, those that were added meanwhile included, unless one was removed meanwhile.
EveryoneHears ==
    Returned /\ ~dispatch.shrunk =>
        \A k \in DOMAIN listeners : lastHeard[listeners[k]] = Len(arrived)

\* The listeners of an adapter: subscribed to the socket while there are some, in
\* the array as often as they asked, and all called.
ListenersKept == NetworkTypeOK /\ SubscribedWhileListening /\ KeepsItsPlace /\ EveryoneHears

-----------------------------------------------------------------------------
(***************************************************************************)
(* Fairness: the transport delivers what was sent, the loops go on, and a  *)
(* function that listens returns.                                          *)
(***************************************************************************)
NetworkFairness ==
    /\ WF_networkVars(\E n \in 1..Len(bytes) : Receive(n))
    /\ WF_networkVars(CallListener) /\ WF_networkVars(NextMessage) /\ WF_networkVars(ListenerReturns)

NetworkFairSpec == NetworkSpec /\ NetworkFairness

\* Every message sent is handed over in the end, or dropped with one whose listener
\* threw, unless a moment comes when nobody listens or somebody has used once():
\* listeners that come and go meanwhile, and those that leave the wrong place in
\* the array, keep the socket subscribed.
EveryMessageArrives ==
    \A k \in DOMAIN Script :
        (Len(said) >= k /\ flowing /\ "gap" \notin misuse) ~>
        (Len(arrived) + dropped >= k \/ listeners = <<>> \/ "once" \in misuse)
=============================================================================
