-------------------------------- MODULE Queue --------------------------------
(***************************************************************************)
(* packages/core/src/queue.ts: an in-memory queue that hands one message   *)
(* at a time to a handler. The handler answers through its next(processed) *)
(* callback: next(false) puts the message back, anything else finishes it. *)
(*                                                                         *)
(* JavaScript runs each callback to completion, so one action is one call  *)
(* made by the event loop: a caller's enqueue(), a handler's next(), the   *)
(* process() that nextTick scheduled. process() runs inside the call that  *)
(* makes it. A handler that calls next() at once is a HandlerNext that     *)
(* follows immediately; a handler that throws never calls next().          *)
(***************************************************************************)
EXTENDS Integers, Sequences, SequencesExt

CONSTANTS
    Message,    \* the messages callers enqueue, each of them once
    Falsy,      \* those that are falsy in JavaScript (0, '', null)
    Refusable,  \* those whose handler may call next(false)
    Initial,    \* the array the queue is constructed with
    SaveThrows  \* save() throws: packages/server's Queue built without a file

ASSUME QueueAssumption ==
    /\ Falsy \subseteq Message
    /\ Refusable \subseteq Message
    /\ Initial \in Seq(Message)
    /\ SaveThrows \in BOOLEAN

\* A message is one object: the array holds each of them once too.
ASSUME InitialAssumption == IsInjective(Initial)

VARIABLES
    pending,    \* this.pending
    processing, \* this.processing
    handling,   \* the messages whose handler has not called next() yet
    ticks,      \* how many process() calls nextTick still has to run
    unseen,     \* the messages no caller has enqueued yet
    finished    \* the messages whose handler called next(true), in order

queueVars == <<pending, processing, handling, ticks, unseen, finished>>

QueueInit ==
    /\ pending = Initial
    /\ processing = FALSE
    /\ handling = <<>>
    /\ ticks = 0
    /\ unseen = Message \ ToSet(Initial)
    /\ finished = <<>>

-----------------------------------------------------------------------------
\* Mutant of Process: it runs a handler whatever the flag says.
ProcessUnguarded(q) ==
    /\ q # <<>>
    /\ pending' = Tail(q)
    /\ processing' = TRUE
    /\ handling' = Append(handling, Head(q))

\* Mutant of Process: pop() where the code says shift().
ProcessPops(q) ==
    \/ (processing \/ q = <<>>) /\ pending' = q /\ UNCHANGED <<processing, handling>>
    \/ /\ ~processing /\ q # <<>>
       /\ pending' = Front(q) /\ processing' = TRUE /\ handling' = Append(handling, Last(q))

(***************************************************************************)
(* process(), called when the pending array is q: nothing while a handler  *)
(* is running; otherwise the first message is shifted and handled, unless  *)
(* it is falsy, which is taken for the end of the queue.                   *)
(***************************************************************************)
Process(q) ==
    \/ /\ processing \/ q = <<>>
       /\ pending' = q
       /\ UNCHANGED <<processing, handling>>
    \/ /\ ~processing
       /\ q # <<>>
       /\ pending' = Tail(q)
       /\ IF Head(q) \in Falsy
          THEN UNCHANGED <<processing, handling>>
          ELSE processing' = TRUE /\ handling' = Append(handling, Head(q))

\* enqueue(message): push, save, process. A save() that throws skips process().
Enqueue(m) ==
    /\ m \in unseen
    /\ unseen' = unseen \ {m}
    /\ IF SaveThrows
       THEN pending' = Append(pending, m) /\ UNCHANGED <<processing, handling>>
       ELSE Process(Append(pending, m))
    /\ UNCHANGED <<ticks, finished>>

\* Mutant of HandlerAccepts: nothing looks for the next message.
HandlerAcceptsSilently(i) ==
    /\ handling' = RemoveAt(handling, i)
    /\ finished' = Append(finished, handling[i])
    /\ processing' = FALSE
    /\ UNCHANGED <<pending, ticks, unseen>>

\* next(true): save, clear the flag, and let nextTick look for another message.
\* A save() that throws leaves the flag set.
HandlerAccepts(i) ==
    /\ handling' = RemoveAt(handling, i)
    /\ finished' = Append(finished, handling[i])
    /\ processing' = (processing /\ SaveThrows)
    /\ ticks' = IF SaveThrows THEN ticks ELSE ticks + 1
    /\ UNCHANGED <<pending, unseen>>

\* next(false): enqueue the message again, whose process() returns because the
\* flag is still set, then save and clear the flag. Nothing is scheduled.
HandlerRefuses(i) ==
    /\ handling[i] \in Refusable
    /\ handling' = RemoveAt(handling, i)
    /\ pending' = Append(pending, handling[i])
    /\ processing' = (processing /\ SaveThrows)
    /\ UNCHANGED <<ticks, unseen, finished>>

HandlerNext(i) == HandlerAccepts(i) \/ HandlerRefuses(i)

\* nextTick runs process().
Tick ==
    /\ ticks > 0
    /\ ticks' = ticks - 1
    /\ Process(pending)
    /\ UNCHANGED <<unseen, finished>>

\* process() is public: a caller may start a queue constructed with messages.
CallProcess ==
    /\ Process(pending)
    /\ UNCHANGED <<ticks, unseen, finished>>

QueueNext ==
    \/ \E m \in Message : Enqueue(m)
    \/ \E i \in DOMAIN handling : HandlerNext(i)
    \/ Tick
    \/ CallProcess

QueueSpec == QueueInit /\ [][QueueNext]_queueVars

-----------------------------------------------------------------------------
QueueTypeOK ==
    /\ pending \in Seq(Message)
    /\ processing \in BOOLEAN
    /\ handling \in Seq(Message)
    /\ ticks \in Nat
    /\ unseen \subseteq Message
    /\ finished \in Seq(Message)

\* At most one handler runs at a time, and the processing flag says exactly
\* whether one does: it is not cleared early (two handlers at once) and, unless
\* save() throws, not left set once the handler is done (a queue that is stuck).
OneHandler ==
    /\ Len(handling) <= 1
    /\ handling # <<>> => processing
    /\ processing /\ handling = <<>> => SaveThrows

\* No message is lost or handled twice: every message a caller enqueued is, as
\* long as it is truthy, at exactly one of: pending, with its handler, finished.
Everywhere == pending \o handling \o finished
Conserved ==
    /\ IsInjective(Everywhere)
    /\ ToSet(Everywhere) \subseteq Message \ unseen
    /\ (Message \ unseen) \ ToSet(Everywhere) \subseteq Falsy

\* The queue is the line of WorkQueue: the message being handled is the head.
Line == INSTANCE WorkQueue WITH line <- handling \o pending, served <- finished
ServesInOrder == Line!Spec

-----------------------------------------------------------------------------
(***************************************************************************)
(* Fairness: nextTick runs what it was given, and a handler, once it has   *)
(* been called, calls next() in the end; a handler that may refuse and is  *)
(* called again and again accepts in the end.                              *)
(***************************************************************************)
HandlerAnswers == \E i \in DOMAIN handling : HandlerNext(i)
HandlerFinishes(m) == \E i \in DOMAIN handling : handling[i] = m /\ HandlerAccepts(i)

QueueFairness ==
    /\ WF_queueVars(Tick)
    /\ WF_queueVars(HandlerAnswers)
    /\ \A m \in Message : SF_queueVars(HandlerFinishes(m))

\* Every message a caller enqueues is handled to the end: the chain of process()
\* calls that next() keeps going never breaks while messages are waiting.
EveryMessageFinishes ==
    \A m \in Message : m \notin unseen ~> m \in ToSet(finished)
=============================================================================
