-------------------------------- MODULE Event --------------------------------
(***************************************************************************)
(* packages/core/src/events/shared.ts: an Event and a PipeEvent over it,   *)
(* which listens to the Event only while it has listeners of its own.      *)
(*                                                                         *)
(* Everything is synchronous, and a listener may call any method again     *)
(* while it runs: the stack holds the emissions in progress, each with the *)
(* listeners it still has to call. An action is one call made by user code *)
(* (a listener that is running, or the main program when the stack is      *)
(* empty), or one step of the emission on top.                             *)
(***************************************************************************)
EXTENDS Integers, Sequences, SequencesExt, FiniteSets

CONSTANTS
    Callback,   \* the listener functions of the program
    MaxListeners, \* maxListeners of both events
    MaxDepth,     \* bound: nesting of the emissions user code starts
    MaxEmits,     \* bound: emissions
    MaxAdds       \* bound: addListener calls

ASSUME EventAssumption ==
    /\ {MaxListeners, MaxDepth, MaxEmits, MaxAdds} \subseteq Nat \ {0}
    /\ {"forward", "none"} \cap Callback = {}

Events == {"source", "pipe"}

\* A registered function: a function of the program, or the wrapper that the
\* k-th addListener call makes for one with the once option. Equality of these
\* records is the identity that indexOf compares.
Entry == [fn : Callback, wrapper : 0..MaxAdds]
Forward == [fn |-> "forward", wrapper |-> 0] \* the PipeEvent's own, on its source
Nobody == [fn |-> "none", wrapper |-> 0]

VARIABLES
    listeners,  \* this.listeners of each event
    subscribed, \* the PipeEvent's this.subscription is set
    stack,      \* emissions in progress: [event, todo, running], innermost last
    adds,       \* how many addListener calls were made
    held,       \* the subscriptions they returned: <<event, entry>>
    fired,      \* how often each once wrapper called its function
    emits,      \* how many emissions user code started
    cleared     \* who was emptied with the PipeEvent's subscription left in place

vars == <<listeners, subscribed, stack, adds, held, fired, emits, cleared>>

Top == stack[Len(stack)]
UserCode == stack # <<>> => Top.running \notin {Nobody, Forward}

Init ==
    /\ listeners = [e \in Events |-> <<>>]
    /\ subscribed = FALSE
    /\ stack = <<>>
    /\ adds = 0
    /\ held = {}
    /\ fired = [k \in 1..MaxAdds |-> 0]
    /\ emits = 0
    /\ cleared = {}

-----------------------------------------------------------------------------
HasListener(e, x) == x \in ToSet(listeners[e])

\* addListener refuses once there are more listeners than the maximum.
Full(e) == Len(listeners[e]) > MaxListeners

\* addListener on an event that is not full. A PipeEvent subscribes to its
\* source first, which fails when the source is full.
Register(e, x) ==
    /\ ~Full(e)
    /\ IF e = "pipe" /\ ~subscribed
       THEN /\ ~Full("source")
            /\ listeners' = [listeners EXCEPT !["pipe"] = Append(@, x),
                                              !["source"] = Append(@, Forward)]
            /\ subscribed' = TRUE
       ELSE /\ listeners' = [listeners EXCEPT ![e] = Append(@, x)]
            /\ UNCHANGED subscribed

\* Mutant of Detach: the PipeEvent never lets go of its source.
DetachKeepingSource(e, x) ==
    /\ listeners' = [listeners EXCEPT ![e] = RemoveFirst(@, x)]
    /\ UNCHANGED <<subscribed, cleared>>

\* removeListener(x): its first occurrence. A PipeEvent that loses its last
\* listener calls its subscription, which does the same on the source.
Detach(e, x) ==
    LET rest == RemoveFirst(listeners[e], x) IN
    IF e = "pipe" /\ HasListener(e, x) /\ rest = <<>> /\ subscribed
    THEN /\ listeners' = [listeners EXCEPT
                             !["pipe"] = rest, !["source"] = RemoveFirst(@, Forward)]
         /\ subscribed' = FALSE
         /\ cleared' = {}
    ELSE /\ listeners' = [listeners EXCEPT ![e] = rest]
         /\ UNCHANGED <<subscribed, cleared>>

AddListener(e, f, once) ==
    /\ UserCode
    /\ adds < MaxAdds
    /\ LET x == [fn |-> f, wrapper |-> IF once THEN adds + 1 ELSE 0] IN
       /\ Register(e, x)
       /\ held' = held \cup {<<e, x>>}
    /\ adds' = adds + 1
    /\ cleared' = IF e = "pipe" THEN cleared \ {"pipe"} ELSE cleared
    /\ UNCHANGED <<stack, fired, emits>>

\* A subscription that addListener returned is called, for the first time or not.
Unsubscribe(h) ==
    /\ UserCode
    /\ Detach(h[1], h[2])
    /\ UNCHANGED <<stack, adds, held, fired, emits>>

\* removeListener() without a listener, or the disposal of the source.
ClearSource ==
    /\ UserCode
    /\ listeners' = [listeners EXCEPT !["source"] = <<>>]
    /\ cleared' = IF subscribed THEN cleared \cup {"source"} ELSE cleared
    /\ UNCHANGED <<subscribed, stack, adds, held, fired, emits>>

\* The PipeEvent calls its subscription, and keeps none of its listeners.
LetGo ==
    /\ listeners' = [listeners EXCEPT
                        !["pipe"] = <<>>, !["source"] = RemoveFirst(@, Forward)]
    /\ subscribed' = FALSE
    /\ cleared' = {}

\* removeListener() of the PipeEvent without a listener: Event's own answers true
\* when there was nobody to remove, so it is then that the subscription is called.
\* A PipeEvent without a subscription has no listeners either.
ClearPipe ==
    /\ UserCode
    /\ subscribed
    /\ \/ /\ listeners["pipe"] # <<>>
          /\ listeners' = [listeners EXCEPT !["pipe"] = <<>>]
          /\ cleared' = cleared \cup {"pipe"}
          /\ UNCHANGED subscribed
       \/ /\ listeners["pipe"] = <<>>
          /\ LetGo
    /\ UNCHANGED <<stack, adds, held, fired, emits>>

\* The disposal of the PipeEvent: each teardown removes a listener of its own, the
\* last one with the subscription; without listeners, none answers true.
DisposePipe ==
    /\ UserCode
    /\ listeners["pipe"] # <<>>
    /\ LetGo
    /\ UNCHANGED <<stack, adds, held, fired, emits>>

-----------------------------------------------------------------------------
Frame(e) == [event |-> e, todo |-> listeners[e], running |-> Nobody]
SetTop(f) == Append(Front(stack), f)

\* emit(): the listeners of this moment, in a copy.
Emit(e) ==
    /\ UserCode
    /\ Cardinality({k \in DOMAIN stack : stack[k].running # Forward}) < MaxDepth
    /\ emits < MaxEmits
    /\ emits' = emits + 1
    /\ stack' = Append(stack, Frame(e))
    /\ UNCHANGED <<listeners, subscribed, adds, held, fired, cleared>>

Calling == stack # <<>> /\ Top.running = Nobody
Called(x) == [Top EXCEPT !.todo = Tail(@), !.running = x]

CallPlain ==
    /\ Calling /\ Top.todo # <<>>
    /\ Head(Top.todo) # Forward /\ Head(Top.todo).wrapper = 0
    /\ stack' = SetTop(Called(Head(Top.todo)))
    /\ UNCHANGED <<listeners, subscribed, adds, held, fired, emits, cleared>>

\* Mutant of CallOnce: the wrapper does not stop listening.
CallOnceStays ==
    /\ Calling /\ Top.todo # <<>>
    /\ Head(Top.todo).wrapper # 0
    /\ fired' = [fired EXCEPT ![Head(Top.todo).wrapper] = @ + 1]
    /\ stack' = SetTop(Called(Head(Top.todo)))
    /\ UNCHANGED <<listeners, subscribed, adds, held, emits, cleared>>

\* A once wrapper calls stopListening(), then its function.
CallOnce ==
    /\ Calling /\ Top.todo # <<>>
    /\ Head(Top.todo).wrapper # 0
    /\ Detach(Top.event, Head(Top.todo))
    /\ fired' = [fired EXCEPT ![Head(Top.todo).wrapper] = @ + 1]
    /\ stack' = SetTop(Called(Head(Top.todo)))
    /\ UNCHANGED <<adds, held, emits>>

\* The PipeEvent's listener emits to the listeners of the PipeEvent.
CallForward ==
    /\ Calling /\ Top.todo # <<>>
    /\ Head(Top.todo) = Forward
    /\ stack' = Append(SetTop(Called(Forward)), Frame("pipe"))
    /\ UNCHANGED <<listeners, subscribed, adds, held, fired, emits, cleared>>

ListenerReturns ==
    /\ UserCode /\ stack # <<>>
    /\ stack' = SetTop([Top EXCEPT !.running = Nobody])
    /\ UNCHANGED <<listeners, subscribed, adds, held, fired, emits, cleared>>

\* emit() returns: to user code, or to the Forward listener, which returns too.
EmitReturns ==
    /\ Calling /\ Top.todo = <<>>
    /\ LET rest == Front(stack) IN
       stack' = IF rest # <<>> /\ Last(rest).running = Forward
                THEN Append(Front(rest), [Last(rest) EXCEPT !.running = Nobody])
                ELSE rest
    /\ UNCHANGED <<listeners, subscribed, adds, held, fired, emits, cleared>>

\* A listener throws: the rest of the emission is abandoned, and that of the
\* source when it was forwarded, and the caller of emit() goes on.
ListenerThrows ==
    /\ UserCode /\ stack # <<>>
    /\ LET rest == Front(stack) IN
       stack' = IF rest # <<>> /\ Last(rest).running = Forward THEN Front(rest) ELSE rest
    /\ UNCHANGED <<listeners, subscribed, adds, held, fired, emits, cleared>>

Next ==
    \/ \E e \in Events, f \in Callback, once \in BOOLEAN : AddListener(e, f, once)
    \/ \E h \in held : Unsubscribe(h)
    \/ ClearSource
    \/ ClearPipe
    \/ DisposePipe
    \/ \E e \in Events : Emit(e)
    \/ CallPlain
    \/ CallOnce
    \/ CallForward
    \/ ListenerReturns
    \/ EmitReturns
    \/ ListenerThrows

Spec == Init /\ [][Next]_vars

-----------------------------------------------------------------------------
StackFrame == [event : Events, todo : Seq(Entry \cup {Forward}),
               running : Entry \cup {Forward, Nobody}]

TypeOK ==
    /\ listeners \in [Events -> Seq(Entry \cup {Forward})]
    /\ subscribed \in BOOLEAN /\ cleared \subseteq Events
    /\ stack \in Seq(StackFrame)
    /\ adds \in 0..MaxAdds /\ emits \in 0..MaxEmits
    /\ held \subseteq Events \X Entry
    /\ fired \in [1..MaxAdds -> Nat]

\* The PipeEvent listens to its source, with a single function, while it has
\* listeners: it neither misses emissions nor stays attached for nobody. There are
\* two exceptions, both of a removeListener() without a listener: the source's
\* takes the PipeEvent off it, and the PipeEvent's own leaves it attached for
\* nobody until a listener comes and goes, or until it is called once more.
PipeAttachedWhileListened ==
    /\ subscribed <=> (listeners["pipe"] # <<>> \/ "pipe" \in cleared)
    /\ "pipe" \in cleared => listeners["pipe"] = <<>>
    /\ Cardinality({i \in DOMAIN listeners["source"] : listeners["source"][i] = Forward})
         = IF subscribed /\ "source" \notin cleared THEN 1 ELSE 0

\* A once listener that has run, or is running, is no longer registered: no
\* emission that starts later can call it, from within the listener included.
FiredIsGone ==
    \A h \in held : h[2].wrapper # 0 /\ fired[h[2].wrapper] > 0 => ~HasListener(h[1], h[2])

\* A once listener runs at most once for each emission that was already in
\* progress when it first ran, so once where emissions do not nest: no emission
\* that starts later reaches it, whatever was removed or added meanwhile.
OnceFiresPerEmission == \A k \in 1..MaxAdds : fired[k] <= MaxDepth

\* An event never holds more than one listener above its maximum: the check
\* before the push compares with > (shared.ts:189).
ListenersBounded == \A e \in Events : Len(listeners[e]) <= MaxListeners + 1

\* What holds of the listeners of an event: the fields are well typed, a once
\* listener is gone when it ran and runs once for each emission under way, and the
\* maximum is passed by one at most.
OnceAndBounded == TypeOK /\ FiredIsGone /\ OnceFiresPerEmission /\ ListenersBounded
=============================================================================
