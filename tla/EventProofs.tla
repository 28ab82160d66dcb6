------------------------------ MODULE EventProofs -----------------------------
(***************************************************************************)
(* What the events of packages/core/src/events promise, for any listeners, *)
(* any number of emissions and any nesting: a once listener of an Event    *)
(* runs once per emission and a PipeEvent is attached while it is listened *)
(* to (Event); an emission that waits for its listeners reaches those that *)
(* stay (AsyncEvents); what a manager is given it ends, or keeps           *)
(* (Teardown); a listener that comes late hears each emission once         *)
(* (Replay).  And what the observables built on them promise: a binding    *)
(* has the value of its path (Bindings), the result of a formatter the     *)
(* items of the array it shows (ObservableArrays).                         *)
(***************************************************************************)
EXTENDS Event, Replay, AsyncEvents, Teardown, Bindings, ObservableArrays, SequenceFacts

\* An entry that stands for one call of addListener with an option.
IsWrapper(x) == x.wrapper # 0

\* Who is in the list of an event was added to it, and each wrapper stands for
\* one call of addListener, so it is there once.
ListenersFromAdds ==
  /\ \A h \in held : h[2].wrapper <= adds
  /\ \A g, h \in held : IsWrapper(g[2]) /\ g[2].wrapper = h[2].wrapper => g = h
  /\ \A e \in Events : \A x \in ToSet(listeners[e]) :
       IsWrapper(x) => <<e, x>> \in held /\ AtMostOnce(listeners[e], x)

\* The PipeEvent's own function is on its source while the PipeEvent is
\* subscribed, unless the source was cleared, and nowhere else; and it is
\* subscribed while it has listeners, or when it was cleared of them.
ForwardWhileSubscribed ==
  /\ subscribed <=> (listeners["pipe"] # <<>> \/ "pipe" \in cleared)
  /\ "pipe" \in cleared => listeners["pipe"] = <<>>
  /\ "source" \in cleared => subscribed
  /\ Forward \notin ToSet(listeners["pipe"])
  /\ AtMostOnce(listeners["source"], Forward)
  /\ Forward \in ToSet(listeners["source"]) <=> (subscribed /\ "source" \notin cleared)

\* What a listener list must be, with no regard to the emissions in progress.
ListenersInv ==
  /\ listeners \in [Events -> Seq(Entry \cup {Forward})]
  /\ subscribed \in BOOLEAN /\ cleared \subseteq Events
  /\ adds \in 0..MaxAdds /\ held \subseteq Events \X Entry
  /\ ListenersFromAdds /\ ForwardWhileSubscribed /\ ListenersBounded

\* The emissions that count, and those that still have to call a wrapper.
Counted(st) == {i \in DOMAIN st : st[i].running # Forward}
Awaiting(st, k) == {i \in DOMAIN st : \E x \in ToSet(st[i].todo) : x.wrapper = k}

\* A forwarded emission stands on the emission of the source that it is part of,
\* and an emission calls those that were added to its event, the wrappers once.
StackShape(st, hd) ==
  \A i \in DOMAIN st :
    /\ st[i].running = Forward =>
         st[i].event = "source" /\ i + 1 \in DOMAIN st /\ st[i + 1].event = "pipe"
    /\ st[i].event = "pipe" => Forward \notin ToSet(st[i].todo)
    /\ \A x \in ToSet(st[i].todo) :
         IsWrapper(x) => <<st[i].event, x>> \in hd /\ AtMostOnce(st[i].todo, x)

\* A wrapper that fired is on no list.
FiredIsNowhere ==
  \A k \in 1..MaxAdds : fired[k] > 0 =>
    k <= adds /\ \A e \in Events : \A x \in ToSet(listeners[e]) : x.wrapper # k

\* The calls that a wrapper made and those it may still make.
CallsWithinDepth ==
  \A k \in 1..MaxAdds : fired[k] + Cardinality(Awaiting(stack, k)) <= MaxDepth

\* The emissions in progress, with the wrappers they still have to call.
StackInv ==
  /\ stack \in Seq(StackFrame) /\ emits \in 0..MaxEmits /\ fired \in [1..MaxAdds -> Nat]
  /\ StackShape(stack, held) /\ Cardinality(Counted(stack)) <= MaxDepth
  /\ FiredIsNowhere /\ CallsWithinDepth

\* The lists and the emissions in progress together.
EventInv == ListenersInv /\ StackInv

\* The PipeEvent's own function is neither a function of the program nor a
\* wrapper, and a wrapper has the number of a call of addListener.
LEMMA EntryFacts ==
  /\ \A x \in Entry : x # Forward /\ x # Nobody /\ x.wrapper \in 0..MaxAdds
  /\ Forward.wrapper = 0 /\ Nobody.wrapper = 0 /\ Forward # Nobody
  /\ {MaxListeners, MaxDepth, MaxEmits, MaxAdds} \subseteq Nat
  /\ "source" \in Events /\ "pipe" \in Events /\ "source" # "pipe"
<1>1. ASSUME NEW x \in Entry PROVE x # Forward /\ x # Nobody /\ x.wrapper \in 0..MaxAdds
  <2>1. x.fn \in Callback /\ x.wrapper \in 0..MaxAdds
    BY DEF Entry
  <2>2. x.fn # "forward" /\ x.fn # "none"
    BY <2>1, EventAssumption
  <2>3. Forward.fn = "forward" /\ Nobody.fn = "none"
    BY DEF Forward, Nobody
  <2> QED
    BY <2>1, <2>2, <2>3
<1>2. Forward.wrapper = 0 /\ Nobody.wrapper = 0
  BY DEF Forward, Nobody
<1>3. Forward # Nobody
  <2>1. Forward.fn = "forward" /\ Nobody.fn = "none"
    BY DEF Forward, Nobody
  <2> QED
    BY <2>1
<1> QED
  BY <1>1, <1>2, <1>3, EventAssumption DEF Events

\* removeListener: the lists lose elements only, and the wrapper that is removed
\* is not in the list of its event any more.
LEMMA DetachKeeps ==
  ASSUME ListenersInv, NEW e \in Events, NEW x \in Entry, Detach(e, x), UNCHANGED <<adds, held>>
  PROVE  /\ ListenersInv'
         /\ \A ev \in Events : ToSet(listeners'[ev]) \subseteq ToSet(listeners[ev])
         /\ IsWrapper(x) => x \notin ToSet(listeners'[e])
<1> DEFINE T == Entry \cup {Forward}
           rest == RemoveFirst(listeners[e], x)
           lets == e = "pipe" /\ HasListener(e, x) /\ rest = <<>> /\ subscribed
<1>1. /\ listeners \in [Events -> Seq(T)] /\ subscribed \in BOOLEAN /\ cleared \subseteq Events
      /\ adds \in 0..MaxAdds /\ held \subseteq Events \X Entry
      /\ UNCHANGED <<adds, held>> /\ x # Forward
  BY EntryFacts DEF ListenersInv
<1>2. \A ev \in Events : \A y :
        LET r == RemoveFirst(listeners[ev], y) IN
          /\ r \in Seq(T) /\ Len(r) <= Len(listeners[ev]) /\ ToSet(r) \subseteq ToSet(listeners[ev])
          /\ \A z : AtMostOnce(listeners[ev], z) => AtMostOnce(r, z)
          /\ \A z : z # y => (z \in ToSet(r) <=> z \in ToSet(listeners[ev]))
          /\ AtMostOnce(listeners[ev], y) => y \notin ToSet(r)
  BY <1>1, RemoveFirstKeeps
<1>3. /\ lets => /\ listeners' = [listeners EXCEPT !["pipe"] = rest,
                                                 !["source"] = RemoveFirst(@, Forward)]
                 /\ subscribed' = FALSE /\ cleared' = {}
      /\ ~lets => /\ listeners' = [listeners EXCEPT ![e] = rest]
                  /\ UNCHANGED <<subscribed, cleared>>
  BY DEF Detach
<1> HIDE DEF rest
<1>4. listeners'[e] = rest /\ listeners' \in [Events -> Seq(T)]
  <2>1. rest \in Seq(T) /\ RemoveFirst(listeners["source"], Forward) \in Seq(T)
    BY <1>2, EntryFacts DEF rest
  <2> QED
    BY <1>1, <1>3, <2>1, EntryFacts
<1>5. \A ev \in Events : \/ listeners'[ev] = listeners[ev]
                         \/ \E y : listeners'[ev] = RemoveFirst(listeners[ev], y)
  <2> SUFFICES ASSUME NEW ev \in Events
               PROVE  \/ listeners'[ev] = listeners[ev]
                      \/ \E y : listeners'[ev] = RemoveFirst(listeners[ev], y)
    OBVIOUS
  <2>1. CASE ev = e
    BY <1>4, <2>1 DEF rest
  <2>2. CASE ev # e /\ lets
    <3>1. ev = "source"
      BY <2>2 DEF Events
    <3> QED
      BY <1>1, <1>3, <2>2, <3>1
  <2>3. CASE ev # e /\ ~lets
    BY <1>1, <1>3, <2>3
  <2> QED
    BY <2>1, <2>2, <2>3
<1> HIDE DEF lets
<1>6. \A ev \in Events : /\ ToSet(listeners'[ev]) \subseteq ToSet(listeners[ev])
                         /\ \A z : AtMostOnce(listeners[ev], z) => AtMostOnce(listeners'[ev], z)
  BY <1>2, <1>5
<1>7. IsWrapper(x) => x \notin ToSet(listeners'[e])
  <2>1. IsWrapper(x) => AtMostOnce(listeners[e], x) \/ x \notin ToSet(listeners[e])
    BY DEF ListenersInv, ListenersFromAdds
  <2> QED
    BY <1>2, <1>4, <2>1 DEF rest
<1>8. ListenersFromAdds'
  BY <1>1, <1>6 DEF ListenersInv, ListenersFromAdds
<1>9. ListenersBounded'
  <2> SUFFICES ASSUME NEW ev \in Events PROVE Len(listeners'[ev]) <= MaxListeners + 1
    BY DEF ListenersBounded
  <2>1. Len(listeners[ev]) <= MaxListeners + 1
    BY DEF ListenersInv, ListenersBounded
  <2>2. Len(listeners'[ev]) \in Nat /\ Len(listeners[ev]) \in Nat /\ Len(listeners'[ev]) <= Len(listeners[ev])
    <3>1. Len(listeners'[ev]) \in Nat /\ Len(listeners[ev]) \in Nat
      BY <1>1, <1>4, LenProperties
    <3>2. \A y : Len(RemoveFirst(listeners[ev], y)) <= Len(listeners[ev])
      BY <1>2
    <3>3. CASE listeners'[ev] = listeners[ev]
      BY <3>1, <3>3
    <3>4. CASE \E y : listeners'[ev] = RemoveFirst(listeners[ev], y)
      BY <3>1, <3>2, <3>4
    <3> QED
      BY <1>5, <3>1, <3>3, <3>4
  <2> QED
    BY <2>1, <2>2, EntryFacts
<1>10. ForwardWhileSubscribed'
  <2> DEFINE P == listeners["pipe"]
             S == listeners["source"]
  <2>0. /\ subscribed <=> (P # <<>> \/ "pipe" \in cleared)
        /\ "pipe" \in cleared => P = <<>>
        /\ "source" \in cleared => subscribed
        /\ Forward \notin ToSet(P) /\ AtMostOnce(S, Forward)
        /\ Forward \in ToSet(S) <=> (subscribed /\ "source" \notin cleared)
    BY DEF ListenersInv, ForwardWhileSubscribed
  <2>1. Forward \notin ToSet(listeners'["pipe"]) /\ AtMostOnce(listeners'["source"], Forward)
    BY <1>6, <2>0, EntryFacts
  <2>2. CASE lets
    <3>1. listeners'["pipe"] = <<>> /\ ~subscribed' /\ cleared' = {} /\ listeners'["source"] = RemoveFirst(S, Forward)
      BY <1>1, <1>3, <1>4, <2>2, EntryFacts DEF lets
    <3>2. Forward \notin ToSet(listeners'["source"])
      BY <1>2, <2>0, <3>1, EntryFacts
    <3> QED
      BY <2>1, <3>1, <3>2 DEF ForwardWhileSubscribed
  <2>3. CASE ~lets
    <3>1. subscribed' = subscribed /\ cleared' = cleared
      BY <1>3, <2>3
    <3>2. Forward \in ToSet(listeners'["source"]) <=> Forward \in ToSet(S)
      <4>1. CASE e = "source"
        BY <1>1, <1>2, <1>4, <4>1 DEF rest
      <4>2. CASE e = "pipe"
        <5>1. listeners'["source"] = S
          BY <1>1, <1>3, <2>3, <4>2, EntryFacts
        <5> QED
          BY <5>1
      <4> QED
        BY <4>1, <4>2 DEF Events
    <3>3. listeners'["pipe"] # <<>> <=> P # <<>>
      <4>1. CASE e = "source"
        BY <1>1, <1>3, <2>3, <4>1, EntryFacts
      <4>2. CASE e = "pipe"
        <5>1. CASE x \in ToSet(P)
          <6>1. P # <<>>
            BY <5>1, ElementsOfNothing
          <6>2. rest # <<>>
            BY <2>0, <2>3, <4>2, <5>1, <6>1 DEF lets, HasListener
          <6> QED
            BY <1>4, <4>2, <6>1, <6>2
        <5>2. CASE x \notin ToSet(P)
          <6>1. rest = P
            BY <1>1, <4>2, <5>2, RemoveFirstAt, EntryFacts DEF rest
          <6> QED
            BY <1>4, <4>2, <6>1
        <5> QED
          BY <5>1, <5>2
      <4> QED
        BY <4>1, <4>2 DEF Events
    <3> QED
      BY <2>0, <2>1, <3>1, <3>2, <3>3 DEF ForwardWhileSubscribed
  <2> QED
    BY <2>2, <2>3
<1>11. subscribed' \in BOOLEAN /\ cleared' \subseteq Events
  BY <1>1, <1>3
<1> QED
  BY <1>1, <1>4, <1>6, <1>7, <1>8, <1>9, <1>10, <1>11 DEF ListenersInv

\* addListener on an event that is not full.
LEMMA AddKeeps ==
  ASSUME ListenersInv, NEW e \in Events, NEW f \in Callback, NEW once \in BOOLEAN, AddListener(e, f, once)
  PROVE  /\ ListenersInv'
         /\ held \subseteq held' /\ adds' = adds + 1
         /\ \A ev \in Events : \A y \in ToSet(listeners'[ev]) :
              y \in ToSet(listeners[ev]) \/ y.wrapper = 0 \/ y.wrapper = adds + 1
<1> DEFINE T == Entry \cup {Forward}
           x == [fn |-> f, wrapper |-> IF once THEN adds + 1 ELSE 0]
           subscribes == e = "pipe" /\ ~subscribed
<1>1. /\ listeners \in [Events -> Seq(T)] /\ subscribed \in BOOLEAN /\ cleared \subseteq Events
      /\ adds \in 0..MaxAdds /\ held \subseteq Events \X Entry
      /\ adds < MaxAdds /\ adds' = adds + 1 /\ held' = held \cup {<<e, x>>}
      /\ cleared' = IF e = "pipe" THEN cleared \ {"pipe"} ELSE cleared
      /\ ~Full(e)
      /\ subscribes => /\ ~Full("source") /\ subscribed' = TRUE
                       /\ listeners' = [listeners EXCEPT !["pipe"] = Append(@, x), !["source"] = Append(@, Forward)]
      /\ ~subscribes => listeners' = [listeners EXCEPT ![e] = Append(@, x)] /\ subscribed' = subscribed
  BY DEF ListenersInv, AddListener, Register
<1>2. adds \in Nat /\ MaxAdds \in Nat /\ adds + 1 \in 0..MaxAdds
  BY <1>1, EntryFacts
<1>3. x \in Entry /\ x.wrapper \in {0, adds + 1} /\ x # Forward
  <2>1. (IF once THEN adds + 1 ELSE 0) \in 0..MaxAdds
    BY <1>2
  <2>2. x \in Entry
    BY <2>1 DEF Entry
  <2> QED
    BY <2>2, EntryFacts
<1> HIDE DEF x
<1>4. \A ev \in Events, y \in T :
        /\ Append(listeners[ev], y) \in Seq(T) /\ Len(Append(listeners[ev], y)) = Len(listeners[ev]) + 1
        /\ ToSet(Append(listeners[ev], y)) = ToSet(listeners[ev]) \union {y}
        /\ \A z : z # y /\ AtMostOnce(listeners[ev], z) => AtMostOnce(Append(listeners[ev], y), z)
        /\ y \notin ToSet(listeners[ev]) => AtMostOnce(Append(listeners[ev], y), y)
  BY <1>1, AppendKeeps
<1>x. \A ev \in Events :
        /\ Append(listeners[ev], x) \in Seq(T) /\ ToSet(Append(listeners[ev], x)) = ToSet(listeners[ev]) \union {x}
        /\ \A z : z # x /\ AtMostOnce(listeners[ev], z) => AtMostOnce(Append(listeners[ev], x), z)
        /\ x \notin ToSet(listeners[ev]) => AtMostOnce(Append(listeners[ev], x), x)
  BY <1>3, <1>4
<1>f. \A ev \in Events :
        /\ ToSet(Append(listeners[ev], Forward)) = ToSet(listeners[ev]) \union {Forward}
        /\ \A z : z # Forward /\ AtMostOnce(listeners[ev], z) => AtMostOnce(Append(listeners[ev], Forward), z)
        /\ Forward \notin ToSet(listeners[ev]) => AtMostOnce(Append(listeners[ev], Forward), Forward)
  BY <1>4
<1>5. \A ev \in Events :
        \/ listeners'[ev] = listeners[ev]
        \/ ev = e /\ listeners'[ev] = Append(listeners[ev], x) /\ ~Full(ev)
        \/ subscribes /\ ev = "source" /\ listeners'[ev] = Append(listeners[ev], Forward) /\ ~Full(ev)
  BY <1>1, EntryFacts DEF Events
<1>6. listeners' \in [Events -> Seq(T)]
  <2>1. listeners["pipe"] \in Seq(T) /\ Append(listeners["pipe"], x) \in Seq(T)
        /\ Append(listeners["source"], Forward) \in Seq(T) /\ Append(listeners[e], x) \in Seq(T)
    BY <1>1, <1>3, <1>4, EntryFacts
  <2> QED
    BY <1>1, <2>1, EntryFacts
<1> HIDE DEF subscribes
<1>7. ListenersBounded'
  <2> SUFFICES ASSUME NEW ev \in Events PROVE Len(listeners'[ev]) <= MaxListeners + 1
    BY DEF ListenersBounded
  <2>1. Len(listeners[ev]) \in Nat /\ MaxListeners \in Nat /\ Len(listeners[ev]) <= MaxListeners + 1
    BY <1>1, EntryFacts, LenProperties DEF ListenersInv, ListenersBounded
  <2>2. CASE listeners'[ev] = listeners[ev]
    BY <2>1, <2>2
  <2>3. CASE Len(listeners'[ev]) = Len(listeners[ev]) + 1 /\ ~Full(ev)
    BY <2>1, <2>3 DEF Full
  <2> QED
    BY <1>3, <1>4, <1>5, <2>2, <2>3
<1>8. \A ev \in Events : \A y \in ToSet(listeners'[ev]) :
        y \in ToSet(listeners[ev]) \/ (ev = e /\ y = x) \/ y = Forward
  <2> SUFFICES ASSUME NEW ev \in Events, NEW y \in ToSet(listeners'[ev])
               PROVE  y \in ToSet(listeners[ev]) \/ (ev = e /\ y = x) \/ y = Forward
    OBVIOUS
  <2>1. CASE listeners'[ev] = listeners[ev]
    BY <2>1
  <2>2. CASE ev = e /\ listeners'[ev] = Append(listeners[ev], x)
    BY <1>x, <2>2
  <2>3. CASE listeners'[ev] = Append(listeners[ev], Forward)
    BY <1>f, <2>3
  <2> QED
    BY <1>5, <2>1, <2>2, <2>3
<1>9. ListenersFromAdds'
  <2>1. \A h \in held' : h[2].wrapper <= adds'
    <3> SUFFICES ASSUME NEW h \in held' PROVE h[2].wrapper <= adds + 1
      BY <1>1
    <3>1. CASE h \in held
      <4>1. h[2].wrapper <= adds /\ h[2].wrapper \in 0..MaxAdds
        BY <1>1, <3>1, EntryFacts DEF ListenersInv, ListenersFromAdds
      <4> QED
        BY <1>2, <4>1
    <3>2. CASE h = <<e, x>>
      BY <1>2, <1>3, <3>2
    <3> QED
      BY <1>1, <3>1, <3>2
  <2>2. ASSUME NEW g \in held', NEW h \in held', IsWrapper(g[2]), g[2].wrapper = h[2].wrapper
        PROVE  g = h
    <3>1. \A k \in held : k[2].wrapper <= adds /\ k[2].wrapper \in 0..MaxAdds
      BY <1>1, EntryFacts DEF ListenersInv, ListenersFromAdds
    <3>2. \A k \in held : k[2].wrapper # adds + 1
      BY <1>2, <3>1
    <3>3. CASE g \in held /\ h \in held
      BY <2>2, <3>3 DEF ListenersInv, ListenersFromAdds
    <3>4. CASE g = <<e, x>> \/ h = <<e, x>>
      <4>1. held' = held \cup {<<e, x>>} /\ x.wrapper \in {0, adds + 1} /\ <<e, x>>[2] = x
        BY <1>1, <1>3
      <4> QED
        BY <2>2, <3>2, <3>4, <4>1 DEF IsWrapper
    <3> QED
      BY <1>1, <3>3, <3>4
  <2>3. ASSUME NEW ev \in Events, NEW y \in ToSet(listeners'[ev]), IsWrapper(y)
        PROVE  <<ev, y>> \in held' /\ AtMostOnce(listeners'[ev], y)
    <3>1. y # Forward
      BY <2>3, EntryFacts DEF IsWrapper
    <3>2. CASE y \in ToSet(listeners[ev])
      <4>1. <<ev, y>> \in held /\ AtMostOnce(listeners[ev], y)
        BY <2>3, <3>2 DEF ListenersInv, ListenersFromAdds
      <4>2. y.wrapper <= adds /\ y.wrapper \in 0..MaxAdds
        <5>1. <<ev, y>>[2].wrapper <= adds /\ y \in Entry
          BY <1>1, <4>1 DEF ListenersInv, ListenersFromAdds
        <5> QED
          BY <5>1, EntryFacts
      <4>3. y # x
        BY <1>2, <1>3, <2>3, <4>2 DEF IsWrapper
      <4> QED
        <5>1. <<ev, y>> \in held'
          BY <1>1, <4>1
        <5>2. AtMostOnce(listeners'[ev], y)
          BY <1>x, <1>f, <1>5, <3>1, <4>1, <4>3, Zenon
        <5> QED
          BY <5>1, <5>2
    <3>3. CASE y \notin ToSet(listeners[ev])
      <4>1. ev = e /\ y = x
        BY <1>8, <3>1, <3>3
      <4>2. AtMostOnce(Append(listeners[ev], x), x)
        BY <1>3, <1>4, <3>3, <4>1
      <4>3. listeners'[ev] = Append(listeners[ev], x)
        <5>1. listeners'[ev] # listeners[ev]
          BY <3>3
        <5>2. listeners'[ev] # Append(listeners[ev], Forward)
          <6>1. SUFFICES ASSUME listeners'[ev] = Append(listeners[ev], Forward) PROVE FALSE
            OBVIOUS
          <6>2. y \in ToSet(Append(listeners[ev], Forward))
            BY <2>3, <6>1
          <6> QED
            BY <1>f, <3>1, <3>3, <6>2
        <5> QED
          BY <1>5, <5>1, <5>2
      <4> QED
        BY <1>1, <4>1, <4>2, <4>3
    <3> QED
      BY <3>2, <3>3
  <2> QED
    BY <2>1, <2>2, <2>3 DEF ListenersFromAdds
<1>10. ForwardWhileSubscribed'
  <2> DEFINE P == listeners["pipe"]
             S == listeners["source"]
  <2>0. /\ subscribed <=> (P # <<>> \/ "pipe" \in cleared)
        /\ "pipe" \in cleared => P = <<>>
        /\ "source" \in cleared => subscribed
        /\ Forward \notin ToSet(P) /\ AtMostOnce(S, Forward)
        /\ Forward \in ToSet(S) <=> (subscribed /\ "source" \notin cleared)
    BY DEF ListenersInv, ForwardWhileSubscribed
  <2>1. \A ev \in Events : Append(listeners[ev], x) # <<>>
    BY <1>1, <1>3, <1>4, LenProperties, EmptySeq
  <2>2. CASE subscribes
    <3>1. /\ listeners'["pipe"] = Append(P, x) /\ listeners'["source"] = Append(S, Forward)
          /\ subscribed' /\ ~subscribed /\ "source" \notin cleared
          /\ cleared' = cleared \ {"pipe"}
      BY <1>1, <2>0, <2>2, EntryFacts DEF subscribes
    <3>2. Forward \in ToSet(listeners'["source"]) /\ AtMostOnce(listeners'["source"], Forward)
      BY <1>4, <2>0, <3>1, EntryFacts
    <3>3. Forward \notin ToSet(listeners'["pipe"]) /\ listeners'["pipe"] # <<>>
      <4>1. ToSet(listeners'["pipe"]) = ToSet(P) \union {x} /\ listeners'["pipe"] # <<>>
        BY <1>x, <2>1, <3>1, EntryFacts
      <4> QED
        BY <1>3, <2>0, <4>1
    <3> QED
      BY <3>1, <3>2, <3>3 DEF ForwardWhileSubscribed
  <2>3. CASE ~subscribes
    <3>1. /\ listeners' = [listeners EXCEPT ![e] = Append(@, x)]
          /\ subscribed' = subscribed
      BY <1>1, <2>3
    <3>2. CASE e = "pipe"
      <4>1. /\ listeners'["pipe"] = Append(P, x) /\ listeners'["source"] = S /\ subscribed
            /\ cleared' = cleared \ {"pipe"}
        BY <1>1, <2>3, <3>1, <3>2, EntryFacts DEF subscribes
      <4>2. Forward \notin ToSet(listeners'["pipe"]) /\ listeners'["pipe"] # <<>>
        <5>1. ToSet(listeners'["pipe"]) = ToSet(P) \union {x} /\ listeners'["pipe"] # <<>>
          BY <1>x, <2>1, <4>1, EntryFacts
        <5> QED
          BY <1>3, <2>0, <5>1
      <4> QED
        BY <2>0, <3>1, <4>1, <4>2 DEF ForwardWhileSubscribed
    <3>3. CASE e = "source"
      <4>1. listeners'["source"] = Append(S, x) /\ listeners'["pipe"] = P /\ cleared' = cleared
        BY <1>1, <3>1, <3>3, EntryFacts
      <4>2. /\ AtMostOnce(listeners'["source"], Forward)
            /\ Forward \in ToSet(listeners'["source"]) <=> Forward \in ToSet(S)
        <5>1. /\ ToSet(listeners'["source"]) = ToSet(S) \union {x}
              /\ AtMostOnce(S, Forward) /\ x # Forward => AtMostOnce(listeners'["source"], Forward)
          BY <1>x, <4>1, EntryFacts
        <5> QED
          BY <1>3, <2>0, <5>1
      <4> QED
        BY <2>0, <3>1, <4>1, <4>2 DEF ForwardWhileSubscribed
    <3> QED
      BY <3>2, <3>3 DEF Events
  <2> QED
    BY <2>2, <2>3
<1>11. subscribed' \in BOOLEAN /\ cleared' \subseteq Events /\ held' \subseteq Events \X Entry
  <2>1. subscribed' \in BOOLEAN /\ cleared' \subseteq Events
    BY <1>1
  <2> QED
    BY <1>1, <1>3, <2>1
<1>12. \A ev \in Events : \A y \in ToSet(listeners'[ev]) :
              y \in ToSet(listeners[ev]) \/ y.wrapper = 0 \/ y.wrapper = adds + 1
  BY <1>3, <1>8, EntryFacts
<1> QED
  BY <1>1, <1>2, <1>6, <1>7, <1>9, <1>10, <1>11, <1>12 DEF ListenersInv

\* One set is no larger than another that it results from by the exchange of an
\* element.
LEMMA Exchanged ==
  ASSUME NEW S, IsFiniteSet(S), NEW a \in S, NEW b, NEW T, T \subseteq (S \ {a}) \union {b}
  PROVE  Cardinality(T) <= Cardinality(S)
<1>1. IsFiniteSet(S \ {a}) /\ Cardinality(S \ {a}) = Cardinality(S) - 1 /\ Cardinality(S) \in Nat
  BY FS_RemoveElement, FS_CardinalityType
<1>2. /\ IsFiniteSet((S \ {a}) \union {b})
      /\ Cardinality((S \ {a}) \union {b}) = IF b \in S \ {a} THEN Cardinality(S \ {a}) ELSE Cardinality(S \ {a}) + 1
  BY <1>1, FS_AddElement
<1>3. Cardinality(T) <= Cardinality((S \ {a}) \union {b}) /\ Cardinality(T) \in Nat
  BY <1>2, FS_Subset, FS_CardinalityType
<1> QED
  BY <1>1, <1>2, <1>3

\* What counts and what awaits a call are finite.
LEMMA StackSets ==
  ASSUME NEW st \in Seq(StackFrame), NEW k
  PROVE  /\ IsFiniteSet(Counted(st)) /\ Cardinality(Counted(st)) \in Nat
         /\ IsFiniteSet(Awaiting(st, k)) /\ Cardinality(Awaiting(st, k)) \in Nat
<1>1. Len(st) \in Nat /\ DOMAIN st = 1..Len(st)
  BY LenProperties
<1>2. IsFiniteSet(1..Len(st))
  BY <1>1, FS_Interval
<1>3. Counted(st) \subseteq 1..Len(st) /\ Awaiting(st, k) \subseteq 1..Len(st)
  BY <1>1 DEF Counted, Awaiting
<1> QED
  BY <1>2, <1>3, FS_Subset, FS_CardinalityType

\* A wrapper awaits its call in as many emissions at most as there are calls of
\* emit() by user code under way: in an emission of the PipeEvent that is part of
\* one of its source it does not await another in the latter.
LEMMA AwaitingIsCounted ==
  ASSUME NEW st \in Seq(StackFrame), NEW hd, StackShape(st, hd), NEW k, k # 0,
         \A g, h \in hd : IsWrapper(g[2]) /\ g[2].wrapper = h[2].wrapper => g = h
  PROVE  Cardinality(Awaiting(st, k)) <= Cardinality(Counted(st))
<1> DEFINE A == Awaiting(st, k)
           C == Counted(st)
           f == [i \in A |-> IF st[i].running = Forward THEN i + 1 ELSE i]
<1>1. DOMAIN st = 1..Len(st) /\ Len(st) \in Nat
  BY LenProperties
<1>2. \A i \in A : i \in DOMAIN st /\ \E x : <<st[i].event, x>> \in hd /\ IsWrapper(x) /\ x.wrapper = k
  BY DEF Awaiting, StackShape, IsWrapper
<1>3. \A i, j \in A : st[i].event = st[j].event
  <2> SUFFICES ASSUME NEW i \in A, NEW j \in A PROVE st[i].event = st[j].event
    OBVIOUS
  <2>1. PICK x : <<st[i].event, x>> \in hd /\ IsWrapper(x) /\ x.wrapper = k
    BY <1>2
  <2>2. PICK y : <<st[j].event, y>> \in hd /\ IsWrapper(y) /\ y.wrapper = k
    BY <1>2
  <2>3. <<st[i].event, x>> = <<st[j].event, y>>
    BY <2>1, <2>2
  <2> QED
    BY <2>3
<1>4. \A i \in DOMAIN st : st[i].running = Forward =>
         st[i].event = "source" /\ i + 1 \in C /\ st[i + 1].event = "pipe"
  BY DEF StackShape, Counted
<1>5. f \in [A -> C]
  BY <1>2, <1>4 DEF Counted
<1>6. ASSUME NEW i \in A, NEW j \in A, f[i] = f[j] PROVE i = j
  <2>1. i \in Nat /\ j \in Nat /\ i \in DOMAIN st /\ j \in DOMAIN st
    BY <1>1, <1>2
  <2>2. CASE st[i].running = Forward /\ st[j].running = Forward
    <3>1. i + 1 = j + 1
      BY <1>6, <2>2
    <3> QED
      BY <2>1, <3>1
  <2>3. CASE st[i].running # Forward /\ st[j].running # Forward
    BY <1>6, <2>3
  <2>4. CASE st[i].running = Forward /\ st[j].running # Forward
    <3>1. j = i + 1
      BY <1>6, <2>4
    <3> QED
      BY <1>3, <1>4, <2>1, <2>4, <3>1
  <2>5. CASE st[i].running # Forward /\ st[j].running = Forward
    <3>1. i = j + 1
      BY <1>6, <2>5
    <3> QED
      BY <1>3, <1>4, <2>1, <2>5, <3>1
  <2> QED
    BY <2>2, <2>3, <2>4, <2>5
<1> HIDE DEF f
<1>7. f \in Injection(A, C)
  BY <1>5, <1>6 DEF Injection, IsInjective
<1>8. IsFiniteSet(C)
  BY StackSets
<1> QED
  BY <1>7, <1>8, FS_Injection

\* An emission goes on through its copy, or ends.
LEMMA StackGoesOn ==
  ASSUME NEW st \in Seq(StackFrame), NEW t \in Seq(StackFrame), NEW hd, NEW hd2, hd \subseteq hd2,
         StackShape(st, hd), Len(t) <= Len(st),
         \A i \in DOMAIN t :
           /\ t[i].event = st[i].event
           /\ t[i].todo = st[i].todo \/ (st[i].todo # <<>> /\ t[i].todo = Tail(st[i].todo))
           /\ t[i].running = Forward => st[i].running = Forward /\ i + 1 \in DOMAIN t
  PROVE  StackShape(t, hd2) /\ \A k : Awaiting(t, k) \subseteq Awaiting(st, k)
<1>1. \A i \in DOMAIN t : i \in DOMAIN st
  BY LenProperties
<1>2. ASSUME NEW i \in DOMAIN t
      PROVE  /\ ToSet(t[i].todo) \subseteq ToSet(st[i].todo)
             /\ \A x : AtMostOnce(st[i].todo, x) => AtMostOnce(t[i].todo, x)
  <2>1. st[i] \in StackFrame
    BY <1>1, LenProperties
  <2>2. st[i].todo \in Seq(Entry \cup {Forward})
    BY <2>1 DEF StackFrame
  <2>3. CASE t[i].todo = st[i].todo
    BY <2>3
  <2>4. CASE st[i].todo # <<>> /\ t[i].todo = Tail(st[i].todo)
    BY <2>2, <2>4, TailKeeps
  <2> QED
    BY <2>3, <2>4
<1>3. StackShape(t, hd2)
  <2> SUFFICES ASSUME NEW i \in DOMAIN t
               PROVE  /\ t[i].running = Forward =>
                           t[i].event = "source" /\ i + 1 \in DOMAIN t /\ t[i + 1].event = "pipe"
                      /\ t[i].event = "pipe" => Forward \notin ToSet(t[i].todo)
                      /\ \A x \in ToSet(t[i].todo) :
                           IsWrapper(x) => <<t[i].event, x>> \in hd2 /\ AtMostOnce(t[i].todo, x)
    BY DEF StackShape
  <2>1. /\ st[i].running = Forward =>
              st[i].event = "source" /\ i + 1 \in DOMAIN st /\ st[i + 1].event = "pipe"
        /\ st[i].event = "pipe" => Forward \notin ToSet(st[i].todo)
        /\ \A x \in ToSet(st[i].todo) :
             IsWrapper(x) => <<st[i].event, x>> \in hd /\ AtMostOnce(st[i].todo, x)
    BY <1>1 DEF StackShape
  <2> QED
    BY <1>2, <2>1
<1>4. ASSUME NEW k PROVE Awaiting(t, k) \subseteq Awaiting(st, k)
  BY <1>1, <1>2 DEF Awaiting
<1> QED
  BY <1>3, <1>4

\* The stack while it is not empty.
LEMMA StackTop ==
  ASSUME stack \in Seq(StackFrame), stack # <<>>
  PROVE  /\ Len(stack) \in Nat /\ Len(stack) >= 1 /\ DOMAIN stack = 1..Len(stack)
         /\ Top = stack[Len(stack)] /\ Top \in StackFrame
         /\ Front(stack) \in Seq(StackFrame) /\ Len(Front(stack)) = Len(stack) - 1
         /\ \A i \in 1..Len(stack) - 1 : Front(stack)[i] = stack[i]
         /\ \A f \in StackFrame :
              /\ SetTop(f) \in Seq(StackFrame) /\ Len(SetTop(f)) = Len(stack)
              /\ DOMAIN SetTop(f) = 1..Len(stack) /\ SetTop(f)[Len(stack)] = f
              /\ \A i \in 1..Len(stack) - 1 : SetTop(f)[i] = stack[i]
<1>1. \A f \in StackFrame :
              /\ SetTop(f) \in Seq(StackFrame) /\ Len(SetTop(f)) = Len(stack)
              /\ SetTop(f)[Len(stack)] = f
              /\ \A i \in 1..Len(stack) - 1 : SetTop(f)[i] = stack[i]
  BY LastReplaced DEF SetTop
<1>2. \A f \in StackFrame : DOMAIN SetTop(f) = 1..Len(stack)
  BY <1>1, LenProperties
<1>3. /\ Len(stack) \in Nat /\ Len(stack) >= 1 /\ DOMAIN stack = 1..Len(stack)
      /\ Top = stack[Len(stack)] /\ Top \in StackFrame
      /\ Front(stack) \in Seq(StackFrame) /\ Len(Front(stack)) = Len(stack) - 1
      /\ \A i \in 1..Len(stack) - 1 : Front(stack)[i] = stack[i]
  BY FrontOf, LenProperties DEF Top
<1> QED
  BY <1>1, <1>2, <1>3

\* The frame of an emission that calls the next of its listeners.
LEMMA CalledFrame ==
  ASSUME stack \in Seq(StackFrame), Calling, Top.todo # <<>>
  PROVE  LET x == Head(Top.todo) IN
         /\ stack # <<>> /\ Top \in StackFrame /\ x \in Entry \cup {Forward} /\ x \in ToSet(Top.todo)
         /\ Called(x) \in StackFrame /\ Called(x).event = Top.event
         /\ Called(x).todo = Tail(Top.todo) /\ Called(x).running = x
<1>1. stack # <<>> /\ Top \in StackFrame
  BY StackTop DEF Calling
<1>2. PICK s : s = Top.todo
  OBVIOUS
<1>3. s \in Seq(Entry \cup {Forward}) /\ s # <<>>
  BY <1>1, <1>2 DEF StackFrame
<1>4. Head(s) \in Entry \cup {Forward} /\ Head(s) \in ToSet(s) /\ Tail(s) \in Seq(Entry \cup {Forward})
  BY <1>3, TailKeeps, HeadTailProperties
<1>5. PICK x : x = Head(Top.todo)
  OBVIOUS
<1>6. x \in Entry \cup {Forward} /\ x \in ToSet(Top.todo) /\ Tail(Top.todo) \in Seq(Entry \cup {Forward})
  BY <1>2, <1>4, <1>5
<1>7. Called(x) \in StackFrame
  BY <1>1, <1>6 DEF Called, StackFrame
<1>8. Called(x).event = Top.event /\ Called(x).todo = Tail(Top.todo) /\ Called(x).running = x
  BY <1>1 DEF Called, StackFrame
<1> QED
  BY <1>1, <1>5, <1>6, <1>7, <1>8

\* What the calls that change the lists only need: those that fired are not put
\* on a list again, and the emissions in progress stay as they are.
LEMMA ListsChange ==
  ASSUME EventInv, ListenersInv', held \subseteq held', adds <= adds',
         \A ev \in Events : \A y \in ToSet(listeners'[ev]) :
           y \in ToSet(listeners[ev]) \/ y.wrapper = 0 \/ y.wrapper = adds + 1,
         UNCHANGED <<stack, emits, fired>>
  PROVE  EventInv'
<1>1. adds \in Nat /\ adds' \in Nat
  BY EntryFacts DEF EventInv, ListenersInv
<1>2. StackShape(stack, held')
  BY DEF EventInv, StackInv, StackShape
<1>3. FiredIsNowhere'
  <2> SUFFICES ASSUME NEW k \in 1..MaxAdds, fired[k] > 0
               PROVE  k <= adds' /\ \A e \in Events : \A x \in ToSet(listeners'[e]) : x.wrapper # k
    BY DEF FiredIsNowhere
  <2>1. k <= adds /\ \A e \in Events : \A x \in ToSet(listeners[e]) : x.wrapper # k
    BY DEF EventInv, StackInv, FiredIsNowhere
  <2>2. k # 0 /\ k # adds + 1 /\ k \in Int
    BY <1>1, <2>1, EntryFacts
  <2> QED
    BY <1>1, <2>1, <2>2
<1>4. CallsWithinDepth'
  BY DEF EventInv, StackInv, CallsWithinDepth
<1> QED
  BY <1>2, <1>3, <1>4 DEF EventInv, StackInv

\* The subscription of a listener is called.
LEMMA UnsubscribeKeeps ==
  ASSUME EventInv, NEW h \in held, Unsubscribe(h)
  PROVE  EventInv'
<1>1. h \in Events \X Entry
  BY DEF EventInv, ListenersInv
<1>2. h[1] \in Events /\ h[2] \in Entry
  BY <1>1
<1>3. Detach(h[1], h[2]) /\ UNCHANGED <<stack, adds, held, fired, emits>>
  BY DEF Unsubscribe
<1>4. ListenersInv' /\ \A ev \in Events : ToSet(listeners'[ev]) \subseteq ToSet(listeners[ev])
  BY <1>2, <1>3, DetachKeeps DEF EventInv
<1>5. adds <= adds'
  BY <1>3, EntryFacts DEF EventInv, ListenersInv
<1> QED
  BY <1>3, <1>4, <1>5, ListsChange

\* A listener is added, with or without the once option.
LEMMA AddListenerKeeps ==
  ASSUME EventInv, NEW e \in Events, NEW f \in Callback, NEW once \in BOOLEAN, AddListener(e, f, once)
  PROVE  EventInv'
<1>1. /\ ListenersInv' /\ held \subseteq held' /\ adds' = adds + 1
      /\ \A ev \in Events : \A y \in ToSet(listeners'[ev]) :
           y \in ToSet(listeners[ev]) \/ y.wrapper = 0 \/ y.wrapper = adds + 1
  BY AddKeeps DEF EventInv
<1>2. adds <= adds'
  BY <1>1, EntryFacts DEF EventInv, ListenersInv
<1>3. UNCHANGED <<stack, emits, fired>>
  BY DEF AddListener
<1> QED
  BY <1>1, <1>2, <1>3, ListsChange

\* The source loses all of its listeners, the PipeEvent's own included.
LEMMA ClearSourceKeeps ==
  ASSUME EventInv, ClearSource
  PROVE  EventInv'
<1> DEFINE T == Entry \cup {Forward}
<1>1. /\ listeners \in [Events -> Seq(T)] /\ subscribed \in BOOLEAN /\ cleared \subseteq Events
      /\ listeners' = [listeners EXCEPT !["source"] = <<>>] 
      /\ cleared' = IF subscribed THEN cleared \cup {"source"} ELSE cleared
      /\ UNCHANGED <<subscribed, stack, adds, held, fired, emits>>
  BY DEF ClearSource, EventInv, ListenersInv
<1>2. <<>> \in Seq(T) /\ ToSet(<<>>) = {} /\ Len(<<>>) = 0 /\ \A x : AtMostOnce(<<>>, x)
  <2>1. <<>> \in Seq(T) /\ ToSet(<<>>) = {}
    BY ElementsOfNothing
  <2>2. Len(<<>>) = 0 /\ DOMAIN <<>> = {}
    OBVIOUS
  <2> QED
    BY <2>1, <2>2 DEF AtMostOnce
<1>3. /\ listeners' \in [Events -> Seq(T)] /\ listeners'["source"] = <<>>
      /\ \A ev \in Events : ev # "source" => listeners'[ev] = listeners[ev]
  BY <1>1, <1>2, EntryFacts
<1>4. \A ev \in Events : listeners'[ev] = listeners[ev] \/ listeners'[ev] = <<>>
  BY <1>3
<1>5. ListenersFromAdds'
  BY <1>1, <1>2, <1>4 DEF EventInv, ListenersInv, ListenersFromAdds
<1>6. ForwardWhileSubscribed'
  BY <1>1, <1>2, <1>3, EntryFacts DEF EventInv, ListenersInv, ForwardWhileSubscribed
<1>7. ListenersBounded'
  <2>1. MaxListeners \in Nat
    BY EntryFacts
  <2> QED
    BY <1>2, <1>4, <2>1 DEF EventInv, ListenersInv, ListenersBounded
<1>8. ListenersInv'
  <2>1. cleared' \subseteq Events
    BY <1>1 DEF Events
  <2> QED
    BY <1>1, <1>3, <1>5, <1>6, <1>7, <2>1 DEF EventInv, ListenersInv
<1>9. adds <= adds'
  BY <1>1, EntryFacts DEF EventInv, ListenersInv
<1>10. \A ev \in Events : ToSet(listeners'[ev]) \subseteq ToSet(listeners[ev])
  BY <1>2, <1>4
<1> QED
  BY <1>1, <1>8, <1>9, <1>10, ListsChange

\* The PipeEvent loses all of its listeners and lets go of its source.
LEMMA LetGoKeeps ==
  ASSUME EventInv, LetGo, UNCHANGED <<stack, adds, held, fired, emits>>
  PROVE  EventInv'
<1> DEFINE T == Entry \cup {Forward}
           rest == RemoveFirst(listeners["source"], Forward)
<1>1. /\ listeners \in [Events -> Seq(T)] /\ subscribed \in BOOLEAN /\ cleared \subseteq Events
      /\ listeners' = [listeners EXCEPT !["pipe"] = <<>>, !["source"] = rest]
      /\ subscribed' = FALSE /\ cleared' = {}
      /\ UNCHANGED <<stack, adds, held, fired, emits>>
  BY DEF LetGo, EventInv, ListenersInv
<1>2. <<>> \in Seq(T) /\ ToSet(<<>>) = {} /\ Len(<<>>) = 0 /\ \A x : AtMostOnce(<<>>, x)
  <2>1. <<>> \in Seq(T) /\ ToSet(<<>>) = {}
    BY ElementsOfNothing
  <2>2. Len(<<>>) = 0 /\ DOMAIN <<>> = {}
    OBVIOUS
  <2> QED
    BY <2>1, <2>2 DEF AtMostOnce
<1>3. /\ rest \in Seq(T) /\ Len(rest) <= Len(listeners["source"])
      /\ ToSet(rest) \subseteq ToSet(listeners["source"])
      /\ \A x : AtMostOnce(listeners["source"], x) => AtMostOnce(rest, x)
      /\ AtMostOnce(listeners["source"], Forward) => Forward \notin ToSet(rest)
  BY <1>1, RemoveFirstKeeps, EntryFacts
<1> HIDE DEF rest
<1>4. /\ listeners' \in [Events -> Seq(T)] /\ listeners'["pipe"] = <<>>
      /\ listeners'["source"] = rest
  BY <1>1, <1>2, <1>3, EntryFacts
<1>5. \A ev \in Events : /\ ToSet(listeners'[ev]) \subseteq ToSet(listeners[ev])
                         /\ \A x : AtMostOnce(listeners[ev], x) => AtMostOnce(listeners'[ev], x)
  BY <1>2, <1>3, <1>4 DEF Events
<1>6. ListenersFromAdds'
  BY <1>1, <1>5 DEF EventInv, ListenersInv, ListenersFromAdds
<1>7. ForwardWhileSubscribed'
  <2>1. /\ AtMostOnce(listeners["source"], Forward)
        /\ Forward \in ToSet(listeners["source"]) <=> (subscribed /\ "source" \notin cleared)
    BY DEF EventInv, ListenersInv, ForwardWhileSubscribed
  <2>2. Forward \notin ToSet(listeners'["source"])
    BY <1>3, <1>4, <2>1
  <2>3. AtMostOnce(listeners'["source"], Forward)
    BY <1>5, <2>1, EntryFacts
  <2> QED
    BY <1>1, <1>2, <1>4, <2>2, <2>3 DEF ForwardWhileSubscribed
<1>8. ListenersBounded'
  <2>1. MaxListeners \in Nat
    BY EntryFacts
  <2>2. /\ Len(listeners["source"]) <= MaxListeners + 1 /\ Len(listeners["source"]) \in Nat
        /\ Len(rest) \in Nat
    BY <1>1, <1>3, LenProperties, EntryFacts DEF EventInv, ListenersInv, ListenersBounded
  <2>3. Len(rest) <= MaxListeners + 1
    BY <1>3, <2>1, <2>2
  <2>4. Len(listeners'["pipe"]) <= MaxListeners + 1
    BY <1>2, <1>4, <2>1
  <2>5. Len(listeners'["source"]) <= MaxListeners + 1
    BY <1>4, <2>2, <2>3
  <2> QED
    BY <2>4, <2>5 DEF ListenersBounded, Events
<1>9. ListenersInv'
  BY <1>1, <1>4, <1>6, <1>7, <1>8 DEF EventInv, ListenersInv
<1>10. adds <= adds'
  BY <1>1, EntryFacts DEF EventInv, ListenersInv
<1> QED
  BY <1>1, <1>5, <1>9, <1>10, ListsChange

\* The PipeEvent loses all of its listeners and keeps its subscription.
LEMMA ClearedPipeKeeps ==
  ASSUME EventInv, ClearPipe, listeners["pipe"] # <<>>
  PROVE  EventInv'
<1> DEFINE T == Entry \cup {Forward}
<1>1. /\ listeners \in [Events -> Seq(T)] /\ subscribed \in BOOLEAN /\ cleared \subseteq Events
      /\ listeners' = [listeners EXCEPT !["pipe"] = <<>>] 
      /\ cleared' = cleared \cup {"pipe"} /\ subscribed
      /\ UNCHANGED <<subscribed, stack, adds, held, fired, emits>>
  BY DEF ClearPipe, EventInv, ListenersInv
<1>2. <<>> \in Seq(T) /\ ToSet(<<>>) = {} /\ Len(<<>>) = 0 /\ \A x : AtMostOnce(<<>>, x)
  <2>1. <<>> \in Seq(T) /\ ToSet(<<>>) = {}
    BY ElementsOfNothing
  <2>2. Len(<<>>) = 0 /\ DOMAIN <<>> = {}
    OBVIOUS
  <2> QED
    BY <2>1, <2>2 DEF AtMostOnce
<1>3. /\ listeners' \in [Events -> Seq(T)] /\ listeners'["pipe"] = <<>>
      /\ \A ev \in Events : ev # "pipe" => listeners'[ev] = listeners[ev]
  BY <1>1, <1>2, EntryFacts
<1>4. \A ev \in Events : listeners'[ev] = listeners[ev] \/ listeners'[ev] = <<>>
  BY <1>3
<1>5. ListenersFromAdds'
  BY <1>1, <1>2, <1>4 DEF EventInv, ListenersInv, ListenersFromAdds
<1>6. ForwardWhileSubscribed'
  BY <1>1, <1>2, <1>3, EntryFacts DEF EventInv, ListenersInv, ForwardWhileSubscribed
<1>7. ListenersBounded'
  <2>1. MaxListeners \in Nat
    BY EntryFacts
  <2> QED
    BY <1>2, <1>4, <2>1 DEF EventInv, ListenersInv, ListenersBounded
<1>8. ListenersInv'
  <2>1. cleared' \subseteq Events
    BY <1>1 DEF Events
  <2> QED
    BY <1>1, <1>3, <1>5, <1>6, <1>7, <2>1 DEF EventInv, ListenersInv
<1>9. adds <= adds'
  BY <1>1, EntryFacts DEF EventInv, ListenersInv
<1>10. \A ev \in Events : ToSet(listeners'[ev]) \subseteq ToSet(listeners[ev])
  BY <1>2, <1>4
<1> QED
  BY <1>1, <1>8, <1>9, <1>10, ListsChange

\* The PipeEvent is emptied: it keeps its subscription when somebody listened.
LEMMA ClearPipeKeeps ==
  ASSUME EventInv, ClearPipe
  PROVE  EventInv'
<1>1. CASE listeners["pipe"] # <<>>
  BY <1>1, ClearedPipeKeeps
<1>2. CASE listeners["pipe"] = <<>>
  <2>1. LetGo /\ UNCHANGED <<stack, adds, held, fired, emits>>
    BY <1>2 DEF ClearPipe
  <2> QED
    BY <2>1, LetGoKeeps
<1> QED
  BY <1>1, <1>2

\* The PipeEvent is disposed.
LEMMA DisposePipeKeeps ==
  ASSUME EventInv, DisposePipe
  PROVE  EventInv'
BY LetGoKeeps DEF DisposePipe

\* The steps of an emission that leave the lists alone: the stack goes on, and
\* no more calls of emit() by user code are under way than before.
LEMMA EmissionGoesOn ==
  ASSUME EventInv, UNCHANGED <<listeners, subscribed, adds, held, fired, emits, cleared>>,
         stack' \in Seq(StackFrame), Len(stack') <= Len(stack),
         \A i \in DOMAIN stack' :
           /\ stack'[i].event = stack[i].event
           /\ stack'[i].todo = stack[i].todo \/ (stack[i].todo # <<>> /\ stack'[i].todo = Tail(stack[i].todo))
           /\ stack'[i].running = Forward => stack[i].running = Forward /\ i + 1 \in DOMAIN stack',
         Cardinality(Counted(stack')) <= Cardinality(Counted(stack))
  PROVE  EventInv'
<1>1. stack \in Seq(StackFrame) /\ StackShape(stack, held) /\ Cardinality(Counted(stack)) <= MaxDepth
      /\ MaxDepth \in Nat /\ fired \in [1..MaxAdds -> Nat]
  BY EntryFacts DEF EventInv, StackInv
<1>2. StackShape(stack', held') /\ \A k : Awaiting(stack', k) \subseteq Awaiting(stack, k)
  BY <1>1, StackGoesOn, Zenon
<1>3. Cardinality(Counted(stack')) <= MaxDepth
  BY <1>1, StackSets
<1>4. ListenersInv'
  BY DEF EventInv, ListenersInv, ListenersFromAdds, ForwardWhileSubscribed, ListenersBounded
<1>5. FiredIsNowhere'
  BY DEF EventInv, StackInv, FiredIsNowhere
<1>6. CallsWithinDepth'
  <2> SUFFICES ASSUME NEW k \in 1..MaxAdds
               PROVE  fired[k] + Cardinality(Awaiting(stack', k)) <= MaxDepth
    BY DEF CallsWithinDepth
  <2>1. fired[k] + Cardinality(Awaiting(stack, k)) <= MaxDepth /\ fired[k] \in Nat
    BY <1>1 DEF EventInv, StackInv, CallsWithinDepth
  <2>2. Cardinality(Awaiting(stack', k)) <= Cardinality(Awaiting(stack, k))
    BY <1>1, <1>2, StackSets, FS_Subset
  <2>3. Cardinality(Awaiting(stack', k)) \in Nat /\ Cardinality(Awaiting(stack, k)) \in Nat
    BY <1>1, StackSets
  <2> QED
    BY <1>1, <2>1, <2>2, <2>3
<1> QED
  BY <1>2, <1>3, <1>4, <1>5, <1>6 DEF EventInv, StackInv

\* The listener on top of the stack that is no wrapper is called.
LEMMA CallPlainKeeps ==
  ASSUME EventInv, CallPlain
  PROVE  EventInv'
<1> DEFINE n == Len(stack)
           x == Head(Top.todo)
<1>1. /\ stack \in Seq(StackFrame) /\ Calling /\ Top.todo # <<>> /\ x # Forward
      /\ stack' = SetTop(Called(x))
      /\ UNCHANGED <<listeners, subscribed, adds, held, fired, emits, cleared>>
  BY DEF CallPlain, EventInv, StackInv
<1>2. /\ stack # <<>> /\ Top \in StackFrame /\ x \in Entry \cup {Forward}
      /\ Called(x) \in StackFrame /\ Called(x).event = Top.event
      /\ Called(x).todo = Tail(Top.todo) /\ Called(x).running = x
  BY <1>1, CalledFrame
<1> HIDE DEF x
<1>3. /\ n \in Nat /\ n >= 1 /\ DOMAIN stack = 1..n /\ Top = stack[n]
      /\ stack' \in Seq(StackFrame) /\ Len(stack') = n /\ DOMAIN stack' = 1..n
      /\ stack'[n] = Called(x) /\ \A i \in 1..n - 1 : stack'[i] = stack[i]
  BY <1>1, <1>2, StackTop
<1> HIDE DEF n
<1>4. \A i \in 1..n : i = n \/ i \in 1..n - 1
  BY <1>3
<1>5. StackShape(stack, held) /\ stack[n].running = Nobody
  BY <1>1, <1>3 DEF Calling, EventInv, StackInv
<1>6. ASSUME NEW i \in DOMAIN stack'
      PROVE  /\ stack'[i].event = stack[i].event
             /\ stack'[i].todo = stack[i].todo \/ (stack[i].todo # <<>> /\ stack'[i].todo = Tail(stack[i].todo))
             /\ stack'[i].running = Forward => stack[i].running = Forward /\ i + 1 \in DOMAIN stack'
  <2>1. CASE i = n
    BY <1>1, <1>2, <1>3, <2>1
  <2>2. CASE i \in 1..n - 1
    <3>1. stack'[i] = stack[i]
      BY <1>3, <2>2
    <3>2. stack[i].running = Forward => i + 1 \in DOMAIN stack
      BY <1>3, <1>5 DEF StackShape
    <3> QED
      BY <1>3, <3>1, <3>2
  <2> QED
    BY <1>3, <1>4, <2>1, <2>2
<1>7. Counted(stack') \subseteq Counted(stack)
  BY <1>3, <1>4, <1>5, EntryFacts DEF Counted
<1>8. Cardinality(Counted(stack')) <= Cardinality(Counted(stack))
  BY <1>1, <1>7, StackSets, FS_Subset
<1>9. Len(stack') <= Len(stack)
  BY <1>3 DEF n
<1> QED
  BY <1>1, <1>3, <1>6, <1>8, <1>9, EmissionGoesOn

\* A listener returns to the emission that called it.
LEMMA ListenerReturnsKeeps ==
  ASSUME EventInv, ListenerReturns
  PROVE  EventInv'
<1> DEFINE n == Len(stack)
           f == [Top EXCEPT !.running = Nobody]
<1>1. /\ stack \in Seq(StackFrame) /\ stack # <<>> /\ Top.running \notin {Nobody, Forward}
      /\ stack' = SetTop(f)
      /\ UNCHANGED <<listeners, subscribed, adds, held, fired, emits, cleared>>
  BY DEF ListenerReturns, UserCode, EventInv, StackInv
<1>2. Top \in StackFrame /\ f \in StackFrame /\ f.event = Top.event /\ f.todo = Top.todo /\ f.running = Nobody
  <2>1. Top \in StackFrame
    BY <1>1, StackTop
  <2>2. f \in StackFrame
    BY <2>1 DEF StackFrame
  <2>3. f.event = Top.event /\ f.todo = Top.todo /\ f.running = Nobody
    BY <2>1 DEF StackFrame
  <2> QED
    BY <2>1, <2>2, <2>3
<1> HIDE DEF f
<1>3. /\ n \in Nat /\ n >= 1 /\ DOMAIN stack = 1..n /\ Top = stack[n]
      /\ stack' \in Seq(StackFrame) /\ Len(stack') = n /\ DOMAIN stack' = 1..n
      /\ stack'[n] = f /\ \A i \in 1..n - 1 : stack'[i] = stack[i]
  BY <1>1, <1>2, StackTop
<1> HIDE DEF n
<1>4. \A i \in 1..n : i = n \/ i \in 1..n - 1
  BY <1>3
<1>5. StackShape(stack, held)
  BY DEF EventInv, StackInv
<1>6. ASSUME NEW i \in DOMAIN stack'
      PROVE  /\ stack'[i].event = stack[i].event
             /\ stack'[i].todo = stack[i].todo \/ (stack[i].todo # <<>> /\ stack'[i].todo = Tail(stack[i].todo))
             /\ stack'[i].running = Forward => stack[i].running = Forward /\ i + 1 \in DOMAIN stack'
  <2>1. CASE i = n
    BY <1>2, <1>3, <2>1, EntryFacts
  <2>2. CASE i \in 1..n - 1
    <3>1. stack'[i] = stack[i]
      BY <1>3, <2>2
    <3>2. stack[i].running = Forward => i + 1 \in DOMAIN stack
      BY <1>3, <1>5 DEF StackShape
    <3> QED
      BY <1>3, <3>1, <3>2
  <2> QED
    BY <1>3, <1>4, <2>1, <2>2
<1>7. Counted(stack') \subseteq Counted(stack)
  <2>1. stack[n].running # Forward
    BY <1>1, <1>3
  <2> QED
    BY <1>3, <1>4, <2>1 DEF Counted
<1>8. Cardinality(Counted(stack')) <= Cardinality(Counted(stack))
  BY <1>1, <1>7, StackSets, FS_Subset
<1>9. Len(stack') <= Len(stack)
  BY <1>3 DEF n
<1> QED
  BY <1>1, <1>3, <1>6, <1>8, <1>9, EmissionGoesOn

\* The emission on top is over: so is the call of the PipeEvent's own function,
\* if it is what started it.
LEMMA EmitReturnsKeeps ==
  ASSUME EventInv, EmitReturns
  PROVE  EventInv'
<1> DEFINE n == Len(stack)
           rest == Front(stack)
           back == rest # <<>> /\ Last(rest).running = Forward
           f == [Last(rest) EXCEPT !.running = Nobody]
<1>1. /\ stack \in Seq(StackFrame) /\ stack # <<>> /\ Top.running = Nobody
      /\ stack' = IF back THEN Append(Front(rest), f) ELSE rest
      /\ UNCHANGED <<listeners, subscribed, adds, held, fired, emits, cleared>>
  BY DEF EmitReturns, Calling, EventInv, StackInv
<1>2. /\ n \in Nat /\ n >= 1 /\ DOMAIN stack = 1..n /\ Top = stack[n]
      /\ rest \in Seq(StackFrame) /\ Len(rest) = n - 1 /\ \A i \in 1..n - 1 : rest[i] = stack[i]
  BY <1>1, StackTop
<1>3. DOMAIN rest = 1..n - 1
  BY <1>2, LenProperties
<1> HIDE DEF n, rest
<1>4. rest # <<>> => n - 1 >= 1 /\ Last(rest) = stack[n - 1] /\ Last(rest) \in StackFrame
  <2> SUFFICES ASSUME rest # <<>> PROVE n - 1 >= 1 /\ Last(rest) = stack[n - 1] /\ Last(rest) \in StackFrame
    OBVIOUS
  <2>1. Len(rest) >= 1 /\ rest[Len(rest)] \in StackFrame
    BY <1>2, FrontOf
  <2>2. n - 1 >= 1 /\ n - 1 \in 1..n - 1
    BY <1>2, <2>1
  <2>3. Last(rest) = rest[n - 1] /\ rest[n - 1] \in StackFrame
    BY <1>2, <2>1 DEF Last
  <2> QED
    BY <1>2, <2>2, <2>3
<1>5. back => /\ n - 1 >= 1 /\ stack[n - 1].running = Forward
              /\ f \in StackFrame /\ f.event = stack[n - 1].event /\ f.todo = stack[n - 1].todo
              /\ f.running = Nobody
  <2> SUFFICES ASSUME back
               PROVE  /\ n - 1 >= 1 /\ stack[n - 1].running = Forward
                      /\ f \in StackFrame /\ f.event = stack[n - 1].event /\ f.todo = stack[n - 1].todo
                      /\ f.running = Nobody
    OBVIOUS
  <2>1. n - 1 >= 1 /\ Last(rest) = stack[n - 1] /\ Last(rest) \in StackFrame /\ Last(rest).running = Forward
    BY <1>4
  <2>2. f \in StackFrame
    BY <2>1 DEF StackFrame
  <2>3. f.event = stack[n - 1].event /\ f.todo = stack[n - 1].todo /\ f.running = Nobody
    BY <2>1 DEF StackFrame
  <2> QED
    BY <2>1, <2>2, <2>3
<1>6. ~back => stack' = rest /\ (n - 1 >= 1 => stack[n - 1].running # Forward)
  <2> SUFFICES ASSUME ~back, n - 1 >= 1 PROVE stack[n - 1].running # Forward
    BY <1>1
  <2>1. rest # <<>>
    BY <1>2, EmptySeq
  <2> QED
    BY <1>4, <2>1
<1>7. back => /\ stack' \in Seq(StackFrame) /\ Len(stack') = n - 1 /\ stack'[n - 1] = f
              /\ \A i \in 1..n - 2 : stack'[i] = stack[i]
  <2> SUFFICES ASSUME back
               PROVE  /\ stack' \in Seq(StackFrame) /\ Len(stack') = n - 1 /\ stack'[n - 1] = f
                      /\ \A i \in 1..n - 2 : stack'[i] = stack[i]
    OBVIOUS
  <2>1. stack' = Append(Front(rest), f) /\ f \in StackFrame /\ rest # <<>>
    BY <1>1, <1>5
  <2> HIDE DEF f, back
  <2>2. /\ stack' \in Seq(StackFrame) /\ Len(stack') = Len(rest) /\ stack'[Len(rest)] = f
        /\ \A i \in 1..Len(rest) - 1 : stack'[i] = rest[i]
    <3>1. PICK r \in Seq(StackFrame), x \in StackFrame : r = rest /\ x = f /\ r # <<>>
      BY <1>2, <2>1
    <3>2. /\ Append(Front(r), x) \in Seq(StackFrame) /\ Len(Append(Front(r), x)) = Len(r)
          /\ Append(Front(r), x)[Len(r)] = x
          /\ \A i \in 1..Len(r) - 1 : Append(Front(r), x)[i] = r[i]
      BY <3>1, LastReplaced
    <3> QED
      BY <2>1, <3>1, <3>2
  <2>3. \A i \in 1..n - 2 : i \in 1..n - 1 /\ i \in 1..(n - 1) - 1
    BY <1>2
  <2> QED
    BY <1>2, <2>2, <2>3
<1> HIDE DEF f, back
<1>8. stack' \in Seq(StackFrame) /\ DOMAIN stack' = 1..n - 1 /\ Len(stack') <= Len(stack)
  <2>1. stack' \in Seq(StackFrame) /\ Len(stack') = n - 1
    BY <1>2, <1>6, <1>7
  <2>2. n - 1 <= n
    BY <1>2
  <2> QED
    BY <2>1, <2>2, LenProperties DEF n
<1>9. StackShape(stack, held)
  BY DEF EventInv, StackInv
<1>10. ASSUME NEW i \in DOMAIN stack'
       PROVE  /\ stack'[i].event = stack[i].event
              /\ stack'[i].todo = stack[i].todo
              /\ stack'[i].running = Forward => stack[i].running = Forward /\ i + 1 \in DOMAIN stack'
              /\ stack'[i].running # Forward => stack[i].running # Forward \/ (back /\ i = n - 1)
  <2>0. i \in 1..n - 1 /\ i \in DOMAIN stack
    BY <1>2, <1>8
  <2>1. CASE back /\ i = n - 1
    BY <1>5, <1>7, <2>1, EntryFacts
  <2>2. CASE ~(back /\ i = n - 1)
    <3>1. stack'[i] = stack[i]
      BY <1>2, <1>6, <1>7, <2>0, <2>2
    <3>2. stack[i].running = Forward => i # n - 1
      BY <1>2, <1>6, <2>0, <2>2
    <3>3. i # n - 1 => i + 1 \in 1..n - 1
      BY <1>2, <2>0
    <3> QED
      BY <1>8, <3>1, <3>2, <3>3
  <2> QED
    BY <2>1, <2>2
<1>11. n \in Counted(stack) /\ n \notin DOMAIN stack'
  BY <1>1, <1>2, <1>8, EntryFacts DEF Counted
<1>12. Counted(stack') \subseteq (Counted(stack) \ {n}) \union {n - 1}
  <2> SUFFICES ASSUME NEW i \in Counted(stack'), i # n - 1 PROVE i \in Counted(stack) \ {n}
    OBVIOUS
  <2>1. i \in DOMAIN stack' /\ stack'[i].running # Forward
    BY DEF Counted
  <2>2. stack[i].running # Forward /\ i \in DOMAIN stack /\ i # n
    BY <1>2, <1>8, <1>10, <1>11, <2>1
  <2> QED
    BY <2>2 DEF Counted
<1>13. Cardinality(Counted(stack')) <= Cardinality(Counted(stack))
  BY <1>1, <1>11, <1>12, StackSets, Exchanged
<1> QED
  BY <1>1, <1>8, <1>10, <1>13, EmissionGoesOn

\* An exception ends the emission on top, and that of the source with it.
LEMMA ListenerThrowsKeeps ==
  ASSUME EventInv, ListenerThrows
  PROVE  EventInv'
<1> DEFINE n == Len(stack)
           rest == Front(stack)
           back == rest # <<>> /\ Last(rest).running = Forward
<1>1. /\ stack \in Seq(StackFrame) /\ stack # <<>>
      /\ stack' = IF back THEN Front(rest) ELSE rest
      /\ UNCHANGED <<listeners, subscribed, adds, held, fired, emits, cleared>>
  BY DEF ListenerThrows, EventInv, StackInv
<1>2. /\ n \in Nat /\ n >= 1 /\ DOMAIN stack = 1..n
      /\ rest \in Seq(StackFrame) /\ Len(rest) = n - 1 /\ \A i \in 1..n - 1 : rest[i] = stack[i]
  BY <1>1, StackTop
<1> HIDE DEF n, rest
<1>3. rest # <<>> => n - 1 >= 1 /\ Last(rest) = stack[n - 1]
  <2> SUFFICES ASSUME rest # <<>> PROVE n - 1 >= 1 /\ Last(rest) = stack[n - 1]
    OBVIOUS
  <2>1. Len(rest) >= 1
    BY <1>2, FrontOf
  <2>2. n - 1 >= 1 /\ n - 1 \in 1..n - 1
    BY <1>2, <2>1
  <2> QED
    BY <1>2, <2>2 DEF Last
<1>4. StackShape(stack, held)
  BY DEF EventInv, StackInv
<1>5. PICK m \in 0..n - 1 :
        /\ stack' \in Seq(StackFrame) /\ Len(stack') = m /\ \A i \in 1..m : stack'[i] = stack[i]
        /\ m >= 1 => stack[m].running # Forward
  <2>1. CASE back
    <3>1. n - 1 >= 1 /\ stack[n - 1].running = Forward /\ rest # <<>> /\ stack' = Front(rest)
      BY <1>1, <1>3, <2>1
    <3>2. /\ stack' \in Seq(StackFrame) /\ Len(stack') = (n - 1) - 1
          /\ \A i \in 1..(n - 1) - 1 : stack'[i] = rest[i]
      BY <1>2, <3>1, FrontOf
    <3>3. \A i \in 1..n - 2 : i \in 1..n - 1 /\ i \in 1..(n - 1) - 1
      BY <1>2
    <3>4. n - 2 \in 0..n - 1 /\ (n - 1) - 1 = n - 2
      BY <1>2, <3>1
    <3>5. n - 2 >= 1 => stack[n - 2].running # Forward
      <4> SUFFICES ASSUME n - 2 >= 1, stack[n - 2].running = Forward PROVE FALSE
        OBVIOUS
      <4>1. n - 2 \in DOMAIN stack /\ n - 1 \in DOMAIN stack /\ (n - 2) + 1 = n - 1
        BY <1>2
      <4>2. stack[n - 1].event = "pipe" /\ stack[n - 1].event = "source"
        BY <1>4, <3>1, <4>1 DEF StackShape
      <4> QED
        BY <4>2, EntryFacts
    <3>6. \A i \in 1..n - 2 : stack'[i] = stack[i]
      BY <1>2, <3>2, <3>3
    <3> QED
      BY <3>2, <3>4, <3>5, <3>6
  <2>2. CASE ~back
    <3>1. stack' = rest /\ n - 1 \in 0..n - 1
      BY <1>1, <1>2, <2>2
    <3>2. n - 1 >= 1 => stack[n - 1].running # Forward
      <4> SUFFICES ASSUME n - 1 >= 1 PROVE stack[n - 1].running # Forward
        OBVIOUS
      <4>1. rest # <<>>
        BY <1>2, EmptySeq
      <4> QED
        BY <1>3, <2>2, <4>1
    <3> QED
      BY <1>2, <3>1, <3>2
  <2> QED
    BY <2>1, <2>2
<1>6. DOMAIN stack' = 1..m /\ m \in Nat /\ m <= n /\ Len(stack') <= Len(stack)
  BY <1>2, <1>5, LenProperties DEF n
<1>7. ASSUME NEW i \in DOMAIN stack'
      PROVE  stack'[i] = stack[i] /\ (stack'[i].running = Forward => i + 1 \in DOMAIN stack')
  <2>1. stack'[i] = stack[i] /\ i \in 1..m
    BY <1>5, <1>6
  <2>2. stack[i].running = Forward => i # m
    BY <1>5, <1>6, <2>1
  <2>3. i # m => i + 1 \in 1..m
    BY <1>6, <2>1
  <2> QED
    BY <1>6, <2>1, <2>2, <2>3
<1>8. Counted(stack') \subseteq Counted(stack)
  <2>1. DOMAIN stack' \subseteq DOMAIN stack
    BY <1>2, <1>6
  <2> QED
    BY <1>7, <2>1 DEF Counted
<1>9. Cardinality(Counted(stack')) <= Cardinality(Counted(stack))
  BY <1>1, <1>8, StackSets, FS_Subset
<1> QED
  BY <1>1, <1>5, <1>6, <1>7, <1>9, EmissionGoesOn

\* A once wrapper takes itself off the list, and is called.
LEMMA CallOnceKeeps ==
  ASSUME EventInv, CallOnce
  PROVE  EventInv'
<1> DEFINE n == Len(stack)
           x == Head(Top.todo)
           ev == Top.event
<1>1. /\ stack \in Seq(StackFrame) /\ Calling /\ Top.todo # <<>> /\ x.wrapper # 0
      /\ Detach(ev, x)
      /\ fired' = [fired EXCEPT ![x.wrapper] = @ + 1] /\ fired \in [1..MaxAdds -> Nat]
      /\ stack' = SetTop(Called(x))
      /\ UNCHANGED <<adds, held, emits>>
  BY DEF CallOnce, EventInv, StackInv
<1>2. /\ stack # <<>> /\ Top \in StackFrame /\ x \in Entry \cup {Forward} /\ x \in ToSet(Top.todo)
      /\ Called(x) \in StackFrame /\ Called(x).event = Top.event
      /\ Called(x).todo = Tail(Top.todo) /\ Called(x).running = x
  BY <1>1, CalledFrame
<1> HIDE DEF x
<1>3. /\ n \in Nat /\ n >= 1 /\ DOMAIN stack = 1..n /\ Top = stack[n]
      /\ stack' \in Seq(StackFrame) /\ Len(stack') = n /\ DOMAIN stack' = 1..n
      /\ stack'[n] = Called(x) /\ \A i \in 1..n - 1 : stack'[i] = stack[i]
  BY <1>1, <1>2, StackTop
<1> HIDE DEF n
<1>4. \A i \in 1..n : i = n \/ i \in 1..n - 1
  BY <1>3
<1>5. StackShape(stack, held) /\ stack[n].running = Nobody
  BY <1>1, <1>3 DEF Calling, EventInv, StackInv
<1>6. x \in Entry /\ x # Forward /\ x.wrapper \in 1..MaxAdds /\ ev \in Events
  <2>1. x # Forward
    BY <1>1, EntryFacts
  <2>2. x.wrapper \in 0..MaxAdds /\ MaxAdds \in Nat
    BY <1>2, <2>1, EntryFacts
  <2>3. ev \in Events
    BY <1>2 DEF StackFrame
  <2> QED
    BY <1>1, <1>2, <2>1, <2>2, <2>3
<1>7. <<ev, x>> \in held /\ AtMostOnce(Top.todo, x) /\ IsWrapper(x)
  BY <1>1, <1>2, <1>3, <1>5 DEF StackShape, IsWrapper
<1>8. \A g, h \in held : IsWrapper(g[2]) /\ g[2].wrapper = h[2].wrapper => g = h
  BY DEF EventInv, ListenersInv, ListenersFromAdds
<1>9. /\ ListenersInv'
      /\ \A e \in Events : ToSet(listeners'[e]) \subseteq ToSet(listeners[e])
      /\ x \notin ToSet(listeners'[ev])
  BY <1>1, <1>6, <1>7, DetachKeeps DEF EventInv
<1>10. ASSUME NEW i \in DOMAIN stack'
       PROVE  /\ stack'[i].event = stack[i].event
              /\ stack'[i].todo = stack[i].todo \/ (stack[i].todo # <<>> /\ stack'[i].todo = Tail(stack[i].todo))
              /\ stack'[i].running = Forward => stack[i].running = Forward /\ i + 1 \in DOMAIN stack'
  <2>1. CASE i = n
    BY <1>1, <1>2, <1>3, <1>6, <2>1
  <2>2. CASE i \in 1..n - 1
    <3>1. stack'[i] = stack[i]
      BY <1>3, <2>2
    <3>2. stack[i].running = Forward => i + 1 \in DOMAIN stack
      BY <1>3, <1>5 DEF StackShape
    <3> QED
      BY <1>3, <3>1, <3>2
  <2> QED
    BY <1>3, <1>4, <2>1, <2>2
<1>11. StackShape(stack', held') /\ \A k : Awaiting(stack', k) \subseteq Awaiting(stack, k)
  <2>1. Len(stack') <= Len(stack) /\ held \subseteq held'
    BY <1>1, <1>3 DEF n
  <2> QED
    BY <1>1, <1>3, <1>5, <1>10, <2>1, StackGoesOn
<1>12. Cardinality(Counted(stack')) <= MaxDepth
  <2>1. Counted(stack') \subseteq Counted(stack)
    BY <1>3, <1>4, <1>5, EntryFacts DEF Counted
  <2>2. Cardinality(Counted(stack')) <= Cardinality(Counted(stack))
    BY <1>1, <2>1, StackSets, FS_Subset
  <2>3. Cardinality(Counted(stack)) <= MaxDepth /\ MaxDepth \in Nat
    BY EntryFacts DEF EventInv, StackInv
  <2> QED
    BY <1>1, <1>3, <2>2, <2>3, StackSets
<1>13. \A e \in Events : \A y \in ToSet(listeners'[e]) : y.wrapper # x.wrapper
  <2> SUFFICES ASSUME NEW e \in Events, NEW y \in ToSet(listeners'[e]), y.wrapper = x.wrapper PROVE FALSE
    OBVIOUS
  <2>1. y \in ToSet(listeners[e]) /\ IsWrapper(y)
    BY <1>1, <1>9 DEF IsWrapper
  <2>2. <<e, y>> \in held
    BY <2>1 DEF EventInv, ListenersInv, ListenersFromAdds
  <2>3. <<e, y>> = <<ev, x>>
    BY <1>7, <1>8, <2>1, <2>2
  <2>4. e = ev /\ y = x
    BY <2>3
  <2> QED
    BY <1>9, <2>4
<1>14. FiredIsNowhere'
  <2> SUFFICES ASSUME NEW k \in 1..MaxAdds, fired'[k] > 0
               PROVE  k <= adds /\ \A e \in Events : \A y \in ToSet(listeners'[e]) : y.wrapper # k
    BY <1>1 DEF FiredIsNowhere
  <2>1. CASE k = x.wrapper
    <3>1. <<ev, x>>[2].wrapper <= adds
      BY <1>7 DEF EventInv, ListenersInv, ListenersFromAdds
    <3> QED
      BY <1>13, <2>1, <3>1
  <2>2. CASE k # x.wrapper
    <3>1. fired[k] > 0
      BY <1>1, <1>6, <2>2
    <3> QED
      BY <1>9, <3>1 DEF EventInv, StackInv, FiredIsNowhere
  <2> QED
    BY <2>1, <2>2
<1>15. Awaiting(stack', x.wrapper) \subseteq Awaiting(stack, x.wrapper) \ {n} /\ n \in Awaiting(stack, x.wrapper)
  <2>1. n \in Awaiting(stack, x.wrapper)
    BY <1>2, <1>3 DEF Awaiting
  <2>2. ASSUME n \in Awaiting(stack', x.wrapper) PROVE FALSE
    <3>1. Top.todo \in Seq(Entry \cup {Forward})
      BY <1>2 DEF StackFrame
    <3>2. PICK y \in ToSet(Tail(Top.todo)) : y.wrapper = x.wrapper
      BY <1>2, <1>3, <2>2 DEF Awaiting
    <3>3. PICK s : s = Top.todo
      OBVIOUS
    <3>4. /\ s \in Seq(Entry \cup {Forward}) /\ s # <<>> /\ x = Head(s) /\ AtMostOnce(s, x)
          /\ y \in ToSet(Tail(s))
      BY <1>1, <1>7, <3>1, <3>2, <3>3 DEF x
    <3>5. ToSet(Tail(s)) \subseteq ToSet(s) /\ x \notin ToSet(Tail(s))
      BY <3>4, TailKeeps
    <3>6. y \in ToSet(stack[n].todo) /\ IsWrapper(y)
      BY <1>1, <1>3, <3>2, <3>3, <3>4, <3>5 DEF IsWrapper
    <3>7. <<ev, y>> \in held
      BY <1>3, <1>5, <3>6 DEF StackShape
    <3>8. <<ev, y>> = <<ev, x>>
      BY <1>7, <1>8, <3>2, <3>6, <3>7
    <3> QED
      BY <3>4, <3>5, <3>8
  <2> QED
    BY <1>11, <2>1, <2>2
<1>16. CallsWithinDepth'
  <2> SUFFICES ASSUME NEW k \in 1..MaxAdds
               PROVE  fired'[k] + Cardinality(Awaiting(stack', k)) <= MaxDepth
    BY DEF CallsWithinDepth
  <2>1. fired[k] + Cardinality(Awaiting(stack, k)) <= MaxDepth /\ fired[k] \in Nat /\ MaxDepth \in Nat
    BY <1>1, EntryFacts DEF EventInv, StackInv, CallsWithinDepth
  <2>2. /\ IsFiniteSet(Awaiting(stack, k)) /\ Cardinality(Awaiting(stack', k)) \in Nat
        /\ Cardinality(Awaiting(stack, k)) \in Nat
    BY <1>1, <1>3, StackSets
  <2>3. CASE k = x.wrapper
    <3>1. fired'[k] = fired[k] + 1
      BY <1>1, <1>6, <2>3
    <3>2. Cardinality(Awaiting(stack, k) \ {n}) = Cardinality(Awaiting(stack, k)) - 1
          /\ IsFiniteSet(Awaiting(stack, k) \ {n})
      BY <1>15, <2>2, <2>3, FS_RemoveElement
    <3>3. Cardinality(Awaiting(stack', k)) <= Cardinality(Awaiting(stack, k)) - 1
      BY <1>15, <2>3, <3>2, FS_Subset
    <3> QED
      BY <2>1, <2>2, <3>1, <3>3
  <2>4. CASE k # x.wrapper
    <3>1. fired'[k] = fired[k]
      BY <1>1, <1>6, <2>4
    <3>2. Cardinality(Awaiting(stack', k)) <= Cardinality(Awaiting(stack, k))
      BY <1>11, <2>2, FS_Subset
    <3> QED
      BY <2>1, <2>2, <3>1, <3>2
  <2> QED
    BY <2>3, <2>4
<1>17. fired' \in [1..MaxAdds -> Nat] /\ emits' \in 0..MaxEmits
  BY <1>1, <1>6 DEF EventInv, StackInv
<1> QED
  BY <1>3, <1>9, <1>11, <1>12, <1>14, <1>16, <1>17 DEF EventInv, StackInv

\* An emission begins, with a copy of the listeners of this moment: none of the
\* wrappers that fired is among them.
LEMMA FramePushed ==
  ASSUME EventInv, NEW st \in Seq(StackFrame), NEW e \in Events,
         stack' = Append(st, Frame(e)), emits' \in 0..MaxEmits,
         UNCHANGED <<listeners, subscribed, adds, held, fired, cleared>>,
         \A i \in DOMAIN st :
           /\ st[i].running = Forward =>
                /\ st[i].event = "source"
                /\ IF i = Len(st) THEN e = "pipe" ELSE i + 1 \in DOMAIN st /\ st[i + 1].event = "pipe"
           /\ st[i].event = "pipe" => Forward \notin ToSet(st[i].todo)
           /\ \A x \in ToSet(st[i].todo) :
                IsWrapper(x) => <<st[i].event, x>> \in held /\ AtMostOnce(st[i].todo, x),
         \A k : Awaiting(st, k) \subseteq Awaiting(stack, k),
         Cardinality(Counted(stack')) <= MaxDepth
  PROVE  EventInv'
<1> DEFINE n == Len(st)
<1>1. Frame(e) \in StackFrame /\ Frame(e).event = e /\ Frame(e).todo = listeners[e] /\ Frame(e).running = Nobody
  BY DEF Frame, StackFrame, EventInv, ListenersInv
<1>2. /\ stack' \in Seq(StackFrame) /\ Len(stack') = n + 1 /\ stack'[n + 1] = Frame(e)
      /\ \A i \in 1..n : stack'[i] = st[i]
      /\ n \in Nat /\ DOMAIN st = 1..n
  BY <1>1, AppendProperties, LenProperties
<1>3. DOMAIN stack' = 1..n + 1
  BY <1>2, LenProperties
<1> HIDE DEF n
<1>4. \A i \in 1..n + 1 : i = n + 1 \/ i \in 1..n
  BY <1>2
<1>5. StackShape(stack', held')
  <2> SUFFICES ASSUME NEW i \in DOMAIN stack'
               PROVE  /\ stack'[i].running = Forward =>
                           stack'[i].event = "source" /\ i + 1 \in DOMAIN stack' /\ stack'[i + 1].event = "pipe"
                      /\ stack'[i].event = "pipe" => Forward \notin ToSet(stack'[i].todo)
                      /\ \A x \in ToSet(stack'[i].todo) :
                           IsWrapper(x) => <<stack'[i].event, x>> \in held /\ AtMostOnce(stack'[i].todo, x)
    BY DEF StackShape
  <2>1. CASE i = n + 1
    BY <1>1, <1>2, <2>1, EntryFacts DEF EventInv, ListenersInv, ListenersFromAdds, ForwardWhileSubscribed
  <2>2. CASE i \in 1..n
    <3>1. stack'[i] = st[i] /\ i \in DOMAIN st
      BY <1>2, <2>2
    <3>2. CASE i = n
      <4>1. i + 1 \in DOMAIN stack' /\ stack'[i + 1].event = e
        BY <1>1, <1>2, <1>3, <3>2
      <4> QED
        BY <3>1, <3>2, <4>1 DEF n
    <3>3. CASE i # n
      <4>1. i + 1 \in 1..n /\ i + 1 \in DOMAIN stack'
        BY <1>2, <1>3, <2>2, <3>3
      <4>2. stack'[i + 1] = st[i + 1]
        BY <1>2, <4>1
      <4> QED
        BY <3>1, <3>3, <4>1, <4>2 DEF n
    <3> QED
      BY <3>2, <3>3
  <2> QED
    BY <1>3, <1>4, <2>1, <2>2
<1>6. ListenersInv'
  BY DEF EventInv, ListenersInv, ListenersFromAdds, ForwardWhileSubscribed, ListenersBounded
<1>7. FiredIsNowhere'
  BY DEF EventInv, StackInv, FiredIsNowhere
<1>8. CallsWithinDepth'
  <2> SUFFICES ASSUME NEW k \in 1..MaxAdds
               PROVE  fired[k] + Cardinality(Awaiting(stack', k)) <= MaxDepth
    BY DEF CallsWithinDepth
  <2>1. /\ fired[k] + Cardinality(Awaiting(stack, k)) <= MaxDepth /\ fired[k] \in Nat /\ MaxDepth \in Nat
        /\ stack \in Seq(StackFrame)
    BY EntryFacts DEF EventInv, StackInv, CallsWithinDepth
  <2>2. CASE fired[k] > 0
    <3>1. \A x \in ToSet(listeners[e]) : x.wrapper # k
      BY <2>2 DEF EventInv, StackInv, FiredIsNowhere
    <3>2. Awaiting(stack', k) \subseteq Awaiting(st, k)
      BY <1>1, <1>2, <1>3, <1>4, <3>1 DEF Awaiting
    <3>3. Awaiting(stack', k) \subseteq Awaiting(stack, k)
      BY <3>2
    <3>4. Cardinality(Awaiting(stack', k)) <= Cardinality(Awaiting(stack, k))
      BY <2>1, <3>3, StackSets, FS_Subset
    <3>5. Cardinality(Awaiting(stack', k)) \in Nat /\ Cardinality(Awaiting(stack, k)) \in Nat
      BY <1>2, <2>1, StackSets
    <3> QED
      BY <2>1, <3>4, <3>5
  <2>3. CASE ~(fired[k] > 0)
    <3>1. \A g, h \in held' : IsWrapper(g[2]) /\ g[2].wrapper = h[2].wrapper => g = h
      BY DEF EventInv, ListenersInv, ListenersFromAdds
    <3>2. k # 0
      BY EntryFacts
    <3>3. Cardinality(Awaiting(stack', k)) <= Cardinality(Counted(stack'))
      BY <1>2, <1>5, <3>1, <3>2, AwaitingIsCounted
    <3>4. Cardinality(Awaiting(stack', k)) \in Nat /\ Cardinality(Counted(stack')) \in Nat
      BY <1>2, StackSets
    <3> QED
      BY <2>1, <2>3, <3>3, <3>4
  <2> QED
    BY <2>2, <2>3
<1>9. fired' \in [1..MaxAdds -> Nat]
  BY DEF EventInv, StackInv
<1> QED
  BY <1>2, <1>5, <1>6, <1>7, <1>8, <1>9 DEF EventInv, StackInv

\* An emission begins, on the source or on the PipeEvent.
LEMMA EmitKeeps ==
  ASSUME EventInv, NEW e \in Events, Emit(e)
  PROVE  EventInv'
<1>1. /\ stack \in Seq(StackFrame) /\ Cardinality(Counted(stack)) < MaxDepth
      /\ emits < MaxEmits /\ emits' = emits + 1 /\ emits \in 0..MaxEmits
      /\ stack' = Append(stack, Frame(e)) /\ UserCode
      /\ UNCHANGED <<listeners, subscribed, adds, held, fired, cleared>>
      /\ Frame(e) \in StackFrame /\ StackShape(stack, held)
  BY DEF Emit, EventInv, StackInv, ListenersInv, Counted, Frame, StackFrame
<1>2. emits' \in 0..MaxEmits /\ MaxDepth \in Nat
  BY <1>1, EntryFacts
<1>3. PICK n \in Nat : n = Len(stack) /\ DOMAIN stack = 1..n
  BY <1>1, LenProperties
<1>4. Cardinality(Counted(stack')) <= MaxDepth
  <2>1. /\ Len(stack') = n + 1 /\ stack' \in Seq(StackFrame)
        /\ \A i \in 1..n : stack'[i] = stack[i]
    BY <1>1, <1>3, AppendProperties
  <2>2. DOMAIN stack' = 1..n + 1
    BY <2>1, LenProperties
  <2>3. Counted(stack') \subseteq Counted(stack) \union {n + 1}
    BY <1>3, <2>1, <2>2 DEF Counted
  <2>4. /\ IsFiniteSet(Counted(stack)) /\ Cardinality(Counted(stack)) \in Nat
        /\ Cardinality(Counted(stack')) \in Nat
    BY <1>1, <2>1, StackSets
  <2>5. /\ IsFiniteSet(Counted(stack) \union {n + 1})
        /\ Cardinality(Counted(stack) \union {n + 1}) =
             IF n + 1 \in Counted(stack) THEN Cardinality(Counted(stack)) ELSE Cardinality(Counted(stack)) + 1
    BY <2>4, FS_AddElement
  <2>6. Cardinality(Counted(stack')) <= Cardinality(Counted(stack) \union {n + 1})
    BY <2>3, <2>5, FS_Subset
  <2> QED
    BY <1>1, <1>2, <2>4, <2>5, <2>6
<1>5. \A i \in DOMAIN stack :
           /\ stack[i].running = Forward =>
                /\ stack[i].event = "source"
                /\ IF i = Len(stack) THEN e = "pipe" ELSE i + 1 \in DOMAIN stack /\ stack[i + 1].event = "pipe"
           /\ stack[i].event = "pipe" => Forward \notin ToSet(stack[i].todo)
           /\ \A x \in ToSet(stack[i].todo) :
                IsWrapper(x) => <<stack[i].event, x>> \in held /\ AtMostOnce(stack[i].todo, x)
  <2> SUFFICES ASSUME NEW i \in DOMAIN stack, stack[i].running = Forward PROVE i # Len(stack)
    BY <1>1 DEF StackShape
  <2>1. i + 1 \in DOMAIN stack
    BY <1>1 DEF StackShape
  <2> QED
    BY <1>3, <2>1
<1>6. \A k : Awaiting(stack, k) \subseteq Awaiting(stack, k)
  OBVIOUS
<1> QED
  BY <1>1, <1>2, <1>4, <1>5, <1>6, FramePushed

\* The PipeEvent's own function emits to the PipeEvent's listeners.
LEMMA CallForwardKeeps ==
  ASSUME EventInv, CallForward
  PROVE  EventInv'
<1> DEFINE n == Len(stack)
           st == SetTop(Called(Forward))
<1>1. /\ stack \in Seq(StackFrame) /\ Calling /\ Top.todo # <<>> /\ Head(Top.todo) = Forward
      /\ stack' = Append(st, Frame("pipe"))
      /\ UNCHANGED <<listeners, subscribed, adds, held, fired, emits, cleared>>
      /\ StackShape(stack, held) /\ emits' \in 0..MaxEmits
      /\ Frame("pipe") \in StackFrame
  BY EntryFacts DEF CallForward, EventInv, StackInv, ListenersInv, Frame, StackFrame
<1>2. /\ stack # <<>> /\ Top \in StackFrame /\ Forward \in ToSet(Top.todo)
      /\ Called(Forward) \in StackFrame /\ Called(Forward).event = Top.event
      /\ Called(Forward).todo = Tail(Top.todo) /\ Called(Forward).running = Forward
  BY <1>1, CalledFrame
<1>3. /\ n \in Nat /\ n >= 1 /\ DOMAIN stack = 1..n /\ Top = stack[n]
      /\ st \in Seq(StackFrame) /\ Len(st) = n /\ DOMAIN st = 1..n
      /\ st[n] = Called(Forward) /\ \A i \in 1..n - 1 : st[i] = stack[i]
  BY <1>1, <1>2, StackTop
<1> HIDE DEF n, st
<1>4. \A i \in 1..n : i = n \/ i \in 1..n - 1
  BY <1>3
<1>5. stack[n].running = Nobody /\ stack[n].event = "source"
  <2>1. stack[n].running = Nobody
    BY <1>1, <1>3 DEF Calling
  <2>2. stack[n].event \in Events /\ (stack[n].event = "pipe" => Forward \notin ToSet(stack[n].todo))
    <3>1. stack[n] \in StackFrame /\ n \in DOMAIN stack /\ StackShape(stack, held)
      BY <1>1, <1>2, <1>3
    <3>2. stack[n].event \in Events
      BY <3>1 DEF StackFrame
    <3> QED
      BY <3>1, <3>2 DEF StackShape
  <2> QED
    BY <1>2, <1>3, <2>1, <2>2 DEF Events
\* The copy without its head is all that differs: what awaits a call does so still.
<1>6. ASSUME NEW i \in DOMAIN st
      PROVE  /\ st[i].event = stack[i].event
             /\ ToSet(st[i].todo) \subseteq ToSet(stack[i].todo)
             /\ \A x : AtMostOnce(stack[i].todo, x) => AtMostOnce(st[i].todo, x)
             /\ i # n => st[i] = stack[i]
  <2>1. CASE i = n
    <3>1. PICK s : s = Top.todo
      OBVIOUS
    <3>2. s \in Seq(Entry \cup {Forward}) /\ s # <<>>
      BY <1>1, <1>2, <3>1 DEF StackFrame
    <3>3. ToSet(Tail(s)) \subseteq ToSet(s) /\ \A x : AtMostOnce(s, x) => AtMostOnce(Tail(s), x)
      BY <3>2, TailKeeps
    <3> QED
      BY <1>2, <1>3, <2>1, <3>1, <3>3
  <2>2. CASE i # n
    BY <1>3, <1>4, <2>2
  <2> QED
    BY <2>1, <2>2
<1>7. \A k : Awaiting(st, k) \subseteq Awaiting(stack, k)
  BY <1>3, <1>6 DEF Awaiting
<1>8. ASSUME NEW i \in DOMAIN st
      PROVE  /\ st[i].running = Forward =>
                  /\ st[i].event = "source"
                  /\ IF i = Len(st) THEN "pipe" = "pipe" ELSE i + 1 \in DOMAIN st /\ st[i + 1].event = "pipe"
             /\ st[i].event = "pipe" => Forward \notin ToSet(st[i].todo)
             /\ \A x \in ToSet(st[i].todo) :
                  IsWrapper(x) => <<st[i].event, x>> \in held /\ AtMostOnce(st[i].todo, x)
  <2>1. /\ stack[i].running = Forward =>
             stack[i].event = "source" /\ i + 1 \in DOMAIN stack /\ stack[i + 1].event = "pipe"
        /\ stack[i].event = "pipe" => Forward \notin ToSet(stack[i].todo)
        /\ \A x \in ToSet(stack[i].todo) :
             IsWrapper(x) => <<stack[i].event, x>> \in held /\ AtMostOnce(stack[i].todo, x)
    BY <1>1, <1>3 DEF StackShape
  <2>2. CASE i = n
    BY <1>3, <1>5, <1>6, <2>1, <2>2
  <2>3. CASE i # n
    <3>1. st[i] = stack[i] /\ (i + 1 \in DOMAIN stack => i + 1 \in DOMAIN st /\ st[i + 1].event = stack[i + 1].event)
      BY <1>3, <1>6, <2>3
    <3> QED
      BY <1>3, <1>6, <2>1, <2>3, <3>1
  <2> QED
    BY <2>2, <2>3
<1>9. Cardinality(Counted(stack')) <= MaxDepth
  <2>1. /\ Len(stack') = n + 1 /\ stack' \in Seq(StackFrame)
        /\ \A i \in 1..n : stack'[i] = st[i]
    BY <1>1, <1>3, AppendProperties
  <2>2. DOMAIN stack' = 1..n + 1
    BY <2>1, LenProperties
  <2>3. stack'[n].running = Forward /\ n \in Counted(stack)
    BY <1>2, <1>3, <1>5, <2>1, EntryFacts DEF Counted
  <2>4. ASSUME NEW i \in Counted(stack'), i # n + 1 PROVE i \in Counted(stack) \ {n}
    <3>1. i \in 1..n /\ stack'[i].running # Forward
      BY <1>3, <2>2, <2>4 DEF Counted
    <3>2. i # n
      BY <2>3, <3>1
    <3>3. stack'[i] = stack[i]
      BY <1>3, <1>4, <2>1, <3>1, <3>2
    <3> QED
      BY <1>3, <3>1, <3>2, <3>3 DEF Counted
  <2>5. Counted(stack') \subseteq (Counted(stack) \ {n}) \union {n + 1}
    BY <2>4
  <2>6. Cardinality(Counted(stack')) <= Cardinality(Counted(stack))
    BY <1>1, <2>3, <2>5, StackSets, Exchanged
  <2>7. Cardinality(Counted(stack)) <= MaxDepth /\ MaxDepth \in Nat
    BY EntryFacts DEF EventInv, StackInv
  <2>8. Cardinality(Counted(stack)) \in Nat /\ Cardinality(Counted(stack')) \in Nat
    BY <1>1, <2>1, StackSets
  <2> QED
    BY <2>6, <2>7, <2>8
<1>10. "pipe" \in Events
  BY EntryFacts
<1> QED
  BY <1>1, <1>3, <1>7, <1>8, <1>9, <1>10, FramePushed

\* Every step of the event and its PipeEvent keeps the invariant.
LEMMA EventStep == EventInv /\ [Next]_vars => EventInv'
<1> SUFFICES ASSUME EventInv, [Next]_vars PROVE EventInv'
  OBVIOUS
<1>1. CASE UNCHANGED vars
  BY <1>1 DEF vars, EventInv, ListenersInv, StackInv, ListenersFromAdds, ForwardWhileSubscribed,
              ListenersBounded, FiredIsNowhere, CallsWithinDepth
<1> QED
  BY <1>1, AddListenerKeeps, UnsubscribeKeeps, ClearSourceKeeps, ClearPipeKeeps, DisposePipeKeeps, EmitKeeps,
     CallPlainKeeps, CallOnceKeeps, CallForwardKeeps, ListenerReturnsKeeps, EmitReturnsKeeps,
     ListenerThrowsKeeps
     DEF Next

\* The invariant holds of an event that was just made.
LEMMA EventInitInv == Init => EventInv
<1> SUFFICES ASSUME Init PROVE EventInv
  OBVIOUS
<1> DEFINE T == Entry \cup {Forward}
<1>1. /\ listeners = [e \in Events |-> <<>>] /\ ~subscribed /\ cleared = {} /\ stack = <<>> /\ adds = 0
      /\ held = {} /\ fired = [k \in 1..MaxAdds |-> 0] /\ emits = 0
      /\ subscribed \in BOOLEAN /\ cleared \subseteq Events
  BY DEF Init
<1>2. /\ <<>> \in Seq(T) /\ <<>> \in Seq(StackFrame) /\ ToSet(<<>>) = {} /\ Len(<<>>) = 0 /\ DOMAIN <<>> = {}
      /\ \A x : AtMostOnce(<<>>, x)
  <2>1. <<>> \in Seq(T) /\ <<>> \in Seq(StackFrame) /\ ToSet(<<>>) = {}
    BY ElementsOfNothing
  <2>2. Len(<<>>) = 0 /\ DOMAIN <<>> = {}
    OBVIOUS
  <2> QED
    BY <2>1, <2>2 DEF AtMostOnce
<1>3. \A e \in Events : listeners[e] = <<>>
  BY <1>1
<1>4. adds \in 0..MaxAdds /\ emits \in 0..MaxEmits /\ MaxDepth \in Nat /\ MaxListeners \in Nat
  BY <1>1, EntryFacts
<1>5. ListenersFromAdds /\ ForwardWhileSubscribed /\ ListenersBounded
  <2>1. ListenersFromAdds
    BY <1>1, <1>2, <1>3 DEF ListenersFromAdds
  <2>2. ForwardWhileSubscribed
    BY <1>1, <1>2, <1>3, EntryFacts DEF ForwardWhileSubscribed
  <2>3. ListenersBounded
    BY <1>2, <1>3, <1>4 DEF ListenersBounded
  <2> QED
    BY <2>1, <2>2, <2>3
<1>6. ListenersInv
  BY <1>1, <1>2, <1>4, <1>5 DEF ListenersInv
<1>7. Counted(stack) = {} /\ \A k : Awaiting(stack, k) = {}
  BY <1>1, <1>2 DEF Counted, Awaiting
<1>8. Cardinality({}) = 0
  BY FS_EmptySet
<1>9. StackShape(stack, held) /\ FiredIsNowhere
  BY <1>1, <1>2 DEF StackShape, FiredIsNowhere
<1>10. CallsWithinDepth /\ Cardinality(Counted(stack)) <= MaxDepth
  <2>1. \A k \in 1..MaxAdds : fired[k] = 0
    BY <1>1
  <2>2. Cardinality(Counted(stack)) = 0 /\ \A k : Cardinality(Awaiting(stack, k)) = 0
    BY <1>7, <1>8, Zenon
  <2>3. MaxDepth \in Nat
    BY <1>4
  <2> QED
    BY <2>1, <2>2, <2>3 DEF CallsWithinDepth
<1>11. StackInv
  BY <1>1, <1>2, <1>4, <1>9, <1>10 DEF StackInv
<1> QED
  BY <1>6, <1>11 DEF EventInv

\* The invariant holds always.
LEMMA EventInvariant == Spec => []EventInv
BY EventInitInv, EventStep, PTL DEF Spec

\* The lists of an event and the emissions in progress are well typed, a once
\* listener that was called is gone and is called once at most for each emission
\* that was under way, and the maximum is passed by one listener at most, however
\* listeners add, remove, emit and throw while they run (shared.ts:100-330).
THEOREM OnceListenersRunOnce == Spec => []OnceAndBounded
<1>1. EventInv => OnceAndBounded
  <2> SUFFICES ASSUME EventInv PROVE OnceAndBounded
    OBVIOUS
  <2>1. TypeOK /\ ListenersBounded
    BY DEF EventInv, ListenersInv, StackInv, TypeOK
  <2>2. FiredIsGone
    <3> SUFFICES ASSUME NEW h \in held, h[2].wrapper # 0, fired[h[2].wrapper] > 0
                 PROVE  ~HasListener(h[1], h[2])
      BY DEF FiredIsGone
    <3>1. h \in Events \X Entry
      BY DEF EventInv, ListenersInv
    <3>2. h[1] \in Events /\ h[2].wrapper \in 1..MaxAdds
      BY <3>1, EntryFacts
    <3> QED
      BY <3>2 DEF EventInv, StackInv, FiredIsNowhere, HasListener
  <2>3. OnceFiresPerEmission
    <3> SUFFICES ASSUME NEW k \in 1..MaxAdds PROVE fired[k] <= MaxDepth
      BY DEF OnceFiresPerEmission
    <3>1. /\ fired[k] + Cardinality(Awaiting(stack, k)) <= MaxDepth /\ fired[k] \in Nat /\ MaxDepth \in Nat
          /\ Cardinality(Awaiting(stack, k)) \in Nat
      BY StackSets, EntryFacts DEF EventInv, StackInv, CallsWithinDepth
    <3> QED
      BY <3>1
  <2> QED
    BY <2>1, <2>2, <2>3 DEF OnceAndBounded
<1> QED
  BY <1>1, EventInvariant, PTL

\* The PipeEvent listens to its source exactly while it has listeners of its own,
\* with one function, unless the source or the PipeEvent itself was emptied by a
\* removeListener() without a listener (shared.ts:210-213, 283-338).
THEOREM PipeIsAttachedWhileListened == Spec => []PipeAttachedWhileListened
<1>1. EventInv => PipeAttachedWhileListened
  <2> SUFFICES ASSUME EventInv PROVE PipeAttachedWhileListened
    OBVIOUS
  <2> DEFINE S == listeners["source"]
             F == {i \in DOMAIN S : S[i] = Forward}
  <2>1. /\ subscribed <=> (listeners["pipe"] # <<>> \/ "pipe" \in cleared)
        /\ "pipe" \in cleared => listeners["pipe"] = <<>>
        /\ AtMostOnce(S, Forward)
        /\ Forward \in ToSet(S) <=> (subscribed /\ "source" \notin cleared)
    BY DEF EventInv, ListenersInv, ForwardWhileSubscribed
  <2>2. Cardinality(F) = IF subscribed /\ "source" \notin cleared THEN 1 ELSE 0
    <3>1. CASE subscribed /\ "source" \notin cleared
      <4>1. PICK i \in DOMAIN S : S[i] = Forward
        BY <2>1, <3>1 DEF ToSet
      <4>2. F = {i}
        BY <2>1, <4>1 DEF AtMostOnce
      <4>3. Cardinality({i}) = 1
        BY FS_Singleton
      <4> QED
        BY <3>1, <4>2, <4>3
    <3>2. CASE ~(subscribed /\ "source" \notin cleared)
      <4>1. F = {}
        BY <2>1, <3>2 DEF ToSet
      <4> QED
        BY <3>2, <4>1, FS_EmptySet
    <3> QED
      BY <3>1, <3>2
  <2> QED
    BY <2>1, <2>2 DEF PipeAttachedWhileListened
<1> QED
  BY <1>1, EventInvariant, PTL

-----------------------------------------------------------------------------
\* The listeners that an emission went past without calling them, because
\* another took its leave.
Missed(e) ==
  {l \in expected[e] \ ToSet(called[e]) :
     \E p \in 1..Passed(e) : p <= Len(waiters) /\ waiters[p] = l}

\* Those expected are registered, and those called were added once.
ExpectedRegistered ==
  /\ ToSet(waiters) \subseteq added
  /\ \A e \in Emissions :
       /\ expected[e] \subseteq ToSet(waiters)
       /\ ToSet(called[e]) \subseteq added
       /\ emission[e].at = "not started" => called[e] = <<>>
       /\ emission[e].at = "awaiting" =>
            emission[e].who \in Waiters /\ emission[e].index <= Cardinality(Waiters)

\* What stands behind the position of an emission was not called by it.
NotCalledYet ==
  \A e \in Emissions : Underway(e) =>
    \A p \in DOMAIN waiters : p > Passed(e) => waiters[p] \notin ToSet(called[e])

\* While an emission is under way, each listener it went past without a call is
\* paid for by one that left.
MissedWerePaidFor == \A e \in Emissions : Underway(e) => Cardinality(Missed(e)) <= departures[e]

\* The inductive invariant of an AsyncEvent.
AsyncInv ==
  AsyncTypeOK /\ ExpectedRegistered /\ NotCalledYet /\ MissedWerePaidFor
    /\ MissesOnlyAfterDepartures /\ NoListenerTwice /\ SettledOnceIsGone

\* An emission went past a number of positions.
LEMMA PassedType ==
  ASSUME AsyncTypeOK, NEW e \in Emissions
  PROVE  /\ emission[e].at \in {"not started", "between", "awaiting", "resolved", "rejected"}
         /\ emission[e].index \in 1..Cardinality(Waiters) + 1
         /\ emission[e].who \in Waiters \union {"nobody"}
         /\ Cardinality(Waiters) \in Nat
         /\ Passed(e) \in Nat
<1>1. Cardinality(Waiters) \in Nat
  BY AsyncAssumption, FS_CardinalityType
<1>2. emission[e] \in Position
  BY DEF AsyncTypeOK
<1>3. /\ emission[e].at \in {"not started", "between", "awaiting", "resolved", "rejected"}
      /\ emission[e].index \in 1..Cardinality(Waiters) + 1
      /\ emission[e].who \in Waiters \union {"nobody"}
  BY <1>2 DEF Position
<1>4. PICK i : i = emission[e].index
  OBVIOUS
<1>5. i \in Nat /\ i >= 1
  <2>1. PICK c \in Nat : c = Cardinality(Waiters)
    BY <1>1
  <2>2. i \in 1..c + 1
    BY <1>3, <1>4, <2>1, Zenon
  <2> QED
    BY <2>2
<1>6. Passed(e) = i \/ Passed(e) = i - 1
  BY <1>4 DEF Passed
<1>7. Passed(e) \in Nat
  BY <1>5, <1>6
<1> QED
  BY <1>1, <1>3, <1>7

\* A set with one element more is at most one larger.
LEMMA OneMore ==
  ASSUME NEW S, IsFiniteSet(S), NEW T, NEW x, T \subseteq S \union {x}
  PROVE  Cardinality(T) <= Cardinality(S) + 1
<1>c. Cardinality(S) \in Nat
  BY FS_CardinalityType
<1>1. IsFiniteSet(S \union {x}) /\ Cardinality(S \union {x}) <= Cardinality(S) + 1
  <2>1. /\ IsFiniteSet(S \union {x})
        /\ Cardinality(S \union {x}) = IF x \in S THEN Cardinality(S) ELSE Cardinality(S) + 1
    BY FS_AddElement
  <2> QED
    BY <1>c, <2>1
<1>2. IsFiniteSet(T) /\ Cardinality(T) <= Cardinality(S \union {x})
  BY <1>1, FS_Subset
<1> QED
  BY <1>1, <1>2, FS_CardinalityType

\* Leaving: the others close the gap, so one more listener at most stands where
\* an emission has been already, and the one that left paid for it.
LEMMA LeavePays ==
  ASSUME AsyncInv, NEW l \in ToSet(waiters), Leave(l)
  PROVE  /\ waiters' \in Seq(Waiters) /\ IsInjective(waiters') /\ ToSet(waiters') = ToSet(waiters) \ {l}
         /\ expected' = [e \in Emissions |-> expected[e] \ {l}]
         /\ departures' \in [Emissions -> Nat]
         /\ \A e \in Emissions : ~Underway(e) => departures'[e] = departures[e]
         /\ \A e \in Emissions : Underway(e) =>
              /\ \A p \in DOMAIN waiters' : p > Passed(e) => waiters'[p] \notin ToSet(called[e])
              /\ Cardinality({x \in expected'[e] \ ToSet(called[e]) :
                    \E p \in 1..Passed(e) : p <= Len(waiters') /\ waiters'[p] = x}) <= departures'[e]
<1>1. /\ waiters \in Seq(Waiters) /\ IsInjective(waiters) /\ IsFiniteSet(Waiters)
      /\ expected \in [Emissions -> SUBSET Waiters] /\ departures \in [Emissions -> Nat]
  BY AsyncAssumption DEF AsyncInv, AsyncTypeOK
<1>2. /\ waiters' = RemoveFirst(waiters, l)
      /\ expected' = [e \in Emissions |-> expected[e] \ {l}]
      /\ departures' = [e \in Emissions |->
           IF Underway(e) /\ \E p \in 1..Passed(e) : p <= Len(waiters) /\ waiters[p] = l
           THEN departures[e] + 1 ELSE departures[e]]
  BY DEF Leave
<1>3. PICK k \in DOMAIN waiters : waiters[k] = l /\ waiters' = RemoveAt(waiters, k)
  BY <1>1, <1>2, RemoveFirstAt
<1>4. waiters' \in Seq(Waiters) /\ IsInjective(waiters') /\ ToSet(waiters') = ToSet(waiters) \ {l}
  BY <1>1, <1>2, ElementsOfRemoveFirst
<1>5. PICK n \in Nat : n = Len(waiters) /\ DOMAIN waiters = 1..n /\ k \in 1..n
  BY <1>1, LenProperties
<1>6. /\ Len(waiters') = n - 1 /\ DOMAIN waiters' = 1..n - 1
      /\ \A i \in 1..n - 1 : waiters'[i] = waiters[IF i < k THEN i ELSE i + 1]
  <2>1. /\ Len(waiters') = n - 1
        /\ \A i \in DOMAIN waiters' : waiters'[i] = waiters[IF i < k THEN i ELSE i + 1]
    BY <1>1, <1>3, <1>5, RemovedAt
  <2>2. DOMAIN waiters' = 1..Len(waiters')
    BY <1>4, LenProperties
  <2> QED
    BY <2>1, <2>2
<1>7. departures' \in [Emissions -> Nat]
  BY <1>1, <1>2
<1>8. \A e \in Emissions : ~Underway(e) => departures'[e] = departures[e]
  BY <1>2
<1>9. ASSUME NEW e \in Emissions, Underway(e)
      PROVE  \A p \in DOMAIN waiters' : p > Passed(e) => waiters'[p] \notin ToSet(called[e])
  <2>1. \A p \in 1..n : p > Passed(e) => waiters[p] \notin ToSet(called[e])
    BY <1>5, <1>9 DEF AsyncInv, NotCalledYet
  <2>2. Passed(e) \in Nat
    BY PassedType DEF AsyncInv
  <2> QED
    BY <1>5, <1>6, <2>1, <2>2
<1>10. ASSUME NEW e \in Emissions, Underway(e)
       PROVE  Cardinality({x \in expected'[e] \ ToSet(called[e]) :
                \E p \in 1..Passed(e) : p <= Len(waiters') /\ waiters'[p] = x}) <= departures'[e]
  <2> DEFINE m == Passed(e)
             M == {x \in expected'[e] \ ToSet(called[e]) :
                     \E p \in 1..m : p <= Len(waiters') /\ waiters'[p] = x}
  <2>1. m \in Nat
    BY PassedType DEF AsyncInv
  <2>2. Cardinality(Missed(e)) <= departures[e] /\ departures[e] \in Nat
    BY <1>1, <1>10 DEF AsyncInv, MissedWerePaidFor
  <2>3. IsFiniteSet(Missed(e)) /\ Cardinality(Missed(e)) \in Nat
    <3>1. Missed(e) \subseteq Waiters
      BY <1>1 DEF Missed
    <3> QED
      BY <1>1, <3>1, FS_Subset, FS_CardinalityType
  <2>4. ASSUME NEW x \in M PROVE x \in Missed(e) \/ (k <= m /\ x = waiters[m + 1])
    <3>1. PICK p \in 1..m : p <= n - 1 /\ waiters'[p] = x
      BY <1>6
    <3>2. x \in expected[e] /\ x \notin ToSet(called[e])
      BY <1>2
    <3>3. CASE p < k
      <4>1. waiters[p] = x /\ p <= Len(waiters)
        BY <1>5, <1>6, <2>1, <3>1, <3>3
      <4> QED
        BY <3>2, <4>1 DEF Missed
    <3>4. CASE p >= k
      <4>1. waiters[p + 1] = x /\ p + 1 <= Len(waiters) /\ k <= m
        BY <1>5, <1>6, <2>1, <3>1, <3>4
      <4>2. CASE p + 1 <= m
        <5>1. p + 1 \in 1..m
          BY <2>1, <4>2
        <5> QED
          BY <3>2, <4>1, <5>1 DEF Missed
      <4>3. CASE p + 1 > m
        <5>1. p + 1 = m + 1
          BY <2>1, <4>3
        <5> QED
          BY <4>1, <5>1
      <4> QED
        BY <2>1, <4>2, <4>3
    <3> QED
      BY <1>5, <2>1, <3>1, <3>3, <3>4
  <2> HIDE DEF M, m
  <2>5. CASE k <= m
    <3>1. k \in 1..m /\ k <= Len(waiters) /\ waiters[k] = l
      BY <1>3, <1>5, <2>1, <2>5
    <3>2. departures'[e] = departures[e] + 1
      BY <1>2, <1>10, <3>1 DEF m
    <3>3. M \subseteq Missed(e) \union {waiters[m + 1]}
      BY <2>4
    <3>5. Cardinality(M) <= Cardinality(Missed(e)) + 1
      BY <2>3, <3>3, OneMore
    <3>4. Cardinality(M) \in Nat
      <4>1. M \subseteq Waiters
        BY <1>1, <1>2 DEF M
      <4> QED
        BY <1>1, <4>1, FS_Subset, FS_CardinalityType
    <3> QED
      BY <2>2, <2>3, <3>2, <3>5, <3>4 DEF M, m
  <2>6. CASE ~(k <= m)
    <3>1. \A p \in 1..m : p <= Len(waiters) => waiters[p] # l
      BY <1>1, <1>3, <1>5, <2>1, <2>6 DEF IsInjective
    <3>2. departures'[e] = departures[e]
      BY <1>2, <3>1 DEF m
    <3>3. M \subseteq Missed(e)
      BY <2>4, <2>6
    <3>4. Cardinality(M) <= Cardinality(Missed(e)) /\ Cardinality(M) \in Nat
      BY <2>3, <3>3, FS_Subset, FS_CardinalityType
    <3> QED
      BY <2>2, <2>3, <3>2, <3>4 DEF M, m
  <2> QED
    BY <2>5, <2>6
<1> QED
  BY <1>2, <1>4, <1>7, <1>8, <1>9, <1>10

\* A listener is added behind the others.
LEMMA AddWaiterKeeps ==
  ASSUME AsyncInv, NEW l \in Waiters, NEW once \in BOOLEAN, AddWaiter(l, once)
  PROVE  AsyncInv'
<1>1. /\ waiters \in Seq(Waiters) /\ IsInjective(waiters) /\ ToSet(waiters) \subseteq added
      /\ l \notin added /\ added' = added \union {l} /\ waiters' = Append(waiters, l)
      /\ removable' = (IF once THEN removable \union {l} ELSE removable)
      /\ UNCHANGED <<emission, settled, called, expected, departures>>
  BY DEF AddWaiter, AsyncInv, AsyncTypeOK, ExpectedRegistered
<1>2. /\ waiters' \in Seq(Waiters) /\ IsInjective(waiters') /\ ToSet(waiters') = ToSet(waiters) \union {l}
  BY <1>1, ElementsOfAppend
<1>3. PICK n \in Nat : n = Len(waiters) /\ DOMAIN waiters = 1..n
  BY <1>1, LenProperties
<1>4. /\ Len(waiters') = n + 1 /\ DOMAIN waiters' = 1..n + 1 /\ waiters'[n + 1] = l
      /\ \A i \in 1..n : waiters'[i] = waiters[i]
  <2>1. /\ Len(waiters') = n + 1 /\ waiters'[n + 1] = l
        /\ \A i \in 1..n : waiters'[i] = waiters[i]
    BY <1>1, <1>3, AppendProperties
  <2>2. DOMAIN waiters' = 1..Len(waiters')
    BY <1>2, LenProperties
  <2> QED
    BY <2>1, <2>2
<1>5. AsyncTypeOK'
  BY <1>1, <1>2 DEF AsyncInv, AsyncTypeOK
<1>6. ExpectedRegistered'
  BY <1>1, <1>2 DEF AsyncInv, ExpectedRegistered
<1>7. \A e \in Emissions : /\ Passed(e)' = Passed(e) /\ (Underway(e)' <=> Underway(e))
                           /\ Passed(e) \in Nat /\ ToSet(called[e]) \subseteq added
  BY <1>1, PassedType DEF Passed, Underway, AsyncInv, ExpectedRegistered
<1>8. NotCalledYet'
  <2> SUFFICES ASSUME NEW e \in Emissions, Underway(e)', NEW p \in DOMAIN waiters', p > Passed(e)'
               PROVE  waiters'[p] \notin ToSet(called'[e])
    BY DEF NotCalledYet
  <2>1. CASE p = n + 1
    BY <1>1, <1>4, <1>7, <2>1
  <2>2. CASE p # n + 1
    <3>1. p \in 1..n
      BY <1>3, <1>4, <2>2
    <3>2. waiters[p] \notin ToSet(called[e])
      BY <1>3, <1>7, <3>1 DEF AsyncInv, NotCalledYet
    <3> QED
      BY <1>1, <1>4, <3>1, <3>2
  <2> QED
    BY <2>1, <2>2
<1>9. MissedWerePaidFor'
  <2> SUFFICES ASSUME NEW e \in Emissions, Underway(e)'
               PROVE  Cardinality(Missed(e)') <= departures'[e]
    BY DEF MissedWerePaidFor
  <2>1. Missed(e)' = Missed(e)
    <3>1. ASSUME NEW x \in Missed(e)' PROVE x \in Missed(e)
      <4>1. PICK p \in 1..Passed(e) : p <= n + 1 /\ waiters'[p] = x
        BY <1>4, <1>7, <3>1 DEF Missed
      <4>2. x \in expected[e] \ ToSet(called[e]) /\ x \in ToSet(waiters)
        BY <1>1, <3>1 DEF Missed, AsyncInv, ExpectedRegistered
      <4>3. x # l
        BY <1>1, <4>2
      <4>4. p <= n /\ waiters[p] = x
        BY <1>3, <1>4, <1>7, <4>1, <4>3
      <4> QED
        BY <1>3, <4>1, <4>2, <4>4 DEF Missed
    <3>2. ASSUME NEW x \in Missed(e) PROVE x \in Missed(e)'
      <4>1. PICK p \in 1..Passed(e) : p <= n /\ waiters[p] = x
        BY <1>3, <3>2 DEF Missed
      <4>2. x \in expected'[e] \ ToSet(called'[e])
        BY <1>1, <3>2 DEF Missed
      <4>3. p \in 1..Passed(e)' /\ p <= Len(waiters') /\ waiters'[p] = x
        BY <1>3, <1>4, <1>7, <4>1
      <4> QED
        BY <4>2, <4>3 DEF Missed
    <3> QED
      BY <3>1, <3>2
  <2> QED
    BY <1>1, <1>7, <2>1 DEF AsyncInv, MissedWerePaidFor
<1>10. MissesOnlyAfterDepartures' /\ NoListenerTwice'
  BY <1>1 DEF AsyncInv, MissesOnlyAfterDepartures, NoListenerTwice
<1>11. SettledOnceIsGone'
  <2>1. settled \subseteq added
    BY DEF AsyncInv, AsyncTypeOK
  <2> QED
    BY <1>1, <1>2, <2>1 DEF AsyncInv, SettledOnceIsGone
<1> QED
  BY <1>5, <1>6, <1>8, <1>9, <1>10, <1>11 DEF AsyncInv

\* An emission begins before the first listener.
LEMMA EmitAsyncKeeps ==
  ASSUME AsyncInv, NEW e \in Emissions, EmitAsync(e)
  PROVE  AsyncInv'
<1>1. /\ emission[e].at = "not started" /\ emission \in [Emissions -> Position]
      /\ emission' = [emission EXCEPT ![e] = At("between", 1, "nobody")]
      /\ expected' = [expected EXCEPT ![e] = ToSet(waiters)] /\ expected \in [Emissions -> SUBSET Waiters]
      /\ UNCHANGED <<waiters, removable, added, settled, called, departures>>
      /\ called[e] = <<>> /\ Cardinality(Waiters) \in Nat /\ ToSet(waiters) \subseteq Waiters
      /\ departures[e] \in Nat
  BY PassedType, ElementsOf DEF EmitAsync, AsyncInv, AsyncTypeOK, ExpectedRegistered
<1>2. /\ emission'[e] = At("between", 1, "nobody") /\ expected'[e] = ToSet(waiters)
      /\ \A f \in Emissions : f # e => emission'[f] = emission[f] /\ expected'[f] = expected[f]
  BY <1>1
<1>3. AsyncTypeOK'
  <2>1. At("between", 1, "nobody") \in Position
    <3>1. 1 \in 1..Cardinality(Waiters) + 1
      <4>1. \A c \in Nat : 1 \in 1..c + 1
        OBVIOUS
      <4> QED
        BY <1>1, <4>1, Zenon
    <3> QED
      BY <3>1 DEF At, Position
  <2>2. emission' \in [Emissions -> Position] /\ expected' \in [Emissions -> SUBSET Waiters]
    BY <1>1, <2>1
  <2> QED
    BY <1>1, <2>2 DEF AsyncInv, AsyncTypeOK
<1>4. ExpectedRegistered'
  BY <1>1, <1>2 DEF AsyncInv, ExpectedRegistered, At
<1>5. \A f \in Emissions : f # e => Passed(f)' = Passed(f) /\ (Underway(f)' <=> Underway(f)) /\ Missed(f)' = Missed(f)
  BY <1>1, <1>2 DEF Passed, Underway, Missed
<1>6. Passed(e)' = 0 /\ ToSet(called'[e]) = {}
  <2>1. emission'[e].at = "between" /\ emission'[e].index = 1
    BY <1>2 DEF At
  <2>2. called'[e] = <<>>
    BY <1>1
  <2>3. Passed(e)' = 1 - 1
    BY <2>1 DEF Passed
  <2> QED
    BY <2>2, <2>3, ElementsOfNothing
<1>7. NotCalledYet'
  <2> SUFFICES ASSUME NEW f \in Emissions, Underway(f)'
               PROVE  \A p \in DOMAIN waiters' : p > Passed(f)' => waiters'[p] \notin ToSet(called'[f])
    BY DEF NotCalledYet
  <2>1. CASE f = e
    BY <1>6, <2>1
  <2>2. CASE f # e
    BY <1>1, <1>5, <2>2 DEF AsyncInv, NotCalledYet
  <2> QED
    BY <2>1, <2>2
<1>8. MissedWerePaidFor'
  <2> SUFFICES ASSUME NEW f \in Emissions, Underway(f)'
               PROVE  Cardinality(Missed(f)') <= departures'[f]
    BY DEF MissedWerePaidFor
  <2>1. CASE f = e
    <3>1. Missed(e)' = {}
      BY <1>6 DEF Missed
    <3> QED
      <4>1. Cardinality({}) = 0
        BY FS_EmptySet
      <4>2. departures'[e] \in Nat
        BY <1>1
      <4> QED
        BY <2>1, <3>1, <4>1, <4>2
  <2>2. CASE f # e
    BY <1>1, <1>5, <2>2 DEF AsyncInv, MissedWerePaidFor
  <2> QED
    BY <2>1, <2>2
<1>9. MissesOnlyAfterDepartures'
  BY <1>1, <1>2 DEF AsyncInv, MissesOnlyAfterDepartures, At
<1>10. NoListenerTwice' /\ SettledOnceIsGone'
  BY <1>1 DEF AsyncInv, NoListenerTwice, SettledOnceIsGone
<1> QED
  BY <1>3, <1>4, <1>7, <1>8, <1>9, <1>10 DEF AsyncInv

\* A subscription is called, which moves the emissions on by one.
LEMMA UnregisterKeeps ==
  ASSUME AsyncInv, NEW l \in Waiters, Unregister(l)
  PROVE  AsyncInv'
<1>1. l \in ToSet(waiters) /\ Leave(l) /\ UNCHANGED <<removable, emission, added, settled, called>>
  BY DEF Unregister
<1>2. /\ waiters' \in Seq(Waiters) /\ IsInjective(waiters') /\ ToSet(waiters') = ToSet(waiters) \ {l}
      /\ expected' = [e \in Emissions |-> expected[e] \ {l}]
      /\ departures' \in [Emissions -> Nat]
      /\ \A e \in Emissions : ~Underway(e) => departures'[e] = departures[e]
  BY <1>1, LeavePays
<1>3. AsyncTypeOK'
  BY <1>1, <1>2 DEF AsyncInv, AsyncTypeOK
<1>4. ExpectedRegistered'
  BY <1>1, <1>2 DEF AsyncInv, ExpectedRegistered
<1>5. \A e \in Emissions : Passed(e)' = Passed(e) /\ (Underway(e)' <=> Underway(e))
  BY <1>1 DEF Passed, Underway
<1>6. NotCalledYet'
  BY <1>1, <1>5, LeavePays DEF NotCalledYet
<1>7. MissedWerePaidFor'
  <2> SUFFICES ASSUME NEW e \in Emissions, Underway(e)
               PROVE  Cardinality(Missed(e)') <= departures'[e]
    BY <1>5 DEF MissedWerePaidFor
  <2>1. Missed(e)' = {x \in expected'[e] \ ToSet(called[e]) :
                        \E p \in 1..Passed(e) : p <= Len(waiters') /\ waiters'[p] = x}
    BY <1>1, <1>5 DEF Missed
  <2> QED
    BY <1>1, <2>1, LeavePays
<1>8. MissesOnlyAfterDepartures'
  <2> SUFFICES ASSUME NEW e \in Emissions, emission[e].at = "resolved"
               PROVE  Cardinality(expected'[e] \ ToSet(called[e])) <= departures'[e]
    BY <1>1 DEF MissesOnlyAfterDepartures
  <2>1. ~Underway(e)
    BY DEF Underway
  <2>2. Cardinality(expected[e] \ ToSet(called[e])) <= departures'[e]
    BY <1>2, <2>1 DEF AsyncInv, MissesOnlyAfterDepartures
  <2>3. IsFiniteSet(expected[e] \ ToSet(called[e]))
    <3>1. expected[e] \subseteq Waiters /\ IsFiniteSet(Waiters)
      BY AsyncAssumption DEF AsyncInv, AsyncTypeOK
    <3> QED
      BY <3>1, FS_Subset
  <2>4. expected'[e] \ ToSet(called[e]) \subseteq expected[e] \ ToSet(called[e])
    BY <1>2
  <2>5. Cardinality(expected'[e] \ ToSet(called[e])) <= Cardinality(expected[e] \ ToSet(called[e]))
    BY <2>3, <2>4, FS_Subset
  <2>6. /\ Cardinality(expected'[e] \ ToSet(called[e])) \in Nat
        /\ Cardinality(expected[e] \ ToSet(called[e])) \in Nat /\ departures'[e] \in Nat
    BY <1>2, <2>3, <2>4, FS_Subset, FS_CardinalityType
  <2> QED
    BY <2>2, <2>5, <2>6
<1>9. NoListenerTwice' /\ SettledOnceIsGone'
  BY <1>1, <1>2 DEF AsyncInv, NoListenerTwice, SettledOnceIsGone
<1> QED
  BY <1>3, <1>4, <1>6, <1>7, <1>8, <1>9 DEF AsyncInv

\* An emission calls the next listener.
LEMMA CallNextKeeps ==
  ASSUME AsyncInv, NEW e \in Emissions, CallNext(e)
  PROVE  AsyncInv'
<1> DEFINE i == emission[e].index
           l == waiters[i]
<1>1. /\ emission[e].at = "between" /\ i <= Len(waiters) /\ emission \in [Emissions -> Position]
      /\ emission' = [emission EXCEPT ![e] = At("awaiting", i, l)]
      /\ called' = [called EXCEPT ![e] = Append(called[e], l)] /\ called \in [Emissions -> Seq(Waiters)]
      /\ UNCHANGED <<waiters, removable, added, settled, expected, departures>>
      /\ departures \in [Emissions -> Nat] /\ IsFiniteSet(Waiters)
      /\ waiters \in Seq(Waiters) /\ IsInjective(waiters)
  BY AsyncAssumption DEF CallNext, AsyncInv, AsyncTypeOK
<1>2. Cardinality(Waiters) \in Nat /\ i \in Nat /\ i >= 1 /\ Passed(e) = i - 1 /\ Underway(e)
  <2>1. PICK c \in Nat : c = Cardinality(Waiters)
    BY PassedType DEF AsyncInv
  <2>2. i \in 1..c + 1
    BY <2>1, PassedType DEF AsyncInv
  <2> QED
    BY <1>1, <2>1, <2>2 DEF Passed, Underway
<1>3. PICK n \in Nat : n = Len(waiters) /\ DOMAIN waiters = 1..n /\ n <= Cardinality(Waiters)
  BY <1>1, LenProperties, InjectiveLength
<1> HIDE DEF i
<1>4. i \in 1..n /\ l \in Waiters /\ l \in ToSet(waiters) /\ i <= Cardinality(Waiters)
  <2>1. i \in 1..n
    BY <1>1, <1>2, <1>3
  <2>2. l \in ToSet(waiters)
    BY <1>3, <2>1 DEF ToSet
  <2>3. l \in Waiters
    BY <1>1, <2>2, ElementsOf
  <2>4. PICK c \in Nat : c = Cardinality(Waiters)
    BY <1>2
  <2>5. i <= Cardinality(Waiters)
    BY <1>3, <2>1, <2>4
  <2> QED
    BY <2>1, <2>2, <2>3, <2>5
<1> HIDE DEF l
<1>5. /\ emission'[e] = At("awaiting", i, l) /\ called'[e] = Append(called[e], l)
      /\ \A f \in Emissions : f # e => emission'[f] = emission[f] /\ called'[f] = called[f]
  BY <1>1
<1>6. l \notin ToSet(called[e]) /\ called[e] \in Seq(Waiters)
  <2>1. i \in DOMAIN waiters /\ i > Passed(e)
    BY <1>2, <1>3, <1>4
  <2>2. waiters[i] \notin ToSet(called[e])
    BY <1>2, <2>1 DEF AsyncInv, NotCalledYet
  <2> QED
    BY <1>1, <2>2 DEF l
<1>7. /\ called'[e] \in Seq(Waiters) /\ ToSet(called'[e]) = ToSet(called[e]) \union {l}
      /\ IsInjective(called'[e])
  <2>1. IsInjective(called[e])
    BY DEF AsyncInv, NoListenerTwice
  <2> QED
    BY <1>4, <1>5, <1>6, <2>1, ElementsOfAppend
<1>8. emission'[e].at = "awaiting" /\ emission'[e].index = i /\ emission'[e].who = l
  BY <1>5 DEF At
<1>9. AsyncTypeOK'
  <2>1. At("awaiting", i, l) \in Position
    <3>1. i \in 1..Cardinality(Waiters) + 1
      BY <1>2, <1>4
    <3> QED
      BY <1>4, <3>1 DEF At, Position
  <2>2. emission' \in [Emissions -> Position]
    BY <1>1, <2>1
  <2>3. called' \in [Emissions -> Seq(Waiters)]
    BY <1>1, <1>5, <1>7
  <2> QED
    BY <1>1, <2>2, <2>3 DEF AsyncInv, AsyncTypeOK
<1>10. ExpectedRegistered'
  <2> SUFFICES ASSUME NEW f \in Emissions
               PROVE  /\ ToSet(called'[f]) \subseteq added
                      /\ emission'[f].at = "not started" => called'[f] = <<>>
                      /\ emission'[f].at = "awaiting" =>
                           emission'[f].who \in Waiters /\ emission'[f].index <= Cardinality(Waiters)
    BY <1>1 DEF AsyncInv, ExpectedRegistered
  <2>1. CASE f = e
    BY <1>4, <1>7, <1>8, <2>1 DEF AsyncInv, ExpectedRegistered
  <2>2. CASE f # e
    BY <1>5, <2>2 DEF AsyncInv, ExpectedRegistered
  <2> QED
    BY <2>1, <2>2
<1>11. \A f \in Emissions : f # e => Passed(f)' = Passed(f) /\ (Underway(f)' <=> Underway(f)) /\ Missed(f)' = Missed(f)
  BY <1>1, <1>5 DEF Passed, Underway, Missed
<1>12. Passed(e)' = i
  BY <1>8 DEF Passed
<1>13. NotCalledYet'
  <2> SUFFICES ASSUME NEW f \in Emissions, Underway(f)', NEW p \in DOMAIN waiters', p > Passed(f)'
               PROVE  waiters'[p] \notin ToSet(called'[f])
    BY DEF NotCalledYet
  <2>1. CASE f = e
    <3>1. p \in 1..n /\ p > i /\ waiters'[p] = waiters[p]
      BY <1>1, <1>3, <1>12, <2>1
    <3>2. waiters[p] # l
      <4>1. p \in DOMAIN waiters /\ i \in DOMAIN waiters /\ p # i
        BY <1>3, <1>4, <3>1
      <4>2. IsInjective(waiters)
        BY <1>1
      <4> QED
        BY <4>1, <4>2 DEF IsInjective, l
    <3>3. waiters[p] \notin ToSet(called[e])
      BY <1>2, <1>3, <3>1 DEF AsyncInv, NotCalledYet
    <3> QED
      BY <1>7, <2>1, <3>1, <3>2, <3>3
  <2>2. CASE f # e
    BY <1>1, <1>5, <1>11, <2>2 DEF AsyncInv, NotCalledYet
  <2> QED
    BY <2>1, <2>2
<1>14. MissedWerePaidFor'
  <2> SUFFICES ASSUME NEW f \in Emissions, Underway(f)'
               PROVE  Cardinality(Missed(f)') <= departures'[f]
    BY DEF MissedWerePaidFor
  <2>1. CASE f = e
    <3>1. Missed(e)' \subseteq Missed(e)
      <4> SUFFICES ASSUME NEW x \in Missed(e)' PROVE x \in Missed(e)
        OBVIOUS
      <4>1. PICK p \in 1..i : p <= n /\ waiters[p] = x
        BY <1>1, <1>3, <1>12 DEF Missed
      <4>2. x \in expected[e] /\ x \notin ToSet(called[e]) /\ x # l
        BY <1>1, <1>7 DEF Missed
      <4>3. p # i
        BY <4>1, <4>2 DEF l
      <4>4. p \in 1..Passed(e)
        BY <1>2, <4>1, <4>3
      <4> QED
        BY <1>3, <4>1, <4>2, <4>4 DEF Missed
    <3>2. IsFiniteSet(Missed(e))
      <4>1. Missed(e) \subseteq Waiters
        BY DEF Missed, AsyncInv, AsyncTypeOK
      <4> QED
        BY <1>1, <4>1, FS_Subset
    <3>3. /\ Cardinality(Missed(e)') <= Cardinality(Missed(e))
          /\ Cardinality(Missed(e)') \in Nat /\ Cardinality(Missed(e)) \in Nat
      BY <3>1, <3>2, FS_Subset, FS_CardinalityType
    <3>4. Cardinality(Missed(e)) <= departures[e] /\ departures[e] \in Nat /\ departures'[e] = departures[e]
      BY <1>1, <1>2 DEF AsyncInv, MissedWerePaidFor
    <3> QED
      BY <2>1, <3>3, <3>4
  <2>2. CASE f # e
    BY <1>1, <1>11, <2>2 DEF AsyncInv, MissedWerePaidFor
  <2> QED
    BY <2>1, <2>2
<1>15. MissesOnlyAfterDepartures'
  <2> SUFFICES ASSUME NEW f \in Emissions, emission'[f].at = "resolved"
               PROVE  Cardinality(expected[f] \ ToSet(called'[f])) <= departures[f]
    BY <1>1 DEF MissesOnlyAfterDepartures
  <2>1. f # e
    BY <1>8
  <2> QED
    BY <1>5, <2>1 DEF AsyncInv, MissesOnlyAfterDepartures
<1>16. NoListenerTwice' /\ SettledOnceIsGone'
  BY <1>1, <1>5, <1>7 DEF AsyncInv, NoListenerTwice, SettledOnceIsGone
<1> QED
  BY <1>9, <1>10, <1>13, <1>14, <1>15, <1>16 DEF AsyncInv

\* The promise of a listener settles.
LEMMA SettlesKeeps ==
  ASSUME AsyncInv, NEW e \in Emissions, NEW ok \in BOOLEAN, WaiterSettles(e, ok)
  PROVE  AsyncInv'
<1> DEFINE l == emission[e].who
           i == emission[e].index
           after == IF ok THEN At("between", i + 1, "nobody") ELSE At("rejected", 1, "nobody")
<1>1. /\ emission[e].at = "awaiting" /\ emission \in [Emissions -> Position]
      /\ settled' = settled \union ({l} \intersect removable)
      /\ IF l \in removable /\ l \in ToSet(waiters) THEN Leave(l)
         ELSE UNCHANGED <<waiters, expected, departures>>
      /\ emission' = [emission EXCEPT ![e] = after]
      /\ UNCHANGED <<removable, added, called>>
  BY DEF WaiterSettles, AsyncInv, AsyncTypeOK
<1>2. /\ l \in Waiters /\ i \in 1..Cardinality(Waiters) /\ Cardinality(Waiters) \in Nat
      /\ Passed(e) = i /\ Underway(e)
  <2>1. PICK c \in Nat : c = Cardinality(Waiters)
    BY PassedType DEF AsyncInv
  <2>2. i \in 1..c + 1 /\ i <= c /\ l \in Waiters
    BY <1>1, <2>1, PassedType DEF AsyncInv, ExpectedRegistered
  <2>3. i \in 1..c
    BY <2>2
  <2> QED
    BY <1>1, <2>1, <2>2, <2>3 DEF Passed, Underway
<1> HIDE DEF l, i
<1>3. /\ emission'[e] = after
      /\ \A f \in Emissions : f # e => emission'[f] = emission[f]
  BY <1>1
<1>4. after \in Position
  <2>1. \A c \in Nat : \A k \in 1..c : 1 \in 1..c + 1 /\ k + 1 \in 1..c + 1
    OBVIOUS
  <2>2. 1 \in 1..Cardinality(Waiters) + 1 /\ i + 1 \in 1..Cardinality(Waiters) + 1
    BY <1>2, <2>1, Zenon
  <2> QED
    BY <2>2 DEF At, Position
<1>5. \A f \in Emissions : f # e => Passed(f)' = Passed(f) /\ (Underway(f)' <=> Underway(f))
  BY <1>3 DEF Passed, Underway
<1>6. /\ ok => after.at = "between" /\ after.index = i + 1
      /\ ~ok => after.at = "rejected"
  BY DEF At
<1>7. (Underway(e)' => ok) /\ (ok => Passed(e)' = i)
  <2>1. ok => Passed(e)' = (i + 1) - 1
    <3> HIDE DEF after
    <3>1. ok => emission'[e].at = "between" /\ emission'[e].index = i + 1
      BY <1>3, <1>6
    <3> SUFFICES ASSUME ok PROVE Passed(e)' = (i + 1) - 1
      OBVIOUS
    <3>2. emission'[e].at = "between" /\ emission'[e].index = i + 1
      BY <3>1
    <3>3. Passed(e)' = emission'[e].index - 1
      BY <3>2 DEF Passed
    <3> QED
      BY <3>2, <3>3
  <2>2. ~ok => ~Underway(e)'
    BY <1>3, <1>6 DEF Underway
  <2> QED
    BY <1>2, <2>1, <2>2
<1> HIDE DEF after
<1>8. \A f \in Emissions : Underway(f)' => Underway(f) /\ Passed(f)' = Passed(f)
  BY <1>2, <1>5, <1>7
\* What becomes of the listeners, whether one leaves or not.
<1>9. /\ waiters' \in Seq(Waiters) /\ IsInjective(waiters') /\ ToSet(waiters') \subseteq ToSet(waiters)
      /\ expected' \in [Emissions -> SUBSET Waiters] /\ departures' \in [Emissions -> Nat]
      /\ \A f \in Emissions : expected'[f] \subseteq expected[f] /\ expected'[f] \subseteq ToSet(waiters')
      /\ \A f \in Emissions : ~Underway(f) => departures'[f] = departures[f]
      /\ l \in removable => l \notin ToSet(waiters')
  <2>1. CASE l \in removable /\ l \in ToSet(waiters)
    <3>1. /\ waiters' \in Seq(Waiters) /\ IsInjective(waiters') /\ ToSet(waiters') = ToSet(waiters) \ {l}
          /\ expected' = [f \in Emissions |-> expected[f] \ {l}]
          /\ departures' \in [Emissions -> Nat]
          /\ \A f \in Emissions : ~Underway(f) => departures'[f] = departures[f]
      BY <1>1, <2>1, LeavePays
    <3>2. /\ expected \in [Emissions -> SUBSET Waiters]
          /\ \A f \in Emissions : expected[f] \subseteq ToSet(waiters)
      BY DEF AsyncInv, AsyncTypeOK, ExpectedRegistered
    <3> QED
      BY <3>1, <3>2
  <2>2. CASE ~(l \in removable /\ l \in ToSet(waiters))
    BY <1>1, <2>2 DEF AsyncInv, AsyncTypeOK, ExpectedRegistered
  <2> QED
    BY <2>1, <2>2
<1>10. \A f \in Emissions : Underway(f) =>
         /\ \A p \in DOMAIN waiters' : p > Passed(f) => waiters'[p] \notin ToSet(called[f])
         /\ Cardinality({x \in expected'[f] \ ToSet(called[f]) :
               \E p \in 1..Passed(f) : p <= Len(waiters') /\ waiters'[p] = x}) <= departures'[f]
  <2>1. CASE l \in removable /\ l \in ToSet(waiters)
    BY <1>1, <2>1, LeavePays
  <2>2. CASE ~(l \in removable /\ l \in ToSet(waiters))
    <3>1. UNCHANGED <<waiters, expected, departures>>
      BY <1>1, <2>2
    <3> QED
      BY <3>1 DEF AsyncInv, NotCalledYet, MissedWerePaidFor, Missed
  <2> QED
    BY <2>1, <2>2
<1>11. AsyncTypeOK'
  <2>1. emission' \in [Emissions -> Position]
    BY <1>1, <1>4
  <2> QED
    BY <1>1, <1>9, <2>1 DEF AsyncInv, AsyncTypeOK
<1>12. ExpectedRegistered'
  <2> SUFFICES ASSUME NEW f \in Emissions
               PROVE  /\ ToSet(waiters') \subseteq added'
                      /\ expected'[f] \subseteq ToSet(waiters')
                      /\ ToSet(called'[f]) \subseteq added'
                      /\ emission'[f].at = "not started" => called'[f] = <<>>
                      /\ emission'[f].at = "awaiting" =>
                           emission'[f].who \in Waiters /\ emission'[f].index <= Cardinality(Waiters)
    <3>1. ToSet(waiters') \subseteq added'
      BY <1>1, <1>9 DEF AsyncInv, ExpectedRegistered
    <3> QED
      BY <3>1 DEF ExpectedRegistered
  <2>1. /\ ToSet(waiters') \subseteq added' /\ expected'[f] \subseteq ToSet(waiters')
        /\ ToSet(called'[f]) \subseteq added'
    BY <1>1, <1>9 DEF AsyncInv, ExpectedRegistered
  <2>2. CASE f = e
    <3>1. emission'[f].at \in {"between", "rejected"}
      BY <1>3, <1>6, <2>2
    <3> QED
      BY <2>1, <3>1
  <2>3. CASE f # e
    BY <1>1, <1>3, <2>1, <2>3 DEF AsyncInv, ExpectedRegistered
  <2> QED
    BY <2>2, <2>3
<1>13. NotCalledYet'
  BY <1>1, <1>8, <1>10 DEF NotCalledYet
<1>14. MissedWerePaidFor'
  <2> SUFFICES ASSUME NEW f \in Emissions, Underway(f)'
               PROVE  Cardinality(Missed(f)') <= departures'[f]
    BY DEF MissedWerePaidFor
  <2>1. Missed(f)' = {x \in expected'[f] \ ToSet(called[f]) :
                        \E p \in 1..Passed(f) : p <= Len(waiters') /\ waiters'[p] = x}
    BY <1>1, <1>8 DEF Missed
  <2> QED
    BY <1>8, <1>10, <2>1
<1>15. MissesOnlyAfterDepartures'
  <2> SUFFICES ASSUME NEW f \in Emissions, emission'[f].at = "resolved"
               PROVE  Cardinality(expected'[f] \ ToSet(called[f])) <= departures'[f]
    BY <1>1 DEF MissesOnlyAfterDepartures
  <2>1. f # e
    BY <1>3, <1>6
  <2>2. emission[f].at = "resolved" /\ ~Underway(f)
    BY <1>3, <2>1 DEF Underway
  <2>3. Cardinality(expected[f] \ ToSet(called[f])) <= departures'[f]
    BY <1>9, <2>2 DEF AsyncInv, MissesOnlyAfterDepartures
  <2>4. IsFiniteSet(expected[f] \ ToSet(called[f]))
    <3>1. expected[f] \subseteq Waiters /\ IsFiniteSet(Waiters)
      BY AsyncAssumption DEF AsyncInv, AsyncTypeOK
    <3> QED
      BY <3>1, FS_Subset
  <2>5. expected'[f] \ ToSet(called[f]) \subseteq expected[f] \ ToSet(called[f])
    BY <1>9
  <2>6. /\ Cardinality(expected'[f] \ ToSet(called[f])) <= Cardinality(expected[f] \ ToSet(called[f]))
        /\ Cardinality(expected'[f] \ ToSet(called[f])) \in Nat
        /\ Cardinality(expected[f] \ ToSet(called[f])) \in Nat
    BY <2>4, <2>5, FS_Subset, FS_CardinalityType
  <2>7. departures'[f] \in Nat
    BY <1>9
  <2> QED
    BY <2>3, <2>6, <2>7
<1>16. NoListenerTwice'
  BY <1>1 DEF AsyncInv, NoListenerTwice
<1>17. SettledOnceIsGone'
  BY <1>1, <1>9 DEF AsyncInv, SettledOnceIsGone
<1> QED
  BY <1>11, <1>12, <1>13, <1>14, <1>15, <1>16, <1>17 DEF AsyncInv

\* The loop is at the end of the array.
LEMMA ResolvesKeeps ==
  ASSUME AsyncInv, NEW e \in Emissions, EmissionResolves(e)
  PROVE  AsyncInv'
<1> DEFINE i == emission[e].index
<1>1. /\ emission[e].at = "between" /\ i > Len(waiters) /\ emission \in [Emissions -> Position]
      /\ emission' = [emission EXCEPT ![e] = At("resolved", 1, "nobody")]
      /\ UNCHANGED <<waiters, removable, added, settled, called, expected, departures>>
      /\ waiters \in Seq(Waiters)
  BY DEF EmissionResolves, AsyncInv, AsyncTypeOK
<1>2. Cardinality(Waiters) \in Nat /\ i \in Nat /\ i >= 1 /\ Passed(e) = i - 1 /\ Underway(e)
  <2>1. PICK c \in Nat : c = Cardinality(Waiters)
    BY PassedType DEF AsyncInv
  <2>2. i \in 1..c + 1
    BY <2>1, PassedType DEF AsyncInv
  <2> QED
    BY <1>1, <2>1, <2>2 DEF Passed, Underway
<1>3. PICK n \in Nat : n = Len(waiters) /\ DOMAIN waiters = 1..n
  BY <1>1, LenProperties
<1> HIDE DEF i
<1>4. /\ emission'[e].at = "resolved"
      /\ \A f \in Emissions : f # e => emission'[f] = emission[f]
  BY <1>1 DEF At
<1>5. AsyncTypeOK'
  <2>1. \A c \in Nat : 1 \in 1..c + 1
    OBVIOUS
  <2>2. 1 \in 1..Cardinality(Waiters) + 1
    BY <1>2, <2>1, Zenon
  <2>3. At("resolved", 1, "nobody") \in Position
    BY <2>2 DEF At, Position
  <2>4. emission' \in [Emissions -> Position]
    BY <1>1, <2>3
  <2> QED
    BY <1>1, <2>4 DEF AsyncInv, AsyncTypeOK
<1>6. ExpectedRegistered'
  <2>1. \A f \in Emissions : emission'[f].at \in {"not started", "awaiting"} => emission'[f] = emission[f]
    BY <1>4
  <2> QED
    BY <1>1, <2>1 DEF AsyncInv, ExpectedRegistered
<1>7. \A f \in Emissions : Underway(f)' =>
        f # e /\ Underway(f) /\ Passed(f)' = Passed(f) /\ Missed(f)' = Missed(f)
  BY <1>1, <1>4 DEF Underway, Passed, Missed
<1>8. NotCalledYet' /\ MissedWerePaidFor'
  BY <1>1, <1>7 DEF AsyncInv, NotCalledYet, MissedWerePaidFor
<1>9. MissesOnlyAfterDepartures'
  <2> SUFFICES ASSUME NEW f \in Emissions, emission'[f].at = "resolved"
               PROVE  Cardinality(expected[f] \ ToSet(called[f])) <= departures[f]
    BY <1>1 DEF MissesOnlyAfterDepartures
  <2>1. CASE f = e
    <3>1. expected[e] \ ToSet(called[e]) = Missed(e)
      <4> SUFFICES ASSUME NEW x \in expected[e] \ ToSet(called[e]) PROVE x \in Missed(e)
        BY DEF Missed
      <4>1. x \in ToSet(waiters)
        BY DEF AsyncInv, ExpectedRegistered
      <4>2. PICK p \in 1..n : waiters[p] = x
        BY <1>3, <4>1 DEF ToSet
      <4>3. p \in 1..Passed(e) /\ p <= Len(waiters)
        BY <1>1, <1>2, <1>3 DEF i
      <4> QED
        BY <4>2, <4>3 DEF Missed
    <3> QED
      BY <1>2, <2>1, <3>1 DEF AsyncInv, MissedWerePaidFor
  <2>2. CASE f # e
    BY <1>4, <2>2 DEF AsyncInv, MissesOnlyAfterDepartures
  <2> QED
    BY <2>1, <2>2
<1>10. NoListenerTwice' /\ SettledOnceIsGone'
  BY <1>1 DEF AsyncInv, NoListenerTwice, SettledOnceIsGone
<1> QED
  BY <1>5, <1>6, <1>8, <1>9, <1>10 DEF AsyncInv

\* Every step of an AsyncEvent keeps the invariant.
LEMMA AsyncStep == AsyncInv /\ [AsyncNext]_asyncVars => AsyncInv'
<1> SUFFICES ASSUME AsyncInv, [AsyncNext]_asyncVars PROVE AsyncInv'
  OBVIOUS
<1>1. CASE UNCHANGED asyncVars
  <2>1. UNCHANGED <<waiters, removable, emission, added, settled, called, expected, departures>>
    BY <1>1 DEF asyncVars
  <2>2. AsyncTypeOK' /\ ExpectedRegistered' /\ NotCalledYet'
    BY <2>1 DEF AsyncInv, AsyncTypeOK, ExpectedRegistered, NotCalledYet, Passed, Underway
  <2>3. MissedWerePaidFor' /\ MissesOnlyAfterDepartures' /\ NoListenerTwice' /\ SettledOnceIsGone'
    BY <2>1 DEF AsyncInv, MissedWerePaidFor, Missed, Passed, Underway, MissesOnlyAfterDepartures,
                NoListenerTwice, SettledOnceIsGone
  <2> QED
    BY <2>2, <2>3 DEF AsyncInv
<1> QED
  BY <1>1, AddWaiterKeeps, UnregisterKeeps, EmitAsyncKeeps, CallNextKeeps, SettlesKeeps, ResolvesKeeps
     DEF AsyncNext

\* The invariant holds of an AsyncEvent that was just made.
LEMMA AsyncInitInv == AsyncInit => AsyncInv
<1> SUFFICES ASSUME AsyncInit PROVE AsyncInv
  OBVIOUS
<1>1. /\ waiters = <<>> /\ removable = {} /\ added = {} /\ settled = {}
      /\ emission = [e \in Emissions |-> At("not started", 1, "nobody")]
      /\ called = [e \in Emissions |-> <<>>] /\ expected = [e \in Emissions |-> {}]
      /\ departures = [e \in Emissions |-> 0]
  BY DEF AsyncInit
<1>2. <<>> \in Seq(Waiters) /\ IsInjective(<<>>) /\ ToSet(<<>>) = {}
  BY ElementsOfNothing
<1>3. \A e \in Emissions : emission[e].at = "not started" /\ ~Underway(e)
  BY <1>1 DEF At, Underway
<1>4. AsyncTypeOK
  <2>1. \A c \in Nat : 1 \in 1..c + 1
    OBVIOUS
  <2>2. Cardinality(Waiters) \in Nat
    BY AsyncAssumption, FS_CardinalityType
  <2>3. 1 \in 1..Cardinality(Waiters) + 1
    BY <2>1, <2>2, Zenon
  <2>4. At("not started", 1, "nobody") \in Position
    BY <2>3 DEF At, Position
  <2> QED
    BY <1>1, <1>2, <2>4 DEF AsyncTypeOK
<1>5. ExpectedRegistered
  BY <1>1, <1>2, <1>3 DEF ExpectedRegistered
<1>6. NotCalledYet /\ MissedWerePaidFor /\ MissesOnlyAfterDepartures
  BY <1>3 DEF NotCalledYet, MissedWerePaidFor, MissesOnlyAfterDepartures
<1>7. NoListenerTwice /\ SettledOnceIsGone
  BY <1>1, <1>2 DEF NoListenerTwice, SettledOnceIsGone
<1> QED
  BY <1>4, <1>5, <1>6, <1>7 DEF AsyncInv

\* An emission that resolved has called every listener that stayed, but for one
\* at most for each that left while it ran; it calls none twice, and a once
\* listener that settled is gone (async.ts:36-49, eachAsync.ts:38-52).
THEOREM EmissionsReachThoseThatStay == AsyncSpec => []EmissionsReachAll
<1>1. AsyncInv => EmissionsReachAll
  BY DEF AsyncInv, EmissionsReachAll
<1> QED
  BY <1>1, AsyncInitInv, AsyncStep, PTL DEF AsyncSpec

-----------------------------------------------------------------------------
\* What was promised is not on the list yet.
PromisedApart == promised \cap ToSet(subscriptions) = {}

\* While an asyncDispose waits, what is on the list has been ended, but for what
\* came since.
AwaitedIsEnded ==
  Disposing => \A r \in ToSet(subscriptions) \ late : ends[r] > 0

\* Until a disposal is repeated, what is still to be ended has not been.
UnendedYet ==
  ~repeated =>
    \A r \in Resources :
      /\ r \notin given \/ r \in promised => ends[r] = 0
      /\ ~Disposing /\ r \in ToSet(subscriptions) => ends[r] = 0

\* The inductive invariant of the manager.
TeardownInv ==
  TeardownTypeOK /\ PromisedApart /\ AwaitedIsEnded /\ UnendedYet /\ NothingForgotten /\ EndedOnce

\* The ends of what a disposal goes through.
LEMMA EndAllCounts ==
  ASSUME ends \in [Resources -> Nat], NEW s
  PROVE  /\ EndAll(s) \in [Resources -> Nat]
         /\ \A r \in Resources : EndAll(s)[r] = IF r \in ToSet(s) THEN ends[r] + 1 ELSE ends[r]
BY DEF EndAll

\* How far a disposal goes into the list.
LEMMA ReachedPart ==
  ASSUME TeardownTypeOK, NEW n \in Reached
  PROVE  /\ n \in 0..Len(subscriptions)
         /\ ToSet(SubSeq(subscriptions, 1, n)) \subseteq ToSet(subscriptions)
         /\ ToSet(subscriptions) = ToSet(SubSeq(subscriptions, 1, n))
              \union ToSet(SubSeq(subscriptions, n + 1, Len(subscriptions)))
         /\ n = Len(subscriptions) => ToSet(SubSeq(subscriptions, 1, n)) = ToSet(subscriptions)
         /\ ToSet(subscriptions) \subseteq given
<1>1. subscriptions \in Seq(given) /\ Len(subscriptions) \in Nat
  BY LenProperties DEF TeardownTypeOK
<1>2. n \in 0..Len(subscriptions)
  <2>1. Len(<<>>) = 0
    OBVIOUS
  <2> QED
    BY <1>1, <2>1 DEF Reached
<1> QED
  BY <1>1, <1>2, ElementsOfParts, ElementsOf

\* A subscription is given to the manager.
LEMMA GiveKeeps ==
  ASSUME TeardownInv, NEW r \in Resources, Give(r) \/ Arrive(r)
  PROVE  TeardownInv'
<1>1. /\ subscriptions \in Seq(given) /\ IsInjective(subscriptions)
      /\ promised \subseteq given /\ given \subseteq Resources
      /\ ToSet(subscriptions) \subseteq given
  BY ElementsOf DEF TeardownInv, TeardownTypeOK
<1>2. /\ subscriptions' = Append(subscriptions, r)
      /\ given' = given \union {r} /\ promised' = promised \ {r}
      /\ late' = IF Disposing THEN late \union {r} ELSE late
      /\ UNCHANGED <<disposal, awaited, ends, behind, repeated>>
      /\ r \notin given \/ r \in promised
  BY <1>1 DEF Give, Arrive
<1>3. r \notin ToSet(subscriptions)
  BY <1>1, <1>2 DEF TeardownInv, PromisedApart
<1>4. /\ subscriptions' \in Seq(given') /\ IsInjective(subscriptions')
      /\ ToSet(subscriptions') = ToSet(subscriptions) \union {r}
  <2>1. subscriptions \in Seq(given') /\ r \in given'
    BY <1>1, <1>2, SeqMonotonic
  <2> QED
    BY <1>1, <1>2, <1>3, <2>1, ElementsOfAppend
<1>5. Disposing' = Disposing
  BY <1>2 DEF Disposing
<1>6. TeardownTypeOK'
  <2>1. awaited' \in [Disposals -> SUBSET given'] /\ given' \subseteq Resources
    BY <1>1, <1>2 DEF TeardownInv, TeardownTypeOK
  <2> QED
    BY <1>1, <1>2, <1>4, <2>1 DEF TeardownInv, TeardownTypeOK
<1>7. PromisedApart' /\ AwaitedIsEnded'
  BY <1>1, <1>2, <1>4, <1>5 DEF TeardownInv, PromisedApart, AwaitedIsEnded
<1>8. UnendedYet' /\ EndedOnce'
  BY <1>1, <1>2, <1>4, <1>5 DEF TeardownInv, UnendedYet, EndedOnce
<1>9. NothingForgotten'
  BY <1>1, <1>2, <1>4 DEF TeardownInv, NothingForgotten
<1> QED
  BY <1>6, <1>7, <1>8, <1>9 DEF TeardownInv

\* The manager is given the promise of a subscription.
LEMMA PromiseKeeps ==
  ASSUME TeardownInv, NEW r \in Resources, Promise(r)
  PROVE  TeardownInv'
<1>1. /\ subscriptions \in Seq(given) /\ ToSet(subscriptions) \subseteq given
  BY ElementsOf DEF TeardownInv, TeardownTypeOK
<1>2. /\ subscriptions' = subscriptions /\ r \notin given
      /\ given' = given \union {r} /\ promised' = promised \union {r}
      /\ UNCHANGED <<disposal, awaited, ends, late, behind, repeated>>
  BY DEF Promise
<1>3. subscriptions' \in Seq(given')
  BY <1>1, <1>2, SeqMonotonic
<1>4. Disposing' = Disposing
  BY <1>2 DEF Disposing
<1>5. TeardownTypeOK'
  BY <1>2, <1>3 DEF TeardownInv, TeardownTypeOK
<1>6. PromisedApart' /\ AwaitedIsEnded' /\ UnendedYet' /\ EndedOnce' /\ NothingForgotten'
  BY <1>1, <1>2, <1>4
     DEF TeardownInv, PromisedApart, AwaitedIsEnded, UnendedYet, EndedOnce, NothingForgotten
<1> QED
  BY <1>5, <1>6 DEF TeardownInv

\* Symbol.dispose.
LEMMA DisposeKeeps ==
  ASSUME TeardownInv, IsFiniteSet(Resources), NEW n, NEW more, Dispose(n, more)
  PROVE  TeardownInv'
<1> DEFINE done == ToSet(SubSeq(subscriptions, 1, n))
           rest == ToSet(SubSeq(subscriptions, n + 1, Len(subscriptions)))
<1>1. /\ n \in Reached /\ more \subseteq Resources \ given
      /\ ends' = EndAll(SubSeq(subscriptions, 1, n))
      /\ behind' = behind \union rest
      /\ subscriptions' = SetToSeq(more)
      /\ given' = given \union more
      /\ late' = IF Disposing THEN late \union more ELSE late
      /\ repeated' = (repeated \/ Disposing)
      /\ UNCHANGED <<promised, disposal, awaited>>
  BY DEF Dispose
<1>2. done \subseteq ToSet(subscriptions) /\ ToSet(subscriptions) = done \union rest
      /\ ToSet(subscriptions) \subseteq given /\ given \subseteq Resources
      /\ promised \subseteq given /\ behind \subseteq given /\ late \subseteq given
  BY <1>1, ReachedPart DEF TeardownInv, TeardownTypeOK
<1>3. /\ ends' \in [Resources -> Nat]
      /\ \A r \in Resources : ends'[r] = IF r \in done THEN ends[r] + 1 ELSE ends[r]
  BY <1>1, EndAllCounts DEF TeardownInv, TeardownTypeOK
<1> HIDE DEF done, rest
<1>4. /\ subscriptions' \in Seq(given') /\ IsInjective(subscriptions')
      /\ ToSet(subscriptions') = more
  <2>1. IsFiniteSet(more)
    BY <1>1, FS_Subset
  <2>2. SetToSeq(more) \in Seq(more) /\ more \subseteq given'
    BY <1>1, <2>1, SequenceOfSet
  <2> QED
    BY <1>1, <2>1, <2>2, SequenceOfSet, SeqMonotonic
<1>5. Disposing' = Disposing
  BY <1>1 DEF Disposing
<1>6. TeardownTypeOK'
  <2>1. awaited' \in [Disposals -> SUBSET given'] /\ given' \subseteq Resources
    BY <1>1, <1>2 DEF TeardownInv, TeardownTypeOK
  <2>2. repeated' \in BOOLEAN /\ behind' \subseteq given' /\ late' \subseteq given' /\ promised' \subseteq given'
    BY <1>1, <1>2 DEF TeardownInv, TeardownTypeOK
  <2> QED
    BY <1>1, <1>3, <1>4, <2>1, <2>2 DEF TeardownInv, TeardownTypeOK
<1>7. PromisedApart' /\ AwaitedIsEnded'
  BY <1>1, <1>2, <1>4, <1>5 DEF PromisedApart, AwaitedIsEnded
<1>8. UnendedYet' /\ EndedOnce'
  <2>1. SUFFICES ASSUME ~repeated', NEW r \in Resources
                 PROVE  /\ r \notin given' \/ r \in promised' => ends'[r] = 0
                        /\ r \in ToSet(subscriptions') => ends'[r] = 0
                        /\ ends'[r] <= 1
    BY DEF UnendedYet, EndedOnce
  <2>2. ~repeated /\ ~Disposing
    BY <1>1, <2>1
  <2>3. /\ r \notin given \/ r \in promised => ends[r] = 0
        /\ r \in ToSet(subscriptions) => ends[r] = 0
        /\ ends[r] <= 1
    BY <2>2 DEF TeardownInv, UnendedYet, EndedOnce
  <2>4. r \in promised => r \notin ToSet(subscriptions)
    BY DEF TeardownInv, PromisedApart
  <2> QED
    BY <1>1, <1>2, <1>3, <1>4, <2>3, <2>4
<1>9. NothingForgotten'
  <2>1. SUFFICES ASSUME NEW r \in given', r \notin late', r \notin behind'
                 PROVE  r \in ToSet(subscriptions') \union promised' \/ ends'[r] > 0
    BY DEF NothingForgotten
  <2>2. CASE r \in more
    BY <1>4, <2>2
  <2>3. CASE r \notin more
    <3>1. r \in given /\ r \notin late /\ r \notin behind /\ r \notin rest /\ r \in Resources
      BY <1>1, <1>2, <2>1, <2>3
    <3>2. r \in ToSet(subscriptions) \union promised \/ ends[r] > 0
      BY <3>1 DEF TeardownInv, NothingForgotten
    <3>3. ends[r] \in Nat
      BY <3>1 DEF TeardownInv, TeardownTypeOK
    <3> QED
      BY <1>1, <1>2, <1>3, <3>1, <3>2, <3>3
  <2> QED
    BY <2>2, <2>3
<1> QED
  BY <1>6, <1>7, <1>8, <1>9 DEF TeardownInv

\* Symbol.asyncDispose is called.
LEMMA AsyncDisposeKeeps ==
  ASSUME TeardownInv, IsFiniteSet(Resources), NEW d \in Disposals, NEW n, NEW more, NEW ok \in BOOLEAN,
         AsyncDispose(d, n, more, ok)
  PROVE  TeardownInv'
<1> DEFINE done == ToSet(SubSeq(subscriptions, 1, n))
<1>1. /\ n \in Reached /\ more \subseteq Resources \ given /\ (ok => n = Len(subscriptions))
      /\ ends' = EndAll(SubSeq(subscriptions, 1, n))
      /\ disposal' = [disposal EXCEPT ![d] = IF ok THEN "awaiting" ELSE "failed"]
      /\ awaited' = [awaited EXCEPT ![d] = IF ok THEN ToSet(subscriptions) ELSE {}]
      /\ subscriptions' = subscriptions \o SetToSeq(more)
      /\ given' = given \union more
      /\ late' = IF ok \/ Disposing THEN late \union more ELSE late
      /\ repeated' = (repeated \/ Disposing \/ ~ok)
      /\ UNCHANGED <<promised, behind>> /\ disposal[d] = "not started"
  BY DEF AsyncDispose
<1>2. done \subseteq ToSet(subscriptions) /\ (ok => done = ToSet(subscriptions))
      /\ ToSet(subscriptions) \subseteq given /\ given \subseteq Resources
      /\ promised \subseteq given /\ behind \subseteq given /\ late \subseteq given
  BY <1>1, ReachedPart DEF TeardownInv, TeardownTypeOK
<1>3. /\ ends' \in [Resources -> Nat]
      /\ \A r \in Resources : ends'[r] = IF r \in done THEN ends[r] + 1 ELSE ends[r]
  BY <1>1, EndAllCounts DEF TeardownInv, TeardownTypeOK
<1> HIDE DEF done
<1>4. /\ subscriptions' \in Seq(given') /\ IsInjective(subscriptions')
      /\ ToSet(subscriptions') = ToSet(subscriptions) \union more
  <2>1. IsFiniteSet(more)
    BY <1>1, FS_Subset
  <2> DEFINE m == SetToSeq(more)
  <2>2. m \in Seq(more) /\ more \subseteq given' /\ IsInjective(m) /\ ToSet(m) = more
    BY <1>1, <2>1, SequenceOfSet
  <2> HIDE DEF m
  <2>3. subscriptions \in Seq(given') /\ m \in Seq(given') /\ IsInjective(subscriptions)
    BY <1>1, <2>2, SeqMonotonic DEF TeardownInv, TeardownTypeOK
  <2>4. ToSet(subscriptions) \cap ToSet(m) = {}
    BY <1>1, <1>2, <2>2
  <2>5. subscriptions' = subscriptions \o m
    BY <1>1 DEF m
  <2> QED
    BY <2>2, <2>3, <2>4, <2>5, ElementsOfConcat
<1>5. Disposing' <=> Disposing \/ ok
  <2>1. disposal \in [Disposals -> {"not started", "awaiting", "done", "failed"}]
    BY DEF TeardownInv, TeardownTypeOK
  <2>2. /\ disposal'[d] = IF ok THEN "awaiting" ELSE "failed"
        /\ \A c \in Disposals : c # d => disposal'[c] = disposal[c]
    BY <1>1, <2>1
  <2>3. CASE ok
    BY <2>2, <2>3 DEF Disposing
  <2>4. CASE ~ok
    <3>1. disposal'[d] = "failed" /\ disposal[d] = "not started"
      BY <1>1, <2>2, <2>4, Zenon
    <3> QED
      BY <2>2, <2>4, <3>1 DEF Disposing
  <2> QED
    BY <2>3, <2>4
<1>6. TeardownTypeOK'
  <2>1. given' \subseteq Resources /\ late' \subseteq given' /\ behind' \subseteq given' /\ promised' \subseteq given'
    BY <1>1, <1>2
  <2>2. awaited' \in [Disposals -> SUBSET given']
    <3>1. awaited \in [Disposals -> SUBSET given']
      BY <1>1 DEF TeardownInv, TeardownTypeOK
    <3>2. ToSet(subscriptions) \subseteq given'
      BY <1>1, <1>2
    <3> QED
      BY <1>1, <3>1, <3>2
  <2>3. disposal' \in [Disposals -> {"not started", "awaiting", "done", "failed"}]
    BY <1>1 DEF TeardownInv, TeardownTypeOK
  <2>4. repeated' \in BOOLEAN
    BY <1>1 DEF TeardownInv, TeardownTypeOK
  <2> QED
    BY <1>3, <1>4, <2>1, <2>2, <2>3, <2>4 DEF TeardownTypeOK
<1>7. PromisedApart'
  BY <1>1, <1>2, <1>4 DEF TeardownInv, PromisedApart
<1>8. AwaitedIsEnded'
  <2>1. SUFFICES ASSUME Disposing \/ ok, NEW r \in ToSet(subscriptions'), r \notin late'
                 PROVE  ends'[r] > 0
    BY <1>5 DEF AwaitedIsEnded
  <2>2. r \in ToSet(subscriptions) /\ r \notin late /\ r \in Resources
    BY <1>1, <1>2, <1>4, <2>1
  <2>3. ends[r] \in Nat /\ (Disposing => ends[r] > 0)
    BY <2>2 DEF TeardownInv, TeardownTypeOK, AwaitedIsEnded
  <2> QED
    BY <1>2, <1>3, <2>1, <2>2, <2>3
<1>9. UnendedYet' /\ EndedOnce'
  <2>1. SUFFICES ASSUME ~repeated', NEW r \in Resources
                 PROVE  /\ r \notin given' \/ r \in promised' => ends'[r] = 0
                        /\ ends'[r] <= 1
    <3>1. ~repeated' => Disposing'
      BY <1>1, <1>5
    <3> QED
      BY <3>1, <2>1 DEF UnendedYet, EndedOnce
  <2>2. ~repeated /\ ~Disposing
    BY <1>1, <2>1
  <2>3. /\ r \notin given \/ r \in promised => ends[r] = 0
        /\ r \in ToSet(subscriptions) => ends[r] = 0
        /\ ends[r] <= 1
    BY <2>2 DEF TeardownInv, UnendedYet, EndedOnce
  <2>4. r \in promised => r \notin ToSet(subscriptions)
    BY DEF TeardownInv, PromisedApart
  <2>5. ends'[r] = IF r \in done THEN ends[r] + 1 ELSE ends[r]
    BY <1>3
  <2>6. ends[r] \in Nat
    BY DEF TeardownInv, TeardownTypeOK
  <2>7. ends'[r] <= 1
    BY <1>2, <2>3, <2>5, <2>6
  <2>8. r \notin given' \/ r \in promised' => r \notin done /\ ends[r] = 0
    BY <1>1, <1>2, <2>3, <2>4
  <2> QED
    BY <2>5, <2>7, <2>8
<1>10. NothingForgotten'
  <2>1. SUFFICES ASSUME NEW r \in given', r \notin late', r \notin behind'
                 PROVE  r \in ToSet(subscriptions') \union promised' \/ ends'[r] > 0
    BY DEF NothingForgotten
  <2>2. CASE r \in more
    BY <1>4, <2>2
  <2>3. CASE r \notin more
    <3>1. r \in given /\ r \notin late /\ r \notin behind /\ r \in Resources
      BY <1>1, <1>2, <2>1, <2>3
    <3>2. r \in ToSet(subscriptions) \union promised \/ ends[r] > 0
      BY <3>1 DEF TeardownInv, NothingForgotten
    <3>3. ends[r] \in Nat
      BY <3>1 DEF TeardownInv, TeardownTypeOK
    <3>4. ends[r] > 0 => ends'[r] > 0
      BY <1>3, <3>1, <3>3
    <3> QED
      BY <1>1, <1>4, <3>2, <3>4
  <2> QED
    BY <2>2, <2>3
<1> QED
  BY <1>6, <1>7, <1>8, <1>9, <1>10 DEF TeardownInv

\* The wait of an asyncDispose, and its end.
LEMMA AsyncDisposedKeeps ==
  ASSUME TeardownInv, NEW d \in Disposals, AsyncDisposed(d)
  PROVE  TeardownInv'
<1>1. /\ disposal[d] = "awaiting" /\ subscriptions' = <<>>
      /\ disposal' = [disposal EXCEPT ![d] = "done"]
      /\ UNCHANGED <<promised, awaited, ends, given, late, behind, repeated>>
  BY DEF AsyncDisposed
<1>2. <<>> \in Seq(given) /\ IsInjective(<<>>) /\ ToSet(<<>>) = {}
  BY ElementsOfNothing
<1>3. Disposing
  BY <1>1 DEF Disposing
<1>4. TeardownTypeOK'
  BY <1>1, <1>2 DEF TeardownInv, TeardownTypeOK
<1>5. PromisedApart' /\ AwaitedIsEnded' /\ UnendedYet' /\ EndedOnce'
  BY <1>1, <1>2 DEF TeardownInv, PromisedApart, AwaitedIsEnded, UnendedYet, EndedOnce
<1>6. NothingForgotten'
  BY <1>1, <1>2, <1>3 DEF TeardownInv, NothingForgotten, AwaitedIsEnded
<1> QED
  BY <1>4, <1>5, <1>6 DEF TeardownInv

\* The end of an asyncDispose, and what settles before it.
LEMMA WaitKeeps ==
  ASSUME TeardownInv, NEW d \in Disposals, NEW r \in Resources, EndSettles(d, r) \/ AsyncDisposeFails(d, r)
  PROVE  TeardownInv'
<1>1. /\ UNCHANGED <<subscriptions, promised, ends, given, late, behind>>
      /\ disposal[d] = "awaiting"
      /\ \/ disposal' = disposal /\ repeated' = repeated /\ awaited' = [awaited EXCEPT ![d] = @ \ {r}]
         \/ repeated' = TRUE /\ disposal' = [disposal EXCEPT ![d] = "failed"]
            /\ awaited' = [awaited EXCEPT ![d] = {}]
  BY DEF EndSettles, AsyncDisposeFails
<1>2. Disposing /\ (Disposing' => Disposing)
  BY <1>1 DEF Disposing
<1>3. TeardownTypeOK'
  BY <1>1 DEF TeardownInv, TeardownTypeOK
<1>4. PromisedApart' /\ AwaitedIsEnded' /\ NothingForgotten'
  BY <1>1, <1>2 DEF TeardownInv, PromisedApart, AwaitedIsEnded, NothingForgotten
<1>5. ~repeated' => ~repeated /\ disposal' = disposal
  BY <1>1
<1>6. UnendedYet' /\ EndedOnce'
  BY <1>1, <1>5 DEF TeardownInv, UnendedYet, EndedOnce, Disposing
<1> QED
  BY <1>3, <1>4, <1>6 DEF TeardownInv

\* Every step of the manager keeps the invariant.
LEMMA TeardownStep ==
  IsFiniteSet(Resources) /\ TeardownInv /\ [TeardownNext]_teardownVars => TeardownInv'
<1> SUFFICES ASSUME IsFiniteSet(Resources), TeardownInv, [TeardownNext]_teardownVars PROVE TeardownInv'
  OBVIOUS
<1>1. CASE UNCHANGED teardownVars
  BY <1>1 DEF teardownVars, TeardownInv, TeardownTypeOK, PromisedApart, AwaitedIsEnded, UnendedYet,
              NothingForgotten, EndedOnce, Disposing
<1> QED
  BY <1>1, GiveKeeps, PromiseKeeps, DisposeKeeps, AsyncDisposeKeeps, AsyncDisposedKeeps, WaitKeeps
     DEF TeardownNext

\* The invariant holds of a manager that was just made.
LEMMA TeardownInitInv == TeardownInit => TeardownInv
<1> SUFFICES ASSUME TeardownInit PROVE TeardownInv
  OBVIOUS
<1>1. <<>> \in Seq(given) /\ IsInjective(<<>>) /\ ToSet(<<>>) = {}
  BY ElementsOfNothing
<1>2. TeardownTypeOK
  BY <1>1 DEF TeardownInit, TeardownTypeOK
<1>3. ~Disposing
  BY DEF TeardownInit, Disposing
<1>4. PromisedApart /\ AwaitedIsEnded /\ NothingForgotten
  BY <1>3 DEF TeardownInit, PromisedApart, AwaitedIsEnded, NothingForgotten
<1>5. \A r \in Resources : ends[r] = 0
  BY DEF TeardownInit
<1>6. UnendedYet /\ EndedOnce
  BY <1>5 DEF UnendedYet, EndedOnce
<1> QED
  BY <1>2, <1>4, <1>6 DEF TeardownInv

\* What a manager was given is ended or still known to it, and is ended once
\* unless a disposal is repeated, whatever arrives late, throws or is given
\* while a disposal is under way (teardown-manager.ts:85-142).
THEOREM TeardownsEndOrKeep == TeardownSpec => []EndedOrKept
<1>1. TeardownInv => EndedOrKept
  BY DEF TeardownInv, EndedOrKept
<1> QED
  BY <1>1, TeardownAssumption, TeardownInitInv, TeardownStep, PTL DEF TeardownSpec

-----------------------------------------------------------------------------
EmitFrame == [kind : {"emit"}, number : 1..MaxEmissions, todo : Seq(Listeners)]
ReplayFrame == [kind : {"replay"}, who : Listeners, index : Nat, length : Nat]
AnyCall == EmitFrame \union ReplayFrame \union {Running}

\* The calls in progress, the listeners that run aside, and that each is there once.
LiveOf(s) == ToSet(s) \ {Running}
EachOnce(s) == \A f \in LiveOf(s) : AtMostOnce(s, f)
Live == LiveOf(calls)

\* The emissions among some calls that a listener is still to hear.
Awaited(S, l) == {f.number : f \in {g \in S : g.kind = "emit" /\ l \in ToSet(g.todo)}}

BufferHoldsLatest ==
  /\ buffer \in Seq(1..MaxEmissions)
  /\ Len(buffer) = IF emitted < BufferLength THEN emitted ELSE BufferLength
  /\ \A i \in 1..Len(buffer) : buffer[i] = emitted - Len(buffer) + i

ReplayTypes ==
  /\ emitted \in 0..MaxEmissions
  /\ registered \in Seq(Listeners) /\ IsInjective(registered)
  /\ calls \in Seq(AnyCall)
  /\ heard \in [Listeners -> Seq(1..MaxEmissions)]
  /\ onces \subseteq Listeners /\ disturbed \subseteq Listeners
  /\ first \in [Listeners -> 0..MaxEmissions]

\* The frames: each is there once, emissions have numbers of their own, a replay
\* is of a listener that no list holds yet.
FramesApart ==
  /\ EachOnce(calls)
  /\ \A f, g \in Live : f.kind = "emit" /\ g.kind = "emit" /\ f.number = g.number => f = g
  /\ \A f, g \in Live : f.kind = "replay" /\ g.kind = "replay" /\ f.who = g.who => f = g
  /\ \A f \in Live : f.kind = "emit" =>
       f.number <= emitted /\ IsInjective(f.todo) /\ \A l \in ToSet(f.todo) : first[l] # 0
  /\ \A f \in Live : f.kind = "replay" =>
       /\ first[f.who] # 0 /\ f.who \notin ToSet(registered)
       /\ f.index \in 1..f.length + 1 /\ f.length <= Len(buffer)
       /\ f.who \in onces => f.length = 0
       /\ \A g \in Live : g.kind = "emit" => f.who \notin ToSet(g.todo)

\* What was heard so far in a replay that no emission came across.
ReplaysInOrder ==
  \A f \in Live : f.kind = "replay" /\ f.who \notin disturbed =>
    /\ f.length = Len(buffer) /\ first[f.who] = emitted - f.length + 1
    /\ IsInjective(heard[f.who])
    /\ ToSet(heard[f.who]) = first[f.who]..(first[f.who] + f.index - 2)

\* Nothing is heard before a listener is added, or before it is emitted.
HeardSinceAdded ==
  /\ \A l \in Listeners : first[l] = 0 => heard[l] = <<>> /\ l \notin ToSet(registered) /\ l \notin onces
  /\ \A l \in Listeners : ToSet(heard[l]) \subseteq 1..emitted /\ first[l] <= emitted + 1

\* A once listener that was called is nowhere any more; before, it awaits one
\* emission at most.
OncesLeave ==
  \A l \in onces \ disturbed :
    /\ Len(heard[l]) <= 1
    /\ heard[l] # <<>> => /\ l \notin ToSet(registered) /\ Pending(l) = {}
                          /\ \A f \in Live : f.kind = "replay" => f.who # l
    /\ \A m, n \in Pending(l) : m = n

ReplayInv ==
  BufferHoldsLatest /\ ReplayTypes /\ FramesApart /\ ReplaysInOrder /\ HeardSinceAdded /\ OncesLeave /\ HearsEachOnce

\* A call in progress is of one of the three kinds.
LEMMA CallKinds ==
  ASSUME NEW f \in AnyCall
  PROVE  /\ f.kind = "emit" => f \in EmitFrame /\ f.number \in 1..MaxEmissions /\ f.todo \in Seq(Listeners)
         /\ f.kind = "replay" =>
              f \in ReplayFrame /\ f.who \in Listeners /\ f.index \in Nat /\ f.length \in Nat
         /\ f.kind = "listener" => f = Running
         /\ f.kind \in {"emit", "replay", "listener"}
         /\ f.kind # "listener" => f # Running
BY DEF AnyCall, EmitFrame, ReplayFrame, Running

\* The calls that are begun are of these kinds.
LEMMA CallsMade ==
  /\ \A n \in 1..MaxEmissions, ls \in Seq(Listeners) :
       /\ Emission(n, ls) \in AnyCall /\ Emission(n, ls) # Running
       /\ Emission(n, ls).kind = "emit" /\ Emission(n, ls).number = n /\ Emission(n, ls).todo = ls
  /\ \A l \in Listeners, i, n \in Nat :
       /\ Replaying(l, i, n) \in AnyCall /\ Replaying(l, i, n) # Running
       /\ Replaying(l, i, n).kind = "replay" /\ Replaying(l, i, n).who = l
       /\ Replaying(l, i, n).index = i /\ Replaying(l, i, n).length = n
  /\ Running \in AnyCall /\ Running.kind = "listener"
BY DEF AnyCall, EmitFrame, ReplayFrame, Running, Emission, Replaying

\* What an awaited emission is.
LEMMA AwaitedIs ==
  ASSUME NEW S, NEW l
  PROVE  \A n : n \in Awaited(S, l) <=> \E g \in S : g.kind = "emit" /\ l \in ToSet(g.todo) /\ g.number = n
BY DEF Awaited

\* A call that a listener makes stands on top of the others.
LEMMA CallPushed ==
  ASSUME NEW s \in Seq(AnyCall), NEW f \in AnyCall, EachOnce(s), f \notin LiveOf(s)
  PROVE  /\ Append(s, f) \in Seq(AnyCall) /\ EachOnce(Append(s, f))
         /\ f # Running => LiveOf(Append(s, f)) = LiveOf(s) \union {f}
         /\ f = Running => LiveOf(Append(s, f)) = LiveOf(s)
<1> DEFINE t == Append(s, f)
<1>1. /\ t \in Seq(AnyCall) /\ ToSet(t) = ToSet(s) \union {f}
      /\ \A x : x # f /\ AtMostOnce(s, x) => AtMostOnce(t, x)
      /\ f \notin ToSet(s) => AtMostOnce(t, f)
  BY AppendKeeps
<1> HIDE DEF t
<1>2. ASSUME NEW x \in LiveOf(t) PROVE AtMostOnce(t, x)
  <2>1. CASE x = f
    BY <1>1, <1>2, <2>1 DEF LiveOf
  <2>2. CASE x # f
    BY <1>1, <1>2, <2>2 DEF LiveOf, EachOnce
  <2> QED
    BY <2>1, <2>2
<1>3. EachOnce(t)
  BY <1>2 DEF EachOnce
<1>4. (f # Running => LiveOf(t) = LiveOf(s) \union {f}) /\ (f = Running => LiveOf(t) = LiveOf(s))
  BY <1>1 DEF LiveOf
<1> QED
  BY <1>1, <1>3, <1>4 DEF t

\* The call on top of the others returns.
LEMMA CallPopped ==
  ASSUME NEW s \in Seq(AnyCall), s # <<>>, EachOnce(s)
  PROVE  /\ Last(s) \in AnyCall /\ Last(s) \in ToSet(s)
         /\ Front(s) \in Seq(AnyCall) /\ EachOnce(Front(s))
         /\ LiveOf(Front(s)) = LiveOf(s) \ {Last(s)}
         /\ \A x : AtMostOnce(s, x) => AtMostOnce(Front(s), x)
<1> DEFINE t == Front(s)
<1>1. /\ Len(s) \in Nat /\ Len(s) >= 1 /\ s[Len(s)] \in AnyCall
      /\ t \in Seq(AnyCall) /\ Len(t) = Len(s) - 1
      /\ \A i \in 1..Len(s) - 1 : t[i] = s[i]
  BY FrontOf
<1> HIDE DEF t
<1>2. PICK n \in Nat : n = Len(s) /\ n >= 1
  BY <1>1
<1>3. Last(s) = s[n] /\ DOMAIN s = 1..n /\ DOMAIN t = 1..n - 1
  BY <1>1, <1>2, LenProperties DEF Last
<1>4. /\ \A x : x \in ToSet(s) <=> \E i \in 1..n : s[i] = x
      /\ \A x : x \in ToSet(t) <=> \E i \in 1..n - 1 : t[i] = x
  BY <1>1, <1>2, <1>3, ElementsOf
<1>5. \A x : x \in ToSet(t) <=> \E i \in 1..n - 1 : s[i] = x
  BY <1>1, <1>2, <1>4
<1>6. ASSUME NEW x, AtMostOnce(s, x) PROVE AtMostOnce(t, x)
  <2> SUFFICES ASSUME NEW i \in 1..n - 1, NEW j \in 1..n - 1, t[i] = x, t[j] = x PROVE i = j
    BY <1>3 DEF AtMostOnce
  <2>1. i \in 1..n /\ j \in 1..n /\ s[i] = x /\ s[j] = x
    BY <1>1, <1>2
  <2> QED
    BY <2>1, <1>6, <1>3 DEF AtMostOnce
<1>7. Last(s) \in ToSet(s) /\ ToSet(t) \subseteq ToSet(s) /\ ToSet(s) \subseteq ToSet(t) \union {Last(s)}
  <2>1. ASSUME NEW i \in 1..n, s[i] # s[n] PROVE i \in 1..n - 1
    BY <2>1, <1>2
  <2>2. ToSet(s) \subseteq ToSet(t) \union {Last(s)}
    BY <2>1, <1>3, <1>4, <1>5
  <2>3. ToSet(t) \subseteq ToSet(s)
    <3>1. \A i \in 1..n - 1 : i \in 1..n
      BY <1>2
    <3> QED
      BY <3>1, <1>4, <1>5
  <2>4. n \in 1..n
    BY <1>2
  <2> QED
    BY <2>2, <2>3, <2>4, <1>3, <1>4
<1>8. EachOnce(t)
  BY <1>6, <1>7 DEF EachOnce, LiveOf
<1>9. AtMostOnce(s, Last(s)) => Last(s) \notin ToSet(t)
  <2> SUFFICES ASSUME AtMostOnce(s, s[n]), s[n] \in ToSet(t) PROVE FALSE
    BY <1>3
  <2>1. PICK i \in 1..n - 1 : s[i] = s[n]
    BY <1>5
  <2>2. i \in 1..n /\ n \in 1..n /\ i # n
    BY <1>2
  <2> QED
    BY <2>1, <2>2, <1>3 DEF AtMostOnce
<1>10. LiveOf(t) = LiveOf(s) \ {Last(s)}
  BY <1>7, <1>9 DEF EachOnce, LiveOf
<1> QED
  BY <1>1, <1>2, <1>3, <1>6, <1>7, <1>8, <1>10 DEF t

\* The call on top goes on, with the listener that it calls above it.
LEMMA CallGoesOn ==
  ASSUME NEW s \in Seq(AnyCall), s # <<>>, EachOnce(s),
         NEW f \in AnyCall, f # Running, f \notin LiveOf(s) \ {Last(s)}
  PROVE  LET t == Front(s) \o <<f, Running>> IN
         /\ t \in Seq(AnyCall) /\ EachOnce(t)
         /\ LiveOf(t) = (LiveOf(s) \ {Last(s)}) \union {f}
<1> DEFINE r == Front(s)
           u == Append(r, f)
           t == r \o <<f, Running>>
<1>1. r \in Seq(AnyCall) /\ EachOnce(r) /\ LiveOf(r) = LiveOf(s) \ {Last(s)}
  BY CallPopped
<1>2. Running \in AnyCall
  BY CallsMade
<1> HIDE DEF r
<1>3. u \in Seq(AnyCall) /\ EachOnce(u) /\ LiveOf(u) = LiveOf(r) \union {f}
  BY <1>1, CallPushed
<1>4. t = Append(u, Running)
  <2>1. <<f, Running>> = <<f>> \o <<Running>>
    OBVIOUS
  <2> QED
    BY <1>1, <1>2, <2>1, AppendIsConcat, ConcatAssociative
<1> HIDE DEF u
<1>5. Running \notin LiveOf(u)
  BY DEF LiveOf
<1>6. Append(u, Running) \in Seq(AnyCall) /\ EachOnce(Append(u, Running)) /\ LiveOf(Append(u, Running)) = LiveOf(u)
  BY <1>2, <1>3, <1>5, CallPushed
<1> QED
  BY <1>1, <1>3, <1>4, <1>6 DEF r

\* What is counted.
LEMMA CountsAreNaturals ==
  /\ BufferLength \in Nat \ {0} /\ MaxEmissions \in Nat \ {0} /\ MaxNesting \in Nat \ {0}
  /\ ReplayTypes => emitted \in Nat /\ emitted <= MaxEmissions
<1>1. BufferLength \in Nat \ {0} /\ MaxEmissions \in Nat \ {0} /\ MaxNesting \in Nat \ {0}
  BY ReplayAssumption
<1> QED
  BY <1>1 DEF ReplayTypes

\* The oldest emission that the buffer holds is the one that addListener() counts
\* from.
LEMMA OldestKept ==
  ASSUME ReplayTypes, BufferHoldsLatest
  PROVE  /\ Max({1, emitted - BufferLength + 1}) = emitted - Len(buffer) + 1
         /\ Len(buffer) \in 0..emitted
<1> DEFINE b == emitted - BufferLength + 1
<1>1. PICK e \in Nat, k \in Nat \ {0} : e = emitted /\ k = BufferLength
  BY CountsAreNaturals DEF ReplayTypes
<1>2. b \in Int /\ b = e - k + 1
  BY <1>1
<1> HIDE DEF b
<1>3. Max({1, b}) = IF b >= 1 THEN b ELSE 1
  <2> DEFINE m == IF b >= 1 THEN b ELSE 1
  <2>1. m \in {1, b} /\ \A y \in {1, b} : m >= y
    BY <1>2
  <2>2. ASSUME NEW x \in {1, b}, \A y \in {1, b} : x >= y PROVE x = m
    BY <2>2, <1>2
  <2> HIDE DEF m
  <2>3. Max({1, b}) = m
    BY <2>1, <2>2 DEF Max
  <2> QED
    BY <2>3 DEF m
<1>4. Len(buffer) = IF e < k THEN e ELSE k
  BY <1>1 DEF BufferHoldsLatest
<1>5. /\ (IF b >= 1 THEN b ELSE 1) = e - (IF e < k THEN e ELSE k) + 1
      /\ (IF e < k THEN e ELSE k) \in 0..e
  BY <1>1, <1>2
<1> QED
  BY <1>1, <1>3, <1>4, <1>5 DEF b

\* Which emissions a listener awaits depends on the calls in progress only.
LEMMA PendingIsAwaited ==
  /\ \A l : Pending(l) = Awaited(Live, l)
  /\ \A l : Pending(l)' = Awaited(Live', l)
  /\ Frames("replay") = {f \in Live : f.kind = "replay"}
<1>1. ASSUME NEW s, NEW l
      PROVE  {f.number : f \in {g \in {h \in ToSet(s) : h.kind = "emit"} : l \in ToSet(g.todo)}} = Awaited(LiveOf(s), l)
  <2>1. Running.kind # "emit"
    BY DEF Running
  <2>2. {g \in {h \in ToSet(s) : h.kind = "emit"} : l \in ToSet(g.todo)}
          = {g \in LiveOf(s) : g.kind = "emit" /\ l \in ToSet(g.todo)}
    BY <2>1 DEF LiveOf
  <2> QED
    BY <2>2 DEF Awaited
<1>2. Frames("replay") = {f \in Live : f.kind = "replay"}
  BY DEF Frames, Live, LiveOf, Running
<1>3. \A l : Pending(l) = Awaited(Live, l)
  BY <1>1 DEF Pending, Frames, Live
<1>4. \A l : Pending(l)' = Awaited(Live', l)
  BY <1>1 DEF Pending, Frames, Live
<1> QED
  BY <1>2, <1>3, <1>4

\* The calls in progress are well typed.
LEMMA LiveKinds ==
  ASSUME ReplayTypes
  PROVE  \A f \in Live :
           /\ f \in AnyCall /\ f # Running /\ f.kind \in {"emit", "replay"}
           /\ f.kind = "emit" => f.number \in 1..MaxEmissions /\ f.todo \in Seq(Listeners)
           /\ f.kind = "replay" => f.who \in Listeners /\ f.index \in Nat /\ f.length \in Nat
<1>1. ToSet(calls) \subseteq AnyCall
  BY ElementsOf DEF ReplayTypes
<1> QED
  BY <1>1, CallKinds DEF Live, LiveOf

\* The buffer with one more emission, and without the oldest if it was full.
LEMMA BufferGrows ==
  ASSUME ReplayTypes, BufferHoldsLatest, EmitReplay
  PROVE  BufferHoldsLatest' /\ Len(buffer) <= Len(buffer')
<1> DEFINE b == Append(buffer, emitted + 1)
<1>1. PICK e \in Nat, k \in Nat \ {0}, n \in Nat :
        e = emitted /\ k = BufferLength /\ n = Len(buffer) /\ n = (IF e < k THEN e ELSE k)
  <2>1. emitted \in Nat /\ BufferLength \in Nat \ {0} /\ Len(buffer) \in Nat
    BY CountsAreNaturals, LenProperties DEF BufferHoldsLatest
  <2> QED
    BY <2>1 DEF BufferHoldsLatest
<1>2. e + 1 \in 1..MaxEmissions /\ e < MaxEmissions /\ MaxEmissions \in Nat
  BY <1>1, CountsAreNaturals DEF EmitReplay
<1>3. buffer \in Seq(1..MaxEmissions) /\ \A i \in 1..n : buffer[i] = e - n + i
  BY <1>1 DEF BufferHoldsLatest
<1>4. /\ b \in Seq(1..MaxEmissions) /\ Len(b) = n + 1 /\ b # <<>>
      /\ \A i \in 1..n : b[i] = buffer[i]
      /\ b[n + 1] = e + 1
  <2>1. b = Append(buffer, e + 1)
    BY <1>1
  <2>2. /\ Append(buffer, e + 1) \in Seq(1..MaxEmissions)
        /\ Len(Append(buffer, e + 1)) = Len(buffer) + 1
        /\ \A i \in 1..Len(buffer) : Append(buffer, e + 1)[i] = buffer[i]
        /\ Append(buffer, e + 1)[Len(buffer) + 1] = e + 1
    BY <1>2, <1>3, AppendProperties
  <2> HIDE DEF b
  <2>3. n + 1 # 0
    BY <1>1
  <2> QED
    BY <1>1, <2>1, <2>2, <2>3, EmptySeq
<1>5. buffer' = (IF n + 1 > k THEN Tail(b) ELSE b) /\ emitted' = e + 1
  BY <1>1, <1>4 DEF EmitReplay, Keep
<1> HIDE DEF b
<1>6. \A i \in 1..n + 1 : b[i] = e - n + i
  <2> SUFFICES ASSUME NEW i \in 1..n + 1 PROVE b[i] = e - n + i
    OBVIOUS
  <2>1. i \in 1..n \/ i = n + 1
    BY <1>1
  <2> QED
    BY <2>1, <1>1, <1>3, <1>4
<1>7. CASE n + 1 > k
  <2>1. n = k /\ ~(e < k) /\ ~(e + 1 < k)
    BY <1>1, <1>7
  <2>2. Tail(b) \in Seq(1..MaxEmissions) /\ Len(Tail(b)) = n /\ \A i \in 1..n : Tail(b)[i] = b[i + 1]
    BY <1>1, <1>4, HeadTailProperties
  <2>3. \A i \in 1..n : i + 1 \in 1..n + 1
    BY <1>1
  <2>4. \A i \in 1..n : Tail(b)[i] = e - n + (i + 1)
    BY <2>2, <2>3, <1>6
  <2>5. \A i \in 1..n : e - n + (i + 1) = (e + 1) - n + i
    BY <1>1
  <2>6. buffer' = Tail(b) /\ Len(buffer') = n /\ emitted' = e + 1
    BY <2>2, <1>5, <1>7
  <2>7. \A i \in 1..Len(buffer') : buffer'[i] = emitted' - Len(buffer') + i
    BY <2>2, <2>4, <2>5, <2>6
  <2>8. Len(buffer') = (IF emitted' < BufferLength THEN emitted' ELSE BufferLength)
    BY <2>1, <2>6, <1>1
  <2>9. Len(buffer) <= Len(buffer')
    BY <2>6, <1>1
  <2> QED
    BY <2>2, <2>6, <2>7, <2>8, <2>9 DEF BufferHoldsLatest
<1>8. CASE ~(n + 1 > k)
  <2>1. n = e /\ e < k /\ n + 1 = (IF e + 1 < k THEN e + 1 ELSE k)
    BY <1>1, <1>8
  <2>2. \A i \in 1..n + 1 : e - n + i = (e + 1) - (n + 1) + i
    BY <1>1
  <2>3. buffer' = b
    BY <1>5, <1>8
  <2>4. \A i \in 1..Len(buffer') : buffer'[i] = emitted' - Len(buffer') + i
    BY <2>2, <2>3, <1>4, <1>5, <1>6
  <2>5. Len(buffer') = (IF emitted' < BufferLength THEN emitted' ELSE BufferLength)
    BY <2>1, <2>3, <1>1, <1>4, <1>5
  <2>6. Len(buffer) <= Len(buffer')
    BY <2>3, <1>1, <1>4
  <2> QED
    BY <2>3, <2>4, <2>5, <2>6, <1>4 DEF BufferHoldsLatest
<1> QED
  BY <1>7, <1>8

\* An emission begins: the replays in progress do not see it, and the once
\* listeners that another emission was to reach are reached twice.
LEMMA EmitReplayKeeps == ReplayInv /\ EmitReplay => ReplayInv'
<1> SUFFICES ASSUME ReplayInv, EmitReplay PROVE ReplayInv'
  OBVIOUS
<1> DEFINE f0 == Emission(emitted', registered)
<1>1. ReplayTypes /\ BufferHoldsLatest /\ FramesApart /\ HeardSinceAdded /\ OncesLeave /\ HearsEachOnce
  BY DEF ReplayInv
<1>2. /\ emitted' = emitted + 1 /\ emitted \in Nat /\ emitted' \in 1..MaxEmissions
      /\ calls' = Append(calls, f0) /\ UNCHANGED <<registered, heard, onces, first>>
      /\ registered \in Seq(Listeners) /\ calls \in Seq(AnyCall)
  BY <1>1, CountsAreNaturals DEF EmitReplay, ReplayTypes
<1>3. f0 \in AnyCall /\ f0 # Running /\ f0.kind = "emit" /\ f0.number = emitted' /\ f0.todo = registered
  BY <1>2, CallsMade
<1> HIDE DEF f0
<1>4. \A f \in Live : f.kind = "emit" => f.number <= emitted /\ f.number \in Nat /\ f.number # emitted'
  <2>1. \A f \in Live : f.kind = "emit" => f.number <= emitted /\ f.number \in 1..MaxEmissions
    BY <1>1, LiveKinds DEF FramesApart
  <2> QED
    BY <2>1, <1>2
<1>5. f0 \notin Live
  BY <1>3, <1>4
<1>6. calls' \in Seq(AnyCall) /\ EachOnce(calls') /\ Live' = Live \union {f0}
  <2>1. EachOnce(calls)
    BY <1>1 DEF FramesApart
  <2> QED
    BY <2>1, <1>2, <1>3, <1>5, CallPushed DEF Live
<1>7. \A l : Pending(l)' = IF l \in ToSet(registered) THEN Pending(l) \union {emitted'} ELSE Pending(l)
  <2> SUFFICES ASSUME NEW l, NEW n
               PROVE  n \in Awaited(Live', l) <=> n \in Awaited(Live, l) \/ (l \in ToSet(registered) /\ n = emitted')
    BY PendingIsAwaited
  <2> QED
    BY <1>3, <1>6, AwaitedIs
<1>8. /\ disturbed \subseteq disturbed' /\ disturbed' \subseteq Listeners
      /\ \A f \in Live : f.kind = "replay" => f.who \in disturbed'
      /\ \A l \in onces \ disturbed' : Pending(l) = {}
  BY <1>1, LiveKinds, PendingIsAwaited DEF EmitReplay, ReplayTypes
<1>9. BufferHoldsLatest' /\ ReplayTypes' /\ Len(buffer) <= Len(buffer') /\ Len(buffer) \in Nat /\ Len(buffer') \in Nat
  <2>1. BufferHoldsLatest' /\ Len(buffer) <= Len(buffer')
    BY <1>1, BufferGrows
  <2>2. ReplayTypes'
    BY <1>1, <1>2, <1>6, <1>8 DEF ReplayTypes
  <2> QED
    BY <2>1, <2>2, <1>1, LenProperties DEF BufferHoldsLatest
<1>10. FramesApart'
  <2>1. \A f, g \in Live' : f.kind = "emit" /\ g.kind = "emit" /\ f.number = g.number => f = g
    BY <1>1, <1>3, <1>4, <1>6 DEF FramesApart
  <2>2. \A f, g \in Live' : f.kind = "replay" /\ g.kind = "replay" /\ f.who = g.who => f = g
    BY <1>1, <1>3, <1>6 DEF FramesApart
  <2>3. ASSUME NEW f \in Live', f.kind = "emit"
        PROVE  f.number <= emitted' /\ IsInjective(f.todo) /\ \A l \in ToSet(f.todo) : first'[l] # 0
    <3>1. CASE f = f0
      <4>1. \A l \in ToSet(registered) : l \in Listeners /\ first[l] # 0
        BY <1>1, <1>2, ElementsOf DEF HeardSinceAdded
      <4>2. IsInjective(registered)
        BY <1>1 DEF ReplayTypes
      <4> QED
        BY <4>1, <4>2, <3>1, <1>2, <1>3
    <3>2. CASE f \in Live
      BY <1>1, <1>2, <1>4, <2>3, <3>2 DEF FramesApart
    <3> QED
      BY <3>1, <3>2, <1>6
  <2>4. ASSUME NEW f \in Live', f.kind = "replay"
        PROVE  /\ first'[f.who] # 0 /\ f.who \notin ToSet(registered')
               /\ f.index \in 1..f.length + 1 /\ f.length <= Len(buffer')
               /\ f.who \in onces' => f.length = 0
               /\ \A g \in Live' : g.kind = "emit" => f.who \notin ToSet(g.todo)
    <3>1. f \in Live
      BY <2>4, <1>3, <1>6
    <3>2. /\ first[f.who] # 0 /\ f.who \notin ToSet(registered)
          /\ f.index \in 1..f.length + 1 /\ f.length <= Len(buffer) /\ f.length \in Nat
          /\ f.who \in onces => f.length = 0
          /\ \A g \in Live : g.kind = "emit" => f.who \notin ToSet(g.todo)
      BY <1>1, <2>4, <3>1, LiveKinds DEF FramesApart
    <3>3. f.length <= Len(buffer')
      BY <3>2, <1>9
    <3> QED
      BY <3>2, <3>3, <1>2, <1>3, <1>6
  <2> QED
    BY <2>1, <2>2, <2>3, <2>4, <1>6 DEF FramesApart
<1>11. ReplaysInOrder'
  BY <1>3, <1>6, <1>8 DEF ReplaysInOrder
<1>12. HeardSinceAdded'
  <2>1. ASSUME NEW l \in Listeners PROVE ToSet(heard'[l]) \subseteq 1..emitted' /\ first'[l] <= emitted' + 1
    <3>1. ToSet(heard[l]) \subseteq 1..emitted /\ first[l] <= emitted + 1 /\ first[l] \in Nat
      BY <1>1 DEF HeardSinceAdded, ReplayTypes
    <3>2. 1..emitted \subseteq 1..emitted' /\ emitted + 1 <= emitted' + 1
      BY <1>2
    <3>3. first[l] <= emitted' + 1
      BY <3>1, <1>2
    <3> QED
      BY <3>1, <3>2, <3>3, <1>2
  <2> QED
    BY <2>1, <1>1, <1>2 DEF HeardSinceAdded
<1>13. OncesLeave'
  <2> SUFFICES ASSUME NEW l \in onces' \ disturbed'
               PROVE  /\ Len(heard'[l]) <= 1
                      /\ heard'[l] # <<>> => /\ l \notin ToSet(registered') /\ Pending(l)' = {}
                                             /\ \A f \in Live' : f.kind = "replay" => f.who # l
                      /\ \A m, n \in Pending(l)' : m = n
    BY DEF OncesLeave
  <2>1. l \in onces \ disturbed /\ Pending(l) = {}
    BY <1>2, <1>8
  <2>2. /\ Len(heard[l]) <= 1
        /\ heard[l] # <<>> => /\ l \notin ToSet(registered)
                              /\ \A f \in Live : f.kind = "replay" => f.who # l
    BY <1>1, <2>1 DEF OncesLeave
  <2>3. \A m, n \in Pending(l)' : m = n
    BY <2>1, <1>7
  <2>4. l \notin ToSet(registered) => Pending(l)' = {}
    BY <2>1, <1>7
  <2> QED
    BY <2>2, <2>3, <2>4, <1>2, <1>3, <1>6
<1>14. HearsEachOnce'
  <2> SUFFICES ASSUME NEW l \in ToSet(registered) \ (onces \union disturbed)
               PROVE  /\ ToSet(heard[l]) \union Pending(l)' = first[l]..emitted'
                      /\ ToSet(heard[l]) \intersect Pending(l)' = {}
                      /\ IsInjective(heard[l])
    BY <1>2, <1>8 DEF HearsEachOnce
  <2>1. /\ ToSet(heard[l]) \union Pending(l) = first[l]..emitted
        /\ ToSet(heard[l]) \intersect Pending(l) = {}
        /\ IsInjective(heard[l])
    BY <1>1 DEF HearsEachOnce
  <2>2. l \in Listeners
    BY <1>2, ElementsOf
  <2>3. ToSet(heard[l]) \subseteq 1..emitted /\ first[l] <= emitted + 1 /\ first[l] \in Nat
    BY <2>2, <1>1 DEF HeardSinceAdded, ReplayTypes
  <2>4. emitted' \notin ToSet(heard[l])
    BY <2>3, <1>2
  <2>5. first[l]..emitted' = (first[l]..emitted) \union {emitted'}
    BY <2>3, <1>2
  <2>6. Pending(l)' = Pending(l) \union {emitted'}
    BY <1>7
  <2> QED
    BY <2>1, <2>4, <2>5, <2>6
<1> QED
  BY <1>9, <1>10, <1>11, <1>12, <1>13, <1>14 DEF ReplayInv

\* The call on top is one of those in progress.
LEMMA TopIsLive ==
  ASSUME ReplayTypes, EachOnce(calls), NEW kind \in {"emit", "replay"}, OnTop(kind)
  PROVE  /\ calls # <<>> /\ calls \in Seq(AnyCall)
         /\ Last(calls) \in Live /\ Last(calls).kind = kind
<1>1. calls # <<>> /\ calls \in Seq(AnyCall) /\ Last(calls).kind = kind
  BY DEF OnTop, ReplayTypes
<1>2. Last(calls) \in ToSet(calls) /\ Last(calls) # Running
  BY <1>1, CallPopped, CallsMade
<1> QED
  BY <1>1, <1>2 DEF Live, LiveOf

\* A listener hears the emission that it was to hear, and one that wanted to hear
\* one is registered no more.
LEMMA CallListenerKeeps == ReplayInv /\ CallListener => ReplayInv'
<1> SUFFICES ASSUME ReplayInv, CallListener PROVE ReplayInv'
  OBVIOUS
<1> DEFINE f0 == Last(calls)
           l0 == Head(f0.todo)
           n0 == f0.number
           f1 == Emission(n0, Tail(f0.todo))
<1>1. /\ ReplayTypes /\ BufferHoldsLatest /\ FramesApart /\ ReplaysInOrder
      /\ HeardSinceAdded /\ OncesLeave /\ HearsEachOnce /\ EachOnce(calls)
  BY DEF ReplayInv, FramesApart
<1>2. /\ f0 \in Live /\ f0.kind = "emit" /\ f0.todo # <<>> /\ calls \in Seq(AnyCall) /\ calls # <<>>
      /\ n0 \in 1..MaxEmissions /\ f0.todo \in Seq(Listeners)
      /\ n0 <= emitted /\ IsInjective(f0.todo) /\ \A l \in ToSet(f0.todo) : first[l] # 0
  <2>1. f0 \in Live /\ f0.kind = "emit" /\ calls \in Seq(AnyCall) /\ calls # <<>> /\ f0.todo # <<>>
    BY <1>1, TopIsLive DEF CallListener
  <2> QED
    BY <2>1, <1>1, LiveKinds DEF FramesApart
<1>3. /\ heard' = [heard EXCEPT ![l0] = Append(@, n0)]
      /\ registered' = IF l0 \in onces THEN RemoveFirst(registered, l0) ELSE registered
      /\ calls' = Front(calls) \o <<f1, Running>>
      /\ UNCHANGED <<buffer, onces, emitted, first, disturbed>>
  BY DEF CallListener, Hears
<1>4. /\ l0 \in Listeners /\ Tail(f0.todo) \in Seq(Listeners)
      /\ ToSet(f0.todo) = {l0} \union ToSet(Tail(f0.todo))
      /\ IsInjective(Tail(f0.todo)) /\ l0 \notin ToSet(Tail(f0.todo))
  BY <1>2, ElementsOfTail
<1>5. f1 \in AnyCall /\ f1 # Running /\ f1.kind = "emit" /\ f1.number = n0 /\ f1.todo = Tail(f0.todo)
  <2>1. n0 \in 1..MaxEmissions /\ Tail(f0.todo) \in Seq(Listeners)
    BY <1>2, <1>4
  <2>2. PICK n \in 1..MaxEmissions, ls \in Seq(Listeners) : n = n0 /\ ls = Tail(f0.todo)
    BY <2>1
  <2>3. f1 = Emission(n, ls)
    BY <2>2
  <2>4. /\ Emission(n, ls) \in AnyCall /\ Emission(n, ls) # Running
        /\ Emission(n, ls).kind = "emit" /\ Emission(n, ls).number = n /\ Emission(n, ls).todo = ls
    BY CallsMade
  <2> HIDE DEF f1
  <2> QED
    BY <2>2, <2>3, <2>4
<1> HIDE DEF f1, l0, n0, f0
<1>6. n0 = f0.number /\ f0 = Last(calls)
  BY DEF n0, f0
<1>7. \A g \in Live : g.kind = "emit" /\ g.number = n0 => g = f0
  BY <1>1, <1>2, <1>6 DEF FramesApart
<1>8. f1 \notin Live \ {f0}
  BY <1>5, <1>7
<1>9. calls' \in Seq(AnyCall) /\ EachOnce(calls') /\ Live' = (Live \ {f0}) \union {f1}
  <2>1. /\ Front(calls) \o <<f1, Running>> \in Seq(AnyCall) /\ EachOnce(Front(calls) \o <<f1, Running>>)
        /\ LiveOf(Front(calls) \o <<f1, Running>>) = (LiveOf(calls) \ {Last(calls)}) \union {f1}
    BY <1>1, <1>2, <1>5, <1>6, <1>8, CallGoesOn DEF Live
  <2> QED
    BY <2>1, <1>3, <1>6 DEF Live
<1>10. n0 \in Pending(l0) /\ \A l : Pending(l)' = IF l = l0 THEN Pending(l) \ {n0} ELSE Pending(l)
  <2>1. n0 \in Awaited(Live, l0)
    BY <1>2, <1>4, <1>6, AwaitedIs
  <2>2. ASSUME NEW l, NEW n
        PROVE  n \in Awaited(Live', l) <=> n \in Awaited(Live, l) /\ ~(l = l0 /\ n = n0)
    <3>1. ASSUME NEW g \in Live', g.kind = "emit", l \in ToSet(g.todo), g.number = n
          PROVE  n \in Awaited(Live, l) /\ ~(l = l0 /\ n = n0)
      <4>1. CASE g = f1
        BY <3>1, <4>1, <1>2, <1>4, <1>5, <1>6, AwaitedIs
      <4>2. CASE g \in Live \ {f0}
        BY <3>1, <4>2, <1>7, AwaitedIs
      <4> QED
        BY <4>1, <4>2, <1>9
    <3>2. ASSUME NEW g \in Live, g.kind = "emit", l \in ToSet(g.todo), g.number = n, ~(l = l0 /\ n = n0)
          PROVE  n \in Awaited(Live', l)
      <4>1. CASE g = f0
        BY <3>2, <4>1, <1>4, <1>5, <1>6, <1>9, AwaitedIs
      <4>2. CASE g # f0
        BY <3>2, <4>2, <1>9, AwaitedIs
      <4> QED
        BY <4>1, <4>2
    <3> QED
      BY <3>1, <3>2, AwaitedIs
  <2>3. \A l : Awaited(Live', l) = IF l = l0 THEN Awaited(Live, l) \ {n0} ELSE Awaited(Live, l)
    BY <2>2
  <2> QED
    BY <2>1, <2>3, PendingIsAwaited
<1>11. /\ registered' \in Seq(Listeners) /\ IsInjective(registered')
       /\ ToSet(registered') = IF l0 \in onces THEN ToSet(registered) \ {l0} ELSE ToSet(registered)
  BY <1>1, <1>3, ElementsOfRemoveFirst DEF ReplayTypes
<1>12. /\ heard' \in [Listeners -> Seq(1..MaxEmissions)]
       /\ heard'[l0] = Append(heard[l0], n0) /\ ToSet(heard'[l0]) = ToSet(heard[l0]) \union {n0}
       /\ heard[l0] \in Seq(1..MaxEmissions)
       /\ IsInjective(heard[l0]) /\ n0 \notin ToSet(heard[l0]) => IsInjective(heard'[l0])
       /\ \A l \in Listeners : l # l0 => heard'[l] = heard[l]
  <2>1. heard \in [Listeners -> Seq(1..MaxEmissions)]
    BY <1>1 DEF ReplayTypes
  <2>2. heard[l0] \in Seq(1..MaxEmissions)
    BY <2>1, <1>4
  <2>3. /\ Append(heard[l0], n0) \in Seq(1..MaxEmissions)
        /\ ToSet(Append(heard[l0], n0)) = ToSet(heard[l0]) \union {n0}
        /\ IsInjective(heard[l0]) /\ n0 \notin ToSet(heard[l0]) => IsInjective(Append(heard[l0], n0))
    <3>1. n0 \in 1..MaxEmissions
      BY <1>2
    <3>2. Append(heard[l0], n0) \in Seq(1..MaxEmissions)
      BY <2>2, <3>1, AppendProperties
    <3>3. PICK S : S = 1..MaxEmissions
      OBVIOUS
    <3>4. PICK h \in Seq(S), n \in S : h = heard[l0] /\ n = n0
      BY <2>2, <3>1, <3>3
    <3>5. ToSet(Append(h, n)) = ToSet(h) \union {n}
      BY ElementsOfAppend
    <3>6. IsInjective(h) /\ n \notin ToSet(h) => IsInjective(Append(h, n))
      BY ElementsOfAppend
    <3> QED
      BY <3>2, <3>4, <3>5, <3>6
  <2> QED
    BY <2>1, <2>2, <2>3, <1>3, <1>4
<1>13. \A f \in Live' : f.kind = "replay" => f \in Live /\ f.who # l0 /\ f.who \in Listeners
  BY <1>1, <1>2, <1>4, <1>5, <1>9, LiveKinds DEF FramesApart
<1>14. BufferHoldsLatest' /\ ReplayTypes'
  BY <1>1, <1>3, <1>9, <1>11, <1>12 DEF BufferHoldsLatest, ReplayTypes
<1>15. FramesApart'
  <2>1. \A f, g \in Live' : f.kind = "emit" /\ g.kind = "emit" /\ f.number = g.number => f = g
    BY <1>1, <1>5, <1>7, <1>9 DEF FramesApart
  <2>2. \A f, g \in Live' : f.kind = "replay" /\ g.kind = "replay" /\ f.who = g.who => f = g
    BY <1>1, <1>13 DEF FramesApart
  <2>3. ASSUME NEW f \in Live', f.kind = "emit"
        PROVE  f.number <= emitted' /\ IsInjective(f.todo) /\ \A l \in ToSet(f.todo) : first'[l] # 0
    <3>1. CASE f = f1
      BY <3>1, <1>2, <1>3, <1>4, <1>5
    <3>2. CASE f \in Live
      BY <1>1, <1>3, <2>3, <3>2 DEF FramesApart
    <3> QED
      BY <3>1, <3>2, <1>9
  <2>4. ASSUME NEW f \in Live', f.kind = "replay"
        PROVE  /\ first'[f.who] # 0 /\ f.who \notin ToSet(registered')
               /\ f.index \in 1..f.length + 1 /\ f.length <= Len(buffer')
               /\ f.who \in onces' => f.length = 0
               /\ \A g \in Live' : g.kind = "emit" => f.who \notin ToSet(g.todo)
    <3>1. /\ first[f.who] # 0 /\ f.who \notin ToSet(registered)
          /\ f.index \in 1..f.length + 1 /\ f.length <= Len(buffer)
          /\ f.who \in onces => f.length = 0
          /\ \A g \in Live : g.kind = "emit" => f.who \notin ToSet(g.todo)
      BY <1>1, <2>4, <1>13 DEF FramesApart
    <3>2. \A g \in Live' : g.kind = "emit" => f.who \notin ToSet(g.todo)
      BY <3>1, <1>2, <1>4, <1>5, <1>9
    <3> QED
      BY <3>1, <3>2, <1>3, <1>11
  <2> QED
    BY <2>1, <2>2, <2>3, <2>4, <1>9 DEF FramesApart
<1>16. ReplaysInOrder'
  BY <1>1, <1>3, <1>12, <1>13 DEF ReplaysInOrder
<1>17. HeardSinceAdded'
  <2>1. first[l0] # 0
    BY <1>2, <1>4
  <2>2. n0 \in 1..emitted
    BY <1>1, <1>2, CountsAreNaturals
  <2>3. ASSUME NEW l \in Listeners
        PROVE  /\ first'[l] = 0 => heard'[l] = <<>> /\ l \notin ToSet(registered') /\ l \notin onces'
               /\ ToSet(heard'[l]) \subseteq 1..emitted' /\ first'[l] <= emitted' + 1
    <3>1. /\ first[l] = 0 => heard[l] = <<>> /\ l \notin ToSet(registered) /\ l \notin onces
          /\ ToSet(heard[l]) \subseteq 1..emitted /\ first[l] <= emitted + 1
      BY <1>1 DEF HeardSinceAdded
    <3> QED
      BY <3>1, <2>1, <2>2, <1>3, <1>11, <1>12
  <2> QED
    BY <2>3 DEF HeardSinceAdded
<1>18. OncesLeave'
  <2> SUFFICES ASSUME NEW l \in onces \ disturbed
               PROVE  /\ Len(heard'[l]) <= 1
                      /\ heard'[l] # <<>> => /\ l \notin ToSet(registered') /\ Pending(l)' = {}
                                             /\ \A f \in Live' : f.kind = "replay" => f.who # l
                      /\ \A m, n \in Pending(l)' : m = n
    BY <1>3 DEF OncesLeave
  <2>1. /\ Len(heard[l]) <= 1
        /\ heard[l] # <<>> => /\ l \notin ToSet(registered) /\ Pending(l) = {}
                              /\ \A f \in Live : f.kind = "replay" => f.who # l
        /\ \A m, n \in Pending(l) : m = n
    BY <1>1 DEF OncesLeave
  <2>2. l \in Listeners
    BY <1>1 DEF ReplayTypes
  <2>3. CASE l = l0
    <3>1. heard[l0] = <<>>
      BY <2>1, <2>3, <1>10
    <3>2. Len(heard'[l0]) = 1
      BY <3>1, <1>2, <1>12
    <3>3. l \notin ToSet(registered')
      BY <2>3, <1>11
    <3>4. Pending(l)' = {}
      BY <2>1, <2>3, <1>10
    <3>5. \A f \in Live' : f.kind = "replay" => f.who # l
      BY <2>3, <1>13
    <3>6. Len(heard'[l]) <= 1
      BY <2>3, <3>2
    <3> QED
      BY <3>3, <3>4, <3>5, <3>6
  <2>4. CASE l # l0
    BY <2>1, <2>2, <2>4, <1>10, <1>11, <1>12, <1>13
  <2> QED
    BY <2>3, <2>4
<1>19. HearsEachOnce'
  <2> SUFFICES ASSUME NEW l \in ToSet(registered') \ (onces \union disturbed)
               PROVE  /\ ToSet(heard'[l]) \union Pending(l)' = first[l]..emitted
                      /\ ToSet(heard'[l]) \intersect Pending(l)' = {}
                      /\ IsInjective(heard'[l])
    BY <1>3 DEF HearsEachOnce
  <2>1. l \in ToSet(registered) /\ l \in Listeners
    BY <1>1, <1>11, ElementsOf DEF ReplayTypes
  <2>2. /\ ToSet(heard[l]) \union Pending(l) = first[l]..emitted
        /\ ToSet(heard[l]) \intersect Pending(l) = {}
        /\ IsInjective(heard[l])
    BY <1>1, <2>1 DEF HearsEachOnce
  <2>3. CASE l = l0
    <3>1. n0 \notin ToSet(heard[l0])
      BY <2>2, <2>3, <1>10
    <3>2. ToSet(heard'[l]) = ToSet(heard[l]) \union {n0} /\ Pending(l)' = Pending(l) \ {n0} /\ n0 \in Pending(l)
      BY <2>3, <1>10, <1>12
    <3>3. IsInjective(heard'[l])
      BY <3>1, <2>2, <2>3, <1>12
    <3> QED
      BY <3>1, <3>2, <3>3, <2>2, <2>3
  <2>4. CASE l # l0
    BY <2>1, <2>2, <2>4, <1>10, <1>12
  <2> QED
    BY <2>3, <2>4
<1> QED
  BY <1>14, <1>15, <1>16, <1>17, <1>18, <1>19 DEF ReplayInv

\* With fewer calls in progress and fewer listeners, nothing changes for those
\* that stay.
LEMMA FewerKeep ==
  ASSUME ReplayInv, UNCHANGED <<buffer, heard, onces, emitted, first>>,
         calls' \in Seq(AnyCall), EachOnce(calls'), Live' \subseteq Live,
         registered' \in Seq(Listeners), IsInjective(registered'), ToSet(registered') \subseteq ToSet(registered),
         disturbed \subseteq disturbed', disturbed' \subseteq Listeners,
         \A l : Pending(l)' \subseteq Pending(l),
         \A l \in ToSet(registered') \ disturbed' : Pending(l)' = Pending(l)
  PROVE  ReplayInv'
<1>1. /\ ReplayTypes /\ BufferHoldsLatest /\ FramesApart /\ ReplaysInOrder
      /\ HeardSinceAdded /\ OncesLeave /\ HearsEachOnce
  BY DEF ReplayInv
<1>2. BufferHoldsLatest' /\ ReplayTypes'
  BY <1>1 DEF BufferHoldsLatest, ReplayTypes
<1>3. FramesApart'
  <2>1. \A f, g \in Live' : f.kind = "emit" /\ g.kind = "emit" /\ f.number = g.number => f = g
    BY <1>1 DEF FramesApart
  <2>2. \A f, g \in Live' : f.kind = "replay" /\ g.kind = "replay" /\ f.who = g.who => f = g
    BY <1>1 DEF FramesApart
  <2>3. \A f \in Live' : f.kind = "emit" =>
          f.number <= emitted' /\ IsInjective(f.todo) /\ \A l \in ToSet(f.todo) : first'[l] # 0
    BY <1>1 DEF FramesApart
  <2>4. ASSUME NEW f \in Live', f.kind = "replay"
        PROVE  /\ first'[f.who] # 0 /\ f.who \notin ToSet(registered')
               /\ f.index \in 1..f.length + 1 /\ f.length <= Len(buffer')
               /\ f.who \in onces' => f.length = 0
               /\ \A g \in Live' : g.kind = "emit" => f.who \notin ToSet(g.todo)
    BY <1>1, <2>4 DEF FramesApart
  <2> QED
    BY <2>1, <2>2, <2>3, <2>4 DEF FramesApart
<1>4. ReplaysInOrder'
  BY <1>1 DEF ReplaysInOrder
<1>5. HeardSinceAdded'
  BY <1>1 DEF HeardSinceAdded
<1>6. OncesLeave'
  <2> SUFFICES ASSUME NEW l \in onces \ disturbed'
               PROVE  /\ Len(heard[l]) <= 1
                      /\ heard[l] # <<>> => /\ l \notin ToSet(registered') /\ Pending(l)' = {}
                                            /\ \A f \in Live' : f.kind = "replay" => f.who # l
                      /\ \A m, n \in Pending(l)' : m = n
    BY DEF OncesLeave
  <2>1. Pending(l)' \subseteq Pending(l)
    OBVIOUS
  <2>2. /\ Len(heard[l]) <= 1
        /\ heard[l] # <<>> => /\ l \notin ToSet(registered) /\ Pending(l) = {}
                              /\ \A f \in Live : f.kind = "replay" => f.who # l
        /\ \A m, n \in Pending(l) : m = n
    BY <1>1 DEF OncesLeave
  <2> QED
    BY <2>1, <2>2
<1>7. HearsEachOnce'
  <2> SUFFICES ASSUME NEW l \in ToSet(registered') \ (onces \union disturbed')
               PROVE  /\ ToSet(heard[l]) \union Pending(l)' = first[l]..emitted
                      /\ ToSet(heard[l]) \intersect Pending(l)' = {}
                      /\ IsInjective(heard[l])
    BY DEF HearsEachOnce
  <2>1. Pending(l)' = Pending(l) /\ l \in ToSet(registered) \ (onces \union disturbed)
    OBVIOUS
  <2> QED
    BY <1>1, <2>1 DEF HearsEachOnce
<1> QED
  BY <1>2, <1>3, <1>4, <1>5, <1>6, <1>7 DEF ReplayInv

\* An emission has called all its listeners, or a listener returns.
LEMMA ReturnKeeps ==
  ASSUME ReplayInv, EmitDone \/ ReplayListenerReturns
  PROVE  ReplayInv'
<1>1. ReplayTypes /\ EachOnce(calls) /\ calls \in Seq(AnyCall)
  BY DEF ReplayInv, FramesApart, ReplayTypes
<1>2. /\ calls # <<>> /\ calls' = Front(calls)
      /\ UNCHANGED <<buffer, registered, heard, onces, emitted, first, disturbed>>
  BY DEF EmitDone, ReplayListenerReturns, OnTop
<1>3. calls' \in Seq(AnyCall) /\ EachOnce(calls') /\ Live' = Live \ {Last(calls)} /\ Last(calls) \in AnyCall
  BY <1>1, <1>2, CallPopped DEF Live
<1>4. Last(calls).kind = "emit" => Last(calls).todo = <<>>
  BY DEF EmitDone, ReplayListenerReturns, OnTop
<1>5. ToSet(<<>>) = {}
  BY ElementsOfNothing
<1>6. \A l : Pending(l)' = Pending(l)
  <2> SUFFICES ASSUME NEW l PROVE Awaited(Live', l) = Awaited(Live, l)
    BY PendingIsAwaited
  <2>1. {g \in Live' : g.kind = "emit" /\ l \in ToSet(g.todo)} = {g \in Live : g.kind = "emit" /\ l \in ToSet(g.todo)}
    BY <1>3, <1>4, <1>5
  <2> QED
    BY <2>1 DEF Awaited
<1>7. registered \in Seq(Listeners) /\ IsInjective(registered) /\ disturbed \subseteq Listeners
  BY <1>1 DEF ReplayTypes
<1>8. Live' \subseteq Live
  BY <1>3
<1>9. ToSet(registered') \subseteq ToSet(registered) /\ registered' \in Seq(Listeners) /\ IsInjective(registered')
  BY <1>2, <1>7
<1> QED
  BY <1>2, <1>3, <1>6, <1>7, <1>8, <1>9, FewerKeep

\* An exception ends all calls in progress.
LEMMA ThrowKeeps == ReplayInv /\ ReplayListenerThrows => ReplayInv'
<1> SUFFICES ASSUME ReplayInv, ReplayListenerThrows PROVE ReplayInv'
  OBVIOUS
<1>1. ReplayTypes
  BY DEF ReplayInv
<1>2. /\ calls' = <<>> /\ disturbed' = disturbed \union {l \in Listeners : Pending(l) # {}}
      /\ UNCHANGED <<buffer, registered, heard, onces, emitted, first>>
  BY DEF ReplayListenerThrows
<1>3. calls' \in Seq(AnyCall) /\ LiveOf(<<>>) = {}
  BY <1>2, ElementsOfNothing DEF LiveOf
<1>4. Live' = {} /\ EachOnce(calls')
  BY <1>2, <1>3 DEF Live, EachOnce
<1>5. \A l : Pending(l)' = {}
  BY <1>4, PendingIsAwaited DEF Awaited
<1>6. registered \in Seq(Listeners) /\ IsInjective(registered) /\ disturbed \subseteq Listeners
  BY <1>1 DEF ReplayTypes
<1>7. disturbed \subseteq disturbed' /\ disturbed' \subseteq Listeners
  BY <1>2, <1>6
<1>8. \A l \in ToSet(registered') \ disturbed' : Pending(l)' = Pending(l)
  <2>1. ToSet(registered') \subseteq Listeners
    BY <1>2, <1>6, ElementsOf
  <2> QED
    BY <2>1, <1>2, <1>5
<1>9. ToSet(registered') \subseteq ToSet(registered) /\ registered' \in Seq(Listeners) /\ IsInjective(registered')
  BY <1>2, <1>6
<1>10. \A l : Pending(l)' \subseteq Pending(l)
  BY <1>5
<1> QED
  BY <1>2, <1>3, <1>4, <1>7, <1>8, <1>9, <1>10, FewerKeep

\* A listener leaves.
LEMMA StopListeningKeeps ==
  ASSUME ReplayInv, NEW l \in Listeners, StopListening(l)
  PROVE  ReplayInv'
<1>1. ReplayTypes /\ EachOnce(calls) /\ calls \in Seq(AnyCall)
  BY DEF ReplayInv, FramesApart, ReplayTypes
<1>2. /\ registered' = RemoveFirst(registered, l)
      /\ UNCHANGED <<buffer, calls, heard, onces, emitted, first, disturbed>>
  BY DEF StopListening
<1>3. registered \in Seq(Listeners) /\ IsInjective(registered) /\ disturbed \subseteq Listeners
  BY <1>1 DEF ReplayTypes
<1>4. registered' \in Seq(Listeners) /\ IsInjective(registered') /\ ToSet(registered') \subseteq ToSet(registered)
  BY <1>2, <1>3, ElementsOfRemoveFirst
<1>5. Live' = Live /\ calls' \in Seq(AnyCall) /\ EachOnce(calls')
  BY <1>1, <1>2 DEF Live
<1>6. \A k : Pending(k)' = Pending(k)
  BY <1>5, PendingIsAwaited
<1> QED
  BY <1>2, <1>3, <1>4, <1>5, <1>6, FewerKeep

\* A replay gives its listener the next emission of the buffer, which is the next
\* one if none was made meanwhile.
LEMMA ReplayOneKeeps == ReplayInv /\ ReplayOne => ReplayInv'
<1> SUFFICES ASSUME ReplayInv, ReplayOne PROVE ReplayInv'
  OBVIOUS
<1> DEFINE f0 == Last(calls)
           l0 == f0.who
           n0 == buffer[f0.index]
           f1 == Replaying(l0, f0.index + 1, f0.length)
<1>1. /\ ReplayTypes /\ BufferHoldsLatest /\ FramesApart /\ ReplaysInOrder
      /\ HeardSinceAdded /\ OncesLeave /\ HearsEachOnce /\ EachOnce(calls)
  BY DEF ReplayInv, FramesApart
<1>2. /\ f0 \in Live /\ f0.kind = "replay" /\ calls \in Seq(AnyCall) /\ calls # <<>>
      /\ l0 \in Listeners /\ f0.length \in Nat /\ f0.index \in Nat
      /\ first[l0] # 0 /\ l0 \notin ToSet(registered) /\ f0.index \in 1..f0.length + 1 /\ f0.length <= Len(buffer)
      /\ l0 \in onces => f0.length = 0
      /\ \A g \in Live : g.kind = "emit" => l0 \notin ToSet(g.todo)
  <2>1. f0 \in Live /\ f0.kind = "replay" /\ calls \in Seq(AnyCall) /\ calls # <<>>
    BY <1>1, TopIsLive DEF ReplayOne
  <2>2. l0 \in Listeners /\ f0.length \in Nat /\ f0.index \in Nat
    BY <1>1, <2>1, LiveKinds
  <2> QED
    BY <2>1, <2>2, <1>1 DEF FramesApart
<1>3. /\ f0.index <= f0.length
      /\ heard' = [heard EXCEPT ![l0] = Append(@, n0)]
      /\ calls' = Front(calls) \o <<f1, Running>>
      /\ UNCHANGED <<buffer, registered, onces, emitted, first, disturbed>>
  BY DEF ReplayOne, Hears
<1>4. PICK i \in Nat, k \in Nat : i = f0.index /\ k = f0.length /\ i \in 1..k /\ k <= Len(buffer)
  BY <1>2, <1>3
<1>5. f1 \in AnyCall /\ f1 # Running /\ f1.kind = "replay" /\ f1.who = l0 /\ f1.index = i + 1 /\ f1.length = k
  <2>1. PICK l \in Listeners : l = l0
    BY <1>2
  <2>2. i + 1 \in Nat /\ f1 = Replaying(l, i + 1, k)
    BY <1>4, <2>1
  <2>3. PICK j \in Nat : j = i + 1
    BY <2>2
  <2>4. /\ Replaying(l, j, k) \in AnyCall /\ Replaying(l, j, k) # Running
        /\ Replaying(l, j, k).kind = "replay" /\ Replaying(l, j, k).who = l
        /\ Replaying(l, j, k).index = j /\ Replaying(l, j, k).length = k
    BY CallsMade
  <2> HIDE DEF f1
  <2> QED
    BY <2>1, <2>2, <2>3, <2>4
<1>6. l0 = f0.who /\ f0 = Last(calls)
  OBVIOUS
<1>7. n0 \in 1..MaxEmissions /\ n0 = emitted - Len(buffer) + i /\ Len(buffer) \in 0..emitted
  <2>1. Len(buffer) \in 0..emitted
    BY <1>1, OldestKept
  <2>2. i \in 1..Len(buffer)
    BY <1>4, <2>1
  <2> QED
    BY <2>1, <2>2, <1>1, <1>4, ElementsOf DEF BufferHoldsLatest
<1> HIDE DEF f1, l0, n0, f0
<1>8. \A g \in Live : g.kind = "replay" /\ g.who = l0 => g = f0
  BY <1>1, <1>2, <1>6 DEF FramesApart
<1>9. f1 \notin Live \ {f0}
  BY <1>5, <1>8
<1>10. calls' \in Seq(AnyCall) /\ EachOnce(calls') /\ Live' = (Live \ {f0}) \union {f1}
  <2>1. /\ Front(calls) \o <<f1, Running>> \in Seq(AnyCall) /\ EachOnce(Front(calls) \o <<f1, Running>>)
        /\ LiveOf(Front(calls) \o <<f1, Running>>) = (LiveOf(calls) \ {Last(calls)}) \union {f1}
    BY <1>1, <1>2, <1>5, <1>6, <1>9, CallGoesOn DEF Live
  <2> QED
    BY <2>1, <1>3, <1>6 DEF Live
<1>11. l0 \notin onces
  BY <1>2, <1>4
<1>12. \A f \in Live' : f.kind = "emit" => f \in Live
  BY <1>5, <1>10
<1>13. \A l : Pending(l)' = Pending(l)
  <2> SUFFICES ASSUME NEW l PROVE Awaited(Live', l) = Awaited(Live, l)
    BY PendingIsAwaited
  <2>1. {g \in Live' : g.kind = "emit" /\ l \in ToSet(g.todo)} = {g \in Live : g.kind = "emit" /\ l \in ToSet(g.todo)}
    BY <1>2, <1>5, <1>10
  <2> QED
    BY <2>1 DEF Awaited
<1>14. /\ heard' \in [Listeners -> Seq(1..MaxEmissions)]
       /\ ToSet(heard'[l0]) = ToSet(heard[l0]) \union {n0}
       /\ IsInjective(heard[l0]) /\ n0 \notin ToSet(heard[l0]) => IsInjective(heard'[l0])
       /\ \A l \in Listeners : l # l0 => heard'[l] = heard[l]
  <2>1. heard \in [Listeners -> Seq(1..MaxEmissions)]
    BY <1>1 DEF ReplayTypes
  <2>2. PICK S : S = 1..MaxEmissions
    OBVIOUS
  <2>3. PICK h \in Seq(S), n \in S : h = heard[l0] /\ n = n0
    BY <2>1, <2>2, <1>2, <1>7
  <2>4. ToSet(Append(h, n)) = ToSet(h) \union {n}
    BY ElementsOfAppend
  <2>5. IsInjective(h) /\ n \notin ToSet(h) => IsInjective(Append(h, n))
    BY ElementsOfAppend
  <2>6. Append(h, n) \in Seq(S)
    BY AppendProperties
  <2>7. heard'[l0] = Append(h, n) /\ \A l \in Listeners : l # l0 => heard'[l] = heard[l]
    BY <2>1, <2>3, <1>2, <1>3
  <2>8. heard' \in [Listeners -> Seq(1..MaxEmissions)]
    BY <2>1, <2>2, <2>3, <2>6, <1>3
  <2> QED
    BY <2>3, <2>4, <2>5, <2>7, <2>8
<1>15. BufferHoldsLatest' /\ ReplayTypes'
  BY <1>1, <1>3, <1>10, <1>14 DEF BufferHoldsLatest, ReplayTypes
<1>16. FramesApart'
  <2>1. \A f, g \in Live' : f.kind = "emit" /\ g.kind = "emit" /\ f.number = g.number => f = g
    BY <1>1, <1>12 DEF FramesApart
  <2>2. \A f, g \in Live' : f.kind = "replay" /\ g.kind = "replay" /\ f.who = g.who => f = g
    BY <1>1, <1>5, <1>8, <1>10 DEF FramesApart
  <2>3. \A f \in Live' : f.kind = "emit" =>
          f.number <= emitted' /\ IsInjective(f.todo) /\ \A l \in ToSet(f.todo) : first'[l] # 0
    BY <1>1, <1>3, <1>12 DEF FramesApart
  <2>4. ASSUME NEW f \in Live', f.kind = "replay"
        PROVE  /\ first'[f.who] # 0 /\ f.who \notin ToSet(registered')
               /\ f.index \in 1..f.length + 1 /\ f.length <= Len(buffer')
               /\ f.who \in onces' => f.length = 0
               /\ \A g \in Live' : g.kind = "emit" => f.who \notin ToSet(g.todo)
    <3>1. CASE f = f1
      <4>1. f.index \in 1..f.length + 1
        BY <3>1, <1>4, <1>5
      <4> QED
        BY <4>1, <3>1, <1>2, <1>3, <1>4, <1>5, <1>11, <1>12
    <3>2. CASE f \in Live
      <4>1. /\ first[f.who] # 0 /\ f.who \notin ToSet(registered)
            /\ f.index \in 1..f.length + 1 /\ f.length <= Len(buffer)
            /\ f.who \in onces => f.length = 0
            /\ \A g \in Live : g.kind = "emit" => f.who \notin ToSet(g.todo)
        BY <1>1, <2>4, <3>2 DEF FramesApart
      <4> QED
        BY <4>1, <1>3, <1>12
    <3> QED
      BY <3>1, <3>2, <1>10
  <2> QED
    BY <2>1, <2>2, <2>3, <2>4, <1>10 DEF FramesApart
<1>17. ReplaysInOrder'
  <2> SUFFICES ASSUME NEW f \in Live', f.kind = "replay", f.who \notin disturbed
               PROVE  /\ f.length = Len(buffer) /\ first[f.who] = emitted - f.length + 1
                      /\ IsInjective(heard'[f.who])
                      /\ ToSet(heard'[f.who]) = first[f.who]..(first[f.who] + f.index - 2)
    BY <1>3 DEF ReplaysInOrder
  <2>1. CASE f = f1
    <3>1. /\ k = Len(buffer) /\ first[l0] = emitted - k + 1
          /\ IsInjective(heard[l0])
          /\ ToSet(heard[l0]) = first[l0]..(first[l0] + i - 2)
      BY <1>1, <1>2, <1>4, <1>5, <1>6, <2>1 DEF ReplaysInOrder
    <3>2. PICK e \in Nat, a \in Nat : e = emitted /\ a = first[l0]
      <4>1. emitted \in Nat /\ first \in [Listeners -> 0..MaxEmissions]
        BY <1>1, CountsAreNaturals DEF ReplayTypes
      <4>2. first[l0] \in Nat
        BY <4>1, <1>2
      <4> QED
        BY <4>1, <4>2
    <3>3. a = e - k + 1 /\ n0 = e - k + i
      BY <3>1, <3>2, <1>7
    <3>4. n0 = a + i - 1
      BY <3>3, <1>4
    <3>5. n0 \notin a..(a + i - 2) /\ (a..(a + i - 2)) \union {n0} = a..(a + (i + 1) - 2)
      BY <3>4, <1>4
    <3> QED
      BY <3>1, <3>2, <3>5, <1>5, <1>14, <2>1
  <2>2. CASE f \in Live \ {f0}
    <3>1. f.who # l0 /\ f.who \in Listeners
      BY <1>1, <1>8, <2>2, LiveKinds
    <3> QED
      BY <3>1, <2>2, <1>1, <1>14 DEF ReplaysInOrder
  <2> QED
    BY <2>1, <2>2, <1>10
<1>18. HeardSinceAdded'
  <2>1. n0 \in 1..emitted
    <3>1. PICK e \in Nat, n \in Nat : e = emitted /\ n = Len(buffer) /\ n <= e
      BY <1>1, <1>7, CountsAreNaturals
    <3> QED
      BY <3>1, <1>4, <1>7
  <2>2. ASSUME NEW l \in Listeners
        PROVE  /\ first'[l] = 0 => heard'[l] = <<>> /\ l \notin ToSet(registered') /\ l \notin onces'
               /\ ToSet(heard'[l]) \subseteq 1..emitted' /\ first'[l] <= emitted' + 1
    <3>1. /\ first[l] = 0 => heard[l] = <<>> /\ l \notin ToSet(registered) /\ l \notin onces
          /\ ToSet(heard[l]) \subseteq 1..emitted /\ first[l] <= emitted + 1
      BY <1>1 DEF HeardSinceAdded
    <3> QED
      BY <3>1, <2>1, <1>2, <1>3, <1>14
  <2> QED
    BY <2>2 DEF HeardSinceAdded
<1>19. OncesLeave'
  <2> SUFFICES ASSUME NEW l \in onces \ disturbed
               PROVE  /\ Len(heard'[l]) <= 1
                      /\ heard'[l] # <<>> => /\ l \notin ToSet(registered) /\ Pending(l) = {}
                                             /\ \A f \in Live' : f.kind = "replay" => f.who # l
                      /\ \A m, n \in Pending(l) : m = n
    BY <1>3, <1>13 DEF OncesLeave
  <2>1. l # l0 /\ l \in Listeners
    BY <1>1, <1>11 DEF ReplayTypes
  <2> QED
    BY <2>1, <1>1, <1>5, <1>10, <1>14 DEF OncesLeave
<1>20. HearsEachOnce'
  <2> SUFFICES ASSUME NEW l \in ToSet(registered) \ (onces \union disturbed)
               PROVE  /\ ToSet(heard'[l]) \union Pending(l) = first[l]..emitted
                      /\ ToSet(heard'[l]) \intersect Pending(l) = {}
                      /\ IsInjective(heard'[l])
    BY <1>3, <1>13 DEF HearsEachOnce
  <2>1. l # l0 /\ l \in Listeners
    BY <1>1, <1>2, ElementsOf DEF ReplayTypes
  <2> QED
    BY <2>1, <1>1, <1>14 DEF HearsEachOnce
<1> QED
  BY <1>15, <1>16, <1>17, <1>18, <1>19, <1>20 DEF ReplayInv

\* The replay is over, and its listener has heard all there was: it is registered.
LEMMA RegisterReplayedKeeps == ReplayInv /\ RegisterReplayed => ReplayInv'
<1> SUFFICES ASSUME ReplayInv, RegisterReplayed PROVE ReplayInv'
  OBVIOUS
<1> DEFINE f0 == Last(calls)
           l0 == f0.who
<1>1. /\ ReplayTypes /\ BufferHoldsLatest /\ FramesApart /\ ReplaysInOrder
      /\ HeardSinceAdded /\ OncesLeave /\ HearsEachOnce /\ EachOnce(calls)
  BY DEF ReplayInv, FramesApart
<1>2. /\ f0 \in Live /\ f0.kind = "replay" /\ calls \in Seq(AnyCall) /\ calls # <<>>
      /\ l0 \in Listeners /\ f0.length \in Nat /\ f0.index \in Nat
      /\ first[l0] # 0 /\ l0 \notin ToSet(registered) /\ f0.index \in 1..f0.length + 1
      /\ \A g \in Live : g.kind = "emit" => l0 \notin ToSet(g.todo)
  <2>1. f0 \in Live /\ f0.kind = "replay" /\ calls \in Seq(AnyCall) /\ calls # <<>>
    BY <1>1, TopIsLive DEF RegisterReplayed
  <2>2. l0 \in Listeners /\ f0.length \in Nat /\ f0.index \in Nat
    BY <1>1, <2>1, LiveKinds
  <2> QED
    BY <2>1, <2>2, <1>1 DEF FramesApart
<1>3. /\ f0.index > f0.length /\ calls' = Front(calls)
      /\ registered' = Append(registered, l0)
      /\ UNCHANGED <<buffer, heard, onces, emitted, first, disturbed>>
  BY DEF RegisterReplayed
<1>4. l0 = f0.who /\ f0 = Last(calls)
  OBVIOUS
<1> HIDE DEF l0, f0
<1>5. calls' \in Seq(AnyCall) /\ EachOnce(calls') /\ Live' = Live \ {f0}
  BY <1>1, <1>2, <1>3, <1>4, CallPopped DEF Live
<1>6. \A g \in Live' : g.kind = "replay" => g.who # l0
  BY <1>1, <1>2, <1>4, <1>5 DEF FramesApart
<1>7. \A l : Pending(l)' = Pending(l)
  <2> SUFFICES ASSUME NEW l PROVE Awaited(Live', l) = Awaited(Live, l)
    BY PendingIsAwaited
  <2>1. {g \in Live' : g.kind = "emit" /\ l \in ToSet(g.todo)} = {g \in Live : g.kind = "emit" /\ l \in ToSet(g.todo)}
    BY <1>2, <1>5
  <2> QED
    BY <2>1 DEF Awaited
<1>8. Pending(l0) = {}
  <2>1. \A n : n \notin Awaited(Live, l0)
    BY <1>2, AwaitedIs
  <2> QED
    BY <2>1, PendingIsAwaited
<1>9. registered' \in Seq(Listeners) /\ IsInjective(registered') /\ ToSet(registered') = ToSet(registered) \union {l0}
  <2>1. registered \in Seq(Listeners) /\ IsInjective(registered)
    BY <1>1 DEF ReplayTypes
  <2>2. Append(registered, l0) \in Seq(Listeners)
    BY <2>1, <1>2, AppendProperties
  <2> QED
    BY <2>1, <2>2, <1>2, <1>3, ElementsOfAppend
<1>10. BufferHoldsLatest' /\ ReplayTypes'
  BY <1>1, <1>3, <1>5, <1>9 DEF BufferHoldsLatest, ReplayTypes
<1>11. FramesApart'
  <2>1. \A f, g \in Live' : f.kind = "emit" /\ g.kind = "emit" /\ f.number = g.number => f = g
    BY <1>1, <1>5 DEF FramesApart
  <2>2. \A f, g \in Live' : f.kind = "replay" /\ g.kind = "replay" /\ f.who = g.who => f = g
    BY <1>1, <1>5 DEF FramesApart
  <2>3. \A f \in Live' : f.kind = "emit" =>
          f.number <= emitted' /\ IsInjective(f.todo) /\ \A l \in ToSet(f.todo) : first'[l] # 0
    BY <1>1, <1>3, <1>5 DEF FramesApart
  <2>4. ASSUME NEW f \in Live', f.kind = "replay"
        PROVE  /\ first'[f.who] # 0 /\ f.who \notin ToSet(registered')
               /\ f.index \in 1..f.length + 1 /\ f.length <= Len(buffer')
               /\ f.who \in onces' => f.length = 0
               /\ \A g \in Live' : g.kind = "emit" => f.who \notin ToSet(g.todo)
    <3>1. /\ first[f.who] # 0 /\ f.who \notin ToSet(registered)
          /\ f.index \in 1..f.length + 1 /\ f.length <= Len(buffer)
          /\ f.who \in onces => f.length = 0
          /\ \A g \in Live : g.kind = "emit" => f.who \notin ToSet(g.todo)
      BY <1>1, <1>5, <2>4 DEF FramesApart
    <3> QED
      BY <3>1, <2>4, <1>3, <1>5, <1>6, <1>9
  <2> QED
    BY <2>1, <2>2, <2>3, <2>4, <1>5 DEF FramesApart
<1>12. ReplaysInOrder'
  BY <1>1, <1>3, <1>5 DEF ReplaysInOrder
<1>13. HeardSinceAdded'
  BY <1>1, <1>2, <1>3, <1>9 DEF HeardSinceAdded
<1>14. OncesLeave'
  <2> SUFFICES ASSUME NEW l \in onces \ disturbed
               PROVE  /\ Len(heard[l]) <= 1
                      /\ heard[l] # <<>> => /\ l \notin ToSet(registered') /\ Pending(l) = {}
                                            /\ \A f \in Live' : f.kind = "replay" => f.who # l
                      /\ \A m, n \in Pending(l) : m = n
    BY <1>3, <1>7 DEF OncesLeave
  <2>1. /\ Len(heard[l]) <= 1
        /\ heard[l] # <<>> => /\ l \notin ToSet(registered) /\ Pending(l) = {}
                              /\ \A f \in Live : f.kind = "replay" => f.who # l
        /\ \A m, n \in Pending(l) : m = n
    BY <1>1 DEF OncesLeave
  <2>2. heard[l] # <<>> => l # l0
    BY <2>1, <1>2, <1>4
  <2> QED
    BY <2>1, <2>2, <1>5, <1>9
<1>15. HearsEachOnce'
  <2> SUFFICES ASSUME NEW l \in ToSet(registered') \ (onces \union disturbed)
               PROVE  /\ ToSet(heard[l]) \union Pending(l) = first[l]..emitted
                      /\ ToSet(heard[l]) \intersect Pending(l) = {}
                      /\ IsInjective(heard[l])
    BY <1>3, <1>7 DEF HearsEachOnce
  <2>1. CASE l = l0
    <3>1. /\ f0.length = Len(buffer) /\ first[l0] = emitted - f0.length + 1
          /\ IsInjective(heard[l0])
          /\ ToSet(heard[l0]) = first[l0]..(first[l0] + f0.index - 2)
      BY <2>1, <1>1, <1>2, <1>4 DEF ReplaysInOrder
    <3>2. PICK e \in Nat, i \in Nat, k \in Nat, a \in Nat :
            e = emitted /\ i = f0.index /\ k = f0.length /\ a = first[l0]
      <4>1. emitted \in Nat /\ first \in [Listeners -> 0..MaxEmissions]
        BY <1>1, CountsAreNaturals DEF ReplayTypes
      <4>2. first[l0] \in Nat
        BY <4>1, <1>2
      <4> QED
        BY <4>1, <4>2, <1>2
    <3>3. i = k + 1 /\ a = e - k + 1
      BY <3>1, <3>2, <1>2, <1>3
    <3>4. a + i - 2 = e
      BY <3>3
    <3>5. ToSet(heard[l0]) = first[l0]..emitted
      BY <3>1, <3>2, <3>4
    <3> QED
      BY <3>1, <3>5, <2>1, <1>8
  <2>2. CASE l # l0
    BY <2>2, <1>1, <1>9 DEF HearsEachOnce
  <2> QED
    BY <2>1, <2>2
<1> QED
  BY <1>10, <1>11, <1>12, <1>13, <1>14, <1>15 DEF ReplayInv

\* A listener is added: one that wants a single emission gets the oldest of the
\* buffer and is not registered, for any other a replay begins.
LEMMA AddToReplayKeeps ==
  ASSUME ReplayInv, NEW l0 \in Listeners, NEW once \in BOOLEAN, AddToReplay(l0, once)
  PROVE  ReplayInv'
<1> DEFINE served == once /\ buffer # <<>>
           f1 == Replaying(l0, 1, Len(buffer))
<1>1. /\ ReplayTypes /\ BufferHoldsLatest /\ FramesApart /\ ReplaysInOrder
      /\ HeardSinceAdded /\ OncesLeave /\ HearsEachOnce /\ EachOnce(calls)
  BY DEF ReplayInv, FramesApart
<1>2. /\ first[l0] = 0 /\ onces' = IF once THEN onces \union {l0} ELSE onces
      /\ first' = [first EXCEPT ![l0] = Max({1, emitted - BufferLength + 1})]
      /\ served => /\ heard' = [heard EXCEPT ![l0] = Append(@, Head(buffer))]
                  /\ calls' = Append(calls, Running)
      /\ ~served => heard' = heard /\ calls' = Append(calls, f1)
      /\ UNCHANGED <<buffer, registered, emitted, disturbed>>
  BY DEF AddToReplay, Hears
<1>3. /\ heard[l0] = <<>> /\ l0 \notin ToSet(registered) /\ l0 \notin onces
      /\ calls \in Seq(AnyCall) /\ onces \subseteq Listeners /\ registered \in Seq(Listeners)
      /\ heard \in [Listeners -> Seq(1..MaxEmissions)] /\ first \in [Listeners -> 0..MaxEmissions]
  BY <1>1, <1>2 DEF HeardSinceAdded, ReplayTypes
<1>4. PICK e \in Nat, n \in Nat :
        e = emitted /\ n = Len(buffer) /\ n <= e /\ e <= MaxEmissions /\ (buffer = <<>> <=> n = 0)
      /\ Max({1, emitted - BufferLength + 1}) = e - n + 1
      /\ n <= BufferLength /\ (e < BufferLength => n = e) /\ (~(e < BufferLength) => n = BufferLength)
  <2>1. /\ emitted \in Nat /\ emitted <= MaxEmissions /\ BufferLength \in Nat \ {0}
        /\ Max({1, emitted - BufferLength + 1}) = emitted - Len(buffer) + 1
        /\ Len(buffer) \in 0..emitted
    BY <1>1, CountsAreNaturals, OldestKept
  <2>2. /\ Len(buffer) \in Nat /\ (buffer = <<>> <=> Len(buffer) = 0)
        /\ Len(buffer) = IF emitted < BufferLength THEN emitted ELSE BufferLength
    BY <1>1, LenProperties, EmptySeq DEF BufferHoldsLatest
  <2> QED
    BY <2>1, <2>2
<1>5. MaxEmissions \in Nat \ {0} /\ BufferLength \in Nat \ {0}
  BY CountsAreNaturals
<1>6. PICK a \in 1..MaxEmissions : a = e - n + 1
  BY <1>4, <1>5
<1>7. /\ first' \in [Listeners -> 0..MaxEmissions] /\ first'[l0] = a /\ a # 0 /\ a <= e + 1
      /\ \A l \in Listeners : l # l0 => first'[l] = first[l]
  BY <1>2, <1>3, <1>4, <1>6
<1>8. /\ f1 \in AnyCall /\ f1 # Running /\ f1.kind = "replay" /\ f1.who = l0 /\ f1.index = 1 /\ f1.length = n
  <2>1. /\ Replaying(l0, 1, n) \in AnyCall /\ Replaying(l0, 1, n) # Running
        /\ Replaying(l0, 1, n).kind = "replay" /\ Replaying(l0, 1, n).who = l0
        /\ Replaying(l0, 1, n).index = 1 /\ Replaying(l0, 1, n).length = n
    BY CallsMade
  <2> QED
    BY <2>1, <1>4
<1>9. \A f \in Live : /\ f.kind = "replay" => f.who # l0 /\ f.who \in Listeners
                      /\ f.kind = "emit" => l0 \notin ToSet(f.todo)
  BY <1>1, <1>2, LiveKinds DEF FramesApart
<1>10. f1 \notin Live
  BY <1>8, <1>9
<1> HIDE DEF f1
<1>11. /\ calls' \in Seq(AnyCall) /\ EachOnce(calls')
       /\ served => Live' = Live
       /\ ~served => Live' = Live \union {f1}
  <2>1. CASE served
    <3>1. Running \in AnyCall /\ Running \notin LiveOf(calls)
      BY CallsMade DEF LiveOf
    <3>2. /\ Append(calls, Running) \in Seq(AnyCall) /\ EachOnce(Append(calls, Running))
          /\ LiveOf(Append(calls, Running)) = LiveOf(calls)
      BY <1>1, <1>3, <3>1, CallPushed
    <3> QED
      BY <3>2, <2>1, <1>2 DEF Live
  <2>2. CASE ~served
    <3>1. /\ Append(calls, f1) \in Seq(AnyCall) /\ EachOnce(Append(calls, f1))
          /\ LiveOf(Append(calls, f1)) = LiveOf(calls) \union {f1}
      BY <1>1, <1>3, <1>8, <1>10, CallPushed DEF Live
    <3> QED
      BY <3>1, <2>2, <1>2 DEF Live
  <2> QED
    BY <2>1, <2>2
<1>12. /\ \A f \in Live' : f.kind = "emit" => f \in Live
       /\ \A f \in Live' : f.kind = "replay" => f \in Live \/ (f = f1 /\ ~served)
       /\ Live \subseteq Live'
  BY <1>8, <1>11
<1>13. \A l : Pending(l)' = Pending(l)
  <2> SUFFICES ASSUME NEW l PROVE Awaited(Live', l) = Awaited(Live, l)
    BY PendingIsAwaited
  <2>1. {g \in Live' : g.kind = "emit" /\ l \in ToSet(g.todo)} = {g \in Live : g.kind = "emit" /\ l \in ToSet(g.todo)}
    BY <1>12
  <2> QED
    BY <2>1 DEF Awaited
<1>14. Pending(l0) = {}
  <2>1. \A m : m \notin Awaited(Live, l0)
    BY <1>9, AwaitedIs
  <2> QED
    BY <2>1, PendingIsAwaited
<1>15. /\ heard' \in [Listeners -> Seq(1..MaxEmissions)]
       /\ \A l \in Listeners : l # l0 => heard'[l] = heard[l]
       /\ ToSet(heard'[l0]) \subseteq 1..emitted /\ Len(heard'[l0]) <= 1
       /\ ~served => heard'[l0] = <<>>
  <2>1. ToSet(<<>>) = {} /\ Len(<<>>) = 0
    BY ElementsOfNothing
  <2>2. CASE served
    <3>1. n # 0 /\ buffer \in Seq(1..MaxEmissions) /\ buffer # <<>>
      BY <2>2, <1>1, <1>4 DEF BufferHoldsLatest
    <3>2. Head(buffer) = buffer[1] /\ 1 \in 1..Len(buffer)
      BY <3>1, <1>4
    <3>3. buffer[1] = emitted - Len(buffer) + 1
      BY <3>2, <1>1 DEF BufferHoldsLatest
    <3>4. PICK h \in 1..MaxEmissions : h = Head(buffer) /\ h <= e
      BY <3>1, <3>2, <3>3, <1>4, <1>6
    <3>5. h \in 1..emitted
      BY <3>4, <1>4
    <3>6. PICK S : S = 1..MaxEmissions
      OBVIOUS
    <3>7. <<>> \in Seq(S) /\ h \in S
      BY <3>6
    <3>8. /\ ToSet(Append(<<>>, h)) = {h} /\ Append(<<>>, h) \in Seq(S) /\ Len(Append(<<>>, h)) = 1
      <4>1. Append(<<>>, h) = <<h>>
        OBVIOUS
      <4>2. ToSet(<<h>>) = {h}
        BY ElementsOfNothing
      <4>3. <<h>> \in Seq(S) /\ Len(<<h>>) = 1
        BY <3>7
      <4> QED
        BY <4>1, <4>2, <4>3
    <3>9. heard'[l0] = Append(<<>>, h) /\ \A l \in Listeners : l # l0 => heard'[l] = heard[l]
      BY <2>2, <3>4, <1>2, <1>3
    <3>10. heard' \in [Listeners -> Seq(1..MaxEmissions)]
      <4>1. Append(heard[l0], Head(buffer)) \in Seq(1..MaxEmissions)
        BY <3>4, <3>6, <3>8, <1>3
      <4> QED
        BY <4>1, <2>2, <1>2, <1>3
    <3> QED
      BY <2>2, <3>5, <3>8, <3>9, <3>10
  <2>3. CASE ~served
    BY <2>1, <2>3, <1>2, <1>3
  <2> QED
    BY <2>2, <2>3
<1>16. BufferHoldsLatest' /\ ReplayTypes'
  BY <1>1, <1>2, <1>3, <1>7, <1>11, <1>15 DEF BufferHoldsLatest, ReplayTypes
<1>17. FramesApart'
  <2>1. \A f, g \in Live' : f.kind = "emit" /\ g.kind = "emit" /\ f.number = g.number => f = g
    BY <1>1, <1>12 DEF FramesApart
  <2>2. \A f, g \in Live' : f.kind = "replay" /\ g.kind = "replay" /\ f.who = g.who => f = g
    BY <1>1, <1>8, <1>9, <1>12 DEF FramesApart
  <2>3. ASSUME NEW f \in Live', f.kind = "emit"
        PROVE  f.number <= emitted' /\ IsInjective(f.todo) /\ \A l \in ToSet(f.todo) : first'[l] # 0
    <3>1. f \in Live /\ f.todo \in Seq(Listeners)
      BY <2>3, <1>1, <1>12, LiveKinds
    <3>2. f.number <= emitted /\ IsInjective(f.todo) /\ \A l \in ToSet(f.todo) : first[l] # 0
      BY <1>1, <2>3, <3>1 DEF FramesApart
    <3>3. ToSet(f.todo) \subseteq Listeners
      BY <3>1, ElementsOf
    <3> QED
      BY <3>2, <3>3, <1>2, <1>7
  <2>4. ASSUME NEW f \in Live', f.kind = "replay"
        PROVE  /\ first'[f.who] # 0 /\ f.who \notin ToSet(registered')
               /\ f.index \in 1..f.length + 1 /\ f.length <= Len(buffer')
               /\ f.who \in onces' => f.length = 0
               /\ \A g \in Live' : g.kind = "emit" => f.who \notin ToSet(g.todo)
    <3>1. CASE f = f1 /\ ~served
      <4>1. 1 \in 1..n + 1 /\ n <= Len(buffer')
        BY <1>2, <1>4
      <4>2. l0 \in onces' => n = 0
        BY <3>1, <1>2, <1>3, <1>4
      <4> QED
        BY <4>1, <4>2, <3>1, <1>2, <1>3, <1>7, <1>8, <1>9, <1>12
    <3>2. CASE f \in Live
      <4>1. /\ first[f.who] # 0 /\ f.who \notin ToSet(registered)
            /\ f.index \in 1..f.length + 1 /\ f.length <= Len(buffer)
            /\ f.who \in onces => f.length = 0
            /\ \A g \in Live : g.kind = "emit" => f.who \notin ToSet(g.todo)
        BY <1>1, <2>4, <3>2 DEF FramesApart
      <4>2. f.who # l0 /\ f.who \in Listeners
        BY <2>4, <3>2, <1>9
      <4> QED
        BY <4>1, <4>2, <1>2, <1>7, <1>12
    <3> QED
      BY <2>4, <3>1, <3>2, <1>12
  <2> QED
    BY <2>1, <2>2, <2>3, <2>4, <1>11 DEF FramesApart
<1>18. ReplaysInOrder'
  <2> SUFFICES ASSUME NEW f \in Live', f.kind = "replay", f.who \notin disturbed
               PROVE  /\ f.length = Len(buffer) /\ first'[f.who] = emitted - f.length + 1
                      /\ IsInjective(heard'[f.who])
                      /\ ToSet(heard'[f.who]) = first'[f.who]..(first'[f.who] + f.index - 2)
    BY <1>2 DEF ReplaysInOrder
  <2>1. CASE f = f1 /\ ~served
    <3>1. heard'[l0] = <<>> /\ ToSet(<<>>) = {} /\ IsInjective(<<>>)
      BY <2>1, <1>15, ElementsOfNothing
    <3>2. a..(a + 1 - 2) = {}
      OBVIOUS
    <3>3. f.who = l0 /\ f.index = 1 /\ f.length = n /\ first'[l0] = a
      BY <2>1, <1>7, <1>8
    <3>4. a = emitted - n + 1 /\ n = Len(buffer)
      BY <1>4, <1>6
    <3> QED
      BY <3>1, <3>2, <3>3, <3>4
  <2>2. CASE f \in Live
    <3>1. f.who # l0 /\ f.who \in Listeners
      BY <2>2, <1>9
    <3> QED
      BY <3>1, <2>2, <1>1, <1>7, <1>15 DEF ReplaysInOrder
  <2> QED
    BY <2>1, <2>2, <1>12
<1>19. HeardSinceAdded'
  <2>1. ASSUME NEW l \in Listeners
        PROVE  /\ first'[l] = 0 => heard'[l] = <<>> /\ l \notin ToSet(registered') /\ l \notin onces'
               /\ ToSet(heard'[l]) \subseteq 1..emitted' /\ first'[l] <= emitted' + 1
    <3>1. /\ first[l] = 0 => heard[l] = <<>> /\ l \notin ToSet(registered) /\ l \notin onces
          /\ ToSet(heard[l]) \subseteq 1..emitted /\ first[l] <= emitted + 1
      BY <1>1 DEF HeardSinceAdded
    <3>2. CASE l = l0
      BY <3>2, <1>2, <1>4, <1>7, <1>15
    <3>3. CASE l # l0
      BY <3>1, <3>3, <1>2, <1>7, <1>15
    <3> QED
      BY <3>2, <3>3
  <2> QED
    BY <2>1 DEF HeardSinceAdded
<1>20. OncesLeave'
  <2> SUFFICES ASSUME NEW l \in onces' \ disturbed
               PROVE  /\ Len(heard'[l]) <= 1
                      /\ heard'[l] # <<>> => /\ l \notin ToSet(registered) /\ Pending(l) = {}
                                             /\ \A f \in Live' : f.kind = "replay" => f.who # l
                      /\ \A m, k \in Pending(l) : m = k
    BY <1>2, <1>13 DEF OncesLeave
  <2>1. CASE l = l0
    <3>1. heard'[l0] # <<>> => \A f \in Live' : f.kind = "replay" => f.who # l0
      BY <1>9, <1>12, <1>15
    <3> QED
      BY <3>1, <2>1, <1>3, <1>14, <1>15
  <2>2. CASE l # l0
    <3>1. l \in onces \ disturbed /\ l \in Listeners
      BY <2>2, <1>2, <1>3
    <3>2. /\ Len(heard[l]) <= 1
          /\ heard[l] # <<>> => /\ l \notin ToSet(registered) /\ Pending(l) = {}
                                /\ \A f \in Live : f.kind = "replay" => f.who # l
          /\ \A m, k \in Pending(l) : m = k
      BY <3>1, <1>1 DEF OncesLeave
    <3>3. heard'[l] = heard[l]
      BY <3>1, <2>2, <1>15
    <3>4. heard'[l] # <<>> => \A f \in Live' : f.kind = "replay" => f.who # l
      BY <3>2, <3>3, <2>2, <1>8, <1>12
    <3> QED
      BY <3>2, <3>3, <3>4
  <2> QED
    BY <2>1, <2>2
<1>21. HearsEachOnce'
  <2> SUFFICES ASSUME NEW l \in ToSet(registered) \ (onces' \union disturbed)
               PROVE  /\ ToSet(heard'[l]) \union Pending(l) = first'[l]..emitted
                      /\ ToSet(heard'[l]) \intersect Pending(l) = {}
                      /\ IsInjective(heard'[l])
    BY <1>2, <1>13 DEF HearsEachOnce
  <2>1. l # l0 /\ l \in Listeners /\ l \notin onces
    BY <1>2, <1>3, ElementsOf
  <2>2. heard'[l] = heard[l] /\ first'[l] = first[l]
    BY <2>1, <1>7, <1>15
  <2> QED
    BY <2>1, <2>2, <1>1 DEF HearsEachOnce
<1> QED
  BY <1>16, <1>17, <1>18, <1>19, <1>20, <1>21 DEF ReplayInv

\* Every step of a ReplayEvent keeps the invariant.
LEMMA ReplayStep == ReplayInv /\ [ReplayNext]_replayVars => ReplayInv'
<1> SUFFICES ASSUME ReplayInv, [ReplayNext]_replayVars PROVE ReplayInv'
  OBVIOUS
<1>1. CASE EmitReplay
  BY <1>1, EmitReplayKeeps
<1>2. CASE CallListener
  BY <1>2, CallListenerKeeps
<1>3. CASE EmitDone \/ ReplayListenerReturns
  BY <1>3, ReturnKeeps
<1>4. ASSUME NEW l \in Listeners, StopListening(l) PROVE ReplayInv'
  BY <1>4, StopListeningKeeps
<1>5. ASSUME NEW l \in Listeners, NEW once \in BOOLEAN, AddToReplay(l, once) PROVE ReplayInv'
  BY <1>5, AddToReplayKeeps
<1>6. CASE ReplayOne
  BY <1>6, ReplayOneKeeps
<1>7. CASE RegisterReplayed
  BY <1>7, RegisterReplayedKeeps
<1>8. CASE ReplayListenerThrows
  BY <1>8, ThrowKeeps
<1>9. CASE UNCHANGED replayVars
  <2>1. UNCHANGED <<buffer, registered, calls, heard, onces, emitted, first, disturbed>>
    BY <1>9 DEF replayVars
  <2>2. Live' = Live
    BY <2>1 DEF Live
  <2>3. \A l : Pending(l)' = Pending(l)
    BY <2>2, PendingIsAwaited
  <2>4. /\ calls \in Seq(AnyCall) /\ EachOnce(calls) /\ registered \in Seq(Listeners) /\ IsInjective(registered)
        /\ disturbed \subseteq Listeners
    BY DEF ReplayInv, FramesApart, ReplayTypes
  <2> QED
    BY <2>1, <2>2, <2>3, <2>4, FewerKeep
<1> QED
  BY <1>1, <1>2, <1>3, <1>4, <1>5, <1>6, <1>7, <1>8, <1>9 DEF ReplayNext

\* The invariant holds of a ReplayEvent that was just made.
LEMMA ReplayInitInv == ReplayInit => ReplayInv
<1> SUFFICES ASSUME ReplayInit PROVE ReplayInv
  OBVIOUS
<1>1. /\ buffer = <<>> /\ registered = <<>> /\ calls = <<>> /\ heard = [l \in Listeners |-> <<>>]
      /\ onces = {} /\ emitted = 0 /\ first = [l \in Listeners |-> 0] /\ disturbed = {}
  BY DEF ReplayInit
<1>2. ToSet(<<>>) = {} /\ IsInjective(<<>>) /\ Len(<<>>) = 0
  BY ElementsOfNothing
<1>3. Live = {}
  BY <1>1, <1>2 DEF Live, LiveOf
<1>4. BufferLength \in Nat \ {0} /\ MaxEmissions \in Nat \ {0}
  BY CountsAreNaturals
<1>5. BufferHoldsLatest
  BY <1>1, <1>2, <1>4 DEF BufferHoldsLatest
<1>6. ReplayTypes
  BY <1>1, <1>2, <1>4 DEF ReplayTypes
<1>7. FramesApart /\ ReplaysInOrder
  BY <1>1, <1>2, <1>3 DEF FramesApart, ReplaysInOrder, EachOnce, Live
<1>8. HeardSinceAdded /\ OncesLeave /\ HearsEachOnce
  BY <1>1, <1>2 DEF HeardSinceAdded, OncesLeave, HearsEachOnce
<1> QED
  BY <1>5, <1>6, <1>7, <1>8 DEF ReplayInv

\* The buffer holds the latest emissions, in their order.
LEMMA BufferIsLatest ==
  ASSUME ReplayTypes, BufferHoldsLatest
  PROVE  buffer = SubSeq([n \in 1..emitted |-> n], Max({1, emitted - BufferLength + 1}), emitted)
<1> DEFINE all == [n \in 1..emitted |-> n]
           from == Max({1, emitted - BufferLength + 1})
<1>1. PICK e \in Nat, k \in Nat : e = emitted /\ k = Len(buffer) /\ k <= e /\ from = e - k + 1
  BY OldestKept, CountsAreNaturals
<1>2. buffer \in Seq(1..MaxEmissions) /\ \A i \in 1..k : buffer[i] = e - k + i
  BY <1>1 DEF BufferHoldsLatest
<1>3. all \in Seq(Nat) /\ Len(all) = e
  BY <1>1
<1>4. /\ SubSeq(all, from, e) \in Seq(Nat) /\ Len(SubSeq(all, from, e)) = k
      /\ \A i \in 1..k : SubSeq(all, from, e)[i] = all[from + i - 1]
  <2>1. PICK b \in Int, c \in Int : b = from /\ c = e /\ c - b + 1 = k /\ b >= 1 /\ c <= e
    BY <1>1
  <2>2. \A i \in b..c : all[i] \in Nat
    BY <2>1, <1>1
  <2> HIDE DEF all
  <2>3. /\ SubSeq(all, b, c) \in Seq(Nat)
        /\ Len(SubSeq(all, b, c)) = IF b <= c THEN c - b + 1 ELSE 0
        /\ \A i \in 1..c - b + 1 : SubSeq(all, b, c)[i] = all[b + i - 1]
    BY <2>2, SubSeqProperties
  <2>4. Len(SubSeq(all, b, c)) = k
    BY <2>1, <2>3, <1>1
  <2> QED
    BY <2>1, <2>3, <2>4
<1>5. \A i \in 1..k : from + i - 1 \in 1..emitted /\ from + i - 1 = e - k + i
  BY <1>1
<1>6. \A i \in 1..k : all[from + i - 1] = e - k + i
  BY <1>5
<1> HIDE DEF all, from
<1>7. /\ buffer = [i \in 1..k |-> buffer[i]]
      /\ SubSeq(all, from, e) = [i \in 1..k |-> SubSeq(all, from, e)[i]]
  BY <1>1, <1>2, <1>4, LenProperties
<1>8. \A i \in 1..k : buffer[i] = SubSeq(all, from, e)[i]
  BY <1>2, <1>4, <1>6
<1>9. buffer = SubSeq(all, from, e)
  BY <1>7, <1>8
<1> QED
  BY <1>1, <1>9 DEF all, from

\* A listener of a ReplayEvent that stays hears each emission once, from the
\* oldest kept when it was added, and a once listener hears one: whatever they
\* emit, add and remove while they are called (shared.ts:369-409).
THEOREM LateListenersHearEachOnce == ReplaySpec => []ReplayedOnce
<1>1. ReplayInv => ReplayedOnce
  <2> SUFFICES ASSUME ReplayInv PROVE ReplayedOnce
    OBVIOUS
  <2>1. ReplayTypes /\ BufferHoldsLatest /\ HearsEachOnce /\ OncesLeave
    BY DEF ReplayInv
  <2>2. \A f \in ToSet(calls) : f.kind \in {"emit", "replay", "listener"}
    BY <2>1, CallKinds, ElementsOf DEF ReplayTypes
  <2>3. ReplayTypeOK
    BY <2>1, <2>2, BufferIsLatest DEF ReplayTypeOK, ReplayTypes
  <2>4. OnceHearsOne
    BY <2>1 DEF OncesLeave, OnceHearsOne
  <2> QED
    BY <2>1, <2>3, <2>4 DEF ReplayedOnce
<1> QED
  BY <1>1, ReplayInitInv, ReplayStep, PTL DEF ReplaySpec

-----------------------------------------------------------------------------
\* What may be on the agenda of the bindings.
BindingTask ==
  [kind : {"look"}, of : Bound, with : BOOLEAN]
    \union [kind : {"attach"}, of : Bound, with : Firsts \union {Undefined, Null}]
    \union [kind : {"tell"}, of : Bound, with : Values \union {Null}]
    \union [kind : {"handling"}, of : Bound, with : {Null}]

BindingsTypes ==
  /\ target \in Firsts \union {Undefined, Null}
  /\ member \in [Objects -> Seconds \union {Null} \union Values] /\ \A o \in Objects : Fits(o, member[o])
  /\ watchers \in [Objects -> Seq(Bound)]
  /\ last \in [Bound -> [Levels -> Objects \union {Null}]]
  /\ watching \in [Bound -> SUBSET Levels] /\ pipes \in [Bound -> 1..MaxPipes + 1]
  /\ shown \in [Bound -> Values \union {Null}] /\ told \in [Bound -> Values \union {Null}]
  /\ agenda \in Seq(BindingTask)
  /\ disposed \subseteq Bound /\ unwatched \subseteq Bound /\ cut \subseteq Bound
  /\ sets \in 0..MaxSets

LooksLater(b) == \E t \in ToSet(agenda) : t.kind = "look" /\ t.of = b
Watched(b, from) == \A l \in Levels : Source(from)[l] \in Objects => b \in ToSet(watchers[Source(from)[l]])

\* A binding is told of the member of each object it met last.
MetIsWatched ==
  \A b \in Bound \ (disposed \union unwatched) : \A l \in Levels :
    last[b][l] \in Objects => b \in ToSet(watchers[last[b][l]])

\* A binding has the value of its path and is told when it changes, or looks again.
LooksOrShows ==
  \A b \in Bound \ (disposed \union unwatched \union cut) :
    LooksLater(b) \/ (shown[b] = PathFrom(target) /\ Watched(b, target))

\* A handler is told a new value before anything else is done.
TellsAtOnce ==
  /\ agenda # <<>> => \A t \in ToSet(Tail(agenda)) : t.kind # "tell"
  /\ Doing("tell") => Head(agenda).with = shown[Head(agenda).of]
  /\ \A b \in Bound : told[b] = shown[b] \/ (Doing("tell") /\ Head(agenda).of = b)

BindingsInv == BindingsTypes /\ MetIsWatched /\ LooksOrShows /\ TellsAtOnce

-----------------------------------------------------------------------------
LEMMA BoundIsPiped == Piped \in Seq(Bound) /\ ToSet(Piped) = Bound
  BY BindingsAssumption DEF Bound

\* What a level of a path may meet, and what a path may lead to.
LEMMA PathTypes ==
  ASSUME BindingsTypes, NEW from \in Firsts \union {Undefined, Null}
  PROVE  Source(from) \in [Levels -> Objects \union {Null}] /\ PathFrom(from) \in Values \union {Null}
<1>1. \A o \in Firsts : member[o] \in Seconds \union {Null}
  BY DEF BindingsTypes, Fits, Objects
<1>2. \A o \in Seconds : member[o] \in Values
  BY BindingsAssumption DEF BindingsTypes, Fits, Objects
<1>3. Source(from) \in [Levels -> Objects \union {Null}]
  BY <1>1 DEF Source, Objects
<1>4. PathFrom(from) \in Values \union {Null}
  BY <1>2 DEF PathFrom
<1> QED
  BY <1>3, <1>4

LEMMA FirstTask ==
  ASSUME BindingsTypes, agenda # <<>>
  PROVE  /\ Head(agenda) \in BindingTask /\ Tail(agenda) \in Seq(BindingTask)
         /\ ToSet(agenda) = {Head(agenda)} \union ToSet(Tail(agenda))
         /\ Head(agenda).of \in Bound
         /\ Head(agenda).kind = "look" => Head(agenda).with \in BOOLEAN
         /\ Head(agenda).kind = "attach" => Head(agenda).with \in Firsts \union {Undefined, Null}
         /\ Head(agenda).kind = "tell" => Head(agenda).with \in Values \union {Null}
<1>1. /\ Head(agenda) \in BindingTask /\ Tail(agenda) \in Seq(BindingTask)
      /\ ToSet(agenda) = {Head(agenda)} \union ToSet(Tail(agenda))
  BY ElementsOfTail DEF BindingsTypes
<1>2. PICK t \in BindingTask : t = Head(agenda)
  BY <1>1
<1> QED
  BY <1>1, <1>2 DEF BindingTask

\* The tasks there may be.
LEMMA TaskTypes ==
  ASSUME NEW b \in Bound
  PROVE  /\ \A w \in BOOLEAN : Look(b, w) \in BindingTask /\ Look(b, w).kind = "look" /\ Look(b, w).of = b
         /\ \A v \in Firsts \union {Undefined, Null} : Attach(b, v) \in BindingTask /\ Attach(b, v).kind = "attach"
         /\ \A v \in Values \union {Null} :
              Tell(b, v) \in BindingTask /\ Tell(b, v).kind = "tell" /\ Tell(b, v).of = b /\ Tell(b, v).with = v
         /\ Handling(b) \in BindingTask /\ Handling(b).kind = "handling"
  BY DEF BindingTask, Look, Attach, Tell, Handling

\* Nobody is told while nothing is to be told.
LEMMA NothingToTell ==
  ASSUME agenda' \in Seq(BindingTask), \A t \in ToSet(agenda') : t.kind # "tell", \A b \in Bound : told'[b] = shown'[b]
  PROVE  TellsAtOnce'
<1>1. agenda' # <<>> => /\ ToSet(agenda') = {Head(agenda')} \union ToSet(Tail(agenda'))
  BY ElementsOfTail
<1>2. agenda' # <<>> => Head(agenda').kind # "tell" /\ \A t \in ToSet(Tail(agenda')) : t.kind # "tell"
  BY <1>1
<1> QED
  BY <1>2 DEF TellsAtOnce, Doing

\* What a call adds comes before all that was to be done.
LEMMA AgendaGrows ==
  ASSUME BindingsTypes, TellsAtOnce, AtRest \/ Doing("handling"), NEW new \in Seq(BindingTask),
         \A t \in ToSet(new) : t.kind # "tell", agenda' = new \o agenda, UNCHANGED <<shown, told>>
  PROVE  /\ agenda' \in Seq(BindingTask) /\ TellsAtOnce'
         /\ ToSet(agenda') = ToSet(new) \union ToSet(agenda)
<1>1. agenda' \in Seq(BindingTask) /\ ToSet(agenda') = ToSet(new) \union ToSet(agenda)
  BY ElementsOfConcat DEF BindingsTypes
<1>2. \A t \in ToSet(agenda) : t.kind # "tell"
  <2>1. CASE agenda = <<>>
    BY <2>1, ElementsOfNothing
  <2>2. CASE agenda # <<>>
    BY <2>2, FirstTask DEF TellsAtOnce, Doing, AtRest
  <2> QED
    BY <2>1, <2>2
<1>3. \A b \in Bound : told[b] = shown[b]
  BY DEF TellsAtOnce, Doing, AtRest
<1> QED
  BY <1>1, <1>2, <1>3, NothingToTell

\* What is done is taken from the agenda.
LEMMA AgendaShrinks ==
  ASSUME BindingsTypes, TellsAtOnce, agenda # <<>>, Head(agenda).kind # "tell",
         agenda' = Tail(agenda), UNCHANGED <<shown, told>>
  PROVE  /\ agenda' \in Seq(BindingTask) /\ TellsAtOnce'
         /\ ToSet(agenda) = {Head(agenda)} \union ToSet(agenda')
<1>1. agenda' \in Seq(BindingTask) /\ ToSet(agenda) = {Head(agenda)} \union ToSet(agenda')
  BY FirstTask
<1>2. \A t \in ToSet(agenda') : t.kind # "tell"
  BY DEF TellsAtOnce
<1>3. \A b \in Bound : told[b] = shown[b]
  BY DEF TellsAtOnce, Doing
<1> QED
  BY <1>1, <1>2, <1>3, NothingToTell

\* A binding that watches what its path goes through goes on so, while the path
\* stays and nobody stops watching.
LEMMA StaysWatched ==
  ASSUME BindingsTypes, UNCHANGED <<target, member>>,
         \A o \in Objects : ToSet(watchers[o]) \subseteq ToSet(watchers'[o])
  PROVE  /\ PathFrom(target)' = PathFrom(target) /\ Source(target)' = Source(target)
         /\ \A b \in Bound : Watched(b, target) => Watched(b, target)'
<1>1. Source(target)' = Source(target)
  BY DEF Source
<1>2. PathFrom(target)' = PathFrom(target)
  BY <1>1 DEF PathFrom
<1>3. ASSUME NEW b \in Bound, Watched(b, target) PROVE Watched(b, target)'
  BY <1>1, <1>3 DEF Watched
<1> QED
  BY <1>1, <1>2, <1>3

\* An evaluation with the watcher: what each level meets is watched then.
LEMMA WatchesAll ==
  ASSUME BindingsTypes, MetIsWatched, NEW b \in Bound, NEW from \in Firsts \union {Undefined, Null},
         Watches(b, from), ~PipesTooOften(b), UNCHANGED disposed
  PROVE  /\ watchers' \in [Objects -> Seq(Bound)] /\ last' \in [Bound -> [Levels -> Objects \union {Null}]]
         /\ watching' \in [Bound -> SUBSET Levels] /\ pipes' \in [Bound -> 1..MaxPipes + 1] /\ unwatched' = unwatched
         /\ \A o \in Objects : ToSet(watchers[o]) \subseteq ToSet(watchers'[o])
         /\ MetIsWatched'
         /\ b \notin disposed \union unwatched => \A l \in Levels :
              Source(from)[l] \in Objects => b \in ToSet(watchers'[Source(from)[l]])
<1>0. PICK s \in [Levels -> Objects \union {Null}] : s = Source(from)
  BY PathTypes
<1>1. PICK m \in SUBSET Levels :
        m = Moved(b, from) /\ \A l \in Levels : (l \in m <=> (s[l] \in Objects /\ s[l] # last[b][l]))
  <2>1. Moved(b, from) = {l \in Levels : s[l] \in Objects /\ s[l] # last[b][l]}
    BY <1>0 DEF Moved
  <2> QED
    BY <2>1
<1>2. /\ watchers \in [Objects -> Seq(Bound)] /\ last \in [Bound -> [Levels -> Objects \union {Null}]]
      /\ watching \in [Bound -> SUBSET Levels] /\ pipes \in [Bound -> 1..MaxPipes + 1]
  BY DEF BindingsTypes
<1>3. /\ last' = [last EXCEPT ![b] = [l \in Levels |-> IF l \in m THEN s[l] ELSE last[b][l]]]
      /\ watchers' = [o \in Objects |->
           IF \E l \in m : s[l] = o THEN Append(watchers[o], b) ELSE watchers[o]]
      /\ watching' = [watching EXCEPT ![b] = watching[b] \union m]
      /\ pipes' = [pipes EXCEPT ![b] = IF 2 \in watching[b] THEN pipes[b] ELSE pipes[b] + 1]
      /\ unwatched' = unwatched
  BY <1>0, <1>1, <1>2 DEF Watches, Meets
<1>4. last' \in [Bound -> [Levels -> Objects \union {Null}]]
  BY <1>2, <1>3
<1>5. watching' \in [Bound -> SUBSET Levels]
  BY <1>2, <1>3
<1>6. pipes' \in [Bound -> 1..MaxPipes + 1]
  <2>1. MaxPipes \in Nat /\ pipes[b] \in 1..MaxPipes + 1
    BY <1>2, BindingsAssumption
  <2>2. (IF 2 \in watching[b] THEN pipes[b] ELSE pipes[b] + 1) \in 1..MaxPipes + 1
    BY <2>1 DEF PipesTooOften
  <2> QED
    BY <1>2, <1>3, <2>2
<1>7. ASSUME NEW o \in Objects
      PROVE  /\ watchers'[o] \in Seq(Bound) /\ ToSet(watchers[o]) \subseteq ToSet(watchers'[o])
             /\ (\E l \in m : s[l] = o) => b \in ToSet(watchers'[o])
  <2>1. watchers[o] \in Seq(Bound)
    BY <1>2
  <2>2. Append(watchers[o], b) \in Seq(Bound) /\ ToSet(Append(watchers[o], b)) = ToSet(watchers[o]) \union {b}
    BY <2>1, ElementsOfAppend, AppendProperties
  <2> QED
    BY <1>3, <2>1, <2>2
<1>8. watchers' \in [Objects -> Seq(Bound)]
  BY <1>3, <1>7
<1>9. MetIsWatched'
  <2> SUFFICES ASSUME NEW c \in Bound \ (disposed \union unwatched), NEW l \in Levels, last'[c][l] \in Objects
               PROVE  c \in ToSet(watchers'[last'[c][l]])
    BY <1>3 DEF MetIsWatched
  <2>1. last'[c][l] = IF c = b /\ l \in m THEN s[l] ELSE last[c][l]
    BY <1>2, <1>3
  <2>2. CASE c = b /\ l \in m
    BY <1>7, <2>1, <2>2
  <2>3. CASE ~(c = b /\ l \in m)
    <3>1. last'[c][l] = last[c][l]
      BY <2>1, <2>3
    <3>2. c \in ToSet(watchers[last[c][l]])
      BY <3>1 DEF MetIsWatched
    <3> QED
      BY <1>7, <3>1, <3>2
  <2> QED
    BY <2>2, <2>3
<1>10. ASSUME b \notin disposed \union unwatched, NEW l \in Levels, s[l] \in Objects
       PROVE  b \in ToSet(watchers'[s[l]])
  <2>1. CASE l \in m
    BY <1>7, <1>10, <2>1
  <2>2. CASE l \notin m
    <3>1. s[l] = last[b][l]
      BY <1>1, <1>10, <2>2
    <3>2. b \in ToSet(watchers[s[l]])
      BY <1>10, <3>1 DEF MetIsWatched
    <3> QED
      BY <1>7, <1>10, <3>2
  <2> QED
    BY <2>1, <2>2
<1> QED
  BY <1>0, <1>3, <1>4, <1>5, <1>6, <1>7, <1>8, <1>9, <1>10

\* An evaluation without the watcher meets nothing new, or is remembered.
LEMMA MeetsOrIsUnwatched ==
  ASSUME BindingsTypes, MetIsWatched, NEW b \in Bound, NEW from \in Firsts \union {Undefined, Null},
         MeetsUnwatched(b, from), UNCHANGED disposed
  PROVE  /\ last' \in [Bound -> [Levels -> Objects \union {Null}]]
         /\ unwatched' \subseteq Bound /\ unwatched \subseteq unwatched'
         /\ UNCHANGED <<watchers, watching, pipes>>
         /\ MetIsWatched'
         /\ b \notin disposed \union unwatched' => \A l \in Levels :
              Source(from)[l] \in Objects => b \in ToSet(watchers'[Source(from)[l]])
<1>0. PICK s \in [Levels -> Objects \union {Null}] : s = Source(from)
  BY PathTypes
<1>1. PICK m \in SUBSET Levels :
        m = Moved(b, from) /\ \A l \in Levels : (l \in m <=> (s[l] \in Objects /\ s[l] # last[b][l]))
  <2>1. Moved(b, from) = {l \in Levels : s[l] \in Objects /\ s[l] # last[b][l]}
    BY <1>0 DEF Moved
  <2> QED
    BY <2>1
<1>2. last \in [Bound -> [Levels -> Objects \union {Null}]] /\ unwatched \subseteq Bound
  BY DEF BindingsTypes
<1>3. /\ last' = [last EXCEPT ![b] = [l \in Levels |-> IF l \in m THEN s[l] ELSE last[b][l]]]
      /\ unwatched' = (IF m = {} THEN unwatched ELSE unwatched \union {b})
      /\ UNCHANGED <<watchers, watching, pipes>>
  BY <1>0, <1>1, <1>2 DEF MeetsUnwatched, Meets
<1>4. last' \in [Bound -> [Levels -> Objects \union {Null}]]
  BY <1>2, <1>3
<1>5. unwatched' \subseteq Bound /\ unwatched \subseteq unwatched'
  BY <1>2, <1>3
<1>6. \A c \in Bound \ unwatched' : \A l \in Levels : last'[c][l] = last[c][l]
  <2> SUFFICES ASSUME NEW c \in Bound \ unwatched', NEW l \in Levels PROVE last'[c][l] = last[c][l]
    OBVIOUS
  <2>1. last'[c][l] = IF c = b /\ l \in m THEN s[l] ELSE last[c][l]
    BY <1>2, <1>3
  <2> QED
    BY <1>3, <2>1
<1>7. MetIsWatched'
  BY <1>3, <1>5, <1>6 DEF MetIsWatched
<1>8. ASSUME b \notin disposed \union unwatched', NEW l \in Levels, s[l] \in Objects
      PROVE  b \in ToSet(watchers'[s[l]])
  <2>1. s[l] = last[b][l]
    BY <1>1, <1>3, <1>8
  <2> QED
    BY <1>3, <1>5, <1>8, <2>1 DEF MetIsWatched
<1> QED
  BY <1>0, <1>3, <1>4, <1>5, <1>7, <1>8

\* Whoever watches the member that is set looks again; others keep what they show.
LEMMA PutLooks ==
  ASSUME BindingsInv, AtRest \/ Doing("handling"), NEW o \in Objects,
         NEW v \in Seconds \union {Null} \union Values, Fits(o, v), Put(o, v), unwatched \subseteq unwatched',
         UNCHANGED <<target, watchers, shown, told, disposed, cut>>
  PROVE  /\ member' \in [Objects -> Seconds \union {Null} \union Values] /\ \A x \in Objects : Fits(x, member[x])'
         /\ agenda' \in Seq(BindingTask) /\ TellsAtOnce' /\ LooksOrShows'
<1> DEFINE new == [i \in DOMAIN watchers[o] |-> Look(watchers[o][i], TRUE)]
<1>0. BindingsTypes /\ TellsAtOnce
  BY DEF BindingsInv
<1>1. PICK w \in Seq(Bound) : w = watchers[o]
  BY <1>0 DEF BindingsTypes
<1>2. DOMAIN w = 1..Len(w) /\ Len(w) \in Nat /\ \A i \in 1..Len(w) : w[i] \in Bound
  BY LenProperties
<1>3. new = [i \in 1..Len(w) |-> Look(w[i], TRUE)]
  BY <1>1, <1>2
<1>4. \A i \in 1..Len(w) : Look(w[i], TRUE) \in BindingTask /\ Look(w[i], TRUE).kind = "look" /\ Look(w[i], TRUE).of = w[i]
  BY <1>2, TaskTypes
<1>5. new \in Seq(BindingTask) /\ DOMAIN new = 1..Len(w)
  <2>1. new \in [1..Len(w) -> BindingTask]
    BY <1>3, <1>4
  <2> HIDE DEF new
  <2> QED
    BY <1>2, <2>1
<1>6. agenda' = new \o agenda /\ member' = [member EXCEPT ![o] = v]
  BY DEF Put
<1>7. \A i \in 1..Len(w) : new[i] = Look(w[i], TRUE)
  BY <1>3
<1> HIDE DEF new
<1>8. \A t \in ToSet(new) : t.kind # "tell"
  BY <1>4, <1>5, <1>7 DEF ToSet
<1>9. \A b \in ToSet(w) : \E t \in ToSet(new) : t.kind = "look" /\ t.of = b
  BY <1>2, <1>4, <1>5, <1>7 DEF ToSet
<1>10. /\ agenda' \in Seq(BindingTask) /\ TellsAtOnce'
       /\ ToSet(agenda') = ToSet(new) \union ToSet(agenda)
  BY <1>0, <1>5, <1>6, <1>8, AgendaGrows
<1>11. /\ member \in [Objects -> Seconds \union {Null} \union Values] /\ \A x \in Objects : Fits(x, member[x])
       /\ target \in Firsts \union {Undefined, Null}
  BY <1>0 DEF BindingsTypes
<1>12. /\ member' \in [Objects -> Seconds \union {Null} \union Values]
       /\ \A x \in Objects : member'[x] = IF x = o THEN v ELSE member[x]
  BY <1>6, <1>11
<1>13. \A x \in Objects : Fits(x, member[x])'
  BY <1>11, <1>12 DEF Fits
<1>14. ASSUME NEW b \in Bound \ (disposed \union unwatched \union cut)', ~LooksLater(b)'
       PROVE  shown'[b] = PathFrom(target)' /\ Watched(b, target)'
  <2>1. b \in Bound \ (disposed \union unwatched \union cut)
    OBVIOUS
  <2>2. ~LooksLater(b)
    BY <1>10, <1>14 DEF LooksLater
  <2>3. shown[b] = PathFrom(target) /\ Watched(b, target)
    BY <2>1, <2>2 DEF BindingsInv, LooksOrShows
  <2>4. b \notin ToSet(w)
    BY <1>9, <1>10, <1>14 DEF LooksLater
  <2>5. \A l \in Levels : Source(target)[l] # o
    BY <1>1, <2>3, <2>4 DEF Watched
  <2>6. /\ Source(target)[1] = (IF target \notin Firsts THEN Null ELSE target)
        /\ Source(target)[2] = (IF target \notin Firsts THEN Null ELSE member[target])
    BY DEF Source, Levels
  <2>7. target \in Firsts => target # o /\ member[target] # o
    BY <2>5, <2>6 DEF Levels
  <2>8. target \in Firsts => member'[target] = member[target]
    BY <1>12, <2>7 DEF Objects
  <2>9. Source(target)' = Source(target)
    BY <2>8 DEF Source
  <2>10. PathFrom(target)' = PathFrom(target)
    <3>1. PICK p : p = Source(target)[2]
      OBVIOUS
    <3>2. p \in Seconds => member'[p] = member[p]
      BY <1>12, <2>5, <3>1 DEF Objects, Levels
    <3> QED
      BY <2>9, <3>1, <3>2 DEF PathFrom
  <2> QED
    BY <2>3, <2>9, <2>10 DEF Watched
<1>15. LooksOrShows'
  BY <1>14 DEF LooksOrShows
<1> QED
  BY <1>10, <1>12, <1>13, <1>15

LEMMA SetMemberStep ==
  ASSUME BindingsInv, NEW o \in Objects, NEW v \in Seconds \union {Null} \union Values, SetMember(o, v)
  PROVE  BindingsInv'
<1>1. /\ AtRest \/ Doing("handling")
      /\ sets < MaxSets /\ sets' = sets + 1 /\ UNCHANGED <<shown, told, cut>>
      /\ Fits(o, v) /\ Put(o, v) /\ UNCHANGED <<target, watchers, last, watching, pipes, disposed, unwatched>>
  BY DEF SetMember, ProgramCalls
<1>2. BindingsTypes /\ MetIsWatched
  BY DEF BindingsInv
<1>3. /\ member' \in [Objects -> Seconds \union {Null} \union Values] /\ \A x \in Objects : Fits(x, member[x])'
      /\ agenda' \in Seq(BindingTask) /\ TellsAtOnce' /\ LooksOrShows'
  BY <1>1, PutLooks
<1>4. sets' \in 0..MaxSets
  BY <1>1, <1>2, BindingsAssumption DEF BindingsTypes
<1>5. BindingsTypes'
  BY <1>1, <1>2, <1>3, <1>4 DEF BindingsTypes
<1>6. MetIsWatched'
  BY <1>1, <1>2 DEF MetIsWatched
<1> QED
  BY <1>3, <1>5, <1>6 DEF BindingsInv

LEMMA SetThroughStep ==
  ASSUME BindingsInv, NEW b \in Bound, NEW v \in Values, SetThrough(b, v)
  PROVE  BindingsInv'
<1> DEFINE start == Source(target)[1]
           o == Source(target)[2]
<1>1. /\ AtRest \/ Doing("handling")
      /\ sets < MaxSets /\ sets' = sets + 1 /\ UNCHANGED <<shown, told, cut>>
      /\ UNCHANGED <<target, watchers, watching, pipes, disposed>>
      /\ \/ last' = [last EXCEPT ![b][1] = start] /\ unwatched' = unwatched \union {b} /\ start \in Objects
         \/ UNCHANGED <<last, unwatched>>
      /\ \/ o \in Seconds /\ Put(o, v)
         \/ UNCHANGED <<member, agenda>>
  BY DEF SetThrough, ProgramCalls
<1>2. BindingsTypes /\ MetIsWatched /\ LooksOrShows /\ TellsAtOnce
  BY DEF BindingsInv
<1>3. PICK f : f = start
  OBVIOUS
<1>4. /\ last' \in [Bound -> [Levels -> Objects \union {Null}]]
      /\ unwatched' \subseteq Bound /\ unwatched \subseteq unwatched'
      /\ \A c \in Bound \ unwatched' : last'[c] = last[c]
  <2>1. last \in [Bound -> [Levels -> Objects \union {Null}]] /\ unwatched \subseteq Bound
    BY <1>2 DEF BindingsTypes
  <2>2. CASE UNCHANGED <<last, unwatched>>
    BY <2>1, <2>2
  <2>3. CASE last' = [last EXCEPT ![b][1] = f] /\ unwatched' = unwatched \union {b} /\ f \in Objects
    <3>1. last' = [last EXCEPT ![b] = [last[b] EXCEPT ![1] = f]]
      BY <2>3
    <3>2. [last[b] EXCEPT ![1] = f] \in [Levels -> Objects \union {Null}]
      BY <2>1, <2>3 DEF Levels
    <3> QED
      BY <2>1, <2>3, <3>1, <3>2
  <2> QED
    BY <1>1, <1>3, <2>2, <2>3
<1>5. MetIsWatched'
  BY <1>1, <1>2, <1>4 DEF MetIsWatched
<1>6. /\ member' \in [Objects -> Seconds \union {Null} \union Values] /\ \A x \in Objects : Fits(x, member[x])'
      /\ agenda' \in Seq(BindingTask) /\ TellsAtOnce' /\ LooksOrShows'
  <2>1. CASE o \in Seconds /\ Put(o, v)
    <3>1. PICK p \in Seconds : p = o
      BY <2>1
    <3>2. p \in Objects /\ Fits(p, v)
      BY BindingsAssumption DEF Objects, Fits
    <3> HIDE DEF o, start
    <3>3. Put(p, v) /\ v \in Seconds \union {Null} \union Values
      BY <2>1, <3>1
    <3> QED
      BY <1>1, <1>4, <3>2, <3>3, PutLooks
  <2>2. CASE UNCHANGED <<member, agenda>>
    <3>1. TellsAtOnce'
      BY <1>1, <1>2, <2>2 DEF TellsAtOnce, Doing
    <3>2. \A c \in Bound : LooksLater(c) => LooksLater(c)'
      BY <2>2 DEF LooksLater
    <3>3. /\ PathFrom(target)' = PathFrom(target) /\ Source(target)' = Source(target)
          /\ \A c \in Bound : Watched(c, target) => Watched(c, target)'
      BY <1>1, <1>2, <2>2, StaysWatched
    <3>4. LooksOrShows'
      BY <1>1, <1>2, <1>4, <3>2, <3>3 DEF LooksOrShows
    <3> QED
      BY <1>2, <2>2, <3>1, <3>4 DEF BindingsTypes, Fits
  <2> QED
    BY <1>1, <2>1, <2>2
<1>7. sets' \in 0..MaxSets
  BY <1>1, <1>2, BindingsAssumption DEF BindingsTypes
<1>8. BindingsTypes'
  BY <1>1, <1>2, <1>4, <1>6, <1>7 DEF BindingsTypes
<1> QED
  BY <1>5, <1>6, <1>8 DEF BindingsInv

LEMMA DisposeStep ==
  ASSUME BindingsInv, NEW b \in Bound, DisposeBinding(b)
  PROVE  BindingsInv'
<1>1. /\ AtRest \/ Doing("handling")
      /\ sets < MaxSets /\ sets' = sets + 1 /\ UNCHANGED <<shown, told, cut>>
      /\ disposed' = disposed \union {b}
      /\ watchers' = [o \in Objects |-> Filtered(watchers[o], Bound \ {b})]
      /\ UNCHANGED <<target, member, last, watching, pipes, agenda, unwatched>>
  BY DEF DisposeBinding, ProgramCalls
<1>2. BindingsTypes /\ MetIsWatched /\ LooksOrShows /\ TellsAtOnce
  BY DEF BindingsInv
<1>3. ASSUME NEW o \in Objects
      PROVE  watchers'[o] \in Seq(Bound) /\ ToSet(watchers'[o]) = ToSet(watchers[o]) \ {b}
  <2>1. PICK w \in Seq(Bound) : w = watchers[o]
    BY <1>2 DEF BindingsTypes
  <2>2. Filtered(w, Bound \ {b}) \in Seq(Bound) /\ ToSet(Filtered(w, Bound \ {b})) = ToSet(w) \intersect (Bound \ {b})
    BY ElementsOfFiltered
  <2>3. ToSet(w) \subseteq Bound
    BY ElementsOf
  <2>4. watchers'[o] = Filtered(w, Bound \ {b})
    BY <1>1, <2>1
  <2> QED
    BY <2>1, <2>2, <2>3, <2>4
<1>4. watchers' \in [Objects -> Seq(Bound)]
  BY <1>1, <1>3
<1>5. sets' \in 0..MaxSets
  BY <1>1, <1>2, BindingsAssumption DEF BindingsTypes
<1>6. disposed' \subseteq Bound
  BY <1>1, <1>2 DEF BindingsTypes
<1>7. BindingsTypes'
  BY <1>1, <1>2, <1>4, <1>5, <1>6 DEF BindingsTypes, Fits
<1>8. MetIsWatched'
  BY <1>1, <1>2, <1>3 DEF MetIsWatched
<1>9. Source(target)' = Source(target)
  BY <1>1 DEF Source
<1>10. PathFrom(target)' = PathFrom(target)
  BY <1>1, <1>9 DEF PathFrom
<1>11. \A c \in Bound : LooksLater(c) => LooksLater(c)'
  BY <1>1 DEF LooksLater
<1>12. \A c \in Bound \ {b} : Watched(c, target) => Watched(c, target)'
  BY <1>3, <1>9 DEF Watched
<1>13. LooksOrShows'
  BY <1>1, <1>2, <1>10, <1>11, <1>12 DEF LooksOrShows
<1>14. TellsAtOnce'
  BY <1>1, <1>2 DEF TellsAtOnce, Doing
<1> QED
  BY <1>7, <1>8, <1>13, <1>14 DEF BindingsInv

\* The tasks of the bindings that listen to target: each looks, and then attaches
\* itself to the value when it is another.
LEMMA TasksOfTarget ==
  ASSUME NEW s \in Seq(Bound), NEW v \in Firsts \union {Undefined, Null}, NEW new,
         \/ new = [i \in 1..Len(s) |-> Look(s[i], v \in Firsts)]
         \/ new = [i \in 1..2 * Len(s) |-> IF i % 2 = 1 THEN Look(s[(i + 1) \div 2], v \in Firsts)
                                          ELSE Attach(s[i \div 2], v)]
  PROVE  /\ new \in Seq(BindingTask) /\ \A t \in ToSet(new) : t.kind # "tell"
         /\ \A b \in ToSet(s) : \E t \in ToSet(new) : t.kind = "look" /\ t.of = b
<1>1. PICK n \in Nat : n = Len(s) /\ DOMAIN s = 1..n /\ \A i \in 1..n : s[i] \in Bound
  BY LenProperties
<1>2. PICK w \in BOOLEAN : w = (v \in Firsts)
  <2>1. CASE v \in Firsts
    <3>1. (v \in Firsts) = TRUE
      BY <2>1
    <3> QED
      BY <3>1
  <2>2. CASE v \notin Firsts
    <3>1. (v \in Firsts) = FALSE
      BY <2>2
    <3> QED
      BY <3>1
  <2> QED
    BY <2>1, <2>2
<1>3. \A b \in Bound : Look(b, w) \in BindingTask /\ Look(b, w).kind = "look" /\ Look(b, w).of = b
                       /\ Attach(b, v) \in BindingTask /\ Attach(b, v).kind = "attach"
  BY TaskTypes
<1>4. CASE new = [i \in 1..n |-> Look(s[i], w)]
  <2>1. new \in [1..n -> BindingTask]
    BY <1>1, <1>3, <1>4
  <2>2. new \in Seq(BindingTask) /\ DOMAIN new = 1..n
    BY <2>1
  <2>3. \A i \in 1..n : new[i].kind = "look" /\ new[i].of = s[i]
    BY <1>1, <1>3, <1>4
  <2> QED
    BY <1>1, <2>2, <2>3 DEF ToSet
<1>5. CASE new = [i \in 1..2 * n |-> IF i % 2 = 1 THEN Look(s[(i + 1) \div 2], w) ELSE Attach(s[i \div 2], v)]
  <2>1. \A i \in 1..2 * n : (i % 2 = 1 => (i + 1) \div 2 \in 1..n) /\ (i % 2 # 1 => i \div 2 \in 1..n)
    OBVIOUS
  <2>2. ASSUME NEW i \in 1..2 * n
        PROVE  new[i] \in BindingTask /\ new[i].kind # "tell"
    <3>1. CASE i % 2 = 1
      <4>1. PICK j \in 1..n : j = (i + 1) \div 2
        BY <2>1, <3>1
      <4>2. new[i] = Look(s[j], w) /\ s[j] \in Bound
        BY <1>1, <1>5, <3>1, <4>1
      <4> QED
        BY <1>3, <4>2
    <3>2. CASE i % 2 # 1
      <4>1. PICK j \in 1..n : j = i \div 2
        BY <2>1, <3>2
      <4>2. new[i] = Attach(s[j], v) /\ s[j] \in Bound
        BY <1>1, <1>5, <3>2, <4>1
      <4> QED
        BY <1>3, <4>2
    <3> QED
      BY <3>1, <3>2
  <2>3. 2 * n \in Nat /\ DOMAIN new = 1..2 * n /\ new = [i \in 1..2 * n |-> new[i]]
    BY <1>5
  <2>4. new \in Seq(BindingTask)
    BY <2>2, <2>3
  <2>5. \A t \in ToSet(new) : t.kind # "tell"
    BY <2>2, <2>3 DEF ToSet
  <2>6. ASSUME NEW b \in ToSet(s) PROVE \E t \in ToSet(new) : t.kind = "look" /\ t.of = b
    <3>1. PICK j \in 1..n : s[j] = b
      BY <1>1 DEF ToSet
    <3>2. PICK i \in 1..2 * n : i = 2 * j - 1
      BY <1>1
    <3>3. i % 2 = 1 /\ (i + 1) \div 2 = j
      BY <1>1, <3>2
    <3>4. new[i] = Look(b, w) /\ b \in Bound
      BY <1>1, <1>5, <3>1, <3>3
    <3> QED
      BY <1>3, <2>3, <3>4 DEF ToSet
  <2> QED
    BY <2>4, <2>5, <2>6
<1> QED
  BY <1>1, <1>2, <1>4, <1>5

LEMMA SetTargetStep ==
  ASSUME BindingsInv, NEW v \in Firsts \union {Undefined, Null}, SetTarget(v)
  PROVE  BindingsInv'
<1> DEFINE s == Filtered(Piped, Bound \ disposed)
<1>1. PICK new :
        /\ \/ new = [i \in 1..Len(s) |-> Look(s[i], v \in Firsts)]
           \/ new = [i \in 1..2 * Len(s) |-> IF i % 2 = 1 THEN Look(s[(i + 1) \div 2], v \in Firsts)
                                            ELSE Attach(s[i \div 2], v)]
        /\ agenda' = new \o agenda
  BY DEF SetTarget
<1>2. /\ AtRest \/ Doing("handling")
      /\ sets < MaxSets /\ sets' = sets + 1 /\ UNCHANGED <<shown, told, cut>>
      /\ target' = v
      /\ UNCHANGED <<member, watchers, last, watching, pipes, disposed, unwatched>>
  BY DEF SetTarget, ProgramCalls
<1>3. BindingsTypes /\ MetIsWatched /\ TellsAtOnce
  BY DEF BindingsInv
<1>4. s \in Seq(Bound) /\ ToSet(s) = Bound \ disposed
  BY BoundIsPiped, ElementsOfFiltered
<1> HIDE DEF s
<1>5. /\ new \in Seq(BindingTask) /\ \A t \in ToSet(new) : t.kind # "tell"
      /\ \A b \in ToSet(s) : \E t \in ToSet(new) : t.kind = "look" /\ t.of = b
  <2>1. PICK q \in Seq(Bound) : q = s
    BY <1>4
  <2>2. \/ new = [i \in 1..Len(q) |-> Look(q[i], v \in Firsts)]
        \/ new = [i \in 1..2 * Len(q) |-> IF i % 2 = 1 THEN Look(q[(i + 1) \div 2], v \in Firsts)
                                         ELSE Attach(q[i \div 2], v)]
    BY <1>1, <2>1, Zenon
  <2>3. /\ new \in Seq(BindingTask) /\ \A t \in ToSet(new) : t.kind # "tell"
        /\ \A b \in ToSet(q) : \E t \in ToSet(new) : t.kind = "look" /\ t.of = b
    BY <2>2, TasksOfTarget, Zenon
  <2> QED
    BY <2>1, <2>3
<1>6. /\ agenda' \in Seq(BindingTask) /\ TellsAtOnce'
      /\ ToSet(agenda') = ToSet(new) \union ToSet(agenda)
  BY <1>1, <1>2, <1>3, <1>5, AgendaGrows
<1>7. \A b \in Bound \ disposed : LooksLater(b)'
  BY <1>4, <1>5, <1>6 DEF LooksLater
<1>8. LooksOrShows'
  BY <1>2, <1>7 DEF LooksOrShows
<1>9. sets' \in 0..MaxSets
  BY <1>2, <1>3, BindingsAssumption DEF BindingsTypes
<1>10. BindingsTypes'
  BY <1>2, <1>3, <1>6, <1>9 DEF BindingsTypes, Fits
<1>11. MetIsWatched'
  BY <1>2, <1>3 DEF MetIsWatched
<1> QED
  BY <1>6, <1>8, <1>10, <1>11 DEF BindingsInv

-----------------------------------------------------------------------------
LEMMA LookAgainStep ==
  ASSUME BindingsInv, LookAgain
  PROVE  BindingsInv'
<1>1. PICK b, v, w, rest : b = Head(agenda).of /\ v = PathFrom(target) /\ w = Head(agenda).with /\ rest = Tail(agenda)
  OBVIOUS
<1>2. BindingsTypes /\ MetIsWatched /\ LooksOrShows /\ TellsAtOnce
  BY DEF BindingsInv
<1>3. agenda # <<>> /\ Head(agenda).kind = "look" /\ b \notin disposed
  BY <1>1 DEF LookAgain, Doing
<1>4. /\ (w => Watches(b, target) /\ ~PipesTooOften(b)) /\ (~w => MeetsUnwatched(b, target))
      /\ shown' = [shown EXCEPT ![b] = v]
      /\ agenda' = (IF v = shown[b] THEN <<>> ELSE <<Tell(b, v)>>) \o rest
      /\ cut' = cut \ {b} /\ UNCHANGED <<target, member, disposed, sets, told>>
  BY <1>1 DEF LookAgain, Progress
<1>5. target \in Firsts \union {Undefined, Null}
  BY <1>2 DEF BindingsTypes
<1>6. /\ b \in Bound /\ w \in BOOLEAN /\ rest \in Seq(BindingTask)
      /\ ToSet(agenda) = {Head(agenda)} \union ToSet(rest)
  BY <1>1, <1>2, <1>3, FirstTask
<1>7. v \in Values \union {Null}
  BY <1>1, <1>2, <1>5, PathTypes
<1>8. /\ watchers' \in [Objects -> Seq(Bound)] /\ last' \in [Bound -> [Levels -> Objects \union {Null}]]
      /\ watching' \in [Bound -> SUBSET Levels] /\ pipes' \in [Bound -> 1..MaxPipes + 1]
      /\ unwatched' \subseteq Bound /\ unwatched \subseteq unwatched'
      /\ \A o \in Objects : ToSet(watchers[o]) \subseteq ToSet(watchers'[o])
      /\ MetIsWatched'
      /\ b \notin disposed \union unwatched' => \A l \in Levels :
           Source(target)[l] \in Objects => b \in ToSet(watchers'[Source(target)[l]])
  <2>1. CASE w
    <3>1. unwatched \subseteq Bound
      BY <1>2 DEF BindingsTypes
    <3>2. Watches(b, target) /\ ~PipesTooOften(b) /\ UNCHANGED disposed
      BY <1>4, <2>1
    <3> QED
      BY <1>2, <1>5, <1>6, <3>1, <3>2, WatchesAll
  <2>2. CASE ~w
    <3>1. /\ watchers \in [Objects -> Seq(Bound)]
          /\ watching \in [Bound -> SUBSET Levels] /\ pipes \in [Bound -> 1..MaxPipes + 1]
      BY <1>2 DEF BindingsTypes
    <3>2. MeetsUnwatched(b, target) /\ UNCHANGED disposed
      BY <1>4, <2>2
    <3> QED
      BY <1>2, <1>5, <1>6, <3>1, <3>2, MeetsOrIsUnwatched
  <2> QED
    BY <1>6, <2>1, <2>2
<1>9. /\ PathFrom(target)' = PathFrom(target) /\ Source(target)' = Source(target)
      /\ \A c \in Bound : Watched(c, target) => Watched(c, target)'
  BY <1>2, <1>4, <1>8, StaysWatched
<1>10. shown' \in [Bound -> Values \union {Null}] /\ shown'[b] = v /\ \A c \in Bound \ {b} : shown'[c] = shown[c]
  BY <1>2, <1>4, <1>6, <1>7 DEF BindingsTypes
<1>11. /\ agenda' \in Seq(BindingTask) /\ ToSet(rest) \subseteq ToSet(agenda') /\ TellsAtOnce'
  <2>1. \A t \in ToSet(rest) : t.kind # "tell"
    BY <1>1, <1>2, <1>3 DEF TellsAtOnce
  <2>2. \A c \in Bound : told[c] = shown[c]
    BY <1>2, <1>3 DEF TellsAtOnce, Doing
  <2>3. CASE v = shown[b]
    <3>1. agenda' = rest
      BY <1>4, <1>6, <2>3, ConcatEmptySeq
    <3>2. \A c \in Bound : told'[c] = shown'[c]
      BY <1>4, <1>10, <2>2, <2>3
    <3> QED
      BY <1>6, <2>1, <3>1, <3>2, NothingToTell
  <2>4. CASE v # shown[b]
    <3>1. PICK t : t = Tell(b, v)
      OBVIOUS
    <3>2. t \in BindingTask /\ t.kind = "tell" /\ t.of = b /\ t.with = v
      BY <1>6, <1>7, <3>1, TaskTypes
    <3>3. agenda' = <<t>> \o rest
      BY <1>4, <2>4, <3>1
    <3>4. agenda' \in Seq(BindingTask) /\ ToSet(agenda') = {t} \union ToSet(rest)
      <4>1. <<t>> \in Seq(BindingTask) /\ ToSet(<<t>>) = {t}
        BY <3>2, ElementsOfNothing
      <4>2. PICK one \in Seq(BindingTask) : one = <<t>>
        BY <4>1
      <4>3. one \o rest \in Seq(BindingTask) /\ ToSet(one \o rest) = ToSet(one) \union ToSet(rest)
        BY <1>6, ElementsOfConcat
      <4> QED
        BY <3>3, <4>1, <4>2, <4>3
    <3>5. agenda' # <<>> /\ Head(agenda') = t /\ Tail(agenda') = rest
      BY <1>6, <3>2, <3>3
    <3>6. \A c \in Bound : told'[c] = shown'[c] \/ c = b
      BY <1>4, <1>10, <2>2
    <3>7. TellsAtOnce'
      BY <1>10, <2>1, <3>2, <3>5, <3>6 DEF TellsAtOnce, Doing
    <3> QED
      BY <3>4, <3>7
  <2> QED
    BY <2>3, <2>4
<1>12. ASSUME NEW c \in Bound \ (disposed \union unwatched \union cut)'
       PROVE  LooksLater(c)' \/ (shown'[c] = PathFrom(target)' /\ Watched(c, target)')
  <2>1. CASE c = b
    <3>1. Watched(b, target)'
      BY <1>4, <1>8, <1>9, <2>1 DEF Watched
    <3> QED
      BY <1>1, <1>9, <1>10, <2>1, <3>1
  <2>2. CASE c # b
    <3>1. c \in Bound \ (disposed \union unwatched \union cut)
      BY <1>4, <1>8, <2>2
    <3>2. LooksLater(c) \/ (shown[c] = PathFrom(target) /\ Watched(c, target))
      BY <1>2, <3>1 DEF LooksOrShows
    <3>3. LooksLater(c) => LooksLater(c)'
      BY <1>1, <1>6, <1>11, <2>2 DEF LooksLater
    <3> QED
      BY <1>9, <1>10, <2>2, <3>2, <3>3
  <2> QED
    BY <2>1, <2>2
<1>13. LooksOrShows'
  BY <1>12 DEF LooksOrShows
<1>14. BindingsTypes'
  <2>1. cut' \subseteq Bound
    BY <1>2, <1>4 DEF BindingsTypes
  <2> QED
    BY <1>2, <1>4, <1>8, <1>10, <1>11, <2>1 DEF BindingsTypes, Fits
<1> QED
  BY <1>8, <1>11, <1>13, <1>14 DEF BindingsInv

\* What an exception ends: those that were to look are remembered.
LEMMA EndsAllStep ==
  ASSUME BindingsInv, Doing("look") \/ Doing("attach"), EndsAll,
         UNCHANGED <<target, member, disposed, sets, watchers, last, watching, pipes, shown, told, unwatched>>
  PROVE  BindingsInv'
<1>1. BindingsTypes /\ MetIsWatched /\ LooksOrShows /\ TellsAtOnce
  BY DEF BindingsInv
<1>2. /\ cut' = cut \union {agenda[i].of : i \in {j \in DOMAIN agenda : agenda[j].kind = "look"}}
      /\ agenda' = <<>>
  BY DEF EndsAll
<1>3. DOMAIN agenda = 1..Len(agenda) /\ \A i \in DOMAIN agenda : agenda[i] \in BindingTask /\ agenda[i].of \in Bound
  <2>1. DOMAIN agenda = 1..Len(agenda) /\ \A i \in DOMAIN agenda : agenda[i] \in BindingTask
    BY <1>1, LenProperties DEF BindingsTypes
  <2>2. \A t \in BindingTask : t.of \in Bound
    BY DEF BindingTask
  <2> QED
    BY <2>1, <2>2
<1>4. cut' \subseteq Bound /\ cut \subseteq cut' /\ \A b \in Bound : LooksLater(b) => b \in cut'
  BY <1>1, <1>2, <1>3 DEF BindingsTypes, LooksLater, ToSet
<1>5. agenda' \in Seq(BindingTask) /\ ToSet(agenda') = {}
  BY <1>2, ElementsOfNothing
<1>6. \A b \in Bound : told'[b] = shown'[b]
  BY <1>1 DEF TellsAtOnce, Doing
<1>7. TellsAtOnce'
  BY <1>5, <1>6, NothingToTell
<1>8. /\ PathFrom(target)' = PathFrom(target) /\ Source(target)' = Source(target)
      /\ \A b \in Bound : Watched(b, target) => Watched(b, target)'
  BY <1>1, StaysWatched
<1>9. LooksOrShows'
  BY <1>1, <1>4, <1>8 DEF LooksOrShows
<1>10. MetIsWatched'
  BY <1>1 DEF MetIsWatched
<1>11. BindingsTypes'
  BY <1>1, <1>4, <1>5 DEF BindingsTypes, Fits
<1> QED
  BY <1>7, <1>9, <1>10, <1>11 DEF BindingsInv

\* What is done and was no look leaves the others to look.
LEMMA OthersLook ==
  ASSUME BindingsTypes, LooksOrShows, UNCHANGED <<target, member, disposed, shown, unwatched, cut>>,
         \A o \in Objects : ToSet(watchers[o]) \subseteq ToSet(watchers'[o]),
         \A b \in Bound \ disposed : LooksLater(b) => LooksLater(b)'
  PROVE  LooksOrShows'
<1>1. /\ PathFrom(target)' = PathFrom(target) /\ Source(target)' = Source(target)
      /\ \A b \in Bound : Watched(b, target) => Watched(b, target)'
  BY StaysWatched
<1> QED
  BY <1>1 DEF LooksOrShows

LEMMA AttachStep ==
  ASSUME BindingsInv, AttachAgain
  PROVE  BindingsInv'
<1>1. PICK b, v : b = Head(agenda).of /\ v = Head(agenda).with
  OBVIOUS
<1>2. BindingsTypes /\ MetIsWatched /\ LooksOrShows /\ TellsAtOnce
  BY DEF BindingsInv
<1>3. agenda # <<>> /\ Head(agenda).kind = "attach" /\ UNCHANGED <<target, member, disposed, sets, shown, told>>
  BY DEF AttachAgain, Doing, Progress
<1>4. /\ b \in Bound /\ v \in Firsts \union {Undefined, Null}
      /\ ToSet(agenda) = {Head(agenda)} \union ToSet(Tail(agenda))
  BY <1>1, <1>2, <1>3, FirstTask
<1>5. CASE v = Null \/ PipesTooOften(b)
  <2>1. EndsAll /\ UNCHANGED <<watchers, last, watching, pipes, unwatched>>
    BY <1>1, <1>5 DEF AttachAgain
  <2>2. Doing("attach")
    BY DEF AttachAgain
  <2> QED
    BY <1>3, <2>1, <2>2, EndsAllStep
<1>6. CASE ~(v = Null \/ PipesTooOften(b))
  <2>1. Watches(b, v) /\ agenda' = Tail(agenda) /\ UNCHANGED cut
    BY <1>1, <1>6 DEF AttachAgain
  <2>2. /\ watchers' \in [Objects -> Seq(Bound)] /\ last' \in [Bound -> [Levels -> Objects \union {Null}]]
        /\ watching' \in [Bound -> SUBSET Levels] /\ pipes' \in [Bound -> 1..MaxPipes + 1] /\ unwatched' = unwatched
        /\ \A o \in Objects : ToSet(watchers[o]) \subseteq ToSet(watchers'[o])
        /\ MetIsWatched'
    BY <1>2, <1>3, <1>4, <1>6, <2>1, WatchesAll
  <2>3. /\ agenda' \in Seq(BindingTask) /\ TellsAtOnce'
        /\ ToSet(agenda) = {Head(agenda)} \union ToSet(agenda')
    BY <1>2, <1>3, <2>1, AgendaShrinks
  <2>4. \A c \in Bound : LooksLater(c) => LooksLater(c)'
    BY <1>3, <2>3 DEF LooksLater
  <2>5. LooksOrShows'
    BY <1>2, <1>3, <2>1, <2>2, <2>4, OthersLook
  <2>6. BindingsTypes'
    BY <1>2, <1>3, <2>1, <2>2, <2>3 DEF BindingsTypes, Fits
  <2> QED
    BY <2>2, <2>3, <2>5, <2>6 DEF BindingsInv
<1> QED
  BY <1>5, <1>6

LEMMA LookDisposedStep ==
  ASSUME BindingsInv, LookDisposed
  PROVE  BindingsInv'
<1>1. BindingsTypes /\ MetIsWatched /\ LooksOrShows /\ TellsAtOnce
  BY DEF BindingsInv
<1>2. /\ agenda # <<>> /\ Head(agenda).kind = "look" /\ Head(agenda).of \in disposed /\ agenda' = Tail(agenda)
      /\ UNCHANGED <<target, member, disposed, sets, watchers, last, watching, pipes, shown, told, unwatched, cut>>
  BY DEF LookDisposed, Doing, Progress
<1>3. /\ agenda' \in Seq(BindingTask) /\ TellsAtOnce'
      /\ ToSet(agenda) = {Head(agenda)} \union ToSet(agenda')
  BY <1>1, <1>2, AgendaShrinks
<1>4. \A b \in Bound \ disposed : LooksLater(b) => LooksLater(b)'
  BY <1>2, <1>3 DEF LooksLater
<1>5. LooksOrShows'
  BY <1>1, <1>2, <1>4, OthersLook
<1>6. BindingsTypes' /\ MetIsWatched'
  BY <1>1, <1>2, <1>3 DEF BindingsTypes, Fits, MetIsWatched
<1> QED
  BY <1>3, <1>5, <1>6 DEF BindingsInv

LEMMA HandlerStep ==
  ASSUME BindingsInv, HandlerIsTold \/ HandlerIsDone
  PROVE  BindingsInv'
<1>1. BindingsTypes /\ MetIsWatched /\ LooksOrShows /\ TellsAtOnce
  BY DEF BindingsInv
<1>2. /\ agenda # <<>> /\ Head(agenda).kind \in {"tell", "handling"}
      /\ UNCHANGED <<target, member, disposed, sets, watchers, last, watching, pipes, shown, unwatched, cut>>
  BY DEF HandlerIsTold, HandlerIsDone, Doing, Progress
<1>3. /\ agenda' \in Seq(BindingTask) /\ TellsAtOnce' /\ ToSet(Tail(agenda)) \subseteq ToSet(agenda')
      /\ told' \in [Bound -> Values \union {Null}]
  <2>1. CASE HandlerIsDone
    <3>1. Head(agenda).kind = "handling" /\ agenda' = Tail(agenda) /\ told' = told
      BY <2>1 DEF HandlerIsDone, Doing
    <3> QED
      BY <1>1, <1>2, <3>1, AgendaShrinks DEF BindingsTypes
  <2>2. CASE HandlerIsTold
    <3>1. PICK b, v, rest : b = Head(agenda).of /\ v = Head(agenda).with /\ rest = Tail(agenda)
      OBVIOUS
    <3>2. /\ Doing("tell") /\ Head(agenda).kind = "tell" /\ told' = [told EXCEPT ![b] = v]
          /\ agenda' = <<Handling(b)>> \o rest
      BY <2>2, <3>1 DEF HandlerIsTold, Doing
    <3>3. b \in Bound /\ v \in Values \union {Null} /\ rest \in Seq(BindingTask)
      BY <1>1, <1>2, <3>1, <3>2, FirstTask
    <3>4. v = shown[b] /\ (\A t \in ToSet(rest) : t.kind # "tell") /\ \A c \in Bound \ {b} : told[c] = shown[c]
      BY <1>1, <1>2, <3>1, <3>2 DEF TellsAtOnce
    <3>5. PICK one \in Seq(BindingTask) : one = <<Handling(b)>> /\ ToSet(one) = {Handling(b)}
      <4>1. PICK h \in BindingTask : h = Handling(b)
        BY <3>3, TaskTypes
      <4>2. <<h>> \in Seq(BindingTask) /\ ToSet(<<h>>) = {h}
        BY ElementsOfNothing
      <4> QED
        BY <4>1, <4>2
    <3>6. agenda' \in Seq(BindingTask) /\ ToSet(agenda') = ToSet(one) \union ToSet(rest)
      BY <3>2, <3>3, <3>5, ElementsOfConcat
    <3>7. \A t \in ToSet(agenda') : t.kind # "tell"
      BY <3>3, <3>4, <3>5, <3>6, TaskTypes
    <3>8. told' \in [Bound -> Values \union {Null}] /\ \A c \in Bound : told'[c] = IF c = b THEN v ELSE told[c]
      BY <1>1, <3>2, <3>3 DEF BindingsTypes
    <3>9. \A c \in Bound : told'[c] = shown'[c]
      BY <1>2, <3>4, <3>8
    <3> QED
      BY <3>1, <3>6, <3>7, <3>8, <3>9, NothingToTell
  <2> QED
    BY <2>1, <2>2
<1>4. \A b \in Bound : LooksLater(b) => LooksLater(b)'
  <2>1. ToSet(agenda) = {Head(agenda)} \union ToSet(Tail(agenda))
    BY <1>1, <1>2, FirstTask
  <2> QED
    BY <1>2, <1>3, <2>1 DEF LooksLater
<1>5. LooksOrShows'
  BY <1>1, <1>2, <1>4, OthersLook
<1>6. BindingsTypes' /\ MetIsWatched'
  BY <1>1, <1>2, <1>3 DEF BindingsTypes, Fits, MetIsWatched
<1> QED
  BY <1>3, <1>5, <1>6 DEF BindingsInv

LEMMA BindingsStep == BindingsInv /\ [BindingsNext]_bindingsVars => BindingsInv'
<1> SUFFICES ASSUME BindingsInv, [BindingsNext]_bindingsVars PROVE BindingsInv'
  OBVIOUS
<1>1. ASSUME NEW o \in Objects, NEW v \in Seconds \union {Null} \union Values, SetMember(o, v) PROVE BindingsInv'
  BY <1>1, SetMemberStep
<1>2. ASSUME NEW v \in Firsts \union {Undefined, Null}, SetTarget(v) PROVE BindingsInv'
  BY <1>2, SetTargetStep
<1>3. ASSUME NEW b \in Bound, DisposeBinding(b) PROVE BindingsInv'
  BY <1>3, DisposeStep
<1>4. ASSUME NEW b \in Bound, NEW v \in Values, SetThrough(b, v) PROVE BindingsInv'
  BY <1>4, SetThroughStep
<1>5. CASE LookAgain
  BY <1>5, LookAgainStep
<1>6. CASE LookThrows
  BY <1>6, EndsAllStep DEF LookThrows, Progress
<1>7. CASE LookDisposed
  BY <1>7, LookDisposedStep
<1>8. CASE AttachAgain
  BY <1>8, AttachStep
<1>9. CASE HandlerIsTold \/ HandlerIsDone
  BY <1>9, HandlerStep
<1>10. CASE UNCHANGED bindingsVars
  <2>1. BindingsTypes /\ MetIsWatched /\ LooksOrShows /\ TellsAtOnce
    BY DEF BindingsInv
  <2>2. UNCHANGED <<target, member, watchers, last, watching, pipes, shown, told, agenda, disposed, sets, unwatched, cut>>
    BY <1>10 DEF bindingsVars
  <2>3. BindingsTypes'
    BY <2>1, <2>2 DEF BindingsTypes, Fits
  <2>4. MetIsWatched'
    BY <2>1, <2>2 DEF MetIsWatched
  <2>5. \A b \in Bound : LooksLater(b) => LooksLater(b)'
    BY <2>2 DEF LooksLater
  <2>6. LooksOrShows'
    BY <2>1, <2>2, <2>5, OthersLook
  <2>7. TellsAtOnce'
    BY <2>1, <2>2 DEF TellsAtOnce, Doing
  <2> QED
    BY <2>3, <2>4, <2>6, <2>7 DEF BindingsInv
<1> QED
  BY <1>1, <1>2, <1>3, <1>4, <1>5, <1>6, <1>7, <1>8, <1>9, <1>10 DEF BindingsNext

LEMMA BindingsBegin == BindingsInit => BindingsInv
<1> SUFFICES ASSUME BindingsInit PROVE BindingsInv
  OBVIOUS
<1>1. /\ target \in Firsts \union {Undefined}
      /\ member \in [Objects -> Seconds \union {Null} \union Values]
      /\ (\A o \in Firsts : member[o] \notin Values) /\ (\A o \in Seconds : member[o] \in Values)
      /\ last = [b \in Bound |-> [l \in Levels |-> Source(target)[l]]]
      /\ watchers = [o \in Objects |-> IF \E l \in Levels : Source(target)[l] = o THEN Piped ELSE <<>>]
      /\ watching = [b \in Bound |-> {l \in Levels : Source(target)[l] # Null}]
      /\ pipes = [b \in Bound |-> 1]
      /\ shown = [b \in Bound |-> PathFrom(target)]
      /\ told = shown
      /\ agenda = <<>> /\ disposed = {} /\ sets = 0 /\ unwatched = {} /\ cut = {}
  BY DEF BindingsInit
<1>2. \A o \in Objects : Fits(o, member[o])
  BY <1>1, BindingsAssumption DEF Fits, Objects
<1>3. Source(target) \in [Levels -> Objects \union {Null}] /\ PathFrom(target) \in Values \union {Null}
  <2>1. \A o \in Firsts : member[o] \in Seconds \union {Null}
    BY <1>1 DEF Objects
  <2>2. Source(target) \in [Levels -> Objects \union {Null}]
    BY <2>1 DEF Source, Objects
  <2>3. PathFrom(target) \in Values \union {Null}
    BY <1>1 DEF PathFrom
  <2> QED
    BY <2>2, <2>3
<1>4. PICK s \in [Levels -> Objects \union {Null}] : s = Source(target)
  BY <1>3
<1>5. watchers \in [Objects -> Seq(Bound)]
  <2>1. <<>> \in Seq(Bound)
    OBVIOUS
  <2> QED
    BY <1>1, <2>1, BoundIsPiped
<1>6. /\ last \in [Bound -> [Levels -> Objects \union {Null}]] /\ watching \in [Bound -> SUBSET Levels]
      /\ shown \in [Bound -> Values \union {Null}] /\ told \in [Bound -> Values \union {Null}]
      /\ \A b \in Bound : last[b] = s
  BY <1>1, <1>3, <1>4
<1>7. pipes \in [Bound -> 1..MaxPipes + 1] /\ sets \in 0..MaxSets
  BY <1>1, BindingsAssumption
<1>8. agenda \in Seq(BindingTask) /\ ToSet(agenda) = {}
  BY <1>1, ElementsOfNothing
<1>9. BindingsTypes
  BY <1>1, <1>2, <1>5, <1>6, <1>7, <1>8 DEF BindingsTypes
<1>10. ASSUME NEW b \in Bound, NEW l \in Levels, s[l] \in Objects PROVE b \in ToSet(watchers[s[l]])
  <2>1. watchers[s[l]] = Piped
    BY <1>1, <1>4, <1>10
  <2> QED
    BY <2>1, BoundIsPiped
<1>11. MetIsWatched
  BY <1>6, <1>10 DEF MetIsWatched
<1>12. LooksOrShows
  BY <1>1, <1>4, <1>10 DEF LooksOrShows, Watched
<1>13. TellsAtOnce
  BY <1>1 DEF TellsAtOnce, Doing
<1> QED
  BY <1>9, <1>11, <1>12, <1>13 DEF BindingsInv

\* A binding has the value of its path whenever no call is in progress, its
\* handler was told that value last and every object the path goes through
\* tells it of its member: whatever the program and its handlers set, in any
\* order and any depth of nesting, but for the bindings that were set while
\* their path moved, or that an exception kept from looking (object.ts:228-276,
\* 902-946, 1068-1074).
THEOREM BindingsFollowTheirPath == BindingsSpec => []BindingsFollow
<1>1. BindingsInv => BindingsFollow
  <2> SUFFICES ASSUME BindingsInv PROVE BindingsFollow
    OBVIOUS
  <2>1. BindingsTypes /\ LooksOrShows /\ TellsAtOnce
    BY DEF BindingsInv
  <2>2. BindingsTypeOK
    BY <2>1 DEF BindingsTypes, BindingsTypeOK
  <2>3. AtRest => \A b \in Bound : ~LooksLater(b)
    BY ElementsOfNothing DEF AtRest, LooksLater
  <2>4. AtRest => \A b \in Bound \ (disposed \union unwatched \union cut) :
          shown[b] = PathFrom(target) /\ Watched(b, target)
    BY <2>1, <2>3 DEF LooksOrShows
  <2>5. FollowsItsPath
    BY <2>4 DEF FollowsItsPath
  <2>6. HandlersKnow
    <3>1. told \in [Bound -> Values \union {Null}] /\ shown \in [Bound -> Values \union {Null}]
      BY <2>1 DEF BindingsTypes
    <3>2. AtRest => \A b \in Bound : told[b] = shown[b]
      BY <2>1 DEF AtRest, TellsAtOnce, Doing
    <3> QED
      BY <3>1, <3>2 DEF HandlersKnow
  <2>7. PathIsWatched
    <3>1. \A o \in Objects : \A b : b \in ToSet(watchers[o]) => Contains(watchers[o], b)
      BY <2>1, ElementsOf DEF BindingsTypes, Contains
    <3> QED
      BY <2>4, <3>1 DEF PathIsWatched, Watched
  <2> QED
    BY <2>2, <2>5, <2>6, <2>7 DEF BindingsFollow
<1> QED
  BY <1>1, BindingsBegin, BindingsStep, PTL DEF BindingsSpec

-----------------------------------------------------------------------------
\* What a listener of an array may read, and what may follow an emission.
Place == [index : Int, item : Slots]
ArrayEvent ==
  [action : {"push", "unshift"}, items : Seq(Slots)]
    \union [action : {"pop", "shift"}, count : Nat]
    \union [action : {"replace", "broken"}, places : Seq(Place)]
Afterwards ==
  [do : {"nothing"}] \union [do : {"push"}, items : Seq(Slots)]
    \union [do : {"pop"}, count : Nat] \union [do : {"cut"}, length : Nat]

\* The result has still to hear of f; a is still to be cut after f.
HearsLater(f) == "result" \in ToSet(f.todo)
CutsLater(f, a) == f.of = a /\ f.next.do = "cut"
Unsettled(f, a) == HearsLater(f) \/ CutsLater(f, a)
\* What the items s of a are once f is over.
Then(f, s, a) == IF CutsLater(f, a) THEN SubSeq(s, 1, Min({f.next.length, Len(s)})) ELSE s

\* An emission calls a listener once; the result can read what it has still to hear.
EmissionsUnderWay ==
  {f \in [of : Arrays, event : ArrayEvent \union {Unread}, todo : Seq({"program", "result"}),
          running : BOOLEAN, next : Afterwards] :
     IsInjective(f.todo) /\ (HearsLater(f) => f.event \in ArrayEvent)}

ArraysTypes ==
  /\ array \in [Arrays \union Plains -> Seq(Slots)] /\ result \in Seq(Slots)
  /\ listening \in [Arrays -> Seq({"program", "result"})] /\ \A a \in Arrays : IsInjective(listening[a])
  /\ value \in Arrays \union Plains \union {Nothing}
  /\ promise \in Promises \union {Nothing} /\ waiting \subseteq Promises
  /\ emitting \in Seq(EmissionsUnderWay) /\ Len(emitting) <= MaxNested
  /\ methods \in Nat
  /\ latest \in Arrays \union Plains \union Promises \union {Nothing}
  /\ overtaken \in BOOLEAN /\ strayed \in BOOLEAN

\* With the items s of a followed, and the items r of the result: one event at
\* most is to be heard, or one cut to be done, and leads from the one to the other.
InStep(ems, s, r, a) ==
  /\ \A i, j \in DOMAIN ems : Unsettled(ems[i], a) /\ Unsettled(ems[j], a) => i = j
  /\ (\A i \in DOMAIN ems : ~Unsettled(ems[i], a)) => r = s
  /\ \A i \in DOMAIN ems : HearsLater(ems[i]) =>
       ems[i].of = a /\ Heard(r, ems[i].event) = Then(ems[i], s, a)
  /\ \A i \in DOMAIN ems : CutsLater(ems[i], a) /\ ~HearsLater(ems[i]) => r = Then(ems[i], s, a)

FollowsInStep == value # Nothing /\ ~strayed => InStep(emitting, array[value], result, value)

ArraysInv == ArraysTypes /\ FollowsInStep /\ FollowsTheValue /\ ShowsTheLatest

-----------------------------------------------------------------------------
LEMMA OfTwo ==
  ASSUME NEW a \in Int, NEW b \in Int
  PROVE  Max({a, b}) = (IF a >= b THEN a ELSE b) /\ Min({a, b}) = (IF a <= b THEN a ELSE b)
<1>1. PICK m \in {a, b} : \A y \in {a, b} : m >= y
  OBVIOUS
<1>2. Max({a, b}) \in {a, b} /\ \A y \in {a, b} : Max({a, b}) >= y
  BY <1>1 DEF Max
<1>3. PICK n \in {a, b} : \A y \in {a, b} : n <= y
  OBVIOUS
<1>4. Min({a, b}) \in {a, b} /\ \A y \in {a, b} : Min({a, b}) <= y
  BY <1>3 DEF Min
<1> QED
  BY <1>2, <1>4

\* g items of s are replaced by t, from place f + 1 on.
PutIn(s, f, g, t) == SubSeq(s, 1, f) \o t \o SubSeq(s, f + g + 1, Len(s))

IsPut(u, S, s, f, g, t) ==
  /\ u \in Seq(S) /\ Len(u) = Len(s) - g + Len(t)
  /\ \A k \in 1..f : u[k] = s[k]
  /\ \A k \in 1..Len(t) : u[f + k] = t[k]
  /\ \A k \in 1..(Len(s) - f - g) : u[f + Len(t) + k] = s[f + g + k]

LEMMA PutBetween ==
  ASSUME NEW S, NEW s \in Seq(S), NEW t \in Seq(S), NEW f \in Nat, NEW g \in Nat, f + g <= Len(s)
  PROVE  IsPut(PutIn(s, f, g, t), S, s, f, g, t)
<1>1. PICK n \in Nat, m \in Nat, h \in Nat : n = Len(s) /\ m = Len(t) /\ h = f + g /\ h <= n
  BY LenProperties
<1>2. PICK a : a = SubSeq(s, 1, f)
  OBVIOUS
<1>3. a \in Seq(S) /\ Len(a) = f /\ \A k \in 1..f : a[k] = s[k]
  <2>1. /\ SubSeq(s, 0 + 1, f) \in Seq(S) /\ Len(SubSeq(s, 0 + 1, f)) = f - 0
        /\ \A i \in 1..(f - 0) : SubSeq(s, 0 + 1, f)[i] = s[0 + i]
    BY <1>1, PartOf
  <2> QED
    BY <1>2, <2>1
<1>4. PICK c : c = SubSeq(s, f + g + 1, Len(s))
  OBVIOUS
<1>5. c \in Seq(S) /\ Len(c) = n - h /\ \A k \in 1..(n - h) : c[k] = s[h + k]
  <2>1. /\ SubSeq(s, h + 1, n) \in Seq(S) /\ Len(SubSeq(s, h + 1, n)) = n - h
        /\ \A i \in 1..(n - h) : SubSeq(s, h + 1, n)[i] = s[h + i]
    BY <1>1, PartOf
  <2> QED
    BY <1>1, <1>4, <2>1
<1>6. PICK b : b = a \o t
  OBVIOUS
<1>7. /\ b \in Seq(S) /\ Len(b) = f + m /\ (\A k \in 1..f : b[k] = s[k])
      /\ \A k \in 1..m : b[f + k] = t[k]
  <2>1. /\ a \o t \in Seq(S) /\ Len(a \o t) = Len(a) + Len(t)
        /\ \A i \in 1..Len(a) : (a \o t)[i] = a[i]
        /\ \A i \in 1..Len(t) : (a \o t)[Len(a) + i] = t[i]
    <3>1. a \in Seq(S)
      BY <1>3
    <3> QED
      BY <3>1, ConcatParts
  <2> QED
    BY <1>1, <1>3, <1>6, <2>1
<1>8. PICK u : u = b \o c
  OBVIOUS
<1>9. /\ u \in Seq(S) /\ Len(u) = f + m + (n - h) /\ (\A k \in 1..f + m : u[k] = b[k])
      /\ \A k \in 1..(n - h) : u[(f + m) + k] = c[k]
  <2>1. /\ b \o c \in Seq(S) /\ Len(b \o c) = Len(b) + Len(c)
        /\ \A i \in 1..Len(b) : (b \o c)[i] = b[i]
        /\ \A i \in 1..Len(c) : (b \o c)[Len(b) + i] = c[i]
    <3>1. b \in Seq(S) /\ c \in Seq(S)
      BY <1>5, <1>7
    <3> QED
      BY <3>1, ConcatParts
  <2> QED
    BY <1>5, <1>7, <1>8, <2>1
<1>10. /\ \A k \in 1..f : u[k] = s[k]
       /\ \A k \in 1..m : u[f + k] = t[k]
       /\ \A k \in 1..(n - h) : u[f + m + k] = s[h + k]
  <2>1. \A k \in 1..f : k \in 1..f + m
    BY <1>1
  <2>2. \A k \in 1..m : f + k \in 1..f + m
    BY <1>1
  <2> QED
    BY <1>5, <1>7, <1>9, <2>1, <2>2
<1>11. u = PutIn(s, f, g, t)
  BY <1>2, <1>4, <1>6, <1>8 DEF PutIn
<1>12. Len(u) = n - g + m /\ n - f - g = n - h /\ f + g = h
  BY <1>1, <1>9
<1>13. IsPut(u, S, s, f, g, t)
  BY <1>1, <1>9, <1>10, <1>12 DEF IsPut
<1> QED
  BY <1>11, <1>13

\* Where splice() cuts, and how much.
From(n, start) == IF start < 0 THEN IF n + start >= 0 THEN n + start ELSE 0
                  ELSE IF start <= n THEN start ELSE n
Lesser(a, b) == IF a <= b THEN a ELSE b

Spliced(s, start, count, items, f, g) ==
  /\ f \in Nat /\ g \in Nat /\ f + g <= Len(s)
  /\ JsSplice(s, start, count, items).gone = g
  /\ JsSplice(s, start, count, items).array = PutIn(s, f, g, items)
  /\ JsSplice(s, start, count, items).removed = SubSeq(s, f + 1, f + g)

LEMMA Splices ==
  ASSUME NEW s \in Seq(Slots), NEW start \in Int, NEW count \in Nat, NEW items \in Seq(Slots),
         NEW f, f = From(Len(s), start), NEW g, g = Lesser(count, Len(s) - f)
  PROVE  Spliced(s, start, count, items, f, g)
<1>1. PICK n \in Nat : n = Len(s)
  BY LenProperties
<1>2. f \in Nat /\ f <= n /\ f = IF start < 0 THEN IF n + start >= 0 THEN n + start ELSE 0
                                ELSE IF start <= n THEN start ELSE n
  BY <1>1 DEF From
<1>3. PICK r \in Nat : r = n - f
  <2>1. n - f \in Nat
    BY <1>1, <1>2
  <2> QED
    BY <2>1
<1>4. g \in Nat /\ g = (IF count <= r THEN count ELSE r) /\ f + g <= n
  <2>1. g = IF count <= r THEN count ELSE r
    BY <1>1, <1>3 DEF Lesser
  <2>2. CASE count <= r
    BY <1>1, <1>2, <1>3, <2>1, <2>2
  <2>3. CASE ~(count <= r)
    BY <1>1, <1>2, <1>3, <2>1, <2>3
  <2> QED
    BY <2>2, <2>3
<1>5. (IF start < 0 THEN Max({n + start, 0}) ELSE Min({start, n})) = f
  <2>1. PICK c \in Int : c = n + start
    BY <1>1
  <2>2. Max({c, 0}) = (IF c >= 0 THEN c ELSE 0) /\ Min({start, n}) = (IF start <= n THEN start ELSE n)
    <3>1. 0 \in Int /\ n \in Int
      OBVIOUS
    <3>2. Max({c, 0}) = (IF c >= 0 THEN c ELSE 0)
      BY <3>1, OfTwo, Zenon
    <3>3. Min({start, n}) = (IF start <= n THEN start ELSE n)
      BY <3>1, OfTwo, Zenon
    <3> QED
      BY <3>2, <3>3, Zenon
  <2> QED
    BY <1>1, <1>2, <2>1, <2>2
<1>6. Max({0, Min({count, n - f})}) = g
  <2>1. Min({count, r}) = g
    <3>1. count \in Int /\ r \in Int
      OBVIOUS
    <3>2. Min({count, r}) = (IF count <= r THEN count ELSE r)
      BY <3>1, OfTwo, Zenon
    <3> QED
      BY <1>4, <3>2
  <2>2. Max({0, g}) = g
    BY <1>4, OfTwo
  <2> QED
    BY <1>3, <2>1, <2>2
<1>7. PICK u : u = PutIn(s, f, g, items)
  OBVIOUS
<1>8. /\ JsSplice(s, start, count, items).gone = g /\ JsSplice(s, start, count, items).array = u
      /\ JsSplice(s, start, count, items).removed = SubSeq(s, f + 1, f + g)
  <2>1. JsSplice(s, start, count, items)
          = [array |-> PutIn(s, f, g, items), gone |-> g, removed |-> SubSeq(s, f + 1, f + g)]
    BY <1>1, <1>5, <1>6, Zenon DEF JsSplice, PutIn
  <2>2. PICK j : j = JsSplice(s, start, count, items)
    OBVIOUS
  <2>5. PICK o : o = SubSeq(s, f + 1, f + g)
    OBVIOUS
  <2>3. j = [array |-> u, gone |-> g, removed |-> o]
    BY <1>7, <2>1, <2>2, <2>5, Zenon
  <2>4. j.array = u /\ j.gone = g /\ j.removed = o
    BY <2>3
  <2> QED
    BY <2>2, <2>4, <2>5, Zenon
<1> QED
  BY <1>1, <1>2, <1>4, <1>7, <1>8, Zenon DEF Spliced

LEMMA SplicesItems ==
  ASSUME NEW s \in Seq(Slots), NEW start \in Int, NEW count \in Nat, NEW items \in Seq(Slots)
  PROVE  JsSplice(s, start, count, items).array \in Seq(Slots) /\ JsSplice(s, start, count, items).gone \in Nat
<1>1. PICK f : f = From(Len(s), start)
  OBVIOUS
<1>2. PICK g : g = Lesser(count, Len(s) - f)
  OBVIOUS
<1>3. Spliced(s, start, count, items, f, g)
  BY <1>1, <1>2, Splices, Zenon
<1>4. PutIn(s, f, g, items) \in Seq(Slots)
  BY <1>3, PutBetween, Zenon DEF Spliced, IsPut
<1> QED
  BY <1>3, <1>4, Zenon DEF Spliced

\* One place of an array is written.
IsWritten(u, s, p) ==
  /\ u \in Seq(Slots) /\ Len(u) = Len(s)
  /\ \A j \in 1..Len(s) : u[j] = IF j = p.index + 1 THEN p.item ELSE s[j]

LEMMA WritesOne ==
  ASSUME NEW s \in Seq(Slots), NEW p \in Place, p.index >= 0, p.index < Len(s)
  PROVE  IsWritten(JsSplice(s, p.index, 1, <<p.item>>).array, s, p)
<1>1. PICK n \in Nat : n = Len(s)
  BY LenProperties
<1>2. PICK f \in Nat : f = p.index /\ f < n
  BY <1>1 DEF Place
<1>3. PICK x \in Slots : x = p.item
  BY DEF Place
<1>4. <<x>> \in Seq(Slots) /\ Len(<<x>>) = 1 /\ <<x>>[1] = x
  OBVIOUS
<1>5. PICK one \in Seq(Slots) : one = <<x>> /\ Len(one) = 1 /\ one[1] = x
  BY <1>4
<1>6. PICK g \in Nat : g = 1
  OBVIOUS
<1>7. PICK u : u = PutIn(s, f, g, one)
  OBVIOUS
<1>8. JsSplice(s, f, g, one).array = u
  <2>1. f = From(Len(s), f)
    BY <1>1, <1>2 DEF From
  <2>2. g = Lesser(g, Len(s) - f)
    BY <1>1, <1>2, <1>6 DEF Lesser
  <2>3. f \in Int
    OBVIOUS
  <2>4. Spliced(s, f, g, one, f, g)
    BY <2>1, <2>2, <2>3, Splices, Zenon
  <2> QED
    BY <1>7, <2>4, Zenon DEF Spliced
<1>9. /\ u \in Seq(Slots) /\ Len(u) = n - g + Len(one)
      /\ \A k \in 1..f : u[k] = s[k]
      /\ \A k \in 1..Len(one) : u[f + k] = one[k]
      /\ \A k \in 1..(n - f - g) : u[f + Len(one) + k] = s[f + g + k]
  <2>1. f + g <= Len(s)
    BY <1>1, <1>2, <1>6
  <2>2. IsPut(PutIn(s, f, g, one), Slots, s, f, g, one)
    BY <2>1, PutBetween, Zenon
  <2> QED
    BY <1>1, <1>7, <2>2, Zenon DEF IsPut
<1>10. /\ Len(u) = n /\ u[f + 1] = x
       /\ \A k \in 1..(n - f - 1) : u[f + 1 + k] = s[f + 1 + k]
  BY <1>1, <1>2, <1>5, <1>6, <1>9
<1>11. ASSUME NEW j \in 1..n PROVE u[j] = IF j = f + 1 THEN x ELSE s[j]
  <2>1. CASE j <= f
    BY <1>2, <1>9, <2>1
  <2>2. CASE j = f + 1
    BY <1>10, <2>2
  <2>3. CASE j > f + 1
    <3>1. PICK k \in 1..(n - f - 1) : j = f + 1 + k
      <4>1. j - f - 1 \in 1..(n - f - 1) /\ j = f + 1 + (j - f - 1)
        BY <1>2, <2>3
      <4> QED
        BY <4>1
    <3>2. u[j] = s[j]
      BY <1>10, <3>1
    <3> QED
      BY <1>2, <2>3, <3>2
  <2> QED
    BY <1>2, <2>1, <2>2, <2>3
<1>12. u = JsSplice(s, p.index, 1, <<p.item>>).array
  BY <1>2, <1>3, <1>5, <1>6, <1>8, Zenon
<1>13. IsWritten(u, s, p)
  BY <1>1, <1>2, <1>3, <1>11, <1>9, <1>10 DEF IsWritten
<1> QED
  BY <1>12, <1>13, Zenon

\* The places are written in turn.
InTurn(w, s, places) ==
  /\ w[0] = s /\ WriteAll(s, places) = w[Len(places)]
  /\ \A n \in 1..Len(places) : w[n] = JsSplice(w[n - 1], places[n].index, 1, <<places[n].item>>).array

LEMMA WritesInTurn ==
  ASSUME NEW s \in Seq(Slots), NEW places \in Seq(Place)
  PROVE  \E w \in [0..Len(places) -> Seq(Slots)] : InTurn(w, s, places)
<1>1. PICK N \in Nat : N = Len(places) /\ \A n \in 1..N : places[n] \in Place
  BY LenProperties
<1> DEFINE V == Seq(Slots)
           step == [n \in 1..N |-> [v \in V |-> JsSplice(v, places[n].index, 1, <<places[n].item>>).array]]
           Writes(g) == g = [n \in 0..N |-> IF n = 0 THEN s
                              ELSE JsSplice(g[n - 1], places[n].index, 1, <<places[n].item>>).array]
           written == CHOOSE g : Writes(g)
<1>2. \A n \in 1..N : places[n].index \in Int /\ <<places[n].item>> \in Seq(Slots)
  BY <1>1 DEF Place
<1>3. \A n \in 1..N : \A v \in V : JsSplice(v, places[n].index, 1, <<places[n].item>>).array \in V
  BY <1>2, SplicesItems
<1> HIDE DEF V
<1>4. step \in [1..N -> [V -> V]] /\ s \in V
  BY <1>3 DEF V
<1>5. \A n \in 1..N : \A v \in V : step[n][v] = JsSplice(v, places[n].index, 1, <<places[n].item>>).array
  OBVIOUS
<1> HIDE DEF step
<1>6. PICK g \in [0..N -> V] : g[0] = s /\ \A i \in 1..N : g[i] = step[i][g[i - 1]]
  <2>1. \E g \in [0..N -> V] : Iterates(g, s, step, N)
    BY <1>4, Recursion, Zenon
  <2> QED
    BY <2>1 DEF Iterates
<1>7. ASSUME NEW n \in 0..N
      PROVE  g[n] = IF n = 0 THEN s ELSE JsSplice(g[n - 1], places[n].index, 1, <<places[n].item>>).array
  <2>1. CASE n = 0
    BY <1>6, <2>1
  <2>2. CASE n # 0
    <3>1. n \in 1..N /\ n - 1 \in 0..N
      BY <1>1, <2>2
    <3>2. g[n - 1] \in V
      BY <1>6, <3>1
    <3>3. g[n] = step[n][g[n - 1]]
      BY <1>6, <3>1
    <3> QED
      BY <1>5, <2>2, <3>1, <3>2, <3>3
  <2> QED
    BY <2>1, <2>2
<1>8. Writes(g)
  <2>1. g = [n \in 0..N |-> g[n]]
    BY <1>6
  <2> QED
    BY <1>7, <2>1, Zenon
<1>9. Writes(written)
  BY <1>8
<1>10. WriteAll(s, places) = written[N]
  BY <1>1 DEF WriteAll
<1> HIDE DEF written
<1>11. written[0] = s /\ \A n \in 1..N : written[n] = JsSplice(written[n - 1], places[n].index, 1, <<places[n].item>>).array
  BY <1>1, <1>9
<1>12. \A n \in 0..N : written[n] \in V
  <2> DEFINE P == {n \in 0..N : written[n] \in V}
  <2>1. 0 \in P
    BY <1>1, <1>4, <1>11
  <2>2. ASSUME NEW n \in 1..N, n - 1 \in P PROVE n \in P
    <3>1. PICK v \in V : v = written[n - 1]
      BY <2>2
    <3>2. written[n] \in V
      BY <1>3, <1>11, <3>1
    <3> QED
      BY <1>1, <3>2
  <2> HIDE DEF P
  <2>3. \A n \in 1..N : n - 1 \in P => n \in P
    BY <2>2
  <2>4. \A n \in 0..N : n \in P
    BY <1>1, <2>1, <2>3, StepByStep
  <2> QED
    BY <2>4 DEF P
<1>13. written = [n \in 0..N |-> written[n]]
  BY <1>9
<1>14. written \in [0..N -> V]
  BY <1>12, <1>13
<1> QED
  BY <1>1, <1>10, <1>11, <1>14 DEF V, InTurn

LEMMA WritesItems ==
  ASSUME NEW s \in Seq(Slots), NEW places \in Seq(Place)
  PROVE  WriteAll(s, places) \in Seq(Slots)
<1>1. PICK w \in [0..Len(places) -> Seq(Slots)] : InTurn(w, s, places)
  BY WritesInTurn, Zenon
<1>2. PICK N \in Nat : N = Len(places)
  BY LenProperties
<1>3. w[N] \in Seq(Slots)
  BY <1>2
<1> QED
  BY <1>1, <1>2, <1>3 DEF InTurn

\* Writing what t has at some places makes t of s, when the others agree.
LEMMA WritesTarget ==
  ASSUME NEW s \in Seq(Slots), NEW t \in Seq(Slots), Len(t) = Len(s), NEW places \in Seq(Place),
         \A i \in 1..Len(places) : places[i].index \in 0..Len(s) - 1 /\ places[i].item = t[places[i].index + 1],
         \A j \in 1..Len(s) : s[j] = t[j] \/ \E i \in 1..Len(places) : places[i].index + 1 = j
  PROVE  WriteAll(s, places) = t
<1>1. PICK w \in [0..Len(places) -> Seq(Slots)] : InTurn(w, s, places)
  BY WritesInTurn, Zenon
<1>2. PICK N \in Nat, L \in Nat : N = Len(places) /\ L = Len(s)
  BY LenProperties
<1> DEFINE Right(n) == /\ w[n] \in Seq(Slots) /\ Len(w[n]) = L
                       /\ \A j \in 1..L : w[n][j] = t[j] \/ w[n][j] = s[j]
                       /\ \A i \in 1..n : w[n][places[i].index + 1] = t[places[i].index + 1]
           P == {n \in 0..N : Right(n)}
<1>3. 0 \in P
  BY <1>1, <1>2 DEF InTurn
<1>4. ASSUME NEW n \in 1..N, n - 1 \in P PROVE n \in P
  <2>1. PICK v \in Seq(Slots) : v = w[n - 1]
    BY <1>4
  <2>2. /\ Len(v) = L
        /\ \A j \in 1..L : v[j] = t[j] \/ v[j] = s[j]
        /\ \A i \in 1..n - 1 : v[places[i].index + 1] = t[places[i].index + 1]
    BY <1>4, <2>1
  <2>3. PICK p \in Place : p = places[n]
    BY <1>2
  <2>4. PICK f \in 0..L - 1 : f = p.index /\ p.item = t[f + 1]
    BY <1>2, <2>3
  <2>5. PICK u : u = JsSplice(v, p.index, 1, <<p.item>>).array
    OBVIOUS
  <2>6. w[n] = u
    BY <1>1, <1>2, <2>1, <2>3, <2>5 DEF InTurn
  <2>7. IsWritten(u, v, p)
    <3>1. p.index >= 0 /\ p.index < Len(v)
      BY <1>2, <2>2, <2>4
    <3> QED
      BY <2>5, <3>1, WritesOne, Zenon
  <2>8. u \in Seq(Slots) /\ Len(u) = L /\ \A j \in 1..L : u[j] = IF j = f + 1 THEN t[j] ELSE v[j]
    BY <2>2, <2>4, <2>7 DEF IsWritten
  <2>9. \A j \in 1..L : u[j] = t[j] \/ u[j] = s[j]
    BY <2>2, <2>8
  <2>10. ASSUME NEW i \in 1..n PROVE u[places[i].index + 1] = t[places[i].index + 1]
    <3>1. PICK e \in 0..L - 1 : e = places[i].index
      BY <1>2
    <3>2. e + 1 \in 1..L
      BY <1>2, <3>1
    <3>3. CASE i = n
      BY <2>3, <2>4, <2>8, <3>1, <3>2, <3>3
    <3>4. CASE i # n
      <4>1. i \in 1..n - 1
        BY <3>4
      <4>2. v[e + 1] = t[e + 1]
        BY <2>2, <3>1, <4>1
      <4> QED
        BY <2>8, <3>1, <3>2, <4>2
    <3> QED
      BY <3>3, <3>4
  <2>11. Right(n)
    BY <2>6, <2>8, <2>9, <2>10
  <2> QED
    BY <1>2, <2>11
<1>5. Right(N)
  <2> HIDE DEF P
  <2>1. \A n \in 1..N : n - 1 \in P => n \in P
    BY <1>4
  <2>2. \A n \in 0..N : n \in P
    BY <1>2, <1>3, <2>1, StepByStep, Zenon
  <2>3. N \in P
    BY <1>2, <2>2
  <2> QED
    BY <2>3 DEF P
<1>6. PICK r \in Seq(Slots) : r = w[N]
  BY <1>5
<1>7. ASSUME NEW j \in 1..L PROVE r[j] = t[j]
  <2>1. CASE s[j] = t[j]
    BY <1>5, <1>6, <2>1
  <2>2. CASE s[j] # t[j]
    <3>1. PICK i \in 1..N : places[i].index + 1 = j
      BY <1>2, <2>2
    <3> QED
      BY <1>5, <1>6, <3>1
  <2> QED
    BY <2>1, <2>2
<1>8. Len(r) = L /\ Len(t) = L
  BY <1>2, <1>5, <1>6
<1>9. r = t
  BY <1>7, <1>8, SeqEqual
<1> QED
  BY <1>1, <1>2, <1>6, <1>9 DEF InTurn

-----------------------------------------------------------------------------
\* What an event makes the result do.
LEMMA WhatIsHeard ==
  ASSUME NEW s, NEW e
  PROVE  /\ e.action = "push" => Heard(s, e) = Pushed(s, e.items).array
         /\ e.action = "unshift" => Heard(s, e) = Unshifted(s, e.items).array
         /\ e.action = "pop" => Heard(s, e) = Popped(s, e.count).array
         /\ e.action = "shift" => Heard(s, e) = Shifted(s, e.count).array
         /\ e.action \in {"replace", "broken"} => Heard(s, e) = WriteAll(s, e.places)
BY DEF Heard

LEMMA Changes ==
  ASSUME NEW s, NEW e
  PROVE  Change(s, e).array = s /\ Change(s, e).event = e
BY DEF Change

LEMMA EventsAreRead ==
  /\ \A items \in Seq(Slots) : /\ [action |-> "push", items |-> items] \in ArrayEvent
                               /\ [action |-> "unshift", items |-> items] \in ArrayEvent
  /\ \A n \in Nat : /\ [action |-> "pop", count |-> n] \in ArrayEvent
                    /\ [action |-> "shift", count |-> n] \in ArrayEvent
  /\ \A places \in Seq(Place) : /\ [action |-> "replace", places |-> places] \in ArrayEvent
                                /\ [action |-> "broken", places |-> places] \in ArrayEvent
BY DEF ArrayEvent

\* A method changes items s, and its event can be read and makes the result do as much.
Tells(s, c) == c.array \in Seq(Slots) /\ c.event \in ArrayEvent /\ Heard(s, c.event) = c.array

LEMMA PushTells ==
  ASSUME NEW s \in Seq(Slots), NEW items \in Seq(Slots)
  PROVE  Tells(s, Pushed(s, items)) /\ Tells(s, Unshifted(s, items))
<1>1. s \o items \in Seq(Slots) /\ items \o s \in Seq(Slots)
  BY ConcatParts, Zenon
<1>2. PICK e \in ArrayEvent : e = [action |-> "push", items |-> items]
  BY EventsAreRead
<1>3. e.action = "push" /\ e.items = items
  BY <1>2
<1>4. Pushed(s, items) = Change(s \o items, e)
  BY <1>2, Zenon DEF Pushed
<1>5. Pushed(s, items).array = s \o items /\ Pushed(s, items).event = e
  BY <1>4, Changes, Zenon
<1>6. Heard(s, e) = Pushed(s, items).array
  BY <1>3, WhatIsHeard, Zenon
<1>7. PICK d \in ArrayEvent : d = [action |-> "unshift", items |-> items]
  BY EventsAreRead
<1>8. d.action = "unshift" /\ d.items = items
  BY <1>7
<1>9. Unshifted(s, items) = Change(items \o s, d)
  BY <1>7, Zenon DEF Unshifted
<1>10. Unshifted(s, items).array = items \o s /\ Unshifted(s, items).event = d
  BY <1>9, Changes, Zenon
<1>11. Heard(s, d) = Unshifted(s, items).array
  BY <1>8, WhatIsHeard, Zenon
<1> QED
  BY <1>1, <1>5, <1>6, <1>10, <1>11, Zenon DEF Tells

\* pop() and shift() remove g items: n when there are as many.  To pop more
\* than there are may leave some, as the place to remove from counts from the end.
RemovesLast(s, n, g) ==
  /\ g \in Nat /\ g <= Len(s) /\ (n <= Len(s) => g = n)
  /\ Popped(s, n) = Change(PutIn(s, Len(s) - g, g, <<>>), [action |-> "pop", count |-> g])
RemovesFirst(s, n, g) ==
  /\ g \in Nat /\ g <= Len(s) /\ (n <= Len(s) => g = n)
  /\ Shifted(s, n) = Change(PutIn(s, 0, g, <<>>), [action |-> "shift", count |-> g])

LEMMA PopRemoves ==
  ASSUME NEW s \in Seq(Slots), NEW n \in Nat
  PROVE  \E g : RemovesLast(s, n, g)
<1>1. PICK L \in Nat : L = Len(s)
  BY LenProperties
<1>2. PICK none \in Seq(Slots) : none = <<>>
  BY EmptySeq
<1>3. PICK start \in Int : start = L - n
  <2>1. L - n \in Int
    OBVIOUS
  <2> QED
    BY <2>1
<1>4. PICK f : f = From(L, start)
  OBVIOUS
<1>5. PICK g : g = Lesser(n, L - f)
  OBVIOUS
<1>6. f \in Nat /\ f <= L
  BY <1>4 DEF From
<1>7. PICK r \in Nat : r = L - f
  <2>1. L - f \in Nat
    BY <1>6
  <2> QED
    BY <2>1
<1>8. g \in Nat /\ g <= L /\ f = L - g /\ (n <= L => g = n)
  <2>1. CASE n <= L
    <3>1. f = start
      BY <1>3, <1>4, <2>1 DEF From
    <3> QED
      BY <1>3, <1>5, <2>1, <3>1 DEF Lesser
  <2>2. CASE ~(n <= L) /\ n <= L + L
    <3>1. f = L + start
      BY <1>3, <1>4, <2>2 DEF From
    <3> QED
      BY <1>3, <1>5, <2>2, <3>1 DEF Lesser
  <2>3. CASE ~(n <= L) /\ ~(n <= L + L)
    <3>1. f = 0
      BY <1>3, <1>4, <2>3 DEF From
    <3> QED
      BY <1>3, <1>5, <2>3, <3>1 DEF Lesser
  <2> QED
    BY <2>1, <2>2, <2>3
<1>9. Spliced(s, start, n, none, f, g)
  BY <1>1, <1>4, <1>5, Splices, Zenon
<1>10. PICK j : j = JsSplice(s, start, n, none)
  OBVIOUS
<1>11. Popped(s, n) = Change(j.array, [action |-> "pop", count |-> j.gone])
  BY <1>1, <1>2, <1>3, <1>10, Zenon DEF Popped
<1>12. j.array = PutIn(s, f, g, none) /\ j.gone = g
  BY <1>9, <1>10, Zenon DEF Spliced
<1>13. RemovesLast(s, n, g)
  BY <1>1, <1>2, <1>8, <1>11, <1>12, Zenon DEF RemovesLast
<1> QED
  BY <1>13

LEMMA ShiftRemoves ==
  ASSUME NEW s \in Seq(Slots), NEW n \in Nat
  PROVE  \E g : RemovesFirst(s, n, g)
<1>1. PICK L \in Nat : L = Len(s)
  BY LenProperties
<1>2. PICK none \in Seq(Slots) : none = <<>>
  BY EmptySeq
<1>3. PICK h \in Int : h = 0
  OBVIOUS
<1>4. PICK g : g = Lesser(n, L - h)
  OBVIOUS
<1>5. h = From(L, h) /\ g \in Nat /\ g <= L /\ (n <= L => g = n)
  BY <1>3, <1>4 DEF From, Lesser
<1>6. Spliced(s, h, n, none, h, g)
  BY <1>1, <1>4, <1>5, Splices, Zenon
<1>7. PICK k : k = JsSplice(s, h, n, none)
  OBVIOUS
<1>8. Shifted(s, n) = Change(k.array, [action |-> "shift", count |-> k.gone])
  BY <1>2, <1>3, <1>7, Zenon DEF Shifted
<1>9. k.array = PutIn(s, h, g, none) /\ k.gone = g
  BY <1>6, <1>7, Zenon DEF Spliced
<1>10. RemovesFirst(s, n, g)
  BY <1>1, <1>2, <1>3, <1>5, <1>8, <1>9, Zenon DEF RemovesFirst
<1> QED
  BY <1>10

LEMMA PopTells ==
  ASSUME NEW s \in Seq(Slots), NEW n \in Nat
  PROVE  Tells(s, Popped(s, n))
<1>1. PICK g : RemovesLast(s, n, g)
  BY PopRemoves, Zenon
<1>2. g \in Nat /\ g <= Len(s)
  BY <1>1 DEF RemovesLast
<1>3. RemovesLast(s, g, g)
  <2>1. PICK h : RemovesLast(s, g, h)
    BY <1>2, PopRemoves, Zenon
  <2>2. h = g
    BY <1>2, <2>1, Zenon DEF RemovesLast
  <2> QED
    BY <2>1, <2>2, Zenon
<1>4. PICK f \in Nat, L \in Nat : L = Len(s) /\ f = L - g /\ f + g <= L
  <2>1. Len(s) \in Nat
    BY LenProperties
  <2>2. Len(s) - g \in Nat
    BY <1>2, <2>1
  <2> QED
    BY <1>2, <2>1, <2>2
<1>5. PICK none \in Seq(Slots) : none = <<>>
  BY EmptySeq
<1>6. PutIn(s, f, g, none) \in Seq(Slots)
  BY <1>2, <1>4, PutBetween, Zenon DEF IsPut
<1>7. PICK e \in ArrayEvent : e = [action |-> "pop", count |-> g]
  BY <1>2, EventsAreRead
<1>8. e.action = "pop" /\ e.count = g
  BY <1>7
<1>9. Popped(s, n) = Change(PutIn(s, f, g, none), e) /\ Popped(s, g) = Change(PutIn(s, f, g, none), e)
  BY <1>1, <1>3, <1>4, <1>5, <1>7, Zenon DEF RemovesLast
<1>10. Popped(s, n).array = PutIn(s, f, g, none) /\ Popped(s, n).event = e /\ Popped(s, g).array = PutIn(s, f, g, none)
  <2>1. PICK c : c = Change(PutIn(s, f, g, none), e)
    OBVIOUS
  <2>2. c.array = PutIn(s, f, g, none) /\ c.event = e
    BY <2>1, Changes, Zenon
  <2>3. Popped(s, n) = c /\ Popped(s, g) = c
    BY <1>9, <2>1, Zenon
  <2> QED
    BY <2>2, <2>3, Zenon
<1>11. Heard(s, e) = Popped(s, g).array
  BY <1>8, WhatIsHeard, Zenon
<1> QED
  BY <1>6, <1>10, <1>11, Zenon DEF Tells

LEMMA ShiftTells ==
  ASSUME NEW s \in Seq(Slots), NEW n \in Nat
  PROVE  Tells(s, Shifted(s, n))
<1>1. PICK g : RemovesFirst(s, n, g)
  BY ShiftRemoves, Zenon
<1>2. g \in Nat /\ g <= Len(s)
  BY <1>1 DEF RemovesFirst
<1>3. RemovesFirst(s, g, g)
  <2>1. PICK h : RemovesFirst(s, g, h)
    BY <1>2, ShiftRemoves, Zenon
  <2>2. h = g
    BY <1>2, <2>1, Zenon DEF RemovesFirst
  <2> QED
    BY <2>1, <2>2, Zenon
<1>4. PICK f \in Nat : f = 0 /\ f + g <= Len(s)
  BY <1>2, LenProperties
<1>5. PICK none \in Seq(Slots) : none = <<>>
  BY EmptySeq
<1>6. PutIn(s, f, g, none) \in Seq(Slots)
  BY <1>2, <1>4, PutBetween, Zenon DEF IsPut
<1>7. PICK e \in ArrayEvent : e = [action |-> "shift", count |-> g]
  BY <1>2, EventsAreRead
<1>8. e.action = "shift" /\ e.count = g
  BY <1>7
<1>9. Shifted(s, n) = Change(PutIn(s, f, g, none), e) /\ Shifted(s, g) = Change(PutIn(s, f, g, none), e)
  BY <1>1, <1>3, <1>4, <1>5, <1>7, Zenon DEF RemovesFirst
<1>10. Shifted(s, n).array = PutIn(s, f, g, none) /\ Shifted(s, n).event = e /\ Shifted(s, g).array = PutIn(s, f, g, none)
  BY <1>9, Changes, Zenon
<1>11. Heard(s, e) = Shifted(s, g).array
  BY <1>8, WhatIsHeard, Zenon
<1> QED
  BY <1>6, <1>10, <1>11, Zenon DEF Tells

\* The length is told as so many items popped.
LEMMA CutTells ==
  ASSUME NEW s \in Seq(Slots), NEW n \in Nat, NEW e, e = [action |-> "pop", count |-> Max({0, Len(s) - n})]
  PROVE  e \in ArrayEvent /\ Heard(s, e) = SubSeq(s, 1, Min({n, Len(s)})) /\ SubSeq(s, 1, Min({n, Len(s)})) \in Seq(Slots)
<1>1. PICK L \in Nat : L = Len(s)
  BY LenProperties
<1>2. PICK d \in Int, l \in Int, h \in Int : d = L - n /\ l = n /\ h = 0
  <2>1. L - n \in Int /\ n \in Int /\ 0 \in Int
    OBVIOUS
  <2> QED
    BY <2>1
<1>3. Max({h, d}) = (IF h >= d THEN h ELSE d) /\ L \in Int
  <2>1. L \in Int
    OBVIOUS
  <2> QED
    BY <2>1, OfTwo, Zenon
<1>4. Min({l, L}) = (IF l <= L THEN l ELSE L)
  BY <1>3, OfTwo, Zenon
<1>5. PICK g \in Nat : g = Max({h, d})
  BY <1>2, <1>3
<1>6. PICK m \in Nat : m = Min({l, L})
  BY <1>2, <1>4
<1>7. g <= L /\ m <= L /\ m = L - g /\ m + g <= L
  BY <1>2, <1>3, <1>4, <1>5, <1>6
<1>8. e = [action |-> "pop", count |-> g]
  BY <1>1, <1>2, <1>5, Zenon
<1>9. e \in ArrayEvent /\ e.action = "pop" /\ e.count = g
  <2>1. PICK b \in ArrayEvent : b = [action |-> "pop", count |-> g]
    BY <1>5, EventsAreRead
  <2>2. b.action = "pop" /\ b.count = g
    BY <2>1
  <2> QED
    BY <1>8, <2>1, <2>2, Zenon
<1>10. RemovesLast(s, g, g)
  <2>1. PICK k : RemovesLast(s, g, k)
    BY PopRemoves, Zenon
  <2>2. k = g
    BY <1>1, <1>7, <2>1, Zenon DEF RemovesLast
  <2> QED
    BY <2>1, <2>2, Zenon
<1>11. PICK none \in Seq(Slots) : none = <<>>
  BY EmptySeq
<1>12. Popped(s, g).array = PutIn(s, m, g, none)
  <2>1. Popped(s, g) = Change(PutIn(s, m, g, none), [action |-> "pop", count |-> g])
    BY <1>1, <1>7, <1>10, <1>11, Zenon DEF RemovesLast
  <2> QED
    BY <2>1, Changes, Zenon
<1>13. PICK u : u = PutIn(s, m, g, none)
  OBVIOUS
<1>14. IsPut(u, Slots, s, m, g, none)
  BY <1>1, <1>7, <1>13, PutBetween, Zenon
<1>15. PICK v : v = SubSeq(s, 1, m)
  OBVIOUS
<1>16. v \in Seq(Slots) /\ Len(v) = m /\ \A i \in 1..m : v[i] = s[i]
  <2>1. /\ SubSeq(s, 0 + 1, m) \in Seq(Slots) /\ Len(SubSeq(s, 0 + 1, m)) = m - 0
        /\ \A i \in 1..(m - 0) : SubSeq(s, 0 + 1, m)[i] = s[0 + i]
    BY <1>1, <1>7, PartOf
  <2> QED
    BY <1>15, <2>1
<1>17. u \in Seq(Slots) /\ Len(u) = m /\ \A i \in 1..m : u[i] = s[i]
  <2>1. Len(none) = 0
    BY <1>11
  <2> QED
    BY <1>1, <1>7, <1>14, <2>1 DEF IsPut
<1>18. u = v
  BY <1>16, <1>17, SeqEqual
<1>19. Heard(s, e) = Popped(s, g).array
  BY <1>9, WhatIsHeard, Zenon
<1>20. SubSeq(s, 1, Min({n, Len(s)})) = v
  BY <1>1, <1>2, <1>6, <1>15
<1> QED
  BY <1>9, <1>12, <1>13, <1>16, <1>18, <1>19, <1>20, Zenon

\* Each place is written as the array has it.
LEMMA ReplaceTells ==
  ASSUME NEW s \in Seq(Slots), NEW places \in Seq(Place)
  PROVE  Tells(s, Replaced(s, places))
<1>1. WriteAll(s, places) \in Seq(Slots)
  BY WritesItems, Zenon
<1>2. PICK e \in ArrayEvent : e = [action |-> "replace", places |-> places]
  BY EventsAreRead
<1>3. e.action = "replace" /\ e.places = places
  BY <1>2
<1>4. Replaced(s, places) = Change(WriteAll(s, places), e)
  BY <1>2, Zenon DEF Replaced
<1>5. Replaced(s, places).array = WriteAll(s, places) /\ Replaced(s, places).event = e
  BY <1>4, Changes, Zenon
<1>6. Heard(s, e) = WriteAll(s, places)
  BY <1>3, WhatIsHeard, Zenon
<1> QED
  BY <1>1, <1>5, <1>6, Zenon DEF Tells

LEMMA PlacesOfItems ==
  ASSUME NEW start \in Int, NEW items \in Seq(Slots)
  PROVE  /\ PlacesFrom(start, items) \in Seq(Place) /\ Len(PlacesFrom(start, items)) = Len(items)
         /\ \A i \in 1..Len(items) : /\ PlacesFrom(start, items)[i].index = start + i - 1
                                    /\ PlacesFrom(start, items)[i].item = items[i]
<1>1. PICK n \in Nat : n = Len(items) /\ \A i \in 1..n : items[i] \in Slots
  BY LenProperties
<1>2. PICK p : p = PlacesFrom(start, items)
  OBVIOUS
<1>3. p = [i \in 1..n |-> [index |-> start + i - 1, item |-> items[i]]]
  BY <1>1, <1>2 DEF PlacesFrom
<1>4. \A i \in 1..n : [index |-> start + i - 1, item |-> items[i]] \in Place
  BY <1>1 DEF Place
<1>5. p \in [1..n -> Place]
  BY <1>3, <1>4
<1>6. p \in Seq(Place) /\ Len(p) = n
  BY <1>5
<1>7. \A i \in 1..n : p[i].index = start + i - 1 /\ p[i].item = items[i]
  BY <1>3
<1> QED
  BY <1>1, <1>2, <1>6, <1>7

\* What is removed does not depend on what is put in its place.
LEMMA SameRemoved ==
  ASSUME NEW s, NEW start, NEW count, NEW items, NEW others
  PROVE  JsSplice(s, start, count, items).removed = JsSplice(s, start, count, others).removed
BY DEF JsSplice

\* splice() writes in place as many items as it is given, from place start on.
LEMMA OverwriteTells ==
  ASSUME NEW s \in Seq(Slots), NEW start \in Int, NEW items \in Seq(Slots),
         NEW c, c = Overwritten(s, start, items)
  PROVE  /\ c.array \in Seq(Slots) /\ c.event \in ArrayEvent
         /\ /\ start >= 0 /\ start + Len(items) <= Len(s)
            /\ Nothing \notin ToSet(JsSplice(s, start, Len(items), items).removed)
            => Heard(s, c.event) = c.array
<1>1. PICK L \in Nat, m \in Nat : L = Len(s) /\ m = Len(items)
  BY LenProperties
<1>2. PICK f : f = From(L, start)
  OBVIOUS
<1>3. PICK g : g = Lesser(m, L - f)
  OBVIOUS
<1>4. Spliced(s, start, m, items, f, g)
  BY <1>1, <1>2, <1>3, Splices, Zenon
<1>5. PICK j : j = JsSplice(s, start, m, items)
  OBVIOUS
<1>6. f \in Nat /\ g \in Nat /\ f + g <= L /\ j.gone = g /\ j.array = PutIn(s, f, g, items)
  BY <1>1, <1>4, <1>5, Zenon DEF Spliced
<1>7. g <= m
  BY <1>2, <1>3, <1>6 DEF From, Lesser
<1>8. PICK whole : whole = SubSeq(items, 1, g)
  OBVIOUS
<1>9. whole \in Seq(Slots) /\ Len(whole) = g /\ \A i \in 1..g : whole[i] = items[i]
  <2>1. /\ SubSeq(items, 0 + 1, g) \in Seq(Slots) /\ Len(SubSeq(items, 0 + 1, g)) = g - 0
        /\ \A i \in 1..(g - 0) : SubSeq(items, 0 + 1, g)[i] = items[0 + i]
    BY <1>1, <1>6, <1>7, PartOf
  <2> QED
    BY <1>6, <1>8, <2>1
<1>10. PICK places \in Seq(Place) :
         /\ places = PlacesFrom(start, whole) /\ Len(places) = g
         /\ \A i \in 1..g : places[i].index = start + i - 1 /\ places[i].item = whole[i]
  <2>1. whole \in Seq(Slots)
    BY <1>9
  <2>2. /\ PlacesFrom(start, whole) \in Seq(Place) /\ Len(PlacesFrom(start, whole)) = Len(whole)
        /\ \A i \in 1..Len(whole) : /\ PlacesFrom(start, whole)[i].index = start + i - 1
                                  /\ PlacesFrom(start, whole)[i].item = whole[i]
    BY <2>1, PlacesOfItems
  <2> QED
    BY <1>9, <2>2
<1>11. PICK e \in ArrayEvent : e = [action |-> "replace", places |-> places]
  BY EventsAreRead
<1>12. e.action = "replace" /\ e.places = places
  BY <1>11
<1>13. PICK t : t = PutIn(s, f, g, items)
  OBVIOUS
<1>14. IsPut(t, Slots, s, f, g, items)
  BY <1>1, <1>6, <1>13, PutBetween, Zenon
<1>19. PICK holes : holes = {i \in DOMAIN j.removed : j.removed[i] = Nothing}
  OBVIOUS
<1>20. PICK d : d = [action |-> "broken", places |-> SubSeq(places, 1, Min(holes) - 1)]
  OBVIOUS
<1>15. c.array = t /\ c.event = IF holes = {} THEN e ELSE d
  <2>1. c = Change(j.array,
                   IF holes = {} THEN [action |-> "replace", places |-> PlacesFrom(start, SubSeq(items, 1, j.gone))]
                   ELSE [action |-> "broken", places |-> SubSeq(PlacesFrom(start, SubSeq(items, 1, j.gone)), 1, Min(holes) - 1)])
    BY <1>1, <1>5, <1>19, Zenon DEF Overwritten
  <2>2. PICK x : x = IF holes = {} THEN e ELSE d
    OBVIOUS
  <2>3. c = Change(t, x)
    BY <1>6, <1>10, <1>11, <1>13, <1>8, <1>20, <2>1, <2>2, Zenon
  <2>4. c.array = t /\ c.event = x
    BY <2>3, Changes, Zenon
  <2>5. c.event = IF holes = {} THEN e ELSE d
    BY <2>2, <2>4
  <2> QED
    BY <2>4, <2>5
<1>21. ASSUME holes # {} PROVE d \in ArrayEvent
  <2>1. j.removed = SubSeq(s, f + 1, f + g)
    BY <1>1, <1>4, <1>5, Zenon DEF Spliced
  <2>2. f + g \in Nat /\ f <= f + g /\ f + g <= Len(s) /\ (f + g) - f = g
    BY <1>1, <1>6
  <2>3. SubSeq(s, f + 1, f + g) \in Seq(Slots) /\ Len(SubSeq(s, f + 1, f + g)) = g
    BY <1>6, <2>2, PartOf
  <2>4. DOMAIN j.removed = 1..g
    BY <2>1, <2>3, LenProperties
  <2>5. holes \subseteq Nat
    BY <1>6, <1>19, <2>4
  <2>6. PICK least : least = Min(holes)
    OBVIOUS
  <2>7. least \in 1..g
    <3>1. least \in holes
      BY <1>21, <2>5, <2>6, LeastElement
    <3> QED
      BY <1>19, <2>4, <3>1
  <2>8. PICK k \in Nat : k = least - 1 /\ k <= Len(places)
    <3>1. least - 1 \in Nat /\ least - 1 <= g
      BY <1>6, <2>7
    <3> QED
      BY <1>10, <3>1
  <2>9. 0 \in Nat /\ 0 <= k /\ 0 + 1 = 1
    BY <2>8
  <2>10. SubSeq(places, 0 + 1, k) \in Seq(Place)
    BY <2>8, <2>9, PartOf
  <2>11. PICK part \in Seq(Place) : part = SubSeq(places, 1, Min(holes) - 1)
    BY <2>6, <2>8, <2>9, <2>10
  <2> QED
    BY <1>20, <2>11, EventsAreRead
<1>22. (Nothing \notin ToSet(j.removed)) => holes = {}
  BY <1>19 DEF ToSet
<1>16. ASSUME start >= 0, start + m <= L PROVE WriteAll(s, places) = t
  <2>1. f = start /\ g = m
    BY <1>2, <1>3, <1>16 DEF From, Lesser
  <2>2. t \in Seq(Slots) /\ Len(t) = L
    BY <1>1, <1>6, <1>14, <2>1 DEF IsPut
  <2>3. /\ \A k \in 1..f : t[k] = s[k]
        /\ \A k \in 1..m : t[f + k] = items[k]
        /\ \A k \in 1..(L - f - m) : t[f + m + k] = s[f + m + k]
    BY <1>1, <1>14, <2>1 DEF IsPut
  <2>4. ASSUME NEW i \in 1..m PROVE places[i].index \in 0..L - 1 /\ places[i].item = t[places[i].index + 1]
    <3>1. places[i].index = f + i - 1 /\ places[i].item = items[i]
      BY <1>9, <1>10, <2>1
    <3>2. f + i - 1 \in 0..L - 1 /\ (f + i - 1) + 1 = f + i
      BY <1>6, <1>16, <2>1
    <3>3. t[f + i] = items[i]
      BY <2>3
    <3> QED
      BY <3>1, <3>2, <3>3
  <2>5. ASSUME NEW k \in 1..L PROVE s[k] = t[k] \/ \E i \in 1..m : places[i].index + 1 = k
    <3>1. CASE k <= f
      BY <2>3, <3>1
    <3>2. CASE f < k /\ k <= f + m
      <4>1. k - f \in 1..m /\ f + (k - f) - 1 + 1 = k
        BY <1>6, <3>2
      <4>2. places[k - f].index = f + (k - f) - 1
        BY <1>10, <2>1, <4>1
      <4> QED
        BY <4>1, <4>2
    <3>3. CASE k > f + m
      <4>1. k - f - m \in 1..(L - f - m) /\ f + m + (k - f - m) = k
        BY <1>6, <3>3
      <4> QED
        BY <2>3, <4>1
    <3> QED
      BY <1>6, <3>1, <3>2, <3>3
  <2>6. Len(t) = Len(s) /\ Len(places) = m
    BY <1>1, <1>10, <2>1, <2>2
  <2>7. /\ \A i \in 1..Len(places) : places[i].index \in 0..Len(s) - 1 /\ places[i].item = t[places[i].index + 1]
        /\ \A k \in 1..Len(s) : s[k] = t[k] \/ \E i \in 1..Len(places) : places[i].index + 1 = k
    BY <1>1, <2>4, <2>5, <2>6
  <2> QED
    BY <2>2, <2>6, <2>7, WritesTarget
<1>17. Heard(s, e) = WriteAll(s, places)
  BY <1>12, WhatIsHeard, Zenon
<1>18. t \in Seq(Slots)
  BY <1>14 DEF IsPut
<1>23. c.array \in Seq(Slots) /\ c.event \in ArrayEvent
  BY <1>15, <1>18, <1>21, Zenon
<1>24. ASSUME start >= 0, start + m <= L, Nothing \notin ToSet(j.removed) PROVE Heard(s, c.event) = c.array
  BY <1>15, <1>16, <1>17, <1>22, <1>24, Zenon
<1> QED
  BY <1>1, <1>5, <1>23, <1>24, Zenon

\* Sorting tells the places whose item is another than before, all of them unless
\* a place lost its item.
LEMMA SortTells ==
  ASSUME NEW s \in Seq(Slots), NEW t \in Sortings(s)
  PROVE  /\ Sorted(s, t).array \in Seq(Slots) /\ Sorted(s, t).event \in ArrayEvent
         /\ (\A i \in DOMAIN t : t[i] = Nothing => s[i] = Nothing) => Heard(s, Sorted(s, t).event) = Sorted(s, t).array
<1>1. PICK L \in Nat : L = Len(s) /\ DOMAIN s = 1..L /\ \A i \in 1..L : s[i] \in Slots
  BY LenProperties
<1>2. PICK q \in Bijection(DOMAIN s, DOMAIN s) : t = [i \in DOMAIN s |-> s[q[i]]]
  BY DEF Sortings
<1>3. \A i \in 1..L : q[i] \in 1..L
  BY <1>1, <1>2 DEF Bijection, Injection, Surjection
<1>4. t \in [1..L -> Slots]
  BY <1>1, <1>2, <1>3
<1>5. t \in Seq(Slots) /\ Len(t) = L
  BY <1>4
<1>6. PICK zero \in Int : zero = 0
  OBVIOUS
<1>7. PICK all \in Seq(Place) :
        /\ all = PlacesFrom(0, t) /\ Len(all) = L
        /\ \A i \in 1..L : all[i].index = 0 + i - 1 /\ all[i].item = t[i]
  <2>1. /\ PlacesFrom(zero, t) \in Seq(Place) /\ Len(PlacesFrom(zero, t)) = Len(t)
        /\ \A i \in 1..Len(t) : /\ PlacesFrom(zero, t)[i].index = zero + i - 1
                               /\ PlacesFrom(zero, t)[i].item = t[i]
    BY <1>5, PlacesOfItems
  <2> QED
    BY <1>5, <1>6, <2>1
<1>8. PICK changed : changed = {p \in ToSet(all) : p.item \notin {Nothing, s[p.index + 1]}}
  OBVIOUS
<1>9. PICK places \in Seq(Place) : places = Filtered(all, changed) /\ ToSet(places) = ToSet(all) \intersect changed
  BY ElementsOfFiltered
<1>10. \A p : p \in ToSet(places) <=> (\E i \in 1..L : all[i] = p) /\ p.item \notin {Nothing, s[p.index + 1]}
  <2>1. \A p : p \in ToSet(all) <=> \E i \in 1..Len(all) : all[i] = p
    BY ElementsOf
  <2>2. \A p : p \in ToSet(all) <=> \E i \in 1..L : all[i] = p
    BY <1>7, <2>1
  <2> QED
    BY <1>8, <1>9, <2>2
<1>11. PICK N \in Nat : N = Len(places) /\ \A p : p \in ToSet(places) <=> \E i \in 1..N : places[i] = p
  <2>1. Len(places) \in Nat
    BY LenProperties
  <2>2. \A p : p \in ToSet(places) <=> \E i \in 1..Len(places) : places[i] = p
    BY ElementsOf
  <2> QED
    BY <2>1, <2>2
<1>12. ASSUME NEW i \in 1..N PROVE places[i].index \in 0..L - 1 /\ places[i].item = t[places[i].index + 1]
  <2>1. PICK p : p = places[i]
    OBVIOUS
  <2>2. PICK k \in 1..L : all[k] = p
    BY <1>10, <1>11, <2>1
  <2>3. p.index = k - 1 /\ p.item = t[k]
    BY <1>7, <2>2
  <2>4. k - 1 \in 0..L - 1 /\ (k - 1) + 1 = k
    BY <1>1
  <2> QED
    BY <2>1, <2>3, <2>4
<1>13. ASSUME NEW k \in 1..L, s[k] # t[k], t[k] # Nothing PROVE \E i \in 1..N : places[i].index + 1 = k
  <2>1. PICK p : p = all[k]
    OBVIOUS
  <2>2. p.index = k - 1 /\ p.item = t[k] /\ (k - 1) + 1 = k
    BY <1>7, <2>1
  <2>3. p \in ToSet(places)
    BY <1>10, <1>13, <2>1, <2>2
  <2>4. PICK i \in 1..N : places[i] = p
    BY <1>11, <2>3
  <2> QED
    BY <2>2, <2>4
<1>14. ASSUME \A i \in DOMAIN t : t[i] = Nothing => s[i] = Nothing
       PROVE  /\ \A i \in 1..Len(places) : places[i].index \in 0..Len(s) - 1 /\ places[i].item = t[places[i].index + 1]
              /\ \A k \in 1..Len(s) : s[k] = t[k] \/ \E i \in 1..Len(places) : places[i].index + 1 = k
  <2>1. DOMAIN t = 1..L
    BY <1>4
  <2>2. \A k \in 1..L : s[k] # t[k] => t[k] # Nothing
    BY <1>14, <2>1
  <2> QED
    BY <1>1, <1>11, <1>12, <1>13, <2>2
<1>15. ASSUME \A i \in DOMAIN t : t[i] = Nothing => s[i] = Nothing
       PROVE  WriteAll(s, places) = t
  <2>1. Len(t) = Len(s)
    BY <1>1, <1>5
  <2> QED
    BY <1>5, <1>14, <1>15, <2>1, WritesTarget
<1>16. PICK e \in ArrayEvent : e = [action |-> "replace", places |-> places]
  BY EventsAreRead
<1>17. e.action = "replace" /\ e.places = places
  BY <1>16
<1>18. Sorted(s, t) = Change(t, e)
  BY <1>7, <1>8, <1>9, <1>16, Zenon DEF Sorted
<1>19. Sorted(s, t).array = t /\ Sorted(s, t).event = e
  BY <1>18, Changes, Zenon
<1>20. Heard(s, e) = WriteAll(s, places)
  BY <1>17, WhatIsHeard, Zenon
<1> QED
  BY <1>5, <1>15, <1>16, <1>19, <1>20, Zenon

LEMMA HeardItems ==
  ASSUME NEW s \in Seq(Slots), NEW e \in ArrayEvent
  PROVE  Heard(s, e) \in Seq(Slots)
<1>1. CASE e \in [action : {"push", "unshift"}, items : Seq(Slots)]
  <2>1. e.action \in {"push", "unshift"} /\ e.items \in Seq(Slots)
    BY <1>1
  <2>2. PICK items \in Seq(Slots) : items = e.items
    BY <2>1
  <2>3. Pushed(s, items).array \in Seq(Slots) /\ Unshifted(s, items).array \in Seq(Slots)
    BY PushTells, Zenon DEF Tells
  <2> QED
    BY <2>1, <2>2, <2>3, WhatIsHeard, Zenon
<1>2. CASE e \in [action : {"pop", "shift"}, count : Nat]
  <2>1. e.action \in {"pop", "shift"} /\ e.count \in Nat
    BY <1>2
  <2>2. PICK n \in Nat : n = e.count
    BY <2>1
  <2>3. Popped(s, n).array \in Seq(Slots) /\ Shifted(s, n).array \in Seq(Slots)
    BY PopTells, ShiftTells, Zenon DEF Tells
  <2> QED
    BY <2>1, <2>2, <2>3, WhatIsHeard, Zenon
<1>3. CASE e \in [action : {"replace", "broken"}, places : Seq(Place)]
  <2>1. e.action \in {"replace", "broken"} /\ e.places \in Seq(Place)
    BY <1>3
  <2>2. PICK places \in Seq(Place) : places = e.places
    BY <2>1
  <2>3. WriteAll(s, places) \in Seq(Slots)
    BY WritesItems, Zenon
  <2> QED
    BY <2>1, <2>2, <2>3, WhatIsHeard, Zenon
<1> QED
  BY <1>1, <1>2, <1>3 DEF ArrayEvent

-----------------------------------------------------------------------------
\* Nothing of a is to be heard or done any more.
Settled(ems, a) == \A i \in DOMAIN ems : ~Unsettled(ems[i], a)

LEMMA SettledInStep ==
  ASSUME NEW ems, NEW a, Settled(ems, a), NEW s
  PROVE  /\ InStep(ems, s, s, a)
         /\ \A r : InStep(ems, s, r, a) => r = s
BY DEF InStep, Settled, Unsettled

\* What the stack does not owe the result, or the array, any more.
LEMMA QuietIsSettled ==
  ASSUME NEW ems \in Seq(EmissionsUnderWay), NEW a, ~(Unheard(ems) \/ CutComes(ems, a))
  PROVE  Settled(ems, a)
<1>1. \A i \in DOMAIN ems : ems[i] \in ToSet(ems)
  BY DEF ToSet
<1> QED
  BY <1>1 DEF Settled, Unsettled, HearsLater, CutsLater, Unheard, CutComes

\* An emission on top, which either owes nothing or is all that is owed.
LEMMA InStepAdded ==
  ASSUME NEW ems \in Seq(EmissionsUnderWay), NEW a, NEW f \in EmissionsUnderWay, NEW s, NEW r,
         \/ /\ Settled(ems, a)
            /\ HearsLater(f) /\ f.of = a /\ Heard(r, f.event) = Then(f, s, a)
         \/ InStep(ems, s, r, a) /\ ~Unsettled(f, a)
  PROVE  InStep(Append(ems, f), s, r, a)
<1>1. PICK n \in Nat : n = Len(ems) /\ DOMAIN ems = 1..n
  BY LenProperties
<1>2. PICK g : g = Append(ems, f)
  OBVIOUS
<1>3. DOMAIN g = 1..n + 1 /\ (\A i \in 1..n : g[i] = ems[i]) /\ g[n + 1] = f
  BY <1>1, <1>2, AppendProperties, LenProperties
<1>4. \A i \in 1..n + 1 : i \in 1..n \/ i = n + 1
  BY <1>1
<1>5. \A i \in 1..n : i \in 1..n + 1 /\ i # n + 1
  BY <1>1
<1>6. n + 1 \in 1..n + 1
  BY <1>1
<1> QED
  <2>1. CASE Settled(ems, a) /\ HearsLater(f) /\ f.of = a /\ Heard(r, f.event) = Then(f, s, a)
    <3>1. \A i \in 1..n + 1 : Unsettled(g[i], a) => i = n + 1
      BY <1>1, <1>3, <1>4, <2>1 DEF Settled
    <3>2. Unsettled(g[n + 1], a) /\ HearsLater(g[n + 1])
      BY <1>3, <2>1 DEF Unsettled
    <3>3. InStep(g, s, r, a)
      BY <1>3, <1>6, <2>1, <3>1, <3>2 DEF InStep, Unsettled
    <3> QED
      BY <1>2, <3>3
  <2>2. CASE InStep(ems, s, r, a) /\ ~Unsettled(f, a)
    <3>1. \A i \in 1..n + 1 : Unsettled(g[i], a) => i \in 1..n
      BY <1>3, <1>4, <2>2
    <3>2. \A i \in 1..n : Unsettled(g[i], a) <=> Unsettled(ems[i], a)
      BY <1>3
    <3>3. InStep(g, s, r, a)
      <4>1. \A i, j \in 1..n + 1 : Unsettled(g[i], a) /\ Unsettled(g[j], a) => i = j
        BY <1>1, <2>2, <3>1, <3>2 DEF InStep
      <4>2. (\A i \in 1..n + 1 : ~Unsettled(g[i], a)) => r = s
        BY <1>1, <1>5, <2>2, <3>2 DEF InStep
      <4>3. \A i \in 1..n + 1 : HearsLater(g[i]) => g[i].of = a /\ Heard(r, g[i].event) = Then(g[i], s, a)
        BY <1>1, <1>3, <2>2, <3>1 DEF InStep, Unsettled
      <4>4. \A i \in 1..n + 1 : CutsLater(g[i], a) /\ ~HearsLater(g[i]) => r = Then(g[i], s, a)
        BY <1>1, <1>3, <2>2, <3>1 DEF InStep, Unsettled
      <4> QED
        BY <1>3, <4>1, <4>2, <4>3, <4>4 DEF InStep
    <3> QED
      BY <1>2, <3>3
  <2> QED
    BY <2>1, <2>2

LEMMA InStepDropped ==
  ASSUME NEW ems \in Seq(EmissionsUnderWay), ems # <<>>, NEW a, NEW s, NEW r, InStep(ems, s, r, a), ~Unsettled(Last(ems), a)
  PROVE  InStep(Front(ems), s, r, a)
<1>1. PICK n \in Nat : n = Len(ems) /\ DOMAIN ems = 1..n /\ n >= 1
  BY FrontOf, LenProperties
<1>2. PICK g : g = Front(ems)
  OBVIOUS
<1>3. DOMAIN g = 1..n - 1 /\ \A i \in 1..n - 1 : g[i] = ems[i]
  BY <1>1, <1>2, FrontOf, LenProperties
<1>4. Last(ems) = ems[n]
  BY <1>1 DEF Last
<1>5. \A i \in 1..n : i \in 1..n - 1 \/ i = n
  BY <1>1
<1>6. \A i \in 1..n - 1 : i \in 1..n
  BY <1>1
<1>7. (\A i \in 1..n - 1 : ~Unsettled(g[i], a)) => \A i \in 1..n : ~Unsettled(ems[i], a)
  BY <1>3, <1>4, <1>5
<1>8. InStep(g, s, r, a)
  <2>1. \A i, j \in 1..n - 1 : Unsettled(g[i], a) /\ Unsettled(g[j], a) => i = j
    BY <1>1, <1>3, <1>6 DEF InStep
  <2>2. (\A i \in 1..n - 1 : ~Unsettled(g[i], a)) => r = s
    BY <1>1, <1>7 DEF InStep
  <2>3. \A i \in 1..n - 1 : HearsLater(g[i]) => g[i].of = a /\ Heard(r, g[i].event) = Then(g[i], s, a)
    BY <1>1, <1>3, <1>6 DEF InStep
  <2>4. \A i \in 1..n - 1 : CutsLater(g[i], a) /\ ~HearsLater(g[i]) => r = Then(g[i], s, a)
    BY <1>1, <1>3, <1>6 DEF InStep
  <2> QED
    BY <1>3, <2>1, <2>2, <2>3, <2>4 DEF InStep
<1> QED
  BY <1>2, <1>8

\* The innermost emission goes on, and owes what it owed.
LEMMA InStepKept ==
  ASSUME NEW ems \in Seq(EmissionsUnderWay), ems # <<>>, NEW a, NEW s, NEW r, InStep(ems, s, r, a),
         NEW f \in EmissionsUnderWay, f.of = Last(ems).of, f.next = Last(ems).next, f.event = Last(ems).event,
         (HearsLater(f) <=> HearsLater(Last(ems)))
  PROVE  InStep(Append(Front(ems), f), s, r, a)
<1>1. PICK n \in Nat : n = Len(ems) /\ DOMAIN ems = 1..n /\ n >= 1
  BY FrontOf, LenProperties
<1>2. PICK g : g = Append(Front(ems), f)
  OBVIOUS
<1>3. DOMAIN g = 1..n /\ g[n] = f /\ \A i \in 1..n - 1 : g[i] = ems[i]
  <2>1. g \in Seq(EmissionsUnderWay) /\ Len(g) = n /\ g[n] = f /\ \A i \in 1..n - 1 : g[i] = ems[i]
    BY <1>1, <1>2, LastReplaced
  <2> QED
    BY <2>1, LenProperties
<1>4. PICK l : l = ems[n] /\ l = Last(ems)
  BY <1>1 DEF Last
<1>5. f.of = l.of /\ f.next = l.next /\ f.event = l.event /\ (HearsLater(f) <=> HearsLater(l))
  BY <1>4
<1>6. ASSUME NEW i \in 1..n
      PROVE  /\ (HearsLater(g[i]) <=> HearsLater(ems[i])) /\ (CutsLater(g[i], a) <=> CutsLater(ems[i], a))
             /\ g[i].of = ems[i].of /\ g[i].event = ems[i].event /\ Then(g[i], s, a) = Then(ems[i], s, a)
  <2>1. CASE i = n
    BY <1>3, <1>4, <1>5, <2>1 DEF CutsLater, Then
  <2>2. CASE i # n
    <3>1. g[i] = ems[i]
      BY <1>3, <2>2
    <3> QED
      BY <3>1
  <2> QED
    BY <2>1, <2>2
<1>7. \A i \in 1..n : Unsettled(g[i], a) <=> Unsettled(ems[i], a)
  BY <1>6 DEF Unsettled
<1>8. InStep(g, s, r, a)
  <2>1. \A i, j \in 1..n : Unsettled(g[i], a) /\ Unsettled(g[j], a) => i = j
    BY <1>1, <1>7 DEF InStep
  <2>2. (\A i \in 1..n : ~Unsettled(g[i], a)) => r = s
    BY <1>1, <1>7 DEF InStep
  <2>3. \A i \in 1..n : HearsLater(g[i]) => g[i].of = a /\ Heard(r, g[i].event) = Then(g[i], s, a)
    BY <1>1, <1>6 DEF InStep
  <2>4. \A i \in 1..n : CutsLater(g[i], a) /\ ~HearsLater(g[i]) => r = Then(g[i], s, a)
    BY <1>1, <1>6 DEF InStep
  <2> QED
    BY <1>3, <2>1, <2>2, <2>3, <2>4 DEF InStep
<1> QED
  BY <1>2, <1>8

\* The result hears what it was owed.
LEMMA InStepHeard ==
  ASSUME NEW ems \in Seq(EmissionsUnderWay), ems # <<>>, NEW a, NEW s, NEW r, InStep(ems, s, r, a),
         NEW f \in EmissionsUnderWay, f.of = Last(ems).of, f.next = Last(ems).next,
         HearsLater(Last(ems)), ~HearsLater(f)
  PROVE  InStep(Append(Front(ems), f), s, Heard(r, Last(ems).event), a)
<1>1. PICK n \in Nat : n = Len(ems) /\ DOMAIN ems = 1..n /\ n >= 1
  BY FrontOf, LenProperties
<1>2. PICK g : g = Append(Front(ems), f)
  OBVIOUS
<1>3. DOMAIN g = 1..n /\ g[n] = f /\ \A i \in 1..n - 1 : g[i] = ems[i]
  <2>1. g \in Seq(EmissionsUnderWay) /\ Len(g) = n /\ g[n] = f /\ \A i \in 1..n - 1 : g[i] = ems[i]
    BY <1>1, <1>2, LastReplaced
  <2> QED
    BY <2>1, LenProperties
<1>4. PICK l : l = ems[n] /\ l = Last(ems)
  BY <1>1 DEF Last
<1>5. PICK h : h = Heard(r, l.event)
  OBVIOUS
<1>6. n \in 1..n /\ \A i \in 1..n : i = n \/ i \in 1..n - 1
  BY <1>1
<1>7. HearsLater(l) /\ h = Then(l, s, a)
  BY <1>1, <1>4, <1>5, <1>6 DEF InStep
<1>8. Then(l, s, a) = Then(f, s, a)
  BY <1>4 DEF Then, CutsLater
<1>9. \A i \in 1..n : i # n => ~Unsettled(ems[i], a)
  BY <1>1, <1>4, <1>6, <1>7 DEF InStep, Unsettled
<1>10. \A i \in 1..n : Unsettled(g[i], a) => i = n
  BY <1>3, <1>6, <1>9
<1>11. ~HearsLater(g[n]) /\ h = Then(g[n], s, a) /\ (~Unsettled(g[n], a) => h = s)
  BY <1>3, <1>7, <1>8 DEF Then, Unsettled
<1>12. InStep(g, s, h, a)
  BY <1>3, <1>6, <1>10, <1>11 DEF InStep, Unsettled
<1> QED
  BY <1>2, <1>4, <1>5, <1>12

-----------------------------------------------------------------------------
\* What a method tells.
LEMMA TellingIsEmission ==
  ASSUME ArraysTypes, NEW a \in Arrays, NEW e \in ArrayEvent, NEW next \in Afterwards,
         NEW f, f = Telling(a, e, next)
  PROVE  /\ f \in EmissionsUnderWay /\ f.of = a /\ f.next = next
         /\ (HearsLater(f) <=> Follows(a)) /\ (Follows(a) => f.event = e)
<1>1. PICK ls : ls = listening[a]
  OBVIOUS
<1>2. ls \in Seq({"program", "result"}) /\ IsInjective(ls)
  BY <1>1 DEF ArraysTypes
<1>3. PICK d : d = IF Follows(a) THEN e ELSE Unread
  OBVIOUS
<1>4. d \in ArrayEvent \union {Unread}
  BY <1>3
<1>5. f = [of |-> a, event |-> d, todo |-> ls, running |-> FALSE, next |-> next]
  BY <1>1, <1>3, Zenon DEF Telling
<1>6. /\ f \in [of : Arrays, event : ArrayEvent \union {Unread}, todo : Seq({"program", "result"}),
               running : BOOLEAN, next : Afterwards]
      /\ f.of = a /\ f.event = d /\ f.todo = ls /\ f.next = next
  BY <1>2, <1>4, <1>5
<1>7. HearsLater(f) <=> Follows(a)
  BY <1>1, <1>6 DEF HearsLater, Follows
<1>8. Follows(a) => f.event = e
  BY <1>3, <1>6
<1>9. f \in EmissionsUnderWay
  BY <1>2, <1>6, <1>7, <1>8 DEF EmissionsUnderWay
<1> QED
  BY <1>6, <1>7, <1>8, <1>9

\* A method changes an array, and its emission is all that is owed, if it is the one followed.
LEMMA AppliedInStep ==
  ASSUME NEW v, NEW arr \in [Arrays \union Plains -> Seq(Slots)], v \in Arrays \union Plains,
         NEW r, NEW ems \in Seq(EmissionsUnderWay), InStep(ems, arr[v], r, v),
         NEW a \in Arrays, NEW t, NEW f \in EmissionsUnderWay, f.of = a, (HearsLater(f) <=> a = v),
         a = v => Settled(ems, a) /\ Heard(arr[a], f.event) = Then(f, t, a)
  PROVE  InStep(Append(ems, f), [arr EXCEPT ![a] = t][v], r, v)
<1>1. CASE a = v
  <2>1. r = arr[v]
    BY <1>1, SettledInStep
  <2>2. InStep(Append(ems, f), t, r, v)
    BY <1>1, <2>1, InStepAdded
  <2>3. [arr EXCEPT ![a] = t][v] = t
    BY <1>1
  <2> QED
    BY <2>2, <2>3, Zenon
<1>2. CASE a # v
  <2>1. ~Unsettled(f, v)
    BY <1>2 DEF Unsettled, CutsLater
  <2>2. InStep(Append(ems, f), arr[v], r, v)
    BY <2>1, InStepAdded
  <2>3. [arr EXCEPT ![a] = t][v] = arr[v]
    BY <1>2
  <2> QED
    BY <2>2, <2>3, Zenon
<1> QED
  BY <1>1, <1>2

\* The value is the array followed, if it is observable.
LEMMA FollowedIsValue ==
  ASSUME FollowsTheValue, value # Nothing, NEW a \in Arrays
  PROVE  Follows(a) <=> a = value
BY DEF FollowsTheValue

\* What the formatter shows and follows is as before.
LEMMA ValueStays ==
  ASSUME UNCHANGED <<listening, value, latest, overtaken>>, FollowsTheValue, ShowsTheLatest
  PROVE  FollowsTheValue' /\ ShowsTheLatest'
BY DEF FollowsTheValue, ShowsTheLatest, Follows

LEMMA MethodChanges ==
  ASSUME ArraysInv, NEW a \in Arrays, NEW c, c.array \in Seq(Slots), c.event \in ArrayEvent,
         NEW next \in Afterwards, NEW below \in Seq(EmissionsUnderWay), Len(below) < MaxNested, NEW whole,
         value # Nothing /\ ~strayed => InStep(below, array[value], result, value),
         Apply(a, c, next, below),
         strayed' = (strayed \/ (Follows(a) /\ (~whole \/ Unheard(below) \/ CutComes(below, a)))),
         whole => Heard(array[a], c.event)
                 = IF next.do = "cut" THEN SubSeq(c.array, 1, Min({next.length, Len(c.array)})) ELSE c.array,
         UNCHANGED <<result, listening, value, promise, waiting, latest, overtaken>>, methods' \in Nat
  PROVE  ArraysInv'
<1>1. PICK t \in Seq(Slots), e \in ArrayEvent : t = c.array /\ e = c.event
  OBVIOUS
<1>2. PICK f : f = Telling(a, e, next)
  OBVIOUS
<1>3. ArraysTypes /\ FollowsInStep /\ FollowsTheValue /\ ShowsTheLatest
  BY Zenon DEF ArraysInv
<1>4. /\ f \in EmissionsUnderWay /\ f.of = a /\ f.next = next
      /\ (HearsLater(f) <=> Follows(a)) /\ (Follows(a) => f.event = e)
  BY <1>2, <1>3, TellingIsEmission
<1>5. array' = [array EXCEPT ![a] = t] /\ emitting' = Append(below, f)
  BY <1>1, <1>2, Zenon DEF Apply
<1>6. array' \in [Arrays \union Plains -> Seq(Slots)]
  BY <1>1, <1>3, <1>5 DEF ArraysTypes
<1>7. emitting' \in Seq(EmissionsUnderWay) /\ Len(emitting') <= MaxNested
  <2>1. Append(below, f) \in Seq(EmissionsUnderWay) /\ Len(Append(below, f)) = Len(below) + 1
    BY <1>4, AppendProperties
  <2>2. Len(below) \in Nat /\ MaxNested \in Nat
    BY LenProperties, ArraysAssumption
  <2> QED
    BY <1>5, <2>1, <2>2
<1>8. strayed' \in BOOLEAN
  BY <1>3, Zenon DEF ArraysTypes
<1>9. ArraysTypes'
  BY <1>3, <1>6, <1>7, <1>8 DEF ArraysTypes
<1>10. ASSUME value # Nothing, ~strayed' PROVE InStep(emitting', array'[value], result, value)
  <2>1. ~strayed /\ (Follows(a) => whole /\ ~(Unheard(below) \/ CutComes(below, a)))
    BY <1>10, Zenon
  <2>2. InStep(below, array[value], result, value)
    BY <1>10, <2>1, Zenon
  <2>3. Follows(a) <=> a = value
    BY <1>3, <1>10, FollowedIsValue, Zenon
  <2>4. HearsLater(f) <=> a = value
    BY <1>4, <2>3, Zenon
  <2>5. ASSUME a = value PROVE Settled(below, a) /\ Heard(array[a], f.event) = Then(f, t, a)
    <3>1. Settled(below, a)
      BY <2>1, <2>3, <2>5, QuietIsSettled, Zenon
    <3>2. f.event = e /\ whole
      BY <1>4, <2>1, <2>3, <2>5, Zenon
    <3>3. Heard(array[a], e) = IF next.do = "cut" THEN SubSeq(t, 1, Min({next.length, Len(t)})) ELSE t
      BY <1>1, <3>2, Zenon
    <3>4. Heard(array[a], e) = Then(f, t, a)
      BY <1>4, <3>3 DEF Then, CutsLater
    <3> QED
      BY <3>1, <3>2, <3>4, Zenon
  <2>6. value \in Arrays \union Plains /\ array \in [Arrays \union Plains -> Seq(Slots)]
    BY <1>3, <1>10 DEF ArraysTypes
  <2>7. InStep(Append(below, f), [array EXCEPT ![a] = t][value], result, value)
    BY <1>4, <2>2, <2>4, <2>5, <2>6, AppliedInStep, Zenon
  <2> QED
    BY <1>5, <2>7, Zenon
<1>11. FollowsInStep'
  <2>1. value' = value /\ result' = result
    OBVIOUS
  <2> QED
    BY <1>10, <2>1, Zenon DEF FollowsInStep
<1>12. FollowsTheValue' /\ ShowsTheLatest'
  BY <1>3, ValueStays, Zenon
<1> QED
  BY <1>9, <1>11, <1>12, Zenon DEF ArraysInv

\* A method is called.
LEMMA CallStep ==
  ASSUME ArraysInv, NEW a \in Arrays, NEW c, c.array \in Seq(Slots), c.event \in ArrayEvent,
         NEW next \in Afterwards, NEW whole,
         whole => Heard(array[a], c.event)
                 = IF next.do = "cut" THEN SubSeq(c.array, 1, Min({next.length, Len(c.array)})) ELSE c.array,
         Call(a, c, next, whole)
  PROVE  ArraysInv'
<1>1. ArraysTypes /\ FollowsInStep
  BY Zenon DEF ArraysInv
<1>2. emitting \in Seq(EmissionsUnderWay) /\ methods \in Nat
  BY <1>1 DEF ArraysTypes
<1>3. value # Nothing /\ ~strayed => InStep(emitting, array[value], result, value)
  BY <1>1, Zenon DEF FollowsInStep
<1>4. /\ Len(emitting) < MaxNested /\ Apply(a, c, next, emitting) /\ methods' = methods + 1
      /\ strayed' = (strayed \/ (Follows(a) /\ (~whole \/ Unheard(emitting) \/ CutComes(emitting, a))))
      /\ UNCHANGED <<result, listening, value, promise, waiting, latest, overtaken>>
  BY Zenon DEF Call
<1>5. methods' \in Nat
  BY <1>2, <1>4
<1> QED
  BY <1>2, <1>3, <1>4, <1>5, MethodChanges, Zenon

LEMMA TellingCallStep ==
  ASSUME ArraysInv, NEW a \in Arrays, NEW c, Tells(array[a], c),
         NEW next \in Afterwards, next.do # "cut", Call(a, c, next, TRUE)
  PROVE  ArraysInv'
<1>1. c.array \in Seq(Slots) /\ c.event \in ArrayEvent /\ Heard(array[a], c.event) = c.array
  BY Zenon DEF Tells
<1>2. Heard(array[a], c.event)
        = IF next.do = "cut" THEN SubSeq(c.array, 1, Min({next.length, Len(c.array)})) ELSE c.array
  BY <1>1, Zenon
<1>3. TRUE => Heard(array[a], c.event)
        = IF next.do = "cut" THEN SubSeq(c.array, 1, Min({next.length, Len(c.array)})) ELSE c.array
  BY <1>2, Zenon
<1> QED
  BY <1>1, <1>3, CallStep, Zenon

LEMMA Nexts ==
  /\ NoMore \in Afterwards /\ NoMore.do = "nothing"
  /\ \A items \in Seq(Slots) : PushMore(items) \in Afterwards /\ PushMore(items).do = "push" /\ PushMore(items).items = items
  /\ \A n \in Nat : PopMore(n) \in Afterwards /\ PopMore(n).do = "pop" /\ PopMore(n).count = n
  /\ \A n \in Nat : Cut(n) \in Afterwards /\ Cut(n).do = "cut" /\ Cut(n).length = n
BY DEF NoMore, PushMore, PopMore, Cut, Afterwards

LEMMA SimpleSteps ==
  ASSUME ArraysInv, NEW a \in Arrays, NEW items \in Seq(Slots), NEW n \in Nat, NEW places \in Seq(Place),
         Push(a, items) \/ Unshift(a, items) \/ Pop(a, n) \/ Shift(a, n) \/ ReplaceN(a, places) \/ Sort(a)
  PROVE  ArraysInv'
<1>1. PICK s \in Seq(Slots) : s = array[a]
  BY DEF ArraysInv, ArraysTypes
<1>2. NoMore \in Afterwards /\ NoMore.do # "cut"
  BY Nexts
<1>3. ASSUME NEW c, Tells(s, c), Call(a, c, NoMore, TRUE) PROVE ArraysInv'
  BY <1>1, <1>2, <1>3, TellingCallStep, Zenon
<1>4. CASE Push(a, items)
  <2>1. Tells(s, Pushed(s, items))
    BY PushTells, Zenon
  <2> QED
    BY <1>1, <1>3, <1>4, <2>1, Zenon DEF Push
<1>5. CASE Unshift(a, items)
  <2>1. Tells(s, Unshifted(s, items))
    BY PushTells, Zenon
  <2> QED
    BY <1>1, <1>3, <1>5, <2>1, Zenon DEF Unshift
<1>6. CASE Pop(a, n)
  <2>1. Tells(s, Popped(s, n))
    BY PopTells, Zenon
  <2> QED
    BY <1>1, <1>3, <1>6, <2>1, Zenon DEF Pop
<1>7. CASE Shift(a, n)
  <2>1. Tells(s, Shifted(s, n))
    BY ShiftTells, Zenon
  <2> QED
    BY <1>1, <1>3, <1>7, <2>1, Zenon DEF Shift
<1>8. CASE ReplaceN(a, places)
  <2>1. Tells(s, Replaced(s, places))
    BY ReplaceTells, Zenon
  <2> QED
    BY <1>1, <1>3, <1>8, <2>1, Zenon DEF ReplaceN
<1>9. CASE Sort(a)
  <2>1. PICK t \in Sortings(s) :
          Call(a, Sorted(s, t), NoMore, \A i \in DOMAIN t : t[i] = Nothing => s[i] = Nothing)
    BY <1>1, <1>9, Zenon DEF Sort
  <2>2. PICK whole : whole = \A i \in DOMAIN t : t[i] = Nothing => s[i] = Nothing
    OBVIOUS
  <2>3. PICK c : c = Sorted(s, t)
    OBVIOUS
  <2>4. c.array \in Seq(Slots) /\ c.event \in ArrayEvent /\ (whole => Heard(s, c.event) = c.array)
    BY <2>2, <2>3, SortTells
  <2>5. PICK no \in Afterwards : no = NoMore /\ no.do # "cut"
    BY <1>2
  <2>6. whole => Heard(array[a], c.event)
          = IF no.do = "cut" THEN SubSeq(c.array, 1, Min({no.length, Len(c.array)})) ELSE c.array
    BY <1>1, <2>4, <2>5, Zenon
  <2>7. Call(a, c, no, whole)
    BY <2>1, <2>2, <2>3, <2>5, Zenon
  <2> QED
    BY <2>4, <2>6, <2>7, CallStep, Zenon
<1> QED
  BY <1>4, <1>5, <1>6, <1>7, <1>8, <1>9, Zenon

LEMMA SetLengthStep ==
  ASSUME ArraysInv, NEW a \in Arrays, NEW n \in Nat, SetLength(a, n)
  PROVE  ArraysInv'
<1>1. PICK s \in Seq(Slots) : s = array[a]
  BY DEF ArraysInv, ArraysTypes
<1>2. PICK e : e = [action |-> "pop", count |-> Max({0, Len(s) - n})]
  OBVIOUS
<1>3. e \in ArrayEvent /\ Heard(s, e) = SubSeq(s, 1, Min({n, Len(s)}))
  BY <1>2, CutTells
<1>4. PICK c : c = Change(s, e)
  OBVIOUS
<1>5. c.array = s /\ c.event = e
  BY <1>4, Changes, Zenon
<1>6. PICK next \in Afterwards : next = Cut(n) /\ next.do = "cut" /\ next.length = n
  BY Nexts
<1>7. Call(a, c, next, TRUE)
  BY <1>1, <1>2, <1>4, <1>6, Zenon DEF SetLength
<1>8. TRUE => Heard(array[a], c.event)
        = IF next.do = "cut" THEN SubSeq(c.array, 1, Min({next.length, Len(c.array)})) ELSE c.array
  BY <1>1, <1>3, <1>5, <1>6, Zenon
<1>9. c.array \in Seq(Slots) /\ c.event \in ArrayEvent
  BY <1>3, <1>5, Zenon
<1> QED
  BY <1>7, <1>8, <1>9, CallStep, Zenon

LEMMA SpliceStep ==
  ASSUME ArraysInv, NEW a \in Arrays, NEW start \in Int, NEW count \in Nat, NEW items \in Seq(Slots),
         Splice(a, start, count, items)
  PROVE  ArraysInv'
<1>1. PICK s \in Seq(Slots) : s = array[a]
  BY DEF ArraysInv, ArraysTypes
<1>2. PICK m \in Nat : m = Len(items)
  BY LenProperties
<1>3. PICK n \in Nat : n = Min({count, Len(items)}) /\ n <= count /\ n <= m
  <2>1. count \in Int /\ m \in Int
    OBVIOUS
  <2>2. Min({count, m}) = (IF count <= m THEN count ELSE m)
    BY <2>1, OfTwo, Zenon
  <2> QED
    BY <1>2, <2>2
<1>4. PICK more : more = SubSeq(items, n + 1, Len(items))
  OBVIOUS
<1>5. more \in Seq(Slots)
  <2>1. n <= m /\ m <= Len(items)
    BY <1>2, <1>3
  <2>2. SubSeq(items, n + 1, m) \in Seq(Slots)
    BY <2>1, PartOf
  <2> QED
    BY <1>2, <1>4, <2>2, Zenon
<1>6. PICK written : written = SubSeq(items, 1, n)
  OBVIOUS
<1>7. written \in Seq(Slots) /\ Len(written) = n
  <2>1. 0 <= n /\ n <= Len(items) /\ 0 \in Nat /\ 0 + 1 = 1 /\ n - 0 = n
    BY <1>2, <1>3
  <2>2. SubSeq(items, 0 + 1, n) \in Seq(Slots) /\ Len(SubSeq(items, 0 + 1, n)) = n - 0
    BY <2>1, PartOf
  <2> QED
    BY <1>6, <2>1, <2>2
<1>8. \/ Call(a, Overwritten(s, start, written),
              IF more # <<>> THEN PushMore(more) ELSE IF count > n THEN PopMore(count - n) ELSE NoMore,
              /\ start >= 0 /\ start + n <= Len(s)
              /\ Nothing \notin ToSet(JsSplice(s, start, n, <<>>).removed))
      \/ Push(a, more) \/ Pop(a, count)
  BY <1>1, <1>3, <1>4, <1>6, Zenon DEF Splice
<1>9. CASE Push(a, more) \/ Pop(a, count)
  <2>1. PICK places \in Seq(Place) : places = <<>>
    BY EmptySeq
  <2> QED
    BY <1>5, <1>9, <2>1, SimpleSteps, Zenon
<1>10. CASE Call(a, Overwritten(s, start, written),
              IF more # <<>> THEN PushMore(more) ELSE IF count > n THEN PopMore(count - n) ELSE NoMore,
              /\ start >= 0 /\ start + n <= Len(s)
              /\ Nothing \notin ToSet(JsSplice(s, start, n, <<>>).removed))
  <2>1. PICK next \in Afterwards :
          /\ next = IF more # <<>> THEN PushMore(more) ELSE IF count > n THEN PopMore(count - n) ELSE NoMore
          /\ next.do # "cut"
    <3>1. count > n => count - n \in Nat
      BY <1>3
    <3>2. CASE more # <<>>
      BY <1>5, <3>2, Nexts
    <3>3. CASE ~(more # <<>>) /\ count > n
      BY <3>1, <3>3, Nexts
    <3>4. CASE ~(more # <<>>) /\ ~(count > n)
      BY <3>4, Nexts
    <3> QED
      BY <3>2, <3>3, <3>4
  <2>2. PICK c : c = Overwritten(s, start, written)
    OBVIOUS
  <2>3. PICK whole : whole = (/\ start >= 0 /\ start + n <= Len(s)
                              /\ Nothing \notin ToSet(JsSplice(s, start, n, <<>>).removed))
    OBVIOUS
  <2>4. /\ c.array \in Seq(Slots) /\ c.event \in ArrayEvent
        /\ /\ start >= 0 /\ start + Len(written) <= Len(s)
           /\ Nothing \notin ToSet(JsSplice(s, start, n, <<>>).removed)
           => Heard(s, c.event) = c.array
    <3>1. JsSplice(s, start, Len(written), written).removed = JsSplice(s, start, n, <<>>).removed
      BY <1>7, SameRemoved
    <3> QED
      BY <1>7, <2>2, <3>1, OverwriteTells
  <2>5. whole => Heard(array[a], c.event)
          = IF next.do = "cut" THEN SubSeq(c.array, 1, Min({next.length, Len(c.array)})) ELSE c.array
    BY <1>1, <1>7, <2>1, <2>3, <2>4, Zenon
  <2>6. Call(a, c, next, whole)
    BY <1>10, <2>1, <2>2, <2>3, Zenon
  <2> QED
    BY <2>4, <2>5, <2>6, CallStep, Zenon
<1> QED
  BY <1>8, <1>9, <1>10, Zenon

-----------------------------------------------------------------------------
\* The innermost emission, and what it is once it has called its next listener.
LEMMA InnermostIsEmission ==
  ASSUME ArraysTypes, emitting # <<>>
  PROVE  Innermost \in EmissionsUnderWay /\ Front(emitting) \in Seq(EmissionsUnderWay) /\ Len(Front(emitting)) < MaxNested
<1>1. emitting \in Seq(EmissionsUnderWay) /\ Len(emitting) <= MaxNested /\ MaxNested \in Nat
  BY ArraysAssumption DEF ArraysTypes
<1>2. /\ Len(emitting) \in Nat /\ Len(emitting) >= 1 /\ emitting[Len(emitting)] \in EmissionsUnderWay
      /\ Front(emitting) \in Seq(EmissionsUnderWay) /\ Len(Front(emitting)) = Len(emitting) - 1
  BY <1>1, FrontOf
<1> QED
  BY <1>1, <1>2 DEF Innermost, Last

GoesOn(g, f) ==
  /\ g \in EmissionsUnderWay /\ g.of = f.of /\ g.next = f.next /\ g.event = f.event
  /\ Head(f.todo) = "program" => (HearsLater(g) <=> HearsLater(f))
  /\ Head(f.todo) = "result" => ~HearsLater(g) /\ HearsLater(f)

LEMMA PassedFrame ==
  ASSUME NEW f \in EmissionsUnderWay, f.todo # <<>>, NEW running \in BOOLEAN,
         NEW g, g = [f EXCEPT !.todo = Tail(@), !.running = running]
  PROVE  GoesOn(g, f)
<1>1. PICK o, e, ls, ru, ne : o = f.of /\ e = f.event /\ ls = f.todo /\ ru = f.running /\ ne = f.next
  OBVIOUS
<1>2. /\ o \in Arrays /\ e \in ArrayEvent \union {Unread} /\ ls \in Seq({"program", "result"}) /\ ls # <<>>
      /\ ne \in Afterwards /\ IsInjective(ls) /\ f = [of |-> o, event |-> e, todo |-> ls, running |-> ru, next |-> ne]
  BY <1>1 DEF EmissionsUnderWay
<1>3. PICK tl : tl = Tail(ls)
  OBVIOUS
<1>4. /\ tl \in Seq({"program", "result"}) /\ ToSet(ls) = {Head(ls)} \union ToSet(tl)
      /\ IsInjective(tl) /\ Head(ls) \notin ToSet(tl)
  BY <1>2, <1>3, ElementsOfTail
<1>5. g = [of |-> o, event |-> e, todo |-> tl, running |-> running, next |-> ne]
  BY <1>2, <1>3
<1>6. g.of = o /\ g.event = e /\ g.todo = tl /\ g.next = ne
  <2>1. PICK h : h = [of |-> o, event |-> e, todo |-> tl, running |-> running, next |-> ne]
    OBVIOUS
  <2>2. h.of = o /\ h.event = e /\ h.todo = tl /\ h.next = ne
    BY <2>1, Zenon
  <2> QED
    BY <1>5, <2>1, <2>2, Zenon
<1>7. /\ (HearsLater(f) <=> "result" \in ToSet(ls)) /\ (HearsLater(g) <=> "result" \in ToSet(tl))
      /\ HearsLater(f) => e \in ArrayEvent
  BY <1>1, <1>6 DEF HearsLater, EmissionsUnderWay
<1>8. g \in [of : Arrays, event : ArrayEvent \union {Unread}, todo : Seq({"program", "result"}),
             running : BOOLEAN, next : Afterwards]
  BY <1>2, <1>4, <1>5
<1>9. g \in EmissionsUnderWay
  BY <1>4, <1>6, <1>7, <1>8 DEF EmissionsUnderWay
<1>10. Head(ls) = "program" => ("result" \in ToSet(tl) <=> "result" \in ToSet(ls))
  <2>1. "program" # "result"
    OBVIOUS
  <2> QED
    BY <1>4, <2>1
<1>11. Head(ls) = "result" => "result" \notin ToSet(tl) /\ "result" \in ToSet(ls)
  BY <1>4
<1> QED
  BY <1>1, <1>6, <1>7, <1>9, <1>10, <1>11 DEF GoesOn

LEMMA UnreadFrame ==
  ASSUME NEW f \in EmissionsUnderWay, ~HearsLater(f), NEW g, g = [f EXCEPT !.event = Unread]
  PROVE  g \in EmissionsUnderWay /\ g.of = f.of /\ g.next = f.next /\ ~HearsLater(g)
<1>1. f \in [of : Arrays, event : ArrayEvent \union {Unread}, todo : Seq({"program", "result"}),
             running : BOOLEAN, next : Afterwards] /\ IsInjective(f.todo)
  BY DEF EmissionsUnderWay
<1>2. g \in [of : Arrays, event : ArrayEvent \union {Unread}, todo : Seq({"program", "result"}),
             running : BOOLEAN, next : Afterwards] /\ g.of = f.of /\ g.next = f.next /\ g.todo = f.todo
  BY <1>1
<1>3. ~HearsLater(g)
  BY <1>2 DEF HearsLater
<1> QED
  BY <1>1, <1>2, <1>3 DEF EmissionsUnderWay

\* Only the innermost emission, the result and its event are touched.
LEMMA TopStays ==
  ASSUME ArraysInv, emitting # <<>>, NEW f \in EmissionsUnderWay, emitting' = Append(Front(emitting), f),
         result' \in Seq(Slots),
         value # Nothing /\ ~strayed => InStep(emitting', array[value], result', value),
         UNCHANGED <<array, listening, value, promise, waiting, latest, overtaken, strayed, methods>>
  PROVE  ArraysInv'
<1>1. ArraysTypes /\ FollowsInStep /\ FollowsTheValue /\ ShowsTheLatest
  BY Zenon DEF ArraysInv
<1>2. emitting \in Seq(EmissionsUnderWay) /\ Len(emitting) <= MaxNested
  BY <1>1 DEF ArraysTypes
<1>3. emitting' \in Seq(EmissionsUnderWay) /\ Len(emitting') = Len(emitting)
  BY <1>2, LastReplaced
<1>4. ArraysTypes'
  BY <1>1, <1>2, <1>3 DEF ArraysTypes
<1>5. FollowsInStep'
  <2> SUFFICES ASSUME value' # Nothing, ~strayed'
               PROVE  InStep(emitting', array'[value'], result', value')
    BY Zenon DEF FollowsInStep
  <2>1. InStep(emitting', array[value], result', value)
    BY Zenon
  <2> QED
    BY <2>1, Zenon
<1>6. FollowsTheValue' /\ ShowsTheLatest'
  BY <1>1, ValueStays, Zenon
<1> QED
  BY <1>4, <1>5, <1>6, Zenon DEF ArraysInv

LEMMA CallProgramStep ==
  ASSUME ArraysInv, CallProgram
  PROVE  ArraysInv'
<1>1. ArraysTypes /\ FollowsInStep /\ emitting # <<>> /\ Innermost.todo # <<>> /\ Head(Innermost.todo) = "program"
  BY Zenon DEF ArraysInv, CallProgram, Calls
<1>2. PICK l \in EmissionsUnderWay : l = Innermost /\ l = Last(emitting)
  BY <1>1, InnermostIsEmission DEF Innermost
<1>3. PICK running \in BOOLEAN : running = TRUE
  OBVIOUS
<1>4. PICK f : f = [l EXCEPT !.todo = Tail(@), !.running = running]
  OBVIOUS
<1>5. /\ f \in EmissionsUnderWay /\ f.of = l.of /\ f.next = l.next /\ f.event = l.event
      /\ (HearsLater(f) <=> HearsLater(l))
  <2>1. l.todo # <<>> /\ Head(l.todo) = "program"
    BY <1>1, <1>2, Zenon
  <2>2. GoesOn(f, l)
    BY <1>4, <2>1, PassedFrame, Zenon
  <2> QED
    BY <2>1, <2>2 DEF GoesOn
<1>6. emitting' = Append(Front(emitting), f)
  BY <1>2, <1>3, <1>4, Zenon DEF CallProgram, PassedOn
<1>7. UNCHANGED <<array, result, listening, value, promise, waiting, latest, overtaken, strayed, methods>>
  BY Zenon DEF CallProgram
<1>8. emitting \in Seq(EmissionsUnderWay) /\ result' \in Seq(Slots)
  BY <1>1, <1>7 DEF ArraysTypes
<1>9. ASSUME value # Nothing, ~strayed PROVE InStep(emitting', array[value], result', value)
  <2>1. InStep(emitting, array[value], result, value)
    BY <1>1, <1>9, Zenon DEF FollowsInStep
  <2>2. InStep(Append(Front(emitting), f), array[value], result, value)
    BY <1>1, <1>2, <1>5, <1>8, <2>1, InStepKept, Zenon
  <2> QED
    BY <1>6, <1>7, <2>2, Zenon
<1> QED
  BY <1>1, <1>5, <1>6, <1>7, <1>8, <1>9, TopStays, Zenon

LEMMA ProgramReturnsStep ==
  ASSUME ArraysInv, ProgramReturns
  PROVE  ArraysInv'
<1>1. ArraysTypes /\ FollowsInStep /\ emitting # <<>>
  BY Zenon DEF ArraysInv, ProgramReturns
<1>2. PICK l \in EmissionsUnderWay : l = Innermost /\ l = Last(emitting)
  BY <1>1, InnermostIsEmission DEF Innermost
<1>3. PICK f : f = [l EXCEPT !.running = FALSE]
  OBVIOUS
<1>4. /\ f \in EmissionsUnderWay /\ f.of = l.of /\ f.next = l.next /\ f.event = l.event
      /\ (HearsLater(f) <=> HearsLater(l))
  <2>1. l \in [of : Arrays, event : ArrayEvent \union {Unread}, todo : Seq({"program", "result"}),
               running : BOOLEAN, next : Afterwards] /\ IsInjective(l.todo) /\ (HearsLater(l) => l.event \in ArrayEvent)
    BY DEF EmissionsUnderWay
  <2>2. f \in [of : Arrays, event : ArrayEvent \union {Unread}, todo : Seq({"program", "result"}),
               running : BOOLEAN, next : Afterwards] /\ f.of = l.of /\ f.next = l.next /\ f.todo = l.todo /\ f.event = l.event
    BY <1>3, <2>1
  <2>3. HearsLater(f) <=> HearsLater(l)
    BY <2>2 DEF HearsLater
  <2> QED
    BY <2>1, <2>2, <2>3 DEF EmissionsUnderWay
<1>5. emitting' = Append(Front(emitting), f)
  BY <1>2, <1>3, Zenon DEF ProgramReturns
<1>6. UNCHANGED <<array, result, listening, value, promise, waiting, latest, overtaken, strayed, methods>>
  BY Zenon DEF ProgramReturns
<1>7. emitting \in Seq(EmissionsUnderWay) /\ result' \in Seq(Slots)
  BY <1>1, <1>6 DEF ArraysTypes
<1>8. ASSUME value # Nothing, ~strayed PROVE InStep(emitting', array[value], result', value)
  <2>1. InStep(emitting, array[value], result, value)
    BY <1>1, <1>8, Zenon DEF FollowsInStep
  <2>2. InStep(Append(Front(emitting), f), array[value], result, value)
    BY <1>1, <1>2, <1>4, <1>7, <2>1, InStepKept, Zenon
  <2> QED
    BY <1>5, <1>6, <2>2, Zenon
<1> QED
  BY <1>1, <1>4, <1>5, <1>6, <1>7, <1>8, TopStays, Zenon

LEMMA CallResultStep ==
  ASSUME ArraysInv, CallResult
  PROVE  ArraysInv'
<1>1. ArraysTypes /\ FollowsInStep /\ emitting # <<>> /\ Innermost.todo # <<>> /\ Head(Innermost.todo) = "result"
  BY Zenon DEF ArraysInv, CallResult, Calls
<1>2. PICK l \in EmissionsUnderWay : l = Innermost /\ l = Last(emitting)
  BY <1>1, InnermostIsEmission DEF Innermost
<1>3. PICK running \in BOOLEAN : running = FALSE
  OBVIOUS
<1>4. PICK g : g = [l EXCEPT !.todo = Tail(@), !.running = running]
  OBVIOUS
<1>5. /\ g \in EmissionsUnderWay /\ g.of = l.of /\ g.next = l.next /\ ~HearsLater(g) /\ HearsLater(l)
  <2>1. l.todo # <<>> /\ Head(l.todo) = "result"
    BY <1>1, <1>2, Zenon
  <2>2. GoesOn(g, l)
    BY <1>4, <2>1, PassedFrame, Zenon
  <2> QED
    BY <2>1, <2>2 DEF GoesOn
<1>6. PICK f : f = [g EXCEPT !.event = Unread]
  OBVIOUS
<1>7. f \in EmissionsUnderWay /\ f.of = l.of /\ f.next = l.next /\ ~HearsLater(f)
  BY <1>5, <1>6, UnreadFrame
<1>8. emitting \in Seq(EmissionsUnderWay) /\ result \in Seq(Slots)
  BY <1>1 DEF ArraysTypes
<1>9. emitting' = Append(Front(emitting), f)
  <2>1. PICK n \in Nat : n = Len(emitting) /\ n >= 1
    BY <1>1, <1>8, FrontOf
  <2>2. PICK p : p = Append(Front(emitting), g)
    OBVIOUS
  <2>3. p \in Seq(EmissionsUnderWay) /\ Len(p) = n /\ p[n] = g /\ \A i \in 1..n - 1 : p[i] = emitting[i]
    BY <1>1, <1>5, <1>8, <2>1, <2>2, LastReplaced
  <2>4. emitting' = [p EXCEPT ![n].event = Unread]
    BY <1>2, <1>3, <1>4, <2>1, <2>2, Zenon DEF CallResult, Heeded, PassedOn
  <2>5. [p EXCEPT ![n].event = Unread] = [p EXCEPT ![n] = f]
    BY <1>6, <2>1, <2>3
  <2>6. PICK h : h = [p EXCEPT ![n] = f]
    OBVIOUS
  <2>7. h \in Seq(EmissionsUnderWay) /\ Len(h) = n /\ h[n] = f /\ \A i \in 1..n - 1 : h[i] = p[i]
    BY <1>7, <2>1, <2>3, <2>6
  <2>8. PICK k : k = Append(Front(emitting), f)
    OBVIOUS
  <2>9. k \in Seq(EmissionsUnderWay) /\ Len(k) = n /\ k[n] = f /\ \A i \in 1..n - 1 : k[i] = emitting[i]
    BY <1>1, <1>7, <1>8, <2>1, <2>8, LastReplaced
  <2>10. \A i \in 1..n : i = n \/ i \in 1..n - 1
    BY <2>1
  <2>11. \A i \in 1..n : h[i] = k[i]
    BY <2>3, <2>7, <2>9, <2>10
  <2>12. h = k
    BY <2>7, <2>9, <2>11, SeqEqual
  <2> QED
    BY <2>4, <2>5, <2>6, <2>8, <2>12, Zenon
<1>10. UNCHANGED <<array, listening, value, promise, waiting, latest, overtaken, strayed, methods>> /\ result' = Heard(result, l.event)
  BY <1>2, Zenon DEF CallResult
<1>11. result' \in Seq(Slots)
  <2>1. l.event \in ArrayEvent
    BY <1>5 DEF EmissionsUnderWay
  <2> QED
    BY <1>8, <1>10, <2>1, HeardItems
<1>12. ASSUME value # Nothing, ~strayed PROVE InStep(emitting', array[value], result', value)
  <2>1. InStep(emitting, array[value], result, value)
    BY <1>1, <1>12, Zenon DEF FollowsInStep
  <2>2. InStep(Append(Front(emitting), f), array[value], Heard(result, Last(emitting).event), value)
    BY <1>1, <1>2, <1>5, <1>7, <1>8, <2>1, InStepHeard, Zenon
  <2> QED
    BY <1>2, <1>9, <1>10, <2>2, Zenon
<1> QED
  BY <1>1, <1>7, <1>9, <1>11, <1>12, <1>10, TopStays, Zenon

LEMMA NextParts ==
  ASSUME NEW next \in Afterwards
  PROVE  /\ next.do = "push" => next.items \in Seq(Slots)
         /\ next.do = "pop" => next.count \in Nat
         /\ next.do = "cut" => next.length \in Nat
BY DEF Afterwards

\* A length is set to as many items as there are, or fewer.
LEMMA ResizedItems ==
  ASSUME NEW s \in Seq(Slots), NEW n \in Nat, NEW t, t = Resized(s, n)
  PROVE  t \in Seq(Slots) /\ (n <= Len(s) => t = SubSeq(s, 1, Min({n, Len(s)})))
<1>1. PICK L \in Nat : L = Len(s)
  BY LenProperties
<1>2. CASE n <= L
  <2>1. n \in Int /\ L \in Int
    OBVIOUS
  <2>2. Min({n, L}) = (IF n <= L THEN n ELSE L)
    BY <2>1, OfTwo, Zenon
  <2>3. t = SubSeq(s, 1, Min({n, Len(s)}))
    BY <1>1, <1>2, <2>2 DEF Resized
  <2>4. PICK e : e = [action |-> "pop", count |-> Max({0, Len(s) - n})]
    OBVIOUS
  <2> QED
    BY <2>3, <2>4, CutTells
<1>3. CASE ~(n <= L)
  <2>1. PICK m \in Nat : m = n - L
    BY <1>3
  <2>2. PICK more : more = [i \in 1..m |-> Nothing]
    OBVIOUS
  <2>3. Nothing \in Slots
    BY DEF Slots
  <2>4. more \in Seq(Slots)
    BY <2>2, <2>3
  <2>5. t = s \o more
    BY <1>1, <1>3, <2>1, <2>2 DEF Resized
  <2>6. s \o more \in Seq(Slots)
    BY <2>4, ConcatParts, Zenon
  <2> QED
    BY <1>1, <1>3, <2>5, <2>6
<1> QED
  BY <1>2, <1>3

\* An emission is given up: the stack below it is left, and the result may stray.
LEMMA GivenUp ==
  ASSUME ArraysInv, emitting # <<>>, emitting' = Front(emitting), result' \in Seq(Slots), strayed' \in BOOLEAN,
         value # Nothing /\ ~strayed' => InStep(emitting', array[value], result', value),
         UNCHANGED <<array, listening, value, promise, waiting, latest, overtaken, methods>>
  PROVE  ArraysInv'
<1>1. ArraysTypes /\ FollowsInStep /\ FollowsTheValue /\ ShowsTheLatest
  BY Zenon DEF ArraysInv
<1>2. emitting' \in Seq(EmissionsUnderWay) /\ Len(emitting') <= MaxNested
  <2>1. Front(emitting) \in Seq(EmissionsUnderWay) /\ Len(Front(emitting)) < MaxNested
    BY <1>1, InnermostIsEmission
  <2>2. Len(Front(emitting)) \in Nat /\ MaxNested \in Nat
    BY <2>1, LenProperties, ArraysAssumption
  <2> QED
    BY <2>1, <2>2
<1>4. ArraysTypes'
  BY <1>1, <1>2 DEF ArraysTypes
<1>5. FollowsInStep'
  <2> SUFFICES ASSUME value' # Nothing, ~strayed'
               PROVE  InStep(emitting', array'[value'], result', value')
    BY Zenon DEF FollowsInStep
  <2>1. InStep(emitting', array[value], result', value)
    BY Zenon
  <2> QED
    BY <2>1, Zenon
<1>6. FollowsTheValue' /\ ShowsTheLatest'
  BY <1>1, ValueStays, Zenon
<1> QED
  BY <1>4, <1>5, <1>6, Zenon DEF ArraysInv

\* A listener of the program throws.
LEMMA ProgramThrowsStep ==
  ASSUME ArraysInv, ProgramThrows
  PROVE  ArraysInv'
<1>1. ArraysTypes /\ FollowsInStep /\ FollowsTheValue /\ emitting # <<>>
  BY Zenon DEF ArraysInv, ProgramThrows
<1>2. PICK l \in EmissionsUnderWay : l = Innermost /\ l = Last(emitting)
  BY <1>1, InnermostIsEmission DEF Innermost
<1>3. PICK a \in Arrays : a = l.of
  BY DEF EmissionsUnderWay
<1>4. /\ emitting' = Front(emitting)
      /\ strayed' = (strayed \/ (Follows(a) /\ (Unheard(<<l>>) \/ CutComes(<<l>>, a))))
      /\ UNCHANGED <<array, result, listening, value, promise, waiting, latest, overtaken, methods>>
  BY <1>2, <1>3, Zenon DEF ProgramThrows
<1>5. /\ Unheard(<<l>>) <=> HearsLater(l)
      /\ CutComes(<<l>>, a) <=> CutsLater(l, a)
  <2>1. ToSet(<<l>>) = {l}
    BY DEF ToSet
  <2> QED
    BY <2>1 DEF Unheard, CutComes, HearsLater, CutsLater
<1>6. emitting \in Seq(EmissionsUnderWay) /\ result' \in Seq(Slots) /\ strayed' \in BOOLEAN
  BY <1>1, <1>4 DEF ArraysTypes
<1>7. ASSUME value # Nothing, ~strayed' PROVE InStep(emitting', array[value], result', value)
  <2>1. ~strayed /\ InStep(emitting, array[value], result, value)
    BY <1>1, <1>4, <1>7, Zenon DEF FollowsInStep
  <2>2. Follows(a) <=> a = value
    BY <1>1, <1>7, FollowedIsValue, Zenon
  <2>3. HearsLater(l) => a = value
    <3>1. Len(emitting) \in DOMAIN emitting
      BY <1>1, <1>6, FrontOf, LenProperties
    <3>2. l = emitting[Len(emitting)]
      BY <1>2 DEF Last
    <3> QED
      BY <1>3, <2>1, <3>1, <3>2 DEF InStep
  <2>4. ~Unsettled(l, value)
    <3>1. a = value => ~HearsLater(l) /\ ~CutsLater(l, value)
      BY <1>4, <1>5, <1>7, <2>2, Zenon
    <3>2. a # value => ~CutsLater(l, value)
      BY <1>3 DEF CutsLater
    <3> QED
      BY <2>3, <3>1, <3>2 DEF Unsettled
  <2>5. InStep(Front(emitting), array[value], result, value)
    BY <1>1, <1>2, <1>6, <2>1, <2>4, InStepDropped, Zenon
  <2> QED
    BY <1>4, <2>5, Zenon
<1> QED
  BY <1>1, <1>4, <1>6, <1>7, GivenUp, Zenon

\* The result throws.
LEMMA ResultThrowsStep ==
  ASSUME ArraysInv, ResultThrows
  PROVE  ArraysInv'
<1>1. ArraysTypes /\ emitting # <<>> /\ Innermost.todo # <<>> /\ Head(Innermost.todo) = "result"
  BY Zenon DEF ArraysInv, ResultThrows, Calls
<1>2. PICK l \in EmissionsUnderWay : l = Innermost /\ l = Last(emitting)
  BY <1>1, InnermostIsEmission DEF Innermost
<1>3. HearsLater(l)
  <2>1. PICK running \in BOOLEAN : running = FALSE
    OBVIOUS
  <2>2. PICK g : g = [l EXCEPT !.todo = Tail(@), !.running = running]
    OBVIOUS
  <2>3. l.todo # <<>> /\ Head(l.todo) = "result"
    BY <1>1, <1>2, Zenon
  <2>4. GoesOn(g, l)
    BY <2>2, <2>3, PassedFrame, Zenon
  <2> QED
    BY <2>3, <2>4 DEF GoesOn
<1>4. /\ emitting' = Front(emitting) /\ strayed' = TRUE /\ result' = Heard(result, l.event)
      /\ UNCHANGED <<array, listening, value, promise, waiting, latest, overtaken, methods>>
  BY <1>2, Zenon DEF ResultThrows
<1>5. result' \in Seq(Slots)
  <2>1. l.event \in ArrayEvent /\ result \in Seq(Slots)
    BY <1>1, <1>3 DEF EmissionsUnderWay, ArraysTypes
  <2> QED
    BY <1>4, <2>1, HeardItems
<1>6. strayed' \in BOOLEAN /\ (value # Nothing /\ ~strayed' => InStep(emitting', array[value], result', value))
  BY <1>4
<1> QED
  BY <1>1, <1>4, <1>5, <1>6, GivenUp, Zenon

\* The method goes on, or is over.
LEMMA EmissionEndsStep ==
  ASSUME ArraysInv, EmissionEnds
  PROVE  ArraysInv'
<1>1. ArraysTypes /\ FollowsInStep /\ FollowsTheValue /\ ShowsTheLatest /\ emitting # <<>> /\ Innermost.todo = <<>>
  BY Zenon DEF ArraysInv, EmissionEnds
<1>2. PICK l \in EmissionsUnderWay : l = Innermost /\ l = Last(emitting)
  BY <1>1, InnermostIsEmission DEF Innermost
<1>3. ~HearsLater(l)
  <2>1. l.todo = <<>>
    BY <1>1, <1>2, Zenon
  <2> QED
    BY <2>1, ElementsOfNothing DEF HearsLater
<1>4. PICK a \in Arrays, next \in Afterwards : a = l.of /\ next = l.next
  BY DEF EmissionsUnderWay
<1>5. PICK below \in Seq(EmissionsUnderWay) : below = Front(emitting) /\ Len(below) < MaxNested
  BY <1>1, InnermostIsEmission
<1>6. emitting \in Seq(EmissionsUnderWay) /\ array \in [Arrays \union Plains -> Seq(Slots)] /\ strayed \in BOOLEAN /\ methods \in Nat
  BY <1>1 DEF ArraysTypes
<1>7. /\ strayed' = (strayed \/ (Follows(a) /\ next.do # "nothing"
                                  /\ (\/ Unheard(below) \/ CutComes(below, a)
                                      \/ next.do = "cut" /\ next.length > Len(array[a]))))
      /\ UNCHANGED <<result, listening, value, promise, waiting, latest, overtaken, methods>>
      /\ \/ next.do = "nothing" /\ emitting' = below /\ UNCHANGED array
         \/ next.do = "push" /\ Apply(a, Pushed(array[a], next.items), NoMore, below)
         \/ next.do = "pop" /\ Apply(a, Popped(array[a], next.count), NoMore, below)
         \/ /\ next.do = "cut"
            /\ array' = [array EXCEPT ![a] = Resized(@, next.length)]
            /\ emitting' = below
  BY <1>2, <1>4, <1>5, Zenon DEF EmissionEnds
<1>8. ASSUME value # Nothing, ~strayed PROVE InStep(emitting, array[value], result, value)
  BY <1>1, <1>8, Zenon DEF FollowsInStep
<1>9. ASSUME value # Nothing, ~strayed, ~CutsLater(l, value) PROVE InStep(below, array[value], result, value)
  <2>1. ~Unsettled(l, value)
    BY <1>3, <1>9, Zenon DEF Unsettled
  <2> QED
    BY <1>1, <1>2, <1>5, <1>6, <1>8, <1>9, <2>1, InStepDropped, Zenon
<1>10. ASSUME array' \in [Arrays \union Plains -> Seq(Slots)], emitting' = below,
              ASSUME value # Nothing, ~strayed' PROVE InStep(below, array'[value], result, value)
       PROVE  ArraysInv'
  <2>1. Len(below) \in Nat /\ MaxNested \in Nat
    BY LenProperties, ArraysAssumption
  <2>2. Len(below) <= MaxNested
    BY <1>5, <2>1
  <2>3. strayed' \in BOOLEAN
    BY <1>7, Zenon
  <2>4. ArraysTypes'
    BY <1>1, <1>7, <1>10, <2>2, <2>3 DEF ArraysTypes
  <2>5. FollowsInStep'
    <3> SUFFICES ASSUME value' # Nothing, ~strayed'
                 PROVE  InStep(emitting', array'[value'], result', value')
      BY Zenon DEF FollowsInStep
    <3>1. value' = value /\ result' = result
      BY <1>7
    <3>2. InStep(below, array'[value], result, value)
      BY <1>10, <3>1, Zenon
    <3> QED
      BY <1>10, <3>1, <3>2, Zenon
  <2>6. FollowsTheValue' /\ ShowsTheLatest'
    BY <1>1, <1>7, ValueStays, Zenon
  <2> QED
    BY <2>4, <2>5, <2>6, Zenon DEF ArraysInv
<1>11. CASE next.do = "nothing" /\ emitting' = below /\ UNCHANGED array
  <2>1. strayed' = strayed
    BY <1>6, <1>7, <1>11, Zenon
  <2>2. ~CutsLater(l, value)
    BY <1>4, <1>11 DEF CutsLater
  <2>3. ASSUME value # Nothing, ~strayed' PROVE InStep(below, array'[value], result, value)
    BY <1>9, <1>11, <2>1, <2>2, <2>3, Zenon
  <2>4. array' \in [Arrays \union Plains -> Seq(Slots)]
    BY <1>6, <1>11, Zenon
  <2> QED
    BY <1>10, <1>11, <2>3, <2>4, Zenon
<1>12. ASSUME NEW c, Tells(array[a], c), Apply(a, c, NoMore, below), next.do \in {"push", "pop"} PROVE ArraysInv'
  <2>1. c.array \in Seq(Slots) /\ c.event \in ArrayEvent /\ Heard(array[a], c.event) = c.array
    BY <1>12, Zenon DEF Tells
  <2>2. PICK no \in Afterwards : no = NoMore /\ no.do # "cut"
    BY Nexts
  <2>3. PICK whole : whole = TRUE
    OBVIOUS
  <2>4. whole => Heard(array[a], c.event)
          = IF no.do = "cut" THEN SubSeq(c.array, 1, Min({no.length, Len(c.array)})) ELSE c.array
    BY <2>1, <2>2, Zenon
  <2>5. ~CutsLater(l, value)
    <3>1. next.do # "cut"
      BY <1>12
    <3> QED
      BY <1>4, <3>1, Zenon DEF CutsLater
  <2>6. value # Nothing /\ ~strayed => InStep(below, array[value], result, value)
    BY <1>9, <2>5, Zenon
  <2>7. strayed' = (strayed \/ (Follows(a) /\ (~whole \/ Unheard(below) \/ CutComes(below, a))))
    <3>1. next.do # "nothing" /\ next.do # "cut"
      BY <1>12
    <3> QED
      BY <1>7, <2>3, <3>1, Zenon
  <2>8. UNCHANGED <<result, listening, value, promise, waiting, latest, overtaken>> /\ methods' \in Nat
    BY <1>6, <1>7, Zenon
  <2>9. Apply(a, c, no, below)
    BY <1>12, <2>2, Zenon
  <2> QED
    BY <1>5, <2>1, <2>4, <2>6, <2>7, <2>8, <2>9, MethodChanges, Zenon
<1>13. PICK s \in Seq(Slots) : s = array[a]
  BY <1>6
<1>14. CASE next.do = "push" /\ Apply(a, Pushed(array[a], next.items), NoMore, below)
  <2>1. PICK items \in Seq(Slots) : items = next.items
    BY <1>14, NextParts
  <2>2. Tells(s, Pushed(s, items))
    BY PushTells, Zenon
  <2>3. next.do \in {"push", "pop"}
    BY <1>14
  <2> QED
    BY <1>12, <1>13, <1>14, <2>1, <2>2, <2>3, Zenon
<1>15. CASE next.do = "pop" /\ Apply(a, Popped(array[a], next.count), NoMore, below)
  <2>1. PICK n \in Nat : n = next.count
    BY <1>15, NextParts
  <2>2. Tells(s, Popped(s, n))
    BY PopTells, Zenon
  <2>3. next.do \in {"push", "pop"}
    BY <1>15
  <2> QED
    BY <1>12, <1>13, <1>15, <2>1, <2>2, <2>3, Zenon
<1>16. CASE /\ next.do = "cut"
            /\ array' = [array EXCEPT ![a] = Resized(@, next.length)]
            /\ emitting' = below
  <2>1. PICK n \in Nat : n = next.length
    BY <1>16, NextParts
  <2>2. PICK t : t = Resized(s, n)
    OBVIOUS
  <2>3. t \in Seq(Slots) /\ (n <= Len(s) => t = SubSeq(s, 1, Min({n, Len(s)})))
    BY <2>2, ResizedItems
  <2>4. array' = [array EXCEPT ![a] = t]
    BY <1>13, <1>16, <2>1, <2>2
  <2>5. array' \in [Arrays \union Plains -> Seq(Slots)]
    BY <1>6, <2>3, <2>4
  <2>6. ASSUME value # Nothing, ~strayed' PROVE InStep(below, array'[value], result, value)
    <3>1. ~strayed /\ (Follows(a) => ~(Unheard(below) \/ CutComes(below, a)) /\ ~(next.length > Len(array[a])))
      <4>1. next.do # "nothing" /\ next.do = "cut"
        BY <1>16
      <4> QED
        BY <1>7, <2>6, <4>1, Zenon
    <3>2. Follows(a) <=> a = value
      BY <1>1, <2>6, FollowedIsValue, Zenon
    <3>3. CASE a = value
      <4>1. Settled(below, a)
        BY <3>1, <3>2, <3>3, QuietIsSettled, Zenon
      <4>2. CutsLater(l, a)
        BY <1>4, <1>16 DEF CutsLater
      <4>3. InStep(emitting, s, result, a)
        BY <1>8, <1>13, <2>6, <3>1, <3>3, Zenon
      <4>4. PICK k \in DOMAIN emitting : l = emitting[k]
        <5>1. Len(emitting) \in DOMAIN emitting
          BY <1>1, <1>6, FrontOf, LenProperties
        <5> QED
          BY <1>2, <5>1 DEF Last
      <4>5. result = Then(l, s, a)
        BY <1>3, <4>2, <4>3, <4>4 DEF InStep
      <4>6. result = t
        <5>1. ~(n > Len(s))
          BY <1>13, <2>1, <3>1, <3>2, <3>3, Zenon
        <5>2. n <= Len(s)
          BY <5>1, LenProperties
        <5>3. t = SubSeq(s, 1, Min({n, Len(s)}))
          BY <2>3, <5>2
        <5> QED
          BY <1>4, <2>1, <4>2, <4>5, <5>3 DEF Then
      <4>7. array'[value] = t
        BY <1>6, <2>4, <3>3
      <4> QED
        BY <3>3, <4>1, <4>6, <4>7, SettledInStep, Zenon
    <3>4. CASE a # value
      <4>1. ~CutsLater(l, value)
        BY <1>4, <3>4, Zenon DEF CutsLater
      <4>2. InStep(below, array[value], result, value)
        BY <1>9, <2>6, <3>1, <4>1, Zenon
      <4>3. array'[value] = array[value]
        <5>1. value \in Arrays \union Plains
          BY <1>1, <2>6 DEF ArraysTypes
        <5> QED
          BY <1>6, <2>4, <3>4, <5>1
      <4> QED
        BY <4>2, <4>3, Zenon
    <3> QED
      BY <3>3, <3>4
  <2> QED
    BY <1>10, <1>16, <2>5, <2>6, Zenon
<1> QED
  BY <1>7, <1>11, <1>14, <1>15, <1>16, Zenon

-----------------------------------------------------------------------------
\* The listeners an array keeps when the result leaves it, and with the result again.
LEMMA AloneAndBack ==
  ASSUME NEW ls \in Seq({"program", "result"}), IsInjective(ls)
  PROVE  /\ Alone(ls) \in Seq({"program", "result"}) /\ IsInjective(Alone(ls))
         /\ "result" \notin ToSet(Alone(ls))
         /\ Append(Alone(ls), "result") \in Seq({"program", "result"}) /\ IsInjective(Append(Alone(ls), "result"))
         /\ "result" \in ToSet(Append(Alone(ls), "result"))
<1>1. PICK k : k = Alone(ls)
  OBVIOUS
<1>2. k \in Seq({"program", "result"}) /\ ToSet(k) = ToSet(ls) \intersect {"program"} /\ IsInjective(k)
  BY <1>1, ElementsOfFiltered DEF Alone
<1>3. "result" \notin ToSet(k)
  BY <1>2
<1>4. PICK x \in {"program", "result"} : x = "result"
  OBVIOUS
<1>5. /\ ToSet(Append(k, x)) = ToSet(k) \union {x}
      /\ IsInjective(k) /\ x \notin ToSet(k) => IsInjective(Append(k, x))
  BY <1>2, ElementsOfAppend
<1>6. Append(k, x) \in Seq({"program", "result"})
  BY <1>2
<1> QED
  BY <1>1, <1>2, <1>3, <1>4, <1>5, <1>6

LEMMA Leaving ==
  ASSUME ArraysTypes, listening' = [a \in Arrays |-> Alone(listening[a])]
  PROVE  /\ listening' \in [Arrays -> Seq({"program", "result"})] /\ \A a \in Arrays : IsInjective(listening'[a])
         /\ \A a \in Arrays : ~Follows(a)'
<1>1. ASSUME NEW a \in Arrays
      PROVE  /\ Alone(listening[a]) \in Seq({"program", "result"}) /\ IsInjective(Alone(listening[a]))
             /\ "result" \notin ToSet(Alone(listening[a]))
  <2>1. PICK ls \in Seq({"program", "result"}) : ls = listening[a] /\ IsInjective(ls)
    BY DEF ArraysTypes
  <2> QED
    BY <2>1, AloneAndBack
<1>2. \A a \in Arrays : listening'[a] = Alone(listening[a])
  OBVIOUS
<1> QED
  BY <1>1, <1>2 DEF Follows

\* replaceArray() of the value just set.
LEMMA ReplaceArrayStep ==
  ASSUME ArraysTypes, NEW v \in Arrays \union Plains, ReplaceArray(v), value' = v, UNCHANGED <<array, emitting>>
  PROVE  /\ result' \in Seq(Slots) /\ strayed' \in BOOLEAN
         /\ listening' \in [Arrays -> Seq({"program", "result"})] /\ \A a \in Arrays : IsInjective(listening'[a])
         /\ FollowsInStep' /\ FollowsTheValue'
<1>1. /\ result' = array[v] /\ strayed' = (Unheard(emitting) \/ CutComes(emitting, v))
      /\ listening' = [a \in Arrays |-> IF a = v THEN Append(Alone(listening[a]), "result") ELSE Alone(listening[a])]
  BY Zenon DEF ReplaceArray
<1>2. emitting \in Seq(EmissionsUnderWay) /\ array \in [Arrays \union Plains -> Seq(Slots)]
  BY DEF ArraysTypes
<1>3. result' \in Seq(Slots) /\ strayed' \in BOOLEAN
  <2>1. result' \in Seq(Slots)
    BY <1>1, <1>2
  <2>2. strayed' \in BOOLEAN
    <3>1. (Unheard(emitting) \/ CutComes(emitting, v)) \in BOOLEAN
      BY DEF Unheard, CutComes
    <3> QED
      BY <1>1, <3>1, Zenon
  <2> QED
    BY <2>1, <2>2
<1>4. ASSUME NEW a \in Arrays
      PROVE  /\ listening'[a] \in Seq({"program", "result"}) /\ IsInjective(listening'[a])
             /\ ("result" \in ToSet(listening'[a]) <=> a = v)
  <2>1. PICK ls \in Seq({"program", "result"}) : ls = listening[a] /\ IsInjective(ls)
    BY DEF ArraysTypes
  <2>2. PICK k, b : k = Alone(ls) /\ b = Append(Alone(ls), "result")
    OBVIOUS
  <2>3. /\ k \in Seq({"program", "result"}) /\ IsInjective(k) /\ "result" \notin ToSet(k)
        /\ b \in Seq({"program", "result"}) /\ IsInjective(b) /\ "result" \in ToSet(b)
    BY <2>1, <2>2, AloneAndBack
  <2>4. listening'[a] = IF a = v THEN b ELSE k
    BY <1>1, <2>1, <2>2
  <2> QED
    BY <2>3, <2>4
<1>5. listening' \in [Arrays -> Seq({"program", "result"})]
  <2>1. listening' = [a \in Arrays |-> listening'[a]]
    BY <1>1
  <2> QED
    BY <1>4, <2>1
<1>6. FollowsInStep'
  <2> SUFFICES ASSUME value' # Nothing, ~strayed'
               PROVE  InStep(emitting', array'[value'], result', value')
    BY Zenon DEF FollowsInStep
  <2>1. Settled(emitting, v)
    BY <1>1, <1>2, QuietIsSettled, Zenon
  <2>2. InStep(emitting, array[v], array[v], v)
    BY <2>1, SettledInStep, Zenon
  <2> QED
    BY <1>1, <2>2, Zenon
<1>7. FollowsTheValue'
  <2>1. \A a \in Arrays : Follows(a)' <=> a = v
    BY <1>4 DEF Follows
  <2> QED
    BY <2>1 DEF FollowsTheValue
<1> QED
  BY <1>3, <1>4, <1>5, <1>6, <1>7

LEMMA FormatStep ==
  ASSUME ArraysInv, NEW v \in Arrays \union Plains, Format(v)
  PROVE  ArraysInv'
<1>1. ArraysTypes /\ FollowsInStep /\ FollowsTheValue /\ ShowsTheLatest
  BY Zenon DEF ArraysInv
<1>2. latest' = v /\ overtaken' = FALSE /\ UNCHANGED <<array, promise, waiting, emitting, methods>>
  BY Zenon DEF Format
<1>3. \/ value = v /\ UNCHANGED <<value, result, listening, strayed>>
      \/ value' = v /\ ReplaceArray(v)
  BY Zenon DEF Format
<1>4. ShowsTheLatest'
  BY <1>2, <1>3 DEF ShowsTheLatest
<1>5. CASE value = v /\ UNCHANGED <<value, result, listening, strayed>>
  <2>1. ArraysTypes'
    BY <1>1, <1>2, <1>5 DEF ArraysTypes
  <2>2. FollowsInStep' /\ FollowsTheValue'
    BY <1>1, <1>2, <1>5 DEF FollowsInStep, FollowsTheValue, Follows
  <2> QED
    BY <1>4, <2>1, <2>2, Zenon DEF ArraysInv
<1>6. CASE value' = v /\ ReplaceArray(v)
  <2>1. /\ result' \in Seq(Slots) /\ strayed' \in BOOLEAN
        /\ listening' \in [Arrays -> Seq({"program", "result"})] /\ \A a \in Arrays : IsInjective(listening'[a])
        /\ FollowsInStep' /\ FollowsTheValue'
    BY <1>1, <1>2, <1>6, ReplaceArrayStep
  <2>2. ArraysTypes'
    BY <1>1, <1>2, <1>6, <2>1 DEF ArraysTypes
  <2> QED
    BY <1>4, <2>1, <2>2, Zenon DEF ArraysInv
<1> QED
  BY <1>3, <1>5, <1>6, Zenon

LEMMA FormatPromiseStep ==
  ASSUME ArraysInv, NEW p \in Promises, FormatPromise(p)
  PROVE  ArraysInv'
<1>1. ArraysTypes /\ FollowsInStep /\ FollowsTheValue
  BY Zenon DEF ArraysInv
<1>2. latest' = p /\ UNCHANGED <<array, emitting, methods>>
  BY Zenon DEF FormatPromise
<1>3. ShowsTheLatest'
  BY <1>2 DEF ShowsTheLatest
<1>4. CASE promise = p
  <2>1. overtaken' = (overtaken \/ latest # p) /\ UNCHANGED <<promise, value, result, listening, waiting, strayed, methods>>
    BY <1>4, Zenon DEF FormatPromise
  <2>2. overtaken' \in BOOLEAN
    BY <1>1, <2>1, Zenon DEF ArraysTypes
  <2>3. ArraysTypes'
    <3>1. UNCHANGED <<promise, value, result, listening, waiting, strayed, methods>>
      BY <2>1
    <3> QED
      BY <1>1, <1>2, <2>2, <3>1 DEF ArraysTypes
  <2>4. FollowsInStep' /\ FollowsTheValue'
    <3>1. UNCHANGED <<promise, value, result, listening, waiting, strayed, methods>>
      BY <2>1
    <3> QED
      BY <1>1, <1>2, <3>1 DEF FollowsInStep, FollowsTheValue, Follows
  <2> QED
    BY <1>3, <2>3, <2>4, Zenon DEF ArraysInv
<1>5. CASE promise # p
  <2>1. /\ promise' = p /\ value' = Nothing /\ waiting' = waiting \union {p} /\ overtaken' = FALSE
        /\ \/ UNCHANGED <<result, listening, strayed>>
           \/ /\ result' = <<>> /\ listening' = [a \in Arrays |-> Alone(listening[a])]
              /\ strayed' = Unheard(emitting)
    BY <1>5, Zenon DEF FormatPromise
  <2>2. FollowsInStep'
    BY <2>1 DEF FollowsInStep
  <2>3. /\ result' \in Seq(Slots) /\ strayed' \in BOOLEAN
        /\ listening' \in [Arrays -> Seq({"program", "result"})] /\ \A a \in Arrays : IsInjective(listening'[a])
        /\ \A a, b \in Arrays : Follows(a)' /\ Follows(b)' => a = b
    <3>1. CASE UNCHANGED <<result, listening, strayed>>
      BY <1>1, <3>1 DEF ArraysTypes, FollowsTheValue, Follows
    <3>2. CASE /\ result' = <<>> /\ listening' = [a \in Arrays |-> Alone(listening[a])]
               /\ strayed' = Unheard(emitting)
      <4>1. result' \in Seq(Slots)
        BY <3>2, EmptySeq
      <4>2. strayed' \in BOOLEAN
        <5>1. Unheard(emitting) \in BOOLEAN
          BY DEF Unheard
        <5> QED
          BY <3>2, <5>1, Zenon
      <4>3. /\ listening' \in [Arrays -> Seq({"program", "result"})] /\ \A a \in Arrays : IsInjective(listening'[a])
            /\ \A a \in Arrays : ~Follows(a)'
        BY <1>1, <3>2, Leaving
      <4> QED
        BY <4>1, <4>2, <4>3
    <3> QED
      BY <2>1, <3>1, <3>2
  <2>4. ArraysTypes'
    BY <1>1, <1>2, <2>1, <2>3 DEF ArraysTypes
  <2>5. FollowsTheValue'
    BY <2>1, <2>3 DEF FollowsTheValue
  <2> QED
    BY <1>3, <2>2, <2>4, <2>5, Zenon DEF ArraysInv
<1> QED
  BY <1>4, <1>5

LEMMA PromiseAnswersStep ==
  ASSUME ArraysInv, NEW p \in Promises, NEW v \in Arrays \union Plains, PromiseAnswers(p, v)
  PROVE  ArraysInv'
<1>1. ArraysTypes
  BY Zenon DEF ArraysInv
<1>2. /\ waiting' = waiting \ {p} /\ value' = v /\ ReplaceArray(v)
      /\ UNCHANGED <<array, promise, emitting, methods>>
      /\ \/ latest' = v /\ UNCHANGED overtaken
         \/ overtaken' = TRUE /\ UNCHANGED latest
  BY Zenon DEF PromiseAnswers
<1>3. /\ result' \in Seq(Slots) /\ strayed' \in BOOLEAN
      /\ listening' \in [Arrays -> Seq({"program", "result"})] /\ \A a \in Arrays : IsInjective(listening'[a])
      /\ FollowsInStep' /\ FollowsTheValue'
  BY <1>1, <1>2, ReplaceArrayStep
<1>4. ArraysTypes'
  BY <1>1, <1>2, <1>3 DEF ArraysTypes
<1>5. ShowsTheLatest'
  BY <1>2 DEF ShowsTheLatest
<1> QED
  BY <1>3, <1>4, <1>5, Zenon DEF ArraysInv

LEMMA OtherArraysSteps ==
  ASSUME ArraysInv,
         \/ \E p \in Promises : PromiseFails(p)
         \/ \E a \in Arrays : Listen(a)
         \/ UNCHANGED arraysVars
  PROVE  ArraysInv'
<1>1. ArraysTypes /\ FollowsInStep /\ FollowsTheValue /\ ShowsTheLatest
  BY Zenon DEF ArraysInv
<1>2. CASE \E p \in Promises : PromiseFails(p)
  <2>1. PICK p \in Promises : PromiseFails(p)
    BY <1>2
  <2>2. /\ waiting' = waiting \ {p}
        /\ UNCHANGED <<array, result, listening, value, promise, emitting, latest, overtaken, strayed, methods>>
    BY <2>1, Zenon DEF PromiseFails
  <2>3. ArraysTypes'
    BY <1>1, <2>2 DEF ArraysTypes
  <2>4. FollowsInStep' /\ FollowsTheValue' /\ ShowsTheLatest'
    BY <1>1, <2>2 DEF FollowsInStep, FollowsTheValue, Follows, ShowsTheLatest
  <2> QED
    BY <2>3, <2>4, Zenon DEF ArraysInv
<1>3. CASE \E a \in Arrays : Listen(a)
  <2>1. PICK a \in Arrays : Listen(a)
    BY <1>3
  <2>2. /\ "program" \notin ToSet(listening[a]) /\ listening' = [listening EXCEPT ![a] = Append(@, "program")]
        /\ UNCHANGED <<array, result, value, promise, waiting, emitting, latest, overtaken, strayed, methods>>
    BY <2>1, Zenon DEF Listen
  <2>3. PICK ls \in Seq({"program", "result"}) : ls = listening[a] /\ IsInjective(ls)
    BY <1>1 DEF ArraysTypes
  <2>4. PICK x \in {"program", "result"} : x = "program"
    OBVIOUS
  <2>5. PICK k : k = Append(ls, x)
    OBVIOUS
  <2>6. k \in Seq({"program", "result"}) /\ IsInjective(k) /\ ("result" \in ToSet(k) <=> "result" \in ToSet(ls))
    <3>1. /\ ToSet(Append(ls, x)) = ToSet(ls) \union {x}
          /\ IsInjective(ls) /\ x \notin ToSet(ls) => IsInjective(Append(ls, x))
      BY ElementsOfAppend
    <3>2. Append(ls, x) \in Seq({"program", "result"})
      OBVIOUS
    <3>3. x # "result"
      BY <2>4
    <3> QED
      BY <2>2, <2>3, <2>4, <2>5, <3>1, <3>2, <3>3
  <2>7. listening' = [listening EXCEPT ![a] = k] /\ listening \in [Arrays -> Seq({"program", "result"})]
    BY <1>1, <2>2, <2>3, <2>4, <2>5 DEF ArraysTypes
  <2>8. \A b \in Arrays : /\ listening'[b] \in Seq({"program", "result"}) /\ IsInjective(listening'[b])
                          /\ ("result" \in ToSet(listening'[b]) <=> "result" \in ToSet(listening[b]))
    <3> TAKE b \in Arrays
    <3>1. CASE b = a
      <4>1. listening'[b] = k /\ listening[b] = ls
        BY <2>3, <2>7, <3>1
      <4> QED
        BY <2>6, <4>1, Zenon
    <3>2. CASE b # a
      <4>1. listening'[b] = listening[b]
        BY <2>7, <3>2
      <4>2. listening[b] \in Seq({"program", "result"}) /\ IsInjective(listening[b])
        BY <1>1 DEF ArraysTypes
      <4> QED
        BY <4>1, <4>2, Zenon
    <3> QED
      BY <3>1, <3>2
  <2>9. listening' \in [Arrays -> Seq({"program", "result"})]
    BY <2>6, <2>7
  <2>10. ArraysTypes'
    BY <1>1, <2>2, <2>8, <2>9 DEF ArraysTypes
  <2>11. \A b \in Arrays : Follows(b)' <=> Follows(b)
    BY <2>8 DEF Follows
  <2>12. FollowsTheValue'
    BY <1>1, <2>2, <2>11 DEF FollowsTheValue
  <2>13. FollowsInStep' /\ ShowsTheLatest'
    BY <1>1, <2>2 DEF FollowsInStep, ShowsTheLatest
  <2> QED
    BY <2>10, <2>12, <2>13, Zenon DEF ArraysInv
<1>4. CASE UNCHANGED arraysVars
  <2>1. ArraysTypes'
    BY <1>1, <1>4 DEF ArraysTypes, arraysVars
  <2>2. FollowsInStep' /\ FollowsTheValue' /\ ShowsTheLatest'
    BY <1>1, <1>4 DEF FollowsInStep, FollowsTheValue, Follows, ShowsTheLatest, arraysVars
  <2> QED
    BY <2>1, <2>2, Zenon DEF ArraysInv
<1> QED
  BY <1>2, <1>3, <1>4

-----------------------------------------------------------------------------
LEMMA GivenItems == Given \subseteq Seq(Slots)
<1>1. \A x, y \in Items : <<x>> \in Seq(Slots) /\ <<x, y>> \in Seq(Slots)
  BY DEF Slots
<1>2. <<>> \in Seq(Slots)
  BY EmptySeq
<1>3. ASSUME NEW s \in Given PROVE s \in Seq(Slots)
  <2>1. CASE s = <<>>
    BY <1>2, <2>1
  <2>2. CASE \E x \in Items : s = <<x>>
    BY <1>1, <2>2
  <2>3. CASE \E x, y \in Items : s = <<x, y>>
    BY <1>1, <2>3
  <2> QED
    BY <2>1, <2>2, <2>3 DEF Given
<1> QED
  BY <1>3

LEMMA ArraysInitially ==
  ASSUME ArraysInit
  PROVE  ArraysInv
<1>1. array \in [Arrays \union Plains -> Seq(Slots)]
  <2>1. array \in [Arrays \union Plains -> Given \ {<<x>> : x \in Items}]
    BY Zenon DEF ArraysInit
  <2> QED
    BY <2>1, GivenItems
<1>2. /\ result = <<>> /\ listening = [a \in Arrays |-> <<>>] /\ value = Nothing /\ promise = Nothing /\ waiting = {}
      /\ emitting = <<>> /\ methods = 0 /\ latest = Nothing /\ overtaken = FALSE /\ strayed = FALSE
  BY Zenon DEF ArraysInit
<1>3. \A a \in Arrays : listening[a] = <<>>
  BY <1>2
<1>4. listening \in [Arrays -> Seq({"program", "result"})] /\ \A a \in Arrays : IsInjective(listening[a])
  BY <1>2, <1>3, EmptySeq, ElementsOfNothing
<1>5. emitting \in Seq(EmissionsUnderWay) /\ Len(emitting) <= MaxNested
  BY <1>2, EmptySeq, ArraysAssumption
<1>6. ArraysTypes
  BY <1>1, <1>2, <1>4, <1>5, EmptySeq DEF ArraysTypes
<1>7. FollowsInStep /\ ShowsTheLatest
  BY <1>2 DEF FollowsInStep, ShowsTheLatest
<1>8. FollowsTheValue
  BY <1>2, <1>3, ElementsOfNothing DEF FollowsTheValue, Follows
<1> QED
  BY <1>6, <1>7, <1>8 DEF ArraysInv

LEMMA ArraysNextStep ==
  ASSUME ArraysInv, [ArraysNext]_arraysVars
  PROVE  ArraysInv'
<1>1. MaxLength \in Nat
  BY ArraysAssumption
<1>2. ASSUME NEW a \in Arrays, NEW x \in Items, Push(a, <<x>>) \/ Unshift(a, <<x>>)
      PROVE  ArraysInv'
  <2>1. PICK items \in Seq(Slots) : items = <<x>>
    <3>1. <<x>> \in Seq(Slots)
      BY DEF Slots
    <3> QED
      BY <3>1, Zenon
  <2>2. PICK n \in Nat, places \in Seq(Place) : n = 0 /\ places = <<>>
    BY EmptySeq
  <2> QED
    BY <1>2, <2>1, <2>2, SimpleSteps, Zenon
<1>3. ASSUME NEW a \in Arrays, NEW n \in 1..MaxLength + 1, Pop(a, n) \/ Shift(a, n) \/ SetLength(a, n - 1)
      PROVE  ArraysInv'
  <2>1. PICK m \in Nat, k \in Nat : m = n /\ k = n - 1
    <3>1. n \in Nat /\ n - 1 \in Nat
      BY <1>1
    <3> QED
      BY <3>1
  <2>2. PICK items \in Seq(Slots), places \in Seq(Place) : items = <<>> /\ places = <<>>
    BY EmptySeq
  <2> QED
    BY <1>3, <2>1, <2>2, SimpleSteps, SetLengthStep, Zenon
<1>4. ASSUME NEW a \in Arrays, NEW i \in 0..1, NEW j \in 0..1, NEW x \in Items,
             ReplaceN(a, <<[index |-> i, item |-> x], [index |-> j, item |-> x]>>)
      PROVE  ArraysInv'
  <2>1. PICK p \in Place, q \in Place : p = [index |-> i, item |-> x] /\ q = [index |-> j, item |-> x]
    <3>1. i \in Int /\ j \in Int
      OBVIOUS
    <3>2. [index |-> i, item |-> x] \in Place /\ [index |-> j, item |-> x] \in Place
      BY <3>1 DEF Place, Slots
    <3> QED
      BY <3>2, Zenon
  <2>2. PICK places \in Seq(Place) : places = <<p, q>>
    <3>1. <<p, q>> \in Seq(Place)
      OBVIOUS
    <3> QED
      BY <3>1, Zenon
  <2>3. PICK n \in Nat, items \in Seq(Slots) : n = 0 /\ items = <<>>
    BY EmptySeq
  <2> QED
    BY <1>4, <2>1, <2>2, <2>3, SimpleSteps, Zenon
<1>5. ASSUME NEW a \in Arrays, Sort(a) PROVE ArraysInv'
  <2>1. PICK n \in Nat, items \in Seq(Slots), places \in Seq(Place) : n = 0 /\ items = <<>> /\ places = <<>>
    BY EmptySeq
  <2> QED
    BY <1>5, <2>1, SimpleSteps, Zenon
<1>6. ASSUME NEW a \in Arrays, NEW start \in -1..1, NEW n \in 0..MaxLength, NEW items \in Given, Splice(a, start, n, items)
      PROVE  ArraysInv'
  <2>1. start \in Int /\ n \in Nat /\ items \in Seq(Slots)
    BY <1>1, GivenItems
  <2> QED
    BY <1>6, <2>1, SpliceStep, Zenon
<1>7. ASSUME NEW v \in Arrays \union Plains, Format(v) \/ \E p \in Promises : PromiseAnswers(p, v)
      PROVE  ArraysInv'
  BY <1>7, FormatStep, PromiseAnswersStep, Zenon
<1>8. CASE ArraysNext
  BY <1>2, <1>3, <1>4, <1>5, <1>6, <1>7, <1>8, CallProgramStep, ProgramReturnsStep, ProgramThrowsStep,
     CallResultStep, ResultThrowsStep, EmissionEndsStep,
     FormatPromiseStep, OtherArraysSteps, Zenon DEF ArraysNext
<1>9. CASE UNCHANGED arraysVars
  BY <1>9, OtherArraysSteps, Zenon
<1> QED
  BY <1>8, <1>9, Zenon

\* The result of the formatter follows the array it shows: between two turns
\* it has its items, whatever methods were called and in what order the
\* listeners ran; it listens to that array alone, and shows what format() was
\* given last, unless a promise overtook it (array.ts, AsyncArrayFormatter).
THEOREM ArraysFollowTheirValue == ArraysSpec => []ArraysFollow
<1>1. ArraysInit => ArraysInv
  BY ArraysInitially, Zenon
<1>2. ArraysInv /\ [ArraysNext]_arraysVars => ArraysInv'
  BY ArraysNextStep, Zenon
<1>3. ArraysInv => ArraysFollow
  <2> SUFFICES ASSUME ArraysInv PROVE ArraysFollow
    OBVIOUS
  <2>1. ArraysTypes /\ FollowsInStep /\ FollowsTheValue /\ ShowsTheLatest
    BY Zenon DEF ArraysInv
  <2>2. ArraysTypeOK
    BY <2>1 DEF ArraysTypes, ArraysTypeOK
  <2>3. ShowsTheValue
    <3> SUFFICES ASSUME emitting = <<>>, value # Nothing, ~strayed PROVE result = array[value]
      BY DEF ShowsTheValue
    <3>1. InStep(emitting, array[value], result, value)
      BY <2>1, Zenon DEF FollowsInStep
    <3>2. Settled(emitting, value)
      BY DEF Settled
    <3> QED
      BY <3>1, <3>2, SettledInStep, Zenon
  <2> QED
    BY <2>1, <2>2, <2>3 DEF ArraysFollow
<1> QED
  BY <1>1, <1>2, <1>3, PTL DEF ArraysSpec
=============================================================================
