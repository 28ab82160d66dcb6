------------------------------- MODULE Bindings -------------------------------
(***************************************************************************)
(* Binding and ObservableObject (packages/core/src/observables/object.ts): *)
(* bindings piped from an EmptyBinding through a path of two members, as   *)
(* target.pipe('a.b').  The target holds an object of the first kind or    *)
(* nothing; its member a holds an object of the second kind or null, the   *)
(* member b of which is an item.                                           *)
(*                                                                         *)
(* Everything is synchronous: agenda lists what the calls in progress have *)
(* still to do, innermost first.  The handler of a binding is code of the  *)
(* program, which may set anything while it runs and catches no exception. *)
(* Paths through arrays and other bindings, formatters and the other forms *)
(* of expressions are left out.                                            *)
(***************************************************************************)
EXTENDS Integers, Sequences, SequencesExt, FiniteSetsExt, Filter

CONSTANTS
  Piped,        \* the bindings, in the order target.pipe() made them
  Firsts,       \* objects with a member a
  Seconds,      \* objects with a member b
  Values,       \* what b may be
  Undefined, Null,
  MaxPipes,     \* listeners an Event accepts before one more makes it throw
  MaxSets,      \* bound: calls of the program
  MaxHandlers   \* bound: handlers in progress

Bound == ToSet(Piped)
Objects == Firsts \union Seconds

ASSUME BindingsAssumption ==
  /\ Piped \in Seq(Bound) /\ IsInjective(Piped)
  /\ {MaxPipes, MaxSets, MaxHandlers} \subseteq Nat
  /\ Firsts \intersect Seconds = {} /\ {Undefined, Null} \intersect (Objects \union Values) = {}

VARIABLES
  target,     \* the value of the EmptyBinding
  member,     \* the member of each object
  watchers,   \* the bindings each object tells of its member, in order
  last,       \* the object each level of a path met last (memberWatcher's result)
  watching,   \* the levels that have watched an object (memberWatcher's sub)
  pipes,      \* how often the second level piped its change to the watcher
  shown,      \* the value a binding has
  told,       \* the value its handler was told last
  agenda,     \* what is still to be done
  disposed,   \* bindings that were disposed
  sets,       \* how many calls the program has made
  unwatched,  \* history: bindings that met an object without watching it
  cut         \* history: bindings an exception kept from looking

bindingsVars ==
  <<target, member, watchers, last, watching, pipes, shown, told, agenda, disposed, sets, unwatched, cut>>

Levels == {1, 2}

\* The object in whose member each level of the path is, from a value on.
Source(from) ==
  [l \in Levels |-> IF from \notin Firsts THEN Null ELSE IF l = 1 THEN from ELSE member[from]]
PathFrom(from) == LET o == Source(from)[2] IN IF o \in Seconds THEN member[o] ELSE Null

\* The levels of b's path that meet another object than they did last.
Moved(b, from) == {l \in Levels : Source(from)[l] \in Objects /\ Source(from)[l] # last[b][l]}

Meets(b, from) ==
  last' = [last EXCEPT ![b] = [l \in Levels |-> IF l \in Moved(b, from) THEN Source(from)[l] ELSE @[l]]]

\* Mutant of Watches: a level that watches an object watches no other.
WatchesOnce(b, from) ==
  /\ Meets(b, from)
  /\ watchers' = [o \in Objects |->
       IF \E l \in Moved(b, from) \ watching[b] : Source(from)[l] = o THEN Append(watchers[o], b) ELSE watchers[o]]
  /\ watching' = [watching EXCEPT ![b] = @ \union Moved(b, from)]
  /\ pipes' = [pipes EXCEPT ![b] = IF 2 \in watching[b] THEN @ ELSE @ + 1]
  /\ UNCHANGED unwatched

\* Evaluated with the watcher, each level watches the object it meets unless it
\* is the one it met last; a level that never met one pipes to the watcher.
Watches(b, from) ==
  /\ Meets(b, from)
  /\ watchers' = [o \in Objects |->
       IF \E l \in Moved(b, from) : Source(from)[l] = o THEN Append(watchers[o], b) ELSE watchers[o]]
  /\ watching' = [watching EXCEPT ![b] = @ \union Moved(b, from)]
  /\ pipes' = [pipes EXCEPT ![b] = IF 2 \in watching[b] THEN @ ELSE @ + 1]
  /\ UNCHANGED unwatched

\* Evaluated without it, a level forgets the object it watches for the one it
\* meets, which nothing watches then.
MeetsUnwatched(b, from) ==
  /\ Meets(b, from)
  /\ unwatched' = IF Moved(b, from) = {} THEN unwatched ELSE unwatched \union {b}
  /\ UNCHANGED <<watchers, watching, pipes>>

PipesTooOften(b) == 2 \notin watching[b] /\ pipes[b] > MaxPipes

-----------------------------------------------------------------------------
\* What is to be done: b looks at its path again, with the watcher or without;
\* it attaches it to a value target had; its handler is told a value, or runs.
Look(b, watched) == [kind |-> "look", of |-> b, with |-> watched]
Attach(b, v) == [kind |-> "attach", of |-> b, with |-> v]
Tell(b, v) == [kind |-> "tell", of |-> b, with |-> v]
Handling(b) == [kind |-> "handling", of |-> b, with |-> Null]

Doing(kind) == agenda # <<>> /\ Head(agenda).kind = kind
AtRest == agenda = <<>>
Handlers == {i \in DOMAIN agenda : agenda[i].kind = "handling"}

\* An exception ends every call in progress.
EndsAll ==
  /\ cut' = cut \union {agenda[i].of : i \in {j \in DOMAIN agenda : agenda[j].kind = "look"}}
  /\ agenda' = <<>>

BindingsInit ==
  /\ target \in Firsts \union {Undefined}
  /\ member \in {f \in [Objects -> Seconds \union {Null} \union Values] :
       /\ \A o \in Firsts : f[o] \notin Values
       /\ \A o \in Seconds : f[o] \in Values}
  /\ last = [b \in Bound |-> [l \in Levels |-> Source(target)[l]]]
  /\ watchers = [o \in Objects |-> IF \E l \in Levels : Source(target)[l] = o THEN Piped ELSE <<>>]
  /\ watching = [b \in Bound |-> {l \in Levels : Source(target)[l] # Null}]
  /\ pipes = [b \in Bound |-> 1]
  /\ shown = [b \in Bound |-> PathFrom(target)]
  /\ told = shown
  /\ agenda = <<>> /\ disposed = {} /\ sets = 0 /\ unwatched = {} /\ cut = {}

-----------------------------------------------------------------------------
\* The calls of the program, or of a handler that runs.
ProgramCalls ==
  /\ AtRest \/ (Doing("handling") /\ Cardinality(Handlers) <= MaxHandlers)
  /\ sets < MaxSets /\ sets' = sets + 1
  /\ UNCHANGED <<shown, told, cut>>

\* ObservableObject.setValue(): a tells those who watch o.
Put(o, v) ==
  /\ member' = [member EXCEPT ![o] = v]
  /\ agenda' = [i \in DOMAIN watchers[o] |-> Look(watchers[o][i], TRUE)] \o agenda

Fits(o, v) == v \in IF o \in Firsts THEN Seconds \union {Null} ELSE Values

SetMember(o, v) ==
  /\ ProgramCalls /\ Fits(o, v) /\ Put(o, v)
  /\ UNCHANGED <<target, watchers, last, watching, pipes, disposed, unwatched>>

\* EmptyBinding.setValue(): each binding looks again, and then attaches itself
\* to the value when it is another.
SetTarget(v) ==
  LET listening == Filtered(Piped, Bound \ disposed)
      n == Len(listening)
      Follow(b) == Look(b, v \in Firsts)
  IN  /\ ProgramCalls /\ target' = v
      /\ agenda' = (IF v = target THEN [i \in 1..n |-> Follow(listening[i])]
                    ELSE [i \in 1..2 * n |-> IF i % 2 = 1 THEN Follow(listening[(i + 1) \div 2])
                                             ELSE Attach(listening[i \div 2], v)]) \o agenda
      /\ UNCHANGED <<member, watchers, last, watching, pipes, disposed, unwatched>>

\* Binding.setValue() evaluates all of the path but its last level, without the
\* watcher.
SetThrough(b, v) ==
  LET first == Source(target)[1]
      o == Source(target)[2]
  IN  /\ ProgramCalls /\ v \in Values
      /\ IF first \in Objects /\ first # last[b][1]
         THEN last' = [last EXCEPT ![b][1] = first] /\ unwatched' = unwatched \union {b}
         ELSE UNCHANGED <<last, unwatched>>
      /\ IF o \in Seconds THEN Put(o, v) ELSE UNCHANGED <<member, agenda>>
      /\ UNCHANGED <<target, watchers, watching, pipes, disposed>>

\* Binding[Symbol.dispose]().
DisposeBinding(b) ==
  /\ ProgramCalls /\ disposed' = disposed \union {b}
  /\ watchers' = [o \in Objects |-> Filtered(watchers[o], Bound \ {b})]
  /\ UNCHANGED <<target, member, last, watching, pipes, agenda, unwatched>>

-----------------------------------------------------------------------------
Progress == UNCHANGED <<target, member, disposed, sets>>

\* The listener the constructor gives to the watcher's change: it tells a value
\* that is another than it had.
LookAgain ==
  LET b == Head(agenda).of
      v == PathFrom(target)
  IN  /\ Doing("look") /\ b \notin disposed
      /\ ~(Head(agenda).with /\ PipesTooOften(b))
      /\ IF Head(agenda).with THEN Watches(b, target) ELSE MeetsUnwatched(b, target)
      /\ shown' = [shown EXCEPT ![b] = v]
      /\ agenda' = (IF v = shown[b] THEN <<>> ELSE <<Tell(b, v)>>) \o Tail(agenda)
      /\ cut' = cut \ {b}
      /\ Progress /\ UNCHANGED told

LookThrows ==
  LET b == Head(agenda).of
  IN  /\ Doing("look") /\ b \notin disposed /\ Head(agenda).with /\ PipesTooOften(b)
      /\ EndsAll
      /\ Progress /\ UNCHANGED <<watchers, last, watching, pipes, shown, told, unwatched>>

\* The watcher of a disposed binding has no listener any more.
LookDisposed ==
  /\ Doing("look") /\ Head(agenda).of \in disposed
  /\ agenda' = Tail(agenda)
  /\ Progress /\ UNCHANGED <<watchers, last, watching, pipes, shown, told, unwatched, cut>>

\* The listener pipe() gives to the target: attachWatcher(ev.value), which makes
\* an ObservableObject of null and throws.
AttachAgain ==
  LET b == Head(agenda).of
      v == Head(agenda).with
  IN  /\ Doing("attach")
      /\ IF v = Null \/ PipesTooOften(b)
         THEN EndsAll /\ UNCHANGED <<watchers, last, watching, pipes, unwatched>>
         ELSE Watches(b, v) /\ agenda' = Tail(agenda) /\ UNCHANGED cut
      /\ Progress /\ UNCHANGED <<shown, told>>

HandlerIsTold ==
  LET b == Head(agenda).of
  IN  /\ Doing("tell")
      /\ told' = [told EXCEPT ![b] = Head(agenda).with]
      /\ agenda' = <<Handling(b)>> \o Tail(agenda)
      /\ Progress /\ UNCHANGED <<watchers, last, watching, pipes, shown, unwatched, cut>>

HandlerIsDone ==
  /\ Doing("handling")
  /\ agenda' = Tail(agenda)
  /\ Progress /\ UNCHANGED <<watchers, last, watching, pipes, shown, told, unwatched, cut>>

BindingsNext ==
  \/ \E o \in Objects : \E v \in Seconds \union {Null} \union Values : SetMember(o, v)
  \/ \E v \in Firsts \union {Undefined, Null} : SetTarget(v)
  \/ \E b \in Bound : DisposeBinding(b) \/ \E v \in Values : SetThrough(b, v)
  \/ LookAgain \/ LookThrows \/ LookDisposed \/ AttachAgain \/ HandlerIsTold \/ HandlerIsDone

BindingsSpec == BindingsInit /\ [][BindingsNext]_bindingsVars

-----------------------------------------------------------------------------
BindingsTypeOK ==
  /\ target \in Firsts \union {Undefined, Null}
  /\ \A o \in Objects : Fits(o, member[o]) /\ watchers[o] \in Seq(Bound)
  /\ \A b \in Bound : pipes[b] \in 1..(MaxPipes + 1) /\ watching[b] \subseteq Levels
  /\ disposed \subseteq Bound /\ unwatched \subseteq Bound /\ cut \subseteq Bound
  /\ sets \in 0..MaxSets

\* Whatever is set, in a handler too, a binding has the value its path has then;
\* unless its path was evaluated without its watcher while it moved, by setting
\* the binding, or an exception ended the emission before the binding's turn.
FollowsItsPath ==
  AtRest => \A b \in Bound \ (disposed \union unwatched \union cut) : shown[b] = PathFrom(target)

\* A handler was told the value that its binding has, and no other since.
HandlersKnow == AtRest => told = shown

\* ... and each object its path goes through now tells it of its member.
PathIsWatched ==
  AtRest => \A b \in Bound \ (disposed \union unwatched \union cut) : \A l \in Levels :
    Source(target)[l] \in Objects => Contains(watchers[Source(target)[l]], b)

BindingsFollow == BindingsTypeOK /\ FollowsItsPath /\ HandlersKnow /\ PathIsWatched
==============================================================================
