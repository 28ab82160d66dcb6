------------------------------- MODULE Replay --------------------------------
(***************************************************************************)
(* ReplayEvent (packages/core/src/events/shared.ts): an event that keeps   *)
(* its latest emissions and gives them to the listeners that come late.    *)
(* Emissions are numbered.  Everything is synchronous, and a listener that *)
(* runs may emit and add listeners: the stack holds the calls in progress, *)
(* the innermost last.  An action is one call made by user code (a         *)
(* listener that runs, or the main program), or one step of the call on    *)
(* top of the stack.                                                       *)
(***************************************************************************)
EXTENDS Integers, Sequences, SequencesExt, FiniteSetsExt

CONSTANTS
  Listeners,     \* functions, each added once
  BufferLength,  \* emissions the event keeps
  MaxEmissions,  \* bound: emissions
  MaxNesting     \* bound: calls in progress

ASSUME ReplayAssumption == {BufferLength, MaxEmissions, MaxNesting} \subseteq Nat \ {0}

VARIABLES
  buffer,      \* the emissions kept
  registered,  \* this.listeners
  calls,       \* the stack of calls in progress
  heard,       \* the emissions each listener was called with
  onces,       \* listeners added with the once option
  emitted,     \* history: how many emissions there were
  first,       \* history: the first emission that each listener has to hear, 0 before it is added
  disturbed    \* history: listeners that an emission or an exception came across

replayVars == <<buffer, registered, calls, heard, onces, emitted, first, disturbed>>

\* emit() with the listeners it has still to call, the forEach() of a replay
\* at an index, and a listener that runs.
Emission(n, ls) == [kind |-> "emit", number |-> n, todo |-> ls]
Replaying(l, i, n) == [kind |-> "replay", who |-> l, index |-> i, length |-> n]
Running == [kind |-> "listener"]

InUserCode == calls # <<>> => Last(calls).kind = "listener"
OnTop(kind) == calls # <<>> /\ Last(calls).kind = kind
Frames(kind) == {f \in ToSet(calls) : f.kind = kind}
Pending(l) == {f.number : f \in {g \in Frames("emit") : l \in ToSet(g.todo)}}
Hears(l, n) == heard' = [heard EXCEPT ![l] = Append(@, n)]

ReplayInit ==
  /\ buffer = <<>>
  /\ registered = <<>>
  /\ calls = <<>>
  /\ heard = [l \in Listeners |-> <<>>]
  /\ onces = {}
  /\ emitted = 0
  /\ first = [l \in Listeners |-> 0]
  /\ disturbed = {}

------------------------------------------------------------------------------

\* The buffer once an emission was pushed to it.
Keep(s) == IF Len(s) > BufferLength THEN Tail(s) ELSE s

\* emit(): keeps the emission, then goes through a copy of the listeners.
EmitReplay ==
  /\ InUserCode
  /\ emitted < MaxEmissions /\ Len(calls) < MaxNesting
  /\ emitted' = emitted + 1
  /\ buffer' = Keep(Append(buffer, emitted'))
  /\ calls' = Append(calls, Emission(emitted', registered))
  /\ disturbed' = disturbed \union {f.who : f \in Frames("replay")}
                            \union {l \in onces : Pending(l) # {}}
  /\ UNCHANGED <<registered, heard, onces, first>>

\* The next listener of the emission: the wrapper of a once listener first
\* removes itself.
CallListener ==
  /\ OnTop("emit") /\ Last(calls).todo # <<>>
  /\ LET l == Head(Last(calls).todo) IN
       /\ Hears(l, Last(calls).number)
       /\ registered' = IF l \in onces THEN RemoveFirst(registered, l) ELSE registered
       /\ calls' = Front(calls) \o <<Emission(Last(calls).number, Tail(Last(calls).todo)), Running>>
  /\ UNCHANGED <<buffer, onces, emitted, first, disturbed>>

EmitDone ==
  /\ OnTop("emit") /\ Last(calls).todo = <<>>
  /\ calls' = Front(calls)
  /\ UNCHANGED <<buffer, registered, heard, onces, emitted, first, disturbed>>

\* Mutant of AddToReplay: a listener is registered without the replay.
AddUnreplayed(l, once) ==
  /\ InUserCode /\ Len(calls) < MaxNesting
  /\ first[l] = 0
  /\ onces' = IF once THEN onces \union {l} ELSE onces
  /\ first' = [first EXCEPT ![l] = Max({1, emitted - BufferLength + 1})]
  /\ calls' = Append(calls, Replaying(l, 1, 0))
  /\ UNCHANGED <<buffer, registered, heard, emitted, disturbed>>

\* addListener(): a once listener is given the oldest emission kept, and is not
\* registered; any other call goes through the buffer.
AddToReplay(l, once) ==
  /\ InUserCode /\ Len(calls) < MaxNesting
  /\ first[l] = 0
  /\ onces' = IF once THEN onces \union {l} ELSE onces
  /\ first' = [first EXCEPT ![l] = Max({1, emitted - BufferLength + 1})]
  /\ IF once /\ buffer # <<>>
     THEN Hears(l, Head(buffer)) /\ calls' = Append(calls, Running)
     ELSE UNCHANGED heard /\ calls' = Append(calls, Replaying(l, 1, Len(buffer)))
  /\ UNCHANGED <<buffer, registered, emitted, disturbed>>

\* forEach() goes to the length the buffer had when it began, over what the
\* buffer holds now.
ReplayOne ==
  /\ OnTop("replay")
  /\ LET f == Last(calls) IN
       /\ f.index <= f.length
       /\ Hears(f.who, buffer[f.index])
       /\ calls' = Front(calls) \o <<Replaying(f.who, f.index + 1, f.length), Running>>
  /\ UNCHANGED <<buffer, registered, onces, emitted, first, disturbed>>

\* The replay is over: the listener is registered.
RegisterReplayed ==
  /\ OnTop("replay") /\ Last(calls).index > Last(calls).length
  /\ registered' = Append(registered, Last(calls).who)
  /\ calls' = Front(calls)
  /\ UNCHANGED <<buffer, heard, onces, emitted, first, disturbed>>

ReplayListenerReturns ==
  /\ OnTop("listener")
  /\ calls' = Front(calls)
  /\ UNCHANGED <<buffer, registered, heard, onces, emitted, first, disturbed>>

\* A listener throws, and nothing catches it before the main program: the
\* emissions in progress do not reach their other listeners.
ReplayListenerThrows ==
  /\ OnTop("listener")
  /\ calls' = <<>>
  /\ disturbed' = disturbed \union {l \in Listeners : Pending(l) # {}}
  /\ UNCHANGED <<buffer, registered, heard, onces, emitted, first>>

\* The subscription of a listener is called.
StopListening(l) ==
  /\ InUserCode
  /\ l \in ToSet(registered)
  /\ registered' = RemoveFirst(registered, l)
  /\ UNCHANGED <<buffer, calls, heard, onces, emitted, first, disturbed>>

ReplayNext ==
  \/ EmitReplay \/ CallListener \/ EmitDone
  \/ \E l \in Listeners : StopListening(l) \/ \E once \in BOOLEAN : AddToReplay(l, once)
  \/ ReplayOne \/ RegisterReplayed
  \/ ReplayListenerReturns \/ ReplayListenerThrows

ReplaySpec == ReplayInit /\ [][ReplayNext]_replayVars

------------------------------------------------------------------------------
\* The fields are well typed, and the buffer holds the latest emissions.
ReplayTypeOK ==
  /\ emitted \in 0..MaxEmissions
  /\ buffer = SubSeq([n \in 1..emitted |-> n], Max({1, emitted - BufferLength + 1}), emitted)
  /\ registered \in Seq(Listeners) /\ IsInjective(registered)
  /\ \A f \in ToSet(calls) : f.kind \in {"emit", "replay", "listener"}
  /\ heard \in [Listeners -> Seq(1..MaxEmissions)]
  /\ onces \subseteq Listeners /\ disturbed \subseteq Listeners
  /\ first \in [Listeners -> 0..MaxEmissions]

\* A registered listener was given each emission exactly once, from the oldest
\* that was kept when it was added to the latest, or it is about to be: even a
\* listener that was added while an emission was under way hears it once, from
\* the buffer and not from the copy of the listeners.  The exceptions, which the
\* code has: an emission made during the replay of the listener, which forEach()
\* does not see (line 390), and an exception of another listener.
HearsEachOnce ==
  \A l \in ToSet(registered) \ (onces \union disturbed) :
    /\ ToSet(heard[l]) \union Pending(l) = first[l]..emitted
    /\ ToSet(heard[l]) \intersect Pending(l) = {}
    /\ IsInjective(heard[l])

\* A once listener is called once, be it with what was kept or with what comes,
\* and no longer listens once it was called; a nested emission is the exception,
\* as for any Event.
OnceHearsOne ==
  \A l \in onces \ disturbed :
    /\ Len(heard[l]) <= 1
    /\ heard[l] # <<>> => l \notin ToSet(registered)

\* What a ReplayEvent promises: each emission once to those that stay, one to
\* those that asked for one.
ReplayedOnce == ReplayTypeOK /\ HearsEachOnce /\ OnceHearsOne
==============================================================================
