----------------------------- MODULE AsyncEvents -----------------------------
(***************************************************************************)
(* AsyncEvent (packages/core/src/events/async.ts): emit() awaits its       *)
(* listeners one after the other, over the live array of listeners         *)
(* (packages/core/src/eachAsync.ts, array), so listeners come and go, and  *)
(* other emissions start, while it waits.                                  *)
(***************************************************************************)
EXTENDS Integers, Sequences, SequencesExt, FiniteSetsExt

CONSTANTS
  Waiters,    \* asynchronous listeners, each added once
  Emissions   \* calls of emit()

ASSUME AsyncAssumption == IsFiniteSet(Waiters) /\ "nobody" \notin Waiters

VARIABLES
  waiters,    \* this.listeners
  removable,  \* listeners added with the once option
  emission,   \* where each emission stands
  added,      \* history: the listeners that were added
  settled,    \* history: once listeners whose promise settled
  called,     \* history: the listeners each emission called
  expected,   \* history: the listeners registered since each emission began
  departures  \* history: how many left, while it ran, from the part it had gone through

asyncVars == <<waiters, removable, emission, added, settled, called, expected, departures>>

Position == [at : {"not started", "between", "awaiting", "resolved", "rejected"},
             index : 1..(Cardinality(Waiters) + 1), who : Waiters \union {"nobody"}]
At(p, i, l) == [at |-> p, index |-> i, who |-> l]
Underway(e) == emission[e].at \in {"between", "awaiting"}

\* How many positions of the array the emission has gone through.
Passed(e) == IF emission[e].at = "awaiting" THEN emission[e].index ELSE emission[e].index - 1

AsyncInit ==
  /\ waiters = <<>>
  /\ removable = {}
  /\ emission = [e \in Emissions |-> At("not started", 1, "nobody")]
  /\ added = {}
  /\ settled = {}
  /\ called = [e \in Emissions |-> <<>>]
  /\ expected = [e \in Emissions |-> {}]
  /\ departures = [e \in Emissions |-> 0]

------------------------------------------------------------------------------

AddWaiter(l, once) ==
  /\ l \notin added
  /\ added' = added \union {l}
  /\ waiters' = Append(waiters, l)
  /\ removable' = IF once THEN removable \union {l} ELSE removable
  /\ UNCHANGED <<emission, settled, called, expected, departures>>

\* The listener leaves the array; what follows it moves one place to the left.
Leave(l) ==
  /\ waiters' = RemoveFirst(waiters, l)
  /\ expected' = [e \in Emissions |-> expected[e] \ {l}]
  /\ departures' = [e \in Emissions |->
       IF Underway(e) /\ \E p \in 1..Passed(e) : p <= Len(waiters) /\ waiters[p] = l
       THEN departures[e] + 1 ELSE departures[e]]

Unregister(l) ==
  /\ l \in ToSet(waiters)
  /\ Leave(l)
  /\ UNCHANGED <<removable, emission, added, settled, called>>

\* Mutant of EmitAsync: the loop begins at its second listener.
EmitAsyncSecond(e) ==
  /\ emission[e].at = "not started"
  /\ emission' = [emission EXCEPT ![e] = At("between", 2, "nobody")]
  /\ expected' = [expected EXCEPT ![e] = ToSet(waiters)]
  /\ UNCHANGED <<waiters, removable, added, settled, called, departures>>

EmitAsync(e) ==
  /\ emission[e].at = "not started"
  /\ emission' = [emission EXCEPT ![e] = At("between", 1, "nobody")]
  /\ expected' = [expected EXCEPT ![e] = ToSet(waiters)]
  /\ UNCHANGED <<waiters, removable, added, settled, called, departures>>

\* The listener at the index, in the array as it is now, is called and awaited.
CallNext(e) ==
  /\ emission[e].at = "between" /\ emission[e].index <= Len(waiters)
  /\ LET l == waiters[emission[e].index] IN
       /\ emission' = [emission EXCEPT ![e] = At("awaiting", @.index, l)]
       /\ called' = [called EXCEPT ![e] = Append(@, l)]
  /\ UNCHANGED <<waiters, removable, added, settled, expected, departures>>

\* The promise of the listener settles: a once listener removes itself, be it
\* fulfilled or not, and a rejection ends the emission.
WaiterSettles(e, ok) ==
  /\ emission[e].at = "awaiting"
  /\ LET l == emission[e].who IN
       /\ settled' = settled \union ({l} \intersect removable)
       /\ IF l \in removable /\ l \in ToSet(waiters) THEN Leave(l)
          ELSE UNCHANGED <<waiters, expected, departures>>
  /\ emission' = [emission EXCEPT ![e] =
       IF ok THEN At("between", @.index + 1, "nobody") ELSE At("rejected", 1, "nobody")]
  /\ UNCHANGED <<removable, added, called>>

EmissionResolves(e) ==
  /\ emission[e].at = "between" /\ emission[e].index > Len(waiters)
  /\ emission' = [emission EXCEPT ![e] = At("resolved", 1, "nobody")]
  /\ UNCHANGED <<waiters, removable, added, settled, called, expected, departures>>

AsyncNext ==
  \/ \E l \in Waiters : Unregister(l) \/ \E once \in BOOLEAN : AddWaiter(l, once)
  \/ \E e \in Emissions :
       \/ EmitAsync(e) \/ CallNext(e) \/ EmissionResolves(e)
       \/ \E ok \in BOOLEAN : WaiterSettles(e, ok)

AsyncSpec == AsyncInit /\ [][AsyncNext]_asyncVars

------------------------------------------------------------------------------
\* The fields are well typed, and no listener is registered twice.
AsyncTypeOK ==
  /\ waiters \in Seq(Waiters) /\ IsInjective(waiters)
  /\ settled \subseteq removable /\ removable \subseteq added /\ added \subseteq Waiters
  /\ emission \in [Emissions -> Position]
  /\ called \in [Emissions -> Seq(Waiters)]
  /\ expected \in [Emissions -> SUBSET Waiters]
  /\ departures \in [Emissions -> Nat]

\* An emission that resolves has awaited every listener that stayed registered,
\* but for one listener at most for each that left from the part it had gone
\* through: the array is shortened under the loop, and the next listener takes
\* the place of the one that left (eachAsync.ts:48).  A once listener leaves
\* that way during its own emission, and the one behind it is missed.
MissesOnlyAfterDepartures ==
  \A e \in Emissions :
    emission[e].at = "resolved" =>
      Cardinality(expected[e] \ ToSet(called[e])) <= departures[e]

\* No emission calls a listener twice, whatever comes and goes meanwhile.
NoListenerTwice == \A e \in Emissions : IsInjective(called[e])

\* A once listener whose promise settled, be it by a rejection, is no longer
\* registered, so no later emission calls it; until then, every emission that
\* gets to it calls it (async.ts:41).
SettledOnceIsGone == \A l \in settled : l \notin ToSet(waiters)

\* What an emission that awaits its listeners promises: all those that stay are
\* called, each once, and none that has left.
EmissionsReachAll == AsyncTypeOK /\ MissesOnlyAfterDepartures /\ NoListenerTwice /\ SettledOnceIsGone
==============================================================================
