------------------------------ MODULE Teardown -------------------------------
(***************************************************************************)
(* AsyncTeardownManager (packages/core/src/teardown-manager.ts): what has  *)
(* to be ended with its owner.  A resource is a subscription or something  *)
(* disposable; one may be promised and arrive later; ending one may fail,  *)
(* and may give the manager another.  Two kinds of disposal: Symbol.dispose*)
(* ends everything at once, Symbol.asyncDispose awaits the ends.           *)
(***************************************************************************)
EXTENDS Integers, Sequences, SequencesExt, FiniteSetsExt

CONSTANTS
  Resources,  \* resources, each given once
  Disposals   \* calls of asyncDispose

ASSUME TeardownAssumption == IsFiniteSet(Resources)

VARIABLES
  subscriptions, \* this.subscriptions
  promised,      \* resources whose promise the manager waits for
  disposal,      \* where each asyncDispose stands
  awaited,       \* the ends that each asyncDispose awaits
  ends,          \* how often each resource was ended
  given,         \* history: resources given to teardown()
  late,          \* history: resources that came while an asyncDispose was waiting
  behind,        \* history: resources whose disposal stopped at one before them
  repeated       \* history: a disposal began while an asyncDispose was waiting, or after one that failed

teardownVars == <<subscriptions, promised, disposal, awaited, ends, given, late, behind, repeated>>

Disposing == \E d \in Disposals : disposal[d] = "awaiting"

TeardownInit ==
  /\ subscriptions = <<>>
  /\ promised = {}
  /\ disposal = [d \in Disposals |-> "not started"]
  /\ awaited = [d \in Disposals |-> {}]
  /\ ends = [r \in Resources |-> 0]
  /\ given = {} /\ late = {} /\ behind = {}
  /\ repeated = FALSE

------------------------------------------------------------------------------
\* teardown() of something that can be ended.
Give(r) ==
  /\ r \notin given
  /\ given' = given \union {r}
  /\ subscriptions' = Append(subscriptions, r)
  /\ late' = IF Disposing THEN late \union {r} ELSE late
  /\ UNCHANGED <<promised, disposal, awaited, ends, behind, repeated>>

\* teardown() of a promise ...
Promise(r) ==
  /\ r \notin given
  /\ given' = given \union {r}
  /\ promised' = promised \union {r}
  /\ UNCHANGED <<subscriptions, disposal, awaited, ends, late, behind, repeated>>

\* ... which is given when it is fulfilled, after a disposal as well as before.
Arrive(r) ==
  /\ r \in promised
  /\ promised' = promised \ {r}
  /\ subscriptions' = Append(subscriptions, r)
  /\ late' = IF Disposing THEN late \union {r} ELSE late
  /\ UNCHANGED <<disposal, awaited, ends, given, behind, repeated>>

\* How far a disposal may go: to the end, or to one of them that throws.
Reached == IF subscriptions = <<>> THEN {0} ELSE 1..Len(subscriptions)

\* How often each resource was ended, once those of the sequence were ended.
EndAll(s) == [r \in Resources |-> IF r \in ToSet(s) THEN ends[r] + 1 ELSE ends[r]]

\* Mutant of Dispose: the list is emptied after the ends, not before.
DisposeThenClear(n, more) ==
  /\ n \in Reached
  /\ more \in SUBSET (Resources \ given) /\ (n = 0 => more = {})
  /\ ends' = EndAll(SubSeq(subscriptions, 1, n))
  /\ behind' = behind \union ToSet(SubSeq(subscriptions, n + 1, Len(subscriptions)))
  /\ subscriptions' = <<>>
  /\ given' = given \union more
  /\ late' = IF Disposing THEN late \union more ELSE late
  /\ repeated' = (repeated \/ Disposing)
  /\ UNCHANGED <<promised, disposal, awaited>>

\* Symbol.dispose ends the first n of the list, which it emptied: all of it,
\* unless the n-th throws. Ending them may give the manager more.
Dispose(n, more) ==
  /\ n \in Reached
  /\ more \in SUBSET (Resources \ given) /\ (n = 0 => more = {})
  /\ ends' = EndAll(SubSeq(subscriptions, 1, n))
  /\ behind' = behind \union ToSet(SubSeq(subscriptions, n + 1, Len(subscriptions)))
  /\ subscriptions' = SetToSeq(more)
  /\ given' = given \union more
  /\ late' = IF Disposing THEN late \union more ELSE late
  /\ repeated' = (repeated \/ Disposing)
  /\ UNCHANGED <<promised, disposal, awaited>>

\* Symbol.asyncDispose calls the end of each and awaits them all, unless the
\* n-th throws at once: the call then fails, and the list is as it was. What
\* they give to the manager goes to the end of the list.
AsyncDispose(d, n, more, ok) ==
  /\ disposal[d] = "not started"
  /\ n \in Reached /\ (ok => n = Len(subscriptions)) /\ (n = 0 => ok)
  /\ more \in SUBSET (Resources \ given) /\ (n = 0 => more = {})
  /\ ends' = EndAll(SubSeq(subscriptions, 1, n))
  /\ disposal' = [disposal EXCEPT ![d] = IF ok THEN "awaiting" ELSE "failed"]
  /\ awaited' = [awaited EXCEPT ![d] = IF ok THEN ToSet(subscriptions) ELSE {}]
  /\ subscriptions' = subscriptions \o SetToSeq(more)
  /\ given' = given \union more
  /\ late' = IF ok \/ Disposing THEN late \union more ELSE late
  /\ repeated' = (repeated \/ Disposing \/ ~ok)
  /\ UNCHANGED <<promised, behind>>

EndSettles(d, r) ==
  /\ disposal[d] = "awaiting" /\ r \in awaited[d]
  /\ awaited' = [awaited EXCEPT ![d] = @ \ {r}]
  /\ UNCHANGED <<subscriptions, promised, disposal, ends, given, late, behind, repeated>>

\* They all have ended: the list is emptied, whatever is on it by then.
AsyncDisposed(d) ==
  /\ disposal[d] = "awaiting" /\ awaited[d] = {}
  /\ disposal' = [disposal EXCEPT ![d] = "done"]
  /\ subscriptions' = <<>>
  /\ UNCHANGED <<promised, awaited, ends, given, late, behind, repeated>>

\* One of the ends is rejected: so is the call, and the list stays.
AsyncDisposeFails(d, r) ==
  /\ disposal[d] = "awaiting" /\ r \in awaited[d]
  /\ disposal' = [disposal EXCEPT ![d] = "failed"]
  /\ awaited' = [awaited EXCEPT ![d] = {}]
  /\ repeated' = TRUE
  /\ UNCHANGED <<subscriptions, promised, ends, given, late, behind>>

TeardownNext ==
  \/ \E r \in Resources : Give(r) \/ Promise(r) \/ Arrive(r)
  \/ \E n \in 0..Len(subscriptions) :
       \E more \in SUBSET Resources :
         \/ Dispose(n, more)
         \/ \E d \in Disposals, ok \in BOOLEAN : AsyncDispose(d, n, more, ok)
  \/ \E d \in Disposals :
       \/ AsyncDisposed(d)
       \/ \E r \in Resources : EndSettles(d, r) \/ AsyncDisposeFails(d, r)

TeardownSpec == TeardownInit /\ [][TeardownNext]_teardownVars

------------------------------------------------------------------------------
\* The fields are well typed, and no resource is twice on the list.
TeardownTypeOK ==
  /\ subscriptions \in Seq(given) /\ IsInjective(subscriptions)
  /\ promised \subseteq given /\ given \subseteq Resources
  /\ disposal \in [Disposals -> {"not started", "awaiting", "done", "failed"}]
  /\ awaited \in [Disposals -> SUBSET given]
  /\ ends \in [Resources -> Nat]
  /\ late \subseteq given /\ behind \subseteq given /\ repeated \in BOOLEAN

\* What was given to the manager is on its list, promised, or was ended: nothing
\* is forgotten, but for what came while an asyncDispose was waiting, whose list
\* is emptied after the wait (line 128), and what stood behind a resource that
\* threw when it was disposed of, on a list that was emptied first (line 137).
NothingForgotten ==
  \A r \in given \ (late \union behind) :
    r \in ToSet(subscriptions) \union promised \/ ends[r] > 0

\* A resource is ended once: disposing again ends it again only when a disposal
\* failed, or when the second one began while the first was waiting.
EndedOnce == ~repeated => \A r \in Resources : ends[r] <= 1

\* What a teardown manager promises: whatever it was given is ended once, or it
\* still knows of it.
EndedOrKept == TeardownTypeOK /\ NothingForgotten /\ EndedOnce
==============================================================================
