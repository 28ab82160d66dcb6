------------------------------- MODULE MCEvent -------------------------------
(* The events of core: an Event with its PipeEvent, a ReplayEvent, an        *)
(* AsyncEvent and the manager of what they end with; arrays that follow one  *)
(* another; bindings of paths.  All call back what calls them.               *)
EXTENDS Event, Replay, AsyncEvents, Teardown, ObservableArrays, Bindings

VARIABLE part

mcVars == <<part, vars, replayVars, asyncVars, teardownVars, arraysVars, bindingsVars>>

CONSTANTS x1, x2, p, q

MCPiped == <<p, q>>

\* splice() of all there is leaves the items it is given: what replaceArray()
\* of the result amounts to.
ASSUME \A s, t \in Given :
  LET n == Min({Len(s), Len(t)})
      o == IF n = 0 THEN s ELSE Overwritten(s, 0, SubSeq(t, 1, n)).array
  IN  t = IF Len(t) >= Len(s) THEN Pushed(o, SubSeq(t, n + 1, Len(t))).array
          ELSE Popped(o, Len(s) - n).array

\* A behaviour is one of these; the others stay as they began.
MCInit ==
  /\ part \in {"event", "replay", "async", "teardown", "arrays", "bindings"}
  /\ Init /\ ReplayInit /\ AsyncInit /\ TeardownInit /\ ArraysInit /\ BindingsInit
  /\ part = "arrays" => \A a \in Plains : array[a] = <<2, 1>>
  /\ part # "arrays" => \A a \in Arrays \union Plains : array[a] = <<>>
  /\ member[x1] = 1 /\ member[x2] = 2
  /\ part # "bindings" => target = Undefined /\ \A o \in Firsts : member[o] = Null

MCNext ==
  /\ UNCHANGED part
  /\ \/ part = "event" /\ Next /\ UNCHANGED <<replayVars, asyncVars, teardownVars, arraysVars, bindingsVars>>
     \/ part = "replay" /\ ReplayNext /\ UNCHANGED <<vars, asyncVars, teardownVars, arraysVars, bindingsVars>>
     \/ part = "async" /\ AsyncNext /\ UNCHANGED <<vars, replayVars, teardownVars, arraysVars, bindingsVars>>
     \/ part = "teardown" /\ TeardownNext /\ UNCHANGED <<vars, replayVars, asyncVars, arraysVars, bindingsVars>>
     \/ part = "arrays" /\ ArraysNext /\ UNCHANGED <<vars, replayVars, asyncVars, teardownVars, bindingsVars>>
     \/ part = "bindings" /\ BindingsNext /\ UNCHANGED <<vars, replayVars, asyncVars, teardownVars, arraysVars>>

MCSpec == MCInit /\ [][MCNext]_mcVars
==============================================================================
