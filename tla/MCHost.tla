------------------------------- MODULE MCHost --------------------------------
(* What asynchronous calls keep in step with the host: the files of a         *)
(* configuration with its secrets, of a lock file and of a queue; a child     *)
(* process; a container of docker.                                            *)
EXTENDS Configuration, Lockfile, DurableQueue, ChildProcess, Docker, TLC

CONSTANTS m1, m2, m3
Messages == {m1, m2, m3}
StartLoaded == <<m3>>

Reg(S) == (Regular :> S)
RegDev(S, T) == (Regular :> S) @@ (Dev :> T)

\* A cycle, a package that several depend on, a specifier that is the key of
\* its package, and one that is no package.
Diamond == [
  lock |-> Nothing,
  root |-> "r",
  deps |-> [r |-> RegDev({"a^"}, {"b^"}), a |-> Reg({"b", "x^"}), b |-> RegDev({"a^"}, {"d^"}), d |-> <<>>],
  members |-> [r |-> <<>>, a |-> <<>>, b |-> <<>>, d |-> <<>>],
  resolution |-> ("a^" :> "a") @@ ("b^" :> "b") @@ ("b" :> "b") @@ ("d^" :> "d") @@ ("x^" :> Unknown)]

\* Two workspaces, of which the first depends on a package that depends on the
\* root's other dependency.
Workspaces == [
  lock |-> Nothing,
  root |-> "r",
  deps |-> [r |-> Reg({"a^"}), v |-> RegDev({"a^"}, {"d^"}), w |-> RegDev({}, {"a^"}), a |-> Reg({"d^"}), d |-> Reg({"a^"})],
  members |-> [r |-> <<"v", "w">>, v |-> <<>>, w |-> <<>>, a |-> <<>>, d |-> <<>>],
  resolution |-> ("a^" :> "a") @@ ("d^" :> "d")]

\* A workspace that another workspace depends on.
Siblings == [
  lock |-> Nothing,
  root |-> "r",
  deps |-> [r |-> <<>>, v |-> Reg({"w^"}), w |-> RegDev({}, {"a^"}), a |-> <<>>],
  members |-> [r |-> <<"v", "w">>, v |-> <<>>, w |-> <<>>, a |-> <<>>],
  resolution |-> ("a^" :> "a") @@ ("w^" :> "w")]

\* A dependency that has a workspace, on which the root depends as well: as a
\* workspace it has development dependencies, one of which needs the other.
Nested == [
  lock |-> Nothing,
  root |-> "r",
  deps |-> [r |-> Reg({"a^", "w^"}), a |-> <<>>, w |-> RegDev({}, {"d^", "e^"}), d |-> Reg({"e^"}), e |-> <<>>],
  members |-> [r |-> <<>>, a |-> <<"w">>, w |-> <<>>, d |-> <<>>, e |-> <<>>],
  resolution |-> ("a^" :> "a") @@ ("w^" :> "w") @@ ("d^" :> "d") @@ ("e^" :> "e")]

\* A lock of an earlier version of the root, which the root is in; one of another
\* package, to which the root was added; one whose addPkg() failed for d.
Reinstalled == [Diamond EXCEPT !.lock = ("r" :> Reg("a^" :> "a")) @@ ("a" :> Reg(Nothing))]
OtherRoot == [Diamond EXCEPT !.lock = ("b" :> Reg("a^" :> "a")) @@ ("a" :> Reg("b" :> "b"))]
AfterFailure == [Workspaces EXCEPT !.lock = ("a" :> Reg("d^" :> "d")) @@ ("d^" :> Nothing)]

GraphsValue == {Diamond, Workspaces, Siblings, Nested, Reinstalled, OtherRoot, AfterFailure}

VARIABLE part

\* A behaviour is one of these; the others stay as they began.
MCInit ==
  /\ part \in {"configuration", "lockfile", "queue", "child", "docker"}
  /\ ConfigInit /\ LockInit /\ DurableInit /\ ChildInit /\ DockerInit
  /\ part # "configuration" => ~path /\ KeyUnknown
  /\ part # "lockfile" => graph = Siblings
  /\ part # "child" => keepAttached
  /\ part # "docker" => containerUp

\* SecretsStayReadable says nothing of a configuration once calls that found no
\* key overlapped, or the key could not be read: those behaviours stop there.
MCNext ==
  /\ UNCHANGED part
  /\ \/ part = "configuration" /\ ~overlap /\ ~misread /\ ConfigNext
        /\ UNCHANGED <<lockVars, durableVars, childVars, dockerVars>>
     \/ part = "lockfile" /\ LockNext
        /\ UNCHANGED <<configVars, durableVars, childVars, dockerVars>>
     \/ part = "queue" /\ DurableNext
        /\ UNCHANGED <<configVars, lockVars, childVars, dockerVars>>
     \/ part = "child" /\ ChildNext
        /\ UNCHANGED <<configVars, lockVars, durableVars, dockerVars>>
     \/ part = "docker" /\ DockerNext
        /\ UNCHANGED <<configVars, lockVars, durableVars, childVars>>

\* Only the walk of a lock file, and the monitor of a container, begin by
\* themselves: each is fair in the behaviours that are its own.
MCFairness ==
  /\ WF_lockVars(part = "lockfile" /\ \E p \in DOMAIN calls : Proceeds(p))
  /\ ChildFairness
  /\ WF_dockerVars(part = "docker" /\ MonitorAsks)
  /\ WF_dockerVars(part = "docker" /\ (EngineAnswers \/ MonitorFails))
  /\ WF_dockerVars(part = "docker" /\ MonitorHears)
  /\ \A c \in StopCalls :
       WF_dockerVars(part = "docker" /\ (ContainerStopped(c) \/ StopReturns(c) \/ StopFails(c)))

MCSpec ==
  MCInit /\ [][MCNext]_<<part, configVars, lockVars, durableVars, childVars, dockerVars>> /\ MCFairness

\* The walk of a lock file resolves or rejects, whatever the graph, cycles
\* included, and whatever fails: no two walks wait for each other.  A process
\* and a container that are told to stop end their calls of stop(), whatever
\* they do with the signals; and what watches them announces the end.
WalksAndRuntimesEnd == (part = "lockfile" ~> Resolves \/ Rejects) /\ StopResolves /\ EndIsAnnounced
==============================================================================
