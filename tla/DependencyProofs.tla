--------------------------- MODULE DependencyProofs ---------------------------
(***************************************************************************)
(* Proofs about the two walks along dependencies: the starts of programs   *)
(* (ProcessManager), for any programs and dependencies and any number of   *)
(* starts and processes, and the snapshot of a graph of packages           *)
(* (Lockfile), for any graphs and any number of failures.                  *)
(***************************************************************************)
EXTENDS ProcessManager, Lockfile, SequenceFacts


\* A start waits for something exactly at an await: a start that it called, or
\* a process; while it waits for a dependency, that one is first in its list.
StartOK(s) ==
    /\ s.on # None <=> s.at \in {"child", "ready", "build", "wait"}
    /\ s.at = "child" => s.on \in StartId
    /\ s.at \in {"ready", "build", "wait"} => s.on \in ProcessId
    /\ s.at \in {"child", "ready"} => s.todo # <<>>

StartsOK ==
    /\ starts \in [StartId -> Start]
    /\ \A k \in StartId : StartOK(starts[k])

\* Only a process that has ended has events to announce, and only one that was
\* up is registered.
ProcessesOK ==
    /\ proc \in [ProcessId -> Process]
    /\ \A i \in ProcessId : proc[i].phase # "gone" => proc[i].events = {}
    /\ processes \in [Name -> ProcessId \cup {None}]
    /\ registered \in [Name -> ProcessId \cup {None}]
    /\ \A n \in Name : registered[n] # None => proc[registered[n]].phase \in {"up", "gone"}

\* A start that builds has a process of its own, which nobody listens to yet.
BuildsOwn ==
    \A k \in StartId : starts[k].at = "build" =>
        /\ proc[starts[k].on].phase = "spawned"
        /\ \A j \in StartId : starts[j].at = "build" /\ starts[j].on = starts[k].on => j = k

\* A start is refused only for a container, and containers are replaced but
\* never removed.
RefusedExists ==
    \A k \in StartId : starts[k].at = "conflict" => processes[starts[k].name] # None

PmInv == StartsOK /\ ProcessesOK /\ BuildsOwn /\ RefusedExists /\ RunningIsUp /\ RegisteredIsConnected

LEMMA IdsAreNotNone == None \notin StartId /\ None \notin ProcessId
BY PmAssumption DEF None, StartId, ProcessId

LEMMA IdsAreNat == StartId \subseteq Nat /\ ProcessId \subseteq Nat
BY PmAssumption DEF StartId, ProcessId

LEMMA FreesAreTyped == FreeStart \in Start /\ StartOK(FreeStart) /\ FreeProcess \in Process
<1>1. AnyProgram \in Program /\ AnyProgram \in Name
  BY PmAssumption DEF AnyProgram
<1>2. <<>> \in Seq(Program)
  OBVIOUS
<1>3. QED
  BY <1>1, <1>2, IdsAreNotNone
     DEF FreeStart, Start, StartOK, FreeProcess, Process, Phase, Step, None

\* The invariant on starts is kept when one start moves to a sound place.
LEMMA OneStartMoves ==
    ASSUME StartsOK, NEW k \in StartId, NEW s \in Start, StartOK(s),
           starts' = [starts EXCEPT ![k] = s]
    PROVE  StartsOK'
BY DEF StartsOK

LEMMA PmInit == Init => PmInv
<1> SUFFICES ASSUME Init PROVE PmInv
  OBVIOUS
<1>1. StartsOK
  BY FreesAreTyped DEF Init, StartsOK
<1>2. ProcessesOK
  BY FreesAreTyped DEF Init, ProcessesOK, FreeProcess
<1>3. BuildsOwn
  BY DEF Init, BuildsOwn, FreeStart
<1>4. RunningIsUp
  BY DEF Init, RunningIsUp, FreeProcess
<1>5. RegisteredIsConnected
  BY DEF Init, RegisteredIsConnected
<1>6. RefusedExists
  BY DEF Init, RefusedExists, FreeStart
<1>7. QED
  BY <1>1, <1>2, <1>3, <1>4, <1>5, <1>6 DEF PmInv

-----------------------------------------------------------------------------
\* What the actions that leave processes alone keep: the start that moves does
\* not build.
LEMMA OnlyAStartMoves ==
    ASSUME PmInv, NEW k \in StartId, NEW s \in Start, StartOK(s), s.at # "build",
           s.at = "conflict" => processes[s.name] # None,
           starts' = [starts EXCEPT ![k] = s],
           UNCHANGED <<proc, processes, registered>>
    PROVE  PmInv'
<1>1. StartsOK'
  BY OneStartMoves DEF PmInv
<1>2. BuildsOwn'
  BY DEF PmInv, StartsOK, BuildsOwn
<1>3. ProcessesOK' /\ RunningIsUp' /\ RegisteredIsConnected'
  BY DEF PmInv, ProcessesOK, RunningIsUp, RegisteredIsConnected, Connected
<1>4. RefusedExists'
  BY DEF PmInv, StartsOK, RefusedExists
<1>5. QED
  BY <1>1, <1>2, <1>3, <1>4 DEF PmInv

LEMMA CalledIsSound ==
    ASSUME NEW n \in Program, NEW as \in Name, NEW wait \in BOOLEAN
    PROVE  /\ CalledFor(n, as, wait) \in Start
           /\ StartOK(CalledFor(n, as, wait))
           /\ CalledFor(n, as, wait).at = "called"
BY FreesAreTyped, IdsAreNotNone DEF CalledFor, FreeStart, Start, StartOK, Step

LEMMA DependencyDoneIsSound ==
    ASSUME NEW s \in Start, s.todo # <<>>
    PROVE  /\ DependencyDone(s) \in Start
           /\ StartOK(DependencyDone(s))
           /\ DependencyDone(s).at = "deps"
<1>1. Tail(s.todo) \in Seq(Program)
  BY DEF Start
<1>2. QED
  BY <1>1 DEF DependencyDone, Start, StartOK, Step, None

LEMMA ReturnedIsSound ==
    ASSUME NEW s \in Start
    PROVE  Returned(s) \in Start /\ StartOK(Returned(s)) /\ Returned(s).at = "done"
BY DEF Returned, Start, StartOK, Step, None

LEMMA CallStartKeeps ==
    ASSUME PmInv, NEW n \in Program, NEW as \in Name, NEW wait \in BOOLEAN,
           CallStart(n, as, wait)
    PROVE  PmInv'
<1>1. PICK k \in StartId : /\ starts' = [starts EXCEPT ![k] = CalledFor(n, as, wait)]
                           /\ UNCHANGED <<proc, processes, registered>>
  BY DEF CallStart
<1>2. CalledFor(n, as, wait) \in Start /\ StartOK(CalledFor(n, as, wait))
      /\ CalledFor(n, as, wait).at = "called"
  BY CalledIsSound
<1>3. QED
  BY <1>1, <1>2, OnlyAStartMoves

LEMMA RefuseKeeps ==
    ASSUME PmInv, NEW k \in StartId, Refuse(k) PROVE PmInv'
<1> DEFINE s == [starts[k] EXCEPT !.at = "conflict"]
<1>1. s \in Start /\ StartOK(s) /\ s.at # "build"
         /\ processes[s.name] # None
  BY DEF PmInv, StartsOK, StartOK, Start, Step, Refuse
<1>2. starts' = [starts EXCEPT ![k] = s] /\ UNCHANGED <<proc, processes, registered>>
  BY DEF Refuse, PmInv, StartsOK, Start
<1>3. QED
  BY <1>1, <1>2, OnlyAStartMoves

LEMMA BeginDependenciesKeeps ==
    ASSUME PmInv, NEW k \in StartId, BeginDependencies(k) PROVE PmInv'
<1> DEFINE s == [starts[k] EXCEPT !.at = "deps", !.fresh = TRUE,
                                  !.todo = Dependencies[starts[k].program]]
<1>0. Dependencies[starts[k].program] \in Seq(Program)
  BY PmAssumption DEF PmInv, StartsOK, Start
<1>1. s \in Start /\ StartOK(s) /\ s.at = "deps"
  BY <1>0 DEF PmInv, StartsOK, StartOK, Start, Step, BeginDependencies
<1>2. starts' = [starts EXCEPT ![k] = s] /\ UNCHANGED <<proc, processes, registered>>
  BY DEF BeginDependencies, PmInv, StartsOK, Start
<1>3. QED
  BY <1>1, <1>2, OnlyAStartMoves

LEMMA AwaitDependencyKeeps ==
    ASSUME PmInv, NEW k \in StartId, AwaitDependency(k) PROVE PmInv'
<1> DEFINE i == processes[Head(starts[k].todo)]
           s == [starts[k] EXCEPT !.at = "ready", !.on = i]
<1>1. starts[k] \in Start /\ starts[k].todo # <<>>
  BY DEF PmInv, StartsOK, AwaitDependency
<1>2. Head(starts[k].todo) \in Program /\ Head(starts[k].todo) \in Name
  BY <1>1, PmAssumption DEF Start
<1>3. i \in ProcessId /\ i # None
  BY <1>2 DEF PmInv, ProcessesOK, AwaitDependency
<1>4. s \in Start /\ StartOK(s) /\ s.at = "ready"
  BY <1>1, <1>3, IdsAreNat DEF Start, StartOK, Step
<1>5. starts' = [starts EXCEPT ![k] = s] /\ UNCHANGED <<proc, processes, registered>>
  BY <1>1 DEF AwaitDependency, PmInv, StartsOK, Start
<1>6. QED
  BY <1>4, <1>5, OnlyAStartMoves

LEMMA StartDependencyKeeps ==
    ASSUME PmInv, NEW k \in StartId, StartDependency(k) PROVE PmInv'
<1> DEFINE d == Head(starts[k].todo)
<1>1. starts[k] \in Start /\ starts[k].todo # <<>> /\ starts[k].at = "deps"
  BY DEF PmInv, StartsOK, StartDependency
<1>2. d \in Program /\ d \in Name
  BY <1>1, PmAssumption DEF Start
<1>3. PICK j \in StartId :
        /\ NewStart(j)
        /\ starts' = [starts EXCEPT ![k].at = "child", ![k].on = j,
                                    ![j] = CalledFor(d, d, TRUE)]
        /\ UNCHANGED <<proc, processes, registered>>
  BY DEF StartDependency
<1> DEFINE s == [starts[k] EXCEPT !.at = "child", !.on = j]
<1>4. j # k
  BY <1>1, <1>3 DEF NewStart
<1>5. s \in Start /\ StartOK(s) /\ s.at = "child"
  BY <1>1, <1>3, IdsAreNat, IdsAreNotNone DEF Start, StartOK, Step
<1>6. CalledFor(d, d, TRUE) \in Start /\ StartOK(CalledFor(d, d, TRUE)) /\ CalledFor(d, d, TRUE).at = "called"
  BY <1>2, CalledIsSound
<1>7. starts' = [[starts EXCEPT ![k] = s] EXCEPT ![j] = CalledFor(d, d, TRUE)]
  BY <1>3, <1>4 DEF PmInv, StartsOK, Start
<1> HIDE DEF s, d
<1>8. StartsOK'
  BY <1>5, <1>6, <1>7 DEF PmInv, StartsOK
<1>9. \A l \in StartId : starts'[l] = starts[l] \/ starts'[l].at \in {"child", "called"}
  BY <1>5, <1>6, <1>7 DEF PmInv, StartsOK
<1>10. BuildsOwn'
  <2>1. \A l \in StartId : starts'[l].at = "build" => starts'[l] = starts[l]
    BY <1>9
  <2>2. proc' = proc
    BY <1>3
  <2>3. ASSUME NEW l \in StartId, starts'[l].at = "build"
        PROVE  /\ proc'[starts'[l].on].phase = "spawned"
               /\ \A m \in StartId :
                    starts'[m].at = "build" /\ starts'[m].on = starts'[l].on => m = l
    BY <2>1, <2>2, <2>3 DEF PmInv, BuildsOwn
  <2>4. QED
    BY <2>3 DEF BuildsOwn
<1>11. RefusedExists'
  BY <1>3, <1>9 DEF PmInv, RefusedExists
<1>12. ProcessesOK' /\ RunningIsUp' /\ RegisteredIsConnected'
  BY <1>3 DEF PmInv, ProcessesOK, RunningIsUp, RegisteredIsConnected, Connected
<1>13. QED
  BY <1>8, <1>10, <1>11, <1>12 DEF PmInv

LEMMA DependencyReturnsKeeps ==
    ASSUME PmInv, NEW k \in StartId, DependencyReturns(k) PROVE PmInv'
<1> DEFINE j == starts[k].on
           i == processes[starts[j].name]
<1>1. starts[k] \in Start /\ StartOK(starts[k]) /\ starts[k].at = "child"
  BY DEF PmInv, StartsOK, DependencyReturns
<1>2. starts[k].todo # <<>> /\ j \in StartId
  BY <1>1 DEF StartOK
<1>3. UNCHANGED <<proc, processes, registered>>
  BY DEF DependencyReturns
<1>4. CASE starts' = [starts EXCEPT ![k] = DependencyDone(@)]
  BY <1>1, <1>2, <1>3, <1>4, DependencyDoneIsSound, OnlyAStartMoves
<1>5. CASE starts[j].at = "conflict" /\ starts' = [starts EXCEPT ![k].at = "ready", ![k].on = i]
  <2> DEFINE s == [starts[k] EXCEPT !.at = "ready", !.on = i]
  <2>1. starts[j].name \in Name
    BY <1>2 DEF PmInv, StartsOK, Start
  <2>2. i \in ProcessId /\ i # None
    BY <1>2, <1>5, <2>1 DEF PmInv, ProcessesOK, RefusedExists
  <2>3. s \in Start /\ StartOK(s) /\ s.at = "ready"
    BY <1>1, <1>2, <2>2, IdsAreNat DEF Start, StartOK, Step
  <2>4. starts' = [starts EXCEPT ![k] = s]
    BY <1>5 DEF PmInv, StartsOK, Start
  <2>5. QED
    BY <1>3, <2>3, <2>4, OnlyAStartMoves
<1>6. QED
  BY <1>4, <1>5 DEF DependencyReturns

\* A process is spawned for one start, which alone builds with it.
LEMMA SpawnKeeps ==
    ASSUME PmInv, NEW k \in StartId, Spawn(k), UNCHANGED <<processes, registered>> PROVE PmInv'
<1>1. PICK i \in ProcessId :
        /\ proc[i].phase = "free"
        /\ proc' = [proc EXCEPT ![i] = [FreeProcess EXCEPT !.program = starts[k].program,
                                                           !.name = starts[k].name,
                                                           !.phase = "spawned"]]
        /\ starts' = [starts EXCEPT ![k].at = "build", ![k].on = i]
  BY DEF Spawn, NewProcess
<1> DEFINE s == [starts[k] EXCEPT !.at = "build", !.on = i]
           q == [FreeProcess EXCEPT !.program = starts[k].program, !.name = starts[k].name,
                                    !.phase = "spawned"]
<1>2. starts[k] \in Start /\ starts[k].program \in Program /\ starts[k].name \in Name
  BY DEF PmInv, StartsOK, Start
<1>3. s \in Start /\ StartOK(s) /\ s.at = "build" /\ s.on = i
  BY <1>1, <1>2, IdsAreNat, IdsAreNotNone DEF Start, StartOK, Step
<1>4. /\ q \in Process
      /\ q.phase = "spawned" /\ q.events = {} /\ ~q.running
  BY <1>2, FreesAreTyped DEF FreeProcess, Process, Phase
<1>5. starts' = [starts EXCEPT ![k] = s]
  BY <1>1 DEF PmInv, StartsOK, Start
<1>6. proc' = [proc EXCEPT ![i] = q]
  BY <1>1
<1> HIDE DEF s, q
<1>7. StartsOK'
  BY <1>3, <1>5, OneStartMoves DEF PmInv
<1>8. ProcessesOK'
  <2>1. UNCHANGED <<processes, registered>>
    OBVIOUS
  <2>2. \A n \in Name : registered[n] # None => registered[n] # i
    BY <1>1 DEF PmInv, ProcessesOK
  <2>3. \A n \in Name : registered'[n] # None => proc'[registered'[n]].phase \in {"up", "gone"}
    BY <1>6, <2>1, <2>2 DEF PmInv, ProcessesOK
  <2>4. QED
    BY <1>4, <1>6, <2>1, <2>3 DEF PmInv, ProcessesOK
<1>9. BuildsOwn'
  BY <1>1, <1>3, <1>4, <1>5, <1>6 DEF PmInv, StartsOK, StartOK, ProcessesOK, BuildsOwn
<1>10. RefusedExists'
  BY <1>3, <1>5 DEF PmInv, StartsOK, RefusedExists
<1>11. RunningIsUp'
  BY <1>4, <1>6 DEF PmInv, ProcessesOK, RunningIsUp
<1>12. RegisteredIsConnected'
  <2>1. ~Connected(i)
    BY <1>1 DEF PmInv, ProcessesOK, Connected
  <2>2. ASSUME NEW n \in Name, registered[n] # None, proc[registered[n]].name = n
        PROVE  proc'[registered[n]] = proc[registered[n]]
    BY <1>6, <2>1, <2>2 DEF PmInv, ProcessesOK, RegisteredIsConnected
  <2>3. ASSUME NEW n \in Name, registered[n] # None
        PROVE  proc'[registered[n]].program = n
               /\ (proc'[registered[n]].name = n => Connected(registered[n])')
    <3>1. registered[n] \in ProcessId
      BY <2>3 DEF PmInv, ProcessesOK
    <3>2. CASE registered[n] = i
      BY <1>1, <2>3, <3>2 DEF PmInv, ProcessesOK
    <3>3. CASE registered[n] # i
      <4>1. proc'[registered[n]] = proc[registered[n]]
        BY <1>6, <3>1, <3>3 DEF PmInv, ProcessesOK
      <4>2. QED
        BY <2>3, <4>1 DEF PmInv, RegisteredIsConnected, Connected
    <3>4. QED
      BY <3>2, <3>3
  <2>4. QED
    BY <2>3 DEF RegisteredIsConnected
<1>13. QED
  BY <1>7, <1>8, <1>9, <1>10, <1>11, <1>12 DEF PmInv

LEMMA BuiltKeeps ==
    ASSUME PmInv, NEW k \in StartId, Built(k) PROVE PmInv'
<1> DEFINE i == starts[k].on
           n == starts[k].name
           s == IF starts[k].wait THEN [starts[k] EXCEPT !.at = "wait"] ELSE Returned(starts[k])
           q == [proc[i] EXCEPT !.phase = "up", !.running = TRUE]
<1>1. /\ starts[k] \in Start /\ StartOK(starts[k]) /\ starts[k].at = "build"
      /\ n \in Name
  BY DEF PmInv, StartsOK, Start, Built
<1>2. /\ i \in ProcessId /\ proc[i].phase = "spawned" /\ proc[i].events = {}
      /\ proc[i] \in Process
  BY <1>1 DEF StartOK, PmInv, BuildsOwn, ProcessesOK
<1>3. \A j \in StartId : starts[j].at = "build" /\ starts[j].on = i => j = k
  BY <1>1 DEF PmInv, BuildsOwn
<1>4. s \in Start /\ StartOK(s) /\ s.at \in {"wait", "done"}
  <2>1. CASE starts[k].wait
    BY <1>1, <2>1 DEF Start, StartOK, Step
  <2>2. CASE ~starts[k].wait
    BY <1>1, <2>2, ReturnedIsSound
  <2>3. QED
    BY <2>1, <2>2
<1>5. /\ q \in Process
      /\ q.phase = "up" /\ q.running /\ q.events = {} /\ q.program = proc[i].program /\ q.name = proc[i].name
  BY <1>2 DEF Process, Phase
<1>6. /\ starts' = [starts EXCEPT ![k] = s]
      /\ proc' = [proc EXCEPT ![i] = q]
      /\ processes' = [processes EXCEPT ![n] = i]
      /\ registered' = registered
  BY <1>1, <1>2 DEF Built, PmInv, StartsOK, ProcessesOK, Start, Process
<1> HIDE DEF s, q
<1>7. StartsOK'
  BY <1>4, <1>6, OneStartMoves DEF PmInv
<1>8. ProcessesOK'
  BY <1>1, <1>2, <1>5, <1>6 DEF PmInv, ProcessesOK
<1>9. BuildsOwn'
  <2>1. \A l \in StartId : starts'[l].at = "build" =>
            l # k /\ starts'[l] = starts[l] /\ starts[l].on # i
    BY <1>3, <1>4, <1>6 DEF PmInv, StartsOK
  <2>2. \A l \in StartId : starts[l].at = "build" => starts[l].on \in ProcessId
    BY DEF PmInv, StartsOK, StartOK
  <2>3. \A l \in StartId : starts'[l].at = "build" => proc'[starts'[l].on] = proc[starts[l].on]
    BY <1>6, <2>1, <2>2 DEF PmInv, ProcessesOK
  <2>4. QED
    BY <2>1, <2>3 DEF PmInv, BuildsOwn
<1>10. RefusedExists'
  <2>1. \A l \in StartId : starts'[l].at = "conflict" =>
            starts'[l] = starts[l] /\ starts[l].name \in Name
    BY <1>4, <1>6 DEF PmInv, StartsOK, Start
  <2>2. \A m \in Name : processes[m] # None => processes'[m] # None
    BY <1>2, <1>6, IdsAreNotNone DEF PmInv, ProcessesOK
  <2>3. QED
    BY <2>1, <2>2 DEF PmInv, RefusedExists
<1>11. RunningIsUp'
  BY <1>5, <1>6 DEF PmInv, ProcessesOK, RunningIsUp
<1>12. RegisteredIsConnected'
  BY <1>5, <1>6 DEF PmInv, ProcessesOK, RegisteredIsConnected, Connected
<1>13. QED
  BY <1>7, <1>8, <1>9, <1>10, <1>11, <1>12 DEF PmInv

-----------------------------------------------------------------------------
\* What the events of a process keep: it stays out of reach of the starts that
\* build, which have processes nobody listens to.
LEMMA OneProcessMoves ==
    ASSUME PmInv, NEW i \in ProcessId, NEW q \in Process, proc[i].phase # "spawned",
           q.phase # "gone" => q.events = {},
           q.running <=> q.phase = "up" \/ q.events = {"exit", "disconnect"},
           proc' = [proc EXCEPT ![i] = q],
           UNCHANGED <<starts, processes>>,
           registered' \in [Name -> ProcessId \cup {None}],
           q.phase \in {"up", "gone"},
           \A n \in Name : registered'[n] \in {None, i, registered[n]}
    PROVE  /\ StartsOK' /\ ProcessesOK' /\ RefusedExists'
           /\ BuildsOwn'
           /\ RunningIsUp'
<1>1. StartsOK' /\ RefusedExists'
  BY DEF PmInv, StartsOK, RefusedExists
<1>2. ProcessesOK'
  BY DEF PmInv, ProcessesOK
<1>3. BuildsOwn'
  <2>1. \A l \in StartId : starts[l].at = "build" => starts[l].on \in ProcessId
    BY DEF PmInv, StartsOK, StartOK
  <2>2. \A l \in StartId : starts[l].at = "build" => proc'[starts[l].on] = proc[starts[l].on]
    BY <2>1 DEF PmInv, ProcessesOK, BuildsOwn
  <2>3. QED
    BY <2>2 DEF PmInv, BuildsOwn
<1>4. RunningIsUp'
  BY DEF PmInv, ProcessesOK, RunningIsUp
<1>5. QED
  BY <1>1, <1>2, <1>3, <1>4

LEMMA MetadataArrivesKeeps ==
    ASSUME PmInv, NEW i \in ProcessId, MetadataArrives(i) PROVE PmInv'
<1> DEFINE q == [proc[i] EXCEPT !.asked = FALSE]
           n == proc[i].program
<1>1. proc[i] \in Process /\ n \in Program /\ n \in Name
  BY PmAssumption DEF PmInv, ProcessesOK, Process
<1>2. proc[i].phase # "spawned" /\ proc[i].phase \in {"up", "gone"}
  BY DEF MetadataArrives, Connected, PmInv, ProcessesOK
<1>3. /\ q \in Process
      /\ q.phase = proc[i].phase /\ q.events = proc[i].events
      /\ q.running = proc[i].running /\ q.program = proc[i].program /\ q.name = proc[i].name
  BY <1>1 DEF Process
<1>4. /\ proc' = [proc EXCEPT ![i] = q]
      /\ registered' = [registered EXCEPT ![n] = i]
      /\ UNCHANGED <<starts, processes>>
      /\ Connected(i)
  BY <1>1 DEF MetadataArrives, PmInv, ProcessesOK, Process
<1>5. /\ registered' \in [Name -> ProcessId \cup {None}]
      /\ \A m \in Name : registered'[m] \in {None, i, registered[m]}
  BY <1>1, <1>4 DEF PmInv, ProcessesOK
<1>6. q.running <=> q.phase = "up" \/ q.events = {"exit", "disconnect"}
  BY <1>3 DEF PmInv, RunningIsUp
<1>7. q.phase # "gone" => q.events = {}
  BY <1>3 DEF PmInv, ProcessesOK
<1> HIDE DEF q
<1>8. StartsOK' /\ ProcessesOK' /\ RefusedExists' /\ BuildsOwn' /\ RunningIsUp'
  BY <1>2, <1>3, <1>4, <1>5, <1>6, <1>7, OneProcessMoves
<1>9. \A j \in ProcessId : /\ proc'[j].program = proc[j].program /\ proc'[j].name = proc[j].name
                           /\ Connected(j) <=> Connected(j)'
  BY <1>3, <1>4 DEF PmInv, ProcessesOK, Connected
<1>10. RegisteredIsConnected'
  BY <1>1, <1>4, <1>9 DEF PmInv, ProcessesOK, RegisteredIsConnected
<1>11. QED
  BY <1>8, <1>10 DEF PmInv

LEMMA StopKeeps ==
    ASSUME PmInv, NEW n \in Name, Stop(n) PROVE PmInv'
<1> DEFINE i == processes[n]
           q == [proc[i] EXCEPT !.killed = TRUE]
<1>1. i \in ProcessId /\ proc[i].running
  BY DEF Stop, PmInv, ProcessesOK
<1>2. proc[i] \in Process /\ proc[i].phase # "spawned"
  BY <1>1 DEF PmInv, ProcessesOK, RunningIsUp
<1>3. /\ q \in Process
      /\ q.phase = proc[i].phase /\ q.events = proc[i].events
      /\ q.running = proc[i].running /\ q.program = proc[i].program /\ q.name = proc[i].name
  BY <1>2 DEF Process
<1>4. proc' = [proc EXCEPT ![i] = q] /\ UNCHANGED <<starts, processes, registered>>
  BY <1>1, <1>2 DEF Stop, PmInv, ProcessesOK, Process
<1>5. registered' \in [Name -> ProcessId \cup {None}]
  BY <1>4 DEF PmInv, ProcessesOK
<1>6. q.running <=> q.phase = "up" \/ q.events = {"exit", "disconnect"}
  BY <1>1, <1>3 DEF PmInv, RunningIsUp
<1>7. q.phase # "gone" => q.events = {}
  BY <1>1, <1>3 DEF PmInv, ProcessesOK
<1> HIDE DEF q, i
<1>8. StartsOK' /\ ProcessesOK' /\ RefusedExists' /\ BuildsOwn' /\ RunningIsUp'
  BY <1>1, <1>2, <1>3, <1>4, <1>5, <1>6, <1>7, OneProcessMoves
<1>9. \A j \in ProcessId : /\ proc'[j].program = proc[j].program /\ proc'[j].name = proc[j].name
                           /\ Connected(j) <=> Connected(j)'
  BY <1>1, <1>3, <1>4 DEF PmInv, ProcessesOK, Connected
<1>10. RegisteredIsConnected'
  BY <1>4, <1>9 DEF PmInv, ProcessesOK, RegisteredIsConnected
<1>11. QED
  BY <1>8, <1>10 DEF PmInv

LEMMA ExitKeeps ==
    ASSUME PmInv, NEW i \in ProcessId, Exit(i) PROVE PmInv'
<1> DEFINE q == [proc[i] EXCEPT !.phase = "gone", !.killed = FALSE,
                                !.events = {"exit", "disconnect"}]
<1>1. proc[i] \in Process /\ proc[i].phase = "up" /\ proc[i].running
  BY DEF Exit, PmInv, ProcessesOK, RunningIsUp
<1>2. /\ q \in Process
      /\ q.phase = "gone" /\ q.events = {"exit", "disconnect"}
      /\ q.running /\ q.program = proc[i].program /\ q.name = proc[i].name
  BY <1>1 DEF Process, Phase
<1>3. proc' = [proc EXCEPT ![i] = q] /\ UNCHANGED <<starts, processes, registered>>
  BY <1>1 DEF Exit, PmInv, ProcessesOK, Process
<1>4. registered' \in [Name -> ProcessId \cup {None}]
  BY <1>3 DEF PmInv, ProcessesOK
<1> HIDE DEF q
<1>5. StartsOK' /\ ProcessesOK' /\ RefusedExists' /\ BuildsOwn' /\ RunningIsUp'
  BY <1>1, <1>2, <1>3, <1>4, OneProcessMoves
<1>6. \A j \in ProcessId : /\ proc'[j].program = proc[j].program /\ proc'[j].name = proc[j].name
                           /\ Connected(j) => Connected(j)'
  BY <1>2, <1>3 DEF PmInv, ProcessesOK, Connected
<1>7. RegisteredIsConnected'
  BY <1>3, <1>6 DEF PmInv, ProcessesOK, RegisteredIsConnected
<1>8. QED
  BY <1>5, <1>7 DEF PmInv

\* The announcement that may end the connection also unregisters the program.
LEMMA AnnounceKeeps ==
    ASSUME PmInv, NEW i \in ProcessId, NEW e \in {"exit", "disconnect"}, Announce(i, e)
    PROVE  PmInv'
<1> DEFINE q == Ended(i, e)
           n == proc[i].name
<1>1. /\ proc[i] \in Process /\ n \in Name /\ e \in proc[i].events
      /\ proc[i].phase = "gone"
  BY DEF Announce, PmInv, ProcessesOK, Process, Phase
<1>2. (proc[i].asked /\ e # "disconnect") \in BOOLEAN
  OBVIOUS
<1>3. /\ q \in Process
      /\ q.phase = "gone" /\ q.events = proc[i].events \ {e}
      /\ ~q.running /\ q.program = proc[i].program /\ q.name = n
  BY <1>1, <1>2 DEF Ended, Process, Phase
<1>4. q.events # {"exit", "disconnect"}
  BY <1>3
<1>5. /\ proc' = [proc EXCEPT ![i] = q]
      /\ registered' = [registered EXCEPT ![n] = None]
      /\ UNCHANGED <<starts, processes>>
  BY DEF Announce
<1>6. registered' \in [Name -> ProcessId \cup {None}]
  BY <1>5 DEF PmInv, ProcessesOK
<1> HIDE DEF q
<1>7. StartsOK' /\ ProcessesOK' /\ RefusedExists' /\ BuildsOwn' /\ RunningIsUp'
  BY <1>1, <1>3, <1>4, <1>5, <1>6, OneProcessMoves
<1>8. ASSUME NEW m \in Name, registered'[m] # None
      PROVE  /\ proc'[registered'[m]].program = m
             /\ proc'[registered'[m]].name = m => Connected(registered[m])'
  <2>1. registered'[m] = registered[m] /\ m # n /\ registered[m] \in ProcessId
    BY <1>1, <1>5, <1>8 DEF PmInv, ProcessesOK
  <2>2. /\ proc[registered[m]].program = m
        /\ proc[registered[m]].name = m => Connected(registered[m])
    BY <1>8, <2>1 DEF PmInv, RegisteredIsConnected
  <2>3. CASE registered[m] = i
    BY <1>1, <1>3, <1>5, <2>1, <2>2, <2>3 DEF PmInv, ProcessesOK
  <2>4. CASE registered[m] # i
    <3>1. proc'[registered'[m]] = proc[registered[m]]
      BY <1>1, <1>5, <2>1, <2>4 DEF PmInv, ProcessesOK
    <3>2. QED
      BY <2>1, <2>2, <3>1 DEF Connected
  <2>5. QED
    BY <2>3, <2>4
<1>10. RegisteredIsConnected'
  BY <1>8 DEF RegisteredIsConnected
<1>11. QED
  BY <1>7, <1>10 DEF PmInv

\* Ready resumes the starts that wait for the process, none of which builds.
LEMMA ReadyKeeps ==
    ASSUME PmInv, NEW i \in ProcessId, Ready(i) PROVE PmInv'
<1> DEFINE q == [proc[i] EXCEPT !.ready = TRUE, !.asked = TRUE]
           t(k) == IF starts[k].on # i THEN starts[k]
                   ELSE IF starts[k].at = "wait" THEN Returned(starts[k])
                   ELSE IF starts[k].at = "ready" THEN DependencyDone(starts[k])
                   ELSE starts[k]
<1>1. proc[i] \in Process /\ proc[i].phase = "up"
  BY DEF Ready, PmInv, ProcessesOK
<1>2. /\ q \in Process
      /\ q.phase = "up" /\ q.events = proc[i].events
      /\ q.running = proc[i].running /\ q.program = proc[i].program /\ q.name = proc[i].name
  BY <1>1 DEF Process
<1>3. /\ proc' = [proc EXCEPT ![i] = q]
      /\ starts' = [k \in StartId |-> t(k)]
      /\ UNCHANGED <<processes, registered>>
  BY <1>1 DEF Ready, PmInv, ProcessesOK, Process
<1>4. ASSUME NEW k \in StartId
      PROVE  /\ t(k) \in Start /\ StartOK(t(k))
             /\ t(k) = starts[k] \/ t(k).at \in {"done", "deps"}
  <2>1. starts[k] \in Start /\ StartOK(starts[k])
    BY DEF PmInv, StartsOK
  <2>2. CASE starts[k].on = i /\ starts[k].at = "wait"
    BY <2>1, <2>2, ReturnedIsSound
  <2>3. CASE starts[k].on = i /\ starts[k].at = "ready"
    <3>1. starts[k].todo # <<>>
      BY <2>1, <2>3 DEF StartOK
    <3>2. QED
      BY <2>1, <2>3, <3>1, DependencyDoneIsSound
  <2>4. CASE t(k) = starts[k]
    BY <2>1, <2>4
  <2>5. QED
    BY <2>2, <2>3, <2>4
<1> HIDE DEF q, t
<1>5. StartsOK'
  BY <1>3, <1>4 DEF PmInv, StartsOK
<1>6. \A k \in StartId : starts'[k].at \in {"build", "conflict"} => starts'[k] = starts[k]
  BY <1>3, <1>4
<1>7. RefusedExists'
  BY <1>3, <1>6 DEF PmInv, RefusedExists
<1>8. ProcessesOK'
  BY <1>1, <1>2, <1>3 DEF PmInv, ProcessesOK
<1>9. \A j \in ProcessId : /\ proc'[j].program = proc[j].program /\ proc'[j].name = proc[j].name
                           /\ proc'[j].phase = proc[j].phase
                           /\ proc'[j].events = proc[j].events
                           /\ proc'[j].running = proc[j].running
  BY <1>1, <1>2, <1>3 DEF PmInv, ProcessesOK
<1>10. BuildsOwn'
  <2>1. \A k \in StartId : starts[k].at = "build" => starts[k].on \in ProcessId
    BY DEF PmInv, StartsOK, StartOK
  <2>2. ASSUME NEW k \in StartId, starts'[k].at = "build"
        PROVE  /\ proc'[starts'[k].on].phase = "spawned"
               /\ \A j \in StartId :
                    starts'[j].at = "build" /\ starts'[j].on = starts'[k].on => j = k
    BY <1>6, <1>9, <2>1, <2>2 DEF PmInv, BuildsOwn
  <2>3. QED
    BY <2>2 DEF BuildsOwn
<1>11. RunningIsUp'
  BY <1>9 DEF PmInv, RunningIsUp
<1>12. RegisteredIsConnected'
  BY <1>3, <1>9 DEF PmInv, ProcessesOK, RegisteredIsConnected, Connected
<1>13. QED
  BY <1>5, <1>7, <1>8, <1>10, <1>11, <1>12 DEF PmInv

-----------------------------------------------------------------------------
LEMMA PmStep == PmInv /\ [Next]_vars => PmInv'
<1> SUFFICES ASSUME PmInv, [Next]_vars PROVE PmInv'
  OBVIOUS
<1>1. ASSUME NEW n \in Program, NEW as \in Named[n], NEW wait \in Waits, CallStart(n, as, wait)
      PROVE  PmInv'
  BY <1>1, CallStartKeeps, PmAssumption
<1>2. ASSUME NEW k \in StartId, Advance(k) PROVE PmInv'
  <2>1. CASE Refuse(k)
    BY <2>1, RefuseKeeps
  <2>2. CASE BeginDependencies(k)
    BY <2>2, BeginDependenciesKeeps
  <2>3. CASE BeginProcess(k)
    BY <2>3, SpawnKeeps DEF BeginProcess
  <2>4. CASE StartDependency(k)
    BY <2>4, StartDependencyKeeps
  <2>5. CASE AwaitDependency(k)
    BY <2>5, AwaitDependencyKeeps
  <2>6. CASE DependencyReturns(k)
    BY <2>6, DependencyReturnsKeeps
  <2>7. CASE DependenciesDone(k)
    BY <2>7, SpawnKeeps DEF DependenciesDone
  <2>8. CASE Built(k)
    BY <2>8, BuiltKeeps
  <2>9. QED
    BY <1>2, <2>1, <2>2, <2>3, <2>4, <2>5, <2>6, <2>7, <2>8 DEF Advance
<1>3. ASSUME NEW i \in ProcessId,
             Ready(i) \/ MetadataArrives(i) \/ Exit(i)
               \/ \E e \in {"exit", "disconnect"} : Announce(i, e)
      PROVE  PmInv'
  BY <1>3, ReadyKeeps, MetadataArrivesKeeps, ExitKeeps, AnnounceKeeps
<1>4. ASSUME NEW n \in Name, Stop(n) PROVE PmInv'
  BY <1>4, StopKeeps
<1>5. CASE UNCHANGED vars
  BY <1>5 DEF vars, PmInv, StartsOK, ProcessesOK, BuildsOwn, RefusedExists, RunningIsUp,
              RegisteredIsConnected, Connected
<1>6. QED
  BY <1>1, <1>2, <1>3, <1>4, <1>5 DEF Next

THEOREM PmInvariant == Spec => []PmInv
BY PmInit, PmStep, PTL DEF Spec

\* The state of the starts and of the processes is well formed, whatever
\* overlaps: a start waits for something exactly where start() has an await.
THEOREM PmTypes == Spec => []TypeOK
<1>1. PmInv => TypeOK
  BY DEF PmInv, StartsOK, StartOK, ProcessesOK, TypeOK
<1>2. QED
  BY <1>1, PmInvariant, PTL

\* What status() reports and start() refuses by is true of the process: a
\* container is running from the moment its process is listened to until its
\* end is announced.
THEOREM StatusIsTrue == Spec => []RunningIsUp
<1>1. PmInv => RunningIsUp
  BY DEF PmInv
<1>2. QED
  BY <1>1, PmInvariant, PTL

\* No container that has its program's name stays registered in pm once the end
\* of its process has been announced twice, however late its metadata arrived.
THEOREM RegisteredAreConnected == Spec => []RegisteredIsConnected
<1>1. PmInv => RegisteredIsConnected
  BY DEF PmInv
<1>2. QED
  BY <1>1, PmInvariant, PTL

-----------------------------------------------------------------------------
\* Dependencies are ready first: the strengthening of PmInv it takes.
Pending == {"called", "deps", "child", "ready", "build", "wait"}

\* Some process of that name has signalled ready.
Signalled(d) == \E i \in ProcessId : proc[i].name = d /\ proc[i].ready

\* The invocation j, made for the dependency d, returns only after its ready.
ReturnsWhenReady(j, d) ==
    /\ starts[j].name = d
    /\ \/ starts[j].at \in Pending /\ starts[j].wait
       \/ starts[j].at = "conflict"
       \/ starts[j].at = "done" /\ Signalled(d)

ProcessOf(i, n) == proc[i].name = n /\ proc[i].phase # "free"

\* What an invocation waits for is what its next dependency, or its own
\* program, needs; its dependencies are in its list or have signalled ready.
Sound(k) ==
    LET s == starts[k] IN
    /\ s.at \in {"free", "called"} => ~s.fresh
    /\ s.at \in {"build", "wait"} => ProcessOf(s.on, s.name)
    /\ s.at = "ready" => ProcessOf(s.on, Head(s.todo))
    /\ s.at = "child" => ReturnsWhenReady(s.on, Head(s.todo))
    /\ s.fresh /\ s.at \in {"build", "wait", "done"} => s.todo = <<>>
    /\ s.fresh => \A d \in ToSet(Dependencies[s.program]) : d \in ToSet(s.todo) \/ Signalled(d)

ReadyInv ==
    /\ \A i \in ProcessId : proc[i].ready => proc[i].phase # "free"
    /\ \A n \in Name : processes[n] # None => ProcessOf(processes[n], n)
    /\ \A k \in StartId : Sound(k)

ProcessesSound ==
    /\ \A i \in ProcessId : proc[i].ready => proc[i].phase # "free"
    /\ \A n \in Name : processes[n] # None => ProcessOf(processes[n], n)

\* What no step undoes: a process keeps its name, and what it signalled.
ProcessesGrow ==
    \A i \in ProcessId : proc[i].phase # "free" =>
        /\ proc'[i].name = proc[i].name
        /\ proc'[i].phase # "free"
        /\ proc[i].ready => proc'[i].ready

\* An invocation moves on: it keeps what others wait for it to do.
Moves(k) ==
    /\ starts[k].at \in Pending
    /\ starts'[k].program = starts[k].program /\ starts'[k].name = starts[k].name
    /\ \/ starts'[k].at \in Pending /\ starts'[k].wait = starts[k].wait
       \/ starts'[k].at = "conflict"
       \/ starts'[k].at = "done" /\ (starts[k].wait => Signalled(starts[k].name)')
Advances(k) == starts'[k] = starts[k] \/ starts[k].at = "free" \/ Moves(k)

LEMMA Shorter ==
    ASSUME NEW q \in Seq(Program), q # <<>>, NEW d \in ToSet(q), d # Head(q)
    PROVE  d \in ToSet(Tail(q))
<1>1. PICK i \in DOMAIN q : d = q[i]
  BY DEF ToSet
<1>2. PICK n \in Nat : n = Len(q)
  OBVIOUS
<1>3. i \in 2..n /\ i - 1 \in DOMAIN Tail(q) /\ Tail(q)[i - 1] = d
  BY <1>1, <1>2
<1>4. QED
  BY <1>3 DEF ToSet

LEMMA Lasting ==
    ASSUME ReadyInv, ProcessesGrow
    PROVE  /\ \A d : Signalled(d) => Signalled(d)'
           /\ \A i \in ProcessId : \A n : ProcessOf(i, n) => ProcessOf(i, n)'
BY DEF ReadyInv, ProcessesGrow, Signalled, ProcessOf

LEMMA ReturnsLasts ==
    ASSUME ReadyInv, ProcessesGrow, NEW j \in StartId, Advances(j), NEW d, ReturnsWhenReady(j, d)
    PROVE  ReturnsWhenReady(j, d)'
<1>1. Signalled(d) => Signalled(d)'
  BY Lasting
<1>2. starts[j].at # "free"
  BY DEF ReturnsWhenReady, Pending
<1>3. CASE starts'[j] = starts[j]
  BY <1>1, <1>3 DEF ReturnsWhenReady
<1>4. CASE Moves(j)
  <2>1. starts[j].name = d /\ starts[j].wait
    BY <1>4 DEF Moves, ReturnsWhenReady, Pending
  <2>2. QED
    BY <1>4, <2>1 DEF Moves, ReturnsWhenReady
<1>5. QED
  BY <1>2, <1>3, <1>4 DEF Advances

\* An invocation that does not move stays sound.
LEMMA StillSound ==
    ASSUME PmInv, ReadyInv, ProcessesGrow, \A j \in StartId : Advances(j),
           NEW k \in StartId, starts'[k] = starts[k]
    PROVE  Sound(k)'
<1>1. Sound(k) /\ StartOK(starts[k])
  BY DEF ReadyInv, PmInv, StartsOK
<1>2. starts[k].at \in {"ready", "build", "wait"} => starts[k].on \in ProcessId
  BY <1>1 DEF StartOK
<1>3. starts[k].at = "child" => starts[k].on \in StartId
  BY <1>1 DEF StartOK
<1>4. starts[k].at \in {"build", "wait"} => ProcessOf(starts[k].on, starts[k].name)'
  BY <1>1, <1>2, Lasting DEF Sound
<1>5. starts[k].at = "ready" => ProcessOf(starts[k].on, Head(starts[k].todo))'
  BY <1>1, <1>2, Lasting DEF Sound
<1>6. starts[k].at = "child" => ReturnsWhenReady(starts[k].on, Head(starts[k].todo))'
  BY <1>1, <1>3, ReturnsLasts DEF Sound
<1>7. \A d : Signalled(d) => Signalled(d)'
  BY Lasting
<1>8. QED
  BY <1>1, <1>4, <1>5, <1>6, <1>7 DEF Sound, ProcessOf, ReturnsWhenReady

LEMMA OneMoves ==
    ASSUME PmInv, ReadyInv, ProcessesGrow, ProcessesSound', NEW k \in StartId,
           \A j \in StartId \ {k} : starts'[j] = starts[j],
           starts[k].at = "free" \/ Moves(k), Sound(k)'
    PROVE  ReadyInv'
<1>1. \A j \in StartId : Advances(j)
  BY DEF Advances
<1>2. \A j \in StartId : Sound(j)'
  BY <1>1, StillSound
<1>3. QED
  BY <1>2 DEF ReadyInv, ProcessesSound

LEMMA NothingGrows ==
    ASSUME PmInv, ReadyInv, UNCHANGED <<proc, processes>>
    PROVE  ProcessesGrow /\ ProcessesSound'
BY DEF ReadyInv, ProcessesGrow, ProcessesSound, ProcessOf

\* The first dependency of a list is taken off once it has signalled ready.
LEMMA DependencyDoneSound ==
    ASSUME PmInv, ReadyInv, ProcessesGrow, NEW k \in StartId,
           starts[k].at \in {"child", "ready"}, starts'[k] = DependencyDone(starts[k]),
           NEW first, first = Head(starts[k].todo), Signalled(first)'
    PROVE  Sound(k)' /\ Moves(k)
<1> DEFINE s == starts[k]
<1>1. s \in Start /\ StartOK(s) /\ Sound(k)
  BY DEF PmInv, StartsOK, ReadyInv
<1>2. s.todo \in Seq(Program) /\ s.todo # <<>>
  BY <1>1 DEF Start, StartOK
<1>3. /\ starts'[k].at = "deps" /\ starts'[k].todo = Tail(s.todo)
      /\ starts'[k].program = s.program /\ starts'[k].name = s.name /\ starts'[k].fresh = s.fresh
      /\ starts'[k].wait = s.wait
  BY <1>1 DEF DependencyDone, Start
<1>4. Moves(k)
  BY <1>3 DEF Moves, Pending
<1>5. ASSUME NEW d \in ToSet(Dependencies[s.program]), s.fresh
      PROVE  d \in ToSet(Tail(s.todo)) \/ Signalled(d)'
  <2>1. d \in ToSet(s.todo) \/ Signalled(d)
    BY <1>1, <1>5 DEF Sound
  <2>2. CASE Signalled(d)
    BY <2>2, Lasting
  <2>3. CASE d \in ToSet(s.todo) /\ d # Head(s.todo)
    BY <1>2, <2>3, Shorter
  <2>4. CASE d = first
    BY <2>4
  <2>5. QED
    BY <2>1, <2>2, <2>3, <2>4
<1>6. Sound(k)'
  BY <1>3, <1>5 DEF Sound
<1>7. QED
  BY <1>4, <1>6

-----------------------------------------------------------------------------
LEMMA ReadyInit == Init => ReadyInv
<1> SUFFICES ASSUME Init PROVE ReadyInv
  OBVIOUS
<1>1. \A k \in StartId : Sound(k)
  BY DEF Init, Sound, FreeStart
<1>2. QED
  BY <1>1 DEF Init, ReadyInv, FreeProcess

\* A call, and each step of an invocation that leaves the processes alone.
LEMMA CallStartReady ==
    ASSUME PmInv, ReadyInv, NEW n \in Program, NEW as \in Name, NEW wait \in BOOLEAN,
           CallStart(n, as, wait)
    PROVE  ReadyInv'
<1>1. PICK k \in StartId : /\ starts[k].at = "free"
                           /\ starts' = [starts EXCEPT ![k] = CalledFor(n, as, wait)]
                           /\ UNCHANGED <<proc, processes, registered>>
  BY DEF CallStart, NewStart
<1>2. starts'[k] = CalledFor(n, as, wait) /\ \A j \in StartId \ {k} : starts'[j] = starts[j]
  BY <1>1 DEF PmInv, StartsOK
<1>3. Sound(k)'
  BY <1>2 DEF Sound, CalledFor, FreeStart
<1>4. QED
  BY <1>1, <1>2, <1>3, NothingGrows, OneMoves

LEMMA RefuseReady ==
    ASSUME PmInv, ReadyInv, NEW k \in StartId, Refuse(k) PROVE ReadyInv'
<1>1. /\ starts[k] \in Start /\ Sound(k) /\ starts[k].at = "called"
      /\ starts'[k] = [starts[k] EXCEPT !.at = "conflict"]
      /\ \A j \in StartId \ {k} : starts'[j] = starts[j]
      /\ UNCHANGED <<proc, processes>>
  BY DEF Refuse, PmInv, StartsOK, ReadyInv
<1>2. /\ starts'[k].at = "conflict" /\ starts'[k].fresh = FALSE
      /\ starts'[k].program = starts[k].program /\ starts'[k].name = starts[k].name
  BY <1>1 DEF Start, Sound
<1>3. Sound(k)' /\ Moves(k)
  BY <1>1, <1>2 DEF Sound, Moves, Pending
<1>4. QED
  BY <1>1, <1>3, NothingGrows, OneMoves

LEMMA BeginDependenciesReady ==
    ASSUME PmInv, ReadyInv, NEW k \in StartId, BeginDependencies(k) PROVE ReadyInv'
<1>1. /\ starts[k] \in Start /\ starts[k].at = "called"
      /\ starts'[k] = [starts[k] EXCEPT !.at = "deps", !.fresh = TRUE,
                                        !.todo = Dependencies[starts[k].program]]
      /\ \A j \in StartId \ {k} : starts'[j] = starts[j]
      /\ UNCHANGED <<proc, processes>>
  BY DEF BeginDependencies, PmInv, StartsOK, Start
<1>2. /\ starts'[k].at = "deps" /\ starts'[k].program = starts[k].program /\ starts'[k].name = starts[k].name
      /\ starts'[k].wait = starts[k].wait
      /\ starts'[k].todo = Dependencies[starts'[k].program]
  BY <1>1 DEF Start
<1>3. Sound(k)'
  BY <1>2 DEF Sound
<1>4. Moves(k)
  BY <1>1, <1>2 DEF Moves, Pending
<1>5. QED
  BY <1>1, <1>3, <1>4, NothingGrows, OneMoves

\* An invocation that awaits the ready event of the container of its next
\* dependency, whether it found that container or was refused for it.
LEMMA AwaitsReady ==
    ASSUME PmInv, ReadyInv, NEW k \in StartId, starts[k].at \in {"deps", "child"},
           NEW i \in ProcessId, ProcessOf(i, Head(starts[k].todo)),
           starts'[k] = [starts[k] EXCEPT !.at = "ready", !.on = i],
           \A j \in StartId \ {k} : starts'[j] = starts[j],
           UNCHANGED <<proc, processes>>
    PROVE  ReadyInv'
<1>1. starts[k] \in Start /\ Sound(k)
  BY DEF PmInv, StartsOK, ReadyInv
<1>2. /\ starts'[k].at = "ready" /\ starts'[k].on = i
      /\ starts'[k].program = starts[k].program /\ starts'[k].name = starts[k].name
      /\ starts'[k].wait = starts[k].wait
      /\ starts'[k].todo = starts[k].todo /\ starts'[k].fresh = starts[k].fresh
  BY <1>1, IdsAreNat DEF Start
<1>3. ProcessOf(i, Head(starts[k].todo))'
  BY <1>2 DEF ProcessOf
<1>4. \A d : Signalled(d) => Signalled(d)'
  BY DEF Signalled
<1>5. Sound(k)'
  BY <1>1, <1>2, <1>3, <1>4 DEF Sound
<1>6. Moves(k)
  BY <1>2 DEF Moves, Pending
<1>7. QED
  BY <1>1, <1>5, <1>6, NothingGrows, OneMoves

LEMMA AwaitDependencyReady ==
    ASSUME PmInv, ReadyInv, NEW k \in StartId, AwaitDependency(k) PROVE ReadyInv'
<1>1. starts[k] \in Start /\ starts[k].todo # <<>>
  BY DEF PmInv, StartsOK, AwaitDependency
<1>2. Head(starts[k].todo) \in Program /\ Head(starts[k].todo) \in Name
  BY <1>1, PmAssumption DEF Start
<1>3. ProcessOf(processes[Head(starts[k].todo)], Head(starts[k].todo))
  BY <1>2 DEF AwaitDependency, ReadyInv
<1>4. PICK i \in ProcessId : i = processes[Head(starts[k].todo)]
  BY <1>2 DEF AwaitDependency, PmInv, ProcessesOK
<1>5. /\ starts'[k] = [starts[k] EXCEPT !.at = "ready", !.on = i]
      /\ \A j \in StartId \ {k} : starts'[j] = starts[j]
      /\ UNCHANGED <<proc, processes>>
  BY <1>4 DEF AwaitDependency, PmInv, StartsOK, Start
<1>6. starts[k].at = "deps"
  BY DEF AwaitDependency
<1>7. QED
  BY <1>3, <1>4, <1>5, <1>6, AwaitsReady

LEMMA DependencyReturnsReady ==
    ASSUME PmInv, ReadyInv, NEW k \in StartId, DependencyReturns(k) PROVE ReadyInv'
<1> DEFINE j == starts[k].on
<1>1. /\ starts[k] \in Start /\ starts[k].todo # <<>> /\ starts[k].at = "child"
      /\ j \in StartId /\ ReturnsWhenReady(j, Head(starts[k].todo))
  BY DEF DependencyReturns, PmInv, StartsOK, StartOK, ReadyInv, Sound
<1>2. PICK d \in Name : d = Head(starts[k].todo) /\ d \in Program
  BY <1>1, PmAssumption DEF Start
<1>3. starts[j].name = d
  BY <1>1, <1>2 DEF ReturnsWhenReady
<1>4. UNCHANGED <<proc, processes>>
  BY DEF DependencyReturns
<1>5. CASE starts[j].at = "done" /\ starts' = [starts EXCEPT ![k] = DependencyDone(@)]
  <2>1. Signalled(d)
    BY <1>1, <1>2, <1>5 DEF ReturnsWhenReady, Pending
  <2>2. Signalled(d)'
    BY <1>4, <2>1 DEF Signalled
  <2>3. /\ starts'[k] = DependencyDone(starts[k])
        /\ \A l \in StartId \ {k} : starts'[l] = starts[l]
    BY <1>5 DEF PmInv, StartsOK
  <2>4. Sound(k)' /\ Moves(k)
    BY <1>1, <1>2, <1>4, <2>2, <2>3, NothingGrows, DependencyDoneSound
  <2>5. QED
    BY <1>4, <2>3, <2>4, NothingGrows, OneMoves
<1>6. CASE /\ starts[j].at = "conflict"
           /\ starts' = [starts EXCEPT ![k].at = "ready", ![k].on = processes[starts[j].name]]
  <2>1. PICK i \in ProcessId : i = processes[d]
    BY <1>1, <1>3, <1>6 DEF PmInv, ProcessesOK, RefusedExists
  <2>2. ProcessOf(i, d)
    BY <2>1, IdsAreNotNone DEF ReadyInv
  <2>3. /\ starts'[k] = [starts[k] EXCEPT !.at = "ready", !.on = i]
        /\ \A l \in StartId \ {k} : starts'[l] = starts[l]
    BY <1>3, <1>6, <2>1 DEF PmInv, StartsOK, Start
  <2>4. QED
    BY <1>1, <1>2, <1>4, <2>2, <2>3, AwaitsReady
<1>7. QED
  BY <1>5, <1>6 DEF DependencyReturns

\* Two invocations move: the one that calls start for a dependency, and that
\* call, which returns only when the dependency is ready.
LEMMA StartDependencyReady ==
    ASSUME PmInv, ReadyInv, NEW k \in StartId, StartDependency(k) PROVE ReadyInv'
<1>1. /\ starts[k] \in Start /\ Sound(k)
      /\ starts[k].todo # <<>> /\ starts[k].at = "deps"
  BY DEF PmInv, StartsOK, ReadyInv, StartDependency
<1>2. PICK d \in Name : d = Head(starts[k].todo) /\ d \in Program
  BY <1>1, PmAssumption DEF Start
<1>3. PICK j \in StartId :
        /\ starts[j].at = "free"
        /\ starts' = [starts EXCEPT ![k].at = "child", ![k].on = j,
                                    ![j] = CalledFor(d, d, TRUE)]
        /\ UNCHANGED <<proc, processes>>
  BY <1>2 DEF StartDependency, NewStart
<1>4. j # k
  BY <1>1, <1>3
<1>5. /\ starts'[k] = [starts[k] EXCEPT !.at = "child", !.on = j]
      /\ starts'[j] = CalledFor(d, d, TRUE)
      /\ \A l \in StartId \ {k, j} : starts'[l] = starts[l]
  BY <1>3, <1>4 DEF PmInv, StartsOK, Start
<1>6. /\ starts'[k].at = "child" /\ starts'[k].on = j
      /\ starts'[k].program = starts[k].program /\ starts'[k].name = starts[k].name
      /\ starts'[k].wait = starts[k].wait
      /\ starts'[k].todo = starts[k].todo /\ starts'[k].fresh = starts[k].fresh
  BY <1>1, <1>5, IdsAreNat DEF Start
<1>7. /\ starts'[j].at = "called" /\ starts'[j].fresh = FALSE
      /\ starts'[j].name = d /\ starts'[j].wait = TRUE
  BY <1>5 DEF CalledFor, FreeStart
<1>8. \A e : Signalled(e) => Signalled(e)'
  BY <1>3 DEF Signalled
<1>9. Sound(k)'
  <2>1. ReturnsWhenReady(starts[k].on, Head(starts[k].todo))'
    BY <1>2, <1>6, <1>7 DEF ReturnsWhenReady, Pending
  <2>2. QED
    BY <1>1, <1>6, <1>8, <2>1 DEF Sound
<1>10. Sound(j)'
  BY <1>7 DEF Sound
<1>11. Moves(k)
  BY <1>1, <1>6 DEF Moves, Pending
<1>12. \A l \in StartId : Advances(l)
  BY <1>3, <1>5, <1>11 DEF Advances
<1>13. \A l \in StartId \ {k, j} : Sound(l)'
  BY <1>3, <1>5, <1>12, NothingGrows, StillSound
<1>14. QED
  BY <1>3, <1>9, <1>10, <1>13, NothingGrows DEF ReadyInv, ProcessesSound

-----------------------------------------------------------------------------
\* A process is spawned with no dependency left to wait for.
LEMMA SpawnReady ==
    ASSUME PmInv, ReadyInv, NEW k \in StartId, Spawn(k), processes' = processes,
           starts[k].at \in {"called", "deps"},
           starts[k].at = "deps" => starts[k].todo = <<>>
    PROVE  ReadyInv'
<1>1. PICK i \in ProcessId :
        /\ proc[i].phase = "free"
        /\ proc' = [proc EXCEPT ![i] = [FreeProcess EXCEPT !.program = starts[k].program,
                                                           !.name = starts[k].name,
                                                           !.phase = "spawned"]]
        /\ starts' = [starts EXCEPT ![k].at = "build", ![k].on = i]
  BY DEF Spawn, NewProcess
<1>2. starts[k] \in Start /\ Sound(k)
  BY DEF PmInv, StartsOK, ReadyInv
<1>3. /\ starts'[k] = [starts[k] EXCEPT !.at = "build", !.on = i]
      /\ \A j \in StartId \ {k} : starts'[j] = starts[j]
  BY <1>1 DEF PmInv, StartsOK, Start
<1>4. /\ starts'[k].at = "build" /\ starts'[k].on = i
      /\ starts'[k].program = starts[k].program /\ starts'[k].name = starts[k].name
      /\ starts'[k].wait = starts[k].wait
      /\ starts'[k].todo = starts[k].todo /\ starts'[k].fresh = starts[k].fresh
  BY <1>2, <1>3, IdsAreNat DEF Start
<1>5. /\ proc'[i].name = starts[k].name
      /\ proc'[i].phase = "spawned" /\ proc'[i].ready = FALSE
      /\ \A j \in ProcessId \ {i} : proc'[j] = proc[j]
  BY <1>1 DEF FreeProcess, PmInv, ProcessesOK
<1>6. ProcessesGrow
  BY <1>1, <1>5 DEF ProcessesGrow
<1>7. \A n \in Name : processes[n] # None => ProcessOf(processes[n], n)'
  BY <1>6, Lasting DEF ReadyInv, PmInv, ProcessesOK
<1>8. ProcessesSound'
  BY <1>5, <1>7 DEF ReadyInv, ProcessesSound, ProcessOf
<1>9. \A d : Signalled(d) => Signalled(d)'
  BY <1>6, Lasting
<1>10. Sound(k)'
  <2>1. ProcessOf(starts[k].on, starts[k].name)'
    BY <1>4, <1>5 DEF ProcessOf
  <2>2. starts[k].fresh => starts[k].todo = <<>>
    BY <1>2 DEF Sound
  <2>3. QED
    BY <1>2, <1>4, <1>9, <2>1, <2>2 DEF Sound
<1>11. Moves(k)
  BY <1>4 DEF Moves, Pending
<1>12. QED
  BY <1>3, <1>6, <1>8, <1>10, <1>11, OneMoves

\* The container of a name is replaced by one of the same name.
LEMMA BuiltReady ==
    ASSUME PmInv, ReadyInv, NEW k \in StartId, Built(k) PROVE ReadyInv'
<1>1. starts[k] \in Start /\ Sound(k) /\ starts[k].at = "build"
  BY DEF Built, PmInv, StartsOK, ReadyInv
<1>2. PICK i \in ProcessId, n \in Name : i = starts[k].on /\ n = starts[k].name
  BY <1>1 DEF PmInv, StartsOK, StartOK, Start
<1>3. proc[i] \in Process
  BY DEF PmInv, ProcessesOK
<1>4. /\ proc' = [proc EXCEPT ![i] = [@ EXCEPT !.phase = "up", !.running = TRUE]]
      /\ processes' = [processes EXCEPT ![n] = i]
  BY <1>2, <1>3 DEF Built, PmInv, ProcessesOK, Process
<1>5. /\ proc'[i].name = proc[i].name /\ proc'[i].phase = "up"
      /\ proc'[i].ready = proc[i].ready
      /\ \A j \in ProcessId \ {i} : proc'[j] = proc[j]
  BY <1>3, <1>4 DEF Process, PmInv, ProcessesOK
<1>6. ProcessesGrow
  BY <1>5 DEF ProcessesGrow
<1>7. ProcessOf(i, n)'
  BY <1>1, <1>2, <1>6, Lasting DEF Sound
<1>8. ASSUME NEW m \in Name, processes'[m] # None PROVE ProcessOf(processes[m], m)'
  <2>1. CASE m = n
    BY <1>4, <1>7, <2>1 DEF PmInv, ProcessesOK, ProcessOf
  <2>2. CASE m # n
    <3>1. PICK j \in ProcessId : j = processes[m] /\ j = processes'[m]
      BY <1>4, <1>8, <2>2 DEF PmInv, ProcessesOK
    <3>2. ProcessOf(j, m)
      BY <3>1, IdsAreNotNone DEF ReadyInv
    <3>3. ProcessOf(j, m)'
      BY <1>6, <3>2, Lasting
    <3>4. QED
      BY <3>1, <3>3 DEF ProcessOf
  <2>3. QED
    BY <2>1, <2>2
<1>9. ProcessesSound'
  BY <1>5, <1>8 DEF ReadyInv, ProcessesSound
<1>10. /\ starts'[k] = IF starts[k].wait THEN [starts[k] EXCEPT !.at = "wait"]
                                        ELSE Returned(starts[k])
       /\ \A j \in StartId \ {k} : starts'[j] = starts[j]
  BY DEF Built, PmInv, StartsOK
<1>11. \A d : Signalled(d) => Signalled(d)'
  BY <1>6, Lasting
<1>12. Sound(k)' /\ Moves(k)
  <2>1. CASE starts[k].wait
    <3>1. /\ starts'[k].at = "wait" /\ starts'[k].on = i /\ starts'[k].wait
          /\ starts'[k].program = starts[k].program /\ starts'[k].name = n
          /\ starts'[k].todo = starts[k].todo /\ starts'[k].fresh = starts[k].fresh
      BY <1>1, <1>2, <1>10, <2>1 DEF Start
    <3>2. ProcessOf(starts[k].on, starts[k].name)'
      BY <1>7, <3>1 DEF ProcessOf
    <3>3. Sound(k)'
      BY <1>1, <1>2, <1>11, <3>1, <3>2 DEF Sound
    <3>4. Moves(k)
      BY <1>1, <1>2, <2>1, <3>1 DEF Moves, Pending
    <3>5. QED
      BY <3>3, <3>4
  <2>2. CASE ~starts[k].wait
    <3>1. /\ starts'[k].at = "done"
          /\ starts'[k].program = starts[k].program /\ starts'[k].name = n
          /\ starts'[k].todo = starts[k].todo /\ starts'[k].fresh = starts[k].fresh
      BY <1>1, <1>2, <1>10, <2>2 DEF Start, Returned
    <3>2. Sound(k)'
      BY <1>1, <1>2, <1>11, <3>1 DEF Sound
    <3>3. Moves(k)
      BY <1>1, <1>2, <2>2, <3>1 DEF Moves, Pending
    <3>4. QED
      BY <3>2, <3>3
  <2>3. QED
    BY <2>1, <2>2
<1>13. QED
  BY <1>6, <1>9, <1>10, <1>12, OneMoves

-----------------------------------------------------------------------------
\* What happens to a process undoes neither its name nor its ready event.
LEMMA OneProcessGrows ==
    ASSUME PmInv, ReadyInv, NEW i \in ProcessId, NEW q \in Process,
           proc[i].phase # "free", q.phase # "free",
           q.name = proc[i].name, proc[i].ready => q.ready,
           proc' = [proc EXCEPT ![i] = q], processes' = processes
    PROVE  ProcessesGrow /\ ProcessesSound'
<1>1. proc'[i] = q /\ \A j \in ProcessId \ {i} : proc'[j] = proc[j]
  BY DEF PmInv, ProcessesOK
<1>2. ProcessesGrow
  BY <1>1 DEF ProcessesGrow
<1>3. \A n \in Name : processes[n] # None => ProcessOf(processes[n], n)'
  BY <1>2, Lasting DEF ReadyInv, PmInv, ProcessesOK
<1>4. \A j \in ProcessId : proc'[j].ready => proc'[j].phase # "free"
  BY <1>1 DEF ReadyInv
<1>5. QED
  BY <1>2, <1>3, <1>4 DEF ProcessesSound, ProcessOf

LEMMA ProcessEventReady ==
    ASSUME PmInv, ReadyInv, NEW i \in ProcessId, NEW q \in Process,
           proc[i].phase # "free", q.phase # "free",
           q.name = proc[i].name, proc[i].ready => q.ready,
           proc' = [proc EXCEPT ![i] = q], UNCHANGED <<starts, processes>>
    PROVE  ReadyInv'
<1>1. ProcessesGrow /\ ProcessesSound'
  BY OneProcessGrows
<1>2. \A j \in StartId : Advances(j)
  BY DEF Advances
<1>3. \A j \in StartId : Sound(j)'
  BY <1>1, <1>2, StillSound
<1>4. QED
  BY <1>1, <1>3 DEF ReadyInv, ProcessesSound

LEMMA MetadataArrivesReady ==
    ASSUME PmInv, ReadyInv, NEW i \in ProcessId, MetadataArrives(i) PROVE ReadyInv'
<1> DEFINE q == [proc[i] EXCEPT !.asked = FALSE]
<1>1. proc[i] \in Process /\ proc[i].phase # "free"
  BY DEF MetadataArrives, Connected, PmInv, ProcessesOK
<1>2. /\ q \in Process /\ q.phase = proc[i].phase
      /\ q.name = proc[i].name /\ q.ready = proc[i].ready
  BY <1>1 DEF Process
<1>3. proc' = [proc EXCEPT ![i] = q] /\ UNCHANGED <<starts, processes>>
  BY <1>1 DEF MetadataArrives, PmInv, ProcessesOK, Process
<1> HIDE DEF q
<1>4. QED
  BY <1>1, <1>2, <1>3, ProcessEventReady

LEMMA StopReady ==
    ASSUME PmInv, ReadyInv, NEW n \in Name, Stop(n) PROVE ReadyInv'
<1> DEFINE i == processes[n]
           q == [proc[i] EXCEPT !.killed = TRUE]
<1>1. i \in ProcessId /\ proc[i].phase # "free"
  BY DEF Stop, PmInv, ProcessesOK, ReadyInv, ProcessOf
<1>2. proc[i] \in Process
  BY <1>1 DEF PmInv, ProcessesOK
<1>3. /\ q \in Process /\ q.phase = proc[i].phase
      /\ q.name = proc[i].name /\ q.ready = proc[i].ready
  BY <1>2 DEF Process
<1>4. proc' = [proc EXCEPT ![i] = q] /\ UNCHANGED <<starts, processes>>
  BY <1>1, <1>2 DEF Stop, PmInv, ProcessesOK, Process
<1> HIDE DEF q, i
<1>5. QED
  BY <1>1, <1>3, <1>4, ProcessEventReady

LEMMA ExitReady ==
    ASSUME PmInv, ReadyInv, NEW i \in ProcessId, Exit(i) PROVE ReadyInv'
<1> DEFINE q == [proc[i] EXCEPT !.phase = "gone", !.killed = FALSE,
                                !.events = {"exit", "disconnect"}]
<1>1. proc[i] \in Process /\ proc[i].phase = "up"
  BY DEF Exit, PmInv, ProcessesOK
<1>2. /\ q \in Process /\ q.phase = "gone"
      /\ q.name = proc[i].name /\ q.ready = proc[i].ready
  BY <1>1 DEF Process, Phase
<1>3. proc' = [proc EXCEPT ![i] = q] /\ UNCHANGED <<starts, processes>>
  BY <1>1 DEF Exit, PmInv, ProcessesOK, Process
<1> HIDE DEF q
<1>4. QED
  BY <1>1, <1>2, <1>3, ProcessEventReady

LEMMA AnnounceReady ==
    ASSUME PmInv, ReadyInv, NEW i \in ProcessId, NEW e \in {"exit", "disconnect"},
           Announce(i, e)
    PROVE  ReadyInv'
<1> DEFINE q == Ended(i, e)
<1>1. proc[i] \in Process /\ proc[i].phase = "gone"
  BY DEF Announce, PmInv, ProcessesOK, Process, Phase
<1>2. (proc[i].asked /\ e # "disconnect") \in BOOLEAN
  OBVIOUS
<1>3. /\ q \in Process /\ q.phase = proc[i].phase
      /\ q.name = proc[i].name /\ q.ready = proc[i].ready
  BY <1>1, <1>2 DEF Ended, Process, Phase
<1>4. proc' = [proc EXCEPT ![i] = q] /\ UNCHANGED <<starts, processes>>
  BY DEF Announce
<1> HIDE DEF q
<1>5. QED
  BY <1>1, <1>3, <1>4, ProcessEventReady

\* The ready event: the starts that wait for the process of their own name
\* return, and those that wait for a dependency take it off their list.
LEMMA ReadyEventReady ==
    ASSUME PmInv, ReadyInv, NEW i \in ProcessId, Ready(i) PROVE ReadyInv'
<1> DEFINE q == [proc[i] EXCEPT !.ready = TRUE, !.asked = TRUE]
<1>1. proc[i] \in Process /\ proc[i].phase = "up"
  BY DEF Ready, PmInv, ProcessesOK
<1>2. /\ q \in Process /\ q.phase = "up"
      /\ q.name = proc[i].name /\ q.ready = TRUE
  BY <1>1 DEF Process
<1>3. proc' = [proc EXCEPT ![i] = q] /\ processes' = processes
  BY <1>1 DEF Ready, PmInv, ProcessesOK, Process
<1> HIDE DEF q
<1>4. ProcessesGrow /\ ProcessesSound'
  BY <1>1, <1>2, <1>3, OneProcessGrows
<1>5. proc'[i].name = proc[i].name /\ proc'[i].ready
  BY <1>2, <1>3 DEF PmInv, ProcessesOK
<1>6. \A d : ProcessOf(i, d) => Signalled(d)'
  BY <1>5 DEF ProcessOf, Signalled
<1>7. \A d : Signalled(d) => Signalled(d)'
  BY <1>4, Lasting
<1>8. ASSUME NEW k \in StartId, starts'[k] # starts[k] PROVE Sound(k)' /\ Moves(k)
  <2>1. starts[k] \in Start /\ StartOK(starts[k]) /\ Sound(k)
    BY DEF PmInv, StartsOK, ReadyInv
  <2>2. \/ starts[k].on = i /\ starts[k].at = "wait" /\ starts'[k] = Returned(starts[k])
        \/ starts[k].on = i /\ starts[k].at = "ready" /\ starts'[k] = DependencyDone(starts[k])
    BY <1>8 DEF Ready
  <2>3. CASE starts[k].on = i /\ starts[k].at = "wait" /\ starts'[k] = Returned(starts[k])
    <3>1. /\ starts'[k].at = "done" /\ starts'[k].program = starts[k].program /\ starts'[k].name = starts[k].name
          /\ starts'[k].todo = starts[k].todo /\ starts'[k].fresh = starts[k].fresh
      BY <2>1, <2>3 DEF Start, Returned
    <3>2. PICK n : n = starts[k].name
      OBVIOUS
    <3>3. Signalled(n)'
      BY <1>6, <2>1, <2>3, <3>2 DEF Sound
    <3>4. Sound(k)'
      BY <1>7, <2>1, <2>3, <3>1 DEF Sound
    <3>5. Moves(k)
      BY <2>3, <3>1, <3>2, <3>3 DEF Moves, Pending
    <3>6. QED
      BY <3>4, <3>5
  <2>4. CASE starts[k].on = i /\ starts[k].at = "ready" /\ starts'[k] = DependencyDone(starts[k])
    <3>1. PICK d : d = Head(starts[k].todo)
      OBVIOUS
    <3>2. Signalled(d)'
      BY <1>6, <2>1, <2>4, <3>1 DEF Sound
    <3>3. QED
      BY <1>4, <2>4, <3>1, <3>2, DependencyDoneSound
  <2>5. QED
    BY <2>2, <2>3, <2>4
<1>9. \A j \in StartId : Advances(j)
  BY <1>8 DEF Advances
<1>10. \A j \in StartId : Sound(j)'
  BY <1>4, <1>8, <1>9, StillSound
<1>11. QED
  BY <1>4, <1>10 DEF ReadyInv, ProcessesSound

-----------------------------------------------------------------------------
LEMMA ReadyStep == PmInv /\ ReadyInv /\ [Next]_vars => ReadyInv'
<1> SUFFICES ASSUME PmInv, ReadyInv, [Next]_vars PROVE ReadyInv'
  OBVIOUS
<1>1. ASSUME NEW n \in Program, NEW as \in Named[n], NEW wait \in Waits, CallStart(n, as, wait)
      PROVE  ReadyInv'
  BY <1>1, CallStartReady, PmAssumption
<1>2. ASSUME NEW k \in StartId, Advance(k) PROVE ReadyInv'
  <2>1. CASE Refuse(k)
    BY <2>1, RefuseReady
  <2>2. CASE BeginDependencies(k)
    BY <2>2, BeginDependenciesReady
  <2>3. CASE BeginProcess(k)
    BY <2>3, SpawnReady DEF BeginProcess
  <2>4. CASE StartDependency(k)
    BY <2>4, StartDependencyReady
  <2>5. CASE AwaitDependency(k)
    BY <2>5, AwaitDependencyReady
  <2>6. CASE DependencyReturns(k)
    BY <2>6, DependencyReturnsReady
  <2>7. CASE DependenciesDone(k)
    BY <2>7, SpawnReady DEF DependenciesDone
  <2>8. CASE Built(k)
    BY <2>8, BuiltReady
  <2>9. QED
    BY <1>2, <2>1, <2>2, <2>3, <2>4, <2>5, <2>6, <2>7, <2>8 DEF Advance
<1>3. ASSUME NEW i \in ProcessId,
             Ready(i) \/ MetadataArrives(i) \/ Exit(i)
               \/ \E e \in {"exit", "disconnect"} : Announce(i, e)
      PROVE  ReadyInv'
  BY <1>3, ReadyEventReady, MetadataArrivesReady, ExitReady, AnnounceReady
<1>4. ASSUME NEW n \in Name, Stop(n) PROVE ReadyInv'
  BY <1>4, StopReady
<1>5. CASE UNCHANGED vars
  <2>1. UNCHANGED <<starts, proc, processes>>
    BY <1>5 DEF vars
  <2>2. \A j \in StartId : Advances(j)
    BY <2>1 DEF Advances
  <2>3. \A j \in StartId : Sound(j)'
    BY <2>1, <2>2, NothingGrows, StillSound
  <2>4. QED
    BY <2>1, <2>3, NothingGrows DEF ReadyInv, ProcessesSound
<1>6. QED
  BY <1>1, <1>2, <1>3, <1>4, <1>5 DEF Next

\* When no container had the name a program is started under, its process is
\* spawned only after every one of its dependencies has signalled ready: whoever started it, whatever
\* overlaps, crashes and restarts.
THEOREM DependenciesAreReady == Spec => []DependenciesReadyFirst
<1>1. ReadyInv => DependenciesReadyFirst
  <2> SUFFICES ASSUME ReadyInv, NEW k \in StartId, starts[k].fresh,
                      starts[k].at \in {"build", "wait", "done"},
                      NEW d \in ToSet(Dependencies[starts[k].program])
               PROVE  Signalled(d)
    BY DEF DependenciesReadyFirst, Signalled
  <2>1. Sound(k)
    BY DEF ReadyInv
  <2>2. starts[k].todo = <<>>
    BY <2>1 DEF Sound
  <2>3. d \notin ToSet(starts[k].todo)
    BY <2>2 DEF ToSet
  <2>4. QED
    BY <2>1, <2>3 DEF Sound
<1>2. QED
  BY <1>1, ReadyInit, ReadyStep, PmInvariant, PTL DEF Spec

-----------------------------------------------------------------------------
(***************************************************************************)
(* The lock file (Lockfile).                                               *)
(***************************************************************************)
Specifiers == DOMAIN graph.resolution
Steps == ({Regular, Dev} \X Specifiers) \union ({Member} \X Packages)
Ways == Seq(Steps)
WalkType ==
  [pkg : Packages \union {Unknown}, snapshot : Ways,
   at : {"adding", "members", "dependencies", "resolving", "done", "failed", "thrown"}]

\* A way goes through another, which may be the same.
Below(p, q) == Len(q) <= Len(p) /\ SubSeq(p, 1, Len(q)) = q
IsMember(p) == p # <<>> /\ Kind(p) = Member
Walks(p, at) == calls[p].at = at
InLock(key) == key \in DOMAIN lock
EntryPackage(p) == calls[Parent(p)].pkg

WalkTypes ==
  /\ graph \in Graphs
  /\ DOMAIN calls \subseteq Ways /\ \A p \in DOMAIN calls : calls[p] \in WalkType
  /\ aborted \in BOOLEAN /\ addFailed \in BOOLEAN /\ replaced \in BOOLEAN /\ failures \in 0..MaxFailures
  /\ announced \in [Packages -> Nat]
  /\ DOMAIN lock \subseteq Packages \union Specifiers
  /\ \A key \in DOMAIN lock : DOMAIN lock[key] \subseteq {Regular, Dev}
  /\ DOMAIN visited \subseteq DOMAIN calls /\ <<>> \in DOMAIN visited
  /\ \A s \in DOMAIN visited : visited[s] \subseteq Packages
  /\ addFailed => failures > 0

\* A call was reached by the calls that its way goes through, and each stands
\* where it may have made it.
Reached(p) ==
  /\ calls[p].snapshot \in DOMAIN visited
  /\ Walks(p, "resolving") => IsDependency(p)
  /\ IsMember(p) =>
       /\ calls[p].pkg = Specifier(p) /\ calls[p].snapshot = p
       /\ calls[Parent(p)].at \notin {"adding", "resolving"}
  /\ IsDependency(p) =>
       /\ calls[Parent(p)].at \notin {"adding", "members", "resolving"}
       /\ calls[p].snapshot = calls[Parent(p)].snapshot
       /\ calls[p].pkg \in {Unknown, graph.resolution[Specifier(p)]}
       /\ EntryPackage(p) \in Packages /\ InLock(EntryPackage(p))
       /\ Kind(p) \in DOMAIN graph.deps[EntryPackage(p)]
       /\ Specifier(p) \in graph.deps[EntryPackage(p)][Kind(p)]
  /\ calls[p].at \in {"adding", "members", "dependencies"} => calls[p].pkg \in Packages
  /\ Walks(p, "adding") => calls[p].pkg \in visited[calls[p].snapshot] /\ announced[calls[p].pkg] > 0
  /\ calls[p].at \in {"members", "dependencies"} => InLock(calls[p].pkg)
WalkTree ==
  /\ calls[<<>>].pkg = graph.root /\ calls[<<>>].snapshot = <<>> /\ graph.root \in visited[<<>>]
  /\ \A p \in DOMAIN calls : \A n \in 0..Len(p) : SubSeq(p, 1, n) \in DOMAIN calls
  /\ \A p \in DOMAIN calls : Reached(p)

\* The workspaces that a call has come to.
MembersUpTo(p, n) == {Append(p, <<Member, graph.members[calls[p].pkg][i]>>) : i \in 1..n}
MembersInTurn ==
  /\ \A p \in DOMAIN calls : Walks(p, "members") =>
       \E n \in 0..Len(graph.members[calls[p].pkg]) : Children(p) = MembersUpTo(p, n)
  /\ graph.root \notin Loaded /\ calls[<<>>].at \notin {"adding", "members", "thrown"} =>
       \A i \in DOMAIN graph.members[graph.root] : <<<<Member, graph.members[graph.root][i]>>>> \in DOMAIN calls

\* As long as nothing came between, what a call waits for is under way, and an
\* entry has the kinds of the call that made it.
Steady == ~addFailed /\ ~aborted /\ ~replaced
UnderWay(pkg) == InLock(pkg) \/ \E q \in DOMAIN calls : Walks(q, "adding") /\ calls[q].pkg = pkg
NoneFailed == \A p \in DOMAIN calls : calls[p].at \notin {"failed", "thrown"}
DoneBelow ==
  /\ \A p, q \in DOMAIN calls : Below(p, q) /\ Walks(q, "done") => Walks(p, "done")
  /\ \A p \in DOMAIN calls : IsMember(p) /\ Walks(Parent(p), "dependencies") => Walks(p, "done")
KindsInEntry ==
  \A p \in DOMAIN calls :
    /\ Walks(p, "dependencies") => KindsOf(p) \subseteq DOMAIN lock[calls[p].pkg]
    /\ IsDependency(p) => Kind(p) \in DOMAIN lock[EntryPackage(p)]
FoundUnderWay ==
  /\ \A p \in DOMAIN calls : IsMember(p) => UnderWay(calls[p].pkg)
  /\ \A s \in DOMAIN visited : \A pkg \in visited[s] : UnderWay(pkg)
  /\ \A key \in DOMAIN lock \ Loaded : \A k \in DOMAIN lock[key] : \A u \in DOMAIN lock[key][k] :
       UnderWay(lock[key][k][u])
WalksAreAwaited == Steady => NoneFailed /\ DoneBelow /\ KindsInEntry /\ FoundUnderWay

\* The call that made an entry, and what it has recorded.
Made(pkg, q) ==
  /\ calls[q].pkg = pkg
  /\ \/ Walks(q, "members") /\ lock[pkg] = Nothing
     \/ /\ calls[q].at \in {"dependencies", "done"}
        /\ DOMAIN lock[pkg] = KindsOf(q)
        /\ \A k \in KindsOf(q) : \A u \in graph.deps[pkg][k] : Append(q, <<k, u>>) \in DOMAIN calls
Recorded(p) ==
  LET u == Specifier(p)  entry == lock[EntryPackage(p)] IN
  IF graph.resolution[u] = Unknown THEN InLock(u)
  ELSE u \in DOMAIN entry[Kind(p)] /\ entry[Kind(p)][u] = graph.resolution[u]
EntriesAreMade ==
  Steady /\ failures = 0 =>
    /\ \A pkg \in Packages \ Loaded : InLock(pkg) => \E q \in DOMAIN calls : Made(pkg, q)
    /\ \A p \in DOMAIN calls : IsDependency(p) /\ ~Walks(p, "resolving") => Recorded(p)

\* Without nested workspaces one walk runs at a time, and its set `visited`
\* tells what is being added.
OneAtATime ==
  /\ ~replaced
  /\ \A pkg \in Packages : announced[pkg] <= 1 /\ (announced[pkg] > 0 => UnderWay(pkg))
  /\ \A p, q \in DOMAIN calls :
       Walks(p, "adding") /\ Walks(q, "adding") /\ calls[p].pkg = calls[q].pkg => p = q
  /\ \A p \in DOMAIN calls :
       /\ Walks(p, "adding") => ~Begun(calls[p].pkg)
       /\ Walks(p, "members") => p = <<>> /\ ~Begun(graph.root)
       /\ p # <<>> => ~Walks(<<>>, "adding") /\ InLock(graph.root)
       /\ p # <<>> /\ Walks(p, "adding") => calls[p].pkg # graph.root
OneVisited ==
  ~aborted =>
    \A p, q \in DOMAIN calls \ {<<>>} : ~Walks(p, "done") /\ ~Walks(q, "done") => calls[p].snapshot = calls[q].snapshot
OneWalk == ~NestedWorkspaces /\ ~addFailed => OneAtATime /\ OneVisited

\* What the lock had is not walked.
LoadedKept ==
  /\ LoadedIsKept
  /\ \A p \in DOMAIN calls :
       /\ calls[p].at \in {"adding", "members", "dependencies"} => calls[p].pkg \notin Loaded
       /\ IsDependency(p) => EntryPackage(p) \notin Loaded

LockInv == WalkTypes /\ WalkTree /\ MembersInTurn /\ WalksAreAwaited /\ EntriesAreMade /\ OneWalk

\* The beginning of a way.
LEMMA WayPrefix ==
  ASSUME NEW S, NEW p \in Seq(S), NEW n \in Nat, n <= Len(p)
  PROVE  /\ SubSeq(p, 1, n) \in Seq(S) /\ Len(SubSeq(p, 1, n)) = n
         /\ \A i \in 1..n : SubSeq(p, 1, n)[i] = p[i]
<1>1. 0 \in Nat /\ 0 <= n /\ 0 + 1 = 1 /\ n - 0 = n /\ \A i \in 1..n : 0 + i = i
  OBVIOUS
<1>2. /\ SubSeq(p, 0 + 1, n) \in Seq(S) /\ Len(SubSeq(p, 0 + 1, n)) = n - 0
      /\ \A i \in 1..(n - 0) : SubSeq(p, 0 + 1, n)[i] = p[0 + i]
  BY <1>1, PartOf
<1> QED
  BY <1>1, <1>2

\* A way and one more step.
LEMMA WayStep ==
  ASSUME NEW S, NEW p \in Seq(S), NEW s \in S
  PROVE  /\ Append(p, s) \in Seq(S) /\ Append(p, s) # <<>> /\ Append(p, s) # p
         /\ Parent(Append(p, s)) = p
         /\ Kind(Append(p, s)) = s[1] /\ Specifier(Append(p, s)) = s[2]
         /\ Len(Append(p, s)) = Len(p) + 1
         /\ \A n \in 0..Len(p) : SubSeq(Append(p, s), 1, n) = SubSeq(p, 1, n)
         /\ SubSeq(Append(p, s), 1, Len(p) + 1) = Append(p, s)
<1>1. PICK m \in Nat : m = Len(p)
  BY LenProperties
<1>2. PICK t : t = Append(p, s)
  OBVIOUS
<1>3. t \in Seq(S) /\ t # <<>> /\ Len(t) = m + 1 /\ (\A i \in 1..m : t[i] = p[i]) /\ t[m + 1] = s
  <2>1. /\ Append(p, s) \in Seq(S) /\ Append(p, s) # <<>> /\ Len(Append(p, s)) = Len(p) + 1
        /\ (\A i \in 1..Len(p) : Append(p, s)[i] = p[i]) /\ Append(p, s)[Len(p) + 1] = s
    BY AppendProperties
  <2> QED
    BY <2>1, <1>1, <1>2
<1>4. \A n \in 0..m : SubSeq(t, 1, n) = SubSeq(p, 1, n)
  <2> SUFFICES ASSUME NEW n \in 0..m
               PROVE  SubSeq(t, 1, n) = SubSeq(p, 1, n)
    OBVIOUS
  <2>1. n \in Nat /\ n <= m /\ n <= m + 1 /\ \A i \in 1..n : i \in 1..m
    BY <1>1
  <2>2. /\ SubSeq(t, 1, n) \in Seq(S) /\ Len(SubSeq(t, 1, n)) = n
        /\ \A i \in 1..n : SubSeq(t, 1, n)[i] = t[i]
    BY <1>3, <2>1, WayPrefix
  <2>3. /\ SubSeq(p, 1, n) \in Seq(S) /\ Len(SubSeq(p, 1, n)) = n
        /\ \A i \in 1..n : SubSeq(p, 1, n)[i] = p[i]
    BY <1>1, <2>1, WayPrefix
  <2> QED
    BY <2>1, <2>2, <2>3, <1>3, SeqEqual
<1>5. SubSeq(p, 1, m) = p
  <2>1. /\ SubSeq(p, 1, m) \in Seq(S) /\ Len(SubSeq(p, 1, m)) = m
        /\ \A i \in 1..m : SubSeq(p, 1, m)[i] = p[i]
    <3>1. m <= Len(p)
      BY <1>1
    <3> QED
      BY <3>1, WayPrefix
  <2> QED
    BY <2>1, <1>1, SeqEqual
<1>6. SubSeq(t, 1, m + 1) = t
  <2>1. /\ SubSeq(t, 1, m + 1) \in Seq(S) /\ Len(SubSeq(t, 1, m + 1)) = m + 1
        /\ \A i \in 1..(m + 1) : SubSeq(t, 1, m + 1)[i] = t[i]
    <3>1. m + 1 \in Nat /\ m + 1 <= Len(t)
      BY <1>1, <1>3
    <3> QED
      BY <3>1, <1>3, WayPrefix
  <2> QED
    BY <2>1, <1>3, SeqEqual
<1>7. m \in 0..m /\ m + 1 - 1 = m
  BY <1>1
<1>8. Parent(t) = p
  BY <1>3, <1>4, <1>5, <1>7 DEF Parent
<1>9. Kind(t) = s[1] /\ Specifier(t) = s[2]
  BY <1>3 DEF Kind, Specifier
<1>10. t # p
  <2>1. m + 1 # m
    BY <1>1
  <2> QED
    BY <2>1, <1>1, <1>3
<1> QED
  BY <1>1, <1>2, <1>3, <1>4, <1>6, <1>8, <1>9, <1>10, Zenon

\* A way without its last step.
LEMMA WayBack ==
  ASSUME NEW S, NEW p \in Seq(S), p # <<>>
  PROVE  /\ Parent(p) \in Seq(S) /\ p[Len(p)] \in S /\ p = Append(Parent(p), p[Len(p)])
         /\ Len(p) \in Nat /\ Len(p) >= 1 /\ Len(Parent(p)) = Len(p) - 1
<1>1. Parent(p) = Front(p)
  BY DEF Parent, Front
<1>2. PICK n \in Nat : n = Len(p) /\ n >= 1
  BY FrontOf
<1>3. PICK f : f = Parent(p)
  OBVIOUS
<1>4. f \in Seq(S) /\ Len(f) = n - 1 /\ p[n] \in S /\ \A i \in 1..n - 1 : f[i] = p[i]
  BY <1>1, <1>2, <1>3, FrontOf
<1>5. p = Append(f, p[n])
  <2>1. /\ Append(f, p[n]) \in Seq(S) /\ Len(Append(f, p[n])) = Len(f) + 1
        /\ Append(f, p[n])[Len(f) + 1] = p[n] /\ \A i \in 1..Len(f) : Append(f, p[n])[i] = f[i]
    BY <1>4, AppendProperties
  <2>2. Len(f) + 1 = n /\ \A i \in 1..n : i \in 1..(n - 1) \/ i = n
    BY <1>2, <1>4
  <2>3. \A i \in 1..n : Append(f, p[n])[i] = p[i]
    BY <2>1, <2>2, <1>4
  <2> QED
    BY <2>1, <2>2, <2>3, <1>2, SeqEqual
<1> QED
  BY <1>2, <1>3, <1>4, <1>5

\* What a way goes through.
LEMMA WayBelow ==
  ASSUME NEW S, NEW p \in Seq(S), NEW q \in Seq(S)
  PROVE  /\ Below(p, p) /\ Below(p, <<>>) /\ (Below(<<>>, q) => q = <<>>)
         /\ \A s \in S : Below(Append(p, s), q) <=> (q = Append(p, s) \/ Below(p, q))
         /\ Below(p, q) => Len(q) \in 0..Len(p) /\ q = SubSeq(p, 1, Len(q))
         /\ Below(p, q) /\ p # q =>
              LET c == SubSeq(p, 1, Len(q) + 1) IN
              Len(q) + 1 \in 0..Len(p) /\ c # <<>> /\ Parent(c) = q /\ Below(p, c)
<1>1. PICK m \in Nat : m = Len(p)
  BY LenProperties
<1>2. PICK n \in Nat : n = Len(q)
  BY LenProperties
<1>3. \A t \in Seq(S) : SubSeq(t, 1, Len(t)) = t
  <2> SUFFICES ASSUME NEW t \in Seq(S)
               PROVE  SubSeq(t, 1, Len(t)) = t
    OBVIOUS
  <2>1. PICK k \in Nat : k = Len(t)
    BY LenProperties
  <2>2. /\ SubSeq(t, 1, k) \in Seq(S) /\ Len(SubSeq(t, 1, k)) = k
        /\ \A i \in 1..k : SubSeq(t, 1, k)[i] = t[i]
    <3>1. k <= Len(t)
      BY <2>1
    <3> QED
      BY <3>1, WayPrefix
  <2> QED
    BY <2>1, <2>2, SeqEqual
<1>4. <<>> \in Seq(S) /\ Len(<<>>) = 0
  BY EmptySeq
<1>5. \A t \in Seq(S) : Len(t) = 0 => t = <<>>
  BY EmptySeq
<1>6. Below(p, p)
  <2>1. Len(p) <= Len(p)
    BY <1>1
  <2> QED
    BY <2>1, <1>3 DEF Below
<1>7. Below(p, <<>>)
  <2>1. 0 <= Len(p) /\ 0 \in Nat
    BY <1>1
  <2>2. SubSeq(p, 1, 0) \in Seq(S) /\ Len(SubSeq(p, 1, 0)) = 0
    BY <2>1, WayPrefix
  <2> QED
    BY <2>1, <2>2, <1>4, <1>5 DEF Below
<1>8. Below(<<>>, q) => q = <<>>
  <2>1. n <= 0 => n = 0
    BY <1>2
  <2> QED
    BY <2>1, <1>2, <1>4, <1>5 DEF Below
<1>9. ASSUME NEW s \in S
      PROVE  Below(Append(p, s), q) <=> (q = Append(p, s) \/ Below(p, q))
  <2>1. PICK t : t = Append(p, s)
    OBVIOUS
  <2>2. /\ t \in Seq(S) /\ Len(t) = m + 1 /\ (\A k \in 0..m : SubSeq(t, 1, k) = SubSeq(p, 1, k))
        /\ SubSeq(t, 1, m + 1) = t
    BY <2>1, <1>1, WayStep
  <2>3. CASE n <= m
    <3>1. n \in 0..m /\ n <= m + 1 /\ n # m + 1
      BY <2>3, <1>1, <1>2
    <3>2. q # t
      BY <3>1, <2>2, <1>2
    <3>3. Below(t, q) <=> SubSeq(p, 1, n) = q
      BY <3>1, <2>2, <1>2 DEF Below
    <3>4. Below(p, q) <=> SubSeq(p, 1, n) = q
      BY <2>3, <1>1, <1>2 DEF Below
    <3> QED
      BY <3>2, <3>3, <3>4, <2>1
  <2>4. CASE n = m + 1
    <3>1. n <= m + 1 /\ ~(n <= m)
      BY <2>4, <1>1, <1>2
    <3>2. Below(t, q) <=> t = q
      BY <3>1, <2>4, <2>2, <1>2 DEF Below
    <3>3. ~Below(p, q)
      BY <3>1, <1>1, <1>2 DEF Below
    <3> QED
      BY <3>2, <3>3, <2>1
  <2>5. CASE n > m + 1
    <3>1. ~(n <= m + 1) /\ ~(n <= m) /\ n # m + 1
      BY <2>5, <1>1, <1>2
    <3> QED
      BY <3>1, <2>1, <2>2, <1>1, <1>2 DEF Below
  <2> QED
    BY <2>3, <2>4, <2>5, <1>1, <1>2
<1>10. Below(p, q) => Len(q) \in 0..Len(p) /\ q = SubSeq(p, 1, Len(q))
  BY <1>1, <1>2 DEF Below
<1>11. ASSUME Below(p, q), p # q
       PROVE  LET c == SubSeq(p, 1, Len(q) + 1) IN
              Len(q) + 1 \in 0..Len(p) /\ c # <<>> /\ Parent(c) = q /\ Below(p, c)
  <2>1. n <= m /\ SubSeq(p, 1, n) = q
    BY <1>11, <1>1, <1>2 DEF Below
  <2>2. n # m
    BY <2>1, <1>11, <1>1, <1>3
  <2>3. n + 1 \in Nat /\ n + 1 <= m /\ n + 1 - 1 = n /\ n + 1 # 0 /\ n + 1 \in 0..m /\ n <= n + 1
        /\ \A i \in 1..n : i \in 1..(n + 1) /\ i \in 1..m
    <3>1. n <= m /\ n # m
      BY <2>1, <2>2
    <3> QED
      BY <3>1, <1>1, <1>2
  <2>4. PICK c : c = SubSeq(p, 1, n + 1)
    OBVIOUS
  <2>5. c \in Seq(S) /\ Len(c) = n + 1 /\ \A i \in 1..(n + 1) : c[i] = p[i]
    BY <2>3, <2>4, <1>1, WayPrefix
  <2>6. c # <<>>
    BY <2>5, <2>3, <1>4
  <2>7. /\ SubSeq(c, 1, n) \in Seq(S) /\ Len(SubSeq(c, 1, n)) = n
        /\ \A i \in 1..n : SubSeq(c, 1, n)[i] = c[i]
    BY <2>3, <2>5, WayPrefix
  <2>8. \A i \in 1..n : q[i] = p[i]
    BY <2>1, <1>1, WayPrefix
  <2>9. SubSeq(c, 1, n) = q
    BY <2>3, <2>5, <2>7, <2>8, <1>2, SeqEqual
  <2>10. Parent(c) = q
    BY <2>9, <2>3, <2>5 DEF Parent
  <2>11. Below(p, c)
    BY <2>3, <2>4, <2>5, <1>1 DEF Below
  <2> QED
    BY <2>3, <2>4, <2>6, <2>10, <2>11, <1>1, <1>2
<1> QED
  BY <1>6, <1>7, <1>8, <1>9, <1>10, <1>11

\* The function without arguments.
LEMMA NothingIs == DOMAIN Nothing = {}
BY DEF Nothing

\* What a graph is.
LEMMA GraphFacts ==
  ASSUME WalkTypes
  PROVE  /\ graph.root \in Packages /\ Unknown \notin Packages
         /\ \A pkg \in Packages :
              /\ DOMAIN graph.deps[pkg] \subseteq {Regular, Dev}
              /\ \A k \in DOMAIN graph.deps[pkg] : graph.deps[pkg][k] \subseteq Specifiers
              /\ graph.members[pkg] \in Seq(Packages)
              /\ \A i, j \in DOMAIN graph.members[pkg] : graph.members[pkg][i] = graph.members[pkg][j] => i = j
         /\ \A u \in Specifiers :
              IF u \in Packages THEN graph.resolution[u] = u ELSE graph.resolution[u] \in Packages \union {Unknown}
BY LockAssumption DEF WalkTypes, Packages, Specifiers

\* What depends on the graph stays with it.
LEMMA SameGraph ==
  ASSUME graph' = graph
  PROVE  /\ Packages' = Packages /\ Loaded' = Loaded /\ Specifiers' = Specifiers /\ Steps' = Steps /\ Ways' = Ways
         /\ WalkType' = WalkType
BY DEF Packages, Loaded, Specifiers, Steps, Ways, WalkType

\* Where a call is in the tree.
LEMMA CallFacts ==
  ASSUME WalkTypes, WalkTree
  PROVE  /\ <<>> \in DOMAIN calls /\ <<>> \in Ways
         /\ \A p \in DOMAIN calls :
              /\ p \in Ways /\ calls[p] \in WalkType
              /\ p # <<>> =>
                   /\ Parent(p) \in DOMAIN calls /\ p # Parent(p)
                   /\ p = Append(Parent(p), <<Kind(p), Specifier(p)>>) /\ <<Kind(p), Specifier(p)>> \in Steps
              /\ p = <<>> \/ IsDependency(p) \/ IsMember(p)
              /\ IsDependency(p) => p # <<>> /\ ~IsMember(p) /\ Kind(p) \in {Regular, Dev} /\ Specifier(p) \in Specifiers
              /\ IsMember(p) => p # <<>> /\ ~IsDependency(p) /\ Kind(p) = Member /\ Specifier(p) \in Packages
<1>1. <<>> \in DOMAIN calls
  BY DEF WalkTypes
<1>2. <<>> \in Ways /\ \A p \in DOMAIN calls : p \in Ways /\ calls[p] \in WalkType
  BY <1>1 DEF WalkTypes
<1>3. ASSUME NEW p \in DOMAIN calls, p # <<>>
      PROVE  /\ Parent(p) \in DOMAIN calls /\ p # Parent(p)
             /\ p = Append(Parent(p), <<Kind(p), Specifier(p)>>) /\ <<Kind(p), Specifier(p)>> \in Steps
             /\ IsDependency(p) => Kind(p) \in {Regular, Dev} /\ Specifier(p) \in Specifiers
             /\ IsMember(p) => Specifier(p) \in Packages
  <2>1. p \in Seq(Steps)
    BY <1>2 DEF Ways
  <2>2. PICK n \in Nat : n = Len(p) /\ n >= 1
    BY <2>1, <1>3, WayBack
  <2>3. PICK f : f = Parent(p)
    OBVIOUS
  <2>4. PICK s : s = p[n]
    OBVIOUS
  <2>5. f \in Seq(Steps) /\ s \in Steps /\ p = Append(f, s) /\ Len(f) = n - 1
    BY <2>1, <2>2, <2>3, <2>4, <1>3, WayBack
  <2>6. f \in DOMAIN calls
    <3>1. n - 1 \in 0..Len(p)
      BY <2>2
    <3>2. f = SubSeq(p, 1, n - 1)
      BY <2>2, <2>3 DEF Parent
    <3> QED
      BY <3>1, <3>2 DEF WalkTree
  <2>7. s = <<s[1], s[2]>> /\ s[1] \in {Regular, Dev, Member}
        /\ (s[1] # Member => s[1] \in {Regular, Dev} /\ s[2] \in Specifiers) /\ (s[1] = Member => s[2] \in Packages)
    BY <2>5 DEF Steps, Regular, Dev, Member
  <2>8. Kind(p) = s[1] /\ Specifier(p) = s[2]
    BY <2>2, <2>4 DEF Kind, Specifier
  <2>9. p # f
    BY <2>5, WayStep
  <2>10. (IsDependency(p) => Kind(p) # Member) /\ (IsMember(p) => Kind(p) = Member)
    BY DEF IsDependency, IsMember, Kind
  <2> QED
    BY <2>3, <2>5, <2>6, <2>7, <2>8, <2>9, <2>10
<1>4. \A p \in DOMAIN calls :
        /\ p = <<>> \/ IsDependency(p) \/ IsMember(p)
        /\ IsDependency(p) => p # <<>> /\ ~IsMember(p)
        /\ IsMember(p) => p # <<>> /\ ~IsDependency(p) /\ Kind(p) = Member
  BY DEF IsDependency, IsMember, Kind
<1> QED
  BY <1>1, <1>2, <1>3, <1>4

\* A call below another was reached through a child of it.
LEMMA ThroughAChild ==
  ASSUME WalkTypes, WalkTree, NEW p \in DOMAIN calls, NEW q \in Ways, Below(p, q)
  PROVE  /\ q \in DOMAIN calls
         /\ p # q => \E c \in DOMAIN calls : c # <<>> /\ Parent(c) = q /\ Below(p, c)
<1>1. p \in Seq(Steps) /\ q \in Seq(Steps)
  BY CallFacts DEF Ways
<1>2. \A n \in 0..Len(p) : SubSeq(p, 1, n) \in DOMAIN calls
  BY DEF WalkTree
<1>3. q \in DOMAIN calls
  <2>1. Len(q) \in 0..Len(p) /\ q = SubSeq(p, 1, Len(q))
    BY <1>1, WayBelow
  <2> QED
    BY <2>1, <1>2
<1>4. ASSUME p # q
      PROVE  \E c \in DOMAIN calls : c # <<>> /\ Parent(c) = q /\ Below(p, c)
  <2>1. PICK c : c = SubSeq(p, 1, Len(q) + 1)
    OBVIOUS
  <2>2. Len(q) + 1 \in 0..Len(p) /\ c # <<>> /\ Parent(c) = q /\ Below(p, c)
    BY <2>1, <1>1, <1>4, WayBelow
  <2>3. c \in DOMAIN calls
    BY <2>1, <2>2, <1>2
  <2> QED
    BY <2>2, <2>3
<1> QED
  BY <1>3, <1>4

\* A call that resolves, or adds its package, has made no others.
LEMMA NoChildren ==
  ASSUME WalkTypes, WalkTree, NEW p \in DOMAIN calls, calls[p].at \in {"adding", "resolving"},
         NEW q \in DOMAIN calls, q # <<>>
  PROVE  Parent(q) # p
<1>1. IsDependency(q) \/ IsMember(q)
  BY CallFacts
<1>2. calls[Parent(q)].at \notin {"adding", "resolving"}
  BY <1>1 DEF WalkTree, Reached
<1> QED
  BY <1>2

\* A call that goes on, as it is.
LEMMA GoesOn ==
  ASSUME WalkTypes, NEW p \in DOMAIN calls,
         NEW to \in {"adding", "members", "dependencies", "resolving", "done", "failed", "thrown"}
  PROVE  /\ DOMAIN Goes(p, to) = DOMAIN calls
         /\ Goes(p, to)[p] \in WalkType
         /\ Goes(p, to)[p].pkg = calls[p].pkg /\ Goes(p, to)[p].snapshot = calls[p].snapshot
         /\ Goes(p, to)[p].at = to
         /\ \A q \in DOMAIN calls : q # p => Goes(p, to)[q] = calls[q]
<1>1. PICK c : c = calls[p]
  OBVIOUS
<1>2. c \in WalkType
  BY <1>1 DEF WalkTypes
<1> DEFINE d == [c EXCEPT !.at = to]
<1>3. d \in WalkType /\ d.pkg = c.pkg /\ d.snapshot = c.snapshot /\ d.at = to
  BY <1>2 DEF WalkType
<1> HIDE DEF d
<1>4. Goes(p, to) = [calls EXCEPT ![p] = d]
  BY <1>1 DEF Goes, d
<1> QED
  BY <1>1, <1>3, <1>4

\* A step after which the entries have the kinds they had, and new ones none.
LockKeeps ==
  /\ \A key \in DOMAIN lock :
       key \in DOMAIN lock' /\ DOMAIN lock'[key] = DOMAIN lock[key] /\ (lock[key] = Nothing => lock'[key] = Nothing)
  /\ \A key \in DOMAIN lock' : key \notin DOMAIN lock => lock'[key] = Nothing /\ key \in Specifiers

\* A step with which a call ends.
CallEnds(p) ==
  /\ DOMAIN calls' = DOMAIN calls
  /\ \A q \in DOMAIN calls : q # p => calls'[q] = calls[q]
  /\ calls'[p] \in WalkType /\ calls'[p].pkg = calls[p].pkg /\ calls'[p].snapshot = calls[p].snapshot
  /\ ~Walks(p, "done") /\ calls'[p].at \in {"done", "failed", "thrown"}
  /\ p = <<>> => calls'[p].at = "thrown" \/ Walks(p, "dependencies")
  /\ LockKeeps
  /\ UNCHANGED <<graph, visited, announced, aborted, replaced>>

\* What an edge changes in the lock.
LEMMA WithEdgeIs ==
  ASSUME NEW p, InLock(EntryPackage(p)), HasKind(p), NEW key, NEW edged, edged = WithEdge(p, key)
  PROVE  /\ DOMAIN edged = DOMAIN lock
         /\ \A x \in DOMAIN lock :
              DOMAIN edged[x] = DOMAIN lock[x] /\ (lock[x] = Nothing => edged[x] = Nothing)
         /\ \A x \in DOMAIN lock : \A k \in DOMAIN lock[x] :
              x # EntryPackage(p) \/ k # Kind(p) => edged[x][k] = lock[x][k]
         /\ LET x == EntryPackage(p)  k == Kind(p)  u == Specifier(p) IN
              /\ DOMAIN edged[x][k] = DOMAIN lock[x][k] \union {u} /\ edged[x][k][u] = key
              /\ \A v \in DOMAIN lock[x][k] : v # u => edged[x][k][v] = lock[x][k][v]
<1>1. PICK x : x = EntryPackage(p)
  OBVIOUS
<1>2. PICK k : k = Kind(p)
  OBVIOUS
<1>3. PICK u : u = Specifier(p)
  OBVIOUS
<1>4. PICK e : e = lock[x]
  OBVIOUS
<1>5. x \in DOMAIN lock /\ k \in DOMAIN e
  BY <1>1, <1>2, <1>4 DEF InLock, HasKind, EntryPackage
<1>6. PICK g : g = Set(e[k], u, key)
  OBVIOUS
<1>7. DOMAIN g = DOMAIN e[k] \union {u} /\ g[u] = key /\ \A v \in DOMAIN e[k] : v # u => g[v] = e[k][v]
  BY <1>6 DEF Set, Update
<1>8. PICK h : h = Set(e, k, g)
  OBVIOUS
<1>9. DOMAIN h = DOMAIN e \union {k} /\ h[k] = g /\ \A j \in DOMAIN e : j # k => h[j] = e[j]
  BY <1>8 DEF Set, Update
<1>10. edged = Set(lock, x, h)
  BY <1>1, <1>2, <1>3, <1>4, <1>6, <1>8 DEF WithEdge, EntryPackage
<1>11. DOMAIN edged = DOMAIN lock \union {x} /\ edged[x] = h /\ \A y \in DOMAIN lock : y # x => edged[y] = lock[y]
  BY <1>10 DEF Set, Update
<1>12. DOMAIN edged = DOMAIN lock /\ DOMAIN h = DOMAIN e
  BY <1>5, <1>9, <1>11
<1>13. e # Nothing
  BY <1>5, NothingIs
<1>14. \A y \in DOMAIN lock : DOMAIN edged[y] = DOMAIN lock[y] /\ (lock[y] = Nothing => edged[y] = Nothing)
  BY <1>4, <1>11, <1>12, <1>13
<1>15. \A y \in DOMAIN lock : \A j \in DOMAIN lock[y] : y # x \/ j # k => edged[y][j] = lock[y][j]
  BY <1>4, <1>9, <1>11
<1>16. edged[x][k] = g
  BY <1>9, <1>11
<1> QED
  BY <1>1, <1>2, <1>3, <1>4, <1>7, <1>12, <1>14, <1>15, <1>16

\* What the catch of a task does.
LEMMA CatchKeeps ==
  ASSUME WalkTypes, WalkTree, NEW p \in DOMAIN calls, IsDependency(p), NEW key,
         Catch(p, lock) \/ Catch(p, WithEdge(p, key))
  PROVE  /\ LockKeeps
         /\ DOMAIN calls' = DOMAIN calls
         /\ \A q \in DOMAIN calls : q # p => calls'[q] = calls[q]
         /\ calls'[p] \in WalkType /\ calls'[p].pkg = calls[p].pkg /\ calls'[p].snapshot = calls[p].snapshot
         /\ calls'[p].at \in {"done", "failed"} /\ (calls'[p].at = "done" <=> HasKind(p))
<1>1. InLock(EntryPackage(p)) /\ Specifier(p) \in Specifiers
  BY CallFacts DEF WalkTree, Reached
<1>2. calls' = Goes(p, IF HasKind(p) THEN "done" ELSE "failed")
  BY DEF Catch
<1>3. /\ DOMAIN calls' = DOMAIN calls
      /\ \A q \in DOMAIN calls : q # p => calls'[q] = calls[q]
      /\ calls'[p] \in WalkType /\ calls'[p].pkg = calls[p].pkg /\ calls'[p].snapshot = calls[p].snapshot
      /\ calls'[p].at \in {"done", "failed"} /\ (calls'[p].at = "done" <=> HasKind(p))
  <2>1. CASE HasKind(p)
    <3>1. calls' = Goes(p, "done")
      BY <2>1, <1>2
    <3> QED
      BY <2>1, <3>1, GoesOn
  <2>2. CASE ~HasKind(p)
    <3>1. calls' = Goes(p, "failed")
      BY <2>2, <1>2
    <3> QED
      BY <2>2, <3>1, GoesOn
  <2> QED
    BY <2>1, <2>2
<1>4. LockKeeps
  <2>1. CASE ~HasKind(p)
    <3>1. lock' = lock
      BY <2>1 DEF Catch
    <3> QED
      BY <3>1 DEF LockKeeps
  <2>2. ASSUME HasKind(p), NEW locked, lock' = Update([k \in {Specifier(p)} |-> Nothing], locked),
               DOMAIN locked = DOMAIN lock,
               \A x \in DOMAIN lock : DOMAIN locked[x] = DOMAIN lock[x] /\ (lock[x] = Nothing => locked[x] = Nothing)
        PROVE  LockKeeps
    <3>1. /\ DOMAIN lock' = DOMAIN locked \union {Specifier(p)}
          /\ \A x \in DOMAIN locked : lock'[x] = locked[x]
          /\ Specifier(p) \notin DOMAIN locked => lock'[Specifier(p)] = Nothing
      BY <2>2 DEF Update
    <3> QED
      BY <3>1, <2>2, <1>1 DEF LockKeeps
  <2>3. CASE HasKind(p) /\ Catch(p, lock)
    <3>1. lock' = Update([k \in {Specifier(p)} |-> Nothing], lock)
      BY <2>3 DEF Catch
    <3> QED
      BY <3>1, <2>2, <2>3
  <2>4. CASE HasKind(p) /\ Catch(p, WithEdge(p, key))
    <3>1. PICK locked : locked = WithEdge(p, key)
      OBVIOUS
    <3>2. lock' = Update([k \in {Specifier(p)} |-> Nothing], locked)
      BY <2>4, <3>1 DEF Catch
    <3>3. /\ DOMAIN locked = DOMAIN lock
          /\ \A x \in DOMAIN lock :
               DOMAIN locked[x] = DOMAIN lock[x] /\ (lock[x] = Nothing => locked[x] = Nothing)
      BY <3>1, <2>4, <1>1, WithEdgeIs
    <3> QED
      BY <3>2, <3>3, <2>2, <2>4
  <2> QED
    BY <2>1, <2>3, <2>4
<1> QED
  BY <1>3, <1>4

\* A step with which a call ends keeps the types, the tree and the turns.
LEMMA EndsTypes ==
  ASSUME WalkTypes, NEW p \in DOMAIN calls, CallEnds(p), addFailed' \in BOOLEAN, failures' \in 0..MaxFailures,
         addFailed' => failures' > 0
  PROVE  WalkTypes'
<1>1. /\ Packages' = Packages /\ Loaded' = Loaded /\ Specifiers' = Specifiers /\ Ways' = Ways /\ WalkType' = WalkType
      /\ graph' = graph /\ visited' = visited /\ announced' = announced /\ aborted' = aborted /\ replaced' = replaced
  BY SameGraph DEF CallEnds
<1>2. DOMAIN lock' \subseteq Packages \union Specifiers
  BY DEF WalkTypes, CallEnds, LockKeeps
<1>3. ASSUME NEW key \in DOMAIN lock'
      PROVE  DOMAIN lock'[key] \subseteq {Regular, Dev}
  <2>1. CASE key \in DOMAIN lock
    BY <2>1 DEF WalkTypes, CallEnds, LockKeeps
  <2>2. CASE key \notin DOMAIN lock
    BY <2>2, <1>3, NothingIs DEF CallEnds, LockKeeps
  <2> QED
    BY <2>1, <2>2
<1>4. DOMAIN calls' = DOMAIN calls /\ \A q \in DOMAIN calls : calls'[q] \in WalkType
  BY DEF WalkTypes, CallEnds
<1> QED
  BY <1>1, <1>2, <1>3, <1>4 DEF WalkTypes

\* What a call rests on stays when neither it nor the call above it moves back.
LEMMA ReachedStays ==
  ASSUME WalkTypes, WalkTree, graph' = graph, NEW q \in DOMAIN calls, calls'[q] = calls[q],
         q # <<>> =>
           /\ calls'[Parent(q)].pkg = calls[Parent(q)].pkg
           /\ calls'[Parent(q)].snapshot = calls[Parent(q)].snapshot
           /\ calls'[Parent(q)].at \in {calls[Parent(q)].at, "dependencies", "done", "failed", "thrown"},
         \A key \in DOMAIN lock : key \in DOMAIN lock',
         \A s \in DOMAIN visited : s \in DOMAIN visited' /\ visited[s] \subseteq visited'[s],
         \A pkg \in Packages : announced[pkg] > 0 => announced'[pkg] > 0
  PROVE  Reached(q)'
<1>1. Reached(q)
  BY DEF WalkTree
<1>2. Packages' = Packages
  BY SameGraph
<1>3. (IsDependency(q) => q # <<>>) /\ (IsMember(q) => q # <<>>)
  BY CallFacts
<1> USE <1>1, <1>2, <1>3 DEF Reached, Walks, InLock, EntryPackage
<1>4. (calls[q].snapshot \in DOMAIN visited)' /\ (Walks(q, "resolving") => IsDependency(q))'
  OBVIOUS
<1>5. (IsMember(q) =>
         /\ calls[q].pkg = Specifier(q) /\ calls[q].snapshot = q
         /\ calls[Parent(q)].at \notin {"adding", "resolving"})'
  OBVIOUS
<1>6. (IsDependency(q) =>
         /\ calls[Parent(q)].at \notin {"adding", "members", "resolving"}
         /\ calls[q].snapshot = calls[Parent(q)].snapshot
         /\ calls[q].pkg \in {Unknown, graph.resolution[Specifier(q)]}
         /\ EntryPackage(q) \in Packages /\ InLock(EntryPackage(q))
         /\ Kind(q) \in DOMAIN graph.deps[EntryPackage(q)]
         /\ Specifier(q) \in graph.deps[EntryPackage(q)][Kind(q)])'
  OBVIOUS
<1>7. (calls[q].at \in {"adding", "members", "dependencies"} => calls[q].pkg \in Packages)'
  OBVIOUS
<1>8. (Walks(q, "adding") => calls[q].pkg \in visited[calls[q].snapshot] /\ announced[calls[q].pkg] > 0)'
  OBVIOUS
<1>9. (calls[q].at \in {"members", "dependencies"} => InLock(calls[q].pkg))'
  OBVIOUS
<1> QED
  BY <1>4, <1>5, <1>6, <1>7, <1>8, <1>9

\* The calls that are left stand where they may have made theirs.
LEMMA EndsTree ==
  ASSUME WalkTypes, WalkTree, NEW p \in DOMAIN calls, CallEnds(p)
  PROVE  WalkTree'
<1>1. /\ graph' = graph /\ visited' = visited /\ announced' = announced /\ DOMAIN calls' = DOMAIN calls
      /\ calls'[p].pkg = calls[p].pkg /\ calls'[p].snapshot = calls[p].snapshot
      /\ calls'[p].at \in {"done", "failed", "thrown"}
      /\ \A q \in DOMAIN calls : q # p => calls'[q] = calls[q]
  BY DEF CallEnds
<1>2. \A key \in DOMAIN lock : key \in DOMAIN lock'
  BY DEF CallEnds, LockKeeps
<1>3. \A q \in DOMAIN calls :
        /\ calls'[q].pkg = calls[q].pkg /\ calls'[q].snapshot = calls[q].snapshot
        /\ calls'[q].at \in {calls[q].at, "dependencies", "done", "failed", "thrown"}
  BY <1>1
<1>4. ASSUME NEW q \in DOMAIN calls
      PROVE  Reached(q)'
  <2>1. q # <<>> => Parent(q) \in DOMAIN calls
    BY CallFacts
  <2>2. CASE q # p
    <3>1. calls'[q] = calls[q]
      BY <2>2, <1>1
    <3> QED
      BY <2>1, <3>1, <1>1, <1>2, <1>3, ReachedStays
  <2>3. CASE q = p
    <3>1. Reached(p)
      BY DEF WalkTree
    <3>2. (IsDependency(p) => p # <<>>) /\ (IsMember(p) => p # <<>>)
      BY CallFacts
    <3>3. Packages' = Packages
      BY <1>1, SameGraph
    <3>4. p # <<>> => /\ calls'[Parent(p)].pkg = calls[Parent(p)].pkg
                      /\ calls'[Parent(p)].snapshot = calls[Parent(p)].snapshot
                      /\ calls'[Parent(p)].at \in {calls[Parent(p)].at, "dependencies", "done", "failed", "thrown"}
      BY <2>1, <2>3, <1>3
    <3>5. (IsMember(p) =>
             /\ calls[p].pkg = Specifier(p) /\ calls[p].snapshot = p
             /\ calls[Parent(p)].at \notin {"adding", "resolving"})'
      BY <3>1, <3>2, <3>4, <1>1 DEF Reached
    <3>6. (IsDependency(p) =>
             /\ calls[Parent(p)].at \notin {"adding", "members", "resolving"}
             /\ calls[p].snapshot = calls[Parent(p)].snapshot
             /\ calls[p].pkg \in {Unknown, graph.resolution[Specifier(p)]}
             /\ EntryPackage(p) \in Packages /\ InLock(EntryPackage(p))
             /\ Kind(p) \in DOMAIN graph.deps[EntryPackage(p)]
             /\ Specifier(p) \in graph.deps[EntryPackage(p)][Kind(p)])'
      BY <3>1, <3>2, <3>3, <3>4, <1>1, <1>2 DEF Reached, InLock, EntryPackage
    <3>7. (calls[p].snapshot \in DOMAIN visited)'
      BY <3>1, <1>1 DEF Reached
    <3> QED
      BY <2>3, <3>5, <3>6, <3>7, <1>1 DEF Reached, Walks
  <2> QED
    BY <2>2, <2>3
<1>5. (calls[<<>>].pkg = graph.root /\ calls[<<>>].snapshot = <<>> /\ graph.root \in visited[<<>>])'
  <2>1. <<>> \in DOMAIN calls
    BY CallFacts
  <2> QED
    BY <2>1, <1>1, <1>3 DEF WalkTree
<1>6. (\A q \in DOMAIN calls : \A n \in 0..Len(q) : SubSeq(q, 1, n) \in DOMAIN calls)'
  BY <1>1 DEF WalkTree
<1> QED
  BY <1>1, <1>4, <1>5, <1>6 DEF WalkTree

\* The workspaces of the other calls stay in turn.
LEMMA EndsTurn ==
  ASSUME WalkTypes, WalkTree, MembersInTurn, NEW p \in DOMAIN calls, CallEnds(p)
  PROVE  MembersInTurn'
<1>1. /\ graph' = graph /\ DOMAIN calls' = DOMAIN calls
      /\ calls'[p].pkg = calls[p].pkg
      /\ calls'[p].at \in {"done", "failed", "thrown"}
      /\ \A q \in DOMAIN calls : q # p => calls'[q] = calls[q]
      /\ p = <<>> => calls'[p].at = "thrown" \/ Walks(p, "dependencies")
  BY DEF CallEnds
<1>2. \A q \in DOMAIN calls : Children(q)' = Children(q)
  BY <1>1 DEF Children
<1>3. ASSUME NEW q \in DOMAIN calls, calls'[q].at = "members"
      PROVE  \E n \in 0..Len(graph.members[calls[q].pkg]) :
               n \in 0..Len(graph'.members[calls'[q].pkg]) /\ Children(q)' = MembersUpTo(q, n)'
  <2>1. q # p /\ calls'[q] = calls[q]
    BY <1>1, <1>3
  <2>2. PICK n \in 0..Len(graph.members[calls[q].pkg]) : Children(q) = MembersUpTo(q, n)
    BY <2>1, <1>3 DEF MembersInTurn, Walks
  <2>3. MembersUpTo(q, n)' = MembersUpTo(q, n)
    BY <2>1, <1>1 DEF MembersUpTo
  <2> QED
    BY <2>1, <2>2, <2>3, <1>1, <1>2
<1>4. graph.root \notin Loaded /\ calls'[<<>>].at \notin {"adding", "members", "thrown"} =>
        \A i \in DOMAIN graph.members[graph.root] : <<<<Member, graph.members[graph.root][i]>>>> \in DOMAIN calls
  <2>1. <<>> \in DOMAIN calls
    BY CallFacts
  <2>2. calls'[<<>>].at \notin {"adding", "members", "thrown"} => calls[<<>>].at \notin {"adding", "members", "thrown"}
    BY <2>1, <1>1 DEF Walks
  <2> QED
    BY <2>2 DEF MembersInTurn, Loaded
<1>5. (\A q \in DOMAIN calls : Walks(q, "members") =>
         \E n \in 0..Len(graph.members[calls[q].pkg]) : Children(q) = MembersUpTo(q, n))'
  BY <1>1, <1>3 DEF Walks
<1> QED
  BY <1>1, <1>4, <1>5 DEF MembersInTurn, Loaded

\* What is under way stays so, as long as what is being added goes on or is in
\* the lock; and an entry that has no kinds gets none.
UnderWayNext(pkg) ==
  pkg \in DOMAIN lock' \/ \E q \in DOMAIN calls' : calls'[q].at = "adding" /\ calls'[q].pkg = pkg

\* A package stays under way: an addition ends with the entry of the package.
LEMMA UnderWayStays ==
  ASSUME \A key \in DOMAIN lock : key \in DOMAIN lock',
         \A q \in DOMAIN calls : Walks(q, "adding") =>
           /\ q \in DOMAIN calls' /\ calls'[q].pkg = calls[q].pkg
           /\ calls'[q].at = "adding" \/ calls[q].pkg \in DOMAIN lock',
         NEW pkg, UnderWay(pkg)
  PROVE  UnderWayNext(pkg)
<1>1. CASE InLock(pkg)
  BY <1>1 DEF UnderWayNext, InLock
<1>2. ASSUME NEW q \in DOMAIN calls, Walks(q, "adding"), calls[q].pkg = pkg
      PROVE  UnderWayNext(pkg)
  BY <1>2 DEF UnderWayNext, InLock, Walks
<1> QED
  BY <1>1, <1>2 DEF UnderWay

\* What is to be shown of a step for what was found to be under way.
LEMMA FoundUnderWayNext ==
  ASSUME graph' = graph,
         \A x \in DOMAIN calls' : IsMember(x) => UnderWayNext(calls'[x].pkg),
         \A s \in DOMAIN visited' : \A pkg \in visited'[s] : UnderWayNext(pkg),
         \A key \in DOMAIN lock' \ Loaded : \A k \in DOMAIN lock'[key] : \A u \in DOMAIN lock'[key][k] :
           UnderWayNext(lock'[key][k][u])
  PROVE  FoundUnderWay'
BY DEF FoundUnderWay, Loaded, UnderWay, UnderWayNext, InLock, Walks

\* An entry that has no kinds gets none by an edge.
LEMMA NotBegunStays ==
  ASSUME LockKeeps, NEW key, ~Begun(key)
  PROVE  ~Begun(key)'
BY DEF LockKeeps, Begun

\* What is awaited when a call ends with success and all below it is done.
LEMMA EndsAwaited ==
  ASSUME WalkTypes, WalkTree, WalksAreAwaited, NEW p \in DOMAIN calls, CallEnds(p), Steady' => Steady,
         Steady' =>
           /\ calls'[p].at = "done" /\ ~Walks(p, "adding")
           /\ \A x \in DOMAIN calls : Below(x, p) /\ x # p => Walks(x, "done")
           /\ \A key \in DOMAIN lock : \A k \in DOMAIN lock[key] : \A u \in DOMAIN lock'[key][k] :
                \/ UnderWayNext(lock'[key][k][u])
                \/ u \in DOMAIN lock[key][k] /\ lock'[key][k][u] = lock[key][k][u]
  PROVE  WalksAreAwaited'
<1> SUFFICES ASSUME Steady'
             PROVE  (NoneFailed /\ DoneBelow /\ KindsInEntry /\ FoundUnderWay)'
  BY DEF WalksAreAwaited
<1>1. NoneFailed /\ DoneBelow /\ KindsInEntry /\ FoundUnderWay
  BY DEF WalksAreAwaited
<1>2. /\ graph' = graph /\ visited' = visited /\ DOMAIN calls' = DOMAIN calls
      /\ \A q \in DOMAIN calls : q # p => calls'[q] = calls[q]
      /\ calls'[p].pkg = calls[p].pkg /\ calls'[p].snapshot = calls[p].snapshot
  BY DEF CallEnds
<1>3. calls'[p].at = "done" /\ ~Walks(p, "adding") /\ ~Walks(p, "done")
      /\ \A x \in DOMAIN calls : Below(x, p) /\ x # p => Walks(x, "done")
  BY DEF CallEnds
<1>4. LockKeeps
  BY DEF CallEnds
<1>5. \A q \in DOMAIN calls : calls'[q].pkg = calls[q].pkg
  BY <1>2
<1>6. NoneFailed'
  BY <1>1, <1>2, <1>3 DEF NoneFailed
<1>7. DoneBelow'
  <2>1. ASSUME NEW x \in DOMAIN calls, NEW q \in DOMAIN calls, Below(x, q), calls'[q].at = "done"
        PROVE  calls'[x].at = "done"
    <3>1. CASE x = p
      BY <3>1, <1>3
    <3>2. CASE x # p /\ q = p
      BY <3>2, <2>1, <1>2, <1>3 DEF Walks
    <3>3. CASE x # p /\ q # p
      BY <3>3, <2>1, <1>1, <1>2 DEF DoneBelow, Walks
    <3> QED
      BY <3>1, <3>2, <3>3
  <2>2. ASSUME NEW x \in DOMAIN calls, IsMember(x), calls'[Parent(x)].at = "dependencies"
        PROVE  calls'[x].at = "done"
    <3>1. Parent(x) \in DOMAIN calls
      BY <2>2, CallFacts
    <3>2. Parent(x) # p /\ calls[Parent(x)].at = "dependencies"
      BY <3>1, <2>2, <1>2, <1>3
    <3>3. calls[x].at = "done"
      BY <3>2, <2>2, <1>1 DEF DoneBelow, Walks
    <3> QED
      BY <3>3, <1>2, <1>3
  <2> QED
    BY <2>1, <2>2, <1>2 DEF DoneBelow, Walks
<1>8. KindsInEntry'
  <2>1. ASSUME NEW x \in DOMAIN calls, calls'[x].at = "dependencies"
        PROVE  KindsOf(x)' \subseteq DOMAIN lock'[calls'[x].pkg]
    <3>1. x # p /\ calls'[x] = calls[x] /\ calls[x].at = "dependencies"
      BY <2>1, <1>2, <1>3
    <3>2. KindsOf(x) \subseteq DOMAIN lock[calls[x].pkg] /\ calls[x].pkg \in DOMAIN lock
      BY <3>1, <1>1 DEF KindsInEntry, Walks, WalkTree, Reached, InLock
    <3>3. KindsOf(x)' = KindsOf(x)
      BY <3>1, <1>2 DEF KindsOf
    <3> QED
      BY <3>1, <3>2, <3>3, <1>4 DEF LockKeeps
  <2>2. ASSUME NEW x \in DOMAIN calls, IsDependency(x)
        PROVE  Kind(x) \in DOMAIN lock'[EntryPackage(x)']
    <3>1. Parent(x) \in DOMAIN calls
      BY <2>2, CallFacts
    <3>2. EntryPackage(x)' = EntryPackage(x)
      BY <3>1, <1>5 DEF EntryPackage
    <3>3. EntryPackage(x) \in DOMAIN lock
      BY <2>2 DEF WalkTree, Reached, InLock
    <3> QED
      BY <3>2, <3>3, <2>2, <1>1, <1>4 DEF KindsInEntry, LockKeeps
  <2> QED
    BY <2>1, <2>2, <1>2 DEF KindsInEntry, Walks
<1>9. \A pkg : UnderWay(pkg) => UnderWayNext(pkg)
  <2>1. \A q \in DOMAIN calls : Walks(q, "adding") =>
          /\ q \in DOMAIN calls' /\ calls'[q].pkg = calls[q].pkg
          /\ calls'[q].at = "adding" \/ calls[q].pkg \in DOMAIN lock'
    BY <1>2, <1>3, <1>5 DEF Walks
  <2>2. \A key \in DOMAIN lock : key \in DOMAIN lock'
    BY <1>4 DEF LockKeeps
  <2> QED
    BY <2>1, <2>2, UnderWayStays
<1>10. FoundUnderWay'
  <2>1. ASSUME NEW key \in DOMAIN lock' \ Loaded, NEW k \in DOMAIN lock'[key], NEW u \in DOMAIN lock'[key][k]
        PROVE  UnderWayNext(lock'[key][k][u])
    <3>1. key \in DOMAIN lock /\ k \in DOMAIN lock[key]
      BY <1>4, NothingIs DEF LockKeeps
    <3>2. \/ UnderWayNext(lock'[key][k][u])
          \/ u \in DOMAIN lock[key][k] /\ lock'[key][k][u] = lock[key][k][u]
      BY <3>1
    <3>3. u \in DOMAIN lock[key][k] => UnderWayNext(lock[key][k][u])
      BY <3>1, <1>1, <1>9 DEF FoundUnderWay
    <3> QED
      BY <3>2, <3>3
  <2>2. \A x \in DOMAIN calls' : IsMember(x) => UnderWayNext(calls'[x].pkg)
    BY <1>1, <1>2, <1>5, <1>9 DEF FoundUnderWay
  <2>3. \A s \in DOMAIN visited' : \A pkg \in visited'[s] : UnderWayNext(pkg)
    BY <1>1, <1>2, <1>9 DEF FoundUnderWay
  <2> QED
    BY <2>1, <2>2, <2>3, <1>2, FoundUnderWayNext
<1> QED
  BY <1>6, <1>7, <1>8, <1>10

\* The entries and the edges stay when a task or the dependencies of a call end.
LEMMA EndsMade ==
  ASSUME WalkTypes, WalkTree, EntriesAreMade, NEW p \in DOMAIN calls, CallEnds(p),
         Steady' => Steady, failures' = 0 => failures = 0,
         Steady' /\ failures' = 0 =>
           /\ calls[p].at \in {"resolving", "dependencies"} /\ calls'[p].at = "done"
           /\ \A key \in DOMAIN lock : lock'[key] = lock[key]
           /\ \A key \in DOMAIN lock' : key \notin DOMAIN lock => key \notin Packages
           /\ IsDependency(p) /\ Walks(p, "resolving") => Recorded(p)'
  PROVE  EntriesAreMade'
<1> SUFFICES ASSUME Steady', failures' = 0
             PROVE  /\ (\A pkg \in Packages \ Loaded : InLock(pkg) => \E q \in DOMAIN calls : Made(pkg, q))'
                    /\ (\A q \in DOMAIN calls : IsDependency(q) /\ ~Walks(q, "resolving") => Recorded(q))'
  BY DEF EntriesAreMade
<1>1. /\ \A pkg \in Packages \ Loaded : InLock(pkg) => \E q \in DOMAIN calls : Made(pkg, q)
      /\ \A q \in DOMAIN calls : IsDependency(q) /\ ~Walks(q, "resolving") => Recorded(q)
  BY DEF EntriesAreMade
<1>2. /\ graph' = graph /\ visited' = visited /\ DOMAIN calls' = DOMAIN calls
      /\ \A q \in DOMAIN calls : q # p => calls'[q] = calls[q]
      /\ calls'[p].pkg = calls[p].pkg
  BY DEF CallEnds
<1>3. /\ calls[p].at \in {"resolving", "dependencies"} /\ calls'[p].at = "done"
      /\ \A key \in DOMAIN lock : lock'[key] = lock[key]
      /\ \A key \in DOMAIN lock' : key \notin DOMAIN lock => key \notin Packages
      /\ IsDependency(p) /\ Walks(p, "resolving") => Recorded(p)'
  OBVIOUS
<1>4. \A q \in DOMAIN calls : calls'[q].pkg = calls[q].pkg
  BY <1>2
<1>5. \A key \in DOMAIN lock : key \in DOMAIN lock'
  BY DEF CallEnds, LockKeeps
<1>6. ASSUME NEW pkg \in Packages \ Loaded, pkg \in DOMAIN lock'
      PROVE  \E q \in DOMAIN calls : Made(pkg, q)'
  <2>1. pkg \in DOMAIN lock
    BY <1>3, <1>6
  <2>2. PICK q \in DOMAIN calls : Made(pkg, q)
    BY <2>1, <1>1 DEF InLock
  <2>3. KindsOf(q)' = KindsOf(q) /\ lock'[pkg] = lock[pkg] /\ calls'[q].pkg = pkg
    BY <2>1, <2>2, <1>2, <1>3, <1>4 DEF KindsOf, Made
  <2>4. CASE q = p
    <3>1. Walks(p, "dependencies")
      BY <2>2, <2>4, <1>3 DEF Made, Walks
    <3> QED
      BY <3>1, <2>2, <2>3, <2>4, <1>2, <1>3 DEF Made, Walks
  <2>5. CASE q # p
    <3>1. calls'[q] = calls[q]
      BY <2>5, <1>2
    <3> QED
      BY <3>1, <2>2, <2>3, <1>2 DEF Made, Walks
  <2> QED
    BY <2>4, <2>5
<1>7. ASSUME NEW q \in DOMAIN calls, IsDependency(q), calls'[q].at # "resolving"
      PROVE  Recorded(q)'
  <2>1. CASE q = p /\ Walks(p, "resolving")
    BY <2>1, <1>3, <1>7
  <2>2. CASE ~(q = p /\ Walks(p, "resolving"))
    <3>1. Recorded(q)
      BY <2>2, <1>1, <1>2, <1>7 DEF Walks
    <3>2. Parent(q) \in DOMAIN calls
      BY <1>7, CallFacts
    <3>3. EntryPackage(q)' = EntryPackage(q) /\ EntryPackage(q) \in DOMAIN lock
      BY <3>2, <1>4, <1>7 DEF EntryPackage, WalkTree, Reached, InLock
    <3>4. lock'[EntryPackage(q)'] = lock[EntryPackage(q)]
      BY <3>3, <1>3
    <3> QED
      BY <3>1, <3>4, <1>2, <1>5 DEF Recorded, InLock
  <2> QED
    BY <2>1, <2>2
<1>8. Packages' = Packages /\ Loaded' = Loaded
  BY <1>2, SameGraph
<1> QED
  BY <1>2, <1>6, <1>7, <1>8 DEF InLock, Walks

\* One walk is still one when a call ends.
LEMMA EndsOne ==
  ASSUME WalkTypes, WalkTree, OneWalk, NEW p \in DOMAIN calls, CallEnds(p),
         ~addFailed' => ~addFailed /\ ~Walks(p, "adding")
  PROVE  OneWalk'
<1>1. /\ graph' = graph /\ visited' = visited /\ DOMAIN calls' = DOMAIN calls /\ announced' = announced
      /\ aborted' = aborted /\ replaced' = replaced
      /\ \A q \in DOMAIN calls : q # p => calls'[q] = calls[q]
      /\ calls'[p].pkg = calls[p].pkg /\ calls'[p].snapshot = calls[p].snapshot
      /\ calls'[p].at \in {"done", "failed", "thrown"} /\ calls[p].at # "done"
  BY DEF CallEnds, Walks
<1>2. Packages' = Packages /\ NestedWorkspaces' = NestedWorkspaces
  BY <1>1, SameGraph DEF NestedWorkspaces
<1> SUFFICES ASSUME ~NestedWorkspaces, ~addFailed'
             PROVE  OneAtATime' /\ OneVisited'
  BY <1>2 DEF OneWalk
<1>3. OneAtATime /\ OneVisited /\ ~Walks(p, "adding")
  BY DEF OneWalk
<1>4. LockKeeps /\ \A key \in DOMAIN lock : key \in DOMAIN lock'
  BY DEF CallEnds, LockKeeps
<1>5. \A q \in DOMAIN calls :
        /\ calls'[q].pkg = calls[q].pkg /\ calls'[q].snapshot = calls[q].snapshot
        /\ calls'[q].at = "adding" <=> calls[q].at = "adding"
        /\ calls'[q].at = "members" => calls[q].at = "members"
        /\ calls'[q].at # "done" => calls[q].at # "done"
  BY <1>1, <1>3 DEF Walks
<1>6. \A pkg : UnderWay(pkg) => UnderWayNext(pkg)
  <2>1. \A q \in DOMAIN calls : Walks(q, "adding") =>
          /\ q \in DOMAIN calls' /\ calls'[q].pkg = calls[q].pkg
          /\ calls'[q].at = "adding" \/ calls[q].pkg \in DOMAIN lock'
    BY <1>1, <1>5 DEF Walks
  <2> QED
    BY <2>1, <1>4, UnderWayStays
<1>7. \A key : ~Begun(key) => ~Begun(key)'
  BY <1>4, NotBegunStays
<1>8. <<>> \in DOMAIN calls
  BY CallFacts
<1>9. OneAtATime'
  <2>1. (~replaced)'
    BY <1>1, <1>3 DEF OneAtATime
  <2>2. (\A pkg \in Packages : announced[pkg] <= 1 /\ (announced[pkg] > 0 => UnderWay(pkg)))'
    BY <1>1, <1>2, <1>3, <1>6 DEF OneAtATime, UnderWay, UnderWayNext, InLock, Walks
  <2>3. (\A x, q \in DOMAIN calls :
           Walks(x, "adding") /\ Walks(q, "adding") /\ calls[x].pkg = calls[q].pkg => x = q)'
    BY <1>1, <1>3, <1>5 DEF OneAtATime, Walks
  <2>4. ASSUME NEW x \in DOMAIN calls
        PROVE  (/\ Walks(x, "adding") => ~Begun(calls[x].pkg)
                /\ Walks(x, "members") => x = <<>> /\ ~Begun(graph.root)
                /\ x # <<>> => ~Walks(<<>>, "adding") /\ InLock(graph.root)
                /\ x # <<>> /\ Walks(x, "adding") => calls[x].pkg # graph.root)'
    <3>1. /\ Walks(x, "adding") => ~Begun(calls[x].pkg)
          /\ Walks(x, "members") => x = <<>> /\ ~Begun(graph.root)
          /\ x # <<>> => ~Walks(<<>>, "adding") /\ InLock(graph.root)
          /\ x # <<>> /\ Walks(x, "adding") => calls[x].pkg # graph.root
      BY <1>3 DEF OneAtATime
    <3>2. (Walks(x, "adding") => ~Begun(calls[x].pkg))'
      <4>1. PICK key : key = calls[x].pkg
        OBVIOUS
      <4>2. Walks(x, "adding") => ~Begun(key)'
        BY <4>1, <3>1, <1>7
      <4> QED
        BY <4>1, <4>2, <1>5 DEF Walks, Begun
    <3>3. (Walks(x, "members") => x = <<>> /\ ~Begun(graph.root))'
      <4>1. PICK key : key = graph.root
        OBVIOUS
      <4>2. Walks(x, "members") => x = <<>> /\ ~Begun(key)'
        BY <4>1, <3>1, <1>7
      <4> QED
        BY <4>1, <4>2, <1>1, <1>5 DEF Walks, Begun
    <3>4. (x # <<>> => ~Walks(<<>>, "adding") /\ InLock(graph.root))'
      BY <3>1, <1>1, <1>4, <1>5, <1>8 DEF Walks, InLock
    <3>5. (x # <<>> /\ Walks(x, "adding") => calls[x].pkg # graph.root)'
      BY <3>1, <1>1, <1>5 DEF Walks
    <3> QED
      BY <3>2, <3>3, <3>4, <3>5
  <2> QED
    BY <2>1, <2>2, <2>3, <2>4, <1>1 DEF OneAtATime
<1>10. OneVisited'
  BY <1>1, <1>3, <1>5 DEF OneVisited, Walks
<1> QED
  BY <1>9, <1>10

\* Nothing was reached by way of a call that resolves or adds its package.
LEMMA NothingBelow ==
  ASSUME WalkTypes, WalkTree, NEW p \in DOMAIN calls, calls[p].at \in {"adding", "resolving"},
         NEW x \in DOMAIN calls, Below(x, p)
  PROVE  x = p
BY CallFacts, ThroughAChild, NoChildren

\* The steps with which a call ends.
LEMMA AddFailsInv ==
  ASSUME LockInv, NEW p \in DOMAIN calls, AddFails(p)
  PROVE  LockInv'
<1> USE DEF LockInv
<1>1. WalkTypes
  OBVIOUS
<1>2. calls' = Goes(p, "thrown") /\ lock' = lock /\ addFailed' = TRUE /\ failures' = failures + 1
      /\ failures < MaxFailures /\ calls[p].at = "adding"
  BY DEF AddFails
<1>3. CallEnds(p)
  <2>1. LockKeeps
    BY <1>2 DEF LockKeeps
  <2> QED
    BY <1>1, <1>2, <2>1, GoesOn DEF CallEnds, Walks, AddFails
<1>4. failures' \in 0..MaxFailures /\ failures' > 0
  BY <1>1, <1>2, LockAssumption DEF WalkTypes
<1>5. WalkTypes'
  BY <1>1, <1>2, <1>3, <1>4, EndsTypes
<1>6. WalkTree' /\ MembersInTurn'
  BY <1>3, EndsTree, EndsTurn
<1>7. WalksAreAwaited' /\ EntriesAreMade' /\ OneWalk'
  BY <1>2 DEF WalksAreAwaited, EntriesAreMade, OneWalk, Steady
<1> QED
  BY <1>5, <1>6, <1>7

\* A call ends that would not have ended so if nothing had come between.
LEMMA EndsUnsteady ==
  ASSUME LockInv, NEW p \in DOMAIN calls, CallEnds(p), addFailed' = addFailed, failures' \in 0..MaxFailures,
         failures' >= failures, ~Steady, ~Walks(p, "adding")
  PROVE  LockInv'
<1> USE DEF LockInv
<1>1. aborted' = aborted /\ replaced' = replaced
  BY DEF CallEnds
<1>2. ~Steady'
  BY <1>1 DEF Steady
<1>3. WalkTypes'
  <2>1. addFailed' \in BOOLEAN /\ (addFailed' => failures' > 0)
    <3>1. addFailed \in BOOLEAN /\ (addFailed => failures > 0) /\ failures \in Nat
      BY LockAssumption DEF WalkTypes
    <3> QED
      BY <3>1, LockAssumption
  <2> QED
    BY <2>1, EndsTypes
<1>4. WalkTree' /\ MembersInTurn'
  BY EndsTree, EndsTurn
<1>5. WalksAreAwaited' /\ EntriesAreMade'
  BY <1>2 DEF WalksAreAwaited, EntriesAreMade
<1>6. OneWalk'
  BY EndsOne
<1> QED
  BY <1>3, <1>4, <1>5, <1>6

\* A step that does not fail leaves the number of failures.
LEMMA FailuresStay ==
  ASSUME WalkTypes, failures' = failures
  PROVE  failures' \in 0..MaxFailures /\ failures' >= failures /\ failures \in Nat
BY LockAssumption DEF WalkTypes

\* A workspace has thrown.
LEMMA MemberThrowsInv ==
  ASSUME LockInv, NEW p \in DOMAIN calls, MemberThrows(p)
  PROVE  LockInv'
<1> USE DEF LockInv
<1>1. WalkTypes
  OBVIOUS
<1>2. calls' = Goes(p, "thrown") /\ lock' = lock /\ calls[p].at = "members"
  BY DEF MemberThrows
<1>3. CallEnds(p)
  <2>1. LockKeeps
    BY <1>2 DEF LockKeeps
  <2> QED
    BY <1>1, <1>2, <2>1, GoesOn DEF CallEnds, Walks, MemberThrows
<1>4. ~Steady
  BY DEF MemberThrows, Children, WalksAreAwaited, NoneFailed
<1>5. failures' = failures /\ addFailed' = addFailed
  BY DEF MemberThrows
<1> QED
  BY <1>1, <1>2, <1>3, <1>4, <1>5, FailuresStay, EndsUnsteady DEF Walks

\* A task has failed.
LEMMA TaskFailsInv ==
  ASSUME LockInv, NEW p \in DOMAIN calls, TaskFails(p)
  PROVE  LockInv'
<1> USE DEF LockInv
<1>1. WalkTypes
  OBVIOUS
<1>2. calls' = Goes(p, "thrown") /\ lock' = lock /\ calls[p].at = "dependencies"
  BY DEF TaskFails
<1>3. CallEnds(p)
  <2>1. LockKeeps
    BY <1>2 DEF LockKeeps
  <2> QED
    BY <1>1, <1>2, <2>1, GoesOn DEF CallEnds, Walks, TaskFails
<1>4. ~Steady
  BY DEF TaskFails, Children, WalksAreAwaited, NoneFailed
<1>5. failures' = failures /\ addFailed' = addFailed
  BY DEF TaskFails
<1> QED
  BY <1>1, <1>2, <1>3, <1>4, <1>5, FailuresStay, EndsUnsteady DEF Walks

\* The catch of a task.
LEMMA CaughtInv ==
  ASSUME LockInv, NEW p \in DOMAIN calls, Caught(p)
  PROVE  LockInv'
<1> USE DEF LockInv
<1>1. WalkTypes /\ WalkTree
  OBVIOUS
<1>2. calls[p].at = "thrown" /\ IsDependency(p) /\ Catch(p, WithEdge(p, Specifier(p)))
  BY DEF Caught
<1>3. p # <<>>
  BY <1>1, <1>2, CallFacts
<1>4. /\ LockKeeps
      /\ DOMAIN calls' = DOMAIN calls
      /\ \A q \in DOMAIN calls : q # p => calls'[q] = calls[q]
      /\ calls'[p] \in WalkType /\ calls'[p].pkg = calls[p].pkg /\ calls'[p].snapshot = calls[p].snapshot
      /\ calls'[p].at \in {"done", "failed"}
  BY <1>1, <1>2, CatchKeeps
<1>5. CallEnds(p)
  BY <1>2, <1>3, <1>4 DEF CallEnds, Walks, Caught
<1>6. ~Steady
  BY <1>2 DEF WalksAreAwaited, NoneFailed
<1>7. failures' = failures /\ addFailed' = addFailed
  BY DEF Caught
<1> QED
  BY <1>1, <1>2, <1>5, <1>6, <1>7, FailuresStay, EndsUnsteady DEF Walks

\* A task that resolves while its entry has lost its kind.
LEMMA ResolvedLateInv ==
  ASSUME LockInv, NEW p \in DOMAIN calls, Resolved(p), ~HasKind(p)
  PROVE  LockInv'
<1> USE DEF LockInv
<1>1. WalkTypes /\ WalkTree
  OBVIOUS
<1>2. calls[p].at = "resolving" /\ Catch(p, lock) /\ visited' = visited /\ announced' = announced
  BY DEF Resolved
<1>3. p # <<>> /\ IsDependency(p)
  BY <1>1, <1>2, CallFacts DEF WalkTree, Reached, Walks
<1>4. /\ LockKeeps
      /\ DOMAIN calls' = DOMAIN calls
      /\ \A q \in DOMAIN calls : q # p => calls'[q] = calls[q]
      /\ calls'[p] \in WalkType /\ calls'[p].pkg = calls[p].pkg /\ calls'[p].snapshot = calls[p].snapshot
      /\ calls'[p].at \in {"done", "failed"}
  BY <1>1, <1>2, <1>3, CatchKeeps
<1>5. CallEnds(p)
  BY <1>2, <1>3, <1>4 DEF CallEnds, Walks, Resolved
<1>6. ~Steady
  BY <1>3 DEF WalksAreAwaited, KindsInEntry, HasKind, EntryPackage
<1>7. failures' = failures /\ addFailed' = addFailed
  BY DEF Resolved
<1> QED
  BY <1>1, <1>2, <1>5, <1>6, <1>7, FailuresStay, EndsUnsteady DEF Walks

\* The last task of a call is done.
LEMMA TasksDoneInv ==
  ASSUME LockInv, NEW p \in DOMAIN calls, TasksDone(p)
  PROVE  LockInv'
<1> USE DEF LockInv
<1>1. WalkTypes /\ WalkTree
  OBVIOUS
<1>2. calls' = Goes(p, "done") /\ lock' = lock /\ calls[p].at = "dependencies" /\ failures' = failures
      /\ addFailed' = addFailed /\ aborted' = aborted /\ replaced' = replaced
  BY DEF TasksDone
<1>3. CallEnds(p) /\ calls'[p].at = "done"
  <2>1. LockKeeps
    BY <1>2 DEF LockKeeps
  <2> QED
    BY <1>1, <1>2, <2>1, GoesOn DEF CallEnds, Walks, TasksDone
<1>4. Steady' => Steady
  BY <1>2 DEF Steady
<1>5. WalkTypes'
  <2>1. failures' \in 0..MaxFailures /\ addFailed' \in BOOLEAN /\ (addFailed' => failures' > 0)
    BY <1>1, <1>2, FailuresStay DEF WalkTypes
  <2> QED
    BY <1>3, <2>1, EndsTypes
<1>6. WalkTree' /\ MembersInTurn'
  BY <1>3, EndsTree, EndsTurn
<1>7. WalksAreAwaited'
  <2>1. ASSUME Steady', NEW x \in DOMAIN calls, Below(x, p), x # p
        PROVE  Walks(x, "done")
    <3>1. PICK c \in DOMAIN calls : c # <<>> /\ Parent(c) = p /\ Below(x, c)
      BY <2>1, <1>1, CallFacts, ThroughAChild
    <3>2. Walks(c, "done")
      <4>1. CASE IsMember(c)
        BY <4>1, <3>1, <2>1, <1>2, <1>4 DEF WalksAreAwaited, DoneBelow, Walks
      <4>2. CASE ~IsMember(c)
        BY <4>2, <3>1 DEF TasksDone, Children, IsMember, Walks
      <4> QED
        BY <4>1, <4>2
    <3> QED
      BY <3>1, <3>2, <2>1, <1>4 DEF WalksAreAwaited, DoneBelow
  <2>2. \A key \in DOMAIN lock : \A k \in DOMAIN lock[key] : \A u \in DOMAIN lock'[key][k] :
          u \in DOMAIN lock[key][k] /\ lock'[key][k][u] = lock[key][k][u]
    BY <1>2
  <2>3. ~Walks(p, "adding")
    BY <1>2 DEF Walks
  <2> QED
    BY <2>1, <2>2, <2>3, <1>3, <1>4, EndsAwaited
<1>8. EntriesAreMade'
  <2>1. ~Walks(p, "resolving")
    BY <1>2 DEF Walks
  <2> QED
    BY <2>1, <1>2, <1>3, <1>4, EndsMade
<1>9. OneWalk'
  BY <1>2, <1>3, EndsOne DEF Walks
<1> QED
  BY <1>5, <1>6, <1>7, <1>8, <1>9

\* No package for a specifier.
LEMMA NotResolvedInv ==
  ASSUME LockInv, NEW p \in DOMAIN calls, NotResolved(p)
  PROVE  LockInv'
<1> USE DEF LockInv
<1>1. WalkTypes /\ WalkTree
  OBVIOUS
<1>2. calls' = Goes(p, "done") /\ calls[p].at = "resolving" /\ failures' = failures
      /\ addFailed' = addFailed /\ aborted' = aborted /\ replaced' = replaced /\ graph' = graph
      /\ graph.resolution[Specifier(p)] = Unknown
      /\ lock' = Update([k \in {Specifier(p)} |-> Nothing], lock)
  BY DEF NotResolved
<1>3. p # <<>> /\ IsDependency(p) /\ Specifier(p) \in Specifiers
  BY <1>1, <1>2, CallFacts DEF WalkTree, Reached, Walks
<1>4. /\ DOMAIN lock' = DOMAIN lock \union {Specifier(p)}
      /\ \A x \in DOMAIN lock : lock'[x] = lock[x]
      /\ Specifier(p) \notin DOMAIN lock => lock'[Specifier(p)] = Nothing
  BY <1>2 DEF Update
<1>5. Specifier(p) \notin Packages
  BY <1>1, <1>2, <1>3, GraphFacts
<1>6. CallEnds(p) /\ calls'[p].at = "done"
  <2>1. LockKeeps
    BY <1>3, <1>4 DEF LockKeeps
  <2> QED
    BY <1>1, <1>2, <1>3, <2>1, GoesOn DEF CallEnds, Walks, NotResolved
<1>7. Steady' => Steady
  BY <1>2 DEF Steady
<1>8. WalkTypes'
  <2>1. failures' \in 0..MaxFailures /\ addFailed' \in BOOLEAN /\ (addFailed' => failures' > 0)
    BY <1>1, <1>2, FailuresStay DEF WalkTypes
  <2> QED
    BY <1>6, <2>1, EndsTypes
<1>9. WalkTree' /\ MembersInTurn'
  BY <1>6, EndsTree, EndsTurn
<1>10. ~Walks(p, "adding")
  BY <1>2 DEF Walks
<1>11. WalksAreAwaited'
  <2>1. \A x \in DOMAIN calls : Below(x, p) /\ x # p => Walks(x, "done")
    BY <1>1, <1>2, NothingBelow
  <2>2. \A key \in DOMAIN lock : \A k \in DOMAIN lock[key] : \A u \in DOMAIN lock'[key][k] :
          u \in DOMAIN lock[key][k] /\ lock'[key][k][u] = lock[key][k][u]
    BY <1>4
  <2> QED
    BY <2>1, <2>2, <1>6, <1>7, <1>10, EndsAwaited
<1>12. EntriesAreMade'
  <2>1. Recorded(p)'
    BY <1>2, <1>4 DEF Recorded, InLock
  <2>2. \A key \in DOMAIN lock' : key \notin DOMAIN lock => key \notin Packages
    BY <1>4, <1>5
  <2> QED
    BY <2>1, <2>2, <1>2, <1>4, <1>6, <1>7, EndsMade
<1>13. OneWalk'
  BY <1>2, <1>6, <1>10, EndsOne
<1> QED
  BY <1>8, <1>9, <1>11, <1>12, <1>13

\* The handler of a specifier rejects: the edge goes to an entry of the specifier itself.
LEMMA ResolutionFailsInv ==
  ASSUME LockInv, NEW p \in DOMAIN calls, ResolutionFails(p)
  PROVE  LockInv'
<1> USE DEF LockInv
<1>1. WalkTypes /\ WalkTree
  OBVIOUS
<1>2. calls[p].at = "resolving" /\ failures < MaxFailures /\ failures' = failures + 1
      /\ addFailed' = addFailed /\ aborted' = aborted /\ replaced' = replaced
      /\ Catch(p, WithEdge(p, Specifier(p)))
  BY DEF ResolutionFails
<1>3. p # <<>> /\ IsDependency(p) /\ InLock(EntryPackage(p))
  BY <1>1, <1>2, CallFacts DEF WalkTree, Reached, Walks
<1>4. /\ LockKeeps
      /\ DOMAIN calls' = DOMAIN calls
      /\ \A q \in DOMAIN calls : q # p => calls'[q] = calls[q]
      /\ calls'[p] \in WalkType /\ calls'[p].pkg = calls[p].pkg /\ calls'[p].snapshot = calls[p].snapshot
      /\ calls'[p].at \in {"done", "failed"} /\ (calls'[p].at = "done" <=> HasKind(p))
  BY <1>1, <1>2, <1>3, CatchKeeps
<1>5. CallEnds(p)
  BY <1>2, <1>3, <1>4 DEF CallEnds, Walks, ResolutionFails
<1>6. Steady' => Steady /\ HasKind(p)
  BY <1>2, <1>3 DEF Steady, WalksAreAwaited, KindsInEntry, HasKind, EntryPackage
<1>7. failures' \in 0..MaxFailures /\ failures' # 0 /\ failures' > 0
  BY <1>1, <1>2, LockAssumption DEF WalkTypes
<1>8. WalkTypes'
  <2>1. addFailed' \in BOOLEAN
    BY <1>1, <1>2 DEF WalkTypes
  <2> QED
    BY <1>5, <1>7, <2>1, EndsTypes
<1>9. WalkTree' /\ MembersInTurn'
  BY <1>5, EndsTree, EndsTurn
<1>10. ~Walks(p, "adding")
  BY <1>2 DEF Walks
<1>11. WalksAreAwaited'
  <2>1. \A x \in DOMAIN calls : Below(x, p) /\ x # p => Walks(x, "done")
    BY <1>1, <1>2, NothingBelow
  <2>2. ASSUME HasKind(p), NEW key \in DOMAIN lock, NEW k \in DOMAIN lock[key], NEW u \in DOMAIN lock'[key][k]
        PROVE  \/ UnderWayNext(lock'[key][k][u])
               \/ u \in DOMAIN lock[key][k] /\ lock'[key][k][u] = lock[key][k][u]
    <3>1. PICK edged : edged = WithEdge(p, Specifier(p))
      OBVIOUS
    <3>2. /\ DOMAIN edged = DOMAIN lock
          /\ \A x \in DOMAIN lock : \A j \in DOMAIN lock[x] :
               x # EntryPackage(p) \/ j # Kind(p) => edged[x][j] = lock[x][j]
          /\ LET x == EntryPackage(p)  j == Kind(p)  v == Specifier(p) IN
               /\ DOMAIN edged[x][j] = DOMAIN lock[x][j] \union {v} /\ edged[x][j][v] = v
               /\ \A w \in DOMAIN lock[x][j] : w # v => edged[x][j][w] = lock[x][j][w]
      BY <3>1, <2>2, <1>3, WithEdgeIs
    <3>3. lock' = Update([j \in {Specifier(p)} |-> Nothing], edged)
      BY <3>1, <2>2, <1>2 DEF Catch
    <3>4. Specifier(p) \in DOMAIN lock' /\ lock'[key] = edged[key]
      BY <3>2, <3>3 DEF Update
    <3>5. CASE key # EntryPackage(p) \/ k # Kind(p)
      BY <3>2, <3>4, <3>5
    <3>6. CASE key = EntryPackage(p) /\ k = Kind(p)
      <4>1. CASE u = Specifier(p)
        BY <4>1, <3>2, <3>4, <3>6 DEF UnderWayNext
      <4>2. CASE u # Specifier(p)
        BY <4>2, <3>2, <3>4, <3>6
      <4> QED
        BY <4>1, <4>2
    <3> QED
      BY <3>5, <3>6
  <2> QED
    BY <2>1, <2>2, <1>4, <1>5, <1>6, <1>10, EndsAwaited
<1>12. EntriesAreMade'
  BY <1>7 DEF EntriesAreMade
<1>13. OneWalk'
  BY <1>2, <1>5, <1>10, EndsOne
<1> QED
  BY <1>8, <1>9, <1>11, <1>12, <1>13

\* The signal: the calls find it later.
LEMMA AbortInv ==
  ASSUME LockInv, Abort
  PROVE  LockInv'
<1> USE DEF LockInv
<1>1. /\ graph' = graph /\ lock' = lock /\ calls' = calls /\ visited' = visited /\ failures' = failures
      /\ addFailed' = addFailed /\ announced' = announced /\ replaced' = replaced /\ aborted' = TRUE
  BY DEF Abort
<1>2. /\ Packages' = Packages /\ Loaded' = Loaded /\ Specifiers' = Specifiers /\ Steps' = Steps /\ Ways' = Ways
      /\ WalkType' = WalkType
  BY <1>1, SameGraph
<1>3. WalkTypes'
  BY <1>1, <1>2 DEF WalkTypes
<1>4. WalkTree'
  BY <1>1, <1>2 DEF WalkTree, Reached, Walks, InLock, EntryPackage
<1>5. MembersInTurn'
  <2>1. \A q, n : Children(q)' = Children(q) /\ MembersUpTo(q, n)' = MembersUpTo(q, n)
    BY <1>1 DEF Children, MembersUpTo
  <2> QED
    BY <2>1, <1>1 DEF MembersInTurn, Loaded, Walks
<1>6. WalksAreAwaited' /\ EntriesAreMade'
  BY <1>1 DEF WalksAreAwaited, EntriesAreMade, Steady
<1>7. OneWalk'
  BY <1>1, <1>2 DEF OneWalk, NestedWorkspaces, OneAtATime, OneVisited, UnderWay, InLock, Walks, Begun
<1> QED
  BY <1>3, <1>4, <1>5, <1>6, <1>7

\* As many workspaces as a call has come to.
LEMMA MembersCount ==
  ASSUME WalkTypes, WalkTree, NEW p \in DOMAIN calls, calls[p].pkg \in Packages,
         NEW n \in 0..Len(graph.members[calls[p].pkg])
  PROVE  Cardinality(MembersUpTo(p, n)) = n
<1>1. PICK all : all = graph.members[calls[p].pkg]
  OBVIOUS
<1>2. all \in Seq(Packages) /\ (\A i, j \in DOMAIN all : all[i] = all[j] => i = j) /\ p \in Seq(Steps)
  BY <1>1, GraphFacts, CallFacts DEF Ways
<1>3. n \in Nat /\ \A i \in 1..n : i \in DOMAIN all /\ all[i] \in Packages
  <2>1. DOMAIN all = 1..Len(all) /\ Len(all) \in Nat /\ \A i \in 1..Len(all) : all[i] \in Packages
    BY <1>2, LenProperties
  <2>2. n \in Nat /\ n <= Len(all)
    BY <2>1, <1>1
  <2>3. \A i \in 1..n : i \in 1..Len(all)
    BY <2>1, <2>2
  <2> QED
    BY <2>1, <2>2, <2>3
<1>4. PICK T : T = MembersUpTo(p, n)
  OBVIOUS
<1>5. T = {Append(p, <<Member, all[i]>>) : i \in 1..n}
  BY <1>1, <1>4 DEF MembersUpTo
<1> DEFINE f == [i \in 1..n |-> Append(p, <<Member, all[i]>>)]
<1>6. \A i \in 1..n : <<Member, all[i]>> \in Steps /\ Specifier(Append(p, <<Member, all[i]>>)) = all[i]
  <2> SUFFICES ASSUME NEW i \in 1..n
               PROVE  <<Member, all[i]>> \in Steps /\ Specifier(Append(p, <<Member, all[i]>>)) = all[i]
    OBVIOUS
  <2>1. PICK s : s = <<Member, all[i]>>
    OBVIOUS
  <2>2. s \in Steps /\ s[2] = all[i]
    BY <2>1, <1>3 DEF Steps
  <2> QED
    BY <2>1, <2>2, <1>2, WayStep
<1>7. f \in Surjection(1..n, T)
  BY <1>5 DEF Surjection
<1>8. f \in Injection(1..n, T)
  <2>1. ASSUME NEW i \in 1..n, NEW j \in 1..n, f[i] = f[j]
        PROVE  i = j
    <3>1. all[i] = all[j]
      BY <2>1, <1>6
    <3> QED
      BY <3>1, <1>2, <1>3
  <2>2. f \in [1..n -> T]
    BY <1>5
  <2> HIDE DEF f
  <2> QED
    BY <2>1, <2>2 DEF Injection, IsInjective
<1> HIDE DEF f
<1>9. IsFiniteSet(1..n) /\ Cardinality(1..n) = n
  <2>1. IsFiniteSet(1..n) /\ Cardinality(1..n) = IF 1 > n THEN 0 ELSE n - 1 + 1
    BY <1>3, FS_Interval
  <2> QED
    BY <2>1, <1>3
<1>10. Cardinality(T) = Cardinality(1..n)
  BY <1>7, <1>8, <1>9, FS_Surjection
<1> QED
  BY <1>4, <1>9, <1>10

\* The tasks of a call, and a step with which they start.
TasksOf(p) == {t \in Ways : \E k \in KindsOf(p) : \E u \in graph.deps[calls[p].pkg][k] : t = Append(p, <<k, u>>)}
Starts(p) ==
  /\ DOMAIN calls' = DOMAIN calls \union TasksOf(p)
  /\ \A t \in TasksOf(p) :
       /\ t \notin DOMAIN calls /\ calls'[t] \in WalkType
       /\ calls'[t].pkg = Unknown /\ calls'[t].snapshot = calls[p].snapshot
       /\ calls'[t].at = IF aborted THEN "failed" ELSE "resolving"
  /\ \A q \in DOMAIN calls : q # p => calls'[q] = calls[q]
  /\ calls'[p] \in WalkType /\ calls'[p].pkg = calls[p].pkg /\ calls'[p].snapshot = calls[p].snapshot
  /\ calls'[p].at = "dependencies"
  /\ calls[p].at \in {"adding", "members"} /\ calls[p].pkg \in Packages
  /\ \A q \in DOMAIN calls : q # <<>> /\ Parent(q) = p => IsMember(q) /\ Walks(q, "done")
  /\ DOMAIN lock' = DOMAIN lock \union {calls[p].pkg}
  /\ \A key \in DOMAIN lock : key # calls[p].pkg => lock'[key] = lock[key]
  /\ KindsOf(p) \subseteq DOMAIN lock'[calls[p].pkg] /\ DOMAIN lock'[calls[p].pkg] \subseteq {Regular, Dev}
  /\ ~Begun(calls[p].pkg) =>
       /\ DOMAIN lock'[calls[p].pkg] = KindsOf(p)
       /\ \A k \in KindsOf(p) : lock'[calls[p].pkg][k] = Nothing
  /\ replaced' = (replaced \/ Begun(calls[p].pkg))
  /\ p = <<>> =>
       \A i \in DOMAIN graph.members[graph.root] : <<<<Member, graph.members[graph.root][i]>>>> \in DOMAIN calls
  /\ UNCHANGED <<graph, visited, aborted, failures, addFailed, announced>>

\* Where the tasks of a call are in the tree, and that they are new.
LEMMA TaskFacts ==
  ASSUME WalkTypes, WalkTree, NEW p \in DOMAIN calls, calls[p].pkg \in Packages
  PROVE  /\ KindsOf(p) \subseteq {Regular, Dev} /\ KindsOf(p) \subseteq DOMAIN graph.deps[calls[p].pkg]
         /\ \A k \in KindsOf(p) : \A u \in graph.deps[calls[p].pkg][k] : Append(p, <<k, u>>) \in TasksOf(p)
         /\ \A t \in TasksOf(p) :
              /\ t \in Seq(Steps) /\ t # <<>> /\ t # p /\ IsDependency(t) /\ ~IsMember(t) /\ Parent(t) = p
              /\ Kind(t) \in KindsOf(p) /\ Specifier(t) \in graph.deps[calls[p].pkg][Kind(t)]
              /\ <<Kind(t), Specifier(t)>> \in Steps /\ t = Append(p, <<Kind(t), Specifier(t)>>)
              /\ \A n \in 0..Len(t) : SubSeq(t, 1, n) \in DOMAIN calls \union {t}
<1>1. PICK pkg : pkg = calls[p].pkg
  OBVIOUS
<1>2. p \in Seq(Steps)
  BY CallFacts DEF Ways
<1>3. KindsOf(p) \subseteq {Regular, Dev} /\ KindsOf(p) \subseteq DOMAIN graph.deps[pkg]
  BY <1>1, GraphFacts DEF KindsOf
<1>4. \A k \in KindsOf(p) : \A u \in graph.deps[pkg][k] : <<k, u>> \in Steps /\ k # Member
  <2>1. ASSUME NEW k \in KindsOf(p), NEW u \in graph.deps[pkg][k]
        PROVE  <<k, u>> \in Steps /\ k # Member
    <3>1. k \in {Regular, Dev} /\ u \in Specifiers
      BY <1>1, <1>3, GraphFacts
    <3> QED
      BY <3>1 DEF Steps, Regular, Dev, Member
  <2> QED
    BY <2>1
<1>5. ASSUME NEW k \in KindsOf(p), NEW u \in graph.deps[pkg][k], NEW t, t = Append(p, <<k, u>>)
      PROVE  /\ t \in TasksOf(p) /\ t \in Seq(Steps) /\ t # <<>> /\ t # p
             /\ IsDependency(t) /\ ~IsMember(t) /\ Parent(t) = p
             /\ Kind(t) = k /\ Specifier(t) = u /\ \A n \in 0..Len(t) : SubSeq(t, 1, n) \in DOMAIN calls \union {t}
  <2>1. PICK s : s = <<k, u>>
    OBVIOUS
  <2>2. s \in Steps /\ s[1] = k /\ s[2] = u /\ k # Member
    BY <2>1, <1>4
  <2>3. /\ t \in Seq(Steps) /\ t # <<>> /\ t # p /\ Parent(t) = p /\ Kind(t) = k /\ Specifier(t) = u
        /\ Len(t) = Len(p) + 1
        /\ \A n \in 0..Len(p) : SubSeq(t, 1, n) = SubSeq(p, 1, n)
        /\ SubSeq(t, 1, Len(p) + 1) = t
    BY <2>1, <2>2, <1>2, <1>5, WayStep
  <2>4. IsDependency(t) /\ ~IsMember(t)
    BY <2>2, <2>3 DEF IsDependency, IsMember, Kind
  <2>5. t \in TasksOf(p)
    BY <2>3, <1>1, <1>5 DEF TasksOf, Ways
  <2>6. ASSUME NEW n \in 0..Len(t)
        PROVE  SubSeq(t, 1, n) \in DOMAIN calls \union {t}
    <3>1. n \in 0..Len(p) \/ n = Len(p) + 1
      <4>1. PICK m \in Nat : m = Len(p)
        BY <1>2, LenProperties
      <4> QED
        BY <4>1, <2>3
    <3> QED
      BY <3>1, <2>3 DEF WalkTree
  <2> QED
    BY <2>3, <2>4, <2>5, <2>6
<1>6. \A t \in TasksOf(p) : \E k \in KindsOf(p) : \E u \in graph.deps[pkg][k] : t = Append(p, <<k, u>>)
  BY <1>1 DEF TasksOf
<1>7. ASSUME NEW t \in TasksOf(p)
      PROVE  /\ t \in Seq(Steps) /\ t # <<>> /\ t # p /\ IsDependency(t) /\ ~IsMember(t) /\ Parent(t) = p
             /\ Kind(t) \in KindsOf(p) /\ Specifier(t) \in graph.deps[pkg][Kind(t)]
             /\ <<Kind(t), Specifier(t)>> \in Steps /\ t = Append(p, <<Kind(t), Specifier(t)>>)
             /\ \A n \in 0..Len(t) : SubSeq(t, 1, n) \in DOMAIN calls \union {t}
  <2>1. PICK k \in KindsOf(p) : \E u \in graph.deps[pkg][k] : t = Append(p, <<k, u>>)
    BY <1>6
  <2>2. PICK u \in graph.deps[pkg][k] : t = Append(p, <<k, u>>)
    BY <2>1
  <2> QED
    BY <2>2, <1>4, <1>5
<1> QED
  BY <1>1, <1>3, <1>5, <1>7

\* Added and NextMember start the dependencies in the same way.
LEMMA StartsIs ==
  ASSUME WalkTypes, WalkTree, NEW p \in DOMAIN calls, calls[p].at \in {"adding", "members"},
         NEW entry, entry = Nothing \/ (InLock(calls[p].pkg) /\ entry = lock[calls[p].pkg]),
         StartDependencies(p, entry), replaced' = (replaced \/ Begun(calls[p].pkg)),
         UNCHANGED <<graph, visited, aborted, failures, addFailed, announced>>,
         \A q \in DOMAIN calls : q # <<>> /\ Parent(q) = p => IsMember(q) /\ Walks(q, "done"),
         p = <<>> =>
           \A i \in DOMAIN graph.members[graph.root] : <<<<Member, graph.members[graph.root][i]>>>> \in DOMAIN calls
  PROVE  Starts(p)
<1>1. PICK pkg : pkg = calls[p].pkg
  OBVIOUS
<1>2. pkg \in Packages
  BY <1>1 DEF WalkTree, Reached
<1> DEFINE steps == {<<k, u>> : k \in KindsOf(p), u \in DOMAIN graph.resolution}
           tasks == {Append(p, s) : s \in {t \in steps : t[2] \in graph.deps[calls[p].pkg][t[1]]}}
           task == [pkg |-> Unknown, snapshot |-> calls[p].snapshot,
                    at |-> IF aborted THEN "failed" ELSE "resolving"]
           started == [t \in tasks |-> task]
           kinds == [k \in KindsOf(p) |-> Nothing]
           now == Update(entry, kinds)
<1>3. lock' = Set(lock, pkg, now) /\ calls' = Update(Goes(p, "dependencies"), started)
  BY <1>1 DEF StartDependencies
<1>4. tasks = TasksOf(p)
  <2>1. ASSUME NEW t \in tasks
        PROVE  t \in TasksOf(p)
    <3>1. PICK s \in steps : s[2] \in graph.deps[pkg][s[1]] /\ t = Append(p, s)
      BY <2>1, <1>1
    <3>2. PICK k \in KindsOf(p), u \in DOMAIN graph.resolution : s = <<k, u>>
      BY <3>1
    <3>3. u \in graph.deps[pkg][k] /\ t = Append(p, <<k, u>>)
      BY <3>1, <3>2
    <3> QED
      BY <3>3, <1>1, <1>2, TaskFacts
  <2>2. ASSUME NEW t \in TasksOf(p)
        PROVE  t \in tasks
    <3>1. PICK k \in KindsOf(p) : \E u \in graph.deps[pkg][k] : t = Append(p, <<k, u>>)
      BY <2>2, <1>1 DEF TasksOf
    <3>2. PICK u \in graph.deps[pkg][k] : t = Append(p, <<k, u>>)
      BY <3>1
    <3>3. u \in DOMAIN graph.resolution
      BY <3>2, <1>1, <1>2, TaskFacts, GraphFacts DEF Specifiers
    <3>4. PICK s : s = <<k, u>>
      OBVIOUS
    <3>5. s \in steps /\ s[1] = k /\ s[2] = u
      BY <3>3, <3>4
    <3> QED
      BY <3>2, <3>4, <3>5, <1>1
  <2> QED
    BY <2>1, <2>2
<1>5. task \in WalkType /\ task.pkg = Unknown /\ task.snapshot = calls[p].snapshot
      /\ task.at = IF aborted THEN "failed" ELSE "resolving"
  <2>1. calls[p].snapshot \in Ways
    BY CallFacts DEF WalkType
  <2> QED
    BY <2>1 DEF WalkType
<1>6. \A t \in TasksOf(p) : t \notin DOMAIN calls /\ Parent(t) = p
  <2> SUFFICES ASSUME NEW t \in TasksOf(p)
               PROVE  t \notin DOMAIN calls /\ Parent(t) = p
    OBVIOUS
  <2>1. IsDependency(t) /\ Parent(t) = p
    BY <1>1, <1>2, TaskFacts
  <2> QED
    BY <2>1 DEF WalkTree, Reached
<1> HIDE DEF steps, tasks, task
<1>7. PICK gone : gone = Goes(p, "dependencies")
  OBVIOUS
<1>8. /\ DOMAIN gone = DOMAIN calls /\ gone[p] \in WalkType /\ gone[p].pkg = calls[p].pkg
      /\ gone[p].snapshot = calls[p].snapshot /\ gone[p].at = "dependencies"
      /\ \A q \in DOMAIN calls : q # p => gone[q] = calls[q]
  BY <1>7, GoesOn
<1>9. /\ DOMAIN calls' = DOMAIN calls \union TasksOf(p)
      /\ \A t \in TasksOf(p) : calls'[t] = task
      /\ \A q \in DOMAIN calls : q \notin TasksOf(p) => calls'[q] = gone[q]
  <2>1. calls' = [x \in DOMAIN gone \union DOMAIN started |-> IF x \in DOMAIN started THEN started[x] ELSE gone[x]]
    BY <1>3, <1>7 DEF Update
  <2>2. DOMAIN started = TasksOf(p) /\ \A t \in TasksOf(p) : started[t] = task
    BY <1>4
  <2> QED
    BY <2>1, <2>2, <1>8
<1>10. p \notin TasksOf(p) /\ \A q \in DOMAIN calls : q \notin TasksOf(p)
  BY <1>6
<1>11. DOMAIN kinds = KindsOf(p) /\ \A k \in KindsOf(p) : kinds[k] = Nothing
  OBVIOUS
<1> HIDE DEF kinds
<1>12. /\ DOMAIN now = DOMAIN entry \union KindsOf(p)
       /\ \A k \in KindsOf(p) : now[k] = Nothing
  BY <1>11 DEF Update
<1> HIDE DEF now
<1>13. /\ DOMAIN lock' = DOMAIN lock \union {pkg} /\ lock'[pkg] = now
       /\ \A key \in DOMAIN lock : key # pkg => lock'[key] = lock[key]
  BY <1>3 DEF Set, Update
<1>14. DOMAIN entry \subseteq {Regular, Dev}
  BY <1>1, NothingIs DEF WalkTypes, InLock
<1>15. ~Begun(pkg) => entry = Nothing
  BY <1>1 DEF Begun, InLock
<1>16. KindsOf(p) \subseteq {Regular, Dev}
  BY <1>1, <1>2, TaskFacts
<1>17. /\ KindsOf(p) \subseteq DOMAIN lock'[pkg] /\ DOMAIN lock'[pkg] \subseteq {Regular, Dev}
       /\ ~Begun(pkg) => DOMAIN lock'[pkg] = KindsOf(p) /\ \A k \in KindsOf(p) : lock'[pkg][k] = Nothing
  BY <1>12, <1>13, <1>14, <1>15, <1>16, NothingIs
<1>18. /\ calls'[p] \in WalkType /\ calls'[p].pkg = calls[p].pkg /\ calls'[p].snapshot = calls[p].snapshot
       /\ calls'[p].at = "dependencies"
       /\ \A q \in DOMAIN calls : q # p => calls'[q] = calls[q]
  BY <1>8, <1>9, <1>10
<1>19. \A t \in TasksOf(p) :
         /\ t \notin DOMAIN calls /\ calls'[t] \in WalkType
         /\ calls'[t].pkg = Unknown /\ calls'[t].snapshot = calls[p].snapshot
         /\ calls'[t].at = IF aborted THEN "failed" ELSE "resolving"
  BY <1>5, <1>6, <1>9
<1> QED
  BY <1>1, <1>2, <1>9, <1>13, <1>17, <1>18, <1>19 DEF Starts

\* A package without workspaces goes on to its dependencies at once.
LEMMA AddedStarts ==
  ASSUME LockInv, NEW p \in DOMAIN calls, Added(p), graph.members[calls[p].pkg] = <<>>
  PROVE  Starts(p)
<1> USE DEF LockInv
<1>1. calls[p].at = "adding" /\ StartDependencies(p, Nothing) /\ replaced' = (replaced \/ Begun(calls[p].pkg))
      /\ UNCHANGED <<graph, visited, aborted, failures, addFailed, announced>>
  BY DEF Added
<1>2. \A q \in DOMAIN calls : q # <<>> /\ Parent(q) = p => IsMember(q) /\ Walks(q, "done")
  BY <1>1, NoChildren
<1>3. p = <<>> => DOMAIN graph.members[graph.root] = {}
  <2>1. calls[<<>>].pkg = graph.root
    BY DEF WalkTree
  <2> QED
    BY <2>1
<1> QED
  BY <1>1, <1>2, <1>3, StartsIs

\* The last workspace of a call has been walked.
LEMMA MembersStarts ==
  ASSUME LockInv, NEW p \in DOMAIN calls, NextMember(p),
         Cardinality(Children(p)) = Len(graph.members[calls[p].pkg])
  PROVE  Starts(p)
<1> USE DEF LockInv
<1>1. calls[p].at = "members" /\ StartDependencies(p, lock[calls[p].pkg])
      /\ replaced' = (replaced \/ Begun(calls[p].pkg))
      /\ UNCHANGED <<graph, visited, aborted, failures, addFailed, announced>>
      /\ \A q \in Children(p) : calls[q].at = "done"
  BY DEF NextMember
<1>2. PICK n \in 0..Len(graph.members[calls[p].pkg]) : Children(p) = MembersUpTo(p, n)
  BY <1>1 DEF MembersInTurn, Walks
<1>3. calls[p].pkg \in Packages /\ InLock(calls[p].pkg)
  BY <1>1 DEF WalkTree, Reached
<1>4. n = Len(graph.members[calls[p].pkg])
  BY <1>2, <1>3, MembersCount
<1>5. \A q \in DOMAIN calls : q # <<>> /\ Parent(q) = p => IsMember(q) /\ Walks(q, "done")
  <2> SUFFICES ASSUME NEW q \in DOMAIN calls, q # <<>>, Parent(q) = p
               PROVE  IsMember(q) /\ Walks(q, "done")
    OBVIOUS
  <2>1. q \in Children(p)
    BY DEF Children
  <2>2. IsDependency(q) \/ IsMember(q)
    BY CallFacts
  <2>3. ~IsDependency(q)
    BY <1>1 DEF WalkTree, Reached
  <2> QED
    BY <2>1, <2>2, <2>3, <1>1 DEF Walks
<1>6. ASSUME p = <<>>, NEW i \in DOMAIN graph.members[graph.root]
      PROVE  <<<<Member, graph.members[graph.root][i]>>>> \in DOMAIN calls
  <2>1. calls[p].pkg = graph.root
    BY <1>6 DEF WalkTree
  <2>2. graph.members[graph.root] \in Seq(Packages)
    BY <1>3, <2>1, GraphFacts
  <2>3. i \in 1..n
    BY <2>1, <2>2, <1>4, LenProperties
  <2>4. Append(p, <<Member, graph.members[graph.root][i]>>) \in Children(p)
    BY <2>1, <2>3, <1>2 DEF MembersUpTo
  <2>5. Append(p, <<Member, graph.members[graph.root][i]>>) = <<<<Member, graph.members[graph.root][i]>>>>
    BY <1>6
  <2> QED
    BY <2>4, <2>5 DEF Children
<1> QED
  BY <1>1, <1>3, <1>5, <1>6, StartsIs

\* What a step has in which the tasks of a call start.
LEMMA StartsFacts ==
  ASSUME WalkTypes, WalkTree, NEW p \in DOMAIN calls, Starts(p)
  PROVE  /\ graph' = graph /\ visited' = visited /\ aborted' = aborted /\ failures' = failures
         /\ addFailed' = addFailed /\ announced' = announced
         /\ Packages' = Packages /\ Loaded' = Loaded /\ Specifiers' = Specifiers /\ Ways' = Ways /\ WalkType' = WalkType
         /\ DOMAIN calls' = DOMAIN calls \union TasksOf(p)
         /\ \A q \in DOMAIN calls :
              /\ calls'[q].pkg = calls[q].pkg /\ calls'[q].snapshot = calls[q].snapshot
              /\ q # p => calls'[q] = calls[q]
              /\ calls'[q].at \in {calls[q].at, "dependencies"}
              /\ KindsOf(q)' = KindsOf(q)
              /\ q # <<>> => Parent(q) \in DOMAIN calls
         /\ \A q \in DOMAIN calls : q # <<>> /\ Parent(q) = p => IsMember(q) /\ Walks(q, "done")
         /\ \A key \in DOMAIN lock : key \in DOMAIN lock'
         /\ calls[p].pkg \in DOMAIN lock' /\ calls[p].pkg \in Packages
         /\ calls'[p].at = "dependencies" /\ calls[p].at \in {"adding", "members"}
         /\ \A t \in TasksOf(p) :
              /\ IsDependency(t) /\ ~IsMember(t) /\ Parent(t) = p /\ t # <<>> /\ t \notin DOMAIN calls
              /\ calls'[t].pkg = Unknown /\ calls'[t].snapshot = calls[p].snapshot
              /\ calls'[t].at = IF aborted THEN "failed" ELSE "resolving"
              /\ Kind(t) \in KindsOf(p) /\ Specifier(t) \in graph.deps[calls[p].pkg][Kind(t)]
<1>1. graph' = graph
  BY DEF Starts
<1>2. /\ Packages' = Packages /\ Loaded' = Loaded /\ Specifiers' = Specifiers /\ Ways' = Ways /\ WalkType' = WalkType
  BY <1>1, SameGraph
<1>3. \A q \in DOMAIN calls :
        /\ calls'[q].pkg = calls[q].pkg /\ calls'[q].snapshot = calls[q].snapshot
        /\ q # p => calls'[q] = calls[q]
        /\ calls'[q].at \in {calls[q].at, "dependencies"}
  BY DEF Starts
<1>4. \A q \in DOMAIN calls : KindsOf(q)' = KindsOf(q)
  BY <1>1, <1>3 DEF KindsOf
<1>5. \A q \in DOMAIN calls : q # <<>> => Parent(q) \in DOMAIN calls
  BY CallFacts
<1>6. calls[p].pkg \in Packages
  BY DEF Starts
<1>7. \A t \in TasksOf(p) :
        /\ IsDependency(t) /\ ~IsMember(t) /\ Parent(t) = p /\ t # <<>>
        /\ Kind(t) \in KindsOf(p) /\ Specifier(t) \in graph.deps[calls[p].pkg][Kind(t)]
  BY <1>6, TaskFacts
<1>8. \A t \in TasksOf(p) :
        /\ t \notin DOMAIN calls
        /\ calls'[t].pkg = Unknown /\ calls'[t].snapshot = calls[p].snapshot
        /\ calls'[t].at = IF aborted THEN "failed" ELSE "resolving"
  BY DEF Starts
<1> QED
  BY <1>1, <1>2, <1>3, <1>4, <1>5, <1>6, <1>7, <1>8 DEF Starts

\* The types hold when the dependencies of a call start.
LEMMA StartsTypes ==
  ASSUME WalkTypes, WalkTree, NEW p \in DOMAIN calls, Starts(p)
  PROVE  WalkTypes'
<1>1. /\ graph' = graph /\ visited' = visited /\ aborted' = aborted /\ failures' = failures
      /\ addFailed' = addFailed /\ announced' = announced
      /\ Packages' = Packages /\ Loaded' = Loaded /\ Specifiers' = Specifiers /\ Ways' = Ways /\ WalkType' = WalkType
      /\ DOMAIN calls' = DOMAIN calls \union TasksOf(p)
  BY StartsFacts
<1>2. \A q \in DOMAIN calls' : q \in Ways /\ calls'[q] \in WalkType
  <2>1. \A q \in DOMAIN calls : q \in Ways /\ calls'[q] \in WalkType
    BY DEF WalkTypes, Starts
  <2>2. \A t \in TasksOf(p) : t \in Ways /\ calls'[t] \in WalkType
    BY DEF Starts, TasksOf
  <2> QED
    BY <2>1, <2>2, <1>1
<1>3. replaced' \in BOOLEAN
  BY DEF Starts, WalkTypes, Begun
<1>4. DOMAIN lock' \subseteq Packages \union Specifiers
  BY DEF Starts, WalkTypes
<1>5. \A key \in DOMAIN lock' : DOMAIN lock'[key] \subseteq {Regular, Dev}
  BY DEF Starts, WalkTypes
<1> QED
  BY <1>1, <1>2, <1>3, <1>4, <1>5 DEF WalkTypes

\* The tasks were reached by their call, whose package is in the lock.
LEMMA StartsTree ==
  ASSUME WalkTypes, WalkTree, NEW p \in DOMAIN calls, Starts(p)
  PROVE  WalkTree'
<1>1. /\ graph' = graph /\ visited' = visited /\ announced' = announced
      /\ Packages' = Packages
      /\ DOMAIN calls' = DOMAIN calls \union TasksOf(p)
      /\ \A q \in DOMAIN calls :
           /\ calls'[q].pkg = calls[q].pkg /\ calls'[q].snapshot = calls[q].snapshot
           /\ q # p => calls'[q] = calls[q]
           /\ calls'[q].at \in {calls[q].at, "dependencies"}
           /\ q # <<>> => Parent(q) \in DOMAIN calls
      /\ \A key \in DOMAIN lock : key \in DOMAIN lock'
      /\ calls[p].pkg \in DOMAIN lock' /\ calls[p].pkg \in Packages
      /\ calls'[p].at = "dependencies"
  BY StartsFacts
<1>2. \A t \in TasksOf(p) :
        /\ IsDependency(t) /\ ~IsMember(t) /\ Parent(t) = p /\ t # <<>>
        /\ calls'[t].pkg = Unknown /\ calls'[t].snapshot = calls[p].snapshot
        /\ calls'[t].at \in {"failed", "resolving"}
        /\ Kind(t) \in KindsOf(p) /\ Specifier(t) \in graph.deps[calls[p].pkg][Kind(t)]
  BY StartsFacts
<1>3. ASSUME NEW q \in DOMAIN calls
      PROVE  Reached(q)'
  <2>1. Reached(q) /\ (IsDependency(q) => q # <<>>) /\ (IsMember(q) => q # <<>>)
    BY CallFacts DEF WalkTree
  <2>2. CASE q # p
    <3>1. calls'[q] = calls[q]
      BY <2>2, <1>1
    <3>2. q # <<>> =>
            /\ calls'[Parent(q)].pkg = calls[Parent(q)].pkg
            /\ calls'[Parent(q)].snapshot = calls[Parent(q)].snapshot
            /\ calls'[Parent(q)].at \in {calls[Parent(q)].at, "dependencies", "done", "failed", "thrown"}
      BY <1>1
    <3> QED
      BY <3>1, <3>2, <1>1, ReachedStays
  <2>3. CASE q = p
    <3>1. p # <<>> => /\ calls'[Parent(p)].pkg = calls[Parent(p)].pkg
                      /\ calls'[Parent(p)].snapshot = calls[Parent(p)].snapshot
                      /\ calls'[Parent(p)].at \in {calls[Parent(p)].at, "dependencies"}
      BY <1>1
    <3>2. (IsMember(p) =>
             /\ calls[p].pkg = Specifier(p) /\ calls[p].snapshot = p
             /\ calls[Parent(p)].at \notin {"adding", "resolving"})'
      BY <2>1, <2>3, <3>1, <1>1 DEF Reached
    <3>3. (IsDependency(p) =>
             /\ calls[Parent(p)].at \notin {"adding", "members", "resolving"}
             /\ calls[p].snapshot = calls[Parent(p)].snapshot
             /\ calls[p].pkg \in {Unknown, graph.resolution[Specifier(p)]}
             /\ EntryPackage(p) \in Packages /\ InLock(EntryPackage(p))
             /\ Kind(p) \in DOMAIN graph.deps[EntryPackage(p)]
             /\ Specifier(p) \in graph.deps[EntryPackage(p)][Kind(p)])'
      BY <2>1, <2>3, <3>1, <1>1 DEF Reached, InLock, EntryPackage
    <3>4. (/\ calls[p].snapshot \in DOMAIN visited
           /\ calls[p].pkg \in Packages /\ InLock(calls[p].pkg))'
      BY <2>1, <2>3, <1>1 DEF Reached, InLock
    <3> QED
      BY <2>3, <3>2, <3>3, <3>4, <1>1 DEF Reached, Walks
  <2> QED
    BY <2>2, <2>3
<1>4. ASSUME NEW t \in TasksOf(p)
      PROVE  Reached(t)'
  <2>1. /\ calls'[t].snapshot = calls[p].snapshot /\ calls'[t].at \in {"failed", "resolving"} /\ calls'[t].pkg = Unknown
        /\ Parent(t) = p /\ IsDependency(t) /\ ~IsMember(t)
    BY <1>2
  <2>2. calls[p].snapshot \in DOMAIN visited
    BY DEF WalkTree, Reached
  <2>3. EntryPackage(t)' = calls[p].pkg
    BY <2>1, <1>1 DEF EntryPackage
  <2>4. Kind(t) \in DOMAIN graph.deps[calls[p].pkg] /\ Specifier(t) \in graph.deps[calls[p].pkg][Kind(t)]
    BY <1>2 DEF KindsOf
  <2>5. (/\ calls[Parent(t)].at \notin {"adding", "members", "resolving"}
         /\ calls[t].snapshot = calls[Parent(t)].snapshot
         /\ calls[t].pkg \in {Unknown, graph.resolution[Specifier(t)]}
         /\ EntryPackage(t) \in Packages /\ InLock(EntryPackage(t))
         /\ Kind(t) \in DOMAIN graph.deps[EntryPackage(t)]
         /\ Specifier(t) \in graph.deps[EntryPackage(t)][Kind(t)])'
    BY <2>1, <2>3, <2>4, <1>1 DEF InLock
  <2> QED
    BY <2>1, <2>2, <2>5, <1>1 DEF Reached, Walks
<1>5. (calls[<<>>].pkg = graph.root /\ calls[<<>>].snapshot = <<>> /\ graph.root \in visited[<<>>])'
  <2>1. <<>> \in DOMAIN calls
    BY CallFacts
  <2> QED
    BY <2>1, <1>1 DEF WalkTree
<1>6. (\A q \in DOMAIN calls : \A n \in 0..Len(q) : SubSeq(q, 1, n) \in DOMAIN calls)'
  <2>1. \A q \in DOMAIN calls : \A n \in 0..Len(q) : SubSeq(q, 1, n) \in DOMAIN calls
    BY DEF WalkTree
  <2>2. \A t \in TasksOf(p) : \A n \in 0..Len(t) : SubSeq(t, 1, n) \in DOMAIN calls \union {t}
    BY <1>1, TaskFacts
  <2> QED
    BY <2>1, <2>2, <1>1
<1> QED
  BY <1>1, <1>3, <1>4, <1>5, <1>6 DEF WalkTree

\* The root starts its dependencies when all of its workspaces were walked.
LEMMA StartsTurn ==
  ASSUME WalkTypes, WalkTree, MembersInTurn, NEW p \in DOMAIN calls, Starts(p)
  PROVE  MembersInTurn'
<1>1. /\ graph' = graph /\ DOMAIN calls' = DOMAIN calls \union TasksOf(p)
      /\ calls'[p].at = "dependencies"
      /\ \A q \in DOMAIN calls : q # p => calls'[q] = calls[q]
      /\ \A t \in TasksOf(p) : Parent(t) = p /\ calls'[t].at \in {"failed", "resolving"}
  BY StartsFacts
<1>2. ASSUME NEW q \in DOMAIN calls', calls'[q].at = "members"
      PROVE  /\ q \in DOMAIN calls /\ calls'[q] = calls[q] /\ Walks(q, "members")
             /\ Children(q)' = Children(q) /\ \A n : MembersUpTo(q, n)' = MembersUpTo(q, n)
  <2>1. q \in DOMAIN calls /\ q # p /\ calls'[q] = calls[q] /\ calls[q].at = "members"
    BY <1>1, <1>2
  <2>2. Children(q)' = Children(q)
    BY <2>1, <1>1 DEF Children
  <2>3. \A n : MembersUpTo(q, n)' = MembersUpTo(q, n)
    BY <2>1, <1>1 DEF MembersUpTo
  <2> QED
    BY <2>1, <2>2, <2>3 DEF Walks
<1>3. (\A q \in DOMAIN calls : Walks(q, "members") =>
         \E n \in 0..Len(graph.members[calls[q].pkg]) : Children(q) = MembersUpTo(q, n))'
  <2> SUFFICES ASSUME NEW q \in DOMAIN calls', calls'[q].at = "members"
               PROVE  (\E n \in 0..Len(graph.members[calls[q].pkg]) : Children(q) = MembersUpTo(q, n))'
    BY DEF Walks
  <2>1. PICK n \in 0..Len(graph.members[calls[q].pkg]) : Children(q) = MembersUpTo(q, n)
    BY <1>2 DEF MembersInTurn
  <2>2. Children(q)' = MembersUpTo(q, n)' /\ n \in 0..Len(graph'.members[calls'[q].pkg])
    BY <2>1, <1>1, <1>2
  <2> QED
    BY <2>2
<1>4. (graph.root \notin Loaded /\ calls[<<>>].at \notin {"adding", "members", "thrown"} =>
         \A i \in DOMAIN graph.members[graph.root] : <<<<Member, graph.members[graph.root][i]>>>> \in DOMAIN calls)'
  <2>1. <<>> \in DOMAIN calls
    BY CallFacts
  <2>2. CASE p = <<>>
    BY <2>2, <1>1 DEF Starts
  <2>3. CASE p # <<>>
    <3>1. calls'[<<>>] = calls[<<>>]
      BY <2>1, <2>3, <1>1
    <3> QED
      BY <3>1, <1>1 DEF MembersInTurn, Loaded
  <2> QED
    BY <2>2, <2>3
<1> QED
  BY <1>3, <1>4 DEF MembersInTurn, Loaded

\* The entry gets the kinds that its tasks will write to.
LEMMA StartsAwaited ==
  ASSUME WalkTypes, WalkTree, WalksAreAwaited, NEW p \in DOMAIN calls, Starts(p)
  PROVE  WalksAreAwaited'
<1> SUFFICES ASSUME Steady'
             PROVE  (NoneFailed /\ DoneBelow /\ KindsInEntry /\ FoundUnderWay)'
  BY DEF WalksAreAwaited
<1>1. /\ graph' = graph /\ visited' = visited /\ aborted' = aborted /\ addFailed' = addFailed
      /\ DOMAIN calls' = DOMAIN calls \union TasksOf(p)
      /\ \A q \in DOMAIN calls :
           /\ calls'[q].pkg = calls[q].pkg
           /\ q # p => calls'[q] = calls[q]
           /\ KindsOf(q)' = KindsOf(q)
           /\ q # <<>> => Parent(q) \in DOMAIN calls
      /\ \A q \in DOMAIN calls : q # <<>> /\ Parent(q) = p => IsMember(q) /\ Walks(q, "done")
      /\ \A key \in DOMAIN lock : key \in DOMAIN lock'
      /\ calls[p].pkg \in DOMAIN lock' /\ calls[p].pkg \in Packages
      /\ calls'[p].at = "dependencies" /\ calls[p].at \in {"adding", "members"}
  BY StartsFacts
<1>2. Steady /\ ~Begun(calls[p].pkg)
  <2>1. replaced' = (replaced \/ Begun(calls[p].pkg))
    BY DEF Starts
  <2>2. ~replaced' /\ ~aborted /\ ~addFailed
    BY <1>1 DEF Steady
  <2> QED
    BY <2>1, <2>2, Zenon DEF Steady
<1>3. NoneFailed /\ DoneBelow /\ KindsInEntry /\ FoundUnderWay
  BY <1>2 DEF WalksAreAwaited
<1>4. \A t \in TasksOf(p) :
        /\ IsDependency(t) /\ ~IsMember(t) /\ Parent(t) = p /\ t \notin DOMAIN calls
        /\ calls'[t].at = "resolving" /\ Kind(t) \in KindsOf(p)
  BY <1>2, StartsFacts DEF Steady
<1>5. NoneFailed'
  BY <1>1, <1>3, <1>4 DEF NoneFailed
<1>6. /\ DOMAIN lock'[calls[p].pkg] = KindsOf(p) /\ \A k \in KindsOf(p) : lock'[calls[p].pkg][k] = Nothing
      /\ DOMAIN lock' = DOMAIN lock \union {calls[p].pkg}
      /\ \A key \in DOMAIN lock : key # calls[p].pkg => lock'[key] = lock[key]
  BY <1>2 DEF Starts
<1>7. \A key \in DOMAIN lock : key = calls[p].pkg => DOMAIN lock[key] = {}
  BY <1>2, NothingIs DEF Begun
<1>8. DoneBelow'
  <2>1. ASSUME NEW x \in DOMAIN calls', NEW q \in DOMAIN calls', Below(x, q), calls'[q].at = "done"
        PROVE  calls'[x].at = "done"
    <3>1. q \in DOMAIN calls /\ q # p /\ calls[q].at = "done"
      BY <2>1, <1>1, <1>4
    <3>2. CASE x \in DOMAIN calls
      <4>1. calls[x].at = "done"
        BY <2>1, <3>1, <3>2, <1>3 DEF DoneBelow, Walks
      <4>2. x # p
        BY <4>1, <1>1
      <4> QED
        BY <4>1, <4>2, <3>2, <1>1
    <3>3. CASE x \in TasksOf(p)
      <4>1. PICK s \in Steps : x = Append(p, s)
        <5>1. <<Kind(x), Specifier(x)>> \in Steps /\ x = Append(p, <<Kind(x), Specifier(x)>>)
          BY <3>3, <1>1, TaskFacts
        <5> QED
          BY <5>1
      <4>2. p \in Seq(Steps) /\ q \in Seq(Steps)
        BY <3>1, CallFacts DEF Ways
      <4>3. q = x \/ Below(p, q)
        BY <4>1, <4>2, <2>1, WayBelow
      <4>4. Below(p, q)
        BY <4>3, <3>1, <3>3, <1>4
      <4>5. calls[p].at = "done"
        BY <4>4, <3>1, <1>3 DEF DoneBelow, Walks
      <4> QED
        BY <4>5, <1>1
    <3> QED
      BY <3>2, <3>3, <1>1
  <2>2. ASSUME NEW x \in DOMAIN calls', IsMember(x), calls'[Parent(x)].at = "dependencies"
        PROVE  calls'[x].at = "done"
    <3>1. x \in DOMAIN calls /\ x # <<>>
      BY <2>2, <1>1, <1>4 DEF IsMember
    <3>2. CASE Parent(x) = p
      <4>1. calls[x].at = "done"
        BY <3>1, <3>2, <1>1 DEF Walks
      <4>2. x # p
        BY <4>1, <1>1
      <4> QED
        BY <4>1, <4>2, <3>1, <1>1
    <3>3. CASE Parent(x) # p
      <4>1. calls[Parent(x)].at = "dependencies"
        BY <2>2, <3>1, <3>3, <1>1
      <4>2. calls[x].at = "done"
        BY <4>1, <2>2, <3>1, <1>3 DEF DoneBelow, Walks
      <4>3. x # p
        BY <4>2, <1>1
      <4> QED
        BY <4>2, <4>3, <3>1, <1>1
    <3> QED
      BY <3>2, <3>3
  <2> QED
    BY <2>1, <2>2 DEF DoneBelow, Walks
<1>9. KindsInEntry'
  <2>1. ASSUME NEW x \in DOMAIN calls', calls'[x].at = "dependencies"
        PROVE  KindsOf(x)' \subseteq DOMAIN lock'[calls'[x].pkg]
    <3>1. x \in DOMAIN calls
      BY <2>1, <1>1, <1>4
    <3>2. CASE x = p
      BY <3>2, <1>1, <1>6
    <3>3. CASE x # p
      <4>1. calls'[x] = calls[x] /\ calls[x].at = "dependencies"
        BY <2>1, <3>1, <3>3, <1>1
      <4>2. KindsOf(x) \subseteq DOMAIN lock[calls[x].pkg] /\ calls[x].pkg \in DOMAIN lock
        BY <3>1, <4>1, <1>3 DEF KindsInEntry, Walks, WalkTree, Reached, InLock
      <4>3. KindsOf(x)' = KindsOf(x)
        BY <3>1, <1>1
      <4>4. CASE calls[x].pkg = calls[p].pkg
        BY <4>1, <4>2, <4>3, <4>4, <1>7
      <4>5. CASE calls[x].pkg # calls[p].pkg
        BY <4>1, <4>2, <4>3, <4>5, <1>6
      <4> QED
        BY <4>4, <4>5
    <3> QED
      BY <3>2, <3>3
  <2>2. ASSUME NEW x \in DOMAIN calls', IsDependency(x)
        PROVE  Kind(x) \in DOMAIN lock'[EntryPackage(x)']
    <3>1. CASE x \in TasksOf(p)
      BY <3>1, <1>1, <1>4, <1>6 DEF EntryPackage
    <3>2. CASE x \in DOMAIN calls
      <4>1. x # <<>> /\ Parent(x) \in DOMAIN calls
        BY <2>2, <3>2, CallFacts
      <4>2. EntryPackage(x)' = EntryPackage(x)
        BY <4>1, <1>1 DEF EntryPackage
      <4>3. Kind(x) \in DOMAIN lock[EntryPackage(x)] /\ EntryPackage(x) \in DOMAIN lock
        BY <2>2, <3>2, <1>3 DEF KindsInEntry, WalkTree, Reached, InLock
      <4>4. EntryPackage(x) # calls[p].pkg
        BY <4>3, <1>7
      <4> QED
        BY <4>2, <4>3, <4>4, <1>6
    <3> QED
      BY <3>1, <3>2, <1>1
  <2> QED
    BY <2>1, <2>2 DEF KindsInEntry, Walks
<1>10. \A pkg : UnderWay(pkg) => UnderWayNext(pkg)
  <2>1. \A q \in DOMAIN calls : Walks(q, "adding") =>
          /\ q \in DOMAIN calls' /\ calls'[q].pkg = calls[q].pkg
          /\ calls'[q].at = "adding" \/ calls[q].pkg \in DOMAIN lock'
    BY <1>1 DEF Walks
  <2> QED
    BY <2>1, <1>1, UnderWayStays
<1>11. FoundUnderWay'
  <2>1. ASSUME NEW key \in DOMAIN lock' \ Loaded, NEW k \in DOMAIN lock'[key], NEW u \in DOMAIN lock'[key][k]
        PROVE  UnderWayNext(lock'[key][k][u])
    <3>1. key # calls[p].pkg
      BY <1>6, NothingIs
    <3>2. key \in DOMAIN lock /\ lock'[key] = lock[key]
      BY <3>1, <1>6
    <3> QED
      BY <3>2, <1>3, <1>10 DEF FoundUnderWay
  <2>2. \A x \in DOMAIN calls' : IsMember(x) => UnderWayNext(calls'[x].pkg)
    BY <1>1, <1>3, <1>4, <1>10 DEF FoundUnderWay
  <2>3. \A s \in DOMAIN visited' : \A pkg \in visited'[s] : UnderWayNext(pkg)
    BY <1>1, <1>3, <1>10 DEF FoundUnderWay
  <2> QED
    BY <2>1, <2>2, <2>3, <1>1, FoundUnderWayNext
<1> QED
  BY <1>5, <1>8, <1>9, <1>11

\* The call that starts its dependencies made the entry; no other entry was touched.
LEMMA StartsMade ==
  ASSUME WalkTypes, WalkTree, WalksAreAwaited, EntriesAreMade, NEW p \in DOMAIN calls, Starts(p)
  PROVE  EntriesAreMade'
<1> SUFFICES ASSUME Steady', failures' = 0
             PROVE  /\ (\A pkg \in Packages \ Loaded : InLock(pkg) => \E q \in DOMAIN calls : Made(pkg, q))'
                    /\ (\A q \in DOMAIN calls : IsDependency(q) /\ ~Walks(q, "resolving") => Recorded(q))'
  BY DEF EntriesAreMade
<1>1. /\ graph' = graph /\ aborted' = aborted /\ addFailed' = addFailed /\ failures' = failures /\ Packages' = Packages /\ Loaded' = Loaded
      /\ DOMAIN calls' = DOMAIN calls \union TasksOf(p)
      /\ \A q \in DOMAIN calls :
           /\ calls'[q].pkg = calls[q].pkg
           /\ q # p => calls'[q] = calls[q]
           /\ KindsOf(q)' = KindsOf(q)
      /\ \A key \in DOMAIN lock : key \in DOMAIN lock'
      /\ calls[p].pkg \in Packages /\ calls'[p].at = "dependencies"
  BY StartsFacts
<1>2. Steady /\ ~Begun(calls[p].pkg)
  <2>1. replaced' = (replaced \/ Begun(calls[p].pkg))
    BY DEF Starts
  <2>2. ~replaced' /\ ~aborted /\ ~addFailed
    BY <1>1 DEF Steady
  <2> QED
    BY <2>1, <2>2, Zenon DEF Steady
<1>3. \A t \in TasksOf(p) : calls'[t].at = "resolving"
  BY <1>2, StartsFacts DEF Steady
<1>4. /\ \A pkg \in Packages \ Loaded : InLock(pkg) => \E q \in DOMAIN calls : Made(pkg, q)
      /\ \A q \in DOMAIN calls : IsDependency(q) /\ ~Walks(q, "resolving") => Recorded(q)
      /\ KindsInEntry
  BY <1>1, <1>2 DEF EntriesAreMade, WalksAreAwaited
<1>5. /\ DOMAIN lock'[calls[p].pkg] = KindsOf(p)
      /\ DOMAIN lock' = DOMAIN lock \union {calls[p].pkg}
      /\ \A key \in DOMAIN lock : key # calls[p].pkg => lock'[key] = lock[key]
  BY <1>2 DEF Starts
<1>6. ASSUME NEW pkg \in Packages \ Loaded, pkg \in DOMAIN lock'
      PROVE  \E q \in DOMAIN calls' : Made(pkg, q)'
  <2>1. CASE pkg = calls[p].pkg
    <3>1. \A k \in KindsOf(p) : \A u \in graph.deps[calls[p].pkg][k] : Append(p, <<k, u>>) \in TasksOf(p)
      BY <1>1, TaskFacts
    <3>2. Made(pkg, p)'
      BY <2>1, <3>1, <1>1, <1>5 DEF Made, Walks
    <3> QED
      BY <3>2, <1>1
  <2>2. CASE pkg # calls[p].pkg
    <3>1. pkg \in DOMAIN lock /\ lock'[pkg] = lock[pkg]
      BY <2>2, <1>5, <1>6
    <3>2. PICK q \in DOMAIN calls : Made(pkg, q)
      BY <3>1, <1>4 DEF InLock
    <3>3. q # p
      BY <2>2, <3>2 DEF Made
    <3>4. calls'[q] = calls[q] /\ KindsOf(q)' = KindsOf(q)
      BY <3>3, <1>1
    <3>5. Made(pkg, q)'
      BY <3>1, <3>2, <3>4, <1>1 DEF Made, Walks
    <3> QED
      BY <3>5, <1>1
  <2> QED
    BY <2>1, <2>2
<1>7. ASSUME NEW q \in DOMAIN calls', IsDependency(q), calls'[q].at # "resolving"
      PROVE  Recorded(q)'
  <2>1. q \in DOMAIN calls
    BY <1>1, <1>3, <1>7
  <2>2. q # <<>> /\ Parent(q) \in DOMAIN calls
    BY <2>1, <1>7, CallFacts
  <2>3. q # p \/ ~Walks(q, "resolving")
    BY StartsFacts DEF Walks
  <2>4. Recorded(q)
    BY <2>1, <2>3, <1>1, <1>4, <1>7 DEF Walks
  <2>5. EntryPackage(q)' = EntryPackage(q)
    BY <2>2, <1>1 DEF EntryPackage
  <2>6. Kind(q) \in DOMAIN lock[EntryPackage(q)] /\ EntryPackage(q) \in DOMAIN lock
    BY <2>1, <1>4, <1>7 DEF KindsInEntry, WalkTree, Reached, InLock
  <2>7. EntryPackage(q) # calls[p].pkg
    BY <2>6, <1>2, NothingIs DEF Begun
  <2>8. lock'[EntryPackage(q)'] = lock[EntryPackage(q)]
    BY <2>5, <2>6, <2>7, <1>5
  <2> QED
    BY <2>4, <2>8, <1>1 DEF Recorded, InLock
<1> QED
  BY <1>6, <1>7, <1>1 DEF InLock, Walks

\* When the workspaces of the root are done, so is all that is below it.
LEMMA DoneUnderRoot ==
  ASSUME WalkTypes, WalkTree, DoneBelow,
         \A q \in DOMAIN calls : q # <<>> /\ Parent(q) = <<>> => Walks(q, "done"),
         NEW x \in DOMAIN calls, x # <<>>
  PROVE  Walks(x, "done")
<1>1. x \in Seq(Steps) /\ <<>> \in Seq(Steps) /\ <<>> \in Ways
  BY CallFacts DEF Ways
<1>2. Below(x, <<>>)
  BY <1>1, WayBelow
<1>3. PICK c \in DOMAIN calls : c # <<>> /\ Parent(c) = <<>> /\ Below(x, c)
  BY <1>1, <1>2, ThroughAChild
<1> QED
  BY <1>3 DEF DoneBelow

\* Without nested workspaces the entry was not begun before.
LEMMA StartsOne ==
  ASSUME WalkTypes, WalkTree, WalksAreAwaited, OneWalk, NEW p \in DOMAIN calls, Starts(p)
  PROVE  OneWalk'
<1>1. /\ graph' = graph /\ visited' = visited /\ aborted' = aborted /\ addFailed' = addFailed
      /\ announced' = announced /\ Packages' = Packages
      /\ DOMAIN calls' = DOMAIN calls \union TasksOf(p)
      /\ \A q \in DOMAIN calls :
           /\ calls'[q].pkg = calls[q].pkg /\ calls'[q].snapshot = calls[q].snapshot
           /\ q # p => calls'[q] = calls[q]
           /\ q # <<>> => Parent(q) \in DOMAIN calls
      /\ \A q \in DOMAIN calls : q # <<>> /\ Parent(q) = p => IsMember(q) /\ Walks(q, "done")
      /\ \A key \in DOMAIN lock : key \in DOMAIN lock'
      /\ calls[p].pkg \in DOMAIN lock' /\ calls[p].pkg \in Packages
      /\ calls'[p].at = "dependencies" /\ calls[p].at \in {"adding", "members"}
  BY StartsFacts
<1>2. \A t \in TasksOf(p) :
        /\ t # <<>> /\ t \notin DOMAIN calls
        /\ calls'[t].snapshot = calls[p].snapshot /\ calls'[t].at \in {"failed", "resolving"}
  BY StartsFacts
<1>3. NestedWorkspaces' = NestedWorkspaces
  BY <1>1 DEF NestedWorkspaces
<1> SUFFICES ASSUME ~NestedWorkspaces, ~addFailed
             PROVE  OneAtATime' /\ OneVisited'
  BY <1>1, <1>3 DEF OneWalk
<1>4. OneAtATime /\ OneVisited
  BY DEF OneWalk
<1>5. <<>> \in DOMAIN calls /\ calls[<<>>].pkg = graph.root
  BY CallFacts DEF WalkTree
<1>6. \A x \in DOMAIN calls :
        /\ Walks(x, "adding") => ~Begun(calls[x].pkg)
        /\ Walks(x, "members") => x = <<>> /\ ~Begun(graph.root)
        /\ x # <<>> => ~Walks(<<>>, "adding") /\ InLock(graph.root)
        /\ x # <<>> /\ Walks(x, "adding") => calls[x].pkg # graph.root
  BY <1>4 DEF OneAtATime
<1>7. ~Begun(calls[p].pkg) /\ (p = <<>> \/ Walks(p, "adding"))
  BY <1>1, <1>5, <1>6 DEF Walks
<1>8. ~replaced'
  <2>1. replaced' = (replaced \/ Begun(calls[p].pkg))
    BY DEF Starts
  <2>2. ~replaced
    BY <1>4 DEF OneAtATime
  <2> QED
    BY <2>1, <2>2, <1>7
<1>9. \A x \in DOMAIN calls' :
        /\ calls'[x].at = "adding" => x \in DOMAIN calls /\ x # p /\ Walks(x, "adding")
        /\ calls'[x].at = "members" => x \in DOMAIN calls /\ x # p /\ Walks(x, "members")
  BY <1>1, <1>2 DEF Walks
<1>10. ASSUME NEW key, key # calls[p].pkg, ~Begun(key)
       PROVE  ~Begun(key)'
  BY <1>10 DEF Starts, Begun
<1>11. \A pkg : UnderWay(pkg) => UnderWayNext(pkg)
  <2>1. \A q \in DOMAIN calls : Walks(q, "adding") =>
          /\ q \in DOMAIN calls' /\ calls'[q].pkg = calls[q].pkg
          /\ calls'[q].at = "adding" \/ calls[q].pkg \in DOMAIN lock'
    BY <1>1 DEF Walks
  <2> QED
    BY <2>1, <1>1, UnderWayStays
<1>12. OneAtATime'
  <2>1. (\A pkg \in Packages : announced[pkg] <= 1 /\ (announced[pkg] > 0 => UnderWay(pkg)))'
    BY <1>1, <1>4, <1>11 DEF OneAtATime, UnderWay, UnderWayNext, InLock, Walks
  <2>2. (\A x, q \in DOMAIN calls :
           Walks(x, "adding") /\ Walks(q, "adding") /\ calls[x].pkg = calls[q].pkg => x = q)'
    BY <1>1, <1>4, <1>9 DEF OneAtATime, Walks
  <2>3. ASSUME NEW x \in DOMAIN calls', calls'[x].at = "adding"
        PROVE  ~Begun(calls[x].pkg)' /\ (x # <<>> => calls[x].pkg # graph.root)
    <3>1. x \in DOMAIN calls /\ x # p /\ Walks(x, "adding")
      BY <2>3, <1>9
    <3>2. PICK key : key = calls[x].pkg
      OBVIOUS
    <3>3. key # calls[p].pkg
      <4>1. CASE Walks(p, "adding")
        BY <4>1, <3>1, <3>2, <1>4 DEF OneAtATime
      <4>2. CASE ~Walks(p, "adding")
        BY <4>2, <3>1, <3>2, <1>5, <1>6, <1>7
      <4> QED
        BY <4>1, <4>2
    <3>4. ~Begun(key)'
      BY <3>1, <3>2, <3>3, <1>6, <1>10
    <3>5. calls'[x].pkg = key
      BY <3>1, <3>2, <1>1
    <3> QED
      BY <3>1, <3>2, <3>4, <3>5, <1>6 DEF Begun
  <2>4. ASSUME NEW x \in DOMAIN calls', calls'[x].at = "members"
        PROVE  x = <<>> /\ ~Begun(graph.root)'
    <3>1. x \in DOMAIN calls /\ x # p /\ Walks(x, "members")
      BY <2>4, <1>9
    <3>2. x = <<>> /\ ~Begun(graph.root)
      BY <3>1, <1>6
    <3>3. calls[p].pkg # graph.root
      BY <3>1, <3>2, <1>6, <1>7
    <3>4. PICK key : key = graph.root
      OBVIOUS
    <3>5. ~Begun(key)'
      BY <3>2, <3>3, <3>4, <1>10
    <3> QED
      BY <3>2, <3>4, <3>5, <1>1 DEF Begun
  <2>5. ASSUME NEW x \in DOMAIN calls', x # <<>>
        PROVE  calls'[<<>>].at # "adding" /\ graph.root \in DOMAIN lock'
    <3>1. CASE p = <<>>
      BY <3>1, <1>1, <1>5
    <3>2. CASE p # <<>>
      <4>1. ~Walks(<<>>, "adding") /\ InLock(graph.root)
        BY <3>2, <1>6
      <4>2. calls'[<<>>] = calls[<<>>]
        BY <3>2, <1>1, <1>5
      <4> QED
        BY <4>1, <4>2, <1>1 DEF Walks, InLock
    <3> QED
      BY <3>1, <3>2
  <2>6. (\A x \in DOMAIN calls :
           /\ Walks(x, "adding") => ~Begun(calls[x].pkg)
           /\ Walks(x, "members") => x = <<>> /\ ~Begun(graph.root)
           /\ x # <<>> => ~Walks(<<>>, "adding") /\ InLock(graph.root)
           /\ x # <<>> /\ Walks(x, "adding") => calls[x].pkg # graph.root)'
    <3> SUFFICES ASSUME NEW x \in DOMAIN calls'
                 PROVE  (/\ Walks(x, "adding") => ~Begun(calls[x].pkg)
                         /\ Walks(x, "members") => x = <<>> /\ ~Begun(graph.root)
                         /\ x # <<>> => ~Walks(<<>>, "adding") /\ InLock(graph.root)
                         /\ x # <<>> /\ Walks(x, "adding") => calls[x].pkg # graph.root)'
      OBVIOUS
    <3>1. calls'[x].at = "adding" => calls'[x].pkg = calls[x].pkg
      BY <1>1, <1>9
    <3> QED
      BY <3>1, <2>3, <2>4, <2>5, <1>1 DEF Walks, InLock
  <2> QED
    BY <2>1, <2>2, <2>6, <1>8 DEF OneAtATime
<1>13. OneVisited'
  <2> SUFFICES ASSUME ~aborted, NEW x \in DOMAIN calls' \ {<<>>}, calls'[x].at # "done"
               PROVE  calls'[x].snapshot = calls[p].snapshot
    BY <1>1 DEF OneVisited, Walks
  <2>1. CASE x \in TasksOf(p)
    BY <2>1, <1>2
  <2>2. CASE x \in DOMAIN calls
    <3>1. calls[x].at # "done"
      BY <2>2, <1>1
    <3>2. CASE p # <<>>
      BY <2>2, <3>1, <3>2, <1>1, <1>4 DEF OneVisited, Walks
    <3>3. CASE p = <<>>
      <4>1. DoneBelow
        BY <1>4 DEF WalksAreAwaited, Steady, OneAtATime
      <4>2. Walks(x, "done")
        BY <4>1, <3>3, <2>2, <1>1, DoneUnderRoot
      <4> QED
        BY <4>2, <3>1 DEF Walks
    <3> QED
      BY <3>2, <3>3
  <2> QED
    BY <2>1, <2>2, <1>1
<1> QED
  BY <1>12, <1>13

\* The dependencies of a call start.
LEMMA StartsInv ==
  ASSUME LockInv, NEW p \in DOMAIN calls, Starts(p)
  PROVE  LockInv'
<1> USE DEF LockInv
<1>1. WalkTypes'
  BY StartsTypes
<1>2. WalkTree'
  BY StartsTree
<1>3. MembersInTurn'
  BY StartsTurn
<1>4. WalksAreAwaited'
  BY StartsAwaited
<1>5. EntriesAreMade'
  BY StartsMade
<1>6. OneWalk'
  BY StartsOne
<1> QED
  BY <1>1, <1>2, <1>3, <1>4, <1>5, <1>6

\* A package that has workspaces is in the lock, and they are to be walked.
LEMMA ListedInv ==
  ASSUME LockInv, NEW p \in DOMAIN calls, Added(p), graph.members[calls[p].pkg] # <<>>
  PROVE  LockInv'
<1> USE DEF LockInv
<1>1. PICK pkg : pkg = calls[p].pkg
  OBVIOUS
<1>2. /\ calls[p].at = "adding" /\ lock' = Set(lock, pkg, Nothing) /\ calls' = Goes(p, "members")
      /\ replaced' = (replaced \/ Begun(pkg))
      /\ graph' = graph /\ visited' = visited /\ aborted' = aborted /\ failures' = failures
      /\ addFailed' = addFailed /\ announced' = announced
  BY <1>1 DEF Added
<1>3. /\ DOMAIN calls' = DOMAIN calls /\ calls'[p] \in WalkType /\ calls'[p].pkg = pkg
      /\ calls'[p].snapshot = calls[p].snapshot /\ calls'[p].at = "members"
      /\ \A q \in DOMAIN calls : q # p => calls'[q] = calls[q]
  BY <1>1, <1>2, GoesOn
<1>4. /\ DOMAIN lock' = DOMAIN lock \union {pkg} /\ lock'[pkg] = Nothing
      /\ \A key \in DOMAIN lock : key # pkg => lock'[key] = lock[key]
  BY <1>2 DEF Set, Update
<1>5. /\ Packages' = Packages /\ Loaded' = Loaded /\ Specifiers' = Specifiers /\ Ways' = Ways /\ WalkType' = WalkType
      /\ NestedWorkspaces' = NestedWorkspaces
  BY <1>2, SameGraph DEF NestedWorkspaces
<1>6. pkg \in Packages
  BY <1>1, <1>2 DEF WalkTree, Reached
<1>7. \A q \in DOMAIN calls : q # <<>> => Parent(q) \in DOMAIN calls /\ Parent(q) # p
  BY <1>2, CallFacts, NoChildren
<1>8. \A q \in DOMAIN calls :
        calls'[q].pkg = calls[q].pkg /\ calls'[q].snapshot = calls[q].snapshot /\ KindsOf(q)' = KindsOf(q)
  BY <1>1, <1>2, <1>3 DEF KindsOf
<1>9. \A q \in DOMAIN calls : q # <<>> => calls'[Parent(q)] = calls[Parent(q)]
  BY <1>3, <1>7
<1>10. WalkTypes'
  <2>1. \A q \in DOMAIN calls' : q \in Ways /\ calls'[q] \in WalkType
    BY <1>3 DEF WalkTypes
  <2>2. DOMAIN lock' \subseteq Packages \union Specifiers
    BY <1>4, <1>6 DEF WalkTypes
  <2>3. \A key \in DOMAIN lock' : DOMAIN lock'[key] \subseteq {Regular, Dev}
    BY <1>4, NothingIs DEF WalkTypes
  <2>4. replaced' \in BOOLEAN
    BY <1>2 DEF WalkTypes, Begun
  <2> QED
    BY <2>1, <2>2, <2>3, <2>4, <1>2, <1>3, <1>5 DEF WalkTypes
<1>11. WalkTree'
  <2>1. ASSUME NEW q \in DOMAIN calls
        PROVE  Reached(q)'
    <3>1. Reached(q) /\ (IsDependency(q) => q # <<>>) /\ (IsMember(q) => q # <<>>)
      BY CallFacts DEF WalkTree
    <3>2. CASE q # p
      <4>1. calls'[q] = calls[q] /\ (q # <<>> => calls'[Parent(q)] = calls[Parent(q)])
        BY <3>2, <1>3, <1>9
      <4> QED
        BY <4>1, <1>2, <1>4, ReachedStays
    <3>3. CASE q = p
      <4>1. (IsMember(p) =>
               /\ calls[p].pkg = Specifier(p) /\ calls[p].snapshot = p
               /\ calls[Parent(p)].at \notin {"adding", "resolving"})'
        BY <3>1, <3>3, <1>8, <1>9 DEF Reached
      <4>2. (IsDependency(p) =>
               /\ calls[Parent(p)].at \notin {"adding", "members", "resolving"}
               /\ calls[p].snapshot = calls[Parent(p)].snapshot
               /\ calls[p].pkg \in {Unknown, graph.resolution[Specifier(p)]}
               /\ EntryPackage(p) \in Packages /\ InLock(EntryPackage(p))
               /\ Kind(p) \in DOMAIN graph.deps[EntryPackage(p)]
               /\ Specifier(p) \in graph.deps[EntryPackage(p)][Kind(p)])'
        BY <3>1, <3>3, <1>2, <1>4, <1>5, <1>8, <1>9 DEF Reached, InLock, EntryPackage
      <4>3. (/\ calls[p].snapshot \in DOMAIN visited
             /\ calls[p].pkg \in Packages /\ InLock(calls[p].pkg))'
        BY <3>1, <3>3, <1>2, <1>3, <1>4, <1>5, <1>6 DEF Reached, InLock
      <4> QED
        BY <3>3, <4>1, <4>2, <4>3, <1>3 DEF Reached, Walks
    <3> QED
      BY <3>2, <3>3
  <2>2. (calls[<<>>].pkg = graph.root /\ calls[<<>>].snapshot = <<>> /\ graph.root \in visited[<<>>])'
    <3>1. <<>> \in DOMAIN calls
      BY CallFacts
    <3> QED
      BY <3>1, <1>2, <1>8 DEF WalkTree
  <2>3. (\A q \in DOMAIN calls : \A n \in 0..Len(q) : SubSeq(q, 1, n) \in DOMAIN calls)'
    BY <1>3 DEF WalkTree
  <2> QED
    BY <2>1, <2>2, <2>3, <1>3 DEF WalkTree
<1>12. MembersInTurn'
  <2>1. \A q, n : q \in DOMAIN calls => Children(q)' = Children(q) /\ MembersUpTo(q, n)' = MembersUpTo(q, n)
    BY <1>2, <1>3, <1>8 DEF Children, MembersUpTo
  <2>2. ASSUME NEW q \in DOMAIN calls, calls'[q].at = "members"
        PROVE  \E n \in 0..Len(graph'.members[calls'[q].pkg]) : Children(q)' = MembersUpTo(q, n)'
    <3>1. CASE q = p
      <4>1. Children(p) = {}
        BY <1>7 DEF Children
      <4>2. MembersUpTo(p, 0) = {}
        BY DEF MembersUpTo
      <4>3. 0 \in 0..Len(graph'.members[calls'[p].pkg])
        BY <1>2, <1>3, <1>6, GraphFacts, LenProperties
      <4> QED
        BY <4>1, <4>2, <4>3, <3>1, <2>1
    <3>2. CASE q # p
      <4>1. Walks(q, "members")
        BY <3>2, <2>2, <1>3 DEF Walks
      <4>2. PICK n \in 0..Len(graph.members[calls[q].pkg]) : Children(q) = MembersUpTo(q, n)
        BY <4>1 DEF MembersInTurn
      <4> QED
        BY <4>2, <2>1, <1>2, <1>8
    <3> QED
      BY <3>1, <3>2
  <2>3. calls'[<<>>].at \notin {"adding", "members", "thrown"} => calls[<<>>].at \notin {"adding", "members", "thrown"}
    BY <1>3, CallFacts
  <2> QED
    BY <2>2, <2>3, <1>2, <1>3 DEF MembersInTurn, Loaded, Walks
<1>13. Steady' => Steady /\ ~Begun(pkg)
  <2>1. ~replaced' /\ ~aborted /\ ~addFailed => ~replaced /\ ~Begun(pkg) /\ ~aborted /\ ~addFailed
    BY <1>2, Zenon
  <2> QED
    BY <2>1, <1>2 DEF Steady
<1>14. ASSUME ~Begun(pkg), NEW key \in DOMAIN lock, DOMAIN lock[key] # {}
       PROVE  key # pkg /\ lock'[key] = lock[key]
  BY <1>14, <1>4, NothingIs DEF Begun
<1>15. \A q : UnderWay(q) => UnderWayNext(q)
  <2>1. \A q \in DOMAIN calls : Walks(q, "adding") =>
          /\ q \in DOMAIN calls' /\ calls'[q].pkg = calls[q].pkg
          /\ calls'[q].at = "adding" \/ calls[q].pkg \in DOMAIN lock'
    BY <1>1, <1>3, <1>4, <1>8 DEF Walks
  <2>2. \A key \in DOMAIN lock : key \in DOMAIN lock'
    BY <1>4
  <2> QED
    BY <2>1, <2>2, UnderWayStays
<1>16. WalksAreAwaited'
  <2> SUFFICES ASSUME Steady'
               PROVE  (NoneFailed /\ DoneBelow /\ KindsInEntry /\ FoundUnderWay)'
    BY DEF WalksAreAwaited
  <2>1. NoneFailed /\ DoneBelow /\ KindsInEntry /\ FoundUnderWay /\ ~Begun(pkg)
    BY <1>13 DEF WalksAreAwaited
  <2>2. NoneFailed'
    BY <2>1, <1>3 DEF NoneFailed
  <2>3. DoneBelow'
    <3>1. \A q \in DOMAIN calls : calls'[q].at = "done" <=> calls[q].at = "done"
      BY <1>2, <1>3
    <3>2. \A q \in DOMAIN calls : IsMember(q) => calls'[Parent(q)] = calls[Parent(q)]
      BY <1>9, CallFacts
    <3> QED
      BY <3>1, <3>2, <2>1, <1>3 DEF DoneBelow, Walks
  <2>4. KindsInEntry'
    <3>1. ASSUME NEW x \in DOMAIN calls, calls'[x].at = "dependencies"
          PROVE  KindsOf(x)' \subseteq DOMAIN lock'[calls'[x].pkg]
      <4>1. calls'[x] = calls[x] /\ calls[x].at = "dependencies"
        BY <3>1, <1>3
      <4>2. KindsOf(x) \subseteq DOMAIN lock[calls[x].pkg] /\ calls[x].pkg \in DOMAIN lock
        BY <4>1, <2>1 DEF KindsInEntry, Walks, WalkTree, Reached, InLock
      <4>3. CASE KindsOf(x) = {}
        BY <4>3, <1>8
      <4>4. CASE KindsOf(x) # {}
        <5>1. lock'[calls[x].pkg] = lock[calls[x].pkg]
          BY <4>2, <4>4, <2>1, <1>14
        <5> QED
          BY <5>1, <4>1, <4>2, <1>8
      <4> QED
        BY <4>3, <4>4
    <3>2. ASSUME NEW x \in DOMAIN calls, IsDependency(x)
          PROVE  Kind(x) \in DOMAIN lock'[EntryPackage(x)']
      <4>1. EntryPackage(x)' = EntryPackage(x)
        BY <3>2, <1>9, CallFacts DEF EntryPackage
      <4>2. Kind(x) \in DOMAIN lock[EntryPackage(x)] /\ EntryPackage(x) \in DOMAIN lock
        BY <3>2, <2>1 DEF KindsInEntry, WalkTree, Reached, InLock
      <4>3. lock'[EntryPackage(x)] = lock[EntryPackage(x)]
        BY <4>2, <2>1, <1>14
      <4> QED
        BY <4>1, <4>2, <4>3
    <3> QED
      BY <3>1, <3>2, <1>3 DEF KindsInEntry, Walks
  <2>5. FoundUnderWay'
    <3>1. ASSUME NEW key \in DOMAIN lock' \ Loaded, NEW k \in DOMAIN lock'[key], NEW u \in DOMAIN lock'[key][k]
          PROVE  UnderWayNext(lock'[key][k][u])
      <4>1. key \in DOMAIN lock /\ lock'[key] = lock[key]
        BY <1>4, NothingIs
      <4> QED
        BY <4>1, <2>1, <1>15 DEF FoundUnderWay
    <3>2. \A x \in DOMAIN calls' : IsMember(x) => UnderWayNext(calls'[x].pkg)
      BY <2>1, <1>3, <1>8, <1>15 DEF FoundUnderWay
    <3>3. \A s \in DOMAIN visited' : \A q \in visited'[s] : UnderWayNext(q)
      BY <2>1, <1>2, <1>15 DEF FoundUnderWay
    <3> QED
      BY <3>1, <3>2, <3>3, <1>2, FoundUnderWayNext
  <2> QED
    BY <2>2, <2>3, <2>4, <2>5
<1>17. EntriesAreMade'
  <2> SUFFICES ASSUME Steady', failures' = 0
               PROVE  /\ (\A x \in Packages \ Loaded : InLock(x) => \E q \in DOMAIN calls : Made(x, q))'
                      /\ (\A q \in DOMAIN calls : IsDependency(q) /\ ~Walks(q, "resolving") => Recorded(q))'
    BY DEF EntriesAreMade
  <2>1. /\ \A x \in Packages \ Loaded : InLock(x) => \E q \in DOMAIN calls : Made(x, q)
        /\ \A q \in DOMAIN calls : IsDependency(q) /\ ~Walks(q, "resolving") => Recorded(q)
        /\ KindsInEntry /\ ~Begun(pkg)
    BY <1>2, <1>13 DEF EntriesAreMade, WalksAreAwaited
  <2>2. ASSUME NEW x \in Packages \ Loaded, x \in DOMAIN lock'
        PROVE  \E q \in DOMAIN calls : Made(x, q)'
    <3>1. CASE x = pkg
      <4>1. Made(pkg, p)'
        BY <1>3, <1>4 DEF Made, Walks
      <4> QED
        BY <4>1, <3>1
    <3>2. CASE x # pkg
      <4>1. x \in DOMAIN lock /\ lock'[x] = lock[x]
        BY <3>2, <2>2, <1>4
      <4>2. PICK q \in DOMAIN calls : Made(x, q)
        BY <4>1, <2>1 DEF InLock
      <4>3. calls'[q] = calls[q] /\ KindsOf(q)' = KindsOf(q)
        BY <4>2, <3>2, <1>1, <1>3, <1>8 DEF Made
      <4> QED
        BY <4>1, <4>2, <4>3, <1>2, <1>3 DEF Made, Walks
    <3> QED
      BY <3>1, <3>2
  <2>3. ASSUME NEW q \in DOMAIN calls, IsDependency(q), calls'[q].at # "resolving"
        PROVE  Recorded(q)'
    <3>1. Recorded(q)
      BY <2>1, <2>3, <1>2, <1>3 DEF Walks
    <3>2. EntryPackage(q)' = EntryPackage(q)
      BY <2>3, <1>9, CallFacts DEF EntryPackage
    <3>3. Kind(q) \in DOMAIN lock[EntryPackage(q)] /\ EntryPackage(q) \in DOMAIN lock
      BY <2>1, <2>3 DEF KindsInEntry, WalkTree, Reached, InLock
    <3>4. lock'[EntryPackage(q)'] = lock[EntryPackage(q)]
      BY <3>2, <3>3, <2>1, <1>14
    <3> QED
      BY <3>1, <3>4, <1>2, <1>4 DEF Recorded, InLock
  <2> QED
    BY <2>2, <2>3, <1>3, <1>5 DEF InLock, Walks
<1>18. OneWalk'
  <2> SUFFICES ASSUME ~NestedWorkspaces, ~addFailed
               PROVE  OneAtATime' /\ OneVisited'
    BY <1>2, <1>5 DEF OneWalk
  <2>1. OneAtATime /\ OneVisited
    BY DEF OneWalk
  <2>2. <<>> \in DOMAIN calls /\ calls[<<>>].pkg = graph.root
    BY CallFacts DEF WalkTree
  <2>3. \A x \in DOMAIN calls :
          /\ Walks(x, "adding") => ~Begun(calls[x].pkg)
          /\ Walks(x, "members") => x = <<>> /\ ~Begun(graph.root)
          /\ x # <<>> => ~Walks(<<>>, "adding") /\ InLock(graph.root)
          /\ x # <<>> /\ Walks(x, "adding") => calls[x].pkg # graph.root
    BY <2>1 DEF OneAtATime
  <2>4. pkg = graph.root
    BY <1>1, <1>6 DEF NestedWorkspaces
  <2>5. p = <<>> /\ ~Begun(pkg)
    BY <2>3, <2>4, <1>1, <1>2 DEF Walks
  <2>6. \A x \in DOMAIN calls : x = <<>>
    BY <2>3, <2>5, <1>2 DEF Walks
  <2>7. (~replaced)'
    <3>1. ~replaced
      BY <2>1 DEF OneAtATime
    <3> QED
      BY <3>1, <2>5, <1>2
  <2>8. (\A x \in Packages : announced[x] <= 1 /\ (announced[x] > 0 => UnderWay(x)))'
    BY <2>1, <1>2, <1>5, <1>15 DEF OneAtATime, UnderWay, UnderWayNext, InLock, Walks
  <2>9. ~Begun(graph.root)'
    <3>1. PICK key : key = graph.root
      OBVIOUS
    <3>2. ~Begun(key)'
      BY <3>1, <2>4, <1>4 DEF Begun
    <3> QED
      BY <3>1, <3>2, <1>2 DEF Begun
  <2>10. OneAtATime'
    BY <2>5, <2>6, <2>7, <2>8, <2>9, <1>3 DEF OneAtATime, Walks
  <2>11. OneVisited'
    BY <2>6, <1>3 DEF OneVisited
  <2> QED
    BY <2>10, <2>11
<1> QED
  BY <1>10, <1>11, <1>12, <1>16, <1>17, <1>18

\* The next workspace of a call.
LEMMA NewMemberInv ==
  ASSUME LockInv, NEW p \in DOMAIN calls, NextMember(p),
         Cardinality(Children(p)) # Len(graph.members[calls[p].pkg])
  PROVE  LockInv'
<1> USE DEF LockInv
<1>1. PICK all : all = graph.members[calls[p].pkg]
  OBVIOUS
<1>2. /\ calls[p].at = "members" /\ (\A c \in Children(p) : calls[c].at = "done")
      /\ calls[p].pkg \in Packages /\ InLock(calls[p].pkg) /\ p \in Seq(Steps)
  BY CallFacts DEF NextMember, WalkTree, Reached, Ways
<1>3. PICK n \in 0..Len(all) : Children(p) = MembersUpTo(p, n)
  BY <1>1, <1>2 DEF MembersInTurn, Walks
<1>4. Cardinality(Children(p)) = n
  BY <1>1, <1>2, <1>3, MembersCount
<1>5. all \in Seq(Packages) /\ \A i, j \in DOMAIN all : all[i] = all[j] => i = j
  BY <1>1, <1>2, GraphFacts
<1>6. /\ n \in Nat /\ n + 1 \in 0..Len(all) /\ n + 1 \in DOMAIN all /\ all[n + 1] \in Packages
      /\ \A i \in 1..n : i \in DOMAIN all /\ i # n + 1
      /\ \A i : i \in 1..(n + 1) <=> i \in 1..n \/ i = n + 1
  <2>1. Len(all) \in Nat /\ DOMAIN all = 1..Len(all) /\ \A i \in 1..Len(all) : all[i] \in Packages
    BY <1>5, LenProperties
  <2>2. n # Len(all)
    BY <1>1, <1>4
  <2>3. n \in Nat /\ n + 1 \in 0..Len(all) /\ n + 1 \in 1..Len(all)
    <3>1. PICK m \in Nat : m = Len(all)
      BY <2>1
    <3>2. n \in 0..m /\ n # m
      BY <2>2, <3>1
    <3> QED
      BY <3>1, <3>2
  <2>4. \A i \in 1..n : i \in 1..Len(all) /\ i # n + 1
    BY <2>1
  <2>5. \A i : i \in 1..(n + 1) <=> i \in 1..n \/ i = n + 1
    BY <2>3
  <2> QED
    BY <2>1, <2>3, <2>4, <2>5
<1>7. PICK w \in Packages : w = all[n + 1]
  BY <1>6
<1>8. PICK s \in Steps : s = <<Member, w>> /\ s[1] = Member /\ s[2] = w
  <2>1. <<Member, w>> \in {Member} \X Packages
    BY <1>7
  <2>2. <<Member, w>> \in Steps /\ <<Member, w>>[1] = Member /\ <<Member, w>>[2] = w
    BY <2>1 DEF Steps
  <2> QED
    BY <2>2
<1>9. PICK q : q = Append(p, s)
  OBVIOUS
<1>10. /\ q \in Seq(Steps) /\ q # <<>> /\ q # p /\ Parent(q) = p /\ IsMember(q) /\ ~IsDependency(q) /\ Specifier(q) = w
       /\ Len(q) = Len(p) + 1
       /\ \A i \in 0..Len(p) : SubSeq(q, 1, i) = SubSeq(p, 1, i)
       /\ SubSeq(q, 1, Len(p) + 1) = q
  <2>1. /\ q \in Seq(Steps) /\ q # <<>> /\ q # p /\ Parent(q) = p /\ Kind(q) = Member /\ Specifier(q) = w
        /\ Len(q) = Len(p) + 1
        /\ \A i \in 0..Len(p) : SubSeq(q, 1, i) = SubSeq(p, 1, i)
        /\ SubSeq(q, 1, Len(p) + 1) = q
    BY <1>2, <1>8, <1>9, WayStep
  <2> QED
    BY <2>1 DEF IsMember, IsDependency, Kind
<1>11. q \notin DOMAIN calls
  <2> SUFFICES ASSUME q \in DOMAIN calls
               PROVE  FALSE
    OBVIOUS
  <2>1. q \in Children(p)
    BY <1>10 DEF Children
  <2>2. PICK i \in 1..n : q = Append(p, <<Member, all[i]>>)
    BY <2>1, <1>1, <1>3 DEF MembersUpTo
  <2>3. all[i] \in Packages
    BY <1>5, <1>6, LenProperties
  <2>4. PICK t \in Steps : t = <<Member, all[i]>> /\ t[2] = all[i]
    <3>1. PICK x \in Packages : x = all[i]
      BY <2>3
    <3>2. <<Member, x>> \in {Member} \X Packages
      OBVIOUS
    <3>3. <<Member, x>> \in Steps /\ <<Member, x>>[2] = x
      BY <3>2 DEF Steps
    <3> QED
      BY <3>1, <3>3
  <2>5. Specifier(q) = all[i]
    BY <2>2, <2>4, <1>2, WayStep
  <2> QED
    BY <2>5, <1>5, <1>6, <1>7, <1>10
<1>12. PICK at : at = IF aborted THEN "thrown" ELSE IF w \in DOMAIN lock THEN "done" ELSE "adding"
  OBVIOUS
<1> DEFINE made == [pkg |-> w, snapshot |-> q, at |-> at]
<1>13. /\ calls' = Set(calls, q, made) /\ visited' = Set(visited, q, {w}) /\ AnnouncePkg(w, at)
       /\ lock' = lock /\ replaced' = replaced /\ graph' = graph /\ aborted' = aborted /\ failures' = failures
       /\ addFailed' = addFailed
  BY <1>1, <1>4, <1>7, <1>8, <1>9, <1>12 DEF NextMember
<1>14. made \in WalkType /\ made.pkg = w /\ made.snapshot = q /\ made.at = at
  BY <1>10, <1>12 DEF WalkType, Ways
<1> HIDE DEF made
<1>15. /\ DOMAIN calls' = DOMAIN calls \union {q} /\ calls'[q] = made
       /\ \A x \in DOMAIN calls : x # q /\ calls'[x] = calls[x]
  BY <1>11, <1>13 DEF Set, Update
<1>16. /\ DOMAIN visited' = DOMAIN visited \union {q} /\ visited'[q] = {w}
       /\ \A x \in DOMAIN visited : x # q /\ visited'[x] = visited[x]
  BY <1>11, <1>13 DEF Set, Update, WalkTypes
<1>17. /\ announced' \in [Packages -> Nat]
       /\ at = "adding" => announced'[w] = announced[w] + 1
       /\ \A x \in Packages : x # w \/ at # "adding" => announced'[x] = announced[x]
       /\ \A x \in Packages : announced[x] > 0 => announced'[x] > 0
  <2>1. announced \in [Packages -> Nat]
    BY DEF WalkTypes
  <2>2. CASE at = "adding"
    <3>1. announced' = [announced EXCEPT ![w] = @ + 1]
      BY <2>2, <1>13 DEF AnnouncePkg
    <3> QED
      BY <2>1, <2>2, <3>1
  <2>3. CASE at # "adding"
    <3>1. announced' = announced
      BY <2>3, <1>13 DEF AnnouncePkg
    <3> QED
      BY <2>1, <2>3, <3>1
  <2> QED
    BY <2>2, <2>3
<1>18. /\ Packages' = Packages /\ Loaded' = Loaded /\ Specifiers' = Specifiers /\ Ways' = Ways /\ WalkType' = WalkType
       /\ NestedWorkspaces' = NestedWorkspaces
  BY <1>13, SameGraph DEF NestedWorkspaces
<1>19. \A x \in DOMAIN calls : KindsOf(x)' = KindsOf(x)
  BY <1>13, <1>15 DEF KindsOf
<1>20. \A x \in DOMAIN calls : x # <<>> => Parent(x) \in DOMAIN calls /\ calls'[Parent(x)] = calls[Parent(x)]
  BY <1>15, CallFacts
<1>21. WalkTypes'
  <2>1. \A x \in DOMAIN calls' : x \in Ways /\ calls'[x] \in WalkType
    BY <1>10, <1>14, <1>15 DEF WalkTypes, Ways
  <2>2. DOMAIN visited' \subseteq DOMAIN calls' /\ <<>> \in DOMAIN visited'
    BY <1>15, <1>16 DEF WalkTypes
  <2>3. \A x \in DOMAIN visited' : visited'[x] \subseteq Packages
    BY <1>16 DEF WalkTypes
  <2> QED
    BY <2>1, <2>2, <2>3, <1>13, <1>17, <1>18 DEF WalkTypes
<1>22. WalkTree'
  <2>1. ASSUME NEW x \in DOMAIN calls
        PROVE  Reached(x)'
    <3>1. calls'[x] = calls[x] /\ (x # <<>> => calls'[Parent(x)] = calls[Parent(x)])
      BY <1>15, <1>20
    <3>2. /\ \A key \in DOMAIN lock : key \in DOMAIN lock'
          /\ \A y \in DOMAIN visited : y \in DOMAIN visited' /\ visited[y] \subseteq visited'[y]
      BY <1>13, <1>16
    <3> QED
      BY <3>1, <3>2, <1>13, <1>17, ReachedStays
  <2>2. Reached(q)'
    <3>1. calls'[p] = calls[p]
      BY <1>15
    <3>2. (IsMember(q) =>
             /\ calls[q].pkg = Specifier(q) /\ calls[q].snapshot = q
             /\ calls[Parent(q)].at \notin {"adding", "resolving"})'
      BY <3>1, <1>2, <1>10, <1>14, <1>15
    <3>3. (Walks(q, "adding") => calls[q].pkg \in visited[calls[q].snapshot] /\ announced[calls[q].pkg] > 0)'
      <4>1. announced[w] \in Nat
        BY DEF WalkTypes
      <4>2. at = "adding" => announced'[w] > 0
        BY <4>1, <1>17
      <4> QED
        BY <4>2, <1>14, <1>15, <1>16 DEF Walks
    <3>4. calls'[q].at \in {"thrown", "done", "adding"} /\ calls'[q].pkg \in Packages /\ calls'[q].snapshot \in DOMAIN visited'
      BY <1>12, <1>14, <1>15, <1>16
    <3> QED
      BY <3>2, <3>3, <3>4, <1>10, <1>18 DEF Reached, Walks
  <2>3. (calls[<<>>].pkg = graph.root /\ calls[<<>>].snapshot = <<>> /\ graph.root \in visited[<<>>])'
    <3>1. <<>> \in DOMAIN calls /\ <<>> \in DOMAIN visited
      BY DEF WalkTypes
    <3> QED
      BY <3>1, <1>13, <1>15, <1>16 DEF WalkTree
  <2>4. (\A x \in DOMAIN calls : \A i \in 0..Len(x) : SubSeq(x, 1, i) \in DOMAIN calls)'
    <3>1. \A x \in DOMAIN calls : \A i \in 0..Len(x) : SubSeq(x, 1, i) \in DOMAIN calls
      BY DEF WalkTree
    <3>2. ASSUME NEW i \in 0..Len(q)
          PROVE  SubSeq(q, 1, i) \in DOMAIN calls \union {q}
      <4>1. i \in 0..Len(p) \/ i = Len(p) + 1
        <5>1. PICK m \in Nat : m = Len(p)
          BY <1>2, LenProperties
        <5> QED
          BY <5>1, <1>10
      <4> QED
        BY <4>1, <3>1, <1>10
    <3> QED
      BY <3>1, <3>2, <1>15
  <2> QED
    BY <2>1, <2>2, <2>3, <2>4, <1>15 DEF WalkTree
<1>23. MembersInTurn'
  <2>1. ASSUME NEW x \in DOMAIN calls', calls'[x].at = "members"
        PROVE  \E i \in 0..Len(graph'.members[calls'[x].pkg]) : Children(x)' = MembersUpTo(x, i)'
    <3>1. x \in DOMAIN calls /\ calls'[x] = calls[x] /\ Walks(x, "members")
      BY <2>1, <1>12, <1>14, <1>15 DEF Walks
    <3>2. \A i : MembersUpTo(x, i)' = MembersUpTo(x, i)
      BY <3>1, <1>13 DEF MembersUpTo
    <3>3. CASE x = p
      <4>1. Children(p)' = Children(p) \union {q}
        BY <1>10, <1>15 DEF Children
      <4>2. MembersUpTo(p, n + 1) = MembersUpTo(p, n) \union {q}
        <5>1. q = Append(p, <<Member, all[n + 1]>>)
          BY <1>7, <1>8, <1>9
        <5>2. /\ MembersUpTo(p, n + 1) = {Append(p, <<Member, all[i]>>) : i \in 1..(n + 1)}
              /\ MembersUpTo(p, n) = {Append(p, <<Member, all[i]>>) : i \in 1..n}
          BY <1>1 DEF MembersUpTo
        <5>3. 1..(n + 1) = 1..n \union {n + 1}
          BY <1>6
        <5> QED
          BY <5>1, <5>2, <5>3
      <4>3. n + 1 \in 0..Len(graph'.members[calls'[x].pkg])
        BY <3>1, <3>3, <1>1, <1>6, <1>13
      <4> QED
        BY <4>1, <4>2, <4>3, <3>2, <3>3, <1>3
    <3>4. CASE x # p
      <4>1. Children(x)' = Children(x)
        BY <3>4, <1>10, <1>15 DEF Children
      <4>2. PICK i \in 0..Len(graph.members[calls[x].pkg]) : Children(x) = MembersUpTo(x, i)
        BY <3>1 DEF MembersInTurn
      <4> QED
        BY <4>1, <4>2, <3>1, <3>2, <1>13
    <3> QED
      BY <3>3, <3>4
  <2>2. (graph.root \notin Loaded /\ calls[<<>>].at \notin {"adding", "members", "thrown"} =>
           \A i \in DOMAIN graph.members[graph.root] : <<<<Member, graph.members[graph.root][i]>>>> \in DOMAIN calls)'
    <3>1. calls'[<<>>] = calls[<<>>]
      BY <1>15, CallFacts
    <3> QED
      BY <3>1, <1>13, <1>15 DEF MembersInTurn, Loaded
  <2> QED
    BY <2>1, <2>2 DEF MembersInTurn, Loaded, Walks
<1>24. /\ \A x : UnderWay(x) => UnderWayNext(x)
       /\ at \in {"done", "adding"} => UnderWayNext(w)
  <2>1. \A x \in DOMAIN calls : Walks(x, "adding") =>
          /\ x \in DOMAIN calls' /\ calls'[x].pkg = calls[x].pkg
          /\ calls'[x].at = "adding" \/ calls[x].pkg \in DOMAIN lock'
    BY <1>15 DEF Walks
  <2>2. \A key \in DOMAIN lock : key \in DOMAIN lock'
    BY <1>13
  <2>3. at \in {"done", "adding"} => UnderWayNext(w)
    BY <1>12, <1>13, <1>14, <1>15 DEF UnderWayNext
  <2>4. \A x : UnderWay(x) => UnderWayNext(x)
    BY <2>1, <2>2, UnderWayStays
  <2> QED
    BY <2>3, <2>4
<1>25. Steady' => Steady /\ at \in {"done", "adding"}
  BY <1>12, <1>13 DEF Steady
<1>26. WalksAreAwaited'
  <2> SUFFICES ASSUME Steady'
               PROVE  (NoneFailed /\ DoneBelow /\ KindsInEntry /\ FoundUnderWay)'
    BY DEF WalksAreAwaited
  <2>1. NoneFailed /\ DoneBelow /\ KindsInEntry /\ FoundUnderWay
    BY <1>25 DEF WalksAreAwaited
  <2>2. NoneFailed'
    BY <2>1, <1>14, <1>15, <1>25 DEF NoneFailed
  <2>3. DoneBelow'
    <3>1. ASSUME NEW x \in DOMAIN calls', NEW y \in DOMAIN calls', Below(x, y), calls'[y].at = "done"
          PROVE  calls'[x].at = "done"
      <4>1. CASE x = q /\ y = q
        BY <4>1, <3>1
      <4>2. CASE x = q /\ y # q
        <5>1. y \in DOMAIN calls /\ calls[y].at = "done" /\ y \in Seq(Steps)
          BY <4>2, <3>1, <1>15, CallFacts DEF Ways
        <5>2. Below(p, y)
          BY <5>1, <4>2, <3>1, <1>2, <1>9, WayBelow
        <5>3. calls[p].at = "done"
          BY <5>1, <5>2, <2>1 DEF DoneBelow, Walks
        <5> QED
          BY <5>3, <1>2
      <4>3. CASE x # q /\ y = q
        <5>1. x \in DOMAIN calls /\ q \in Ways
          BY <4>3, <1>10, <1>15 DEF Ways
        <5> QED
          BY <5>1, <4>3, <3>1, <1>11, ThroughAChild
      <4>4. CASE x # q /\ y # q
        BY <4>4, <3>1, <2>1, <1>15 DEF DoneBelow, Walks
      <4> QED
        BY <4>1, <4>2, <4>3, <4>4
    <3>2. ASSUME NEW x \in DOMAIN calls', IsMember(x), calls'[Parent(x)].at = "dependencies"
          PROVE  calls'[x].at = "done"
      <4>1. x # q
        BY <3>2, <1>2, <1>10, <1>15
      <4>2. x \in DOMAIN calls /\ x # <<>>
        BY <4>1, <3>2, <1>15 DEF IsMember
      <4>3. Walks(Parent(x), "dependencies")
        BY <4>2, <3>2, <1>20 DEF Walks
      <4> QED
        BY <4>2, <4>3, <3>2, <2>1, <1>15 DEF DoneBelow, Walks
    <3> QED
      BY <3>1, <3>2 DEF DoneBelow, Walks
  <2>4. KindsInEntry'
    <3>1. ASSUME NEW x \in DOMAIN calls', calls'[x].at = "dependencies"
          PROVE  KindsOf(x)' \subseteq DOMAIN lock'[calls'[x].pkg]
      <4>1. x \in DOMAIN calls /\ calls'[x] = calls[x]
        BY <3>1, <1>14, <1>15, <1>25
      <4> QED
        BY <4>1, <3>1, <2>1, <1>13, <1>19 DEF KindsInEntry, Walks
    <3>2. ASSUME NEW x \in DOMAIN calls', IsDependency(x)
          PROVE  Kind(x) \in DOMAIN lock'[EntryPackage(x)']
      <4>1. x \in DOMAIN calls
        BY <3>2, <1>10, <1>15
      <4>2. EntryPackage(x)' = EntryPackage(x)
        BY <4>1, <3>2, <1>20, CallFacts DEF EntryPackage
      <4> QED
        BY <4>1, <4>2, <3>2, <2>1, <1>13 DEF KindsInEntry
    <3> QED
      BY <3>1, <3>2 DEF KindsInEntry, Walks
  <2>5. FoundUnderWay'
    <3>1. \A key \in DOMAIN lock' \ Loaded : \A k \in DOMAIN lock'[key] : \A u \in DOMAIN lock'[key][k] :
            UnderWayNext(lock'[key][k][u])
      BY <2>1, <1>13, <1>24 DEF FoundUnderWay
    <3>2. ASSUME NEW x \in DOMAIN calls', IsMember(x)
          PROVE  UnderWayNext(calls'[x].pkg)
      <4>1. CASE x = q
        BY <4>1, <1>14, <1>15, <1>24, <1>25
      <4>2. CASE x # q
        BY <4>2, <3>2, <2>1, <1>15, <1>24 DEF FoundUnderWay
      <4> QED
        BY <4>1, <4>2
    <3>3. ASSUME NEW y \in DOMAIN visited', NEW x \in visited'[y]
          PROVE  UnderWayNext(x)
      <4>1. CASE y = q
        BY <4>1, <3>3, <1>16, <1>24, <1>25
      <4>2. CASE y # q
        BY <4>2, <3>3, <2>1, <1>16, <1>24 DEF FoundUnderWay
      <4> QED
        BY <4>1, <4>2
    <3> QED
      BY <3>1, <3>2, <3>3, <1>13, FoundUnderWayNext
  <2> QED
    BY <2>2, <2>3, <2>4, <2>5
<1>27. EntriesAreMade'
  <2> SUFFICES ASSUME Steady', failures' = 0
               PROVE  /\ (\A x \in Packages \ Loaded : InLock(x) => \E y \in DOMAIN calls : Made(x, y))'
                      /\ (\A y \in DOMAIN calls : IsDependency(y) /\ ~Walks(y, "resolving") => Recorded(y))'
    BY DEF EntriesAreMade
  <2>1. /\ \A x \in Packages \ Loaded : InLock(x) => \E y \in DOMAIN calls : Made(x, y)
        /\ \A y \in DOMAIN calls : IsDependency(y) /\ ~Walks(y, "resolving") => Recorded(y)
    BY <1>13, <1>25 DEF EntriesAreMade
  <2>2. ASSUME NEW x \in Packages \ Loaded, x \in DOMAIN lock'
        PROVE  \E y \in DOMAIN calls' : Made(x, y)'
    <3>1. PICK y \in DOMAIN calls : Made(x, y)
      BY <2>1, <2>2, <1>13 DEF InLock
    <3>2. calls'[y] = calls[y] /\ KindsOf(y)' = KindsOf(y)
      BY <1>15, <1>19
    <3>3. Made(x, y)'
      BY <3>1, <3>2, <1>13, <1>15 DEF Made, Walks
    <3> QED
      BY <3>3, <1>15
  <2>3. ASSUME NEW y \in DOMAIN calls', IsDependency(y), calls'[y].at # "resolving"
        PROVE  Recorded(y)'
    <3>1. y \in DOMAIN calls
      BY <2>3, <1>10, <1>15
    <3>2. Recorded(y)
      BY <3>1, <2>1, <2>3, <1>15 DEF Walks
    <3>3. EntryPackage(y)' = EntryPackage(y)
      BY <3>1, <2>3, <1>20, CallFacts DEF EntryPackage
    <3> QED
      BY <3>2, <3>3, <1>13 DEF Recorded, InLock
  <2> QED
    BY <2>2, <2>3, <1>18 DEF InLock, Walks
<1>28. OneWalk'
  <2> SUFFICES ASSUME ~NestedWorkspaces, ~addFailed
               PROVE  OneAtATime' /\ OneVisited'
    BY <1>13, <1>18 DEF OneWalk
  <2>1. OneAtATime /\ OneVisited
    BY DEF OneWalk
  <2>2. <<>> \in DOMAIN calls /\ calls[<<>>].pkg = graph.root
    BY CallFacts DEF WalkTree
  <2>3. \A x \in DOMAIN calls :
          /\ Walks(x, "adding") => ~Begun(calls[x].pkg)
          /\ Walks(x, "members") => x = <<>> /\ ~Begun(graph.root)
          /\ x # <<>> => ~Walks(<<>>, "adding") /\ InLock(graph.root)
          /\ x # <<>> /\ Walks(x, "adding") => calls[x].pkg # graph.root
    BY <2>1 DEF OneAtATime
  <2>4. p = <<>> /\ InLock(graph.root)
    BY <2>2, <2>3, <1>2 DEF Walks
  <2>5. ASSUME ~aborted, NEW x \in DOMAIN calls, x # <<>>
        PROVE  Walks(x, "done")
    <3>1. DoneBelow
      BY <2>1, <2>5 DEF WalksAreAwaited, Steady, OneAtATime
    <3>2. \A y \in DOMAIN calls : y # <<>> /\ Parent(y) = <<>> => Walks(y, "done")
      BY <2>4, <1>2 DEF Children, Walks
    <3> QED
      BY <3>1, <3>2, <2>5, DoneUnderRoot
  <2>6. at = "adding" =>
          /\ ~aborted /\ w \notin DOMAIN lock /\ w # graph.root
          /\ \A x \in DOMAIN calls : ~Walks(x, "adding")
    <3>1. at = "adding" => ~aborted /\ w \notin DOMAIN lock
      BY <1>12
    <3>2. ASSUME at = "adding", NEW x \in DOMAIN calls
          PROVE  ~Walks(x, "adding")
      BY <3>1, <3>2, <2>4, <2>5, <1>2 DEF Walks
    <3> QED
      BY <3>1, <3>2, <2>4 DEF InLock
  <2>7. at = "adding" => announced[w] = 0
    <3>1. announced[w] \in Nat
      BY DEF WalkTypes
    <3>2. announced[w] > 0 => UnderWay(w)
      BY <2>1 DEF OneAtATime
    <3>3. at = "adding" => ~UnderWay(w)
      BY <2>6 DEF UnderWay, InLock
    <3> QED
      BY <3>1, <3>2, <3>3
  <2>8. (\A x \in Packages : announced[x] <= 1 /\ (announced[x] > 0 => UnderWay(x)))'
    <3>1. ASSUME NEW x \in Packages
          PROVE  announced'[x] <= 1 /\ (announced'[x] > 0 => UnderWayNext(x))
      <4>1. CASE x = w /\ at = "adding"
        BY <4>1, <2>7, <1>17, <1>24
      <4>2. CASE x # w \/ at # "adding"
        BY <4>2, <2>1, <1>17, <1>24 DEF OneAtATime
      <4> QED
        BY <4>1, <4>2
    <3> QED
      BY <3>1, <1>18 DEF UnderWay, UnderWayNext, InLock, Walks
  <2>9. (\A x, y \in DOMAIN calls :
           Walks(x, "adding") /\ Walks(y, "adding") /\ calls[x].pkg = calls[y].pkg => x = y)'
    BY <2>1, <2>6, <1>14, <1>15 DEF OneAtATime, Walks
  <2>10. \A key : Begun(key)' <=> (key \in DOMAIN lock /\ lock[key] # Nothing)
    BY <1>13 DEF Begun
  <2>11. (\A x \in DOMAIN calls :
            /\ Walks(x, "adding") => ~Begun(calls[x].pkg)
            /\ Walks(x, "members") => x = <<>> /\ ~Begun(graph.root)
            /\ x # <<>> => ~Walks(<<>>, "adding") /\ InLock(graph.root)
            /\ x # <<>> /\ Walks(x, "adding") => calls[x].pkg # graph.root)'
    <3> SUFFICES ASSUME NEW x \in DOMAIN calls'
                 PROVE  (/\ Walks(x, "adding") => ~Begun(calls[x].pkg)
                         /\ Walks(x, "members") => x = <<>> /\ ~Begun(graph.root)
                         /\ x # <<>> => ~Walks(<<>>, "adding") /\ InLock(graph.root)
                         /\ x # <<>> /\ Walks(x, "adding") => calls[x].pkg # graph.root)'
      OBVIOUS
    <3>1. calls'[<<>>] = calls[<<>>] /\ calls[<<>>].at = "members"
      BY <2>2, <2>4, <1>2, <1>15
    <3>2. CASE x = q
      BY <3>1, <3>2, <2>4, <2>6, <1>12, <1>13, <1>14, <1>15 DEF Walks, InLock, Begun
    <3>3. CASE x # q
      <4>1. x \in DOMAIN calls /\ calls'[x] = calls[x]
        BY <3>3, <1>15
      <4> QED
        BY <4>1, <3>1, <2>3, <2>4, <1>13 DEF Walks, InLock, Begun
    <3> QED
      BY <3>2, <3>3
  <2>12. OneAtATime'
    BY <2>1, <2>8, <2>9, <2>11, <1>13 DEF OneAtATime
  <2>13. OneVisited'
    BY <2>5, <1>13, <1>15 DEF OneVisited, Walks
  <2> QED
    BY <2>12, <2>13
<1> QED
  BY <1>21, <1>22, <1>23, <1>26, <1>27, <1>28

\* A handler has answered with a package, and the call goes on to it.
LEMMA ResolvedInv ==
  ASSUME LockInv, NEW p \in DOMAIN calls, Resolved(p), HasKind(p)
  PROVE  LockInv'
<1> USE DEF LockInv
<1>1. WalkTypes /\ WalkTree
  OBVIOUS
<1>2. PICK r : r = graph.resolution[Specifier(p)]
  OBVIOUS
<1>3. PICK s : s = calls[p].snapshot
  OBVIOUS
<1>4. PICK at : at = Entry(r, s)
  OBVIOUS
<1>5. /\ calls[p].at = "resolving" /\ r # Unknown /\ lock' = WithEdge(p, r)
      /\ calls' = [calls EXCEPT ![p].pkg = r, ![p].at = at]
      /\ visited' = [visited EXCEPT ![s] = @ \union {r}]
      /\ AnnouncePkg(r, at)
      /\ graph' = graph /\ aborted' = aborted /\ failures' = failures
      /\ addFailed' = addFailed /\ replaced' = replaced
  BY <1>2, <1>3, <1>4 DEF Resolved
<1>6. /\ p # <<>> /\ IsDependency(p) /\ ~IsMember(p) /\ Specifier(p) \in Specifiers /\ Parent(p) # p
      /\ Parent(p) \in DOMAIN calls /\ calls[p] \in WalkType /\ p \in Ways
  BY <1>1, <1>5, CallFacts DEF WalkTree, Reached, Walks
<1>7. /\ s \in DOMAIN visited /\ EntryPackage(p) \in Packages /\ InLock(EntryPackage(p))
  BY <1>1, <1>3, <1>6 DEF WalkTree, Reached
<1>8. r \in Packages
  <2>1. IF Specifier(p) \in Packages THEN r = Specifier(p) ELSE r \in Packages \union {Unknown}
    BY <1>1, <1>2, <1>6, GraphFacts
  <2> QED
    BY <2>1, <1>5
<1>9. /\ at \in {"done", "thrown", "adding"}
      /\ at = "adding" => ~aborted /\ r \notin visited[s] /\ r \notin DOMAIN lock
      /\ at = "done" => r \in visited[s] \/ r \in DOMAIN lock
      /\ at = "thrown" => aborted
  BY <1>4 DEF Entry
<1>10. /\ DOMAIN calls' = DOMAIN calls
       /\ \A x \in DOMAIN calls : x # p => calls'[x] = calls[x]
       /\ calls'[p].pkg = r /\ calls'[p].snapshot = s /\ calls'[p].at = at /\ calls'[p] \in WalkType
  <2>1. PICK a, b, c : calls[p] = [pkg |-> a, snapshot |-> b, at |-> c] /\ b \in Ways
    BY <1>6 DEF WalkType
  <2>2. /\ DOMAIN calls' = DOMAIN calls
        /\ \A x \in DOMAIN calls : x # p => calls'[x] = calls[x]
        /\ calls'[p] = [pkg |-> r, snapshot |-> b, at |-> at]
    <3>1. PICK first : first = [calls EXCEPT ![p].pkg = r]
      OBVIOUS
    <3>2. /\ DOMAIN first = DOMAIN calls
          /\ \A x \in DOMAIN calls : x # p => first[x] = calls[x]
          /\ first[p] = [pkg |-> r, snapshot |-> b, at |-> c]
      BY <2>1, <3>1
    <3>3. calls' = [first EXCEPT ![p].at = at]
      BY <3>1, <1>5
    <3> QED
      BY <3>2, <3>3
  <2>3. b = s
    BY <2>1, <1>3
  <2> QED
    BY <2>1, <2>2, <2>3, <1>8, <1>9 DEF WalkType
<1>11. /\ DOMAIN visited' = DOMAIN visited /\ visited'[s] = visited[s] \union {r}
       /\ \A y \in DOMAIN visited : y # s => visited'[y] = visited[y]
  BY <1>5, <1>7
<1>12. /\ announced' \in [Packages -> Nat]
       /\ at = "adding" => announced'[r] = announced[r] + 1
       /\ \A x \in Packages : x # r \/ at # "adding" => announced'[x] = announced[x]
       /\ \A x \in Packages : announced[x] > 0 => announced'[x] > 0
  <2>1. announced \in [Packages -> Nat]
    BY DEF WalkTypes
  <2>2. CASE at = "adding"
    <3>1. announced' = [announced EXCEPT ![r] = @ + 1]
      BY <2>2, <1>5 DEF AnnouncePkg
    <3> QED
      BY <2>1, <2>2, <3>1, <1>8
  <2>3. CASE at # "adding"
    <3>1. announced' = announced
      BY <2>3, <1>5 DEF AnnouncePkg
    <3> QED
      BY <2>1, <2>3, <3>1
  <2> QED
    BY <2>2, <2>3
<1>13. /\ Packages' = Packages /\ Loaded' = Loaded /\ Specifiers' = Specifiers /\ Ways' = Ways /\ WalkType' = WalkType
       /\ NestedWorkspaces' = NestedWorkspaces
  BY <1>5, SameGraph DEF NestedWorkspaces
<1>14. /\ DOMAIN lock' = DOMAIN lock
       /\ \A x \in DOMAIN lock : DOMAIN lock'[x] = DOMAIN lock[x] /\ (lock[x] = Nothing => lock'[x] = Nothing)
       /\ \A x \in DOMAIN lock : \A k \in DOMAIN lock[x] :
            x # EntryPackage(p) \/ k # Kind(p) => lock'[x][k] = lock[x][k]
       /\ LET x == EntryPackage(p)  k == Kind(p)  u == Specifier(p) IN
            /\ DOMAIN lock'[x][k] = DOMAIN lock[x][k] \union {u} /\ lock'[x][k][u] = r
            /\ \A v \in DOMAIN lock[x][k] : v # u => lock'[x][k][v] = lock[x][k][v]
  <2>1. PICK edged : edged = WithEdge(p, r)
    OBVIOUS
  <2>2. /\ DOMAIN edged = DOMAIN lock
        /\ \A x \in DOMAIN lock : DOMAIN edged[x] = DOMAIN lock[x] /\ (lock[x] = Nothing => edged[x] = Nothing)
        /\ \A x \in DOMAIN lock : \A k \in DOMAIN lock[x] :
             x # EntryPackage(p) \/ k # Kind(p) => edged[x][k] = lock[x][k]
        /\ LET x == EntryPackage(p)  k == Kind(p)  u == Specifier(p) IN
             /\ DOMAIN edged[x][k] = DOMAIN lock[x][k] \union {u} /\ edged[x][k][u] = r
             /\ \A v \in DOMAIN lock[x][k] : v # u => edged[x][k][v] = lock[x][k][v]
    BY <2>1, <1>7, WithEdgeIs
  <2>3. lock' = edged
    BY <2>1, <1>5
  <2> QED
    BY <2>2, <2>3
<1>15. \A x \in DOMAIN calls : x # p => KindsOf(x)' = KindsOf(x)
  BY <1>5, <1>10 DEF KindsOf
<1>16. \A x \in DOMAIN calls : x # <<>> =>
         Parent(x) \in DOMAIN calls /\ Parent(x) # p /\ calls'[Parent(x)] = calls[Parent(x)]
  <2>1. \A x \in DOMAIN calls : x # <<>> => Parent(x) # p
    BY <1>1, <1>5, NoChildren
  <2>2. \A x \in DOMAIN calls : x # <<>> => Parent(x) \in DOMAIN calls
    BY <1>1, CallFacts
  <2> QED
    BY <2>1, <2>2, <1>10
<1>17. \A x \in DOMAIN calls : x # <<>> => EntryPackage(x)' = EntryPackage(x)
  BY <1>16 DEF EntryPackage
<1>18. Steady' <=> Steady
  BY <1>5 DEF Steady
<1>19. WalkTypes'
  <2>1. \A x \in DOMAIN calls' : x \in Ways /\ calls'[x] \in WalkType
    BY <1>10 DEF WalkTypes
  <2>2. \A y \in DOMAIN visited' : visited'[y] \subseteq Packages
    BY <1>8, <1>11 DEF WalkTypes
  <2>3. \A key \in DOMAIN lock' : DOMAIN lock'[key] \subseteq {Regular, Dev}
    BY <1>14 DEF WalkTypes
  <2> QED
    BY <2>1, <2>2, <2>3, <1>5, <1>10, <1>11, <1>12, <1>13, <1>14 DEF WalkTypes
<1>20. WalkTree'
  <2>1. ASSUME NEW x \in DOMAIN calls, x # p
        PROVE  Reached(x)'
    <3>1. calls'[x] = calls[x] /\ (x # <<>> => calls'[Parent(x)] = calls[Parent(x)])
      BY <2>1, <1>10, <1>16
    <3>2. /\ \A key \in DOMAIN lock : key \in DOMAIN lock'
          /\ \A y \in DOMAIN visited : y \in DOMAIN visited' /\ visited[y] \subseteq visited'[y]
      BY <1>11, <1>14
    <3> QED
      BY <3>1, <3>2, <1>5, <1>12, ReachedStays
  <2>2. Reached(p)'
    <3>1. /\ calls[Parent(p)].at \notin {"adding", "members", "resolving"}
          /\ calls[p].snapshot = calls[Parent(p)].snapshot
          /\ Kind(p) \in DOMAIN graph.deps[EntryPackage(p)]
          /\ Specifier(p) \in graph.deps[EntryPackage(p)][Kind(p)]
      BY <1>1, <1>6 DEF WalkTree, Reached
    <3>2. calls'[Parent(p)] = calls[Parent(p)] /\ EntryPackage(p)' = EntryPackage(p)
      BY <1>6, <1>16, <1>17
    <3>3. (/\ calls[Parent(p)].at \notin {"adding", "members", "resolving"}
           /\ calls[p].snapshot = calls[Parent(p)].snapshot
           /\ calls[p].pkg \in {Unknown, graph.resolution[Specifier(p)]}
           /\ EntryPackage(p) \in Packages /\ InLock(EntryPackage(p))
           /\ Kind(p) \in DOMAIN graph.deps[EntryPackage(p)]
           /\ Specifier(p) \in graph.deps[EntryPackage(p)][Kind(p)])'
      BY <3>1, <3>2, <1>2, <1>3, <1>5, <1>7, <1>10, <1>13, <1>14 DEF InLock
    <3>4. (Walks(p, "adding") => calls[p].pkg \in visited[calls[p].snapshot] /\ announced[calls[p].pkg] > 0)'
      <4>1. announced[r] \in Nat
        BY <1>8 DEF WalkTypes
      <4>2. at = "adding" => announced'[r] > 0
        BY <4>1, <1>12
      <4> QED
        BY <4>2, <1>10, <1>11 DEF Walks
    <3> QED
      BY <3>3, <3>4, <1>6, <1>7, <1>8, <1>9, <1>10, <1>11, <1>13 DEF Reached, Walks
  <2>3. (calls[<<>>].pkg = graph.root /\ calls[<<>>].snapshot = <<>> /\ graph.root \in visited[<<>>])'
    <3>1. <<>> \in DOMAIN calls /\ <<>> \in DOMAIN visited
      BY DEF WalkTypes
    <3> QED
      BY <3>1, <1>5, <1>6, <1>10, <1>11 DEF WalkTree
  <2> QED
    BY <2>1, <2>2, <2>3, <1>10 DEF WalkTree
<1>21. MembersInTurn'
  <2>1. \A x : Children(x)' = Children(x)
    BY <1>10 DEF Children
  <2>2. ASSUME NEW x \in DOMAIN calls', calls'[x].at = "members"
        PROVE  \E i \in 0..Len(graph'.members[calls'[x].pkg]) : Children(x)' = MembersUpTo(x, i)'
    <3>1. x \in DOMAIN calls /\ calls'[x] = calls[x] /\ Walks(x, "members")
      BY <2>2, <1>9, <1>10 DEF Walks
    <3>2. \A i : MembersUpTo(x, i)' = MembersUpTo(x, i)
      BY <3>1, <1>5 DEF MembersUpTo
    <3>3. PICK i \in 0..Len(graph.members[calls[x].pkg]) : Children(x) = MembersUpTo(x, i)
      BY <3>1 DEF MembersInTurn
    <3> QED
      BY <2>1, <3>1, <3>2, <3>3, <1>5
  <2>3. (graph.root \notin Loaded /\ calls[<<>>].at \notin {"adding", "members", "thrown"} =>
           \A i \in DOMAIN graph.members[graph.root] : <<<<Member, graph.members[graph.root][i]>>>> \in DOMAIN calls)'
    <3>1. calls'[<<>>] = calls[<<>>]
      BY <1>1, <1>6, <1>10, CallFacts
    <3> QED
      BY <3>1, <1>5, <1>10 DEF MembersInTurn, Loaded
  <2> QED
    BY <2>2, <2>3 DEF MembersInTurn, Loaded, Walks
<1>22. /\ \A x : UnderWay(x) => UnderWayNext(x)
       /\ at = "adding" \/ r \in DOMAIN lock => UnderWayNext(r)
  <2>1. \A x \in DOMAIN calls : Walks(x, "adding") =>
          /\ x \in DOMAIN calls' /\ calls'[x].pkg = calls[x].pkg
          /\ calls'[x].at = "adding" \/ calls[x].pkg \in DOMAIN lock'
    BY <1>5, <1>10 DEF Walks
  <2>2. \A key \in DOMAIN lock : key \in DOMAIN lock'
    BY <1>14
  <2>3. at = "adding" \/ r \in DOMAIN lock => UnderWayNext(r)
    BY <1>10, <1>14 DEF UnderWayNext
  <2>4. \A x : UnderWay(x) => UnderWayNext(x)
    BY <2>1, <2>2, UnderWayStays
  <2> QED
    BY <2>3, <2>4
<1>23. WalksAreAwaited'
  <2> SUFFICES ASSUME Steady'
               PROVE  (NoneFailed /\ DoneBelow /\ KindsInEntry /\ FoundUnderWay)'
    BY DEF WalksAreAwaited
  <2>1. NoneFailed /\ DoneBelow /\ KindsInEntry /\ FoundUnderWay /\ ~aborted
    BY <1>18 DEF WalksAreAwaited, Steady
  <2>2. at \in {"done", "adding"} /\ UnderWayNext(r)
    <3>1. at \in {"done", "adding"}
      BY <2>1, <1>9
    <3>2. r \in visited[s] => UnderWay(r)
      BY <2>1, <1>7 DEF FoundUnderWay
    <3> QED
      BY <3>1, <3>2, <1>9, <1>22
  <2>3. NoneFailed'
    BY <2>1, <2>2, <1>10 DEF NoneFailed
  <2>4. DoneBelow'
    <3>1. ASSUME NEW x \in DOMAIN calls', NEW y \in DOMAIN calls', Below(x, y), calls'[y].at = "done"
          PROVE  calls'[x].at = "done"
      <4>1. x \in DOMAIN calls /\ y \in DOMAIN calls
        BY <1>10
      <4>2. CASE y = p
        BY <4>1, <4>2, <3>1, <1>1, <1>5, NothingBelow
      <4>3. CASE y # p
        <5>1. calls[x].at = "done"
          BY <4>1, <4>3, <3>1, <2>1, <1>10 DEF DoneBelow, Walks
        <5> QED
          BY <4>1, <5>1, <1>5, <1>10
      <4> QED
        BY <4>2, <4>3
    <3>2. ASSUME NEW x \in DOMAIN calls', IsMember(x), calls'[Parent(x)].at = "dependencies"
          PROVE  calls'[x].at = "done"
      <4>1. x \in DOMAIN calls /\ x # <<>> /\ x # p
        BY <3>2, <1>6, <1>10 DEF IsMember
      <4>2. Walks(Parent(x), "dependencies")
        BY <4>1, <3>2, <1>16 DEF Walks
      <4> QED
        BY <4>1, <4>2, <3>2, <2>1, <1>10 DEF DoneBelow, Walks
    <3> QED
      BY <3>1, <3>2 DEF DoneBelow, Walks
  <2>5. KindsInEntry'
    <3>1. ASSUME NEW x \in DOMAIN calls', calls'[x].at = "dependencies"
          PROVE  KindsOf(x)' \subseteq DOMAIN lock'[calls'[x].pkg]
      <4>1. x \in DOMAIN calls /\ x # p /\ calls'[x] = calls[x] /\ calls[x].at = "dependencies"
        BY <3>1, <2>2, <1>10
      <4>2. calls[x].pkg \in DOMAIN lock
        BY <4>1, <1>1 DEF WalkTree, Reached, InLock
      <4> QED
        BY <4>1, <4>2, <2>1, <1>14, <1>15 DEF KindsInEntry, Walks
    <3>2. ASSUME NEW x \in DOMAIN calls', IsDependency(x)
          PROVE  Kind(x) \in DOMAIN lock'[EntryPackage(x)']
      <4>1. x \in DOMAIN calls /\ x # <<>>
        BY <3>2, <1>10 DEF IsDependency
      <4>2. EntryPackage(x) \in DOMAIN lock
        BY <4>1, <3>2, <1>1 DEF WalkTree, Reached, InLock
      <4>3. EntryPackage(x)' = EntryPackage(x)
        BY <4>1, <1>17
      <4>4. Kind(x) \in DOMAIN lock[EntryPackage(x)]
        BY <4>1, <3>2, <2>1 DEF KindsInEntry
      <4> QED
        BY <4>2, <4>3, <4>4, <1>14
    <3> QED
      BY <3>1, <3>2 DEF KindsInEntry, Walks
  <2>6. FoundUnderWay'
    <3>1. ASSUME NEW key \in DOMAIN lock' \ Loaded, NEW k \in DOMAIN lock'[key], NEW u \in DOMAIN lock'[key][k]
          PROVE  UnderWayNext(lock'[key][k][u])
      <4>1. key \in DOMAIN lock /\ k \in DOMAIN lock[key]
        BY <1>14
      <4>2. u \in DOMAIN lock[key][k] => UnderWayNext(lock[key][k][u])
        BY <4>1, <2>1, <1>22 DEF FoundUnderWay
      <4>3. CASE key # EntryPackage(p) \/ k # Kind(p)
        <5>1. lock'[key][k] = lock[key][k]
          BY <4>1, <4>3, <1>14
        <5> QED
          BY <4>2, <5>1, <3>1
      <4>4. CASE key = EntryPackage(p) /\ k = Kind(p)
        <5>1. CASE u = Specifier(p)
          BY <4>4, <5>1, <2>2, <1>14
        <5>2. CASE u # Specifier(p)
          BY <4>2, <4>4, <5>2, <1>14
        <5> QED
          BY <5>1, <5>2
      <4> QED
        BY <4>3, <4>4
    <3>2. ASSUME NEW x \in DOMAIN calls', IsMember(x)
          PROVE  UnderWayNext(calls'[x].pkg)
      BY <3>2, <2>1, <1>6, <1>10, <1>22 DEF FoundUnderWay
    <3>3. ASSUME NEW y \in DOMAIN visited', NEW x \in visited'[y]
          PROVE  UnderWayNext(x)
      <4>1. y \in DOMAIN visited /\ (x \in visited[y] \/ x = r)
        BY <3>3, <1>11
      <4> QED
        BY <4>1, <2>1, <2>2, <1>22 DEF FoundUnderWay
    <3> QED
      BY <3>1, <3>2, <3>3, <1>5, FoundUnderWayNext
  <2> QED
    BY <2>3, <2>4, <2>5, <2>6
<1>24. EntriesAreMade'
  <2> SUFFICES ASSUME Steady', failures' = 0
               PROVE  /\ (\A x \in Packages \ Loaded : InLock(x) => \E y \in DOMAIN calls : Made(x, y))'
                      /\ (\A y \in DOMAIN calls : IsDependency(y) /\ ~Walks(y, "resolving") => Recorded(y))'
    BY DEF EntriesAreMade
  <2>1. /\ \A x \in Packages \ Loaded : InLock(x) => \E y \in DOMAIN calls : Made(x, y)
        /\ \A y \in DOMAIN calls : IsDependency(y) /\ ~Walks(y, "resolving") => Recorded(y)
    BY <1>5, <1>18 DEF EntriesAreMade
  <2>2. KindsInEntry
    BY <1>18 DEF WalksAreAwaited
  <2>3. ASSUME NEW x \in Packages \ Loaded, x \in DOMAIN lock'
        PROVE  \E y \in DOMAIN calls' : Made(x, y)'
    <3>1. x \in DOMAIN lock
      BY <2>3, <1>14
    <3>2. PICK y \in DOMAIN calls : Made(x, y)
      BY <2>1, <3>1 DEF InLock
    <3>3. y # p
      BY <3>2, <1>5 DEF Made, Walks
    <3>4. calls'[y] = calls[y] /\ KindsOf(y)' = KindsOf(y)
      BY <3>3, <1>10, <1>15
    <3>5. DOMAIN lock'[x] = DOMAIN lock[x] /\ (lock[x] = Nothing => lock'[x] = Nothing)
      BY <3>1, <1>14
    <3>6. Made(x, y)'
      BY <3>2, <3>4, <3>5, <1>5, <1>10 DEF Made, Walks
    <3> QED
      BY <3>6, <1>10
  <2>4. ASSUME NEW y \in DOMAIN calls', IsDependency(y), calls'[y].at # "resolving"
        PROVE  Recorded(y)'
    <3>1. y \in DOMAIN calls /\ y # <<>> /\ EntryPackage(y)' = EntryPackage(y)
      BY <2>4, <1>10, <1>17 DEF IsDependency
    <3>2. CASE y = p
      <4>1. graph'.resolution[Specifier(p)] # Unknown
        BY <1>2, <1>5
      <4> QED
        BY <3>1, <3>2, <4>1, <1>2, <1>5, <1>14 DEF Recorded
    <3>3. CASE y # p
      <4>1. Recorded(y)
        BY <3>1, <3>3, <2>1, <2>4, <1>10 DEF Walks
      <4>2. EntryPackage(y) \in DOMAIN lock /\ Kind(y) \in DOMAIN lock[EntryPackage(y)]
        BY <3>1, <2>2, <2>4, <1>1 DEF KindsInEntry, WalkTree, Reached, InLock
      <4>3. CASE graph.resolution[Specifier(y)] = Unknown
        BY <4>1, <4>3, <1>5, <1>14 DEF Recorded, InLock
      <4>4. CASE graph.resolution[Specifier(y)] # Unknown
        <5>1. PICK entry : entry = lock[EntryPackage(y)][Kind(y)]
          OBVIOUS
        <5>2. Specifier(y) \in DOMAIN entry /\ entry[Specifier(y)] = graph.resolution[Specifier(y)]
          BY <4>1, <4>4, <5>1 DEF Recorded
        <5>3. PICK edged : edged = lock'[EntryPackage(y)][Kind(y)]
          OBVIOUS
        <5>4. Specifier(y) \in DOMAIN edged /\ edged[Specifier(y)] = graph.resolution[Specifier(y)]
          <6>1. CASE EntryPackage(y) # EntryPackage(p) \/ Kind(y) # Kind(p)
            BY <6>1, <4>2, <5>1, <5>2, <5>3, <1>14
          <6>2. CASE EntryPackage(y) = EntryPackage(p) /\ Kind(y) = Kind(p)
            BY <6>2, <5>1, <5>2, <5>3, <1>2, <1>14
          <6> QED
            BY <6>1, <6>2
        <5> QED
          BY <4>4, <5>3, <5>4, <3>1, <1>5 DEF Recorded
      <4> QED
        BY <4>3, <4>4
    <3> QED
      BY <3>2, <3>3
  <2> QED
    BY <2>3, <2>4, <1>13 DEF InLock, Walks
<1>25. OneWalk'
  <2> SUFFICES ASSUME ~NestedWorkspaces, ~addFailed
               PROVE  OneAtATime' /\ OneVisited'
    BY <1>5, <1>13 DEF OneWalk
  <2>1. OneAtATime /\ OneVisited
    BY DEF OneWalk
  <2>2. \A x \in DOMAIN calls :
          /\ Walks(x, "adding") => ~Begun(calls[x].pkg)
          /\ Walks(x, "members") => x = <<>> /\ ~Begun(graph.root)
          /\ x # <<>> => ~Walks(<<>>, "adding") /\ InLock(graph.root)
          /\ x # <<>> /\ Walks(x, "adding") => calls[x].pkg # graph.root
    BY <2>1 DEF OneAtATime
  <2>3. ASSUME at = "adding", NEW x \in DOMAIN calls, Walks(x, "adding"), calls[x].pkg = r
        PROVE  FALSE
    <3>1. x # <<>> /\ x # p
      BY <2>2, <2>3, <1>5, <1>6 DEF Walks
    <3>2. calls[x].snapshot = s
      BY <3>1, <2>1, <2>3, <1>3, <1>5, <1>6, <1>9 DEF OneVisited, Walks
    <3>3. r \in visited[s]
      BY <3>2, <2>3, <1>1 DEF WalkTree, Reached
    <3> QED
      BY <3>3, <2>3, <1>9
  <2>4. at = "adding" => announced[r] = 0
    <3>1. announced[r] \in Nat
      BY <1>8 DEF WalkTypes
    <3>2. announced[r] > 0 => UnderWay(r)
      BY <2>1, <1>8 DEF OneAtATime
    <3>3. at = "adding" => ~UnderWay(r)
      BY <2>3, <1>9 DEF UnderWay, InLock
    <3> QED
      BY <3>1, <3>2, <3>3
  <2>5. (\A x \in Packages : announced[x] <= 1 /\ (announced[x] > 0 => UnderWay(x)))'
    <3>1. ASSUME NEW x \in Packages
          PROVE  announced'[x] <= 1 /\ (announced'[x] > 0 => UnderWayNext(x))
      <4>1. CASE x = r /\ at = "adding"
        BY <4>1, <2>4, <1>12, <1>22
      <4>2. CASE x # r \/ at # "adding"
        BY <4>2, <2>1, <1>12, <1>22 DEF OneAtATime
      <4> QED
        BY <4>1, <4>2
    <3> QED
      BY <3>1, <1>13 DEF UnderWay, UnderWayNext, InLock, Walks
  <2>6. (\A x, y \in DOMAIN calls :
           Walks(x, "adding") /\ Walks(y, "adding") /\ calls[x].pkg = calls[y].pkg => x = y)'
    <3>1. ASSUME NEW x \in DOMAIN calls, NEW y \in DOMAIN calls, x # p, calls'[x].at = "adding",
                 calls'[y].at = "adding", calls'[x].pkg = calls'[y].pkg
          PROVE  x = y
      <4>1. calls'[x] = calls[x]
        BY <3>1, <1>10
      <4>2. CASE y = p
        BY <4>1, <4>2, <3>1, <2>3, <1>10 DEF Walks
      <4>3. CASE y # p
        BY <4>1, <4>3, <3>1, <2>1, <1>10 DEF OneAtATime, Walks
      <4> QED
        BY <4>2, <4>3
    <3> QED
      BY <3>1, <1>10 DEF Walks
  <2>7. ASSUME NEW key, ~Begun(key)
        PROVE  key \in DOMAIN lock' => lock'[key] = Nothing
    BY <2>7, <1>14 DEF Begun
  <2>8. (\A x \in DOMAIN calls :
            /\ Walks(x, "adding") => ~Begun(calls[x].pkg)
            /\ Walks(x, "members") => x = <<>> /\ ~Begun(graph.root)
            /\ x # <<>> => ~Walks(<<>>, "adding") /\ InLock(graph.root)
            /\ x # <<>> /\ Walks(x, "adding") => calls[x].pkg # graph.root)'
    <3> SUFFICES ASSUME NEW x \in DOMAIN calls'
                 PROVE  (/\ Walks(x, "adding") => ~Begun(calls[x].pkg)
                         /\ Walks(x, "members") => x = <<>> /\ ~Begun(graph.root)
                         /\ x # <<>> => ~Walks(<<>>, "adding") /\ InLock(graph.root)
                         /\ x # <<>> /\ Walks(x, "adding") => calls[x].pkg # graph.root)'
      OBVIOUS
    <3>1. /\ calls'[<<>>] = calls[<<>>] /\ ~Walks(<<>>, "adding") /\ InLock(graph.root)
      BY <2>2, <1>1, <1>6, <1>10, CallFacts
    <3>2. CASE x = p
      BY <3>1, <3>2, <1>5, <1>9, <1>10, <1>14 DEF Walks, InLock, Begun
    <3>3. CASE x # p
      <4>1. x \in DOMAIN calls /\ calls'[x] = calls[x]
        BY <3>3, <1>10
      <4>2. Walks(x, "adding") => (calls[x].pkg \in DOMAIN lock' => lock'[calls[x].pkg] = Nothing)
        BY <4>1, <2>2, <2>7
      <4>3. Walks(x, "members") => x = <<>> /\ (graph.root \in DOMAIN lock' => lock'[graph.root] = Nothing)
        BY <4>1, <2>2, <2>7
      <4> QED
        BY <4>1, <4>2, <4>3, <3>1, <2>2, <1>5, <1>14 DEF Walks, InLock, Begun
    <3> QED
      BY <3>2, <3>3
  <2>9. OneAtATime'
    BY <2>1, <2>5, <2>6, <2>8, <1>5 DEF OneAtATime
  <2>10. OneVisited'
    <3>1. \A x \in DOMAIN calls' \ {<<>>} : calls'[x].at # "done" =>
            x \in DOMAIN calls \ {<<>>} /\ ~Walks(x, "done") /\ calls'[x].snapshot = calls[x].snapshot
      BY <1>3, <1>5, <1>10 DEF Walks
    <3> QED
      BY <3>1, <2>1, <1>5 DEF OneVisited, Walks
  <2> QED
    BY <2>9, <2>10
<1> QED
  BY <1>19, <1>20, <1>21, <1>23, <1>24, <1>25

\* The walk of the root begins, or is done when the lock has the root.
LEMMA LockInitInv == ASSUME LockInit PROVE LockInv
<1> DEFINE at == IF graph.root \in Loaded THEN "done" ELSE "adding"
<1>1. /\ graph \in Graphs /\ lock = graph.lock /\ aborted = FALSE /\ failures = 0 /\ addFailed = FALSE
      /\ replaced = FALSE
      /\ calls = [p \in {<<>>} |-> [pkg |-> graph.root, snapshot |-> <<>>, at |-> at]]
      /\ visited = [p \in {<<>>} |-> {graph.root}]
      /\ announced = [p \in Packages |-> IF p = graph.root /\ p \notin Loaded THEN 1 ELSE 0]
  BY DEF LockInit
<1>2. graph.root \in Packages
  BY <1>1, LockAssumption DEF Packages
<1>3. <<>> \in Ways /\ Len(<<>>) = 0 /\ SubSeq(<<>>, 1, 0) = <<>> /\ ~IsMember(<<>>) /\ ~IsDependency(<<>>)
  BY DEF Ways, IsMember, IsDependency
<1>4. at \in {"done", "adding"} /\ (at = "adding" <=> graph.root \notin Loaded)
  OBVIOUS
<1> HIDE DEF at
<1>5. /\ DOMAIN calls = {<<>>} /\ calls[<<>>].pkg = graph.root /\ calls[<<>>].snapshot = <<>> /\ calls[<<>>].at = at
      /\ calls[<<>>] \in WalkType
  BY <1>1, <1>2, <1>3, <1>4 DEF WalkType
<1>6. DOMAIN lock = Loaded /\ DOMAIN visited = {<<>>} /\ visited[<<>>] = {graph.root}
  BY <1>1 DEF Loaded
<1>7. /\ announced[graph.root] = (IF at = "adding" THEN 1 ELSE 0)
      /\ \A p \in Packages : p # graph.root => announced[p] = 0
  BY <1>1, <1>2, <1>4
<1>8. WalkTypes
  <2>1. failures \in 0..MaxFailures
    BY <1>1, LockAssumption
  <2>2. announced \in [Packages -> Nat]
    BY <1>1
  <2>3. /\ DOMAIN lock \subseteq Packages \union Specifiers
        /\ \A key \in DOMAIN lock : DOMAIN lock[key] \subseteq {Regular, Dev}
    BY <1>1, LockAssumption DEF Packages, Specifiers
  <2> QED
    BY <2>1, <2>2, <2>3, <1>1, <1>2, <1>3, <1>5, <1>6 DEF WalkTypes
<1>9. WalkTree
  <2>1. \A n \in 0..Len(<<>>) : SubSeq(<<>>, 1, n) \in DOMAIN calls
    BY <1>3, <1>5
  <2>2. Reached(<<>>)
    BY <1>2, <1>3, <1>4, <1>5, <1>6, <1>7 DEF Reached, Walks
  <2> QED
    BY <2>1, <2>2, <1>5, <1>6 DEF WalkTree
<1>10. MembersInTurn
  BY <1>4, <1>5 DEF MembersInTurn, Walks
<1>11. UnderWay(graph.root)
  BY <1>4, <1>5, <1>6 DEF UnderWay, Walks, InLock
<1>12. WalksAreAwaited
  BY <1>3, <1>4, <1>5, <1>6, <1>11 DEF WalksAreAwaited, NoneFailed, DoneBelow, KindsInEntry, FoundUnderWay, Walks
<1>13. EntriesAreMade
  BY <1>3, <1>5, <1>6 DEF EntriesAreMade, InLock
<1>14. OneWalk
  <2>1. at = "adding" => ~Begun(graph.root)
    BY <1>4, <1>6 DEF Begun
  <2>2. \A pkg \in Packages : announced[pkg] <= 1 /\ (announced[pkg] > 0 => UnderWay(pkg))
    BY <1>7, <1>11
  <2> QED
    BY <2>1, <2>2, <1>1, <1>4, <1>5 DEF OneWalk, OneAtATime, OneVisited, Walks
<1> QED
  BY <1>8, <1>9, <1>10, <1>12, <1>13, <1>14 DEF LockInv

\* Every step of the walk.
LEMMA LockNextInv == ASSUME LockInv, [LockNext]_lockVars PROVE LockInv'
<1>1. CASE UNCHANGED lockVars
  <2> USE DEF LockInv
  <2>1. /\ graph' = graph /\ lock' = lock /\ calls' = calls /\ visited' = visited /\ failures' = failures
        /\ addFailed' = addFailed /\ announced' = announced /\ replaced' = replaced /\ aborted' = aborted
    BY <1>1 DEF lockVars
  <2>2. /\ Packages' = Packages /\ Loaded' = Loaded /\ Specifiers' = Specifiers /\ Steps' = Steps /\ Ways' = Ways
        /\ WalkType' = WalkType
    BY <2>1, SameGraph
  <2>3. WalkTypes'
    BY <2>1, <2>2 DEF WalkTypes
  <2>4. WalkTree'
    BY <2>1, <2>2 DEF WalkTree, Reached, Walks, InLock, EntryPackage
  <2>5. MembersInTurn'
    <3>1. \A q, n : Children(q)' = Children(q) /\ MembersUpTo(q, n)' = MembersUpTo(q, n)
      BY <2>1 DEF Children, MembersUpTo
    <3> QED
      BY <3>1, <2>1 DEF MembersInTurn, Loaded, Walks
  <2>6. \A q : KindsOf(q)' = KindsOf(q)
    BY <2>1 DEF KindsOf
  <2>7. WalksAreAwaited'
    BY <2>1, <2>6 DEF WalksAreAwaited, Steady, NoneFailed, DoneBelow, KindsInEntry, FoundUnderWay, UnderWay, InLock,
                      Walks, EntryPackage, Loaded
  <2>8. EntriesAreMade'
    BY <2>1, <2>2, <2>6 DEF EntriesAreMade, Steady, Made, Recorded, InLock, Walks, EntryPackage
  <2>9. OneWalk'
    BY <2>1, <2>2 DEF OneWalk, NestedWorkspaces, OneAtATime, OneVisited, UnderWay, InLock, Walks, Begun
  <2> QED
    BY <2>3, <2>4, <2>5, <2>7, <2>8, <2>9
<1>2. CASE Abort
  BY <1>2, AbortInv
<1>3. ASSUME NEW p \in DOMAIN calls, Added(p)
      PROVE  LockInv'
  BY <1>3, AddedStarts, StartsInv, ListedInv
<1>4. ASSUME NEW p \in DOMAIN calls, NextMember(p)
      PROVE  LockInv'
  BY <1>4, MembersStarts, StartsInv, NewMemberInv
<1>5. ASSUME NEW p \in DOMAIN calls, Resolved(p)
      PROVE  LockInv'
  BY <1>5, ResolvedInv, ResolvedLateInv
<1>6. ASSUME NEW p \in DOMAIN calls, MemberThrows(p) \/ NotResolved(p) \/ Caught(p)
      PROVE  LockInv'
  BY <1>6, MemberThrowsInv, NotResolvedInv, CaughtInv
<1>7. ASSUME NEW p \in DOMAIN calls, TasksDone(p) \/ TaskFails(p)
      PROVE  LockInv'
  BY <1>7, TasksDoneInv, TaskFailsInv
<1>8. ASSUME NEW p \in DOMAIN calls, AddFails(p) \/ ResolutionFails(p)
      PROVE  LockInv'
  BY <1>8, AddFailsInv, ResolutionFailsInv
<1> QED
  BY <1>1, <1>2, <1>3, <1>4, <1>5, <1>6, <1>7, <1>8 DEF LockNext, Proceeds

\* When a snapshot resolves and nothing came between, no call is left.
LEMMA AllDone ==
  ASSUME LockInv, Resolves, Steady
  PROVE  /\ \A p \in DOMAIN calls : Walks(p, "done")
         /\ \A pkg : UnderWay(pkg) => InLock(pkg)
<1>1. WalkTypes /\ WalkTree /\ DoneBelow
  BY DEF LockInv, WalksAreAwaited
<1>2. ASSUME NEW p \in DOMAIN calls
      PROVE  Walks(p, "done")
  <2>1. <<>> \in DOMAIN calls /\ <<>> \in Ways /\ p \in Ways
    BY <1>1, CallFacts
  <2>2. Below(p, <<>>)
    BY <2>1, WayBelow DEF Ways
  <2> QED
    BY <2>1, <2>2, <1>1 DEF DoneBelow, Walks, Resolves
<1> QED
  BY <1>2 DEF UnderWay, Walks

\* What made the entry of a package, once the snapshot has resolved.
LEMMA MadeWhole ==
  ASSUME LockInv, Resolves, NothingFailed, ~replaced, NEW pkg \in Packages \ Loaded, InLock(pkg)
  PROVE  \E q \in DOMAIN calls :
           /\ calls[q].pkg = pkg /\ DOMAIN lock[pkg] = KindsOf(q)
           /\ \A k \in KindsOf(q) : \A u \in graph.deps[pkg][k] : Append(q, <<k, u>>) \in DOMAIN calls
<1>1. Steady /\ failures = 0
  BY DEF LockInv, WalkTypes, NothingFailed, Steady
<1>2. PICK q \in DOMAIN calls : Made(pkg, q)
  BY <1>1 DEF LockInv, EntriesAreMade
<1>3. calls[q].at = "done"
  BY <1>1, AllDone DEF Walks
<1> QED
  BY <1>2, <1>3 DEF Made, Walks

\* Every task of the call that made an entry has recorded its edge.
LEMMA RecordedWhole ==
  ASSUME LockInv
  PROVE  EveryDependencyRecorded
<1> SUFFICES ASSUME Resolves, NothingFailed, ~replaced, NEW p \in Packages \ Loaded, InLock(p)
             PROVE  /\ Regular \in DOMAIN graph.deps[p] => Regular \in DOMAIN lock[p]
                    /\ \A k \in DOMAIN lock[p] : \A u \in graph.deps[p][k] :
                         IF graph.resolution[u] = Unknown THEN u \in DOMAIN lock
                         ELSE u \in DOMAIN lock[p][k] /\ lock[p][k][u] = graph.resolution[u]
  BY DEF EveryDependencyRecorded, InLock
<1>1. WalkTypes /\ WalkTree /\ Steady /\ failures = 0
  BY DEF LockInv, WalkTypes, NothingFailed, Steady
<1>2. PICK q \in DOMAIN calls :
        /\ calls[q].pkg = p /\ DOMAIN lock[p] = KindsOf(q)
        /\ \A k \in KindsOf(q) : \A u \in graph.deps[p][k] : Append(q, <<k, u>>) \in DOMAIN calls
  BY MadeWhole
<1>3. Regular \in DOMAIN graph.deps[p] => Regular \in DOMAIN lock[p]
  BY <1>2 DEF KindsOf, Regular, Dev
<1>4. ASSUME NEW k \in DOMAIN lock[p], NEW u \in graph.deps[p][k]
      PROVE  IF graph.resolution[u] = Unknown THEN u \in DOMAIN lock
             ELSE u \in DOMAIN lock[p][k] /\ lock[p][k][u] = graph.resolution[u]
  <2>1. k \in {Regular, Dev} /\ k \in DOMAIN graph.deps[p] /\ u \in Specifiers
    BY <1>1, <1>2, <1>4, GraphFacts DEF KindsOf
  <2>2. PICK t : t = Append(q, <<k, u>>)
    OBVIOUS
  <2>3. t \in DOMAIN calls
    BY <2>2, <1>2, <1>4
  <2>4. PICK s \in Steps : s = <<k, u>> /\ s[1] = k /\ s[2] = u
    <3>1. <<k, u>> \in {Regular, Dev} \X Specifiers
      BY <2>1
    <3>2. <<k, u>> \in Steps /\ <<k, u>>[1] = k /\ <<k, u>>[2] = u
      BY <3>1 DEF Steps
    <3> QED
      BY <3>2
  <2>5. q \in Seq(Steps)
    BY <1>1, CallFacts DEF Ways
  <2>6. t # <<>> /\ Parent(t) = q /\ Kind(t) = k /\ Specifier(t) = u
    BY <2>2, <2>4, <2>5, WayStep
  <2>7. IsDependency(t) /\ EntryPackage(t) = p
    BY <2>1, <2>6, <1>2 DEF IsDependency, Kind, EntryPackage, Regular, Dev, Member
  <2>8. ~Walks(t, "resolving")
    BY <2>3, <1>1, AllDone DEF Walks
  <2>9. Recorded(t)
    BY <2>3, <2>7, <2>8, <1>1 DEF LockInv, EntriesAreMade
  <2> QED
    BY <2>6, <2>7, <2>9 DEF Recorded, InLock
<1> QED
  BY <1>3, <1>4

\* A call that is no dependency made the entry of the root and of its workspaces, or another package depends on them.
LEMMA DevRecorded ==
  ASSUME LockInv
  PROVE  WorkspacesKeepDevDependencies
<1> SUFFICES ASSUME Resolves, NothingFailed, ~replaced, graph.root \notin Loaded,
                    NEW p \in {graph.root} \union {graph.members[graph.root][i] : i \in DOMAIN graph.members[graph.root]},
                    p \notin Loaded, Dev \in DOMAIN graph.deps[p]
             PROVE  Dev \in DOMAIN lock[p] \/ \E u \in DOMAIN graph.resolution : graph.resolution[u] = p
  BY DEF WorkspacesKeepDevDependencies
<1>1. WalkTypes /\ WalkTree /\ MembersInTurn /\ Steady /\ FoundUnderWay
  BY DEF LockInv, WalkTypes, NothingFailed, Steady, WalksAreAwaited
<1>2. p \in Packages /\ UnderWay(p)
  <2>1. CASE p = graph.root
    <3>1. <<>> \in DOMAIN visited /\ graph.root \in visited[<<>>]
      BY <1>1 DEF WalkTypes, WalkTree
    <3> QED
      BY <2>1, <3>1, <1>1, GraphFacts DEF FoundUnderWay
  <2>2. CASE p # graph.root
    <3>1. PICK i \in DOMAIN graph.members[graph.root] : p = graph.members[graph.root][i]
      BY <2>2
    <3>2. graph.root \in Packages /\ graph.members[graph.root] \in Seq(Packages)
      BY <1>1, GraphFacts
    <3>3. p \in Packages
      BY <3>1, <3>2, LenProperties
    <3>4. PICK m : m = <<<<Member, p>>>>
      OBVIOUS
    <3>5. m \in DOMAIN calls
      BY <3>1, <3>4, <1>1 DEF MembersInTurn, Resolves
    <3>6. IsMember(m) /\ Specifier(m) = p
      BY <3>4 DEF IsMember, Kind, Specifier
    <3>7. calls[m].pkg = p
      BY <3>5, <3>6, <1>1 DEF WalkTree, Reached
    <3> QED
      BY <3>3, <3>5, <3>6, <3>7, <1>1 DEF FoundUnderWay
  <2> QED
    BY <2>1, <2>2
<1>3. InLock(p)
  BY <1>1, <1>2, AllDone
<1>4. PICK q \in DOMAIN calls : calls[q].pkg = p /\ DOMAIN lock[p] = KindsOf(q)
  BY <1>2, <1>3, MadeWhole
<1>5. CASE ~IsDependency(q)
  BY <1>4, <1>5 DEF KindsOf
<1>6. CASE IsDependency(q)
  <2>1. Specifier(q) \in Specifiers /\ calls[q].pkg \in {Unknown, graph.resolution[Specifier(q)]}
    BY <1>1, <1>6, CallFacts DEF WalkTree, Reached
  <2>2. p # Unknown
    BY <1>1, <1>2, GraphFacts
  <2> QED
    BY <2>1, <2>2, <1>4 DEF Specifiers
<1> QED
  BY <1>5, <1>6

\* What the invariant says of the lock file.
LEMMA LockInvEnough ==
  ASSUME LockInv
  PROVE  LockTypeOK /\ AddedOnce /\ EdgesResolve /\ EveryDependencyRecorded /\ WorkspacesKeepDevDependencies
<1>1. LockTypeOK
  <2>1. \A p \in DOMAIN calls : calls[p].snapshot \in DOMAIN visited
    BY DEF LockInv, WalkTree, Reached
  <2> QED
    BY <2>1 DEF LockInv, WalkTypes, LockTypeOK, Specifiers
<1>2. AddedOnce
  BY DEF LockInv, OneWalk, OneAtATime, AddedOnce
<1>3. EdgesResolve
  <2> SUFFICES ASSUME Resolves, Steady,
                      NEW key \in DOMAIN lock \ Loaded, NEW k \in DOMAIN lock[key],
                      NEW u \in DOMAIN lock[key][k]
               PROVE  lock[key][k][u] \in DOMAIN lock
    BY DEF EdgesResolve, Steady
  <2>1. UnderWay(lock[key][k][u])
    BY DEF LockInv, WalksAreAwaited, FoundUnderWay
  <2> QED
    BY <2>1, AllDone DEF InLock
<1> QED
  BY <1>1, <1>2, <1>3, RecordedWhole, DevRecorded

\* An aborted walk announces no package.
LEMMA AbortedAddsNothing ==
  ASSUME [LockNext]_lockVars
  PROVE  [aborted => announced' = announced]_lockVars
<1> SUFFICES ASSUME aborted, LockNext
             PROVE  announced' = announced
  OBVIOUS
<1>1. ASSUME NEW p \in DOMAIN calls, NextMember(p)
      PROVE  announced' = announced
  BY <1>1 DEF NextMember, AnnouncePkg
<1>2. ASSUME NEW p \in DOMAIN calls, Resolved(p)
      PROVE  announced' = announced
  BY <1>2 DEF Resolved, Entry, AnnouncePkg
<1>3. ASSUME NEW p \in DOMAIN calls, Proceeds(p)
      PROVE  announced' = announced
  BY <1>1, <1>2, <1>3 DEF Proceeds, Added, MemberThrows, NotResolved, Caught, TasksDone, TaskFails
<1>4. ASSUME NEW p \in DOMAIN calls, AddFails(p) \/ ResolutionFails(p)
      PROVE  announced' = announced
  BY <1>4 DEF AddFails, ResolutionFails
<1> QED
  BY <1>3, <1>4 DEF LockNext, Abort

\* What a step may do for what the lock had to be left alone.
LEMMA LoadedGoesOn ==
  ASSUME LoadedKept, graph' = graph,
         \A key \in Loaded : key \in DOMAIN lock' /\ lock'[key] = lock[key],
         \A pkg \in Packages \intersect Loaded : announced'[pkg] = announced[pkg],
         \A q \in DOMAIN calls' :
           calls'[q].at \in {"adding", "members", "dependencies"} => calls'[q].pkg \notin Loaded,
         \A q \in DOMAIN calls' : IsDependency(q) => calls'[Parent(q)].pkg \notin Loaded
  PROVE  LoadedKept'
<1>1. Packages' = Packages /\ Loaded' = Loaded
  BY SameGraph
<1>2. LoadedIsKept'
  BY <1>1 DEF LoadedKept, LoadedIsKept
<1> QED
  BY <1>1, <1>2 DEF LoadedKept, EntryPackage

\* A step with which a call goes on, and nothing else does.
LEMMA LoadedWalksOn ==
  ASSUME WalkTypes, WalkTree, LoadedKept, NEW p \in DOMAIN calls, graph' = graph, announced' = announced,
         DOMAIN calls' = DOMAIN calls, \A q \in DOMAIN calls : q # p => calls'[q] = calls[q],
         calls'[p].pkg = calls[p].pkg,
         calls'[p].at \in {"adding", "members", "dependencies"} => calls[p].pkg \notin Loaded,
         \A key \in Loaded : key \in DOMAIN lock' /\ lock'[key] = lock[key]
  PROVE  LoadedKept'
<1>1. \A q \in DOMAIN calls : calls'[q].pkg = calls[q].pkg
  OBVIOUS
<1>2. \A q \in DOMAIN calls :
        calls'[q].at \in {"adding", "members", "dependencies"} => calls'[q].pkg \notin Loaded
  BY DEF LoadedKept
<1>3. \A q \in DOMAIN calls : IsDependency(q) => Parent(q) \in DOMAIN calls /\ calls[Parent(q)].pkg \notin Loaded
  BY CallFacts DEF LoadedKept, EntryPackage
<1> QED
  BY <1>1, <1>2, <1>3, LoadedGoesOn

\* An edge goes to an entry that was not loaded.
LEMMA LoadedCatch ==
  ASSUME WalkTypes, WalkTree, LoadedKept, NEW p \in DOMAIN calls, IsDependency(p), NEW key,
         Catch(p, lock) \/ Catch(p, WithEdge(p, key)), graph' = graph, announced' = announced
  PROVE  LoadedKept'
<1>1. EntryPackage(p) \notin Loaded /\ \A x \in Loaded : x \in DOMAIN lock
  BY DEF LoadedKept, LoadedIsKept
<1>2. \A x \in Loaded : x \in DOMAIN WithEdge(p, key) /\ WithEdge(p, key)[x] = lock[x]
  BY <1>1 DEF WithEdge, Set, Update, EntryPackage
<1>3. \A x \in Loaded : x \in DOMAIN lock' /\ lock'[x] = lock[x]
  BY <1>1, <1>2 DEF Catch, Update
<1>4. /\ DOMAIN calls' = DOMAIN calls
      /\ \A q \in DOMAIN calls : q # p => calls'[q] = calls[q]
      /\ calls'[p].pkg = calls[p].pkg /\ calls'[p].at \in {"done", "failed"}
  BY CatchKeeps
<1> QED
  BY <1>3, <1>4, LoadedWalksOn

\* A call whose dependencies start, or whose workspaces do, is not in what was loaded.
LEMMA LoadedStarts ==
  ASSUME WalkTypes, WalkTree, LoadedKept, NEW p \in DOMAIN calls, Starts(p)
  PROVE  LoadedKept'
<1>1. /\ graph' = graph /\ announced' = announced
      /\ DOMAIN calls' = DOMAIN calls \union TasksOf(p)
      /\ \A q \in DOMAIN calls :
           /\ calls'[q].pkg = calls[q].pkg
           /\ q # p => calls'[q] = calls[q]
           /\ q # <<>> => Parent(q) \in DOMAIN calls
      /\ \A t \in TasksOf(p) : Parent(t) = p /\ calls'[t].at = IF aborted THEN "failed" ELSE "resolving"
  BY StartsFacts
<1>2. calls[p].pkg \notin Loaded /\ \A x \in Loaded : x \in DOMAIN lock
  BY DEF LoadedKept, LoadedIsKept, Starts
<1>3. \A x \in Loaded : x \in DOMAIN lock' /\ lock'[x] = lock[x]
  BY <1>2 DEF Starts
<1>4. \A q \in DOMAIN calls' :
        calls'[q].at \in {"adding", "members", "dependencies"} => calls'[q].pkg \notin Loaded
  BY <1>1, <1>2 DEF LoadedKept
<1>5. ASSUME NEW q \in DOMAIN calls', IsDependency(q)
      PROVE  calls'[Parent(q)].pkg \notin Loaded
  <2>1. CASE q \in TasksOf(p)
    BY <2>1, <1>1, <1>2
  <2>2. CASE q \in DOMAIN calls
    <3>1. q # <<>>
      BY <1>5 DEF IsDependency
    <3> QED
      BY <2>2, <3>1, <1>1, <1>5 DEF LoadedKept, EntryPackage
  <2> QED
    BY <2>1, <2>2, <1>1
<1> QED
  BY <1>1, <1>3, <1>4, <1>5, LoadedGoesOn

\* A workspace is walked when it is not in the lock.
LEMMA LoadedNewMember ==
  ASSUME WalkTypes, WalkTree, LoadedKept, NEW p \in DOMAIN calls, NextMember(p),
         Cardinality(Children(p)) # Len(graph.members[calls[p].pkg])
  PROVE  LoadedKept'
<1>1. PICK w : w = graph.members[calls[p].pkg][Cardinality(Children(p)) + 1]
  OBVIOUS
<1>2. PICK q : q = Append(p, <<Member, w>>)
  OBVIOUS
<1>3. PICK at : at = IF aborted THEN "thrown" ELSE IF w \in DOMAIN lock THEN "done" ELSE "adding"
  OBVIOUS
<1> DEFINE made == [pkg |-> w, snapshot |-> q, at |-> at]
<1>4. /\ calls' = Set(calls, q, made) /\ AnnouncePkg(w, at) /\ lock' = lock /\ graph' = graph
  BY <1>1, <1>2, <1>3 DEF NextMember
<1>5. made.pkg = w /\ made.at = at
  OBVIOUS
<1> HIDE DEF made
<1>6. DOMAIN calls' = DOMAIN calls \union {q} /\ calls'[q] = made /\ \A x \in DOMAIN calls : x # q => calls'[x] = calls[x]
  BY <1>4 DEF Set, Update
<1>7. q # <<>> /\ Kind(q) = Member /\ Specifier(q) = w
  <2>1. PICK T : T = Steps \union {<<Member, w>>}
    OBVIOUS
  <2>2. p \in Seq(Steps)
    BY CallFacts DEF Ways
  <2>3. p \in Seq(T) /\ <<Member, w>> \in T
    BY <2>1, <2>2
  <2> QED
    BY <2>3, <1>2, WayStep
<1>8. IsMember(q) /\ ~IsDependency(q)
  BY <1>7 DEF IsMember, IsDependency, Kind
<1>9. \A x \in Loaded : x \in DOMAIN lock' /\ lock'[x] = lock[x]
  BY <1>4 DEF LoadedKept, LoadedIsKept
<1>10. at \in {"adding", "members", "dependencies"} => w \notin Loaded
  BY <1>3, <1>4, <1>9
<1>11. \A pkg \in Packages \intersect Loaded : announced'[pkg] = announced[pkg]
  <2>1. CASE at = "adding"
    <3>1. announced' = [announced EXCEPT ![w] = @ + 1]
      BY <2>1, <1>4 DEF AnnouncePkg
    <3>2. announced \in [Packages -> Nat] /\ w \notin Loaded
      BY <2>1, <1>10 DEF WalkTypes
    <3> QED
      BY <3>1, <3>2
  <2>2. CASE at # "adding"
    BY <2>2, <1>4 DEF AnnouncePkg
  <2> QED
    BY <2>1, <2>2
<1>12. \A x \in DOMAIN calls' :
         calls'[x].at \in {"adding", "members", "dependencies"} => calls'[x].pkg \notin Loaded
  BY <1>5, <1>6, <1>10 DEF LoadedKept
<1>13. ASSUME NEW x \in DOMAIN calls', IsDependency(x)
       PROVE  calls'[Parent(x)].pkg \notin Loaded
  <2>1. x \in DOMAIN calls
    BY <1>6, <1>8, <1>13
  <2>2. Parent(x) \in DOMAIN calls /\ calls[Parent(x)].pkg \notin Loaded
    BY <2>1, <1>13, CallFacts DEF LoadedKept, EntryPackage
  <2>3. CASE Parent(x) = q
    <3>1. calls[q].pkg = w
      BY <2>2, <2>3, <1>7, <1>8 DEF WalkTree, Reached
    <3> QED
      BY <2>2, <2>3, <3>1, <1>5, <1>6
  <2>4. CASE Parent(x) # q
    BY <2>2, <2>4, <1>6
  <2> QED
    BY <2>3, <2>4
<1> QED
  BY <1>4, <1>9, <1>11, <1>12, <1>13, LoadedGoesOn

\* A package that a specifier resolves to is walked when it is not in the lock.
LEMMA LoadedResolved ==
  ASSUME WalkTypes, WalkTree, LoadedKept, NEW p \in DOMAIN calls, Resolved(p), HasKind(p)
  PROVE  LoadedKept'
<1>1. PICK r : r = graph.resolution[Specifier(p)]
  OBVIOUS
<1>2. PICK at : at = Entry(r, calls[p].snapshot)
  OBVIOUS
<1>3. /\ calls[p].at = "resolving" /\ lock' = WithEdge(p, r) /\ graph' = graph
      /\ calls' = [calls EXCEPT ![p].pkg = r, ![p].at = at] /\ AnnouncePkg(r, at)
  BY <1>1, <1>2 DEF Resolved
<1>4. IsDependency(p)
  BY <1>3 DEF WalkTree, Reached, Walks
<1>5. EntryPackage(p) \notin Loaded /\ \A x \in Loaded : x \in DOMAIN lock
  BY <1>4 DEF LoadedKept, LoadedIsKept
<1>6. \A x \in Loaded : x \in DOMAIN lock' /\ lock'[x] = lock[x]
  BY <1>3, <1>5 DEF WithEdge, Set, Update, EntryPackage
<1>7. at \in {"adding", "members", "dependencies"} => at = "adding" /\ r \notin Loaded
  BY <1>2, <1>5 DEF Entry
<1>8. DOMAIN calls' = DOMAIN calls /\ \A x \in DOMAIN calls : x # p => calls'[x] = calls[x]
  BY <1>3
<1>9. calls'[p].pkg = r /\ calls'[p].at = at
  <2>1. PICK c : c = calls[p]
    OBVIOUS
  <2>2. c \in WalkType
    BY <2>1 DEF WalkTypes
  <2>3. calls' = [calls EXCEPT ![p] = [c EXCEPT !.pkg = r, !.at = at]]
    BY <2>1, <1>3
  <2>4. [c EXCEPT !.pkg = r, !.at = at].pkg = r /\ [c EXCEPT !.pkg = r, !.at = at].at = at
    BY <2>2 DEF WalkType
  <2> QED
    BY <2>3, <2>4
<1>10. \A pkg \in Packages \intersect Loaded : announced'[pkg] = announced[pkg]
  <2>1. CASE at = "adding"
    <3>1. announced' = [announced EXCEPT ![r] = @ + 1]
      BY <2>1, <1>3 DEF AnnouncePkg
    <3>2. announced \in [Packages -> Nat] /\ r \notin Loaded
      BY <2>1, <1>7 DEF WalkTypes
    <3> QED
      BY <3>1, <3>2
  <2>2. CASE at # "adding"
    BY <2>2, <1>3 DEF AnnouncePkg
  <2> QED
    BY <2>1, <2>2
<1>11. \A x \in DOMAIN calls' :
         calls'[x].at \in {"adding", "members", "dependencies"} => calls'[x].pkg \notin Loaded
  BY <1>7, <1>8, <1>9 DEF LoadedKept
<1>12. ASSUME NEW x \in DOMAIN calls', IsDependency(x)
       PROVE  calls'[Parent(x)].pkg \notin Loaded
  <2>1. x \in DOMAIN calls /\ x # <<>>
    BY <1>8, <1>12 DEF IsDependency
  <2>2. Parent(x) \in DOMAIN calls /\ Parent(x) # p
    BY <2>1, <1>3, CallFacts, NoChildren
  <2> QED
    BY <2>1, <2>2, <1>8, <1>12 DEF LoadedKept, EntryPackage
<1> QED
  BY <1>3, <1>6, <1>10, <1>11, <1>12, LoadedGoesOn

\* What the lock had is kept by every step.
LEMMA LoadedNext ==
  ASSUME LockInv, LoadedKept, [LockNext]_lockVars
  PROVE  LoadedKept'
<1>1. WalkTypes /\ WalkTree
  BY DEF LockInv
<1>2. \A x \in Loaded : x \in DOMAIN lock
  BY DEF LoadedKept, LoadedIsKept
<1>3. CASE UNCHANGED lockVars \/ Abort
  <2>1. graph' = graph /\ lock' = lock /\ calls' = calls /\ announced' = announced
    BY <1>3 DEF lockVars, Abort
  <2>2. Packages' = Packages /\ Loaded' = Loaded
    BY <2>1, SameGraph
  <2> QED
    BY <2>1, <2>2 DEF LoadedKept, LoadedIsKept, EntryPackage
<1>4. ASSUME NEW p \in DOMAIN calls, Added(p)
      PROVE  LoadedKept'
  <2>1. CASE graph.members[calls[p].pkg] = <<>>
    <3>1. Starts(p)
      BY <2>1, <1>4, AddedStarts
    <3> QED
      BY <3>1, <1>1, LoadedStarts
  <2>2. CASE graph.members[calls[p].pkg] # <<>>
    <3>1. /\ calls[p].at = "adding" /\ lock' = Set(lock, calls[p].pkg, Nothing) /\ calls' = Goes(p, "members")
          /\ graph' = graph /\ announced' = announced
      BY <2>2, <1>4 DEF Added
    <3>2. calls[p].pkg \notin Loaded
      BY <3>1 DEF LoadedKept
    <3>3. \A x \in Loaded : x \in DOMAIN lock' /\ lock'[x] = lock[x]
      BY <3>1, <3>2, <1>2 DEF Set, Update
    <3>4. /\ DOMAIN calls' = DOMAIN calls /\ calls'[p].pkg = calls[p].pkg
          /\ \A q \in DOMAIN calls : q # p => calls'[q] = calls[q]
      BY <3>1, <1>1, GoesOn
    <3> QED
      BY <3>1, <3>2, <3>3, <3>4, <1>1, LoadedWalksOn
  <2> QED
    BY <2>1, <2>2
<1>5. ASSUME NEW p \in DOMAIN calls, NextMember(p)
      PROVE  LoadedKept'
  <2>1. CASE Cardinality(Children(p)) = Len(graph.members[calls[p].pkg])
    <3>1. Starts(p)
      BY <2>1, <1>5, MembersStarts
    <3> QED
      BY <3>1, <1>1, LoadedStarts
  <2>2. CASE Cardinality(Children(p)) # Len(graph.members[calls[p].pkg])
    BY <2>2, <1>1, <1>5, LoadedNewMember
  <2> QED
    BY <2>1, <2>2
<1>6. ASSUME NEW p \in DOMAIN calls, NEW to \in {"done", "thrown"},
             calls' = Goes(p, to), lock' = lock, graph' = graph, announced' = announced
      PROVE  LoadedKept'
  <2>1. /\ DOMAIN calls' = DOMAIN calls /\ calls'[p].pkg = calls[p].pkg /\ calls'[p].at \in {"done", "thrown"}
        /\ \A q \in DOMAIN calls : q # p => calls'[q] = calls[q]
    BY <1>1, <1>6, GoesOn
  <2> QED
    BY <2>1, <1>1, <1>2, <1>6, LoadedWalksOn
<1>7. ASSUME NEW p \in DOMAIN calls, MemberThrows(p) \/ TasksDone(p) \/ TaskFails(p) \/ AddFails(p)
      PROVE  LoadedKept'
  <2>1. lock' = lock /\ graph' = graph /\ announced' = announced
    BY <1>7 DEF MemberThrows, TasksDone, TaskFails, AddFails
  <2>2. calls' = Goes(p, "done") \/ calls' = Goes(p, "thrown")
    BY <1>7 DEF MemberThrows, TasksDone, TaskFails, AddFails
  <2> QED
    BY <2>1, <2>2, <1>6
<1>8. ASSUME NEW p \in DOMAIN calls, NotResolved(p)
      PROVE  LoadedKept'
  <2>1. /\ lock' = Update([k \in {Specifier(p)} |-> Nothing], lock) /\ calls' = Goes(p, "done")
        /\ graph' = graph /\ announced' = announced
    BY <1>8 DEF NotResolved
  <2>2. \A x \in Loaded : x \in DOMAIN lock' /\ lock'[x] = lock[x]
    BY <2>1, <1>2 DEF Update
  <2>3. /\ DOMAIN calls' = DOMAIN calls /\ calls'[p].pkg = calls[p].pkg /\ calls'[p].at = "done"
        /\ \A q \in DOMAIN calls : q # p => calls'[q] = calls[q]
    BY <2>1, <1>1, GoesOn
  <2> QED
    BY <2>1, <2>2, <2>3, <1>1, LoadedWalksOn
<1>9. ASSUME NEW p \in DOMAIN calls, ResolutionFails(p) \/ Caught(p)
      PROVE  LoadedKept'
  <2>1. /\ Catch(p, WithEdge(p, Specifier(p))) /\ graph' = graph /\ announced' = announced
        /\ Walks(p, "resolving") \/ IsDependency(p)
    BY <1>9 DEF ResolutionFails, Caught, Walks
  <2>2. IsDependency(p)
    BY <2>1, <1>1 DEF WalkTree, Reached
  <2> QED
    BY <2>1, <2>2, <1>1, LoadedCatch
<1>10. ASSUME NEW p \in DOMAIN calls, Resolved(p)
       PROVE  LoadedKept'
  <2>1. CASE HasKind(p)
    BY <2>1, <1>1, <1>10, LoadedResolved
  <2>2. CASE ~HasKind(p)
    <3>1. Catch(p, lock) /\ graph' = graph /\ announced' = announced /\ Walks(p, "resolving")
      BY <2>2, <1>10 DEF Resolved, Walks
    <3>2. IsDependency(p)
      BY <3>1, <1>1 DEF WalkTree, Reached
    <3> QED
      BY <3>1, <3>2, <1>1, LoadedCatch
  <2> QED
    BY <2>1, <2>2
<1> QED
  BY <1>3, <1>4, <1>5, <1>7, <1>8, <1>9, <1>10 DEF LockNext, Proceeds

\* The lock that is given is there at the beginning, and the root is walked when it is not in it.
LEMMA LoadedInit == ASSUME LockInit PROVE LoadedKept
<1>1. /\ lock = graph.lock
      /\ calls = [p \in {<<>>} |-> [pkg |-> graph.root, snapshot |-> <<>>,
                                    at |-> IF graph.root \in Loaded THEN "done" ELSE "adding"]]
      /\ announced = [p \in Packages |-> IF p = graph.root /\ p \notin Loaded THEN 1 ELSE 0]
  BY DEF LockInit
<1>2. LoadedIsKept
  BY <1>1 DEF LoadedIsKept, Loaded
<1>3. DOMAIN calls = {<<>>} /\ ~IsDependency(<<>>)
  BY <1>1 DEF IsDependency
<1>4. calls[<<>>].at \in {"adding", "members", "dependencies"} => calls[<<>>].pkg \notin Loaded
  BY <1>1
<1> QED
  BY <1>2, <1>3, <1>4 DEF LoadedKept

\* A lock file keeps the lock that it was given as it was, and is complete for the
\* rest when its snapshot resolves: every package is added once, what it resolves
\* to is in the lock, with every specifier of the kinds that are followed; and an
\* abort stops the walk.  For every graph, every lock given, any number of failures
\* and any order of the branches.
THEOREM LockFilesAreComplete == LockSpec => LockIsComplete
<1>1. LockInit => LockInv /\ LoadedKept
  BY LockInitInv, LoadedInit
<1>2. LockInv /\ LoadedKept /\ [LockNext]_lockVars => LockInv' /\ LoadedKept'
  BY LockNextInv, LoadedNext
<1>3. LockInv => LockTypeOK /\ AddedOnce /\ EdgesResolve /\ EveryDependencyRecorded /\ WorkspacesKeepDevDependencies
  BY LockInvEnough
<1>4. LoadedKept => LoadedIsKept
  BY DEF LoadedKept
<1>5. [LockNext]_lockVars => [aborted => announced' = announced]_lockVars
  BY AbortedAddsNothing
<1> QED
  BY <1>1, <1>2, <1>3, <1>4, <1>5, PTL DEF LockSpec, LockIsComplete, AbortStopsAdding
==============================================================================
