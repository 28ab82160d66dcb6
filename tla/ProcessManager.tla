--------------------------- MODULE ProcessManager ---------------------------
(***************************************************************************)
(* packages/pm: the start, stop and ready commands of the process manager, *)
(* and the processes they manage (runtimes/child_process.ts).              *)
(*                                                                         *)
(* A start command is an async function: it runs to its next await, so an  *)
(* invocation is a record with a program counter. Starts of the same       *)
(* program may overlap: by users, by autostart, or as a dependency of two  *)
(* programs. A process and the container made for it are one record. All   *)
(* programs are commandable child processes whose exit is announced twice, *)
(* by exit and by disconnect. With --name or --new, options.name is not    *)
(* the program's own name: both are kept.                                  *)
(***************************************************************************)
EXTENDS Integers, Sequences, SequencesExt

CONSTANTS
    Name,         \* the names containers are started under
    Program,      \* those of the containers in the configuration
    Named,        \* the names users start each of them under
    Dependencies, \* what sequencify() puts before each of them, in order
    MaxStarts,    \* bound: invocations of start
    MaxProcesses, \* bound: processes that are spawned
    Waits,        \* the values users give options.wait
    Ends          \* how processes may end: they crash, or somebody stops them

ASSUME PmAssumption ==
    /\ Program # {} /\ Program \subseteq Name /\ Named \in [Program -> SUBSET Name]
    /\ Dependencies \in [Program -> Seq(Program)]
    /\ MaxStarts \in Nat \ {0} /\ MaxProcesses \in Nat \ {0}
    /\ Waits \subseteq BOOLEAN /\ Ends \subseteq {"crash", "stop"}

StartId == 1..MaxStarts
ProcessId == 1..MaxProcesses
None == 0
Phase == {"free", "spawned", "up", "gone"}
Step == {"free", "called", "deps", "child", "ready", "build", "wait", "done", "conflict"}

VARIABLES
    starts,    \* the invocations of start
    proc,      \* the processes and their containers
    processes, \* this.processes: the containers, by options.name
    registered \* the containers pm.register() put into pm, by name

vars == <<starts, proc, processes, registered>>

\* An invocation: its program and options.name, the step it is at, dependencies
\* left, the start or process it waits for or has spawned, whether there was no
\* container of that name when it began, and options.wait.
Start == [program : Program, name : Name, at : Step, todo : Seq(Program), on : Nat,
          fresh : BOOLEAN, wait : BOOLEAN]
\* A process: events it still has to announce, whether its ready event was
\* emitted, what is known of its metadata, whether stop() has killed it.
Process == [program : Program, name : Name, phase : Phase, running : BOOLEAN, ready : BOOLEAN,
            events : SUBSET {"exit", "disconnect"}, asked : BOOLEAN, killed : BOOLEAN]

AnyProgram == CHOOSE n \in Program : TRUE
FreeStart == [program |-> AnyProgram, name |-> AnyProgram, at |-> "free",
              todo |-> <<>>, on |-> None, fresh |-> FALSE, wait |-> FALSE]
FreeProcess == [program |-> AnyProgram, name |-> AnyProgram, phase |-> "free",
                running |-> FALSE, ready |-> FALSE, events |-> {}, asked |-> FALSE, killed |-> FALSE]

Init ==
    /\ starts = [k \in StartId |-> FreeStart]
    /\ proc = [i \in ProcessId |-> FreeProcess]
    /\ processes = [n \in Name |-> None]
    /\ registered = [n \in Name |-> None]

-----------------------------------------------------------------------------
\* The first invocation, and the first process, that are not used yet.
NewStart(k) ==
    /\ starts[k].at = "free"
    /\ \A j \in StartId : starts[j].at = "free" => k <= j
NewProcess(i) ==
    /\ proc[i].phase = "free"
    /\ \A j \in ProcessId : proc[j].phase = "free" => i <= j

DependencyDone(s) == [s EXCEPT !.at = "deps", !.on = None, !.todo = Tail(@)]
Returned(s) == [s EXCEPT !.at = "done", !.on = None, !.wait = FALSE]

CalledFor(n, as, wait) ==
    [FreeStart EXCEPT !.program = n, !.name = as, !.at = "called", !.wait = wait]

\* A user, or autostart, dispatches start, under a name of the user's or not.
CallStart(n, as, wait) ==
    \E k \in StartId :
        /\ NewStart(k)
        /\ starts' = [starts EXCEPT ![k] = CalledFor(n, as, wait)]
        /\ UNCHANGED <<proc, processes, registered>>

\* The runtime spawns the process, and the invocation awaits build().
Spawn(k) ==
    \E i \in ProcessId :
        /\ NewProcess(i)
        /\ proc' = [proc EXCEPT ![i] = [FreeProcess EXCEPT !.program = starts[k].program,
                                                           !.name = starts[k].name,
                                                           !.phase = "spawned"]]
        /\ starts' = [starts EXCEPT ![k].at = "build", ![k].on = i]

\* start() up to its first await: Conflict when the container is running, the
\* dependencies of a name that has no container yet, else the process.
Refuse(k) ==
    LET i == processes[starts[k].name] IN
    /\ starts[k].at = "called"
    /\ i # None /\ proc[i].running
    /\ starts' = [starts EXCEPT ![k].at = "conflict"]
    /\ UNCHANGED <<proc, processes, registered>>

BeginDependencies(k) ==
    LET n == starts[k].program IN
    /\ starts[k].at = "called"
    /\ processes[starts[k].name] = None /\ Dependencies[n] # <<>>
    /\ starts' = [starts EXCEPT ![k].at = "deps", ![k].fresh = TRUE,
                                ![k].todo = Dependencies[n]]
    /\ UNCHANGED <<proc, processes, registered>>

BeginProcess(k) ==
    LET i == processes[starts[k].name] IN
    /\ starts[k].at = "called"
    /\ IF i = None THEN Dependencies[starts[k].program] = <<>> ELSE ~proc[i].running
    /\ Spawn(k)
    /\ UNCHANGED <<processes, registered>>

\* The next dependency: it is started, unless it has a container already.
StartDependency(k) ==
    /\ starts[k].at = "deps" /\ starts[k].todo # <<>>
    /\ processes[Head(starts[k].todo)] = None
    /\ \E j \in StartId :
        /\ NewStart(j)
        /\ starts' = [starts EXCEPT ![k].at = "child", ![k].on = j,
                                    ![j] = CalledFor(Head(starts[k].todo),
                                                     Head(starts[k].todo), TRUE)]
    /\ UNCHANGED <<proc, processes, registered>>

\* Mutant of AwaitDependency: a dependency with a container is taken as ready.
AwaitDependencySkips(k) ==
    /\ starts[k].at = "deps" /\ starts[k].todo # <<>>
    /\ processes[Head(starts[k].todo)] # None
    /\ starts' = [starts EXCEPT ![k].todo = Tail(@)]
    /\ UNCHANGED <<proc, processes, registered>>

\* Its ready event is awaited, emitted already or not.
AwaitDependency(k) ==
    LET i == processes[Head(starts[k].todo)] IN
    /\ starts[k].at = "deps" /\ starts[k].todo # <<>>
    /\ i # None
    /\ starts' = [starts EXCEPT ![k].at = "ready", ![k].on = i]
    /\ UNCHANGED <<proc, processes, registered>>

\* The start of a dependency returns, or is refused with Conflict and the ready
\* event of the container that runs is awaited.
DependencyReturns(k) ==
    /\ starts[k].at = "child"
    /\ LET child == starts[starts[k].on]
           i == processes[child.name]
       IN
       \/ /\ child.at = "done"
          /\ starts' = [starts EXCEPT ![k] = DependencyDone(@)]
       \/ /\ child.at = "conflict"
          /\ starts' = [starts EXCEPT ![k].at = "ready", ![k].on = i]
    /\ UNCHANGED <<proc, processes, registered>>

\* The dependencies are done: the process is spawned, whoever has spawned one
\* under the same name in the meantime.
DependenciesDone(k) ==
    /\ starts[k].at = "deps" /\ starts[k].todo = <<>>
    /\ Spawn(k)
    /\ UNCHANGED <<processes, registered>>

\* build() returns: a new container takes the place of the one there is, its
\* events are listened to, and a start without wait returns.
Built(k) ==
    LET i == starts[k].on IN
    /\ starts[k].at = "build"
    /\ processes' = [processes EXCEPT ![starts[k].name] = i]
    /\ proc' = [proc EXCEPT ![i].phase = "up", ![i].running = TRUE]
    /\ starts' = [starts EXCEPT ![k] = IF @.wait THEN [@ EXCEPT !.at = "wait"] ELSE Returned(@)]
    /\ UNCHANGED registered

-----------------------------------------------------------------------------
\* What the process sends still arrives, until disconnect is announced.
Connected(i) == proc[i].phase = "up" \/ "disconnect" \in proc[i].events

\* The process calls ready, once: its ready event is emitted, which resumes the
\* invocations that wait for it, and its metadata is asked for.
Ready(i) ==
    /\ proc[i].phase = "up" /\ ~proc[i].ready
    /\ proc' = [proc EXCEPT ![i].ready = TRUE, ![i].asked = TRUE]
    /\ starts' = [k \in StartId |->
            IF starts[k].on # i THEN starts[k]
            ELSE IF starts[k].at = "wait" THEN Returned(starts[k])
            ELSE IF starts[k].at = "ready" THEN DependencyDone(starts[k])
            ELSE starts[k]]
    /\ UNCHANGED <<processes, registered>>

\* The metadata arrives, and the container is registered in pm, under the name
\* of its program.
MetadataArrives(i) ==
    /\ Connected(i) /\ proc[i].asked
    /\ proc' = [proc EXCEPT ![i].asked = FALSE]
    /\ registered' = [registered EXCEPT ![proc[i].program] = i]
    /\ UNCHANGED <<starts, processes>>

\* stop(): the container of that name is told, and its process is killed.
Stop(n) ==
    LET i == processes[n] IN
    /\ i # None /\ proc[i].running
    /\ ~proc[i].killed /\ "stop" \in Ends
    /\ proc' = [proc EXCEPT ![i].killed = TRUE]
    /\ UNCHANGED <<starts, processes, registered>>

Exit(i) ==
    /\ proc[i].phase = "up"
    /\ "crash" \in Ends \/ proc[i].killed
    /\ proc' = [proc EXCEPT ![i].phase = "gone", ![i].killed = FALSE,
                             ![i].events = {"exit", "disconnect"}]
    /\ UNCHANGED <<starts, processes, registered>>

\* The end of a connection is the end of the requests made over it.
Ended(i, e) == [proc[i] EXCEPT !.events = @ \ {e}, !.running = FALSE,
                               !.asked = @ /\ e # "disconnect"]

\* Mutant of Announce: a container that has stopped running is left alone.
AnnounceOnce(i, e) ==
    /\ e \in proc[i].events
    /\ proc' = [proc EXCEPT ![i] = Ended(i, e)]
    /\ registered' = IF proc[i].running THEN [registered EXCEPT ![proc[i].name] = None]
                     ELSE registered
    /\ UNCHANGED <<starts, processes>>

\* Mutant of Announce: exit does not change what status() reports.
AnnounceSilently(i, e) ==
    /\ e \in proc[i].events
    /\ proc' = [proc EXCEPT ![i].events = @ \ {e}]
    /\ registered' = [registered EXCEPT ![proc[i].name] = None]
    /\ UNCHANGED <<starts, processes>>

\* exit or disconnect: both emit the runtime's exit event, whose listener marks
\* the container and unregisters whatever pm has under its own name.
Announce(i, e) ==
    /\ e \in proc[i].events
    /\ proc' = [proc EXCEPT ![i] = Ended(i, e)]
    /\ registered' = [registered EXCEPT ![proc[i].name] = None]
    /\ UNCHANGED <<starts, processes>>

Advance(k) ==
    \/ Refuse(k) \/ BeginDependencies(k) \/ BeginProcess(k)
    \/ StartDependency(k) \/ AwaitDependency(k) \/ DependencyReturns(k)
    \/ DependenciesDone(k) \/ Built(k)

Next ==
    \/ \E n \in Program : \E as \in Named[n], wait \in Waits : CallStart(n, as, wait)
    \/ \E k \in StartId : Advance(k)
    \/ \E i \in ProcessId :
        \/ Ready(i) \/ MetadataArrives(i) \/ Exit(i)
        \/ \E e \in {"exit", "disconnect"} : Announce(i, e)
    \/ \E n \in Name : Stop(n)

Spec == Init /\ [][Next]_vars

-----------------------------------------------------------------------------
\* Types; a start waits for something exactly where start() has an await.
TypeOK ==
    /\ starts \in [StartId -> Start]
    /\ \A k \in StartId :
        starts[k].on # None <=> starts[k].at \in {"child", "ready", "build", "wait"}
    /\ proc \in [ProcessId -> Process]
    /\ processes \in [Name -> ProcessId \cup {None}]
    /\ registered \in [Name -> ProcessId \cup {None}]

\* What status() reports and start() refuses by: a container is running exactly
\* from the moment its process is listened to until its end is announced,
\* whatever exits, restarts and starts of the same program overlap.
RunningIsUp ==
    \A i \in ProcessId :
        proc[i].running <=> proc[i].phase = "up" \/ proc[i].events = {"exit", "disconnect"}

\* pm proxies commands only to a process that is up, or whose end is still to
\* be announced: metadata that arrives after the exit event does not leave a
\* dead container registered for good. The exception is a process started under
\* another name: it is registered under its program's and unregistered under
\* its own (commands/start.ts:161, 195), so its container stays when it is dead.
RegisteredIsConnected ==
    \A n \in Name : registered[n] # None =>
        LET i == registered[n] IN
        /\ proc[i].program = n
        /\ proc[i].name = n => Connected(i)

\* "Starts dependencies before the container", "Waits for each dependency to
\* signal `ready`" (doc/_pm/index.md:421): when there was no container of the
\* name given, the process is spawned only after the container of each of its
\* program's dependencies has signalled ready, whoever started it.
DependenciesReadyFirst ==
    \A k \in StartId :
        starts[k].fresh /\ starts[k].at \in {"build", "wait", "done"} =>
            \A d \in ToSet(Dependencies[starts[k].program]) :
                \E i \in ProcessId : proc[i].name = d /\ proc[i].ready

-----------------------------------------------------------------------------
(***************************************************************************)
(* Fairness: the event loop resumes every start that can go on, a process  *)
(* that is up calls ready, and what happens to a process is announced.     *)
(***************************************************************************)
FairSpec ==
    /\ Spec
    /\ \A k \in StartId : WF_vars(Advance(k))
    /\ \A i \in ProcessId : WF_vars(Ready(i)) /\ WF_vars(MetadataArrives(i))
    /\ \A i \in ProcessId : WF_vars(Announce(i, "exit")) /\ WF_vars(Announce(i, "disconnect"))

\* "Starts dependencies before the container", "Waits for each dependency to
\* signal `ready`" (doc/_pm/index.md:421): with processes that stay up and become
\* ready, and processes left to spawn, every start returns or is refused.
SpawnsLeft == \E i \in ProcessId : proc[i].phase = "free"
StartsLeft == \E k \in StartId : starts[k].at = "free"
EveryStartReturns ==
    \A k \in StartId : starts[k].at = "called" ~>
        (starts[k].at \in {"done", "conflict"} \/ ~SpawnsLeft \/ ~StartsLeft)
=============================================================================
