------------------------------- MODULE Modules -------------------------------
(***************************************************************************)
(* packages/core/src/module.ts and orchestrator.ts: Module.start() runs    *)
(* the tasks of a module in the order sequencify gave them, on an          *)
(* orchestrator all modules share. A task triggers an ExtendableEvent: the *)
(* listener of the event runs, may give waitUntil() a promise, and the     *)
(* event is done once both have settled.                                   *)
(*                                                                         *)
(* A step is what runs between two awaits. Each event has one listener;    *)
(* several would run one after the other, as the steps of one do.          *)
(***************************************************************************)
EXTENDS Integers, Sequences, SequencesExt

CONSTANTS
    Module,  \* the modules
    Needs,   \* the modules each one depends on, directly or not
    Tasks,   \* the tasks of start(), in order: <<module, "activate" or "ready" or "end">>
    Start,   \* the calls of start(), each made once
    MaxListeners \* Event.maxListeners, 0 for no limit

Phase == {"activate", "ready"}
Event == Module \X Phase
Task == Module \X (Phase \cup {"end"})

ASSUME ModulesAssumption ==
    /\ Needs \in [Module -> SUBSET Module]
    /\ Tasks \in [Module -> Seq(Task)]
    /\ MaxListeners \in Nat

\* What registerModule() gives as the dependencies of a task.
Before(t) ==
    IF t[2] = "end" THEN {<<t[1], "ready">>}
    ELSE {<<m, t[2]>> : m \in Needs[t[1]]} \cup (IF t[2] = "ready" THEN {<<t[1], "activate">>} ELSE {})

\* sequencify puts a task after those it depends on.
ASSUME TasksAreOrdered ==
    \A m \in Module :
        /\ Tasks[m] # <<>>
        /\ \A i \in DOMAIN Tasks[m] : \A b \in Before(Tasks[m][i]) :
             \E j \in 1..(i - 1) : Tasks[m][j] = b

VARIABLES
    calls,     \* each call of start(): the module, the task it is at, its step
    promise,   \* what start() returned to its caller
    triggered, \* the events whose _triggered is set
    done,      \* the events whose _done is set
    listener,  \* what the listener of each event is doing
    waited,    \* the promise the listener gave to waitUntil()
    trouble,   \* whether two calls were made at once, or a listener failed
    onTaskStop \* how many listeners the event task_stop of Module.o has

vars == <<calls, promise, triggered, done, listener, waited, trouble, onTaskStop>>

Init ==
    /\ calls = [c \in Start |-> [module |-> "none", at |-> 1, step |-> "idle"]]
    /\ promise = [c \in Start |-> "none"]
    /\ triggered = {} /\ done = {}
    /\ listener = [e \in Event |-> "waiting"]
    /\ waited = [e \in Event |-> "none"]
    /\ trouble = {}
    /\ onTaskStop = 1 \* the log

HasRoom == MaxListeners = 0 \/ onTaskStop <= MaxListeners
Busy(c) == calls[c].step \in {"task", "emit", "complete"}
Current(c) == Tasks[calls[c].module][calls[c].at]

-----------------------------------------------------------------------------
\* start(): the promise listens to every task and error of the orchestrator, and
\* never stops listening.
CallStart(c, m) ==
    /\ calls[c].step = "idle" /\ HasRoom
    /\ onTaskStop' = onTaskStop + 1
    /\ calls' = [calls EXCEPT ![c] = [module |-> m, at |-> 1, step |-> "task"]]
    /\ promise' = [promise EXCEPT ![c] = "pending"]
    /\ trouble' = IF \E b \in Start : Busy(b) THEN trouble \cup {"overlap"} ELSE trouble
    /\ UNCHANGED <<triggered, done, listener, waited>>

\* When the event has too many listeners, on() throws, and nothing is started.
StartRefused(c, m) ==
    /\ calls[c].step = "idle" /\ ~HasRoom
    /\ calls' = [calls EXCEPT ![c] = [module |-> m, at |-> 1, step |-> "refused"]]
    /\ promise' = [promise EXCEPT ![c] = "rejected"]
    /\ UNCHANGED <<triggered, done, listener, waited, trouble, onTaskStop>>

\* Every start() that waits gets the outcome.
Settle(waiting, outcome) ==
    promise' = [c \in Start |-> IF promise[c] = "pending" /\ c \in waiting
                                THEN outcome ELSE promise[c]]

\* The task of c is done: task_stop resolves the starts of that module, and the
\* next task follows.
TaskStops(c) ==
    /\ IF calls[c].at < Len(Tasks[calls[c].module])
       THEN calls' = [calls EXCEPT ![c].at = @ + 1, ![c].step = "task"]
       ELSE calls' = [calls EXCEPT ![c].step = "stopped"]
    /\ IF Current(c)[2] = "end"
       THEN Settle({b \in Start : calls[b].module = Current(c)[1]}, "resolved")
       ELSE UNCHANGED promise

\* Mutant of TaskFails: nobody listens to 'error'.
TaskFailsQuietly(c) ==
    /\ calls' = [calls EXCEPT ![c].step = "failed"]
    /\ UNCHANGED promise

\* The task of c throws: 'error' rejects every start that waits.
TaskFails(c) ==
    /\ calls' = [calls EXCEPT ![c].step = "failed"]
    /\ Settle(Start, "rejected")

\* Mutant of Complete: the promises are not waited for.
CompleteAtOnce(c) ==
    /\ TaskStops(c) /\ done' = done \cup {Current(c)}

\* complete(): the event is done once its promises are.
Complete(c) ==
    CASE waited[Current(c)] = "pending" ->
           /\ calls' = [calls EXCEPT ![c].step = "complete"]
           /\ UNCHANGED <<promise, done>>
      [] waited[Current(c)] = "rejected" -> TaskFails(c) /\ UNCHANGED done
      [] OTHER -> TaskStops(c) /\ done' = done \cup {Current(c)}

\* The last task of a module does nothing.
EndTask(c) ==
    /\ calls[c].step = "task" /\ Current(c)[2] = "end"
    /\ TaskStops(c)
    /\ UNCHANGED <<triggered, done, listener, waited, trouble, onTaskStop>>

\* trigger(): the first caller emits; those that follow only complete().
Trigger(c) ==
    /\ calls[c].step = "task" /\ Current(c)[2] # "end"
    /\ IF Current(c) \in triggered
       THEN Complete(c) /\ UNCHANGED <<triggered, listener>>
       ELSE /\ triggered' = triggered \cup {Current(c)}
            /\ listener' = [listener EXCEPT ![Current(c)] = "running"]
            /\ calls' = [calls EXCEPT ![c].step = "emit"]
            /\ UNCHANGED <<promise, done>>
    /\ UNCHANGED <<waited, trouble, onTaskStop>>

\* The caller that emitted goes on when the listener has ended.
EmitEnds(c) ==
    /\ calls[c].step = "emit" /\ listener[Current(c)] \in {"ended", "failed"}
    /\ IF listener[Current(c)] = "failed" THEN TaskFails(c) /\ UNCHANGED done
       ELSE Complete(c)
    /\ UNCHANGED <<triggered, listener, waited, trouble, onTaskStop>>

CompleteEnds(c) ==
    /\ calls[c].step = "complete" /\ waited[Current(c)] # "pending"
    /\ Complete(c)
    /\ UNCHANGED <<triggered, listener, waited, trouble, onTaskStop>>

-----------------------------------------------------------------------------
\* The listener of an event: it may call waitUntil(), and ends or fails.
WaitUntil(e) ==
    /\ listener[e] = "running" /\ waited[e] = "none"
    /\ waited' = [waited EXCEPT ![e] = "pending"]
    /\ UNCHANGED <<calls, promise, triggered, done, listener, trouble, onTaskStop>>

ListenerEnds(e, outcome) ==
    /\ listener[e] = "running"
    /\ listener' = [listener EXCEPT ![e] = outcome]
    /\ trouble' = IF outcome = "failed" THEN trouble \cup {"failed"} ELSE trouble
    /\ UNCHANGED <<calls, promise, triggered, done, waited, onTaskStop>>

PromiseSettles(e, outcome) ==
    /\ waited[e] = "pending"
    /\ waited' = [waited EXCEPT ![e] = outcome]
    /\ UNCHANGED <<calls, promise, triggered, done, listener, trouble, onTaskStop>>

Ends(e) == \E outcome \in {"ended", "failed"} : ListenerEnds(e, outcome)
Settles(e) == \E outcome \in {"settled", "rejected"} : PromiseSettles(e, outcome)
Goes(c) == EndTask(c) \/ Trigger(c) \/ EmitEnds(c) \/ CompleteEnds(c)

Next ==
    \/ \E c \in Start, m \in Module : CallStart(c, m) \/ StartRefused(c, m)
    \/ \E c \in Start : Goes(c)
    \/ \E e \in Event : WaitUntil(e) \/ Ends(e) \/ Settles(e)

Spec == Init /\ [][Next]_vars

\* Fairness: the event loop continues each call, and listeners and their promises
\* settle in the end.
StartFairness ==
    /\ \A c \in Start : WF_vars(Goes(c))
    /\ \A e \in Event : WF_vars(Ends(e)) /\ WF_vars(Settles(e))

FairSpec == Spec /\ StartFairness

-----------------------------------------------------------------------------
TypeOK ==
    /\ calls \in [Start -> [module : Module \cup {"none"}, at : Nat \ {0},
                            step : {"idle", "task", "emit", "complete", "stopped", "failed", "refused"}]]
    /\ promise \in [Start -> {"none", "pending", "resolved", "rejected"}]
    /\ triggered \subseteq Event /\ done \subseteq triggered
    /\ listener \in [Event -> {"waiting", "running", "ended", "failed"}]
    /\ waited \in [Event -> {"none", "pending", "settled", "rejected"}]
    /\ trouble \subseteq {"overlap", "failed"} /\ onTaskStop \in Nat

\* The listener of an event runs once, whatever the calls of start() that share
\* the module.
ListenerRunsOnce ==
    [][\A e \in Event : listener[e] \in {"ended", "failed"} => UNCHANGED listener[e]]_vars

Finished(e) == listener[e] = "ended" /\ waited[e] \in {"none", "settled"}

\* An event that takes itself for done has a listener that ended, and a promise
\* that settled.
DoneIsFinished == \A e \in done : Finished(e)

\* "Executes tasks in dependency order" (orchestrator.ts:41): a module is activated
\* when the modules it depends on are, and is ready after its own activation.
DependencyOrder ==
    \A e \in Event : listener[e] # "waiting" => \A b \in Before(e) : Finished(b)

\* A single call of start() at a time, as long as no listener fails, keeps that
\* order through every await, and takes no event for done too early.
DependencyOrderWhenAlone == trouble = {} => DependencyOrder /\ DoneIsFinished

\* start() resolves when its module is ready, and rejects only when a task failed,
\* or when the orchestrator all modules share has too many listeners: no start()
\* ever takes its own away (module.ts:354-359), so an application has so many calls.
SettledForAReason ==
    \A c \in Start :
        /\ promise[c] = "resolved" => <<calls[c].module, "ready">> \in done
        /\ promise[c] = "rejected" =>
             calls[c].step = "refused" \/ \E b \in Start : calls[b].step = "failed"
        /\ calls[c].step = "refused" => MaxListeners # 0 /\ onTaskStop > MaxListeners

\* Every start() settles, whatever other calls do: each is called once, so in the
\* end none is pending.
EveryStartSettles ==
    (\E c \in Start : promise[c] = "pending") ~> \A c \in Start : promise[c] # "pending"

\* What start() promises: it runs each listener once, in the order of dependencies
\* when it is alone, and settles for a reason.
StartsInOrder ==
    /\ [](TypeOK /\ DependencyOrderWhenAlone /\ SettledForAReason)
    /\ ListenerRunsOnce
=============================================================================
