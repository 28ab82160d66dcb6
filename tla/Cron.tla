-------------------------------- MODULE Cron --------------------------------
(***************************************************************************)
(* packages/cron/src/state.ts: a Schedule that arms one timer at a time,   *)
(* emits to its jobs when the timer fires, and starts again; Jobs that     *)
(* limit how many of their executions overlap and can skip some.           *)
(*                                                                         *)
(* The timer's continuation (line 84) runs to completion: it clears        *)
(* _nextExecution, calls the handlers of the jobs one after the other,     *)
(* then start(). A handler may call every method of every schedule and     *)
(* job, so its calls are steps of their own, taken while nothing else      *)
(* runs. When a timer fires is left open: dates are not modelled.          *)
(***************************************************************************)
EXTENDS Integers, Sequences, SequencesExt, FiniteSets

CONSTANTS
    Schedules, \* the schedules
    Jobs,      \* the jobs
    Multiple,  \* multipleExecutions of each job, 0 for no limit
    Of,        \* the schedules a job was constructed with (for skipNext)
    Limit,     \* Event.maxListeners, 0 for no limit: each job is a listener
    MaxSkips   \* bound: skips a job may have waiting

ASSUME CronAssumption ==
    /\ Multiple \in [Jobs -> Nat]
    /\ Of \in [Jobs -> SUBSET Schedules]
    /\ "none" \notin Jobs /\ "none" \notin Schedules
    /\ MaxSkips \in Nat /\ Limit \in Nat

TimerId == 1..3
NoTimer == 0
Nothing == [schedule |-> "none", todo |-> <<>>, job |-> "none"]

VARIABLES
    jobs,     \* this.jobs of each schedule, in order
    started,  \* _nextExecution is not null
    planned,  \* this.plannedExecutions, the last timer armed
    armed,    \* the timers the runtime still has to fire, per schedule
    running,  \* the emission in progress: its schedule, jobs left, current job
    enabled,  \* of each job
    current,  \* currentExecutions of each job
    skips,    \* _skipNext of each job
    promises, \* executions of a job in progress that will give their slot back
    leaked    \* executions in progress, or finished, that will not

vars == <<jobs, started, planned, armed, running, enabled, current, skips, promises, leaked>>
jobVars == <<enabled, current, skips, promises, leaked>>
scheduleVars == <<started, planned, armed>>

Init ==
    /\ jobs = [s \in Schedules |-> <<>>]
    /\ started = [s \in Schedules |-> FALSE]
    /\ planned = [s \in Schedules |-> NoTimer]
    /\ armed = [s \in Schedules |-> {}]
    /\ running = Nothing
    /\ enabled = [j \in Jobs |-> TRUE]
    /\ current = [j \in Jobs |-> 0]
    /\ skips = [j \in Jobs |-> <<>>]
    /\ promises = [j \in Jobs |-> 0]
    /\ leaked = [j \in Jobs |-> 0]

\* Code of the program runs: the main program, or the handler of a job.
UserCode == running # Nothing => running.job \in Jobs

-----------------------------------------------------------------------------
AddJob(s, j) ==
    /\ UserCode
    /\ j \notin ToSet(jobs[s])
    /\ Limit = 0 \/ Len(jobs[s]) <= Limit
    /\ jobs' = [jobs EXCEPT ![s] = Append(@, j)]
    /\ UNCHANGED <<scheduleVars, running, jobVars>>

\* removeJob(j) finds the job, and splices it out of an ObservableArray: of a splice
\* that removes more than it puts in, all that is left is a pop(), and the last
\* job leaves, j or not.
RemoveJob(s, j) ==
    /\ UserCode
    /\ j \in ToSet(jobs[s])
    /\ jobs' = [jobs EXCEPT ![s] = Front(@)]
    /\ UNCHANGED <<scheduleVars, running, jobVars>>

\* Mutant of Arm: _nextExecution is set and no timer runs.
ArmWithoutTimer(s) ==
    /\ started' = [started EXCEPT ![s] = TRUE]
    /\ UNCHANGED <<planned, armed>>

\* What start() does to a schedule that is not started.
Arm(s) ==
    \E t \in TimerId \ (armed[s] \cup {planned[s]}) :
        /\ \A u \in TimerId \ (armed[s] \cup {planned[s]}) : t <= u
        /\ started' = [started EXCEPT ![s] = TRUE]
        /\ planned' = [planned EXCEPT ![s] = t]
        /\ armed' = [armed EXCEPT ![s] = @ \cup {t}]

Start(s) ==
    /\ UserCode
    /\ ~started[s]
    /\ Arm(s)
    /\ UNCHANGED <<jobs, running, jobVars>>

\* Mutant of Stop: the timer is not cleared.
StopKeepsTimer(s) ==
    /\ UserCode
    /\ started' = [started EXCEPT ![s] = FALSE]
    /\ UNCHANGED <<jobs, planned, armed, running, jobVars>>

Stop(s) ==
    /\ UserCode
    /\ started' = [started EXCEPT ![s] = FALSE]
    /\ armed' = [armed EXCEPT ![s] = @ \ {planned[s]}]
    /\ UNCHANGED <<jobs, planned, running, jobVars>>

\* skipNext(schedule), or skipNext() which picks the next of the job's
\* schedules that is started.
SkipNext(j, s) ==
    /\ UserCode
    /\ s \in Of[j]
    /\ Len(skips[j]) < MaxSkips
    /\ skips' = [skips EXCEPT ![j] = Append(@, s)]
    /\ UNCHANGED <<jobs, scheduleVars, running, enabled, current, promises, leaked>>

SetEnabled(j, on) ==
    /\ UserCode
    /\ enabled' = [enabled EXCEPT ![j] = on]
    /\ UNCHANGED <<jobs, scheduleVars, running, current, skips, promises, leaked>>

-----------------------------------------------------------------------------
\* The timer fires: _nextExecution = null, and the emission begins.
Fire(s) ==
    /\ running = Nothing
    /\ \E t \in armed[s] : armed' = [armed EXCEPT ![s] = @ \ {t}]
    /\ started' = [started EXCEPT ![s] = FALSE]
    /\ running' = [schedule |-> s, todo |-> jobs[s], job |-> "none"]
    /\ UNCHANGED <<jobs, planned, jobVars>>

\* Mutant of Saturated: the limit is not checked.
NeverSaturated(j) == FALSE

Emitting == running # Nothing /\ running.job = "none"
Saturated(j) == Multiple[j] # 0 /\ Multiple[j] = current[j]

\* trigger() of the next job: it returns at once when the job is disabled, has
\* no slot left, or is to skip this schedule; otherwise the handler runs.
Trigger ==
    /\ Emitting /\ running.todo # <<>>
    /\ LET j == Head(running.todo)
           s == running.schedule
           ready == enabled[j] /\ ~Saturated(j)
           skip == ready /\ s \in ToSet(skips[j])
       IN  /\ running' = [running EXCEPT !.todo = Tail(@),
                                         !.job = IF ready /\ ~skip THEN j ELSE @]
           /\ skips' = IF skip THEN [skips EXCEPT ![j] = RemoveFirst(@, s)] ELSE skips
    /\ UNCHANGED <<jobs, scheduleVars, enabled, current, promises, leaked>>

\* The handler returns something that is not a promise.
HandlerReturns ==
    /\ running.job \in Jobs
    /\ running' = [running EXCEPT !.job = "none"]
    /\ UNCHANGED <<jobs, scheduleVars, jobVars>>

\* The handler returns a promise. Its slot is given back when it settles, unless
\* it took the last one (line 138).
HandlerReturnsPromise ==
    /\ running.job \in Jobs
    /\ LET j == running.job IN
       /\ IF Multiple[j] = 0
          THEN UNCHANGED <<current, promises, leaked>>
          ELSE /\ current' = [current EXCEPT ![j] = @ + 1]
               /\ IF current[j] + 1 < Multiple[j]
                  THEN promises' = [promises EXCEPT ![j] = @ + 1] /\ UNCHANGED leaked
                  ELSE leaked' = [leaked EXCEPT ![j] = @ + 1] /\ UNCHANGED promises
       /\ running' = [running EXCEPT !.job = "none"]
    /\ UNCHANGED <<jobs, scheduleVars, enabled, skips>>

\* The handler throws: neither the jobs left nor start() are reached.
HandlerThrows ==
    /\ running.job \in Jobs
    /\ running' = Nothing
    /\ UNCHANGED <<jobs, scheduleVars, jobVars>>

\* Mutant of EmissionEnds: the schedule does not start again.
EmissionEndsForGood ==
    /\ Emitting /\ running.todo = <<>>
    /\ running' = Nothing
    /\ UNCHANGED <<scheduleVars, jobs, jobVars>>

\* The emission is over and start() is called: it throws when a handler has
\* started the schedule, and starts it again even when one has stopped it.
EmissionEnds ==
    /\ Emitting /\ running.todo = <<>>
    /\ running' = Nothing
    /\ IF started[running.schedule] THEN UNCHANGED scheduleVars ELSE Arm(running.schedule)
    /\ UNCHANGED <<jobs, jobVars>>

\* A promise of the job settles, and its finally() gives the slot back.
Settle(j) ==
    /\ running = Nothing
    /\ promises[j] > 0
    /\ promises' = [promises EXCEPT ![j] = @ - 1]
    /\ current' = [current EXCEPT ![j] = @ - 1]
    /\ UNCHANGED <<jobs, scheduleVars, running, enabled, skips, leaked>>

Next ==
    \/ \E s \in Schedules, j \in Jobs : AddJob(s, j) \/ RemoveJob(s, j) \/ SkipNext(j, s)
    \/ \E s \in Schedules : Start(s) \/ Stop(s) \/ Fire(s)
    \/ \E j \in Jobs, on \in BOOLEAN : SetEnabled(j, on)
    \/ Trigger
    \/ HandlerReturns \/ HandlerReturnsPromise \/ HandlerThrows
    \/ EmissionEnds
    \/ \E j \in Jobs : Settle(j)

Spec == Init /\ [][Next]_vars

-----------------------------------------------------------------------------
TypeOK ==
    /\ jobs \in [Schedules -> Seq(Jobs)]
    /\ started \in [Schedules -> BOOLEAN]
    /\ planned \in [Schedules -> TimerId \cup {NoTimer}]
    /\ armed \in [Schedules -> SUBSET TimerId]
    /\ running \in [schedule : Schedules, todo : Seq(Jobs), job : Jobs \cup {"none"}]
                   \cup {Nothing}
    /\ enabled \in [Jobs -> BOOLEAN]
    /\ current \in [Jobs -> Nat] /\ promises \in [Jobs -> Nat] /\ leaked \in [Jobs -> Nat]
    /\ skips \in [Jobs -> Seq(Schedules)]

\* A started schedule has exactly one timer, the one stop() would clear, and a
\* stopped one has none, whatever its handlers start, stop, add or remove: no
\* second chain of executions ever runs, and nothing fires after stop().
OneTimer ==
    \A s \in Schedules : armed[s] = IF started[s] THEN {planned[s]} ELSE {}

\* A job never has more executions in progress than multipleExecutions allows,
\* and its counter is exactly the slots that are taken: those that will be
\* given back, and those whose finally() line 138 did not install.
SlotsAccounted ==
    \A j \in Jobs :
        /\ current[j] = promises[j] + leaked[j]
        /\ current[j] <= Multiple[j]

\* The chain of executions of a schedule is alive while a timer will fire or its
\* emission is in progress.
Alive(s) == started[s] \/ running.schedule = s

\* Only stop() and a handler that throws break the chain of a schedule: not a
\* job without a free slot, one that is skipped, disabled or removed while the
\* emission goes on, nor a handler that stops or starts it, or another.
ChainBreaksOnlyByStopOrThrow ==
    [][\A s \in Schedules : Alive(s) /\ ~Alive(s)' => Stop(s) \/ HandlerThrows]_vars

-----------------------------------------------------------------------------
(***************************************************************************)
(* Fairness: the runtime fires every timer that is armed, whatever other   *)
(* timers it has, and goes on with what it runs; handlers return or throw. *)
(***************************************************************************)
HandlerDone == HandlerReturns \/ HandlerReturnsPromise \/ HandlerThrows

CronFairness ==
    /\ \A s \in Schedules : SF_vars(Fire(s))
    /\ WF_vars(HandlerDone)
    /\ WF_vars(Trigger)
    /\ WF_vars(EmissionEnds)

FairSpec == Spec /\ CronFairness

\* A schedule whose chain is not broken fires again and again, whatever the
\* other schedule does, even if it is stopped in its own emission (line 88).
KeepsFiring == \A s \in Schedules : <>[]Alive(s) => []<><<Fire(s)>>_vars

\* The chain of executions of a schedule breaks for two reasons alone, and goes
\* on until then.
ChainHolds == ChainBreaksOnlyByStopOrThrow /\ KeepsFiring
=============================================================================
