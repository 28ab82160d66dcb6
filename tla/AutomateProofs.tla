---------------------------- MODULE AutomateProofs ----------------------------
(***************************************************************************)
(* What runs without anyone watching, for any names, files, schedules,     *)
(* jobs and messages: a started schedule has one timer, executions are     *)
(* counted and bounded, and only stop() or a handler that throws ends a    *)
(* chain of executions (Cron); the workflows that are loaded are the ones  *)
(* with a command and a job (Workflows); every caller of the queue of      *)
(* workflows is answered, and none twice (WorkflowRuns).                   *)
(***************************************************************************)
EXTENDS Cron, Workflows, WorkflowRuns, QueueProofs, FiniteSetTheorems

\* The types of the schedules' own state, enough for the timers.
TimerTypeOK ==
    /\ started \in [Schedules -> BOOLEAN]
    /\ planned \in [Schedules -> TimerId \cup {NoTimer}]
    /\ armed \in [Schedules -> SUBSET TimerId]

\* The types of what counts executions.
SlotTypeOK ==
    /\ current \in [Jobs -> Int]
    /\ promises \in [Jobs -> Int]
    /\ leaked \in [Jobs -> Int]

\* While the handler of a job runs, the job has a slot for it: no promise
\* settles between the test in trigger() and the count in its finally block.
RunningHasSlot == running.job \in Jobs => ~Saturated(running.job)

TimerInv == TimerTypeOK /\ OneTimer
SlotInv == SlotTypeOK /\ SlotsAccounted /\ RunningHasSlot

-----------------------------------------------------------------------------
\* start() of a schedule that has no timer gives it exactly one.
LEMMA ArmPreserves ==
    ASSUME NEW s \in Schedules, TimerInv, ~started[s], Arm(s)
    PROVE  TimerInv'
<1>1. PICK t \in TimerId \ (armed[s] \cup {planned[s]}) :
        /\ started' = [started EXCEPT ![s] = TRUE]
        /\ planned' = [planned EXCEPT ![s] = t]
        /\ armed' = [armed EXCEPT ![s] = @ \cup {t}]
  BY DEF Arm
<1>2. armed[s] = {}
  BY DEF TimerInv, OneTimer
<1>3. TimerTypeOK'
  <2>1. started' \in [Schedules -> BOOLEAN]
    BY <1>1 DEF TimerInv, TimerTypeOK
  <2>2. planned' \in [Schedules -> TimerId \cup {NoTimer}]
    BY <1>1 DEF TimerInv, TimerTypeOK
  <2>3. armed' \in [Schedules -> SUBSET TimerId]
    BY <1>1 DEF TimerInv, TimerTypeOK
  <2>4. QED
    BY <2>1, <2>2, <2>3 DEF TimerTypeOK
<1>4. ASSUME NEW r \in Schedules
      PROVE  armed'[r] = IF started'[r] THEN {planned'[r]} ELSE {}
  <2>1. CASE r = s
    BY <1>1, <1>2, <2>1 DEF TimerInv, TimerTypeOK
  <2>2. CASE r # s
    BY <1>1, <2>2 DEF TimerInv, TimerTypeOK, OneTimer
  <2>3. QED
    BY <2>1, <2>2
<1>5. OneTimer'
  BY <1>4 DEF OneTimer
<1>6. QED
  BY <1>3, <1>5 DEF TimerInv

LEMMA TimerInit == Init => TimerInv
BY DEF Init, TimerInv, TimerTypeOK, OneTimer

\* Every step keeps the timer of each schedule the one its fields say.
LEMMA TimerStep == TimerInv /\ [Next]_vars => TimerInv'
<1> SUFFICES ASSUME TimerInv, [Next]_vars PROVE TimerInv'
  OBVIOUS
<1>1. CASE UNCHANGED scheduleVars
  BY <1>1 DEF TimerInv, TimerTypeOK, OneTimer, scheduleVars
<1>2. ASSUME NEW s \in Schedules, Start(s) PROVE TimerInv'
  BY <1>2, ArmPreserves DEF Start
<1>3. ASSUME NEW s \in Schedules, Stop(s) PROVE TimerInv'
  <2>1. TimerTypeOK'
    BY <1>3 DEF Stop, TimerInv, TimerTypeOK
  <2>2. ASSUME NEW r \in Schedules
        PROVE  armed'[r] = IF started'[r] THEN {planned'[r]} ELSE {}
    <3>1. CASE r = s
      BY <1>3, <3>1 DEF Stop, TimerInv, TimerTypeOK, OneTimer
    <3>2. CASE r # s
      BY <1>3, <3>2 DEF Stop, TimerInv, TimerTypeOK, OneTimer
    <3>3. QED
      BY <3>1, <3>2
  <2>3. QED
    BY <2>1, <2>2 DEF TimerInv, OneTimer
<1>4. ASSUME NEW s \in Schedules, Fire(s) PROVE TimerInv'
  <2>1. PICK t \in armed[s] : armed' = [armed EXCEPT ![s] = @ \ {t}]
    BY <1>4 DEF Fire
  <2>2. armed[s] = {t}
    BY <2>1 DEF TimerInv, OneTimer
  <2>3. TimerTypeOK'
    BY <1>4, <2>1 DEF Fire, TimerInv, TimerTypeOK
  <2>4. ASSUME NEW r \in Schedules
        PROVE  armed'[r] = IF started'[r] THEN {planned'[r]} ELSE {}
    <3>1. CASE r = s
      BY <1>4, <2>1, <2>2, <3>1 DEF Fire, TimerInv, TimerTypeOK
    <3>2. CASE r # s
      BY <1>4, <2>1, <3>2 DEF Fire, TimerInv, TimerTypeOK, OneTimer
    <3>3. QED
      BY <3>1, <3>2
  <2>5. QED
    BY <2>3, <2>4 DEF TimerInv, OneTimer
<1>5. CASE EmissionEnds
  <2>1. CASE UNCHANGED scheduleVars
    BY <1>1, <2>1
  <2>2. CASE ~started[running.schedule] /\ Arm(running.schedule) /\ running.schedule \in Schedules
    BY <2>2, ArmPreserves
  <2>3. CASE running.schedule \notin Schedules /\ Arm(running.schedule)
    <3>1. PICK t \in TimerId :
            /\ started' = [started EXCEPT ![running.schedule] = TRUE]
            /\ planned' = [planned EXCEPT ![running.schedule] = t]
            /\ armed' = [armed EXCEPT ![running.schedule] = @ \cup {t}]
      BY <2>3 DEF Arm
    <3>2. started' = started /\ planned' = planned /\ armed' = armed
      BY <2>3, <3>1 DEF TimerInv, TimerTypeOK
    <3>3. QED
      BY <1>1, <3>2 DEF scheduleVars
  <2>4. QED
    BY <1>5, <2>1, <2>2, <2>3 DEF EmissionEnds
<1>6. QED
  BY <1>1, <1>2, <1>3, <1>4, <1>5
     DEF Next, vars, scheduleVars, AddJob, RemoveJob, SkipNext, SetEnabled, Trigger,
         HandlerReturns, HandlerReturnsPromise, HandlerThrows, Settle

\* A started schedule has exactly one timer, the one stop() clears, and a stopped
\* schedule has none.
THEOREM ScheduleHasOneTimer == Spec => []OneTimer
<1>1. Spec => []TimerInv
  BY TimerInit, TimerStep, PTL DEF Spec
<1>2. TimerInv => OneTimer
  BY DEF TimerInv
<1>3. QED
  BY <1>1, <1>2, PTL

-----------------------------------------------------------------------------
LEMMA SlotInit == Init => SlotInv
BY CronAssumption DEF Init, SlotInv, SlotTypeOK, SlotsAccounted, RunningHasSlot, Nothing

\* Every step keeps the count of executions and the free slot of the handler
\* that runs.
LEMMA SlotStep == SlotInv /\ [Next]_vars => SlotInv'
<1> SUFFICES ASSUME SlotInv, [Next]_vars PROVE SlotInv'
  OBVIOUS
<1> USE CronAssumption
<1>1. ASSUME UNCHANGED <<current, promises, leaked>>, running'.job \in Jobs => ~Saturated(running'.job)
      PROVE  SlotInv'
  BY <1>1 DEF SlotInv, SlotTypeOK, SlotsAccounted, RunningHasSlot, Saturated
<1>2. CASE UNCHANGED <<current, promises, leaked, running>>
  BY <1>1, <1>2 DEF SlotInv, RunningHasSlot
<1>3. ASSUME NEW s \in Schedules, Fire(s) PROVE SlotInv'
  BY <1>1, <1>3 DEF Fire, jobVars
<1>4. CASE Trigger
  <2>1. UNCHANGED <<current, promises, leaked>>
    BY <1>4 DEF Trigger
  <2>2. ASSUME running'.job \in Jobs PROVE ~Saturated(running'.job)
    <3> DEFINE j == Head(running.todo)
               ready == enabled[j] /\ ~Saturated(j)
               skip == ready /\ running.schedule \in ToSet(skips[j])
    <3>1. running' = [running EXCEPT !.todo = Tail(@), !.job = IF ready /\ ~skip THEN j ELSE @]
      BY <1>4 DEF Trigger
    <3>2. running.job = "none"
      BY <1>4 DEF Trigger, Emitting
    <3>3. CASE ready /\ ~skip
      <4>1. running' = [running EXCEPT !.todo = Tail(@), !.job = j]
        BY <3>1, <3>3
      <4>2. running'.job = j \/ running'.job = running.job
        BY <4>1
      <4>3. QED
        BY <3>2, <3>3, <4>2, <2>2
    <3>4. CASE ~(ready /\ ~skip)
      <4>1. running' = [running EXCEPT !.todo = Tail(@), !.job = @]
        BY <3>1, <3>4
      <4>2. running'.job = running.job
        BY <4>1
      <4>3. QED
        BY <3>2, <4>2, <2>2
    <3>5. QED
      BY <3>3, <3>4
  <2>3. QED
    BY <1>1, <2>1, <2>2
<1>5. CASE HandlerReturns
  <2>1. running'.job = "none" \/ running'.job = running.job
    BY <1>5 DEF HandlerReturns
  <2>2. QED
    BY <1>1, <1>5, <2>1 DEF HandlerReturns, SlotInv, RunningHasSlot, jobVars
<1>6. CASE HandlerReturnsPromise
  <2> DEFINE j == running.job
  <2>1. j \in Jobs /\ ~Saturated(j)
    BY <1>6 DEF HandlerReturnsPromise, SlotInv, RunningHasSlot
  <2>2. running'.job \in Jobs => running'.job = j
    BY <1>6 DEF HandlerReturnsPromise
  <2>3. CASE Multiple[j] = 0
    <3>1. ~Saturated(running'.job) \/ running'.job \notin Jobs
      BY <2>2, <2>3 DEF Saturated
    <3>2. UNCHANGED <<current, promises, leaked>>
      BY <1>6, <2>3 DEF HandlerReturnsPromise
    <3>3. QED
      BY <1>1, <3>1, <3>2
  <2>4. CASE Multiple[j] # 0
    <3>1. current' = [current EXCEPT ![j] = @ + 1]
      BY <1>6, <2>4 DEF HandlerReturnsPromise
    <3>2. \/ promises' = [promises EXCEPT ![j] = @ + 1] /\ leaked' = leaked
          \/ leaked' = [leaked EXCEPT ![j] = @ + 1] /\ promises' = promises
      BY <1>6, <2>4 DEF HandlerReturnsPromise
    <3>3. SlotTypeOK'
      <4>1. current' \in [Jobs -> Int]
        BY <2>1, <3>1 DEF SlotInv, SlotTypeOK
      <4>2. promises' \in [Jobs -> Int] /\ leaked' \in [Jobs -> Int]
        <5>1. CASE promises' = [promises EXCEPT ![j] = @ + 1] /\ leaked' = leaked
          BY <2>1, <5>1 DEF SlotInv, SlotTypeOK
        <5>2. CASE leaked' = [leaked EXCEPT ![j] = @ + 1] /\ promises' = promises
          BY <2>1, <5>2 DEF SlotInv, SlotTypeOK
        <5>3. QED
          BY <3>2, <5>1, <5>2
      <4>3. QED
        BY <4>1, <4>2 DEF SlotTypeOK
    <3>4. current[j] + 1 <= Multiple[j]
      BY <2>1, <2>4 DEF SlotInv, SlotTypeOK, SlotsAccounted, Saturated
    <3>5. SlotsAccounted'
      BY <2>1, <3>1, <3>2, <3>4 DEF SlotInv, SlotTypeOK, SlotsAccounted
    <3>6. running'.job \notin Jobs
      <4>1. running' = [running EXCEPT !.job = "none"]
        BY <1>6 DEF HandlerReturnsPromise
      <4>2. QED
        BY <4>1
    <3>7. QED
      BY <3>3, <3>5, <3>6 DEF SlotInv, RunningHasSlot
  <2>5. QED
    BY <2>3, <2>4
<1>7. CASE HandlerThrows \/ EmissionEnds
  <2>1. running'.job = "none"
    BY <1>7 DEF HandlerThrows, EmissionEnds, Nothing
  <2>2. QED
    BY <1>1, <1>7, <2>1 DEF HandlerThrows, EmissionEnds, jobVars
<1>8. ASSUME NEW j \in Jobs, Settle(j) PROVE SlotInv'
  <2>1. running'.job \notin Jobs
    BY <1>8 DEF Settle, Nothing
  <2>2. SlotTypeOK' /\ SlotsAccounted'
    BY <1>8 DEF Settle, SlotInv, SlotTypeOK, SlotsAccounted
  <2>3. QED
    BY <2>1, <2>2 DEF SlotInv, RunningHasSlot
<1>9. QED
  BY <1>2, <1>3, <1>4, <1>5, <1>6, <1>7, <1>8
     DEF Next, vars, jobVars, AddJob, RemoveJob, SkipNext, SetEnabled, Start, Stop

\* A job's counter is the executions in progress that hold a slot, and never
\* exceeds multipleExecutions.
THEOREM JobsStayWithinTheirLimit == Spec => []SlotsAccounted
<1>1. Spec => []SlotInv
  BY SlotInit, SlotStep, PTL DEF Spec
<1>2. SlotInv => SlotsAccounted
  BY DEF SlotInv
<1>3. QED
  BY <1>1, <1>2, PTL

-----------------------------------------------------------------------------

\* A run of the jobs of a schedule: those to come, and the one in progress.
Run == [schedule : Schedules, todo : Seq(Jobs), job : Jobs \cup {"none"}]

\* What such a run is made of.
LEMMA RunFields ==
  ASSUME NEW r \in Run
  PROVE  /\ r # Nothing /\ r.schedule \in Schedules /\ r.todo \in Seq(Jobs) /\ r.job \in Jobs \cup {"none"}
         /\ \A t \in Seq(Jobs), j \in Jobs \cup {"none"} :
               /\ [r EXCEPT !.todo = t, !.job = j] \in Run
               /\ [r EXCEPT !.todo = t, !.job = j].schedule = r.schedule
         /\ \A j \in Jobs \cup {"none"} :
               /\ [r EXCEPT !.job = j] \in Run
               /\ [r EXCEPT !.job = j].schedule = r.schedule
<1>1. r.schedule \in Schedules /\ r.todo \in Seq(Jobs) /\ r.job \in Jobs \cup {"none"}
  BY DEF Run
<1>2. r # Nothing
  BY <1>1, CronAssumption DEF Nothing
<1>3. ASSUME NEW t \in Seq(Jobs), NEW j \in Jobs \cup {"none"}
      PROVE  /\ [r EXCEPT !.todo = t, !.job = j] \in Run
             /\ [r EXCEPT !.todo = t, !.job = j].schedule = r.schedule
  BY DEF Run
<1>4. ASSUME NEW j \in Jobs \cup {"none"}
      PROVE  [r EXCEPT !.job = j] \in Run /\ [r EXCEPT !.job = j].schedule = r.schedule
  BY DEF Run
<1> QED
  BY <1>1, <1>2, <1>3, <1>4

\* Every step of the scheduler keeps its types.
LEMMA CronTypeStep == TypeOK /\ TimerInv /\ SlotInv /\ [Next]_vars => TypeOK'
<1> SUFFICES ASSUME TypeOK, TimerInv, SlotInv, [Next]_vars PROVE TypeOK'
  OBVIOUS
<1>1. TimerTypeOK' /\ SlotTypeOK' /\ SlotsAccounted'
  BY TimerStep, SlotStep DEF TimerInv, SlotInv
<1> DEFINE JobsOK == jobs \in [Schedules -> Seq(Jobs)]
           RunOK == running \in Run \cup {Nothing}
           OnOK == enabled \in [Jobs -> BOOLEAN]
           SkipsOK == skips \in [Jobs -> Seq(Schedules)]
           CountsOK == current \in [Jobs -> Nat] /\ promises \in [Jobs -> Nat] /\ leaked \in [Jobs -> Nat]
<1>t. JobsOK /\ RunOK /\ OnOK /\ SkipsOK /\ CountsOK
  BY DEF TypeOK, Run
<1>s. SUFFICES JobsOK' /\ RunOK' /\ OnOK' /\ SkipsOK' /\ CountsOK'
  BY <1>1 DEF TypeOK, TimerTypeOK, Run
<1> HIDE DEF JobsOK, RunOK, OnOK, SkipsOK, CountsOK
<1>2. JobsOK'
  <2>1. ASSUME NEW s \in Schedules, NEW j \in Jobs, AddJob(s, j) PROVE JobsOK'
    <3>1. jobs' = [jobs EXCEPT ![s] = Append(jobs[s], j)] /\ Append(jobs[s], j) \in Seq(Jobs)
      BY <1>t, <2>1 DEF AddJob, JobsOK
    <3> QED
      BY <1>t, <3>1 DEF JobsOK
  <2>2. ASSUME NEW s \in Schedules, NEW j \in Jobs, RemoveJob(s, j) PROVE JobsOK'
    <3>1. jobs' = [jobs EXCEPT ![s] = Front(jobs[s])] /\ jobs[s] \in Seq(Jobs) /\ j \in ToSet(jobs[s])
      BY <1>t, <2>2 DEF RemoveJob, JobsOK
    <3>2. jobs[s] # <<>>
      BY <3>1, ElementsOfNothing
    <3>3. Front(jobs[s]) \in Seq(Jobs)
      BY <3>1, <3>2, FrontOf
    <3> QED
      BY <1>t, <3>1, <3>3 DEF JobsOK
  <2>3. CASE UNCHANGED jobs
    BY <1>t, <2>3 DEF JobsOK
  <2> QED
    BY <2>1, <2>2, <2>3
       DEF Next, vars, SkipNext, Start, Stop, Fire, SetEnabled, Trigger, HandlerReturns,
           HandlerReturnsPromise, HandlerThrows, EmissionEnds, Settle
<1>3. RunOK'
  <2>1. ASSUME NEW s \in Schedules, Fire(s) PROVE RunOK'
    BY <1>t, <2>1 DEF Fire, JobsOK, RunOK, Run
  <2>2. CASE Trigger
    <3>1. running \in Run /\ running.todo # <<>>
      BY <1>t, <2>2 DEF Trigger, Emitting, RunOK
    <3>2. Head(running.todo) \in Jobs /\ Tail(running.todo) \in Seq(Jobs)
      BY <3>1 DEF Run
    <3>3. PICK j \in Jobs \cup {"none"} :
            running' = [running EXCEPT !.todo = Tail(running.todo), !.job = j]
      BY <2>2, <3>1, <3>2, RunFields DEF Trigger
    <3> QED
      BY <3>1, <3>2, <3>3, RunFields DEF RunOK
  <2>3. CASE HandlerReturns \/ HandlerReturnsPromise
    <3>1. running \in Run
      BY <1>t, <2>3, CronAssumption DEF HandlerReturns, HandlerReturnsPromise, RunOK, Nothing
    <3>2. running' = [running EXCEPT !.job = "none"]
      BY <2>3 DEF HandlerReturns, HandlerReturnsPromise
    <3> QED
      BY <3>1, <3>2, RunFields DEF RunOK
  <2>4. CASE HandlerThrows \/ EmissionEnds
    BY <2>4 DEF HandlerThrows, EmissionEnds, RunOK
  <2>5. CASE UNCHANGED running
    BY <1>t, <2>5 DEF RunOK
  <2> QED
    BY <2>1, <2>2, <2>3, <2>4, <2>5
       DEF Next, vars, AddJob, RemoveJob, SkipNext, Start, Stop, SetEnabled, Settle
<1>4. OnOK'
  <2>1. ASSUME NEW j \in Jobs, NEW on \in BOOLEAN, SetEnabled(j, on) PROVE OnOK'
    BY <1>t, <2>1 DEF SetEnabled, OnOK
  <2>2. CASE UNCHANGED enabled
    BY <1>t, <2>2 DEF OnOK
  <2> QED
    BY <2>1, <2>2
       DEF Next, vars, jobVars, AddJob, RemoveJob, SkipNext, Start, Stop, Fire, Trigger, HandlerReturns,
           HandlerReturnsPromise, HandlerThrows, EmissionEnds, Settle
<1>5. SkipsOK'
  <2>1. ASSUME NEW j \in Jobs, NEW s \in Schedules, SkipNext(j, s) PROVE SkipsOK'
    <3>1. skips' = [skips EXCEPT ![j] = Append(skips[j], s)] /\ Append(skips[j], s) \in Seq(Schedules)
      BY <1>t, <2>1 DEF SkipNext, SkipsOK
    <3> QED
      BY <1>t, <3>1 DEF SkipsOK
  <2>2. CASE Trigger
    <3>1. running \in Run /\ running.todo # <<>>
      BY <1>t, <2>2 DEF Trigger, Emitting, RunOK
    <3>2. Head(running.todo) \in Jobs
      BY <3>1 DEF Run
    <3>3. skips' = skips \/ skips' = [skips EXCEPT ![Head(running.todo)] = RemoveFirst(@, running.schedule)]
      BY <2>2 DEF Trigger
    <3>4. RemoveFirst(skips[Head(running.todo)], running.schedule) \in Seq(Schedules)
      BY <1>t, <3>2, RemoveFirstInSeq DEF SkipsOK
    <3> QED
      BY <1>t, <3>3, <3>4 DEF SkipsOK
  <2>3. CASE UNCHANGED skips
    BY <1>t, <2>3 DEF SkipsOK
  <2> QED
    BY <2>1, <2>2, <2>3
       DEF Next, vars, jobVars, AddJob, RemoveJob, Start, Stop, Fire, SetEnabled, HandlerReturns,
           HandlerReturnsPromise, HandlerThrows, EmissionEnds, Settle
<1>6. CountsOK'
  <2>1. ASSUME NEW j \in Jobs, Settle(j) PROVE CountsOK'
    <3>1. promises[j] \in Nat /\ leaked[j] \in Nat /\ promises[j] > 0 /\ current[j] = promises[j] + leaked[j]
      BY <1>t, <2>1 DEF CountsOK, Settle, SlotInv, SlotsAccounted
    <3>2. current[j] - 1 \in Nat /\ promises[j] - 1 \in Nat
      BY <3>1
    <3> QED
      BY <1>t, <2>1, <3>2 DEF CountsOK, Settle
  <2>2. CASE HandlerReturnsPromise
    <3>1. current' = current \/ current' = [current EXCEPT ![running.job] = @ + 1]
      BY <2>2 DEF HandlerReturnsPromise
    <3>2. promises' = promises \/ promises' = [promises EXCEPT ![running.job] = @ + 1]
      BY <2>2 DEF HandlerReturnsPromise
    <3>3. leaked' = leaked \/ leaked' = [leaked EXCEPT ![running.job] = @ + 1]
      BY <2>2 DEF HandlerReturnsPromise
    <3>4. ASSUME NEW f \in [Jobs -> Nat], NEW g, g = f \/ g = [f EXCEPT ![running.job] = @ + 1]
          PROVE  g \in [Jobs -> Nat]
      BY <3>4
    <3> QED
      BY <1>t, <3>1, <3>2, <3>3, <3>4 DEF CountsOK
  <2>3. CASE UNCHANGED <<current, promises, leaked>>
    BY <1>t, <2>3 DEF CountsOK
  <2> QED
    BY <2>1, <2>2, <2>3
       DEF Next, vars, jobVars, AddJob, RemoveJob, SkipNext, Start, Stop, Fire, SetEnabled, Trigger,
           HandlerReturns, HandlerThrows, EmissionEnds
<1> QED
  BY <1>2, <1>3, <1>4, <1>5, <1>6

\* The three invariants of the scheduler hold always.
LEMMA CronInvariant == Spec => [](TypeOK /\ TimerInv /\ SlotInv)
<1>1. Init => TypeOK
  BY DEF Init, TypeOK
<1> QED
  BY <1>1, TimerInit, SlotInit, TimerStep, SlotStep, CronTypeStep, PTL DEF Spec

THEOREM CronTypes == Spec => []TypeOK
BY CronInvariant, PTL

\* start() leaves no schedule that was started without its timer.
LEMMA ArmStarts ==
  ASSUME TypeOK, NEW r, Arm(r), NEW s \in Schedules, started[s] \/ r = s
  PROVE  started'[s]
BY DEF Arm, TypeOK

\* A step ends the chain of timers of a schedule only as it may.
LEMMA ChainStep ==
  ASSUME TypeOK, [Next]_vars, NEW s \in Schedules, Alive(s), ~Alive(s)'
  PROVE  Stop(s) \/ HandlerThrows
<1>t. /\ started \in [Schedules -> BOOLEAN] /\ running \in Run \cup {Nothing}
      /\ s # "none" /\ Nothing.schedule = "none"
  BY CronAssumption DEF TypeOK, Run, Nothing
<1>1. ~started'[s] /\ running'.schedule # s
  BY DEF Alive
<1>2. ASSUME started' = started, running'.schedule = running.schedule PROVE FALSE
  BY <1>1, <1>2 DEF Alive
<1>3. ASSUME NEW r \in Schedules, Start(r) PROVE FALSE
  BY <1>1, <1>2, <1>3, <1>t DEF Start, Alive, Arm
<1>4. ASSUME NEW r \in Schedules, Stop(r) PROVE r = s
  BY <1>1, <1>4, <1>t DEF Stop, Alive
<1>5. ASSUME NEW r \in Schedules, Fire(r) PROVE FALSE
  <2>1. running = Nothing /\ running'.schedule = r /\ started' = [started EXCEPT ![r] = FALSE]
    BY <1>5 DEF Fire
  <2> QED
    BY <1>1, <1>t, <2>1 DEF Alive
<1>6. CASE Trigger
  <2>1. running \in Run /\ running.todo # <<>>
    BY <1>6, <1>t DEF Trigger, Emitting
  <2>2. Head(running.todo) \in Jobs /\ Tail(running.todo) \in Seq(Jobs)
    BY <2>1 DEF Run
  <2>3. PICK j \in Jobs \cup {"none"} :
          running' = [running EXCEPT !.todo = Tail(running.todo), !.job = j]
    BY <1>6, <2>1, <2>2, RunFields DEF Trigger
  <2>4. running'.schedule = running.schedule
    BY <2>1, <2>2, <2>3, RunFields
  <2> QED
    BY <1>2, <1>6, <2>4 DEF Trigger, scheduleVars
<1>7. CASE HandlerReturns \/ HandlerReturnsPromise
  <2>1. running' = [running EXCEPT !.job = "none"] /\ running \in Run /\ started' = started
    BY <1>7, <1>t, CronAssumption DEF HandlerReturns, HandlerReturnsPromise, scheduleVars, Nothing
  <2> QED
    BY <1>2, <2>1, RunFields
<1>8. CASE EmissionEnds
  <2>1. (started[running.schedule] /\ UNCHANGED scheduleVars) \/ Arm(running.schedule)
    BY <1>8 DEF EmissionEnds
  <2>2. CASE started[running.schedule] /\ UNCHANGED scheduleVars
    BY <1>1, <2>2 DEF Alive, scheduleVars
  <2>3. CASE Arm(running.schedule)
    BY <1>1, <2>3, ArmStarts DEF Alive
  <2> QED
    BY <2>1, <2>2, <2>3
<1> QED
  BY <1>2, <1>3, <1>4, <1>5, <1>6, <1>7, <1>8
     DEF Next, vars, scheduleVars, AddJob, RemoveJob, SkipNext, SetEnabled, Settle

\* Only stop() and a handler that throws end the chain of executions of a
\* schedule, whatever else is started, stopped, skipped or removed meanwhile.
THEOREM ChainsBreakOnlyByStopOrThrow == Spec => ChainBreaksOnlyByStopOrThrow
<1>1. TypeOK /\ [Next]_vars
      => [\A s \in Schedules : Alive(s) /\ ~Alive(s)' => Stop(s) \/ HandlerThrows]_vars
  BY ChainStep
<1> QED
  BY <1>1, CronTypes, PTL DEF Spec, ChainBreaksOnlyByStopOrThrow

-----------------------------------------------------------------------------
\* What a call holds at each place.
CallsHold ==
  \A r \in Requests :
    /\ InProgress(r) => request[r].name \in Names
    /\ request[r].at \in {"reading", "unloaded"} => request[r].file \in Files

\* The calls that are in progress at once for a name that is not `together`
\* are one.
OneCallEach ==
  \A q, r \in Requests :
    InProgress(q) /\ InProgress(r) /\ request[q].name = request[r].name
      /\ request[q].name \notin together => q = r

\* A command is that of a load() of its name; so is a job.
CommandsOwn ==
  \A n \in Names : command[n] # Nowhere =>
    /\ request[command[n]].at # "unborn"
    /\ request[command[n]].name = n

\* A schedule has a job once, that of a load() that is over.
JobsOwn ==
  \A c \in Crons :
    /\ IsInjective(jobsOn[c])
    /\ \A r \in JobsOf(c) : /\ request[r].at # "unborn" /\ ~InProgress(r)
                           /\ request[r].name \in Names /\ request[r].file \in Files

\* A name has a command exactly while it has a workflow, and neither once its
\* unload() has run.
CommandsFollow ==
  \A n \in Names \ together : command[n] = Nowhere <=> workflows[n] = Nowhere

\* A workflow that is not loaded holds nothing.
UnloadedIsFree ==
  \A r \in Requests :
    request[r].at = "unloaded" /\ request[r].name \notin together
      => workflows[request[r].name] = Nowhere

\* The inductive invariant of the workflows.
WorkflowsInv ==
  /\ WorkflowsTypeOK
  /\ CallsHold /\ OneCallEach /\ CommandsOwn /\ JobsOwn /\ CommandsFollow /\ UnloadedIsFree
  /\ JobsAreOfLoadedWorkflows /\ LoadedWorkflowsAreScheduled

\* The jobs of a schedule are the elements of its list.
LEMMA JobsListed ==
  ASSUME WorkflowsTypeOK, NEW c \in Crons
  PROVE  /\ jobsOn[c] \in Seq(Requests) /\ JobsOf(c) = ToSet(jobsOn[c])
         /\ JobsOf(c) \subseteq Requests
<1>1. jobsOn[c] \in Seq(Requests) /\ JobsOf(c) = ToSet(jobsOn[c])
  BY DEF WorkflowsTypeOK, JobsOf, ToSet
<1> QED
  BY <1>1, ElementsOf

\* A schedule of which some jobs are given has other jobs afterwards.
LEMMA JobsGiven ==
  ASSUME WorkflowsTypeOK, NEW c \in Crons, NEW given \in Seq(Requests),
         jobsOn' = [jobsOn EXCEPT ![c] = given]
  PROVE  /\ jobsOn' \in [Crons -> Seq(Requests)] /\ jobsOn'[c] = given
         /\ \A d \in Crons : d # c => jobsOn'[d] = jobsOn[d]
BY DEF WorkflowsTypeOK

\* The last job leaves, and the others stay.
LEMMA LastLeaves ==
  ASSUME NEW S, NEW s \in Seq(S), s # <<>>, IsInjective(s)
  PROVE  /\ Popped(s) \in Seq(S) /\ IsInjective(Popped(s)) /\ LastOf(s) \in S
         /\ ToSet(Popped(s)) = ToSet(s) \ {LastOf(s)}
<1> DEFINE t == Popped(s)
<1>1. PICK n \in Nat : n = Len(s) /\ n >= 1 /\ DOMAIN s = 1..n
  BY FrontOf, LenProperties
<1>2. t = Front(s)
  BY DEF Popped, Front
<1>3. t \in Seq(S) /\ Len(t) = n - 1 /\ \A i \in 1..n - 1 : t[i] = s[i]
  BY <1>1, <1>2, FrontOf
<1>4. LastOf(s) = s[n] /\ s[n] \in S
  BY <1>1, FrontOf DEF LastOf
<1>5. DOMAIN t = 1..n - 1
  BY <1>3, LenProperties
<1> HIDE DEF t
<1>6. \A i \in DOMAIN s : i = n \/ i \in DOMAIN t
  BY <1>1, <1>5
<1>7. \A i \in DOMAIN t : i \in DOMAIN s /\ i # n /\ t[i] = s[i]
  BY <1>1, <1>3, <1>5
<1>8. \A i, j \in DOMAIN s : s[i] = s[j] => i = j
  BY DEF IsInjective
<1>9. n \in DOMAIN s
  BY <1>1
<1>10. IsInjective(t)
  BY <1>7, <1>8 DEF IsInjective
<1>11. ToSet(t) = ToSet(s) \ {s[n]}
  <2>1. ASSUME NEW x \in ToSet(t) PROVE x \in ToSet(s) \ {s[n]}
    <3>1. PICK i \in DOMAIN t : x = t[i]
      BY <2>1 DEF ToSet
    <3>2. i \in DOMAIN s /\ i # n /\ x = s[i] /\ s[i] # s[n]
      BY <1>7, <1>8, <1>9, <3>1
    <3> QED
      BY <3>2 DEF ToSet
  <2>2. ASSUME NEW x \in ToSet(s), x # s[n] PROVE x \in ToSet(t)
    <3>1. PICK i \in DOMAIN s : x = s[i]
      BY <2>2 DEF ToSet
    <3>2. i \in DOMAIN t /\ t[i] = x
      BY <1>6, <1>7, <2>2, <3>1
    <3> QED
      BY <3>2 DEF ToSet
  <2> QED
    BY <2>1, <2>2
<1> QED
  BY <1>3, <1>4, <1>10, <1>11 DEF t

\* A call that goes on keeps its name and its file, and the other calls stay.
LEMMA GoesKeeps ==
  ASSUME WorkflowsTypeOK, NEW r \in Requests, NEW at \in States, Goes(r, at)
  PROVE  /\ request' \in [Requests -> [at : States, name : Names \union {Nowhere}, file : Files \union {Nowhere}]]
         /\ request'[r].at = at
         /\ \A q \in Requests : /\ request'[q].name = request[q].name
                                /\ request'[q].file = request[q].file
                                /\ q # r => request'[q].at = request[q].at
BY DEF WorkflowsTypeOK, Goes

\* The end of load() of a name that is free, or treated by two calls.
LEMMA RegisterKeeps ==
  ASSUME WorkflowsInv, NEW r \in Requests, request[r].at \in {"reading", "unloaded"},
         request[r].name \in together \/ workflows[request[r].name] = Nowhere,
         Register(r), together' = together
  PROVE  WorkflowsInv'
<1> DEFINE n == request[r].name
           f == request[r].file
           c == On[f]
           taken == command[n] # Nowhere
           full == c # Nowhere /\ ~HasRoom(c)
           kept == taken \/ c = Nowhere \/ full
<1>1. n \in Names /\ f \in Files /\ c \in Crons \union {Nowhere}
  BY WorkflowAssumption DEF WorkflowsInv, CallsHold, InProgress
<1>2. Nowhere \notin Files /\ Nowhere \notin Crons /\ r # Nowhere /\ Nowhere \notin Requests
  BY WorkflowAssumption DEF Requests
<1>3. /\ workflows' = [workflows EXCEPT ![n] = f]
      /\ command' = IF taken THEN command ELSE [command EXCEPT ![n] = r]
      /\ kept => UNCHANGED <<jobsOn, startedOn, stopped>>
      /\ ~kept => /\ jobsOn' = [jobsOn EXCEPT ![c] = Append(jobsOn[c], r)]
                  /\ startedOn' = [startedOn EXCEPT ![c] = TRUE]
                  /\ stopped' = stopped \ {c}
      /\ misplaced' = IF full THEN misplaced \union {r} ELSE misplaced
  BY DEF Register
<1>4. PICK at \in {"rejected", "resolved"} : Goes(r, at)
  BY DEF Register
<1>5. /\ request' \in [Requests -> [at : States, name : Names \union {Nowhere}, file : Files \union {Nowhere}]]
      /\ request'[r].at = at
      /\ \A q \in Requests : /\ request'[q].name = request[q].name
                             /\ request'[q].file = request[q].file
                             /\ q # r => request'[q].at = request[q].at
  BY <1>4, GoesKeeps DEF States, WorkflowsInv
<1>6. n \notin together => ~taken
  BY <1>1 DEF WorkflowsInv, CommandsFollow
<1>t. WorkflowsTypeOK
  BY DEF WorkflowsInv
<1>k. kept <=> taken \/ c = Nowhere \/ full
  OBVIOUS
<1> HIDE DEF n, f, c, taken, full, kept
<1>a. ~kept => c \in Crons
  BY <1>1, <1>k
<1>m. misplaced \subseteq misplaced' /\ misplaced' \subseteq Requests
  BY <1>3 DEF WorkflowsInv, WorkflowsTypeOK
<1>n. \A d \in Crons : r \notin JobsOf(d)
  BY DEF WorkflowsInv, JobsOwn, InProgress
<1>j. ASSUME NEW d \in Crons
      PROVE  /\ jobsOn'[d] \in Seq(Requests) /\ IsInjective(jobsOn'[d])
             /\ ToSet(jobsOn'[d]) = IF ~kept /\ d = c THEN JobsOf(d) \union {r} ELSE JobsOf(d)
  <2>1. jobsOn[d] \in Seq(Requests) /\ JobsOf(d) = ToSet(jobsOn[d]) /\ IsInjective(jobsOn[d])
    BY <1>t, JobsListed DEF WorkflowsInv, JobsOwn
  <2>2. CASE kept
    BY <1>3, <2>1, <2>2
  <2>3. CASE ~kept
    <3>1. c \in Crons /\ jobsOn' = [jobsOn EXCEPT ![c] = Append(jobsOn[c], r)]
      BY <1>3, <1>a, <2>3
    <3>2. jobsOn[c] \in Seq(Requests) /\ JobsOf(c) = ToSet(jobsOn[c]) /\ IsInjective(jobsOn[c])
      BY <1>t, <3>1, JobsListed DEF WorkflowsInv, JobsOwn
    <3>3. Append(jobsOn[c], r) \in Seq(Requests)
      BY <3>2
    <3>4. /\ ToSet(Append(jobsOn[c], r)) = ToSet(jobsOn[c]) \union {r}
          /\ IsInjective(Append(jobsOn[c], r))
      BY <1>n, <3>1, <3>2, ElementsOfAppend
    <3>5. /\ jobsOn'[c] = Append(jobsOn[c], r)
          /\ d # c => jobsOn'[d] = jobsOn[d]
      BY <1>t, <3>1, <3>3, JobsGiven
    <3>6. CASE d = c
      BY <2>3, <3>2, <3>3, <3>4, <3>5, <3>6
    <3>7. CASE d # c
      BY <2>1, <3>5, <3>7
    <3> QED
      BY <3>6, <3>7
  <2> QED
    BY <2>2, <2>3
<1>l. \A d \in Crons : JobsOf(d)' = ToSet(jobsOn'[d])
  BY DEF JobsOf, ToSet
<1>b. jobsOn' \in [Crons -> Seq(Requests)]
  <2>1. CASE kept
    BY <1>3, <1>t, <2>1 DEF WorkflowsTypeOK
  <2>2. CASE ~kept
    BY <1>3, <1>a, <1>j, <1>t, <2>2 DEF WorkflowsTypeOK
  <2> QED
    BY <2>1, <2>2
<1>7. WorkflowsTypeOK'
  <2>1. workflows' \in [Names -> Files \union {Nowhere}] /\ command' \in [Names -> Requests \union {Nowhere}]
    BY <1>1, <1>3 DEF WorkflowsInv, WorkflowsTypeOK
  <2>2. stopped' \subseteq Crons
    BY <1>3, <1>a DEF WorkflowsInv, WorkflowsTypeOK
  <2>3. startedOn' \in [Crons -> BOOLEAN]
    BY <1>3, <1>a DEF WorkflowsInv, WorkflowsTypeOK
  <2> QED
    BY <1>5, <1>b, <1>m, <2>1, <2>2, <2>3 DEF WorkflowsInv, WorkflowsTypeOK
<1>8. CallsHold' /\ OneCallEach'
  <2>1. \A q \in Requests : InProgress(q)' => InProgress(q) /\ q # r
    BY <1>5 DEF InProgress
  <2> QED
    BY <1>5, <2>1 DEF WorkflowsInv, CallsHold, OneCallEach, InProgress
<1>9. CommandsOwn' /\ JobsOwn'
  <2>1. \A q \in Requests : request[q].at # "unborn" => request'[q].at # "unborn"
    BY <1>5
  <2>2. request'[r].at # "unborn"
    BY <1>5
  <2>3. request'[r].name = n /\ request'[r].file = f
    BY <1>5 DEF n, f
  <2>4. CommandsOwn'
    <3> SUFFICES ASSUME NEW m \in Names, command'[m] # Nowhere
                 PROVE  request'[command'[m]].at # "unborn" /\ request'[command'[m]].name = m
      BY DEF CommandsOwn
    <3>1. command'[m] = command[m] \/ (m = n /\ command'[m] = r)
      BY <1>1, <1>3 DEF WorkflowsInv, WorkflowsTypeOK
    <3>2. CASE command'[m] = command[m]
      BY <1>5, <2>1, <3>2 DEF WorkflowsInv, WorkflowsTypeOK, CommandsOwn
    <3>3. CASE m = n /\ command'[m] = r
      BY <2>2, <2>3, <3>3
    <3> QED
      BY <3>1, <3>2, <3>3
  <2>5. JobsOwn'
    <3> SUFFICES ASSUME NEW d \in Crons, NEW q \in JobsOf(d)'
                 PROVE  /\ request'[q].at # "unborn" /\ ~InProgress(q)'
                        /\ request'[q].name \in Names /\ request'[q].file \in Files
      BY <1>j DEF JobsOwn
    <3>1. q \in JobsOf(d) \/ q = r
      BY <1>j, <1>l
    <3>2. CASE q \in JobsOf(d)
      <4>1. q \in Requests /\ request[q].at # "unborn" /\ ~InProgress(q)
            /\ request[q].name \in Names /\ request[q].file \in Files
        BY <1>t, <3>2, JobsListed DEF WorkflowsInv, JobsOwn
      <4> QED
        BY <1>5, <1>n, <2>1, <3>2, <4>1 DEF InProgress
    <3>3. CASE q = r
      BY <1>1, <1>5, <2>2, <2>3, <3>3 DEF InProgress
    <3> QED
      BY <3>1, <3>2, <3>3
  <2> QED
    BY <2>4, <2>5
<1>10. CommandsFollow'
  <2> SUFFICES ASSUME NEW m \in Names, m \notin together
               PROVE  command'[m] = Nowhere <=> workflows'[m] = Nowhere
    BY DEF CommandsFollow
  <2>1. CASE m = n
    BY <1>1, <1>2, <1>3, <1>6, <2>1 DEF WorkflowsInv, WorkflowsTypeOK
  <2>2. CASE m # n
    BY <1>1, <1>3, <2>2 DEF WorkflowsInv, WorkflowsTypeOK, CommandsFollow
  <2> QED
    BY <2>1, <2>2
<1>11. UnloadedIsFree'
  <2> SUFFICES ASSUME NEW q \in Requests, request'[q].at = "unloaded", request'[q].name \notin together
               PROVE  workflows'[request'[q].name] = Nowhere
    BY DEF UnloadedIsFree
  <2>1. q # r /\ request[q].at = "unloaded" /\ request'[q].name = request[q].name
    BY <1>5
  <2>2. request[q].name # n
    BY <2>1 DEF WorkflowsInv, OneCallEach, InProgress, n
  <2>3. request[q].name \in Names
    BY <2>1 DEF WorkflowsInv, CallsHold, InProgress
  <2> QED
    BY <1>1, <1>3, <2>1, <2>2, <2>3 DEF WorkflowsInv, WorkflowsTypeOK, UnloadedIsFree
<1>12. JobsAreOfLoadedWorkflows'
  <2> SUFFICES ASSUME NEW d \in Crons, NEW q \in JobsOf(d)', q \notin misplaced',
                      request'[q].name \notin together
               PROVE  /\ command'[request'[q].name] = q
                      /\ workflows'[request'[q].name] = request'[q].file
                      /\ On[request'[q].file] = d
    BY DEF JobsAreOfLoadedWorkflows
  <2>m. q \notin misplaced
    BY <1>m
  <2>1. CASE q \in JobsOf(d)
    <3>1. q \in Requests
      BY <1>t, <2>1, JobsListed
    <3>2. request'[q].name = request[q].name /\ request'[q].file = request[q].file
      BY <1>5, <3>1
    <3>3. /\ command[request[q].name] = q
          /\ workflows[request[q].name] = request[q].file
          /\ On[request[q].file] = d
      BY <2>1, <2>m, <3>2 DEF WorkflowsInv, JobsAreOfLoadedWorkflows
    <3>4. request[q].name \in Names /\ request[q].file \in Files
      BY <2>1 DEF WorkflowsInv, JobsOwn
    <3>5. request[q].name # n
      BY <1>2, <1>6, <3>1, <3>2, <3>3 DEF taken
    <3> QED
      BY <1>1, <1>3, <3>2, <3>3, <3>4, <3>5 DEF WorkflowsInv, WorkflowsTypeOK
  <2>2. CASE q \notin JobsOf(d)
    <3>1. q = r /\ d = c /\ ~taken
      BY <1>j, <1>k, <1>l, <2>2
    <3>2. request'[q].name = n /\ request'[q].file = f
      BY <1>5, <3>1 DEF n, f
    <3> QED
      BY <1>1, <1>3, <3>1, <3>2 DEF WorkflowsInv, WorkflowsTypeOK, c
  <2> QED
    BY <2>1, <2>2
<1>13. LoadedWorkflowsAreScheduled'
  <2> SUFFICES ASSUME NEW m \in Names, m \notin together, workflows'[m] # Nowhere,
                      On[workflows'[m]] # Nowhere, command'[m] \notin misplaced'
               PROVE  /\ command'[m] \in ToSet(jobsOn'[On[workflows'[m]]])
                      /\ On[workflows'[m]] \notin stopped' => startedOn'[On[workflows'[m]]]
    BY DEF LoadedWorkflowsAreScheduled, JobsOf, ToSet
  <2>1. CASE m = n
    <3>1. workflows'[m] = f /\ c # Nowhere /\ ~taken
      BY <1>1, <1>3, <1>6, <2>1 DEF WorkflowsInv, WorkflowsTypeOK, c
    <3>2. c \in Crons
      BY <1>1, <3>1
    <3>3. command'[m] = r
      BY <1>1, <1>3, <2>1, <3>1 DEF WorkflowsInv, WorkflowsTypeOK
    <3>4. ~kept
      BY <1>3, <1>k, <3>1, <3>3
    <3>5. r \in ToSet(jobsOn'[c]) /\ startedOn'[c]
      BY <1>3, <1>j, <3>2, <3>4 DEF WorkflowsInv, WorkflowsTypeOK
    <3>7. On[workflows'[m]] = c
      BY <3>1 DEF c
    <3> QED
      BY <3>3, <3>5, <3>7
  <2>2. CASE m # n
    <3>1. workflows'[m] = workflows[m] /\ command'[m] = command[m]
      BY <1>1, <1>3, <2>2 DEF WorkflowsInv, WorkflowsTypeOK
    <3> DEFINE d == On[workflows[m]]
    <3>2. d \in Crons
      BY <3>1, WorkflowAssumption DEF WorkflowsInv, WorkflowsTypeOK
    <3>3. command[m] \in JobsOf(d) /\ (d \notin stopped => startedOn[d])
      BY <1>m, <3>1 DEF WorkflowsInv, LoadedWorkflowsAreScheduled
    <3>5. On[workflows'[m]] = d
      BY <3>1
    <3> HIDE DEF d
    <3>4. JobsOf(d) \subseteq ToSet(jobsOn'[d]) /\ (d \notin stopped' => d \notin stopped \/ startedOn'[d])
          /\ (startedOn[d] => startedOn'[d])
      <4>1. CASE kept
        BY <1>3, <1>j, <3>2, <4>1
      <4>2. CASE ~kept
        BY <1>3, <1>a, <1>j, <3>2, <4>2 DEF WorkflowsInv, WorkflowsTypeOK
      <4> QED
        BY <4>1, <4>2
    <3> QED
      BY <3>1, <3>3, <3>4, <3>5
  <2> QED
    BY <2>1, <2>2
<1> QED
  BY <1>7, <1>8, <1>9, <1>10, <1>11, <1>12, <1>13 DEF WorkflowsInv

\* unload() takes the workflow, its command and its job away, and stops the
\* schedule when nothing is left on it.
LEMMA UnloadsKeeps ==
  ASSUME WorkflowsInv, NEW r \in Requests, Unloads(r)
  PROVE  WorkflowsInv'
<1> DEFINE n == request[r].name
           w == workflows[n]
           c == IF w = Nowhere THEN Nowhere ELSE On[w]
           missing == c # Nowhere /\ command[n] \notin JobsOf(c)
           kept == c = Nowhere \/ missing
           last == LastOf(jobsOn[c])
<1>1. n \in Names /\ w \in Files \union {Nowhere} /\ c \in Crons \union {Nowhere} /\ request[r].at = "unloading"
  BY WorkflowAssumption DEF Unloads, WorkflowsInv, WorkflowsTypeOK, CallsHold, InProgress
<1>2. Nowhere \notin Files /\ Nowhere \notin Crons /\ Nowhere \notin Requests
  BY WorkflowAssumption DEF Requests
<1>3. /\ workflows' = [workflows EXCEPT ![n] = Nowhere]
      /\ command' = IF w = Nowhere THEN command ELSE [command EXCEPT ![n] = Nowhere]
      /\ kept => UNCHANGED <<jobsOn, startedOn, stopped, misplaced>>
      /\ ~kept => /\ jobsOn' = [jobsOn EXCEPT ![c] = Popped(jobsOn[c])]
                  /\ startedOn' = [startedOn EXCEPT ![c] = @ /\ jobsOn'[c] # <<>>]
                  /\ stopped' = IF jobsOn'[c] = <<>> THEN stopped \union {c} ELSE stopped
                  /\ misplaced' = IF last = command[n] THEN misplaced
                                  ELSE misplaced \union {command[n], last}
      /\ together' = together
  BY DEF Unloads
<1>4. PICK at \in {"rejected", "resolved", "unloaded"} : Goes(r, at) /\ (at = "unloaded" => request[r].file # Nowhere)
  BY DEF Unloads
<1>5. /\ request' \in [Requests -> [at : States, name : Names \union {Nowhere}, file : Files \union {Nowhere}]]
      /\ request'[r].at = at
      /\ \A q \in Requests : /\ request'[q].name = request[q].name
                             /\ request'[q].file = request[q].file
                             /\ q # r => request'[q].at = request[q].at
  BY <1>4, GoesKeeps DEF States, WorkflowsInv
<1>6. (w = Nowhere) => (c = Nowhere)
  OBVIOUS
<1>t. WorkflowsTypeOK
  BY DEF WorkflowsInv
<1>k. ~kept => c \in Crons /\ command[n] \in JobsOf(c)
  BY <1>1
<1>p. ~kept => /\ jobsOn[c] \in Seq(Requests) /\ JobsOf(c) = ToSet(jobsOn[c])
               /\ Popped(jobsOn[c]) \in Seq(Requests) /\ IsInjective(Popped(jobsOn[c]))
               /\ ToSet(Popped(jobsOn[c])) = JobsOf(c) \ {last} /\ last \in Requests
  <2> SUFFICES ASSUME ~kept
               PROVE  /\ jobsOn[c] \in Seq(Requests) /\ JobsOf(c) = ToSet(jobsOn[c])
                      /\ Popped(jobsOn[c]) \in Seq(Requests) /\ IsInjective(Popped(jobsOn[c]))
                      /\ ToSet(Popped(jobsOn[c])) = JobsOf(c) \ {last} /\ last \in Requests
    OBVIOUS
  <2>1. c \in Crons /\ command[n] \in JobsOf(c)
    BY <1>k
  <2> HIDE DEF kept, missing, c
  <2>2. jobsOn[c] \in Seq(Requests) /\ JobsOf(c) = ToSet(jobsOn[c]) /\ IsInjective(jobsOn[c])
    BY <1>t, <2>1, JobsListed DEF WorkflowsInv, JobsOwn
  <2>3. jobsOn[c] # <<>>
    BY <2>1, <2>2, ElementsOfNothing
  <2> QED
    BY <2>2, <2>3, LastLeaves
<1>c. (w = Nowhere \/ On[w] = c) /\ (w = Nowhere => kept)
  OBVIOUS
<1>e. kept <=> c = Nowhere \/ command[n] \notin JobsOf(c)
  OBVIOUS
<1> HIDE DEF kept, missing, last, c
<1>j. ASSUME NEW d \in Crons
      PROVE  /\ jobsOn'[d] \in Seq(Requests) /\ IsInjective(jobsOn'[d])
             /\ ToSet(jobsOn'[d]) = IF ~kept /\ d = c THEN JobsOf(d) \ {last} ELSE JobsOf(d)
  <2>1. jobsOn[d] \in Seq(Requests) /\ JobsOf(d) = ToSet(jobsOn[d]) /\ IsInjective(jobsOn[d])
    BY <1>t, JobsListed DEF WorkflowsInv, JobsOwn
  <2>2. CASE kept
    BY <1>3, <2>1, <2>2
  <2>3. CASE ~kept
    <3>1. c \in Crons /\ jobsOn' = [jobsOn EXCEPT ![c] = Popped(jobsOn[c])]
          /\ Popped(jobsOn[c]) \in Seq(Requests)
      BY <1>3, <1>k, <1>p, <2>3
    <3>2. /\ jobsOn'[c] = Popped(jobsOn[c])
          /\ d # c => jobsOn'[d] = jobsOn[d]
      BY <1>t, <3>1, JobsGiven
    <3>3. CASE d = c
      BY <1>p, <2>3, <3>1, <3>2, <3>3
    <3>4. CASE d # c
      BY <2>1, <3>2, <3>4
    <3> QED
      BY <3>3, <3>4
  <2> QED
    BY <2>2, <2>3
<1>l. \A d \in Crons : JobsOf(d)' = ToSet(jobsOn'[d])
  BY DEF JobsOf, ToSet
<1>b. jobsOn' \in [Crons -> Seq(Requests)]
  <2>1. CASE kept
    BY <1>3, <1>t, <2>1 DEF WorkflowsTypeOK
  <2>2. CASE ~kept
    BY <1>3, <1>k, <1>p, <1>t, <2>2 DEF WorkflowsTypeOK
  <2> QED
    BY <2>1, <2>2
<1>i. \A d \in Crons : JobsOf(d)' \subseteq JobsOf(d)
  BY <1>j, <1>l
<1>m. misplaced \subseteq misplaced' /\ misplaced' \subseteq Requests
  <2>1. CASE kept
    BY <1>3, <1>t, <2>1 DEF WorkflowsTypeOK
  <2>2. CASE ~kept
    <3>1. command[n] \in Requests
      BY <1>k, <1>t, <2>2, JobsListed
    <3> QED
      BY <1>3, <1>p, <1>t, <2>2, <3>1 DEF WorkflowsTypeOK
  <2> QED
    BY <2>1, <2>2
<1>f. \A m \in Names : m # n => command'[m] = command[m] /\ workflows'[m] = workflows[m]
  BY <1>1, <1>3 DEF WorkflowsInv, WorkflowsTypeOK
<1>g. n \notin together => w # Nowhere \/ command[n] = Nowhere
  BY <1>1 DEF WorkflowsInv, CommandsFollow
<1>h. workflows'[n] = Nowhere /\ (w # Nowhere => command'[n] = Nowhere) /\ (w = Nowhere => command' = command)
  BY <1>1, <1>3 DEF WorkflowsInv, WorkflowsTypeOK
<1>7. WorkflowsTypeOK'
  <2>1. workflows' \in [Names -> Files \union {Nowhere}] /\ command' \in [Names -> Requests \union {Nowhere}]
    BY <1>1, <1>3 DEF WorkflowsInv, WorkflowsTypeOK
  <2>2. stopped' \subseteq Crons
    BY <1>3, <1>k DEF WorkflowsInv, WorkflowsTypeOK
  <2>3. startedOn' \in [Crons -> BOOLEAN]
    <3>1. CASE kept
      BY <1>3, <3>1 DEF WorkflowsInv, WorkflowsTypeOK
    <3>2. CASE ~kept
      <4>1. PICK b \in BOOLEAN : b = (startedOn[c] /\ jobsOn'[c] # <<>>)
        OBVIOUS
      <4>2. startedOn' = [startedOn EXCEPT ![c] = b]
        BY <1>3, <1>k, <3>2, <4>1 DEF WorkflowsInv, WorkflowsTypeOK
      <4> QED
        BY <4>2 DEF WorkflowsInv, WorkflowsTypeOK
    <3> QED
      BY <3>1, <3>2
  <2> QED
    BY <1>3, <1>5, <1>b, <1>m, <2>1, <2>2, <2>3 DEF WorkflowsInv, WorkflowsTypeOK
<1>8. CallsHold' /\ OneCallEach'
  <2>1. \A q \in Requests : InProgress(q)' => InProgress(q)
    BY <1>1, <1>5 DEF InProgress
  <2>2. at = "unloaded" => request[r].file \in Files
    BY <1>4 DEF WorkflowsInv, WorkflowsTypeOK
  <2>3. CallsHold'
    <3> SUFFICES ASSUME NEW q \in Requests
                 PROVE  /\ InProgress(q)' => request'[q].name \in Names
                        /\ request'[q].at \in {"reading", "unloaded"} => request'[q].file \in Files
      BY DEF CallsHold
    <3>1. CASE q = r
      BY <1>1, <1>5, <2>2, <3>1
    <3>2. CASE q # r
      BY <1>5, <2>1, <3>2 DEF WorkflowsInv, CallsHold
    <3> QED
      BY <3>1, <3>2
  <2>4. OneCallEach'
    BY <1>3, <1>5, <2>1 DEF WorkflowsInv, OneCallEach
  <2> QED
    BY <2>3, <2>4
<1>9. CommandsOwn'
  <2> SUFFICES ASSUME NEW m \in Names, command'[m] # Nowhere
               PROVE  request'[command'[m]].at # "unborn" /\ request'[command'[m]].name = m
    BY DEF CommandsOwn
  <2>1. command'[m] = command[m]
    BY <1>f, <1>h
  <2>2. command[m] \in Requests /\ request[command[m]].at # "unborn" /\ request[command[m]].name = m
    BY <2>1 DEF WorkflowsInv, WorkflowsTypeOK, CommandsOwn
  <2> QED
    BY <1>5, <2>1, <2>2
<1>10. JobsOwn'
  <2> SUFFICES ASSUME NEW d \in Crons, NEW q \in JobsOf(d)'
               PROVE  /\ request'[q].at # "unborn" /\ ~InProgress(q)'
                      /\ request'[q].name \in Names /\ request'[q].file \in Files
    BY <1>j DEF JobsOwn
  <2>1. q \in JobsOf(d) /\ q \in Requests
    BY <1>i, <1>t, JobsListed
  <2>2. /\ request[q].at # "unborn" /\ ~InProgress(q)
        /\ request[q].name \in Names /\ request[q].file \in Files
    BY <2>1 DEF WorkflowsInv, JobsOwn
  <2>3. q # r
    BY <1>1, <2>2 DEF InProgress
  <2> QED
    BY <1>5, <2>1, <2>2, <2>3 DEF InProgress
<1>11. CommandsFollow'
  <2> SUFFICES ASSUME NEW m \in Names, m \notin together
               PROVE  command'[m] = Nowhere <=> workflows'[m] = Nowhere
    BY <1>3 DEF CommandsFollow
  <2>1. CASE m = n
    BY <1>g, <1>h, <2>1
  <2>2. CASE m # n
    BY <1>f, <2>2 DEF WorkflowsInv, CommandsFollow
  <2> QED
    BY <2>1, <2>2
<1>12. UnloadedIsFree'
  <2> SUFFICES ASSUME NEW q \in Requests, request'[q].at = "unloaded", request'[q].name \notin together
               PROVE  workflows'[request'[q].name] = Nowhere
    BY <1>3 DEF UnloadedIsFree
  <2>1. CASE request[q].name = n
    BY <1>5, <1>h, <2>1
  <2>2. CASE request[q].name # n
    <3>1. q # r
      BY <2>2
    <3>2. request[q].at = "unloaded" /\ request'[q].name = request[q].name
      BY <1>5, <3>1
    <3>3. request[q].name \in Names
      BY <3>2 DEF WorkflowsInv, CallsHold, InProgress
    <3> QED
      BY <1>f, <2>2, <3>2, <3>3 DEF WorkflowsInv, UnloadedIsFree
  <2> QED
    BY <2>1, <2>2
<1>13. JobsAreOfLoadedWorkflows'
  <2> SUFFICES ASSUME NEW d \in Crons, NEW q \in JobsOf(d)', q \notin misplaced',
                      request'[q].name \notin together
               PROVE  /\ command'[request'[q].name] = q
                      /\ workflows'[request'[q].name] = request'[q].file
                      /\ On[request'[q].file] = d
    BY <1>3 DEF JobsAreOfLoadedWorkflows
  <2>1. q \in JobsOf(d) /\ q \in Requests /\ q \notin misplaced
    BY <1>i, <1>m, <1>t, JobsListed
  <2>2. request'[q].name = request[q].name /\ request'[q].file = request[q].file
    BY <1>5, <2>1
  <2>3. /\ command[request[q].name] = q
        /\ workflows[request[q].name] = request[q].file
        /\ On[request[q].file] = d
    BY <2>1, <2>2 DEF WorkflowsInv, JobsAreOfLoadedWorkflows
  <2>4. request[q].name \in Names /\ request[q].file \in Files
    BY <2>1 DEF WorkflowsInv, JobsOwn
  <2>5. request[q].name # n
    <3> SUFFICES ASSUME request[q].name = n PROVE FALSE
      OBVIOUS
    <3>1. w = request[q].file /\ w # Nowhere /\ c = d /\ command[n] = q
      BY <1>2, <1>c, <2>3, <2>4
    <3>2. ~kept
      BY <1>2, <1>e, <2>1, <3>1
    <3>3. last = q
      BY <1>3, <3>1, <3>2
    <3> QED
      BY <1>j, <1>l, <3>1, <3>2, <3>3
  <2> QED
    BY <1>f, <2>2, <2>3, <2>4, <2>5
<1>14. LoadedWorkflowsAreScheduled'
  <2> SUFFICES ASSUME NEW m \in Names, m \notin together, workflows'[m] # Nowhere,
                      On[workflows'[m]] # Nowhere, command'[m] \notin misplaced'
               PROVE  /\ command'[m] \in ToSet(jobsOn'[On[workflows'[m]]])
                      /\ On[workflows'[m]] \notin stopped' => startedOn'[On[workflows'[m]]]
    BY <1>3 DEF LoadedWorkflowsAreScheduled, JobsOf, ToSet
  <2>1. m # n /\ workflows'[m] = workflows[m] /\ command'[m] = command[m]
    BY <1>f, <1>h
  <2> DEFINE d == On[workflows[m]]
  <2>2. d \in Crons
    BY <2>1, WorkflowAssumption DEF WorkflowsInv, WorkflowsTypeOK
  <2>3. command[m] \in JobsOf(d) /\ (d \notin stopped => startedOn[d])
    BY <1>m, <2>1 DEF WorkflowsInv, LoadedWorkflowsAreScheduled
  <2>4. command[m] \in Requests
    BY <1>t, <2>2, <2>3, JobsListed
  <2>5. command[m] # command[n]
    BY <1>1, <1>2, <2>1, <2>4 DEF WorkflowsInv, CommandsOwn
  <2>6. On[workflows'[m]] = d
    BY <2>1
  <2> HIDE DEF d
  <2>7. ~kept => command[m] # last
    BY <1>3, <2>1, <2>5
  <2>8. command[m] \in ToSet(jobsOn'[d])
    BY <1>j, <2>2, <2>3, <2>7
  <2>9. d \notin stopped' => startedOn'[d]
    <3>1. CASE kept
      BY <1>3, <2>3, <3>1
    <3>2. CASE ~kept
      <4>1. jobsOn'[d] # <<>>
        BY <1>j, <2>2, <2>8, ElementsOfNothing
      <4>2. CASE d = c
        <5>1. startedOn'[c] = (startedOn[c] /\ jobsOn'[c] # <<>>) /\ stopped' = stopped
          BY <1>3, <1>k, <3>2, <4>1, <4>2 DEF WorkflowsInv, WorkflowsTypeOK
        <5> QED
          BY <2>3, <4>1, <4>2, <5>1
      <4>3. CASE d # c
        <5>1. startedOn'[d] = startedOn[d] /\ (d \notin stopped' => d \notin stopped)
          BY <1>3, <1>k, <2>2, <3>2, <4>3 DEF WorkflowsInv, WorkflowsTypeOK
        <5> QED
          BY <2>3, <5>1
      <4> QED
        BY <4>2, <4>3
    <3> QED
      BY <3>1, <3>2
  <2> QED
    BY <2>1, <2>6, <2>8, <2>9
<1> QED
  BY <1>7, <1>8, <1>9, <1>10, <1>11, <1>12, <1>13, <1>14 DEF WorkflowsInv

\* A new call: a second one for the same name makes the name one of together.
LEMMA ComesKeeps ==
  ASSUME WorkflowsInv, NEW r \in Requests, NEW n \in Names, NEW at \in {"reading", "unloading"},
         NEW f \in Files \union {Nowhere}, at = "reading" => f \in Files,
         Comes(r, at, n, f), UNCHANGED <<workflows, command, jobsOn, startedOn, stopped, misplaced>>
  PROVE  WorkflowsInv'
<1>1. /\ request[r].at = "unborn" /\ r \in Nat
      /\ request' = [request EXCEPT ![r] = [at |-> at, name |-> n, file |-> f]]
      /\ together' = together \union {m \in {n} : \E q \in Requests : InProgress(q) /\ request[q].name = m}
  <2>1. \A q \in Requests : request[q].at = "unborn" <=> q >= r
    BY DEF Comes
  <2>2. r \in Nat /\ r >= r
    BY WorkflowAssumption DEF Requests
  <2> QED
    BY <2>1, <2>2 DEF Comes
<1>2. /\ request'[r] = [at |-> at, name |-> n, file |-> f]
      /\ \A q \in Requests : q # r => request'[q] = request[q]
  BY <1>1 DEF WorkflowsInv, WorkflowsTypeOK
<1>3. together \subseteq together' /\ together' \subseteq Names
  BY <1>1 DEF WorkflowsInv, WorkflowsTypeOK
<1>4. request' \in [Requests -> [at : States, name : Names \union {Nowhere}, file : Files \union {Nowhere}]]
  BY <1>1 DEF WorkflowsInv, WorkflowsTypeOK, States
<1>5. WorkflowsTypeOK'
  BY <1>3, <1>4 DEF WorkflowsInv, WorkflowsTypeOK
<1>6. CallsHold'
  BY <1>2 DEF WorkflowsInv, CallsHold, InProgress
<1>7. OneCallEach'
  <2> SUFFICES ASSUME NEW p \in Requests, NEW q \in Requests, InProgress(p)', InProgress(q)',
                      request'[p].name = request'[q].name, request'[p].name \notin together'
               PROVE  p = q
    BY DEF OneCallEach
  <2>1. \A s \in Requests : s # r /\ InProgress(s)' => InProgress(s) /\ request'[s].name = request[s].name
    BY <1>2 DEF InProgress
  <2>2. CASE p # r /\ q # r
    BY <1>3, <2>1, <2>2 DEF WorkflowsInv, OneCallEach
  <2>3. CASE p = r /\ q # r
    BY <1>1, <1>2, <2>1, <2>3
  <2>4. CASE p # r /\ q = r
    BY <1>1, <1>2, <2>1, <2>4
  <2> QED
    BY <2>2, <2>3, <2>4
<1>8. CommandsOwn'
  <2> SUFFICES ASSUME NEW m \in Names, command[m] # Nowhere
               PROVE  request'[command[m]].at # "unborn" /\ request'[command[m]].name = m
    BY DEF CommandsOwn
  <2>1. command[m] \in Requests /\ request[command[m]].at # "unborn" /\ request[command[m]].name = m
    BY DEF WorkflowsInv, WorkflowsTypeOK, CommandsOwn
  <2> QED
    BY <1>1, <1>2, <2>1
<1>a. \A d : JobsOf(d)' = JobsOf(d)
  BY DEF JobsOf
<1>9. \A d \in Crons : \A q \in JobsOf(d) : q \in Requests /\ request'[q] = request[q]
  <2> SUFFICES ASSUME NEW d \in Crons, NEW q \in JobsOf(d) PROVE q \in Requests /\ request'[q] = request[q]
    OBVIOUS
  <2>1. q \in Requests /\ request[q].at # "unborn"
    BY JobsListed DEF WorkflowsInv, JobsOwn
  <2> QED
    BY <1>1, <1>2, <2>1
<1>10. JobsOwn'
  BY <1>9, <1>a DEF WorkflowsInv, JobsOwn, InProgress
<1>11. CommandsFollow'
  BY <1>3 DEF WorkflowsInv, CommandsFollow
<1>12. UnloadedIsFree'
  BY <1>2, <1>3 DEF WorkflowsInv, UnloadedIsFree
<1>13. JobsAreOfLoadedWorkflows'
  <2> SUFFICES ASSUME NEW d \in Crons, NEW q \in JobsOf(d), q \notin misplaced, request'[q].name \notin together'
               PROVE  /\ command[request'[q].name] = q
                      /\ workflows[request'[q].name] = request'[q].file
                      /\ On[request'[q].file] = d
    BY <1>a DEF JobsAreOfLoadedWorkflows
  <2> QED
    BY <1>3, <1>9 DEF WorkflowsInv, JobsAreOfLoadedWorkflows
<1>14. LoadedWorkflowsAreScheduled'
  BY <1>3 DEF WorkflowsInv, LoadedWorkflowsAreScheduled, JobsOf
<1> QED
  BY <1>5, <1>6, <1>7, <1>8, <1>10, <1>11, <1>12, <1>13, <1>14 DEF WorkflowsInv

\* A call that is only marked, and ends or waits for its unload().
LEMMA MarkKeeps ==
  ASSUME WorkflowsInv, NEW r \in Requests, request[r].at = "reading", NEW at \in {"rejected", "unloading"},
         Goes(r, at), UNCHANGED <<workflows, command, jobsOn, startedOn, stopped, together, misplaced>>
  PROVE  WorkflowsInv'
<1>1. /\ request' \in [Requests -> [at : States, name : Names \union {Nowhere}, file : Files \union {Nowhere}]]
      /\ request'[r].at = at
      /\ \A q \in Requests : /\ request'[q].name = request[q].name
                             /\ request'[q].file = request[q].file
                             /\ q # r => request'[q].at = request[q].at
  BY GoesKeeps DEF States, WorkflowsInv
<1>2. \A q \in Requests : /\ InProgress(q)' => InProgress(q)
                          /\ request'[q].at \in {"reading", "unloaded"} => request[q].at = request'[q].at
                          /\ request[q].at # "unborn" => request'[q].at # "unborn"
  BY <1>1 DEF InProgress
<1>3. WorkflowsTypeOK'
  BY <1>1 DEF WorkflowsInv, WorkflowsTypeOK
<1>4. CallsHold' /\ OneCallEach' /\ UnloadedIsFree'
  BY <1>1, <1>2 DEF WorkflowsInv, CallsHold, OneCallEach, UnloadedIsFree
<1>a. (\A d : JobsOf(d)' = JobsOf(d)) /\ \A d \in Crons : JobsOf(d) \subseteq Requests
  BY JobsListed DEF JobsOf, WorkflowsInv
<1>5. CommandsOwn' /\ JobsOwn'
  <2>1. CommandsOwn'
    BY <1>1, <1>2 DEF WorkflowsInv, WorkflowsTypeOK, CommandsOwn
  <2>2. JobsOwn'
    BY <1>1, <1>2, <1>a DEF WorkflowsInv, JobsOwn
  <2> QED
    BY <2>1, <2>2
<1>6. JobsAreOfLoadedWorkflows'
  BY <1>1, <1>a DEF WorkflowsInv, JobsAreOfLoadedWorkflows
<1>7. CommandsFollow' /\ LoadedWorkflowsAreScheduled'
  BY DEF WorkflowsInv, CommandsFollow, LoadedWorkflowsAreScheduled, JobsOf
<1> QED
  BY <1>3, <1>4, <1>5, <1>6, <1>7 DEF WorkflowsInv

\* enable-schedule and disable-schedule.
LEMMA SwitchKeeps ==
  ASSUME WorkflowsInv, NEW c \in Crons, EnableSchedule(c) \/ DisableSchedule(c)
  PROVE  WorkflowsInv'
<1>1. /\ UNCHANGED <<workflows, command, jobsOn, request, together, misplaced>>
      /\ \/ startedOn' = [startedOn EXCEPT ![c] = TRUE] /\ stopped' = stopped \ {c}
         \/ startedOn' = [startedOn EXCEPT ![c] = FALSE] /\ stopped' = stopped \union {c}
  BY DEF EnableSchedule, DisableSchedule
<1>2. startedOn' \in [Crons -> BOOLEAN] /\ stopped' \subseteq Crons
  BY <1>1 DEF WorkflowsInv, WorkflowsTypeOK
<1>3. WorkflowsTypeOK'
  BY <1>1, <1>2 DEF WorkflowsInv, WorkflowsTypeOK
<1>4. \A d \in Crons : (d \notin stopped => startedOn[d]) => (d \notin stopped' => startedOn'[d])
  <2> SUFFICES ASSUME NEW d \in Crons, d \notin stopped => startedOn[d], d \notin stopped'
               PROVE  startedOn'[d]
    OBVIOUS
  <2>1. CASE startedOn' = [startedOn EXCEPT ![c] = TRUE] /\ stopped' = stopped \ {c}
    BY <2>1 DEF WorkflowsInv, WorkflowsTypeOK
  <2>2. CASE startedOn' = [startedOn EXCEPT ![c] = FALSE] /\ stopped' = stopped \union {c}
    BY <2>2 DEF WorkflowsInv, WorkflowsTypeOK
  <2> QED
    BY <1>1, <2>1, <2>2
<1>5. LoadedWorkflowsAreScheduled'
  <2> SUFFICES ASSUME NEW m \in Names, m \notin together, workflows[m] # Nowhere,
                      On[workflows[m]] # Nowhere, command[m] \notin misplaced
               PROVE  /\ command[m] \in JobsOf(On[workflows[m]])
                      /\ On[workflows[m]] \notin stopped' => startedOn'[On[workflows[m]]]
    BY <1>1 DEF LoadedWorkflowsAreScheduled, JobsOf
  <2>1. On[workflows[m]] \in Crons
    BY WorkflowAssumption DEF WorkflowsInv, WorkflowsTypeOK
  <2> QED
    BY <1>4, <2>1 DEF WorkflowsInv, LoadedWorkflowsAreScheduled
<1>6. /\ CallsHold' /\ OneCallEach' /\ CommandsOwn' /\ JobsOwn' /\ CommandsFollow' /\ UnloadedIsFree'
      /\ JobsAreOfLoadedWorkflows'
  BY <1>1 DEF WorkflowsInv, CallsHold, OneCallEach, CommandsOwn, JobsOwn, CommandsFollow, UnloadedIsFree,
              JobsAreOfLoadedWorkflows, InProgress, JobsOf
<1> QED
  BY <1>3, <1>5, <1>6 DEF WorkflowsInv

\* The invariant holds before the first workflow.
LEMMA WorkflowsInitInv == WorkflowsInit => WorkflowsInv
<1> SUFFICES ASSUME WorkflowsInit PROVE WorkflowsInv
  OBVIOUS
<1>0. \A c \in Crons : jobsOn[c] = <<>>
  BY DEF WorkflowsInit
<1>j. \A c \in Crons : JobsOf(c) = {} /\ IsInjective(jobsOn[c])
  BY <1>0, ElementsOfNothing DEF JobsOf, ToSet
<1>1. WorkflowsTypeOK
  BY DEF WorkflowsInit, WorkflowsTypeOK, NoRequest, States
<1>2. \A r \in Requests : request[r].at = "unborn" /\ ~InProgress(r)
  BY DEF WorkflowsInit, NoRequest, InProgress
<1> QED
  BY <1>1, <1>2, <1>j DEF WorkflowsInit, WorkflowsInv, CallsHold, OneCallEach, CommandsOwn, JobsOwn, CommandsFollow,
     UnloadedIsFree, JobsAreOfLoadedWorkflows, LoadedWorkflowsAreScheduled

\* Every step of a workflow keeps the invariant.
LEMMA WorkflowsStep == WorkflowsInv /\ [WorkflowsNext]_workflowVars => WorkflowsInv'
<1> SUFFICES ASSUME WorkflowsInv, [WorkflowsNext]_workflowVars PROVE WorkflowsInv'
  OBVIOUS
<1>1. ASSUME NEW r \in Requests, NEW n \in Names, Unload(r, n) PROVE WorkflowsInv'
  BY <1>1, ComesKeeps DEF Unload
<1>2. ASSUME NEW r \in Requests, NEW n \in Names, NEW f \in Files, Load(r, n, f) PROVE WorkflowsInv'
  BY <1>2, ComesKeeps DEF Load
<1>3. ASSUME NEW r \in Requests, LoadFails(r) PROVE WorkflowsInv'
  BY <1>3, MarkKeeps DEF LoadFails
<1>4. ASSUME NEW r \in Requests, FileRead(r) PROVE WorkflowsInv'
  <2>1. CASE workflows[request[r].name] # Nowhere
    BY <1>4, <2>1, MarkKeeps DEF FileRead
  <2>2. CASE workflows[request[r].name] = Nowhere
    BY <1>4, <2>2, RegisterKeeps DEF FileRead
  <2> QED
    BY <2>1, <2>2
<1>5. ASSUME NEW r \in Requests, Unloads(r) PROVE WorkflowsInv'
  BY <1>5, UnloadsKeeps
<1>6. ASSUME NEW r \in Requests, UnloadedFirst(r) PROVE WorkflowsInv'
  BY <1>6, RegisterKeeps DEF UnloadedFirst, WorkflowsInv, UnloadedIsFree
<1>7. ASSUME NEW c \in Crons, EnableSchedule(c) \/ DisableSchedule(c) PROVE WorkflowsInv'
  BY <1>7, SwitchKeeps
<1>8. CASE UNCHANGED workflowVars
  BY <1>8 DEF workflowVars, WorkflowsInv, WorkflowsTypeOK, CallsHold, OneCallEach, CommandsOwn, JobsOwn,
     CommandsFollow, UnloadedIsFree, JobsAreOfLoadedWorkflows, LoadedWorkflowsAreScheduled, InProgress, JobsOf
<1> QED
  BY <1>1, <1>2, <1>3, <1>4, <1>5, <1>6, <1>7, <1>8 DEF WorkflowsNext

\* An unload() that stops a schedule leaves no job on it.
LEMMA UnloadSpares ==
  ASSUME WorkflowsInv, NEW r \in Requests, NEW c \in Crons, Unloads(r), startedOn[c], ~startedOn'[c]
  PROVE  jobsOn'[c] = <<>>
<1> DEFINE n == request[r].name
           w == workflows[n]
           d == IF w = Nowhere THEN Nowhere ELSE On[w]
           kept == d = Nowhere \/ (d # Nowhere /\ command[n] \notin JobsOf(d))
<1>1. /\ kept => startedOn' = startedOn
      /\ ~kept => startedOn' = [startedOn EXCEPT ![d] = @ /\ jobsOn'[d] # <<>>]
  BY DEF Unloads
<1>2. ~kept
  BY <1>1
<1> HIDE DEF d, kept
<1>3. CASE c = d
  <2>1. startedOn'[c] = (startedOn[c] /\ jobsOn'[c] # <<>>)
    BY <1>1, <1>2, <1>3 DEF WorkflowsInv, WorkflowsTypeOK
  <2> QED
    BY <2>1
<1>4. CASE c # d
  BY <1>1, <1>2, <1>4 DEF WorkflowsInv, WorkflowsTypeOK
<1> QED
  BY <1>3, <1>4

\* Workflows, their commands and the jobs of their schedules stay in step, for
\* any names, files and calls of load() and unload() that overlap.
THEOREM WorkflowsStayInStep == WorkflowsSpec => WorkflowsInStep
<1>1. WorkflowsSpec => []WorkflowsInv
  BY WorkflowsInitInv, WorkflowsStep, PTL DEF WorkflowsSpec
<1>2. WorkflowsInv => WorkflowsTypeOK /\ JobsAreOfLoadedWorkflows /\ LoadedWorkflowsAreScheduled
  BY DEF WorkflowsInv
<1>3. WorkflowsInv /\ [WorkflowsNext]_workflowVars =>
        [\A r \in Requests, c \in Crons :
           Unloads(r) /\ startedOn[c] /\ ~startedOn'[c] => jobsOn'[c] = <<>>]_workflowVars
  BY UnloadSpares
<1> QED
  BY <1>1, <1>2, <1>3, PTL DEF WorkflowsSpec, WorkflowsInStep, UnloadSparesTheOthers

-----------------------------------------------------------------------------
\* The file of the queue holds messages that callers have enqueued, each once,
\* and none that is finished: what a new process reads is never run again.
SavedOnce ==
  /\ IsInjective(saved)
  /\ ToSet(saved) \subseteq Message \ unseen
  /\ ToSet(saved) \cap ToSet(finished) = {}

\* Where the answer to a caller stands: who still waits has a Deferred that this
\* process holds, for a workflow that has not run; who was refused has nothing
\* left to run; and a workflow that is over has answered.
AnswersStand ==
  /\ ran \cap unseen = {}
  /\ \A m \in Message : answer[m] = "pending" => AnsweredLater(m) /\ m \notin ran
  /\ \A m \in Message : answer[m] = "rejected" => m \in ToSet(finished)
  /\ stage = "processed" => answer[Handled] # "pending"

\* The inductive invariant of the runs.
RunsInv ==
  /\ RunsTypeOK /\ OneHandler /\ LineOnce /\ FinishedOnce
  /\ OneContainer /\ WaitersAreAnswered /\ SavedOnce /\ AnswersStand

\* The message of the handler that runs.
LEMMA OneIsHandled ==
  ASSUME QueueInv, handling # <<>>
  PROVE  Handled \in Message /\ 1 \in DOMAIN handling /\ handling = <<Handled>> /\ ToSet(handling) = {Handled}
<1>1. /\ DOMAIN handling = 1..Len(handling) /\ Len(handling) \in Nat /\ Len(handling) <= 1
      /\ handling \in Seq(Message)
  BY LenProperties DEF QueueInv, QueueTypeOK, OneHandler
<1>2. Len(handling) # 0
  BY <1>1, EmptySeq
<1>3. 1 \in DOMAIN handling
  BY <1>1, <1>2
<1>4. handling = <<handling[1]>> /\ handling[1] \in Message
  BY <1>1, <1>3, SingleHandler
<1> QED
  BY <1>3, <1>4, ElementsOfNothing DEF Handled

\* A process() starts the handler of a message and nothing else: while no
\* handler runs no container does, and the stage follows the handler.
LEMMA ProcessStarts ==
  ASSUME QueueInv, NEW q \in Seq(Message), Process(q)
  PROVE  \/ handling' = handling
         \/ handling = <<>> /\ handling' # <<>>
<1>1. CASE processing \/ q = <<>>
  BY <1>1 DEF Process
<1>2. CASE ~processing /\ q # <<>>
  <2>1. handling = <<>>
    BY <1>2 DEF QueueInv, OneHandler
  <2>2. CASE Head(q) \in Falsy
    BY <1>2, <2>2 DEF Process
  <2>3. CASE Head(q) \notin Falsy
    <3>1. handling' = <<Head(q)>>
      BY <1>2, <2>1, <2>3 DEF Process
    <3> QED
      BY <2>1, <3>1
  <2> QED
    BY <2>2, <2>3
<1> QED
  BY <1>1, <1>2

\* What the queue alone keeps of RunsInv, whatever step it takes.
LEMMA QueueKeeps ==
  ASSUME RunsInv, [QueueNext]_queueVars
  PROVE  QueueTypeOK' /\ OneHandler' /\ LineOnce' /\ FinishedOnce'
BY QueueInvStep, LineOnceStep, FinishedOnceStep DEF RunsInv, RunsTypeOK, QueueInv

\* What the runs say of the queue they wait in.
LEMMA InvOfQueue == RunsInv => QueueInv /\ QueueTypeOK /\ LineOnce /\ FinishedOnce
BY DEF RunsInv, RunsTypeOK, QueueInv

\* The stage and the containers after a process().
LEMMA StageFollows ==
  ASSUME RunsInv, stage' = StageOf(handling, handling'),
         handling' = handling \/ (handling = <<>> /\ handling' # <<>>),
         UNCHANGED <<alive, crashes>>
  PROVE  /\ stage' \in {"idle", "starting", "working", "processed", "failed", "stuck", "thrown"}
         /\ (stage' = "idle") <=> (handling' = <<>>)
         /\ stage' = "processed" => stage = "processed" /\ handling' = handling
         /\ OneContainer'
<1>0. /\ stage \in {"idle", "starting", "working", "processed", "failed", "stuck", "thrown"}
      /\ stage = "idle" <=> handling = <<>>
      /\ OneContainer
  BY DEF RunsInv, RunsTypeOK
<1>1. CASE handling' = handling
  <2>1. CASE handling = <<>>
    BY <1>0, <1>1, <2>1 DEF StageOf, OneContainer
  <2>2. CASE handling # <<>>
    <3>1. stage' = stage
      BY <1>1, <2>2 DEF StageOf
    <3> QED
      BY <1>0, <1>1, <3>1 DEF OneContainer
  <2> QED
    BY <2>1, <2>2
<1>2. CASE handling = <<>> /\ handling' # <<>>
  <2>1. stage' \in {"thrown", "starting"}
    BY <1>2 DEF StageOf
  <2>2. crashes = 0 => alive = {}
    BY <1>0, <1>2, ElementsOfNothing DEF OneContainer
  <2>3. OneContainer'
    BY <1>0, <2>2 DEF OneContainer
  <2> QED
    BY <1>2, <2>1, <2>3
<1> QED
  BY <1>1, <1>2

\* A run is asked for.
LEMMA StartWorkflowKeeps ==
  ASSUME RunsInv, NEW m \in Message, StartWorkflow(m)
  PROVE  RunsInv'
<1> DEFINE q == Append(pending, m)
<1>1. /\ Enqueue(m) /\ saved' = q /\ stage' = StageOf(handling, handling')
      /\ answer' = [answer EXCEPT ![m] = IF AnsweredLater(m) THEN "pending" ELSE "none"]
      /\ UNCHANGED <<alive, restored, crashes, ran, faultless>>
  BY DEF StartWorkflow
<1>2. QueueTypeOK' /\ OneHandler' /\ LineOnce' /\ FinishedOnce'
  BY <1>1, QueueKeeps DEF QueueNext
<1>3. m \in unseen /\ unseen' = unseen \ {m} /\ finished' = finished
  BY <1>1 DEF Enqueue
<1>4. m \notin ToSet(pending) /\ m \notin ToSet(handling) /\ m \notin ToSet(finished) /\ m \notin ran
  BY <1>3 DEF RunsInv, LineOnce, FinishedOnce, AnswersStand
<1>5. pending \in Seq(Message) /\ IsInjective(pending) /\ q \in Seq(Message)
  BY DEF RunsInv, RunsTypeOK, QueueTypeOK, LineOnce
<1>6. ToSet(q) = ToSet(pending) \union {m} /\ IsInjective(q)
  BY <1>4, <1>5, ElementsOfAppend
<1>7. handling' = handling \/ (handling = <<>> /\ handling' # <<>>)
  <2>1. CASE SaveThrows
    BY <1>1, <2>1 DEF Enqueue
  <2>2. CASE ~SaveThrows
    <3>1. Process(q)
      BY <1>1, <2>2 DEF Enqueue
    <3> QED
      BY <1>5, <3>1, ProcessStarts, InvOfQueue
  <2> QED
    BY <2>1, <2>2
<1> HIDE DEF q
<1>8. /\ stage' \in {"idle", "starting", "working", "processed", "failed", "stuck", "thrown"}
      /\ (stage' = "idle") <=> (handling' = <<>>)
      /\ stage' = "processed" => stage = "processed" /\ handling' = handling
      /\ OneContainer'
  BY <1>1, <1>7, StageFollows
<1>9. SavedOnce'
  BY <1>1, <1>3, <1>4, <1>6 DEF SavedOnce, RunsInv, LineOnce, FinishedOnce
<1>t. /\ answer \in [Message -> {"none", "pending", "resolved", "rejected", "lost"}]
      /\ WaitersAreAnswered /\ AnswersStand
  BY DEF RunsInv, RunsTypeOK
<1>10. /\ answer' \in [Message -> {"none", "pending", "resolved", "rejected", "lost"}]
       /\ \A x \in Message \ {m} : answer'[x] = answer[x]
       /\ answer'[m] = "pending" => AnsweredLater(m)
       /\ answer'[m] \in {"none", "pending"}
  BY <1>1, <1>t
<1>11. RunsTypeOK'
  BY <1>1, <1>2, <1>5, <1>8, <1>10 DEF RunsTypeOK, RunsInv
<1>12. WaitersAreAnswered'
  BY <1>1, <1>3, <1>4, <1>10, <1>t DEF WaitersAreAnswered
<1>13. AnswersStand'
  <2>1. stage' = "processed" => answer'[handling'[1]] # "pending"
    <3>1. SUFFICES ASSUME stage' = "processed" PROVE answer'[handling'[1]] # "pending"
      OBVIOUS
    <3>2. stage = "processed" /\ handling' = handling /\ handling # <<>>
      BY <1>8, <3>1
    <3>3. Handled \in ToSet(handling) /\ Handled \in Message
      BY <3>2, OneIsHandled, InvOfQueue
    <3>4. Handled # m /\ answer[Handled] # "pending"
      BY <1>4, <1>t, <3>2, <3>3 DEF AnswersStand
    <3> QED
      BY <1>10, <3>2, <3>3, <3>4 DEF Handled
  <2>2. \A x \in Message : AnsweredLater(x)' = AnsweredLater(x)
    BY <1>1 DEF AnsweredLater
  <2>3. \A x \in Message : answer'[x] = "pending" => AnsweredLater(x) /\ x \notin ran
    BY <1>4, <1>10, <1>t DEF AnswersStand
  <2> QED
    BY <1>1, <1>3, <1>10, <1>t, <2>1, <2>2, <2>3 DEF AnswersStand, Handled
<1> QED
  BY <1>2, <1>8, <1>9, <1>11, <1>12, <1>13 DEF RunsInv

\* The queue hands out the next run.
LEMMA NextWorkflowKeeps == RunsInv /\ NextWorkflow => RunsInv'
<1> SUFFICES ASSUME RunsInv, NextWorkflow PROVE RunsInv'
  OBVIOUS
<1>1. /\ Tick /\ stage' = StageOf(handling, handling')
      /\ UNCHANGED <<alive, answer, saved, restored, crashes, ran, faultless>>
  BY DEF NextWorkflow
<1>2. QueueTypeOK' /\ OneHandler' /\ LineOnce' /\ FinishedOnce'
  BY <1>1, QueueKeeps DEF QueueNext
<1>3. unseen' = unseen /\ finished' = finished /\ Process(pending)
  BY <1>1 DEF Tick
<1>4. handling' = handling \/ (handling = <<>> /\ handling' # <<>>)
  BY <1>3, ProcessStarts, InvOfQueue DEF QueueTypeOK
<1>5. /\ stage' \in {"idle", "starting", "working", "processed", "failed", "stuck", "thrown"}
      /\ (stage' = "idle") <=> (handling' = <<>>)
      /\ stage' = "processed" => stage = "processed" /\ handling' = handling
      /\ OneContainer'
  BY <1>1, <1>4, StageFollows
<1>6. RunsTypeOK' /\ WaitersAreAnswered' /\ SavedOnce'
  BY <1>1, <1>2, <1>3, <1>5 DEF RunsInv, RunsTypeOK, WaitersAreAnswered, SavedOnce
<1>7. AnswersStand'
  <2>1. Handled' = handling'[1] /\ \A x \in Message : AnsweredLater(x)' = AnsweredLater(x)
    BY <1>1 DEF Handled, AnsweredLater
  <2>2. AnswersStand
    BY DEF RunsInv
  <2> QED
    BY <1>1, <1>3, <1>5, <2>1, <2>2 DEF AnswersStand, Handled
<1> QED
  BY <1>2, <1>5, <1>6, <1>7 DEF RunsInv

\* Steps that leave the queue alone.
LEMMA QueueStays ==
  ASSUME RunsInv, UNCHANGED queueVars, UNCHANGED <<saved, restored>>
  PROVE  /\ QueueTypeOK' /\ OneHandler' /\ LineOnce' /\ FinishedOnce' /\ SavedOnce'
         /\ handling' = handling /\ finished' = finished /\ unseen' = unseen
         /\ Handled' = Handled /\ \A x \in Message : AnsweredLater(x)' = AnsweredLater(x)
<1>1. handling' = handling /\ finished' = finished /\ unseen' = unseen
  BY DEF queueVars
<1> QED
  BY <1>1, QueueKeeps DEF RunsInv, SavedOnce, Handled, AnsweredLater

\* The container of a run starts.
LEMMA ContainerStartsKeeps == RunsInv /\ ContainerStarts => RunsInv'
<1> SUFFICES ASSUME RunsInv, ContainerStarts PROVE RunsInv'
  OBVIOUS
<1>1. /\ stage = "starting" /\ stage' \in {"working", "failed"}
      /\ alive' = alive \/ alive' = alive \union {Handled}
      /\ UNCHANGED <<queueVars, answer, saved, restored, crashes, ran, faultless>>
  BY DEF ContainerStarts
<1>2. /\ QueueTypeOK' /\ OneHandler' /\ LineOnce' /\ FinishedOnce' /\ SavedOnce'
      /\ handling' = handling /\ finished' = finished /\ unseen' = unseen
      /\ Handled' = Handled /\ \A x \in Message : AnsweredLater(x)' = AnsweredLater(x)
  BY <1>1, QueueStays
<1>3. handling # <<>> /\ Handled \in Message /\ ToSet(handling) = {Handled}
  <2>1. handling # <<>>
    BY <1>1 DEF RunsInv, RunsTypeOK
  <2> QED
    BY <2>1, OneIsHandled, InvOfQueue
<1>4. RunsTypeOK'
  BY <1>1, <1>2, <1>3 DEF RunsInv, RunsTypeOK
<1>5. OneContainer'
  <2>1. SUFFICES ASSUME crashes = 0 PROVE Cardinality(alive') <= 1 /\ alive' \subseteq {Handled}
    BY <1>1, <1>2, <1>3 DEF OneContainer
  <2>2. alive' \subseteq {Handled}
    BY <1>1, <1>3, <2>1 DEF RunsInv, OneContainer
  <2>3. alive' = {} \/ alive' = {Handled}
    BY <2>2
  <2>4. Cardinality({}) = 0 /\ Cardinality({Handled}) = 1
    BY FS_EmptySet, FS_Singleton
  <2>5. Cardinality(alive') \in {0, 1}
    BY <2>3, <2>4
  <2> QED
    BY <2>2, <2>5
<1>6. WaitersAreAnswered'
  BY <1>1, <1>2 DEF RunsInv, WaitersAreAnswered
<1>7. AnswersStand'
  BY <1>1, <1>2 DEF RunsInv, AnswersStand
<1> QED
  BY <1>2, <1>4, <1>5, <1>6, <1>7 DEF RunsInv

\* The workflow of a run ends.
LEMMA WorkflowEndsKeeps == RunsInv /\ WorkflowEnds => RunsInv'
<1> SUFFICES ASSUME RunsInv, WorkflowEnds PROVE RunsInv'
  OBVIOUS
<1>1. stage = "working" /\ UNCHANGED <<queueVars, alive, saved, restored, crashes, faultless>>
  BY DEF WorkflowEnds
<1>2. /\ QueueTypeOK' /\ OneHandler' /\ LineOnce' /\ FinishedOnce' /\ SavedOnce'
      /\ handling' = handling /\ finished' = finished /\ unseen' = unseen
      /\ Handled' = Handled /\ \A x \in Message : AnsweredLater(x)' = AnsweredLater(x)
  BY <1>1, QueueStays
<1>3. handling # <<>> /\ Handled \in Message /\ ToSet(handling) = {Handled}
  <2>1. handling # <<>>
    BY <1>1 DEF RunsInv, RunsTypeOK
  <2> QED
    BY <2>1, OneIsHandled, InvOfQueue
<1>4. Handled \notin unseen /\ Handled \notin ToSet(finished)
  BY <1>3 DEF RunsInv, LineOnce, FinishedOnce
<1>t. /\ answer \in [Message -> {"none", "pending", "resolved", "rejected", "lost"}]
      /\ ran \subseteq Message /\ WaitersAreAnswered /\ AnswersStand
  BY DEF RunsInv, RunsTypeOK
<1>5. OneContainer'
  BY <1>1, <1>2 DEF RunsInv, OneContainer
<1>6. CASE stage' = "failed" /\ UNCHANGED <<ran, answer>>
  <2>1. RunsTypeOK'
    BY <1>1, <1>2, <1>3, <1>6 DEF RunsInv, RunsTypeOK
  <2>2. WaitersAreAnswered' /\ AnswersStand'
    BY <1>1, <1>2, <1>6, <1>t DEF WaitersAreAnswered, AnswersStand
  <2> QED
    BY <1>2, <1>5, <2>1, <2>2 DEF RunsInv
<1>7. CASE /\ ran' = ran \union {Handled}
           /\ stage' = IF Broken(Handled) THEN "failed" ELSE "processed"
           /\ answer' = IF AnsweredLater(Handled) THEN [answer EXCEPT ![Handled] = "resolved"] ELSE answer
  <2>1. /\ answer' \in [Message -> {"none", "pending", "resolved", "rejected", "lost"}]
        /\ \A x \in Message \ {Handled} : answer'[x] = answer[x]
        /\ answer'[Handled] # "pending" /\ answer'[Handled] # "rejected"
    <3>1. CASE AnsweredLater(Handled)
      BY <1>3, <1>7, <1>t, <3>1
    <3>2. CASE ~AnsweredLater(Handled)
      BY <1>3, <1>4, <1>7, <1>t, <3>2 DEF AnswersStand
    <3> QED
      BY <3>1, <3>2
  <2>2. stage' \in {"failed", "processed"}
    BY <1>7
  <2>3. RunsTypeOK'
    BY <1>1, <1>2, <1>3, <1>7, <1>t, <2>1, <2>2 DEF RunsInv, RunsTypeOK
  <2>4. WaitersAreAnswered'
    BY <1>2, <1>3, <1>7, <1>t, <2>1 DEF WaitersAreAnswered
  <2>5. AnswersStand'
    BY <1>2, <1>3, <1>4, <1>7, <1>t, <2>1 DEF AnswersStand
  <2> QED
    BY <1>2, <1>5, <2>3, <2>4, <2>5 DEF RunsInv
<1> QED
  BY <1>6, <1>7 DEF WorkflowEnds

\* The container of a run stops.
LEMMA ContainerStopsKeeps == RunsInv /\ ContainerStops => RunsInv'
<1> SUFFICES ASSUME RunsInv, ContainerStops PROVE RunsInv'
  OBVIOUS
<1>1. /\ stage \in {"processed", "failed"} /\ HandlerAccepts(1) /\ saved' = pending
      /\ alive' = alive \ {Handled} /\ stage' = "idle"
      /\ answer' = IF stage = "failed" /\ answer[Handled] = "pending"
                   THEN [answer EXCEPT ![Handled] = "rejected"] ELSE answer
      /\ UNCHANGED <<restored, crashes, ran, faultless>>
  BY DEF ContainerStops
<1>2. Handled \in Message /\ 1 \in DOMAIN handling /\ handling = <<Handled>>
      /\ ToSet(handling) = {Handled}
  <2>1. handling # <<>>
    BY <1>1 DEF RunsInv, RunsTypeOK
  <2> QED
    BY <2>1, OneIsHandled, InvOfQueue
<1>3. QueueTypeOK' /\ OneHandler' /\ LineOnce' /\ FinishedOnce'
  <2>1. QueueNext
    BY <1>1, <1>2 DEF QueueNext, HandlerNext
  <2> QED
    BY <2>1, QueueKeeps
<1>4. /\ pending' = pending /\ ToSet(handling') = {} /\ unseen' = unseen
      /\ ToSet(finished') = ToSet(finished) \union {Handled} /\ handling' = <<>>
  <2>1. /\ pending' = pending /\ ToSet(handling') = {}
        /\ ToSet(finished') = ToSet(finished) \union {Handled}
    BY <1>1, <1>2, AcceptMoves, InvOfQueue DEF Handled
  <2>2. handling' = RemoveAt(handling, 1) /\ unseen' = unseen
    BY <1>1 DEF HandlerAccepts
  <2>3. RemoveAt(handling, 1) = <<>>
    BY <1>2, SingleHandler, InvOfQueue DEF QueueInv, QueueTypeOK, OneHandler
  <2> QED
    BY <2>1, <2>2, <2>3
<1>5. SavedOnce'
  BY <1>1, <1>3, <1>4 DEF SavedOnce, LineOnce, FinishedOnce
<1>t. /\ answer \in [Message -> {"none", "pending", "resolved", "rejected", "lost"}]
      /\ WaitersAreAnswered /\ AnswersStand /\ pending \in Seq(Message)
  BY DEF RunsInv, RunsTypeOK, QueueTypeOK
<1>6. OneContainer'
  <2>1. SUFFICES ASSUME crashes = 0 PROVE Cardinality(alive') <= 1 /\ alive' \subseteq {}
    BY <1>1, <1>4 DEF OneContainer
  <2>2. alive' = {}
    BY <1>1, <1>2, <2>1 DEF RunsInv, OneContainer
  <2> QED
    BY <2>2, FS_EmptySet
<1>7. /\ answer' \in [Message -> {"none", "pending", "resolved", "rejected", "lost"}]
      /\ \A x \in Message \ {Handled} : answer'[x] = answer[x]
      /\ answer'[Handled] # "pending"
      /\ answer'[Handled] = "rejected" => Handled \notin ran
      /\ answer'[Handled] = "resolved" => Handled \in ran
  <2>1. CASE stage = "failed" /\ answer[Handled] = "pending"
    BY <1>1, <1>2, <1>t, <2>1 DEF AnswersStand
  <2>2. CASE ~(stage = "failed" /\ answer[Handled] = "pending")
    <3>1. answer' = answer /\ answer[Handled] # "pending"
      BY <1>1, <1>2, <1>t, <2>2 DEF AnswersStand
    <3> QED
      BY <1>2, <1>t, <3>1 DEF WaitersAreAnswered
  <2> QED
    BY <2>1, <2>2
<1>8. RunsTypeOK'
  BY <1>1, <1>3, <1>4, <1>7, <1>t DEF RunsInv, RunsTypeOK
<1>9. WaitersAreAnswered'
  BY <1>1, <1>2, <1>4, <1>7, <1>t DEF WaitersAreAnswered
<1>10. AnswersStand'
  <2>1. \A x \in Message : AnsweredLater(x)' = AnsweredLater(x)
    BY <1>1 DEF AnsweredLater
  <2> QED
    BY <1>1, <1>2, <1>4, <1>7, <1>t, <2>1 DEF AnswersStand
<1> QED
  BY <1>3, <1>5, <1>6, <1>8, <1>9, <1>10 DEF RunsInv

\* The container of a run does not stop.
LEMMA StopFailsKeeps == RunsInv /\ StopFails => RunsInv'
<1> SUFFICES ASSUME RunsInv, StopFails PROVE RunsInv'
  OBVIOUS
<1>1. /\ stage \in {"processed", "failed"} /\ stage' = "stuck"
      /\ UNCHANGED <<queueVars, alive, answer, saved, restored, crashes, ran, faultless>>
  BY DEF StopFails
<1>2. /\ QueueTypeOK' /\ OneHandler' /\ LineOnce' /\ FinishedOnce' /\ SavedOnce'
      /\ handling' = handling /\ finished' = finished /\ unseen' = unseen
      /\ Handled' = Handled /\ \A x \in Message : AnsweredLater(x)' = AnsweredLater(x)
  BY <1>1, QueueStays
<1>3. RunsTypeOK'
  BY <1>1, <1>2 DEF RunsInv, RunsTypeOK
<1>4. OneContainer' /\ WaitersAreAnswered'
  BY <1>1, <1>2 DEF RunsInv, OneContainer, WaitersAreAnswered
<1>5. AnswersStand'
  BY <1>1, <1>2 DEF RunsInv, AnswersStand
<1> QED
  BY <1>2, <1>3, <1>4, <1>5 DEF RunsInv

\* The process restarts.
LEMMA RestartKeeps == RunsInv /\ Restart => RunsInv'
<1> SUFFICES ASSUME RunsInv, Restart PROVE RunsInv'
  OBVIOUS
<1>1. /\ crashes < MaxCrashes /\ crashes' = crashes + 1
      /\ pending' = saved /\ processing' = FALSE /\ handling' = <<>> /\ ticks' = 0
      /\ restored' = ToSet(saved) /\ stage' = "idle"
      /\ answer' = [m \in Message |-> IF answer[m] = "pending" THEN "lost" ELSE answer[m]]
      /\ UNCHANGED <<unseen, finished, alive, saved, ran, faultless>>
  BY DEF Restart
<1>2. saved \in Seq(Message) /\ ToSet(saved) \subseteq Message /\ crashes \in 0..MaxCrashes
  BY DEF RunsInv, RunsTypeOK, SavedOnce
<1>3. ToSet(handling') = {} /\ <<>> \in Seq(Message) /\ Len(<<>>) = 0
  BY <1>1, ElementsOfNothing
<1>4. QueueTypeOK' /\ OneHandler'
  <2>1. processing' \in BOOLEAN
    BY <1>1
  <2> QED
    BY <1>1, <1>2, <1>3, <2>1 DEF RunsInv, RunsTypeOK, QueueTypeOK, OneHandler
<1>5. LineOnce' /\ FinishedOnce' /\ SavedOnce'
  BY <1>1, <1>3 DEF RunsInv, SavedOnce, LineOnce, FinishedOnce
<1>6. /\ answer' \in [Message -> {"none", "pending", "resolved", "rejected", "lost"}]
      /\ \A x \in Message : /\ answer'[x] # "pending"
                            /\ answer'[x] \in {"resolved", "rejected"} => answer'[x] = answer[x]
  <2>1. answer \in [Message -> {"none", "pending", "resolved", "rejected", "lost"}]
    BY DEF RunsInv, RunsTypeOK
  <2> QED
    BY <1>1, <2>1
<1>7. crashes' # 0 /\ crashes' \in 0..MaxCrashes
  BY <1>1, <1>2, RunsAssumption
<1>8. RunsTypeOK'
  BY <1>1, <1>2, <1>4, <1>6, <1>7 DEF RunsInv, RunsTypeOK
<1>9. OneContainer' /\ WaitersAreAnswered' /\ AnswersStand'
  BY <1>1, <1>6, <1>7 DEF RunsInv, OneContainer, WaitersAreAnswered, AnswersStand
<1> QED
  BY <1>4, <1>5, <1>8, <1>9 DEF RunsInv

\* Every step of the runs keeps the invariant.
LEMMA RunsStep == RunsInv /\ [RunsNext]_runVars => RunsInv'
<1> SUFFICES ASSUME RunsInv, [RunsNext]_runVars PROVE RunsInv'
  OBVIOUS
<1>1. CASE UNCHANGED runVars
  <2>1. /\ UNCHANGED queueVars /\ UNCHANGED <<saved, restored>>
        /\ UNCHANGED <<stage, alive, answer, crashes, ran, faultless>>
    BY <1>1 DEF runVars
  <2>2. /\ QueueTypeOK' /\ OneHandler' /\ LineOnce' /\ FinishedOnce' /\ SavedOnce'
        /\ handling' = handling /\ finished' = finished /\ unseen' = unseen
        /\ Handled' = Handled /\ \A x \in Message : AnsweredLater(x)' = AnsweredLater(x)
    BY <2>1, QueueStays
  <2>3. RunsTypeOK'
    BY <2>1, <2>2 DEF RunsInv, RunsTypeOK
  <2>4. OneContainer' /\ WaitersAreAnswered'
    BY <2>1, <2>2 DEF RunsInv, OneContainer, WaitersAreAnswered
  <2>5. AnswersStand'
    BY <2>1, <2>2 DEF RunsInv, AnswersStand
  <2> QED
    BY <2>2, <2>3, <2>4, <2>5 DEF RunsInv
<1> QED
  BY <1>1, StartWorkflowKeeps, NextWorkflowKeeps, ContainerStartsKeeps, WorkflowEndsKeeps,
     ContainerStopsKeeps, StopFailsKeeps, RestartKeeps DEF RunsNext

\* The invariant holds before the first run.
LEMMA RunsInitInv == ASSUME RunsInit PROVE RunsInv
<1>1. /\ QueueInit /\ stage = "idle" /\ alive = {} /\ answer = [m \in Message |-> "none"]
      /\ saved = Initial /\ restored = {} /\ crashes = 0 /\ ran = {} /\ faultless \in BOOLEAN
  BY DEF RunsInit
<1>2. LineOnce /\ FinishedOnce
  BY <1>1, OnceInitially
<1>3. QueueInv
  BY <1>1, QueueInitInv
<1>4. /\ pending = Initial /\ handling = <<>> /\ finished = <<>> /\ Initial \in Seq(Message)
      /\ ToSet(<<>>) = {}
  BY <1>1, ElementsOfNothing, QueueAssumption DEF QueueInit
<1>5. SavedOnce
  BY <1>1, <1>2, <1>4 DEF SavedOnce, LineOnce
<1>6. RunsTypeOK
  BY <1>1, <1>3, <1>4, RunsAssumption DEF RunsTypeOK, QueueInv
<1>7. OneContainer
  BY <1>1, FS_EmptySet DEF OneContainer
<1>8. WaitersAreAnswered /\ AnswersStand
  BY <1>1, <1>4 DEF WaitersAreAnswered, AnswersStand
<1> QED
  BY <1>2, <1>3, <1>5, <1>6, <1>7, <1>8 DEF RunsInv, QueueInv

\* One workflow runs at a time, and whoever waits for one learns how it ended,
\* for any messages of any kind and any number of crashes ($init.ts:15-40).
THEOREM RunsAreAnswered == RunsSpec => []RunsAnswer
<1>1. RunsInit => RunsInv
  BY RunsInitInv
<1>2. RunsInv => RunsAnswer
  BY DEF RunsInv, RunsAnswer
<1> QED
  BY <1>1, <1>2, RunsStep, PTL DEF RunsSpec
=============================================================================
