------------------------------ MODULE Workflows ------------------------------
(***************************************************************************)
(* The workflows that automate knows, and the schedules that trigger them  *)
(* (packages/automate/src/commands: load.ts, unload.ts,                    *)
(* enable-schedule.ts, disable-schedule.ts).  A workflow has at most one   *)
(* cron trigger; the other triggers are commands of other containers.      *)
(*                                                                         *)
(* A call of load() makes one JobCommand: the call stands for it.          *)
(* Schedule.removeJob() (packages/cron/src/state.ts) splices the job it    *)
(* found out of an ObservableArray, whose splice(index, 1) comes down to   *)
(* pop(1): it is the last job that leaves, whichever was found.            *)
(***************************************************************************)
EXTENDS Naturals, Sequences, FiniteSets

CONSTANTS
  Names,        \* the names under which workflows are loaded
  Files,        \* the workflows that can be read
  Crons,        \* the cron expressions, and the schedules made for them
  On,           \* the cron expression of a workflow, or Nowhere
  Nowhere,      \* undefined
  MaxListeners, \* Event.maxListeners, 0 for no limit: a schedule has a listener for each job
  MaxRequests   \* bound: the calls of load and unload

ASSUME WorkflowAssumption ==
  /\ On \in [Files -> Crons \union {Nowhere}]
  /\ MaxRequests \in Nat /\ MaxListeners \in Nat
  /\ Nowhere \notin Crons \union Files \union Nat

VARIABLES
  workflows,  \* this.workflows: the workflow of each name
  command,    \* the command 'process-' + name of the container
  jobsOn,     \* the jobs of each schedule, in the order they were added
  startedOn,  \* whether each schedule is started
  request,    \* where each call stands
  stopped,    \* history: the schedules that disable-schedule, or unload, stopped last
  together,   \* history: the names for which two calls were in progress at once
  misplaced   \* history: the jobs that an unload() took for another's, those that it
              \* left in their place, and those for which a schedule had no room

workflowVars == <<workflows, command, jobsOn, startedOn, request, stopped, together, misplaced>>

Requests == 1..MaxRequests
NoRequest == [at |-> "unborn", name |-> Nowhere, file |-> Nowhere]
InProgress(r) == request[r].at \in {"reading", "unloading", "unloaded"}
Comes(r, at, n, f) ==
  /\ \A q \in Requests : request[q].at = "unborn" <=> q >= r
  /\ request' = [request EXCEPT ![r] = [at |-> at, name |-> n, file |-> f]]
  /\ together' = together \union {m \in {n} : \E q \in Requests : InProgress(q) /\ request[q].name = m}
Goes(r, at) == request' = [request EXCEPT ![r].at = at]

JobsOf(c) == {jobsOn[c][i] : i \in DOMAIN jobsOn[c]}
HasRoom(c) == MaxListeners = 0 \/ Len(jobsOn[c]) <= MaxListeners
LastOf(jobs) == jobs[Len(jobs)]
Popped(jobs) == SubSeq(jobs, 1, Len(jobs) - 1)

------------------------------------------------------------------------------
WorkflowsInit ==
  /\ workflows = [n \in Names |-> Nowhere]
  /\ command = [n \in Names |-> Nowhere]
  /\ jobsOn = [c \in Crons |-> <<>>]
  /\ startedOn = [c \in Crons |-> FALSE]
  /\ request = [r \in Requests |-> NoRequest]
  /\ stopped = Crons
  /\ together = {}
  /\ misplaced = {}

\* load(n, f) awaits the content of the file ...
Load(r, n, f) ==
  /\ Comes(r, "reading", n, f)
  /\ UNCHANGED <<workflows, command, jobsOn, startedOn, stopped, misplaced>>

LoadFails(r) ==
  /\ request[r].at = "reading"
  /\ Goes(r, "rejected")
  /\ UNCHANGED <<workflows, command, jobsOn, startedOn, stopped, together, misplaced>>

\* Mutant of Register: the schedule is started before the job is added.
RegisterStartsFirst(r) ==
  LET n == request[r].name
      c == On[request[r].file]
      taken == command[n] # Nowhere
      kept == taken \/ c = Nowhere \/ (c # Nowhere /\ startedOn[c])
  IN /\ workflows' = [workflows EXCEPT ![n] = request[r].file]
     /\ command' = IF taken THEN command ELSE [command EXCEPT ![n] = r]
     /\ IF kept THEN UNCHANGED <<jobsOn, startedOn, stopped>>
        ELSE /\ jobsOn' = [jobsOn EXCEPT ![c] = Append(@, r)]
             /\ startedOn' = [startedOn EXCEPT ![c] = TRUE]
             /\ stopped' = stopped \ {c}
     /\ misplaced' = misplaced
     /\ Goes(r, IF kept THEN "rejected" ELSE "resolved")

\* The end of load(): the workflow takes its name, then its command takes its
\* name in the container, which throws when there is one; then the job is added
\* to the schedule, which throws when it has too many listeners; then start()
\* refuses to start the schedule again.
Register(r) ==
  LET n == request[r].name
      f == request[r].file
      c == On[f]
      taken == command[n] # Nowhere
      full == c # Nowhere /\ ~HasRoom(c)
      refused == c # Nowhere /\ startedOn[c]
  IN /\ workflows' = [workflows EXCEPT ![n] = f]
     /\ command' = IF taken THEN command ELSE [command EXCEPT ![n] = r]
     /\ IF taken \/ c = Nowhere \/ full THEN UNCHANGED <<jobsOn, startedOn, stopped>>
        ELSE /\ jobsOn' = [jobsOn EXCEPT ![c] = Append(@, r)]
             /\ startedOn' = [startedOn EXCEPT ![c] = TRUE]
             /\ stopped' = stopped \ {c}
     /\ misplaced' = IF full THEN misplaced \union {r} ELSE misplaced
     /\ Goes(r, IF taken \/ full \/ refused THEN "rejected" ELSE "resolved")

\* ... and unloads the workflow that has the name, or goes on at once.
FileRead(r) ==
  /\ request[r].at = "reading"
  /\ IF workflows[request[r].name] # Nowhere
     THEN Goes(r, "unloading") /\ UNCHANGED <<workflows, command, jobsOn, startedOn, stopped, misplaced>>
     ELSE Register(r)
  /\ UNCHANGED together

\* unload(n).
Unload(r, n) ==
  /\ Comes(r, "unloading", n, Nowhere)
  /\ UNCHANGED <<workflows, command, jobsOn, startedOn, stopped, misplaced>>

\* unload() runs without a pause: it throws for a name that is unknown, forgets
\* the workflow and its command, and has the schedule remove the command, which
\* throws when it is not there and takes the last job out when it is.  A schedule
\* without jobs is stopped.
Unloads(r) ==
  /\ request[r].at = "unloading"
  /\ LET n == request[r].name
         w == workflows[n]
         c == IF w = Nowhere THEN Nowhere ELSE On[w]
         missing == c # Nowhere /\ command[n] \notin JobsOf(c)
     IN /\ workflows' = [workflows EXCEPT ![n] = Nowhere]
        /\ command' = IF w = Nowhere THEN command ELSE [command EXCEPT ![n] = Nowhere]
        /\ IF c = Nowhere \/ missing THEN UNCHANGED <<jobsOn, startedOn, stopped, misplaced>>
           ELSE /\ jobsOn' = [jobsOn EXCEPT ![c] = Popped(@)]
                /\ startedOn' = [startedOn EXCEPT ![c] = @ /\ jobsOn'[c] # <<>>]
                /\ stopped' = IF jobsOn'[c] = <<>> THEN stopped \union {c} ELSE stopped
                /\ misplaced' = IF LastOf(jobsOn[c]) = command[n] THEN misplaced
                                ELSE misplaced \union {command[n], LastOf(jobsOn[c])}
        /\ Goes(r, IF w = Nowhere \/ missing THEN "rejected"
                   ELSE IF request[r].file = Nowhere THEN "resolved" ELSE "unloaded")
  /\ UNCHANGED together

\* load() goes on after the unload() it dispatched.
UnloadedFirst(r) ==
  /\ request[r].at = "unloaded"
  /\ Register(r)
  /\ UNCHANGED together

\* enable-schedule and disable-schedule: start() and stop() of a schedule.
\* start() throws for a schedule that is started, and so does a name for which
\* no schedule was made.
EnableSchedule(c) ==
  /\ ~startedOn[c]
  /\ \E r \in Requests : request[r].at \in {"resolved", "rejected"} /\ request[r].file # Nowhere /\ On[request[r].file] = c
  /\ startedOn' = [startedOn EXCEPT ![c] = TRUE]
  /\ stopped' = stopped \ {c}
  /\ UNCHANGED <<workflows, command, jobsOn, request, together, misplaced>>

DisableSchedule(c) ==
  /\ startedOn[c]
  /\ startedOn' = [startedOn EXCEPT ![c] = FALSE]
  /\ stopped' = stopped \union {c}
  /\ UNCHANGED <<workflows, command, jobsOn, request, together, misplaced>>

WorkflowsNext ==
  \/ \E r \in Requests :
       \/ \E n \in Names : Unload(r, n) \/ \E f \in Files : Load(r, n, f)
       \/ LoadFails(r) \/ FileRead(r) \/ Unloads(r) \/ UnloadedFirst(r)
  \/ \E c \in Crons : EnableSchedule(c) \/ DisableSchedule(c)

WorkflowsSpec == WorkflowsInit /\ [][WorkflowsNext]_workflowVars

------------------------------------------------------------------------------
States == {"unborn", "reading", "unloading", "unloaded", "resolved", "rejected"}

WorkflowsTypeOK ==
  /\ workflows \in [Names -> Files \union {Nowhere}]
  /\ command \in [Names -> Requests \union {Nowhere}]
  /\ jobsOn \in [Crons -> Seq(Requests)]
  /\ startedOn \in [Crons -> BOOLEAN]
  /\ request \in [Requests -> [at : States, name : Names \union {Nowhere}, file : Files \union {Nowhere}]]
  /\ stopped \subseteq Crons /\ together \subseteq Names /\ misplaced \subseteq Requests

\* A job that a schedule triggers is the command of a workflow that is loaded,
\* and runs the workflow that is loaded under its name: nothing that was
\* unloaded or replaced runs any more.  Not so for a name that two calls
\* treated at once: load() awaits between asking whether the name is taken,
\* unloading it, and taking it (lines 27 to 40).  Nor for a job that was not the
\* last of its schedule when its workflow was unloaded: it stays.
JobsAreOfLoadedWorkflows ==
  \A c \in Crons : \A r \in JobsOf(c) \ misplaced :
    request[r].name \notin together =>
      /\ command[request[r].name] = r
      /\ workflows[request[r].name] = request[r].file
      /\ On[request[r].file] = c

\* A workflow that is loaded is triggered by its schedule, even when its load()
\* was rejected because another workflow had started the schedule before it
\* (line 55): unloading the one leaves the schedule to the other, unless the other
\* was added last: it is then the one that leaves.  Nor is one that came when the
\* schedule had too many listeners.
LoadedWorkflowsAreScheduled ==
  \A n \in Names \ together :
    workflows[n] # Nowhere /\ On[workflows[n]] # Nowhere /\ command[n] \notin misplaced =>
      /\ command[n] \in JobsOf(On[workflows[n]])
      /\ On[workflows[n]] \notin stopped => startedOn[On[workflows[n]]]

\* A schedule without jobs does not run, unless enable-schedule has started it;
\* one with jobs is not stopped by an unload().
UnloadSparesTheOthers ==
  [][\A r \in Requests, c \in Crons :
       Unloads(r) /\ startedOn[c] /\ ~startedOn'[c] => jobsOn'[c] = <<>>]_workflowVars

\* Workflows, their commands and the jobs of their schedules stay in step, and no
\* unload() stops a schedule that has jobs.
WorkflowsInStep ==
  /\ [](WorkflowsTypeOK /\ JobsAreOfLoadedWorkflows /\ LoadedWorkflowsAreScheduled)
  /\ UnloadSparesTheOthers
==============================================================================
