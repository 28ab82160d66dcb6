---------------------------- MODULE WorkflowRuns -----------------------------
(***************************************************************************)
(* The workflows that automate runs, one at a time, out of a persistent    *)
(* queue (packages/automate/src/commands/$init.ts and start.ts): Queue     *)
(* with the handler that starts a container for a message, has it process  *)
(* the workflow, stops it, and only then calls next(true).                 *)
(*                                                                         *)
(* The file of the queue is what the last save() wrote: how writes overlap *)
(* is the subject of DurableQueue.                                         *)
(***************************************************************************)
EXTENDS Queue, FiniteSets

CONSTANTS
  Kind,        \* what each message is: see Kinds
  MaxCrashes   \* bound: crashes

\* start() with the name of no workflow; start(), without and with wait; the
\* trigger of a schedule.
Kinds == {"unknown", "plain", "wait", "cron"}

ASSUME RunsAssumption == Kind \in [Message -> Kinds] /\ MaxCrashes \in Nat

VARIABLES
  stage,     \* where the handler of the message being handled awaits
  alive,     \* the messages whose container runs
  answer,    \* the field `complete` of each message
  saved,     \* the file of the queue
  restored,  \* the messages that came from the file
  crashes,   \* crashes so far
  ran,       \* history: the messages whose workflow was processed without error
  faultless  \* whether this behaviour has no crash, no failing stop, no unknown workflow

runVars == <<queueVars, stage, alive, answer, saved, restored, crashes, ran, faultless>>

Handled == handling[1]
AnsweredLater(m) == Kind[m] \in {"wait", "cron"} /\ m \notin restored

\* JSON keeps the `complete` of a scheduled message, an enumerable field, as an
\* object without methods; that of start() is not enumerable.
Broken(m) == Kind[m] = "cron" /\ m \in restored

\* The part of the handler that runs inside process(): a message without
\* workflow makes it throw, and the flag of the queue stays set.
StageOf(before, after) ==
  IF after = <<>> THEN "idle"
  ELSE IF after = before THEN stage
  ELSE IF Kind[after[1]] = "unknown" THEN "thrown" ELSE "starting"

------------------------------------------------------------------------------
RunsInit ==
  /\ QueueInit
  /\ stage = "idle"
  /\ alive = {}
  /\ answer = [m \in Message |-> "none"]
  /\ saved = Initial
  /\ restored = {}
  /\ crashes = 0
  /\ ran = {}
  /\ faultless \in BOOLEAN

\* start(), or the handler of the command that load() gives to a schedule.
StartWorkflow(m) ==
  /\ faultless => Kind[m] # "unknown"
  /\ Enqueue(m)
  /\ saved' = Append(pending, m)
  /\ stage' = StageOf(handling, handling')
  /\ answer' = [answer EXCEPT ![m] = IF AnsweredLater(m) THEN "pending" ELSE "none"]
  /\ UNCHANGED <<alive, restored, crashes, ran, faultless>>

NextWorkflow ==
  /\ Tick
  /\ stage' = StageOf(handling, handling')
  /\ UNCHANGED <<alive, answer, saved, restored, crashes, ran, faultless>>

\* pm starts the container, which may fail.
ContainerStarts ==
  /\ stage = "starting"
  /\ \/ stage' = "working" /\ alive' = alive \union {Handled}
     \/ stage' = "failed" /\ UNCHANGED alive
  /\ UNCHANGED <<queueVars, answer, saved, restored, crashes, ran, faultless>>

\* The container processes the workflow; complete.resolve() comes first, and
\* throws on a `complete` that came from the file.
WorkflowEnds ==
  /\ stage = "working"
  /\ \/ /\ ran' = ran \union {Handled}
        /\ stage' = IF Broken(Handled) THEN "failed" ELSE "processed"
        /\ answer' = IF AnsweredLater(Handled) THEN [answer EXCEPT ![Handled] = "resolved"] ELSE answer
     \/ stage' = "failed" /\ UNCHANGED <<ran, answer>>
  /\ UNCHANGED <<queueVars, alive, saved, restored, crashes, faultless>>

\* Mutant of ContainerStops: next() is called for the workflows that did not fail only.
ContainerStopsAfterSuccess ==
  /\ stage = "processed"
  /\ HandlerAccepts(1)
  /\ saved' = pending
  /\ alive' = alive \ {Handled}
  /\ stage' = "idle"
  /\ UNCHANGED <<answer, restored, crashes, ran, faultless>>

\* Mutant of ContainerStops: the failure is logged and the waiting caller is forgotten.
ContainerStopsSilently ==
  /\ stage \in {"processed", "failed"}
  /\ HandlerAccepts(1)
  /\ saved' = pending
  /\ alive' = alive \ {Handled}
  /\ stage' = "idle"
  /\ UNCHANGED <<answer, restored, crashes, ran, faultless>>

\* pm stops the container, whatever became of the workflow; next(true); then
\* the caller that waits learns of a failure.
ContainerStops ==
  /\ stage \in {"processed", "failed"}
  /\ HandlerAccepts(1)
  /\ saved' = pending
  /\ alive' = alive \ {Handled}
  /\ answer' = IF stage = "failed" /\ answer[Handled] = "pending"
               THEN [answer EXCEPT ![Handled] = "rejected"] ELSE answer
  /\ stage' = "idle"
  /\ UNCHANGED <<restored, crashes, ran, faultless>>

\* pm does not stop the container: next() is never called.
StopFails ==
  /\ ~faultless
  /\ stage \in {"processed", "failed"}
  /\ stage' = "stuck"
  /\ UNCHANGED <<queueVars, alive, answer, saved, restored, crashes, ran, faultless>>

\* The process of automate ends, and a new one reads the file.  The containers
\* belong to pm and stay.  Nothing calls process().
Restart ==
  /\ ~faultless /\ crashes < MaxCrashes
  /\ crashes' = crashes + 1
  /\ pending' = saved
  /\ processing' = FALSE /\ handling' = <<>> /\ ticks' = 0
  /\ restored' = ToSet(saved)
  /\ answer' = [m \in Message |-> IF answer[m] = "pending" THEN "lost" ELSE answer[m]]
  /\ stage' = "idle"
  /\ UNCHANGED <<unseen, finished, alive, saved, ran, faultless>>

RunsNext ==
  \/ \E m \in Message : StartWorkflow(m)
  \/ NextWorkflow
  \/ ContainerStarts \/ WorkflowEnds \/ ContainerStops \/ StopFails
  \/ Restart

\* pm and the containers answer, and nextTick runs what it was given.
RunsFairness ==
  /\ WF_runVars(NextWorkflow)
  /\ WF_runVars(ContainerStarts \/ WorkflowEnds \/ ContainerStops)

RunsSpec == RunsInit /\ [][RunsNext]_runVars /\ RunsFairness

------------------------------------------------------------------------------
RunsTypeOK ==
  /\ QueueTypeOK
  /\ stage \in {"idle", "starting", "working", "processed", "failed", "stuck", "thrown"}
  /\ alive \subseteq Message /\ restored \subseteq Message /\ ran \subseteq Message
  /\ answer \in [Message -> {"none", "pending", "resolved", "rejected", "lost"}]
  /\ saved \in Seq(Message)
  /\ crashes \in 0..MaxCrashes /\ faultless \in BOOLEAN
  /\ stage = "idle" <=> handling = <<>>

\* Two workflows never run together, and a container runs only for the message
\* being handled: next(true) waits for the container to be stopped, so two
\* messages of one workflow, whose containers have the same name, do not meet
\* ($init.ts:23).  Not so after a restart, which leaves the container of the
\* former process running and the message in the file.
OneContainer ==
  crashes = 0 => /\ Cardinality(alive) <= 1
                 /\ alive \subseteq ToSet(handling)

\* The caller that waits for a workflow gets an answer, and the right one: by
\* the time its message is finished its Deferred is resolved if the workflow
\* ran to its end and rejected if it did not ($init.ts:18 to 33), unless the
\* process that holds the Deferred has ended.
WaitersAreAnswered ==
  \A m \in Message :
    /\ answer[m] = "resolved" => m \in ran
    /\ answer[m] = "rejected" => m \notin ran
    /\ m \in ToSet(finished) => answer[m] # "pending"

\* Every workflow that is started is finished, by a queue that is never called
\* again by anybody else, provided that pm stops containers, that only
\* workflows that exist are started, and that the process does not crash.
EveryWorkflowFinishes ==
  \A m \in Message : faultless /\ m \notin unseen ~> m \in ToSet(finished)

\* One workflow runs at a time, and whoever waits for it gets the right answer.
RunsAnswer == RunsTypeOK /\ OneContainer /\ WaitersAreAnswered
==============================================================================
