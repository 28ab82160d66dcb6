-------------------------------- MODULE Docker -------------------------------
(***************************************************************************)
(* The runtime of pm that runs a program in a docker container             *)
(* (packages/pm/src/runtimes/docker.ts).  The engine is asked over HTTP: a *)
(* monitor inspects the container every two seconds, and stop() asks for   *)
(* its end.  An answer tells what was true when it was made, and a request *)
(* may fail.                                                               *)
(***************************************************************************)
EXTENDS Naturals, FiniteSets

CONSTANTS StopCalls  \* calls of stop()

ASSUME DockerAssumption == IsFiniteSet(StopCalls)

VARIABLES
  containerUp,  \* of the engine: the container runs
  knownUp,      \* this._running
  monitor,      \* where the monitor stands; "gone" once a request of it failed
  answer,       \* what the engine answered to the monitor
  stopping,     \* where each stop() stands
  exitsEmitted  \* how often the runtime emitted exit

dockerVars == <<containerUp, knownUp, monitor, answer, stopping, exitsEmitted>>

DockerInit ==
  /\ containerUp \in BOOLEAN
  /\ knownUp = TRUE
  /\ monitor = "asking"
  /\ answer = FALSE
  /\ stopping = [c \in StopCalls |-> "not called"]
  /\ exitsEmitted = 0

------------------------------------------------------------------------------
ContainerEnds ==
  /\ containerUp
  /\ containerUp' = FALSE
  /\ UNCHANGED <<knownUp, monitor, answer, stopping, exitsEmitted>>

MonitorAsks ==
  /\ monitor = "waiting"
  /\ monitor' = "asking"
  /\ UNCHANGED <<containerUp, knownUp, answer, stopping, exitsEmitted>>

EngineAnswers ==
  /\ monitor = "asking"
  /\ monitor' = "answered"
  /\ answer' = containerUp
  /\ UNCHANGED <<containerUp, knownUp, stopping, exitsEmitted>>

\* Mutant of MonitorHears: every answer is an event.
MonitorHearsAlways ==
  /\ monitor = "answered"
  /\ monitor' = "waiting"
  /\ answer' = FALSE
  /\ knownUp' = answer
  /\ exitsEmitted' = IF ~answer /\ exitsEmitted < 4 THEN exitsEmitted + 1 ELSE exitsEmitted
  /\ UNCHANGED <<containerUp, stopping>>

\* Mutant of MonitorHears: the loop is not continued.
MonitorHearsOnce ==
  /\ monitor = "answered"
  /\ monitor' = "done"
  /\ answer' = FALSE
  /\ knownUp' = answer
  /\ exitsEmitted' = IF knownUp /\ ~answer THEN exitsEmitted + 1 ELSE exitsEmitted
  /\ UNCHANGED <<containerUp, stopping>>

\* The answer is compared with what is known by now; a change to not running is
\* an exit.
MonitorHears ==
  /\ monitor = "answered"
  /\ monitor' = "waiting"
  /\ answer' = FALSE
  /\ knownUp' = answer
  /\ exitsEmitted' = IF knownUp /\ ~answer THEN exitsEmitted + 1 ELSE exitsEmitted
  /\ UNCHANGED <<containerUp, stopping>>

\* The request fails: nothing catches it, and nothing arms the timer again.
MonitorFails ==
  /\ monitor = "asking"
  /\ monitor' = "gone"
  /\ UNCHANGED <<containerUp, knownUp, answer, stopping, exitsEmitted>>

StopCalled(c) ==
  /\ stopping[c] = "not called"
  /\ stopping' = [stopping EXCEPT ![c] = "asked"]
  /\ UNCHANGED <<containerUp, knownUp, monitor, answer, exitsEmitted>>

\* The engine has stopped the container: it is known not to run, and inspected.
ContainerStopped(c) ==
  /\ stopping[c] = "asked"
  /\ containerUp' = FALSE
  /\ knownUp' = FALSE
  /\ stopping' = [stopping EXCEPT ![c] = "inspecting"]
  /\ UNCHANGED <<monitor, answer, exitsEmitted>>

StopReturns(c) ==
  /\ stopping[c] = "inspecting"
  /\ exitsEmitted' = exitsEmitted + 1
  /\ stopping' = [stopping EXCEPT ![c] = "returned"]
  /\ UNCHANGED <<containerUp, knownUp, monitor, answer>>

\* One of the requests of stop() fails; the engine may have done the first.
StopFails(c) ==
  /\ stopping[c] \in {"asked", "inspecting"}
  /\ stopping' = [stopping EXCEPT ![c] = "failed"]
  /\ containerUp' \in {containerUp, containerUp /\ stopping[c] = "inspecting"}
  /\ UNCHANGED <<knownUp, monitor, answer, exitsEmitted>>

DockerNext ==
  \/ ContainerEnds \/ MonitorAsks \/ EngineAnswers \/ MonitorHears \/ MonitorFails
  \/ \E c \in StopCalls : StopCalled(c) \/ ContainerStopped(c) \/ StopReturns(c) \/ StopFails(c)

\* The timer fires, and requests are answered or fail.
DockerFairness ==
  /\ WF_dockerVars(MonitorAsks) /\ WF_dockerVars(EngineAnswers \/ MonitorFails)
  /\ WF_dockerVars(MonitorHears)
  /\ \A c \in StopCalls : WF_dockerVars(ContainerStopped(c) \/ StopReturns(c) \/ StopFails(c))

DockerSpec == DockerInit /\ [][DockerNext]_dockerVars /\ DockerFairness

------------------------------------------------------------------------------
\* The fields are well typed.
DockerTypeOK ==
  /\ containerUp \in BOOLEAN /\ knownUp \in BOOLEAN /\ answer \in BOOLEAN
  /\ monitor \in {"waiting", "asking", "answered", "gone"}
  /\ stopping \in [StopCalls -> {"not called", "asked", "inspecting", "returned", "failed"}]
  /\ exitsEmitted \in Nat

\* An exit is announced only once the container has ended, whatever answer comes
\* late: pm would otherwise start a program again that still runs.
ExitAfterEnd == exitsEmitted > 0 => ~containerUp

\* The end is announced once by the monitor and once by each stop() that
\* returns, however their answers cross: an answer made before a stop() and
\* heard after it makes the container run again for the monitor, which then
\* announces its end (docker.ts:152).
AnnouncedByEach ==
  exitsEmitted <= 1 + Cardinality({c \in StopCalls : stopping[c] = "returned"})

\* The end of the container is announced in the end, unless a request failed: a
\* failed inspection ends the monitor, and stop() has already marked the
\* container as not running when its own inspection fails.
EndIsAnnounced ==
  ~containerUp ~> exitsEmitted > 0 \/ monitor = "gone" \/ \E c \in StopCalls : stopping[c] = "failed"

\* The exits of a container are announced after its end, and as often as they are
\* due.
ExitsAreTrue == DockerTypeOK /\ ExitAfterEnd /\ AnnouncedByEach
==============================================================================
