---------------------------- MODULE ChildProcess -----------------------------
(***************************************************************************)
(* The runtime that pm starts a program with: a child process              *)
(* (packages/pm/src/runtimes/child_process.ts).  stop() sends a signal and *)
(* a harder one after each timeout; each call is a chain of calls, one for *)
(* each signal, of which one timer is running.  The process may ignore any *)
(* signal but SIGKILL, and node reports its end some time after it.        *)
(***************************************************************************)
EXTENDS Naturals

CONSTANTS Stops  \* calls of stop(), the one that the abort signal makes included

\* What stop() may be given: nothing stands for the default, SIGTERM.
Signals == {"default", "SIGINT", "SIGTERM", "SIGKILL"}

VARIABLES
  keepAttached,  \* the option
  process,       \* of the system: "alive", "dead", or "reaped" once node has reported it
  connected,     \* the channel between the processes
  killed,        \* SIGKILL was delivered
  listening,     \* the calls of stop() whose exit listener is registered
  timer,         \* for each call, the signal its chain sent last while a timer waits to send the next
  resolved,      \* the calls of stop() whose promise is resolved
  exits,         \* how often the runtime emitted exit
  disconnects,   \* how often it emitted disconnect
  overdue,       \* history: calls of stop() made after the end was reported
  sent           \* history: the signals each call has sent

childVars == <<keepAttached, process, connected, killed, listening, timer, resolved, exits, disconnects, overdue, sent>>

ChildInit ==
  /\ keepAttached \in BOOLEAN
  /\ process = "alive" /\ connected = TRUE /\ killed = FALSE
  /\ listening = {} /\ resolved = {} /\ overdue = {}
  /\ timer = [c \in Stops |-> "none"]
  /\ sent = [c \in Stops |-> {}]
  /\ exits = 0 /\ disconnects = 0

------------------------------------------------------------------------------
\* Each call of stop() sends its signal and arms its timer.
Sends(c, signal) ==
  /\ killed' = (killed \/ (signal = "SIGKILL" /\ process = "alive"))
  /\ timer' = [timer EXCEPT ![c] = signal]
  /\ sent' = [sent EXCEPT ![c] = @ \union {signal}]

\* stop(), by the abort signal or by a caller: it also listens for the exit.
StopChild(c, signal) ==
  /\ sent[c] = {}
  /\ Sends(c, signal)
  /\ listening' = listening \union {c}
  /\ overdue' = IF process = "reaped" THEN overdue \union {c} ELSE overdue
  /\ UNCHANGED <<keepAttached, process, connected, resolved, exits, disconnects>>

\* Mutant of Harder: the signal is sent again.
HarderSame(signal) == signal

\* The signal that follows one that had no effect in time.
Harder(signal) == IF signal = "SIGINT" THEN "SIGTERM" ELSE "SIGKILL"

\* The timer of a call fires: it calls stop() again with a harder signal. The
\* new listener on exit is one with that of the chain's first call.
StopTimesOut(c) ==
  /\ timer[c] # "none"
  /\ Sends(c, Harder(timer[c]))
  /\ UNCHANGED <<keepAttached, process, connected, listening, resolved, exits, disconnects, overdue>>

\* The process ends by itself or by a signal.
ProcessDies ==
  /\ process = "alive"
  /\ process' = "dead"
  /\ UNCHANGED <<keepAttached, connected, killed, listening, timer, resolved, exits, disconnects, overdue, sent>>

\* Mutant of ProcessExits: the timer of a kill is not cleared.
ProcessExitsTimed ==
  /\ process = "dead"
  /\ process' = "reaped"
  /\ exits' = exits + 1
  /\ resolved' = resolved \union listening
  /\ listening' = {}
  /\ timer' = [c \in Stops |-> IF timer[c] = "SIGKILL" THEN "SIGKILL" ELSE "none"]
  /\ UNCHANGED <<keepAttached, connected, killed, disconnects, overdue, sent>>

\* node reports the end: every call that listens clears its timer and resolves.
ProcessExits ==
  /\ process = "dead"
  /\ process' = "reaped"
  /\ exits' = exits + 1
  /\ resolved' = resolved \union listening
  /\ listening' = {}
  /\ timer' = [c \in Stops |-> IF c \in listening THEN "none" ELSE timer[c]]
  /\ UNCHANGED <<keepAttached, connected, killed, disconnects, overdue, sent>>

\* The channel closes, by the child or by its end; a process that is kept
\* attached is then taken to have ended.
Disconnected ==
  /\ connected
  /\ connected' = FALSE
  /\ disconnects' = disconnects + 1
  /\ exits' = IF keepAttached THEN exits + 1 ELSE exits
  /\ UNCHANGED <<keepAttached, process, killed, listening, timer, resolved, overdue, sent>>

ChildNext ==
  \/ \E c \in Stops : StopTimesOut(c) \/ \E signal \in Signals : StopChild(c, signal)
  \/ ProcessDies \/ ProcessExits \/ Disconnected

\* Timers fire, SIGKILL ends a process, and node reports the end.
ChildFairness ==
  /\ \A c \in Stops : WF_childVars(StopTimesOut(c))
  /\ WF_childVars(killed /\ ProcessDies)
  /\ WF_childVars(ProcessExits)

ChildSpec == ChildInit /\ [][ChildNext]_childVars /\ ChildFairness

------------------------------------------------------------------------------
\* The fields are well typed.
ChildTypeOK ==
  /\ process \in {"alive", "dead", "reaped"}
  /\ keepAttached \in BOOLEAN /\ connected \in BOOLEAN /\ killed \in BOOLEAN
  /\ listening \subseteq Stops /\ resolved \subseteq Stops /\ overdue \subseteq Stops
  /\ timer \in [Stops -> Signals \union {"none"}]
  /\ sent \in [Stops -> SUBSET Signals]
  /\ exits \in 0..2 /\ disconnects \in 0..1

\* A call of stop() made before the end of the process was reported resolves,
\* although the process may ignore every signal that can be ignored.
StopResolves == \A c \in Stops : c \in listening /\ c \notin overdue ~> c \in resolved

\* Once the end was reported, no timer runs that would signal a process that is
\* gone, but for calls of stop() that came later: nothing ever resolves those,
\* and their timers call stop() again and again (line 95).
NoTimerAfterExit ==
  process = "reaped" => \A c \in Stops \ overdue : timer[c] = "none"

\* A process is killed only after it had the time to end by itself, unless the
\* caller asked for it: a call that sent an interrupt has sent SIGTERM before
\* SIGKILL, and none sends an interrupt after it.
KilledLast ==
  \A c \in Stops :
    "SIGINT" \in sent[c] /\ "SIGKILL" \in sent[c] => "SIGTERM" \in sent[c]

\* A runtime that is not kept attached emits exit once, after the process has
\* ended; one that is kept attached may emit it earlier, and twice.
ExitTellsTheEnd ==
  ~keepAttached => exits <= 1 /\ (exits = 1 => process = "reaped")

\* What stop() and the events of a child process promise: the escalation is gradual
\* and over when the process is, and exit tells of its end.
StopsAndTells == ChildTypeOK /\ NoTimerAfterExit /\ KilledLast /\ ExitTellsTheEnd
==============================================================================
