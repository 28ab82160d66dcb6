-------------------------------- MODULE Retry --------------------------------
(***************************************************************************)
(* packages/core/src/network/shared.socket-transformer-with-connection-    *)
(* retry.ts: a SocketWithConnectionRetry whose strategy is an              *)
(* IntervalRetry. Losing the connection starts the strategy, whose timer   *)
(* calls a handler, given by the program, and then arms the next timer.    *)
(* The handler may reconnect the socket, call start(), stop() and close(), *)
(* as the rest of the program may between two callbacks, and throw.        *)
(***************************************************************************)
EXTENDS Integers, FiniteSets

CONSTANT MaxTimers \* bound: timers armed

VARIABLES
    inner,       \* the socket that is wrapped: "open", "closing" or "closed"
    shouldRetry, \* this.shouldRetry
    armed,       \* the timers that have not fired
    timeout,     \* this.timeout, 0 for undefined
    retrying,    \* the handler is running
    timers,      \* how many timers were armed
    closedOpen,  \* close() was called while the socket was open
    stopInside,  \* stop() was called by the handler itself
    threw,       \* the handler threw, and nobody called stop() since
    byHand       \* the program called start() on a socket closed for good, and not stop() since

retryVars == <<inner, shouldRetry, armed, timeout, retrying, timers, closedOpen, stopInside,
               threw, byHand>>

RetryInit ==
    /\ inner = "open" /\ shouldRetry = TRUE
    /\ armed = {} /\ timeout = 0 /\ retrying = FALSE /\ timers = 0
    /\ closedOpen = FALSE /\ stopInside = FALSE /\ threw = FALSE /\ byHand = FALSE

-----------------------------------------------------------------------------
NextRetry ==
    /\ timers < MaxTimers
    /\ timers' = timers + 1
    /\ timeout' = timers + 1
    /\ armed' = armed \cup {timers + 1}

\* Mutant of StartRetry: whether a chain is running is not asked.
StartRetryAgain == NextRetry

StartRetry == IF timeout = 0 THEN NextRetry ELSE UNCHANGED <<timers, timeout, armed>>

StopRetry ==
    /\ armed' = armed \ {timeout}
    /\ timeout' = 0
    /\ threw' = FALSE /\ byHand' = FALSE
    /\ UNCHANGED timers

\* The listener of 'close' on the inner socket.
OnClose == IF shouldRetry THEN StartRetry /\ UNCHANGED <<threw, byHand>> ELSE StopRetry

\* The connection is lost, or the close that was asked for is done.
SocketClosed ==
    /\ ~retrying
    /\ inner \in {"open", "closing"}
    /\ inner' = "closed"
    /\ OnClose
    /\ UNCHANGED <<shouldRetry, retrying, closedOpen, stopInside>>

\* close(): a socket that is closed does not emit 'close' again.
CloseForGood ==
    /\ shouldRetry' = FALSE
    /\ inner' = IF inner = "open" THEN "closing" ELSE inner
    /\ closedOpen' = (closedOpen \/ inner = "open")
    /\ UNCHANGED <<armed, timeout, retrying, timers, stopInside, threw, byHand>>

\* The program connects the inner socket again.
Reconnect ==
    /\ inner = "closed"
    /\ inner' = "open"
    /\ UNCHANGED <<shouldRetry, armed, timeout, retrying, timers, closedOpen, stopInside,
                   threw, byHand>>

\* The program calls strategy.stop() or strategy.start(), which knows nothing of
\* the socket.
ProgramStops ==
    /\ StopRetry
    /\ stopInside' = (stopInside \/ retrying)
    /\ UNCHANGED <<inner, shouldRetry, retrying, closedOpen>>

ProgramStarts ==
    /\ StartRetry
    /\ byHand' = IF shouldRetry THEN byHand ELSE TRUE
    /\ UNCHANGED <<inner, shouldRetry, retrying, closedOpen, stopInside, threw>>

RetryFires(t) ==
    /\ ~retrying
    /\ armed' = armed \ {t}
    /\ retrying' = TRUE
    /\ UNCHANGED <<inner, shouldRetry, timeout, timers, closedOpen, stopInside, threw, byHand>>

\* The handler is done: the next timer is armed, whatever the handler did.
RetryReturns ==
    /\ retrying
    /\ retrying' = FALSE
    /\ NextRetry
    /\ UNCHANGED <<inner, shouldRetry, closedOpen, stopInside, threw, byHand>>

\* The handler throws: the next timer is not armed, and the timer that fired stays
\* in timeout, so that start() does nothing until somebody calls stop().
RetryThrows ==
    /\ retrying
    /\ retrying' = FALSE
    /\ threw' = TRUE
    /\ UNCHANGED <<inner, shouldRetry, armed, timeout, timers, closedOpen, stopInside, byHand>>

RetryNext ==
    \/ SocketClosed
    \/ CloseForGood
    \/ Reconnect
    \/ ProgramStops
    \/ ProgramStarts
    \/ \E t \in armed : RetryFires(t)
    \/ RetryReturns
    \/ RetryThrows

RetrySpec == RetryInit /\ [][RetryNext]_retryVars

-----------------------------------------------------------------------------
\* Retries form one chain: a single timer is armed, the one stop() would clear,
\* or the handler is running, and only while the strategy takes itself for
\* started; a handler that threw has ended the chain without a word to the
\* strategy. (A handler that calls stop() and start() makes a second chain.)
OneRetryChain ==
    ~stopInside =>
        /\ armed \subseteq {timeout}
        /\ retrying \/ threw => armed = {}
        /\ ~(retrying /\ threw)
        /\ timeout # 0 <=> armed # {} \/ retrying \/ threw

\* A socket that was closed while it was open is not connected again once it is
\* closed, even when timers were armed by an earlier loss of the connection, unless
\* the program starts the retries again by hand.
ClosedOpenIsNotRetried ==
    closedOpen /\ inner = "closed" /\ ~stopInside /\ ~byHand => armed = {} /\ ~retrying

\* Retries stop when they should: there is one chain of them to stop, and a close()
\* of an open socket leaves none.
RetriesStop == OneRetryChain /\ ClosedOpenIsNotRetried
=============================================================================
