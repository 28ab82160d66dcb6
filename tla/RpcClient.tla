----------------------------- MODULE RpcClient ------------------------------
(***************************************************************************)
(* packages/json-rpc-ws/src/shared-client.ts with base.ts: a client, the   *)
(* sockets it opens and the table of its connections.  connect() looks at  *)
(* the table, which a socket enters when it opens; a socket leaves it when *)
(* it closes or fails, or when hangup() empties it.                        *)
(***************************************************************************)
EXTENDS Naturals, Sequences, SequencesExt

CONSTANTS Sockets,     \* the sockets connect() opens, one for each of its calls
          MaxHangups,  \* bound: calls of disconnect()
          SelfIsBound  \* the platform has a global self: browsers do, Node does not

ASSUME ClientAssumption == SelfIsBound \in BOOLEAN

VARIABLES
  socket,      \* each socket: "none", "connecting", "open", "broken" after an error, "closing", "closed"
  table,       \* the connections, by their socket, in the order of their ids' insertion
  opened,      \* the sockets whose connect() has seen them open
  calledBack,  \* how often the callback of each connect() ran
  hangups,     \* the promises of disconnect(): the socket each hangs up, and how it stands
  overlapped   \* history: connect() was called while a socket was connecting

clientVars == <<socket, table, opened, calledBack, hangups, overlapped>>

ClientInit ==
  /\ socket = [s \in Sockets |-> "none"]
  /\ table = <<>>
  /\ opened = {} /\ calledBack = [s \in Sockets |-> 0]
  /\ hangups = <<>>
  /\ overlapped = FALSE

------------------------------------------------------------------------------
isConnected == table # <<>>

\* The connection of s leaves the table, if it is there.
Disconnected(s) ==
  \/ \E k \in DOMAIN table : table[k] = s /\ table' = RemoveAt(table, k)
  \/ s \notin ToSet(table) /\ UNCHANGED table

\* hangup() of a connection listens for what comes first, a close or an error.
Settle(s, outcome) ==
  hangups' = [k \in DOMAIN hangups |->
                IF hangups[k] = [of |-> s, is |-> "pending"] THEN [of |-> s, is |-> outcome] ELSE hangups[k]]

\* connect(): it throws when a connection is in the table.
Connect(s) ==
  /\ socket[s] = "none" /\ ~isConnected
  /\ socket' = [socket EXCEPT ![s] = "connecting"]
  /\ overlapped' = (overlapped \/ \E t \in Sockets : socket[t] = "connecting")
  /\ UNCHANGED <<table, opened, calledBack, hangups>>

Opens(s) ==
  /\ socket[s] = "connecting"
  /\ socket' = [socket EXCEPT ![s] = "open"]
  /\ table' = Append(table, s)
  /\ opened' = opened \cup {s}
  /\ calledBack' = [calledBack EXCEPT ![s] = @ + 1]
  /\ UNCHANGED <<hangups, overlapped>>

\* The socket emits error: before it has opened the listener calls the callback on
\* self, and where there is no such variable throws instead; afterwards the
\* connection is closed.
Fails(s) ==
  /\ socket[s] \in {"connecting", "open", "closing"}
  /\ calledBack' = [calledBack EXCEPT ![s] = IF s \notin opened /\ SelfIsBound THEN @ + 1 ELSE @]
  /\ Disconnected(s)
  /\ Settle(s, "rejected")
  /\ socket' = [socket EXCEPT ![s] = "broken"]
  /\ UNCHANGED <<opened, overlapped>>

\* Mutant of Closes: the connection is kept when the socket was hung up.
ClosesForgotten(s) ==
  /\ socket[s] \in {"open", "closing", "broken"}
  /\ socket' = [socket EXCEPT ![s] = "closed"]
  /\ IF socket[s] = "closing" THEN UNCHANGED table ELSE Disconnected(s)
  /\ Settle(s, "resolved")
  /\ UNCHANGED <<opened, calledBack, overlapped>>

\* The socket emits close, by itself, after close(), or after an error.
Closes(s) ==
  /\ socket[s] \in {"open", "closing", "broken"}
  /\ socket' = [socket EXCEPT ![s] = "closed"]
  /\ Disconnected(s)
  /\ Settle(s, "resolved")
  /\ UNCHANGED <<opened, calledBack, overlapped>>

\* disconnect(): getConnection() is the first in the table, and hangs up.
Disconnect ==
  /\ isConnected /\ Len(hangups) < MaxHangups
  /\ hangups' = Append(hangups, [of |-> Head(table), is |-> "pending"])
  /\ socket' = [socket EXCEPT ![Head(table)] = "closing"]
  /\ UNCHANGED <<table, opened, calledBack, overlapped>>

\* hangup() of the client: the connections stop listening, and their sockets stay
\* open.
Hangup ==
  /\ table # <<>>
  /\ table' = <<>>
  /\ UNCHANGED <<socket, opened, calledBack, hangups, overlapped>>

ClientNext ==
  \/ \E s \in Sockets : Connect(s) \/ Opens(s) \/ Fails(s) \/ Closes(s)
  \/ Disconnect \/ Hangup

ClientSpec == ClientInit /\ [][ClientNext]_clientVars

------------------------------------------------------------------------------
\* The fields are well typed.
ClientTypeOK ==
  /\ socket \in [Sockets -> {"none", "connecting", "open", "broken", "closing", "closed"}]
  /\ table \in Seq(Sockets) /\ IsInjective(table)
  /\ opened \subseteq Sockets /\ calledBack \in [Sockets -> 0..1]
  /\ hangups \in Seq([of : Sockets, is : {"pending", "resolved", "rejected"}])
  /\ overlapped \in BOOLEAN

\* What the table holds can be sent on: a connection leaves it in the step that
\* ends its socket, whichever of error, close and hangup() comes first or again.
TableIsOpen == \A k \in DOMAIN table : socket[table[k]] \in {"open", "closing"}

\* The client has one connection, as getConnection() says (line 120), unless
\* connect() was called again before the first socket opened: then it may have
\* two, of which every call goes to the first.
OneUnlessOverlapped == Len(table) > 1 => overlapped

\* The callback of connect() runs exactly once for each socket that opened, whatever
\* the socket emits later. A connect() that fails is told to it once in a browser,
\* and in Node never.
CalledBackOnce ==
  \A s \in Sockets :
    calledBack[s] =
      IF s \in opened \/ (SelfIsBound /\ socket[s] \in {"broken", "closed"}) THEN 1 ELSE 0

\* disconnect() returns when its socket has closed or failed, and not before: a
\* promise that is pending has a socket that is closing.
PendingIsClosing ==
  \A k \in DOMAIN hangups : hangups[k].is = "pending" => socket[hangups[k].of] = "closing"

\* The table, the sockets and the promises of a client agree, whatever the sockets
\* emit and in which order.
ClientInStep == ClientTypeOK /\ TableIsOpen /\ OneUnlessOverlapped /\ CalledBackOnce /\ PendingIsClosing
==============================================================================
