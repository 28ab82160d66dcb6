------------------------------ MODULE WorkQueue ------------------------------
(***************************************************************************)
(* What the Queue of packages/core/src/queue.ts promises its caller: a     *)
(* single line of messages, of which only the first is ever served.        *)
(* Serving a message takes it out of the line, refusing it sends it to the *)
(* back. Nothing overtakes, and nothing else leaves the line, except a     *)
(* falsy message, which is lost when it comes first.                       *)
(***************************************************************************)
EXTENDS Sequences

CONSTANTS Message, \* the messages a caller may enqueue
          Falsy,   \* those that are taken for the end of the line
          Initial  \* the line the queue is constructed with

VARIABLES line,    \* the messages accepted and not yet served, in order
          served   \* the messages served, in the order they were

vars == <<line, served>>

Init == line = Initial /\ served = <<>>

\* The line becomes q, which may at once lose a first message that is falsy.
Becomes(q) ==
    /\ line' = q \/ (q # <<>> /\ Head(q) \in Falsy /\ line' = Tail(q))
    /\ UNCHANGED served

Accept(m) == Becomes(Append(line, m))

Lose == Becomes(line)

Serve ==
    /\ line # <<>>
    /\ line' = Tail(line)
    /\ served' = Append(served, Head(line))

Refuse ==
    /\ line # <<>>
    /\ line' = Append(Tail(line), Head(line))
    /\ UNCHANGED served

Next == Serve \/ Refuse \/ Lose \/ \E m \in Message : Accept(m)

Spec == Init /\ [][Next]_vars
=============================================================================
