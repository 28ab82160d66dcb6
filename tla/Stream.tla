-------------------------------- MODULE Stream --------------------------------
(***************************************************************************)
(* What a transport promises to those who listen: the messages the other   *)
(* end sent, each once and in the order they were sent. Once the transport *)
(* is spoilt it promises nothing.                                          *)
(***************************************************************************)
EXTENDS Integers, Sequences, SequencesExt

VARIABLES
    sent,     \* the messages sent so far
    received, \* the messages handed over so far
    spoilt    \* whether something happened that the transport does not survive

Init == sent = <<>> /\ received = <<>> /\ spoilt = FALSE

Send ==
    /\ Len(sent') = Len(sent) + 1 /\ IsPrefix(sent, sent')
    /\ UNCHANGED <<received, spoilt>>

\* A burst of messages that follow those received already.
Deliver ==
    /\ ~spoilt /\ ~spoilt'
    /\ Len(received') > Len(received)
    /\ IsPrefix(received, received')
    /\ IsPrefix(received', sent)
    /\ UNCHANGED sent

Spoil == spoilt' /\ UNCHANGED sent

Next == Send \/ Deliver \/ Spoil

Spec == Init /\ [][Next]_<<sent, received, spoilt>>
=============================================================================
