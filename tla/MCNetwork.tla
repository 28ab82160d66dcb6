------------------------------ MODULE MCNetwork ------------------------------
(***************************************************************************)
(* The adapter and the retrying socket, each checked on its own: a         *)
(* behaviour picks one of them, and the other one never moves.             *)
(***************************************************************************)
EXTENDS Network, Retry

VARIABLE part

ScriptValue == <<<<1>>, <<2, 3>>, <<1>>>>

MCInit == part \in {"adapter", "retry"} /\ NetworkInit /\ RetryInit

MCNext ==
    /\ UNCHANGED part
    /\ \/ part = "adapter" /\ NetworkNext /\ UNCHANGED retryVars
       \/ part = "retry" /\ RetryNext /\ UNCHANGED networkVars

MCSpec == MCInit /\ [][MCNext]_<<part, networkVars, retryVars>> /\ NetworkFairness
=============================================================================
