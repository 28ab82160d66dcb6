----------------------------- MODULE MCJsonRpc -----------------------------
(* Instances of JsonRpc and RpcClient for TLC: a call in each direction over *)
(* one connection, or a client that connects three times.                    *)
EXTENDS JsonRpc, RpcClient
CONSTANTS client, server, c1, c2

VARIABLE part

Calls == {c1, c2}
OneEach == [i \in Call |-> IF i = c1 THEN client ELSE server]
FirstChunks == [i \in Call |-> IF i = c1 THEN 1 ELSE 0]
SecondRepliesTwice == [i \in Call |-> IF i = c1 THEN 1 ELSE 2]

\* A behaviour is one of these; the other stays as it began.
MCInit == part \in {"calls", "client"} /\ Init /\ ClientInit

MCNext ==
  /\ UNCHANGED part
  /\ \/ part = "calls" /\ Next /\ UNCHANGED clientVars
     \/ part = "client" /\ ClientNext /\ UNCHANGED vars

MCSpec ==
  /\ MCInit /\ [][MCNext]_<<part, vars, clientVars>>
  /\ \A p \in Peer : WF_vars(Deliver(p))
  /\ \A i \in Call : WF_vars(Answer(i)) /\ WF_vars(StreamData(i)) /\ WF_vars(StreamEnd(i))
=============================================================================
