------------------------------- MODULE MCCore --------------------------------
(* What core schedules: modules that are started, and messages in a queue.   *)
EXTENDS Modules, Queue, TLC

CONSTANTS m1, m2, m3, m4

\* Four messages, of which one is falsy and one is in the array the queue is
\* constructed with.
Messages == {m1, m2, m3, m4}
StartLoaded == <<m4>>
StartEmpty == <<>>

\* base <- left, left and base <- top
DepValue == ("base" :> <<>>) @@ ("left" :> <<"base">>) @@ ("top" :> <<"left", "base">>)
ModuleValue == {"base", "left", "top"}
NeedsValue == ("base" :> {}) @@ ("left" :> {"base"}) @@ ("top" :> {"left", "base"})

TasksValue ==
    ("base" :> <<<<"base", "activate">>, <<"base", "ready">>, <<"base", "end">>>>) @@
    ("left" :> <<<<"base", "activate">>, <<"left", "activate">>, <<"base", "ready">>,
                 <<"left", "ready">>, <<"left", "end">>>>) @@
    ("top"  :> <<<<"base", "activate">>, <<"left", "activate">>, <<"top", "activate">>,
                 <<"base", "ready">>, <<"left", "ready">>, <<"top", "ready">>, <<"top", "end">>>>)

\* registerModule() gives a module three tasks; sequencify puts them in the order
\* above.
S == INSTANCE Sequencify
Of(deps, phase) == [i \in DOMAIN deps |-> <<deps[i], phase>>]
TaskMap ==
    [t \in ModuleValue \X {"activate", "ready", "end"} |->
        CASE t[2] = "activate" -> Of(DepValue[t[1]], "activate")
          [] t[2] = "ready" -> <<<<t[1], "activate">>>> \o Of(DepValue[t[1]], "ready")
          [] OTHER -> <<<<t[1], "ready">>>>]

ASSUME TasksAreSequenced ==
    \A m \in ModuleValue : TasksValue[m] = S!Sequence(TaskMap, <<<<m, "end">>>>).results

\* sequencify over every graph of three tasks that need up to two others, one of
\* which does not exist.
Known == {"a", "b", "c"}
NeedsOfOne == {<<>>} \union {<<x>> : x \in Known \union {"missing"}}
              \union {<<x, y>> : x \in Known, y \in Known \union {"missing"}}

ASSUME SequencifyIsRight ==
    \A tasks \in [Known -> NeedsOfOne] : \A names \in {<<"a">>, <<"b", "a">>} :
        S!RightSequence(tasks, names, S!Sequence(tasks, names))

VARIABLES part, patient

\* A patient queue: whoever constructed it has called process(), its messages
\* are truthy and its handlers never refuse.
PatientInit ==
    /\ pending = Tail(Initial) /\ handling = <<Head(Initial)>> /\ finished = <<>>
    /\ processing = TRUE /\ ticks = 0
    /\ unseen = (Message \ Falsy) \ ToSet(Initial)

Answers == \E i \in DOMAIN handling : IF patient THEN HandlerAccepts(i) ELSE HandlerNext(i)

\* The calls of start() are made in order, for they are alike. The last one is
\* refused and nothing depends on it: it is made when the others start `left`.
LastStart == CHOOSE c \in Start : \A b \in Start : b <= c
CallsInOrder ==
    /\ \A b, c \in Start : b < c /\ calls'[c].step # "idle" => calls'[b].step # "idle"
    /\ calls'[LastStart].step # "idle" => \A c \in Start : calls'[c].module = "left"

\* A behaviour is one of modules or one of a queue; the other stays as it began.
MCInit ==
    /\ part \in {"modules", "queue"} /\ patient \in BOOLEAN
    /\ part = "modules" => ~patient
    /\ Init
    /\ IF patient THEN PatientInit ELSE QueueInit

MCNext ==
    /\ UNCHANGED <<part, patient>>
    /\ \/ part = "modules" /\ Next /\ CallsInOrder /\ UNCHANGED queueVars
       \/ /\ part = "queue" /\ UNCHANGED vars
          /\ Answers \/ Tick \/ CallProcess \/ \E m \in Message : Enqueue(m)

MCSpec ==
    /\ MCInit /\ [][MCNext]_<<part, patient, vars, queueVars>>
    /\ StartFairness
    /\ WF_queueVars(part = "queue" /\ Tick /\ UNCHANGED <<part, patient>>)
    /\ WF_queueVars(part = "queue" /\ Answers /\ UNCHANGED <<part, patient>>)

\* A queue alone, one of whose messages may be refused.
RefusedSpec ==
    /\ part = "queue" /\ patient = FALSE /\ Init /\ QueueInit
    /\ [][QueueNext /\ UNCHANGED <<part, patient, vars>>]_<<part, patient, vars, queueVars>>
    /\ QueueFairness

\* A queue whose handlers never refuse is empty in the end, whoever enqueues
\* meanwhile: messages that wait always have a process() on its way.
PatientQueueDrains ==
    patient /\ pending # <<>> ~> handling = <<>> /\ pending = <<>>
=============================================================================
