------------------------------ MODULE CoreProofs ------------------------------
(***************************************************************************)
(* What start() of modules promises, for any modules, any tasks in an      *)
(* order that respects their dependencies, and any number of calls that    *)
(* share them; what a request through middlewares is promised, for any     *)
(* tree of composites and any path; and that the fields of a message are   *)
(* read as they were written, for any schema and any values.               *)
(***************************************************************************)
EXTENDS Modules, Middlewares, Fields, SequenceFacts

\* Where a call of start() stands: the events of the tasks it went past are
\* done, and one it triggers or completes was triggered.
CallsProgress ==
  \A c \in Start :
    /\ promise[c] = "none" <=> calls[c].step = "idle"
    /\ calls[c].step # "idle" =>
         /\ calls[c].module \in Module /\ calls[c].at \in DOMAIN Tasks[calls[c].module]
         /\ \A j \in 1..(calls[c].at - 1) :
              Tasks[calls[c].module][j][2] # "end" => Tasks[calls[c].module][j] \in done
    /\ calls[c].step \in {"emit", "complete"} => Current(c) \in triggered

\* The listener of an event is called when the event is triggered, and one that
\* fails is seen to.
ListenersTriggered ==
  \A e \in Event : /\ listener[e] = "waiting" <=> e \notin triggered
                   /\ listener[e] = "failed" => trouble # {}

\* A call that is alone completes events whose listener ended, and whoever
\* triggered an event that is not done is still at it, or was given a promise
\* that is rejected.
AtItOrRejected(e) ==
  \/ waited[e] = "rejected"
  \/ \E c \in Start : calls[c].step \in {"emit", "complete"} /\ Current(c) = e

CallsAlone ==
  /\ \A b, c \in Start : Busy(b) /\ Busy(c) => b = c
  /\ \A c \in Start : calls[c].step = "complete" => listener[Current(c)] = "ended"
  /\ \A e \in triggered \ done : AtItOrRejected(e)

ModulesInv ==
  /\ TypeOK /\ CallsProgress /\ ListenersTriggered
  /\ trouble = {} => CallsAlone
  /\ DependencyOrderWhenAlone /\ SettledForAReason

-----------------------------------------------------------------------------
\* A task is of a module, and is an event unless it is the last of its module.
LEMMA TaskOf ==
  ASSUME ModulesInv, NEW c \in Start, calls[c].step # "idle"
  PROVE  /\ calls[c].module \in Module /\ Tasks[calls[c].module] \in Seq(Task)
         /\ calls[c].at \in 1..Len(Tasks[calls[c].module]) /\ calls[c].at \in Nat
         /\ Len(Tasks[calls[c].module]) \in Nat
         /\ Current(c) \in Task /\ Current(c)[1] \in Module
         /\ Current(c)[2] # "end" => Current(c) \in Event
<1>1. /\ calls[c].module \in Module /\ calls[c].at \in DOMAIN Tasks[calls[c].module]
      /\ calls[c].at \in Nat
  BY DEF ModulesInv, CallsProgress, TypeOK
<1>2. /\ Tasks[calls[c].module] \in Seq(Task)
      /\ DOMAIN Tasks[calls[c].module] = 1..Len(Tasks[calls[c].module])
      /\ Len(Tasks[calls[c].module]) \in Nat
  BY <1>1, ModulesAssumption, LenProperties
<1>3. Current(c) \in Task
  BY <1>1, <1>2 DEF Current
<1> QED
  BY <1>1, <1>2, <1>3 DEF Task, Event

\* What a task needs is done when a call reaches the task.
LEMMA ReachedInOrder ==
  ASSUME ModulesInv, NEW c \in Start, calls[c].step # "idle",
         NEW b \in Before(Current(c)), b[2] # "end"
  PROVE  b \in done
<1>0. PICK m \in Module : m = calls[c].module
  BY TaskOf
<1>1. PICK n \in DOMAIN Tasks[m] : n = calls[c].at
  BY <1>0, TaskOf, LenProperties
<1>2. PICK j \in 1..(n - 1) : Tasks[m][j] = b
  BY <1>0, <1>1, TasksAreOrdered DEF Current
<1> QED
  BY <1>0, <1>1, <1>2 DEF ModulesInv, CallsProgress

\* A call goes to its next task, or past the last one.
LEMMA AdvanceKeeps ==
  ASSUME ModulesInv, NEW c \in Start, Busy(c), TaskStops(c),
         UNCHANGED <<triggered, listener, waited, trouble, onTaskStop>>,
         \/ Current(c)[2] = "end" /\ done' = done
         \/ /\ Current(c)[2] # "end" /\ Current(c) \in triggered /\ done' = done \union {Current(c)}
            /\ trouble = {} => Finished(Current(c))
  PROVE  ModulesInv'
<1> DEFINE m == calls[c].module
           n == calls[c].at
<1>1. PICK q \in [module : Module \cup {"none"}, at : Nat \ {0},
                step : {"idle", "task", "emit", "complete", "stopped", "failed", "refused"}] :
        /\ calls' = [calls EXCEPT ![c] = q]
        /\ q.module = m /\ q.step \in {"task", "stopped"} /\ q.at \in 1..Len(Tasks[m])
        /\ q.at = n \/ q.at = n + 1
  <2>1. PICK r \in [module : Module \cup {"none"}, at : Nat \ {0},
                    step : {"idle", "task", "emit", "complete", "stopped", "failed", "refused"}] :
                      r = calls[c]
    BY DEF ModulesInv, TypeOK
  <2>2. CASE n < Len(Tasks[m])
    <3> DEFINE q == [calls[c] EXCEPT !.at = calls[c].at + 1, !.step = "task"]
    <3>1. calls' = [calls EXCEPT ![c] = q]
      <4>1. calls' = [calls EXCEPT ![c].at = @ + 1, ![c].step = "task"]
        BY <2>2 DEF TaskStops
      <4> QED
        BY <4>1 DEF ModulesInv, TypeOK
    <3>2. n + 1 \in 1..Len(Tasks[m]) /\ n + 1 \in Nat \ {0}
      BY <2>2, TaskOf DEF Busy
    <3>3. q.module = m /\ q.at = n + 1 /\ q.step = "task"
      BY <2>1
    <3>4. q \in [module : Module \cup {"none"}, at : Nat \ {0},
                 step : {"idle", "task", "emit", "complete", "stopped", "failed", "refused"}]
      BY <2>1, <3>2
    <3> QED
      BY <3>1, <3>2, <3>3, <3>4
  <2>3. CASE ~ n < Len(Tasks[m])
    <3> DEFINE q == [r EXCEPT !.step = "stopped"]
    <3>1. calls' = [calls EXCEPT ![c] = q]
      BY <2>1, <2>3 DEF TaskStops
    <3>2. n \in 1..Len(Tasks[m])
      BY TaskOf DEF Busy
    <3>3. q.module = m /\ q.at = n /\ q.step = "stopped"
      BY <2>1
    <3>4. q \in [module : Module \cup {"none"}, at : Nat \ {0},
                 step : {"idle", "task", "emit", "complete", "stopped", "failed", "refused"}]
      OBVIOUS
    <3> QED
      BY <3>1, <3>2, <3>3, <3>4
  <2> QED
    BY <2>2, <2>3
<1>2. /\ calls[c].step \in {"task", "emit", "complete"} /\ calls[c].step # "idle"
      /\ m \in Module /\ n \in Nat /\ Current(c) = Tasks[m][n]
      /\ DOMAIN Tasks[m] = 1..Len(Tasks[m]) /\ Len(Tasks[m]) \in Nat
      /\ Current(c)[1] \in Module /\ Current(c)[2] # "end" => Current(c) \in Event
  BY TaskOf, LenProperties DEF Busy, Current
<1>3. /\ \A b \in Start : b # c => calls'[b] = calls[b]
      /\ calls'[c] = q
      /\ calls' \in [Start -> [module : Module \cup {"none"}, at : Nat \ {0},
                              step : {"idle", "task", "emit", "complete", "stopped", "failed", "refused"}]]
  BY <1>1, <1>2 DEF ModulesInv, TypeOK
<1>4. /\ promise' \in [Start -> {"none", "pending", "resolved", "rejected"}]
      /\ \A b \in Start :
           \/ promise'[b] = promise[b]
           \/ /\ promise[b] = "pending" /\ promise'[b] = "resolved"
              /\ Current(c)[2] = "end" /\ calls[b].module = Current(c)[1]
  BY DEF TaskStops, Settle, ModulesInv, TypeOK
<1>5. done \subseteq done' /\ done' \subseteq triggered /\ (Current(c)[2] # "end" => Current(c) \in done')
  BY DEF ModulesInv, TypeOK
<1>6. TypeOK'
  BY <1>3, <1>4, <1>5 DEF ModulesInv, TypeOK
<1>7. CallsProgress'
  <2>1. ASSUME NEW b \in Start, b # c
        PROVE  /\ promise'[b] = "none" <=> calls'[b].step = "idle"
               /\ calls'[b].step # "idle" =>
                    /\ calls'[b].module \in Module
                    /\ calls'[b].at \in DOMAIN Tasks[calls'[b].module]
                    /\ \A j \in 1..(calls'[b].at - 1) :
                         Tasks[calls'[b].module][j][2] # "end" => Tasks[calls'[b].module][j] \in done'
               /\ calls'[b].step \in {"emit", "complete"} => Current(b)' \in triggered'
    <3>1. calls'[b] = calls[b] /\ Current(b)' = Current(b)
      BY <2>1, <1>3 DEF Current
    <3>2. promise'[b] = "none" <=> promise[b] = "none"
      BY <1>4
    <3> QED
      BY <3>1, <3>2, <1>5 DEF ModulesInv, CallsProgress
  <2>2. promise'[c] # "none"
    BY <1>2, <1>4 DEF ModulesInv, CallsProgress
  <2>3. \A j \in 1..(q.at - 1) : Tasks[m][j][2] # "end" => Tasks[m][j] \in done'
    <3>1. \A j \in 1..(n - 1) : Tasks[m][j][2] # "end" => Tasks[m][j] \in done'
      BY <1>2, <1>5 DEF ModulesInv, CallsProgress
    <3>2. CASE q.at = n
      BY <3>1, <3>2
    <3>3. CASE q.at = n + 1
      <4>1. Tasks[m][n][2] # "end" => Tasks[m][n] \in done'
        BY <1>2, <1>5
      <4>2. \A j \in 1..(q.at - 1) : j \in 1..(n - 1) \/ j = n
        BY <1>2, <3>3
      <4> QED
        BY <3>1, <4>1, <4>2
    <3> QED
      BY <1>1, <3>2, <3>3
  <2>4. /\ calls'[c].module \in Module /\ calls'[c].at \in DOMAIN Tasks[calls'[c].module]
        /\ calls'[c].step # "idle" /\ calls'[c].step \notin {"emit", "complete"}
    BY <1>1, <1>2, <1>3
  <2>5. calls'[c].module = m /\ calls'[c].at = q.at
    BY <1>1, <1>3
  <2>6. ASSUME NEW b \in Start
        PROVE  /\ promise'[b] = "none" <=> calls'[b].step = "idle"
               /\ calls'[b].step # "idle" =>
                    /\ calls'[b].module \in Module
                    /\ calls'[b].at \in DOMAIN Tasks[calls'[b].module]
                    /\ \A j \in 1..(calls'[b].at - 1) :
                         Tasks[calls'[b].module][j][2] # "end" => Tasks[calls'[b].module][j] \in done'
               /\ calls'[b].step \in {"emit", "complete"} => Current(b)' \in triggered'
    <3>1. CASE b = c
      BY <3>1, <2>2, <2>3, <2>4, <2>5
    <3> QED
      BY <3>1, <2>1
  <2> QED
    BY <2>6 DEF CallsProgress
<1>8. ListenersTriggered'
  BY DEF ModulesInv, ListenersTriggered
<1>9. trouble' = {} => CallsAlone'
  <2> SUFFICES ASSUME trouble = {} PROVE CallsAlone'
    OBVIOUS
  <2>1. CallsAlone
    BY DEF ModulesInv
  <2>2. \A b \in Start : Busy(b)' => Busy(b)
    BY <1>2, <1>3 DEF Busy
  <2>3. \A b \in Start : b # c => Current(b)' = Current(b)
    BY <1>3 DEF Current
  <2>4. \A b \in Start : calls'[b].step \in {"emit", "complete"} => b # c /\ calls'[b] = calls[b]
    BY <1>1, <1>3
  <2>5. ASSUME NEW e \in triggered' \ done' PROVE AtItOrRejected(e)'
    <3>1. (e \in triggered \ done /\ AtItOrRejected(e) /\ e # Current(c)) \/ Current(c)[2] = "end"
      BY <2>1, <2>5, <1>5 DEF CallsAlone
    <3>2. e \in triggered \ done /\ AtItOrRejected(e)
      BY <2>1, <2>5, <1>5 DEF CallsAlone
    <3>3. ASSUME NEW b \in Start, calls[b].step \in {"emit", "complete"}, Current(b) = e
          PROVE  b # c
      <4>1. CASE Current(c)[2] = "end"
        <5>1. e[2] # "end"
          BY <3>2 DEF ModulesInv, TypeOK, Event, Phase
        <5> QED
          BY <5>1, <4>1, <3>3
      <4> QED
        BY <4>1, <3>1, <3>3
    <3> QED
      BY <3>2, <3>3, <2>3, <1>3 DEF AtItOrRejected
  <2>6. \A b \in Start : calls'[b].step = "complete" => listener'[Current(b)'] = "ended"
    BY <2>1, <2>3, <2>4 DEF CallsAlone
  <2> QED
    BY <2>1, <2>2, <2>5, <2>6 DEF CallsAlone
<1>10. DependencyOrderWhenAlone'
  <2>1. \A e : Finished(e)' <=> Finished(e)
    BY DEF Finished
  <2>2. trouble = {} => DoneIsFinished'
    BY <2>1 DEF ModulesInv, DependencyOrderWhenAlone, DoneIsFinished
  <2>3. trouble = {} => DependencyOrder'
    BY <2>1 DEF ModulesInv, DependencyOrderWhenAlone, DependencyOrder
  <2> QED
    BY <2>2, <2>3 DEF DependencyOrderWhenAlone
<1>11. SettledForAReason'
  <2>1. ASSUME NEW b \in Start, promise'[b] = "resolved"
        PROVE  <<calls'[b].module, "ready">> \in done'
    <3>1. calls'[b].module = calls[b].module
      BY <1>1, <1>3
    <3>2. CASE promise[b] = "resolved"
      BY <3>1, <3>2, <1>5 DEF ModulesInv, SettledForAReason
    <3>3. CASE promise[b] # "resolved"
      <4>1. Current(c)[2] = "end" /\ calls[b].module = Current(c)[1]
        BY <3>3, <2>1, <1>4
      <4>2. <<Current(c)[1], "ready">> \in Before(Current(c))
        BY <4>1 DEF Before
      <4>3. <<Current(c)[1], "ready">> \in done
        BY <4>2, <1>2, ReachedInOrder
      <4> QED
        BY <3>1, <4>1, <4>3, <1>5
    <3> QED
      BY <3>2, <3>3
  <2>2. ASSUME NEW b \in Start, promise'[b] = "rejected"
        PROVE  calls'[b].step = "refused" \/ \E d \in Start : calls'[d].step = "failed"
    <3>1. calls[b].step = "refused" \/ \E d \in Start : calls[d].step = "failed"
      BY <2>2, <1>4 DEF ModulesInv, SettledForAReason
    <3>2. \A d \in Start : calls[d].step \in {"refused", "failed"} => calls'[d].step = calls[d].step
      BY <1>2, <1>3
    <3> QED
      BY <3>1, <3>2
  <2>3. \A b \in Start : calls'[b].step = "refused" => calls[b].step = "refused"
    BY <1>1, <1>3
  <2> QED
    BY <2>1, <2>2, <2>3 DEF ModulesInv, SettledForAReason
<1> QED
  BY <1>6, <1>7, <1>8, <1>9, <1>10, <1>11 DEF ModulesInv

\* A call whose task throws stops there, and every start() that waits is
\* rejected.
LEMMA FailKeeps ==
  ASSUME ModulesInv, NEW c \in Start, Busy(c), TaskFails(c),
         UNCHANGED <<triggered, done, listener, waited, trouble, onTaskStop>>,
         trouble = {} => waited[Current(c)] = "rejected"
  PROVE  ModulesInv'
<1>1. /\ calls[c].step \in {"task", "emit", "complete"} /\ calls[c].step # "idle"
      /\ calls' = [calls EXCEPT ![c] = [@ EXCEPT !.step = "failed"]]
  BY DEF Busy, TaskFails
<1>2. /\ \A b \in Start : b # c => calls'[b] = calls[b]
      /\ \A b \in Start : /\ calls'[b].module = calls[b].module /\ calls'[b].at = calls[b].at
                          /\ Current(b)' = Current(b)
      /\ calls'[c].step = "failed"
      /\ calls' \in [Start -> [module : Module \cup {"none"}, at : Nat \ {0},
                              step : {"idle", "task", "emit", "complete", "stopped", "failed", "refused"}]]
  BY <1>1 DEF ModulesInv, TypeOK, Current
<1>3. /\ promise' \in [Start -> {"none", "pending", "resolved", "rejected"}]
      /\ \A b \in Start : /\ promise'[b] = "none" <=> promise[b] = "none"
                          /\ promise'[b] = "resolved" <=> promise[b] = "resolved"
  BY DEF TaskFails, Settle, ModulesInv, TypeOK
<1>4. TypeOK'
  BY <1>2, <1>3 DEF ModulesInv, TypeOK
<1>5. CallsProgress'
  <2>1. \A b \in Start : calls'[b].step = "idle" <=> calls[b].step = "idle"
    BY <1>1, <1>2
  <2>2. \A b \in Start : calls'[b].step \in {"emit", "complete"} => calls[b].step \in {"emit", "complete"}
    BY <1>1, <1>2
  <2> QED
    BY <2>1, <2>2, <1>2, <1>3 DEF ModulesInv, CallsProgress
<1>6. ListenersTriggered'
  BY DEF ModulesInv, ListenersTriggered
<1>7. trouble' = {} => CallsAlone'
  <2> SUFFICES ASSUME trouble = {} PROVE CallsAlone'
    OBVIOUS
  <2>1. CallsAlone
    BY DEF ModulesInv
  <2>2. \A b \in Start : Busy(b)' => Busy(b)
    BY <1>1, <1>2 DEF Busy
  <2>3. ASSUME NEW e \in triggered' \ done' PROVE AtItOrRejected(e)'
    BY <2>1, <2>3, <1>2 DEF CallsAlone, AtItOrRejected
  <2>4. \A b \in Start : calls'[b].step = "complete" => calls[b].step = "complete"
    BY <1>2
  <2> QED
    BY <2>1, <2>2, <2>3, <2>4, <1>2 DEF CallsAlone
<1>8. DependencyOrderWhenAlone'
  BY DEF ModulesInv, DependencyOrderWhenAlone, DependencyOrder, DoneIsFinished, Finished
<1>9. SettledForAReason'
  <2>1. \A b \in Start : calls'[b].step = "refused" => calls[b].step = "refused"
    BY <1>2
  <2> QED
    BY <2>1, <1>2, <1>3 DEF ModulesInv, SettledForAReason
<1> QED
  BY <1>4, <1>5, <1>6, <1>7, <1>8, <1>9 DEF ModulesInv

\* complete() of a triggered event: the call waits, fails or goes on.
LEMMA CompleteKeeps ==
  ASSUME ModulesInv, NEW c \in Start, Busy(c), Current(c)[2] # "end", Current(c) \in triggered,
         Complete(c), UNCHANGED <<triggered, listener, waited, trouble, onTaskStop>>,
         trouble = {} => \/ waited[Current(c)] = "rejected"
                         \/ listener[Current(c)] = "ended"
  PROVE  ModulesInv'
<1> DEFINE e == Current(c)
<1>1. e \in Event /\ calls[c].step # "idle" /\ waited[e] \in {"none", "pending", "settled", "rejected"}
  BY TaskOf DEF Busy, ModulesInv, TypeOK
<1>2. CASE waited[e] = "pending"
  <2>1. /\ calls' = [calls EXCEPT ![c].step = "complete"] /\ UNCHANGED <<promise, done>>
        /\ listener[e] = "ended" \/ trouble # {}
    BY <1>2 DEF Complete
  <2>2. /\ \A b \in Start : /\ calls'[b].module = calls[b].module /\ calls'[b].at = calls[b].at
                            /\ Current(b)' = Current(b)
                            /\ b # c => calls'[b] = calls[b]
        /\ calls'[c].step = "complete"
        /\ calls' \in [Start -> [module : Module \cup {"none"}, at : Nat \ {0},
                                step : {"idle", "task", "emit", "complete", "stopped", "failed", "refused"}]]
    BY <2>1 DEF ModulesInv, TypeOK, Current
  <2>3. TypeOK'
    BY <2>1, <2>2 DEF ModulesInv, TypeOK
  <2>4. CallsProgress'
    <3>1. \A b \in Start : calls'[b].step = "idle" <=> calls[b].step = "idle"
      BY <1>1, <2>2
    <3>2. \A b \in Start : b # c => (calls'[b].step \in {"emit", "complete"} => calls[b].step \in {"emit", "complete"})
      BY <2>2
    <3> QED
      BY <3>1, <3>2, <2>1, <2>2 DEF ModulesInv, CallsProgress
  <2>5. ListenersTriggered' /\ DependencyOrderWhenAlone'
    BY <2>1 DEF ModulesInv, ListenersTriggered, DependencyOrderWhenAlone, DependencyOrder,
                DoneIsFinished, Finished
  <2>6. trouble' = {} => CallsAlone'
    <3> SUFFICES ASSUME trouble = {} PROVE CallsAlone'
      OBVIOUS
    <3>1. CallsAlone
      BY DEF ModulesInv
    <3>2. \A b \in Start : Busy(b)' => Busy(b)
      BY <2>2 DEF Busy
    <3>3. ASSUME NEW f \in triggered' \ done' PROVE AtItOrRejected(f)'
      <4>1. AtItOrRejected(f)
        BY <2>1, <3>1, <3>3 DEF CallsAlone
      <4> QED
        BY <4>1, <2>2 DEF AtItOrRejected
    <3>4. ASSUME NEW b \in Start, calls'[b].step = "complete" PROVE listener'[Current(b)'] = "ended"
      BY <3>1, <3>4, <2>1, <2>2 DEF CallsAlone
    <3> QED
      BY <3>1, <3>2, <3>3, <3>4 DEF CallsAlone
  <2>7. SettledForAReason'
    BY <2>1, <2>2 DEF ModulesInv, SettledForAReason, Busy
  <2> QED
    BY <2>3, <2>4, <2>5, <2>6, <2>7 DEF ModulesInv
<1>3. CASE waited[e] = "rejected"
  <2>1. TaskFails(c) /\ UNCHANGED done
    BY <1>3 DEF Complete
  <2> QED
    BY <2>1, <1>3, FailKeeps
<1>4. CASE waited[e] \in {"none", "settled"}
  <2>1. TaskStops(c) /\ done' = done \union {e}
    BY <1>4 DEF Complete
  <2>2. trouble = {} => Finished(e)
    BY <1>4 DEF Finished
  <2> QED
    BY <2>1, <2>2, AdvanceKeeps
<1> QED
  BY <1>1, <1>2, <1>3, <1>4

\* The first call that reaches an event emits it.
LEMMA EmitModuleKeeps ==
  ASSUME ModulesInv, NEW c \in Start, calls[c].step = "task", Current(c)[2] # "end",
         Current(c) \notin triggered, triggered' = triggered \cup {Current(c)},
         listener' = [listener EXCEPT ![Current(c)] = "running"],
         calls' = [calls EXCEPT ![c].step = "emit"],
         UNCHANGED <<promise, done, waited, trouble, onTaskStop>>
  PROVE  ModulesInv'
<1> DEFINE e == Current(c)
<1>1. e \in Event
  BY TaskOf
<1>2. /\ \A b \in Start : /\ calls'[b].module = calls[b].module /\ calls'[b].at = calls[b].at
                          /\ Current(b)' = Current(b)
                          /\ b # c => calls'[b] = calls[b]
      /\ calls'[c].step = "emit"
      /\ calls' \in [Start -> [module : Module \cup {"none"}, at : Nat \ {0},
                              step : {"idle", "task", "emit", "complete", "stopped", "failed", "refused"}]]
  BY DEF ModulesInv, TypeOK, Current
<1>3. /\ \A f \in Event : f # e => listener'[f] = listener[f]
      /\ listener'[e] = "running" /\ listener[e] = "waiting"
  BY <1>1 DEF ModulesInv, TypeOK, ListenersTriggered
<1>4. TypeOK'
  BY <1>1, <1>2 DEF ModulesInv, TypeOK
<1>5. CallsProgress'
  <2>1. \A b \in Start : calls'[b].step = "idle" <=> calls[b].step = "idle"
    BY <1>2
  <2>2. \A b \in Start : b # c => (calls'[b].step \in {"emit", "complete"} => calls[b].step \in {"emit", "complete"})
    BY <1>2
  <2> QED
    BY <2>1, <2>2, <1>2 DEF ModulesInv, CallsProgress
<1>6. ListenersTriggered'
  BY <1>1, <1>3 DEF ModulesInv, ListenersTriggered
<1>7. \A f \in Event : Finished(f) => Finished(f)'
  BY <1>3 DEF Finished
<1>8. trouble' = {} => CallsAlone'
  <2> SUFFICES ASSUME trouble = {} PROVE CallsAlone'
    OBVIOUS
  <2>1. CallsAlone
    BY DEF ModulesInv
  <2>2. \A b \in Start : Busy(b)' => Busy(b)
    BY <1>2 DEF Busy
  <2>3. ASSUME NEW f \in triggered' \ done' PROVE AtItOrRejected(f)'
    <3>1. CASE f = e
      BY <3>1, <1>2 DEF AtItOrRejected
    <3>2. CASE f # e
      <4>1. AtItOrRejected(f)
        BY <2>1, <2>3, <3>2 DEF CallsAlone
      <4> QED
        BY <4>1, <1>2 DEF AtItOrRejected
    <3> QED
      BY <3>1, <3>2
  <2>4. ASSUME NEW b \in Start, calls'[b].step = "complete" PROVE listener'[Current(b)'] = "ended"
    <3>1. b # c /\ calls[b].step = "complete"
      BY <2>4, <1>2
    <3>2. Current(b) \in triggered /\ listener[Current(b)] = "ended"
      BY <3>1, <2>1 DEF ModulesInv, CallsProgress, CallsAlone
    <3> QED
      BY <3>2, <1>2, <1>3 DEF ModulesInv, TypeOK
  <2> QED
    BY <2>1, <2>2, <2>3, <2>4 DEF CallsAlone
<1>9. DependencyOrderWhenAlone'
  <2> SUFFICES ASSUME trouble = {} PROVE DependencyOrder' /\ DoneIsFinished'
    BY DEF DependencyOrderWhenAlone
  <2>1. DependencyOrder /\ DoneIsFinished
    BY DEF ModulesInv, DependencyOrderWhenAlone
  <2>2. DoneIsFinished'
    BY <2>1, <1>7 DEF DoneIsFinished, ModulesInv, TypeOK
  <2>3. ASSUME NEW f \in Event, listener'[f] # "waiting", NEW b \in Before(f)
        PROVE  Finished(b)'
    <3>1. b \in Event /\ b[2] # "end"
      BY <2>3, ModulesAssumption DEF Before, Event, Phase
    <3>2. CASE f = e
      <4>1. b \in done
        BY <3>1, <3>2, <2>3, ReachedInOrder
      <4> QED
        BY <4>1, <2>1, <1>7, <3>1 DEF DoneIsFinished
    <3>3. CASE f # e
      BY <3>3, <3>1, <2>3, <2>1, <1>3, <1>7 DEF DependencyOrder
    <3> QED
      BY <3>2, <3>3
  <2> QED
    BY <2>2, <2>3 DEF DependencyOrder
<1>10. SettledForAReason'
  BY <1>2 DEF ModulesInv, SettledForAReason
<1> QED
  BY <1>4, <1>5, <1>6, <1>8, <1>9, <1>10 DEF ModulesInv

\* trigger() emits the event, or completes it when it was triggered before.
LEMMA TriggerKeeps ==
  ASSUME ModulesInv, NEW c \in Start, Trigger(c)
  PROVE  ModulesInv'
<1>1. /\ calls[c].step = "task" /\ Current(c)[2] # "end" /\ Busy(c)
      /\ UNCHANGED <<waited, trouble, onTaskStop>>
  BY DEF Trigger, Busy
<1>2. CASE Current(c) \in triggered
  <2>1. Complete(c) /\ UNCHANGED <<triggered, listener>>
    BY <1>2 DEF Trigger
  <2>2. ASSUME trouble = {}
        PROVE  waited[Current(c)] = "rejected" \/ listener[Current(c)] = "ended"
    <3>1. CallsAlone /\ DoneIsFinished
      BY <2>2 DEF ModulesInv, DependencyOrderWhenAlone
    <3>2. CASE Current(c) \in done
      BY <3>1, <3>2 DEF DoneIsFinished, Finished
    <3>3. CASE Current(c) \notin done
      <4>1. AtItOrRejected(Current(c))
        BY <3>1, <3>3, <1>2 DEF CallsAlone
      <4>2. ASSUME NEW b \in Start, calls[b].step \in {"emit", "complete"} PROVE FALSE
        BY <4>2, <3>1, <1>1 DEF CallsAlone, Busy
      <4> QED
        BY <4>1, <4>2 DEF AtItOrRejected
    <3> QED
      BY <3>2, <3>3
  <2> QED
    BY <1>1, <1>2, <2>1, <2>2, CompleteKeeps
<1>3. CASE Current(c) \notin triggered
  BY <1>1, <1>3, EmitModuleKeeps DEF Trigger
<1> QED
  BY <1>2, <1>3

\* The call that emitted goes on when the listener ended, or fails with it.
LEMMA EmitEndsKeeps ==
  ASSUME ModulesInv, NEW c \in Start, EmitEnds(c)
  PROVE  ModulesInv'
<1>1. /\ calls[c].step = "emit" /\ Busy(c) /\ Current(c) \in triggered
      /\ listener[Current(c)] \in {"ended", "failed"}
      /\ UNCHANGED <<triggered, listener, waited, trouble, onTaskStop>>
  BY DEF EmitEnds, Busy, ModulesInv, CallsProgress
<1>2. Current(c) \in Event /\ Current(c)[2] # "end"
  BY <1>1 DEF ModulesInv, TypeOK, Event, Phase
<1>3. CASE listener[Current(c)] = "failed"
  <2>1. TaskFails(c) /\ UNCHANGED done /\ trouble # {}
    BY <1>2, <1>3 DEF EmitEnds, ModulesInv, ListenersTriggered
  <2> QED
    BY <1>1, <2>1, FailKeeps
<1>4. CASE listener[Current(c)] = "ended"
  BY <1>1, <1>2, <1>4, CompleteKeeps DEF EmitEnds
<1> QED
  BY <1>1, <1>3, <1>4

\* The promises of the event have settled.
LEMMA CompleteEndsKeeps ==
  ASSUME ModulesInv, NEW c \in Start, CompleteEnds(c)
  PROVE  ModulesInv'
<1>1. /\ calls[c].step = "complete" /\ Busy(c) /\ Current(c) \in triggered /\ Complete(c)
      /\ UNCHANGED <<triggered, listener, waited, trouble, onTaskStop>>
  BY DEF CompleteEnds, Busy, ModulesInv, CallsProgress
<1>2. Current(c) \in Event /\ Current(c)[2] # "end"
  BY <1>1 DEF ModulesInv, TypeOK, Event, Phase
<1>3. trouble = {} => listener[Current(c)] = "ended"
  BY <1>1 DEF ModulesInv, CallsAlone
<1> QED
  BY <1>1, <1>2, <1>3, CompleteKeeps

\* start() is called.
LEMMA CallStartKeeps ==
  ASSUME ModulesInv, NEW c \in Start, NEW m \in Module, CallStart(c, m)
  PROVE  ModulesInv'
<1>1. /\ calls[c].step = "idle"
      /\ calls' = [calls EXCEPT ![c] = [module |-> m, at |-> 1, step |-> "task"]]
      /\ promise' = [promise EXCEPT ![c] = "pending"]
      /\ trouble \subseteq trouble' /\ trouble' \subseteq trouble \union {"overlap"}
      /\ trouble' = {} => \A b \in Start : ~Busy(b)
      /\ UNCHANGED <<triggered, done, listener, waited>>
      /\ onTaskStop' = onTaskStop + 1
  BY DEF CallStart
<1>2. /\ \A b \in Start : b # c => /\ calls'[b] = calls[b] /\ promise'[b] = promise[b]
                                   /\ Current(b)' = Current(b)
      /\ calls'[c] = [module |-> m, at |-> 1, step |-> "task"] /\ promise'[c] = "pending"
      /\ promise[c] = "none"
  BY <1>1 DEF ModulesInv, TypeOK, Current, CallsProgress
<1>3. 1 \in DOMAIN Tasks[m]
  <2>1. Tasks[m] \in Seq(Task) /\ Tasks[m] # <<>>
    BY ModulesAssumption, TasksAreOrdered
  <2> QED
    BY <2>1, EmptySeq, LenProperties
<1>4. TypeOK'
  BY <1>1 DEF ModulesInv, TypeOK
<1>5. CallsProgress'
  BY <1>1, <1>2, <1>3 DEF ModulesInv, CallsProgress
<1>6. ListenersTriggered'
  BY <1>1 DEF ModulesInv, ListenersTriggered
<1>7. trouble' = {} => CallsAlone'
  <2> SUFFICES ASSUME trouble' = {} PROVE CallsAlone'
    OBVIOUS
  <2>1. CallsAlone /\ trouble = {}
    BY <1>1 DEF ModulesInv
  <2>2. \A b \in Start : Busy(b)' => b = c
    BY <1>1, <1>2 DEF Busy
  <2>3. ASSUME NEW f \in triggered' \ done' PROVE AtItOrRejected(f)'
    BY <2>1, <2>3, <1>1, <1>2 DEF CallsAlone, AtItOrRejected
  <2>4. \A b \in Start : calls'[b].step = "complete" => b # c
    BY <1>2
  <2> QED
    BY <2>1, <2>2, <2>3, <2>4, <1>1, <1>2 DEF CallsAlone
<1>8. DependencyOrderWhenAlone'
  BY <1>1 DEF ModulesInv, DependencyOrderWhenAlone, DependencyOrder, DoneIsFinished, Finished
<1>9. SettledForAReason'
  <2>1. ASSUME NEW b \in Start, promise'[b] = "resolved"
        PROVE  <<calls'[b].module, "ready">> \in done'
    BY <2>1, <1>1, <1>2 DEF ModulesInv, SettledForAReason
  <2>2. ASSUME NEW b \in Start, promise'[b] = "rejected"
        PROVE  calls'[b].step = "refused" \/ \E d \in Start : calls'[d].step = "failed"
    <3>1. calls[b].step = "refused" \/ \E d \in Start : calls[d].step = "failed"
      BY <2>2, <1>2 DEF ModulesInv, SettledForAReason
    <3> QED
      BY <2>2, <3>1, <1>1, <1>2
  <2>3. ASSUME NEW b \in Start, calls'[b].step = "refused"
        PROVE  MaxListeners # 0 /\ onTaskStop' > MaxListeners
    <3>1. calls[b].step = "refused"
      BY <2>3, <1>2
    <3>2. MaxListeners # 0 /\ onTaskStop > MaxListeners
      BY <3>1 DEF ModulesInv, SettledForAReason
    <3> QED
      BY <3>2, <1>1, ModulesAssumption DEF ModulesInv, TypeOK
  <2> QED
    BY <2>1, <2>2, <2>3 DEF SettledForAReason
<1> QED
  BY <1>4, <1>5, <1>6, <1>7, <1>8, <1>9 DEF ModulesInv

\* start() is refused: nothing was started.
LEMMA StartRefusedKeeps ==
  ASSUME ModulesInv, NEW c \in Start, NEW m \in Module, StartRefused(c, m)
  PROVE  ModulesInv'
<1>1. /\ calls[c].step = "idle"
      /\ calls' = [calls EXCEPT ![c] = [module |-> m, at |-> 1, step |-> "refused"]]
      /\ promise' = [promise EXCEPT ![c] = "rejected"]
      /\ UNCHANGED <<triggered, done, listener, waited, trouble, onTaskStop>>
      /\ MaxListeners # 0 /\ onTaskStop > MaxListeners
  BY ModulesAssumption DEF StartRefused, HasRoom, ModulesInv, TypeOK
<1>2. /\ \A b \in Start : b # c => /\ calls'[b] = calls[b] /\ promise'[b] = promise[b]
                                   /\ Current(b)' = Current(b)
      /\ calls'[c] = [module |-> m, at |-> 1, step |-> "refused"] /\ promise'[c] = "rejected"
      /\ promise[c] = "none"
  BY <1>1 DEF ModulesInv, TypeOK, Current, CallsProgress
<1>3. 1 \in DOMAIN Tasks[m]
  <2>1. Tasks[m] \in Seq(Task) /\ Tasks[m] # <<>>
    BY ModulesAssumption, TasksAreOrdered
  <2> QED
    BY <2>1, EmptySeq, LenProperties
<1>4. TypeOK'
  BY <1>1 DEF ModulesInv, TypeOK
<1>5. CallsProgress'
  BY <1>1, <1>2, <1>3 DEF ModulesInv, CallsProgress
<1>6. ListenersTriggered'
  BY <1>1 DEF ModulesInv, ListenersTriggered
<1>7. trouble' = {} => CallsAlone'
  <2> SUFFICES ASSUME trouble' = {} PROVE CallsAlone'
    OBVIOUS
  <2>1. CallsAlone /\ trouble = {}
    BY <1>1 DEF ModulesInv
  <2>2. \A b \in Start : Busy(b)' => Busy(b) /\ b # c
    BY <1>1, <1>2 DEF Busy
  <2>3. ASSUME NEW f \in triggered' \ done' PROVE AtItOrRejected(f)'
    BY <2>1, <2>3, <1>1, <1>2 DEF CallsAlone, AtItOrRejected
  <2>4. \A b \in Start : calls'[b].step = "complete" => b # c
    BY <1>2
  <2> QED
    BY <2>1, <2>2, <2>3, <2>4, <1>1, <1>2 DEF CallsAlone
<1>8. DependencyOrderWhenAlone'
  BY <1>1 DEF ModulesInv, DependencyOrderWhenAlone, DependencyOrder, DoneIsFinished, Finished
<1>9. SettledForAReason'
  BY <1>1, <1>2 DEF ModulesInv, SettledForAReason
<1> QED
  BY <1>4, <1>5, <1>6, <1>7, <1>8, <1>9 DEF ModulesInv

\* The listener of an event that runs, and the promise it gave, go on.
LEMMA ListenerKeeps ==
  ASSUME ModulesInv, NEW e \in Event, WaitUntil(e) \/ Ends(e) \/ Settles(e)
  PROVE  ModulesInv'
<1>1. /\ UNCHANGED <<calls, promise, triggered, done, onTaskStop>>
      /\ trouble \subseteq trouble' /\ trouble' \subseteq trouble \union {"failed"}
      /\ listener' \in [Event -> {"waiting", "running", "ended", "failed"}]
      /\ waited' \in [Event -> {"none", "pending", "settled", "rejected"}]
      /\ \A f \in Event : listener'[f] = listener[f] \/ listener[f] = "running"
      /\ \A f \in Event : listener'[f] = "waiting" <=> listener[f] = "waiting"
      /\ \A f \in Event : listener'[f] = "failed" => listener[f] = "failed" \/ trouble' # {}
      /\ \A f \in Event : waited'[f] = waited[f] \/ waited[f] = "pending" \/ listener[f] = "running"
      /\ \A f \in Event : waited[f] = "rejected" => waited'[f] = "rejected"
  <2>1. CASE WaitUntil(e)
    BY <2>1 DEF WaitUntil, ModulesInv, TypeOK
  <2>2. CASE Ends(e)
    BY <2>2 DEF Ends, ListenerEnds, ModulesInv, TypeOK
  <2>3. CASE Settles(e)
    BY <2>3 DEF Settles, PromiseSettles, ModulesInv, TypeOK
  <2> QED
    BY <2>1, <2>2, <2>3
<1>2. \A f \in Event : Finished(f) => Finished(f)'
  BY <1>1 DEF Finished
<1>3. TypeOK'
  BY <1>1 DEF ModulesInv, TypeOK
<1>4. CallsProgress' /\ SettledForAReason'
  BY <1>1 DEF ModulesInv, CallsProgress, Current, SettledForAReason
<1>5. ListenersTriggered'
  BY <1>1 DEF ModulesInv, ListenersTriggered
<1>6. ASSUME trouble' = {} PROVE CallsAlone' /\ DependencyOrder' /\ DoneIsFinished'
  <2>1. CallsAlone /\ DependencyOrder /\ DoneIsFinished
    BY <1>1, <1>6 DEF ModulesInv, DependencyOrderWhenAlone
  <2>2. \A b \in Start : Current(b)' = Current(b) /\ Busy(b)' = Busy(b)
    BY <1>1 DEF Current, Busy
  <2>3. ASSUME NEW f \in triggered' \ done' PROVE AtItOrRejected(f)'
    <3>1. AtItOrRejected(f) /\ f \in Event
      BY <2>1, <2>3, <1>1 DEF CallsAlone, ModulesInv, TypeOK
    <3> QED
      BY <3>1, <1>1, <2>2 DEF AtItOrRejected
  <2>4. ASSUME NEW b \in Start, calls'[b].step = "complete" PROVE listener'[Current(b)'] = "ended"
    <3>1. Current(b) \in Event /\ listener[Current(b)] = "ended"
      BY <2>4, <2>1, <1>1 DEF CallsAlone, ModulesInv, CallsProgress, TypeOK
    <3> QED
      BY <3>1, <1>1, <2>2
  <2>5. CallsAlone'
    BY <2>1, <2>2, <2>3, <2>4 DEF CallsAlone
  <2>6. ASSUME NEW f \in Event, listener'[f] # "waiting", NEW b \in Before(f)
        PROVE  Finished(b)'
    <3>1. b \in Event
      BY <2>6, ModulesAssumption DEF Before, Event, Phase
    <3> QED
      BY <3>1, <2>6, <2>1, <1>1, <1>2 DEF DependencyOrder
  <2>7. DoneIsFinished'
    BY <2>1, <1>1, <1>2 DEF DoneIsFinished, ModulesInv, TypeOK
  <2> QED
    BY <2>5, <2>6, <2>7 DEF DependencyOrder
<1> QED
  BY <1>3, <1>4, <1>5, <1>6 DEF ModulesInv, DependencyOrderWhenAlone

LEMMA ModulesInitInv == Init => ModulesInv
<1> SUFFICES ASSUME Init PROVE ModulesInv
  OBVIOUS
<1>1. \A c \in Start : calls[c] = [module |-> "none", at |-> 1, step |-> "idle"] /\ promise[c] = "none"
  BY DEF Init
<1>2. TypeOK
  BY DEF Init, TypeOK
<1>3. CallsProgress /\ SettledForAReason
  BY <1>1 DEF CallsProgress, SettledForAReason
<1>4. ListenersTriggered /\ CallsAlone
  BY <1>1 DEF Init, ListenersTriggered, CallsAlone, Busy
<1>5. DependencyOrderWhenAlone
  BY DEF Init, DependencyOrderWhenAlone, DependencyOrder, DoneIsFinished
<1> QED
  BY <1>2, <1>3, <1>4, <1>5 DEF ModulesInv

\* Every step of start() and of the listeners keeps the invariant.
LEMMA ModulesStep == ModulesInv /\ [Next]_vars => ModulesInv'
<1> SUFFICES ASSUME ModulesInv, [Next]_vars PROVE ModulesInv'
  OBVIOUS
<1>1. ASSUME NEW c \in Start, NEW m \in Module, CallStart(c, m) PROVE ModulesInv'
  BY <1>1, CallStartKeeps
<1>2. ASSUME NEW c \in Start, EndTask(c) PROVE ModulesInv'
  BY <1>2, AdvanceKeeps DEF EndTask, Busy
<1>3. ASSUME NEW c \in Start, Trigger(c) \/ EmitEnds(c) \/ CompleteEnds(c) PROVE ModulesInv'
  BY <1>3, TriggerKeeps, EmitEndsKeeps, CompleteEndsKeeps
<1>4. ASSUME NEW e \in Event, WaitUntil(e) \/ Ends(e) \/ Settles(e) PROVE ModulesInv'
  BY <1>4, ListenerKeeps
<1>5. CASE UNCHANGED vars
  BY <1>5 DEF vars, ModulesInv, TypeOK, CallsProgress, ListenersTriggered, CallsAlone, Busy,
              Current, AtItOrRejected, DependencyOrderWhenAlone, DependencyOrder, DoneIsFinished,
              Finished, SettledForAReason
<1>6. ASSUME NEW c \in Start, NEW m \in Module, StartRefused(c, m) PROVE ModulesInv'
  BY <1>6, StartRefusedKeeps
<1> QED
  BY <1>1, <1>2, <1>3, <1>4, <1>5, <1>6 DEF Next, Goes

\* No step lets a listener that ended or failed run again.
LEMMA ListenerStep ==
  ASSUME ModulesInv, [Next]_vars, NEW e \in Event, listener[e] \in {"ended", "failed"}
  PROVE  listener'[e] = listener[e]
<1>1. ASSUME NEW c \in Start, Trigger(c) PROVE listener'[e] = listener[e]
  <2>1. CASE Current(c) \notin triggered
    <3>1. Current(c) # e
      BY <2>1 DEF ModulesInv, ListenersTriggered
    <3> QED
      BY <3>1, <1>1 DEF Trigger, ModulesInv, TypeOK
  <2> QED
    BY <2>1, <1>1 DEF Trigger
<1>2. ASSUME NEW f \in Event, Ends(f) PROVE listener'[e] = listener[e]
  BY <1>2 DEF Ends, ListenerEnds, ModulesInv, TypeOK
<1>3. ASSUME NEW c \in Start, NEW m \in Module, CallStart(c, m) \/ StartRefused(c, m)
      PROVE  listener'[e] = listener[e]
  BY <1>3 DEF CallStart, StartRefused
<1>4. ASSUME NEW c \in Start, EndTask(c) \/ EmitEnds(c) \/ CompleteEnds(c)
      PROVE  listener'[e] = listener[e]
  BY <1>4 DEF EndTask, EmitEnds, CompleteEnds
<1>5. ASSUME NEW f \in Event, WaitUntil(f) \/ Settles(f) PROVE listener'[e] = listener[e]
  BY <1>5 DEF WaitUntil, Settles, PromiseSettles
<1>6. CASE UNCHANGED vars
  BY <1>6 DEF vars
<1> QED
  BY <1>1, <1>2, <1>3, <1>4, <1>5, <1>6 DEF Next, Goes

\* The listener of an event runs once however many calls of start() share its
\* module; start() resolves when its module is ready, and rejects when a task
\* failed or when the orchestrator has as many listeners as it may; and a call
\* that is alone runs the listeners in the order of dependencies, through every
\* await (module.ts:68-122, 348-362, orchestrator.ts:44-77).
THEOREM ModulesStartInOrder == Spec => StartsInOrder
<1>1. Spec => []ModulesInv
  BY ModulesInitInv, ModulesStep, PTL DEF Spec
<1>2. ModulesInv => TypeOK /\ DependencyOrderWhenAlone /\ SettledForAReason
  BY DEF ModulesInv
<1>3. ModulesInv /\ [Next]_vars =>
        [\A e \in Event : listener[e] \in {"ended", "failed"} => UNCHANGED listener[e]]_vars
  BY ListenerStep
<1> QED
  BY <1>1, <1>2, <1>3, PTL DEF Spec, StartsInOrder, ListenerRunsOnce

------------------------------------------------------------------------------
\* A composite that a request is in.
Frame ==
  [of : Composites, handles : BOOLEAN, index : Nat \ {0}, limit : Nat,
   error : Error \union {Unhandled}, failed : BOOLEAN, path : Seq(Segments)]

\* What each variable of a request holds.
RequestTypes ==
  /\ sync \in BOOLEAN /\ broken \in BOOLEAN /\ dropped \in BOOLEAN /\ shifted \in BOOLEAN
  /\ members \in [Composites -> Stack] /\ entered \in Seq(Frame)
  /\ path \in Seq(Segments) /\ began \in Seq(Segments)
  /\ called \in Middleware \union {None} /\ asked \in Seq(Middleware)
  /\ reply \in Answer \union {None} /\ outcome \in Answer \union {None}
  /\ gave \in Middleware \union {None} /\ failure \in Error \union {None}

\* A member of the innermost composite is at work, or has answered.
Pending == called # None \/ reply # None

\* One member is at work at a time, of the kind its composite is looking for,
\* and a request is over when it is in no composite.
OneAtATime ==
  /\ called = None \/ reply = None
  /\ entered = <<>> <=> outcome # None
  /\ entered = <<>> => ~Pending
  /\ called # None => called \in IF Innermost.failed THEN ErrorHandlers ELSE Handlers

\* A composite is at one of its members, or past the last when it waits for
\* none.  One that is asked to handle an error tries error middlewares only, and
\* none of those around one that is asked to handle the request does.
FramesProgress ==
  \A k \in 1..Len(entered) :
    /\ entered[k].index <= Len(members[entered[k].of]) + 1
    /\ entered[k].limit <= Len(members[entered[k].of])
    /\ k < Len(entered) \/ Pending => entered[k].index <= Len(members[entered[k].of])
    /\ ~entered[k].handles => entered[k].failed
    /\ entered[k].handles => \A j \in 1..(k - 1) : ~entered[j].failed

\* An error that is answered or kept was returned, and one that lets the standard
\* middlewares go on is a refusal.
ErrorsKnown ==
  /\ reply \in Error => failure # None
  /\ \A k \in 1..Len(entered) :
       /\ entered[k].failed => entered[k].error # Unhandled
       /\ entered[k].error # Unhandled => failure # None
       /\ entered[k].error # Unhandled /\ ~entered[k].failed => entered[k].error.is = "refusal"

\* Unless a result was given or 'break' was said, the last error returned is the
\* outcome, or the answer, or the error of the innermost composite that has one.
LatestKept ==
  gave = None /\ ~broken =>
    /\ outcome # None => outcome = IF failure = None THEN Unhandled ELSE failure
    /\ reply \in Error => reply = failure
    /\ outcome = None /\ reply \notin Error /\ failure # None =>
         \E k \in 1..Len(entered) :
           entered[k].error = failure /\ \A j \in (k + 1)..Len(entered) : entered[j].error = Unhandled

\* A result that is answered was given by a middleware, or is what a composite
\* makes of 'break'; the one given is the answer, then the outcome, unless dropped.
ResultsKnown ==
  /\ \A a \in {reply, outcome} \ {None} :
       /\ a = Break => broken
       /\ a.is = "result" => gave # None \/ (a = BreakResult /\ broken)
  /\ gave # None /\ ~dropped =>
       called = None /\ (IF outcome = None THEN reply ELSE outcome) = Result(gave)

\* The path is what is left of the one the request came with after the routes it
\* is in, and so was the one that each composite will put back.
Routes(st, n) == {k \in 1..n : st[k].handles /\ RouteOf[st[k].of] # None}
LeftAfter(R, p) == Cardinality(R) <= Len(began) /\ p = SubSeq(began, Cardinality(R) + 1, Len(began))
PathsKept ==
  /\ LeftAfter(Routes(entered, Len(entered)), path)
  /\ \A k \in 1..Len(entered) : LeftAfter(Routes(entered, k - 1), entered[k].path)

\* A member is in one place.
Apart(ms) ==
  /\ \A c, d \in Composites : \A i \in DOMAIN ms[c], j \in DOMAIN ms[d] :
       ms[c][i].node = ms[d][j].node => c = d /\ i = j
  /\ \A c \in Composites : \A i \in DOMAIN ms[c] : ms[c][i].node # Root

\* The request went past a member: its composite was left, and is in S, or is at
\* a later member, or at this one, which is at work or has answered.
Passed(c, i, S) ==
  \/ c \in S
  \/ \E k \in 1..Len(entered) :
       /\ entered[k].of = c
       /\ i < entered[k].index \/ (k = Len(entered) /\ i = entered[k].index /\ Pending)
Past(n, S) ==
  \E c \in Composites : \E i \in DOMAIN members[c] : members[c][i].node = n /\ Passed(c, i, S)

\* The composites the request is in are one inside the other.
Chained ==
  /\ entered # <<>> => entered[1].of = Root
  /\ \A j, k \in 1..Len(entered) : entered[j].of = entered[k].of => j = k
  /\ \A k \in 1..(Len(entered) - 1) :
       members[entered[k].of][entered[k].index].node = entered[k + 1].of

\* S is the composites that were left: the request is in none of them, and went
\* past them and past every middleware that was called.
LeftBehind(S) ==
  /\ \A k \in 1..Len(entered) : entered[k].of \notin S
  /\ \A n \in ToSet(asked) \union (S \ {Root}) : Past(n, S)

\* Unless a member was added before one that was tried, the request goes through
\* the tree in order, so it does not come back to what it went past.
Tree ==
  /\ Apart(members)
  /\ ~shifted => Chained /\ IsInjective(asked) /\ \E S \in SUBSET Composites : LeftBehind(S)

RequestInv ==
  /\ RequestTypes /\ OneAtATime /\ FramesProgress /\ ErrorsKnown /\ LatestKept
  /\ ResultsKnown /\ PathsKept /\ Tree

-----------------------------------------------------------------------------
\* The answers are told apart by what they are.
LEMMA AnswerKinds ==
  /\ \A l \in Middleware : /\ Failure(l) \in Error /\ Failure(l).is = "error"
                           /\ Refusal(l) \in Error /\ Refusal(l).is = "refusal"
                           /\ Result(l) \in Answer /\ Result(l).is = "result"
                           /\ Result(l) # BreakResult /\ Result(l) # NoResult
  /\ {Unhandled, Break, BreakResult, NoResult} \subseteq Answer /\ Error \subseteq Answer
  /\ Unhandled.is = "next" /\ Break.is = "break" /\ BreakResult.is = "result" /\ NoResult.is = "result"
  /\ BreakResult # NoResult
  /\ \A a \in Answer : /\ a.is \in {"next", "break", "error", "refusal", "result"}
                       /\ a.is \in {"error", "refusal"} <=> a \in Error
                       /\ a.is = "next" <=> a = Unhandled
                       /\ a.is = "break" <=> a = Break
  /\ None \notin Answer /\ None \notin Middleware
<1>1. /\ \A l : Failure(l).is = "error" /\ Refusal(l).is = "refusal" /\ Result(l).is = "result" /\ Result(l).of = l
      /\ Unhandled.is = "next" /\ Break.is = "break"
  BY DEF Failure, Refusal, Result, Unhandled, Break
<1>2. {"break", "undefined", None} \intersect Middleware = {} /\ None \notin Answer
  BY MiddlewaresAssumption
<1>3. \A l \in Middleware : Failure(l) \in Error /\ Refusal(l) \in Error /\ Result(l) \in Answer
  BY DEF Error, Answer
<1>4. BreakResult.of = "break" /\ NoResult.of = "undefined" /\ BreakResult.is = "result" /\ NoResult.is = "result"
  BY <1>1 DEF BreakResult, NoResult
<1>5. {Unhandled, Break, BreakResult, NoResult} \subseteq Answer /\ Error \subseteq Answer
  BY DEF Answer, BreakResult, NoResult
<1>6. ASSUME NEW a \in Error PROVE a.is \in {"error", "refusal"}
  <2>1. \E l \in Middleware : a = Failure(l) \/ a = Refusal(l)
    BY DEF Error
  <2> QED
    BY <2>1, <1>1
<1>7. ASSUME NEW a \in Answer PROVE a \in Error \/ a.is = "result" \/ a = Unhandled \/ a = Break
  BY <1>1 DEF Answer
<1>8. \A l \in Middleware : Result(l) # BreakResult /\ Result(l) # NoResult
  <2> TAKE l \in Middleware
  <2>1. l # "break" /\ l # "undefined" /\ Result(l).of = l
    BY <1>1, <1>2
  <2> QED
    BY <2>1, <1>4
<1> HIDE DEF Error, Answer, Unhandled, Break, BreakResult, NoResult
<1>9. \A a \in Answer : /\ a.is \in {"next", "break", "error", "refusal", "result"}
                        /\ a.is \in {"error", "refusal"} <=> a \in Error
                        /\ a.is = "next" <=> a = Unhandled
                        /\ a.is = "break" <=> a = Break
  BY <1>1, <1>6, <1>7
<1> QED
  BY <1>1, <1>2, <1>3, <1>4, <1>5, <1>8, <1>9

\* What a frame is made of.
LEMMA FrameFields ==
  ASSUME NEW f \in Frame
  PROVE  /\ f.of \in Composites /\ f.handles \in BOOLEAN /\ f.failed \in BOOLEAN
         /\ f.index \in Nat /\ f.index # 0 /\ f.limit \in Nat
         /\ f.error \in Error \union {Unhandled} /\ f.path \in Seq(Segments)
  BY DEF Frame

\* The stack of a composite.
LEMMA StackOf ==
  ASSUME NEW ms \in [Composites -> Stack], NEW c \in Composites
  PROVE  /\ Len(ms[c]) \in Nat /\ DOMAIN ms[c] = 1..Len(ms[c])
         /\ \A i \in 1..Len(ms[c]) : ms[c][i].node \in Composites \union Middleware
<1>1. PICK s : s = ms[c]
  OBVIOUS
<1>2. s \in Seq([priority : Int, node : Composites \union Middleware])
  BY <1>1 DEF Stack
<1>3. Len(s) \in Nat /\ DOMAIN s = 1..Len(s)
      /\ \A i \in 1..Len(s) : s[i] \in [priority : Int, node : Composites \union Middleware]
  <2> DEFINE Entry == [priority : Int, node : Composites \union Middleware]
  <2>1. s \in Seq(Entry)
    BY <1>2
  <2> HIDE DEF Entry
  <2>2. Len(s) \in Nat /\ DOMAIN s = 1..Len(s) /\ \A i \in 1..Len(s) : s[i] \in Entry
    BY <2>1, LenProperties
  <2> QED
    BY <2>2 DEF Entry
<1>4. \A i \in 1..Len(s) : s[i].node \in Composites \union Middleware
  BY <1>3
<1> QED
  BY <1>1, <1>3, <1>4

\* The innermost composite, and those around it.
LEMMA Inside ==
  ASSUME entered \in Seq(Frame), entered # <<>>
  PROVE  /\ Len(entered) \in Nat /\ Len(entered) >= 1 /\ Innermost = entered[Len(entered)]
         /\ Innermost \in Frame
         /\ Around \in Seq(Frame) /\ Len(Around) = Len(entered) - 1
         /\ \A k \in 1..(Len(entered) - 1) : Around[k] = entered[k]
         /\ \A k \in 1..Len(entered) : entered[k] \in Frame
<1>1. Innermost = entered[Len(entered)]
  BY DEF Innermost, Last
<1>2. \A k \in 1..Len(entered) : entered[k] \in Frame
  BY LenProperties
<1> QED
  BY <1>1, <1>2, FrontOf DEF Around

-----------------------------------------------------------------------------
\* The innermost composite goes on to its next member, with the error e.
Advances(g) ==
  /\ entered # <<>> /\ called = None
  /\ g \in Frame /\ entered' = Append(Around, g)
  /\ g.of = Innermost.of /\ g.handles = Innermost.handles /\ g.limit = Innermost.limit
  /\ g.path = Innermost.path /\ g.index = Innermost.index + 1
  /\ Innermost.index <= Len(members[Innermost.of])
  /\ ~g.handles => g.failed
  /\ g.failed => g.error # Unhandled
  /\ g.error # Unhandled => failure # None
  /\ g.error # Unhandled /\ ~g.failed => g.error.is = "refusal"
  /\ gave = None /\ ~broken => g.error = IF reply \in Error THEN reply ELSE Innermost.error
  /\ gave # None => dropped'
  /\ reply' = None /\ dropped' \in BOOLEAN /\ (dropped => dropped')
  /\ UNCHANGED <<members, path, called, outcome, sync, began, asked, gave, failure, broken, shifted>>

\* Going on to the next member keeps the invariant.
LEMMA NextKeeps ==
  ASSUME RequestInv, NEW g, Advances(g)
  PROVE  RequestInv'
<1>1. /\ RequestTypes /\ OneAtATime /\ FramesProgress /\ ErrorsKnown /\ LatestKept
      /\ ResultsKnown /\ PathsKept /\ Tree
  BY DEF RequestInv
<1>2. /\ members' = members /\ path' = path /\ called' = called /\ outcome' = outcome /\ sync' = sync
      /\ began' = began /\ asked' = asked /\ gave' = gave /\ failure' = failure /\ broken' = broken
      /\ shifted' = shifted /\ reply' = None /\ called = None
      /\ dropped' \in BOOLEAN /\ (dropped => dropped') /\ (gave # None => dropped')
  BY DEF Advances
<1>3. PICK K : K = Len(entered)
  OBVIOUS
<1>4. /\ K \in Nat /\ K >= 1 /\ Innermost = entered[K] /\ entered[K] \in Frame
      /\ \A k \in 1..K : entered[k] \in Frame
  BY <1>1, <1>3, Inside DEF RequestTypes, Advances
<1>5. PICK t : t = entered'
  OBVIOUS
<1>6. t \in Seq(Frame) /\ Len(t) = K /\ t[K] = g /\ \A k \in 1..(K - 1) : t[k] = entered[k]
  <2>1. entered \in Seq(Frame) /\ entered # <<>> /\ g \in Frame /\ t = Append(Front(entered), g)
    BY <1>1, <1>5 DEF RequestTypes, Advances, Around
  <2> QED
    BY <2>1, <1>3, LastReplaced
<1>7. /\ g \in Frame /\ g.of = entered[K].of /\ g.handles = entered[K].handles /\ g.limit = entered[K].limit
      /\ g.path = entered[K].path /\ g.index = entered[K].index + 1
      /\ entered[K].index <= Len(members[entered[K].of])
  BY <1>4 DEF Advances
<1>8. /\ ~g.handles => g.failed
      /\ g.failed => g.error # Unhandled
      /\ g.error # Unhandled => failure # None
      /\ g.error # Unhandled /\ ~g.failed => g.error.is = "refusal"
      /\ gave = None /\ ~broken => g.error = IF reply \in Error THEN reply ELSE entered[K].error
  BY <1>4 DEF Advances
<1>9. \A k \in 1..K : k # K => k \in 1..(K - 1) /\ t[k] = entered[k]
  BY <1>4, <1>6
<1>10. t # <<>> /\ entered # <<>>
  BY <1>3, <1>4, <1>6
<1>11. outcome = None
  BY <1>1, <1>10 DEF OneAtATime
<1>types. RequestTypes'
  BY <1>1, <1>2, <1>5, <1>6 DEF RequestTypes
<1>one. OneAtATime'
  BY <1>2, <1>5, <1>10, <1>11 DEF OneAtATime, Pending
<1>frames. FramesProgress'
  <2>1. ASSUME NEW k \in 1..K
        PROVE  /\ t[k].index <= Len(members[t[k].of]) + 1
               /\ t[k].limit <= Len(members[t[k].of])
               /\ k < K => t[k].index <= Len(members[t[k].of])
               /\ ~t[k].handles => t[k].failed
               /\ t[k].handles => \A j \in 1..(k - 1) : ~t[j].failed
    <3>1. /\ entered[k].index <= Len(members[entered[k].of]) + 1
          /\ entered[k].limit <= Len(members[entered[k].of])
          /\ k < K => entered[k].index <= Len(members[entered[k].of])
          /\ ~entered[k].handles => entered[k].failed
          /\ entered[k].handles => \A j \in 1..(k - 1) : ~entered[j].failed
      BY <1>1, <1>3 DEF FramesProgress
    <3>2. \A j \in 1..(k - 1) : j \in 1..K /\ j # K
      BY <1>4
    <3>3. CASE k # K
      <4>1. t[k] = entered[k]
        BY <1>9, <3>3
      <4> QED
        BY <3>1, <3>2, <4>1, <1>9
    <3>4. CASE k = K
      <4>1. entered[K].index \in Nat /\ Len(members[entered[K].of]) \in Nat
        BY <1>1, <1>4, FrameFields, StackOf DEF RequestTypes
      <4>2. entered[K].index + 1 <= Len(members[entered[K].of]) + 1
        BY <4>1, <1>7
      <4>3. ~ k < K
        BY <1>4, <3>4
      <4> QED
        BY <3>1, <3>2, <3>4, <4>2, <4>3, <1>6, <1>7, <1>8, <1>9
    <3> QED
      BY <3>3, <3>4
  <2> QED
    BY <2>1, <1>2, <1>5, <1>6 DEF FramesProgress, Pending
<1>errors. ErrorsKnown'
  <2>1. None \notin Error
    BY AnswerKinds
  <2>2. ASSUME NEW k \in 1..K
        PROVE  /\ t[k].failed => t[k].error # Unhandled
               /\ t[k].error # Unhandled => failure # None
               /\ t[k].error # Unhandled /\ ~t[k].failed => t[k].error.is = "refusal"
    BY <1>1, <1>3, <1>6, <1>8, <1>9 DEF ErrorsKnown
  <2> QED
    BY <2>1, <2>2, <1>2, <1>5, <1>6 DEF ErrorsKnown
<1>latest. LatestKept'
  <2>1. None \notin Error
    BY AnswerKinds
  <2>2. SUFFICES ASSUME gave = None, ~broken, failure # None
                 PROVE  \E k \in 1..K : t[k].error = failure /\ \A j \in (k + 1)..K : t[j].error = Unhandled
    BY <2>1, <1>2, <1>5, <1>6, <1>11 DEF LatestKept
  <2>3. CASE reply \in Error
    <3>1. t[K].error = failure
      BY <2>2, <2>3, <1>1, <1>6, <1>8 DEF LatestKept
    <3>2. K \in 1..K /\ \A j \in (K + 1)..K : FALSE
      BY <1>4
    <3> QED
      BY <3>1, <3>2
  <2>4. CASE reply \notin Error
    <3>1. PICK k \in 1..K : entered[k].error = failure /\ \A j \in (k + 1)..K : entered[j].error = Unhandled
      BY <2>2, <2>4, <1>1, <1>3, <1>11 DEF LatestKept
    <3>2. \A j \in 1..K : t[j].error = entered[j].error
      BY <2>2, <2>4, <1>6, <1>8, <1>9
    <3>3. \A j \in (k + 1)..K : j \in 1..K
      BY <1>4
    <3> QED
      BY <3>1, <3>2, <3>3
  <2> QED
    BY <2>3, <2>4
<1>results. ResultsKnown'
  BY <1>1, <1>2, <1>11 DEF ResultsKnown
<1>paths. PathsKept'
  <2>1. \A k \in 1..K : t[k].handles = entered[k].handles /\ t[k].of = entered[k].of /\ t[k].path = entered[k].path
    BY <1>6, <1>7, <1>9
  <2>2. ASSUME NEW n \in 0..K PROVE Routes(t, n) = Routes(entered, n)
    <3>1. \A k \in 1..n : k \in 1..K
      BY <1>4
    <3> QED
      BY <2>1, <3>1 DEF Routes
  <2>3. \A R, p : LeftAfter(R, p)' <=> LeftAfter(R, p)
    BY <1>2 DEF LeftAfter
  <2>4. K \in 0..K /\ \A k \in 1..K : k - 1 \in 0..K
    BY <1>4
  <2>5. LeftAfter(Routes(t, K), path) /\ \A k \in 1..K : LeftAfter(Routes(t, k - 1), t[k].path)
    BY <2>1, <2>2, <2>4, <1>1, <1>3 DEF PathsKept
  <2> QED
    BY <2>5, <1>2, <1>5, <1>6 DEF PathsKept, LeftAfter, Routes
<1>tree. Tree'
  <2>1. Apart(members')
    BY <1>1, <1>2 DEF Tree
  <2>2. SUFFICES ASSUME ~shifted
                 PROVE  Chained' /\ IsInjective(asked) /\ \E S \in SUBSET Composites : LeftBehind(S)'
    BY <2>1, <1>2 DEF Tree, LeftBehind, Past, Passed, Pending
  <2>3. PICK S \in SUBSET Composites : LeftBehind(S)
    BY <2>2, <1>1 DEF Tree
  <2>4. Chained /\ IsInjective(asked)
    BY <2>2, <1>1 DEF Tree
  <2>5. \A k \in 1..K : t[k].of = entered[k].of
    BY <1>6, <1>7, <1>9
  <2>6. Chained'
    <3>1. t[1].of = Root
      BY <2>4, <2>5, <1>4, <1>10 DEF Chained
    <3>2. \A j, k \in 1..K : t[j].of = t[k].of => j = k
      BY <2>4, <2>5, <1>3 DEF Chained
    <3>3. \A k \in 1..(K - 1) : members[t[k].of][t[k].index].node = t[k + 1].of
      <4> TAKE k \in 1..(K - 1)
      <4>1. k + 1 \in 1..K
        BY <1>4
      <4> QED
        BY <4>1, <2>4, <2>5, <1>3, <1>6 DEF Chained
    <3> QED
      BY <3>1, <3>2, <3>3, <1>2, <1>5, <1>6 DEF Chained
  <2>7. ASSUME NEW c, NEW i \in Nat, Passed(c, i, S) PROVE Passed(c, i, S)'
    <3>1. CASE c \in S
      BY <3>1 DEF Passed
    <3>2. CASE c \notin S
      <4>1. PICK k \in 1..K : entered[k].of = c /\ (i < entered[k].index \/ (k = K /\ i = entered[k].index))
        BY <2>7, <3>2, <1>3 DEF Passed
      <4>2. entered[k].index \in Nat
        BY <1>4, FrameFields
      <4>3. i < t[k].index
        <5>1. CASE k = K
          <6>1. t[k].index = entered[k].index + 1
            BY <5>1, <1>6, <1>7
          <6> QED
            BY <6>1, <4>1, <4>2
        <5>2. CASE k # K
          <6>1. t[k] = entered[k]
            BY <5>2, <1>9
          <6> QED
            BY <6>1, <5>2, <4>1
        <5> QED
          BY <5>1, <5>2
      <4>4. t[k].of = c
        BY <2>5, <4>1
      <4> QED
        BY <4>3, <4>4, <1>5, <1>6 DEF Passed
    <3> QED
      BY <3>1, <3>2
  <2>8. ASSUME NEW n, Past(n, S) PROVE Past(n, S)'
    <3>1. PICK c \in Composites : \E i \in DOMAIN members[c] : members[c][i].node = n /\ Passed(c, i, S)
      BY <2>8 DEF Past
    <3>2. PICK i \in DOMAIN members[c] : members[c][i].node = n /\ Passed(c, i, S)
      BY <3>1
    <3>3. i \in Nat
      BY <1>1, StackOf DEF RequestTypes
    <3>4. Passed(c, i, S)'
      BY <2>7, <3>2, <3>3
    <3> QED
      BY <3>2, <3>4, <1>2 DEF Past
  <2>9. LeftBehind(S)'
    <3>1. \A k \in 1..K : t[k].of \notin S
      BY <2>3, <2>5, <1>3 DEF LeftBehind
    <3>2. \A n \in ToSet(asked) \union (S \ {Root}) : Past(n, S)'
      BY <2>3, <2>8 DEF LeftBehind
    <3> QED
      BY <3>1, <3>2, <1>2, <1>5, <1>6 DEF LeftBehind
  <2> QED
    BY <2>4, <2>6, <2>9
<1> QED
  BY <1>types, <1>one, <1>frames, <1>errors, <1>latest, <1>results, <1>paths, <1>tree DEF RequestInv
-----------------------------------------------------------------------------
\* The member that is next was not tried.
LEMMA NextIsNew ==
  ASSUME RequestTypes, FramesProgress, Apart(members), Chained, entered # <<>>, ~Pending,
         Innermost.index <= Len(members[Innermost.of]), NEW S, LeftBehind(S)
  PROVE  /\ Innermost.index \in DOMAIN members[Innermost.of] /\ Innermost.of \in Composites
         /\ ~Past(Member, S) /\ Member # Root /\ Member \notin S /\ Member \notin ToSet(asked)
         /\ \A k \in 1..Len(entered) : entered[k].of # Member
<1>1. PICK K : K = Len(entered)
  OBVIOUS
<1>2. /\ K \in Nat /\ K >= 1 /\ Innermost = entered[K] /\ \A k \in 1..K : entered[k] \in Frame
  BY <1>1, Inside DEF RequestTypes
<1>3. PICK c \in Composites : c = Innermost.of
  BY Inside, FrameFields DEF RequestTypes
<1>4. PICK i \in Nat : i = Innermost.index /\ i # 0
  BY Inside, FrameFields DEF RequestTypes
<1>5. i \in DOMAIN members[c]
  BY <1>3, <1>4, StackOf DEF RequestTypes
<1>e. K \in 1..K /\ entered[K].of = c /\ entered[K].index = i
  BY <1>2, <1>3, <1>4
<1>6. Member = members[c][i].node
  BY <1>3, <1>4 DEF Member
<1>7. ~Past(Member, S)
  <2>1. SUFFICES ASSUME NEW d \in Composites, NEW j \in DOMAIN members[d], members[d][j].node = Member, Passed(d, j, S)
                 PROVE  FALSE
    BY DEF Past
  <2>2. d = c /\ j = i
    BY <2>1, <1>3, <1>5, <1>6 DEF Apart
  <2>4. c \notin S
    BY <1>e, <1>1 DEF LeftBehind
  <2>5. PICK k \in 1..K : entered[k].of = c /\ i < entered[k].index
    BY <2>1, <2>2, <2>4, <1>1 DEF Passed
  <2>6. k = K
    BY <1>e, <2>5, <1>1 DEF Chained
  <2> QED
    BY <1>e, <2>5, <2>6, <1>4
<1>8. Member # Root
  BY <1>3, <1>5, <1>6 DEF Apart
<1>9. Member \notin S /\ Member \notin ToSet(asked)
  BY <1>7, <1>8 DEF LeftBehind
<1>10. ASSUME NEW k \in 1..K, entered[k].of = Member PROVE FALSE
  <2>1. k # 1
    BY <1>8, <1>10 DEF Chained
  <2>2. k - 1 \in 1..(K - 1) /\ k - 1 \in 1..K /\ k - 1 + 1 = k /\ k - 1 # K
    BY <2>1, <1>2
  <2>3. PICK j : j = k - 1
    OBVIOUS
  <2>4. members[entered[j].of][entered[j].index].node = Member /\ j \in 1..K /\ j # K
    BY <2>2, <2>3, <1>1, <1>10 DEF Chained
  <2>5. j \in 1..(K - 1) /\ j < K
    BY <2>2, <2>3, <1>2
  <2>6. entered[j] \in Frame
    BY <2>4, <1>2
  <2>7. PICK d \in Composites : d = entered[j].of
    BY <2>6, FrameFields
  <2>8. PICK n \in Nat : n = entered[j].index /\ n # 0
    BY <2>6, FrameFields
  <2>9. n \in DOMAIN members[d]
    <3>1. n <= Len(members[d])
      BY <2>4, <2>5, <2>7, <2>8, <1>1 DEF FramesProgress
    <3> QED
      BY <3>1, <2>8, StackOf DEF RequestTypes
  <2>10. d = c
    BY <2>4, <2>7, <2>8, <2>9, <1>3, <1>5, <1>6 DEF Apart
  <2>11. K \in 1..K /\ entered[K].of = entered[j].of
    BY <2>10, <2>7, <1>e
  <2> QED
    BY <2>11, <2>4, <1>1 DEF Chained
<1> QED
  BY <1>1, <1>3, <1>4, <1>5, <1>7, <1>8, <1>9, <1>10
-----------------------------------------------------------------------------
\* A request enters the composite that is next.
Pushes(g) ==
  /\ entered # <<>> /\ ~Pending /\ Innermost.index <= Len(members[Innermost.of])
  /\ Member \in Composites /\ g \in Frame /\ entered' = Append(entered, g)
  /\ g.of = Member /\ g.index = 1 /\ g.limit = Len(members[Member]) /\ g.path = path
  /\ g.failed = ~g.handles /\ Innermost.failed = g.failed
  /\ g.error = IF g.handles THEN Unhandled ELSE Innermost.error
  /\ path' \in Seq(Segments) /\ LeftAfter(Routes(entered', Len(entered) + 1), path')
  /\ UNCHANGED <<members, called, reply, outcome, sync, began, asked, gave, failure, broken, dropped, shifted>>

\* So does entering a composite.
LEMMA PushKeeps ==
  ASSUME RequestInv, NEW g, Pushes(g)
  PROVE  RequestInv'
<1>1. /\ RequestTypes /\ OneAtATime /\ FramesProgress /\ ErrorsKnown /\ LatestKept
      /\ ResultsKnown /\ PathsKept /\ Tree
  BY DEF RequestInv
<1>2. /\ members' = members /\ called' = called /\ outcome' = outcome /\ sync' = sync
      /\ began' = began /\ asked' = asked /\ gave' = gave /\ failure' = failure /\ broken' = broken
      /\ shifted' = shifted /\ reply' = reply /\ dropped' = dropped
      /\ called = None /\ reply = None /\ path' \in Seq(Segments)
  BY DEF Pushes, Pending
<1>3. PICK K : K = Len(entered)
  OBVIOUS
<1>4. /\ K \in Nat /\ K >= 1 /\ Innermost = entered[K] /\ entered[K] \in Frame
      /\ \A k \in 1..K : entered[k] \in Frame
  BY <1>1, <1>3, Inside DEF RequestTypes, Pushes
<1>5. PICK t : t = entered'
  OBVIOUS
<1>6. t \in Seq(Frame) /\ Len(t) = K + 1 /\ t[K + 1] = g /\ \A k \in 1..K : t[k] = entered[k]
  <2>1. entered \in Seq(Frame) /\ g \in Frame /\ t = Append(entered, g)
    BY <1>1, <1>5 DEF RequestTypes, Pushes
  <2> QED
    BY <2>1, <1>3, AppendProperties
<1>7. PICK c \in Composites : c = Member
  BY DEF Pushes
<1>8. /\ g \in Frame /\ g.of = c /\ g.index = 1 /\ g.limit = Len(members[c]) /\ g.path = path
      /\ g.failed = ~g.handles /\ entered[K].failed = g.failed
      /\ g.error = IF g.handles THEN Unhandled ELSE entered[K].error
      /\ entered[K].index <= Len(members[entered[K].of])
  BY <1>4, <1>7 DEF Pushes
<1>9. \A k \in 1..(K + 1) : k # K + 1 => k \in 1..K /\ t[k] = entered[k]
  BY <1>4, <1>6
<1>10. t # <<>> /\ entered # <<>>
  BY <1>3, <1>4, <1>6
<1>11. outcome = None
  BY <1>1, <1>10 DEF OneAtATime
<1>12. K \in 1..K /\ g.handles \in BOOLEAN /\ g.failed \in BOOLEAN /\ entered[K].failed \in BOOLEAN
  BY <1>4, <1>8, FrameFields
<1>13. None \notin Error
  BY AnswerKinds
<1>types. RequestTypes'
  BY <1>1, <1>2, <1>5, <1>6 DEF RequestTypes
<1>one. OneAtATime'
  BY <1>1, <1>2, <1>5, <1>10, <1>11 DEF OneAtATime, Pending
<1>frames. FramesProgress'
  <2>1. ASSUME NEW k \in 1..(K + 1)
        PROVE  /\ t[k].index <= Len(members[t[k].of]) + 1
               /\ t[k].limit <= Len(members[t[k].of])
               /\ k < K + 1 => t[k].index <= Len(members[t[k].of])
               /\ ~t[k].handles => t[k].failed
               /\ t[k].handles => \A j \in 1..(k - 1) : ~t[j].failed
    <3>1. CASE k # K + 1
      <4>1. k \in 1..K /\ t[k] = entered[k] /\ \A j \in 1..(k - 1) : j \in 1..K /\ t[j] = entered[j]
        BY <1>4, <1>9, <3>1
      <4>2. k < K => entered[k].index <= Len(members[entered[k].of])
        BY <4>1, <1>1, <1>3 DEF FramesProgress
      <4>3. k # K => k < K
        BY <4>1, <1>4
      <4> QED
        BY <4>1, <4>2, <4>3, <1>1, <1>3, <1>8 DEF FramesProgress
    <3>2. CASE k = K + 1
      <4>1. Len(members[c]) \in Nat
        BY <1>1, StackOf DEF RequestTypes
      <4>2. 1 <= Len(members[c]) + 1 /\ Len(members[c]) <= Len(members[c]) /\ ~ K + 1 < K + 1
        BY <4>1, <1>4
      <4>3. g.handles => \A j \in 1..K : ~entered[j].failed
        <5>1. SUFFICES ASSUME g.handles, NEW j \in 1..K PROVE ~entered[j].failed
          OBVIOUS
        <5>2. ~entered[K].failed /\ entered[K].handles
          BY <5>1, <1>1, <1>3, <1>8, <1>12 DEF FramesProgress
        <5>3. j # K => j \in 1..(K - 1)
          BY <1>4
        <5> QED
          BY <5>2, <5>3, <1>1, <1>3, <1>12 DEF FramesProgress
      <4>4. \A j \in 1..(k - 1) : j \in 1..K /\ t[j] = entered[j]
        BY <3>2, <1>4, <1>6
      <4> QED
        BY <3>2, <4>2, <4>3, <4>4, <1>6, <1>8
    <3> QED
      BY <3>1, <3>2
  <2> QED
    BY <2>1, <1>2, <1>5, <1>6 DEF FramesProgress, Pending
<1>errors. ErrorsKnown'
  <2>1. ASSUME NEW k \in 1..(K + 1)
        PROVE  /\ t[k].failed => t[k].error # Unhandled
               /\ t[k].error # Unhandled => failure # None
               /\ t[k].error # Unhandled /\ ~t[k].failed => t[k].error.is = "refusal"
    <3>1. /\ entered[K].failed => entered[K].error # Unhandled
          /\ entered[K].error # Unhandled => failure # None
      BY <1>1, <1>3, <1>12 DEF ErrorsKnown
    <3>2. CASE k = K + 1
      BY <3>1, <3>2, <1>6, <1>8, <1>12
    <3>3. CASE k # K + 1
      BY <3>3, <1>1, <1>3, <1>9 DEF ErrorsKnown
    <3> QED
      BY <3>2, <3>3
  <2> QED
    BY <2>1, <1>2, <1>5, <1>6, <1>13 DEF ErrorsKnown
<1>latest. LatestKept'
  <2>1. SUFFICES ASSUME gave = None, ~broken, failure # None
                 PROVE  \E k \in 1..(K + 1) : t[k].error = failure /\ \A j \in (k + 1)..(K + 1) : t[j].error = Unhandled
    BY <1>2, <1>5, <1>6, <1>11, <1>13 DEF LatestKept
  <2>2. PICK k \in 1..K : entered[k].error = failure /\ \A j \in (k + 1)..K : entered[j].error = Unhandled
    BY <2>1, <1>1, <1>2, <1>3, <1>11, <1>13 DEF LatestKept
  <2>3. CASE g.handles
    <3>1. \A j \in (k + 1)..(K + 1) : j # K + 1 => j \in (k + 1)..K /\ j \in 1..(K + 1)
      BY <1>4
    <3>2. k \in 1..(K + 1) /\ t[k] = entered[k]
      BY <1>4, <1>6
    <3>3. t[K + 1].error = Unhandled
      BY <2>3, <1>6, <1>8
    <3> QED
      BY <2>2, <3>1, <3>2, <3>3, <1>9
  <2>4. CASE ~g.handles
    <3>1. entered[K].error # Unhandled
      BY <2>4, <1>1, <1>3, <1>8, <1>12 DEF ErrorsKnown
    <3>2. k = K
      <4>1. k # K => K \in (k + 1)..K
        BY <1>4
      <4> QED
        BY <3>1, <4>1, <2>2
    <3>3. t[K + 1].error = failure
      BY <2>2, <2>4, <3>2, <1>6, <1>8
    <3>4. K + 1 \in 1..(K + 1) /\ \A j \in (K + 1 + 1)..(K + 1) : FALSE
      BY <1>4
    <3> QED
      BY <3>3, <3>4
  <2> QED
    BY <2>3, <2>4
<1>results. ResultsKnown'
  BY <1>1, <1>2 DEF ResultsKnown
<1>paths. PathsKept'
  <2>1. ASSUME NEW n \in 0..K PROVE Routes(t, n) = Routes(entered, n)
    <3>1. \A k \in 1..n : k \in 1..K
      BY <1>4
    <3> QED
      BY <1>6, <3>1 DEF Routes
  <2>2. LeftAfter(Routes(t, K + 1), path')
    BY <1>3, <1>5 DEF Pushes
  <2>3. ASSUME NEW k \in 1..(K + 1) PROVE LeftAfter(Routes(t, k - 1), t[k].path)
    <3>1. k - 1 \in 0..K
      BY <1>4
    <3>2. CASE k = K + 1
      <4>1. k - 1 = K
        BY <3>2, <1>4
      <4>2. t[k].path = path /\ Routes(t, k - 1) = Routes(entered, K)
        BY <3>1, <3>2, <4>1, <2>1, <1>6, <1>8
      <4> QED
        BY <4>2, <1>1, <1>3 DEF PathsKept
    <3>3. CASE k # K + 1
      BY <3>1, <3>3, <2>1, <1>1, <1>3, <1>9 DEF PathsKept
    <3> QED
      BY <3>2, <3>3
  <2> QED
    BY <2>2, <2>3, <1>2, <1>5, <1>6 DEF PathsKept, LeftAfter, Routes
<1>tree. Tree'
  <2>1. Apart(members')
    BY <1>1, <1>2 DEF Tree
  <2>2. SUFFICES ASSUME ~shifted
                 PROVE  Chained' /\ IsInjective(asked) /\ \E S \in SUBSET Composites : LeftBehind(S)'
    BY <2>1, <1>2 DEF Tree, LeftBehind, Past, Passed, Pending
  <2>3. PICK S \in SUBSET Composites : LeftBehind(S)
    BY <2>2, <1>1 DEF Tree
  <2>4. Chained /\ IsInjective(asked) /\ Apart(members)
    BY <2>2, <1>1 DEF Tree
  <2>5. c \notin S /\ \A k \in 1..K : entered[k].of # c
    <3>1. Innermost.index <= Len(members[Innermost.of]) /\ ~Pending
      BY DEF Pushes
    <3> QED
      BY <3>1, <2>3, <2>4, <1>1, <1>3, <1>7, <1>10, NextIsNew
  <2>6. Chained'
    <3>1. t[1].of = Root
      <4>1. 1 \in 1..K
        BY <1>4
      <4> QED
        BY <4>1, <2>4, <1>6, <1>10 DEF Chained
    <3>2. \A j, k \in 1..(K + 1) : t[j].of = t[k].of => j = k
      <4> SUFFICES ASSUME NEW j \in 1..(K + 1), NEW k \in 1..(K + 1), t[j].of = t[k].of PROVE j = k
        OBVIOUS
      <4>1. CASE j # K + 1 /\ k # K + 1
        BY <4>1, <2>4, <1>3, <1>9 DEF Chained
      <4>2. CASE j = K + 1 /\ k # K + 1
        BY <4>2, <2>5, <1>6, <1>8, <1>9
      <4>3. CASE j # K + 1 /\ k = K + 1
        BY <4>3, <2>5, <1>6, <1>8, <1>9
      <4> QED
        BY <4>1, <4>2, <4>3
    <3>3. \A k \in 1..K : members[t[k].of][t[k].index].node = t[k + 1].of
      <4> TAKE k \in 1..K
      <4>1. CASE k = K
        <5>1. members[entered[K].of][entered[K].index].node = c
          BY <1>4, <1>7 DEF Member
        <5> QED
          BY <5>1, <4>1, <1>6, <1>8
      <4>2. CASE k # K
        <5>1. k \in 1..(K - 1) /\ k + 1 \in 1..K
          BY <4>2, <1>4
        <5> QED
          BY <5>1, <2>4, <1>3, <1>6 DEF Chained
      <4> QED
        BY <4>1, <4>2
    <3>4. \A k \in 1..(K + 1 - 1) : k \in 1..K
      BY <1>4
    <3>5. \A k \in 1..(K + 1 - 1) : members[t[k].of][t[k].index].node = t[k + 1].of
      BY <3>3, <3>4
    <3>6. /\ t # <<>> => t[1].of = Root
          /\ \A j, k \in 1..Len(t) : t[j].of = t[k].of => j = k
          /\ \A k \in 1..(Len(t) - 1) : members[t[k].of][t[k].index].node = t[k + 1].of
      <4>1. PICK n \in Nat : n = K + 1 /\ Len(t) = n
        BY <1>4, <1>6
      <4>2. \A j, k \in 1..n : t[j].of = t[k].of => j = k
        BY <4>1, <3>2
      <4>3. \A k \in 1..(n - 1) : members[t[k].of][t[k].index].node = t[k + 1].of
        BY <4>1, <3>5, <1>4
      <4> QED
        BY <4>1, <4>2, <4>3, <3>1, Zenon
    <3> QED
      BY <3>6, <1>2, <1>5 DEF Chained
  <2>7. ASSUME NEW d, NEW i \in Nat, Passed(d, i, S) PROVE Passed(d, i, S)'
    <3>1. CASE d \in S
      BY <3>1 DEF Passed
    <3>2. CASE d \notin S
      <4>1. PICK k \in 1..K : entered[k].of = d /\ i < entered[k].index
        BY <2>7, <3>2, <1>2, <1>3 DEF Passed, Pending
      <4>2. k \in 1..(K + 1) /\ t[k] = entered[k]
        BY <1>4, <1>6
      <4> QED
        BY <4>1, <4>2, <1>5, <1>6 DEF Passed
    <3> QED
      BY <3>1, <3>2
  <2>8. ASSUME NEW n, Past(n, S) PROVE Past(n, S)'
    <3>1. PICK d \in Composites : \E i \in DOMAIN members[d] : members[d][i].node = n /\ Passed(d, i, S)
      BY <2>8 DEF Past
    <3>2. PICK i \in DOMAIN members[d] : members[d][i].node = n /\ Passed(d, i, S)
      BY <3>1
    <3>3. i \in Nat
      BY <1>1, StackOf DEF RequestTypes
    <3>4. Passed(d, i, S)'
      BY <2>7, <3>2, <3>3
    <3> QED
      BY <3>2, <3>4, <1>2 DEF Past
  <2>9. LeftBehind(S)'
    <3>1. \A k \in 1..(K + 1) : t[k].of \notin S
      BY <2>3, <2>5, <1>3, <1>6, <1>8, <1>9 DEF LeftBehind
    <3>2. \A n \in ToSet(asked) \union (S \ {Root}) : Past(n, S)'
      BY <2>3, <2>8 DEF LeftBehind
    <3> QED
      BY <3>1, <3>2, <1>2, <1>5, <1>6 DEF LeftBehind
  <2> QED
    BY <2>4, <2>6, <2>9
<1> QED
  BY <1>types, <1>one, <1>frames, <1>errors, <1>latest, <1>results, <1>paths, <1>tree DEF RequestInv
-----------------------------------------------------------------------------
\* The innermost composite answers a, which is the latest error, nothing, or
\* the result that was given.
Leaves(a) ==
  /\ entered # <<>> /\ called = None /\ a \in Answer /\ Depart(a)
  /\ a # Break
  /\ a \in Error => failure # None
  /\ a.is = "result" => gave # None \/ (a = BreakResult /\ broken)
  /\ gave = None /\ ~broken =>
       /\ a \in Error => a = failure
       /\ a \notin Error => a = Unhandled /\ Innermost.error = Unhandled /\ reply \notin Error
  /\ gave # None => dropped' \/ a = Result(gave)
  /\ dropped' \in BOOLEAN /\ (dropped => dropped')
  /\ UNCHANGED <<sync, began, asked, gave, failure, broken, shifted>>

\* So does leaving one: the path is the one it came with, and it is left behind.
LEMMA DepartKeeps ==
  ASSUME RequestInv, NEW a, Leaves(a)
  PROVE  RequestInv'
<1>1. /\ RequestTypes /\ OneAtATime /\ FramesProgress /\ ErrorsKnown /\ LatestKept
      /\ ResultsKnown /\ PathsKept /\ Tree
  BY DEF RequestInv
<1>2. /\ members' = members /\ called' = None /\ called = None /\ sync' = sync
      /\ began' = began /\ asked' = asked /\ gave' = gave /\ failure' = failure /\ broken' = broken
      /\ shifted' = shifted /\ dropped' \in BOOLEAN /\ (dropped => dropped')
  BY DEF Leaves, Depart
<1>3. PICK K : K = Len(entered)
  OBVIOUS
<1>4. /\ K \in Nat /\ K >= 1 /\ Innermost = entered[K] /\ entered[K] \in Frame
      /\ \A k \in 1..K : entered[k] \in Frame
  BY <1>1, <1>3, Inside DEF RequestTypes, Leaves
<1>5. PICK t : t = entered'
  OBVIOUS
<1>6. t \in Seq(Frame) /\ Len(t) = K - 1 /\ \A k \in 1..(K - 1) : t[k] = entered[k]
  <2>1. entered \in Seq(Frame) /\ entered # <<>> /\ t = Around
    BY <1>1, <1>5 DEF RequestTypes, Leaves, Depart
  <2> QED
    BY <2>1, <1>3, Inside
<1>7. t = <<>> <=> K = 1
  <2>1. t = <<>> <=> Len(t) = 0
    BY <1>6, EmptySeq
  <2> QED
    BY <2>1, <1>4, <1>6
<1>8. /\ path' = (IF entered[K].handles THEN entered[K].path ELSE path)
      /\ t = <<>> => outcome' = a /\ reply' = None
      /\ t # <<>> => outcome' = outcome /\ reply' = a
  BY <1>4, <1>5 DEF Leaves, Depart
<1>9. /\ a \in Answer /\ a # None /\ a # Break
      /\ a \in Error => failure # None
      /\ a.is = "result" => gave # None \/ (a = BreakResult /\ broken)
      /\ gave = None /\ ~broken =>
           /\ a \in Error => a = failure
           /\ a \notin Error => a = Unhandled /\ entered[K].error = Unhandled /\ reply \notin Error
      /\ gave # None => dropped' \/ a = Result(gave)
  BY <1>4, AnswerKinds DEF Leaves
<1>10. entered # <<>> /\ outcome = None
  <2>1. entered # <<>>
    BY DEF Leaves
  <2> QED
    BY <2>1, <1>1 DEF OneAtATime
<1>11. None \notin Error
  BY AnswerKinds
<1>12. \A k \in 1..(K - 1) : k \in 1..K /\ k # K /\ k < K
  BY <1>4
<1>13. PICK n \in Nat : n = K - 1 /\ Len(t) = n /\ \A k \in 1..n : t[k] = entered[k] /\ k \in 1..K /\ k # K
  BY <1>4, <1>6, <1>12
<1>14. PICK f : f = entered[K] /\ f \in Frame
  BY <1>4
<1>types. RequestTypes'
  <2>1. f.path \in Seq(Segments)
    BY <1>14, FrameFields
  <2>2. path' \in Seq(Segments)
    BY <2>1, <1>1, <1>8, <1>14 DEF RequestTypes
  <2>3. reply' \in Answer \union {None} /\ outcome' \in Answer \union {None}
    BY <1>8, <1>9, <1>10
  <2> QED
    BY <2>2, <2>3, <1>1, <1>2, <1>5, <1>6 DEF RequestTypes
<1>one. OneAtATime'
  BY <1>2, <1>5, <1>8, <1>9, <1>10 DEF OneAtATime, Pending
<1>frames. FramesProgress'
  <2>1. ASSUME NEW k \in 1..n
        PROVE  /\ t[k].index <= Len(members[t[k].of]) + 1
               /\ t[k].limit <= Len(members[t[k].of])
               /\ t[k].index <= Len(members[t[k].of])
               /\ ~t[k].handles => t[k].failed
               /\ t[k].handles => \A j \in 1..(k - 1) : ~t[j].failed
    <3>1. k < K /\ \A j \in 1..(k - 1) : j \in 1..n
      BY <1>4, <1>13
    <3> QED
      BY <3>1, <1>1, <1>3, <1>13 DEF FramesProgress
  <2> QED
    BY <2>1, <1>2, <1>5, <1>13 DEF FramesProgress
<1>errors. ErrorsKnown'
  <2>1. ASSUME NEW k \in 1..n
        PROVE  /\ t[k].failed => t[k].error # Unhandled
               /\ t[k].error # Unhandled => failure # None
               /\ t[k].error # Unhandled /\ ~t[k].failed => t[k].error.is = "refusal"
    BY <1>1, <1>3, <1>13 DEF ErrorsKnown
  <2>2. reply' \in Error => failure # None
    BY <1>8, <1>9, <1>11
  <2> QED
    BY <2>1, <2>2, <1>2, <1>5, <1>13 DEF ErrorsKnown
<1>latest. LatestKept'
  <2>1. SUFFICES ASSUME gave = None, ~broken
                 PROVE  /\ outcome' # None => outcome' = IF failure = None THEN Unhandled ELSE failure
                        /\ reply' \in Error => reply' = failure
                        /\ outcome' = None /\ reply' \notin Error /\ failure # None =>
                             \E k \in 1..n : t[k].error = failure /\ \A j \in (k + 1)..n : t[j].error = Unhandled
    BY <1>2, <1>5, <1>13 DEF LatestKept
  <2>2. CASE a \in Error
    <3>1. a = failure /\ failure # None
      BY <2>1, <2>2, <1>9
    <3> QED
      BY <3>1, <2>2, <1>8, <1>9, <1>10, <1>11
  <2>3. CASE a \notin Error
    <3>1. a = Unhandled /\ entered[K].error = Unhandled /\ reply \notin Error
      BY <2>1, <2>3, <1>9
    <3>2. ASSUME failure # None
          PROVE  \E k \in 1..n : t[k].error = failure /\ \A j \in (k + 1)..n : t[j].error = Unhandled
      <4>1. PICK k \in 1..K : entered[k].error = failure /\ \A j \in (k + 1)..K : entered[j].error = Unhandled
        BY <2>1, <3>1, <3>2, <1>1, <1>3, <1>10 DEF LatestKept
      <4>2. failure # Unhandled
        BY <3>1, <3>2, <2>3, <1>1 DEF RequestTypes
      <4>3. k # K
        BY <4>1, <4>2, <3>1
      <4>4. k \in 1..n /\ \A j \in (k + 1)..n : j \in (k + 1)..K /\ j \in 1..n
        BY <4>3, <1>4, <1>13
      <4> QED
        BY <4>1, <4>4, <1>13
    <3>3. t = <<>> => failure = None
      <4>1. t = <<>> => \A k \in 1..n : FALSE
        BY <1>7, <1>13
      <4> QED
        BY <4>1, <3>2
    <3> QED
      BY <3>1, <3>2, <3>3, <2>3, <1>8, <1>9, <1>10, <1>11
  <2> QED
    BY <2>2, <2>3
<1>results. ResultsKnown'
  BY <1>2, <1>8, <1>9, <1>10 DEF ResultsKnown
<1>paths. PathsKept'
  <2>1. ASSUME NEW m \in 0..n PROVE Routes(t, m) = Routes(entered, m)
    <3>1. \A k \in 1..m : k \in 1..n
      BY <1>13
    <3> QED
      BY <1>13, <3>1 DEF Routes
  <2>2. LeftAfter(Routes(t, n), path')
    <3>0. n \in 0..n /\ K \in 1..K /\ K - 1 = n
      BY <1>4, <1>13
    <3>1. CASE entered[K].handles
      BY <3>0, <3>1, <2>1, <1>1, <1>3, <1>8 DEF PathsKept
    <3>2. CASE ~entered[K].handles
      <4>1. \A k : k \in 1..K <=> k \in 1..n \/ k = K
        BY <1>4, <1>13
      <4>2. Routes(entered, K) = Routes(entered, n)
        BY <4>1, <3>2 DEF Routes
      <4> QED
        BY <4>2, <3>0, <3>2, <2>1, <1>1, <1>3, <1>8 DEF PathsKept
    <3> QED
      BY <3>1, <3>2
  <2>3. ASSUME NEW k \in 1..n PROVE LeftAfter(Routes(t, k - 1), t[k].path)
    <3>1. k - 1 \in 0..n
      BY <1>13
    <3> QED
      BY <3>1, <2>1, <1>1, <1>3, <1>13 DEF PathsKept
  <2> QED
    BY <2>2, <2>3, <1>2, <1>5, <1>13 DEF PathsKept, LeftAfter, Routes
<1>tree. Tree'
  <2>1. Apart(members')
    BY <1>1, <1>2 DEF Tree
  <2>2. SUFFICES ASSUME ~shifted
                 PROVE  Chained' /\ IsInjective(asked) /\ \E S \in SUBSET Composites : LeftBehind(S)'
    BY <2>1, <1>2 DEF Tree, LeftBehind, Past, Passed, Pending
  <2>3. PICK S \in SUBSET Composites : LeftBehind(S)
    BY <2>2, <1>1 DEF Tree
  <2>4. Chained /\ IsInjective(asked)
    BY <2>2, <1>1 DEF Tree
  <2>5. PICK c \in Composites : c = entered[K].of
    BY <1>4, FrameFields
  <2>6. PICK T \in SUBSET Composites : T = S \union {c}
    OBVIOUS
  <2>7. Chained'
    <3>1. /\ t # <<>> => t[1].of = Root
          /\ \A j, k \in 1..n : t[j].of = t[k].of => j = k
      <4>1. t # <<>> => 1 \in 1..n
        BY <1>4, <1>7, <1>13
      <4> QED
        BY <4>1, <2>4, <1>3, <1>10, <1>13 DEF Chained
    <3>2. \A k \in 1..(n - 1) : members[t[k].of][t[k].index].node = t[k + 1].of
      <4> TAKE k \in 1..(n - 1)
      <4>1. k \in 1..n /\ k + 1 \in 1..n /\ k \in 1..(K - 1)
        BY <1>4, <1>13
      <4> QED
        BY <4>1, <2>4, <1>3, <1>13 DEF Chained
    <3> QED
      BY <3>1, <3>2, <1>2, <1>5, <1>13 DEF Chained
  <2>8. ASSUME NEW d, NEW i \in Nat, Passed(d, i, S) PROVE Passed(d, i, T)'
    <3>1. CASE d \in T
      BY <3>1 DEF Passed
    <3>2. CASE d \notin T
      <4>1. PICK k \in 1..K : entered[k].of = d /\ (i < entered[k].index \/ k = K)
        BY <2>6, <2>8, <3>2, <1>3 DEF Passed
      <4>2. k # K
        BY <4>1, <3>2, <2>5, <2>6
      <4>3. k \in 1..n /\ t[k] = entered[k]
        BY <4>2, <1>4, <1>13
      <4> QED
        BY <4>1, <4>2, <4>3, <1>5, <1>13 DEF Passed
    <3> QED
      BY <3>1, <3>2
  <2>9. ASSUME NEW m, Past(m, S) PROVE Past(m, T)'
    <3>1. PICK d \in Composites : \E i \in DOMAIN members[d] : members[d][i].node = m /\ Passed(d, i, S)
      BY <2>9 DEF Past
    <3>2. PICK i \in DOMAIN members[d] : members[d][i].node = m /\ Passed(d, i, S)
      BY <3>1
    <3>3. i \in Nat
      BY <1>1, StackOf DEF RequestTypes
    <3>4. Passed(d, i, T)'
      BY <2>8, <3>2, <3>3
    <3> QED
      BY <3>2, <3>4, <1>2 DEF Past
  <2>10. c = Root \/ Past(c, T)'
    <3>1. CASE K = 1
      BY <3>1, <2>4, <2>5, <1>10 DEF Chained
    <3>2. CASE K # 1
      <4>1. n \in 1..n /\ n \in 1..(K - 1) /\ n + 1 = K /\ n < K /\ n \in 1..K
        BY <3>2, <1>4, <1>13
      <4>2. PICK d \in Composites : d = entered[n].of
        BY <4>1, <1>4, FrameFields
      <4>3. PICK i \in Nat : i = entered[n].index /\ i # 0
        BY <4>1, <1>4, FrameFields
      <4>4. i <= Len(members[d])
        BY <4>1, <4>2, <4>3, <1>1, <1>3 DEF FramesProgress
      <4>5. i \in DOMAIN members[d]
        BY <4>3, <4>4, <1>1, StackOf DEF RequestTypes
      <4>6. members[d][i].node = c
        BY <4>1, <4>2, <4>3, <2>4, <2>5, <1>3 DEF Chained
      <4>7. reply' # None
        BY <3>2, <1>7, <1>8, <1>9
      <4>8. Passed(d, i, T)'
        <5>1. Pending'
          BY <4>7 DEF Pending
        <5>2. n \in 1..Len(t) /\ t[n].of = d /\ n = Len(t) /\ i = t[n].index
          BY <4>1, <4>2, <4>3, <1>13
        <5> QED
          BY <5>1, <5>2, <1>5 DEF Passed
      <4> QED
        BY <4>5, <4>6, <4>8, <1>2 DEF Past
    <3> QED
      BY <3>1, <3>2
  <2>11. LeftBehind(T)'
    <3>1. \A k \in 1..n : t[k].of \notin T
      <4> TAKE k \in 1..n
      <4>1. entered[k].of \notin S /\ k \in 1..K /\ k # K /\ K \in 1..K
        BY <2>3, <1>3, <1>4, <1>13 DEF LeftBehind
      <4>2. entered[k].of # c
        BY <4>1, <2>4, <2>5, <1>3 DEF Chained
      <4> QED
        BY <4>1, <4>2, <2>6, <1>13
    <3>2. \A m \in ToSet(asked) \union (T \ {Root}) : Past(m, T)'
      BY <2>3, <2>6, <2>9, <2>10 DEF LeftBehind
    <3> QED
      BY <3>1, <3>2, <1>2, <1>5, <1>13 DEF LeftBehind
  <2> QED
    BY <2>4, <2>7, <2>11
<1> QED
  BY <1>types, <1>one, <1>frames, <1>errors, <1>latest, <1>results, <1>paths, <1>tree DEF RequestInv
-----------------------------------------------------------------------------
\* A middleware is called or answers: the composites stay where they are.
Stays ==
  /\ entered # <<>> /\ Pending' /\ Innermost.index <= Len(members[Innermost.of])
  /\ UNCHANGED <<members, path, entered, outcome, sync, began, dropped, shifted>>
  /\ asked' = asked \/ (asked' = Append(asked, Member) /\ ~Pending /\ Member \in Middleware)

\* What a member that is called or answers leaves alone is kept.
LEMMA StayKeeps ==
  ASSUME RequestInv, Stays
  PROVE  FramesProgress' /\ PathsKept' /\ Tree'
<1>1. /\ RequestTypes /\ OneAtATime /\ FramesProgress /\ PathsKept /\ Tree
  BY DEF RequestInv
<1>2. /\ members' = members /\ path' = path /\ entered' = entered /\ outcome' = outcome /\ sync' = sync
      /\ began' = began /\ dropped' = dropped /\ shifted' = shifted
      /\ entered # <<>> /\ Pending' /\ Innermost.index <= Len(members[Innermost.of])
  BY DEF Stays
<1>3. PICK K : K = Len(entered)
  OBVIOUS
<1>4. K \in Nat /\ K >= 1 /\ Innermost = entered[K]
  BY <1>1, <1>2, <1>3, Inside DEF RequestTypes
<1>frames. FramesProgress'
  <2>1. ASSUME NEW k \in 1..K PROVE entered[k].index <= Len(members[entered[k].of])
    <3>1. CASE k = K
      BY <3>1, <1>2, <1>4
    <3>2. CASE k # K
      <4>1. k < K
        BY <3>2, <1>4
      <4> QED
        BY <4>1, <1>1, <1>3 DEF FramesProgress
    <3> QED
      BY <3>1, <3>2
  <2> QED
    BY <2>1, <1>1, <1>2, <1>3 DEF FramesProgress
<1>paths. PathsKept'
  BY <1>1, <1>2 DEF PathsKept, LeftAfter, Routes
<1>tree. Tree'
  <2>1. Apart(members')
    BY <1>1, <1>2 DEF Tree
  <2>2. SUFFICES ASSUME ~shifted
                 PROVE  Chained' /\ IsInjective(asked') /\ \E S \in SUBSET Composites : LeftBehind(S)'
    BY <2>1, <1>2 DEF Tree, LeftBehind, Past, Passed, Pending
  <2>3. PICK S \in SUBSET Composites : LeftBehind(S)
    BY <2>2, <1>1 DEF Tree
  <2>4. Chained /\ IsInjective(asked) /\ Apart(members)
    BY <2>2, <1>1 DEF Tree
  <2>5. Chained'
    BY <2>4, <1>2 DEF Chained
  <2>6. ASSUME NEW m, Past(m, S) PROVE Past(m, S)'
    <3>1. ASSUME NEW d, NEW i, Passed(d, i, S) PROVE Passed(d, i, S)'
      BY <3>1, <1>2 DEF Passed
    <3> QED
      BY <2>6, <3>1, <1>2 DEF Past
  <2>7. asked' = Append(asked, Member) /\ ~Pending => Past(Member, S)' /\ Member \notin ToSet(asked)
    <3>1. SUFFICES ASSUME asked' = Append(asked, Member), ~Pending
                   PROVE  Past(Member, S)' /\ Member \notin ToSet(asked)
      OBVIOUS
    <3>2. /\ Innermost.index \in DOMAIN members[Innermost.of] /\ Innermost.of \in Composites
          /\ Member \notin ToSet(asked)
      BY <3>1, <2>3, <2>4, <1>1, <1>2, NextIsNew
    <3>3. Passed(Innermost.of, Innermost.index, S)'
      <4>1. K \in 1..Len(entered)
        BY <1>3, <1>4
      <4>2. PICK c : c = Innermost.of
        OBVIOUS
      <4>3. PICK i : i = Innermost.index
        OBVIOUS
      <4>4. entered[K].of = c /\ entered[K].index = i /\ K = Len(entered)
        BY <4>2, <4>3, <1>3, <1>4
      <4>5. Passed(c, i, S)'
        BY <4>1, <4>4, <1>2 DEF Passed
      <4>6. /\ Innermost' = Innermost
        BY <1>2 DEF Innermost
      <4> QED
        BY <4>2, <4>3, <4>5, <4>6
    <3>4. Member' = Member /\ Innermost' = Innermost
      BY <1>2 DEF Member, Innermost
    <3> QED
      BY <3>2, <3>3, <3>4, <1>2 DEF Past, Member
  <2>8. CASE asked' = asked
    BY <2>3, <2>4, <2>5, <2>6, <2>8, <1>2 DEF LeftBehind
  <2>9. CASE asked' = Append(asked, Member) /\ ~Pending /\ Member \in Middleware
    <3>1. PICK l \in Middleware : l = Member
      BY <2>9
    <3>2. asked \in Seq(Middleware) /\ asked' = Append(asked, l) /\ Past(l, S)' /\ l \notin ToSet(asked)
      <4>1. Member' = Member
        BY <1>2 DEF Member, Innermost
      <4> QED
        BY <4>1, <3>1, <2>7, <2>9, <1>1 DEF RequestTypes
    <3>3. ToSet(asked') = ToSet(asked) \union {l} /\ IsInjective(asked')
      BY <3>2, <2>4, ElementsOfAppend
    <3> QED
      BY <3>2, <3>3, <2>3, <2>5, <2>6, <1>2 DEF LeftBehind
  <2> QED
    BY <2>8, <2>9 DEF Stays
<1> QED
  BY <1>frames, <1>paths, <1>tree

\* A member of the innermost composite is called.
LEMMA CallKeeps ==
  ASSUME RequestInv, CallMember, Member \in Middleware, Innermost.index <= Len(members[Innermost.of])
  PROVE  RequestInv'
<1>1. /\ RequestTypes /\ OneAtATime /\ FramesProgress /\ ErrorsKnown /\ LatestKept
      /\ ResultsKnown /\ PathsKept /\ Tree
  BY DEF RequestInv
<1>2. PICK l \in Middleware : l = Member
  OBVIOUS
<1>3. /\ called' = l /\ asked' = Append(asked, l) /\ called = None /\ reply = None /\ entered # <<>>
      /\ members' = members /\ path' = path /\ entered' = entered /\ reply' = reply /\ outcome' = outcome
      /\ sync' = sync /\ began' = began /\ gave' = gave /\ failure' = failure
      /\ broken' = broken /\ dropped' = dropped /\ shifted' = shifted
      /\ IF Innermost.failed THEN IsError(l) ELSE IsStandard(l)
  BY <1>2 DEF CallMember, Tries, Between
<1>4. outcome = None
  BY <1>1, <1>3 DEF OneAtATime
<1>5. RequestTypes'
  <2>1. asked' \in Seq(Middleware)
    BY <1>1, <1>3, AppendProperties DEF RequestTypes
  <2> QED
    BY <2>1, <1>1, <1>3 DEF RequestTypes
<1>6. OneAtATime'
  <2>1. l \in IF Innermost.failed THEN ErrorHandlers ELSE Handlers
    <3>1. Composites \intersect Middleware = {}
      BY MiddlewaresAssumption
    <3> QED
      BY <3>1, <1>2, <1>3 DEF IsError, IsStandard
  <2>2. Innermost' = Innermost
    BY <1>3 DEF Innermost
  <2> QED
    BY <2>1, <2>2, <1>1, <1>3, <1>4 DEF OneAtATime, Pending
<1>7. FramesProgress' /\ PathsKept' /\ Tree'
  <2>1. Stays
    <3>1. Pending'
      BY <1>3, AnswerKinds DEF Pending
    <3> QED
      BY <3>1, <1>2, <1>3 DEF Stays, Pending
  <2> QED
    BY <2>1, StayKeeps
<1>8. ErrorsKnown' /\ LatestKept'
  BY <1>1, <1>3 DEF ErrorsKnown, LatestKept
<1>9. ResultsKnown'
  <2>1. ~(gave # None /\ ~dropped)
    <3>1. \A m \in Middleware : Result(m) # None
      BY AnswerKinds
    <3> QED
      BY <3>1, <1>1, <1>3, <1>4 DEF ResultsKnown, RequestTypes
  <2> QED
    BY <2>1, <1>1, <1>3 DEF ResultsKnown
<1> QED
  BY <1>5, <1>6, <1>7, <1>8, <1>9 DEF RequestInv

\* A route that the path does not take answers nothing.
LEMMA PassKeeps ==
  ASSUME RequestInv, Between, Innermost.index <= Len(members[Innermost.of]), reply' = Unhandled,
         UNCHANGED <<entered, path, members, called, outcome>>, UNCHANGED histories
  PROVE  RequestInv'
<1>1. /\ RequestTypes /\ OneAtATime /\ FramesProgress /\ ErrorsKnown /\ LatestKept
      /\ ResultsKnown /\ PathsKept /\ Tree
  BY DEF RequestInv
<1>2. /\ called = None /\ reply = None /\ entered # <<>> /\ reply' = Unhandled /\ asked' = asked
      /\ members' = members /\ path' = path /\ entered' = entered /\ called' = called /\ outcome' = outcome
      /\ sync' = sync /\ began' = began /\ gave' = gave /\ failure' = failure
      /\ broken' = broken /\ dropped' = dropped /\ shifted' = shifted
  BY DEF Between, histories
<1>3. outcome = None
  BY <1>1, <1>2 DEF OneAtATime
<1>4. /\ Unhandled \in Answer /\ Unhandled # None /\ Unhandled \notin Error /\ None \notin Error
      /\ Unhandled # Break /\ Unhandled.is # "result"
  BY AnswerKinds
<1>5. RequestTypes' /\ OneAtATime'
  BY <1>1, <1>2, <1>3, <1>4 DEF RequestTypes, OneAtATime, Pending
<1>6. FramesProgress' /\ PathsKept' /\ Tree'
  <2>1. Stays
    BY <1>2, <1>4 DEF Stays, Pending
  <2> QED
    BY <2>1, StayKeeps
<1>7. ErrorsKnown' /\ LatestKept'
  BY <1>1, <1>2, <1>4 DEF ErrorsKnown, LatestKept
<1>8. ResultsKnown'
  <2>1. ~(gave # None /\ ~dropped)
    <3>1. \A m \in Middleware : Result(m) # None
      BY AnswerKinds
    <3> QED
      BY <3>1, <1>1, <1>2, <1>3 DEF ResultsKnown, RequestTypes
  <2> QED
    BY <2>1, <1>1, <1>2, <1>3, <1>4 DEF ResultsKnown
<1> QED
  BY <1>5, <1>6, <1>7, <1>8 DEF RequestInv

\* The middleware that was called answers.
LEMMA AnswerKeeps ==
  ASSUME RequestInv, NEW a \in {Unhandled, Failure(called), Refusal(called), Break, Result(called)}, Answers(a)
  PROVE  RequestInv'
<1>1. /\ RequestTypes /\ OneAtATime /\ FramesProgress /\ ErrorsKnown /\ LatestKept
      /\ ResultsKnown /\ PathsKept /\ Tree
  BY DEF RequestInv
<1>2. /\ called # None /\ called' = None /\ reply' = a /\ asked' = asked
      /\ gave' = (IF a.is = "result" THEN called ELSE gave)
      /\ failure' = (IF a.is \in {"error", "refusal"} THEN a ELSE failure)
      /\ broken' = (broken \/ a = Break)
      /\ members' = members /\ path' = path /\ entered' = entered /\ outcome' = outcome
      /\ sync' = sync /\ began' = began /\ dropped' = dropped /\ shifted' = shifted
  BY DEF Answers
<1>3. called \in Middleware /\ reply = None /\ entered # <<>> /\ outcome = None
  BY <1>1, <1>2 DEF RequestTypes, OneAtATime, Pending
<1>4. /\ a \in Answer /\ a # None /\ None \notin Error /\ called # None
      /\ a.is \in {"error", "refusal"} <=> a \in Error
      /\ a.is = "result" => a = Result(called) /\ a # BreakResult
      /\ a \in Error => a # Unhandled /\ a.is # "result"
      /\ Break.is = "break"
  BY <1>2, <1>3, AnswerKinds
<1>5. gave = None \/ dropped
  BY <1>1, <1>2 DEF ResultsKnown
<1>6. RequestTypes' /\ OneAtATime'
  <2>1. RequestTypes'
    BY <1>1, <1>2, <1>3, <1>4 DEF RequestTypes
  <2> QED
    BY <2>1, <1>2, <1>3, <1>4 DEF OneAtATime
<1>7. FramesProgress' /\ PathsKept' /\ Tree'
  <2>1. Stays
    <3>1. PICK K : K = Len(entered)
      OBVIOUS
    <3>2. K \in Nat /\ K >= 1 /\ Innermost = entered[K]
      BY <1>1, <1>3, <3>1, Inside DEF RequestTypes
    <3>3. Innermost.index <= Len(members[Innermost.of])
      <4>1. K \in 1..K
        BY <3>2
      <4> QED
        BY <4>1, <3>1, <3>2, <1>1, <1>2 DEF FramesProgress, Pending
    <3> QED
      BY <3>3, <1>2, <1>3, <1>4 DEF Stays, Pending
  <2> QED
    BY <2>1, StayKeeps
<1>8. ErrorsKnown'
  <2>1. failure # None => failure' # None
    BY <1>2, <1>4
  <2>2. reply' \in Error => failure' # None
    BY <1>2, <1>4
  <2> QED
    BY <2>1, <2>2, <1>1, <1>2 DEF ErrorsKnown
<1>9. LatestKept'
  <2>1. SUFFICES ASSUME gave' = None, ~broken'
                 PROVE  /\ a \in Error => a = failure'
                        /\ a \notin Error /\ failure' # None =>
                             \E k \in 1..Len(entered) :
                               entered[k].error = failure' /\ \A j \in (k + 1)..Len(entered) : entered[j].error = Unhandled
    BY <1>2, <1>3 DEF LatestKept
  <2>2. gave = None /\ ~broken
    BY <2>1, <1>2
  <2>3. a \in Error => a = failure'
    BY <1>2, <1>4
  <2>4. a \notin Error => failure' = failure
    BY <1>2, <1>4
  <2>5. failure # None =>
          \E k \in 1..Len(entered) :
            entered[k].error = failure /\ \A j \in (k + 1)..Len(entered) : entered[j].error = Unhandled
    BY <2>2, <1>1, <1>3, <1>4 DEF LatestKept
  <2> QED
    BY <2>3, <2>4, <2>5
<1>10. ResultsKnown'
  <2>1. a.is = "result" => gave' # None
    BY <1>2
  <2>2. gave' # None /\ ~dropped' => a = Result(gave')
    BY <1>2, <1>4, <1>5
  <2> QED
    BY <2>1, <2>2, <1>2, <1>3, <1>4 DEF ResultsKnown
<1> QED
  BY <1>6, <1>7, <1>8, <1>9, <1>10 DEF RequestInv
-----------------------------------------------------------------------------
\* A middleware is added to the stack of a composite.
LEMMA UseKeeps ==
  ASSUME RequestInv, NEW c \in Composites, NEW l \in Spares, NEW p \in Priorities, UseMiddleware(c, l, p)
  PROVE  RequestInv'
<1>1. /\ RequestTypes /\ OneAtATime /\ FramesProgress /\ ErrorsKnown /\ LatestKept
      /\ ResultsKnown /\ PathsKept /\ Tree
  BY DEF RequestInv
<1> DEFINE Entry == [priority : Int, node : Composites \union Middleware]
<1>2. PICK s : s = members[c]
  OBVIOUS
<1>3. s \in Seq(Entry)
  BY <1>1, <1>2 DEF RequestTypes, Stack
<1>4. PICK n \in Nat : n = Len(s) /\ DOMAIN s = 1..n
  BY <1>3, LenProperties
<1>5. PICK e : e = [priority |-> IF c \in Prioritised THEN p ELSE 0, node |-> l]
  OBVIOUS
<1>6. e \in Entry /\ e.node = l
  <2>1. l \in Middleware /\ p \in Int
    BY MiddlewaresAssumption
  <2> QED
    BY <2>1, <1>5
<1>7. PICK place : place = Cardinality({i \in DOMAIN s : c \in Prioritised => s[i].priority <= p}) + 1
  OBVIOUS
<1>8. place \in Nat /\ place >= 1 /\ place <= n + 1
  <2> DEFINE B == {i \in DOMAIN s : c \in Prioritised => s[i].priority <= p}
  <2>1. B \in SUBSET (1..n)
    BY <1>4
  <2>2. IsFiniteSet(1..n) /\ Cardinality(1..n) = n
    BY FS_Interval
  <2> HIDE DEF B
  <2>3. IsFiniteSet(B) /\ Cardinality(B) <= n
    BY <2>1, <2>2, FS_Subset
  <2>4. Cardinality(B) \in Nat
    BY <2>3, FS_CardinalityType
  <2>5. place = Cardinality(B) + 1
    BY <1>7 DEF B
  <2> QED
    BY <2>3, <2>4, <2>5
<1>9. /\ members' = [members EXCEPT ![c] = InsertAt(s, place, e)]
      /\ shifted' = (shifted \/ \E f \in ToSet(entered) : f.of = c /\ place <= f.index)
      /\ \A d \in Composites : \A m \in ToSet(members[d]) : m.node # l
      /\ sync' = sync /\ entered' = entered /\ path' = path /\ called' = called /\ reply' = reply
      /\ outcome' = outcome /\ began' = began /\ asked' = asked /\ gave' = gave /\ failure' = failure
      /\ broken' = broken /\ dropped' = dropped
  <2> DEFINE entry == [priority |-> IF c \in Prioritised THEN p ELSE 0, node |-> l]
             before == {i \in DOMAIN members[c] : c \in Prioritised => members[c][i].priority <= p}
             at == Cardinality(before) + 1
  <2>1. /\ members' = [members EXCEPT ![c] = InsertAt(members[c], at, entry)]
        /\ shifted' = (shifted \/ \E f \in ToSet(entered) : f.of = c /\ at <= f.index)
        /\ \A d \in Composites : \A m \in ToSet(members[d]) : m.node # l
        /\ sync' = sync /\ entered' = entered /\ path' = path /\ called' = called /\ reply' = reply
        /\ outcome' = outcome /\ began' = began /\ asked' = asked /\ gave' = gave /\ failure' = failure
        /\ broken' = broken /\ dropped' = dropped
    <3>1. members' = [members EXCEPT ![c] = InsertAt(members[c], at, entry)]
      BY DEF UseMiddleware
    <3>2. shifted' = (shifted \/ \E f \in ToSet(entered) : f.of = c /\ at <= f.index)
      BY DEF UseMiddleware
    <3>3. \A d \in Composites : \A m \in ToSet(members[d]) : m.node # l
      BY DEF UseMiddleware
    <3>5. UNCHANGED <<sync, path, entered, called, reply, outcome, began, asked, gave, failure, broken, dropped>>
      BY Zenon DEF UseMiddleware
    <3>6. /\ sync' = sync /\ entered' = entered /\ path' = path /\ called' = called /\ reply' = reply
          /\ outcome' = outcome /\ began' = began /\ asked' = asked /\ gave' = gave /\ failure' = failure
          /\ broken' = broken /\ dropped' = dropped
      BY <3>5
    <3> QED
      BY <3>1, <3>2, <3>3, <3>6, Zenon
  <2>2. entry = e /\ at = place
    BY <1>2, <1>5, <1>7
  <2> HIDE DEF entry, at
  <2> QED
    BY <2>1, <2>2, <1>2
<1>10. PICK t : t = InsertAt(s, place, e)
  OBVIOUS
<1> HIDE DEF Entry
<1>11. /\ t \in Seq(Entry) /\ Len(t) = n + 1 /\ DOMAIN t = 1..(n + 1) /\ t[place] = e
       /\ \A i \in 1..(place - 1) : t[i] = s[i]
       /\ \A i \in place..n : t[i + 1] = s[i]
  <2>1. place \in 1..(Len(s) + 1)
    BY <1>4, <1>8
  <2>2. /\ t \in Seq(Entry) /\ Len(t) = Len(s) + 1 /\ t[place] = e
        /\ \A i \in 1..(place - 1) : t[i] = s[i]
        /\ \A i \in place..Len(s) : t[i + 1] = s[i]
    <3>1. e \in Entry
      BY <1>6
    <3>2. /\ InsertAt(s, place, e) \in Seq(Entry) /\ Len(InsertAt(s, place, e)) = Len(s) + 1
          /\ InsertAt(s, place, e)[place] = e
          /\ \A i \in 1..(place - 1) : InsertAt(s, place, e)[i] = s[i]
          /\ \A i \in place..Len(s) : InsertAt(s, place, e)[i + 1] = s[i]
      BY <2>1, <3>1, <1>3, InsertedAt
    <3> QED
      BY <3>2, <1>10
  <2>3. DOMAIN t = 1..Len(t)
    BY <2>2, LenProperties
  <2> QED
    BY <2>2, <2>3, <1>4
<1>12. /\ members \in [Composites -> Stack] /\ members' \in [Composites -> Stack]
       /\ members'[c] = t /\ \A d \in Composites : d # c => members'[d] = members[d]
  <2>1. members \in [Composites -> Stack] /\ t \in Stack
    BY <1>1, <1>11 DEF RequestTypes, Stack, Entry
  <2> QED
    BY <2>1, <1>9, <1>10
<1>13. \A d \in Composites : \A i \in DOMAIN members[d] : members[d][i].node # l
  BY <1>9 DEF ToSet
\* Where a member of the new stack was, if it is not the one that came.
<1> DEFINE Old(d, i) == IF d = c /\ i > place THEN i - 1 ELSE i
<1>14. ASSUME NEW d \in Composites, NEW i \in DOMAIN members'[d], ~(d = c /\ i = place)
       PROVE  Old(d, i) \in DOMAIN members[d] /\ members'[d][i] = members[d][Old(d, i)] /\ i \in Nat
  <2>1. CASE d # c
    BY <2>1, <1>12, StackOf
  <2>2. CASE d = c
    <3>1. i \in 1..(n + 1) /\ i # place /\ members'[d] = t /\ members[d] = s
      BY <2>2, <1>2, <1>11, <1>12, <1>14
    <3>2. CASE i > place
      <4>1. i - 1 \in place..n /\ i - 1 + 1 = i /\ i - 1 \in 1..n
        BY <3>1, <3>2, <1>8
      <4>2. t[i] = s[i - 1]
        BY <4>1, <1>11
      <4> QED
        BY <2>2, <3>1, <3>2, <4>1, <4>2, <1>4
    <3>3. CASE ~ i > place
      <4>1. i \in 1..(place - 1) /\ i \in 1..n
        BY <3>1, <3>3, <1>8
      <4>2. t[i] = s[i]
        BY <4>1, <1>11
      <4> QED
        BY <2>2, <3>1, <3>3, <4>1, <4>2, <1>4
    <3> QED
      BY <3>2, <3>3
  <2> QED
    BY <2>1, <2>2
<1>15. members'[c][place].node = l
  BY <1>6, <1>11, <1>12
\* What stays where it was, or moves on.
<1>16. ASSUME NEW d \in Composites, NEW i \in DOMAIN members[d], d = c => i < place
       PROVE  i \in DOMAIN members'[d] /\ members'[d][i] = members[d][i]
  <2>1. CASE d # c
    BY <2>1, <1>12
  <2>2. CASE d = c
    <3>1. i \in 1..(place - 1) /\ i \in 1..(n + 1)
      BY <2>2, <1>2, <1>4, <1>8, <1>16
    <3> QED
      BY <2>2, <3>1, <1>2, <1>11, <1>12
  <2> QED
    BY <2>1, <2>2
<1>17. ASSUME NEW i \in DOMAIN members[c], ~ i < place
       PROVE  i + 1 \in DOMAIN members'[c] /\ members'[c][i + 1] = members[c][i]
  <2>1. i \in place..n /\ i + 1 \in 1..(n + 1)
    BY <1>2, <1>4, <1>8, <1>17
  <2> QED
    BY <2>1, <1>2, <1>11, <1>12
<1>18. \A d \in Composites : Len(members[d]) \in Nat /\ Len(members[d]) <= Len(members'[d]) /\ Len(members'[d]) \in Nat
  <2> TAKE d \in Composites
  <2>1. Len(members[d]) \in Nat /\ Len(members'[d]) \in Nat
    BY <1>12, StackOf
  <2>2. CASE d = c
    BY <2>1, <2>2, <1>2, <1>4, <1>11, <1>12
  <2>3. CASE d # c
    BY <2>1, <2>3, <1>12
  <2> QED
    BY <2>1, <2>2, <2>3
<1>19. PICK K : K = Len(entered)
  OBVIOUS
<1>20. K \in Nat /\ \A k \in 1..K : entered[k] \in Frame
  <2>1. entered \in Seq(Frame)
    BY <1>1 DEF RequestTypes
  <2> QED
    BY <2>1, <1>19, LenProperties
<1>types. RequestTypes'
  <2>1. shifted' \in BOOLEAN
    BY <1>1, <1>9 DEF RequestTypes
  <2> QED
    BY <2>1, <1>1, <1>9, <1>12 DEF RequestTypes
<1>one. OneAtATime'
  <2>1. Innermost' = Innermost
    BY <1>9 DEF Innermost
  <2> QED
    BY <2>1, <1>1, <1>9 DEF OneAtATime, Pending
<1>frames. FramesProgress'
  <2>1. ASSUME NEW k \in 1..K
        PROVE  /\ entered[k].index <= Len(members'[entered[k].of]) + 1
               /\ entered[k].limit <= Len(members'[entered[k].of])
               /\ k < K \/ Pending => entered[k].index <= Len(members'[entered[k].of])
    <3>1. PICK d \in Composites : d = entered[k].of
      BY <1>20, FrameFields
    <3>2. entered[k].index \in Nat /\ entered[k].limit \in Nat
      BY <1>20, FrameFields
    <3>3. /\ entered[k].index <= Len(members[d]) + 1
          /\ entered[k].limit <= Len(members[d])
          /\ k < K \/ Pending => entered[k].index <= Len(members[d])
      BY <3>1, <1>1, <1>19 DEF FramesProgress
    <3>4. Len(members[d]) \in Nat /\ Len(members[d]) <= Len(members'[d]) /\ Len(members'[d]) \in Nat
      BY <1>18
    <3>5. /\ entered[k].index <= Len(members'[d]) + 1
          /\ entered[k].limit <= Len(members'[d])
          /\ k < K \/ Pending => entered[k].index <= Len(members'[d])
      BY <3>2, <3>3, <3>4
    <3> QED
      BY <3>1, <3>5
  <2>2. Pending' = Pending
    BY <1>9 DEF Pending
  <2> QED
    BY <2>1, <2>2, <1>1, <1>9, <1>19 DEF FramesProgress
<1>errors. ErrorsKnown' /\ LatestKept' /\ ResultsKnown'
  BY <1>1, <1>9 DEF ErrorsKnown, LatestKept, ResultsKnown
<1>paths. PathsKept'
  BY <1>1, <1>9 DEF PathsKept, LeftAfter, Routes
<1>tree. Tree'
  <2>1. Apart(members')
    <3>1. Apart(members)
      BY <1>1 DEF Tree
    <3>2. ASSUME NEW d \in Composites, NEW f \in Composites, NEW i \in DOMAIN members'[d], NEW j \in DOMAIN members'[f],
                 members'[d][i].node = members'[f][j].node
          PROVE  d = f /\ i = j
      <4>1. CASE d = c /\ i = place
        <5>1. f = c /\ j = place
          <6>1. SUFFICES ASSUME ~(f = c /\ j = place) PROVE FALSE
            OBVIOUS
          <6>2. Old(f, j) \in DOMAIN members[f] /\ members[f][Old(f, j)].node = l
            BY <6>1, <3>2, <4>1, <1>14, <1>15
          <6> QED
            BY <6>2, <1>13
        <5> QED
          BY <4>1, <5>1
      <4>2. CASE f = c /\ j = place
        <5>1. d = c /\ i = place
          <6>1. SUFFICES ASSUME ~(d = c /\ i = place) PROVE FALSE
            OBVIOUS
          <6>2. Old(d, i) \in DOMAIN members[d] /\ members[d][Old(d, i)].node = l
            BY <6>1, <3>2, <4>2, <1>14, <1>15
          <6> QED
            BY <6>2, <1>13
        <5> QED
          BY <4>2, <5>1
      <4>3. CASE ~(d = c /\ i = place) /\ ~(f = c /\ j = place)
        <5>1. /\ Old(d, i) \in DOMAIN members[d] /\ members'[d][i] = members[d][Old(d, i)] /\ i \in Nat
              /\ Old(f, j) \in DOMAIN members[f] /\ members'[f][j] = members[f][Old(f, j)] /\ j \in Nat
          BY <4>3, <1>14
        <5>2. PICK a : a = Old(d, i)
          OBVIOUS
        <5>3. PICK b : b = Old(f, j)
          OBVIOUS
        <5>4. a \in DOMAIN members[d] /\ b \in DOMAIN members[f] /\ members[d][a].node = members[f][b].node
          BY <5>1, <5>2, <5>3, <3>2
        <5>5. d = f /\ a = b
          BY <5>4, <3>1 DEF Apart
        <5> QED
          BY <4>3, <5>1, <5>2, <5>3, <5>5, <1>8
      <4> QED
        BY <4>1, <4>2, <4>3
    <3>3. ASSUME NEW d \in Composites, NEW i \in DOMAIN members'[d] PROVE members'[d][i].node # Root
      <4>1. CASE d = c /\ i = place
        <5>1. l # Root
          BY MiddlewaresAssumption
        <5> QED
          BY <4>1, <5>1, <1>15
      <4>2. CASE ~(d = c /\ i = place)
        <5>1. PICK a \in DOMAIN members[d] : members'[d][i] = members[d][a]
          BY <4>2, <1>14
        <5> QED
          BY <5>1, <3>1 DEF Apart
      <4> QED
        BY <4>1, <4>2
    <3> QED
      BY <3>2, <3>3 DEF Apart
  <2>2. SUFFICES ASSUME ~shifted'
                 PROVE  Chained' /\ IsInjective(asked') /\ \E S \in SUBSET Composites : LeftBehind(S)'
    BY <2>1 DEF Tree, LeftBehind, Past, Passed, Pending
  <2>3. ~shifted /\ \A k \in 1..K : entered[k].of = c => entered[k].index < place
    <3>1. ~shifted /\ \A f \in ToSet(entered) : ~(f.of = c /\ place <= f.index)
      BY <2>2, <1>9
    <3>2. ASSUME NEW k \in 1..K PROVE entered[k] \in ToSet(entered) /\ entered[k].index \in Nat
      <4>1. entered \in Seq(Frame)
        BY <1>1 DEF RequestTypes
      <4>2. entered[k] \in ToSet(entered)
        BY <4>1, <1>19, ElementsOf
      <4> QED
        BY <4>2, <1>20, FrameFields
    <3> QED
      BY <3>1, <3>2, <1>8
  <2>4. PICK S \in SUBSET Composites : LeftBehind(S)
    BY <2>3, <1>1 DEF Tree
  <2>5. Chained /\ IsInjective(asked)
    BY <2>3, <1>1 DEF Tree
  <2>6. Chained'
    <3>1. ASSUME NEW k \in 1..(K - 1)
          PROVE  members'[entered[k].of][entered[k].index].node = entered[k + 1].of
      <4>1. k \in 1..K /\ k < K
        BY <1>20
      <4>2. PICK d \in Composites : d = entered[k].of
        BY <4>1, <1>20, FrameFields
      <4>3. PICK i \in Nat : i = entered[k].index /\ i # 0
        BY <4>1, <1>20, FrameFields
      <4>4. i <= Len(members[d])
        BY <4>1, <4>2, <4>3, <1>1, <1>19 DEF FramesProgress
      <4>5. i \in DOMAIN members[d]
        BY <4>3, <4>4, <1>12, StackOf
      <4>6. d = c => i < place
        BY <4>1, <4>2, <4>3, <2>3
      <4>7. members'[d][i] = members[d][i]
        BY <4>5, <4>6, <1>16
      <4>8. members[d][i].node = entered[k + 1].of
        BY <4>2, <4>3, <2>5, <1>19 DEF Chained
      <4> QED
        BY <4>2, <4>3, <4>7, <4>8
    <3> QED
      BY <3>1, <2>5, <1>9, <1>19 DEF Chained
  <2>7. ASSUME NEW m, Past(m, S) PROVE Past(m, S)'
    <3>1. PICK d \in Composites : \E i \in DOMAIN members[d] : members[d][i].node = m /\ Passed(d, i, S)
      BY <2>7 DEF Past
    <3>2. PICK i \in DOMAIN members[d] : members[d][i].node = m /\ Passed(d, i, S)
      BY <3>1
    <3>3. i \in Nat
      BY <1>12, StackOf
    <3>4. CASE d = c => i < place
      <4>1. i \in DOMAIN members'[d] /\ members'[d][i].node = m
        BY <3>2, <3>4, <1>16
      <4>2. Passed(d, i, S)'
        BY <3>2, <1>9 DEF Passed, Pending
      <4> QED
        BY <4>1, <4>2 DEF Past
    <3>5. CASE d = c /\ ~ i < place
      <4>1. d \in S
        <5>1. SUFFICES ASSUME d \notin S PROVE FALSE
          OBVIOUS
        <5>2. PICK k \in 1..K : entered[k].of = c /\ (i < entered[k].index \/ i = entered[k].index)
          BY <5>1, <3>2, <3>5, <1>19 DEF Passed
        <5>3. entered[k].index \in Nat /\ entered[k].index < place
          BY <5>2, <2>3, <1>20, FrameFields
        <5> QED
          BY <5>2, <5>3, <3>3, <3>5, <1>8
      <4>2. i + 1 \in DOMAIN members'[d] /\ members'[d][i + 1].node = m
        BY <3>2, <3>5, <1>17
      <4>3. Passed(d, i + 1, S)'
        BY <4>1 DEF Passed
      <4> QED
        BY <4>2, <4>3 DEF Past
    <3> QED
      BY <3>4, <3>5
  <2>8. LeftBehind(S)'
    BY <2>4, <2>7, <1>9 DEF LeftBehind
  <2> QED
    BY <2>5, <2>6, <2>8, <1>9
<1> QED
  BY <1>types, <1>one, <1>frames, <1>errors, <1>paths, <1>tree DEF RequestInv
-----------------------------------------------------------------------------
\* A frame that goes on, with the error it had.
LEMMA SkippedFrame ==
  ASSUME NEW f \in Frame, NEW g, g = [f EXCEPT !.index = @ + 1]
  PROVE  /\ g \in Frame /\ g.of = f.of /\ g.handles = f.handles /\ g.limit = f.limit
         /\ g.path = f.path /\ g.index = f.index + 1 /\ g.error = f.error /\ g.failed = f.failed
<1>1. f.index \in Nat /\ f.index + 1 \in Nat \ {0}
  BY FrameFields
<1>2. /\ g.of = f.of /\ g.handles = f.handles /\ g.limit = f.limit
      /\ g.path = f.path /\ g.index = f.index + 1 /\ g.error = f.error /\ g.failed = f.failed
  BY DEF Frame
<1>3. g \in Frame
  BY <1>1 DEF Frame
<1> QED
  BY <1>2, <1>3

\* A frame as it is entered.
LEMMA EnteredFrame ==
  ASSUME members \in [Composites -> Stack], path \in Seq(Segments),
         NEW c \in Composites, NEW b \in BOOLEAN, NEW e \in Error \union {Unhandled}
  PROVE  /\ Entered(c, b, e, path) \in Frame
         /\ Entered(c, b, e, path).of = c /\ Entered(c, b, e, path).handles = b
         /\ Entered(c, b, e, path).index = 1 /\ Entered(c, b, e, path).limit = Len(members[c])
         /\ Entered(c, b, e, path).error = e /\ Entered(c, b, e, path).failed = ~b
         /\ Entered(c, b, e, path).path = path
<1>1. PICK n \in Nat : n = Len(members[c])
  BY StackOf
<1>2. PICK d \in BOOLEAN : d <=> ~b
  BY Zenon
<1>3. PICK g : g = [of |-> c, handles |-> b, index |-> 1, limit |-> n, error |-> e, failed |-> d, path |-> path]
  OBVIOUS
<1>4. 1 \in Nat \ {0}
  OBVIOUS
<1>5. /\ g \in Frame /\ g.of = c /\ g.handles = b /\ g.index = 1 /\ g.limit = n
      /\ g.error = e /\ g.failed = d /\ g.path = path
  BY <1>3, <1>4 DEF Frame
<1>6. d = ~b
  BY <1>2
<1>7. Entered(c, b, e, path) = g
  BY <1>1, <1>3, <1>6 DEF Entered
<1> QED
  BY <1>1, <1>5, <1>6, <1>7

\* What is known of the composite that a request is in.
LEMMA InnermostKnown ==
  ASSUME RequestInv, entered # <<>>
  PROVE  /\ Innermost \in Frame /\ outcome = None
         /\ ~Innermost.handles => Innermost.failed
         /\ Innermost.failed => Innermost.error # Unhandled
         /\ Innermost.error # Unhandled => failure # None
         /\ Innermost.error # Unhandled /\ ~Innermost.failed => Innermost.error.is = "refusal"
         /\ Pending => Innermost.index <= Len(members[Innermost.of])
         /\ HasMore => Innermost.index <= Len(members[Innermost.of])
         /\ HasMore => Innermost.index \in DOMAIN members[Innermost.of]
         /\ gave = None /\ ~broken /\ reply \notin Error /\ failure # None =>
              Innermost.error \in {failure, Unhandled}
<1>1. RequestTypes /\ OneAtATime /\ FramesProgress /\ ErrorsKnown /\ LatestKept
  BY DEF RequestInv
<1>2. PICK K : K = Len(entered)
  OBVIOUS
<1>3. K \in Nat /\ K >= 1 /\ Innermost = entered[K] /\ Innermost \in Frame
  BY <1>1, <1>2, Inside DEF RequestTypes
<1>4. K \in 1..K
  BY <1>3
<1>5. outcome = None
  BY <1>1 DEF OneAtATime
<1>6. /\ ~Innermost.handles => Innermost.failed
      /\ Pending => Innermost.index <= Len(members[Innermost.of])
      /\ Innermost.limit <= Len(members[Innermost.of])
  BY <1>1, <1>2, <1>3, <1>4 DEF FramesProgress
<1>7. /\ Innermost.failed => Innermost.error # Unhandled
      /\ Innermost.error # Unhandled => failure # None
      /\ Innermost.error # Unhandled /\ ~Innermost.failed => Innermost.error.is = "refusal"
  BY <1>1, <1>2, <1>3, <1>4 DEF ErrorsKnown
<1>8. PICK i \in Nat, m \in Nat, n \in Nat :
        i = Innermost.index /\ i # 0 /\ m = Innermost.limit /\ n = Len(members[Innermost.of])
  BY <1>1, <1>3, FrameFields, StackOf DEF RequestTypes
<1>9. HasMore => i <= n
  BY <1>6, <1>8 DEF HasMore
<1>10. DOMAIN members[Innermost.of] = 1..n
  BY <1>1, <1>3, <1>8, FrameFields, StackOf DEF RequestTypes
<1>11. HasMore => i \in 1..n
  BY <1>8, <1>9
<1>12. ASSUME gave = None, ~broken, reply \notin Error, failure # None
       PROVE  Innermost.error \in {failure, Unhandled}
  <2>1. PICK k \in 1..K : entered[k].error = failure /\ \A j \in (k + 1)..K : entered[j].error = Unhandled
    BY <1>1, <1>2, <1>5, <1>12 DEF LatestKept
  <2>2. k # K => K \in (k + 1)..K
    BY <1>3
  <2> QED
    BY <2>1, <2>2, <1>3
<1> QED
  BY <1>3, <1>5, <1>6, <1>7, <1>8, <1>9, <1>10, <1>11, <1>12

\* What is known of the answer of a member.
LEMMA ReplyKnown ==
  ASSUME RequestInv, Answered
  PROVE  /\ entered # <<>> /\ called = None /\ Pending /\ reply \in Answer
         /\ HasError <=> reply \in Error
         /\ reply \in Error => failure # None
         /\ gave = None /\ ~broken /\ reply \in Error => reply = failure
         /\ reply = Break => broken
         /\ reply.is = "result" => gave # None \/ (reply = BreakResult /\ broken)
         /\ gave # None /\ ~dropped => reply = Result(gave) /\ reply.is = "result"
         /\ dropped \in BOOLEAN
<1>1. RequestTypes /\ OneAtATime /\ ErrorsKnown /\ LatestKept /\ ResultsKnown
  BY DEF RequestInv
<1>2. entered # <<>> /\ reply # None
  BY DEF Answered
<1>3. called = None /\ outcome = None /\ reply \in Answer /\ gave \in Middleware \union {None} /\ dropped \in BOOLEAN
  BY <1>1, <1>2 DEF OneAtATime, RequestTypes
<1>4. HasError <=> reply \in Error
  BY <1>3, AnswerKinds DEF HasError
<1>5. reply \in Error => failure # None
  BY <1>1 DEF ErrorsKnown
<1>6. gave = None /\ ~broken /\ reply \in Error => reply = failure
  BY <1>1 DEF LatestKept
<1>7. /\ reply = Break => broken
      /\ reply.is = "result" => gave # None \/ (reply = BreakResult /\ broken)
      /\ gave # None /\ ~dropped => reply = Result(gave)
  BY <1>1, <1>2, <1>3 DEF ResultsKnown
<1>8. gave # None => Result(gave).is = "result"
  BY <1>3, AnswerKinds
<1> QED
  BY <1>2, <1>3, <1>4, <1>5, <1>6, <1>7, <1>8 DEF Pending

\* A member that is not of the kind looked for is skipped.
LEMMA SkipKeeps ==
  ASSUME RequestInv, Skip
  PROVE  RequestInv'
<1>1. entered # <<>> /\ called = None /\ reply = None /\ HasMore
  BY DEF Skip, Between
<1>2. PICK g : g = [Innermost EXCEPT !.index = @ + 1]
  OBVIOUS
<1>3. entered' = Append(Around, g)
  BY <1>2 DEF Skip
<1>4. /\ Innermost \in Frame
      /\ ~Innermost.handles => Innermost.failed
      /\ Innermost.failed => Innermost.error # Unhandled
      /\ Innermost.error # Unhandled => failure # None
      /\ Innermost.error # Unhandled /\ ~Innermost.failed => Innermost.error.is = "refusal"
      /\ Innermost.index <= Len(members[Innermost.of])
  BY <1>1, InnermostKnown
<1>5. /\ g \in Frame /\ g.of = Innermost.of /\ g.handles = Innermost.handles /\ g.limit = Innermost.limit
      /\ g.path = Innermost.path /\ g.index = Innermost.index + 1 /\ g.error = Innermost.error
      /\ g.failed = Innermost.failed
  BY <1>2, <1>4, SkippedFrame
<1>6. /\ members' = members /\ path' = path /\ called' = called /\ outcome' = outcome /\ reply' = None
      /\ sync' = sync /\ began' = began /\ asked' = asked /\ gave' = gave /\ failure' = failure
      /\ broken' = broken /\ shifted' = shifted /\ dropped' = dropped
  BY <1>1 DEF Skip, histories
<1>7. gave # None => dropped
  <2>1. gave \in Middleware \union {None} /\ outcome = None
    BY <1>1, InnermostKnown DEF RequestInv, RequestTypes
  <2>2. gave # None /\ ~dropped => reply = Result(gave)
    BY <2>1 DEF RequestInv, ResultsKnown
  <2>3. gave # None => Result(gave) # None
    BY <2>1, AnswerKinds
  <2> QED
    BY <2>2, <2>3, <1>1
<1>8. dropped \in BOOLEAN /\ reply \notin Error
  BY <1>1, AnswerKinds DEF RequestInv, RequestTypes
<1>9. Advances(g)
  BY <1>1, <1>3, <1>4, <1>5, <1>6, <1>7, <1>8 DEF Advances
<1> QED
  BY <1>9, NextKeeps

\* The innermost composite goes on after the answer of a member.
LEMMA GoOnKeeps ==
  ASSUME RequestInv, Answered, NEW e \in Error \union {Unhandled}, NEW b \in BOOLEAN, GoOn(e, b),
         ~Innermost.handles => b,
         b => e # Unhandled,
         e # Unhandled => failure # None,
         e # Unhandled /\ ~b => e.is = "refusal",
         gave = None /\ ~broken => e = IF reply \in Error THEN reply ELSE Innermost.error,
         gave # None => dropped',
         dropped' \in BOOLEAN, dropped => dropped',
         UNCHANGED <<sync, began, asked, gave, failure, broken, shifted>>
  PROVE  RequestInv'
<1>1. entered # <<>> /\ called = None /\ Pending
  BY ReplyKnown
<1>f. PICK f : f = Innermost
  OBVIOUS
<1>2. PICK g : g = [f EXCEPT !.index = @ + 1, !.error = e, !.failed = b]
  OBVIOUS
<1>3. entered' = Append(Around, g)
  BY <1>f, <1>2 DEF GoOn
<1>4. Innermost \in Frame /\ Innermost.index <= Len(members[Innermost.of])
  BY <1>1, InnermostKnown
<1>5. /\ g \in Frame /\ g.of = f.of /\ g.handles = f.handles /\ g.limit = f.limit
      /\ g.path = f.path /\ g.index = f.index + 1 /\ g.error = e /\ g.failed = b
  <2>1. f \in Frame
    BY <1>f, <1>4
  <2>2. f.index + 1 \in Nat \ {0}
    BY <2>1, FrameFields
  <2>3. /\ g.of = f.of /\ g.handles = f.handles /\ g.limit = f.limit
        /\ g.path = f.path /\ g.index = f.index + 1 /\ g.error = e /\ g.failed = b
    BY <2>1, <1>2 DEF Frame
  <2>4. g \in Frame
    BY <2>1, <2>2, <1>2 DEF Frame
  <2> QED
    BY <2>3, <2>4
<1>6. /\ members' = members /\ path' = path /\ called' = called /\ outcome' = outcome /\ reply' = None
  BY DEF GoOn
<1>7. Advances(g)
  BY <1>f, <1>1, <1>3, <1>4, <1>5, <1>6 DEF Advances
<1> QED
  BY <1>7, NextKeeps

\* After its last member a composite answers the error it has, or nothing.
LEMMA LastMemberKeeps ==
  ASSUME RequestInv, LastMemberTried
  PROVE  RequestInv'
<1>1. entered # <<>> /\ called = None /\ reply = None
  BY DEF LastMemberTried, Between
<1>2. PICK a : a = Innermost.error
  OBVIOUS
<1>3. Depart(a)
  BY <1>2 DEF LastMemberTried
<1>4. /\ sync' = sync /\ began' = began /\ asked' = asked /\ gave' = gave /\ failure' = failure
      /\ broken' = broken /\ shifted' = shifted /\ dropped' = dropped
  BY DEF LastMemberTried, histories
<1>5. /\ Innermost \in Frame /\ outcome = None
      /\ a # Unhandled => failure # None
      /\ gave = None /\ ~broken /\ reply \notin Error /\ failure # None => a \in {failure, Unhandled}
  BY <1>1, <1>2, InnermostKnown
<1>6. a \in Error \union {Unhandled}
  BY <1>2, <1>5, FrameFields
<1>7. /\ a \in Answer /\ a # Break /\ a.is # "result" /\ (a \in Error => a # Unhandled) /\ reply \notin Error
  BY <1>1, <1>6, AnswerKinds
<1>8. gave # None => dropped
  <2>1. gave \in Middleware \union {None}
    BY DEF RequestInv, RequestTypes
  <2>2. gave # None /\ ~dropped => reply = Result(gave)
    BY <1>5 DEF RequestInv, ResultsKnown
  <2>3. gave # None => Result(gave) # None
    BY <2>1, AnswerKinds
  <2> QED
    BY <2>2, <2>3, <1>1
<1>9. dropped \in BOOLEAN
  BY DEF RequestInv, RequestTypes
<1>10. Leaves(a)
  BY <1>1, <1>2, <1>3, <1>4, <1>5, <1>6, <1>7, <1>8, <1>9 DEF Leaves
<1> QED
  BY <1>10, DepartKeeps

\* The innermost composite is left after the answer of a member: with a result
\* or nothing, once 'break' was said or a result given, or with the error it has.
LEMMA LeaveKeeps ==
  ASSUME RequestInv, Answered, NEW a \in Answer, Depart(a),
         broken \/ gave # None, a # Break,
         a \in Error => failure # None,
         a.is = "result" => gave # None \/ (a = BreakResult /\ broken),
         gave # None => dropped' \/ a = Result(gave),
         dropped' \in BOOLEAN, dropped => dropped',
         UNCHANGED <<sync, began, asked, gave, failure, broken, shifted>>
  PROVE  RequestInv'
<1>1. entered # <<>> /\ called = None
  BY ReplyKnown
<1>2. Leaves(a)
  BY <1>1 DEF Leaves
<1> QED
  BY <1>2, DepartKeeps
-----------------------------------------------------------------------------
\* A composite that handles the request hears a standard middleware.
LEMMA StandardKeeps ==
  ASSUME RequestInv, AfterStandard
  PROVE  RequestInv'
<1>1. Answered /\ ~Innermost.failed /\ Innermost.handles
  BY DEF AfterStandard
<1>2. /\ entered # <<>> /\ reply \in Answer
      /\ HasError <=> reply \in Error
      /\ reply \in Error => failure # None
      /\ reply = Break => broken
      /\ reply.is = "result" => gave # None \/ (reply = BreakResult /\ broken)
      /\ gave # None /\ ~dropped => reply = Result(gave) /\ reply.is = "result"
      /\ dropped \in BOOLEAN
  BY <1>1, ReplyKnown
<1>3. /\ Innermost.error \in Error \union {Unhandled}
      /\ Innermost.error # Unhandled => failure # None
      /\ Innermost.error # Unhandled => Innermost.error.is = "refusal"
  BY <1>1, <1>2, InnermostKnown, FrameFields
<1>4. UNCHANGED <<sync, began, asked, gave, failure, broken, shifted>> /\ dropped' = dropped
  BY DEF AfterStandard, histories
<1>5. /\ Unhandled \notin Error /\ Unhandled.is = "next" /\ Break.is = "break"
      /\ reply \in Error => reply.is \in {"error", "refusal"}
      /\ reply.is = "result" => reply # Break /\ reply \notin Error
      /\ {Unhandled, BreakResult} \subseteq Answer /\ BreakResult.is = "result"
  BY <1>2, AnswerKinds
<1>6. CASE reply = Unhandled /\ GoOn(Innermost.error, FALSE)
  <2>1. PICK e : e = Innermost.error
    OBVIOUS
  <2>2. GoOn(e, FALSE) /\ e \in Error \union {Unhandled}
    BY <2>1, <1>3, <1>6
  <2>3. /\ e # Unhandled => failure # None
        /\ e # Unhandled /\ ~FALSE => e.is = "refusal"
        /\ gave = None /\ ~broken => e = IF reply \in Error THEN reply ELSE Innermost.error
        /\ gave # None => dropped'
    BY <2>1, <1>2, <1>3, <1>4, <1>5, <1>6
  <2> QED
    BY <2>2, <2>3, <1>1, <1>2, <1>4, GoOnKeeps
<1>7. CASE HasError /\ GoOn(reply, reply.is = "error")
  <2>1. PICK b \in BOOLEAN : b = (reply.is = "error")
    OBVIOUS
  <2>2. GoOn(reply, b) /\ reply \in Error
    BY <2>1, <1>2, <1>7
  <2>3. /\ reply # Unhandled /\ failure # None
        /\ ~b => reply.is = "refusal"
        /\ gave # None => dropped'
    BY <2>1, <2>2, <1>2, <1>4, <1>5
  <2> QED
    BY <2>2, <2>3, <1>1, <1>2, <1>4, GoOnKeeps
<1>8. CASE reply = Break /\ Depart(IF Simple /\ ~sync THEN BreakResult ELSE Unhandled)
  <2>1. PICK a \in {BreakResult, Unhandled} : Depart(a)
    BY <1>8
  <2>2. a \in Answer /\ a # Break /\ a \notin Error /\ (a.is = "result" => a = BreakResult)
    BY <1>5, AnswerKinds
  <2>3. broken /\ (gave # None => dropped')
    BY <1>2, <1>4, <1>5, <1>8
  <2> QED
    BY <2>1, <2>2, <2>3, <1>1, <1>2, <1>4, LeaveKeeps
<1>9. CASE reply.is = "result" /\ Depart(reply)
  <2>1. reply # Break /\ reply \notin Error /\ (broken \/ gave # None) /\ (gave # None => dropped' \/ reply = Result(gave))
    BY <1>2, <1>4, <1>5, <1>9
  <2> QED
    BY <2>1, <1>1, <1>2, <1>4, <1>9, LeaveKeeps
<1> QED
  BY <1>6, <1>7, <1>8, <1>9 DEF AfterStandard

\* A composite that handles the request hears an error middleware.
LEMMA ErrorKeeps ==
  ASSUME RequestInv, AfterError
  PROVE  RequestInv'
<1>1. Answered /\ Innermost.failed /\ Innermost.handles
  BY DEF AfterError
<1>2. /\ entered # <<>> /\ reply \in Answer
      /\ HasError <=> reply \in Error
      /\ reply \in Error => failure # None
      /\ reply = Break => broken
      /\ reply.is = "result" => gave # None \/ (reply = BreakResult /\ broken)
      /\ gave # None /\ ~dropped => reply = Result(gave) /\ reply.is = "result"
      /\ dropped \in BOOLEAN
  BY <1>1, ReplyKnown
<1>3. Innermost.error \in Error /\ Innermost.error # Unhandled /\ failure # None
  BY <1>1, <1>2, InnermostKnown, FrameFields
<1>4. /\ UNCHANGED <<sync, began, asked, gave, failure, broken, shifted>>
      /\ dropped' = (dropped \/ (reply.is = "result" /\ Simple))
  BY DEF AfterError
<1>5. /\ Unhandled \notin Error /\ Unhandled.is = "next" /\ Break.is = "break"
      /\ reply \in Error => reply.is \in {"error", "refusal"}
      /\ reply.is = "result" => reply # Break /\ reply \notin Error
      /\ {Unhandled, NoResult} \subseteq Answer /\ BreakResult.is = "result" /\ NoResult.is = "result"
      /\ BreakResult # NoResult
      /\ Innermost.error \in Answer /\ Innermost.error # Break /\ Innermost.error.is # "result"
  BY <1>2, <1>3, AnswerKinds
<1>6. dropped' \in BOOLEAN /\ (dropped => dropped')
  BY <1>2, <1>4
<1>7. CASE reply = Unhandled /\ GoOn(Innermost.error, TRUE)
  <2>1. PICK e : e = Innermost.error
    OBVIOUS
  <2>2. GoOn(e, TRUE) /\ e \in Error \union {Unhandled}
    BY <2>1, <1>3, <1>7
  <2>3. /\ e # Unhandled /\ failure # None
        /\ gave = None /\ ~broken => e = IF reply \in Error THEN reply ELSE Innermost.error
        /\ gave # None => dropped'
    BY <2>1, <1>2, <1>3, <1>4, <1>5, <1>7
  <2> QED
    BY <2>2, <2>3, <1>1, <1>4, <1>6, GoOnKeeps
<1>8. CASE HasError /\ GoOn(reply, TRUE)
  <2>1. /\ reply \in Error /\ reply # Unhandled /\ failure # None
        /\ gave # None => dropped'
    BY <1>2, <1>3, <1>4, <1>5, <1>8
  <2> QED
    BY <2>1, <1>1, <1>4, <1>6, <1>8, GoOnKeeps
<1>9. CASE reply = Break /\ Depart(Unhandled)
  <2>1. broken /\ (gave # None => dropped') /\ Unhandled \in Answer /\ Unhandled # Break /\ Unhandled.is # "result"
    BY <1>2, <1>4, <1>5, <1>9
  <2> QED
    BY <2>1, <1>1, <1>4, <1>5, <1>6, <1>9, LeaveKeeps
<1>10. CASE reply.is = "result" /\ ~Simple /\ Depart(reply)
  <2>1. reply # Break /\ reply \notin Error /\ (broken \/ gave # None) /\ (gave # None => dropped' \/ reply = Result(gave))
    BY <1>2, <1>4, <1>5, <1>10
  <2> QED
    BY <2>1, <1>1, <1>2, <1>4, <1>6, <1>10, LeaveKeeps
<1>11. CASE reply = BreakResult /\ Simple /\ Depart(Unhandled)
  <2>1. (broken \/ gave # None) /\ dropped' /\ Unhandled \in Answer /\ Unhandled # Break /\ Unhandled.is # "result"
    BY <1>2, <1>4, <1>5, <1>11
  <2> QED
    BY <2>1, <1>1, <1>4, <1>5, <1>6, <1>11, LeaveKeeps
<1>12. CASE reply = NoResult /\ Simple /\ Depart(Innermost.error)
  <2>1. PICK a : a = Innermost.error
    OBVIOUS
  <2>2. /\ (broken \/ gave # None) /\ dropped' /\ Depart(a) /\ a \in Answer /\ a # Break /\ a.is # "result"
        /\ failure # None
    BY <2>1, <1>2, <1>3, <1>4, <1>5, <1>12
  <2> QED
    BY <2>2, <1>1, <1>4, <1>5, <1>6, <1>12, LeaveKeeps
<1>13. CASE reply.is = "result" /\ reply \notin {BreakResult, NoResult} /\ Simple /\ Depart(NoResult)
  <2>1. gave # None /\ dropped' /\ NoResult \in Answer /\ NoResult # Break /\ NoResult \notin Error
    BY <1>2, <1>4, <1>5, <1>13, AnswerKinds
  <2> QED
    BY <2>1, <1>1, <1>4, <1>5, <1>6, <1>13, LeaveKeeps
<1> QED
  BY <1>7, <1>8, <1>9, <1>10, <1>11, <1>12, <1>13 DEF AfterError

\* A composite that is an error middleware hears one of its own.
LEMMA HandleErrorKeeps ==
  ASSUME RequestInv, AfterHandleError
  PROVE  RequestInv'
<1>1. Answered /\ ~Innermost.handles
  BY DEF AfterHandleError
<1>2. /\ entered # <<>> /\ reply \in Answer
      /\ HasError <=> reply \in Error
      /\ reply \in Error => failure # None
      /\ reply = Break => broken
      /\ reply.is = "result" => gave # None \/ (reply = BreakResult /\ broken)
      /\ gave # None /\ ~dropped => reply = Result(gave) /\ reply.is = "result"
      /\ dropped \in BOOLEAN
  BY <1>1, ReplyKnown
<1>3. Innermost.error \in Error /\ Innermost.error # Unhandled /\ failure # None
  BY <1>1, <1>2, InnermostKnown, FrameFields
<1>4. /\ UNCHANGED <<sync, began, asked, gave, failure, broken, shifted>>
      /\ dropped' = (dropped \/ (reply.is = "result" /\ Simple /\ sync))
  BY DEF AfterHandleError
<1>5. /\ Unhandled \notin Error /\ Unhandled.is = "next" /\ Break.is = "break"
      /\ reply \in Error => reply.is \in {"error", "refusal"}
      /\ reply.is = "result" => reply # Break /\ reply \notin Error
      /\ BreakResult \in Answer /\ BreakResult.is = "result" /\ BreakResult # Break /\ BreakResult \notin Error
  BY <1>2, AnswerKinds
<1>6. dropped' \in BOOLEAN /\ (dropped => dropped')
  BY <1>2, <1>4
<1>7. CASE (reply = Unhandled \/ reply = Break \/ (reply.is = "result" /\ Simple /\ sync)) /\ GoOn(Innermost.error, TRUE)
  <2>1. PICK e : e = Innermost.error
    OBVIOUS
  <2>2. GoOn(e, TRUE) /\ e \in Error \union {Unhandled}
    BY <2>1, <1>3, <1>7
  <2>3. reply \notin Error /\ (gave # None => dropped')
    BY <1>2, <1>4, <1>5, <1>7
  <2>4. /\ e # Unhandled /\ failure # None
        /\ gave = None /\ ~broken => e = IF reply \in Error THEN reply ELSE Innermost.error
    BY <2>1, <2>3, <1>3
  <2> QED
    BY <2>2, <2>3, <2>4, <1>1, <1>4, <1>6, GoOnKeeps
<1>8. CASE HasError /\ GoOn(reply, TRUE)
  <2>1. /\ reply \in Error /\ reply # Unhandled /\ failure # None
        /\ gave # None => dropped'
    BY <1>2, <1>3, <1>4, <1>5, <1>8
  <2> QED
    BY <2>1, <1>1, <1>4, <1>6, <1>8, GoOnKeeps
<1>9. CASE reply = Break /\ Depart(BreakResult)
  <2>1. broken /\ (gave # None => dropped')
    BY <1>2, <1>4, <1>5, <1>9
  <2> QED
    BY <2>1, <1>1, <1>4, <1>5, <1>6, <1>9, LeaveKeeps
<1>10. CASE reply.is = "result" /\ Depart(reply)
  <2>1. reply # Break /\ reply \notin Error /\ (broken \/ gave # None) /\ (gave # None => dropped' \/ reply = Result(gave))
    BY <1>2, <1>4, <1>5, <1>10
  <2> QED
    BY <2>1, <1>1, <1>2, <1>4, <1>6, <1>10, LeaveKeeps
<1> QED
  BY <1>7, <1>8, <1>9, <1>10 DEF AfterHandleError
-----------------------------------------------------------------------------
\* The routes of a request that enters one more composite.
LEMMA RoutesOfEntered ==
  ASSUME RequestTypes, NEW g \in Frame, NEW t, t = Append(entered, g), NEW n, n = Len(entered)
  PROVE  /\ n \in Nat /\ Routes(entered, n) \subseteq 1..n /\ IsFiniteSet(Routes(entered, n))
         /\ Cardinality(Routes(entered, n)) \in Nat
         /\ g.handles /\ RouteOf[g.of] # None =>
              Cardinality(Routes(t, n + 1)) = Cardinality(Routes(entered, n)) + 1
         /\ ~(g.handles /\ RouteOf[g.of] # None) => Routes(t, n + 1) = Routes(entered, n)
<1>1. entered \in Seq(Frame)
  BY DEF RequestTypes
<1>2. n \in Nat
  BY <1>1, LenProperties
<1>3. t[n + 1] = g /\ \A k \in 1..n : t[k] = entered[k]
  BY <1>1, AppendProperties
<1> DEFINE R == Routes(entered, n)
           Q == Routes(t, n + 1)
<1>4. R \subseteq 1..n
  BY DEF Routes
<1>5. IsFiniteSet(R) /\ Cardinality(R) \in Nat
  <2>1. IsFiniteSet(1..n)
    BY <1>2, FS_Interval
  <2>2. IsFiniteSet(R)
    BY <2>1, <1>4, FS_Subset
  <2> QED
    BY <2>2, FS_CardinalityType
<1>6. \A k \in 1..(n + 1) : k \in 1..n \/ k = n + 1
  BY <1>2
<1>7. \A k \in 1..n : k \in 1..(n + 1)
  BY <1>2
<1>8. n + 1 \in 1..(n + 1) /\ n + 1 \notin 1..n
  BY <1>2
<1>9. ASSUME g.handles, RouteOf[g.of] # None PROVE Q = R \union {n + 1}
  BY <1>3, <1>6, <1>7, <1>8, <1>9 DEF Routes
<1>10. ASSUME ~(g.handles /\ RouteOf[g.of] # None) PROVE Q = R
  BY <1>3, <1>6, <1>7, <1>10 DEF Routes
<1>11. n + 1 \notin R
  BY <1>4, <1>8
<1> HIDE DEF R, Q
<1>12. Cardinality(R \union {n + 1}) = Cardinality(R) + 1
  BY <1>5, <1>11, FS_AddElement
<1> QED
  BY <1>2, <1>4, <1>5, <1>9, <1>10, <1>12 DEF R, Q

\* What a request that tries its next member knows of it.
LEMMA TriesKnown ==
  ASSUME RequestInv, Tries
  PROVE  /\ entered # <<>> /\ called = None /\ reply = None /\ ~Pending
         /\ Innermost \in Frame /\ Innermost.index <= Len(members[Innermost.of])
         /\ Member \in Composites \union Middleware
<1>1. entered # <<>> /\ called = None /\ reply = None /\ HasMore
  BY DEF Tries, Between
<1>2. Innermost \in Frame /\ Innermost.index <= Len(members[Innermost.of]) /\ Innermost.index \in DOMAIN members[Innermost.of]
  BY <1>1, InnermostKnown
<1>3. Member \in Composites \union Middleware
  <2>1. members \in [Composites -> Stack] /\ Innermost.of \in Composites
    BY <1>2, FrameFields DEF RequestInv, RequestTypes
  <2> QED
    BY <2>1, <1>2, StackOf DEF Member
<1> QED
  BY <1>1, <1>2, <1>3 DEF Pending

\* A composite that is asked to handle the request is entered, unless it is a
\* route that does not match.
LEMMA EnterKeeps ==
  ASSUME RequestInv, EnterHandle
  PROVE  RequestInv'
<1>1. Tries /\ Member \in Composites /\ ~Innermost.failed
  BY DEF EnterHandle
<1>2. /\ entered # <<>> /\ called = None /\ reply = None /\ ~Pending
      /\ Innermost \in Frame /\ Innermost.index <= Len(members[Innermost.of])
  BY <1>1, TriesKnown
<1>3. CASE ~Matches(Member)
  <2>1. /\ reply' = Unhandled /\ UNCHANGED <<entered, path, members, called, outcome>> /\ UNCHANGED histories
    BY <1>3 DEF EnterHandle
  <2>2. Between
    BY <1>1 DEF Tries
  <2> QED
    BY <2>1, <2>2, <1>2, PassKeeps
<1>4. CASE Matches(Member)
  <2>1. PICK c \in Composites : c = Member
    BY <1>1
  <2>2. PICK g : g = Entered(c, TRUE, Unhandled, path)
    OBVIOUS
  <2>3. PICK t : t = entered'
    OBVIOUS
  <2>4. /\ t = Append(entered, g) /\ path' = (IF RouteOf[c] = None THEN path ELSE Tail(path))
        /\ UNCHANGED <<members, called, reply, outcome>> /\ UNCHANGED histories
    BY <2>1, <2>2, <2>3, <1>4 DEF EnterHandle
  <2>5. RequestTypes /\ members \in [Composites -> Stack] /\ path \in Seq(Segments) /\ began \in Seq(Segments)
    BY DEF RequestInv, RequestTypes
  <2>6. /\ g \in Frame /\ g.of = c /\ g.handles = TRUE /\ g.index = 1 /\ g.limit = Len(members[c])
        /\ g.error = Unhandled /\ g.failed = FALSE /\ g.path = path
    <3>1. PICK e \in Error \union {Unhandled} : e = Unhandled
      OBVIOUS
    <3>2. g = Entered(c, TRUE, e, path)
      BY <3>1, <2>2
    <3>3. /\ g \in Frame /\ g.of = c /\ g.handles = TRUE /\ g.index = 1 /\ g.limit = Len(members[c])
          /\ g.error = e /\ g.failed = ~TRUE /\ g.path = path
      BY <3>2, <2>5, EnteredFrame
    <3> QED
      BY <3>1, <3>3
  <2>7. PICK n : n = Len(entered)
    OBVIOUS
  <2>8. PICK m \in Nat : m = Cardinality(Routes(entered, n))
    BY <2>4, <2>5, <2>6, <2>7, RoutesOfEntered
  <2>9. PICK b \in Nat : b = Len(began)
    BY <2>5, LenProperties
  <2>10. m <= b /\ path = SubSeq(began, m + 1, b)
    BY <2>7, <2>8, <2>9 DEF RequestInv, PathsKept, LeftAfter
  <2>11. path' \in Seq(Segments) /\ LeftAfter(Routes(t, n + 1), path')
    <3>1. CASE RouteOf[c] = None
      <4>1. Routes(t, n + 1) = Routes(entered, n)
        BY <3>1, <2>4, <2>5, <2>6, <2>7, RoutesOfEntered
      <4> QED
        BY <4>1, <3>1, <2>4, <2>5, <2>8, <2>9, <2>10 DEF LeftAfter
    <3>2. CASE RouteOf[c] # None
      <4>1. Cardinality(Routes(t, n + 1)) = m + 1
        BY <3>2, <2>4, <2>5, <2>6, <2>7, <2>8, RoutesOfEntered
      <4>2. path # <<>>
        BY <3>2, <2>1, <1>4 DEF Matches
      <4>3. m < b
        <5>1. CASE m = b
          <6>1. SubSeq(began, m + 1, b) = <<>>
            BY <5>1, SubSeqEmpty
          <6> QED
            BY <6>1, <4>2, <2>10
        <5> QED
          BY <5>1, <2>10
      <4>4. m + 1 \in 1..b /\ b \in (m + 1)..b /\ m + 1 <= b
        BY <4>3
      <4>5. Tail(path) = SubSeq(began, m + 1 + 1, b)
        BY <4>4, <2>5, <2>9, <2>10, HeadTailOfSubSeq
      <4>6. Tail(path) \in Seq(Segments)
        BY <4>2, <2>5, HeadTailProperties
      <4> QED
        BY <4>1, <4>4, <4>5, <4>6, <3>2, <2>4, <2>9 DEF LeftAfter
    <3> QED
      BY <3>1, <3>2
  <2>12. Pushes(g)
    <3>1. /\ members' = members /\ called' = called /\ reply' = reply /\ outcome' = outcome /\ sync' = sync
          /\ began' = began /\ asked' = asked /\ gave' = gave /\ failure' = failure /\ broken' = broken
          /\ shifted' = shifted /\ dropped' = dropped
      BY <2>4 DEF histories
    <3>2. Innermost.failed = FALSE
      BY <1>1, <1>2, FrameFields
    <3>3. g.failed = ~g.handles
      BY <2>6
    <3> QED
      BY <3>1, <3>2, <3>3, <2>1, <2>3, <2>4, <2>6, <2>7, <2>11, <1>1, <1>2 DEF Pushes
  <2> QED
    BY <2>12, PushKeeps
<1> QED
  BY <1>3, <1>4

\* A composite that is asked to handle an error is entered, whatever the path.
LEMMA EnterErrorKeeps ==
  ASSUME RequestInv, EnterHandleError
  PROVE  RequestInv'
<1>1. Tries /\ Member \in Composites /\ Innermost.failed
  BY DEF EnterHandleError
<1>2. /\ entered # <<>> /\ called = None /\ reply = None /\ ~Pending
      /\ Innermost \in Frame /\ Innermost.index <= Len(members[Innermost.of])
  BY <1>1, TriesKnown
<1>3. PICK c \in Composites : c = Member
  BY <1>1
<1>4. PICK e \in Error \union {Unhandled} : e = Innermost.error
  BY <1>2, FrameFields
<1>5. PICK g : g = Entered(c, FALSE, e, path)
  OBVIOUS
<1>6. PICK t : t = entered'
  OBVIOUS
<1>7. /\ t = Append(entered, g) /\ path' = path
      /\ members' = members /\ called' = called /\ reply' = reply /\ outcome' = outcome /\ sync' = sync
      /\ began' = began /\ asked' = asked /\ gave' = gave /\ failure' = failure /\ broken' = broken
      /\ shifted' = shifted /\ dropped' = dropped
  BY <1>3, <1>4, <1>5, <1>6 DEF EnterHandleError, histories
<1>8. RequestTypes /\ members \in [Composites -> Stack] /\ path \in Seq(Segments)
  BY DEF RequestInv, RequestTypes
<1>9. /\ g \in Frame /\ g.of = c /\ g.handles = FALSE /\ g.index = 1 /\ g.limit = Len(members[c])
      /\ g.error = e /\ g.failed = ~FALSE /\ g.path = path
  BY <1>5, <1>8, EnteredFrame
<1>10. PICK n : n = Len(entered)
  OBVIOUS
<1>11. Routes(t, n + 1) = Routes(entered, n)
  BY <1>7, <1>8, <1>9, <1>10, RoutesOfEntered
<1>12. LeftAfter(Routes(t, n + 1), path')
  BY <1>7, <1>10, <1>11 DEF RequestInv, PathsKept
<1>13. Pushes(g)
  BY <1>1, <1>2, <1>3, <1>4, <1>6, <1>7, <1>8, <1>9, <1>10, <1>12 DEF Pushes
<1> QED
  BY <1>13, PushKeeps

-----------------------------------------------------------------------------
\* A request starts in the outermost composite, with its whole path.
LEMMA RequestInvInit == MiddlewaresInit => RequestInv
<1> SUFFICES ASSUME MiddlewaresInit PROVE RequestInv
  OBVIOUS
<1>1. PICK g : g = Entered(Root, TRUE, Unhandled, path)
  OBVIOUS
<1>2. /\ sync \in BOOLEAN /\ members = Members /\ path \in Paths /\ began = path
      /\ entered = <<g>> /\ called = None /\ reply = None /\ outcome = None
      /\ asked = <<>> /\ gave = None /\ failure = None
      /\ broken = FALSE /\ dropped = FALSE /\ shifted = FALSE
  BY <1>1 DEF MiddlewaresInit
<1>3. members \in [Composites -> Stack] /\ path \in Seq(Segments) /\ Root \in Composites /\ RouteOf[Root] = None
  BY <1>2, MiddlewaresAssumption, MembersAreATree
<1>4. /\ g \in Frame /\ g.of = Root /\ g.handles = TRUE /\ g.index = 1 /\ g.limit = Len(members[Root])
      /\ g.error = Unhandled /\ g.failed = FALSE /\ g.path = path
  <2>1. PICK e \in Error \union {Unhandled} : e = Unhandled
    OBVIOUS
  <2>2. PICK c \in Composites : c = Root
    BY <1>3
  <2>3. g = Entered(c, TRUE, e, path)
    BY <2>1, <2>2, <1>1
  <2>4. members \in [Composites -> Stack] /\ path \in Seq(Segments)
    BY <1>3
  <2>5. /\ g \in Frame /\ g.of = c /\ g.handles = TRUE /\ g.index = 1 /\ g.limit = Len(members[c])
        /\ g.error = e /\ g.failed = ~TRUE /\ g.path = path
    BY <2>3, <2>4, EnteredFrame
  <2> QED
    BY <2>1, <2>2, <2>5
<1>5. entered \in Seq(Frame) /\ Len(entered) = 1 /\ entered[1] = g /\ entered # <<>>
  BY <1>2, <1>4
<1>6. \A k \in 1..1 : k = 1
  OBVIOUS
<1>7. None \notin Error
  BY AnswerKinds
<1>8. ~Pending
  BY <1>2 DEF Pending
<1>types. RequestTypes
  <2>1. asked \in Seq(Middleware)
    BY <1>2, EmptySeq
  <2> QED
    BY <2>1, <1>2, <1>3, <1>5 DEF RequestTypes
<1>one. OneAtATime
  BY <1>2, <1>5, <1>8 DEF OneAtATime
<1>frames. FramesProgress
  <2>1. Len(members[Root]) \in Nat
    BY <1>3, StackOf
  <2>2. 1 <= Len(members[Root]) + 1 /\ Len(members[Root]) <= Len(members[Root])
    BY <2>1
  <2>3. ~ 1 < 1 /\ \A j \in 1..(1 - 1) : FALSE
    OBVIOUS
  <2> QED
    BY <2>2, <2>3, <1>4, <1>5, <1>6, <1>8 DEF FramesProgress
<1>errors. ErrorsKnown
  BY <1>2, <1>4, <1>5, <1>6, <1>7 DEF ErrorsKnown
<1>latest. LatestKept
  BY <1>2, <1>7 DEF LatestKept
<1>results. ResultsKnown
  BY <1>2 DEF ResultsKnown
<1>paths. PathsKept
  <2>1. Routes(entered, 1) = {} /\ Routes(entered, 1 - 1) = {}
    BY <1>3, <1>4, <1>5, <1>6 DEF Routes
  <2>2. PICK b \in Nat : b = Len(began)
    BY <1>2, <1>3, LenProperties
  <2>3. Cardinality({}) = 0
    BY FS_EmptySet
  <2>4. SubSeq(began, 1, b) = began
    BY <2>2, <1>2, <1>3, SubSeqFull
  <2>5. LeftAfter({}, path)
    BY <2>2, <2>3, <2>4, <1>2 DEF LeftAfter
  <2> QED
    BY <2>1, <2>5, <1>4, <1>5, <1>6 DEF PathsKept
<1>tree. Tree
  <2>1. Apart(members)
    BY <1>2, MembersAreATree DEF Apart
  <2>2. Chained
    BY <1>4, <1>5, <1>6 DEF Chained
  <2>3. IsInjective(asked) /\ ToSet(asked) = {}
    BY <1>2 DEF IsInjective, ToSet
  <2>4. LeftBehind({})
    BY <2>3 DEF LeftBehind
  <2> QED
    BY <2>1, <2>2, <2>3, <2>4 DEF Tree
<1> QED
  BY <1>types, <1>one, <1>frames, <1>errors, <1>latest, <1>results, <1>paths, <1>tree DEF RequestInv

\* Every step of a request keeps what is known of it.
LEMMA RequestInvNext == RequestInv /\ [MiddlewaresNext]_middlewaresVars => RequestInv'
<1> SUFFICES ASSUME RequestInv, [MiddlewaresNext]_middlewaresVars PROVE RequestInv'
  OBVIOUS
<1>1. CASE Skip
  BY <1>1, SkipKeeps
<1>2. CASE CallMember
  <2>1. Tries /\ Member \notin Composites
    BY <1>2 DEF CallMember
  <2>2. Member \in Middleware /\ Innermost.index <= Len(members[Innermost.of])
    BY <2>1, TriesKnown
  <2> QED
    BY <2>2, <1>2, CallKeeps
<1>3. CASE EnterHandle
  BY <1>3, EnterKeeps
<1>4. CASE EnterHandleError
  BY <1>4, EnterErrorKeeps
<1>5. CASE LastMemberTried
  BY <1>5, LastMemberKeeps
<1>6. CASE \E a \in {Unhandled, Failure(called), Refusal(called), Break, Result(called)} : Answers(a)
  BY <1>6, AnswerKeeps
<1>7. CASE AfterStandard
  BY <1>7, StandardKeeps
<1>8. CASE AfterError
  BY <1>8, ErrorKeeps
<1>9. CASE AfterHandleError
  BY <1>9, HandleErrorKeeps
<1>10. CASE \E c \in Composites, l \in Spares, p \in Priorities : UseMiddleware(c, l, p)
  BY <1>10, UseKeeps
<1>11. CASE UNCHANGED middlewaresVars
  <2>1. /\ sync' = sync /\ members' = members /\ path' = path /\ entered' = entered /\ called' = called
        /\ reply' = reply /\ outcome' = outcome /\ began' = began /\ asked' = asked /\ gave' = gave
        /\ failure' = failure /\ broken' = broken /\ dropped' = dropped /\ shifted' = shifted
    BY <1>11 DEF middlewaresVars
  <2>2. Innermost' = Innermost /\ Pending' = Pending
    BY <2>1 DEF Innermost, Pending
  <2>3. RequestTypes' /\ OneAtATime' /\ FramesProgress'
    BY <2>1, <2>2 DEF RequestInv, RequestTypes, OneAtATime, FramesProgress
  <2>4. ErrorsKnown' /\ LatestKept' /\ ResultsKnown' /\ PathsKept'
    BY <2>1 DEF RequestInv, ErrorsKnown, LatestKept, ResultsKnown, PathsKept, LeftAfter, Routes
  <2>5. Tree'
    <3>1. Apart(members)' /\ (~shifted => Chained' /\ IsInjective(asked)')
      BY <2>1 DEF RequestInv, Tree, Apart, Chained
    <3>2. ASSUME ~shifted PROVE \E S \in SUBSET Composites : LeftBehind(S)'
      <4>1. PICK S \in SUBSET Composites : LeftBehind(S)
        BY <3>2 DEF RequestInv, Tree
      <4>2. \A n : Past(n, S) => Past(n, S)'
        BY <2>1, <2>2 DEF Past, Passed
      <4>3. LeftBehind(S)'
        BY <4>1, <4>2, <2>1 DEF LeftBehind
      <4> QED
        BY <4>3
    <3> QED
      BY <3>1, <3>2, <2>1 DEF Tree, LeftBehind, Past, Passed, Pending
  <2> QED
    BY <2>3, <2>4, <2>5 DEF RequestInv
<1> QED
  BY <1>1, <1>2, <1>3, <1>4, <1>5, <1>6, <1>7, <1>8, <1>9, <1>10, <1>11 DEF MiddlewaresNext

\* What is known of a request is what it is promised.
LEMMA RequestInvPromises == RequestInv => RequestsAreAnswered
<1> SUFFICES ASSUME RequestInv PROVE RequestsAreAnswered
  OBVIOUS
<1>1. /\ RequestTypes /\ OneAtATime /\ FramesProgress /\ ErrorsKnown /\ LatestKept
      /\ ResultsKnown /\ PathsKept /\ Tree
  BY DEF RequestInv
<1>2. Middleware = Handlers \union ErrorHandlers /\ Handlers \intersect ErrorHandlers = {}
  BY MiddlewaresAssumption DEF Middleware
<1>3. None \notin Answer /\ None \notin Middleware /\ None \notin Error
  BY AnswerKinds
<1>types. MiddlewaresTypeOK
  <2>1. {sync, broken, dropped, shifted} \subseteq BOOLEAN /\ called \in Handlers \union ErrorHandlers \union {None}
    BY <1>1, <1>2 DEF RequestTypes
  <2>2. ToSet(asked) \subseteq Handlers \union ErrorHandlers
    BY <1>1, <1>2, ElementsOf DEF RequestTypes
  <2>3. ASSUME NEW f \in ToSet(entered) PROVE f.of \in Composites /\ f.index \in 1..Len(members[f.of]) + 1
    <3>1. PICK k \in 1..Len(entered) : f = entered[k]
      BY <1>1, ElementsOf DEF RequestTypes
    <3>2. f \in Frame
      BY <3>1, <1>1, LenProperties DEF RequestTypes
    <3>3. f.of \in Composites /\ f.index \in Nat /\ f.index # 0 /\ Len(members[f.of]) \in Nat
      BY <3>2, <1>1, FrameFields, StackOf DEF RequestTypes
    <3>4. f.index <= Len(members[f.of]) + 1
      BY <3>1, <1>1 DEF FramesProgress
    <3> QED
      BY <3>3, <3>4
  <2> QED
    BY <2>1, <2>2, <2>3 DEF MiddlewaresTypeOK
<1>results. ResultIsTheOutcome
  BY <1>1 DEF ResultsKnown, ResultIsTheOutcome
<1>errors. ErrorsAreKept
  <2>1. ASSUME called # None
        PROVE  entered # <<>> /\ outcome = None /\ reply = None
    BY <2>1, <1>1 DEF OneAtATime, Pending
  <2>2. ASSUME called \in Handlers, ~broken, ~dropped, failure # None
        PROVE  failure.is = "refusal"
    <3>1. called # None /\ called \notin ErrorHandlers
      BY <2>2, <1>2, <1>3
    <3>2. gave = None
      BY <2>2, <3>1, <1>1 DEF ResultsKnown
    <3>3. PICK k \in 1..Len(entered) : entered[k].error = failure
      BY <2>1, <2>2, <3>1, <3>2, <1>1, <1>3 DEF LatestKept
    <3>4. failure # Unhandled
      BY <2>2, <1>1, AnswerKinds DEF RequestTypes
    <3>5. PICK K : K = Len(entered)
      OBVIOUS
    <3>6. K \in Nat /\ K >= 1 /\ Innermost = entered[K] /\ Innermost \in Frame
      BY <2>1, <3>1, <3>5, <1>1, Inside DEF RequestTypes
    <3>7. ~Innermost.failed
      BY <3>1, <1>1 DEF OneAtATime
    <3>8. K \in 1..K /\ (k # K => k \in 1..(K - 1))
      BY <3>5, <3>6
    <3>9. ~entered[k].failed
      BY <3>5, <3>6, <3>7, <3>8, <1>1, FrameFields DEF FramesProgress
    <3> QED
      BY <3>3, <3>4, <3>9, <1>1 DEF ErrorsKnown
  <2>3. ASSUME called \in ErrorHandlers
        PROVE  failure # None
    <3>1. called # None /\ called \notin Handlers
      BY <2>3, <1>2, <1>3
    <3>2. Innermost.failed
      BY <3>1, <1>1 DEF OneAtATime
    <3> QED
      BY <2>1, <3>1, <3>2, InnermostKnown
  <2> QED
    BY <2>2, <2>3, <1>1 DEF LatestKept, ErrorsAreKept
<1>once. CalledOnce
  BY <1>1 DEF Tree, CalledOnce
<1>paths. PathIsRestored
  <2>1. DOMAIN entered = 1..Len(entered)
    BY <1>1, LenProperties DEF RequestTypes
  <2>2. {k \in DOMAIN entered : entered[k].handles /\ RouteOf[entered[k].of] # None} = Routes(entered, Len(entered))
    BY <2>1 DEF Routes
  <2> QED
    BY <2>2, <1>1 DEF PathsKept, LeftAfter, PathIsRestored
<1> QED
  BY <1>types, <1>results, <1>errors, <1>once, <1>paths DEF RequestsAreAnswered

\* Every request gets the result a middleware gave, unless a composite drops it,
\* or else the last error returned; an error middleware is called after an error
\* only and no standard one after an Error; no middleware is called twice unless
\* one was added before it; and the path is what the routes leave of it.
THEOREM RequestsGetTheirAnswer == MiddlewaresSpec => []RequestsAreAnswered
<1>1. MiddlewaresSpec => []RequestInv
  BY RequestInvInit, RequestInvNext, PTL DEF MiddlewaresSpec
<1> QED
  BY <1>1, RequestInvPromises, PTL

------------------------------------------------------------------------------
\* Fields

\* The bit that a number of less than a byte has at a place: two bits are swapped
\* on the last bit of a byte.
Placed(m, i) == IF m.field.width = 2 /\ subByteOffset(m.pos) = 7 THEN 1 - i ELSE i

\* The bytes that hold a field are those of its value.
Stands(bits, m) ==
  /\ m.field.kind \in DOMAIN Narrow =>
       \A i \in 0..(m.field.width - 1) : m.pos + i \in bits <=> Placed(m, i) \in m.value
  /\ m.field.kind \in DOMAIN Wide =>
       LET order == Wide[m.field.kind].writes[Aligned(m.pos)] IN
       \A j \in DOMAIN order : \A r \in 0..7 : m.pos + 8 * (j - 1) + r \in bits <=> 8 * order[j] + r \in m.value
  /\ m.field.kind = "prefixed" =>
       \A r \in 0..7 : (m.pos + r \in bits <=> r = 0) /\ (m.pos + 8 + r \in bits <=> r \in m.value)

\* A field that the reader can read as it was written, unless it is Lost.
Kept(m) == ~Misaligns(m) /\ m.field.kind \notin Cut

FieldType == [kind : FieldKinds, width : 0..8]
WrittenField == [field : FieldType, value : SUBSET (0..63), pos : Nat]
Buffer == [bits : SUBSET Nat, pos : Nat]

\* Where the writer was after so many fields.
After(k) == IF k < Len(message) THEN message[k + 1].pos ELSE out.pos

Fitted(m) == Takes(m.field, m.value) /\ (m.field.kind \in Buffers => Aligned(m.pos))

FieldsTypes ==
  /\ message \in Seq(WrittenField) /\ \A k \in DOMAIN message : Fitted(message[k])
  /\ out \in Buffer /\ out.bits \subseteq 0..(out.pos + 7)
  /\ whole \in BOOLEAN /\ thrown \in BOOLEAN /\ base \in {0, 8} /\ cursor \in Nat
  /\ heard \in Seq(SUBSET (0..63)) /\ Len(heard) <= Len(message)
  /\ ~whole => heard = <<>> /\ ~thrown /\ cursor = 0

\* The writer goes from one field to the next, and the reader behind it.
WriterSteps ==
  /\ After(0) = 0
  /\ \A k \in DOMAIN message :
       /\ message[k].pos <= out.pos
       /\ ~Misaligns(message[k]) => After(k) = message[k].pos + Advance(message[k].field)
ReaderFollows ==
  (\A k \in 1..Len(heard) : ~Misaligns(message[k])) => cursor = After(Len(heard))

\* What was written of fields that can be read stands in the buffer, and nothing is
\* in the way of the next.
FieldsStand ==
  (\A k \in DOMAIN message : Kept(message[k])) =>
    /\ out.bits \subseteq 0..(out.pos - 1)
    /\ \A k \in DOMAIN message : Stands(out.bits, message[k])

FieldsInv == FieldsTypes /\ WriterSteps /\ ReaderFollows /\ FieldsStand /\ ReadsBack

------------------------------------------------------------------------------
\* A cursor is so many bits in a byte.
LEMMA CursorInByte ==
  ASSUME NEW pos \in Nat
  PROVE  /\ floorOffset(pos) \in Nat /\ subByteOffset(pos) \in 0..7
         /\ pos = 8 * floorOffset(pos) + subByteOffset(pos)
BY DEF floorOffset, subByteOffset

LEMMA InUp ==
  ASSUME NEW v \in SUBSET Nat, NEW n \in Nat, NEW k \in Nat, NEW i \in Int
  PROVE  i \in Up(Low(v, n), k) <=> i \in k..(k + n - 1) /\ i - k \in v
BY DEF Up, Low

LEMMA InDown ==
  ASSUME NEW v \in SUBSET Nat, NEW k \in Nat
  PROVE  Down(v, k) \in SUBSET Nat /\ \A i \in Nat : i \in Down(v, k) <=> i + k \in v
BY DEF Down

\* Bits that are added, or put, are those of the value; those before them stay.
LEMMA OrBitsIs ==
  ASSUME NEW b \in Buffer, NEW n \in Nat, NEW v \in SUBSET Nat
  PROVE  /\ OrBits(b, n, v) \in Buffer /\ OrBits(b, n, v).pos = b.pos + n
         /\ \A i \in Nat : i \in OrBits(b, n, v).bits <=> i \in b.bits \/ (i \in b.pos..(b.pos + n - 1) /\ i - b.pos \in v)
<1> DEFINE w == OrBits(b, n, v)
<1>1. w = [bits |-> b.bits \union Up(Low(v, n), b.pos), pos |-> b.pos + n]
  BY DEF OrBits
<1>2. Up(Low(v, n), b.pos) \subseteq Nat
  BY DEF Up, Low, Buffer
<1>3. w \in Buffer /\ w.pos = b.pos + n
  BY <1>1, <1>2 DEF Buffer
<1>4. ASSUME NEW i \in Nat
      PROVE  i \in w.bits <=> i \in b.bits \/ (i \in b.pos..(b.pos + n - 1) /\ i - b.pos \in v)
  <2>1. b.pos \in Nat
    BY DEF Buffer
  <2> QED
    BY <1>1, <2>1, InUp
<1> QED
  BY <1>3, <1>4

LEMMA PutBitsIs ==
  ASSUME NEW b \in Buffer, NEW n \in Nat, NEW v \in SUBSET Nat
  PROVE  /\ PutBits(b, n, v) \in Buffer /\ PutBits(b, n, v).pos = b.pos + n
         /\ \A i \in Nat : i \in PutBits(b, n, v).bits <=>
              IF i \in b.pos..(b.pos + n - 1) THEN i - b.pos \in v ELSE i \in b.bits
<1> DEFINE w == PutBits(b, n, v)
<1>1. w = [bits |-> {i \in b.bits : i \notin b.pos..(b.pos + n - 1)} \union Up(Low(v, n), b.pos), pos |-> b.pos + n]
  BY DEF PutBits
<1>2. Up(Low(v, n), b.pos) \subseteq Nat
  BY DEF Up, Low, Buffer
<1>3. w \in Buffer /\ w.pos = b.pos + n
  BY <1>1, <1>2 DEF Buffer
<1>4. ASSUME NEW i \in Nat
      PROVE  i \in w.bits <=> IF i \in b.pos..(b.pos + n - 1) THEN i - b.pos \in v ELSE i \in b.bits
  <2>1. b.pos \in Nat
    BY DEF Buffer
  <2> QED
    BY <1>1, <2>1, InUp
<1> QED
  BY <1>3, <1>4

LEMMA NarrowParts ==
  ASSUME NEW kind \in {"uint", "int"}, NEW n \in 1..8
  PROVE  /\ \A off \in 0..7 : off # 7 \/ n \notin {2, 4} => Narrow[kind][n].writes[off] = Split(n)[off]
         /\ Narrow[kind][n].reads = Split(n)
         /\ n = 2 => Narrow[kind][n].writes[7] = <<<<1, 1>>, <<1, 0>>>>
         /\ n = 4 => Narrow[kind][n].writes[7] = <<<<1, 0>>, <<2, 1>>>>
<1>1. Narrow[kind] \in {<<Bit, Uint2, Uint3, Uint4, Uint5, Uint6, Uint7, Uint8>>,
                        <<Bit, Int2, Int3, Int4, Int5, Int6, Int7, Int8>>}
  BY DEF Narrow
<1>2. Split(n) = [off \in 0..7 |-> Split(n)[off]]
  BY DEF Split
<1>3. CASE n \notin {2, 4}
  <2>1. Narrow[kind][n] = Masks(n, Split(n))
    BY <1>1, <1>3 DEF Bit, Uint3, Uint5, Uint6, Uint7, Uint8, Int3, Int5, Int6, Int7, Int8
  <2> QED
    BY <2>1, <1>3 DEF Masks
<1>4. CASE n = 2
  <2>1. Narrow[kind][n] = Masks(2, [Split(2) EXCEPT ![7] = <<<<1, 1>>, <<1, 0>>>>])
    BY <1>1, <1>4 DEF Uint2, Int2
  <2>2. Narrow[kind][n].writes = [Split(2) EXCEPT ![7] = <<<<1, 1>>, <<1, 0>>>>] /\ Narrow[kind][n].reads = Split(2)
    BY <2>1 DEF Masks
  <2> QED
    BY <2>2, <1>4, <1>2
<1>5. CASE n = 4
  <2>1. Narrow[kind][n] = Masks(4, [Split(4) EXCEPT ![7] = <<<<1, 0>>, <<2, 1>>>>])
    BY <1>1, <1>5 DEF Uint4, Int4
  <2>2. Narrow[kind][n].writes = [Split(4) EXCEPT ![7] = <<<<1, 0>>, <<2, 1>>>>] /\ Narrow[kind][n].reads = Split(4)
    BY <2>1 DEF Masks
  <2> QED
    BY <2>2, <1>5, <1>2
<1> QED
  BY <1>3, <1>4, <1>5

LEMMA OrPartIs ==
  ASSUME NEW b \in Buffer, NEW n \in Nat, NEW s \in Nat, NEW v \in SUBSET Nat
  PROVE  /\ OrPart(b, <<n, s>>, v) \in Buffer /\ OrPart(b, <<n, s>>, v).pos = b.pos + n
         /\ \A i \in Nat : i \in OrPart(b, <<n, s>>, v).bits <=>
              i \in b.bits \/ (i \in b.pos..(b.pos + n - 1) /\ i - b.pos + s \in v)
<1> DEFINE d == Down(v, s)
<1>1. OrPart(b, <<n, s>>, v) = OrBits(b, n, d)
  BY DEF OrPart
<1>2. d \in SUBSET Nat /\ \A i \in Nat : i \in d <=> i + s \in v
  BY InDown
<1>3. b.pos \in Nat
  BY DEF Buffer
<1> HIDE DEF d
<1>4. /\ OrBits(b, n, d) \in Buffer /\ OrBits(b, n, d).pos = b.pos + n
      /\ \A i \in Nat : i \in OrBits(b, n, d).bits <=> i \in b.bits \/ (i \in b.pos..(b.pos + n - 1) /\ i - b.pos \in d)
  BY <1>2, OrBitsIs
<1>5. \A i \in Nat : i \in b.pos..(b.pos + n - 1) => (i - b.pos \in d <=> i - b.pos + s \in v)
  BY <1>2, <1>3
<1> QED
  BY <1>1, <1>4, <1>5

\* What a write of so many bits leaves in the buffer w.
NarrowGoes(b, n, v, w) ==
  /\ w \in Buffer /\ w.pos \in b.pos..(b.pos + 8)
  /\ (n = 4 /\ subByteOffset(b.pos) = 7) \/ w.pos = b.pos + n
  /\ \A i \in Nat : i < b.pos \/ i >= w.pos => (i \in w.bits <=> i \in b.bits)
  /\ subByteOffset(b.pos) # 7 \/ n \notin {2, 4} =>
       \A i \in Nat : i \in w.bits <=> i \in b.bits \/ (i \in b.pos..(b.pos + n - 1) /\ i - b.pos \in v)
  /\ subByteOffset(b.pos) = 7 /\ n = 2 =>
       \A i \in Nat : i \in w.bits <=> i \in b.bits \/ (i \in b.pos..(b.pos + 1) /\ 1 - (i - b.pos) \in v)

\* A number of less than a byte, or one, is added bit by bit, in one part or in two:
\* where its bits go, and where the cursor does.
LEMMA NarrowWritten ==
  ASSUME NEW b \in Buffer, NEW kind \in DOMAIN Narrow, NEW n \in 1..8, NEW v \in SUBSET Nat
  PROVE  NarrowGoes(b, n, v, WriteParts(b, Narrow[kind][n], v))
<1> DEFINE w == WriteParts(b, Narrow[kind][n], v)
           off == subByteOffset(b.pos)
           parts == Narrow[kind][n].writes[off]
<1>1. b.pos \in Nat /\ off \in 0..7 /\ kind \in {"uint", "int"}
  BY CursorInByte DEF Buffer, Narrow
<1>2. w = IF Len(parts) = 1 THEN OrPart(b, parts[1], v) ELSE OrPart(OrPart(b, parts[1], v), parts[2], v)
  BY DEF WriteParts
<1> SUFFICES NarrowGoes(b, n, v, w)
  OBVIOUS
<1> HIDE DEF w, off, parts
<1>3. CASE off # 7 \/ n \notin {2, 4}
  <2>1. parts = IF off + n <= 8 THEN <<<<n, 0>>>> ELSE <<<<8 - off, 0>>, <<n - 8 + off, 8 - off>>>>
    <3>1. parts = Split(n)[off]
      BY <1>1, <1>3, NarrowParts DEF parts
    <3> QED
      BY <3>1, <1>1 DEF Split
  <2>2. CASE off + n <= 8
    <3>1. w = OrPart(b, <<n, 0>>, v)
      BY <1>2, <2>1, <2>2
    <3>2. /\ w \in Buffer /\ w.pos = b.pos + n
          /\ \A i \in Nat : i \in w.bits <=> i \in b.bits \/ (i \in b.pos..(b.pos + n - 1) /\ i - b.pos + 0 \in v)
      BY <3>1, OrPartIs
    <3> QED
      BY <3>2, <1>1, <1>3 DEF off, NarrowGoes
  <2>3. CASE ~(off + n <= 8)
    <3> DEFINE c == OrPart(b, <<8 - off, 0>>, v)
    <3>1. w = OrPart(c, <<n - 8 + off, 8 - off>>, v)
      BY <1>2, <2>1, <2>3
    <3>2. 8 - off \in Nat /\ n - 8 + off \in Nat
      BY <1>1, <2>3
    <3>3. /\ c \in Buffer /\ c.pos = b.pos + (8 - off)
          /\ \A i \in Nat : i \in c.bits <=> i \in b.bits \/ (i \in b.pos..(b.pos + (8 - off) - 1) /\ i - b.pos + 0 \in v)
      BY <3>2, OrPartIs
    <3> HIDE DEF c
    <3>4. /\ w \in Buffer /\ w.pos = c.pos + (n - 8 + off)
          /\ \A i \in Nat : i \in w.bits <=> i \in c.bits \/ (i \in c.pos..(c.pos + (n - 8 + off) - 1) /\ i - c.pos + (8 - off) \in v)
      BY <3>1, <3>2, <3>3, OrPartIs
    <3>5. \A i \in Nat : i \in w.bits <=> i \in b.bits \/ (i \in b.pos..(b.pos + n - 1) /\ i - b.pos \in v)
      <4> TAKE i \in Nat
      <4>1. i - c.pos + (8 - off) = i - b.pos
        BY <3>3, <1>1
      <4>2. i \in b.pos..(b.pos + n - 1) <=> i \in b.pos..(b.pos + (8 - off) - 1) \/ i \in c.pos..(c.pos + (n - 8 + off) - 1)
        BY <3>3, <1>1, <2>3
      <4>3. i - b.pos + 0 = i - b.pos
        BY <1>1
      <4> QED
        BY <4>1, <4>2, <4>3, <3>3, <3>4
    <3>6. w.pos = b.pos + n
      BY <3>3, <3>4, <1>1
    <3> QED
      BY <3>4, <3>5, <3>6, <1>1, <1>3 DEF off, NarrowGoes
  <2> QED
    BY <2>2, <2>3
<1>4. CASE off = 7 /\ n = 2
  <2>1. parts = <<<<1, 1>>, <<1, 0>>>>
    BY <1>1, <1>4, NarrowParts DEF parts
  <2> DEFINE c == OrPart(b, <<1, 1>>, v)
  <2>2. w = OrPart(c, <<1, 0>>, v)
    BY <1>2, <2>1
  <2>3. /\ c \in Buffer /\ c.pos = b.pos + 1
        /\ \A i \in Nat : i \in c.bits <=> i \in b.bits \/ (i \in b.pos..(b.pos + 1 - 1) /\ i - b.pos + 1 \in v)
    BY OrPartIs
  <2> HIDE DEF c
  <2>4. /\ w \in Buffer /\ w.pos = c.pos + 1
        /\ \A i \in Nat : i \in w.bits <=> i \in c.bits \/ (i \in c.pos..(c.pos + 1 - 1) /\ i - c.pos + 0 \in v)
    BY <2>2, <2>3, OrPartIs
  <2>5. \A i \in Nat : i \in w.bits <=> i \in b.bits \/ (i \in b.pos..(b.pos + 1) /\ 1 - (i - b.pos) \in v)
    <3> TAKE i \in Nat
    <3>1. CASE i = b.pos
      <4>1. i - b.pos + 1 = 1 - (i - b.pos) /\ i \in b.pos..(b.pos + 1 - 1) /\ i \in b.pos..(b.pos + 1)
            /\ i \notin c.pos..(c.pos + 1 - 1)
        BY <3>1, <1>1, <2>3
      <4> QED
        BY <4>1, <2>3, <2>4
    <3>2. CASE i = b.pos + 1
      <4>1. i - c.pos + 0 = 1 - (i - b.pos) /\ i \notin b.pos..(b.pos + 1 - 1) /\ i \in b.pos..(b.pos + 1)
            /\ i \in c.pos..(c.pos + 1 - 1)
        BY <3>2, <1>1, <2>3
      <4> QED
        BY <4>1, <2>3, <2>4
    <3>3. CASE i # b.pos /\ i # b.pos + 1
      <4>1. i \notin b.pos..(b.pos + 1 - 1) /\ i \notin b.pos..(b.pos + 1) /\ i \notin c.pos..(c.pos + 1 - 1)
        BY <3>3, <1>1, <2>3
      <4> QED
        BY <4>1, <2>3, <2>4
    <3> QED
      BY <3>1, <3>2, <3>3
  <2>6. w.pos = b.pos + n
    BY <2>3, <2>4, <1>1, <1>4
  <2> QED
    BY <2>4, <2>5, <2>6, <1>1, <1>4 DEF off, NarrowGoes
<1>5. CASE off = 7 /\ n = 4
  <2>1. parts = <<<<1, 0>>, <<2, 1>>>>
    BY <1>1, <1>5, NarrowParts DEF parts
  <2> DEFINE c == OrPart(b, <<1, 0>>, v)
  <2>2. w = OrPart(c, <<2, 1>>, v)
    BY <1>2, <2>1
  <2>3. /\ c \in Buffer /\ c.pos = b.pos + 1
        /\ \A i \in Nat : i \in c.bits <=> i \in b.bits \/ (i \in b.pos..(b.pos + 1 - 1) /\ i - b.pos + 0 \in v)
    BY OrPartIs
  <2> HIDE DEF c
  <2>4. /\ w \in Buffer /\ w.pos = c.pos + 2
        /\ \A i \in Nat : i \in w.bits <=> i \in c.bits \/ (i \in c.pos..(c.pos + 2 - 1) /\ i - c.pos + 1 \in v)
    BY <2>2, <2>3, OrPartIs
  <2>5. w.pos = b.pos + 3
    BY <2>3, <2>4, <1>1
  <2>6. \A i \in Nat : i < b.pos \/ i >= w.pos => (i \in w.bits <=> i \in b.bits)
    BY <2>3, <2>4, <2>5, <1>1
  <2> QED
    BY <2>4, <2>5, <2>6, <1>1, <1>5 DEF off, NarrowGoes
<1> QED
  BY <1>3, <1>4, <1>5, <1>1

\* Uint8 adds the 8 bits at the cursor, in one byte or in two.
LEMMA EightBits ==
  ASSUME NEW b \in Buffer, NEW v \in SUBSET Nat
  PROVE  WriteParts(b, Uint8, v) = OrBits(b, 8, v)
<1> DEFINE w == WriteParts(b, Uint8, v)
           u == OrBits(b, 8, v)
<1>1. Uint8 = Narrow["uint"][8] /\ "uint" \in DOMAIN Narrow
  BY DEF Narrow
<1>2. w \in Buffer /\ (w.pos = b.pos + 8)
      /\ \A i \in Nat : i \in w.bits <=> i \in b.bits \/ (i \in b.pos..(b.pos + 8 - 1) /\ i - b.pos \in v)
  <2>1. NarrowGoes(b, 8, v, WriteParts(b, Narrow["uint"][8], v))
    BY <1>1, NarrowWritten, 8 \in 1..8
  <2>2. NarrowGoes(b, 8, v, w)
    BY <1>1, <2>1
  <2> HIDE DEF w
  <2> QED
    BY <2>2 DEF NarrowGoes
<1>3. u \in Buffer /\ (u.pos = b.pos + 8)
      /\ \A i \in Nat : i \in u.bits <=> i \in b.bits \/ (i \in b.pos..(b.pos + 8 - 1) /\ i - b.pos \in v)
  BY OrBitsIs
<1> HIDE DEF w, u
<1>4. w.bits = u.bits
  BY <1>2, <1>3 DEF Buffer
<1>5. w = [bits |-> w.bits, pos |-> w.pos] /\ u = [bits |-> u.bits, pos |-> u.pos]
  BY <1>2, <1>3 DEF Buffer
<1>6. w = u
  BY <1>2, <1>3, <1>4, <1>5
<1> QED
  BY <1>6 DEF w, u

\* The number that stands at a place.
BitsAt(bits, pos, n) == {i \in 0..(n - 1) : pos + i \in bits}

\* A number of less than a byte is read bit by bit.
LEMMA NarrowRead ==
  ASSUME NEW bits, NEW pos \in Nat, NEW kind \in DOMAIN Narrow, NEW n \in 1..8
  PROVE  ReadParts(bits, pos, Narrow[kind][n]) = BitsAt(bits, pos, n)
<1> DEFINE off == subByteOffset(pos)
           parts == Split(n)[off]
           R(p) == {i \in p[2]..(p[1] + p[2] - 1) : pos + i \in bits}
<1>1. off \in 0..7 /\ kind \in {"uint", "int"}
  BY CursorInByte DEF Narrow
<1>2. ReadParts(bits, pos, Narrow[kind][n]) = UNION {R(p) : p \in ToSet(parts)}
  BY <1>1, NarrowParts DEF ReadParts
<1>3. parts = IF off + n <= 8 THEN <<<<n, 0>>>> ELSE <<<<8 - off, 0>>, <<n - 8 + off, 8 - off>>>>
  BY <1>1 DEF Split
<1> HIDE DEF off, parts
<1>4. CASE off + n <= 8
  <2>1. ToSet(parts) = {<<n, 0>>}
    BY <1>3, <1>4 DEF ToSet
  <2>2. R(<<n, 0>>) = BitsAt(bits, pos, n)
    BY DEF BitsAt
  <2>3. UNION {R(p) : p \in ToSet(parts)} = R(<<n, 0>>)
    BY <2>1
  <2> QED
    BY <1>2, <2>2, <2>3
<1>5. CASE ~(off + n <= 8)
  <2> DEFINE p == <<8 - off, 0>>
             q == <<n - 8 + off, 8 - off>>
  <2>1. ToSet(parts) = {p, q}
    BY <1>3, <1>5 DEF ToSet
  <2>2. UNION {R(x) : x \in ToSet(parts)} = R(p) \union R(q)
    BY <2>1
  <2>3. R(p) = {i \in 0..(8 - off - 1) : pos + i \in bits} /\ R(q) = {i \in (8 - off)..(n - 1) : pos + i \in bits}
    BY <1>1
  <2>4. 0..(n - 1) = 0..(8 - off - 1) \union (8 - off)..(n - 1)
    BY <1>1, <1>5
  <2> QED
    BY <1>2, <2>2, <2>3, <2>4 DEF BitsAt
<1> QED
  BY <1>4, <1>5

LEMMA EightBitsRead ==
  ASSUME NEW bits, NEW pos \in Nat
  PROVE  ReadParts(bits, pos, Uint8) = {i \in 0..7 : pos + i \in bits}
<1>1. Uint8 = Narrow["uint"][8] /\ "uint" \in DOMAIN Narrow
  BY DEF Narrow
<1>2. ReadParts(bits, pos, Narrow["uint"][8]) = BitsAt(bits, pos, 8)
  BY <1>1, NarrowRead, 8 \in 1..8
<1> QED
  BY <1>1, <1>2 DEF BitsAt

------------------------------------------------------------------------------
\* The orders of the bytes.
OrderOfBytes(o) == o \in Seq(0..7) /\ Len(o) \in 1..8

\* Each of so many bytes is there.
Permuted(o, k) == o \in Seq(0..(k - 1)) /\ Len(o) = k /\ \A q \in 0..(k - 1) : \E j \in 1..k : o[j] = q

LEMMA EndianOrders ==
  ASSUME NEW k \in 1..8
  PROVE  Permuted(BigEndian(k), k) /\ Permuted(LittleEndian(k), k)
<1>1. Permuted(BigEndian(k), k)
  <2>1. BigEndian(k) \in Seq(0..(k - 1)) /\ Len(BigEndian(k)) = k
    BY DEF BigEndian
  <2>2. ASSUME NEW q \in 0..(k - 1) PROVE \E j \in 1..k : BigEndian(k)[j] = q
    <3>1. k - q \in 1..k /\ BigEndian(k)[k - q] = q
      BY DEF BigEndian
    <3> QED
      BY <3>1
  <2> QED
    BY <2>1, <2>2 DEF Permuted
<1>2. Permuted(LittleEndian(k), k)
  <2>1. LittleEndian(k) \in Seq(0..(k - 1)) /\ Len(LittleEndian(k)) = k
    BY DEF LittleEndian
  <2>2. ASSUME NEW q \in 0..(k - 1) PROVE \E j \in 1..k : LittleEndian(k)[j] = q
    <3>1. q + 1 \in 1..k /\ LittleEndian(k)[q + 1] = q
      BY DEF LittleEndian
    <3> QED
      BY <3>1
  <2> QED
    BY <2>1, <2>2 DEF Permuted
<1> QED
  BY <1>1, <1>2

LEMMA PermutedIsOrder ==
  ASSUME NEW k \in 1..8, NEW o, Permuted(o, k)
  PROVE  OrderOfBytes(o) /\ Len(o) = k
<1>1. o \in Seq(0..(k - 1)) /\ Len(o) = k
  BY DEF Permuted
<1>2. o \in Seq(0..7)
  <2>1. ASSUME NEW j \in 1..Len(o) PROVE o[j] \in 0..7
    <3>1. o[j] \in 0..(k - 1)
      BY <1>1
    <3> QED
      BY <3>1
  <2> QED
    BY <1>1, <2>1
<1> QED
  BY <1>2 DEF Permuted, OrderOfBytes

\* Orders in which the reader takes what the writer put.
SameOrder(kind, k) ==
  \A a \in BOOLEAN : Wide[kind].reads[a] = Wide[kind].writes[a] /\ Permuted(Wide[kind].writes[a], k)

LEMMA SameOrders ==
  ASSUME NEW kind, NEW k \in 1..8, NEW o, Permuted(o, k), Wide[kind] = Bytes(o, o, o)
  PROVE  SameOrder(kind, k)
BY DEF SameOrder, Bytes

\* The orders of a number that is written as it is read at the start of a byte.
LEMMA OrdersWhenAligned ==
  ASSUME NEW kind, NEW k \in 1..8, NEW o, NEW w, NEW r, Wide[kind] = Bytes(o, w, r),
         Permuted(o, k), Permuted(r, k), OrderOfBytes(w), Len(w) = k
  PROVE  /\ Wide[kind].writes[TRUE] = o /\ Wide[kind].reads[TRUE] = o
         /\ \A a \in BOOLEAN : /\ OrderOfBytes(Wide[kind].writes[a]) /\ Len(Wide[kind].writes[a]) = k
                               /\ OrderOfBytes(Wide[kind].reads[a]) /\ Len(Wide[kind].reads[a]) = k
<1>1. /\ Wide[kind].writes[TRUE] = o /\ Wide[kind].reads[TRUE] = o
      /\ Wide[kind].writes[FALSE] = w /\ Wide[kind].reads[FALSE] = r
  BY DEF Bytes
<1>2. OrderOfBytes(o) /\ Len(o) = k /\ OrderOfBytes(r) /\ Len(r) = k
  BY PermutedIsOrder
<1> QED
  BY <1>1, <1>2

\* How many bytes the cursor moves by.
Widths(kind) == IF kind \in {"uint16", "uint16LE", "int16", "int16LE"} THEN 2
                ELSE IF kind \in {"uint24", "uint24LE", "int24", "int24LE"} THEN 3
                ELSE IF kind \in {"uint32", "uint32LE", "int32", "int32LE"} THEN 4 ELSE 8

\* The classes of whole bytes.
LEMMA WideKinds ==
  /\ DOMAIN Wide = {"uint16", "uint16LE", "uint24", "uint24LE", "uint32", "uint32LE", "uint64", "uint64LE",
                    "int16", "int16LE", "int24", "int24LE", "int32", "int32LE", "int64", "int64LE"}
  /\ Wide["uint16"] = Uint16 /\ Wide["uint16LE"] = Uint16LE /\ Wide["uint24"] = Uint24 /\ Wide["uint24LE"] = Uint24LE
  /\ Wide["uint32"] = Uint32 /\ Wide["uint32LE"] = Uint32LE /\ Wide["uint64"] = Uint64 /\ Wide["uint64LE"] = Uint64LE
  /\ Wide["int16"] = Int16 /\ Wide["int16LE"] = Int16LE /\ Wide["int24"] = Int24 /\ Wide["int24LE"] = Int24LE
  /\ Wide["int32"] = Int32 /\ Wide["int32LE"] = Int32LE /\ Wide["int64"] = Int64 /\ Wide["int64LE"] = Int64LE
BY DEF Wide

\* The orders of a number of whole bytes, and how many they are.
WellOrdered(kind) ==
  /\ Length(kind) = Widths(kind)
  /\ \A a \in BOOLEAN :
       /\ OrderOfBytes(Wide[kind].writes[a]) /\ OrderOfBytes(Wide[kind].reads[a])
       /\ Len(Wide[kind].writes[a]) <= Length(kind) + 1
       /\ kind \notin Cut => Len(Wide[kind].writes[a]) = Length(kind) /\ Len(Wide[kind].reads[a]) = Length(kind)
       /\ kind \notin Cut /\ (kind \in Swapped => a) =>
            Wide[kind].reads[a] = Wide[kind].writes[a] /\ Permuted(Wide[kind].reads[a], Length(kind))

LEMMA SameOrderIsWell ==
  ASSUME NEW kind \in DOMAIN Wide, kind \notin Cut, SameOrder(kind, Widths(kind))
  PROVE  WellOrdered(kind)
<1>1. Widths(kind) \in 1..8
  BY DEF Widths
<1>2. \A a \in BOOLEAN : /\ OrderOfBytes(Wide[kind].writes[a]) /\ Len(Wide[kind].writes[a]) = Widths(kind)
                         /\ Wide[kind].reads[a] = Wide[kind].writes[a]
                         /\ Permuted(Wide[kind].reads[a], Widths(kind))
  BY <1>1, PermutedIsOrder DEF SameOrder
<1>3. Length(kind) = Widths(kind)
  BY <1>2 DEF Length
<1>4. Widths(kind) <= Widths(kind) + 1
  BY <1>1
<1>5. \A a \in BOOLEAN : /\ OrderOfBytes(Wide[kind].reads[a]) /\ Len(Wide[kind].reads[a]) = Widths(kind)
                         /\ Len(Wide[kind].writes[a]) <= Widths(kind) + 1
  BY <1>2, <1>4
<1> QED
  BY <1>2, <1>3, <1>5, Zenon DEF WellOrdered

LEMMA AlignedOrderIsWell ==
  ASSUME NEW kind \in DOMAIN Wide, kind \in Swapped, kind \notin Cut, NEW o, NEW w, NEW r,
         Wide[kind] = Bytes(o, w, r), Permuted(o, Widths(kind)), Permuted(r, Widths(kind)),
         OrderOfBytes(w), Len(w) = Widths(kind)
  PROVE  WellOrdered(kind)
<1>1. Widths(kind) \in 1..8
  BY DEF Widths
<1>2. /\ Wide[kind].writes[TRUE] = o /\ Wide[kind].reads[TRUE] = o
      /\ \A a \in BOOLEAN : /\ OrderOfBytes(Wide[kind].writes[a]) /\ Len(Wide[kind].writes[a]) = Widths(kind)
                            /\ OrderOfBytes(Wide[kind].reads[a]) /\ Len(Wide[kind].reads[a]) = Widths(kind)
  BY <1>1, OrdersWhenAligned
<1>3. Length(kind) = Widths(kind)
  BY <1>2 DEF Length
<1>4. Widths(kind) <= Widths(kind) + 1
  BY <1>1
<1>5. \A a \in BOOLEAN : Len(Wide[kind].writes[a]) <= Widths(kind) + 1
  BY <1>2, <1>4
<1>6. ASSUME NEW a \in BOOLEAN, kind \in Swapped => a
      PROVE  Wide[kind].reads[a] = Wide[kind].writes[a] /\ Permuted(Wide[kind].reads[a], Widths(kind))
  <2>1. a = TRUE
    BY <1>6
  <2> QED
    BY <1>2, <2>1
<1> QED
  BY <1>2, <1>3, <1>5, <1>6, Zenon DEF WellOrdered

LEMMA WideOrders ==
  ASSUME NEW kind \in DOMAIN Wide
  PROVE  WellOrdered(kind)
<1>1. CASE kind \in {"uint16", "uint16LE", "int16", "int16LE"}
  <2>1. kind \notin Cut /\ Widths(kind) = 2 /\ 2 \in 1..8
    BY <1>1 DEF Cut, Widths
  <2>2. Wide[kind] = Bytes(BigEndian(2), BigEndian(2), BigEndian(2)) \/ Wide[kind] = Bytes(LittleEndian(2), LittleEndian(2), LittleEndian(2))
    BY <1>1, WideKinds DEF Uint16, Uint16LE, Int16, Int16LE
  <2>3. SameOrder(kind, 2)
    BY <2>1, <2>2, EndianOrders, SameOrders
  <2> QED
    BY <2>1, <2>3, SameOrderIsWell
<1>2. CASE kind \in {"uint24LE", "int24LE"}
  <2>1. kind \notin Cut /\ Widths(kind) = 3 /\ 3 \in 1..8
    BY <1>2 DEF Cut, Widths
  <2>2. Wide[kind] = Bytes(LittleEndian(3), LittleEndian(3), LittleEndian(3))
    BY <1>2, WideKinds DEF Uint24LE, Int24LE
  <2>3. SameOrder(kind, 3)
    BY <2>1, <2>2, EndianOrders, SameOrders
  <2> QED
    BY <2>1, <2>3, SameOrderIsWell
<1>3. CASE kind \in {"uint32", "int32"}
  <2>1. kind \notin Cut /\ Widths(kind) = 4 /\ 4 \in 1..8
    BY <1>3 DEF Cut, Widths
  <2>2. Wide[kind] = Bytes(BigEndian(4), BigEndian(4), BigEndian(4))
    BY <1>3, WideKinds DEF Uint32, Int32
  <2>3. SameOrder(kind, 4)
    BY <2>1, <2>2, EndianOrders, SameOrders
  <2> QED
    BY <2>1, <2>3, SameOrderIsWell
<1>4. CASE kind = "uint64"
  <2>1. kind \notin Cut /\ Widths(kind) = 8 /\ 8 \in 1..8
    BY <1>4 DEF Cut, Widths
  <2>2. Wide[kind] = Bytes(BigEndian(8), BigEndian(8), BigEndian(8))
    BY <1>4, WideKinds DEF Uint64
  <2>3. SameOrder(kind, 8)
    BY <2>1, <2>2, EndianOrders, SameOrders
  <2> QED
    BY <2>1, <2>3, SameOrderIsWell
<1>5. CASE kind \in {"uint32LE", "int32LE"}
  <2>1. kind \notin Cut /\ kind \in Swapped /\ Widths(kind) = 4 /\ 4 \in 1..8
    BY <1>5 DEF Cut, Widths, Swapped
  <2>2. Wide[kind] = Bytes(LittleEndian(4), <<1, 0, 3, 2>>, LittleEndian(4))
    BY <1>5, WideKinds DEF Uint32LE, Int32LE
  <2>3. OrderOfBytes(<<1, 0, 3, 2>>) /\ Len(<<1, 0, 3, 2>>) = 4
    BY DEF OrderOfBytes
  <2>4. Permuted(LittleEndian(4), 4)
    BY <2>1, EndianOrders
  <2> QED
    BY <2>1, <2>2, <2>3, <2>4, AlignedOrderIsWell
<1>6. CASE kind = "uint64LE"
  <2>1. kind \notin Cut /\ kind \in Swapped /\ Widths(kind) = 8 /\ 8 \in 1..8
    BY <1>6 DEF Cut, Widths, Swapped
  <2>2. Wide[kind] = Bytes(LittleEndian(8), BigEndian(8), LittleEndian(8))
    BY <1>6, WideKinds DEF Uint64LE
  <2>3. Permuted(LittleEndian(8), 8) /\ Permuted(BigEndian(8), 8)
    BY <2>1, EndianOrders
  <2>4. OrderOfBytes(BigEndian(8)) /\ Len(BigEndian(8)) = 8
    BY <2>1, <2>3, PermutedIsOrder
  <2> QED
    BY <2>1, <2>2, <2>3, <2>4, AlignedOrderIsWell
<1>7. CASE kind = "int64"
  <2> DEFINE w == <<7, 6, 5, 4, 5, 4, 3, 2>>
  <2>1. kind \notin Cut /\ kind \in Swapped /\ Widths(kind) = 8 /\ 8 \in 1..8
    BY <1>7 DEF Cut, Widths, Swapped
  <2>2. Wide[kind] = Bytes(BigEndian(8), w, BigEndian(8))
    BY <1>7, WideKinds DEF Int64
  <2>3. Permuted(BigEndian(8), 8)
    BY <2>1, EndianOrders
  <2>4. OrderOfBytes(w) /\ Len(w) = 8
    BY DEF OrderOfBytes
  <2> HIDE DEF w
  <2> QED
    BY <2>1, <2>2, <2>3, <2>4, AlignedOrderIsWell
<1>8. CASE kind = "int64LE"
  <2> DEFINE w == <<5, 4, 3, 2, 3, 2, 1, 0>>
  <2>1. kind \notin Cut /\ kind \in Swapped /\ Widths(kind) = 8 /\ 8 \in 1..8
    BY <1>8 DEF Cut, Widths, Swapped
  <2>2. Wide[kind] = Bytes(LittleEndian(8), w, LittleEndian(8))
    BY <1>8, WideKinds DEF Int64LE
  <2>3. Permuted(LittleEndian(8), 8)
    BY <2>1, EndianOrders
  <2>4. OrderOfBytes(w) /\ Len(w) = 8
    BY DEF OrderOfBytes
  <2> HIDE DEF w
  <2> QED
    BY <2>1, <2>2, <2>3, <2>4, AlignedOrderIsWell
<1>9. CASE kind \in {"uint24", "int24"}
  <2> DEFINE w == <<3, 2, 1>>
  <2>1. kind \in Cut /\ Widths(kind) = 3 /\ 4 \in 1..8
    BY <1>9 DEF Cut, Widths
  <2>2. Wide[kind] = Bytes(BigEndian(4), w, w)
    BY <1>9, WideKinds DEF Uint24, Int24
  <2>3. OrderOfBytes(BigEndian(4)) /\ Len(BigEndian(4)) = 4
    BY <2>1, EndianOrders, PermutedIsOrder
  <2>4. OrderOfBytes(w) /\ Len(w) = 3
    BY DEF OrderOfBytes
  <2> HIDE DEF w
  <2>5. /\ Wide[kind].writes[TRUE] = BigEndian(4) /\ Wide[kind].reads[TRUE] = BigEndian(4)
        /\ Wide[kind].writes[FALSE] = w /\ Wide[kind].reads[FALSE] = w
    BY <2>2 DEF Bytes
  <2>6. Length(kind) = 3
    BY <2>1 DEF Length
  <2>7. ASSUME NEW a \in BOOLEAN
        PROVE  /\ OrderOfBytes(Wide[kind].writes[a]) /\ OrderOfBytes(Wide[kind].reads[a])
               /\ Len(Wide[kind].writes[a]) <= Length(kind) + 1
    <3>1. CASE a = TRUE
      <4>1. Len(BigEndian(4)) <= Length(kind) + 1
        <5>1. Len(BigEndian(4)) = 4 /\ Length(kind) + 1 = 4
          BY <2>3, <2>6
        <5> QED
          BY <5>1, 4 <= 4, Zenon
      <4> QED
        BY <2>3, <2>5, <3>1, <4>1, Zenon
    <3>2. CASE a = FALSE
      <4>1. Len(w) <= Length(kind) + 1
        BY <2>4, <2>6
      <4> QED
        BY <2>4, <2>5, <3>2, <4>1, Zenon
    <3> QED
      BY <3>1, <3>2
  <2> QED
    BY <2>1, <2>6, <2>7 DEF WellOrdered
<1> QED
  BY <1>1, <1>2, <1>3, <1>4, <1>5, <1>6, <1>7, <1>8, <1>9, WideKinds

\* Each byte of a number is at its place in the order.
LEMMA ArrangedIs ==
  ASSUME NEW v \in SUBSET Nat, NEW o, OrderOfBytes(o)
  PROVE  /\ Arranged(v, o) \in SUBSET Nat
         /\ \A i \in Arranged(v, o) : i < 8 * Len(o)
         /\ \A j \in DOMAIN o : \A r \in 0..7 : 8 * (j - 1) + r \in Arranged(v, o) <=> 8 * o[j] + r \in v
<1> DEFINE B(j) == Up(Low(Down(v, 8 * o[j]), 8), 8 * (j - 1))
<1>1. Len(o) \in 1..8 /\ DOMAIN o = 1..Len(o) /\ \A j \in DOMAIN o : o[j] \in 0..7
  BY DEF OrderOfBytes
<1>2. ASSUME NEW j \in DOMAIN o, NEW i \in Int
      PROVE  i \in B(j) <=> i \in 8 * (j - 1)..8 * (j - 1) + 7 /\ i - 8 * (j - 1) + 8 * o[j] \in v
  <2> DEFINE d == Down(v, 8 * o[j])
  <2>1. 8 * (j - 1) \in Nat /\ 8 * o[j] \in Nat
    BY <1>1
  <2>2. d \in SUBSET Nat /\ \A x \in Nat : x \in d <=> x + 8 * o[j] \in v
    BY <2>1, InDown
  <2> HIDE DEF d
  <2>3. i \in Up(Low(d, 8), 8 * (j - 1)) <=> i \in 8 * (j - 1)..(8 * (j - 1) + 8 - 1) /\ i - 8 * (j - 1) \in d
    BY <2>1, <2>2, InUp
  <2>4. 8 * (j - 1) + 8 - 1 = 8 * (j - 1) + 7
    BY <2>1
  <2>5. i \in 8 * (j - 1)..(8 * (j - 1) + 7) => i - 8 * (j - 1) \in Nat
    BY <2>1
  <2> QED
    BY <2>2, <2>3, <2>4, <2>5 DEF d
<1>3. Arranged(v, o) = UNION {B(j) : j \in DOMAIN o}
  BY DEF Arranged
<1>4. ASSUME NEW j \in DOMAIN o, NEW i \in B(j) PROVE i \in Int
  <2>1. 8 * o[j] \in Nat /\ 8 * (j - 1) \in Int
    BY <1>1
  <2>2. Down(v, 8 * o[j]) \in SUBSET Nat
    BY <2>1, InDown
  <2>3. Low(Down(v, 8 * o[j]), 8) \in SUBSET Nat
    BY <2>2 DEF Low
  <2> QED
    BY <2>1, <2>3 DEF Up
<1> HIDE DEF B
<1>5. \A i \in Arranged(v, o) : i \in Int /\ \E j \in DOMAIN o : i \in B(j)
  BY <1>3, <1>4
<1>6. ASSUME NEW i \in Arranged(v, o) PROVE i \in Nat /\ i < 8 * Len(o)
  <2>1. PICK j \in DOMAIN o : i \in B(j)
    BY <1>5
  <2>2. i \in Int /\ i \in 8 * (j - 1)..(8 * (j - 1) + 7)
    BY <1>2, <1>5, <2>1
  <2> QED
    BY <2>2, <1>1
<1>7. ASSUME NEW j \in DOMAIN o, NEW r \in 0..7
      PROVE  8 * (j - 1) + r \in Arranged(v, o) <=> 8 * o[j] + r \in v
  <2> DEFINE i == 8 * (j - 1) + r
  <2>1. j \in Int /\ o[j] \in Int
    BY <1>1
  <2>2. i \in Int /\ i \in 8 * (j - 1)..(8 * (j - 1) + 7) /\ i - 8 * (j - 1) + 8 * o[j] = 8 * o[j] + r
    BY <2>1
  <2>3. i \in B(j) <=> 8 * o[j] + r \in v
    BY <1>2, <2>2
  <2>4. ASSUME NEW k \in DOMAIN o, i \in B(k) PROVE k = j
    <3>1. i \in 8 * (k - 1)..(8 * (k - 1) + 7)
      BY <1>2, <2>2, <2>4
    <3> QED
      BY <3>1, <1>1
  <2> HIDE DEF i
  <2>5. i \in Arranged(v, o) <=> i \in B(j)
    BY <1>3, <2>4
  <2> QED
    BY <2>3, <2>5 DEF i
<1> QED
  BY <1>6, <1>7

\* What a write of bytes in the order o leaves in the buffer w.
WideGoes(b, kind, v, w, o) ==
  /\ w \in Buffer /\ w.pos = b.pos + 8 * Length(kind)
  /\ \A i \in Nat : i < b.pos \/ i >= b.pos + 8 * Len(o) => (i \in w.bits <=> i \in b.bits)
  /\ b.bits \subseteq 0..(b.pos - 1) =>
       \A j \in DOMAIN o : \A r \in 0..7 : b.pos + 8 * (j - 1) + r \in w.bits <=> 8 * o[j] + r \in v

\* A number of whole bytes is put in its order; what is before it stays.
LEMMA WideWritten ==
  ASSUME NEW b \in Buffer, NEW kind \in DOMAIN Wide, NEW v \in SUBSET Nat
  PROVE  WideGoes(b, kind, v, WriteWide(b, kind, v), Wide[kind].writes[Aligned(b.pos)])
<1> DEFINE w == WriteWide(b, kind, v)
           o == Wide[kind].writes[Aligned(b.pos)]
           n == 8 * Len(o)
           a == Arranged(v, o)
           put == IF ByBytes(kind, b.pos) THEN OrBits(b, n, a) ELSE PutBits(b, n, a)
<1>1. w = [put EXCEPT !.pos = b.pos + 8 * Length(kind)]
  BY DEF WriteWide
<1>2. OrderOfBytes(o) /\ Length(kind) \in {2, 3, 4, 8} /\ b.pos \in Nat
  BY WideOrders DEF WellOrdered, Widths, Aligned, Buffer
<1> HIDE DEF w, o
<1>3. Len(o) \in 1..8 /\ DOMAIN o = 1..Len(o) /\ n \in Nat
  BY <1>2 DEF OrderOfBytes
<1>4. /\ a \in SUBSET Nat
      /\ \A j \in DOMAIN o : \A r \in 0..7 : 8 * (j - 1) + r \in a <=> 8 * o[j] + r \in v
  BY <1>2, ArrangedIs
<1> HIDE DEF a, n
<1>5. /\ put \in Buffer
      /\ \A i \in Nat : i < b.pos \/ i >= b.pos + n => (i \in put.bits <=> i \in b.bits)
      /\ b.bits \subseteq 0..(b.pos - 1) => \A i \in b.pos..(b.pos + n - 1) : i \in put.bits <=> i - b.pos \in a
  <2>1. CASE ByBytes(kind, b.pos)
    <3>1. /\ put \in Buffer
          /\ \A i \in Nat : i \in put.bits <=> i \in b.bits \/ (i \in b.pos..(b.pos + n - 1) /\ i - b.pos \in a)
      BY <2>1, <1>3, <1>4, OrBitsIs
    <3> HIDE DEF put
    <3> QED
      BY <3>1, <1>2, <1>3
  <2>2. CASE ~ByBytes(kind, b.pos)
    <3>1. /\ put \in Buffer
          /\ \A i \in Nat : i \in put.bits <=> IF i \in b.pos..(b.pos + n - 1) THEN i - b.pos \in a ELSE i \in b.bits
      BY <2>2, <1>3, <1>4, PutBitsIs
    <3> HIDE DEF put
    <3> QED
      BY <3>1, <1>2, <1>3
  <2> QED
    BY <2>1, <2>2
<1> HIDE DEF put
<1>6. w \in Buffer /\ w.bits = put.bits /\ w.pos = b.pos + 8 * Length(kind)
  BY <1>1, <1>2, <1>5 DEF Buffer
<1>7. ASSUME b.bits \subseteq 0..(b.pos - 1), NEW j \in DOMAIN o, NEW r \in 0..7
      PROVE  b.pos + 8 * (j - 1) + r \in w.bits <=> 8 * o[j] + r \in v
  <2> DEFINE i == b.pos + 8 * (j - 1) + r
  <2>1. j \in Int /\ 1 <= j /\ j <= Len(o) /\ Len(o) \in Int
    BY <1>3
  <2>2. i \in b.pos..(b.pos + n - 1) /\ i - b.pos = 8 * (j - 1) + r
    BY <1>2, <2>1 DEF n
  <2>3. i \in put.bits <=> 8 * (j - 1) + r \in a
    BY <1>5, <1>7, <2>2
  <2>4. 8 * (j - 1) + r \in a <=> 8 * o[j] + r \in v
    BY <1>4
  <2> QED
    BY <2>3, <2>4, <1>6
<1>8. \A i \in Nat : i < b.pos \/ i >= b.pos + 8 * Len(o) => (i \in w.bits <=> i \in b.bits)
  BY <1>5, <1>6 DEF n
<1>9. WideGoes(b, kind, v, w, o)
  BY <1>6, <1>7, <1>8 DEF WideGoes
<1> QED
  BY <1>9 DEF w, o

\* The bits that are read of whole bytes, before they get a sign.
WideReads(bits, pos, kind, raw) ==
  LET o == Wide[kind].reads[Aligned(pos)] IN
  /\ ReadWide(bits, pos, kind) = SignExtended(kind, raw)
  /\ \A x \in 0..63 : x \in raw <=>
       \E j \in DOMAIN o : \E r \in 0..7 : x = 8 * o[j] + r /\ pos + Shift(kind, pos) + 8 * (j - 1) + r \in bits

\* What is read of a number of whole bytes is what stands in its bytes.
LEMMA WideRead ==
  ASSUME NEW bits, NEW pos \in Nat, NEW kind \in DOMAIN Wide, base \in {0, 8}
  PROVE  \E raw \in SUBSET (0..63) : WideReads(bits, pos, kind, raw)
<1> DEFINE o == Wide[kind].reads[Aligned(pos)]
           s == pos + Shift(kind, pos)
           B(j) == Up(ReadParts(bits, s + 8 * (j - 1), Uint8), 8 * o[j])
           raw == UNION {B(j) : j \in DOMAIN o}
<1>1. OrderOfBytes(o)
  BY WideOrders DEF WellOrdered, Aligned
<1>2. OrderOfBytes(o) /\ s \in Nat
  BY <1>1 DEF Shift
<1>3. DOMAIN o = 1..Len(o) /\ \A j \in DOMAIN o : o[j] \in 0..7
  BY <1>2 DEF OrderOfBytes
<1>4. ReadWide(bits, pos, kind) = SignExtended(kind, raw)
  BY DEF ReadWide
<1> HIDE DEF s, o
<1>5. ASSUME NEW j \in DOMAIN o
      PROVE  B(j) = {8 * o[j] + r : r \in {r \in 0..7 : s + 8 * (j - 1) + r \in bits}}
  <2>1. s + 8 * (j - 1) \in Nat
    BY <1>2, <1>3
  <2>2. ReadParts(bits, s + 8 * (j - 1), Uint8) = {r \in 0..7 : s + 8 * (j - 1) + r \in bits}
    BY <2>1, EightBitsRead
  <2>3. \A r \in 0..7 : r + 8 * o[j] = 8 * o[j] + r
    BY <1>3
  <2> QED
    BY <2>2, <2>3 DEF Up
<1>6. raw \in SUBSET (0..63)
  <2>1. ASSUME NEW j \in DOMAIN o PROVE B(j) \subseteq 0..63
    <3>1. \A r \in 0..7 : 8 * o[j] + r \in 0..63
      <4>1. o[j] \in 0..7
        BY <1>3
      <4> QED
        BY <4>1
    <3> QED
      BY <3>1, <1>5
  <2> QED
    BY <2>1
<1>7. ASSUME NEW x \in 0..63
      PROVE  x \in raw <=> \E j \in DOMAIN o : \E r \in 0..7 : x = 8 * o[j] + r /\ s + 8 * (j - 1) + r \in bits
  <2>1. x \in raw <=> \E j \in DOMAIN o : x \in B(j)
    OBVIOUS
  <2>2. ASSUME NEW j \in DOMAIN o
        PROVE  x \in B(j) <=> \E r \in 0..7 : x = 8 * o[j] + r /\ s + 8 * (j - 1) + r \in bits
    BY <1>5, Zenon
  <2> HIDE DEF B, raw
  <2> QED
    BY <2>1, <2>2
<1> QED
  BY <1>4, <1>6, <1>7, Zenon DEF s, o, WideReads

------------------------------------------------------------------------------
LEMMA KindsApart ==
  /\ DOMAIN Narrow = {"uint", "int"}
  /\ Buffers = {"fixed", "prefixed", "preparsed"}
  /\ \A kind \in DOMAIN Wide : kind \notin DOMAIN Narrow /\ kind \notin Buffers
  /\ \A kind \in Buffers : kind \notin DOMAIN Narrow
BY WideKinds DEF Narrow, Buffers

LEMMA NarrowTakes ==
  ASSUME NEW f \in FieldType, f.kind \in DOMAIN Narrow, NEW v, Takes(f, v)
  PROVE  f.width \in 1..8 /\ IF f.kind = "uint" THEN Unsigned(v, f.width) ELSE WithSign(v, f.width)
BY KindsApart DEF Takes

LEMMA BufferTakes ==
  ASSUME NEW f \in FieldType, f.kind \in Buffers, NEW v, Takes(f, v)
  PROVE  Unsigned(v, 8)
BY KindsApart DEF Takes

LEMMA WideTakes ==
  ASSUME NEW f \in FieldType, f.kind \in DOMAIN Wide, NEW v, Takes(f, v)
  PROVE  IF f.kind \in {"int16", "int16LE"} THEN WithSign(v, 16)
         ELSE IF f.kind \in {"int24", "int24LE"} THEN WithSign(v, 24) ELSE Unsigned(v, 8 * Length(f.kind))
BY KindsApart DEF Takes

\* How far a field goes, in bits.
LEMMA AdvanceIs ==
  ASSUME NEW f \in FieldType
  PROVE  /\ f.kind \in DOMAIN Narrow => Advance(f) = f.width
         /\ f.kind \in DOMAIN Wide => Advance(f) = 8 * Length(f.kind)
         /\ f.kind = "prefixed" => Advance(f) = 16
         /\ f.kind \in {"fixed", "preparsed"} => Advance(f) = 8
BY KindsApart DEF Advance

LEMMA AdvanceType ==
  ASSUME NEW f \in FieldType, NEW v, Takes(f, v)
  PROVE  Advance(f) \in Nat
<1>1. f.kind \in DOMAIN Narrow => f.width \in Nat
  BY NarrowTakes
<1>2. f.kind \in DOMAIN Wide => 8 * Length(f.kind) \in Nat
  BY WideOrders DEF WellOrdered, Widths
<1> QED
  BY <1>1, <1>2, AdvanceIs, KindsApart DEF FieldType, FieldKinds

LEMMA ReachesType ==
  ASSUME NEW f \in FieldType, NEW v, Takes(f, v), NEW pos \in Nat, base \in {0, 8}
  PROVE  Reaches(pos, f) \in Int
<1>1. CASE f.kind \in DOMAIN Wide
  <2>1. Len(Wide[f.kind].reads[Aligned(pos)]) \in Int
    BY <1>1, WideOrders DEF WellOrdered, OrderOfBytes, Aligned
  <2>2. floorOffset(pos + Shift(f.kind, pos)) \in Int
    BY DEF floorOffset, Shift
  <2>3. Reaches(pos, f) = WideEnds(pos, f.kind)
    BY <1>1, KindsApart DEF Reaches
  <2> DEFINE n == Len(Wide[f.kind].reads[Aligned(pos)])
             p == floorOffset(pos + Shift(f.kind, pos))
  <2>4. Reaches(pos, f) = p + n + IF Aligned(pos) THEN 0 ELSE 1
    BY <2>3 DEF WideEnds
  <2> HIDE DEF n, p
  <2>5. n \in Int /\ p \in Int
    BY <2>1, <2>2 DEF n, p
  <2> QED
    BY <2>4, <2>5
<1>2. CASE f.kind \in Buffers
  BY <1>2, AdvanceType, KindsApart DEF Reaches, floorOffset
<1>3. CASE f.kind \in DOMAIN Narrow
  <2>1. f.width \in 1..8 /\ f.kind \in {"uint", "int"} /\ f.kind \notin DOMAIN Wide /\ f.kind \notin Buffers
    BY <1>3, NarrowTakes, KindsApart
  <2>2. Reaches(pos, f) = PartsEnd(pos, Narrow[f.kind][f.width]) /\ Narrow[f.kind][f.width].reads = Split(f.width)
    BY <2>1, NarrowParts DEF Reaches
  <2>3. subByteOffset(pos) \in 0..7 /\ floorOffset(pos) \in Int
    BY CursorInByte
  <2>4. Len(Split(f.width)[subByteOffset(pos)]) \in Int
    BY <2>1, <2>3 DEF Split
  <2> QED
    BY <2>2, <2>3, <2>4 DEF PartsEnd
<1> QED
  BY <1>1, <1>2, <1>3 DEF FieldType, FieldKinds

\* write() of a field: what is before the cursor stays; if the reader can read the
\* field, the cursor moves to its end and its bits stand there.
LEMMA FieldWritten ==
  ASSUME NEW f \in FieldType, NEW v \in SUBSET (0..63), Takes(f, v),
         NEW b \in Buffer, b.bits \subseteq 0..(b.pos + 7), f.kind \in Buffers => Aligned(b.pos),
         NEW m, m = [field |-> f, value |-> v, pos |-> b.pos], NEW w, w = Written(b, f, v)
  PROVE  /\ w \in Buffer /\ w.bits \subseteq 0..(w.pos + 7) /\ w.pos >= b.pos
         /\ \A i \in Nat : i < b.pos => (i \in w.bits <=> i \in b.bits)
         /\ ~Misaligns(m) => w.pos = b.pos + Advance(f)
         /\ Kept(m) /\ b.bits \subseteq 0..(b.pos - 1) => w.bits \subseteq 0..(w.pos - 1) /\ Stands(w.bits, m)
<1>1. m.field = f /\ m.value = v /\ m.pos = b.pos /\ b.pos \in Nat /\ v \in SUBSET Nat
  BY DEF Buffer
<1>2. CASE f.kind \in DOMAIN Narrow
  <2> DEFINE n == f.width
             off == subByteOffset(b.pos)
  <2>1. n \in 1..8 /\ f.kind \notin DOMAIN Wide /\ f.kind \notin Buffers /\ f.kind # "prefixed"
    BY <1>2, NarrowTakes, KindsApart
  <2>2. w = WriteParts(b, Narrow[f.kind][n], v)
    BY <2>1 DEF Written
  <2>3. NarrowGoes(b, n, v, w)
    BY <1>1, <1>2, <2>1, <2>2, NarrowWritten, Zenon
  <2>4. /\ w \in Buffer /\ w.pos \in b.pos..(b.pos + 8)
        /\ (n = 4 /\ off = 7) \/ w.pos = b.pos + n
        /\ \A i \in Nat : i < b.pos \/ i >= w.pos => (i \in w.bits <=> i \in b.bits)
        /\ off # 7 \/ n \notin {2, 4} =>
             \A i \in Nat : i \in w.bits <=> i \in b.bits \/ (i \in b.pos..(b.pos + n - 1) /\ i - b.pos \in v)
        /\ off = 7 /\ n = 2 =>
             \A i \in Nat : i \in w.bits <=> i \in b.bits \/ (i \in b.pos..(b.pos + 1) /\ 1 - (i - b.pos) \in v)
    BY <2>3 DEF NarrowGoes
  <2> HIDE DEF n, off
  <2>5. w.bits \subseteq 0..(w.pos + 7)
    BY <1>1, <2>4 DEF Buffer
  <2>6. ~Misaligns(m) => w.pos = b.pos + Advance(f)
    BY <1>1, <1>2, <2>4, AdvanceIs DEF Misaligns, n, off
  <2>7. ASSUME Kept(m), b.bits \subseteq 0..(b.pos - 1)
        PROVE  w.bits \subseteq 0..(w.pos - 1) /\ Stands(w.bits, m)
    <3>1. ~(n = 4 /\ off = 7) /\ w.pos = b.pos + n
      BY <1>1, <1>2, <2>4, <2>7 DEF Kept, Misaligns, n, off
    <3>2. w.bits \subseteq 0..(w.pos - 1)
      BY <1>1, <2>1, <2>4, <2>7, <3>1 DEF Buffer, n
    <3>3. ASSUME NEW i \in 0..(n - 1) PROVE b.pos + i \in w.bits <=> Placed(m, i) \in v
      <4>1. b.pos + i \in Nat /\ b.pos + i \notin b.bits /\ b.pos + i \in b.pos..(b.pos + n - 1) /\ (b.pos + i) - b.pos = i
        BY <1>1, <2>1, <2>7, <3>3 DEF n
      <4>2. CASE off = 7 /\ n = 2
        <5>1. Placed(m, i) = 1 - i /\ b.pos + i \in b.pos..(b.pos + 1)
          BY <1>1, <4>1, <4>2 DEF Placed, n, off
        <5> QED
          BY <2>4, <4>1, <4>2, <5>1
      <4>3. CASE ~(off = 7 /\ n = 2)
        <5>1. Placed(m, i) = i
          BY <1>1, <4>3 DEF Placed, n, off
        <5>2. off # 7 \/ n \notin {2, 4}
          BY <3>1, <4>3
        <5> QED
          BY <2>4, <4>1, <5>1, <5>2
      <4> QED
        BY <4>2, <4>3
    <3>4. Stands(w.bits, m)
      BY <1>1, <2>1, <3>3 DEF Stands, n
    <3> QED
      BY <3>2, <3>4
  <2> QED
    BY <1>1, <2>4, <2>5, <2>6, <2>7
<1>3. CASE f.kind \in DOMAIN Wide
  <2> DEFINE o == Wide[f.kind].writes[Aligned(b.pos)]
             k == Length(f.kind)
  <2>1. f.kind \notin DOMAIN Narrow /\ f.kind \notin Buffers /\ f.kind # "prefixed" /\ f.kind \notin {"fixed", "preparsed"}
    BY <1>3, KindsApart
  <2>2. w = WriteWide(b, f.kind, v)
    BY <1>3 DEF Written
  <2>3. /\ w \in Buffer /\ w.pos = b.pos + 8 * k
        /\ \A i \in Nat : i < b.pos \/ i >= b.pos + 8 * Len(o) => (i \in w.bits <=> i \in b.bits)
        /\ b.bits \subseteq 0..(b.pos - 1) =>
             \A j \in DOMAIN o : \A r \in 0..7 : b.pos + 8 * (j - 1) + r \in w.bits <=> 8 * o[j] + r \in v
    <3>1. WideGoes(b, f.kind, v, w, o)
      BY <1>1, <1>3, <2>2, WideWritten, Zenon
    <3> QED
      BY <3>1 DEF WideGoes
  <2>4. /\ k \in {2, 3, 4, 8} /\ Len(o) \in 1..8 /\ Len(o) <= k + 1
        /\ f.kind \notin Cut => Len(o) = k
    BY <1>3, WideOrders DEF WellOrdered, Widths, Aligned, OrderOfBytes
  <2> HIDE DEF o, k
  <2>5. w.bits \subseteq 0..(w.pos + 7)
    BY <1>1, <2>3, <2>4 DEF Buffer
  <2>6. w.pos = b.pos + Advance(f)
    BY <1>3, <2>3, AdvanceIs DEF k
  <2>7. ASSUME Kept(m), b.bits \subseteq 0..(b.pos - 1)
        PROVE  w.bits \subseteq 0..(w.pos - 1) /\ Stands(w.bits, m)
    <3>1. Len(o) = k
      BY <1>1, <2>4, <2>7 DEF Kept
    <3>2. w.bits \subseteq 0..(w.pos - 1)
      BY <1>1, <2>3, <2>4, <2>7, <3>1 DEF Buffer
    <3>3. Stands(w.bits, m)
      BY <1>1, <2>1, <2>3, <2>7 DEF Stands, o
    <3> QED
      BY <3>2, <3>3
  <2>8. w.pos >= b.pos
    BY <1>1, <2>3, <2>4
  <2>9. \A i \in Nat : i < b.pos => (i \in w.bits <=> i \in b.bits)
    BY <2>3
  <2> QED
    BY <2>3, <2>5, <2>6, <2>7, <2>8, <2>9
<1>4. CASE f.kind \in Buffers
  <2>1. f.kind \notin DOMAIN Narrow /\ f.kind \notin DOMAIN Wide
    BY <1>4, KindsApart
  <2>2. w = WriteBuffer(b, f.kind, v)
    BY <1>4, <2>1 DEF Written
  <2>3. CASE f.kind = "prefixed"
    <3> DEFINE c == OrBits(b, 8, {0})
    <3>1. WriteParts(b, Uint8, {0}) = c
      BY EightBits
    <3>2. /\ c \in Buffer /\ c.pos = b.pos + 8
          /\ \A i \in Nat : i \in c.bits <=> i \in b.bits \/ (i \in b.pos..(b.pos + 8 - 1) /\ i - b.pos \in {0})
      BY OrBitsIs
    <3>3. w = PutBits(c, 8, v)
      BY <2>2, <2>3, <3>1 DEF WriteBuffer
    <3> HIDE DEF c
    <3>4. /\ w \in Buffer /\ w.pos = c.pos + 8
          /\ \A i \in Nat : i \in w.bits <=> IF i \in c.pos..(c.pos + 8 - 1) THEN i - c.pos \in v ELSE i \in c.bits
      BY <1>1, <3>2, <3>3, PutBitsIs
    <3>5. w.pos = b.pos + 16 /\ w.pos = b.pos + Advance(f)
      BY <1>1, <2>3, <3>2, <3>4, AdvanceIs
    <3>6. w.bits \subseteq 0..(w.pos + 7) /\ \A i \in Nat : i < b.pos => (i \in w.bits <=> i \in b.bits)
      BY <1>1, <3>2, <3>4, <3>5 DEF Buffer
    <3>7. ASSUME b.bits \subseteq 0..(b.pos - 1)
          PROVE  w.bits \subseteq 0..(w.pos - 1) /\ Stands(w.bits, m)
      <4>1. w.bits \subseteq 0..(w.pos - 1)
        BY <1>1, <3>2, <3>4, <3>5, <3>7 DEF Buffer
      <4>2. ASSUME NEW r \in 0..7
            PROVE  (b.pos + r \in w.bits <=> r = 0) /\ (b.pos + 8 + r \in w.bits <=> r \in v)
        <5>1. /\ b.pos + r \in Nat /\ b.pos + r \notin c.pos..(c.pos + 8 - 1) /\ b.pos + r \notin b.bits
              /\ b.pos + r \in b.pos..(b.pos + 8 - 1) /\ (b.pos + r) - b.pos = r
          BY <1>1, <3>2, <3>7
        <5>2. b.pos + 8 + r \in Nat /\ b.pos + 8 + r \in c.pos..(c.pos + 8 - 1) /\ (b.pos + 8 + r) - c.pos = r
          BY <1>1, <3>2
        <5> QED
          BY <5>1, <5>2, <3>2, <3>4
      <4>3. Stands(w.bits, m)
        BY <1>1, <2>1, <4>2 DEF Stands
      <4> QED
        BY <4>1, <4>3
    <3> QED
      BY <1>1, <3>4, <3>5, <3>6, <3>7
  <2>4. CASE f.kind # "prefixed"
    <3> DEFINE c == PutBits(b, 8, v)
    <3>1. /\ c \in Buffer /\ c.pos = b.pos + 8
          /\ \A i \in Nat : i \in c.bits <=> IF i \in b.pos..(b.pos + 8 - 1) THEN i - b.pos \in v ELSE i \in b.bits
      BY <1>1, PutBitsIs
    <3>2. w = [c EXCEPT !.pos = b.pos]
      BY <2>2, <2>4 DEF WriteBuffer
    <3> HIDE DEF c
    <3>3. w \in Buffer /\ w.pos = b.pos /\ w.bits = c.bits
      BY <1>1, <3>1, <3>2 DEF Buffer
    <3>4. w.bits \subseteq 0..(w.pos + 7) /\ \A i \in Nat : i < b.pos => (i \in w.bits <=> i \in b.bits)
      BY <1>1, <3>1, <3>3 DEF Buffer
    <3>5. Misaligns(m)
      BY <1>1, <1>4, <2>4, KindsApart DEF Misaligns
    <3> QED
      BY <1>1, <3>3, <3>4, <3>5 DEF Kept
  <2> QED
    BY <2>3, <2>4
<1> QED
  BY <1>2, <1>3, <1>4 DEF FieldType, FieldKinds

\* A field stands as long as nothing before its end changes.
LEMMA StandsStays ==
  ASSUME NEW m \in WrittenField, Fitted(m), Kept(m), NEW bits, NEW after, NEW n \in Nat,
         m.pos + Advance(m.field) <= n, \A i \in Nat : i < n => (i \in after <=> i \in bits), Stands(bits, m)
  PROVE  Stands(after, m)
<1>1. m.field \in FieldType /\ m.pos \in Nat /\ Takes(m.field, m.value)
  BY DEF WrittenField, Fitted
<1>2. ASSUME m.field.kind \in DOMAIN Narrow, NEW i \in 0..(m.field.width - 1)
      PROVE  m.pos + i \in after <=> Placed(m, i) \in m.value
  <2>1. m.field.width \in 1..8 /\ Advance(m.field) = m.field.width
    BY <1>1, <1>2, NarrowTakes, AdvanceIs
  <2>2. m.pos + i \in Nat /\ m.pos + i < n
    BY <1>1, <2>1
  <2>3. m.pos + i \in bits <=> Placed(m, i) \in m.value
    BY <1>2 DEF Stands
  <2> QED
    BY <2>2, <2>3
<1>3. ASSUME m.field.kind \in DOMAIN Wide, NEW o, o = Wide[m.field.kind].writes[Aligned(m.pos)],
             NEW j \in DOMAIN o, NEW r \in 0..7
      PROVE  m.pos + 8 * (j - 1) + r \in after <=> 8 * o[j] + r \in m.value
  <2>1. /\ Len(o) = Length(m.field.kind) /\ OrderOfBytes(o)
        /\ Advance(m.field) = 8 * Length(m.field.kind)
    BY <1>1, <1>3, AdvanceIs, WideOrders DEF WellOrdered, Aligned, Kept
  <2>2. DOMAIN o = 1..Len(o) /\ Len(o) \in 1..8
    BY <2>1 DEF OrderOfBytes
  <2>3. m.pos + 8 * (j - 1) + r \in Nat /\ m.pos + 8 * (j - 1) + r < n
    BY <1>1, <2>1, <2>2
  <2>4. m.pos + 8 * (j - 1) + r \in bits <=> 8 * o[j] + r \in m.value
    BY <1>3 DEF Stands
  <2> QED
    BY <2>3, <2>4
<1>4. ASSUME m.field.kind = "prefixed", NEW r \in 0..7
      PROVE  (m.pos + r \in after <=> r = 0) /\ (m.pos + 8 + r \in after <=> r \in m.value)
  <2>1. m.pos + r \in Nat /\ m.pos + r < n /\ m.pos + 8 + r \in Nat /\ m.pos + 8 + r < n
    BY <1>1, <1>4, AdvanceIs
  <2>2. (m.pos + r \in bits <=> r = 0) /\ (m.pos + 8 + r \in bits <=> r \in m.value)
    BY <1>4 DEF Stands
  <2> QED
    BY <2>1, <2>2
<1> QED
  BY <1>2, <1>3, <1>4 DEF Stands

\* A value that is read has 64 bits at most.
LEMMA HeardType ==
  ASSUME NEW f \in FieldType, NEW v, Takes(f, v), NEW bits, NEW pos \in Nat, base \in {0, 8}
  PROVE  Heard(bits, pos, f) \in SUBSET (0..63)
<1>1. CASE f.kind \in DOMAIN Wide
  <2>1. Heard(bits, pos, f) = ReadWide(bits, pos, f.kind)
    BY <1>1, KindsApart DEF Heard
  <2>2. PICK raw \in SUBSET (0..63) : ReadWide(bits, pos, f.kind) = SignExtended(f.kind, raw)
    <3>1. \E raw \in SUBSET (0..63) : WideReads(bits, pos, f.kind, raw)
      BY <1>1, WideRead
    <3> QED
      BY <3>1 DEF WideReads
  <2> QED
    BY <2>1, <2>2 DEF SignExtended
<1>2. CASE f.kind \in DOMAIN Narrow
  <2>1. f.width \in 1..8 /\ f.kind \notin DOMAIN Wide
    BY <1>2, NarrowTakes, KindsApart
  <2>2. ReadParts(bits, pos, Narrow[f.kind][f.width]) \subseteq 0..7
    <3>1. ReadParts(bits, pos, Narrow[f.kind][f.width]) = BitsAt(bits, pos, f.width)
      BY <1>2, <2>1, NarrowRead
    <3> QED
      BY <2>1, <3>1 DEF BitsAt
  <2>3. CASE f.kind = "uint"
    <3>1. Heard(bits, pos, f) = ReadParts(bits, pos, Narrow[f.kind][f.width])
      BY <2>1, <2>3 DEF Heard
    <3> QED
      BY <2>2, <3>1
  <2>4. CASE f.kind = "int"
    <3>1. Heard(bits, pos, f) = ReadInt(bits, pos, f)
      BY <2>1, <2>4 DEF Heard
    <3> QED
      BY <2>2, <2>4, <3>1 DEF ReadInt
  <2> QED
    BY <1>2, <2>3, <2>4, KindsApart
<1>3. CASE f.kind \in Buffers
  <2>1. f.kind \notin DOMAIN Wide /\ f.kind # "uint" /\ f.kind # "int"
    BY <1>3, KindsApart
  <2>2. Heard(bits, pos, f) \in {ReadParts(bits, pos, Uint8), ReadParts(bits, pos + 8, Uint8)}
    BY <1>3, <2>1 DEF Heard, Buffers
  <2>3. ReadParts(bits, pos, Uint8) \subseteq 0..7 /\ ReadParts(bits, pos + 8, Uint8) \subseteq 0..7
    BY EightBitsRead
  <2> QED
    BY <2>2, <2>3
<1> QED
  BY <1>1, <1>2, <1>3 DEF FieldType, FieldKinds

\* read() of a field that stands in the buffer gives what was written, but for the
\* fields that Lost names.
LEMMA ReadAsWritten ==
  ASSUME NEW m \in WrittenField, Fitted(m), Kept(m), ~Lost(m), NEW bits, Stands(bits, m), base \in {0, 8}
  PROVE  Heard(bits, m.pos, m.field) = m.value
<1> DEFINE f == m.field
           v == m.value
           pos == m.pos
<1>1. f \in FieldType /\ v \in SUBSET (0..63) /\ pos \in Nat /\ Takes(f, v)
  BY DEF WrittenField, Fitted
<1>2. CASE f.kind \in DOMAIN Narrow
  <2> DEFINE n == f.width
             off == subByteOffset(pos)
             raw == ReadParts(bits, pos, Narrow[f.kind][n])
  <2>1. n \in 1..8 /\ f.kind \notin DOMAIN Wide /\ IF f.kind = "uint" THEN Unsigned(v, n) ELSE WithSign(v, n)
    BY <1>1, <1>2, NarrowTakes, KindsApart
  <2>2. raw = {i \in 0..(n - 1) : pos + i \in bits}
    <3>1. raw = BitsAt(bits, pos, n)
      BY <1>1, <1>2, <2>1, NarrowRead
    <3> QED
      BY <3>1 DEF BitsAt
  <2> HIDE DEF raw
  <2>3. \A i \in 0..(n - 1) : pos + i \in bits <=> Placed(m, i) \in v
    BY <1>2 DEF Stands
  <2>4. raw = v \intersect 0..(n - 1)
    <3>1. CASE n = 2 /\ off = 7
      <4>1. Cardinality(Low(v, 2)) # 1
        BY <1>2, <3>1 DEF Lost
      <4>2. Low(v, 2) = v \intersect {0, 1}
        BY DEF Low
      <4>3. 0 \in v <=> 1 \in v
        <5>1. CASE 0 \in v /\ 1 \notin v
          <6>1. Low(v, 2) = {0}
            BY <4>2, <5>1
          <6> QED
            BY <4>1, <6>1, FS_Singleton
        <5>2. CASE 0 \notin v /\ 1 \in v
          <6>1. Low(v, 2) = {1}
            BY <4>2, <5>2
          <6> QED
            BY <4>1, <6>1, FS_Singleton
        <5> QED
          BY <5>1, <5>2
      <4>4. \A i \in 0..(n - 1) : i \in {0, 1} /\ Placed(m, i) = 1 - i
        BY <3>1 DEF Placed
      <4>5. \A i \in 0..(n - 1) : Placed(m, i) \in v <=> i \in v
        BY <4>3, <4>4
      <4> QED
        BY <2>2, <2>3, <4>5
    <3>2. CASE ~(n = 2 /\ off = 7)
      <4>1. \A i : Placed(m, i) = i
        BY <3>2 DEF Placed
      <4> QED
        BY <2>2, <2>3, <4>1
    <3> QED
      BY <3>1, <3>2
  <2>5. CASE f.kind = "uint"
    <3>1. Heard(bits, pos, f) = raw
      BY <2>1, <2>5 DEF Heard, raw
    <3>2. v \subseteq 0..(n - 1)
      BY <2>1, <2>5 DEF Unsigned
    <3> QED
      BY <2>4, <3>1, <3>2
  <2>6. CASE f.kind = "int"
    <3>1. Heard(bits, pos, f) = IF n = 8 /\ Aligned(pos) /\ 7 \in raw THEN raw \union 8..31 ELSE raw
      BY <2>1, <2>6 DEF Heard, ReadInt, raw
    <3>2. v \subseteq 0..31 /\ (v \subseteq 0..(n - 2) \/ (n - 1)..31 \subseteq v)
      BY <2>1, <2>6 DEF WithSign
    <3>3. 31 \in v => n = 8 /\ Aligned(pos)
      BY <2>6 DEF Lost, Negative
    <3>4. CASE 31 \in v
      <4>1. n = 8 /\ Aligned(pos)
        BY <3>3, <3>4
      <4>2. 7..31 \subseteq v
        BY <3>2, <3>4, <4>1
      <4>3. 7 \in raw
        BY <2>4, <4>1, <4>2
      <4>4. v = (v \intersect 0..7) \union 8..31
        BY <3>2, <4>2
      <4> QED
        BY <2>4, <3>1, <4>1, <4>3, <4>4
    <3>5. CASE 31 \notin v
      <4>1. v \subseteq 0..(n - 2)
        BY <2>1, <3>2, <3>5
      <4>2. raw = v
        BY <2>1, <2>4, <4>1
      <4>3. n = 8 => 7 \notin raw
        BY <4>1, <4>2
      <4> QED
        BY <3>1, <4>2, <4>3
    <3> QED
      BY <3>4, <3>5
  <2> QED
    BY <1>2, <2>5, <2>6, KindsApart
<1>3. CASE f.kind \in DOMAIN Wide
  <2> DEFINE o == Wide[f.kind].reads[Aligned(pos)]
             k == Length(f.kind)
  <2>1. f.kind \notin Cut /\ (f.kind \in Swapped => Aligned(pos)) /\ ~(f.kind \in Big /\ Aligned(pos) /\ base # 0)
    BY DEF Kept, Lost
  <2>2. /\ Wide[f.kind].writes[Aligned(pos)] = o /\ Permuted(o, k) /\ k \in {2, 3, 4, 8} /\ k = Widths(f.kind)
    BY <1>3, <2>1, WideOrders DEF WellOrdered, Widths, Aligned
  <2>3. Shift(f.kind, pos) = 0
    BY <2>1 DEF Shift
  <2>4. Heard(bits, pos, f) = ReadWide(bits, pos, f.kind)
    BY <1>3, KindsApart DEF Heard
  <2>5. PICK raw \in SUBSET (0..63) :
           /\ ReadWide(bits, pos, f.kind) = SignExtended(f.kind, raw)
           /\ \A x \in 0..63 : x \in raw <=>
                \E j \in DOMAIN o : \E r \in 0..7 : x = 8 * o[j] + r /\ pos + Shift(f.kind, pos) + 8 * (j - 1) + r \in bits
    <3>1. \E raw \in SUBSET (0..63) : WideReads(bits, pos, f.kind, raw)
      BY <1>1, <1>3, WideRead
    <3> QED
      BY <3>1 DEF WideReads
  <2>6. \A j \in DOMAIN o : \A r \in 0..7 : pos + 8 * (j - 1) + r \in bits <=> 8 * o[j] + r \in v
    BY <1>3, <2>2 DEF Stands
  <2> HIDE DEF o, k
  <2>7. DOMAIN o = 1..k /\ (\A j \in DOMAIN o : o[j] \in 0..(k - 1)) /\ \A q \in 0..(k - 1) : \E j \in 1..k : o[j] = q
    <3>1. o \in Seq(0..(k - 1)) /\ Len(o) = k /\ \A q \in 0..(k - 1) : \E j \in 1..k : o[j] = q
      BY <2>2 DEF Permuted
    <3>2. DOMAIN o = 1..k
      BY <3>1
    <3>3. ASSUME NEW j \in DOMAIN o PROVE o[j] \in 0..(k - 1)
      BY <3>1, <3>3, ElementOfSeq
    <3> QED
      BY <3>1, <3>2, <3>3
  <2>8. \A x \in 0..63 : x \in raw <=> x \in v /\ x \in 0..(8 * k - 1)
    <3>1. ASSUME NEW x \in raw PROVE x \in v /\ x \in 0..(8 * k - 1)
      <4>1. PICK j \in DOMAIN o, r \in 0..7 : x = 8 * o[j] + r /\ pos + Shift(f.kind, pos) + 8 * (j - 1) + r \in bits
        BY <2>5
      <4>2. pos + Shift(f.kind, pos) + 8 * (j - 1) + r = pos + 8 * (j - 1) + r
        BY <1>1, <2>2, <2>3, <2>7
      <4>3. 8 * o[j] + r \in v
        BY <2>6, <4>1, <4>2
      <4>4. 8 * o[j] + r \in 0..(8 * k - 1)
        <5>1. o[j] \in 0..(k - 1) /\ k \in {2, 3, 4, 8} /\ r \in 0..7
          BY <2>2, <2>7
        <5> QED
          BY <5>1
      <4> QED
        BY <4>1, <4>3, <4>4
    <3>2. ASSUME NEW x \in v, x \in 0..(8 * k - 1) PROVE x \in raw
      <4>1. PICK q \in 0..(k - 1), r \in 0..7 : x = 8 * q + r
        <5>1. x \div 8 \in 0..(k - 1) /\ x % 8 \in 0..7 /\ x = 8 * (x \div 8) + (x % 8)
          BY <2>2, <3>2
        <5> QED
          BY <5>1
      <4>2. PICK j \in 1..k : o[j] = q
        BY <2>7
      <4>3. x = 8 * o[j] + r /\ pos + 8 * (j - 1) + r \in bits
        BY <2>6, <2>7, <4>1, <4>2
      <4>4. pos + Shift(f.kind, pos) + 8 * (j - 1) + r = pos + 8 * (j - 1) + r
        BY <1>1, <2>2, <2>3
      <4> QED
        BY <1>1, <2>5, <2>7, <4>3, <4>4
    <3> QED
      BY <3>1, <3>2
  <2>9. raw = v \intersect 0..(8 * k - 1)
    BY <1>1, <2>8
  <2>10. SignExtended(f.kind, raw) = v
    <3>1. IF f.kind \in {"int16", "int16LE"} THEN WithSign(v, 16)
          ELSE IF f.kind \in {"int24", "int24LE"} THEN WithSign(v, 24) ELSE Unsigned(v, 8 * k)
      BY <1>1, <1>3, WideTakes DEF k
    <3>2. CASE f.kind \in {"int16", "int16LE"}
      <4>1. v \subseteq 0..31 /\ (v \subseteq 0..14 \/ 15..31 \subseteq v) /\ k = 2
        BY <2>2, <3>1, <3>2 DEF WithSign, Widths
      <4>2. raw = v \intersect 0..15
        BY <2>9, <4>1
      <4>3. CASE 15 \in v
        <5>1. 15 \in raw /\ v = (v \intersect 0..15) \union 16..31
          BY <4>1, <4>2, <4>3
        <5> QED
          BY <3>2, <4>2, <5>1 DEF SignExtended
      <4>4. CASE 15 \notin v
        <5>1. raw = v /\ 15 \notin raw
          BY <4>1, <4>2, <4>4
        <5> QED
          BY <5>1 DEF SignExtended
      <4> QED
        BY <4>3, <4>4
    <3>3. CASE f.kind \in {"int24", "int24LE"}
      <4>1. f.kind = "int24LE" /\ k = 3
        BY <2>1, <2>2, <3>3 DEF Cut, Widths
      <4>2. 31 \notin v
        BY <4>1 DEF Lost, Negative
      <4>3. v \subseteq 0..22
        BY <3>1, <3>3, <4>2 DEF WithSign
      <4>4. raw = v
        BY <2>9, <4>1, <4>3
      <4> QED
        BY <4>1, <4>4 DEF SignExtended
    <3>4. CASE f.kind \notin {"int16", "int16LE", "int24", "int24LE"}
      <4>1. v \subseteq 0..(8 * k - 1)
        BY <3>1, <3>4 DEF Unsigned
      <4>2. raw = v
        BY <2>9, <4>1
      <4> QED
        BY <3>4, <4>2 DEF SignExtended
    <3> QED
      BY <3>2, <3>3, <3>4
  <2> QED
    BY <2>4, <2>5, <2>10
<1>4. CASE f.kind \in Buffers
  <2>1. f.kind = "prefixed" /\ f.kind \notin DOMAIN Wide
    BY <1>4, KindsApart DEF Kept, Misaligns
  <2>2. Heard(bits, pos, f) = ReadParts(bits, pos + 8, Uint8)
    BY <2>1 DEF Heard
  <2>3. ReadParts(bits, pos + 8, Uint8) = {r \in 0..7 : (pos + 8) + r \in bits}
    BY <1>1, EightBitsRead
  <2>4. \A r \in 0..7 : pos + 8 + r \in bits <=> r \in v
    BY <2>1 DEF Stands
  <2>5. v \subseteq 0..7
    BY <1>1, <1>4, BufferTakes DEF Unsigned
  <2> QED
    BY <2>2, <2>3, <2>4, <2>5
<1> QED
  BY <1>1, <1>2, <1>3, <1>4 DEF FieldType, FieldKinds

\* The buffer has the bytes that the reader of such a field goes into.
LEMMA ReachesNoFurther ==
  ASSUME NEW m \in WrittenField, Fitted(m), Kept(m), ~Lost(m), NEW bits, Stands(bits, m), base \in {0, 8},
         NEW n \in Nat, m.pos + Advance(m.field) <= n
  PROVE  ~Refused(bits, m.pos, m.field) /\ Reaches(m.pos, m.field) <= floorOffset(n + 7)
<1> DEFINE f == m.field
           pos == m.pos
           F == floorOffset(pos)
           off == subByteOffset(pos)
           L == floorOffset(n + 7)
<1>1. f \in FieldType /\ pos \in Nat /\ Takes(f, m.value) /\ (f.kind \in Buffers => Aligned(pos))
  BY DEF WrittenField, Fitted
<1>2. /\ F \in Nat /\ off \in 0..7 /\ pos = 8 * F + off
      /\ Aligned(pos) <=> off = 0
  BY <1>1, CursorInByte DEF Aligned
<1>3. L \in Nat /\ n <= 8 * L /\ \A q \in Nat : 8 * q <= n + 7 => q <= L
  <2>1. n + 7 \in Nat
    OBVIOUS
  <2>2. L \in Nat /\ subByteOffset(n + 7) \in 0..7 /\ n + 7 = 8 * L + subByteOffset(n + 7)
    BY <2>1, CursorInByte
  <2> HIDE DEF L
  <2> QED
    BY <2>2
<1> HIDE DEF F, off, L
<1>4. CASE f.kind \in DOMAIN Narrow
  <2> DEFINE k == f.width
  <2>1. k \in 1..8 /\ f.kind \notin DOMAIN Wide /\ f.kind \notin Buffers /\ f.kind \in {"uint", "int"} /\ Advance(f) = k
    BY <1>1, <1>4, NarrowTakes, KindsApart, AdvanceIs
  <2>2. Reaches(pos, f) = F + Len(Split(k)[off])
    <3>1. Reaches(pos, f) = PartsEnd(pos, Narrow[f.kind][k])
      BY <2>1 DEF Reaches
    <3>2. Narrow[f.kind][k].reads = Split(k)
      BY <1>4, <2>1, NarrowParts
    <3> QED
      BY <3>1, <3>2 DEF PartsEnd, F, off
  <2>3. Len(Split(k)[off]) = IF off + k <= 8 THEN 1 ELSE 2
    BY <1>2 DEF Split
  <2>4. CASE off + k <= 8
    <3>1. 8 * (F + 1) <= n + 7
      BY <1>2, <2>1, <2>4
    <3> QED
      BY <1>2, <1>3, <2>1, <2>2, <2>3, <2>4, <3>1 DEF Refused, L
  <2>5. CASE ~(off + k <= 8)
    <3>1. 8 * (F + 2) <= n + 7
      BY <1>2, <2>1, <2>5
    <3> QED
      BY <1>2, <1>3, <2>1, <2>2, <2>3, <2>5, <3>1 DEF Refused, L
  <2> QED
    BY <2>4, <2>5
<1>5. CASE f.kind \in DOMAIN Wide
  <2> DEFINE k == Length(f.kind)
  <2>1. f.kind \notin Cut /\ ~(f.kind \in Big /\ Aligned(pos) /\ base # 0) /\ f.kind \notin Buffers
    BY <1>5, KindsApart DEF Kept, Lost
  <2>2. Len(Wide[f.kind].reads[Aligned(pos)]) = k /\ k \in {2, 3, 4, 8} /\ Advance(f) = 8 * k
    BY <1>1, <1>5, <2>1, WideOrders, AdvanceIs DEF WellOrdered, Widths, Aligned
  <2>3. Shift(f.kind, pos) = 0 /\ pos + 0 = pos
    BY <1>1, <2>1 DEF Shift
  <2>4. Reaches(pos, f) = F + k + IF Aligned(pos) THEN 0 ELSE 1
    <3>1. Reaches(pos, f) = WideEnds(pos, f.kind)
      BY <1>5, KindsApart DEF Reaches
    <3> QED
      BY <2>2, <2>3, <3>1 DEF WideEnds, F
  <2> HIDE DEF k
  <2>5. CASE Aligned(pos)
    <3>1. 8 * (F + k) <= n + 7 /\ F + k \in Nat /\ Reaches(pos, f) = F + k
      BY <1>2, <2>2, <2>4, <2>5
    <3> QED
      BY <1>3, <2>1, <3>1 DEF Refused, L
  <2>6. CASE ~Aligned(pos)
    <3>1. 8 * (F + k + 1) <= n + 7 /\ F + k + 1 \in Nat /\ Reaches(pos, f) = F + k + 1
      BY <1>2, <2>2, <2>4, <2>6
    <3> QED
      BY <1>3, <2>1, <3>1 DEF Refused, L
  <2> QED
    BY <2>5, <2>6
<1>6. CASE f.kind \in Buffers
  <2>1. f.kind = "prefixed" /\ f.kind \notin DOMAIN Wide /\ Advance(f) = 16 /\ Aligned(pos)
    BY <1>1, <1>6, KindsApart, AdvanceIs DEF Kept, Misaligns
  <2>2. ReadParts(bits, pos, Uint8) = {0}
    <3>1. ReadParts(bits, pos, Uint8) = {r \in 0..7 : pos + r \in bits}
      BY <1>1, EightBitsRead
    <3>2. \A r \in 0..7 : pos + r \in bits <=> r = 0
      BY <2>1 DEF Stands
    <3> QED
      BY <3>1, <3>2
  <2>3. Reaches(pos, f) = floorOffset(pos + 16)
    BY <1>6, <2>1 DEF Reaches
  <2>4. floorOffset(pos + 16) \in Nat /\ 8 * floorOffset(pos + 16) <= pos + 16
    <3>1. pos + 16 \in Nat
      BY <1>1
    <3>2. /\ floorOffset(pos + 16) \in Nat /\ subByteOffset(pos + 16) \in 0..7
          /\ pos + 16 = 8 * floorOffset(pos + 16) + subByteOffset(pos + 16)
      BY <3>1, CursorInByte
    <3> QED
      BY <3>2
  <2>5. 8 * floorOffset(pos + 16) <= n + 7
    BY <1>1, <2>1, <2>4
  <2> QED
    BY <1>3, <2>1, <2>2, <2>3, <2>4, <2>5 DEF Refused, L
<1> QED
  BY <1>1, <1>4, <1>5, <1>6 DEF FieldType, FieldKinds

------------------------------------------------------------------------------
LEMMA FieldsStart == FieldsInit => FieldsInv
<1> SUFFICES ASSUME FieldsInit PROVE FieldsInv
  OBVIOUS
<1>1. /\ message = <<>> /\ heard = <<>> /\ out = [bits |-> {}, pos |-> 0]
      /\ whole = FALSE /\ thrown = FALSE /\ base = 0 /\ cursor = 0
  BY DEF FieldsInit
<1>2. DOMAIN message = {} /\ Len(message) = 0 /\ Len(heard) = 0
  BY <1>1
<1>3. FieldsTypes
  <2>1. out \in Buffer /\ out.bits \subseteq 0..(out.pos + 7)
    BY <1>1 DEF Buffer
  <2>2. message \in Seq(WrittenField) /\ heard \in Seq(SUBSET (0..63))
    BY <1>1
  <2>3. \A k \in DOMAIN message : Fitted(message[k])
    BY <1>2
  <2>4. Len(heard) <= Len(message)
    BY <1>2
  <2>5. whole \in BOOLEAN /\ thrown \in BOOLEAN /\ base \in {0, 8} /\ cursor \in Nat /\ ~thrown
    BY <1>1
  <2> QED
    BY <1>1, <2>1, <2>2, <2>3, <2>4, <2>5, Zenon DEF FieldsTypes
<1>4. After(0) = 0
  BY <1>1, <1>2 DEF After
<1>5. WriterSteps /\ ReaderFollows /\ FieldsStand
  BY <1>1, <1>2, <1>4 DEF WriterSteps, ReaderFollows, FieldsStand
<1>6. ReadsBack
  BY <1>1, <1>2 DEF ReadsBack
<1> QED
  BY <1>3, <1>5, <1>6 DEF FieldsInv

LEMMA WriteFieldStep ==
  ASSUME FieldsInv, WriteField
  PROVE  FieldsInv' /\ Low(out'.bits, out.pos) = Low(out.bits, out.pos)
<1>1. PICK choice \in Menu[Len(message) + 1] :
         /\ choice.field.kind \in Buffers => Aligned(out.pos)
         /\ message' = Append(message, [field |-> choice.field, value |-> choice.value, pos |-> out.pos])
         /\ out' = Written(out, choice.field, choice.value)
  BY DEF WriteField
<1> DEFINE f == choice.field
           v == choice.value
           m == [field |-> f, value |-> v, pos |-> out.pos]
           n == Len(message)
<1>2. ~whole /\ n < Len(Menu) /\ UNCHANGED <<whole, base, heard, cursor, thrown>>
  BY DEF WriteField
<1>3. /\ message \in Seq(WrittenField) /\ \A k \in DOMAIN message : Fitted(message[k])
      /\ out \in Buffer /\ out.bits \subseteq 0..(out.pos + 7)
      /\ whole \in BOOLEAN /\ thrown \in BOOLEAN /\ base \in {0, 8} /\ cursor \in Nat
      /\ heard = <<>> /\ ~thrown /\ cursor = 0
  BY <1>2 DEF FieldsInv, FieldsTypes
<1>4. f \in FieldType /\ v \in SUBSET (0..63) /\ Takes(f, v)
  <2>1. n + 1 \in DOMAIN Menu
    BY <1>2, <1>3, FieldsAssumption
  <2>2. choice \in [field : [kind : FieldKinds, width : 0..8], value : SUBSET (0..63)] /\ Takes(choice.field, choice.value)
    BY <1>1, <2>1, FieldsAssumption
  <2> QED
    BY <2>2 DEF FieldType
<1>5. out.pos \in Nat /\ m \in WrittenField /\ m.field = f /\ m.value = v /\ m.pos = out.pos
  BY <1>3, <1>4 DEF Buffer, WrittenField
<1> HIDE DEF m
<1>6. message' = Append(message, m)
  BY <1>1 DEF m
<1>7. /\ message' \in Seq(WrittenField) /\ Len(message') = n + 1 /\ DOMAIN message = 1..n /\ DOMAIN message' = 1..(n + 1)
      /\ message'[n + 1] = m /\ \A k \in 1..n : message'[k] = message[k]
      /\ n \in Nat
  BY <1>3, <1>5, <1>6
<1>8. /\ out' \in Buffer /\ out'.bits \subseteq 0..(out'.pos + 7) /\ out'.pos >= out.pos
      /\ \A i \in Nat : i < out.pos => (i \in out'.bits <=> i \in out.bits)
      /\ ~Misaligns(m) => out'.pos = out.pos + Advance(f)
      /\ Kept(m) /\ out.bits \subseteq 0..(out.pos - 1) => out'.bits \subseteq 0..(out'.pos - 1) /\ Stands(out'.bits, m)
  BY <1>1, <1>3, <1>4, FieldWritten DEF m
<1>9. Fitted(m)
  BY <1>1, <1>4, <1>5 DEF Fitted
<1>10. FieldsTypes'
  <2>1. \A k \in DOMAIN message' : Fitted(message'[k])
    BY <1>3, <1>7, <1>9
  <2>2. heard' \in Seq(SUBSET (0..63)) /\ Len(heard') <= Len(message')
    BY <1>2, <1>3, <1>7
  <2> QED
    BY <1>2, <1>3, <1>7, <1>8, <2>1, <2>2 DEF FieldsTypes
<1>11. out'.pos \in Nat
  BY <1>8 DEF Buffer
<1>12. /\ \A k \in 0..n : After(k)' = After(k)
       /\ After(n) = out.pos
       /\ \A k : k = n + 1 => After(k)' = out'.pos
  <2>1. ASSUME NEW k \in 0..n PROVE After(k)' = After(k)
    <3>1. CASE k < n
      BY <1>7, <3>1 DEF After
    <3>2. CASE k = n
      BY <1>5, <1>7, <3>2 DEF After
    <3>3. k < n \/ k = n
      <4>1. n \in Nat
        BY <1>7
      <4> HIDE DEF n
      <4> QED
        BY <4>1
    <3> QED
      BY <3>1, <3>2, <3>3
  <2> QED
    BY <1>7, <2>1 DEF After
<1>13. /\ After(0) = 0
       /\ \A k \in 1..n : message[k].pos <= out.pos /\ (~Misaligns(message[k]) => After(k) = message[k].pos + Advance(message[k].field))
  BY <1>7 DEF FieldsInv, WriterSteps
<1>14. \A k \in 1..n : message[k] \in WrittenField /\ message[k].pos \in Nat
  <2> TAKE k \in 1..n
  <2>1. message[k] \in WrittenField
    BY <1>3, <1>7
  <2> QED
    BY <2>1 DEF WrittenField
<1>15. WriterSteps'
  <2>1. ASSUME NEW k \in 1..n
        PROVE  /\ message'[k].pos <= out'.pos
               /\ ~Misaligns(message'[k]) => After(k)' = message'[k].pos + Advance(message'[k].field)
    <3>1. message'[k] = message[k] /\ After(k)' = After(k)
      BY <1>7, <1>12
    <3>2. message[k].pos <= out'.pos
      BY <1>5, <1>8, <1>11, <1>13, <1>14
    <3> QED
      BY <1>13, <3>1, <3>2
  <2>2. ASSUME NEW k, k = n + 1
        PROVE  /\ message'[k].pos <= out'.pos
               /\ ~Misaligns(message'[k]) => After(k)' = message'[k].pos + Advance(message'[k].field)
    <3>1. message'[k] = m /\ After(k)' = out'.pos
      BY <1>7, <1>12, <2>2
    <3> QED
      BY <1>5, <1>8, <1>11, <3>1
  <2>3. After(0)' = 0
    BY <1>7, <1>12, <1>13
  <2>4. \A k \in 1..(n + 1) : k \in 1..n \/ k = n + 1
    BY <1>7
  <2>5. DOMAIN message' = 1..(n + 1)
    BY <1>7
  <2>6. ASSUME NEW k \in DOMAIN message'
        PROVE  /\ message'[k].pos <= out'.pos
               /\ ~Misaligns(message'[k]) => After(k)' = message'[k].pos + Advance(message'[k].field)
    <3>1. CASE k \in 1..n
      BY <2>1, <3>1
    <3>2. CASE k = n + 1
      BY <2>2, <3>2
    <3> QED
      BY <2>4, <2>5, <3>1, <3>2
  <2> QED
    BY <2>3, <2>6 DEF WriterSteps
<1>16. ReaderFollows'
  <2>1. Len(heard') = 0 /\ cursor' = 0
    BY <1>2, <1>3
  <2>2. After(0)' = 0
    BY <1>15 DEF WriterSteps
  <2>3. ASSUME NEW k, k = 0 PROVE After(k)' = 0
    BY <2>2, <2>3
  <2> QED
    BY <2>1, <2>3 DEF ReaderFollows
<1>17. FieldsStand'
  <2> SUFFICES ASSUME \A k \in DOMAIN message' : Kept(message'[k])
               PROVE  /\ out'.bits \subseteq 0..(out'.pos - 1)
                      /\ \A k \in DOMAIN message' : Stands(out'.bits, message'[k])
    BY DEF FieldsStand
  <2>1. Kept(m) /\ \A k \in 1..n : Kept(message[k])
    BY <1>7
  <2>2. out.bits \subseteq 0..(out.pos - 1) /\ \A k \in 1..n : Stands(out.bits, message[k])
    BY <1>7, <2>1 DEF FieldsInv, FieldsStand
  <2>3. out'.bits \subseteq 0..(out'.pos - 1) /\ Stands(out'.bits, m)
    BY <1>8, <2>1, <2>2
  <2>4. ASSUME NEW k \in 1..n PROVE Stands(out'.bits, message[k])
    <3>1. message[k].pos + Advance(message[k].field) <= out.pos
      <4>1. After(k) = message[k].pos + Advance(message[k].field)
        BY <1>13, <2>1 DEF Kept
      <4>2. After(k) <= out.pos
        <5>1. CASE k < n
          <6>1. k + 1 \in 1..n /\ After(k) = message[k + 1].pos
            BY <1>7, <5>1 DEF After
          <6> QED
            BY <1>13, <6>1
        <5>2. CASE ~(k < n)
          BY <1>5, <5>2 DEF After
        <5> QED
          BY <5>1, <5>2
      <4> QED
        BY <4>1, <4>2
    <3>2. Fitted(message[k])
      BY <1>3, <1>7
    <3> QED
      BY <1>5, <1>8, <1>14, <2>1, <2>2, <3>1, <3>2, StandsStays
  <2>5. \A k \in 1..(n + 1) : k \in 1..n \/ k = n + 1
    BY <1>7
  <2> QED
    BY <1>7, <2>3, <2>4, <2>5
<1>18. ReadsBack'
  <2>1. ~thrown' /\ heard' = <<>> /\ DOMAIN heard' = {}
    BY <1>2, <1>3
  <2> QED
    BY <2>1 DEF ReadsBack
<1>19. Low(out'.bits, out.pos) = Low(out.bits, out.pos)
  <2>1. out.bits \subseteq Nat /\ out'.bits \subseteq Nat
    BY <1>3, <1>8 DEF Buffer
  <2> QED
    BY <1>5, <1>8, <2>1 DEF Low
<1> QED
  BY <1>10, <1>15, <1>16, <1>17, <1>18, <1>19 DEF FieldsInv

LEMMA FinishWriteStep == ASSUME FieldsInv, FinishWrite PROVE FieldsInv'
<1>1. ~whole /\ whole' = TRUE /\ base' \in {0, 8} /\ UNCHANGED <<message, out, heard, cursor, thrown>>
  BY DEF FinishWrite
<1>2. heard = <<>> /\ ~thrown
  BY <1>1 DEF FieldsInv, FieldsTypes
<1>3. FieldsTypes'
  BY <1>1 DEF FieldsInv, FieldsTypes
<1>4. \A k : After(k)' = After(k)
  BY <1>1 DEF After
<1>5. WriterSteps' /\ ReaderFollows' /\ FieldsStand'
  BY <1>1, <1>4 DEF FieldsInv, WriterSteps, ReaderFollows, FieldsStand
<1>6. ReadsBack'
  <2>1. ~thrown' /\ heard' = <<>> /\ DOMAIN heard' = {}
    BY <1>1, <1>2
  <2> QED
    BY <2>1 DEF ReadsBack
<1> QED
  BY <1>3, <1>5, <1>6 DEF FieldsInv

LEMMA ReadFieldStep == ASSUME FieldsInv, ReadField PROVE FieldsInv'
<1> DEFINE n == Len(heard)
           m == message[n + 1]
           f == m.field
<1>1. whole /\ ~thrown /\ n < Len(message) /\ UNCHANGED <<message, out, whole, base>>
  BY DEF ReadField
<1>2. IF Refused(out.bits, cursor, f) \/ Reaches(cursor, f) > bufferLength
      THEN thrown' = TRUE /\ UNCHANGED <<heard, cursor>>
      ELSE heard' = Append(heard, Heard(out.bits, cursor, f)) /\ cursor' = cursor + Advance(f) /\ UNCHANGED thrown
  BY DEF ReadField
<1>3. /\ message \in Seq(WrittenField) /\ \A k \in DOMAIN message : Fitted(message[k])
      /\ out \in Buffer /\ out.bits \subseteq 0..(out.pos + 7)
      /\ whole \in BOOLEAN /\ thrown \in BOOLEAN /\ base \in {0, 8} /\ cursor \in Nat
      /\ heard \in Seq(SUBSET (0..63)) /\ n <= Len(message)
  BY DEF FieldsInv, FieldsTypes
<1>4. n \in Nat /\ Len(message) \in Nat /\ n + 1 \in DOMAIN message /\ DOMAIN message = 1..Len(message) /\ DOMAIN heard = 1..n
  BY <1>1, <1>3
<1>5. m \in WrittenField /\ f \in FieldType /\ Fitted(m) /\ Takes(f, m.value) /\ m.pos \in Nat
  <2>1. m \in WrittenField /\ Fitted(m)
    BY <1>3, <1>4
  <2> QED
    BY <2>1 DEF WrittenField, Fitted
<1>6. After(n) = m.pos
  BY <1>1 DEF After
<1>7. \A k : After(k)' = After(k)
  BY <1>1 DEF After
<1>8. WriterSteps' /\ FieldsStand'
  BY <1>1, <1>7 DEF FieldsInv, WriterSteps, FieldsStand
<1>9. out.pos \in Nat /\ m.pos <= out.pos /\ (~Misaligns(m) => After(n + 1) = m.pos + Advance(f))
  BY <1>3, <1>4 DEF FieldsInv, WriterSteps, Buffer
<1>10. After(n + 1) <= out.pos
  <2>1. CASE n + 1 < Len(message)
    <3>1. (n + 1) + 1 \in DOMAIN message /\ After(n + 1) = message[(n + 1) + 1].pos
      BY <1>4, <2>1 DEF After
    <3> QED
      BY <3>1 DEF FieldsInv, WriterSteps
  <2>2. CASE ~(n + 1 < Len(message))
    BY <1>9, <2>2 DEF After
  <2> QED
    BY <2>1, <2>2
<1> HIDE DEF n, m
\* As long as every field can be read the reader is at the next one, which stands.
<1>11. ASSUME \A k \in DOMAIN message : Kept(message[k])
       PROVE  /\ cursor = m.pos /\ Kept(m) /\ Stands(out.bits, m)
              /\ ~Lost(m) => /\ ~Refused(out.bits, cursor, f) /\ ~(Reaches(cursor, f) > bufferLength)
                             /\ Heard(out.bits, cursor, f) = m.value
  <2>1. Kept(m) /\ Stands(out.bits, m)
    BY <1>4, <1>11 DEF FieldsInv, FieldsStand, m
  <2>2. cursor = m.pos
    <3>1. \A k \in 1..n : ~Misaligns(message[k])
      BY <1>1, <1>4, <1>11 DEF Kept
    <3> QED
      BY <1>6, <3>1 DEF FieldsInv, ReaderFollows, n
  <2>3. ASSUME ~Lost(m)
        PROVE  ~Refused(out.bits, cursor, f) /\ ~(Reaches(cursor, f) > bufferLength) /\ Heard(out.bits, cursor, f) = m.value
    <3>1. m.pos + Advance(m.field) <= out.pos
      BY <1>9, <1>10, <2>1 DEF Kept
    <3>2. ~Refused(out.bits, m.pos, m.field) /\ Reaches(m.pos, m.field) <= floorOffset(out.pos + 7)
      BY <1>3, <1>5, <1>9, <2>1, <2>3, <3>1, ReachesNoFurther
    <3>3. Reaches(m.pos, m.field) \in Int /\ floorOffset(out.pos + 7) \in Int
      <4>1. Reaches(m.pos, m.field) \in Int
        BY <1>3, <1>5, ReachesType
      <4>2. floorOffset(out.pos + 7) \in Int
        BY <1>9 DEF floorOffset
      <4> QED
        BY <4>1, <4>2
    <3>4. Heard(out.bits, m.pos, m.field) = m.value
      BY <1>3, <1>5, <2>1, <2>3, ReadAsWritten
    <3> QED
      BY <2>2, <3>2, <3>3, <3>4 DEF bufferLength
  <2> QED
    BY <2>1, <2>2, <2>3
<1>12. CASE Refused(out.bits, cursor, f) \/ Reaches(cursor, f) > bufferLength
  <2>1. thrown' = TRUE /\ UNCHANGED <<heard, cursor>>
    BY <1>2, <1>12
  <2>2. FieldsTypes'
    BY <1>1, <2>1 DEF FieldsInv, FieldsTypes
  <2>3. ReaderFollows'
    BY <1>1, <1>7, <2>1 DEF FieldsInv, ReaderFollows
  <2>4. ReadsBack'
    <3> SUFFICES ASSUME \A k \in DOMAIN message : ~Misaligns(message[k]) /\ message[k].field.kind \notin Cut
                 PROVE  /\ n < Len(message) /\ Lost(m)
                        /\ \A k \in DOMAIN heard : ~Lost(message[k]) => heard[k] = message[k].value
      <4>1. Lost(m)' <=> Lost(m)
        BY <1>1, <2>1 DEF Lost, Negative, m, n
      <4>2. \A k : Lost(message[k])' <=> Lost(message[k])
        BY <1>1 DEF Lost, Negative
      <4>3. \A k : Misaligns(message[k])' <=> Misaligns(message[k])
        BY <1>1 DEF Misaligns
      <4> QED
        BY <1>1, <2>1, <4>1, <4>2, <4>3 DEF ReadsBack, m, n
    <3>1. \A k \in DOMAIN message : Kept(message[k])
      BY DEF Kept
    <3>2. Lost(m)
      BY <1>11, <1>12, <3>1
    <3>3. \A k \in DOMAIN heard : ~Lost(message[k]) => heard[k] = message[k].value
      BY DEF FieldsInv, ReadsBack
    <3> QED
      BY <1>1, <3>2, <3>3
  <2> QED
    BY <1>8, <2>2, <2>3, <2>4 DEF FieldsInv
<1>13. CASE ~(Refused(out.bits, cursor, f) \/ Reaches(cursor, f) > bufferLength)
  <2> DEFINE h == Heard(out.bits, cursor, f)
  <2>1. heard' = Append(heard, h) /\ cursor' = cursor + Advance(f) /\ thrown' = thrown
    BY <1>2, <1>13
  <2>2. h \in SUBSET (0..63)
    BY <1>3, <1>5, HeardType
  <2> HIDE DEF h
  <2>3. /\ heard' \in Seq(SUBSET (0..63)) /\ Len(heard') = n + 1 /\ DOMAIN heard' = 1..(n + 1)
        /\ heard'[n + 1] = h /\ \A k \in 1..n : heard'[k] = heard[k]
    BY <1>3, <2>1, <2>2 DEF n
  <2>4. Advance(f) \in Nat
    BY <1>5, AdvanceType
  <2>5. FieldsTypes'
    BY <1>1, <1>3, <1>4, <2>1, <2>3, <2>4 DEF FieldsTypes
  <2>6. ReaderFollows'
    <3>1. ASSUME \A k \in 1..(n + 1) : ~Misaligns(message[k]) PROVE cursor' = After(n + 1)
      <4>1. ~Misaligns(m) /\ \A k \in 1..n : ~Misaligns(message[k])
        BY <1>4, <3>1 DEF m
      <4>2. cursor = After(n)
        BY <4>1 DEF FieldsInv, ReaderFollows, n
      <4> QED
        BY <1>6, <1>9, <2>1, <4>1, <4>2
    <3>2. \A k : Misaligns(message[k])' <=> Misaligns(message[k])
      BY <1>1 DEF Misaligns
    <3>3. After(Len(heard))' = After(n + 1)
      BY <1>7, <2>3
    <3> QED
      BY <2>3, <3>1, <3>2, <3>3 DEF ReaderFollows
  <2>7. ReadsBack'
    <3> SUFFICES ASSUME \A k \in DOMAIN message : ~Misaligns(message[k]) /\ message[k].field.kind \notin Cut,
                        NEW k \in 1..(n + 1), ~Lost(message[k])
                 PROVE  heard'[k] = message[k].value
      <4>1. \A k : Lost(message[k])' <=> Lost(message[k])
        BY <1>1 DEF Lost, Negative
      <4>2. \A k : Misaligns(message[k])' <=> Misaligns(message[k])
        BY <1>1 DEF Misaligns
      <4> QED
        BY <1>1, <2>1, <2>3, <4>1, <4>2 DEF ReadsBack
    <3>1. \A i \in DOMAIN message : Kept(message[i])
      BY DEF Kept
    <3>2. CASE k \in 1..n
      BY <1>4, <2>3, <3>2 DEF FieldsInv, ReadsBack
    <3>3. CASE k = n + 1
      BY <1>11, <2>3, <3>1, <3>3 DEF m, h
    <3> QED
      BY <1>4, <3>2, <3>3
  <2> QED
    BY <1>8, <2>5, <2>6, <2>7 DEF FieldsInv
<1> QED
  BY <1>12, <1>13

LEMMA FieldsStep == FieldsInv /\ [FieldsNext]_fieldVars => FieldsInv'
<1> SUFFICES ASSUME FieldsInv, [FieldsNext]_fieldVars PROVE FieldsInv'
  OBVIOUS
<1>1. CASE UNCHANGED fieldVars
  <2>1. message' = message /\ out' = out /\ whole' = whole /\ base' = base /\ heard' = heard /\ cursor' = cursor /\ thrown' = thrown
    BY <1>1 DEF fieldVars
  <2>2. \A k : After(k)' = After(k)
    BY <2>1 DEF After
  <2>3. ReadsBack'
    BY <2>1 DEF FieldsInv, ReadsBack, Lost, Negative, Misaligns
  <2>4. FieldsTypes'
    BY <2>1 DEF FieldsInv, FieldsTypes
  <2>5. WriterSteps' /\ ReaderFollows' /\ FieldsStand'
    BY <2>1, <2>2 DEF FieldsInv, WriterSteps, ReaderFollows, FieldsStand
  <2> QED
    BY <2>3, <2>4, <2>5 DEF FieldsInv
<1> QED
  BY <1>1, WriteFieldStep, FinishWriteStep, ReadFieldStep DEF FieldsNext

LEMMA FieldsInvIsEnough == FieldsInv => FieldsTypeOK /\ CursorsAgree /\ ReadsBack
<1> SUFFICES ASSUME FieldsInv PROVE FieldsTypeOK /\ CursorsAgree
  BY DEF FieldsInv
<1>1. FieldsTypeOK
  <2>1. FieldsTypes
    BY DEF FieldsInv
  <2>2. out.pos \in Nat
    BY <2>1 DEF FieldsTypes, Buffer
  <2>3. ASSUME NEW k \in DOMAIN heard PROVE heard[k] \subseteq 0..63
    <3>1. heard \in Seq(SUBSET (0..63))
      BY <2>1 DEF FieldsTypes
    <3>2. k \in 1..Len(heard)
      BY <3>1
    <3>3. heard[k] \in SUBSET (0..63)
      BY <3>1, <3>2, ElementOfSeq
    <3> QED
      BY <3>3
  <2> QED
    BY <2>1, <2>2, <2>3 DEF FieldsTypes, FieldsTypeOK
<1>2. CursorsAgree
  BY DEF FieldsInv, ReaderFollows, After, CursorsAgree
<1> QED
  BY <1>1, <1>2

\* What is written is read back, by a reader that stays in step with the writer, and
\* stays written: whatever the schema and the values.
THEOREM FieldsAreReadBack == FieldsSpec => FieldsReadBack
<1>1. FieldsInv /\ [FieldsNext]_fieldVars => [Low(out'.bits, out.pos) = Low(out.bits, out.pos)]_fieldVars
  BY WriteFieldStep DEF FieldsNext, FinishWrite, ReadField, fieldVars
<1> QED
  BY <1>1, FieldsStart, FieldsStep, FieldsInvIsEnough, PTL DEF FieldsSpec, FieldsReadBack, NothingErased
==============================================================================
