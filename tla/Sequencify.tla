------------------------------ MODULE Sequencify ------------------------------
(***************************************************************************)
(* packages/core/src/sequencify.ts: the order in which tasks that depend   *)
(* on one another are run. tasks maps a name to the names it depends on.   *)
(***************************************************************************)
EXTENDS Integers, Sequences, SequencesExt

RECURSIVE Visit(_, _, _, _)

\* A task follows the tasks it depends on, and is put there once. One that does
\* not exist, or that is being visited, is recorded and put there as well.
VisitOne(tasks, acc, nest, name) ==
    LET visited ==
          IF name \notin DOMAIN tasks THEN [acc EXCEPT !.missing = Append(@, name)]
          ELSE IF name \in ToSet(nest)
               THEN [acc EXCEPT !.recursive = Append(@, Append(nest, name))]
          ELSE Visit(tasks, tasks[name], acc, Append(nest, name))
    IN  IF name \in ToSet(acc.results) THEN acc
        ELSE [visited EXCEPT !.results = Append(@, name)]

Visit(tasks, names, acc, nest) ==
    FoldLeft(LAMBDA a, name : VisitOne(tasks, a, nest, name), acc, names)

Sequence(tasks, names) ==
    LET all == Visit(tasks, names, [results |-> <<>>, missing |-> <<>>, recursive |-> <<>>], <<>>)
    IN  IF all.missing = <<>> /\ all.recursive = <<>> THEN all
        ELSE [all EXCEPT !.results = <<>>]

-----------------------------------------------------------------------------
\* The reference: what can be reached in a graph of dependencies.
DependsOn(tasks, a) == IF a \in DOMAIN tasks THEN ToSet(tasks[a]) ELSE {}
RECURSIVE Closure(_, _)
Closure(tasks, names) ==
    LET more == names \cup UNION {DependsOn(tasks, a) : a \in names}
    IN  IF more = names THEN names ELSE Closure(tasks, more)

Missing(tasks, names) == Closure(tasks, names) \ DOMAIN tasks
Circular(tasks, names) ==
    \E a \in Closure(tasks, names) : a \in Closure(tasks, DependsOn(tasks, a))

TopologicalOrder(tasks, names, order) ==
    /\ IsInjective(order)
    /\ ToSet(order) = Closure(tasks, names)
    /\ \A i \in DOMAIN order :
         DependsOn(tasks, order[i]) \subseteq {order[j] : j \in 1..(i - 1)}

\* What sequencify promises of its result for these tasks and names.
RightSequence(tasks, names, result) ==
    /\ ToSet(result.missing) = Missing(tasks, ToSet(names))
    /\ result.recursive # <<>> <=> Circular(tasks, ToSet(names))
    /\ IF result.missing = <<>> /\ result.recursive = <<>>
       THEN TopologicalOrder(tasks, ToSet(names), result.results)
       ELSE result.results = <<>>
=============================================================================
