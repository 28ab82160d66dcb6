-------------------------------- MODULE Filter --------------------------------
(* Array.prototype.filter, as a function of what it keeps: SelectSeq takes an  *)
(* operator, of which nothing can be proved.                                   *)
EXTENDS Naturals, Sequences, FiniteSets

\* What a sequence holds of a set, in its order: at each place, what that many
\* of the places kept lead to.
Filtered(s, S) ==
  LET kept == {i \in DOMAIN s : s[i] \in S}
      Kept(k) == CHOOSE i \in kept : Cardinality({j \in kept : j <= i}) = k
  IN  [k \in 1..Cardinality(kept) |-> s[Kept(k)]]
===============================================================================
