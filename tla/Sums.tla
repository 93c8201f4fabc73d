-------------------------------- MODULE Sums --------------------------------
(***************************************************************************)
(* The sum of a function of natural numbers over a finite set, written as  *)
(* a count of units: x contributes the f[x] pairs <<x, 1>> .. <<x, f[x]>>. *)
(* Stated so, without recursion, the facts of FiniteSetTheorems about      *)
(* cardinalities are facts about sums.                                     *)
(***************************************************************************)
EXTENDS Integers, FiniteSets

Units(f, S) == UNION {{x} \X (1 .. f[x]) : x \in S}

SumOver(f, S) == Cardinality(Units(f, S))
=============================================================================
