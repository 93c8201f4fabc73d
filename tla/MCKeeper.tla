------------------------------ MODULE MCKeeper ------------------------------
(***************************************************************************)
(* Keeper for TLC: two pools, p1 listed before p2, and at most MaxLate     *)
(* submissions that may still land.                                        *)
(***************************************************************************)
EXTENDS Keeper

CONSTANTS p1, p2, MaxLate

Rated(r1, r2) == <<[pool |-> p1, ray |-> r1], [pool |-> p2, ray |-> r2]>>

(* Clearly better, and better by no more than the threshold.               *)
BothPools == {Rated(3, 1), Rated(2, 3)}

(* One of each for the temporal runs.                                      *)
TwoLists == {Rated(3, 1), Rated(1, 3)}

BoundedNext == Next /\ Cardinality(late') <= MaxLate

BoundedSpec == Init /\ [][BoundedNext]_vars /\ Fairness
=============================================================================
