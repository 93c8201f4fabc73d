------------------------------ MODULE PoolLists ------------------------------
(***************************************************************************)
(* Removal from a pool list (storage.rs), for any number of pools at once. *)
(* SelectSeq says the same by recursion, out of which nothing can be       *)
(* proved here: the k-th pool that stays is stated by its rank instead.    *)
(***************************************************************************)
EXTENDS Integers, Sequences, FiniteSets

(* How many of the positions in `kept` are at most i.                      *)
Rank(kept, i) == Cardinality(kept \cap (1 .. i))

(* The pools left in `list` once `gone` have been removed, in their order. *)
Without(list, gone) ==
  LET kept == {i \in DOMAIN list : list[i] \notin gone}
  IN [k \in 1 .. Cardinality(kept) |-> list[CHOOSE i \in kept : Rank(kept, i) = k]]
=============================================================================
