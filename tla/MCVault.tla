------------------------------- MODULE MCVault -------------------------------
(***************************************************************************)
(* Bounded instances of Vault for TLC. The contract's counters grow        *)
(* without end; a step is explored only if it stays within these bounds.   *)
(***************************************************************************)
EXTENDS Vault

CONSTANTS
  Currency1, Currency2,  (* The currencies a configuration may use.         *)
  MaxNav,                (* Money in the whole system, interest included.   *)
  MaxSurplus,            (* Tokens at a pool beyond what it owes.           *)
  MaxDonated,            (* Tokens at the vault beyond its books.           *)
  Vetted,                (* Pools vetted before the first step and for good.*)
  Pausable,              (* Whether the admin pauses the vault.             *)
  Signed,                (* Depositors who consented before the first step. *)
  MaxExits               (* Exit proposals ever made.                       *)

(* Without is SelectSeq, on every list of up to three pools.               *)
ASSUME WithoutIsSelectSeq ==
  \A n \in 0 .. 3 : \A list \in [1 .. n -> Pools] : \A gone \in SUBSET Pools :
    Without(list, gone) = SelectSeq(list, LAMBDA p : p \notin gone)

OneCurrencyRoutes == Pools \X {Currency1}

(* One pool apart, every pool serves the first currency.                   *)
OnePoolApartRoutes ==
  LET toSecond == CHOOSE p \in Pools : TRUE
  IN {<<toSecond, Currency2>>} \cup ((Pools \ {toSecond}) \X {Currency1})

WithinBounds ==
  /\ Vetted \subseteq allowed
  /\ paused => Pausable
  /\ exitCounter <= MaxExits
  /\ SumOver(idle, Currencies) + SumOver(position, Pools) <= MaxNav
  /\ \A c \in Currencies : vaultCash[c] <= idle[c] + MaxDonated
  /\ \A p \in Pools : poolCash[p] <= position[p] + MaxSurplus

(* A run starts after deployment, with the calls made that vet pools and   *)
(* record consents; with Vetted = Signed = {} this is Init.                *)
BoundedInit == StartedWith(Vetted, Signed)

BoundedNext == Next /\ WithinBounds'

BoundedSpec == BoundedInit /\ [][BoundedNext]_vars

Interchangeable == Permutations(Depositors) \cup Permutations(Pools)
=============================================================================
