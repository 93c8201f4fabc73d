------------------------------ MODULE BucketNav ------------------------------
(***************************************************************************)
(* What one currency bucket of the vault promises its depositors, with the *)
(* pools, the idle balance and the depositors abstracted away: a number of *)
(* shares outstanding and the net asset value behind them. Money enters    *)
(* with a deposit or as interest and leaves only against burned shares;    *)
(* nothing an operator does appears here at all.                           *)
(***************************************************************************)
EXTENDS ShareMath

CONSTANTS
  Amounts,          (* Amounts that are deposited or accrue in one step.    *)
  MinFirstDeposit   (* Config.min_first_deposit.                            *)

ASSUME BucketAssumption == Amounts \subseteq Nat /\ MinFirstDeposit \in Nat

VARIABLES
  totalShares,      (* TotalShares(currency).                               *)
  nav               (* nav::nav(currency).                                  *)

bucketVars == <<totalShares, nav>>

BucketTypeOK == totalShares \in Nat /\ nav \in Nat

Init == totalShares = 0 /\ nav = 0

Deposit(amount) ==
  LET minted == MintShares(amount, totalShares, nav)
  IN /\ totalShares = 0 => amount >= MinFirstDeposit
     /\ minted > 0
     /\ totalShares' = totalShares + minted
     /\ nav' = nav + amount

Withdraw(burned) ==
  /\ totalShares' = totalShares - burned
  /\ nav' = nav - RedeemAssets(burned, totalShares, nav)

Accrue(interest) ==
  /\ nav' = nav + interest
  /\ UNCHANGED totalShares

Next ==
  \/ \E amount \in Amounts : Deposit(amount)
  \/ \E burned \in 1 .. totalShares : Withdraw(burned)
  \/ \E interest \in Amounts : Accrue(interest)

Spec == Init /\ [][Next]_bucketVars

(***************************************************************************)
(* Every share is backed by at least one unit of its currency, so the      *)
(* redemption of all shares never asks for more than the NAV.              *)
(***************************************************************************)
SharesAreBacked == totalShares <= nav

(***************************************************************************)
(* The price of a share, (nav + V) / (totalShares + V), never falls: no     *)
(* deposit, withdrawal or interest of anybody takes value from a share     *)
(* that somebody else holds. Compared by cross multiplication.             *)
(***************************************************************************)
PriceNeverFalls ==
  [][(nav' + VirtualOffset) * (totalShares + VirtualOffset)
       >= (nav + VirtualOffset) * (totalShares' + VirtualOffset)]_bucketVars
=============================================================================
