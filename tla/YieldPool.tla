------------------------------ MODULE YieldPool ------------------------------
(***************************************************************************)
(* The yield pool contract (contracts/yield_pool): one index, advanced     *)
(* only when somebody calls, by which the positions of all suppliers are   *)
(* valued, and an admin who changes the rate.                              *)
(*                                                                         *)
(* The tokens are pushed to the pool's address in advance; supply books    *)
(* them and does not look. The constructor is Init; the checked products   *)
(* and sums are those of integers without a width.                         *)
(***************************************************************************)
EXTENDS Integers

CONSTANTS
  Suppliers, Amounts,
  Durations,        (* By how many seconds ledgers may lie apart.           *)
  MAX_RATE_BPS,
  BPS_YEAR

VARIABLES
  now,              (* env.ledger().timestamp().                            *)
  rate_bps, index, last_ts, total_principal,
  positions,        (* Per supplier: [principal, entry_index].              *)
  cash              (* Tokens at the pool's address.                        *)

vars == <<now, rate_bps, index, last_ts, total_principal, positions, cash>>

(* What none is read as.                                                   *)
NoPosition == [principal |-> 0, entry_index |-> 0]

Init ==
  /\ now \in Nat /\ last_ts = now
  /\ rate_bps \in 0 .. MAX_RATE_BPS
  /\ index = 0 /\ total_principal = 0
  /\ positions = [s \in Suppliers |-> NoPosition] /\ cash = 0

-----------------------------------------------------------------------------
(* accrual.rs *)
advance_index(i, rate, elapsed) == i + rate * elapsed

(* Multiplied before it is divided.                                        *)
value_at(principal, entry_index, i) ==
  principal + (principal * (i - entry_index)) \div BPS_YEAR

current_index == advance_index(index, rate_bps, now - last_ts)

value_of(s, i) == value_at(positions[s].principal, positions[s].entry_index, i)

balance(s) == value_of(s, current_index)

(* roll_index: without time passed this is no change.                      *)
roll_index == index' = current_index /\ last_ts' = now

(* The supplier's interest becomes principal.                              *)
set_position(s, amount) ==
  positions' = [positions EXCEPT ![s] = [principal |-> amount, entry_index |-> current_index]]

-----------------------------------------------------------------------------
Supply(s, amount) ==
  /\ roll_index
  /\ set_position(s, balance(s) + amount)
  /\ total_principal' = total_principal + amount
  /\ UNCHANGED <<now, rate_bps, cash>>

Withdraw(s, amount) ==
  /\ amount <= balance(s) /\ amount <= cash
  /\ roll_index
  /\ set_position(s, balance(s) - amount)
  /\ cash' = cash - amount
  /\ total_principal' = IF amount > total_principal THEN 0 ELSE total_principal - amount
  /\ UNCHANGED <<now, rate_bps>>

(* A mutant: the index is left for the next call to advance.               *)
SetRateUnrolled(rate) ==
  /\ rate <= MAX_RATE_BPS
  /\ rate_bps' = rate
  /\ UNCHANGED <<now, index, last_ts, total_principal, positions, cash>>

SetRate(rate) ==
  /\ rate <= MAX_RATE_BPS
  /\ roll_index
  /\ rate_bps' = rate
  /\ UNCHANGED <<now, total_principal, positions, cash>>

(* The next ledger, and tokens sent to the pool.                           *)
LedgerCloses(d) ==
  /\ now' = now + d
  /\ UNCHANGED <<rate_bps, index, last_ts, total_principal, positions, cash>>

Push(amount) ==
  /\ cash' = cash + amount
  /\ UNCHANGED <<now, rate_bps, index, last_ts, total_principal, positions>>

Next ==
  \/ \E s \in Suppliers, amount \in Amounts : Supply(s, amount) \/ Withdraw(s, amount)
  \/ \E rate \in 0 .. MAX_RATE_BPS + 1 : SetRate(rate)
  \/ \E d \in Durations : LedgerCloses(d)
  \/ \E amount \in Amounts : Push(amount)

Spec == Init /\ [][Next]_vars

-----------------------------------------------------------------------------
Promise == INSTANCE PoolInterest
  WITH stake <- [s \in Suppliers |-> positions[s].principal],
       interest <- [s \in Suppliers |->
                      positions[s].principal * (current_index - positions[s].entry_index)],
       rate <- rate_bps

(* One index rolled only by calls, anybody's calls, pays every supplier    *)
(* what PoolInterest says, second by second: no call of another loses him  *)
(* interest (accrual.rs: "no per-roll flooring ever loses a sub-year       *)
(* accrual"), and a new rate is never applied to the past (lib.rs: "a rate *)
(* change is never retroactive"). The vault counts on it: between its own  *)
(* calls its position only grows (Vault.Accrue).                           *)
ImplementsPoolInterest == Promise!Spec
=============================================================================
