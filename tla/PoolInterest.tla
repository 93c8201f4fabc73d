----------------------------- MODULE PoolInterest -----------------------------
(***************************************************************************)
(* What a yield pool promises its suppliers: whatever a supplier left in   *)
(* the pool after his last call earns interest with every second that      *)
(* passes, at the rate of that second. It is paid in whole units, and      *)
(* nothing is lost of what is not yet one. Nobody's calls but his own and  *)
(* no change of the rate touch what he is owed.                            *)
(***************************************************************************)
EXTENDS Naturals

CONSTANTS
  Suppliers, Amounts,
  Durations,        (* By how many seconds ledgers may lie apart.           *)
  MAX_RATE_BPS,
  BPS_YEAR          (* Seconds in a year times basis points in one.         *)

(* What a composition must give the constants.                             *)
ConstantsOK ==
  /\ Amounts \subseteq Nat \ {0} /\ Durations \subseteq Nat \ {0}
  /\ MAX_RATE_BPS \in Nat /\ BPS_YEAR \in Nat \ {0}

VARIABLES
  stake,            (* Per supplier: what earns.                            *)
  interest,         (* Per supplier: earned since, in parts of BPS_YEAR.    *)
  rate,             (* In basis points a year.                              *)
  cash              (* Tokens at the pool's address.                        *)

interestVars == <<stake, interest, rate, cash>>

Owed(s) == stake[s] + interest[s] \div BPS_YEAR

Init ==
  /\ stake = [s \in Suppliers |-> 0] /\ interest = [s \in Suppliers |-> 0]
  /\ rate \in 0 .. MAX_RATE_BPS /\ cash = 0

(* From here on this is what the supplier is owed and what earns.          *)
Settle(s, amount) ==
  /\ stake' = [stake EXCEPT ![s] = amount]
  /\ interest' = [interest EXCEPT ![s] = 0]
  /\ UNCHANGED rate

Supply(s, amount) == Settle(s, Owed(s) + amount) /\ UNCHANGED cash

Withdraw(s, amount) ==
  /\ amount <= Owed(s) /\ amount <= cash
  /\ Settle(s, Owed(s) - amount)
  /\ cash' = cash - amount

SetRate == rate' \in 0 .. MAX_RATE_BPS /\ UNCHANGED <<stake, interest, cash>>

SecondsPass(d) ==
  /\ interest' = [s \in Suppliers |-> interest[s] + stake[s] * (rate * d)]
  /\ UNCHANGED <<stake, rate, cash>>

Push(amount) == cash' = cash + amount /\ UNCHANGED <<stake, interest, rate>>

Next ==
  \/ \E s \in Suppliers, amount \in Amounts : Supply(s, amount) \/ Withdraw(s, amount)
  \/ SetRate
  \/ \E d \in Durations : SecondsPass(d)
  \/ \E amount \in Amounts : Push(amount)

Spec == Init /\ [][Next]_interestVars
=============================================================================
