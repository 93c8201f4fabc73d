----------------------------- MODULE MockVault -----------------------------
(***************************************************************************)
(* MockVaultClient (packages/vault-client/src/mock.ts), the vault that the *)
(* frontend falls back to and that every offline test runs against. A      *)
(* write takes effect when it is submitted, not when it is prepared; one   *)
(* with the wrong signer, or submitted while failSubmit is on, changes     *)
(* nothing, and is no step here.                                           *)
(***************************************************************************)
EXTENDS Naturals, FiniteSetsExt

CONSTANTS Users, Currencies, Pools,
          Amounts,          (* Amounts deposited, accrued and moved.        *)
          NoPool, NoExit

VIRTUAL_OFFSET == 1

(* What a composition must give the constants.                             *)
ConstantsOK ==
  /\ IsFiniteSet(Users) /\ Amounts \subseteq Nat \ {0}
  /\ NoPool \notin Pools

VARIABLES
  shares,                    (* shares, by user and currency.               *)
  totalShares, totalAssets,  (* NAV accumulators of each currency.          *)
  consent, autoCompoundOff,  (* Sets of users.                              *)
  frozen,                    (* Set of pools.                               *)
  active, holdings, pending, (* By currency.                                *)
  seq,                       (* Numbers the exit proposals.                 *)
  failSubmit

bucketVars == <<shares, totalShares, totalAssets>>
userVars   == <<consent, autoCompoundOff>>
poolVars   == <<frozen, active, holdings, pending, seq>>
vars == <<bucketVars, userVars, poolVars, failSubmit>>

Bucket(c) == INSTANCE BucketNav
               WITH totalShares <- totalShares[c], nav <- totalAssets[c],
                    VirtualOffset <- VIRTUAL_OFFSET, MinFirstDeposit <- 0

Init ==
  /\ shares = [u \in Users |-> [c \in Currencies |-> 0]]
  /\ totalShares = [c \in Currencies |-> 0]
  /\ totalAssets = [c \in Currencies |-> 0]
  /\ consent = {} /\ autoCompoundOff = {} /\ frozen = {}
  /\ active = [c \in Currencies |-> NoPool]
  /\ holdings = [c \in Currencies |-> 0]
  /\ pending = [c \in Currencies |-> NoExit]
  /\ seq = 0 /\ failSubmit = FALSE

mintShares(c, amount) ==
  (amount * (totalShares[c] + VIRTUAL_OFFSET)) \div (totalAssets[c] + VIRTUAL_OFFSET)

redeemAssetsRoundedUp(c, burned) ==
  (burned * (totalAssets[c] + VIRTUAL_OFFSET) + totalShares[c])
    \div (totalShares[c] + VIRTUAL_OFFSET)

redeemAssets(c, burned) ==
  (burned * (totalAssets[c] + VIRTUAL_OFFSET)) \div (totalShares[c] + VIRTUAL_OFFSET)

-----------------------------------------------------------------------------
Submitted == ~failSubmit /\ UNCHANGED failSubmit

Deposit(u, c, amount) ==
  LET minted == mintShares(c, amount)
  IN /\ minted > 0
     /\ shares' = [shares EXCEPT ![u][c] = @ + minted]
     /\ totalShares' = [totalShares EXCEPT ![c] = @ + minted]
     /\ totalAssets' = [totalAssets EXCEPT ![c] = @ + amount]
     /\ UNCHANGED <<userVars, poolVars>>

Withdraw(u, c, burned) ==
  /\ burned > 0 /\ burned <= shares[u][c]
  /\ shares' = [shares EXCEPT ![u][c] = @ - burned]
  /\ totalShares' = [totalShares EXCEPT ![c] = @ - burned]
  /\ totalAssets' = [totalAssets EXCEPT ![c] = @ - redeemAssets(c, burned)]
  /\ UNCHANGED <<userVars, poolVars>>

SetPolicyConsent(u) ==
  /\ consent' = consent \cup {u}
  /\ UNCHANGED <<bucketVars, autoCompoundOff, poolVars>>

SetAutoCompound(u, enabled) ==
  /\ autoCompoundOff' = IF enabled THEN autoCompoundOff \ {u}
                                   ELSE autoCompoundOff \cup {u}
  /\ UNCHANGED <<bucketVars, consent, poolVars>>

(* The first proposal with the id, whatever its currency.                  *)
ApproveExit(exitId) ==
  \E c \in Currencies :
    /\ pending[c] # NoExit /\ pending[c].id = exitId
    /\ active' = [active EXCEPT ![c] = pending[c].toPool]
    /\ pending' = [pending EXCEPT ![c] = NoExit]
    /\ UNCHANGED <<bucketVars, userVars, frozen, holdings, seq>>

Allocate(p, c, amount) ==
  /\ p \notin frozen
  /\ active' = [active EXCEPT ![c] = p]
  /\ holdings' = [holdings EXCEPT ![c] = @ + amount]
  /\ UNCHANGED <<bucketVars, userVars, frozen, pending, seq>>

Deallocate(c, amount) ==
  /\ amount <= holdings[c]
  /\ holdings' = [holdings EXCEPT ![c] = @ - amount]
  /\ UNCHANGED <<bucketVars, userVars, frozen, active, pending, seq>>

SetFrozen(p) ==
  /\ frozen' \in {frozen \cup {p}, frozen \ {p}}
  /\ UNCHANGED <<bucketVars, userVars, active, holdings, pending, seq>>

ProposeExit(c, from, to) ==
  /\ seq' = seq + 1
  /\ pending' = [pending EXCEPT ![c] =
                   [id |-> seq', fromPool |-> from, toPool |-> to]]
  /\ UNCHANGED <<bucketVars, userVars, frozen, active, holdings>>

(* Hooks of the tests.                                                     *)
SimulateYield(c, amount) ==
  /\ totalAssets' = [totalAssets EXCEPT ![c] = @ + amount]
  /\ UNCHANGED <<shares, totalShares, userVars, poolVars, failSubmit>>

SimulateFailure ==
  /\ failSubmit' \in BOOLEAN
  /\ UNCHANGED <<bucketVars, userVars, poolVars>>

DepositorWrites ==
  \/ \E u \in Users, c \in Currencies, amount \in Amounts : Deposit(u, c, amount)
  \/ \E u \in Users, c \in Currencies :
       \E burned \in 1 .. shares[u][c] : Withdraw(u, c, burned)
  \/ \E u \in Users : SetPolicyConsent(u)
  \/ \E u \in Users, enabled \in BOOLEAN : SetAutoCompound(u, enabled)
  \/ \E exitId \in 1 .. seq : ApproveExit(exitId)

KeeperWrites ==
  \/ \E p \in Pools, c \in Currencies, amount \in Amounts : Allocate(p, c, amount)
  \/ \E c \in Currencies, amount \in Amounts : Deallocate(c, amount)
  \/ \E p \in Pools : SetFrozen(p)
  \/ \E c \in Currencies, from, to \in Pools : ProposeExit(c, from, to)

Next ==
  \/ (DepositorWrites \/ KeeperWrites) /\ Submitted
  \/ \E c \in Currencies, amount \in Amounts : SimulateYield(c, amount)
  \/ SimulateFailure

Spec == Init /\ [][Next]_vars

-----------------------------------------------------------------------------
(* The mock keeps the promise of the contract it stands for: each of its   *)
(* buckets is a BucketNav, priced and rounded like the vault's.            *)
ImplementsBucketNav ==
  /\ \A c \in Currencies : Bucket(c)!Init
  /\ [][\A c \in Currencies : [Bucket(c)!Next]_(Bucket(c)!bucketVars)]_vars
=============================================================================
