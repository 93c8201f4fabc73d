----------------------------- MODULE VaultProofs -----------------------------
(***************************************************************************)
(* Theorems about Vault, for every set of depositors, currencies, pools    *)
(* and amounts and every setting of the contract's configuration.          *)
(***************************************************************************)
EXTENDS Vault, ShareMathProofs, CollectionProofs

-----------------------------------------------------------------------------
(* Facts about the reads, in any state of the right type. *)

LEMMA ListedArePools ==
  ASSUME TypeOK, NEW c \in Currencies
  PROVE  Listed(c) \in SUBSET Pools /\ IsFiniteSet(Listed(c))
<1>1. Listed(c) \in SUBSET Pools
  BY DEF TypeOK, Listed, ToSet
<1>2. IsFiniteSet(Pools)
  BY ConfigAssumption
<1>3. QED
  BY <1>1, <1>2, FS_Subset

LEMMA NavType ==
  ASSUME TypeOK, NEW c \in Currencies
  PROVE  Nav(c) \in Nat
<1>1. \A p \in Listed(c) : position[p] \in Nat
  BY ListedArePools DEF TypeOK
<1>2. SumOver(position, Listed(c)) \in Nat
  BY <1>1, ListedArePools, SumType
<1>3. QED
  BY <1>2 DEF TypeOK, Nav

LEMMA MintedType ==
  ASSUME TypeOK, NEW c \in Currencies, NEW amount \in Nat
  PROVE  Minted(c, amount) \in Nat
<1>1. totalShares[c] \in Nat
  BY DEF TypeOK
<1>2. QED
  BY <1>1, NavType, MintBounds DEF Minted

LEMMA PayoutType ==
  ASSUME TypeOK, NEW c \in Currencies, NEW burned \in Nat
  PROVE  Payout(c, burned) \in Nat
<1>1. totalShares[c] \in Nat
  BY DEF TypeOK
<1>2. QED
  BY <1>1, NavType, RedeemBounds DEF Payout

(* No depositor holds more shares than the bucket has issued.              *)
LEMMA SharesBelowTotal ==
  ASSUME TypeOK, SharesAddUp, NEW d \in Depositors, NEW c \in Currencies
  PROVE  shares[d][c] <= totalShares[c]
<1> DEFINE held == [e \in Depositors |-> shares[e][c]]
<1>1. \A e \in Depositors : held[e] \in Nat
  BY DEF TypeOK
<1>2. IsFiniteSet(Depositors)
  BY ConfigAssumption
<1>3. held[d] <= SumOver(held, Depositors)
  BY <1>1, <1>2, SummandBelow
<1>4. totalShares[c] = SumOver(held, Depositors)
  BY DEF SharesAddUp
<1>5. QED
  BY <1>3, <1>4

-----------------------------------------------------------------------------
(* Facts about the updates that several actions share. *)

LEMMA ListUpdates ==
  ASSUME NEW list \in Seq(Pools)
  PROVE  /\ \A gone : Without(list, gone) \in Seq(Pools)
         /\ \A p \in Pools : Enlisted(list, p) \in Seq(Pools)
<1>1. \A gone : Without(list, gone) \in Seq(Pools)
  BY WithoutList
<1>2. QED
  BY <1>1 DEF Enlisted

(* A move out of the pools keeps the types of what it changes.             *)
LEMMA WithdrawalTypes ==
  ASSUME TypeOK, NEW c \in Currencies, NEW taken \in [Pools -> Nat],
         WithdrawFromPools(c, taken)
  PROVE  /\ holdings' \in [Currencies -> [Pools -> Nat]]
         /\ position' \in [Pools -> Nat]
         /\ poolCash' \in [Pools -> Nat]
         /\ poolList' \in [Currencies -> Seq(Pools)]
         /\ activePool' \in [Currencies -> Pools \cup {NoPool}]
<1>1. holdings' \in [Currencies -> [Pools -> Nat]]
  <2>1. \A p \in Pools : Unbooked(holdings[c][p], taken[p]) \in Nat
    BY DEF TypeOK, Unbooked
  <2>2. QED
    BY <2>1 DEF TypeOK, WithdrawFromPools
<1>2. position' \in [Pools -> Nat] /\ poolCash' \in [Pools -> Nat]
  <2>1. ASSUME NEW p \in Pools
        PROVE  position[p] - taken[p] \in Nat /\ poolCash[p] - taken[p] \in Nat
    <3>1. /\ position[p] \in Nat /\ poolCash[p] \in Nat /\ taken[p] \in Nat
          /\ taken[p] <= position[p] /\ taken[p] <= poolCash[p]
      BY DEF TypeOK, WithdrawFromPools, CanPay
    <3>2. QED
      BY <3>1
  <2>2. QED
    BY <2>1 DEF WithdrawFromPools
<1>3. poolList' \in [Currencies -> Seq(Pools)]
  <2>1. Without(poolList[c], Emptied(c, taken)) \in Seq(Pools)
    BY ListUpdates DEF TypeOK
  <2>2. QED
    BY <2>1 DEF TypeOK, WithdrawFromPools
<1>4. activePool' \in [Currencies -> Pools \cup {NoPool}]
  BY DEF TypeOK, WithdrawFromPools, StillActive
<1>5. QED
  BY <1>1, <1>2, <1>3, <1>4

(* One depositor's shares and the bucket's total change by the same amount. *)
LEMMA LedgerMove ==
  ASSUME TypeOK, SharesAddUp, NEW d \in Depositors, NEW c \in Currencies,
         NEW after \in Nat,
         shares' = [shares EXCEPT ![d][c] = after],
         totalShares' = [totalShares EXCEPT ![c] = @ - shares[d][c] + after]
  PROVE  SharesAddUp'
<1> SUFFICES ASSUME NEW b \in Currencies
             PROVE  totalShares'[b]
                      = SumOver([e \in Depositors |-> shares'[e][b]], Depositors)
  BY DEF SharesAddUp
<1> DEFINE was == [e \in Depositors |-> shares[e][b]]
           now == [e \in Depositors |-> shares'[e][b]]
<1>1. IsFiniteSet(Depositors)
  BY ConfigAssumption
<1>2. totalShares[b] = SumOver(was, Depositors)
  BY DEF SharesAddUp
<1>3. CASE b = c
  <2>1. /\ was[d] = shares[d][c] /\ now[d] = after
        /\ \A e \in Depositors \ {d} : now[e] = was[e]
    BY <1>3 DEF TypeOK
  <2>2. \A e \in Depositors : was[e] \in Nat /\ now[e] \in Nat
    BY <1>3, <2>1 DEF TypeOK
  <2> HIDE DEF was, now
  <2>3. SumOver(now, Depositors) = SumOver(was, Depositors) - was[d] + now[d]
    BY <1>1, <2>1, <2>2, SumChange
  <2>4. totalShares'[b] = totalShares[b] - shares[d][c] + after
    BY <1>3 DEF TypeOK
  <2>5. QED
    BY <1>2, <2>1, <2>3, <2>4 DEF now
<1>4. CASE b # c
  <2>1. totalShares'[b] = totalShares[b]
    BY <1>4 DEF TypeOK
  <2>2. \A e \in Depositors : now[e] = was[e]
    BY <1>4 DEF TypeOK
  <2> HIDE DEF was, now
  <2>3. SumOver(now, Depositors) = SumOver(was, Depositors)
    BY <2>2, SumSame
  <2>4. QED
    BY <1>2, <2>1, <2>3 DEF now
<1>5. QED
  BY <1>3, <1>4

LEMMA LedgerKept ==
  ASSUME SharesAddUp, UNCHANGED <<shares, totalShares>>
  PROVE  SharesAddUp'
BY DEF SharesAddUp

-----------------------------------------------------------------------------
(* Types and the share ledger. *)

(* Types alone are not inductive: that a withdrawal leaves a natural number *)
(* of shares in the bucket needs the depositors' shares to add up to it.    *)
LedgerInv == TypeOK /\ SharesAddUp

LEMMA LedgerInvInit == Init => LedgerInv
<1> SUFFICES ASSUME Init
             PROVE  LedgerInv
  OBVIOUS
<1>1. TypeOK
  <2>1. /\ poolList \in [Currencies -> Seq(Pools)]
        /\ pendingExit \in [Currencies -> ExitProposals \cup {NoExit}]
    BY DEF Init, StartedWith
  <2>2. /\ shares \in [Depositors -> [Currencies -> Nat]]
        /\ holdings \in [Currencies -> [Pools -> Nat]]
    BY DEF Init, StartedWith
  <2>3. QED
    BY <2>1, <2>2 DEF Init, StartedWith, TypeOK
<1>2. SharesAddUp
  <2> SUFFICES ASSUME NEW c \in Currencies
               PROVE  SumOver([d \in Depositors |-> shares[d][c]], Depositors) = 0
    BY DEF SharesAddUp, Init, StartedWith
  <2> DEFINE held == [d \in Depositors |-> shares[d][c]]
  <2>1. \A d \in Depositors : held[d] = 0
    BY DEF Init, StartedWith
  <2>2. Units(held, Depositors) = {}
    BY <2>1 DEF Units
  <2>3. QED
    BY <2>2, FS_EmptySet DEF SumOver
<1>3. QED
  BY <1>1, <1>2 DEF LedgerInv

LEMMA LedgerInvStep == LedgerInv /\ [Next]_vars => LedgerInv'
<1> SUFFICES ASSUME TypeOK, SharesAddUp, [Next]_vars
             PROVE  TypeOK' /\ SharesAddUp'
  BY DEF LedgerInv
<1>1. ASSUME NEW d \in Depositors, SetPolicyConsent(d)
      PROVE  TypeOK' /\ SharesAddUp'
  BY <1>1, LedgerKept
     DEF SetPolicyConsent, TypeOK, bucketVars, poolVars, guardVars, exitVars
<1>2. ASSUME NEW d \in Depositors, NEW c \in Currencies, NEW amount \in Amounts,
             Deposit(d, c, amount)
      PROVE  TypeOK' /\ SharesAddUp'
  <2> DEFINE minted == Minted(c, amount)
  <2>1. amount \in Nat /\ minted \in Nat
    BY ConfigAssumption, MintedType
  <2>2. /\ shares' = [shares EXCEPT ![d][c] = @ + minted]
        /\ totalShares' = [totalShares EXCEPT ![c] = @ + minted]
        /\ idle' = [idle EXCEPT ![c] = @ + amount]
        /\ vaultCash' = [vaultCash EXCEPT ![c] = @ + amount]
        /\ UNCHANGED <<consent, poolList, activePool, holdings, position, poolCash,
                       paused, allowed, frozen, pendingExit, exitCounter>>
    BY <1>2 DEF Deposit, Mint, poolVars, guardVars, exitVars
  <2> HIDE DEF minted
  <2>3. TypeOK'
    <3>1. /\ shares' \in [Depositors -> [Currencies -> Nat]]
          /\ totalShares' \in [Currencies -> Nat]
      BY <2>1, <2>2 DEF TypeOK
    <3>2. idle' \in [Currencies -> Nat] /\ vaultCash' \in [Currencies -> Nat]
      BY <2>1, <2>2 DEF TypeOK
    <3>3. QED
      BY <2>2, <3>1, <3>2 DEF TypeOK
  <2>4. SharesAddUp'
    <3>1. /\ shares[d][c] + minted \in Nat
          /\ totalShares[c] + minted
               = totalShares[c] - shares[d][c] + (shares[d][c] + minted)
      BY <2>1 DEF TypeOK
    <3>2. /\ shares' = [shares EXCEPT ![d][c] = shares[d][c] + minted]
          /\ totalShares' = [totalShares EXCEPT
                 ![c] = @ - shares[d][c] + (shares[d][c] + minted)]
      BY <2>2, <3>1 DEF TypeOK
    <3>3. QED
      BY <3>1, <3>2, LedgerMove
  <2>5. QED
    BY <2>3, <2>4
<1>3. ASSUME NEW d \in Depositors, NEW c \in Currencies,
             NEW burned \in 1 .. shares[d][c], Withdraw(d, c, burned)
      PROVE  TypeOK' /\ SharesAddUp'
  <2> DEFINE assets == Payout(c, burned)
             needed == IF idle[c] < assets THEN assets - idle[c] ELSE 0
  <2>1. /\ burned \in Nat /\ burned <= shares[d][c]
        /\ shares[d][c] \in Nat /\ totalShares[c] \in Nat
        /\ burned <= totalShares[c]
    BY SharesBelowTotal DEF TypeOK
  <2>2. assets \in Nat /\ needed \in Nat /\ assets <= idle[c] + needed
    <3>1. assets \in Nat
      BY <2>1, PayoutType
    <3>2. idle[c] \in Nat
      BY DEF TypeOK
    <3> HIDE DEF assets
    <3>3. QED
      BY <3>1, <3>2
  <2>3. PICK taken \in [Pools -> Nat] : WithdrawFromPools(c, taken)
    BY <1>3, <2>2 DEF Withdraw, Drains
  <2>4. /\ assets <= vaultCash[c] + needed
        /\ shares' = [shares EXCEPT ![d][c] = @ - burned]
        /\ totalShares' = [totalShares EXCEPT ![c] = @ - burned]
        /\ idle' = [idle EXCEPT ![c] = @ + needed - assets]
        /\ vaultCash' = [vaultCash EXCEPT ![c] = @ + needed - assets]
        /\ UNCHANGED <<consent, paused, allowed, frozen, pendingExit, exitCounter>>
    BY <1>3 DEF Withdraw, Burn, guardVars, exitVars
  <2> HIDE DEF assets, needed
  <2>5. TypeOK'
    <3>1. /\ holdings' \in [Currencies -> [Pools -> Nat]]
          /\ position' \in [Pools -> Nat]
          /\ poolCash' \in [Pools -> Nat]
          /\ poolList' \in [Currencies -> Seq(Pools)]
          /\ activePool' \in [Currencies -> Pools \cup {NoPool}]
      BY <2>3, WithdrawalTypes
    <3>2. /\ shares[d][c] - burned \in Nat
          /\ totalShares[c] - burned \in Nat
          /\ idle[c] + needed - assets \in Nat
          /\ vaultCash[c] + needed - assets \in Nat
      BY <2>1, <2>2, <2>4, SMTT(30) DEF TypeOK
    <3>3. /\ shares' \in [Depositors -> [Currencies -> Nat]]
          /\ totalShares' \in [Currencies -> Nat]
          /\ idle' \in [Currencies -> Nat]
          /\ vaultCash' \in [Currencies -> Nat]
      BY <2>4, <3>2 DEF TypeOK
    <3>4. QED
      BY <2>4, <3>1, <3>3 DEF TypeOK
  <2>6. SharesAddUp'
    <3>1. /\ shares[d][c] - burned \in Nat
          /\ totalShares[c] - burned
               = totalShares[c] - shares[d][c] + (shares[d][c] - burned)
      BY <2>1
    <3>2. /\ shares' = [shares EXCEPT ![d][c] = shares[d][c] - burned]
          /\ totalShares' = [totalShares EXCEPT
                 ![c] = @ - shares[d][c] + (shares[d][c] - burned)]
      BY <2>4, <3>1 DEF TypeOK
    <3>3. QED
      BY <3>1, <3>2, LedgerMove
  <2>7. QED
    BY <2>5, <2>6
<1>4. ASSUME NEW d \in Depositors, NEW c \in Currencies, NEW id \in 1 .. exitCounter,
             ApproveExit(d, c, id)
      PROVE  TypeOK' /\ SharesAddUp'
  <2> DEFINE from  == pendingExit[c].from
             to    == pendingExit[c].to
             value == ExitValue(c, from)
             list  == Without(poolList[c], {p \in {from} : value = position[p]})
  <2>1. from \in Pools /\ to \in Pools
    BY <1>4 DEF ApproveExit, ExecuteExit, TypeOK, ExitProposals
  <2>2. value \in Nat /\ value <= position[from] /\ value <= poolCash[from]
    BY <1>4, <2>1 DEF ApproveExit, ExecuteExit, ExitValue, CanPay, TypeOK
  <2>3. Enlisted(list, to) \in Seq(Pools)
    BY <2>1, ListUpdates DEF TypeOK
  <2>4. /\ poolList' = [poolList EXCEPT ![c] = Enlisted(list, to)]
        /\ activePool' = [activePool EXCEPT ![c] = to]
        /\ holdings' = [holdings EXCEPT ![c][from] = Unbooked(@, value),
                                        ![c][to] = @ + value]
        /\ position' = [position EXCEPT ![from] = @ - value, ![to] = @ + value]
        /\ poolCash' = [poolCash EXCEPT ![from] = @ - value, ![to] = @ + value]
        /\ pendingExit' = [pendingExit EXCEPT ![c] = NoExit]
        /\ UNCHANGED <<consent, shares, totalShares, idle, vaultCash,
                       paused, allowed, frozen, exitCounter>>
    BY <1>4 DEF ApproveExit, ExecuteExit, depositorVars, guardVars
  <2> HIDE DEF from, to, value, list
  <2>5. /\ holdings' \in [Currencies -> [Pools -> Nat]]
        /\ position' \in [Pools -> Nat]
        /\ poolCash' \in [Pools -> Nat]
    <3>1. \A n \in Nat : Unbooked(n, value) \in Nat
      BY <2>2 DEF Unbooked
    <3>2. Unbooked(holdings[c][from], value) \in Nat
      BY <2>1, <3>1 DEF TypeOK
    <3>3. holdings' \in [Currencies -> [Pools -> Nat]]
      <4>1. [holdings EXCEPT ![c][from] = Unbooked(@, value)]
              \in [Currencies -> [Pools -> Nat]]
        BY <2>1, <3>2 DEF TypeOK
      <4>2. QED
        BY <2>1, <2>2, <2>4, <4>1
    <3>4. position' \in [Pools -> Nat]
      <4>1. position[from] - value \in Nat
        BY <2>1, <2>2 DEF TypeOK
      <4>2. [position EXCEPT ![from] = @ - value] \in [Pools -> Nat]
        BY <2>1, <4>1 DEF TypeOK
      <4>3. QED
        BY <2>1, <2>2, <2>4, <4>2
    <3>5. poolCash' \in [Pools -> Nat]
      <4>1. poolCash[from] - value \in Nat
        BY <2>1, <2>2 DEF TypeOK
      <4>2. [poolCash EXCEPT ![from] = @ - value] \in [Pools -> Nat]
        BY <2>1, <4>1 DEF TypeOK
      <4>3. QED
        BY <2>1, <2>2, <2>4, <4>2
    <3>6. QED
      BY <3>3, <3>4, <3>5
  <2>6. TypeOK'
    BY <2>1, <2>3, <2>4, <2>5 DEF TypeOK
  <2>7. QED
    BY <2>4, <2>6, LedgerKept
<1>5. ASSUME NEW p \in Pools, NEW c \in Currencies, NEW amount \in Amounts,
             Allocate(p, c, amount)
      PROVE  TypeOK' /\ SharesAddUp'
  <2>1. amount \in Nat /\ amount <= idle[c] /\ amount <= vaultCash[c]
    BY <1>5, ConfigAssumption DEF Allocate
  <2>2. Enlisted(poolList[c], p) \in Seq(Pools)
    BY ListUpdates DEF TypeOK
  <2>3. /\ idle[c] - amount \in Nat /\ vaultCash[c] - amount \in Nat
    BY <2>1 DEF TypeOK
  <2>4. /\ poolList' = [poolList EXCEPT ![c] = Enlisted(@, p)]
        /\ idle' = [idle EXCEPT ![c] = @ - amount]
        /\ holdings' = [holdings EXCEPT ![c][p] = @ + amount]
        /\ activePool' = [activePool EXCEPT ![c] = p]
        /\ vaultCash' = [vaultCash EXCEPT ![c] = @ - amount]
        /\ position' = [position EXCEPT ![p] = @ + amount]
        /\ poolCash' = [poolCash EXCEPT ![p] = @ + amount]
        /\ UNCHANGED <<consent, shares, totalShares, paused, allowed, frozen,
                       pendingExit, exitCounter>>
    BY <1>5 DEF Allocate, depositorVars, guardVars, exitVars
  <2>5. idle' \in [Currencies -> Nat] /\ vaultCash' \in [Currencies -> Nat]
    BY <2>3, <2>4 DEF TypeOK
  <2>6. holdings' \in [Currencies -> [Pools -> Nat]]
    BY <2>1, <2>4 DEF TypeOK
  <2>7. position' \in [Pools -> Nat] /\ poolCash' \in [Pools -> Nat]
    BY <2>1, <2>4, SMTT(30) DEF TypeOK
  <2>8. /\ poolList' \in [Currencies -> Seq(Pools)]
        /\ activePool' \in [Currencies -> Pools \cup {NoPool}]
    BY <2>2, <2>4 DEF TypeOK
  <2>9. TypeOK'
    BY <2>4, <2>5, <2>6, <2>7, <2>8 DEF TypeOK
  <2>10. QED
    BY <2>4, <2>9, LedgerKept
<1>6. ASSUME NEW p \in Pools, NEW c \in Currencies, NEW amount \in Amounts,
             Deallocate(p, c, amount)
      PROVE  TypeOK' /\ SharesAddUp'
  <2> DEFINE taken == [q \in Pools |-> IF q = p THEN amount ELSE 0]
  <2>1. amount \in Nat /\ taken \in [Pools -> Nat] /\ WithdrawFromPools(c, taken)
    BY <1>6, ConfigAssumption DEF Deallocate
  <2> HIDE DEF taken
  <2>2. /\ holdings' \in [Currencies -> [Pools -> Nat]]
        /\ position' \in [Pools -> Nat]
        /\ poolCash' \in [Pools -> Nat]
        /\ poolList' \in [Currencies -> Seq(Pools)]
        /\ activePool' \in [Currencies -> Pools \cup {NoPool}]
    BY <2>1, WithdrawalTypes
  <2>3. /\ idle' = [idle EXCEPT ![c] = @ + amount]
        /\ vaultCash' = [vaultCash EXCEPT ![c] = @ + amount]
        /\ UNCHANGED <<consent, shares, totalShares, paused, allowed, frozen,
                       pendingExit, exitCounter>>
    BY <1>6 DEF Deallocate, depositorVars, guardVars, exitVars
  <2>4. idle' \in [Currencies -> Nat] /\ vaultCash' \in [Currencies -> Nat]
    BY <2>1, <2>3 DEF TypeOK
  <2>5. TypeOK'
    BY <2>2, <2>3, <2>4 DEF TypeOK
  <2>6. QED
    BY <2>3, <2>5, LedgerKept
<1>7. ASSUME NEW p \in Pools, Freeze(p) \/ Unfreeze(p)
      PROVE  TypeOK' /\ SharesAddUp'
  BY <1>7, LedgerKept
     DEF Freeze, Unfreeze, TypeOK, depositorVars, bucketVars, poolVars, exitVars
<1>8. ASSUME NEW c \in Currencies, NEW from \in Pools, NEW to \in Pools,
             ProposeExit(c, from, to)
      PROVE  TypeOK' /\ SharesAddUp'
  <2>1. NextExitId \in Nat
    BY DEF NextExitId, TypeOK
  <2>2. [id |-> NextExitId, currency |-> c, from |-> from, to |-> to] \in ExitProposals
    BY <2>1 DEF ExitProposals
  <2>3. QED
    BY <1>8, <2>1, <2>2, LedgerKept
       DEF ProposeExit, TypeOK, depositorVars, bucketVars, poolVars, guardVars
<1>9. ASSUME NEW flag \in BOOLEAN, SetPaused(flag)
      PROVE  TypeOK' /\ SharesAddUp'
  BY <1>9, LedgerKept
     DEF SetPaused, TypeOK, depositorVars, bucketVars, poolVars, exitVars
<1>10. ASSUME NEW p \in Pools, NEW flag \in BOOLEAN, SetPoolAllowed(p, flag)
       PROVE  TypeOK' /\ SharesAddUp'
  BY <1>10, LedgerKept
     DEF SetPoolAllowed, TypeOK, depositorVars, bucketVars, poolVars, exitVars
<1>11. ASSUME NEW p \in Pools, NEW amount \in Amounts,
              Accrue(p, amount) \/ FundPool(p, amount)
       PROVE  TypeOK' /\ SharesAddUp'
  <2>1. amount \in Nat
    BY ConfigAssumption
  <2>2. CASE Accrue(p, amount)
    <3>1. position' \in [Pools -> Nat]
      BY <2>1, <2>2 DEF Accrue, TypeOK
    <3>2. QED
      BY <2>2, <3>1, LedgerKept
         DEF Accrue, TypeOK, depositorVars, bucketVars, guardVars, exitVars
  <2>3. CASE FundPool(p, amount)
    <3>1. poolCash' \in [Pools -> Nat]
      BY <2>1, <2>3 DEF FundPool, TypeOK
    <3>2. QED
      BY <2>3, <3>1, LedgerKept
         DEF FundPool, TypeOK, depositorVars, bucketVars, guardVars, exitVars
  <2>4. QED
    BY <1>11, <2>2, <2>3
<1>12. ASSUME NEW c \in Currencies, NEW amount \in Amounts, Donate(c, amount)
       PROVE  TypeOK' /\ SharesAddUp'
  <2>1. amount \in Nat
    BY ConfigAssumption
  <2>2. QED
    BY <1>12, <2>1, LedgerKept
       DEF Donate, TypeOK, depositorVars, poolVars, guardVars, exitVars
<1>13. CASE UNCHANGED vars
  BY <1>13, LedgerKept
     DEF vars, TypeOK, depositorVars, bucketVars, poolVars, guardVars, exitVars
<1>14. \A r \in Routes : r[1] \in Pools /\ r[2] \in Currencies
  BY RouteAssumption
<1>15. QED
  BY <1>1, <1>2, <1>3, <1>4, <1>5, <1>6, <1>7, <1>8, <1>9, <1>10, <1>11, <1>12,
     <1>13, <1>14
     DEF Next, DepositorNext, KeeperNext, AdminNext, EnvironmentNext

LEMMA LedgerInvHolds == Spec => []LedgerInv
BY LedgerInvInit, LedgerInvStep, PTL DEF Spec

(* However the calls of depositors, keeper and admin interleave, the state *)
(* of the vault has its type: no balance, share or booked amount that a    *)
(* call subtracts from (storage.rs, an i128) ever goes below zero.         *)
THEOREM TypeTheorem == Spec => []TypeOK
BY LedgerInvHolds, PTL DEF LedgerInv

(* The depositors' shares are all the shares there are: what deposit mints *)
(* and withdraw burns is entered with the depositor and in TotalShares.    *)
THEOREM LedgerTheorem == Spec => []SharesAddUp
BY LedgerInvHolds, PTL DEF LedgerInv

-----------------------------------------------------------------------------
(* Custody: that the vault never loses sight of money it has in a pool.    *)

(* Principal and proposals stay on the routes. With this, a move of one    *)
(* bucket is seen not to touch a pool of another one.                      *)
RoutesKept ==
  \A c \in Currencies :
    /\ \A p \in Pools : holdings[c][p] > 0 => IsRoute(p, c)
    /\ pendingExit[c] # NoExit => /\ IsRoute(pendingExit[c].from, c)
                                  /\ IsRoute(pendingExit[c].to, c)

CustodyInv ==
  /\ RoutesKept
  /\ NavSeesEveryPosition
  /\ BookedIsOwedAndCapped
  /\ ActiveIsListed

LEMMA OneRoute ==
  ASSUME NEW p \in Pools, NEW b \in Currencies, NEW c \in Currencies,
         IsRoute(p, b), IsRoute(p, c)
  PROVE  b = c
<1>1. <<p, b>> \in Routes /\ <<p, c>> \in Routes
  BY DEF IsRoute
<1>2. <<p, b>>[1] = <<p, c>>[1] => <<p, b>>[2] = <<p, c>>[2]
  BY <1>1, RouteAssumption
<1>3. QED
  BY <1>2

LEMMA ListedAfterRemoval ==
  ASSUME NEW list \in Seq(Pools), NEW gone
  PROVE  /\ ToSet(Without(list, gone)) = ToSet(list) \ gone
         /\ IsInjective(list) => IsInjective(Without(list, gone))
<1> DEFINE left == Without(list, gone)
<1>1. /\ \A p : (\E k \in DOMAIN left : left[k] = p)
                 <=> (\E i \in DOMAIN list : list[i] = p) /\ p \notin gone
      /\ IsInjective(list) => IsInjective(left)
  BY WithoutList
<1> HIDE DEF left
<1>2. \A p : p \in ToSet(left) <=> p \in ToSet(list) \ gone
  BY <1>1 DEF ToSet
<1>3. QED
  BY <1>1, <1>2 DEF left

LEMMA ListedAfterEntry ==
  ASSUME NEW list \in Seq(Pools), NEW p \in Pools
  PROVE  /\ ToSet(Enlisted(list, p)) = ToSet(list) \cup {p}
         /\ IsInjective(list) => IsInjective(Enlisted(list, p))
<1>1. CASE Contains(list, p)
  BY <1>1 DEF Contains, Enlisted, ToSet
<1>2. CASE ~Contains(list, p)
  <2> DEFINE longer == Append(list, p)
  <2>1. Enlisted(list, p) = longer
    BY <1>2 DEF Enlisted
  <2>2. /\ Len(list) \in Nat /\ DOMAIN list = 1 .. Len(list)
        /\ DOMAIN longer = 1 .. Len(list) + 1
        /\ \A i \in 1 .. Len(list) : longer[i] = list[i]
        /\ longer[Len(list) + 1] = p
    OBVIOUS
  <2>3. \A i \in 1 .. Len(list) : list[i] # p
    BY <1>2 DEF Contains
  <2> HIDE DEF longer
  <2>4. ToSet(longer) = ToSet(list) \cup {p}
    BY <2>2 DEF ToSet
  <2>5. IsInjective(list) => IsInjective(longer)
    BY <2>2, <2>3 DEF IsInjective
  <2>6. QED
    BY <2>1, <2>4, <2>5
<1>3. QED
  BY <1>1, <1>2

-----------------------------------------------------------------------------
LEMMA CustodyKept ==
  ASSUME CustodyInv,
         UNCHANGED <<poolList, activePool, holdings, position, pendingExit>>
  PROVE  CustodyInv'
BY DEF CustodyInv, RoutesKept, NavSeesEveryPosition, BookedIsOwedAndCapped,
       ActiveIsListed, Listed

(* Money that leaves pools of one bucket, in whatever parts.               *)
LEMMA WithdrawalKeepsCustody ==
  ASSUME TypeOK, CustodyInv, NEW c \in Currencies, NEW taken \in [Pools -> Nat],
         \A p \in Pools : taken[p] > 0 => IsRoute(p, c),
         WithdrawFromPools(c, taken), UNCHANGED pendingExit
  PROVE  CustodyInv'
<1> DEFINE gone == Emptied(c, taken)
<1>1. \A p \in Pools : /\ taken[p] \in Nat /\ position[p] \in Nat
                       /\ taken[p] <= position[p]
                       /\ position'[p] = position[p] - taken[p]
  BY DEF TypeOK, WithdrawFromPools, CanPay
<1>2. /\ \A p \in Pools :
           holdings'[c][p] = Unbooked(holdings[c][p], taken[p])
      /\ \A b \in Currencies \ {c} : holdings'[b] = holdings[b]
  BY DEF TypeOK, WithdrawFromPools
<1>3. /\ poolList'[c] = Without(poolList[c], gone)
      /\ \A b \in Currencies \ {c} : poolList'[b] = poolList[b]
      /\ activePool'[c] = StillActive(c, gone)
      /\ \A b \in Currencies \ {c} : activePool'[b] = activePool[b]
  BY DEF TypeOK, WithdrawFromPools
<1>4. \A b \in Currencies, p \in Pools : holdings[b][p] \in Nat
  BY DEF TypeOK
<1>5. \A b \in Currencies \ {c}, p \in Pools : IsRoute(p, b) => taken[p] = 0
  BY <1>1, OneRoute
<1>6. /\ Listed(c)' = Listed(c) \ gone
      /\ IsInjective(poolList[c]) => IsInjective(poolList'[c])
      /\ \A b \in Currencies \ {c} : Listed(b)' = Listed(b)
  BY <1>3, ListedAfterRemoval DEF TypeOK, Listed
<1>7. RoutesKept'
  <2>1. \A p \in Pools : holdings'[c][p] > 0 => holdings[c][p] > 0
    BY <1>1, <1>2, <1>4 DEF Unbooked
  <2>2. QED
    BY <1>2, <2>1 DEF CustodyInv, RoutesKept, IsRoute
<1>8. NavSeesEveryPosition'
  <2> SUFFICES ASSUME NEW b \in Currencies
               PROVE  /\ IsInjective(poolList'[b])
                      /\ \A p \in Pools : p \in Listed(b)'
                                            <=> IsRoute(p, b) /\ position'[p] > 0
    BY DEF NavSeesEveryPosition, IsRoute
  <2>1. /\ IsInjective(poolList[b])
        /\ \A p \in Pools : p \in Listed(b) <=> IsRoute(p, b) /\ position[p] > 0
    BY DEF CustodyInv, NavSeesEveryPosition
  <2>2. CASE b = c
    <3>1. \A p \in Pools : p \in gone <=> taken[p] > 0 /\ position'[p] = 0
      BY <1>1 DEF Emptied
    <3>2. QED
      BY <1>1, <1>6, <2>1, <2>2, <3>1
  <2>3. CASE b # c
    BY <1>1, <1>3, <1>5, <1>6, <2>1, <2>3
  <2>4. QED
    BY <2>2, <2>3
<1>9. BookedIsOwedAndCapped'
  <2> SUFFICES ASSUME NEW b \in Currencies, NEW p \in Pools
               PROVE  /\ holdings'[b][p] <= position'[p]
                      /\ holdings'[b][p] <= PerPoolCap
    BY DEF BookedIsOwedAndCapped
  <2>1. /\ holdings[b][p] <= position[p] /\ holdings[b][p] <= PerPoolCap
        /\ PerPoolCap \in Nat
    BY ConfigAssumption DEF CustodyInv, BookedIsOwedAndCapped
  <2>2. CASE b = c
    <3>1. holdings'[c][p] = IF taken[p] > holdings[c][p] THEN 0
                            ELSE holdings[c][p] - taken[p]
      BY <1>2 DEF Unbooked
    <3>2. QED
      BY <1>1, <1>4, <2>1, <2>2, <3>1
  <2>3. CASE b # c
    <3>1. holdings'[b][p] = holdings[b][p]
      BY <1>2, <2>3
    <3>2. CASE IsRoute(p, b)
      BY <1>1, <1>5, <2>1, <2>3, <3>1, <3>2
    <3>3. CASE ~IsRoute(p, b)
      <4>1. ~(holdings[b][p] > 0)
        BY <3>3 DEF CustodyInv, RoutesKept
      <4>2. holdings[b][p] = 0
        BY <1>4, <4>1
      <4>3. QED
        BY <1>1, <2>1, <3>1, <4>2
    <3>4. QED
      BY <3>2, <3>3
  <2>4. QED
    BY <2>2, <2>3
<1>10. ActiveIsListed'
  <2> SUFFICES ASSUME NEW b \in Currencies, activePool'[b] # NoPool
               PROVE  activePool'[b] \in Listed(b)'
    BY DEF ActiveIsListed
  <2>1. activePool[b] # NoPool => activePool[b] \in Listed(b)
    BY DEF CustodyInv, ActiveIsListed
  <2>2. CASE b = c
    BY <1>3, <1>6, <2>1, <2>2 DEF StillActive
  <2>3. CASE b # c
    BY <1>3, <1>6, <2>1, <2>3
  <2>4. QED
    BY <2>2, <2>3
<1>11. QED
  BY <1>7, <1>8, <1>9, <1>10 DEF CustodyInv

(* Money that enters a pool of the bucket under the guards of an inflow.   *)
LEMMA AllocationKeepsCustody ==
  ASSUME TypeOK, CustodyInv, NEW c \in Currencies, NEW p \in Pools, IsRoute(p, c),
         NEW amount \in Amounts, Allocate(p, c, amount)
  PROVE  CustodyInv'
<1>1. amount \in Nat /\ amount > 0 /\ PerPoolCap \in Nat
  BY ConfigAssumption
<1>2. /\ \A b \in Currencies, q \in Pools : holdings[b][q] \in Nat
      /\ \A q \in Pools : position[q] \in Nat
  BY DEF TypeOK
<1>3. /\ position'[p] = position[p] + amount
      /\ \A q \in Pools \ {p} : position'[q] = position[q]
      /\ holdings'[c][p] = holdings[c][p] + amount
      /\ holdings[c][p] + amount <= PerPoolCap
      /\ \A b \in Currencies, q \in Pools :
           b # c \/ q # p => holdings'[b][q] = holdings[b][q]
      /\ UNCHANGED pendingExit
  BY DEF TypeOK, Allocate, AcceptsInflow, exitVars
<1>4. /\ poolList'[c] = Enlisted(poolList[c], p)
      /\ \A b \in Currencies \ {c} : poolList'[b] = poolList[b]
      /\ activePool'[c] = p
      /\ \A b \in Currencies \ {c} : activePool'[b] = activePool[b]
  BY DEF TypeOK, Allocate
<1>5. /\ Listed(c)' = Listed(c) \cup {p}
      /\ IsInjective(poolList[c]) => IsInjective(poolList'[c])
      /\ \A b \in Currencies \ {c} : Listed(b)' = Listed(b)
  BY <1>4, ListedAfterEntry DEF TypeOK, Listed
<1>6. RoutesKept'
  BY <1>3 DEF CustodyInv, RoutesKept, IsRoute
<1>7. NavSeesEveryPosition'
  <2> SUFFICES ASSUME NEW b \in Currencies
               PROVE  /\ IsInjective(poolList'[b])
                      /\ \A q \in Pools : q \in Listed(b)'
                                            <=> IsRoute(q, b) /\ position'[q] > 0
    BY DEF NavSeesEveryPosition, IsRoute
  <2>1. /\ IsInjective(poolList[b])
        /\ \A q \in Pools : q \in Listed(b) <=> IsRoute(q, b) /\ position[q] > 0
    BY DEF CustodyInv, NavSeesEveryPosition
  <2>2. CASE b = c
    BY <1>1, <1>2, <1>3, <1>5, <2>1, <2>2
  <2>3. CASE b # c
    <3>1. ~IsRoute(p, b)
      BY <2>3, OneRoute
    <3>2. QED
      BY <1>3, <1>4, <1>5, <2>1, <2>3, <3>1
  <2>4. QED
    BY <2>2, <2>3
<1>8. BookedIsOwedAndCapped'
  <2> SUFFICES ASSUME NEW b \in Currencies, NEW q \in Pools
               PROVE  /\ holdings'[b][q] <= position'[q]
                      /\ holdings'[b][q] <= PerPoolCap
    BY DEF BookedIsOwedAndCapped
  <2>1. holdings[b][q] <= position[q] /\ holdings[b][q] <= PerPoolCap
    BY DEF CustodyInv, BookedIsOwedAndCapped
  <2>2. position'[q] >= position[q]
    BY <1>1, <1>2, <1>3
  <2>3. CASE b = c /\ q = p
    BY <1>1, <1>2, <1>3, <2>1, <2>3
  <2>4. CASE b # c \/ q # p
    <3>1. position'[q] \in Nat /\ holdings[b][q] \in Nat
      BY <1>1, <1>2, <1>3
    <3>2. QED
      BY <1>2, <1>3, <2>1, <2>2, <2>4, <3>1
  <2>5. QED
    BY <2>3, <2>4
<1>9. ActiveIsListed'
  BY <1>4, <1>5 DEF CustodyInv, ActiveIsListed
<1>10. QED
  BY <1>6, <1>7, <1>8, <1>9 DEF CustodyInv

(* The approved exit: the frozen pool ends with nothing, and the safe one, *)
(* which is another pool since it is not frozen, with all of it.           *)
LEMMA ExitKeepsCustody ==
  ASSUME TypeOK, CustodyInv, NEW d \in Depositors, NEW c \in Currencies,
         NEW id \in 1 .. exitCounter, ApproveExit(d, c, id)
  PROVE  CustodyInv'
<1> DEFINE from  == pendingExit[c].from
           to    == pendingExit[c].to
           value == position[from]
           list  == Without(poolList[c], {from})
<1>1. /\ from \in Pools /\ to \in Pools /\ IsRoute(from, c) /\ IsRoute(to, c)
      /\ from # to
  <2>1. pendingExit[c] \in ExitProposals
    BY DEF ApproveExit, ExecuteExit, TypeOK
  <2>2. from \in frozen /\ to \notin frozen
    BY DEF ApproveExit, ExecuteExit, AcceptsInflow
  <2>3. QED
    BY <2>1, <2>2 DEF ApproveExit, ExecuteExit, ExitProposals, CustodyInv, RoutesKept
<1>2. /\ \A b \in Currencies, q \in Pools : holdings[b][q] \in Nat
      /\ \A q \in Pools : position[q] \in Nat
      /\ PerPoolCap \in Nat
  BY ConfigAssumption DEF TypeOK
<1>3. {p \in {from} : value = position[p]} = {from}
  OBVIOUS
<1>4. /\ value > 0
      /\ holdings[c][to] + value <= PerPoolCap
      /\ poolList' = [poolList EXCEPT ![c] = Enlisted(list, to)]
      /\ activePool' = [activePool EXCEPT ![c] = to]
      /\ holdings' = [holdings EXCEPT ![c][from] = Unbooked(@, value),
                                      ![c][to] = @ + value]
      /\ position' = [position EXCEPT ![from] = @ - value, ![to] = @ + value]
      /\ pendingExit' = [pendingExit EXCEPT ![c] = NoExit]
  BY <1>3 DEF ApproveExit, ExecuteExit, ExitValue, AcceptsInflow
<1> HIDE DEF from, to, list
<1>5. /\ position'[from] = 0
      /\ position'[to] = position[to] + value
      /\ \A q \in Pools \ {from, to} : position'[q] = position[q]
  BY <1>1, <1>2, <1>4 DEF TypeOK
<1>6. /\ holdings'[c][from] = 0
      /\ holdings'[c][to] = holdings[c][to] + value
      /\ \A q \in Pools \ {from, to} : holdings'[c][q] = holdings[c][q]
      /\ \A b \in Currencies \ {c} : holdings'[b] = holdings[b]
  <2>1. holdings[c][from] <= value
    BY <1>1 DEF CustodyInv, BookedIsOwedAndCapped
  <2>2. Unbooked(holdings[c][from], value) = 0
    BY <1>1, <1>2, <2>1 DEF Unbooked
  <2>3. QED
    BY <1>1, <1>4, <2>2 DEF TypeOK
<1>7. /\ poolList'[c] = Enlisted(list, to)
      /\ \A b \in Currencies \ {c} : poolList'[b] = poolList[b]
      /\ activePool'[c] = to
      /\ \A b \in Currencies \ {c} : activePool'[b] = activePool[b]
      /\ pendingExit'[c] = NoExit
      /\ \A b \in Currencies \ {c} : pendingExit'[b] = pendingExit[b]
  BY <1>4 DEF TypeOK
<1>8. /\ Listed(c)' = (Listed(c) \ {from}) \cup {to}
      /\ IsInjective(poolList[c]) => IsInjective(poolList'[c])
      /\ \A b \in Currencies \ {c} : Listed(b)' = Listed(b)
  <2>1. list \in Seq(Pools)
    BY ListUpdates DEF list, TypeOK
  <2>2. /\ ToSet(list) = ToSet(poolList[c]) \ {from}
        /\ IsInjective(poolList[c]) => IsInjective(list)
    BY ListedAfterRemoval DEF list, TypeOK
  <2>3. /\ ToSet(Enlisted(list, to)) = ToSet(list) \cup {to}
        /\ IsInjective(list) => IsInjective(Enlisted(list, to))
    BY <1>1, <2>1, ListedAfterEntry
  <2>4. QED
    BY <1>7, <2>2, <2>3 DEF Listed
<1>9. \A b \in Currencies \ {c} : ~IsRoute(from, b) /\ ~IsRoute(to, b)
  BY <1>1, OneRoute
<1>10. RoutesKept'
  <2>1. \A q \in Pools : holdings'[c][q] > 0 => IsRoute(q, c)
    BY <1>1, <1>6 DEF CustodyInv, RoutesKept
  <2>2. \A b \in Currencies, q \in Pools : holdings'[b][q] > 0 => IsRoute(q, b)
    BY <1>6, <2>1 DEF CustodyInv, RoutesKept
  <2>3. QED
    BY <1>7, <2>2 DEF CustodyInv, RoutesKept, IsRoute
<1>11. NavSeesEveryPosition'
  <2> SUFFICES ASSUME NEW b \in Currencies
               PROVE  /\ IsInjective(poolList'[b])
                      /\ \A q \in Pools : q \in Listed(b)'
                                            <=> IsRoute(q, b) /\ position'[q] > 0
    BY DEF NavSeesEveryPosition, IsRoute
  <2>1. /\ IsInjective(poolList[b])
        /\ \A q \in Pools : q \in Listed(b) <=> IsRoute(q, b) /\ position[q] > 0
    BY DEF CustodyInv, NavSeesEveryPosition
  <2>2. CASE b = c
    <3>1. position[to] \in Nat /\ value \in Nat /\ value > 0
      BY <1>1, <1>2, <1>4
    <3>2. position'[to] = position[to] + value
      BY <1>5
    <3> HIDE DEF value
    <3>3. position'[to] > 0
      BY <3>1, <3>2
    <3>4. QED
      BY <1>1, <1>5, <1>8, <2>1, <2>2, <3>3
  <2>3. CASE b # c
    BY <1>5, <1>7, <1>8, <1>9, <2>1, <2>3
  <2>4. QED
    BY <2>2, <2>3
<1>12. BookedIsOwedAndCapped'
  <2> SUFFICES ASSUME NEW b \in Currencies, NEW q \in Pools
               PROVE  /\ holdings'[b][q] <= position'[q]
                      /\ holdings'[b][q] <= PerPoolCap
    BY DEF BookedIsOwedAndCapped
  <2>1. holdings[b][q] <= position[q] /\ holdings[b][q] <= PerPoolCap
    BY DEF CustodyInv, BookedIsOwedAndCapped
  <2>2. CASE q \notin {from, to}
    BY <1>5, <1>6, <2>1, <2>2
  <2>3. CASE q = from /\ b = c
    BY <1>2, <1>5, <1>6, <2>3
  <2>4. CASE q = to /\ b = c
    <3>1. /\ holdings[c][to] \in Nat /\ position[to] \in Nat /\ value \in Nat
          /\ holdings[c][to] <= position[to]
      BY <1>1, <1>2, <2>1, <2>4
    <3>2. holdings[c][to] + value <= position[to] + value
      BY <3>1
    <3>3. QED
      BY <1>4, <1>5, <1>6, <2>4, <3>2
  <2>5. CASE q \in {from, to} /\ b # c
    <3>1. holdings[b][q] = 0
      BY <1>2, <1>9, <2>5 DEF CustodyInv, RoutesKept
    <3>2. position'[q] \in Nat
      BY <1>1, <1>2, <1>5, <2>5
    <3>3. QED
      BY <1>2, <1>6, <2>5, <3>1, <3>2
  <2>6. QED
    BY <2>2, <2>3, <2>4, <2>5
<1>13. ActiveIsListed'
  BY <1>7, <1>8 DEF CustodyInv, ActiveIsListed
<1>14. QED
  BY <1>10, <1>11, <1>12, <1>13 DEF CustodyInv

(* Interest accrues where there is a position, so no list changes.         *)
LEMMA AccrualKeepsCustody ==
  ASSUME TypeOK, CustodyInv, NEW p \in Pools, NEW interest \in Amounts,
         Accrue(p, interest)
  PROVE  CustodyInv'
<1>1. interest \in Nat /\ interest > 0 /\ PerPoolCap \in Nat
  BY ConfigAssumption
<1>2. /\ \A b \in Currencies, q \in Pools : holdings[b][q] \in Nat
      /\ \A q \in Pools : position[q] \in Nat
  BY DEF TypeOK
<1>3. /\ position[p] > 0
      /\ position'[p] = position[p] + interest
      /\ \A q \in Pools \ {p} : position'[q] = position[q]
      /\ UNCHANGED <<poolList, activePool, holdings, pendingExit>>
  BY DEF TypeOK, Accrue, bucketVars, exitVars
<1>4. \A q \in Pools : /\ position'[q] > 0 <=> position[q] > 0
                       /\ position'[q] >= position[q]
                       /\ position'[q] \in Nat
  BY <1>1, <1>2, <1>3
<1>5. NavSeesEveryPosition'
  BY <1>3, <1>4 DEF CustodyInv, NavSeesEveryPosition, Listed, IsRoute
<1>6. BookedIsOwedAndCapped'
  <2> SUFFICES ASSUME NEW b \in Currencies, NEW q \in Pools
               PROVE  /\ holdings'[b][q] <= position'[q]
                      /\ holdings'[b][q] <= PerPoolCap
    BY DEF BookedIsOwedAndCapped
  <2>1. holdings[b][q] <= position[q] /\ holdings[b][q] <= PerPoolCap
    BY DEF CustodyInv, BookedIsOwedAndCapped
  <2>2. QED
    BY <1>2, <1>3, <1>4, <2>1
<1>7. RoutesKept' /\ ActiveIsListed'
  BY <1>3 DEF CustodyInv, RoutesKept, ActiveIsListed, Listed, IsRoute
<1>8. QED
  BY <1>5, <1>6, <1>7 DEF CustodyInv

-----------------------------------------------------------------------------
LEMMA CustodyInvInit == Init => CustodyInv
<1> SUFFICES ASSUME Init
             PROVE  CustodyInv
  OBVIOUS
<1>1. /\ \A c \in Currencies : poolList[c] = <<>> /\ Listed(c) = {}
      /\ \A p \in Pools : position[p] = 0
      /\ \A c \in Currencies, p \in Pools : holdings[c][p] = 0
      /\ \A c \in Currencies : activePool[c] = NoPool /\ pendingExit[c] = NoExit
  BY DEF Init, StartedWith, Listed, ToSet
<1>2. PerPoolCap \in Nat
  BY ConfigAssumption
<1>3. QED
  BY <1>1, <1>2 DEF CustodyInv, RoutesKept, NavSeesEveryPosition,
                    BookedIsOwedAndCapped, ActiveIsListed, IsInjective

LEMMA CustodyInvStep == TypeOK /\ CustodyInv /\ [Next]_vars => CustodyInv'
<1> SUFFICES ASSUME TypeOK, CustodyInv, [Next]_vars
             PROVE  CustodyInv'
  OBVIOUS
<1>1. ASSUME NEW d \in Depositors, SetPolicyConsent(d)
      PROVE  CustodyInv'
  BY <1>1, CustodyKept DEF SetPolicyConsent, bucketVars, poolVars, exitVars
<1>2. ASSUME NEW d \in Depositors, NEW c \in Currencies, NEW amount \in Amounts,
             Deposit(d, c, amount)
      PROVE  CustodyInv'
  BY <1>2, CustodyKept DEF Deposit, poolVars, exitVars
<1>3. ASSUME NEW d \in Depositors, NEW c \in Currencies,
             NEW burned \in 1 .. shares[d][c], Withdraw(d, c, burned)
      PROVE  CustodyInv'
  <2> DEFINE assets == Payout(c, burned)
             needed == IF idle[c] < assets THEN assets - idle[c] ELSE 0
  <2>1. burned \in Nat
    BY DEF TypeOK
  <2>2. assets \in Nat
    BY <2>1, PayoutType
  <2>3. idle[c] \in Nat
    BY DEF TypeOK
  <2>4. PICK taken \in Drains(c, needed) : WithdrawFromPools(c, taken)
    BY <1>3 DEF Withdraw
  <2> HIDE DEF assets
  <2>5. needed \in Nat
    BY <2>2, <2>3
  <2> HIDE DEF needed
  <2>6. /\ taken \in [Pools -> Nat]
        /\ \A p \in Pools : taken[p] > 0 => p \in Listed(c)
    BY <2>4, <2>5 DEF Drains, Drainable
  <2>7. \A p \in Pools : taken[p] > 0 => IsRoute(p, c)
    BY <2>6 DEF CustodyInv, NavSeesEveryPosition
  <2>8. UNCHANGED pendingExit
    BY <1>3 DEF Withdraw, exitVars
  <2>9. QED
    BY <2>4, <2>6, <2>7, <2>8, WithdrawalKeepsCustody
<1>4. ASSUME NEW d \in Depositors, NEW c \in Currencies, NEW id \in 1 .. exitCounter,
             ApproveExit(d, c, id)
      PROVE  CustodyInv'
  BY <1>4, ExitKeepsCustody
<1>5. ASSUME NEW p \in Pools, NEW c \in Currencies, IsRoute(p, c),
             NEW amount \in Amounts, Allocate(p, c, amount)
      PROVE  CustodyInv'
  BY <1>5, AllocationKeepsCustody
<1>6. ASSUME NEW p \in Pools, NEW c \in Currencies, IsRoute(p, c),
             NEW amount \in Amounts, Deallocate(p, c, amount)
      PROVE  CustodyInv'
  <2> DEFINE taken == [q \in Pools |-> IF q = p THEN amount ELSE 0]
  <2>1. /\ taken \in [Pools -> Nat]
        /\ \A q \in Pools : taken[q] > 0 => q = p
        /\ WithdrawFromPools(c, taken) /\ UNCHANGED pendingExit
    BY <1>6, ConfigAssumption DEF Deallocate, exitVars
  <2> HIDE DEF taken
  <2>2. QED
    BY <1>6, <2>1, WithdrawalKeepsCustody
<1>7. ASSUME NEW p \in Pools, Freeze(p) \/ Unfreeze(p)
      PROVE  CustodyInv'
  BY <1>7, CustodyKept DEF Freeze, Unfreeze, bucketVars, poolVars, exitVars
<1>8. ASSUME NEW c \in Currencies, NEW from \in Pools, NEW to \in Pools,
             IsRoute(from, c), IsRoute(to, c), ProposeExit(c, from, to)
      PROVE  CustodyInv'
  <2>1. UNCHANGED <<poolList, activePool, holdings, position>>
    BY <1>8 DEF ProposeExit, bucketVars, poolVars
  <2>2. \A b \in Currencies :
          pendingExit'[b] # NoExit => /\ IsRoute(pendingExit'[b].from, b)
                                      /\ IsRoute(pendingExit'[b].to, b)
    BY <1>8 DEF ProposeExit, TypeOK, CustodyInv, RoutesKept
  <2>3. RoutesKept'
    BY <2>1, <2>2 DEF CustodyInv, RoutesKept, IsRoute
  <2>4. QED
    BY <2>1, <2>3 DEF CustodyInv, NavSeesEveryPosition, BookedIsOwedAndCapped,
                      ActiveIsListed, Listed
<1>9. ASSUME NEW flag \in BOOLEAN, SetPaused(flag)
      PROVE  CustodyInv'
  BY <1>9, CustodyKept DEF SetPaused, bucketVars, poolVars, exitVars
<1>10. ASSUME NEW p \in Pools, NEW flag \in BOOLEAN, SetPoolAllowed(p, flag)
       PROVE  CustodyInv'
  BY <1>10, CustodyKept DEF SetPoolAllowed, bucketVars, poolVars, exitVars
<1>11. ASSUME NEW p \in Pools, NEW amount \in Amounts, Accrue(p, amount)
       PROVE  CustodyInv'
  BY <1>11, AccrualKeepsCustody
<1>12. ASSUME NEW p \in Pools, NEW amount \in Amounts, FundPool(p, amount)
       PROVE  CustodyInv'
  BY <1>12, CustodyKept DEF FundPool, bucketVars, exitVars
<1>13. ASSUME NEW c \in Currencies, NEW amount \in Amounts, Donate(c, amount)
       PROVE  CustodyInv'
  BY <1>13, CustodyKept DEF Donate, poolVars, exitVars
<1>14. CASE UNCHANGED vars
  BY <1>14, CustodyKept DEF vars, bucketVars, poolVars, exitVars
<1>15. \A r \in Routes : r[1] \in Pools /\ r[2] \in Currencies /\ IsRoute(r[1], r[2])
  BY RouteAssumption DEF IsRoute
<1>16. QED
  BY <1>1, <1>2, <1>3, <1>4, <1>5, <1>6, <1>7, <1>8, <1>9, <1>10, <1>11, <1>12,
     <1>13, <1>14, <1>15
     DEF Next, DepositorNext, KeeperNext, AdminNext, EnvironmentNext

LEMMA CustodyInvHolds == Spec => []CustodyInv
BY TypeTheorem, CustodyInvInit, CustodyInvStep, PTL DEF Spec

(* NAV counts every position of every bucket, once, in every reachable     *)
(* state: allocations, partial withdrawals, drains over several pools and  *)
(* exits never leave money in a pool that the price of a share forgets.    *)
THEOREM NavTheorem == Spec => []NavSeesEveryPosition
BY CustodyInvHolds, PTL DEF CustodyInv

(* Booked principal is never more than the pool owes or than the cap       *)
(* allows, by whichever of the three inflows and outflows it was booked.   *)
THEOREM BookedTheorem == Spec => []BookedIsOwedAndCapped
BY CustodyInvHolds, PTL DEF CustodyInv

(* No withdrawal, pull or exit leaves an emptied pool active.              *)
THEOREM ActiveTheorem == Spec => []ActiveIsListed
BY CustodyInvHolds, PTL DEF CustodyInv
-----------------------------------------------------------------------------
(* What a step of the vault may never do: bring money into a pool past the *)
(* guards of an inflow, touch shares while paused, let a depositor's       *)
(* signature stand for another proposal than the one it was given for,     *)
(* move less than a whole position in an exit, touch two buckets, change a *)
(* bucket otherwise than BucketNav says, or cost a depositor who did not   *)
(* act. And that what a depositor may redeem can be paid.                  *)

LEMMA RoutesAreTyped ==
  \A r \in Routes : r[1] \in Pools /\ r[2] \in Currencies
BY RouteAssumption

-----------------------------------------------------------------------------
(* The guards. *)

InflowGuarded ==
  \A c \in Currencies, p \in Pools :
    holdings'[c][p] > holdings[c][p]
      => p \in allowed /\ p \notin frozen /\ ~paused

Guarded == InflowGuarded /\ (paused => UNCHANGED shares)

LEMMA NoInflow ==
  ASSUME TypeOK, UNCHANGED holdings
  PROVE  InflowGuarded
<1>1. \A c \in Currencies, p \in Pools : ~(holdings[c][p] > holdings[c][p])
  BY DEF TypeOK
<1>2. QED
  BY <1>1 DEF InflowGuarded

LEMMA OutflowOnly ==
  ASSUME TypeOK, NEW c \in Currencies, NEW taken \in [Pools -> Nat],
         WithdrawFromPools(c, taken)
  PROVE  InflowGuarded
<1> SUFFICES ASSUME NEW b \in Currencies, NEW p \in Pools
             PROVE  ~(holdings'[b][p] > holdings[b][p])
  BY DEF InflowGuarded
<1>1. holdings[b][p] \in Nat /\ taken[p] \in Nat
  BY DEF TypeOK
<1>2. holdings'[b][p] = IF b = c THEN Unbooked(holdings[b][p], taken[p])
                                 ELSE holdings[b][p]
  BY DEF TypeOK, WithdrawFromPools
<1>3. QED
  BY <1>1, <1>2 DEF Unbooked

LEMMA GuardedStep == TypeOK /\ [Next]_vars => Guarded
<1> SUFFICES ASSUME TypeOK, [Next]_vars
             PROVE  Guarded
  OBVIOUS
<1>1. ASSUME NEW d \in Depositors, SetPolicyConsent(d)
      PROVE  Guarded
  BY <1>1, NoInflow DEF SetPolicyConsent, bucketVars, Guarded
<1>2. ASSUME NEW d \in Depositors, NEW c \in Currencies, NEW amount \in Amounts,
             Deposit(d, c, amount)
      PROVE  Guarded
  BY <1>2, NoInflow DEF Deposit, Guarded
<1>3. ASSUME NEW d \in Depositors, NEW c \in Currencies,
             NEW burned \in 1 .. shares[d][c], Withdraw(d, c, burned)
      PROVE  Guarded
  <2> DEFINE assets == Payout(c, burned)
             needed == IF idle[c] < assets THEN assets - idle[c] ELSE 0
  <2>1. burned \in Nat /\ idle[c] \in Nat
    BY DEF TypeOK
  <2>2. assets \in Nat
    BY <2>1, PayoutType
  <2>3. PICK taken \in Drains(c, needed) : WithdrawFromPools(c, taken)
    BY <1>3 DEF Withdraw
  <2> HIDE DEF assets
  <2>4. needed \in Nat
    BY <2>1, <2>2
  <2> HIDE DEF needed
  <2>5. taken \in [Pools -> Nat]
    BY <2>3, <2>4 DEF Drains
  <2>6. InflowGuarded
    BY <2>3, <2>5, OutflowOnly
  <2>7. QED
    BY <1>3, <2>6 DEF Withdraw, Guarded
<1>4. ASSUME NEW d \in Depositors, NEW c \in Currencies, NEW id \in 1 .. exitCounter,
             ApproveExit(d, c, id)
      PROVE  Guarded
  <2> DEFINE from  == pendingExit[c].from
             to    == pendingExit[c].to
             value == position[from]
  <2>1. from \in Pools /\ to \in Pools
    BY <1>4 DEF ApproveExit, TypeOK, ExitProposals
  <2>2. /\ to \in allowed /\ to \notin frozen /\ ~paused
        /\ holdings' = [holdings EXCEPT ![c][from] = Unbooked(@, value),
                                        ![c][to] = @ + value]
        /\ UNCHANGED shares
    BY <1>4 DEF ApproveExit, ExecuteExit, ExitValue, AcceptsInflow, depositorVars
  <2>3. value \in Nat /\ \A b \in Currencies, p \in Pools : holdings[b][p] \in Nat
    BY <2>1 DEF TypeOK
  <2> HIDE DEF from, to, value
  <2>4. \A b \in Currencies, p \in Pools \ {to} :
          ~(holdings'[b][p] > holdings[b][p])
    <3> SUFFICES ASSUME NEW b \in Currencies, NEW p \in Pools \ {to}
                 PROVE  ~(holdings'[b][p] > holdings[b][p])
      OBVIOUS
    <3>1. holdings'[b][p] = IF b = c /\ p = from THEN Unbooked(holdings[b][p], value)
                                                 ELSE holdings[b][p]
      BY <2>1, <2>2 DEF TypeOK
    <3>2. QED
      BY <2>3, <3>1 DEF Unbooked
  <2>5. QED
    BY <2>2, <2>4 DEF Guarded, InflowGuarded
<1>5. ASSUME NEW p \in Pools, NEW c \in Currencies, NEW amount \in Amounts,
             Allocate(p, c, amount)
      PROVE  Guarded
  <2>1. /\ p \in allowed /\ p \notin frozen /\ ~paused
        /\ holdings' = [holdings EXCEPT ![c][p] = @ + amount]
        /\ UNCHANGED shares
    BY <1>5 DEF Allocate, AcceptsInflow, depositorVars
  <2>2. \A b \in Currencies, q \in Pools :
          holdings[b][q] \in Nat /\ (q # p => holdings'[b][q] = holdings[b][q])
    BY <2>1 DEF TypeOK
  <2>3. QED
    BY <2>1, <2>2 DEF Guarded, InflowGuarded
<1>6. ASSUME NEW p \in Pools, NEW c \in Currencies, NEW amount \in Amounts,
             Deallocate(p, c, amount)
      PROVE  Guarded
  <2> DEFINE taken == [q \in Pools |-> IF q = p THEN amount ELSE 0]
  <2>1. taken \in [Pools -> Nat] /\ WithdrawFromPools(c, taken) /\ UNCHANGED shares
    BY <1>6, ConfigAssumption DEF Deallocate, depositorVars
  <2> HIDE DEF taken
  <2>2. QED
    BY <2>1, OutflowOnly DEF Guarded
<1>7. ASSUME NEW p \in Pools, Freeze(p) \/ Unfreeze(p)
      PROVE  Guarded
  BY <1>7, NoInflow DEF Freeze, Unfreeze, depositorVars, bucketVars, Guarded
<1>8. ASSUME NEW c \in Currencies, NEW from \in Pools, NEW to \in Pools,
             ProposeExit(c, from, to)
      PROVE  Guarded
  BY <1>8, NoInflow DEF ProposeExit, depositorVars, bucketVars, Guarded
<1>9. ASSUME AdminNext \/ EnvironmentNext
      PROVE  Guarded
  BY <1>9, NoInflow DEF AdminNext, EnvironmentNext, SetPaused, SetPoolAllowed,
     Accrue, FundPool, Donate, depositorVars, bucketVars, Guarded
<1>10. CASE UNCHANGED vars
  BY <1>10, NoInflow DEF vars, depositorVars, bucketVars, Guarded
<1>11. QED
  BY <1>1, <1>2, <1>3, <1>4, <1>5, <1>6, <1>7, <1>8, <1>9, <1>10, RoutesAreTyped
     DEF Next, DepositorNext, KeeperNext

(* Whichever of the calls brings it, money enters only a pool that is      *)
(* vetted and not frozen while the vault is not paused, and a paused vault *)
(* leaves every depositor's shares alone.                                  *)
THEOREM GuardTheorem == Spec => GuardsHold
BY TypeTheorem, GuardedStep, PTL DEF Spec, GuardsHold, Guarded, InflowGuarded

-----------------------------------------------------------------------------
(* The proposals. *)

Pending(c) == pendingExit[c] # NoExit

(* A pending id was given out already, so the next one is another, and two *)
(* buckets never wait for the same id.                                     *)
IdsGivenOnce ==
  /\ \A c \in Currencies : Pending(c) => pendingExit[c].id <= exitCounter
  /\ \A b, c \in Currencies :
       Pending(b) /\ Pending(c) /\ pendingExit[b].id = pendingExit[c].id => b = c

(* An id that was given out, and one of which no proposal is left.         *)
Given(id) == id <= exitCounter

Spent(id) == Given(id) /\ ~IsPending(id)

(* What a step does to the ids: it keeps what is pending, and gives out no *)
(* id a second time.                                                       *)
IdsKept ==
  /\ IdsGivenOnce' /\ ProposalKept
  /\ \A id \in Nat : /\ Given(id) => Given(id)'
                     /\ Spent(id) => Spent(id)'

(* Every call but the proposal itself at most withdraws a proposal.        *)
LEMMA ProposalsOnlyGo ==
  ASSUME TypeOK, IdsGivenOnce, UNCHANGED exitCounter,
         \A c \in Currencies : pendingExit'[c] \in {pendingExit[c], NoExit}
  PROVE  IdsKept
BY DEF IdsGivenOnce, ProposalKept, Pending, IdsKept, Given, Spent, IsPending

LEMMA NewProposal ==
  ASSUME TypeOK, IdsGivenOnce, NEW c \in Currencies, NEW from \in Pools,
         NEW to \in Pools, ProposeExit(c, from, to)
  PROVE  IdsKept
<1>1. /\ exitCounter \in Nat /\ exitCounter' = exitCounter + 1
      /\ pendingExit'[c].id = exitCounter + 1
      /\ \A b \in Currencies \ {c} : pendingExit'[b] = pendingExit[b]
  BY DEF ProposeExit, NextExitId, TypeOK
<1>2. \A b \in Currencies :
        Pending(b) => pendingExit[b].id \in Nat /\ pendingExit[b].id <= exitCounter
  BY DEF TypeOK, IdsGivenOnce, Pending, ExitProposals
<1>3. \A b \in Currencies : Pending(b) => pendingExit[b].id # pendingExit'[c].id
  BY <1>1, <1>2
<1>4. IdsGivenOnce'
  <2>1. \A b \in Currencies : Pending(b)' => pendingExit'[b].id <= exitCounter'
    BY <1>1, <1>2 DEF Pending
  <2>2. \A a, b \in Currencies :
          Pending(a)' /\ Pending(b)' /\ pendingExit'[a].id = pendingExit'[b].id
            => a = b
    BY <1>1, <1>3 DEF Pending, IdsGivenOnce
  <2>3. QED
    BY <2>1, <2>2 DEF IdsGivenOnce
<1>5. ProposalKept
  BY <1>1, <1>3 DEF ProposalKept, IdsGivenOnce, Pending
<1>6. ASSUME NEW id \in Nat
      PROVE  /\ Given(id) => Given(id)'
             /\ Spent(id) => Spent(id)'
  <2>1. Given(id) => Given(id)' /\ id # pendingExit'[c].id
    BY <1>1 DEF Given
  <2>2. Spent(id) => ~IsPending(id)'
    BY <1>1, <2>1 DEF Spent, IsPending
  <2>3. QED
    BY <2>1, <2>2 DEF Spent
<1>7. QED
  BY <1>4, <1>5, <1>6 DEF IdsKept

LEMMA IdsGivenOnceInit == Init => IdsGivenOnce
BY DEF Init, StartedWith, IdsGivenOnce, Pending

LEMMA IdsGivenOnceStep == TypeOK /\ IdsGivenOnce /\ [Next]_vars => IdsKept
<1> SUFFICES ASSUME TypeOK, IdsGivenOnce, [Next]_vars
             PROVE  IdsKept
  OBVIOUS
<1>1. CASE UNCHANGED exitVars
  BY <1>1, ProposalsOnlyGo DEF exitVars
<1>2. ASSUME NEW d \in Depositors, NEW c \in Currencies, NEW id \in 1 .. exitCounter,
             ApproveExit(d, c, id)
      PROVE  IdsKept
  <2>1. /\ UNCHANGED exitCounter
        /\ \A b \in Currencies : pendingExit'[b] \in {pendingExit[b], NoExit}
    BY <1>2 DEF ApproveExit, TypeOK
  <2>2. QED
    BY <2>1, ProposalsOnlyGo
<1>3. ASSUME NEW r \in Routes, NEW s \in Routes, ProposeExit(r[2], r[1], s[1])
      PROVE  IdsKept
  BY <1>3, RoutesAreTyped, NewProposal
<1>4. ASSUME DepositorNext
      PROVE  IdsKept
  BY <1>1, <1>2, <1>4 DEF DepositorNext, SetPolicyConsent, Deposit, Withdraw
<1>5. ASSUME KeeperNext
      PROVE  IdsKept
  BY <1>1, <1>3, <1>5 DEF KeeperNext, Allocate, Deallocate, Freeze, Unfreeze
<1>6. ASSUME AdminNext \/ EnvironmentNext
      PROVE  UNCHANGED exitVars
  BY <1>6 DEF AdminNext, EnvironmentNext, SetPaused, SetPoolAllowed, Accrue,
              FundPool, Donate
<1>7. CASE UNCHANGED vars
  BY <1>1, <1>7 DEF vars
<1>8. QED
  BY <1>1, <1>4, <1>5, <1>6, <1>7 DEF Next

(* The signature of a depositor who read a proposal can move funds between *)
(* the pools of that proposal only: however often the keeper re-proposes,  *)
(* its id is never that of another one, and once it was replaced or        *)
(* approved no proposal ever has it again (allocate.rs, next_exit_id).     *)
THEOREM ProposalTheorem == Spec => ExitIdNamesOneProposal
<1>1. Spec => []IdsGivenOnce
  <2>1. IdsKept => IdsGivenOnce'
    BY DEF IdsKept
  <2>2. QED
    BY TypeTheorem, IdsGivenOnceInit, IdsGivenOnceStep, <2>1, PTL DEF Spec
<1>2. Spec => [][IdsKept]_vars
  BY TypeTheorem, <1>1, IdsGivenOnceStep, PTL DEF Spec
<1>3. Spec => [][ProposalKept]_vars
  <2>1. IdsKept => ProposalKept
    BY DEF IdsKept
  <2>2. QED
    BY <1>2, <2>1, PTL
<1>4. ASSUME NEW CONSTANT id \in Nat
      PROVE  Spec => [](IsPending(id) => [](~IsPending(id) => []~IsPending(id)))
  <2>1. TypeOK /\ IdsGivenOnce => (IsPending(id) => Given(id))
    BY DEF TypeOK, IdsGivenOnce, Pending, IsPending, Given
  <2>2. [IdsKept]_vars => (Given(id) => Given(id)') /\ (Spent(id) => Spent(id)')
    <3>1. CASE IdsKept
      BY <3>1 DEF IdsKept
    <3>2. CASE UNCHANGED vars
      BY <3>2 DEF vars, exitVars, Given, Spent, IsPending
    <3>3. QED
      BY <3>1, <3>2
  <2>3. Spent(id) <=> Given(id) /\ ~IsPending(id)
    BY DEF Spent
  <2>4. QED
    BY TypeTheorem, <1>1, <1>2, <2>1, <2>2, <2>3, PTL
<1>5. ASSUME NEW CONSTANT id \in ExitIds
      PROVE  Spec => [](IsPending(id) => [](~IsPending(id) => []~IsPending(id)))
  BY <1>4, ConfigAssumption
<1>6. QED
  BY <1>3, <1>5 DEF ExitIdNamesOneProposal

-----------------------------------------------------------------------------
(* The exit. *)

WholeExit ==
  \A c \in Currencies :
    pendingExit[c] # NoExit /\ pendingExit'[c] = NoExit
      => LET from == pendingExit[c].from
             to   == pendingExit[c].to
         IN /\ position'[from] = 0
            /\ position'[to] = position[to] + position[from]
            /\ UNCHANGED idle

LEMMA WholeExitStep == TypeOK /\ [Next]_vars => WholeExit
<1> SUFFICES ASSUME TypeOK, [Next]_vars, NEW c \in Currencies,
                    pendingExit[c] # NoExit, pendingExit'[c] = NoExit
             PROVE  /\ position'[pendingExit[c].from] = 0
                    /\ position'[pendingExit[c].to]
                         = position[pendingExit[c].to] + position[pendingExit[c].from]
                    /\ UNCHANGED idle
  BY DEF WholeExit
<1>1. ASSUME NEW d \in Depositors, NEW b \in Currencies, NEW id \in 1 .. exitCounter,
             ApproveExit(d, b, id)
      PROVE  /\ position'[pendingExit[c].from] = 0
             /\ position'[pendingExit[c].to]
                  = position[pendingExit[c].to] + position[pendingExit[c].from]
             /\ UNCHANGED idle
  <2>1. b = c
    BY <1>1 DEF ApproveExit, TypeOK
  <2> DEFINE from  == pendingExit[c].from
             to    == pendingExit[c].to
             value == position[from]
  <2>2. from \in Pools /\ to \in Pools
    BY DEF TypeOK, ExitProposals
  <2>3. /\ from # to
        /\ position' = [position EXCEPT ![from] = @ - value, ![to] = @ + value]
        /\ UNCHANGED idle
    BY <1>1, <2>1 DEF ApproveExit, ExecuteExit, ExitValue, AcceptsInflow
  <2>4. QED
    BY <2>2, <2>3, SMTT(30) DEF TypeOK
<1>2. ASSUME NEW r \in Routes, NEW s \in Routes, ProposeExit(r[2], r[1], s[1])
      PROVE  FALSE
  <2>1. [id |-> NextExitId, currency |-> r[2], from |-> r[1], to |-> s[1]]
          \in ExitProposals
    BY RoutesAreTyped DEF NextExitId, TypeOK, ExitProposals
  <2>2. pendingExit'[c] # NoExit
    BY <1>2, <2>1, ConfigAssumption DEF ProposeExit, TypeOK
  <2>3. QED
    BY <2>2
<1>3. ~UNCHANGED pendingExit
  OBVIOUS
<1>4. ~AdminNext /\ ~EnvironmentNext /\ ~UNCHANGED vars
  BY <1>3 DEF AdminNext, EnvironmentNext, SetPaused, SetPoolAllowed, Accrue,
              FundPool, Donate, vars, exitVars
<1>5. ~KeeperNext
  BY <1>2, <1>3 DEF KeeperNext, Allocate, Deallocate, Freeze, Unfreeze, exitVars
<1>6. CASE DepositorNext
  BY <1>1, <1>3, <1>6
     DEF DepositorNext, SetPolicyConsent, Deposit, Withdraw, exitVars
<1>7. QED
  BY <1>4, <1>5, <1>6 DEF Next

(* When a proposal is approved, nothing stays behind in the frozen pool:   *)
(* all the vault is owed there, interest included, is owed by the safe     *)
(* pool afterwards, and no other call makes a pending proposal vanish.     *)
THEOREM ExitTheorem == Spec => ExitMovesWholePosition
BY TypeTheorem, WholeExitStep, PTL DEF Spec, ExitMovesWholePosition, WholeExit

-----------------------------------------------------------------------------
(* The buckets. *)

LeftAlone(b) ==
  /\ UNCHANGED <<idle[b], totalShares[b], holdings[b], poolList[b]>>
  /\ \A p \in Listed(b) : position'[p] = position[p]

OthersLeftAlone(c) == \A b \in Currencies \ {c} : LeftAlone(b)

LEMMA NavLeftAlone ==
  ASSUME NEW b \in Currencies, LeftAlone(b)
  PROVE  UNCHANGED Nav(b)
<1>1. SumOver(position, Listed(b)) = SumOver(position', Listed(b))
  BY SumSame DEF LeftAlone
<1>2. Listed(b)' = Listed(b) /\ idle'[b] = idle[b]
  BY DEF LeftAlone, Listed
<1>3. QED
  BY <1>1, <1>2 DEF Nav

(* Pools have one route, so a move in pools of c is no other bucket's.     *)
LEMMA MovesInOneBucket ==
  ASSUME TypeOK, CustodyInv, NEW c \in Currencies,
         \A b \in Currencies \ {c} :
           UNCHANGED <<idle[b], totalShares[b], holdings[b], poolList[b]>>,
         \A p \in Pools : position'[p] # position[p] => IsRoute(p, c)
  PROVE  OthersLeftAlone(c)
<1> SUFFICES ASSUME NEW b \in Currencies \ {c}, NEW p \in Listed(b)
             PROVE  position'[p] = position[p]
  BY DEF OthersLeftAlone, LeftAlone
<1>1. p \in Pools
  BY ListedArePools
<1>2. IsRoute(p, b)
  BY <1>1 DEF CustodyInv, NavSeesEveryPosition
<1>3. QED
  BY <1>1, <1>2, OneRoute

LEMMA WithdrawalInOneBucket ==
  ASSUME TypeOK, CustodyInv, NEW c \in Currencies, NEW taken \in [Pools -> Nat],
         \A p \in Pools : taken[p] > 0 => IsRoute(p, c),
         WithdrawFromPools(c, taken),
         \A b \in Currencies \ {c} : UNCHANGED <<idle[b], totalShares[b]>>
  PROVE  OthersLeftAlone(c)
<1>1. \A b \in Currencies \ {c} : UNCHANGED <<holdings[b], poolList[b]>>
  BY DEF TypeOK, WithdrawFromPools
<1>2. \A p \in Pools : taken[p] = 0 => position'[p] = position[p]
  BY DEF TypeOK, WithdrawFromPools
<1>3. \A p \in Pools : position'[p] # position[p] => IsRoute(p, c)
  BY <1>2
<1>4. QED
  BY <1>1, <1>3, MovesInOneBucket

(* The calls that move the money or the shares of bucket c.                *)
BucketStep(c) ==
  \/ \E d \in Depositors :
       \/ \E amount \in Amounts : Deposit(d, c, amount)
       \/ \E burned \in 1 .. shares[d][c] : Withdraw(d, c, burned)
       \/ \E id \in 1 .. exitCounter : ApproveExit(d, c, id)
  \/ \E p \in Pools, amount \in Amounts :
       /\ IsRoute(p, c)
       /\ Allocate(p, c, amount) \/ Deallocate(p, c, amount) \/ Accrue(p, amount)

(* A step moves one bucket at most, and that by one of these calls.        *)
LEMMA StepOfOneBucket ==
  ASSUME TypeOK, CustodyInv, [Next]_vars
  PROVE  \/ \A b \in Currencies : LeftAlone(b)
         \/ \E c \in Currencies : BucketStep(c) /\ OthersLeftAlone(c)
<1> DEFINE NoneMoves == \A b \in Currencies : LeftAlone(b)
           OneMoves == \E c \in Currencies : BucketStep(c) /\ OthersLeftAlone(c)
<1>1. ASSUME NEW c \in Currencies, BucketStep(c), OthersLeftAlone(c)
      PROVE  OneMoves
  BY <1>1
<1>2. ASSUME UNCHANGED <<idle, totalShares, holdings, poolList, position>>
      PROVE  NoneMoves
  BY <1>2 DEF LeftAlone
<1> HIDE DEF NoneMoves, OneMoves
<1>3. ASSUME NEW d \in Depositors, SetPolicyConsent(d)
      PROVE  NoneMoves
  BY <1>2, <1>3 DEF SetPolicyConsent, bucketVars, poolVars
<1>4. ASSUME NEW d \in Depositors, NEW c \in Currencies, NEW amount \in Amounts,
             Deposit(d, c, amount)
      PROVE  OneMoves
  <2>1. \A a \in Currencies \ {c} :
          UNCHANGED <<idle[a], totalShares[a], holdings[a], poolList[a]>>
    BY <1>4 DEF Deposit, Mint, TypeOK
  <2>2. UNCHANGED position
    BY <1>4 DEF Deposit, poolVars
  <2>3. BucketStep(c)
    BY <1>4 DEF BucketStep
  <2>4. QED
    BY <1>1, <2>1, <2>2, <2>3, MovesInOneBucket
<1>5. ASSUME NEW d \in Depositors, NEW c \in Currencies,
             NEW burned \in 1 .. shares[d][c], Withdraw(d, c, burned)
      PROVE  OneMoves
  <2> DEFINE assets == Payout(c, burned)
             needed == IF idle[c] < assets THEN assets - idle[c] ELSE 0
  <2>1. burned \in Nat /\ idle[c] \in Nat
    BY DEF TypeOK
  <2>2. assets \in Nat
    BY <2>1, PayoutType
  <2>3. PICK taken \in Drains(c, needed) : WithdrawFromPools(c, taken)
    BY <1>5 DEF Withdraw
  <2>4. \A a \in Currencies \ {c} : UNCHANGED <<idle[a], totalShares[a]>>
    BY <1>5 DEF Withdraw, Burn, TypeOK
  <2> HIDE DEF assets
  <2>5. needed \in Nat
    BY <2>1, <2>2
  <2> HIDE DEF needed
  <2>6. /\ taken \in [Pools -> Nat]
        /\ \A p \in Pools : taken[p] > 0 => p \in Listed(c)
    BY <2>3, <2>5 DEF Drains, Drainable
  <2>7. \A p \in Pools : taken[p] > 0 => IsRoute(p, c)
    BY <2>6 DEF CustodyInv, NavSeesEveryPosition
  <2>8. BucketStep(c)
    BY <1>5 DEF BucketStep
  <2>9. QED
    BY <1>1, <2>3, <2>4, <2>6, <2>7, <2>8, WithdrawalInOneBucket
<1>6. ASSUME NEW d \in Depositors, NEW c \in Currencies, NEW id \in 1 .. exitCounter,
             ApproveExit(d, c, id)
      PROVE  OneMoves
  <2> DEFINE from  == pendingExit[c].from
             to    == pendingExit[c].to
  <2>1. IsRoute(from, c) /\ IsRoute(to, c)
    BY <1>6 DEF ApproveExit, CustodyInv, RoutesKept
  <2>2. \A a \in Currencies \ {c} :
          UNCHANGED <<idle[a], totalShares[a], holdings[a], poolList[a]>>
    BY <1>6 DEF ApproveExit, ExecuteExit, TypeOK, depositorVars
  <2>3. \A p \in Pools \ {from, to} : position'[p] = position[p]
    BY <1>6 DEF ApproveExit, ExecuteExit, TypeOK
  <2> HIDE DEF from, to
  <2>4. BucketStep(c)
    BY <1>6 DEF BucketStep
  <2>5. QED
    BY <1>1, <2>1, <2>2, <2>3, <2>4, MovesInOneBucket
<1>7. ASSUME NEW p \in Pools, NEW c \in Currencies, IsRoute(p, c),
             NEW amount \in Amounts, Allocate(p, c, amount)
      PROVE  OneMoves
  <2>1. \A a \in Currencies \ {c} :
          UNCHANGED <<idle[a], totalShares[a], holdings[a], poolList[a]>>
    BY <1>7 DEF Allocate, TypeOK, depositorVars
  <2>2. \A q \in Pools \ {p} : position'[q] = position[q]
    BY <1>7 DEF Allocate, TypeOK
  <2>3. BucketStep(c)
    BY <1>7 DEF BucketStep
  <2>4. QED
    BY <1>1, <1>7, <2>1, <2>2, <2>3, MovesInOneBucket
<1>8. ASSUME NEW p \in Pools, NEW c \in Currencies, IsRoute(p, c),
             NEW amount \in Amounts, Deallocate(p, c, amount)
      PROVE  OneMoves
  <2> DEFINE taken == [q \in Pools |-> IF q = p THEN amount ELSE 0]
  <2>1. /\ taken \in [Pools -> Nat]
        /\ \A q \in Pools : taken[q] > 0 => q = p
        /\ WithdrawFromPools(c, taken)
        /\ \A a \in Currencies \ {c} : UNCHANGED <<idle[a], totalShares[a]>>
    BY <1>8, ConfigAssumption DEF Deallocate, depositorVars, TypeOK
  <2> HIDE DEF taken
  <2>2. BucketStep(c)
    BY <1>8 DEF BucketStep
  <2>3. QED
    BY <1>1, <1>8, <2>1, <2>2, WithdrawalInOneBucket
<1>9. ASSUME NEW p \in Pools, Freeze(p) \/ Unfreeze(p)
      PROVE  NoneMoves
  BY <1>2, <1>9 DEF Freeze, Unfreeze, depositorVars, bucketVars, poolVars
<1>10. ASSUME NEW c \in Currencies, NEW from \in Pools, NEW to \in Pools,
              ProposeExit(c, from, to)
       PROVE  NoneMoves
  BY <1>2, <1>10 DEF ProposeExit, depositorVars, bucketVars, poolVars
<1>11. ASSUME AdminNext
       PROVE  NoneMoves
  BY <1>2, <1>11 DEF AdminNext, SetPaused, SetPoolAllowed, depositorVars,
                     bucketVars, poolVars
<1>12. ASSUME NEW p \in Pools, NEW amount \in Amounts, Accrue(p, amount)
       PROVE  NoneMoves \/ OneMoves
  <2>1. UNCHANGED <<idle, totalShares, holdings, poolList>>
    BY <1>12 DEF Accrue, depositorVars, bucketVars
  <2>2. \A q \in Pools \ {p} : position'[q] = position[q]
    BY <1>12 DEF Accrue, TypeOK
  <2>3. ASSUME NEW c \in Currencies, IsRoute(p, c)
        PROVE  OneMoves
    <3>1. BucketStep(c)
      BY <1>12, <2>3 DEF BucketStep
    <3>2. QED
      BY <1>1, <2>1, <2>2, <2>3, <3>1, MovesInOneBucket
  <2>4. ASSUME \A b \in Currencies : ~IsRoute(p, b)
        PROVE  NoneMoves
    <3>1. \A b \in Currencies : p \notin Listed(b)
      BY <2>4 DEF CustodyInv, NavSeesEveryPosition
    <3>2. \A b \in Currencies : \A q \in Listed(b) : position'[q] = position[q]
      BY <2>2, <3>1, ListedArePools
    <3>3. QED
      BY <2>1, <3>2 DEF LeftAlone, NoneMoves
  <2>5. QED
    BY <2>3, <2>4
<1>13. ASSUME NEW p \in Pools, NEW amount \in Amounts, FundPool(p, amount)
       PROVE  NoneMoves
  BY <1>2, <1>13 DEF FundPool, depositorVars, bucketVars
<1>14. ASSUME NEW c \in Currencies, NEW amount \in Amounts, Donate(c, amount)
       PROVE  NoneMoves
  BY <1>2, <1>14 DEF Donate, depositorVars, poolVars
<1>15. ASSUME UNCHANGED vars
       PROVE  NoneMoves
  BY <1>2, <1>15 DEF vars, depositorVars, bucketVars, poolVars
<1>16. \A r \in Routes : IsRoute(r[1], r[2])
  BY RouteAssumption DEF IsRoute
<1>17. NoneMoves \/ OneMoves
  BY <1>3, <1>4, <1>5, <1>6, <1>7, <1>8, <1>9, <1>10, <1>11, <1>12, <1>13, <1>14,
     <1>15, <1>16, RoutesAreTyped
     DEF Next, DepositorNext, KeeperNext, EnvironmentNext
<1>18. QED
  BY <1>17 DEF NoneMoves, OneMoves

Unblended ==
  \A b, c \in Currencies :
    <<idle[b], totalShares[b], Nav(b)>>' # <<idle[b], totalShares[b], Nav(b)>>
    /\ b # c
      => UNCHANGED <<idle[c], totalShares[c], Nav(c), holdings[c], poolList[c]>>

LEMMA UnblendedStep == TypeOK /\ CustodyInv /\ [Next]_vars => Unblended
<1> SUFFICES ASSUME TypeOK, CustodyInv, [Next]_vars, NEW b \in Currencies,
                    NEW c \in Currencies \ {b},
                    ~UNCHANGED <<idle[b], totalShares[b], Nav(b)>>
             PROVE  UNCHANGED <<idle[c], totalShares[c], Nav(c), holdings[c],
                                poolList[c]>>
  BY DEF Unblended
<1>1. ~LeftAlone(b)
  BY NavLeftAlone DEF LeftAlone
<1>2. OthersLeftAlone(b)
  BY <1>1, StepOfOneBucket DEF OthersLeftAlone
<1>3. LeftAlone(c)
  BY <1>2 DEF OthersLeftAlone
<1>4. QED
  BY <1>3, NavLeftAlone DEF LeftAlone

(* The currencies never blend: no call, no exit and no interest moves the  *)
(* money, the shares or the price of two buckets in one step.              *)
THEOREM SeparationTheorem == Spec => BucketsDoNotBlend
BY TypeTheorem, CustodyInvHolds, UnblendedStep, PTL
   DEF Spec, BucketsDoNotBlend, Unblended

-----------------------------------------------------------------------------
(* The net asset value. *)

(* What is withdrawn from listed pools is what their sum falls by, though  *)
(* the pools that are emptied leave the list.                              *)
LEMMA WithdrawalFromNav ==
  ASSUME TypeOK, CustodyInv, NEW c \in Currencies, NEW taken \in [Pools -> Nat],
         \A p \in Pools : taken[p] > 0 => p \in Listed(c),
         WithdrawFromPools(c, taken)
  PROVE  /\ SumOver(position', Listed(c)') \in Nat
         /\ SumOver(position, Listed(c))
              = SumOver(position', Listed(c)') + SumOver(taken, Pools)
<1> DEFINE gone == Emptied(c, taken)
<1>1. Listed(c) \in SUBSET Pools /\ IsFiniteSet(Listed(c)) /\ IsFiniteSet(Pools)
  BY ListedArePools, ConfigAssumption
<1>2. Listed(c)' = Listed(c) \ gone
  <2>1. poolList'[c] = Without(poolList[c], gone) /\ poolList[c] \in Seq(Pools)
    BY DEF WithdrawFromPools, TypeOK
  <2> HIDE DEF gone
  <2>2. QED
    BY <2>1, ListedAfterRemoval DEF Listed
<1>3. \A p \in Pools : /\ position[p] \in Nat /\ taken[p] \in Nat
                       /\ taken[p] <= position[p]
                       /\ position'[p] = position[p] - taken[p]
  BY DEF WithdrawFromPools, CanPay, TypeOK
<1>4. \A p \in Pools : /\ position'[p] \in Nat
                       /\ position[p] = position'[p] + taken[p]
  BY <1>3
<1>5. SumOver(position, Listed(c))
        = SumOver(position', Listed(c)) + SumOver(taken, Listed(c))
  BY <1>1, <1>3, <1>4, SumAdds
<1>6. SumOver(taken, Pools) = SumOver(taken, Listed(c))
  <2>1. \A p \in Pools \ Listed(c) : taken[p] = 0
    OBVIOUS
  <2>2. QED
    BY <1>1, <2>1, SumWithZeros
<1>7. SumOver(position', Listed(c)) = SumOver(position', Listed(c)')
  <2>1. \A p \in Pools : p \in gone => position'[p] = 0
    BY <1>3 DEF Emptied
  <2>2. Listed(c)' \in SUBSET Listed(c)
    BY <1>2
  <2>3. \A p \in Listed(c) \ Listed(c)' : position'[p] = 0
    BY <1>1, <1>2, <2>1
  <2> HIDE DEF gone
  <2>4. QED
    BY <2>2, <2>3, SumWithZeros
<1>8. SumOver(position', Listed(c)) \in Nat
  BY <1>1, <1>4, SumType
<1>9. QED
  BY <1>5, <1>6, <1>7, <1>8

(* A deallocation takes its amount from a pool that is listed.             *)
LEMMA OnePoolSum ==
  ASSUME NEW p \in Pools, NEW amount \in Nat
  PROVE  SumOver([q \in Pools |-> IF q = p THEN amount ELSE 0], Pools) = amount
<1> DEFINE taken == [q \in Pools |-> IF q = p THEN amount ELSE 0]
<1>1. taken[p] = amount /\ \A q \in Pools \ {p} : taken[q] = 0
  OBVIOUS
<1>2. IsFiniteSet({p}) /\ {p} \in SUBSET Pools
  BY FS_Singleton
<1> HIDE DEF taken
<1>3. SumOver(taken, Pools) = SumOver(taken, {p})
  BY <1>1, <1>2, SumWithZeros
<1>4. SumOver(taken, {p}) = SumOver(taken, {p} \ {p}) + taken[p]
  BY <1>1, <1>2, SumSplit
<1>5. SumOver(taken, {p} \ {p}) = 0
  <2>1. {p} \ {p} = {}
    OBVIOUS
  <2>2. QED
    BY <2>1, SumEmpty
<1>6. SumOver(taken, Pools) = amount
  BY <1>1, <1>3, <1>4, <1>5
<1>7. QED
  BY <1>6 DEF taken

(* What enters a pool adds to the sum, listed before or only now.          *)
LEMMA InflowToNav ==
  ASSUME TypeOK, NEW c \in Currencies, NEW p \in Pools, NEW amount \in Nat,
         NEW after \in [Pools -> Nat],
         p \notin Listed(c) => position[p] = 0,
         after[p] = position[p] + amount,
         \A q \in Pools \ {p} : after[q] = position[q]
  PROVE  SumOver(after, Listed(c) \cup {p})
           = SumOver(position, Listed(c)) + amount
<1> DEFINE joined == Listed(c) \cup {p}
<1>1. /\ Listed(c) \in SUBSET Pools /\ IsFiniteSet(Listed(c))
      /\ joined \in SUBSET Pools /\ IsFiniteSet(joined) /\ p \in joined
  BY ListedArePools, FS_AddElement
<1>2. \A q \in Pools : position[q] \in Nat /\ after[q] \in Nat
  BY DEF TypeOK
<1>3. SumOver(position, joined) = SumOver(position, Listed(c))
  <2>1. /\ Listed(c) \in SUBSET joined
        /\ \A q \in joined \ Listed(c) : position[q] = 0
    OBVIOUS
  <2> HIDE DEF joined
  <2>2. QED
    BY <2>1, SumWithZeros
<1> HIDE DEF joined
<1>4. SumOver(after, joined) = SumOver(position, joined) - position[p] + after[p]
  <2>1. /\ \A q \in joined : position[q] \in Nat
        /\ \A q \in joined : after[q] \in Nat
        /\ \A q \in joined \ {p} : after[q] = position[q]
    BY <1>1, <1>2
  <2>2. QED
    BY <1>1, <2>1, SumChange
<1>5. SumOver(position, joined) \in Nat
  BY <1>1, <1>2, SumType
<1>6. SumOver(after, joined) = SumOver(position, Listed(c)) + amount
  BY <1>2, <1>3, <1>4, <1>5
<1>7. QED
  BY <1>6 DEF joined

-----------------------------------------------------------------------------
(* What each call does to the bucket it moves. *)

LEMMA DepositInBucket ==
  ASSUME TypeOK, NEW c \in Currencies, NEW d \in Depositors, NEW amount \in Amounts,
         Deposit(d, c, amount)
  PROVE  Bucket(c)!Deposit(amount)
<1>1. totalShares'[c] = totalShares[c] + Minted(c, amount)
  BY DEF Deposit, Mint, TypeOK
<1>2. Nav(c)' = Nav(c) + amount
  <2>1. Listed(c)' = Listed(c) /\ UNCHANGED position
    BY DEF Deposit, Listed, poolVars
  <2>2. idle'[c] = idle[c] + amount /\ idle[c] \in Nat /\ amount \in Nat
    BY ConfigAssumption DEF Deposit, TypeOK
  <2>3. SumOver(position, Listed(c)) \in Nat
    BY ListedArePools, SumType DEF TypeOK
  <2>4. QED
    BY <2>1, <2>2, <2>3 DEF Nav
<1>3. QED
  BY <1>1, <1>2 DEF Deposit, Minted, MintShares, Bucket!Deposit, Bucket!MintShares

LEMMA WithdrawInBucket ==
  ASSUME TypeOK, CustodyInv, NEW c \in Currencies, NEW d \in Depositors,
         NEW burned \in 1 .. shares[d][c], Withdraw(d, c, burned)
  PROVE  Bucket(c)!Withdraw(burned)
<1> DEFINE assets == Payout(c, burned)
           needed == IF idle[c] < assets THEN assets - idle[c] ELSE 0
<1>1. totalShares'[c] = totalShares[c] - burned
  BY DEF Withdraw, Burn, TypeOK
<1>2. idle[c] \in Nat /\ burned \in Nat
  BY DEF TypeOK
<1>3. assets \in Nat
  BY <1>2, PayoutType
<1>4. idle'[c] = idle[c] + needed - assets
  BY DEF Withdraw, TypeOK
<1>5. PICK taken \in Drains(c, needed) : WithdrawFromPools(c, taken)
  BY DEF Withdraw
<1>6. needed \in Nat
  <2> HIDE DEF assets
  <2>1. QED
    BY <1>2, <1>3
<1>7. /\ taken \in [Pools -> Nat] /\ SumOver(taken, Pools) = needed
      /\ \A p \in Pools : taken[p] > 0 => p \in Listed(c)
  <2> HIDE DEF needed
  <2>1. QED
    BY <1>5, <1>6 DEF Drains, Drainable
<1>8. /\ SumOver(position', Listed(c)') \in Nat
      /\ SumOver(position, Listed(c)) = SumOver(position', Listed(c)') + needed
  BY <1>5, <1>7, WithdrawalFromNav
<1> HIDE DEF assets, needed
<1>9. Nav(c)' = Nav(c) - assets
  BY <1>2, <1>3, <1>4, <1>6, <1>8 DEF Nav
<1>10. QED
  BY <1>1, <1>9 DEF assets, Payout, RedeemAssets, Bucket!Withdraw, Bucket!RedeemAssets

LEMMA ApproveExitInBucket ==
  ASSUME TypeOK, CustodyInv, NEW c \in Currencies, NEW d \in Depositors,
         NEW id \in 1 .. exitCounter, ApproveExit(d, c, id)
  PROVE  UNCHANGED <<totalShares[c], Nav(c)>>
<1> DEFINE from  == pendingExit[c].from
           to    == pendingExit[c].to
           value == position[from]
           filled == [position EXCEPT ![to] = @ + value]
           list  == Without(poolList[c], {p \in {from} : value = position[p]})
<1>1. /\ from \in Pools /\ to \in Pools /\ from # to
      /\ value \in Nat /\ value > 0
  BY DEF ApproveExit, ExecuteExit, AcceptsInflow, ExitValue, TypeOK, ExitProposals
<1>2. /\ position' = [position EXCEPT ![from] = @ - value, ![to] = @ + value]
      /\ poolList'[c] = Enlisted(list, to)
      /\ UNCHANGED <<idle, totalShares>>
  BY DEF ApproveExit, ExecuteExit, ExitValue, depositorVars, TypeOK
<1>3. IsRoute(from, c) /\ IsRoute(to, c)
  BY DEF ApproveExit, CustodyInv, RoutesKept
<1>4. from \in Listed(c) /\ (to \notin Listed(c) => position[to] = 0)
  BY <1>1, <1>3 DEF CustodyInv, NavSeesEveryPosition, TypeOK
<1>5. Listed(c)' = (Listed(c) \cup {to}) \ {from}
  <2>1. list = Without(poolList[c], {from})
    OBVIOUS
  <2>2. poolList[c] \in Seq(Pools) /\ Without(poolList[c], {from}) \in Seq(Pools)
    BY ListUpdates DEF TypeOK
  <2> HIDE DEF list, from, to
  <2>3. QED
    BY <1>1, <1>2, <2>1, <2>2, ListedAfterRemoval, ListedAfterEntry DEF Listed
<1>6. /\ filled \in [Pools -> Nat]
      /\ filled[to] = position[to] + value
      /\ \A p \in Pools \ {to} : filled[p] = position[p]
      /\ filled[from] = value
      /\ \A p \in Pools \ {from} : position'[p] = filled[p]
      /\ position'[from] = 0
  BY <1>1, <1>2, SMTT(30) DEF TypeOK
<1> DEFINE joined == Listed(c) \cup {to}
<1>7. SumOver(filled, joined) = SumOver(position, Listed(c)) + value
  <2> HIDE DEF from, to, value, filled
  <2>1. QED
    BY <1>1, <1>4, <1>6, InflowToNav
<1>8. /\ joined \in SUBSET Pools /\ IsFiniteSet(joined) /\ from \in joined
  BY <1>1, <1>4, ListedArePools, FS_AddElement
<1> HIDE DEF from, to, value, filled, list, joined
<1>9. /\ SumOver(filled, joined \ {from}) \in Nat
      /\ SumOver(filled, joined) = SumOver(filled, joined \ {from}) + value
  <2>1. \A p \in joined : filled[p] \in Nat
    BY <1>6, <1>8
  <2>2. QED
    BY <1>6, <1>8, <2>1, SumSplit
<1>10. SumOver(position', joined \ {from}) = SumOver(filled, joined \ {from})
  <2>1. \A p \in joined \ {from} : position'[p] = filled[p]
    BY <1>6, <1>8
  <2>2. QED
    BY <2>1, SumSame
<1>11. SumOver(position, Listed(c)) \in Nat
  BY ListedArePools, SumType DEF TypeOK
<1>12. SumOver(position', Listed(c)') = SumOver(position, Listed(c))
  <2>1. Listed(c)' = joined \ {from}
    BY <1>5 DEF joined
  <2>2. QED
    BY <1>1, <1>7, <1>9, <1>10, <1>11, <2>1
<1>13. QED
  BY <1>2, <1>12 DEF Nav

LEMMA AllocateInBucket ==
  ASSUME TypeOK, CustodyInv, NEW c \in Currencies, NEW p \in Pools, IsRoute(p, c),
         NEW amount \in Amounts, Allocate(p, c, amount)
  PROVE  UNCHANGED <<totalShares[c], Nav(c)>>
<1>1. amount \in Nat /\ idle[c] \in Nat /\ position[p] \in Nat
  BY ConfigAssumption DEF TypeOK
<1>2. p \notin Listed(c) => position[p] = 0
  BY <1>1 DEF CustodyInv, NavSeesEveryPosition
<1>3. /\ position' \in [Pools -> Nat]
      /\ position'[p] = position[p] + amount
      /\ \A q \in Pools \ {p} : position'[q] = position[q]
      /\ idle'[c] = idle[c] - amount
      /\ poolList'[c] = Enlisted(poolList[c], p)
      /\ UNCHANGED totalShares
  BY <1>1 DEF Allocate, depositorVars, TypeOK
<1>4. Listed(c)' = Listed(c) \cup {p}
  BY <1>3, ListedAfterEntry DEF Listed, TypeOK
<1>5. SumOver(position', Listed(c) \cup {p}) = SumOver(position, Listed(c)) + amount
  BY <1>1, <1>2, <1>3, InflowToNav
<1>6. SumOver(position, Listed(c)) \in Nat
  BY ListedArePools, SumType DEF TypeOK
<1>7. QED
  BY <1>1, <1>3, <1>4, <1>5, <1>6 DEF Nav

LEMMA DeallocateInBucket ==
  ASSUME TypeOK, CustodyInv, NEW c \in Currencies, NEW p \in Pools, IsRoute(p, c),
         NEW amount \in Amounts, Deallocate(p, c, amount)
  PROVE  UNCHANGED <<totalShares[c], Nav(c)>>
<1> DEFINE taken == [q \in Pools |-> IF q = p THEN amount ELSE 0]
<1>1. /\ amount \in Nat /\ amount > 0 /\ idle[c] \in Nat
      /\ position[p] \in Nat /\ holdings[c][p] \in Nat
  BY ConfigAssumption DEF TypeOK
<1>2. position[p] > 0
  BY <1>1 DEF Deallocate, CustodyInv, BookedIsOwedAndCapped
<1>3. p \in Listed(c)
  BY <1>2 DEF CustodyInv, NavSeesEveryPosition
<1>4. /\ taken \in [Pools -> Nat]
      /\ \A q \in Pools : taken[q] > 0 => q \in Listed(c)
  BY <1>1, <1>3
<1>5. WithdrawFromPools(c, taken)
  BY DEF Deallocate
<1>6. SumOver(taken, Pools) = amount
  BY <1>1, OnePoolSum
<1>7. idle'[c] = idle[c] + amount /\ UNCHANGED totalShares
  BY DEF Deallocate, depositorVars, TypeOK
<1> HIDE DEF taken
<1>8. /\ SumOver(position', Listed(c)') \in Nat
      /\ SumOver(position, Listed(c)) = SumOver(position', Listed(c)') + amount
  BY <1>4, <1>5, <1>6, WithdrawalFromNav
<1>9. QED
  BY <1>1, <1>7, <1>8 DEF Nav

LEMMA AccrueInBucket ==
  ASSUME TypeOK, CustodyInv, NEW c \in Currencies, NEW p \in Pools, IsRoute(p, c),
         NEW interest \in Amounts, Accrue(p, interest)
  PROVE  Bucket(c)!Accrue(interest)
<1>1. interest \in Nat /\ idle[c] \in Nat
  BY ConfigAssumption DEF TypeOK
<1>2. p \in Listed(c)
  BY DEF Accrue, CustodyInv, NavSeesEveryPosition
<1>3. /\ position' \in [Pools -> Nat]
      /\ position'[p] = position[p] + interest
      /\ \A q \in Pools \ {p} : position'[q] = position[q]
      /\ UNCHANGED <<idle, totalShares, poolList>>
  BY <1>1 DEF Accrue, depositorVars, bucketVars, TypeOK
<1>4. SumOver(position', Listed(c) \cup {p}) = SumOver(position, Listed(c)) + interest
  BY <1>1, <1>2, <1>3, InflowToNav
<1>5. Listed(c)' = Listed(c) \cup {p}
  BY <1>2, <1>3 DEF Listed
<1>6. SumOver(position, Listed(c)) \in Nat
  BY ListedArePools, SumType DEF TypeOK
<1>7. QED
  BY <1>1, <1>3, <1>4, <1>5, <1>6 DEF Nav, Bucket!Accrue

-----------------------------------------------------------------------------
(* The buckets keep the promise of BucketNav. *)

BucketMoves(c) == [Bucket(c)!Next]_(Bucket(c)!bucketVars)

LEMMA BucketStarts ==
  ASSUME Init, NEW c \in Currencies
  PROVE  Bucket(c)!Init
<1>1. Listed(c) = {}
  BY DEF Init, StartedWith, Listed, ToSet
<1>2. SumOver(position, Listed(c)) = 0
  BY <1>1, SumEmpty
<1>3. QED
  BY <1>2 DEF Init, StartedWith, Nav, Bucket!Init

LEMMA BucketRests ==
  ASSUME NEW c \in Currencies, UNCHANGED <<totalShares[c], Nav(c)>>
  PROVE  BucketMoves(c)
BY DEF BucketMoves, Bucket!bucketVars

LEMMA BucketMovesOnCall ==
  ASSUME TypeOK, SharesAddUp, CustodyInv, NEW c \in Currencies, BucketStep(c)
  PROVE  BucketMoves(c)
<1>1. ASSUME NEW d \in Depositors, NEW amount \in Amounts, Deposit(d, c, amount)
      PROVE  BucketMoves(c)
  BY <1>1, DepositInBucket DEF BucketMoves, Bucket!Next
<1>2. ASSUME NEW d \in Depositors, NEW burned \in 1 .. shares[d][c],
             Withdraw(d, c, burned)
      PROVE  BucketMoves(c)
  <2>1. burned \in 1 .. totalShares[c]
    <3>1. /\ shares[d][c] \in Nat /\ totalShares[c] \in Nat
          /\ shares[d][c] <= totalShares[c]
      BY SharesBelowTotal DEF TypeOK
    <3>2. QED
      BY <3>1
  <2>2. Bucket(c)!Withdraw(burned)
    BY <1>2, WithdrawInBucket
  <2>3. QED
    BY <2>1, <2>2 DEF BucketMoves, Bucket!Next
<1>3. ASSUME NEW d \in Depositors, NEW id \in 1 .. exitCounter, ApproveExit(d, c, id)
      PROVE  BucketMoves(c)
  BY <1>3, ApproveExitInBucket, BucketRests
<1>4. ASSUME NEW p \in Pools, NEW amount \in Amounts, IsRoute(p, c),
             Allocate(p, c, amount)
      PROVE  BucketMoves(c)
  BY <1>4, AllocateInBucket, BucketRests
<1>5. ASSUME NEW p \in Pools, NEW amount \in Amounts, IsRoute(p, c),
             Deallocate(p, c, amount)
      PROVE  BucketMoves(c)
  BY <1>5, DeallocateInBucket, BucketRests
<1>6. ASSUME NEW p \in Pools, NEW amount \in Amounts, IsRoute(p, c),
             Accrue(p, amount)
      PROVE  BucketMoves(c)
  BY <1>6, AccrueInBucket DEF BucketMoves, Bucket!Next
<1>7. QED
  BY <1>1, <1>2, <1>3, <1>4, <1>5, <1>6 DEF BucketStep

LEMMA BucketMovesStep ==
  TypeOK /\ SharesAddUp /\ CustodyInv /\ [Next]_vars
    => \A c \in Currencies : BucketMoves(c)
<1> SUFFICES ASSUME TypeOK, SharesAddUp, CustodyInv, [Next]_vars,
                    NEW c \in Currencies
             PROVE  BucketMoves(c)
  OBVIOUS
<1>1. LeftAlone(c) \/ BucketStep(c)
  BY StepOfOneBucket DEF OthersLeftAlone
<1>2. CASE LeftAlone(c)
  BY <1>2, NavLeftAlone, BucketRests DEF LeftAlone
<1>3. CASE BucketStep(c)
  BY <1>3, BucketMovesOnCall
<1>4. QED
  BY <1>1, <1>2, <1>3

(* Every bucket of the vault implements BucketNav: value enters it by a    *)
(* deposit or as interest and leaves it against burned shares, at the      *)
(* bucket's own price; allocations, deallocations, approved exits, pulls   *)
(* and donations never show in it (nav.rs, allocate.rs).                   *)
THEOREM BucketTheorem == Spec => ImplementsBucketNav
<1>1. Init => \A c \in Currencies : Bucket(c)!Init
  BY BucketStarts
<1>2. TypeOK /\ SharesAddUp /\ CustodyInv /\ [Next]_vars
        => \A c \in Currencies : [Bucket(c)!Next]_(Bucket(c)!bucketVars)
  BY BucketMovesStep DEF BucketMoves
<1>3. QED
  BY <1>1, <1>2, TypeTheorem, LedgerTheorem, CustodyInvHolds, PTL
     DEF Spec, ImplementsBucketNav

-----------------------------------------------------------------------------
(* What a bucket's promise is worth to the depositor. *)

BucketPriceKept(c) ==
  (Nav(c)' + VirtualOffset) * (totalShares[c] + VirtualOffset)
    >= (Nav(c) + VirtualOffset) * (totalShares'[c] + VirtualOffset)

LEMMA MovesKeepPrice ==
  ASSUME TypeOK, NEW c \in Currencies, BucketMoves(c)
  PROVE  BucketPriceKept(c)
<1>1. totalShares[c] \in Nat /\ Nav(c) \in Nat
  BY NavType DEF TypeOK
<1>2. ASSUME NEW amount \in Amounts, Bucket(c)!Deposit(amount)
      PROVE  BucketPriceKept(c)
  <2>1. amount \in Nat
    BY ConfigAssumption
  <2>2. /\ Nav(c)' = Nav(c) + amount
        /\ totalShares'[c] = totalShares[c] + MintShares(amount, totalShares[c], Nav(c))
    BY <1>2 DEF MintShares, Bucket!Deposit, Bucket!MintShares
  <2>3. QED
    BY <1>1, <2>1, <2>2, MintKeepsPrice DEF BucketPriceKept
<1>3. ASSUME NEW burned \in 1 .. totalShares[c], Bucket(c)!Withdraw(burned)
      PROVE  BucketPriceKept(c)
  <2>1. burned \in Nat
    BY <1>1
  <2>2. /\ Nav(c)' = Nav(c) - RedeemAssets(burned, totalShares[c], Nav(c))
        /\ totalShares'[c] = totalShares[c] - burned
    BY <1>3 DEF RedeemAssets, Bucket!Withdraw, Bucket!RedeemAssets
  <2>3. QED
    BY <1>1, <2>1, <2>2, RedeemKeepsPrice DEF BucketPriceKept
<1>4. ASSUME NEW interest \in Amounts, Bucket(c)!Accrue(interest)
      PROVE  BucketPriceKept(c)
  <2>1. interest \in Nat
    BY ConfigAssumption
  <2>2. Nav(c)' = Nav(c) + interest /\ totalShares'[c] = totalShares[c]
    BY <1>4 DEF Bucket!Accrue
  <2>3. QED
    BY <1>1, <2>1, <2>2, InterestKeepsPrice DEF BucketPriceKept
<1>5. ASSUME UNCHANGED (Bucket(c)!bucketVars)
      PROVE  BucketPriceKept(c)
  <2>1. Nav(c)' = Nav(c) /\ totalShares'[c] = totalShares[c]
    BY <1>5 DEF Bucket!bucketVars
  <2>2. (Nav(c) + VirtualOffset) * (totalShares[c] + VirtualOffset) \in Int
    BY <1>1, OffsetAssumption
  <2>3. QED
    BY <2>1, <2>2 DEF BucketPriceKept
<1>6. QED
  BY <1>2, <1>3, <1>4, <1>5 DEF BucketMoves, Bucket!Next

NavTyped == \A c \in Currencies : Nav(c) \in Nat

LEMMA NavTypeAfter == TypeOK' => NavTyped'
<1>1. TypeOK => NavTyped
  BY NavType DEF NavTyped
<1>2. QED
  BY <1>1, PTL

OthersKeepValue ==
  \A d \in Depositors, c \in Currencies :
    shares'[d][c] = shares[d][c] => ValueOf(d, c)' >= ValueOf(d, c)

LEMMA OthersKeepValueStep ==
  TypeOK /\ TypeOK' /\ (\A c \in Currencies : BucketMoves(c)) => OthersKeepValue
<1> SUFFICES ASSUME TypeOK, TypeOK', NEW d \in Depositors, NEW c \in Currencies,
                    BucketMoves(c), shares'[d][c] = shares[d][c]
             PROVE  ValueOf(d, c)' >= ValueOf(d, c)
  BY DEF OthersKeepValue
<1>1. /\ shares[d][c] \in Nat
      /\ totalShares[c] \in Nat /\ Nav(c) \in Nat
      /\ totalShares'[c] \in Nat
  BY NavType DEF TypeOK
<1>2. Nav(c)' \in Nat
  BY NavTypeAfter DEF NavTyped
<1>3. BucketPriceKept(c)
  BY MovesKeepPrice
<1>4. RedeemAssets(shares[d][c], totalShares'[c], Nav(c)')
        >= RedeemAssets(shares[d][c], totalShares[c], Nav(c))
  BY <1>1, <1>2, <1>3, RedeemFollowsPrice DEF BucketPriceKept
<1>5. QED
  BY <1>4 DEF ValueOf

(* Nobody's holding is worth less after somebody else's step: what a       *)
(* depositor's shares redeem for, rounded down as withdraw pays it, falls  *)
(* only when they burn shares themselves.                                  *)
THEOREM ValueTheorem == Spec => NobodyElseLosesValue
BY TypeTheorem, LedgerTheorem, CustodyInvHolds, BucketMovesStep, OthersKeepValueStep,
   PTL DEF Spec, NobodyElseLosesValue, OthersKeepValue

-----------------------------------------------------------------------------
(* A depositor can always be paid. *)

(* What the promise of a bucket comes to, bucket by bucket, and that the   *)
(* vault holds the idle money it counts.                                   *)
SharesBackedByNav == \A c \in Currencies : totalShares[c] <= Nav(c)

IdleIsHeld == \A c \in Currencies : idle[c] <= vaultCash[c]

LEMMA BackedStep ==
  TypeOK /\ SharesBackedByNav /\ (\A c \in Currencies : BucketMoves(c))
    => SharesBackedByNav'
<1> SUFFICES ASSUME TypeOK, SharesBackedByNav, NEW c \in Currencies, BucketMoves(c)
             PROVE  totalShares'[c] <= Nav(c)'
  BY DEF SharesBackedByNav
<1>1. totalShares[c] \in Nat /\ Nav(c) \in Nat /\ totalShares[c] <= Nav(c)
  BY NavType DEF TypeOK, SharesBackedByNav
<1>2. ASSUME NEW amount \in Amounts, Bucket(c)!Deposit(amount)
      PROVE  totalShares'[c] <= Nav(c)'
  <2> DEFINE minted == MintShares(amount, totalShares[c], Nav(c))
  <2>1. amount \in Nat
    BY ConfigAssumption
  <2>2. Nav(c)' = Nav(c) + amount /\ totalShares'[c] = totalShares[c] + minted
    BY <1>2 DEF MintShares, Bucket!Deposit, Bucket!MintShares
  <2>3. minted \in Nat /\ minted <= amount
    BY <1>1, <2>1, MintBounds, MintAtMostAmount
  <2> HIDE DEF minted
  <2>4. QED
    BY <1>1, <2>1, <2>2, <2>3
<1>3. ASSUME NEW burned \in 1 .. totalShares[c], Bucket(c)!Withdraw(burned)
      PROVE  totalShares'[c] <= Nav(c)'
  <2> DEFINE paid == RedeemAssets(burned, totalShares[c], Nav(c))
  <2>1. burned \in Nat /\ burned \in 0 .. totalShares[c]
    BY <1>1
  <2>2. Nav(c)' = Nav(c) - paid /\ totalShares'[c] = totalShares[c] - burned
    BY <1>3 DEF RedeemAssets, Bucket!Withdraw, Bucket!RedeemAssets
  <2>3. paid \in Nat /\ paid <= burned + (Nav(c) - totalShares[c])
    BY <1>1, <2>1, RedeemBounds, RedeemLeavesBacking
  <2> HIDE DEF paid
  <2>4. QED
    BY <1>1, <2>1, <2>2, <2>3
<1>4. ASSUME NEW interest \in Amounts, Bucket(c)!Accrue(interest)
      PROVE  totalShares'[c] <= Nav(c)'
  BY <1>1, <1>4, ConfigAssumption DEF Bucket!Accrue
<1>5. ASSUME UNCHANGED (Bucket(c)!bucketVars)
      PROVE  totalShares'[c] <= Nav(c)'
  BY <1>1, <1>5 DEF Bucket!bucketVars
<1>6. QED
  BY <1>2, <1>3, <1>4, <1>5 DEF BucketMoves, Bucket!Next

LEMMA IdleIsHeldStep == TypeOK /\ IdleIsHeld /\ [Next]_vars => IdleIsHeld'
<1> SUFFICES ASSUME TypeOK, IdleIsHeld, [Next]_vars
             PROVE  IdleIsHeld'
  OBVIOUS
<1>1. \A c \in Currencies : /\ idle[c] \in Nat /\ vaultCash[c] \in Nat
                            /\ idle[c] <= vaultCash[c]
  BY DEF TypeOK, IdleIsHeld
<1>2. ASSUME NEW c \in Currencies, NEW in \in Nat, NEW out \in Nat,
             idle' = [idle EXCEPT ![c] = @ + in - out],
             vaultCash' = [vaultCash EXCEPT ![c] = @ + in - out]
      PROVE  IdleIsHeld'
  BY <1>1, <1>2 DEF TypeOK, IdleIsHeld
<1>3. ASSUME UNCHANGED <<idle, vaultCash>>
      PROVE  IdleIsHeld'
  BY <1>3 DEF IdleIsHeld
<1>4. \A amount \in Amounts : amount \in Nat
  BY ConfigAssumption
<1>5. ASSUME NEW d \in Depositors, NEW c \in Currencies, NEW amount \in Amounts,
             Deposit(d, c, amount)
      PROVE  IdleIsHeld'
  BY <1>1, <1>4, <1>5 DEF Deposit, TypeOK, IdleIsHeld
<1>6. ASSUME NEW d \in Depositors, NEW c \in Currencies,
             NEW burned \in 1 .. shares[d][c], Withdraw(d, c, burned)
      PROVE  IdleIsHeld'
  <2> DEFINE assets == Payout(c, burned)
             needed == IF idle[c] < assets THEN assets - idle[c] ELSE 0
  <2>1. burned \in Nat
    BY DEF TypeOK
  <2>2. assets \in Nat
    BY <2>1, PayoutType
  <2>3. /\ idle' = [idle EXCEPT ![c] = @ + needed - assets]
        /\ vaultCash' = [vaultCash EXCEPT ![c] = @ + needed - assets]
    BY <1>6 DEF Withdraw
  <2> HIDE DEF assets
  <2>4. needed \in Nat
    BY <1>1, <2>2
  <2> HIDE DEF needed
  <2>5. QED
    BY <1>2, <2>2, <2>3, <2>4
<1>7. ASSUME NEW p \in Pools, NEW c \in Currencies, NEW amount \in Amounts,
             Allocate(p, c, amount) \/ Deallocate(p, c, amount)
      PROVE  IdleIsHeld'
  <2>1. CASE Allocate(p, c, amount)
    BY <1>1, <1>4, <2>1 DEF Allocate, TypeOK, IdleIsHeld
  <2>2. CASE Deallocate(p, c, amount)
    BY <1>1, <1>4, <2>2 DEF Deallocate, TypeOK, IdleIsHeld
  <2>3. QED
    BY <1>7, <2>1, <2>2
<1>8. ASSUME NEW c \in Currencies, NEW amount \in Amounts, Donate(c, amount)
      PROVE  IdleIsHeld'
  BY <1>1, <1>4, <1>8 DEF Donate, TypeOK, IdleIsHeld
<1>9. ASSUME NEW d \in Depositors,
             \/ SetPolicyConsent(d)
             \/ \E c \in Currencies, id \in 1 .. exitCounter : ApproveExit(d, c, id)
      PROVE  IdleIsHeld'
  BY <1>3, <1>9 DEF SetPolicyConsent, ApproveExit, bucketVars
<1>10. ASSUME \/ \E p \in Pools : Freeze(p) \/ Unfreeze(p)
              \/ \E c \in Currencies, p, q \in Pools : ProposeExit(c, p, q)
              \/ AdminNext
              \/ \E p \in Pools, amount \in Amounts :
                   Accrue(p, amount) \/ FundPool(p, amount)
              \/ UNCHANGED vars
       PROVE  IdleIsHeld'
  BY <1>3, <1>10 DEF Freeze, Unfreeze, ProposeExit, AdminNext, SetPaused,
                     SetPoolAllowed, Accrue, FundPool, vars, bucketVars
<1>11. QED
  BY <1>5, <1>6, <1>7, <1>8, <1>9, <1>10, RoutesAreTyped
     DEF Next, DepositorNext, KeeperNext, EnvironmentNext

LEMMA PayableHolds == Spec => [](SharesBackedByNav /\ IdleIsHeld)
<1>1. Init => SharesBackedByNav /\ IdleIsHeld
  <2> SUFFICES ASSUME Init, NEW c \in Currencies
               PROVE  totalShares[c] <= Nav(c) /\ idle[c] <= vaultCash[c]
    BY DEF SharesBackedByNav, IdleIsHeld
  <2>1. totalShares[c] = 0 /\ Nav(c) = 0
    BY BucketStarts DEF Bucket!Init
  <2>2. QED
    BY <2>1 DEF Init, StartedWith
<1>2. QED
  BY <1>1, TypeTheorem, LedgerTheorem, CustodyInvHolds, BucketMovesStep, BackedStep,
     IdleIsHeldStep, PTL DEF Spec

(* Every share of every bucket of the vault stays backed by a unit of its  *)
(* currency, wherever the money is (nav.rs): BucketNav's promise, for the  *)
(* contract itself.                                                        *)
THEOREM VaultBackingTheorem == Spec => []SharesBackedByNav
BY PayableHolds, PTL

-----------------------------------------------------------------------------
(* Whatever listed pools together owe can be drained from them in list     *)
(* order: all of the first ones, a part of one more, nothing of the rest.  *)
LEMMA DrainExists ==
  ASSUME TypeOK, NavSeesEveryPosition, NEW c \in Currencies, NEW needed \in Nat,
         needed <= SumOver(position, Listed(c))
  PROVE  Drains(c, needed) # {}
<1> DEFINE list    == poolList[c]
           upTo(k) == {list[i] : i \in 1 .. k}
           owed(k) == SumOver(position, upTo(k))
<1>1. /\ list \in Seq(Pools) /\ Len(list) \in Nat /\ DOMAIN list = 1 .. Len(list)
      /\ \A i \in 1 .. Len(list) : list[i] \in Pools
      /\ \A p \in Pools : position[p] \in Nat
      /\ \A i, j \in 1 .. Len(list) : list[i] = list[j] => i = j
  <2>1. list \in Seq(Pools) /\ \A p \in Pools : position[p] \in Nat
    BY DEF TypeOK
  <2>2. IsInjective(list)
    BY DEF NavSeesEveryPosition
  <2> HIDE DEF list
  <2>3. /\ Len(list) \in Nat /\ DOMAIN list = 1 .. Len(list)
        /\ \A i \in 1 .. Len(list) : list[i] \in Pools
    BY <2>1
  <2>4. QED
    BY <2>1, <2>2, <2>3 DEF IsInjective
<1>2. IsFiniteSet(Pools)
  BY ConfigAssumption
<1>3. ASSUME NEW k \in 0 .. Len(list)
      PROVE  /\ upTo(k) \in SUBSET Pools /\ IsFiniteSet(upTo(k))
             /\ owed(k) \in Nat
  <2>1. upTo(k) \in SUBSET Pools
    BY <1>1
  <2> HIDE DEF upTo
  <2>2. IsFiniteSet(upTo(k))
    BY <1>2, <2>1, FS_Subset
  <2>3. \A p \in upTo(k) : position[p] \in Nat
    BY <1>1, <2>1
  <2>4. QED
    BY <2>1, <2>2, <2>3, SumType
<1>4. owed(Len(list)) = SumOver(position, Listed(c))
  <2>1. upTo(Len(list)) = Listed(c)
    BY <1>1 DEF Listed, ToSet
  <2>2. QED
    BY <2>1
<1>5. upTo(0) = {} /\ owed(0) = 0
  <2>1. upTo(0) = {}
    OBVIOUS
  <2>2. QED
    BY <2>1, SumEmpty
<1>6. CASE needed = 0
  <2> DEFINE taken == [p \in Pools |-> 0]
  <2>1. SumOver(taken, Pools) = 0
    <3>1. /\ {} \in SUBSET Pools /\ \A p \in Pools \ {} : taken[p] = 0
      OBVIOUS
    <3> HIDE DEF taken
    <3>2. QED
      BY <3>1, SumWithZeros, SumEmpty
  <2>2. \A p \in Pools : taken[p] = 0
    OBVIOUS
  <2>3. taken \in [Pools -> 0 .. needed]
    BY <1>6
  <2> HIDE DEF taken
  <2>4. taken \in Drains(c, needed)
    BY <1>1, <1>6, <2>1, <2>2, <2>3 DEF Drains, Drainable, Available
  <2>5. QED
    BY <2>4
<1>7. CASE needed > 0
  <2> DEFINE enough == {k \in 0 .. Len(list) : needed <= owed(k)}
  <2>1. PICK k \in enough : \A m \in enough : k <= m
    <3>1. Len(list) \in enough
      <4> HIDE DEF upTo, owed
      <4>1. QED
        BY <1>1, <1>4
    <3>2. enough \in SUBSET Nat
      BY <1>1
    <3> HIDE DEF enough
    <3>3. QED
      BY <3>1, <3>2, LeastNumber
  <2>2. k \in 1 .. Len(list) /\ needed <= owed(k)
    <3> HIDE DEF upTo, owed
    <3>1. k \in 0 .. Len(list) /\ needed <= owed(k)
      OBVIOUS
    <3>2. k # 0
      BY <1>5, <1>7, <3>1
    <3>3. QED
      BY <1>1, <3>1, <3>2
  <2>3. k - 1 \in 0 .. Len(list) /\ owed(k - 1) < needed
    <3> HIDE DEF upTo, owed
    <3>1. k - 1 \in 0 .. Len(list) /\ k - 1 \notin enough
      BY <1>1, <2>1, <2>2
    <3>2. owed(k - 1) \in Nat
      BY <1>3, <3>1
    <3>3. QED
      BY <3>1, <3>2
  <2> DEFINE full  == upTo(k - 1)
             last  == list[k]
             part  == needed - owed(k - 1)
             taken == [p \in Pools |-> IF p \in full THEN position[p]
                                        ELSE IF p = last THEN part ELSE 0]
  <2>4. last \in Pools /\ last \notin full
    BY <1>1, <2>2
  <2>5. /\ last \in upTo(k) /\ upTo(k) \ {last} = full
        /\ upTo(k) \in SUBSET Pools /\ IsFiniteSet(upTo(k))
        /\ full \in SUBSET Pools /\ IsFiniteSet(full)
        /\ owed(k - 1) \in Nat
    <3>1. last \in upTo(k) /\ upTo(k) \ {last} = full
      BY <1>1, <2>2, <2>4
    <3>2. k \in 0 .. Len(list)
      BY <2>2
    <3>3. QED
      BY <1>3, <2>3, <3>1, <3>2
  <2>6. owed(k) = owed(k - 1) + position[last]
    <3>1. \A p \in upTo(k) : position[p] \in Nat
      BY <1>1, <2>5
    <3> HIDE DEF upTo, full, last
    <3>2. SumOver(position, upTo(k)) = SumOver(position, upTo(k) \ {last}) + position[last]
      BY <2>5, <3>1, SumSplit
    <3>3. QED
      BY <2>5, <3>2 DEF full
  <2>7. part \in 1 .. needed /\ part <= position[last] /\ position[last] \in Nat
    <3>1. position[last] \in Nat
      BY <1>1, <2>4
    <3> HIDE DEF upTo, owed, last
    <3>2. QED
      BY <2>2, <2>3, <2>5, <2>6, <3>1
  <2>8. \A p \in full : position[p] <= needed
    <3>1. \A p \in full : position[p] \in Nat
      BY <1>1, <2>5
    <3> HIDE DEF upTo, full
    <3>2. \A p \in full : position[p] <= SumOver(position, full)
      BY <2>5, <3>1, SummandBelow
    <3>3. SumOver(position, full) = owed(k - 1)
      BY DEF full
    <3> HIDE DEF owed
    <3>4. QED
      BY <2>3, <2>5, <3>1, <3>2, <3>3
  <2>9. \A i \in 1 .. Len(list) : i < k => list[i] \in full
    BY <1>1, <2>2
  <2>10. \A j \in 1 .. Len(list) : list[j] \in full \/ list[j] = last => j <= k
    BY <1>1, <2>2
  <2>11. full \cup {last} \in SUBSET Listed(c)
    <3>1. \A i \in 1 .. k : list[i] \in Listed(c)
      BY <1>1, <2>2 DEF Listed, ToSet
    <3>2. QED
      BY <2>2, <3>1
  <2> HIDE DEF upTo, owed, full, last, part
  <2>12. /\ \A p \in full : taken[p] = position[p]
         /\ taken[last] = part
         /\ \A p \in Pools \ upTo(k) : taken[p] = 0
         /\ taken \in [Pools -> 0 .. needed]
    BY <1>1, <2>4, <2>5, <2>7, <2>8
  <2>13. \A p \in Pools : /\ taken[p] <= position[p]
                          /\ p \notin full \cup {last} => taken[p] = 0
    BY <1>1, <2>4, <2>5, <2>7, <2>12
  <2> HIDE DEF taken
  <2>14. SumOver(taken, Pools) = needed
    <3>1. SumOver(taken, Pools) = SumOver(taken, upTo(k))
      BY <2>5, <2>12, SumWithZeros
    <3>2. \A p \in upTo(k) : taken[p] \in Nat
      BY <2>5, <2>12
    <3>3. SumOver(taken, upTo(k)) = SumOver(taken, full) + taken[last]
      BY <2>5, <3>2, SumSplit
    <3>4. SumOver(taken, full) = SumOver(position, full)
      BY <2>12, SumSame
    <3>5. SumOver(position, full) = owed(k - 1)
      BY DEF owed, full
    <3>6. QED
      BY <2>5, <2>12, <3>1, <3>3, <3>4, <3>5 DEF part
  <2>15. ASSUME NEW i \in DOMAIN list, NEW j \in DOMAIN list,
                i < j, taken[list[j]] > 0
         PROVE  taken[list[i]] = position[list[i]]
    <3>1. list[j] \in full \/ list[j] = last
      BY <1>1, <2>13, <2>15
    <3>2. i < k
      BY <1>1, <2>2, <2>10, <2>15, <3>1
    <3>3. QED
      BY <1>1, <2>9, <2>12, <3>2
  <2>16. taken \in Drains(c, needed)
    BY <1>1, <2>11, <2>12, <2>13, <2>14, <2>15 DEF Drains, Drainable, Available
  <2>17. QED
    BY <2>16
<1>8. QED
  BY <1>6, <1>7

(* The conditions withdraw puts on a depositor's redemption of all their   *)
(* shares, apart from the pause: what ENABLED asks for in DepositorCanExit. *)
ExitIsPayable ==
  \A d \in Depositors, c \in Currencies :
    LET assets == Payout(c, shares[d][c])
        needed == IF idle[c] < assets THEN assets - idle[c] ELSE 0
    IN (\A p \in Listed(c) : poolCash[p] >= position[p])
         => \E taken \in Drains(c, needed) :
              /\ \A p \in Pools : CanPay(p, taken[p])
              /\ assets <= vaultCash[c] + needed

LEMMA LiquidBucketPays ==
  TypeOK /\ SharesAddUp /\ NavSeesEveryPosition /\ SharesBackedByNav /\ IdleIsHeld
    => ExitIsPayable
<1> SUFFICES ASSUME TypeOK, SharesAddUp, NavSeesEveryPosition, SharesBackedByNav,
                    IdleIsHeld, NEW d \in Depositors, NEW c \in Currencies,
                    \A p \in Listed(c) : poolCash[p] >= position[p]
             PROVE  LET assets == Payout(c, shares[d][c])
                        needed == IF idle[c] < assets THEN assets - idle[c] ELSE 0
                    IN \E taken \in Drains(c, needed) :
                         /\ \A p \in Pools : CanPay(p, taken[p])
                         /\ assets <= vaultCash[c] + needed
  BY DEF ExitIsPayable
<1> DEFINE assets == Payout(c, shares[d][c])
           needed == IF idle[c] < assets THEN assets - idle[c] ELSE 0
           owed   == SumOver(position, Listed(c))
<1>1. /\ shares[d][c] \in Nat /\ totalShares[c] \in Nat
      /\ shares[d][c] <= totalShares[c]
      /\ Nav(c) \in Nat /\ totalShares[c] <= Nav(c)
      /\ idle[c] \in Nat /\ vaultCash[c] \in Nat /\ idle[c] <= vaultCash[c]
  BY SharesBelowTotal, NavType DEF TypeOK, SharesBackedByNav, IdleIsHeld
<1>2. owed \in Nat /\ Nav(c) = idle[c] + owed
  BY ListedArePools, SumType DEF TypeOK, Nav
<1>3. assets \in Nat /\ assets <= Nav(c)
  <2>1. shares[d][c] \in 0 .. totalShares[c]
    BY <1>1
  <2>2. /\ assets \in Nat
        /\ assets <= shares[d][c] + (Nav(c) - totalShares[c])
    BY <1>1, <2>1, RedeemBounds, RedeemLeavesBacking DEF Payout
  <2> HIDE DEF assets
  <2>3. QED
    BY <1>1, <2>2
<1> HIDE DEF assets, owed
<1>4. needed \in Nat /\ needed <= owed /\ assets <= vaultCash[c] + needed
  BY <1>1, <1>2, <1>3
<1>5. PICK taken \in Drains(c, needed) : TRUE
  <2> HIDE DEF needed
  <2>1. Drains(c, needed) # {}
    BY <1>4, DrainExists DEF owed
  <2>2. QED
    BY <2>1
<1>6. ASSUME NEW p \in Pools
      PROVE  CanPay(p, taken[p])
  <2> HIDE DEF needed
  <2>1. /\ taken[p] \in 0 .. needed /\ taken[p] <= position[p]
        /\ p \notin Listed(c) => taken[p] = 0
    BY <1>5 DEF Drains, Drainable, Available
  <2>2. position[p] \in Nat /\ poolCash[p] \in Nat
    BY DEF TypeOK
  <2>3. p \in Listed(c) => position[p] <= poolCash[p]
    BY <2>2
  <2>4. QED
    BY <1>4, <2>1, <2>2, <2>3 DEF CanPay
<1>7. \E t \in Drains(c, needed) : /\ \A p \in Pools : CanPay(p, t[p])
                                  /\ assets <= vaultCash[c] + needed
  BY <1>4, <1>5, <1>6
<1>8. QED
  BY <1>7 DEF assets

(* No depositor is ever locked in by the accounting: whenever the listed   *)
(* pools have the tokens they owe, pull_from_pools gathers exactly what    *)
(* the redemption of all of a depositor's shares lacks, and the vault can  *)
(* pay it. Only the pause is left to refuse it (DepositorCanExit).         *)
THEOREM PayableTheorem == Spec => []ExitIsPayable
BY TypeTheorem, LedgerTheorem, NavTheorem, PayableHolds, LiquidBucketPays, PTL
=============================================================================
