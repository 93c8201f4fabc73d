--------------------------- MODULE YieldPoolProofs ---------------------------
(***************************************************************************)
(* The yield pool keeps what PoolInterest promises, for all suppliers,     *)
(* amounts, rates and ledger times: one index, rolled by anybody's calls,  *)
(* stands for a clock per supplier.                                        *)
(***************************************************************************)
EXTENDS YieldPool, TLAPS

PoolTypeOK ==
  /\ now \in Nat /\ last_ts \in Nat /\ index \in Nat
  /\ rate_bps \in 0 .. MAX_RATE_BPS
  /\ total_principal \in Nat /\ cash \in Nat
  /\ positions \in [Suppliers -> [principal : Nat, entry_index : Nat]]

(* No position was entered after the index was last rolled, and that not   *)
(* in the future; without it interest could be negative.                   *)
PoolInv ==
  /\ PoolTypeOK
  /\ last_ts <= now
  /\ \A s \in Suppliers : positions[s].entry_index <= index

-----------------------------------------------------------------------------
LEMMA ProductIsNat == \A a, b \in Nat : a * b \in Nat
  BY SMT

LEMMA NoTimeNoInterest == \A i, r, t \in Nat : i + r * (t - t) = i
<1> SUFFICES ASSUME NEW i \in Nat, NEW r \in Nat, NEW t \in Nat
             PROVE  i + r * (t - t) = i
  OBVIOUS
<1>1. t - t = 0 /\ r * 0 = 0
  BY SMT
<1>2. QED
  BY <1>1, SMT

LEMMA IndexLater ==
  \A i, r, n, l, d \in Nat : i + r * ((n + d) - l) = (i + r * (n - l)) + r * d
<1> SUFFICES ASSUME NEW i \in Nat, NEW r \in Nat, NEW n \in Nat, NEW l \in Nat, NEW d \in Nat
             PROVE  i + r * ((n + d) - l) = (i + r * (n - l)) + r * d
  OBVIOUS
<1>1. r * ((n - l) + d) = r * (n - l) + r * d
  BY SMT
<1>2. (n + d) - l = (n - l) + d
  BY SMT
<1>3. QED
  BY <1>1, <1>2, SMT

LEMMA EarnedLater ==
  \A p, i, e, g \in Nat : p * ((i + g) - e) = p * (i - e) + p * g
<1> SUFFICES ASSUME NEW p \in Nat, NEW i \in Nat, NEW e \in Nat, NEW g \in Nat
             PROVE  p * ((i + g) - e) = p * (i - e) + p * g
  OBVIOUS
<1>1. (i + g) - e = (i - e) + g
  BY SMT
<1>2. p * ((i - e) + g) = p * (i - e) + p * g
  BY SMT
<1>3. QED
  BY <1>1, <1>2

LEMMA DivideByYear ==
  ASSUME NEW a \in Nat, NEW b \in Nat \ {0}
  PROVE  a \div b \in Nat
  BY SMT

LEMMA DivideInOrder ==
  ASSUME NEW a \in Nat, NEW c \in Nat, NEW b \in Nat \ {0}, a <= c
  PROVE  a \div b <= c \div b
<1> DEFINE q == a \div b
           r == c \div b
<1>1. q \in Nat /\ r \in Nat
  BY DivideByYear
<1>2. b * q <= a /\ c < b * (r + 1)
  BY SMT
<1> HIDE DEF q, r
<1>3. b * q < b * (r + 1)
  BY <1>1, <1>2, SMT
<1>4. q < r + 1
  BY <1>1, <1>3, SMT
<1>5. q <= r
  BY <1>1, <1>4, SMT
<1>6. QED
  BY <1>5 DEF q, r

-----------------------------------------------------------------------------
(* The index of now, and what a supplier has earned by it.                 *)
LEMMA IndexNow ==
  ASSUME PoolInv, Promise!ConstantsOK
  PROVE  current_index \in Nat /\ index <= current_index
<1>1. now - last_ts \in Nat /\ rate_bps \in Nat /\ index \in Nat
  BY DEF PoolInv, PoolTypeOK, Promise!ConstantsOK
<1>2. rate_bps * (now - last_ts) \in Nat
  BY <1>1, ProductIsNat
<1>3. QED
  BY <1>1, <1>2 DEF current_index, advance_index

Earned(s) == positions[s].principal * (current_index - positions[s].entry_index)

LEMMA EarnedIsNat ==
  ASSUME PoolInv, Promise!ConstantsOK, NEW s \in Suppliers
  PROVE  /\ positions[s].principal \in Nat /\ positions[s].entry_index \in Nat
         /\ current_index - positions[s].entry_index \in Nat
         /\ Earned(s) \in Nat
         /\ balance(s) = positions[s].principal + Earned(s) \div BPS_YEAR
         /\ balance(s) \in Nat
<1>1. /\ positions[s].principal \in Nat /\ positions[s].entry_index \in Nat
      /\ positions[s].entry_index <= index
  BY DEF PoolInv, PoolTypeOK
<1>2. current_index \in Nat /\ index <= current_index
  BY IndexNow
<1>3. current_index - positions[s].entry_index \in Nat
  BY <1>1, <1>2 DEF PoolInv, PoolTypeOK
<1>4. Earned(s) \in Nat
  BY <1>1, <1>3, ProductIsNat DEF Earned
<1>5. balance(s) = positions[s].principal + Earned(s) \div BPS_YEAR
  BY DEF balance, value_of, value_at, Earned
<1>6. Earned(s) \div BPS_YEAR \in Nat
  BY <1>4, DivideByYear DEF Promise!ConstantsOK
<1>7. QED
  BY <1>1, <1>3, <1>4, <1>5, <1>6

-----------------------------------------------------------------------------
(* A call that rolls the index leaves the index of now as it is.           *)
LEMMA RollingKeepsNow ==
  ASSUME PoolInv, Promise!ConstantsOK, roll_index, UNCHANGED now, rate_bps' \in 0 .. MAX_RATE_BPS
  PROVE  /\ index' = current_index /\ last_ts' = now
         /\ current_index' = current_index
<1>1. current_index \in Nat /\ now \in Nat /\ rate_bps' \in Nat
  BY IndexNow DEF PoolInv, PoolTypeOK, Promise!ConstantsOK
<1>2. index' = current_index /\ last_ts' = now /\ now' = now
  BY DEF roll_index
<1>3. current_index' = index' + rate_bps' * (now' - last_ts')
  BY DEF current_index, advance_index
<1>4. current_index' = current_index + rate_bps' * (now - now)
  BY <1>2, <1>3
<1>5. QED
  BY <1>1, <1>2, <1>4, NoTimeNoInterest

(* A supplier whose position is set to what he is owed, more or less, earns*)
(* from there on; nobody else notices.                                     *)
LEMMA SettlesOne ==
  ASSUME PoolInv, Promise!ConstantsOK, NEW s \in Suppliers, NEW amount \in Nat,
         roll_index, set_position(s, amount), UNCHANGED <<now, rate_bps>>
  PROVE  /\ positions' \in [Suppliers -> [principal : Nat, entry_index : Nat]]
         /\ \A t \in Suppliers :
              /\ positions'[t].principal = IF t = s THEN amount ELSE positions[t].principal
              /\ Earned(t)' = IF t = s THEN 0 ELSE Earned(t)
              /\ positions'[t].entry_index <= current_index
<1>1. current_index \in Nat /\ index <= current_index /\ index \in Nat
  BY IndexNow DEF PoolInv, PoolTypeOK
<1>2. current_index' = current_index
  BY RollingKeepsNow DEF PoolInv, PoolTypeOK
<1>3. positions' = [positions EXCEPT ![s] = [principal |-> amount, entry_index |-> current_index]]
  BY DEF set_position
<1>4. positions \in [Suppliers -> [principal : Nat, entry_index : Nat]]
  BY DEF PoolInv, PoolTypeOK
<1>5. positions' \in [Suppliers -> [principal : Nat, entry_index : Nat]]
  BY <1>1, <1>3, <1>4
<1>6. ASSUME NEW t \in Suppliers
      PROVE  /\ positions'[t].principal = IF t = s THEN amount ELSE positions[t].principal
             /\ Earned(t)' = IF t = s THEN 0 ELSE Earned(t)
             /\ positions'[t].entry_index <= current_index
  <2>1. CASE t = s
    <3>1. positions'[t] = [principal |-> amount, entry_index |-> current_index]
      BY <1>3, <1>4, <2>1
    <3>2. current_index - current_index = 0 /\ amount * 0 = 0
      BY <1>1
    <3>3. Earned(t)' = amount * (current_index - current_index)
      BY <1>2, <3>1 DEF Earned
    <3>4. QED
      BY <1>1, <2>1, <3>1, <3>2, <3>3
  <2>2. CASE t # s
    <3>1. positions'[t] = positions[t]
      BY <1>3, <1>4, <2>2
    <3>2. Earned(t)' = Earned(t)
      BY <1>2, <3>1 DEF Earned
    <3>3. positions[t].entry_index \in Nat /\ positions[t].entry_index <= index
      BY <1>4 DEF PoolInv
    <3>4. QED
      BY <1>1, <2>2, <3>1, <3>2, <3>3
  <2>3. QED
    BY <2>1, <2>2
<1>7. QED
  BY <1>5, <1>6

(* A ledger later every supplier has earned its seconds at its rate.       *)
LEMMA EarnedWithTime ==
  ASSUME PoolInv, Promise!ConstantsOK, NEW t \in Suppliers, NEW d \in Nat,
         now' = now + d, UNCHANGED <<rate_bps, index, last_ts, positions>>
  PROVE  Earned(t)' = Earned(t) + positions[t].principal * (rate_bps * d)
<1>1. /\ positions[t].principal \in Nat /\ positions[t].entry_index \in Nat
      /\ current_index \in Nat /\ rate_bps * d \in Nat
  BY EarnedIsNat, IndexNow, ProductIsNat DEF PoolInv, PoolTypeOK, Promise!ConstantsOK
<1>2. current_index' = current_index + rate_bps * d
  BY IndexLater DEF PoolInv, PoolTypeOK, current_index, advance_index, Promise!ConstantsOK
<1>3. Earned(t)' = positions[t].principal
                     * ((current_index + rate_bps * d) - positions[t].entry_index)
  BY <1>2 DEF Earned
<1>4. QED
  BY <1>1, <1>3, EarnedLater DEF Earned

-----------------------------------------------------------------------------
(* PoolInv is inductive.                                                   *)
LEMMA PoolInvStep ==
  ASSUME PoolInv, Promise!ConstantsOK, [Next]_vars
  PROVE  PoolInv'
<1>1. current_index \in Nat /\ index <= current_index
  BY IndexNow
<1>2. /\ now \in Nat /\ last_ts \in Nat /\ index \in Nat /\ last_ts <= now
      /\ rate_bps \in 0 .. MAX_RATE_BPS /\ total_principal \in Nat /\ cash \in Nat
      /\ positions \in [Suppliers -> [principal : Nat, entry_index : Nat]]
      /\ \A s \in Suppliers : positions[s].entry_index <= index
      /\ MAX_RATE_BPS \in Nat
  BY DEF PoolInv, PoolTypeOK, Promise!ConstantsOK
<1>3. ASSUME NEW s \in Suppliers, NEW amount \in Amounts, Supply(s, amount)
      PROVE  PoolInv'
  <2>1. amount \in Nat /\ balance(s) \in Nat
    BY EarnedIsNat DEF Promise!ConstantsOK
  <2>2. balance(s) + amount \in Nat
    BY <2>1
  <2>3. /\ positions' \in [Suppliers -> [principal : Nat, entry_index : Nat]]
        /\ \A t \in Suppliers : positions'[t].entry_index <= current_index
    BY <1>3, <2>2, SettlesOne DEF Supply
  <2>4. index' = current_index /\ last_ts' = now /\ now' = now /\ rate_bps' = rate_bps
    BY <1>3 DEF Supply, roll_index
  <2>5. total_principal' \in Nat /\ cash' = cash
    BY <1>2, <1>3, <2>1 DEF Supply
  <2>6. QED
    BY <1>1, <1>2, <2>3, <2>4, <2>5 DEF PoolInv, PoolTypeOK
<1>4. ASSUME NEW s \in Suppliers, NEW amount \in Amounts, Withdraw(s, amount)
      PROVE  PoolInv'
  <2>1. amount \in Nat /\ balance(s) \in Nat
    BY EarnedIsNat DEF Promise!ConstantsOK
  <2>2. balance(s) - amount \in Nat /\ cash' \in Nat
    BY <1>2, <1>4, <2>1 DEF Withdraw
  <2>3. /\ positions' \in [Suppliers -> [principal : Nat, entry_index : Nat]]
        /\ \A t \in Suppliers : positions'[t].entry_index <= current_index
    BY <1>4, <2>2, SettlesOne DEF Withdraw
  <2>4. index' = current_index /\ last_ts' = now /\ now' = now /\ rate_bps' = rate_bps
    BY <1>4 DEF Withdraw, roll_index
  <2>5. total_principal' \in Nat
    BY <1>2, <1>4, <2>1 DEF Withdraw
  <2>6. QED
    BY <1>1, <1>2, <2>2, <2>3, <2>4, <2>5 DEF PoolInv, PoolTypeOK
<1>5. ASSUME NEW rate \in 0 .. MAX_RATE_BPS + 1, SetRate(rate)
      PROVE  PoolInv'
  <2>1. /\ index' = current_index /\ last_ts' = now /\ now' = now
        /\ rate_bps' = rate /\ rate <= MAX_RATE_BPS
        /\ UNCHANGED <<total_principal, positions, cash>>
    BY <1>5 DEF SetRate, roll_index
  <2>2. rate \in 0 .. MAX_RATE_BPS
    BY <1>2, <2>1
  <2>3. \A t \in Suppliers : positions'[t].entry_index <= index'
    BY <1>1, <1>2, <2>1
  <2>4. QED
    BY <1>1, <1>2, <2>1, <2>2, <2>3 DEF PoolInv, PoolTypeOK
<1>6. ASSUME NEW d \in Durations, LedgerCloses(d)
      PROVE  PoolInv'
  <2>1. d \in Nat /\ now' = now + d
        /\ UNCHANGED <<rate_bps, index, last_ts, total_principal, positions, cash>>
    BY <1>6 DEF LedgerCloses, Promise!ConstantsOK
  <2>2. QED
    BY <1>2, <2>1 DEF PoolInv, PoolTypeOK
<1>7. ASSUME NEW amount \in Amounts, Push(amount)
      PROVE  PoolInv'
  <2>1. amount \in Nat /\ cash' = cash + amount
        /\ UNCHANGED <<now, rate_bps, index, last_ts, total_principal, positions>>
    BY <1>7 DEF Push, Promise!ConstantsOK
  <2>2. QED
    BY <1>2, <2>1 DEF PoolInv, PoolTypeOK
<1>8. CASE UNCHANGED vars
  BY <1>2, <1>8 DEF vars, PoolInv, PoolTypeOK
<1>9. QED
  BY <1>3, <1>4, <1>5, <1>6, <1>7, <1>8 DEF Next

LEMMA PoolInvStart ==
  ASSUME Init, Promise!ConstantsOK
  PROVE  PoolInv
BY DEF Init, NoPosition, PoolInv, PoolTypeOK, Promise!ConstantsOK

-----------------------------------------------------------------------------
(* The refinement mapping, named.                                          *)
Stake == [t \in Suppliers |-> positions[t].principal]

Interest == [t \in Suppliers |-> Earned(t)]

LEMMA OwedIsBalance ==
  ASSUME PoolInv, Promise!ConstantsOK, NEW s \in Suppliers
  PROVE  Promise!Owed(s) = balance(s)
BY EarnedIsNat DEF Promise!Owed, Earned

LEMMA SettleIsPromised ==
  ASSUME PoolInv, Promise!ConstantsOK, NEW s \in Suppliers, NEW amount \in Nat,
         roll_index, set_position(s, amount), UNCHANGED <<now, rate_bps>>
  PROVE  Promise!Settle(s, amount)
<1>1. \A t \in Suppliers :
        /\ positions'[t].principal = IF t = s THEN amount ELSE positions[t].principal
        /\ Earned(t)' = IF t = s THEN 0 ELSE Earned(t)
  BY SettlesOne
<1>2. Stake' = [Stake EXCEPT ![s] = amount]
  BY <1>1 DEF Stake
<1>3. Interest' = [Interest EXCEPT ![s] = 0]
  BY <1>1 DEF Interest
<1>4. QED
  BY <1>2, <1>3 DEF Promise!Settle, Stake, Interest, Earned

(* Every step of the contract is one of the promise, or changes nothing of *)
(* it.                                                                     *)
LEMMA StepIsPromised ==
  ASSUME PoolInv, Promise!ConstantsOK, [Next]_vars
  PROVE  [Promise!Next]_Promise!interestVars
<1>1. ASSUME NEW s \in Suppliers, NEW amount \in Amounts, Supply(s, amount)
      PROVE  Promise!Next
  <2>1. balance(s) \in Nat /\ amount \in Nat /\ Promise!Owed(s) = balance(s)
    BY EarnedIsNat, OwedIsBalance DEF Promise!ConstantsOK
  <2> DEFINE owed == balance(s) + amount
  <2>2. owed \in Nat
    BY <2>1
  <2>3. /\ roll_index /\ set_position(s, owed)
        /\ UNCHANGED <<now, rate_bps>> /\ cash' = cash
    BY <1>1 DEF Supply
  <2> HIDE DEF owed
  <2>4. Promise!Settle(s, owed)
    BY <2>2, <2>3, SettleIsPromised DEF Promise!Settle
  <2>5. Promise!Supply(s, amount)
    BY <2>1, <2>3, <2>4 DEF Promise!Supply, Promise!Settle, owed
  <2>6. QED
    BY <2>5 DEF Promise!Next
<1>2. ASSUME NEW s \in Suppliers, NEW amount \in Amounts, Withdraw(s, amount)
      PROVE  Promise!Next
  <2>1. balance(s) \in Nat /\ amount \in Nat /\ Promise!Owed(s) = balance(s)
    BY EarnedIsNat, OwedIsBalance DEF Promise!ConstantsOK
  <2> DEFINE owed == balance(s) - amount
  <2>2. /\ roll_index /\ set_position(s, owed) /\ UNCHANGED <<now, rate_bps>>
        /\ amount <= balance(s) /\ amount <= cash /\ cash' = cash - amount
    BY <1>2 DEF Withdraw
  <2>3. owed \in Nat
    BY <2>1, <2>2
  <2> HIDE DEF owed
  <2>4. Promise!Settle(s, owed)
    BY <2>2, <2>3, SettleIsPromised DEF Promise!Settle
  <2>5. Promise!Withdraw(s, amount)
    BY <2>1, <2>2, <2>4 DEF Promise!Withdraw, Promise!Settle, owed
  <2>6. QED
    BY <2>5 DEF Promise!Next
<1>3. ASSUME NEW r \in 0 .. MAX_RATE_BPS + 1, SetRate(r)
      PROVE  Promise!Next
  <2>1. r \in 0 .. MAX_RATE_BPS /\ rate_bps' = r
        /\ UNCHANGED <<now, positions, cash>> /\ roll_index
    BY <1>3 DEF SetRate, Promise!ConstantsOK
  <2>2. current_index' = current_index
    BY <2>1, RollingKeepsNow
  <2>3. Stake' = Stake /\ Interest' = Interest
    BY <2>1, <2>2 DEF Stake, Interest, Earned
  <2>4. Promise!SetRate
    BY <2>1, <2>3 DEF Promise!SetRate, Stake, Interest, Earned
  <2>5. QED
    BY <2>4 DEF Promise!Next
<1>4. ASSUME NEW d \in Durations, LedgerCloses(d)
      PROVE  Promise!Next
  <2>1. /\ now' = now + d /\ d \in Nat
        /\ UNCHANGED <<rate_bps, index, last_ts, positions, cash>>
    BY <1>4 DEF LedgerCloses, Promise!ConstantsOK
  <2>2. \A t \in Suppliers : Earned(t)' = Earned(t) + positions[t].principal * (rate_bps * d)
    BY <2>1, EarnedWithTime
  <2>3. Interest' = [t \in Suppliers |-> Interest[t] + Stake[t] * (rate_bps * d)]
    BY <2>2 DEF Interest, Stake
  <2>4. Stake' = Stake
    BY <2>1 DEF Stake
  <2>5. Promise!SecondsPass(d)
    BY <2>1, <2>3, <2>4 DEF Promise!SecondsPass, Interest, Stake, Earned
  <2>6. QED
    BY <2>5 DEF Promise!Next
<1>5. ASSUME NEW amount \in Amounts, Push(amount)
      PROVE  Promise!Next
  <2>1. cash' = cash + amount /\ rate_bps' = rate_bps /\ positions' = positions
        /\ current_index' = current_index
    BY <1>5 DEF Push, current_index, advance_index
  <2>2. Stake' = Stake /\ Interest' = Interest
    BY <2>1 DEF Stake, Interest, Earned
  <2>3. Promise!Push(amount)
    BY <2>1, <2>2 DEF Promise!Push, Stake, Interest, Earned
  <2>4. QED
    BY <2>3 DEF Promise!Next
<1>6. CASE UNCHANGED vars
  <2>1. cash' = cash /\ rate_bps' = rate_bps /\ positions' = positions
        /\ current_index' = current_index
    BY <1>6 DEF vars, current_index, advance_index
  <2>2. Stake' = Stake /\ Interest' = Interest
    BY <2>1 DEF Stake, Interest, Earned
  <2>3. QED
    BY <2>1, <2>2 DEF Promise!interestVars, Stake, Interest, Earned
<1>7. QED
  BY <1>1, <1>2, <1>3, <1>4, <1>5, <1>6 DEF Next

LEMMA StartIsPromised ==
  ASSUME Init, Promise!ConstantsOK
  PROVE  Promise!Init
<1>1. /\ index = 0 /\ last_ts = now /\ now \in Nat /\ rate_bps \in 0 .. MAX_RATE_BPS
      /\ positions = [s \in Suppliers |-> NoPosition] /\ cash = 0
  BY DEF Init
<1>2. ASSUME NEW t \in Suppliers
      PROVE  positions[t].principal = 0 /\ Earned(t) = 0
  <2>1. positions[t].principal = 0 /\ positions[t].entry_index = 0
    BY <1>1 DEF NoPosition
  <2>2. current_index - positions[t].entry_index \in Nat
    BY PoolInvStart, EarnedIsNat
  <2>3. QED
    BY <2>1, <2>2, SMT DEF Earned
<1>3. Stake = [s \in Suppliers |-> 0] /\ Interest = [s \in Suppliers |-> 0]
  BY <1>2 DEF Stake, Interest
<1>4. QED
  BY <1>1, <1>3 DEF Promise!Init, Stake, Interest, Earned

-----------------------------------------------------------------------------
(* One index and calls in any order pay every supplier second by second    *)
(* (lib.rs: roll_index, set_rate; accrual.rs).                             *)
THEOREM InterestTheorem ==
  ASSUME Promise!ConstantsOK
  PROVE  Spec => ImplementsPoolInterest
<1>1. Init => PoolInv /\ Promise!Init
  BY PoolInvStart, StartIsPromised
<1>2. PoolInv /\ [Next]_vars => PoolInv' /\ [Promise!Next]_Promise!interestVars
  BY PoolInvStep, StepIsPromised
<1>3. QED
  BY <1>1, <1>2, PTL DEF Spec, ImplementsPoolInterest, Promise!Spec
(* What a supplier can ask for never falls but by what he takes himself:   *)
(* neither a rate change nor anybody's rounding costs him a unit           *)
(* (accrual.rs: value_at). The vault's Accrue takes this for granted.      *)
THEOREM BalanceNeverFalls ==
  ASSUME Promise!ConstantsOK
  PROVE  Spec => [][\A t \in Suppliers :
                      \/ balance(t)' >= balance(t)
                      \/ \E amount \in Amounts :
                           Withdraw(t, amount) /\ balance(t)' = balance(t) - amount]_vars
<1> DEFINE Kept == \A t \in Suppliers :
                      \/ balance(t)' >= balance(t)
                      \/ \E amount \in Amounts :
                           Withdraw(t, amount) /\ balance(t)' = balance(t) - amount
<1>1. ASSUME PoolInv, [Next]_vars
      PROVE  [Kept]_vars
  <2> SUFFICES ASSUME NEW t \in Suppliers
               PROVE  \/ balance(t)' >= balance(t)
                      \/ \E amount \in Amounts :
                           Withdraw(t, amount) /\ balance(t)' = balance(t) - amount
    OBVIOUS
  <2>1. PoolInv'
    BY <1>1, PoolInvStep
  <2>2. balance(t) \in Nat /\ balance(t) = positions[t].principal + Earned(t) \div BPS_YEAR
        /\ positions[t].principal \in Nat /\ Earned(t) \in Nat /\ BPS_YEAR \in Nat \ {0}
    BY <1>1, EarnedIsNat DEF Promise!ConstantsOK
  <2>3. balance(t)' = positions'[t].principal + Earned(t)' \div BPS_YEAR
    BY DEF balance, value_of, value_at, Earned
  <2>4. ASSUME positions'[t].principal = positions[t].principal, Earned(t)' = Earned(t)
        PROVE  balance(t)' >= balance(t)
    <3>1. balance(t)' = balance(t)
      BY <2>2, <2>3, <2>4
    <3>2. QED
      BY <2>2, <3>1
  <2>5. ASSUME positions'[t].principal \in Nat, Earned(t)' = 0
        PROVE  balance(t)' = positions'[t].principal
    <3>1. 0 \div BPS_YEAR = 0
      BY <2>2, SMT
    <3>2. QED
      BY <2>3, <2>5, <3>1, SMT
  <2>6. ASSUME NEW s \in Suppliers, NEW amount \in Amounts, Supply(s, amount)
        PROVE  balance(t)' >= balance(t)
    <3>1. balance(s) \in Nat /\ amount \in Nat
      BY <1>1, EarnedIsNat DEF Promise!ConstantsOK
    <3> DEFINE owed == balance(s) + amount
    <3>2. owed \in Nat
      BY <3>1
    <3>3. roll_index /\ set_position(s, owed) /\ UNCHANGED <<now, rate_bps>>
      BY <2>6 DEF Supply
    <3> HIDE DEF owed
    <3>4. /\ positions'[t].principal = IF t = s THEN owed ELSE positions[t].principal
          /\ Earned(t)' = IF t = s THEN 0 ELSE Earned(t)
      BY <1>1, <3>2, <3>3, SettlesOne
    <3>5. CASE t = s
      <4>1. balance(t)' = owed
        BY <2>5, <3>2, <3>4, <3>5
      <4>2. QED
        BY <3>1, <3>5, <4>1 DEF owed
    <3>6. QED
      BY <2>4, <3>4, <3>5
  <2>7. ASSUME NEW s \in Suppliers, NEW amount \in Amounts, Withdraw(s, amount)
        PROVE  \/ balance(t)' >= balance(t)
               \/ Withdraw(t, amount) /\ balance(t)' = balance(t) - amount
    <3>1. balance(s) \in Nat /\ amount \in Nat
      BY <1>1, EarnedIsNat DEF Promise!ConstantsOK
    <3> DEFINE owed == balance(s) - amount
    <3>2. roll_index /\ set_position(s, owed) /\ UNCHANGED <<now, rate_bps>>
          /\ amount <= balance(s)
      BY <2>7 DEF Withdraw
    <3>3. owed \in Nat
      BY <3>1, <3>2
    <3> HIDE DEF owed
    <3>4. /\ positions'[t].principal = IF t = s THEN owed ELSE positions[t].principal
          /\ Earned(t)' = IF t = s THEN 0 ELSE Earned(t)
      BY <1>1, <3>2, <3>3, SettlesOne
    <3>5. CASE t = s
      <4>1. balance(t)' = owed
        BY <2>5, <3>3, <3>4, <3>5
      <4>2. QED
        BY <2>7, <3>5, <4>1 DEF owed
    <3>6. QED
      BY <2>4, <3>4, <3>5
  <2>8. ASSUME NEW r \in 0 .. MAX_RATE_BPS + 1, SetRate(r)
        PROVE  balance(t)' >= balance(t)
    <3>1. r \in 0 .. MAX_RATE_BPS /\ rate_bps' = r
          /\ UNCHANGED <<now, positions>> /\ roll_index
      BY <2>8 DEF SetRate, Promise!ConstantsOK
    <3>2. current_index' = current_index
      BY <1>1, <3>1, RollingKeepsNow
    <3>3. positions'[t].principal = positions[t].principal /\ Earned(t)' = Earned(t)
      BY <3>1, <3>2 DEF Earned
    <3>4. QED
      BY <2>4, <3>3
  <2>9. ASSUME NEW d \in Durations, LedgerCloses(d)
        PROVE  balance(t)' >= balance(t)
    <3>1. /\ now' = now + d /\ d \in Nat
          /\ UNCHANGED <<rate_bps, index, last_ts, positions, cash>>
      BY <2>9 DEF LedgerCloses, Promise!ConstantsOK
    <3>2. Earned(t)' = Earned(t) + positions[t].principal * (rate_bps * d)
      BY <1>1, <3>1, EarnedWithTime
    <3>3. positions[t].principal * (rate_bps * d) \in Nat
      BY <1>1, <2>2, <3>1, ProductIsNat DEF PoolInv, PoolTypeOK, Promise!ConstantsOK
    <3>4. Earned(t)' \in Nat /\ Earned(t) <= Earned(t)'
      BY <2>2, <3>2, <3>3
    <3>5. Earned(t) \div BPS_YEAR <= Earned(t)' \div BPS_YEAR
      BY <2>2, <3>4, DivideInOrder
    <3>6. Earned(t) \div BPS_YEAR \in Nat /\ Earned(t)' \div BPS_YEAR \in Nat
      BY <2>2, <3>4, DivideByYear
    <3>7. positions'[t].principal = positions[t].principal
      BY <3>1
    <3>8. QED
      BY <2>2, <2>3, <3>5, <3>6, <3>7
  <2>10. ASSUME NEW amount \in Amounts, Push(amount)
         PROVE  balance(t)' >= balance(t)
    <3>1. positions'[t].principal = positions[t].principal /\ Earned(t)' = Earned(t)
      BY <2>10 DEF Push, Earned, current_index, advance_index
    <3>2. QED
      BY <2>4, <3>1
  <2>11. CASE UNCHANGED vars
    <3>1. positions'[t].principal = positions[t].principal /\ Earned(t)' = Earned(t)
      BY <2>11 DEF vars, Earned, current_index, advance_index
    <3>2. QED
      BY <2>4, <3>1
  <2>12. QED
    BY <1>1, <2>6, <2>7, <2>8, <2>9, <2>10, <2>11 DEF Next
<1>2. Init => PoolInv
  BY PoolInvStart
<1>3. PoolInv /\ [Next]_vars => PoolInv'
  BY PoolInvStep
<1>4. QED
  BY <1>1, <1>2, <1>3, PTL DEF Spec
=============================================================================
