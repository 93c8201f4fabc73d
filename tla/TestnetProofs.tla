---------------------------- MODULE TestnetProofs ----------------------------
(***************************************************************************)
(* What MCTestnet checks on small instances, for all of them: the two      *)
(* promises of BucketNav, and the safety of what stands around the system  *)
(* on a test network, each part as its module specifies it and without the *)
(* bounds that MCTestnet sets it for TLC.                                  *)
(***************************************************************************)
EXTENDS MCTestnet, ShareMathProofs, CollectionProofs, SequenceTheorems

-----------------------------------------------------------------------------
(* The bucket, for every offset, every minimum deposit and every set of    *)
(* amounts.                                                                *)

BucketInv == BucketTypeOK /\ SharesAreBacked

(* Types alone are not inductive: that a payout does not exceed the NAV    *)
(* needs every share to be backed.                                         *)
LEMMA BucketInvHolds == Spec => []BucketInv
<1>1. Init => BucketInv
  BY DEF Init, BucketInv, BucketTypeOK, SharesAreBacked
<1>2. BucketInv /\ [Next]_bucketVars => BucketInv'
  <2> SUFFICES ASSUME BucketInv, [Next]_bucketVars
               PROVE  BucketInv'
    OBVIOUS
  <2>1. totalShares \in Nat /\ nav \in Nat /\ totalShares <= nav
    BY DEF BucketInv, BucketTypeOK, SharesAreBacked
  <2>2. ASSUME NEW a \in Amounts, Deposit(a)
        PROVE  BucketInv'
    <3> DEFINE minted == MintShares(a, totalShares, nav)
    <3>1. a \in Nat
      BY BucketAssumption
    <3>2. minted \in Nat /\ minted <= a
      BY <2>1, <3>1, MintBounds, MintAtMostAmount
    <3>3. totalShares' = totalShares + minted /\ nav' = nav + a
      BY <2>2 DEF Deposit
    <3> HIDE DEF minted
    <3>4. QED
      BY <2>1, <3>1, <3>2, <3>3 DEF BucketInv, BucketTypeOK, SharesAreBacked
  <2>3. ASSUME NEW burned \in 1 .. totalShares, Withdraw(burned)
        PROVE  BucketInv'
    <3> DEFINE paid == RedeemAssets(burned, totalShares, nav)
    <3>1. burned \in Nat /\ burned \in 0 .. totalShares
      BY <2>1
    <3>2. paid \in Nat /\ paid <= burned + (nav - totalShares)
      BY <2>1, <3>1, RedeemBounds, RedeemLeavesBacking
    <3>3. totalShares' = totalShares - burned /\ nav' = nav - paid
      BY <2>3 DEF Withdraw
    <3> HIDE DEF paid
    <3>4. QED
      BY <2>1, <3>1, <3>2, <3>3 DEF BucketInv, BucketTypeOK, SharesAreBacked
  <2>4. ASSUME NEW interest \in Amounts, Accrue(interest)
        PROVE  BucketInv'
    BY <2>1, <2>4, BucketAssumption
       DEF Accrue, BucketInv, BucketTypeOK, SharesAreBacked
  <2>5. CASE UNCHANGED bucketVars
    BY <2>1, <2>5 DEF bucketVars, BucketInv, BucketTypeOK, SharesAreBacked
  <2>6. QED
    BY <2>2, <2>3, <2>4, <2>5 DEF Next
<1>3. QED
  BY <1>1, <1>2, PTL DEF Spec

(* Every share of a bucket stays backed by a unit of its currency, however *)
(* deposits, withdrawals and interest alternate.                           *)
THEOREM BackingTheorem == Spec => []SharesAreBacked
<1>1. BucketInv => SharesAreBacked
  BY DEF BucketInv
<1>2. QED
  BY <1>1, BucketInvHolds, PTL

(* The price of a share never falls: the floor of each division is kept by *)
(* the shares that remain.                                                 *)
THEOREM PriceTheorem == Spec => PriceNeverFalls
<1> DEFINE PriceKept ==
             (nav' + VirtualOffset) * (totalShares + VirtualOffset)
               >= (nav + VirtualOffset) * (totalShares' + VirtualOffset)
<1>1. BucketInv /\ [Next]_bucketVars => [PriceKept]_bucketVars
  <2> SUFFICES ASSUME BucketInv, [Next]_bucketVars
               PROVE  PriceKept \/ UNCHANGED bucketVars
    OBVIOUS
  <2>1. totalShares \in Nat /\ nav \in Nat
    BY DEF BucketInv, BucketTypeOK
  <2>2. ASSUME NEW a \in Amounts, Deposit(a)
        PROVE  PriceKept
    BY <2>1, <2>2, BucketAssumption, MintKeepsPrice DEF Deposit
  <2>3. ASSUME NEW burned \in 1 .. totalShares, Withdraw(burned)
        PROVE  PriceKept
    BY <2>1, <2>3, RedeemKeepsPrice DEF Withdraw
  <2>4. ASSUME NEW interest \in Amounts, Accrue(interest)
        PROVE  PriceKept
    <3>1. interest \in Nat
      BY BucketAssumption
    <3>2. nav' = nav + interest /\ totalShares' = totalShares
      BY <2>4 DEF Accrue
    <3>3. QED
      BY <2>1, <3>1, <3>2, InterestKeepsPrice
  <2>5. QED
    BY <2>2, <2>3, <2>4 DEF Next
<1>2. QED
  BY <1>1, BucketInvHolds, PTL DEF Spec, PriceNeverFalls
-----------------------------------------------------------------------------
(* The demo seed, whatever it is asked for, whatever the bucket earns, and *)
(* wherever its runs die.                                                  *)

LEMMA SeedLibrary ==
  /\ \A S : Seed!Cardinality(S) = Cardinality(S)
  /\ \A list, gone : Seed!Without(list, gone) = Without(list, gone)
<1>1. \A S : Seed!Cardinality(S) = Cardinality(S)
  BY Zenon DEF Seed!Cardinality, Cardinality
<1>2. \A list, gone : Seed!Without(list, gone) = Without(list, gone)
  BY Zenon DEF Seed!Without, Without, Seed!Rank, Rank, Seed!Cardinality, Cardinality
<1>3. QED
  BY <1>1, <1>2

Running == at \notin Seed!Ended

(* The account of a run is the one that .env keeps, and only that one is   *)
(* ever funded.                                                            *)
AccountInv ==
  /\ env \in Keys \cup {NoKey}
  /\ funded \subseteq Keys \cap {env}
  /\ Running => key = env /\ key \in Keys

LEMMA AccountStep ==
  ASSUME AccountInv, [Seed!Next]_(Seed!vars)
  PROVE  AccountInv'
<1>1. NoKey \notin Keys
  BY TestnetAssumption DEF Seed!ConstantsOK
<1>2. CASE Seed!Start
  BY <1>1, <1>2 DEF Seed!Start, Seed!KeptInEnv, Seed!chainVars, AccountInv, Running
<1>3. CASE Seed!readState
  <2>1. Running /\ UNCHANGED <<env, funded, key>>
    BY <1>3 DEF Seed!readState, Seed!IsFunded, Seed!HasTrustline, Seed!AssetBalance,
                Seed!HasConsent, Seed!Observed, Seed!chainVars, Running, Seed!Ended
  <2>2. QED
    BY <2>1 DEF AccountInv
<1>4. CASE Seed!ReadBefore
  BY <1>4 DEF Seed!ReadBefore, Seed!chainVars, AccountInv, Running, Seed!Ended
<1>5. ASSUME Seed!Current # "none"
      PROVE  Running
  BY <1>5 DEF Seed!Current, Running, Seed!Ended
<1>6. ASSUME Seed!Current # "none", Seed!Effect(Seed!Current), UNCHANGED <<env, key>>
      PROVE  AccountInv'
  BY <1>5, <1>6 DEF Seed!Effect, AccountInv, Running
<1>7. CASE Seed!StepLands
  BY <1>6, <1>7 DEF Seed!StepLands
<1>8. CASE Seed!StepUnseen
  BY <1>6, <1>8 DEF Seed!StepUnseen, Seed!Fails, Seed!runVars
<1>9. CASE Seed!MintUnconfirmed
  BY <1>5, <1>9 DEF Seed!MintUnconfirmed, AccountInv, Running
<1>10. CASE Seed!StepRefused \/ Seed!RunThrows \/ Seed!ReadBack
  BY <1>10 DEF Seed!StepRefused, Seed!RunThrows, Seed!ReadBack, Seed!Fails, Seed!chainVars,
               Seed!runVars, AccountInv, Running, Seed!Ended
<1>11. CASE Seed!MintLands \/ Seed!MintExpires \/ Seed!Accrue
  BY <1>11 DEF Seed!MintLands, Seed!MintExpires, Seed!Accrue, Seed!runVars, AccountInv, Running
<1>12. CASE UNCHANGED Seed!vars
  BY <1>12 DEF Seed!vars, Seed!chainVars, Seed!runVars, AccountInv, Running
<1> QED
  BY <1>2, <1>3, <1>4, <1>7, <1>8, <1>9, <1>10, <1>11, <1>12
     DEF Seed!Next, Seed!Proceeds

(* Runs of the seed that die never leave a second account behind           *)
(* (demo-seed.ts: resolveDepositorKey).                                    *)
THEOREM AccountTheorem == Seed!Spec => []OneAccount
<1>1. Seed!Init => AccountInv
  BY DEF Seed!Init, AccountInv, Running, Seed!Ended
<1>2. AccountInv => OneAccount
  <2> SUFFICES ASSUME AccountInv
               PROVE  Cardinality(funded) <= 1
    BY SeedLibrary DEF OneAccount, Seed!OneAccount
  <2>1. funded \subseteq {env}
    BY DEF AccountInv
  <2>2. IsFiniteSet({env}) /\ Cardinality({env}) = 1
    BY FS_Singleton
  <2>3. QED
    BY <2>1, <2>2, FS_Subset
<1>3. QED
  BY <1>1, <1>2, AccountStep, PTL DEF Seed!Spec

(* The plan. *)

Steps == Range(Seed!SEED_STEPS)

(* A plan names no step twice, and ends with a deposit.                    *)
LEMMA PlanIsKept ==
  ASSUME NEW s, NEW wanted
  PROVE  /\ Seed!planSteps(s, wanted) \in Seq(Steps)
         /\ IsInjective(Seed!planSteps(s, wanted))
         /\ \A step : step \in Range(Seed!planSteps(s, wanted))
                        => step \in Steps /\ Seed!Needed(step, s, wanted)
         /\ "deposit" \in Range(Seed!planSteps(s, wanted))
<1> DEFINE gone == {step \in Steps : ~Seed!Needed(step, s, wanted)}
<1>1. Seed!SEED_STEPS \in Seq(Steps) /\ IsInjective(Seed!SEED_STEPS)
  BY DEF Seed!SEED_STEPS, Steps, Range, IsInjective
<1>2. Seed!planSteps(s, wanted) = Without(Seed!SEED_STEPS, gone)
  <2>1. Seed!Range(Seed!SEED_STEPS) = Steps
    BY DEF Seed!Range, Range, Steps
  <2>2. Seed!planSteps(s, wanted) = Seed!Without(Seed!SEED_STEPS, gone)
    BY <2>1, Zenon DEF Seed!planSteps
  <2>3. QED
    BY <2>2, SeedLibrary
<1>3. "deposit" \in Steps
  BY DEF Steps, Range, Seed!SEED_STEPS
<1>4. "deposit" \notin gone
  BY DEF Seed!Needed
<1> HIDE DEF gone
<1>5. /\ Without(Seed!SEED_STEPS, gone) \in Seq(Steps)
      /\ \A p : (\E k \in DOMAIN Without(Seed!SEED_STEPS, gone) :
                   Without(Seed!SEED_STEPS, gone)[k] = p)
                  <=> (\E n \in DOMAIN Seed!SEED_STEPS : Seed!SEED_STEPS[n] = p) /\ p \notin gone
      /\ IsInjective(Without(Seed!SEED_STEPS, gone))
  BY <1>1, WithoutList
<1>6. \A step : step \in Range(Without(Seed!SEED_STEPS, gone))
                  <=> step \in Steps /\ step \notin gone
  BY <1>5 DEF Range, Steps
<1>7. QED
  BY <1>2, <1>3, <1>4, <1>5, <1>6 DEF gone

LEMMA PlanGoesOn ==
  ASSUME NEW plan \in Seq(Steps), plan # <<>>, IsInjective(plan)
  PROVE  /\ Head(plan) \in Range(plan)
         /\ Tail(plan) \in Seq(Steps) /\ IsInjective(Tail(plan))
         /\ Range(Tail(plan)) = Range(plan) \ {Head(plan)}
<1>1. Len(plan) \in Nat /\ Len(plan) > 0 /\ DOMAIN plan = 1 .. Len(plan)
  OBVIOUS
<1>2. /\ Tail(plan) \in Seq(Steps) /\ Head(plan) = plan[1]
      /\ DOMAIN Tail(plan) = 1 .. Len(plan) - 1
      /\ \A k \in 1 .. Len(plan) - 1 : Tail(plan)[k] = plan[k + 1]
  BY <1>1
<1>3. IsInjective(Tail(plan))
  BY <1>1, <1>2 DEF IsInjective
<1>4. ASSUME NEW step \in Range(Tail(plan))
      PROVE  step \in Range(plan) \ {Head(plan)}
  BY <1>1, <1>2, <1>4 DEF Range, IsInjective
<1>5. ASSUME NEW step \in Range(plan), step # Head(plan)
      PROVE  step \in Range(Tail(plan))
  <2>1. PICK k \in 1 .. Len(plan) : plan[k] = step
    BY <1>1 DEF Range
  <2>2. k - 1 \in 1 .. Len(plan) - 1 /\ Tail(plan)[k - 1] = step
    BY <1>1, <1>2, <1>5, <2>1
  <2>3. QED
    BY <1>2, <2>2 DEF Range
<1>6. QED
  BY <1>1, <1>2, <1>3, <1>4, <1>5 DEF Range

(* SeedState. *)
Observations ==
  [hasSecret : BOOLEAN, funded : BOOLEAN, hasTrustline : BOOLEAN,
   assetBalance : Nat, hasConsent : BOOLEAN]

SeedTypes ==
  /\ AccountInv
  /\ trusts \subseteq funded
  /\ wallet \in [Keys -> Nat]
  /\ amount \in Nat
  /\ seen \in Observations
  /\ sending \subseteq [to : {env} \cap trusts, amount : Nat]
  /\ \A k \in Keys \ trusts : wallet[k] = 0
  /\ at \in {"isFunded", "hasTrustline", "assetBalance"} => seen.assetBalance = 0
  /\ at = "act" => /\ steps \in Seq(Steps) /\ IsInjective(steps)
                   /\ "deposit" \in Range(steps)
                   /\ "mint" \in Range(steps) => seen.assetBalance < amount

(* The run may still mint, as the balance it has read says.                *)
MintAhead ==
  /\ seen.assetBalance < amount
  /\ at = "hasConsent" \/ (at = "act" /\ "mint" \in Range(steps))

(* No account holds more than 2 * most, also once the mint that is under   *)
(* way has landed, and the one that the run has yet to make.               *)
HeldBelow(most) ==
  /\ amount <= most
  /\ \A k \in Keys : wallet[k] <= 2 * most
  /\ \A m \in sending : m.amount <= most /\ wallet[m.to] + m.amount <= 2 * most
  /\ MintAhead =>
       /\ wallet[key] + (amount - seen.assetBalance) <= 2 * most
       /\ \A m \in sending :
            wallet[key] + m.amount + (amount - seen.assetBalance) <= 2 * most

(* A run that lists a mint tops up what it saw, and only one mint that it  *)
(* did not see can still land.                                             *)
LEMMA TypesStart == Seed!Init => SeedTypes
BY DEF Seed!Init, SeedTypes, AccountInv, Running, Seed!Ended, Seed!Nothing, Observations

LEMMA TypesAfterReads ==
  ASSUME SeedTypes, AccountInv', Seed!readState
  PROVE  SeedTypes'
<1>1. UNCHANGED <<env, funded, trusts, wallet, sending, amount, key>>
  BY DEF Seed!readState, Seed!IsFunded, Seed!HasTrustline, Seed!AssetBalance,
         Seed!HasConsent, Seed!Observed, Seed!chainVars
<1>2. key \in Keys
  BY DEF Seed!readState, Seed!IsFunded, Seed!HasTrustline, Seed!AssetBalance,
         Seed!HasConsent, Seed!Observed, SeedTypes, AccountInv, Running, Seed!Ended
<1>3. ASSUME at' = "act"
      PROVE  steps' = Seed!planSteps(seen', amount)
  BY <1>3 DEF Seed!readState, Seed!IsFunded, Seed!HasTrustline, Seed!AssetBalance,
              Seed!HasConsent, Seed!Observed
<1>4. at' = "act" => /\ steps' \in Seq(Steps) /\ IsInjective(steps')
                     /\ "deposit" \in Range(steps')
                     /\ "mint" \in Range(steps') => seen'.assetBalance < amount
  <2>1. Seed!Needed("mint", seen', amount) => seen'.assetBalance < amount
    BY DEF Seed!Needed
  <2>2. QED
    BY <1>3, <2>1, PlanIsKept
<1>5. /\ seen' \in Observations
      /\ at' \in {"isFunded", "hasTrustline", "assetBalance"} => seen'.assetBalance = 0
  <2>1. /\ seen \in Observations /\ wallet[key] \in Nat
        /\ at \in {"isFunded", "hasTrustline", "assetBalance"} => seen.assetBalance = 0
    BY <1>2 DEF SeedTypes
  <2>2. \A b \in BOOLEAN :
          /\ [seen EXCEPT !.funded = b] \in Observations
          /\ [seen EXCEPT !.funded = b].assetBalance = seen.assetBalance
          /\ [seen EXCEPT !.hasTrustline = b] \in Observations
          /\ [seen EXCEPT !.hasTrustline = b].assetBalance = seen.assetBalance
          /\ [seen EXCEPT !.hasConsent = b] \in Observations
    BY <2>1 DEF Observations
  <2>3. [seen EXCEPT !.assetBalance = wallet[key]] \in Observations
    BY <2>1 DEF Observations
  <2>4. (key \in funded) \in BOOLEAN /\ (key \in trusts) \in BOOLEAN
        /\ (key \in consented) \in BOOLEAN
    OBVIOUS
  <2>5. CASE Seed!IsFunded
    <3>1. at = "isFunded" /\ seen' = [seen EXCEPT !.funded = key \in funded]
      BY <2>5 DEF Seed!IsFunded, Seed!Observed
    <3>2. QED
      BY <2>1, <2>2, <2>4, <3>1
  <2>6. CASE Seed!HasTrustline
    <3>1. at = "hasTrustline" /\ seen' = [seen EXCEPT !.hasTrustline = key \in trusts]
      BY <2>6 DEF Seed!HasTrustline, Seed!Observed
    <3>2. QED
      BY <2>1, <2>2, <2>4, <3>1
  <2>7. CASE Seed!AssetBalance
    <3>1. at' = "hasConsent" /\ seen' = [seen EXCEPT !.assetBalance = wallet[key]]
      BY <2>7 DEF Seed!AssetBalance, Seed!Observed
    <3>2. QED
      BY <2>3, <3>1
  <2>8. CASE Seed!HasConsent
    <3>1. at' = "act" /\ seen' = [seen EXCEPT !.hasConsent = key \in consented]
      BY <2>8 DEF Seed!HasConsent, Seed!Observed
    <3>2. QED
      BY <2>2, <2>4, <3>1
  <2> QED
    BY <2>5, <2>6, <2>7, <2>8 DEF Seed!readState
<1> QED
  BY <1>1, <1>4, <1>5 DEF SeedTypes

(* What a step of the run leaves of the account, once it has its effect.   *)
LEMMA EffectOnAccount ==
  ASSUME SeedTypes, Seed!Current # "none", Seed!Grounded(Seed!Current),
         Seed!Effect(Seed!Current), UNCHANGED <<env, key>>
  PROVE  /\ Running /\ key = env /\ key \in Keys
         /\ trusts \subseteq trusts' /\ trusts' \subseteq funded'
         /\ wallet' \in [Keys -> Nat]
         /\ \A k \in Keys \ trusts' : wallet'[k] = 0
         /\ sending' \subseteq [to : {env} \cap trusts', amount : Nat]
         /\ \/ /\ Seed!Current = "mint" /\ at = "act"
               /\ wallet' = [wallet EXCEPT ![key] = @ + (amount - seen.assetBalance)]
               /\ sending' = {}
            \/ /\ Seed!Current # "mint" /\ sending' = sending
               /\ \A k \in Keys : wallet'[k] <= wallet[k]
               /\ at = "act" => wallet' = wallet
<1>1. Running
  BY DEF Seed!Current, Running, Seed!Ended
<1>2. key = env /\ key \in Keys /\ wallet[key] \in Nat
  BY <1>1 DEF SeedTypes, AccountInv
<1>3. CASE Seed!Current = "mint"
  <2>1. /\ at = "act" /\ "mint" \in Range(steps)
        /\ key \in trusts /\ UNCHANGED <<funded, trusts>>
        /\ wallet' = [wallet EXCEPT ![key] = @ + Seed!TopUp] /\ sending' = {}
    <3>1. at = "act" /\ Head(steps) = "mint"
      BY <1>3 DEF Seed!Current
    <3>2. "mint" \in Range(steps)
      <4>1. steps # <<>>
        BY <3>1 DEF SeedTypes, Range
      <4>2. QED
        BY <3>1, <4>1, PlanGoesOn DEF SeedTypes
    <3>3. QED
      BY <1>3, <3>1, <3>2 DEF Seed!Grounded, Seed!Effect
  <2>2. Seed!TopUp = amount - seen.assetBalance /\ Seed!TopUp \in Nat
    BY <2>1 DEF SeedTypes, Seed!TopUp, Observations
  <2>3. wallet' \in [Keys -> Nat]
    BY <1>2, <2>1, <2>2 DEF SeedTypes
  <2>4. QED
    BY <1>1, <1>2, <1>3, <2>1, <2>2, <2>3 DEF SeedTypes
<1>4. CASE Seed!Current = "deposit"
  <2>1. /\ at = "deposit" /\ UNCHANGED <<funded, trusts, sending>>
        /\ wallet[key] >= amount
        /\ wallet' = [wallet EXCEPT ![key] = @ - amount]
    BY <1>4 DEF Seed!Grounded, Seed!Effect, Seed!Current
  <2>2. amount \in Nat /\ wallet \in [Keys -> Nat] /\ trusts \subseteq funded
    BY DEF SeedTypes
  <2>3. wallet' \in [Keys -> Nat] /\ \A k \in Keys : wallet'[k] <= wallet[k]
    BY <1>2, <2>1, <2>2
  <2>4. \A k \in Keys \ trusts' : wallet'[k] = 0
    BY <2>1, <2>2, <2>3 DEF SeedTypes
  <2>5. QED
    BY <1>1, <1>2, <1>4, <2>1, <2>2, <2>3, <2>4 DEF SeedTypes
<1>5. CASE Seed!Current \notin {"mint", "deposit"}
  <2>1. UNCHANGED <<wallet, sending>>
    BY <1>5 DEF Seed!Effect
  <2>2. trusts' = trusts \/ (trusts' = trusts \cup {key} /\ key \in funded)
    BY DEF Seed!Effect, Seed!Grounded
  <2>3. funded \subseteq funded'
    BY DEF Seed!Effect
  <2>4. QED
    BY <1>1, <1>2, <1>5, <2>1, <2>2, <2>3 DEF SeedTypes
<1> QED
  BY <1>3, <1>4, <1>5

LEMMA TypesStep ==
  ASSUME SeedTypes, [Seed!Next]_(Seed!vars)
  PROVE  SeedTypes'
<1>1. AccountInv'
  BY AccountStep DEF SeedTypes
<1>2. CASE Seed!Start
  <2>1. /\ UNCHANGED <<funded, trusts, wallet, sending>> /\ at' = "isFunded"
        /\ env = NoKey \/ env' = env
        /\ seen' = [Seed!Nothing EXCEPT !.hasSecret = env # NoKey]
    BY <1>2 DEF Seed!Start, Seed!chainVars
  <2>2. amount' \in Nat
    BY <1>2, TestnetAssumption DEF Seed!Start, Seed!ConstantsOK
  <2>3. seen' \in Observations /\ seen'.assetBalance = 0
    BY <2>1 DEF Seed!Nothing, Observations
  <2>4. sending' \subseteq [to : {env'} \cap trusts', amount : Nat]
    <3>1. NoKey \notin trusts
      BY TestnetAssumption DEF Seed!ConstantsOK, SeedTypes, AccountInv
    <3>2. CASE env = NoKey
      BY <2>1, <3>1, <3>2 DEF SeedTypes
    <3>3. QED
      BY <2>1, <3>2 DEF SeedTypes
  <2>5. QED
    BY <1>1, <2>1, <2>2, <2>3, <2>4 DEF SeedTypes
<1>3. CASE Seed!readState
  BY <1>1, <1>3, TypesAfterReads
<1>4. CASE Seed!ReadBefore
  BY <1>1, <1>4 DEF Seed!ReadBefore, Seed!chainVars, SeedTypes
<1>5. CASE Seed!StepLands
  <2>1. /\ Seed!Current # "none" /\ Seed!Grounded(Seed!Current)
        /\ Seed!Effect(Seed!Current) /\ UNCHANGED <<env, key, amount, seen>>
    BY <1>5 DEF Seed!StepLands
  <2>2. \/ at' = "readBack"
        \/ at = "act" /\ Head(steps) # "deposit" /\ steps' = Tail(steps)
    BY <1>5, <2>1 DEF Seed!StepLands, Seed!Onward, Seed!Current
  <2>3. at' = "act" =>
          /\ steps' \in Seq(Steps) /\ IsInjective(steps')
          /\ "deposit" \in Range(steps')
          /\ "mint" \in Range(steps') => seen'.assetBalance < amount'
    <3>1. CASE at' = "readBack"
      BY <3>1
    <3>2. CASE at = "act" /\ Head(steps) # "deposit" /\ steps' = Tail(steps)
      <4>1. /\ steps \in Seq(Steps) /\ IsInjective(steps)
            /\ "deposit" \in Range(steps)
            /\ "mint" \in Range(steps) => seen.assetBalance < amount
        BY <3>2 DEF SeedTypes
      <4>2. steps # <<>>
        BY <4>1 DEF Range
      <4>3. QED
        BY <2>1, <3>2, <4>1, <4>2, PlanGoesOn
    <3>3. QED
      BY <2>2, <3>1, <3>2
  <2>4. at' \notin {"isFunded", "hasTrustline", "assetBalance"}
    BY <1>5, <2>1 DEF Seed!StepLands, Seed!Onward, Seed!Current
  <2>5. QED
    BY <1>1, <2>1, <2>3, <2>4, EffectOnAccount DEF SeedTypes
<1>6. CASE Seed!StepUnseen
  <2>1. /\ Seed!Current # "none" /\ Seed!Grounded(Seed!Current)
        /\ Seed!Effect(Seed!Current) /\ UNCHANGED <<env, key, amount, seen>>
        /\ at' = "failed"
    BY <1>6 DEF Seed!StepUnseen, Seed!Fails, Seed!runVars
  <2>2. QED
    BY <1>1, <2>1, EffectOnAccount DEF SeedTypes
<1>7. CASE Seed!MintUnconfirmed
  <2>1. /\ at = "act" /\ Head(steps) = "mint" /\ steps' = Tail(steps) /\ at' = at
        /\ key \in trusts /\ UNCHANGED <<env, funded, trusts, wallet, key, amount, seen>>
        /\ sending' = sending \cup {[to |-> key, amount |-> Seed!TopUp]}
    BY <1>7 DEF Seed!MintUnconfirmed, Seed!Current, Seed!Grounded, Seed!Onward
  <2>2. key = env
    BY <2>1 DEF SeedTypes, AccountInv, Running, Seed!Ended
  <2>3. /\ steps \in Seq(Steps) /\ IsInjective(steps) /\ steps # <<>>
        /\ "deposit" \in Range(steps)
        /\ "mint" \in Range(steps) => seen.assetBalance < amount
    BY <2>1 DEF SeedTypes, Range
  <2>4. /\ Head(steps) \in Range(steps)
        /\ Tail(steps) \in Seq(Steps) /\ IsInjective(Tail(steps))
        /\ Range(Tail(steps)) = Range(steps) \ {Head(steps)}
    BY <2>3, PlanGoesOn
  <2>5. Seed!TopUp \in Nat
    BY <2>1, <2>3, <2>4 DEF SeedTypes, Observations, Seed!TopUp
  <2>6. sending' \subseteq [to : {env} \cap trusts, amount : Nat]
    BY <2>1, <2>2, <2>5 DEF SeedTypes
  <2>7. QED
    BY <1>1, <2>1, <2>3, <2>4, <2>6 DEF SeedTypes
<1>8. CASE Seed!StepRefused \/ Seed!RunThrows \/ Seed!ReadBack
  <2>1. /\ UNCHANGED <<env, funded, trusts, wallet, sending, amount, seen>>
        /\ at' \in {"ok", "failed"}
    BY <1>8 DEF Seed!StepRefused, Seed!RunThrows, Seed!ReadBack, Seed!Fails,
                Seed!chainVars, Seed!runVars
  <2>2. QED
    BY <1>1, <2>1 DEF SeedTypes
<1>9. CASE Seed!MintLands
  <2>1. PICK m \in sending : wallet' = [wallet EXCEPT ![m.to] = @ + m.amount]
    BY <1>9 DEF Seed!MintLands
  <2>2. m.to \in Keys \cap trusts /\ m.amount \in Nat
    BY DEF SeedTypes, AccountInv
  <2>3. wallet' \in [Keys -> Nat] /\ \A k \in Keys \ trusts : wallet'[k] = 0
    BY <2>1, <2>2 DEF SeedTypes
  <2>4. /\ UNCHANGED <<env, funded, trusts, amount, seen, at, steps>>
        /\ sending' = {}
    BY <1>9 DEF Seed!MintLands, Seed!runVars
  <2>5. QED
    BY <1>1, <2>3, <2>4 DEF SeedTypes
<1>10. CASE Seed!MintExpires \/ Seed!Accrue
  <2>1. /\ UNCHANGED <<env, funded, trusts, wallet, amount, seen, at, steps>>
        /\ sending' \subseteq sending
    BY <1>10 DEF Seed!MintExpires, Seed!Accrue, Seed!runVars
  <2>2. QED
    BY <1>1, <2>1 DEF SeedTypes
<1>11. CASE UNCHANGED Seed!vars
  BY <1>1, <1>11 DEF Seed!vars, Seed!chainVars, Seed!runVars, SeedTypes
<1> QED
  BY <1>2, <1>3, <1>4, <1>5, <1>6, <1>7, <1>8, <1>9, <1>10, <1>11
     DEF Seed!Next, Seed!Proceeds

(* Two observations decide: when the balance is read nothing the run has   *)
(* minted is under way, and of the mints under way only one lands.         *)
LEMMA HeldStep ==
  ASSUME SeedTypes, SeedTypes', NEW most \in Nat, HeldBelow(most),
         [Seed!Next]_(Seed!vars), ~Seed!Start
  PROVE  HeldBelow(most)'
<1>1. /\ amount \in Nat /\ seen.assetBalance \in Nat
      /\ wallet \in [Keys -> Nat] /\ wallet' \in [Keys -> Nat]
      /\ \A m \in sending : m.to = env /\ m.to \in Keys /\ m.amount \in Nat
  BY DEF SeedTypes, AccountInv, Observations
<1>2. ASSUME UNCHANGED <<amount, wallet, sending>>, ~MintAhead'
      PROVE  HeldBelow(most)'
  BY <1>2 DEF HeldBelow
<1>3. CASE Seed!readState
  <2>1. /\ UNCHANGED <<amount, wallet, sending, key>>
        /\ key = env /\ key \in Keys
    BY <1>3 DEF Seed!readState, Seed!IsFunded, Seed!HasTrustline, Seed!AssetBalance,
                Seed!HasConsent, Seed!Observed, Seed!chainVars, SeedTypes, AccountInv,
                Running, Seed!Ended
  <2>2. ASSUME key \notin trusts, seen'.assetBalance = 0
        PROVE  HeldBelow(most)'
    <3>1. wallet[key] = 0 /\ sending = {}
      BY <2>1, <2>2 DEF SeedTypes
    <3>2. QED
      BY <1>1, <2>1, <2>2, <3>1 DEF HeldBelow
  <2>3. CASE Seed!IsFunded
    <3>1. /\ at = "isFunded" /\ seen' = [seen EXCEPT !.funded = key \in funded]
          /\ at' = IF key \in funded THEN "hasTrustline" ELSE "act"
      BY <2>3 DEF Seed!IsFunded, Seed!Observed
    <3>2. seen'.assetBalance = 0
      BY <3>1 DEF SeedTypes, Observations
    <3>3. CASE key \in funded
      BY <1>2, <2>1, <3>1, <3>3 DEF MintAhead
    <3>4. CASE key \notin funded
      BY <2>2, <3>2, <3>4 DEF SeedTypes
    <3>5. QED
      BY <3>3, <3>4
  <2>4. CASE Seed!HasTrustline
    <3>1. /\ at = "hasTrustline" /\ seen' = [seen EXCEPT !.hasTrustline = key \in trusts]
          /\ at' = IF key \in trusts THEN "assetBalance" ELSE "hasConsent"
      BY <2>4 DEF Seed!HasTrustline, Seed!Observed
    <3>2. seen'.assetBalance = 0
      BY <3>1 DEF SeedTypes, Observations
    <3>3. CASE key \in trusts
      BY <1>2, <2>1, <3>1, <3>3 DEF MintAhead
    <3>4. CASE key \notin trusts
      BY <2>2, <3>2, <3>4
    <3>5. QED
      BY <3>3, <3>4
  <2>5. CASE Seed!AssetBalance
    <3>1. seen' = [seen EXCEPT !.assetBalance = wallet[key]]
      BY <2>5 DEF Seed!AssetBalance, Seed!Observed
    <3>2. seen'.assetBalance = wallet[key]
      BY <3>1 DEF SeedTypes, Observations
    <3>3. QED
      BY <1>1, <2>1, <3>2 DEF HeldBelow
  <2>6. CASE Seed!HasConsent
    <3>1. /\ at = "hasConsent" /\ at' = "act"
          /\ seen' = [seen EXCEPT !.hasConsent = key \in consented]
      BY <2>6 DEF Seed!HasConsent, Seed!Observed
    <3>2. seen'.assetBalance = seen.assetBalance
      BY <3>1 DEF SeedTypes, Observations
    <3>3. QED
      BY <1>1, <2>1, <3>1, <3>2 DEF HeldBelow, MintAhead
  <2>7. QED
    BY <1>3, <2>3, <2>4, <2>5, <2>6 DEF Seed!readState
<1>4. CASE Seed!ReadBefore
  BY <1>2, <1>4 DEF Seed!ReadBefore, Seed!chainVars, MintAhead
<1>5. ASSUME Seed!Current # "none", Seed!Grounded(Seed!Current), Seed!Effect(Seed!Current),
             UNCHANGED <<env, key, amount>>,
             MintAhead' => /\ seen' = seen /\ at = "act" /\ at' = "act"
                           /\ steps' = Tail(steps)
                           /\ Head(steps) = Seed!Current
      PROVE  HeldBelow(most)'
  <2>1. /\ key = env /\ key \in Keys
        /\ \/ /\ Seed!Current = "mint" /\ at = "act"
              /\ wallet' = [wallet EXCEPT ![key] = @ + (amount - seen.assetBalance)]
              /\ sending' = {}
           \/ /\ Seed!Current # "mint" /\ sending' = sending
              /\ \A k \in Keys : wallet'[k] <= wallet[k]
              /\ at = "act" => wallet' = wallet
    BY <1>5, EffectOnAccount
  <2>2. ASSUME at = "act"
        PROVE  /\ Head(steps) \in Range(steps)
               /\ Range(Tail(steps)) = Range(steps) \ {Head(steps)}
               /\ "mint" \in Range(steps) => seen.assetBalance < amount
    <3>1. /\ steps \in Seq(Steps) /\ IsInjective(steps) /\ steps # <<>>
          /\ "mint" \in Range(steps) => seen.assetBalance < amount
      BY <2>2 DEF SeedTypes, Range
    <3>2. QED
      BY <3>1, PlanGoesOn
  <2>3. CASE Seed!Current = "mint"
    <3>1. /\ at = "act" /\ sending' = {}
          /\ wallet' = [wallet EXCEPT ![key] = @ + (amount - seen.assetBalance)]
      BY <2>1, <2>3
    <3>2. Head(steps) = "mint"
      BY <2>3, <3>1 DEF Seed!Current
    <3>3. MintAhead
      BY <2>2, <3>1, <3>2 DEF MintAhead
    <3>4. \A k \in Keys : wallet'[k] <= 2 * most
      BY <1>1, <2>1, <3>1, <3>3 DEF HeldBelow
    <3>5. ~MintAhead'
      <4>1. ASSUME MintAhead'
            PROVE  FALSE
        <5>1. "mint" \in Range(steps')
          BY <1>5, <4>1 DEF MintAhead
        <5>2. QED
          BY <1>5, <2>2, <2>3, <3>1, <4>1, <5>1
      <4>2. QED
        BY <4>1
    <3>6. QED
      BY <1>5, <3>1, <3>4, <3>5 DEF HeldBelow
  <2>4. CASE Seed!Current # "mint"
    <3>1. sending' = sending /\ \A k \in Keys : wallet'[k] <= wallet[k]
      BY <2>1, <2>4
    <3>2. /\ \A k \in Keys : wallet'[k] <= 2 * most
          /\ \A m \in sending' : m.amount <= most /\ wallet'[m.to] + m.amount <= 2 * most
      BY <1>1, <3>1 DEF HeldBelow
    <3>3. ASSUME MintAhead'
          PROVE  MintAhead /\ wallet' = wallet
      <4>1. /\ seen' = seen /\ at = "act" /\ steps' = Tail(steps) /\ "mint" \in Range(steps')
            /\ seen.assetBalance < amount
        BY <1>5, <3>3 DEF MintAhead
      <4>2. "mint" \in Range(steps)
        BY <2>2, <4>1
      <4>3. QED
        BY <2>1, <2>4, <4>1, <4>2 DEF MintAhead
    <3>4. QED
      BY <1>1, <1>5, <3>1, <3>2, <3>3 DEF HeldBelow
  <2>5. QED
    BY <2>3, <2>4
<1>6. CASE Seed!StepLands
  <2>1. MintAhead' => /\ seen' = seen /\ at = "act" /\ at' = "act"
                      /\ steps' = Tail(steps)
                      /\ Head(steps) = Seed!Current
    BY <1>6 DEF Seed!StepLands, Seed!Onward, Seed!Current, MintAhead
  <2>2. QED
    BY <1>5, <1>6, <2>1 DEF Seed!StepLands
<1>7. CASE Seed!StepUnseen
  <2>1. ~MintAhead' /\ UNCHANGED <<env, key, amount>>
    BY <1>7 DEF Seed!StepUnseen, Seed!Fails, Seed!runVars, MintAhead
  <2>2. QED
    BY <1>5, <1>7, <2>1 DEF Seed!StepUnseen
<1>8. CASE Seed!MintUnconfirmed
  <2>1. /\ at = "act" /\ Head(steps) = "mint" /\ steps' = Tail(steps) /\ at' = at
        /\ UNCHANGED <<env, wallet, key, amount, seen>>
        /\ sending' = sending \cup {[to |-> key, amount |-> amount - seen.assetBalance]}
    BY <1>8 DEF Seed!MintUnconfirmed, Seed!Current, Seed!Onward, Seed!TopUp
  <2>2. key = env /\ key \in Keys
    BY <2>1 DEF SeedTypes, AccountInv, Running, Seed!Ended
  <2>3. /\ steps \in Seq(Steps) /\ IsInjective(steps) /\ steps # <<>>
        /\ "mint" \in Range(steps) => seen.assetBalance < amount
    BY <2>1 DEF SeedTypes, Range
  <2>4. /\ "mint" \in Range(steps) /\ "mint" \notin Range(Tail(steps))
    BY <2>1, <2>3, PlanGoesOn
  <2>5. MintAhead /\ ~MintAhead'
    BY <2>1, <2>3, <2>4 DEF MintAhead
  <2>6. \A m \in sending' : m.amount <= most /\ wallet[m.to] + m.amount <= 2 * most
    BY <1>1, <2>1, <2>2, <2>5 DEF HeldBelow
  <2>7. QED
    BY <2>1, <2>5, <2>6 DEF HeldBelow
<1>9. CASE Seed!StepRefused \/ Seed!RunThrows \/ Seed!ReadBack
  BY <1>2, <1>9 DEF Seed!StepRefused, Seed!RunThrows, Seed!ReadBack, Seed!Fails,
                    Seed!chainVars, Seed!runVars, MintAhead
<1>10. CASE Seed!MintLands
  <2>1. /\ \E m \in sending : wallet' = [wallet EXCEPT ![m.to] = @ + m.amount]
        /\ sending' = {} /\ UNCHANGED <<amount, seen, at, steps, key>>
    BY <1>10 DEF Seed!MintLands, Seed!runVars
  <2>2. PICK m \in sending : wallet' = [wallet EXCEPT ![m.to] = @ + m.amount]
    BY <2>1
  <2>3. \A k \in Keys : wallet'[k] = wallet[k] 
                         \/ (k = m.to /\ wallet'[k] = wallet[k] + m.amount)
    BY <1>1, <2>2
  <2>4. \A k \in Keys : wallet'[k] <= 2 * most
    BY <1>1, <2>3 DEF HeldBelow
  <2>5. MintAhead' => MintAhead /\ key \in Keys
    BY <2>1 DEF MintAhead, SeedTypes, AccountInv, Running, Seed!Ended
  <2>6. ASSUME MintAhead'
        PROVE  wallet'[key] + (amount - seen.assetBalance) <= 2 * most
    BY <1>1, <2>3, <2>5, <2>6 DEF HeldBelow
  <2>7. QED
    BY <2>1, <2>4, <2>6 DEF HeldBelow
<1>11. CASE Seed!MintExpires \/ Seed!Accrue
  <2>1. /\ UNCHANGED <<wallet, amount, seen, at, steps, key>>
        /\ sending' \subseteq sending
    BY <1>11 DEF Seed!MintExpires, Seed!Accrue, Seed!runVars
  <2>2. QED
    BY <2>1 DEF HeldBelow, MintAhead
<1>12. CASE UNCHANGED Seed!vars
  BY <1>12 DEF Seed!vars, Seed!chainVars, Seed!runVars, HeldBelow, MintAhead
<1> QED
  BY <1>3, <1>4, <1>6, <1>7, <1>8, <1>9, <1>10, <1>11, <1>12
     DEF Seed!Next, Seed!Proceeds

LEMMA HeldByNewRun ==
  ASSUME SeedTypes, NEW most \in Nat, HeldBelow(most), Seed!Start
  PROVE  \E q \in Requests : \A n \in Nat : n >= most /\ n >= q.amount => HeldBelow(n)'
<1>1. PICK q \in Requests : amount' = q.amount
  BY DEF Seed!Start
<1>2. /\ UNCHANGED <<wallet, sending>> /\ ~MintAhead'
      /\ q.amount \in Nat
  BY TestnetAssumption DEF Seed!Start, Seed!chainVars, MintAhead, Seed!ConstantsOK
<1>3. /\ wallet \in [Keys -> Nat]
      /\ \A m \in sending : m.to \in Keys /\ m.amount \in Nat
  BY DEF SeedTypes, AccountInv
<1>4. ASSUME NEW n \in Nat, n >= most, n >= q.amount
      PROVE  HeldBelow(n)'
  BY <1>1, <1>2, <1>3, <1>4 DEF HeldBelow
<1> QED
  BY <1>4

SurplusInv == \E q \in Requests : HeldBelow(q.amount)

(* A mint the minter gave up on may land beside the next run's; even then  *)
(* no account ever holds more than two deposits (demo-seed.ts: the top-up  *)
(* of readState and planSteps; faucet-minter.ts: unconfirmed mints).       *)
THEOREM SurplusTheorem == Seed!Spec => []SurplusIsBounded
<1>1. \A q \in Requests : q.amount \in Nat
  BY TestnetAssumption DEF Seed!ConstantsOK
<1>2. Seed!Init => SeedTypes /\ SurplusInv
  <2> SUFFICES ASSUME Seed!Init
               PROVE  SurplusInv
    BY TypesStart
  <2>1. PICK q \in Requests : TRUE
    BY TestnetAssumption DEF Seed!ConstantsOK
  <2>2. HeldBelow(q.amount)
    BY <1>1 DEF Seed!Init, HeldBelow, MintAhead
  <2>3. QED
    BY <2>2 DEF SurplusInv
<1>3. SeedTypes /\ SurplusInv /\ [Seed!Next]_(Seed!vars) => (SeedTypes /\ SurplusInv)'
  <2> SUFFICES ASSUME SeedTypes, SurplusInv, [Seed!Next]_(Seed!vars)
               PROVE  SurplusInv'
    BY TypesStep
  <2>1. PICK q \in Requests : HeldBelow(q.amount)
    BY DEF SurplusInv
  <2>2. CASE Seed!Start
    <3>1. PICK r \in Requests :
            \A n \in Nat : n >= q.amount /\ n >= r.amount => HeldBelow(n)'
      BY <1>1, <2>1, <2>2, HeldByNewRun
    <3>2. \E s \in {q, r} : s.amount >= q.amount /\ s.amount >= r.amount
      BY <1>1
    <3>3. QED
      BY <1>1, <3>1, <3>2 DEF SurplusInv
  <2>3. CASE ~Seed!Start
    BY <1>1, <2>1, <2>3, TypesStep, HeldStep DEF SurplusInv
  <2>4. QED
    BY <2>2, <2>3
<1>4. SurplusInv => SurplusIsBounded
  BY DEF SurplusInv, HeldBelow, SurplusIsBounded, Seed!SurplusIsBounded
<1>5. QED
  BY <1>2, <1>3, <1>4, PTL DEF Seed!Spec

-----------------------------------------------------------------------------
(* The faucet, with any number of buttons, keys and requests under way.    *)

(* A trustline was missing: nothing was submitted, and nothing will be.    *)
Denied(q) == q.at = "answered" /\ q.status = 409 /\ q.tx = "none"

(* Nothing is on the chain before it was submitted, and a 409 is the answer*)
(* to no other request.                                                    *)
Honest(q) ==
  /\ q.at \in {"posted", "minting", "built"} => q.tx = "none"
  /\ q.status = 409 => Denied(q)

RequestsAreHonest ==
  /\ requests \in [Slots -> Claims!Request]
  /\ \A r \in Slots : Honest(requests[r])

LEMMA RequestsStart == Claims!Init => RequestsAreHonest
<1> SUFFICES ASSUME Claims!Init
             PROVE  RequestsAreHonest
  OBVIOUS
<1>1. requests \in [Slots -> [key : Claimed, at : {"answered"}, next : {FALSE},
                              tx : {"none"}, status : {0}]]
  BY DEF Claims!Init
<1>2. "answered" \in Claims!Stages /\ "none" \in Claims!TxStates /\ 0 \in Claims!Statuses
  BY DEF Claims!Stages, Claims!TxStates, Claims!Statuses
<1>3. ASSUME NEW q \in [key : Claimed, at : {"answered"}, next : {FALSE}, tx : {"none"},
                        status : {0}]
      PROVE  q \in Claims!Request /\ Honest(q)
  <2>1. q \in Claims!Request
    BY <1>2, <1>3 DEF Claims!Request
  <2>2. Honest(q)
    BY <1>3 DEF Honest
  <2>3. QED
    BY <2>1, <2>2
<1>4. QED
  BY <1>1, <1>3 DEF RequestsAreHonest

(* What the route, the minter and the chain do to the requests, and that   *)
(* none of it brings a denied one back to life.                            *)
RequestsGoOn ==
  /\ RequestsAreHonest'
  /\ \A r \in Slots : Denied(requests[r]) => Denied(requests'[r])

LEMMA OneRequestGoesOn ==
  ASSUME RequestsAreHonest, NEW r \in Slots, NEW next \in Claims!Request,
         Honest(next), ~Denied(requests[r]), Claims!Step(r, next)
  PROVE  RequestsGoOn
BY DEF Claims!Step, RequestsAreHonest, RequestsGoOn

LEMMA HandlersGoOn ==
  ASSUME RequestsAreHonest, NEW r \in Slots,
         Claims!Handler(r) \/ Claims!Throws(r) \/ Claims!Apply(r) \/ Claims!Expire(r)
  PROVE  RequestsGoOn
<1> DEFINE q == requests[r]
           closed == [q EXCEPT !.at = "answered", !.next = FALSE]
<1>1. q \in Claims!Request /\ Honest(q)
  BY DEF RequestsAreHonest
<1>2. Denied(q) => q.at = "answered" /\ q.tx = "none"
  BY DEF Denied
<1>0. closed \in Claims!Request
  <2>1. "answered" \in Claims!Stages
    BY DEF Claims!Stages
  <2>2. QED
    BY <1>1, <2>1 DEF Claims!Request
<1>12. /\ 200 \in Claims!Statuses /\ 409 \in Claims!Statuses /\ 429 \in Claims!Statuses
       /\ 500 \in Claims!Statuses /\ "pending" \in Claims!TxStates
  BY DEF Claims!Statuses, Claims!TxStates
<1>3. ASSUME NEW status \in {429, 500}, q.at # "answered", Claims!Answer(r, status)
      PROVE  RequestsGoOn
  <2> DEFINE next == [q EXCEPT !.at = "answered", !.next = FALSE, !.status = status]
  <2>0. next \in Claims!Request
    <3>1. status \in Claims!Statuses
      BY <1>3, <1>12
    <3>2. [closed EXCEPT !.status = status] \in Claims!Request
      <4> HIDE DEF closed
      <4>1. QED
        BY <1>0, <3>1 DEF Claims!Request
    <3>3. next = [closed EXCEPT !.status = status]
      BY <1>1 DEF Claims!Request
    <3>4. QED
      BY <3>2, <3>3
  <2>1. next \in Claims!Request /\ Honest(next)
    BY <1>1, <1>3, <2>0 DEF Claims!Request, Honest
  <2>2. QED
    BY <1>2, <1>3, <2>1, OneRequestGoesOn DEF Claims!Answer
<1>4. CASE Claims!Check(r)
  <2> DEFINE next == [q EXCEPT !.at = "minting"]
  <2>1. q.at = "posted"
    BY <1>4 DEF Claims!Check
  <2>2. next \in Claims!Request /\ Honest(next)
    <3>1. "minting" \in Claims!Stages
      BY DEF Claims!Stages
    <3>2. next \in Claims!Request
      BY <1>1, <3>1 DEF Claims!Request
    <3>3. Honest(next)
      BY <1>1, <2>1 DEF Claims!Request, Honest, Denied
    <3>4. QED
      BY <3>2, <3>3
  <2>3. Claims!Answer(r, 429) \/ Claims!Step(r, next)
    BY <1>4 DEF Claims!Check
  <2>4. QED
    BY <1>2, <1>3, <2>1, <2>2, <2>3, OneRequestGoesOn
<1>5. CASE Claims!Build(r)
  <2> DEFINE next == [q EXCEPT !.at = "built", !.next = TRUE]
  <2>1. q.at = "minting" /\ Claims!Step(r, next)
    BY <1>5 DEF Claims!Build
  <2>2. next \in Claims!Request /\ Honest(next)
    <3>1. "built" \in Claims!Stages
      BY DEF Claims!Stages
    <3>2. next \in Claims!Request
      BY <1>1, <3>1 DEF Claims!Request
    <3>3. Honest(next)
      BY <1>1, <2>1 DEF Claims!Request, Honest, Denied
    <3>4. QED
      BY <3>2, <3>3
  <2>3. QED
    BY <1>2, <2>1, <2>2, OneRequestGoesOn
<1>6. CASE Claims!Submit(r)
  <2> DEFINE denied == [q EXCEPT !.at = "answered", !.next = FALSE, !.status = 409]
             duplicate == [q EXCEPT !.at = "sent", !.next = FALSE]
             accepted == [q EXCEPT !.at = "sent", !.next = FALSE, !.tx = "pending"]
  <2>1. q.at = "built" /\ q.tx = "none" /\ q.status # 409
    BY <1>1, <1>6 DEF Claims!Submit, Honest, Denied
  <2>2. denied \in Claims!Request /\ Honest(denied)
    <3>1. [closed EXCEPT !.status = 409] \in Claims!Request
      <4> HIDE DEF closed
      <4>1. QED
        BY <1>0, <1>12 DEF Claims!Request
    <3>2. denied = [closed EXCEPT !.status = 409]
      BY <1>1 DEF Claims!Request
    <3>3. Honest(denied)
      BY <1>1, <2>1 DEF Claims!Request, Honest, Denied
    <3>4. QED
      BY <3>1, <3>2, <3>3
  <2>3. duplicate \in Claims!Request /\ accepted \in Claims!Request
    <3>1. "sent" \in Claims!Stages
      BY DEF Claims!Stages
    <3>2. duplicate \in Claims!Request
      BY <1>1, <3>1 DEF Claims!Request
    <3>3. [duplicate EXCEPT !.tx = "pending"] \in Claims!Request
      <4> HIDE DEF duplicate
      <4>1. QED
        BY <1>12, <3>2 DEF Claims!Request
    <3>4. accepted = [duplicate EXCEPT !.tx = "pending"]
      BY <1>1 DEF Claims!Request
    <3>5. accepted \in Claims!Request
      BY <3>3, <3>4
    <3>6. QED
      BY <3>2, <3>5
  <2>4. Honest(duplicate) /\ Honest(accepted)
    BY <1>1, <2>1 DEF Claims!Request, Honest
  <2>5. \/ Claims!Answer(r, 500) \/ Claims!Step(r, denied)
        \/ Claims!Step(r, duplicate) \/ Claims!Step(r, accepted)
    BY <1>6 DEF Claims!Submit, Claims!Answer
  <2>6. QED
    BY <1>2, <1>3, <2>1, <2>2, <2>3, <2>4, <2>5, OneRequestGoesOn
<1>7. CASE Claims!Throws(r)
  <2> DEFINE lost == [q EXCEPT !.at = "answered", !.next = FALSE, !.status = 500,
                              !.tx = "pending"]
  <2>1. q.at \in {"minting", "built", "sent"}
        /\ (Claims!Answer(r, 500) \/ Claims!Step(r, lost))
    BY <1>7 DEF Claims!Throws
  <2>2. lost \in Claims!Request /\ Honest(lost)
    <3> DEFINE failed == [closed EXCEPT !.status = 500]
    <3>1. [failed EXCEPT !.tx = "pending"] \in Claims!Request
      <4>1. failed \in Claims!Request
        <5> HIDE DEF closed
        <5>1. QED
          BY <1>0, <1>12 DEF Claims!Request
      <4> HIDE DEF failed
      <4>2. QED
        BY <1>12, <4>1 DEF Claims!Request
    <3>2. lost = [failed EXCEPT !.tx = "pending"]
      BY <1>1 DEF Claims!Request
    <3>3. Honest(lost)
      BY <1>1 DEF Claims!Request, Honest
    <3>4. QED
      BY <3>1, <3>2, <3>3
  <2>3. QED
    BY <1>2, <1>3, <2>1, <2>2, OneRequestGoesOn
<1>8. CASE Claims!Apply(r)
  <2>1. PICK verdict \in {"landed", "failed"} :
          requests' = [s \in Slots |-> [requests[s] EXCEPT
                         !.next = FALSE, !.tx = IF s = r THEN verdict ELSE @]]
    BY <1>8 DEF Claims!Apply
  <2>2. q.tx = "pending"
    BY <1>8 DEF Claims!Apply
  <2>3. ASSUME NEW s \in Slots
        PROVE  /\ requests'[s] \in Claims!Request /\ Honest(requests'[s])
               /\ Denied(requests[s]) => Denied(requests'[s])
    <3>1. requests[s] \in Claims!Request /\ Honest(requests[s])
      BY DEF RequestsAreHonest
    <3>2. CASE s = r
      <4>1. requests'[s] = [q EXCEPT !.next = FALSE, !.tx = verdict]
        BY <2>1, <3>2
      <4>2. verdict \in Claims!TxStates
        BY DEF Claims!TxStates
      <4>3. requests'[s] \in Claims!Request
        BY <1>1, <4>1, <4>2 DEF Claims!Request
      <4>4. /\ requests'[s].at = q.at /\ requests'[s].status = q.status
            /\ q.at \notin {"posted", "minting", "built"} /\ q.status # 409
        BY <1>1, <2>2, <4>1 DEF Claims!Request, Honest, Denied
      <4>5. QED
        BY <1>2, <2>2, <3>2, <4>3, <4>4 DEF Honest
    <3>3. CASE s # r
      <4>1. requests'[s] = [requests[s] EXCEPT !.next = FALSE, !.tx = @]
        BY <2>1, <3>3
      <4>2. /\ requests'[s] \in Claims!Request /\ requests'[s].at = requests[s].at
            /\ requests'[s].status = requests[s].status /\ requests'[s].tx = requests[s].tx
        BY <3>1, <4>1 DEF Claims!Request
      <4>3. QED
        BY <3>1, <4>2 DEF Honest, Denied
    <3>4. QED
      BY <3>2, <3>3
  <2>4. requests' \in [Slots -> Claims!Request]
    BY <2>1, <2>3
  <2>5. QED
    BY <2>3, <2>4 DEF RequestsGoOn, RequestsAreHonest
<1>9. CASE Claims!Expire(r)
  <2> DEFINE next == [q EXCEPT !.tx = "none"]
  <2>1. q.tx = "pending" /\ Claims!Step(r, next)
    BY <1>9 DEF Claims!Expire
  <2>2. next \in Claims!Request /\ Honest(next)
    BY <1>1, <2>1 DEF Claims!Request, Claims!TxStates, Honest, Denied
  <2>3. QED
    BY <1>2, <2>1, <2>2, OneRequestGoesOn
<1>10. CASE Claims!Confirm(r)
  <2> DEFINE next == [q EXCEPT !.at = "answered", !.next = FALSE, !.status = 200]
  <2>1. q.at = "sent" /\ (Claims!Answer(r, 500) \/ Claims!Step(r, next))
    BY <1>10 DEF Claims!Confirm, Claims!Answer
  <2>2. next \in Claims!Request /\ Honest(next)
    <3>1. [closed EXCEPT !.status = 200] \in Claims!Request
      <4> HIDE DEF closed
      <4>1. QED
        BY <1>0, <1>12 DEF Claims!Request
    <3>2. next = [closed EXCEPT !.status = 200]
      BY <1>1 DEF Claims!Request
    <3>3. Honest(next)
      BY <1>1 DEF Claims!Request, Honest
    <3>4. QED
      BY <3>1, <3>2, <3>3
  <2>3. QED
    BY <1>2, <1>3, <2>1, <2>2, OneRequestGoesOn
<1>11. QED
  BY <1>4, <1>5, <1>6, <1>7, <1>8, <1>9, <1>10 DEF Claims!Handler

(* Of the requests of a click all but the one it waits for were denied, and*)
(* that one was when the trustline is what it is at.                       *)
Phases == {"idle", "first", "trust", "retry"}

ClicksInv ==
  /\ RequestsAreHonest
  /\ phase \in [Buttons -> Phases]
  /\ waits \in [Buttons -> Slots] /\ asked \in [Buttons -> SUBSET Slots]
  /\ \A b \in Buttons :
       /\ \A r \in asked[b] : r = waits[b] \/ Denied(requests[r])
       /\ phase[b] # "idle" => waits[b] \in asked[b]
       /\ phase[b] = "trust" => Denied(requests[waits[b]])

LEMMA PostKeepsClicks ==
  ASSUME ClicksInv, NEW b \in Buttons, NEW next \in {"first", "retry"},
         phase[b] \in {"idle", "trust"}, Claims!Post(b, next)
  PROVE  ClicksInv'
<1>1. PICK r \in Slots :
        /\ Claims!Free(r)
        /\ Claims!Step(r, [key |-> KeyOf[b], at |-> "posted", next |-> FALSE, tx |-> "none",
                           status |-> 0])
        /\ waits' = [waits EXCEPT ![b] = r]
        /\ asked' = [d \in Buttons |-> IF d # b THEN asked[d] \ {r}
                                      ELSE IF Claims!Busy(b) THEN asked[b] \cup {r} ELSE {r}]
        /\ phase' = [phase EXCEPT ![b] = next]
  BY DEF Claims!Post
<1> DEFINE posted == [key |-> KeyOf[b], at |-> "posted", next |-> FALSE, tx |-> "none",
                      status |-> 0]
<1>2. posted \in Claims!Request /\ Honest(posted)
  BY TestnetAssumption DEF Claims!Request, Claims!Stages, Claims!TxStates, Claims!Statuses,
     Honest, Claims!ConstantsOK
<1> HIDE DEF posted
<1>3. requests' = [requests EXCEPT ![r] = posted]
  BY <1>1 DEF Claims!Step, posted
<1>4. RequestsAreHonest'
  BY <1>2, <1>3 DEF ClicksInv, RequestsAreHonest
<1>5. \A s \in Slots : s # r => requests'[s] = requests[s]
  BY <1>3 DEF ClicksInv, RequestsAreHonest
<1>6. \A d \in Buttons : phase[d] # "idle" => r \notin asked[d]
  BY <1>1 DEF Claims!Free, Claims!Busy
<1>7. /\ phase' \in [Buttons -> Phases] /\ waits' \in [Buttons -> Slots]
      /\ asked' \in [Buttons -> SUBSET Slots]
  BY <1>1 DEF ClicksInv, Phases
<1>8. ASSUME NEW d \in Buttons, d # b
      PROVE  /\ \A s \in asked'[d] : s = waits'[d] \/ Denied(requests'[s])
             /\ phase'[d] # "idle" => waits'[d] \in asked'[d]
             /\ phase'[d] = "trust" => Denied(requests'[waits'[d]])
  <2>1. waits'[d] = waits[d] /\ phase'[d] = phase[d] /\ asked'[d] = asked[d] \ {r}
    BY <1>1, <1>8 DEF ClicksInv
  <2>2. \A s \in asked[d] : s \in Slots
    BY DEF ClicksInv
  <2>3. \A s \in asked'[d] : s = waits'[d] \/ Denied(requests'[s])
    BY <1>5, <2>1, <2>2 DEF ClicksInv
  <2>4. phase[d] # "idle" => waits[d] \in asked[d] /\ waits[d] # r
    BY <1>6 DEF ClicksInv
  <2>5. phase[d] = "trust" => Denied(requests[waits[d]])
    BY DEF ClicksInv
  <2>6. QED
    BY <1>5, <2>1, <2>2, <2>3, <2>4, <2>5
<1>9. /\ \A s \in asked'[b] : s = waits'[b] \/ Denied(requests'[s])
      /\ waits'[b] \in asked'[b] /\ phase'[b] # "trust"
  <2>1. waits'[b] = r /\ phase'[b] = next
    BY <1>1 DEF ClicksInv
  <2>2. CASE phase[b] = "idle"
    <3>1. asked'[b] = {r}
      BY <1>1, <2>2 DEF Claims!Busy
    <3>2. QED
      BY <2>1, <3>1
  <2>3. CASE phase[b] = "trust"
    <3>1. asked'[b] = asked[b] \cup {r}
      BY <1>1, <2>3 DEF Claims!Busy
    <3>2. \A s \in asked[b] : s \in Slots /\ Denied(requests[s]) /\ s # r
      BY <1>6, <2>3 DEF ClicksInv
    <3>3. QED
      BY <1>5, <2>1, <3>1, <3>2
  <2>4. QED
    BY <2>2, <2>3
<1>10. QED
  BY <1>4, <1>7, <1>8, <1>9 DEF ClicksInv

LEMMA ClicksStep ==
  ASSUME ClicksInv, [Claims!Next]_(Claims!vars)
  PROVE  ClicksInv'
<1>1. ASSUME NEW r \in Slots,
             Claims!Handler(r) \/ Claims!Throws(r) \/ Claims!Apply(r) \/ Claims!Expire(r)
      PROVE  ClicksInv'
  <2>1. UNCHANGED <<phase, waits, asked>>
    BY <1>1 DEF Claims!Handler, Claims!Check, Claims!Build, Claims!Submit, Claims!Confirm,
                Claims!Throws, Claims!Apply, Claims!Expire, Claims!buttonVars,
                Claims!clickVars
  <2>2. RequestsGoOn
    BY <1>1, HandlersGoOn DEF ClicksInv
  <2>3. \A b \in Buttons : waits[b] \in Slots /\ asked[b] \subseteq Slots
    BY DEF ClicksInv
  <2>4. QED
    BY <2>1, <2>2, <2>3 DEF ClicksInv, RequestsGoOn
<1>2. ASSUME NEW b \in Buttons, Claims!Click(b) \/ Claims!AddTrustline(b)
      PROVE  ClicksInv'
  <2>1. CASE Claims!Click(b)
    <3>1. phase[b] = "idle" /\ Claims!Post(b, "first")
      BY <2>1 DEF Claims!Click, Claims!Busy
    <3>2. QED
      BY <3>1, PostKeepsClicks
  <2>2. CASE Claims!AddTrustline(b)
    <3>1. phase[b] = "trust" /\ Claims!Post(b, "retry")
      BY <2>2 DEF Claims!AddTrustline
    <3>2. QED
      BY <3>1, PostKeepsClicks
  <2>3. QED
    BY <1>2, <2>1, <2>2
<1>3. \A b \in Buttons, next \in Phases :
        /\ phase' = [phase EXCEPT ![b] = next] /\ UNCHANGED <<requests, waits, asked>>
        /\ next # "idle" => phase[b] # "idle"
        /\ next = "trust" => Denied(requests[waits[b]])
        => ClicksInv'
  BY DEF ClicksInv, RequestsAreHonest
<1>4. ASSUME NEW b \in Buttons, Claims!Hear(b)
      PROVE  ClicksInv'
  <2> DEFINE q == requests[waits[b]]
             next == Claims!PhaseAfter(b, q.status)
  <2>1. /\ phase[b] # "idle" /\ phase' = [phase EXCEPT ![b] = next]
        /\ UNCHANGED <<requests, waits, asked>>
    BY <1>4 DEF Claims!Hear, Claims!Waiting, Claims!backendVars, Claims!clickVars
  <2>2. next \in Phases /\ (next = "trust" => q.status = 409)
    BY DEF Claims!PhaseAfter, Phases
  <2>3. q.status = 409 => Denied(q)
    BY DEF ClicksInv, RequestsAreHonest, Honest
  <2>4. next = "trust" => Denied(requests[waits[b]])
    BY <2>2, <2>3
  <2> HIDE DEF q, next
  <2>5. QED
    BY <2>1, <2>2, <2>4 DEF ClicksInv, RequestsAreHonest
<1>5. ASSUME NEW b \in Buttons,
             Claims!TrustlineFails(b) \/ Claims!GiveUp(b) \/ Claims!Reload(b)
      PROVE  ClicksInv'
  <2>1. phase' = [phase EXCEPT ![b] = "idle"] /\ UNCHANGED <<requests, waits, asked>>
    BY <1>5 DEF Claims!TrustlineFails, Claims!GiveUp, Claims!Reload, Claims!backendVars,
                Claims!clickVars
  <2>2. QED
    BY <1>3, <2>1 DEF Phases
<1>6. ASSUME UNCHANGED <<requests, phase, waits, asked>>
      PROVE  ClicksInv'
  BY <1>6 DEF ClicksInv, RequestsAreHonest
<1>7. ASSUME NEW b \in Buttons, Claims!Mount(b) \/ Claims!Unmount(b)
      PROVE  ClicksInv'
  BY <1>6, <1>7 DEF Claims!Mount, Claims!Unmount, Claims!backendVars, Claims!clickVars
<1>8. CASE Claims!Tick \/ UNCHANGED Claims!vars
  BY <1>6, <1>8 DEF Claims!Tick, Claims!vars, Claims!backendVars, Claims!buttonVars,
                    Claims!clickVars
<1>9. QED
  BY <1>1, <1>2, <1>4, <1>5, <1>7, <1>8 DEF Claims!Next

(* A click mints once at most, whatever is told of it: what the button     *)
(* repeats by itself (FaucetButton.tsx) is a request that was denied.      *)
THEOREM ClickTheorem == Claims!Spec => []OneMintPerClick
<1>1. Claims!Init => ClicksInv
  <2> SUFFICES ASSUME Claims!Init
               PROVE  ClicksInv
    OBVIOUS
  <2>1. /\ phase \in [Buttons -> Phases] /\ waits \in [Buttons -> Slots]
        /\ asked \in [Buttons -> SUBSET Slots]
    BY DEF Claims!Init, Phases
  <2>2. \A b \in Buttons : phase[b] = "idle" /\ asked[b] = {}
    BY DEF Claims!Init
  <2>3. QED
    BY <2>1, <2>2, RequestsStart DEF ClicksInv
<1>2. ClicksInv => OneMintPerClick
  <2> SUFFICES ASSUME ClicksInv, NEW b \in Buttons, NEW r \in asked[b], NEW s \in asked[b],
                      requests[r].tx = "landed", requests[s].tx = "landed"
               PROVE  r = s
    BY DEF OneMintPerClick, Claims!OneMintPerClick
  <2>1. ~Denied(requests[r]) /\ ~Denied(requests[s])
    BY DEF Denied
  <2>2. QED
    BY <2>1 DEF ClicksInv
<1>3. QED
  BY <1>1, <1>2, ClicksStep, PTL DEF Claims!Spec

(* A button that is not behind shows what is left of its key's cooldown,   *)
(* and has a click under way only where there is none.                     *)
CooldownInv ==
  /\ stored \in [Claimed -> 0 .. FAUCET_COOLDOWN] /\ cooldown \in [Buttons -> Nat]
  /\ phase \in [Buttons -> Phases]
  /\ \A b \in Buttons :
       /\ cooldown[b] <= stored[KeyOf[b]]
       /\ b \notin behind => /\ b \in mounted => cooldown[b] = stored[KeyOf[b]]
                             /\ phase[b] # "idle" => stored[KeyOf[b]] = 0

NoClaimInside == \A k \in Claimed : ~(stored'[k] > stored[k])

LEMMA CooldownStep ==
  ASSUME CooldownInv, [Claims!Next]_(Claims!vars)
  PROVE  CooldownInv' /\ Claims!FreshOrBehind
<1>1. KeyOf \in [Buttons -> Claimed] /\ FAUCET_COOLDOWN \in Nat
  BY TestnetAssumption DEF Claims!ConstantsOK
<1>2. ASSUME UNCHANGED <<stored, cooldown, phase, mounted, behind>>
      PROVE  CooldownInv' /\ NoClaimInside
  BY <1>2 DEF CooldownInv, NoClaimInside
<1>3. ASSUME NEW r \in Slots,
             \/ Claims!Handler(r) \/ Claims!Throws(r) \/ Claims!Apply(r) \/ Claims!Expire(r)
      PROVE  UNCHANGED <<stored, cooldown, phase, mounted, behind>>
  BY <1>3 DEF Claims!Handler, Claims!Check, Claims!Build, Claims!Submit, Claims!Confirm,
              Claims!Throws, Claims!Apply, Claims!Expire, Claims!buttonVars,
              Claims!screenVars
<1>5. ASSUME NEW b \in Buttons,
             \/ Claims!Click(b) \/ Claims!AddTrustline(b) \/ Claims!TrustlineFails(b)
             \/ Claims!GiveUp(b)
      PROVE  CooldownInv' /\ NoClaimInside
  <2>1. UNCHANGED Claims!screenVars
    BY <1>5 DEF Claims!Click, Claims!AddTrustline, Claims!Post, Claims!TrustlineFails,
                Claims!GiveUp
  <2>2. CASE Claims!Click(b)
    <3>1. phase' = [phase EXCEPT ![b] = "first"] /\ b \in mounted /\ cooldown[b] = 0
      BY <2>2 DEF Claims!Click, Claims!Post
    <3>2. "first" \in Phases
      BY DEF Phases
    <3>3. QED
      BY <1>1, <2>1, <3>1, <3>2 DEF CooldownInv, NoClaimInside, Claims!screenVars
  <2>3. CASE Claims!AddTrustline(b)
    <3>1. phase' = [phase EXCEPT ![b] = "retry"] /\ phase[b] # "idle"
      BY <2>3 DEF Claims!AddTrustline, Claims!Post
    <3>2. "retry" \in Phases
      BY DEF Phases
    <3>3. QED
      BY <1>1, <2>1, <3>1, <3>2 DEF CooldownInv, NoClaimInside, Claims!screenVars
  <2>4. CASE Claims!TrustlineFails(b) \/ Claims!GiveUp(b)
    <3>1. phase' = [phase EXCEPT ![b] = "idle"]
      BY <2>4 DEF Claims!TrustlineFails, Claims!GiveUp
    <3>2. QED
      BY <1>1, <2>1, <3>1 DEF CooldownInv, NoClaimInside, Claims!screenVars, Phases
  <2>5. QED
    BY <1>5, <2>2, <2>3, <2>4
<1>6. ASSUME NEW b \in Buttons, Claims!Hear(b)
      PROVE  /\ CooldownInv'
             /\ \A k \in Claimed : stored'[k] > stored[k] =>
                  \/ stored[k] = 0
                  \/ b \in behind /\ KeyOf[b] = k /\ Claims!Waiting(b) /\ phase'[b] = "idle"
  <2> DEFINE status == requests[waits[b]].status
             next == Claims!PhaseAfter(b, status)
  <2>1. /\ Claims!Waiting(b) /\ phase' = [phase EXCEPT ![b] = next]
        /\ IF status = 200 THEN Claims!Succeed(b) ELSE UNCHANGED Claims!screenVars
    BY <1>6 DEF Claims!Hear
  <2>2. next \in {"idle", "trust"} /\ (status = 200 => next = "idle")
    BY DEF Claims!PhaseAfter
  <2>3. phase[b] # "idle"
    BY <2>1 DEF Claims!Waiting
  <2> HIDE DEF status, next
  <2>4. CASE status = 200
    <3>1. /\ stored' = [stored EXCEPT ![KeyOf[b]] = FAUCET_COOLDOWN]
          /\ cooldown' = IF b \in mounted THEN [cooldown EXCEPT ![b] = FAUCET_COOLDOWN]
                                          ELSE cooldown
          /\ behind' = (behind \ {b}) \cup
                         {d \in (mounted \cup {c \in Buttons : Claims!Busy(c)}) \ {b} :
                            KeyOf[d] = KeyOf[b]}
          /\ mounted' = mounted /\ phase' = [phase EXCEPT ![b] = "idle"]
      BY <2>1, <2>2, <2>4 DEF Claims!Succeed
    <3>2. ASSUME NEW d \in Buttons
          PROVE  /\ cooldown'[d] \in Nat /\ cooldown'[d] <= stored'[KeyOf[d]]
                 /\ d \notin behind' => /\ d \in mounted' => cooldown'[d] = stored'[KeyOf[d]]
                                        /\ phase'[d] # "idle" => stored'[KeyOf[d]] = 0
      <4>1. CASE d = b
        BY <1>1, <3>1, <4>1 DEF CooldownInv
      <4>2. CASE d # b /\ KeyOf[d] = KeyOf[b]
        BY <1>1, <3>1, <4>2 DEF CooldownInv, Claims!Busy
      <4>3. CASE KeyOf[d] # KeyOf[b]
        BY <1>1, <3>1, <4>3 DEF CooldownInv
      <4>4. QED
        BY <4>1, <4>2, <4>3
    <3>3. /\ stored' \in [Claimed -> 0 .. FAUCET_COOLDOWN] /\ cooldown' \in [Buttons -> Nat]
          /\ phase' \in [Buttons -> Phases]
      BY <1>1, <3>1 DEF CooldownInv, Phases
    <3>4. CooldownInv'
      BY <3>2, <3>3 DEF CooldownInv
    <3>5. ASSUME NEW k \in Claimed, stored'[k] > stored[k]
          PROVE  k = KeyOf[b] /\ (b \notin behind => stored[k] = 0) /\ phase'[b] = "idle"
      BY <1>1, <2>3, <3>1, <3>5 DEF CooldownInv
    <3>6. QED
      BY <2>1, <3>4, <3>5
  <2>5. CASE status # 200
    <3>1. next \in Phases
      BY <2>2 DEF Phases
    <3>2. UNCHANGED Claims!screenVars /\ phase' = [phase EXCEPT ![b] = next]
      BY <2>1, <2>5
    <3>3. CooldownInv' /\ NoClaimInside
      BY <1>1, <2>3, <3>1, <3>2 DEF CooldownInv, NoClaimInside, Claims!screenVars
    <3>4. QED
      BY <3>3 DEF NoClaimInside
  <2>6. QED
    BY <2>4, <2>5
<1>7. ASSUME NEW b \in Buttons, Claims!Mount(b) \/ Claims!Unmount(b) \/ Claims!Reload(b)
      PROVE  CooldownInv' /\ NoClaimInside
  <2>1. CASE Claims!Mount(b)
    <3>1. /\ phase[b] = "idle" /\ behind' = behind \ {b} /\ UNCHANGED <<phase, stored>>
          /\ mounted' = mounted \cup {b}
          /\ cooldown' = [cooldown EXCEPT ![b] = stored[KeyOf[b]]]
      BY <2>1 DEF Claims!Mount, Claims!Restored, Claims!Busy
    <3>2. QED
      BY <1>1, <3>1 DEF CooldownInv, NoClaimInside
  <2>2. CASE Claims!Unmount(b)
    <3>1. /\ UNCHANGED <<phase, stored>> /\ mounted' = mounted \ {b}
          /\ behind' = IF phase[b] # "idle" THEN behind ELSE behind \ {b}
          /\ cooldown' = [cooldown EXCEPT ![b] = 0]
      BY <2>2 DEF Claims!Unmount, Claims!Busy
    <3>2. QED
      BY <1>1, <3>1 DEF CooldownInv, NoClaimInside
  <2>3. CASE Claims!Reload(b)
    <3>1. /\ phase' = [phase EXCEPT ![b] = "idle"] /\ UNCHANGED stored
          /\ mounted' = mounted \ {b} /\ behind' = behind \ {b}
          /\ cooldown' = [cooldown EXCEPT ![b] = 0]
      BY <2>3 DEF Claims!Reload
    <3>2. QED
      BY <1>1, <3>1 DEF CooldownInv, NoClaimInside, Phases
  <2>4. QED
    BY <1>7, <2>1, <2>2, <2>3
<1>8. ASSUME Claims!Tick
      PROVE  CooldownInv' /\ NoClaimInside
  <2>1. /\ cooldown' = [b \in Buttons |-> Claims!Less(cooldown[b])]
        /\ stored' = [k \in Claimed |-> Claims!Less(stored[k])]
        /\ behind' = {b \in behind : stored'[KeyOf[b]] > 0}
        /\ UNCHANGED <<phase, mounted>>
    BY <1>8 DEF Claims!Tick, Claims!clickVars
  <2>2. /\ \A n \in Nat : Claims!Less(n) \in Nat /\ Claims!Less(n) <= n
        /\ \A m, n \in Nat : m <= n => Claims!Less(m) <= Claims!Less(n)
        /\ Claims!Less(0) = 0
    BY DEF Claims!Less
  <2>3. \A k \in Claimed : /\ stored[k] \in 0 .. FAUCET_COOLDOWN
                           /\ stored'[k] = Claims!Less(stored[k])
    BY <2>1 DEF CooldownInv
  <2>4. \A b \in Buttons : cooldown[b] \in Nat /\ cooldown'[b] = Claims!Less(cooldown[b])
    BY <2>1 DEF CooldownInv
  <2>5. \A k \in Claimed : stored'[k] \in 0 .. FAUCET_COOLDOWN /\ stored'[k] <= stored[k]
    BY <1>1, <2>2, <2>3
  <2>6. /\ stored' \in [Claimed -> 0 .. FAUCET_COOLDOWN]
        /\ cooldown' \in [Buttons -> Nat]
    BY <2>1, <2>2, <2>4, <2>5
  <2>7. ASSUME NEW b \in Buttons
        PROVE  /\ cooldown'[b] <= stored'[KeyOf[b]]
               /\ b \notin behind' => /\ b \in mounted => cooldown'[b] = stored'[KeyOf[b]]
                                      /\ phase[b] # "idle" => stored'[KeyOf[b]] = 0
    <3> DEFINE k == KeyOf[b]
    <3>1. k \in Claimed /\ cooldown[b] <= stored[k] /\ stored[k] \in Nat /\ cooldown[b] \in Nat
      BY <1>1, <2>3, <2>4 DEF CooldownInv
    <3>2. cooldown'[b] <= stored'[k] /\ cooldown'[b] \in Nat /\ stored'[k] \in Nat
      BY <2>2, <2>3, <2>4, <3>1
    <3>3. CASE b \in behind
      <4>1. b \notin behind' => stored'[k] = 0
        BY <2>1, <3>2, <3>3
      <4>2. QED
        BY <3>2, <4>1
    <3>4. CASE b \notin behind
      BY <2>2, <2>3, <2>4, <3>1, <3>2, <3>4 DEF CooldownInv
    <3>5. QED
      BY <3>3, <3>4
  <2>8. QED
    BY <2>1, <2>3, <2>5, <2>6, <2>7 DEF CooldownInv, NoClaimInside
<1>9. CASE UNCHANGED Claims!vars
  <2>1. UNCHANGED <<stored, cooldown, phase, mounted, behind>>
    BY <1>9 DEF Claims!vars, Claims!buttonVars, Claims!screenVars
  <2>2. QED
    BY <1>2, <2>1 DEF NoClaimInside, Claims!FreshOrBehind
<1> QED
  BY <1>2, <1>3, <1>5, <1>6, <1>7, <1>8, <1>9 DEF Claims!Next, NoClaimInside,
     Claims!FreshOrBehind

(* A claim that succeeds inside the cooldown of an earlier one was made by *)
(* a button that had been on screen, or busy, since before that one was    *)
(* stored (FaucetButton.tsx reads localStorage when it appears).           *)
THEOREM ClaimTheorem == Claims!Spec => OnlyTheBehindClaimAgain
<1>1. Claims!Init => CooldownInv
  BY TestnetAssumption DEF Claims!Init, Claims!ConstantsOK, CooldownInv, Phases
<1>2. CooldownInv /\ [Claims!Next]_(Claims!vars) =>
        CooldownInv' /\ [Claims!FreshOrBehind]_(Claims!vars)
  BY CooldownStep
<1>3. QED
  BY <1>1, <1>2, PTL DEF Claims!Spec, OnlyTheBehindClaimAgain, Claims!OnlyTheBehindClaimAgain

-----------------------------------------------------------------------------
(* The operator's scripts.                                                 *)
Kinds == {"vault", "deploy_mock_pool", "deploy_yield_pool"}
Tokens == {OwnSac, CircleSac, "none"}
ContractSet == [kind : Kinds, token : Tokens, current : BOOLEAN,
                tokens : [Scripts!Currencies -> Tokens], allowed : SUBSET Nat,
                target : [Scripts!Currencies -> Nat]]
Settings == [vault : Nat, sac : [Scripts!Currencies -> Tokens],
             blend : [Scripts!Currencies -> Nat], yield : [Scripts!Currencies -> Nat]]
Ops == {"deploy_vault", "need_blend", "set_token", "set_pool_allowed",
        "set_configured_pool", "write_vault", "deploy_mock_pool", "write_assets",
        "deploy_yield_pool", "write_yield", "upgrade"}
Commands == [op : Ops, currency : Scripts!Currencies]

ScriptTypes ==
  /\ contracts \in Seq(ContractSet) /\ todo \in Seq(Commands)
  /\ dotenv \in Settings /\ loaded \in Settings
  /\ vault \in Nat /\ mine \in [Scripts!Currencies -> Nat]

IsVault(v) == v \in 1 .. Len(contracts) /\ contracts[v].kind = "vault"

VaultsAreKnown ==
  /\ dotenv.vault # 0 => IsVault(dotenv.vault)
  /\ todo # <<>> => IsVault(vault) \/ todo[1].op = "deploy_vault"

(* The command makes another pool the script's own for c.                  *)
Replaces(i, c) ==
  todo[i].op \in {"deploy_mock_pool", "deploy_yield_pool"} /\ todo[i].currency = c

(* Before the script writes a yield pool to .env it has upgraded the vault *)
(* or is going to, and it has allowed the pool or is going to.             *)
WriteIsPrepared(j) ==
  /\ \A i \in 1 .. j - 1 : todo[i].op \notin {"deploy_vault", "need_blend"}
  /\ contracts[vault].current \/ \E i \in 1 .. j - 1 : todo[i].op = "upgrade"
  /\ \/ /\ mine[todo[j].currency] \in contracts[vault].allowed
        /\ \A i \in 1 .. j - 1 : ~Replaces(i, todo[j].currency)
     \/ \E i \in 1 .. j - 1 :
          /\ todo[i].op = "set_pool_allowed" /\ todo[i].currency = todo[j].currency
          /\ \A k \in i + 1 .. j - 1 : ~Replaces(k, todo[j].currency)

WritesArePrepared ==
  \A j \in 1 .. Len(todo) : todo[j].op = "write_yield" => WriteIsPrepared(j)

(* Contracts are never taken back, nor what was allowed or upgraded.       *)
ContractsGrow ==
  \A v \in 1 .. Len(contracts) :
    /\ v \in 1 .. Len(contracts)' /\ contracts'[v].kind = contracts[v].kind
    /\ contracts[v].current => contracts'[v].current
    /\ contracts[v].allowed \subseteq contracts'[v].allowed

ScriptsInv ==
  ScriptTypes /\ VaultsAreKnown /\ WritesArePrepared /\ OfferedPoolsAreReady

LEMMA ScriptConstants ==
  /\ Buckets \in Seq(Scripts!Currencies) /\ Len(Buckets) \in Nat \ {0}
  /\ Buckets[1] \in Scripts!Currencies
<1>1. Buckets # <<>> /\ Buckets \in Seq(Scripts!Currencies)
  BY TestnetAssumption DEF Scripts!ConstantsOK, Scripts!Currencies
<1>2. QED
  BY <1>1

LEMMA ContractMade ==
  ASSUME NEW kind \in Kinds, NEW token \in Tokens, NEW isCurrent \in BOOLEAN
  PROVE  /\ Scripts!Contract(kind, token, isCurrent) \in ContractSet
         /\ Scripts!Contract(kind, token, isCurrent).kind = kind
<1>1. [c \in Scripts!Currencies |-> 0] \in [Scripts!Currencies -> Nat]
      /\ [c \in Scripts!Currencies |-> "none"] \in [Scripts!Currencies -> Tokens]
  BY DEF Tokens
<1> DEFINE ids == [c \in Scripts!Currencies |-> 0]
           none == [c \in Scripts!Currencies |-> "none"]
<1>2. Scripts!Contract(kind, token, isCurrent)
        = [kind |-> kind, token |-> token, current |-> isCurrent,
           tokens |-> none, allowed |-> {}, target |-> ids]
  BY DEF Scripts!Contract, Scripts!NoIds
<1> HIDE DEF ids, none
<1>3. ids \in [Scripts!Currencies -> Nat] /\ none \in [Scripts!Currencies -> Tokens]
  BY <1>1 DEF ids, none
<1>4. QED
  BY <1>2, <1>3 DEF ContractSet

LEMMA ScriptsStart == Scripts!Init => ScriptsInv
<1> SUFFICES ASSUME Scripts!Init
             PROVE  ScriptsInv
  OBVIOUS
<1>1. [c \in Scripts!Currencies |-> 0] \in [Scripts!Currencies -> Nat]
      /\ [c \in Scripts!Currencies |-> "none"] \in [Scripts!Currencies -> Tokens]
      /\ [c \in Scripts!Currencies |-> CircleSac] \in [Scripts!Currencies -> Tokens]
  BY DEF Tokens
<1>2. Scripts!Contract("vault", "none", FALSE) \in ContractSet
      /\ Scripts!Contract("vault", "none", FALSE).kind = "vault"
  <2>1. "none" \in Tokens /\ "vault" \in Kinds /\ FALSE \in BOOLEAN
    BY DEF Tokens, Kinds
  <2>2. QED
    BY <2>1, ContractMade
<1>3. contracts \in Seq(ContractSet) /\ Len(contracts) \in {0, 1}
      /\ (Len(contracts) # 0 => contracts[1].kind = "vault")
  <2> DEFINE first == Scripts!Contract("vault", "none", FALSE)
  <2> HIDE DEF first
  <2>1. contracts = <<>> \/ contracts = <<first>>
    BY DEF Scripts!Init, first
  <2>2. first \in ContractSet /\ first.kind = "vault"
    BY <1>2 DEF first
  <2>3. CASE contracts = <<>>
    <3>1. contracts \in Seq(ContractSet) /\ Len(contracts) = 0
      BY <2>3
    <3>2. QED
      BY <3>1
  <2>4. CASE contracts = <<first>>
    <3>1. contracts \in Seq(ContractSet) /\ Len(contracts) = 1 /\ contracts[1] = first
      BY <2>2, <2>4
    <3>2. QED
      BY <2>2, <3>1
  <2>5. QED
    BY <2>1, <2>3, <2>4
<1>4. dotenv \in Settings /\ dotenv.vault = Len(contracts)
      /\ \A c \in Scripts!Currencies : dotenv.yield[c] = 0
  BY <1>1, <1>3 DEF Scripts!Init, Settings, Scripts!NoIds
<1>5. ScriptTypes
  BY <1>1, <1>3, <1>4 DEF Scripts!Init, ScriptTypes, Scripts!NoIds
<1>6. todo = <<>> /\ Len(todo) = 0
  BY DEF Scripts!Init
<1>7. VaultsAreKnown
  BY <1>3, <1>4, <1>6 DEF VaultsAreKnown, IsVault
<1>8. WritesArePrepared
  <2>1. ~\E j \in 1 .. Len(todo) : TRUE
    BY <1>6
  <2>2. QED
    BY <2>1 DEF WritesArePrepared
<1>9. OfferedPoolsAreReady
  BY <1>4 DEF OfferedPoolsAreReady, Scripts!OfferedPoolsAreReady
<1>10. QED
  BY <1>5, <1>7, <1>8, <1>9 DEF ScriptsInv

(* A script, as a list of commands.                                        *)
LEMMA PerBucketCommands ==
  ASSUME NEW ops \in Seq(Ops), Len(ops) > 0
  PROVE  /\ Scripts!PerBucket(ops) \in Seq(Commands)
         /\ Len(Scripts!PerBucket(ops)) = Len(ops) * Len(Buckets)
         /\ \A n \in 1 .. Len(ops) * Len(Buckets) :
              /\ (n - 1) % Len(ops) \in 0 .. Len(ops) - 1
              /\ (n - 1) \div Len(ops) \in 0 .. Len(Buckets) - 1
              /\ Scripts!PerBucket(ops)[n].op = ops[1 + ((n - 1) % Len(ops))]
              /\ Scripts!PerBucket(ops)[n].currency
                   = Buckets[1 + ((n - 1) \div Len(ops))]
<1> DEFINE L == Len(ops)
           B == Len(Buckets)
           list == Scripts!PerBucket(ops)
<1>1. L \in Nat \ {0} /\ B \in Nat \ {0} /\ L * B \in Nat
  BY ScriptConstants
<1>2. ASSUME NEW n \in 1 .. L * B
      PROVE  (n - 1) % L \in 0 .. L - 1 /\ (n - 1) \div L \in 0 .. B - 1
  <2> DEFINE q == (n - 1) \div L
             r == (n - 1) % L
  <2>1. n - 1 \in Nat /\ n - 1 < L * B
    BY <1>1
  <2>2. q \in Nat /\ r \in 0 .. L - 1 /\ n - 1 = q * L + r
    BY <1>1, <2>1
  <2>3. q < B
    <3>1. SUFFICES ASSUME q >= B PROVE FALSE
      BY <1>1, <2>2
    <3> HIDE DEF q, r, L, B
    <3>2. q * L >= B * L
      BY <1>1, <2>2, <3>1
    <3>3. QED
      BY <1>1, <2>1, <2>2, <3>2
  <2> HIDE DEF q, r, L, B
  <2>4. QED
    BY <1>1, <2>2, <2>3 DEF q, r
<1>3. \A n \in 1 .. L * B :
        ops[1 + ((n - 1) % L)] \in Ops
        /\ Buckets[1 + ((n - 1) \div L)] \in Scripts!Currencies
  BY <1>1, <1>2, ScriptConstants
<1>4. list = [n \in 1 .. L * B |-> [op |-> ops[1 + ((n - 1) % L)],
                                    currency |-> Buckets[1 + ((n - 1) \div L)]]]
  BY DEF Scripts!PerBucket, Scripts!Command
<1> HIDE DEF L, B, list
<1>5. list \in [1 .. L * B -> Commands]
  BY <1>3, <1>4 DEF Commands
<1>6. list \in Seq(Commands) /\ Len(list) = L * B
  BY <1>1, <1>5
<1>7. \A n \in 1 .. L * B :
        /\ list[n].op = ops[1 + ((n - 1) % L)]
        /\ list[n].currency = Buckets[1 + ((n - 1) \div L)]
  BY <1>4
<1>8. QED
  BY <1>2, <1>6, <1>7 DEF L, B, list

LEMMA WholeCommands ==
  ASSUME NEW ops \in Seq(Ops)
  PROVE  /\ Scripts!Whole(ops) \in Seq(Commands)
         /\ Len(Scripts!Whole(ops)) = Len(ops)
         /\ \A j \in 1 .. Len(ops) : Scripts!Whole(ops)[j].op = ops[j]
<1>1. Scripts!Whole(ops) \in [1 .. Len(ops) -> Commands]
      /\ \A j \in 1 .. Len(ops) : Scripts!Whole(ops)[j].op = ops[j]
  BY ScriptConstants DEF Scripts!Whole, Scripts!Command, Commands
<1>2. QED
  BY <1>1

(* The three scripts.                                                      *)
WritesYield(op) == op = "write_yield"

NoYieldWrites(script) == \A j \in 1 .. Len(script) : ~WritesYield(script[j].op)

LEMMA JoinedCommands ==
  ASSUME NEW first \in Seq(Commands), NEW second \in Seq(Commands)
  PROVE  /\ first \o second \in Seq(Commands)
         /\ Len(first \o second) = Len(first) + Len(second)
         /\ \A j \in 1 .. Len(first) : (first \o second)[j] = first[j]
         /\ \A j \in 1 .. Len(second) : (first \o second)[Len(first) + j] = second[j]
BY ConcatProperties

LEMMA NoYieldWritesJoined ==
  ASSUME NEW first \in Seq(Commands), NEW second \in Seq(Commands),
         NoYieldWrites(first), NoYieldWrites(second)
  PROVE  NoYieldWrites(first \o second)
<1> DEFINE both == first \o second
<1>1. /\ Len(both) = Len(first) + Len(second)
      /\ \A j \in 1 .. Len(first) : both[j] = first[j]
      /\ \A j \in 1 .. Len(second) : both[Len(first) + j] = second[j]
  BY JoinedCommands
<1>2. Len(first) \in Nat /\ Len(second) \in Nat
  OBVIOUS
<1> HIDE DEF both
<1>3. ASSUME NEW j \in 1 .. Len(both)
      PROVE  ~WritesYield(both[j].op)
  <2>1. CASE j <= Len(first)
    BY <1>1, <1>2, <1>3, <2>1 DEF NoYieldWrites
  <2>2. CASE j > Len(first)
    <3>1. j - Len(first) \in 1 .. Len(second) /\ j = Len(first) + (j - Len(first))
      BY <1>1, <1>2, <1>3, <2>2
    <3>2. QED
      BY <1>1, <3>1 DEF NoYieldWrites
  <2>3. QED
    BY <1>1, <1>2, <1>3, <2>1, <2>2
<1>4. NoYieldWrites(both)
  BY <1>3 DEF NoYieldWrites
<1>5. QED
  BY <1>4 DEF both

LEMMA NoYieldWritesPerBucket ==
  ASSUME NEW ops \in Seq(Ops), Len(ops) > 0,
         \A j \in 1 .. Len(ops) : ~WritesYield(ops[j])
  PROVE  Scripts!PerBucket(ops) \in Seq(Commands) /\ NoYieldWrites(Scripts!PerBucket(ops))
<1> DEFINE list == Scripts!PerBucket(ops)
           place(n) == (n - 1) % Len(ops)
<1>1. /\ list \in Seq(Commands) /\ Len(list) = Len(ops) * Len(Buckets)
      /\ \A n \in 1 .. Len(ops) * Len(Buckets) :
           place(n) \in 0 .. Len(ops) - 1 /\ list[n].op = ops[1 + place(n)]
  BY PerBucketCommands
<1>2. Len(ops) \in Nat
  OBVIOUS
<1> HIDE DEF list, place
<1>3. \A n \in 1 .. Len(list) : ~WritesYield(list[n].op)
  BY <1>1, <1>2
<1>4. QED
  BY <1>1, <1>3 DEF NoYieldWrites, list

LEMMA NoYieldWritesWhole ==
  ASSUME NEW ops \in Seq(Ops), \A j \in 1 .. Len(ops) : ~WritesYield(ops[j])
  PROVE  Scripts!Whole(ops) \in Seq(Commands) /\ NoYieldWrites(Scripts!Whole(ops))
BY WholeCommands DEF NoYieldWrites

LEMMA OtherScripts ==
  /\ Scripts!deploy \in Seq(Commands) /\ NoYieldWrites(Scripts!deploy)
  /\ Scripts!deploy[1].op = "deploy_vault"
  /\ Scripts!faucetAssets \in Seq(Commands) /\ NoYieldWrites(Scripts!faucetAssets)
<1> DEFINE open == <<"deploy_vault", "need_blend">>
           wire == <<"set_token", "set_pool_allowed", "set_configured_pool">>
           save == <<"write_vault">>
           pool == <<"deploy_mock_pool", "set_token", "set_pool_allowed",
                     "set_configured_pool">>
           asset == <<"write_assets">>
<1>1. open \in Seq(Ops) /\ Len(open) = 2 /\ open[1] = "deploy_vault"
      /\ \A j \in 1 .. Len(open) : ~WritesYield(open[j])
  BY DEF Ops, WritesYield
<1>2. wire \in Seq(Ops) /\ Len(wire) > 0
      /\ \A j \in 1 .. Len(wire) : ~WritesYield(wire[j])
  BY DEF Ops, WritesYield
<1>3. save \in Seq(Ops) /\ \A j \in 1 .. Len(save) : ~WritesYield(save[j])
  BY DEF Ops, WritesYield
<1>4. pool \in Seq(Ops) /\ Len(pool) > 0
      /\ \A j \in 1 .. Len(pool) : ~WritesYield(pool[j])
  BY DEF Ops, WritesYield
<1>5. asset \in Seq(Ops) /\ \A j \in 1 .. Len(asset) : ~WritesYield(asset[j])
  BY DEF Ops, WritesYield
<1> DEFINE opening == Scripts!Whole(open)
           wiring == Scripts!PerBucket(wire)
           saving == Scripts!Whole(save)
           pools == Scripts!PerBucket(pool)
           assets == Scripts!Whole(asset)
<1>6. Scripts!deploy = (opening \o wiring) \o saving
      /\ Scripts!faucetAssets = pools \o assets
  BY DEF Scripts!deploy, Scripts!faucetAssets
<1> HIDE DEF open, wire, save, pool, asset
<1>7. opening \in Seq(Commands) /\ NoYieldWrites(opening)
      /\ Len(opening) = 2 /\ opening[1].op = "deploy_vault"
  BY <1>1, WholeCommands, NoYieldWritesWhole
<1>8. wiring \in Seq(Commands) /\ NoYieldWrites(wiring)
  BY <1>2, NoYieldWritesPerBucket
<1>9. saving \in Seq(Commands) /\ NoYieldWrites(saving)
  BY <1>3, NoYieldWritesWhole
<1>10. pools \in Seq(Commands) /\ NoYieldWrites(pools)
  BY <1>4, NoYieldWritesPerBucket
<1>11. assets \in Seq(Commands) /\ NoYieldWrites(assets)
  BY <1>5, NoYieldWritesWhole
<1> HIDE DEF opening, wiring, saving, pools, assets
<1> DEFINE start == opening \o wiring
<1>12. start \in Seq(Commands) /\ NoYieldWrites(start)
      /\ Len(start) >= 2 /\ start[1].op = "deploy_vault"
  BY <1>7, <1>8, JoinedCommands, NoYieldWritesJoined
<1> HIDE DEF start
<1>13. start \o saving \in Seq(Commands) /\ NoYieldWrites(start \o saving)
       /\ (start \o saving)[1].op = "deploy_vault"
  BY <1>9, <1>12, JoinedCommands, NoYieldWritesJoined
<1>14. pools \o assets \in Seq(Commands) /\ NoYieldWrites(pools \o assets)
  BY <1>10, <1>11, JoinedCommands, NoYieldWritesJoined
<1>15. QED
  BY <1>6, <1>13, <1>14 DEF start

(* deploy-yield-pool.ts: the upgrade first, and each pool allowed before   *)
(* it is written.                                                          *)
LEMMA YieldScript ==
  /\ Scripts!deployYieldPool \in Seq(Commands) /\ Len(Scripts!deployYieldPool) >= 1
  /\ \A j \in 1 .. Len(Scripts!deployYieldPool) :
       Scripts!deployYieldPool[j].op = "write_yield" =>
         /\ j > 3
         /\ Scripts!deployYieldPool[j - 2].op = "set_pool_allowed"
         /\ Scripts!deployYieldPool[j - 2].currency = Scripts!deployYieldPool[j].currency
         /\ Scripts!deployYieldPool[j - 1].op = "set_configured_pool"
  /\ Scripts!deployYieldPool[1].op = "upgrade"
  /\ \A j \in 1 .. Len(Scripts!deployYieldPool) :
       Scripts!deployYieldPool[j].op \notin {"deploy_vault", "need_blend"}
<1> DEFINE ops == <<"deploy_yield_pool", "set_pool_allowed", "set_configured_pool",
                    "write_yield">>
           up == <<"upgrade">>
           first == Scripts!Whole(up)
           pools == Scripts!PerBucket(ops)
           N == 4 * Len(Buckets)
           place(n) == (n - 1) % 4
           bucket(n) == (n - 1) \div 4
<1>1. /\ ops \in Seq(Ops) /\ Len(ops) = 4
      /\ ops[1] = "deploy_yield_pool" /\ ops[2] = "set_pool_allowed"
      /\ ops[3] = "set_configured_pool" /\ ops[4] = "write_yield"
  BY DEF Ops
<1>2. up \in Seq(Ops) /\ Len(up) = 1 /\ up[1] = "upgrade"
  BY DEF Ops
<1>3. Scripts!deployYieldPool = first \o pools
  BY DEF Scripts!deployYieldPool, Scripts!YieldPools
<1> HIDE DEF ops, up
<1>4. first \in Seq(Commands) /\ Len(first) = 1 /\ first[1].op = "upgrade"
  BY <1>2, WholeCommands
<1>5. /\ pools \in Seq(Commands) /\ Len(pools) = N /\ N \in Nat
      /\ \A n \in 1 .. N :
           /\ place(n) \in 0 .. 3
           /\ pools[n].op = ops[1 + place(n)]
           /\ pools[n].currency = Buckets[1 + bucket(n)]
  <2>1. /\ pools \in Seq(Commands) /\ Len(pools) = Len(ops) * Len(Buckets)
        /\ \A n \in 1 .. Len(ops) * Len(Buckets) :
             /\ (n - 1) % Len(ops) \in 0 .. Len(ops) - 1
             /\ pools[n].op = ops[1 + ((n - 1) % Len(ops))]
             /\ pools[n].currency = Buckets[1 + ((n - 1) \div Len(ops))]
    <3> Len(ops) > 0
      BY <1>1
    <3> QED
      BY <1>1, PerBucketCommands
  <2>2. Len(ops) = 4 /\ N \in Nat
    BY <1>1, ScriptConstants
  <2>3. \A n : place(n) = (n - 1) % Len(ops) /\ bucket(n) = (n - 1) \div Len(ops)
    BY <2>2, Zenon
  <2> HIDE DEF pools, place, bucket
  <2>4. Len(ops) * Len(Buckets) = N
    BY <2>2
  <2> HIDE DEF N
  <2>5. ASSUME NEW n \in 1 .. N
        PROVE  /\ place(n) \in 0 .. 3
               /\ pools[n].op = ops[1 + place(n)]
               /\ pools[n].currency = Buckets[1 + bucket(n)]
    <3>1. /\ (n - 1) % Len(ops) \in 0 .. Len(ops) - 1
          /\ pools[n].op = ops[1 + ((n - 1) % Len(ops))]
          /\ pools[n].currency = Buckets[1 + ((n - 1) \div Len(ops))]
      BY <2>1, <2>4, <2>5
    <3>2. place(n) \in 0 .. Len(ops) - 1
      BY <2>3, <3>1
    <3>3. QED
      BY <2>2, <2>3, <3>1, <3>2
  <2>6. QED
    BY <2>1, <2>2, <2>4, <2>5
<1> HIDE DEF first, pools, N
<1>6. ASSUME NEW n \in 1 .. N
      PROVE  pools[n].op \notin {"deploy_vault", "need_blend"}
  <2> HIDE DEF place, bucket
  <2>1. place(n) \in 0 .. 3 /\ pools[n].op = ops[1 + place(n)]
    BY <1>5, <1>6
  <2>2. ops[1 + place(n)] \in {ops[1], ops[2], ops[3], ops[4]}
    BY <2>1
  <2>3. QED
    BY <1>1, <2>1, <2>2
<1>7. ASSUME NEW n \in 1 .. N, pools[n].op = "write_yield"
      PROVE  /\ n > 2 /\ pools[n - 2].op = "set_pool_allowed"
             /\ pools[n - 2].currency = pools[n].currency
             /\ pools[n - 1].op = "set_configured_pool"
  <2>1. place(n) = 3
    <3> HIDE DEF place, bucket
    <3>1. place(n) \in 0 .. 3 /\ pools[n].op = ops[1 + place(n)]
      BY <1>5, <1>7
    <3>2. ops[1 + place(n)] = "write_yield"
      BY <1>7, <3>1
    <3>3. place(n) = 0 \/ place(n) = 1 \/ place(n) = 2 \/ place(n) = 3
      BY <3>1
    <3>4. QED
      BY <1>1, <3>2, <3>3
  <2>2. /\ n - 1 \in 1 .. N /\ n - 2 \in 1 .. N
        /\ place(n - 1) = 2 /\ place(n - 2) = 1 /\ bucket(n - 2) = bucket(n)
    <3>1. n - 1 = 4 * bucket(n) + 3 /\ bucket(n) \in Nat
      <4>1. \A m \in Nat : m = 4 * (m \div 4) + (m % 4) /\ m \div 4 \in Nat
        OBVIOUS
      <4>2. n - 1 \in Nat
        BY <1>5, <1>7
      <4>3. QED
        BY <2>1, <4>1, <4>2
    <3>2. PICK q \in Nat : n = 4 * q + 4 /\ bucket(n) = q
      <4>1. n \in Int
        BY <1>5, <1>7
      <4> HIDE DEF bucket
      <4>2. n = 4 * bucket(n) + 4
        BY <3>1, <4>1
      <4>3. QED
        BY <3>1, <4>2
    <3>3. (4 * q + 2) % 4 = 2 /\ (4 * q + 1) % 4 = 1 /\ (4 * q + 1) \div 4 = q
      OBVIOUS
    <3>4. (n - 1) - 1 = 4 * q + 2 /\ (n - 2) - 1 = 4 * q + 1
      BY <3>2
    <3>5. n - 1 \in 1 .. N /\ n - 2 \in 1 .. N
      BY <1>5, <3>2
    <3>6. place(n - 1) = 2 /\ place(n - 2) = 1 /\ bucket(n - 2) = q
      BY <3>3, <3>4
    <3>7. QED
      BY <3>2, <3>5, <3>6
  <2> HIDE DEF place, bucket
  <2>3. QED
    BY <1>1, <1>5, <2>2
<1> DEFINE script == first \o pools
<1>8. /\ script \in Seq(Commands) /\ Len(script) = N + 1
      /\ script[1].op = "upgrade"
      /\ \A n \in 1 .. N : script[1 + n] = pools[n]
  <2>1. /\ script \in Seq(Commands) /\ Len(script) = 1 + N /\ script[1] = first[1]
        /\ \A n \in 1 .. N : script[1 + n] = pools[n]
    <3>1. /\ script \in Seq(Commands) /\ Len(script) = Len(first) + Len(pools)
          /\ \A j \in 1 .. Len(first) : script[j] = first[j]
          /\ \A j \in 1 .. Len(pools) : script[Len(first) + j] = pools[j]
      BY <1>4, <1>5, JoinedCommands
    <3> HIDE DEF script
    <3>2. QED
      BY <1>4, <1>5, <3>1
  <2>2. QED
    BY <1>4, <1>5, <2>1
<1> HIDE DEF script
<1>9. ASSUME NEW j \in 1 .. N + 1, j # 1
      PROVE  j - 1 \in 1 .. N /\ script[j] = pools[j - 1]
  BY <1>5, <1>8, <1>9
<1>10. ASSUME NEW j \in 1 .. N + 1, script[j].op = "write_yield"
       PROVE  /\ j > 3
              /\ script[j - 2].op = "set_pool_allowed"
              /\ script[j - 2].currency = script[j].currency
              /\ script[j - 1].op = "set_configured_pool"
  <2>1. j # 1
    BY <1>8, <1>10
  <2>2. j - 1 > 2 /\ pools[j - 3].op = "set_pool_allowed"
        /\ pools[j - 3].currency = pools[j - 1].currency
        /\ pools[j - 2].op = "set_configured_pool"
    BY <1>7, <1>9, <1>10, <2>1
  <2>3. j - 1 \in 1 .. N + 1 /\ j - 2 \in 1 .. N + 1 /\ j - 1 # 1 /\ j - 2 # 1
    BY <1>5, <2>1, <2>2
  <2>4. script[j - 2] = pools[j - 3]
        /\ script[j - 1] = pools[j - 2]
        /\ script[j] = pools[j - 1]
    BY <1>9, <2>1, <2>3
  <2>5. QED
    BY <1>5, <2>2, <2>4
<1>11. QED
  <2>1. Len(script) >= 1
    BY <1>5, <1>8
  <2>2. \A j \in 1 .. Len(script) : script[j].op \notin {"deploy_vault", "need_blend"}
    BY <1>5, <1>6, <1>8, <1>9
  <2>3. QED
    BY <1>3, <1>8, <1>10, <2>1, <2>2 DEF script

LEMMA ScriptBegins ==
  ASSUME ScriptsInv, Scripts!Start
  PROVE  ScriptsInv'
<1>1. todo = <<>> /\ UNCHANGED <<contracts, dotenv>>
      /\ mine' = [c \in Scripts!Currencies |-> 0]
  BY DEF Scripts!Start, Scripts!Run, Scripts!chainVars, Scripts!NoIds
<1>2. \/ todo' = Scripts!deploy /\ vault' = 0 /\ loaded' = dotenv
      \/ /\ dotenv.vault # 0 /\ vault' = dotenv.vault
         /\ \/ /\ todo' = Scripts!faucetAssets
               /\ loaded' = [dotenv EXCEPT !.sac = Scripts!OwnAssets]
            \/ todo' = Scripts!deployYieldPool /\ loaded' = dotenv
  BY DEF Scripts!Start, Scripts!Run
<1>3. /\ contracts' \in Seq(ContractSet) /\ dotenv' \in Settings
      /\ mine' \in [Scripts!Currencies -> Nat]
  BY <1>1 DEF ScriptsInv, ScriptTypes
<1>4. vault' \in Nat
  <2>1. dotenv.vault \in Nat
    BY DEF ScriptsInv, ScriptTypes, Settings
  <2>2. QED
    BY <1>2, <2>1
<1>5. loaded' \in Settings
  <2>1. Scripts!OwnAssets \in [Scripts!Currencies -> Tokens]
    BY DEF Scripts!OwnAssets, Tokens
  <2>2. dotenv \in Settings
    BY DEF ScriptsInv, ScriptTypes
  <2>3. [dotenv EXCEPT !.sac = Scripts!OwnAssets] \in Settings
    BY <2>1, <2>2 DEF Settings
  <2>4. QED
    BY <1>2, <2>2, <2>3
<1>6. todo' \in Seq(Commands)
  BY <1>2, OtherScripts, YieldScript
<1>7. ScriptTypes'
  BY <1>3, <1>4, <1>5, <1>6 DEF ScriptTypes
<1>8. VaultsAreKnown'
  <2>1. dotenv.vault # 0 => IsVault(dotenv.vault)
    BY DEF ScriptsInv, VaultsAreKnown
  <2>2. (dotenv.vault # 0 => IsVault(dotenv.vault))'
    BY <1>1, <2>1 DEF IsVault
  <2>3. IsVault(vault)' \/ todo'[1].op = "deploy_vault"
    BY <1>1, <1>2, <2>1, OtherScripts DEF IsVault
  <2>4. QED
    BY <2>2, <2>3 DEF VaultsAreKnown
<1>9. WritesArePrepared'
  <2>1. ASSUME NoYieldWrites(todo')
        PROVE  WritesArePrepared'
    BY <2>1 DEF NoYieldWrites, WritesYield, WritesArePrepared
  <2>2. CASE todo' = Scripts!deployYieldPool
    <3> SUFFICES ASSUME NEW j \in 1 .. Len(todo'), todo'[j].op = "write_yield"
                 PROVE  WriteIsPrepared(j)'
      BY DEF WritesArePrepared
    <3>1. /\ j > 3 /\ j \in Nat
          /\ todo'[j - 2].op = "set_pool_allowed"
          /\ todo'[j - 2].currency = todo'[j].currency
          /\ todo'[j - 1].op = "set_configured_pool"
          /\ todo'[1].op = "upgrade"
          /\ \A i \in 1 .. Len(todo') : todo'[i].op \notin {"deploy_vault", "need_blend"}
      BY <2>2, YieldScript
    <3>2. j - 2 \in 1 .. j - 1 /\ 1 \in 1 .. j - 1 /\ Len(todo') \in Nat
      BY <1>6, <3>1
    <3>3. \A i \in 1 .. j - 1 : i \in 1 .. Len(todo')
      BY <3>1, <3>2
    <3>4. \A k \in (j - 2) + 1 .. j - 1 : k = j - 1
      BY <3>1
    <3>5. \A k \in (j - 2) + 1 .. j - 1 : ~Replaces(k, todo[j].currency)'
      BY <3>1, <3>4 DEF Replaces
    <3>6. QED
      BY <3>1, <3>2, <3>3, <3>5 DEF WriteIsPrepared
  <2>3. QED
    BY <1>2, <2>1, <2>2, OtherScripts
<1>10. OfferedPoolsAreReady'
  BY <1>1 DEF ScriptsInv, OfferedPoolsAreReady, Scripts!OfferedPoolsAreReady
<1>11. QED
  BY <1>7, <1>8, <1>9, <1>10 DEF ScriptsInv

(* What every command but a start leaves true of the chain, and of the     *)
(* commands that are left.                                                 *)
LEMMA CommandDone ==
  ASSUME ScriptTypes, todo # <<>>, todo' = Tail(todo)
  PROVE  /\ Len(todo) \in Nat \ {0} /\ todo' \in Seq(Commands)
         /\ Len(todo') = Len(todo) - 1
         /\ \A j \in 1 .. Len(todo') : todo'[j] = todo[j + 1] /\ j + 1 \in 1 .. Len(todo)
         /\ todo[1] \in Commands /\ Head(todo) = todo[1]
<1>1. todo \in Seq(Commands)
  BY DEF ScriptTypes
<1>2. QED
  BY <1>1, HeadTailProperties

(* The first command is done, and the rest is still prepared.              *)
LEMMA StillPrepared ==
  ASSUME ScriptTypes, todo # <<>>, todo' = Tail(todo), WritesArePrepared,
         IsVault(vault), vault' = vault, ContractsGrow,
         todo[1].op = "upgrade" => contracts'[vault].current,
         todo[1].op \notin {"deploy_mock_pool", "deploy_yield_pool", "need_blend"} => mine' = mine,
         todo[1].op \in {"deploy_mock_pool", "deploy_yield_pool"} =>
           \A c \in Scripts!Currencies : c # todo[1].currency => mine'[c] = mine[c],
         todo[1].op = "set_pool_allowed" =>
           mine'[todo[1].currency] \in contracts'[vault].allowed
  PROVE  WritesArePrepared'
<1> SUFFICES ASSUME NEW j \in 1 .. Len(todo'), todo'[j].op = "write_yield"
             PROVE  WriteIsPrepared(j)'
  BY DEF WritesArePrepared
<1>1. /\ j \in Nat /\ todo'[j] = todo[j + 1] /\ j + 1 \in 1 .. Len(todo)
      /\ \A i \in 1 .. j - 1 : todo'[i] = todo[i + 1] /\ i + 1 \in 1 .. (j + 1) - 1
      /\ 1 \in 1 .. (j + 1) - 1
  BY CommandDone
<1>2. todo[j + 1] \in Commands
  BY <1>1 DEF ScriptTypes
<1>3. PICK c \in Scripts!Currencies : todo[j + 1].currency = c /\ todo'[j].currency = c
  BY <1>1, <1>2 DEF Commands
<1>4. WriteIsPrepared(j + 1)
  BY <1>1 DEF WritesArePrepared
<1>5. \A i \in 1 .. j - 1 : todo'[i].op \notin {"deploy_vault", "need_blend"}
  BY <1>1, <1>4 DEF WriteIsPrepared
<1>6. todo[1].op \notin {"deploy_vault", "need_blend"}
  BY <1>1, <1>4 DEF WriteIsPrepared
<1>7. vault \in 1 .. Len(contracts)
      /\ (contracts[vault].current => contracts'[vault].current)
      /\ contracts[vault].allowed \subseteq contracts'[vault].allowed
  BY DEF IsVault, ContractsGrow
<1>8. contracts'[vault'].current \/ \E i \in 1 .. j - 1 : todo'[i].op = "upgrade"
  <2>1. contracts[vault].current \/ \E i \in 1 .. (j + 1) - 1 : todo[i].op = "upgrade"
    BY <1>4 DEF WriteIsPrepared
  <2>2. ASSUME NEW i \in 1 .. (j + 1) - 1, todo[i].op = "upgrade", i # 1
        PROVE  i - 1 \in 1 .. j - 1 /\ todo'[i - 1].op = "upgrade"
    <3>1. i - 1 \in 1 .. j - 1 /\ (i - 1) + 1 = i
      BY <1>1, <2>2
    <3>2. QED
      BY <1>1, <2>2, <3>1
  <2>3. QED
    BY <1>7, <2>1, <2>2
<1>9. ASSUME NEW i \in 1 .. j - 1
      PROVE  Replaces(i, c)' <=> Replaces(i + 1, c)
  BY <1>1, <1>9 DEF Replaces
<1>10. CASE /\ mine[c] \in contracts[vault].allowed
            /\ \A i \in 1 .. (j + 1) - 1 : ~Replaces(i, c)
  <2>1. mine'[c] = mine[c]
    BY <1>1, <1>3, <1>6, <1>10 DEF Replaces
  <2>2. \A i \in 1 .. j - 1 : ~Replaces(i, c)'
    BY <1>1, <1>9, <1>10
  <2>3. mine'[c] \in contracts'[vault'].allowed
    BY <1>7, <1>10, <2>1
  <2>4. QED
    BY <1>3, <1>5, <1>8, <2>2, <2>3 DEF WriteIsPrepared
<1>11. ASSUME NEW i \in 1 .. (j + 1) - 1,
              todo[i].op = "set_pool_allowed", todo[i].currency = c,
              \A k \in i + 1 .. (j + 1) - 1 : ~Replaces(k, c)
       PROVE  WriteIsPrepared(j)'
  <2>1. CASE i = 1
    <3>1. \A k \in 1 .. j - 1 : ~Replaces(k, c)'
      <4> SUFFICES ASSUME NEW k \in 1 .. j - 1
                   PROVE  ~Replaces(k, c)'
        OBVIOUS
      <4>1. k + 1 \in i + 1 .. (j + 1) - 1
        BY <1>1, <2>1
      <4>2. QED
        BY <1>9, <1>11, <4>1
    <3>2. mine'[c] \in contracts'[vault'].allowed
      BY <1>11, <2>1
    <3>3. QED
      BY <1>3, <1>5, <1>8, <3>1, <3>2 DEF WriteIsPrepared
  <2>2. CASE i # 1
    <3>1. i - 1 \in 1 .. j - 1 /\ (i - 1) + 1 = i
      BY <1>1, <2>2
    <3>2. todo'[i - 1].op = "set_pool_allowed" /\ todo'[i - 1].currency = c
      BY <1>1, <1>11, <3>1
    <3>3. ASSUME NEW k \in (i - 1) + 1 .. j - 1
          PROVE  ~Replaces(k, c)'
      <4>1. k \in 1 .. j - 1 /\ k + 1 \in i + 1 .. (j + 1) - 1
        BY <1>1, <2>2, <3>1
      <4>2. QED
        BY <1>9, <1>11, <4>1
    <3>4. QED
      BY <1>3, <1>5, <1>8, <3>1, <3>2, <3>3 DEF WriteIsPrepared
  <2>3. QED
    BY <2>1, <2>2
<1>12. QED
  BY <1>3, <1>4, <1>10, <1>11 DEF WriteIsPrepared

LEMMA ScriptsStep ==
  ASSUME ScriptsInv, [Scripts!Next]_(Scripts!vars)
  PROVE  ScriptsInv'
<1>1. ScriptTypes /\ VaultsAreKnown /\ WritesArePrepared /\ OfferedPoolsAreReady
  BY DEF ScriptsInv
<1>2. ASSUME ContractsGrow, contracts' \in Seq(ContractSet)
      PROVE  /\ \A v \in Nat : IsVault(v) => IsVault(v)'
             /\ dotenv' = dotenv => OfferedPoolsAreReady'
  <2>1. \A v \in Nat : IsVault(v) => IsVault(v)'
    BY <1>2 DEF ContractsGrow, IsVault
  <2>2. DOMAIN contracts = 1 .. Len(contracts)
    BY <1>1 DEF ScriptTypes
  <2>3. DOMAIN contracts' = 1 .. Len(contracts)'
    BY <1>2
  <2>4. ASSUME dotenv' = dotenv, NEW c \in Scripts!Currencies, dotenv.yield[c] # 0
        PROVE  \E v \in DOMAIN contracts' :
                 /\ contracts'[v].kind = "vault" /\ contracts'[v].current
                 /\ dotenv.yield[c] \in contracts'[v].allowed
    <3>1. PICK v \in DOMAIN contracts :
            /\ contracts[v].kind = "vault" /\ contracts[v].current
            /\ dotenv.yield[c] \in contracts[v].allowed
      BY <1>1, <2>4 DEF OfferedPoolsAreReady, Scripts!OfferedPoolsAreReady
    <3>2. QED
      BY <1>2, <2>2, <2>3, <3>1 DEF ContractsGrow
  <2>5. QED
    BY <2>1, <2>4 DEF OfferedPoolsAreReady, Scripts!OfferedPoolsAreReady
<1>4. ASSUME todo # <<>>, todo' = Tail(todo), ContractsGrow, dotenv' = dotenv,
             contracts' \in Seq(ContractSet), loaded' = loaded,
             vault' \in Nat, mine' \in [Scripts!Currencies -> Nat],
             IsVault(vault)', WritesArePrepared'
      PROVE  ScriptsInv'
  <2>1. ScriptTypes'
    BY <1>1, <1>4, CommandDone DEF ScriptTypes
  <2>2. dotenv.vault \in Nat
    BY <1>1 DEF ScriptTypes, Settings
  <2>3. (dotenv.vault # 0 => IsVault(dotenv.vault))'
    <3>1. dotenv.vault # 0 => IsVault(dotenv.vault)
      BY <1>1 DEF VaultsAreKnown
    <3>2. QED
      BY <1>2, <1>4, <2>2, <3>1 DEF IsVault
  <2>4. VaultsAreKnown'
    BY <1>4, <2>3 DEF VaultsAreKnown
  <2>5. OfferedPoolsAreReady'
    BY <1>2, <1>4
  <2>6. QED
    BY <1>4, <2>1, <2>4, <2>5 DEF ScriptsInv
<1>5. ASSUME todo # <<>>, todo' = Tail(todo),
             todo[1].op \in {"deploy_vault", "need_blend"}
      PROVE  WritesArePrepared'
  <2> SUFFICES ASSUME NEW j \in 1 .. Len(todo'), todo'[j].op = "write_yield"
               PROVE  FALSE
    BY DEF WritesArePrepared
  <2>1. /\ j \in Nat /\ todo'[j] = todo[j + 1] /\ j + 1 \in 1 .. Len(todo)
        /\ 1 \in 1 .. (j + 1) - 1
    BY <1>1, <1>5, CommandDone
  <2>2. WriteIsPrepared(j + 1)
    BY <1>1, <2>1 DEF WritesArePrepared
  <2>3. QED
    BY <1>5, <2>1, <2>2 DEF WriteIsPrepared
<1>6. ASSUME NEW op, Scripts!Doing(op), Scripts!Advance
      PROVE  /\ todo # <<>> /\ todo' = Tail(todo) /\ todo[1].op = op
             /\ todo[1] \in Commands /\ Head(todo) = todo[1]
             /\ Scripts!TheCurrency = todo[1].currency
             /\ todo[1].currency \in Scripts!Currencies
             /\ op # "deploy_vault" => IsVault(vault)
  <2>1. todo # <<>> /\ todo' = Tail(todo) /\ Head(todo).op = op
    BY <1>6 DEF Scripts!Doing, Scripts!Advance
  <2>2. todo[1] \in Commands /\ Head(todo) = todo[1]
    BY <1>1, <2>1, CommandDone
  <2>3. todo[1].currency \in Scripts!Currencies
    BY <2>2 DEF Commands
  <2>4. op # "deploy_vault" => IsVault(vault)
    BY <1>1, <2>1, <2>2 DEF VaultsAreKnown
  <2>5. QED
    BY <2>1, <2>2, <2>3, <2>4 DEF Scripts!TheCurrency
<1>7. ASSUME NEW made \in ContractSet, Scripts!Deploys(made)
      PROVE  /\ contracts' \in Seq(ContractSet) /\ ContractsGrow
             /\ Len(contracts)' \in 1 .. Len(contracts)' /\ contracts'[Len(contracts)'] = made
             /\ dotenv' = dotenv /\ loaded' = loaded /\ Len(contracts') \in Nat
  <2>1. contracts \in Seq(ContractSet) /\ contracts' = Append(contracts, made)
        /\ dotenv' = dotenv /\ loaded' = loaded
    BY <1>1, <1>7 DEF ScriptTypes, Scripts!Deploys
  <2>2. /\ contracts' \in Seq(ContractSet) /\ Len(contracts') = Len(contracts) + 1
        /\ contracts'[Len(contracts) + 1] = made
        /\ \A v \in 1 .. Len(contracts) : contracts'[v] = contracts[v]
    BY <2>1
  <2>3. Len(contracts) \in Nat
    BY <2>1
  <2>4. QED
    BY <2>1, <2>2, <2>3 DEF ContractsGrow
<1>8. CASE Scripts!DeployVault
  <2> DEFINE made == Scripts!Contract("vault", "none", TRUE)
  <2>1. made \in ContractSet /\ made.kind = "vault"
    <3>1. "none" \in Tokens /\ "vault" \in Kinds
      BY DEF Tokens, Kinds
    <3>2. QED
      BY <3>1, ContractMade
  <2>2. Scripts!Doing("deploy_vault") /\ Scripts!Advance /\ Scripts!Deploys(made)
        /\ vault' = Len(contracts') /\ mine' = mine
    BY <1>8 DEF Scripts!DeployVault
  <2> HIDE DEF made
  <2>3. /\ contracts' \in Seq(ContractSet) /\ ContractsGrow
        /\ Len(contracts)' \in 1 .. Len(contracts)' /\ contracts'[Len(contracts)'] = made
        /\ dotenv' = dotenv /\ loaded' = loaded /\ Len(contracts') \in Nat
    BY <1>7, <2>1, <2>2
  <2>4. IsVault(vault)'
    BY <2>1, <2>2, <2>3 DEF IsVault
  <2>5. todo # <<>> /\ todo' = Tail(todo) /\ todo[1].op = "deploy_vault"
    BY <1>6, <2>2
  <2>6. mine' \in [Scripts!Currencies -> Nat]
    BY <1>1, <2>2 DEF ScriptTypes
  <2>7. QED
    BY <1>4, <1>5, <2>2, <2>3, <2>4, <2>5, <2>6
<1>9. CASE Scripts!NeedBlend
  <2>1. /\ Scripts!Doing("need_blend") /\ Scripts!Advance
        /\ mine' = loaded.blend /\ UNCHANGED <<contracts, dotenv, loaded, vault>>
    BY <1>9 DEF Scripts!NeedBlend, Scripts!chainVars
  <2>2. todo # <<>> /\ todo' = Tail(todo) /\ todo[1].op = "need_blend" /\ IsVault(vault)
    BY <1>6, <2>1
  <2>3. ContractsGrow /\ IsVault(vault)'
    BY <2>1, <2>2 DEF ContractsGrow, IsVault
  <2>4. mine' \in [Scripts!Currencies -> Nat] /\ vault' \in Nat
        /\ contracts' \in Seq(ContractSet)
    BY <1>1, <2>1 DEF ScriptTypes, Settings
  <2>5. QED
    BY <1>4, <1>5, <2>1, <2>2, <2>3, <2>4
<1>10. CASE Scripts!DeployPool
  <2>1. PICK op \in {"deploy_mock_pool", "deploy_yield_pool"} :
          /\ Scripts!Doing(op)
          /\ Scripts!Deploys(Scripts!Contract(op, loaded.sac[Scripts!TheCurrency], TRUE))
    BY <1>10 DEF Scripts!DeployPool
  <2>2. /\ Scripts!Advance /\ vault' = vault
        /\ mine' = [mine EXCEPT ![Scripts!TheCurrency] = Len(contracts')]
    BY <1>10 DEF Scripts!DeployPool
  <2>3. /\ todo # <<>> /\ todo' = Tail(todo) /\ todo[1].op = op
        /\ Scripts!TheCurrency = todo[1].currency
        /\ todo[1].currency \in Scripts!Currencies /\ IsVault(vault)
    BY <1>6, <2>1, <2>2
  <2> DEFINE made == Scripts!Contract(op, loaded.sac[Scripts!TheCurrency], TRUE)
  <2>4. made \in ContractSet
    <3>1. loaded.sac[Scripts!TheCurrency] \in Tokens /\ op \in Kinds
      BY <1>1, <2>3 DEF ScriptTypes, Settings, Kinds
    <3>2. QED
      BY <3>1, ContractMade
  <2> HIDE DEF made
  <2>5. /\ contracts' \in Seq(ContractSet) /\ ContractsGrow
        /\ dotenv' = dotenv /\ loaded' = loaded /\ Len(contracts') \in Nat
    BY <1>7, <2>1, <2>4 DEF made
  <2>6. /\ mine' \in [Scripts!Currencies -> Nat]
        /\ \A c \in Scripts!Currencies : c # todo[1].currency => mine'[c] = mine[c]
    BY <1>1, <2>2, <2>3, <2>5 DEF ScriptTypes
  <2>7. vault' \in Nat
    BY <1>1, <2>2 DEF ScriptTypes
  <2>8. IsVault(vault)'
    BY <2>2, <2>3, <2>5 DEF ContractsGrow, IsVault
  <2>9. WritesArePrepared'
    BY <1>1, <2>2, <2>3, <2>5, <2>6, StillPrepared
  <2>10. QED
    BY <1>4, <2>3, <2>5, <2>6, <2>7, <2>8, <2>9
<1>11. ASSUME NEW op, op \in {"set_token", "set_pool_allowed", "set_configured_pool", "upgrade"},
              NEW changed \in ContractSet, Scripts!Invoke(op, changed),
              IsVault(vault) =>
                /\ changed.kind = contracts[vault].kind
                /\ contracts[vault].current => changed.current
                /\ contracts[vault].allowed \subseteq changed.allowed,
              op = "upgrade" => changed.current,
              op = "set_pool_allowed" => mine[Scripts!TheCurrency] \in changed.allowed
       PROVE  ScriptsInv'
  <2>1. /\ Scripts!Doing(op) /\ Scripts!Advance
        /\ contracts' = [contracts EXCEPT ![vault] = changed]
        /\ dotenv' = dotenv /\ loaded' = loaded /\ vault' = vault /\ mine' = mine
    BY <1>11 DEF Scripts!Invoke, Scripts!runVars
  <2>2. /\ todo # <<>> /\ todo' = Tail(todo) /\ todo[1].op = op
        /\ Scripts!TheCurrency = todo[1].currency
        /\ todo[1].currency \in Scripts!Currencies /\ IsVault(vault)
    BY <1>6, <1>11, <2>1
  <2>3. contracts \in Seq(ContractSet) /\ vault \in 1 .. Len(contracts)
    BY <1>1, <2>2 DEF ScriptTypes, IsVault
  <2>4. /\ contracts' \in Seq(ContractSet) /\ Len(contracts') = Len(contracts)
        /\ contracts'[vault] = changed
        /\ \A v \in 1 .. Len(contracts) : v # vault => contracts'[v] = contracts[v]
    BY <1>11, <2>1, <2>3
  <2>5. ContractsGrow
    BY <1>11, <2>2, <2>3, <2>4 DEF ContractsGrow
  <2>6. IsVault(vault)'
    BY <1>11, <2>1, <2>2, <2>3, <2>4 DEF IsVault
  <2>7. vault' \in Nat /\ mine' \in [Scripts!Currencies -> Nat]
    BY <1>1, <2>1 DEF ScriptTypes
  <2>8. WritesArePrepared'
    BY <1>1, <1>11, <2>1, <2>2, <2>4, <2>5, StillPrepared
  <2>9. QED
    BY <1>4, <2>1, <2>2, <2>4, <2>5, <2>6, <2>7, <2>8
<1>12. ASSUME NEW op, op # "deploy_vault", Scripts!Doing(op), Scripts!Advance
       PROVE  /\ contracts[vault] \in ContractSet
              /\ Scripts!TheCurrency \in Scripts!Currencies
  <2>1. vault \in 1 .. Len(contracts) /\ Scripts!TheCurrency \in Scripts!Currencies
    BY <1>6, <1>12 DEF IsVault
  <2>2. QED
    BY <1>1, <2>1 DEF ScriptTypes
<1>13. CASE Scripts!Wires
  <2> DEFINE v == contracts[vault]
             c == Scripts!TheCurrency
             wired == [v EXCEPT !.tokens[c] = loaded.sac[c]]
             allowing == [v EXCEPT !.allowed = @ \cup {mine[c]}]
             aimed == [v EXCEPT !.target[c] = mine[c]]
             upgraded == [v EXCEPT !.current = TRUE]
  <2>1. \/ Scripts!Invoke("set_token", wired)
        \/ Scripts!Invoke("set_pool_allowed", allowing)
        \/ Scripts!Invoke("set_configured_pool", aimed)
        \/ Scripts!Invoke("upgrade", upgraded)
    BY <1>13 DEF Scripts!Wires
  <2>2. v \in ContractSet /\ c \in Scripts!Currencies
    BY <1>12, <2>1 DEF Scripts!Invoke
  <2>3. loaded.sac[c] \in Tokens /\ mine[c] \in Nat
    BY <1>1, <2>2 DEF ScriptTypes, Settings
  <2>4. CASE Scripts!Invoke("set_token", wired)
    <3>1. wired \in ContractSet /\ wired.kind = v.kind /\ wired.current = v.current
          /\ wired.allowed = v.allowed
      BY <2>2, <2>3 DEF ContractSet
    <3>2. QED
      BY <1>11, <2>4, <3>1
  <2>5. CASE Scripts!Invoke("set_pool_allowed", allowing)
    <3>1. allowing \in ContractSet /\ allowing.kind = v.kind /\ allowing.current = v.current
          /\ allowing.allowed = v.allowed \cup {mine[c]}
      BY <2>2, <2>3 DEF ContractSet
    <3>2. QED
      BY <1>11, <2>5, <3>1
  <2>6. CASE Scripts!Invoke("set_configured_pool", aimed)
    <3>1. aimed \in ContractSet /\ aimed.kind = v.kind /\ aimed.current = v.current
          /\ aimed.allowed = v.allowed
      BY <2>2, <2>3 DEF ContractSet
    <3>2. QED
      BY <1>11, <2>6, <3>1
  <2>7. CASE Scripts!Invoke("upgrade", upgraded)
    <3>1. upgraded \in ContractSet /\ upgraded.kind = v.kind /\ upgraded.current = TRUE
          /\ upgraded.allowed = v.allowed
      BY <2>2 DEF ContractSet
    <3>2. QED
      BY <1>11, <2>7, <3>1
  <2>8. QED
    BY <2>1, <2>4, <2>5, <2>6, <2>7
<1>14. ASSUME NEW op, op \in {"write_vault", "write_assets", "write_yield"},
              NEW entries \in Settings, Scripts!Writes(op, entries),
              IsVault(vault) /\ entries.vault # 0 => IsVault(entries.vault)
       PROVE  /\ ScriptTypes' /\ VaultsAreKnown' /\ WritesArePrepared'
              /\ IsVault(vault) /\ dotenv' = entries /\ contracts' = contracts
  <2>1. /\ Scripts!Doing(op) /\ Scripts!Advance /\ dotenv' = entries
        /\ UNCHANGED <<contracts, loaded, vault, mine>>
    BY <1>14 DEF Scripts!Writes, Scripts!runVars
  <2>2. /\ todo # <<>> /\ todo' = Tail(todo) /\ todo[1].op = op /\ IsVault(vault)
    BY <1>6, <1>14, <2>1
  <2>3. ContractsGrow
    BY <2>1 DEF ContractsGrow
  <2>4. ScriptTypes'
    BY <1>1, <1>14, <2>1, <2>2, CommandDone DEF ScriptTypes
  <2>5. VaultsAreKnown'
    BY <1>14, <2>1, <2>2 DEF VaultsAreKnown, IsVault
  <2>6. WritesArePrepared'
    BY <1>1, <1>14, <2>1, <2>2, <2>3, StillPrepared
  <2>7. QED
    BY <2>1, <2>2, <2>4, <2>5, <2>6
<1>15. CASE Scripts!Writes("write_vault", [dotenv EXCEPT !.vault = vault])
  <2> DEFINE entries == [dotenv EXCEPT !.vault = vault]
  <2>1. dotenv \in Settings /\ vault \in Nat
    BY <1>1 DEF ScriptTypes
  <2>2. entries \in Settings /\ entries.vault = vault /\ entries.yield = dotenv.yield
    BY <2>1 DEF Settings
  <2>3. /\ ScriptTypes' /\ VaultsAreKnown' /\ WritesArePrepared'
        /\ dotenv' = entries /\ contracts' = contracts
    BY <1>14, <1>15, <2>2
  <2>4. OfferedPoolsAreReady'
    BY <1>1, <2>2, <2>3 DEF OfferedPoolsAreReady, Scripts!OfferedPoolsAreReady
  <2>5. QED
    BY <2>3, <2>4 DEF ScriptsInv
<1>16. CASE Scripts!Writes("write_assets", [dotenv EXCEPT !.sac = loaded.sac, !.blend = mine])
  <2> DEFINE entries == [dotenv EXCEPT !.sac = loaded.sac, !.blend = mine]
  <2>1. /\ dotenv \in Settings /\ loaded.sac \in [Scripts!Currencies -> Tokens]
        /\ mine \in [Scripts!Currencies -> Nat]
    BY <1>1 DEF ScriptTypes, Settings
  <2>2. entries \in Settings /\ entries.vault = dotenv.vault /\ entries.yield = dotenv.yield
    BY <2>1 DEF Settings
  <2>3. dotenv.vault # 0 => IsVault(dotenv.vault)
    BY <1>1 DEF VaultsAreKnown
  <2>4. /\ ScriptTypes' /\ VaultsAreKnown' /\ WritesArePrepared'
        /\ dotenv' = entries /\ contracts' = contracts
    BY <1>14, <1>16, <2>2, <2>3
  <2>5. OfferedPoolsAreReady'
    BY <1>1, <2>2, <2>4 DEF OfferedPoolsAreReady, Scripts!OfferedPoolsAreReady
  <2>6. QED
    BY <2>4, <2>5 DEF ScriptsInv
<1>17. CASE Scripts!Writes("write_yield",
              [dotenv EXCEPT !.yield[Scripts!TheCurrency] = mine[Scripts!TheCurrency]])
  <2> DEFINE c == Scripts!TheCurrency
             entries == [dotenv EXCEPT !.yield[c] = mine[c]]
  <2>1. /\ todo # <<>> /\ todo[1].op = "write_yield" /\ todo' = Tail(todo)
        /\ c = todo[1].currency /\ c \in Scripts!Currencies
    BY <1>6, <1>17 DEF Scripts!Writes
  <2>2. dotenv \in Settings /\ mine[c] \in Nat
    BY <1>1, <2>1 DEF ScriptTypes
  <2>3. /\ entries \in Settings /\ entries.vault = dotenv.vault
        /\ entries.yield[c] = mine[c]
        /\ \A d \in Scripts!Currencies : d # c => entries.yield[d] = dotenv.yield[d]
    BY <2>1, <2>2 DEF Settings
  <2>4. dotenv.vault # 0 => IsVault(dotenv.vault)
    BY <1>1 DEF VaultsAreKnown
  <2>5. /\ ScriptTypes' /\ VaultsAreKnown' /\ WritesArePrepared'
        /\ IsVault(vault) /\ dotenv' = entries /\ contracts' = contracts
    BY <1>14, <1>17, <2>3, <2>4
  <2>6. contracts[vault].current /\ mine[c] \in contracts[vault].allowed
    <3>1. 1 \in 1 .. Len(todo)
      BY <1>1, <2>1, CommandDone
    <3>2. WriteIsPrepared(1)
      BY <1>1, <2>1, <3>1 DEF WritesArePrepared
    <3>3. ~\E i \in 1 .. 1 - 1 : TRUE
      OBVIOUS
    <3>4. QED
      BY <2>1, <3>2, <3>3 DEF WriteIsPrepared
  <2>7. vault \in DOMAIN contracts /\ contracts[vault].kind = "vault"
    BY <1>1, <2>5 DEF IsVault, ScriptTypes
  <2>8. OfferedPoolsAreReady'
    BY <1>1, <2>3, <2>5, <2>6, <2>7 DEF OfferedPoolsAreReady, Scripts!OfferedPoolsAreReady
  <2>9. QED
    BY <2>5, <2>8 DEF ScriptsInv
<1>18. CASE Scripts!Stops \/ UNCHANGED Scripts!vars
  <2>1. UNCHANGED <<contracts, dotenv, loaded, vault, mine>>
        /\ (todo' = <<>> \/ todo' = todo)
    BY <1>18 DEF Scripts!Stops, Scripts!vars, Scripts!chainVars, Scripts!runVars
  <2>2. ScriptTypes' /\ VaultsAreKnown' /\ OfferedPoolsAreReady'
    <3>1. todo' \in Seq(Commands)
      <4>1. todo \in Seq(Commands) /\ <<>> \in Seq(Commands)
        BY <1>1 DEF ScriptTypes
      <4>2. QED
        BY <2>1, <4>1
    <3>2. ScriptTypes'
      BY <1>1, <2>1, <3>1 DEF ScriptTypes
    <3>3. VaultsAreKnown'
      BY <1>1, <2>1 DEF VaultsAreKnown, IsVault
    <3>4. OfferedPoolsAreReady'
      BY <1>1, <2>1 DEF OfferedPoolsAreReady, Scripts!OfferedPoolsAreReady
    <3>5. QED
      BY <3>2, <3>3, <3>4
  <2>3. CASE todo' = <<>>
    <3>1. ~\E j \in 1 .. Len(todo') : TRUE
      BY <2>3
    <3>2. WritesArePrepared'
      BY <3>1 DEF WritesArePrepared
    <3>3. QED
      BY <2>2, <3>2 DEF ScriptsInv
  <2>4. CASE todo' = todo
    BY <1>1, <2>1, <2>2, <2>4 DEF ScriptsInv, WritesArePrepared, WriteIsPrepared, Replaces
  <2>5. QED
    BY <2>1, <2>3, <2>4
<1>19. CASE Scripts!Start
  BY <1>19, ScriptBegins
<1>20. QED
  BY <1>8, <1>9, <1>10, <1>13, <1>15, <1>16, <1>17, <1>18, <1>19
     DEF Scripts!Next, Scripts!Persists

(* Wherever the scripts stopped and in whatever order they ran, a yield    *)
(* pool that .env offers is allowed on an upgraded vault                   *)
(* (deploy-yield-pool.ts: "Upgrade the vault FIRST").                      *)
THEOREM OfferedTheorem == Scripts!Spec => []OfferedPoolsAreReady
<1>1. ScriptsInv => OfferedPoolsAreReady
  BY DEF ScriptsInv
<1>2. QED
  BY <1>1, ScriptsStart, ScriptsStep, PTL DEF Scripts!Spec

-----------------------------------------------------------------------------
(* The mock vault prices with an offset of one.                            *)
MockMath == INSTANCE ShareMathProofs WITH VirtualOffset <- 1

MockHoldings(c) == [u \in Users |-> mockShares[u][c]]

MockInv ==
  /\ mockShares \in [Users -> [MockCurrencies -> Nat]]
  /\ mockTotal \in [MockCurrencies -> Nat] /\ totalAssets \in [MockCurrencies -> Nat]
  /\ \A c \in MockCurrencies : SumOver(MockHoldings(c), Users) = mockTotal[c]
  /\ \A c \in MockCurrencies : mockTotal[c] <= totalAssets[c]

MockMoves(c) == [Mock!Bucket(c)!Next]_(Mock!Bucket(c)!bucketVars)

LEMMA MockConstants == IsFiniteSet(Users) /\ Moved \subseteq Nat \ {0}
<1>1. Mock!IsFiniteSet(Users) /\ Moved \subseteq Nat \ {0}
  BY TestnetAssumption DEF Mock!ConstantsOK
<1>2. Mock!IsFiniteSet(Users) <=> IsFiniteSet(Users)
  BY Zenon DEF Mock!IsFiniteSet, IsFiniteSet
<1>3. QED
  BY <1>1, <1>2

LEMMA MockStart == Mock!Init => MockInv /\ \A c \in MockCurrencies : Mock!Bucket(c)!Init
<1> SUFFICES ASSUME Mock!Init
             PROVE  MockInv /\ \A c \in MockCurrencies : Mock!Bucket(c)!Init
  OBVIOUS
<1>1. /\ mockShares = [u \in Users |-> [c \in MockCurrencies |-> 0]]
      /\ mockTotal = [c \in MockCurrencies |-> 0]
      /\ totalAssets = [c \in MockCurrencies |-> 0]
  BY DEF Mock!Init
<1>2. ASSUME NEW c \in MockCurrencies
      PROVE  SumOver(MockHoldings(c), Users) = 0
  <2>1. \A u \in Users \ {} : MockHoldings(c)[u] = 0
    BY <1>1 DEF MockHoldings
  <2>2. SumOver(MockHoldings(c), Users) = SumOver(MockHoldings(c), {})
    BY <2>1, SumWithZeros
  <2>3. QED
    BY <2>2, SumEmpty
<1>3. MockInv
  BY <1>1, <1>2 DEF MockInv
<1>4. QED
  BY <1>1, <1>3 DEF Mock!Bucket!Init

(* One depositor's shares of one bucket change, and its totals with them.  *)
LEMMA MockChange ==
  ASSUME MockInv, NEW u \in Users, NEW c \in MockCurrencies,
         NEW held \in Nat, NEW total \in Nat, NEW assets \in Nat,
         mockShares' = [mockShares EXCEPT ![u][c] = held],
         mockTotal' = [mockTotal EXCEPT ![c] = total],
         totalAssets' = [totalAssets EXCEPT ![c] = assets],
         total - mockTotal[c] = held - mockShares[u][c], total <= assets
  PROVE  MockInv'
<1>1. /\ mockShares' \in [Users -> [MockCurrencies -> Nat]]
      /\ mockTotal' \in [MockCurrencies -> Nat] /\ totalAssets' \in [MockCurrencies -> Nat]
  BY DEF MockInv
<1>2. \A d \in MockCurrencies : mockTotal'[d] <= totalAssets'[d]
  BY DEF MockInv
<1>3. ASSUME NEW d \in MockCurrencies
      PROVE  (SumOver(MockHoldings(d), Users) = mockTotal[d])'
  <2>1. SumOver(MockHoldings(d), Users) = mockTotal[d]
    BY DEF MockInv
  <2>2. CASE d # c
    <3>1. \A v \in Users : mockShares'[v][d] = mockShares[v][d]
      BY <2>2 DEF MockInv
    <3>2. MockHoldings(d)' = MockHoldings(d)
      BY <3>1 DEF MockHoldings
    <3>3. mockTotal'[d] = mockTotal[d]
      BY <2>2 DEF MockInv
    <3>4. QED
      BY <2>1, <3>2, <3>3
  <2>3. CASE d = c
    <3>1. /\ mockShares'[u][c] = held
          /\ \A v \in Users \ {u} : mockShares'[v][c] = mockShares[v][c]
      BY DEF MockInv
    <3> DEFINE f == MockHoldings(c)
               g == MockHoldings(c)'
    <3>2. /\ \A v \in Users : f[v] \in Nat /\ g[v] \in Nat
          /\ \A v \in Users \ {u} : g[v] = f[v]
          /\ f[u] = mockShares[u][c] /\ g[u] = held
      BY <1>1, <3>1 DEF MockHoldings, MockInv
    <3>3. SumOver(f, Users) = mockTotal[c]
      BY <2>1, <2>3
    <3> HIDE DEF f, g
    <3>4. SumOver(g, Users) = SumOver(f, Users) - f[u] + g[u]
      BY <3>2, MockConstants, SumChange
    <3>5. mockTotal'[c] = total /\ mockTotal[c] \in Nat /\ mockShares[u][c] \in Nat
      BY DEF MockInv
    <3>6. SumOver(g, Users) = mockTotal'[c]
      BY <3>2, <3>3, <3>4, <3>5
    <3> USE DEF g
    <3>7. QED
      BY <2>3, <3>6
  <2>4. QED
    BY <2>2, <2>3
<1>4. QED
  BY <1>1, <1>2, <1>3 DEF MockInv

LEMMA MockMoneyStill ==
  ASSUME MockInv, UNCHANGED <<mockShares, mockTotal, totalAssets>>
  PROVE  MockInv' /\ \A c \in MockCurrencies : MockMoves(c)
<1>1. MockInv'
  BY DEF MockInv, MockHoldings
<1>2. QED
  BY <1>1 DEF MockMoves, Mock!Bucket!bucketVars

LEMMA MockDeposit ==
  ASSUME MockInv, NEW u \in Users, NEW c \in MockCurrencies, NEW a \in Moved,
         Mock!Deposit(u, c, a)
  PROVE  MockInv' /\ \A d \in MockCurrencies : MockMoves(d)
<1> DEFINE minted == Mock!mintShares(c, a)
<1>1. /\ minted > 0
      /\ mockShares' = [mockShares EXCEPT ![u][c] = @ + minted]
      /\ mockTotal' = [mockTotal EXCEPT ![c] = @ + minted]
      /\ totalAssets' = [totalAssets EXCEPT ![c] = @ + a]
  BY DEF Mock!Deposit
<1>2. /\ mockShares[u][c] \in Nat /\ mockTotal[c] \in Nat /\ totalAssets[c] \in Nat
      /\ mockTotal[c] <= totalAssets[c] /\ a \in Nat
  BY MockConstants DEF MockInv
<1>3. minted = MockMath!MintShares(a, mockTotal[c], totalAssets[c])
  BY DEF Mock!mintShares, Mock!VIRTUAL_OFFSET, MockMath!MintShares
<1>4. minted \in Nat /\ minted <= a
  <2>1. MockMath!MintShares(a, mockTotal[c], totalAssets[c]) \in Nat
    BY <1>2, 1 \in Nat \ {0}, MockMath!MintBounds
  <2>2. MockMath!MintShares(a, mockTotal[c], totalAssets[c]) <= a
    BY <1>2, 1 \in Nat \ {0}, MockMath!MintAtMostAmount
  <2> HIDE DEF minted
  <2>3. QED
    BY <1>3, <2>1, <2>2
<1>5. Mock!Bucket(c)!Next
  <2>1. Mock!Bucket(c)!MintShares(a, mockTotal[c], totalAssets[c]) = minted
    BY DEF Mock!Bucket!MintShares, Mock!mintShares, Mock!VIRTUAL_OFFSET
  <2> HIDE DEF minted
  <2>2. mockTotal'[c] = mockTotal[c] + minted /\ totalAssets'[c] = totalAssets[c] + a
    BY <1>1 DEF MockInv
  <2>3. Mock!Bucket(c)!Deposit(a)
    BY <1>1, <1>2, <2>1, <2>2 DEF Mock!Bucket!Deposit
  <2>4. QED
    BY <2>3 DEF Mock!Bucket!Next
<1> HIDE DEF minted
<1>6. ASSUME NEW d \in MockCurrencies
      PROVE  MockMoves(d)
  <2>1. CASE d = c
    BY <1>5, <2>1 DEF MockMoves
  <2>2. CASE d # c
    <3>1. mockTotal'[d] = mockTotal[d] /\ totalAssets'[d] = totalAssets[d]
      BY <1>1, <2>2 DEF MockInv
    <3>2. QED
      BY <3>1 DEF MockMoves, Mock!Bucket!bucketVars
  <2>3. QED
    BY <2>1, <2>2
<1>7. MockInv'
  <2> DEFINE held == mockShares[u][c] + minted
             total == mockTotal[c] + minted
             assets == totalAssets[c] + a
  <2>1. /\ held \in Nat /\ total \in Nat /\ assets \in Nat /\ total <= assets
        /\ total - mockTotal[c] = held - mockShares[u][c]
    BY <1>2, <1>4
  <2>2. /\ mockShares' = [mockShares EXCEPT ![u][c] = held]
        /\ mockTotal' = [mockTotal EXCEPT ![c] = total]
        /\ totalAssets' = [totalAssets EXCEPT ![c] = assets]
    BY <1>1 DEF MockInv
  <2> HIDE DEF held, total, assets
  <2>3. QED
    BY <2>1, <2>2, MockChange
<1>8. QED
  BY <1>6, <1>7

LEMMA MockWithdraw ==
  ASSUME MockInv, NEW u \in Users, NEW c \in MockCurrencies, NEW burned \in Nat,
         Mock!Withdraw(u, c, burned)
  PROVE  MockInv' /\ \A d \in MockCurrencies : MockMoves(d)
<1> DEFINE paid == Mock!redeemAssets(c, burned)
<1>1. /\ burned > 0 /\ burned <= mockShares[u][c]
      /\ mockShares' = [mockShares EXCEPT ![u][c] = @ - burned]
      /\ mockTotal' = [mockTotal EXCEPT ![c] = @ - burned]
      /\ totalAssets' = [totalAssets EXCEPT ![c] = @ - paid]
  BY DEF Mock!Withdraw
<1>2. /\ mockShares[u][c] \in Nat /\ mockTotal[c] \in Nat /\ totalAssets[c] \in Nat
      /\ mockTotal[c] <= totalAssets[c]
  BY DEF MockInv
<1>3. mockShares[u][c] <= mockTotal[c]
  <2> DEFINE f == MockHoldings(c)
  <2>1. /\ \A v \in Users : f[v] \in Nat
        /\ f[u] = mockShares[u][c] /\ SumOver(f, Users) = mockTotal[c]
    BY DEF MockHoldings, MockInv
  <2> HIDE DEF f
  <2>2. QED
    BY <2>1, MockConstants, SummandBelow
<1>4. paid = MockMath!RedeemAssets(burned, mockTotal[c], totalAssets[c])
  BY DEF Mock!redeemAssets, Mock!VIRTUAL_OFFSET, MockMath!RedeemAssets
<1>5. paid \in Nat /\ paid <= burned + (totalAssets[c] - mockTotal[c])
  <2>1. 1 \in Nat \ {0} /\ burned \in 0 .. mockTotal[c]
    BY <1>1, <1>2, <1>3
  <2>2. MockMath!RedeemAssets(burned, mockTotal[c], totalAssets[c]) \in Nat
    BY <1>2, <2>1, MockMath!RedeemBounds
  <2>3. MockMath!RedeemAssets(burned, mockTotal[c], totalAssets[c])
          <= burned + (totalAssets[c] - mockTotal[c])
    BY <1>2, <2>1, MockMath!RedeemLeavesBacking
  <2> HIDE DEF paid
  <2>4. QED
    BY <1>4, <2>2, <2>3
<1>6. Mock!Bucket(c)!Next
  <2>1. Mock!Bucket(c)!RedeemAssets(burned, mockTotal[c], totalAssets[c]) = paid
    BY DEF Mock!Bucket!RedeemAssets, Mock!redeemAssets, Mock!VIRTUAL_OFFSET
  <2> HIDE DEF paid
  <2>2. mockTotal'[c] = mockTotal[c] - burned /\ totalAssets'[c] = totalAssets[c] - paid
    BY <1>1 DEF MockInv
  <2>3. Mock!Bucket(c)!Withdraw(burned) /\ burned \in 1 .. mockTotal[c]
    BY <1>1, <1>2, <1>3, <2>1, <2>2 DEF Mock!Bucket!Withdraw
  <2>4. QED
    BY <2>3 DEF Mock!Bucket!Next
<1> HIDE DEF paid
<1>7. ASSUME NEW d \in MockCurrencies
      PROVE  MockMoves(d)
  <2>1. CASE d = c
    BY <1>6, <2>1 DEF MockMoves
  <2>2. CASE d # c
    <3>1. mockTotal'[d] = mockTotal[d] /\ totalAssets'[d] = totalAssets[d]
      BY <1>1, <2>2 DEF MockInv
    <3>2. QED
      BY <3>1 DEF MockMoves, Mock!Bucket!bucketVars
  <2>3. QED
    BY <2>1, <2>2
<1>8. MockInv'
  <2> DEFINE held == mockShares[u][c] - burned
             total == mockTotal[c] - burned
             assets == totalAssets[c] - paid
  <2>1. /\ held \in Nat /\ total \in Nat /\ assets \in Nat /\ total <= assets
        /\ total - mockTotal[c] = held - mockShares[u][c]
    BY <1>1, <1>2, <1>3, <1>5
  <2>2. /\ mockShares' = [mockShares EXCEPT ![u][c] = held]
        /\ mockTotal' = [mockTotal EXCEPT ![c] = total]
        /\ totalAssets' = [totalAssets EXCEPT ![c] = assets]
    BY <1>1 DEF MockInv
  <2> HIDE DEF held, total, assets
  <2>3. QED
    BY <2>1, <2>2, MockChange
<1>9. QED
  BY <1>7, <1>8

LEMMA MockYield ==
  ASSUME MockInv, NEW c \in MockCurrencies, NEW a \in Moved,
         Mock!SimulateYield(c, a)
  PROVE  MockInv' /\ \A d \in MockCurrencies : MockMoves(d)
<1>1. /\ totalAssets' = [totalAssets EXCEPT ![c] = @ + a]
      /\ UNCHANGED <<mockShares, mockTotal>>
  BY DEF Mock!SimulateYield
<1>2. a \in Nat
  BY MockConstants
<1>3. MockInv'
  <2>1. /\ totalAssets' \in [MockCurrencies -> Nat]
        /\ \A d \in MockCurrencies : totalAssets[d] <= totalAssets'[d]
    BY <1>1, <1>2 DEF MockInv
  <2>2. \A d \in MockCurrencies : mockTotal'[d] <= totalAssets'[d]
    BY <1>1, <2>1 DEF MockInv
  <2>3. \A d \in MockCurrencies : MockHoldings(d)' = MockHoldings(d)
    BY <1>1 DEF MockHoldings
  <2>4. QED
    BY <1>1, <2>1, <2>2, <2>3 DEF MockInv
<1>4. ASSUME NEW d \in MockCurrencies
      PROVE  MockMoves(d)
  <2>1. CASE d = c
    <3>1. totalAssets'[c] = totalAssets[c] + a /\ mockTotal'[c] = mockTotal[c]
      BY <1>1 DEF MockInv
    <3>2. Mock!Bucket(c)!Accrue(a)
      BY <3>1 DEF Mock!Bucket!Accrue
    <3>3. QED
      BY <2>1, <3>2 DEF MockMoves, Mock!Bucket!Next
  <2>2. CASE d # c
    <3>1. mockTotal'[d] = mockTotal[d] /\ totalAssets'[d] = totalAssets[d]
      BY <1>1, <2>2 DEF MockInv
    <3>2. QED
      BY <3>1 DEF MockMoves, Mock!Bucket!bucketVars
  <2>3. QED
    BY <2>1, <2>2
<1>5. QED
  BY <1>3, <1>4

LEMMA MockStep ==
  ASSUME MockInv, [Mock!Next]_(Mock!vars)
  PROVE  MockInv' /\ \A c \in MockCurrencies : MockMoves(c)
<1>1. ASSUME NEW u \in Users, NEW c \in MockCurrencies, NEW burned \in 1 .. mockShares[u][c],
             Mock!Withdraw(u, c, burned)
      PROVE  MockInv' /\ \A d \in MockCurrencies : MockMoves(d)
  <2>1. mockShares[u][c] \in Nat
    BY DEF MockInv
  <2>2. burned \in Nat
    BY <2>1
  <2>3. QED
    BY <1>1, <2>2, MockWithdraw
<1>2. CASE Mock!DepositorWrites
  BY <1>1, <1>2, MockDeposit, MockMoneyStill
     DEF Mock!DepositorWrites, Mock!SetPolicyConsent, Mock!SetAutoCompound, Mock!ApproveExit,
         Mock!bucketVars
<1>3. CASE Mock!KeeperWrites
  BY <1>3, MockMoneyStill
     DEF Mock!KeeperWrites, Mock!Allocate, Mock!Deallocate, Mock!SetFrozen, Mock!ProposeExit,
         Mock!bucketVars
<1>4. CASE Mock!SimulateFailure \/ UNCHANGED Mock!vars
  BY <1>4, MockMoneyStill DEF Mock!SimulateFailure, Mock!vars, Mock!bucketVars
<1>5. QED
  BY <1>2, <1>3, <1>4, MockYield DEF Mock!Next

(* Every bucket of the mock takes only the steps that BucketNav promises,  *)
(* at its price and with its rounding (mock.ts: deposit, withdraw), for    *)
(* all users, currencies and amounts.                                      *)
THEOREM MockTheorem == Mock!Spec => MockImplementsBucketNav
<1>1. MockInv /\ [Mock!Next]_(Mock!vars)
        => \A c \in MockCurrencies : [Mock!Bucket(c)!Next]_(Mock!Bucket(c)!bucketVars)
  BY MockStep DEF MockMoves
<1>2. QED
  BY <1>1, MockStart, MockStep, PTL
     DEF Mock!Spec, MockImplementsBucketNav, Mock!ImplementsBucketNav
-----------------------------------------------------------------------------
(* The yield pool: InterestTheorem is about the module YieldPool, and here *)
(* about the instance of it that MCTestnet holds.                          *)
PoolFacts == INSTANCE YieldPoolProofs WITH Amounts <- Sent

LEMMA PoolStarts == Pool!Init => PoolFacts!Init
BY Zenon DEF Pool!Init, PoolFacts!Init, Pool!NoPosition, PoolFacts!NoPosition

LEMMA PoolSteps == [Pool!Next]_(Pool!vars) => [PoolFacts!Next]_(PoolFacts!vars)
BY Zenon DEF Pool!Next, PoolFacts!Next, Pool!vars, PoolFacts!vars,
             Pool!Supply, PoolFacts!Supply, Pool!Withdraw, PoolFacts!Withdraw,
             Pool!SetRate, PoolFacts!SetRate, Pool!LedgerCloses, PoolFacts!LedgerCloses,
             Pool!Push, PoolFacts!Push, Pool!roll_index, PoolFacts!roll_index,
             Pool!set_position, PoolFacts!set_position, Pool!balance, PoolFacts!balance,
             Pool!value_of, PoolFacts!value_of, Pool!value_at, PoolFacts!value_at,
             Pool!current_index, PoolFacts!current_index,
             Pool!advance_index, PoolFacts!advance_index

LEMMA PromiseConstants == Pool!Promise!ConstantsOK => PoolFacts!Promise!ConstantsOK
BY Zenon DEF Pool!Promise!ConstantsOK, PoolFacts!Promise!ConstantsOK

LEMMA PromiseStarts == PoolFacts!Promise!Init => Pool!Promise!Init
BY Zenon DEF Pool!Promise!Init, PoolFacts!Promise!Init,
             Pool!current_index, PoolFacts!current_index,
             Pool!advance_index, PoolFacts!advance_index

LEMMA PromiseSteps ==
  [PoolFacts!Promise!Next]_(PoolFacts!Promise!interestVars)
    => [Pool!Promise!Next]_(Pool!Promise!interestVars)
BY Zenon DEF Pool!Promise!Next, PoolFacts!Promise!Next,
             Pool!Promise!interestVars, PoolFacts!Promise!interestVars,
             Pool!Promise!Supply, PoolFacts!Promise!Supply,
             Pool!Promise!Withdraw, PoolFacts!Promise!Withdraw,
             Pool!Promise!Settle, PoolFacts!Promise!Settle,
             Pool!Promise!Owed, PoolFacts!Promise!Owed,
             Pool!Promise!SetRate, PoolFacts!Promise!SetRate,
             Pool!Promise!SecondsPass, PoolFacts!Promise!SecondsPass,
             Pool!Promise!Push, PoolFacts!Promise!Push,
             Pool!current_index, PoolFacts!current_index,
             Pool!advance_index, PoolFacts!advance_index

(* One index rolled by anybody's calls pays every supplier second by       *)
(* second at the rate of that second (lib.rs: roll_index, set_rate).       *)
THEOREM PoolTheorem == Pool!Spec => ImplementsPoolInterest
<1>1. PoolFacts!Promise!ConstantsOK
  BY TestnetAssumption, PromiseConstants
<1>2. PoolFacts!Spec => PoolFacts!ImplementsPoolInterest
  BY <1>1, PoolFacts!InterestTheorem
<1>3. QED
  BY <1>2, PoolStarts, PoolSteps, PromiseStarts, PromiseSteps, PTL
     DEF Pool!Spec, PoolFacts!Spec, ImplementsPoolInterest, Pool!ImplementsPoolInterest,
         PoolFacts!ImplementsPoolInterest, Pool!Promise!Spec, PoolFacts!Promise!Spec
=============================================================================
