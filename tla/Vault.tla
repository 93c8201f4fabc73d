-------------------------------- MODULE Vault --------------------------------
(***************************************************************************)
(* The SoroSense vault contract (smart-contract/contracts/vault) together  *)
(* with what it sees of the pools it supplies: per-currency buckets with   *)
(* share accounting, allocation by the keeper, the protective freeze and   *)
(* the approved exit.                                                      *)
(*                                                                         *)
(* A contract call is atomic: a panic anywhere in it reverts the whole     *)
(* transaction, so one call is one action and every panic is a guard.      *)
(* require_auth is the argument list: a depositor call names its signer,   *)
(* and keeper and admin calls are made by the one keeper and the one admin.*)
(***************************************************************************)
EXTENDS ShareMath, Sums, PoolLists, SequencesExt

CONSTANTS
  Depositors,       (* Accounts that may sign depositor calls.              *)
  Currencies,       (* The Currency enum, or a part of it.                  *)
  Pools,            (* Pool contracts.                                      *)
  Routes,           (* The <<pool, currency>> pairs keeper and admin use.   *)
  Amounts,          (* Token amounts passed to calls.                       *)
  MinFirstDeposit,  (* Config.min_first_deposit.                            *)
  PerPoolCap,       (* Config.per_pool_cap.                                 *)
  MaxPools,         (* MAX_POOLS_PER_CURRENCY.                              *)
  ExitIds,          (* The exit ids that properties speak of.               *)
  NoPool, NoExit    (* None of an Option<Address>, Option<ExitProposal>.    *)

(* A pool custodies a single token (yield_pool's constructor), so no two    *)
(* currencies share one.                                                   *)
ASSUME RouteAssumption ==
  /\ Routes \subseteq Pools \X Currencies
  /\ \A r, s \in Routes : r[1] = s[1] => r[2] = s[2]

ExitProposals ==
  [id : Nat, currency : Currencies, from : Pools, to : Pools]

ASSUME ConfigAssumption ==
  /\ IsFiniteSet(Depositors) /\ IsFiniteSet(Pools)
  /\ Amounts \subseteq Nat \ {0}
  /\ MinFirstDeposit \in Nat
  /\ PerPoolCap \in Nat
  /\ MaxPools \in Nat \ {0}
  /\ ExitIds \subseteq Nat
  /\ NoPool \notin Pools
  /\ NoExit \notin ExitProposals

VARIABLES
  paused,        (* Paused.                                                 *)
  allowed,       (* Pools p with AllowedPool(p).                            *)
  frozen,        (* Pools p with Frozen(p).                                 *)
  consent,       (* Depositors d with Consent(d).                           *)
  shares,        (* Shares(d, c).                                           *)
  totalShares,   (* TotalShares(c).                                         *)
  idle,          (* TotalAssets(c), the part of the bucket not in pools.    *)
  poolList,      (* PoolList(c), the pools that count towards NAV.          *)
  activePool,    (* ActivePool(c).                                          *)
  holdings,      (* PoolHoldings(c, p), booked principal.                   *)
  pendingExit,   (* PendingExit(c).                                         *)
  exitCounter,   (* ExitCounter.                                            *)
  vaultCash,     (* Tokens of currency c held at the vault's address.       *)
  position,      (* What pool p owes the vault: its balance(vault).         *)
  poolCash       (* Tokens held at pool p's address.                        *)

depositorVars == <<consent, shares, totalShares>>
bucketVars    == <<idle, vaultCash, poolList, activePool, holdings>>
poolVars      == <<position, poolCash>>
guardVars     == <<paused, allowed, frozen>>
exitVars      == <<pendingExit, exitCounter>>
vars == <<depositorVars, bucketVars, poolVars, guardVars, exitVars>>

-----------------------------------------------------------------------------
(* Reads. *)

IsRoute(p, c) == <<p, c>> \in Routes

Listed(c) == ToSet(poolList[c])

(* nav::nav: idle plus the valued balance of every listed pool.            *)
Nav(c) == idle[c] + SumOver(position, Listed(c))

(* value_of: what a withdrawal of all of d's shares pays.                  *)
ValueOf(d, c) == RedeemAssets(shares[d][c], totalShares[c], Nav(c))

(* Mutants, here and below, are the seeded faults that the properties of   *)
(* this module are shown to notice.                                        *)
MintedOnIdle(c, amount) == MintShares(amount, totalShares[c], idle[c])

(* Priced on the NAV before the deposit is credited.                       *)
Minted(c, amount) == MintShares(amount, totalShares[c], Nav(c))

PayoutAfterBurn(c, burned) ==
  RedeemAssets(burned, totalShares[c] - burned, Nav(c))

(* Priced before the shares are burned.                                    *)
Payout(c, burned) == RedeemAssets(burned, totalShares[c], Nav(c))

(* A vault with nothing deposited yet.                                     *)
StartedWith(vetted, consented) ==
  /\ paused = FALSE
  /\ allowed = vetted
  /\ frozen = {}
  /\ consent = consented
  /\ shares = [d \in Depositors |-> [c \in Currencies |-> 0]]
  /\ totalShares = [c \in Currencies |-> 0]
  /\ idle = [c \in Currencies |-> 0]
  /\ poolList = [c \in Currencies |-> <<>>]
  /\ activePool = [c \in Currencies |-> NoPool]
  /\ holdings = [c \in Currencies |-> [p \in Pools |-> 0]]
  /\ pendingExit = [c \in Currencies |-> NoExit]
  /\ exitCounter = 0
  /\ vaultCash = [c \in Currencies |-> 0]
  /\ position = [p \in Pools |-> 0]
  /\ poolCash = [p \in Pools |-> 0]

Init == StartedWith({}, {})

-----------------------------------------------------------------------------
(* Moves between the vault and its pools (allocate.rs). *)

Enlisted(list, p) == IF Contains(list, p) THEN list ELSE Append(list, p)

AcceptsInflowFrozen(p, c, amount, list) ==
  /\ p \in allowed
  /\ holdings[c][p] + amount <= PerPoolCap
  /\ Contains(list, p) \/ Len(list) < MaxPools

(* The guards of supply_to_pool, for a bucket whose NAV list is `list`.    *)
AcceptsInflow(p, c, amount, list) ==
  /\ p \in allowed
  /\ p \notin frozen
  /\ holdings[c][p] + amount <= PerPoolCap
  /\ Contains(list, p) \/ Len(list) < MaxPools

(* A pool pays only a position it owes, out of tokens it has.              *)
CanPay(p, amount) == amount <= position[p] /\ amount <= poolCash[p]

UnbookedUnfloored(booked, amount) == booked - amount

UnbookedInPart(booked, amount) ==
  IF amount > booked THEN booked ELSE booked - amount

(* Booked principal after `amount` left the pool: interest leaves unbooked. *)
Unbooked(booked, amount) == IF amount > booked THEN 0 ELSE booked - amount

EmptiedOfPrincipal(c, taken) ==
  {p \in Pools : taken[p] > 0 /\ taken[p] >= holdings[c][p]}

(* The pools in which nothing is left once `taken` is withdrawn.           *)
Emptied(c, taken) == {p \in Pools : taken[p] > 0 /\ taken[p] = position[p]}

StillActive(c, emptied) ==
  IF activePool[c] \in emptied THEN NoPool ELSE activePool[c]

(* withdraw_from_pool, for every pool p with taken[p] > 0, apart from the  *)
(* credit of idle: booked principal falls, and a pool left without a       *)
(* position leaves the NAV list and stops being the active pool.           *)
WithdrawFromPools(c, taken) ==
  /\ \A p \in Pools : CanPay(p, taken[p])
  /\ holdings' = [holdings EXCEPT ![c] =
                    [p \in Pools |-> Unbooked(holdings[c][p], taken[p])]]
  /\ position' = [p \in Pools |-> position[p] - taken[p]]
  /\ poolCash' = [p \in Pools |-> poolCash[p] - taken[p]]
  /\ poolList' = [poolList EXCEPT ![c] = Without(@, Emptied(c, taken))]
  /\ activePool' = [activePool EXCEPT ![c] = StillActive(c, Emptied(c, taken))]

AvailableBooked(c, p) == holdings[c][p]

Available(c, p) == position[p]

DrainableAny(c) == Pools

Drainable(c) == Listed(c)

(* What pull_from_pools takes: the listed pools are drained in list order, *)
(* each to the end before the next one is touched. Nothing if they cannot  *)
(* together cover `needed`.                                                *)
Drains(c, needed) ==
  {taken \in [Pools -> 0 .. needed] :
     /\ \A p \in Pools : taken[p] <= Available(c, p)
     /\ \A p \in Pools \ Drainable(c) : taken[p] = 0
     /\ \A i, j \in DOMAIN poolList[c] :
          i < j /\ taken[poolList[c][j]] > 0
            => taken[poolList[c][i]] = Available(c, poolList[c][i])
     /\ SumOver(taken, Pools) = needed}

-----------------------------------------------------------------------------
(* Depositor-signed calls. *)

SetPolicyConsent(d) ==
  /\ consent' = consent \cup {d}
  /\ UNCHANGED <<shares, totalShares, bucketVars, poolVars, guardVars, exitVars>>

Mint(d, c, minted) ==
  /\ shares' = [shares EXCEPT ![d][c] = @ + minted]
  /\ totalShares' = [totalShares EXCEPT ![c] = @ + minted]

BurnOwnedOnly(d, c, burned) ==
  /\ shares' = [shares EXCEPT ![d][c] = @ - burned]
  /\ UNCHANGED totalShares

Burn(d, c, burned) ==
  /\ shares' = [shares EXCEPT ![d][c] = @ - burned]
  /\ totalShares' = [totalShares EXCEPT ![c] = @ - burned]

Deposit(d, c, amount) ==
  LET minted == Minted(c, amount)
  IN /\ ~paused
     /\ d \in consent
     /\ totalShares[c] = 0 => amount >= MinFirstDeposit
     /\ minted > 0
     /\ Mint(d, c, minted)
     /\ idle' = [idle EXCEPT ![c] = @ + amount]
     /\ vaultCash' = [vaultCash EXCEPT ![c] = @ + amount]
     /\ UNCHANGED <<consent, poolList, activePool, holdings, poolVars,
                    guardVars, exitVars>>

(* The payout is priced before the burn. What idle lacks is pulled from    *)
(* the pools, frozen or not.                                               *)
Withdraw(d, c, burned) ==
  LET assets == Payout(c, burned)
      needed == IF idle[c] < assets THEN assets - idle[c] ELSE 0
  IN /\ ~paused
     /\ burned <= shares[d][c]
     /\ \E taken \in Drains(c, needed) : WithdrawFromPools(c, taken)
     /\ assets <= vaultCash[c] + needed
     /\ Burn(d, c, burned)
     /\ idle' = [idle EXCEPT ![c] = @ + needed - assets]
     /\ vaultCash' = [vaultCash EXCEPT ![c] = @ + needed - assets]
     /\ UNCHANGED <<consent, guardVars, exitVars>>

ExitBooked(c, from) == holdings[c][from]

ExitValue(c, from) == position[from]

(* execute_exit withdraws the whole position from the frozen pool and       *)
(* supplies it to the safe one, under the guards every inflow meets, so    *)
(* idle nets out. The two pools differ, as only one of them is frozen.     *)
ExecuteExit(c, from, to) ==
  LET value == ExitValue(c, from)
      list  == Without(poolList[c], {p \in {from} : value = position[p]})
  IN /\ from \in frozen
     /\ value > 0
     /\ CanPay(from, value)
     /\ AcceptsInflow(to, c, value, list)
     /\ poolList' = [poolList EXCEPT ![c] = Enlisted(list, to)]
     /\ activePool' = [activePool EXCEPT ![c] = to]
     /\ holdings' = [holdings EXCEPT ![c][from] = Unbooked(@, value),
                                     ![c][to] = @ + value]
     /\ position' = [position EXCEPT ![from] = @ - value, ![to] = @ + value]
     /\ poolCash' = [poolCash EXCEPT ![from] = @ - value, ![to] = @ + value]

(* A stakeholder of the bucket approves the proposal that bears this id.    *)
ApproveExit(d, c, id) ==
  /\ pendingExit[c] # NoExit
  /\ pendingExit[c].id = id
  /\ ~paused
  /\ shares[d][c] > 0
  /\ ExecuteExit(c, pendingExit[c].from, pendingExit[c].to)
  /\ pendingExit' = [pendingExit EXCEPT ![c] = NoExit]
  /\ UNCHANGED <<depositorVars, idle, vaultCash, guardVars, exitCounter>>

-----------------------------------------------------------------------------
(* Keeper-signed calls. *)

Allocate(p, c, amount) ==
  /\ ~paused
  /\ totalShares[c] > 0
  /\ AcceptsInflow(p, c, amount, poolList[c])
  /\ amount <= idle[c]
  /\ amount <= vaultCash[c]
  /\ poolList' = [poolList EXCEPT ![c] = Enlisted(@, p)]
  /\ idle' = [idle EXCEPT ![c] = @ - amount]
  /\ holdings' = [holdings EXCEPT ![c][p] = @ + amount]
  /\ activePool' = [activePool EXCEPT ![c] = p]
  /\ vaultCash' = [vaultCash EXCEPT ![c] = @ - amount]
  /\ position' = [position EXCEPT ![p] = @ + amount]
  /\ poolCash' = [poolCash EXCEPT ![p] = @ + amount]
  /\ UNCHANGED <<depositorVars, guardVars, exitVars>>

(* Bounded by booked principal, and not gated on the pause or the freeze.  *)
Deallocate(p, c, amount) ==
  /\ amount <= holdings[c][p]
  /\ WithdrawFromPools(c, [q \in Pools |-> IF q = p THEN amount ELSE 0])
  /\ idle' = [idle EXCEPT ![c] = @ + amount]
  /\ vaultCash' = [vaultCash EXCEPT ![c] = @ + amount]
  /\ UNCHANGED <<depositorVars, guardVars, exitVars>>

Freeze(p) ==
  /\ frozen' = frozen \cup {p}
  /\ UNCHANGED <<depositorVars, bucketVars, poolVars, paused, allowed, exitVars>>

Unfreeze(p) ==
  /\ frozen' = frozen \ {p}
  /\ UNCHANGED <<depositorVars, bucketVars, poolVars, paused, allowed, exitVars>>

ReusedExitId == 1 + Cardinality({c \in Currencies : pendingExit[c] # NoExit})

NextExitId == exitCounter + 1

(* Nothing is checked, and an older proposal of the bucket is replaced.    *)
ProposeExit(c, from, to) ==
  /\ exitCounter' = NextExitId
  /\ pendingExit' = [pendingExit EXCEPT ![c] =
       [id |-> NextExitId, currency |-> c, from |-> from, to |-> to]]
  /\ UNCHANGED <<depositorVars, bucketVars, poolVars, guardVars>>

-----------------------------------------------------------------------------
(* Admin-signed calls. *)

SetPaused(flag) ==
  /\ paused' = flag
  /\ UNCHANGED <<depositorVars, bucketVars, poolVars, allowed, frozen, exitVars>>

SetPoolAllowed(p, flag) ==
  /\ allowed' = IF flag THEN allowed \cup {p} ELSE allowed \ {p}
  /\ UNCHANGED <<depositorVars, bucketVars, poolVars, paused, frozen, exitVars>>

-----------------------------------------------------------------------------
(* What happens to the vault without a call to it. *)

(* Ledger time passes and a pool owes more than before; only a pool with a *)
(* position accrues, and no token moves.                                   *)
Accrue(p, interest) ==
  /\ position[p] > 0
  /\ position' = [position EXCEPT ![p] = @ + interest]
  /\ UNCHANGED <<depositorVars, bucketVars, poolCash, guardVars, exitVars>>

(* Somebody transfers tokens to a pool's address, or to the vault's: an    *)
(* interest top-up, or a donation.                                         *)
FundPool(p, amount) ==
  /\ poolCash' = [poolCash EXCEPT ![p] = @ + amount]
  /\ UNCHANGED <<depositorVars, bucketVars, position, guardVars, exitVars>>

Donate(c, amount) ==
  /\ vaultCash' = [vaultCash EXCEPT ![c] = @ + amount]
  /\ UNCHANGED <<depositorVars, idle, poolList, activePool, holdings, poolVars,
                 guardVars, exitVars>>

-----------------------------------------------------------------------------
DepositorNext ==
  \E d \in Depositors :
    \/ SetPolicyConsent(d)
    \/ \E c \in Currencies :
         \/ \E amount \in Amounts : Deposit(d, c, amount)
         \/ \E burned \in 1 .. shares[d][c] : Withdraw(d, c, burned)
         \/ \E id \in 1 .. exitCounter : ApproveExit(d, c, id)

KeeperNext ==
  \/ \E r \in Routes, amount \in Amounts :
       \/ Allocate(r[1], r[2], amount)
       \/ Deallocate(r[1], r[2], amount)
  \/ \E p \in Pools : Freeze(p) \/ Unfreeze(p)
  \/ \E r, s \in Routes : r[2] = s[2] /\ ProposeExit(r[2], r[1], s[1])

AdminNext ==
  \/ \E flag \in BOOLEAN : SetPaused(flag)
  \/ \E p \in Pools, flag \in BOOLEAN : SetPoolAllowed(p, flag)

EnvironmentNext ==
  \/ \E p \in Pools, amount \in Amounts : Accrue(p, amount) \/ FundPool(p, amount)
  \/ \E c \in Currencies, amount \in Amounts : Donate(c, amount)

Next == DepositorNext \/ KeeperNext \/ AdminNext \/ EnvironmentNext

Spec == Init /\ [][Next]_vars

-----------------------------------------------------------------------------
(* Invariants. *)

TypeOK ==
  /\ paused \in BOOLEAN
  /\ allowed \subseteq Pools
  /\ frozen \subseteq Pools
  /\ consent \subseteq Depositors
  /\ shares \in [Depositors -> [Currencies -> Nat]]
  /\ totalShares \in [Currencies -> Nat]
  /\ idle \in [Currencies -> Nat]
  /\ poolList \in [Currencies -> Seq(Pools)]
  /\ activePool \in [Currencies -> Pools \cup {NoPool}]
  /\ holdings \in [Currencies -> [Pools -> Nat]]
  /\ pendingExit \in [Currencies -> ExitProposals \cup {NoExit}]
  /\ exitCounter \in Nat
  /\ vaultCash \in [Currencies -> Nat]
  /\ position \in [Pools -> Nat]
  /\ poolCash \in [Pools -> Nat]

(* The shares of a bucket are exactly those its depositors hold.           *)
SharesAddUp ==
  \A c \in Currencies :
    totalShares[c] = SumOver([d \in Depositors |-> shares[d][c]], Depositors)

(* NAV counts every position of a bucket, and counts it once: through any  *)
(* sequence of allocations, partial and full withdrawals, pulls and exits, *)
(* a pool is in its bucket's list, one time, exactly while it owes the     *)
(* bucket something -- interest left behind by a full deallocation of the  *)
(* principal included.                                                     *)
NavSeesEveryPosition ==
  \A c \in Currencies :
    /\ IsInjective(poolList[c])
    /\ \A p \in Pools : p \in Listed(c) <=> IsRoute(p, c) /\ position[p] > 0

(* Booked principal is money the pool still owes, so the keeper can always *)
(* take back all of what deallocate lets it ask for, and it never exceeds  *)
(* the cap, neither by repeated allocations nor by an exit that lands in a *)
(* pool already holding principal.                                         *)
BookedIsOwedAndCapped ==
  \A c \in Currencies, p \in Pools :
    /\ holdings[c][p] <= position[p]
    /\ holdings[c][p] <= PerPoolCap

(* The active pool is one that holds funds of the bucket.                  *)
ActiveIsListed ==
  \A c \in Currencies : activePool[c] # NoPool => activePool[c] \in Listed(c)

(* A depositor can take out all they have, interest included and however   *)
(* it is spread over idle and the pools, whenever the vault is not paused  *)
(* and no listed pool is short of tokens.                                  *)
DepositorCanExit ==
  \A d \in Depositors, c \in Currencies :
    /\ shares[d][c] > 0
    /\ ~paused
    /\ \A p \in Listed(c) : poolCash[p] >= position[p]
    => ENABLED Withdraw(d, c, shares[d][c])

-----------------------------------------------------------------------------
(* Action properties. *)

Bucket(c) == INSTANCE BucketNav WITH totalShares <- totalShares[c], nav <- Nav(c)

(* Every bucket implements BucketNav: no call of the keeper or the admin   *)
(* and no approved exit changes the value behind the shares or their       *)
(* number, and deposits and withdrawals change both at the bucket's price. *)
ImplementsBucketNav ==
  /\ \A c \in Currencies : Bucket(c)!Init
  /\ [][\A c \in Currencies : [Bucket(c)!Next]_(Bucket(c)!bucketVars)]_vars

(* Nobody's holding is worth less after a step in which their own shares   *)
(* did not change, whoever deposits, withdraws, allocates, exits a pool or *)
(* donates.                                                                *)
NobodyElseLosesValue ==
  [][\A d \in Depositors, c \in Currencies :
       shares'[d][c] = shares[d][c] => ValueOf(d, c)' >= ValueOf(d, c)]_vars

(* Vault money enters a pool only while the pool is vetted, not frozen and *)
(* the vault not paused, whichever call brings it; and while the vault is  *)
(* paused no share is minted or burned.                                    *)
GuardsHold ==
  [][/\ \A c \in Currencies, p \in Pools :
          holdings'[c][p] > holdings[c][p]
            => p \in allowed /\ p \notin frozen /\ ~paused
     /\ paused => UNCHANGED shares]_vars

(* An approved exit empties the frozen pool of the bucket, interest and    *)
(* all, into the safe one, and idle money is not touched by it.            *)
ExitMovesWholePosition ==
  [][\A c \in Currencies :
       pendingExit[c] # NoExit /\ pendingExit'[c] = NoExit
         => LET from == pendingExit[c].from
                to   == pendingExit[c].to
            IN /\ position'[from] = 0
               /\ position'[to] = position[to] + position[from]
               /\ UNCHANGED idle]_vars

(* A step leaves a pending id on its bucket, and with its pools.           *)
ProposalKept ==
  \A b, c \in Currencies :
    /\ pendingExit[b] # NoExit
    /\ pendingExit'[c] # NoExit
    /\ pendingExit[b].id = pendingExit'[c].id
    => b = c /\ pendingExit[b] = pendingExit'[c]

IsPending(id) == \E c \in Currencies : pendingExit[c] # NoExit /\ pendingExit[c].id = id

(* The id a depositor signs names one proposal: while it is pending it is  *)
(* that of one bucket with the same pools, and once it was replaced or     *)
(* approved it never comes back, however often the keeper re-proposes      *)
(* between the read and the approval.                                      *)
ExitIdNamesOneProposal ==
  /\ [][ProposalKept]_vars
  /\ \A id \in ExitIds : [](IsPending(id) => [](~IsPending(id) => []~IsPending(id)))

(* One step changes the money, the shares or the price of one bucket only. *)
BucketsDoNotBlend ==
  [][\A b, c \in Currencies :
       <<idle[b], totalShares[b], Nav(b)>>' # <<idle[b], totalShares[b], Nav(b)>>
       /\ b # c
         => UNCHANGED <<idle[c], totalShares[c], Nav(c), holdings[c], poolList[c]>>]_vars

-----------------------------------------------------------------------------
(* Statements of the documentation that the contract does not keep. *)

(* README, "Protective freeze only": the funds in a frozen pool leave it   *)
(* only by a proposed and approved exit. A depositor's own withdrawal is   *)
(* not counted here.                                                       *)
FrozenFundsNeedApproval ==
  [][\A p \in frozen :
       position'[p] < position[p] /\ UNCHANGED totalShares
         => \E c \in Currencies : /\ pendingExit[c] # NoExit
                                 /\ pendingExit[c].from = p
                                 /\ pendingExit'[c] = NoExit]_vars

(* withdraw: it reverts for liquidity only if the pools cannot together    *)
(* cover the payout.                                                       *)
CoveredWithdrawalSucceeds ==
  \A d \in Depositors, c \in Currencies :
    LET payable == [p \in Pools |-> IF poolCash[p] < position[p]
                                      THEN poolCash[p] ELSE position[p]]
    IN /\ shares[d][c] > 0
       /\ ~paused
       /\ ValueOf(d, c) <= idle[c] + SumOver(payable, Listed(c))
       => ENABLED Withdraw(d, c, shares[d][c])
=============================================================================
