# SoroSense in TLA+

SoroSense is a savings product on Stellar. Depositors put USDC, EURC or CETES
into a vault contract; a keeper moves each currency's money between lending
pools, may freeze a pool it distrusts, and may propose to move the money out of
it, which a depositor then approves. A backend runs the keeper, follows the
contract's events and serves a frontend.

This directory holds the TLA+ specification of that system, the TLC
configurations that check it on small instances, and the proofs that TLAPS
checks for instances of every size. Paths below are relative to the repository.

    tlasany M.tla                      parse
    tlc -workers 2 -config X.cfg M     check a run (PROJECT.json lists them)
    tlapm M.tla                        check the proofs of a module

## 1. The system

### 1.1 Components

| Component | State it keeps | Operations |
|---|---|---|
| Vault contract, `smart-contract/contracts/vault` | per currency: idle assets, total shares, NAV pool list, active pool, booked principal per pool, pending exit; per depositor: consent, shares, auto-compound flag; per pool: allowed, frozen; paused; exit counter; config, keeper, admin | depositor: `set_policy_consent`, `deposit`, `withdraw`, `approve_exit`, `set_auto_compound`; keeper: `allocate`, `deallocate`, `freeze`, `unfreeze`, `propose_exit`; admin: `set_paused`, `set_pool_allowed`, `set_token`, `set_configured_pool`, `upgrade` |
| Yield pool contract, `contracts/yield_pool` | interest index, when it was rolled, rate; per supplier principal and entry index; total principal | `supply`, `withdraw`, `balance`, `set_rate` |
| Mock pool contract, `contracts/mock_pool` | balance per supplier | `supply`, `withdraw`, `balance` |
| Deployment scripts, `smart-contract/scripts` | contracts on chain, `.env` | `deploy`, `faucet-assets`, `deploy-yield-pool` |
| Keeper, `backend/src/keeper`, `mastra/allocator.ts`, `scheduler` | a decision store, made afresh by each tick, the cron's overlap flag | observe, classify, then rebalance (`deallocate`, `allocate`) or freeze and propose; one-shot commands |
| Sentinel, `backend/src/sentinel` | none | score signals; freeze with retries and an alert |
| Event follower, `backend/src/chain`, `http/realtime.ts` | event store, cursor, ledger of the newest event | drain pages from the RPC, ingest, publish |
| Earnings, `backend/src/earnings`, `api/earnings.ts` | price snapshots; replayed lots | snapshot prices; replay deposits and withdrawals into a cost basis; serve |
| Activity feed, `chain/*-activity.ts`, `api/activity-feed.ts` | none of its own | decode events, select rows |
| Quotes, `api/holdings.ts`, `rates.ts`, `pools.ts`, `tools` | none | compose reads of vault, oracle and pools into one answer |
| Faucet, `http/faucet*.ts`, `FaucetButton.tsx` | last grant per address; cooldown in the browser | rate-limited mint |
| Demo seed, `scripts/demo-seed.ts` | a key in `backend/.env` | read, plan, fund, trust, mint, consent, deposit, read back |
| Vault client, `packages/vault-client` | none; the mock keeps an in-memory vault | build, sign and submit contract calls |
| Frontend: transfers, auto-compound, session, exit approval, live reads, bucket rows | view state, localStorage | deposit, withdraw, approve, toggle; poll and show |

### 1.2 Interactions

A contract call, with every call it makes to a pool, is one atomic transaction:
a panic reverts all of it. Between calls anything may happen, because callers
are independent: depositors sign from the frontend, the keeper from a cron job,
the admin by hand, and interest accrues with ledger time. The backend and the
browser are the opposite: one action is several calls with awaits between them,
state lives in process or tab memory, and every one of the calls can fail alone,
or be reported as failed and land later.

### 1.3 What is hard

- **Accounting under rounding.** Mint and redeem truncate; the order of
  pricing, burning and pulling decides who pays.
- **Two views of a pool.** Booked principal (`holdings`) bounds what the keeper
  may take back and the cap; the live balance decides NAV and when a pool is
  forgotten. Interest makes them differ.
- **Signing what was read.** A depositor approves an exit proposal by id, while
  the keeper may replace it and the admin may pause or unvet. A form names a
  bucket by its place in a list that polls replace.
- **Independent guards.** Freeze, pause, vetting and cap each gate some calls
  and not others.
- **Multi-step operations.** Rebalances, freezes, seed runs, deployments and
  snapshots that stop half way, polls that fail between pages, restarts and
  reloads that lose memory.
- **Answers nobody waits for any more.** Reads retired by an account change, a
  submission that outlives the surface that made it, a mint that lands after
  its request has timed out.

`PROJECT.json` lists each hazard at its line with the properties that cover it,
and a note where none does.

### 1.4 What makes each component correct

| Component | Correct when |
|---|---|
| Share arithmetic, NAV | nobody gains by rounding; the price of a share never falls; all shares are covered by the NAV |
| Vault | shares add up; NAV counts each position once; booked principal is owed and capped; nobody loses value by what others do; guards hold on every path; an exit moves the whole position and is the one that was signed; buckets do not blend; a depositor can leave |
| Yield pool | each supplier is paid for every second at the rate of that second, whoever calls in between |
| Scripts | a pool offered to the backend is allowed on a vault that counts its interest |
| Keeper | no funds are pulled behind a pending exit; a proposal stands; a threatened pool is frozen and its exit proposed; an idle bucket is seeded |
| Sentinel | what threatens is never called safe, and is frozen or alerted |
| Event follower | events are shown in order, once, without a gap; each is stored, and shown |
| Earnings | the headline is interest; the chart shows no growth before there was any; a complete history is served |
| Quotes, activity | no bucket is missing because a read failed; no row vanishes |
| Faucet, seed | one click mints once; only a button that has not heard of a claim claims again in its cooldown; one account, no repeated top-up, and some run completes |
| Mock vault | it is priced as the contract is |
| Frontend | success stands for a landed transaction; sending ends; a confirmed switch stays; a session is the one connected; an approval moves what was shown; numbers are about this account, and as fresh as their source |

## 2. The modules

| Module | What it is |
|---|---|
| `ShareMath` | `shares.rs`: minting and redeeming with the virtual offset |
| `Sums`, `PoolLists` | a sum over a finite set and removal from a NAV list, without recursion |
| `BucketNav` | *promise* of one bucket: shares and NAV under deposits, withdrawals and interest |
| `Vault` | the contract with the pools as it sees them; implements `BucketNav` per currency |
| `PoolInterest` | *promise* of a yield pool: a clock per supplier |
| `YieldPool` | the contract with its one index; implements `PoolInterest` |
| `EventFeed` | *promise* to the routes: an unbroken, ordered run of events that only grows until a restart |
| `ChainPoller` | boot, interval, poll, store and cursor; implements `EventFeed` |
| `Keeper`, `Sentinel` | a bucket under ticks and one-shot commands; scoring and freezing |
| `Earnings`, `Activity`, `Quotes` | what the API answers, over a chain that moves between its reads |
| `Faucet`, `DemoSeed`, `Deployment` | the tools around a test network |
| `MockVault` | `mock.ts`; implements `BucketNav` per currency |
| `Transfer`, `Preference`, `WalletSession`, `ExitApproval`, `LiveReads`, `BucketRows` | the browser |
| `MC*` | bounded instances for TLC |
| `CollectionProofs`, `ShareMathProofs` | lemmas on sums, lists and prices |
| `VaultProofs`, `YieldPoolProofs` | theorems on the contracts |
| `TestnetProofs` | on `BucketNav`, `MockVault`, `YieldPool`, `DemoSeed`, `Faucet` and `Deployment`, as `MCTestnet` holds them |
| `LoopsProofs` | on `ChainPoller`, `Sentinel` and `Keeper`, as `MCLoops` holds them |
| `BackendProofs` | on `Activity`, `Quotes` and `Earnings`, as `MCBackend` holds them |
| `BrowserProofs` | on the parts of the browser, as `MCBrowser` holds them |

`BucketNav` stands in the middle: `Vault` and `MockVault` implement it
(`Bucket(c) == INSTANCE BucketNav WITH totalShares <- totalShares[c], ...`), and
`DemoSeed` deposits into it.

Modules whose constants must satisfy something state it as `ConstantsOK`, or as
a named `ASSUME` where a proof needs it; the `MC` module that instantiates them
has TLC evaluate it. `BucketRows`, with one fixed instance, states it in the
comments of its constants.

### 2.1 `Vault` against the contract

Each storage key that the modelled calls use is one variable, named in the
comment at its declaration. `Listed(c)` and `Nav(c)` are `nav.rs`. Three
variables are not in the contract's storage: `vaultCash` and `poolCash` are the
token balances of the two contracts' addresses, and `position` is the pool's
`balance(vault)`.

| Action | Code | Note |
|---|---|---|
| `SetPolicyConsent`, `Deposit`, `Withdraw` | `lib.rs` | priced before the credit, before the burn |
| `Drains` | `pull_from_pools` | every pool drained in list order, all or nothing |
| `WithdrawFromPools` | `withdraw_from_pool` | shared by pull, deallocate |
| `AcceptsInflow` | guards of `supply_to_pool` | shared by allocate, exit |
| `ApproveExit`, `ExecuteExit` | `approve_exit`, `find_exit`, `execute_exit` | withdraw all, supply to the safe pool, clear the proposal |
| `Allocate`, `Deallocate`, `Freeze`, `Unfreeze`, `ProposeExit` | `lib.rs` | by the keeper |
| `SetPaused`, `SetPoolAllowed` | `lib.rs` | by the admin |
| `Accrue` | `accrual.rs` | ledger time passes; any interest from `Amounts` |
| `FundPool`, `Donate` | token transfers | somebody sends tokens to an address |

A panic is a guard. `require_auth` is the argument list: a depositor's call
names its signer, and there is one keeper and one admin.

Abstractions, and why they are sound:

- *One currency per pool* (`RouteAssumption`). A pool is constructed with one
  token and moves only that token. If the operator routed a pool to two
  currencies the supply would move the wrong token or fail. The contract does
  not check it, so this is an assumption on the keeper and the admin. Proposals
  likewise name two pools of the bucket's currency.
- *Tokens are registered* (`set_token` ran at deployment; `Deployment` models
  the scripts that do it).
- `set_configured_pool` is advisory: no modelled call reads it. The
  auto-compound flag is stored and returned, and no contract call depends on it.
- A depositor's wallet has what is deposited; a transfer that fails reverts.
- Interest is any number. That a position only grows between the vault's own
  calls is `YieldPoolProofs!BalanceNeverFalls`.
- Ledger entry expiry, `upgrade` and the width of `i128` are left out. An
  archived entry makes a call fail; at seven decimals the product in `shares.rs`
  exceeds 2^127 only beyond any real supply.

### 2.2 `YieldPool` against the contract

The contract keeps one `index`, advanced only when somebody calls, and per
supplier the index at his last call. `PoolInterest` has no index: each supplier
has a stake and, in parts of a year, what it has earned second by second. The
refinement maps a supplier's stake to his `principal` and his interest to
`principal * (current_index - entry_index)`, so that nobody else's calls may
show. `SetRateUnrolled`, the mutant, applies a new rate to the past.

`supply` books what it is told: tokens are pushed to the address beforehand
(`Push`) and it does not look. `total_principal` is telemetry: it is floored at
zero and drifts from the sum of the positions once interest is withdrawn, and no
property is about it. Checked arithmetic that panics on overflow is that of
integers without a width.

### 2.3 The backend's loops

A step of a loop is what happens from one await to the next.

`ChainPoller`: `Boot`/`BootUnreachable` (`startRealtime`), `Tick` (the
interval, skipped while a poll runs), `PageArrives`/`PageFails` (one turn of
`poll`, its `catch`), `Crash`, and `CloseLedger` for the chain. An event is its
place in `log`. `shown` is the three decoded arrays at once; they are assigned
together. The RPC (`Answers`, `Outdated`) is external: pages in order that may
repeat the last event delivered, no cursor on an empty page, rejection of a
request that begins before its retention.

`Keeper`: one bucket under two callers of `runTick`: the cron, which gives
candidates and nothing else, and a caller that watches the bucket and gives every
input. Neither has a store, as no caller of the repository that moves funds does.
A tick reads the active pool and the pending exit in two reads, decides (`Kind`),
and then submits one or two transactions, each of which, whoever calls, may
throw, be rejected (`success: false`, which `runner.ts:170-183` ignores), be
accepted unseen, or be given up on by `real.ts:233` and land later (`late`), amid
a later tick if it does. The depositor approves, the operator freezes and
unfreezes, and Sentinel flags pools, at any time. `exit.missed` says of a pending
exit that it was given up on and landed after a later tick had looked; both
safety properties except it, and nothing else (3.6).

`Sentinel`: a reading of signals, any of which may be missing, the score, the
anomaly flag, and `freezePool` with its status read, retries and alert. No
process of the repository runs it; assessing and then freezing is how
`integration.test.ts` composes the two.

### 2.4 The API and the app

`Earnings`, `Quotes` and `Activity` take a request apart into the reads it
makes and let the chain, the poller and the snapshotter move between them.
`Quotes` leaves figures out and keeps which buckets an answer lists, and its
status. `Earnings` keeps figures, because `HeadlineIsYield` compares them with
the interest the buckets really earned, to within `Dust`, the price of a share
for each event; the line of the hero chart
(`DesktopOverview.tsx`) is drawn of the same view.

`Transfer` is the deposit or withdraw surface, as a page or as a drawer, and the
flow both share: asking for the mandate, the consent sheet, preparing, sending,
and an outcome that may be a success, a rejection, an exception, a cancelled
signature, or none. In `LiveReads` an answer knows of as many of the app's writes
as its source does: the vault's, for `/holdings`; what the poller has published,
for `/activity` and `/earnings`, which are served from its events. `Preference`, `WalletSession`, `ExitApproval` and
`LiveReads` are the hooks and providers by those names; the session is the
wallet kit's or, on the phone, WalletConnect's. `BucketRows` is the list
of buckets and the withdraw form that points into it.

### 2.5 Parts side by side

`MCTestnet`, `MCLoops`, `MCBackend` and `MCBrowser` each hold several
specifications that share no state, or only what a composition would let move
freely anyway. Interleaving their steps would multiply states and show nothing,
so the variable `part`, chosen in `Init` and never changed, says which of them
moves; the others keep still. Each property of such a run is one part's, and is
checked over all of that part's behaviours.

Their constants are the parameters of all their parts, given in the `.cfg`. A
theorem is about one part's own specification (`Exit!Spec`), for any values of
these constants that the parts admit and without the bounds the `MC` module
adds for TLC.

### 2.6 The faucet

A request is a run of the handler: rate limit, `getAccount`, simulation,
submission, polls. `Throws` is an exception of any of them, and of
`sendTransaction` also after the network has taken the transaction: each answers
500, as a rejection does, so a 500 says nothing of the mint. It leaves the rate
limit unset.

A button is one mount of `FaucetButton`. `Unmount` takes it off the screen and
leaves its click running, which still writes the cooldown to localStorage;
`Mount` is another button, or another tab, and reads localStorage once. So a
second claim inside the cooldown is possible, from a button that was there, or
busy, before the first was stored: `behind`. `OnlyTheBehindClaimAgain` says that
no other is.

## 3. What TLC checks

### 3.1 Runs

| Run | Parts | Properties |
|---|---|---|
| `vault_pools` | 2 depositors, 1 currency, 2 vetted pools, 5 units, 1 proposal | `TypeOK`, `SharesAddUp`, `NavSeesEveryPosition`, `BookedIsOwedAndCapped`, `DepositorCanExit`; `NobodyElseLosesValue`, `ExitMovesWholePosition`; `ImplementsBucketNav` |
| `vault_currencies` | 1 depositor, 2 currencies, one with 2 pools, 2 units, 2 proposals, with consent, pause, vetting of a pool, donations | `GuardsHold`, `ExitIdNamesOneProposal`, `BucketsDoNotBlend` |
| `testnet_tools` | bucket to 60 units; yield pool of 2 suppliers over 3 seconds; mock vault; seed; faucet; scripts | `SharesAreBacked`, `PriceNeverFalls`; `ImplementsPoolInterest`; `MockImplementsBucketNav`; `OneAccount`, `SurplusIsBounded`, `EventuallySeeded`; `OneMintPerClick`, `OnlyTheBehindClaimAgain`; `OfferedPoolsAreReady` |
| `loops` | keeper with 2 pools, 2 callers, a late submission; poller with 3 events, 6 ledgers of which 4 retained, pages of 1, polls of 2 pages, 2 boots; Sentinel | `NoPullWhileExitPends`, `ProposalStands`, `ThreatGetsExit`; `CursorSkipsNothing`, `ImplementsEventFeed`, `EveryEventIsStored`; `ThreatIsAnswered` |
| `backend` | earnings of 2 depositors in 2 currencies; quotes over 5 venues; feed of 3 events with 2 rows an answer | `HeadlineIsYield`, `ChartInventsNothing`, `CompleteHistoryIsServed`; `AnswersAreHonest`; `RowsStay` |
| `browser` | page, drawer, switch, session, exit, readers of holdings and of events, balance; 2 accounts, 2 wallets | `SuccessMeansLanded`, `SendingEnds`; `ConfirmedStays`; `LogoutLasts`; `ApprovalMovesWhatWasShown`; `AnswersFit` |

Each property is stated at its definition with the code it is about; each has a
mutant in `PROJECT.json`, a plausible bug written beside the definition it
would replace, that makes TLC refute it. Six more runs, each of one property
that the code does not keep, are the findings of 3.5.

### 3.2 Bounds

Limits on behaviours are in the `MC` modules (`WithinBounds`, `...Bounds`), sizes
and amounts in the `.cfg` files, as values of constants that the proofs leave
open.

- *Vault.* `MaxNav` caps the money: five units with a first deposit of two
  suffice for two depositors at different prices, both pools holding principal
  and interest, and a payout that spans idle and both pools. `PerPoolCap` is
  below it, so that allocations, and exits swollen by interest, meet the cap.
  `MaxSurplus` caps tokens at a pool beyond what it owes: with 0 it is short of
  tokens after each accrual until it is topped up, and never over. `MaxDonated`
  caps what the vault's address has beyond its books. `MaxExits`: two for
  replacement and for ids on two buckets; `ExitIds` are those whose whole history
  `ExitIdNamesOneProposal` follows. `MaxPools` is one in `vault_currencies`, where
  a second pool of a currency is then refused. `Vetted` (for good), `Signed`,
  `Pausable` choose a later starting point or fewer admin calls.
- *Bucket, yield pool.* An offset of 3 and amounts up to 7 meet every remainder.
  A year of three parts, rates up to two and steps of one or two seconds give
  interest in whole units and in parts, carried over other suppliers' calls and
  rate changes.
- *Seed, faucet.* At most two faults per history; the seed's bucket earns up to
  four units. Two requests under way meet every collision on the issuer's
  sequence number. Two buttons of one key are two tabs, or a button and its
  successor; a cooldown of two ticks outlasts the rate limit of one, as in the
  code. *Scripts*: four contracts, any number of runs.
  *Mock*: three units over two currencies, one proposal.
- *Poller.* Pages of one event and two pages a poll make three events meet the
  page cap; six ledgers with four retained age a cursor out of retention; two
  boots give one restart.
- *Keeper.* Rates of two pools clearly apart, and within the threshold. Every
  fault for either caller, and one submission at a time that may still land
  (`MaxLate`). No clock: a store that is made by the tick knows of no last move.
- *Sentinel.* Readings on both sides of the 5 % and 1 % thresholds, and any of
  them missing; the part needs no bound.
- *Backend.* Three events, one of them another depositor's, one snapshot per
  currency, a month of one tick; while a request is composed neither a snapshot,
  nor a poll, nor the clock moves, none of which it would see. Events are known
  from the first one on (`from = 1`). A server that lacks a deposit throws at its
  withdrawal, and `CompleteHistoryIsServed` promises it nothing.
- *Browser.* Two runs of a surface at a time, three units, two proposals, one
  write and two mints, two requests of a hook under way (`MaxInFlight`). The amount and session of each part are its own. The
  phone, where WalletConnect answers and no kit does, is explored for the session
  part only.

A second depositor, pool or currency is what each property needs to fail; a third
adds permutations. Symmetry in depositors and pools is used only where all
properties are safety properties and the configuration treats them alike.

### 3.3 Fairness

Fairness is stated of what the code or its surroundings keep doing, and of
nothing else.

- *Vault, yield pool*: none, and no liveness. Nobody is obliged to call.
- *Poller*: `WF(Tick)`, the interval; `SF(PageArrives)`, an RPC asked again and
  again answers now and then. `EveryEventIsStored` ends its promise at a crash,
  and at a request that has left the RPC's retention.
- *Keeper*: `WF(StartTick)`, the cron; `WF` of a tick under way; `SF` of its two
  reads and of each kind of submission: a network that fails for ever at one of
  them is excluded, any number of failures in between is not.
- *Seed*: `WF(Proceeds)`, a script goes on; `WF(Start)`, the operator runs it
  again. `EventuallySeeded` is for a bucket that does not earn meanwhile: at a
  price above one a read-back of the deposited value may be refused (3.6).
- *Transfer*: `WF(RunStep)`, the network answers and the user answers his wallet,
  with whatever outcome.
- *ExitApproval* (`WatchSpec`): `WF(Read)`, a read that was started ends.

### 3.4 Deadlock

Checked in all vault runs, where the keeper can always freeze, and for
`BucketRows`. It is off where a bound stops a part: a bucket emptied at its
bound, a poller that is down after its last boot, a seed run that has used its
faults, parts of the backend and the browser at their bounds, and a page that
has read.

### 3.5 Findings

Each is a disagreement between the code and what the repository says of it,
refuted by a run that checks that one statement.

1. `frozen_pool_emptied`. `smart-contract/README.md:43-45` says the funds in a
   frozen pool "leave only via a keeper-proposed, depositor-approved exit".
   `deallocate` does not look at the frozen flag; the keeper can take the booked
   principal into idle. (Depositors' own withdrawals also draw on frozen pools;
   the property does not count those.)
2. `illiquid_pool_blocks`. `withdraw` is documented to revert for liquidity only
   if the pools cannot together cover the payout. `pull_from_pools` asks each
   pool for what it owes; an early pool short of tokens panics and a later,
   liquid one is not asked.
3. `stored_never_shown`. `poller.ts` says a fresh deposit shows up one interval
   away. A poll that fails between pages keeps what it ingested and does not
   publish it; the polls after it find nothing new and do not publish either.
4. `keeper_seed`. `allocator.ts:73` says seeding an unallocated bucket always
   proceeds. The decision names the target as its own source, so the runner
   first deallocates from a pool that holds nothing, which the vault refuses, on
   every tick.
5. `amount_meets_other_bucket`. `WithdrawKeypad.tsx:47` says the previous
   bucket's amount does not carry over. The form keeps its bucket as an index
   into rows that polls replace, so another bucket can come to stand behind the
   amount and the Max already entered.
6. `exit_never_offered`. `useHoldings.ts:67-69` says that what the keeper does
   must land on screen without a reload. `usePendingExit` reads on mount and
   after the app's own writes, so a page that stays open never offers the exit.

### 3.6 Read off the code, not checked

Contract and scripts: a position grown past `per_pool_cap` cannot be moved by
`approve_exit`, which supplies all of it. After the last shares are burned, dust
and later interest stay in the NAV, for the next depositor. The active pool is
cleared while another pool holds funds. `faucet-assets` run after the yield
pools are deployed leaves `.env` with pools of another token; `deploy` leaves
the `YIELD_*` of the old vault.

Keeper: `cron.ts:4-6` says that a pass acts only if the gate of threshold, dwell
and switch cost says a move pays. The cron gives neither `activeRay` nor a store,
so `shouldRebalance` allows every move (`allocator.ts:80`), and the dwell guard
would find no last move: a bucket goes to whichever candidate is ranked first, as
soon as another is, for any gain. `runner.ts:170-182` ignores
`success: false`, so a rebalance whose pull was rejected goes on to allocate
what else is idle, and a proposal may follow a freeze that did not land. A
proposal that is given up on and lands after a later tick has looked does not
keep that tick from pulling the funds, or from replacing it by its own. A
candidate outside the registry makes `proposeExit` throw; a rebalance into a
pool that is frozen meanwhile leaves the bucket idle. A one-shot `tick` command
may overlap a pass of the cron in another process. `allocator-workflow.ts` keeps a
store, but its effects only log and it reads no clock; its threshold is 0.5 where
the runner has 1.5.

Sentinel: a NaN position or an infinite TWAP gives a score that is not an
anomaly; a freeze that lands late may undo an operator's unfreeze; a status read
that throws is not caught, and a signer with another role fails without an alert.

Backend: the earned figure moves by rounding with each withdrawal; a time before
the first snapshot is priced at par; a `decimals()` reply that cannot be decoded
throws; a registry without a pool the vault holds makes a holdings answer omit
that bucket. The faucet's rate limit is checked before and set after the mint,
concurrent requests share the issuer's sequence number, and a 500 may stand for a
mint that lands and leaves the limit unset. A second complete
seed run mints again; interest earned during one fails its read-back.

Frontend: `useActivity.ts:31-32` says of a write of this session that "the row
for it should appear without waiting out the poll interval". The version bump
reads `/activity` again at once, but that answers from the poller's store
(`http/app.ts:146`), which has the event only after the backend's own poll; the
row then comes with a later tick. `AnswersFit` claims for these hooks what holds:
no less than the poller had published when they asked. A faucet button that
leaves the screen with a request under way and comes back, or a second tab, can
claim again inside the cooldown. `real.ts:204-206` promises that for a pool outside the registry "the
user still sees a balance"; `poolStatus` then throws "unknown pool" and
`useBuckets` blanks all rows, which Home words as no deposits. Lost answers are
reported as "No funds moved". `WithdrawKeypad` never clears `submitted`, so a
later withdrawal of nothing shows the previous amount; a bucket worth less than
a cent cannot be withdrawn even with Max. A drawer that is closed and opened
again shows the outcome of the run before. The deposit success screen shows the
amount typed, which may be edited while the mandate is read. On the phone, a
`session_delete` that comes while the wallet is asked detaches the client
(`wallet-real.ts:101-103`), so that a later logout does not end the new session.
`AddFundsDrawer.tsx:43-46` limits by the previous asset's balance while the next
loads. The demo pool slugs of frontend and backend differ, where
`lib/vault/client.ts:44-46` says they "Must stay identical".

## 4. What TLAPS proves

Of the 39 properties of the passing runs, 34 are theorems, without the bounds of
3.2: all but one that is about ENABLED and four about liveness. `Promise`, `Session` and the like are the instances of the `MC` modules.

| Module | Theorem | Statement |
|---|---|---|
| `ShareMathProofs` | `RoundTripIsNoGain` | redeeming the shares just minted returns at most the amount paid |
| `VaultProofs` | `TypeTheorem`, `LedgerTheorem` | `[]TypeOK`, `[]SharesAddUp` |
| | `NavTheorem`, `BookedTheorem`, `ActiveTheorem` | `[]NavSeesEveryPosition`, `[]BookedIsOwedAndCapped`, `[]ActiveIsListed` |
| | `GuardTheorem`, `ProposalTheorem`, `ExitTheorem` | `GuardsHold`, `ExitIdNamesOneProposal`, `ExitMovesWholePosition` |
| | `SeparationTheorem` | `BucketsDoNotBlend` |
| | `BucketTheorem` | `ImplementsBucketNav`: the refinement |
| | `ValueTheorem`, `VaultBackingTheorem` | `NobodyElseLosesValue`; `totalShares[c] <= Nav(c)` |
| | `PayableTheorem` | the conditions of a full redemption, `DepositorCanExit` without its ENABLED |
| `YieldPoolProofs` | `InterestTheorem` | `ImplementsPoolInterest`: the refinement |
| | `BalanceNeverFalls` | `balance(s)` falls only by `Withdraw(s, amount)`, and by just that amount |
| `TestnetProofs` | `BackingTheorem`, `PriceTheorem` | `[]SharesAreBacked`, `PriceNeverFalls` |
| | `MockTheorem` | `MockImplementsBucketNav`: the refinement |
| | `AccountTheorem`, `SurplusTheorem` | `[]OneAccount`, `[]SurplusIsBounded` |
| | `ClickTheorem`, `ClaimTheorem` | `[]OneMintPerClick`, `OnlyTheBehindClaimAgain` |
| | `OfferedTheorem` | `[]OfferedPoolsAreReady` |
| | `PoolTheorem` | `ImplementsPoolInterest`, by `InterestTheorem` |
| `LoopsProofs` | `CursorTheorem`, `FeedTheorem` | `[]CursorSkipsNothing`; `ImplementsEventFeed`: the refinement |
| | `ThreatTheorem` | `[]ThreatIsAnswered` |
| | `NoPullTheorem`, `ProposalStandsTheorem` | `NoPullWhileExitPends`, `ProposalStands` |
| `BackendProofs` | `RowsTheorem`, `AnswersTheorem` | `RowsStay`, `AnswersAreHonest` |
| | `ServedTheorem` | `[]CompleteHistoryIsServed` |
| | `HeadlineTheorem`, `ChartTheorem` | `[]HeadlineIsYield`, `[]ChartInventsNothing` |
| `BrowserProofs` | `LogoutTheorem`, `ApprovalTheorem`, `ReadsTheorem` | `[]LogoutLasts`, `ApprovalMovesWhatWasShown`, `[]AnswersFit` |
| | `ConfirmedTheorem`, `SuccessTheorem` | `ConfirmedStays`, `[]SuccessMeansLanded` |

### 4.1 Assumptions

The theorems assume what the modules assume of their constants
(`OffsetAssumption`, `BucketAssumption`, `RouteAssumption`, `ConfigAssumption`,
`KeeperAssumption`, and the `ConstantsOK` of the parts, which
`TestnetAssumption`, `LoopsAssumption`, `BackendAssumption` and
`BrowserAssumption` collect): positive offsets, limits and durations, finite
sets where something is summed, one currency per pool, values of the right type.
TLC evaluates each of them for the values of the runs.

No theorem has another hypothesis.

### 4.2 Contracts

- *Prices.* All rests on the division fact that `q == a \div b` has
  `b * q <= a < b * (q + 1)`, from which each inequality on prices follows by a
  comparison of products. `totalShares <= nav` is inductive together with the
  types: a price that starts at one and never falls. It is what makes the NAV
  after a payout a natural number.
- *Ledger.* `SharesAddUp` needs the types, and that a sum changes by what one
  element changes. The types need in turn that no subtraction goes below zero;
  for `totalShares` that is `SharesAddUp` itself, for `idle` the guards.
- *Custody.* `CustodyInv` joins the types with: a pool is listed exactly in the
  bucket of its route and only while it has a position; a pool without a route
  to a bucket is neither booked nor listed there; booked principal is owed and
  capped; the active pool is listed; proposals are on routes. Each part is
  needed by another: that an emptied pool had its booking cleared needs booked
  <= owed, that a pool enlisted once stays so needs lists without repetition.
- *Steps.* The action properties go action by action over a state with the
  types. `ExitIdNamesOneProposal` needs `IdsGivenOnce`: a pending id is at most
  the counter, and no two buckets wait for the same one. That an id never comes
  back is about more than a step: `Given` ids, up to the counter, stay given, and
  a `Spent` one, given and not pending, stays spent (`IdsKept`). `BucketsDoNotBlend`
  needs `CustodyInv`: as pools have one route, money that moves in a pool of one
  bucket is in nobody else's NAV.
- *Refinement.* The NAV of `Vault` is a sum over a list that a payout or an exit
  shortens by the pools it empties. An emptied pool contributes nothing
  (`SumWithZeros`), so the sum over the shortened list is the old one less what
  was taken, and each call is a step of `BucketNav` or none. What `BucketNav`
  keeps then holds in the vault too (`VaultBackingTheorem`), and a depositor's
  value falls only by his own step (`ValueTheorem`), because at a price that
  has not fallen the same shares redeem to no less.
- *Paying out.* With the shares backed by the NAV, a payout is at most the idle
  money and what the listed pools owe; with liquid pools draining them in order
  covers it (`LiquidBucketPays`). That this makes `Withdraw` ENABLED is TLC's.
- *Interest.* `PoolInv` joins the types with: the index was last rolled in the
  past, and no position was entered at an index yet to come. Without it interest
  could be negative and truncate the wrong way. Rolling the index leaves
  `current_index` as it is (`RollingKeepsNow`), so a call settles its own
  supplier and no other (`SettlesOne`); a second adds `rate` to it, which
  distributes over every principal (`EarnedWithTime`).

### 4.3 Test network

- `MockInv` is the ledger and the backing of the in-memory vault, at an offset
  of one: the lemmas on prices are instantiated with it.
- `AccountInv`: while a run goes on its key is the one `.env` keeps, and nothing
  but that one is ever funded.
- `SurplusIsBounded` is not inductive: `HeldBelow(most)` adds to it the mint that
  is under way and the one the run has yet to make, each counted on top of the
  balance it may meet. `most` is the greatest deposit asked for so far.
- `RequestsAreHonest`: a 409, and of all failures only a 409, is the answer to a
  request without a transaction, and stays one. `ClicksInv`: of the requests of a
  click all but the one it waits for were denied so. `CooldownInv`: a button that
  is not behind shows the stored cooldown, and has a click under way only where
  there is none.
- `ScriptsInv` carries, for every write to `.env` still to come, which pool it
  will name and which steps before it make that pool ready: a script that stops
  half way has dropped its later writes with its later steps.

### 4.4 Loops

- `PollerInv`: the store is a run of the log that ends where the next poll
  resumes, and the routes are shown a beginning of it; the log is in ledger
  order. Sequence arithmetic apart, the work is that a page which repeats the
  last event delivered stores it once.
- `SentinelInv`. `ThreatIsAnswered` compares a reading with every worse one; the
  proof needs that both tests of `signals.ts` are monotone in that order
  (`Sentinel!AsBad`).
- `KeeperInv` types the calls a tick has planned and those that may land late,
  and their order (a proposal last). Its part `PendingInv`: while an exit pends
  that was not missed, neither the tick under way nor anything in `late` has a
  pull or a proposal to submit. A tick planned after the exit has seen it; one
  planned before has no exit to propose behind it, or the exit would be missed;
  and what is in `late` shares a sequence number, so the exit's landing voids it.

### 4.5 Backend and browser

- `RowsStay`: rows are numbered by their place in the ledger (`Numbered`), and
  the rows a limit cuts off are older than a full answer (`CutOnlyByNewer`, by
  the latest of those that are cut). The statement's limits are the queries'.
- `QuotesInv`: who had money throughout a request was found to have it, and every
  code noted is one a reader gives, none of which becomes a 404.
- `EarningsInv`: the replay of the whole history gives each depositor what he
  holds (`Booked`); no withdrawal burned more than the replay of the events
  before it (`MatchedIn`); a bucket with a value has an event of its owner. A
  recursive function cannot be unfolded by induction here, so `IsReplay`
  describes it as a function that satisfies its equations, which exists
  (`ReplayExists`, by the shortest length without one) and agrees with that of
  any longer history (`ReplaysAgree`). With the history the sums over it, of
  events and of what is missing from an answer, grow by one entry at a time.
- `YieldInv` compares what a depositor paid in with what his shares redeem for.
  One rounding costs less than the price of a share (`QuotedBelowRedeemed`), and
  each event rounds once, hence `Dust`: events times that price. `Position`
  says, after any of the first k events, that the contributions are at most the
  value and what was withdrawn since (the lower bound of the headline); that
  later events raise them by at most the deposits since; and, where no
  withdrawal follows, by at most what the shares minted since redeem for (the
  chart). `Earnt` gives the upper bound: a bucket holds no more than its depositors'
  contributions, or their value where it is less, and the interest. It is one
  statement on the whole bucket because rounding moves units from one depositor
  to all, and only the sum is bounded by interest. `Dated` and `Gains` put
  events and interest in the order of time.
- `ReadInv`: a value read for a request keeps its bounds against the events the
  request took, whatever is deposited, withdrawn or accrued while it waits for
  the others. This is the stale read of `getEarnings`, and what is withdrawn or
  deposited meanwhile is in `Unseen`.
- `SnapsInv`: every price ever sampled, and par, is fair: shares at that price
  are worth no more than they redeem for today, for all numbers of shares,
  because no price falls. So a chart point on an old snapshot, or on none, never
  exceeds what can be withdrawn, and the hero's line ends at or below it.
- `PastInv`: what a position showed at a time that has passed exceeds its
  contributions by no more than the interest of that time. It speaks of each k
  and each price quoted by then, because the store may have held any prefix of
  the history and a tick may have failed at any bucket. A point is settled when
  the clock leaves its time (`ShownNow`) and frozen after (`QuotedStays`); the
  margin it settled with only grows.
- `SessionInv`: what is saved is the account entitled. `ExitInv`: a proposal in
  any variable of the page is one that was read, which pends as it was read or
  no more. `RequestsInv`, `PaintedInv`, `BalanceInv`: a shared answer is
  as fresh as its key; one of a hook's own that is not cancelled is of the account
  connected and as fresh as what was published when it was asked for; and what is
  shown is so, or is being read again.
- `SwitchInv`: `FreshInv` is the part that `ConfirmedStays` lacks. While a write
  that would change the chain has yet to land, the read under way and what is
  known agree with the chain, so that its landing cannot confirm what a stale
  read is about to turn back.
- `PageInv`: a mounted surface has one run at a time, its current one.

### 4.6 Lemmas on collections

A sum is the cardinality of a set of units, a shortened list is given by ranks
(`MCVault` has TLC check that `Without` is `SelectSeq`), and a least number comes
from the well-foundedness of `<`: so stated, the library's theorems on finite
sets and orders apply where an induction would be needed.

### 4.7 What the proofs changed

- `ThreatIsAnswered`: the first attempt failed at a reading whose TWAP and spot
  are both zero, which the order of readings counted as calm although no ratio
  exists for it. `AsBad` now compares deviations only where there is a TWAP.
- `Dust` was three units for each event, right for the prices of the run and
  false for others. It is now the price of a share for each event of the bucket.
- The line of the hero chart was compared with the balance of the same answer.
  The proof found the order in which that fails: `getEarnings` awaits the values
  first and reads the snapshots after, so a tick between them lets the line end
  above the balance by the interest of the meantime. `MCBackend` keeps snapshots
  still while a request is open, and TLC did not see it. The line is now bounded
  by `WorthNow`, what the shares redeem for when the answer is composed.
- A chart point allows the dust twice: rounding at the deposits, and again at
  those the store lacks.
- `Until` replaces a filter by a prefix of a list in the order of time; `MCBackend`
  has TLC check that they are the same. `MaxTime` is a natural number.
- Definitions were restated where a proof needed a form without a fold or a
  recursive operator, with the same values: the poller's and the seed's removals
  by `Without`, the seed's surplus and the keeper's best candidate by position,
  the catalog of `Quotes` as a set of records with their place, `costBasisOf`
  as a recursive function, totals as `SumOver`. The parts' parameters became
  constants.

### 4.8 What only TLC checks

- `DepositorCanExit`, for its ENABLED, and the liveness properties
  `EventuallySeeded`, `EveryEventIsStored`, `ThreatGetsExit` and `SendingEnds`:
  ENABLED and fairness are beyond the prover.
- The findings of 3.5, which are counterexamples.

Left for a continuation: `ExitIdNamesOneProposal` of the vault composed with `ExitInv`, so that an
approval signed in the browser is seen to move money only as shown; the safety
half of the liveness properties, that what is to happen is never made impossible.

## 5. What is not modelled, and why

- Authorisation, the expiry of ledger entries, overflow and `upgrade` of the
  contracts (2.1, 2.2); a call that they stop changes nothing.
- `simulate`, `funding`, bucket series, fee, OpenAPI: functions of constants or
  of one read.
- Mastra agents and `riskAdjustedYield`: they narrate or rank what the loops
  decide, and move nothing.
- The per-depositor compounding gate, which every caller runs ungated.
- `contributions.ts`, the cost basis that the browser keeps beside the backend's;
  offline fixtures; the choice of currency; signing itself (`Transfer` has its outcomes).
- `bindings.ts` and the generated bindings; deployment identities and builds.
- Layout, wording, charts other than the hero's line, and the landing page.
- Three hazards have no property. The pending flag of a store that outlives its
  tick (`allocator.ts:276`): no caller that moves funds keeps such a store. A
  start ledger that ages out (`realtime.ts:113`): retention is the RPC's. A
  drawer closed on a run (`AddFundsDrawer.tsx:58`): no text of the repository
  says what it should show.
- `BucketRows` is checked by its finding only, so its behaviours beyond the
  counterexample were explored up to that depth. It has two buckets, a pool the
  registry does not name, values of nothing, less and more than two cents, and
  one withdrawal at a time.
