----------------------------- MODULE MCTestnet -----------------------------
(***************************************************************************)
(* A bucket as BucketNav promises it, and what stands around the system on *)
(* a test network, side by side for TLC: the yield pool, the demo seed,    *)
(* the faucet, the mock vault and the operator's scripts. They share       *)
(* nothing but the names of the bucket's two variables, so interleaving    *)
(* their steps would show nothing: `part` says which of them moves, and    *)
(* the others keep still.                                                  *)
(***************************************************************************)
EXTENDS BucketNav, Sums, TLC

CONSTANTS
  BucketMaxNav,                     (* Money in the bucket alone.            *)
  Keys, NoKey, Requests, Interest, SeedFirstDeposit,    (* See DemoSeed.     *)
  MaxFaults,
  MaxNav, InterestUpTo,             (* Money in the seed's bucket, and where *)
                                    (* it stops earning.                     *)
  Buttons, Claimed, KeyOf, Slots,                       (* See Faucet.       *)
  RateLimit, FAUCET_COOLDOWN,
  Users, MockCurrencies, Pools, Moved, NoPool, NoExit,  (* See MockVault.    *)
  MaxMoney,                         (* Money in the mock's buckets.          *)
  Buckets, OwnSac, CircleSac,                           (* See Deployment.   *)
  MaxContracts,
  Suppliers, Sent, Durations, MAX_RATE_BPS, BPS_YEAR,   (* See YieldPool.    *)
  MaxSeconds, MaxCash, MaxBooked    (* In the yield pool.                    *)

VARIABLES
  part,
  env, funded, trusts, consented, wallet, shares, sending,
  at, key, amount, seen, steps, before, faults,
  limit, requests, trusted, mounted, phase, waits, asked, cooldown, stored, behind,
  mockShares, mockTotal, totalAssets, consent, autoCompoundOff, frozen, active,
  holdings, pending, seq, failSubmit,
  contracts, dotenv, todo, loaded, vault, mine,
  now, rate_bps, index, last_ts, total_principal, positions, cash

scriptRunVars == <<env, funded, trusts, consented, wallet, shares, sending,
                   at, key, amount, seen, steps, before, faults>>
seedVars == <<bucketVars, scriptRunVars>>
claimsVars == <<limit, requests, trusted, mounted, phase, waits, asked, cooldown,
                stored, behind>>
mockVars == <<mockShares, mockTotal, totalAssets, consent, autoCompoundOff, frozen,
              active, holdings, pending, seq, failSubmit>>
scriptVars == <<contracts, dotenv, todo, loaded, vault, mine>>
poolVars == <<now, rate_bps, index, last_ts, total_principal, positions, cash>>
vars == <<part, seedVars, claimsVars, mockVars, scriptVars, poolVars>>

-----------------------------------------------------------------------------
Request(a, c, n) == [amount |-> a, currency |-> c, network |-> n,
                     missing |-> FALSE, sacDerived |-> TRUE]

(* Two deposits, and runs that must not start.                             *)
CommandLines ==
  {Request(2, "USD", "testnet"), Request(3, "USD", "testnet"),
   Request(0, "USD", "testnet"), Request(2, "MXN", "testnet"),
   Request(2, "USD", "public"),
   [Request(2, "USD", "testnet") EXCEPT !.missing = TRUE],
   [Request(2, "EUR", "testnet") EXCEPT !.sacDerived = FALSE]}

(* Two tabs, or a button and its successor.                                *)
TwoButtons == "b1" :> "k1" @@ "b2" :> "k1"
BothBuckets == <<"USD", "EUR">>

Seed == INSTANCE DemoSeed
  WITH MinFirstDeposit <- SeedFirstDeposit,
       Faults <- {"throws", "unseen", "unconfirmed"}

Claims == INSTANCE Faucet
  WITH Keys <- Claimed,
       Faults <- {"throws", "unconfirmed", "timeout", "reload"}

Mock == INSTANCE MockVault
  WITH shares <- mockShares, totalShares <- mockTotal,
       Currencies <- MockCurrencies, Amounts <- Moved

Scripts == INSTANCE Deployment WITH env <- dotenv

(* A year is short, so that interest comes in whole units and in parts.    *)
Pool == INSTANCE YieldPool WITH Amounts <- Sent

ASSUME TestnetAssumption ==
  /\ Seed!ConstantsOK /\ Claims!ConstantsOK /\ Mock!ConstantsOK
  /\ Scripts!ConstantsOK /\ Pool!Promise!ConstantsOK

-----------------------------------------------------------------------------
BoundedInit ==
  /\ part \in {"bucket", "seed", "claims", "mock", "scripts", "pool"}
  /\ Init /\ Seed!Init /\ Claims!Init /\ Mock!Init /\ Scripts!Init
  /\ now = 0 /\ Pool!Init
  /\ part # "pool" => rate_bps = 0
  /\ \A b \in Buttons : waits[b] = 1
  /\ part # "claims" => trusted = {}
  /\ part # "scripts" => contracts = <<>>

SeedBounds ==
  /\ nav' <= MaxNav
  /\ at' = at /\ nav' > nav => nav' <= InterestUpTo

MockBounds ==
  /\ SumOver(totalAssets', MockCurrencies) <= MaxMoney
  /\ SumOver(holdings', MockCurrencies) <= 1 /\ seq' <= 1
  /\ consent' = {} \/ autoCompoundOff' = {}

PoolBounds == now' <= MaxSeconds /\ cash' <= MaxCash /\ total_principal' <= MaxBooked

BoundedNext ==
  \/ /\ part = "bucket" /\ Next /\ nav' <= BucketMaxNav
     /\ UNCHANGED <<part, scriptRunVars, claimsVars, mockVars, scriptVars, poolVars>>
  \/ /\ part = "seed" /\ Seed!Next /\ SeedBounds
     /\ UNCHANGED <<part, claimsVars, mockVars, scriptVars, poolVars>>
  \/ /\ part = "claims" /\ Claims!Next
     /\ UNCHANGED <<part, seedVars, mockVars, scriptVars, poolVars>>
  \/ /\ part = "mock" /\ Mock!Next /\ MockBounds
     /\ UNCHANGED <<part, seedVars, claimsVars, scriptVars, poolVars>>
  \/ /\ part = "scripts" /\ Scripts!Next
     /\ UNCHANGED <<part, seedVars, claimsVars, mockVars, poolVars>>
  \/ /\ part = "pool" /\ Pool!Next /\ PoolBounds
     /\ UNCHANGED <<part, seedVars, claimsVars, mockVars, scriptVars>>

BoundedSpec == BoundedInit /\ [][BoundedNext]_vars /\ Seed!Fairness

-----------------------------------------------------------------------------
(* Runs of the seed that die never leave a second account behind.          *)
OneAccount == Seed!OneAccount

(* A mint that lands late adds at most one deposit's worth to the account. *)
SurplusIsBounded == Seed!SurplusIsBounded

(* From whatever the failed runs of the seed left, some run completes,     *)
(* while the bucket earns nothing.                                         *)
EventuallySeeded == part = "seed" => Seed!EventuallySeeded

(* A click on the faucet mints once at most, whatever is lost or repeated. *)
OneMintPerClick == Claims!OneMintPerClick

(* Only a button older than the last success claims inside the cooldown.   *)
OnlyTheBehindClaimAgain == Claims!OnlyTheBehindClaimAgain

(* The mock vault's buckets are priced and rounded like the contract's.    *)
MockImplementsBucketNav == Mock!ImplementsBucketNav

(* One index, rolled by anybody's calls, pays every supplier his interest. *)
ImplementsPoolInterest == Pool!ImplementsPoolInterest

(* A yield pool that .env offers is allowed on an upgraded vault.          *)
OfferedPoolsAreReady == Scripts!OfferedPoolsAreReady
=============================================================================
