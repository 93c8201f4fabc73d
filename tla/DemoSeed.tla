------------------------------ MODULE DemoSeed ------------------------------
(***************************************************************************)
(* The demo seed script (backend/src/scripts/demo-seed.ts): a run reads    *)
(* what the chain knows of the demo depositor, plans the steps still       *)
(* needed, and takes them one by one. It may stop anywhere; what it leaves *)
(* is on the chain and in backend/.env, and the next run starts from that. *)
(*                                                                         *)
(* One run at a time, one currency. Addresses, hashes and logging are left *)
(* out; the vault's bucket is the one of BucketNav.                        *)
(***************************************************************************)
EXTENDS PoolLists, Functions

CONSTANTS
  Keys,             (* Keypairs that Keypair.random may return.             *)
  Requests,         (* Command lines and environments a run may be given.   *)
  Interest,         (* What a pool of the bucket may earn in one step.      *)
  VirtualOffset, MinFirstDeposit,
  Faults,           (* Ways a call may fail, of {"throws", "unseen",        *)
                    (* "unconfirmed"}.                                      *)
  MaxFaults,        (* Failures and crashes, in all.                        *)
  NoKey

(* What a composition must give the constants.                             *)
ConstantsOK ==
  /\ Faults \subseteq {"throws", "unseen", "unconfirmed"}
  /\ NoKey \notin Keys /\ MaxFaults \in Nat /\ Interest \subseteq Nat
  /\ Requests # {}
  /\ Requests \subseteq [amount : Nat, currency : {"USD", "EUR", "MXN"},
                         network : {"testnet", "public"},
                         missing : BOOLEAN, sacDerived : BOOLEAN]

VARIABLES
  env,         (* DEMO_DEPOSITOR_SECRET of backend/.env.                    *)
  funded, trusts, consented,   (* Accounts of which the chain says so.      *)
  wallet,      (* Asset balance of each account.                            *)
  shares,      (* Shares of each account.                                   *)
  totalShares, nav,            (* The vault's bucket.                       *)
  sending,     (* Mints taken for done that the chain has not confirmed.    *)
  at,          (* Where the run is; "ok" and "failed" are exit codes 0, 1.  *)
  key, amount, (* The run's depositor and its deposit.                      *)
  seen,        (* SeedState.                                                *)
  steps,       (* Planned steps that remain.                                *)
  before,      (* Shares and value read before the deposit.                 *)
  faults

chainVars == <<funded, trusts, consented, wallet, shares, totalShares, nav, sending>>
runVars == <<key, amount, seen, steps, before>>
vars == <<env, chainVars, at, runVars, faults>>

Bucket == INSTANCE BucketNav WITH Amounts <- Interest

Ended == {"never", "ok", "failed"}

SEED_STEPS == <<"generate-key", "fund", "trustline", "mint", "consent", "deposit">>

Nothing == [hasSecret |-> FALSE, funded |-> FALSE, hasTrustline |-> FALSE,
            assetBalance |-> 0, hasConsent |-> FALSE]

Init ==
  /\ env = NoKey
  /\ funded = {} /\ trusts = {} /\ consented = {}
  /\ wallet = [k \in Keys |-> 0] /\ shares = [k \in Keys |-> 0]
  /\ Bucket!Init
  /\ sending = {} /\ at = "never" /\ key = NoKey /\ amount = 0
  /\ seen = Nothing /\ steps = <<>> /\ before = [shares |-> 0, value |-> 0]
  /\ faults = 0

-----------------------------------------------------------------------------
(* Starting. A run that refuses its arguments or its environment exits     *)
(* before it does anything, and is no step at all.                         *)

(* parseArgs. *)
ParsedArgs(q) == q.amount > 0 /\ q.currency \in {"USD", "EUR"}

(* resolveSeedConfig. *)
ResolvedConfig(q) == q.network = "testnet" /\ ~q.missing /\ q.sacDerived

KeptInProcess(k) == env

(* resolveDepositorKey: a generated secret is appended to backend/.env.    *)
KeptInEnv(k) == k

Start ==
  /\ at \in Ended
  /\ \E q \in Requests :
       /\ ParsedArgs(q) /\ ResolvedConfig(q)
       /\ amount' = q.amount
  /\ IF env # NoKey THEN key' = env
                    ELSE key' \in Keys \ funded
  /\ env' = IF env = NoKey THEN KeptInEnv(key') ELSE env
  /\ seen' = [Nothing EXCEPT !.hasSecret = env # NoKey]
  /\ at' = "isFunded"
  /\ UNCHANGED <<chainVars, steps, before, faults>>

-----------------------------------------------------------------------------
(* readState, one await after the other, then planSteps. *)

NeededOfNewKey(step, s, wanted) ==
  CASE step \in {"generate-key", "trustline", "consent"} -> ~s.hasSecret
    [] step = "fund"    -> ~s.funded
    [] step = "mint"    -> s.assetBalance < wanted
    [] step = "deposit" -> TRUE

Needed(step, s, wanted) ==
  CASE step = "generate-key" -> ~s.hasSecret
    [] step = "fund"         -> ~s.funded
    [] step = "trustline"    -> ~s.hasTrustline
    [] step = "mint"         -> s.assetBalance < wanted
    [] step = "consent"      -> ~s.hasConsent
    [] step = "deposit"      -> TRUE

planSteps(s, wanted) ==
  Without(SEED_STEPS, {step \in Range(SEED_STEPS) : ~Needed(step, s, wanted)})

(* The read of `where` gave s; the next one is `next`, if any is left.     *)
Observed(where, s, next) ==
  /\ at = where
  /\ seen' = s
  /\ at' = next
  /\ steps' = IF next = "act" THEN planSteps(s, amount) ELSE steps
  /\ UNCHANGED <<env, chainVars, key, amount, before, faults>>

IsFunded ==
  Observed("isFunded", [seen EXCEPT !.funded = key \in funded],
           IF key \in funded THEN "hasTrustline" ELSE "act")

HasTrustline ==
  Observed("hasTrustline", [seen EXCEPT !.hasTrustline = key \in trusts],
           IF key \in trusts THEN "assetBalance" ELSE "hasConsent")

AssetBalance ==
  Observed("assetBalance", [seen EXCEPT !.assetBalance = wallet[key]], "hasConsent")

HasConsent ==
  Observed("hasConsent", [seen EXCEPT !.hasConsent = key \in consented], "act")

readState == IsFunded \/ HasTrustline \/ AssetBalance \/ HasConsent

-----------------------------------------------------------------------------
(* Taking the steps. *)

assetValueOf(k) == Bucket!RedeemAssets(shares[k], totalShares, nav)

(* Before the deposit the run notes what the account holds.                *)
ReadBefore ==
  /\ at = "act" /\ Head(steps) = "deposit"
  /\ before' = [shares |-> shares[key], value |-> assetValueOf(key)]
  /\ at' = "deposit"
  /\ UNCHANGED <<env, chainVars, key, amount, seen, steps, faults>>

Current ==
  IF at = "act" /\ Head(steps) # "deposit" THEN Head(steps)
  ELSE IF at = "deposit" THEN "deposit" ELSE "none"

TopUpBlindly == amount

TopUp == amount - seen.assetBalance

(* What the chain asks of a step; what it refuses, it refuses loudly.      *)
Grounded(step) ==
  CASE step \in {"generate-key", "fund"} -> TRUE
    [] step \in {"trustline", "consent"} -> key \in funded
    [] step = "mint"    -> key \in trusts
    [] step = "deposit" -> key \in consented /\ wallet[key] >= amount

Effect(step) ==
  /\ funded' = IF step = "fund" THEN funded \cup {key} ELSE funded
  /\ trusts' = IF step = "trustline" THEN trusts \cup {key} ELSE trusts
  /\ consented' = IF step = "consent" THEN consented \cup {key} ELSE consented
  /\ CASE step = "mint" ->
            /\ wallet' = [wallet EXCEPT ![key] = @ + TopUp]
            /\ sending' = {}   (* They share the issuer's sequence number.  *)
            /\ UNCHANGED <<shares, totalShares, nav>>
       [] step = "deposit" ->
            /\ Bucket!Deposit(amount)
            /\ wallet' = [wallet EXCEPT ![key] = @ - amount]
            /\ shares' = [shares EXCEPT ![key] = @ + totalShares' - totalShares]
            /\ UNCHANGED sending
       [] OTHER -> UNCHANGED <<wallet, sending, shares, totalShares, nav>>

Onward ==
  IF at = "deposit" THEN at' = "readBack" /\ UNCHANGED steps
                    ELSE steps' = Tail(steps) /\ UNCHANGED at

StepLands ==
  /\ Current # "none" /\ Grounded(Current)
  /\ Effect(Current)
  /\ Onward
  /\ UNCHANGED <<env, key, amount, seen, before, faults>>

Fails == at' = "failed" /\ UNCHANGED <<env, runVars>>

StepRefused ==
  /\ Current # "none" /\ ~Grounded(Current)
  /\ Fails
  /\ UNCHANGED <<chainVars, faults>>

Fault(f) == f \in Faults /\ faults < MaxFaults /\ faults' = faults + 1

(* A read or a submission throws, or the process dies between two steps.   *)
RunThrows ==
  /\ at \notin Ended
  /\ Fault("throws") /\ Fails
  /\ UNCHANGED chainVars

(* The step took effect, and the run dies or throws before it knows.       *)
StepUnseen ==
  /\ Current # "none" /\ Grounded(Current)
  /\ Effect(Current)
  /\ Fault("unseen") /\ Fails

(* The minter stops polling after ten seconds and returns the hash anyway. *)
MintUnconfirmed ==
  /\ Current = "mint" /\ Grounded("mint")
  /\ Fault("unconfirmed")
  /\ sending' = sending \cup {[to |-> key, amount |-> TopUp]}
  /\ Onward
  /\ UNCHANGED <<env, funded, trusts, consented, wallet, shares, totalShares, nav,
                 key, amount, seen, before>>

(* The deposit counts if it is there to the unit.                          *)
ReadBack ==
  /\ at = "readBack"
  /\ at' = IF /\ shares[key] > before.shares
              /\ assetValueOf(key) = before.value + amount
             THEN "ok" ELSE "failed"
  /\ UNCHANGED <<env, chainVars, runVars, faults>>

-----------------------------------------------------------------------------
(* The chain goes on meanwhile. *)

MintLands ==
  /\ \E m \in sending : wallet' = [wallet EXCEPT ![m.to] = @ + m.amount]
  /\ sending' = {}
  /\ UNCHANGED <<env, funded, trusts, consented, shares, totalShares, nav,
                 at, runVars, faults>>

MintExpires ==
  /\ sending # {} /\ sending' = {}
  /\ UNCHANGED <<env, funded, trusts, consented, wallet, shares, totalShares, nav,
                 at, runVars, faults>>

Accrue ==
  /\ totalShares > 0
  /\ \E interest \in Interest : Bucket!Accrue(interest)
  /\ UNCHANGED <<env, funded, trusts, consented, wallet, shares, sending,
                 at, runVars, faults>>

Proceeds == readState \/ ReadBefore \/ StepLands \/ StepRefused \/ ReadBack

Next ==
  \/ Start \/ Proceeds \/ RunThrows \/ StepUnseen \/ MintUnconfirmed
  \/ MintLands \/ MintExpires \/ Accrue

Spec == Init /\ [][Next]_vars

(* A started run goes on until it ends, and the operator, seeing it fail,  *)
(* runs the script again.                                                  *)
Fairness == WF_vars(Proceeds) /\ WF_vars(Start)

-----------------------------------------------------------------------------
TypeOK ==
  /\ env \in Keys \cup {NoKey} /\ key \in Keys \cup {NoKey}
  /\ funded \subseteq Keys /\ trusts \subseteq funded /\ consented \subseteq funded
  /\ wallet \in [Keys -> Nat] /\ shares \in [Keys -> Nat]
  /\ at \in Ended \cup {"isFunded", "hasTrustline", "assetBalance", "hasConsent",
                        "act", "deposit", "readBack"}
  /\ amount \in Nat /\ seen.assetBalance \in Nat
  /\ at = "act" => steps # <<>>

(* A mint the minter gave up on may land beside the next run's. Even then  *)
(* no account ever holds more than two deposits: one late mint at most is  *)
(* added to a top-up, and with that much in hand no run mints at all.      *)
SurplusIsBounded ==
  \A k \in Keys : \E q \in Requests : wallet[k] <= 2 * q.amount

(* Runs that die never leave a second account behind (resolveDepositorKey: *)
(* "idempotent rather than a wallet factory").                             *)
OneAccount == Cardinality(funded) <= 1

(* From whatever the failed runs left, some run completes, as long as the  *)
(* price of a share is one: at any other price the value read back may be  *)
(* rounded, and then no deposit counts.                                    *)
EventuallySeeded == [](nav = totalShares) => <>(at = "ok")
=============================================================================
