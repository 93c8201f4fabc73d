----------------------------- MODULE Deployment -----------------------------
(***************************************************************************)
(* The operator's scripts (smart-contract/scripts): deploy.ts,             *)
(* faucet-assets.ts and deploy-yield-pool.ts. Each is a list of commands   *)
(* that are taken one by one against a live chain and the repository's     *)
(* .env, and that stops for good at the first one that fails. The operator *)
(* runs any of them in any order, again and again.                         *)
(*                                                                         *)
(* A contract's id is its place among the contracts deployed. Building,    *)
(* identities and the constructor's configuration are left out.            *)
(***************************************************************************)
EXTENDS Naturals, Sequences, Functions

CONSTANTS
  Buckets,        (* The scripts' buckets: a sequence of currencies.        *)
  OwnSac, CircleSac,   (* Tokens: self-issued, and those of the first .env. *)
  MaxContracts    (* Bound: contracts the chain takes.                      *)

(* What a composition must give the constants.                             *)
ConstantsOK == Buckets # <<>> /\ Buckets \in Seq(Range(Buckets))

VARIABLES
  contracts,   (* Deployed: [kind, token, current, tokens, allowed, target]. *)
  env,         (* .env: [vault, sac, blend, yield]; 0 is an absent id.      *)
  todo,        (* Commands left to the script under way; <<>> between runs. *)
  loaded,      (* What it read of its environment when it began.            *)
  vault, mine  (* The vault it works on, and the pools it deployed.         *)

chainVars == <<contracts, env>>
runVars == <<loaded, vault, mine>>
vars == <<chainVars, todo, runVars>>

Currencies == Range(Buckets)
NoIds == [c \in Currencies |-> 0]

Contract(kind, token, isCurrent) ==
  [kind |-> kind, token |-> token, current |-> isCurrent,
   tokens |-> [c \in Currencies |-> "none"], allowed |-> {}, target |-> NoIds]

Command(op, c) == [op |-> op, currency |-> c]

(* All of ops for the first bucket, then all of them for the next.         *)
PerBucket(ops) ==
  [n \in 1 .. Len(ops) * Len(Buckets) |->
     Command(ops[1 + ((n - 1) % Len(ops))], Buckets[1 + ((n - 1) \div Len(ops))])]

Whole(ops) == [j \in DOMAIN ops |-> Command(ops[j], Buckets[1])]

deploy ==
  Whole(<<"deploy_vault", "need_blend">>)
    \o PerBucket(<<"set_token", "set_pool_allowed", "set_configured_pool">>)
    \o Whole(<<"write_vault">>)

faucetAssets ==
  PerBucket(<<"deploy_mock_pool", "set_token", "set_pool_allowed",
              "set_configured_pool">>)
    \o Whole(<<"write_assets">>)

YieldPools ==
  PerBucket(<<"deploy_yield_pool", "set_pool_allowed", "set_configured_pool",
              "write_yield">>)

deployYieldPoolUpgradingLast == YieldPools \o Whole(<<"upgrade">>)

deployYieldPool == Whole(<<"upgrade">>) \o YieldPools

(* A vault of the build before, with deposits, or none yet.                *)
Init ==
  /\ contracts \in {<<>>, <<Contract("vault", "none", FALSE)>>}
  /\ env = [vault |-> Len(contracts), sac |-> [c \in Currencies |-> CircleSac],
            blend |-> NoIds, yield |-> NoIds]
  /\ todo = <<>> /\ loaded = env /\ vault = 0 /\ mine = NoIds

-----------------------------------------------------------------------------
Run(script, v, settings) ==
  /\ todo = <<>>
  /\ todo' = script /\ loaded' = settings /\ vault' = v /\ mine' = NoIds
  /\ UNCHANGED chainVars

(* need("VAULT_CONTRACT_ID"); faucet-assets.ts wraps its own assets first, *)
(* at ids that never change.                                               *)
OwnAssets == [c \in Currencies |-> OwnSac]

Start ==
  \/ Run(deploy, 0, env)
  \/ /\ env.vault # 0
     /\ \/ Run(faucetAssets, env.vault, [env EXCEPT !.sac = OwnAssets])
        \/ Run(deployYieldPool, env.vault, env)

Doing(op) == todo # <<>> /\ Head(todo).op = op

Advance == todo' = Tail(todo)

TheCurrency == Head(todo).currency

Deploys(contract) ==
  /\ Len(contracts) < MaxContracts
  /\ contracts' = Append(contracts, contract)
  /\ UNCHANGED <<env, loaded>>

DeployVault ==
  /\ Doing("deploy_vault") /\ Advance
  /\ Deploys(Contract("vault", "none", TRUE))
  /\ vault' = Len(contracts')
  /\ UNCHANGED mine

(* The bucket table reads the pools from the environment.                  *)
NeedBlend ==
  /\ Doing("need_blend") /\ Advance
  /\ \A c \in Currencies : loaded.blend[c] # 0
  /\ mine' = loaded.blend
  /\ UNCHANGED <<chainVars, loaded, vault>>

DeployPool ==
  /\ \E op \in {"deploy_mock_pool", "deploy_yield_pool"} :
       /\ Doing(op)
       /\ Deploys(Contract(op, loaded.sac[TheCurrency], TRUE))
  /\ Advance
  /\ mine' = [mine EXCEPT ![TheCurrency] = Len(contracts')]
  /\ UNCHANGED vault

(* An admin call on the vault.                                             *)
Invoke(op, changed) ==
  /\ Doing(op) /\ Advance
  /\ contracts' = [contracts EXCEPT ![vault] = changed]
  /\ UNCHANGED <<env, runVars>>

Wires ==
  LET v == contracts[vault]
      pool == mine[TheCurrency]
  IN \/ Invoke("set_token", [v EXCEPT !.tokens[TheCurrency] = loaded.sac[TheCurrency]])
     \/ Invoke("set_pool_allowed", [v EXCEPT !.allowed = @ \cup {pool}])
     \/ Invoke("set_configured_pool", [v EXCEPT !.target[TheCurrency] = pool])
     \/ Invoke("upgrade", [v EXCEPT !.current = TRUE])

(* upsertEnv. *)
Writes(op, entries) ==
  /\ Doing(op) /\ Advance
  /\ env' = entries
  /\ UNCHANGED <<contracts, runVars>>

Persists ==
  \/ Writes("write_vault", [env EXCEPT !.vault = vault])
  \/ Writes("write_assets", [env EXCEPT !.sac = loaded.sac, !.blend = mine])
  \/ Writes("write_yield", [env EXCEPT !.yield[TheCurrency] = mine[TheCurrency]])

(* A command fails, or the operator interrupts it.                         *)
Stops ==
  /\ todo # <<>> /\ todo' = <<>>
  /\ UNCHANGED <<chainVars, runVars>>

Next == Start \/ DeployVault \/ NeedBlend \/ DeployPool \/ Wires \/ Persists \/ Stops

Spec == Init /\ [][Next]_vars

-----------------------------------------------------------------------------
(* Wherever the scripts stopped, a yield pool that .env offers to the      *)
(* backend is allowed on a vault of the build that counts its interest     *)
(* (deploy-yield-pool.ts: "Upgrade the vault FIRST").                      *)
OfferedPoolsAreReady ==
  \A c \in Currencies :
    env.yield[c] # 0 =>
      \E v \in DOMAIN contracts :
        /\ contracts[v].kind = "vault" /\ contracts[v].current
        /\ env.yield[c] \in contracts[v].allowed
=============================================================================
