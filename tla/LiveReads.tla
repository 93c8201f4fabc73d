------------------------------ MODULE LiveReads ------------------------------
(***************************************************************************)
(* How the surfaces of the app read: an effect per hook, started again     *)
(* with every change of account, every write of the app and every tick of  *)
(* a poll, which drops the result of the one before; the requests that     *)
(* /holdings readers share (useHoldings.ts); and the wallet balance, which *)
(* after a mint reads again until the number moves (useWalletBalance.ts).  *)
(*                                                                         *)
(* An answer is reduced to whom it is about and how many of the app's      *)
(* writes it knows of: all that are in the ledger, if the backend read the *)
(* vault for it, and those its poller has published, if it answered from   *)
(* the events it keeps, as for a feed or a cost basis.                     *)
(***************************************************************************)
EXTENDS Naturals

CONSTANTS
  Users, Nobody,
  Sharing,            (* Hooks that read /holdings.                         *)
  Own,                (* Hooks whose requests are their own, /earnings and  *)
                      (* /activity, which the backend answers from events.  *)
  Assets,             (* The deposit currencies.                            *)
  REFRESH_ATTEMPTS,
  MaxWrites, MaxCredits

Hooks == Sharing \cup Own

ConstantsOK ==
  /\ Nobody \notin Users /\ Sharing \cap Own = {}
  /\ REFRESH_ATTEMPTS \in Nat \ {0} /\ MaxWrites \in Nat /\ MaxCredits \in Nat

VARIABLES
  landed,             (* Writes of the app that are in the ledger.          *)
  published,          (* Those that the backend's poller has published.     *)
  version,            (* The bumps of VaultProvider.                        *)
  address,            (* The connected account, or Nobody.                  *)
  shared,             (* inFlight: per key a request, or NoRequest.         *)
  own,                (* Per hook: its requests under way, of which only    *)
                      (* the last effect's is not cancelled.                *)
  floor,              (* Per such hook: what was published when its last    *)
                      (* effect began.                                      *)
  awaits,             (* Hooks whose last effect still awaits.              *)
  shown,              (* Per hook: the answer painted, or Blank.            *)
  credit,             (* Per asset: what Horizon reports.                   *)
  asset,              (* The asset a deposit surface is open for.           *)
  nonce,              (* Has a refresh been asked for.                      *)
  balance,            (* The painted balance: [loading, asset, amount].     *)
  lastAmount,         (* What the last completed read saw.                  *)
  query               (* The balance read under way: see Query.             *)

readVars == <<shared, own, floor, awaits, shown>>
balanceVars == <<asset, nonce, balance, lastAmount, query>>
vars == <<landed, published, version, address, readVars, credit, balanceVars>>

Keys == Users \X (0 .. MaxWrites)

Request(at, served) == [at |-> at, served |-> served]
NoRequest == Request("none", 0)
Asked == Request("asked", 0)

OwnRequest(who) == [who |-> who, cancelled |-> FALSE, at |-> "asked", served |-> 0]

Blank == [who |-> Nobody, served |-> 0]

NoQuery == [at |-> "done", before |-> 0, left |-> 0, amount |-> 0]

Init ==
  /\ landed = 0 /\ published = 0 /\ version = 0 /\ address = Nobody
  /\ shared = [k \in Keys |-> NoRequest]
  /\ own = [h \in Own |-> {}] /\ floor = [h \in Own |-> 0]
  /\ awaits = {} /\ shown = [h \in Hooks |-> Blank]
  /\ credit = [a \in Assets |-> 0] /\ asset \in Assets /\ nonce = FALSE
  /\ balance = [loading |-> FALSE, asset |-> asset, amount |-> 0]
  /\ lastAmount = 0 /\ query = NoQuery

-----------------------------------------------------------------------------
(* The effects.                                                            *)
KeyOfAccount(who, v) == <<who, 0>>

Key(who, v) == <<who, v>>

Uncancelled(requests) == requests

(* The cleanup of an effect.                                               *)
Cancelled(requests) == {[r EXCEPT !.cancelled = TRUE] : r \in requests}

(* Those of the hooks hs run again for account who at version v. Without   *)
(* an account they ask nothing, and blank what they show.                  *)
StartReads(hs, who, v) ==
  /\ own' = [h \in Own |->
               IF h \notin hs THEN own[h]
               ELSE Cancelled(own[h]) \cup (IF who = Nobody THEN {} ELSE {OwnRequest(who)})]
  /\ floor' = [h \in Own |-> IF h \in hs THEN published ELSE floor[h]]
  /\ IF who = Nobody
     THEN /\ awaits' = awaits \ hs
          /\ shown' = [h \in Hooks |-> IF h \in hs THEN Blank ELSE shown[h]]
          /\ UNCHANGED shared
     ELSE /\ awaits' = awaits \cup hs
          /\ shared' = IF hs \cap Sharing # {} /\ shared[Key(who, v)] = NoRequest
                       THEN [shared EXCEPT ![Key(who, v)] = Asked] ELSE shared
          /\ UNCHANGED shown

(* The balance read of an asset: once, or after a refresh until the number *)
(* moves off what the last read saw.                                       *)
StartQuery(who, refreshed) ==
  IF who = Nobody
  THEN query' = NoQuery /\ UNCHANGED balance
  ELSE /\ query' = [at |-> "asked", before |-> lastAmount, amount |-> 0,
                    left |-> IF refreshed THEN REFRESH_ATTEMPTS ELSE 1]
       /\ balance' = [balance EXCEPT !.loading = TRUE]

SwitchAccount ==
  /\ \E who \in Users \cup {Nobody} :
       /\ (who = Nobody) # (address = Nobody)
       /\ address' = who
       /\ StartReads(Hooks, who, version) /\ StartQuery(who, nonce)
  /\ UNCHANGED <<landed, published, version, credit, asset, nonce, lastAmount>>

Tick(h) ==
  /\ address # Nobody
  /\ StartReads({h}, address, version)
  /\ UNCHANGED <<landed, published, version, address, credit, balanceVars>>

(* A deposit, a withdrawal, an approval: it lands, and then its surface    *)
(* bumps the version.                                                      *)
WriteLands ==
  /\ landed < MaxWrites /\ address # Nobody
  /\ landed' = landed + 1
  /\ UNCHANGED <<published, version, address, readVars, credit, balanceVars>>

Bump ==
  /\ version < landed /\ address # Nobody
  /\ version' = version + 1
  /\ StartReads(Hooks, address, version')
  /\ UNCHANGED <<landed, published, address, credit, balanceVars>>

-----------------------------------------------------------------------------
(* The backend, and the answer on its way.                                 *)
Publish ==
  /\ published' \in published + 1 .. landed
  /\ UNCHANGED <<landed, version, address, readVars, credit, balanceVars>>

(* A backend that starts again keeps no events.                            *)
Restart ==
  /\ published' = 0 /\ floor' = [h \in Own |-> 0]
  /\ UNCHANGED <<landed, version, address, shared, own, awaits, shown, credit, balanceVars>>

(* /holdings reads the vault; the routes of the others, the events.        *)
Serve ==
  /\ \/ \E k \in Keys :
          /\ shared[k] = Asked
          /\ shared' = [shared EXCEPT ![k] = Request("answered", landed)]
          /\ UNCHANGED own
     \/ \E h \in Own : \E r \in own[h] :
          /\ r.at = "asked"
          /\ own' = [own EXCEPT ![h] =
                       (@ \ {r}) \cup {[r EXCEPT !.at = "answered", !.served = published]}]
          /\ UNCHANGED shared
  /\ UNCHANGED <<landed, published, version, address, floor, awaits, shown, credit, balanceVars>>

(* An answer settles the effects that await it; the ones that dropped it   *)
(* it does not reach.                                                      *)
Paint(hs, answer) ==
  /\ shown' = [h \in Hooks |-> IF h \in hs THEN answer ELSE shown[h]]
  /\ awaits' = awaits \ hs

(* A failed or late request answers nothing, and the fixtures take over.   *)
Settle(hs, who, request) ==
  \/ request.at = "answered" /\ Paint(hs, [who |-> who, served |-> request.served])
  \/ request # NoRequest /\ Paint(hs, Blank)

SharedArrives(k) ==
  /\ Settle(IF k = Key(address, version) THEN awaits \cap Sharing ELSE {}, k[1], shared[k])
  /\ shared' = [shared EXCEPT ![k] = NoRequest]
  /\ UNCHANGED <<landed, published, version, address, own, floor, credit, balanceVars>>

OwnArrives(h) ==
  /\ \E r \in own[h] :
       /\ own' = [own EXCEPT ![h] = @ \ {r}]
       /\ IF r.cancelled THEN UNCHANGED <<awaits, shown>> ELSE Settle({h}, r.who, r)
  /\ UNCHANGED <<landed, published, version, address, shared, floor, credit, balanceVars>>

-----------------------------------------------------------------------------
(* The wallet balance of a deposit surface.                                *)
ChooseAsset ==
  /\ \E a \in Assets \ {asset} : asset' = a
  /\ StartQuery(address, nonce)
  /\ UNCHANGED <<landed, published, version, address, readVars, credit, nonce, lastAmount>>

(* A mint that Horizon has taken in, and one it will.                      *)
Credit(a) ==
  /\ credit[a] < MaxCredits /\ credit' = [credit EXCEPT ![a] = @ + 1]
  /\ UNCHANGED <<landed, published, version, address, readVars, balanceVars>>

Refresh ==
  /\ address # Nobody
  /\ nonce' = TRUE /\ StartQuery(address, TRUE)
  /\ UNCHANGED <<landed, published, version, address, readVars, credit, asset, lastAmount>>

Horizon ==
  /\ query.at = "asked"
  /\ query' = [query EXCEPT !.at = "answered", !.amount = credit[asset]]
  /\ UNCHANGED <<landed, published, version, address, readVars, credit, asset, nonce, balance, lastAmount>>

PaintBalance(amount) ==
  /\ balance' = [loading |-> FALSE, asset |-> asset, amount |-> amount]
  /\ lastAmount' = amount
  /\ query' = NoQuery

BalanceArrives ==
  /\ query.at = "answered"
  /\ IF query.left = 1 \/ query.amount # query.before
     THEN PaintBalance(query.amount)
     ELSE /\ query' = [query EXCEPT !.at = "asked", !.left = @ - 1]
          /\ UNCHANGED <<balance, lastAmount>>
  /\ UNCHANGED <<landed, published, version, address, readVars, credit, asset, nonce>>

(* Zero, never a fixture.                                                  *)
BalanceFails ==
  /\ query # NoQuery
  /\ PaintBalance(0)
  /\ UNCHANGED <<landed, published, version, address, readVars, credit, asset, nonce>>

Next ==
  \/ SwitchAccount \/ WriteLands \/ Bump \/ Publish \/ Restart \/ Serve
  \/ \E h \in Hooks : Tick(h)
  \/ \E k \in Keys : SharedArrives(k)
  \/ \E h \in Own : OwnArrives(h)
  \/ ChooseAsset \/ Refresh \/ Horizon \/ BalanceArrives \/ BalanceFails
  \/ \E a \in Assets : Credit(a)

Spec == Init /\ [][Next]_vars

-----------------------------------------------------------------------------
(* What a surface shows is about the account that is connected. Once its   *)
(* read has settled, what comes from /holdings is no older than the last   *)
(* write the app knows of (useHoldings.ts: "it must never be served a      *)
(* reply that is already in flight against the pre-write state"), and what *)
(* comes from the backend's events no older than what its poller had       *)
(* published when that account, write or tick made the hook read, unless   *)
(* it was restarted since. A balance that is not loading is that of the    *)
(* asset chosen.                                                           *)
AnswersFit ==
  /\ \A h \in Hooks : shown[h] # Blank =>
       /\ shown[h].who = address
       /\ h \notin awaits =>
            shown[h].served >= IF h \in Sharing THEN version ELSE floor[h]
  /\ address # Nobody /\ ~balance.loading => balance.asset = asset

=============================================================================
