---------------------------- MODULE WalletSession ----------------------------
(***************************************************************************)
(* The session of a browser with a wallet: WalletProvider.tsx over the     *)
(* wallet kit (wallet-real.ts), through reloads of the page, a change of    *)
(* account inside a wallet, and storage that is full.                      *)
(*                                                                         *)
(* The page reads three entries: the address, the wallet's name (shown     *)
(* only, and left out here) and the id by which the kit is started again.  *)
(* In the phone's own browser WalletConnect takes the place of the kit,    *)
(* with a session that its library keeps through reloads.                  *)
(***************************************************************************)
EXTENDS Naturals

CONSTANTS
  Users,           (* Accounts.                                             *)
  Wallets,         (* Wallet modules of the kit.                            *)
  FREIGHTER_ID,    (* The one the kit starts with when none is saved.       *)
  Nobody, NoClient

ConstantsOK ==
  /\ FREIGHTER_ID \in Wallets
  /\ Nobody \notin Users /\ NoClient \notin Users \cup {Nobody}
  /\ "loading" \notin Users \cup {Nobody}

VARIABLES
  account,         (* Per wallet: the account it answers with, or Nobody.   *)
  selected,        (* The kit's active module.                              *)
  saved,           (* Local storage: [key, id], Nobody where there is none. *)
  address,         (* "loading", then Nobody or an account.                 *)
  mobile,          (* isFreighterMobile, with a project id.                 *)
  mobileWc,        (* The WalletConnect client: NoClient, or the address it *)
                   (* has cached, Nobody if none.                           *)
  wcSession,       (* The account of WalletConnect's stored session.        *)
  doing,           (* The call under way: "nothing" or one of Calls.        *)
  entitled         (* Who last connected and has not logged out since. No   *)
                   (* variable of the page.                                 *)

wcVars == <<mobileWc, wcSession>>
vars == <<account, selected, saved, address, mobile, wcVars, doing, entitled>>

Calls == {"hydrating", "connecting", "leaving"}

None == [key |-> Nobody, id |-> Nobody]

Init ==
  /\ account \in [Wallets -> Users \cup {Nobody}]
  /\ selected = FREIGHTER_ID /\ saved = None
  /\ address = Nobody /\ doing = "nothing" /\ entitled = Nobody
  /\ mobile \in BOOLEAN /\ mobileWc = NoClient /\ wcSession = Nobody

-----------------------------------------------------------------------------
(* initialWalletId. On the phone the kit is never started.                 *)
StartKit(stored) == IF mobile \/ stored.id = Nobody THEN FREIGHTER_ID ELSE stored.id

(* getAddress. A client that is made anew caches what its session says.    *)
Live == IF mobile THEN wcSession ELSE account[selected]

(* The page is loaded again at any time. The restored address is verified  *)
(* with the wallet the kit starts with.                                    *)
Reload ==
  /\ selected' = StartKit(saved)
  /\ IF saved.key = Nobody
     THEN address' = Nobody /\ doing' = "nothing"
     ELSE address' = "loading" /\ doing' = "hydrating"
  /\ mobileWc' = NoClient
  /\ UNCHANGED <<account, saved, mobile, wcSession, entitled>>

(* The wallet answers with the saved account, or it does not (another, or  *)
(* it rejects): then what was saved is forgotten.                          *)
Hydrated ==
  /\ doing = "hydrating"
  /\ doing' = "nothing"
  /\ \/ /\ Live = saved.key
        /\ address' = saved.key /\ UNCHANGED saved
        /\ mobileWc' = IF mobile THEN Live ELSE NoClient
     \/ /\ address' = Nobody /\ saved' = None
        /\ mobileWc' \in {NoClient} \cup (IF mobile THEN {Live} \ {saved.key} ELSE {})
  /\ UNCHANGED <<account, selected, mobile, wcSession, entitled>>

(* The landing page offers it once no session was restored. authModal      *)
(* keeps the page until the user has picked a wallet or dismissed it; on   *)
(* the phone a client is made first, if there is none.                     *)
Connect ==
  /\ address = Nobody /\ doing = "nothing"
  /\ doing' = "connecting"
  /\ mobileWc' = IF mobile /\ mobileWc = NoClient THEN Nobody ELSE mobileWc
  /\ UNCHANGED <<account, selected, saved, address, mobile, wcSession, entitled>>

(* The address is in effect before the three entries are written; one      *)
(* that cannot be written keeps the ones after it from being written.      *)
Enters(u, id) ==
  /\ doing = "connecting" /\ doing' = "nothing"
  /\ address' = u /\ entitled' = u
  /\ saved' \in {saved, [saved EXCEPT !.key = u], [key |-> u, id |-> id]}
  /\ UNCHANGED <<account, mobile>>

Connected(w) ==
  /\ ~mobile /\ account[w] # Nobody
  /\ Enters(account[w], w)
  /\ selected' = w /\ UNCHANGED wcVars

(* The address is cached in the client that was asked, which is no longer  *)
(* the page's if a session_delete came meanwhile.                          *)
PhoneConnected(u) ==
  /\ mobile
  /\ Enters(u, "wallet_connect")
  /\ mobileWc' = IF mobileWc = NoClient THEN NoClient ELSE u
  /\ wcSession' = u
  /\ UNCHANGED selected

Dismissed ==
  /\ doing = "connecting"
  /\ doing' = "nothing"
  /\ UNCHANGED <<account, selected, saved, address, mobile, wcVars, entitled>>

-----------------------------------------------------------------------------
(* From the account surfaces, which AuthGate shows with a session only.    *)
Logout ==
  /\ address \in Users /\ doing = "nothing"
  /\ doing' = "leaving"
  /\ UNCHANGED <<account, selected, saved, address, mobile, wcVars, entitled>>

ForgottenIdOnly == [saved EXCEPT !.id = Nobody]

Forgotten == None

(* The wallet first; the kit starts afresh at its next use, with nothing   *)
(* saved. On the phone the session ends if the page still has its client.  *)
LoggedOut ==
  /\ doing = "leaving"
  /\ doing' = "nothing"
  /\ address' = Nobody /\ entitled' = Nobody
  /\ saved' = Forgotten
  /\ selected' = StartKit(saved')
  /\ wcSession' = IF mobileWc = NoClient THEN wcSession ELSE Nobody
  /\ mobileWc' = NoClient
  /\ UNCHANGED <<account, mobile>>

(* The wallet refuses: nothing is reset.                                   *)
LogoutFails ==
  /\ doing = "leaving"
  /\ mobile => mobileWc # NoClient /\ wcSession # Nobody
  /\ doing' = "nothing"
  /\ UNCHANGED <<account, selected, saved, address, mobile, wcVars, entitled>>

-----------------------------------------------------------------------------
(* In the wallet, behind the page's back: another account, or none.        *)
SwitchAccount(w) ==
  /\ ~mobile
  /\ \E u \in (Users \cup {Nobody}) \ {account[w]} : account' = [account EXCEPT ![w] = u]
  /\ UNCHANGED <<selected, saved, address, mobile, wcVars, doing, entitled>>

(* On the phone: the session gets another account, of which the page does  *)
(* not ask to hear, or ends, for which a client drops itself.              *)
SessionMoves ==
  /\ mobile /\ wcSession # Nobody
  /\ wcSession' \in Users \ {wcSession}
  /\ UNCHANGED <<account, selected, saved, address, mobile, mobileWc, doing, entitled>>

SessionDeleted ==
  /\ mobile /\ wcSession # Nobody
  /\ wcSession' = Nobody /\ mobileWc' = NoClient
  /\ UNCHANGED <<account, selected, saved, address, mobile, doing, entitled>>

Next ==
  \/ Reload \/ Hydrated \/ Connect \/ Dismissed
  \/ Logout \/ LoggedOut \/ LogoutFails
  \/ \E w \in Wallets : Connected(w) \/ SwitchAccount(w)
  \/ \E u \in Users : PhoneConnected(u)
  \/ SessionMoves \/ SessionDeleted

Spec == Init /\ [][Next]_vars

-----------------------------------------------------------------------------
(* A session is that of the account that connected last and has not logged *)
(* out: no reload restores one that was left, and none becomes that of     *)
(* another account the wallet has been switched to.                        *)
LogoutLasts == address \in Users => address = entitled

=============================================================================
