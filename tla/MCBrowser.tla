------------------------------ MODULE MCBrowser ------------------------------
(***************************************************************************)
(* The browser's side, side by side for TLC: the wallet session, the reads *)
(* of the surfaces, a deposit from a page, a withdrawal from a drawer, the *)
(* auto-compound switch, and the approval of an exit. What couples them is *)
(* the account, the version and the chain, which each part moves in every  *)
(* way they can move: `part` says which of them moves, and the others keep *)
(* still.                                                                  *)
(***************************************************************************)
EXTENDS Naturals, Sequences, FiniteSets, TLC

CONSTANTS
  Users, Nobody,        (* Accounts.                                        *)
  Amounts, SCALE, VirtualOffset, MaxNav, Runs, NoRun,    (* Transfers.      *)
  Wallets, FREIGHTER_ID, NoClient,                   (* The session.        *)
  Buckets, MaxExits,    (* Approvals, see ExitApproval.                     *)
  Sharing, Own, Assets, REFRESH_ATTEMPTS,            (* See LiveReads.      *)
  MaxWrites, MaxCredits,
  MaxInFlight           (* Requests of one hook under way.                  *)

VARIABLES
  part,
  shares, nav, consented, form, asking, busyRun, sheet, phase, current, runs,
  pref, address, state, known, reading, writing, late,
  account, selected, saved, session, mobile, mobileWc, wcSession, doing, entitled,
  active, frozen, pending, exits, view, exitRead, press, exitLate,
  landed, published, version, reader, shared, own, floor, awaits, shown,
  credit, asset, nonce, balance, lastAmount, query

transferVars == <<shares, nav, consented, form, asking, busyRun, sheet, phase, current, runs>>
prefVars == <<pref, address, state, known, reading, writing, late>>
sessionVars == <<account, selected, saved, session, mobile, mobileWc, wcSession, doing, entitled>>
exitVars == <<active, frozen, pending, exits, view, exitRead, press, exitLate>>
readVars == <<landed, published, version, reader, shared, own, floor, awaits, shown,
              credit, asset, nonce, balance, lastAmount, query>>
vars == <<part, transferVars, prefVars, sessionVars, exitVars, readVars>>

-----------------------------------------------------------------------------
TransferFaults == {"cancelled", "fails", "rejected", "lost"}
BothBuckets == <<"USD", "EUR">>

Page == INSTANCE Transfer
  WITH Surface <- "screen", Op <- "deposit", Faults <- TransferFaults

Drawer == INSTANCE Transfer
  WITH Surface <- "drawer", Op <- "withdraw", Faults <- TransferFaults

Switch == INSTANCE Preference
  WITH NoUser <- Nobody, Faults <- {"read", "lost"}

Session == INSTANCE WalletSession WITH address <- session

Exit == INSTANCE ExitApproval
  WITH Faults <- {"throws", "lost"}, reading <- exitRead, late <- exitLate

Reads == INSTANCE LiveReads WITH address <- reader

ReadsParts == {"holdings", "events", "balance"}

ASSUME BrowserAssumption ==
  /\ Page!ConstantsOK /\ Drawer!ConstantsOK /\ Switch!ConstantsOK
  /\ Session!ConstantsOK /\ Exit!ConstantsOK /\ Reads!ConstantsOK

-----------------------------------------------------------------------------
(* A part that does not move has one initial state.                        *)
Init ==
  /\ part \in {"page", "drawer", "switch", "session", "exit"} \cup ReadsParts
  /\ IF part = "drawer" THEN Drawer!Init ELSE Page!Init
  /\ Switch!Init /\ Session!Init /\ Exit!Init /\ Reads!Init
  /\ part # "switch" => pref = [u \in Users |-> TRUE]
  /\ part # "session" => ~mobile
  /\ part # "session" \/ mobile => account = [w \in Wallets |-> Nobody]
  /\ part # "balance" => asset = CHOOSE a \in Assets : TRUE

(* The readers of /holdings, those of the events, and the balance, which   *)
(* share the account and the version only. Nothing answers the ones that   *)
(* keep still, but their requests may fail.                                *)
HoldingsAreStill == \A k \in Reads!Keys : shared'[k].at # "answered"

EventsAreStill ==
  /\ published' = 0
  /\ \A h \in Own : \A r \in own'[h] : r.at = "asked" /\ ~r.cancelled

BalanceIsStill ==
  /\ credit' = credit /\ asset' = asset /\ nonce' = nonce
  /\ query'.at # "answered"
  /\ reader' # Nobody => balance'.loading

ReadsBounds ==
  /\ part # "holdings" => HoldingsAreStill
  /\ part # "events" => EventsAreStill
  /\ part # "balance" => BalanceIsStill
  /\ part = "balance" => landed' = landed
  /\ \A h \in Own : Cardinality(own'[h]) <= MaxInFlight

Next ==
  \/ /\ part = "page" /\ Page!Next /\ nav' <= MaxNav
     /\ UNCHANGED <<part, prefVars, sessionVars, exitVars, readVars>>
  \/ /\ part = "drawer" /\ Drawer!Next /\ nav' <= MaxNav
     /\ UNCHANGED <<part, prefVars, sessionVars, exitVars, readVars>>
  \/ /\ part = "switch" /\ Switch!Next
     /\ UNCHANGED <<part, transferVars, sessionVars, exitVars, readVars>>
  \/ /\ part = "session" /\ Session!Next
     /\ UNCHANGED <<part, transferVars, prefVars, exitVars, readVars>>
  \/ /\ part = "exit" /\ Exit!Next
     /\ UNCHANGED <<part, transferVars, prefVars, sessionVars, readVars>>
  \/ /\ part \in ReadsParts /\ Reads!Next /\ ReadsBounds
     /\ UNCHANGED <<part, transferVars, prefVars, sessionVars, exitVars>>

(* The network answers, and so does the user when his wallet asks.         *)
RunStep(r) ==
  /\ \/ part = "page" /\ Page!RunStep(r)
     \/ part = "drawer" /\ Drawer!RunStep(r)
  /\ nav' <= MaxNav
  /\ UNCHANGED <<part, prefVars, sessionVars, exitVars, readVars>>

Spec == Init /\ [][Next]_vars /\ \A r \in Runs : WF_vars(RunStep(r))

-----------------------------------------------------------------------------
(* The success screen of a deposit stands for a transaction in the ledger. *)
SuccessMeansLanded == part = "page" => Page!SuccessMeansLanded

(* The sending screen, of a deposit or a withdrawal, is left again.        *)
SendingEnds == Page!SendingEnds

(* The switch does not snap back from what the chain confirmed.            *)
ConfirmedStays == Switch!ConfirmedStays

(* A session is the last one connected, until it is left.                  *)
LogoutLasts == Session!LogoutLasts

(* An approval moves what the user was shown, or nothing.                  *)
ApprovalMovesWhatWasShown == Exit!ApprovalMovesWhatWasShown

(* What is shown is about the connected account, and no older than the     *)
(* last write, or than what the poller had published when it was asked for.*)
AnswersFit == part \in ReadsParts => Reads!AnswersFit
=============================================================================
