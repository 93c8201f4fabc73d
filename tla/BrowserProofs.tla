---------------------------- MODULE BrowserProofs ----------------------------
(***************************************************************************)
(* The browser, for any accounts, wallets, buckets, hooks and bounds: each *)
(* part on its own, as its module specifies it and without the bounds that *)
(* MCBrowser sets it for TLC.                                              *)
(***************************************************************************)
EXTENDS MCBrowser, SequenceTheorems, TLAPS

-----------------------------------------------------------------------------
(* The session.                                                            *)

(* What is saved is the account entitled, and nothing is saved while the   *)
(* page, its restoration over, has no session.                             *)
SessionInv ==
  /\ account \in [Wallets -> Users \cup {Nobody}]
  /\ saved \in [key : Users \cup {Nobody},
               id : Wallets \cup {"wallet_connect", Nobody}]
  /\ saved.key \in {Nobody, entitled}
  /\ session = Nobody => saved.key = Nobody
  /\ doing = "hydrating" => saved.key # Nobody
  /\ doing = "connecting" => session = Nobody
  /\ session \in Users => session = entitled

LEMMA SessionInit ==
  ASSUME Session!ConstantsOK, Session!Init
  PROVE SessionInv
  BY DEF Session!ConstantsOK, Session!Init, Session!None, SessionInv

LEMMA SessionStep ==
  ASSUME Session!ConstantsOK, SessionInv, Session!Next
  PROVE SessionInv'
<1> USE DEF Session!ConstantsOK, SessionInv, Session!None
<1>1. CASE Session!Reload
  BY <1>1 DEF Session!Reload
<1>2. CASE Session!Hydrated
  <2>1. /\ doing = "hydrating" /\ doing' = "nothing" /\ entitled' = entitled
        /\ account' = account
        /\ \/ session' = saved.key /\ saved' = saved
           \/ session' = Nobody /\ saved' = Session!None
    BY <1>2 DEF Session!Hydrated
  <2> QED
    BY <2>1
<1>3. CASE Session!Connect \/ Session!Dismissed
  BY <1>3 DEF Session!Connect, Session!Dismissed
<1>4. ASSUME NEW u \in Users, NEW id \in Wallets \cup {"wallet_connect"},
             Session!Enters(u, id)
      PROVE SessionInv'
  <2>1. /\ doing = "connecting" /\ doing' = "nothing"
        /\ session' = u /\ entitled' = u
        /\ saved' \in {saved, [saved EXCEPT !.key = u], [key |-> u, id |-> id]}
        /\ account' = account
    BY <1>4 DEF Session!Enters
  <2>2. saved.key = Nobody
    BY <2>1
  <2>3. saved' \in {saved, [key |-> u, id |-> saved.id], [key |-> u, id |-> id]}
    BY <2>1
  <2> QED
    BY <2>1, <2>2, <2>3 DEF Session!Enters
<1>5. ASSUME NEW w \in Wallets, Session!Connected(w)
      PROVE SessionInv'
  BY <1>4, <1>5 DEF Session!Connected
<1>10. ASSUME NEW u \in Users, Session!PhoneConnected(u)
       PROVE SessionInv'
  BY <1>4, <1>10 DEF Session!PhoneConnected
<1>6. CASE Session!Logout \/ Session!LogoutFails
  BY <1>6 DEF Session!Logout, Session!LogoutFails
<1>7. CASE Session!LoggedOut
  BY <1>7 DEF Session!LoggedOut, Session!Forgotten
<1>8. ASSUME NEW w \in Wallets, Session!SwitchAccount(w)
      PROVE SessionInv'
  BY <1>8 DEF Session!SwitchAccount
<1>9. CASE Session!SessionMoves \/ Session!SessionDeleted
  BY <1>9 DEF Session!SessionMoves, Session!SessionDeleted
<1> QED
  BY <1>1, <1>2, <1>3, <1>4, <1>5, <1>6, <1>7, <1>8, <1>9, <1>10 DEF Session!Next

(* No reload restores a session that was left, or gives the page to an     *)
(* account the wallet was switched to.                                     *)
THEOREM LogoutTheorem ==
  Session!Spec => []LogoutLasts
<1>1. Session!ConstantsOK
  BY BrowserAssumption
<1>2. Session!Init => SessionInv
  BY <1>1, SessionInit
<1>3. SessionInv /\ [Session!Next]_(Session!vars) => SessionInv'
  <2> SUFFICES ASSUME SessionInv, [Session!Next]_(Session!vars) PROVE SessionInv'
    OBVIOUS
  <2>1. CASE Session!Next
    BY <1>1, <2>1, SessionStep
  <2>2. CASE UNCHANGED Session!vars
    BY <2>2 DEF Session!vars, Session!wcVars, SessionInv
  <2> QED
    BY <2>1, <2>2
<1>4. SessionInv => LogoutLasts
  BY DEF SessionInv, LogoutLasts, Session!LogoutLasts
<1> QED
  BY <1>2, <1>3, <1>4, PTL DEF Session!Spec

-----------------------------------------------------------------------------
(* The approval of an exit.                                                *)

ProposalType == [id : Nat, to : BOOLEAN]

(* What the browser once read of a currency: a proposal whose id was given *)
(* out, which pends as it was read, or not at all.                         *)
ReadOf(c, proposal) ==
  /\ proposal.id \in 0 .. exits
  /\ proposal.id = 0 => proposal = Exit!NoExit
  /\ \A d \in Exit!Currencies :
       proposal.id # 0 /\ pending[d].id = proposal.id => c = d /\ pending[d] = proposal

ReadInv ==
  /\ exitRead \in [bucket : Nat, stage : {"status", "proposal", "amount", "done"},
                  proposal : ProposalType]
  /\ exitRead.stage # "done" => exitRead.bucket \in DOMAIN Buckets
  /\ exitRead.stage = "amount" => ReadOf(Buckets[exitRead.bucket], exitRead.proposal)

ExitInv ==
  /\ active \in [Exit!Currencies -> BOOLEAN]
  /\ pending \in [Exit!Currencies -> ProposalType] /\ exits \in Nat
  /\ \A c \in Exit!Currencies : ReadOf(c, pending[c])
  /\ ReadInv
  /\ \A p \in {view, press, exitLate} : ReadOf(p.currency, p.proposal)
  /\ \A p \in {press, exitLate} : p # Exit!NoView => p.proposal.id # 0

LEMMA ExitInit ==
  ASSUME Exit!ConstantsOK, Exit!Init
  PROVE ExitInv
<1>1. Buckets \in Seq(STRING) /\ Len(Buckets) \in Nat \ {0} /\ 1 \in DOMAIN Buckets
  BY DEF Exit!ConstantsOK
<1>2. Exit!NoExit \in ProposalType
  BY DEF Exit!NoExit, ProposalType
<1>3. ReadOf("none", Exit!NoExit) /\ \A c \in Exit!Currencies : ReadOf(c, pending[c])
  BY DEF Exit!Init, ReadOf, Exit!NoExit
<1> QED
  BY <1>1, <1>2, <1>3 DEF Exit!Init, ExitInv, ReadInv, Exit!NoView, Exit!Move, Exit!NoExit,
     Exit!StartedRead

(* What was once read stays so: proposals are only withdrawn, or given new *)
(* ids.                                                                    *)
LEMMA ReadsStay ==
  ASSUME ExitInv,
         NEW c \in Exit!Currencies,
         \/ pending' = [pending EXCEPT ![c] = Exit!NoExit] /\ UNCHANGED exits
         \/ /\ exits' = exits + 1
            /\ \E to \in BOOLEAN : pending' = [pending EXCEPT ![c] = [id |-> exits', to |-> to]]
  PROVE /\ exits' \in Nat /\ pending' \in [Exit!Currencies -> ProposalType]
        /\ \A d, p : ReadOf(d, p) => ReadOf(d, p)'
        /\ \A d \in Exit!Currencies : ReadOf(d, pending[d])'
<1>1. exits \in Nat /\ pending \in [Exit!Currencies -> ProposalType]
  BY DEF ExitInv
<1>2. Exit!Currencies' = Exit!Currencies /\ Exit!NoExit' = Exit!NoExit
  BY DEF Exit!Currencies, Exit!NoExit
<1>3. Exit!NoExit \in ProposalType /\ Exit!NoExit.id = 0
  BY DEF Exit!NoExit, ProposalType
<1>5. CASE pending' = [pending EXCEPT ![c] = Exit!NoExit] /\ UNCHANGED exits
  <2>1. pending' \in [Exit!Currencies -> ProposalType]
    BY <1>1, <1>3, <1>5
  <2>2. \A d \in Exit!Currencies :
          pending'[d] = IF d = c THEN Exit!NoExit ELSE pending[d]
    BY <1>1, <1>5
  <2> QED
    BY <1>1, <1>2, <1>3, <1>5, <2>1, <2>2 DEF ReadOf, ExitInv
<1>6. ASSUME NEW to \in BOOLEAN, exits' = exits + 1,
             pending' = [pending EXCEPT ![c] = [id |-> exits', to |-> to]]
      PROVE /\ exits' \in Nat /\ pending' \in [Exit!Currencies -> ProposalType]
            /\ \A d, p : ReadOf(d, p) => ReadOf(d, p)'
            /\ \A d \in Exit!Currencies : ReadOf(d, pending[d])'
  <2>1. exits' \in Nat /\ pending' \in [Exit!Currencies -> ProposalType]
    BY <1>1, <1>6 DEF ProposalType
  <2>2. \A d \in Exit!Currencies :
          /\ d # c => pending'[d] = pending[d]
          /\ d = c => pending'[d].id = exits + 1
    BY <1>1, <1>6
  <2>3. ASSUME NEW d, NEW p, ReadOf(d, p)
        PROVE ReadOf(d, p)'
    BY <1>1, <1>2, <1>6, <2>2, <2>3 DEF ReadOf
  <2>4. ASSUME NEW d \in Exit!Currencies
        PROVE ReadOf(d, pending[d])'
    <3>1. CASE d # c
      BY <1>1, <1>2, <1>6, <2>2, <3>1 DEF ReadOf, ExitInv
    <3>2. CASE d = c
      <4>1. \A e \in Exit!Currencies : pending[e].id <= exits
        BY <1>1 DEF ReadOf, ExitInv
      <4> QED
        BY <1>1, <1>2, <1>6, <2>1, <2>2, <3>2, <4>1 DEF ReadOf, ProposalType
    <3> QED
      BY <3>1, <3>2
  <2> QED
    BY <2>1, <2>3, <2>4
<1> QED
  BY <1>5, <1>6

(* An approval that lands executes the proposal that was shown.            *)
LEMMA LandsAsShown ==
  ASSUME ExitInv,
         NEW p, ReadOf(p.currency, p.proposal), Exit!Lands(p)
  PROVE /\ p.currency \in Exit!Currencies
        /\ pending[p.currency] = p.proposal
        /\ active' = [active EXCEPT ![p.currency] = p.proposal.to]
        /\ pending' = [pending EXCEPT ![p.currency] = Exit!NoExit]
        /\ exits' = exits
<1>1. PICK c \in Exit!Currencies :
        pending[c] # Exit!NoExit /\ pending[c].id = p.proposal.id /\ Exit!Execute(c)
  BY DEF Exit!Lands, Exit!Found
<1>2. p.proposal.id # 0
  BY <1>1 DEF ExitInv, ReadOf
<1>3. p.currency = c /\ pending[c] = p.proposal
  BY <1>1, <1>2 DEF ReadOf
<1> QED
  BY <1>1, <1>3 DEF Exit!Execute

LEMMA ExitStep ==
  ASSUME Exit!ConstantsOK, ExitInv, Exit!Next
  PROVE ExitInv'
<1> DEFINE Chain == /\ active' \in [Exit!Currencies -> BOOLEAN]
                    /\ exits' \in Nat /\ pending' \in [Exit!Currencies -> ProposalType]
                    /\ \A d, p : ReadOf(d, p) => ReadOf(d, p)'
                    /\ \A d \in Exit!Currencies : ReadOf(d, pending[d])'
                    /\ Exit!NoView' = Exit!NoView /\ Exit!NoExit' = Exit!NoExit
                    /\ Exit!Currencies' = Exit!Currencies
<1>0. /\ Exit!NoView' = Exit!NoView /\ Exit!NoExit' = Exit!NoExit
      /\ Exit!Currencies' = Exit!Currencies
  BY DEF Exit!NoView, Exit!NoExit, Exit!Move, Exit!Currencies
<1>1. UNCHANGED <<active, pending, exits>> => Chain
  BY <1>0 DEF ExitInv, ReadOf
<1>2. ASSUME NEW c \in Exit!Currencies, Exit!Execute(c)
      PROVE Chain
  BY <1>0, <1>2, ReadsStay DEF Exit!Execute, ExitInv, ProposalType
<1>3. ASSUME NEW p, Exit!Lands(p)
      PROVE Chain
  <2> HIDE DEF Chain
  <2> QED
    BY <1>2, <1>3 DEF Exit!Lands, Exit!Found
<1>5. 1 \in DOMAIN Buckets /\ \A i \in DOMAIN Buckets : Buckets[i] \in Exit!Currencies
  BY DEF Exit!Currencies, Exit!ConstantsOK
<1>6. ReadOf("none", Exit!NoExit)
  BY DEF ExitInv, ReadOf, Exit!NoExit
<1>7. ASSUME Chain, ReadInv',
             \A p \in {view', press', exitLate'} : ReadOf(p.currency, p.proposal),
             \A p \in {press', exitLate'} : p # Exit!NoView => p.proposal.id # 0
      PROVE ExitInv'
  BY <1>7 DEF ExitInv
<1>8. Chain /\ exitRead' = exitRead => ReadInv'
  BY DEF ExitInv, ReadInv
<1>9. CASE Chain /\ UNCHANGED <<view, exitRead, press, exitLate>>
  BY <1>7, <1>8, <1>9 DEF ExitInv
<1>10. ASSUME NEW c \in Exit!Currencies, NEW to \in BOOLEAN, Exit!ProposeExit(c, to)
      PROVE ExitInv'
  BY <1>0, <1>9, <1>10, ReadsStay DEF Exit!ProposeExit, ExitInv
<1>11. CASE Exit!KeeperActs
  BY <1>1, <1>9, <1>10, <1>11 DEF Exit!KeeperActs, Exit!Freeze, Exit!Unfreeze
<1>12. ASSUME NEW c \in Exit!Currencies, Exit!OthersApprove(c)
       PROVE ExitInv'
  BY <1>2, <1>9, <1>12 DEF Exit!OthersApprove
<1>13. ASSUME exitRead' \in {Exit!StartedRead, Exit!NoRead}
       PROVE ReadInv'
  <2>1. Exit!NoExit \in ProposalType
    BY DEF Exit!NoExit, ProposalType
  <2>2. /\ exitRead'.bucket \in {0, 1} /\ exitRead'.stage \in {"status", "done"}
        /\ exitRead'.proposal \in ProposalType
        /\ exitRead'.stage # "done" => exitRead'.bucket = 1
        /\ exitRead' \in [bucket : Nat, stage : {"status", "proposal", "amount", "done"},
                         proposal : ProposalType]
    BY <1>13, <2>1 DEF Exit!StartedRead, Exit!NoRead
  <2> QED
    BY <1>5, <2>2 DEF ReadInv
<1>14. UNCHANGED Exit!chainVars => Chain
  BY <1>1 DEF Exit!chainVars
<1>15. CASE Exit!Mount \/ Exit!Bump
  <2>1. Chain /\ ReadInv'
    <3> HIDE DEF Chain
    <3> QED
      BY <1>13, <1>14, <1>15 DEF Exit!Mount, Exit!Bump
  <2>2. /\ view' \in {view, Exit!NoView} /\ press' \in {press, Exit!NoView}
        /\ exitLate' \in {press, exitLate}
    BY <1>15 DEF Exit!Mount, Exit!Bump
  <2>3. ReadOf(Exit!NoView.currency, Exit!NoView.proposal)
    BY <1>6 DEF Exit!NoView, Exit!Move
  <2> HIDE DEF Chain
  <2> QED
    BY <1>7, <2>1, <2>2, <2>3 DEF ExitInv
<1>16. ReadOf(Exit!NoView.currency, Exit!NoView.proposal)
  BY <1>6 DEF Exit!NoView, Exit!Move
<1>17. CASE Exit!ReadStatus
  <2>1. Chain
    BY <1>14, <1>17 DEF Exit!ReadStatus
  <2>2. /\ exitRead.stage = "status"
        /\ \/ exitRead' = [exitRead EXCEPT !.stage = "proposal"]
           \/ /\ exitRead.bucket < Len(Buckets)
              /\ exitRead' = [exitRead EXCEPT !.bucket = @ + 1]
           \/ exitRead' = Exit!NoRead
        /\ view' \in {view, Exit!NoView} /\ press' = press /\ exitLate' = exitLate
    BY <1>17 DEF Exit!ReadStatus
  <2>3. ReadInv'
    <3>1. exitRead.bucket \in 1 .. Len(Buckets) /\ Len(Buckets) \in Nat
          /\ DOMAIN Buckets = 1 .. Len(Buckets)
      BY <2>2 DEF ExitInv, ReadInv, Exit!ConstantsOK
    <3> QED
      BY <1>13, <2>2, <3>1 DEF ExitInv, ReadInv
  <2> HIDE DEF Chain
  <2> QED
    BY <1>7, <1>16, <2>1, <2>2, <2>3 DEF ExitInv
<1>18. CASE Exit!ReadProposal
  <2>1. Chain /\ UNCHANGED <<view, press, exitLate>>
    BY <1>14, <1>18 DEF Exit!ReadProposal
  <2>2. /\ exitRead.stage = "proposal"
        /\ exitRead' = [exitRead EXCEPT !.stage = "amount",
                                       !.proposal = pending[Buckets[exitRead.bucket]]]
    BY <1>18 DEF Exit!ReadProposal, Exit!Bucket
  <2>3. Buckets[exitRead.bucket] \in Exit!Currencies
    BY <1>5, <2>2 DEF ExitInv, ReadInv
  <2>4. ReadOf(Buckets[exitRead.bucket], pending[Buckets[exitRead.bucket]])'
    BY <2>1, <2>2, <2>3 DEF ExitInv
  <2>5. ReadInv'
    <3>1. pending' = pending /\ pending[Buckets[exitRead.bucket]] \in ProposalType
      BY <1>18, <2>3 DEF Exit!ReadProposal, Exit!chainVars, ExitInv
    <3>2. /\ exitRead'.bucket = exitRead.bucket
          /\ exitRead'.proposal = pending[Buckets[exitRead.bucket]]
          /\ exitRead' \in [bucket : Nat, stage : {"status", "proposal", "amount", "done"},
                           proposal : ProposalType]
      BY <2>2, <3>1 DEF ExitInv, ReadInv
    <3> QED
      BY <2>2, <2>4, <3>1, <3>2 DEF ExitInv, ReadInv
  <2> HIDE DEF Chain
  <2> QED
    BY <1>7, <2>1, <2>5 DEF ExitInv
<1>19. CASE Exit!ReadEnds
  <2>1. Chain /\ UNCHANGED <<press, exitLate>> /\ ReadInv'
    BY <1>13, <1>14, <1>19 DEF Exit!ReadEnds
  <2>2. ReadOf(view'.currency, view'.proposal)
    BY <1>19 DEF Exit!ReadEnds, Exit!Move, Exit!Bucket, ExitInv, ReadInv
  <2> HIDE DEF Chain
  <2> QED
    BY <1>7, <2>1, <2>2 DEF ExitInv
<1>20. CASE Exit!ReadThrows
  <2>1. Chain /\ UNCHANGED <<view, press, exitLate>> /\ ReadInv'
    BY <1>13, <1>14, <1>20 DEF Exit!ReadThrows
  <2> HIDE DEF Chain
  <2> QED
    BY <1>7, <2>1 DEF ExitInv
<1>21. CASE Exit!Approve
  <2>1. Chain /\ UNCHANGED <<view, exitLate>> /\ ReadInv'
    BY <1>8, <1>14, <1>21 DEF Exit!Approve
  <2>2. press' = view /\ view.proposal.id # 0
    BY <1>21 DEF Exit!Approve, ExitInv, ReadOf
  <2> HIDE DEF Chain
  <2> QED
    BY <1>7, <2>1, <2>2 DEF ExitInv
<1>22. CASE Exit!ApprovalLands
  <2>1. Chain /\ UNCHANGED <<view, exitLate>> /\ press' = Exit!NoView /\ ReadInv'
    BY <1>3, <1>13, <1>22 DEF Exit!ApprovalLands
  <2> HIDE DEF Chain
  <2> QED
    BY <1>7, <1>16, <2>1 DEF ExitInv
<1>23. CASE Exit!ApprovalFails \/ Exit!AnswerLost
  <2>1. Chain /\ UNCHANGED view /\ press' = Exit!NoView /\ exitLate' \in {press, exitLate}
        /\ ReadInv'
    BY <1>8, <1>14, <1>23 DEF Exit!ApprovalFails, Exit!AnswerLost
  <2> HIDE DEF Chain
  <2> QED
    BY <1>7, <1>16, <2>1 DEF ExitInv
<1>24. CASE Exit!LandsLate
  <2>1. Chain /\ UNCHANGED <<view, press>> /\ exitLate' = Exit!NoView /\ ReadInv'
    BY <1>3, <1>8, <1>14, <1>24 DEF Exit!LandsLate
  <2> HIDE DEF Chain
  <2> QED
    BY <1>7, <1>16, <2>1 DEF ExitInv
<1> QED
  BY <1>11, <1>12, <1>15, <1>17, <1>18, <1>19, <1>20, <1>21, <1>22, <1>23, <1>24
     DEF Exit!Next, Exit!Read

(* An approval moves the bucket the user was shown to the pool he was      *)
(* shown, or nothing.                                                      *)
THEOREM ApprovalTheorem ==
  Exit!Spec => ApprovalMovesWhatWasShown
<1>1. Exit!ConstantsOK
  BY BrowserAssumption
<1>2. Exit!Init => ExitInv
  BY <1>1, ExitInit
<1>3. ExitInv /\ [Exit!Next]_(Exit!vars) => ExitInv'
  <2> SUFFICES ASSUME ExitInv, [Exit!Next]_(Exit!vars) PROVE ExitInv'
    OBVIOUS
  <2>1. CASE Exit!Next
    BY <1>1, <2>1, ExitStep
  <2>2. CASE UNCHANGED Exit!vars
    BY <2>2 DEF Exit!vars, Exit!chainVars, ExitInv, ReadInv, ReadOf, Exit!Currencies,
       Exit!NoExit, Exit!NoView, Exit!Move
  <2> QED
    BY <2>1, <2>2
<1>4. ExitInv /\ [Exit!Next]_(Exit!vars)
        => [\A p \in {press, exitLate} :
             p # Exit!NoView /\ p \notin {press', exitLate'} /\ pending' # pending =>
               /\ pending[p.currency] = p.proposal
               /\ active' = [active EXCEPT ![p.currency] = p.proposal.to]]_(Exit!vars)
  <2> SUFFICES ASSUME ExitInv, Exit!Next,
                      NEW p \in {press, exitLate},
                      p # Exit!NoView, p \notin {press', exitLate'}, pending' # pending
               PROVE  /\ pending[p.currency] = p.proposal
                      /\ active' = [active EXCEPT ![p.currency] = p.proposal.to]
    OBVIOUS
  <2>1. Exit!Lands(p)
    BY DEF Exit!Next, Exit!KeeperActs, Exit!Freeze, Exit!Unfreeze, Exit!ProposeExit,
       Exit!OthersApprove, Exit!Mount, Exit!Bump, Exit!Read, Exit!ReadStatus,
       Exit!ReadProposal, Exit!ReadEnds, Exit!ReadThrows, Exit!Approve,
       Exit!ApprovalLands, Exit!ApprovalFails, Exit!AnswerLost, Exit!LandsLate,
       Exit!chainVars
  <2> QED
    BY <2>1, LandsAsShown DEF ExitInv
<1> QED
  BY <1>2, <1>3, <1>4, PTL DEF Exit!Spec, ApprovalMovesWhatWasShown,
     Exit!ApprovalMovesWhatWasShown

-----------------------------------------------------------------------------
(* The reads of the surfaces, and the balance.                             *)

RequestType == [at : {"none", "asked", "answered"}, served : Nat]

OwnRequestType == [who : Users, cancelled : BOOLEAN, at : {"asked", "answered"}, served : Nat]

(* The requests: a shared one is as fresh as its key, and one of a hook's  *)
(* own that is not cancelled is about the account connected, and as fresh  *)
(* as what was published when it was made.                                 *)
RequestsInv ==
  /\ landed \in Nat /\ version \in 0 .. landed /\ landed <= MaxWrites
  /\ published \in 0 .. landed
  /\ reader \in Users \cup {Nobody}
  /\ shared \in [Reads!Keys -> RequestType]
  /\ \A k \in Reads!Keys :
       /\ shared[k] # Reads!NoRequest => k[2] <= landed
       /\ shared[k].at = "answered" => shared[k].served >= k[2]
  /\ own \in [Own -> SUBSET OwnRequestType]
  /\ floor \in [Own -> 0 .. published]
  /\ \A h \in Own : \A r \in own[h] :
       ~r.cancelled => /\ r.who = reader
                       /\ r.at = "answered" => r.served >= floor[h]

(* What is painted, of which nothing is left when nobody is connected.     *)
PaintedInv ==
  /\ awaits \subseteq Reads!Hooks
  /\ DOMAIN shown = Reads!Hooks
  /\ reader = Nobody => awaits = {} /\ \A h \in Reads!Hooks : shown[h] = Reads!Blank
  /\ \A h \in Reads!Hooks :
       shown[h] # Reads!Blank =>
         /\ shown[h].who = reader /\ shown[h].served \in Nat
         /\ h \notin awaits =>
              shown[h].served >= IF h \in Sharing THEN version ELSE floor[h]

(* The balance painted is that of the asset chosen, or is being read.      *)
BalanceInv ==
  /\ asset \in Assets /\ credit \in [Assets -> Nat] /\ lastAmount \in Nat
  /\ balance \in [loading : BOOLEAN, asset : Assets, amount : Nat]
  /\ query \in [at : {"asked", "answered", "done"}, before : Nat, left : Int, amount : Nat]
  /\ reader # Nobody => (balance.loading = TRUE \/ balance.asset = asset)

LEMMA RequestsTyped ==
  /\ Reads!NoRequest \in RequestType /\ Reads!Asked \in RequestType
  /\ Reads!NoRequest.at = "none" /\ Reads!Asked.at = "asked"
  /\ \A n \in Nat : /\ Reads!Request("answered", n) \in RequestType
                   /\ Reads!Request("answered", n).at = "answered"
                   /\ Reads!Request("answered", n).served = n
  BY DEF Reads!NoRequest, Reads!Asked, Reads!Request, RequestType

(* The effects: all of them run after a change of account or a bump, and   *)
(* one alone only for the same account and version.                        *)
LEMMA EffectsKeep ==
  ASSUME Reads!ConstantsOK, RequestsInv, PaintedInv,
         NEW hs \in SUBSET Reads!Hooks, NEW who \in Users \cup {Nobody}, NEW v \in 0 .. landed,
         Reads!StartReads(hs, who, v),
         landed' = landed, published' = published, reader' = who, version' = v,
         who = reader \/ (hs = Reads!Hooks /\ (who = Nobody \/ reader = Nobody)),
         v = version \/ (hs = Reads!Hooks /\ who = reader /\ who # Nobody),
         v >= version
  PROVE  RequestsInv' /\ PaintedInv'
<1> DEFINE asks == IF who = Nobody THEN {} ELSE {Reads!OwnRequest(who)}
           cancelled(h) == {[r EXCEPT !.cancelled = TRUE] : r \in own[h]}
<1>1. /\ own' = [h \in Own |-> IF h \notin hs THEN own[h] ELSE cancelled(h) \cup asks]
      /\ floor' = [h \in Own |-> IF h \in hs THEN published ELSE floor[h]]
  BY DEF Reads!StartReads, Reads!Cancelled
<1>2. floor' \in [Own -> 0 .. published']
  BY <1>1 DEF RequestsInv
<1>3. \A r \in asks : r \in OwnRequestType /\ r.who = who /\ r.at = "asked"
  <2>1. CASE who = Nobody
    BY <2>1
  <2>2. CASE who # Nobody
    <3>1. LET r == Reads!OwnRequest(who)
          IN  r \in OwnRequestType /\ r.who = who /\ r.at = "asked"
      BY <2>2 DEF Reads!OwnRequest, OwnRequestType
    <3>2. asks = {Reads!OwnRequest(who)}
      BY <2>2
    <3> QED
      BY <3>1, <3>2
  <2> QED
    BY <2>1, <2>2
<1>4. \A h \in Own : \A r \in cancelled(h) : r \in OwnRequestType /\ r.cancelled
  <2> SUFFICES ASSUME NEW h \in Own, NEW q \in own[h]
               PROVE  LET r == [q EXCEPT !.cancelled = TRUE]
                      IN  r \in OwnRequestType /\ r.cancelled
    OBVIOUS
  <2>1. q \in OwnRequestType
    BY DEF RequestsInv
  <2> QED
    BY <2>1 DEF OwnRequestType
<1>5. \A h \in Own : \A r \in own'[h] :
        /\ r \in OwnRequestType
        /\ ~r.cancelled => r.who = who /\ (r.at = "answered" => r.served >= floor'[h])
  <2> SUFFICES ASSUME NEW h \in Own, NEW r \in own'[h]
               PROVE  /\ r \in OwnRequestType
                      /\ ~r.cancelled => r.who = who /\ (r.at = "answered" => r.served >= floor'[h])
    OBVIOUS
  <2>1. CASE h \in hs
    <3>1. r \in cancelled(h) \cup asks
      BY <1>1, <2>1
    <3> HIDE DEF asks, cancelled
    <3> QED
      BY <1>3, <1>4, <3>1
  <2>2. CASE h \notin hs
    <3>1. who = reader
      BY <2>2 DEF Reads!Hooks
    <3>2. r \in own[h] /\ floor'[h] = floor[h]
      BY <1>1, <2>2
    <3> QED
      BY <3>1, <3>2 DEF RequestsInv
  <2> QED
    BY <2>1, <2>2
<1>6. own' \in [Own -> SUBSET OwnRequestType]
  <2>1. DOMAIN own' = Own /\ own' = [h \in Own |-> own'[h]]
    BY <1>1
  <2> QED
    BY <1>5, <2>1
<1>7. CASE who = Nobody
  <2>1. /\ awaits' = awaits \ hs /\ shared' = shared
        /\ shown' = [h \in Reads!Hooks |-> IF h \in hs THEN Reads!Blank ELSE shown[h]]
    BY <1>7 DEF Reads!StartReads
  <2>2. v = version
    BY <1>7
  <2>3. RequestsInv'
    BY <1>2, <1>5, <1>6, <2>1, <2>2 DEF RequestsInv
  <2>4. PaintedInv'
    BY <1>1, <1>7, <2>1, <2>2 DEF PaintedInv
  <2> QED
    BY <2>3, <2>4
<1>8. CASE who # Nobody
  <2>1. /\ awaits' = awaits \cup hs /\ shown' = shown
        /\ \/ shared' = shared
           \/ shared' = [shared EXCEPT ![<<who, v>>] = Reads!Asked]
    BY <1>8 DEF Reads!StartReads, Reads!Key
  <2>2. RequestsInv'
    <3>1. shared' \in [Reads!Keys -> RequestType]
          /\ \A k \in Reads!Keys :
               /\ shared'[k] # Reads!NoRequest => k[2] <= landed
               /\ shared'[k].at = "answered" => shared'[k].served >= k[2]
      BY <2>1, RequestsTyped DEF RequestsInv
    <3> QED
      BY <1>2, <1>5, <1>6, <3>1 DEF RequestsInv, Reads!Keys, Reads!NoRequest, Reads!Request
  <2>3. PaintedInv'
    <3>1. CASE v = version /\ who = reader
      BY <1>1, <1>8, <2>1, <3>1 DEF PaintedInv, Reads!Hooks, Reads!ConstantsOK
    <3>2. CASE hs = Reads!Hooks
      BY <1>8, <2>1, <3>2 DEF PaintedInv
    <3> QED
      BY <3>1, <3>2
  <2> QED
    BY <2>2, <2>3
<1> QED
  BY <1>7, <1>8

(* An answer that reaches hooks of the account connected.                  *)
LEMMA SettleKeeps ==
  ASSUME Reads!ConstantsOK, RequestsInv, PaintedInv,
         NEW hs \in SUBSET Reads!Hooks, NEW who \in Users, NEW request,
         hs # {} => who = reader,
         request.at = "answered" =>
           /\ request.served \in Nat
           /\ \A h \in hs : request.served >= IF h \in Sharing THEN version ELSE floor[h],
         Reads!Settle(hs, who, request),
         UNCHANGED <<version, reader, floor>>
  PROVE  PaintedInv'
<1>1. PICK answer : /\ shown' = [h \in Reads!Hooks |-> IF h \in hs THEN answer ELSE shown[h]]
                    /\ awaits' = awaits \ hs
                    /\ \/ answer = Reads!Blank
                       \/ /\ request.at = "answered"
                          /\ answer = [who |-> who, served |-> request.served]
  BY DEF Reads!Settle, Reads!Paint
<1>2. \A h \in hs : answer # Reads!Blank =>
        /\ answer.who = reader /\ answer.served \in Nat
        /\ answer.served >= IF h \in Sharing THEN version ELSE floor[h]
  BY <1>1
<1>3. reader = Nobody => hs = {}
  BY DEF Reads!ConstantsOK
<1> QED
  BY <1>1, <1>2, <1>3 DEF PaintedInv

LEMMA ReadsStep ==
  ASSUME Reads!ConstantsOK, RequestsInv, PaintedInv, BalanceInv, Reads!Next
  PROVE  RequestsInv' /\ PaintedInv' /\ BalanceInv'
<1>0. Reads!Hooks \in SUBSET Reads!Hooks
  OBVIOUS
<1>10. ASSUME BalanceInv, NEW who \in Users \cup {Nobody}, NEW refreshed,
              Reads!StartQuery(who, refreshed)
       PROVE  /\ balance' \in [loading : BOOLEAN, asset : Assets, amount : Nat]
              /\ query' \in [at : {"asked", "answered", "done"}, before : Nat, left : Int,
                            amount : Nat]
              /\ who # Nobody => balance'.loading = TRUE
  <2>1. CASE who = Nobody
    BY <1>10, <2>1 DEF Reads!StartQuery, Reads!NoQuery, BalanceInv
  <2>2. CASE who # Nobody
    <3>1. /\ balance' = [balance EXCEPT !.loading = TRUE]
          /\ \E n \in Int : query' = [at |-> "asked", before |-> lastAmount, amount |-> 0, left |-> n]
      BY <1>10, <2>2 DEF Reads!StartQuery, Reads!ConstantsOK
    <3>2. lastAmount \in Nat /\ balance \in [loading : BOOLEAN, asset : Assets, amount : Nat]
      BY <1>10 DEF BalanceInv
    <3>3. balance' \in [loading : BOOLEAN, asset : Assets, amount : Nat] /\ balance'.loading = TRUE
      BY <3>1, <3>2
    <3>4. query' \in [at : {"asked", "answered", "done"}, before : Nat, left : Int, amount : Nat]
      BY <3>1, <3>2
    <3> QED
      BY <3>3, <3>4
  <2> QED
    BY <2>1, <2>2
<1>1. ASSUME UNCHANGED <<landed, published, version, reader, shared, own, floor, awaits, shown>>
      PROVE  RequestsInv' /\ PaintedInv'
  BY <1>1 DEF RequestsInv, PaintedInv, Reads!Keys, Reads!Hooks, Reads!NoRequest,
     Reads!Request, Reads!Blank
<1>2. CASE Reads!SwitchAccount
  <2>1. PICK who \in Users \cup {Nobody} :
          /\ (who = Nobody) # (reader = Nobody) /\ reader' = who
          /\ Reads!StartReads(Reads!Hooks, who, version)
          /\ Reads!StartQuery(who, nonce)
          /\ UNCHANGED <<landed, published, version>>
    BY <1>2 DEF Reads!SwitchAccount
  <2>2. RequestsInv' /\ PaintedInv'
    <3>1. version \in 0 .. landed /\ version >= version
      BY DEF RequestsInv
    <3> QED
      BY <1>0, <2>1, <3>1, EffectsKeep
  <2>3. BalanceInv'
    BY <1>2, <2>1, <1>10 DEF Reads!SwitchAccount, BalanceInv
  <2> QED
    BY <2>2, <2>3
<1>3. ASSUME NEW h \in Reads!Hooks, Reads!Tick(h)
      PROVE  RequestsInv' /\ PaintedInv' /\ BalanceInv'
  <2>1. RequestsInv' /\ PaintedInv'
    <3>1. /\ version \in 0 .. landed /\ version >= version /\ reader \in Users \cup {Nobody}
          /\ {h} \in SUBSET Reads!Hooks
      BY DEF RequestsInv
    <3>2. /\ Reads!StartReads({h}, reader, version)
          /\ UNCHANGED <<landed, published, version, reader>>
      BY <1>3 DEF Reads!Tick
    <3> QED
      BY <3>1, <3>2, EffectsKeep
  <2>2. BalanceInv'
    BY <1>3 DEF Reads!Tick, Reads!balanceVars, BalanceInv
  <2> QED
    BY <2>1, <2>2
<1>4. CASE Reads!WriteLands
  BY <1>4 DEF Reads!WriteLands, Reads!readVars, Reads!balanceVars, RequestsInv, PaintedInv,
     BalanceInv, Reads!Keys, Reads!Hooks, Reads!NoRequest, Reads!Request, Reads!Blank,
     Reads!ConstantsOK
<1>5. CASE Reads!Bump
  <2>1. RequestsInv' /\ PaintedInv'
    <3>1. /\ version + 1 \in 0 .. landed /\ version + 1 >= version
          /\ reader \in Users \cup {Nobody} /\ reader # Nobody
          /\ version' = version + 1 /\ UNCHANGED <<landed, published, reader>>
      BY <1>5 DEF Reads!Bump, RequestsInv
    <3>2. Reads!StartReads(Reads!Hooks, reader, version + 1)
      BY <1>5 DEF Reads!Bump
    <3> QED
      BY <1>0, <3>1, <3>2, EffectsKeep
  <2>2. BalanceInv'
    BY <1>5 DEF Reads!Bump, Reads!balanceVars, BalanceInv
  <2> QED
    BY <2>1, <2>2
<1>6. CASE Reads!Serve
  <2>1. /\ UNCHANGED <<landed, published, version, reader, floor, awaits, shown, credit,
                       Reads!balanceVars>>
        /\ \/ /\ \E k \in Reads!Keys :
                 /\ shared[k] = Reads!Asked
                 /\ shared' = [shared EXCEPT ![k] = Reads!Request("answered", landed)]
              /\ UNCHANGED own
           \/ /\ \E h \in Own : \E r \in own[h] :
                 own' = [own EXCEPT ![h] =
                           (@ \ {r}) \cup {[r EXCEPT !.at = "answered", !.served = published]}]
              /\ UNCHANGED shared
    BY <1>6 DEF Reads!Serve
  <2>2. PaintedInv' /\ BalanceInv'
    BY <2>1 DEF PaintedInv, BalanceInv, Reads!balanceVars, Reads!Hooks, Reads!Blank
  <2>3. ASSUME NEW k \in Reads!Keys, shared[k] = Reads!Asked, UNCHANGED own,
               shared' = [shared EXCEPT ![k] = Reads!Request("answered", landed)]
        PROVE  RequestsInv'
    <3>1. shared' \in [Reads!Keys -> RequestType]
      BY <2>3, RequestsTyped DEF RequestsInv
    <3>2. \A l \in Reads!Keys :
            /\ shared'[l] # Reads!NoRequest => l[2] <= landed
            /\ shared'[l].at = "answered" => shared'[l].served >= l[2]
      <4>1. Reads!Asked # Reads!NoRequest
        BY RequestsTyped
      <4> QED
        BY <2>3, <4>1, RequestsTyped DEF RequestsInv
    <3> QED
      BY <2>1, <2>3, <3>1, <3>2 DEF RequestsInv, Reads!Keys, Reads!NoRequest, Reads!Request
  <2>4. ASSUME UNCHANGED shared, NEW h \in Own, NEW r \in own[h],
               own' = [own EXCEPT ![h] =
                         (@ \ {r}) \cup {[r EXCEPT !.at = "answered", !.served = published]}]
        PROVE  RequestsInv'
    <3> DEFINE q == [r EXCEPT !.at = "answered", !.served = published]
    <3>1. r \in OwnRequestType /\ published \in Nat /\ floor[h] <= published
          /\ (~r.cancelled => r.who = reader)
      BY DEF RequestsInv
    <3>2. q \in OwnRequestType /\ q.who = r.who /\ q.cancelled = r.cancelled
          /\ q.served = published
      BY <3>1 DEF OwnRequestType
    <3>3. own' = [own EXCEPT ![h] = (own[h] \ {r}) \cup {q}]
      BY <2>4
    <3> HIDE DEF q
    <3>4. own' \in [Own -> SUBSET OwnRequestType]
      BY <3>2, <3>3 DEF RequestsInv
    <3>5. \A i \in Own : \A p \in own'[i] :
            ~p.cancelled => p.who = reader /\ (p.at = "answered" => p.served >= floor[i])
      BY <3>1, <3>2, <3>3 DEF RequestsInv
    <3> QED
      BY <2>1, <2>4, <3>4, <3>5 DEF RequestsInv, Reads!Keys, Reads!NoRequest, Reads!Request
  <2> QED
    BY <2>1, <2>2, <2>3, <2>4
<1>7. ASSUME NEW k \in Reads!Keys, Reads!SharedArrives(k)
      PROVE  RequestsInv' /\ PaintedInv' /\ BalanceInv'
  <2> DEFINE hs == IF k = <<reader, version>> THEN awaits \cap Sharing ELSE {}
  <2>1. /\ Reads!Settle(hs, k[1], shared[k])
        /\ shared' = [shared EXCEPT ![k] = Reads!NoRequest]
        /\ UNCHANGED <<landed, published, version, reader, own, floor, credit, Reads!balanceVars>>
    BY <1>7 DEF Reads!SharedArrives, Reads!Key
  <2>2. RequestsInv'
    BY <2>1, RequestsTyped DEF RequestsInv, Reads!Keys, Reads!NoRequest, Reads!Request
  <2>3. /\ hs \in SUBSET Reads!Hooks /\ hs \subseteq Sharing /\ k[1] \in Users
        /\ shared[k] \in RequestType
        /\ hs # {} => k[1] = reader /\ k[2] = version
    BY DEF RequestsInv, Reads!Keys, Reads!Hooks
  <2>4. shared[k].at = "answered" =>
          /\ shared[k].served \in Nat
          /\ \A h \in hs : shared[k].served >= IF h \in Sharing THEN version ELSE floor[h]
    BY <2>3 DEF RequestsInv, RequestType
  <2>5. PaintedInv'
    <3> HIDE DEF hs
    <3> QED
      BY <2>1, <2>3, <2>4, SettleKeeps
  <2>6. BalanceInv'
    BY <2>1 DEF BalanceInv, Reads!balanceVars
  <2> QED
    BY <2>2, <2>5, <2>6
<1>8. ASSUME NEW h \in Own, Reads!OwnArrives(h)
      PROVE  RequestsInv' /\ PaintedInv' /\ BalanceInv'
  <2>1. PICK r \in own[h] :
          /\ own' = [own EXCEPT ![h] = own[h] \ {r}]
          /\ IF r.cancelled THEN UNCHANGED <<awaits, shown>> ELSE Reads!Settle({h}, r.who, r)
    BY <1>8 DEF Reads!OwnArrives
  <2>2. UNCHANGED <<landed, published, version, reader, shared, floor, credit, Reads!balanceVars>>
    BY <1>8 DEF Reads!OwnArrives
  <2>3. RequestsInv'
    <3>1. own' \in [Own -> SUBSET OwnRequestType] /\ \A i \in Own : own'[i] \subseteq own[i]
      BY <2>1 DEF RequestsInv
    <3> QED
      BY <2>2, <3>1 DEF RequestsInv, Reads!Keys, Reads!NoRequest, Reads!Request
  <2>4. PaintedInv'
    <3>1. CASE r.cancelled
      BY <2>1, <2>2, <3>1 DEF PaintedInv, Reads!Hooks, Reads!Blank
    <3>2. CASE ~r.cancelled
      <4>1. /\ r \in OwnRequestType /\ r.who = reader
            /\ r.at = "answered" => r.served >= floor[h]
        BY <3>2 DEF RequestsInv
      <4>2. {h} \in SUBSET Reads!Hooks /\ h \notin Sharing /\ r.who \in Users
            /\ r.served \in Nat
        BY <4>1 DEF OwnRequestType, Reads!Hooks, Reads!ConstantsOK
      <4>3. Reads!Settle({h}, r.who, r)
        BY <2>1, <3>2
      <4> QED
        BY <2>2, <4>1, <4>2, <4>3, SettleKeeps
    <3> QED
      BY <3>1, <3>2
  <2>5. BalanceInv'
    BY <2>2 DEF BalanceInv, Reads!balanceVars
  <2> QED
    BY <2>3, <2>4, <2>5
<1>11. ASSUME Reads!Publish \/ Reads!Restart
       PROVE  RequestsInv' /\ PaintedInv' /\ BalanceInv'
  <2>1. /\ published' \in 0 .. landed
        /\ floor' \in [Own -> 0 .. published'] /\ \A h \in Own : floor'[h] <= floor[h]
        /\ UNCHANGED <<landed, version, reader, shared, own, awaits, shown, credit,
                       Reads!balanceVars>>
    BY <1>11 DEF Reads!Publish, Reads!Restart, Reads!readVars, RequestsInv
  <2>2. RequestsInv'
    <3>1. \A h \in Own : \A r \in own[h] :
            ~r.cancelled => r.who = reader /\ (r.at = "answered" => r.served >= floor'[h])
      <4> SUFFICES ASSUME NEW h \in Own, NEW r \in own[h], ~r.cancelled
                   PROVE  r.who = reader /\ (r.at = "answered" => r.served >= floor'[h])
        OBVIOUS
      <4>1. r.served \in Nat /\ floor[h] \in Int /\ floor'[h] \in Int /\ floor'[h] <= floor[h]
        BY <2>1 DEF RequestsInv, OwnRequestType
      <4> QED
        BY <4>1 DEF RequestsInv
    <3> QED
      BY <2>1, <3>1 DEF RequestsInv, Reads!Keys, Reads!NoRequest, Reads!Request
  <2>3. PaintedInv'
    <3>1. \A h \in Own : floor[h] \in Int /\ floor'[h] \in Int /\ floor'[h] <= floor[h]
      BY <2>1 DEF RequestsInv
    <3> QED
      BY <2>1, <3>1 DEF PaintedInv, Reads!Hooks, Reads!Blank
  <2>4. BalanceInv'
    BY <2>1 DEF BalanceInv, Reads!balanceVars
  <2> QED
    BY <2>2, <2>3, <2>4
<1>9. CASE Reads!ChooseAsset \/ Reads!Refresh \/ Reads!Horizon \/ Reads!BalanceArrives
           \/ Reads!BalanceFails \/ \E a \in Assets : Reads!Credit(a)
  <2>1. RequestsInv' /\ PaintedInv'
    BY <1>1, <1>9 DEF Reads!ChooseAsset, Reads!Refresh, Reads!Horizon, Reads!BalanceArrives,
       Reads!BalanceFails, Reads!Credit, Reads!readVars
  <2>2. ASSUME Reads!ChooseAsset PROVE BalanceInv'
    BY <2>1, <2>2, <1>10 DEF Reads!ChooseAsset, BalanceInv, RequestsInv
  <2>3. ASSUME Reads!Refresh PROVE BalanceInv'
    BY <2>1, <2>3, <1>10 DEF Reads!Refresh, BalanceInv, RequestsInv
  <2>4. ASSUME Reads!Horizon \/ \E a \in Assets : Reads!Credit(a)
        PROVE  BalanceInv'
    <3>1. CASE Reads!Horizon
      <4>1. query' = [query EXCEPT !.at = "answered", !.amount = credit[asset]]
            /\ UNCHANGED <<asset, credit, lastAmount, balance, reader>>
        BY <3>1 DEF Reads!Horizon
      <4> QED
        BY <4>1 DEF BalanceInv
    <3>2. ASSUME NEW a \in Assets, Reads!Credit(a)
          PROVE  BalanceInv'
      <4>1. credit' = [credit EXCEPT ![a] = credit[a] + 1]
            /\ UNCHANGED <<asset, query, lastAmount, balance, reader>>
        BY <3>2 DEF Reads!Credit, Reads!balanceVars
      <4> QED
        BY <4>1 DEF BalanceInv
    <3> QED
      BY <2>4, <3>1, <3>2
  <2>5. ASSUME NEW n \in Nat, Reads!PaintBalance(n), UNCHANGED <<credit, asset, reader>>
        PROVE  BalanceInv'
    BY <2>5 DEF Reads!PaintBalance, Reads!NoQuery, BalanceInv
  <2>6. ASSUME Reads!BalanceArrives PROVE BalanceInv'
    <3>1. CASE Reads!PaintBalance(query.amount)
      BY <2>5, <2>6, <3>1 DEF Reads!BalanceArrives, BalanceInv
    <3>2. CASE ~Reads!PaintBalance(query.amount)
      <4>1. /\ query' = [query EXCEPT !.at = "asked", !.left = query.left - 1]
            /\ UNCHANGED <<asset, credit, lastAmount, balance, reader>>
        BY <2>6, <3>2 DEF Reads!BalanceArrives
      <4>2. query.left - 1 \in Int
        BY DEF BalanceInv
      <4>3. query' \in [at : {"asked", "answered", "done"}, before : Nat, left : Int, amount : Nat]
        BY <4>1, <4>2 DEF BalanceInv
      <4> QED
        BY <4>1, <4>3 DEF BalanceInv
    <3> QED
      BY <3>1, <3>2
  <2>7. ASSUME Reads!BalanceFails PROVE BalanceInv'
    BY <2>5, <2>7 DEF Reads!BalanceFails
  <2> QED
    BY <1>9, <2>1, <2>2, <2>3, <2>4, <2>6, <2>7
<1> QED
  BY <1>2, <1>3, <1>4, <1>5, <1>6, <1>7, <1>8, <1>9, <1>11 DEF Reads!Next

(* What is shown is about the account connected, and once settled no older *)
(* than the last write of the app, where it comes from the vault, and than *)
(* what the backend's poller had published when it was asked for, where it *)
(* comes from the events.                                                  *)
THEOREM ReadsTheorem ==
  Reads!Spec => []AnswersFit
<1> DEFINE Inv == RequestsInv /\ PaintedInv /\ BalanceInv
<1>1. Reads!ConstantsOK
  BY BrowserAssumption
<1>2. Reads!Init => Inv
  <2> SUFFICES ASSUME Reads!Init PROVE Inv
    OBVIOUS
  <2>1. RequestsInv
    BY <1>1, RequestsTyped DEF Reads!Init, RequestsInv, Reads!ConstantsOK
  <2>2. PaintedInv
    BY DEF Reads!Init, PaintedInv
  <2>3. BalanceInv
    BY DEF Reads!Init, BalanceInv, Reads!NoQuery
  <2> QED
    BY <2>1, <2>2, <2>3
<1>3. Inv /\ [Reads!Next]_(Reads!vars) => Inv'
  <2> SUFFICES ASSUME Inv, [Reads!Next]_(Reads!vars) PROVE Inv'
    OBVIOUS
  <2>1. CASE Reads!Next
    BY <1>1, <2>1, ReadsStep
  <2>2. CASE UNCHANGED Reads!vars
    BY <2>2 DEF Reads!vars, Reads!readVars, Reads!balanceVars, RequestsInv, PaintedInv,
       BalanceInv, Reads!Keys, Reads!Hooks, Reads!NoRequest, Reads!Request, Reads!Blank
  <2> QED
    BY <2>1, <2>2
<1>4. Inv => AnswersFit
  BY DEF PaintedInv, BalanceInv, AnswersFit, Reads!AnswersFit
<1> QED
  BY <1>2, <1>3, <1>4, PTL DEF Reads!Spec

-----------------------------------------------------------------------------
(* The auto-compound switch.                                               *)

WriteType == [who : Users \cup {Nobody}, next : BOOLEAN, landed : BOOLEAN, superseded : BOOLEAN]

SwitchTypes ==
  /\ pref \in [Users -> BOOLEAN] /\ address \in Users \cup {Nobody}
  /\ state \in [loading : BOOLEAN, enabled : BOOLEAN]
  /\ known \in [who : Users \cup {Nobody}, enabled : BOOLEAN]
  /\ reading \in {"none", "asked", "on", "off"}
  /\ writing \in WriteType /\ late \in WriteType

(* The read under way was answered before the chain moved.                 *)
Stale ==
  /\ address # Nobody
  /\ reading = IF pref[address] = TRUE THEN "off" ELSE "on"

(* A write of the account connected that has yet to land.                  *)
Unlanded(w) == address # Nobody /\ w.who = address /\ w.landed = FALSE

(* A write is the connected account's, or was retired when it left; one    *)
(* that landed is the last of its account that did.                        *)
WritesInv ==
  /\ \A w \in {writing, late} : w.who = Nobody => w = Switch!NoWrite
  /\ late.landed = FALSE
  /\ writing.superseded = FALSE => writing.who \in {Nobody, address}
  /\ writing.landed = TRUE => pref[writing.who] = writing.next /\ late.who # writing.who

(* What is known is known of the connected account, and is shown.          *)
ShownInv ==
  /\ address = Nobody => known = Switch!Unknown /\ reading = "none"
  /\ known.who \in {Nobody, address}
  /\ known.who # Nobody => state = [loading |-> FALSE, enabled |-> known.enabled]

(* While a write that would change the chain is yet to land, the read and  *)
(* what is known agree with the chain: its landing cannot confirm what is  *)
(* known while a stale read is on its way.                                 *)
FreshInv ==
  /\ \A w \in {writing, late} :
       Unlanded(w) =>
         /\ ~Stale
         /\ known.who = address /\ w.next # pref[address] => known.enabled = pref[address]
  /\ Stale /\ known.who = address => known.enabled # pref[address]

SwitchInv == SwitchTypes /\ WritesInv /\ ShownInv /\ FreshInv

(* A write of another account lands.                                       *)
LEMMA OthersWrite ==
  ASSUME FreshInv, UNCHANGED <<known, reading, address>>,
         address # Nobody => pref'[address] = pref[address],
         writing' = writing \/ ~Unlanded(writing)',
         late' = late \/ ~Unlanded(late)'
  PROVE  FreshInv'
<1>1. Stale' = Stale
  BY Zenon DEF Stale
<1>2. ASSUME NEW w \in {writing', late'}, address # Nobody, w.who = address, w.landed = FALSE
      PROVE  w \in {writing, late} /\ Unlanded(w)
  BY <1>2 DEF Unlanded
<1>3. Stale' /\ known'.who = address' => known'.enabled # pref'[address']
  <2>1. Stale => address # Nobody
    BY DEF Stale
  <2> QED
    BY <1>1, <2>1 DEF FreshInv
<1>4. ASSUME NEW w \in {writing', late'}, address # Nobody, w.who = address, w.landed = FALSE
      PROVE  /\ ~Stale
             /\ known.who = address /\ w.next # pref'[address] => known.enabled = pref'[address]
  BY <1>2, <1>4 DEF FreshInv
<1> QED
  BY <1>1, <1>3, <1>4 DEF FreshInv, Unlanded

LEMMA SwitchStep ==
  ASSUME Switch!ConstantsOK, SwitchInv, Switch!Next
  PROVE  SwitchInv'
<1> USE DEF Switch!ConstantsOK, SwitchInv, SwitchTypes, WriteType, Unlanded, Stale,
            Switch!NoWrite, Switch!Unknown, Switch!NoRead
<1>1. CASE Switch!SwitchAccount
  <2> USE <1>1 DEF Switch!SwitchAccount, Switch!StartRead, Switch!Superseded
  <2>5. writing' \in WriteType /\ writing'.who = writing.who /\ writing'.landed = writing.landed
        /\ writing'.next = writing.next
        /\ (writing'.superseded = TRUE \/ writing' = Switch!NoWrite)
        /\ (writing.who = Nobody => writing' = Switch!NoWrite)
    BY DEF WritesInv
  <2>6. PICK a \in Users \cup {Nobody} :
          address' = a /\ Switch!StartRead(a, known)
    OBVIOUS
  <2>7. UNCHANGED <<pref, late>>
    OBVIOUS
  <2>1. SwitchTypes'
    <3>1. CASE a = Nobody
      BY <2>5, <2>6, <2>7, <3>1
    <3>2. CASE a # Nobody
      BY <2>5, <2>6, <2>7, <3>2
    <3> QED
      BY <3>1, <3>2
  <2>2. WritesInv'
    BY <2>1, <2>5, <2>6, <2>7 DEF WritesInv
  <2>3. ShownInv'
    BY <2>1 DEF ShownInv, WritesInv
  <2>4. FreshInv'
    BY <2>1 DEF FreshInv, ShownInv, WritesInv
  <2> QED
    BY <2>1, <2>2, <2>3, <2>4
<1>2. CASE Switch!Bump
  <2> USE <1>2 DEF Switch!Bump, Switch!StartRead, Switch!Superseded
  <2>1. SwitchTypes'
    OBVIOUS
  <2>2. WritesInv'
    BY <2>1 DEF WritesInv
  <2>3. ShownInv'
    BY <2>1 DEF ShownInv, WritesInv
  <2>4. FreshInv'
    BY <2>1 DEF FreshInv, ShownInv, WritesInv
  <2> QED
    BY <2>1, <2>2, <2>3, <2>4
<1>3. CASE Switch!ReadServed
  <2> USE <1>3 DEF Switch!ReadServed
  <2>1. SwitchTypes'
    OBVIOUS
  <2>2. WritesInv'
    BY <2>1 DEF WritesInv
  <2>3. ShownInv'
    BY <2>1 DEF ShownInv, WritesInv
  <2>4. FreshInv'
    BY <2>1 DEF FreshInv, ShownInv, WritesInv
  <2> QED
    BY <2>1, <2>2, <2>3, <2>4
<1>4. CASE Switch!ReadArrives
  <2> USE <1>4 DEF Switch!ReadArrives
  <2>1. SwitchTypes'
    OBVIOUS
  <2>2. WritesInv'
    BY <2>1 DEF WritesInv
  <2>3. ShownInv'
    BY <2>1 DEF ShownInv, WritesInv
  <2>4. FreshInv'
    BY <2>1 DEF FreshInv, ShownInv, WritesInv
  <2> QED
    BY <2>1, <2>2, <2>3, <2>4
<1>5. CASE Switch!ReadFails
  <2> USE <1>5 DEF Switch!ReadFails, Switch!Fallback
  <2>1. SwitchTypes'
    BY ZenonT(60)
  <2>2. WritesInv'
    BY <2>1 DEF WritesInv
  <2>3. ShownInv'
    BY <2>1 DEF ShownInv, WritesInv
  <2>4. FreshInv'
    BY <2>1 DEF FreshInv, ShownInv, WritesInv
  <2> QED
    BY <2>1, <2>2, <2>3, <2>4
<1>6. CASE Switch!Toggle
  <2> USE <1>6 DEF Switch!Toggle
  <2>1. SwitchTypes'
    OBVIOUS
  <2>2. WritesInv'
    BY <2>1 DEF WritesInv
  <2>3. ShownInv'
    BY <2>1 DEF ShownInv, WritesInv
  <2>4. FreshInv'
    BY <2>1 DEF FreshInv, ShownInv, WritesInv
  <2> QED
    BY <2>1, <2>2, <2>3, <2>4
<1>7. CASE Switch!WriteLands
  <2> USE <1>7 DEF Switch!WriteLands
  <2>1. SwitchTypes'
    OBVIOUS
  <2>2. WritesInv'
    BY <2>1 DEF WritesInv
  <2>3. ShownInv'
    BY <2>1 DEF ShownInv, WritesInv
  <2>8. UNCHANGED <<known, reading, address>>
    OBVIOUS
  <2>9. ASSUME NEW w \in {writing, late}, Unlanded(w), w.who = address,
               pref' = [pref EXCEPT ![address] = w.next],
               ~Unlanded(writing)', ~Unlanded(late)'
        PROVE  FreshInv'
    <3>1. address \in Users /\ pref'[address] = w.next /\ w.next \in BOOLEAN
      BY <2>9
    <3>2. ~Stale /\ (known.who = address /\ w.next # pref[address] => known.enabled = pref[address])
      BY <2>9 DEF FreshInv
    <3>3. Stale' /\ known.who = address => known'.enabled # pref'[address]
      BY <2>8, <3>1, <3>2
    <3> QED
      BY <2>8, <2>9, <3>3 DEF FreshInv
  <2>10. ASSUME writing.who = address PROVE FreshInv'
    BY <2>1, <2>9, <2>10 DEF WritesInv
  <2>11. ASSUME writing.who # address PROVE FreshInv'
    <3>1. address # Nobody => pref'[address] = pref[address]
      BY <2>11
    <3>2. ~Unlanded(writing)' /\ (late' = late \/ ~Unlanded(late)')
      OBVIOUS
    <3> QED
      BY <2>8, <3>1, <3>2, OthersWrite
  <2>4. FreshInv'
    BY <2>10, <2>11
  <2> QED
    BY <2>1, <2>2, <2>3, <2>4
<1>8. CASE Switch!WriteReturns
  <2> USE <1>8 DEF Switch!WriteReturns
  <2>5. Switch!NoWrite \in WriteType /\ writing' = Switch!NoWrite
    OBVIOUS
  <2>6. ASSUME writing.superseded = TRUE PROVE SwitchTypes'
    BY <2>5, <2>6
  <2>7. ASSUME writing.superseded = FALSE PROVE SwitchTypes'
    <3>1. known' \in [who : Users \cup {Nobody}, enabled : BOOLEAN]
      BY <2>7
    <3>2. state' \in [loading : BOOLEAN, enabled : BOOLEAN]
      <4>1. state' = [loading |-> FALSE, enabled |-> writing.next]
        BY <2>7
      <4>2. writing.next \in BOOLEAN
        OBVIOUS
      <4> QED
        BY <4>1, <4>2
    <3>3. reading' = "asked" /\ UNCHANGED <<pref, address, late>>
      BY <2>7
    <3> QED
      BY <2>5, <3>1, <3>2, <3>3
  <2>1. SwitchTypes'
    BY <2>6, <2>7
  <2>2. WritesInv'
    BY <2>1 DEF WritesInv
  <2>3. ShownInv'
    BY <2>1 DEF ShownInv, WritesInv
  <2>4. FreshInv'
    BY <2>1, ZenonT(60) DEF FreshInv, ShownInv, WritesInv
  <2> QED
    BY <2>1, <2>2, <2>3, <2>4
<1>9. CASE Switch!WriteRefused
  <2> USE <1>9 DEF Switch!WriteRefused
  <2>1. SwitchTypes'
    OBVIOUS
  <2>2. WritesInv'
    BY <2>1 DEF WritesInv
  <2>3. ShownInv'
    BY <2>1 DEF ShownInv, WritesInv
  <2>4. FreshInv'
    BY <2>1, ZenonT(60) DEF FreshInv, ShownInv, WritesInv
  <2> QED
    BY <2>1, <2>2, <2>3, <2>4
<1>10. CASE Switch!WriteLost
  <2> USE <1>10 DEF Switch!WriteLost
  <2>1. SwitchTypes'
    OBVIOUS
  <2>2. WritesInv'
    BY <2>1 DEF WritesInv
  <2>3. ShownInv'
    BY <2>1 DEF ShownInv, WritesInv
  <2>4. FreshInv'
    BY <2>1 DEF FreshInv, ShownInv, WritesInv
  <2> QED
    BY <2>1, <2>2, <2>3, <2>4
<1>11. CASE Switch!LandsLate
  <2> USE <1>11 DEF Switch!LandsLate
  <2>5. Switch!NoWrite \in WriteType
    OBVIOUS
  <2>6. late.who \in Users /\ late.next \in BOOLEAN
    BY DEF WritesInv
  <2>7. pref' \in [Users -> BOOLEAN]
    BY <2>6
  <2>1. SwitchTypes'
    BY <2>5, <2>7, ZenonT(60)
  <2>2. WritesInv'
    BY <2>1 DEF WritesInv
  <2>3. ShownInv'
    BY <2>1 DEF ShownInv, WritesInv
  <2>8. UNCHANGED <<known, reading, address>>
    OBVIOUS
  <2>9. ASSUME NEW w \in {writing, late}, Unlanded(w), w.who = address,
               pref' = [pref EXCEPT ![address] = w.next],
               ~Unlanded(writing)', ~Unlanded(late)'
        PROVE  FreshInv'
    <3>1. address \in Users /\ pref'[address] = w.next /\ w.next \in BOOLEAN
      BY <2>9
    <3>2. ~Stale /\ (known.who = address /\ w.next # pref[address] => known.enabled = pref[address])
      BY <2>9 DEF FreshInv
    <3>3. Stale' /\ known.who = address => known'.enabled # pref'[address]
      BY <2>8, <3>1, <3>2
    <3> QED
      BY <2>8, <2>9, <3>3 DEF FreshInv
  <2>10. ~Unlanded(late)'
    BY <2>6, <2>8
  <2>11. ASSUME UNCHANGED <<pref, writing>> PROVE FreshInv'
    BY <2>8, <2>10, <2>11 DEF FreshInv
  <2>12. ASSUME pref' = [pref EXCEPT ![late.who] = late.next],
                writing' = IF writing.who = late.who THEN Switch!NoWrite ELSE writing
         PROVE  FreshInv'
    <3>1. CASE late.who = address
      BY <2>6, <2>9, <2>10, <2>12, <3>1 DEF WritesInv
    <3>2. CASE late.who # address
      <4>1. address # Nobody => pref'[address] = pref[address]
        BY <2>6, <2>12, <3>2
      <4>2. writing' = writing \/ ~Unlanded(writing)'
        BY <2>8, <2>12
      <4> QED
        BY <2>8, <2>10, <4>1, <4>2, OthersWrite
    <3> QED
      BY <3>1, <3>2
  <2>4. FreshInv'
    BY <2>11, <2>12
  <2> QED
    BY <2>1, <2>2, <2>3, <2>4
<1> QED
  BY <1>1, <1>2, <1>3, <1>4, <1>5, <1>6, <1>7, <1>8, <1>9, <1>10, <1>11 DEF Switch!Next

(* The switch goes on showing what the chain confirmed to it until the     *)
(* chain or the account changes.                                           *)
THEOREM ConfirmedTheorem ==
  Switch!Spec => ConfirmedStays
<1>1. Switch!ConstantsOK
  BY BrowserAssumption
<1>2. Switch!Init => SwitchInv
  <2> SUFFICES ASSUME Switch!Init PROVE SwitchInv
    OBVIOUS
  <2>1. SwitchTypes
    BY DEF Switch!Init, SwitchTypes, WriteType, Switch!NoWrite, Switch!Unknown, Switch!NoRead
  <2>2. WritesInv /\ ShownInv
    BY DEF Switch!Init, WritesInv, ShownInv, Switch!NoWrite, Switch!Unknown, Switch!NoRead
  <2>3. FreshInv
    BY DEF Switch!Init, FreshInv, Unlanded, Stale
  <2> QED
    BY <2>1, <2>2, <2>3 DEF SwitchInv
<1>3. SwitchInv /\ [Switch!Next]_(Switch!vars) => SwitchInv'
  <2> SUFFICES ASSUME SwitchInv, [Switch!Next]_(Switch!vars) PROVE SwitchInv'
    OBVIOUS
  <2>1. CASE Switch!Next
    BY <1>1, <2>1, SwitchStep
  <2>2. CASE UNCHANGED Switch!vars
    BY <2>2 DEF Switch!vars, SwitchInv, SwitchTypes, WritesInv, ShownInv, FreshInv, WriteType,
       Unlanded, Stale, Switch!NoWrite, Switch!Unknown
  <2> QED
    BY <2>1, <2>2
<1>4. SwitchInv /\ [Switch!Next]_(Switch!vars)
        => [address # Nobody /\ Switch!Confirmed /\ pref' = pref /\ address' = address =>
             state'.enabled = pref[address]]_(Switch!vars)
  <2> SUFFICES ASSUME SwitchInv, Switch!Next, address # Nobody, Switch!Confirmed,
                      pref' = pref, address' = address
               PROVE  state'.enabled = pref[address]
    OBVIOUS
  <2> USE DEF Switch!Confirmed, SwitchInv, SwitchTypes
  <2>1. CASE Switch!Bump
    BY <2>1 DEF Switch!Bump, Switch!StartRead
  <2>2. CASE Switch!ReadArrives
    BY <2>2 DEF Switch!ReadArrives, FreshInv, Stale
  <2>3. CASE Switch!ReadFails
    BY <2>3 DEF Switch!ReadFails, Switch!Fallback
  <2>4. CASE Switch!WriteReturns
    <3>1. CASE writing.superseded = TRUE
      BY <2>4, <3>1 DEF Switch!WriteReturns
    <3>2. CASE writing.superseded = FALSE
      <4>1. writing.landed = TRUE
        BY <2>4 DEF Switch!WriteReturns, WriteType
      <4>2. writing.who = address /\ pref[writing.who] = writing.next
        BY <3>2, <4>1 DEF WritesInv, Switch!NoWrite
      <4>3. state'.enabled = writing.next
        BY <2>4, <3>2 DEF Switch!WriteReturns
      <4> QED
        BY <4>2, <4>3
    <3> QED
      BY <3>1, <3>2 DEF WriteType
  <2>5. CASE Switch!SwitchAccount
    BY <2>5 DEF Switch!SwitchAccount
  <2> QED
    BY <2>1, <2>2, <2>3, <2>4, <2>5 DEF Switch!Next, Switch!ReadServed, Switch!Toggle,
       Switch!WriteLands, Switch!WriteRefused, Switch!WriteLost, Switch!LandsLate
<1> QED
  BY <1>2, <1>3, <1>4, PTL DEF Switch!Spec, ConfirmedStays, Switch!ConfirmedStays

-----------------------------------------------------------------------------
(* The deposit of a page.                                                  *)

RunType == [at : {"consent", "prepare", "send", "done"}, amount : Nat, max : BOOLEAN,
            burned : Nat, tx : {"none", "pending", "landed"}, mounted : BOOLEAN]

(* What is asked for, or agreed to, is asked while the form shows.         *)
FormInv ==
  /\ "amount" \in DOMAIN form /\ form.amount \in Nat
  /\ asking \in [amount : Nat, mounted : BOOLEAN] /\ sheet \in BOOLEAN
  /\ asking.amount > 0 => phase = "idle" /\ sheet = FALSE
  /\ sheet = TRUE => phase = "idle"

(* The surface has one run at a time, which is its current one.            *)
RunInv ==
  /\ runs \in [Runs -> RunType]
  /\ \A r \in Runs : runs[r].at # "prepare"
  /\ \A r \in Runs : runs[r].mounted = TRUE /\ runs[r].at # "done" =>
       r = current /\ phase = "sending"
  /\ phase = "success" =>
       current \in Runs /\ runs[current].tx = "landed" /\ runs[current].at = "done"

PageInv == FormInv /\ RunInv

LEMMA RunStarts ==
  ASSUME PageInv, phase = "idle",
         NEW first \in {"consent", "send"}, NEW amount \in Nat, NEW mounted \in BOOLEAN,
         Page!StartRun(first, amount, FALSE, mounted)
  PROVE  RunInv'
<1>1. PICK r \in Runs :
        /\ runs' = [runs EXCEPT ![r] =
                      [at |-> first, amount |-> amount, max |-> FALSE, burned |-> 0,
                       tx |-> "none", mounted |-> mounted]]
        /\ current' = IF mounted THEN r ELSE current
        /\ phase' = IF mounted THEN "sending" ELSE phase
  BY DEF Page!StartRun
<1>2. runs' \in [Runs -> RunType]
  BY <1>1 DEF PageInv, RunInv, RunType
<1>3. CASE mounted = TRUE
  BY <1>1, <1>2, <1>3 DEF PageInv, RunInv
<1>4. CASE mounted = FALSE
  BY <1>1, <1>2, <1>4 DEF PageInv, RunInv
<1> QED
  BY <1>3, <1>4

(* What a run reports reaches the surface while that is mounted.           *)
LEMMA RunSettles ==
  ASSUME PageInv,
         NEW r \in Runs, runs[r].at # "done",
         NEW tx \in {"none", "pending", "landed"},
         NEW outcome \in {"idle", "error", "success"},
         outcome = "success" => tx = "landed",
         Page!Settle(r, [runs[r] EXCEPT !.tx = tx], outcome)
  PROVE  PageInv'
<1>1. /\ runs' = [runs EXCEPT ![r] = [runs[r] EXCEPT !.tx = tx, !.at = "done"]]
      /\ phase' = IF runs[r].mounted THEN outcome ELSE phase
      /\ UNCHANGED <<form, asking, sheet, current>>
  BY DEF Page!Settle, PageInv, RunInv, RunType
<1>2. runs' \in [Runs -> RunType] /\ runs'[r].tx = tx /\ runs'[r].at = "done"
  BY <1>1, ZenonT(60) DEF PageInv, RunInv, RunType
<1>3. \A s \in Runs : s # r => runs'[s] = runs[s]
  BY <1>1 DEF PageInv, RunInv
<1>4. CASE runs[r].mounted = TRUE
  <2>1. r = current /\ phase = "sending" /\ phase' = outcome
    BY <1>1, <1>4 DEF PageInv, RunInv
  <2>2. FormInv'
    BY <1>1, <2>1 DEF PageInv, FormInv
  <2>3. RunInv'
    BY <1>1, <1>2, <1>3, <2>1 DEF PageInv, RunInv
  <2> QED
    BY <2>2, <2>3 DEF PageInv
<1>5. CASE runs[r].mounted = FALSE
  <2>1. phase' = phase
    BY <1>1, <1>5
  <2>2. FormInv'
    BY <1>1, <2>1 DEF PageInv, FormInv
  <2>3. RunInv'
    BY <1>1, <1>2, <1>3, <2>1 DEF PageInv, RunInv
  <2> QED
    BY <2>2, <2>3 DEF PageInv
<1> QED
  BY <1>4, <1>5 DEF PageInv, RunInv, RunType

LEMMA RunSettlesAsItIs ==
  ASSUME PageInv,
         NEW r \in Runs, runs[r].at # "done",
         NEW outcome \in {"idle", "error"},
         Page!Settle(r, runs[r], outcome)
  PROVE  PageInv'
<1>1. runs[r].tx \in {"none", "pending", "landed"} /\ [runs[r] EXCEPT !.tx = runs[r].tx] = runs[r]
  BY DEF PageInv, RunInv, RunType
<1> QED
  BY <1>1, RunSettles

LEMMA PageStep ==
  ASSUME Page!ConstantsOK, PageInv, Page!Next
  PROVE  PageInv'
<1>1. ASSUME NEW amount \in Amounts, Page!TypeAmount(amount) PROVE PageInv'
  BY <1>1 DEF Page!TypeAmount, Page!chainVars, Page!flowVars, Page!ConstantsOK, PageInv,
     FormInv, RunInv
<1>2. CASE Page!ConfirmDeposit
  BY <1>2 DEF Page!ConfirmDeposit, Page!flowVars, Page!FormShows, PageInv, FormInv, RunInv
<1>3. CASE Page!ConsentReadFails
  BY <1>3 DEF Page!ConsentReadFails, Page!flowVars, Page!NotAsking, PageInv, FormInv, RunInv
<1>4. CASE Page!DismissSheet
  BY <1>4 DEF Page!DismissSheet, Page!flowVars, PageInv, FormInv, RunInv
<1>5. CASE Page!ConsentRead
  <2>1. /\ asking.amount > 0 /\ phase = "idle" /\ sheet = FALSE
        /\ asking' = [amount |-> 0, mounted |-> FALSE] /\ form' = form
    BY <1>5 DEF Page!ConsentRead, Page!NotAsking, PageInv, FormInv
  <2>2. CASE consented
    <3>1. RunInv'
      BY <1>5, <2>1, <2>2, RunStarts DEF Page!ConsentRead, PageInv, FormInv
    <3>2. FormInv'
      BY <1>5, <2>1, <2>2 DEF Page!ConsentRead, PageInv, FormInv
    <3> QED
      BY <3>1, <3>2 DEF PageInv
  <2>3. CASE ~consented
    BY <1>5, <2>1, <2>3 DEF Page!ConsentRead, Page!flowVars, PageInv, FormInv, RunInv
  <2> QED
    BY <2>2, <2>3
<1>6. CASE Page!Agree
  <2>1. phase = "idle" /\ ~(asking.amount > 0) /\ sheet' = FALSE /\ UNCHANGED <<form, asking>>
    BY <1>6 DEF Page!Agree, PageInv, FormInv
  <2>2. RunInv'
    BY <1>6, <2>1, RunStarts DEF Page!Agree, PageInv, FormInv
  <2>3. FormInv'
    BY <2>1 DEF PageInv, FormInv
  <2> QED
    BY <2>2, <2>3 DEF PageInv
<1>7. ASSUME NEW r \in Runs, Page!SubmitConsent(r) PROVE PageInv'
  <2>1. runs[r].at = "consent"
    BY <1>7 DEF Page!SubmitConsent
  <2>2. \/ \E outcome \in {"idle", "error"} : Page!Settle(r, runs[r], outcome)
        \/ runs' = [runs EXCEPT ![r].at = "send"] /\ UNCHANGED <<phase, current, Page!formVars>>
    BY <1>7 DEF Page!SubmitConsent, Page!NothingSent, Page!Cancelled, Page!Caught, Page!Outcome
  <2>3. CASE runs' = [runs EXCEPT ![r].at = "send"] /\ UNCHANGED <<phase, current, Page!formVars>>
    <3>1. FormInv'
      BY <2>3 DEF Page!formVars, PageInv, FormInv
    <3>2. RunInv'
      BY <2>1, <2>3 DEF PageInv, RunInv, RunType
    <3> QED
      BY <3>1, <3>2 DEF PageInv
  <2> QED
    BY <2>1, <2>2, <2>3, RunSettlesAsItIs
<1>8. ASSUME NEW r \in Runs, Page!Submit(r) PROVE PageInv'
  <2>1. runs[r].at = "send"
    BY <1>8 DEF Page!Submit
  <2>2. \/ \E outcome \in {"idle", "error"} : Page!Settle(r, runs[r], outcome)
        \/ Page!Settle(r, [runs[r] EXCEPT !.tx = "landed"], "success")
        \/ Page!Settle(r, [runs[r] EXCEPT !.tx = "pending"], "error")
    BY <1>8 DEF Page!Submit, Page!NothingSent, Page!Cancelled, Page!Caught, Page!Outcome
  <2> QED
    BY <2>1, <2>2, RunSettles, RunSettlesAsItIs
<1>9. ASSUME NEW r \in Runs, Page!LandsLate(r) PROVE PageInv'
  BY <1>9 DEF Page!LandsLate, Page!formVars, PageInv, FormInv, RunInv, RunType
<1>10. CASE Page!LeaveScreen
  BY <1>10, ZenonT(60) DEF Page!LeaveScreen, Page!EmptyForm, PageInv, FormInv, RunInv, RunType
<1>11. CASE Page!Refresh
  BY <1>11 DEF Page!Refresh, Page!flowVars, PageInv, FormInv, RunInv
<1>12. CASE Page!Accrue
  BY <1>12 DEF Page!Accrue, Page!flowVars, Page!formVars, PageInv, FormInv, RunInv
<1>13. ASSUME NEW r \in Runs PROVE ~Page!PrepareWithdraw(r)
  BY DEF Page!PrepareWithdraw, PageInv, RunInv
<1> QED
  BY <1>1, <1>2, <1>3, <1>4, <1>5, <1>6, <1>7, <1>8, <1>9, <1>10, <1>11, <1>12, <1>13
     DEF Page!Next, Page!RunStep, Page!PressMax, Page!ConfirmWithdraw, Page!CloseDrawer,
         Page!BackToForm

(* The success screen of a deposit stands for a transaction in the ledger. *)
THEOREM SuccessTheorem ==
  Page!Spec => []SuccessMeansLanded
<1>1. Page!ConstantsOK
  BY BrowserAssumption
<1>2. Page!Init => PageInv
  <2> SUFFICES ASSUME Page!Init PROVE PageInv
    OBVIOUS
  <2>1. FormInv
    BY DEF Page!Init, Page!NotAsking, FormInv
  <2>2. runs \in [Runs -> RunType] /\ \A r \in Runs : runs[r].at = "done"
    BY DEF Page!Init, RunType
  <2>3. phase = "idle"
    BY DEF Page!Init
  <2> QED
    BY <2>1, <2>2, <2>3 DEF PageInv, RunInv
<1>3. PageInv /\ [Page!Next]_(Page!vars) => PageInv'
  <2> SUFFICES ASSUME PageInv, [Page!Next]_(Page!vars) PROVE PageInv'
    OBVIOUS
  <2>1. CASE Page!Next
    BY <1>1, <2>1, PageStep
  <2>2. CASE UNCHANGED Page!vars
    BY <2>2 DEF Page!vars, Page!chainVars, Page!formVars, Page!flowVars, PageInv, FormInv, RunInv
  <2> QED
    BY <2>1, <2>2
<1>4. PageInv => SuccessMeansLanded
  BY <1>1 DEF PageInv, RunInv, SuccessMeansLanded, Page!SuccessMeansLanded, Page!SuccessShows,
     Page!ConstantsOK
<1> QED
  BY <1>2, <1>3, <1>4, PTL DEF Page!Spec

=============================================================================
