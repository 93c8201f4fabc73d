----------------------------- MODULE ExitApproval -----------------------------
(***************************************************************************)
(* Approving a safe exit in the browser: what usePendingExit reads of the  *)
(* vault, call by call, and the approval that useExitApproval submits      *)
(* (ExitApprovalBody.tsx), while the keeper freezes, proposes and replaces *)
(* and another depositor of the bucket approves as well.                   *)
(*                                                                         *)
(* The vault is reduced to what these calls see of it. A currency has two  *)
(* pools, TRUE and FALSE, and an exit leads from one to the other.         *)
(***************************************************************************)
EXTENDS Naturals, Sequences

CONSTANTS
  Buckets,         (* ACTIVE_BUCKET_CURRENCIES, a sequence.                 *)
  Faults,          (* What a call may meet, of {"throws", "lost"}.          *)
  MaxExits         (* Bound on proposals.                                   *)

ConstantsOK == Buckets \in Seq(STRING) \ {<<>>} /\ Faults \subseteq {"throws", "lost"}

Currencies == {Buckets[i] : i \in DOMAIN Buckets}

VARIABLES
  active,          (* Per currency: the active pool.                        *)
  frozen,          (* Frozen pools, <<currency, pool>>.                     *)
  pending,         (* Per currency: the pending proposal, or NoExit.        *)
  exits,           (* ExitCounter.                                          *)
  view,            (* What the surface shows: see View, or NoView.          *)
  reading,         (* The read under way: [bucket, stage, proposal].        *)
  press,           (* The view whose approval is under way, or NoView.      *)
  late             (* An approval given up that may still land.             *)

chainVars == <<active, frozen, pending, exits>>
vars == <<chainVars, view, reading, press, late>>

NoExit == [id |-> 0, to |-> FALSE]
Move(currency, proposal) == [currency |-> currency, proposal |-> proposal]
NoView == Move("none", NoExit)

NoRead == [bucket |-> 0, stage |-> "done", proposal |-> NoExit]
StartedRead == [bucket |-> 1, stage |-> "status", proposal |-> NoExit]

Init ==
  /\ active = [c \in Currencies |-> TRUE] /\ frozen = {}
  /\ pending = [c \in Currencies |-> NoExit] /\ exits = 0
  /\ view = NoView /\ reading = StartedRead
  /\ press = NoView /\ late = NoView

-----------------------------------------------------------------------------
(* The keeper.                                                             *)
Freeze(c, pool) ==
  /\ frozen' = frozen \cup {<<c, pool>>}
  /\ UNCHANGED <<active, pending, exits, view, reading, press, late>>

Unfreeze(c, pool) ==
  /\ frozen' = frozen \ {<<c, pool>>}
  /\ UNCHANGED <<active, pending, exits, view, reading, press, late>>

(* It takes the place of the proposal that pends.                          *)
ProposeExit(c, to) ==
  /\ exits < MaxExits
  /\ exits' = exits + 1
  /\ pending' = [pending EXCEPT ![c] = [id |-> exits', to |-> to]]
  /\ UNCHANGED <<active, frozen, view, reading, press, late>>

(* approve_exit: the proposal that pends under this id, of whatever bucket.*)
FoundInBucket(p) == {c \in {p.currency} : pending[c] # NoExit}

Found(p) == {c \in Currencies : pending[c] # NoExit /\ pending[c].id = p.proposal.id}

Executable(c) ==
  LET to == pending[c].to
  IN <<c, ~to>> \in frozen /\ <<c, to>> \notin frozen

Execute(c) ==
  /\ Executable(c)
  /\ active' = [active EXCEPT ![c] = pending[c].to]
  /\ pending' = [pending EXCEPT ![c] = NoExit]
  /\ UNCHANGED <<frozen, exits>>

OthersApprove(c) ==
  /\ pending[c] # NoExit /\ Execute(c)
  /\ UNCHANGED <<view, reading, press, late>>

-----------------------------------------------------------------------------
(* usePendingExit. A new effect drops the one before it.                   *)
Mount ==
  /\ view' = NoView /\ reading' = StartedRead /\ press' = NoView
  /\ late' = IF press # NoView THEN press ELSE late
  /\ press = NoView \/ late = NoView
  /\ UNCHANGED chainVars

(* Another surface wrote and bumped the version.                           *)
Bump ==
  /\ reading' = StartedRead
  /\ UNCHANGED <<chainVars, view, press, late>>

Bucket == Buckets[reading.bucket]

(* activePool and poolStatus, up to the first bucket that is frozen.       *)
ReadStatus ==
  /\ reading.stage = "status"
  /\ LET isFrozen == <<Bucket, active[Bucket]>> \in frozen
     IN IF isFrozen
        THEN reading' = [reading EXCEPT !.stage = "proposal"] /\ UNCHANGED view
        ELSE IF reading.bucket < Len(Buckets)
        THEN reading' = [reading EXCEPT !.bucket = @ + 1] /\ UNCHANGED view
        ELSE reading' = NoRead /\ view' = NoView
  /\ UNCHANGED <<chainVars, press, late>>

ReadProposal ==
  /\ reading.stage = "proposal"
  /\ reading' = [reading EXCEPT !.stage = "amount", !.proposal = pending[Bucket]]
  /\ UNCHANGED <<chainVars, view, press, late>>

(* The amount and, by resolveExitTarget, the name of the target: that the  *)
(* second fails blanks the name only.                                      *)
ReadEnds ==
  /\ reading.stage = "amount"
  /\ view' = Move(Bucket, reading.proposal)
  /\ reading' = NoRead
  /\ UNCHANGED <<chainVars, press, late>>

(* A call of the vault throws: what was shown stays.                       *)
ReadThrows ==
  /\ reading # NoRead /\ "throws" \in Faults
  /\ reading' = NoRead
  /\ UNCHANGED <<chainVars, view, press, late>>

-----------------------------------------------------------------------------
(* onApprove, on the view of this moment; one at a time.                   *)
Approve ==
  /\ press = NoView /\ view.proposal # NoExit
  /\ press' = view
  /\ UNCHANGED <<chainVars, view, reading, late>>

Lands(p) == \E c \in Found(p) : Execute(c)

(* Bump, toast, and the sheet is closed.                                   *)
ApprovalLands ==
  /\ press # NoView
  /\ Lands(press)
  /\ press' = NoView /\ reading' = StartedRead
  /\ UNCHANGED <<view, late>>

(* success: false, dismissed in the wallet, refused in simulation, or not  *)
(* sent: a toast or none, and nothing else.                                *)
ApprovalFails ==
  /\ press # NoView
  /\ press' = NoView
  /\ UNCHANGED <<chainVars, view, reading, late>>

(* The answer is lost, the transaction is not.                             *)
AnswerLost ==
  /\ press # NoView /\ late = NoView /\ "lost" \in Faults
  /\ late' = press /\ press' = NoView
  /\ UNCHANGED <<chainVars, view, reading>>

LandsLate ==
  /\ late # NoView /\ late' = NoView
  /\ Lands(late) \/ UNCHANGED chainVars
  /\ UNCHANGED <<view, reading, press>>

Read == ReadStatus \/ ReadProposal \/ ReadEnds

KeeperActs ==
  \E c \in Currencies, pool \in BOOLEAN :
    Freeze(c, pool) \/ Unfreeze(c, pool) \/ ProposeExit(c, pool)

Next ==
  \/ KeeperActs
  \/ \E c \in Currencies : OthersApprove(c)
  \/ Mount \/ Bump \/ Read \/ ReadThrows
  \/ Approve \/ ApprovalLands \/ ApprovalFails \/ AnswerLost \/ LandsLate

Spec == Init /\ [][Next]_vars

(* A page that stays open, and from which nothing is written.              *)
WatchSpec == Init /\ [][KeeperActs \/ Read]_vars /\ WF_vars(Read)

-----------------------------------------------------------------------------
(* An approval moves the bucket the user was shown to the pool he was      *)
(* shown, or nothing, though the keeper may have proposed another exit and *)
(* the approval may land late.                                             *)
ApprovalMovesWhatWasShown ==
  [][\A p \in {press, late} :
       p # NoView /\ p \notin {press', late'} /\ pending' # pending =>
         /\ pending[p.currency] = p.proposal
         /\ active' = [active EXCEPT ![p.currency] = p.proposal.to]]_vars

(* An exit that stays pending out of a frozen pool is offered to the user  *)
(* (useHoldings: a keeper's rebalance, a Sentinel freeze "must land on      *)
(* screen without a reload"). usePendingExit reads the vault when its       *)
(* surface is mounted and when the app has written, and never else.        *)
ExitIsOffered ==
  \A c \in Currencies :
    LET Waits == <<c, active[c]>> \in frozen /\ pending[c] # NoExit
    IN Waits ~> (~Waits \/ view.proposal # NoExit)
=============================================================================
