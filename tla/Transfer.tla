------------------------------ MODULE Transfer ------------------------------
(***************************************************************************)
(* One depositor moving money in the browser: the deposit and withdraw     *)
(* surfaces (DepositKeypad, WithdrawKeypad, AddFundsDrawer,                *)
(* WithdrawDrawer) and the status flow they share (useTransferFlow.ts),    *)
(* over one bucket of the vault.                                           *)
(*                                                                         *)
(* A run is one call of the submit function. It goes on when the surface   *)
(* that started it is closed; what it then reports depends on the surface. *)
(***************************************************************************)
EXTENDS ShareMath

CONSTANTS
  Surface,       (* "screen" (a page, unmounted when left) or "drawer".      *)
  Op,            (* What it does: "deposit" or "withdraw".                  *)
  Amounts,       (* What may be typed.                                      *)
  SCALE,         (* SHARE_PRICE_SCALE.                                      *)
  Runs,          (* Identifies runs; a settled one may be reused.           *)
  Faults,        (* What a submission may meet, of FaultKinds.              *)
  NoRun

FaultKinds == {"cancelled", "fails", "rejected", "lost"}

(* What a composition must give the constants.                             *)
ConstantsOK ==
  /\ Surface \in {"screen", "drawer"} /\ Op \in {"deposit", "withdraw"}
  /\ Amounts \subseteq Nat \ {0} /\ SCALE \in Nat \ {0}
  /\ NoRun \notin Runs /\ Faults \subseteq FaultKinds

VARIABLES
  shares, nav,       (* The bucket, all of it the depositor's.              *)
  consented,         (* The safety mandate, on chain.                       *)
  form,              (* [amount, max, shown]: what is typed, and the value   *)
                     (* of the bucket as last read.                         *)
  asking,            (* While hasConsent is awaited: for which [amount], and *)
                     (* whether the asking surface is still mounted.        *)
  busyRun,           (* The run that onConfirm awaits, or NoRun.            *)
  sheet,             (* The consent sheet is open.                          *)
  phase,             (* TransferPhase.                                      *)
  current,           (* The run the surface started last, or NoRun.         *)
  runs               (* Each run: see Run.                                  *)

chainVars == <<shares, nav, consented>>
formVars  == <<form, asking, busyRun, sheet>>
flowVars  == <<phase, current, runs>>
vars == <<chainVars, formVars, flowVars>>

Run == [at : {"consent", "prepare", "send", "done"},
        amount : Nat, max : BOOLEAN, burned : Nat,
        tx : {"none", "pending", "landed"}, mounted : BOOLEAN]

Value == RedeemAssets(shares, shares, nav)

SharePrice == ((nav + VirtualOffset) * SCALE) \div (shares + VirtualOffset)

NotAsking == [amount |-> 0, mounted |-> FALSE]

Busy == (asking.amount > 0 /\ asking.mounted) \/ busyRun # NoRun

(* To withdraw, there is something to withdraw.                            *)
Init ==
  /\ consented = (Op = "withdraw")
  /\ shares \in IF Op = "withdraw" THEN Amounts ELSE {0}
  /\ nav = shares
  /\ form = [amount |-> 0, max |-> FALSE, shown |-> shares]
  /\ asking = NotAsking /\ busyRun = NoRun /\ sheet = FALSE
  /\ phase = "idle" /\ current = NoRun
  /\ runs = [r \in Runs |-> [at |-> "done", amount |-> 0, max |-> FALSE, burned |-> 0,
                             tx |-> "none", mounted |-> FALSE]]

-----------------------------------------------------------------------------
(* What the surface shows: its form, or in the form's place the screen of  *)
(* the flow's phase; the consent sheet covers the form.                    *)
FormShows    == phase = "idle" /\ ~sheet
SendingShows == phase = "sending"
SuccessShows == phase = "success"
ErrorShows   == phase = "error"

(* The form.                                                               *)
TypeAmount(amount) ==
  /\ FormShows
  /\ form' = [form EXCEPT !.amount = amount, !.max = FALSE]
  /\ UNCHANGED <<chainVars, asking, busyRun, sheet, flowVars>>

PressMax ==
  /\ FormShows /\ Op = "withdraw" /\ form.shown > 0
  /\ form' = [form EXCEPT !.amount = form.shown, !.max = TRUE]
  /\ UNCHANGED <<chainVars, asking, busyRun, sheet, flowVars>>

Free(r) == runs[r].at = "done" /\ runs[r].tx # "pending"

(* useTransferFlow's run.                                                  *)
StartRun(first, amount, max, mounted) ==
  \E r \in Runs :
    /\ Free(r)
    /\ runs' = [runs EXCEPT ![r] =
                  [at |-> first, amount |-> amount, max |-> max, burned |-> 0,
                   tx |-> "none", mounted |-> mounted]]
    /\ current' = IF mounted THEN r ELSE current
    /\ phase' = IF mounted THEN "sending" ELSE phase

(* Deposit: consent is read first, while the form stays editable.          *)
ConfirmDeposit ==
  /\ Op = "deposit" /\ ~Busy /\ FormShows /\ form.amount > 0
  /\ asking = NotAsking
  /\ asking' = [amount |-> form.amount, mounted |-> TRUE]
  /\ UNCHANGED <<chainVars, form, busyRun, sheet, flowVars>>

ConsentRead ==
  /\ asking.amount > 0
  /\ asking' = NotAsking
  /\ IF consented
     THEN /\ StartRun("send", asking.amount, FALSE, asking.mounted)
          /\ busyRun' = IF asking.mounted THEN current' ELSE busyRun
          /\ UNCHANGED sheet
     ELSE sheet' = (sheet \/ asking.mounted) /\ UNCHANGED <<busyRun, flowVars>>
  /\ UNCHANGED <<chainVars, form>>

ConsentReadFails ==
  /\ asking.amount > 0 /\ "fails" \in Faults
  /\ asking' = NotAsking
  /\ UNCHANGED <<chainVars, form, busyRun, sheet, flowVars>>

Agree ==
  /\ sheet
  /\ sheet' = FALSE
  /\ StartRun("consent", form.amount, FALSE, TRUE)
  /\ UNCHANGED <<chainVars, form, asking, busyRun>>

DismissSheet ==
  /\ sheet /\ sheet' = FALSE
  /\ UNCHANGED <<chainVars, form, asking, busyRun, flowVars>>

ConfirmWithdraw ==
  /\ Op = "withdraw" /\ FormShows /\ form.amount \in 1 .. form.shown
  /\ StartRun("prepare", form.amount, form.max, TRUE)
  /\ UNCHANGED <<chainVars, formVars>>

-----------------------------------------------------------------------------
(* A run. What it reports reaches the surface only while that is mounted.  *)
Settle(r, run, outcome) ==
  /\ runs' = [runs EXCEPT ![r] = [run EXCEPT !.at = "done"]]
  /\ phase' = IF run.mounted THEN outcome ELSE phase
  /\ busyRun' = IF busyRun = r THEN NoRun ELSE busyRun
  /\ UNCHANGED <<form, asking, sheet, current>>

ResolvedIsSuccess(success) == "success"

Outcome(success) == IF success THEN "success" ELSE "error"

Uncaught == "sending"

Caught == "error"

(* signTransaction: the user dismissed the wallet, which shows the form.   *)
Cancelled(r) == "cancelled" \in Faults /\ Settle(r, runs[r], "idle")

(* No write was made: that, or something threw.                            *)
NothingSent(r) == Cancelled(r) \/ ("fails" \in Faults /\ Settle(r, runs[r], Caught))

SubmitConsent(r) ==
  /\ runs[r].at = "consent"
  /\ \/ NothingSent(r) /\ UNCHANGED consented
     \/ \E outcome \in {"lands", "rejected", "lost"} :
          /\ outcome \in {"lands"} \cup Faults
          /\ consented' \in CASE outcome = "lands" -> {TRUE}
                              [] outcome = "rejected" -> {consented}
                              [] outcome = "lost" -> {TRUE, consented}
          /\ IF outcome = "lands"
             THEN /\ runs' = [runs EXCEPT ![r].at = "send"]
                  /\ UNCHANGED <<phase, current, formVars>>
             ELSE Settle(r, runs[r], Outcome(FALSE))
  /\ UNCHANGED <<shares, nav>>

(* shares = amount * SCALE / sharePrice, or all of them for Max; with      *)
(* nothing to burn the submit returns nothing, and that is no failure.     *)
SharesFor(run) ==
  IF run.max THEN shares ELSE (run.amount * SCALE) \div SharePrice

PrepareWithdraw(r) ==
  /\ runs[r].at = "prepare"
  /\ IF SharesFor(runs[r]) > 0
     THEN /\ runs' = [runs EXCEPT ![r].at = "send", ![r].burned = SharesFor(runs[r])]
          /\ UNCHANGED <<phase, current, formVars>>
     ELSE Settle(r, runs[r], "success")
  /\ UNCHANGED chainVars

Accepted(run) ==
  IF Op = "deposit" THEN consented /\ MintShares(run.amount, shares, nav) > 0
                    ELSE run.burned <= shares

Lands(run) ==
  /\ IF Op = "deposit"
     THEN /\ shares' = shares + MintShares(run.amount, shares, nav)
          /\ nav' = nav + run.amount
     ELSE /\ shares' = shares - run.burned
          /\ nav' = nav - RedeemAssets(run.burned, shares, nav)
  /\ UNCHANGED consented

(* signAndSubmit: the simulation refuses it, the ledger takes it, rejects  *)
(* it, or has it while the answer is lost.                                 *)
Submit(r) ==
  /\ runs[r].at = "send"
  /\ \/ NothingSent(r) /\ UNCHANGED chainVars
     \/ ~Accepted(runs[r]) /\ Settle(r, runs[r], Caught) /\ UNCHANGED chainVars
     \/ /\ Accepted(runs[r]) /\ Lands(runs[r])
        /\ Settle(r, [runs[r] EXCEPT !.tx = "landed"], Outcome(TRUE))
     \/ /\ Accepted(runs[r]) /\ "rejected" \in Faults
        /\ Settle(r, runs[r], Outcome(FALSE))
        /\ UNCHANGED chainVars
     \/ /\ Accepted(runs[r]) /\ "lost" \in Faults
        /\ Settle(r, [runs[r] EXCEPT !.tx = "pending"], Caught)
        /\ UNCHANGED chainVars

LandsLate(r) ==
  /\ runs[r].tx = "pending"
  /\ IF Accepted(runs[r])
     THEN Lands(runs[r]) /\ runs' = [runs EXCEPT ![r].tx = "landed"]
     ELSE UNCHANGED chainVars /\ runs' = [runs EXCEPT ![r].tx = "none"]
  /\ UNCHANGED <<formVars, phase, current>>

-----------------------------------------------------------------------------
(* Leaving. A drawer resets its flow; a page is unmounted.                 *)
EmptyForm == [form EXCEPT !.amount = 0, !.max = FALSE]

CloseDrawer ==
  /\ Surface = "drawer"
  /\ form' = EmptyForm /\ sheet' = FALSE /\ phase' = "idle"
  /\ UNCHANGED <<chainVars, asking, busyRun, current, runs>>

LeaveScreen ==
  /\ Surface = "screen"
  /\ form' = EmptyForm /\ sheet' = FALSE /\ phase' = "idle"
  /\ asking' = [asking EXCEPT !.mounted = FALSE]
  /\ busyRun' = NoRun /\ current' = NoRun
  /\ runs' = [r \in Runs |-> [runs[r] EXCEPT !.mounted = FALSE]]
  /\ UNCHANGED chainVars

(* Reset from the error screen.                                            *)
BackToForm ==
  /\ ErrorShows /\ (Surface = "drawer" \/ Op = "withdraw")
  /\ phase' = "idle"
  /\ UNCHANGED <<chainVars, formVars, current, runs>>

(* useBuckets reads the value again, now or at its next poll.              *)
Refresh ==
  /\ form.shown # Value
  /\ form' = [form EXCEPT !.shown = Value]
  /\ UNCHANGED <<chainVars, asking, busyRun, sheet, flowVars>>

(* Interest in the bucket's pools.                                         *)
Accrue ==
  /\ shares > 0 /\ nav' = nav + 1
  /\ UNCHANGED <<shares, consented, formVars, flowVars>>

RunStep(r) == SubmitConsent(r) \/ PrepareWithdraw(r) \/ Submit(r)

Next ==
  \/ \E amount \in Amounts : TypeAmount(amount)
  \/ PressMax \/ ConfirmDeposit \/ ConsentRead \/ ConsentReadFails
  \/ Agree \/ DismissSheet \/ ConfirmWithdraw
  \/ \E r \in Runs : RunStep(r) \/ LandsLate(r)
  \/ CloseDrawer \/ LeaveScreen \/ BackToForm \/ Refresh \/ Accrue

Spec == Init /\ [][Next]_vars

(* The network answers, and so does the user when his wallet asks.         *)
FairSpec == Spec /\ \A r \in Runs : WF_vars(RunStep(r))

-----------------------------------------------------------------------------
(* What success on the screen stands for: the last run's transaction is in *)
(* the ledger. A resolved promise is no proof of that, nor is the result   *)
(* of another run. (useTransferFlow.ts: "A submit that returns a TxResult  *)
(* with success: false lands in error, never success".)                    *)
SuccessMeansLanded ==
  SuccessShows => current # NoRun /\ runs[current].tx = "landed"

(* The sending screen is left again, whatever happens to the submission.   *)
SendingEnds == SendingShows ~> ~SendingShows

=============================================================================
