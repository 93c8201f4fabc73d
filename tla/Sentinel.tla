------------------------------- MODULE Sentinel -------------------------------
(***************************************************************************)
(* Sentinel (backend/src/sentinel): a pool's raw signals, the score and    *)
(* the anomaly flag they make, and the path that freezes the pool of an    *)
(* anomaly on chain, over a network that may fail, while the operator      *)
(* freezes and unfreezes it.                                               *)
(*                                                                         *)
(* No process runs it; assessing and then freezing is how the backend's    *)
(* integration test composes the two. A read is an integer or Missing, and *)
(* fractions are compared crosswise, so nothing is rounded but the score.  *)
(***************************************************************************)
EXTENDS Naturals, Integers

CONSTANTS
  Readings,      (* Of one pool: [liquidity, position, twap, spot].         *)
  Missing,       (* A read that failed or is stale.                         *)
  maxRetries,
  Signers        (* Roles of the key that freezePool may be given.          *)

ConstantsOK ==
  /\ Missing \in Int /\ Missing < 0 /\ maxRetries \in Nat
  /\ Readings \subseteq [liquidity : Int, position : Nat, twap : Int, spot : Nat \cup {Missing}]

VARIABLES
  signer,        (* The role of the key at hand.                            *)
  status,        (* The chain: the pool's status.                           *)
  reading,       (* What was last assessed.                                 *)
  verdict,       (* What came of it: "safe", "freezing" at the status read  *)
                 (* or "submitting", then the outcome of freezePool.        *)
  attempts,      (* Submissions so far.                                     *)
  given,         (* One that was given up may still land.                   *)
  wasFrozen,     (* Has the pool been frozen since it was assessed. No      *)
                 (* variable of the code.                                   *)
  alerted

vars == <<signer, status, reading, verdict, attempts, given, wasFrozen, alerted>>

Calling == verdict \in {"freezing", "submitting"}

-----------------------------------------------------------------------------
(* signals.ts: 5 % of the liquidity is thin, 1 % off the average deviates,  *)
(* and four times as much is the most that a signal weighs.                *)
Lower(a, b) == IF a < b THEN a ELSE b

Apart(a, b) == IF a < b THEN b - a ELSE a - b

(* [n, d]: a value n / d of at most 1.                                     *)
MaximalRisk == [n |-> 1, d |-> 1, tripped |-> TRUE, missing |-> TRUE]

liquiditySignal(r) ==
  IF r.liquidity <= 0 THEN MaximalRisk
  ELSE [n |-> Lower(r.liquidity, 5 * r.position), d |-> r.liquidity,
        tripped |-> 20 * r.position >= r.liquidity, missing |-> FALSE]

oracleDeviationSignal(r) ==
  IF r.twap <= 0 \/ r.spot = Missing THEN MaximalRisk
  ELSE LET off == Apart(r.spot, r.twap)
       IN [n |-> Lower(r.twap, 25 * off), d |-> r.twap,
           tripped |-> 100 * off >= r.twap, missing |-> FALSE]

-----------------------------------------------------------------------------
(* score.ts *)
SAFE_SCORE_CEILING == 50

Score(liq, orc) ==
  LET n == 50 * (liq.n * orc.d + orc.n * liq.d)
      d == liq.d * orc.d
  IN (2 * n + d) \div (2 * d)

failClosed(liq, orc) == liq.missing \/ orc.missing

scorePool(r) ==
  LET liq == liquiditySignal(r)
      orc == oracleDeviationSignal(r)
  IN [score |-> IF failClosed(liq, orc) THEN 100 ELSE Score(liq, orc),
      anomaly |-> \/ failClosed(liq, orc)
                  \/ liq.tripped /\ orc.tripped
                  \/ Score(liq, orc) >= SAFE_SCORE_CEILING]

-----------------------------------------------------------------------------
Init ==
  /\ signer \in Signers /\ status \in {"active", "frozen"}
  /\ reading = CHOOSE r \in Readings : TRUE
  /\ verdict = "none" /\ attempts = 0
  /\ given = FALSE /\ wasFrozen = FALSE /\ alerted = FALSE

(* An anomaly goes on to freezePool, which acts with the keeper's key only. *)
Assess ==
  /\ ~Calling
  /\ reading' \in Readings
  /\ verdict' = IF ~scorePool(reading').anomaly THEN "safe"
                ELSE IF signer # "keeper" THEN "refused" ELSE "freezing"
  /\ attempts' = 0 /\ alerted' = FALSE /\ wasFrozen' = (status = "frozen")
  /\ UNCHANGED <<signer, status, given>>

ReadStatus ==
  /\ verdict = "freezing"
  /\ verdict' = IF status = "frozen" THEN "already-frozen" ELSE "submitting"
  /\ UNCHANGED <<signer, status, reading, attempts, given, wasFrozen, alerted>>

(* It is not caught.                                                       *)
StatusThrows ==
  /\ verdict = "freezing"
  /\ verdict' = "threw"
  /\ UNCHANGED <<signer, status, reading, attempts, given, wasFrozen, alerted>>

(* A transaction of the key takes the sequence number of one given up.     *)
Lands(to) ==
  /\ status' = to /\ given' = FALSE
  /\ wasFrozen' = (wasFrozen \/ to = "frozen")

AnySuccess(success) == TRUE

Succeeded(success) == success

(* After a submission: the outcome, or one more, or the alert.             *)
Returns(success) ==
  /\ attempts' = attempts + 1
  /\ \/ Succeeded(success) /\ verdict' = "frozen" /\ UNCHANGED alerted
     \/ /\ ~Succeeded(success) /\ attempts < maxRetries
        /\ UNCHANGED <<verdict, alerted>>
     \/ /\ ~Succeeded(success) /\ attempts = maxRetries
        /\ verdict' = "failed" /\ alerted' = TRUE
  /\ UNCHANGED <<signer, reading>>

SubmitLands ==
  /\ verdict = "submitting"
  /\ Lands("frozen") /\ Returns(TRUE)

(* success: false; the sequence number is used up.                         *)
SubmitRejected ==
  /\ verdict = "submitting"
  /\ Lands(status) /\ Returns(FALSE)

(* It throws: nothing was sent, or it may still land.                      *)
SubmitThrows ==
  /\ verdict = "submitting"
  /\ given' \in {given, TRUE}
  /\ Returns(FALSE) /\ UNCHANGED <<status, wasFrozen>>

(* It landed, but the answer was lost.                                     *)
SubmitUnseen ==
  /\ verdict = "submitting"
  /\ Lands("frozen") /\ Returns(FALSE)

LandsLate ==
  /\ given /\ Lands("frozen")
  /\ UNCHANGED <<signer, reading, verdict, attempts, alerted>>

(* The operator's commands, by the same key.                               *)
OperatorCall ==
  /\ \E to \in {"active", "frozen"} : Lands(to)
  /\ UNCHANGED <<signer, reading, verdict, attempts, alerted>>

Next ==
  \/ Assess \/ ReadStatus \/ StatusThrows
  \/ SubmitLands \/ SubmitRejected \/ SubmitThrows \/ SubmitUnseen
  \/ LandsLate \/ OperatorCall

Spec == Init /\ [][Next]_vars

-----------------------------------------------------------------------------
(* A feed that does not answer, or the YieldBlox shape.                    *)
Dangerous(r) ==
  \/ Missing \in {r.liquidity, r.twap, r.spot}
  \/ 20 * r.position >= r.liquidity /\ 100 * Apart(r.spot, r.twap) >= r.twap

(* Reading s is as bad as r, or worse, in each of its signals.             *)
AsBad(s, r) ==
  /\ s.liquidity > 0 =>
       r.liquidity > 0 /\ s.position * r.liquidity >= r.position * s.liquidity
  /\ s.twap > 0 /\ s.spot # Missing =>
       /\ r.twap > 0 /\ r.spot # Missing
       /\ Apart(s.spot, s.twap) * r.twap >= Apart(r.spot, r.twap) * s.twap

(* Whatever the network does, nothing that is as bad as a broken feed or   *)
(* the YieldBlox shape is ever called safe (signals.ts: "a broken feed can *)
(* never look safe"), a pool reported frozen has been frozen since it was  *)
(* assessed, and a keeper that gives up has alerted (freeze.ts: it "alerts *)
(* rather than silently dropping").                                        *)
ThreatIsAnswered ==
  /\ verdict = "safe" => \A r \in Readings : Dangerous(r) => ~AsBad(reading, r)
  /\ verdict \in {"frozen", "already-frozen"} => wasFrozen
  /\ verdict = "failed" => alerted
=============================================================================
