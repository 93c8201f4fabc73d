------------------------------ MODULE MCLoops ------------------------------
(***************************************************************************)
(* The loops of the backend for TLC, side by side: the keeper's ticks, the *)
(* chain poller, and Sentinel, which the keeper knows only as pools being  *)
(* flagged. They share neither state nor events, so `part` says which of   *)
(* them runs, and the others keep still.                                   *)
(***************************************************************************)
EXTENDS MCKeeper

CONSTANTS
  PageLimit, MaxPages, Retention, RetentionMargin, StartSettings, NoCursor,
  MaxTip, MaxEvents, MaxBoots,
  Readings, Missing, maxRetries, Signers

VARIABLES
  part,
  log, tip, phase, startLedger, stored, cursor, pages, news, shown, boots,
  signer, status, reading, verdict, attempts, given, wasFrozen, alerted

sentinelVars == <<signer, status, reading, verdict, attempts, given, wasFrozen, alerted>>
pollerVars == <<log, tip, phase, startLedger, stored, cursor, pages, news, shown, boots>>

Poller == INSTANCE MCChainPoller

Sentinel == INSTANCE Sentinel

(* A read is a count or a price, so any negative number stands for none.   *)
NoRead == -1

(* Around the thresholds of 5 % and 1 %, with any read missing or zero.    *)
ReadingsAtThresholds ==
  [liquidity : {1000}, position : {49, 50, 190, 200}, twap : {1000},
   spot : {990, 991, 1000}] \cup
  [liquidity : {NoRead, 0, 1000}, position : {49}, twap : {NoRead, 1000},
   spot : {NoRead, 1000}] \cup
  [liquidity : {1000}, position : {190}, twap : {0}, spot : {0, 1000}]

ASSUME LoopsAssumption == Poller!ConstantsOK /\ Sentinel!ConstantsOK

LoopsInit ==
  /\ part \in {"keeper", "poller", "sentinel"}
  /\ Init /\ Poller!BoundedInit /\ Sentinel!Init
  /\ part # "sentinel" => signer = "keeper" /\ status = "active"
  /\ part # "keeper" => driver = "cron" /\ active = p1

LoopsNext ==
  \/ part = "keeper" /\ BoundedNext /\ UNCHANGED <<part, pollerVars, sentinelVars>>
  \/ part = "poller" /\ Poller!BoundedNext /\ UNCHANGED <<part, vars, sentinelVars>>
  \/ part = "sentinel" /\ Sentinel!Next /\ UNCHANGED <<part, vars, pollerVars>>

(* Keeper!Fairness, while that part runs. A poller that is down asks for   *)
(* nothing, so its own fairness needs no such condition.                   *)
InKeeper(A) == part = "keeper" /\ A

KeeperFairness ==
  /\ WF_vars(InKeeper(StartTick)) /\ WF_vars(InKeeper(Reads \/ TickThrows \/ Submits))
  /\ SF_vars(InKeeper(ReadActive)) /\ SF_vars(InKeeper(ReadExit))
  /\ \A op \in {"allocate", "deallocate", "freeze", "propose"} :
       SF_vars(InKeeper(SubmitLands /\ Head(tick.calls).op = op))

LoopsSpec ==
  /\ LoopsInit /\ [][LoopsNext]_<<part, vars, pollerVars, sentinelVars>>
  /\ KeeperFairness /\ Poller!Fairness

-----------------------------------------------------------------------------
(* A poll cut short loses nothing.                                         *)
CursorSkipsNothing == Poller!CursorSkipsNothing

(* The routes are shown an unbroken run of the chain's events, in order.   *)
ImplementsEventFeed == Poller!ImplementsEventFeed

(* A broken feed or a drained pool is never called safe, and a freeze that *)
(* was not made is alerted.                                                *)
ThreatIsAnswered == Sentinel!ThreatIsAnswered

(* An event reaches the store of a process that keeps running.             *)
EveryEventIsStored == Poller!EveryEventIsStored
=============================================================================
