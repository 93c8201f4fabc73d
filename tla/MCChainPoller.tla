---------------------------- MODULE MCChainPoller ----------------------------
(***************************************************************************)
(* ChainPoller for TLC: the chain stops growing at MaxTip ledgers and      *)
(* MaxEvents events, and the process starts at most MaxBoots times.        *)
(***************************************************************************)
EXTENDS ChainPoller

CONSTANTS MaxTip, MaxEvents, MaxBoots

VARIABLE boots   (* How often the process was started.                      *)

WithinBounds == tip <= MaxTip /\ Len(log) <= MaxEvents /\ boots <= MaxBoots

BoundedInit == Init /\ boots = 0

BoundedNext ==
  /\ Next
  /\ boots' = IF phase = "down" /\ phase' # "down" THEN boots + 1 ELSE boots
  /\ WithinBounds'

BoundedSpec == BoundedInit /\ [][BoundedNext]_<<vars, boots>> /\ Fairness

(* EventIsStored for every event of the bounded chain: a poll that failed   *)
(* or was cut short at the page cap is made good by the ones that follow.  *)
EveryEventIsStored == \A e \in 1 .. MaxEvents : EventIsStored(e)

(* StoredEventIsShown for every event of the bounded chain. The code does   *)
(* not keep it: after a poll that failed between pages, a poll that finds  *)
(* nothing newer shows nothing.                                            *)
EveryStoredEventIsShown == \A e \in 1 .. MaxEvents : StoredEventIsShown(e)
=============================================================================
