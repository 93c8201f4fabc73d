------------------------------ MODULE EventFeed ------------------------------
(***************************************************************************)
(* What the activity and earnings routes are promised about the vault's    *)
(* history: they are shown a run of the chain's events, in the chain's     *)
(* order, each once and none left out. The run only gets longer, until the *)
(* process restarts and a new one begins.                                  *)
(***************************************************************************)
EXTENDS Integers, Sequences

VARIABLES
  closed,    (* How many events the chain holds; event e is the e-th.       *)
  base,      (* The run shown starts after this event.                      *)
  feed       (* The events shown, by their numbers.                         *)

feedVars == <<closed, base, feed>>

Run(from, n) == [i \in 1 .. n |-> from + i]

Init == closed = 0 /\ base = 0 /\ feed = <<>>

(* The chain grows.                                                        *)
Close ==
  /\ closed' \in Nat
  /\ closed' > closed
  /\ UNCHANGED <<base, feed>>

(* More of it is shown.                                                    *)
Show ==
  /\ \E n \in Len(feed) + 1 .. closed - base : feed' = Run(base, n)
  /\ UNCHANGED <<closed, base>>

Restart ==
  /\ base' \in 0 .. closed
  /\ feed' = <<>>
  /\ UNCHANGED closed

Next == Close \/ Show \/ Restart

Spec == Init /\ [][Next]_feedVars
=============================================================================
