--------------------------- MODULE MCExitApproval ---------------------------
(* ExitApproval for TLC alone, with the buckets in the order the app names *)
(* them.                                                                   *)
EXTENDS ExitApproval

TwoBuckets == <<"USD", "EUR">>

=============================================================================
