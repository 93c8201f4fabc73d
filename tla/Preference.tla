----------------------------- MODULE Preference -----------------------------
(***************************************************************************)
(* The auto-compound switch of the account surfaces (useAutoCompound.ts):   *)
(* a read that starts again with every change of account and every write   *)
(* of the app, a write that takes as long as a signature, and the one      *)
(* generation counter by which the later of them retires the earlier.      *)
(*                                                                         *)
(* A read that is retired has no effect any more, so only the last one     *)
(* started is kept. Accounts change by logging out and in again.           *)
(***************************************************************************)
EXTENDS Naturals, FiniteSets

CONSTANTS
  Users, NoUser,
  Faults         (* "read" fails, the answer to a write is "lost".          *)

ConstantsOK == NoUser \notin Users /\ Faults \subseteq {"read", "lost"}

VARIABLES
  pref,          (* The chain: autoCompoundEnabled, per depositor.          *)
  address,       (* The connected account, or NoUser.                       *)
  state,         (* What the switch shows: [loading, enabled].              *)
  known,         (* The preference last confirmed: [who, enabled].          *)
  reading,       (* The read under way: its answer so far, if any.          *)
  writing,       (* The write under way: [who, next, landed, superseded].   *)
  late           (* A write that was given up and may still land.           *)

vars == <<pref, address, state, known, reading, writing, late>>

Unknown == [who |-> NoUser, enabled |-> TRUE]
NoWrite == [who |-> NoUser, next |-> TRUE, landed |-> FALSE, superseded |-> FALSE]
NoRead == "none"

Init ==
  /\ pref \in [Users -> BOOLEAN] /\ address = NoUser
  /\ state = [loading |-> FALSE, enabled |-> TRUE] /\ known = Unknown
  /\ reading = NoRead /\ writing = NoWrite /\ late = NoWrite

-----------------------------------------------------------------------------
(* The effect: a new read for account a. What belongs to another account   *)
(* is not left on a switch that can be pressed.                            *)
StartRead(a, k) ==
  /\ known' = IF a = NoUser THEN Unknown ELSE k
  /\ reading' = IF a = NoUser THEN NoRead ELSE "asked"
  /\ state' = IF a = NoUser THEN [loading |-> FALSE, enabled |-> TRUE]
              ELSE IF k.who # a THEN [state EXCEPT !.loading = TRUE] ELSE state

Superseded(w) == IF w = NoWrite THEN w ELSE [w EXCEPT !.superseded = TRUE]

SwitchAccount ==
  /\ \E a \in Users \cup {NoUser} :
       /\ (a = NoUser) # (address = NoUser)
       /\ address' = a /\ StartRead(a, known)
  /\ writing' = Superseded(writing)
  /\ UNCHANGED <<pref, late>>

(* Another surface of the app has written: it bumps the version.           *)
Bump ==
  /\ address # NoUser
  /\ StartRead(address, known)
  /\ writing' = Superseded(writing)
  /\ UNCHANGED <<pref, address, late>>

(* The node answers the read from the ledger of that moment.               *)
ReadServed ==
  /\ reading = "asked"
  /\ reading' = IF pref[address] THEN "on" ELSE "off"
  /\ UNCHANGED <<pref, address, state, known, writing, late>>

ReadArrives ==
  /\ reading \in {"on", "off"}
  /\ known' = [who |-> address, enabled |-> reading = "on"]
  /\ state' = [loading |-> FALSE, enabled |-> reading = "on"]
  /\ reading' = NoRead
  /\ UNCHANGED <<pref, address, writing, late>>

FallbackOn(a) == TRUE

(* What an unreadable preference shows: on, unless it is known better.     *)
Fallback(a) == IF known.who = a THEN known.enabled ELSE TRUE

ReadFails ==
  /\ reading # NoRead /\ "read" \in Faults
  /\ state' = [loading |-> FALSE, enabled |-> Fallback(address)]
  /\ reading' = NoRead
  /\ UNCHANGED <<pref, address, known, writing, late>>

-----------------------------------------------------------------------------
Toggle ==
  /\ writing = NoWrite /\ address # NoUser /\ ~state.loading
  /\ writing' = [who |-> address, next |-> ~state.enabled, landed |-> FALSE,
                 superseded |-> FALSE]
  /\ reading' = NoRead
  /\ UNCHANGED <<pref, address, state, known, late>>

(* It takes the sequence number that one given up before it bears too.     *)
WriteLands ==
  /\ writing # NoWrite /\ ~writing.landed
  /\ pref' = [pref EXCEPT ![writing.who] = writing.next]
  /\ writing' = [writing EXCEPT !.landed = TRUE]
  /\ late' = IF late.who = writing.who THEN NoWrite ELSE late
  /\ UNCHANGED <<address, state, known, reading>>

(* A result that a newer read has superseded is dropped, and nothing is    *)
(* read again for it.                                                      *)
WriteReturns ==
  /\ writing.landed
  /\ IF writing.superseded
     THEN UNCHANGED <<state, known, reading>>
     ELSE /\ known' = [who |-> writing.who, enabled |-> writing.next]
          /\ state' = [loading |-> FALSE, enabled |-> writing.next]
          /\ reading' = "asked"
  /\ writing' = NoWrite
  /\ UNCHANGED <<pref, address, late>>

(* Declined in the wallet, or rejected by the network.                     *)
WriteRefused ==
  /\ writing # NoWrite /\ ~writing.landed
  /\ writing' = NoWrite
  /\ UNCHANGED <<pref, address, state, known, reading, late>>

WriteLost ==
  /\ writing # NoWrite /\ ~writing.landed /\ late = NoWrite /\ "lost" \in Faults
  /\ late' = writing /\ writing' = NoWrite
  /\ UNCHANGED <<pref, address, state, known, reading>>

(* It expires, or lands and leaves its number to no other.                 *)
LandsLate ==
  /\ late # NoWrite /\ late' = NoWrite
  /\ \/ UNCHANGED <<pref, writing>>
     \/ /\ pref' = [pref EXCEPT ![late.who] = late.next]
        /\ writing' = IF writing.who = late.who THEN NoWrite ELSE writing
  /\ UNCHANGED <<address, state, known, reading>>

Next ==
  \/ SwitchAccount \/ Bump \/ ReadServed \/ ReadArrives \/ ReadFails
  \/ Toggle \/ WriteLands \/ WriteReturns \/ WriteRefused \/ WriteLost \/ LandsLate

Spec == Init /\ [][Next]_vars

-----------------------------------------------------------------------------
Confirmed ==
  /\ known = [who |-> address, enabled |-> pref[address]]
  /\ state = [loading |-> FALSE, enabled |-> pref[address]]

(* A switch that shows the position the chain confirmed to it goes on      *)
(* showing it until the chain or the account changes: no read, failed or   *)
(* asked before a write, snaps it back (useAutoCompound.ts: "a rejected    *)
(* read must not discard an answer we already have").                      *)
ConfirmedStays ==
  [][address # NoUser /\ Confirmed /\ pref' = pref /\ address' = address =>
       state'.enabled = pref[address]]_vars

=============================================================================
