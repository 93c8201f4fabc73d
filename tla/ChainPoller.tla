----------------------------- MODULE ChainPoller -----------------------------
(***************************************************************************)
(* The event follower of the backend: the poll loop (chain/poller.ts), the *)
(* accumulating store (chain/event-store.ts) and the boot and the loop     *)
(* around them (http/realtime.ts, scheduler/cron.ts), against a ledger     *)
(* that closes by itself and an RPC that pages through it, fails, repeats  *)
(* events and forgets old ones.                                            *)
(*                                                                         *)
(* A poll awaits one page at a time; between two awaits the process runs   *)
(* alone. So a step is what happens between two awaits.                    *)
(***************************************************************************)
EXTENDS Integers, Sequences, SequencesExt, FiniteSets, PoolLists

CONSTANTS
  PageLimit,        (* Events on one page of the RPC.                       *)
  MaxPages,         (* MAX_PAGES_PER_POLL.                                  *)
  Retention,        (* Ledgers of which the RPC still has the events.       *)
  RetentionMargin,  (* RETENTION_MARGIN_LEDGERS.                            *)
  StartSettings,    (* Values of VAULT_START_LEDGER, 0 when it is not set.  *)
  NoCursor          (* undefined.                                           *)

(* What a composition must give the constants.                             *)
ConstantsOK ==
  /\ PageLimit \in Nat \ {0}
  /\ MaxPages \in Nat \ {0}
  /\ Retention \in Nat \ {0}
  /\ RetentionMargin \in Nat
  /\ StartSettings \subseteq Nat
  /\ NoCursor \notin [after : Nat, ledger : Nat]

VARIABLES
  log,          (* The ledger of each event of the contract, in order. An   *)
                (* event's RPC id is its place in this sequence.            *)
  tip,          (* The latest closed ledger.                                *)
  phase,        (* "down", "disabled", "idle" or "polling".                 *)
  startLedger,  (* Where the source begins without a cursor.                *)
  stored,       (* byId, as the ids in order of insertion.                  *)
  cursor,       (* nextCursor.                                              *)
  pages,        (* Pages drained by the poll under way.                     *)
  news,         (* Whether it has ingested anything: ingested > 0.          *)
  shown         (* What the routes read: the ids of the decoded events, seq *)
                (* being the place.                                         *)

chainVars   == <<log, tip>>
storeVars   == <<stored, cursor>>
pollVars    == <<pages, news>>
vars == <<chainVars, phase, startLedger, storeVars, pollVars, shown>>

Init ==
  /\ log = <<>>
  /\ tip = 1
  /\ phase = "down"
  /\ startLedger = 1
  /\ stored = <<>>
  /\ cursor = NoCursor
  /\ pages = 0
  /\ news = FALSE
  /\ shown = <<>>

-----------------------------------------------------------------------------
(* The ledger and its RPC. *)

Oldest == IF tip > Retention THEN tip - Retention + 1 ELSE 1

(* Another ledger closes, with some events of the vault.                   *)
CloseLedger(n) ==
  /\ tip' = tip + 1
  /\ log' = log \o [i \in 1 .. n |-> tip + 1]
  /\ UNCHANGED <<phase, startLedger, storeVars, pollVars, shown>>

Before(ledger) == Cardinality({e \in DOMAIN log : log[e] < ledger})

(* The last event before the place a request asks to continue from.        *)
Asked == IF cursor = NoCursor THEN Before(startLedger) ELSE cursor.after

(* The RPC rejects a request that begins before what it retains.           *)
Outdated ==
  IF cursor = NoCursor THEN startLedger < Oldest ELSE cursor.ledger < Oldest

(* The pages that may answer: the next events, as many as fit, perhaps     *)
(* with the last one delivered once more. The cursor names the last event  *)
(* of the page and the ledger scanned to; a page of nothing may lack it.   *)
Answers ==
  LET rest == Len(log) - Asked
      last == Asked + (IF rest < PageLimit THEN rest ELSE PageLimit)
      end  == [after |-> last, ledger |-> IF rest <= PageLimit THEN tip ELSE log[last]]
  IN {[events |-> [i \in 1 .. last + 1 - first |-> first + i - 1], cursor |-> end] :
        first \in {Asked + 1} \cup ({Asked} \cap ToSet(stored))}
     \cup (IF rest = 0 THEN {[events |-> <<>>, cursor |-> NoCursor]} ELSE {})

-----------------------------------------------------------------------------
(* Boot, crash and the loop. *)

(* resolveStartLedger: the setting, or as far back as is surely retained.  *)
StartFrom(setting) ==
  IF setting > 0 THEN setting
  ELSE IF tip > RetentionMargin THEN tip - RetentionMargin ELSE 1

(* The process starts, with its first poll before the routes are served.   *)
(* A configured ledger is one that has closed.                             *)
Boot(setting) ==
  /\ phase = "down"
  /\ setting <= tip
  /\ startLedger' = StartFrom(setting)
  /\ phase' = "polling"
  /\ UNCHANGED <<chainVars, storeVars, pollVars, shown>>

(* Without a setting the current ledger is read from the RPC. If that      *)
(* fails, the routes are served but nothing is ever polled.                *)
BootUnreachable ==
  /\ phase = "down"
  /\ 0 \in StartSettings
  /\ phase' = "disabled"
  /\ UNCHANGED <<chainVars, startLedger, storeVars, pollVars, shown>>

(* Everything but the chain is in memory.                                  *)
Crash ==
  /\ phase # "down"
  /\ phase' = "down"
  /\ stored' = <<>>
  /\ cursor' = NoCursor
  /\ pages' = 0
  /\ news' = FALSE
  /\ shown' = <<>>
  /\ UNCHANGED <<chainVars, startLedger>>

(* The interval fires; while a poll is running it is skipped.              *)
Tick ==
  /\ phase = "idle"
  /\ phase' = "polling"
  /\ UNCHANGED <<chainVars, startLedger, storeVars, pollVars, shown>>

PollOver ==
  /\ phase' = "idle"
  /\ pages' = 0
  /\ news' = FALSE

-----------------------------------------------------------------------------
(* The store. *)

IngestedAgain(events) == stored \o events

(* ingest keeps an event only the first time it sees its id.               *)
Ingested(events) == stored \o Without(events, ToSet(stored))

ResumeFromTip(page) == [after |-> Len(log), ledger |-> tip]

ResumeFromSame(page) == cursor

(* An answer without a cursor leaves the one kept from before.             *)
ResumeFrom(page) == IF page.cursor = NoCursor THEN cursor ELSE page.cursor

(* raw: a stable sort by ledger, each entry placed by how many come up to  *)
(* it.                                                                     *)
InLedgerOrder(ids) ==
  LET upTo(i) == {j \in DOMAIN ids : \/ log[ids[j]] < log[ids[i]]
                                     \/ log[ids[j]] = log[ids[i]] /\ j <= i}
  IN [k \in DOMAIN ids |->
        ids[CHOOSE i \in DOMAIN ids : Cardinality(upTo(i)) = k]]

-----------------------------------------------------------------------------
(* The poll. *)

(* No further progress: nothing on the page, no cursor or the same one, or *)
(* the page cap reached.                                                   *)
Drained(page) ==
  \/ page.events = <<>>
  \/ page.cursor \in {NoCursor, cursor}
  \/ pages + 1 = MaxPages

PageArrives ==
  /\ phase = "polling"
  /\ ~Outdated
  /\ \E page \in Answers :
       /\ stored' = Ingested(page.events)
       /\ cursor' = ResumeFrom(page)
       /\ IF Drained(page)
            THEN /\ PollOver
                 /\ shown' = IF news \/ page.events # <<>>
                               THEN InLedgerOrder(stored') ELSE shown
            ELSE /\ pages' = pages + 1
                 /\ news' = (news \/ page.events # <<>>)
                 /\ UNCHANGED <<phase, shown>>
  /\ UNCHANGED <<chainVars, startLedger>>

(* The RPC rejects or cannot be reached. Pages already ingested stay; what *)
(* the routes are shown stays.                                             *)
PageFails ==
  /\ phase = "polling"
  /\ PollOver
  /\ UNCHANGED <<chainVars, startLedger, storeVars, shown>>

-----------------------------------------------------------------------------
Next ==
  \/ \E n \in 0 .. 2 : CloseLedger(n)
  \/ \E setting \in StartSettings : Boot(setting)
  \/ BootUnreachable
  \/ Crash
  \/ Tick
  \/ PageArrives
  \/ PageFails

Spec == Init /\ [][Next]_vars

(* The interval keeps firing, and an RPC that is asked again and again for *)
(* what it has answers now and then. Nothing is assumed of the ledger, of  *)
(* crashes or of anybody starting the process again.                       *)
Fairness == WF_vars(Tick) /\ SF_vars(PageArrives)

-----------------------------------------------------------------------------
Feed == INSTANCE EventFeed
          WITH closed <- Len(log), base <- Before(startLedger), feed <- shown

(* Through failures between pages, repeated events, capped polls and       *)
(* restarts, the routes are shown an unbroken run of the chain's events in *)
(* the chain's order, and an event once shown keeps its seq.               *)
ImplementsEventFeed == Feed!Init /\ [][Feed!Next]_(Feed!feedVars)

(* The place the next poll resumes from never lies beyond an event that is *)
(* not in the store, so a poll cut short loses nothing.                    *)
CursorSkipsNothing ==
  cursor # NoCursor
    => \A e \in DOMAIN log :
         Before(startLedger) < e /\ e <= cursor.after => e \in ToSet(stored)

Up == phase \in {"idle", "polling"}

(* An event of the chain reaches the store of a process that keeps running *)
(* and keeps within what the RPC retains.                                  *)
EventIsStored(e) ==
  Up /\ Before(startLedger) < e /\ e <= Len(log)
    ~> e \in ToSet(stored) \/ ~Up \/ Outdated

(* "The deposit you just made shows up without a restart": an event of the *)
(* store reaches the routes of a process that keeps running.               *)
StoredEventIsShown(e) == e \in ToSet(stored) ~> e \in ToSet(shown) \/ ~Up
=============================================================================
