------------------------------- MODULE Keeper -------------------------------
(***************************************************************************)
(* The keeper (backend/src/keeper, backend/src/mastra/allocator.ts) on one *)
(* bucket: a tick reads the vault, decides once, and then submits the one  *)
(* or two transactions of its decision, each of which may fail in its own  *)
(* way. Beside it the operator's one-shot commands, a depositor approving  *)
(* an exit, and Sentinel flagging pools.                                   *)
(*                                                                         *)
(* Buckets share no pool and a pass takes them one after the other, so one *)
(* bucket stands for all. Interest is left out: a pool holds principal.    *)
(***************************************************************************)
EXTENDS Naturals, SequencesExt

CONSTANTS
  Pools,          (* Pools of the bucket's currency.                        *)
  Registered,     (* Those with an address in the pool registry.            *)
  CandidateLists, (* What a tick may be given: sequences of [pool, ray].    *)
  Amounts,        (* What moveAmount may answer, and operators may pass.    *)
  Threshold,      (* thresholdPct.                                          *)
  Drivers,        (* Who may call runTick, of DriverKinds.                  *)
  Faults,         (* Ways a submission may fail, whoever calls.             *)
  ExitIds,        (* Exit ids wrap around here; only consecutive ones are   *)
                  (* ever compared.                                         *)
  NoPool, NoExit, Never

FaultKinds == {"throws", "rejected", "unseen", "late"}

(* The cron and the command line give a list of candidates and nothing     *)
(* else; a caller that watches the bucket gives every input of the         *)
(* decision. Neither has a store, so each tick begins with a fresh one.    *)
DriverKinds == {"cron", "watching"}

ASSUME KeeperAssumption ==
  /\ Registered \subseteq Pools
  /\ \A list \in CandidateLists :
       list \in Seq([pool : Pools, ray : Nat])
  /\ Amounts \subseteq Nat \ {0} /\ Threshold \in Nat
  /\ Drivers \subseteq DriverKinds /\ Faults \subseteq FaultKinds
  /\ ExitIds \in Nat \ {0, 1}
  /\ NoPool \notin Pools /\ Never \notin Nat

VARIABLES
  driver,    (* Who calls runTick.                                          *)
  idle,      (* Funds of the bucket in no pool.                             *)
  held,      (* Funds in each pool.                                         *)
  active,    (* The vault's active_pool.                                    *)
  frozen,    (* Frozen pools.                                               *)
  exit,      (* The vault's pending_exit, and whether it landed, given up   *)
             (* on, behind the back of a tick that had looked already.      *)
  exits,     (* The last exit id given out.                                 *)
  flagged,   (* Pools Sentinel finds anomalous.                             *)
  tick,      (* The tick under way: where it is, its inputs, what its store *)
             (* knows of the bucket, and the calls it still has to submit.  *)
  late       (* Submissions reported as failed that may still land: of the  *)
             (* keeper's next sequence number, so of them one at most.      *)

chainVars == <<idle, held, active, frozen, exit, exits>>
vars == <<driver, chainVars, flagged, tick, late>>

Unattended == driver = "cron"

Call(op, pool, to, amount) ==
  [op |-> op, pool |-> pool, to |-> to, amount |-> amount]

Resting == [at |-> "off", list |-> <<>>, anomaly |-> FALSE, ray |-> Never,
            active |-> NoPool, calls |-> <<>>]

(* A bucket whose funds may or may not be in a pool already.               *)
Init ==
  /\ driver \in Drivers
  /\ \E funds \in Amounts, p \in Pools \cup {NoPool} :
       /\ idle = IF p = NoPool THEN funds ELSE 0
       /\ held = [q \in Pools |-> IF q = p THEN funds ELSE 0]
       /\ active = p
  /\ frozen = {} /\ exit = NoExit /\ exits = 0
  /\ flagged = {} /\ tick = Resting /\ late = {}

-----------------------------------------------------------------------------
(* The decision (allocator.ts). *)

RayOf(list, p) ==
  IF \E i \in DOMAIN list : list[i].pool = p
    THEN list[CHOOSE i \in DOMAIN list : list[i].pool = p].ray ELSE Never

(* bestOf: the first candidate of the highest ray, one pool excluded.      *)
BestOf(list, excluded) ==
  LET rest  == {i \in DOMAIN list : list[i].pool # excluded}
      first == CHOOSE i \in rest : \A j \in rest :
                 \/ list[j].ray < list[i].ray
                 \/ list[j].ray = list[i].ray /\ i <= j
  IN IF rest = {} THEN NoPool ELSE list[first].pool

exceedsRebalanceThreshold(currentRay, candidateRay) == candidateRay > currentRay + Threshold

(* shouldRebalance: a guard whose input is absent is not applied, and the  *)
(* last move is absent from a fresh store, so no caller dwells in a pool.  *)
ShouldRebalance(t, best, pays) ==
  \/ t.active = NoPool
  \/ t.ray = Never
  \/ exceedsRebalanceThreshold(t.ray, RayOf(t.list, best)) /\ pays

Rebalances(t, pays) ==
  LET best == BestOf(t.list, NoPool)
  IN best \notin {NoPool, t.active} /\ ShouldRebalance(t, best, pays)

KindYieldFirst(t, pending, accrued, pays) ==
  IF pending THEN "noop"
  ELSE IF Rebalances(t, pays) THEN "rebalance"
  ELSE IF t.active # NoPool /\ accrued THEN "compound"
  ELSE IF t.active # NoPool /\ t.anomaly THEN "freeze-exit"
  ELSE "noop"

KindUnpended(t, pending, accrued, pays) ==
  IF t.active # NoPool /\ t.anomaly THEN "freeze-exit"
  ELSE IF Rebalances(t, pays) THEN "rebalance"
  ELSE IF t.active # NoPool /\ accrued THEN "compound"
  ELSE "noop"

(* classifyBucket. *)
Kind(t, pending, accrued, pays) ==
  IF pending THEN "noop"
  ELSE IF t.active # NoPool /\ t.anomaly THEN "freeze-exit"
  ELSE IF Rebalances(t, pays) THEN "rebalance"
  ELSE IF t.active # NoPool /\ accrued THEN "compound"
  ELSE "noop"

ExitCalls(from, to) ==
  <<Call("freeze", from, NoPool, 0)>> \o
    (IF to = NoPool THEN <<>> ELSE <<Call("propose", from, to, 0)>>)

(* What the runner's effects submit, in order; a rebalance of a bucket     *)
(* that has no pool pulls from the pool it is about to enter.              *)
Calls(t, kind, amount) ==
  LET from == t.active
      best == BestOf(t.list, NoPool)
  IN CASE kind = "compound"    -> <<Call("allocate", from, NoPool, amount)>>
       [] kind = "rebalance"   ->
            <<Call("deallocate", IF from = NoPool THEN best ELSE from, NoPool, amount),
              Call("allocate", best, NoPool, amount)>>
       [] kind = "freeze-exit" -> ExitCalls(from, BestOf(t.list, from))
       [] OTHER                -> <<>>

(* accrued is yieldAccrued, and pays the outcome of the cost gate; both    *)
(* are inputs of the tick, and the cron gives neither.                     *)
Decide(t, pending) ==
  \E amount \in Amounts, accrued, pays \in BOOLEAN :
    LET kind  == Kind(t, pending, ~Unattended /\ accrued, Unattended \/ pays)
        calls == Calls(t, kind, amount)
    IN tick' = IF calls = <<>> THEN Resting
               ELSE [Resting EXCEPT !.at = "acting", !.calls = calls]

-----------------------------------------------------------------------------
(* What the vault makes of a call. *)

(* The vault's guards; a refused call already fails when it is simulated.  *)
Accepts(c) ==
  /\ c.op = "allocate"   => c.pool \notin frozen /\ c.amount <= idle
  /\ c.op = "deallocate" => c.amount <= held[c.pool]

(* A call that lands uses up the sequence number that it and everything in *)
(* `late` was built with.                                                  *)
Lands(c, missed) ==
  /\ late' = {}
  /\ CASE c.op = "allocate" ->
            /\ idle' = idle - c.amount
            /\ held' = [held EXCEPT ![c.pool] = @ + c.amount]
            /\ active' = c.pool
            /\ UNCHANGED <<frozen, exit, exits>>
       [] c.op = "deallocate" ->
            /\ idle' = idle + c.amount
            /\ held' = [held EXCEPT ![c.pool] = @ - c.amount]
            /\ active' = IF active = c.pool /\ held'[c.pool] = 0 THEN NoPool ELSE active
            /\ UNCHANGED <<frozen, exit, exits>>
       [] c.op = "freeze" ->
            /\ frozen' = frozen \cup {c.pool}
            /\ UNCHANGED <<idle, held, active, exit, exits>>
       [] c.op = "unfreeze" ->
            /\ frozen' = frozen \ {c.pool}
            /\ UNCHANGED <<idle, held, active, exit, exits>>
       [] c.op = "propose" ->
            /\ exits' = (exits + 1) % ExitIds
            /\ exit' = [id |-> exits', from |-> c.pool, to |-> c.to, missed |-> missed]
            /\ UNCHANGED <<idle, held, active, frozen>>

-----------------------------------------------------------------------------
(* A tick. *)

StartTick ==
  /\ tick.at = "off"
  /\ \E list \in CandidateLists :
       tick' = [Resting EXCEPT
                  !.at = "readActive", !.list = list,
                  !.anomaly = ~Unattended /\ active \in flagged,
                  !.ray = IF Unattended THEN Never ELSE RayOf(list, active)]
  /\ UNCHANGED <<chainVars, driver, flagged, late>>

ReadActive ==
  /\ tick.at = "readActive"
  /\ tick' = [tick EXCEPT !.at = "readExit", !.active = active]
  /\ UNCHANGED <<chainVars, driver, flagged, late>>

NotSeen == FALSE

PendingSeen == exit # NoExit

ReadExit ==
  /\ tick.at = "readExit"
  /\ Decide(tick, PendingSeen)
  /\ UNCHANGED <<chainVars, driver, flagged, late>>

Known(c) == {c.pool, c.to} \ {NoPool} \subseteq Registered

(* A read, the registry or a submission throws: the pass goes on without   *)
(* the bucket.                                                             *)
TickThrows ==
  /\ \/ tick.at \in {"readActive", "readExit"} /\ "throws" \in Faults
     \/ /\ tick.at = "acting"
        /\ LET c == Head(tick.calls)
           IN "throws" \in Faults \/ ~Known(c) \/ ~Accepts(c)
  /\ tick' = Resting
  /\ UNCHANGED <<chainVars, driver, flagged, late>>

(* What the store is told after the last call is lost with it.             *)
Proceed ==
  tick' = IF Len(tick.calls) > 1 THEN [tick EXCEPT !.calls = Tail(@)] ELSE Resting

Gives(c) ==
  tick.at = "acting" /\ c = Head(tick.calls) /\ Known(c) /\ Accepts(c)

(* submit of the next call.                                                *)
SubmitLands ==
  /\ \E c \in Range(tick.calls) : Gives(c) /\ Lands(c, FALSE)
  /\ Proceed
  /\ UNCHANGED <<driver, flagged>>

(* A transaction the chain rejects comes back as success: false, which no  *)
(* caller looks at: the tick goes on as if it had landed.                  *)
SubmitRejected ==
  /\ "rejected" \in Faults
  /\ \E c \in Range(tick.calls) : Gives(c)
  /\ Proceed
  /\ UNCHANGED <<chainVars, driver, flagged, late>>

(* It landed, but the answer was lost.                                     *)
SubmitUnseen ==
  /\ "unseen" \in Faults
  /\ \E c \in Range(tick.calls) : Gives(c) /\ Lands(c, FALSE)
  /\ tick' = Resting
  /\ UNCHANGED <<driver, flagged>>

(* It has not landed when the client stops polling for it, which is a      *)
(* success: false too, or when the client throws.                          *)
SubmitLate ==
  /\ "late" \in Faults
  /\ \E c \in Range(tick.calls) : Gives(c) /\ late' = late \cup {c}
  /\ Proceed \/ tick' = Resting
  /\ UNCHANGED <<chainVars, driver, flagged>>

LateLands ==
  /\ \E c \in late : Accepts(c) /\ Lands(c, tick.at = "acting")
  /\ UNCHANGED <<driver, flagged, tick>>

-----------------------------------------------------------------------------
(* Everybody else. *)

(* The operator's allocate, freeze and unfreeze commands.                  *)
OperatorCall ==
  /\ \E p \in Registered, op \in {"allocate", "freeze", "unfreeze"}, amount \in Amounts :
       LET c == Call(op, p, NoPool, amount)
       IN Accepts(c) /\ Lands(c, FALSE)
  /\ UNCHANGED <<driver, flagged, tick>>

(* A depositor's approve_exit, which moves the whole position.             *)
ApproveExit ==
  /\ exit # NoExit
  /\ exit.from \in frozen /\ exit.to \notin frozen /\ held[exit.from] > 0
  /\ held' = [held EXCEPT ![exit.from] = 0, ![exit.to] = @ + held[exit.from]]
  /\ active' = exit.to
  /\ exit' = NoExit
  /\ UNCHANGED <<idle, frozen, exits, driver, flagged, tick, late>>

Flag ==
  /\ \E p \in Pools : flagged' \in {flagged \cup {p}, flagged \ {p}}
  /\ UNCHANGED <<driver, chainVars, tick, late>>

Reads == ReadActive \/ ReadExit

Submits == SubmitLands \/ SubmitRejected \/ SubmitUnseen \/ SubmitLate

Next ==
  \/ StartTick \/ Reads \/ TickThrows \/ Submits
  \/ LateLands \/ OperatorCall \/ ApproveExit \/ Flag

(* The cron never stops ticking, a tick that began goes on, and a network  *)
(* that keeps failing does not fail every time, whatever the call.         *)
Fairness ==
  /\ WF_vars(StartTick) /\ WF_vars(Reads \/ TickThrows \/ Submits)
  /\ SF_vars(ReadActive) /\ SF_vars(ReadExit)
  /\ \A op \in {"allocate", "deallocate", "freeze", "propose"} :
       SF_vars(SubmitLands /\ Head(tick.calls).op = op)

Spec == Init /\ [][Next]_vars /\ Fairness

-----------------------------------------------------------------------------
(* Safety. *)

(* While an exit waits for the depositor, no tick takes funds out of a     *)
(* pool (classifyBucket's "awaiting exit approval"), whatever becomes of   *)
(* its submissions and of those of earlier ticks. The exception is an exit *)
(* that was given up on and lands after all behind the back of a tick that *)
(* had looked already; one that lands before a tick looks is no exception. *)
NoPullWhileExitPends ==
  [][exit # NoExit /\ exit' = exit /\ ~exit.missed
       => \A p \in Pools : held'[p] >= held[p]]_vars

(* Nor is a proposal that a depositor may be reading replaced by a newer   *)
(* one, but for the same exception.                                        *)
ProposalStands ==
  [][exit # NoExit /\ exit' # exit => exit' = NoExit \/ exit.missed]_vars

-----------------------------------------------------------------------------
(* Liveness. *)

Threatened(p) == active = p /\ p \in flagged

(* A pool that stays flagged while it holds the bucket gets an exit        *)
(* proposed, there being another candidate, if whoever calls runTick says  *)
(* so and every tick looks at the vault afresh.                            *)
ThreatGetsExit ==
  \A p \in Pools : driver = "watching" /\ Threatened(p) ~> ~Threatened(p) \/ exit # NoExit

(* shouldRebalance: "Seeding an unallocated bucket ... always proceeds".   *)
IdleIsSeeded == (active = NoPool /\ idle > 0) ~> (active # NoPool)
=============================================================================
