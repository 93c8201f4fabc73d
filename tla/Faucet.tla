------------------------------- MODULE Faucet -------------------------------
(***************************************************************************)
(* The testnet faucet: the route (backend/src/http/faucet.ts), the minter  *)
(* that signs with the issuer (faucet-minter.ts), and the buttons that ask *)
(* for funds (FaucetButton.tsx, changeTrust.ts).                           *)
(*                                                                         *)
(* Times are what is left of them, so the clock needs no bound. A button   *)
(* stands for one mount of the component: two of them may be two tabs, or  *)
(* a button that was unmounted, whose click goes on, and its successor. A  *)
(* request slot is free again when the click it served is over.            *)
(***************************************************************************)
EXTENDS Integers

CONSTANTS
  Buttons, Keys,   (* A key is an address with a currency.                  *)
  KeyOf,           (* The key each button asks for.                         *)
  Slots,           (* Requests under way at once.                           *)
  RateLimit, FAUCET_COOLDOWN,   (* In ticks.                                *)
  Faults           (* What may go wrong, of FaultKinds.                     *)

FaultKinds == {"throws", "unconfirmed", "timeout", "reload"}

(* What a composition must give the constants.                             *)
ConstantsOK ==
  /\ KeyOf \in [Buttons -> Keys] /\ Faults \subseteq FaultKinds
  /\ RateLimit \in Nat /\ FAUCET_COOLDOWN \in Nat \ {0}

VARIABLES
  limit,       (* What is left of the rate limit of a key.                  *)
  requests,    (* The handler's runs: [key, at, next, tx, status], where    *)
               (* next says that the sequence number the transaction was    *)
               (* built with is still the issuer's next one.                *)
  trusted,     (* Keys with a trustline.                                    *)
  mounted,     (* Buttons on screen.                                        *)
  phase,       (* Of a button's click: idle, first, trust or retry.         *)
  waits,       (* The slot it waits for.                                    *)
  asked,       (* The slots of its last click, while nobody reuses them.    *)
  cooldown,    (* What is left of its cooldown, while it is on screen.      *)
  stored,      (* The same, in localStorage, by key.                        *)
  behind       (* Buttons on screen, or with a click under way, since       *)
               (* before another button's last success for their key, while *)
               (* the cooldown of that one lasts.                           *)

backendVars == <<limit, requests>>
screenVars  == <<mounted, cooldown, stored, behind>>
clickVars   == <<waits, asked>>
buttonVars  == <<phase, clickVars, screenVars>>
vars == <<backendVars, trusted, buttonVars>>

Stages == {"posted", "minting", "built", "sent", "answered"}
TxStates == {"none", "pending", "landed", "failed"}
Statuses == {0, 200, 409, 429, 500}

Request == [key : Keys, at : Stages, next : BOOLEAN, tx : TxStates,
            status : Statuses]

TypeOK ==
  /\ limit \in [Keys -> 0 .. RateLimit] /\ requests \in [Slots -> Request]
  /\ trusted \subseteq Keys
  /\ mounted \subseteq Buttons /\ behind \subseteq Buttons
  /\ phase \in [Buttons -> {"idle", "first", "trust", "retry"}]
  /\ waits \in [Buttons -> Slots] /\ asked \in [Buttons -> SUBSET Slots]
  /\ cooldown \in [Buttons -> 0 .. FAUCET_COOLDOWN]
  /\ stored \in [Keys -> 0 .. FAUCET_COOLDOWN]

Init ==
  /\ limit = [k \in Keys |-> 0]
  /\ requests \in [Slots -> [key : Keys, at : {"answered"}, next : {FALSE},
                             tx : {"none"}, status : {0}]]
  /\ \A r, s \in Slots : requests[r] = requests[s]
  /\ trusted \in SUBSET Keys
  /\ mounted = {} /\ behind = {}
  /\ phase = [b \in Buttons |-> "idle"]
  /\ waits \in [Buttons -> Slots]
  /\ \A b, d \in Buttons : waits[b] = waits[d]
  /\ asked = [b \in Buttons |-> {}]
  /\ cooldown = [b \in Buttons |-> 0] /\ stored = [k \in Keys |-> 0]

-----------------------------------------------------------------------------
(* The route and the minter.                                               *)
Key(r) == requests[r].key

Step(r, next) == requests' = [requests EXCEPT ![r] = next]

Answer(r, status) ==
  Step(r, [requests[r] EXCEPT !.at = "answered", !.next = FALSE, !.status = status])

Limited(k) == limit[k] > 0

Check(r) ==
  /\ requests[r].at = "posted"
  /\ IF Limited(Key(r)) THEN Answer(r, 429)
                        ELSE Step(r, [requests[r] EXCEPT !.at = "minting"])
  /\ UNCHANGED <<limit, trusted, buttonVars>>

(* getAccount: the transaction takes the issuer's next sequence number.    *)
Build(r) ==
  /\ requests[r].at = "minting"
  /\ Step(r, [requests[r] EXCEPT !.at = "built", !.next = TRUE])
  /\ UNCHANGED <<limit, trusted, buttonVars>>

SequenceIsFree(r) ==
  /\ requests[r].next
  /\ \A s \in Slots : requests[s].tx # "pending"

(* A taken sequence number is refused with ERROR, which throws, or with    *)
(* TRY_AGAIN_LATER, which the minter takes for a submission.               *)
Submit(r) ==
  /\ requests[r].at = "built"
  /\ \/ Key(r) \notin trusted /\ Answer(r, 409)
     \/ Key(r) \in trusted /\ ~SequenceIsFree(r) /\ Answer(r, 500)
     \/ /\ Key(r) \in trusted /\ ~SequenceIsFree(r) /\ "unconfirmed" \in Faults
        /\ Step(r, [requests[r] EXCEPT !.at = "sent", !.next = FALSE])
     \/ /\ Key(r) \in trusted /\ SequenceIsFree(r)
        /\ Step(r, [requests[r] EXCEPT !.at = "sent", !.next = FALSE,
                                       !.tx = "pending"])
  /\ UNCHANGED <<limit, trusted, buttonVars>>

(* getAccount, the simulation, the submission or a poll throws, the        *)
(* submission also after the network has taken the transaction.            *)
Throws(r) ==
  /\ "throws" \in Faults
  /\ \/ requests[r].at \in {"minting", "built", "sent"} /\ Answer(r, 500)
     \/ /\ requests[r].at = "built" /\ Key(r) \in trusted /\ SequenceIsFree(r)
        /\ Step(r, [requests[r] EXCEPT !.at = "answered", !.next = FALSE,
                                       !.status = 500, !.tx = "pending"])
  /\ UNCHANGED <<limit, trusted, buttonVars>>

(* A transaction is applied, successfully or not, whatever the minter does *)
(* meanwhile, and uses up the sequence number of all that are built.       *)
Apply(r) ==
  /\ requests[r].tx = "pending"
  /\ \E verdict \in {"landed"} \cup (IF "throws" \in Faults THEN {"failed"} ELSE {}) :
       requests' = [s \in Slots |-> [requests[s] EXCEPT
                      !.next = FALSE, !.tx = IF s = r THEN verdict ELSE @]]
  /\ UNCHANGED <<limit, trusted, buttonVars>>

(* Thirty seconds after it was built a transaction is void.                *)
Expire(r) ==
  /\ "unconfirmed" \in Faults /\ requests[r].tx = "pending"
  /\ Step(r, [requests[r] EXCEPT !.tx = "none"])
  /\ UNCHANGED <<limit, trusted, buttonVars>>

(* Ten polls without a verdict count as a mint.                            *)
FailedOnChain(r) == requests[r].tx = "failed"

Confirm(r) ==
  /\ requests[r].at = "sent"
  /\ requests[r].tx \in {"pending", "none"} => "unconfirmed" \in Faults
  /\ IF FailedOnChain(r)
     THEN Answer(r, 500) /\ UNCHANGED limit
     ELSE /\ Answer(r, 200)
          /\ limit' = [limit EXCEPT ![Key(r)] = RateLimit]
  /\ UNCHANGED <<trusted, buttonVars>>

-----------------------------------------------------------------------------
(* A button. Busy is a click under way, whether or not the button is still *)
(* there to show it.                                                       *)
Busy(b) == phase[b] # "idle"

Waiting(b) == phase[b] \in {"first", "retry"}

Free(r) ==
  /\ requests[r].at = "answered" /\ requests[r].tx # "pending"
  /\ \A b \in Buttons : Busy(b) => r \notin asked[b]

Post(b, next) ==
  \E r \in Slots :
    /\ Free(r)
    /\ Step(r, [key |-> KeyOf[b], at |-> "posted", next |-> FALSE, tx |-> "none", status |-> 0])
    /\ waits' = [waits EXCEPT ![b] = r]
    /\ asked' = [d \in Buttons |-> IF d # b THEN asked[d] \ {r}
                                  ELSE IF Busy(b) THEN asked[b] \cup {r} ELSE {r}]
    /\ phase' = [phase EXCEPT ![b] = next]
    /\ UNCHANGED <<limit, screenVars>>

Click(b) ==
  /\ b \in mounted /\ ~Busy(b) /\ cooldown[b] = 0
  /\ Post(b, "first")
  /\ UNCHANGED trusted

(* addTrustline signs and submits; only then is the mint retried.          *)
AddTrustline(b) ==
  /\ phase[b] = "trust"
  /\ trusted' = trusted \cup {KeyOf[b]}
  /\ Post(b, "retry")

TrustlineFails(b) ==
  /\ phase[b] = "trust"
  /\ phase' = [phase EXCEPT ![b] = "idle"]
  /\ UNCHANGED <<backendVars, trusted, clickVars, screenVars>>

AnyFailureRepeated(b, status) ==
  IF status \in {409, 500} /\ phase[b] = "first" THEN "trust" ELSE "idle"

PhaseAfter(b, status) ==
  IF status = 409 /\ phase[b] = "first" THEN "trust" ELSE "idle"

(* localStorage gets the cooldown; the screen only if the button that was  *)
(* clicked is still on it.                                                 *)
Succeed(b) ==
  /\ stored' = [stored EXCEPT ![KeyOf[b]] = FAUCET_COOLDOWN]
  /\ cooldown' = IF b \in mounted THEN [cooldown EXCEPT ![b] = FAUCET_COOLDOWN]
                                  ELSE cooldown
  /\ behind' = (behind \ {b}) \cup
                 {d \in (mounted \cup {c \in Buttons : Busy(c)}) \ {b} : KeyOf[d] = KeyOf[b]}
  /\ UNCHANGED mounted

Hear(b) ==
  LET r == waits[b]
      status == requests[r].status
  IN /\ Waiting(b) /\ requests[r].at = "answered"
     /\ phase' = [phase EXCEPT ![b] = PhaseAfter(b, status)]
     /\ IF status = 200 THEN Succeed(b) ELSE UNCHANGED screenVars
     /\ UNCHANGED <<backendVars, trusted, clickVars>>

(* The API deadline passes, or the connection breaks: a toast, no more.    *)
GiveUp(b) ==
  /\ "timeout" \in Faults /\ Waiting(b) /\ requests[waits[b]].at # "answered"
  /\ phase' = [phase EXCEPT ![b] = "idle"]
  /\ UNCHANGED <<backendVars, trusted, clickVars, screenVars>>

RestoredForgotten(b) == 0

(* localStorage is read when the button appears, and not again.            *)
Restored(b) == stored[KeyOf[b]]

Mount(b) ==
  /\ b \notin mounted /\ ~Busy(b)
  /\ mounted' = mounted \cup {b} /\ behind' = behind \ {b}
  /\ cooldown' = [cooldown EXCEPT ![b] = Restored(b)]
  /\ UNCHANGED <<backendVars, trusted, phase, clickVars, stored>>

(* The button leaves the screen; a click of it that is under way goes on.  *)
Unmount(b) ==
  /\ b \in mounted /\ mounted' = mounted \ {b}
  /\ cooldown' = [cooldown EXCEPT ![b] = 0]
  /\ behind' = IF Busy(b) THEN behind ELSE behind \ {b}
  /\ UNCHANGED <<backendVars, trusted, phase, clickVars, stored>>

(* The page is loaded again, or closed, and the click with it.             *)
Reload(b) ==
  /\ "reload" \in Faults
  /\ mounted' = mounted \ {b} /\ phase' = [phase EXCEPT ![b] = "idle"]
  /\ cooldown' = [cooldown EXCEPT ![b] = 0] /\ behind' = behind \ {b}
  /\ UNCHANGED <<backendVars, trusted, clickVars, stored>>

Less(n) == IF n = 0 THEN 0 ELSE n - 1

Tick ==
  /\ limit' = [k \in Keys |-> Less(limit[k])]
  /\ cooldown' = [b \in Buttons |-> Less(cooldown[b])]
  /\ stored' = [k \in Keys |-> Less(stored[k])]
  /\ behind' = {b \in behind : stored'[KeyOf[b]] > 0}
  /\ UNCHANGED <<requests, trusted, phase, clickVars, mounted>>

Handler(r) == Check(r) \/ Build(r) \/ Submit(r) \/ Confirm(r)

Next ==
  \/ \E r \in Slots : Handler(r) \/ Throws(r) \/ Apply(r) \/ Expire(r)
  \/ \E b \in Buttons :
       \/ Click(b) \/ Hear(b) \/ AddTrustline(b) \/ TrustlineFails(b)
       \/ GiveUp(b) \/ Mount(b) \/ Unmount(b) \/ Reload(b)
  \/ Tick

Spec == Init /\ [][Next]_vars

-----------------------------------------------------------------------------
(* A click mints once at most. Its first request may be told of as a       *)
(* failure and land all the same, because a lost reply, a poll that threw  *)
(* and a rejection all answer 500: only what never lands is repeated.      *)
OneMintPerClick ==
  \A b \in Buttons : \A r, s \in asked[b] :
    requests[r].tx = "landed" /\ requests[s].tx = "landed" => r = s

(* What a claim that succeeds finds: no cooldown, or it was behind.        *)
FreshOrBehind ==
  \A k \in Keys : stored'[k] > stored[k] =>
    \/ stored[k] = 0
    \/ \E b \in behind : KeyOf[b] = k /\ Waiting(b) /\ phase'[b] = "idle"

(* A claim that succeeds inside the cooldown of an earlier one was made by *)
(* a button that had been on screen, or busy, since before that one was    *)
(* stored. Whatever was unmounted, reloaded or opened twice meanwhile, a   *)
(* button that appeared later keeps to what is left of the cooldown.       *)
OnlyTheBehindClaimAgain == [][FreshOrBehind]_vars
=============================================================================
