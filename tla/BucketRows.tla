------------------------------ MODULE BucketRows ------------------------------
(***************************************************************************)
(* The rows of a depositor's buckets in the browser (useBuckets.ts), and   *)
(* the withdraw form that names its bucket by a place among them           *)
(* (WithdrawKeypad.tsx, WithdrawDrawer.tsx). The rows are those of the     *)
(* backend's /holdings or, while there is no such answer, what an effect   *)
(* has read of the vault call by call, with the pools named by the         *)
(* registry of the build (lib/vault/client.ts, vault-client's real.ts).    *)
(*                                                                         *)
(* Meanwhile the depositor deposits and withdraws elsewhere and the keeper *)
(* moves the pools. A share is worth its unit here; rows keep what the     *)
(* form looks at. Several submissions at a time, and what their answers    *)
(* stand for, are in Transfer; how the requests of /holdings are shared    *)
(* and dropped is in LiveReads.                                            *)
(***************************************************************************)
EXTENDS Naturals, SequencesExt

CONSTANTS
  ACTIVE_BUCKET_CURRENCIES,  (* A sequence.                                 *)
  DEMO_POOL_SLUG,            (* The name of the pool of a currency.         *)
  ENV,                       (* The contract variables the build has.       *)
  BLEND_POOL,                (* And its pool addresses, by currency.        *)
  Known,                     (* Pools for which the backend has a venue.    *)
  Strangers,                 (* Other pools the vault may hold funds in.    *)
  NoPool, NoCurrency,
  Values,                    (* Bound: what a bucket may be worth, 0 too.   *)
  CENT,                      (* Base units in the last decimal shown.       *)
  Surface                    (* "screen" or "drawer".                       *)

Currencies == Range(ACTIVE_BUCKET_CURRENCIES)

VARIABLES
  value,           (* Per currency: the depositor's bucket.                 *)
  activePool,      (* Per currency, on chain.                               *)
  reading,         (* The effect under way: [bucket, stage, value, pool,    *)
                   (* rows], or NoRead.                                     *)
  state,           (* The rows of the effect that ended last.               *)
  holdings,        (* The rows of the last answer, or NoAnswer.             *)
  form,            (* [i, amount, max]                                      *)
  phase,           (* "idle" shows the form, else the screen of that phase. *)
  sent,            (* What the withdrawal under way took from the form:     *)
                   (* [currency, amount, max], or NoRun.                    *)
  enteredFor       (* History: the bucket that the form showed when its     *)
                   (* amount was entered, or NoCurrency.                    *)

chainVars == <<value, activePool>>
rowVars == <<reading, state, holdings>>
flowVars == <<phase, sent>>
formVars == <<form, enteredFor, flowVars>>
vars == <<chainVars, rowVars, formVars>>

Row(c, v) == [currency |-> c, value |-> v]

NoAnswer == <<Row(NoCurrency, 0)>>

NoRead == [bucket |-> 0, stage |-> "done", value |-> 0, pool |-> NoPool, rows |-> <<>>]
StartedRead == [NoRead EXCEPT !.bucket = 1, !.stage = "balance"]

EmptyForm == [i |-> 1, amount |-> 0, max |-> FALSE]

NoRun == [currency |-> NoCurrency, amount |-> 0, max |-> FALSE]

Init ==
  /\ value \in [Currencies -> Values]
  /\ activePool = [c \in Currencies |-> NoPool]
  /\ reading = StartedRead /\ state = <<>> /\ holdings = NoAnswer
  /\ form = EmptyForm /\ enteredFor = NoCurrency
  /\ phase = "idle" /\ sent = NoRun

-----------------------------------------------------------------------------
(* Which pools the browser can name.                                       *)
isIntegrationEnv == {"CONTRACT_ID", "RPC_URL", "NETWORK_PASSPHRASE"} \subseteq ENV

buildPoolRegistry ==
  {[slug |-> DEMO_POOL_SLUG[c], address |-> BLEND_POOL[c]] : c \in DOMAIN BLEND_POOL}

(* Without the contract variables the client is the mock, and without an   *)
(* address the real one passes every id through.                           *)
registry == IF isIntegrationEnv THEN buildPoolRegistry ELSE {}

(* An address that the registry does not know decodes to itself.           *)
poolIdFor(address) ==
  IF \E e \in registry : e.address = address
  THEN (CHOOSE e \in registry : e.address = address).slug
  ELSE address

(* poolAddress, of a pool given by its id: it throws for an unknown one.   *)
Resolves(id) == registry = {} \/ \E e \in registry : e.slug = id

-----------------------------------------------------------------------------
(* The vault, moved from elsewhere.                                        *)
Transact(c) ==
  /\ \E v \in Values \ {value[c]} : value' = [value EXCEPT ![c] = v]
  /\ UNCHANGED <<activePool, rowVars, formVars>>

Allocate(c) ==
  /\ \E p \in Known \cup Strangers \cup {NoPool} : activePool' = [activePool EXCEPT ![c] = p]
  /\ UNCHANGED <<value, rowVars, formVars>>

-----------------------------------------------------------------------------
(* The effect of useBuckets: for each currency the balance and, unless it  *)
(* is zero, the value, the active pool and whether that is frozen.         *)
Bucket == ACTIVE_BUCKET_CURRENCIES[reading.bucket]

Ends(rows) == state' = rows /\ reading' = NoRead

(* On to the next currency with these rows.                                *)
Continue(rows) ==
  IF reading.bucket = Len(ACTIVE_BUCKET_CURRENCIES)
  THEN Ends(rows)
  ELSE /\ reading' = [StartedRead EXCEPT !.bucket = reading.bucket + 1, !.rows = rows]
       /\ UNCHANGED state

ReadBalance ==
  /\ reading.stage = "balance"
  /\ IF value[Bucket] = 0
     THEN Continue(reading.rows)
     ELSE reading' = [reading EXCEPT !.stage = "value"] /\ UNCHANGED state
  /\ UNCHANGED <<chainVars, holdings, formVars>>

ReadValue ==
  /\ reading.stage = "value"
  /\ reading' = [reading EXCEPT !.stage = "pool", !.value = value[Bucket]]
  /\ UNCHANGED <<chainVars, state, holdings, formVars>>

ReadPool ==
  /\ reading.stage = "pool"
  /\ LET pool == activePool[Bucket]
     IN IF pool = NoPool
        THEN Continue(Append(reading.rows, Row(Bucket, reading.value)))
        ELSE /\ reading' = [reading EXCEPT !.stage = "status", !.pool = poolIdFor(pool)]
             /\ UNCHANGED state
  /\ UNCHANGED <<chainVars, holdings, formVars>>

(* One unknown pool, and there is no row at all.                           *)
ReadStatus ==
  /\ reading.stage = "status"
  /\ IF Resolves(reading.pool)
     THEN Continue(Append(reading.rows, Row(Bucket, reading.value)))
     ELSE Ends(<<>>)
  /\ UNCHANGED <<chainVars, holdings, formVars>>

ReadThrows ==
  /\ reading # NoRead
  /\ Ends(<<>>)
  /\ UNCHANGED <<chainVars, holdings, formVars>>

(* Another account's client, or a write of the app: the effect runs again. *)
Bump ==
  /\ reading' = StartedRead
  /\ UNCHANGED <<chainVars, state, holdings, formVars>>

-----------------------------------------------------------------------------
(* GET /holdings: the funded buckets but for those whose pool has no venue,*)
(* or nothing (Quotes).                                                    *)
getHoldings ==
  LET listed == SelectSeq(ACTIVE_BUCKET_CURRENCIES,
                          LAMBDA c : value[c] > 0 /\ activePool[c] \in Known \cup {NoPool})
  IN [n \in DOMAIN listed |-> Row(listed[n], value[listed[n]])]

HoldingsArrive ==
  /\ holdings' \in {getHoldings, NoAnswer}
  /\ UNCHANGED <<chainVars, reading, state, formVars>>

(* The memo of useBuckets.                                                 *)
buckets == IF holdings # NoAnswer THEN holdings ELSE state

-----------------------------------------------------------------------------
(* The withdraw form: buckets[i] ?? buckets[0].                            *)
HasActive == buckets # <<>>

Active == IF form.i \in DOMAIN buckets THEN buckets[form.i] ELSE buckets[1]

Showing == IF HasActive THEN Active.currency ELSE NoCurrency

(* Whole cents.                                                            *)
fromAmount(a) == a - (a % CENT)

Exceeded == HasActive /\ form.amount > Active.value

FormShows    == phase = "idle"
SendingShows == phase = "sending"
SuccessShows == phase = "success"
ErrorShows   == phase = "error"

ChooseNextBucket ==
  /\ FormShows /\ Len(buckets) >= 2
  /\ form' = [EmptyForm EXCEPT !.i = (form.i % Len(buckets)) + 1]
  /\ enteredFor' = NoCurrency
  /\ UNCHANGED <<chainVars, rowVars, flowVars>>

TypeAmount(amount) ==
  /\ FormShows
  /\ form' = [form EXCEPT !.amount = amount, !.max = FALSE]
  /\ enteredFor' = Showing
  /\ UNCHANGED <<chainVars, rowVars, flowVars>>

(* Half of the bucket, or Max. Without a bucket the drawer does nothing,   *)
(* the keypad still notes that Max was pressed.                            *)
Quick(isMax) ==
  /\ FormShows
  /\ IF HasActive
     THEN form' = [form EXCEPT !.max = isMax,
                     !.amount = fromAmount(IF isMax THEN Active.value ELSE Active.value \div 2)]
     ELSE Surface = "screen" /\ form' = [form EXCEPT !.max = isMax]
  /\ enteredFor' = Showing
  /\ UNCHANGED <<chainVars, rowVars, flowVars>>

CanConfirm == FormShows /\ HasActive /\ ~Exceeded /\ form.amount > 0

-----------------------------------------------------------------------------
(* A withdrawal. Bound: one is under way. The rows move meanwhile, and it  *)
(* keeps what the form said when it was confirmed.                         *)
Confirm ==
  /\ CanConfirm /\ sent = NoRun
  /\ phase' = "sending"
  /\ sent' = [currency |-> Showing, amount |-> form.amount, max |-> form.max]
  /\ UNCHANGED <<chainVars, rowVars, form, enteredFor>>

(* For Max it burns whatever the bucket then holds. With nothing to burn   *)
(* there is nothing to send, and the flow takes that for success.          *)
Withdrawn == IF sent.max THEN value[sent.currency] ELSE sent.amount

(* The drawer bumps the version for a burn.                                *)
Lands ==
  /\ sent # NoRun /\ Withdrawn <= value[sent.currency]
  /\ value' = [value EXCEPT ![sent.currency] = @ - Withdrawn]
  /\ phase' = "success" /\ sent' = NoRun
  /\ reading' = IF Surface = "drawer" /\ Withdrawn > 0 THEN StartedRead ELSE reading
  /\ UNCHANGED <<activePool, state, holdings, form, enteredFor>>

(* Refused, or the wallet was closed, which shows the form again.          *)
Fails ==
  /\ sent # NoRun
  /\ phase' \in {"error", "idle"} /\ sent' = NoRun
  /\ UNCHANGED <<chainVars, rowVars, form, enteredFor>>

(* A page is left, and mounted afresh the next time; a run it leaves is    *)
(* one from elsewhere. A drawer stays, with its rows and its run.          *)
Reset ==
  /\ form' = EmptyForm /\ enteredFor' = NoCurrency /\ phase' = "idle"
  /\ IF Surface = "screen"
     THEN reading' = StartedRead /\ state' = <<>> /\ holdings' = NoAnswer /\ sent' = NoRun
     ELSE UNCHANGED <<rowVars, sent>>
  /\ UNCHANGED chainVars

Close == (FormShows \/ SendingShows \/ ErrorShows) /\ Reset

BackToHome == SuccessShows /\ Reset

BackToWithdraw ==
  /\ ErrorShows
  /\ phase' = "idle"
  /\ UNCHANGED <<chainVars, rowVars, form, enteredFor, sent>>

Next ==
  \/ \E c \in Currencies : Transact(c) \/ Allocate(c)
  \/ ReadBalance \/ ReadValue \/ ReadPool \/ ReadStatus \/ ReadThrows
  \/ Bump \/ HoldingsArrive
  \/ ChooseNextBucket \/ Confirm \/ Lands \/ Fails
  \/ Close \/ BackToHome \/ BackToWithdraw
  \/ \E amount \in Values : TypeAmount(amount)
  \/ \E isMax \in BOOLEAN : Quick(isMax)

Spec == Init /\ [][Next]_vars

-----------------------------------------------------------------------------
(* An amount that may be confirmed is for the bucket the depositor entered *)
(* it for (WithdrawKeypad.tsx: "the previous bucket's amount doesn't carry *)
(* over"). The form resets it when the depositor chooses another bucket,   *)
(* and not when the rows move under its index.                             *)
AmountIsForItsBucket ==
  CanConfirm /\ enteredFor # NoCurrency => enteredFor = Showing

=============================================================================
