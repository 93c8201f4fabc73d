------------------------------- MODULE Quotes -------------------------------
(***************************************************************************)
(* The read surfaces of the backend that compose several reads into one    *)
(* answer: GET /holdings (api/holdings.ts), /rates (api/rates.ts) and      *)
(* /pools/:id (api/pools.ts), with the venues they name (venue-meta.ts,    *)
(* tools/catalog.ts), the oracle and rate readers (tools/price.ts,         *)
(* tools/pool-rate.ts, api/live-apy.ts), and the status each error becomes *)
(* (http/app.ts). The depositor and the keeper act between the reads.      *)
(*                                                                         *)
(* Figures, and the flag of a frozen pool, are left out: a read either     *)
(* gives one or an error code.                                             *)
(***************************************************************************)
EXTENDS Naturals, SequencesExt

CONSTANTS
  Currencies,    (* A sequence; the first is the oracle's base.             *)
  SAFE_VENUES,   (* The catalog: [pool, currency, apy, place], its order.   *)
  TRAP_VENUES,   (* Pools kept out of it.                                   *)
  demoPoolFor,   (* The keeper's pool, for the currencies that have one.    *)
  PoolAddress,   (* The environment: its address, where it is set.          *)
  Strangers,     (* Pools the registry and the catalog do not name.         *)
  FX_SYMBOL,     (* Currencies with a feed symbol.                          *)
  NoPool

ConstantsOK ==
  /\ Currencies \in Seq(Range(Currencies))
  /\ IsFiniteSet(SAFE_VENUES)
  /\ \A v \in SAFE_VENUES : v.apy \in Nat /\ v.place \in Nat
  /\ \A v, w \in SAFE_VENUES : v.place = w.place => v = w
  /\ DOMAIN PoolAddress \subseteq DOMAIN demoPoolFor
  /\ NoPool \notin Strangers \cup Range(PoolAddress)

VARIABLES
  funded,        (* Currencies in which the depositor has shares.           *)
  active,        (* Active pool per currency.                               *)
  scaled,        (* The oracle reader remembers the feed's scale.           *)
  lines,         (* A holdings request: what was read, per currency.        *)
  throughout,    (* Currencies funded since the request came in.            *)
  answer         (* The last answer: [to, status, listed].                  *)

chainVars == <<funded, active>>
vars == <<chainVars, scaled, lines, throughout, answer>>

Nothing == <<>>
Unread == [c \in Range(Currencies) |-> Nothing]
NotAsked == <<>>

(* The catalog (tools/catalog.ts) and what is said of it (venue-meta.ts).   *)
getCatalog(c) == {v \in SAFE_VENUES : v.pool \notin TRAP_VENUES /\ v.currency = c}

Vetted == {v.pool : v \in SAFE_VENUES} \ TRAP_VENUES

(* The first of the highest rate.                                          *)
bestSafeVenue(c) ==
  LET safe == getCatalog(c)
      best == CHOOSE v \in safe : \A w \in safe :
                w.apy < v.apy \/ (w.apy = v.apy /\ v.place <= w.place)
  IN IF safe = {} THEN NoPool ELSE best.pool

(* The registry (tools/vault.ts): a pool of the keeper and its address.    *)
poolRegistryEntries ==
  {[pool |-> demoPoolFor[c], address |-> PoolAddress[c]] : c \in DOMAIN PoolAddress}

(* An address that is not in it stands for itself.                         *)
poolIdFor(address) ==
  IF \E e \in poolRegistryEntries : e.address = address
    THEN (CHOOSE e \in poolRegistryEntries : e.address = address).pool
    ELSE address

Answer(to, status, listed) == [to |-> to, status |-> status, listed |-> listed]

(* The environment may pin the feed's scale.                               *)
reflectorDecimals == BOOLEAN

Init ==
  /\ funded \in SUBSET Range(Currencies)
  /\ active = [c \in Range(Currencies) |-> NoPool]
  /\ scaled \in reflectorDecimals /\ lines = NotAsked /\ throughout = {}
  /\ answer = Answer("nobody", 200, {})

-----------------------------------------------------------------------------
(* The chain.                                                              *)
Fund(c) ==
  /\ funded' = funded \cup {c}
  /\ UNCHANGED <<active, scaled, lines, throughout, answer>>

Leave(c) ==
  /\ funded' = funded \ {c} /\ throughout' = throughout \ {c}
  /\ UNCHANGED <<active, scaled, lines, answer>>

Move(c, p) ==
  /\ active' = [active EXCEPT ![c] = p]
  /\ UNCHANGED <<funded, scaled, lines, throughout, answer>>

-----------------------------------------------------------------------------
(* The readers. A simulation stalls, fails, or returns nothing, something  *)
(* that does not decode, the oracle's None, an unexpected value, a figure  *)
(* that is not positive, or a good one.                                    *)
Retval == {"stalls", "fails", "nothing", "garbled", "none", "odd", "zero", "good"}

decodePrice(r) ==
  CASE r = "stalls" -> "timeout" [] r \in {"fails", "nothing"} -> "unavailable"
    [] r = "none" -> "not_found" [] r = "good" -> "ok" [] OTHER -> "parse"

(* A pool's rate_bps is a number, never an option.                         *)
RateRetval == Retval \ {"none"}

decodeRate(r) ==
  CASE r = "stalls" -> "timeout" [] r \in {"fails", "nothing"} -> "unavailable"
    [] r = "good" -> "ok" [] OTHER -> "parse"

readDecimals(r) ==
  CASE r = "stalls" -> "timeout" [] r = "fails" -> "unavailable"
    [] r \in {"zero", "good"} -> "ok" [] OTHER -> "parse"

(* The scale is read once per process, before the first price. One that    *)
(* does not decode throws.                                                 *)
makeReflectorReader(code) ==
  \/ \E r \in Retval \ {"garbled"} :
       /\ ~scaled /\ readDecimals(r) # "ok"
       /\ code = readDecimals(r) /\ UNCHANGED scaled
  \/ \E r \in Retval : code = decodePrice(r) /\ scaled' = TRUE

NoRate(code) == IF code = "not_found" THEN "unavailable" ELSE code

fx(c, code) ==
  \/ c = Currencies[1] /\ code = "ok" /\ UNCHANGED scaled
  \/ c # Currencies[1] /\ c \notin FX_SYMBOL /\ code = "unavailable" /\ UNCHANGED scaled
  \/ c \in FX_SYMBOL /\ \E read \in {"ok", "timeout", "unavailable", "parse", "not_found"} :
       makeReflectorReader(read) /\ code = NoRate(read)

catalogApy(p) == IF p \in Vetted THEN "ok" ELSE "not_found"

(* The rate of a pool that has an address is read on chain.                *)
apyCodes(p) ==
  IF \E e \in poolRegistryEntries : e.pool = p
    THEN {decodeRate(r) : r \in RateRetval} ELSE {catalogApy(p)}

statusForErr(code) ==
  CASE code = "not_found" -> 404 [] code = "timeout" -> 504
    [] code = "unavailable" -> 503 [] code = "parse" -> 502

(* The answer to a list of reads: the first failure, in the order of the   *)
(* currencies, or what is listed.                                          *)
Status(codes) ==
  LET failed == {i \in DOMAIN Currencies : codes[Currencies[i]] \notin {"ok", "omitted"}}
  IN IF failed = {} THEN 200 ELSE statusForErr(codes[Currencies[Min(failed)]])

-----------------------------------------------------------------------------
(* GET /holdings: the currencies side by side; within one, its balance,    *)
(* then value, pool and rate side by side, then the flag and the APY.       *)
AskHoldings ==
  /\ lines = NotAsked
  /\ lines' = Unread /\ throughout' = funded
  /\ UNCHANGED <<chainVars, scaled, answer>>

Has(c, field) == field \in DOMAIN lines[c]

Note(c, field, value) ==
  lines' = [lines EXCEPT ![c] = [f \in DOMAIN @ \cup {field} |-> IF f = field THEN value ELSE @[f]]]

Asking == lines # NotAsked

ReadBalance(c) ==
  /\ Asking /\ ~Has(c, "held")
  /\ Note(c, "held", c \in funded)
  /\ UNCHANGED <<chainVars, scaled, throughout, answer>>

Held(c) == Has(c, "held") /\ lines[c].held

ReadPool(c) ==
  /\ Asking /\ Held(c) /\ ~Has(c, "pool")
  /\ Note(c, "pool", poolIdFor(active[c]))
  /\ UNCHANGED <<chainVars, scaled, throughout, answer>>

ReadFx(c) ==
  /\ Asking /\ Held(c) /\ ~Has(c, "fx")
  /\ \E code \in {"ok", "timeout", "unavailable", "parse", "not_found"} :
       fx(c, code) /\ Note(c, "fx", code)
  /\ UNCHANGED <<chainVars, throughout, answer>>

(* The active pool's venue, or the one the agent would choose.             *)
Venue(c) == IF lines[c].pool = NoPool THEN bestSafeVenue(c) ELSE lines[c].pool

Rated(c) == Has(c, "pool") /\ Has(c, "fx") /\ lines[c].fx = "ok" /\ Venue(c) \in Vetted

ReadApy(c) ==
  /\ Asking /\ Rated(c) /\ ~Has(c, "apy")
  /\ \E code \in apyCodes(Venue(c)) : Note(c, "apy", code)
  /\ UNCHANGED <<chainVars, scaled, throughout, answer>>

Read(c) ==
  /\ Has(c, "held")
  /\ lines[c].held => Has(c, "pool") /\ Has(c, "fx") /\ (Rated(c) => Has(c, "apy"))

LineSkippingFailures(c) ==
  IF Held(c) /\ Rated(c) /\ lines[c].apy = "ok" THEN "ok" ELSE "omitted"

Line(c) ==
  CASE ~Held(c) -> "omitted"
    [] Held(c) /\ lines[c].fx # "ok" -> lines[c].fx
    [] OTHER -> IF Rated(c) THEN lines[c].apy ELSE "omitted"

getHoldings ==
  /\ Asking /\ \A c \in Range(Currencies) : Read(c)
  /\ LET codes == [c \in Range(Currencies) |-> Line(c)]
     IN answer' = Answer("/holdings", Status(codes),
                         {c \in Range(Currencies) : codes[c] = "ok"})
  /\ lines' = NotAsked
  /\ UNCHANGED <<chainVars, scaled, throughout>>

(* A read of the vault throws, and nothing catches it.                     *)
HoldingsThrow ==
  /\ Asking
  /\ answer' = Answer("/holdings", 500, {}) /\ lines' = NotAsked
  /\ UNCHANGED <<chainVars, scaled, throughout>>

(* GET /rates: the default venue of every currency that has one.           *)
getRates ==
  /\ \E codes \in [Range(Currencies) -> {"ok", "omitted", "timeout", "unavailable", "parse"}] :
       /\ \A c \in Range(Currencies) :
            codes[c] \in LET best == bestSafeVenue(c)
                         IN IF best = NoPool THEN {"omitted"} ELSE apyCodes(best)
       /\ answer' = Answer("/rates", Status(codes), {c \in Range(Currencies) : codes[c] = "ok"})
  /\ UNCHANGED <<chainVars, scaled, lines, throughout>>

(* An unknown pool, or a trap, is no pool.                                 *)
getPool(p) ==
  /\ \E code \in IF p \in Vetted THEN apyCodes(p) ELSE {"not_found"} :
       answer' = Answer(p, IF code = "ok" THEN 200 ELSE statusForErr(code), {})
  /\ UNCHANGED <<chainVars, scaled, lines, throughout>>

-----------------------------------------------------------------------------
Next ==
  \/ \E c \in Range(Currencies) :
       \/ Fund(c) \/ Leave(c)
       \/ \E a \in Range(PoolAddress) \cup Strangers \cup {NoPool} : Move(c, a)
       \/ ReadBalance(c) \/ ReadPool(c) \/ ReadFx(c) \/ ReadApy(c)
  \/ \E p \in Vetted \cup TRAP_VENUES \cup Strangers : getPool(p)
  \/ AskHoldings \/ getHoldings \/ HoldingsThrow \/ getRates

Spec == Init /\ [][Next]_vars

-----------------------------------------------------------------------------
(* However the depositor and the keeper act while it is composed, a        *)
(* holdings answer that says 200 lists every bucket that held his money    *)
(* all the time: a failed read fails the whole, and only a bucket without  *)
(* a vetted venue is left out (holdings.ts: "never a silent $0"). A 404    *)
(* says that a pool is not one of the catalog, nothing else; a rate the    *)
(* oracle does not carry is none (earnings.ts: it "reads as no such        *)
(* depositor").                                                            *)
AnswersAreHonest ==
  [][/\ \A c \in throughout :
          answer'.to = "/holdings" /\ answer'.status = 200 /\ Asking /\ ~Asking' =>
            c \in answer'.listed \/ Venue(c) \notin Vetted
     /\ answer'.status = 404 => answer'.to \in TRAP_VENUES \cup Strangers]_vars
=============================================================================
