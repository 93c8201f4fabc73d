----------------------------- MODULE MCBackend -----------------------------
(***************************************************************************)
(* What the backend answers, side by side for TLC: the earnings view, the  *)
(* holdings, rates and pool reads, and the activity feed. They read the    *)
(* same chain and write nothing, so interleaving their steps would show    *)
(* nothing: `part` says which of them moves, and the others keep still.    *)
(***************************************************************************)
EXTENDS Naturals, Sequences, TLC

CONSTANTS
  Users, NoUser, Asker,                 (* The one of them who asks.        *)
  Buckets,
  Rate, Amounts, Interest, SCALE, Month, RANGE_MS,      (* See Earnings.    *)
  VirtualOffset,
  MaxSnaps,                             (* Snapshots per currency.          *)
  MaxTime, MaxEarningEvents, MaxGain,
  SAFE_VENUES, TRAP_VENUES, demoPoolFor, PoolAddress,   (* See Quotes.      *)
  Strangers, FX_SYMBOL, NoPool,
  NoCurrency, Limit, MaxEvents                          (* See Activity.    *)

VARIABLES
  part,
  now, shares, nav, history, gained, from, known, snaps, ticking, asked,
  funded, active, scaled, lines, throughout, answer,
  events, stored

earningsVars == <<now, shares, nav, history, gained, from, known, snaps, ticking, asked>>
quotesVars == <<funded, active, scaled, lines, throughout, answer>>
activityVars == <<events, stored>>
vars == <<part, earningsVars, quotesVars, activityVars>>

-----------------------------------------------------------------------------
BothBuckets == <<"USD", "EUR">>
TwoPerEuro == "USD" :> 1 @@ "EUR" :> 2

Venue(pool, currency, apy, place) ==
  [pool |-> pool, currency |-> currency, apy |-> apy, place |-> place]

Catalog ==
  {Venue("usdc", "USD", 6, 1), Venue("usd", "USD", 10, 2), Venue("trap", "USD", 30, 3),
   Venue("eur", "EUR", 10, 4), Venue("eurc", "EUR", 10, 5)}

OnePoolEach == "USD" :> "usd" @@ "EUR" :> "eur"
OneAddress == "EUR" :> "C-eur"

Earnings == INSTANCE Earnings WITH MaxEvents <- MaxEarningEvents

Quotes == INSTANCE Quotes WITH Currencies <- Buckets

Activity == INSTANCE Activity
  WITH known <- stored, Currencies <- {Buckets[i] : i \in DOMAIN Buckets}

(* Until filters a list in the order of time, on every such list of up to  *)
(* three entries.                                                          *)
ASSUME UntilIsFilter ==
  \A n \in 0 .. 3, t \in 0 .. 3 : \A list \in [1 .. n -> [ts : 0 .. 3]] :
    (\A i, j \in 1 .. n : i < j => list[i].ts <= list[j].ts)
      => Earnings!Until(list, t) = SelectSeq(list, LAMBDA e : e.ts <= t)

ASSUME BackendAssumption ==
  Earnings!ConstantsOK /\ Quotes!ConstantsOK /\ Activity!ConstantsOK

-----------------------------------------------------------------------------
Init ==
  /\ part \in {"earnings", "quotes", "activity"}
  /\ Earnings!Init /\ Quotes!Init /\ Activity!Init
  /\ from = 1
  /\ part # "quotes" => funded = {} /\ ~scaled

(* One depositor asks, and neither a snapshot nor a poll that the answer   *)
(* would not see happens meanwhile, nor does the clock move; the other has *)
(* one event, in the first currency, the one that bears interest, and no   *)
(* restart follows it.                                                     *)
EarningsBounds ==
  /\ \A c \in Earnings!Currencies : Len(snaps'[c]) <= MaxSnaps
  /\ asked'.who \in {Asker, NoUser}
  /\ asked'.who # NoUser => ticking' = <<>> /\ known' = known /\ now' = now
  /\ \A n \in DOMAIN history' : history'[n].who # Asker =>
       /\ history'[n].currency = Buckets[1]
       /\ \A m \in DOMAIN history' \ {n} : history'[m].who = Asker
       /\ known' >= known
  /\ gained'[MaxTime][Buckets[2]] = 0

(* No read follows an answer but a second request for holdings after one   *)
(* that failed. Of the pools only those of the second currency, registered *)
(* or strangers, become active.                                            *)
QuotesBounds ==
  /\ answer.to \in {"nobody", "/holdings"}
  /\ Quotes!Asking /\ ~Quotes!Has(Buckets[1], "held") =>
       answer.to = "nobody" \/ answer.status = 503

Next ==
  \/ /\ part = "earnings" /\ Earnings!Next /\ EarningsBounds
     /\ UNCHANGED <<part, quotesVars, activityVars>>
  \/ /\ part = "quotes" /\ QuotesBounds
     /\ Quotes!Next /\ active'[Buckets[1]] = NoPool
     /\ UNCHANGED <<part, earningsVars, activityVars>>
  \/ /\ part = "activity" /\ Activity!Next
     /\ UNCHANGED <<part, earningsVars, quotesVars>>

Spec == Init /\ [][Next]_vars

-----------------------------------------------------------------------------
(* The earnings headline is interest, up to dust and what is not stored.   *)
HeadlineIsYield == Earnings!HeadlineIsYield

(* The earnings chart shows no growth before there was any.                *)
ChartInventsNothing == Earnings!ChartInventsNothing

(* A depositor whose whole history is stored gets his earnings, without a  *)
(* rate of a bucket he never used.                                         *)
CompleteHistoryIsServed == Earnings!CompleteHistoryIsServed

(* No bucket is missing from a holdings answer because a read failed, and  *)
(* a 404 is an unknown pool.                                               *)
AnswersAreHonest == Quotes!AnswersAreHonest

(* No row leaves a depositor's feed but to newer ones.                     *)
RowsStay == Activity!RowsStay
=============================================================================
