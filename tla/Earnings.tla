------------------------------ MODULE Earnings ------------------------------
(***************************************************************************)
(* What a depositor has earned: the share-price snapshots                  *)
(* (earnings/snapshotter.ts, taken by http/realtime.ts), the cost basis    *)
(* replayed from deposits and withdrawals (earnings/cost-basis.ts), and    *)
(* the view that GET /earnings composes of both (api/earnings.ts), over    *)
(* buckets that are priced as the contract prices them.                    *)
(*                                                                         *)
(* The server knows a run of the vault's events, in order, as ChainPoller  *)
(* promises. Sums are in whole units; a rate is an integer. The line of    *)
(* the hero chart that the app draws of the view (DesktopOverview.tsx) is  *)
(* here too.                                                               *)
(***************************************************************************)
EXTENDS ShareMath, Sums, SequencesExt

CONSTANTS
  Users, NoUser,
  Buckets,      (* A sequence of currencies; the first needs no rate.       *)
  Rate,         (* USD per unit of each currency.                           *)
  Amounts, Interest,
  SCALE,        (* SHARE_PRICE_SCALE.                                       *)
  Month,        (* Clock ticks in a calendar month.                         *)
  RANGE_MS,     (* How far back the hero chart's ranges look, in ticks.     *)
  MaxTime, MaxEvents, MaxGain  (* Bounds: clock, events, interest per bucket. *)

Currencies == Range(Buckets)

ConstantsOK ==
  /\ IsFiniteSet(Users) /\ NoUser \notin Users
  /\ Buckets \in Seq(Currencies) /\ Amounts \subseteq Nat /\ Interest \subseteq Nat
  /\ Currencies # {} /\ Month \in Nat \ {0} /\ RANGE_MS \subseteq Nat
  /\ Rate \in [Currencies -> Nat \ {0}] /\ Rate[Buckets[1]] = 1
  /\ SCALE \in Nat \ {0} /\ VirtualOffset \in Nat \ {0} /\ MaxTime \in Nat

VARIABLES
  now,
  shares, nav,   (* The buckets: shares per currency and user, assets.      *)
  history,       (* The vault's deposits and withdrawals so far.            *)
  gained,        (* Interest per time and currency, accumulated.            *)
  from, known,   (* The server knows the events from .. known.              *)
  snaps,         (* Snapshots per currency: [price, ts].                    *)
  ticking,       (* The snapshot tick under way: places of Buckets to go.   *)
  asked          (* The request under way: [who, events, seen, values].     *)

chainVars == <<now, shares, nav, history, gained>>
serverVars == <<from, known, snaps, ticking, asked>>
vars == <<chainVars, serverVars>>

NotAsked == [who |-> NoUser, events |-> <<>>, seen |-> 0, values |-> <<>>]

Total(c) == SumOver(shares[c], Users)

(* The server may have been pointed at a ledger after the first event.     *)
Init ==
  /\ now = 0 /\ history = <<>>
  /\ shares = [c \in Currencies |-> [u \in Users |-> 0]]
  /\ nav = [c \in Currencies |-> 0]
  /\ gained = [t \in 0 .. MaxTime |-> nav]
  /\ from \in {1, 2} /\ known = from - 1
  /\ snaps = [c \in Currencies |-> <<>>] /\ ticking = <<>> /\ asked = NotAsked

-----------------------------------------------------------------------------
(* The chain.                                                              *)
Logged(kind, u, c, amount, burned) ==
  /\ Len(history) < MaxEvents
  /\ history' = Append(history, [kind |-> kind, who |-> u, currency |-> c,
                                 amount |-> amount, shares |-> burned, ts |-> now])
  /\ UNCHANGED <<now, gained, serverVars>>

Deposit(u, c) ==
  \E amount \in Amounts :
    LET minted == MintShares(amount, Total(c), nav[c])
    IN /\ minted > 0
       /\ shares' = [shares EXCEPT ![c][u] = @ + minted]
       /\ nav' = [nav EXCEPT ![c] = @ + amount]
       /\ Logged("deposit", u, c, amount, minted)

Withdraw(u, c) ==
  \E burned \in {shares[c][u], shares[c][u] \div 2} \ {0} :
    LET amount == RedeemAssets(burned, Total(c), nav[c])
    IN /\ shares' = [shares EXCEPT ![c][u] = @ - burned]
       /\ nav' = [nav EXCEPT ![c] = @ - amount]
       /\ Logged("withdraw", u, c, amount, burned)

Accrue(c) ==
  \E i \in Interest :
    /\ Total(c) > 0 /\ gained[now][c] + i <= MaxGain
    /\ nav' = [nav EXCEPT ![c] = @ + i]
    /\ gained' = [t \in DOMAIN gained |->
                    IF t < now THEN gained[t] ELSE [gained[t] EXCEPT ![c] = @ + i]]
    /\ UNCHANGED <<now, shares, history, serverVars>>

TimePasses ==
  /\ now < MaxTime /\ now' = now + 1
  /\ UNCHANGED <<shares, nav, history, gained, serverVars>>

-----------------------------------------------------------------------------
(* The server's two loops, and its end.                                    *)
Poll ==
  /\ \E n \in known + 1 .. Len(history) : known' = n
  /\ UNCHANGED <<chainVars, from, snaps, ticking, asked>>

sharePrice(c) == ((nav[c] + VirtualOffset) * SCALE) \div (Total(c) + VirtualOffset)

(* snapshotTick: one currency after the other, each at the clock's time    *)
(* when its price arrives.                                                 *)
StartTick ==
  /\ ticking = <<>> /\ ticking' = Buckets
  /\ UNCHANGED <<chainVars, from, known, snaps, asked>>

Sample ==
  /\ ticking # <<>> /\ ticking' = Tail(ticking)
  /\ snaps' = [snaps EXCEPT ![Head(ticking)] =
                 Append(@, [price |-> sharePrice(Head(ticking)), ts |-> now])]
  /\ UNCHANGED <<chainVars, from, known, asked>>

(* A price that cannot be read ends the tick.                              *)
SampleThrows ==
  /\ ticking # <<>> /\ ticking' = <<>>
  /\ UNCHANGED <<chainVars, from, known, snaps, asked>>

Restart ==
  /\ snaps # [c \in Currencies |-> <<>>]
  /\ known' = from - 1 /\ snaps' = [c \in Currencies |-> <<>>]
  /\ ticking' = <<>> /\ asked' = NotAsked
  /\ UNCHANGED <<chainVars, from>>

-----------------------------------------------------------------------------
(* GET /earnings. The events are those stored when the request arrives;    *)
(* the values are then awaited from the chain, one after the other.        *)
Ask(u) ==
  /\ asked = NotAsked
  /\ asked' = [who |-> u, events |-> SubSeq(history, from, known), seen |-> known,
               values |-> <<>>]
  /\ UNCHANGED <<chainVars, from, known, snaps, ticking>>

AllRead == asked.who # NoUser /\ Len(asked.values) = Len(Buckets)

ReadValue ==
  /\ asked.who # NoUser /\ ~AllRead
  /\ LET c == Buckets[Len(asked.values) + 1]
     IN asked' = [asked EXCEPT !.values =
                    Append(@, RedeemAssets(shares[c][asked.who], Total(c), nav[c]))]
  /\ UNCHANGED <<chainVars, from, known, snaps, ticking>>

(* The answer is the state function that the operators below give.         *)
Answer ==
  /\ AllRead /\ asked' = NotAsked
  /\ UNCHANGED <<chainVars, from, known, snaps, ticking>>

(* reconstructCostBasis *)
EmptyBasis == [shares |-> 0, contributed |-> 0]

LeftInFull(basis, burned) == basis.contributed

Left(basis, burned) ==
  basis.contributed - (basis.contributed * burned) \div basis.shares

Replay(basis, e) ==
  IF e.kind = "deposit"
  THEN [shares |-> basis.shares + e.shares, contributed |-> basis.contributed + e.amount]
  ELSE [shares |-> basis.shares - e.shares, contributed |-> Left(basis, e.shares)]

costBasisOf(events, u, c) ==
  LET upTo[n \in 0 .. Len(events)] ==
        IF n = 0 THEN EmptyBasis
        ELSE IF events[n].who = u /\ events[n].currency = c
        THEN Replay(upTo[n - 1], events[n])
        ELSE upTo[n - 1]
  IN upTo[Len(events)]

(* A withdrawal of shares that no known deposit minted, whoever made it.   *)
Throws(events) ==
  \E n \in DOMAIN events :
    LET e == events[n]
        earlier == SubSeq(events, 1, n - 1)
    IN e.kind = "withdraw" /\ e.shares > costBasisOf(earlier, e.who, e.currency).shares

ValueRead(c) == asked.values[CHOOSE n \in DOMAIN Buckets : Buckets[n] = c]

(* A bucket without value and history is never converted.                  *)
UntouchedNever(c) == FALSE

Untouched(c) ==
  /\ ValueRead(c) = 0
  /\ \A n \in DOMAIN asked.events :
       ~(asked.events[n].who = asked.who /\ asked.events[n].currency = c)

NeededRates == {c \in Currencies \ {Buckets[1]} : ~Untouched(c)}

(* Value less contributions; the headline shows no less than zero.         *)
Earned(c) == ValueRead(c) - costBasisOf(asked.events, asked.who, c).contributed

PriceLately(c, t) ==
  IF snaps[c] = <<>> THEN SCALE ELSE Last(snaps[c]).price

(* The entries of a list up to a time. Lists are in the order of time: to  *)
(* filter them and to stop at the first later entry is the same.           *)
Until(list, t) == SubSeq(list, 1, Cardinality({n \in DOMAIN list : list[n].ts <= t}))

priceAt(c, t) ==
  LET upTo == Until(snaps[c], t)
  IN IF upTo = <<>> THEN SCALE ELSE Last(upTo).price

InUsd(f) == MapThenSumSet(LAMBDA c : f[c] * Rate[c], Currencies)

(* stateAt: the depositor's buckets at a time, what they were worth and    *)
(* what of that they had earned.                                           *)
basisAt(c, t) == costBasisOf(Until(asked.events, t), asked.who, c)

Worth(c, t, held) == (held * priceAt(c, t)) \div SCALE

valueAt(t) == InUsd([c \in Currencies |-> Worth(c, t, basisAt(c, t).shares)])

earnedAt(t) ==
  InUsd([c \in Currencies |->
           LET basis == basisAt(c, t) IN Worth(c, t, basis.shares) - basis.contributed])

balanceUsd == InUsd([c \in Currencies |-> ValueRead(c)])

times ==
  {asked.events[n].ts : n \in {m \in DOMAIN asked.events : asked.events[m].who = asked.who}}
    \cup UNION {{snaps[c][n].ts : n \in DOMAIN snaps[c]} : c \in Currencies}

(* The chart's running maximum, and what each month adds to it.            *)
chart ==
  [t \in times |-> Max({0} \cup {earnedAt(s) : s \in {s \in times : s <= t}})]

monthKey(t) == t \div Month

monthly ==
  LET upTo(m) == {t \in times : monthKey(t) <= m}
      cum(m) == IF upTo(m) = {} THEN 0 ELSE chart[Max(upTo(m))]
  IN [m \in {monthKey(t) : t \in times} |-> cum(m) - IF m = 0 THEN 0 ELSE cum(m - 1)]

(* The line of the hero chart: the values of a window that ends with the   *)
(* last sample. One value alone is drawn as a level, and so is, without    *)
(* any sample, the total of the rows.                                      *)
rangeSeries(ms, fallbackUsd) ==
  LET samples == times
      last == Max(samples)
  IN IF samples = {} THEN now :> fallbackUsd
     ELSE [t \in {t \in samples : t >= last - ms} |-> valueAt(t)]

-----------------------------------------------------------------------------
Next ==
  \/ \E u \in Users, c \in Currencies : Deposit(u, c) \/ Withdraw(u, c)
  \/ \E c \in Currencies : Accrue(c)
  \/ TimePasses \/ Poll \/ StartTick \/ Sample \/ SampleThrows \/ Restart
  \/ \E u \in Users : Ask(u)
  \/ ReadValue \/ Answer

Spec == Init /\ [][Next]_vars

-----------------------------------------------------------------------------
Complete == AllRead /\ from = 1

(* What rounding may cost a bucket: for every event the price of a share,  *)
(* rounded up to a whole unit.                                             *)
Dust(c) ==
  Cardinality({n \in DOMAIN history : history[n].currency = c}) * PriceAbove(Total(c), nav[c])

(* What the asker's events amount to that the store did not hold when he   *)
(* asked.                                                                  *)
Unseen(kind, c) ==
  SumOver([n \in DOMAIN history |-> history[n].amount],
          {n \in asked.seen + 1 .. Len(history) :
             history[n].kind = kind /\ history[n].who = asked.who
                                    /\ history[n].currency = c})

(* What the headline calls earned is interest, and a shortfall is dust     *)
(* (earnings.ts: "a rounding dust, never a real loss"), except for         *)
(* deposits and withdrawals that the store did not hold yet when the       *)
(* values were read: those pass for earnings until the next poll.          *)
HeadlineIsYield ==
  Complete =>
    \A c \in Currencies :
      /\ Earned(c) <= gained[now][c] + Unseen("deposit", c) + Dust(c)
      /\ Earned(c) >= 0 - Unseen("withdraw", c) - Dust(c)

(* What the asker's shares are worth when the answer is composed.          *)
WorthNow(c) == RedeemAssets(shares[c][asked.who], Total(c), nav[c])

(* The chart never shows growth before the buckets had it, no month takes  *)
(* earnings back (earnings.ts: "without inventing any growth"), and the    *)
(* line of the hero chart ends, for every range, no higher than what the   *)
(* buckets are worth (DesktopOverview.tsx: "never as an invented curve"),  *)
(* as long as no withdrawal is missing: one that the store does not hold   *)
(* yet leaves shares in the charts that earn on at every later snapshot.   *)
(* A deposit that is missing has its rounding counted once more.           *)
ChartInventsNothing ==
  Complete /\ (\A c \in Currencies : Unseen("withdraw", c) = 0) =>
    /\ \A t \in times : chart[t] <= InUsd([c \in Currencies |-> gained[t][c] + 2 * Dust(c)])
    /\ \A m \in DOMAIN monthly : monthly[m] >= 0
    /\ times # {} =>
         \A ms \in RANGE_MS : rangeSeries(ms, balanceUsd)[Max(times)]
                                 <= InUsd([c \in Currencies |-> WorthNow(c)])

(* With the whole history stored no withdrawal is unmatched, and a         *)
(* depositor needs the rates of the buckets he used, no other.             *)
CompleteHistoryIsServed ==
  Complete =>
    /\ ~Throws(asked.events)
    /\ \A c \in NeededRates :
         \E n \in DOMAIN history : history[n].who = asked.who /\ history[n].currency = c
=============================================================================
