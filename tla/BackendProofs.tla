---------------------------- MODULE BackendProofs ----------------------------
(***************************************************************************)
(* Theorems about the answers of the backend: the activity feed, for every *)
(* set of depositors and currencies, limit and history of events; the      *)
(* holdings, rates and pool answers, for every catalog and environment;    *)
(* and the earnings view, for every history of deposits, withdrawals and   *)
(* interest: a complete store is served, the headline is interest, and the *)
(* charts invent nothing.                                                  *)
(*                                                                         *)
(* The last three rest on EarningsInv, the replay of the history and the   *)
(* backing of the shares; the headline on YieldInv and ReadInv as well,    *)
(* what was paid in against what it is worth; the chart on YieldInv,       *)
(* SnapsInv and PastInv, what was quoted and known at each time that has   *)
(* passed.                                                                 *)
(***************************************************************************)
EXTENDS MCBackend, CollectionProofs, SequenceTheorems

-----------------------------------------------------------------------------
(* The activity feed: a row leaves an answer only to newer ones. *)

(* Least numbers, as the operators of the instances find them. *)
LEMMA FirstOfRows ==
  ASSUME NEW T \in SUBSET Nat, T # {}
  PROVE  Activity!Min(T) \in T /\ \A m \in T : Activity!Min(T) <= m
BY LeastNumber DEF Activity!Min

LEMMA HighestNumber ==
  ASSUME NEW T \in SUBSET Nat, IsFiniteSet(T), T # {}
  PROVE  \E n \in T : \A m \in T : m <= n
<1> DEFINE f == [i \in T |-> i]
<1>1. \A i \in T : f[i] \in Nat /\ f[i] = i
  OBVIOUS
<1> HIDE DEF f
<1>2. PICK n \in T : \A m \in T : f[m] < f[n] \/ (f[m] = f[n] /\ n <= m)
  BY <1>1, FirstHighest
<1>3. QED
  BY <1>1, <1>2

LEMMA SameCardinality == \A S : Activity!Cardinality(S) = Cardinality(S)
BY Zenon DEF Activity!Cardinality, Cardinality

LEMMA SameFiniteness == \A S : Quotes!IsFiniteSet(S) <=> IsFiniteSet(S)
BY Zenon DEF Quotes!IsFiniteSet, IsFiniteSet

(* What is cut off an answer is older than a full answer: the latest row   *)
(* that is crowded out has enough rows above it, and they all stay.        *)
LEMMA CutOnlyByNewer ==
  ASSUME NEW rows, IsFiniteSet(rows), \A o \in rows : o.seq \in Nat, NEW limit \in Nat,
         NEW kept, kept = {o \in rows : Cardinality(Activity!Newer(o, rows)) < limit},
         NEW r \in rows
  PROVE  r \in kept \/ Cardinality(Activity!Newer(r, kept)) >= limit
<1> DEFINE Above(o) == Activity!Newer(o, rows)
           crowded == {o \in rows \ kept : o.seq >= r.seq}
           top == Activity!Newer(r, kept)
           numbers == {o.seq : o \in crowded}
<1>1. \A o \in rows : IsFiniteSet(Above(o)) /\ Cardinality(Above(o)) \in Nat
  <2>1. \A o \in rows : Above(o) \in SUBSET rows
    BY DEF Activity!Newer
  <2> HIDE DEF Above
  <2>2. QED
    BY <2>1, FS_Subset, FS_CardinalityType
<1>2. IsFiniteSet(top) /\ Cardinality(top) \in Nat
  <2>1. top \in SUBSET rows
    BY DEF Activity!Newer
  <2> HIDE DEF top
  <2>2. QED
    BY <2>1, FS_Subset, FS_CardinalityType
<1> SUFFICES ASSUME r \notin kept
             PROVE  Cardinality(top) >= limit
  OBVIOUS
<1>3. numbers \in SUBSET Nat /\ IsFiniteSet(numbers) /\ numbers # {}
  <2>1. IsFiniteSet(crowded)
    <3>1. crowded \in SUBSET rows
      OBVIOUS
    <3>2. QED
      BY <3>1, FS_Subset
  <2>2. r \in crowded
    OBVIOUS
  <2>3. IsFiniteSet(numbers)
    <3> DEFINE number == [o \in crowded |-> o.seq]
    <3>1. number \in Surjection(crowded, numbers)
      BY DEF Surjection
    <3>2. QED
      BY <2>1, <3>1, FS_Surjection
  <2>4. QED
    BY <2>2, <2>3
<1>4. PICK n \in numbers : \A m \in numbers : m <= n
  <2> HIDE DEF numbers
  <2>1. QED
    BY <1>3, HighestNumber
<1>5. PICK o \in crowded : o.seq = n
  BY <1>4
<1>6. Above(o) \in SUBSET top
  <2> SUFFICES ASSUME NEW p \in rows, p.seq > o.seq
               PROVE  p \in top
    BY DEF Activity!Newer
  <2>1. p.seq \in Nat /\ o.seq \in Nat /\ r.seq \in Nat /\ o.seq >= r.seq
    OBVIOUS
  <2>2. p.seq > r.seq
    BY <2>1
  <2>3. p \in kept
    <3> SUFFICES ASSUME p \notin kept
                 PROVE  FALSE
      OBVIOUS
    <3>1. p \in crowded
      BY <2>1, <2>2
    <3>2. p.seq <= n
      BY <1>4, <3>1
    <3>3. QED
      BY <1>5, <2>1, <3>2
  <2>4. QED
    BY <2>2, <2>3 DEF Activity!Newer
<1>7. Cardinality(Above(o)) >= limit
  <2>1. o \in rows /\ o \notin kept
    OBVIOUS
  <2>2. ~(Cardinality(Above(o)) < limit)
    BY <2>1
  <2>3. Cardinality(Above(o)) \in Nat
    BY <1>1, <2>1
  <2> HIDE DEF Above
  <2>4. QED
    BY <2>2, <2>3
<1>8. Cardinality(Above(o)) <= Cardinality(top)
  <2> HIDE DEF Above, top
  <2>1. QED
    BY <1>2, <1>6, FS_Subset
<1>9. Cardinality(Above(o)) \in Nat
  BY <1>1
<1>10. QED
  <2> HIDE DEF Above, top
  <2>1. QED
    BY <1>2, <1>7, <1>8, <1>9

(* The server knows a part of the events there are.                        *)
FeedInv == events \in Seq(Activity!Emitted) /\ stored \in Nat

(* A poll finds more of the same events: no row changes or goes.           *)
Learned == events' = events /\ stored' \in Nat /\ stored < stored'

LEMMA FeedInvStart == Activity!Init => FeedInv
BY DEF Activity!Init, FeedInv

LEMMA FeedInvStep ==
  FeedInv /\ [Activity!Next]_(Activity!vars)
    => FeedInv' /\ (stored' > stored => Learned)
<1> SUFFICES ASSUME FeedInv, [Activity!Next]_(Activity!vars)
             PROVE  FeedInv' /\ (stored' > stored => Learned)
  OBVIOUS
<1>1. CASE \E e \in Activity!Emitted : Activity!Emit(e)
  <2>1. PICK e \in Activity!Emitted : Activity!Emit(e)
    BY <1>1
  <2>2. events' = Append(events, e) /\ stored' = stored
    BY <2>1 DEF Activity!Emit
  <2>3. events' \in Seq(Activity!Emitted)
    BY <2>2, AppendProperties DEF FeedInv
  <2>4. QED
    BY <2>2, <2>3 DEF FeedInv, Learned
<1>2. CASE Activity!Poll
  <2>1. PICK n \in stored + 1 .. Len(events) : stored' = n
    BY <1>2 DEF Activity!Poll
  <2>2. events' = events /\ n \in Nat /\ n > stored
    BY <1>2, <2>1 DEF Activity!Poll, FeedInv
  <2>3. QED
    BY <2>1, <2>2 DEF FeedInv, Learned
<1>3. CASE Activity!Restart
  BY <1>3 DEF Activity!Restart, FeedInv, Learned
<1>4. CASE UNCHANGED Activity!vars
  BY <1>4 DEF Activity!vars, FeedInv, Learned
<1>5. QED
  BY <1>1, <1>2, <1>3, <1>4 DEF Activity!Next

(* Every row comes of a stored event, and each event gives one at most.    *)
Numbered ==
  /\ \A r \in Activity!userEvents \cup Activity!agentEvents : r.seq \in Nat
  /\ IsFiniteSet(Activity!userEvents) /\ IsFiniteSet(Activity!agentEvents)

LEMMA RowsAreStored == FeedInv => Numbered
<1> SUFFICES ASSUME FeedInv
             PROVE  Numbered
  OBVIOUS
<1> DEFINE mine == {n \in 1 .. stored : events[n].topic \in DOMAIN Activity!UserKind}
           theirs == {n \in 1 .. stored : events[n].topic \in DOMAIN Activity!AgentKind}
           you == [n \in mine |-> Activity!Row("you", Activity!UserKind[events[n].topic], n)]
           agent == [n \in theirs |-> Activity!Row("agent", Activity!AgentKind[events[n].topic], n)]
<1>1. IsFiniteSet(mine) /\ IsFiniteSet(theirs)
  <2>1. IsFiniteSet(1 .. stored)
    BY FS_Interval DEF FeedInv
  <2>2. mine \in SUBSET (1 .. stored) /\ theirs \in SUBSET (1 .. stored)
    OBVIOUS
  <2> HIDE DEF mine, theirs
  <2>3. QED
    BY <2>1, <2>2, FS_Subset
<1>2. /\ Activity!userEvents = {you[n] : n \in mine}
      /\ Activity!agentEvents = {agent[n] : n \in theirs}
  BY DEF Activity!userEvents, Activity!agentEvents
<1>3. /\ \A n \in mine : you[n].seq = n /\ n \in Nat
      /\ \A n \in theirs : agent[n].seq = n /\ n \in Nat
  BY DEF Activity!Row, FeedInv
<1>4. DOMAIN you = mine /\ DOMAIN agent = theirs
  OBVIOUS
<1>5. /\ you \in Surjection(mine, {you[n] : n \in mine})
      /\ agent \in Surjection(theirs, {agent[n] : n \in theirs})
  BY DEF Surjection
<1> HIDE DEF mine, theirs, you, agent
<1>6. QED
  BY <1>1, <1>2, <1>3, <1>5, FS_Surjection DEF Numbered

LEMMA RowsAreKept ==
  ASSUME FeedInv, Learned
  PROVE  /\ Activity!userEvents \subseteq Activity!userEvents'
         /\ Activity!agentEvents \subseteq Activity!agentEvents'
<1>1. 1 .. stored \subseteq 1 .. stored'
  BY DEF FeedInv, Learned
<1>2. events' = events
  BY DEF Learned
<1>3. QED
  BY <1>1, <1>2 DEF Activity!userEvents, Activity!agentEvents, Activity!Row

(* Once a depositor has entered a scope no later row of his moves him out. *)
LEMMA MergedRowsAreKept ==
  ASSUME FeedInv, Learned, Numbered, Numbered', NEW q \in Activity!Queries
  PROVE  Activity!merged(q) \subseteq Activity!merged(q)'
<1>1. Activity!userRows(q) \subseteq Activity!userRows(q)'
  BY RowsAreKept DEF Activity!userRows
<1>2. \A o \in Activity!userRows(q)' : o.seq \in Nat
  <2>1. \A o \in Activity!userEvents' : o.seq \in Nat
    BY DEF Numbered
  <2>2. QED
    BY <2>1 DEF Activity!userRows
<1>3. ASSUME NEW r \in Activity!agentEvents, Activity!inScope(r, q)
      PROVE  Activity!inScope(r, q)'
  <2> SUFFICES ASSUME q.depositor # NoUser
               PROVE  Activity!inScope(r, q)'
    BY DEF Activity!inScope
  <2> DEFINE Own(rows) == {o \in rows : r.currency # NoCurrency => o.currency = r.currency}
             Funded(rows) == {o \in rows : o.currency # NoCurrency}
             Numbers(rows) == {o.seq : o \in Own(rows)}
  <2>1. PICK rows : rows = Activity!userRows(q)
    OBVIOUS
  <2>2. PICK later : later = Activity!userRows(q)'
    OBVIOUS
  <2>3. /\ Own(rows) # {} /\ Funded(rows) # {}
        /\ r.seq >= Activity!Min(Numbers(rows))
    BY <1>3, <2>1 DEF Activity!inScope, Activity!FirstSeq
  <2>4. rows \subseteq later /\ \A o \in later : o.seq \in Nat
    BY <1>1, <1>2, <2>1, <2>2
  <2>5. /\ Own(rows) \subseteq Own(later) /\ Funded(rows) \subseteq Funded(later)
        /\ Numbers(rows) \subseteq Numbers(later)
        /\ Numbers(later) \in SUBSET Nat /\ Numbers(rows) # {}
    BY <2>3, <2>4
  <2>6. r.seq >= Activity!Min(Numbers(later))
    <3>1. /\ Activity!Min(Numbers(rows)) \in Numbers(rows)
          /\ Activity!Min(Numbers(later)) \in Numbers(later)
          /\ \A m \in Numbers(later) : Activity!Min(Numbers(later)) <= m
      <4>1. /\ Numbers(rows) \in SUBSET Nat /\ Numbers(rows) # {}
            /\ Numbers(later) \in SUBSET Nat /\ Numbers(later) # {}
        BY <2>5
      <4> HIDE DEF Numbers
      <4>2. QED
        BY <4>1, FirstOfRows
    <3>2. Activity!Min(Numbers(later)) <= Activity!Min(Numbers(rows))
      BY <2>5, <3>1
    <3>3. r.seq \in Nat
      BY DEF Numbered
    <3>4. Activity!Min(Numbers(rows)) \in Nat /\ Activity!Min(Numbers(later)) \in Nat
      BY <2>5, <3>1
    <3> HIDE DEF Numbers
    <3>5. QED
      BY <2>3, <3>2, <3>3, <3>4
  <2>7. Own(later) # {} /\ Funded(later) # {}
    BY <2>3, <2>5
  <2>8. QED
    BY <2>2, <2>6, <2>7 DEF Activity!inScope, Activity!FirstSeq
<1>4. Activity!chainAgentRows(q) \subseteq Activity!chainAgentRows(q)'
  BY <1>3, RowsAreKept DEF Activity!chainAgentRows
<1>5. QED
  BY <1>1, <1>4 DEF Activity!merged

LEMMA RowsStayInStep ==
  ASSUME FeedInv, Learned, Numbered, Numbered',
         NEW q \in Activity!Queries, NEW r \in Activity!getActivity(q)
  PROVE  \/ r \in Activity!getActivity(q)'
         \/ Activity!Cardinality(Activity!Newer(r, Activity!getActivity(q)')) >= Limit
<1>1. PICK rows : rows = Activity!merged(q)'
  OBVIOUS
<1>2. PICK kept : kept = Activity!getActivity(q)'
  OBVIOUS
<1>3. r \in rows
  BY <1>1, MergedRowsAreKept DEF Activity!getActivity
<1>4. IsFiniteSet(rows) /\ \A o \in rows : o.seq \in Nat
  <2>1. PICK mine : mine = Activity!userEvents'
    OBVIOUS
  <2>2. PICK theirs : theirs = Activity!agentEvents'
    OBVIOUS
  <2>3. /\ IsFiniteSet(mine) /\ IsFiniteSet(theirs)
        /\ \A o \in mine \cup theirs : o.seq \in Nat
    BY <2>1, <2>2 DEF Numbered
  <2>4. IsFiniteSet(mine \cup theirs)
    BY <2>3, FS_Union
  <2>5. rows \in SUBSET (mine \cup theirs)
    BY <1>1, <2>1, <2>2
       DEF Activity!merged, Activity!userRows, Activity!chainAgentRows
  <2>6. QED
    BY <2>3, <2>4, <2>5, FS_Subset
<1>5. kept = {o \in rows : Cardinality(Activity!Newer(o, rows)) < Limit}
  BY <1>1, <1>2, SameCardinality DEF Activity!getActivity
<1>6. Limit \in Nat
  BY BackendAssumption DEF Activity!ConstantsOK
<1>7. r \in kept \/ Cardinality(Activity!Newer(r, kept)) >= Limit
  BY <1>3, <1>4, <1>5, <1>6, CutOnlyByNewer
<1>8. QED
  BY <1>2, <1>7, SameCardinality

(* No row leaves an answer, or a tab of the page, but to as many newer ones *)
(* as an answer holds (activity-feed.ts: getActivity; event-store.ts).     *)
THEOREM RowsTheorem == Activity!Spec => RowsStay
<1> DEFINE Stays ==
             /\ \A q \in Activity!Queries : \A r \in Activity!getActivity(q) :
                  r \in Activity!getActivity(q)'
                    \/ Activity!Cardinality(Activity!Newer(r, Activity!getActivity(q)')) >= Limit
             /\ \A u \in Users, tab \in {"all", "you", "auto"} : \A r \in Activity!Shown(u, tab) :
                  r \in Activity!Shown(u, tab)'
                    \/ Activity!Cardinality(Activity!Newer(r, Activity!Feed(u)')) >= Limit
<1>1. FeedInv /\ [Activity!Next]_(Activity!vars) => (stored' > stored => Stays)
  <2>0. FeedInv /\ [Activity!Next]_(Activity!vars) => Numbered /\ Numbered'
    BY RowsAreStored, FeedInvStep, PTL
  <2> SUFFICES ASSUME FeedInv, Learned, Numbered, Numbered'
               PROVE  Stays
    BY <2>0, FeedInvStep
  <2>1. ASSUME NEW q \in Activity!Queries, NEW r \in Activity!getActivity(q)
        PROVE  \/ r \in Activity!getActivity(q)'
               \/ Activity!Cardinality(Activity!Newer(r, Activity!getActivity(q)')) >= Limit
    BY RowsStayInStep
  <2>2. ASSUME NEW u \in Users, NEW tab \in {"all", "you", "auto"},
               NEW r \in Activity!Shown(u, tab)
        PROVE  \/ r \in Activity!Shown(u, tab)'
               \/ Activity!Cardinality(Activity!Newer(r, Activity!Feed(u)')) >= Limit
    <3> DEFINE q == [depositor |-> u, actor |-> "both", currency |-> NoCurrency]
    <3>1. q \in Activity!Queries
      BY DEF Activity!Queries
    <3>2. r \in Activity!getActivity(q) /\ tab \in {"all", Activity!Tab(r)}
      BY DEF Activity!Shown, Activity!Feed
    <3>3. \/ r \in Activity!getActivity(q)'
          \/ Activity!Cardinality(Activity!Newer(r, Activity!getActivity(q)')) >= Limit
      BY <3>1, <3>2, RowsStayInStep
    <3>4. QED
      BY <3>2, <3>3 DEF Activity!Shown, Activity!Feed, Activity!Tab
  <2>3. QED
    BY <2>1, <2>2
<1> HIDE DEF Stays
<1>2. FeedInv /\ [Activity!Next]_(Activity!vars) => FeedInv'
  BY FeedInvStep
<1>3. Activity!Spec => [][stored' > stored => Stays]_(Activity!vars)
  BY <1>1, <1>2, FeedInvStart, PTL DEF Activity!Spec
<1>4. QED
  BY <1>3, PTL DEF RowsStay, Activity!RowsStay, Stays

-----------------------------------------------------------------------------
(* Holdings, rates and pools: what a status says is so. *)

Listed == Quotes!Range(Buckets)

(* What a reader may say of a pool or a currency that is known.            *)
Codes == {"ok", "timeout", "unavailable", "parse"}

LEMMA FirstFailure ==
  ASSUME NEW T \in SUBSET Nat, T # {}
  PROVE  Quotes!Min(T) \in T
BY LeastNumber DEF Quotes!Min

(* A composed answer is good, or has the status of a failure that is not   *)
(* a 404; a good one has left nothing out but what is omitted.             *)
LEMMA StatusOfCodes ==
  ASSUME NEW codes, \A c \in Listed : codes[c] \in Codes \cup {"omitted"}
  PROVE  /\ Quotes!Status(codes) # 404
         /\ Quotes!Status(codes) = 200 => \A c \in Listed : codes[c] \in {"ok", "omitted"}
<1> DEFINE failed == {i \in DOMAIN Buckets : codes[Buckets[i]] \notin {"ok", "omitted"}}
           code == codes[Buckets[Quotes!Min(failed)]]
<1>1. /\ DOMAIN Buckets \subseteq Nat
      /\ Listed = {Buckets[i] : i \in DOMAIN Buckets}
  <2>1. Buckets \in Seq(Listed)
    BY BackendAssumption DEF Quotes!ConstantsOK, Listed
  <2>2. DOMAIN Buckets = 1 .. Len(Buckets) /\ Len(Buckets) \in Nat
    BY <2>1
  <2>3. QED
    BY <2>2 DEF Listed, Quotes!Range
<1>2. Quotes!Status(codes) = IF failed = {} THEN 200 ELSE Quotes!statusForErr(code)
  BY DEF Quotes!Status
<1>3. CASE failed = {}
  <2>1. \A c \in Listed : codes[c] \in {"ok", "omitted"}
    BY <1>1, <1>3
  <2>2. QED
    BY <1>2, <1>3, <2>1
<1>4. CASE failed # {}
  <2>1. Quotes!Min(failed) \in failed
    <3>1. failed \in SUBSET Nat
      BY <1>1
    <3> HIDE DEF failed
    <3>2. QED
      BY <1>4, <3>1, FirstFailure
  <2>2. code \in {"timeout", "unavailable", "parse"}
    BY <1>1, <2>1 DEF Codes
  <2> HIDE DEF code, failed
  <2>3. Quotes!statusForErr(code) \in {502, 503, 504}
    BY <2>2 DEF Quotes!statusForErr
  <2>4. QED
    BY <1>2, <1>4, <2>3
<1>5. QED
  BY <1>3, <1>4

(* The readers never say that a currency, or a vetted pool, is unknown.    *)
LEMMA FxCodes ==
  ASSUME NEW c, NEW code, Quotes!fx(c, code)
  PROVE  code \in Codes
<1>1. CASE code \in {"ok", "unavailable"}
  BY <1>1 DEF Codes
<1>2. CASE \E read \in {"ok", "timeout", "unavailable", "parse", "not_found"} :
             code = Quotes!NoRate(read)
  BY <1>2 DEF Codes, Quotes!NoRate
<1>3. QED
  BY <1>1, <1>2 DEF Quotes!fx

LEMMA ApyCodesOfVetted ==
  ASSUME NEW p \in Quotes!Vetted
  PROVE  Quotes!apyCodes(p) \subseteq Codes
<1>1. \A r \in Quotes!RateRetval : Quotes!decodeRate(r) \in Codes
  BY DEF Quotes!RateRetval, Quotes!Retval, Quotes!decodeRate, Codes
<1>2. Quotes!catalogApy(p) = "ok"
  BY DEF Quotes!catalogApy
<1>3. QED
  BY <1>1, <1>2 DEF Quotes!apyCodes, Codes

(* The venue the agent would choose is one of the catalog.                 *)
LEMMA BestIsVetted ==
  ASSUME NEW c
  PROVE  Quotes!bestSafeVenue(c) \in Quotes!Vetted \cup {NoPool}
<1> DEFINE safe == Quotes!getCatalog(c)
           apys == {v.apy : v \in safe}
<1> SUFFICES ASSUME safe # {}
             PROVE  Quotes!bestSafeVenue(c) \in Quotes!Vetted
  BY DEF Quotes!bestSafeVenue
<1>1. /\ IsFiniteSet(safe)
      /\ \A v \in safe : v.apy \in Nat /\ v.place \in Nat
  <2>1. /\ IsFiniteSet(SAFE_VENUES)
        /\ \A v \in SAFE_VENUES : v.apy \in Nat /\ v.place \in Nat
    BY SameFiniteness, BackendAssumption DEF Quotes!ConstantsOK
  <2>2. safe \in SUBSET SAFE_VENUES
    BY DEF Quotes!getCatalog
  <2>3. QED
    BY <2>1, <2>2, FS_Subset
<1>2. apys \in SUBSET Nat /\ IsFiniteSet(apys) /\ apys # {}
  <2> DEFINE apy == [v \in safe |-> v.apy]
  <2>1. apy \in Surjection(safe, apys)
    BY DEF Surjection
  <2>2. IsFiniteSet(apys)
    BY <1>1, <2>1, FS_Surjection
  <2>3. QED
    BY <1>1, <2>2
<1>3. PICK high \in apys : \A n \in apys : n <= high
  <2> HIDE DEF apys
  <2>1. QED
    BY <1>2, HighestNumber
<1> DEFINE places == {v.place : v \in {w \in safe : w.apy = high}}
<1>4. places \in SUBSET Nat /\ places # {}
  BY <1>1, <1>3
<1>5. PICK first \in places : \A n \in places : first <= n
  <2> HIDE DEF places
  <2>1. QED
    BY <1>4, LeastNumber
<1>6. PICK v \in safe : v.apy = high /\ v.place = first
  BY <1>5
<1>7. \A w \in safe : w.apy < v.apy \/ (w.apy = v.apy /\ v.place <= w.place)
  <2> SUFFICES ASSUME NEW w \in safe, w.apy # v.apy
               PROVE  w.apy < v.apy
    BY <1>5, <1>6
  <2>1. w.apy <= high /\ w.apy \in Nat /\ v.apy \in Nat
    BY <1>1, <1>3
  <2>2. QED
    BY <1>6, <2>1
<1> DEFINE best == CHOOSE u \in safe : \A w \in safe :
                     w.apy < u.apy \/ (w.apy = u.apy /\ u.place <= w.place)
<1>8. best \in safe
  <2> HIDE DEF safe
  <2>1. QED
    BY <1>7
<1>9. Quotes!bestSafeVenue(c) = best.pool
  BY DEF Quotes!bestSafeVenue
<1>10. \A u \in safe : u.pool \in Quotes!Vetted
  BY DEF Quotes!getCatalog, Quotes!Vetted
<1>11. QED
  <2> HIDE DEF safe, best
  <2>1. QED
    BY <1>8, <1>9, <1>10

(* Whoever had money throughout a request was found to have it, and every  *)
(* code noted is one that a reader gives for what is known.                *)
LineInv(c) ==
  /\ c \in throughout /\ Quotes!Has(c, "held") => lines[c].held
  /\ Quotes!Has(c, "fx") => lines[c].fx \in Codes
  /\ Quotes!Has(c, "apy") => lines[c].apy \in Codes

LinesInv ==
  Quotes!Asking => DOMAIN lines = Listed /\ \A c \in Listed : LineInv(c)

QuotesInv ==
  /\ throughout \subseteq funded /\ funded \subseteq Listed
  /\ LinesInv
  /\ answer.status = 404 => answer.to \in TRAP_VENUES \cup Strangers

LEMMA QuotesInvStart == Quotes!Init => QuotesInv
BY DEF Quotes!Init, QuotesInv, LinesInv, Quotes!Asking, Quotes!NotAsked, Quotes!Answer, Listed

(* A note changes one field of one line.                                   *)
Noted(c, field, value) ==
  /\ Quotes!Asking' /\ DOMAIN lines' = Listed
  /\ \A d \in Listed : DOMAIN lines'[d] = IF d = c THEN DOMAIN lines[c] \cup {field}
                                          ELSE DOMAIN lines[d]
  /\ \A d \in Listed : \A f \in DOMAIN lines'[d] :
       lines'[d][f] = IF d = c /\ f = field THEN value ELSE lines[d][f]

LEMMA OneNote ==
  ASSUME Quotes!Asking, LinesInv, NEW c \in Listed, NEW field, NEW value,
         Quotes!Note(c, field, value)
  PROVE  Noted(c, field, value)
<1>1. DOMAIN lines = Listed
  BY DEF LinesInv
<1>2. lines' = [lines EXCEPT ![c] = [f \in DOMAIN lines[c] \cup {field} |->
                                       IF f = field THEN value ELSE lines[c][f]]]
  BY DEF Quotes!Note
<1>3. DOMAIN lines' = Listed
  BY <1>1, <1>2
<1>4. DOMAIN <<>> = {}
  OBVIOUS
<1>5. lines' # <<>>
  BY <1>3, <1>4
<1>6. QED
  BY <1>1, <1>2, <1>3, <1>5 DEF Noted, Quotes!Asking, Quotes!NotAsked

(* The reads of one line.                                                  *)
LEMMA NotesKeepLines ==
  ASSUME QuotesInv, NEW c \in Listed,
         \/ Quotes!ReadBalance(c) \/ Quotes!ReadPool(c)
         \/ Quotes!ReadFx(c) \/ Quotes!ReadApy(c)
  PROVE  LinesInv' /\ Quotes!Asking' /\ UNCHANGED <<funded, throughout, answer>>
<1>1. ASSUME NEW field \in {"held", "pool", "fx", "apy"}, NEW value,
             Quotes!Asking, Quotes!Note(c, field, value), UNCHANGED throughout,
             field = "held" => value = (c \in funded),
             field \in {"fx", "apy"} => value \in Codes
      PROVE  LinesInv' /\ Quotes!Asking'
  <2>1. /\ Quotes!Asking' /\ DOMAIN lines' = Listed
        /\ \A d \in Listed : DOMAIN lines'[d] = IF d = c THEN DOMAIN lines[c] \cup {field}
                                                ELSE DOMAIN lines[d]
        /\ \A d \in Listed : \A f \in DOMAIN lines'[d] :
             lines'[d][f] = IF d = c /\ f = field THEN value ELSE lines[d][f]
    <3>1. Noted(c, field, value)
      BY <1>1, OneNote DEF QuotesInv
    <3>2. QED
      BY <3>1 DEF Noted
  <2>2. \A d \in Listed : LineInv(d)
    BY <1>1 DEF QuotesInv, LinesInv
  <2>3. ASSUME NEW d \in Listed
        PROVE  LineInv(d)'
    <3>1. d \in throughout' /\ "held" \in DOMAIN lines'[d] => lines'[d]["held"]
      BY <1>1, <2>1, <2>2, ZenonT(60) DEF LineInv, Quotes!Has, QuotesInv
    <3>2. "fx" \in DOMAIN lines'[d] => lines'[d]["fx"] \in Codes
      BY <1>1, <2>1, <2>2 DEF LineInv, Quotes!Has
    <3>3. "apy" \in DOMAIN lines'[d] => lines'[d]["apy"] \in Codes
      BY <1>1, <2>1, <2>2 DEF LineInv, Quotes!Has
    <3>4. QED
      BY <3>1, <3>2, <3>3 DEF LineInv, Quotes!Has
  <2>4. QED
    BY <2>1, <2>3 DEF LinesInv
<1>2. CASE Quotes!ReadBalance(c)
  BY <1>1, <1>2 DEF Quotes!ReadBalance, Quotes!chainVars
<1>3. CASE Quotes!ReadPool(c)
  BY <1>1, <1>3 DEF Quotes!ReadPool, Quotes!chainVars
<1>4. CASE Quotes!ReadFx(c)
  <2>1. PICK code : Quotes!fx(c, code) /\ Quotes!Note(c, "fx", code)
    BY <1>4 DEF Quotes!ReadFx
  <2>2. QED
    BY <1>1, <1>4, <2>1, FxCodes DEF Quotes!ReadFx, Quotes!chainVars
<1>5. CASE Quotes!ReadApy(c)
  <2>1. PICK code \in Quotes!apyCodes(Quotes!Venue(c)) : Quotes!Note(c, "apy", code)
    BY <1>5 DEF Quotes!ReadApy
  <2>2. code \in Codes
    BY <1>5, <2>1, ApyCodesOfVetted DEF Quotes!ReadApy, Quotes!Rated
  <2>3. QED
    BY <1>1, <1>5, <2>1, <2>2 DEF Quotes!ReadApy, Quotes!chainVars
<1>6. QED
  BY <1>2, <1>3, <1>4, <1>5

(* What a holdings answer says of a line that was read.                    *)
LEMMA LineCodes ==
  ASSUME QuotesInv, Quotes!Asking, NEW c \in Listed, Quotes!Read(c)
  PROVE  /\ Quotes!Line(c) \in Codes \cup {"omitted"}
         /\ c \in throughout /\ Quotes!Line(c) = "omitted" => Quotes!Venue(c) \notin Quotes!Vetted
<1>1. LineInv(c)
  BY DEF QuotesInv, LinesInv
<1>2. CASE ~Quotes!Held(c)
  BY <1>1, <1>2 DEF Quotes!Held, Quotes!Read, Quotes!Line, LineInv
<1>3. CASE Quotes!Held(c) /\ lines[c].fx # "ok"
  BY <1>1, <1>3 DEF Quotes!Held, Quotes!Read, Quotes!Line, LineInv, Codes
<1>4. CASE Quotes!Held(c) /\ lines[c].fx = "ok"
  <2>1. Quotes!Line(c) = IF Quotes!Rated(c) THEN lines[c].apy ELSE "omitted"
    BY <1>4 DEF Quotes!Line
  <2>2. Quotes!Has(c, "pool") /\ Quotes!Has(c, "fx") /\ (Quotes!Rated(c) => Quotes!Has(c, "apy"))
    BY <1>4 DEF Quotes!Read, Quotes!Held
  <2>3. QED
    BY <1>1, <1>4, <2>1, <2>2 DEF LineInv, Codes, Quotes!Rated
<1>5. QED
  BY <1>2, <1>3, <1>4

Honest ==
  /\ \A c \in throughout :
       answer'.to = "/holdings" /\ answer'.status = 200 /\ Quotes!Asking /\ ~Quotes!Asking' =>
         c \in answer'.listed \/ Quotes!Venue(c) \notin Quotes!Vetted
  /\ answer'.status = 404 => answer'.to \in TRAP_VENUES \cup Strangers

LEMMA HoldingsAreHonest ==
  ASSUME QuotesInv, Quotes!getHoldings
  PROVE  QuotesInv' /\ Honest
<1> DEFINE codes == [c \in Listed |-> Quotes!Line(c)]
           listed == {c \in Listed : codes[c] = "ok"}
<1>1. answer' = [to |-> "/holdings", status |-> Quotes!Status(codes), listed |-> listed]
  BY DEF Quotes!getHoldings, Quotes!Answer, Listed
<1>2. /\ ~Quotes!Asking' /\ UNCHANGED <<funded, throughout>>
      /\ Quotes!Asking /\ \A c \in Listed : Quotes!Read(c)
  BY DEF Quotes!getHoldings, Quotes!Asking, Quotes!chainVars, Listed
<1>3. \A c \in Listed : codes[c] = Quotes!Line(c)
  OBVIOUS
<1>4. \A c \in Listed :
        /\ codes[c] \in Codes \cup {"omitted"}
        /\ c \in throughout /\ codes[c] = "omitted" => Quotes!Venue(c) \notin Quotes!Vetted
  BY <1>2, <1>3, LineCodes
<1>5. /\ Quotes!Status(codes) # 404
      /\ Quotes!Status(codes) = 200 => \A c \in Listed : codes[c] \in {"ok", "omitted"}
  <2> HIDE DEF codes
  <2>1. QED
    BY <1>4, StatusOfCodes
<1>6. QuotesInv'
  <2> HIDE DEF codes, listed
  <2>1. QED
    BY <1>1, <1>2, <1>5 DEF QuotesInv, LinesInv
<1>7. ASSUME NEW c \in throughout, Quotes!Status(codes) = 200
      PROVE  c \in listed \/ Quotes!Venue(c) \notin Quotes!Vetted
  <2>1. c \in Listed
    BY DEF QuotesInv
  <2>2. codes[c] \in {"ok", "omitted"}
    BY <1>5, <1>7, <2>1
  <2> HIDE DEF codes
  <2>3. QED
    BY <1>4, <2>1, <2>2
<1> HIDE DEF codes, listed
<1>8. QED
  BY <1>1, <1>5, <1>6, <1>7 DEF Honest

LEMMA QuotesStep ==
  QuotesInv /\ [Quotes!Next]_(Quotes!vars) => QuotesInv' /\ [Honest]_(Quotes!vars)
<1> SUFFICES ASSUME QuotesInv, [Quotes!Next]_(Quotes!vars)
             PROVE  QuotesInv' /\ [Honest]_(Quotes!vars)
  OBVIOUS
<1>1. ASSUME NEW c \in Listed, Quotes!Fund(c)
      PROVE  QuotesInv' /\ Honest
  <2>1. /\ funded' = funded \cup {c} /\ throughout' = throughout
        /\ UNCHANGED <<lines, answer>>
    BY <1>1 DEF Quotes!Fund
  <2>2. LinesInv'
    BY <2>1 DEF QuotesInv, LinesInv, LineInv, Quotes!Has, Quotes!Asking
  <2>3. QED
    BY <2>1, <2>2 DEF QuotesInv, Honest, Quotes!Asking
<1>2. ASSUME NEW c \in Listed, Quotes!Leave(c)
      PROVE  QuotesInv' /\ Honest
  <2>1. /\ funded' = funded \ {c} /\ throughout' = throughout \ {c}
        /\ UNCHANGED <<lines, answer>>
    BY <1>2 DEF Quotes!Leave
  <2>2. LinesInv'
    BY <2>1 DEF QuotesInv, LinesInv, LineInv, Quotes!Has, Quotes!Asking
  <2>3. QED
    BY <2>1, <2>2 DEF QuotesInv, Honest, Quotes!Asking
<1>3. ASSUME NEW c \in Listed, NEW p, Quotes!Move(c, p)
      PROVE  QuotesInv' /\ Honest
  <2>1. UNCHANGED <<funded, throughout, lines, answer>>
    BY <1>3 DEF Quotes!Move
  <2>2. QED
    BY <2>1 DEF QuotesInv, LinesInv, LineInv, Honest, Quotes!Has, Quotes!Asking
<1>4. ASSUME NEW c \in Listed,
             \/ Quotes!ReadBalance(c) \/ Quotes!ReadPool(c)
             \/ Quotes!ReadFx(c) \/ Quotes!ReadApy(c)
      PROVE  QuotesInv' /\ Honest
  BY <1>4, NotesKeepLines DEF QuotesInv, Honest
<1>5. ASSUME NEW p \in Quotes!Vetted \cup TRAP_VENUES \cup Strangers, Quotes!getPool(p)
      PROVE  QuotesInv' /\ Honest
  <2>1. PICK code \in IF p \in Quotes!Vetted THEN Quotes!apyCodes(p) ELSE {"not_found"} :
          answer' = [to |-> p, listed |-> {},
                     status |-> IF code = "ok" THEN 200 ELSE Quotes!statusForErr(code)]
    BY <1>5 DEF Quotes!getPool, Quotes!Answer
  <2>2. UNCHANGED <<funded, throughout, lines>>
    BY <1>5 DEF Quotes!getPool, Quotes!chainVars
  <2>3. answer'.status = 404 => answer'.to \in TRAP_VENUES \cup Strangers
    <3>1. CASE p \in Quotes!Vetted
      <4>1. code \in Codes
        BY <2>1, <3>1, ApyCodesOfVetted
      <4>2. answer'.status # 404
        BY <2>1, <4>1 DEF Codes, Quotes!statusForErr
      <4>3. QED
        BY <4>2
    <3>2. CASE p \notin Quotes!Vetted
      BY <2>1, <3>2
    <3>3. QED
      BY <3>1, <3>2
  <2>4. QED
    BY <2>2, <2>3 DEF QuotesInv, LinesInv, LineInv, Honest, Quotes!Has, Quotes!Asking
<1>6. CASE Quotes!AskHoldings
  <2>1. /\ lines' = [c \in Listed |-> <<>>] /\ throughout' = funded
        /\ UNCHANGED <<funded, answer>> /\ ~Quotes!Asking
    BY <1>6 DEF Quotes!AskHoldings, Quotes!Unread, Quotes!Nothing, Quotes!chainVars,
                Quotes!Asking, Quotes!NotAsked, Listed
  <2>2. DOMAIN <<>> = {}
    OBVIOUS
  <2>3. LinesInv'
    BY <2>1, <2>2 DEF LinesInv, LineInv, Quotes!Has
  <2>4. QED
    BY <2>1, <2>3 DEF QuotesInv, Honest
<1>7. CASE Quotes!getHoldings
  BY <1>7, HoldingsAreHonest
<1>8. CASE Quotes!HoldingsThrow
  BY <1>8 DEF Quotes!HoldingsThrow, Quotes!Answer, Quotes!chainVars, Quotes!Asking,
              QuotesInv, LinesInv, Honest
<1>9. CASE Quotes!getRates
  <2>1. PICK codes :
          /\ \A c \in Listed : codes[c] \in LET best == Quotes!bestSafeVenue(c)
                                            IN IF best = NoPool THEN {"omitted"}
                                               ELSE Quotes!apyCodes(best)
          /\ answer' = [to |-> "/rates", status |-> Quotes!Status(codes),
                        listed |-> {c \in Listed : codes[c] = "ok"}]
    BY <1>9 DEF Quotes!getRates, Quotes!Answer, Listed
  <2>2. \A c \in Listed : codes[c] \in Codes \cup {"omitted"}
    BY <2>1, BestIsVetted, ApyCodesOfVetted
  <2>3. answer'.to = "/rates" /\ answer'.status # 404
    BY <2>1, <2>2, StatusOfCodes
  <2>4. UNCHANGED <<funded, throughout, lines>>
    BY <1>9 DEF Quotes!getRates, Quotes!chainVars
  <2>5. QED
    BY <2>3, <2>4 DEF QuotesInv, LinesInv, LineInv, Honest, Quotes!Has, Quotes!Asking
<1>10. CASE UNCHANGED Quotes!vars
  BY <1>10 DEF Quotes!vars, Quotes!chainVars, QuotesInv, LinesInv, LineInv, Quotes!Has, Quotes!Asking
<1>11. QED
  BY <1>1, <1>2, <1>3, <1>4, <1>5, <1>6, <1>7, <1>8, <1>9, <1>10 DEF Quotes!Next, Listed

(* No bucket with money is left out of a good holdings answer because a    *)
(* read of it failed, and a 404 is a pool that is none (holdings.ts;       *)
(* http/app.ts: statusForErr).                                             *)
THEOREM AnswersTheorem == Quotes!Spec => AnswersAreHonest
BY QuotesInvStart, QuotesStep, PTL DEF Quotes!Spec, AnswersAreHonest, Quotes!AnswersAreHonest, Honest
-----------------------------------------------------------------------------
(* The earnings view: a complete history is served.                        *)

(* The price bounds of the contract, for the amounts and burns of the      *)
(* history.                                                                *)
Prices == INSTANCE ShareMathProofs

(* The cost basis after each of the first m events of a list, as the loop  *)
(* of cost-basis.ts goes through them.                                     *)
Mine(e, u, w) == e.who = u /\ e.currency = w

IsReplay(basis, list, u, w, m) ==
  basis = [n \in 0 .. m |->
             IF n = 0 THEN Earnings!EmptyBasis
             ELSE IF Mine(list[n], u, w)
             THEN Earnings!Replay(basis[n - 1], list[n])
             ELSE basis[n - 1]]

(* costBasisOf is the last value of a replay.                              *)
LEMMA ReplayChosen ==
  ASSUME NEW list, NEW u, NEW w
  PROVE  Earnings!costBasisOf(list, u, w)
           = (CHOOSE basis : IsReplay(basis, list, u, w, Len(list)))[Len(list)]
BY DEF Earnings!costBasisOf, IsReplay, Mine

(* There is a replay of every length: the shortest without one would be    *)
(* one longer than one that has it.                                        *)
LEMMA ReplayExists ==
  ASSUME NEW list, NEW u, NEW w, NEW m \in Nat
  PROVE  \E basis : IsReplay(basis, list, u, w, m)
<1> DEFINE without == {k \in Nat : ~\E basis : IsReplay(basis, list, u, w, k)}
<1> SUFFICES ASSUME without # {}
             PROVE  FALSE
  OBVIOUS
<1>1. PICK k \in without : \A j \in without : k <= j
  <2>1. without \in SUBSET Nat
    OBVIOUS
  <2> HIDE DEF without
  <2>2. QED
    BY <2>1, LeastNumber
<1>2. k \in Nat /\ ~\E basis : IsReplay(basis, list, u, w, k)
  OBVIOUS
<1>3. k # 0
  <2> DEFINE start == [n \in 0 .. 0 |-> Earnings!EmptyBasis]
  <2>1. IsReplay(start, list, u, w, 0)
    BY DEF IsReplay
  <2>2. QED
    BY <1>2, <2>1
<1>4. PICK before : IsReplay(before, list, u, w, k - 1)
  <2>1. k - 1 \in Nat /\ ~(k <= k - 1)
    BY <1>2, <1>3
  <2>2. k - 1 \notin without
    BY <1>1, <2>1
  <2>3. QED
    BY <2>1, <2>2
<1> DEFINE last == IF Mine(list[k], u, w) THEN Earnings!Replay(before[k - 1], list[k])
                   ELSE before[k - 1]
           longer == [n \in 0 .. k |-> IF n = k THEN last ELSE before[n]]
<1>5. \A n \in 0 .. k - 1 :
        before[n] = IF n = 0 THEN Earnings!EmptyBasis
                    ELSE IF Mine(list[n], u, w)
                    THEN Earnings!Replay(before[n - 1], list[n])
                    ELSE before[n - 1]
  <2> DEFINE step(n) == IF n = 0 THEN Earnings!EmptyBasis
                        ELSE IF Mine(list[n], u, w)
                        THEN Earnings!Replay(before[n - 1], list[n])
                        ELSE before[n - 1]
  <2>1. before = [n \in 0 .. k - 1 |-> step(n)]
    BY <1>4 DEF IsReplay
  <2> HIDE DEF step
  <2>2. \A n \in 0 .. k - 1 : before[n] = step(n)
    BY <2>1
  <2>3. QED
    BY <2>2 DEF step
<1>6. \A n \in 0 .. k :
        longer[n] = IF n = 0 THEN Earnings!EmptyBasis
                    ELSE IF Mine(list[n], u, w)
                    THEN Earnings!Replay(longer[n - 1], list[n])
                    ELSE longer[n - 1]
  <2> TAKE n \in 0 .. k
  <2>1. n # 0 => longer[n - 1] = before[n - 1]
    BY <1>2
  <2>2. CASE n = k
    BY <1>2, <1>3, <2>1, <2>2
  <2>3. CASE n # k
    <3>1. n \in 0 .. k - 1 /\ longer[n] = before[n]
      BY <1>2, <2>3
    <3> HIDE DEF longer
    <3>2. QED
      BY <1>5, <2>1, <3>1
  <2>4. QED
    BY <2>2, <2>3
<1>7. IsReplay(longer, list, u, w, k)
  BY <1>6 DEF IsReplay
<1>8. QED
  BY <1>2, <1>7

(* What a replay is, event by event.                                       *)
LEMMA ReplayStep ==
  ASSUME NEW basis, NEW list, NEW u, NEW w, NEW m \in Nat, IsReplay(basis, list, u, w, m)
  PROVE  /\ basis[0] = Earnings!EmptyBasis
         /\ \A n \in 1 .. m : basis[n] = IF Mine(list[n], u, w)
                                         THEN Earnings!Replay(basis[n - 1], list[n])
                                         ELSE basis[n - 1]
<1> DEFINE step(n) == IF n = 0 THEN Earnings!EmptyBasis
                      ELSE IF Mine(list[n], u, w)
                      THEN Earnings!Replay(basis[n - 1], list[n])
                      ELSE basis[n - 1]
<1>1. basis = [n \in 0 .. m |-> step(n)]
  BY DEF IsReplay
<1>2. \A n \in 0 .. m : basis[n] = step(n)
  <2> HIDE DEF step
  <2>1. QED
    BY <1>1
<1>3. QED
  BY <1>2

(* Replays of two lists agree as far as the lists do.                      *)
Continues(more, list, m) == \A n \in 1 .. m : more[n] = list[n]

LEMMA ReplaysAgree ==
  ASSUME NEW list, NEW more, NEW u, NEW w, NEW m \in Nat, NEW l \in Nat, m <= l,
         Continues(more, list, m),
         NEW short, IsReplay(short, list, u, w, m),
         NEW long, IsReplay(long, more, u, w, l)
  PROVE  long[m] = short[m]
<1> DEFINE apart == {n \in 0 .. m : long[n] # short[n]}
<1> SUFFICES ASSUME apart # {}
             PROVE  FALSE
  <2>1. m \in 0 .. m
    OBVIOUS
  <2>2. QED
    BY <2>1
<1>1. PICK k \in apart : \A j \in apart : k <= j
  <2>1. apart \in SUBSET Nat
    OBVIOUS
  <2> HIDE DEF apart
  <2>2. QED
    BY <2>1, LeastNumber
<1>2. k \in 0 .. m /\ long[k] # short[k]
  OBVIOUS
<1>3. k # 0
  BY <1>2, ReplayStep
<1>4. long[k - 1] = short[k - 1]
  <2>1. k - 1 \in 0 .. m /\ ~(k <= k - 1)
    BY <1>2, <1>3
  <2>2. k - 1 \notin apart
    BY <1>1, <2>1
  <2>3. QED
    BY <2>1, <2>2
<1>5. k \in 1 .. m /\ k \in 1 .. l
  BY <1>2, <1>3
<1> HIDE DEF apart
<1>6. /\ long[k] = IF Mine(more[k], u, w) THEN Earnings!Replay(long[k - 1], more[k])
                   ELSE long[k - 1]
      /\ short[k] = IF Mine(list[k], u, w) THEN Earnings!Replay(short[k - 1], list[k])
                    ELSE short[k - 1]
  BY <1>5, ReplayStep
<1>7. more[k] = list[k]
  BY <1>5 DEF Continues
<1>8. QED
  BY <1>2, <1>4, <1>6, <1>7

(* What costBasisOf makes of one more event.                               *)
LEMMA BasisOfNone ==
  ASSUME NEW u, NEW w
  PROVE  Earnings!costBasisOf(<<>>, u, w) = Earnings!EmptyBasis
<1>1. Len(<<>>) = 0
  OBVIOUS
<1> DEFINE basis == CHOOSE b : IsReplay(b, <<>>, u, w, 0)
<1>2. IsReplay(basis, <<>>, u, w, 0)
  BY ReplayExists
<1> HIDE DEF basis
<1>3. basis[0] = Earnings!EmptyBasis
  BY <1>2, ReplayStep
<1>4. QED
  BY <1>1, <1>3, ReplayChosen DEF basis

LEMMA BasisOfOneMore ==
  ASSUME NEW S, NEW list \in Seq(S), NEW e \in S, NEW u, NEW w
  PROVE  Earnings!costBasisOf(Append(list, e), u, w)
           = IF Mine(e, u, w) THEN Earnings!Replay(Earnings!costBasisOf(list, u, w), e)
             ELSE Earnings!costBasisOf(list, u, w)
<1> DEFINE m == Len(list)
           more == Append(list, e)
           short == CHOOSE b : IsReplay(b, list, u, w, m)
           long == CHOOSE b : IsReplay(b, more, u, w, m + 1)
<1>1. m \in Nat /\ Len(more) = m + 1 /\ more[m + 1] = e /\ \A n \in 1 .. m : more[n] = list[n]
  BY AppendProperties
<1> HIDE DEF m, more
<1>2. IsReplay(short, list, u, w, m)
  BY <1>1, ReplayExists
<1>3. IsReplay(long, more, u, w, m + 1)
  <2>1. m + 1 \in Nat
    BY <1>1
  <2>2. QED
    BY <2>1, ReplayExists
<1>4. /\ Earnings!costBasisOf(list, u, w) = short[m]
      /\ Earnings!costBasisOf(more, u, w) = long[m + 1]
  BY <1>1, ReplayChosen DEF m
<1> HIDE DEF short, long
<1>5. long[m] = short[m]
  <2>1. m + 1 \in Nat /\ m <= m + 1
    BY <1>1
  <2>2. Continues(more, list, m)
    BY <1>1 DEF Continues
  <2>3. QED
    BY <1>1, <1>2, <1>3, <2>1, <2>2, ReplaysAgree
<1>6. long[m + 1] = IF Mine(e, u, w) THEN Earnings!Replay(long[m], e) ELSE long[m]
  <2>1. m + 1 \in Nat /\ m + 1 \in 1 .. (m + 1) /\ (m + 1) - 1 = m
    BY <1>1
  <2>2. QED
    BY <1>1, <1>3, <2>1, ReplayStep
<1>7. QED
  BY <1>4, <1>5, <1>6 DEF more

-----------------------------------------------------------------------------
(* The inductive invariant: the replay of the whole history gives what     *)
(* each depositor holds, and no event burned more than the replay of those *)
(* before it.                                                              *)
Priced == Earnings!Currencies

Entries == [kind : {"deposit", "withdraw"}, who : Users, currency : Priced,
            amount : Nat, shares : Nat, ts : Nat]

Basis(list, u, c) == Earnings!costBasisOf(list, u, c).shares

(* Every share has a unit behind it, so that a redemption is covered.      *)
Backed ==
  /\ now \in Nat /\ shares \in [Priced -> [Users -> Nat]] /\ nav \in [Priced -> Nat]
  /\ \A c \in Priced : SumOver(shares[c], Users) <= nav[c]

Booked ==
  /\ history \in Seq(Entries)
  /\ \A u \in Users, c \in Priced : Basis(history, u, c) = shares[c][u]

Before(list, n) == SubSeq(list, 1, n - 1)

MatchedIn(list) ==
  \A n \in 1 .. Len(list) :
    list[n].kind = "withdraw" =>
      ~(list[n].shares > Basis(Before(list, n), list[n].who, list[n].currency))

UsedIn(list, u, c) == \E n \in 1 .. Len(list) : list[n].who = u /\ list[n].currency = c

Touched == \A u \in Users, c \in Priced : shares[c][u] # 0 => UsedIn(history, u, c)

(* The server's copy of a history it has from its first event: what a      *)
(* request took of it, and the values it has read.                         *)
Complete == from = 1 =>
  /\ known \in 0 .. Len(history)
  /\ asked.who # NoUser =>
       /\ asked.who \in Users
       /\ asked.seen \in 0 .. Len(history) /\ asked.events = SubSeq(history, 1, asked.seen)
       /\ asked.values \in Seq(Nat) /\ Len(asked.values) <= Len(Buckets)
       /\ \A i \in 1 .. Len(asked.values) :
            asked.values[i] # 0 => UsedIn(history, asked.who, Buckets[i])

(* A request is a record of these fields. *)
Requested ==
  asked = [who |-> asked.who, events |-> asked.events, seen |-> asked.seen,
           values |-> asked.values]

EarningsInv ==
  Backed /\ Booked /\ MatchedIn(history) /\ Touched /\ Requested /\ Complete

LEMMA SameSum == \A f, S : Earnings!SumOver(f, S) = SumOver(f, S)
<1>1. \A S : Earnings!Cardinality(S) = Cardinality(S)
  BY Zenon DEF Earnings!Cardinality, Cardinality
<1>2. QED
  BY <1>1 DEF Earnings!SumOver, SumOver, Earnings!Units, Units

LEMMA EarningsConstants ==
  /\ IsFiniteSet(Users) /\ NoUser \notin Users
  /\ Buckets \in Seq(Priced) /\ Amounts \subseteq Nat /\ Interest \subseteq Nat
  /\ VirtualOffset \in Nat \ {0}
<1>1. \A S : Earnings!IsFiniteSet(S) <=> IsFiniteSet(S)
  BY Zenon DEF Earnings!IsFiniteSet, IsFiniteSet
<1>2. QED
  BY <1>1, BackendAssumption DEF Earnings!ConstantsOK, Priced

(* A longer history begins as the shorter one did.                         *)
LEMMA SubSeqKeeps ==
  ASSUME NEW S, NEW list \in Seq(S), NEW e \in S, NEW k \in 0 .. Len(list)
  PROVE  SubSeq(Append(list, e), 1, k) = SubSeq(list, 1, k)
<1> DEFINE longer == Append(list, e)
<1>1. /\ longer \in Seq(S) /\ Len(longer) = Len(list) + 1
      /\ \A i \in 1 .. Len(list) : longer[i] = list[i]
  BY AppendProperties
<1> HIDE DEF longer
<1>2. SubSeq(longer, 1, k) = [i \in 1 .. k |-> longer[i]]
  BY <1>1
<1>3. SubSeq(list, 1, k) = [i \in 1 .. k |-> list[i]]
  OBVIOUS
<1>4. QED
  BY <1>1, <1>2, <1>3 DEF longer

(* An event that burns no more than its holder has keeps the replay true.  *)
LEMMA Appended ==
  ASSUME EarningsInv, NEW e \in Entries, history' = Append(history, e),
         e.kind = "withdraw" => e.shares <= shares[e.currency][e.who],
         \A u \in Users, c \in Priced :
           shares'[c][u] = IF ~(e.who = u /\ e.currency = c) THEN shares[c][u]
                           ELSE IF e.kind = "deposit" THEN shares[c][u] + e.shares
                           ELSE shares[c][u] - e.shares,
         UNCHANGED <<from, known, asked>>
  PROVE  Booked' /\ MatchedIn(history)' /\ Touched' /\ Requested' /\ Complete'
<1>1. /\ history \in Seq(Entries) /\ history' \in Seq(Entries)
      /\ Len(history) \in Nat /\ Len(history') = Len(history) + 1
      /\ history'[Len(history) + 1] = e
      /\ \A n \in 1 .. Len(history) : history'[n] = history[n]
  BY AppendProperties DEF EarningsInv, Booked
<1>2. Booked'
  <2> SUFFICES ASSUME NEW u \in Users, NEW c \in Priced
               PROVE  Basis(history', u, c) = shares'[c][u]
    BY <1>1 DEF Booked
  <2>1. Earnings!costBasisOf(history', u, c)
          = IF Mine(e, u, c) THEN Earnings!Replay(Earnings!costBasisOf(history, u, c), e)
            ELSE Earnings!costBasisOf(history, u, c)
    BY <1>1, BasisOfOneMore
  <2>2. Earnings!costBasisOf(history, u, c).shares = shares[c][u]
    BY DEF EarningsInv, Booked, Basis
  <2>3. QED
    BY <2>1, <2>2 DEF Basis, Mine, Earnings!Replay, Entries
<1>3. \A k \in 0 .. Len(history) : SubSeq(history', 1, k) = SubSeq(history, 1, k)
  BY <1>1, SubSeqKeeps
<1>4. MatchedIn(history')
  <2> SUFFICES ASSUME NEW n \in 1 .. Len(history'), history'[n].kind = "withdraw"
               PROVE  ~(history'[n].shares
                          > Basis(Before(history', n), history'[n].who, history'[n].currency))
    BY DEF MatchedIn
  <2>1. n \in Nat /\ n - 1 \in 0 .. Len(history)
    BY <1>1
  <2>2. Before(history', n) = Before(history, n)
    BY <1>3, <2>1 DEF Before
  <2>3. CASE n \in 1 .. Len(history)
    BY <1>1, <2>2, <2>3 DEF EarningsInv, MatchedIn
  <2>4. CASE n = Len(history) + 1
    <3>1. Before(history, n) = history
      <4>1. n - 1 = Len(history)
        BY <1>1, <2>4
      <4>2. SubSeq(history, 1, Len(history)) = history
        BY <1>1
      <4>3. QED
        BY <4>1, <4>2 DEF Before
    <3>2. e.who \in Users /\ e.currency \in Priced /\ e.shares \in Nat
      BY DEF Entries
    <3>3. /\ Basis(history, e.who, e.currency) = shares[e.currency][e.who]
          /\ shares[e.currency][e.who] \in Nat
      BY <3>2 DEF EarningsInv, Booked, Backed
    <3>4. QED
      BY <1>1, <2>2, <2>4, <3>1, <3>2, <3>3
  <2>5. QED
    BY <1>1, <2>3, <2>4
<1>5. \A u, c : UsedIn(history, u, c) => UsedIn(history', u, c)
  BY <1>1 DEF UsedIn
<1>6. UsedIn(history', e.who, e.currency)
  BY <1>1 DEF UsedIn
<1>7. Touched'
  BY <1>5, <1>6 DEF EarningsInv, Touched
<1>8. Complete'
  <2> SUFFICES ASSUME from = 1
               PROVE  /\ known \in 0 .. Len(history')
                      /\ asked.who # NoUser =>
                           /\ asked.who \in Users
                           /\ asked.seen \in 0 .. Len(history')
                           /\ asked.events = SubSeq(history', 1, asked.seen)
                           /\ asked.values \in Seq(Nat)
                           /\ Len(asked.values) <= Len(Buckets)
                           /\ \A i \in 1 .. Len(asked.values) :
                                asked.values[i] # 0 => UsedIn(history', asked.who, Buckets[i])
    BY DEF Complete
  <2>1. known \in 0 .. Len(history')
    BY <1>1 DEF EarningsInv, Complete
  <2>2. QED
    BY <1>1, <1>3, <1>5, <2>1 DEF EarningsInv, Complete
<1>9. Requested'
  BY DEF EarningsInv, Requested
<1>10. QED
  BY <1>2, <1>4, <1>7, <1>8, <1>9

(* A bucket is backed by at least a unit for each of its shares. *)
LEMMA DepositBooked ==
  ASSUME EarningsInv, NEW u \in Users, NEW c \in Priced, Earnings!Deposit(u, c)
  PROVE  EarningsInv'
<1>1. PICK amount \in Amounts :
        LET minted == Earnings!MintShares(amount, Earnings!Total(c), nav[c])
        IN /\ shares' = [shares EXCEPT ![c][u] = @ + minted]
           /\ nav' = [nav EXCEPT ![c] = @ + amount]
           /\ Earnings!Logged("deposit", u, c, amount, minted)
  BY DEF Earnings!Deposit
<1> DEFINE total == SumOver(shares[c], Users)
           minted == Prices!MintShares(amount, total, nav[c])
           e == [kind |-> "deposit", who |-> u, currency |-> c, amount |-> amount,
                 shares |-> minted, ts |-> now]
<1>2. Earnings!MintShares(amount, Earnings!Total(c), nav[c]) = minted
  BY SameSum DEF Earnings!Total, Earnings!MintShares, Prices!MintShares
<1>3. /\ amount \in Nat /\ nav[c] \in Nat /\ total \in Nat /\ total <= nav[c]
      /\ shares[c] \in [Users -> Nat] /\ IsFiniteSet(Users) /\ VirtualOffset \in Nat \ {0}
  <2>1. shares[c] \in [Users -> Nat]
    BY DEF EarningsInv, Backed
  <2>2. QED
    BY <2>1, EarningsConstants, SumType DEF EarningsInv, Backed
<1> HIDE DEF total
<1>4. minted \in Nat /\ minted <= amount
  BY <1>3, Prices!MintBounds, Prices!MintAtMostAmount
<1> HIDE DEF minted
<1>5. /\ shares' = [shares EXCEPT ![c][u] = @ + minted]
      /\ nav' = [nav EXCEPT ![c] = @ + amount]
      /\ Earnings!Logged("deposit", u, c, amount, minted)
  BY <1>1, <1>2
<1>6. /\ shares' \in [Priced -> [Users -> Nat]] /\ nav' \in [Priced -> Nat]
      /\ shares'[c][u] = shares[c][u] + minted
      /\ \A v \in Users, d \in Priced : ~(v = u /\ d = c) => shares'[d][v] = shares[d][v]
  BY <1>3, <1>4, <1>5 DEF EarningsInv, Backed
<1>7. Backed'
  <2>1. SumOver(shares'[c], Users) <= nav'[c]
    <3>1. SumOver(shares'[c], Users) = total - shares[c][u] + shares'[c][u]
      BY <1>3, <1>6, SumChange DEF total
    <3>2. nav'[c] = nav[c] + amount /\ shares[c][u] \in Nat
      BY <1>3, <1>5 DEF EarningsInv, Backed
    <3>3. QED
      BY <1>3, <1>4, <1>6, <3>1, <3>2
  <2>2. ASSUME NEW d \in Priced, d # c
        PROVE  SumOver(shares'[d], Users) <= nav'[d]
    <3>1. shares'[d] = shares[d] /\ nav'[d] = nav[d]
      BY <1>5, <2>2 DEF EarningsInv, Backed
    <3>2. QED
      BY <3>1 DEF EarningsInv, Backed
  <2>3. now' \in Nat
    BY <1>5 DEF Earnings!Logged, EarningsInv, Backed
  <2>4. QED
    BY <1>6, <2>1, <2>2, <2>3 DEF Backed
<1>8. /\ e \in Entries /\ history' = Append(history, e)
      /\ UNCHANGED <<from, known, asked>>
  BY <1>3, <1>4, <1>5 DEF Earnings!Logged, Earnings!serverVars, Entries, EarningsInv, Backed
<1>9. /\ e.kind = "deposit" /\ e.who = u /\ e.currency = c /\ e.shares = minted
  OBVIOUS
<1> HIDE DEF e
<1>10. Booked' /\ MatchedIn(history)' /\ Touched' /\ Requested' /\ Complete'
  BY <1>6, <1>8, <1>9, Appended
<1>11. QED
  BY <1>7, <1>10 DEF EarningsInv

LEMMA WithdrawalBooked ==
  ASSUME EarningsInv, NEW u \in Users, NEW c \in Priced, Earnings!Withdraw(u, c)
  PROVE  EarningsInv'
<1>1. PICK burned \in {shares[c][u], shares[c][u] \div 2} \ {0} :
        LET amount == Earnings!RedeemAssets(burned, Earnings!Total(c), nav[c])
        IN /\ shares' = [shares EXCEPT ![c][u] = @ - burned]
           /\ nav' = [nav EXCEPT ![c] = @ - amount]
           /\ Earnings!Logged("withdraw", u, c, amount, burned)
  BY DEF Earnings!Withdraw
<1> DEFINE total == SumOver(shares[c], Users)
           amount == Prices!RedeemAssets(burned, total, nav[c])
           e == [kind |-> "withdraw", who |-> u, currency |-> c, amount |-> amount,
                 shares |-> burned, ts |-> now]
<1>2. Earnings!RedeemAssets(burned, Earnings!Total(c), nav[c]) = amount
  BY SameSum DEF Earnings!Total, Earnings!RedeemAssets, Prices!RedeemAssets
<1>3. /\ nav[c] \in Nat /\ total \in Nat /\ total <= nav[c]
      /\ shares[c] \in [Users -> Nat] /\ IsFiniteSet(Users) /\ VirtualOffset \in Nat \ {0}
      /\ shares[c][u] \in Nat /\ shares[c][u] <= total
  <2>1. shares[c] \in [Users -> Nat]
    BY DEF EarningsInv, Backed
  <2>2. QED
    BY <2>1, EarningsConstants, SumType, SummandBelow DEF EarningsInv, Backed
<1> HIDE DEF total
<1>4. burned \in Nat /\ burned <= shares[c][u] /\ burned \in 0 .. total
  BY <1>1, <1>3
<1>5. amount \in Nat /\ amount <= burned + (nav[c] - total)
  BY <1>3, <1>4, Prices!RedeemBounds, Prices!RedeemLeavesBacking
<1> HIDE DEF amount
<1>6. /\ shares' = [shares EXCEPT ![c][u] = @ - burned]
      /\ nav' = [nav EXCEPT ![c] = @ - amount]
      /\ Earnings!Logged("withdraw", u, c, amount, burned)
  BY <1>1, <1>2
<1>7. shares[c][u] - burned \in Nat /\ nav[c] - amount \in Nat
  BY <1>3, <1>4, <1>5
<1>8. /\ shares' \in [Priced -> [Users -> Nat]] /\ nav' \in [Priced -> Nat]
      /\ shares'[c][u] = shares[c][u] - burned
      /\ \A v \in Users, d \in Priced : ~(v = u /\ d = c) => shares'[d][v] = shares[d][v]
  BY <1>3, <1>6, <1>7 DEF EarningsInv, Backed
<1>9. Backed'
  <2>1. SumOver(shares'[c], Users) <= nav'[c]
    <3>1. SumOver(shares'[c], Users) = total - shares[c][u] + shares'[c][u]
      BY <1>3, <1>8, SumChange DEF total
    <3>2. nav'[c] = nav[c] - amount
      BY <1>6 DEF EarningsInv, Backed
    <3>3. QED
      BY <1>3, <1>4, <1>5, <1>8, <3>1, <3>2
  <2>2. ASSUME NEW d \in Priced, d # c
        PROVE  SumOver(shares'[d], Users) <= nav'[d]
    <3>1. shares'[d] = shares[d] /\ nav'[d] = nav[d]
      BY <1>6, <2>2 DEF EarningsInv, Backed
    <3>2. QED
      BY <3>1 DEF EarningsInv, Backed
  <2>3. now' \in Nat
    BY <1>6 DEF Earnings!Logged, EarningsInv, Backed
  <2>4. QED
    BY <1>8, <2>1, <2>2, <2>3 DEF Backed
<1>10. /\ e \in Entries /\ history' = Append(history, e)
       /\ UNCHANGED <<from, known, asked>>
  BY <1>4, <1>5, <1>6 DEF Earnings!Logged, Earnings!serverVars, Entries, EarningsInv, Backed
<1>11. /\ e.kind = "withdraw" /\ e.who = u /\ e.currency = c /\ e.shares = burned
  OBVIOUS
<1> HIDE DEF e
<1>12. Booked' /\ MatchedIn(history)' /\ Touched' /\ Requested' /\ Complete'
  BY <1>4, <1>8, <1>10, <1>11, Appended
<1>13. QED
  BY <1>9, <1>12 DEF EarningsInv

(* A position without shares is worth nothing. *)
LEMMA NothingRedeemsToNothing ==
  ASSUME NEW t \in Nat, NEW n \in Nat
  PROVE  Earnings!RedeemAssets(0, t, n) = 0
<1>1. VirtualOffset \in Nat \ {0}
  BY EarningsConstants
<1>2. 0 * (n + VirtualOffset) = 0 /\ t + VirtualOffset \in Nat \ {0}
  BY <1>1
<1>3. \A k \in Nat \ {0} : 0 \div k = 0
  OBVIOUS
<1>4. QED
  BY <1>2, <1>3 DEF Earnings!RedeemAssets

(* A value that is read is not zero only where its owner had an event.     *)
LEMMA ValueIsOfUsed ==
  ASSUME EarningsInv, Earnings!ReadValue
  PROVE  EarningsInv'
<1> DEFINE i == Len(asked.values) + 1
           c == Buckets[i]
           value == Earnings!RedeemAssets(shares[c][asked.who], Earnings!Total(c), nav[c])
<1>1. /\ asked.who # NoUser /\ Len(asked.values) # Len(Buckets)
      /\ asked' = [asked EXCEPT !.values = Append(@, value)]
      /\ UNCHANGED <<now, shares, nav, history, from, known>>
  BY DEF Earnings!ReadValue, Earnings!AllRead, Earnings!chainVars
<1>2. Backed' /\ Booked' /\ MatchedIn(history)' /\ Touched'
  BY <1>1 DEF EarningsInv, Backed, Booked, MatchedIn, Before, Basis, Touched, UsedIn
<1> HIDE DEF value
<1>3. /\ asked'.who = asked.who /\ asked'.seen = asked.seen /\ asked'.events = asked.events
      /\ asked'.values = Append(asked.values, value)
      /\ Requested'
  BY <1>1 DEF EarningsInv, Requested
<1>4. ASSUME from = 1
      PROVE  /\ asked.who \in Users /\ c \in Priced /\ i \in Nat /\ i <= Len(Buckets)
             /\ asked.values \in Seq(Nat) /\ Len(asked.values) = i - 1
             /\ \A k \in 1 .. Len(asked.values) :
                  asked.values[k] # 0 => UsedIn(history, asked.who, Buckets[k])
  <2>1. /\ asked.who \in Users
        /\ asked.values \in Seq(Nat) /\ Len(asked.values) <= Len(Buckets)
        /\ \A k \in 1 .. Len(asked.values) :
             asked.values[k] # 0 => UsedIn(history, asked.who, Buckets[k])
    BY <1>1, <1>4 DEF EarningsInv, Complete
  <2>2. Len(asked.values) \in Nat /\ Len(Buckets) \in Nat
    BY <2>1, EarningsConstants
  <2>3. i \in Nat /\ i <= Len(Buckets) /\ i \in 1 .. Len(Buckets) /\ Len(asked.values) = i - 1
    BY <1>1, <2>1, <2>2
  <2>4. Buckets[i] \in Priced
    BY <2>3, EarningsConstants
  <2>5. QED
    BY <2>1, <2>3, <2>4
<1>5. ASSUME from = 1
      PROVE  value \in Nat /\ (value # 0 => UsedIn(history, asked.who, c))
  <2>1. /\ shares[c] \in [Users -> Nat] /\ shares[c][asked.who] \in Nat /\ nav[c] \in Nat
    BY <1>4, <1>5 DEF EarningsInv, Backed
  <2>2. Earnings!Total(c) \in Nat
    BY <2>1, SameSum, EarningsConstants, SumType DEF Earnings!Total
  <2>3. value \in Nat
    <3>1. Prices!RedeemAssets(shares[c][asked.who], Earnings!Total(c), nav[c]) \in Nat
      BY <2>1, <2>2, EarningsConstants, Prices!RedeemBounds
    <3>2. QED
      BY <3>1 DEF value, Earnings!RedeemAssets, Prices!RedeemAssets
  <2>4. shares[c][asked.who] = 0 => value = 0
    BY <2>1, <2>2, NothingRedeemsToNothing DEF value
  <2>5. shares[c][asked.who] # 0 => UsedIn(history, asked.who, c)
    BY <1>4, <1>5 DEF EarningsInv, Touched
  <2>6. QED
    BY <2>3, <2>4, <2>5
<1>6. Complete'
  <2> SUFFICES ASSUME from = 1
               PROVE  /\ asked'.values \in Seq(Nat) /\ Len(asked'.values) <= Len(Buckets)
                      /\ \A k \in 1 .. Len(asked'.values) :
                           asked'.values[k] # 0 => UsedIn(history, asked.who, Buckets[k])
    BY <1>1, <1>3, SMTT(30) DEF EarningsInv, Complete, UsedIn
  <2> HIDE DEF i
  <2>1. /\ asked'.values \in Seq(Nat) /\ Len(asked'.values) = i
        /\ asked'.values[i] = value
        /\ \A k \in 1 .. i - 1 : asked'.values[k] = asked.values[k]
    BY <1>3, <1>4, <1>5, AppendProperties
  <2>2. \A k \in 1 .. i : k = i \/ (k \in 1 .. i - 1 /\ k \in 1 .. Len(asked.values))
    BY <1>4
  <2>3. \A k \in 1 .. i : asked'.values[k] # 0 => UsedIn(history, asked.who, Buckets[k])
    BY <1>4, <1>5, <2>1, <2>2
  <2>4. QED
    BY <1>4, <2>1, <2>3
<1>7. QED
  BY <1>2, <1>3, <1>6 DEF EarningsInv

LEMMA EarningsStart == Earnings!Init => EarningsInv
<1> SUFFICES ASSUME Earnings!Init
             PROVE  EarningsInv
  OBVIOUS
<1>1. /\ now = 0 /\ history = <<>> /\ nav = [c \in Priced |-> 0]
      /\ shares = [c \in Priced |-> [u \in Users |-> 0]]
      /\ from = 1 => known = 0
      /\ asked = Earnings!NotAsked
  BY DEF Earnings!Init, Priced
<1>2. Len(history) = 0 /\ history \in Seq(Entries)
  BY <1>1
<1>3. Backed
  <2> SUFFICES ASSUME NEW c \in Priced
               PROVE  SumOver(shares[c], Users) <= nav[c]
    BY <1>1 DEF Backed
  <2>1. /\ {} \in SUBSET Users /\ \A u \in Users \ {} : shares[c][u] = 0
        /\ nav[c] = 0
    BY <1>1
  <2>2. SumOver(shares[c], Users) = SumOver(shares[c], {})
    BY <2>1, SumWithZeros
  <2>3. QED
    BY <2>1, <2>2, SumEmpty
<1>4. Booked
  <2>1. \A u, c : Basis(history, u, c) = 0
    BY <1>1, BasisOfNone DEF Basis, Earnings!EmptyBasis
  <2>2. QED
    BY <1>1, <1>2, <2>1 DEF Booked
<1>5. MatchedIn(history) /\ Touched
  BY <1>1, <1>2 DEF MatchedIn, Touched
<1>6. Requested /\ Complete
  BY <1>1, <1>2 DEF Requested, Complete, Earnings!NotAsked
<1>7. QED
  BY <1>3, <1>4, <1>5, <1>6 DEF EarningsInv

LEMMA EarningsStep ==
  ASSUME EarningsInv, [Earnings!Next]_(Earnings!vars)
  PROVE  EarningsInv'
<1>1. ASSUME NEW u \in Users, NEW c \in Earnings!Currencies,
             Earnings!Deposit(u, c) \/ Earnings!Withdraw(u, c)
      PROVE  EarningsInv'
  BY <1>1, DepositBooked, WithdrawalBooked DEF Priced
<1>2. ASSUME NEW c \in Earnings!Currencies, Earnings!Accrue(c)
      PROVE  EarningsInv'
  <2>1. PICK i \in Interest : nav' = [nav EXCEPT ![c] = @ + i]
    BY <1>2 DEF Earnings!Accrue
  <2>2. UNCHANGED <<now, shares, history, from, known, asked>>
    BY <1>2 DEF Earnings!Accrue, Earnings!serverVars
  <2>3. i \in Nat
    BY EarningsConstants
  <2>4. \A d \in Priced : nav'[d] = IF d = c THEN nav[d] + i ELSE nav[d]
    BY <2>1 DEF EarningsInv, Backed
  <2>5. \A d \in Priced : SumOver(shares[d], Users) \in Nat
    <3> SUFFICES ASSUME NEW d \in Priced
                 PROVE  SumOver(shares[d], Users) \in Nat
      OBVIOUS
    <3>1. \A u \in Users : shares[d][u] \in Nat
      BY DEF EarningsInv, Backed
    <3>2. QED
      BY <3>1, EarningsConstants, SumType
  <2>6. Backed'
    <3>1. nav' \in [Priced -> Nat]
      <4>1. c \in Priced /\ nav \in [Priced -> Nat] /\ nav[c] + i \in Nat
        BY <2>3 DEF EarningsInv, Backed, Priced
      <4>2. QED
        BY <2>1, <4>1
    <3>2. \A d \in Priced : SumOver(shares[d], Users) <= nav'[d]
      BY <2>3, <2>4, <2>5 DEF EarningsInv, Backed
    <3>3. QED
      BY <2>2, <3>1, <3>2 DEF EarningsInv, Backed
  <2>7. QED
    BY <2>2, <2>6 DEF EarningsInv, Booked, MatchedIn, Before, Basis, Touched, Requested,
                      Complete, UsedIn
<1>3. CASE Earnings!TimePasses
  <2>1. now' \in Nat /\ UNCHANGED <<shares, nav, history, from, known, asked>>
    BY <1>3 DEF Earnings!TimePasses, Earnings!serverVars, EarningsInv, Backed
  <2>2. QED
    BY <2>1 DEF EarningsInv, Backed, Booked, MatchedIn, Before, Basis, Touched, Requested,
                Complete, UsedIn
<1>4. CASE Earnings!Poll
  <2>1. /\ UNCHANGED <<now, shares, nav, history, from, asked>>
        /\ known' \in known + 1 .. Len(history)
    BY <1>4 DEF Earnings!Poll, Earnings!chainVars
  <2>2. Len(history) \in Nat
    BY DEF EarningsInv, Booked
  <2>3. from = 1 => known' \in 0 .. Len(history)
    BY <2>1, <2>2 DEF EarningsInv, Complete
  <2>4. QED
    BY <2>1, <2>3 DEF EarningsInv, Backed, Booked, MatchedIn, Before, Basis, Touched,
                      Requested, Complete, UsedIn
<1>5. CASE Earnings!StartTick \/ Earnings!Sample \/ Earnings!SampleThrows
           \/ UNCHANGED Earnings!vars
  <2>1. UNCHANGED <<now, shares, nav, history, from, known, asked>>
    BY <1>5 DEF Earnings!StartTick, Earnings!Sample, Earnings!SampleThrows, Earnings!vars,
                Earnings!chainVars, Earnings!serverVars
  <2>2. QED
    BY <2>1 DEF EarningsInv, Backed, Booked, MatchedIn, Before, Basis, Touched, Requested,
                Complete, UsedIn
<1>6. CASE Earnings!Restart \/ Earnings!Answer
  <2>1. /\ UNCHANGED <<now, shares, nav, history, from>>
        /\ asked' = Earnings!NotAsked
        /\ known' = from - 1 \/ known' = known
    BY <1>6 DEF Earnings!Restart, Earnings!Answer, Earnings!chainVars
  <2>2. asked'.who = NoUser /\ Requested'
    BY <2>1 DEF Earnings!NotAsked, Requested
  <2>3. Len(history) \in Nat
    BY DEF EarningsInv, Booked
  <2>4. from = 1 => known' \in 0 .. Len(history)
    BY <2>1, <2>3 DEF EarningsInv, Complete
  <2>5. QED
    BY <2>1, <2>2, <2>4 DEF EarningsInv, Backed, Booked, MatchedIn, Before, Basis, Touched,
                      Complete, UsedIn
<1>7. ASSUME NEW u \in Users, Earnings!Ask(u)
      PROVE  EarningsInv'
  <2>1. /\ UNCHANGED <<now, shares, nav, history, from, known>>
        /\ asked' = [who |-> u, events |-> SubSeq(history, from, known), seen |-> known,
                     values |-> <<>>]
    BY <1>7 DEF Earnings!Ask, Earnings!chainVars
  <2>2. /\ asked'.who \in Users /\ asked'.seen = known
        /\ asked'.events = SubSeq(history, from, known) /\ asked'.values = <<>>
        /\ Requested'
    BY <2>1 DEF Requested
  <2>3. Len(<<>>) = 0 /\ <<>> \in Seq(Nat) /\ Len(Buckets) \in Nat
    BY EarningsConstants
  <2>4. QED
    BY <2>1, <2>2, <2>3 DEF EarningsInv, Backed, Booked, MatchedIn, Before, Basis, Touched,
                      Complete, UsedIn
<1>8. CASE Earnings!ReadValue
  BY <1>8, ValueIsOfUsed
<1>9. QED
  BY <1>1, <1>2, <1>3, <1>4, <1>5, <1>6, <1>7, <1>8 DEF Earnings!Next

LEMMA EarningsServed == EarningsInv => Earnings!CompleteHistoryIsServed
<1> SUFFICES ASSUME EarningsInv, Earnings!AllRead, from = 1
             PROVE  /\ ~Earnings!Throws(asked.events)
                    /\ \A c \in Earnings!NeededRates :
                         \E n \in DOMAIN history :
                           history[n].who = asked.who /\ history[n].currency = c
  BY DEF Earnings!CompleteHistoryIsServed, Earnings!Complete
<1>1. /\ asked.who \in Users
      /\ asked.seen \in 0 .. Len(history) /\ asked.events = SubSeq(history, 1, asked.seen)
      /\ Len(asked.values) = Len(Buckets)
      /\ \A i \in 1 .. Len(asked.values) :
           asked.values[i] # 0 => UsedIn(history, asked.who, Buckets[i])
      /\ history \in Seq(Entries)
  BY DEF EarningsInv, Complete, Booked, Earnings!AllRead
<1>2. /\ DOMAIN asked.events = 1 .. asked.seen
      /\ Len(history) \in Nat /\ DOMAIN history = 1 .. Len(history)
      /\ \A n \in 1 .. asked.seen : n \in 1 .. Len(history) /\ asked.events[n] = history[n]
  BY <1>1
<1>3. ~Earnings!Throws(asked.events)
  <2> SUFFICES ASSUME NEW n \in DOMAIN asked.events, asked.events[n].kind = "withdraw"
               PROVE  ~(asked.events[n].shares
                          > Earnings!costBasisOf(SubSeq(asked.events, 1, n - 1),
                              asked.events[n].who, asked.events[n].currency).shares)
    BY DEF Earnings!Throws
  <2>1. n \in 1 .. Len(history) /\ asked.events[n] = history[n]
    BY <1>2
  <2>2. SubSeq(asked.events, 1, n - 1) = Before(history, n)
    BY <1>1, <1>2 DEF Before
  <2>3. QED
    BY <2>1, <2>2 DEF EarningsInv, MatchedIn, Basis
<1>4. ASSUME NEW c \in Earnings!NeededRates
      PROVE  \E n \in DOMAIN history : history[n].who = asked.who /\ history[n].currency = c
  <2>1. c \in Priced /\ ~Earnings!Untouched(c)
    BY <1>4 DEF Earnings!NeededRates, Priced
  <2>2. CASE \E n \in DOMAIN asked.events :
               asked.events[n].who = asked.who /\ asked.events[n].currency = c
    BY <1>2, <2>2
  <2>3. CASE Earnings!ValueRead(c) # 0
    <3> DEFINE i == CHOOSE n \in DOMAIN Buckets : Buckets[n] = c
    <3>1. i \in DOMAIN Buckets /\ Buckets[i] = c
      <4>1. \E n \in DOMAIN Buckets : Buckets[n] = c
        BY <2>1 DEF Priced, Earnings!Currencies, Earnings!Range
      <4>2. QED
        BY <4>1
    <3>2. asked.values[i] # 0
      BY <2>3 DEF Earnings!ValueRead
    <3> HIDE DEF i
    <3>3. i \in 1 .. Len(asked.values)
      BY <1>1, <3>1, EarningsConstants
    <3>4. QED
      BY <1>1, <1>2, <3>1, <3>2, <3>3 DEF UsedIn
  <2>4. QED
    BY <2>1, <2>2, <2>3 DEF Earnings!Untouched
<1>5. QED
  BY <1>3, <1>4

(* With the whole history stored no request for the earnings fails for a   *)
(* withdrawal without its deposit, and none needs the rate of a bucket     *)
(* that the depositor never used (cost-basis.ts; api/earnings.ts).         *)
THEOREM ServedTheorem == Earnings!Spec => []CompleteHistoryIsServed
BY EarningsStart, EarningsStep, EarningsServed, PTL DEF Earnings!Spec, CompleteHistoryIsServed

-----------------------------------------------------------------------------
(* The headline is interest. What a position was paid in, is worth and     *)
(* lacks, against the buckets.                                             *)

(* What shares redeem for, and the price of one, rounded up.               *)
Redeems(x, c) == Earnings!RedeemAssets(x, Earnings!Total(c), nav[c])
PriceOf(c) == Earnings!PriceAbove(Earnings!Total(c), nav[c])
Value(u, c) == Redeems(shares[c][u], c)

(* The cost basis after the first k events.                                *)
Put(k, u, c) == Earnings!costBasisOf(SubSeq(history, 1, k), u, c).contributed
HeldAt(k, u, c) == Basis(SubSeq(history, 1, k), u, c)

(* What the events after the first k amount to.                            *)
Later(kind, k, u, c) ==
  {n \in k + 1 .. Len(history) : history[n].kind = kind /\ Mine(history[n], u, c)}
AmountOf == [n \in DOMAIN history |-> history[n].amount]
Missing(kind, k, u, c) == SumOver(AmountOf, Later(kind, k, u, c))

(* How often a bucket was rounded.                                         *)
CountOf(c) == Cardinality({n \in DOMAIN history : history[n].currency = c})

(* The instances of the share arithmetic agree.                            *)
LEMMA SameMath ==
  ASSUME NEW x, NEW t, NEW n
  PROVE  /\ Earnings!RedeemAssets(x, t, n) = Prices!RedeemAssets(x, t, n)
         /\ Earnings!MintShares(x, t, n) = Prices!MintShares(x, t, n)
         /\ Earnings!PriceAbove(t, n) = Prices!PriceAbove(t, n)
BY DEF Earnings!RedeemAssets, Earnings!MintShares, Earnings!PriceAbove,
       Prices!RedeemAssets, Prices!MintShares, Prices!PriceAbove

(* Dust and the unseen amounts of Earnings, in the terms used here.        *)
LEMMA DustIs == \A c : Earnings!Dust(c) = CountOf(c) * PriceOf(c)
<1>1. \A S : Earnings!Cardinality(S) = Cardinality(S)
  BY Zenon DEF Earnings!Cardinality, Cardinality
<1>2. QED
  BY <1>1 DEF Earnings!Dust, CountOf, PriceOf

LEMMA UnseenIs ==
  \A kind, c : Earnings!Unseen(kind, c) = Missing(kind, asked.seen, asked.who, c)
BY SameSum DEF Earnings!Unseen, Missing, Later, AmountOf, Mine

(* The numbers of a bucket: what shares redeem for adds up, and no share   *)
(* is worth nothing.                                                       *)
Numbers(c) ==
  /\ nav[c] \in Nat /\ Earnings!Total(c) \in Nat /\ Earnings!Total(c) <= nav[c]
  /\ \A u \in Users : shares[c][u] \in Nat /\ shares[c][u] <= Earnings!Total(c)
  /\ PriceOf(c) \in Nat \ {0}
  /\ \A x \in Nat : Redeems(x, c) \in Nat
  /\ \A x, y \in Nat : Redeems(x, c) + Redeems(y, c) <= Redeems(x + y, c)
  /\ \A x, y \in Nat : x <= y => Redeems(x, c) <= Redeems(y, c)
  /\ \A x \in Nat \ {0} : Redeems(x, c) # 0

AllNumbers == \A c \in Priced : Numbers(c)

(* Backed buckets have those numbers.                                      *)
LEMMA BackedNumbers == Backed => AllNumbers
<1> SUFFICES ASSUME Backed, NEW c \in Priced
             PROVE  Numbers(c)
  BY DEF AllNumbers
<1> DEFINE t == Earnings!Total(c)
           n == nav[c]
<1>1. /\ t \in Nat /\ n \in Nat /\ t <= n /\ VirtualOffset \in Nat \ {0}
      /\ \A u \in Users : shares[c][u] \in Nat /\ shares[c][u] <= t
  <2>1. shares[c] \in [Users -> Nat] /\ nav[c] \in Nat /\ SumOver(shares[c], Users) <= nav[c]
    BY DEF Backed
  <2>2. /\ SumOver(shares[c], Users) \in Nat
        /\ \A u \in Users : shares[c][u] \in Nat /\ shares[c][u] <= SumOver(shares[c], Users)
    BY <2>1, EarningsConstants, SumType, SummandBelow
  <2>3. QED
    BY <2>1, <2>2, EarningsConstants, SameSum DEF Earnings!Total
<1>2. /\ PriceOf(c) = Prices!PriceAbove(t, n)
      /\ \A x : Redeems(x, c) = Prices!RedeemAssets(x, t, n)
  BY SameMath DEF PriceOf, Redeems
<1> HIDE DEF t, n
<1>3. PriceOf(c) \in Nat \ {0}
  BY <1>1, <1>2, Prices!PriceAboveBounds
<1>4. ASSUME NEW x \in Nat
      PROVE  Redeems(x, c) \in Nat
  <2>1. Prices!RedeemAssets(x, t, n) \in Nat
    BY <1>1, Prices!RedeemBounds
  <2>2. QED
    BY <1>2, <2>1
<1>5. ASSUME NEW x \in Nat, NEW y \in Nat
      PROVE  Redeems(x, c) + Redeems(y, c) <= Redeems(x + y, c)
  <2>1. Prices!RedeemAssets(x, t, n) + Prices!RedeemAssets(y, t, n)
          <= Prices!RedeemAssets(x + y, t, n)
    BY <1>1, Prices!RedeemAdds
  <2>2. QED
    BY <1>2, <2>1
<1>6. ASSUME NEW x \in Nat, NEW y \in Nat, x <= y
      PROVE  Redeems(x, c) <= Redeems(y, c)
  <2>1. y - x \in Nat /\ x + (y - x) = y
    BY <1>6
  <2>2. Redeems(x, c) + Redeems(y - x, c) <= Redeems(y, c)
    BY <1>5, <2>1
  <2>3. Redeems(x, c) \in Nat /\ Redeems(y - x, c) \in Nat /\ Redeems(y, c) \in Nat
    BY <1>4, <2>1
  <2>4. QED
    BY <2>2, <2>3
<1>7. ASSUME NEW x \in Nat \ {0}
      PROVE  Redeems(x, c) # 0
  <2>1. 1 * (t + VirtualOffset) <= x * (n + VirtualOffset)
    <3>1. 1 * (n + VirtualOffset) <= x * (n + VirtualOffset)
      <4>1. 1 <= x /\ 1 \in Int /\ x \in Int /\ n + VirtualOffset \in Nat
        BY <1>1
      <4>2. QED
        BY <4>1, Prices!ProductMonotone, <1>1
    <3>2. x * (n + VirtualOffset) \in Int
      BY <1>1
    <3>3. QED
      BY <1>1, <3>1, <3>2
  <2>2. 1 <= Prices!RedeemAssets(x, t, n)
    BY <1>1, <2>1, Prices!RedeemGreatest
  <2>3. QED
    BY <1>2, <2>2
<1>8. QED
  BY <1>1, <1>3, <1>4, <1>5, <1>6, <1>7 DEF Numbers, t, n

(* A bucket whose price has not fallen pays no less for any shares.        *)
Worthier(c) ==
  /\ \A x \in Nat : Redeems(x, c) <= Redeems(x, c)'
  /\ PriceOf(c) <= PriceOf(c)'

(* Prices are compared by cross multiplication.                            *)
LEMMA PriceMakesWorthier ==
  ASSUME AllNumbers, AllNumbers', NEW c \in Priced,
         (nav'[c] + VirtualOffset) * (Earnings!Total(c) + VirtualOffset)
           >= (nav[c] + VirtualOffset) * (Earnings!Total(c)' + VirtualOffset)
  PROVE  Worthier(c)
<1> DEFINE t == Earnings!Total(c)
           n == nav[c]
           tt == Earnings!Total(c)'
           nn == nav'[c]
<1>1. t \in Nat /\ n \in Nat /\ tt \in Nat /\ nn \in Nat /\ VirtualOffset \in Nat \ {0}
  BY EarningsConstants DEF AllNumbers, Numbers
<1>2. /\ PriceOf(c) = Prices!PriceAbove(t, n) /\ PriceOf(c)' = Prices!PriceAbove(tt, nn)
      /\ \A x : Redeems(x, c) = Prices!RedeemAssets(x, t, n)
      /\ \A x : Redeems(x, c)' = Prices!RedeemAssets(x, tt, nn)
  BY SameMath DEF PriceOf, Redeems
<1>3. (nn + VirtualOffset) * (t + VirtualOffset) >= (n + VirtualOffset) * (tt + VirtualOffset)
  OBVIOUS
<1> HIDE DEF t, n, tt, nn
<1>4. \A x \in Nat : Prices!RedeemAssets(x, t, n) <= Prices!RedeemAssets(x, tt, nn)
  <2> SUFFICES ASSUME NEW x \in Nat
               PROVE  Prices!RedeemAssets(x, t, n) <= Prices!RedeemAssets(x, tt, nn)
    OBVIOUS
  <2>1. Prices!RedeemAssets(x, tt, nn) >= Prices!RedeemAssets(x, t, n)
    BY <1>1, <1>3, Prices!RedeemFollowsPrice
  <2>2. Prices!RedeemAssets(x, tt, nn) \in Nat /\ Prices!RedeemAssets(x, t, n) \in Nat
    BY <1>1, Prices!RedeemBounds
  <2>3. QED
    BY <2>1, <2>2
<1>5. Prices!PriceAbove(t, n) <= Prices!PriceAbove(tt, nn)
  BY <1>1, <1>3, Prices!PriceAboveGrows
<1>6. QED
  BY <1>2, <1>4, <1>5 DEF Worthier

-----------------------------------------------------------------------------
(* The sums over a history, and what one more event makes of them.         *)
LEMMA HistorySums ==
  ASSUME history \in Seq(Entries)
  PROVE  /\ Len(history) \in Nat /\ DOMAIN history = 1 .. Len(history)
         /\ \A n \in 1 .. Len(history) : AmountOf[n] = history[n].amount /\ AmountOf[n] \in Nat
         /\ \A kind, k, u, c : k \in 0 .. Len(history) =>
              /\ IsFiniteSet(Later(kind, k, u, c)) /\ Missing(kind, k, u, c) \in Nat
              /\ Later(kind, k, u, c) \subseteq 1 .. Len(history)
         /\ \A kind, u, c : Missing(kind, Len(history), u, c) = 0
         /\ \A c : IsFiniteSet({n \in DOMAIN history : history[n].currency = c})
                   /\ CountOf(c) \in Nat
<1>1. /\ Len(history) \in Nat /\ DOMAIN history = 1 .. Len(history)
      /\ \A n \in 1 .. Len(history) : AmountOf[n] = history[n].amount /\ AmountOf[n] \in Nat
  <2>1. Len(history) \in Nat /\ DOMAIN history = 1 .. Len(history)
    OBVIOUS
  <2>2. \A n \in 1 .. Len(history) : history[n] \in Entries
    OBVIOUS
  <2>3. \A n \in 1 .. Len(history) : history[n].amount \in Nat
    BY <2>2 DEF Entries
  <2>4. \A n \in 1 .. Len(history) : AmountOf[n] = history[n].amount
    BY <2>1 DEF AmountOf
  <2>5. QED
    BY <2>1, <2>3, <2>4
<1>2. IsFiniteSet(1 .. Len(history))
  BY <1>1, FS_Interval
<1>3. ASSUME NEW kind, NEW k \in 0 .. Len(history), NEW u, NEW c
      PROVE  /\ IsFiniteSet(Later(kind, k, u, c)) /\ Missing(kind, k, u, c) \in Nat
             /\ Later(kind, k, u, c) \subseteq 1 .. Len(history)
  <2>1. Later(kind, k, u, c) \subseteq 1 .. Len(history)
    BY <1>1 DEF Later
  <2>2. IsFiniteSet(Later(kind, k, u, c))
    BY <1>2, <2>1, FS_Subset
  <2>3. \A n \in Later(kind, k, u, c) : AmountOf[n] \in Nat
    BY <1>1, <2>1
  <2>4. QED
    BY <2>1, <2>2, <2>3, SumType DEF Missing
<1>4. ASSUME NEW kind, NEW u, NEW c
      PROVE  Missing(kind, Len(history), u, c) = 0
  <2>1. Later(kind, Len(history), u, c) = {}
    BY <1>1 DEF Later
  <2>2. QED
    BY <2>1, SumEmpty DEF Missing
<1>5. ASSUME NEW c
      PROVE  /\ IsFiniteSet({n \in DOMAIN history : history[n].currency = c})
             /\ CountOf(c) \in Nat
  <2>1. IsFiniteSet({n \in DOMAIN history : history[n].currency = c})
    <3>1. {n \in DOMAIN history : history[n].currency = c} \subseteq 1 .. Len(history)
      BY <1>1
    <3>2. QED
      BY <1>2, <3>1, FS_Subset
  <2>2. QED
    BY <2>1, FS_CardinalityType DEF CountOf
<1>6. QED
  BY <1>1, <1>3, <1>4, <1>5

(* What an event changes of the amounts, counts and bases of its list.     *)
LEMMA OneMoreEvent ==
  ASSUME history \in Seq(Entries), NEW e \in Entries, history' = Append(history, e)
  PROVE  /\ Len(history)' = Len(history) + 1
         /\ \A u, c : \A k \in 0 .. Len(history) :
              Put(k, u, c)' = Put(k, u, c) /\ HeldAt(k, u, c)' = HeldAt(k, u, c)
         /\ \A u, c :
              LET before == Earnings!costBasisOf(SubSeq(history, 1, Len(history)), u, c)
                  after == IF Mine(e, u, c) THEN Earnings!Replay(before, e) ELSE before
              IN /\ Put(Len(history), u, c)' = after.contributed
                 /\ HeldAt(Len(history), u, c)' = after.shares
         /\ \A kind, u, c : \A k \in 0 .. Len(history) :
              Missing(kind, k, u, c)'
                = Missing(kind, k, u, c)
                    + IF e.kind = kind /\ Mine(e, u, c) THEN e.amount ELSE 0
         /\ \A kind, u, c : Missing(kind, Len(history), u, c)' = 0
         /\ \A c : CountOf(c)' = CountOf(c) + IF e.currency = c THEN 1 ELSE 0
         /\ \A kind, u, c : \A k \in 0 .. Len(history) :
              Later(kind, k, u, c) \subseteq Later(kind, k, u, c)'
<1> DEFINE l == Len(history)
<1>1. /\ history' \in Seq(Entries) /\ l \in Nat /\ Len(history') = l + 1
      /\ DOMAIN history' = 1 .. l + 1 /\ DOMAIN history = 1 .. l
      /\ history'[l + 1] = e /\ \A n \in 1 .. l : history'[n] = history[n]
  BY AppendProperties
<1>2. \A k \in 0 .. l : SubSeq(history', 1, k) = SubSeq(history, 1, k)
  BY SubSeqKeeps
<1>3. SubSeq(history', 1, l + 1) = history' /\ SubSeq(history, 1, l) = history
  BY <1>1
<1>4. ASSUME NEW u, NEW c
      PROVE  Earnings!costBasisOf(history', u, c)
               = IF Mine(e, u, c) THEN Earnings!Replay(Earnings!costBasisOf(history, u, c), e)
                 ELSE Earnings!costBasisOf(history, u, c)
  BY BasisOfOneMore
<1>5. ASSUME NEW kind, NEW u, NEW c, NEW k \in 0 .. l
      PROVE  /\ Missing(kind, k, u, c)'
                  = Missing(kind, k, u, c)
                      + IF e.kind = kind /\ Mine(e, u, c) THEN e.amount ELSE 0
             /\ Later(kind, k, u, c) \subseteq Later(kind, k, u, c)'
  <2> DEFINE old == Later(kind, k, u, c)
             new == Later(kind, k, u, c)'
  <2>1. new = {n \in k + 1 .. l + 1 : history'[n].kind = kind /\ Mine(history'[n], u, c)}
    BY <1>1 DEF Later
  <2>2. old = {n \in k + 1 .. l : history[n].kind = kind /\ Mine(history[n], u, c)}
    BY DEF Later
  <2>3. new = IF e.kind = kind /\ Mine(e, u, c) THEN old \cup {l + 1} ELSE old
    <3>1. \A n \in k + 1 .. l + 1 : n = l + 1 \/ (n \in 1 .. l /\ n \in k + 1 .. l)
      BY <1>1
    <3>2. \A n \in k + 1 .. l : n \in 1 .. l /\ n \in k + 1 .. l + 1
      BY <1>1
    <3>3. l + 1 \in k + 1 .. l + 1
      BY <1>1
    <3> HIDE DEF l
    <3>4. QED
      BY <1>1, <2>1, <2>2, <3>1, <3>2, <3>3
  <2>4. /\ IsFiniteSet(old) /\ l + 1 \notin old /\ \A x \in old : AmountOf[x] \in Nat
        /\ \A x \in old : AmountOf'[x] = AmountOf[x]
    <3>1. old \subseteq 1 .. l /\ IsFiniteSet(old)
      BY HistorySums
    <3>2. \A n \in 1 .. l : AmountOf[n] \in Nat /\ AmountOf[n] = history[n].amount
      BY HistorySums
    <3>3. \A n \in 1 .. l : AmountOf'[n] = history'[n].amount
      BY <1>1 DEF AmountOf
    <3>4. QED
      BY <1>1, <3>1, <3>2, <3>3
  <2>5. AmountOf'[l + 1] = e.amount /\ e.amount \in Nat
    BY <1>1 DEF AmountOf, Entries
  <2>6. Missing(kind, k, u, c)' = SumOver(AmountOf', new)
    BY DEF Missing
  <2>7. SumOver(AmountOf', old) = SumOver(AmountOf, old)
    BY <2>4, SumSame
  <2>8. Missing(kind, k, u, c) = SumOver(AmountOf, old)
    BY DEF Missing
  <2> DEFINE amounts == AmountOf'
  <2>9. SumOver(amounts, old \cup {l + 1}) = SumOver(amounts, old) + amounts[l + 1]
    <3>1. \A x \in old : amounts[x] \in Nat
      BY <2>4
    <3>2. amounts[l + 1] \in Nat
      BY <2>5
    <3> HIDE DEF amounts, old, l
    <3>3. QED
      BY <2>4, <3>1, <3>2, SumOneMore
  <2>10. Missing(kind, k, u, c) \in Nat
    BY HistorySums
  <2> HIDE DEF old, new
  <2>11. QED
    BY <2>3, <2>5, <2>6, <2>7, <2>8, <2>9, <2>10 DEF old, new
<1>6. ASSUME NEW kind, NEW u, NEW c
      PROVE  Missing(kind, Len(history), u, c)' = 0
  <2>1. Later(kind, Len(history), u, c)' = {}
    BY <1>1 DEF Later
  <2>2. SumOver(AmountOf', {}) = 0
    BY SumEmpty
  <2>3. QED
    BY <2>1, <2>2 DEF Missing
<1>7. ASSUME NEW c
      PROVE  CountOf(c)' = CountOf(c) + IF e.currency = c THEN 1 ELSE 0
  <2> DEFINE old == {n \in DOMAIN history : history[n].currency = c}
             new == {n \in DOMAIN history' : history'[n].currency = c}
  <2>1. CountOf(c) = Cardinality(old) /\ CountOf(c)' = Cardinality(new)
    BY DEF CountOf
  <2>2. IsFiniteSet(old) /\ Cardinality(old) \in Nat
    BY HistorySums, FS_CardinalityType
  <2>3. new = IF e.currency = c THEN old \cup {l + 1} ELSE old
    <3>1. \A n \in 1 .. l + 1 : n = l + 1 \/ n \in 1 .. l
      BY <1>1
    <3>2. l + 1 \in 1 .. l + 1 /\ \A n \in 1 .. l : n \in 1 .. l + 1
      BY <1>1
    <3> HIDE DEF l
    <3>3. QED
      BY <1>1, <3>1, <3>2
  <2>4. l + 1 \notin old
    BY <1>1
  <2> HIDE DEF old, new, l
  <2>5. Cardinality(old \cup {l + 1}) = Cardinality(old) + 1
    BY <2>2, <2>4, FS_AddElement
  <2>6. QED
    BY <2>1, <2>2, <2>3, <2>5
<1>8. \A u, c : \A k \in 0 .. l :
        Put(k, u, c)' = Put(k, u, c) /\ HeldAt(k, u, c)' = HeldAt(k, u, c)
  BY <1>2 DEF Put, HeldAt, Basis
<1>9. \A u, c :
        LET before == Earnings!costBasisOf(SubSeq(history, 1, l), u, c)
            after == IF Mine(e, u, c) THEN Earnings!Replay(before, e) ELSE before
        IN /\ Put(Len(history), u, c)' = after.contributed
           /\ HeldAt(Len(history), u, c)' = after.shares
  <2> TAKE u, c
  <2>1. /\ Put(Len(history), u, c)'
             = Earnings!costBasisOf(SubSeq(history', 1, l + 1), u, c).contributed
        /\ HeldAt(Len(history), u, c)'
             = Earnings!costBasisOf(SubSeq(history', 1, l + 1), u, c).shares
    BY <1>1 DEF Put, HeldAt, Basis
  <2>2. QED
    BY <1>3, <1>4, <2>1
<1>10. QED
  BY <1>1, <1>5, <1>6, <1>7, <1>8, <1>9

-----------------------------------------------------------------------------
(* The steps that move a bucket, by the event they log.                    *)
Deposited(e) ==
  /\ e \in Entries /\ e.kind = "deposit" /\ e.ts = now
  /\ e.shares = Earnings!MintShares(e.amount, Earnings!Total(e.currency), nav[e.currency])
  /\ shares' = [shares EXCEPT ![e.currency][e.who] = @ + e.shares]
  /\ nav' = [nav EXCEPT ![e.currency] = @ + e.amount]
  /\ history' = Append(history, e)
  /\ UNCHANGED <<now, gained, from, known, snaps, ticking, asked>>

Withdrawn(e) ==
  /\ e \in Entries /\ e.kind = "withdraw" /\ e.ts = now
  /\ e.shares \in 1 .. shares[e.currency][e.who] /\ e.amount = Redeems(e.shares, e.currency)
  /\ shares' = [shares EXCEPT ![e.currency][e.who] = @ - e.shares]
  /\ nav' = [nav EXCEPT ![e.currency] = @ - e.amount]
  /\ history' = Append(history, e)
  /\ UNCHANGED <<now, gained, from, known, snaps, ticking, asked>>

(* The actions Deposit and Withdraw are these.                             *)
LEMMA DepositIs ==
  ASSUME EarningsInv, NEW u \in Users, NEW c \in Priced, Earnings!Deposit(u, c)
  PROVE  \E e \in Entries : Deposited(e)
<1>1. PICK amount \in Amounts :
        LET minted == Earnings!MintShares(amount, Earnings!Total(c), nav[c])
        IN /\ shares' = [shares EXCEPT ![c][u] = @ + minted]
           /\ nav' = [nav EXCEPT ![c] = @ + amount]
           /\ Earnings!Logged("deposit", u, c, amount, minted)
  BY DEF Earnings!Deposit
<1> DEFINE minted == Earnings!MintShares(amount, Earnings!Total(c), nav[c])
           e == [kind |-> "deposit", who |-> u, currency |-> c, amount |-> amount,
                 shares |-> minted, ts |-> now]
<1>2. amount \in Nat /\ minted \in Nat /\ now \in Nat
  <2>1. AllNumbers /\ now \in Nat /\ VirtualOffset \in Nat \ {0}
    BY BackedNumbers, EarningsConstants DEF EarningsInv, Backed
  <2>2. amount \in Nat /\ nav[c] \in Nat /\ Earnings!Total(c) \in Nat
    BY <2>1, EarningsConstants DEF AllNumbers, Numbers
  <2>3. Prices!MintShares(amount, Earnings!Total(c), nav[c]) \in Nat
    BY <2>1, <2>2, Prices!MintBounds
  <2>4. minted \in Nat
    BY <2>3, SameMath
  <2>5. QED
    BY <2>1, <2>2, <2>4
<1> HIDE DEF minted
<1>3. e \in Entries
  BY <1>2 DEF Entries
<1>4. Deposited(e)
  BY <1>1, <1>3 DEF Deposited, Earnings!Logged, Earnings!serverVars, minted
<1>5. QED
  BY <1>3, <1>4

LEMMA WithdrawalIs ==
  ASSUME EarningsInv, NEW u \in Users, NEW c \in Priced, Earnings!Withdraw(u, c)
  PROVE  \E e \in Entries : Withdrawn(e)
<1>1. PICK burned \in {shares[c][u], shares[c][u] \div 2} \ {0} :
        LET amount == Earnings!RedeemAssets(burned, Earnings!Total(c), nav[c])
        IN /\ shares' = [shares EXCEPT ![c][u] = @ - burned]
           /\ nav' = [nav EXCEPT ![c] = @ - amount]
           /\ Earnings!Logged("withdraw", u, c, amount, burned)
  BY DEF Earnings!Withdraw
<1> DEFINE amount == Redeems(burned, c)
           e == [kind |-> "withdraw", who |-> u, currency |-> c, amount |-> amount,
                 shares |-> burned, ts |-> now]
<1>2. AllNumbers /\ now \in Nat
  BY BackedNumbers DEF EarningsInv, Backed
<1>3. burned \in 1 .. shares[c][u]
  <2>1. shares[c][u] \in Nat
    BY <1>2 DEF AllNumbers, Numbers
  <2>2. QED
    BY <2>1
<1>4. amount \in Nat
  <2>1. burned \in Nat
    BY <1>3
  <2>2. \A x \in Nat : Redeems(x, c) \in Nat
    BY <1>2 DEF AllNumbers, Numbers
  <2>3. QED
    BY <2>1, <2>2
<1>5. /\ shares' = [shares EXCEPT ![c][u] = @ - burned]
      /\ nav' = [nav EXCEPT ![c] = @ - amount]
      /\ Earnings!Logged("withdraw", u, c, amount, burned)
  BY <1>1 DEF Redeems
<1> HIDE DEF amount
<1>6. e \in Entries
  BY <1>2, <1>3, <1>4 DEF Entries
<1>7. Withdrawn(e)
  BY <1>3, <1>5, <1>6 DEF Withdrawn, Earnings!Logged, Earnings!serverVars, amount
<1>8. QED
  BY <1>6, <1>7

(* What the others hold, and every other bucket, stays.                    *)
OthersStay(e) ==
  \A d \in Priced :
    /\ d # e.currency => nav'[d] = nav[d] /\ Earnings!Total(d)' = Earnings!Total(d)
    /\ \A v \in Users : ~Mine(e, v, d) => shares'[d][v] = shares[d][v]

(* What an event moves, and what it leaves alone.                          *)
LEMMA DepositMoves ==
  ASSUME EarningsInv, NEW e \in Entries, Deposited(e)
  PROVE  /\ OthersStay(e)
         /\ shares'[e.currency][e.who] = shares[e.currency][e.who] + e.shares
         /\ nav'[e.currency] = nav[e.currency] + e.amount
         /\ Earnings!Total(e.currency)' = Earnings!Total(e.currency) + e.shares
<1> DEFINE c == e.currency
           u == e.who
<1>1. /\ c \in Priced /\ u \in Users /\ e.shares \in Nat /\ e.amount \in Nat
      /\ shares \in [Priced -> [Users -> Nat]] /\ nav \in [Priced -> Nat]
  BY DEF EarningsInv, Backed, Entries
<1>2. /\ shares' = [shares EXCEPT ![c][u] = @ + e.shares] /\ nav' = [nav EXCEPT ![c] = @ + e.amount]
  BY DEF Deposited
<1> HIDE DEF c, u
<1>3. /\ shares'[c][u] = shares[c][u] + e.shares /\ nav'[c] = nav[c] + e.amount
      /\ \A d \in Priced : d # c => nav'[d] = nav[d] /\ shares'[d] = shares[d]
      /\ \A d \in Priced, v \in Users : ~(d = c /\ v = u) => shares'[d][v] = shares[d][v]
  BY <1>1, <1>2
<1>4. Earnings!Total(c)' = Earnings!Total(c) + e.shares
  <2>1. SumOver(shares'[c], Users) = SumOver(shares[c], Users) - shares[c][u] + shares'[c][u]
    <3>1. \A v \in Users : shares[c][v] \in Nat
      BY <1>1
    <3>2. \A v \in Users : shares'[c][v] \in Nat
      BY <1>1, <1>3, <3>1
    <3>3. \A v \in Users \ {u} : shares'[c][v] = shares[c][v]
      BY <1>1, <1>3
    <3> DEFINE f == shares[c]
               g == shares'[c]
    <3>4. /\ \A v \in Users : f[v] \in Nat
          /\ \A v \in Users : g[v] \in Nat
          /\ \A v \in Users \ {u} : g[v] = f[v]
      BY <3>1, <3>2, <3>3
    <3> HIDE DEF f, g
    <3>5. SumOver(g, Users) = SumOver(f, Users) - f[u] + g[u]
      <4>1. IsFiniteSet(Users) /\ u \in Users
        BY <1>1, EarningsConstants
      <4>2. QED
        BY <3>4, <4>1, SumChange
    <3>6. QED
      BY <3>5 DEF f, g
  <2>2. SumOver(shares[c], Users) \in Nat /\ shares[c][u] \in Nat
    BY <1>1, EarningsConstants, SumType
  <2>3. /\ Earnings!Total(c)' = SumOver(shares'[c], Users)
        /\ Earnings!Total(c) = SumOver(shares[c], Users)
    BY SameSum DEF Earnings!Total
  <2>4. QED
    BY <1>1, <1>3, <2>1, <2>2, <2>3
<1>5. OthersStay(e)
  BY <1>3 DEF OthersStay, Mine, c, u, Earnings!Total
<1>6. QED
  BY <1>3, <1>4, <1>5 DEF c, u

LEMMA WithdrawalMoves ==
  ASSUME EarningsInv, NEW e \in Entries, Withdrawn(e)
  PROVE  /\ OthersStay(e)
         /\ shares'[e.currency][e.who] = shares[e.currency][e.who] - e.shares
         /\ nav'[e.currency] = nav[e.currency] - e.amount
         /\ Earnings!Total(e.currency)' = Earnings!Total(e.currency) - e.shares
<1> DEFINE c == e.currency
           u == e.who
<1>1. /\ c \in Priced /\ u \in Users /\ e.shares \in Nat /\ e.amount \in Nat
      /\ e.shares <= shares[c][u]
      /\ shares \in [Priced -> [Users -> Nat]] /\ nav \in [Priced -> Nat]
  <2>1. e.shares \in 1 .. shares[c][u]
    BY DEF Withdrawn
  <2>2. QED
    BY <2>1 DEF EarningsInv, Backed, Entries
<1>2. /\ shares' = [shares EXCEPT ![c][u] = @ - e.shares] /\ nav' = [nav EXCEPT ![c] = @ - e.amount]
  BY DEF Withdrawn
<1> HIDE DEF c, u
<1>3. /\ shares'[c][u] = shares[c][u] - e.shares /\ nav'[c] = nav[c] - e.amount
      /\ \A d \in Priced : d # c => nav'[d] = nav[d] /\ shares'[d] = shares[d]
      /\ \A d \in Priced, v \in Users : ~(d = c /\ v = u) => shares'[d][v] = shares[d][v]
  BY <1>1, <1>2
<1>4. Earnings!Total(c)' = Earnings!Total(c) - e.shares
  <2>1. SumOver(shares'[c], Users) = SumOver(shares[c], Users) - shares[c][u] + shares'[c][u]
    <3>1. \A v \in Users : shares[c][v] \in Nat
      BY <1>1
    <3>2. shares'[c][u] \in Nat
      BY <1>1, <1>3
    <3>3. \A v \in Users : shares'[c][v] \in Nat
      BY <1>1, <1>3, <3>1, <3>2
    <3>4. \A v \in Users \ {u} : shares'[c][v] = shares[c][v]
      BY <1>1, <1>3
    <3> DEFINE f == shares[c]
               g == shares'[c]
    <3>5. /\ \A v \in Users : f[v] \in Nat
          /\ \A v \in Users : g[v] \in Nat
          /\ \A v \in Users \ {u} : g[v] = f[v]
      BY <3>1, <3>3, <3>4
    <3> HIDE DEF f, g
    <3>6. SumOver(g, Users) = SumOver(f, Users) - f[u] + g[u]
      <4>1. IsFiniteSet(Users) /\ u \in Users
        BY <1>1, EarningsConstants
      <4>2. QED
        BY <3>5, <4>1, SumChange
    <3>7. QED
      BY <3>6 DEF f, g
  <2>2. SumOver(shares[c], Users) \in Nat /\ shares[c][u] \in Nat
    BY <1>1, EarningsConstants, SumType
  <2>3. /\ Earnings!Total(c)' = SumOver(shares'[c], Users)
        /\ Earnings!Total(c) = SumOver(shares[c], Users)
    BY SameSum DEF Earnings!Total
  <2>4. QED
    BY <1>1, <1>3, <2>1, <2>2, <2>3
<1>5. OthersStay(e)
  BY <1>3 DEF OthersStay, Mine, c, u, Earnings!Total
<1>6. QED
  BY <1>3, <1>4, <1>5 DEF c, u

(* No step of the chain lowers the price of a share.                       *)
AllWorthier == \A c \in Priced : Worthier(c)

(* No step lowers what shares redeem for.                                  *)
LEMMA SamePriceIsWorthier ==
  ASSUME AllNumbers, NEW c \in Priced,
         nav'[c] = nav[c], Earnings!Total(c)' = Earnings!Total(c)
  PROVE  Worthier(c)
<1>1. /\ \A x : Redeems(x, c)' = Redeems(x, c)
      /\ PriceOf(c)' = PriceOf(c)
  BY DEF Redeems, PriceOf, Earnings!RedeemAssets, Earnings!PriceAbove
<1>2. (\A x \in Nat : Redeems(x, c) \in Nat) /\ PriceOf(c) \in Nat
  BY DEF AllNumbers, Numbers
<1>3. QED
  BY <1>1, <1>2 DEF Worthier

LEMMA DepositWorthier ==
  ASSUME EarningsInv, AllNumbers, AllNumbers', NEW e \in Entries, Deposited(e)
  PROVE  AllWorthier
<1> SUFFICES ASSUME NEW c \in Priced PROVE Worthier(c)
  BY DEF AllWorthier
<1>1. CASE c # e.currency
  BY <1>1, DepositMoves, SamePriceIsWorthier DEF OthersStay
<1>2. CASE c = e.currency
  <2> DEFINE t == Earnings!Total(c)
             n == nav[c]
  <2>1. /\ t \in Nat /\ n \in Nat /\ e.amount \in Nat /\ VirtualOffset \in Nat \ {0}
    BY EarningsConstants DEF AllNumbers, Numbers, Entries
  <2>2. /\ e.shares = Prices!MintShares(e.amount, t, n)
        /\ nav'[c] = n + e.amount /\ Earnings!Total(c)' = t + e.shares
    <3>1. e.shares = Earnings!MintShares(e.amount, t, n)
      BY <1>2 DEF Deposited
    <3>2. nav'[e.currency] = nav[e.currency] + e.amount
          /\ Earnings!Total(e.currency)' = Earnings!Total(e.currency) + e.shares
      BY DepositMoves
    <3>3. nav'[c] = n + e.amount /\ Earnings!Total(c)' = t + e.shares
      BY <1>2, <3>2
    <3>4. QED
      BY <3>1, <3>3, SameMath
  <2> HIDE DEF t, n
  <2>3. ((n + e.amount) + VirtualOffset) * (t + VirtualOffset)
          >= (n + VirtualOffset) * ((t + e.shares) + VirtualOffset)
    BY <2>1, <2>2, Prices!MintKeepsPrice
  <2>4. QED
    BY <2>2, <2>3, PriceMakesWorthier DEF t, n
<1>3. QED
  BY <1>1, <1>2

LEMMA WithdrawalWorthier ==
  ASSUME EarningsInv, AllNumbers, AllNumbers', NEW e \in Entries, Withdrawn(e)
  PROVE  AllWorthier
<1> SUFFICES ASSUME NEW c \in Priced PROVE Worthier(c)
  BY DEF AllWorthier
<1>1. CASE c # e.currency
  BY <1>1, WithdrawalMoves, SamePriceIsWorthier DEF OthersStay
<1>2. CASE c = e.currency
  <2> DEFINE t == Earnings!Total(c)
             n == nav[c]
  <2>1. /\ t \in Nat /\ n \in Nat /\ e.shares \in Nat /\ VirtualOffset \in Nat \ {0}
    BY EarningsConstants DEF AllNumbers, Numbers, Entries
  <2>2. /\ e.amount = Prices!RedeemAssets(e.shares, t, n)
        /\ nav'[c] = n - e.amount /\ Earnings!Total(c)' = t - e.shares
    <3>1. e.amount = Earnings!RedeemAssets(e.shares, t, n)
      BY <1>2 DEF Withdrawn, Redeems
    <3>2. nav'[e.currency] = nav[e.currency] - e.amount
          /\ Earnings!Total(e.currency)' = Earnings!Total(e.currency) - e.shares
      BY WithdrawalMoves
    <3>3. nav'[c] = n - e.amount /\ Earnings!Total(c)' = t - e.shares
      BY <1>2, <3>2
    <3>4. QED
      BY <3>1, <3>3, SameMath
  <2> HIDE DEF t, n
  <2>3. ((n - e.amount) + VirtualOffset) * (t + VirtualOffset)
          >= (n + VirtualOffset) * ((t - e.shares) + VirtualOffset)
    BY <2>1, <2>2, Prices!RedeemKeepsPrice
  <2>4. QED
    BY <2>2, <2>3, PriceMakesWorthier DEF t, n
<1>3. QED
  BY <1>1, <1>2

-----------------------------------------------------------------------------
(* What a position was paid in, against what it is worth: never more than  *)
(* that and what was withdrawn since, but for dust; and what was put in    *)
(* since the k-th event is no more than the deposits since, and, without   *)
(* withdrawals, than the shares minted since redeem for, but for dust.     *)
DustOf(c) == CountOf(c) * PriceOf(c)

Short(u, c) ==
  /\ Put(Len(history), u, c) \in Nat
  /\ Put(Len(history), u, c) <= Value(u, c) + DustOf(c)

Since(k, u, c) == Redeems(shares[c][u] - HeldAt(k, u, c), c)

PositionAt(k, u, c) ==
  /\ Put(k, u, c) \in Nat /\ HeldAt(k, u, c) \in Nat
  /\ Put(k, u, c) <= Value(u, c) + Missing("withdraw", k, u, c) + DustOf(c)
  /\ Put(Len(history), u, c) <= Put(k, u, c) + Missing("deposit", k, u, c)
  /\ Later("withdraw", k, u, c) = {} =>
       /\ HeldAt(k, u, c) <= shares[c][u]
       /\ Put(Len(history), u, c) <= Put(k, u, c) + Since(k, u, c) + DustOf(c)

Position(u, c) == Short(u, c) /\ \A k \in 0 .. Len(history) : PositionAt(k, u, c)

(* The lesser of what was paid in and what it is worth.                    *)
Kept(u, c) ==
  IF Put(Len(history), u, c) <= Value(u, c) THEN Put(Len(history), u, c) ELSE Value(u, c)

(* At the last event there is nothing since.                               *)
LastOfShort ==
  \A u \in Users, c \in Priced :
    /\ CountOf(c) \in Nat /\ DustOf(c) \in Nat /\ Value(u, c) \in Nat
    /\ Short(u, c) => PositionAt(Len(history), u, c)

LEMMA ShortIsLast == Backed /\ Booked => LastOfShort
<1> SUFFICES ASSUME Backed, Booked, NEW u \in Users, NEW c \in Priced
             PROVE  /\ CountOf(c) \in Nat /\ DustOf(c) \in Nat /\ Value(u, c) \in Nat
                    /\ Short(u, c) => PositionAt(Len(history), u, c)
  BY DEF LastOfShort
<1>1. /\ shares[c][u] \in Nat /\ PriceOf(c) \in Nat /\ Redeems(0, c) \in Nat
      /\ Value(u, c) \in Nat
  BY BackedNumbers DEF AllNumbers, Numbers, Value
<1>2. CountOf(c) \in Nat /\ \A kind : Missing(kind, Len(history), u, c) = 0
  BY HistorySums DEF Booked
<1>3. DustOf(c) \in Nat
  BY <1>1, <1>2 DEF DustOf
<1>4. SubSeq(history, 1, Len(history)) = history
  BY DEF Booked
<1>5. HeldAt(Len(history), u, c) = shares[c][u]
  BY <1>4 DEF HeldAt, Booked
<1>6. Since(Len(history), u, c) = Redeems(0, c)
  <2>1. shares[c][u] - HeldAt(Len(history), u, c) = 0
    BY <1>1, <1>5
  <2>2. QED
    BY <2>1 DEF Since
<1>7. ASSUME Short(u, c) PROVE PositionAt(Len(history), u, c)
  BY <1>1, <1>2, <1>3, <1>5, <1>6, <1>7 DEF Short, PositionAt
<1>8. QED
  BY <1>1, <1>2, <1>3, <1>7

(* One more rounding at a price that has not fallen.                       *)
LEMMA RoundedMore ==
  ASSUME NEW n \in Nat, NEW m \in Nat, NEW q \in Nat, NEW r \in Nat, q <= r
  PROVE  /\ n <= m => n * q <= m * r
         /\ n + 1 <= m => n * q + r <= m * r
<1>1. n * q <= n * r
  OBVIOUS
<1>2. n <= m => n * r <= m * r
  OBVIOUS
<1>3. n + 1 <= m => (n + 1) * r <= m * r
  OBVIOUS
<1>4. (n + 1) * r = n * r + r /\ n * r \in Nat /\ n * q \in Nat /\ m * r \in Nat
  OBVIOUS
<1>5. QED
  BY <1>1, <1>2, <1>3, <1>4

(* Dust only grows, and with an event by the price of a share.             *)
LEMMA DustGrows ==
  ASSUME Backed, Booked, AllNumbers, AllNumbers', NEW c \in Priced, Worthier(c),
         CountOf(c)' \in Nat
  PROVE  /\ CountOf(c) <= CountOf(c)' => DustOf(c) <= DustOf(c)'
         /\ CountOf(c) + 1 <= CountOf(c)' => DustOf(c) + PriceOf(c)' <= DustOf(c)'
<1>1. CountOf(c) \in Nat
  BY HistorySums DEF Booked
<1>2. PriceOf(c) \in Nat /\ PriceOf(c)' \in Nat /\ PriceOf(c) <= PriceOf(c)'
  BY DEF AllNumbers, Numbers, Worthier
<1>3. DustOf(c) = CountOf(c) * PriceOf(c) /\ DustOf(c)' = CountOf(c)' * PriceOf(c)'
  BY DEF DustOf
<1>4. QED
  BY <1>1, <1>2, <1>3, RoundedMore

(* A position that the step does not touch.                                *)
Aside(u, c) ==
  /\ shares'[c][u] = shares[c][u]
  /\ Put(Len(history), u, c)' = Put(Len(history), u, c)
  /\ \A k \in 0 .. Len(history) :
       /\ Put(k, u, c)' = Put(k, u, c) /\ HeldAt(k, u, c)' = HeldAt(k, u, c)
       /\ \A kind : Missing(kind, k, u, c)' = Missing(kind, k, u, c)
       /\ Later("withdraw", k, u, c) \subseteq Later("withdraw", k, u, c)'
  /\ CountOf(c)' \in Nat /\ CountOf(c) <= CountOf(c)'

(* A position that a step does not touch is kept by it.                    *)
LEMMA AsideKeeps ==
  ASSUME Backed, Booked, AllNumbers, AllNumbers', NEW u \in Users, NEW c \in Priced,
         Worthier(c), Aside(u, c), Position(u, c)
  PROVE  /\ Short(u, c)' /\ \A k \in 0 .. Len(history) : PositionAt(k, u, c)'
         /\ Kept(u, c) \in Nat /\ Kept(u, c)' \in Nat /\ Kept(u, c) <= Kept(u, c)'
<1>1. shares[c][u] \in Nat /\ DustOf(c) \in Nat
  BY ShortIsLast DEF AllNumbers, Numbers, LastOfShort
<1>0. \A x \in Nat : Redeems(x, c) \in Nat /\ Redeems(x, c)' \in Nat
  BY DEF AllNumbers, Numbers
<1>2. DustOf(c) <= DustOf(c)' /\ DustOf(c)' \in Nat
  <2>1. DustOf(c) <= DustOf(c)'
    BY DustGrows DEF Aside
  <2>2. CountOf(c)' \in Nat /\ PriceOf(c)' \in Nat
    BY DEF Aside, AllNumbers, Numbers
  <2>3. QED
    BY <2>1, <2>2 DEF DustOf
<1>3. Value(u, c) \in Nat /\ Value(u, c)' \in Nat /\ Value(u, c) <= Value(u, c)'
  BY <1>0, <1>1 DEF Value, Aside, Worthier
<1>4. Short(u, c)'
  BY <1>1, <1>2, <1>3 DEF Position, Short, Aside
<1>5. ASSUME NEW k \in 0 .. Len(history)
      PROVE  PositionAt(k, u, c)'
  <2>1. PositionAt(k, u, c)
    BY DEF Position
  <2>2. Missing("withdraw", k, u, c) \in Nat /\ Missing("deposit", k, u, c) \in Nat
    BY HistorySums DEF Booked
  <2>3. /\ Put(k, u, c)' = Put(k, u, c) /\ HeldAt(k, u, c)' = HeldAt(k, u, c)
        /\ Missing("withdraw", k, u, c)' = Missing("withdraw", k, u, c)
        /\ Missing("deposit", k, u, c)' = Missing("deposit", k, u, c)
        /\ Later("withdraw", k, u, c)' = {} => Later("withdraw", k, u, c) = {}
        /\ shares'[c][u] = shares[c][u]
        /\ Put(Len(history), u, c)' = Put(Len(history), u, c)
        /\ Put(Len(history), u, c) \in Nat
    BY DEF Aside, Position, Short
  <2>4. ASSUME Later("withdraw", k, u, c)' = {}
        PROVE  /\ HeldAt(k, u, c)' <= shares'[c][u]
               /\ Put(Len(history), u, c)'
                    <= Put(k, u, c)' + Since(k, u, c)' + DustOf(c)'
    <3>1. /\ HeldAt(k, u, c) \in Nat /\ HeldAt(k, u, c) <= shares[c][u]
          /\ Put(Len(history), u, c) <= Put(k, u, c) + Since(k, u, c) + DustOf(c)
          /\ Put(k, u, c) \in Nat
      BY <2>1, <2>3, <2>4 DEF PositionAt
    <3>2. shares[c][u] - HeldAt(k, u, c) \in Nat
      BY <1>1, <3>1
    <3>3. Since(k, u, c) \in Nat /\ Since(k, u, c)' \in Nat /\ Since(k, u, c) <= Since(k, u, c)'
      BY <1>0, <2>3, <3>2 DEF Since, Worthier
    <3>4. QED
      BY <1>1, <1>2, <2>3, <3>1, <3>3
  <2>5. /\ Put(k, u, c) \in Nat /\ HeldAt(k, u, c) \in Nat
        /\ Put(k, u, c) <= Value(u, c) + Missing("withdraw", k, u, c) + DustOf(c)
        /\ Put(Len(history), u, c) <= Put(k, u, c) + Missing("deposit", k, u, c)
    BY <2>1 DEF PositionAt
  <2>6. Put(k, u, c)' <= Value(u, c)' + Missing("withdraw", k, u, c)' + DustOf(c)'
    <3>1. /\ Put(k, u, c)' = Put(k, u, c)
          /\ Missing("withdraw", k, u, c)' = Missing("withdraw", k, u, c)
      BY <2>3
    <3>2. Put(k, u, c) <= Value(u, c) + Missing("withdraw", k, u, c) + DustOf(c)
      BY <2>5
    <3>3. /\ DustOf(c) \in Nat /\ DustOf(c)' \in Nat /\ DustOf(c) <= DustOf(c)'
          /\ Missing("withdraw", k, u, c) \in Nat /\ Put(k, u, c) \in Nat
      BY <1>1, <1>2, <2>2, <2>5
    <3>4. QED
      BY <1>3, <3>1, <3>2, <3>3
  <2>7. Put(Len(history), u, c)' <= Put(k, u, c)' + Missing("deposit", k, u, c)'
    BY <2>3, <2>5
  <2>8. Put(k, u, c)' \in Nat /\ HeldAt(k, u, c)' \in Nat
    BY <2>3, <2>5
  <2>9. QED
    BY <2>4, <2>6, <2>7, <2>8 DEF PositionAt
<1>6. Kept(u, c) \in Nat /\ Kept(u, c)' \in Nat /\ Kept(u, c) <= Kept(u, c)'
  <2>1. Put(Len(history), u, c)' = Put(Len(history), u, c) /\ Put(Len(history), u, c) \in Nat
    BY DEF Aside, Position, Short
  <2>2. QED
    BY <1>3, <2>1 DEF Kept
<1>7. QED
  BY <1>4, <1>5, <1>6

-----------------------------------------------------------------------------
(* What a deposit adds to a position is worth what was paid, but for less  *)
(* than a share; and what a withdrawal takes from it was paid out, but for *)
(* a unit.                                                                 *)
LEMMA DepositIsWorth ==
  ASSUME AllNumbers, AllNumbers', NEW e \in Entries, Deposited(e), Worthier(e.currency)
  PROVE  \A x \in Nat :
           Redeems(x, e.currency) + e.amount
             <= Redeems(x + e.shares, e.currency)' + PriceOf(e.currency)'
<1> DEFINE c == e.currency
           q == PriceOf(c)
           r == PriceOf(c)'
<1>1. c \in Priced /\ e.amount \in Nat /\ e.shares \in Nat
  BY DEF Entries
<1>2. /\ \A x \in Nat : Redeems(x, c) \in Nat /\ Redeems(x, c)' \in Nat
      /\ \A x, y \in Nat : Redeems(x, c)' + Redeems(y, c)' <= Redeems(x + y, c)'
      /\ \A x \in Nat : Redeems(x, c) <= Redeems(x, c)'
  BY <1>1 DEF AllNumbers, Numbers, Worthier
<1>3. q \in Nat /\ r \in Nat /\ q <= r
  BY <1>1 DEF AllNumbers, Numbers, Worthier
<1>4. e.amount - q <= Redeems(e.shares, c)
  <2> DEFINE t == Earnings!Total(c)
             n == nav[c]
  <2>1. t \in Nat /\ n \in Nat /\ VirtualOffset \in Nat \ {0}
    BY <1>1, EarningsConstants DEF AllNumbers, Numbers
  <2>2. /\ e.shares = Prices!MintShares(e.amount, t, n) /\ q = Prices!PriceAbove(t, n)
        /\ Redeems(e.shares, c) = Prices!RedeemAssets(e.shares, t, n)
    BY SameMath DEF Deposited, PriceOf, Redeems
  <2> HIDE DEF t, n, q, c
  <2>3. e.amount - Prices!PriceAbove(t, n)
          <= Prices!RedeemAssets(Prices!MintShares(e.amount, t, n), t, n)
    BY <1>1, <2>1, Prices!MintIsWorth
  <2>4. QED
    BY <2>2, <2>3
<1> HIDE DEF c, q, r
<1>5. ASSUME NEW x \in Nat
      PROVE  Redeems(x, c) + e.amount <= Redeems(x + e.shares, c)' + r
  <2>1. /\ Redeems(x, c)' + Redeems(e.shares, c)' <= Redeems(x + e.shares, c)'
        /\ Redeems(x, c) <= Redeems(x, c)' /\ Redeems(e.shares, c) <= Redeems(e.shares, c)'
    BY <1>1, <1>2
  <2>2. /\ Redeems(x, c) \in Nat /\ Redeems(x, c)' \in Nat
        /\ Redeems(e.shares, c) \in Nat /\ Redeems(e.shares, c)' \in Nat
    BY <1>1, <1>2
  <2>3. Redeems(x + e.shares, c)' \in Nat
    <3>1. x + e.shares \in Nat
      BY <1>1
    <3>2. QED
      BY <1>2, <3>1
  <2>4. QED
    BY <1>1, <1>3, <1>4, <2>1, <2>2, <2>3
<1>6. QED
  BY <1>5 DEF c, r

(* A deposit keeps the position of its owner.                              *)
LEMMA DepositKeeps ==
  ASSUME EarningsInv, AllNumbers, AllNumbers', NEW e \in Entries, Deposited(e),
         NEW u \in Users, NEW c \in Priced, Mine(e, u, c), Worthier(c), Position(u, c)
  PROVE  /\ Short(u, c)' /\ \A k \in 0 .. Len(history) : PositionAt(k, u, c)'
         /\ Kept(u, c) \in Nat /\ Kept(u, c)' \in Nat
         /\ Kept(u, c) + e.amount <= Kept(u, c)' + PriceOf(c)'
         /\ DustOf(c) + PriceOf(c)' <= DustOf(c)'
<1>0. PICK s : s = shares[c][u]
  OBVIOUS
<1> DEFINE a == e.amount
           P == Put(Len(history), u, c)
           PP == Put(Len(history), u, c)'
           v == Value(u, c)
           vv == Value(u, c)'
           q == PriceOf(c)'
           D == DustOf(c)
           DD == DustOf(c)'
<1>1. /\ e.who = u /\ e.currency = c /\ a \in Nat /\ e.shares \in Nat
      /\ Backed /\ Booked /\ history \in Seq(Entries) /\ history' = Append(history, e)
      /\ e.kind = "deposit"
  BY DEF Mine, Entries, EarningsInv, Booked, Deposited
<1>2. s \in Nat /\ q \in Nat /\ D \in Nat /\ v \in Nat
  BY <1>0, <1>1, ShortIsLast DEF AllNumbers, Numbers, LastOfShort
<1>3. shares'[c][u] = s + e.shares
  BY <1>0, <1>1, DepositMoves
<1>4. D + q <= DD /\ DD \in Nat
  <2>1. CountOf(c) \in Nat /\ CountOf(c)' = CountOf(c) + 1
    BY <1>1, HistorySums, OneMoreEvent
  <2>2. CountOf(c)' \in Nat /\ CountOf(c) + 1 <= CountOf(c)'
    BY <2>1
  <2>3. D + q <= DD
    BY <1>1, <2>2, DustGrows
  <2>4. DD \in Nat
    BY <1>2, <2>2 DEF DustOf
  <2>5. QED
    BY <2>3, <2>4
<1>5. \A x \in Nat : Redeems(x, c) + a <= Redeems(x + e.shares, c)' + q
  BY <1>1, DepositIsWorth
<1>6. \A x \in Nat : Redeems(x, c) \in Nat /\ Redeems(x, c)' \in Nat
  BY DEF AllNumbers, Numbers
<1>7. /\ vv \in Nat /\ v + a <= vv + q /\ v <= vv
  <2>1. s + e.shares \in Nat /\ v = Redeems(s, c) /\ vv = Redeems(s + e.shares, c)'
    BY <1>0, <1>1, <1>2, <1>3 DEF Value
  <2>2. Redeems(s, c) <= Redeems(s, c)'
    BY <1>2 DEF Worthier
  <2>3. Redeems(s, c)' <= Redeems(s + e.shares, c)'
    <3>1. s <= s + e.shares
      BY <1>1, <1>2
    <3>2. \A x, y \in Nat : x <= y => Redeems(x, c)' <= Redeems(y, c)'
      BY DEF AllNumbers, Numbers
    <3>3. QED
      BY <1>2, <2>1, <3>1, <3>2
  <2>4. Redeems(s, c)' \in Nat
    BY <1>2, <1>6
  <2>5. vv \in Nat
    BY <1>6, <2>1
  <2>6. v <= vv
    BY <1>2, <2>1, <2>2, <2>3, <2>4, <2>5
  <2>7. v + a <= vv + q
    BY <1>2, <1>5, <2>1
  <2>8. QED
    BY <2>5, <2>6, <2>7
<1>8. P \in Nat /\ P <= v + D
  BY DEF Position, Short
<1>9. PP = P + a
  <2>1. PP = Earnings!Replay(Earnings!costBasisOf(SubSeq(history, 1, Len(history)), u, c), e).contributed
    BY <1>1, OneMoreEvent
  <2>2. QED
    BY <1>1, <2>1 DEF Earnings!Replay, Put
<1> HIDE DEF a, P, PP, v, vv, q, D, DD
<1>10. Short(u, c)'
  <2>1. PP \in Nat /\ PP <= vv + DD
    BY <1>1, <1>2, <1>4, <1>7, <1>8, <1>9
  <2>2. QED
    BY <2>1 DEF Short, PP, vv, DD
<1>11. ASSUME NEW k \in 0 .. Len(history)
       PROVE  PositionAt(k, u, c)'
  <2> DEFINE p == Put(k, u, c)
             h == HeldAt(k, u, c)
             mw == Missing("withdraw", k, u, c)
             md == Missing("deposit", k, u, c)
  <2>1. /\ p \in Nat /\ h \in Nat /\ p <= v + mw + D /\ P <= p + md
    BY DEF Position, PositionAt, v, D, P
  <2>2. mw \in Nat /\ md \in Nat
    BY <1>1, HistorySums
  <2>3. Put(k, u, c)' = p /\ HeldAt(k, u, c)' = h
    BY <1>1, OneMoreEvent
  <2>4. Missing("withdraw", k, u, c)' = mw /\ Missing("deposit", k, u, c)' = md + a
    <3>1. Mine(e, u, c)
      OBVIOUS
    <3>2. /\ Missing("withdraw", k, u, c)' = mw + 0
          /\ Missing("deposit", k, u, c)' = md + e.amount
      BY <1>1, <3>1, OneMoreEvent
    <3>3. QED
      BY <2>2, <3>2 DEF a
  <2>5. ASSUME Later("withdraw", k, u, c)' = {}
        PROVE  h <= s + e.shares /\ PP <= p + Since(k, u, c)' + DD
    <3>1. Later("withdraw", k, u, c) \subseteq Later("withdraw", k, u, c)'
      BY <1>1, OneMoreEvent
    <3>2. Later("withdraw", k, u, c) = {}
      BY <2>5, <3>1
    <3>3. h <= s /\ P <= p + Since(k, u, c) + D
      BY <1>0, <3>2 DEF Position, PositionAt, P, D
    <3>0. PICK x : x = s - h
      OBVIOUS
    <3>4. x \in Nat /\ (s + e.shares) - h = x + e.shares
      BY <1>1, <1>2, <2>1, <3>0, <3>3
    <3>5. Since(k, u, c) = Redeems(x, c) /\ Since(k, u, c)' = Redeems(x + e.shares, c)'
      <4>1. shares'[c][u] - HeldAt(k, u, c)' = x + e.shares
        BY <1>3, <2>3, <3>4
      <4>2. QED
        BY <1>0, <3>0, <4>1 DEF Since
    <3>6. x + e.shares \in Nat
      BY <1>1, <3>4
    <3> HIDE DEF p, h
    <3>7. Redeems(x, c) + a <= Redeems(x + e.shares, c)' + q
      BY <1>5, <3>4
    <3>8. Redeems(x, c) \in Nat /\ Redeems(x + e.shares, c)' \in Nat
      BY <1>6, <3>4, <3>6
    <3>9. PP <= p + Redeems(x + e.shares, c)' + DD
      <4> DEFINE y == Redeems(x, c)
                 yy == Redeems(x + e.shares, c)'
      <4>1. y \in Nat /\ yy \in Nat /\ y + a <= yy + q /\ P <= p + y + D
        BY <3>3, <3>5, <3>7, <3>8
      <4> HIDE DEF y, yy
      <4>2. PP <= p + yy + DD
        BY <1>1, <1>2, <1>4, <1>8, <1>9, <2>1, <4>1
      <4>3. QED
        BY <4>2 DEF yy
    <3>10. h <= s + e.shares
      BY <1>1, <1>2, <2>1, <3>3
    <3>11. QED
      BY <3>5, <3>9, <3>10
  <2> HIDE DEF p, h, mw, md
  <2>6. p <= vv + mw + DD
    BY <1>2, <1>4, <1>7, <2>1, <2>2
  <2>7. PP <= p + (md + a)
    BY <1>1, <1>8, <1>9, <2>1, <2>2
  <2>8. QED
    BY <1>3, <2>1, <2>3, <2>4, <2>5, <2>6, <2>7 DEF PositionAt, PP, vv, DD
<1>12. /\ Kept(u, c) \in Nat /\ Kept(u, c)' \in Nat /\ Kept(u, c) + a <= Kept(u, c)' + q
  <2>1. Kept(u, c) = IF P <= v THEN P ELSE v
    BY DEF Kept, P, v
  <2>2. Kept(u, c)' = IF PP <= vv THEN PP ELSE vv
    BY DEF Kept, PP, vv
  <2>3. QED
    BY <1>1, <1>2, <1>7, <1>8, <1>9, <2>1, <2>2
<1>13. QED
  BY <1>4, <1>10, <1>11, <1>12 DEF a, q, D, DD

-----------------------------------------------------------------------------
(* What a withdrawal leaves of a position, at the new price.               *)
LEMMA WithdrawalIsWorth ==
  ASSUME AllNumbers, AllNumbers', NEW e \in Entries, Withdrawn(e), Worthier(e.currency),
         NEW held \in Nat, held = shares[e.currency][e.who]
  PROVE  /\ held # 0 /\ e.shares \in 0 .. held /\ e.amount \in Nat \ {0}
         /\ Redeems(held, e.currency) - e.amount
              <= Prices!Rest(Redeems(held, e.currency), e.shares, held)
         /\ Prices!Rest(Redeems(held, e.currency), e.shares, held)
              <= Redeems(held - e.shares, e.currency)' + 1
<1>0. PICK c : c = e.currency
  OBVIOUS
<1> DEFINE t == Earnings!Total(c)
           n == nav[c]
<1>1. c \in Priced /\ e.amount \in Nat /\ e.shares \in Nat
  BY <1>0 DEF Entries
<1>2. e.shares \in 1 .. held
  BY DEF Withdrawn
<1>3. /\ \A x \in Nat : Redeems(x, c) \in Nat /\ Redeems(x, c)' \in Nat
      /\ \A x \in Nat : Redeems(x, c) <= Redeems(x, c)'
      /\ \A x \in Nat \ {0} : Redeems(x, c) # 0
  BY <1>0, <1>1 DEF AllNumbers, Numbers, Worthier
<1>4. t \in Nat /\ n \in Nat /\ VirtualOffset \in Nat \ {0}
  BY <1>1, EarningsConstants DEF AllNumbers, Numbers
<1>5. \A x : Redeems(x, c) = Prices!RedeemAssets(x, t, n)
  BY SameMath DEF Redeems
<1>6. e.amount = Redeems(e.shares, c)
  BY <1>0 DEF Withdrawn
<1>7. held \in Nat \ {0} /\ e.shares \in 0 .. held /\ e.shares \in Nat \ {0}
  BY <1>2
<1> HIDE DEF t, n
<1>8. /\ Prices!RedeemAssets(held, t, n) - Prices!RedeemAssets(e.shares, t, n)
           <= Prices!Rest(Prices!RedeemAssets(held, t, n), e.shares, held)
      /\ Prices!Rest(Prices!RedeemAssets(held, t, n), e.shares, held)
           <= Prices!RedeemAssets(held - e.shares, t, n) + 1
  BY <1>4, <1>7, Prices!RestIsWorth
<1>9. /\ Redeems(held, c) - e.amount <= Prices!Rest(Redeems(held, c), e.shares, held)
      /\ Prices!Rest(Redeems(held, c), e.shares, held) <= Redeems(held - e.shares, c) + 1
  BY <1>5, <1>6, <1>8
<1>10. PICK left : left = held - e.shares
  OBVIOUS
<1>11. left \in Nat
  BY <1>7, <1>10
<1>12. Redeems(left, c) \in Nat /\ Redeems(left, c)' \in Nat /\ Redeems(left, c) <= Redeems(left, c)'
  BY <1>3, <1>11
<1>13. Prices!Rest(Redeems(held, c), e.shares, held) \in 0 .. Redeems(held, c)
  <2>1. Redeems(held, c) \in Nat
    BY <1>3
  <2>2. PICK w \in Nat : w = Redeems(held, c)
    BY <2>1
  <2>3. 0 \in Nat
    OBVIOUS
  <2>4. Prices!Rest(w, e.shares, held) \in 0 .. w
    BY <1>4, <1>7, <2>3, Prices!RestBounds
  <2>5. QED
    BY <2>2, <2>4
<1>14. Prices!Rest(Redeems(held, c), e.shares, held) <= Redeems(left, c)' + 1
  BY <1>9, <1>10, <1>12, <1>13
<1>15. Redeems(held - e.shares, c)' = Redeems(left, c)'
  BY <1>10
<1>16. e.amount # 0
  BY <1>3, <1>6, <1>7
<1>17. QED
  BY <1>0, <1>1, <1>7, <1>9, <1>14, <1>15, <1>16

(* A withdrawal keeps the position of its owner.                           *)
LEMMA WithdrawalKeeps ==
  ASSUME EarningsInv, AllNumbers, AllNumbers', NEW e \in Entries, Withdrawn(e),
         NEW u \in Users, NEW c \in Priced, Mine(e, u, c), Worthier(c), Position(u, c)
  PROVE  /\ Short(u, c)' /\ \A k \in 0 .. Len(history) : PositionAt(k, u, c)'
         /\ Kept(u, c) \in Nat /\ Kept(u, c)' \in Nat
         /\ Kept(u, c) <= Kept(u, c)' + e.amount + 1
         /\ DustOf(c) + PriceOf(c)' <= DustOf(c)'
<1>0. PICK s : s = shares[c][u]
  OBVIOUS
<1> DEFINE a == e.amount
           P == Put(Len(history), u, c)
           PP == Put(Len(history), u, c)'
           v == Value(u, c)
           vv == Value(u, c)'
           q == PriceOf(c)'
           D == DustOf(c)
           DD == DustOf(c)'
           rest(x) == Prices!Rest(x, e.shares, s)
<1>1. /\ e.who = u /\ e.currency = c /\ a \in Nat /\ e.shares \in Nat
      /\ Backed /\ Booked /\ history \in Seq(Entries) /\ history' = Append(history, e)
      /\ e.kind = "withdraw"
  BY DEF Mine, Entries, EarningsInv, Booked, Withdrawn
<1>2. s \in Nat /\ q \in Nat /\ q # 0 /\ D \in Nat /\ v \in Nat
  BY <1>0, <1>1, ShortIsLast DEF AllNumbers, Numbers, LastOfShort
<1>3. shares'[c][u] = s - e.shares
  BY <1>0, <1>1, WithdrawalMoves
<1>4. D + q <= DD /\ DD \in Nat
  <2>1. CountOf(c) \in Nat /\ CountOf(c)' = CountOf(c) + 1
    BY <1>1, HistorySums, OneMoreEvent
  <2>2. CountOf(c)' \in Nat /\ CountOf(c) + 1 <= CountOf(c)'
    BY <2>1
  <2>3. D + q <= DD
    BY <1>1, <2>2, DustGrows
  <2>4. DD \in Nat
    BY <1>2, <2>2 DEF DustOf
  <2>5. QED
    BY <2>3, <2>4
<1>5. /\ s # 0 /\ e.shares \in 0 .. s /\ a # 0
      /\ v - a <= rest(v) /\ rest(v) <= vv + 1
  <2>1. /\ s # 0 /\ e.shares \in 0 .. s /\ a # 0
        /\ Redeems(s, c) - a <= rest(Redeems(s, c))
        /\ rest(Redeems(s, c)) <= Redeems(s - e.shares, c)' + 1
    BY <1>0, <1>1, <1>2, WithdrawalIsWorth
  <2>2. v = Redeems(s, c) /\ vv = Redeems(s - e.shares, c)'
    BY <1>0, <1>3 DEF Value
  <2>3. QED
    BY <2>1, <2>2
<1>6. vv \in Nat
  <2>1. shares'[c][u] \in Nat
    BY <1>1, <1>2, <1>3, <1>5
  <2>2. \A x \in Nat : Redeems(x, c)' \in Nat
    BY DEF AllNumbers, Numbers
  <2>3. QED
    BY <2>1, <2>2 DEF Value
<1>7. P \in Nat /\ P <= v + D
  BY DEF Position, Short
<1>8. PP = rest(P)
  <2> DEFINE basis == Earnings!costBasisOf(SubSeq(history, 1, Len(history)), u, c)
  <2>1. PP = Earnings!Replay(basis, e).contributed
    BY <1>1, OneMoreEvent
  <2>2. PP = Earnings!Left(basis, e.shares)
    BY <1>1, <2>1 DEF Earnings!Replay
  <2>3. basis.shares = s
    <3>1. SubSeq(history, 1, Len(history)) = history
      BY <1>1
    <3>2. QED
      BY <1>0, <1>1, <3>1 DEF Booked, Basis
  <2>4. basis.contributed = P
    BY DEF Put
  <2> HIDE DEF basis, P
  <2>5. QED
    BY <2>2, <2>3, <2>4 DEF Earnings!Left, Prices!Rest
<1>9. \A x, y \in Nat : /\ rest(x) \in 0 .. x /\ rest(x) <= rest(x + y)
                        /\ rest(x + y) <= rest(x) + y
  BY <1>2, <1>5, EarningsConstants, Prices!RestBounds
<1> HIDE DEF a, P, PP, v, vv, q, D, DD, rest
<1>10. PP \in Nat /\ PP <= P /\ PP <= vv + 1 + D
  <2>1. PICK y \in Nat : P + y = v + D
    <3>1. (v + D) - P \in Nat /\ P + ((v + D) - P) = v + D
      BY <1>2, <1>7
    <3>2. QED
      BY <3>1
  <2>2. rest(P) \in 0 .. P /\ rest(P) <= rest(v + D)
    BY <1>7, <1>9, <2>1
  <2>3. rest(v + D) <= rest(v) + D /\ rest(v) \in 0 .. v /\ rest(v + D) \in 0 .. (v + D)
    <3>1. v + D \in Nat
      BY <1>2
    <3>2. QED
      BY <1>2, <1>9, <3>1
  <2>4. QED
    BY <1>2, <1>5, <1>6, <1>7, <1>8, <2>2, <2>3
<1>11. Short(u, c)'
  <2>1. PP \in Nat /\ PP <= vv + DD
    BY <1>2, <1>4, <1>6, <1>10
  <2>2. QED
    BY <2>1 DEF Short, PP, vv, DD
<1>12. v <= vv + a + 1
  <2>1. rest(v) \in 0 .. v
    BY <1>2, <1>9
  <2>2. QED
    BY <1>1, <1>2, <1>5, <1>6, <2>1 DEF a
<1>13. ASSUME NEW k \in 0 .. Len(history)
       PROVE  PositionAt(k, u, c)'
  <2> DEFINE p == Put(k, u, c)
             h == HeldAt(k, u, c)
             mw == Missing("withdraw", k, u, c)
             md == Missing("deposit", k, u, c)
  <2>1. /\ p \in Nat /\ h \in Nat /\ p <= v + mw + D /\ P <= p + md
    BY DEF Position, PositionAt, v, D, P
  <2>2. mw \in Nat /\ md \in Nat
    BY <1>1, HistorySums
  <2>3. Put(k, u, c)' = p /\ HeldAt(k, u, c)' = h
    BY <1>1, OneMoreEvent
  <2>4. Missing("withdraw", k, u, c)' = mw + a /\ Missing("deposit", k, u, c)' = md
    <3>1. Mine(e, u, c)
      OBVIOUS
    <3>2. /\ Missing("withdraw", k, u, c)' = mw + e.amount
          /\ Missing("deposit", k, u, c)' = md + 0
      BY <1>1, <3>1, OneMoreEvent
    <3>3. QED
      BY <2>2, <3>2 DEF a
  <2>5. Later("withdraw", k, u, c)' # {}
    <3>1. /\ Len(history') = Len(history) + 1 /\ history'[Len(history) + 1] = e
          /\ Len(history) \in Nat
      BY <1>1, AppendProperties
    <3>2. Len(history) + 1 \in k + 1 .. Len(history')
      BY <3>1
    <3>3. Len(history) + 1 \in Later("withdraw", k, u, c)'
      BY <1>1, <3>1, <3>2 DEF Later
    <3>4. QED
      BY <3>3
  <2> HIDE DEF p, h, mw, md
  <2>6. p <= vv + (mw + a) + DD
    <3>1. a \in Nat
      BY <1>1
    <3>2. D <= DD
      BY <1>2, <1>4
    <3>3. p <= v + mw + D
      BY <2>1
    <3>4. QED
      BY <1>2, <1>4, <1>6, <1>12, <2>1, <2>2, <3>1, <3>2, <3>3
  <2>7. PP <= p + md
    BY <1>7, <1>10, <2>1, <2>2
  <2>8. QED
    BY <2>1, <2>3, <2>4, <2>5, <2>6, <2>7 DEF PositionAt, PP, vv, DD
<1>14. /\ Kept(u, c) \in Nat /\ Kept(u, c)' \in Nat /\ Kept(u, c) <= Kept(u, c)' + a + 1
  <2>1. Kept(u, c) = IF P <= v THEN P ELSE v
    BY DEF Kept, P, v
  <2>2. Kept(u, c)' = IF PP <= vv THEN PP ELSE vv
    BY DEF Kept, PP, vv
  <2>0. a \in Nat
    BY <1>1
  <2>3. CASE P <= v
    <3>1. PICK y \in Nat : P + y = v
      <4>1. v - P \in Nat /\ P + (v - P) = v
        BY <1>2, <1>7, <2>3
      <4>2. QED
        BY <4>1
    <3>2. rest(v) <= rest(P) + y /\ rest(v) \in 0 .. v
      BY <1>2, <1>7, <1>9, <3>1
    <3>3. P <= PP + a
      BY <1>2, <1>5, <1>7, <1>8, <1>10, <2>0, <3>1, <3>2
    <3>4. QED
      BY <1>2, <1>6, <1>7, <1>10, <1>12, <2>0, <2>1, <2>2, <2>3, <3>3
  <2>4. CASE ~(P <= v)
    <3>1. PICK y \in Nat : P = v + y
      <4>1. P - v \in Nat /\ P = v + (P - v)
        BY <1>2, <1>7, <2>4
      <4>2. QED
        BY <4>1
    <3>2. rest(v) <= rest(P) /\ rest(v) \in 0 .. v
      BY <1>2, <1>9, <3>1
    <3>3. v <= PP + a
      BY <1>2, <1>5, <1>7, <1>8, <1>10, <2>0, <3>2
    <3>4. QED
      BY <1>2, <1>6, <1>7, <1>10, <1>12, <2>0, <2>1, <2>2, <2>4, <3>3
  <2>5. QED
    BY <2>3, <2>4
<1>15. QED
  BY <1>4, <1>11, <1>13, <1>14 DEF a, q, D, DD

-----------------------------------------------------------------------------
(* The inductive invariant of the headline: the positions, and what a      *)
(* bucket holds beyond what was paid in is interest, but for dust.         *)
KeptBy(c) == [u \in Users |-> Kept(u, c)]

Earnt(c) == nav[c] <= SumOver(KeptBy(c), Users) + gained[now][c] + DustOf(c)

Paid ==
  \A n \in 1 .. Len(history) : history[n].kind = "withdraw" => history[n].amount # 0

Dated ==
  \A n \in 1 .. Len(history) :
    history[n].ts <= now /\ \A m \in 1 .. n : history[m].ts <= history[n].ts

Gains ==
  /\ now \in 0 .. MaxTime /\ gained \in [0 .. MaxTime -> [Priced -> Nat]]
  /\ \A t \in 0 .. MaxTime : now <= t => gained[t] = gained[now]
  /\ \A s, t \in 0 .. MaxTime, c \in Priced : s <= t => gained[s][c] <= gained[t][c]

YieldInv ==
  /\ \A u \in Users, c \in Priced : Position(u, c)
  /\ \A c \in Priced : Earnt(c)
  /\ Paid /\ Dated /\ Gains

(* The steps of the chain.                                                 *)
Accrued(c, i) ==
  /\ nav' = [nav EXCEPT ![c] = @ + i]
  /\ gained' = [t \in DOMAIN gained |->
                  IF t < now THEN gained[t] ELSE [gained[t] EXCEPT ![c] = @ + i]]
  /\ UNCHANGED <<now, shares, history, from, known, snaps, ticking, asked>>

Quiet ==
  /\ UNCHANGED <<shares, nav, history, gained>>
  /\ now' = now \/ (now' = now + 1 /\ now < MaxTime)

(* Every step is one of them.                                              *)
LEMMA StepIs ==
  ASSUME EarningsInv, [Earnings!Next]_(Earnings!vars)
  PROVE  \/ \E e \in Entries : Deposited(e) \/ Withdrawn(e)
         \/ \E c \in Priced, i \in Nat : Accrued(c, i)
         \/ Quiet
<1>1. ASSUME NEW u \in Users, NEW c \in Earnings!Currencies,
             Earnings!Deposit(u, c) \/ Earnings!Withdraw(u, c)
      PROVE  \E e \in Entries : Deposited(e) \/ Withdrawn(e)
  BY <1>1, DepositIs, WithdrawalIs DEF Priced
<1>2. ASSUME NEW c \in Earnings!Currencies, Earnings!Accrue(c)
      PROVE  \E d \in Priced, i \in Nat : Accrued(d, i)
  <2>1. PICK i \in Interest :
          /\ nav' = [nav EXCEPT ![c] = @ + i]
          /\ gained' = [t \in DOMAIN gained |->
                          IF t < now THEN gained[t] ELSE [gained[t] EXCEPT ![c] = @ + i]]
          /\ UNCHANGED <<now, shares, history, Earnings!serverVars>>
    BY <1>2 DEF Earnings!Accrue
  <2>2. i \in Nat /\ c \in Priced
    BY EarningsConstants DEF Priced
  <2>3. Accrued(c, i)
    BY <2>1 DEF Accrued, Earnings!serverVars
  <2>4. QED
    BY <2>2, <2>3
<1>3. CASE Earnings!TimePasses
  BY <1>3 DEF Earnings!TimePasses, Quiet
<1>4. CASE \/ Earnings!Poll \/ Earnings!StartTick \/ Earnings!Sample \/ Earnings!SampleThrows
           \/ Earnings!Restart \/ Earnings!ReadValue \/ Earnings!Answer
           \/ UNCHANGED Earnings!vars
  BY <1>4 DEF Earnings!Poll, Earnings!StartTick, Earnings!Sample, Earnings!SampleThrows,
              Earnings!Restart, Earnings!ReadValue, Earnings!Answer, Earnings!vars,
              Earnings!chainVars, Quiet
<1>5. ASSUME NEW u \in Users, Earnings!Ask(u)
      PROVE  Quiet
  BY <1>5 DEF Earnings!Ask, Earnings!chainVars, Quiet
<1>6. QED
  BY <1>1, <1>2, <1>3, <1>4, <1>5 DEF Earnings!Next

(* Interest raises the price, and a quiet step leaves it.                  *)
LEMMA AccrualMoves ==
  ASSUME EarningsInv, AllNumbers, AllNumbers', NEW c \in Priced, NEW i \in Nat, Accrued(c, i)
  PROVE  /\ nav'[c] = nav[c] + i /\ \A d \in Priced : d # c => nav'[d] = nav[d]
         /\ AllWorthier
<1>1. nav \in [Priced -> Nat]
  BY DEF EarningsInv, Backed
<1>2. nav'[c] = nav[c] + i /\ \A d \in Priced : d # c => nav'[d] = nav[d]
  BY <1>1 DEF Accrued
<1>3. ASSUME NEW d \in Priced PROVE Worthier(d)
  <2>1. Earnings!Total(d)' = Earnings!Total(d)
    BY DEF Earnings!Total, Accrued
  <2>2. CASE d # c
    BY <1>2, <2>1, <2>2, SamePriceIsWorthier
  <2>3. CASE d = c
    <3> DEFINE t == Earnings!Total(d)
               n == nav[d]
    <3>1. t \in Nat /\ n \in Nat /\ VirtualOffset \in Nat \ {0}
      BY EarningsConstants DEF AllNumbers, Numbers
    <3>2. nav'[d] = n + i /\ Earnings!Total(d)' = t
      BY <1>2, <2>1, <2>3
    <3> HIDE DEF t, n
    <3>3. ((n + i) + VirtualOffset) * (t + VirtualOffset)
            >= (n + VirtualOffset) * (t + VirtualOffset)
      BY <3>1, Prices!InterestKeepsPrice
    <3>4. QED
      BY <3>2, <3>3, PriceMakesWorthier DEF t, n
  <2>4. QED
    BY <2>2, <2>3
<1>4. QED
  BY <1>2, <1>3 DEF AllWorthier

LEMMA QuietMoves ==
  ASSUME AllNumbers, Quiet
  PROVE  AllWorthier
<1>1. ASSUME NEW d \in Priced PROVE Worthier(d)
  <2>1. Earnings!Total(d)' = Earnings!Total(d) /\ nav'[d] = nav[d]
    BY DEF Earnings!Total, Quiet
  <2>2. QED
    BY <2>1, SamePriceIsWorthier
<1>2. QED
  BY <1>1 DEF AllWorthier

(* Who stays aside of a step.                                              *)
LEMMA AsideOfNone ==
  ASSUME EarningsInv, UNCHANGED <<shares, history>>, NEW u \in Users, NEW c \in Priced
  PROVE  Aside(u, c) /\ CountOf(c)' = CountOf(c)
<1>1. CountOf(c) \in Nat
  BY HistorySums DEF EarningsInv, Booked
<1>2. /\ CountOf(c)' = CountOf(c) /\ shares'[c][u] = shares[c][u]
      /\ Put(Len(history), u, c)' = Put(Len(history), u, c)
  BY DEF CountOf, Put
<1>3. \A k : /\ Put(k, u, c)' = Put(k, u, c) /\ HeldAt(k, u, c)' = HeldAt(k, u, c)
             /\ \A kind : Missing(kind, k, u, c)' = Missing(kind, k, u, c)
             /\ Later("withdraw", k, u, c)' = Later("withdraw", k, u, c)
  BY DEF Put, HeldAt, Basis, Missing, AmountOf, Later
<1>4. QED
  BY <1>1, <1>2, <1>3 DEF Aside

LEMMA AsideOfEvent ==
  ASSUME EarningsInv, NEW e \in Entries, history' = Append(history, e), OthersStay(e),
         NEW u \in Users, NEW c \in Priced, ~Mine(e, u, c)
  PROVE  Aside(u, c)
<1>1. history \in Seq(Entries) /\ CountOf(c) \in Nat
  BY HistorySums DEF EarningsInv, Booked
<1>2. shares'[c][u] = shares[c][u]
  BY DEF OthersStay
<1>3. Put(Len(history), u, c)' = Put(Len(history), u, c)
  <2>1. Put(Len(history), u, c)'
          = Earnings!costBasisOf(SubSeq(history, 1, Len(history)), u, c).contributed
    BY <1>1, OneMoreEvent
  <2>2. QED
    BY <2>1 DEF Put
<1>4. CountOf(c)' \in Nat /\ CountOf(c) <= CountOf(c)'
  BY <1>1, OneMoreEvent
<1>5. ASSUME NEW k \in 0 .. Len(history)
      PROVE  /\ Put(k, u, c)' = Put(k, u, c) /\ HeldAt(k, u, c)' = HeldAt(k, u, c)
             /\ \A kind : Missing(kind, k, u, c)' = Missing(kind, k, u, c)
             /\ Later("withdraw", k, u, c) \subseteq Later("withdraw", k, u, c)'
  <2>1. /\ Put(k, u, c)' = Put(k, u, c) /\ HeldAt(k, u, c)' = HeldAt(k, u, c)
        /\ Later("withdraw", k, u, c) \subseteq Later("withdraw", k, u, c)'
    BY <1>1, OneMoreEvent
  <2>2. ASSUME NEW kind PROVE Missing(kind, k, u, c)' = Missing(kind, k, u, c)
    <3>1. Missing(kind, k, u, c)' = Missing(kind, k, u, c) + 0
      BY <1>1, OneMoreEvent
    <3>2. Missing(kind, k, u, c) \in Nat
      BY <1>1, HistorySums
    <3>3. QED
      BY <3>1, <3>2
  <2>3. QED
    BY <2>1, <2>2
<1>6. QED
  BY <1>2, <1>3, <1>4, <1>5 DEF Aside

-----------------------------------------------------------------------------
(* What holds up to the events before, and at the last, is a position.     *)
LEMMA PositionExtends ==
  ASSUME LastOfShort', NEW u \in Users, NEW c \in Priced, Short(u, c)',
         Len(history) \in Nat, Len(history') = Len(history) \/ Len(history') = Len(history) + 1,
         \A k \in 0 .. Len(history) : PositionAt(k, u, c)'
  PROVE  Position(u, c)'
<1>1. ASSUME NEW k \in 0 .. Len(history')
      PROVE  PositionAt(k, u, c)'
  <2>1. CASE k \in 0 .. Len(history)
    BY <2>1
  <2>2. CASE k = Len(history')
    <3>1. PositionAt(Len(history), u, c)'
      BY DEF LastOfShort
    <3>2. QED
      BY <2>2, <3>1
  <2>3. QED
    BY <2>1, <2>2
<1>2. QED
  BY <1>1 DEF Position

(* Every step keeps every position: an event, and any other step.          *)
LEMMA EventKeeps ==
  ASSUME EarningsInv, EarningsInv', YieldInv, AllNumbers, AllNumbers', LastOfShort, LastOfShort',
         NEW e \in Entries, Deposited(e) \/ Withdrawn(e)
  PROVE  /\ \A u \in Users, c \in Priced :
              /\ Position(u, c)' /\ Kept(u, c) \in Nat /\ Kept(u, c)' \in Nat
              /\ ~Mine(e, u, c) => Kept(u, c) <= Kept(u, c)'
         /\ e.kind = "deposit"
              => Kept(e.who, e.currency) + e.amount
                   <= Kept(e.who, e.currency)' + PriceOf(e.currency)'
         /\ e.kind = "withdraw"
              => Kept(e.who, e.currency) <= Kept(e.who, e.currency)' + e.amount + 1
         /\ DustOf(e.currency) + PriceOf(e.currency)' <= DustOf(e.currency)'
         /\ \A c \in Priced : DustOf(c) <= DustOf(c)'
         /\ AllWorthier /\ OthersStay(e)
<1>1. /\ OthersStay(e) /\ AllWorthier /\ history' = Append(history, e)
      /\ history \in Seq(Entries) /\ Len(history) \in Nat
      /\ Len(history') = Len(history) + 1 /\ Backed /\ Booked
  <2>1. OthersStay(e) /\ AllWorthier
    BY DepositMoves, WithdrawalMoves, DepositWorthier, WithdrawalWorthier
  <2>2. history \in Seq(Entries) /\ Backed /\ Booked
    BY DEF EarningsInv, Booked
  <2>3. history' = Append(history, e)
    BY DEF Deposited, Withdrawn
  <2>4. QED
    BY <2>1, <2>2, <2>3, AppendProperties
<1>2. e.who \in Users /\ e.currency \in Priced /\ Mine(e, e.who, e.currency)
  BY DEF Entries, Mine
<1>3. ASSUME NEW u \in Users, NEW c \in Priced
      PROVE  /\ Position(u, c)' /\ Kept(u, c) \in Nat /\ Kept(u, c)' \in Nat
             /\ ~Mine(e, u, c) => Kept(u, c) <= Kept(u, c)'
  <2>1. Position(u, c) /\ Worthier(c)
    BY <1>1 DEF YieldInv, AllWorthier
  <2>2. /\ Short(u, c)' /\ \A k \in 0 .. Len(history) : PositionAt(k, u, c)'
        /\ Kept(u, c) \in Nat /\ Kept(u, c)' \in Nat
        /\ ~Mine(e, u, c) => Kept(u, c) <= Kept(u, c)'
    <3>1. CASE Mine(e, u, c)
      BY <2>1, <3>1, DepositKeeps, WithdrawalKeeps
    <3>2. CASE ~Mine(e, u, c)
      <4>1. Aside(u, c)
        BY <1>1, <3>2, AsideOfEvent
      <4>2. QED
        BY <1>1, <2>1, <4>1, AsideKeeps
    <3>3. QED
      BY <3>1, <3>2
  <2>3. Position(u, c)'
    BY <1>1, <2>2, PositionExtends
  <2>4. QED
    BY <2>2, <2>3
<1>4. /\ e.kind = "deposit"
           => Kept(e.who, e.currency) + e.amount
                <= Kept(e.who, e.currency)' + PriceOf(e.currency)'
      /\ e.kind = "withdraw"
           => Kept(e.who, e.currency) <= Kept(e.who, e.currency)' + e.amount + 1
      /\ DustOf(e.currency) + PriceOf(e.currency)' <= DustOf(e.currency)'
  <2>1. Position(e.who, e.currency) /\ Worthier(e.currency)
    BY <1>1, <1>2 DEF YieldInv, AllWorthier
  <2>2. CASE Deposited(e)
    <3>1. /\ Kept(e.who, e.currency) + e.amount
               <= Kept(e.who, e.currency)' + PriceOf(e.currency)'
          /\ DustOf(e.currency) + PriceOf(e.currency)' <= DustOf(e.currency)'
      BY <1>2, <2>1, <2>2, DepositKeeps
    <3>2. e.kind # "withdraw"
      BY <2>2 DEF Deposited
    <3>3. QED
      BY <3>1, <3>2
  <2>3. CASE Withdrawn(e)
    <3>1. /\ Kept(e.who, e.currency) <= Kept(e.who, e.currency)' + e.amount + 1
          /\ DustOf(e.currency) + PriceOf(e.currency)' <= DustOf(e.currency)'
      BY <1>2, <2>1, <2>3, WithdrawalKeeps
    <3>2. e.kind # "deposit"
      BY <2>3 DEF Withdrawn
    <3>3. QED
      BY <3>1, <3>2
  <2>4. QED
    BY <2>2, <2>3
<1>5. ASSUME NEW c \in Priced PROVE DustOf(c) <= DustOf(c)'
  <2>1. CountOf(c) \in Nat /\ CountOf(c)' = CountOf(c) + IF e.currency = c THEN 1 ELSE 0
    BY <1>1, HistorySums, OneMoreEvent
  <2>2. CountOf(c)' \in Nat /\ CountOf(c) <= CountOf(c)'
    BY <2>1
  <2>3. QED
    BY <1>1, <2>2, DustGrows DEF AllWorthier
<1>6. QED
  BY <1>1, <1>3, <1>4, <1>5

LEMMA StillKeeps ==
  ASSUME EarningsInv, YieldInv, AllNumbers, AllNumbers', LastOfShort, LastOfShort', AllWorthier,
         UNCHANGED <<shares, history>>
  PROVE  /\ \A u \in Users, c \in Priced :
              /\ Position(u, c)' /\ Kept(u, c) \in Nat /\ Kept(u, c)' \in Nat
              /\ Kept(u, c) <= Kept(u, c)'
         /\ \A c \in Priced : DustOf(c) <= DustOf(c)'
<1>1. Len(history) \in Nat /\ Len(history') = Len(history) /\ Backed /\ Booked
  BY DEF EarningsInv, Booked
<1>2. ASSUME NEW u \in Users, NEW c \in Priced
      PROVE  /\ Position(u, c)' /\ Kept(u, c) \in Nat /\ Kept(u, c)' \in Nat
             /\ Kept(u, c) <= Kept(u, c)'
  <2>1. Position(u, c) /\ Worthier(c)
    BY DEF YieldInv, AllWorthier
  <2>2. Aside(u, c)
    BY AsideOfNone
  <2>3. /\ Short(u, c)' /\ \A k \in 0 .. Len(history) : PositionAt(k, u, c)'
        /\ Kept(u, c) \in Nat /\ Kept(u, c)' \in Nat /\ Kept(u, c) <= Kept(u, c)'
    BY <1>1, <2>1, <2>2, AsideKeeps
  <2>4. Position(u, c)'
    BY <1>1, <2>3, PositionExtends
  <2>5. QED
    BY <2>3, <2>4
<1>3. ASSUME NEW c \in Priced PROVE DustOf(c) <= DustOf(c)'
  <2>1. CountOf(c) \in Nat /\ CountOf(c)' = CountOf(c)
    BY HistorySums DEF CountOf, EarningsInv, Booked
  <2>2. CountOf(c)' \in Nat /\ CountOf(c) <= CountOf(c)'
    BY <2>1
  <2>3. QED
    BY <1>1, <2>2, DustGrows DEF AllWorthier
<1>4. QED
  BY <1>2, <1>3

-----------------------------------------------------------------------------
(* Of what is kept the sum falls by what one part falls, and no more.      *)
LEMMA KeptSums ==
  ASSUME NEW c \in Priced, NEW d \in Int, NEW y \in Users,
         \A u \in Users : Kept(u, c) \in Nat /\ Kept(u, c)' \in Nat,
         \A u \in Users \ {y} : Kept(u, c) <= Kept(u, c)',
         Kept(y, c) <= Kept(y, c)' + d
  PROVE  /\ SumOver(KeptBy(c), Users) \in Nat /\ SumOver(KeptBy(c), Users)' \in Nat
         /\ SumOver(KeptBy(c), Users) <= SumOver(KeptBy(c), Users)' + d
<1> DEFINE f == KeptBy(c)
           g == KeptBy(c)'
<1>1. \A u \in Users : f[u] = Kept(u, c) /\ g[u] = Kept(u, c)'
  BY DEF KeptBy
<1>2. SumOver(KeptBy(c), Users)' = SumOver(g, Users)
  OBVIOUS
<1> HIDE DEF f, g
<1>3. /\ \A u \in Users : f[u] \in Nat
      /\ \A u \in Users : g[u] \in Nat
      /\ \A u \in Users \ {y} : f[u] <= g[u]
      /\ f[y] <= g[y] + d
  BY <1>1
<1>4. IsFiniteSet(Users)
  BY EarningsConstants
<1>5. SumOver(f, Users) \in Nat /\ SumOver(g, Users) \in Nat
  BY <1>3, <1>4, SumType
<1>6. SumOver(f, Users) <= SumOver(g, Users) + d
  BY <1>3, <1>4, SumDrops
<1>7. QED
  BY <1>2, <1>5, <1>6 DEF f

(* Where no part falls the sum does not.                                   *)
LEMMA KeptSumsGrow ==
  ASSUME NEW c \in Priced,
         \A u \in Users : Kept(u, c) \in Nat /\ Kept(u, c)' \in Nat /\ Kept(u, c) <= Kept(u, c)'
  PROVE  /\ SumOver(KeptBy(c), Users) \in Nat /\ SumOver(KeptBy(c), Users)' \in Nat
         /\ SumOver(KeptBy(c), Users) <= SumOver(KeptBy(c), Users)'
<1> DEFINE f == KeptBy(c)
           g == KeptBy(c)'
<1>1. \A u \in Users : f[u] = Kept(u, c) /\ g[u] = Kept(u, c)'
  BY DEF KeptBy
<1>2. SumOver(KeptBy(c), Users)' = SumOver(g, Users)
  OBVIOUS
<1> HIDE DEF f, g
<1>3. /\ \A u \in Users : f[u] \in Nat
      /\ \A u \in Users : g[u] \in Nat
      /\ \A u \in Users : f[u] <= g[u]
  BY <1>1
<1>4. IsFiniteSet(Users)
  BY EarningsConstants
<1>5. SumOver(f, Users) \in Nat /\ SumOver(g, Users) \in Nat
  BY <1>3, <1>4, SumType
<1>6. SumOver(f, Users) <= SumOver(g, Users)
  BY <1>3, <1>4, SumMonotone
<1>7. QED
  BY <1>2, <1>5, <1>6 DEF f

(* No step makes a bucket hold more than was kept, gained and dust.        *)
LEMMA EventEarnt ==
  ASSUME EarningsInv, EarningsInv', YieldInv, AllNumbers, AllNumbers', LastOfShort, LastOfShort',
         NEW e \in Entries, Deposited(e) \/ Withdrawn(e), NEW c \in Priced
  PROVE  Earnt(c)'
<1>1. Earnt(c) /\ now \in 0 .. MaxTime /\ gained[now][c] \in Nat
  BY DEF YieldInv, Gains
<1>2. nav[c] \in Nat /\ DustOf(c) \in Nat /\ DustOf(c)' \in Nat
  <2>1. \E u : u \in Users
    BY DEF Entries
  <2>2. DustOf(c) \in Nat /\ DustOf(c)' \in Nat
    BY <2>1 DEF LastOfShort
  <2>3. QED
    BY <2>2 DEF AllNumbers, Numbers
<1>3. e.who \in Users /\ e.currency \in Priced /\ e.amount \in Nat
  BY DEF Entries
<1>4. UNCHANGED <<now, gained>>
  BY DEF Deposited, Withdrawn
<1>5. /\ \A u \in Users : /\ Kept(u, c) \in Nat /\ Kept(u, c)' \in Nat
                          /\ ~Mine(e, u, c) => Kept(u, c) <= Kept(u, c)'
      /\ DustOf(c) <= DustOf(c)'
      /\ OthersStay(e)
  BY EventKeeps
<1>6. CASE c # e.currency
  <2>1. \A u \in Users : ~Mine(e, u, c)
    BY <1>6 DEF Mine
  <2>2. /\ SumOver(KeptBy(c), Users) \in Nat /\ SumOver(KeptBy(c), Users)' \in Nat
        /\ SumOver(KeptBy(c), Users) <= SumOver(KeptBy(c), Users)'
    BY <1>5, <2>1, KeptSumsGrow
  <2>3. nav'[c] = nav[c]
    BY <1>5, <1>6 DEF OthersStay
  <2>4. nav[c] <= SumOver(KeptBy(c), Users) + gained[now][c] + DustOf(c)
    BY <1>1 DEF Earnt
  <2>5. nav'[c] <= SumOver(KeptBy(c), Users)' + gained'[now'][c] + DustOf(c)'
    BY <1>1, <1>2, <1>4, <1>5, <2>2, <2>3, <2>4
  <2>6. QED
    BY <2>5 DEF Earnt
<1>7. ASSUME c = e.currency
      PROVE  \A u \in Users \ {e.who} : Kept(u, c) <= Kept(u, c)'
  <2>1. \A u \in Users \ {e.who} : ~Mine(e, u, c)
    BY DEF Mine
  <2>2. QED
    BY <1>5, <2>1
<1>8. PriceOf(c)' \in Nat /\ PriceOf(c)' # 0
  BY DEF AllNumbers, Numbers
<1>0. PICK q \in Nat : q = PriceOf(c)'
  BY <1>8
<1>9. CASE c = e.currency /\ Deposited(e)
  <2>1. /\ nav'[c] = nav[c] + e.amount /\ e.kind = "deposit"
    BY <1>9, DepositMoves DEF Deposited
  <2>2. Kept(e.who, c) + e.amount <= Kept(e.who, c)' + q /\ DustOf(c) + q <= DustOf(c)'
    BY <1>0, <1>9, <2>1, EventKeeps
  <2>3. Kept(e.who, c) <= Kept(e.who, c)' + (q - e.amount)
    BY <1>3, <1>5, <2>2
  <2>4. q - e.amount \in Int
    BY <1>3
  <2>5. /\ SumOver(KeptBy(c), Users) \in Nat /\ SumOver(KeptBy(c), Users)' \in Nat
        /\ SumOver(KeptBy(c), Users) <= SumOver(KeptBy(c), Users)' + (q - e.amount)
    BY <1>3, <1>5, <1>7, <1>9, <2>3, <2>4, KeptSums
  <2>6. nav[c] <= SumOver(KeptBy(c), Users) + gained[now][c] + DustOf(c)
    BY <1>1 DEF Earnt
  <2>7. nav'[c] <= SumOver(KeptBy(c), Users)' + gained'[now'][c] + DustOf(c)'
    BY <1>1, <1>2, <1>3, <1>4, <2>1, <2>2, <2>5, <2>6
  <2>8. QED
    BY <2>7 DEF Earnt
<1>10. CASE c = e.currency /\ Withdrawn(e)
  <2>1. /\ nav'[c] = nav[c] - e.amount /\ e.kind = "withdraw"
    BY <1>10, WithdrawalMoves DEF Withdrawn
  <2>2. Kept(e.who, c) <= Kept(e.who, c)' + e.amount + 1 /\ DustOf(c) + q <= DustOf(c)'
    BY <1>0, <1>10, <2>1, EventKeeps
  <2>3. Kept(e.who, c) <= Kept(e.who, c)' + (e.amount + 1)
    BY <1>3, <1>5, <2>2
  <2>4. e.amount + 1 \in Int
    BY <1>3
  <2>5. /\ SumOver(KeptBy(c), Users) \in Nat /\ SumOver(KeptBy(c), Users)' \in Nat
        /\ SumOver(KeptBy(c), Users) <= SumOver(KeptBy(c), Users)' + (e.amount + 1)
    BY <1>3, <1>5, <1>7, <1>10, <2>3, <2>4, KeptSums
  <2>6. nav[c] <= SumOver(KeptBy(c), Users) + gained[now][c] + DustOf(c)
    BY <1>1 DEF Earnt
  <2>7. q # 0
    BY <1>0, <1>8
  <2>8. nav'[c] <= SumOver(KeptBy(c), Users)' + gained'[now'][c] + DustOf(c)'
    BY <1>1, <1>2, <1>3, <1>4, <2>1, <2>2, <2>5, <2>6, <2>7
  <2>9. QED
    BY <2>8 DEF Earnt
<1>11. QED
  BY <1>6, <1>9, <1>10

(* Interest is noted when it accrues, for now and all later times.         *)
LEMMA GainsStep ==
  ASSUME EarningsInv, Gains,
         \/ \E e \in Entries : Deposited(e) \/ Withdrawn(e)
         \/ \E c \in Priced, i \in Nat : Accrued(c, i)
         \/ Quiet
  PROVE  /\ Gains'
         /\ \A c \in Priced : gained[now][c] <= gained'[now'][c]
         /\ \A t \in 0 .. MaxTime : t < now => gained'[t] = gained[t]
         /\ now <= now' /\ (now' = now \/ now' = now + 1)
<1>1. /\ now \in 0 .. MaxTime /\ gained \in [0 .. MaxTime -> [Priced -> Nat]] /\ MaxTime \in Nat
      /\ \A t \in 0 .. MaxTime : now <= t => gained[t] = gained[now]
      /\ \A s, t \in 0 .. MaxTime, c \in Priced : s <= t => gained[s][c] <= gained[t][c]
  BY BackendAssumption DEF Gains, Earnings!ConstantsOK
<1>2. \A t \in 0 .. MaxTime, c \in Priced : gained[t][c] \in Nat
  BY <1>1
<1>3. CASE UNCHANGED <<now, gained>>
  BY <1>1, <1>2, <1>3 DEF Gains
<1>4. CASE Quiet
  <2>1. gained' = gained /\ now' \in 0 .. MaxTime /\ now <= now' /\ (now' = now \/ now' = now + 1)
    BY <1>1, <1>4 DEF Quiet
  <2>2. \A t \in 0 .. MaxTime : now' <= t => gained'[t] = gained'[now']
    BY <1>1, <2>1
  <2>3. Gains'
    BY <1>1, <2>1, <2>2 DEF Gains
  <2>4. \A c \in Priced : gained[now][c] <= gained'[now'][c]
    BY <1>1, <2>1
  <2>5. QED
    BY <2>1, <2>3, <2>4
<1>5. ASSUME NEW c \in Priced, NEW i \in Nat, Accrued(c, i)
      PROVE  /\ Gains' /\ now' = now
             /\ \A d \in Priced : gained[now][d] <= gained'[now'][d]
             /\ \A t \in 0 .. MaxTime : t < now => gained'[t] = gained[t]
  <2>1. /\ now' = now
        /\ \A t \in 0 .. MaxTime :
             gained'[t] = IF t < now THEN gained[t] ELSE [gained[t] EXCEPT ![c] = @ + i]
        /\ DOMAIN gained' = 0 .. MaxTime
    BY <1>1, <1>5 DEF Accrued
  <2>2. gained' = [t \in 0 .. MaxTime |-> gained'[t]]
    BY <1>1, <1>5 DEF Accrued
  <2>3. \A t \in 0 .. MaxTime : gained'[t] \in [Priced -> Nat]
    <3> TAKE t \in 0 .. MaxTime
    <3>1. gained[t] \in [Priced -> Nat] /\ gained[t][c] + i \in Nat
      BY <1>1, <1>2
    <3>2. QED
      BY <2>1, <3>1
  <2>4. gained' \in [0 .. MaxTime -> [Priced -> Nat]]
    BY <2>2, <2>3
  <2>5. \A t \in 0 .. MaxTime, d \in Priced :
          gained'[t][d] = gained[t][d] + IF d = c /\ ~(t < now) THEN i ELSE 0
    <3> TAKE t \in 0 .. MaxTime, d \in Priced
    <3>1. gained[t] \in [Priced -> Nat] /\ gained[t][d] \in Nat
      BY <1>1, <1>2
    <3>2. QED
      BY <2>1, <3>1
  <2>6. \A t \in 0 .. MaxTime : now' <= t => gained'[t] = gained'[now']
    <3> TAKE t \in 0 .. MaxTime
    <3> HAVE now' <= t
    <3>1. gained[t] = gained[now] /\ ~(t < now) /\ ~(now < now)
      BY <1>1, <2>1
    <3>2. QED
      BY <1>1, <2>1, <3>1
  <2>7. ASSUME NEW s \in 0 .. MaxTime, NEW t \in 0 .. MaxTime, NEW d \in Priced, s <= t
        PROVE  gained'[s][d] <= gained'[t][d]
    <3>1. gained[s][d] <= gained[t][d] /\ gained[s][d] \in Nat /\ gained[t][d] \in Nat
      BY <1>1, <1>2, <2>7
    <3>2. ~(s < now) => ~(t < now)
      BY <1>1, <2>7
    <3>3. /\ gained'[s][d] = gained[s][d] + IF d = c /\ ~(s < now) THEN i ELSE 0
          /\ gained'[t][d] = gained[t][d] + IF d = c /\ ~(t < now) THEN i ELSE 0
      BY <2>5
    <3>4. QED
      BY <3>1, <3>2, <3>3
  <2>8. Gains'
    BY <1>1, <2>1, <2>4, <2>6, <2>7 DEF Gains
  <2>9. \A d \in Priced : gained[now][d] <= gained'[now'][d]
    <3> TAKE d \in Priced
    <3>1. gained'[now][d] = gained[now][d] + IF d = c /\ ~(now < now) THEN i ELSE 0
      BY <1>1, <2>5
    <3>2. gained[now][d] \in Nat
      BY <1>1, <1>2
    <3>3. gained[now][d] <= gained'[now][d]
      BY <3>1, <3>2
    <3>4. QED
      BY <2>1, <3>3
  <2>10. QED
    BY <2>1, <2>8, <2>9
<1>6. QED
  <2>1. ASSUME NEW e \in Entries, Deposited(e) \/ Withdrawn(e) PROVE UNCHANGED <<now, gained>>
    BY <2>1 DEF Deposited, Withdrawn
  <2>2. now \in Int
    BY <1>1
  <2>3. QED
    BY <1>3, <1>4, <1>5, <2>1, <2>2

-----------------------------------------------------------------------------
(* What every step keeps: prices, dust and interest do not fall, and the   *)
(* history only grows, by events of the time it is.                        *)
Advances ==
  /\ AllWorthier /\ \A c \in Priced : DustOf(c) <= DustOf(c)'
  /\ \A c \in Priced : gained[now][c] <= gained'[now'][c]
  /\ \A t \in 0 .. MaxTime : t < now => gained'[t] = gained[t]
  /\ now' = now \/ now' = now + 1
  /\ \/ history' = history
     \/ now' = now /\ \E e \in Entries : e.ts = now /\ history' = Append(history, e)

(* Events are in the order of time.                                        *)
LEMMA DatedStep ==
  ASSUME EarningsInv, Dated, now \in Nat, now' \in Nat, now <= now',
         \/ history' = history
         \/ now' = now /\ \E e \in Entries : e.ts = now /\ history' = Append(history, e)
  PROVE  Dated'
<1>1. history \in Seq(Entries) /\ Len(history) \in Nat
  BY DEF EarningsInv, Booked
<1>2. \A n \in 1 .. Len(history) : history[n].ts \in Nat
  <2>1. \A n \in 1 .. Len(history) : history[n] \in Entries
    BY <1>1
  <2>2. QED
    BY <2>1 DEF Entries
<1>3. CASE history' = history
  BY <1>1, <1>2, <1>3 DEF Dated
<1>4. ASSUME NEW e \in Entries, e.ts = now, history' = Append(history, e), now' = now
      PROVE  Dated'
  <2>1. /\ Len(history') = Len(history) + 1 /\ history'[Len(history) + 1] = e
        /\ \A n \in 1 .. Len(history) : history'[n] = history[n]
    BY <1>1, <1>4, AppendProperties
  <2>2. ASSUME NEW n \in 1 .. Len(history')
        PROVE  history'[n].ts <= now' /\ \A m \in 1 .. n : history'[m].ts <= history'[n].ts
    <3>1. CASE n \in 1 .. Len(history)
      <4>1. \A m \in 1 .. n : m \in 1 .. Len(history) /\ history'[m] = history[m]
        BY <1>1, <2>1, <3>1
      <4>2. QED
        BY <1>4, <2>1, <3>1, <4>1 DEF Dated
    <3>2. CASE n = Len(history) + 1
      <4>1. history'[n].ts = now
        BY <1>4, <2>1, <3>2
      <4>2. \A m \in 1 .. n : m = n \/ m \in 1 .. Len(history)
        BY <1>1, <3>2
      <4>3. \A m \in 1 .. Len(history) : history'[m].ts <= now
        BY <2>1 DEF Dated
      <4>4. QED
        BY <1>4, <4>1, <4>2, <4>3
    <3>3. QED
      BY <1>1, <2>1, <3>1, <3>2
  <2>3. QED
    BY <2>2 DEF Dated
<1>5. QED
  BY <1>3, <1>4

(* Interest is counted as gained.                                          *)
LEMMA AccrualEarnt ==
  ASSUME EarningsInv, YieldInv, AllNumbers, AllNumbers', LastOfShort, LastOfShort',
         NEW b \in Priced, NEW i \in Nat, Accrued(b, i), NEW c \in Priced
  PROVE  Earnt(c)'
<1>1. Earnt(c) /\ now \in 0 .. MaxTime /\ gained[now][c] \in Nat
      /\ gained \in [0 .. MaxTime -> [Priced -> Nat]]
  BY DEF YieldInv, Gains
<1>2. /\ nav'[c] = IF c = b THEN nav[c] + i ELSE nav[c]
      /\ UNCHANGED <<shares, history, now>> /\ AllWorthier
  BY AccrualMoves DEF Accrued
<1>3. gained'[now'][c] = IF c = b THEN gained[now][c] + i ELSE gained[now][c]
  <2>1. now' = now /\ gained[now] \in [Priced -> Nat] /\ ~(now < now)
    BY <1>1, <1>2
  <2>2. gained'[now] = [gained[now] EXCEPT ![b] = @ + i]
    BY <1>1, <2>1 DEF Accrued
  <2>3. QED
    BY <2>1, <2>2
<1>4. /\ \A u \in Users : /\ Kept(u, c) \in Nat /\ Kept(u, c)' \in Nat
                          /\ Kept(u, c) <= Kept(u, c)'
      /\ DustOf(c) <= DustOf(c)'
  BY <1>2, StillKeeps
<1>5. /\ SumOver(KeptBy(c), Users) \in Nat /\ SumOver(KeptBy(c), Users)' \in Nat
      /\ SumOver(KeptBy(c), Users) <= SumOver(KeptBy(c), Users)'
  BY <1>4, KeptSumsGrow
<1>6. nav[c] \in Nat /\ DustOf(c) \in Int /\ DustOf(c)' \in Int
  <2>1. CountOf(c) \in Nat /\ CountOf(c)' = CountOf(c)
    BY <1>2, HistorySums DEF EarningsInv, Booked, CountOf
  <2>2. PriceOf(c) \in Nat /\ PriceOf(c)' \in Nat /\ nav[c] \in Nat
    BY DEF AllNumbers, Numbers
  <2>3. CountOf(c) * PriceOf(c) \in Int /\ CountOf(c)' * PriceOf(c)' \in Int
    BY <2>1, <2>2
  <2>4. QED
    BY <2>2, <2>3 DEF DustOf
<1>7. nav[c] <= SumOver(KeptBy(c), Users) + gained[now][c] + DustOf(c)
  BY <1>1 DEF Earnt
<1>8. nav'[c] <= SumOver(KeptBy(c), Users)' + gained'[now'][c] + DustOf(c)'
  <2> DEFINE g == gained[now][c]
             gg == gained'[now'][c]
             K == SumOver(KeptBy(c), Users)
             KK == SumOver(KeptBy(c), Users)'
             D == DustOf(c)
             DD == DustOf(c)'
             n == nav[c]
             nn == nav'[c]
             j == IF c = b THEN i ELSE 0
  <2>1. nn = n + j /\ gg = g + j /\ j \in Nat
    BY <1>1, <1>2, <1>3, <1>6
  <2>2. /\ n \in Nat /\ g \in Nat /\ K \in Nat /\ KK \in Nat /\ D \in Int /\ DD \in Int
        /\ K <= KK /\ D <= DD /\ n <= K + g + D
    BY <1>1, <1>4, <1>5, <1>6, <1>7
  <2> HIDE DEF g, gg, K, KK, D, DD, n, nn, j
  <2>3. nn <= KK + gg + DD
    BY <2>1, <2>2
  <2>4. QED
    BY <2>3 DEF nn, KK, gg, DD
<1>9. QED
  BY <1>8 DEF Earnt

LEMMA QuietEarnt ==
  ASSUME EarningsInv, YieldInv, AllNumbers, AllNumbers', LastOfShort, LastOfShort',
         Quiet, NEW c \in Priced
  PROVE  Earnt(c)'
<1>1. UNCHANGED <<shares, history, nav, gained>> /\ AllWorthier
  BY QuietMoves DEF Quiet
<1>2. /\ now \in 0 .. MaxTime /\ now' \in 0 .. MaxTime /\ now <= now'
      /\ \A t \in 0 .. MaxTime : now <= t => gained[t] = gained[now]
  <2>1. now \in 0 .. MaxTime /\ MaxTime \in Nat
        /\ \A t \in 0 .. MaxTime : now <= t => gained[t] = gained[now]
    BY BackendAssumption DEF YieldInv, Gains, Earnings!ConstantsOK
  <2>2. QED
    BY <2>1 DEF Quiet
<1>3. gained'[now'] = gained[now]
  BY <1>1, <1>2
<1>4. /\ KeptBy(c)' = KeptBy(c) /\ DustOf(c)' = DustOf(c)
  BY <1>1 DEF KeptBy, Kept, Put, Value, Redeems, Earnings!Total, DustOf, CountOf, PriceOf
<1>5. nav[c] <= SumOver(KeptBy(c), Users) + gained[now][c] + DustOf(c)
  BY DEF YieldInv, Earnt
<1>6. QED
  BY <1>1, <1>3, <1>4, <1>5 DEF Earnt

(* The invariant of the headline is inductive.                             *)
LEMMA YieldStep ==
  ASSUME EarningsInv, EarningsInv', YieldInv, AllNumbers, AllNumbers',
         LastOfShort, LastOfShort', [Earnings!Next]_(Earnings!vars)
  PROVE  YieldInv' /\ Advances
<1>1. /\ Gains' /\ \A c \in Priced : gained[now][c] <= gained'[now'][c]
      /\ \A t \in 0 .. MaxTime : t < now => gained'[t] = gained[t]
      /\ now <= now' /\ (now' = now \/ now' = now + 1)
  BY StepIs, GainsStep DEF YieldInv
<1>2. now \in Nat /\ now' \in Nat /\ Dated /\ Paid
  BY DEF EarningsInv, Backed, YieldInv
<1>3. ASSUME NEW e \in Entries, Deposited(e) \/ Withdrawn(e)
      PROVE  YieldInv' /\ Advances
  <2>1. e.ts = now /\ history' = Append(history, e) /\ now' = now
    BY <1>3 DEF Deposited, Withdrawn
  <2>2. Dated'
    BY <1>1, <1>2, <2>1, DatedStep
  <2>3. Paid'
    <3>1. /\ history \in Seq(Entries)
          /\ Len(history') = Len(history) + 1 /\ history'[Len(history) + 1] = e
          /\ \A n \in 1 .. Len(history) : history'[n] = history[n]
      BY <2>1, AppendProperties DEF EarningsInv, Booked
    <3>2. e.kind = "withdraw" => e.amount # 0
      <4>1. SUFFICES ASSUME Withdrawn(e) PROVE e.amount # 0
        BY <1>3 DEF Deposited
      <4>2. e.currency \in Priced /\ e.shares \in 1 .. shares[e.currency][e.who]
            /\ e.amount = Redeems(e.shares, e.currency) /\ e.who \in Users
        BY <4>1 DEF Withdrawn, Entries
      <4>3. e.shares \in Nat \ {0}
        BY <4>2
      <4>4. \A x \in Nat \ {0} : Redeems(x, e.currency) # 0
        BY <4>2 DEF AllNumbers, Numbers
      <4>5. QED
        BY <4>2, <4>3, <4>4
    <3>3. \A n \in 1 .. Len(history') : n = Len(history) + 1 \/ n \in 1 .. Len(history)
      BY <3>1
    <3>4. QED
      BY <1>2, <3>1, <3>2, <3>3 DEF Paid
  <2>4. /\ \A u \in Users, c \in Priced : Position(u, c)'
        /\ \A c \in Priced : DustOf(c) <= DustOf(c)'
        /\ AllWorthier
    BY <1>3, EventKeeps
  <2>5. \A c \in Priced : Earnt(c)'
    BY <1>3, EventEarnt
  <2>6. Advances
    BY <1>1, <2>1, <2>4 DEF Advances
  <2>7. QED
    BY <1>1, <2>2, <2>3, <2>4, <2>5, <2>6 DEF YieldInv
<1>4. ASSUME UNCHANGED <<shares, history>>, AllWorthier, \A c \in Priced : Earnt(c)'
      PROVE  YieldInv' /\ Advances
  <2>1. Dated'
    BY <1>1, <1>2, <1>4, DatedStep
  <2>2. Paid'
    BY <1>2, <1>4 DEF Paid
  <2>3. /\ \A u \in Users, c \in Priced : Position(u, c)'
        /\ \A c \in Priced : DustOf(c) <= DustOf(c)'
    BY <1>4, StillKeeps
  <2>4. Advances
    BY <1>1, <1>4, <2>3 DEF Advances
  <2>5. QED
    BY <1>1, <1>4, <2>1, <2>2, <2>3, <2>4 DEF YieldInv
<1>5. ASSUME NEW b \in Priced, NEW i \in Nat, Accrued(b, i)
      PROVE  YieldInv' /\ Advances
  <2>1. UNCHANGED <<shares, history>> /\ AllWorthier
    BY <1>5, AccrualMoves DEF Accrued
  <2>2. \A c \in Priced : Earnt(c)'
    BY <1>5, AccrualEarnt
  <2>3. QED
    BY <1>4, <2>1, <2>2
<1>6. CASE Quiet
  <2>1. UNCHANGED <<shares, history>> /\ AllWorthier
    BY <1>6, QuietMoves DEF Quiet
  <2>2. \A c \in Priced : Earnt(c)'
    BY <1>6, QuietEarnt
  <2>3. QED
    BY <1>4, <2>1, <2>2
<1>7. QED
  BY <1>3, <1>5, <1>6, StepIs

(* It holds of the empty vault.                                            *)
LEMMA YieldStart ==
  ASSUME Earnings!Init, EarningsInv, AllNumbers
  PROVE  YieldInv
<1>1. /\ now = 0 /\ history = <<>> /\ Len(history) = 0
      /\ shares = [c \in Priced |-> [u \in Users |-> 0]] /\ nav = [c \in Priced |-> 0]
      /\ gained = [t \in 0 .. MaxTime |-> nav]
  BY DEF Earnings!Init, Priced
<1>2. Backed /\ Booked /\ history \in Seq(Entries)
  BY DEF EarningsInv, Booked
<1>3. ASSUME NEW u \in Users, NEW c \in Priced
      PROVE  Position(u, c)
  <2>1. Put(0, u, c) = 0
    <3>1. SubSeq(history, 1, 0) = <<>>
      BY <1>1
    <3>2. Earnings!costBasisOf(SubSeq(history, 1, 0), u, c) = Earnings!EmptyBasis
      BY <3>1, BasisOfNone
    <3>3. QED
      BY <3>2 DEF Put, Earnings!EmptyBasis
  <2>2. DustOf(c) \in Nat /\ Value(u, c) \in Nat
    BY <1>2, ShortIsLast DEF LastOfShort
  <2>3. Short(u, c)
    BY <1>1, <2>1, <2>2 DEF Short
  <2>4. PositionAt(0, u, c)
    BY <1>1, <1>2, <2>3, ShortIsLast DEF LastOfShort
  <2>5. \A k \in 0 .. Len(history) : k = 0
    BY <1>1
  <2>6. QED
    BY <2>3, <2>4, <2>5 DEF Position
<1>4. ASSUME NEW c \in Priced
      PROVE  Earnt(c)
  <2>1. nav[c] = 0
    BY <1>1
  <2>2. gained[now][c] = 0
    <3>1. 0 \in 0 .. MaxTime
      BY BackendAssumption DEF Earnings!ConstantsOK
    <3>2. QED
      BY <1>1, <3>1
  <2>3. CountOf(c) \in Nat /\ PriceOf(c) \in Nat
    BY <1>2, HistorySums DEF AllNumbers, Numbers
  <2>4. DustOf(c) \in Nat
    BY <2>3 DEF DustOf
  <2>5. \A u \in Users : KeptBy(c)[u] \in Nat
    <3> TAKE u \in Users
    <3>1. Short(u, c) /\ Value(u, c) \in Nat
      BY <1>2, <1>3, ShortIsLast DEF Position, LastOfShort
    <3>2. QED
      BY <3>1 DEF KeptBy, Kept, Short
  <2>6. SumOver(KeptBy(c), Users) \in Nat
    BY <2>5, EarningsConstants, SumType
  <2>7. QED
    BY <2>1, <2>2, <2>4, <2>6 DEF Earnt
<1>5. Paid /\ Dated
  BY <1>1 DEF Paid, Dated
<1>6. Gains
  <2>1. MaxTime \in Nat /\ 0 \in 0 .. MaxTime /\ nav \in [Priced -> Nat]
    BY <1>1, BackendAssumption DEF Earnings!ConstantsOK
  <2>2. QED
    BY <1>1, <2>1 DEF Gains
<1>7. QED
  BY <1>3, <1>4, <1>5, <1>6 DEF YieldInv

-----------------------------------------------------------------------------
(* No position is worth more than what was kept of it, the interest of its *)
(* bucket and dust: together they are worth no more than the bucket has.   *)
LEMMA ValuesWithinNav ==
  ASSUME Backed, NEW c \in Priced
  PROVE  SumOver([u \in Users |-> Value(u, c)], Users) <= nav[c]
<1> DEFINE v == [u \in Users |-> Value(u, c)]
           held == shares[c]
           t == Earnings!Total(c)
           n == nav[c]
           a == t + VirtualOffset
           b == n + VirtualOffset
<1>1. /\ t \in Nat /\ n \in Nat /\ t <= n /\ VirtualOffset \in Nat \ {0}
      /\ \A u \in Users : held[u] \in Nat
  BY BackedNumbers, EarningsConstants DEF AllNumbers, Numbers
<1>2. ASSUME NEW u \in Users
      PROVE  v[u] \in Nat /\ v[u] * a <= held[u] * b
  <2>1. v[u] = Prices!RedeemAssets(held[u], t, n)
    BY SameMath DEF Value, Redeems
  <2>2. held[u] \in Nat
    BY <1>1
  <2> HIDE DEF v, held, t, n
  <2>3. /\ Prices!RedeemAssets(held[u], t, n) \in Nat
        /\ Prices!RedeemAssets(held[u], t, n) * (t + VirtualOffset) <= held[u] * (n + VirtualOffset)
    BY <1>1, <2>2, Prices!RedeemBounds
  <2>4. QED
    BY <2>1, <2>3
<1>3. t = SumOver(held, Users)
  BY SameSum DEF Earnings!Total
<1>4. a \in Nat \ {0} /\ b \in Nat
  BY <1>1
<1> HIDE DEF v, held, t, n, a, b
<1>5. IsFiniteSet(Users) /\ (\A u \in Users : v[u] \in Nat)
      /\ \A u \in Users : v[u] * a <= held[u] * b
  BY <1>2, EarningsConstants
<1>6. SumOver(v, Users) * a <= t * b
  BY <1>1, <1>3, <1>4, <1>5, SumScaled
<1>7. SumOver(v, Users) \in Nat
  BY <1>5, SumType
<1>8. t * b <= n * a
  <2>1. t * b = t * n + t * VirtualOffset /\ n * a = t * n + n * VirtualOffset
    BY <1>1 DEF a, b
  <2>2. t * VirtualOffset <= n * VirtualOffset
    BY <1>1, Prices!ProductMonotone
  <2>3. t * n \in Int /\ t * VirtualOffset \in Int /\ n * VirtualOffset \in Int
    BY <1>1
  <2>4. QED
    BY <2>1, <2>2, <2>3
<1>9. SumOver(v, Users) * a <= n * a
  <2>1. SumOver(v, Users) * a \in Int /\ t * b \in Int /\ n * a \in Int
    BY <1>1, <1>4, <1>7
  <2>2. QED
    BY <1>6, <1>8, <2>1
<1>10. SumOver(v, Users) <= n
  BY <1>1, <1>4, <1>7, <1>9, Prices!QuotientBelow
<1>11. QED
  BY <1>10 DEF v, n

(* So each single position is worth no more than what was kept of it, the  *)
(* interest and dust.                                                      *)
LEMMA ValueIsKept ==
  ASSUME Backed, Booked, YieldInv, NEW u \in Users, NEW c \in Priced
  PROVE  /\ Kept(u, c) \in Nat /\ Kept(u, c) <= Put(Len(history), u, c)
         /\ Value(u, c) <= Kept(u, c) + gained[now][c] + DustOf(c)
<1> DEFINE f == KeptBy(c)
           v == [w \in Users |-> Value(w, c)]
<1>1. ASSUME NEW w \in Users
      PROVE  /\ f[w] = Kept(w, c) /\ v[w] = Value(w, c) /\ f[w] \in Nat /\ v[w] \in Nat
             /\ f[w] <= v[w] /\ f[w] <= Put(Len(history), w, c)
  <2>1. Short(w, c) /\ Value(w, c) \in Nat
    BY ShortIsLast DEF YieldInv, Position, LastOfShort
  <2>2. QED
    BY <2>1 DEF KeptBy, Kept, Short
<1>2. nav[c] <= SumOver(f, Users) + gained[now][c] + DustOf(c)
  BY DEF YieldInv, Earnt
<1>3. SumOver(v, Users) <= nav[c]
  BY ValuesWithinNav
<1>4. gained[now][c] \in Nat /\ DustOf(c) \in Nat /\ nav[c] \in Nat
  BY ShortIsLast, BackedNumbers DEF YieldInv, Gains, LastOfShort, AllNumbers, Numbers
<1>5. IsFiniteSet(Users)
  BY EarningsConstants
<1> HIDE DEF f, v
<1>6. SumOver(f, Users) \in Nat /\ SumOver(v, Users) \in Nat
  BY <1>1, <1>5, SumType
<1>7. v[u] - f[u] <= SumOver(v, Users) - SumOver(f, Users)
  <2>1. /\ \A w \in Users : f[w] \in Nat
        /\ \A w \in Users : v[w] \in Nat
        /\ \A w \in Users : f[w] <= v[w]
    BY <1>1
  <2>2. QED
    BY <1>5, <2>1, SummandGap
<1>8. v[u] <= f[u] + gained[now][c] + DustOf(c)
  <2>1. f[u] \in Nat /\ v[u] \in Nat
    BY <1>1
  <2>2. QED
    BY <1>2, <1>3, <1>4, <1>6, <1>7, <2>1
<1>9. QED
  BY <1>1, <1>8

(* A value that was read, against the first k events of its owner.         *)
Within(x, k, u, c) ==
  /\ x <= Put(k, u, c) + gained[now][c] + Missing("deposit", k, u, c) + DustOf(c)
  /\ Put(k, u, c) <= x + Missing("withdraw", k, u, c) + DustOf(c)

(* The values of a request, against the events that it took.               *)
ReadInv == from = 1 =>
  \A u \in Users, k \in Nat, i \in 1 .. Len(asked.values), x \in Nat :
    asked.who = u /\ asked.seen = k /\ asked.values[i] = x => Within(x, k, u, Buckets[i])

(* A value is within its bounds when it is read.                           *)
LEMMA ValueWithin ==
  ASSUME Backed, Booked, YieldInv, NEW u \in Users, NEW c \in Priced, NEW k \in 0 .. Len(history)
  PROVE  Within(Value(u, c), k, u, c)
<1>1. /\ Kept(u, c) \in Nat /\ Kept(u, c) <= Put(Len(history), u, c)
      /\ Value(u, c) <= Kept(u, c) + gained[now][c] + DustOf(c)
  BY ValueIsKept
<1>2. /\ Put(k, u, c) \in Nat /\ Put(Len(history), u, c) \in Nat
      /\ Put(k, u, c) <= Value(u, c) + Missing("withdraw", k, u, c) + DustOf(c)
      /\ Put(Len(history), u, c) <= Put(k, u, c) + Missing("deposit", k, u, c)
  BY DEF YieldInv, Position, PositionAt, Short
<1>3. /\ gained[now][c] \in Nat /\ DustOf(c) \in Nat /\ Value(u, c) \in Nat
  BY ShortIsLast DEF YieldInv, Gains, LastOfShort
<1>4. Missing("withdraw", k, u, c) \in Nat /\ Missing("deposit", k, u, c) \in Nat
  BY HistorySums DEF Booked
<1>5. Value(u, c) <= Put(k, u, c) + gained[now][c] + Missing("deposit", k, u, c) + DustOf(c)
  <2> DEFINE v == Value(u, c)
             kept == Kept(u, c)
             last == Put(Len(history), u, c)
             p == Put(k, u, c)
             g == gained[now][c]
             md == Missing("deposit", k, u, c)
             D == DustOf(c)
  <2>1. v \in Nat /\ kept \in Nat /\ last \in Nat /\ p \in Nat /\ g \in Nat /\ md \in Nat /\ D \in Nat
    BY <1>1, <1>2, <1>3, <1>4
  <2>2. kept <= last /\ v <= kept + g + D /\ last <= p + md
    BY <1>1, <1>2
  <2> HIDE DEF v, kept, last, p, g, md, D
  <2>3. v <= p + g + md + D
    BY <2>1, <2>2
  <2>4. QED
    BY <2>3 DEF v, p, g, md, D
<1>6. QED
  BY <1>2, <1>5 DEF Within

(* What is known of an event list stays true of it.                        *)
LEMMA ListStays ==
  ASSUME Backed, Booked, Advances, NEW u \in Users, NEW c \in Priced, NEW k \in 0 .. Len(history)
  PROVE  /\ Put(k, u, c)' = Put(k, u, c) /\ HeldAt(k, u, c)' = HeldAt(k, u, c)
         /\ Len(history) <= Len(history')
         /\ Later("withdraw", k, u, c) \subseteq Later("withdraw", k, u, c)'
         /\ \A kind \in {"deposit", "withdraw"} :
              /\ Missing(kind, k, u, c) \in Nat /\ Missing(kind, k, u, c)' \in Nat
              /\ Missing(kind, k, u, c) <= Missing(kind, k, u, c)'
<1>1. history \in Seq(Entries) /\ Len(history) \in Nat
  BY DEF Booked
<1>2. \A kind : Missing(kind, k, u, c) \in Nat
  BY <1>1, HistorySums
<1>3. ASSUME history' = history
      PROVE  /\ Put(k, u, c)' = Put(k, u, c) /\ HeldAt(k, u, c)' = HeldAt(k, u, c)
             /\ Len(history) <= Len(history')
             /\ Later("withdraw", k, u, c) \subseteq Later("withdraw", k, u, c)'
             /\ \A kind : Missing(kind, k, u, c)' = Missing(kind, k, u, c)
  <2>1. Put(k, u, c)' = Put(k, u, c)
    BY <1>3 DEF Put
  <2>2. HeldAt(k, u, c)' = HeldAt(k, u, c)
    BY <1>3 DEF HeldAt, Basis
  <2>3. \A kind : Later(kind, k, u, c)' = Later(kind, k, u, c)
    BY <1>3 DEF Later
  <2>4. AmountOf' = AmountOf
    BY <1>3 DEF AmountOf
  <2>5. \A kind : Missing(kind, k, u, c)' = Missing(kind, k, u, c)
    BY <2>3, <2>4 DEF Missing
  <2>6. Len(history) <= Len(history')
    BY <1>1, <1>3
  <2>7. QED
    BY <2>1, <2>2, <2>3, <2>5, <2>6
<1>4. ASSUME NEW e \in Entries, history' = Append(history, e)
      PROVE  /\ Put(k, u, c)' = Put(k, u, c) /\ HeldAt(k, u, c)' = HeldAt(k, u, c)
             /\ Len(history) <= Len(history')
             /\ Later("withdraw", k, u, c) \subseteq Later("withdraw", k, u, c)'
             /\ \A kind : /\ Missing(kind, k, u, c)' \in Nat
                          /\ Missing(kind, k, u, c) <= Missing(kind, k, u, c)'
  <2>1. ASSUME NEW kind
        PROVE  /\ Missing(kind, k, u, c)' \in Nat
               /\ Missing(kind, k, u, c) <= Missing(kind, k, u, c)'
    <3>1. Missing(kind, k, u, c)'
            = Missing(kind, k, u, c) + IF e.kind = kind /\ Mine(e, u, c) THEN e.amount ELSE 0
      BY <1>1, <1>4, OneMoreEvent
    <3>2. e.amount \in Nat
      BY DEF Entries
    <3>3. QED
      BY <1>2, <3>1, <3>2
  <2>2. Len(history') = Len(history) + 1
    BY <1>1, <1>4, OneMoreEvent
  <2>3. QED
    BY <1>1, <1>4, <2>1, <2>2, OneMoreEvent
<1>5. CASE history' = history
  <2>1. \A kind : /\ Missing(kind, k, u, c) \in Nat /\ Missing(kind, k, u, c)' \in Nat
                  /\ Missing(kind, k, u, c) <= Missing(kind, k, u, c)'
    BY <1>2, <1>3, <1>5
  <2>2. QED
    BY <1>3, <1>5, <2>1
<1>6. CASE \E e \in Entries : history' = Append(history, e)
  BY <1>2, <1>4, <1>6
<1>7. QED
  BY <1>5, <1>6 DEF Advances

(* A value that was within its bounds stays so.                            *)
LEMMA WithinStays ==
  ASSUME EarningsInv, EarningsInv', YieldInv, YieldInv', LastOfShort, LastOfShort', Advances,
         NEW x \in Nat, NEW u \in Users, NEW c \in Priced, NEW k \in 0 .. Len(history),
         Within(x, k, u, c)
  PROVE  Within(x, k, u, c)'
<1>1. /\ Put(k, u, c)' = Put(k, u, c)
      /\ \A kind \in {"deposit", "withdraw"} :
           /\ Missing(kind, k, u, c) \in Nat /\ Missing(kind, k, u, c)' \in Nat
           /\ Missing(kind, k, u, c) <= Missing(kind, k, u, c)'
  BY ListStays DEF EarningsInv
<1>2. DustOf(c) \in Nat /\ DustOf(c)' \in Nat /\ DustOf(c) <= DustOf(c)'
  BY DEF LastOfShort, Advances
<1>3. Put(k, u, c) \in Nat
  BY DEF YieldInv, Position, PositionAt
<1>4. gained[now][c] \in Nat /\ gained'[now'][c] \in Nat /\ gained[now][c] <= gained'[now'][c]
  BY DEF YieldInv, Gains, Advances
<1>5. /\ x <= Put(k, u, c) + gained[now][c] + Missing("deposit", k, u, c) + DustOf(c)
      /\ Put(k, u, c) <= x + Missing("withdraw", k, u, c) + DustOf(c)
  BY DEF Within
<1>6. /\ x <= Put(k, u, c)' + gained'[now'][c] + Missing("deposit", k, u, c)' + DustOf(c)'
      /\ Put(k, u, c)' <= x + Missing("withdraw", k, u, c)' + DustOf(c)'
  <2> DEFINE p == Put(k, u, c)
             g == gained[now][c]
             gg == gained'[now'][c]
             md == Missing("deposit", k, u, c)
             mdd == Missing("deposit", k, u, c)'
             mw == Missing("withdraw", k, u, c)
             mww == Missing("withdraw", k, u, c)'
             D == DustOf(c)
             DD == DustOf(c)'
  <2>1. /\ p \in Nat /\ g \in Nat /\ gg \in Nat /\ D \in Nat /\ DD \in Nat
        /\ md \in Nat /\ mdd \in Nat /\ mw \in Nat /\ mww \in Nat
        /\ g <= gg /\ D <= DD /\ md <= mdd /\ mw <= mww
        /\ x <= p + g + md + D /\ p <= x + mw + D
    BY <1>1, <1>2, <1>3, <1>4, <1>5
  <2> HIDE DEF p, g, gg, md, mdd, mw, mww, D, DD
  <2>2. x <= p + gg + mdd + DD /\ p <= x + mww + DD
    BY <2>1
  <2>3. QED
    BY <1>1, <2>2 DEF p, gg, mdd, mww, DD
<1>7. QED
  BY <1>6 DEF Within

-----------------------------------------------------------------------------
(* What a step does to the request.                                        *)
Reads ==
  /\ asked.who # NoUser /\ Len(asked.values) # Len(Buckets)
  /\ asked'.who = asked.who /\ asked'.seen = asked.seen /\ asked'.events = asked.events
  /\ asked'.values = Append(asked.values, Value(asked.who, Buckets[Len(asked.values) + 1]))

(* A step leaves the request, ends it, starts one or reads a value.        *)
LEMMA RequestIs ==
  ASSUME EarningsInv, [Earnings!Next]_(Earnings!vars)
  PROVE  /\ from' = from
         /\ asked' = asked \/ asked'.who = NoUser \/ asked'.values = <<>> \/ Reads
<1>1. ASSUME NEW u \in Users, NEW c \in Earnings!Currencies,
             Earnings!Deposit(u, c) \/ Earnings!Withdraw(u, c)
      PROVE  from' = from /\ asked' = asked
  BY <1>1 DEF Earnings!Deposit, Earnings!Withdraw, Earnings!Logged, Earnings!serverVars
<1>2. ASSUME NEW c \in Earnings!Currencies, Earnings!Accrue(c)
      PROVE  from' = from /\ asked' = asked
  BY <1>2 DEF Earnings!Accrue, Earnings!serverVars
<1>3. CASE \/ Earnings!TimePasses \/ Earnings!Poll \/ Earnings!StartTick \/ Earnings!Sample
           \/ Earnings!SampleThrows \/ UNCHANGED Earnings!vars
  BY <1>3 DEF Earnings!TimePasses, Earnings!Poll, Earnings!StartTick, Earnings!Sample,
              Earnings!SampleThrows, Earnings!vars, Earnings!serverVars
<1>4. CASE Earnings!Restart \/ Earnings!Answer
  BY <1>4 DEF Earnings!Restart, Earnings!Answer, Earnings!NotAsked
<1>5. ASSUME NEW u \in Users, Earnings!Ask(u)
      PROVE  from' = from /\ asked'.values = <<>>
  BY <1>5 DEF Earnings!Ask
<1>6. CASE Earnings!ReadValue
  <2> DEFINE c == Buckets[Len(asked.values) + 1]
             v == Earnings!RedeemAssets(shares[c][asked.who], Earnings!Total(c), nav[c])
  <2>1. /\ asked.who # NoUser /\ Len(asked.values) # Len(Buckets) /\ from' = from
        /\ asked' = [asked EXCEPT !.values = Append(@, v)]
    BY <1>6 DEF Earnings!ReadValue, Earnings!AllRead
  <2>2. asked = [who |-> asked.who, events |-> asked.events, seen |-> asked.seen,
                 values |-> asked.values]
    BY DEF EarningsInv, Requested
  <2>3. v = Value(asked.who, c)
    BY DEF Value, Redeems
  <2> HIDE DEF v
  <2>4. /\ asked'.who = asked.who /\ asked'.seen = asked.seen /\ asked'.events = asked.events
        /\ asked'.values = Append(asked.values, v)
    BY <2>1, <2>2
  <2>5. QED
    BY <2>1, <2>3, <2>4 DEF Reads
<1>7. QED
  BY <1>1, <1>2, <1>3, <1>4, <1>5, <1>6 DEF Earnings!Next

LEMMA ReadStart == ASSUME Earnings!Init PROVE ReadInv
<1>1. asked.who = NoUser /\ NoUser \notin Users
  BY EarningsConstants DEF Earnings!Init, Earnings!NotAsked
<1>2. QED
  BY <1>1 DEF ReadInv

(* A value that is read is within its bounds, and stays so.                *)
LEMMA ReadStep ==
  ASSUME EarningsInv, EarningsInv', YieldInv, YieldInv', LastOfShort, LastOfShort', Advances,
         ReadInv, [Earnings!Next]_(Earnings!vars)
  PROVE  ReadInv'
<1> SUFFICES ASSUME from' = 1, NEW u \in Users, NEW k \in Nat,
                    NEW i \in 1 .. Len(asked'.values), NEW x \in Nat,
                    asked'.who = u, asked'.seen = k, asked'.values[i] = x
             PROVE  Within(x, k, u, Buckets[i])'
  BY DEF ReadInv
<1>1. from = 1 /\ (asked' = asked \/ asked'.values = <<>> \/ Reads)
  BY RequestIs, EarningsConstants
<1>2. CASE asked' = asked
  <2>1. /\ asked.who = u /\ asked.seen = k /\ asked.values[i] = x
        /\ i \in 1 .. Len(asked.values)
    BY <1>2
  <2>2. u # NoUser
    BY EarningsConstants
  <2>3. k \in 0 .. Len(history) /\ asked.values \in Seq(Nat) /\ Len(asked.values) <= Len(Buckets)
    BY <1>1, <2>1, <2>2 DEF EarningsInv, Complete
  <2>4. Buckets[i] \in Priced
    BY <2>1, <2>3, EarningsConstants
  <2>5. Within(x, k, u, Buckets[i])
    BY <1>1, <2>1 DEF ReadInv
  <2>6. QED
    BY <2>3, <2>4, <2>5, WithinStays
<1>3. CASE asked'.values = <<>>
  BY <1>3
<1>4. CASE Reads
  <2>1. asked.who = u /\ asked.seen = k /\ u # NoUser
    BY <1>4 DEF Reads
  <2>2. /\ k \in 0 .. Len(history) /\ asked.values \in Seq(Nat)
        /\ Len(asked.values) <= Len(Buckets) /\ Len(asked.values) # Len(Buckets)
    BY <1>1, <1>4, <2>1 DEF EarningsInv, Complete, Reads
  <2> DEFINE m == Len(asked.values) + 1
             v == Value(u, Buckets[m])
  <2>3. m \in 1 .. Len(Buckets) /\ Buckets[m] \in Priced
    BY <2>2, EarningsConstants
  <2>4. v \in Nat
    BY <2>3 DEF LastOfShort
  <2>5. asked'.values = Append(asked.values, v)
    BY <1>4, <2>1 DEF Reads
  <2>6. Within(v, k, u, Buckets[m])
    BY <2>2, <2>3, ValueWithin DEF EarningsInv
  <2> HIDE DEF v
  <2>7. CASE i = m
    <3>1. x = v
      BY <2>2, <2>4, <2>5, <2>7
    <3>2. QED
      BY <2>2, <2>3, <2>6, <2>7, <3>1, WithinStays
  <2>8. CASE i # m
    <3>1. i \in 1 .. Len(asked.values) /\ asked.values[i] = x
      <4> DEFINE old == asked.values
                 new == asked'.values
      <4>1. old \in Seq(Nat) /\ v \in Nat /\ new = Append(old, v)
        BY <2>2, <2>4, <2>5
      <4>2. i \in 1 .. Len(new) /\ new[i] = x /\ i # Len(old) + 1
        BY <2>8
      <4> HIDE DEF old, new
      <4>3. i \in 1 .. Len(old) /\ old[i] = x
        BY <4>1, <4>2
      <4>4. QED
        BY <4>3 DEF old
    <3>2. Within(x, k, u, Buckets[i])
      BY <1>1, <2>1, <3>1 DEF ReadInv
    <3>3. Buckets[i] \in Priced
      BY <2>2, <3>1, EarningsConstants
    <3>4. QED
      BY <2>2, <3>2, <3>3, WithinStays
  <2>9. QED
    BY <2>7, <2>8
<1>5. QED
  BY <1>1, <1>2, <1>3, <1>4

(* The value read for a bucket is one of the request's values.             *)
LEMMA ValueReadIs ==
  ASSUME EarningsInv, Earnings!Complete, NEW c \in Priced
  PROVE  \E i \in 1 .. Len(asked.values) : Buckets[i] = c /\ asked.values[i] = Earnings!ValueRead(c)
<1> DEFINE i == CHOOSE n \in DOMAIN Buckets : Buckets[n] = c
<1>1. i \in DOMAIN Buckets /\ Buckets[i] = c
  <2>1. \E n \in DOMAIN Buckets : Buckets[n] = c
    BY DEF Priced, Earnings!Currencies, Earnings!Range
  <2>2. QED
    BY <2>1
<1>2. asked.values[i] = Earnings!ValueRead(c)
  BY DEF Earnings!ValueRead
<1> HIDE DEF i
<1>3. i \in 1 .. Len(asked.values)
  BY <1>1, EarningsConstants DEF Earnings!Complete, Earnings!AllRead
<1>4. QED
  BY <1>1, <1>2, <1>3

(* The bounds of the values bound the headline.                            *)
LEMMA HeadlineServed ==
  ASSUME EarningsInv, YieldInv, ReadInv
  PROVE  Earnings!HeadlineIsYield
<1> SUFFICES ASSUME Earnings!Complete, NEW c \in Priced
             PROVE  /\ Earnings!Earned(c)
                         <= gained[now][c] + Earnings!Unseen("deposit", c) + Earnings!Dust(c)
                    /\ Earnings!Earned(c) >= 0 - Earnings!Unseen("withdraw", c) - Earnings!Dust(c)
  BY DEF Earnings!HeadlineIsYield, Priced
<1>1. PICK i \in 1 .. Len(asked.values) :
        Buckets[i] = c /\ asked.values[i] = Earnings!ValueRead(c)
  BY ValueReadIs
<1>2. PICK u, k : u = asked.who /\ k = asked.seen
  OBVIOUS
<1>3. /\ u \in Users /\ k \in 0 .. Len(history) /\ asked.events = SubSeq(history, 1, k)
      /\ asked.values \in Seq(Nat) /\ from = 1
  BY <1>2 DEF EarningsInv, Complete, Earnings!Complete, Earnings!AllRead
<1>4. Earnings!ValueRead(c) \in Nat /\ k \in Nat
  BY <1>1, <1>3
<1> DEFINE x == Earnings!ValueRead(c)
           p == Put(k, u, c)
           g == gained[now][c]
           md == Missing("deposit", k, u, c)
           mw == Missing("withdraw", k, u, c)
           D == DustOf(c)
<1>5. Within(x, k, u, c)
  BY <1>1, <1>2, <1>3, <1>4 DEF ReadInv
<1>6. x <= p + g + md + D /\ p <= x + mw + D
  BY <1>5 DEF Within
<1>7. Earnings!Earned(c) = x - p
  BY <1>2, <1>3 DEF Earnings!Earned, Put
<1>8. /\ Earnings!Unseen("deposit", c) = md /\ Earnings!Unseen("withdraw", c) = mw
      /\ Earnings!Dust(c) = D
  BY <1>2, UnseenIs, DustIs DEF DustOf
<1>9. x \in Nat /\ p \in Nat /\ g \in Nat /\ md \in Nat /\ mw \in Nat /\ D \in Nat
  <2>1. p \in Nat
    BY <1>3 DEF YieldInv, Position, PositionAt
  <2>2. md \in Nat /\ mw \in Nat
    BY <1>3, HistorySums DEF EarningsInv, Booked
  <2>3. g \in Nat
    BY DEF YieldInv, Gains
  <2>4. D \in Nat
    BY <1>3, ShortIsLast DEF EarningsInv, LastOfShort
  <2>5. QED
    BY <1>4, <2>1, <2>2, <2>3, <2>4
<1> HIDE DEF x, p, g, md, mw, D
<1>10. x - p <= g + md + D /\ x - p >= 0 - mw - D
  BY <1>6, <1>9
<1>11. QED
  BY <1>7, <1>8, <1>10 DEF g

(* What the headline calls earned is interest, whatever the steps of the   *)
(* vault's users and of the server's loops in between: never more than the *)
(* bucket gained and what the store did not hold yet, never less than dust *)
(* (api/earnings.ts; cost-basis.ts; realtime.ts).                          *)
THEOREM HeadlineTheorem == Earnings!Spec => []HeadlineIsYield
<1> DEFINE Whole == EarningsInv /\ YieldInv /\ ReadInv
<1>1. EarningsInv => AllNumbers /\ LastOfShort
  BY BackedNumbers, ShortIsLast DEF EarningsInv
<1>2. Earnings!Init => Whole
  BY <1>1, EarningsStart, YieldStart, ReadStart
<1>3. EarningsInv /\ [Earnings!Next]_(Earnings!vars) => EarningsInv'
  BY EarningsStep
<1>4. EarningsInv' => AllNumbers' /\ LastOfShort'
  BY <1>1, PTL
<1>5. Whole /\ [Earnings!Next]_(Earnings!vars) => Whole'
  BY <1>1, <1>3, <1>4, YieldStep, ReadStep
<1>6. Whole => HeadlineIsYield
  BY HeadlineServed DEF HeadlineIsYield
<1>7. QED
  BY <1>2, <1>5, <1>6, PTL DEF Earnings!Spec

-----------------------------------------------------------------------------
(* The chart invents nothing. Its points are of the past: what a bucket    *)
(* was quoted at a time, and what was known then, stay as they were.       *)
LEMMA ChartConstants ==
  /\ SCALE \in Nat \ {0} /\ MaxTime \in Nat /\ Month \in Nat \ {0} /\ RANGE_MS \subseteq Nat
  /\ Rate \in [Priced -> Nat \ {0}] /\ IsFiniteSet(Priced)
<1>1. IsFiniteSet(Priced)
  <2>1. Priced = {Buckets[i] : i \in DOMAIN Buckets}
    BY DEF Priced, Earnings!Currencies, Earnings!Range
  <2>2. DOMAIN Buckets = 1 .. Len(Buckets) /\ Len(Buckets) \in Nat
    BY EarningsConstants
  <2>3. IsFiniteSet(1 .. Len(Buckets))
    BY <2>2, FS_Interval
  <2>4. Buckets \in Surjection(1 .. Len(Buckets), Priced)
    BY <2>1, <2>2, EarningsConstants DEF Surjection
  <2>5. QED
    BY <2>3, <2>4, FS_Surjection
<1>2. QED
  BY <1>1, BackendAssumption DEF Earnings!ConstantsOK, Priced

(* A price at which no shares are worth more than they redeem for.         *)
Fair(price, c) == \A x \in Nat : (x * price) \div SCALE <= Redeems(x, c)

SnapAt(c, n) ==
  /\ snaps[c][n].price \in Nat /\ snaps[c][n].ts \in Nat /\ snaps[c][n].ts <= now
  /\ \A m \in 1 .. n : snaps[c][m].ts <= snaps[c][n].ts
  /\ \A x \in Nat : (x * snaps[c][n].price) \div SCALE <= Redeems(x, c)

SnapsInv ==
  /\ ticking \in Seq(Priced)
  /\ snaps \in [Priced -> Seq([price : Nat, ts : Nat])]
  /\ \A c \in Priced : \A n \in 1 .. Len(snaps[c]) : SnapAt(c, n)

(* Par and the price now are fair.                                         *)
LEMMA PriceIsFair ==
  ASSUME Backed, NEW c \in Priced
  PROVE  /\ Earnings!sharePrice(c) \in Nat /\ Fair(Earnings!sharePrice(c), c)
         /\ Fair(SCALE, c)
<1> DEFINE t == Earnings!Total(c)
           n == nav[c]
           p == Earnings!sharePrice(c)
<1>1. /\ t \in Nat /\ n \in Nat /\ t <= n
  BY BackedNumbers DEF AllNumbers, Numbers
<1>2. VirtualOffset \in Nat \ {0} /\ SCALE \in Nat \ {0}
  BY EarningsConstants, ChartConstants
<1>3. \A x : Redeems(x, c) = Prices!RedeemAssets(x, t, n)
  BY SameMath DEF Redeems
<1>4. p = ((n + VirtualOffset) * SCALE) \div (t + VirtualOffset)
  BY DEF Earnings!sharePrice
<1> HIDE DEF t, n, p
<1>5. p \in Nat /\ p * (t + VirtualOffset) <= (n + VirtualOffset) * SCALE
  <2>1. (n + VirtualOffset) * SCALE \in Nat /\ t + VirtualOffset \in Nat \ {0}
    BY <1>1, <1>2
  <2>2. QED
    BY <1>4, <2>1, Prices!DivisionBounds
<1>6. ASSUME NEW x \in Nat
      PROVE  (x * p) \div SCALE <= Redeems(x, c)
  <2>1. (x * p) \div SCALE <= Prices!RedeemAssets(x, t, n)
    BY <1>1, <1>2, <1>5, Prices!QuotedBelowRedeemed
  <2>2. QED
    BY <1>3, <2>1
<1>7. ASSUME NEW x \in Nat
      PROVE  (x * SCALE) \div SCALE <= Redeems(x, c)
  <2>1. (x * SCALE) \div SCALE <= Prices!RedeemAssets(x, t, n)
    BY <1>1, <1>2, Prices!QuotedAtPar
  <2>2. QED
    BY <1>3, <2>1
<1>8. QED
  BY <1>5, <1>6, <1>7 DEF Fair, p

(* What a step does to the snapshots.                                      *)
Sampled(c) ==
  /\ snaps' = [snaps EXCEPT ![c] =
                 Append(@, [price |-> Earnings!sharePrice(c), ts |-> now])]
  /\ UNCHANGED <<now, shares, nav, history, gained>>

(* A step leaves the snapshots, forgets them or takes one.                 *)
LEMMA SnapsAre ==
  ASSUME EarningsInv, SnapsInv, [Earnings!Next]_(Earnings!vars)
  PROVE  /\ ticking' \in Seq(Priced)
         /\ \/ snaps' = snaps \/ snaps' = [c \in Priced |-> <<>>]
            \/ \E c \in Priced : Sampled(c)
         /\ now' = now \/ UNCHANGED <<shares, nav, history, gained, snaps>>
<1>0. ticking \in Seq(Priced) /\ <<>> \in Seq(Priced)
  BY DEF SnapsInv
<1>1. ASSUME NEW u \in Users, NEW c \in Earnings!Currencies,
             Earnings!Deposit(u, c) \/ Earnings!Withdraw(u, c)
      PROVE  ticking' = ticking /\ snaps' = snaps /\ now' = now
  BY <1>1 DEF Earnings!Deposit, Earnings!Withdraw, Earnings!Logged, Earnings!serverVars
<1>2. ASSUME NEW c \in Earnings!Currencies, Earnings!Accrue(c)
      PROVE  ticking' = ticking /\ snaps' = snaps /\ now' = now
  BY <1>2 DEF Earnings!Accrue, Earnings!serverVars
<1>3. CASE \/ Earnings!Poll \/ Earnings!ReadValue \/ Earnings!Answer \/ UNCHANGED Earnings!vars
  BY <1>0, <1>3 DEF Earnings!Poll, Earnings!ReadValue, Earnings!Answer, Earnings!vars,
              Earnings!chainVars, Earnings!serverVars
<1>4. ASSUME NEW u \in Users, Earnings!Ask(u)
      PROVE  ticking' = ticking /\ snaps' = snaps /\ now' = now
  BY <1>4 DEF Earnings!Ask, Earnings!chainVars
<1>5. CASE Earnings!TimePasses
  BY <1>0, <1>5 DEF Earnings!TimePasses, Earnings!serverVars
<1>6. CASE Earnings!StartTick \/ Earnings!SampleThrows
  BY <1>0, <1>6, EarningsConstants
  DEF Earnings!StartTick, Earnings!SampleThrows, Earnings!chainVars
<1>7. CASE Earnings!Restart
  BY <1>0, <1>7 DEF Earnings!Restart, Earnings!chainVars, Priced
<1>8. CASE Earnings!Sample
  <2>1. ticking # <<>> /\ ticking' = Tail(ticking) /\ Sampled(Head(ticking))
    BY <1>8 DEF Earnings!Sample, Earnings!chainVars, Sampled
  <2>2. Head(ticking) \in Priced /\ Tail(ticking) \in Seq(Priced)
    BY <1>0, <2>1
  <2>3. QED
    BY <2>1, <2>2 DEF Sampled
<1>9. QED
  BY <1>0, <1>1, <1>2, <1>3, <1>4, <1>5, <1>6, <1>7, <1>8 DEF Earnings!Next

LEMMA SnapsStart == ASSUME Earnings!Init PROVE SnapsInv
<1>1. snaps = [c \in Priced |-> <<>>] /\ ticking = <<>>
  BY DEF Earnings!Init, Priced
<1>2. QED
  BY <1>1 DEF SnapsInv

(* A price that was fair stays so, and the price now is.                   *)
LEMMA SnapsStep ==
  ASSUME EarningsInv, AllNumbers, AllNumbers', SnapsInv, Advances,
         [Earnings!Next]_(Earnings!vars)
  PROVE  SnapsInv'
<1>1. now \in Nat /\ now' \in Nat /\ now <= now'
  BY DEF EarningsInv, Backed, Advances
<1>2. ticking' \in Seq(Priced)
  BY SnapsAre
<1>3. ASSUME NEW c \in Priced, NEW x \in Nat
      PROVE  Redeems(x, c) \in Nat /\ Redeems(x, c)' \in Nat /\ Redeems(x, c) <= Redeems(x, c)'
  BY DEF AllNumbers, Numbers, Advances, AllWorthier, Worthier
<1>4. ASSUME NEW price \in Nat, NEW c \in Priced, Fair(price, c)
      PROVE  \A x \in Nat : (x * price) \div SCALE <= Redeems(x, c)'
  <2> TAKE x \in Nat
  <2>1. (x * price) \div SCALE <= Redeems(x, c)
    BY <1>4 DEF Fair
  <2>2. (x * price) \div SCALE \in Int
    <3>1. x * price \in Int /\ SCALE \in Nat \ {0}
      BY ChartConstants
    <3>2. QED
      BY <3>1
  <2>3. QED
    BY <1>3, <2>1, <2>2
<1>5. ASSUME NEW c \in Priced, NEW n \in 1 .. Len(snaps[c]),
             n \in 1 .. Len(snaps'[c]), \A m \in 1 .. n : snaps'[c][m] = snaps[c][m]
      PROVE  SnapAt(c, n)'
  <2>1. n \in 1 .. n /\ SnapAt(c, n)
    BY DEF SnapsInv
  <2>2. snaps'[c][n] = snaps[c][n]
    BY <1>5, <2>1
  <2>3. \A m \in 1 .. n : snaps'[c][m].ts <= snaps'[c][n].ts
    BY <1>5, <2>1, <2>2 DEF SnapAt
  <2>4. snaps'[c][n].price \in Nat /\ snaps'[c][n].ts \in Nat /\ snaps'[c][n].ts <= now'
    BY <1>1, <2>1, <2>2 DEF SnapAt
  <2>5. \A x \in Nat : (x * snaps'[c][n].price) \div SCALE <= Redeems(x, c)'
    <3>1. PICK price : price = snaps[c][n].price
      OBVIOUS
    <3>2. price \in Nat /\ Fair(price, c)
      BY <2>1, <3>1 DEF SnapAt, Fair
    <3>3. \A x \in Nat : (x * price) \div SCALE <= Redeems(x, c)'
      BY <1>4, <3>2
    <3>4. QED
      BY <2>2, <3>1, <3>3
  <2>6. QED
    BY <2>3, <2>4, <2>5 DEF SnapAt
<1>6. CASE snaps' = snaps
  <2>1. snaps' \in [Priced -> Seq([price : Nat, ts : Nat])]
    BY <1>6 DEF SnapsInv
  <2>2. ASSUME NEW c \in Priced, NEW n \in 1 .. Len(snaps'[c])
        PROVE  SnapAt(c, n)'
    BY <1>5, <1>6
  <2>3. QED
    BY <1>2, <2>1, <2>2 DEF SnapsInv
<1>7. CASE snaps' = [c \in Priced |-> <<>>]
  <2>1. snaps' \in [Priced -> Seq([price : Nat, ts : Nat])]
    BY <1>7
  <2>2. \A c \in Priced : Len(snaps'[c]) = 0
    BY <1>7
  <2>3. \A c \in Priced : \A n \in 1 .. Len(snaps'[c]) : SnapAt(c, n)'
    BY <2>2
  <2>4. QED
    BY <1>2, <2>1, <2>3 DEF SnapsInv
<1>8. ASSUME NEW d \in Priced, Sampled(d)
      PROVE  SnapsInv'
  <2> DEFINE snap == [price |-> Earnings!sharePrice(d), ts |-> now]
  <2>1. /\ snaps \in [Priced -> Seq([price : Nat, ts : Nat])]
        /\ snaps[d] \in Seq([price : Nat, ts : Nat]) /\ Len(snaps[d]) \in Nat
    BY DEF SnapsInv
  <2>2. Earnings!sharePrice(d) \in Nat /\ Fair(Earnings!sharePrice(d), d)
    BY PriceIsFair DEF EarningsInv
  <2>3. /\ snap \in [price : Nat, ts : Nat] /\ snap.price \in Nat /\ snap.ts = now
        /\ Fair(snap.price, d)
    BY <1>1, <2>2
  <2>4. snaps' = [snaps EXCEPT ![d] = Append(@, snap)] /\ now' = now
    BY <1>8 DEF Sampled
  <2> HIDE DEF snap
  <2>5. /\ Append(snaps[d], snap) \in Seq([price : Nat, ts : Nat])
        /\ Len(Append(snaps[d], snap)) = Len(snaps[d]) + 1
        /\ Append(snaps[d], snap)[Len(snaps[d]) + 1] = snap
        /\ \A n \in 1 .. Len(snaps[d]) : Append(snaps[d], snap)[n] = snaps[d][n]
    BY <2>1, <2>3, AppendProperties
  <2>6. /\ snaps' \in [Priced -> Seq([price : Nat, ts : Nat])]
        /\ snaps'[d] = Append(snaps[d], snap)
        /\ \A c \in Priced : c # d => snaps'[c] = snaps[c]
    BY <2>1, <2>4, <2>5
  <2>7. ASSUME NEW c \in Priced, NEW n \in 1 .. Len(snaps'[c])
        PROVE  SnapAt(c, n)'
    <3>1. CASE c # d
      BY <1>5, <2>6, <3>1
    <3>2. CASE c = d /\ n # Len(snaps[d]) + 1
      <4>1. n \in 1 .. Len(snaps[c]) /\ \A m \in 1 .. n : m \in 1 .. Len(snaps[c])
        <5>1. Len(snaps'[c]) = Len(snaps[c]) + 1 /\ Len(snaps[c]) \in Nat
          BY <2>1, <2>5, <2>6, <3>2
        <5>2. n # Len(snaps[c]) + 1
          BY <3>2
        <5>3. QED
          BY <5>1, <5>2
      <4>2. \A m \in 1 .. n : snaps'[c][m] = snaps[c][m]
        BY <2>5, <2>6, <3>2, <4>1
      <4>3. QED
        BY <1>5, <4>1, <4>2
    <3>3. CASE c = d /\ n = Len(snaps[d]) + 1
      <4>1. snaps'[c][n] = snap
        BY <2>5, <2>6, <3>3
      <4>2. ASSUME NEW m \in 1 .. n
            PROVE  snaps'[c][m].ts <= now
        <5>1. CASE m = n
          BY <1>1, <2>3, <4>1, <5>1
        <5>2. CASE m # n
          <6>1. m \in 1 .. Len(snaps[c])
            BY <2>1, <3>3, <5>2
          <6>2. snaps'[c][m] = snaps[c][m]
            BY <2>5, <2>6, <3>3, <6>1
          <6>3. QED
            BY <6>1, <6>2 DEF SnapsInv, SnapAt
        <5>3. QED
          BY <5>1, <5>2
      <4>3. \A x \in Nat : (x * snap.price) \div SCALE <= Redeems(x, c)'
        <5>1. PICK price : price = snap.price
          OBVIOUS
        <5>2. \A x \in Nat : (x * price) \div SCALE <= Redeems(x, c)'
          BY <1>4, <2>3, <3>3, <5>1
        <5>3. QED
          BY <5>1, <5>2
      <4>4. /\ snaps'[c][n].price \in Nat /\ snaps'[c][n].ts = now
        BY <2>3, <4>1
      <4>5. \A x \in Nat : (x * snaps'[c][n].price) \div SCALE <= Redeems(x, c)'
        BY <4>1, <4>3
      <4>6. QED
        BY <1>1, <2>4, <4>2, <4>4, <4>5 DEF SnapAt
    <3>4. QED
      BY <3>1, <3>2, <3>3
  <2>8. QED
    BY <1>2, <2>6, <2>7 DEF SnapsInv
<1>9. QED
  BY <1>6, <1>7, <1>8, SnapsAre

-----------------------------------------------------------------------------
(* The prices that stood at a time, and the event lists that have all of a *)
(* position's withdrawals up to it.                                        *)
Quoted(c, t) ==
  {SCALE} \cup {snaps[c][n].price : n \in {m \in 1 .. Len(snaps[c]) : snaps[c][m].ts <= t}}

Settled(k, t, u, c) ==
  /\ \A n \in 1 .. k : history[n].ts <= t
  /\ \A n \in Later("withdraw", k, u, c) : history[n].ts > t

(* What a position showed as earned at a time, against the interest then.  *)
Shown(k, t, u, c) ==
  \A price \in Quoted(c, t) :
    (HeldAt(k, u, c) * price) \div SCALE <= Put(k, u, c) + gained[t][c] + 2 * DustOf(c)

PastInv ==
  \A t \in 0 .. MaxTime, u \in Users, c \in Priced : \A k \in 0 .. Len(history) :
    t < now /\ Settled(k, t, u, c) => Shown(k, t, u, c)

(* A price that stood at any time is fair.                                 *)
LEMMA QuotedIsFair ==
  ASSUME Backed, SnapsInv, NEW c \in Priced, NEW t, NEW price \in Quoted(c, t)
  PROVE  price \in Nat /\ Fair(price, c)
<1>1. CASE price = SCALE
  BY <1>1, PriceIsFair, ChartConstants
<1>2. ASSUME NEW n \in 1 .. Len(snaps[c]), price = snaps[c][n].price
      PROVE  price \in Nat /\ Fair(price, c)
  BY <1>2 DEF SnapsInv, SnapAt, Fair
<1>3. QED
  BY <1>1, <1>2 DEF Quoted

(* Without later withdrawals a position shows no more than its shares are  *)
(* worth, and of that no more than interest as earned.                     *)
LEMMA ShownNow ==
  ASSUME Backed, Booked, YieldInv, NEW u \in Users, NEW c \in Priced,
         NEW k \in 0 .. Len(history), Later("withdraw", k, u, c) = {},
         NEW price \in Nat, Fair(price, c)
  PROVE  /\ (HeldAt(k, u, c) * price) \div SCALE <= Value(u, c)
         /\ (HeldAt(k, u, c) * price) \div SCALE
              <= Put(k, u, c) + gained[now][c] + 2 * DustOf(c)
<1> DEFINE h == HeldAt(k, u, c)
           s == shares[c][u]
           w == (h * price) \div SCALE
           p == Put(k, u, c)
           last == Put(Len(history), u, c)
           kept == Kept(u, c)
           v == Value(u, c)
           g == gained[now][c]
           D == DustOf(c)
           since == Since(k, u, c)
<1>1. AllNumbers /\ LastOfShort
  BY BackedNumbers, ShortIsLast
<1>2. /\ p \in Nat /\ h \in Nat /\ h <= s /\ last <= p + since + D
  BY DEF YieldInv, Position, PositionAt
<1>3. s \in Nat /\ D \in Nat /\ v \in Nat /\ g \in Nat
  BY <1>1 DEF AllNumbers, Numbers, LastOfShort, YieldInv, Gains
<1>4. kept \in Nat /\ kept <= last /\ v <= kept + g + D
  BY ValueIsKept
<1>5. last \in Nat
  BY DEF YieldInv, Position, Short
<1>6. w <= Redeems(h, c)
  BY <1>2 DEF Fair
<1>7. w \in Nat
  <2>1. h * price \in Nat /\ SCALE \in Nat \ {0}
    BY <1>2, ChartConstants
  <2> HIDE DEF h
  <2>2. (h * price) \div SCALE \in Nat
    BY <2>1, Prices!DivisionBounds
  <2>3. QED
    BY <2>2 DEF h
<1>8. Redeems(h, c) \in Nat /\ since \in Nat /\ Redeems(h, c) + since <= v
  <2>1. s - h \in Nat /\ h + (s - h) = s /\ h \in Nat
    <3>1. s \in Nat /\ h \in Nat /\ h <= s
      BY <1>2, <1>3
    <3> HIDE DEF s, h, w, p, last, kept, v, g, D, since
    <3>2. QED
      BY <3>1
  <2>2. /\ \A x \in Nat : Redeems(x, c) \in Nat
        /\ \A x, y \in Nat : Redeems(x, c) + Redeems(y, c) <= Redeems(x + y, c)
    BY <1>1 DEF AllNumbers, Numbers
  <2>3. v = Redeems(s, c) /\ since = Redeems(s - h, c)
    BY DEF Value, Since
  <2> HIDE DEF s, h, v, since
  <2>4. QED
    BY <2>1, <2>2, <2>3
<1> DEFINE r == Redeems(h, c)
<1>9. w <= r /\ r \in Nat /\ since \in Nat /\ r + since <= v
  BY <1>6, <1>8
<1> HIDE DEF h, s, w, p, last, kept, v, g, D, since, r
<1>10. w <= v /\ w <= p + g + 2 * D
  BY <1>2, <1>3, <1>4, <1>5, <1>7, <1>9
<1>11. QED
  BY <1>10 DEF h, w, p, v, g, D

LEMMA PastStart == ASSUME Earnings!Init PROVE PastInv
BY DEF PastInv, Earnings!Init

(* The past of a step is the past before it, but for the moment that ends. *)
LEMMA QuotedStays ==
  ASSUME EarningsInv, SnapsInv, [Earnings!Next]_(Earnings!vars),
         NEW c \in Priced, NEW t \in Int, t < now'
  PROVE  Quoted(c, t)' \subseteq Quoted(c, t)
<1>1. CASE snaps' = snaps
  BY <1>1 DEF Quoted
<1>2. CASE snaps' = [d \in Priced |-> <<>>]
  <2>1. Len(snaps'[c]) = 0
    BY <1>2
  <2>2. QED
    BY <2>1 DEF Quoted
<1>3. ASSUME NEW d \in Priced, Sampled(d)
      PROVE  Quoted(c, t)' \subseteq Quoted(c, t)
  <2>1. snaps[d] \in Seq([price : Nat, ts : Nat]) /\ snaps \in [Priced -> Seq([price : Nat, ts : Nat])]
    BY DEF SnapsInv
  <2> DEFINE snap == [price |-> Earnings!sharePrice(d), ts |-> now]
  <2>2. snap.ts = now /\ snap \in [price : Nat, ts : Nat]
    BY PriceIsFair DEF EarningsInv, Backed
  <2>3. snaps' = [snaps EXCEPT ![d] = Append(@, snap)] /\ now' = now
    BY <1>3 DEF Sampled
  <2> HIDE DEF snap
  <2>4. snaps'[c] = IF c = d THEN Append(snaps[d], snap) ELSE snaps[c]
    BY <2>1, <2>3
  <2>5. CASE c # d
    BY <2>4, <2>5 DEF Quoted
  <2>6. CASE c = d
    <3>1. /\ Len(snaps'[c]) = Len(snaps[c]) + 1 /\ Len(snaps[c]) \in Nat
          /\ snaps'[c][Len(snaps[c]) + 1] = snap
          /\ \A n \in 1 .. Len(snaps[c]) : snaps'[c][n] = snaps[c][n]
      BY <2>1, <2>2, <2>4, <2>6, AppendProperties
    <3>2. ASSUME NEW n \in 1 .. Len(snaps'[c]), snaps'[c][n].ts <= t
          PROVE  n \in 1 .. Len(snaps[c]) /\ snaps'[c][n] = snaps[c][n]
      <4>1. n # Len(snaps[c]) + 1
        <5>1. now \in Int /\ now' = now
          BY <2>3 DEF EarningsInv, Backed
        <5>2. QED
          BY <2>2, <3>1, <3>2, <5>1
      <4>2. QED
        BY <3>1, <4>1
    <3>3. QED
      BY <3>2 DEF Quoted
  <2>7. QED
    BY <2>5, <2>6
<1>4. QED
  BY <1>1, <1>2, <1>3, SnapsAre

(* The invariant of the chart is inductive: what is past stays, and the    *)
(* moment that ends becomes past as it was.                                *)
LEMMA PastStep ==
  ASSUME EarningsInv, EarningsInv', YieldInv, YieldInv', LastOfShort, LastOfShort', Advances,
         SnapsInv, PastInv, [Earnings!Next]_(Earnings!vars)
  PROVE  PastInv'
<1> SUFFICES ASSUME NEW t \in 0 .. MaxTime, NEW u \in Users, NEW c \in Priced,
                    NEW k \in 0 .. Len(history'), t < now', Settled(k, t, u, c)',
                    NEW price \in Quoted(c, t)'
             PROVE  (HeldAt(k, u, c)' * price) \div SCALE
                      <= Put(k, u, c)' + gained'[t][c] + 2 * DustOf(c)'
  BY DEF PastInv, Shown
<1>1. /\ history \in Seq(Entries) /\ Len(history) \in Nat /\ now \in Nat /\ now' \in Nat
      /\ MaxTime \in Nat /\ t \in Nat
  BY ChartConstants DEF EarningsInv, Backed, Booked
<1>2. /\ \A n \in 1 .. k : history'[n].ts <= t
      /\ \A n \in Later("withdraw", k, u, c)' : history'[n].ts > t
  BY DEF Settled
<1>3. price \in Quoted(c, t)
  <2>1. t \in Int
    BY <1>1
  <2>2. QED
    BY <2>1, QuotedStays
<1>4. k \in 0 .. Len(history) /\ \A n \in 1 .. Len(history) : history'[n] = history[n]
  <2>1. CASE history' = history
    BY <2>1
  <2>2. ASSUME NEW e \in Entries, e.ts = now, now' = now, history' = Append(history, e)
        PROVE  k \in 0 .. Len(history) /\ \A n \in 1 .. Len(history) : history'[n] = history[n]
    <3>1. /\ Len(history') = Len(history) + 1 /\ history'[Len(history) + 1] = e
          /\ \A n \in 1 .. Len(history) : history'[n] = history[n]
      BY <1>1, <2>2, AppendProperties
    <3>2. k # Len(history) + 1
      <4>1. SUFFICES ASSUME k = Len(history) + 1 PROVE FALSE
        OBVIOUS
      <4>2. k \in 1 .. k
        BY <1>1, <4>1
      <4>3. history'[k].ts <= t /\ history'[k].ts = now
        BY <1>2, <2>2, <3>1, <4>1, <4>2
      <4>4. QED
        BY <1>1, <2>2, <4>3
    <3>3. QED
      BY <1>1, <3>1, <3>2
  <2>3. QED
    BY <2>1, <2>2 DEF Advances
<1>5. /\ Put(k, u, c)' = Put(k, u, c) /\ HeldAt(k, u, c)' = HeldAt(k, u, c)
      /\ Later("withdraw", k, u, c) \subseteq Later("withdraw", k, u, c)'
  BY <1>4, ListStays DEF EarningsInv
<1>6. DustOf(c) \in Nat /\ DustOf(c)' \in Nat /\ DustOf(c) <= DustOf(c)'
  BY DEF LastOfShort, Advances
<1>7. Settled(k, t, u, c)
  <2>1. \A n \in 1 .. k : n \in 1 .. Len(history)
    BY <1>1, <1>4
  <2>2. \A n \in 1 .. k : history[n].ts <= t
    BY <1>2, <1>4, <2>1
  <2>3. ASSUME NEW n \in Later("withdraw", k, u, c)
        PROVE  history[n].ts > t
    <3>1. n \in 1 .. Len(history)
      BY <1>1, <1>4 DEF Later
    <3>2. history'[n].ts > t
      BY <1>2, <1>5
    <3>3. QED
      BY <1>4, <3>1, <3>2
  <2>4. QED
    BY <2>2, <2>3 DEF Settled
<1>8. Put(k, u, c) \in Nat /\ HeldAt(k, u, c) \in Nat /\ gained[t][c] \in Nat
  BY <1>4 DEF YieldInv, Position, PositionAt, Gains
<1>9. price \in Nat /\ Fair(price, c)
  BY <1>3, QuotedIsFair DEF EarningsInv
<1>10. /\ (HeldAt(k, u, c) * price) \div SCALE
            <= Put(k, u, c) + gained[t][c] + 2 * DustOf(c)
       /\ gained'[t] = gained[t]
  <2>1. CASE t < now
    <3>1. Shown(k, t, u, c)
      BY <1>4, <1>7, <2>1 DEF PastInv
    <3>2. gained'[t] = gained[t]
      BY <2>1 DEF Advances
    <3>3. QED
      BY <1>3, <3>1, <3>2 DEF Shown
  <2>2. CASE ~(t < now)
    <3>1. t = now /\ now' # now
      BY <1>1, <2>2 DEF Advances
    <3>2. gained' = gained
      BY <3>1, SnapsAre
    <3>3. Later("withdraw", k, u, c) = {}
      <4>1. SUFFICES ASSUME NEW n \in Later("withdraw", k, u, c) PROVE FALSE
        OBVIOUS
      <4>2. n \in 1 .. Len(history) /\ history[n].ts > t
        BY <1>1, <1>4, <1>7, <4>1 DEF Later, Settled
      <4>3. history[n].ts <= now /\ history[n].ts \in Nat
        <5>1. history[n] \in Entries
          BY <1>1, <4>2
        <5>2. history[n].ts \in Nat
          BY <5>1 DEF Entries
        <5>3. history[n].ts <= now
          BY <4>2 DEF YieldInv, Dated
        <5>4. QED
          BY <5>2, <5>3
      <4>4. QED
        BY <1>1, <3>1, <4>2, <4>3
    <3>4. QED
      BY <1>4, <1>9, <3>1, <3>2, <3>3, ShownNow DEF EarningsInv
  <2>3. QED
    BY <2>1, <2>2
<1> DEFINE w == (HeldAt(k, u, c) * price) \div SCALE
           p == Put(k, u, c)
           g == gained[t][c]
           D == DustOf(c)
           DD == DustOf(c)'
<1>11. w \in Int
  <2>1. HeldAt(k, u, c) * price \in Int /\ SCALE \in Nat \ {0}
    BY <1>8, <1>9, ChartConstants
  <2>2. QED
    BY <2>1
<1>12. w <= p + g + 2 * D /\ p \in Nat /\ g \in Nat /\ D \in Nat /\ DD \in Nat /\ D <= DD
  BY <1>6, <1>8, <1>10
<1> HIDE DEF w, p, g, D, DD
<1>13. w <= p + g + 2 * DD
  BY <1>11, <1>12
<1>14. QED
  BY <1>5, <1>10, <1>13 DEF w, p, g, DD

-----------------------------------------------------------------------------
(* Sums in USD: what a currency has above zero less what it has below.     *)
IsTally(tally, f) ==
  tally = [S \in SUBSET Priced |->
             IF S = {} THEN 0
             ELSE f[CHOOSE x \in S : TRUE] * Rate[CHOOSE x \in S : TRUE]
                    + tally[S \ {CHOOSE x \in S : TRUE}]]

Up(f) == [c \in Priced |-> IF f[c] * Rate[c] >= 0 THEN f[c] * Rate[c] ELSE 0]
Down(f) == [c \in Priced |-> IF f[c] * Rate[c] >= 0 THEN 0 ELSE 0 - f[c] * Rate[c]]
Balance(f, S) == SumOver(Up(f), S) - SumOver(Down(f), S)

(* InUsd is the last value of a tally over the sets of currencies.         *)
LEMMA TallyChosen ==
  ASSUME NEW f
  PROVE  Earnings!InUsd(f) = (CHOOSE tally : IsTally(tally, f))[Priced]
BY DEF Earnings!InUsd, Earnings!MapThenSumSet, Earnings!MapThenFoldSet, IsTally, Priced

(* What a currency has above zero and below.                               *)
LEMMA UpAndDown ==
  ASSUME NEW f \in [Priced -> Int], NEW c \in Priced
  PROVE  /\ Up(f)[c] \in Nat /\ Down(f)[c] \in Nat
         /\ Up(f)[c] - Down(f)[c] = f[c] * Rate[c]
         /\ f[c] >= 0 => Down(f)[c] = 0
<1>1. f[c] * Rate[c] \in Int
  BY ChartConstants
<1>2. f[c] >= 0 => f[c] * Rate[c] >= 0
  <2>1. f[c] \in Int /\ Rate[c] \in Nat
    BY ChartConstants
  <2>2. QED
    BY <2>1
<1>3. /\ Up(f)[c] = IF f[c] * Rate[c] >= 0 THEN f[c] * Rate[c] ELSE 0
      /\ Down(f)[c] = IF f[c] * Rate[c] >= 0 THEN 0 ELSE 0 - f[c] * Rate[c]
  BY DEF Up, Down
<1> DEFINE r == f[c] * Rate[c]
<1> HIDE DEF r
<1>4. QED
  BY <1>1, <1>2, <1>3 DEF r

(* A balance is a tally.                                                   *)
LEMMA BalanceStep ==
  ASSUME NEW f \in [Priced -> Int], NEW S \in SUBSET Priced
  PROVE  /\ Balance(f, S) \in Int /\ Balance(f, {}) = 0 /\ IsFiniteSet(S)
         /\ \A x \in S : Balance(f, S) = f[x] * Rate[x] + Balance(f, S \ {x})
<1>1. IsFiniteSet(S)
  BY ChartConstants, FS_Subset
<1>2. /\ \A x \in S : Up(f)[x] \in Nat
      /\ \A x \in S : Down(f)[x] \in Nat
  BY UpAndDown
<1>3. Balance(f, S) \in Int
  BY <1>1, <1>2, SumType DEF Balance
<1>4. Balance(f, {}) = 0
  BY SumEmpty DEF Balance
<1>5. ASSUME NEW x \in S
      PROVE  Balance(f, S) = f[x] * Rate[x] + Balance(f, S \ {x})
  <2>1. /\ SumOver(Up(f), S \ {x}) \in Nat
        /\ SumOver(Up(f), S) = SumOver(Up(f), S \ {x}) + Up(f)[x]
    BY <1>1, <1>2, SumSplit
  <2>2. /\ SumOver(Down(f), S \ {x}) \in Nat
        /\ SumOver(Down(f), S) = SumOver(Down(f), S \ {x}) + Down(f)[x]
    BY <1>1, <1>2, SumSplit
  <2>3. /\ Up(f)[x] \in Nat /\ Down(f)[x] \in Nat
        /\ Up(f)[x] - Down(f)[x] = f[x] * Rate[x]
    BY UpAndDown
  <2> DEFINE a == SumOver(Up(f), S \ {x})
             b == SumOver(Down(f), S \ {x})
  <2>4. Balance(f, S) = (a + Up(f)[x]) - (b + Down(f)[x]) /\ Balance(f, S \ {x}) = a - b
    BY <2>1, <2>2 DEF Balance
  <2>5. a \in Nat /\ b \in Nat
    BY <2>1, <2>2
  <2> HIDE DEF a, b
  <2>6. QED
    BY <2>3, <2>4, <2>5
<1>6. QED
  BY <1>1, <1>3, <1>4, <1>5

(* Every tally is the balance: the smallest set on which they differ would *)
(* be one currency larger than one on which they agree.                    *)
LEMMA TallyIsBalance ==
  ASSUME NEW f \in [Priced -> Int], NEW tally, IsTally(tally, f), NEW S \in SUBSET Priced
  PROVE  tally[S] = Balance(f, S)
<1> DEFINE wrong == {n \in Nat : \E T \in SUBSET Priced :
                       Cardinality(T) = n /\ tally[T] # Balance(f, T)}
<1>1. wrong = {}
  <2> SUFFICES ASSUME wrong # {} PROVE FALSE
    OBVIOUS
  <2>1. PICK n \in wrong : \A m \in wrong : n <= m
    <3>1. wrong \in SUBSET Nat
      OBVIOUS
    <3> HIDE DEF wrong
    <3>2. QED
      BY <3>1, LeastNumber
  <2>2. PICK T \in SUBSET Priced : Cardinality(T) = n /\ tally[T] # Balance(f, T)
    OBVIOUS
  <2> DEFINE x == CHOOSE y \in T : TRUE
             term(U) == IF U = {} THEN 0
                        ELSE f[CHOOSE y \in U : TRUE] * Rate[CHOOSE y \in U : TRUE]
                               + tally[U \ {CHOOSE y \in U : TRUE}]
  <2>3. tally = [U \in SUBSET Priced |-> term(U)]
    BY DEF IsTally
  <2>4. tally[T] = IF T = {} THEN 0 ELSE f[x] * Rate[x] + tally[T \ {x}]
    <3>1. tally[T] = term(T)
      <4> HIDE DEF term
      <4>1. QED
        BY <2>3
    <3>2. QED
      BY <3>1
  <2>5. T # {}
    BY <2>2, <2>4, BalanceStep
  <2>6. x \in T
    BY <2>5
  <2> HIDE DEF x
  <2>7. Cardinality(T \ {x}) = n - 1 /\ Cardinality(T \ {x}) \in Nat
    <3>1. IsFiniteSet(T) /\ IsFiniteSet(T \ {x})
      BY BalanceStep
    <3>2. QED
      BY <2>2, <2>6, <3>1, FS_RemoveElement, FS_CardinalityType
  <2>8. tally[T \ {x}] = Balance(f, T \ {x})
    <3>1. ~(n <= n - 1)
      OBVIOUS
    <3>2. n - 1 \notin wrong
      BY <2>1, <3>1
    <3>3. QED
      BY <2>7, <3>2
  <2>9. QED
    BY <2>2, <2>4, <2>5, <2>6, <2>8, BalanceStep
<1>2. Cardinality(S) \in Nat
  BY BalanceStep, FS_CardinalityType
<1>3. QED
  BY <1>1, <1>2

LEMMA InUsdIsBalance ==
  ASSUME NEW f \in [Priced -> Int]
  PROVE  Earnings!InUsd(f) = Balance(f, Priced)
<1> DEFINE tally0 == [S \in SUBSET Priced |-> Balance(f, S)]
<1>1. IsTally(tally0, f)
  <2>1. ASSUME NEW S \in SUBSET Priced
        PROVE  tally0[S] = IF S = {} THEN 0
                           ELSE f[CHOOSE x \in S : TRUE] * Rate[CHOOSE x \in S : TRUE]
                                  + tally0[S \ {CHOOSE x \in S : TRUE}]
    <3> DEFINE x == CHOOSE y \in S : TRUE
    <3>1. CASE S = {}
      BY <3>1, BalanceStep
    <3>2. CASE S # {}
      <4>1. x \in S
        BY <3>2
      <4>2. tally0[S] = Balance(f, S) /\ tally0[S \ {x}] = Balance(f, S \ {x})
        OBVIOUS
      <4> HIDE DEF tally0
      <4>3. tally0[S] = f[x] * Rate[x] + tally0[S \ {x}]
        <5> HIDE DEF x
        <5>1. QED
          BY <4>1, <4>2, BalanceStep
      <4>4. QED
        BY <3>2, <4>3
    <3>3. QED
      BY <3>1, <3>2
  <2>2. tally0 = [S \in SUBSET Priced |-> tally0[S]]
    OBVIOUS
  <2>3. QED
    BY <2>1, <2>2 DEF IsTally
<1>2. IsTally(CHOOSE tally : IsTally(tally, f), f)
  <2> HIDE DEF tally0
  <2>1. QED
    BY <1>1
<1>3. QED
  BY <1>2, TallyChosen, TallyIsBalance

(* More in every currency is no less in USD.                               *)
LEMMA InUsdGrows ==
  ASSUME NEW f \in [Priced -> Int], NEW g \in [Priced -> Int], \A c \in Priced : f[c] <= g[c]
  PROVE  Earnings!InUsd(f) \in Int /\ Earnings!InUsd(f) <= Earnings!InUsd(g)
<1>1. ASSUME NEW c \in Priced
      PROVE  /\ Up(f)[c] \in Nat /\ Up(g)[c] \in Nat /\ Up(f)[c] <= Up(g)[c]
             /\ Down(f)[c] \in Nat /\ Down(g)[c] \in Nat /\ Down(g)[c] <= Down(f)[c]
  <2>1. f[c] \in Int /\ g[c] \in Int /\ Rate[c] \in Nat /\ f[c] <= g[c]
    BY ChartConstants
  <2>2. f[c] * Rate[c] <= g[c] * Rate[c] /\ f[c] * Rate[c] \in Int /\ g[c] * Rate[c] \in Int
    BY <2>1, Prices!ProductMonotone
  <2> DEFINE a == f[c] * Rate[c]
             b == g[c] * Rate[c]
  <2>3. /\ Up(f)[c] = IF a >= 0 THEN a ELSE 0
        /\ Up(g)[c] = IF b >= 0 THEN b ELSE 0
        /\ Down(f)[c] = IF a >= 0 THEN 0 ELSE 0 - a
        /\ Down(g)[c] = IF b >= 0 THEN 0 ELSE 0 - b
    BY DEF Up, Down
  <2>4. a <= b /\ a \in Int /\ b \in Int
    BY <2>2
  <2> HIDE DEF a, b
  <2>5. QED
    BY <2>3, <2>4
<1>2. /\ \A c \in Priced : Up(f)[c] \in Nat
      /\ \A c \in Priced : Up(g)[c] \in Nat
      /\ \A c \in Priced : Up(f)[c] <= Up(g)[c]
  BY <1>1
<1>3. /\ \A c \in Priced : Down(f)[c] \in Nat
      /\ \A c \in Priced : Down(g)[c] \in Nat
      /\ \A c \in Priced : Down(g)[c] <= Down(f)[c]
  BY <1>1
<1>4. SumOver(Up(f), Priced) <= SumOver(Up(g), Priced)
  BY <1>2, ChartConstants, SumMonotone
<1>5. SumOver(Down(g), Priced) <= SumOver(Down(f), Priced)
  BY <1>3, ChartConstants, SumMonotone
<1>6. /\ SumOver(Up(f), Priced) \in Nat /\ SumOver(Up(g), Priced) \in Nat
      /\ SumOver(Down(f), Priced) \in Nat /\ SumOver(Down(g), Priced) \in Nat
  BY <1>2, <1>3, ChartConstants, SumType
<1>7. QED
  BY <1>4, <1>5, <1>6, InUsdIsBalance DEF Balance

(* Sums of what is not below zero are not.                                 *)
LEMMA InUsdOfMore ==
  ASSUME NEW f \in [Priced -> Int], \A c \in Priced : f[c] >= 0
  PROVE  Earnings!InUsd(f) \in Nat
<1>1. /\ \A c \in Priced : Up(f)[c] \in Nat
      /\ \A c \in Priced \ {} : Down(f)[c] = 0
  BY UpAndDown
<1>2. SumOver(Down(f), Priced) = SumOver(Down(f), {})
  BY <1>1, SumWithZeros
<1>3. SumOver(Up(f), Priced) \in Nat
  BY <1>1, ChartConstants, SumType
<1>4. QED
  BY <1>2, <1>3, SumEmpty, InUsdIsBalance DEF Balance

-----------------------------------------------------------------------------
(* The entries of a list up to a time are its first ones.                  *)
LEMMA UntilIs ==
  ASSUME NEW S, NEW list \in Seq(S), NEW t \in Int,
         \A n \in 1 .. Len(list) : /\ list[n].ts \in Int
                                   /\ \A m \in 1 .. n : list[m].ts <= list[n].ts
  PROVE  \E j \in 0 .. Len(list) :
           /\ Earnings!Until(list, t) = SubSeq(list, 1, j)
           /\ \A n \in 1 .. j : list[n].ts <= t
           /\ \A n \in j + 1 .. Len(list) : list[n].ts > t
<1> DEFINE early == {n \in DOMAIN list : list[n].ts <= t}
<1>1. DOMAIN list = 1 .. Len(list) /\ Len(list) \in Nat
  OBVIOUS
<1>2. \A T : Earnings!Cardinality(T) = Cardinality(T)
  BY Zenon DEF Earnings!Cardinality, Cardinality
<1>3. Earnings!Until(list, t) = SubSeq(list, 1, Cardinality(early))
  BY <1>2 DEF Earnings!Until
<1>4. PICK j \in 0 .. Len(list) : early = 1 .. j
  <2>1. CASE early = {}
    <3>1. early = 1 .. 0
      BY <2>1
    <3>2. QED
      BY <1>1, <3>1
  <2>2. CASE early # {}
    <3>1. early \in SUBSET Nat /\ IsFiniteSet(early)
      <4>1. IsFiniteSet(1 .. Len(list))
        BY <1>1, FS_Interval
      <4>2. early \in SUBSET (1 .. Len(list))
        BY <1>1
      <4> HIDE DEF early
      <4>3. IsFiniteSet(early)
        BY <4>1, <4>2, FS_Subset
      <4>4. QED
        BY <4>2, <4>3
    <3>2. PICK j \in early : \A n \in early : n <= j
      <4> HIDE DEF early
      <4>1. QED
        BY <2>2, <3>1, HighestNumber
    <3>3. j \in 1 .. Len(list) /\ list[j].ts <= t
      BY <1>1
    <3>4. ASSUME NEW n \in 1 .. j PROVE n \in early
      <4>1. n \in 1 .. Len(list)
        BY <1>1, <3>3
      <4>2. list[n].ts <= list[j].ts /\ list[n].ts \in Int /\ list[j].ts \in Int
        BY <3>3, <4>1
      <4>3. list[n].ts <= t
        BY <3>3, <4>2
      <4>4. QED
        BY <1>1, <4>1, <4>3
    <3>5. ASSUME NEW n \in early PROVE n \in 1 .. j
      BY <1>1, <3>2, <3>3
    <3>6. early = 1 .. j
      <4> HIDE DEF early
      <4>1. QED
        BY <3>4, <3>5
    <3>7. QED
      BY <1>1, <3>3, <3>6
  <2>3. QED
    BY <2>1, <2>2
<1>5. Cardinality(1 .. j) = j
  BY FS_Interval
<1>6. \A n \in 1 .. j : list[n].ts <= t
  BY <1>4
<1>7. ASSUME NEW n \in j + 1 .. Len(list) PROVE list[n].ts > t
  <2>1. n \in 1 .. Len(list) /\ n \notin 1 .. j
    BY <1>1
  <2>2. ~(list[n].ts <= t) /\ list[n].ts \in Int
    BY <1>1, <1>4, <2>1
  <2>3. QED
    BY <2>2
<1>8. QED
  BY <1>3, <1>4, <1>5, <1>6, <1>7

(* The price of a time is one that stood then.                             *)
LEMMA PriceIsQuoted ==
  ASSUME SnapsInv, NEW c \in Priced, NEW t \in Int
  PROVE  Earnings!priceAt(c, t) \in Quoted(c, t)
<1> DEFINE list == snaps[c]
           upTo == Earnings!Until(list, t)
<1>1. list \in Seq([price : Nat, ts : Nat]) /\ Len(list) \in Nat
  BY DEF SnapsInv
<1>2. \A n \in 1 .. Len(list) : /\ list[n].ts \in Int
                                /\ \A m \in 1 .. n : list[m].ts <= list[n].ts
  BY DEF SnapsInv, SnapAt
<1>3. /\ Earnings!priceAt(c, t) = IF upTo = <<>> THEN SCALE ELSE upTo[Len(upTo)].price
      /\ Quoted(c, t) = {SCALE} \cup {list[n].price : n \in {m \in 1 .. Len(list) : list[m].ts <= t}}
  BY DEF Earnings!priceAt, Earnings!Last, Quoted
<1> HIDE DEF list
<1>4. PICK j \in 0 .. Len(list) :
        upTo = SubSeq(list, 1, j) /\ \A n \in 1 .. j : list[n].ts <= t
  BY <1>1, <1>2, UntilIs
<1> HIDE DEF upTo
<1>5. Len(upTo) = j /\ \A n \in 1 .. j : upTo[n] = list[n]
  BY <1>1, <1>4
<1>6. CASE j = 0
  <2>1. upTo = <<>>
    BY <1>1, <1>4, <1>6
  <2>2. QED
    BY <1>3, <2>1
<1>7. CASE j # 0
  <2>1. upTo # <<>> /\ j \in 1 .. j /\ j \in 1 .. Len(list)
    BY <1>1, <1>5, <1>7
  <2>2. upTo[Len(upTo)].price = list[j].price /\ list[j].ts <= t
    BY <1>4, <1>5, <2>1
  <2>3. QED
    BY <1>3, <2>1, <2>2
<1>8. QED
  BY <1>6, <1>7

(* An answer that misses no withdrawal.                                    *)
Answered(u, k) ==
  /\ u \in Users /\ k \in 0 .. Len(history)
  /\ asked.who = u /\ asked.events = SubSeq(history, 1, k)
  /\ \A c \in Priced : Later("withdraw", k, u, c) = {}

(* A complete answer with no unseen withdrawal is such an answer.          *)
LEMMA AnsweredIs ==
  ASSUME EarningsInv, YieldInv, Earnings!Complete,
         \A c \in Priced : Earnings!Unseen("withdraw", c) = 0
  PROVE  \E u, k : Answered(u, k)
<1>1. PICK u, k : u = asked.who /\ k = asked.seen
  OBVIOUS
<1>2. u \in Users /\ k \in 0 .. Len(history) /\ asked.events = SubSeq(history, 1, k)
  BY <1>1 DEF EarningsInv, Complete, Earnings!Complete, Earnings!AllRead
<1>3. history \in Seq(Entries) /\ Len(history) \in Nat /\ DOMAIN history = 1 .. Len(history)
  BY DEF EarningsInv, Booked
<1>4. ASSUME NEW c \in Priced PROVE Later("withdraw", k, u, c) = {}
  <2> DEFINE late == Later("withdraw", k, u, c)
  <2>1. SumOver(AmountOf, late) = 0
    BY <1>1, UnseenIs DEF Missing
  <2>2. late \subseteq 1 .. Len(history) /\ \A n \in late : history[n].kind = "withdraw"
    BY <1>2, <1>3 DEF Later
  <2> HIDE DEF late
  <2>3. IsFiniteSet(late)
    <3>1. IsFiniteSet(1 .. Len(history))
      BY <1>3, FS_Interval
    <3>2. late \in SUBSET (1 .. Len(history))
      BY <2>2
    <3>3. QED
      BY <3>1, <3>2, FS_Subset
  <2>4. ASSUME NEW n \in late PROVE AmountOf[n] \in Nat \ {0}
    <3>1. n \in 1 .. Len(history) /\ history[n].kind = "withdraw" /\ history[n] \in Entries
      BY <1>3, <2>2
    <3>2. history[n].amount # 0
      BY <3>1 DEF YieldInv, Paid
    <3>3. AmountOf[n] = history[n].amount
      BY <1>3, <3>1 DEF AmountOf
    <3>4. history[n].amount \in Nat
      BY <3>1 DEF Entries
    <3>5. QED
      BY <3>2, <3>3, <3>4
  <2>5. late = {}
    BY <2>1, <2>3, <2>4, SumOfNone
  <2>6. QED
    BY <2>5 DEF late
<1>5. QED
  BY <1>1, <1>2, <1>4 DEF Answered

(* The times of the chart are past, and the asker's events are on it.      *)
LEMMA TimesPassed ==
  ASSUME EarningsInv, YieldInv, SnapsInv, NEW u, NEW k, Answered(u, k)
  PROVE  /\ Earnings!times \subseteq 0 .. now
         /\ \A n \in 1 .. k : history[n].who = u => history[n].ts \in Earnings!times
<1>1. /\ history \in Seq(Entries) /\ now \in Nat /\ Len(history) \in Nat
      /\ k \in 0 .. Len(history) /\ asked.events = SubSeq(history, 1, k)
  BY DEF Answered, EarningsInv, Backed, Booked
<1>2. /\ DOMAIN asked.events = 1 .. k
      /\ \A n \in 1 .. k : n \in 1 .. Len(history) /\ asked.events[n] = history[n]
  BY <1>1
<1>3. ASSUME NEW n \in 1 .. k PROVE asked.events[n].ts \in 0 .. now
  <2>1. n \in 1 .. Len(history) /\ asked.events[n] = history[n] /\ history[n] \in Entries
    BY <1>1, <1>2
  <2>2. history[n].ts \in Nat
    BY <2>1 DEF Entries
  <2>3. history[n].ts <= now
    BY <2>1 DEF YieldInv, Dated
  <2>4. QED
    BY <1>1, <2>1, <2>2, <2>3
<1>4. ASSUME NEW c \in Priced, NEW n \in DOMAIN snaps[c] PROVE snaps[c][n].ts \in 0 .. now
  <2>1. n \in 1 .. Len(snaps[c])
    BY DEF SnapsInv
  <2>2. snaps[c][n].ts \in Nat /\ snaps[c][n].ts <= now
    BY <2>1 DEF SnapsInv, SnapAt
  <2>3. QED
    BY <1>1, <2>2
<1>5. Earnings!times \subseteq 0 .. now
  BY <1>2, <1>3, <1>4 DEF Earnings!times, Priced
<1>6. \A n \in 1 .. k : history[n].who = u => history[n].ts \in Earnings!times
  BY <1>2 DEF Earnings!times, Answered
<1>7. QED
  BY <1>5, <1>6

(* The events known at a time are a settled list.                          *)
LEMMA BasisThen ==
  ASSUME EarningsInv, YieldInv, NEW u, NEW k, Answered(u, k), NEW t \in Nat
  PROVE  \E j \in 0 .. k :
           /\ \A c \in Priced :
                /\ Earnings!basisAt(c, t).shares = HeldAt(j, u, c)
                /\ Earnings!basisAt(c, t).contributed = Put(j, u, c)
                /\ Settled(j, t, u, c)
           /\ \A n \in j + 1 .. k : history[n].ts > t
<1> DEFINE list == asked.events
<1>1. /\ history \in Seq(Entries) /\ Len(history) \in Nat
      /\ k \in 0 .. Len(history) /\ list = SubSeq(history, 1, k)
  BY DEF Answered, EarningsInv, Booked
<1> HIDE DEF list
<1>2. /\ list \in Seq(Entries) /\ Len(list) = k /\ k \in Nat
      /\ \A n \in 1 .. k : n \in 1 .. Len(history) /\ list[n] = history[n]
  BY <1>1
<1>3. ASSUME NEW n \in 1 .. Len(list)
      PROVE  list[n].ts \in Int /\ \A m \in 1 .. n : list[m].ts <= list[n].ts
  <2>1. n \in 1 .. Len(history) /\ list[n] = history[n] /\ history[n] \in Entries
    BY <1>1, <1>2
  <2>2. \A m \in 1 .. n : list[m] = history[m]
    BY <1>2
  <2>3. \A m \in 1 .. n : history[m].ts <= history[n].ts
    BY <2>1 DEF YieldInv, Dated
  <2>4. history[n].ts \in Int
    BY <2>1 DEF Entries
  <2>5. QED
    BY <2>1, <2>2, <2>3, <2>4
<1>4. PICK j \in 0 .. Len(list) :
        /\ Earnings!Until(list, t) = SubSeq(list, 1, j)
        /\ \A n \in 1 .. j : list[n].ts <= t
        /\ \A n \in j + 1 .. Len(list) : list[n].ts > t
  <2>1. t \in Int
    OBVIOUS
  <2>2. QED
    BY <1>2, <1>3, <2>1, UntilIs
<1>5. j \in 0 .. k /\ SubSeq(list, 1, j) = SubSeq(history, 1, j)
  <2>1. j \in 0 .. k /\ j \in Nat
    BY <1>2
  <2>2. SubSeq(list, 1, j) = [n \in 1 .. j |-> list[n]]
    BY <1>2, <2>1
  <2>3. SubSeq(history, 1, j) = [n \in 1 .. j |-> history[n]]
    BY <1>1, <2>1
  <2>4. \A n \in 1 .. j : list[n] = history[n]
    BY <1>2, <2>1
  <2>5. QED
    BY <2>1, <2>2, <2>3, <2>4
<1>6. /\ \A n \in 1 .. j : history[n].ts <= t
      /\ \A n \in j + 1 .. k : history[n].ts > t
  <2>1. /\ \A n \in 1 .. j : n \in 1 .. k
        /\ \A n \in j + 1 .. k : n \in 1 .. k /\ n \in j + 1 .. Len(list)
    BY <1>2
  <2>2. QED
    BY <1>2, <1>4, <2>1
<1>7. ASSUME NEW c \in Priced PROVE Settled(j, t, u, c)
  <2>1. ASSUME NEW n \in Later("withdraw", j, u, c) PROVE history[n].ts > t
    <3>1. CASE n <= k
      <4>1. n \in j + 1 .. k
        BY <1>5, <2>1, <3>1 DEF Later
      <4>2. QED
        BY <1>6, <4>1
    <3>2. CASE ~(n <= k)
      <4>1. n \in Later("withdraw", k, u, c)
        BY <1>1, <1>5, <2>1, <3>2 DEF Later
      <4>2. QED
        BY <4>1 DEF Answered
    <3>3. QED
      BY <3>1, <3>2
  <2>2. QED
    BY <1>6, <2>1 DEF Settled
<1>8. \A c \in Priced : /\ Earnings!basisAt(c, t).shares = HeldAt(j, u, c)
                        /\ Earnings!basisAt(c, t).contributed = Put(j, u, c)
  <2>1. \A c : Earnings!basisAt(c, t) = Earnings!costBasisOf(SubSeq(history, 1, j), u, c)
    BY <1>4, <1>5 DEF Earnings!basisAt, Answered, list
  <2>2. QED
    BY <2>1 DEF HeldAt, Basis, Put
<1>9. QED
  BY <1>5, <1>6, <1>7, <1>8

-----------------------------------------------------------------------------
(* A point of the chart, against the interest then and dust.               *)
Cap(t) == [c \in Priced |-> gained[t][c] + 2 * DustOf(c)]

(* The bounds of the points grow with time.                                *)
LEMMA CapGrows ==
  ASSUME EarningsInv, YieldInv, NEW t \in 0 .. now, NEW s \in 0 .. t
  PROVE  Earnings!InUsd(Cap(t)) \in Nat /\ Earnings!InUsd(Cap(s)) <= Earnings!InUsd(Cap(t))
<1>1. s \in 0 .. MaxTime /\ t \in 0 .. MaxTime /\ s <= t
  <2>1. now \in 0 .. MaxTime /\ MaxTime \in Nat
    BY ChartConstants DEF YieldInv, Gains
  <2>2. QED
    BY <2>1
<1>2. \A r \in {s, t}, c \in Priced : gained[r][c] \in Nat
  BY <1>1 DEF YieldInv, Gains
<1>3. \A c \in Priced : gained[s][c] <= gained[t][c]
  BY <1>1 DEF YieldInv, Gains
<1>4. ASSUME NEW c \in Priced PROVE DustOf(c) \in Nat
  <2>1. CountOf(c) \in Nat
    BY HistorySums DEF EarningsInv, Booked
  <2>2. PriceOf(c) \in Nat
    BY BackedNumbers DEF EarningsInv, AllNumbers, Numbers
  <2>3. QED
    BY <2>1, <2>2 DEF DustOf
<1>5. Cap(s) \in [Priced -> Int] /\ Cap(t) \in [Priced -> Int]
  BY <1>2, <1>4 DEF Cap
<1>6. ASSUME NEW c \in Priced PROVE Cap(s)[c] <= Cap(t)[c] /\ Cap(t)[c] >= 0
  <2>1. /\ gained[s][c] \in Nat /\ gained[t][c] \in Nat /\ gained[s][c] <= gained[t][c]
        /\ DustOf(c) \in Nat
    BY <1>2, <1>3, <1>4
  <2>2. Cap(s)[c] = gained[s][c] + 2 * DustOf(c) /\ Cap(t)[c] = gained[t][c] + 2 * DustOf(c)
    BY DEF Cap
  <2>3. QED
    BY <2>1, <2>2
<1>7. QED
  BY <1>5, <1>6, InUsdGrows, InUsdOfMore

(* What shares are worth at a time is by a fair price of that time.        *)
LEMMA WorthIs ==
  ASSUME EarningsInv, SnapsInv, NEW c \in Priced, NEW t \in Int, NEW held \in Nat
  PROVE  LET price == Earnings!priceAt(c, t)
         IN /\ price \in Quoted(c, t) /\ price \in Nat /\ Fair(price, c)
            /\ Earnings!Worth(c, t, held) = (held * price) \div SCALE
            /\ Earnings!Worth(c, t, held) \in Int
<1> DEFINE price == Earnings!priceAt(c, t)
<1>1. price \in Quoted(c, t)
  BY PriceIsQuoted
<1>2. price \in Nat /\ Fair(price, c)
  BY <1>1, QuotedIsFair DEF EarningsInv
<1>3. Earnings!Worth(c, t, held) = (held * price) \div SCALE
  BY DEF Earnings!Worth
<1> HIDE DEF price
<1>4. (held * price) \div SCALE \in Int
  <2>1. held * price \in Int /\ SCALE \in Nat \ {0}
    BY <1>2, ChartConstants
  <2>2. QED
    BY <2>1
<1>5. QED
  BY <1>1, <1>2, <1>3, <1>4 DEF price

(* What the chart shows as earned at a time is within the bound of that    *)
(* time.                                                                   *)
LEMMA EarnedBelow ==
  ASSUME EarningsInv, YieldInv, SnapsInv, PastInv, NEW u, NEW k, Answered(u, k),
         NEW t \in 0 .. now
  PROVE  /\ Earnings!earnedAt(t) \in Int
         /\ Earnings!earnedAt(t) <= Earnings!InUsd(Cap(t))
<1> DEFINE point(c) == Earnings!Worth(c, t, Earnings!basisAt(c, t).shares)
                         - Earnings!basisAt(c, t).contributed
           points == [c \in Priced |-> point(c)]
<1>1. /\ now \in 0 .. MaxTime /\ MaxTime \in Nat /\ t \in Nat /\ t \in 0 .. MaxTime
      /\ Len(history) \in Nat /\ k \in 0 .. Len(history) /\ u \in Users
  <2>1. now \in 0 .. MaxTime /\ MaxTime \in Nat /\ Len(history) \in Nat
    BY ChartConstants DEF YieldInv, Gains, EarningsInv, Booked
  <2>2. QED
    BY <2>1 DEF Answered
<1>2. Earnings!earnedAt(t) = Earnings!InUsd(points)
  BY DEF Earnings!earnedAt, Priced
<1>3. PICK j \in 0 .. k :
        /\ \A c \in Priced :
             /\ Earnings!basisAt(c, t).shares = HeldAt(j, u, c)
             /\ Earnings!basisAt(c, t).contributed = Put(j, u, c)
             /\ Settled(j, t, u, c)
        /\ \A n \in j + 1 .. k : history[n].ts > t
  BY <1>1, BasisThen
<1>4. j \in 0 .. Len(history)
  BY <1>1
<1>5. ASSUME NEW c \in Priced
      PROVE  point(c) \in Int /\ point(c) <= Cap(t)[c]
  <2> DEFINE h == HeldAt(j, u, c)
             price == Earnings!priceAt(c, t)
             w == Earnings!Worth(c, t, h)
             p == Put(j, u, c)
             g == gained[t][c]
             D == DustOf(c)
  <2>1. h \in Nat /\ p \in Nat /\ g \in Nat
    BY <1>1, <1>4 DEF YieldInv, Position, PositionAt, Gains
  <2>2. D \in Nat
    BY <1>1, ShortIsLast DEF EarningsInv, LastOfShort
  <2>3. /\ price \in Quoted(c, t) /\ price \in Nat /\ Fair(price, c)
        /\ w = (h * price) \div SCALE /\ w \in Int
    BY <1>1, <2>1, WorthIs
  <2>4. w <= p + g + 2 * D
    <3>1. CASE t < now
      <4>1. Shown(j, t, u, c)
        BY <1>1, <1>3, <1>4, <3>1 DEF PastInv
      <4>2. QED
        BY <2>3, <4>1 DEF Shown
    <3>2. CASE ~(t < now)
      <4>1. t = now
        BY <1>1, <3>2
      <4>2. Later("withdraw", j, u, c) = {}
        <5>1. SUFFICES ASSUME NEW n \in Later("withdraw", j, u, c) PROVE FALSE
          OBVIOUS
        <5>2. n \in 1 .. Len(history) /\ history[n].ts > t
          BY <1>1, <1>3, <1>4, <5>1 DEF Later, Settled
        <5>3. history \in Seq(Entries)
          BY DEF EarningsInv, Booked
        <5>4. history[n] \in Entries
          BY <5>2, <5>3
        <5>5. history[n].ts \in Nat
          BY <5>4 DEF Entries
        <5>6. history[n].ts <= now
          BY <5>2 DEF YieldInv, Dated
        <5>7. QED
          BY <1>1, <4>1, <5>2, <5>5, <5>6
      <4>3. QED
        BY <1>1, <1>4, <2>3, <4>1, <4>2, ShownNow DEF EarningsInv
    <3>3. QED
      BY <3>1, <3>2
  <2>5. point(c) = w - p
    BY <1>3
  <2>6. Cap(t)[c] = g + 2 * D
    BY DEF Cap
  <2> HIDE DEF h, w, p, g, D, point
  <2>7. QED
    BY <2>1, <2>2, <2>3, <2>4, <2>5, <2>6
<1>6. points \in [Priced -> Int] /\ \A c \in Priced : points[c] <= Cap(t)[c]
  BY <1>5
<1>7. Cap(t) \in [Priced -> Int]
  <2>1. \A c \in Priced : DustOf(c) \in Nat
    BY <1>1, ShortIsLast DEF EarningsInv, LastOfShort
  <2>2. \A c \in Priced : gained[t][c] \in Nat
    BY <1>1 DEF YieldInv, Gains
  <2>3. QED
    BY <2>1, <2>2 DEF Cap
<1> HIDE DEF points
<1>8. QED
  BY <1>2, <1>6, <1>7, InUsdGrows

(* The last point of the line, against what the shares redeem for.         *)
LEMMA ValueBelow ==
  ASSUME EarningsInv, YieldInv, SnapsInv, NEW u, NEW k, Answered(u, k), NEW t \in 0 .. now,
         \A n \in 1 .. k : history[n].who = u => history[n].ts <= t
  PROVE  Earnings!valueAt(t) <= Earnings!InUsd([c \in Priced |-> Value(u, c)])
<1> DEFINE point(c) == Earnings!Worth(c, t, Earnings!basisAt(c, t).shares)
           points == [c \in Priced |-> point(c)]
           values == [c \in Priced |-> Value(u, c)]
<1>1. /\ now \in Nat /\ t \in Nat
      /\ Len(history) \in Nat /\ k \in 0 .. Len(history) /\ u \in Users
      /\ history \in Seq(Entries)
  BY DEF EarningsInv, Backed, Booked, Answered
<1>2. Earnings!valueAt(t) = Earnings!InUsd(points)
  BY DEF Earnings!valueAt, Priced
<1>3. PICK j \in 0 .. k :
        /\ \A c \in Priced :
             /\ Earnings!basisAt(c, t).shares = HeldAt(j, u, c)
             /\ Earnings!basisAt(c, t).contributed = Put(j, u, c)
             /\ Settled(j, t, u, c)
        /\ \A n \in j + 1 .. k : history[n].ts > t
  BY <1>1, BasisThen
<1>4. j \in 0 .. Len(history)
  BY <1>1
<1>5. ASSUME NEW c \in Priced
      PROVE  point(c) \in Int /\ Value(u, c) \in Int /\ point(c) <= Value(u, c)
  <2>1. HeldAt(j, u, c) \in Nat
    BY <1>1, <1>4 DEF YieldInv, Position, PositionAt
  <2>2. /\ Earnings!priceAt(c, t) \in Nat /\ Fair(Earnings!priceAt(c, t), c)
        /\ Earnings!Worth(c, t, HeldAt(j, u, c))
             = (HeldAt(j, u, c) * Earnings!priceAt(c, t)) \div SCALE
        /\ Earnings!Worth(c, t, HeldAt(j, u, c)) \in Int
    BY <1>1, <2>1, WorthIs
  <2>3. Later("withdraw", j, u, c) = {}
    <3>1. SUFFICES ASSUME NEW n \in Later("withdraw", j, u, c) PROVE FALSE
      OBVIOUS
    <3>2. n \in j + 1 .. Len(history) /\ history[n].kind = "withdraw" /\ Mine(history[n], u, c)
      BY <3>1 DEF Later
    <3>3. n \notin Later("withdraw", k, u, c)
      BY DEF Answered
    <3>4. n \in 1 .. k /\ n \in j + 1 .. k
      BY <1>1, <1>4, <3>2, <3>3 DEF Later
    <3>5. history[n].ts > t /\ history[n].ts <= t
      BY <1>3, <3>2, <3>4 DEF Mine
    <3>6. history[n] \in Entries
      BY <1>1, <1>4, <3>2
    <3>7. history[n].ts \in Nat
      BY <3>6 DEF Entries
    <3>8. QED
      BY <1>1, <3>5, <3>7
  <2>4. (HeldAt(j, u, c) * Earnings!priceAt(c, t)) \div SCALE <= Value(u, c)
    BY <1>1, <1>4, <2>2, <2>3, ShownNow DEF EarningsInv
  <2>5. Value(u, c) \in Int
    BY <1>1, ShortIsLast DEF EarningsInv, LastOfShort
  <2>6. point(c) = Earnings!Worth(c, t, HeldAt(j, u, c))
    BY <1>3
  <2> HIDE DEF point
  <2>7. QED
    BY <2>2, <2>4, <2>5, <2>6
<1>6. /\ points \in [Priced -> Int] /\ values \in [Priced -> Int]
      /\ \A c \in Priced : points[c] <= values[c]
  BY <1>5
<1> HIDE DEF points, values
<1>7. QED
  BY <1>2, <1>6, InUsdGrows DEF values

(* The greatest of a set of numbers that has one above zero and a bound.   *)
LEMMA GreatestIs ==
  ASSUME NEW S \in SUBSET Int, NEW b \in Nat, \A x \in S : x <= b, NEW y \in S, y >= 0
  PROVE  Earnings!Max(S) \in S /\ \A x \in S : x <= Earnings!Max(S)
<1> DEFINE T == {x \in S : x >= 0}
<1>1. T \in SUBSET (0 .. b) /\ T \in SUBSET Nat /\ y \in T
  <2>1. \A x \in T : x \in Int /\ x >= 0 /\ x <= b
    OBVIOUS
  <2>2. y \in T
    OBVIOUS
  <2> HIDE DEF T
  <2>3. T \subseteq 0 .. b /\ T \subseteq Nat
    BY <2>1
  <2>4. QED
    BY <2>2, <2>3
<1>2. IsFiniteSet(T)
  <2>1. IsFiniteSet(0 .. b)
    BY FS_Interval
  <2> HIDE DEF T
  <2>2. QED
    BY <1>1, <2>1, FS_Subset
<1>3. PICK n \in T : \A m \in T : m <= n
  <2> HIDE DEF T
  <2>1. QED
    BY <1>1, <1>2, HighestNumber
<1>4. n \in S /\ n \in Int /\ \A x \in S : n >= x
  <2>1. n \in S /\ n >= 0
    OBVIOUS
  <2>2. ASSUME NEW x \in S PROVE n >= x
    <3>1. CASE x >= 0
      BY <1>3, <3>1
    <3>2. CASE ~(x >= 0)
      BY <2>1, <3>2
    <3>3. QED
      BY <3>1, <3>2
  <2>3. QED
    BY <2>1, <2>2
<1> HIDE DEF T
<1>5. /\ Earnings!Max(S) \in S /\ \A x \in S : Earnings!Max(S) >= x
  BY <1>4 DEF Earnings!Max
<1>6. QED
  BY <1>5

-----------------------------------------------------------------------------
(* The running maximum and the months.                                     *)
Seen(t) == {0} \cup {Earnings!earnedAt(s) : s \in {r \in Earnings!times : r <= t}}

(* Its running maximum is one of the points so far, and zero or more.      *)
LEMMA SeenHasGreatest ==
  ASSUME EarningsInv, YieldInv, SnapsInv, PastInv, NEW u, NEW k, Answered(u, k),
         NEW t \in Earnings!times
  PROVE  /\ Earnings!chart[t] = Earnings!Max(Seen(t))
         /\ Earnings!Max(Seen(t)) \in Seen(t) /\ Seen(t) \in SUBSET Int
         /\ \A x \in Seen(t) : x <= Earnings!Max(Seen(t)) /\ x <= Earnings!InUsd(Cap(t))
<1>1. Earnings!times \subseteq 0 .. now /\ now \in Nat
  BY TimesPassed DEF EarningsInv, Backed
<1>2. t \in 0 .. now
  BY <1>1
<1>3. Earnings!InUsd(Cap(t)) \in Nat
  <2>1. t \in 0 .. t
    BY <1>2
  <2>2. QED
    BY <1>2, <2>1, CapGrows
<1>4. ASSUME NEW s \in Earnings!times, s <= t
      PROVE  Earnings!earnedAt(s) \in Int /\ Earnings!earnedAt(s) <= Earnings!InUsd(Cap(t))
  <2>1. s \in 0 .. now /\ s \in 0 .. t
    BY <1>1, <1>2, <1>4
  <2>2. Earnings!earnedAt(s) \in Int /\ Earnings!earnedAt(s) <= Earnings!InUsd(Cap(s))
    BY <2>1, EarnedBelow
  <2>3. Earnings!InUsd(Cap(s)) <= Earnings!InUsd(Cap(t))
    BY <1>2, <2>1, CapGrows
  <2>4. Earnings!InUsd(Cap(s)) \in Nat
    <3>1. s \in 0 .. s
      BY <2>1
    <3>2. QED
      BY <2>1, <3>1, CapGrows
  <2>5. QED
    BY <1>3, <2>2, <2>3, <2>4
<1>5. ASSUME NEW x \in Seen(t)
      PROVE  x \in Int /\ x <= Earnings!InUsd(Cap(t))
  <2>1. CASE x = 0
    BY <1>3, <2>1
  <2>2. ASSUME NEW s \in Earnings!times, s <= t, x = Earnings!earnedAt(s)
        PROVE  x \in Int /\ x <= Earnings!InUsd(Cap(t))
    BY <1>4, <2>2
  <2>3. QED
    BY <2>1, <2>2 DEF Seen
<1>6. 0 \in Seen(t)
  BY DEF Seen
<1>7. Seen(t) \in SUBSET Int
  BY <1>5
<1>8. /\ Earnings!Max(Seen(t)) \in Seen(t)
      /\ \A x \in Seen(t) : x <= Earnings!Max(Seen(t))
  <2>1. \A x \in Seen(t) : x <= Earnings!InUsd(Cap(t))
    BY <1>5
  <2>2. 0 >= 0
    OBVIOUS
  <2>3. QED
    BY <1>3, <1>6, <1>7, <2>1, <2>2, GreatestIs
<1>9. Earnings!chart[t] = Earnings!Max(Seen(t))
  BY DEF Earnings!chart, Seen
<1>10. QED
  BY <1>5, <1>7, <1>8, <1>9

(* So it grows, and stays within the bound.                                *)
LEMMA ChartGrows ==
  ASSUME EarningsInv, YieldInv, SnapsInv, PastInv, NEW u, NEW k, Answered(u, k),
         NEW t \in Earnings!times
  PROVE  /\ Earnings!chart[t] \in Nat /\ Earnings!chart[t] <= Earnings!InUsd(Cap(t))
         /\ \A s \in Earnings!times : s <= t => Earnings!chart[s] <= Earnings!chart[t]
<1>1. Earnings!times \subseteq 0 .. now /\ now \in Nat
  BY TimesPassed DEF EarningsInv, Backed
<1>2. /\ Earnings!chart[t] \in Seen(t) /\ Earnings!chart[t] \in Int
      /\ \A x \in Seen(t) : x <= Earnings!chart[t] /\ x <= Earnings!InUsd(Cap(t))
  BY SeenHasGreatest
<1>3. 0 \in Seen(t)
  BY DEF Seen
<1>4. ASSUME NEW s \in Earnings!times, s <= t
      PROVE  Earnings!chart[s] <= Earnings!chart[t]
  <2>1. Earnings!chart[s] \in Seen(s)
    BY SeenHasGreatest
  <2>2. ASSUME NEW r \in Earnings!times, r <= s PROVE r <= t
    <3>1. r \in Int /\ s \in Int /\ t \in Int
      BY <1>1
    <3>2. QED
      BY <1>4, <2>2, <3>1
  <2>3. Seen(s) \subseteq Seen(t)
    BY <2>2 DEF Seen
  <2>4. QED
    BY <1>2, <2>1, <2>3
<1>5. Earnings!chart[t] >= 0
  BY <1>2, <1>3
<1>6. QED
  BY <1>2, <1>4, <1>5

(* The times up to a month have a last one.                                *)
UpToMonth(m) == {t \in Earnings!times : Earnings!monthKey(t) <= m}
Cum(m) == IF UpToMonth(m) = {} THEN 0 ELSE Earnings!chart[Earnings!Max(UpToMonth(m))]

(* Some of the times have a last.                                          *)
LEMMA LastTime ==
  ASSUME EarningsInv, Earnings!times \subseteq 0 .. now, NEW S \in SUBSET Earnings!times, S # {}
  PROVE  Earnings!Max(S) \in S /\ \A t \in S : t <= Earnings!Max(S)
<1>1. now \in Nat
  BY DEF EarningsInv, Backed
<1>2. S \in SUBSET Int /\ \A t \in S : t <= now /\ t >= 0
  BY <1>1
<1>3. PICK t \in S : t >= 0
  BY <1>2
<1>4. \A r \in S : r <= now
  BY <1>2
<1>5. QED
  BY <1>1, <1>2, <1>3, <1>4, GreatestIs

(* The chart at the end of a month is no lower than at that of an earlier. *)
LEMMA CumGrows ==
  ASSUME EarningsInv, YieldInv, SnapsInv, PastInv, NEW u, NEW k, Answered(u, k),
         NEW m \in Int, NEW l \in Int, l <= m
  PROVE  Cum(l) \in Nat /\ Cum(m) \in Nat /\ Cum(l) <= Cum(m)
<1>1. Earnings!times \subseteq 0 .. now /\ now \in Nat
  BY TimesPassed DEF EarningsInv, Backed
<1>2. ASSUME NEW n \in {l, m}, UpToMonth(n) # {}
      PROVE  /\ Earnings!Max(UpToMonth(n)) \in UpToMonth(n)
             /\ \A t \in UpToMonth(n) : t <= Earnings!Max(UpToMonth(n))
             /\ Earnings!Max(UpToMonth(n)) \in Earnings!times
  <2>1. UpToMonth(n) \in SUBSET Earnings!times
    BY DEF UpToMonth
  <2>2. QED
    BY <1>1, <1>2, <2>1, LastTime
<1>3. \A n \in {l, m} : Cum(n) \in Nat
  BY <1>2, ChartGrows DEF Cum
<1>4. UpToMonth(l) \subseteq UpToMonth(m)
  <2> SUFFICES ASSUME NEW t \in Earnings!times, Earnings!monthKey(t) <= l
               PROVE  Earnings!monthKey(t) <= m
    BY DEF UpToMonth
  <2>1. Earnings!monthKey(t) \in Int
    <3>1. t \in Int /\ Month \in Nat \ {0}
      BY <1>1, ChartConstants
    <3>2. QED
      BY <3>1 DEF Earnings!monthKey
  <2>2. QED
    BY <2>1
<1>5. CASE UpToMonth(l) = {}
  <2>1. Cum(l) = 0
    BY <1>5 DEF Cum
  <2>2. QED
    BY <1>3, <2>1
<1>6. CASE UpToMonth(l) # {}
  <2> DEFINE a == Earnings!Max(UpToMonth(l))
             b == Earnings!Max(UpToMonth(m))
  <2>1. UpToMonth(m) # {}
    BY <1>4, <1>6
  <2>2. a \in Earnings!times /\ b \in Earnings!times /\ a <= b
    BY <1>2, <1>4, <1>6, <2>1
  <2>3. Cum(l) = Earnings!chart[a] /\ Cum(m) = Earnings!chart[b]
    BY <1>6, <2>1 DEF Cum
  <2> HIDE DEF a, b
  <2>4. Earnings!chart[a] <= Earnings!chart[b]
    BY <2>2, ChartGrows
  <2>5. QED
    BY <1>3, <2>3, <2>4
<1>7. QED
  BY <1>5, <1>6

(* A month's earnings are what the chart adds in it.                       *)
LEMMA MonthlyIs ==
  \A m \in DOMAIN Earnings!monthly :
    Earnings!monthly[m] = Cum(m) - IF m = 0 THEN 0 ELSE Cum(m - 1)
BY DEF Earnings!monthly, Cum, UpToMonth

(* The invariant makes every answer a chart that invents nothing.          *)
LEMMA ChartServed ==
  ASSUME EarningsInv, YieldInv, SnapsInv, PastInv
  PROVE  Earnings!ChartInventsNothing
<1> SUFFICES ASSUME Earnings!Complete,
                    \A c \in Earnings!Currencies : Earnings!Unseen("withdraw", c) = 0
             PROVE  /\ \A t \in Earnings!times :
                         Earnings!chart[t]
                           <= Earnings!InUsd([c \in Earnings!Currencies |->
                                                gained[t][c] + 2 * Earnings!Dust(c)])
                    /\ \A m \in DOMAIN Earnings!monthly : Earnings!monthly[m] >= 0
                    /\ Earnings!times # {} =>
                         \A ms \in RANGE_MS :
                           Earnings!rangeSeries(ms, Earnings!balanceUsd)[Earnings!Max(Earnings!times)]
                             <= Earnings!InUsd([c \in Earnings!Currencies |-> Earnings!WorthNow(c)])
  BY DEF Earnings!ChartInventsNothing
<1>1. PICK u, k : Answered(u, k)
  BY AnsweredIs DEF Priced
<1>2. /\ Earnings!times \subseteq 0 .. now /\ now \in Nat
      /\ \A n \in 1 .. k : history[n].who = u => history[n].ts \in Earnings!times
  BY <1>1, TimesPassed DEF EarningsInv, Backed
<1>3. ASSUME NEW t \in Earnings!times
      PROVE  Earnings!chart[t]
               <= Earnings!InUsd([c \in Earnings!Currencies |->
                                    gained[t][c] + 2 * Earnings!Dust(c)])
  <2>1. [c \in Earnings!Currencies |-> gained[t][c] + 2 * Earnings!Dust(c)] = Cap(t)
    <3>1. \A c : Earnings!Dust(c) = DustOf(c)
      BY DustIs DEF DustOf
    <3>2. QED
      BY <3>1 DEF Cap, Priced
  <2>2. QED
    BY <1>1, <2>1, ChartGrows
<1>4. ASSUME NEW m \in DOMAIN Earnings!monthly
      PROVE  Earnings!monthly[m] >= 0
  <2>1. m \in Int
    <3>1. PICK t \in Earnings!times : m = Earnings!monthKey(t)
      BY DEF Earnings!monthly
    <3>2. t \in Int /\ Month \in Nat \ {0}
      BY <1>2, ChartConstants
    <3>3. QED
      BY <3>1, <3>2 DEF Earnings!monthKey
  <2>2. Earnings!monthly[m] = Cum(m) - IF m = 0 THEN 0 ELSE Cum(m - 1)
    BY MonthlyIs
  <2>3. Cum(m - 1) \in Nat /\ Cum(m) \in Nat /\ Cum(m - 1) <= Cum(m)
    <3>1. m - 1 \in Int /\ m - 1 <= m
      BY <2>1
    <3>2. QED
      BY <1>1, <2>1, <3>1, CumGrows
  <2>4. QED
    BY <2>2, <2>3
<1>5. ASSUME Earnings!times # {}, NEW ms \in RANGE_MS
      PROVE  Earnings!rangeSeries(ms, Earnings!balanceUsd)[Earnings!Max(Earnings!times)]
               <= Earnings!InUsd([c \in Earnings!Currencies |-> Earnings!WorthNow(c)])
  <2> DEFINE last == Earnings!Max(Earnings!times)
  <2>1. last \in Earnings!times /\ \A t \in Earnings!times : t <= last
    BY <1>2, <1>5, LastTime
  <2>2. Earnings!rangeSeries(ms, Earnings!balanceUsd)
          = [t \in {t \in Earnings!times : t >= last - ms} |-> Earnings!valueAt(t)]
    BY <1>5 DEF Earnings!rangeSeries
  <2> HIDE DEF last
  <2>3. last \in 0 .. now /\ ms \in Nat
    BY <1>2, <2>1, ChartConstants
  <2>4. last >= last - ms
    BY <2>3
  <2>5. Earnings!rangeSeries(ms, Earnings!balanceUsd)[last] = Earnings!valueAt(last)
    BY <2>1, <2>2, <2>4
  <2>6. \A n \in 1 .. k : history[n].who = u => history[n].ts <= last
    BY <1>2, <2>1
  <2>7. Earnings!valueAt(last) <= Earnings!InUsd([c \in Priced |-> Value(u, c)])
    BY <1>1, <2>3, <2>6, ValueBelow
  <2>8. [c \in Earnings!Currencies |-> Earnings!WorthNow(c)] = [c \in Priced |-> Value(u, c)]
    BY <1>1 DEF Priced, Earnings!WorthNow, Value, Redeems, Answered
  <2>9. QED
    BY <2>5, <2>7, <2>8 DEF last
<1>6. QED
  BY <1>3, <1>4, <1>5

(* Whatever the depositors did and when, and whatever the snapshots and    *)
(* polls caught of it, the chart shows no growth before the buckets had    *)
(* it, no month takes earnings back, and the line of the hero chart ends   *)
(* no higher than the depositor's shares redeem for, as long as no         *)
(* withdrawal is missing (snapshotter.ts; api/earnings.ts;                 *)
(* DesktopOverview.tsx).                                                   *)
THEOREM ChartTheorem == Earnings!Spec => []ChartInventsNothing
<1> DEFINE Whole == EarningsInv /\ YieldInv /\ SnapsInv /\ PastInv
<1>1. EarningsInv => AllNumbers /\ LastOfShort
  BY BackedNumbers, ShortIsLast DEF EarningsInv
<1>2. Earnings!Init => Whole
  BY <1>1, EarningsStart, YieldStart, SnapsStart, PastStart
<1>3. EarningsInv /\ [Earnings!Next]_(Earnings!vars) => EarningsInv'
  BY EarningsStep
<1>4. EarningsInv' => AllNumbers' /\ LastOfShort'
  BY <1>1, PTL
<1>5. Whole /\ [Earnings!Next]_(Earnings!vars) => Whole'
  BY <1>1, <1>3, <1>4, YieldStep, SnapsStep, PastStep
<1>6. Whole => ChartInventsNothing
  BY ChartServed DEF ChartInventsNothing
<1>7. QED
  BY <1>2, <1>5, <1>6, PTL DEF Earnings!Spec
=============================================================================
