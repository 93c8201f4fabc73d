---------------------------- MODULE LoopsProofs ----------------------------
(***************************************************************************)
(* The loops of the backend: the poller loses nothing and shows an         *)
(* unbroken run of the chain's events; Sentinel answers what threatens;    *)
(* the keeper leaves pending exits alone and moves a dwell time apart.     *)
(***************************************************************************)
EXTENDS MCLoops, CollectionProofs, SequenceTheorems

-----------------------------------------------------------------------------
(* The poller, whatever the size of a page, the cap on pages and what the  *)
(* RPC retains, over a chain that never stops.                             *)

Base == Poller!Before(startLedger)

(* The first n events from where the process began.                        *)
Upto(n) == [i \in 1 .. n |-> Base + i]

ChainInv ==
  /\ tip \in Nat \ {0} /\ log \in Seq(Nat)
  /\ \A e \in DOMAIN log : log[e] <= tip
  /\ \A d, e \in DOMAIN log : d <= e => log[d] <= log[e]
  /\ startLedger \in 1 .. tip

(* The store holds the run that ends where the next poll resumes, and the  *)
(* routes are shown a beginning of it.                                     *)
Drawn(n, m) ==
  /\ n \in Nat /\ m \in 0 .. n
  /\ Base + n <= Len(log)
  /\ stored = Upto(n) /\ shown = Upto(m)
  /\ IF cursor = NoCursor THEN n = 0 ELSE cursor.after = Base + n

StoreInv ==
  /\ \E n \in Nat : \E m \in 0 .. n : Drawn(n, m)
  /\ phase \in {"down", "disabled"} => stored = <<>> /\ shown = <<>> /\ cursor = NoCursor

PollerInv == ChainInv /\ StoreInv

LEMMA PollerConstants ==
  /\ PageLimit \in Nat \ {0} /\ RetentionMargin \in Nat /\ StartSettings \subseteq Nat
  /\ NoCursor \notin [after : Nat, ledger : Nat]
BY LoopsAssumption DEF Poller!ConstantsOK

(* An instance of a module has operators of its own for those that the     *)
(* module takes from the library. They are the same.                       *)
LEMMA PollerLibrary ==
  /\ \A S : Poller!Cardinality(S) = Cardinality(S)
  /\ \A s : Poller!ToSet(s) = ToSet(s)
  /\ \A list, gone : Poller!Without(list, gone) = Without(list, gone)
<1>1. \A S : Poller!Cardinality(S) = Cardinality(S)
  BY Zenon DEF Poller!Cardinality, Cardinality
<1>2. \A s : Poller!ToSet(s) = ToSet(s)
  BY DEF Poller!ToSet, ToSet
<1>3. \A list, gone : Poller!Without(list, gone) = Without(list, gone)
  BY Zenon DEF Poller!Without, Without, Poller!Rank, Rank, Poller!Cardinality, Cardinality
<1>4. QED
  BY <1>1, <1>2, <1>3

(* A ledger has a number of events before it, which later ledgers do not   *)
(* change.                                                                 *)
LEMMA BeforeType ==
  ASSUME NEW l \in Nat, log \in Seq(Nat)
  PROVE  Poller!Before(l) \in 0 .. Len(log)
<1> DEFINE early == {e \in DOMAIN log : log[e] < l}
<1>1. Len(log) \in Nat /\ early \subseteq 1 .. Len(log)
  OBVIOUS
<1>2. IsFiniteSet(1 .. Len(log)) /\ Cardinality(1 .. Len(log)) = Len(log)
  <2>1. /\ IsFiniteSet(1 .. Len(log))
        /\ Cardinality(1 .. Len(log))
             = IF 1 > Len(log) THEN 0 ELSE Len(log) - 1 + 1
    BY <1>1, FS_Interval
  <2>2. QED
    BY <1>1, <2>1
<1> HIDE DEF early
<1>3. IsFiniteSet(early) /\ Cardinality(early) <= Cardinality(1 .. Len(log))
  BY <1>1, <1>2, FS_Subset
<1>4. Cardinality(early) \in Nat
  BY <1>3, FS_CardinalityType
<1>5. QED
  BY <1>1, <1>2, <1>3, <1>4, PollerLibrary DEF early, Poller!Before

LEMMA BaseType ==
  ASSUME ChainInv
  PROVE  Base \in 0 .. Len(log)
BY BeforeType DEF ChainInv, Base

LEMMA BaseStays ==
  ASSUME ChainInv, UNCHANGED <<log, startLedger>>
  PROVE  Base' = Base
BY DEF Base, Poller!Before

LEMMA UptoType ==
  ASSUME ChainInv, NEW n \in Nat
  PROVE  /\ Upto(n) \in Seq(Nat) /\ Len(Upto(n)) = n
         /\ \A i \in 1 .. n : Upto(n)[i] = Base + i
         /\ ToSet(Upto(n)) = (Base + 1) .. (Base + n)
<1>1. Base \in Nat /\ n \in Nat
  BY BaseType
<1>2. \A i \in 1 .. n : Base + i \in Nat
  BY <1>1
<1>3. Upto(n) \in [1 .. n -> Nat]
  BY <1>2 DEF Upto
<1>4. Upto(n) \in Seq(Nat) /\ Len(Upto(n)) = n
  BY <1>1, <1>3
<1>5. \A i \in 1 .. n : Upto(n)[i] = Base + i
  BY DEF Upto
<1>6. ToSet(Upto(n)) = (Base + 1) .. (Base + n)
  <2>1. ToSet(Upto(n)) = {Base + i : i \in 1 .. n}
    BY DEF ToSet, Upto
  <2>2. \A e \in (Base + 1) .. (Base + n) : e - Base \in 1 .. n /\ e = Base + (e - Base)
    BY <1>1
  <2>3. \A i \in 1 .. n : Base + i \in (Base + 1) .. (Base + n)
    BY <1>1
  <2>4. QED
    BY <2>1, <2>2, <2>3
<1>7. QED
  BY <1>4, <1>5, <1>6

(* Two runs one after the other are one.                                   *)
LEMMA UptoJoins ==
  ASSUME ChainInv, NEW n \in Nat, NEW k \in Nat
  PROVE  Upto(n) \o [i \in 1 .. k |-> Base + n + i] = Upto(n + k)
<1> DEFINE more == [i \in 1 .. k |-> Base + n + i]
           both == Upto(n) \o more
<1>1. Base \in Nat
  BY BaseType
<1>2. more \in [1 .. k -> Nat]
  BY <1>1
<1>3. more \in Seq(Nat) /\ Len(more) = k /\ \A i \in 1 .. k : more[i] = Base + n + i
  <2>1. \A i \in 1 .. k : more[i] = Base + n + i
    OBVIOUS
  <2> HIDE DEF more
  <2>2. QED
    BY <1>2, <2>1
<1>4. /\ Upto(n) \in Seq(Nat) /\ Len(Upto(n)) = n
      /\ \A i \in 1 .. n : Upto(n)[i] = Base + i
  BY UptoType
<1>5. /\ Upto(n + k) \in Seq(Nat) /\ Len(Upto(n + k)) = n + k
      /\ \A i \in 1 .. n + k : Upto(n + k)[i] = Base + i
  BY UptoType
<1> HIDE DEF more
<1>6. both \in Seq(Nat) /\ Len(both) = n + k
  BY <1>3, <1>4
<1>7. ASSUME NEW i \in 1 .. n + k
      PROVE  both[i] = Upto(n + k)[i]
  <2>1. CASE i <= n
    <3>1. both[i] = Upto(n)[i] /\ i \in 1 .. n
      BY <1>3, <1>4, <2>1
    <3>2. QED
      BY <1>4, <1>5, <3>1
  <2>2. CASE i > n
    <3>1. both[i] = more[i - n] /\ i - n \in 1 .. k
      BY <1>3, <1>4, <2>2, SMTT(30)
    <3>2. more[i - n] = Base + n + (i - n)
      BY <1>3, <3>1
    <3>3. QED
      BY <1>1, <1>5, <3>1, <3>2
  <2>3. i <= n \/ i > n
    OBVIOUS
  <2>4. QED
    BY <2>1, <2>2, <2>3, Zenon
<1> HIDE DEF both
<1>8. both = Upto(n + k)
  BY <1>5, <1>6, <1>7
<1>9. QED
  BY <1>8, Zenon DEF both, more

(* What has come up to an entry of an ordered list is what stands up to    *)
(* it, so the store's sort leaves such a list as it is.                    *)
LEMMA OrderedStays ==
  ASSUME ChainInv, NEW n \in Nat, Base + n <= Len(log)
  PROVE  Poller!InLedgerOrder(Upto(n)) = Upto(n)
<1> DEFINE ids == Upto(n)
           upTo(i) == {j \in DOMAIN ids : \/ log[ids[j]] < log[ids[i]]
                                          \/ log[ids[j]] = log[ids[i]] /\ j <= i}
           place(k) == CHOOSE i \in DOMAIN ids : Cardinality(upTo(i)) = k
<1>1. Base \in Nat /\ Len(log) \in Nat /\ DOMAIN log = 1 .. Len(log)
  BY BaseType DEF ChainInv
<1>2. ids \in Seq(Nat) /\ DOMAIN ids = 1 .. n /\ \A i \in 1 .. n : ids[i] = Base + i
  BY UptoType
<1>3. ASSUME NEW i \in 1 .. n
      PROVE  Cardinality(upTo(i)) = i
  <2>1. ASSUME NEW j \in 1 .. n
        PROVE  /\ log[ids[j]] \in Nat
               /\ j <= i => log[ids[j]] <= log[ids[i]]
               /\ i <= j => log[ids[i]] <= log[ids[j]]
    <3>1. Base + i \in DOMAIN log /\ Base + j \in DOMAIN log
      BY <1>1
    <3>2. log[Base + j] \in Nat /\ log[Base + i] \in Nat
      BY <3>1 DEF ChainInv
    <3>3. /\ j <= i => log[Base + j] <= log[Base + i]
          /\ i <= j => log[Base + i] <= log[Base + j]
      BY <1>1, <3>1, SMTT(30) DEF ChainInv
    <3>4. QED
      BY <1>2, <3>2, <3>3
  <2>2. ASSUME NEW j \in 1 .. n
        PROVE  j \in upTo(i) <=> j <= i
    <3> HIDE DEF ids
    <3>1. /\ log[ids[j]] \in Nat /\ log[ids[i]] \in Nat
          /\ j <= i => log[ids[j]] <= log[ids[i]]
          /\ i <= j => log[ids[i]] <= log[ids[j]]
      BY <2>1
    <3>2. QED
      BY <1>2, <3>1
  <2>3. upTo(i) = 1 .. i
    <3>1. upTo(i) \subseteq 1 .. n
      BY <1>2
    <3> HIDE DEF upTo
    <3>2. \A j : j \in upTo(i) <=> j \in 1 .. i
      BY <2>2, <3>1
    <3>3. QED
      BY <3>2
  <2>4. Cardinality(1 .. i) = IF 1 > i THEN 0 ELSE i - 1 + 1
    BY FS_Interval
  <2> HIDE DEF upTo
  <2>5. QED
    BY <2>3, <2>4
<1> HIDE DEF upTo
<1>4. ASSUME NEW k \in 1 .. n
      PROVE  place(k) = k
  BY <1>2, <1>3
<1>5. Poller!InLedgerOrder(ids) = [k \in DOMAIN ids |-> ids[place(k)]]
  BY PollerLibrary, Zenon DEF Poller!InLedgerOrder, upTo, Poller!Cardinality, Cardinality
<1> HIDE DEF place, ids
<1>6. QED
  BY <1>2, <1>4, <1>5 DEF ids

LEMMA DrawnStays ==
  ASSUME ChainInv, Base' = Base, Len(log') \in Nat, Len(log) <= Len(log'),
         UNCHANGED <<stored, cursor, shown>>, NEW n, NEW m, Drawn(n, m)
  PROVE  Drawn(n, m)'
<1>1. Base + n <= Len(log')
  <2>1. Base \in Nat /\ n \in Nat /\ Len(log) \in Nat
    BY BaseType DEF Drawn, ChainInv
  <2>2. Base + n <= Len(log)
    BY DEF Drawn
  <2>3. QED
    BY <2>1, <2>2
<1>2. Upto(n)' = Upto(n) /\ Upto(m)' = Upto(m)
  BY DEF Upto
<1>3. QED
  BY <1>1, <1>2 DEF Drawn

(* An empty store resumes from where the process began.                    *)
LEMMA DrawnNothing ==
  ASSUME log' \in Seq(Nat), Base' \in 0 .. Len(log'),
         stored' = <<>>, shown' = <<>>, cursor' = NoCursor
  PROVE  Drawn(0, 0)'
<1>1. Base' \in Nat /\ Base' + 0 <= Len(log')
  BY DEF Drawn
<1>2. Upto(0)' = <<>>
  BY DEF Upto
<1>3. QED
  BY <1>1, <1>2 DEF Drawn

LEMMA PollerStarts ==
  ASSUME Poller!Init
  PROVE  PollerInv /\ Poller!Feed!Init
<1>1. log = <<>> /\ tip = 1 /\ startLedger = 1 /\ stored = <<>> /\ shown = <<>> /\ cursor = NoCursor
  BY DEF Poller!Init
<1>2. ChainInv
  BY <1>1 DEF ChainInv
<1>3. Base \in 0 .. Len(log) /\ Len(log) = 0
  BY <1>1, <1>2, BaseType
<1>4. Base = 0
  BY <1>3
<1>5. Upto(0) = <<>>
  BY DEF Upto
<1>6. Drawn(0, 0)
  BY <1>1, <1>3, <1>4, <1>5 DEF Drawn
<1>7. StoreInv
  <2>1. 0 \in Nat /\ 0 \in 0 .. 0
    OBVIOUS
  <2>2. QED
    BY <1>1, <1>6, <2>1 DEF StoreInv
<1>8. QED
  BY <1>1, <1>2, <1>3, <1>4, <1>7 DEF PollerInv, Poller!Feed!Init, Base

(* The chain grows by events later than everything the process began with. *)
LEMMA CloseLedgerStep ==
  ASSUME PollerInv, NEW n \in 0 .. 2, Poller!CloseLedger(n)
  PROVE  PollerInv' /\ (Poller!Feed!Next \/ UNCHANGED Poller!Feed!feedVars)
<1> DEFINE more == [i \in 1 .. n |-> tip + 1]
<1>1. /\ tip \in Nat /\ tip > 0 /\ log \in Seq(Nat) /\ Len(log) \in Nat /\ n \in Nat
      /\ startLedger \in 1 .. tip
  BY DEF PollerInv, ChainInv
<1>2. more \in Seq(Nat) /\ Len(more) = n /\ \A i \in 1 .. n : more[i] = tip + 1
  <2>1. more \in [1 .. n -> Nat] /\ \A i \in 1 .. n : more[i] = tip + 1
    BY <1>1
  <2> HIDE DEF more
  <2>2. QED
    BY <1>1, <2>1
<1>3. /\ log' = log \o more /\ tip' = tip + 1
      /\ UNCHANGED <<phase, startLedger, stored, cursor, shown>>
  BY DEF Poller!CloseLedger, Poller!storeVars
<1> HIDE DEF more
<1>4. /\ log' \in Seq(Nat) /\ Len(log') = Len(log) + n
      /\ \A e \in 1 .. Len(log) : log'[e] = log[e]
      /\ \A e \in Len(log) + 1 .. Len(log) + n : log'[e] = tip + 1
  <2>1. log' \in Seq(Nat) /\ Len(log') = Len(log) + n
    BY <1>1, <1>2, <1>3
  <2>2. \A e \in 1 .. Len(log) : log'[e] = log[e]
    BY <1>1, <1>2, <1>3
  <2>3. ASSUME NEW e \in Len(log) + 1 .. Len(log) + n
        PROVE  log'[e] = tip + 1
    <3>1. e - Len(log) \in 1 .. n /\ log'[e] = more[e - Len(log)]
      BY <1>1, <1>2, <1>3
    <3>2. QED
      BY <1>2, <3>1
  <2>4. QED
    BY <2>1, <2>2, <2>3
<1>5. DOMAIN log = 1 .. Len(log) /\ DOMAIN log' = 1 .. Len(log) + n
  BY <1>1, <1>4
<1>6. ChainInv'
  <2>1. ASSUME NEW e \in DOMAIN log'
        PROVE  log'[e] <= tip + 1
    <3>1. CASE e <= Len(log)
      BY <1>1, <1>4, <1>5, <3>1 DEF PollerInv, ChainInv
    <3>2. CASE e > Len(log)
      <4>1. e \in Len(log) + 1 .. Len(log) + n
        BY <1>1, <1>5, <3>2
      <4>2. QED
        BY <1>1, <1>4, <4>1
    <3>3. QED
      BY <1>1, <1>5, <3>1, <3>2
  <2>2. ASSUME NEW d \in DOMAIN log', NEW e \in DOMAIN log', d <= e
        PROVE  log'[d] <= log'[e]
    <3>1. CASE e <= Len(log)
      <4>1. d \in DOMAIN log /\ e \in DOMAIN log
        BY <1>1, <1>5, <2>2, <3>1
      <4>2. log[d] <= log[e]
        BY <2>2, <4>1 DEF PollerInv, ChainInv
      <4>3. QED
        BY <1>4, <1>5, <4>1, <4>2
    <3>2. CASE e > Len(log)
      <4>1. log'[e] = tip + 1
        BY <1>1, <1>4, <1>5, <3>2
      <4>2. QED
        BY <2>1, <4>1
    <3>3. QED
      BY <1>1, <1>5, <3>1, <3>2
  <2>3. tip' \in Nat \ {0} /\ startLedger' \in 1 .. tip'
    BY <1>1, <1>3
  <2>4. \A e \in DOMAIN log' : log'[e] <= tip'
    BY <1>3, <2>1
  <2>5. QED
    BY <1>4, <2>2, <2>3, <2>4 DEF ChainInv
<1>7. Base' = Base
  <2>1. {e \in DOMAIN log' : log'[e] < startLedger} = {e \in DOMAIN log : log[e] < startLedger}
    <3>1. ASSUME NEW e \in DOMAIN log', log'[e] < startLedger
          PROVE  e \in 1 .. Len(log)
      <4>1. ~(e > Len(log))
        BY <1>1, <1>4, <1>5, <3>1
      <4>2. QED
        BY <1>1, <1>5, <4>1
    <3>2. QED
      BY <1>1, <1>4, <1>5, <3>1
  <2>2. QED
    BY <1>3, <2>1 DEF Base, Poller!Before
<1>8. StoreInv'
  <2>1. PICK j \in Nat : \E m \in 0 .. j : Drawn(j, m)
    BY DEF PollerInv, StoreInv
  <2>2. PICK m \in 0 .. j : Drawn(j, m)
    BY <2>1
  <2>3. Len(log') \in Nat /\ Len(log) <= Len(log')
    BY <1>1, <1>4
  <2>4. Drawn(j, m)'
    BY <1>3, <1>7, <2>2, <2>3, DrawnStays DEF PollerInv
  <2>5. QED
    BY <1>3, <2>4 DEF StoreInv, PollerInv
<1>9. CASE n = 0
  <2>1. Len(log') = Len(log)
    BY <1>1, <1>4, <1>9
  <2>2. QED
    BY <1>3, <1>6, <1>7, <1>8, <2>1 DEF PollerInv, Poller!Feed!feedVars, Base
<1>10. CASE n > 0
  <2>1. Len(log') \in Nat /\ Len(log') > Len(log)
    BY <1>1, <1>4, <1>10
  <2>2. Poller!Feed!Close
    BY <1>3, <1>7, <2>1 DEF Poller!Feed!Close, Base
  <2>3. QED
    BY <1>6, <1>8, <2>2 DEF PollerInv, Poller!Feed!Next
<1>11. QED
  BY <1>1, <1>9, <1>10

(* A process that is down has nothing in memory when it starts, or has     *)
(* forgotten it.                                                           *)
LEMMA BlankStep ==
  ASSUME ChainInv, UNCHANGED <<log, tip>>, startLedger' \in 1 .. tip,
         stored' = <<>>, shown' = <<>>, cursor' = NoCursor
  PROVE  PollerInv' /\ (Poller!Feed!Next \/ UNCHANGED Poller!Feed!feedVars)
<1>1. log \in Seq(Nat) /\ Len(log) \in Nat /\ startLedger' \in Nat
  BY DEF ChainInv
<1>2. Base' \in 0 .. Len(log)
  <2>1. Base' = Poller!Before(startLedger')
    BY DEF Base, Poller!Before
  <2>2. Poller!Before(startLedger') \in 0 .. Len(log)
    BY <1>1, BeforeType
  <2>3. QED
    BY <2>1, <2>2
<1>3. ChainInv'
  BY DEF ChainInv
<1>4. StoreInv'
  <2>1. Drawn(0, 0)'
    BY <1>1, <1>2, DrawnNothing
  <2>2. 0 \in Nat /\ 0 \in 0 .. 0
    OBVIOUS
  <2>3. QED
    BY <2>1, <2>2 DEF StoreInv
<1>5. Poller!Feed!Restart
  BY <1>1, <1>2 DEF Poller!Feed!Restart, Base
<1>6. QED
  BY <1>3, <1>4, <1>5 DEF PollerInv, Poller!Feed!Next

(* A step that leaves the store alone.                                     *)
LEMMA StoreStands ==
  ASSUME PollerInv, UNCHANGED <<log, tip, startLedger, stored, cursor, shown>>,
         phase' \in {"down", "disabled"} => phase \in {"down", "disabled"}
  PROVE  PollerInv' /\ UNCHANGED Poller!Feed!feedVars
<1>1. ChainInv'
  BY DEF PollerInv, ChainInv
<1>2. Base' = Base
  BY BaseStays DEF PollerInv
<1>3. Len(log') \in Nat /\ Len(log) <= Len(log')
  BY DEF PollerInv, ChainInv
<1>4. StoreInv'
  <2>1. PICK j \in Nat : \E m \in 0 .. j : Drawn(j, m)
    BY DEF PollerInv, StoreInv
  <2>2. PICK m \in 0 .. j : Drawn(j, m)
    BY <2>1
  <2>3. Drawn(j, m)'
    BY <1>2, <1>3, <2>2, DrawnStays DEF PollerInv
  <2>4. QED
    BY <2>3 DEF StoreInv, PollerInv
<1>5. QED
  BY <1>1, <1>2, <1>4 DEF PollerInv, Poller!Feed!feedVars, Base

(* What is in the store already is not ingested again.                     *)
LEMMA IngestsTheRest ==
  ASSUME PollerInv, NEW n, NEW m, Drawn(n, m), NEW k \in Nat, NEW r \in 0 .. 1, r <= n
  PROVE  Poller!Ingested([i \in 1 .. k + r |-> Base + n - r + i]) = Upto(n + k)
<1> DEFINE events == [i \in 1 .. k + r |-> Base + n - r + i]
<1>1. ChainInv /\ Base \in Nat /\ n \in Nat /\ stored = Upto(n)
  BY BaseType DEF PollerInv, Drawn
<1>2. ToSet(stored) = (Base + 1) .. (Base + n)
  BY <1>1, UptoType
<1>3. DOMAIN events = 1 .. k + r /\ \A i \in 1 .. k + r : events[i] = Base + n - r + i
  OBVIOUS
<1>4. k + r \in Nat /\ r \in 0 .. k + r
  OBVIOUS
<1>5. \A i \in 1 .. k + r : events[i] \in ToSet(stored) <=> i <= r
  <2> SUFFICES ASSUME NEW i \in 1 .. k + r
               PROVE  events[i] \in ToSet(stored) <=> i <= r
    OBVIOUS
  <2>1. events[i] = Base + n - r + i
    BY <1>3
  <2> HIDE DEF events
  <2>2. QED
    BY <1>1, <1>2, <2>1
<1> HIDE DEF events
<1>6. Without(events, ToSet(stored)) = [i \in 1 .. k + r - r |-> events[r + i]]
  BY <1>3, <1>4, <1>5, WithoutPrefix, SMTT(30)
<1>7. ASSUME NEW i \in 1 .. k
      PROVE  events[r + i] = Base + n + i
  <2>1. r + i \in 1 .. k + r
    OBVIOUS
  <2>2. events[r + i] = Base + n - r + (r + i)
    BY <1>3, <2>1
  <2>3. QED
    BY <1>1, <2>2
<1>8. Without(events, ToSet(stored)) = [i \in 1 .. k |-> Base + n + i]
  <2>1. k + r - r = k
    OBVIOUS
  <2>2. QED
    BY <1>6, <1>7, <2>1
<1>9. Poller!Ingested(events) = Upto(n + k)
  BY <1>1, <1>8, UptoJoins, PollerLibrary DEF Poller!Ingested
<1>10. QED
  BY <1>9, Zenon DEF events

(* A page that arrives continues the run in the store, whether or not it   *)
(* delivers the last event once more, and its cursor names the end of it.  *)
LEMMA PageContinues ==
  ASSUME PollerInv, NEW n, NEW m, Drawn(n, m), NEW page \in Poller!Answers
  PROVE  \E k \in Nat :
           /\ Base + (n + k) <= Len(log)
           /\ Poller!Ingested(page.events) = Upto(n + k)
           /\ IF Poller!ResumeFrom(page) = NoCursor
                THEN n + k = 0
                ELSE Poller!ResumeFrom(page).after = Base + (n + k)
<1> DEFINE rest == Len(log) - Poller!Asked
           more == IF rest < PageLimit THEN rest ELSE PageLimit
           last == Poller!Asked + more
           end  == [after |-> last, ledger |-> IF rest <= PageLimit THEN tip ELSE log[last]]
           events(first) == [i \in 1 .. last + 1 - first |-> first + i - 1]
<1>1. /\ ChainInv /\ Base \in Nat /\ n \in Nat /\ Len(log) \in Nat
      /\ DOMAIN log = 1 .. Len(log) /\ Base + n <= Len(log)
      /\ stored = Upto(n) /\ PageLimit \in Nat \ {0}
  BY BaseType, PollerConstants DEF PollerInv, ChainInv, Drawn
<1>2. Poller!Asked = Base + n
  BY <1>1 DEF Poller!Asked, Drawn, Base
<1>3. /\ rest \in Nat /\ more \in Nat /\ more <= rest
      /\ last = Base + n + more /\ last <= Len(log)
  <2>1. rest = Len(log) - (Base + n) /\ rest \in Nat
    BY <1>1, <1>2
  <2> HIDE DEF rest
  <2>2. more \in Nat /\ more <= rest
    BY <1>1, <2>1
  <2>3. last = Base + n + more
    BY <1>2
  <2> HIDE DEF more, last
  <2>4. QED
    BY <1>1, <2>1, <2>2, <2>3
<1>4. end.after = Base + (n + more) /\ end # NoCursor
  <2>1. rest > PageLimit => log[last] \in Nat
    <3>1. rest > PageLimit => last \in DOMAIN log
      BY <1>1, <1>3
    <3>2. QED
      BY <1>1, <3>1 DEF ChainInv
  <2> HIDE DEF rest, last
  <2>2. (IF rest <= PageLimit THEN tip ELSE log[last]) \in Nat
    BY <1>1, <1>3, <2>1 DEF ChainInv
  <2>3. last \in Nat /\ last = Base + (n + more)
    BY <1>1, <1>3
  <2>4. QED
    BY <2>2, <2>3, PollerConstants
<1> HIDE DEF rest, end
<1>6. ASSUME NEW first \in {Poller!Asked + 1} \cup ({Poller!Asked} \cap ToSet(stored))
      PROVE  Poller!Ingested(events(first)) = Upto(n + more)
  <2>1. ToSet(stored) = (Base + 1) .. (Base + n)
    BY <1>1, UptoType
  <2>2. PICK r \in 0 .. 1 : first = Base + n + 1 - r /\ r <= n
    <3>1. CASE first = Base + n + 1
      BY <1>1, <3>1
    <3>2. CASE first = Base + n /\ n > 0
      BY <1>1, <3>2
    <3>3. QED
      BY <1>1, <1>2, <2>1, <3>1, <3>2
  <2>3. last + 1 - first = more + r
    BY <1>1, <1>3, <2>2
  <2>4. \A i \in 1 .. more + r : first + i - 1 = Base + n - r + i
    BY <1>1, <2>2
  <2>5. events(first) = [i \in 1 .. more + r |-> Base + n - r + i]
    BY <2>3, <2>4
  <2> HIDE DEF events, more, last
  <2>6. QED
    BY <1>3, <2>2, <2>5, IngestsTheRest
<1>7. CASE \E first \in {Poller!Asked + 1} \cup ({Poller!Asked} \cap ToSet(stored)) :
             page = [events |-> events(first), cursor |-> end]
  <2>1. PICK first \in {Poller!Asked + 1} \cup ({Poller!Asked} \cap ToSet(stored)) :
          page = [events |-> events(first), cursor |-> end]
    BY <1>7
  <2> HIDE DEF events
  <2>2. page.events = events(first) /\ Poller!ResumeFrom(page) = end
    BY <1>4, <2>1 DEF Poller!ResumeFrom
  <2>3. Poller!Ingested(page.events) = Upto(n + more)
    BY <1>6, <2>2
  <2>4. Base + (n + more) <= Len(log)
    BY <1>1, <1>3
  <2>5. QED
    BY <1>3, <1>4, <2>2, <2>3, <2>4
<1>8. CASE page = [events |-> <<>>, cursor |-> NoCursor]
  <2>1. page.events = <<>> /\ Poller!ResumeFrom(page) = cursor
    BY <1>8 DEF Poller!ResumeFrom
  <2>2. Without(<<>>, ToSet(stored)) = <<>>
    <3> DEFINE none == <<>>
    <3>1. DOMAIN none = 1 .. 0 /\ 0 \in 0 .. 0 /\ 0 \in Nat
      OBVIOUS
    <3>2. \A i \in 1 .. 0 : none[i] \in ToSet(stored) <=> i <= 0
      OBVIOUS
    <3>3. Without(none, ToSet(stored)) = [k \in 1 .. 0 - 0 |-> none[0 + k]]
      BY <3>1, <3>2, WithoutPrefix
    <3>4. QED
      BY <3>3
  <2>3. Upto(n) \in Seq(Nat)
    BY <1>1, UptoType
  <2>4. Poller!Ingested(page.events) = Upto(n)
    BY <1>1, <2>1, <2>2, <2>3, PollerLibrary DEF Poller!Ingested
  <2>5. n + 0 = n /\ 0 \in Nat
    BY <1>1
  <2>6. IF cursor = NoCursor THEN n = 0 ELSE cursor.after = Base + n
    BY DEF Drawn
  <2>7. QED
    BY <1>1, <2>1, <2>4, <2>5, <2>6
<1>9. QED
  <2>1. page \in {[events |-> events(first), cursor |-> end] :
                    first \in {Poller!Asked + 1} \cup ({Poller!Asked} \cap ToSet(stored))}
        \/ page = [events |-> <<>>, cursor |-> NoCursor]
    BY PollerLibrary DEF Poller!Answers, rest, end
  <2>2. QED
    BY <1>7, <1>8, <2>1

LEMMA PageArrivesStep ==
  ASSUME PollerInv, Poller!PageArrives
  PROVE  PollerInv' /\ (Poller!Feed!Next \/ UNCHANGED Poller!Feed!feedVars)
<1>1. PICK page \in Poller!Answers :
        /\ stored' = Poller!Ingested(page.events)
        /\ cursor' = Poller!ResumeFrom(page)
        /\ phase' \in {"idle", "polling"}
        /\ shown' \in {shown, Poller!InLedgerOrder(stored')}
  BY DEF Poller!PageArrives, Poller!PollOver
<1>2. UNCHANGED <<log, tip, startLedger>>
  BY DEF Poller!PageArrives, Poller!chainVars
<1>3. PICK n \in Nat : \E m \in 0 .. n : Drawn(n, m)
  BY DEF PollerInv, StoreInv
<1>4. PICK m \in 0 .. n : Drawn(n, m)
  BY <1>3
<1>5. PICK k \in Nat :
        /\ Base + (n + k) <= Len(log)
        /\ stored' = Upto(n + k)
        /\ IF cursor' = NoCursor THEN n + k = 0 ELSE cursor'.after = Base + (n + k)
  BY <1>1, <1>4, PageContinues
<1>6. ChainInv /\ ChainInv' /\ Base' = Base /\ Base \in Nat /\ Len(log) \in Nat
  BY <1>2, BaseStays, BaseType DEF PollerInv, ChainInv
<1>7. shown = Upto(m) /\ Poller!InLedgerOrder(stored') = Upto(n + k)
  BY <1>4, <1>5, <1>6, OrderedStays DEF Drawn
<1>8. ASSUME NEW j \in 0 .. n + k, shown' = Upto(j)
      PROVE  StoreInv'
  <2>1. Upto(n + k)' = Upto(n + k) /\ Upto(j)' = Upto(j)
    BY <1>6 DEF Upto
  <2>2. Drawn(n + k, j)'
    BY <1>2, <1>5, <1>6, <1>8, <2>1 DEF Drawn
  <2>3. n + k \in Nat
    OBVIOUS
  <2>4. QED
    BY <1>1, <2>2, <2>3 DEF StoreInv
<1>9. CASE shown' = shown
  <2>1. m \in 0 .. n + k
    OBVIOUS
  <2>2. StoreInv'
    BY <1>7, <1>8, <1>9, <2>1
  <2>3. UNCHANGED Poller!Feed!feedVars
    BY <1>2, <1>6, <1>9 DEF Poller!Feed!feedVars, Base
  <2>4. QED
    BY <1>6, <2>2, <2>3 DEF PollerInv
<1>10. CASE shown' = Upto(n + k) /\ m < n + k
  <2>1. n + k \in 0 .. n + k
    OBVIOUS
  <2>2. StoreInv'
    BY <1>8, <1>10, <2>1
  <2>3. Len(shown) = m
    BY <1>6, <1>7, UptoType
  <2>4. n + k \in Len(shown) + 1 .. Len(log) - Base
    BY <1>5, <1>6, <1>10, <2>3
  <2>5. shown' = Poller!Feed!Run(Poller!Before(startLedger), n + k)
    BY <1>10 DEF Poller!Feed!Run, Upto, Base
  <2>6. Poller!Feed!Show
    BY <1>2, <1>6, <2>4, <2>5 DEF Poller!Feed!Show, Base
  <2>7. QED
    BY <1>6, <2>2, <2>6 DEF PollerInv, Poller!Feed!Next
<1>11. CASE shown' = Upto(n + k) /\ m = n + k
  BY <1>7, <1>9, <1>11
<1>12. QED
  BY <1>1, <1>7, <1>9, <1>10, <1>11

LEMMA PollerStep ==
  ASSUME PollerInv, Poller!Next
  PROVE  PollerInv' /\ (Poller!Feed!Next \/ UNCHANGED Poller!Feed!feedVars)
<1>1. ASSUME NEW n \in 0 .. 2, Poller!CloseLedger(n)
      PROVE  PollerInv' /\ (Poller!Feed!Next \/ UNCHANGED Poller!Feed!feedVars)
  BY <1>1, CloseLedgerStep
<1>2. ASSUME NEW setting \in StartSettings, Poller!Boot(setting)
      PROVE  PollerInv' /\ (Poller!Feed!Next \/ UNCHANGED Poller!Feed!feedVars)
  <2>1. /\ UNCHANGED <<log, tip, stored, shown, cursor>>
        /\ phase = "down" /\ setting <= tip /\ startLedger' = Poller!StartFrom(setting)
    BY <1>2 DEF Poller!Boot, Poller!chainVars, Poller!storeVars
  <2>2. stored = <<>> /\ shown = <<>> /\ cursor = NoCursor
    BY <2>1 DEF PollerInv, StoreInv
  <2>3. startLedger' \in 1 .. tip
    <3>1. setting \in Nat /\ RetentionMargin \in Nat /\ tip \in Nat \ {0}
      BY PollerConstants DEF PollerInv, ChainInv
    <3>2. QED
      BY <2>1, <3>1 DEF Poller!StartFrom
  <2>4. QED
    BY <2>1, <2>2, <2>3, BlankStep DEF PollerInv
<1>3. CASE Poller!BootUnreachable
  <2>1. /\ UNCHANGED <<log, tip, startLedger, stored, cursor, shown>>
        /\ phase = "down"
    BY <1>3 DEF Poller!BootUnreachable, Poller!chainVars, Poller!storeVars
  <2>2. QED
    BY <2>1, StoreStands
<1>4. CASE Poller!Crash
  <2>1. /\ UNCHANGED <<log, tip, startLedger>>
        /\ stored' = <<>> /\ cursor' = NoCursor /\ shown' = <<>>
    BY <1>4 DEF Poller!Crash, Poller!chainVars
  <2>2. QED
    BY <2>1, BlankStep DEF PollerInv, ChainInv
<1>5. CASE Poller!Tick \/ Poller!PageFails
  <2>1. /\ UNCHANGED <<log, tip, startLedger, stored, cursor, shown>>
        /\ phase' \in {"idle", "polling"}
    BY <1>5 DEF Poller!Tick, Poller!PageFails, Poller!PollOver, Poller!chainVars,
                Poller!storeVars
  <2>2. QED
    BY <2>1, StoreStands
<1>6. CASE Poller!PageArrives
  BY <1>6, PageArrivesStep
<1>7. QED
  BY <1>1, <1>2, <1>3, <1>4, <1>5, <1>6 DEF Poller!Next

LEMMA PollerInvHolds ==
  Poller!Spec => []PollerInv
<1>1. Poller!Init => PollerInv
  BY PollerStarts
<1>2. PollerInv /\ [Poller!Next]_Poller!vars => PollerInv'
  <2> SUFFICES ASSUME PollerInv, [Poller!Next]_Poller!vars
               PROVE  PollerInv'
    OBVIOUS
  <2>1. CASE Poller!Next
    BY <2>1, PollerStep
  <2>2. CASE UNCHANGED Poller!vars
    <3>1. UNCHANGED <<log, tip, startLedger, stored, cursor, shown, phase>>
      BY <2>2 DEF Poller!vars, Poller!chainVars, Poller!storeVars
    <3>2. QED
      BY <3>1, StoreStands
  <2>3. QED
    BY <2>1, <2>2
<1>3. QED
  BY <1>1, <1>2, PTL DEF Poller!Spec

(* Whatever the RPC fails to answer, repeats or forgets, the place the     *)
(* next poll resumes from never lies beyond an event that is not stored.   *)
THEOREM CursorTheorem ==
  Poller!Spec => []CursorSkipsNothing
<1>1. PollerInv => CursorSkipsNothing
  <2> SUFFICES ASSUME PollerInv, cursor # NoCursor, NEW e \in DOMAIN log,
                      Base < e, e <= cursor.after
               PROVE  e \in ToSet(stored)
    BY PollerLibrary DEF CursorSkipsNothing, Poller!CursorSkipsNothing, Base
  <2>1. PICK n \in Nat : \E m \in 0 .. n : Drawn(n, m)
    BY DEF PollerInv, StoreInv
  <2>2. stored = Upto(n) /\ cursor.after = Base + n
    BY <2>1 DEF Drawn
  <2>3. ToSet(stored) = (Base + 1) .. (Base + n)
    BY <2>2, UptoType DEF PollerInv
  <2>4. Base \in Nat /\ e \in Nat
    BY BaseType DEF PollerInv, ChainInv
  <2>5. QED
    BY <2>2, <2>3, <2>4
<1>2. QED
  BY <1>1, PollerInvHolds, PTL

(* The routes implement EventFeed: through failed polls, repeated events,  *)
(* capped polls and restarts they are shown an unbroken run of the chain's *)
(* events, in its order.                                                   *)
THEOREM FeedTheorem ==
  Poller!Spec => ImplementsEventFeed
<1>1. Poller!Init => Poller!Feed!Init
  BY PollerStarts
<1>2. PollerInv /\ [Poller!Next]_Poller!vars
        => [Poller!Feed!Next]_(Poller!Feed!feedVars)
  <2> SUFFICES ASSUME PollerInv, [Poller!Next]_Poller!vars
               PROVE  Poller!Feed!Next \/ UNCHANGED Poller!Feed!feedVars
    OBVIOUS
  <2>1. CASE Poller!Next
    BY <2>1, PollerStep
  <2>2. CASE UNCHANGED Poller!vars
    <3>1. UNCHANGED <<log, tip, startLedger, stored, cursor, shown, phase>>
      BY <2>2 DEF Poller!vars, Poller!chainVars, Poller!storeVars
    <3>2. QED
      BY <3>1, StoreStands
  <2>3. QED
    BY <2>1, <2>2
<1>3. QED
  BY <1>1, <1>2, PollerInvHolds, PTL
     DEF Poller!Spec, ImplementsEventFeed, Poller!ImplementsEventFeed

-----------------------------------------------------------------------------
(* Sentinel, for any readings and any number of retries. *)

LEMMA SentinelConstants ==
  /\ Missing \in Int /\ Missing < 0
  /\ \A r \in Readings :
       /\ r.liquidity \in Int /\ r.position \in Nat
       /\ r.twap \in Int /\ r.spot \in Nat \cup {Missing}
BY LoopsAssumption DEF Sentinel!ConstantsOK

(* A fraction that is at least another one, which is at least 1 / k, is at *)
(* least 1 / k itself.                                                     *)
LEMMA AtLeastAPart ==
  ASSUME NEW a \in Nat, NEW b \in Nat \ {0}, NEW c \in Nat, NEW d \in Nat \ {0},
         NEW k \in Nat, a * d >= c * b, k * c >= d
  PROVE  k * a >= b
<1>1. k * (a * d) >= k * (c * b)
  <2> DEFINE x == a * d
             y == c * b
  <2>1. x \in Nat /\ y \in Nat /\ x >= y
    OBVIOUS
  <2> HIDE DEF x, y
  <2>2. k * x >= k * y
    BY <2>1
  <2>3. QED
    BY <2>2 DEF x, y
<1>2. (k * c) * b >= d * b
  <2> DEFINE x == k * c
  <2>1. x \in Nat /\ x >= d
    OBVIOUS
  <2> HIDE DEF x
  <2>2. x * b >= d * b
    BY <2>1
  <2>3. QED
    BY <2>2 DEF x
<1>3. (k * a) * d >= b * d
  BY <1>1, <1>2
<1>4. QED
  <2> DEFINE x == k * a
  <2>1. x \in Nat /\ x * d >= b * d
    BY <1>3
  <2> HIDE DEF x
  <2>2. ~(x + 1 <= b)
    <3> SUFFICES ASSUME x + 1 <= b PROVE FALSE
      OBVIOUS
    <3>1. (x + 1) * d <= b * d
      BY <2>1
    <3>2. (x + 1) * d = x * d + d
      BY <2>1
    <3>3. x * d \in Nat /\ b * d \in Nat
      BY <2>1
    <3>4. QED
      BY <2>1, <3>1, <3>2, <3>3
  <2>3. x >= b
    BY <2>1, <2>2
  <2>4. QED
    BY <2>3 DEF x

(* What is as bad as a threat in each of its signals trips both of them.   *)
LEMMA ThreatScores ==
  ASSUME NEW s \in Readings, NEW r \in Readings,
         Sentinel!Dangerous(r), Sentinel!AsBad(s, r)
  PROVE  Sentinel!scorePool(s).anomaly
<1> SUFFICES ASSUME s.liquidity > 0, s.twap > 0, s.spot # Missing
             PROVE  /\ Sentinel!liquiditySignal(s).tripped
                    /\ Sentinel!oracleDeviationSignal(s).tripped
  BY SentinelConstants DEF Sentinel!scorePool, Sentinel!failClosed, Sentinel!liquiditySignal,
       Sentinel!oracleDeviationSignal, Sentinel!MaximalRisk
<1> DEFINE offS == Sentinel!Apart(s.spot, s.twap)
           offR == Sentinel!Apart(r.spot, r.twap)
<1>1. /\ s.liquidity \in Nat \ {0} /\ s.position \in Nat
      /\ s.twap \in Nat \ {0} /\ s.spot \in Nat
  BY SentinelConstants
<1>2. /\ r.liquidity > 0 /\ r.twap > 0 /\ r.spot # Missing
      /\ s.position * r.liquidity >= r.position * s.liquidity
      /\ offS * r.twap >= offR * s.twap
  BY DEF Sentinel!AsBad
<1>3. /\ r.liquidity \in Nat \ {0} /\ r.position \in Nat
      /\ r.twap \in Nat \ {0} /\ r.spot \in Nat
  BY <1>2, SentinelConstants
<1>4. 20 * r.position >= r.liquidity /\ 100 * offR >= r.twap
  BY <1>3, SentinelConstants DEF Sentinel!Dangerous
<1>5. offS \in Nat /\ offR \in Nat
  BY <1>1, <1>3 DEF Sentinel!Apart
<1> HIDE DEF offS, offR
<1>6. 20 * s.position >= s.liquidity
  BY <1>1, <1>2, <1>3, <1>4, AtLeastAPart
<1>7. 100 * offS >= s.twap
  BY <1>1, <1>2, <1>3, <1>4, <1>5, AtLeastAPart
<1>8. Sentinel!liquiditySignal(s).tripped
  <2>1. ~(s.liquidity <= 0)
    BY <1>1
  <2>2. Sentinel!liquiditySignal(s).tripped = (20 * s.position >= s.liquidity)
    BY <2>1, Zenon DEF Sentinel!liquiditySignal
  <2>3. QED
    BY <1>6, <2>2, Zenon
<1>9. Sentinel!oracleDeviationSignal(s).tripped
  <2>1. ~(s.twap <= 0 \/ s.spot = Missing)
    BY <1>1
  <2>2. Sentinel!oracleDeviationSignal(s).tripped = (100 * offS >= s.twap)
    BY <2>1, Zenon DEF Sentinel!oracleDeviationSignal, offS
  <2>3. QED
    BY <1>7, <2>2, Zenon
<1>10. QED
  BY <1>8, <1>9

(* A pool that was assessed while frozen, or frozen since, counts as such. *)
SentinelInv ==
  /\ wasFrozen \in BOOLEAN /\ alerted \in BOOLEAN
  /\ verdict # "none" /\ status = "frozen" => wasFrozen
  /\ verdict = "safe" =>
       reading \in Readings /\ ~Sentinel!scorePool(reading).anomaly
  /\ verdict \in {"frozen", "already-frozen"} => wasFrozen
  /\ verdict = "failed" => alerted

LEMMA SentinelStep ==
  ASSUME SentinelInv, Sentinel!Next
  PROVE  SentinelInv'
<1>1. CASE Sentinel!Assess
  <2>1. /\ reading' \in Readings
        /\ verdict' = "safe" => ~Sentinel!scorePool(reading').anomaly
        /\ verdict' \in {"safe", "refused", "freezing"}
    BY <1>1 DEF Sentinel!Assess
  <2>2. wasFrozen' = (status = "frozen") /\ status' = status /\ alerted' = FALSE
    BY <1>1 DEF Sentinel!Assess
  <2>3. wasFrozen' \in BOOLEAN /\ (status' = "frozen" => wasFrozen')
    BY <2>2, Zenon
  <2>4. Sentinel!scorePool(reading)' = Sentinel!scorePool(reading')
    BY Zenon DEF Sentinel!scorePool, Sentinel!failClosed, Sentinel!liquiditySignal,
         Sentinel!oracleDeviationSignal, Sentinel!MaximalRisk, Sentinel!Score
  <2>5. QED
    BY <2>1, <2>2, <2>3, <2>4 DEF SentinelInv
<1> SUFFICES ASSUME ~Sentinel!Assess
             PROVE  SentinelInv'
  BY <1>1
<1>2. reading' = reading /\ (verdict' = verdict \/ verdict' # "safe")
  BY DEF Sentinel!Next, Sentinel!ReadStatus, Sentinel!StatusThrows, Sentinel!SubmitLands,
         Sentinel!SubmitRejected, Sentinel!SubmitThrows, Sentinel!SubmitUnseen,
         Sentinel!LandsLate, Sentinel!OperatorCall, Sentinel!Returns
<1>3. verdict' = "safe" =>
        reading' \in Readings /\ ~(Sentinel!scorePool(reading)').anomaly
  <2>1. Sentinel!scorePool(reading)' = Sentinel!scorePool(reading)
    BY <1>2, ZenonT(30) DEF Sentinel!scorePool, Sentinel!failClosed, Sentinel!liquiditySignal,
         Sentinel!oracleDeviationSignal, Sentinel!MaximalRisk, Sentinel!Score
  <2>2. QED
    BY <1>2, <2>1 DEF SentinelInv
<1> DEFINE Rest ==
      /\ wasFrozen \in BOOLEAN /\ alerted \in BOOLEAN
      /\ verdict # "none" /\ status = "frozen" => wasFrozen
      /\ verdict \in {"frozen", "already-frozen"} => wasFrozen
      /\ verdict = "failed" => alerted
<1>4. Rest
  BY DEF SentinelInv
<1>5. CASE Sentinel!ReadStatus \/ Sentinel!StatusThrows
  BY <1>3, <1>4, <1>5, Zenon DEF Sentinel!ReadStatus, Sentinel!StatusThrows, SentinelInv
<1>6. ASSUME NEW to, Sentinel!Lands(to)
      PROVE  /\ wasFrozen' \in BOOLEAN /\ (wasFrozen => wasFrozen')
             /\ status' = to /\ (to = "frozen" => wasFrozen')
  BY <1>4, <1>6, Zenon DEF Sentinel!Lands
<1>7. CASE Sentinel!SubmitLands
  BY <1>3, <1>4, <1>6, <1>7
     DEF Sentinel!SubmitLands, Sentinel!Returns, Sentinel!Succeeded, SentinelInv
<1>8. CASE Sentinel!SubmitRejected
  BY <1>3, <1>4, <1>6, <1>8
     DEF Sentinel!SubmitRejected, Sentinel!Returns, Sentinel!Succeeded, SentinelInv
<1>9. CASE Sentinel!SubmitThrows
  BY <1>3, <1>4, <1>9
     DEF Sentinel!SubmitThrows, Sentinel!Returns, Sentinel!Succeeded, SentinelInv
<1>10. CASE Sentinel!SubmitUnseen
  BY <1>3, <1>4, <1>6, <1>10
     DEF Sentinel!SubmitUnseen, Sentinel!Returns, Sentinel!Succeeded, SentinelInv
<1>11. CASE Sentinel!LandsLate
  BY <1>3, <1>4, <1>6, <1>11 DEF Sentinel!LandsLate, SentinelInv
<1>12. CASE Sentinel!OperatorCall
  BY <1>3, <1>4, <1>6, <1>12 DEF Sentinel!OperatorCall, SentinelInv
<1>13. QED
  BY <1>5, <1>7, <1>8, <1>9, <1>10, <1>11, <1>12 DEF Sentinel!Next

(* Whatever the readings and the network, nothing as bad as a broken feed  *)
(* or a drained pool is called safe, a pool reported frozen has been       *)
(* frozen since it was assessed, and giving up alerts.                     *)
THEOREM ThreatTheorem ==
  Sentinel!Spec => []ThreatIsAnswered
<1>1. Sentinel!Init => SentinelInv
  BY DEF Sentinel!Init, SentinelInv
<1>2. SentinelInv /\ [Sentinel!Next]_Sentinel!vars => SentinelInv'
  <2> SUFFICES ASSUME SentinelInv, UNCHANGED Sentinel!vars
               PROVE  SentinelInv'
    BY SentinelStep
  <2>1. Sentinel!scorePool(reading)' = Sentinel!scorePool(reading)
    BY ZenonT(30) DEF Sentinel!vars, Sentinel!scorePool, Sentinel!failClosed,
         Sentinel!liquiditySignal, Sentinel!oracleDeviationSignal, Sentinel!MaximalRisk,
         Sentinel!Score
  <2>2. QED
    BY <2>1 DEF SentinelInv, Sentinel!vars
<1>3. SentinelInv => ThreatIsAnswered
  BY ThreatScores DEF SentinelInv, ThreatIsAnswered, Sentinel!ThreatIsAnswered
<1>4. QED
  BY <1>1, <1>2, <1>3, PTL DEF Sentinel!Spec

-----------------------------------------------------------------------------
(* The keeper, for any pools, candidates, amounts, callers and faults. *)

Candidates == [pool : Pools, ray : Nat]

Ops == {"allocate", "deallocate", "freeze", "unfreeze", "propose"}

CallsOf == [op : Ops, pool : Pools, to : Pools \cup {NoPool}, amount : Nat]

GoodCall(c) ==
  c \in CallsOf /\ (c.op = "propose" => c.to \in Pools)

Ticks ==
  [at : {"off", "readActive", "readExit", "acting"}, list : Seq(Candidates),
   anomaly : BOOLEAN, ray : Nat \cup {Never}, active : Pools \cup {NoPool},
   calls : Seq(CallsOf)]

ChainTyped ==
  /\ idle \in Nat /\ held \in [Pools -> Nat] /\ active \in Pools \cup {NoPool}
  /\ exit # NoExit => exit.from \in Pools /\ exit.to \in Pools
  /\ \A c \in late : GoodCall(c)

(* A tick proposes last.                                                   *)
CallsInOrder(calls) ==
  /\ calls # <<>>
  /\ \A i \in 1 .. Len(calls) :
       GoodCall(calls[i]) /\ (calls[i].op = "propose" => i = Len(calls))

TickTyped ==
  /\ tick \in Ticks
  /\ tick.at = "acting" => CallsInOrder(tick.calls)

Pulls(c) == c.op \in {"deallocate", "propose"}

Bold(calls) == \E i \in 1 .. Len(calls) : Pulls(calls[i])

(* While an exit pends that no tick under way had missed, nothing that is  *)
(* to be submitted, or may land late, takes funds out or proposes another: *)
(* what a tick gave up on before the exit died with the exit's landing.    *)
PendingInv ==
  exit # NoExit /\ ~exit.missed =>
    /\ tick.at = "acting" => ~Bold(tick.calls)
    /\ \A c \in late : ~Pulls(c)

KeeperInv == ChainTyped /\ TickTyped /\ PendingInv

(* While such an exit pends, no step takes funds out of a pool or proposes *)
(* another.                                                                *)
Steady ==
  exit # NoExit /\ ~exit.missed =>
    /\ exit' \in {exit, NoExit}
    /\ exit' = exit => \A p \in Pools : held'[p] >= held[p]

(* The best candidate is one of them.                                      *)
LEMMA BestOfType ==
  ASSUME NEW list \in Seq(Candidates), NEW excluded
  PROVE  BestOf(list, excluded) \in Pools \cup {NoPool}
<1> DEFINE rest == {i \in DOMAIN list : list[i].pool # excluded}
           first == CHOOSE i \in rest : \A j \in rest :
                      \/ list[j].ray < list[i].ray
                      \/ list[j].ray = list[i].ray /\ i <= j
           rays == [i \in rest |-> list[i].ray]
<1>1. rest \in SUBSET Nat /\ IsFiniteSet(rest)
  <2>1. Len(list) \in Nat /\ DOMAIN list = 1 .. Len(list) /\ rest \subseteq 1 .. Len(list)
    OBVIOUS
  <2>2. IsFiniteSet(1 .. Len(list))
    BY <2>1, FS_Interval
  <2>3. QED
    BY <2>1, <2>2, FS_Subset
<1>2. \A i \in rest : rays[i] \in Nat /\ list[i].pool \in Pools
  <2>1. \A i \in rest : list[i] \in Candidates
    OBVIOUS
  <2>2. QED
    BY <2>1 DEF Candidates
<1>3. CASE rest # {}
  <2>1. \A i \in rest : rays[i] = list[i].ray
    OBVIOUS
  <2> HIDE DEF rest, rays
  <2>2. \E i \in rest : \A j \in rest : rays[j] < rays[i] \/ (rays[j] = rays[i] /\ i <= j)
    BY <1>1, <1>2, <1>3, FirstHighest
  <2>3. first \in rest
    BY <2>1, <2>2
  <2>4. BestOf(list, excluded) = list[first].pool
    BY <1>3, Zenon DEF BestOf, rest
  <2>5. QED
    BY <1>2, <2>3, <2>4
<1>4. CASE rest = {}
  BY <1>4 DEF BestOf
<1>5. QED
  BY <1>3, <1>4

LEMMA RayOfType ==
  ASSUME NEW list \in Seq(Candidates), NEW p
  PROVE  RayOf(list, p) \in Nat \cup {Never}
<1>1. \A i \in DOMAIN list : list[i].ray \in Nat
  <2>1. \A i \in DOMAIN list : list[i] \in Candidates
    OBVIOUS
  <2>2. QED
    BY <2>1 DEF Candidates
<1>2. CASE \E i \in DOMAIN list : list[i].pool = p
  <2> DEFINE first == CHOOSE i \in DOMAIN list : list[i].pool = p
  <2>1. first \in DOMAIN list /\ RayOf(list, p) = list[first].ray
    BY <1>2, Zenon DEF RayOf
  <2>2. QED
    BY <1>1, <2>1
<1>3. CASE ~\E i \in DOMAIN list : list[i].pool = p
  BY <1>3 DEF RayOf
<1>4. QED
  BY <1>2, <1>3

LEMMA RestingTyped ==
  Resting \in Ticks /\ Resting.at = "off"
BY DEF Resting, Ticks

LEMMA TwoCalls ==
  ASSUME NEW a, NEW b
  PROVE  <<a>> \o <<b>> = <<a, b>>
<1> DEFINE one == <<a>>
           other == <<b>>
           both == one \o other
           pair == <<a, b>>
<1>1. /\ one \in Seq({a, b}) /\ Len(one) = 1 /\ one[1] = a
      /\ other \in Seq({a, b}) /\ Len(other) = 1 /\ other[1] = b
      /\ pair \in Seq({a, b}) /\ Len(pair) = 2 /\ pair[1] = a /\ pair[2] = b
  OBVIOUS
<1> HIDE DEF one, other, pair
<1>2. both \in Seq({a, b}) /\ Len(both) = 2 /\ both[1] = a /\ both[2] = b
  <2>1. both \in Seq({a, b})
    BY <1>1
  <2>2. Len(both) = 1 + 1
    BY <1>1, SMTT(30)
  <2>3. \A i \in 1 .. Len(one) + Len(other) :
          both[i] = IF i <= Len(one) THEN one[i] ELSE other[i - Len(one)]
    BY <1>1, ConcatProperties
  <2>4. both[1] = one[1] /\ both[2] = other[2 - 1]
    BY <1>1, <2>3, SMTT(30)
  <2>5. QED
    BY <1>1, <2>1, <2>2, <2>4
<1> HIDE DEF both
<1>3. both = pair
  <2>1. \A i \in 1 .. 2 : both[i] = pair[i]
    BY <1>1, <1>2
  <2>2. QED
    BY <1>1, <1>2, <2>1
<1>4. QED
  BY <1>3 DEF both, one, other, pair

(* What a decision comes to: nothing, if an exit pends; or good calls, of  *)
(* which a proposal is the last.                                           *)
LEMMA Decides ==
  ASSUME NEW t \in Ticks, NEW pending \in BOOLEAN, Decide(t, pending)
  PROVE  \/ tick' = Resting
         \/ /\ tick' \in Ticks /\ tick'.at = "acting" /\ CallsInOrder(tick'.calls)
            /\ ~pending
<1>1. PICK amount \in Amounts, accrued \in BOOLEAN, pays \in BOOLEAN :
        LET kind  == Kind(t, pending, ~Unattended /\ accrued, Unattended \/ pays)
            calls == Calls(t, kind, amount)
        IN tick' = IF calls = <<>> THEN Resting
                   ELSE [Resting EXCEPT !.at = "acting", !.calls = calls]
  BY DEF Decide
<1> DEFINE kind   == Kind(t, pending, ~Unattended /\ accrued, Unattended \/ pays)
           calls  == Calls(t, kind, amount)
           from   == t.active
           best   == BestOf(t.list, NoPool)
           other  == BestOf(t.list, from)
<1>2. /\ from \in Pools \cup {NoPool} /\ best \in Pools \cup {NoPool}
      /\ other \in Pools \cup {NoPool} /\ amount \in Nat /\ NoPool \notin Pools
  BY BestOfType, KeeperAssumption DEF Ticks
<1>3. /\ kind \in {"noop", "rebalance", "compound", "freeze-exit"}
      /\ kind # "noop" => ~pending
      /\ kind = "freeze-exit" => from # NoPool
      /\ kind = "rebalance" => best # NoPool
      /\ kind = "compound" => from # NoPool
  BY Zenon DEF Kind, Rebalances
<1>4. tick' = IF calls = <<>> THEN Resting
              ELSE [Resting EXCEPT !.at = "acting", !.calls = calls]
  BY <1>1
<1> HIDE DEF kind, from, best, other
<1>5. kind = "noop" => calls = <<>>
  BY DEF Calls
<1>6. ASSUME kind # "noop"
      PROVE  CallsInOrder(calls) /\ calls \in Seq(CallsOf)
  <2>1. CASE kind = "compound"
    <3>1. calls = <<Call("allocate", from, NoPool, amount)>>
      BY <2>1 DEF Calls, from
    <3>2. GoodCall(Call("allocate", from, NoPool, amount))
      BY <1>2, <1>3, <2>1 DEF GoodCall, Call, Ops, CallsOf
    <3> HIDE DEF calls
    <3>3. QED
      BY <3>1, <3>2 DEF CallsInOrder, GoodCall
  <2>2. CASE kind = "rebalance"
    <3> DEFINE source == IF from = NoPool THEN best ELSE from
    <3>1. calls = <<Call("deallocate", source, NoPool, amount), Call("allocate", best, NoPool, amount)>>
      BY <2>2 DEF Calls, from, best
    <3>2. source \in Pools /\ best \in Pools
      BY <1>2, <1>3, <2>2
    <3>3. /\ GoodCall(Call("deallocate", source, NoPool, amount))
          /\ GoodCall(Call("allocate", best, NoPool, amount))
      BY <1>2, <3>2 DEF GoodCall, Call, Ops, CallsOf
    <3> HIDE DEF calls, source
    <3>4. QED
      BY <3>1, <3>3 DEF CallsInOrder, Call, GoodCall
  <2>3. CASE kind = "freeze-exit"
    <3>1. calls = ExitCalls(from, other)
      BY <2>3 DEF Calls, from, other
    <3>2. GoodCall(Call("freeze", from, NoPool, 0))
      BY <1>2, <1>3, <2>3 DEF GoodCall, Call, Ops, CallsOf
    <3> HIDE DEF calls
    <3>3. CASE other = NoPool
      <4>1. calls = <<Call("freeze", from, NoPool, 0)>>
        BY <3>1, <3>3 DEF ExitCalls
      <4>2. QED
        BY <3>2, <4>1 DEF CallsInOrder, GoodCall
    <3>4. CASE other # NoPool
      <4>1. calls = <<Call("freeze", from, NoPool, 0), Call("propose", from, other, 0)>>
        BY <3>1, <3>4, TwoCalls DEF ExitCalls
      <4>2. GoodCall(Call("propose", from, other, 0))
        BY <1>2, <1>3, <2>3, <3>4 DEF GoodCall, Call, Ops, CallsOf
      <4>3. QED
        BY <3>2, <4>1, <4>2 DEF CallsInOrder, Call, GoodCall
    <3>5. QED
      BY <3>3, <3>4
  <2>4. QED
    BY <1>3, <1>6, <2>1, <2>2, <2>3
<1> HIDE DEF calls
<1>7. CASE calls = <<>>
  BY <1>4, <1>7
<1>8. CASE calls # <<>>
  <2>1. tick' = [Resting EXCEPT !.at = "acting", !.calls = calls]
    BY <1>4, <1>8
  <2>2. kind # "noop"
    BY <1>5, <1>8
  <2>3. tick' \in Ticks /\ tick'.at = "acting" /\ tick'.calls = calls
    BY <1>6, <2>1, <2>2, RestingTyped DEF Ticks
  <2>4. QED
    BY <1>3, <1>6, <2>2, <2>3
<1>9. QED
  BY <1>7, <1>8

(* What a call that lands does, whichever it is.                           *)
LEMMA LandsAs ==
  ASSUME ChainTyped, NEW c, NEW missed \in BOOLEAN,
         GoodCall(c), Accepts(c), Lands(c, missed)
  PROVE  /\ ChainTyped' /\ late' = {}
         /\ c.op # "deallocate" => \A p \in Pools : held'[p] >= held[p]
         /\ c.op # "propose" => exit' = exit
         /\ c.op = "propose" => exit'.missed = missed
<1>1. /\ c.op \in Ops /\ c.pool \in Pools /\ c.amount \in Nat
      /\ c.op = "propose" => c.to \in Pools
  BY DEF GoodCall, CallsOf
<1>2. idle \in Nat /\ held \in [Pools -> Nat] /\ active \in Pools \cup {NoPool} /\ NoPool \notin Pools
  BY KeeperAssumption DEF ChainTyped
<1>3. late' = {}
  BY DEF Lands
<1>4. CASE c.op = "allocate"
  <2>1. /\ idle' = idle - c.amount /\ c.amount <= idle
        /\ held' = [held EXCEPT ![c.pool] = @ + c.amount]
        /\ active' = c.pool /\ exit' = exit
    BY <1>4 DEF Lands, Accepts
  <2>2. idle' \in Nat /\ held' \in [Pools -> Nat] /\ \A p \in Pools : held'[p] >= held[p]
    BY <1>1, <1>2, <2>1
  <2>3. QED
    BY <1>1, <1>2, <1>3, <1>4, <2>1, <2>2 DEF ChainTyped
<1>5. CASE c.op = "deallocate"
  <2>1. /\ idle' = idle + c.amount /\ c.amount <= held[c.pool]
        /\ held' = [held EXCEPT ![c.pool] = @ - c.amount]
        /\ active' \in {NoPool, active} /\ exit' = exit
    BY <1>5 DEF Lands, Accepts
  <2>2. idle' \in Nat /\ held' \in [Pools -> Nat]
    BY <1>1, <1>2, <2>1
  <2>3. QED
    BY <1>2, <1>3, <1>5, <2>1, <2>2 DEF ChainTyped
<1>6. CASE c.op \in {"freeze", "unfreeze"}
  <2>1. UNCHANGED <<idle, held, active, exit>>
    BY <1>6 DEF Lands
  <2>2. QED
    BY <1>2, <1>3, <1>6, <2>1 DEF ChainTyped
<1>7. CASE c.op = "propose"
  <2>1. /\ UNCHANGED <<idle, held, active>>
        /\ exit'.from = c.pool /\ exit'.to = c.to /\ exit'.missed = missed
    BY <1>7 DEF Lands
  <2>2. QED
    BY <1>1, <1>2, <1>3, <1>7, <2>1 DEF ChainTyped
<1>8. QED
  BY <1>1, <1>4, <1>5, <1>6, <1>7 DEF Ops

(* The next call of a tick is a good one, and what is left of them after   *)
(* it is in order too.                                                     *)
LEMMA HeadIsGood ==
  ASSUME TickTyped, tick.at = "acting"
  PROVE  /\ GoodCall(Head(tick.calls))
         /\ Pulls(Head(tick.calls)) => Bold(tick.calls)
         /\ Head(tick.calls).op = "propose" => ~(Len(tick.calls) > 1)
<1> DEFINE calls == tick.calls
<1>1. calls \in Seq(CallsOf) /\ CallsInOrder(calls)
  BY DEF TickTyped, Ticks
<1> HIDE DEF calls
<1>2. calls # <<>> /\ Len(calls) \in Nat \ {0} /\ Head(calls) = calls[1] /\ 1 \in 1 .. Len(calls)
  BY <1>1 DEF CallsInOrder
<1>3. GoodCall(calls[1]) /\ (calls[1].op = "propose" => 1 = Len(calls))
  BY <1>1, <1>2 DEF CallsInOrder
<1>4. Pulls(calls[1]) => Bold(calls)
  BY <1>2 DEF Bold
<1>5. 1 = Len(calls) => ~(Len(calls) > 1)
  <2> DEFINE n == Len(calls)
  <2>1. n \in Nat
    BY <1>2
  <2> HIDE DEF n
  <2>2. 1 = n => ~(n > 1)
    BY <2>1
  <2>3. QED
    BY <2>2 DEF n
<1>6. QED
  BY <1>2, <1>3, <1>4, <1>5 DEF calls

LEMMA Proceeds ==
  ASSUME TickTyped, tick.at = "acting", Proceed
  PROVE  /\ TickTyped'
         /\ tick' = Resting \/ (/\ tick'.at = "acting" /\ Len(tick.calls) > 1
                                /\ Bold(tick'.calls) => Bold(tick.calls))
<1>1. tick \in Ticks /\ CallsInOrder(tick.calls)
  BY DEF TickTyped
<1>2. CASE Len(tick.calls) > 1
  <2> DEFINE calls == tick.calls
             rest == Tail(calls)
  <2>1. tick' = [tick EXCEPT !.calls = rest]
    BY <1>2 DEF Proceed
  <2>2. calls \in Seq(CallsOf) /\ Len(calls) \in Nat /\ Len(calls) > 1
    BY <1>1, <1>2 DEF Ticks
  <2> HIDE DEF calls
  <2>3. /\ rest \in Seq(CallsOf) /\ Len(rest) = Len(calls) - 1
        /\ \A i \in 1 .. Len(rest) : rest[i] = calls[i + 1] /\ i + 1 \in 1 .. Len(calls)
    BY <2>2
  <2> HIDE DEF rest
  <2>4. tick' \in Ticks /\ tick'.at = "acting" /\ tick'.calls = rest
    BY <1>1, <2>1, <2>3 DEF Ticks
  <2>5. CallsInOrder(rest)
    <3>1. CallsInOrder(calls)
      BY <1>1 DEF calls
    <3>2. rest # <<>>
      BY <2>2, <2>3
    <3>3. \A i \in 1 .. Len(rest) : i + 1 = Len(calls) => i = Len(rest)
      BY <2>2, <2>3
    <3>4. ASSUME NEW i \in 1 .. Len(rest)
          PROVE  GoodCall(rest[i]) /\ (rest[i].op = "propose" => i = Len(rest))
      BY <2>3, <3>1, <3>3 DEF CallsInOrder
    <3>5. QED
      BY <3>2, <3>4 DEF CallsInOrder
  <2>6. Bold(rest) => Bold(calls)
    BY <2>3 DEF Bold
  <2>7. QED
    BY <1>2, <2>4, <2>5, <2>6 DEF TickTyped, calls
<1>3. CASE ~(Len(tick.calls) > 1)
  BY <1>3, RestingTyped DEF Proceed, TickTyped
<1>4. QED
  BY <1>2, <1>3

LEMMA NothingMoves ==
  ASSUME ChainTyped, UNCHANGED <<held, exit>>
  PROVE  Steady
<1>1. \A p \in Pools : held[p] \in Nat
  BY DEF ChainTyped
<1>2. QED
  BY <1>1 DEF Steady

LEMMA TickStep ==
  ASSUME KeeperInv, StartTick \/ Reads \/ TickThrows
  PROVE  KeeperInv' /\ Steady
<1>1. ChainTyped /\ tick \in Ticks
  BY DEF KeeperInv, TickTyped
<1>2. UNCHANGED <<idle, held, active, exit, late>>
  BY DEF StartTick, Reads, ReadActive, ReadExit, TickThrows, chainVars
<1>3. ChainTyped' /\ Steady
  BY <1>1, <1>2, NothingMoves DEF ChainTyped
<1>4. ASSUME tick' \in Ticks,
             tick'.at = "acting" => CallsInOrder(tick'.calls) /\ exit = NoExit
      PROVE  KeeperInv'
  BY <1>2, <1>3, <1>4 DEF KeeperInv, TickTyped, PendingInv
<1>5. CASE StartTick
  <2>1. PICK list \in CandidateLists :
          tick' = [Resting EXCEPT
                     !.at = "readActive", !.list = list,
                     !.anomaly = ~Unattended /\ active \in flagged,
                     !.ray = IF Unattended THEN Never ELSE RayOf(list, active)]
    BY <1>5 DEF StartTick
  <2> DEFINE alarm == ~Unattended /\ active \in flagged
             ray == IF Unattended THEN Never ELSE RayOf(list, active)
  <2>2. list \in Seq(Candidates)
    BY KeeperAssumption DEF Candidates
  <2>3. alarm \in BOOLEAN /\ ray \in Nat \cup {Never}
    BY <2>2, RayOfType
  <2>4. tick' = [Resting EXCEPT !.at = "readActive", !.list = list, !.anomaly = alarm, !.ray = ray]
    BY <2>1
  <2> HIDE DEF alarm, ray
  <2>5. tick' \in Ticks /\ tick'.at = "readActive"
    BY <2>2, <2>3, <2>4, RestingTyped DEF Ticks
  <2>6. QED
    BY <1>3, <1>4, <2>5
<1>6. CASE ReadActive
  <2>1. tick' = [tick EXCEPT !.at = "readExit", !.active = active]
    BY <1>6 DEF ReadActive
  <2>2. tick' \in Ticks /\ tick'.at = "readExit"
    BY <1>1, <2>1 DEF Ticks, ChainTyped
  <2>3. QED
    BY <1>3, <1>4, <2>2
<1>7. CASE ReadExit
  <2>1. Decide(tick, PendingSeen) /\ PendingSeen \in BOOLEAN
    BY <1>7 DEF ReadExit, PendingSeen
  <2>2. \/ tick' = Resting
        \/ tick' \in Ticks /\ CallsInOrder(tick'.calls) /\ exit = NoExit
    BY <1>1, <2>1, Decides DEF PendingSeen
  <2>3. QED
    BY <1>3, <1>4, <2>2, RestingTyped
<1>8. CASE TickThrows
  BY <1>3, <1>4, <1>8, RestingTyped DEF TickThrows
<1>9. QED
  BY <1>5, <1>6, <1>7, <1>8 DEF Reads

(* How a submission ends: the call lands or not, and the tick goes on or   *)
(* is over.                                                                *)
LEMMA Submitted ==
  ASSUME KeeperInv, Submits
  PROVE  /\ tick.at = "acting" /\ (Proceed \/ tick' = Resting)
         /\ GoodCall(Head(tick.calls)) /\ Accepts(Head(tick.calls))
         /\ \/ Lands(Head(tick.calls), FALSE)
            \/ /\ UNCHANGED <<idle, held, active, exit>>
               /\ late' \subseteq late \cup {Head(tick.calls)}
<1>1. /\ tick.at = "acting" /\ Accepts(Head(tick.calls)) /\ (Proceed \/ tick' = Resting)
      /\ \/ Lands(Head(tick.calls), FALSE)
         \/ /\ UNCHANGED <<idle, held, active, exit>>
            /\ late' \subseteq late \cup {Head(tick.calls)}
  <2>1. CASE SubmitLands
    BY <2>1 DEF SubmitLands, Gives
  <2>2. CASE SubmitRejected
    BY <2>2 DEF SubmitRejected, Gives, chainVars
  <2>3. CASE SubmitUnseen
    BY <2>3 DEF SubmitUnseen, Gives
  <2>4. CASE SubmitLate
    BY <2>4 DEF SubmitLate, Gives, chainVars
  <2>5. QED
    BY <2>1, <2>2, <2>3, <2>4 DEF Submits
<1>2. GoodCall(Head(tick.calls))
  BY <1>1, HeadIsGood DEF KeeperInv
<1>3. QED
  BY <1>1, <1>2

LEMMA SubmitStep ==
  ASSUME KeeperInv, Submits
  PROVE  KeeperInv' /\ Steady
<1> DEFINE c == Head(tick.calls)
<1>1. /\ tick.at = "acting" /\ (Proceed \/ tick' = Resting)
      /\ GoodCall(c) /\ Accepts(c)
      /\ \/ Lands(c, FALSE)
         \/ UNCHANGED <<idle, held, active, exit>> /\ late' \subseteq late \cup {c}
  BY Submitted
<1>2. ChainTyped /\ TickTyped /\ PendingInv
  BY DEF KeeperInv
<1>3. /\ Pulls(c) => Bold(tick.calls)
      /\ c.op = "propose" => ~(Len(tick.calls) > 1)
  BY <1>1, <1>2, HeadIsGood
<1> HIDE DEF c
<1>4. /\ TickTyped'
      /\ tick' = Resting \/ (/\ tick'.at = "acting" /\ Len(tick.calls) > 1
                             /\ Bold(tick'.calls) => Bold(tick.calls))
  <2>1. CASE Proceed
    BY <1>1, <1>2, <2>1, Proceeds
  <2>2. CASE tick' = Resting
    BY <2>2, RestingTyped DEF TickTyped
  <2>3. QED
    BY <1>1, <2>1, <2>2
<1>5. CASE Lands(c, FALSE)
  <2>1. /\ ChainTyped' /\ late' = {}
        /\ c.op # "deallocate" => \A p \in Pools : held'[p] >= held[p]
        /\ c.op # "propose" => exit' = exit
    BY <1>1, <1>2, <1>5, LandsAs
  <2>2. CASE exit # NoExit /\ ~exit.missed
    <3>1. ~Bold(tick.calls) /\ ~Pulls(c)
      BY <1>1, <1>2, <1>3, <2>2 DEF PendingInv
    <3>2. Steady
      BY <2>1, <3>1 DEF Steady, Pulls
    <3>3. PendingInv'
      BY <1>4, <2>1, <3>1, RestingTyped DEF PendingInv
    <3>4. QED
      BY <1>4, <2>1, <3>2, <3>3 DEF KeeperInv
  <2>3. CASE ~(exit # NoExit /\ ~exit.missed)
    <3>1. c.op = "propose" => tick' = Resting
      BY <1>3, <1>4
    <3>2. PendingInv'
      BY <2>1, <2>3, <3>1, RestingTyped DEF PendingInv
    <3>3. QED
      BY <1>4, <2>1, <2>3, <3>2 DEF KeeperInv, Steady
  <2>4. QED
    BY <2>2, <2>3
<1>6. CASE UNCHANGED <<idle, held, active, exit>> /\ late' \subseteq late \cup {c}
  <2>1. ChainTyped' /\ Steady
    BY <1>1, <1>2, <1>6, NothingMoves DEF ChainTyped
  <2>2. PendingInv'
    <3> SUFFICES ASSUME exit # NoExit /\ ~exit.missed
                 PROVE  PendingInv'
      BY <1>6 DEF PendingInv
    <3>1. ~Bold(tick.calls) /\ ~Pulls(c) /\ \A d \in late : ~Pulls(d)
      BY <1>1, <1>2, <1>3 DEF PendingInv
    <3>2. QED
      BY <1>4, <1>6, <3>1, RestingTyped DEF PendingInv
  <2>3. QED
    BY <1>4, <2>1, <2>2 DEF KeeperInv
<1>7. QED
  BY <1>1, <1>5, <1>6

(* What lands late, and what the operator calls.                           *)
LEMMA OthersLand ==
  ASSUME KeeperInv, LateLands \/ OperatorCall
  PROVE  KeeperInv' /\ Steady
<1>1. ChainTyped /\ TickTyped /\ PendingInv
  BY DEF KeeperInv
<1> DEFINE behind == tick.at = "acting"
<1>2. behind \in BOOLEAN
  OBVIOUS
<1> HIDE DEF behind
<1>3. \E c \in CallsOf : \E missed \in BOOLEAN :
        /\ GoodCall(c) /\ Accepts(c) /\ Lands(c, missed)
        /\ c \in late \/ ~Pulls(c)
        /\ c.op = "propose" => missed = behind
  <2>1. CASE LateLands
    <3>1. PICK c \in late : Accepts(c) /\ Lands(c, behind)
      BY <2>1 DEF LateLands, behind
    <3>2. GoodCall(c) /\ c \in CallsOf
      BY <1>1, <3>1 DEF ChainTyped, GoodCall
    <3>3. QED
      BY <1>2, <3>1, <3>2
  <2>2. CASE OperatorCall
    <3>1. PICK p \in Registered, op \in {"allocate", "freeze", "unfreeze"}, amount \in Amounts :
            LET c == Call(op, p, NoPool, amount) IN Accepts(c) /\ Lands(c, FALSE)
      BY <2>2 DEF OperatorCall
    <3> DEFINE c == Call(op, p, NoPool, amount)
    <3>2. p \in Pools /\ amount \in Nat
      BY KeeperAssumption
    <3>3. GoodCall(c) /\ c \in CallsOf /\ ~Pulls(c) /\ c.op # "propose"
      BY <3>2 DEF GoodCall, Call, Ops, CallsOf, Pulls
    <3>4. Accepts(c) /\ Lands(c, FALSE) /\ FALSE \in BOOLEAN
      BY <3>1
    <3> HIDE DEF c
    <3>5. QED
      BY <3>3, <3>4
  <2>3. QED
    BY <2>1, <2>2
<1>4. PICK c \in CallsOf, missed \in BOOLEAN :
        /\ GoodCall(c) /\ Accepts(c) /\ Lands(c, missed)
        /\ c \in late \/ ~Pulls(c)
        /\ c.op = "propose" => missed = behind
  BY <1>3
<1>5. /\ ChainTyped' /\ late' = {} /\ tick' = tick
      /\ c.op # "deallocate" => \A p \in Pools : held'[p] >= held[p]
      /\ c.op # "propose" => exit' = exit
      /\ c.op = "propose" => exit'.missed = (tick.at = "acting")
  BY <1>1, <1>4, LandsAs DEF LateLands, OperatorCall, behind
<1>6. TickTyped'
  BY <1>1, <1>5 DEF TickTyped
<1>7. CASE c.op = "propose"
  <2>1. PendingInv'
    BY <1>5, <1>7 DEF PendingInv
  <2>2. Steady
    BY <1>1, <1>4, <1>7 DEF PendingInv, Pulls, Steady
  <2>3. QED
    BY <1>5, <1>6, <2>1, <2>2 DEF KeeperInv
<1>8. CASE c.op # "propose"
  <2>1. PendingInv'
    BY <1>1, <1>5, <1>8 DEF PendingInv
  <2>2. Steady
    BY <1>1, <1>4, <1>5, <1>8 DEF PendingInv, Pulls, Steady
  <2>3. QED
    BY <1>5, <1>6, <2>1, <2>2 DEF KeeperInv
<1>9. QED
  BY <1>7, <1>8

LEMMA ApproveKeeps ==
  ASSUME KeeperInv, ApproveExit
  PROVE  KeeperInv' /\ Steady
<1>1. /\ exit.from \in Pools /\ exit.to \in Pools /\ held \in [Pools -> Nat] /\ idle \in Nat
      /\ NoPool \notin Pools /\ exit # NoExit
  BY KeeperAssumption DEF ApproveExit, KeeperInv, ChainTyped
<1>2. held' \in [Pools -> Nat]
  <2>1. held[exit.from] \in Nat
    BY <1>1
  <2>2. \A h \in [Pools -> Nat] : [h EXCEPT ![exit.to] = @ + held[exit.from]] \in [Pools -> Nat]
    BY <1>1, <2>1
  <2>3. [held EXCEPT ![exit.from] = 0] \in [Pools -> Nat]
    BY <1>1
  <2>4. held' = [[held EXCEPT ![exit.from] = 0] EXCEPT ![exit.to] = @ + held[exit.from]]
    BY DEF ApproveExit
  <2>5. QED
    BY <2>2, <2>3, <2>4
<1>3. active' = exit.to /\ exit' = NoExit /\ UNCHANGED <<idle, tick, late>>
  BY DEF ApproveExit
<1>4. ChainTyped'
  BY <1>1, <1>2, <1>3 DEF ChainTyped, KeeperInv
<1>5. QED
  BY <1>1, <1>3, <1>4 DEF KeeperInv, TickTyped, PendingInv, Steady

LEMMA KeeperStep ==
  ASSUME KeeperInv, [Next]_vars
  PROVE  KeeperInv' /\ Steady
<1>1. CASE StartTick \/ Reads \/ TickThrows
  BY <1>1, TickStep
<1>2. CASE Submits
  BY <1>2, SubmitStep
<1>3. CASE LateLands \/ OperatorCall
  BY <1>3, OthersLand
<1>4. CASE ApproveExit
  BY <1>4, ApproveKeeps
<1>5. CASE Flag \/ UNCHANGED vars
  <2>1. UNCHANGED <<idle, held, active, exit, tick, late>>
    BY <1>5 DEF Flag, vars, chainVars
  <2>2. QED
    BY <2>1, NothingMoves DEF KeeperInv, ChainTyped, TickTyped, PendingInv
<1>6. QED
  BY <1>1, <1>2, <1>3, <1>4, <1>5 DEF Next

LEMMA KeeperInvHolds ==
  Spec => []KeeperInv
<1>1. ASSUME Init
      PROVE  KeeperInv
  <2>1. PICK funds \in Amounts, p \in Pools \cup {NoPool} :
          /\ idle = IF p = NoPool THEN funds ELSE 0
          /\ held = [q \in Pools |-> IF q = p THEN funds ELSE 0]
          /\ active = p
    BY <1>1 DEF Init
  <2>2. exit = NoExit /\ tick = Resting /\ late = {} /\ funds \in Nat
    BY <1>1, KeeperAssumption DEF Init
  <2>3. ChainTyped
    BY <2>1, <2>2 DEF ChainTyped
  <2>4. QED
    BY <2>2, <2>3, RestingTyped DEF KeeperInv, TickTyped, PendingInv
<1>2. KeeperInv /\ [Next]_vars => KeeperInv'
  BY KeeperStep
<1>3. QED
  BY <1>1, <1>2, PTL DEF Spec

(* While an exit waits for the depositor, no tick takes funds out of a     *)
(* pool: for any pools, candidates and amounts, whoever calls, and in      *)
(* whatever way submissions fail, late landings included. The exception is *)
(* an exit that landed late behind the back of a tick that had looked.     *)
THEOREM NoPullTheorem ==
  Spec => NoPullWhileExitPends
<1>1. Steady => [exit # NoExit /\ exit' = exit /\ ~exit.missed
                   => \A p \in Pools : held'[p] >= held[p]]_vars
  BY DEF Steady
<1>2. KeeperInv /\ [Next]_vars => Steady
  BY KeeperStep
<1>3. QED
  BY <1>1, <1>2, KeeperInvHolds, PTL DEF Spec, NoPullWhileExitPends

(* Nor is a proposal that a depositor may be reading replaced by another,  *)
(* but for the same exception.                                             *)
THEOREM ProposalStandsTheorem ==
  Spec => ProposalStands
<1>1. Steady => [exit # NoExit /\ exit' # exit => exit' = NoExit \/ exit.missed]_vars
  BY DEF Steady
<1>2. KeeperInv /\ [Next]_vars => Steady
  BY KeeperStep
<1>3. QED
  BY <1>1, <1>2, KeeperInvHolds, PTL DEF Spec, ProposalStands
=============================================================================
