---------------------------- MODULE UeTrackerProofs ----------------------------
(***************************************************************************)
(* Proofs about the UE table and its observer, for any RNTIs and any size   *)
(* of table: the types, the count of new UEs and the report of a flood that *)
(* lasts, as long as the table holds the RNTIs of any two periods in a row. *)
(***************************************************************************)
EXTENDS UeTrackerObserver, FiniteSetTheorems, FunctionTheorems, SequenceTheorems,
        NaturalsInduction, TLAPS

LEMMA TrackerConstants ==
  /\ MaxTracked \in Nat /\ MaxTracked > 0
  /\ AlertConsecutive \in Nat /\ AlertConsecutive > 0
  /\ NewRntiThr \in Nat /\ NewRntiThr > 0
  /\ MinPeriods \in Nat /\ MinPeriods > 0
<1>1. \A n \in Nat \ {0} : n > 0
  OBVIOUS
<1>2. /\ MaxTracked \in Nat \ {0} /\ AlertConsecutive \in Nat \ {0}
      /\ NewRntiThr \in Nat \ {0} /\ MinPeriods \in Nat \ {0}
  BY TrackerAssumption
<1> QED  BY <1>1, <1>2

-----------------------------------------------------------------------------
(* Counting and choosing.                                                  *)

LEMMA LeastSeenExists ==
  ASSUME NEW S, S \subseteq Nat, S # {}
  PROVE  \E x \in S : \A y \in S : x <= y
<1> DEFINE R == OpToRel(<, Nat)
<1>1. PICK x \in S : \A y \in S : ~(<<y, x>> \in R)
  BY NatLessThanWellFounded, WFMin
<1>2. ASSUME NEW y \in S PROVE x <= y
  <2>1. y \in Nat /\ x \in Nat
    OBVIOUS
  <2>2. y < x => <<y, x>> \in R
    BY <2>1 DEF OpToRel
  <2>3. ~(y < x)
    BY <1>1, <2>2
  <2> QED  BY <2>1, <2>3
<1> QED  BY <1>2

LEMMA UpToType ==
  ASSUME NEW cap \in Nat, NEW n \in Nat
  PROVE  UpTo(cap, n) \in 0..cap /\ UpTo(cap, n) <= n
BY DEF UpTo

(* The rank of a time among those in a set.                                *)
Rank(S, x) == Cardinality(S \cap 0..(x - 1))

LEMMA RankBelow ==
  ASSUME NEW S, S \subseteq Nat, IsFiniteSet(S), NEW x \in Nat, NEW y \in Nat
  PROVE  /\ Rank(S, x) \in Nat
         /\ x \in S /\ x < y => Rank(S, x) < Rank(S, y)
         /\ x \in S => Rank(S, x) < Cardinality(S)
<1> DEFINE Lx == S \cap 0..(x - 1)
           Ly == S \cap 0..(y - 1)
<1>1. IsFiniteSet(Lx) /\ IsFiniteSet(Ly)
  BY FS_Subset
<1>2. Cardinality(Lx) \in Nat /\ Cardinality(Ly) \in Nat /\ Cardinality(S) \in Nat
  BY <1>1, FS_CardinalityType
<1>3. ASSUME x \in S, NEW T, Lx \subseteq T, x \in T, IsFiniteSet(T)
      PROVE  Cardinality(Lx) < Cardinality(T)
  <2>1. x \notin Lx
    OBVIOUS
  <2> HIDE DEF Lx
  <2>2. Cardinality(Lx) <= Cardinality(T) /\ (Cardinality(Lx) = Cardinality(T) => Lx = T)
    BY <1>3, FS_Subset
  <2>3. Cardinality(T) \in Nat
    BY <1>3, FS_CardinalityType
  <2> QED  BY <1>2, <1>3, <2>1, <2>2, <2>3
<1>4. x \in S /\ x < y => Cardinality(Lx) < Cardinality(Ly)
  <2> SUFFICES ASSUME x \in S, x < y PROVE Cardinality(Lx) < Cardinality(Ly)
    OBVIOUS
  <2>1. Lx \subseteq Ly /\ x \in Ly
    OBVIOUS
  <2> HIDE DEF Lx, Ly
  <2> QED  BY <1>1, <1>3, <2>1
<1>5. x \in S => Cardinality(Lx) < Cardinality(S)
  <2>1. Lx \subseteq S
    OBVIOUS
  <2> HIDE DEF Lx
  <2> QED  BY <1>3, <2>1
<1> QED  BY <1>2, <1>4, <1>5 DEF Rank

\* There are as many ranks as times.
LEMMA RanksCounted ==
  ASSUME NEW S, S \subseteq Nat, IsFiniteSet(S)
  PROVE  Cardinality({Rank(S, x) : x \in S}) = Cardinality(S)
<1> DEFINE R == {Rank(S, x) : x \in S}
           f == [x \in S |-> Rank(S, x)]
<1>1. \A x, y \in S : Rank(S, x) = Rank(S, y) => x = y
  <2> TAKE x, y \in S
  <2>1. x \in Nat /\ y \in Nat
    OBVIOUS
  <2>2. x < y => Rank(S, x) < Rank(S, y)
    BY <2>1, RankBelow
  <2>3. y < x => Rank(S, y) < Rank(S, x)
    BY <2>1, RankBelow
  <2>4. Rank(S, x) \in Nat /\ Rank(S, y) \in Nat
    BY <2>1, RankBelow
  <2> QED  BY <2>1, <2>2, <2>3, <2>4
<1>2. f \in Bijection(S, R)
  BY <1>1 DEF Bijection, Injection, Surjection, IsInjective
<1>3. ExistsBijection(S, R)
  BY <1>2 DEF ExistsBijection
<1> HIDE DEF R
<1>4. Cardinality(R) = Cardinality(S)
  BY <1>3, FS_Bijection
<1> QED  BY <1>4 DEF R

-----------------------------------------------------------------------------
(* The table.                                                              *)
Table(t, n) == n \in Nat /\ t \in [1..n -> UeEntry]

Times(t, n) == {t[j].seen : j \in 1..n}

LEMMA EntryIs ==
  ASSUME NEW e \in UeEntry
  PROVE  /\ e.rnti \in RNTI /\ e.active \in BOOLEAN /\ e.seen \in Nat /\ e.high \in BOOLEAN
         /\ e.periods \in 0..MinPeriods /\ e.consecutive \in 0..AlertConsecutive
         /\ \A s \in Nat : [e EXCEPT !.seen = s] \in UeEntry
BY DEF UeEntry

\* The slots are numbered from 1, and their entries typed.
LEMMA SlotsAre ==
  ASSUME TrackerTypeOK
  PROVE  Len(table) \in Nat /\ Len(table) <= MaxTracked /\ Slots = 1..Len(table) /\ Table(table, Len(table))
BY LenProperties DEF TrackerTypeOK, Slots, Table

LEMMA TableIsSeq ==
  ASSUME NEW t, NEW n, Table(t, n)
  PROVE  t \in Seq(UeEntry) /\ Len(t) = n /\ DOMAIN t = 1..n
<1>1. \A k \in Nat : \A f \in [1..k -> UeEntry] : f \in Seq(UeEntry) /\ Len(f) = k /\ DOMAIN f = 1..k
  OBVIOUS
<1> QED  BY <1>1 DEF Table

\* Ranking keeps every field but the time, and the order of the times; the
\* ranks are dense.
LEMMA RankedIs ==
  ASSUME NEW t, NEW n, Table(t, n), NEW r, r = Ranked(t)
  PROVE  /\ Table(r, n)
         /\ \A i \in 1..n : /\ r[i].rnti = t[i].rnti
                            /\ r[i].active = t[i].active
                            /\ r[i].high = t[i].high
                            /\ r[i].consecutive = t[i].consecutive
                            /\ r[i].seen < Cardinality(Times(r, n))
         /\ \A i, j \in 1..n : t[i].seen < t[j].seen => r[i].seen < r[j].seen
<1> DEFINE S == {t[j].seen : j \in 1..n}
<1>1. n \in Nat /\ DOMAIN t = 1..n /\ \A i \in 1..n : t[i] \in UeEntry
  BY DEF Table
<1>2. \A i \in 1..n : t[i].seen \in Nat
  BY <1>1, EntryIs
<1>3. S \subseteq Nat /\ \A i \in 1..n : t[i].seen \in S
  BY <1>2
<1>4. IsFiniteSet(S)
  <2> DEFINE f == [j \in 1..n |-> t[j].seen]
  <2>1. f \in Surjection(1..n, S)
    BY DEF Surjection
  <2>2. IsFiniteSet(1..n)
    BY <1>1, FS_Interval
  <2> HIDE DEF f, S
  <2> QED  BY <2>1, <2>2, FS_Surjection
<1>5. r = [i \in 1..n |-> [t[i] EXCEPT !.seen = Rank(S, t[i].seen)]]
  BY <1>1 DEF Ranked, Rank
<1> HIDE DEF S
<1>6. \A i \in 1..n : Rank(S, t[i].seen) \in Nat
  BY <1>2, <1>3, <1>4, RankBelow
<1>7. \A i \in 1..n : r[i] = [t[i] EXCEPT !.seen = Rank(S, t[i].seen)]
  BY <1>5
<1>8. Table(r, n)
  BY <1>1, <1>5, <1>6, EntryIs DEF Table
<1>9. \A i \in 1..n : /\ r[i].rnti = t[i].rnti /\ r[i].active = t[i].active
                      /\ r[i].high = t[i].high
                      /\ r[i].consecutive = t[i].consecutive
                      /\ r[i].seen = Rank(S, t[i].seen)
  BY <1>1, <1>7 DEF UeEntry
<1>10. \A i, j \in 1..n : t[i].seen < t[j].seen => r[i].seen < r[j].seen
  <2> TAKE i, j \in 1..n
  <2> DEFINE x == t[i].seen
             y == t[j].seen
  <2>1. x \in Nat /\ y \in Nat /\ x \in S
    BY <1>2, <1>3
  <2> HIDE DEF x, y
  <2>2. x < y => Rank(S, x) < Rank(S, y)
    BY <1>3, <1>4, <2>1, RankBelow
  <2>3. r[i].seen = Rank(S, x) /\ r[j].seen = Rank(S, y)
    BY <1>9 DEF x, y
  <2>4. x < y => r[i].seen < r[j].seen
    BY <2>2, <2>3
  <2> QED  BY <2>4 DEF x, y
<1>11. \A i \in 1..n : r[i].seen < Cardinality({r[j].seen : j \in 1..n})
  <2>1. {r[j].seen : j \in 1..n} = {Rank(S, x) : x \in S}
    <3>1. \A j \in 1..n : r[j].seen = Rank(S, t[j].seen)
      BY <1>9
    <3>2. {r[j].seen : j \in 1..n} = {Rank(S, t[j].seen) : j \in 1..n}
      BY <3>1
    <3>3. \A j \in 1..n : t[j].seen \in S
      BY <1>3
    <3>4. \A x \in S : \E j \in 1..n : x = t[j].seen
      BY DEF S
    <3>5. {Rank(S, t[j].seen) : j \in 1..n} = {Rank(S, x) : x \in S}
      BY <3>3, <3>4, Zenon
    <3> QED  BY <3>2, <3>5
  <2>2. Cardinality({r[j].seen : j \in 1..n}) = Cardinality(S)
    BY <1>3, <1>4, <2>1, RanksCounted
  <2>3. \A i \in 1..n : Rank(S, t[i].seen) < Cardinality(S)
    BY <1>2, <1>3, <1>4, RankBelow
  <2> QED  BY <1>9, <2>2, <2>3
<1> QED  BY <1>8, <1>9, <1>10, <1>11 DEF Times

\* The inactive entry seen longest ago.
LEMMA OldestIs ==
  ASSUME TrackerTypeOK, Inactive # {}
  PROVE  /\ OldestInactive \in Inactive
         /\ \A j \in Inactive : table[OldestInactive].seen <= table[j].seen
<1> DEFINE S == {table[i].seen : i \in Inactive}
<1>1. /\ Len(table) \in Nat /\ Slots = 1..Len(table)
      /\ \A i \in Slots : table[i] \in UeEntry
  BY SlotsAre DEF Table
<1>2. Inactive \subseteq 1..Len(table) /\ \A i \in Inactive : table[i].seen \in Nat
  BY <1>1, EntryIs DEF Inactive
<1>3. S \subseteq Nat /\ S # {}
  BY <1>2
<1>4. PICK s \in S : \A y \in S : s <= y
  BY <1>3, LeastSeenExists
<1> DEFINE T == {i \in Inactive : table[i].seen = s}
<1>5. T \subseteq Nat /\ T # {}
  <2>1. PICK j \in Inactive : s = table[j].seen
    BY <1>4
  <2>2. j \in T
    BY <2>1
  <2>3. \A k \in 1..Len(table) : k \in Nat
    BY <1>1
  <2> QED  BY <1>2, <2>2, <2>3
<1>6. PICK i \in T : \A j \in T : i <= j
  BY <1>5, LeastSeenExists
<1>7. i \in Inactive /\ \A j \in Inactive :
        table[i].seen < table[j].seen \/ (table[i].seen = table[j].seen /\ i <= j)
  <2>1. i \in Inactive /\ table[i].seen = s /\ s \in Nat
    BY <1>3, <1>6
  <2>2. ASSUME NEW j \in Inactive
        PROVE  table[i].seen < table[j].seen \/ (table[i].seen = table[j].seen /\ i <= j)
    <3>1. table[j].seen \in Nat /\ s <= table[j].seen
      BY <1>2, <1>4
    <3>2. CASE table[j].seen = s
      BY <1>6, <2>1, <3>2
    <3>3. CASE table[j].seen # s
      BY <2>1, <3>1, <3>3
    <3> QED  BY <3>2, <3>3
  <2> QED  BY <2>1, <2>2
<1>8. /\ OldestInactive \in Inactive
      /\ \A j \in Inactive :
           \/ table[OldestInactive].seen < table[j].seen
           \/ table[OldestInactive].seen = table[j].seen /\ OldestInactive <= j
  BY <1>7 DEF OldestInactive
<1> QED  BY <1>2, <1>8

-----------------------------------------------------------------------------
(* A report.  The number of entries after it.                              *)
NextLen(u) == IF ~Tracked(u) /\ Len(table) < MaxTracked THEN Len(table) + 1 ELSE Len(table)

(* The ranks are dense: the next one is larger than every one in use.      *)
Dense == \A i \in Slots : table[i].seen < Latest

Stamp(sameMs) == IF sameMs THEN Latest - 1 ELSE Latest

\* Where find_slot puts a report.
LEMMA SlotOfIs ==
  ASSUME TrackerTypeOK, NEW u \in RNTI
  PROVE  /\ NextLen(u) \in Nat /\ NextLen(u) <= MaxTracked
         /\ SlotOf(u) \in 1..NextLen(u)
         /\ Slots \cup {SlotOf(u)} = 1..NextLen(u)
         /\ Tracked(u) => SlotOf(u) \in Slots /\ table[SlotOf(u)].rnti = u
         /\ ~Tracked(u) /\ Len(table) < MaxTracked => SlotOf(u) \notin Slots
         /\ ~Tracked(u) /\ Len(table) = MaxTracked /\ Inactive # {} => SlotOf(u) = OldestInactive
<1>1. Len(table) \in Nat /\ Len(table) <= MaxTracked /\ Slots = 1..Len(table)
      /\ MaxTracked \in Nat /\ MaxTracked > 0
  BY SlotsAre, TrackerConstants
<1>2. CASE Tracked(u)
  <2>1. SlotOf(u) \in Slots /\ table[SlotOf(u)].rnti = u
    BY <1>2 DEF SlotOf, Tracked
  <2> QED  BY <1>1, <1>2, <2>1 DEF NextLen
<1>3. CASE ~Tracked(u) /\ Len(table) < MaxTracked
  <2>1. SlotOf(u) = Len(table) + 1 /\ NextLen(u) = Len(table) + 1
    BY <1>3 DEF SlotOf, NextLen
  <2> QED  BY <1>1, <1>3, <2>1
<1>4. CASE ~Tracked(u) /\ ~(Len(table) < MaxTracked)
  <2>1. NextLen(u) = Len(table) /\ Len(table) = MaxTracked
    BY <1>1, <1>4 DEF NextLen
  <2>2. SlotOf(u) = IF Inactive # {} THEN OldestInactive ELSE 1
    BY <1>4 DEF SlotOf
  <2>3. SlotOf(u) \in Slots
    BY <1>1, <2>1, <2>2, OldestIs DEF Inactive
  <2> QED  BY <1>1, <1>4, <2>1, <2>2, <2>3
<1> QED  BY <1>2, <1>3, <1>4

LEMMA StampIs ==
  ASSUME TrackerTypeOK, NEW u \in RNTI, NEW high, NEW sameMs \in BOOLEAN, MacUpdate(u, high, sameMs)
  PROVE  Latest \in Nat /\ Stamp(sameMs) \in Nat
<1> DEFINE S == {table[i].seen : i \in Slots}
           f == [i \in Slots |-> table[i].seen]
<1>1. Slots = 1..Len(table) /\ Len(table) \in Nat /\ \A i \in Slots : table[i] \in UeEntry
  BY SlotsAre DEF Table
<1>2. IsFiniteSet(Slots)
  BY <1>1, FS_Interval
<1>3. f \in Surjection(Slots, S)
  BY DEF Surjection
<1>4. Cardinality(S) \in Nat
  <2> HIDE DEF f, S
  <2> QED  BY <1>2, <1>3, FS_Surjection, FS_CardinalityType
<1>5. sameMs => \E i \in Slots : table[i].seen = Latest - 1
  BY DEF MacUpdate
<1> QED  BY <1>1, <1>4, <1>5, EntryIs DEF Stamp, Latest

\* One entry is written, the others are left.
LEMMA ReportedIs ==
  ASSUME TrackerTypeOK, NEW u \in RNTI, NEW high \in BOOLEAN, NEW stamp \in Nat,
         NEW t, t = Reported(u, high, stamp), NEW slot, slot = SlotOf(u)
  PROVE  /\ Table(t, NextLen(u))
         /\ t[slot].rnti = u /\ t[slot].active /\ t[slot].seen = stamp
         /\ t[slot].high <=> high \/ (Tracked(u) /\ table[slot].high)
         /\ t[slot].consecutive = IF Tracked(u) THEN table[slot].consecutive ELSE 0
         /\ \A i \in 1..NextLen(u) : i # slot => i \in Slots /\ t[i] = table[i]
<1>1. /\ NextLen(u) \in Nat /\ slot \in 1..NextLen(u) /\ Slots \cup {slot} = 1..NextLen(u)
      /\ Tracked(u) => slot \in Slots /\ table[slot].rnti = u
  BY SlotOfIs
<1>2. \A i \in Slots : table[i] \in UeEntry
  BY SlotsAre DEF Table
<1> DEFINE entry == IF Tracked(u) THEN table[slot] ELSE Blank(u)
           updated == [entry EXCEPT !.active = TRUE, !.seen = stamp, !.high = @ \/ high]
<1>3. entry \in UeEntry /\ entry.rnti = u
  BY <1>1, <1>2, TrackerConstants DEF Blank, UeEntry
<1>4. updated \in UeEntry /\ updated.rnti = u /\ updated.active /\ updated.seen = stamp
      /\ updated.consecutive = entry.consecutive /\ (updated.high <=> entry.high \/ high)
  <2> HIDE DEF entry
  <2> QED  BY <1>3 DEF UeEntry
<1>5. entry.consecutive = (IF Tracked(u) THEN table[slot].consecutive ELSE 0)
      /\ (entry.high <=> Tracked(u) /\ table[slot].high)
  BY DEF Blank
<1>6. t = [i \in 1..NextLen(u) |-> IF i = slot THEN updated ELSE table[i]]
  BY <1>1 DEF Reported
<1> HIDE DEF updated, entry
<1>7. \A i \in 1..NextLen(u) : i # slot => i \in Slots /\ t[i] = table[i]
  BY <1>1, <1>6
<1>8. t[slot] = updated
  BY <1>1, <1>6
<1>9. Table(t, NextLen(u))
  BY <1>1, <1>2, <1>4, <1>6, <1>7 DEF Table
<1>10. t[slot].rnti = u /\ t[slot].active /\ t[slot].seen = stamp
  BY <1>4, <1>8
<1>11. t[slot].consecutive = IF Tracked(u) THEN table[slot].consecutive ELSE 0
  BY <1>4, <1>5, <1>8
<1>12. t[slot].high <=> high \/ (Tracked(u) /\ table[slot].high)
  BY <1>4, <1>5, <1>8, Zenon
<1> QED  BY <1>7, <1>9, <1>10, <1>11, <1>12

\* The table after a report: the reporting UE's entry is active and stamped,
\* the others keep their fields and their order.
LEMMA UpdateIs ==
  ASSUME TrackerTypeOK, NEW u \in RNTI, NEW high \in BOOLEAN, NEW sameMs \in BOOLEAN,
         MacUpdate(u, high, sameMs), NEW slot, slot = SlotOf(u), NEW stamp, stamp = Stamp(sameMs)
  PROVE  /\ Table(table', NextLen(u)) /\ table' \in Seq(UeEntry) /\ Len(table') = NextLen(u)
         /\ Slots' = 1..NextLen(u) /\ slot \in Slots' /\ Dense'
         /\ table'[slot].rnti = u /\ table'[slot].active
         /\ table'[slot].high <=> high \/ (Tracked(u) /\ table[slot].high)
         /\ table'[slot].consecutive = IF Tracked(u) THEN table[slot].consecutive ELSE 0
         /\ \A i \in Slots' : i # slot =>
              /\ i \in Slots
              /\ table'[i].rnti = table[i].rnti /\ table'[i].active = table[i].active
              /\ table'[i].high = table[i].high /\ table'[i].consecutive = table[i].consecutive
              /\ table[i].seen < stamp => table'[i].seen < table'[slot].seen
              /\ \A j \in Slots' : j # slot /\ table[i].seen < table[j].seen => table'[i].seen < table'[j].seen
<1> DEFINE t == Reported(u, high, stamp)
           n == NextLen(u)
<1>1. table' = Ranked(t)
  BY DEF MacUpdate, Stamp
<1>2. stamp \in Nat
  BY StampIs
<1>3. /\ Table(t, n)
      /\ t[slot].rnti = u /\ t[slot].active /\ t[slot].seen = stamp
      /\ t[slot].high <=> high \/ (Tracked(u) /\ table[slot].high)
      /\ t[slot].consecutive = IF Tracked(u) THEN table[slot].consecutive ELSE 0
      /\ \A i \in 1..n : i # slot => i \in Slots /\ t[i] = table[i]
  BY <1>2, ReportedIs
<1>4. slot \in 1..n
  BY SlotOfIs
<1> HIDE DEF t, n
<1>5. /\ Table(table', n)
      /\ \A i \in 1..n : /\ table'[i].rnti = t[i].rnti
                         /\ table'[i].active = t[i].active
                         /\ table'[i].high = t[i].high
                         /\ table'[i].consecutive = t[i].consecutive
                         /\ table'[i].seen < Cardinality(Times(table', n))
      /\ \A i, j \in 1..n : t[i].seen < t[j].seen => table'[i].seen < table'[j].seen
  <2> DEFINE r == table'
  <2>1. r = Ranked(t) /\ Table(t, n)
    BY <1>1, <1>3
  <2> HIDE DEF r
  <2>2. /\ Table(r, n)
        /\ \A i \in 1..n : /\ r[i].rnti = t[i].rnti
                           /\ r[i].active = t[i].active
                           /\ r[i].high = t[i].high
                           /\ r[i].consecutive = t[i].consecutive
                           /\ r[i].seen < Cardinality(Times(r, n))
        /\ \A i, j \in 1..n : t[i].seen < t[j].seen => r[i].seen < r[j].seen
    BY <2>1, RankedIs
  <2> QED  BY <2>2 DEF r
<1>6. table' \in Seq(UeEntry) /\ Len(table') = n /\ DOMAIN table' = 1..n
  BY <1>5, TableIsSeq
<1>7. Slots' = 1..n /\ Dense'
  BY <1>5, <1>6 DEF Slots, Dense, Latest, Times
<1>8. ASSUME NEW i \in 1..n, i # slot
      PROVE  /\ i \in Slots
             /\ table'[i].rnti = table[i].rnti /\ table'[i].active = table[i].active
             /\ table'[i].high = table[i].high /\ table'[i].consecutive = table[i].consecutive
             /\ table[i].seen < stamp => table'[i].seen < table'[slot].seen
             /\ \A j \in 1..n : j # slot /\ table[i].seen < table[j].seen => table'[i].seen < table'[j].seen
  <2>1. i \in Slots /\ t[i] = table[i]
    BY <1>3, <1>8
  <2>2. table[i].seen < stamp => table'[i].seen < table'[slot].seen
    BY <1>3, <1>4, <1>5, <2>1
  <2>3. \A j \in 1..n : j # slot /\ table[i].seen < table[j].seen => table'[i].seen < table'[j].seen
    BY <1>3, <1>5, <2>1
  <2> QED  BY <1>5, <2>1, <2>2, <2>3
<1>9. /\ table'[slot].rnti = u /\ table'[slot].active
      /\ table'[slot].high <=> high \/ (Tracked(u) /\ table[slot].high)
      /\ table'[slot].consecutive = IF Tracked(u) THEN table[slot].consecutive ELSE 0
  BY <1>3, <1>4, <1>5
<1> QED  BY <1>4, <1>5, <1>6, <1>7, <1>8, <1>9 DEF n

\* The table after an evaluation: only marks and counts change.
LEMMA FlushIs ==
  ASSUME TrackerTypeOK, Flush
  PROVE  /\ table' \in Seq(UeEntry) /\ Len(table') = Len(table) /\ Slots' = Slots
         /\ \A i \in Slots : /\ table'[i] = EvaluatedEntry(table[i]) /\ table[i] \in UeEntry
                             /\ table'[i].rnti = table[i].rnti /\ table'[i].seen = table[i].seen
                             /\ ~table'[i].active
                             /\ table[i].active => ~table'[i].high /\ table'[i].consecutive = Consecutive(table[i])
                             /\ ~table[i].active => table'[i] = table[i]
<1> DEFINE n == Len(table)
<1>1. Slots = 1..n /\ n \in Nat /\ \A i \in 1..n : table[i] \in UeEntry
  BY SlotsAre DEF Table
<1>2. ASSUME NEW e \in UeEntry
      PROVE  /\ EvaluatedEntry(e) \in UeEntry /\ EvaluatedEntry(e).rnti = e.rnti
             /\ EvaluatedEntry(e).seen = e.seen /\ ~EvaluatedEntry(e).active
             /\ e.active => ~EvaluatedEntry(e).high /\ EvaluatedEntry(e).consecutive = Consecutive(e)
             /\ ~e.active => EvaluatedEntry(e) = e
  <2>1. CASE ~e.active
    BY <2>1 DEF EvaluatedEntry
  <2>2. CASE e.active
    <3>1. e.consecutive + 1 \in Nat /\ e.periods + 1 \in Nat
          /\ AlertConsecutive \in Nat /\ MinPeriods \in Nat
      BY EntryIs, TrackerConstants
    <3>2. Consecutive(e) \in 0..AlertConsecutive /\ UpTo(MinPeriods, e.periods + 1) \in 0..MinPeriods
      <4>1. UpTo(AlertConsecutive, e.consecutive + 1) \in 0..AlertConsecutive
        BY <3>1, UpToType
      <4>2. UpTo(MinPeriods, e.periods + 1) \in 0..MinPeriods
        BY <3>1, UpToType
      <4>3. 0 \in 0..AlertConsecutive
        BY <3>1
      <4> QED
        BY <4>1, <4>2, <4>3 DEF Consecutive
    <3>3. EvaluatedEntry(e) = [e EXCEPT !.consecutive = Consecutive(e),
                                   !.periods = UpTo(MinPeriods, e.periods + 1),
                                   !.active = FALSE, !.high = FALSE]
      BY <2>2 DEF EvaluatedEntry
    <3> QED  BY <2>2, <3>2, <3>3 DEF UeEntry
  <2> QED  BY <2>1, <2>2
<1>3. table' = [i \in 1..n |-> EvaluatedEntry(table[i])]
  BY <1>1 DEF Flush
<1> HIDE DEF n
<1>4. Table(table', n)
  BY <1>1, <1>2, <1>3 DEF Table
<1>5. table' \in Seq(UeEntry) /\ Len(table') = n /\ DOMAIN table' = 1..n
  BY <1>4, TableIsSeq
<1>6. \A i \in 1..n : table'[i] = EvaluatedEntry(table[i])
  BY <1>3
<1>7. Slots' = Slots
  BY <1>1, <1>5 DEF Slots
<1> QED  BY <1>1, <1>2, <1>5, <1>6, <1>7 DEF n

LEMMA TrackerInits == TrackerInit => TrackerTypeOK /\ Dense
<1> SUFFICES ASSUME TrackerInit PROVE TrackerTypeOK /\ Dense
  OBVIOUS
<1>1. table = <<>> /\ table \in Seq(UeEntry) /\ Len(table) = 0 /\ Slots = {}
  BY DEF TrackerInit, Slots
<1> QED  BY <1>1, TrackerConstants DEF TrackerInit, TrackerTypeOK, Dense

LEMMA UpdateTypes ==
  ASSUME TrackerTypeOK, NEW u \in RNTI, NEW high \in BOOLEAN, NEW sameMs \in BOOLEAN,
         MacUpdate(u, high, sameMs)
  PROVE  TrackerTypeOK' /\ Dense'
<1> DEFINE slot == SlotOf(u)
           stamp == Stamp(sameMs)
<1>1. /\ table' \in Seq(UeEntry) /\ Len(table') = NextLen(u) /\ Slots' = 1..NextLen(u)
      /\ table'[slot].rnti = u /\ Dense' /\ slot \in Slots'
      /\ \A i \in Slots' : i # slot => i \in Slots /\ table'[i].rnti = table[i].rnti
  BY UpdateIs
<1>2. NextLen(u) <= MaxTracked /\ (Tracked(u) => slot \in Slots /\ table[slot].rnti = u)
  BY SlotOfIs
<1> HIDE DEF slot
<1>3. ASSUME NEW i \in Slots', NEW j \in Slots', table'[i].rnti = table'[j].rnti PROVE i = j
  <2>1. ASSUME NEW k \in Slots', k # slot PROVE table'[k].rnti # u
    <3>1. k \in Slots /\ table'[k].rnti = table[k].rnti
      BY <1>1, <2>1
    <3>2. table[k].rnti = u => Tracked(u)
      BY <3>1 DEF Tracked
    <3>3. table[k].rnti = u => k = slot
      BY <1>2, <3>1, <3>2 DEF TrackerTypeOK
    <3> QED  BY <2>1, <3>1, <3>3
  <2>2. CASE i # slot /\ j # slot
    <3>1. /\ i \in Slots /\ j \in Slots
          /\ table'[i].rnti = table[i].rnti /\ table'[j].rnti = table[j].rnti
      BY <1>1, <2>2
    <3> QED  BY <1>3, <3>1 DEF TrackerTypeOK
  <2> QED  BY <1>1, <1>3, <2>1, <2>2
<1>4. newUes' \in 0..NewRntiThr
  <2>1. newUes \in 0..NewRntiThr /\ NewRntiThr \in Nat
    BY TrackerConstants DEF TrackerTypeOK
  <2> QED  BY <2>1 DEF MacUpdate, UpTo
<1> QED  BY <1>1, <1>2, <1>3, <1>4 DEF TrackerTypeOK

LEMMA FlushTypes ==
  ASSUME TrackerTypeOK, Dense, Flush
  PROVE  TrackerTypeOK' /\ Dense'
<1>1. /\ table' \in Seq(UeEntry) /\ Len(table') = Len(table) /\ Slots' = Slots
      /\ \A i \in Slots : table'[i].rnti = table[i].rnti /\ table'[i].seen = table[i].seen
  BY FlushIs
<1>2. Dense'
  <2>1. {table'[i].seen : i \in Slots'} = {table[i].seen : i \in Slots}
    BY <1>1
  <2> QED  BY <1>1, <2>1 DEF Dense, Latest
<1>3. newUes' \in 0..NewRntiThr
  BY TrackerConstants DEF Flush
<1> QED  BY <1>1, <1>2, <1>3 DEF TrackerTypeOK

LEMMA TrackerStep == TrackerTypeOK /\ Dense /\ [TrackerNext]_trackerVars => TrackerTypeOK' /\ Dense'
<1>1. ASSUME TrackerTypeOK, Dense, UNCHANGED trackerVars PROVE TrackerTypeOK' /\ Dense'
  BY <1>1 DEF TrackerTypeOK, Dense, Latest, Slots, trackerVars
<1> QED  BY <1>1, UpdateTypes, FlushTypes DEF TrackerNext

\* The table keeps its types and its size, and an RNTI has one entry at most,
\* whichever slots are taken over (find_slot).
THEOREM TrackerTypes == TrackerSpec => []TrackerTypeOK
BY TrackerInits, TrackerStep, PTL DEF TrackerSpec


-----------------------------------------------------------------------------
(* The history.                                                            *)
TrackedRntis == {table[i].rnti : i \in Slots}

HistoryTypes ==
  /\ fits \in BOOLEAN
  /\ {reportedNow, recent, flooded, known} \subseteq SUBSET RNTI
  /\ IsFiniteSet(reportedNow) /\ IsFiniteSet(recent)
  /\ floodRun \in [RNTI -> 0..AlertConsecutive]

(* The RNTIs of this period and of the one before are in the table, and    *)
(* nothing else is but what was there when the period began.               *)
NobodyLost ==
  /\ reportedNow \cup recent \subseteq TrackedRntis
  /\ TrackedRntis \subseteq known \cup reportedNow
  /\ \A i \in Slots : table[i].active <=> table[i].rnti \in reportedNow

(* Who reported in this period was seen after who did not, and who did in  *)
(* one of the two after who did in neither: those go first.                *)
SeenInOrder ==
  \A i, j \in Slots :
    /\ table[i].rnti \in reportedNow /\ table[j].rnti \notin reportedNow => table[j].seen < table[i].seen
    /\ table[i].rnti \in reportedNow \cup recent /\ table[j].rnti \notin reportedNow \cup recent =>
         table[j].seen < table[i].seen

(* The entry's count is not behind the UE's run of periods with a flood.   *)
RunsCounted ==
  /\ flooded \subseteq reportedNow
  /\ \A i \in Slots : /\ table[i].high <=> table[i].rnti \in flooded
                      /\ floodRun[table[i].rnti] <= table[i].consecutive
  /\ \A u \in RNTI : floodRun[u] > 0 => u \in recent

TrackerInv ==
  /\ TrackerTypeOK /\ Dense /\ HistoryTypes
  /\ fits => NobodyLost /\ SeenInOrder /\ RunsCounted
  /\ NewUesExact

\* The table has as many RNTIs as entries.
LEMMA RntisCounted ==
  ASSUME TrackerTypeOK
  PROVE  IsFiniteSet(TrackedRntis) /\ Cardinality(TrackedRntis) = Len(table)
<1> DEFINE R == TrackedRntis
           f == [i \in Slots |-> table[i].rnti]
<1>1. Slots = 1..Len(table) /\ Len(table) \in Nat
  BY SlotsAre
<1>2. IsFiniteSet(Slots) /\ Cardinality(Slots) = Len(table)
  <2>1. \A k \in Nat : IsFiniteSet(1..k) /\ Cardinality(1..k) = k
    <3> TAKE k \in Nat
    <3>1. IsFiniteSet(1..k) /\ Cardinality(1..k) = IF 1 > k THEN 0 ELSE k - 1 + 1
      BY FS_Interval
    <3> QED  BY <3>1
  <2> QED  BY <1>1, <2>1
<1>3. f \in Bijection(Slots, R)
  BY DEF TrackerTypeOK, TrackedRntis, Bijection, Injection, Surjection, IsInjective
<1>4. ExistsBijection(Slots, R)
  BY <1>3 DEF ExistsBijection
<1> HIDE DEF R
<1>5. IsFiniteSet(R) /\ Cardinality(R) = Cardinality(Slots)
  BY <1>2, <1>4, FS_Bijection
<1> QED  BY <1>2, <1>5 DEF R

\* In a table that holds the RNTIs of two periods, the entry taken over is of
\* an RNTI of neither.
LEMMA NotEvicted ==
  ASSUME TrackerInv, fits, NEW u \in RNTI, ~Tracked(u), SlotOf(u) \in Slots,
         Cardinality(recent \cup reportedNow \cup {u}) <= MaxTracked
  PROVE  table[SlotOf(u)].rnti \notin recent \cup reportedNow
<1> DEFINE K == recent \cup reportedNow
<1>1. TrackerTypeOK /\ HistoryTypes /\ NobodyLost /\ SeenInOrder
  BY DEF TrackerInv
<1>2. Len(table) = MaxTracked /\ Len(table) \in Nat
  BY <1>1, SlotsAre, SlotOfIs, TrackerConstants
<1>3. IsFiniteSet(K) /\ K \subseteq TrackedRntis
  BY <1>1, FS_Union DEF HistoryTypes, NobodyLost
<1>4. u \notin K
  BY <1>3 DEF TrackedRntis, Tracked
<1>5. Cardinality(K) < MaxTracked
  <2> HIDE DEF K
  <2>1. Cardinality(K \cup {u}) = Cardinality(K) + 1 /\ Cardinality(K) \in Nat
    BY <1>3, <1>4, FS_AddElement, FS_CardinalityType
  <2>2. Cardinality(K \cup {u}) <= MaxTracked
    BY DEF K
  <2> QED  BY <1>2, <2>1, <2>2
<1>6. PICK i \in Slots : table[i].rnti \notin K
  <2>1. Cardinality(TrackedRntis) = MaxTracked
    BY <1>1, <1>2, RntisCounted
  <2>2. K # TrackedRntis
    <3> HIDE DEF K
    <3>1. ~(MaxTracked < MaxTracked)
      BY <1>2
    <3> QED  BY <1>5, <2>1, <3>1
  <2> QED  BY <1>3, <2>2 DEF TrackedRntis
<1>7. i \in Inactive
  BY <1>1, <1>6 DEF NobodyLost, Inactive
<1>8. /\ SlotOf(u) = OldestInactive
      /\ table[OldestInactive].seen <= table[i].seen
  BY <1>1, <1>2, <1>7, SlotOfIs, OldestIs
<1>9. table[OldestInactive].seen \in Nat /\ table[i].seen \in Nat
  BY <1>1, <1>6, <1>8, SlotsAre, EntryIs DEF Table
<1>10. table[OldestInactive].rnti \in K => table[i].seen < table[OldestInactive].seen
  BY <1>1, <1>6, <1>8 DEF SeenInOrder
<1> QED  BY <1>8, <1>9, <1>10

\* A report is stamped after everybody who has not reported in this period.
LEMMA StampedLast ==
  ASSUME TrackerInv, fits, NEW u \in RNTI, NEW high, NEW sameMs \in BOOLEAN,
         MacUpdate(u, high, sameMs)
  PROVE  \A i \in Slots : table[i].rnti \notin reportedNow => table[i].seen < Stamp(sameMs)
<1>1. Dense /\ NobodyLost /\ SeenInOrder
  BY DEF TrackerInv
<1>2. CASE ~sameMs
  BY <1>1, <1>2 DEF Dense, Stamp
<1>3. CASE sameMs
  <2>1. PICK k \in Slots : table[k].active /\ table[k].seen = Latest - 1
    BY <1>3 DEF MacUpdate
  <2>2. table[k].rnti \in reportedNow
    BY <1>1, <2>1 DEF NobodyLost
  <2> QED  BY <1>1, <1>3, <2>1, <2>2 DEF SeenInOrder, Stamp
<1> QED  BY <1>2, <1>3

LEMMA TrackerInvInit == TrackerObsInit => TrackerInv
<1> SUFFICES ASSUME TrackerObsInit PROVE TrackerInv
  OBVIOUS
<1>1. TrackerTypeOK /\ Dense
  BY TrackerInits DEF TrackerObsInit
<1>2. Slots = {}
  BY DEF TrackerObsInit, TrackerInit, Slots
<1>3. AlertConsecutive \in Nat /\ NewRntiThr \in Nat
  BY TrackerConstants
<1>4. IsFiniteSet({}) /\ Cardinality({}) = 0
  BY FS_EmptySet
<1>5. HistoryTypes
  BY <1>3, <1>4 DEF TrackerObsInit, HistoryTypes
<1>6. NobodyLost /\ SeenInOrder
  BY <1>2 DEF TrackerObsInit, NobodyLost, SeenInOrder, TrackedRntis
<1>7. RunsCounted
  BY <1>2 DEF TrackerObsInit, RunsCounted
<1>8. NewUesExact
  <2>1. reportedNow \ known = {} /\ reportedNow \ recent = {} /\ newUes = 0
    BY DEF TrackerObsInit, TrackerInit
  <2> QED  BY <1>3, <1>4, <2>1 DEF NewUesExact, UpTo
<1> QED  BY <1>1, <1>5, <1>6, <1>7, <1>8 DEF TrackerInv

\* One report in a table that stays large enough.
LEMMA UpdateKeepsHistory ==
  ASSUME TrackerInv, fits, NEW u \in RNTI, NEW high \in BOOLEAN, NEW sameMs \in BOOLEAN,
         ObsUpdate(u, high, sameMs), fits'
  PROVE  NobodyLost' /\ SeenInOrder' /\ RunsCounted'
<1> DEFINE K == recent \cup reportedNow
           n == NextLen(u)
<1>1. /\ TrackerTypeOK /\ Dense /\ HistoryTypes /\ NobodyLost /\ SeenInOrder /\ RunsCounted
      /\ MacUpdate(u, high, sameMs)
      /\ reportedNow' = reportedNow \cup {u} /\ recent' = recent /\ known' = known
      /\ floodRun' = floodRun /\ flooded' = (IF high THEN flooded \cup {u} ELSE flooded)
      /\ Cardinality(recent \cup reportedNow \cup {u}) <= MaxTracked
  BY DEF TrackerInv, ObsUpdate
<1>2. PICK slot : slot = SlotOf(u)
  OBVIOUS
<1>3. PICK stamp : stamp = Stamp(sameMs)
  OBVIOUS
<1>4. /\ Slots' = 1..n /\ slot \in Slots'
      /\ table'[slot].rnti = u /\ table'[slot].active
      /\ table'[slot].high <=> high \/ (Tracked(u) /\ table[slot].high)
      /\ table'[slot].consecutive = IF Tracked(u) THEN table[slot].consecutive ELSE 0
      /\ \A i \in Slots' : i # slot =>
           /\ i \in Slots
           /\ table'[i].rnti = table[i].rnti /\ table'[i].active = table[i].active
           /\ table'[i].high = table[i].high /\ table'[i].consecutive = table[i].consecutive
           /\ table[i].seen < stamp => table'[i].seen < table'[slot].seen
           /\ \A j \in Slots' : j # slot /\ table[i].seen < table[j].seen => table'[i].seen < table'[j].seen
  BY <1>1, <1>2, <1>3, UpdateIs
<1>5. /\ Slots \cup {slot} = 1..n
      /\ Tracked(u) => slot \in Slots /\ table[slot].rnti = u
  BY <1>1, <1>2, SlotOfIs
<1>6. \A i \in Slots' : i # slot => table'[i].rnti # u
  <2>1. TrackerTypeOK'
    BY <1>1, UpdateTypes
  <2> QED  BY <1>4, <2>1 DEF TrackerTypeOK
<1>7. slot \in Slots /\ ~Tracked(u) => table[slot].rnti \notin K
  BY <1>1, <1>2, NotEvicted
<1>8. \A i \in Slots : table[i].rnti \notin reportedNow => table[i].seen < stamp
  BY <1>1, <1>3, StampedLast
<1>9. ~Tracked(u) => u \notin K
  BY <1>1 DEF NobodyLost, TrackedRntis, Tracked
<1> HIDE DEF n
<1>10. NobodyLost'
  <2>1. ASSUME NEW r \in reportedNow' \cup recent' PROVE \E i \in Slots' : table'[i].rnti = r
    <3>1. CASE r = u
      BY <1>4, <3>1
    <3>2. CASE r # u
      <4>1. r \in K
        BY <1>1, <3>2
      <4>2. PICK k \in Slots : table[k].rnti = r
        BY <1>1, <4>1 DEF NobodyLost, TrackedRntis
      <4>3. k # slot
        BY <1>5, <1>7, <3>2, <4>1, <4>2
      <4> QED  BY <1>4, <1>5, <4>2, <4>3
    <3> QED  BY <3>1, <3>2
  <2>2. ASSUME NEW i \in Slots' PROVE table'[i].rnti \in known' \cup reportedNow'
    <3>1. CASE i = slot
      BY <1>1, <1>4, <3>1
    <3>2. CASE i # slot
      <4>1. i \in Slots /\ table'[i].rnti = table[i].rnti
        BY <1>4, <3>2
      <4> QED  BY <1>1, <4>1 DEF NobodyLost, TrackedRntis
    <3> QED  BY <3>1, <3>2
  <2>3. ASSUME NEW i \in Slots' PROVE table'[i].active <=> table'[i].rnti \in reportedNow'
    <3>1. CASE i = slot
      BY <1>1, <1>4, <3>1
    <3>2. CASE i # slot
      <4>1. /\ i \in Slots /\ table'[i].rnti = table[i].rnti /\ table'[i].active = table[i].active
            /\ table'[i].rnti # u
        BY <1>4, <1>6, <3>2
      <4> QED  BY <1>1, <4>1 DEF NobodyLost
    <3> QED  BY <3>1, <3>2
  <2> QED  BY <2>1, <2>2, <2>3 DEF NobodyLost, TrackedRntis
<1>11. SeenInOrder'
  <2> SUFFICES ASSUME NEW i \in Slots', NEW j \in Slots'
               PROVE  /\ table'[i].rnti \in reportedNow' /\ table'[j].rnti \notin reportedNow' =>
                            table'[j].seen < table'[i].seen
                      /\ table'[i].rnti \in reportedNow' \cup recent' /\ table'[j].rnti \notin reportedNow' \cup recent' =>
                            table'[j].seen < table'[i].seen
    BY DEF SeenInOrder
  <2>1. CASE j = slot
    BY <1>1, <1>4, <2>1
  <2>2. CASE j # slot
    <3>1. j \in Slots /\ table'[j].rnti = table[j].rnti /\ table'[j].rnti # u
      BY <1>4, <1>6, <2>2
    <3>2. CASE i = slot
      BY <1>1, <1>4, <1>8, <2>2, <3>1, <3>2
    <3>3. CASE i # slot
      <4>1. i \in Slots /\ table'[i].rnti = table[i].rnti /\ table'[i].rnti # u
        BY <1>4, <1>6, <3>3
      <4>2. table[j].seen < table[i].seen => table'[j].seen < table'[i].seen
        BY <1>4, <2>2, <3>3
      <4>3. /\ table[i].rnti \in reportedNow /\ table[j].rnti \notin reportedNow => table[j].seen < table[i].seen
            /\ table[i].rnti \in reportedNow \cup recent /\ table[j].rnti \notin reportedNow \cup recent =>
                 table[j].seen < table[i].seen
        BY <1>1, <3>1, <4>1 DEF SeenInOrder
      <4> QED  BY <1>1, <3>1, <4>1, <4>2, <4>3
    <3> QED  BY <3>2, <3>3
  <2> QED  BY <2>1, <2>2
<1>12. RunsCounted'
  <2>1. flooded' \subseteq reportedNow'
    BY <1>1 DEF RunsCounted
  <2>2. ASSUME NEW i \in Slots'
        PROVE  (table'[i].high <=> table'[i].rnti \in flooded') /\ floodRun'[table'[i].rnti] <= table'[i].consecutive
    <3>1. CASE i = slot
      <4>1. CASE Tracked(u)
        BY <1>1, <1>4, <1>5, <3>1, <4>1 DEF RunsCounted
      <4>2. CASE ~Tracked(u)
        <5>1. u \notin flooded
          BY <1>1, <1>9, <4>2 DEF RunsCounted
        <5>2. floodRun[u] <= 0
          <6>1. floodRun[u] \in 0..AlertConsecutive /\ AlertConsecutive \in Nat
            BY <1>1, TrackerConstants DEF HistoryTypes
          <6>2. ~(floodRun[u] > 0)
            BY <1>1, <1>9, <4>2 DEF RunsCounted
          <6> QED  BY <6>1, <6>2
        <5> QED  BY <1>1, <1>4, <3>1, <4>2, <5>1, <5>2
      <4> QED  BY <4>1, <4>2
    <3>2. CASE i # slot
      <4>1. /\ i \in Slots /\ table'[i].rnti = table[i].rnti /\ table'[i].rnti # u
            /\ table'[i].high = table[i].high /\ table'[i].consecutive = table[i].consecutive
        BY <1>4, <1>6, <3>2
      <4>2. table[i].high <=> table[i].rnti \in flooded
        BY <1>1, <4>1 DEF RunsCounted
      <4>3. floodRun[table[i].rnti] <= table[i].consecutive
        BY <1>1, <4>1 DEF RunsCounted
      <4> QED  BY <1>1, <4>1, <4>2, <4>3
    <3> QED  BY <3>1, <3>2
  <2>3. \A r \in RNTI : floodRun'[r] > 0 => r \in recent'
    BY <1>1 DEF RunsCounted
  <2> QED  BY <2>1, <2>2, <2>3 DEF RunsCounted
<1> QED  BY <1>10, <1>11, <1>12

\* A count one higher needs no more than one more.
LEMMA UpToMonotone ==
  ASSUME NEW cap \in Nat, NEW m \in Nat, NEW n \in Nat
  PROVE  /\ m <= n => UpTo(cap, m) <= UpTo(cap, n)
         /\ n >= UpTo(cap, m) => UpTo(cap, n + 1) >= UpTo(cap, m + 1)
BY DEF UpTo

LEMMA HistoryTypesStep ==
  ASSUME TrackerInv, [TrackerObsNext]_trackerObsVars
  PROVE  HistoryTypes'
<1>1. HistoryTypes /\ TrackerTypeOK
  BY DEF TrackerInv
<1>2. AlertConsecutive \in Nat
  BY TrackerConstants
<1>3. IsFiniteSet({})
  BY FS_EmptySet
<1>4. ASSUME NEW u \in RNTI, NEW high \in BOOLEAN, NEW sameMs \in BOOLEAN,
             ObsUpdate(u, high, sameMs)
      PROVE  HistoryTypes'
  <2>1. IsFiniteSet(reportedNow \cup {u})
    BY <1>1, FS_AddElement DEF HistoryTypes
  <2> QED  BY <1>1, <1>4, <2>1 DEF HistoryTypes, ObsUpdate
<1>5. ASSUME fits, ObsFlush PROVE HistoryTypes'
  <2>1. {table[i].rnti : i \in Slots} \subseteq RNTI
    BY <1>1, SlotsAre, EntryIs DEF Table
  <2>2. \A u \in RNTI : UpTo(AlertConsecutive, floodRun[u] + 1) \in 0..AlertConsecutive
    <3> TAKE u \in RNTI
    <3>1. floodRun[u] \in 0..AlertConsecutive
      BY <1>1 DEF HistoryTypes
    <3>2. floodRun[u] + 1 \in Nat
      BY <1>2, <3>1
    <3> QED  BY <1>2, <3>2, UpToType
  <2>3. floodRun' \in [RNTI -> 0..AlertConsecutive]
    BY <1>2, <1>5, <2>2 DEF ObsFlush
  <2> QED  BY <1>1, <1>3, <1>5, <2>1, <2>3 DEF HistoryTypes, ObsFlush
<1>6. ASSUME Crowded PROVE HistoryTypes'
  BY <1>1, <1>2, <1>3, <1>6 DEF HistoryTypes, Crowded
<1>7. ASSUME UNCHANGED trackerObsVars PROVE HistoryTypes'
  BY <1>1, <1>7 DEF HistoryTypes, trackerObsVars, cellHistory
<1> QED  BY <1>4, <1>5, <1>6, <1>7 DEF TrackerObsNext

LEMMA UpdateCountsNew ==
  ASSUME TrackerInv, fits, NEW u \in RNTI, NEW high \in BOOLEAN, NEW sameMs \in BOOLEAN,
         ObsUpdate(u, high, sameMs)
  PROVE  NewUesExact'
<1> DEFINE missed == reportedNow \ known
           fresh == reportedNow \ recent
<1>1. /\ TrackerTypeOK /\ HistoryTypes /\ NobodyLost /\ NewUesExact
      /\ reportedNow' = reportedNow \cup {u} /\ recent' = recent /\ known' = known
      /\ newUes' = IF Tracked(u) THEN newUes ELSE UpTo(NewRntiThr, newUes + 1)
  BY DEF TrackerInv, ObsUpdate, MacUpdate
<1>2. newUes \in Nat /\ NewRntiThr \in Nat
  BY <1>1, TrackerConstants DEF TrackerTypeOK
<1>3. IsFiniteSet(missed) /\ IsFiniteSet(fresh)
  BY <1>1, FS_Difference DEF HistoryTypes
<1>4. Cardinality(missed) \in Nat /\ Cardinality(fresh) \in Nat
  BY <1>3, FS_CardinalityType
<1>5. newUes >= UpTo(NewRntiThr, Cardinality(missed)) /\ newUes <= Cardinality(fresh)
  BY <1>1 DEF NewUesExact
<1>6. CASE Tracked(u)
  <2>1. u \in known \/ u \in reportedNow
    BY <1>1, <1>6 DEF NobodyLost, TrackedRntis, Tracked
  <2>2. reportedNow' \ known' = missed
    BY <1>1, <2>1
  <2>3. IsFiniteSet(fresh \cup {u}) /\ Cardinality(fresh) <= Cardinality(fresh \cup {u})
    BY <1>3, FS_AddElement, FS_Subset
  <2>4. reportedNow' \ recent' = fresh \/ reportedNow' \ recent' = fresh \cup {u}
    BY <1>1
  <2>5. newUes <= Cardinality(reportedNow' \ recent')
    <3> HIDE DEF fresh
    <3>1. Cardinality(fresh \cup {u}) \in Nat
      BY <2>3, FS_CardinalityType
    <3>2. newUes <= Cardinality(fresh \cup {u})
      BY <1>2, <1>4, <1>5, <2>3, <3>1
    <3> QED  BY <1>5, <2>4, <3>2
  <2> QED  BY <1>1, <1>5, <1>6, <2>2, <2>5 DEF NewUesExact
<1>7. CASE ~Tracked(u)
  <2>1. u \notin reportedNow /\ u \notin recent
    BY <1>1, <1>7 DEF NobodyLost, TrackedRntis, Tracked
  <2>2. newUes' = UpTo(NewRntiThr, newUes + 1)
    BY <1>1, <1>7
  <2>3. reportedNow' \ recent' = fresh \cup {u} /\ u \notin fresh
    BY <1>1, <2>1
  <2>4. Cardinality(reportedNow' \ recent') = Cardinality(fresh) + 1
    <3> HIDE DEF fresh
    <3> QED  BY <1>3, <2>3, FS_AddElement
  <2>5. newUes' <= Cardinality(reportedNow' \ recent')
    <3>1. newUes' <= newUes + 1
      BY <1>2, <2>2, UpToType
    <3>2. newUes' \in 0..NewRntiThr
      BY <1>2, <2>2, UpToType
    <3> HIDE DEF fresh
    <3> QED  BY <1>2, <1>4, <1>5, <2>4, <3>1, <3>2
  <2>6. newUes' >= UpTo(NewRntiThr, Cardinality(reportedNow' \ known'))
    <3>1. newUes' >= UpTo(NewRntiThr, Cardinality(missed) + 1)
      BY <1>2, <1>4, <1>5, <2>2, UpToMonotone
    <3>2. CASE u \in known
      <4>1. reportedNow' \ known' = missed
        BY <1>1, <3>2
      <4>2. UpTo(NewRntiThr, Cardinality(missed)) <= UpTo(NewRntiThr, Cardinality(missed) + 1)
        <5>1. Cardinality(missed) + 1 \in Nat /\ Cardinality(missed) <= Cardinality(missed) + 1
          BY <1>4
        <5> QED  BY <1>2, <1>4, <5>1, UpToMonotone
      <4>3. /\ UpTo(NewRntiThr, Cardinality(missed)) \in 0..NewRntiThr
            /\ UpTo(NewRntiThr, Cardinality(missed) + 1) \in 0..NewRntiThr
            /\ newUes' \in 0..NewRntiThr
        <5>1. Cardinality(missed) + 1 \in Nat /\ newUes + 1 \in Nat
          BY <1>2, <1>4
        <5> HIDE DEF missed
        <5> QED  BY <1>2, <1>4, <2>2, <5>1, UpToType
      <4> HIDE DEF missed
      <4> QED  BY <1>2, <3>1, <4>1, <4>2, <4>3
    <3>3. CASE u \notin known
      <4>1. reportedNow' \ known' = missed \cup {u} /\ u \notin missed
        BY <1>1, <2>1, <3>3
      <4> HIDE DEF missed
      <4>2. Cardinality(reportedNow' \ known') = Cardinality(missed) + 1
        BY <1>3, <4>1, FS_AddElement
      <4> QED  BY <3>1, <4>2
    <3> QED  BY <3>2, <3>3
  <2> QED  BY <2>5, <2>6 DEF NewUesExact
<1> QED  BY <1>6, <1>7

LEMMA FlushKeepsHistory ==
  ASSUME TrackerInv, fits, ObsFlush
  PROVE  NobodyLost' /\ SeenInOrder' /\ RunsCounted' /\ NewUesExact'
<1>1. /\ TrackerTypeOK /\ HistoryTypes /\ NobodyLost /\ SeenInOrder /\ RunsCounted /\ Flush
      /\ reportedNow' = {} /\ recent' = reportedNow /\ flooded' = {} /\ known' = TrackedRntis
      /\ floodRun' = [r \in RNTI |->
           IF r \in flooded THEN UpTo(AlertConsecutive, floodRun[r] + 1) ELSE 0]
  BY DEF TrackerInv, ObsFlush, TrackedRntis
<1>2. /\ Slots' = Slots
      /\ \A i \in Slots : /\ table[i] \in UeEntry
                          /\ table'[i].rnti = table[i].rnti /\ table'[i].seen = table[i].seen
                          /\ ~table'[i].active
                          /\ table[i].active => ~table'[i].high /\ table'[i].consecutive = Consecutive(table[i])
                          /\ ~table[i].active => table'[i] = table[i]
  BY <1>1, FlushIs
<1>3. NobodyLost'
  <2>1. TrackedRntis' = TrackedRntis
    BY <1>2 DEF TrackedRntis
  <2> QED  BY <1>1, <1>2, <2>1 DEF NobodyLost
<1>4. SeenInOrder'
  BY <1>1, <1>2 DEF SeenInOrder
<1>5. RunsCounted'
  <2>1. ASSUME NEW i \in Slots
        PROVE  ~table'[i].high /\ floodRun'[table'[i].rnti] <= table'[i].consecutive
    <3>1. /\ table[i].rnti \in RNTI /\ table[i].consecutive \in 0..AlertConsecutive
          /\ AlertConsecutive \in Nat /\ table'[i].rnti = table[i].rnti
      BY <1>2, EntryIs, TrackerConstants
    <3>2. /\ table[i].high <=> table[i].rnti \in flooded
          /\ floodRun[table[i].rnti] <= table[i].consecutive
          /\ table[i].active <=> table[i].rnti \in reportedNow
          /\ flooded \subseteq reportedNow
      BY <1>1 DEF RunsCounted, NobodyLost
    <3>3. CASE table[i].rnti \in flooded
      <4>1. table[i].active /\ table[i].high
        BY <3>2, <3>3
      <4>2. ~table'[i].high /\ table'[i].consecutive = UpTo(AlertConsecutive, table[i].consecutive + 1)
        BY <1>2, <4>1 DEF Consecutive, Flooding
      <4>3. floodRun'[table[i].rnti] = UpTo(AlertConsecutive, floodRun[table[i].rnti] + 1)
        BY <1>1, <3>1, <3>3
      <4>4. floodRun[table[i].rnti] \in 0..AlertConsecutive
        BY <1>1, <3>1 DEF HistoryTypes
      <4>5. floodRun[table[i].rnti] + 1 \in Nat /\ table[i].consecutive + 1 \in Nat
            /\ floodRun[table[i].rnti] + 1 <= table[i].consecutive + 1
        BY <3>1, <3>2, <4>4
      <4> QED  BY <3>1, <4>2, <4>3, <4>5, UpToMonotone
    <3>4. CASE table[i].rnti \notin flooded
      <4>1. floodRun'[table'[i].rnti] = 0
        BY <1>1, <3>1, <3>4
      <4>2. ~table'[i].high
        BY <1>2, <3>2, <3>4
      <4>3. table'[i].consecutive \in 0..AlertConsecutive
        <5>1. TrackerTypeOK'
          BY <1>1, FlushTypes DEF TrackerInv
        <5>2. table'[i] \in UeEntry
          BY <1>2, <5>1 DEF TrackerTypeOK, Slots
        <5> QED  BY <5>2, EntryIs
      <4> QED  BY <3>1, <4>1, <4>2, <4>3
    <3> QED  BY <3>3, <3>4
  <2>2. \A r \in RNTI : floodRun'[r] > 0 => r \in recent'
    BY <1>1 DEF RunsCounted
  <2> QED  BY <1>1, <1>2, <2>1, <2>2 DEF RunsCounted
<1>6. NewUesExact'
  <2>1. newUes' = 0 /\ reportedNow' \ known' = {} /\ reportedNow' \ recent' = {}
    BY <1>1 DEF Flush
  <2>2. Cardinality({}) = 0 /\ NewRntiThr \in Nat
    BY FS_EmptySet, TrackerConstants
  <2> QED  BY <2>1, <2>2 DEF NewUesExact, UpTo
<1> QED  BY <1>3, <1>4, <1>5, <1>6

LEMMA TrackerInvStep == TrackerInv /\ [TrackerObsNext]_trackerObsVars => TrackerInv'
<1> SUFFICES ASSUME TrackerInv, [TrackerObsNext]_trackerObsVars PROVE TrackerInv'
  OBVIOUS
<1>1. HistoryTypes'
  BY HistoryTypesStep
<1>2. TrackerTypeOK' /\ Dense'
  <2>1. TrackerTypeOK /\ Dense
    BY DEF TrackerInv
  <2>2. [TrackerNext]_trackerVars
    BY DEF TrackerObsNext, trackerObsVars, ObsUpdate, ObsFlush, Crowded, TrackerNext
  <2> QED  BY <2>1, <2>2, TrackerStep
<1>3. ASSUME fits, NEW u \in RNTI, NEW high \in BOOLEAN, NEW sameMs \in BOOLEAN,
             ObsUpdate(u, high, sameMs)
      PROVE  TrackerInv'
  BY <1>1, <1>2, <1>3, UpdateKeepsHistory, UpdateCountsNew DEF TrackerInv
<1>4. ASSUME fits, ObsFlush PROVE TrackerInv'
  BY <1>1, <1>2, <1>4, FlushKeepsHistory DEF TrackerInv
<1>5. ASSUME Crowded PROVE TrackerInv'
  <2>1. ~fits'
    BY <1>5 DEF Crowded
  <2> QED  BY <1>1, <1>2, <2>1 DEF TrackerInv, NewUesExact
<1>6. ASSUME UNCHANGED trackerObsVars PROVE TrackerInv'
  <2>1. /\ table' = table /\ newUes' = newUes /\ fits' = fits /\ reportedNow' = reportedNow
        /\ recent' = recent /\ flooded' = flooded /\ known' = known /\ floodRun' = floodRun
        /\ Slots' = Slots
    BY <1>6 DEF trackerObsVars, trackerVars, cellHistory, Slots
  <2> QED  BY <1>1, <1>2, <2>1
           DEF TrackerInv, NobodyLost, TrackedRntis, SeenInOrder, RunsCounted, NewUesExact
<1> QED  BY <1>3, <1>4, <1>5, <1>6 DEF TrackerObsNext

LEMMA TrackerInvAlways == TrackerObsSpec => []TrackerInv
BY TrackerInvInit, TrackerInvStep, PTL DEF TrackerObsSpec

\* The RRC FLOOD count takes every RNTI that was not tracked when the period
\* began and no RNTI that reported in the period before, whatever the churn
\* (ue_tracker_mac_update).
THEOREM NewUesCounted == TrackerObsSpec => []NewUesExact
<1>1. TrackerInv => NewUesExact
  BY DEF TrackerInv
<1> QED  BY <1>1, TrackerInvAlways, PTL

\* A UE that floods in AlertConsecutive periods in a row is reported at the
\* end of each from then on: the reports of other RNTIs never evict it and so
\* restart its count (find_slot, ue_tracker_flush).
THEOREM LastingFloodReported == TrackerObsSpec => FloodReported
<1>1. ASSUME TrackerInv, fits, ObsFlush, NEW u \in RNTI, floodRun'[u] >= AlertConsecutive
      PROVE  <<"FLOOD", u>> \in raised'
  <2>1. /\ TrackerTypeOK /\ HistoryTypes /\ NobodyLost /\ RunsCounted
        /\ AlertConsecutive \in Nat /\ AlertConsecutive > 0
    BY <1>1, TrackerConstants DEF TrackerInv
  <2>2. floodRun'[u] = IF u \in flooded THEN UpTo(AlertConsecutive, floodRun[u] + 1) ELSE 0
    BY <1>1 DEF ObsFlush
  <2>3. u \in flooded
    BY <1>1, <2>1, <2>2
  <2>4. PICK i \in Slots : table[i].rnti = u
    BY <2>1, <2>3 DEF RunsCounted, NobodyLost, TrackedRntis
  <2>5. Flooding(table[i]) /\ floodRun[u] <= table[i].consecutive
    BY <2>1, <2>3, <2>4 DEF RunsCounted, NobodyLost, Flooding
  <2>6. Consecutive(table[i]) >= AlertConsecutive
    <3>1. Consecutive(table[i]) = UpTo(AlertConsecutive, table[i].consecutive + 1)
      BY <2>5 DEF Consecutive
    <3>2. UpTo(AlertConsecutive, floodRun[u] + 1) >= AlertConsecutive
      BY <1>1, <2>2, <2>3
    <3>3. floodRun[u] \in 0..AlertConsecutive
      BY <2>1 DEF HistoryTypes
    <3>4. table[i].consecutive \in 0..AlertConsecutive
      BY <2>1, <2>4, SlotsAre, EntryIs DEF Table
    <3> QED  BY <2>1, <2>5, <3>1, <3>2, <3>3, <3>4 DEF UpTo
  <2>7. <<"FLOOD", u>> \in FloodAlerts
    BY <2>4, <2>5, <2>6 DEF FloodAlerts
  <2> QED  BY <1>1, <2>7 DEF ObsFlush, Flush
<1>2. TrackerInv /\ [TrackerObsNext]_trackerObsVars =>
        [fits /\ ObsFlush => \A u \in RNTI : floodRun'[u] >= AlertConsecutive =>
           <<"FLOOD", u>> \in raised']_trackerObsVars
  BY <1>1
<1> QED  BY <1>2, TrackerInvAlways, PTL DEF TrackerObsSpec, FloodReported

================================================================================
