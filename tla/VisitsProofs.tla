----------------------------- MODULE VisitsProofs -----------------------------
(* A visit keeps what its plan promised, for any number of professionals,      *)
(* services, transactions and edits, any buffer and any day: first what the    *)
(* parts of a plan take over from its items, then the transactions, whose      *)
(* locks keep the day of their professionals as the plan saw it.               *)
EXTENDS Visits, FiniteSetTheorems, TLAPS

-----------------------------------------------------------------------------
(* Least and greatest elements.                                                *)

LEMMA LeastOf ==
  ASSUME NEW S \in SUBSET Nat, S # {}
  PROVE  Min(S) \in S /\ \A y \in S : Min(S) <= y
<1> DEFINE R == OpToRel(<, Nat)
<1>1. IsWellFoundedOn(R, Nat)
  BY NatLessThanWellFounded
<1>2. \E x \in S : \A y \in S : ~ (<<y, x>> \in R)
  <2> HIDE DEF R
  <2> QED BY <1>1, WFMin
<1>3. PICK x \in S : \A y \in S : ~ (<<y, x>> \in R)
  BY <1>2
<1>4. \A y \in S : ~ (y < x)
  BY <1>3 DEF OpToRel
<1>5. \A y \in S : x <= y
  BY <1>4
<1> QED BY <1>5 DEF Min

LEMMA GreatestOf ==
  ASSUME NEW N \in Nat, NEW S \in SUBSET (0..N), S # {}
  PROVE  Max(S) \in S /\ \A y \in S : Max(S) >= y
<1> DEFINE T == {N - s : s \in S}
<1>1. T \in SUBSET Nat /\ T # {}
  <2>1. \A s \in S : N - s \in Nat
    <3> SUFFICES ASSUME NEW s \in S PROVE N - s \in Nat
      OBVIOUS
    <3>1. s \in Nat /\ s <= N
      OBVIOUS
    <3> QED BY <3>1
  <2> QED BY <2>1
<1>2. Min(T) \in T /\ \A y \in T : Min(T) <= y
  <2> HIDE DEF T
  <2> QED BY <1>1, LeastOf
<1>3. PICK x \in S : Min(T) = N - x
  BY <1>2
<1>4. \A y \in S : x >= y
  <2> SUFFICES ASSUME NEW y \in S PROVE x >= y
    OBVIOUS
  <2>1. N - y \in T
    OBVIOUS
  <2>2. Min(T) <= N - y
    <3> HIDE DEF T
    <3> QED BY <1>2, <2>1
  <2>3. N - x <= N - y
    BY <1>3, <2>2
  <2>4. x \in Nat /\ y \in Nat
    OBVIOUS
  <2> QED BY <2>3, <2>4
<1> QED BY <1>4 DEF Max

-----------------------------------------------------------------------------
(* The runs of a plan.                                                         *)

LEMMA PartOfStep ==
  ASSUME NEW items, NEW i \in Nat
  PROVE  /\ PartOf(items, i) \in Nat
         /\ PartOf(items, 0) = 0
         /\ PartOf(items, i + 1) = IF GoesOn(items, i + 1) THEN PartOf(items, i) ELSE PartOf(items, i) + 1
<1> DEFINE B(k) == {h \in 1..k : ~GoesOn(items, h)}
<1>1. \A k \in Nat : IsFiniteSet(B(k)) /\ Cardinality(B(k)) \in Nat
  <2> SUFFICES ASSUME NEW k \in Nat PROVE IsFiniteSet(B(k)) /\ Cardinality(B(k)) \in Nat
    OBVIOUS
  <2>1. 1 \in Int /\ k \in Int
    OBVIOUS
  <2>2. IsFiniteSet(1..k)
    BY <2>1, FS_Interval
  <2>3. B(k) \in SUBSET (1..k)
    OBVIOUS
  <2> HIDE DEF B
  <2>4. IsFiniteSet(B(k))
    BY <2>2, <2>3, FS_Subset
  <2> QED BY <2>4, FS_CardinalityType
<1>2. B(0) = {}
  OBVIOUS
<1>3. Cardinality(B(0)) = 0
  BY <1>2, FS_EmptySet
<1>4. B(i + 1) = IF GoesOn(items, i + 1) THEN B(i) ELSE B(i) \cup {i + 1}
  <2>1. 1..(i + 1) = (1..i) \cup {i + 1}
    OBVIOUS
  <2> QED BY <2>1
<1>5. i + 1 \notin B(i)
  OBVIOUS
<1>6. Cardinality(B(i) \cup {i + 1}) = IF i + 1 \in B(i) THEN Cardinality(B(i)) ELSE Cardinality(B(i)) + 1
  <2>1. IsFiniteSet(B(i))
    BY <1>1
  <2> HIDE DEF B
  <2> QED BY <2>1, FS_AddElement
<1>7. Cardinality(B(i + 1)) = IF GoesOn(items, i + 1) THEN Cardinality(B(i)) ELSE Cardinality(B(i)) + 1
  <2> HIDE DEF B
  <2> QED BY <1>4, <1>5, <1>6
<1> QED BY <1>1, <1>3, <1>7 DEF PartOf

LEMMA PartOfOrder ==
  ASSUME NEW items, NEW i \in Nat, NEW j \in Nat, i <= j
  PROVE  /\ PartOf(items, i) <= PartOf(items, j)
         /\ PartOf(items, i) = PartOf(items, j) <=> \A h \in (i + 1)..j : GoesOn(items, h)
<1> DEFINE B(k) == {h \in 1..k : ~GoesOn(items, h)}
           S == B(i)
           T == B(j)
<1>1. S \in SUBSET T /\ T \in SUBSET (1..j)
  OBVIOUS
<1>2. S = T <=> \A h \in (i + 1)..j : GoesOn(items, h)
  OBVIOUS
<1>3. IsFiniteSet(1..j)
  <2>1. 1 \in Int /\ j \in Int
    OBVIOUS
  <2> QED BY <2>1, FS_Interval
<1>4. PartOf(items, i) = Cardinality(S) /\ PartOf(items, j) = Cardinality(T)
  BY DEF PartOf
<1> HIDE DEF S, T
<1>5. IsFiniteSet(T)
  BY <1>1, <1>3, FS_Subset
<1>6. /\ IsFiniteSet(S)
      /\ Cardinality(S) <= Cardinality(T)
      /\ Cardinality(T) = Cardinality(S) => T = S
  BY <1>1, <1>5, FS_Subset
<1> QED BY <1>2, <1>4, <1>6

LEMMA EveryPart ==
  ASSUME NEW items \in Seq(Slot), NEW n \in 1..PartOf(items, Len(items))
  PROVE  Members(items, n) # {}
<1> DEFINE N == Len(items)
           S == {h \in 1..N : PartOf(items, h) >= n}
<1>1. N \in Nat /\ DOMAIN items = 1..N
  OBVIOUS
<1>2. PartOf(items, N) \in Nat /\ PartOf(items, 0) = 0
  BY <1>1, PartOfStep
<1>3. N \in S
  BY <1>1, <1>2
<1>4. S \in SUBSET Nat /\ S # {}
  BY <1>1, <1>3
<1> DEFINE m == Min(S)
<1>5. m \in S /\ \A y \in S : m <= y
  <2> HIDE DEF S
  <2> QED BY <1>4, LeastOf
<1> DEFINE k == m - 1
<1>6. m \in 1..N /\ k \in Nat /\ k + 1 = m /\ k < m
  BY <1>1, <1>5
<1>7. PartOf(items, m) >= n
  BY <1>5
<1>8. k \notin S
  BY <1>5, <1>6
<1> HIDE DEF m, k, S
<1>9. /\ PartOf(items, k) \in Nat
      /\ PartOf(items, k + 1) = IF GoesOn(items, k + 1) THEN PartOf(items, k) ELSE PartOf(items, k) + 1
  BY <1>6, PartOfStep
<1>10. PartOf(items, k) < n
  <2>1. CASE k = 0
    BY <2>1, <1>2
  <2>2. CASE k # 0
    BY <2>2, <1>1, <1>6, <1>8, <1>9 DEF S
  <2> QED BY <2>1, <2>2
<1>11. PartOf(items, m) = n
  BY <1>2, <1>6, <1>7, <1>9, <1>10
<1> QED BY <1>1, <1>6, <1>11 DEF Members

\* The members of a part are the items of one unbroken run.
LEMMA RunOf ==
  ASSUME NEW items \in Seq(Slot), NEW n \in 1..PartOf(items, Len(items))
  PROVE  /\ Min(Members(items, n)) \in 1..Len(items) /\ Max(Members(items, n)) \in 1..Len(items)
         /\ Min(Members(items, n)) <= Max(Members(items, n))
         /\ Members(items, n) = Min(Members(items, n))..Max(Members(items, n))
         /\ \A h \in (Min(Members(items, n)) + 1)..Max(Members(items, n)) : GoesOn(items, h)
<1> DEFINE M == Members(items, n)
           N == Len(items)
           lo == Min(M)
           hi == Max(M)
<1>1. N \in Nat /\ DOMAIN items = 1..N
  OBVIOUS
<1>2. M # {}
  BY EveryPart
<1>3. M \in SUBSET (1..N)
  BY <1>1 DEF Members
<1>4. M \in SUBSET Nat /\ M \in SUBSET (0..N)
  BY <1>1, <1>3
<1>5. lo \in M /\ \A y \in M : lo <= y
  <2> HIDE DEF M
  <2> QED BY <1>2, <1>4, LeastOf
<1>6. hi \in M /\ \A y \in M : hi >= y
  <2> HIDE DEF M, N
  <2> QED BY <1>1, <1>2, <1>4, GreatestOf
<1>7. PartOf(items, lo) = n /\ PartOf(items, hi) = n
  BY <1>5, <1>6 DEF Members
<1>8. lo \in 1..N /\ hi \in 1..N /\ lo <= hi /\ lo \in Nat /\ hi \in Nat
  BY <1>1, <1>3, <1>5, <1>6
<1> HIDE DEF lo, hi, M, N
<1>9. \A h \in (lo + 1)..hi : GoesOn(items, h)
  BY <1>7, <1>8, PartOfOrder
<1>10. \A h \in lo..hi : h \in M
  <2> SUFFICES ASSUME NEW h \in lo..hi PROVE h \in M
    OBVIOUS
  <2>1. h \in Nat /\ lo <= h /\ h \in 1..N
    BY <1>1, <1>8
  <2>2. \A g \in (lo + 1)..h : GoesOn(items, g)
    BY <1>8, <1>9, <2>1
  <2>3. PartOf(items, lo) = PartOf(items, h)
    BY <1>8, <2>1, <2>2, PartOfOrder
  <2> QED BY <1>1, <1>7, <2>1, <2>3 DEF M, Members
<1>11. M = lo..hi
  <2>1. \A y \in M : y \in lo..hi
    BY <1>1, <1>3, <1>5, <1>6, <1>8
  <2> QED BY <1>10, <2>1
<1> QED BY <1>8, <1>9, <1>11 DEF M, N, lo, hi

LEMMA SlotType ==
  ASSUME NEW a \in Slot
  PROVE  /\ a.pro \in Stylists /\ a.from \in Nat /\ a.to \in Nat /\ a.from < a.to
         /\ a.from \in 0..DayEnd /\ a.to \in 1..DayEnd /\ a.rooms \in SUBSET Rooms
BY VisitsAssumption DEF Slot

\* Along a run the professional stays and the time goes on without a hole.
LEMMA ChainRun ==
  ASSUME NEW items \in Seq(Slot), NEW lo \in 1..Len(items), NEW hi \in 1..Len(items), lo <= hi,
         \A h \in (lo + 1)..hi : GoesOn(items, h)
  PROVE  /\ \A i \in lo..hi : items[i].pro = items[lo].pro /\ items[lo].from <= items[i].from
         /\ \A u \in items[lo].from..(items[hi].to - 1) : \E i \in lo..hi : u \in Covered(items[i])
<1> DEFINE N == Len(items)
           bad == {i \in lo..hi : ~(items[i].pro = items[lo].pro /\ items[lo].from <= items[i].from)}
<1>1. N \in Nat /\ \A i \in 1..N : items[i] \in Slot
  OBVIOUS
<1>2. \A i \in lo..hi : items[i].from \in Nat /\ items[i].to \in Nat /\ items[i].from < items[i].to
  <2> HIDE DEF N
  <2> QED BY <1>1, SlotType DEF N
<1>3. \A i \in (lo + 1)..hi : i - 1 \in lo..hi /\ items[i - 1].pro = items[i].pro /\ items[i - 1].to = items[i].from
  BY DEF GoesOn
<1>4. bad = {}
  <2> SUFFICES ASSUME bad # {} PROVE FALSE
    OBVIOUS
  <2>1. bad \in SUBSET Nat
    OBVIOUS
  <2> DEFINE m == Min(bad)
  <2>2. m \in bad /\ \A y \in bad : m <= y
    <3> HIDE DEF bad
    <3> QED BY <2>1, LeastOf
  <2> HIDE DEF m
  <2>3. m \in lo..hi /\ ~(items[m].pro = items[lo].pro /\ items[lo].from <= items[m].from)
    BY <2>2
  <2>4. m # lo
    BY <2>3, <1>2
  <2>5. m \in (lo + 1)..hi
    BY <2>3, <2>4
  <2>6. m - 1 \in lo..hi /\ items[m - 1].pro = items[m].pro /\ items[m - 1].to = items[m].from
    BY <1>3, <2>5
  <2>7. m - 1 \notin bad
    <3> HIDE DEF bad
    <3> QED BY <2>2, <2>3
  <2>8. items[m - 1].pro = items[lo].pro /\ items[lo].from <= items[m - 1].from
    BY <2>6, <2>7
  <2>9. items[m - 1].from < items[m].from /\ items[m - 1].from \in Nat /\ items[m].from \in Nat /\ items[lo].from \in Nat
    BY <1>2, <2>3, <2>6
  <2> QED BY <2>3, <2>6, <2>8, <2>9
<1>5. \A u \in items[lo].from..(items[hi].to - 1) : \E i \in lo..hi : u \in Covered(items[i])
  <2> SUFFICES ASSUME NEW u \in items[lo].from..(items[hi].to - 1)
               PROVE  \E i \in lo..hi : u \in Covered(items[i])
    OBVIOUS
  <2> DEFINE S == {i \in lo..hi : items[i].from <= u}
  <2>0. lo \in lo..hi /\ hi \in lo..hi /\ lo \in Nat /\ hi \in Nat
    OBVIOUS
  <2>1. u \in Int /\ items[lo].from <= u /\ u < items[hi].to
    BY <1>2, <2>0
  <2>2. lo \in S /\ S \in SUBSET (0..hi) /\ S # {}
    BY <2>0, <2>1
  <2> DEFINE m == Max(S)
  <2>3. m \in S /\ \A y \in S : m >= y
    <3> HIDE DEF S
    <3> QED BY <2>0, <2>2, GreatestOf
  <2> HIDE DEF m
  <2>4. m \in lo..hi /\ items[m].from <= u
    BY <2>3
  <2>5. u < items[m].to
    <3>1. CASE m = hi
      BY <3>1, <2>1
    <3>2. CASE m # hi
      <4>1. m + 1 \in (lo + 1)..hi /\ m + 1 \in lo..hi /\ (m + 1) - 1 = m /\ ~(m >= m + 1)
        BY <3>2, <2>4
      <4>2. m + 1 \notin S
        <5> HIDE DEF S
        <5> QED BY <2>3, <4>1
      <4>3. ~(items[m + 1].from <= u)
        BY <4>1, <4>2
      <4>4. items[m].to = items[m + 1].from
        BY <1>3, <4>1
      <4>5. items[m + 1].from \in Nat
        BY <1>2, <4>1
      <4> QED BY <2>1, <4>3, <4>4, <4>5
    <3> QED BY <3>1, <3>2
  <2>6. items[m].from \in Nat /\ items[m].to \in Nat
    BY <1>2, <2>4
  <2>7. u \in Covered(items[m])
    BY <2>1, <2>4, <2>5, <2>6 DEF Covered
  <2> QED BY <2>4, <2>7
<1>6. \A i \in lo..hi : items[i].pro = items[lo].pro /\ items[lo].from <= items[i].from
  BY <1>4
<1> QED BY <1>5, <1>6

\* Every part is a slot of one professional, and at every moment of it one of
\* its items is under way.
LEMMA PartCovered ==
  ASSUME NEW items \in Seq(Slot), NEW n \in 1..PartOf(items, Len(items))
  PROVE  /\ Parts(items)[n] \in Slot
         /\ \A u \in Covered(Parts(items)[n]) : \E i \in Members(items, n) :
                u \in Covered(items[i]) /\ items[i].pro = Parts(items)[n].pro
<1> DEFINE M == Members(items, n)
           lo == Min(M)
           hi == Max(M)
           rooms == UNION {items[i].rooms : i \in M}
           part == [pro |-> items[lo].pro, from |-> items[lo].from, to |-> items[hi].to, rooms |-> rooms]
<1>1. Parts(items)[n] = part
  BY DEF Parts
<1>2. /\ lo \in 1..Len(items) /\ hi \in 1..Len(items) /\ lo <= hi /\ M = lo..hi
      /\ \A h \in (lo + 1)..hi : GoesOn(items, h)
  BY RunOf
<1> HIDE DEF lo, hi
<1>3. /\ \A i \in lo..hi : items[i].pro = items[lo].pro /\ items[lo].from <= items[i].from
      /\ \A u \in items[lo].from..(items[hi].to - 1) : \E i \in lo..hi : u \in Covered(items[i])
  BY <1>2, ChainRun
<1>4. \A i \in lo..hi : items[i] \in Slot
  BY <1>2
<1>5. lo \in lo..hi /\ hi \in lo..hi
  BY <1>2
<1>6. rooms \in SUBSET Rooms
  <2>1. \A i \in M : items[i].rooms \in SUBSET Rooms
    BY <1>2, <1>4, SlotType
  <2> HIDE DEF M
  <2> QED BY <2>1
<1>7. /\ items[lo].pro \in Stylists /\ items[lo].from \in 0..DayEnd /\ items[hi].to \in 1..DayEnd
      /\ items[lo].from < items[hi].to
  <2>1. items[lo] \in Slot /\ items[hi] \in Slot
    BY <1>4, <1>5
  <2>2. /\ items[lo].pro \in Stylists /\ items[lo].from \in 0..DayEnd /\ items[hi].to \in 1..DayEnd
        /\ items[lo].from \in Nat /\ items[hi].from \in Nat /\ items[hi].to \in Nat /\ items[hi].from < items[hi].to
    BY <2>1, SlotType
  <2>3. items[lo].from <= items[hi].from
    BY <1>3, <1>5
  <2> QED BY <2>2, <2>3
<1>8. part \in Slot
  <2> HIDE DEF rooms
  <2> QED BY <1>6, <1>7 DEF Slot
<1>9. \A u \in Covered(part) : \E i \in M : u \in Covered(items[i]) /\ items[i].pro = part.pro
  <2>1. Covered(part) = items[lo].from..(items[hi].to - 1) /\ part.pro = items[lo].pro
    BY DEF Covered
  <2> HIDE DEF part, M
  <2> QED BY <1>2, <1>3, <2>1
<1> QED BY <1>1, <1>8, <1>9

LEMMA PartsSeq ==
  ASSUME NEW items \in Seq(Slot)
  PROVE  /\ Parts(items) \in Seq(Slot) /\ Len(Parts(items)) = PartOf(items, Len(items))
         /\ DOMAIN Parts(items) = 1..PartOf(items, Len(items))
<1> DEFINE K == PartOf(items, Len(items))
<1>1. K \in Nat
  BY PartOfStep
<1>2. DOMAIN Parts(items) = 1..K
  BY DEF Parts
<1>3. \A n \in 1..K : Parts(items)[n] \in Slot
  BY PartCovered
<1>4. Parts(items) = [n \in 1..K |-> Parts(items)[n]]
  BY DEF Parts
<1> HIDE DEF K
<1>5. Parts(items) \in [1..K -> Slot]
  BY <1>3, <1>4
<1>6. Parts(items) \in Seq(Slot)
  BY <1>1, <1>5
<1>7. Len(Parts(items)) = K
  BY <1>1, <1>2, <1>6
<1> QED BY <1>2, <1>6, <1>7 DEF K

\* Whatever meets a part, before or after which some time is kept, meets an item of it.
LEMMA PartMeets ==
  ASSUME NEW items \in Seq(Slot), NEW n \in 1..PartOf(items, Len(items)),
         NEW f \in Int, NEW g \in Int, f < g,
         Parts(items)[n].from < g, Parts(items)[n].to > f
  PROVE  \E i \in Members(items, n) : /\ items[i].pro = Parts(items)[n].pro
                                      /\ items[i].from < g /\ items[i].to > f
<1> DEFINE part == Parts(items)[n]
           u == IF part.from < f THEN f ELSE part.from
<1>1. part \in Slot
  BY PartCovered
<1> HIDE DEF part
<1>2. part.from \in Nat /\ part.to \in Nat /\ part.from < part.to
  BY <1>1, SlotType
<1>3. u \in Covered(part) /\ u \in Int /\ f <= u /\ u < g
  BY <1>2 DEF Covered, part
<1>4. PICK i \in Members(items, n) : u \in Covered(items[i]) /\ items[i].pro = part.pro
  BY <1>3, PartCovered DEF part
<1>5. items[i] \in Slot
  BY DEF Members
<1>6. items[i].from \in Nat /\ items[i].to \in Nat
  BY <1>5, SlotType
<1> HIDE DEF u
<1>7. items[i].from <= u /\ u < items[i].to
  BY <1>3, <1>4, <1>6 DEF Covered
<1>8. items[i].from < g /\ items[i].to > f
  BY <1>3, <1>6, <1>7
<1> QED BY <1>4, <1>8 DEF part

-----------------------------------------------------------------------------
(* What a plan's items promise, its appointments promise.                      *)

\* The day of a professional, of given rows.
HoursOf(p, w, x) == w[p] \cup UNION {Covered(row.span) : row \in {y \in x : y.pro = p}}
DutyIn(a, w, x, o) ==
    /\ Covered(a) \subseteq HoursOf(a.pro, w, x)
    /\ \A row \in o : row.pro = a.pro => ~Meets(a, row.span)
Over(r) == r.key # Nobody /\ Orders[r.key].override
Alone(a, rows) == \A b \in rows \ {a} : b.pro = a.pro => ~MeetsWithin(Gap, a, b)
Holds(r, n, w, x, o, d) ==
    /\ Over(r) \/ DutyIn(r.parts[n], w, x, o)
    /\ Beside(r.parts[n], (d \cup Range(r.parts)) \ {r.parts[n]}) = {}

SpanRow(row) == row.span.from \in Nat /\ row.span.to \in Nat /\ row.span.from < row.span.to

LEMMA NearBoth ==
  ASSUME NEW g \in Nat, NEW f1 \in Nat, NEW t1 \in Nat, NEW f2 \in Nat, NEW t2 \in Nat,
         f1 < t2 + g, t1 > f2 - g
  PROVE  f2 < t1 + g /\ t2 > f1 - g
OBVIOUS

LEMMA PartsApart ==
  ASSUME NEW items \in Seq(Slot), NEW order,
         \A i \in 1..Len(items) : \A j \in 1..(i - 1) : GoesWith(order, items, j, i),
         NEW n \in 1..PartOf(items, Len(items)), NEW m \in 1..PartOf(items, Len(items)), n # m,
         Parts(items)[n].pro = Parts(items)[m].pro
  PROVE  ~MeetsWithin(Gap, Parts(items)[n], Parts(items)[m])
<1> DEFINE a == Parts(items)[n]
           b == Parts(items)[m]
<1> SUFFICES ASSUME MeetsWithin(Gap, a, b) PROVE FALSE
  OBVIOUS
<1>0. Gap \in Nat
  BY VisitsAssumption
<1>1. a \in Slot /\ b \in Slot
  BY PartCovered
<1>2. b.from \in Nat /\ b.to \in Nat /\ b.from < b.to
  BY <1>1, SlotType
<1>3. PICK i \in Members(items, n) : /\ items[i].pro = a.pro
                                     /\ items[i].from < b.to + Gap /\ items[i].to > b.from - Gap
  <2>1. b.from - Gap \in Int /\ b.to + Gap \in Int /\ b.from - Gap < b.to + Gap
    BY <1>0, <1>2
  <2>2. a.from < b.to + Gap /\ a.to > b.from - Gap
    BY DEF MeetsWithin
  <2> QED BY <2>1, <2>2, PartMeets
<1>4. i \in 1..Len(items) /\ PartOf(items, i) = n /\ items[i] \in Slot
  BY DEF Members
<1>5. items[i].from \in Nat /\ items[i].to \in Nat /\ items[i].from < items[i].to
  BY <1>4, SlotType
<1>6. PICK j \in Members(items, m) : /\ items[j].pro = b.pro
                                     /\ items[j].from < items[i].to + Gap /\ items[j].to > items[i].from - Gap
  <2>1. items[i].from - Gap \in Int /\ items[i].to + Gap \in Int /\ items[i].from - Gap < items[i].to + Gap
    BY <1>0, <1>5
  <2>2. b.from < items[i].to + Gap /\ b.to > items[i].from - Gap
    <3> HIDE DEF b
    <3> QED BY <1>0, <1>2, <1>3, <1>5, NearBoth
  <2> QED BY <2>1, <2>2, PartMeets
<1>7. j \in 1..Len(items) /\ PartOf(items, j) = m /\ items[j] \in Slot
  BY DEF Members
<1>8. items[j].from \in Nat /\ items[j].to \in Nat /\ items[j].from < items[j].to
  BY <1>7, SlotType
<1>9. items[i].pro = items[j].pro
  BY <1>3, <1>6
<1>10. MeetsWithin(Gap, items[i], items[j]) /\ MeetsWithin(Gap, items[j], items[i])
  <2>1. items[j].from < items[i].to + Gap /\ items[j].to > items[i].from - Gap
    BY <1>6
  <2>2. items[i].from < items[j].to + Gap /\ items[i].to > items[j].from - Gap
    BY <1>0, <1>5, <1>8, <2>1, NearBoth
  <2> QED BY <2>1, <2>2 DEF MeetsWithin
<1> HIDE DEF a, b
<1>11. ASSUME NEW g \in 1..Len(items), NEW h \in 1..(g - 1), PartOf(items, h) # PartOf(items, g),
              items[h].pro = items[g].pro, MeetsWithin(Gap, items[g], items[h])
       PROVE  FALSE
  <2>1. GoesWith(order, items, h, g)
    BY <1>11
  <2>2. Continuous(items, h, g)
    BY <2>1, <1>11 DEF GoesWith
  <2>3. \A k \in (h + 1)..g : GoesOn(items, k)
    <3> SUFFICES ASSUME NEW k \in (h + 1)..g PROVE GoesOn(items, k)
      OBVIOUS
    <3>1. k - 1 \in h..(g - 1) /\ k > 1 /\ (k - 1) + 1 = k /\ k \in Int
      OBVIOUS
    <3>2. items[k - 1].pro = items[g].pro /\ items[k - 1].to = items[k].from
      BY <2>2, <3>1 DEF Continuous
    <3>3. items[k].pro = items[g].pro
      <4>1. CASE k = g
        BY <4>1
      <4>2. CASE k # g
        <5>1. k \in h..(g - 1)
          BY <4>2
        <5> QED BY <2>2, <5>1 DEF Continuous
      <4> QED BY <4>1, <4>2
    <3> QED BY <3>1, <3>2, <3>3 DEF GoesOn
  <2>4. h \in Nat /\ g \in Nat /\ h <= g
    OBVIOUS
  <2>5. PartOf(items, h) = PartOf(items, g)
    BY <2>3, <2>4, PartOfOrder
  <2> QED BY <2>5, <1>11
<1>12. CASE j < i
  <2>1. j \in 1..(i - 1)
    BY <1>4, <1>7, <1>12
  <2> QED BY <2>1, <1>4, <1>7, <1>9, <1>10, <1>11
<1>13. CASE i < j
  <2>1. i \in 1..(j - 1)
    BY <1>4, <1>7, <1>13
  <2> QED BY <2>1, <1>4, <1>7, <1>9, <1>10, <1>11
<1>14. i # j
  BY <1>4, <1>7
<1> QED BY <1>4, <1>7, <1>12, <1>13, <1>14

LEMMA PartsOnDuty ==
  ASSUME NEW items \in Seq(Slot), NEW w, NEW x, NEW o, \A row \in o : SpanRow(row),
         \A i \in 1..Len(items) : DutyIn(items[i], w, x, o),
         NEW n \in 1..PartOf(items, Len(items))
  PROVE  DutyIn(Parts(items)[n], w, x, o)
<1> DEFINE a == Parts(items)[n]
<1>1. \A i \in Members(items, n) : DutyIn(items[i], w, x, o)
  BY DEF Members
<1>2. Covered(a) \subseteq HoursOf(a.pro, w, x)
  <2> SUFFICES ASSUME NEW u \in Covered(a) PROVE u \in HoursOf(a.pro, w, x)
    OBVIOUS
  <2>1. PICK i \in Members(items, n) : u \in Covered(items[i]) /\ items[i].pro = a.pro
    BY PartCovered
  <2>2. Covered(items[i]) \subseteq HoursOf(items[i].pro, w, x)
    BY <1>1 DEF DutyIn
  <2> HIDE DEF a
  <2> QED BY <2>1, <2>2
<1>3. ASSUME NEW row \in o, row.pro = a.pro, Meets(a, row.span)
      PROVE  FALSE
  <2>1. row.span.from \in Int /\ row.span.to \in Int /\ row.span.from < row.span.to
    BY DEF SpanRow
  <2>2. a.from < row.span.to /\ a.to > row.span.from
    BY <1>3 DEF Meets
  <2>3. PICK i \in Members(items, n) : /\ items[i].pro = a.pro
                                       /\ items[i].from < row.span.to /\ items[i].to > row.span.from
    BY <2>1, <2>2, PartMeets
  <2> HIDE DEF a
  <2>4. DutyIn(items[i], w, x, o)
    BY <1>1
  <2> QED BY <1>3, <2>3, <2>4 DEF DutyIn, Meets
<1> HIDE DEF a
<1>4. DutyIn(a, w, x, o)
  BY <1>2, <1>3 DEF DutyIn
<1> QED BY <1>4 DEF a

LEMMA PartsBeside ==
  ASSUME NEW items \in Seq(Slot), NEW d \in SUBSET Slot,
         \A i \in 1..Len(items) : Beside(items[i], d) = {},
         NEW n \in 1..PartOf(items, Len(items))
  PROVE  Beside(Parts(items)[n], d) = {}
<1> DEFINE a == Parts(items)[n]
<1> SUFFICES ASSUME NEW b \in d, b.pro = a.pro, MeetsWithin(Gap, a, b) PROVE FALSE
  BY DEF Beside
<1>1. Gap \in Nat
  BY VisitsAssumption
<1>2. b.from \in Nat /\ b.to \in Nat /\ b.from < b.to
  BY SlotType
<1>3. b.from - Gap \in Int /\ b.to + Gap \in Int /\ b.from - Gap < b.to + Gap
  BY <1>1, <1>2
<1>4. a.from < b.to + Gap /\ a.to > b.from - Gap
  BY DEF MeetsWithin
<1>5. PICK i \in Members(items, n) : /\ items[i].pro = a.pro
                                     /\ items[i].from < b.to + Gap /\ items[i].to > b.from - Gap
  BY <1>3, <1>4, PartMeets
<1> HIDE DEF a
<1>6. i \in 1..Len(items)
  BY DEF Members
<1> QED BY <1>5, <1>6 DEF Beside, MeetsWithin

LEMMA PlannedHolds ==
  ASSUME NEW items \in Seq(Slot), NEW order, diary \in SUBSET Slot, \A row \in timeOff : SpanRow(row),
         Feasible(order, items), NEW n \in 1..PartOf(items, Len(items))
  PROVE  /\ order.override \/ DutyIn(Parts(items)[n], weekly, extra, timeOff)
         /\ Beside(Parts(items)[n], (diary \cup Range(Parts(items))) \ {Parts(items)[n]}) = {}
<1>1. \A i \in 1..Len(items) : ItemFits(order, items, i)
  BY DEF Feasible
<1>2. \A i \in 1..Len(items) : Admits(items[i], diary, order.override)
  BY <1>1 DEF ItemFits
<1>3. \A i \in 1..Len(items) : /\ order.override \/ DutyIn(items[i], weekly, extra, timeOff)
                               /\ Beside(items[i], diary) = {}
  BY <1>2 DEF Admits, OnDuty, DutyIn, Worked, HoursOf
<1>4. \A i \in 1..Len(items) : \A j \in 1..(i - 1) : GoesWith(order, items, j, i)
  BY <1>1 DEF ItemFits
<1>5. Beside(Parts(items)[n], diary) = {}
  BY <1>3, PartsBeside
<1>6. order.override \/ DutyIn(Parts(items)[n], weekly, extra, timeOff)
  <2>1. CASE order.override
    BY <2>1
  <2>2. CASE ~order.override
    BY <2>2, <1>3, PartsOnDuty
  <2> QED BY <2>1, <2>2
<1>7. ASSUME NEW b \in Range(Parts(items)), b # Parts(items)[n], b.pro = Parts(items)[n].pro
      PROVE  ~MeetsWithin(Gap, Parts(items)[n], b)
  <2>1. DOMAIN Parts(items) = 1..PartOf(items, Len(items))
    BY PartsSeq
  <2>2. PICK m \in 1..PartOf(items, Len(items)) : b = Parts(items)[m]
    BY <2>1 DEF Range
  <2>3. n # m
    BY <2>2, <1>7
  <2> QED BY <1>4, <1>7, <2>2, <2>3, PartsApart
<1>8. Beside(Parts(items)[n], (diary \cup Range(Parts(items))) \ {Parts(items)[n]}) = {}
  BY <1>5, <1>7 DEF Beside
<1> QED BY <1>6, <1>8

-----------------------------------------------------------------------------
(* The types, and what the locks of a transaction keep.                        *)

Locks == VisitKeys \cup Stylists \cup {OfferLock}
ClerkRow == [pc : {"off", "plan", "check", "insert"}, key : VisitKeys \cup {Nobody},
             parts : Seq(Slot), done : Nat]
DayOK ==
    /\ weekly \in [Stylists -> SUBSET Units]
    /\ \A row \in extra \cup timeOff : row.pro \in Stylists /\ row.span \in Spans
    /\ closure \subseteq Spans
BooksOK ==
    /\ diary \in SUBSET Slot /\ freed \in SUBSET Slot
    /\ ledger \in [VisitKeys -> Seq(Slot)] /\ shown \in [VisitKeys -> Seq(Slot)]
LatchOK == latch \in [Locks -> Clerks \cup {Nobody}] /\ edits \in 0..MaxEdits
\* A transaction that inserts has a part to insert, one that plans wrote none;
\* one without a key is a booking of its own.
Written(r) ==
    /\ r.done <= Len(r.parts)
    /\ r.pc = "insert" => r.done < Len(r.parts)
    /\ r.pc = "plan" => r.done = 0 /\ r.key # Nobody
    /\ r.pc \in {"check", "insert"} /\ r.key = Nobody => Len(r.parts) = 1
\* The locks of a planned transaction, on the professionals of all its parts.
RowHeld(r, t, lk) == r.pc \in {"check", "insert"} => \A n \in 1..Len(r.parts) : lk[r.parts[n].pro] = t
Promised(r) == r.pc = "insert" \/ (r.pc = "check" /\ r.key # Nobody)
RowHolds(r, w, x, o, d) ==
    Promised(r) => \A n \in (r.done + 1)..Len(r.parts) : Holds(r, n, w, x, o, d)

ClerkOK(r, t, w, x, o, d, lk) ==
    r \in ClerkRow /\ Written(r) /\ RowHeld(r, t, lk) /\ RowHolds(r, w, x, o, d)
ClerksOK ==
    /\ clerk \in [Clerks -> ClerkRow]
    /\ \A t \in Clerks : ClerkOK(clerk[t], t, weekly, extra, timeOff, diary, latch)
VisitsInv == DayOK /\ BooksOK /\ LatchOK /\ ClerksOK

LEMMA InvHolds == VisitsInv => VisitsTypeOK /\ PlanHolds
<1> SUFFICES ASSUME VisitsInv PROVE VisitsTypeOK /\ PlanHolds
  OBVIOUS
<1>1. \A t \in Clerks : clerk[t] \in ClerkRow /\ Written(clerk[t])
  BY DEF VisitsInv, ClerksOK, ClerkOK
<1>2. \A t \in Clerks : /\ clerk[t].pc \in {"off", "plan", "check", "insert"} /\ clerk[t].parts \in Seq(Slot)
                        /\ clerk[t].done \in 0..Len(clerk[t].parts)
  BY <1>1 DEF ClerkRow, Written
<1>3. \A l \in DOMAIN latch : latch[l] \in Clerks \cup {Nobody}
  BY DEF VisitsInv, LatchOK
<1>4. VisitsTypeOK
  BY <1>2, <1>3 DEF VisitsInv, DayOK, BooksOK, LatchOK, VisitsTypeOK
<1>5. \A t \in Clerks : RowHolds(clerk[t], weekly, extra, timeOff, diary)
  BY DEF VisitsInv, ClerksOK, ClerkOK
<1>6. PlanHolds
  BY <1>5 DEF PlanHolds, RowHolds, Promised, Holds, Over, Overrides, OnDuty, DutyIn, Worked, HoursOf
<1> QED BY <1>4, <1>6

\* What a professional's lock keeps of the day.
DayKept(p, w, x, o, d, w2, x2, o2, d2) ==
    /\ w2[p] = w[p] /\ {y \in x2 : y.pro = p} = {y \in x : y.pro = p}
    /\ \A row \in o2 : row.pro = p => row \in o
    /\ \A b \in d2 : b.pro = p => b \in d

LEMMA RowKept ==
  ASSUME NEW t, NEW w, NEW x, NEW o, NEW d, NEW lk, NEW w2, NEW x2, NEW o2, NEW d2, NEW lk2,
         NEW r, ClerkOK(r, t, w, x, o, d, lk),
         \A p \in Stylists : lk[p] = t => lk2[p] = t /\ DayKept(p, w, x, o, d, w2, x2, o2, d2)
  PROVE  ClerkOK(r, t, w2, x2, o2, d2, lk2)
<1>1. r \in ClerkRow /\ Written(r) /\ RowHeld(r, t, lk) /\ RowHolds(r, w, x, o, d)
  BY DEF ClerkOK
<1>2. r.parts \in Seq(Slot) /\ r.done \in Nat
  BY <1>1 DEF ClerkRow
<1>3. \A n \in 1..Len(r.parts) : r.parts[n] \in Slot
  BY <1>2
<1>4. \A n \in 1..Len(r.parts) : r.parts[n].pro \in Stylists
  BY <1>3, SlotType
<1>5. RowHeld(r, t, lk2)
  BY <1>1, <1>4 DEF RowHeld
<1>6. ASSUME Promised(r), NEW n \in (r.done + 1)..Len(r.parts)
      PROVE  Holds(r, n, w2, x2, o2, d2)
  <2>1. Holds(r, n, w, x, o, d) /\ n \in 1..Len(r.parts)
    BY <1>1, <1>2, <1>6 DEF RowHolds
  <2> DEFINE a == r.parts[n]
  <2>2. a.pro \in Stylists /\ lk[a.pro] = t
    BY <1>1, <1>4, <1>6, <2>1 DEF RowHeld, Promised
  <2>3. DayKept(a.pro, w, x, o, d, w2, x2, o2, d2)
    BY <2>2
  <2> HIDE DEF a
  <2>4. DutyIn(a, w, x, o) => DutyIn(a, w2, x2, o2)
    BY <2>3 DEF DutyIn, HoursOf, DayKept
  <2>5. Beside(a, (d \cup Range(r.parts)) \ {a}) = {} => Beside(a, (d2 \cup Range(r.parts)) \ {a}) = {}
    BY <2>3 DEF Beside, DayKept
  <2> QED BY <2>1, <2>4, <2>5 DEF Holds, a
<1> QED BY <1>1, <1>5, <1>6 DEF ClerkOK, RowHolds

LEMMA SpansOK == DayOK => \A row \in timeOff : SpanRow(row)
<1> SUFFICES ASSUME DayOK, NEW row \in timeOff PROVE SpanRow(row)
  OBVIOUS
<1>1. row.span \in Spans
  BY DEF DayOK
<1>2. row.span \in [from : 0..DayEnd, to : 1..DayEnd] /\ row.span.from < row.span.to
  BY <1>1, VisitsAssumption
<1>3. DayEnd \in Nat
  BY VisitsAssumption
<1> QED BY <1>2, <1>3 DEF SpanRow

-----------------------------------------------------------------------------
(* The steps of a transaction.                                                 *)

LEMMA ClerkStep ==
  ASSUME VisitsInv, NEW t \in Clerks,
         clerk' \in [Clerks -> ClerkRow], \A u \in Clerks \ {t} : clerk'[u] = clerk[u],
         ClerkOK(clerk'[t], t, weekly', extra', timeOff', diary', latch'),
         \A u \in Clerks \ {t} : \A p \in Stylists : latch[p] = u =>
             latch'[p] = u /\ DayKept(p, weekly, extra, timeOff, diary, weekly', extra', timeOff', diary')
  PROVE  ClerksOK'
<1>1. ASSUME NEW u \in Clerks PROVE ClerkOK(clerk'[u], u, weekly', extra', timeOff', diary', latch')
  <2>1. CASE u = t
    BY <2>1
  <2>2. CASE u # t
    <3>1. ClerkOK(clerk[u], u, weekly, extra, timeOff, diary, latch)
      BY DEF VisitsInv, ClerksOK
    <3>2. \A p \in Stylists : latch[p] = u =>
             latch'[p] = u /\ DayKept(p, weekly, extra, timeOff, diary, weekly', extra', timeOff', diary')
      BY <2>2
    <3>3. ClerkOK(clerk[u], u, weekly', extra', timeOff', diary', latch')
      BY <3>1, <3>2, RowKept
    <3> QED BY <2>2, <3>3
  <2> QED BY <2>1, <2>2
<1> QED BY <1>1 DEF ClerksOK

LEMMA DaySame ==
  ASSUME UNCHANGED <<dayVars, diary>>
  PROVE  \A p : DayKept(p, weekly, extra, timeOff, diary, weekly', extra', timeOff', diary')
BY DEF dayVars, DayKept

LEMMA LatchedKeeps ==
  ASSUME LatchOK, NEW t \in Clerks, NEW locks \in SUBSET Locks, Unlatched(t, locks),
         latch' = Latched(t, locks), edits' = edits
  PROVE  /\ LatchOK' /\ \A l \in locks : latch'[l] = t
         /\ \A l \in Locks : \A u \in Clerks : latch[l] = u => latch'[l] = u
<1>1. DOMAIN latch = Locks /\ latch \in [Locks -> Clerks \cup {Nobody}] /\ Nobody \notin Clerks
  BY VisitsAssumption DEF LatchOK
<1>2. \A l \in Locks : latch'[l] = IF l \in locks THEN t ELSE latch[l]
  BY <1>1 DEF Latched
<1>3. latch' \in [Locks -> Clerks \cup {Nobody}]
  BY <1>1 DEF Latched
<1>4. \A l \in locks : latch[l] \in {Nobody, t}
  BY DEF Unlatched
<1> QED BY <1>1, <1>2, <1>3, <1>4 DEF LatchOK

LEMMA ReleasedKeeps ==
  ASSUME LatchOK, NEW t \in Clerks, latch' = Released(t), edits' = edits
  PROVE  /\ LatchOK'
         /\ \A l \in Locks : \A u \in Clerks \ {t} : latch[l] = u => latch'[l] = u
<1>1. DOMAIN latch = Locks /\ latch \in [Locks -> Clerks \cup {Nobody}] /\ Nobody \notin Clerks
  BY VisitsAssumption DEF LatchOK
<1>2. \A l \in Locks : latch'[l] = IF latch[l] = t THEN Nobody ELSE latch[l]
  BY <1>1 DEF Released
<1>3. latch' \in [Locks -> Clerks \cup {Nobody}]
  BY <1>1 DEF Released
<1> QED BY <1>1, <1>2, <1>3 DEF LatchOK

LEMMA OffOK ==
  ASSUME NEW t, NEW w, NEW x, NEW o, NEW d, NEW lk
  PROVE  Off \in ClerkRow /\ ClerkOK(Off, t, w, x, o, d, lk)
<1>1. Off.pc = "off" /\ Off.done = 0 /\ Off.parts = <<>> /\ Off.key = Nobody
  BY DEF Off, NoPlan
<1>2. <<>> \in Seq(Slot) /\ Len(<<>>) = 0
  OBVIOUS
<1>3. Off \in ClerkRow
  BY <1>2 DEF Off, NoPlan, ClerkRow
<1> QED BY <1>1, <1>2, <1>3 DEF ClerkOK, Written, RowHeld, RowHolds, Promised

LEMMA ClerkFacts ==
  ASSUME VisitsInv, NEW t \in Clerks
  PROVE  /\ clerk[t] \in ClerkRow /\ ClerkOK(clerk[t], t, weekly, extra, timeOff, diary, latch)
         /\ clerk[t].pc \in {"off", "plan", "check", "insert"} /\ clerk[t].key \in VisitKeys \cup {Nobody}
         /\ clerk[t].parts \in Seq(Slot) /\ clerk[t].done \in Nat
BY DEF VisitsInv, ClerksOK, ClerkRow

\* The plan shown is a plan of slots.
LEMMA PlansAreSlots ==
  ASSUME NEW k \in VisitKeys, NEW start, NEW items \in Plans(Orders[k], start)
  PROVE  items \in Seq(Slot)
<1> DEFINE order == Orders[k]
<1>1. PICK f : Feasible(order, Items(order, start, f)) /\ items = Items(order, start, f)
  BY DEF Plans
<1>2. order.choices \in Seq([service : DOMAIN Services, pro : Stylists \cup {Anyone}, offset : -1..DayEnd])
  BY VisitsAssumption
<1>3. PICK n \in Nat : DOMAIN order.choices = 1..n
  BY <1>2
<1> HIDE DEF order
<1>4. DOMAIN items = 1..n
  BY <1>1, <1>3 DEF Items
<1>5. \A i \in 1..n : items[i] \in Slot
  BY <1>1, <1>4 DEF Feasible, ItemFits
<1>6. items = [i \in 1..n |-> items[i]]
  BY <1>1, <1>3 DEF Items
<1>7. items \in [1..n -> Slot]
  BY <1>5, <1>6
<1> QED BY <1>7

LEMMA ShowPlanInv == \A k \in VisitKeys : VisitsInv /\ ShowPlan(k) => VisitsInv'
<1> SUFFICES ASSUME NEW k \in VisitKeys, VisitsInv, ShowPlan(k) PROVE VisitsInv'
  OBVIOUS
<1>1. /\ UNCHANGED <<dayVars, diary, freed, ledger, latch, clerk, edits>>
      /\ \E start \in Starts : \E items \in Plans(Orders[k], start) : shown' = [shown EXCEPT ![k] = items]
  BY DEF ShowPlan
<1>2. PICK start \in Starts : \E items \in Plans(Orders[k], start) : shown' = [shown EXCEPT ![k] = items]
  BY <1>1
<1>3. PICK items \in Plans(Orders[k], start) : shown' = [shown EXCEPT ![k] = items]
  BY <1>2
<1>4. items \in Seq(Slot)
  BY PlansAreSlots
<1>5. BooksOK'
  BY <1>1, <1>3, <1>4 DEF VisitsInv, BooksOK
<1>6. DayOK' /\ LatchOK'
  BY <1>1 DEF VisitsInv, DayOK, LatchOK, dayVars
<1>7. ClerksOK'
  BY <1>1 DEF VisitsInv, ClerksOK, dayVars
<1> QED BY <1>5, <1>6, <1>7 DEF VisitsInv

LEMMA BeginVisitInv ==
  \A t \in Clerks, k \in VisitKeys : VisitsInv /\ BeginVisit(t, k) => VisitsInv'
<1> SUFFICES ASSUME NEW t \in Clerks, NEW k \in VisitKeys, VisitsInv, BeginVisit(t, k) PROVE VisitsInv'
  OBVIOUS
<1> DEFINE r == [pc |-> "plan", key |-> k, parts |-> shown[k], done |-> 0]
<1>1. /\ Unlatched(t, {k}) /\ latch' = Latched(t, {k}) /\ clerk' = [clerk EXCEPT ![t] = r]
      /\ UNCHANGED <<dayVars, diary>> /\ UNCHANGED <<freed, ledger, shown, edits>>
  BY DEF BeginVisit
<1>2. shown[k] \in Seq(Slot) /\ Len(shown[k]) \in Nat
  BY DEF VisitsInv, BooksOK
<1>3. r \in ClerkRow /\ r.pc = "plan" /\ r.key = k /\ r.done = 0 /\ r.parts = shown[k]
  BY <1>2 DEF ClerkRow
<1> HIDE DEF r
<1>4. ClerkOK(r, t, weekly', extra', timeOff', diary', latch')
  BY <1>2, <1>3, VisitsAssumption DEF ClerkOK, Written, RowHeld, RowHolds, Promised
<1>5. clerk \in [Clerks -> ClerkRow]
  BY DEF VisitsInv, ClerksOK
<1>6. clerk' \in [Clerks -> ClerkRow] /\ clerk'[t] = r /\ \A u \in Clerks \ {t} : clerk'[u] = clerk[u]
  BY <1>1, <1>3, <1>5
<1>7. LatchOK' /\ \A l \in Locks : \A u \in Clerks : latch[l] = u => latch'[l] = u
  <2>1. {k} \in SUBSET Locks
    BY DEF Locks
  <2> QED BY <1>1, <2>1, LatchedKeeps DEF VisitsInv
<1>8. ClerksOK'
  <2>1. \A u \in Clerks \ {t} : \A p \in Stylists : latch[p] = u =>
             latch'[p] = u /\ DayKept(p, weekly, extra, timeOff, diary, weekly', extra', timeOff', diary')
    BY <1>1, <1>7, DaySame DEF Locks
  <2> QED BY <1>4, <1>6, <2>1, ClerkStep
<1>9. DayOK' /\ BooksOK'
  BY <1>1 DEF VisitsInv, DayOK, BooksOK, dayVars
<1> QED BY <1>7, <1>8, <1>9 DEF VisitsInv

LEMMA BeginSingleInv ==
  \A t \in Clerks, a \in Singles : VisitsInv /\ BeginSingle(t, a) => VisitsInv'
<1> SUFFICES ASSUME NEW t \in Clerks, NEW a \in Singles, VisitsInv, BeginSingle(t, a) PROVE VisitsInv'
  OBVIOUS
<1> DEFINE r == [pc |-> "check", key |-> Nobody, parts |-> <<a>>, done |-> 0]
<1>1. /\ Unlatched(t, {a.pro}) /\ latch' = Latched(t, {a.pro}) /\ clerk' = [clerk EXCEPT ![t] = r]
      /\ UNCHANGED <<dayVars, diary>> /\ UNCHANGED <<freed, ledger, shown, edits>>
  BY DEF BeginSingle
<1>2. a \in Slot /\ a.pro \in Stylists
  BY VisitsAssumption, SlotType
<1>3. r \in ClerkRow /\ r.pc = "check" /\ r.done = 0 /\ r.key = Nobody /\ r.parts = <<a>>
  <2>1. <<a>> \in Seq(Slot)
    BY <1>2
  <2> QED BY <2>1 DEF ClerkRow
<1> HIDE DEF r
<1>4. Len(<<a>>) = 1 /\ <<a>>[1] = a
  OBVIOUS
<1>5. {a.pro} \in SUBSET Locks
  BY <1>2 DEF Locks
<1>6. /\ LatchOK' /\ \A l \in {a.pro} : latch'[l] = t
      /\ \A l \in Locks : \A u \in Clerks : latch[l] = u => latch'[l] = u
  BY <1>1, <1>5, LatchedKeeps DEF VisitsInv
<1>7. Written(r)
  BY <1>3, <1>4 DEF Written
<1>8. RowHeld(r, t, latch')
  <2>1. \A n \in 1..Len(r.parts) : n = 1
    BY <1>3, <1>4
  <2>2. r.parts[1] = a
    BY <1>3, <1>4
  <2> QED BY <1>6, <2>1, <2>2 DEF RowHeld
<1>9. ClerkOK(r, t, weekly', extra', timeOff', diary', latch')
  BY <1>3, <1>7, <1>8 DEF ClerkOK, RowHolds, Promised
<1>10. clerk \in [Clerks -> ClerkRow]
  BY DEF VisitsInv, ClerksOK
<1>11. clerk' \in [Clerks -> ClerkRow] /\ clerk'[t] = r /\ \A u \in Clerks \ {t} : clerk'[u] = clerk[u]
  BY <1>1, <1>3, <1>10
<1>12. ClerksOK'
  <2>1. \A u \in Clerks \ {t} : \A p \in Stylists : latch[p] = u =>
             latch'[p] = u /\ DayKept(p, weekly, extra, timeOff, diary, weekly', extra', timeOff', diary')
    BY <1>1, <1>6, DaySame DEF Locks
  <2> QED BY <1>9, <1>11, <2>1, ClerkStep
<1>13. DayOK' /\ BooksOK'
  BY <1>1 DEF VisitsInv, DayOK, BooksOK, dayVars
<1> QED BY <1>6, <1>12, <1>13 DEF VisitsInv

LEMMA PlanVisitInv == \A t \in Clerks : VisitsInv /\ PlanVisit(t) => VisitsInv'
<1> SUFFICES ASSUME NEW t \in Clerks, VisitsInv, PlanVisit(t) PROVE VisitsInv'
  OBVIOUS
<1>0. PICK items, key : items = clerk[t].parts /\ key = clerk[t].key
  OBVIOUS
<1> DEFINE parts == Parts(items)
           r == [pc |-> "check", key |-> key, parts |-> parts, done |-> 0]
<1>1. /\ clerk[t].pc = "plan" /\ Unlatched(t, ProsOf(items)) /\ Feasible(Orders[key], items)
      /\ latch' = Latched(t, ProsOf(items))
      /\ clerk' = [clerk EXCEPT ![t] = [pc |-> "check", key |-> clerk[t].key,
                                         parts |-> Parts(clerk[t].parts), done |-> clerk[t].done]]
      /\ UNCHANGED <<dayVars, diary>> /\ UNCHANGED <<freed, ledger, shown, edits>>
  BY <1>0 DEF PlanVisit, Advance
<1>2. /\ clerk[t] \in ClerkRow /\ clerk \in [Clerks -> ClerkRow]
      /\ items \in Seq(Slot) /\ key \in VisitKeys \cup {Nobody} /\ clerk[t].done = 0 /\ key # Nobody
  BY <1>0, <1>1, ClerkFacts DEF VisitsInv, ClerksOK, ClerkOK, Written
<1>3. /\ parts \in Seq(Slot) /\ Len(parts) = PartOf(items, Len(items)) /\ Len(parts) \in Nat
  BY <1>2, PartsSeq
<1>4. clerk' = [clerk EXCEPT ![t] = r]
  <2>1. parts = Parts(clerk[t].parts) /\ key = clerk[t].key
    BY <1>0
  <2> HIDE DEF parts
  <2> QED BY <1>1, <1>2, <2>1
<1>5. r \in ClerkRow /\ r.pc = "check" /\ r.key = key /\ r.parts = parts /\ r.done = 0
  <2> HIDE DEF parts
  <2> QED BY <1>2, <1>3 DEF ClerkRow
<1>6. clerk' \in [Clerks -> ClerkRow] /\ clerk'[t] = r /\ \A u \in Clerks \ {t} : clerk'[u] = clerk[u]
  <2> HIDE DEF r
  <2> QED BY <1>2, <1>4, <1>5
<1>7. ProsOf(items) \in SUBSET Locks
  <2>1. \A a \in Range(items) : a \in Slot
    BY <1>2 DEF Range
  <2>2. \A a \in Range(items) : a.pro \in Stylists
    BY <2>1, SlotType
  <2> QED BY <2>2 DEF ProsOf, Locks
<1>8. /\ LatchOK' /\ \A l \in ProsOf(items) : latch'[l] = t
      /\ \A l \in Locks : \A u \in Clerks : latch[l] = u => latch'[l] = u
  BY <1>1, <1>7, LatchedKeeps DEF VisitsInv
<1>9. \A n \in 1..Len(parts) : parts[n].pro \in ProsOf(items)
  <2> SUFFICES ASSUME NEW n \in 1..PartOf(items, Len(items)) PROVE parts[n].pro \in ProsOf(items)
    BY <1>3
  <2>1. parts[n] \in Slot
    BY <1>2, PartCovered
  <2>2. parts[n].from \in Nat /\ parts[n].to \in Nat /\ parts[n].from < parts[n].to
    BY <2>1, SlotType
  <2>3. parts[n].from \in Covered(parts[n])
    <3> HIDE DEF parts
    <3> QED BY <2>2 DEF Covered
  <2>4. PICK i \in Members(items, n) : items[i].pro = parts[n].pro
    BY <1>2, <2>3, PartCovered
  <2>5. items[i] \in Range(items)
    BY <1>2 DEF Members, Range
  <2> HIDE DEF parts
  <2> QED BY <2>4, <2>5 DEF ProsOf
<1>10. RowHeld(r, t, latch')
  <2> HIDE DEF r, parts
  <2> QED BY <1>5, <1>8, <1>9 DEF RowHeld
<1>11. \A n \in 1..Len(parts) :
          Orders[key].override \/ DutyIn(parts[n], weekly, extra, timeOff)
  BY <1>1, <1>2, <1>3, PlannedHolds, SpansOK DEF VisitsInv, BooksOK
<1>12. \A n \in 1..Len(parts) : Beside(parts[n], (diary \cup Range(parts)) \ {parts[n]}) = {}
  BY <1>1, <1>2, <1>3, PlannedHolds, SpansOK DEF VisitsInv, BooksOK
<1>13. RowHolds(r, weekly, extra, timeOff, diary)
  <2> HIDE DEF r, parts
  <2>1. SUFFICES ASSUME Promised(r), NEW n \in (r.done + 1)..Len(r.parts)
                 PROVE  Holds(r, n, weekly, extra, timeOff, diary)
    BY DEF RowHolds
  <2>2. key # Nobody /\ n \in 1..Len(parts)
    BY <1>5, <2>1 DEF Promised
  <2> QED BY <1>5, <1>11, <1>12, <2>2 DEF Holds, Over
<1>14. ClerkOK(r, t, weekly', extra', timeOff', diary', latch')
  <2> HIDE DEF r, parts
  <2>1. Written(r)
    BY <1>2, <1>3, <1>5 DEF Written
  <2>2. RowHolds(r, weekly', extra', timeOff', diary')
    BY <1>1, <1>13 DEF dayVars
  <2> QED BY <1>5, <1>10, <2>1, <2>2 DEF ClerkOK
<1> HIDE DEF r, parts
<1>15. ClerksOK'
  <2>1. \A u \in Clerks \ {t} : \A p \in Stylists : latch[p] = u =>
             latch'[p] = u /\ DayKept(p, weekly, extra, timeOff, diary, weekly', extra', timeOff', diary')
    BY <1>1, <1>8, DaySame DEF Locks
  <2> QED BY <1>6, <1>14, <2>1, ClerkStep
<1>16. DayOK' /\ BooksOK'
  BY <1>1 DEF VisitsInv, DayOK, BooksOK, dayVars
<1> QED BY <1>8, <1>15, <1>16 DEF VisitsInv

LEMMA CheckPartInv == \A t \in Clerks : VisitsInv /\ CheckPart(t) => VisitsInv'
<1> SUFFICES ASSUME NEW t \in Clerks, VisitsInv, CheckPart(t) PROVE VisitsInv'
  OBVIOUS
<1>0. PICK row : row = clerk[t]
  OBVIOUS
<1> DEFINE parts == row.parts
           m == row.done + 1
           r == [pc |-> "insert", key |-> row.key, parts |-> row.parts, done |-> row.done]
<1>1. /\ row.pc = "check" /\ row.done < Len(parts)
      /\ Admits(parts[m], diary \cup Own(t), Overrides(t))
      /\ clerk' = [clerk EXCEPT ![t] = [pc |-> "insert", key |-> clerk[t].key,
                                         parts |-> clerk[t].parts, done |-> clerk[t].done]]
      /\ UNCHANGED <<dayVars, diary>> /\ UNCHANGED <<freed, ledger, shown, latch, edits>>
  BY <1>0 DEF CheckPart, NextPart, Advance
<1>2. /\ row \in ClerkRow /\ clerk \in [Clerks -> ClerkRow]
      /\ parts \in Seq(Slot) /\ row.key \in VisitKeys \cup {Nobody} /\ row.done \in Nat
      /\ ClerkOK(row, t, weekly, extra, timeOff, diary, latch)
  BY <1>0, ClerkFacts DEF VisitsInv, ClerksOK
<1>3. clerk' = [clerk EXCEPT ![t] = r]
  BY <1>0, <1>1
<1>4. r \in ClerkRow /\ r.pc = "insert" /\ r.key = row.key /\ r.parts = parts /\ r.done = row.done
  BY <1>2 DEF ClerkRow
<1> HIDE DEF r
<1>5. clerk' \in [Clerks -> ClerkRow] /\ clerk'[t] = r /\ \A u \in Clerks \ {t} : clerk'[u] = clerk[u]
  BY <1>2, <1>3, <1>4
<1>6. RowHeld(r, t, latch')
  <2>1. \A n \in 1..Len(parts) : latch[parts[n].pro] = t
    BY <1>1, <1>2 DEF ClerkOK, RowHeld
  <2> HIDE DEF parts
  <2> QED BY <1>1, <1>4, <2>1 DEF RowHeld
<1>7. Len(parts) \in Nat /\ \A n \in 1..Len(parts) : parts[n] \in Slot
  BY <1>2
<1>8. RowHolds(r, weekly, extra, timeOff, diary)
  <2>1. CASE row.key # Nobody
    <3>1. Promised(row) /\ RowHolds(row, weekly, extra, timeOff, diary)
      BY <1>1, <1>2, <2>1 DEF Promised, ClerkOK
    <3> QED BY <1>4, <3>1 DEF RowHolds, Holds, Over
  <2>2. CASE row.key = Nobody
    <3>1. SUFFICES ASSUME NEW n \in (r.done + 1)..Len(r.parts), Promised(r)
                   PROVE  Holds(r, n, weekly, extra, timeOff, diary)
      BY DEF RowHolds
    <3>2. n = 1 /\ m = 1 /\ Len(parts) = 1 /\ r.key = Nobody
      <4>1. Len(parts) = 1
        BY <1>1, <1>2, <2>2 DEF ClerkOK, Written
      <4>2. row.done = 0
        BY <1>1, <1>2, <4>1
      <4>3. n \in 1..1
        BY <1>4, <3>1, <4>1, <4>2
      <4> QED BY <1>4, <2>2, <4>1, <4>2, <4>3
    <3>3. ~Overrides(t)
      BY <1>0, <2>2 DEF Overrides
    <3>4. OnDuty(parts[1]) /\ Beside(parts[1], diary \cup Own(t)) = {}
      BY <1>1, <3>2, <3>3 DEF Admits
    <3>5. Range(parts) = {parts[1]}
      BY <1>2, <3>2 DEF Range
    <3>6. Beside(parts[1], (diary \cup Range(parts)) \ {parts[1]}) = {}
      BY <3>4, <3>5 DEF Beside
    <3>7. DutyIn(parts[1], weekly, extra, timeOff)
      BY <3>4 DEF OnDuty, DutyIn, Worked, HoursOf
    <3> QED BY <1>4, <3>2, <3>6, <3>7 DEF Holds
  <2> QED BY <2>1, <2>2
<1>9. ClerkOK(r, t, weekly', extra', timeOff', diary', latch')
  <2>1. Written(r)
    BY <1>1, <1>2, <1>4 DEF ClerkOK, Written
  <2>2. RowHolds(r, weekly', extra', timeOff', diary')
    BY <1>1, <1>8 DEF dayVars
  <2> QED BY <1>4, <1>6, <2>1, <2>2 DEF ClerkOK
<1>10. ClerksOK'
  <2>1. \A u \in Clerks \ {t} : \A p \in Stylists : latch[p] = u =>
             latch'[p] = u /\ DayKept(p, weekly, extra, timeOff, diary, weekly', extra', timeOff', diary')
    BY <1>1, DaySame
  <2> QED BY <1>5, <1>9, <2>1, ClerkStep
<1>11. DayOK' /\ BooksOK' /\ LatchOK'
  BY <1>1 DEF VisitsInv, DayOK, BooksOK, LatchOK, dayVars
<1> QED BY <1>10, <1>11 DEF VisitsInv

LEMMA InsertPartInv == \A t \in Clerks : VisitsInv /\ InsertPart(t) => VisitsInv'
<1> SUFFICES ASSUME NEW t \in Clerks, VisitsInv, InsertPart(t) PROVE VisitsInv'
  OBVIOUS
<1>0. PICK row : row = clerk[t]
  OBVIOUS
<1> DEFINE parts == row.parts
           m == row.done + 1
           r == [pc |-> "check", key |-> row.key, parts |-> row.parts, done |-> m]
<1>1. /\ row.pc = "insert" /\ Unlatched(t, {OfferLock}) /\ latch' = Latched(t, {OfferLock})
      /\ clerk' = [clerk EXCEPT ![t] = [pc |-> "check", key |-> clerk[t].key,
                                         parts |-> clerk[t].parts, done |-> clerk[t].done + 1]]
      /\ UNCHANGED <<dayVars, diary>> /\ UNCHANGED <<freed, ledger, shown, edits>>
  BY <1>0 DEF InsertPart, Advance
<1>2. /\ row \in ClerkRow /\ clerk \in [Clerks -> ClerkRow]
      /\ parts \in Seq(Slot) /\ row.key \in VisitKeys \cup {Nobody} /\ row.done \in Nat /\ m \in Nat
      /\ ClerkOK(row, t, weekly, extra, timeOff, diary, latch) /\ Len(parts) \in Nat
  BY <1>0, ClerkFacts DEF VisitsInv, ClerksOK
<1>3. clerk' = [clerk EXCEPT ![t] = r]
  <2>1. m = clerk[t].done + 1
    BY <1>0
  <2> HIDE DEF m
  <2> QED BY <1>0, <1>1, <2>1
<1>4. r \in ClerkRow /\ r.pc = "check" /\ r.key = row.key /\ r.parts = parts /\ r.done = m
  <2> HIDE DEF m
  <2> QED BY <1>2 DEF ClerkRow
<1> HIDE DEF r
<1>5. clerk' \in [Clerks -> ClerkRow] /\ clerk'[t] = r /\ \A u \in Clerks \ {t} : clerk'[u] = clerk[u]
  BY <1>2, <1>3, <1>4
<1>6. /\ LatchOK' /\ \A l \in Locks : \A u \in Clerks : latch[l] = u => latch'[l] = u
  <2>1. {OfferLock} \in SUBSET Locks
    BY DEF Locks
  <2> QED BY <1>1, <2>1, LatchedKeeps DEF VisitsInv
<1>7. RowHeld(r, t, latch')
  <2>1. \A n \in 1..Len(parts) : latch[parts[n].pro] = t
    BY <1>1, <1>2 DEF ClerkOK, RowHeld
  <2>2. \A n \in 1..Len(parts) : parts[n] \in Slot
    BY <1>2
  <2>3. \A n \in 1..Len(parts) : parts[n].pro \in Locks
    BY <2>2, SlotType DEF Locks
  <2> HIDE DEF parts
  <2> QED BY <1>4, <1>6, <2>1, <2>3 DEF RowHeld
<1>8. RowHolds(r, weekly', extra', timeOff', diary')
  <2>1. RowHolds(row, weekly, extra, timeOff, diary) /\ Promised(row)
    BY <1>1, <1>2 DEF ClerkOK, Promised
  <2>2. ASSUME NEW n \in (r.done + 1)..Len(r.parts)
        PROVE  Holds(r, n, weekly, extra, timeOff, diary)
    <3>1. n \in (row.done + 1)..Len(row.parts)
      BY <1>2, <1>4
    <3> QED BY <1>4, <2>1, <3>1 DEF RowHolds, Holds, Over
  <2> QED BY <1>1, <2>2 DEF RowHolds, dayVars
<1>9. Written(r)
  BY <1>1, <1>2, <1>4 DEF ClerkOK, Written
<1>10. ClerkOK(r, t, weekly', extra', timeOff', diary', latch')
  BY <1>4, <1>7, <1>8, <1>9 DEF ClerkOK
<1>11. ClerksOK'
  <2>1. \A u \in Clerks \ {t} : \A p \in Stylists : latch[p] = u =>
             latch'[p] = u /\ DayKept(p, weekly, extra, timeOff, diary, weekly', extra', timeOff', diary')
    BY <1>1, <1>6, DaySame DEF Locks
  <2> QED BY <1>5, <1>10, <2>1, ClerkStep
<1>12. DayOK' /\ BooksOK'
  BY <1>1 DEF VisitsInv, DayOK, BooksOK, dayVars
<1> QED BY <1>6, <1>11, <1>12 DEF VisitsInv

LEMMA CommitVisitInv == \A t \in Clerks : VisitsInv /\ CommitVisit(t) => VisitsInv'
<1> SUFFICES ASSUME NEW t \in Clerks, VisitsInv, CommitVisit(t) PROVE VisitsInv'
  OBVIOUS
<1>0. PICK row : row = clerk[t]
  OBVIOUS
<1> DEFINE parts == row.parts
<1>1. /\ row.pc = "check" /\ row.done = Len(parts)
      /\ diary' = diary \cup Own(t)
      /\ ledger' = [k \in VisitKeys |-> IF k = clerk[t].key THEN clerk[t].parts ELSE ledger[k]]
      /\ latch' = Released(t) /\ clerk' = [clerk EXCEPT ![t] = Off]
      /\ UNCHANGED dayVars /\ UNCHANGED <<freed, shown, edits>>
  BY <1>0 DEF CommitVisit
<1>2. /\ row \in ClerkRow /\ clerk \in [Clerks -> ClerkRow] /\ parts \in Seq(Slot)
      /\ ClerkOK(row, t, weekly, extra, timeOff, diary, latch)
  BY <1>0, ClerkFacts DEF VisitsInv, ClerksOK
<1>3. \A b \in Own(t) : b \in Slot /\ latch[b.pro] = t
  <2>1. Own(t) = {parts[n] : n \in 1..Len(parts)}
    BY <1>0, <1>1 DEF Own
  <2>2. \A n \in 1..Len(parts) : parts[n] \in Slot
    BY <1>2
  <2>3. \A n \in 1..Len(parts) : latch[parts[n].pro] = t
    BY <1>1, <1>2 DEF ClerkOK, RowHeld
  <2> QED BY <2>1, <2>2, <2>3
<1>4. /\ LatchOK' /\ \A l \in Locks : \A u \in Clerks \ {t} : latch[l] = u => latch'[l] = u
  BY <1>1, ReleasedKeeps DEF VisitsInv
<1>5. ledger' \in [VisitKeys -> Seq(Slot)]
  BY <1>0, <1>1, <1>2 DEF VisitsInv, BooksOK
<1>6. diary' \in SUBSET Slot
  BY <1>1, <1>3 DEF VisitsInv, BooksOK
<1>7. ASSUME NEW u \in Clerks \ {t}, NEW p \in Stylists, latch[p] = u
      PROVE  latch'[p] = u /\ DayKept(p, weekly, extra, timeOff, diary, weekly', extra', timeOff', diary')
  <2>1. latch'[p] = u
    BY <1>4, <1>7 DEF Locks
  <2>2. \A b \in diary' : b.pro = p => b \in diary
    BY <1>1, <1>3, <1>7
  <2> QED BY <1>1, <2>1, <2>2 DEF DayKept, dayVars
<1>8. clerk' \in [Clerks -> ClerkRow] /\ clerk'[t] = Off /\ \A u \in Clerks \ {t} : clerk'[u] = clerk[u]
  BY <1>1, <1>2, OffOK
<1>9. ClerkOK(clerk'[t], t, weekly', extra', timeOff', diary', latch')
  BY <1>8, OffOK
<1>10. ClerksOK'
  BY <1>7, <1>8, <1>9, ClerkStep
<1>11. DayOK' /\ BooksOK'
  BY <1>1, <1>5, <1>6 DEF VisitsInv, DayOK, BooksOK, dayVars
<1> QED BY <1>4, <1>10, <1>11 DEF VisitsInv

LEMMA RollbackVisitInv == \A t \in Clerks : VisitsInv /\ RollbackVisit(t) => VisitsInv'
<1> SUFFICES ASSUME NEW t \in Clerks, VisitsInv, RollbackVisit(t) PROVE VisitsInv'
  OBVIOUS
<1>1. /\ latch' = Released(t) /\ clerk' = [clerk EXCEPT ![t] = Off]
      /\ UNCHANGED <<dayVars, diary>> /\ UNCHANGED <<freed, ledger, shown, edits>>
  BY DEF RollbackVisit
<1>2. clerk \in [Clerks -> ClerkRow]
  BY DEF VisitsInv, ClerksOK
<1>3. /\ LatchOK' /\ \A l \in Locks : \A u \in Clerks \ {t} : latch[l] = u => latch'[l] = u
  BY <1>1, ReleasedKeeps DEF VisitsInv
<1>4. clerk' \in [Clerks -> ClerkRow] /\ clerk'[t] = Off /\ \A u \in Clerks \ {t} : clerk'[u] = clerk[u]
  BY <1>1, <1>2, OffOK
<1>5. ClerkOK(clerk'[t], t, weekly', extra', timeOff', diary', latch')
  BY <1>4, OffOK
<1>6. ClerksOK'
  <2>1. \A u \in Clerks \ {t} : \A p \in Stylists : latch[p] = u =>
             latch'[p] = u /\ DayKept(p, weekly, extra, timeOff, diary, weekly', extra', timeOff', diary')
    BY <1>1, <1>3, DaySame DEF Locks
  <2> QED BY <1>4, <1>5, <2>1, ClerkStep
<1>7. DayOK' /\ BooksOK'
  BY <1>1 DEF VisitsInv, DayOK, BooksOK, dayVars
<1> QED BY <1>3, <1>6, <1>7 DEF VisitsInv

-----------------------------------------------------------------------------
(* The edits of the day.                                                       *)

\* An edit leaves the day of whoever is under a transaction's lock.
LEMMA EditStep ==
  ASSUME VisitsInv, edits < MaxEdits, Edit, DayOK', diary' \in SUBSET Slot, freed' \in SUBSET Slot,
         \A p \in Stylists : latch[p] # Nobody =>
             DayKept(p, weekly, extra, timeOff, diary, weekly', extra', timeOff', diary')
  PROVE  VisitsInv'
<1>1. UNCHANGED <<ledger, shown, latch, clerk>> /\ edits' = edits + 1
  BY DEF Edit
<1>2. LatchOK'
  BY <1>1, VisitsAssumption DEF VisitsInv, LatchOK
<1>3. BooksOK'
  BY <1>1 DEF VisitsInv, BooksOK
<1>4. ASSUME NEW t \in Clerks PROVE ClerkOK(clerk[t], t, weekly', extra', timeOff', diary', latch)
  <2>1. ClerkOK(clerk[t], t, weekly, extra, timeOff, diary, latch)
    BY DEF VisitsInv, ClerksOK
  <2>2. t # Nobody
    BY VisitsAssumption
  <2>3. \A p \in Stylists : latch[p] = t => latch[p] = t /\
             DayKept(p, weekly, extra, timeOff, diary, weekly', extra', timeOff', diary')
    BY <2>2
  <2> QED BY <2>1, <2>3, RowKept
<1>5. ClerksOK'
  BY <1>1, <1>4 DEF VisitsInv, ClerksOK
<1> QED BY <1>2, <1>3, <1>5 DEF VisitsInv

LEMMA RowsAre ==
  ASSUME NEW pros \in SUBSET Stylists, NEW span \in Spans
  PROVE  \A row \in Rows(pros, span) : row.pro \in pros /\ row.pro \in Stylists /\ row.span = span /\ row.span \in Spans
BY DEF Rows

LEMMA SlotEdits ==
  ASSUME VisitsInv, NEW a \in diary \cup freed, CancelSlot(a) \/ PromoteInto(a)
  PROVE  VisitsInv'
<1>1. a \in Slot /\ a.pro \in Stylists
  BY SlotType DEF VisitsInv, BooksOK
<1>2. latch[a.pro] = Nobody /\ edits < MaxEdits /\ Edit /\ UNCHANGED dayVars
  BY DEF CancelSlot, PromoteInto, CanEdit
<1>3. diary' \subseteq diary \cup {a} /\ freed' \subseteq freed \cup {a}
  BY DEF CancelSlot, PromoteInto
<1>4. diary' \in SUBSET Slot /\ freed' \in SUBSET Slot
  BY <1>1, <1>3 DEF VisitsInv, BooksOK
<1>5. DayOK'
  BY <1>2 DEF VisitsInv, DayOK, dayVars
<1>6. \A p \in Stylists : latch[p] # Nobody =>
             DayKept(p, weekly, extra, timeOff, diary, weekly', extra', timeOff', diary')
  BY <1>2, <1>3 DEF DayKept, dayVars
<1> QED BY <1>2, <1>4, <1>5, <1>6, EditStep

LEMMA HoursEdits ==
  ASSUME VisitsInv, NEW pros \in SUBSET Stylists, CanEdit(pros), Edit,
         weekly' \in [Stylists -> SUBSET Units], \A p \in Stylists \ pros : weekly'[p] = weekly[p],
         UNCHANGED <<extra, timeOff, closure, diary, freed>>
  PROVE  VisitsInv'
<1>1. edits < MaxEdits /\ \A p \in pros : latch[p] = Nobody
  BY DEF CanEdit
<1>2. diary' \in SUBSET Slot /\ freed' \in SUBSET Slot /\ DayOK'
  BY DEF VisitsInv, BooksOK, DayOK
<1>3. \A p \in Stylists : latch[p] # Nobody =>
             DayKept(p, weekly, extra, timeOff, diary, weekly', extra', timeOff', diary')
  BY <1>1 DEF DayKept
<1> QED BY <1>1, <1>2, <1>3, EditStep

\* Rows of a professional's openings and time off are added and removed.
LEMMA RowEdits ==
  ASSUME VisitsInv, NEW pros \in SUBSET Stylists, CanEdit(pros), Edit,
         \A row \in extra' \cup timeOff' : row.pro \in Stylists /\ row.span \in Spans,
         \A row \in (extra' \ extra) \cup (extra \ extra') \cup (timeOff' \ timeOff) : row.pro \in pros,
         UNCHANGED <<weekly, closure, diary, freed>>
  PROVE  VisitsInv'
<1>1. edits < MaxEdits /\ \A p \in pros : latch[p] = Nobody
  BY DEF CanEdit
<1>2. diary' \in SUBSET Slot /\ freed' \in SUBSET Slot /\ DayOK'
  BY DEF VisitsInv, BooksOK, DayOK
<1>3. ASSUME NEW p \in Stylists, latch[p] # Nobody
      PROVE  DayKept(p, weekly, extra, timeOff, diary, weekly', extra', timeOff', diary')
  <2>1. p \notin pros
    BY <1>1, <1>3
  <2>2. {y \in extra' : y.pro = p} = {y \in extra : y.pro = p}
    BY <2>1
  <2>3. \A row \in timeOff' : row.pro = p => row \in timeOff
    BY <2>1
  <2> QED BY <2>2, <2>3 DEF DayKept
<1> QED BY <1>1, <1>2, <1>3, EditStep

LEMMA ClosureEdits ==
  ASSUME VisitsInv, CanEdit({}), Edit, closure' \subseteq Spans,
         UNCHANGED <<weekly, extra, timeOff, diary, freed>>
  PROVE  VisitsInv'
<1>1. edits < MaxEdits
  BY DEF CanEdit
<1>2. diary' \in SUBSET Slot /\ freed' \in SUBSET Slot /\ DayOK'
  BY DEF VisitsInv, BooksOK, DayOK
<1>3. \A p \in Stylists : latch[p] # Nobody =>
             DayKept(p, weekly, extra, timeOff, diary, weekly', extra', timeOff', diary')
  BY DEF DayKept
<1> QED BY <1>1, <1>2, <1>3, EditStep

LEMMA InvInit == VisitsInit => VisitsInv
<1> SUFFICES ASSUME VisitsInit PROVE VisitsInv
  OBVIOUS
<1>1. DayOK
  BY DEF VisitsInit, DayOK
<1>2. BooksOK
  <2>1. NoPlan \in Seq(Slot)
    BY DEF NoPlan
  <2> QED BY <2>1 DEF VisitsInit, BooksOK
<1>3. LatchOK
  BY VisitsAssumption DEF VisitsInit, LatchOK, Locks
<1>4. ClerksOK
  <2>1. clerk = [t \in Clerks |-> Off]
    BY DEF VisitsInit
  <2>2. \A t \in Clerks : ClerkOK(clerk[t], t, weekly, extra, timeOff, diary, latch)
    BY <2>1, OffOK
  <2> QED BY <2>1, <2>2, OffOK DEF ClerksOK
<1> QED BY <1>1, <1>2, <1>3, <1>4 DEF VisitsInv

LEMMA InvNext == VisitsInv /\ [VisitsNext]_visitVars => VisitsInv'
<1> SUFFICES ASSUME VisitsInv, [VisitsNext]_visitVars PROVE VisitsInv'
  OBVIOUS
<1> USE DEF VisitsInv
<1>1. ASSUME NEW t \in Clerks, PlanVisit(t) \/ CheckPart(t) \/ InsertPart(t) \/ CommitVisit(t) \/ RollbackVisit(t)
      PROVE  VisitsInv'
  BY <1>1, PlanVisitInv, CheckPartInv, InsertPartInv, CommitVisitInv, RollbackVisitInv
<1>2. ASSUME NEW pros \in SUBSET Stylists, NEW hours \in Weeks, SaveTeamHours(pros, hours)
      PROVE  VisitsInv'
  <2>1. hours \in SUBSET Units
    BY VisitsAssumption
  <2>2. weekly \in [Stylists -> SUBSET Units]
    BY DEF DayOK
  <2>3. weekly' \in [Stylists -> SUBSET Units] /\ \A p \in Stylists \ pros : weekly'[p] = weekly[p]
    BY <1>2, <2>1, <2>2 DEF SaveTeamHours
  <2> QED BY <1>2, <2>3, HoursEdits DEF SaveTeamHours
<1>3. ASSUME NEW pros \in SUBSET Stylists, NEW span \in Spans, SaveWeeklyPause(pros, span)
      PROVE  VisitsInv'
  <2>1. weekly \in [Stylists -> SUBSET Units]
    BY DEF DayOK
  <2>2. weekly' \in [Stylists -> SUBSET Units] /\ \A p \in Stylists \ pros : weekly'[p] = weekly[p]
    BY <1>3, <2>1 DEF SaveWeeklyPause
  <2> QED BY <1>3, <2>2, HoursEdits DEF SaveWeeklyPause
<1>4. ASSUME NEW pros \in SUBSET Stylists, NEW span \in Spans, AddTimeOff(pros, span)
      PROVE  VisitsInv'
  <2>1. \A row \in extra' \cup timeOff' : row.pro \in Stylists /\ row.span \in Spans
    BY <1>4, RowsAre DEF DayOK, AddTimeOff
  <2>2. \A row \in (extra' \ extra) \cup (extra \ extra') \cup (timeOff' \ timeOff) : row.pro \in pros
    BY <1>4, RowsAre DEF AddTimeOff
  <2> QED BY <1>4, <2>1, <2>2, RowEdits DEF AddTimeOff
<1>5. ASSUME NEW p \in Stylists, NEW hours \in Weeks, SetWorkingHours(p, hours)
      PROVE  VisitsInv'
  <2>1. hours \in SUBSET Units /\ {p} \in SUBSET Stylists
    BY VisitsAssumption
  <2>2. weekly \in [Stylists -> SUBSET Units]
    BY DEF DayOK
  <2>3. weekly' \in [Stylists -> SUBSET Units] /\ \A q \in Stylists \ {p} : weekly'[q] = weekly[q]
    BY <1>5, <2>1, <2>2 DEF SetWorkingHours
  <2> QED BY <1>5, <2>1, <2>3, HoursEdits DEF SetWorkingHours
<1>6. ASSUME NEW p \in Stylists, NEW span \in Spans, AddOpening(p, span)
      PROVE  VisitsInv'
  <2>0. {p} \in SUBSET Stylists
    OBVIOUS
  <2>1. \A row \in extra' \cup timeOff' : row.pro \in Stylists /\ row.span \in Spans
    BY <1>6, <2>0, RowsAre DEF DayOK, AddOpening
  <2>2. \A row \in (extra' \ extra) \cup (extra \ extra') \cup (timeOff' \ timeOff) : row.pro \in {p}
    BY <1>6, <2>0, RowsAre DEF AddOpening
  <2> QED BY <1>6, <2>0, <2>1, <2>2, RowEdits DEF AddOpening
<1>7. ASSUME NEW row \in extra, RemoveOpening(row)
      PROVE  VisitsInv'
  <2>0. {row.pro} \in SUBSET Stylists
    BY DEF DayOK
  <2>1. \A y \in extra' \cup timeOff' : y.pro \in Stylists /\ y.span \in Spans
    BY <1>7 DEF DayOK, RemoveOpening
  <2>2. \A y \in (extra' \ extra) \cup (extra \ extra') \cup (timeOff' \ timeOff) : y.pro \in {row.pro}
    BY <1>7 DEF RemoveOpening
  <2> QED BY <1>7, <2>0, <2>1, <2>2, RowEdits DEF RemoveOpening
<1>8. ASSUME NEW row \in timeOff, RemoveTimeOff(row)
      PROVE  VisitsInv'
  <2>0. {row.pro} \in SUBSET Stylists
    BY DEF DayOK
  <2>1. \A y \in extra' \cup timeOff' : y.pro \in Stylists /\ y.span \in Spans
    BY <1>8 DEF DayOK, RemoveTimeOff
  <2>2. \A y \in (extra' \ extra) \cup (extra \ extra') \cup (timeOff' \ timeOff) : y.pro \in {row.pro}
    BY <1>8 DEF RemoveTimeOff
  <2> QED BY <1>8, <2>0, <2>1, <2>2, RowEdits DEF RemoveTimeOff
<1>9. ASSUME NEW row \in timeOff, NEW span \in Spans, UpdateTimeOff(row, span)
      PROVE  VisitsInv'
  <2>0. {row.pro} \in SUBSET Stylists
    BY DEF DayOK
  <2>1. \A y \in extra' \cup timeOff' : y.pro \in Stylists /\ y.span \in Spans
    BY <1>9, <2>0, RowsAre DEF DayOK, UpdateTimeOff
  <2>2. \A y \in (extra' \ extra) \cup (extra \ extra') \cup (timeOff' \ timeOff) : y.pro \in {row.pro}
    BY <1>9, <2>0, RowsAre DEF UpdateTimeOff
  <2> QED BY <1>9, <2>0, <2>1, <2>2, RowEdits DEF UpdateTimeOff
<1>10. ASSUME NEW span \in Spans, AddClosure(span) \/ RemoveClosure(span)
       PROVE  VisitsInv'
  <2>1. closure' \subseteq Spans
    BY <1>10 DEF DayOK, AddClosure, RemoveClosure
  <2>2. CanEdit({}) /\ Edit /\ UNCHANGED <<weekly, extra, timeOff, diary, freed>>
    BY <1>10 DEF AddClosure, RemoveClosure
  <2> QED BY <2>1, <2>2, ClosureEdits
<1>11. CASE UNCHANGED visitVars
  BY <1>11 DEF visitVars, dayVars, DayOK, BooksOK, LatchOK, ClerksOK
<1>12. CASE VisitsNext
  BY <1>12, <1>1, <1>2, <1>3, <1>4, <1>5, <1>6, <1>7, <1>8, <1>9, <1>10,
     ShowPlanInv, BeginVisitInv, BeginSingleInv, SlotEdits DEF VisitsNext
<1> QED BY <1>11, <1>12

LEMMA InvAlways == VisitsSpec => []VisitsInv
BY InvInit, InvNext, PTL DEF VisitsSpec

\* The types hold for every instance: whatever is planned, booked or shown is a
\* list of slots, and no transaction writes more than its plan.
THEOREM VisitsTypeCorrect == VisitsSpec => []VisitsTypeOK
BY InvHolds, InvAlways, PTL

\* A plan made under the locks of its professionals holds until its last
\* appointment is written: no booking, promotion, cancellation or edit of the
\* day reaches them, and what the plan checked of its items, buffers and hours
\* is true of the appointments they are grouped into (createVisit).
THEOREM PlansHold == VisitsSpec => []PlanHolds
BY InvHolds, InvAlways, PTL

===============================================================================
