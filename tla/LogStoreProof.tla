---------------------------- MODULE LogStoreProof ----------------------------
(***************************************************************************)
(* The slices of LogStore implement the plain sequences of Log, and nobody *)
(* writes to what another one reads, for any bounds.                       *)
(***************************************************************************)
EXTENDS LogStore, FiniteSetTheorems, SequenceTheorems, WellFoundedInduction, TLAPS

Cell == [Term : 0..MaxTerm]
Slice == [arr : Nat, lo : Nat, len : Nat, cap : Nat]

\* The arrays of a memory are sequences of cells, and finitely many.
Memory(m) == m \in [DOMAIN m -> Seq(Cell)] /\ IsFiniteSet(DOMAIN m)

Fits(m, s) ==
  /\ s \in Slice
  /\ s.arr \in DOMAIN m
  /\ s.len <= s.cap
  /\ s.lo + s.cap <= Len(m[s.arr])

\* Contents in memory m
View(m, s) == SubSeq(m[s.arr], s.lo + 1, s.lo + s.len)

\* s covers no cell of the array of u behind the end of u.
Behind(s, u) == s.arr = u.arr => s.lo + s.len <= u.lo + u.len
\* Something handed out: a slice and what it showed then, which it still does, and
\* none of it in the way of what the event loop may append to u
Loan == [slice : Slice, entries : Seq(Entries) \ {<<>>}]
Intact(m, u, g) == Fits(m, g.slice) /\ View(m, g.slice) = g.entries /\ Behind(g.slice, u)
Lent(m, u, x) == x = <<>> \/ \E g \in Loan : x = <<g>> /\ Intact(m, u, g)

Shown(x) == IF x = <<>> THEN <<>> ELSE x[1].entries

\* The storage's dummy entry has no room behind it, so that storing something ends
\* in an array of its own.
Storage(m, e) ==
  /\ e.len >= 1
  /\ e.len = 1 => e.cap = 1
  /\ View(m, e)[1] = Zero
  /\ Tail(View(m, e)) \in Seq(Entries)

Safe(m, u, e, r, h) ==
  /\ Memory(m)
  /\ Fits(m, u) /\ View(m, u) \in Seq(Entries)
  /\ Fits(m, e) /\ Storage(m, e)
  /\ u.arr # e.arr
  /\ u.len = 0 => e.len = 1 /\ r = <<>>
  /\ Lent(m, u, r)
  /\ Lent(m, u, h)

\* The inductive invariant
Inv ==
  /\ offset = 1
  /\ Safe(mem, unstable, ents, ready, held)
  /\ committed \in 0 .. unstable.len
-----------------------------------------------------------------------------
(* Memory *)

LEMMA MinOfNats ==
  ASSUME NEW S \in SUBSET Nat, S # {}
  PROVE  Min(S) \in S /\ \A x \in S : Min(S) <= x
<1> DEFINE R == OpToRel(<, Nat)
<1>1. \E x \in S : \A y \in S : ~ (<<y, x>> \in R)
  BY NatLessThanWellFounded, WFMin, Zenon
<1>2. \A x, y \in S : y < x => <<y, x>> \in R
  <2> TAKE x, y \in S
  <2> DEFINE ss == <<y, x>>
  <2>1. ss \in Nat \X Nat /\ ss[1] = y /\ ss[2] = x
    OBVIOUS
  <2> HIDE DEF ss
  <2>2. y < x => ss \in R
    BY <2>1 DEF OpToRel
  <2> QED BY <2>2 DEF ss
<1>3. \E x \in S : \A y \in S : ~ (y < x)
  BY <1>1, <1>2, Zenon
<1>4. \E x \in S : \A y \in S : x <= y
  BY <1>3
<1> QED
  BY <1>4 DEF Min

LEMMA ZeroIsCell == Zero \in Cell /\ Entries \subseteq Cell
BY BoundAssumption DEF Zero, Cell, Entries

\* What a slice shows is a sequence of its length, cell by cell.
LEMMA Viewed ==
  ASSUME NEW m, Memory(m), NEW s, Fits(m, s)
  PROVE  /\ View(m, s) \in Seq(Cell)
         /\ Len(View(m, s)) = s.len
         /\ \A k \in 1 .. s.len : s.lo + k \in 1 .. Len(m[s.arr]) /\ View(m, s)[k] = m[s.arr][s.lo + k]
<1>1. /\ m[s.arr] \in Seq(Cell)
      /\ s.lo \in Nat /\ s.len \in Nat /\ s.cap \in Nat
      /\ s.len <= s.cap
      /\ s.lo + s.cap <= Len(m[s.arr])
  BY DEF Memory, Fits, Slice
<1>2. Len(m[s.arr]) \in Nat /\ \A i \in 1 .. Len(m[s.arr]) : m[s.arr][i] \in Cell
  BY <1>1, LenProperties, ElementOfSeq
<1>3. \A i \in s.lo + 1 .. s.lo + s.len : m[s.arr][i] \in Cell
  BY <1>1, <1>2
<1>4. s.lo + 1 \in Int /\ s.lo + s.len \in Int
  BY <1>1
<1> DEFINE q == m[s.arr]
           from == s.lo + 1
           to == s.lo + s.len
<1>5. /\ View(m, s) \in Seq(Cell)
      /\ Len(View(m, s)) = IF from <= to THEN to - from + 1 ELSE 0
      /\ \A i \in 1 .. to - from + 1 : View(m, s)[i] = q[from + i - 1]
  <2>1. View(m, s) = SubSeq(q, from, to)
    BY DEF View
  <2> HIDE DEF q, from, to
  <2> QED BY <1>3, <1>4, <2>1, SubSeqProperties DEF q, from, to
<1>6. ASSUME NEW k \in 1 .. s.len
      PROVE  s.lo + k \in 1 .. Len(m[s.arr]) /\ View(m, s)[k] = m[s.arr][s.lo + k]
  <2>1. k \in 1 .. to - from + 1 /\ from + k - 1 = s.lo + k
    BY <1>1
  <2> HIDE DEF q, from, to
  <2>2. View(m, s)[k] = q[s.lo + k]
    BY <1>5, <2>1
  <2> QED BY <1>1, <1>2, <2>2 DEF q
<1> QED BY <1>1, <1>5, <1>6

\* Slices that show the same cells show the same.
LEMMA SameView ==
  ASSUME NEW m, Memory(m), NEW s, Fits(m, s),
         NEW n, Memory(n), NEW t, Fits(n, t),
         t.len = s.len,
         \A k \in 1 .. s.len : n[t.arr][t.lo + k] = m[s.arr][s.lo + k]
  PROVE  View(n, t) = View(m, s)
<1>1. /\ View(m, s) \in Seq(Cell) /\ View(n, t) \in Seq(Cell)
      /\ Len(View(n, t)) = Len(View(m, s))
      /\ \A k \in 1 .. Len(View(m, s)) : View(n, t)[k] = View(m, s)[k]
  BY Viewed
<1> QED BY <1>1, SeqEqual

\* There is always an array number that is free.
LEMMA FreshIsFree ==
  ASSUME IsFiniteSet(DOMAIN mem)
  PROVE  FreshArr \in Nat /\ FreshArr \notin DOMAIN mem
<1> DEFINE n == Cardinality(DOMAIN mem) + 1
<1>1. Cardinality(DOMAIN mem) \in Nat
  BY FS_CardinalityType
<1>2. IsFiniteSet(1 .. n) /\ Cardinality(1 .. n) = n
  BY <1>1, FS_Interval
<1>3. ~ (1 .. n \subseteq DOMAIN mem)
  <2> SUFFICES ASSUME 1 .. n \in SUBSET DOMAIN mem PROVE FALSE
    OBVIOUS
  <2>1. Cardinality(1 .. n) <= Cardinality(DOMAIN mem)
    BY FS_Subset
  <2> QED BY <1>1, <1>2, <2>1
<1>4. \E a \in 1 .. n : a \notin DOMAIN mem
  BY <1>3
<1>5. FreshArr \in 1 .. n /\ FreshArr \notin DOMAIN mem
  BY <1>4 DEF FreshArr
<1> QED BY <1>1, <1>5

-----------------------------------------------------------------------------
(* What a change of the slices makes of the memory *)

\* Name, Renamed and Kept of Becomes for the slices sl of memory m, and mem'
NameIn(sl, a) == Min({k \in DOMAIN sl : sl[k].arr = a})
RenamedIn(sl, s) == [s EXCEPT !.arr = NameIn(sl, @)]
KeptIn(m, sl, a) ==
  [k \in DOMAIN m[a] |-> IF \E s \in Range(sl) : Covers(s, a, k) THEN m[a][k] ELSE Zero]
Collected(m, sl) ==
  [n \in {NameIn(sl, s.arr) : s \in Range(sl)} |-> KeptIn(m, sl, sl[n].arr)]

\* An array is named after one of its slices, so that no two get the same name.
LEMMA NameOfSlice ==
  ASSUME NEW sl \in Seq(Slice), NEW i \in 1 .. Len(sl)
  PROVE  NameIn(sl, sl[i].arr) \in 1 .. Len(sl) /\ sl[NameIn(sl, sl[i].arr)].arr = sl[i].arr
<1> DEFINE S == {k \in DOMAIN sl : sl[k].arr = sl[i].arr}
<1>1. DOMAIN sl = 1 .. Len(sl) /\ Len(sl) \in Nat
  BY LenProperties
<1>2. S \in SUBSET Nat /\ i \in S
  BY <1>1
<1>3. Min(S) \in S
  BY <1>2, MinOfNats
<1> QED BY <1>1, <1>3 DEF NameIn

LEMMA KeptIsSeq ==
  ASSUME NEW m, Memory(m), NEW sl \in Seq(Slice), NEW a \in DOMAIN m
  PROVE  KeptIn(m, sl, a) \in Seq(Cell) /\ Len(KeptIn(m, sl, a)) = Len(m[a])
<1>1. m[a] \in Seq(Cell)
  BY DEF Memory
<1>2. DOMAIN m[a] = 1 .. Len(m[a]) /\ Len(m[a]) \in Nat /\ \A k \in 1 .. Len(m[a]) : m[a][k] \in Cell
  BY <1>1, LenProperties, ElementOfSeq
<1>3. KeptIn(m, sl, a) \in [1 .. Len(m[a]) -> Cell]
  BY <1>2, ZeroIsCell DEF KeptIn
<1> QED BY <1>2, <1>3

\* The slices come through with what they show, where they start and end, and
\* apart in memory if they were.
LEMMA Collecting ==
  ASSUME NEW m, Memory(m), NEW sl \in Seq(Slice),
         \A k \in 1 .. Len(sl) : Fits(m, sl[k])
  PROVE  /\ Memory(Collected(m, sl))
         /\ \A k \in 1 .. Len(sl) :
              /\ Fits(Collected(m, sl), RenamedIn(sl, sl[k]))
              /\ View(Collected(m, sl), RenamedIn(sl, sl[k])) = View(m, sl[k])
              /\ RenamedIn(sl, sl[k]).lo = sl[k].lo
              /\ RenamedIn(sl, sl[k]).len = sl[k].len
              /\ RenamedIn(sl, sl[k]).cap = sl[k].cap
         /\ \A j, k \in 1 .. Len(sl) :
              RenamedIn(sl, sl[j]).arr = RenamedIn(sl, sl[k]).arr => sl[j].arr = sl[k].arr
<1> DEFINE n == Collected(m, sl)
<1>1. Range(sl) = {sl[k] : k \in 1 .. Len(sl)} /\ Len(sl) \in Nat
  BY RangeEquality, LenProperties
<1>2. \A k \in 1 .. Len(sl) : sl[k] \in Slice
  BY ElementOfSeq
<1>3. \A k \in 1 .. Len(sl) :
        NameIn(sl, sl[k].arr) \in 1 .. Len(sl) /\ sl[NameIn(sl, sl[k].arr)].arr = sl[k].arr
  BY NameOfSlice
<1>4. \A k \in 1 .. Len(sl) :
        /\ NameIn(sl, sl[k].arr) \in DOMAIN n
        /\ n[NameIn(sl, sl[k].arr)] = KeptIn(m, sl, sl[k].arr)
  BY <1>1, <1>3 DEF Collected
<1>5. \A k \in 1 .. Len(sl) : sl[k].arr \in DOMAIN m
  BY DEF Fits
<1>6. Memory(n)
  <2>1. \A a \in DOMAIN n : \E k \in 1 .. Len(sl) : a = NameIn(sl, sl[k].arr)
    BY <1>1 DEF Collected
  <2>2. \A a \in DOMAIN n : n[a] \in Seq(Cell)
    BY <2>1, <1>4, <1>5, KeptIsSeq
  <2>3. DOMAIN n \in SUBSET (1 .. Len(sl))
    BY <2>1, <1>3
  <2>4. IsFiniteSet(DOMAIN n)
    <3>1. 1 \in Int /\ Len(sl) \in Int
      BY <1>1
    <3>2. IsFiniteSet(1 .. Len(sl))
      BY <3>1, FS_Interval
    <3> QED BY <2>3, <3>2, FS_Subset
  <2>5. n = [a \in DOMAIN n |-> n[a]]
    BY DEF Collected
  <2> QED BY <2>2, <2>4, <2>5 DEF Memory
<1>7. \A k \in 1 .. Len(sl) :
        /\ RenamedIn(sl, sl[k]) \in Slice
        /\ RenamedIn(sl, sl[k]).arr = NameIn(sl, sl[k].arr)
        /\ RenamedIn(sl, sl[k]).lo = sl[k].lo
        /\ RenamedIn(sl, sl[k]).len = sl[k].len
        /\ RenamedIn(sl, sl[k]).cap = sl[k].cap
  <2> TAKE k \in 1 .. Len(sl)
  <2>1. sl[k] \in Slice /\ NameIn(sl, sl[k].arr) \in Nat
    BY <1>1, <1>2, <1>3
  <2> QED BY <2>1 DEF RenamedIn, Slice
<1>8. ASSUME NEW k \in 1 .. Len(sl)
      PROVE  Fits(n, RenamedIn(sl, sl[k])) /\ View(n, RenamedIn(sl, sl[k])) = View(m, sl[k])
  <2> DEFINE s == sl[k]
             t == RenamedIn(sl, s)
  <2>1. n[t.arr] = KeptIn(m, sl, s.arr) /\ Len(n[t.arr]) = Len(m[s.arr]) /\ t.arr \in DOMAIN n
    BY <1>4, <1>5, <1>7, KeptIsSeq
  <2>2. Fits(m, s)
    OBVIOUS
  <2>3. Fits(n, t)
    BY <1>7, <2>1, <2>2 DEF Fits
  <2>4. ASSUME NEW i \in 1 .. s.len
        PROVE  n[t.arr][t.lo + i] = m[s.arr][s.lo + i]
    <3>1. s.lo \in Nat /\ s.len \in Nat /\ i \in Nat
      BY <1>2 DEF Slice
    <3>2. s.lo + i \in 1 .. Len(m[s.arr])
      BY <2>2, Viewed
    <3>3. DOMAIN m[s.arr] = 1 .. Len(m[s.arr])
      BY <1>5, LenProperties DEF Memory
    <3>4. Covers(s, s.arr, s.lo + i) /\ s \in Range(sl)
      BY <1>1, <3>1 DEF Covers
    <3>5. KeptIn(m, sl, s.arr)[s.lo + i] = m[s.arr][s.lo + i]
      BY <3>2, <3>3, <3>4 DEF KeptIn
    <3> QED BY <1>7, <2>1, <3>5
  <2> HIDE DEF n, t, s
  <2>5. t.len = s.len
    BY <1>7 DEF t, s
  <2>6. View(n, t) = View(m, s)
    BY <1>6, <2>2, <2>3, <2>4, <2>5, SameView
  <2> QED BY <2>3, <2>6 DEF n, t, s
<1>9. \A j, k \in 1 .. Len(sl) :
        RenamedIn(sl, sl[j]).arr = RenamedIn(sl, sl[k]).arr => sl[j].arr = sl[k].arr
  <2> TAKE j, k \in 1 .. Len(sl)
  <2> HAVE RenamedIn(sl, sl[j]).arr = RenamedIn(sl, sl[k]).arr
  <2>1. NameIn(sl, sl[j].arr) = NameIn(sl, sl[k].arr)
    BY <1>7
  <2> QED BY <1>3, <2>1
<1> QED BY <1>6, <1>7, <1>8, <1>9

SlicesOf(u, e, r, h) ==
  <<u, e>> \o [k \in DOMAIN r |-> r[k].slice] \o [k \in DOMAIN h |-> h[k].slice]

LoansIn(sl, x) == [k \in DOMAIN x |-> [x[k] EXCEPT !.slice = RenamedIn(sl, @)]]

LEMMA BecomesCollects ==
  ASSUME NEW m, NEW u, NEW e, NEW r, NEW h, Becomes(m, u, e, r, h)
  PROVE  LET sl == SlicesOf(u, e, r, h)
         IN  /\ mem' = Collected(m, sl)
             /\ unstable' = RenamedIn(sl, u)
             /\ ents' = RenamedIn(sl, e)
             /\ ready' = LoansIn(sl, r)
             /\ held' = LoansIn(sl, h)
BY DEF Becomes, SlicesOf, LoansIn, Collected, RenamedIn, NameIn, KeptIn

LEMMA LentIsShort ==
  ASSUME NEW m, NEW u, NEW x, Lent(m, u, x)
  PROVE  /\ x \in Seq(Loan)
         /\ Len(x) \in 0..1
         /\ [k \in DOMAIN x |-> x[k].slice] \in Seq(Slice)
         /\ Len([k \in DOMAIN x |-> x[k].slice]) = Len(x)
         /\ x # <<>> => Len(x) = 1 /\ Intact(m, u, x[1]) /\ [k \in DOMAIN x |-> x[k].slice][1] = x[1].slice
<1>1. CASE x = <<>>
  <2>1. [k \in DOMAIN x |-> x[k].slice] = <<>>
    BY <1>1
  <2> QED BY <1>1, <2>1
<1>2. CASE x # <<>>
  <2>1. PICK g \in Loan : x = <<g>> /\ Intact(m, u, g)
    BY <1>2 DEF Lent
  <2>2. g.slice \in Slice
    BY DEF Loan
  <2>3. [k \in DOMAIN x |-> x[k].slice] = <<g.slice>>
    BY <2>1
  <2> QED BY <2>1, <2>2, <2>3
<1> QED BY <1>1, <1>2

LEMMA SlicesOfThem ==
  ASSUME NEW m, NEW u, NEW e, NEW r, NEW h, Safe(m, u, e, r, h)
  PROVE  LET sl == SlicesOf(u, e, r, h)
         IN  /\ sl \in Seq(Slice)
             /\ Len(sl) \in Nat /\ Len(sl) >= 2
             /\ sl[1] = u
             /\ sl[2] = e
             /\ r # <<>> => \E k \in 1 .. Len(sl) : sl[k] = r[1].slice
             /\ h # <<>> => \E k \in 1 .. Len(sl) : sl[k] = h[1].slice
             /\ \A k \in 1 .. Len(sl) : Fits(m, sl[k])
<1> DEFINE rs == [k \in DOMAIN r |-> r[k].slice]
           hs == [k \in DOMAIN h |-> h[k].slice]
           ue == <<u, e>>
           sl == SlicesOf(u, e, r, h)
<1>1. ue \in Seq(Slice) /\ Len(ue) = 2 /\ ue[1] = u /\ ue[2] = e
  BY DEF Safe, Fits
<1>2. /\ rs \in Seq(Slice) /\ Len(rs) \in 0..1
      /\ Len(rs) = 1 => Intact(m, u, r[1]) /\ rs[1] = r[1].slice
      /\ r # <<>> => Len(rs) = 1
  BY LentIsShort DEF Safe
<1>3. /\ hs \in Seq(Slice) /\ Len(hs) \in 0..1
      /\ Len(hs) = 1 => Intact(m, u, h[1]) /\ hs[1] = h[1].slice
      /\ h # <<>> => Len(hs) = 1
  BY LentIsShort DEF Safe
<1>4. sl = ue \o rs \o hs
  BY DEF SlicesOf
<1> HIDE DEF rs, hs, ue, sl
<1>5. /\ ue \o rs \in Seq(Slice)
      /\ Len(ue \o rs) = 2 + Len(rs)
      /\ \A i \in 1 .. 2 + Len(rs) : (ue \o rs)[i] = IF i <= 2 THEN ue[i] ELSE rs[i - 2]
  <2>1. /\ ue \o rs \in Seq(Slice)
        /\ Len(ue \o rs) = Len(ue) + Len(rs)
        /\ \A i \in 1 .. Len(ue) + Len(rs) :
             (ue \o rs)[i] = IF i <= Len(ue) THEN ue[i] ELSE rs[i - Len(ue)]
    <3>1. ue \in Seq(Slice) /\ rs \in Seq(Slice)
      BY <1>1, <1>2
    <3> QED BY <3>1, ConcatProperties
  <2> QED BY <1>1, <2>1
<1>6. /\ sl \in Seq(Slice)
      /\ Len(sl) = 2 + Len(rs) + Len(hs)
      /\ \A i \in 1 .. 2 + Len(rs) + Len(hs) :
           sl[i] = IF i <= 2 + Len(rs) THEN (ue \o rs)[i] ELSE hs[i - (2 + Len(rs))]
  <2> DEFINE uer == ue \o rs
  <2>1. uer \in Seq(Slice) /\ Len(uer) = 2 + Len(rs)
    BY <1>5
  <2> HIDE DEF uer
  <2>2. /\ uer \o hs \in Seq(Slice)
        /\ Len(uer \o hs) = Len(uer) + Len(hs)
        /\ \A i \in 1 .. Len(uer) + Len(hs) :
             (uer \o hs)[i] = IF i <= Len(uer) THEN uer[i] ELSE hs[i - Len(uer)]
    <3>1. uer \in Seq(Slice) /\ hs \in Seq(Slice)
      BY <1>3, <2>1
    <3> QED BY <3>1, ConcatProperties
  <2>3. sl = uer \o hs
    BY <1>4 DEF uer
  <2>4. /\ sl \in Seq(Slice)
        /\ Len(sl) = 2 + Len(rs) + Len(hs)
        /\ \A i \in 1 .. 2 + Len(rs) + Len(hs) :
             sl[i] = IF i <= 2 + Len(rs) THEN uer[i] ELSE hs[i - (2 + Len(rs))]
    BY <2>1, <2>2, <2>3
  <2> QED BY <2>4 DEF uer
<1>7. sl[1] = u /\ sl[2] = e /\ Len(sl) \in Nat /\ Len(sl) >= 2
  BY <1>1, <1>2, <1>3, <1>5, <1>6
<1>8. Len(rs) = 1 => 3 \in 1 .. Len(sl) /\ sl[3] = r[1].slice
  BY <1>2, <1>3, <1>5, <1>6
<1>9. Len(hs) = 1 => Len(sl) \in 1 .. Len(sl) /\ sl[Len(sl)] = h[1].slice
  BY <1>2, <1>3, <1>6
<1>10. ASSUME NEW k \in 1 .. Len(sl) PROVE Fits(m, sl[k])
  <2>1. k = 1 \/ k = 2 \/ (Len(rs) = 1 /\ k = 3) \/ (Len(hs) = 1 /\ k = Len(sl))
    <3>1. Len(rs) \in 0..1 /\ Len(hs) \in 0..1 /\ Len(sl) = 2 + Len(rs) + Len(hs)
      BY <1>2, <1>3, <1>6
    <3>2. Len(rs) \in {0, 1} /\ Len(hs) \in {0, 1} /\ k \in Int
      BY <3>1
    <3>3. k >= 1 /\ k <= 2 + Len(rs) + Len(hs)
      BY <3>1, <3>2
    <3>4. \A a, b \in {0, 1}, i \in Int :
            i >= 1 /\ i <= 2 + a + b
              => i = 1 \/ i = 2 \/ (a = 1 /\ i = 3) \/ (b = 1 /\ i = 2 + a + b)
      OBVIOUS
    <3> QED BY <3>1, <3>2, <3>3, <3>4
  <2>2. Fits(m, u) /\ Fits(m, e)
    BY DEF Safe
  <2> QED BY <1>2, <1>3, <1>7, <1>8, <1>9, <2>1, <2>2 DEF Intact
<1> QED BY <1>2, <1>3, <1>6, <1>7, <1>8, <1>9, <1>10 DEF sl

\* What was handed out is still in the same hands.
LEMMA LoansStay ==
  ASSUME NEW m, NEW u, NEW x, Lent(m, u, x),
         NEW n, NEW v, NEW sl,
         x # <<>> => LET s == RenamedIn(sl, x[1].slice)
                     IN  Fits(n, s) /\ View(n, s) = View(m, x[1].slice) /\ Behind(s, v)
  PROVE  /\ Lent(n, v, LoansIn(sl, x))
         /\ Shown(LoansIn(sl, x)) = Shown(x)
         /\ LoansIn(sl, x) = <<>> <=> x = <<>>
<1> DEFINE y == LoansIn(sl, x)
<1>1. CASE x = <<>>
  <2>1. y = <<>>
    BY <1>1 DEF LoansIn
  <2> QED BY <1>1, <2>1 DEF Lent, Shown
<1>2. CASE x # <<>>
  <2>1. PICK g \in Loan : x = <<g>> /\ Intact(m, u, g)
    BY <1>2 DEF Lent
  <2> DEFINE s == RenamedIn(sl, g.slice)
             f == [g EXCEPT !.slice = s]
  <2>2. Fits(n, s) /\ View(n, s) = View(m, g.slice) /\ Behind(s, v)
    BY <1>2, <2>1
  <2>3. y = <<f>>
    BY <2>1 DEF LoansIn
  <2>4. s \in Slice
    BY <2>2 DEF Fits
  <2> HIDE DEF s
  <2>5. f \in Loan /\ f.slice = s /\ f.entries = g.entries
    BY <2>4 DEF Loan
  <2>6. Intact(n, v, f)
    BY <2>1, <2>2, <2>5 DEF Intact
  <2> HIDE DEF f, y
  <2>7. Lent(n, v, y)
    BY <2>3, <2>5, <2>6 DEF Lent
  <2>8. y # <<>> /\ y[1] = f /\ x[1] = g
    BY <2>1, <2>3
  <2> QED BY <1>2, <2>5, <2>7, <2>8 DEF Shown, y
<1> QED BY <1>1, <1>2

\* Becomes neither changes what a slice shows nor makes a safe memory unsafe.
LEMMA BecomesIsSafe ==
  ASSUME NEW m, NEW u, NEW e, NEW r, NEW h, Safe(m, u, e, r, h), Becomes(m, u, e, r, h)
  PROVE  /\ Safe(mem', unstable', ents', ready', held')
         /\ View(mem', unstable') = View(m, u) /\ unstable'.len = u.len
         /\ View(mem', ents') = View(m, e) /\ ents'.len = e.len
         /\ Shown(ready') = Shown(r) /\ (ready' = <<>> <=> r = <<>>)
<1> DEFINE sl == SlicesOf(u, e, r, h)
           n == Collected(m, sl)
           v == RenamedIn(sl, u)
           f == RenamedIn(sl, e)
           r2 == LoansIn(sl, r)
           h2 == LoansIn(sl, h)
<1>1. mem' = n /\ unstable' = v /\ ents' = f /\ ready' = r2 /\ held' = h2
  BY BecomesCollects
<1>2. /\ sl \in Seq(Slice)
      /\ Len(sl) \in Nat /\ Len(sl) >= 2
      /\ sl[1] = u
      /\ sl[2] = e
      /\ r # <<>> => \E k \in 1 .. Len(sl) : sl[k] = r[1].slice
      /\ h # <<>> => \E k \in 1 .. Len(sl) : sl[k] = h[1].slice
      /\ \A k \in 1 .. Len(sl) : Fits(m, sl[k])
  BY SlicesOfThem
<1>3. Memory(m)
  BY DEF Safe
<1>4. /\ Memory(n)
      /\ \A k \in 1 .. Len(sl) :
           /\ Fits(n, RenamedIn(sl, sl[k]))
           /\ View(n, RenamedIn(sl, sl[k])) = View(m, sl[k])
           /\ RenamedIn(sl, sl[k]).lo = sl[k].lo
           /\ RenamedIn(sl, sl[k]).len = sl[k].len
           /\ RenamedIn(sl, sl[k]).cap = sl[k].cap
      /\ \A j, k \in 1 .. Len(sl) :
           RenamedIn(sl, sl[j]).arr = RenamedIn(sl, sl[k]).arr => sl[j].arr = sl[k].arr
  BY <1>2, <1>3, Collecting
<1> HIDE DEF sl, n
<1>5. 1 \in 1 .. Len(sl) /\ 2 \in 1 .. Len(sl)
  BY <1>2
<1>6. /\ Fits(n, v) /\ View(n, v) = View(m, u) /\ v.lo = u.lo /\ v.len = u.len
      /\ Fits(n, f) /\ View(n, f) = View(m, e) /\ f.len = e.len /\ f.cap = e.cap
      /\ v.arr # f.arr
  BY <1>2, <1>4, <1>5 DEF Safe
<1>7. ASSUME NEW k \in 1 .. Len(sl), Behind(sl[k], u)
      PROVE  Behind(RenamedIn(sl, sl[k]), v)
  BY <1>2, <1>4, <1>5, <1>7 DEF Behind
<1>8. r # <<>> => LET s == RenamedIn(sl, r[1].slice)
                  IN  Fits(n, s) /\ View(n, s) = View(m, r[1].slice) /\ Behind(s, v)
  <2> SUFFICES ASSUME r # <<>>
               PROVE  LET s == RenamedIn(sl, r[1].slice)
                      IN  Fits(n, s) /\ View(n, s) = View(m, r[1].slice) /\ Behind(s, v)
    OBVIOUS
  <2>1. PICK k \in 1 .. Len(sl) : sl[k] = r[1].slice
    BY <1>2
  <2>2. Behind(r[1].slice, u)
    BY LentIsShort DEF Safe, Intact
  <2> HIDE DEF v
  <2> QED BY <1>4, <1>7, <2>1, <2>2
<1>9. h # <<>> => LET s == RenamedIn(sl, h[1].slice)
                  IN  Fits(n, s) /\ View(n, s) = View(m, h[1].slice) /\ Behind(s, v)
  <2> SUFFICES ASSUME h # <<>>
               PROVE  LET s == RenamedIn(sl, h[1].slice)
                      IN  Fits(n, s) /\ View(n, s) = View(m, h[1].slice) /\ Behind(s, v)
    OBVIOUS
  <2>1. PICK k \in 1 .. Len(sl) : sl[k] = h[1].slice
    BY <1>2
  <2>2. Behind(h[1].slice, u)
    BY LentIsShort DEF Safe, Intact
  <2> HIDE DEF v
  <2> QED BY <1>4, <1>7, <2>1, <2>2
<1>10. Lent(m, u, r) /\ Lent(m, u, h)
  BY DEF Safe
<1> HIDE DEF v, f
<1>11. Lent(n, v, r2) /\ Shown(r2) = Shown(r) /\ (r2 = <<>> <=> r = <<>>)
  BY <1>8, <1>10, LoansStay
<1>12. Lent(n, v, h2)
  BY <1>9, <1>10, LoansStay
<1> HIDE DEF r2, h2
<1>13. Safe(n, v, f, r2, h2)
  BY <1>4, <1>6, <1>11, <1>12 DEF Safe, Storage
<1> QED BY <1>1, <1>6, <1>11, <1>13
-----------------------------------------------------------------------------
(* Appending *)

\* append returned the slice d.slice of memory d.mem: it shows vals.
Grown(d, vals, n) ==
  /\ Memory(d.mem)
  /\ Fits(d.mem, d.slice)
  /\ View(d.mem, d.slice) = vals
  /\ d.slice.len = n

\* No other slice is in that array, or changed by it.
Aside(d) ==
  \A s : Fits(mem, s) =>
    /\ Fits(d.mem, s)
    /\ s.arr # d.slice.arr
    /\ View(d.mem, s) = View(mem, s)

\* No slice is changed by it that does not reach behind the end of u.
PastEnd(d, u) ==
  \A s : Fits(mem, s) =>
    /\ Fits(d.mem, s)
    /\ s.arr # u.arr => s.arr # d.slice.arr
    /\ Behind(s, u) => View(d.mem, s) = View(mem, s) /\ Behind(s, d.slice)

LEMMA AsideIsPastEnd == \A d, u : Aside(d) => PastEnd(d, u)
BY DEF Aside, PastEnd, Behind

\* allocate leaves every array alone.
LEMMA Allocated ==
  ASSUME Memory(mem), NEW vals \in Seq(Cell), NEW spare \in Nat
  PROVE  Grown(allocate(vals, spare), vals, Len(vals)) /\ Aside(allocate(vals, spare))
<1> DEFINE free == [k \in 1..spare |-> Zero]
           new == vals \o free
           n == [a \in DOMAIN mem \cup {FreshArr} |-> IF a = FreshArr THEN new ELSE mem[a]]
           s == [arr |-> FreshArr, lo |-> 0, len |-> Len(vals), cap |-> Len(vals) + spare]
<1>1. allocate(vals, spare).mem = n /\ allocate(vals, spare).slice = s
  BY DEF allocate
<1>2. FreshArr \in Nat /\ FreshArr \notin DOMAIN mem
  BY FreshIsFree DEF Memory
<1>3. free \in Seq(Cell) /\ Len(free) = spare
  BY ZeroIsCell
<1>4. Len(vals) \in Nat
  BY LenProperties
<1> HIDE DEF free
<1>5. /\ new \in Seq(Cell) /\ Len(new) = Len(vals) + Len(free)
      /\ \A i \in 1 .. Len(vals) + Len(free) : new[i] = IF i <= Len(vals) THEN vals[i] ELSE free[i - Len(vals)]
  BY <1>3, ConcatProperties
<1> HIDE DEF new
<1>6. DOMAIN n = DOMAIN mem \cup {FreshArr}
  OBVIOUS
<1>7. n[FreshArr] = new /\ \A a \in DOMAIN mem : n[a] = mem[a]
  BY <1>2
<1>8. Memory(n)
  <2>1. IsFiniteSet(DOMAIN n)
    BY <1>6, FS_AddElement DEF Memory
  <2>2. \A a \in DOMAIN n : n[a] \in Seq(Cell)
    BY <1>5, <1>6, <1>7 DEF Memory
  <2>3. n = [a \in DOMAIN n |-> n[a]]
    OBVIOUS
  <2> HIDE DEF n
  <2> QED BY <2>1, <2>2, <2>3 DEF Memory
<1>9. s \in Slice /\ s.arr = FreshArr /\ s.lo = 0 /\ s.len = Len(vals) /\ s.cap = Len(vals) + spare
  BY <1>2, <1>4 DEF Slice
<1> HIDE DEF n, s
<1>10. Fits(n, s)
  BY <1>3, <1>4, <1>5, <1>6, <1>7, <1>9 DEF Fits
<1>11. View(n, s) = vals
  <2>1. /\ View(n, s) \in Seq(Cell)
        /\ Len(View(n, s)) = s.len
        /\ \A k \in 1 .. s.len : View(n, s)[k] = n[s.arr][s.lo + k]
    BY <1>8, <1>10, Viewed
  <2>2. \A k \in 1 .. Len(vals) : View(n, s)[k] = vals[k]
    <3> TAKE k \in 1 .. Len(vals)
    <3>1. View(n, s)[k] = new[k]
      BY <1>7, <1>9, <2>1
    <3>2. k \in 1 .. Len(vals) + Len(free)
      BY <1>3, <1>4
    <3> QED BY <1>5, <3>1, <3>2
  <2> QED BY <1>9, <2>1, <2>2, SeqEqual
<1>12. \A x : Fits(mem, x) => Fits(n, x) /\ x.arr # s.arr /\ View(n, x) = View(mem, x)
  BY <1>2, <1>6, <1>7, <1>9 DEF Fits, View
<1> QED BY <1>1, <1>8, <1>9, <1>10, <1>11, <1>12 DEF Grown, Aside

\* Where there is room, append writes behind the slice only.
LEMMA AppendedInPlace ==
  ASSUME Memory(mem), NEW s, Fits(mem, s), NEW vals \in Seq(Cell), NEW spare \in Nat,
         s.len + Len(vals) <= s.cap
  PROVE  /\ Grown(goAppend(s, vals, spare), View(mem, s) \o vals, s.len + Len(vals))
         /\ PastEnd(goAppend(s, vals, spare), s)
<1> DEFINE end == s.lo + s.len
           old == mem[s.arr]
           new == [k \in DOMAIN old |-> IF k - end \in DOMAIN vals THEN vals[k - end] ELSE old[k]]
           n == [mem EXCEPT ![s.arr] = new]
           t == [s EXCEPT !.len = @ + Len(vals)]
<1>1. goAppend(s, vals, spare).mem = n /\ goAppend(s, vals, spare).slice = t
  BY DEF goAppend
<1>2. /\ s \in Slice /\ s.arr \in DOMAIN mem
      /\ s.lo \in Nat /\ s.len \in Nat /\ s.cap \in Nat
      /\ s.len <= s.cap /\ s.lo + s.cap <= Len(old)
  BY DEF Fits, Slice
<1>3. /\ old \in Seq(Cell) /\ DOMAIN old = 1 .. Len(old) /\ Len(old) \in Nat
      /\ \A k \in 1 .. Len(old) : old[k] \in Cell
  BY <1>2, LenProperties, ElementOfSeq DEF Memory
<1>4. DOMAIN vals = 1 .. Len(vals) /\ Len(vals) \in Nat /\ \A k \in 1 .. Len(vals) : vals[k] \in Cell
  BY LenProperties, ElementOfSeq
<1>5. end \in Nat
  BY <1>2
<1> HIDE DEF old, end
<1>6. new \in [1 .. Len(old) -> Cell]
  BY <1>3, <1>4
<1>7. new \in Seq(Cell) /\ Len(new) = Len(old)
  BY <1>3, <1>6
<1>8. \A k \in 1 .. Len(old) : k <= end => new[k] = old[k]
  BY <1>3, <1>4, <1>5
<1>9. \A k \in 1 .. Len(vals) : end + k \in 1 .. Len(old) => new[end + k] = vals[k]
  BY <1>3, <1>4, <1>5
<1> HIDE DEF new
<1>10. /\ DOMAIN n = DOMAIN mem
       /\ n[s.arr] = new
       /\ \A a \in DOMAIN mem : a # s.arr => n[a] = mem[a]
  BY <1>2
<1>11. Memory(n)
  <2>1. n = [a \in DOMAIN n |-> n[a]]
    OBVIOUS
  <2>2. \A a \in DOMAIN n : n[a] \in Seq(Cell)
    BY <1>7, <1>10 DEF Memory
  <2> HIDE DEF n
  <2> QED BY <1>10, <2>1, <2>2 DEF Memory
<1>12. t \in Slice /\ t.arr = s.arr /\ t.lo = s.lo /\ t.len = s.len + Len(vals) /\ t.cap = s.cap
  BY <1>2, <1>4 DEF Slice
<1> HIDE DEF n, t
<1>13. \A x : Fits(mem, x) => Fits(n, x)
  BY <1>7, <1>10 DEF Fits, old
<1>14. Fits(n, t)
  <2>1. Fits(n, s)
    BY <1>13
  <2> QED BY <1>2, <1>4, <1>12, <2>1 DEF Fits
<1>15. ASSUME NEW x, Fits(mem, x), Behind(x, s)
       PROVE  View(n, x) = View(mem, x) /\ Behind(x, t)
  <2>1. x.lo \in Nat /\ x.len \in Nat /\ x.arr \in DOMAIN mem
    BY <1>15 DEF Fits, Slice
  <2>2. Behind(x, t)
    BY <1>2, <1>4, <1>12, <1>15, <2>1 DEF Behind
  <2>3. ASSUME NEW k \in 1 .. x.len PROVE n[x.arr][x.lo + k] = mem[x.arr][x.lo + k]
    <3>1. x.lo + k \in 1 .. Len(mem[x.arr])
      BY <1>15, Viewed
    <3>2. CASE x.arr = s.arr
      <4>1. x.lo + k <= end
        BY <1>15, <2>1, <3>2, <1>2 DEF Behind, end
      <4> QED BY <1>8, <1>10, <3>1, <3>2, <4>1 DEF old
    <3> QED BY <1>10, <2>1, <3>2
  <2>4. Fits(n, x)
    BY <1>13, <1>15
  <2>5. View(n, x) = View(mem, x)
    BY <1>11, <1>15, <2>3, <2>4, SameView
  <2> QED BY <2>2, <2>5
<1>16. View(n, t) = View(mem, s) \o vals
  <2>1. /\ View(n, t) \in Seq(Cell)
        /\ Len(View(n, t)) = t.len
        /\ \A k \in 1 .. t.len : t.lo + k \in 1 .. Len(n[t.arr]) /\ View(n, t)[k] = n[t.arr][t.lo + k]
    BY <1>11, <1>14, Viewed
  <2>2. /\ View(mem, s) \in Seq(Cell)
        /\ Len(View(mem, s)) = s.len
        /\ \A k \in 1 .. s.len : s.lo + k \in 1 .. Len(old) /\ View(mem, s)[k] = old[s.lo + k]
    BY Viewed DEF old
  <2>3. /\ View(mem, s) \o vals \in Seq(Cell)
        /\ Len(View(mem, s) \o vals) = s.len + Len(vals)
        /\ \A k \in 1 .. s.len + Len(vals) :
             (View(mem, s) \o vals)[k] = IF k <= s.len THEN View(mem, s)[k] ELSE vals[k - s.len]
    <3> DEFINE v == View(mem, s)
    <3>1. v \in Seq(Cell) /\ Len(v) = s.len
      BY <2>2
    <3> HIDE DEF v
    <3>2. /\ v \o vals \in Seq(Cell)
          /\ Len(v \o vals) = Len(v) + Len(vals)
          /\ \A k \in 1 .. Len(v) + Len(vals) : (v \o vals)[k] = IF k <= Len(v) THEN v[k] ELSE vals[k - Len(v)]
      BY <3>1, ConcatProperties
    <3>3. /\ v \o vals \in Seq(Cell)
          /\ Len(v \o vals) = s.len + Len(vals)
          /\ \A k \in 1 .. s.len + Len(vals) : (v \o vals)[k] = IF k <= s.len THEN v[k] ELSE vals[k - s.len]
      BY <3>1, <3>2
    <3> QED BY <3>3 DEF v
  <2>4. ASSUME NEW k \in 1 .. s.len + Len(vals)
        PROVE  View(n, t)[k] = (View(mem, s) \o vals)[k]
    <3>1. View(n, t)[k] = new[s.lo + k] /\ s.lo + k \in 1 .. Len(old)
      BY <1>7, <1>10, <1>12, <2>1
    <3>2. CASE k <= s.len
      <4>1. k \in 1 .. s.len /\ s.lo + k <= end
        BY <1>2, <1>4, <3>2 DEF end
      <4> QED BY <1>8, <2>2, <2>3, <3>1, <3>2, <4>1
    <3>3. CASE ~ (k <= s.len)
      <4>1. k - s.len \in 1 .. Len(vals) /\ s.lo + k = end + (k - s.len)
        BY <1>2, <1>4, <3>3 DEF end
      <4>2. new[s.lo + k] = vals[k - s.len]
        BY <1>9, <3>1, <4>1
      <4> QED BY <2>3, <3>1, <3>3, <4>2
    <3> QED BY <3>2, <3>3
  <2> DEFINE v == View(n, t)
             w == View(mem, s) \o vals
  <2>5. v \in Seq(Cell) /\ w \in Seq(Cell) /\ Len(v) = Len(w) /\ Len(v) = s.len + Len(vals)
    BY <1>12, <2>1, <2>3
  <2>6. \A k \in 1 .. Len(v) : v[k] = w[k]
    BY <2>4, <2>5
  <2> HIDE DEF v, w
  <2>7. v = w
    BY <2>5, <2>6, SeqEqual
  <2> QED BY <2>7 DEF v, w
<1> QED BY <1>1, <1>11, <1>12, <1>13, <1>14, <1>15, <1>16 DEF Grown, PastEnd

\* Where there is none, it moves to an array of its own.
LEMMA AppendedAside ==
  ASSUME Memory(mem), NEW s, Fits(mem, s), NEW vals \in Seq(Cell), NEW spare \in Nat,
         s.len + Len(vals) > s.cap
  PROVE  /\ Grown(goAppend(s, vals, spare), View(mem, s) \o vals, s.len + Len(vals))
         /\ Aside(goAppend(s, vals, spare))
<1>1. s.len \in Nat /\ s.cap \in Nat /\ Len(vals) \in Nat
  BY LenProperties DEF Fits, Slice
<1> DEFINE all == Contents(s) \o vals
           d == allocate(all, spare)
<1>2. goAppend(s, vals, spare) = d
  BY <1>1 DEF goAppend
<1>3. View(mem, s) \in Seq(Cell) /\ Len(View(mem, s)) = s.len
  BY Viewed
<1>4. Contents(s) = View(mem, s)
  BY DEF Contents, View
<1>5. all \in Seq(Cell) /\ Len(all) = s.len + Len(vals)
  BY <1>3, <1>4, ConcatProperties
<1>6. all = View(mem, s) \o vals
  BY <1>4
<1> HIDE DEF all
<1>7. Grown(d, all, Len(all)) /\ Aside(d)
  BY <1>5, Allocated
<1> QED BY <1>2, <1>5, <1>6, <1>7
-----------------------------------------------------------------------------
(* The log *)

LEMMA LogFacts ==
  ASSUME Inv
  PROVE  /\ unstable.len \in Nat /\ ents.len \in Nat /\ ents.len >= 1
         /\ lastIndex = unstable.len
         /\ \A i \in Int : inUnstable(i) <=> i \in 1 .. unstable.len
         /\ \A i \in Int : hasTerm(i) <=> i \in 0 .. unstable.len
         /\ Contents(unstable) \in Seq(Entries)
         /\ Len(Contents(unstable)) = unstable.len
         /\ \A i \in 1 .. unstable.len : term(i) = Contents(unstable)[i].Term
         /\ term(0) = 0
<1>1. /\ unstable.len \in Nat /\ ents.len \in Nat /\ ents.len >= 1 /\ offset = 1
      /\ unstable.len = 0 => ents.len = 1
  BY DEF Inv, Safe, Fits, Slice, Storage
<1>2. lastIndex = unstable.len
  BY <1>1 DEF lastIndex, storageLast
<1>3. \A i \in Int : inUnstable(i) <=> i \in 1 .. unstable.len
  BY <1>1 DEF inUnstable
<1>4. \A i \in Int : hasTerm(i) <=> i \in 0 .. unstable.len
  BY <1>1, <1>2, <1>3 DEF hasTerm, Min2, storageLast
<1>5. Contents(unstable) \in Seq(Entries) /\ Len(Contents(unstable)) = unstable.len
  BY Viewed DEF Inv, Safe, View, Contents
<1>6. \A i \in 1 .. unstable.len : term(i) = Contents(unstable)[i].Term
  BY <1>1, <1>3 DEF term
<1>7. term(0) = 0
  BY <1>1, <1>3 DEF term, Inv, Safe, Storage, View, Contents, Zero
<1> QED BY <1>1, <1>2, <1>3, <1>4, <1>5, <1>6, <1>7

LEMMA LentStays ==
  ASSUME NEW m, NEW u, NEW x, Lent(m, u, x), NEW n, NEW v,
         \A s : Fits(m, s) /\ Behind(s, u) => Fits(n, s) /\ View(n, s) = View(m, s) /\ Behind(s, v)
  PROVE  Lent(n, v, x)
<1>1. CASE x = <<>>
  BY <1>1 DEF Lent
<1>2. ASSUME NEW g \in Loan, x = <<g>>, Intact(m, u, g)
      PROVE  Lent(n, v, x)
  <2>1. Intact(n, v, g)
    BY <1>2 DEF Intact
  <2> QED BY <1>2, <2>1 DEF Lent
<1> QED BY <1>1, <1>2 DEF Lent

\* The first cells of a slice are a slice that shows them.
LEMMA Shortened ==
  ASSUME NEW m, Memory(m), NEW s, Fits(m, s), NEW k \in 0 .. s.len,
         NEW c \in k .. s.cap, NEW t \in Slice,
         t.arr = s.arr, t.lo = s.lo, t.len = k, t.cap = c
  PROVE  Fits(m, t) /\ View(m, t) = SubSeq(View(m, s), 1, k)
<1>1. s.lo \in Nat /\ s.len \in Nat /\ s.cap \in Nat
  BY DEF Fits, Slice
<1>2. Memory(m) /\ m[s.arr] \in Seq(Cell) /\ Len(m[s.arr]) \in Nat
  BY LenProperties DEF Memory, Fits
<1>3. Fits(m, t)
  BY <1>1, <1>2 DEF Fits
<1> DEFINE v == View(m, s)
           w == View(m, t)
<1>4. v \in Seq(Cell) /\ Len(v) = s.len /\ \A i \in 1 .. s.len : v[i] = m[s.arr][s.lo + i]
  BY Viewed
<1>5. w \in Seq(Cell) /\ Len(w) = k /\ \A i \in 1 .. k : w[i] = m[s.arr][s.lo + i]
  BY <1>3, Viewed
<1> HIDE DEF v, w
<1>6. \A i \in 1 .. k : v[i] \in Cell
  BY <1>1, <1>4, ElementOfSeq
<1>7. /\ SubSeq(v, 1, k) \in Seq(Cell)
      /\ Len(SubSeq(v, 1, k)) = IF 1 <= k THEN k - 1 + 1 ELSE 0
      /\ \A i \in 1 .. k - 1 + 1 : SubSeq(v, 1, k)[i] = v[1 + i - 1]
  BY <1>1, <1>6, SubSeqProperties
<1>8. Len(SubSeq(v, 1, k)) = k
  BY <1>1, <1>7
<1>9. ASSUME NEW i \in 1 .. k PROVE SubSeq(v, 1, k)[i] = w[i]
  <2>1. i \in 1 .. k - 1 + 1 /\ 1 + i - 1 = i /\ i \in 1 .. s.len
    BY <1>1
  <2>2. SubSeq(v, 1, k)[i] = v[i]
    BY <1>7, <2>1
  <2> QED BY <1>4, <1>5, <2>1, <2>2
<1>10. SubSeq(v, 1, k) = w
  BY <1>5, <1>7, <1>8, <1>9, SeqEqual
<1> QED BY <1>3, <1>10 DEF v, w

LEMMA FirstOnly ==
  ASSUME NEW S, NEW v \in Seq(S), Len(v) >= 1
  PROVE  SubSeq(v, 1, 1) = <<v[1]>>
<1>1. v[1] \in S
  BY LenProperties, ElementOfSeq
<1>2. /\ SubSeq(v, 1, 1) \in Seq(S) /\ Len(SubSeq(v, 1, 1)) = 1
      /\ SubSeq(v, 1, 1)[1] = v[1]
  <2>1. /\ SubSeq(v, 1, 1) \in Seq(S)
        /\ Len(SubSeq(v, 1, 1)) = IF 1 <= 1 THEN 1 - 1 + 1 ELSE 0
        /\ \A i \in 1 .. 1 - 1 + 1 : SubSeq(v, 1, 1)[i] = v[1 + i - 1]
    BY <1>1, SubSeqProperties
  <2> QED BY <2>1
<1>3. <<v[1]>> \in Seq(S) /\ Len(<<v[1]>>) = 1 /\ <<v[1]>>[1] = v[1]
  BY <1>1
<1> DEFINE a == SubSeq(v, 1, 1)
           b == <<v[1]>>
<1>4. a \in Seq(S) /\ b \in Seq(S) /\ Len(a) = 1 /\ Len(b) = 1 /\ a[1] = b[1]
  BY <1>2, <1>3
<1> HIDE DEF a, b
<1>5. a = b
  BY <1>4, SeqEqual
<1> QED BY <1>5 DEF a, b

\* The entries of one more, or of one instead of some at the end
LEMMA EntriesAfter ==
  ASSUME NEW v \in Seq(Entries), NEW from \in 1 .. Len(v) + 1, NEW e \in Entries
  PROVE  /\ SubSeq(v, 1, from - 1) \in Seq(Entries)
         /\ Len(SubSeq(v, 1, from - 1)) = from - 1
         /\ SubSeq(v, 1, from - 1) \o <<e>> \in Seq(Entries)
         /\ Len(SubSeq(v, 1, from - 1) \o <<e>>) = from
<1>1. Len(v) \in Nat /\ \A i \in 1 .. Len(v) : v[i] \in Entries
  BY LenProperties, ElementOfSeq
<1>2. PICK k \in Nat : k = from - 1
  BY <1>1
<1>3. \A i \in 1 .. k : v[i] \in Entries
  BY <1>1, <1>2
<1>4. /\ SubSeq(v, 1, k) \in Seq(Entries)
      /\ Len(SubSeq(v, 1, k)) = IF 1 <= k THEN k - 1 + 1 ELSE 0
  BY <1>3, SubSeqProperties
<1> DEFINE w == SubSeq(v, 1, k)
<1>5. w \in Seq(Entries) /\ Len(w) = k
  BY <1>4
<1> HIDE DEF w
<1>6. w \o <<e>> \in Seq(Entries) /\ Len(w \o <<e>>) = k + 1
  BY <1>5
<1> QED BY <1>2, <1>5, <1>6 DEF w

\* raftLog.append puts an entry at index from in the way Log says, wherever the
\* slice is cut off, written to or moved.
LEMMA TruncatedAndAppended ==
  ASSUME Inv, NEW e \in Entries, NEW spare \in 0..MaxSpare, NEW from \in 1 .. unstable.len + 1
  PROVE  /\ Grown(truncateAndAppend(from, <<e>>, spare),
                  SubSeq(View(mem, unstable), 1, from - 1) \o <<e>>, from)
         /\ PastEnd(truncateAndAppend(from, <<e>>, spare), unstable)
<1>1. /\ offset = 1 /\ Memory(mem) /\ Fits(mem, unstable)
      /\ View(mem, unstable) \in Seq(Entries) /\ Len(View(mem, unstable)) = unstable.len
      /\ unstable \in Slice
      /\ unstable.arr \in Nat /\ unstable.lo \in Nat /\ unstable.len \in Nat /\ unstable.cap \in Nat
      /\ unstable.len <= unstable.cap
  BY Viewed DEF Inv, Safe, Fits, Slice
<1>2. spare \in Nat
  BY BoundAssumption
<1> DEFINE new == <<e>>
<1>3. new \in Seq(Cell) /\ Len(new) = 1
  BY ZeroIsCell
<1> HIDE DEF new
<1>4. CASE from = 1 + unstable.len
  <2>1. truncateAndAppend(from, new, spare) = goAppend(unstable, new, spare)
    BY <1>1, <1>4 DEF truncateAndAppend
  <2>2. SubSeq(View(mem, unstable), 1, from - 1) = View(mem, unstable)
    <3>1. from - 1 = Len(View(mem, unstable))
      BY <1>1, <1>4
    <3> QED BY <1>1, <3>1, SubSeqFull
  <2>3. unstable.len + Len(new) = from
    BY <1>1, <1>3, <1>4
  <2>4. CASE unstable.len + Len(new) <= unstable.cap
    <3>1. /\ Grown(goAppend(unstable, new, spare), View(mem, unstable) \o new, unstable.len + Len(new))
          /\ PastEnd(goAppend(unstable, new, spare), unstable)
      BY <1>1, <1>2, <1>3, <2>4, AppendedInPlace
    <3> QED BY <2>1, <2>2, <2>3, <3>1 DEF new
  <2>5. CASE unstable.len + Len(new) > unstable.cap
    <3>1. /\ Grown(goAppend(unstable, new, spare), View(mem, unstable) \o new, unstable.len + Len(new))
          /\ Aside(goAppend(unstable, new, spare))
      BY <1>1, <1>2, <1>3, <2>5, AppendedAside
    <3> QED BY <2>1, <2>2, <2>3, <3>1, AsideIsPastEnd DEF new
  <2> QED BY <1>1, <1>3, <2>4, <2>5
<1>5. CASE from # 1 + unstable.len /\ from <= 1
  <2>1. truncateAndAppend(from, new, spare) = allocate(new, spare)
    BY <1>1, <1>5 DEF truncateAndAppend
  <2>2. Grown(allocate(new, spare), new, Len(new)) /\ Aside(allocate(new, spare))
    BY <1>1, <1>2, <1>3, Allocated
  <2>3. from = 1
    BY <1>1, <1>5
  <2>4. SubSeq(View(mem, unstable), 1, from - 1) = <<>>
    BY <2>3, SubSeqEmpty
  <2>5. <<>> \o new = new
    BY <1>3, ConcatEmptySeq
  <2> QED BY <1>3, <2>1, <2>2, <2>3, <2>4, <2>5, AsideIsPastEnd DEF new
<1>6. CASE from # 1 + unstable.len /\ ~ (from <= 1)
  <2> DEFINE s == unstableSlice(offset, from)
  <2>1. truncateAndAppend(from, new, spare) = goAppend(s, new, spare)
    BY <1>1, <1>6 DEF truncateAndAppend
  <2>2. from - 1 \in 0 .. unstable.len /\ from - 1 \in Nat
    BY <1>1
  <2>3. /\ s \in Slice
        /\ s.arr = unstable.arr /\ s.lo = unstable.lo /\ s.len = from - 1 /\ s.cap = from - 1
    <3>1. s = [arr |-> unstable.arr, lo |-> unstable.lo + 0, len |-> from - 1, cap |-> from - 1]
      BY <1>1, <2>2 DEF unstableSlice, Sub
    <3> HIDE DEF s
    <3> QED BY <1>1, <2>2, <3>1 DEF Slice
  <2> HIDE DEF s
  <2>4. Fits(mem, s) /\ View(mem, s) = SubSeq(View(mem, unstable), 1, from - 1)
    <3>1. from - 1 \in from - 1 .. unstable.cap
      BY <1>1, <2>2
    <3> QED BY <1>1, <2>2, <2>3, <3>1, Shortened
  <2>5. s.len + Len(new) > s.cap /\ s.len + Len(new) = from
    BY <1>3, <2>2, <2>3
  <2>6. /\ Grown(goAppend(s, new, spare), View(mem, s) \o new, s.len + Len(new))
        /\ Aside(goAppend(s, new, spare))
    BY <1>1, <1>2, <1>3, <2>4, <2>5, AppendedAside
  <2> QED BY <2>1, <2>4, <2>5, <2>6, AsideIsPastEnd DEF new
<1> QED BY <1>4, <1>5, <1>6

LEMMA AppendStep ==
  ASSUME Inv, NEW e \in Entries, NEW spare \in 0..MaxSpare, NEW from \in 1 .. unstable.len + 1,
         committed <= from, append(from, <<e>>, spare)
  PROVE  /\ Inv'
         /\ View(mem', unstable') = SubSeq(View(mem, unstable), 1, from - 1) \o <<e>>
         /\ View(mem', ents') = View(mem, ents)
         /\ Shown(ready') = Shown(ready)
<1>1. /\ offset = 1 /\ committed \in Nat
      /\ Safe(mem, unstable, ents, ready, held)
      /\ Memory(mem) /\ Fits(mem, unstable) /\ unstable.len \in Nat
      /\ Fits(mem, ents) /\ ents.arr # unstable.arr
      /\ View(mem, unstable) \in Seq(Entries)
  BY DEF Inv, Safe, Fits, Slice
<1>len. Len(View(mem, unstable)) = unstable.len
  BY <1>1, Viewed
<1>2. PICK d : d = truncateAndAppend(from, <<e>>, spare)
  OBVIOUS
<1> DEFINE n == d.mem
           v == d.slice
<1>3. /\ Memory(n)
      /\ Fits(n, v)
      /\ View(n, v) = SubSeq(View(mem, unstable), 1, from - 1) \o <<e>>
      /\ v.len = from
      /\ \A s : Fits(mem, s) =>
           /\ Fits(n, s)
           /\ s.arr # unstable.arr => s.arr # v.arr
           /\ Behind(s, unstable) => View(n, s) = View(mem, s) /\ Behind(s, v)
  <2>1. Grown(d, SubSeq(View(mem, unstable), 1, from - 1) \o <<e>>, from) /\ PastEnd(d, unstable)
    BY <1>2, TruncatedAndAppended
  <2> QED BY <2>1 DEF Grown, PastEnd
<1>becomes. Becomes(n, v, ents, ready, held) /\ offset' = offsetAfter(from) /\ committed' = committed
  BY <1>2 DEF append
<1> HIDE DEF n, v
<1>4. View(n, v) \in Seq(Entries)
  BY <1>len, <1>1, <1>3, EntriesAfter
<1>5. Lent(n, v, ready) /\ Lent(n, v, held)
  BY <1>1, <1>3, LentStays DEF Safe
<1>6. Fits(n, ents) /\ View(n, ents) = View(mem, ents) /\ ents.arr # v.arr
  BY <1>1, <1>3 DEF Behind
<1>7. Safe(n, v, ents, ready, held)
  <2>1. v.len # 0
    BY <1>1, <1>3
  <2> QED BY <1>1, <1>3, <1>4, <1>5, <1>6, <2>1 DEF Safe, Storage
<1>9. /\ Safe(mem', unstable', ents', ready', held')
      /\ View(mem', unstable') = View(n, v) /\ unstable'.len = v.len
      /\ View(mem', ents') = View(n, ents)
      /\ Shown(ready') = Shown(ready)
  BY <1>7, <1>becomes, BecomesIsSafe
<1>10. offset' = 1
  BY <1>1, <1>becomes DEF offsetAfter, Min2
<1>11. committed' \in 0 .. unstable'.len
  BY <1>1, <1>3, <1>becomes, <1>9
<1> QED BY <1>3, <1>6, <1>9, <1>10, <1>11 DEF Inv

\* Something is handed out or given back, and the log stays as it is.
LEMMA LendStep ==
  ASSUME Inv, NEW r, NEW h, Becomes(mem, unstable, ents, r, h),
         Lent(mem, unstable, r), Lent(mem, unstable, h),
         unstable.len = 0 => r = <<>>,
         UNCHANGED <<offset, committed>>
  PROVE  /\ Inv'
         /\ View(mem', unstable') = View(mem, unstable)
         /\ View(mem', ents') = View(mem, ents)
         /\ Shown(ready') = Shown(r)
<1>1. Safe(mem, unstable, ents, r, h)
  BY DEF Inv, Safe
<1>2. /\ Safe(mem', unstable', ents', ready', held')
      /\ View(mem', unstable') = View(mem, unstable) /\ unstable'.len = unstable.len
      /\ View(mem', ents') = View(mem, ents)
      /\ Shown(ready') = Shown(r)
  BY <1>1, BecomesIsSafe
<1> QED BY <1>2 DEF Inv

LEMMA HeldIsLoan ==
  ASSUME Inv, NEW s, Fits(mem, s), View(mem, s) \in Seq(Entries), s.len # 0, Behind(s, unstable)
  PROVE  Lent(mem, unstable, <<Hold(s)>>) /\ Shown(<<Hold(s)>>) = View(mem, s)
<1> DEFINE g == Hold(s)
<1>1. g.slice = s /\ g.entries = View(mem, s)
  BY DEF Hold, Contents, View
<1>2. s \in Slice /\ View(mem, s) # <<>>
  <2>1. Len(View(mem, s)) = s.len
    BY Viewed DEF Inv, Safe
  <2> QED BY <2>1 DEF Fits
<1>3. g \in Loan
  BY <1>2 DEF Loan, Hold, Contents, View
<1>4. Intact(mem, unstable, g)
  BY <1>1 DEF Intact
<1> HIDE DEF g
<1>5. Lent(mem, unstable, <<g>>) /\ Shown(<<g>>) = View(mem, s)
  BY <1>1, <1>3, <1>4 DEF Lent, Shown
<1> QED BY <1>5 DEF g

LEMMA ReadyStep ==
  ASSUME Inv, Ready
  PROVE  /\ Inv'
         /\ View(mem', unstable') = View(mem, unstable)
         /\ View(mem', ents') = View(mem, ents)
         /\ Shown(ready') = View(mem, unstable)
<1> DEFINE s == Sub(unstable, 0, unstable.len, unstable.cap)
<1>1. /\ Memory(mem) /\ Fits(mem, unstable) /\ Lent(mem, unstable, held)
      /\ View(mem, unstable) \in Seq(Entries)
      /\ unstable \in Slice /\ unstable.len <= unstable.cap
  BY DEF Inv, Safe, Fits
<1>2. /\ unstable.arr \in Nat /\ unstable.lo \in Nat /\ unstable.len \in Nat /\ unstable.cap \in Nat
  BY <1>1 DEF Slice
<1>3. /\ s \in Slice /\ s.arr = unstable.arr /\ s.lo = unstable.lo
      /\ s.len = unstable.len /\ s.cap = unstable.cap
  BY <1>2 DEF Sub, Slice
<1>4. /\ Becomes(mem, unstable, ents, <<Hold(s)>>, held)
      /\ UNCHANGED <<offset, committed>> /\ unstable.len # 0
  BY DEF Ready
<1> HIDE DEF s
<1>5. Fits(mem, s) /\ View(mem, s) = SubSeq(View(mem, unstable), 1, unstable.len)
  <2>1. unstable.len \in 0 .. unstable.len /\ unstable.cap \in unstable.len .. unstable.cap
    BY <1>1, <1>2
  <2> QED BY <1>1, <1>3, <2>1, Shortened
<1>6. View(mem, s) = View(mem, unstable)
  <2>1. unstable.len = Len(View(mem, unstable))
    BY <1>1, Viewed
  <2> QED BY <1>1, <1>5, <2>1, SubSeqFull
<1>7. Lent(mem, unstable, <<Hold(s)>>) /\ Shown(<<Hold(s)>>) = View(mem, unstable)
  <2>1. Behind(s, unstable)
    BY <1>2, <1>3 DEF Behind
  <2> QED BY <1>1, <1>3, <1>4, <1>5, <1>6, <2>1, HeldIsLoan
<1> QED BY <1>1, <1>4, <1>7, LendStep

LEMMA SendStep ==
  ASSUME Inv, NEW i \in 1 .. lastIndex, Send(i)
  PROVE  /\ Inv'
         /\ View(mem', unstable') = View(mem, unstable)
         /\ View(mem', ents') = View(mem, ents)
         /\ Shown(ready') = Shown(ready)
<1> DEFINE s == Sub(unstableSlice(i, lastIndex + 1), 0, 1, 1)
<1>1. /\ Memory(mem) /\ Fits(mem, unstable) /\ Lent(mem, unstable, ready)
      /\ View(mem, unstable) \in Seq(Entries)
      /\ unstable \in Slice /\ unstable.len <= unstable.cap
      /\ unstable.len = 0 => ready = <<>>
      /\ offset = 1
  BY DEF Inv, Safe, Fits
<1>2. /\ unstable.arr \in Nat /\ unstable.lo \in Nat /\ unstable.len \in Nat /\ unstable.cap \in Nat
  BY <1>1 DEF Slice
<1>3. i \in 1 .. unstable.len /\ i - 1 \in Nat
  BY <1>2, LogFacts
<1>4. s \in Slice /\ s.arr = unstable.arr /\ s.lo = unstable.lo + (i - 1) /\ s.len = 1 /\ s.cap = 1
  <2>1. s = [arr |-> unstable.arr, lo |-> unstable.lo + (i - 1) + 0, len |-> 1, cap |-> 1]
    BY <1>1, <1>2, <1>3 DEF Sub, unstableSlice
  <2> HIDE DEF s
  <2> QED BY <1>2, <1>3, <2>1 DEF Slice
<1>5. /\ Becomes(mem, unstable, ents, ready, <<Hold(s)>>)
      /\ UNCHANGED <<offset, committed>>
  BY DEF Send
<1> HIDE DEF s
<1>6. mem[unstable.arr] \in Seq(Cell) /\ Len(mem[unstable.arr]) \in Nat
  BY <1>1, LenProperties DEF Memory, Fits
<1>7. Fits(mem, s)
  BY <1>1, <1>2, <1>3, <1>4, <1>6 DEF Fits
<1>8. View(mem, s) \in Seq(Entries)
  <2>1. Len(View(mem, unstable)) = unstable.len /\ View(mem, unstable)[i] = mem[unstable.arr][unstable.lo + i]
    BY <1>1, <1>3, Viewed
  <2>2. View(mem, unstable)[i] \in Entries
    BY <1>1, <1>3, <2>1, ElementOfSeq
  <2>3. /\ View(mem, s) \in Seq(Cell) /\ Len(View(mem, s)) = 1
        /\ View(mem, s)[1] = mem[s.arr][s.lo + 1]
    <3>1. /\ View(mem, s) \in Seq(Cell) /\ Len(View(mem, s)) = s.len
          /\ \A k \in 1 .. s.len : View(mem, s)[k] = mem[s.arr][s.lo + k]
      BY <1>1, <1>7, Viewed
    <3> QED BY <1>4, <3>1
  <2>4. s.lo + 1 = unstable.lo + i
    BY <1>2, <1>3, <1>4
  <2>5. View(mem, s)[1] \in Entries
    BY <1>4, <2>1, <2>2, <2>3, <2>4
  <2> DEFINE v == View(mem, s)
  <2>6. v \in Seq(Cell) /\ Len(v) = 1 /\ v[1] \in Entries
    BY <2>3, <2>5
  <2> HIDE DEF v
  <2> DEFINE w == <<v[1]>>
  <2>7. w \in Seq(Entries) /\ w \in Seq(Cell) /\ Len(w) = 1 /\ w[1] = v[1]
    BY <2>6, ZeroIsCell
  <2> HIDE DEF w
  <2>8. v = w
    BY <2>6, <2>7, SeqEqual
  <2> QED BY <2>7, <2>8 DEF v
<1>9. Behind(s, unstable)
  BY <1>2, <1>3, <1>4 DEF Behind
<1>10. Lent(mem, unstable, <<Hold(s)>>)
  BY <1>4, <1>7, <1>8, <1>9, HeldIsLoan
<1> QED BY <1>1, <1>5, <1>10, LendStep

LEMMA MarshalStep ==
  ASSUME Inv, Marshal
  PROVE  /\ Inv'
         /\ View(mem', unstable') = View(mem, unstable)
         /\ View(mem', ents') = View(mem, ents)
         /\ Shown(ready') = Shown(ready)
<1>1. Lent(mem, unstable, ready) /\ Lent(mem, unstable, <<>>) /\ (unstable.len = 0 => ready = <<>>)
  BY DEF Inv, Safe, Lent
<1> QED BY <1>1, LendStep DEF Marshal

\* What the application stores goes into an array of its own.
LEMMA StoreStep ==
  ASSUME Inv, NEW spare \in 0..MaxSpare, Store(spare)
  PROVE  /\ Inv'
         /\ View(mem', unstable') = View(mem, unstable)
         /\ Tail(View(mem', ents')) = Shown(ready)
         /\ Shown(ready') = <<>>
<1>1. /\ Memory(mem) /\ Fits(mem, unstable) /\ Fits(mem, ents) /\ Storage(mem, ents)
      /\ unstable.arr # ents.arr
      /\ View(mem, unstable) \in Seq(Entries)
      /\ Lent(mem, unstable, ready) /\ Lent(mem, unstable, held)
      /\ unstable.len # 0
      /\ ents \in Slice
      /\ offset = 1
      /\ ready # <<>>
  BY DEF Inv, Safe, Fits, Store
<1>2. ents.arr \in Nat /\ ents.lo \in Nat /\ ents.len \in Nat /\ ents.cap \in Nat /\ ents.len <= ents.cap
  BY <1>1 DEF Slice, Fits
<1>3. PICK g \in Loan : ready = <<g>> /\ Intact(mem, unstable, g)
  BY <1>1 DEF Lent
<1>4. g.entries \in Seq(Entries) /\ g.entries # <<>> /\ Shown(ready) = g.entries
  BY <1>3 DEF Loan, Shown
<1>5. Contents(ready[1].slice) = g.entries
  BY <1>3 DEF Intact, Contents, View
<1>6. g.entries \in Seq(Cell) /\ Len(g.entries) \in Nat /\ Len(g.entries) >= 1
  BY <1>4, ZeroIsCell, SeqMonotonic, EmptySeq
<1> DEFINE p == storagePrefix(offset)
<1>7. p \in Slice /\ p.arr = ents.arr /\ p.lo = ents.lo /\ p.len = 1 /\ p.cap = 1
  <2>1. CASE ents.len > 1
    <3>1. p = [arr |-> ents.arr, lo |-> ents.lo + 0, len |-> 1, cap |-> 1]
      BY <1>1, <2>1 DEF storagePrefix, Sub
    <3> HIDE DEF p
    <3> QED BY <1>2, <3>1 DEF Slice
  <2>2. CASE ents.len = 1
    BY <1>1, <2>2 DEF storagePrefix, Storage
  <2> QED BY <1>1, <1>2, <2>1, <2>2 DEF Storage
<1> HIDE DEF p
<1>8. Fits(mem, p) /\ View(mem, p) = <<Zero>>
  <2>1. 1 \in 0 .. ents.len /\ 1 \in 1 .. ents.cap
    BY <1>1, <1>2 DEF Storage
  <2>2. Fits(mem, p) /\ View(mem, p) = SubSeq(View(mem, ents), 1, 1)
    BY <1>1, <1>7, <2>1, Shortened
  <2>3. Len(View(mem, ents)) = ents.len /\ View(mem, ents) \in Seq(Cell)
    BY <1>1, Viewed
  <2>4. SubSeq(View(mem, ents), 1, 1) = <<View(mem, ents)[1]>>
    BY <1>2, <2>1, <2>3, FirstOnly
  <2> QED BY <1>1, <2>2, <2>4 DEF Storage
<1>9. PICK d : d = goAppend(p, g.entries, spare)
  OBVIOUS
<1>10. Grown(d, <<Zero>> \o g.entries, 1 + Len(g.entries)) /\ Aside(d)
  <2>1. spare \in Nat
    BY BoundAssumption
  <2>2. p.len + Len(g.entries) > p.cap
    BY <1>6, <1>7
  <2> QED BY <1>1, <1>6, <1>7, <1>8, <1>9, <2>1, <2>2, AppendedAside
<1>11. /\ Becomes(d.mem, unstable, d.slice, <<>>, held)
       /\ UNCHANGED <<offset, committed>>
  BY <1>5, <1>9 DEF Store, p
<1> DEFINE n == d.mem
           e == d.slice
<1>12. /\ Memory(n) /\ Fits(n, e) /\ View(n, e) = <<Zero>> \o g.entries /\ e.len = 1 + Len(g.entries)
       /\ \A s : Fits(mem, s) => Fits(n, s) /\ s.arr # e.arr /\ View(n, s) = View(mem, s)
  BY <1>10 DEF Grown, Aside
<1>13. View(n, e)[1] = Zero /\ Tail(View(n, e)) = g.entries
  <2> DEFINE w == g.entries
             z == <<Zero>>
  <2>1. w \in Seq(Cell) /\ z \in Seq(Cell) /\ Len(z) = 1 /\ z[1] = Zero
    BY <1>6, ZeroIsCell
  <2> HIDE DEF w, z
  <2>2. /\ z \o w \in Seq(Cell) /\ Len(z \o w) = Len(z) + Len(w)
        /\ \A k \in 1 .. Len(z) + Len(w) : (z \o w)[k] = IF k <= Len(z) THEN z[k] ELSE w[k - Len(z)]
    BY <2>1, ConcatProperties
  <2>3. Len(w) \in Nat
    BY <2>1, LenProperties
  <2> DEFINE zw == z \o w
  <2>4. /\ zw \in Seq(Cell) /\ Len(zw) = 1 + Len(w)
        /\ \A k \in 1 .. 1 + Len(w) : zw[k] = IF k <= 1 THEN z[k] ELSE w[k - 1]
    BY <2>1, <2>2
  <2> HIDE DEF zw
  <2>5. zw # <<>> /\ zw[1] = Zero
    BY <2>1, <2>3, <2>4
  <2>6. /\ Tail(zw) \in Seq(Cell) /\ Len(Tail(zw)) = Len(zw) - 1
        /\ \A k \in 1 .. Len(Tail(zw)) : Tail(zw)[k] = zw[k + 1]
    BY <2>4, <2>5, HeadTailProperties
  <2>7. Len(Tail(zw)) = Len(w) /\ \A k \in 1 .. Len(w) : Tail(zw)[k] = w[k]
    BY <2>3, <2>4, <2>6
  <2>8. Tail(zw) = w
    BY <2>1, <2>6, <2>7, SeqEqual
  <2> QED BY <1>12, <2>5, <2>8 DEF zw, z, w
<1>14. Storage(n, e)
  <2>1. e.len >= 1 /\ e.len # 1
    BY <1>6, <1>12
  <2> HIDE DEF n, e
  <2> QED BY <1>4, <1>13, <2>1 DEF Storage
<1>15. Lent(n, unstable, held) /\ Lent(n, unstable, <<>>)
  BY <1>1, <1>12, LentStays DEF Lent
<1>16. Fits(n, unstable) /\ View(n, unstable) = View(mem, unstable) /\ unstable.arr # e.arr
  BY <1>1, <1>12
<1> HIDE DEF n, e
<1>17. Safe(n, unstable, e, <<>>, held)
  BY <1>1, <1>12, <1>14, <1>15, <1>16 DEF Safe
<1>18. Becomes(n, unstable, e, <<>>, held)
  BY <1>11 DEF n, e
<1>19. /\ Safe(mem', unstable', ents', ready', held')
       /\ View(mem', unstable') = View(n, unstable) /\ unstable'.len = unstable.len
       /\ View(mem', ents') = View(n, e)
       /\ Shown(ready') = Shown(<<>>)
  BY <1>17, <1>18, BecomesIsSafe
<1>20. Inv'
  BY <1>11, <1>19 DEF Inv
<1> QED BY <1>4, <1>13, <1>16, <1>19, <1>20 DEF Shown
-----------------------------------------------------------------------------
(* The invariant *)

\* A leader's own entry goes to the end.
LEMMA AppendEntryStep ==
  ASSUME Inv, NEW e \in Entries, NEW spare \in 0..MaxSpare, appendEntry(e, spare)
  PROVE  /\ Inv'
         /\ View(mem', unstable') = Append(View(mem, unstable), e)
         /\ View(mem', ents') = View(mem, ents)
         /\ Shown(ready') = Shown(ready)
<1>1. unstable.len \in Nat /\ lastIndex = unstable.len
  BY LogFacts
<1>2. committed <= unstable.len + 1 /\ View(mem, unstable) \in Seq(Entries)
  BY <1>1 DEF Inv, Safe
<1>3. append(unstable.len + 1, <<e>>, spare)
  BY <1>1 DEF appendEntry
<1>4. PICK from \in 1 .. unstable.len + 1 : from = unstable.len + 1
  BY <1>1
<1>5. /\ Inv'
      /\ View(mem', unstable') = SubSeq(View(mem, unstable), 1, from - 1) \o <<e>>
      /\ View(mem', ents') = View(mem, ents)
      /\ Shown(ready') = Shown(ready)
  BY <1>2, <1>3, <1>4, AppendStep
<1>6. SubSeq(View(mem, unstable), 1, from - 1) = View(mem, unstable)
  <2>1. from - 1 = Len(View(mem, unstable))
    BY <1>1, <1>4, Viewed DEF Inv, Safe
  <2> QED BY <1>2, <2>1, SubSeqFull
<1>7. View(mem, unstable) \o <<e>> = Append(View(mem, unstable), e)
  BY <1>2, AppendIsConcat
<1> QED BY <1>5, <1>6, <1>7

\* The entry after index in a leader's log replaces what does not match it.
LEMMA MaybeAppendStep ==
  ASSUME Inv, NEW e \in Entries, NEW spare \in 0..MaxSpare, NEW index \in 0..lastIndex,
         maybeAppend(index, <<e>>, spare)
  PROVE  /\ Inv'
         /\ ~ (hasTerm(index + 1) /\ term(index + 1) = e.Term)
         /\ View(mem', unstable') = SubSeq(View(mem, unstable), 1, index) \o <<e>>
         /\ View(mem', ents') = View(mem, ents)
         /\ Shown(ready') = Shown(ready)
<1>1. unstable.len \in Nat /\ lastIndex = unstable.len /\ index \in 0 .. unstable.len
  BY LogFacts
<1> DEFINE C == Conflicts(index, <<e>>)
<1>2. C \subseteq {1} /\ (1 \in C => ~ (hasTerm(index + 1) /\ term(index + 1) = e.Term))
  BY DEF Conflicts
<1>3. C # {} /\ index + Min(C) > committed
      /\ append(index + Min(C), SubSeq(<<e>>, Min(C), Len(<<e>>)), spare)
  BY DEF maybeAppend
<1>4. C = {1}
  BY <1>2, <1>3
<1> HIDE DEF C
<1>5. Min(C) = 1
  BY <1>4 DEF Min
<1>6. SubSeq(<<e>>, 1, Len(<<e>>)) = <<e>>
  <2>1. <<e>> \in Seq(Entries)
    OBVIOUS
  <2> QED BY <2>1, SubSeqFull
<1>7. PICK from \in 1 .. unstable.len + 1 : from = index + 1
  BY <1>1
<1>8. append(from, <<e>>, spare)
  BY <1>3, <1>5, <1>6, <1>7
<1>9. committed <= from /\ from - 1 = index
  BY <1>1, <1>3, <1>5, <1>7 DEF Inv
<1>10. /\ Inv'
       /\ View(mem', unstable') = SubSeq(View(mem, unstable), 1, from - 1) \o <<e>>
       /\ View(mem', ents') = View(mem, ents)
       /\ Shown(ready') = Shown(ready)
  BY <1>8, <1>9, AppendStep
<1> QED BY <1>2, <1>4, <1>9, <1>10

LEMMA InitSafe ==
  ASSUME Init
  PROVE  /\ Inv
         /\ View(mem, unstable) \in {<<>>, Bootstrapped}
         /\ Tail(View(mem, ents)) = <<>>
         /\ ready = <<>>
<1>1. PICK first \in {<<>>, Bootstrapped}, spare \in 0..MaxSpare :
        /\ first = <<>> => spare = 0
        /\ mem = << first \o [k \in 1..spare |-> Zero], <<Zero>> >>
        /\ unstable = [arr |-> 1, lo |-> 0, len |-> Len(first), cap |-> Len(first) + spare]
        /\ ents = [arr |-> 2, lo |-> 0, len |-> 1, cap |-> 1]
        /\ offset = 1
        /\ committed = Len(first)
        /\ ready = <<>>
        /\ held = <<>>
  BY DEF Init
<1>2. first \in Seq(Entries) /\ Len(first) \in 0..1 /\ first \in Seq(Cell)
  <2>1. [Term |-> 1] \in Entries
    BY BoundAssumption DEF Entries
  <2>2. first \in Seq(Entries) /\ Len(first) \in 0..1
    <3>1. <<>> \in Seq(Entries) /\ Len(<<>>) = 0
      BY EmptySeq
    <3>2. <<[Term |-> 1]>> \in Seq(Entries) /\ Len(<<[Term |-> 1]>>) = 1
      BY <2>1
    <3>3. first = <<>> \/ first = <<[Term |-> 1]>>
      BY DEF Bootstrapped
    <3>4. CASE first = <<>>
      BY <3>1, <3>4
    <3>5. CASE first = <<[Term |-> 1]>>
      BY <3>2, <3>5
    <3> QED BY <3>3, <3>4, <3>5
  <2> QED BY <2>2, ZeroIsCell, SeqMonotonic
<1>3. spare \in Nat
  BY BoundAssumption
<1> DEFINE free == [k \in 1..spare |-> Zero]
           a1 == first \o free
           a2 == <<Zero>>
<1>4. free \in Seq(Cell) /\ Len(free) = spare
  BY <1>3, ZeroIsCell
<1> HIDE DEF free
<1>5. /\ a1 \in Seq(Cell) /\ Len(a1) = Len(first) + Len(free)
      /\ \A i \in 1 .. Len(first) + Len(free) : a1[i] = IF i <= Len(first) THEN first[i] ELSE free[i - Len(first)]
  BY <1>2, <1>4, ConcatProperties
<1>6. a2 \in Seq(Cell) /\ Len(a2) = 1 /\ a2[1] = Zero
  BY ZeroIsCell
<1>7. mem = <<a1, a2>>
  BY <1>1 DEF free
<1> HIDE DEF a1, a2
<1>8. DOMAIN mem = 1..2 /\ mem[1] = a1 /\ mem[2] = a2
  BY <1>7
<1>9. Memory(mem)
  <2>1. IsFiniteSet(1..2)
    <3>1. 1 \in Int /\ 2 \in Int
      OBVIOUS
    <3> QED BY ONLY <3>1, FS_Interval
  <2>2. mem \in [1..2 -> Seq(Cell)]
    BY <1>5, <1>6, <1>7
  <2> QED BY <1>8, <2>1, <2>2 DEF Memory
<1>10. Fits(mem, unstable) /\ Fits(mem, ents)
  BY <1>1, <1>2, <1>3, <1>4, <1>5, <1>6, <1>8 DEF Fits, Slice
<1>fields. /\ unstable.arr = 1 /\ unstable.lo = 0 /\ unstable.len = Len(first)
      /\ ents.arr = 2 /\ ents.lo = 0 /\ ents.len = 1 /\ ents.cap = 1
  BY <1>1
<1>11. View(mem, unstable) = first
  <2>1. /\ View(mem, unstable) \in Seq(Cell)
        /\ Len(View(mem, unstable)) = unstable.len
        /\ \A k \in 1 .. unstable.len : View(mem, unstable)[k] = mem[unstable.arr][unstable.lo + k]
    BY <1>9, <1>10, Viewed
  <2>2. \A k \in 1 .. Len(first) : View(mem, unstable)[k] = first[k]
    <3> TAKE k \in 1 .. Len(first)
    <3>1. View(mem, unstable)[k] = a1[k] /\ k \in 1 .. Len(first) + Len(free)
      BY <1>fields, <1>2, <1>3, <1>4, <1>8, <2>1
    <3> QED BY <1>5, <3>1
  <2>3. Len(View(mem, unstable)) = Len(first)
    BY <1>1, <2>1
  <2> DEFINE v == View(mem, unstable)
  <2> HIDE DEF v
  <2> QED BY <1>2, <2>1, <2>2, <2>3, SeqEqual
<1>12. View(mem, ents) = <<Zero>>
  <2>1. /\ View(mem, ents) \in Seq(Cell)
        /\ Len(View(mem, ents)) = 1
        /\ View(mem, ents)[1] = Zero
    <3>1. /\ View(mem, ents) \in Seq(Cell)
          /\ Len(View(mem, ents)) = ents.len
          /\ \A k \in 1 .. ents.len : View(mem, ents)[k] = mem[ents.arr][ents.lo + k]
      BY <1>9, <1>10, Viewed
    <3> QED BY <1>fields, <1>6, <1>8, <3>1
  <2> DEFINE v == View(mem, ents)
  <2>2. v \in Seq(Cell) /\ Len(v) = 1 /\ v[1] = a2[1]
    BY <1>6, <2>1
  <2> HIDE DEF v
  <2>3. v = a2
    BY <1>6, <2>2, SeqEqual
  <2> QED BY <2>3 DEF v, a2
<1>13. Storage(mem, ents)
  <2>1. <<Zero>>[1] = Zero /\ Tail(<<Zero>>) = <<>>
    OBVIOUS
  <2>2. Tail(View(mem, ents)) \in Seq(Entries)
    BY <1>12, <2>1, EmptySeq
  <2> QED BY <1>fields, <1>12, <2>1, <2>2 DEF Storage
<1>14. Safe(mem, unstable, ents, ready, held)
  BY <1>1, <1>2, <1>9, <1>10, <1>11, <1>13 DEF Safe, Lent
<1>15. Tail(View(mem, ents)) = <<>>
  BY <1>12
<1>16. Inv
  BY <1>1, <1>2, <1>14 DEF Inv
<1>17. View(mem, unstable) \in {<<>>, Bootstrapped}
  BY <1>11
<1>18. ready = <<>>
  BY <1>1
<1> QED BY <1>15, <1>16, <1>17, <1>18

LEMMA StepSafe == ASSUME Inv, [Next]_vars PROVE Inv'
<1>1. ASSUME NEW e \in Entries, NEW spare \in 0..MaxSpare, appendEntry(e, spare) PROVE Inv'
  BY <1>1, AppendEntryStep
<1>2. ASSUME NEW e \in Entries, NEW spare \in 0..MaxSpare, NEW index \in 0..lastIndex,
             maybeAppend(index, <<e>>, spare)
      PROVE  Inv'
  BY <1>2, MaybeAppendStep
<1>3. ASSUME NEW spare \in 0..MaxSpare, Store(spare) PROVE Inv'
  BY <1>3, StoreStep
<1>4. CASE Ready
  BY <1>4, ReadyStep
<1>5. ASSUME NEW i \in 1..lastIndex, Send(i) PROVE Inv'
  BY <1>5, SendStep
<1>6. CASE Marshal
  BY <1>6, MarshalStep
<1>7. CASE UNCHANGED vars
  BY <1>7 DEF vars, Inv, Safe, Lent, Intact, Storage, View, Fits, Memory, Behind
<1> QED BY <1>1, <1>2, <1>3, <1>4, <1>5, <1>6, <1>7 DEF Next

LEMMA AlwaysSafe == Spec => []Inv
BY InitSafe, StepSafe, PTL DEF Spec

\* No step writes to a cell that somebody was handed: neither truncateAndAppend of
\* log_unstable.go nor Append of storage.go reaches into a Ready or a message.
THEOREM HeldStays == Spec => []HeldUnchanged
<1>1. Inv => HeldUnchanged
  <2> SUFFICES ASSUME Inv PROVE HeldUnchanged
    OBVIOUS
  <2>1. /\ ready \in Seq(Loan) /\ held \in Seq(Loan)
        /\ Len(ready) \in 0..1 /\ Len(held) \in 0..1
        /\ ready # <<>> => Intact(mem, unstable, ready[1])
        /\ held # <<>> => Intact(mem, unstable, held[1])
    BY LentIsShort DEF Inv, Safe
  <2>2. Range(ready \o held) = Range(ready) \cup Range(held)
    BY <2>1, RangeConcatenation
  <2>3. ASSUME NEW g \in Range(ready) PROVE Intact(mem, unstable, g)
    <3>1. PICK k \in 1 .. Len(ready) : g = ready[k]
      BY <2>1, RangeEquality
    <3> QED BY <2>1, <3>1, EmptySeq
  <2>4. ASSUME NEW g \in Range(held) PROVE Intact(mem, unstable, g)
    <3>1. PICK k \in 1 .. Len(held) : g = held[k]
      BY <2>1, RangeEquality
    <3> QED BY <2>1, <3>1, EmptySeq
  <2> QED BY <2>2, <2>3, <2>4 DEF HeldUnchanged, Intact, View, Contents
<1> QED BY <1>1, AlwaysSafe, PTL

\* Every slice stays inside its array, the storage starts with its dummy entry, and
\* the unstable log with index 1, however it is truncated.
THEOREM StoreStaysOK == Spec => []StoreOK
<1>1. Inv => StoreOK
  <2> SUFFICES ASSUME Inv PROVE StoreOK
    OBVIOUS
  <2>1. /\ Memory(mem) /\ Fits(mem, ents) /\ Storage(mem, ents)
        /\ View(mem, unstable) \in Seq(Entries)
        /\ offset = 1 /\ committed <= unstable.len
    BY DEF Inv, Safe
  <2> DEFINE sl == SlicesOf(unstable, ents, ready, held)
  <2>2. InUse = sl
    BY DEF InUse, SlicesOf
  <2>3. sl \in Seq(Slice) /\ \A k \in 1 .. Len(sl) : Fits(mem, sl[k])
    BY SlicesOfThem DEF Inv
  <2> HIDE DEF sl
  <2>4. ASSUME NEW s \in Range(InUse) PROVE SliceOK(s)
    <3>1. PICK k \in 1 .. Len(sl) : s = sl[k]
      BY <2>2, <2>3, RangeEquality
    <3>2. Fits(mem, s)
      BY <2>3, <3>1
    <3> QED BY <3>2 DEF Fits, Slice, SliceOK
  <2>5. \A e \in Range(Contents(unstable)) \cup Range(Tail(Contents(ents))) : e \in Entries
    <3>1. Range(View(mem, unstable)) \in SUBSET Entries /\ Range(Tail(View(mem, ents))) \in SUBSET Entries
      BY <2>1, RangeOfSeq DEF Storage
    <3> QED BY <3>1 DEF Contents, View
  <2>6. Head(Contents(ents)) = Zero
    <3>1. Contents(ents) = View(mem, ents)
      BY DEF Contents, View
    <3> QED BY <2>1, <3>1 DEF Storage
  <2>7. committed <= lastIndex
    BY <2>1, LogFacts
  <2> QED BY <2>1, <2>4, <2>5, <2>6, <2>7 DEF StoreOK
<1> QED BY <1>1, AlwaysSafe, PTL

\* raftLog.term answers from the two parts as from one sequence, though the storage
\* keeps entries that have been truncated since.
THEOREM TermsAreTheLogs == Spec => []TermsAgree
<1>1. Inv => TermsAgree
  <2> SUFFICES ASSUME Inv, NEW i \in 0 .. MaxLen + 1
               PROVE  /\ hasTerm(i) <=> L!termKnown(Contents(unstable), i)
                      /\ hasTerm(i) => term(i) = L!term(Contents(unstable), i)
    BY DEF TermsAgree
  <2>1. i \in Int
    OBVIOUS
  <2>2. /\ unstable.len \in Nat
        /\ hasTerm(i) <=> i \in 0 .. unstable.len
        /\ Len(Contents(unstable)) = unstable.len
        /\ \A k \in 1 .. unstable.len : term(k) = Contents(unstable)[k].Term
        /\ term(0) = 0
    BY <2>1, LogFacts
  <2> QED BY <2>1, <2>2 DEF L!termKnown, L!term
<1> QED BY <1>1, AlwaysSafe, PTL
-----------------------------------------------------------------------------
(* The refinement *)

LEMMA ShownIsRead ==
  ASSUME NEW m, NEW u, NEW x, Lent(m, u, x)
  PROVE  (IF x = <<>> THEN <<>> ELSE View(m, x[1].slice)) = Shown(x)
BY LentIsShort DEF Shown, Intact

\* What Log's variables are in LogStore, before and after a step
LEMMA Mapped ==
  ASSUME Inv, Inv'
  PROVE  /\ Contents(unstable) = View(mem, unstable)
         /\ (IF ready = <<>> THEN <<>> ELSE Contents(ready[1].slice)) = Shown(ready)
         /\ Tail(Contents(ents)) = Tail(View(mem, ents))
         /\ Contents(unstable)' = View(mem', unstable')
         /\ (IF ready = <<>> THEN <<>> ELSE Contents(ready[1].slice))' = Shown(ready')
         /\ Tail(Contents(ents))' = Tail(View(mem', ents'))
<1>1. Lent(mem, unstable, ready) /\ Lent(mem', unstable', ready')
  BY DEF Inv, Safe
<1>2. /\ (IF ready = <<>> THEN <<>> ELSE View(mem, ready[1].slice)) = Shown(ready)
      /\ (IF ready' = <<>> THEN <<>> ELSE View(mem', ready'[1].slice)) = Shown(ready')
  BY <1>1, ShownIsRead
<1> QED BY <1>2 DEF Contents, View

LEMMA Refines == ASSUME Inv, [Next]_vars PROVE [L!Next]_(L!vars)
<1>0. Inv'
  BY StepSafe
<1>1. ASSUME NEW e \in Entries, NEW spare \in 0..MaxSpare, appendEntry(e, spare)
      PROVE  L!AppendOne(e)
  BY <1>0, <1>1, AppendEntryStep, Mapped DEF L!AppendOne
<1>2. ASSUME NEW e \in Entries, NEW spare \in 0..MaxSpare, NEW index \in 0..lastIndex,
             maybeAppend(index, <<e>>, spare)
      PROVE  index \in 0 .. Len(Contents(unstable)) /\ L!Accept(index, <<e>>)
  <2> DEFINE log == Contents(unstable)
  <2>1. /\ unstable.len \in Nat /\ lastIndex = unstable.len
        /\ hasTerm(index + 1) <=> index + 1 \in 0 .. unstable.len
        /\ Len(log) = unstable.len
        /\ \A k \in 1 .. unstable.len : term(k) = log[k].Term
    BY LogFacts
  <2>2. /\ ~ (hasTerm(index + 1) /\ term(index + 1) = e.Term)
        /\ View(mem', unstable') = SubSeq(View(mem, unstable), 1, index) \o <<e>>
        /\ View(mem', ents') = View(mem, ents)
        /\ Shown(ready') = Shown(ready)
    BY <1>2, MaybeAppendStep
  <2>3. index \in 0 .. Len(log) /\ index \in Nat
    BY <2>1
  <2>4. ~ L!matchTerm(log, index + 1, e.Term)
    BY <2>1, <2>2, <2>3 DEF L!matchTerm, L!termKnown, L!term
  <2>5. L!Conflicts(log, index, <<e>>) = {1}
    BY <2>4 DEF L!Conflicts
  <2>6. L!findConflict(log, index, <<e>>) = index + 1
    BY <2>5 DEF L!findConflict, L!Min
  <2>7. SubSeq(<<e>>, 1, Len(<<e>>)) = <<e>>
    <3>1. <<e>> \in Seq(Entries)
      OBVIOUS
    <3> QED BY <3>1, SubSeqFull
  <2>8. L!appended(log, index, <<e>>) = SubSeq(log, 1, index) \o <<e>>
    <3>1. index + 1 # 0 /\ (index + 1) - index = 1 /\ (index + 1) - 1 = index
      BY <2>3
    <3> QED BY <2>6, <2>7, <3>1 DEF L!appended, L!truncateAndAppend
  <2>9. log = View(mem, unstable)
    BY DEF Contents, View
  <2>10. Contents(unstable)' = L!appended(log, index, <<e>>)
    BY <1>0, <2>2, <2>8, <2>9, Mapped
  <2> QED BY <1>0, <2>2, <2>3, <2>10, Mapped DEF L!Accept, L!termKnown
<1>3. ASSUME NEW spare \in 0..MaxSpare, Store(spare) PROVE L!Store
  <2>1. Shown(ready) # <<>>
    <3>1. ready # <<>> /\ Lent(mem, unstable, ready)
      BY <1>3 DEF Store, Inv, Safe
    <3> QED BY <3>1 DEF Lent, Loan, Shown
  <2> QED BY <1>0, <1>3, <2>1, StoreStep, Mapped DEF L!Store
<1>4. CASE Ready
  <2>1. Shown(ready) = <<>>
    BY <1>4 DEF Ready, Shown
  <2>2. L!HandOut
    BY <1>0, <1>4, <2>1, ReadyStep, Mapped DEF L!HandOut
  <2> QED BY <2>2 DEF L!Next
<1>5. ASSUME NEW i \in 1..lastIndex, Send(i) PROVE UNCHANGED L!vars
  BY <1>0, <1>5, SendStep, Mapped DEF L!vars
<1>6. CASE Marshal
  BY <1>0, <1>6, MarshalStep, Mapped DEF L!vars
<1>7. CASE UNCHANGED vars
  BY <1>7 DEF vars, L!vars, Contents
<1> QED BY <1>1, <1>2, <1>3, <1>4, <1>5, <1>6, <1>7 DEF Next, L!Next

\* Through all the sharing of arrays, the log, what the application is handed and what
\* it stores change as the plain sequences of Log do: LogStore implements Log.
THEOREM LogIsImplemented == Spec => RefinesLog
<1>1. Init => L!Init
  <2> SUFFICES ASSUME Init PROVE L!Init
    OBVIOUS
  <2>1. /\ View(mem, unstable) \in {<<>>, Bootstrapped}
        /\ Tail(View(mem, ents)) = <<>>
        /\ ready = <<>>
    BY InitSafe
  <2> QED BY <2>1 DEF L!Init, Contents, View
<1> QED BY <1>1, AlwaysSafe, Refines, PTL DEF Spec, RefinesLog, L!Spec
=============================================================================
