--------------------------- MODULE ReportsProofs ---------------------------
(***************************************************************************)
(* What a report promises for every length of a day, any number of days,   *)
(* devices and events: the windows splitClosedOpen cuts a range into, the  *)
(* seconds the raw pass counts in one, and the bound on a report's total.  *)
(***************************************************************************)
EXTENDS MergeProofs

LEMMA DayPositive == Day \in Nat \ {0}
  BY TimeAssumption

\* Division with remainder, and the uniqueness of its quotient
LEMMA DayStartIsStart ==
    ASSUME NEW t \in Nat
    PROVE  /\ DayStart(t) \in Nat /\ DayStart(t) <= t /\ t < DayStart(t) + Day
           /\ \E n \in Nat : DayStart(t) = n * Day
  BY DayPositive DEF DayStart

LEMMA Multiples ==
    ASSUME NEW m \in Nat, NEW n \in Nat
    PROVE  /\ m * Day \in Nat
           /\ m < n => m * Day + Day <= n * Day
  BY DayPositive

\* A start of a day is its own, and two of them are at least a day apart
LEMMA StartsApart ==
    ASSUME NEW t \in Nat, NEW u \in Nat
    PROVE  /\ DayStart(DayStart(t)) = DayStart(t)
           /\ DayStart(DayStart(t) + Day) = DayStart(t) + Day
           /\ DayStart(t) < DayStart(u) => DayStart(t) + Day <= DayStart(u)
           /\ t <= u => DayStart(t) <= DayStart(u)
<1>1. PICK n \in Nat : DayStart(t) = n * Day
  BY DayStartIsStart
<1>2. PICK m \in Nat : DayStart(u) = m * Day
  BY DayStartIsStart
<1>3. ASSUME NEW k \in Nat PROVE k * Day \in Nat /\ DayStart(k * Day) = k * Day
  <2>1. k * Day \in Nat
    BY Multiples
  <2>2. PICK l \in Nat : DayStart(k * Day) = l * Day
    BY <2>1, DayStartIsStart
  <2>3. l * Day <= k * Day /\ k * Day < l * Day + Day
    BY <2>1, <2>2, DayStartIsStart
  <2>4. l * Day \in Nat
    BY Multiples
  <2>5. ~(l < k) /\ ~(k < l)
    BY <2>1, <2>3, <2>4, Multiples, DayPositive
  <2> QED
    BY <2>1, <2>2, <2>5
<1>4. DayStart(DayStart(t)) = DayStart(t)
  BY <1>1, <1>3
<1>5. DayStart(DayStart(t) + Day) = DayStart(t) + Day
  <2>1. n * Day + Day = (n + 1) * Day /\ n + 1 \in Nat
    BY DayPositive
  <2> QED
    BY <1>1, <1>3, <2>1
<1>6. DayStart(t) < DayStart(u) => DayStart(t) + Day <= DayStart(u)
  <2>1. n * Day \in Nat /\ m * Day \in Nat
    BY <1>3
  <2>2. n * Day < m * Day => n < m
    <3>1. m < n => m * Day + Day <= n * Day
      BY Multiples
    <3> QED
      BY <2>1, <3>1, DayPositive
  <2>3. n < m => n * Day + Day <= m * Day
    BY Multiples
  <2> QED
    BY <1>1, <1>2, <2>2, <2>3
<1>7. t <= u => DayStart(t) <= DayStart(u)
  <2>1. m * Day \in Nat /\ n * Day \in Nat
    BY <1>3
  <2>2. m < n => m * Day + Day <= n * Day
    BY Multiples
  <2>3. n * Day <= t /\ u < m * Day + Day
    BY <1>1, <1>2, DayStartIsStart
  <2>4. t <= u => ~(m < n)
    BY <2>1, <2>2, <2>3, DayPositive
  <2>5. n <= m => n * Day <= m * Day
    BY <2>1, Multiples, DayPositive
  <2> QED
    BY <1>1, <1>2, <2>4, <2>5
<1> QED
  BY <1>4, <1>5, <1>6, <1>7

-----------------------------------------------------------------------------
(* The number of windows an instant lies in.                               *)

Within(t, w) == w.from <= t /\ t < w.to

LEMMA CountIs ==
    ASSUME NEW all, NEW t,
           \/ \A i \in 1..Len(all) : ~Within(t, all[i])
           \/ \E i \in 1..Len(all) : \A j \in 1..Len(all) : Within(t, all[j]) <=> j = i
    PROVE  Cardinality({i \in 1..Len(all) : all[i].from <= t /\ t < all[i].to}) =
               (IF \A i \in 1..Len(all) : ~Within(t, all[i]) THEN 0 ELSE 1)
<1> DEFINE S == {i \in 1..Len(all) : all[i].from <= t /\ t < all[i].to}
<1>1. CASE \A i \in 1..Len(all) : ~Within(t, all[i])
  <2>1. S = {}
    BY <1>1 DEF Within
  <2> QED
    BY <1>1, <2>1, FS_EmptySet
<1>2. ASSUME NEW i \in 1..Len(all), \A j \in 1..Len(all) : Within(t, all[j]) <=> j = i
      PROVE  /\ Cardinality(S) = 1
             /\ ~\A j \in 1..Len(all) : ~Within(t, all[j])
  <2>1. S = {i}
    BY <1>2 DEF Within
  <2> QED
    BY <1>2, <2>1, FS_Singleton
<1> QED
  BY <1>1, <1>2

\* The pieces a range is cut into
Pieces(all, a, b) ==
    \/ all = <<W(a, b)>>
    \/ \E m \in a..b : all \in {<<W(a, m), W(m, b)>>, <<W(m, b), W(a, m)>>}
    \/ \E m, k \in a..b : m <= k /\ all = <<W(m, k), W(a, m), W(k, b)>>

LEMMA PiecesCover ==
    ASSUME NEW a \in Nat, NEW b \in Nat, a <= b, NEW all, Pieces(all, a, b)
    PROVE  /\ \A i \in 1..Len(all) : all[i].from <= all[i].to
           /\ \A t \in Nat :
                 Cardinality({i \in 1..Len(all) : all[i].from <= t /\ t < all[i].to})
                     = (IF a <= t /\ t < b THEN 1 ELSE 0)
<1>1. /\ \A i \in 1..Len(all) : all[i].from <= all[i].to
      /\ \A t \in Nat :
            IF a <= t /\ t < b
            THEN \E i \in 1..Len(all) : \A j \in 1..Len(all) : Within(t, all[j]) <=> j = i
            ELSE \A i \in 1..Len(all) : ~Within(t, all[i])
  <2>1. CASE all = <<W(a, b)>>
    <3>1. Len(all) = 1 /\ all[1].from = a /\ all[1].to = b
      BY <2>1 DEF W
    <3> QED
      BY <3>1 DEF Within
  <2>2. ASSUME NEW m \in a..b, all = <<W(a, m), W(m, b)>> PROVE <1>1!:
    <3>1. /\ Len(all) = 2 /\ all[1].from = a /\ all[1].to = m
          /\ all[2].from = m /\ all[2].to = b
      BY <2>2 DEF W
    <3> QED
      BY <3>1 DEF Within
  <2>3. ASSUME NEW m \in a..b, all = <<W(m, b), W(a, m)>> PROVE <1>1!:
    <3>1. /\ Len(all) = 2 /\ all[1].from = m /\ all[1].to = b
          /\ all[2].from = a /\ all[2].to = m
      BY <2>3 DEF W
    <3> QED
      BY <3>1 DEF Within
  <2>4. ASSUME NEW m \in a..b, NEW k \in a..b, m <= k,
               all = <<W(m, k), W(a, m), W(k, b)>>
        PROVE  <1>1!:
    <3>1. /\ Len(all) = 3 /\ all[1].from = m /\ all[1].to = k
          /\ all[2].from = a /\ all[2].to = m /\ all[3].from = k /\ all[3].to = b
      BY <2>4 DEF W
    <3> QED
      BY <2>4, <3>1 DEF Within
  <2> QED
    BY <2>1, <2>2, <2>3, <2>4 DEF Pieces
<1>2. ASSUME NEW t \in Nat
      PROVE  Cardinality({i \in 1..Len(all) : all[i].from <= t /\ t < all[i].to})
                 = (IF a <= t /\ t < b THEN 1 ELSE 0)
  <2>1. CASE a <= t /\ t < b
    <3>1. PICK i \in 1..Len(all) : \A j \in 1..Len(all) : Within(t, all[j]) <=> j = i
      BY <1>1, <2>1
    <3> QED
      BY <2>1, <3>1, CountIs
  <2>2. CASE ~(a <= t /\ t < b)
    <3>1. \A i \in 1..Len(all) : ~Within(t, all[i])
      BY <1>1, <2>2
    <3> QED
      BY <2>2, <3>1, CountIs
  <2> QED
    BY <2>1, <2>2
<1> QED
  BY <1>1, <1>2

-----------------------------------------------------------------------------
(* splitClosedOpen                                                         *)

\* The concatenations a split can be
LEMMA Concats ==
    ASSUME NEW x, NEW y, NEW z
    PROVE  /\ <<>> \o <<>> = <<>>
           /\ <<x>> \o <<>> = <<x>>
           /\ <<>> \o <<x>> = <<x>>
           /\ <<>> \o <<x, y>> = <<x, y>>
           /\ <<x>> \o <<y>> = <<x, y>>
           /\ <<x>> \o <<y, z>> = <<x, y, z>>
<1> DEFINE S == {x, y, z}
<1>0. /\ <<x>> \in Seq(S) /\ <<y>> \in Seq(S) /\ <<y, z>> \in Seq(S)
      /\ <<x, y>> \in Seq(S) /\ <<x, y, z>> \in Seq(S)
  OBVIOUS
<1>1. <<x>> \o <<y>> = <<x, y>>
  <2>1. <<x>> \o <<y>> \in Seq(S) /\ Len(<<x>> \o <<y>>) = Len(<<x, y>>)
    BY <1>0
  <2>2. \A i \in 1..Len(<<x, y>>) : (<<x>> \o <<y>>)[i] = <<x, y>>[i]
    BY <1>0
  <2> QED
    BY <1>0, <2>1, <2>2, SeqEqual
<1>2. <<x>> \o <<y, z>> = <<x, y, z>>
  <2>1. <<x>> \o <<y, z>> \in Seq(S) /\ Len(<<x>> \o <<y, z>>) = Len(<<x, y, z>>)
    BY <1>0
  <2>2. \A i \in 1..Len(<<x, y, z>>) : (<<x>> \o <<y, z>>)[i] = <<x, y, z>>[i]
    BY <1>0
  <2> QED
    BY <1>0, <2>1, <2>2, SeqEqual
<1> QED
  BY <1>1, <1>2

\* What a range is split into: the closed days, and what is left around them
Parts(split, a, b) ==
    \/ /\ split.closed = <<>>
       /\ \/ split.raw = <<W(a, b)>>
          \/ \E m \in a..b : split.raw = <<W(a, m), W(m, b)>>
    \/ \E m, k \in a..b :
          /\ m < k /\ split.closed = <<W(m, k)>>
          /\ \/ m = a /\ k = b /\ split.raw = <<>>
             \/ m = a /\ split.raw = <<W(k, b)>>
             \/ k = b /\ split.raw = <<W(a, m)>>
             \/ split.raw = <<W(a, m), W(k, b)>>

\* What splitClosedOpen returns for a range at the moment t
Shape(split, from, to, t) ==
    /\ Parts(split, from, to)
    /\ \/ split.closed = <<>>
       \/ \E m, k \in from..to :
             /\ split.closed = <<W(m, k)>>
             /\ m = DayStart(m) /\ k = DayStart(k) /\ k <= DayStart(t)

LEMMA PartsArePieces ==
    ASSUME NEW a \in Nat, NEW b \in Nat, a <= b, NEW split, Parts(split, a, b)
    PROVE  Pieces(split.closed \o split.raw, a, b)
<1> DEFINE all == split.closed \o split.raw
<1>1. ASSUME split.closed = <<>>, split.raw = <<W(a, b)>>
      PROVE  all = <<W(a, b)>>
  BY <1>1, Concats, Zenon
<1>2. ASSUME NEW m \in a..b, split.closed = <<>>, split.raw = <<W(a, m), W(m, b)>>
      PROVE  all = <<W(a, m), W(m, b)>>
  BY <1>2, Concats, Zenon
<1>3. ASSUME NEW m \in a..b, NEW k \in a..b, split.closed = <<W(m, k)>>
      PROVE  /\ split.raw = <<>> => all = <<W(m, k)>>
             /\ split.raw = <<W(k, b)>> => all = <<W(m, k), W(k, b)>>
             /\ split.raw = <<W(a, m)>> => all = <<W(m, k), W(a, m)>>
             /\ split.raw = <<W(a, m), W(k, b)>> => all = <<W(m, k), W(a, m), W(k, b)>>
  BY <1>3, Concats, Zenon
<1> HIDE DEF all
<1>4. CASE split.closed = <<>> /\ split.raw = <<W(a, b)>>
  BY <1>1, <1>4 DEF Pieces, all
<1>5. ASSUME NEW m \in a..b, split.closed = <<>>, split.raw = <<W(a, m), W(m, b)>>
      PROVE  Pieces(all, a, b)
  BY <1>2, <1>5 DEF Pieces
<1>6. ASSUME NEW m \in a..b, NEW k \in a..b, m < k, split.closed = <<W(m, k)>>,
             \/ m = a /\ k = b /\ split.raw = <<>>
             \/ m = a /\ split.raw = <<W(k, b)>>
             \/ k = b /\ split.raw = <<W(a, m)>>
             \/ split.raw = <<W(a, m), W(k, b)>>
      PROVE  Pieces(all, a, b)
  <2>1. CASE m = a /\ k = b /\ split.raw = <<>>
    BY <1>3, <1>6, <2>1 DEF Pieces
  <2>2. CASE m = a /\ split.raw = <<W(k, b)>>
    BY <1>3, <1>6, <2>2 DEF Pieces
  <2>3. CASE k = b /\ split.raw = <<W(a, m)>>
    BY <1>3, <1>6, <2>3 DEF Pieces
  <2>4. CASE split.raw = <<W(a, m), W(k, b)>>
    <3>1. all = <<W(m, k), W(a, m), W(k, b)>>
      BY <1>3, <1>6, <2>4
    <3> QED
      BY <1>6, <3>1 DEF Pieces
  <2> QED
    BY <1>6, <2>1, <2>2, <2>3, <2>4
<1> QED
  BY <1>4, <1>5, <1>6 DEF Parts, all

\* Aligning from up and to down, whether a whole day is left between them or not
LEMMA SplitShape ==
    ASSUME NEW from \in Nat, NEW to \in Nat, NEW t \in Nat, from <= to
    PROVE  Shape(SplitClosedOpen(from, to, t), from, to, t)
<1> DEFINE split == SplitClosedOpen(from, to, t)
           closedTo == Earlier(to, DayStart(t))
           aligned == from = DayStart(from)
           alignedFrom == IF aligned THEN from ELSE DayStart(from) + Day
           alignedTo == DayStart(closedTo)
           hasClosed == alignedFrom < alignedTo
           start == IF ~hasClosed /\ alignedTo < alignedFrom THEN alignedFrom ELSE alignedTo
           first == IF aligned THEN <<>> ELSE <<W(from, Earlier(to, alignedFrom))>>
           last == IF alignedTo < to THEN Trailing(start, to) ELSE <<>>
<1>1. CASE closedTo <= from
  <2>1. split.closed = <<>> /\ split.raw = <<W(from, to)>>
    BY <1>1 DEF SplitClosedOpen
  <2> QED
    BY <2>1 DEF Parts, Shape
<1>2. CASE ~(closedTo <= from)
  <2>1. /\ split.raw = first \o last
        /\ split.closed = IF hasClosed THEN <<W(alignedFrom, alignedTo)>> ELSE <<>>
    BY <1>2 DEF SplitClosedOpen
  <2>2. /\ closedTo \in Nat /\ from < closedTo /\ closedTo <= to /\ closedTo <= DayStart(t)
    BY <1>2, DayStartIsStart DEF Earlier
  <2>3. /\ alignedTo \in Nat /\ alignedTo <= closedTo /\ DayStart(alignedTo) = alignedTo
        /\ DayStart(from) <= alignedTo
        /\ DayStart(from) < alignedTo => DayStart(from) + Day <= alignedTo
    BY <2>2, DayStartIsStart, StartsApart
  <2>4. /\ alignedFrom \in Nat /\ from <= alignedFrom /\ DayStart(alignedFrom) = alignedFrom
        /\ aligned => alignedFrom = from
        /\ ~aligned => alignedFrom = DayStart(from) + Day
        /\ DayStart(from) \in Nat /\ DayStart(from) <= from
    BY DayStartIsStart, StartsApart, DayPositive
  <2>5. /\ ~hasClosed /\ aligned => alignedTo = from
        /\ ~hasClosed /\ ~aligned => alignedTo \in {DayStart(from), alignedFrom}
    BY <2>2, <2>3, <2>4
  <2>6. /\ Earlier(to, alignedFrom) = IF to < alignedFrom THEN to ELSE alignedFrom
        /\ Trailing(start, to) = IF start < to THEN <<W(start, to)>> ELSE <<>>
    BY DEF Earlier, Trailing
  <2> HIDE DEF closedTo, alignedFrom, alignedTo
  <2>7. CASE hasClosed
    <3>1. start = alignedTo /\ alignedFrom \in from..to /\ alignedTo \in from..to
      BY <2>2, <2>3, <2>4, <2>7
    <3>2. split.closed = <<W(alignedFrom, alignedTo)>>
      BY <2>1, <2>7
    <3>3. first = IF aligned THEN <<>> ELSE <<W(from, alignedFrom)>>
      BY <2>6, <3>1
    <3>4. last = IF alignedTo < to THEN <<W(alignedTo, to)>> ELSE <<>>
      BY <2>6, <3>1
    <3> HIDE DEF split, first, last, start
    <3>5. Parts(split, from, to)
      <4>1. CASE aligned /\ alignedTo < to
        <5>0. alignedFrom = from
          BY <2>4, <4>1
        <5>1. first = <<>> /\ last = <<W(alignedTo, to)>>
          BY <3>3, <3>4, <4>1
        <5>2. split.raw = <<W(alignedTo, to)>>
          BY <2>1, <5>1, Concats, Zenon
        <5> QED
          BY <2>7, <3>1, <3>2, <5>0, <5>2 DEF Parts
      <4>2. CASE aligned /\ ~(alignedTo < to)
        <5>0. alignedFrom = from /\ alignedTo = to
          BY <2>2, <2>3, <2>4, <4>2
        <5>1. first = <<>> /\ last = <<>>
          BY <3>3, <3>4, <4>2
        <5>2. split.raw = <<>>
          BY <2>1, <5>1, Concats, Zenon
        <5> QED
          BY <2>7, <3>1, <3>2, <5>0, <5>2 DEF Parts
      <4>3. CASE ~aligned /\ alignedTo < to
        <5>1. first = <<W(from, alignedFrom)>> /\ last = <<W(alignedTo, to)>>
          BY <3>3, <3>4, <4>3
        <5>2. split.raw = <<W(from, alignedFrom), W(alignedTo, to)>>
          BY <2>1, <5>1, Concats, Zenon
        <5> QED
          BY <2>7, <3>1, <3>2, <5>2 DEF Parts
      <4>4. CASE ~aligned /\ ~(alignedTo < to)
        <5>0. alignedTo = to
          BY <2>2, <2>3, <4>4
        <5>1. first = <<W(from, alignedFrom)>> /\ last = <<>>
          BY <3>3, <3>4, <4>4
        <5>2. split.raw = <<W(from, alignedFrom)>>
          BY <2>1, <5>1, Concats, Zenon
        <5> QED
          BY <2>7, <3>1, <3>2, <5>0, <5>2 DEF Parts
      <4> QED
        BY <4>1, <4>2, <4>3, <4>4
    <3>6. /\ alignedFrom = DayStart(alignedFrom) /\ alignedTo = DayStart(alignedTo)
          /\ alignedTo <= DayStart(t)
      BY <2>2, <2>3, <2>4, DayStartIsStart
    <3>7. \E m, k \in from..to :
             /\ split.closed = <<W(m, k)>>
             /\ m = DayStart(m) /\ k = DayStart(k) /\ k <= DayStart(t)
      BY <3>1, <3>2, <3>6
    <3> QED
      BY <3>5, <3>7, Zenon DEF split, Shape
  <2>8. CASE ~hasClosed
    <3>1. split.closed = <<>>
      BY <2>1, <2>8
    <3>2. start \in Nat /\ start = alignedFrom
      BY <2>2, <2>3, <2>4, <2>5, <2>8
    <3>3. first = IF aligned THEN <<>>
                  ELSE IF to < alignedFrom THEN <<W(from, to)>> ELSE <<W(from, alignedFrom)>>
      BY <2>6
    <3>4. last = IF alignedFrom < to THEN <<W(alignedFrom, to)>> ELSE <<>>
      BY <2>2, <2>3, <2>4, <2>5, <2>6, <2>8, <3>2
    <3> HIDE DEF split, first, last, start
    <3>5. Parts(split, from, to)
      <4>1. CASE aligned
        <5>0. alignedFrom = from /\ from < to
          BY <2>2, <2>4, <4>1
        <5>1. first = <<>> /\ last = <<W(alignedFrom, to)>>
          BY <3>3, <3>4, <4>1, <5>0
        <5>2. split.raw = <<W(alignedFrom, to)>>
          BY <2>1, <5>1, Concats, Zenon
        <5> QED
          BY <3>1, <5>0, <5>2 DEF Parts
      <4>2. CASE ~aligned /\ alignedFrom < to
        <5>0. ~(to < alignedFrom) /\ alignedFrom \in from..to
          BY <2>4, <4>2
        <5>1. first = <<W(from, alignedFrom)>> /\ last = <<W(alignedFrom, to)>>
          BY <3>3, <3>4, <4>2, <5>0
        <5>2. split.raw = <<W(from, alignedFrom), W(alignedFrom, to)>>
          BY <2>1, <5>1, Concats, Zenon
        <5> QED
          BY <3>1, <5>0, <5>2 DEF Parts
      <4>3. CASE ~aligned /\ ~(alignedFrom < to)
        <5>0. to < alignedFrom \/ alignedFrom = to
          BY <2>4, <4>3
        <5>1. first = <<W(from, to)>> /\ last = <<>>
          BY <3>3, <3>4, <4>3, <5>0
        <5>2. split.raw = <<W(from, to)>>
          BY <2>1, <5>1, Concats, Zenon
        <5> QED
          BY <3>1, <5>2 DEF Parts
      <4> QED
        BY <4>1, <4>2, <4>3
    <3> QED
      BY <3>1, <3>5, Zenon DEF split, Shape
  <2> QED
    BY <2>7, <2>8
<1> QED
  BY <1>1, <1>2

\* SplitExact of one report at one moment
Exact(r, n) ==
    LET all == r.closed \o r.raw
    IN  /\ \A i \in 1..Len(all) : all[i].from <= all[i].to
        /\ \A t \in Time :
              Cardinality({i \in 1..Len(all) : all[i].from <= t /\ t < all[i].to})
                  = (IF r.from <= t /\ t < r.to THEN 1 ELSE 0)
        /\ \A i \in 1..Len(r.closed) :
              /\ {all[i].from, all[i].to} \subseteq Days
              /\ all[i].to <= DayStart(n)

LEMMA SplitIsExact ==
    ASSUME NEW from \in Time, NEW to \in Time, NEW n \in Time, from <= to,
           NEW split, split = SplitClosedOpen(from, to, n),
           NEW r, r.from = from, r.to = to, r.closed = split.closed, r.raw = split.raw
    PROVE  Exact(r, n)
<1> DEFINE all == r.closed \o r.raw
<1>0. from \in Nat /\ to \in Nat /\ n \in Nat /\ Time \subseteq Nat
  BY TimeAssumption DEF Time
<1>1. Shape(r, from, to, n)
  <2>1. Shape(SplitClosedOpen(from, to, n), from, to, n)
    BY <1>0, SplitShape
  <2> QED
    BY <2>1 DEF Shape, Parts
<1>2. /\ \A i \in 1..Len(all) : all[i].from <= all[i].to
      /\ \A t \in Nat :
            Cardinality({i \in 1..Len(all) : all[i].from <= t /\ t < all[i].to})
                = (IF from <= t /\ t < to THEN 1 ELSE 0)
  <2>1. Pieces(all, from, to)
    BY <1>0, <1>1, PartsArePieces DEF Shape
  <2>2. from \in Nat /\ to \in Nat /\ from <= to
    BY <1>0
  <2> HIDE DEF all
  <2> QED
    BY <2>1, <2>2, PiecesCover
<1>3. \A i \in 1..Len(r.closed) :
         /\ {all[i].from, all[i].to} \subseteq Days
         /\ all[i].to <= DayStart(n)
  <2>1. CASE r.closed = <<>>
    BY <2>1
  <2>2. ASSUME NEW m \in from..to, NEW k \in from..to, r.closed = <<W(m, k)>>,
               m = DayStart(m), k = DayStart(k), k <= DayStart(n)
        PROVE  <1>3!:
    <3>1. Len(r.closed) = 1
      BY <2>2
    <3>2. all[1] = W(m, k)
      BY <1>1, <2>2 DEF Pieces, Shape
    <3>3. {m, k} \subseteq Days
      BY <1>0, <2>2, TimeAssumption DEF Days, Time
    <3> QED
      BY <2>2, <3>1, <3>2, <3>3 DEF W
  <2> QED
    BY <1>1, <2>1, <2>2 DEF Shape
<1> QED
  BY <1>0, <1>2, <1>3 DEF Exact

\* The closed days stay past days
LEMMA ExactLater ==
    ASSUME NEW r, NEW n \in Nat, NEW m \in Nat, n <= m, Exact(r, n)
    PROVE  Exact(r, m)
<1>1. DayStart(n) \in Nat /\ DayStart(m) \in Nat /\ DayStart(n) <= DayStart(m)
  BY DayStartIsStart, StartsApart
<1>2. Days \subseteq Nat
  BY TimeAssumption DEF Days, Time
<1>3. ASSUME NEW k \in Nat, k <= DayStart(n) PROVE k <= DayStart(m)
  BY <1>1, <1>3
<1> QED
  BY <1>2, <1>3, Zenon DEF Exact

-----------------------------------------------------------------------------
(* The totals of one window.                                               *)

\* The types of the rows
RowsOK ==
    /\ event \in [Events -> EventType] /\ \A e \in Events : event[e].start <= event[e].end
    /\ materialized \in [Days -> [Devices -> Nat]]

LEMMA Times == Time \subseteq Nat /\ \A t \in Time, u \in Nat : u <= t => u \in Time
  BY TimeAssumption DEF Time

LEMMA ImageFinite ==
    ASSUME NEW S, IsFiniteSet(S), NEW T, NEW f \in [S -> T],
           NEW R, \A y \in R : \E x \in S : y = f[x]
    PROVE  IsFiniteSet(R)
<1> DEFINE I == {f[x] : x \in S}
<1>1. f \in Surjection(S, I)
  BY DEF Surjection
<1>2. R \subseteq I
  OBVIOUS
<1> HIDE DEF I
<1>3. IsFiniteSet(I)
  BY <1>1, FS_Surjection
<1> QED
  BY <1>2, <1>3, FS_Subset

\* clipToWindow cuts to the window and keeps the instants that are in it
LEMMA ClipFacts ==
    ASSUME RowsOK, NEW d, NEW m \in Nat, NEW k \in Nat,
           NEW w, w = W(m, k)
    PROVE  LET S == Clip(w, Overlapping(d, w))
           IN  /\ S \in SUBSET Interval /\ IsFiniteSet(S)
               /\ \A i \in S : m <= i.start /\ i.end <= k
               /\ Covered(d, w) \in SUBSET Nat
               /\ \A t \in Nat :
                     t \in Covered(d, w) <=> \E i \in S : i.start <= t /\ t < i.end
<1> DEFINE O == Overlapping(d, w)
           clip(i) == [start |-> IF i.start < m THEN m ELSE i.start,
                       end |-> Earlier(i.end, k)]
           S == Clip(w, O)
           F == {f \in Stored : /\ event[f].device = d /\ ~event[f].deleted
                                /\ event[f].start < k /\ event[f].end > m}
           span == [e \in F |-> [start |-> event[e].start, end |-> event[e].end]]
           cut == [i \in O |-> clip(i)]
<1>0. w.from = m /\ w.to = k
  BY DEF W
<1>1. O = {span[e] : e \in F}
  BY <1>0 DEF Overlapping
<1>2. F \subseteq Events /\ IsFiniteSet(F)
  <2>1. F \subseteq Events
    BY DEF Stored
  <2> HIDE DEF F
  <2> QED
    BY <2>1, RowsAssumption, FS_Subset
<1>3. ASSUME NEW e \in F
      PROVE  /\ event[e].start \in Nat /\ event[e].end \in Nat
             /\ span[e] \in [start : Nat, end : Nat]
             /\ span[e].start < k /\ span[e].end > m
  <2>1. event[e] \in EventType /\ event[e].start < k /\ event[e].end > m
    BY <1>2 DEF RowsOK
  <2>2. event[e].start \in Nat /\ event[e].end \in Nat
    BY <2>1, Times DEF EventType
  <2> QED
    BY <2>1, <2>2
<1>4. O \subseteq [start : Nat, end : Nat] /\ \A i \in O : i.start < k /\ i.end > m
  <2> HIDE DEF O, F, span
  <2> QED
    BY <1>1, <1>3
<1>5. IsFiniteSet(O)
  <2>1. span \in [F -> [start : Nat, end : Nat]]
    <3> HIDE DEF F
    <3> QED
      BY <1>3
  <2>2. \A i \in O : \E e \in F : i = span[e]
    BY <1>1
  <2> HIDE DEF F, span, O
  <2> QED
    BY <1>2, <2>1, <2>2, ImageFinite
<1>6. S = {i \in {cut[j] : j \in O} : i.start < i.end}
  BY <1>0 DEF Clip
<1>7. ASSUME NEW i \in O
      PROVE  /\ cut[i] \in [start : Nat, end : Nat] /\ m <= cut[i].start /\ cut[i].end <= k
             /\ \A t \in Nat : (cut[i].start <= t /\ t < cut[i].end)
                                  <=> (i.start <= t /\ t < i.end /\ m <= t /\ t < k)
  <2>1. i.start \in Nat /\ i.end \in Nat
    BY <1>4
  <2>2. cut[i].start = (IF i.start < m THEN m ELSE i.start)
    OBVIOUS
  <2>3. cut[i].end = (IF i.end < k THEN i.end ELSE k)
    BY DEF Earlier
  <2>4. cut[i] \in [start : Nat, end : Nat]
    BY <2>1 DEF Earlier
  <2> HIDE DEF cut
  <2> QED
    BY <2>1, <2>2, <2>3, <2>4
<1>8. IsFiniteSet({cut[j] : j \in O})
  <2>1. cut \in [O -> [start : Nat, end : Nat]]
    <3>1. cut = [i \in O |-> cut[i]]
      OBVIOUS
    <3> HIDE DEF cut, O
    <3> QED
      BY <1>7, <3>1
  <2> DEFINE R == {cut[j] : j \in O}
  <2>2. \A i \in R : \E j \in O : i = cut[j]
    OBVIOUS
  <2> HIDE DEF cut, O, R
  <2>3. IsFiniteSet(R)
    BY <1>5, <2>1, <2>2, ImageFinite
  <2> QED
    BY <2>3 DEF R
<1>9. S \in SUBSET Interval /\ IsFiniteSet(S) /\ \A i \in S : m <= i.start /\ i.end <= k
  <2> HIDE DEF S, cut, O
  <2>1. S \subseteq {cut[j] : j \in O}
    BY <1>6
  <2>2. IsFiniteSet(S)
    BY <1>8, <2>1, FS_Subset
  <2>3. ASSUME NEW i \in S PROVE i \in Interval /\ m <= i.start /\ i.end <= k
    <3>1. PICK j \in O : i = cut[j] /\ i.start < i.end
      BY <1>6
    <3> QED
      BY <1>7, <3>1 DEF Interval
  <2> QED
    BY <2>2, <2>3
<1>10. Covered(d, w) = {t \in m..(k - 1) : \E i \in O : i.start <= t /\ t < i.end}
  BY <1>0 DEF Covered
<1>11. ASSUME NEW t \in Nat
       PROVE  t \in Covered(d, w) <=> \E i \in S : i.start <= t /\ t < i.end
  <2> HIDE DEF S, cut, O
  <2>1. t \in Covered(d, w) <=> \E j \in O : j.start <= t /\ t < j.end /\ m <= t /\ t < k
    BY <1>10
  <2>2. \A i : i \in S <=> \E j \in O : i = cut[j] /\ i.start < i.end
    BY <1>6
  <2>3. ASSUME NEW i \in S, i.start <= t, t < i.end PROVE t \in Covered(d, w)
    <3>1. PICK j \in O : i = cut[j]
      BY <2>2
    <3> QED
      BY <1>7, <2>1, <2>3, <3>1
  <2>4. ASSUME NEW j \in O, j.start <= t, t < j.end, m <= t, t < k
        PROVE  \E i \in S : i.start <= t /\ t < i.end
    <3>1. cut[j].start <= t /\ t < cut[j].end
      BY <1>7, <2>4
    <3>2. cut[j].start \in Nat /\ cut[j].end \in Nat
      BY <1>7
    <3>3. cut[j].start < cut[j].end
      BY <3>1, <3>2
    <3> QED
      BY <2>2, <3>1, <3>3
  <2> QED
    BY <2>1, <2>3, <2>4
<1>12. Covered(d, w) \in SUBSET Nat
  BY <1>10
<1> HIDE DEF S, O
<1>13. /\ S \in SUBSET Interval /\ IsFiniteSet(S)
       /\ \A i \in S : m <= i.start /\ i.end <= k
       /\ Covered(d, w) \in SUBSET Nat
       /\ \A t \in Nat : t \in Covered(d, w) <=> \E i \in S : i.start <= t /\ t < i.end
  BY <1>9, <1>11, <1>12
<1> QED
  BY <1>13 DEF S, O

LEMMA RawBound ==
    ASSUME RowsOK, NEW m \in Nat, NEW k \in Nat, m <= k
    PROVE  /\ RawTotal(W(m, k)) \in Nat
           /\ RawTotal(W(m, k)) * Second <= Cardinality(Devices) * (k - m)
<1> DEFINE w == W(m, k)
           f == [d \in Devices |-> MergeAndSum(Clip(w, Overlapping(d, w)))]
<1>1. ASSUME NEW d \in Devices
      PROVE  f[d] \in Nat /\ f[d] * Second <= k - m
  <2> DEFINE S == Clip(w, Overlapping(d, w))
  <2>1. S \in SUBSET Interval /\ IsFiniteSet(S) /\ \A i \in S : m <= i.start /\ i.end <= k
    BY ClipFacts
  <2>2. f[d] = MergeAndSum(S)
    OBVIOUS
  <2> HIDE DEF S, f
  <2> QED
    BY <2>1, <2>2, MergeBound
<1>2. f \in [Devices -> Nat] /\ DOMAIN f = Devices
  BY <1>1
<1>3. RawTotal(w) = SumFunction(f)
  BY DEF RawTotal
<1>4. k - m \in Nat /\ Second \in Nat
  BY TimeAssumption
<1> HIDE DEF f, w
<1>5. Summable(f)
  BY <1>2, RowsAssumption DEF Summable
<1>6. SumFunction(f) \in Nat
  BY <1>5, SumNat
<1>7. SumFunction(f) * Second <= Cardinality(Devices) * (k - m)
  BY <1>1, <1>2, <1>4, RowsAssumption, SumBound
<1> QED
  BY <1>3, <1>6, <1>7 DEF w

\* A day's total of a device, whichever rows it is taken from
LEMMA LiveNat ==
    ASSUME RowsOK, NEW day, NEW d
    PROVE  LiveTotal(day, d) \in Nat
<1> DEFINE rows == {e \in Stored : event[e].device = d /\ DayStart(event[e].start) = day}
           f == [e \in rows |-> DurationS(e)]
<1>1. rows \subseteq Events
  BY DEF Stored
<1>2. ASSUME NEW e \in Events PROVE DurationS(e) \in Nat
  <2>1. /\ event[e].start \in Nat /\ event[e].end \in Nat
        /\ event[e].start <= event[e].end
    BY Times DEF RowsOK, EventType
  <2> DEFINE n == event[e].end - event[e].start
  <2>2. n \in Nat
    BY <2>1
  <2>3. DurationS(e) = (2 * n + Second) \div (2 * Second)
    BY DEF DurationS
  <2> HIDE DEF n
  <2>4. (2 * n + Second) \div (2 * Second) \in Nat
    BY <2>2, TimeAssumption
  <2> QED
    BY <2>3, <2>4
<1>3. LiveTotal(day, d) = SumFunction(f)
  BY DEF LiveTotal
<1>4. Summable(f)
  <2> HIDE DEF rows
  <2>1. IsFiniteSet(rows)
    BY <1>1, RowsAssumption, FS_Subset
  <2> QED
    BY <1>1, <1>2, <2>1 DEF Summable
<1> HIDE DEF f
<1> QED
  BY <1>3, <1>4, SumNat

LEMMA SecondDay == Day \in Nat /\ Second \in Nat /\ Second <= Day /\ Second # 0
<1>1. PICK n \in 1..Day : Day = n * Second
  BY TimeAssumption
<1>2. Second \in Nat \ {0}
  BY TimeAssumption
<1>3. Day \in Int
  BY <1>1, <1>2
<1>4. n \in Nat /\ 1 <= n
  BY <1>1, <1>3
<1>5. n * Second = Second + (n - 1) * Second /\ (n - 1) * Second \in Nat
  BY <1>2, <1>4
<1> QED
  BY <1>1, <1>2, <1>5

LEMMA DaysFinite == IsFiniteSet(Days) /\ Days \subseteq Nat
<1>1. IsFiniteSet(Time) /\ Time \subseteq Nat /\ Days \subseteq Time
  BY TimeAssumption, FS_Interval DEF Time, Days
<1> QED
  BY <1>1, FS_Subset

LEMMA ClosedBound ==
    ASSUME RowsOK, NEW m \in Nat, NEW k \in Nat, m + Day <= k
    PROVE  /\ ClosedTotal(W(m, k)) \in Nat
           /\ ClosedTotal(W(m, k)) * Second <= Cardinality(Devices) * (k - m)
<1> DEFINE w == W(m, k)
           days == {day \in Days : w.from <= day /\ day < w.to}
           total(d) == SumFunction([day \in days |-> DailyTotal(day, d)])
           f == [d \in Devices |-> Capped(total(d), w)]
<1>0. w.from = m /\ w.to = k
  BY DEF W
<1>1. ASSUME NEW d \in Devices PROVE total(d) \in Nat
  <2> DEFINE g == [day \in days |-> DailyTotal(day, d)]
  <2>1. IsFiniteSet(days) /\ days \subseteq Days
    <3>1. days \subseteq Days
      OBVIOUS
    <3> HIDE DEF days
    <3> QED
      BY <3>1, DaysFinite, FS_Subset
  <2>2. ASSUME NEW day \in Days PROVE DailyTotal(day, d) \in Nat
    <3>1. materialized[day][d] \in Nat
      BY DEF RowsOK
    <3> QED
      BY <3>1, LiveNat DEF DailyTotal
  <2>3. Summable(g)
    <3> HIDE DEF days
    <3> QED
      BY <2>1, <2>2 DEF Summable
  <2> HIDE DEF g
  <2>4. SumFunction(g) \in Nat
    BY <2>3, SumNat
  <2> QED
    BY <2>4 DEF g
<1>2. WindowSeconds(w) \in Nat /\ WindowSeconds(w) * Second <= k - m
  <2>1. k - m \in Nat /\ ~(k - m < Second)
    BY SecondDay
  <2>2. WindowSeconds(w) = WholeSeconds(k - m)
    BY <1>0, <2>1 DEF WindowSeconds
  <2> QED
    BY <2>1, <2>2, Seconds
<1>3. ASSUME NEW d \in Devices PROVE f[d] \in Nat /\ f[d] * Second <= k - m
  <2>1. f[d] = IF total(d) < WindowSeconds(w) THEN total(d) ELSE WindowSeconds(w)
    BY DEF Capped, Earlier
  <2> DEFINE a == total(d)
             b == WindowSeconds(w)
  <2>2. a \in Nat /\ b \in Nat /\ b * Second <= k - m /\ f[d] = IF a < b THEN a ELSE b
    BY <1>1, <1>2, <2>1
  <2> HIDE DEF a, b, f
  <2>3. a < b => a * Second <= b * Second
    BY <2>2, SecondDay
  <2>4. a * Second \in Nat /\ b * Second \in Nat
    BY <2>2, SecondDay
  <2> QED
    BY <2>2, <2>3, <2>4
<1>4. f \in [Devices -> Nat] /\ DOMAIN f = Devices
  <2>1. f = [d \in Devices |-> f[d]] /\ DOMAIN f = Devices
    OBVIOUS
  <2> HIDE DEF f
  <2> QED
    BY <1>3, <2>1
<1>5. ClosedTotal(w) = SumFunction(f)
  BY DEF ClosedTotal
<1>6. k - m \in Nat
  BY SecondDay
<1> HIDE DEF f, w
<1>7. Summable(f)
  BY <1>4, RowsAssumption DEF Summable
<1>8. SumFunction(f) \in Nat
  BY <1>7, SumNat
<1>9. SumFunction(f) * Second <= Cardinality(Devices) * (k - m)
  BY <1>3, <1>4, <1>6, SecondDay, RowsAssumption, SumBound
<1> QED
  BY <1>5, <1>8, <1>9 DEF w

-----------------------------------------------------------------------------
(* What a report has read, and what is left to read.                       *)

Left(r) == Size(r.closed, 1) + Size(r.raw, 1) + Size(r.raw, 2)

ReportTyped(r) ==
    /\ DOMAIN r = DOMAIN NoReport
    /\ r.from \in Time /\ r.to \in Time /\ r.total \in Nat

ClosedWindows(q) == q # <<>> => \E m, k \in Time : m + Day <= k /\ q = <<W(m, k)>>

RawWindows(q) ==
    \/ q = <<>>
    \/ \E m, k \in Time : m <= k /\ q = <<W(m, k)>>
    \/ \E m, k, m2, k2 \in Time : m <= k /\ m2 <= k2 /\ q = <<W(m, k), W(m2, k2)>>

Sound(r) ==
    /\ ReportTyped(r) /\ ClosedWindows(r.closed) /\ RawWindows(r.raw)
    /\ r.total * Second <= Cardinality(Devices) * (r.to - r.from - Left(r))

LEMMA DevicesCount == Cardinality(Devices) \in Nat
  BY RowsAssumption, FS_CardinalityType

LEMMA NoSize ==
    ASSUME NEW q, q = <<>>
    PROVE  Size(q, 1) = 0 /\ Size(q, 2) = 0
  BY DEF Size

LEMMA OneSize ==
    ASSUME NEW q, NEW m \in Time, NEW k \in Time, q = <<W(m, k)>>
    PROVE  Size(q, 1) = k - m /\ Size(q, 2) = 0 /\ m \in Nat /\ k \in Nat
<1>1. Len(q) = 1 /\ q[1].from = m /\ q[1].to = k
  BY DEF W
<1> QED
  BY <1>1, Times DEF Size

LEMMA TwoSizes ==
    ASSUME NEW q, NEW m \in Time, NEW k \in Time, NEW m2 \in Time, NEW k2 \in Time,
           q = <<W(m, k), W(m2, k2)>>
    PROVE  /\ Size(q, 1) = k - m /\ Size(q, 2) = k2 - m2
           /\ m \in Nat /\ k \in Nat /\ m2 \in Nat /\ k2 \in Nat
<1>1. Len(q) = 2 /\ q[1].from = m /\ q[1].to = k /\ q[2].from = m2 /\ q[2].to = k2
  BY DEF W
<1> QED
  BY <1>1, Times DEF Size

\* splitClosedOpen's windows have the size of the range
LEMMA SplitSound ==
    ASSUME NEW from \in Time, NEW to \in Time, NEW n \in Nat, from <= to,
           NEW r, ReportTyped(r), r.from = from, r.to = to, r.total = 0,
           Shape(r, from, to, n)
    PROVE  Sound(r)
<1>0. from \in Nat /\ to \in Nat /\ \A m \in from..to : m \in Time /\ m \in Nat
  BY Times
<1>1. ClosedWindows(r.closed)
  <2>1. ASSUME NEW m \in from..to, NEW k \in from..to, r.closed = <<W(m, k)>>, m < k,
               m = DayStart(m), k = DayStart(k)
        PROVE  ClosedWindows(r.closed)
    <3>1. m + Day <= k
      BY <1>0, <2>1, StartsApart
    <3> QED
      BY <1>0, <2>1, <3>1 DEF ClosedWindows
  <2>2. ASSUME NEW m \in from..to, NEW k \in from..to, r.closed = <<W(m, k)>>,
               m = DayStart(m), k = DayStart(k)
        PROVE  ClosedWindows(r.closed)
    <3>1. r.closed # <<>>
      BY <2>2
    <3>2. PICK a \in from..to, b \in from..to : a < b /\ r.closed = <<W(a, b)>>
      BY <3>1 DEF Shape, Parts
    <3>3. W(a, b) = W(m, k)
      BY <2>2, <3>2
    <3>4. a = m /\ b = k
      BY <3>3 DEF W
    <3> QED
      BY <2>1, <2>2, <3>2, <3>4
  <2>3. CASE r.closed = <<>>
    BY <2>3 DEF ClosedWindows
  <2> QED
    BY <2>2, <2>3 DEF Shape
<1>2. RawWindows(r.raw) /\ Left(r) = to - from
  <2>1. CASE r.closed = <<>> /\ r.raw = <<W(from, to)>>
    <3>1. RawWindows(r.raw)
      BY <2>1 DEF RawWindows
    <3>2. Left(r) = 0 + (to - from) + 0
      BY <2>1, NoSize, OneSize, TwoSizes DEF Left
    <3> QED
      BY <1>0, <3>1, <3>2
  <2>2. ASSUME NEW m \in from..to, r.closed = <<>>, r.raw = <<W(from, m), W(m, to)>>
        PROVE  <1>2!:
    <3>1. RawWindows(r.raw)
      <4>1. m \in Time /\ from <= m /\ m <= to
        BY <1>0
      <4> QED
        BY <2>2, <4>1 DEF RawWindows
    <3>2. Left(r) = 0 + (m - from) + (to - m)
      BY <1>0, <2>2, NoSize, OneSize, TwoSizes DEF Left
    <3> QED
      BY <1>0, <3>1, <3>2
  <2>3. ASSUME NEW m \in from..to, NEW k \in from..to, m < k, r.closed = <<W(m, k)>>,
               \/ m = from /\ k = to /\ r.raw = <<>>
               \/ m = from /\ r.raw = <<W(k, to)>>
               \/ k = to /\ r.raw = <<W(from, m)>>
               \/ r.raw = <<W(from, m), W(k, to)>>
        PROVE  <1>2!:
    <3>0. m \in Time /\ k \in Time /\ m \in Nat /\ k \in Nat /\ from <= m /\ k <= to
      BY <1>0
    <3>1. Size(r.closed, 1) = k - m
      BY <2>3, <3>0, NoSize, OneSize, TwoSizes
    <3>2. CASE m = from /\ k = to /\ r.raw = <<>>
      <4>1. Left(r) = (k - m) + 0 + 0
        BY <3>1, <3>2, NoSize, OneSize DEF Left
      <4> QED
        BY <3>0, <3>2, <4>1 DEF RawWindows
    <3>3. CASE m = from /\ r.raw = <<W(k, to)>>
      <4>1. Left(r) = (k - m) + (to - k) + 0
        BY <3>0, <3>1, <3>3, NoSize, OneSize, TwoSizes DEF Left
      <4>2. RawWindows(r.raw)
        BY <3>0, <3>3 DEF RawWindows
      <4> QED
        BY <1>0, <3>0, <3>3, <4>1, <4>2
    <3>4. CASE k = to /\ r.raw = <<W(from, m)>>
      <4>1. Left(r) = (k - m) + (m - from) + 0
        BY <3>0, <3>1, <3>4, NoSize, OneSize, TwoSizes DEF Left
      <4>2. RawWindows(r.raw)
        BY <3>0, <3>4 DEF RawWindows
      <4> QED
        BY <1>0, <3>0, <3>4, <4>1, <4>2
    <3>5. CASE r.raw = <<W(from, m), W(k, to)>>
      <4>1. Left(r) = (k - m) + (m - from) + (to - k)
        BY <3>0, <3>1, <3>5, NoSize, OneSize, TwoSizes DEF Left
      <4>2. RawWindows(r.raw)
        BY <3>0, <3>5 DEF RawWindows
      <4> QED
        BY <1>0, <3>0, <4>1, <4>2
    <3> QED
      BY <2>3, <3>2, <3>3, <3>4, <3>5
  <2> QED
    BY <2>1, <2>2, <2>3 DEF Shape, Parts
<1>3. to - from - Left(r) = 0
  BY <1>0, <1>2
<1>4. 0 * Second <= Cardinality(Devices) * 0
  BY DevicesCount, TimeAssumption
<1> QED
  BY <1>1, <1>2, <1>3, <1>4 DEF Sound

\* One more window read: its seconds are no more than it leaves
LEMMA OneMore ==
    ASSUME NEW t \in Nat, NEW u \in Nat, NEW x \in Int, NEW y \in Int,
           t * Second <= Cardinality(Devices) * x,
           u * Second <= Cardinality(Devices) * y
    PROVE  (t + u) * Second <= Cardinality(Devices) * (x + y)
<1> DEFINE D == Cardinality(Devices)
<1>1. D \in Nat /\ Second \in Nat
  BY DevicesCount, TimeAssumption
<1> HIDE DEF D
<1>2. (t + u) * Second = t * Second + u * Second /\ D * (x + y) = D * x + D * y
  BY <1>1
<1>3. /\ t * Second \in Int /\ u * Second \in Int /\ D * x \in Int /\ D * y \in Int
      /\ t * Second <= D * x /\ u * Second <= D * y
  BY <1>1 DEF D
<1>4. t * Second + u * Second <= D * x + D * y
  BY <1>3
<1> QED
  BY <1>2, <1>4 DEF D

\* What is left of a raw window's size is a number
LEMMA LeftInt ==
    ASSUME NEW r, Sound(r)
    PROVE  /\ Size(r.closed, 1) \in Nat /\ Size(r.raw, 1) \in Nat /\ Size(r.raw, 2) \in Nat
           /\ r.from \in Nat /\ r.to \in Nat
<1>1. Size(r.closed, 1) \in Nat
  <2>1. ASSUME NEW m \in Time, NEW k \in Time, m + Day <= k, r.closed = <<W(m, k)>>
        PROVE  Size(r.closed, 1) \in Nat
    <3>1. Size(r.closed, 1) = k - m /\ m \in Nat /\ k \in Nat
      BY <2>1, NoSize, OneSize, TwoSizes
    <3> QED
      BY <2>1, <3>1, SecondDay
  <2>2. r.closed = <<>> => Size(r.closed, 1) \in Nat
    BY NoSize, OneSize
  <2> QED
    BY <2>1, <2>2 DEF Sound, ClosedWindows
<1>2. Size(r.raw, 1) \in Nat /\ Size(r.raw, 2) \in Nat
  <2>1. CASE r.raw = <<>>
    BY <2>1, NoSize, OneSize
  <2>2. ASSUME NEW m \in Time, NEW k \in Time, m <= k, r.raw = <<W(m, k)>>
        PROVE  <1>2!:
    <3>1. Size(r.raw, 1) = k - m /\ Size(r.raw, 2) = 0 /\ m \in Nat /\ k \in Nat
      BY <2>2, NoSize, OneSize, TwoSizes
    <3> QED
      BY <2>2, <3>1
  <2>3. ASSUME NEW m \in Time, NEW k \in Time, NEW m2 \in Time, NEW k2 \in Time,
               m <= k, m2 <= k2, r.raw = <<W(m, k), W(m2, k2)>>
        PROVE  <1>2!:
    <3>1. /\ Size(r.raw, 1) = k - m /\ Size(r.raw, 2) = k2 - m2
          /\ m \in Nat /\ k \in Nat /\ m2 \in Nat /\ k2 \in Nat
      BY <2>3, NoSize, OneSize, TwoSizes
    <3> QED
      BY <2>3, <3>1
  <2> QED
    BY <2>1, <2>2, <2>3 DEF Sound, RawWindows
<1>3. r.from \in Nat /\ r.to \in Nat
  BY Times DEF Sound, ReportTyped
<1> QED
  BY <1>1, <1>2, <1>3

LEMMA ReadClosedSound ==
    ASSUME RowsOK, Sound(report), ReadClosed
    PROVE  Sound(report')
<1> DEFINE t == IF report.closed = <<>> THEN 0 ELSE ClosedTotal(Head(report.closed))
           D == Cardinality(Devices)
           x == report.to - report.from - Left(report)
           y == Size(report.closed, 1)
<1>1. /\ report'.closed = <<>> /\ report'.total = t /\ report'.raw = report.raw
      /\ report'.from = report.from /\ report'.to = report.to
      /\ DOMAIN report' = DOMAIN NoReport
  BY DEF ReadClosed, Sound, ReportTyped, NoReport
<1>2. t \in Nat /\ t * Second <= D * y
  <2>1. CASE report.closed = <<>>
    <3>1. t = 0 /\ y = 0
      BY <2>1, NoSize, OneSize
    <3> QED
      BY <3>1, DevicesCount, TimeAssumption
  <2>2. ASSUME NEW m \in Time, NEW k \in Time, m + Day <= k, report.closed = <<W(m, k)>>
        PROVE  <1>2!:
    <3>1. y = k - m /\ m \in Nat /\ k \in Nat
      BY <2>2, NoSize, OneSize, TwoSizes
    <3>2. t = ClosedTotal(W(m, k))
      BY <2>2
    <3> HIDE DEF t, y
    <3> QED
      BY <2>2, <3>1, <3>2, ClosedBound
  <2> QED
    BY <2>1, <2>2 DEF Sound, ClosedWindows
<1>3. x \in Int /\ y \in Nat /\ 0 * Second <= D * x
  <2>1. x \in Int /\ y \in Nat
    BY LeftInt DEF Left
  <2>2. report.total * Second <= D * x /\ report.total \in Nat
    BY DEF Sound, ReportTyped
  <2> HIDE DEF x
  <2>3. report.total * Second \in Nat /\ D * x \in Int
    BY <2>1, <2>2, DevicesCount, TimeAssumption
  <2> QED
    BY <2>1, <2>2, <2>3, TimeAssumption
<1>4. (0 + t) * Second <= D * (x + y)
  <2> HIDE DEF x, y, t
  <2> QED
    BY <1>2, <1>3, OneMore
<1>5. report'.to - report'.from - Left(report') = x + y
  <2>1. Left(report') = 0 + Size(report.raw, 1) + Size(report.raw, 2)
    BY <1>1, NoSize, OneSize DEF Left
  <2> QED
    BY <1>1, <2>1, LeftInt DEF Left
<1>6. 0 + t = t
  BY <1>2
<1>7. report'.total * Second <= D * (report'.to - report'.from - Left(report'))
  <2> HIDE DEF t, x, y
  <2> QED
    BY <1>1, <1>4, <1>5, <1>6
<1>8. ClosedWindows(report'.closed) /\ RawWindows(report'.raw)
  BY <1>1 DEF Sound, ClosedWindows, RawWindows
<1>9. ReportTyped(report')
  <2> HIDE DEF t
  <2> QED
    BY <1>1, <1>2 DEF Sound, ReportTyped
<1> QED
  BY <1>7, <1>8, <1>9 DEF Sound

LEMMA ReadRawSound ==
    ASSUME RowsOK, Sound(report), ReadRaw
    PROVE  Sound(report')
<1> DEFINE t == RawTotal(Head(report.raw))
           D == Cardinality(Devices)
           x == report.to - report.from - Left(report)
           y == Size(report.raw, 1)
<1>1. /\ report'.closed = report.closed /\ report'.total = report.total + t
      /\ report'.raw = Tail(report.raw)
      /\ report'.from = report.from /\ report'.to = report.to
      /\ DOMAIN report' = DOMAIN NoReport /\ report.raw # <<>>
  BY DEF ReadRaw, Sound, ReportTyped, NoReport
<1>2. /\ t \in Nat /\ t * Second <= D * y
      /\ RawWindows(Tail(report.raw))
      /\ Size(Tail(report.raw), 1) = Size(report.raw, 2) /\ Size(Tail(report.raw), 2) = 0
  <2>1. ASSUME NEW m \in Time, NEW k \in Time, m <= k,
               \/ report.raw = <<W(m, k)>>
               \/ \E m2, k2 \in Time : m2 <= k2 /\ report.raw = <<W(m, k), W(m2, k2)>>
        PROVE  t \in Nat /\ t * Second <= D * y
    <3>1. y = k - m /\ m \in Nat /\ k \in Nat
      <4>1. CASE report.raw = <<W(m, k)>>
        BY <4>1, OneSize
      <4>2. ASSUME NEW m2 \in Time, NEW k2 \in Time, report.raw = <<W(m, k), W(m2, k2)>>
            PROVE  <3>1!:
        BY <4>2, TwoSizes
      <4> QED
        BY <2>1, <4>1, <4>2
    <3>2. t = RawTotal(W(m, k))
      BY <2>1
    <3> HIDE DEF t, y
    <3> QED
      BY <2>1, <3>1, <3>2, RawBound
  <2>2. ASSUME NEW m \in Time, NEW k \in Time, m <= k, report.raw = <<W(m, k)>>
        PROVE  <1>2!:
    <3>1. Tail(report.raw) = <<>>
      BY <2>2
    <3>2. Size(Tail(report.raw), 1) = 0 /\ Size(Tail(report.raw), 2) = 0
      BY <3>1, NoSize, OneSize
    <3>3. Size(report.raw, 2) = 0
      BY <2>2, NoSize, OneSize
    <3> QED
      BY <2>1, <2>2, <3>1, <3>2, <3>3 DEF RawWindows
  <2>3. ASSUME NEW m \in Time, NEW k \in Time, NEW m2 \in Time, NEW k2 \in Time,
               m <= k, m2 <= k2, report.raw = <<W(m, k), W(m2, k2)>>
        PROVE  <1>2!:
    <3>1. Tail(report.raw) = <<W(m2, k2)>>
      BY <2>3
    <3>2. /\ Size(Tail(report.raw), 1) = k2 - m2 /\ Size(Tail(report.raw), 2) = 0
          /\ Size(report.raw, 2) = k2 - m2
      BY <2>3, <3>1, NoSize, OneSize, TwoSizes
    <3>3. RawWindows(Tail(report.raw))
      BY <2>3, <3>1 DEF RawWindows
    <3> QED
      BY <2>1, <2>3, <3>2, <3>3
  <2> QED
    BY <1>1, <2>2, <2>3 DEF Sound, RawWindows
<1>3. x \in Int /\ y \in Nat /\ report.total \in Nat /\ report.total * Second <= D * x
  <2>1. x \in Int /\ y \in Nat
    BY LeftInt DEF Left
  <2> QED
    BY <2>1 DEF Sound, ReportTyped
<1>4. (report.total + t) * Second <= D * (x + y)
  <2> DEFINE u == report.total
  <2>1. /\ t \in Nat /\ t * Second <= Cardinality(Devices) * y
        /\ u \in Nat /\ u * Second <= Cardinality(Devices) * x
        /\ x \in Int /\ y \in Int
    BY <1>2, <1>3
  <2> HIDE DEF x, y, t, u
  <2>2. (u + t) * Second <= Cardinality(Devices) * (x + y)
    BY <2>1, OneMore
  <2> QED
    BY <2>2 DEF u
<1>5. report'.to - report'.from - Left(report') = x + y
  <2>1. Left(report') = Size(report.closed, 1) + Size(report.raw, 2) + 0
    BY <1>1, <1>2 DEF Left
  <2> QED
    BY <1>1, <2>1, LeftInt DEF Left
<1>6. report'.total * Second <= D * (report'.to - report'.from - Left(report'))
  <2> HIDE DEF t, x, y
  <2> QED
    BY <1>1, <1>4, <1>5
<1>7. ClosedWindows(report'.closed) /\ RawWindows(report'.raw)
  BY <1>1, <1>2 DEF Sound
<1>8. ReportTyped(report')
  <2> HIDE DEF t
  <2> QED
    BY <1>1, <1>2, <1>3 DEF Sound, ReportTyped
<1> QED
  BY <1>6, <1>7, <1>8 DEF Sound

-----------------------------------------------------------------------------
(* The invariant.                                                          *)

\* The invariant of one moment and the report at that moment
Held(n, r) ==
    /\ n \in Time
    /\ Sound(r)
    /\ r.pc = "closed" => Exact(r, n)

LEMMA Parted == IInv <=> RowsOK /\ Held(now, report)
<1>1. TypeOK <=> now \in Time /\ RowsOK /\ ReportTyped(report)
  BY Zenon DEF TypeOK, RowsOK, ReportTyped
<1>2. WindowsOK <=> ClosedWindows(report.closed) /\ RawWindows(report.raw)
  BY Zenon DEF WindowsOK, ClosedWindows, RawWindows
<1>3. ReadSoFar <=> report.total * Second <=
                       Cardinality(Devices) * (report.to - report.from - Left(report))
  BY Zenon DEF ReadSoFar, Unread, Left
<1>4. SplitExact <=> (report.pc = "closed" => Exact(report, now))
  BY Zenon DEF SplitExact, Exact
<1> QED
  BY <1>1, <1>2, <1>3, <1>4, Zenon DEF IInv, Held, Sound

LEMMA NoReportSound ==
    /\ Sound(NoReport) /\ NoReport.pc = "idle"
<1>1. /\ NoReport.from = 0 /\ NoReport.to = 0 /\ NoReport.total = 0 /\ NoReport.pc = "idle"
      /\ NoReport.closed = <<>> /\ NoReport.raw = <<>>
  BY DEF NoReport
<1>2. 0 \in Time
  BY TimeAssumption DEF Time
<1>3. Left(NoReport) = 0
  BY <1>1, NoSize, OneSize DEF Left
<1>4. 0 * Second <= Cardinality(Devices) * (0 - 0 - 0)
  BY DevicesCount, TimeAssumption
<1> QED
  BY <1>1, <1>2, <1>3, <1>4 DEF Sound, ReportTyped, ClosedWindows, RawWindows

LEMMA InitInvariant ==
    ASSUME Init
    PROVE  IInv
<1>1. 0 \in Time
  BY TimeAssumption DEF Time
<1>2. RowsOK
  BY <1>1 DEF Init, RowsOK, NoEvent, EventType
<1>3. Held(now, report)
  BY <1>1, NoReportSound DEF Init, Held
<1> QED
  BY <1>2, <1>3, Parted

\* Events, tombstones and refreshes leave rows of the same types
LEMMA RowsStay ==
    ASSUME RowsOK, [Next]_vars
    PROVE  RowsOK'
<1>1. CASE UNCHANGED <<event, materialized>>
  BY <1>1 DEF RowsOK
<1>2. ASSUME NEW e \in Events, NEW d \in Devices, NEW s \in Time, NEW t \in Time,
             NEW del \in BOOLEAN, Ingest(e, d, s, t, del)
      PROVE  RowsOK'
  <2> DEFINE row == [device |-> d, start |-> s, end |-> t, deleted |-> del]
  <2>1. event' = [event EXCEPT ![e] = row] /\ s <= t /\ materialized' = materialized
    BY <1>2 DEF Ingest
  <2>2. row \in EventType /\ row.start <= row.end
    BY <2>1 DEF EventType
  <2> HIDE DEF row
  <2> QED
    BY <2>1, <2>2 DEF RowsOK
<1>3. ASSUME NEW e \in Events, Tombstone(e) PROVE RowsOK'
  <2> DEFINE row == [event[e] EXCEPT !.deleted = TRUE]
  <2>1. event' = [event EXCEPT ![e] = row] /\ materialized' = materialized
    BY <1>3 DEF Tombstone
  <2>2. row \in EventType /\ row.start <= row.end
    BY DEF EventType, RowsOK
  <2> HIDE DEF row
  <2> QED
    BY <2>1, <2>2 DEF RowsOK
<1>4. ASSUME Refresh PROVE RowsOK'
  <2>1. \A day \in Days, d \in Devices : LiveTotal(day, d) \in Nat
    BY LiveNat
  <2>2. event' = event
    BY <1>4 DEF Refresh
  <2>3. materialized' \in [Days -> [Devices -> Nat]]
    <3>1. ASSUME NEW day \in Days PROVE materialized[day] \in [Devices -> Nat]
      BY DEF RowsOK
    <3>2. ASSUME NEW day \in Days
          PROVE  [d \in Devices |-> LiveTotal(day, d)] \in [Devices -> Nat]
      BY <2>1
    <3> QED
      BY <1>4, <3>1, <3>2 DEF Refresh
  <2> QED
    BY <2>2, <2>3 DEF RowsOK
<1> QED
  BY <1>1, <1>2, <1>3, <1>4
     DEF Next, vars, Tick, StartSplit, StartRaw, ReadClosed, ReadRaw, Answer

LEMMA NextInvariant ==
    ASSUME IInv, [Next]_vars
    PROVE  IInv'
<1>0. RowsOK /\ Held(now, report) /\ now \in Nat /\ Time \subseteq Nat
  BY Parted, Times DEF Held
<1>1. SUFFICES Held(now', report')
  <2>1. IInv' <=> RowsOK' /\ Held(now', report')
    <3>1. TypeOK' <=> now' \in Time /\ RowsOK' /\ ReportTyped(report')
      BY Zenon DEF TypeOK, RowsOK, ReportTyped
    <3>2. WindowsOK' <=> ClosedWindows(report'.closed) /\ RawWindows(report'.raw)
      BY Zenon DEF WindowsOK, ClosedWindows, RawWindows
    <3>3. ReadSoFar' <=> report'.total * Second <=
                            Cardinality(Devices) * (report'.to - report'.from - Left(report'))
      BY Zenon DEF ReadSoFar, Unread, Left
    <3>4. SplitExact' <=> (report'.pc = "closed" => Exact(report', now'))
      BY Zenon DEF SplitExact, Exact
    <3> QED
      BY <3>1, <3>2, <3>3, <3>4, Zenon DEF IInv, Held, Sound
  <2> QED
    BY <1>0, <2>1, RowsStay
<1>2. ASSUME report' = report, now' \in Time, now <= now' PROVE Held(now', report')
  BY <1>0, <1>2, ExactLater DEF Held
<1>3. CASE Tick
  BY <1>0, <1>2, <1>3, TimeAssumption DEF Tick, Time
<1>4. CASE UNCHANGED <<now, report>>
  BY <1>0, <1>2, <1>4
<1>5. CASE Refresh
  BY <1>4, <1>5 DEF Refresh
<1>6. ASSUME NEW e \in Events, Tombstone(e) PROVE Held(now', report')
  BY <1>4, <1>6 DEF Tombstone
<1>7. ASSUME NEW e \in Events, NEW d \in Devices, NEW s \in Time, NEW t \in Time,
             NEW del \in BOOLEAN, Ingest(e, d, s, t, del)
      PROVE  Held(now', report')
  BY <1>4, <1>7 DEF Ingest
<1>8. ASSUME NEW from \in Time, NEW to \in Time, StartSplit(from, to) PROVE Held(now', report')
  <2> DEFINE split == SplitClosedOpen(from, to, now)
             r == [NoReport EXCEPT !.pc = "closed", !.from = from, !.to = to,
                                   !.closed = split.closed, !.raw = split.raw]
  <2>1. report' = r /\ now' = now /\ from <= to
    BY <1>8 DEF StartSplit
  <2>2. /\ DOMAIN r = DOMAIN NoReport /\ r.from = from /\ r.to = to /\ r.total = 0
        /\ r.closed = split.closed /\ r.raw = split.raw
    BY DEF NoReport
  <2>3. Exact(r, now)
    <3> HIDE DEF r
    <3> QED
      BY <1>0, <2>1, <2>2, SplitIsExact DEF Held
  <2>4. Shape(r, from, to, now)
    <3>1. Shape(split, from, to, now)
      BY <1>0, <2>1, SplitShape
    <3> HIDE DEF r, split
    <3> QED
      BY <2>2, <3>1 DEF Shape, Parts
  <2>5. Sound(r)
    <3>1. ReportTyped(r)
      BY <2>2 DEF ReportTyped
    <3> HIDE DEF r
    <3> QED
      BY <1>0, <2>1, <2>2, <2>4, <3>1, SplitSound
  <2> HIDE DEF r
  <2> QED
    BY <1>0, <2>1, <2>3, <2>5 DEF Held
<1>9. ASSUME NEW from \in Time, NEW to \in Time, StartRaw(from, to) PROVE Held(now', report')
  <2> DEFINE r == [NoReport EXCEPT !.pc = "raw", !.from = from, !.to = to,
                                   !.raw = <<W(from, to)>>]
  <2>1. report' = r /\ now' = now /\ from <= to
    BY <1>9 DEF StartRaw
  <2>2. /\ DOMAIN r = DOMAIN NoReport /\ r.from = from /\ r.to = to /\ r.total = 0
        /\ r.closed = <<>> /\ r.raw = <<W(from, to)>> /\ r.pc = "raw"
    BY DEF NoReport
  <2> HIDE DEF r
  <2>3. Shape(r, from, to, now)
    BY <2>2 DEF Shape, Parts
  <2>4. Sound(r)
    <3>1. ReportTyped(r)
      BY <2>2 DEF ReportTyped
    <3> QED
      BY <1>0, <2>1, <2>2, <2>3, <3>1, SplitSound
  <2> QED
    BY <1>0, <2>1, <2>2, <2>4 DEF Held
<1>10. CASE ReadClosed
  <2>1. report'.pc = "raw" /\ now' = now
    BY <1>0, <1>10 DEF Held, Sound, ReportTyped, ReadClosed, NoReport
  <2> QED
    BY <1>0, <1>10, <2>1, ReadClosedSound DEF Held
<1>11. CASE ReadRaw
  <2>1. report'.pc = "raw" /\ now' = now
    BY <1>0, <1>11 DEF Held, Sound, ReportTyped, ReadRaw, NoReport
  <2> QED
    BY <1>0, <1>11, <2>1, ReadRawSound DEF Held
<1>12. CASE Answer
  BY <1>0, <1>12, NoReportSound DEF Held, Answer
<1> QED
  BY <1>3, <1>4, <1>5, <1>6, <1>7, <1>8, <1>9, <1>10, <1>11, <1>12 DEF Next, vars

\* Rows keep their types, a report's windows stay exact until they are read,
\* and what it has read so far is no more than the windows it has read contain.
THEOREM Invariant == Spec => []IInv
<1>1. Init => IInv
  BY InitInvariant
<1>2. IInv /\ [Next]_vars => IInv'
  BY NextInvariant
<1> QED
  BY <1>1, <1>2, PTL DEF Spec

\* splitClosedOpen, "always disjoint and always cover [from, to) exactly": for
\* every clock and every range the closed window and the raw ones cover each
\* instant of the range once and nothing else, none is inverted, and the closed
\* one still consists of whole past days when it is read, later than it was
\* computed.
THEOREM SplitsAreExact == Spec => []SplitExact
<1>1. IInv => SplitExact
  BY DEF IInv
<1> QED
  BY <1>1, Invariant, PTL

\* mergeAndSum over what RawActivityEventsForReport returns: in whichever order
\* the query's rows of a device come and the sort leaves ties, and however they
\* overlap, each instant of the window counts once.
THEOREM MergeCountsOnce == Spec => []TrimExact
<1>1. ASSUME IInv PROVE TrimExact
  <2> SUFFICES ASSUME report.pc = "raw", report.raw # <<>>, NEW d \in Devices
               PROVE  LET w == Head(report.raw)
                          C == Covered(d, w)
                      IN  MergeAndSum(Clip(w, Overlapping(d, w)))
                            = SumFunction([s \in Starts(C) |->
                                               WholeSeconds(Cardinality(Stretch(C, s)))])
    BY Zenon DEF TrimExact
  <2> DEFINE w == Head(report.raw)
             C == Covered(d, w)
             S == Clip(w, Overlapping(d, w))
  <2>0. RowsOK /\ RawWindows(report.raw)
    BY <1>1, Parted DEF Held, Sound
  <2>1. PICK m \in Time, k \in Time : w = W(m, k)
    BY <2>0 DEF RawWindows
  <2>2. m \in Nat /\ k \in Nat
    BY Times
  <2>3. /\ S \in SUBSET Interval /\ IsFiniteSet(S) /\ C \in SUBSET Nat
        /\ \A t \in Nat : t \in C <=> \E i \in S : i.start <= t /\ t < i.end
    <3> HIDE DEF w
    <3> QED
      BY <2>0, <2>1, <2>2, ClipFacts
  <2> HIDE DEF S, C, w
  <2>4. MergeAndSum(S) = SumFunction([s \in Starts(C) |-> StretchSeconds(C, s)])
    BY <2>3, MergeExact
  <2> QED
    BY <2>4 DEF StretchSeconds, S, C, w
<1> QED
  BY <1>1, Invariant, PTL

\* "A single device never contributes more active time to the window than the
\* window itself contains": a report's seconds are at most the range's for every
\* device, though its closed days come from an aggregate of another age than the
\* events and its windows are read one after the other while events arrive.
THEOREM NeverMoreThanTheRange == Spec => []WithinWindow
<1>1. ASSUME IInv PROVE WithinWindow
  <2> SUFFICES ASSUME Done
               PROVE  report.total * Second <= Cardinality(Devices) * (report.to - report.from)
    BY DEF WithinWindow
  <2> DEFINE x == report.to - report.from
             y == Left(report)
             D == Cardinality(Devices)
  <2>1. Sound(report)
    BY <1>1, Parted DEF Held
  <2>2. x \in Int /\ y \in Nat
    BY <2>1, LeftInt DEF Left
  <2>3. report.total * Second <= D * (x - y)
    BY <2>1 DEF Sound
  <2>4. report.total \in Nat
    BY <2>1 DEF Sound, ReportTyped
  <2> HIDE DEF x, y, D
  <2>5. D \in Nat
    BY DevicesCount DEF D
  <2>6. D * (x - y) = D * x - D * y /\ D * x \in Int /\ D * y \in Nat
    BY <2>2, <2>5
  <2>7. report.total * Second \in Nat
    BY <2>4, TimeAssumption
  <2> QED
    BY <2>3, <2>6, <2>7 DEF x, D
<1> QED
  BY <1>1, Invariant, PTL

=============================================================================
