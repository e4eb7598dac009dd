----------------------------- MODULE BlurPathProofs -----------------------------
(***************************************************************************)
(* What BlurPath never does, for all channels, publications, sizes and     *)
(* bounds.  Three arguments:                                               *)
(*   - a frame that waits has somebody who moves it on: the flag of a      *)
(*     buffer says that a flush is on its way, and every clear that removes*)
(*     frames either lowers the flag or leaves the flush;                  *)
(*   - frames of a channel stand in line: between the place they leave and *)
(*     the processor the numbers only fall, so that whatever replaces a    *)
(*     frame is newer, which is the refinement of LatestFrameChannel;      *)
(*   - the history of the processor is strictly ordered in time, so that   *)
(*     the frame the search picks is the nearest there is.                 *)
(***************************************************************************)
EXTENDS BlurPath, TLAPS, FiniteSetTheorems, SequenceTheorems, WellFoundedInduction

-----------------------------------------------------------------------------
(* The least and the greatest *)

\* A nonempty set of numbers has a least element.
LEMMA MinOfIndices ==
  ASSUME NEW S, S \subseteq Nat, S # {}
  PROVE  Min(S) \in S /\ \A y \in S : Min(S) <= y
<1> DEFINE less == OpToRel(<, Nat)
<1>1. \A x, y \in S : y < x => <<y, x>> \in less
  BY DEF OpToRel
<1> HIDE DEF less
<1>2. PICK x \in S : \A y \in S : <<y, x>> \notin less
  <2>1. IsWellFoundedOn(less, Nat)
    BY NatLessThanWellFounded DEF less
  <2> QED BY <2>1, WFMin
<1>3. ASSUME NEW y \in S PROVE x <= y
  <2>1. ~(y < x)
    BY <1>1, <1>2
  <2>2. x \in Nat /\ y \in Nat
    OBVIOUS
  <2> QED BY <2>1, <2>2
<1> QED BY <1>3 DEF Min

\* The greater of two times.
LEMMA MaxOfTwo ==
  ASSUME NEW a \in Int, NEW b \in Int
  PROVE  Max({a, b}) = IF a >= b THEN a ELSE b
<1>1. \E x \in {a, b} : \A y \in {a, b} : x >= y
  BY SMT
<1>2. Max({a, b}) \in {a, b} /\ \A y \in {a, b} : Max({a, b}) >= y
  BY <1>1 DEF Max
<1> QED BY <1>2

\* The lesser of two times.
LEMMA MinOfTwo ==
  ASSUME NEW a \in Int, NEW b \in Int
  PROVE  Min({a, b}) = IF a <= b THEN a ELSE b
<1>1. \E x \in {a, b} : \A y \in {a, b} : x <= y
  BY SMT
<1>2. Min({a, b}) \in {a, b} /\ \A y \in {a, b} : Min({a, b}) <= y
  BY <1>1 DEF Min
<1> QED BY <1>2

-----------------------------------------------------------------------------
(* The history *)

CameraFrame == {f \in Frame : f.ch = Camera}

\* Strictly ordered by time.
Sorted(h) == \A i, j \in DOMAIN h : i < j => h[i].ts < h[j].ts

\* A frame has a channel and a positive time.
LEMMA FrameFields ==
  ASSUME NEW f \in Frame
  PROVE  f.ch \in Channels /\ f.ts \in Nat \ {0} /\ f.n \in 1..MaxAccepted[f.ch] /\ f.n \in Nat
<1>1. PICK m \in Published : \E n \in 1..MaxAccepted[m.ch] : f = Numbered(m, n)
  BY DEF Frame
<1>2. PICK n \in 1..MaxAccepted[m.ch] : f = Numbered(m, n)
  BY <1>1
<1>3. m.ch \in Channels /\ m.ts \in Nat \ {0} /\ MaxAccepted[m.ch] \in Nat
  BY BlurPathAssumption
<1>4. n \in Nat
  BY <1>3
<1> QED BY <1>2, <1>3, <1>4 DEF Numbered

\* The first k indices are k.
LEMMA IntervalSize == ASSUME NEW k \in Nat PROVE Cardinality(1..k) = k
<1>1. 1 \in Int /\ k \in Int
  OBVIOUS
<1>2. Cardinality(1..k) = IF 1 > k THEN 0 ELSE k - 1 + 1
  BY <1>1, FS_Interval, Zenon
<1> QED BY <1>2

\* The binary search finds the border between what is older than t and the rest.
LEMMA LowerBoundSplits ==
  ASSUME NEW h \in Seq(CameraFrame), Sorted(h), NEW t \in Int
  PROVE  /\ LowerBound(h, t) \in 1..(Len(h) + 1)
         /\ \A i \in 1..Len(h) : h[i].ts < t <=> i < LowerBound(h, t)
<1>1. PICK n \in Nat : n = Len(h)
  OBVIOUS
<1>2. DOMAIN h = 1..n /\ \A i \in 1..n : h[i] \in CameraFrame
  BY <1>1
<1>3. \A i \in 1..n : h[i].ts \in Int
  BY <1>2, FrameFields DEF CameraFrame
<1> DEFINE S == {i \in 1..(n + 1) : i = n + 1 \/ ~(h[i].ts < t)}
           p == Min(S)
<1>4. S \subseteq Nat /\ S # {}
  <2>1. n + 1 \in S
    BY <1>1
  <2> QED BY <2>1
<1>5. p \in S /\ \A y \in S : p <= y
  BY <1>4, MinOfIndices
<1>6. p \in 1..(n + 1) /\ (p = n + 1 \/ ~(h[p].ts < t))
  BY <1>5
<1>7. \A i \in 1..n : i < p => h[i].ts < t
  <2> SUFFICES ASSUME NEW i \in 1..n, i < p, ~(h[i].ts < t) PROVE FALSE
    OBVIOUS
  <2>1. i \in S
    BY <1>1
  <2>2. p <= i
    BY <1>5, <2>1
  <2> HIDE DEF p, S
  <2> QED BY <1>1, <1>6, <2>2
<1> HIDE DEF p, S
<1>8. \A i \in 1..n : h[i].ts < t => i < p
  <2> SUFFICES ASSUME NEW i \in 1..n, h[i].ts < t, ~(i < p) PROVE FALSE
    OBVIOUS
  <2>1. p \in 1..n /\ (p = i \/ p < i)
    BY <1>1, <1>6
  <2>2. ~(h[p].ts < t)
    BY <1>1, <1>6, <2>1
  <2>3. p = i \/ h[p].ts < h[i].ts
    BY <1>2, <2>1 DEF Sorted
  <2> QED BY <1>3, <2>1, <2>2, <2>3
<1>9. {i \in DOMAIN h : h[i].ts < t} = 1..(p - 1)
  <2>1. \A i : i \in 1..(p - 1) <=> i \in 1..n /\ i < p
    BY <1>1, <1>6
  <2> QED BY <1>2, <1>7, <1>8, <2>1
<1>10. Cardinality(1..(p - 1)) = p - 1
  <2>1. p - 1 \in Nat
    BY <1>1, <1>6
  <2> QED BY <2>1, IntervalSize, Zenon
<1>11. LowerBound(h, t) = p
  <2>1. p \in Int
    BY <1>1, <1>6
  <2>2. LowerBound(h, t) = Cardinality(1..(p - 1)) + 1
    BY <1>9, Zenon DEF LowerBound
  <2>3. LowerBound(h, t) = (p - 1) + 1
    BY <1>10, <2>2
  <2> QED BY <2>1, <2>3
<1> QED BY <1>1, <1>6, <1>7, <1>8, <1>11

\* Insertion, element by element.
LEMMA InsertAtIndex ==
  ASSUME NEW T, NEW s \in Seq(T), NEW e \in T, NEW i \in 1..(Len(s) + 1)
  PROVE  /\ InsertAt(s, i, e) \in Seq(T)
         /\ Len(InsertAt(s, i, e)) = Len(s) + 1
         /\ \A j \in 1..(Len(s) + 1) :
              InsertAt(s, i, e)[j] = IF j < i THEN s[j] ELSE IF j = i THEN e ELSE s[j - 1]
<1>1. PICK n \in Nat : n = Len(s)
  OBVIOUS
<1>2. i \in 1..(n + 1) /\ \A j \in 1..n : s[j] \in T
  BY <1>1
<1> DEFINE a == SubSeq(s, 1, i - 1)
           b == SubSeq(s, i, n)
<1>3. a \in Seq(T) /\ Len(a) = i - 1 /\ \A j \in 1..(i - 1) : a[j] = s[j]
  <2>1. 1 \in Int /\ i - 1 \in Int /\ \A j \in 1..(i - 1) : j \in 1..n
    BY <1>1, <1>2
  <2>2. \A j \in 1..(i - 1) : s[j] \in T
    BY <1>2, <2>1
  <2>3. /\ a \in Seq(T)
        /\ Len(a) = IF 1 <= i - 1 THEN (i - 1) - 1 + 1 ELSE 0
        /\ \A j \in 1..((i - 1) - 1 + 1) : a[j] = s[1 + j - 1]
    BY <1>1, <1>2, <2>1, <2>2, SubSeqProperties
  <2> HIDE DEF a
  <2> QED BY <1>1, <1>2, <2>3
<1>4. b \in Seq(T) /\ Len(b) = n - i + 1 /\ \A j \in 1..(n - i + 1) : b[j] = s[i + j - 1]
  <2>1. n \in Int /\ i \in Int /\ \A j \in i..n : j \in 1..n
    BY <1>1, <1>2
  <2>2. \A j \in i..n : s[j] \in T
    BY <1>2, <2>1
  <2>3. /\ b \in Seq(T)
        /\ Len(b) = IF i <= n THEN n - i + 1 ELSE 0
        /\ \A j \in 1..(n - i + 1) : b[j] = s[i + j - 1]
    BY <1>1, <1>2, <2>1, <2>2, SubSeqProperties
  <2> HIDE DEF b
  <2> QED BY <1>1, <1>2, <2>3
<1>5. InsertAt(s, i, e) = (a \o <<e>>) \o b
  BY <1>1 DEF InsertAt
<1> HIDE DEF a, b
<1>6. <<e>> \in Seq(T) /\ Len(<<e>>) = 1 /\ <<e>>[1] = e
  OBVIOUS
<1>7. /\ a \o <<e>> \in Seq(T) /\ Len(a \o <<e>>) = (i - 1) + 1
      /\ \A j \in 1..((i - 1) + 1) : (a \o <<e>>)[j] = IF j <= i - 1 THEN a[j] ELSE <<e>>[j - (i - 1)]
  BY <1>3, <1>6, ConcatProperties
<1> DEFINE ae == a \o <<e>>
<1>8. ae \in Seq(T) /\ Len(ae) = i /\ ae[i] = e /\ \A j \in 1..(i - 1) : ae[j] = s[j]
  <2> HIDE DEF ae
  <2>1. /\ ae \in Seq(T) /\ Len(ae) = (i - 1) + 1
        /\ \A j \in 1..((i - 1) + 1) : ae[j] = IF j <= i - 1 THEN a[j] ELSE <<e>>[j - (i - 1)]
    BY <1>7 DEF ae
  <2>2. i \in 1..((i - 1) + 1) /\ (i - 1) + 1 = i /\ i - (i - 1) = 1 /\ ~(i <= i - 1)
    BY <1>1, <1>2
  <2>3. ae[i] = e
    BY <1>6, <2>1, <2>2
  <2>4. \A j \in 1..(i - 1) : ae[j] = s[j]
    BY <1>1, <1>2, <1>3, <2>1
  <2> QED BY <2>1, <2>2, <2>3, <2>4
<1> HIDE DEF ae
<1>9. /\ ae \o b \in Seq(T) /\ Len(ae \o b) = i + (n - i + 1)
      /\ \A j \in 1..(i + (n - i + 1)) : (ae \o b)[j] = IF j <= i THEN ae[j] ELSE b[j - i]
  <2>1. /\ ae \o b \in Seq(T) /\ Len(ae \o b) = Len(ae) + Len(b)
        /\ \A j \in 1..(Len(ae) + Len(b)) : (ae \o b)[j] = IF j <= Len(ae) THEN ae[j] ELSE b[j - Len(ae)]
    BY <1>4, <1>8, ConcatProperties
  <2>2. Len(ae) = i /\ Len(b) = n - i + 1
    BY <1>4, <1>8
  <2> QED BY <2>1, <2>2, Zenon
<1>10. i + (n - i + 1) = n + 1
  BY <1>1, <1>2
<1>11. ASSUME NEW j \in 1..(n + 1)
       PROVE  (ae \o b)[j] = IF j < i THEN s[j] ELSE IF j = i THEN e ELSE s[j - 1]
  <2>1. CASE j < i
    <3>1. j \in 1..(i - 1) /\ j <= i
      BY <1>1, <1>2, <2>1
    <3> QED BY <1>8, <1>9, <1>10, <2>1, <3>1
  <2>2. CASE j = i
    <3>1. j <= i /\ ~(j < i)
      BY <1>2, <2>2
    <3> QED BY <1>8, <1>9, <1>10, <2>2, <3>1
  <2>3. CASE i < j
    <3>1. j - i \in 1..(n - i + 1) /\ ~(j <= i) /\ ~(j < i) /\ j # i /\ i + (j - i) - 1 = j - 1
      BY <1>1, <1>2, <2>3
    <3> QED BY <1>4, <1>9, <1>10, <3>1
  <2>4. j < i \/ j = i \/ i < j
    BY <1>1, <1>2
  <2> QED BY <2>1, <2>2, <2>3, <2>4
<1>12. InsertAt(s, i, e) = ae \o b
  BY <1>5 DEF ae
<1> QED BY <1>1, <1>9, <1>10, <1>11, <1>12

\* A frame put in its place leaves the history strictly ordered, and the newest
\* frame last.
LEMMA InsertKeepsOrder ==
  ASSUME NEW h \in Seq(CameraFrame), Sorted(h), NEW f \in CameraFrame
  PROVE  /\ Insert(h, f) \in Seq(CameraFrame) /\ Sorted(Insert(h, f)) /\ Insert(h, f) # <<>>
         /\ Last(Insert(h, f)).ts =
              IF h = <<>> \/ Last(h).ts <= f.ts THEN f.ts ELSE Last(h).ts
<1>1. PICK n \in Nat : n = Len(h)
  OBVIOUS
<1>2. DOMAIN h = 1..n /\ (\A i \in 1..n : h[i] \in CameraFrame) /\ (h = <<>> <=> n = 0)
  BY <1>1
<1>3. f.ts \in Int /\ \A i \in 1..n : h[i].ts \in Int
  BY <1>2, FrameFields DEF CameraFrame
<1>4. PICK p \in 1..(n + 1) : p = LowerBound(h, f.ts)
  BY <1>1, <1>3, LowerBoundSplits
<1>5. \A i \in 1..n : h[i].ts < f.ts <=> i < p
  BY <1>1, <1>3, <1>4, LowerBoundSplits
<1>6. \A i, j \in 1..n : i < j => h[i].ts < h[j].ts
  BY <1>2 DEF Sorted
<1> DEFINE r == Insert(h, f)
<1>7. CASE p \in 1..n /\ h[p].ts = f.ts
  <2>1. r = [h EXCEPT ![p] = f]
    BY <1>2, <1>4, <1>7 DEF Insert
  <2>2. r \in Seq(CameraFrame) /\ Len(r) = n
    BY <1>1, <1>7, <2>1
  <2>3. \A i \in 1..n : r[i] = IF i = p THEN f ELSE h[i]
    BY <1>2, <2>1
  <2> HIDE DEF r
  <2>4. \A i \in 1..n : r[i].ts = h[i].ts
    BY <1>7, <2>3
  <2>5. DOMAIN r = 1..n
    BY <2>2
  <2>6. Sorted(r)
    BY <1>6, <2>4, <2>5 DEF Sorted
  <2>7. n # 0 /\ r # <<>> /\ n \in 1..n
    <3>1. n # 0 /\ n \in 1..n
      BY <1>1, <1>7
    <3> QED BY <2>2, <3>1
  <2>8. Last(r).ts = h[n].ts
    BY <2>2, <2>4, <2>7 DEF Last
  <2>9. Last(h) = h[n]
    BY <1>1 DEF Last
  <2>10. p = n \/ p < n
    BY <1>1, <1>7
  <2>11. h[n].ts = f.ts \/ ~(h[n].ts <= f.ts)
    BY <1>3, <1>6, <1>7, <2>7, <2>10
  <2> QED BY <1>2, <2>2, <2>6, <2>7, <2>8, <2>9, <2>11 DEF r
<1>8. CASE ~(p \in 1..n /\ h[p].ts = f.ts)
  <2>1. r = InsertAt(h, p, f)
    BY <1>2, <1>4, <1>8 DEF Insert
  <2>2. /\ r \in Seq(CameraFrame) /\ Len(r) = n + 1
        /\ \A j \in 1..(n + 1) : r[j] = IF j < p THEN h[j] ELSE IF j = p THEN f ELSE h[j - 1]
    <3> HIDE DEF r
    <3>1. p \in 1..(Len(h) + 1)
      BY <1>1
    <3>2. /\ r \in Seq(CameraFrame) /\ Len(r) = Len(h) + 1
          /\ \A j \in 1..(Len(h) + 1) :
               r[j] = IF j < p THEN h[j] ELSE IF j = p THEN f ELSE h[j - 1]
      BY <2>1, <3>1, InsertAtIndex
    <3> QED BY <1>1, <3>2, Zenon
  <2> HIDE DEF r
  <2>3. DOMAIN r = 1..(n + 1) /\ r # <<>>
    BY <1>1, <2>2
  <2>4. \A i \in 1..n : p <= i => f.ts < h[i].ts
    <3> SUFFICES ASSUME NEW i \in 1..n, p <= i PROVE f.ts < h[i].ts
      OBVIOUS
    <3>1. p \in 1..n /\ (p = i \/ p < i) /\ ~(p < p)
      BY <1>1, <1>4
    <3>2. ~(h[p].ts < f.ts) /\ h[p].ts # f.ts
      BY <1>5, <1>8, <3>1
    <3>3. f.ts < h[p].ts
      BY <1>3, <3>1, <3>2
    <3> QED BY <1>3, <1>6, <3>1, <3>3
  <2>5. Sorted(r)
    <3> SUFFICES ASSUME NEW i \in 1..(n + 1), NEW j \in 1..(n + 1), i < j
                 PROVE  r[i].ts < r[j].ts
      BY <2>3 DEF Sorted
    <3>1. CASE j < p
      <4>1. i \in 1..n /\ j \in 1..n /\ i < p
        BY <1>1, <1>4, <3>1
      <4> QED BY <1>6, <2>2, <3>1, <4>1
    <3>2. CASE j = p
      <4>1. i \in 1..n /\ i < p /\ ~(j < p)
        BY <1>1, <1>4, <3>2
      <4> QED BY <1>5, <2>2, <3>2, <4>1
    <3>3. CASE p < j
      <4>1. j - 1 \in 1..n /\ ~(j < p) /\ j # p /\ p <= j - 1
        BY <1>1, <1>4, <3>3
      <4>2. r[j] = h[j - 1]
        BY <2>2, <4>1
      <4>3. CASE i < p
        <5>1. i \in 1..n /\ i < j - 1
          BY <1>1, <1>4, <4>1, <4>3
        <5>2. r[i] = h[i]
          BY <2>2, <4>3
        <5> QED BY <1>6, <4>1, <4>2, <5>1, <5>2
      <4>4. CASE i = p
        <5>1. r[i] = f
          BY <1>4, <2>2, <4>4
        <5> QED BY <2>4, <4>1, <4>2, <5>1
      <4>5. CASE p < i
        <5>1. i - 1 \in 1..n /\ ~(i < p) /\ i # p /\ i - 1 < j - 1
          BY <1>1, <1>4, <4>5
        <5>2. r[i] = h[i - 1]
          BY <2>2, <5>1
        <5> QED BY <1>6, <4>1, <4>2, <5>1, <5>2
      <4>6. i < p \/ i = p \/ p < i
        BY <1>1, <1>4
      <4> QED BY <4>3, <4>4, <4>5, <4>6
    <3>4. j < p \/ j = p \/ p < j
      BY <1>1, <1>4
    <3> QED BY <3>1, <3>2, <3>3, <3>4
  <2>6. Last(r) = r[n + 1] /\ Last(h) = h[n]
    BY <1>1, <2>2 DEF Last
  <2>7. CASE p = n + 1
    <3>1. r[n + 1] = f
      <4>1. n + 1 \in 1..(n + 1) /\ ~(n + 1 < n + 1)
        BY <1>1
      <4> QED BY <2>2, <2>7, <4>1
    <3>2. n # 0 => n \in 1..n /\ n < p
      BY <1>1, <2>7
    <3>3. n # 0 => h[n].ts <= f.ts
      BY <1>3, <1>5, <3>2
    <3> QED BY <1>2, <2>2, <2>3, <2>5, <2>6, <3>1, <3>3 DEF r
  <2>8. CASE p # n + 1
    <3>1. n \in 1..n /\ p <= n /\ ~(n + 1 < p) /\ n + 1 # p /\ (n + 1) - 1 = n /\ n + 1 \in 1..(n + 1)
          /\ n # 0
      BY <1>1, <1>4, <2>8
    <3>2. r[n + 1] = h[n]
      BY <2>2, <3>1
    <3>3. ~(h[n].ts <= f.ts)
      BY <1>3, <2>4, <3>1
    <3> QED BY <1>2, <2>2, <2>3, <2>5, <2>6, <3>1, <3>2, <3>3 DEF r
  <2> QED BY <2>7, <2>8
<1> QED BY <1>7, <1>8

\* Trimming keeps the newest frame, and of the others those in the window and
\* not too many.
LEMMA TrimKeepsNewest ==
  ASSUME NEW h \in Seq(CameraFrame), Sorted(h), h # <<>>
  PROVE  /\ Trim(h) \in Seq(CameraFrame) /\ Sorted(Trim(h)) /\ Trim(h) # <<>>
         /\ Last(Trim(h)) = Last(h)
         /\ Len(Trim(h)) <= MaximumHistory
         /\ \A i \in DOMAIN Trim(h) : Trim(h)[i].ts >= Last(h).ts - HistoryWindow
<1>1. PICK n \in Nat \ {0} : n = Len(h)
  OBVIOUS
<1>2. DOMAIN h = 1..n /\ (\A i \in 1..n : h[i] \in CameraFrame) /\ Last(h) = h[n]
  BY <1>1 DEF Last
<1>3. \A i \in 1..n : h[i].ts \in Int
  BY <1>2, FrameFields DEF CameraFrame
<1>4. \A i, j \in 1..n : i < j => h[i].ts < h[j].ts
  BY <1>2 DEF Sorted
<1> DEFINE Keeps(k) == k < n => h[k + 1].ts >= h[n].ts - HistoryWindow /\ n - k <= MaximumHistory
           S == {k \in 0..n : Keeps(k)}
<1>5. HistoryWindow \in Nat /\ MaximumHistory \in Nat \ {0}
  BY BlurTimelineAssumption
<1>6. Trim(h) = SubSeq(h, Min(S) + 1, n)
  BY <1>1, <1>2 DEF Trim
<1>7. n - 1 \in S
  <2>1. n - 1 \in 0..n /\ (n - 1) + 1 = n /\ n - (n - 1) = 1 /\ n \in 1..n
    BY <1>1
  <2>2. h[n].ts >= h[n].ts - HistoryWindow /\ 1 <= MaximumHistory
    BY <1>3, <1>5, <2>1
  <2> QED BY <2>1, <2>2
<1>8. S \subseteq Nat /\ S # {}
  <2>1. S \subseteq 0..n
    OBVIOUS
  <2> HIDE DEF S, Keeps
  <2> QED BY <1>7, <2>1
<1>9. Min(S) \in S /\ Min(S) <= n - 1
  BY <1>7, <1>8, MinOfIndices
<1>10. PICK k \in 0..(n - 1) : k = Min(S) /\ Keeps(k)
  <2>1. Min(S) \in 0..n /\ Keeps(Min(S))
    BY <1>9
  <2> HIDE DEF Keeps, S
  <2>2. Min(S) \in 0..(n - 1)
    BY <1>1, <1>9, <2>1
  <2> QED BY <2>1, <2>2
<1> DEFINE r == Trim(h)
<1>11. r = SubSeq(h, k + 1, n)
  BY <1>6, <1>10
<1>12. h[k + 1].ts >= h[n].ts - HistoryWindow /\ n - k <= MaximumHistory
  <2>1. k < n
    BY <1>1, <1>10
  <2> QED BY <1>10, <2>1
<1> HIDE DEF S, Keeps
<1>13. r \in Seq(CameraFrame) /\ Len(r) = n - k /\ \A j \in 1..(n - k) : r[j] = h[k + j]
  <2>1. k + 1 \in Int /\ n \in Int /\ \A j \in (k + 1)..n : j \in 1..n
    BY <1>1, <1>10
  <2>2. \A j \in (k + 1)..n : h[j] \in CameraFrame
    BY <1>2, <2>1
  <2>3. /\ r \in Seq(CameraFrame)
        /\ Len(r) = IF k + 1 <= n THEN n - (k + 1) + 1 ELSE 0
        /\ \A j \in 1..(n - (k + 1) + 1) : r[j] = h[(k + 1) + j - 1]
    BY <1>1, <1>11, <2>1, <2>2, SubSeqProperties
  <2> HIDE DEF r
  <2>4. k + 1 <= n /\ n - (k + 1) + 1 = n - k /\ \A j \in 1..(n - k) : (k + 1) + j - 1 = k + j
    BY <1>1, <1>10
  <2> QED BY <2>3, <2>4
<1> HIDE DEF r
<1>14. DOMAIN r = 1..(n - k) /\ n - k \in 1..(n - k) /\ k + (n - k) = n
       /\ \A j \in 1..(n - k) : k + j \in 1..n /\ (k + 1 = k + j \/ k + 1 < k + j) /\ k + 1 \in 1..n
  BY <1>1, <1>10, <1>13
<1>15. Sorted(r)
  <2> SUFFICES ASSUME NEW i \in 1..(n - k), NEW j \in 1..(n - k), i < j
               PROVE  r[i].ts < r[j].ts
    BY <1>14 DEF Sorted
  <2>1. k + i < k + j
    BY <1>10
  <2> QED BY <1>4, <1>13, <1>14, <2>1
<1>16. r # <<>> /\ Last(r) = h[n]
  <2>1. Last(r) = r[n - k]
    BY <1>13 DEF Last
  <2>2. r[n - k] = h[n]
    BY <1>13, <1>14
  <2>3. r # <<>>
    BY <1>14
  <2> QED BY <2>1, <2>2, <2>3
<1>17. ASSUME NEW i \in 1..(n - k) PROVE r[i].ts >= h[n].ts - HistoryWindow
  <2>1. r[i] = h[k + i] /\ k + i \in 1..n /\ k + 1 \in 1..n /\ (k + 1 = k + i \/ k + 1 < k + i)
    BY <1>13, <1>14
  <2>2. h[k + 1].ts <= h[k + i].ts
    BY <1>3, <1>4, <2>1
  <2>3. h[k + 1].ts \in Int /\ h[k + i].ts \in Int /\ h[n].ts - HistoryWindow \in Int
    BY <1>1, <1>3, <1>5, <2>1
  <2> QED BY <1>12, <2>1, <2>2, <2>3
<1> QED BY <1>2, <1>12, <1>13, <1>14, <1>15, <1>16, <1>17 DEF r

\* What BlurProcessor keeps: a strictly ordered history of its camera within the
\* window and the size, whose newest frame has the latest time.
Timeline(p) ==
  /\ p \in [history : Seq(CameraFrame), latest : Nat, seen : BOOLEAN]
  /\ Sorted(p.history)
  /\ Len(p.history) <= MaximumHistory
  /\ \A i \in DOMAIN p.history : p.history[i].ts >= p.latest - HistoryWindow
  /\ IF p.history = <<>> THEN p.latest = 0 ELSE p.latest = Last(p.history).ts

\* A cleared processor is one.
LEMMA ClearedIsTimeline == Timeline(Cleared)
<1>1. <<>> \in Seq(CameraFrame)
  BY EmptySeq
<1>2. Cleared \in [history : Seq(CameraFrame), latest : Nat, seen : BOOLEAN]
  BY <1>1 DEF Cleared
<1>3. Cleared.history = <<>> /\ Cleared.latest = 0
  BY DEF Cleared
<1> QED BY <1>2, <1>3, BlurTimelineAssumption DEF Timeline, Sorted

\* A frame submitted, early or late, after a gap or not, leaves it so.
LEMMA SubmitKeepsTimeline ==
  ASSUME NEW p, Timeline(p), NEW f \in CameraFrame, NEW gap \in BOOLEAN
  PROVE  Timeline(Submit(p, f, gap))
<1> DEFINE q == IF gap THEN Cleared ELSE p
<1>1. Timeline(q)
  BY ClearedIsTimeline
<1>2. Submit(p, f, gap) =
        IF q.latest > 0 /\ f.ts < q.latest - HistoryWindow
          THEN [q EXCEPT !.seen = TRUE]
          ELSE [history |-> Trim(Insert(q.history, f)), latest |-> Max({q.latest, f.ts}), seen |-> TRUE]
  BY DEF Submit
<1> HIDE DEF q
<1>3. /\ q \in [history : Seq(CameraFrame), latest : Nat, seen : BOOLEAN]
      /\ q.history \in Seq(CameraFrame) /\ Sorted(q.history)
      /\ q.latest \in Nat /\ f.ts \in Nat
  BY <1>1, FrameFields DEF Timeline, CameraFrame
<1>4. CASE q.latest > 0 /\ f.ts < q.latest - HistoryWindow
  <2> DEFINE u == [q EXCEPT !.seen = TRUE]
  <2>1. /\ u \in [history : Seq(CameraFrame), latest : Nat, seen : BOOLEAN]
        /\ u.history = q.history /\ u.latest = q.latest
    BY <1>3
  <2>2. Submit(p, f, gap) = u
    BY <1>2, <1>4
  <2> HIDE DEF u
  <2> QED BY <1>1, <2>1, <2>2 DEF Timeline
<1>5. CASE ~(q.latest > 0 /\ f.ts < q.latest - HistoryWindow)
  <2> DEFINE h == Insert(q.history, f)
             t == Trim(h)
             latest == Max({q.latest, f.ts})
  <2>1. Submit(p, f, gap) = [history |-> t, latest |-> latest, seen |-> TRUE]
    BY <1>2, <1>5
  <2>2. /\ h \in Seq(CameraFrame) /\ Sorted(h) /\ h # <<>>
        /\ Last(h).ts = IF q.history = <<>> \/ Last(q.history).ts <= f.ts
                          THEN f.ts ELSE Last(q.history).ts
    BY <1>3, InsertKeepsOrder
  <2> HIDE DEF h
  <2>3. /\ t \in Seq(CameraFrame) /\ Sorted(t) /\ t # <<>> /\ Last(t) = Last(h)
        /\ Len(t) <= MaximumHistory
        /\ \A i \in DOMAIN t : t[i].ts >= Last(h).ts - HistoryWindow
    BY <2>2, TrimKeepsNewest
  <2> HIDE DEF t
  <2>4. latest = IF q.latest >= f.ts THEN q.latest ELSE f.ts
    BY <1>3, MaxOfTwo
  <2> HIDE DEF latest
  <2>5. IF q.history = <<>> THEN q.latest = 0 ELSE q.latest = Last(q.history).ts
    BY <1>1 DEF Timeline
  <2>6. latest = Last(h).ts /\ latest \in Nat
    <3>1. CASE q.history = <<>>
      BY <1>3, <2>2, <2>4, <2>5, <3>1
    <3>2. CASE q.history # <<>>
      BY <1>3, <2>2, <2>4, <2>5, <3>2
    <3> QED BY <3>1, <3>2
  <2> DEFINE u == [history |-> t, latest |-> latest, seen |-> TRUE]
  <2>7. u \in [history : Seq(CameraFrame), latest : Nat, seen : BOOLEAN] /\ u.history = t /\ u.latest = latest
    BY <2>3, <2>6
  <2> HIDE DEF u
  <2>8. Timeline(u)
    BY <2>3, <2>6, <2>7 DEF Timeline
  <2> QED BY <2>1, <2>8 DEF u
<1> QED BY <1>4, <1>5

-----------------------------------------------------------------------------
(* The invariant *)

Hops == {"worker", "gui", "receiver"}

Emitters == {"worker", "gui"}

Times == {m.ts : m \in Published} \union {0}

Buffer == [frames : SUBSET Frame, deliveryPending : BOOLEAN]

\* Every variable has its type; the receiver's buffer is of the one camera.
Types ==
  /\ dispatcher \in [running : BOOLEAN, timer : BOOLEAN,
                     latest : [Channels -> Times], seen : [Channels -> BOOLEAN]]
  /\ hop \in [Hops -> Buffer]
  /\ hop["receiver"].frames \subseteq CameraFrame
  /\ emitting \in [Emitters -> SUBSET Frame]
  /\ posting \in [Emitters -> BOOLEAN]
  /\ posted \in [{"gui", "receiver"} -> Nat]
  /\ gui \in {"loop", "blocked", "joining"}
  /\ thread \in BOOLEAN /\ playing \in BOOLEAN /\ (playing => thread)
  /\ base \in Nat
  /\ mapper \in [ready : BOOLEAN, sender : BOOLEAN, offset : Int]
  /\ accepted \in [Channels -> Nat] /\ reached \in Nat /\ refusals \in Nat
  /\ Timeline(processor)

\* The places of a frame on its way, the oldest first.
Places == <<hop["receiver"].frames, emitting["gui"], hop["gui"].frames,
            emitting["worker"], hop["worker"].frames>>

\* The frames of a channel stand in line behind the one the processor has, at
\* most one in a place.
Line ==
  /\ \A i, j \in 1..5 : i < j =>
       \A f \in Places[i], g \in Places[j] : f.ch = g.ch => f.n < g.n
  /\ \A i \in 1..5 : \A f, g \in Places[i] : f.ch = g.ch => f = g
  /\ \A i \in 1..5 : \A f \in Places[i] :
       f.n <= accepted[f.ch] /\ (f.ch = Camera => reached < f.n)
  /\ reached <= accepted[Camera]

\* The anchor is of the session that runs: the sender's clock, or an arrival.
Clock ==
  /\ ~playing => ~mapper.ready
  /\ mapper.ready =>
       IF mapper.sender THEN mapper.offset = base
                        ELSE \E d \in Delays : mapper.offset = base + d

\* The gateway is stopped while the GUI waits for its thread to end.
Stopping == gui = "joining" => ~dispatcher.running

IInv == Types /\ Line /\ Clock /\ Stopping /\ NoLostWakeup

-----------------------------------------------------------------------------
(* Types *)

LEMMA NamesDiffer ==
  /\ "worker" # "gui" /\ "worker" # "receiver" /\ "gui" # "receiver"
  /\ "worker" \in Hops /\ "gui" \in Hops /\ "receiver" \in Hops
  /\ "worker" \in Emitters /\ "gui" \in Emitters
BY DEF Hops, Emitters

LEMMA EmptyIsBuffer == EmptyBuffer \in Buffer /\ EmptyBuffer.frames = {} /\ ~EmptyBuffer.deliveryPending
BY DEF EmptyBuffer, Buffer

\* A frame submitted to a buffer.
LEMMA SubmittedIsBuffer ==
  ASSUME NEW b \in Buffer, NEW f \in Frame
  PROVE  /\ Submitted(b, f) \in Buffer /\ Submitted(b, f).deliveryPending = TRUE
         /\ Submitted(b, f).frames = {g \in b.frames : g.ch # f.ch} \union {f}
BY DEF Submitted, Buffer

\* A channel removed from a buffer.
LEMMA WithoutIsBuffer ==
  ASSUME NEW b \in Buffer, NEW c
  PROVE  /\ WithoutChannel(b, c) \in Buffer
         /\ WithoutChannel(b, c).deliveryPending = b.deliveryPending
         /\ WithoutChannel(b, c).frames = {g \in b.frames : g.ch # c}
BY DEF WithoutChannel, Buffer

\* The initial states have the types.
LEMMA InitTypes == Init => Types
<1> SUFFICES ASSUME Init PROVE Types
  OBVIOUS
<1>1. dispatcher \in [running : BOOLEAN, timer : BOOLEAN,
                      latest : [Channels -> Times], seen : [Channels -> BOOLEAN]]
  BY DEF Init, Times
<1>2. hop \in [Hops -> Buffer] /\ hop["receiver"].frames = {}
  BY EmptyIsBuffer, NamesDiffer DEF Init, Hops
<1>3. emitting \in [Emitters -> SUBSET Frame] /\ posting \in [Emitters -> BOOLEAN]
  BY DEF Init, Emitters
<1>4. posted \in [{"gui", "receiver"} -> Nat] /\ accepted \in [Channels -> Nat]
  BY DEF Init
<1>5. mapper \in [ready : BOOLEAN, sender : BOOLEAN, offset : Int]
  BY DEF Init, NoAnchor
<1>6. Timeline(processor)
  BY ClearedIsTimeline DEF Init
<1>7. /\ gui \in {"loop", "blocked", "joining"}
      /\ thread \in BOOLEAN /\ playing \in BOOLEAN /\ (playing => thread)
      /\ base \in Nat /\ reached \in Nat /\ refusals \in Nat
  BY DEF Init
<1> QED BY <1>1, <1>2, <1>3, <1>4, <1>5, <1>6, <1>7 DEF Types

\* What the arrival of a frame does: it is dropped, with what was remembered of
\* its channel changed, or it takes its channel's place in the first buffer.
LEMMA FrameArrivesEffect ==
  ASSUME Types, NEW m \in Published, NEW gap \in BOOLEAN, FrameArrives(m, gap)
  PROVE  /\ dispatcher' \in [running : BOOLEAN, timer : BOOLEAN,
                             latest : [Channels -> Times], seen : [Channels -> BOOLEAN]]
         /\ dispatcher'.running = dispatcher.running
         /\ UNCHANGED <<emitting, posting, posted, gui, receiver, reached, refusals>>
         /\ hop' \in [Hops -> Buffer]
         /\ hop'["gui"] = hop["gui"] /\ hop'["receiver"] = hop["receiver"]
         /\ \/ /\ UNCHANGED <<hop, accepted>>
               /\ dispatcher'.timer = dispatcher.timer
            \/ /\ accepted[m.ch] + 1 \in 1..MaxAccepted[m.ch]
               /\ accepted' = [accepted EXCEPT ![m.ch] = accepted[m.ch] + 1]
               /\ Numbered(m, accepted[m.ch] + 1) \in Frame
               /\ hop'["worker"].frames = {g \in hop["worker"].frames : g.ch # m.ch}
                                           \union {Numbered(m, accepted[m.ch] + 1)}
               /\ hop'["worker"].deliveryPending = TRUE
               /\ dispatcher'.timer <=> dispatcher.timer \/ ~hop["worker"].deliveryPending
<1> DEFINE b == IF gap THEN WithoutChannel(hop["worker"], m.ch) ELSE hop["worker"]
           latest == IF gap THEN 0 ELSE dispatcher.latest[m.ch]
           n == accepted[m.ch] + 1
           f == Numbered(m, n)
<1>1. m.ch \in Channels /\ m.ts \in Nat \ {0} /\ MaxAccepted[m.ch] \in Nat
  BY BlurPathAssumption
<1>2. hop["worker"] \in Buffer
  BY NamesDiffer DEF Types
<1>3. /\ b \in Buffer /\ b.deliveryPending = hop["worker"].deliveryPending
      /\ {g \in b.frames : g.ch # m.ch} = {g \in hop["worker"].frames : g.ch # m.ch}
  BY <1>2, WithoutIsBuffer
<1>4. latest \in Times /\ latest \in Nat
  <2>1. Times \subseteq Nat
    BY BlurPathAssumption DEF Times
  <2>2. 0 \in Times
    BY DEF Times
  <2> QED BY <1>1, <2>1, <2>2 DEF Types
<1>5. UNCHANGED <<emitting, posting, posted, gui, receiver, reached, refusals>>
  BY DEF FrameArrives
<1>6. CASE latest > 0 /\ m.ts < latest - DropThreshold
  <2>1. /\ dispatcher' = [dispatcher EXCEPT !.seen[m.ch] = TRUE]
        /\ hop' = [hop EXCEPT !["worker"] = b] /\ accepted' = accepted
    BY <1>6 DEF FrameArrives
  <2>2. ~gap
    BY <1>6
  <2>3. hop' = hop
    BY <2>1, <2>2 DEF Types
  <2>4. /\ dispatcher' \in [running : BOOLEAN, timer : BOOLEAN,
                            latest : [Channels -> Times], seen : [Channels -> BOOLEAN]]
        /\ dispatcher'.timer = dispatcher.timer /\ dispatcher'.running = dispatcher.running
    <3> HIDE DEF b, latest
    <3> QED BY <1>1, <2>1 DEF Types
  <2>5. hop' \in [Hops -> Buffer]
    BY <2>3 DEF Types
  <2> QED BY <1>5, <2>1, <2>3, <2>4, <2>5
<1>7. CASE ~(latest > 0 /\ m.ts < latest - DropThreshold)
  <2>1. /\ n <= MaxAccepted[m.ch]
        /\ accepted' = [accepted EXCEPT ![m.ch] = n]
        /\ dispatcher' = [dispatcher EXCEPT !.seen[m.ch] = TRUE,
                                            !.latest[m.ch] = Max({latest, m.ts}),
                                            !.timer = TimerAfterSubmit(~b.deliveryPending)]
        /\ hop' = [hop EXCEPT !["worker"] = Submitted(b, f)]
    BY <1>7 DEF FrameArrives
  <2>2. n \in 1..MaxAccepted[m.ch]
    BY <1>1, <2>1 DEF Types
  <2>3. f \in Frame /\ f.ch = m.ch
    BY <2>2 DEF Frame, Numbered
  <2>4. Max({latest, m.ts}) \in Times
    <3>1. m.ts \in Times
      BY DEF Times
    <3> HIDE DEF latest
    <3>2. Max({latest, m.ts}) \in {latest, m.ts}
      BY <1>1, <1>4, MaxOfTwo
    <3> QED BY <1>4, <3>1, <3>2
  <2> HIDE DEF b, latest, n, f
  <2>5. /\ Submitted(b, f) \in Buffer /\ Submitted(b, f).deliveryPending = TRUE
        /\ Submitted(b, f).frames = {g \in hop["worker"].frames : g.ch # m.ch} \union {f}
    <3>1. /\ Submitted(b, f) \in Buffer /\ Submitted(b, f).deliveryPending = TRUE
          /\ Submitted(b, f).frames = {g \in b.frames : g.ch # f.ch} \union {f}
      BY <1>3, <2>3, SubmittedIsBuffer
    <3> QED BY <1>3, <2>3, <3>1
  <2>6. hop' \in [Hops -> Buffer] /\ hop'["worker"] = Submitted(b, f)
        /\ hop'["gui"] = hop["gui"] /\ hop'["receiver"] = hop["receiver"]
    BY <2>1, <2>5, NamesDiffer DEF Types
  <2>7. TimerAfterSubmit(~b.deliveryPending) <=> dispatcher.timer \/ ~hop["worker"].deliveryPending
    BY <1>3 DEF TimerAfterSubmit
  <2>8. TimerAfterSubmit(~b.deliveryPending) \in BOOLEAN
    BY DEF TimerAfterSubmit
  <2> DEFINE timer == TimerAfterSubmit(~b.deliveryPending)
             newest == Max({latest, m.ts})
  <2> HIDE DEF timer, newest
  <2>9. /\ dispatcher' \in [running : BOOLEAN, timer : BOOLEAN,
                            latest : [Channels -> Times], seen : [Channels -> BOOLEAN]]
        /\ dispatcher'.timer = timer /\ dispatcher'.running = dispatcher.running
    <3>1. dispatcher' = [dispatcher EXCEPT !.seen[m.ch] = TRUE, !.latest[m.ch] = newest, !.timer = timer]
      BY <2>1 DEF timer, newest
    <3>2. timer \in BOOLEAN /\ newest \in Times
      BY <2>4, <2>8 DEF timer, newest
    <3> QED BY <1>1, <3>1, <3>2 DEF Types
  <2> QED BY <1>5, <2>1, <2>2, <2>3, <2>5, <2>6, <2>7, <2>9 DEF n, f, timer
<1> QED BY <1>6, <1>7

\* A buffer emptied.
LEMMA HopEmptied ==
  ASSUME Types, NEW h \in Hops, hop' = [hop EXCEPT ![h] = EmptyBuffer]
  PROVE  /\ hop' \in [Hops -> Buffer] /\ hop'["receiver"].frames \subseteq CameraFrame
         /\ hop'[h].frames = {} /\ ~hop'[h].deliveryPending
         /\ \A k \in Hops : k # h => hop'[k] = hop[k]
<1>1. hop' \in [Hops -> Buffer] /\ hop'[h] = EmptyBuffer /\ \A k \in Hops : k # h => hop'[k] = hop[k]
  BY EmptyIsBuffer DEF Types
<1>2. hop'["receiver"].frames \subseteq CameraFrame
  <2>1. CASE h = "receiver"
    BY <1>1, <2>1, EmptyIsBuffer
  <2>2. CASE h # "receiver"
    BY <1>1, <2>2, NamesDiffer DEF Types
  <2> QED BY <2>1, <2>2
<1> QED BY <1>1, <1>2, EmptyIsBuffer

\* A frame put into a buffer.
LEMMA HopSubmitted ==
  ASSUME Types, NEW h \in Hops, NEW f \in Frame, h = "receiver" => f \in CameraFrame,
         hop' = [hop EXCEPT ![h] = Submitted(hop[h], f)]
  PROVE  /\ hop' \in [Hops -> Buffer] /\ hop'["receiver"].frames \subseteq CameraFrame
         /\ hop'[h].frames = {g \in hop[h].frames : g.ch # f.ch} \union {f}
         /\ hop'[h].deliveryPending = TRUE
         /\ \A k \in Hops : k # h => hop'[k] = hop[k]
<1>1. /\ Submitted(hop[h], f) \in Buffer /\ Submitted(hop[h], f).deliveryPending = TRUE
      /\ Submitted(hop[h], f).frames = {g \in hop[h].frames : g.ch # f.ch} \union {f}
  <2>1. hop[h] \in Buffer
    BY DEF Types
  <2> QED BY <2>1, SubmittedIsBuffer
<1>2. /\ hop' \in [Hops -> Buffer] /\ hop'[h] = Submitted(hop[h], f)
      /\ \A k \in Hops : k # h => hop'[k] = hop[k]
  BY <1>1 DEF Types
<1>3. hop'["receiver"].frames \subseteq CameraFrame
  <2>1. CASE h = "receiver"
    BY <1>1, <1>2, <2>1 DEF Types
  <2>2. CASE h # "receiver"
    BY <1>2, <2>2, NamesDiffer DEF Types
  <2> QED BY <2>1, <2>2
<1> QED BY <1>1, <1>2, <1>3

\* Every step keeps the types.
LEMMA NextTypes == Types /\ [Next]_vars => Types'
<1> SUFFICES ASSUME Types, [Next]_vars PROVE Types'
  OBVIOUS
<1>1. CASE UNCHANGED vars
  BY <1>1 DEF Types, vars, path, receiver, counters
<1>2. ASSUME NEW m \in Published, NEW gap \in BOOLEAN, FrameArrives(m, gap) PROVE Types'
  <2>1. /\ dispatcher' \in [running : BOOLEAN, timer : BOOLEAN,
                            latest : [Channels -> Times], seen : [Channels -> BOOLEAN]]
        /\ UNCHANGED <<emitting, posting, posted, gui, receiver, reached, refusals>>
        /\ hop' \in [Hops -> Buffer]
        /\ hop'["receiver"] = hop["receiver"]
        /\ \/ accepted' = accepted
           \/ accepted' = [accepted EXCEPT ![m.ch] = accepted[m.ch] + 1]
    BY <1>2, FrameArrivesEffect
  <2>2. accepted' \in [Channels -> Nat]
    BY <2>1 DEF Types
  <2> QED BY <2>1, <2>2 DEF Types, receiver
<1>3. CASE FlushTimerFires
  <2>1. dispatcher' \in [running : BOOLEAN, timer : BOOLEAN,
                         latest : [Channels -> Times], seen : [Channels -> BOOLEAN]]
    BY <1>3 DEF FlushTimerFires, Types
  <2>2. hop' \in [Hops -> Buffer] /\ hop'["receiver"].frames \subseteq CameraFrame
    BY <1>3, NamesDiffer, HopEmptied DEF FlushTimerFires
  <2>3. emitting' \in [Emitters -> SUBSET Frame]
    <3>1. hop["worker"].frames \subseteq Frame
      BY NamesDiffer DEF Types, Buffer
    <3> QED BY <1>3, <3>1 DEF FlushTimerFires, Types
  <2> QED BY <1>3, <2>1, <2>2, <2>3 DEF FlushTimerFires, Types, receiver, counters
<1>4. ASSUME NEW f \in emitting["worker"], WorkerHandsOn(f) PROVE Types'
  <2>1. f \in Frame
    BY NamesDiffer DEF Types
  <2>2. hop' \in [Hops -> Buffer] /\ hop'["receiver"].frames \subseteq CameraFrame
    <3>1. hop' = [hop EXCEPT !["gui"] = Submitted(hop["gui"], f)]
      BY <1>4, NamesDiffer DEF WorkerHandsOn, Types
    <3> QED BY <2>1, <3>1, NamesDiffer, HopSubmitted
  <2>3. emitting' \in [Emitters -> SUBSET Frame] /\ posting' \in [Emitters -> BOOLEAN]
    BY <1>4 DEF WorkerHandsOn, Types
  <2> QED BY <1>4, <2>2, <2>3 DEF WorkerHandsOn, Types, receiver, counters
<1>5. ASSUME NEW t \in Emitters, Posts(t) PROVE Types'
  <2>1. Target(t) \in {"gui", "receiver"}
    BY DEF Target
  <2>2. posting' \in [Emitters -> BOOLEAN] /\ posted' \in [{"gui", "receiver"} -> Nat]
    BY <1>5, <2>1 DEF Posts, Types
  <2> QED BY <1>5, <2>2 DEF Posts, Types, receiver, counters
<1>6. ASSUME NEW t \in Emitters, PostRefused(t) PROVE Types'
  <2>1. Target(t) \in Hops
    BY DEF Target, Hops
  <2>2. hop' \in [Hops -> Buffer] /\ hop'["receiver"].frames \subseteq CameraFrame
    BY <1>6, <2>1, HopEmptied DEF PostRefused
  <2>3. posting' \in [Emitters -> BOOLEAN] /\ refusals' \in Nat
    BY <1>6 DEF PostRefused, Types
  <2> QED BY <1>6, <2>2, <2>3 DEF PostRefused, Types, receiver
<1>7. CASE GuiFlush
  <2>1. hop' \in [Hops -> Buffer] /\ hop'["receiver"].frames \subseteq CameraFrame
    BY <1>7, NamesDiffer, HopEmptied DEF GuiFlush
  <2>2. emitting' \in [Emitters -> SUBSET Frame]
    <3>1. hop["gui"].frames \subseteq Frame
      BY NamesDiffer DEF Types, Buffer
    <3> QED BY <1>7, <3>1 DEF GuiFlush, Types
  <2>3. posted' \in [{"gui", "receiver"} -> Nat]
    BY <1>7 DEF GuiFlush, Types
  <2> QED BY <1>7, <2>1, <2>2, <2>3 DEF GuiFlush, Types, receiver, counters
<1>8. ASSUME NEW f \in emitting["gui"], GuiHandsOn(f) PROVE Types'
  <2>1. f \in Frame
    BY NamesDiffer DEF Types
  <2>2. emitting' \in [Emitters -> SUBSET Frame]
    BY <1>8 DEF GuiHandsOn, Types
  <2>3. hop' \in [Hops -> Buffer] /\ hop'["receiver"].frames \subseteq CameraFrame
        /\ posting' \in [Emitters -> BOOLEAN]
    <3>1. CASE HasWorker(f)
      <4>1. f \in CameraFrame
        BY <2>1, <3>1 DEF HasWorker, CameraFrame
      <4>2. hop' = [hop EXCEPT !["receiver"] = Submitted(hop["receiver"], f)]
        BY <1>8, <3>1, NamesDiffer DEF GuiHandsOn, Types
      <4>3. posting' \in [Emitters -> BOOLEAN]
        BY <1>8, <3>1 DEF GuiHandsOn, Types
      <4> QED BY <2>1, <4>1, <4>2, <4>3, NamesDiffer, HopSubmitted
    <3>2. CASE ~HasWorker(f)
      BY <1>8, <3>2 DEF GuiHandsOn, Types
    <3> QED BY <3>1, <3>2
  <2> QED BY <1>8, <2>2, <2>3 DEF GuiHandsOn, Types, receiver, counters
<1>9. CASE DispatcherStarts
  <2>1. dispatcher' \in [running : BOOLEAN, timer : BOOLEAN,
                         latest : [Channels -> Times], seen : [Channels -> BOOLEAN]]
    BY <1>9 DEF DispatcherStarts, Types
  <2> QED BY <1>9, <2>1 DEF DispatcherStarts, Types, receiver
<1>10. CASE ServiceStop
  <2>1. hop' \in [Hops -> Buffer] /\ hop'["receiver"].frames \subseteq CameraFrame
    BY <1>10, NamesDiffer, HopEmptied DEF ServiceStop
  <2> QED BY <1>10, <2>1 DEF ServiceStop, Types, receiver, counters
<1>11. CASE GatewayStop
  <2>1. hop' \in [Hops -> Buffer] /\ hop'["receiver"].frames \subseteq CameraFrame
    BY <1>11, NamesDiffer, HopEmptied DEF GatewayStop
  <2>2. DispatcherStopped \in [running : BOOLEAN, timer : BOOLEAN,
                               latest : [Channels -> Times], seen : [Channels -> BOOLEAN]]
    <3>1. [c \in Channels |-> 0] \in [Channels -> Times]
      BY DEF Times
    <3> QED BY <3>1 DEF DispatcherStopped, Types
  <2> QED BY <1>11, <2>1, <2>2 DEF GatewayStop, Types, receiver, counters
<1>12. CASE ServiceStopReturns
  <2>1. hop' \in [Hops -> Buffer] /\ hop'["receiver"].frames \subseteq CameraFrame
    BY <1>12, NamesDiffer, HopEmptied DEF ServiceStopReturns
  <2> QED BY <1>12, <2>1 DEF ServiceStopReturns, Types, receiver, counters
<1>13. CASE SessionStarts \/ PipelineStarts
  <2>1. base' \in Nat
    BY <1>13, BlurPathAssumption DEF SessionStarts, PipelineStarts
  <2> QED BY <1>13, <2>1 DEF SessionStarts, PipelineStarts, Types, path
<1>14. CASE SessionStops
  <2>1. hop' \in [Hops -> Buffer] /\ hop'["receiver"].frames \subseteq CameraFrame
    BY <1>14, NamesDiffer, HopEmptied DEF SessionStops
  <2>2. posted' \in [{"gui", "receiver"} -> Nat]
    BY <1>14 DEF SessionStops, Types
  <2>3. Timeline(processor')
    BY <1>14, ClearedIsTimeline DEF SessionStops
  <2>4. mapper' \in [ready : BOOLEAN, sender : BOOLEAN, offset : Int]
    BY <1>14 DEF SessionStops, NoAnchor
  <2> QED BY <1>14, <2>1, <2>2, <2>3, <2>4 DEF SessionStops, Types, counters, Timeline, Sorted
<1>15. ASSUME NEW gap \in BOOLEAN, ReceiverFlush(gap) PROVE Types'
  <2>1. hop' \in [Hops -> Buffer] /\ hop'["receiver"].frames \subseteq CameraFrame
    BY <1>15, NamesDiffer, HopEmptied DEF ReceiverFlush
  <2>2. posted' \in [{"gui", "receiver"} -> Nat]
    BY <1>15 DEF ReceiverFlush, Types
  <2>3. Timeline(processor') /\ reached' \in Nat
    <3>1. CASE hop["receiver"].frames = {}
      BY <1>15, <3>1 DEF ReceiverFlush, Types
    <3>2. CASE hop["receiver"].frames # {}
      <4>1. PICK f \in hop["receiver"].frames :
              processor' = Submit(processor, f, gap) /\ reached' = f.n
        BY <1>15, <3>2 DEF ReceiverFlush
      <4>2. f \in CameraFrame /\ f.n \in Nat
        BY FrameFields DEF Types, CameraFrame
      <4> QED BY <4>1, <4>2, SubmitKeepsTimeline DEF Types
    <3> QED BY <3>1, <3>2
  <2> QED BY <1>15, <2>1, <2>2, <2>3 DEF ReceiverFlush, Types, Timeline, Sorted
<1>16. CASE Teardown
  <2>1. Timeline(processor') /\ mapper' \in [ready : BOOLEAN, sender : BOOLEAN, offset : Int]
    BY <1>16, ClearedIsTimeline DEF Teardown, MapperAfterTeardown, NoAnchor
  <2> QED BY <1>16, <2>1 DEF Teardown, Types, path, counters, Timeline, Sorted
<1>17. ASSUME NEW referenced \in BOOLEAN, NEW delay \in Delays, BufferObserved(referenced, delay)
       PROVE  Types'
  <2>1. OffsetOf(referenced, delay) \in Int
    BY BlurPathAssumption DEF OffsetOf, Types
  <2>2. mapper' \in [ready : BOOLEAN, sender : BOOLEAN, offset : Int]
    BY <1>17, <2>1 DEF BufferObserved, Observed, Anchor, Types
  <2> QED BY <1>17, <2>2 DEF BufferObserved, Types, path, counters
<1> QED BY <1>1, <1>2, <1>3, <1>4, <1>5, <1>6, <1>7, <1>8, <1>9, <1>10, <1>11, <1>12, <1>13,
           <1>14, <1>15, <1>16, <1>17
        DEF Next, Worker, Gui, Emitters

-----------------------------------------------------------------------------
(* No lost wakeup *)

\* The property, buffer by buffer.
Waking ==
  /\ hop["worker"].frames # {} => hop["worker"].deliveryPending
  /\ hop["gui"].frames # {} => hop["gui"].deliveryPending
  /\ hop["receiver"].frames # {} => hop["receiver"].deliveryPending
  /\ hop["worker"].deliveryPending => dispatcher.timer
  /\ hop["gui"].deliveryPending => posted["gui"] > 0 \/ posting["worker"]
  /\ hop["receiver"].deliveryPending => thread /\ (posted["receiver"] > 0 \/ posting["gui"])

LEMMA WakingIsNoLostWakeup == Types => (NoLostWakeup <=> Waking)
<1> SUFFICES ASSUME Types PROVE NoLostWakeup <=> Waking
  OBVIOUS
<1>1. DOMAIN hop = Hops
  BY DEF Types
<1> QED BY <1>1 DEF NoLostWakeup, Waking, Hops

\* Every step leaves each waiting frame somebody who moves it on.
LEMMA NextWaking == Types /\ Waking /\ [Next]_vars => Waking'
<1> SUFFICES ASSUME Types, Waking, [Next]_vars PROVE Waking'
  OBVIOUS
<1>0. posted["gui"] \in Nat /\ posted["receiver"] \in Nat
  BY DEF Types
<1>1. CASE UNCHANGED path /\ thread' = thread
  BY <1>1 DEF Waking, path
<1>2. ASSUME NEW m \in Published, NEW gap \in BOOLEAN, FrameArrives(m, gap) PROVE Waking'
  <2>1. /\ UNCHANGED <<emitting, posting, posted, gui, receiver, reached, refusals>>
        /\ hop'["gui"] = hop["gui"] /\ hop'["receiver"] = hop["receiver"]
        /\ \/ UNCHANGED hop /\ dispatcher'.timer = dispatcher.timer
           \/ /\ hop'["worker"].deliveryPending = TRUE
              /\ dispatcher'.timer <=> dispatcher.timer \/ ~hop["worker"].deliveryPending
    BY <1>2, FrameArrivesEffect
  <2> QED BY <2>1 DEF Waking, receiver
<1>3. CASE FlushTimerFires
  <2>1. /\ hop'["worker"].frames = {} /\ ~hop'["worker"].deliveryPending
        /\ hop'["gui"] = hop["gui"] /\ hop'["receiver"] = hop["receiver"]
    BY <1>3, NamesDiffer, HopEmptied DEF FlushTimerFires
  <2> QED BY <1>3, <2>1 DEF FlushTimerFires, Waking, receiver
<1>4. ASSUME NEW f \in emitting["worker"], WorkerHandsOn(f) PROVE Waking'
  <2>1. f \in Frame
    BY NamesDiffer DEF Types
  <2>2. /\ hop'["gui"].deliveryPending = TRUE
        /\ hop'["worker"] = hop["worker"] /\ hop'["receiver"] = hop["receiver"]
    <3>1. hop' = [hop EXCEPT !["gui"] = Submitted(hop["gui"], f)]
      BY <1>4, NamesDiffer DEF WorkerHandsOn, Types
    <3> QED BY <2>1, <3>1, NamesDiffer, HopSubmitted
  <2>3. /\ posting'["worker"] <=> ~hop["gui"].deliveryPending
        /\ posting'["gui"] = posting["gui"] /\ ~posting["worker"]
    BY <1>4, NamesDiffer DEF WorkerHandsOn, Types
  <2> QED BY <1>4, <2>2, <2>3 DEF WorkerHandsOn, Waking, receiver
<1>5. ASSUME NEW t \in Emitters, Posts(t) PROVE Waking'
  <2>1. CASE t = "worker"
    <3>1. posted'["gui"] > 0 /\ posted'["receiver"] = posted["receiver"] /\ posting'["gui"] = posting["gui"]
      BY <1>0, <1>5, <2>1, NamesDiffer DEF Posts, Target, Types
    <3> QED BY <1>5, <3>1 DEF Posts, Waking, receiver
  <2>2. CASE t = "gui"
    <3>1. posted'["receiver"] > 0 /\ posted'["gui"] = posted["gui"] /\ posting'["worker"] = posting["worker"]
      BY <1>0, <1>5, <2>2, NamesDiffer DEF Posts, Target, Types
    <3> QED BY <1>5, <3>1 DEF Posts, Waking, receiver
  <2> QED BY <2>1, <2>2 DEF Emitters
<1>6. ASSUME NEW t \in Emitters, PostRefused(t) PROVE Waking'
  <2>1. CASE t = "worker"
    <3>1. /\ hop'["gui"].frames = {} /\ ~hop'["gui"].deliveryPending
          /\ hop'["worker"] = hop["worker"] /\ hop'["receiver"] = hop["receiver"]
      <4>1. hop' = [hop EXCEPT !["gui"] = EmptyBuffer]
        BY <1>6, <2>1 DEF PostRefused, Target
      <4> QED BY <4>1, NamesDiffer, HopEmptied
    <3>2. posting'["gui"] = posting["gui"]
      BY <1>6, <2>1, NamesDiffer DEF PostRefused, Types
    <3> QED BY <1>6, <3>1, <3>2 DEF PostRefused, Waking, receiver
  <2>2. CASE t = "gui"
    <3>1. /\ hop'["receiver"].frames = {} /\ ~hop'["receiver"].deliveryPending
          /\ hop'["worker"] = hop["worker"] /\ hop'["gui"] = hop["gui"]
      <4>1. hop' = [hop EXCEPT !["receiver"] = EmptyBuffer]
        BY <1>6, <2>2, NamesDiffer DEF PostRefused, Target
      <4> QED BY <4>1, NamesDiffer, HopEmptied
    <3>2. posting'["worker"] = posting["worker"]
      BY <1>6, <2>2, NamesDiffer DEF PostRefused, Types
    <3> QED BY <1>6, <3>1, <3>2 DEF PostRefused, Waking, receiver
  <2> QED BY <2>1, <2>2 DEF Emitters
<1>7. CASE GuiFlush
  <2>1. /\ hop'["gui"].frames = {} /\ ~hop'["gui"].deliveryPending
        /\ hop'["worker"] = hop["worker"] /\ hop'["receiver"] = hop["receiver"]
    BY <1>7, NamesDiffer, HopEmptied DEF GuiFlush
  <2>2. posted'["receiver"] = posted["receiver"]
    BY <1>7 DEF GuiFlush, Types
  <2> QED BY <1>7, <2>1, <2>2 DEF GuiFlush, Waking, receiver
<1>8. ASSUME NEW f \in emitting["gui"], GuiHandsOn(f) PROVE Waking'
  <2>1. f \in Frame
    BY NamesDiffer DEF Types
  <2>2. CASE HasWorker(f)
    <3>1. f \in CameraFrame /\ thread
      BY <2>1, <2>2 DEF HasWorker, CameraFrame
    <3>2. /\ hop'["receiver"].deliveryPending = TRUE
          /\ hop'["worker"] = hop["worker"] /\ hop'["gui"] = hop["gui"]
      <4>1. hop' = [hop EXCEPT !["receiver"] = Submitted(hop["receiver"], f)]
        BY <1>8, <2>2, NamesDiffer DEF GuiHandsOn, Types
      <4> QED BY <2>1, <3>1, <4>1, NamesDiffer, HopSubmitted
    <3>3. /\ posting'["gui"] <=> ~hop["receiver"].deliveryPending
          /\ posting'["worker"] = posting["worker"] /\ ~posting["gui"]
      BY <1>8, <2>2, NamesDiffer DEF GuiHandsOn, Types
    <3> QED BY <1>8, <3>1, <3>2, <3>3 DEF GuiHandsOn, Waking, receiver
  <2>3. CASE ~HasWorker(f)
    BY <1>8, <2>3 DEF GuiHandsOn, Waking, receiver
  <2> QED BY <2>2, <2>3
<1>9. CASE DispatcherStarts
  <2>1. dispatcher'.timer = dispatcher.timer
    BY <1>9 DEF DispatcherStarts, Types
  <2> QED BY <1>9, <2>1 DEF DispatcherStarts, Waking, receiver
<1>10. CASE ServiceStop
  <2>1. /\ hop'["gui"].frames = {} /\ ~hop'["gui"].deliveryPending
        /\ hop'["worker"] = hop["worker"] /\ hop'["receiver"] = hop["receiver"]
    BY <1>10, NamesDiffer, HopEmptied DEF ServiceStop
  <2> QED BY <1>10, <2>1 DEF ServiceStop, Waking, receiver
<1>11. CASE GatewayStop
  <2>1. /\ hop'["worker"].frames = {} /\ ~hop'["worker"].deliveryPending
        /\ hop'["gui"] = hop["gui"] /\ hop'["receiver"] = hop["receiver"]
    BY <1>11, NamesDiffer, HopEmptied DEF GatewayStop
  <2> QED BY <1>11, <2>1 DEF GatewayStop, Waking, receiver
<1>12. CASE ServiceStopReturns
  <2>1. /\ hop'["gui"].frames = {} /\ ~hop'["gui"].deliveryPending
        /\ hop'["worker"] = hop["worker"] /\ hop'["receiver"] = hop["receiver"]
    BY <1>12, NamesDiffer, HopEmptied DEF ServiceStopReturns
  <2> QED BY <1>12, <2>1 DEF ServiceStopReturns, Waking, receiver
<1>13. CASE SessionStarts
  BY <1>13 DEF SessionStarts, Waking, path
<1>14. CASE SessionStops
  <2>1. /\ hop'["receiver"].frames = {} /\ ~hop'["receiver"].deliveryPending
        /\ hop'["worker"] = hop["worker"] /\ hop'["gui"] = hop["gui"]
    BY <1>14, NamesDiffer, HopEmptied DEF SessionStops
  <2>2. posted'["gui"] = posted["gui"]
    BY <1>14 DEF SessionStops, Types
  <2> QED BY <1>14, <2>1, <2>2 DEF SessionStops, Waking
<1>15. ASSUME NEW gap \in BOOLEAN, ReceiverFlush(gap) PROVE Waking'
  <2>1. /\ hop'["receiver"].frames = {} /\ ~hop'["receiver"].deliveryPending
        /\ hop'["worker"] = hop["worker"] /\ hop'["gui"] = hop["gui"]
    BY <1>15, NamesDiffer, HopEmptied DEF ReceiverFlush
  <2>2. posted'["gui"] = posted["gui"]
    BY <1>15 DEF ReceiverFlush, Types
  <2> QED BY <1>15, <2>1, <2>2 DEF ReceiverFlush, Waking
<1>16. CASE Teardown \/ PipelineStarts \/ \E r \in BOOLEAN, d \in Delays : BufferObserved(r, d)
  BY <1>1, <1>16 DEF Teardown, PipelineStarts, BufferObserved
<1>17. CASE UNCHANGED vars
  BY <1>1, <1>17 DEF vars, receiver
<1> QED BY <1>2, <1>3, <1>4, <1>5, <1>6, <1>7, <1>8, <1>9, <1>10, <1>11, <1>12, <1>13,
           <1>14, <1>15, <1>16, <1>17
        DEF Next, Worker, Gui, Emitters

-----------------------------------------------------------------------------
(* The clock, and a gateway that is stopped *)

\* Every step leaves the anchor of the session that runs.
LEMMA NextClock == Types /\ Clock /\ [Next]_vars => Clock'
<1> SUFFICES ASSUME Types, Clock, [Next]_vars PROVE Clock'
  OBVIOUS
<1>1. CASE UNCHANGED <<playing, mapper, base>>
  BY <1>1 DEF Clock
<1>2. CASE SessionStops \/ Teardown
  BY <1>2 DEF SessionStops, Teardown, MapperAfterTeardown, NoAnchor, Clock
<1>3. CASE SessionStarts \/ PipelineStarts
  <2>1. ~mapper.ready /\ mapper' = mapper
    BY <1>3 DEF SessionStarts, PipelineStarts, Clock, Types
  <2> QED BY <2>1 DEF Clock
<1>4. ASSUME NEW referenced \in BOOLEAN, NEW delay \in Delays, BufferObserved(referenced, delay)
      PROVE  Clock'
  <2> DEFINE offset == OffsetOf(referenced, delay)
  <2>1. /\ playing' = playing /\ playing /\ base' = base
        /\ mapper' = Observed(mapper, offset, referenced)
    BY <1>4 DEF BufferObserved
  <2>2. IF referenced THEN offset = base ELSE offset = base + delay
    BY DEF OffsetOf
  <2> HIDE DEF offset
  <2>3. mapper' = mapper \/ mapper' = [ready |-> TRUE, sender |-> referenced, offset |-> offset]
    BY <2>1 DEF Observed, Anchor
  <2>4. CASE mapper' = mapper
    BY <2>1, <2>4 DEF Clock
  <2>5. CASE mapper' = [ready |-> TRUE, sender |-> referenced, offset |-> offset]
    <3>1. mapper'.ready = TRUE /\ mapper'.sender = referenced /\ mapper'.offset = offset
      BY <2>5
    <3> QED BY <2>1, <2>2, <3>1 DEF Clock
  <2> QED BY <2>3, <2>4, <2>5
<1> QED BY <1>1, <1>2, <1>3, <1>4
        DEF Next, vars, receiver, Worker, Gui, FlushTimerFires, WorkerHandsOn, Posts, PostRefused,
            GuiFlush, GuiHandsOn, DispatcherStarts, FrameArrives, ServiceStop, GatewayStop,
            ServiceStopReturns, ReceiverFlush

\* Every step leaves the dispatcher stopped while its thread is joined.
LEMMA NextStopping == Types /\ Stopping /\ [Next]_vars => Stopping'
<1> SUFFICES ASSUME Types, Stopping, [Next]_vars PROVE Stopping'
  OBVIOUS
<1>1. CASE UNCHANGED gui /\ dispatcher'.running = dispatcher.running
  BY <1>1 DEF Stopping
<1>2. CASE GatewayStop
  <2>1. dispatcher'.running = FALSE
    BY <1>2 DEF GatewayStop, DispatcherStopped, Types
  <2> QED BY <2>1 DEF Stopping
<1>3. CASE gui' # "joining"
  BY <1>3 DEF Stopping
<1>4. ASSUME NEW m \in Published, NEW gap \in BOOLEAN, FrameArrives(m, gap) PROVE Stopping'
  <2>1. gui' = gui /\ dispatcher'.running = dispatcher.running
    BY <1>4, FrameArrivesEffect
  <2> QED BY <1>1, <2>1
<1>5. CASE FlushTimerFires
  <2>1. gui' = gui /\ dispatcher'.running = dispatcher.running
    BY <1>5 DEF FlushTimerFires, Types
  <2> QED BY <1>1, <2>1
<1>6. CASE DispatcherStarts \/ ServiceStop \/ ServiceStopReturns
  <2>1. gui' # "joining"
    BY <1>6 DEF DispatcherStarts, ServiceStop, ServiceStopReturns
  <2> QED BY <1>3, <2>1
<1> QED BY <1>1, <1>2, <1>4, <1>5, <1>6
        DEF Next, vars, path, Worker, Gui, WorkerHandsOn, Posts, PostRefused, GuiFlush, GuiHandsOn,
            SessionStarts, SessionStops, ReceiverFlush, Teardown, PipelineStarts, BufferObserved

-----------------------------------------------------------------------------
(* The line *)

\* Of each channel, what stands in a is older than what stands in b.
Ahead(a, b) == \A f \in a, g \in b : f.ch = g.ch => f.n < g.n

AtMostOne(a) == \A f, g \in a : f.ch = g.ch => f = g

Behind(a, acc, done) == \A f \in a : f.n <= acc[f.ch] /\ (f.ch = Camera => done < f.n)

\* Line, place by place.
InLine(a, b, c, d, e, acc, done) ==
  /\ Ahead(a, b) /\ Ahead(a, c) /\ Ahead(a, d) /\ Ahead(a, e)
  /\ Ahead(b, c) /\ Ahead(b, d) /\ Ahead(b, e)
  /\ Ahead(c, d) /\ Ahead(c, e)
  /\ Ahead(d, e)
  /\ AtMostOne(a) /\ AtMostOne(b) /\ AtMostOne(c) /\ AtMostOne(d) /\ AtMostOne(e)
  /\ Behind(a, acc, done) /\ Behind(b, acc, done) /\ Behind(c, acc, done)
  /\ Behind(d, acc, done) /\ Behind(e, acc, done)
  /\ done <= acc[Camera]

LEMMA FivePlaces ==
  ASSUME NEW a, NEW b, NEW c, NEW d, NEW e, NEW acc, NEW done, NEW p, p = <<a, b, c, d, e>>
  PROVE  InLine(a, b, c, d, e, acc, done) <=>
           /\ \A i, j \in 1..5 : i < j => Ahead(p[i], p[j])
           /\ \A i \in 1..5 : AtMostOne(p[i])
           /\ \A i \in 1..5 : Behind(p[i], acc, done)
           /\ done <= acc[Camera]
<1>1. p[1] = a /\ p[2] = b /\ p[3] = c /\ p[4] = d /\ p[5] = e
  OBVIOUS
<1>2. 1..5 = {1, 2, 3, 4, 5}
  OBVIOUS
<1>3. (\A i, j \in 1..5 : i < j => Ahead(p[i], p[j])) <=>
        /\ Ahead(p[1], p[2]) /\ Ahead(p[1], p[3]) /\ Ahead(p[1], p[4]) /\ Ahead(p[1], p[5])
        /\ Ahead(p[2], p[3]) /\ Ahead(p[2], p[4]) /\ Ahead(p[2], p[5])
        /\ Ahead(p[3], p[4]) /\ Ahead(p[3], p[5])
        /\ Ahead(p[4], p[5])
  BY <1>2
<1>4. (\A i \in 1..5 : AtMostOne(p[i])) <=>
        AtMostOne(p[1]) /\ AtMostOne(p[2]) /\ AtMostOne(p[3]) /\ AtMostOne(p[4]) /\ AtMostOne(p[5])
  BY <1>2
<1>5. (\A i \in 1..5 : Behind(p[i], acc, done)) <=>
        /\ Behind(p[1], acc, done) /\ Behind(p[2], acc, done) /\ Behind(p[3], acc, done)
        /\ Behind(p[4], acc, done) /\ Behind(p[5], acc, done)
  BY <1>2
<1> QED BY <1>1, <1>3, <1>4, <1>5 DEF InLine

\* The invariant of a state, with the places named.
LEMMA LineIsInLine ==
  /\ Line <=> InLine(hop["receiver"].frames, emitting["gui"], hop["gui"].frames,
                     emitting["worker"], hop["worker"].frames, accepted, reached)
  /\ Line' <=> InLine(hop'["receiver"].frames, emitting'["gui"], hop'["gui"].frames,
                      emitting'["worker"], hop'["worker"].frames, accepted', reached')
<1>1. Line <=> /\ \A i, j \in 1..5 : i < j => Ahead(Places[i], Places[j])
               /\ \A i \in 1..5 : AtMostOne(Places[i])
               /\ \A i \in 1..5 : Behind(Places[i], accepted, reached)
               /\ reached <= accepted[Camera]
  BY DEF Line, Ahead, AtMostOne, Behind
<1>2. Line' <=> /\ \A i, j \in 1..5 : i < j => Ahead(Places'[i], Places'[j])
                /\ \A i \in 1..5 : AtMostOne(Places'[i])
                /\ \A i \in 1..5 : Behind(Places'[i], accepted', reached')
                /\ reached' <= accepted'[Camera]
  BY DEF Line, Ahead, AtMostOne, Behind
<1>3. Places = <<hop["receiver"].frames, emitting["gui"], hop["gui"].frames,
                 emitting["worker"], hop["worker"].frames>>
  BY DEF Places
<1>4. Places' = <<hop'["receiver"].frames, emitting'["gui"], hop'["gui"].frames,
                  emitting'["worker"], hop'["worker"].frames>>
  BY DEF Places
<1>5. QED
  <2> DEFINE P == Places
             Q == Places'
             a == hop["receiver"].frames  b == emitting["gui"]  c == hop["gui"].frames
             d == emitting["worker"]      e == hop["worker"].frames
             u == hop'["receiver"].frames  v == emitting'["gui"]  w == hop'["gui"].frames
             x == emitting'["worker"]      y == hop'["worker"].frames
             acc == accepted'
             done == reached'
  <2>1. P = <<a, b, c, d, e>> /\ Q = <<u, v, w, x, y>>
    BY <1>3, <1>4
  <2>2. Line <=> /\ \A i, j \in 1..5 : i < j => Ahead(P[i], P[j])
                 /\ \A i \in 1..5 : AtMostOne(P[i])
                 /\ \A i \in 1..5 : Behind(P[i], accepted, reached)
                 /\ reached <= accepted[Camera]
    BY <1>1
  <2>3. Line' <=> /\ \A i, j \in 1..5 : i < j => Ahead(Q[i], Q[j])
                  /\ \A i \in 1..5 : AtMostOne(Q[i])
                  /\ \A i \in 1..5 : Behind(Q[i], acc, done)
                  /\ done <= acc[Camera]
    BY <1>2
  <2> HIDE DEF P, Q, a, b, c, d, e, u, v, w, x, y, acc, done
  <2>4. Line <=> InLine(a, b, c, d, e, accepted, reached)
    BY <2>1, <2>2, FivePlaces
  <2>5. Line' <=> InLine(u, v, w, x, y, acc, done)
    BY <2>1, <2>3, FivePlaces
  <2> QED BY <2>4, <2>5 DEF a, b, c, d, e, u, v, w, x, y, acc, done

\* Frames that leave the line leave the others in it.
LEMMA FewerInLine ==
  ASSUME NEW a, NEW b, NEW c, NEW d, NEW e, NEW acc, NEW done,
         InLine(a, b, c, d, e, acc, done),
         NEW u, NEW v, NEW w, NEW x, NEW y,
         u \subseteq a, v \subseteq b, w \subseteq c, x \subseteq d, y \subseteq e
  PROVE  InLine(u, v, w, x, y, acc, done)
<1>1. ASSUME NEW p, NEW q, NEW r, NEW s, Ahead(p, q), r \subseteq p, s \subseteq q
      PROVE  Ahead(r, s)
  BY <1>1 DEF Ahead
<1>2. ASSUME NEW p, NEW r, r \subseteq p
      PROVE  /\ AtMostOne(p) => AtMostOne(r)
             /\ Behind(p, acc, done) => Behind(r, acc, done)
  BY <1>2 DEF AtMostOne, Behind
<1> QED BY <1>1, <1>2 DEF InLine

\* A frame that takes the place of one of its channel in the place before is
\* alone there, and ahead of those it left.
LEMMA FrameMovesUp ==
  ASSUME NEW p, NEW q, NEW f \in q, Ahead(p, q), AtMostOne(p), AtMostOne(q),
         NEW u, \A g : g \in u <=> (g \in p /\ g.ch # f.ch) \/ g = f
  PROVE  Ahead(u, q \ {f}) /\ AtMostOne(u) /\ AtMostOne(q \ {f})
<1>1. Ahead(u, q \ {f})
  BY DEF Ahead, AtMostOne
<1>2. AtMostOne(u) /\ AtMostOne(q \ {f})
  BY DEF AtMostOne
<1> QED BY <1>1, <1>2

\* Every step leaves the frames in line.
LEMMA NextLine == Types /\ Line /\ [Next]_vars => Line'
<1> SUFFICES ASSUME Types, Line, [Next]_vars PROVE Line'
  OBVIOUS
<1> DEFINE a == hop["receiver"].frames
           b == emitting["gui"]
           c == hop["gui"].frames
           d == emitting["worker"]
           e == hop["worker"].frames
           u == hop'["receiver"].frames
           v == emitting'["gui"]
           w == hop'["gui"].frames
           x == emitting'["worker"]
           y == hop'["worker"].frames
           acc == accepted'
           done == reached'
<1>1. InLine(a, b, c, d, e, accepted, reached)
  BY LineIsInLine
<1>2. InLine(u, v, w, x, y, acc, done) => Line'
  BY LineIsInLine
<1>3. /\ a \subseteq Frame /\ b \subseteq Frame /\ c \subseteq Frame
      /\ d \subseteq Frame /\ e \subseteq Frame /\ a \subseteq CameraFrame
  BY NamesDiffer DEF Types, Buffer
<1>4. accepted \in [Channels -> Nat] /\ reached \in Nat
  BY DEF Types
<1>5. ASSUME acc = accepted, done = reached,
             u \subseteq a, v \subseteq b, w \subseteq c, x \subseteq d, y \subseteq e
      PROVE  Line'
  <2> HIDE DEF a, b, c, d, e, u, v, w, x, y, acc, done
  <2>1. InLine(u, v, w, x, y, accepted, reached)
    BY <1>1, <1>5, FewerInLine
  <2> QED BY <1>2, <1>5, <2>1
<1>6. CASE UNCHANGED <<hop, emitting, accepted, reached>>
  BY <1>5, <1>6
<1>7. ASSUME NEW m \in Published, NEW gap \in BOOLEAN, FrameArrives(m, gap) PROVE Line'
  <2> DEFINE n == accepted[m.ch] + 1
             f == Numbered(m, n)
  <2>1. u = a /\ v = b /\ w = c /\ x = d /\ done = reached
    BY <1>7, FrameArrivesEffect
  <2>2. CASE UNCHANGED <<hop, accepted>>
    <3>1. y = e /\ acc = accepted
      BY <2>2
    <3> HIDE DEF a, b, c, d, e, u, v, w, x, y, acc, done
    <3> QED BY <1>5, <2>1, <3>1
  <2>3. CASE /\ accepted' = [accepted EXCEPT ![m.ch] = n]
             /\ y = {g \in e : g.ch # m.ch} \union {f}
    <3>1. m.ch \in Channels
      BY BlurPathAssumption
    <3>2. f.ch = m.ch /\ f.n = n
      BY DEF Numbered
    <3>3. acc = [accepted EXCEPT ![m.ch] = n]
      BY <2>3
    <3> HIDE DEF a, b, c, d, e, u, v, w, x, y, acc, done, f
    <3>4. ASSUME NEW p, p \subseteq Frame, Behind(p, accepted, reached)
          PROVE  Behind(p, acc, reached) /\ \A g \in p : g.ch = m.ch => g.n < n
      <4>1. \A g \in p : g.ch \in Channels /\ g.n \in Nat /\ g.n <= accepted[g.ch]
        BY <3>4, FrameFields DEF Behind
      <4>2. ASSUME NEW g \in p PROVE g.n <= acc[g.ch] /\ (g.ch = m.ch => g.n < n)
        <5>1. CASE g.ch = m.ch
          BY <1>4, <3>1, <3>3, <4>1, <5>1
        <5>2. CASE g.ch # m.ch
          BY <1>4, <3>1, <3>3, <4>1, <5>2
        <5> QED BY <5>1, <5>2
      <4>3. \A g \in p : g.ch = Camera => reached < g.n
        BY <3>4 DEF Behind
      <4> QED BY <4>2, <4>3 DEF Behind
    <3>5. ASSUME NEW p, p \subseteq Frame, Behind(p, accepted, reached), Ahead(p, e)
          PROVE  Ahead(p, y)
      BY <2>3, <3>2, <3>4, <3>5 DEF Ahead
    <3>6. AtMostOne(y)
      <4>1. AtMostOne(e)
        BY <1>1 DEF InLine
      <4> QED BY <2>3, <3>2, <4>1 DEF AtMostOne
    <3>7. Behind(y, acc, reached)
      <4>1. Behind(e, acc, reached)
        BY <1>1, <1>3, <3>4 DEF InLine
      <4>2. f.n <= acc[f.ch] /\ (f.ch = Camera => reached < f.n)
        <5>1. acc[m.ch] = n /\ n \in Nat
          BY <1>4, <3>1, <3>3
        <5>2. m.ch = Camera => reached <= accepted[m.ch]
          BY <1>1 DEF InLine
        <5> QED BY <1>4, <3>1, <3>2, <5>1, <5>2
      <4> QED BY <2>3, <4>1, <4>2 DEF Behind
    <3>8. reached <= acc[Camera]
      <4>1. reached <= accepted[Camera]
        BY <1>1 DEF InLine
      <4> QED BY <1>4, <3>1, <3>3, <4>1, BlurPathAssumption
    <3> QED BY <1>1, <1>2, <1>3, <2>1, <3>4, <3>5, <3>6, <3>7, <3>8 DEF InLine
  <2> QED BY <1>7, <2>2, <2>3, FrameArrivesEffect
<1>8. CASE FlushTimerFires
  <2>1. u = a /\ w = c /\ y = {}
    BY <1>8, NamesDiffer, HopEmptied DEF FlushTimerFires
  <2>2. x = e /\ v = b /\ d = {} /\ acc = accepted /\ done = reached
    BY <1>8, NamesDiffer DEF FlushTimerFires, WorkerFree, Types, counters
  <2> HIDE DEF a, b, c, d, e, u, v, w, x, y, acc, done
  <2> QED BY <1>1, <1>2, <2>1, <2>2 DEF InLine, Ahead, AtMostOne, Behind
<1>9. ASSUME NEW f \in emitting["worker"], WorkerHandsOn(f) PROVE Line'
  <2>1. f \in Frame /\ f \in d
    BY NamesDiffer DEF Types
  <2>2. u = a /\ y = e /\ w = {g \in c : g.ch # f.ch} \union {f}
    <3>1. hop' = [hop EXCEPT !["gui"] = Submitted(hop["gui"], f)]
      BY <1>9, NamesDiffer DEF WorkerHandsOn, Types
    <3> QED BY <2>1, <3>1, NamesDiffer, HopSubmitted
  <2>3. x = d \ {f} /\ v = b /\ acc = accepted /\ done = reached
    BY <1>9, NamesDiffer DEF WorkerHandsOn, Types, counters
  <2> HIDE DEF a, b, c, d, e, u, v, w, x, y, acc, done
  <2>4. /\ Ahead(w, d \ {f}) /\ AtMostOne(w) /\ AtMostOne(d \ {f})
        /\ \A o : Ahead(o, c) /\ Ahead(o, d) => Ahead(o, w) /\ Ahead(o, d \ {f})
        /\ \A o : Ahead(c, o) /\ Ahead(d, o) => Ahead(w, o) /\ Ahead(d \ {f}, o)
        /\ Behind(w, accepted, reached) /\ Behind(d \ {f}, accepted, reached)
    <3>1. /\ Ahead(c, d) /\ AtMostOne(c) /\ AtMostOne(d)
          /\ Behind(c, accepted, reached) /\ Behind(d, accepted, reached)
      BY <1>1 DEF InLine
    <3>2. \A g : g \in w <=> (g \in c /\ g.ch # f.ch) \/ g = f
      BY <2>2
    <3>3. Ahead(w, d \ {f}) /\ AtMostOne(w) /\ AtMostOne(d \ {f})
      BY <2>1, <3>1, <3>2, FrameMovesUp
    <3>4. \A o : Ahead(o, c) /\ Ahead(o, d) => Ahead(o, w) /\ Ahead(o, d \ {f})
      BY <2>1, <3>2 DEF Ahead
    <3>5. \A o : Ahead(c, o) /\ Ahead(d, o) => Ahead(w, o) /\ Ahead(d \ {f}, o)
      BY <2>1, <3>2 DEF Ahead
    <3>6. Behind(w, accepted, reached) /\ Behind(d \ {f}, accepted, reached)
      BY <2>1, <3>1, <3>2 DEF Behind
    <3> QED BY <3>3, <3>4, <3>5, <3>6
  <2> QED BY <1>1, <1>2, <2>2, <2>3, <2>4 DEF InLine
<1>10. CASE GuiFlush
  <2>1. u = a /\ y = e /\ w = {}
    BY <1>10, NamesDiffer, HopEmptied DEF GuiFlush
  <2>2. v = c /\ x = d /\ b = {} /\ acc = accepted /\ done = reached
    BY <1>10, NamesDiffer DEF GuiFlush, GuiFree, Types, counters
  <2> HIDE DEF a, b, c, d, e, u, v, w, x, y, acc, done
  <2> QED BY <1>1, <1>2, <2>1, <2>2 DEF InLine, Ahead, AtMostOne, Behind
<1>11. ASSUME NEW f \in emitting["gui"], GuiHandsOn(f) PROVE Line'
  <2>1. f \in Frame /\ f \in b
    BY NamesDiffer DEF Types
  <2>2. v = b \ {f} /\ x = d /\ acc = accepted /\ done = reached
    BY <1>11, NamesDiffer DEF GuiHandsOn, Types, counters
  <2>3. CASE HasWorker(f)
    <3>1. w = c /\ y = e /\ u = {g \in a : g.ch # f.ch} \union {f}
      <4>1. hop' = [hop EXCEPT !["receiver"] = Submitted(hop["receiver"], f)]
        BY <1>11, <2>3, NamesDiffer DEF GuiHandsOn, Types
      <4>2. f \in CameraFrame
        BY <2>1, <2>3 DEF HasWorker, CameraFrame
      <4> QED BY <2>1, <4>1, <4>2, NamesDiffer, HopSubmitted
    <3> HIDE DEF a, b, c, d, e, u, v, w, x, y, acc, done
    <3>2. /\ Ahead(u, b \ {f}) /\ AtMostOne(u) /\ AtMostOne(b \ {f})
          /\ \A o : Ahead(o, a) /\ Ahead(o, b) => Ahead(o, u) /\ Ahead(o, b \ {f})
          /\ \A o : Ahead(a, o) /\ Ahead(b, o) => Ahead(u, o) /\ Ahead(b \ {f}, o)
          /\ Behind(u, accepted, reached) /\ Behind(b \ {f}, accepted, reached)
      <4>1. /\ Ahead(a, b) /\ AtMostOne(a) /\ AtMostOne(b)
            /\ Behind(a, accepted, reached) /\ Behind(b, accepted, reached)
        BY <1>1 DEF InLine
      <4>2. \A g : g \in u <=> (g \in a /\ g.ch # f.ch) \/ g = f
        BY <3>1
      <4>3. Ahead(u, b \ {f}) /\ AtMostOne(u) /\ AtMostOne(b \ {f})
        BY <2>1, <4>1, <4>2, FrameMovesUp
      <4>4. \A o : Ahead(o, a) /\ Ahead(o, b) => Ahead(o, u) /\ Ahead(o, b \ {f})
        BY <2>1, <4>2 DEF Ahead
      <4>5. \A o : Ahead(a, o) /\ Ahead(b, o) => Ahead(u, o) /\ Ahead(b \ {f}, o)
        BY <2>1, <4>2 DEF Ahead
      <4>6. Behind(u, accepted, reached) /\ Behind(b \ {f}, accepted, reached)
        BY <2>1, <4>1, <4>2 DEF Behind
      <4> QED BY <4>3, <4>4, <4>5, <4>6
    <3> QED BY <1>1, <1>2, <2>2, <3>1, <3>2 DEF InLine
  <2>4. CASE ~HasWorker(f)
    <3>1. u = a /\ w = c /\ y = e
      BY <1>11, <2>4 DEF GuiHandsOn
    <3> HIDE DEF a, b, c, d, e, u, v, w, x, y, acc, done
    <3> QED BY <1>5, <2>2, <3>1
  <2> QED BY <2>3, <2>4
<1>12. ASSUME NEW h \in Hops, hop' = [hop EXCEPT ![h] = EmptyBuffer],
              UNCHANGED <<emitting, accepted, reached>>
       PROVE  Line'
  <2>1. u \subseteq a /\ w \subseteq c /\ y \subseteq e
    BY <1>12, NamesDiffer, HopEmptied DEF Hops
  <2>2. v = b /\ x = d /\ acc = accepted /\ done = reached
    BY <1>12
  <2> HIDE DEF a, b, c, d, e, u, v, w, x, y, acc, done
  <2> QED BY <1>5, <2>1, <2>2
<1>13. ASSUME NEW t \in Emitters, PostRefused(t) PROVE Line'
  BY <1>12, <1>13 DEF PostRefused, Target, Hops
<1>14. CASE ServiceStop \/ GatewayStop \/ ServiceStopReturns \/ SessionStops
  BY <1>12, <1>14, NamesDiffer DEF ServiceStop, GatewayStop, ServiceStopReturns, SessionStops, counters
<1>15. ASSUME NEW gap \in BOOLEAN, ReceiverFlush(gap) PROVE Line'
  <2>1. w = c /\ y = e /\ u = {}
    BY <1>15, NamesDiffer, HopEmptied DEF ReceiverFlush
  <2>2. v = b /\ x = d /\ acc = accepted
    BY <1>15 DEF ReceiverFlush
  <2>3. CASE a = {}
    <3>1. done = reached
      BY <1>15, <2>3 DEF ReceiverFlush
    <3> HIDE DEF a, b, c, d, e, u, v, w, x, y, acc, done
    <3> QED BY <1>5, <2>1, <2>2, <3>1
  <2>4. CASE a # {}
    <3>1. PICK f \in a : done = f.n
      BY <1>15, <2>4 DEF ReceiverFlush
    <3>2. f.ch = Camera
      BY <1>3 DEF CameraFrame
    <3> HIDE DEF a, b, c, d, e, u, v, w, x, y, acc, done
    <3>3. ASSUME NEW p, Ahead(a, p), Behind(p, accepted, reached) PROVE Behind(p, accepted, done)
      BY <3>1, <3>2, <3>3 DEF Ahead, Behind
    <3>4. Ahead({}, b) /\ Ahead({}, c) /\ Ahead({}, d) /\ Ahead({}, e) /\ AtMostOne({})
          /\ Behind({}, accepted, done)
      BY DEF Ahead, AtMostOne, Behind
    <3>5. done <= accepted[Camera]
      BY <1>1, <3>1, <3>2 DEF InLine, Behind
    <3> QED BY <1>1, <1>2, <2>1, <2>2, <3>3, <3>4, <3>5 DEF InLine
  <2> QED BY <2>3, <2>4
<1> QED BY <1>6, <1>7, <1>8, <1>9, <1>10, <1>11, <1>13, <1>14, <1>15
        DEF Next, vars, path, receiver, counters, Worker, Gui, Emitters, Posts, DispatcherStarts,
            SessionStarts, Teardown, PipelineStarts, BufferObserved

-----------------------------------------------------------------------------
(* The invariant holds *)

LEMMA InitInvariant == Init => IInv
<1> SUFFICES ASSUME Init PROVE IInv
  OBVIOUS
<1>1. Types
  BY InitTypes
<1>2. /\ hop["receiver"].frames = {} /\ hop["gui"].frames = {} /\ hop["worker"].frames = {}
      /\ emitting["gui"] = {} /\ emitting["worker"] = {}
      /\ ~hop["receiver"].deliveryPending /\ ~hop["gui"].deliveryPending
      /\ ~hop["worker"].deliveryPending
  BY NamesDiffer, EmptyIsBuffer DEF Init, Emitters, Hops
<1>3. Line
  <2>1. accepted[Camera] = 0 /\ reached = 0
    BY BlurPathAssumption DEF Init
  <2>2. InLine({}, {}, {}, {}, {}, accepted, reached)
    BY <2>1 DEF InLine, Ahead, AtMostOne, Behind
  <2> QED BY <1>2, <2>2, LineIsInLine
<1>4. Clock /\ Stopping
  BY DEF Init, NoAnchor, Clock, Stopping
<1>5. Waking
  BY <1>2 DEF Waking
<1> QED BY <1>1, <1>3, <1>4, <1>5, WakingIsNoLostWakeup DEF IInv

LEMMA NextInvariant == IInv /\ [Next]_vars => IInv'
<1> SUFFICES ASSUME IInv, [Next]_vars PROVE IInv'
  OBVIOUS
<1>1. Types /\ Line /\ Clock /\ Stopping /\ Waking
  BY WakingIsNoLostWakeup DEF IInv
<1>2. Types' /\ Line' /\ Clock' /\ Stopping' /\ Waking'
  BY <1>1, NextTypes, NextLine, NextClock, NextStopping, NextWaking
<1>3. NoLostWakeup'
  <2>1. DOMAIN hop' = Hops
    BY <1>2 DEF Types
  <2> QED BY <1>2, <2>1 DEF NoLostWakeup, Waking, Hops
<1> QED BY <1>2, <1>3 DEF IInv

\* Whatever is published, taken, refused, stopped and started, in whatever order
\* the four threads of the blur path step, its state stays within the invariant.
THEOREM PathInvariant == Spec => []IInv
BY InitInvariant, NextInvariant, PTL DEF Spec

\* Every variable has its type, and the history of the processor is strictly
\* ordered by time, within its window and size, and of its camera
\* (BlurProcessor::submitFrame()).
THEOREM TypeCorrect == Spec => []TypeOK
<1>1. IInv => TypeOK
  <2> SUFFICES ASSUME IInv PROVE TypeOK
    OBVIOUS
  <2>1. Types /\ Line
    BY DEF IInv
  <2>2. DOMAIN hop = Hops /\ DOMAIN emitting = Emitters
    BY <2>1 DEF Types
  <2>3. \A h \in Hops : \A f, g \in hop[h].frames : f.ch = g.ch => f = g
    <3>1. AtMostOne(hop["receiver"].frames) /\ AtMostOne(hop["gui"].frames)
          /\ AtMostOne(hop["worker"].frames)
      BY <2>1, LineIsInLine DEF InLine
    <3> QED BY <3>1 DEF AtMostOne, Hops
  <2>4. \A h \in DOMAIN hop : /\ hop[h].frames \subseteq Frame /\ hop[h].deliveryPending \in BOOLEAN
                              /\ \A f, g \in hop[h].frames : f.ch = g.ch => f = g
    BY <2>1, <2>2, <2>3 DEF Types, Buffer
  <2>5. \A t \in DOMAIN emitting : emitting[t] \subseteq Frame /\ posting[t] \in BOOLEAN
    BY <2>1, <2>2 DEF Types
  <2>6. /\ dispatcher.running \in BOOLEAN /\ dispatcher.timer \in BOOLEAN
        /\ dispatcher.latest \in [Channels -> {m.ts : m \in Published} \union {0}]
    BY <2>1 DEF Types, Times
  <2>7. LET h == processor.history IN
        /\ \A i \in DOMAIN h : h[i] \in Frame /\ h[i].ch = Camera
        /\ \A i, j \in DOMAIN h : i < j => h[i].ts < h[j].ts
        /\ Len(h) <= MaximumHistory
        /\ \A i \in DOMAIN h : h[i].ts >= processor.latest - HistoryWindow
    <3> DEFINE h == processor.history
    <3>1. Timeline(processor)
      BY <2>1 DEF Types
    <3>2. h \in Seq(CameraFrame)
      BY <3>1 DEF Timeline
    <3>3. \A i \in DOMAIN h : h[i] \in CameraFrame
      BY <3>2
    <3>4. \A i \in DOMAIN h : h[i] \in Frame /\ h[i].ch = Camera
      BY <3>3 DEF CameraFrame
    <3> QED BY <3>1, <3>4 DEF Timeline, Sorted
  <2>8. /\ posted \in [{"gui", "receiver"} -> Nat]
        /\ gui \in {"loop", "blocked", "joining"}
        /\ thread \in BOOLEAN /\ playing \in BOOLEAN /\ (playing => thread)
    BY <2>1 DEF Types
  <2> QED BY <2>4, <2>5, <2>6, <2>7, <2>8 DEF TypeOK
<1> QED BY <1>1, PathInvariant, PTL

\* A frame that waits in any of the three buffers has somebody who will move it
\* on (LatestBlurFrameBuffer::submit() and the flags it answers with).
THEOREM WakeupInvariant == Spec => []NoLostWakeup
<1>1. IInv => NoLostWakeup
  BY DEF IInv
<1> QED BY <1>1, PathInvariant, PTL

-----------------------------------------------------------------------------
(* Three buffers are one latest-value channel *)

\* The numbers of the camera's frames in a place.
Numbers(p) == {f.n : f \in {g \in p : g.ch = Camera}}

\* InFlight, place by place.
LEMMA FlightOfPlaces ==
  /\ Types => InFlight = Numbers(hop["receiver"].frames) \union Numbers(emitting["gui"])
                           \union Numbers(hop["gui"].frames) \union Numbers(emitting["worker"])
                           \union Numbers(hop["worker"].frames)
  /\ Types' => InFlight' = Numbers(hop'["receiver"].frames) \union Numbers(emitting'["gui"])
                           \union Numbers(hop'["gui"].frames) \union Numbers(emitting'["worker"])
                           \union Numbers(hop'["worker"].frames)
<1>1. ASSUME NEW h, NEW t, DOMAIN h = Hops, DOMAIN t = Emitters
      PROVE  {f.n : f \in {g \in UNION ({h[k].frames : k \in DOMAIN h} \union {t[k] : k \in DOMAIN t}) :
                             g.ch = Camera}}
             = Numbers(h["receiver"].frames) \union Numbers(t["gui"])
                 \union Numbers(h["gui"].frames) \union Numbers(t["worker"])
                 \union Numbers(h["worker"].frames)
  <2>1. UNION ({h[k].frames : k \in DOMAIN h} \union {t[k] : k \in DOMAIN t})
        = h["receiver"].frames \union t["gui"] \union h["gui"].frames \union t["worker"]
            \union h["worker"].frames
    BY <1>1 DEF Hops, Emitters
  <2> QED BY <2>1 DEF Numbers
<1>2. Types => DOMAIN hop = Hops /\ DOMAIN emitting = Emitters
  BY DEF Types
<1>3. Types' => DOMAIN hop' = Hops /\ DOMAIN emitting' = Emitters
  BY DEF Types
<1>4. ASSUME Types PROVE InFlight = Numbers(hop["receiver"].frames) \union Numbers(emitting["gui"])
                           \union Numbers(hop["gui"].frames) \union Numbers(emitting["worker"])
                           \union Numbers(hop["worker"].frames)
  <2> DEFINE h == hop
             t == emitting
  <2>1. DOMAIN h = Hops /\ DOMAIN t = Emitters
    BY <1>2, <1>4
  <2>2. InFlight = {f.n : f \in {g \in UNION ({h[k].frames : k \in DOMAIN h}
                                              \union {t[k] : k \in DOMAIN t}) : g.ch = Camera}}
    BY DEF InFlight
  <2> HIDE DEF h, t
  <2>3. InFlight = Numbers(h["receiver"].frames) \union Numbers(t["gui"])
                     \union Numbers(h["gui"].frames) \union Numbers(t["worker"])
                     \union Numbers(h["worker"].frames)
    BY <1>1, <2>1, <2>2
  <2> QED BY <2>3 DEF h, t
<1>5. ASSUME Types' PROVE InFlight' = Numbers(hop'["receiver"].frames) \union Numbers(emitting'["gui"])
                           \union Numbers(hop'["gui"].frames) \union Numbers(emitting'["worker"])
                           \union Numbers(hop'["worker"].frames)
  <2> DEFINE h == hop'
             t == emitting'
  <2>1. DOMAIN h = Hops /\ DOMAIN t = Emitters
    BY <1>3, <1>5
  <2>2. InFlight' = {f.n : f \in {g \in UNION ({h[k].frames : k \in DOMAIN h}
                                               \union {t[k] : k \in DOMAIN t}) : g.ch = Camera}}
    BY DEF InFlight
  <2> HIDE DEF h, t
  <2>3. InFlight' = Numbers(h["receiver"].frames) \union Numbers(t["gui"])
                     \union Numbers(h["gui"].frames) \union Numbers(t["worker"])
                     \union Numbers(h["worker"].frames)
    BY <1>1, <2>1, <2>2
  <2> QED BY <2>3 DEF h, t
<1> QED BY <1>4, <1>5

\* Some frame on the way is the newest.
LEMMA NewestOf ==
  ASSUME NEW N \in Nat, NEW S, S \subseteq 0..N, S # {}
  PROVE  \E newest \in S : \A n \in S : n <= newest
<1> DEFINE D == {N - n : n \in S}
<1>1. D \subseteq Nat /\ D # {}
  <2>1. \A n \in S : N - n \in Nat
    BY SMT
  <2>2. D # {}
    OBVIOUS
  <2> QED BY <2>1, <2>2
<1>2. Min(D) \in D /\ \A y \in D : Min(D) <= y
  <2> HIDE DEF D
  <2> QED BY <1>1, MinOfIndices
<1>3. PICK newest \in S : Min(D) = N - newest
  BY <1>2
<1>4. \A n \in S : N - newest <= N - n
  BY <1>2, <1>3
<1> QED BY <1>4

\* What leaves the flight for a newer frame is superseded.
LEMMA FlightSuperseded ==
  ASSUME Types, Line,
         UNCHANGED <<dispatcher.running, gui, thread, accepted, reached, refusals>>,
         InFlight' \subseteq InFlight, InFlight # {},
         \A n \in InFlight : \E k \in InFlight' : n <= k
  PROVE  Channel!Supersede
<1>1. InFlight \subseteq 0..accepted[Camera] /\ accepted[Camera] \in Nat
  <2>1. /\ hop["receiver"].frames \subseteq Frame /\ emitting["gui"] \subseteq Frame
        /\ hop["gui"].frames \subseteq Frame /\ emitting["worker"] \subseteq Frame
        /\ hop["worker"].frames \subseteq Frame
    BY NamesDiffer DEF Types, Buffer
  <2>2. accepted[Camera] \in Nat
    BY BlurPathAssumption DEF Types
  <2>3. ASSUME NEW p, p \subseteq Frame, Behind(p, accepted, reached)
        PROVE  Numbers(p) \subseteq 0..accepted[Camera]
    <3>1. \A f \in p : f.n \in Nat
      BY <2>3, FrameFields
    <3> QED BY <2>2, <2>3, <3>1 DEF Numbers, Behind
  <2>4. /\ Behind(hop["receiver"].frames, accepted, reached) /\ Behind(emitting["gui"], accepted, reached)
        /\ Behind(hop["gui"].frames, accepted, reached) /\ Behind(emitting["worker"], accepted, reached)
        /\ Behind(hop["worker"].frames, accepted, reached)
    BY LineIsInLine DEF InLine
  <2>5. /\ Numbers(hop["receiver"].frames) \subseteq 0..accepted[Camera]
        /\ Numbers(emitting["gui"]) \subseteq 0..accepted[Camera]
        /\ Numbers(hop["gui"].frames) \subseteq 0..accepted[Camera]
        /\ Numbers(emitting["worker"]) \subseteq 0..accepted[Camera]
        /\ Numbers(hop["worker"].frames) \subseteq 0..accepted[Camera]
    BY <2>1, <2>3, <2>4
  <2> QED BY <2>2, <2>5, FlightOfPlaces
<1>2. PICK newest \in InFlight : \A n \in InFlight : n <= newest
  BY <1>1, NewestOf
<1>3. newest \in InFlight'
  <2>1. PICK k \in InFlight' : newest <= k
    BY <1>2
  <2>2. k \in InFlight /\ k <= newest
    BY <1>2
  <2>3. k = newest
    BY <1>1, <2>1, <2>2
  <2> QED BY <2>1, <2>3
<1>4. \E kept \in SUBSET InFlight : newest \in kept /\ InFlight' = kept
  BY <1>3
<1>5. UNCHANGED <<dispatcher.running /\ gui = "loop" /\ thread, accepted[Camera], reached, refusals>>
  OBVIOUS
<1> QED BY <1>2, <1>4, <1>5 DEF Channel!Supersede

\* A step that changes nothing the channel sees.
LEMMA ChannelStutters ==
  ASSUME UNCHANGED <<dispatcher.running, gui, thread, accepted, reached, refusals>>, InFlight' = InFlight
  PROVE  UNCHANGED Channel!vars
<1>1. UNCHANGED <<dispatcher.running /\ gui = "loop" /\ thread, accepted[Camera], reached, refusals>>
  OBVIOUS
<1> QED BY <1>1 DEF Channel!vars

\* A step that ends with the session down may lose frames.
LEMMA ChannelLoses ==
  ASSUME ~(dispatcher'.running /\ gui' = "loop" /\ thread'), InFlight' \subseteq InFlight,
         UNCHANGED <<accepted, reached, refusals>>
  PROVE  Channel!LoseWhenDown
<1>1. (dispatcher'.running /\ gui' = "loop" /\ thread') = FALSE
  OBVIOUS
<1>2. InFlight' \in SUBSET InFlight /\ UNCHANGED <<accepted[Camera], reached, refusals>>
  OBVIOUS
<1> QED BY <1>1, <1>2 DEF Channel!LoseWhenDown

\* The numbers of a place whose one frame of the camera is f, or that loses a
\* frame of another channel.
LEMMA NumbersOfOne ==
  ASSUME NEW p, NEW f \in p, f.ch = Camera, AtMostOne(p)
  PROVE  Numbers(p) = {f.n} /\ Numbers(p \ {f}) = {}
<1>1. {g \in p : g.ch = Camera} = {f} /\ {g \in p \ {f} : g.ch = Camera} = {}
  BY DEF AtMostOne
<1> QED BY <1>1 DEF Numbers

LEMMA NumbersOfOthers ==
  ASSUME NEW p, NEW q, {g \in p : g.ch = Camera} = {g \in q : g.ch = Camera}
  PROVE  Numbers(p) = Numbers(q)
BY DEF Numbers

\* A buffer emptied takes its numbers out of the flight.
LEMMA EmptiedFlight ==
  ASSUME Types, Types', NEW h \in Hops, hop' = [hop EXCEPT ![h] = EmptyBuffer], emitting' = emitting
  PROVE  InFlight' \subseteq InFlight
<1>1. Numbers({}) = {}
  BY DEF Numbers
<1>2. \A k \in Hops : Numbers(hop'[k].frames) \subseteq Numbers(hop[k].frames)
  <2>1. hop'[h].frames = {} /\ \A k \in Hops : k # h => hop'[k] = hop[k]
    BY HopEmptied
  <2>2. ASSUME NEW k \in Hops PROVE Numbers(hop'[k].frames) \subseteq Numbers(hop[k].frames)
    <3>1. CASE k = h
      BY <1>1, <2>1, <3>1
    <3>2. CASE k # h
      BY <2>1, <3>2
    <3> QED BY <3>1, <3>2
  <2> QED BY <2>2
<1>3. /\ Numbers(hop'["receiver"].frames) \subseteq Numbers(hop["receiver"].frames)
      /\ Numbers(hop'["gui"].frames) \subseteq Numbers(hop["gui"].frames)
      /\ Numbers(hop'["worker"].frames) \subseteq Numbers(hop["worker"].frames)
  BY <1>2, NamesDiffer
<1> QED BY <1>3, FlightOfPlaces

\* Every step of the path is a step of the channel, or nothing to it.
LEMMA ChannelNext == IInv /\ IInv' /\ [Next]_vars => [Channel!Next]_(Channel!vars)
<1> SUFFICES ASSUME IInv, IInv', [Next]_vars PROVE Channel!Next \/ UNCHANGED Channel!vars
  OBVIOUS
<1>0. Types /\ Types' /\ Line /\ Stopping
  BY DEF IInv
<1> DEFINE a == hop["receiver"].frames
           b == emitting["gui"]
           c == hop["gui"].frames
           d == emitting["worker"]
           e == hop["worker"].frames
           u == hop'["receiver"].frames
           v == emitting'["gui"]
           w == hop'["gui"].frames
           x == emitting'["worker"]
           y == hop'["worker"].frames
           S == InFlight
           T == InFlight'
<1>1. InLine(a, b, c, d, e, accepted, reached)
  BY <1>0, LineIsInLine
<1>2. /\ S = Numbers(a) \union Numbers(b) \union Numbers(c) \union Numbers(d) \union Numbers(e)
      /\ T = Numbers(u) \union Numbers(v) \union Numbers(w) \union Numbers(x) \union Numbers(y)
  BY <1>0, FlightOfPlaces
<1>3. Numbers({}) = {}
  BY DEF Numbers
<1>4. /\ a \subseteq CameraFrame /\ b \subseteq Frame /\ c \subseteq Frame
      /\ d \subseteq Frame /\ e \subseteq Frame
  BY <1>0, NamesDiffer DEF Types, Buffer
<1>5. accepted \in [Channels -> Nat] /\ reached \in Nat
  BY <1>0 DEF Types
<1>6. ASSUME UNCHANGED <<dispatcher.running, gui, thread, accepted, reached, refusals>>, T = S
      PROVE  UNCHANGED Channel!vars
  BY <1>6, ChannelStutters
<1>7. CASE UNCHANGED <<dispatcher.running, gui, thread, hop, emitting, accepted, reached, refusals>>
  <2>1. T = S
    BY <1>2, <1>7
  <2> QED BY <1>6, <1>7, <2>1
<1>8. ASSUME NEW m \in Published, NEW gap \in BOOLEAN, FrameArrives(m, gap)
      PROVE  Channel!Next \/ UNCHANGED Channel!vars
  <2> DEFINE n == accepted[m.ch] + 1
             f == Numbered(m, n)
  <2>1. /\ u = a /\ v = b /\ w = c /\ x = d
        /\ UNCHANGED <<dispatcher.running, gui, thread, reached, refusals>>
    BY <1>0, <1>8, FrameArrivesEffect DEF receiver
  <2>2. CASE UNCHANGED <<hop, accepted>>
    <3>1. T = S
      BY <1>2, <2>1, <2>2
    <3> QED BY <1>6, <2>1, <2>2, <3>1
  <2>3. CASE /\ n \in 1..MaxAccepted[m.ch]
             /\ accepted' = [accepted EXCEPT ![m.ch] = n]
             /\ y = {g \in e : g.ch # m.ch} \union {f}
    <3>1. f.ch = m.ch /\ f.n = n /\ m.ch \in Channels
      BY BlurPathAssumption DEF Numbered
    <3>2. CASE m.ch = Camera
      <4>1. Numbers(y) = {n}
        <5>1. {g \in y : g.ch = Camera} = {f}
          BY <2>3, <3>1, <3>2
        <5> QED BY <3>1, <5>1 DEF Numbers
      <4> DEFINE kept == Numbers(a) \union Numbers(b) \union Numbers(c) \union Numbers(d)
      <4>2. kept \in SUBSET S /\ T = kept \union {accepted[Camera] + 1}
        BY <1>2, <2>1, <3>2, <4>1
      <4>3. accepted[Camera] < MaxAccepted[Camera] /\ accepted'[Camera] = accepted[Camera] + 1
        <5>1. n = accepted[Camera] + 1 /\ n <= MaxAccepted[Camera]
          BY <2>3, <3>2
        <5>2. accepted[Camera] \in Nat /\ MaxAccepted[Camera] \in Nat
          BY <1>5, BlurPathAssumption
        <5>3. accepted'[Camera] = n
          BY <1>5, <2>3, <3>1, <3>2
        <5> HIDE DEF n
        <5> QED BY <5>1, <5>2, <5>3
      <4>4. UNCHANGED <<dispatcher.running /\ gui = "loop" /\ thread, reached, refusals>>
        BY <2>1
      <4>5. \E k \in SUBSET InFlight : InFlight' = k \union {accepted[Camera] + 1}
        BY <4>2
      <4>6. Channel!Accept
        BY <4>3, <4>4, <4>5 DEF Channel!Accept
      <4> QED BY <4>6 DEF Channel!Next
    <3>3. CASE m.ch # Camera
      <4>1. Numbers(y) = Numbers(e)
        <5>1. {g \in y : g.ch = Camera} = {g \in e : g.ch = Camera}
          BY <2>3, <3>1, <3>3
        <5> QED BY <5>1 DEF Numbers
      <4>2. T = S
        BY <1>2, <2>1, <4>1
      <4>3. accepted'[Camera] = accepted[Camera]
        BY <1>5, <2>3, <3>1, <3>3, BlurPathAssumption
      <4>4. UNCHANGED <<dispatcher.running /\ gui = "loop" /\ thread, accepted[Camera], InFlight,
                        reached, refusals>>
        BY <2>1, <4>2, <4>3
      <4> QED BY <4>4 DEF Channel!vars
    <3> QED BY <3>2, <3>3
  <2> QED BY <1>0, <1>8, <2>2, <2>3, FrameArrivesEffect
<1>9. CASE FlushTimerFires
  <2>1. u = a /\ w = c /\ y = {}
    BY <1>0, <1>9, NamesDiffer, HopEmptied DEF FlushTimerFires
  <2>2. x = e /\ v = b /\ d = {}
    BY <1>0, <1>9, NamesDiffer DEF FlushTimerFires, WorkerFree, Types
  <2>3. T = S
    <3> HIDE DEF a, b, c, d, e, u, v, w, x, y, S, T
    <3> QED BY <1>2, <1>3, <2>1, <2>2
  <2>4. UNCHANGED <<dispatcher.running, gui, thread, accepted, reached, refusals>>
    BY <1>0, <1>9 DEF FlushTimerFires, Types, receiver, counters
  <2> QED BY <1>6, <2>3, <2>4
<1>10. ASSUME NEW f \in emitting["worker"], WorkerHandsOn(f)
       PROVE  Channel!Next \/ UNCHANGED Channel!vars
  <2>1. f \in Frame /\ f \in d
    BY <1>4
  <2>2. u = a /\ y = e /\ w = {g \in c : g.ch # f.ch} \union {f}
    <3>1. hop' = [hop EXCEPT !["gui"] = Submitted(hop["gui"], f)]
      BY <1>0, <1>10, NamesDiffer DEF WorkerHandsOn, Types
    <3> QED BY <1>0, <2>1, <3>1, NamesDiffer, HopSubmitted
  <2>3. x = d \ {f} /\ v = b
    BY <1>0, <1>10, NamesDiffer DEF WorkerHandsOn, Types
  <2>4. UNCHANGED <<dispatcher.running, gui, thread, accepted, reached, refusals>>
    BY <1>10 DEF WorkerHandsOn, receiver, counters
  <2>5. /\ f.ch = Camera => Numbers(w) = {f.n} /\ Numbers(d) = {f.n} /\ Numbers(d \ {f}) = {}
        /\ f.ch # Camera => Numbers(w) = Numbers(c) /\ Numbers(d \ {f}) = Numbers(d)
    <3>1. AtMostOne(d) /\ AtMostOne(c)
      BY <1>1 DEF InLine
    <3>2. AtMostOne(w) /\ f \in w
      BY <2>2, <3>1 DEF AtMostOne
    <3>3. f.ch # Camera => /\ {g \in w : g.ch = Camera} = {g \in c : g.ch = Camera}
                           /\ {g \in d \ {f} : g.ch = Camera} = {g \in d : g.ch = Camera}
      BY <2>2
    <3> HIDE DEF a, b, c, d, e, u, v, w, x, y
    <3>4. CASE f.ch = Camera
      BY <2>1, <3>1, <3>2, <3>4, NumbersOfOne
    <3>5. CASE f.ch # Camera
      BY <3>3, <3>5, NumbersOfOthers
    <3> QED BY <3>4, <3>5
  <2>6. CASE f.ch # Camera
    <3>1. T = S
      <4> HIDE DEF a, b, c, d, e, u, v, w, x, y, S, T
      <4> QED BY <1>2, <2>2, <2>3, <2>5, <2>6
    <3> QED BY <1>6, <2>4, <3>1
  <2>7. CASE f.ch = Camera
    <3>1. \A n \in Numbers(c) : n <= f.n
      <4>1. \A g \in c : g.ch = Camera => g.n < f.n
        BY <1>1, <2>1, <2>7 DEF InLine, Ahead
      <4>2. \A g \in c : g.n \in Nat
        BY <1>4, FrameFields
      <4>3. f.n \in Nat
        BY <2>1, FrameFields
      <4> HIDE DEF c
      <4> QED BY <4>1, <4>2, <4>3 DEF Numbers
    <3>2. S \subseteq Int
      <4>1. ASSUME NEW p, p \subseteq Frame PROVE Numbers(p) \subseteq Int
        <5>1. \A g \in p : g.n \in Int
          BY <4>1, FrameFields
        <5> QED BY <5>1 DEF Numbers
      <4>2. a \subseteq Frame
        BY <1>4 DEF CameraFrame
      <4> QED BY <1>2, <1>4, <4>1, <4>2
    <3>3. T \subseteq S /\ S # {} /\ \A n \in S : \E k \in T : n <= k
      <4> HIDE DEF a, b, c, d, e, u, v, w, x, y, S, T
      <4>1. T = Numbers(a) \union Numbers(b) \union {f.n} \union Numbers(e)
        BY <1>2, <2>2, <2>3, <2>5, <2>7
      <4>2. S = Numbers(a) \union Numbers(b) \union Numbers(c) \union {f.n} \union Numbers(e)
        BY <1>2, <2>5, <2>7
      <4> QED BY <3>1, <3>2, <4>1, <4>2
    <3>4. Channel!Supersede
      BY <1>0, <2>4, <3>3, FlightSuperseded
    <3> QED BY <3>4 DEF Channel!Next
  <2> QED BY <2>6, <2>7
<1>11. ASSUME NEW t \in Emitters, PostRefused(t) PROVE Channel!Next
  <2>1. Target(t) \in Hops /\ hop' = [hop EXCEPT ![Target(t)] = EmptyBuffer] /\ emitting' = emitting
    BY <1>11 DEF PostRefused, Target, Hops
  <2>2. T \in SUBSET S
    BY <1>0, <2>1, EmptiedFlight
  <2>3. refusals < MaxRefusals /\ refusals' = refusals + 1
    BY <1>11 DEF PostRefused
  <2>4. UNCHANGED <<dispatcher.running /\ gui = "loop" /\ thread, accepted[Camera], reached>>
    BY <1>11 DEF PostRefused, receiver
  <2>5. Channel!Refuse
    BY <2>2, <2>3, <2>4 DEF Channel!Refuse
  <2> QED BY <2>5 DEF Channel!Next
<1>12. CASE GuiFlush
  <2>1. u = a /\ y = e /\ w = {}
    BY <1>0, <1>12, NamesDiffer, HopEmptied DEF GuiFlush
  <2>2. v = c /\ x = d /\ b = {}
    BY <1>0, <1>12, NamesDiffer DEF GuiFlush, GuiFree, Types
  <2>3. T = S
    <3> HIDE DEF a, b, c, d, e, u, v, w, x, y, S, T
    <3> QED BY <1>2, <1>3, <2>1, <2>2
  <2>4. UNCHANGED <<dispatcher.running, gui, thread, accepted, reached, refusals>>
    BY <1>12 DEF GuiFlush, receiver, counters
  <2> QED BY <1>6, <2>3, <2>4
<1>13. ASSUME NEW f \in emitting["gui"], GuiHandsOn(f)
       PROVE  Channel!Next \/ UNCHANGED Channel!vars
  <2>1. f \in Frame /\ f \in b
    BY <1>4
  <2>2. v = b \ {f} /\ x = d
    BY <1>0, <1>13, NamesDiffer DEF GuiHandsOn, Types
  <2>3. UNCHANGED <<dispatcher.running, gui, thread, accepted, reached, refusals>>
    BY <1>13 DEF GuiHandsOn, receiver, counters
  <2>4. CASE HasWorker(f)
    <3>1. f.ch = Camera /\ f \in CameraFrame
      BY <2>1, <2>4 DEF HasWorker, CameraFrame
    <3>2. w = c /\ y = e /\ u = {g \in a : g.ch # f.ch} \union {f}
      <4>1. hop' = [hop EXCEPT !["receiver"] = Submitted(hop["receiver"], f)]
        BY <1>0, <1>13, <2>4, NamesDiffer DEF GuiHandsOn, Types
      <4> QED BY <1>0, <2>1, <3>1, <4>1, NamesDiffer, HopSubmitted
    <3>3. Numbers(u) = {f.n} /\ Numbers(b) = {f.n} /\ Numbers(b \ {f}) = {}
      <4>1. AtMostOne(b) /\ AtMostOne(a)
        BY <1>1 DEF InLine
      <4>2. AtMostOne(u) /\ f \in u
        BY <3>2, <4>1 DEF AtMostOne
      <4> HIDE DEF a, b, c, d, e, u, v, w, x, y
      <4> QED BY <2>1, <3>1, <4>1, <4>2, NumbersOfOne
    <3>4. \A n \in Numbers(a) : n <= f.n
      <4>1. \A g \in a : g.ch = Camera => g.n < f.n
        BY <1>1, <2>1, <3>1 DEF InLine, Ahead
      <4>2. \A g \in a : g.n \in Nat
        BY <1>4, FrameFields DEF CameraFrame
      <4>3. f.n \in Nat
        BY <2>1, FrameFields
      <4> HIDE DEF a
      <4> QED BY <4>1, <4>2, <4>3 DEF Numbers
    <3>5. S \subseteq Int
      <4>1. ASSUME NEW p, p \subseteq Frame PROVE Numbers(p) \subseteq Int
        <5>1. \A g \in p : g.n \in Int
          BY <4>1, FrameFields
        <5> QED BY <5>1 DEF Numbers
      <4>2. a \subseteq Frame
        BY <1>4 DEF CameraFrame
      <4> QED BY <1>2, <1>4, <4>1, <4>2
    <3>6. T \subseteq S /\ S # {} /\ \A n \in S : \E k \in T : n <= k
      <4> HIDE DEF a, b, c, d, e, u, v, w, x, y, S, T
      <4>1. T = {f.n} \union Numbers(c) \union Numbers(d) \union Numbers(e)
        BY <1>2, <2>2, <3>2, <3>3
      <4>2. S = Numbers(a) \union {f.n} \union Numbers(c) \union Numbers(d) \union Numbers(e)
        BY <1>2, <3>3
      <4> QED BY <3>4, <3>5, <4>1, <4>2
    <3>7. Channel!Supersede
      BY <1>0, <2>3, <3>6, FlightSuperseded
    <3> QED BY <3>7 DEF Channel!Next
  <2>5. CASE ~HasWorker(f)
    <3>1. u = a /\ w = c /\ y = e
      BY <1>13, <2>5 DEF GuiHandsOn
    <3>2. CASE f.ch # Camera
      <4>1. Numbers(b \ {f}) = Numbers(b)
        <5>1. {g \in b \ {f} : g.ch = Camera} = {g \in b : g.ch = Camera}
          BY <3>2
        <5> QED BY <5>1 DEF Numbers
      <4>2. T = S
        <5> HIDE DEF a, b, c, d, e, u, v, w, x, y, S, T
        <5> QED BY <1>2, <2>2, <3>1, <4>1
      <4> QED BY <1>6, <2>3, <4>2
    <3>3. CASE f.ch = Camera
      <4>1. ~thread
        BY <2>5, <3>3 DEF HasWorker
      <4>2. Numbers(b \ {f}) \subseteq Numbers(b)
        BY DEF Numbers
      <4>3. T \subseteq S
        <5> HIDE DEF a, b, c, d, e, u, v, w, x, y, S, T
        <5> QED BY <1>2, <2>2, <3>1, <4>2
      <4>4. Channel!LoseWhenDown
        BY <2>3, <4>1, <4>3, ChannelLoses
      <4> QED BY <4>4 DEF Channel!Next
    <3> QED BY <3>2, <3>3
  <2> QED BY <2>4, <2>5
<1>14. CASE ServiceStop \/ GatewayStop \/ ServiceStopReturns \/ SessionStops
  <2>1. \E h \in Hops : hop' = [hop EXCEPT ![h] = EmptyBuffer]
    BY <1>14, NamesDiffer DEF ServiceStop, GatewayStop, ServiceStopReturns, SessionStops
  <2>2. emitting' = emitting /\ UNCHANGED <<accepted, reached, refusals>>
    BY <1>14 DEF ServiceStop, GatewayStop, ServiceStopReturns, SessionStops, counters
  <2>3. T \subseteq S
    BY <1>0, <2>1, <2>2, EmptiedFlight
  <2>4. ~(dispatcher'.running /\ gui' = "loop" /\ thread')
    BY <1>0, <1>14 DEF ServiceStop, GatewayStop, ServiceStopReturns, SessionStops, Stopping
  <2>5. Channel!LoseWhenDown
    BY <2>2, <2>3, <2>4, ChannelLoses
  <2> QED BY <2>5 DEF Channel!Next
<1>15. CASE DispatcherStarts \/ SessionStarts
  <2>1. UNCHANGED <<hop, emitting, accepted, reached, refusals>>
    BY <1>15 DEF DispatcherStarts, SessionStarts, path
  <2>2. T = S
    BY <1>2, <2>1
  <2>3. CASE (dispatcher'.running /\ gui' = "loop" /\ thread') = TRUE
    <3>1. UNCHANGED <<accepted[Camera], InFlight, reached, refusals>>
      BY <2>1, <2>2
    <3>2. Channel!ComeUp
      BY <2>3, <3>1 DEF Channel!ComeUp
    <3> QED BY <3>2 DEF Channel!Next
  <2>4. CASE ~(dispatcher'.running /\ gui' = "loop" /\ thread')
    <3>1. Channel!LoseWhenDown
      BY <2>1, <2>2, <2>4, ChannelLoses
    <3> QED BY <3>1 DEF Channel!Next
  <2> QED BY <2>3, <2>4
<1>16. ASSUME NEW gap \in BOOLEAN, ReceiverFlush(gap) PROVE Channel!Next \/ UNCHANGED Channel!vars
  <2>1. w = c /\ y = e /\ u = {}
    BY <1>0, <1>16, NamesDiffer, HopEmptied DEF ReceiverFlush
  <2>2. v = b /\ x = d
    BY <1>16 DEF ReceiverFlush
  <2>3. UNCHANGED <<dispatcher.running, gui, thread, accepted, refusals>>
    BY <1>16 DEF ReceiverFlush
  <2>4. CASE a = {}
    <3>1. reached' = reached
      BY <1>16, <2>4 DEF ReceiverFlush
    <3>2. T = S
      <4> HIDE DEF a, b, c, d, e, u, v, w, x, y, S, T
      <4> QED BY <1>2, <2>1, <2>2, <2>4
    <3> QED BY <1>6, <2>3, <3>1, <3>2
  <2>5. CASE a # {}
    <3>1. PICK f \in a : reached' = f.n
      BY <1>16, <2>5 DEF ReceiverFlush
    <3>2. f.ch = Camera /\ f \in Frame
      BY <1>4 DEF CameraFrame
    <3>3. Numbers(a) = {f.n}
      <4>1. AtMostOne(a)
        BY <1>1 DEF InLine
      <4>2. {g \in a : g.ch = Camera} = {f}
        BY <3>1, <3>2, <4>1 DEF AtMostOne
      <4> QED BY <4>2 DEF Numbers
    <3>4. f.n > reached /\ f.n \in Nat
      <4>1. reached < f.n
        BY <1>1, <3>1, <3>2 DEF InLine, Behind
      <4> QED BY <3>2, <4>1, FrameFields
    <3>5. ASSUME NEW p, p \subseteq Frame, Ahead(a, p) PROVE \A n \in Numbers(p) : n > f.n
      <4>1. \A g \in p : g.ch = Camera => f.n < g.n
        BY <3>1, <3>2, <3>5 DEF Ahead
      <4> QED BY <4>1 DEF Numbers
    <3>6. \A n \in Numbers(b) \union Numbers(c) \union Numbers(d) \union Numbers(e) : n > f.n
      <4>1. Ahead(a, b) /\ Ahead(a, c) /\ Ahead(a, d) /\ Ahead(a, e)
        BY <1>1 DEF InLine
      <4>2. \A n \in Numbers(b) : n > f.n
        BY <1>4, <3>5, <4>1
      <4>3. \A n \in Numbers(c) : n > f.n
        BY <1>4, <3>5, <4>1
      <4>4. \A n \in Numbers(d) : n > f.n
        BY <1>4, <3>5, <4>1
      <4>5. \A n \in Numbers(e) : n > f.n
        BY <1>4, <3>5, <4>1
      <4> QED BY <4>2, <4>3, <4>4, <4>5
    <3>7. f.n \in S /\ T = {n \in S : n > f.n}
      <4> HIDE DEF a, b, c, d, e, u, v, w, x, y, S, T
      <4>1. T = Numbers(b) \union Numbers(c) \union Numbers(d) \union Numbers(e)
        BY <1>2, <1>3, <2>1, <2>2
      <4>2. S = {f.n} \union Numbers(b) \union Numbers(c) \union Numbers(d) \union Numbers(e)
        BY <1>2, <3>3
      <4>3. ~(f.n > f.n)
        BY <3>4
      <4> QED BY <3>6, <4>1, <4>2, <4>3
    <3>8. \E n \in InFlight : n > reached /\ reached' = n /\ InFlight' = {k \in InFlight : k > n}
      BY <3>1, <3>4, <3>7
    <3>9. UNCHANGED <<dispatcher.running /\ gui = "loop" /\ thread, accepted[Camera], refusals>>
      BY <2>3
    <3>10. Channel!Deliver
      BY <3>8, <3>9 DEF Channel!Deliver
    <3> QED BY <3>10 DEF Channel!Next
  <2> QED BY <2>4, <2>5
<1> QED BY <1>7, <1>8, <1>9, <1>10, <1>11, <1>12, <1>13, <1>14, <1>15, <1>16
        DEF Next, vars, path, receiver, counters, Worker, Gui, Emitters, Posts,
            Teardown, PipelineStarts, BufferObserved

\* The three buffers in their three threads are one latest-value channel for the
\* camera: its newest frame is lost only by a stop or a refused post, and what the
\* processor is given was accepted later than what it had.  That a frame is
\* delivered at last is left to the model checker.
THEOREM ImplementsChannelSafety == Spec => Channel!Init /\ [][Channel!Next]_(Channel!vars)
<1>1. Init => Channel!Init
  <2> SUFFICES ASSUME Init PROVE Channel!Init
    OBVIOUS
  <2>1. Types
    BY InitTypes
  <2>2. InFlight = {}
    <3>1. /\ hop["receiver"].frames = {} /\ hop["gui"].frames = {} /\ hop["worker"].frames = {}
          /\ emitting["gui"] = {} /\ emitting["worker"] = {}
      BY NamesDiffer, EmptyIsBuffer DEF Init, Emitters, Hops
    <3>2. Numbers({}) = {}
      BY DEF Numbers
    <3> QED BY <2>1, <3>1, <3>2, FlightOfPlaces
  <2>3. /\ (dispatcher.running /\ gui = "loop" /\ thread) = FALSE
        /\ accepted[Camera] = 0 /\ reached = 0 /\ refusals = 0
    BY BlurPathAssumption DEF Init
  <2> QED BY <2>2, <2>3 DEF Channel!Init
<1>2. IInv /\ IInv' /\ [Next]_vars => [Channel!Next]_(Channel!vars)
  BY ChannelNext
<1> QED BY <1>1, <1>2, PathInvariant, PTL DEF Spec

-----------------------------------------------------------------------------
(* Pictures *)

LEMMA DistanceIs ==
  ASSUME NEW a \in Int, NEW b \in Int
  PROVE  Distance(a, b) = (IF a >= b THEN a - b ELSE b - a) /\ Distance(a, b) \in Int
<1>1. Distance(a, b) = IF a >= b THEN a - b ELSE b - a
  BY MaxOfTwo, MinOfTwo DEF Distance
<1> QED BY <1>1

\* A frame is near a time when their distance is within the tolerance.
LEMMA NearIs ==
  ASSUME NEW f, NEW t
  PROVE  Near(f, t) <=> Distance(f.ts, t) <= MatchTolerance
BY DEF Near, Distance

\* The frame before and the frame after a time, and the nearer of the two.
Before(h, t) == LowerBound(h, t) - 1

Nearest(h, t) ==
  IF LowerBound(h, t) \notin DOMAIN h THEN Before(h, t)
  ELSE IF Before(h, t) # 0 /\ BetterPrevious(h, Before(h, t), LowerBound(h, t), t) THEN Before(h, t)
  ELSE LowerBound(h, t)

\* Two neighbours are enough to find the nearest frame of an ordered history:
\* every other is farther, and one as far is later.
LEMMA NearestIsNearest ==
  ASSUME NEW h \in Seq(CameraFrame), Sorted(h), NEW t \in Int, h # <<>>
  PROVE  /\ Nearest(h, t) \in 1..Len(h)
         /\ \A i \in 1..Len(h) : i # Nearest(h, t) =>
              \/ Distance(h[Nearest(h, t)].ts, t) < Distance(h[i].ts, t)
              \/ /\ Distance(h[Nearest(h, t)].ts, t) = Distance(h[i].ts, t)
                 /\ h[Nearest(h, t)].ts < h[i].ts
<1>1. PICK n \in Nat \ {0} : n = Len(h)
  OBVIOUS
<1>2. DOMAIN h = 1..n /\ \A i \in 1..n : h[i] \in CameraFrame
  BY <1>1
<1>3. \A i \in 1..n : h[i].ts \in Int
  BY <1>2, FrameFields DEF CameraFrame
<1>4. \A i, j \in 1..n : i < j => h[i].ts < h[j].ts
  BY <1>2 DEF Sorted
<1>5. PICK p \in 1..(n + 1) : p = LowerBound(h, t)
  BY <1>1, LowerBoundSplits
<1>6. \A i \in 1..n : h[i].ts < t <=> i < p
  BY <1>1, <1>5, LowerBoundSplits
<1> DEFINE k == Nearest(h, t)
<1>7. k = IF p \notin 1..n THEN p - 1
          ELSE IF p - 1 # 0 /\ t - h[p - 1].ts <= h[p].ts - t THEN p - 1 ELSE p
  BY <1>2, <1>5 DEF Nearest, Before, BetterPrevious
<1>8. k \in 1..n
  BY <1>7
<1> HIDE DEF k
<1>9. ASSUME NEW i \in 1..n
      PROVE  Distance(h[i].ts, t) = IF h[i].ts >= t THEN h[i].ts - t ELSE t - h[i].ts
  <2>1. h[i].ts \in Int
    BY <1>3
  <2> QED BY <2>1, DistanceIs
<1>10. ASSUME NEW i \in 1..n, i # k
       PROVE  \/ Distance(h[k].ts, t) < Distance(h[i].ts, t)
              \/ /\ Distance(h[k].ts, t) = Distance(h[i].ts, t)
                 /\ h[k].ts < h[i].ts
  <2>1. h[i].ts \in Int /\ h[k].ts \in Int
    BY <1>3, <1>8
  <2>2. CASE i < p /\ k < p
    <3>1. k = p - 1 /\ i < k
      BY <1>7, <1>8, <1>10, <2>2
    <3>2. h[i].ts < h[k].ts /\ h[k].ts < t /\ h[i].ts < t
      BY <1>4, <1>6, <1>8, <2>2, <3>1
    <3> QED BY <1>8, <1>9, <2>1, <3>2
  <2>3. CASE ~(i < p) /\ ~(k < p)
    <3>1. k = p /\ k < i
      BY <1>7, <1>8, <1>10, <2>3
    <3>2. h[k].ts < h[i].ts /\ ~(h[k].ts < t) /\ ~(h[i].ts < t)
      BY <1>4, <1>6, <1>8, <2>3, <3>1
    <3> QED BY <1>8, <1>9, <2>1, <3>2
  <2>4. CASE i < p /\ ~(k < p)
    <3>1. k = p /\ p \in 1..n /\ p - 1 \in 1..n /\ ~(t - h[p - 1].ts <= h[p].ts - t)
      BY <1>7, <1>8, <2>4
    <3>2. h[i].ts <= h[p - 1].ts /\ h[p - 1].ts \in Int
      <4>1. i = p - 1 \/ i < p - 1
        BY <2>4
      <4> QED BY <1>3, <1>4, <3>1, <4>1
    <3>3. ~(h[k].ts < t) /\ h[i].ts < t
      BY <1>6, <1>8, <2>4
    <3>4. h[k].ts - t < t - h[i].ts
      <4>1. \A x, y, z \in Int : ~(t - y <= x - t) /\ z <= y => x - t < t - z
        OBVIOUS
      <4> QED BY <2>1, <3>1, <3>2, <4>1
    <3> QED BY <1>8, <1>9, <2>1, <3>3, <3>4
  <2>5. CASE ~(i < p) /\ k < p
    <3>1. k = p - 1 /\ p \in 1..n /\ t - h[k].ts <= h[p].ts - t
      BY <1>7, <1>8, <2>5
    <3>2. h[p].ts <= h[i].ts /\ h[p].ts \in Int
      <4>1. p = i \/ p < i
        BY <2>5
      <4> QED BY <1>3, <1>4, <3>1, <4>1
    <3>3. h[k].ts < t /\ ~(h[i].ts < t)
      BY <1>6, <1>8, <2>5
    <3>4. t - h[k].ts <= h[i].ts - t /\ h[k].ts < h[i].ts
      <4>1. \A x, y, z \in Int : t - x <= y - t /\ y <= z => t - x <= z - t
        OBVIOUS
      <4>2. \A x, z \in Int : x < t /\ ~(z < t) => x < z
        OBVIOUS
      <4> QED BY <2>1, <3>1, <3>2, <3>3, <4>1, <4>2
    <3> QED BY <1>8, <1>9, <2>1, <3>3, <3>4
  <2> QED BY <2>2, <2>3, <2>4, <2>5
<1> QED BY <1>1, <1>8, <1>10 DEF k

\* The frame whose boxes a picture gets, said without an order or a search.
Best(fs, t) == {f \in fs : \A g \in fs : \/ Distance(f.ts, t) < Distance(g.ts, t)
                                         \/ Distance(f.ts, t) = Distance(g.ts, t) /\ f.ts <= g.ts}

Covering(fs, t) == {f \in Best(fs, t) : Distance(f.ts, t) <= MatchTolerance}

Held(fs, t) == {f \in fs : f.ts < t /\ t - f.ts <= HoldLast /\ \A g \in fs : g.ts < t => g.ts <= f.ts}

Frames(h) == {h[i] : i \in DOMAIN h}

\* The best frame of a history is its nearest.
LEMMA BestIsNearest ==
  ASSUME NEW h \in Seq(CameraFrame), Sorted(h), NEW t \in Int, h # <<>>
  PROVE  Best(Frames(h), t) = {h[Nearest(h, t)]}
<1>1. PICK n \in Nat \ {0} : n = Len(h)
  OBVIOUS
<1>2. DOMAIN h = 1..n /\ \A i \in 1..n : h[i] \in CameraFrame
  BY <1>1
<1>3. \A i \in 1..n : h[i].ts \in Int
  BY <1>2, FrameFields DEF CameraFrame
<1>4. PICK k \in 1..n :
        /\ k = Nearest(h, t)
        /\ \A i \in 1..n : i # k =>
             \/ Distance(h[k].ts, t) < Distance(h[i].ts, t)
             \/ Distance(h[k].ts, t) = Distance(h[i].ts, t) /\ h[k].ts < h[i].ts
  BY <1>1, NearestIsNearest
<1>5. \A i \in 1..n : Distance(h[i].ts, t) \in Int
  <2>1. ASSUME NEW i \in 1..n PROVE Distance(h[i].ts, t) \in Int
    <3>1. h[i].ts \in Int
      BY <1>3
    <3> QED BY <3>1, DistanceIs
  <2> QED BY <2>1
<1>6. h[k] \in Best(Frames(h), t)
  <2>1. \A i \in 1..n : \/ Distance(h[k].ts, t) < Distance(h[i].ts, t)
                        \/ Distance(h[k].ts, t) = Distance(h[i].ts, t) /\ h[k].ts <= h[i].ts
    BY <1>3, <1>4, <1>5
  <2> QED BY <1>2, <1>4, <2>1 DEF Best, Frames
<1>7. ASSUME NEW f \in Best(Frames(h), t) PROVE f = h[k]
  <2>1. PICK i \in 1..n : f = h[i]
    BY <1>2 DEF Best, Frames
  <2>2. \/ Distance(h[i].ts, t) < Distance(h[k].ts, t)
        \/ Distance(h[i].ts, t) = Distance(h[k].ts, t) /\ h[i].ts <= h[k].ts
    BY <1>2, <1>4, <2>1 DEF Best, Frames
  <2>3. i = k
    BY <1>3, <1>4, <1>5, <2>2
  <2> QED BY <2>1, <2>3
<1> QED BY <1>4, <1>6, <1>7

\* What may be held is the last frame before, while it is young enough.
LEMMA HeldIsBefore ==
  ASSUME NEW h \in Seq(CameraFrame), Sorted(h), NEW t \in Int
  PROVE  /\ Before(h, t) \in 0..Len(h)
         /\ Held(Frames(h), t) = IF Before(h, t) # 0 /\ t - h[Before(h, t)].ts <= HoldLast
                                   THEN {h[Before(h, t)]} ELSE {}
         /\ Before(h, t) # 0 => h[Before(h, t)].ts < t
<1>1. PICK n \in Nat : n = Len(h)
  OBVIOUS
<1>2. DOMAIN h = 1..n /\ \A i \in 1..n : h[i] \in CameraFrame
  BY <1>1
<1>3. \A i \in 1..n : h[i].ts \in Int
  BY <1>2, FrameFields DEF CameraFrame
<1>4. \A i, j \in 1..n : i < j => h[i].ts < h[j].ts
  BY <1>2 DEF Sorted
<1>5. PICK p \in 1..(n + 1) : p = LowerBound(h, t)
  BY <1>1, LowerBoundSplits
<1>6. \A i \in 1..n : h[i].ts < t <=> i < p
  BY <1>1, <1>5, LowerBoundSplits
<1>7. PICK k \in 0..n : k = Before(h, t) /\ k = p - 1
  BY <1>5 DEF Before
<1>8. \A i \in 1..n : h[i].ts < t <=> i <= k
  BY <1>6, <1>7
<1>9. Frames(h) = {h[i] : i \in 1..n}
  BY <1>2 DEF Frames
<1>10. CASE k = 0
  <2>1. \A f \in Frames(h) : ~(f.ts < t)
    BY <1>8, <1>9, <1>10
  <2>2. Held(Frames(h), t) = {}
    BY <2>1 DEF Held
  <2> QED BY <1>1, <1>7, <1>10, <2>2
<1>11. CASE k # 0
  <2>1. k \in 1..n /\ h[k].ts < t /\ h[k] \in Frames(h)
    BY <1>8, <1>9, <1>11
  <2>2. \A i \in 1..n : h[i].ts < t => h[i].ts <= h[k].ts
    <3>1. ASSUME NEW i \in 1..n, h[i].ts < t PROVE h[i].ts <= h[k].ts
      <4>1. i = k \/ i < k
        BY <1>8, <3>1
      <4> QED BY <1>3, <1>4, <2>1, <4>1
    <3> QED BY <3>1
  <2>3. \A g \in Frames(h) : g.ts < t => g.ts <= h[k].ts
    BY <1>9, <2>2
  <2>4. t - h[k].ts <= HoldLast => h[k] \in Held(Frames(h), t)
    BY <2>1, <2>3 DEF Held
  <2>5. ASSUME NEW f \in Held(Frames(h), t) PROVE f = h[k] /\ t - h[k].ts <= HoldLast
    <3>1. f \in Frames(h) /\ f.ts < t /\ t - f.ts <= HoldLast /\ h[k].ts <= f.ts
      BY <2>1, <2>5 DEF Held
    <3>2. PICK i \in 1..n : f = h[i]
      BY <1>9, <3>1
    <3>3. i <= k
      BY <1>8, <3>1, <3>2
    <3>4. ~(i < k)
      <4>1. h[i].ts \in Int /\ h[k].ts \in Int /\ h[k].ts <= h[i].ts
        BY <1>3, <2>1, <3>1, <3>2
      <4> QED BY <1>4, <2>1, <4>1
    <3>5. i = k
      BY <3>3, <3>4
    <3> QED BY <3>1, <3>2, <3>5
  <2>6. Held(Frames(h), t) = IF t - h[k].ts <= HoldLast THEN {h[k]} ELSE {}
    BY <2>4, <2>5
  <2> QED BY <1>1, <1>7, <1>11, <2>1, <2>6
<1> QED BY <1>10, <1>11

\* The search of regionsFor() finds the frame that the metadata has for a time.
Chosen(fs, t) == IF Covering(fs, t) # {} THEN Covering(fs, t) ELSE Held(fs, t)

LEMMA ChosenIsSelected ==
  ASSUME NEW h \in Seq(CameraFrame), Sorted(h), NEW t \in Int
  PROVE  /\ SelectedIndex(h, t) \in 0..Len(h)
         /\ Chosen(Frames(h), t) = IF SelectedIndex(h, t) = 0 THEN {} ELSE {h[SelectedIndex(h, t)]}
         /\ SelectedIndex(h, t) # 0 =>
              \/ Distance(h[SelectedIndex(h, t)].ts, t) <= MatchTolerance
              \/ t - h[SelectedIndex(h, t)].ts \in 0..HoldLast
<1>1. PICK n \in Nat : n = Len(h)
  OBVIOUS
<1>2. DOMAIN h = 1..n /\ (h = <<>> <=> n = 0) /\ \A i \in 1..n : h[i] \in CameraFrame
  BY <1>1
<1>3. \A i \in 1..n : h[i].ts \in Int
  BY <1>2, FrameFields DEF CameraFrame
<1>4. PICK b \in 0..n : b = Before(h, t)
  BY <1>1, HeldIsBefore
<1>5. /\ Held(Frames(h), t) = IF b # 0 /\ t - h[b].ts <= HoldLast THEN {h[b]} ELSE {}
      /\ b # 0 => h[b].ts < t
  BY <1>4, HeldIsBefore
<1>6. PICK m \in 0..n : /\ m = Nearest(h, t)
                        /\ Best(Frames(h), t) = IF m = 0 THEN {} ELSE {h[m]}
  <2>1. CASE n = 0
    <3>1. LowerBound(h, t) = 1
      <4>1. LowerBound(h, t) \in 1..(Len(h) + 1)
        BY LowerBoundSplits
      <4>2. Len(h) = 0
        BY <1>1, <2>1
      <4> QED BY <4>1, <4>2
    <3>2. Nearest(h, t) = 0
      BY <1>2, <2>1, <3>1 DEF Nearest, Before
    <3>3. Frames(h) = {}
      BY <1>2, <2>1 DEF Frames
    <3>4. Best(Frames(h), t) = {}
      BY <3>3 DEF Best
    <3> QED BY <3>2, <3>4
  <2>2. CASE n # 0
    <3>1. h # <<>>
      BY <1>2, <2>2
    <3>2. Nearest(h, t) \in 1..n
      BY <1>1, <3>1, NearestIsNearest
    <3>3. Best(Frames(h), t) = {h[Nearest(h, t)]}
      BY <3>1, BestIsNearest
    <3> QED BY <3>2, <3>3
  <2> QED BY <2>1, <2>2
<1> DEFINE near == m # 0 /\ Distance(h[m].ts, t) <= MatchTolerance
           held == b # 0 /\ t - h[b].ts <= HoldLast
           k == SelectedIndex(h, t)
<1>7. k = IF near THEN m ELSE IF held THEN b ELSE 0
  <2>1. k = IF m # 0 /\ Near(h[m], t) THEN m ELSE IF b # 0 /\ t - h[b].ts <= HoldLast THEN b ELSE 0
    BY <1>4, <1>6 DEF SelectedIndex, Nearest, Before
  <2>2. Near(h[m], t) <=> Distance(h[m].ts, t) <= MatchTolerance
    BY NearIs
  <2> HIDE DEF k
  <2> QED BY <2>1, <2>2
<1> HIDE DEF k
<1>8. Covering(Frames(h), t) = IF near THEN {h[m]} ELSE {}
  <2>1. CASE m = 0
    BY <1>6, <2>1 DEF Covering
  <2>2. CASE m # 0
    BY <1>6, <2>2 DEF Covering
  <2> QED BY <2>1, <2>2
<1>9. Chosen(Frames(h), t) = IF near THEN {h[m]} ELSE IF held THEN {h[b]} ELSE {}
  BY <1>5, <1>8 DEF Chosen
<1>10. b # 0 /\ t - h[b].ts <= HoldLast => t - h[b].ts \in 0..HoldLast
  <2> SUFFICES ASSUME b # 0, t - h[b].ts <= HoldLast PROVE t - h[b].ts \in 0..HoldLast
    OBVIOUS
  <2>1. h[b].ts \in Int /\ h[b].ts < t /\ HoldLast \in Nat
    BY <1>3, <1>5, BlurTimelineAssumption
  <2>2. \A x \in Int : x < t /\ t - x <= HoldLast => t - x \in 0..HoldLast
    BY <2>1
  <2> QED BY <2>1, <2>2
<1>11. CASE near
  BY <1>1, <1>7, <1>9, <1>11 DEF k
<1>12. CASE ~near /\ held
  BY <1>1, <1>7, <1>9, <1>10, <1>12 DEF k
<1>13. CASE ~near /\ ~held
  BY <1>1, <1>7, <1>9, <1>13 DEF k
<1> QED BY <1>11, <1>12, <1>13

\* What regionsFor() draws: the boxes of the chosen frame, each placed from
\* frames that have it and that the time is near to or that may be held.
LEMMA RegionsOfChosen ==
  ASSUME NEW h \in Seq(CameraFrame), Sorted(h), NEW t \in Int, NEW enabled
  PROVE  /\ {r.box : r \in RegionsFor(h, t, enabled)}
              = (UNION {f.boxes : f \in Chosen(Frames(h), t)}) \intersect enabled
         /\ \A r \in RegionsFor(h, t, enabled) : \A ts \in r.from :
              /\ \E f \in Frames(h) : f.ts = ts /\ r.box \in f.boxes
              /\ Distance(ts, t) <= MatchTolerance \/ t - ts \in 0..HoldLast
<1>1. PICK n \in Nat : n = Len(h)
  OBVIOUS
<1>2. DOMAIN h = 1..n
  BY <1>1
<1>3. PICK k \in 0..n : k = SelectedIndex(h, t)
  BY <1>1, ChosenIsSelected
<1>4. /\ Chosen(Frames(h), t) = IF k = 0 THEN {} ELSE {h[k]}
      /\ k # 0 => Distance(h[k].ts, t) <= MatchTolerance \/ t - h[k].ts \in 0..HoldLast
  BY <1>3, ChosenIsSelected
<1> DEFINE between == Between(h, t)
           Both(box) == between # {} /\ \A f \in between : box \in f.boxes
           From(box) == IF Both(box) THEN {f.ts : f \in between} ELSE {h[k].ts}
           regions == RegionsFor(h, t, enabled)
<1>5. regions = IF k = 0 THEN {}
                ELSE {[box |-> box, from |-> From(box)] : box \in h[k].boxes \intersect enabled}
  BY <1>3 DEF RegionsFor
<1>6. \A f \in between : f \in Frames(h) /\ Distance(f.ts, t) <= MatchTolerance
  <2> DEFINE after == LowerBound(h, t)
  <2>1. after \in 1..(n + 1)
    BY <1>1, LowerBoundSplits
  <2>2. between = IF after \in 1..n /\ after > 1 /\ Near(h[after], t) /\ Near(h[after - 1], t)
                    THEN {h[after - 1], h[after]} ELSE {}
    BY <1>2 DEF Between
  <2> HIDE DEF after, between
  <2>3. CASE after \in 1..n /\ after > 1 /\ Near(h[after], t) /\ Near(h[after - 1], t)
    <3>1. h[after] \in Frames(h) /\ h[after - 1] \in Frames(h)
      <4>1. after - 1 \in 1..n
        BY <2>3
      <4> QED BY <1>2, <2>3, <4>1 DEF Frames
    <3>2. Distance(h[after].ts, t) <= MatchTolerance /\ Distance(h[after - 1].ts, t) <= MatchTolerance
      BY <2>3, NearIs
    <3> QED BY <2>2, <2>3, <3>1, <3>2
  <2>4. CASE ~(after \in 1..n /\ after > 1 /\ Near(h[after], t) /\ Near(h[after - 1], t))
    BY <2>2, <2>4
  <2> QED BY <2>3, <2>4
<1> HIDE DEF between, regions
<1>7. CASE k = 0
  BY <1>4, <1>5, <1>7 DEF regions
<1>8. CASE k # 0
  <2>1. h[k] \in Frames(h)
    BY <1>2, <1>8 DEF Frames
  <2>2. regions = {[box |-> box, from |-> From(box)] : box \in h[k].boxes \intersect enabled}
    BY <1>5, <1>8
  <2>3. {r.box : r \in regions} = h[k].boxes \intersect enabled
    <3>1. ASSUME NEW r \in regions PROVE r.box \in h[k].boxes \intersect enabled
      <4>1. PICK box \in h[k].boxes \intersect enabled : r = [box |-> box, from |-> From(box)]
        BY <2>2
      <4> QED BY <4>1
    <3>2. ASSUME NEW box \in h[k].boxes \intersect enabled PROVE box \in {r.box : r \in regions}
      <4> DEFINE r == [box |-> box, from |-> From(box)]
      <4>1. r \in regions /\ r.box = box
        <5> HIDE DEF From
        <5> QED BY <2>2
      <4> QED BY <4>1
    <3> HIDE DEF From
    <3> QED BY <3>1, <3>2
  <2>4. UNION {f.boxes : f \in Chosen(Frames(h), t)} = h[k].boxes
    BY <1>4, <1>8
  <2>5. ASSUME NEW r \in regions, NEW ts \in r.from
        PROVE  /\ \E f \in Frames(h) : f.ts = ts /\ r.box \in f.boxes
               /\ Distance(ts, t) <= MatchTolerance \/ t - ts \in 0..HoldLast
    <3>1. PICK box \in h[k].boxes : r.box = box /\ r.from = From(box)
      <4> HIDE DEF From
      <4> QED BY <2>2, <2>5
    <3>2. CASE Both(box)
      <4>1. PICK f \in between : ts = f.ts
        BY <2>5, <3>1, <3>2
      <4> QED BY <1>6, <3>1, <3>2, <4>1
    <3>3. CASE ~Both(box)
      <4>1. ts = h[k].ts
        BY <2>5, <3>1, <3>3
      <4> QED BY <1>4, <1>8, <2>1, <3>1, <4>1
    <3> QED BY <3>2, <3>3
  <2> QED BY <2>3, <2>4, <2>5 DEF regions
<1> QED BY <1>7, <1>8

\* The boxes drawn on a picture are those the metadata has for the time it was
\* taken, from the session's own clock (BlurProcessor::regionsFor() and
\* VideoUtcClockMapper::timestampFor()).
THEOREM PicturesInvariant == Spec => []PicturesMatch
<1>1. IInv => PicturesMatch
  <2> SUFFICES ASSUME IInv, playing, mapper.ready, NEW taken \in Taken
               PROVE  LET h == Frames(processor.history)
                          t == TimeOf(taken)
                          best == Best(h, t)
                          covering == Covering(h, t)
                          held == Held(h, t)
                          chosen == Chosen(h, t)
                      IN /\ t = taken \/ (~mapper.sender /\ \E d \in Delays : t = taken + d - SyncOffset)
                         /\ \A enabled \in SUBSET Boxes :
                              /\ {r.box : r \in Drawn(taken, enabled)}
                                   = (UNION {f.boxes : f \in chosen}) \intersect enabled
                              /\ \A r \in Drawn(taken, enabled) : \A ts \in r.from :
                                   /\ \E f \in h : f.ts = ts /\ r.box \in f.boxes
                                   /\ Distance(ts, t) <= MatchTolerance \/ t - ts \in 0..HoldLast
    BY DEF PicturesMatch, Frames, Best, Covering, Held, Chosen
  <2> DEFINE h == processor.history
             t == TimeOf(taken)
  <2>1. Types /\ Clock
    BY DEF IInv
  <2>2. h \in Seq(CameraFrame) /\ Sorted(h)
    BY <2>1 DEF Types, Timeline
  <2>3. /\ taken \in Int /\ base \in Int /\ mapper.offset \in Int /\ SyncOffset \in Int
        /\ \A d \in Delays : d \in Int
    BY <2>1, BlurPathAssumption, BlurTimelineAssumption DEF Types
  <2>4. t = taken - base + mapper.offset - (IF mapper.sender THEN 0 ELSE SyncOffset)
    BY DEF TimeOf, PictureTime
  <2> HIDE DEF h, t
  <2>5. t \in Int
    BY <2>3, <2>4
  <2>6. t = taken \/ (~mapper.sender /\ \E d \in Delays : t = taken + d - SyncOffset)
    <3>1. CASE mapper.sender
      <4>1. mapper.offset = base
        BY <2>1, <3>1 DEF Clock
      <4> QED BY <2>3, <2>4, <3>1, <4>1
    <3>2. CASE ~mapper.sender
      <4>1. PICK d \in Delays : mapper.offset = base + d
        BY <2>1, <3>2 DEF Clock
      <4>2. t = taken + d - SyncOffset
        BY <2>3, <2>4, <3>2, <4>1
      <4> QED BY <3>2, <4>2
    <3> QED BY <3>1, <3>2
  <2>7. ASSUME NEW enabled \in SUBSET Boxes
        PROVE  /\ {r.box : r \in Drawn(taken, enabled)}
                    = (UNION {f.boxes : f \in Chosen(Frames(h), t)}) \intersect enabled
               /\ \A r \in Drawn(taken, enabled) : \A ts \in r.from :
                    /\ \E f \in Frames(h) : f.ts = ts /\ r.box \in f.boxes
                    /\ Distance(ts, t) <= MatchTolerance \/ t - ts \in 0..HoldLast
    <3>1. Drawn(taken, enabled) = RegionsFor(h, t, enabled)
      BY DEF Drawn, h, t
    <3> QED BY <2>2, <2>5, <3>1, RegionsOfChosen
  <2> QED BY <2>6, <2>7 DEF h, t
<1> QED BY <1>1, PathInvariant, PTL

=============================================================================
