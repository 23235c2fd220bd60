---------------------- MODULE HistoricalBackfill_proofs ----------------------
(* What the historical backfill guarantees for any events, range, limits and  *)
(* number of invocations, failing and dying wherever they may; when no slice  *)
(* is requested again; and how many steps a command may take.                 *)
EXTENDS HistoricalBackfill, SequenceTheorems, FiniteSetTheorems, WellFoundedInduction, TLAPS

-----------------------------------------------------------------------------
(* The inductive invariant                                                    *)

\* The intervals of s lie one after the other in [0, x), and every instant of
\* it is in one of them.
Partition(s, x) ==
    /\ s \in Seq(Interval)
    /\ \A k \in 1 .. Len(s) : s[k][2] <= x
    /\ \A j, k \in 1 .. Len(s) : j < k => s[j][2] <= s[k][1]
    /\ \A t \in 0 .. x - 1 : \E k \in 1 .. Len(s) : s[k][1] <= t /\ t < s[k][2]

Pieces == slices \o agenda
PlanInv == starts > 0 => end \in Nat \ {0} /\ Partition(Pieces, end)

\* What an early event of a range recorded as ingested is: in the catalog.
IngestedInv ==
    /\ Early \subseteq published
    /\ \A w \in rows : w.status = "succeeded" =>
          InSlice(<<w.lo, w.hi>>) \cap Early \subseteq catalog

\* One row per interval.
KeyInv == \A w, x \in rows : w.lo = x.lo /\ w.hi = x.hi => w = x

\* The slices dealt with so far have their rows; what is reported as failed is
\* among them.
Loop == {"checking", "fetching", "recording", "failing", "done"}
Truthful(k) ==
    \E w \in RowOf(slices[k]) : w.status = IF slices[k] \in Reported THEN "failed" ELSE "succeeded"
LoopInv ==
    /\ pc # "idle" => starts > 0
    /\ pc \in Loop =>
        /\ agenda = <<>> /\ current \in 1 .. Len(slices) + 1
        /\ \A k \in 1 .. current - 1 : Truthful(k)
        /\ \A i \in Reported : \E k \in 1 .. current - 1 : i = slices[k]
    /\ pc \in {"fetching", "recording", "failing"} => current <= Len(slices)
    /\ pc = "recording" => InSlice(Slice) \cap Early \subseteq catalog
    /\ pc = "done" => current = Len(slices) + 1

\* The counters, as long as the session can be used; a broken one never
\* returns.
CountInv ==
    /\ session = "broken" => pc \in {"fetching", "failing", "aborted", "crashed"}
    /\ pc = "planning" => current = 1 /\ succeeded = 0 /\ skipped = 0 /\ failed = <<>>
    /\ pc \in {"checking", "fetching", "failing", "done"} /\ session = "usable" =>
          current - 1 = succeeded + skipped + Len(failed)
    /\ pc = "recording" => current = succeeded + skipped + Len(failed)

IInv == TypeOK /\ PlanInv /\ IngestedInv /\ KeyInv /\ LoopInv /\ CountInv

-----------------------------------------------------------------------------
(* Sequences                                                                  *)

\* The first interval to count is a piece: after the leaves.
LEMMA PieceAt ==
    ASSUME NEW s \in Seq(Interval), NEW a \in Seq(Interval)
    PROVE  /\ s \o a \in Seq(Interval)
           /\ Len(s \o a) = Len(s) + Len(a) /\ Len(s) \in Nat /\ Len(a) \in Nat
           /\ \A k \in 1 .. Len(s) : (s \o a)[k] = s[k]
           /\ \A k \in 1 .. Len(a) : (s \o a)[Len(s) + k] = a[k]
<1>1. /\ s \o a \in Seq(Interval)
      /\ Len(s \o a) = Len(s) + Len(a)
      /\ \A i \in 1 .. Len(s) + Len(a) : (s \o a)[i] = IF i <= Len(s) THEN s[i] ELSE a[i - Len(s)]
  BY ConcatProperties
<1>2. Len(s) \in Nat /\ Len(a) \in Nat
  BY LenProperties
<1>3. QED
  BY <1>1, <1>2

\* A leaf moves from the agenda to the slices: the pieces stay.
LEMMA KeepPiece ==
    ASSUME NEW s \in Seq(Interval), NEW a \in Seq(Interval), a # <<>>
    PROVE  Append(s, Head(a)) \o Tail(a) = s \o a
<1>0. Head(a) \in Interval /\ Tail(a) \in Seq(Interval)
  BY HeadTailProperties
<1>1. a = <<Head(a)>> \o Tail(a)
  <2>1. Len(a) \in Nat \ {0}
    BY EmptySeq
  <2>2. SubSeq(a, 1, Len(a)) = << a[1] >> \o SubSeq(a, 2, Len(a))
    BY <2>1, SubSeqRecursiveFirst
  <2>3. QED
    BY <2>2, SubSeqFull, TailIsSubSeq
<1>2. Append(s, Head(a)) = s \o <<Head(a)>> /\ <<Head(a)>> \in Seq(Interval)
  BY <1>0, AppendIsConcat
<1>3. QED
  BY <1>0, <1>1, <1>2, ConcatAssociative

\* The first interval is replaced by two: one piece more, the others move.
LEMMA SplitPiece ==
    ASSUME NEW s \in Seq(Interval), NEW a \in Seq(Interval), a # <<>>,
           NEW i \in Interval, NEW j \in Interval
    PROVE  LET b == <<i, j>> \o Tail(a)
               n == Len(s) + 1
           IN  /\ b \in Seq(Interval) /\ s \o b \in Seq(Interval)
               /\ n \in 1 .. Len(s \o a) /\ (s \o a)[n] = Head(a)
               /\ Len(s \o b) = Len(s \o a) + 1
               /\ \A k \in 1 .. n - 1 : (s \o b)[k] = (s \o a)[k]
               /\ (s \o b)[n] = i /\ (s \o b)[n + 1] = j
               /\ \A k \in n + 2 .. Len(s \o b) : (s \o b)[k] = (s \o a)[k - 1]
<1> DEFINE b == <<i, j>> \o Tail(a)
<1>1. /\ Tail(a) \in Seq(Interval) /\ Len(Tail(a)) = Len(a) - 1 /\ Len(a) \in Nat \ {0}
      /\ \A k \in 1 .. Len(Tail(a)) : Tail(a)[k] = a[k + 1]
  BY HeadTailProperties, EmptySeq
<1>2. <<i, j>> \in Seq(Interval) /\ Len(<<i, j>>) = 2
  OBVIOUS
<1>3. /\ b \in Seq(Interval) /\ Len(b) = Len(a) + 1 /\ b[1] = i /\ b[2] = j
      /\ \A k \in 3 .. Len(b) : b[k] = a[k - 1]
  <2>1. /\ b \in Seq(Interval) /\ Len(b) = 2 + Len(Tail(a))
        /\ \A k \in 1 .. 2 + Len(Tail(a)) : b[k] = IF k <= 2 THEN <<i, j>>[k] ELSE Tail(a)[k - 2]
    BY <1>1, <1>2, ConcatProperties
  <2>2. QED
    BY <1>1, <2>1
<1> HIDE DEF b
<1>4. /\ s \o b \in Seq(Interval) /\ Len(s \o b) = Len(s) + Len(b) /\ Len(s) \in Nat
      /\ \A k \in 1 .. Len(s) + Len(b) : (s \o b)[k] = IF k <= Len(s) THEN s[k] ELSE b[k - Len(s)]
  BY <1>3, ConcatProperties, LenProperties
<1>5. /\ Len(s \o a) = Len(s) + Len(a)
      /\ \A k \in 1 .. Len(s) + Len(a) : (s \o a)[k] = IF k <= Len(s) THEN s[k] ELSE a[k - Len(s)]
  BY ConcatProperties
<1>6. Head(a) = a[1]
  OBVIOUS
<1>7. \A k \in Len(s) + 3 .. Len(s \o b) : (s \o b)[k] = (s \o a)[k - 1]
  <2> SUFFICES ASSUME NEW k \in Len(s) + 3 .. Len(s \o b) PROVE (s \o b)[k] = (s \o a)[k - 1]
    OBVIOUS
  <2>1. (s \o b)[k] = b[k - Len(s)] /\ k - Len(s) \in 3 .. Len(b)
    BY <1>1, <1>3, <1>4
  <2>2. k - 1 \in 1 .. Len(s) + Len(a) /\ (s \o a)[k - 1] = a[k - Len(s) - 1]
    BY <1>1, <1>3, <1>4, <1>5
  <2>3. QED
    BY <1>3, <2>1, <2>2
<1>8. QED
  BY <1>1, <1>3, <1>4, <1>5, <1>6, <1>7 DEF b

\* The ends of the intervals of a sequence.
LEMMA PieceType ==
    ASSUME NEW s \in Seq(Interval)
    PROVE  /\ Len(s) \in Nat
           /\ \A k \in 1 .. Len(s) : s[k][1] \in Nat /\ s[k][2] \in Nat /\ s[k][1] < s[k][2]
<1>1. \A k \in 1 .. Len(s) : s[k] \in Interval
  BY ElementOfSeq
<1>2. \A i \in Interval : i[1] \in Nat /\ i[2] \in Nat /\ i[1] < i[2]
  BY DEF Interval
<1>3. QED
  BY <1>1, <1>2, LenProperties

-----------------------------------------------------------------------------
(* Partitions                                                                 *)

\* r is s with its n-th interval cut at m.
Splits(r, s, n, m) ==
    /\ Len(r) = Len(s) + 1
    /\ \A k \in 1 .. n - 1 : r[k] = s[k]
    /\ r[n] = <<s[n][1], m>> /\ r[n + 1] = <<m, s[n][2]>>
    /\ \A k \in n + 2 .. Len(r) : r[k] = s[k - 1]

\* Bisecting one interval of a partition gives a partition.
LEMMA Bisected ==
    ASSUME NEW x \in Nat \ {0}, NEW s, Partition(s, x), NEW r, r \in Seq(Interval),
           NEW n \in 1 .. Len(s), NEW m \in Nat, s[n][1] < m /\ m < s[n][2],
           Splits(r, s, n, m)
    PROVE  Partition(r, x)
<1> DEFINE old(i) == IF i <= n THEN i ELSE i - 1
<1>0. Len(s) \in Nat /\ Len(r) = Len(s) + 1 /\ \A k \in 1 .. Len(s) : s[k][1] \in Nat /\ s[k][2] \in Nat
  BY PieceType DEF Partition, Splits
<1>1. \A k \in 1 .. Len(s) : s[k][2] <= x
  BY DEF Partition
<1>2. \A j, k \in 1 .. Len(s) : j < k => s[j][2] <= s[k][1]
  BY DEF Partition
<1>3. \A t \in 0 .. x - 1 : \E k \in 1 .. Len(s) : s[k][1] <= t /\ t < s[k][2]
  BY DEF Partition
<1>4. ASSUME NEW i \in 1 .. Len(r)
      PROVE  /\ old(i) \in 1 .. Len(s)
             /\ s[old(i)][1] <= r[i][1] /\ r[i][2] <= s[old(i)][2]
             /\ r[i][1] \in Nat /\ r[i][2] \in Nat
  <2>1. old(i) \in 1 .. Len(s)
    BY <1>0
  <2>2. CASE i < n
    <3>1. i \in 1 .. n - 1
      BY <2>2
    <3>2. r[i] = s[i] /\ old(i) = i
      BY <3>1 DEF Splits
    <3>3. QED
      BY <1>0, <2>1, <3>2
  <2>3. CASE i > n + 1
    <3>1. i \in n + 2 .. Len(r)
      BY <1>0, <2>3
    <3>2. r[i] = s[i - 1] /\ old(i) = i - 1
      BY <3>1 DEF Splits
    <3>3. QED
      BY <1>0, <2>1, <3>2
  <2>4. CASE i = n
    <3>1. r[i][1] = s[n][1] /\ r[i][2] = m /\ old(i) = n
      BY <2>4 DEF Splits
    <3>2. QED
      BY <1>0, <3>1
  <2>5. CASE i = n + 1
    <3>1. r[i][1] = m /\ r[i][2] = s[n][2] /\ old(i) = n
      BY <2>5 DEF Splits
    <3>2. QED
      BY <1>0, <3>1
  <2>6. QED
    BY <1>0, <2>2, <2>3, <2>4, <2>5
<1>5. ASSUME NEW k \in 1 .. Len(r) PROVE r[k][2] <= x
  <2>1. old(k) \in 1 .. Len(s) /\ r[k][2] <= s[old(k)][2] /\ r[k][2] \in Nat
    BY <1>4
  <2>2. s[old(k)][2] <= x /\ s[old(k)][2] \in Nat
    BY <1>0, <1>1, <2>1
  <2> HIDE DEF old
  <2>3. QED
    BY <2>1, <2>2
<1>6. ASSUME NEW j \in 1 .. Len(r), NEW k \in 1 .. Len(r), j < k PROVE r[j][2] <= r[k][1]
  <2>1. CASE old(j) < old(k)
    <3>1. PICK a \in 1 .. Len(s) : a = old(j) /\ r[j][2] <= s[a][2] /\ r[j][2] \in Nat
      BY <1>4
    <3>2. PICK b \in 1 .. Len(s) : b = old(k) /\ s[b][1] <= r[k][1] /\ r[k][1] \in Nat
      BY <1>4
    <3>3. a < b
      BY <2>1, <3>1, <3>2
    <3>4. s[a][2] <= s[b][1] /\ s[a][2] \in Nat /\ s[b][1] \in Nat
      BY <1>0, <1>2, <3>3
    <3>5. \A p, q \in Nat : p <= s[a][2] /\ s[b][1] <= q => p <= q
      BY <3>4
    <3>6. QED
      BY <3>1, <3>2, <3>5
  <2>2. CASE ~(old(j) < old(k))
    <3>1. j = n /\ k = n + 1
      BY <1>0, <1>6, <2>2
    <3>2. r[j][2] = m /\ r[k][1] = m
      BY <3>1 DEF Splits
    <3>3. QED
      BY <3>2
  <2>3. QED
    BY <2>1, <2>2
<1>7. ASSUME NEW t \in 0 .. x - 1 PROVE \E k \in 1 .. Len(r) : r[k][1] <= t /\ t < r[k][2]
  <2>1. PICK k \in 1 .. Len(s) : s[k][1] <= t /\ t < s[k][2]
    BY <1>3
  <2>2. CASE k < n
    <3>1. k \in 1 .. n - 1 /\ k \in 1 .. Len(r)
      BY <1>0, <2>2
    <3>2. r[k] = s[k]
      BY <3>1 DEF Splits
    <3>3. QED
      BY <2>1, <3>1, <3>2
  <2>3. CASE k > n
    <3>1. k + 1 \in n + 2 .. Len(r) /\ k + 1 \in 1 .. Len(r) /\ (k + 1) - 1 = k
      BY <1>0, <2>3
    <3>2. r[k + 1] = s[k]
      BY <3>1 DEF Splits
    <3>3. QED
      BY <2>1, <3>1, <3>2
  <2>4. CASE k = n
    <3>1. n \in 1 .. Len(r) /\ n + 1 \in 1 .. Len(r)
      BY <1>0
    <3>2. r[n][1] = s[n][1] /\ r[n][2] = m /\ r[n + 1][1] = m /\ r[n + 1][2] = s[n][2]
      BY DEF Splits
    <3>3. CASE t < m
      <4>1. r[n][1] <= t /\ t < r[n][2]
        BY <2>1, <2>4, <3>2, <3>3
      <4>2. QED
        BY <3>1, <4>1
    <3>4. CASE ~(t < m)
      <4>1. r[n + 1][1] <= t /\ t < r[n + 1][2]
        BY <2>1, <2>4, <3>2, <3>4
      <4>2. QED
        BY <3>1, <4>1
    <3>5. QED
      BY <3>3, <3>4
  <2>5. QED
    BY <1>0, <2>2, <2>3, <2>4
<1>8. QED
  BY <1>5, <1>6, <1>7 DEF Partition

\* A partition is a tiling from left to right.
LEMMA PartitionTiles ==
    ASSUME NEW x \in Nat \ {0}, NEW s, Partition(s, x)
    PROVE  Tiles(s, x)
<1>0. /\ s \in Seq(Interval) /\ Len(s) \in Nat
      /\ \A k \in 1 .. Len(s) : s[k][1] \in Nat /\ s[k][2] \in Nat /\ s[k][1] < s[k][2] /\ s[k][2] <= x
  BY PieceType DEF Partition
<1>1. PICK f \in 1 .. Len(s) : s[f][1] <= 0 /\ 0 < s[f][2]
  BY DEF Partition
<1>2. s # <<>> /\ s[1][1] = 0
  <2>1. f > 1 => s[1][2] <= s[f][1]
    <3>1. 1 \in 1 .. Len(s)
      BY <1>0
    <3>2. QED
      BY <3>1 DEF Partition
  <2>2. f = 1
    BY <1>0, <1>1, <2>1
  <2>3. QED
    BY <1>0, <1>1, <2>2
<1>3. PICK g \in 1 .. Len(s) : s[g][1] <= x - 1 /\ x - 1 < s[g][2]
  BY DEF Partition
<1>4. s[Len(s)][2] = x
  <2>1. g < Len(s) => s[g][2] <= s[Len(s)][1]
    BY <1>0, <1>3 DEF Partition
  <2>2. g = Len(s)
    BY <1>0, <1>3, <2>1
  <2>3. QED
    BY <1>0, <1>3, <2>2
<1>5. ASSUME NEW k \in 1 .. Len(s) - 1 PROVE s[k][2] = s[k + 1][1]
  <2>0. k \in 1 .. Len(s) /\ k + 1 \in 1 .. Len(s)
    BY <1>0
  <2>1. s[k][2] <= s[k + 1][1]
    BY <2>0 DEF Partition
  <2>2. ASSUME s[k][2] < s[k + 1][1] PROVE FALSE
    <3>0. s[k][2] \in 0 .. x - 1
      BY <1>0, <2>0, <2>2
    <3>1. PICK h \in 1 .. Len(s) : s[h][1] <= s[k][2] /\ s[k][2] < s[h][2]
      BY <3>0 DEF Partition
    <3>2. CASE h < k
      <4>1. s[h][2] <= s[k][1]
        BY <2>0, <3>2 DEF Partition
      <4>2. QED
        BY <1>0, <2>0, <3>1, <4>1
    <3>3. CASE h > k + 1
      <4>1. s[k + 1][2] <= s[h][1]
        BY <2>0, <3>3 DEF Partition
      <4>2. QED
        BY <1>0, <2>0, <2>2, <3>1, <4>1
    <3>4. QED
      BY <1>0, <2>0, <2>2, <3>1, <3>2, <3>3
  <2>3. QED
    BY <1>0, <2>0, <2>1, <2>2
<1>6. QED
  BY <1>2, <1>4, <1>5 DEF Tiles

\* Two intervals of a partition end at different times.
LEMMA Distinct ==
    ASSUME NEW x, NEW s, Partition(s, x), NEW j \in 1 .. Len(s), NEW k \in 1 .. Len(s), j # k
    PROVE  s[j][2] # s[k][2]
<1>1. Len(s) \in Nat /\ \A n \in 1 .. Len(s) : s[n][1] \in Nat /\ s[n][2] \in Nat /\ s[n][1] < s[n][2]
  BY PieceType DEF Partition
<1>2. CASE j < k
  <2>1. s[j][2] <= s[k][1]
    BY <1>2 DEF Partition
  <2>2. QED
    BY <1>1, <2>1
<1>3. CASE k < j
  <2>1. s[k][2] <= s[j][1]
    BY <1>3 DEF Partition
  <2>2. QED
    BY <1>1, <2>1
<1>4. QED
  BY <1>1, <1>2, <1>3

\* The whole range is a partition of itself.
LEMMA WholeRange ==
    ASSUME NEW x \in Nat \ {0}
    PROVE  Partition(<<>> \o <<<<0, x>>>>, x)
<1>1. <<0, x>> \in Interval
  BY DEF Interval
<1>2. <<<<0, x>>>> \in Seq(Interval) /\ <<>> \o <<<<0, x>>>> = <<<<0, x>>>>
  BY <1>1, ConcatEmptySeq
<1>3. QED
  BY <1>2 DEF Partition

-----------------------------------------------------------------------------
(* Types                                                                      *)

StoreType ==
    /\ published \subseteq Event /\ catalog \subseteq published
    /\ rows \subseteq [lo : Nat, hi : Nat, status : {"succeeded", "failed"}]
    /\ starts \in 0 .. MaxStarts
PlanType ==
    /\ pc \in Working \cup Stopped /\ end \in Ends \cup {0}
    /\ agenda \in Seq(Interval) /\ slices \in Seq(Interval)
LoopType ==
    /\ current \in Nat /\ attempt \in 1 .. MaxRetries
    /\ lastError \in BOOLEAN /\ session \in {"usable", "broken"}
    /\ succeeded \in Nat /\ skipped \in Nat /\ failed \in Seq(Interval)

\* Type correctness is that of the store, of the plan and of the loop together.
LEMMA TypeParts ==
    /\ TypeOK <=> StoreType /\ PlanType /\ LoopType
    /\ TypeOK' <=> StoreType' /\ PlanType' /\ LoopType'
BY DEF TypeOK, StoreType, PlanType, LoopType

\* Every slice is requested at least once.
LEMMA FirstAttempt == 1 \in 1 .. MaxRetries
BY BackfillAssumption

\* The slice the loop is at.
LEMMA SliceType ==
    ASSUME IInv, current \in 1 .. Len(slices)
    PROVE  /\ Slice \in Interval
           /\ Slice[1] \in Nat /\ Slice[2] \in Nat /\ Slice = <<Slice[1], Slice[2]>>
<1>1. Slice \in Interval
  BY ElementOfSeq DEF IInv, TypeOK, Slice
<1>2. QED
  BY <1>1 DEF Interval

\* While the loop runs the slices are the partition that was planned.
LEMMA SlicesPartition ==
    ASSUME IInv, pc \in Loop
    PROVE  end \in Nat \ {0} /\ Partition(slices, end) /\ Len(slices) \in Nat
<1>1. starts > 0 /\ agenda = <<>>
  BY DEF IInv, LoopInv, Loop
<1>2. slices \in Seq(Interval)
  BY DEF IInv, TypeOK
<1>3. slices \o <<>> = slices
  BY <1>2, ConcatEmptySeq
<1>4. QED
  BY <1>1, <1>2, <1>3, LenProperties DEF IInv, PlanInv, Pieces

-----------------------------------------------------------------------------
(* The initial state, and the frame                                           *)

\* The invariant holds before the first invocation.
LEMMA InitIInv == Init => IInv
<1> SUFFICES ASSUME Init PROVE IInv
  OBVIOUS
<1>1. StoreType
  BY BackfillAssumption DEF Init, StoreType
<1>2. PlanType
  <2>1. <<>> \in Seq(Interval)
    OBVIOUS
  <2>2. QED
    BY <2>1 DEF Init, PlanType, Stopped
<1>3. LoopType
  <2>1. <<>> \in Seq(Interval)
    OBVIOUS
  <2>2. QED
    BY <2>1, FirstAttempt DEF Init, LoopType
<1>4. PlanInv /\ IngestedInv /\ KeyInv
  BY DEF Init, PlanInv, IngestedInv, KeyInv
<1>5. LoopInv /\ CountInv
  BY DEF Init, LoopInv, CountInv, Loop
<1>6. QED
  BY <1>1, <1>2, <1>3, <1>4, <1>5, TypeParts DEF IInv

\* The source publishes: nothing of the command changes.
LEMMA PublishStep == ASSUME IInv, NEW e \in Event, Publish(e) PROVE IInv'
<1> USE DEF Publish, planVars, loopVars, IInv
<1>1. TypeOK'
  BY DEF TypeOK
<1>2. PlanInv' /\ KeyInv'
  BY DEF PlanInv, Pieces, KeyInv
<1>3. IngestedInv'
  BY DEF IngestedInv, InSlice
<1>4. LoopInv' /\ CountInv'
  BY DEF LoopInv, CountInv, Truthful, RowOf, Reported, Slice, InSlice
<1>5. QED
  BY <1>1, <1>2, <1>3, <1>4

\* A new invocation, which plans from scratch, keeps the invariant.
LEMMA StartStep == ASSUME IInv, NEW x \in Ends, Start(x) PROVE IInv'
<1>1. <<0, x>> \in Interval
  BY BackfillAssumption DEF Interval
<1>2. agenda' \in Seq(Interval) /\ slices' \in Seq(Interval) /\ failed' \in Seq(Interval)
  BY <1>1 DEF Start
<1>3. StoreType' /\ starts' > 0
  <2>1. StoreType
    BY TypeParts DEF IInv
  <2>2. QED
    BY <2>1, BackfillAssumption DEF Start, StoreType
<1>4. PlanType'
  BY <1>2 DEF Start, PlanType, Working
<1>5. LoopType'
  BY <1>2, FirstAttempt DEF Start, LoopType
<1>6. PlanInv'
  BY BackfillAssumption, WholeRange DEF Start, PlanInv, Pieces
<1>7. IngestedInv' /\ KeyInv'
  BY DEF IInv, Start, IngestedInv, KeyInv, InSlice
<1>8. LoopInv' /\ CountInv'
  BY <1>3 DEF Start, LoopInv, CountInv, Loop
<1>9. QED
  BY <1>3, <1>4, <1>5, <1>6, <1>7, <1>8, TypeParts DEF IInv

\* The command returns, raises or dies and leaves everything as it is.
LEMMA EndStep ==
    ASSUME IInv, PlanRaises \/ RecordFailureRaises \/ Crash \/ Return
    PROVE  IInv'
<1> USE DEF PlanRaises, RecordFailureRaises, Crash, Return, planVars, loopVars, IInv, Working, Stopped
<1>1. UNCHANGED <<published, catalog, rows, starts, planVars, loopVars>>
  OBVIOUS
<1>2. pc' \in {"aborted", "crashed"} \/ (pc = "checking" /\ pc' = "done" /\ current > Len(slices))
  OBVIOUS
<1>3. TypeOK'
  BY DEF TypeOK
<1>4. PlanInv' /\ KeyInv' /\ IngestedInv'
  BY DEF PlanInv, Pieces, KeyInv, IngestedInv, InSlice
<1>5. starts > 0
  BY DEF LoopInv
<1>6. CASE pc' \in {"aborted", "crashed"}
  BY <1>1, <1>3, <1>4, <1>5, <1>6 DEF LoopInv, CountInv, Loop
<1>7. CASE pc = "checking" /\ pc' = "done" /\ current > Len(slices)
  <2>1. current = Len(slices) + 1
    BY <1>7, PieceType DEF LoopInv, Loop, TypeOK
  <2>2. LoopInv'
    BY <1>1, <1>5, <1>7, <2>1 DEF LoopInv, Loop, Truthful, RowOf, Reported
  <2>3. CountInv'
    BY <1>1, <1>7 DEF CountInv
  <2>4. QED
    BY <1>3, <1>4, <2>2, <2>3
<1>8. QED
  BY <1>2, <1>6, <1>7

-----------------------------------------------------------------------------
(* Planning                                                                   *)

\* The end of the planning, where the loop takes the slices over, keeps the invariant.
LEMMA PlanDoneStep == ASSUME IInv, PlanDone PROVE IInv'
<1> USE DEF PlanDone, planVars, loopVars, IInv, Working
<1>1. TypeOK'
  BY DEF TypeOK
<1>2. PlanInv' /\ KeyInv' /\ IngestedInv'
  BY DEF PlanInv, Pieces, KeyInv, IngestedInv, InSlice
<1>3. current = 1 /\ succeeded = 0 /\ skipped = 0 /\ failed = <<>> /\ session # "broken"
  BY DEF CountInv
<1>4. starts > 0 /\ Len(slices) \in Nat
  BY PieceType DEF LoopInv, TypeOK
<1>5. Reported' = {}
  BY <1>3 DEF Reported
<1>6. LoopInv'
  BY <1>3, <1>4, <1>5 DEF LoopInv, Loop
<1>7. CountInv'
  BY <1>3 DEF CountInv
<1>8. QED
  BY <1>1, <1>2, <1>6, <1>7

\* An interval that can be bisected lies on both sides of its midpoint.
LEMMA MidpointInside ==
    ASSUME NEW i \in Interval, i[2] - i[1] > MinSlice
    PROVE  /\ Midpoint(i) \in Nat /\ i[1] < Midpoint(i) /\ Midpoint(i) < i[2]
           /\ <<i[1], Midpoint(i)>> \in Interval /\ <<Midpoint(i), i[2]>> \in Interval
<1>1. i[1] \in Nat /\ i[2] \in Nat /\ i[2] - i[1] > 1
  BY BackfillAssumption DEF Interval
<1>2. Midpoint(i) \in Nat /\ i[1] < Midpoint(i) /\ Midpoint(i) < i[2]
  BY <1>1 DEF Midpoint
<1>3. QED
  BY <1>1, <1>2 DEF Interval

\* Keeping or bisecting the first interval of the agenda: the pieces are a
\* partition again.
LEMMA PlanPieces ==
    ASSUME NEW s \in Seq(Interval), NEW a \in Seq(Interval), a # <<>>,
           NEW x \in Nat \ {0}, Partition(s \o a, x), Head(a)[2] - Head(a)[1] > MinSlice
    PROVE  LET h == Head(a)
               b == <<<<h[1], Midpoint(h)>>, <<Midpoint(h), h[2]>>>> \o Tail(a)
           IN  b \in Seq(Interval) /\ Partition(s \o b, x)
<1> DEFINE h == Head(a)
           m == Midpoint(h)
           i == <<h[1], m>>
           j == <<m, h[2]>>
           b == <<i, j>> \o Tail(a)
           n == Len(s) + 1
<1>1. h \in Interval
  BY HeadTailProperties
<1>2. m \in Nat /\ h[1] < m /\ m < h[2] /\ i \in Interval /\ j \in Interval
  BY <1>1, MidpointInside
<1>3. /\ b \in Seq(Interval) /\ s \o b \in Seq(Interval)
      /\ n \in 1 .. Len(s \o a) /\ (s \o a)[n] = h
      /\ Len(s \o b) = Len(s \o a) + 1
      /\ \A k \in 1 .. n - 1 : (s \o b)[k] = (s \o a)[k]
      /\ (s \o b)[n] = i /\ (s \o b)[n + 1] = j
      /\ \A k \in n + 2 .. Len(s \o b) : (s \o b)[k] = (s \o a)[k - 1]
  BY <1>2, SplitPiece
<1>4. Splits(s \o b, s \o a, n, m)
  BY <1>3 DEF Splits
<1> HIDE DEF b, m, n
<1>5. Partition(s \o b, x)
  BY <1>2, <1>3, <1>4, Bisected
<1>6. QED
  BY <1>3, <1>5 DEF b, m

\* One count request of the planning, which keeps or bisects a range, keeps the
\* invariant.
LEMMA PlanStep == ASSUME IInv, Plan PROVE IInv'
<1> DEFINE h == Head(agenda)
<1>0. /\ pc = "planning" /\ agenda # <<>> /\ pc' = pc
      /\ UNCHANGED <<published, catalog, rows, starts, end>> /\ UNCHANGED loopVars
  BY DEF Plan
<1>1. agenda \in Seq(Interval) /\ slices \in Seq(Interval) /\ starts > 0
  BY <1>0 DEF IInv, TypeOK, LoopInv
<1>2. end \in Nat \ {0} /\ Partition(slices \o agenda, end)
  BY <1>1 DEF IInv, PlanInv, Pieces
<1>3. h \in Interval /\ Tail(agenda) \in Seq(Interval)
  BY <1>0, <1>1, HeadTailProperties
<1>4. agenda' \in Seq(Interval) /\ slices' \in Seq(Interval) /\ Partition(slices' \o agenda', end)
  <2>1. CASE slices' = Append(slices, h) /\ agenda' = Tail(agenda)
    <3>1. slices' \o agenda' = slices \o agenda
      BY <2>1, <1>0, <1>1, KeepPiece
    <3>2. slices' \in Seq(Interval)
      BY <2>1, <1>1, <1>3, AppendProperties
    <3>3. agenda' \in Seq(Interval)
      BY <2>1, <1>3
    <3>4. Partition(slices' \o agenda', end)
      BY <1>2, <3>1
    <3>5. QED
      BY <3>2, <3>3, <3>4
  <2>2. CASE /\ h[2] - h[1] > MinSlice /\ slices' = slices
             /\ agenda' = <<<<h[1], Midpoint(h)>>, <<Midpoint(h), h[2]>>>> \o Tail(agenda)
    BY <2>2, <1>0, <1>1, <1>2, PlanPieces
  <2>3. QED
    BY <2>1, <2>2 DEF Plan
<1>5. StoreType' /\ LoopType'
  <2>1. StoreType /\ LoopType
    BY TypeParts DEF IInv
  <2>2. QED
    BY <1>0, <2>1 DEF StoreType, LoopType, loopVars
<1>6. PlanType'
  <2>1. PlanType
    BY TypeParts DEF IInv
  <2>2. QED
    BY <1>0, <1>4, <2>1 DEF PlanType
<1>7. PlanInv'
  BY <1>0, <1>2, <1>4 DEF PlanInv, Pieces
<1>8. KeyInv' /\ IngestedInv'
  BY <1>0 DEF IInv, KeyInv, IngestedInv, InSlice
<1>9. LoopInv'
  BY <1>0, <1>1 DEF LoopInv, Loop
<1>10. CountInv'
  BY <1>0 DEF IInv, CountInv, loopVars
<1>11. QED
  BY <1>5, <1>6, <1>7, <1>8, <1>9, <1>10, TypeParts DEF IInv

-----------------------------------------------------------------------------
(* The table of slices                                                        *)

\* Recording an interval replaces its row and touches no other.
LEMMA RecordedRows ==
    ASSUME NEW i \in Interval, NEW st \in {"succeeded", "failed"}, rows' = Recorded(i, st),
           rows \subseteq [lo : Nat, hi : Nat, status : {"succeeded", "failed"}], KeyInv
    PROVE  /\ rows' \subseteq [lo : Nat, hi : Nat, status : {"succeeded", "failed"}]
           /\ KeyInv'
           /\ \E w \in RowOf(i)' : w.status = st
           /\ \A w \in rows' : w \in rows \/ (w.lo = i[1] /\ w.hi = i[2] /\ w.status = st)
           /\ \A j : j[2] # i[2] => RowOf(j)' = RowOf(j)
<1> DEFINE new == [lo |-> i[1], hi |-> i[2], status |-> st]
<1>0. new \in [lo : Nat, hi : Nat, status : {"succeeded", "failed"}]
  BY DEF Interval
<1>1. rows' = {w \in rows : ~(w.lo = i[1] /\ w.hi = i[2])} \cup {new}
  BY DEF Recorded, RowOf
<1>2. rows' \subseteq [lo : Nat, hi : Nat, status : {"succeeded", "failed"}]
  BY <1>0, <1>1
<1>3. KeyInv'
  BY <1>1 DEF KeyInv
<1>4. \E w \in RowOf(i)' : w.status = st
  <2>1. new \in rows' /\ new.lo = i[1] /\ new.hi = i[2] /\ new.status = st
    BY <1>1
  <2>2. new \in RowOf(i)'
    BY <2>1 DEF RowOf
  <2>3. QED
    BY <2>1, <2>2
<1>5. \A w \in rows' : w \in rows \/ (w.lo = i[1] /\ w.hi = i[2] /\ w.status = st)
  BY <1>1
<1>6. ASSUME NEW j, j[2] # i[2] PROVE RowOf(j)' = RowOf(j)
  BY <1>1, <1>6 DEF RowOf
<1>7. QED
  BY <1>2, <1>3, <1>4, <1>5, <1>6

\* What IngestedInv says of the rows after one of them is replaced.
LEMMA RecordedIngested ==
    ASSUME IngestedInv, UNCHANGED <<published, catalog>>,
           NEW i \in Interval, NEW st \in {"succeeded", "failed"},
           \A w \in rows' : w \in rows \/ (w.lo = i[1] /\ w.hi = i[2] /\ w.status = st),
           st = "succeeded" => InSlice(i) \cap Early \subseteq catalog
    PROVE  IngestedInv'
<1> SUFFICES ASSUME NEW w \in rows', w.status = "succeeded"
             PROVE  InSlice(<<w.lo, w.hi>>) \cap Early \subseteq catalog
  BY DEF IngestedInv, InSlice
<1>1. CASE w \in rows
  BY <1>1 DEF IngestedInv
<1>2. CASE w.lo = i[1] /\ w.hi = i[2] /\ w.status = st
  BY <1>2 DEF InSlice
<1>3. QED
  BY <1>1, <1>2

\* The slices before the current one are not touched by its row.
LEMMA EarlierSlices ==
    ASSUME IInv, pc \in Loop, current \in 1 .. Len(slices)
    PROVE  \A k \in 1 .. current - 1 : k \in 1 .. Len(slices) /\ slices[k][2] # Slice[2]
<1>1. Partition(slices, end) /\ Len(slices) \in Nat
  BY SlicesPartition
<1>2. SUFFICES ASSUME NEW k \in 1 .. current - 1
               PROVE  k \in 1 .. Len(slices) /\ slices[k][2] # Slice[2]
  OBVIOUS
<1>3. k \in 1 .. Len(slices) /\ k # current
  BY <1>1
<1>4. QED
  BY <1>1, <1>3, Distinct DEF Slice

\* The current slice is not yet reported.
LEMMA SliceNotReported ==
    ASSUME IInv, pc \in Loop, current \in 1 .. Len(slices)
    PROVE  Slice \notin Reported
<1>1. \A i \in Reported : \E k \in 1 .. current - 1 : i = slices[k]
  BY DEF IInv, LoopInv
<1>2. QED
  BY <1>1, EarlierSlices

-----------------------------------------------------------------------------
(* The loop                                                                   *)

\* What the loop leaves alone.
LEMMA LoopFrame ==
    ASSUME IInv, UNCHANGED <<published, starts, planVars>>,
           pc \in Loop, pc' \in Loop,
           StoreType', LoopType', IngestedInv', KeyInv', LoopInv', CountInv'
    PROVE  IInv'
<1>1. PlanType'
  <2>1. PlanType
    BY TypeParts DEF IInv
  <2>2. QED
    BY <2>1 DEF PlanType, planVars, Loop, Working, Stopped
<1>2. PlanInv'
  BY DEF IInv, PlanInv, Pieces, planVars
<1>3. QED
  BY <1>1, <1>2, TypeParts DEF IInv

\* The attempts of a slice: nothing is recorded, the loop stays where it is.
LEMMA AttemptStep == ASSUME IInv, Fetch \/ FetchRaises \/ RecordRaises PROVE IInv'
<1>0. /\ UNCHANGED <<published, rows, starts, planVars, current, skipped, failed>>
      /\ pc \in {"fetching", "recording"} /\ pc' \in {"fetching", "recording", "failing"}
  BY DEF Fetch, FetchRaises, RecordRaises, Retry
<1>1. current \in 1 .. Len(slices) /\ Len(slices) \in Nat
  <2>1. Len(slices) \in Nat
    BY <1>0, SlicesPartition DEF Loop
  <2>2. QED
    BY <1>0, <2>1 DEF IInv, LoopInv, Loop
<1>2. catalog \subseteq catalog' /\ catalog' \subseteq published
  BY DEF IInv, TypeOK, Fetch, FetchRaises, RecordRaises
<1>3. StoreType'
  <2>1. StoreType
    BY TypeParts DEF IInv
  <2>2. QED
    BY <1>0, <1>2, <2>1 DEF StoreType
<1>4. LoopType'
  <2>1. LoopType
    BY TypeParts DEF IInv
  <2>2. attempt' \in 1 .. MaxRetries /\ lastError' \in BOOLEAN
    <3>1. attempt' = attempt \/ (attempt < MaxRetries /\ attempt' = attempt + 1)
      BY DEF Fetch, FetchRaises, RecordRaises, Retry
    <3>2. attempt' \in 1 .. MaxRetries
      BY <2>1, <3>1, BackfillAssumption DEF LoopType
    <3>3. lastError' = lastError \/ lastError' = TRUE
      BY DEF Fetch, FetchRaises, RecordRaises, Retry
    <3>4. QED
      BY <2>1, <3>2, <3>3 DEF LoopType
  <2>3. succeeded' \in Nat /\ session' \in {"usable", "broken"}
    BY <2>1 DEF LoopType, Fetch, FetchRaises, RecordRaises
  <2>4. QED
    BY <1>0, <2>1, <2>2, <2>3 DEF LoopType
<1>5. IngestedInv' /\ KeyInv'
  BY <1>0, <1>2 DEF IInv, IngestedInv, KeyInv, InSlice
<1>6. LoopInv'
  <2>1. pc' = "recording" => InSlice(Slice)' \cap Early \subseteq catalog'
    <3>1. ASSUME pc' = "recording" PROVE Fetch
      BY <3>1 DEF FetchRaises, RecordRaises, Retry
    <3>2. Early \subseteq published
      BY DEF IInv, IngestedInv
    <3>3. ASSUME Fetch PROVE InSlice(Slice)' \cap Early \subseteq catalog'
      BY <3>2, <3>3, <1>0 DEF Fetch, InSlice, Slice, planVars
    <3>4. QED
      BY <3>1, <3>3
  <2>2. \A k \in 1 .. current - 1 : Truthful(k)
    BY <1>0 DEF IInv, LoopInv, Loop
  <2>3. \A i \in Reported : \E k \in 1 .. current - 1 : i = slices[k]
    BY <1>0 DEF IInv, LoopInv, Loop
  <2>4. Reported' = Reported /\ slices' = slices /\ agenda' = agenda /\ \A i : RowOf(i)' = RowOf(i)
    BY <1>0 DEF Reported, RowOf, planVars
  <2>5. \A k : Truthful(k)' <=> Truthful(k)
    BY <2>4 DEF Truthful
  <2>6. starts > 0 /\ agenda = <<>>
    BY <1>0 DEF IInv, LoopInv, Loop
  <2>7. QED
    BY <1>0, <1>1, <2>1, <2>2, <2>3, <2>4, <2>5, <2>6 DEF LoopInv, Loop
<1>7. CountInv'
  <2>1. current \in Nat /\ succeeded \in Nat /\ skipped \in Nat /\ Len(failed) \in Nat
    BY LenProperties DEF IInv, TypeOK
  <2>2. CASE Fetch
    BY <2>1, <2>2 DEF IInv, CountInv, Fetch
  <2>3. CASE FetchRaises
    BY <2>1, <2>3 DEF IInv, CountInv, FetchRaises, Retry
  <2>4. CASE RecordRaises
    BY <2>1, <2>4 DEF IInv, CountInv, RecordRaises, Retry
  <2>5. QED
    BY <2>2, <2>3, <2>4
<1>8. QED
  BY <1>0, <1>3, <1>4, <1>5, <1>6, <1>7, LoopFrame DEF Loop

\* The loop goes on to the next slice: what it needs to have left behind.
LEMMA Advance ==
    ASSUME IInv, UNCHANGED <<published, catalog, starts, planVars>>, NextSlice,
           pc \in {"checking", "recording", "failing"}, current \in 1 .. Len(slices),
           rows' \subseteq [lo : Nat, hi : Nat, status : {"succeeded", "failed"}],
           KeyInv', IngestedInv', CountInv',
           session' = session, succeeded' \in Nat, skipped' \in Nat, failed' \in Seq(Interval),
           \A k \in 1 .. current - 1 : RowOf(slices[k])' = RowOf(slices[k]),
           Reported \subseteq Reported', Reported' \subseteq Reported \cup {Slice},
           NEW n, n = current, Truthful(n)'
    PROVE  IInv'
<1>1. pc \in Loop /\ pc' = "checking" /\ current' = current + 1 /\ slices' = slices /\ agenda' = agenda
  BY DEF NextSlice, planVars, Loop
<1>2. Len(slices) \in Nat
  BY <1>1, SlicesPartition
<1>3. StoreType'
  <2>1. StoreType
    BY TypeParts DEF IInv
  <2>2. QED
    BY <2>1 DEF StoreType
<1>4. LoopType'
  <2>1. LoopType
    BY TypeParts DEF IInv
  <2>2. current' \in Nat /\ attempt' \in 1 .. MaxRetries /\ lastError' \in BOOLEAN
    <3>1. current' = current + 1 /\ attempt' = 1 /\ lastError' = FALSE
      BY DEF NextSlice
    <3>2. current \in Nat
      BY <2>1 DEF LoopType
    <3>3. current' \in Nat
      BY <3>1, <3>2
    <3>4. QED
      BY <3>1, <3>3, FirstAttempt
  <2>3. session' \in {"usable", "broken"}
    BY <2>1 DEF LoopType
  <2>4. QED
    BY <2>2, <2>3 DEF LoopType
<1>5. ASSUME NEW k \in 1 .. current - 1 PROVE Truthful(k)'
  <2>1. Truthful(k)
    BY <1>1 DEF IInv, LoopInv
  <2>2. slices[k] # Slice
    BY <1>1, EarlierSlices
  <2>3. slices[k] \in Reported' <=> slices[k] \in Reported
    BY <2>2
  <2>4. RowOf(slices[k])' = RowOf(slices[k])
    OBVIOUS
  <2>5. QED
    BY <1>1, <2>1, <2>3, <2>4 DEF Truthful
<1>6. ASSUME NEW i \in Reported' PROVE \E k \in 1 .. current'- 1 : i = slices[k]
  <2>1. CASE i \in Reported
    <3>1. PICK k \in 1 .. current - 1 : i = slices[k]
      BY <1>1, <2>1 DEF IInv, LoopInv
    <3>2. k \in 1 .. current' - 1
      BY <1>1, <1>2
    <3>3. QED
      BY <3>1, <3>2
  <2>2. CASE i = Slice
    <3>1. current \in 1 .. current' - 1
      BY <1>1, <1>2
    <3>2. QED
      BY <2>2, <3>1 DEF Slice
  <2>3. QED
    BY <2>1, <2>2
<1>7. ASSUME NEW k \in 1 .. current' - 1 PROVE Truthful(k)'
  <2>1. k \in 1 .. current - 1 \/ k = n
    BY <1>1, <1>2
  <2>2. QED
    BY <1>5, <2>1
<1>8. LoopInv'
  <2>1. starts > 0 /\ agenda = <<>>
    BY <1>1 DEF IInv, LoopInv, Loop
  <2>2. current' \in 1 .. Len(slices) + 1
    BY <1>1, <1>2
  <2>3. QED
    BY <1>1, <1>6, <1>7, <2>1, <2>2 DEF LoopInv
<1>9. QED
  BY <1>1, <1>3, <1>4, <1>8, LoopFrame DEF Loop

\* Looking a slice up, and skipping it if a row succeeded, keeps the invariant.
LEMMA CheckStep == ASSUME IInv, Check PROVE IInv'
<1>0. /\ pc = "checking" /\ pc' \in {"checking", "fetching"}
      /\ UNCHANGED <<published, catalog, rows, starts, planVars, session, succeeded, failed>>
  BY DEF Check, NextSlice
<1>1. Len(slices) \in Nat /\ current \in 1 .. Len(slices)
  <2>1. Len(slices) \in Nat
    BY <1>0, SlicesPartition DEF Loop
  <2>2. QED
    BY <1>0, <2>1 DEF IInv, LoopInv, Loop, Check
<1>2. current \in Nat /\ succeeded \in Nat /\ skipped \in Nat /\ Len(failed) \in Nat
  BY LenProperties DEF IInv, TypeOK
<1>3. IngestedInv' /\ KeyInv'
  BY <1>0 DEF IInv, IngestedInv, KeyInv, InSlice
<1>4. Reported' = Reported /\ \A i : RowOf(i)' = RowOf(i)
  BY <1>0 DEF Reported, RowOf
<1>5. CASE \E w \in RowOf(Slice) : w.status = "succeeded"
  <2>1. skipped' = skipped + 1 /\ NextSlice
    BY <1>5 DEF Check
  <2>2. CountInv'
    BY <1>0, <1>2, <2>1 DEF IInv, CountInv, NextSlice
  <2>0. PICK n : n = current
    OBVIOUS
  <2>3. Truthful(n)'
    <3>1. slices[n] \notin Reported
      BY <1>0, <1>1, <2>0, SliceNotReported DEF Loop, Slice
    <3>2. RowOf(slices[n])' = RowOf(slices[n]) /\ slices' = slices
      BY <1>0 DEF RowOf, planVars
    <3>3. \E w \in RowOf(slices[n]) : w.status = "succeeded"
      BY <1>5, <2>0 DEF Slice
    <3>4. QED
      BY <1>4, <3>1, <3>2, <3>3 DEF Truthful
  <2>4. rows' \subseteq [lo : Nat, hi : Nat, status : {"succeeded", "failed"}] /\ failed' \in Seq(Interval)
    BY <1>0 DEF IInv, TypeOK
  <2>5. \A k \in 1 .. current - 1 : RowOf(slices[k])' = RowOf(slices[k])
    BY <1>0 DEF RowOf, planVars
  <2>6. QED
    BY <1>0, <1>1, <1>2, <1>3, <1>4, <2>0, <2>1, <2>2, <2>3, <2>4, <2>5, Advance
<1>6. CASE ~\E w \in RowOf(Slice) : w.status = "succeeded"
  <2>1. pc' = "fetching" /\ UNCHANGED <<skipped, current, attempt, lastError>>
    BY <1>6 DEF Check
  <2>2. StoreType' /\ LoopType'
    <3>1. StoreType /\ LoopType
      BY TypeParts DEF IInv
    <3>2. QED
      BY <1>0, <2>1, <3>1 DEF StoreType, LoopType
  <2>3. LoopInv'
    <3>1. \A k : Truthful(k)' <=> Truthful(k)
      BY <1>0, <1>4 DEF Truthful, RowOf, planVars
    <3>2. QED
      BY <1>0, <1>1, <1>4, <2>1, <3>1 DEF IInv, LoopInv, Loop, planVars
  <2>4. CountInv'
    BY <1>0, <2>1 DEF IInv, CountInv
  <2>5. QED
    BY <1>0, <1>3, <2>1, <2>2, <2>3, <2>4, LoopFrame DEF Loop
<1>7. QED
  BY <1>5, <1>6

\* Committing a slice that was fetched keeps the invariant.
LEMMA RecordStep == ASSUME IInv, Record PROVE IInv'
<1>0. /\ pc = "recording" /\ NextSlice /\ rows' = Recorded(Slice, "succeeded")
      /\ UNCHANGED <<published, catalog, starts, planVars, session, succeeded, skipped, failed>>
  BY DEF Record
<1>1. Len(slices) \in Nat /\ current \in 1 .. Len(slices)
  <2>1. Len(slices) \in Nat
    BY <1>0, SlicesPartition DEF Loop
  <2>2. QED
    BY <1>0, <2>1 DEF IInv, LoopInv, Loop
<1>2. PICK i \in Interval : i = Slice
  BY <1>1, SliceType
<1>3. /\ rows' \subseteq [lo : Nat, hi : Nat, status : {"succeeded", "failed"}] /\ KeyInv'
      /\ \E w \in RowOf(i)' : w.status = "succeeded"
      /\ \A w \in rows' : w \in rows \/ (w.lo = i[1] /\ w.hi = i[2] /\ w.status = "succeeded")
      /\ \A j : j[2] # i[2] => RowOf(j)' = RowOf(j)
  <2>1. rows' = Recorded(i, "succeeded")
    BY <1>0, <1>2
  <2>2. rows \subseteq [lo : Nat, hi : Nat, status : {"succeeded", "failed"}] /\ KeyInv
    BY DEF IInv, TypeOK
  <2>3. QED
    BY <2>1, <2>2, RecordedRows
<1>4. IngestedInv'
  <2>1. InSlice(i) \cap Early \subseteq catalog
    BY <1>0, <1>2 DEF IInv, LoopInv
  <2>2. IngestedInv
    BY DEF IInv
  <2>3. QED
    BY <1>0, <1>3, <2>1, <2>2, RecordedIngested
<1>5. succeeded \in Nat /\ skipped \in Nat /\ failed \in Seq(Interval) /\ Len(failed) \in Nat
  BY LenProperties DEF IInv, TypeOK
<1>6. CountInv'
  BY <1>0, <1>1, <1>5 DEF IInv, CountInv, NextSlice
<1>7. Reported' = Reported /\ slices' = slices
  BY <1>0 DEF Reported, planVars
<1> PICK n : n = current
  OBVIOUS
<1>8. Truthful(n)'
  <2>1. slices'[n] = i /\ i \notin Reported'
    BY <1>0, <1>1, <1>2, <1>7, SliceNotReported DEF Loop, Slice
  <2>2. RowOf(slices[n])' = RowOf(i)'
    BY <2>1 DEF RowOf
  <2>3. QED
    BY <1>3, <2>1, <2>2 DEF Truthful
<1>9. \A k \in 1 .. current - 1 : RowOf(slices[k])' = RowOf(slices[k])
  <2>1. \A k \in 1 .. current - 1 : slices[k][2] # i[2]
    BY <1>0, <1>1, <1>2, EarlierSlices DEF Loop
  <2>2. \A k \in 1 .. current - 1 : {w \in rows' : w.lo = slices[k][1] /\ w.hi = slices[k][2]} = RowOf(slices[k])
    BY <1>3, <2>1 DEF RowOf
  <2>3. QED
    BY <1>7, <2>2 DEF RowOf
<1>10. QED
  BY <1>0, <1>1, <1>3, <1>4, <1>5, <1>6, <1>7, <1>8, <1>9, Advance

\* What is reported after one more failure.
LEMMA ReportedGrows ==
    ASSUME failed \in Seq(Interval), NEW i \in Interval, failed' = Append(failed, i)
    PROVE  /\ failed' \in Seq(Interval) /\ Len(failed') = Len(failed) + 1 /\ Len(failed) \in Nat
           /\ Reported' = Reported \cup {i}
<1>1. /\ failed' \in Seq(Interval) /\ Len(failed') = Len(failed) + 1 /\ Len(failed) \in Nat
      /\ failed'[Len(failed) + 1] = i
      /\ \A k \in 1 .. Len(failed) : failed'[k] = failed[k]
  BY AppendProperties, LenProperties
<1>2. ASSUME NEW x \in Reported' PROVE x \in Reported \cup {i}
  BY <1>1 DEF Reported
<1>3. ASSUME NEW x \in Reported \cup {i} PROVE x \in Reported'
  <2>1. CASE x \in Reported
    <3>1. PICK k \in 1 .. Len(failed) : x = failed[k]
      BY <2>1 DEF Reported
    <3>2. k \in 1 .. Len(failed') /\ x = failed'[k]
      BY <1>1, <3>1
    <3>3. QED
      BY <3>2 DEF Reported
  <2>2. CASE x = i
    <3>1. Len(failed) + 1 \in 1 .. Len(failed')
      BY <1>1
    <3>2. QED
      BY <1>1, <2>2, <3>1 DEF Reported
  <2>3. QED
    BY <2>1, <2>2
<1>4. QED
  BY <1>1, <1>2, <1>3

\* Committing a slice given up after its retries keeps the invariant.
LEMMA RecordFailureStep == ASSUME IInv, RecordFailure PROVE IInv'
<1>0. /\ pc = "failing" /\ session = "usable" /\ NextSlice /\ rows' = Recorded(Slice, "failed")
      /\ failed' = Append(failed, Slice)
      /\ UNCHANGED <<published, catalog, starts, planVars, session, succeeded, skipped>>
  BY DEF RecordFailure
<1>1. Len(slices) \in Nat /\ current \in 1 .. Len(slices)
  <2>1. Len(slices) \in Nat
    BY <1>0, SlicesPartition DEF Loop
  <2>2. QED
    BY <1>0, <2>1 DEF IInv, LoopInv, Loop
<1>2. PICK i \in Interval : i = Slice
  BY <1>1, SliceType
<1>3. /\ rows' \subseteq [lo : Nat, hi : Nat, status : {"succeeded", "failed"}] /\ KeyInv'
      /\ \E w \in RowOf(i)' : w.status = "failed"
      /\ \A w \in rows' : w \in rows \/ (w.lo = i[1] /\ w.hi = i[2] /\ w.status = "failed")
      /\ \A j : j[2] # i[2] => RowOf(j)' = RowOf(j)
  <2>1. rows' = Recorded(i, "failed")
    BY <1>0, <1>2
  <2>2. rows \subseteq [lo : Nat, hi : Nat, status : {"succeeded", "failed"}] /\ KeyInv
    BY DEF IInv, TypeOK
  <2>3. QED
    BY <2>1, <2>2, RecordedRows
<1>4. IngestedInv'
  <2>1. IngestedInv
    BY DEF IInv
  <2>2. QED
    BY <1>0, <1>3, <2>1, RecordedIngested
<1>5. succeeded \in Nat /\ skipped \in Nat /\ failed \in Seq(Interval)
  BY DEF IInv, TypeOK
<1>6. /\ failed' \in Seq(Interval) /\ Len(failed') = Len(failed) + 1 /\ Len(failed) \in Nat
      /\ Reported' = Reported \cup {i} /\ slices' = slices
  <2>1. failed' = Append(failed, i)
    BY <1>0, <1>2
  <2>2. QED
    BY <1>0, <1>5, <2>1, ReportedGrows DEF planVars
<1>7. CountInv'
  BY <1>0, <1>1, <1>5, <1>6 DEF IInv, CountInv, NextSlice
<1> PICK n : n = current
  OBVIOUS
<1>8. Truthful(n)'
  <2>1. slices'[n] = i /\ i \in Reported'
    BY <1>2, <1>6 DEF Slice
  <2>2. RowOf(slices[n])' = RowOf(i)'
    BY <2>1 DEF RowOf
  <2>3. QED
    BY <1>3, <2>1, <2>2 DEF Truthful
<1>9. \A k \in 1 .. current - 1 : RowOf(slices[k])' = RowOf(slices[k])
  <2>1. \A k \in 1 .. current - 1 : slices[k][2] # i[2]
    BY <1>0, <1>1, <1>2, EarlierSlices DEF Loop
  <2>2. \A k \in 1 .. current - 1 : {w \in rows' : w.lo = slices[k][1] /\ w.hi = slices[k][2]} = RowOf(slices[k])
    BY <1>3, <2>1 DEF RowOf
  <2>3. QED
    BY <1>6, <2>2 DEF RowOf
<1>10. QED
  BY <1>0, <1>1, <1>2, <1>3, <1>4, <1>5, <1>6, <1>7, <1>8, <1>9, Advance

-----------------------------------------------------------------------------
(* The theorems                                                               *)

\* Every step keeps the invariant.
LEMMA NextIInv == IInv /\ [Next]_vars => IInv'
<1> SUFFICES ASSUME IInv, [Next]_vars PROVE IInv'
  OBVIOUS
<1>1. ASSUME NEW e \in Event, Publish(e) PROVE IInv'
  BY <1>1, PublishStep
<1>2. ASSUME NEW x \in Ends, Start(x) PROVE IInv'
  BY <1>2, StartStep
<1>3. CASE Plan
  BY <1>3, PlanStep
<1>4. CASE PlanDone
  BY <1>4, PlanDoneStep
<1>5. CASE Check
  BY <1>5, CheckStep
<1>6. CASE Fetch \/ FetchRaises \/ RecordRaises
  BY <1>6, AttemptStep
<1>7. CASE Record
  BY <1>7, RecordStep
<1>8. CASE RecordFailure
  BY <1>8, RecordFailureStep
<1>9. CASE PlanRaises \/ RecordFailureRaises \/ Crash \/ Return
  BY <1>9, EndStep
<1>10. CASE UNCHANGED vars
  BY <1>10 DEF vars, planVars, loopVars, IInv, TypeOK, PlanInv, Pieces, IngestedInv, KeyInv,
               LoopInv, CountInv, Truthful, RowOf, Reported, Slice, InSlice
<1>11. QED
  BY <1>1, <1>2, <1>3, <1>4, <1>5, <1>6, <1>7, <1>8, <1>9, <1>10 DEF Next, Command

\* For any events and limits, whatever fails and wherever the command dies, the
\* inductive invariant holds.
THEOREM Invariance == Spec => []IInv
<1>1. QED
  BY InitIInv, NextIInv, PTL DEF Spec

\* The variables keep their types: in particular every interval that is
\* planned has a positive length and no slice is attempted more than
\* MaxRetries times.
THEOREM TypeCorrect == Spec => []TypeOK
<1>1. IInv => TypeOK
  BY DEF IInv
<1>2. QED
  BY <1>1, Invariance, PTL

\* For any range and any counts the source may give, changing while
\* plan_time_partitions runs, the leaves and the intervals still to be counted
\* cover the range exactly once.
THEOREM PlanCoversHolds == Spec => []PlanCovers
<1>1. IInv => PlanCovers
  BY PartitionTiles DEF IInv, PlanInv, Pieces, PlanCovers
<1>2. QED
  BY <1>1, Invariance, PTL

\* A summary that is returned accounts for every slice, and the table agrees
\* with it, for any number of retries and earlier invocations.
THEOREM SummaryMatchesRowsHolds == Spec => []SummaryMatchesRows
<1>1. ASSUME IInv, pc = "done"
      PROVE  /\ Len(slices) = succeeded + skipped + Len(failed)
             /\ \A k \in 1 .. Len(slices) :
                  \E w \in RowOf(slices[k]) :
                     w.status = IF slices[k] \in Reported THEN "failed" ELSE "succeeded"
  <2>1. Len(slices) \in Nat
    BY <1>1, SlicesPartition DEF Loop
  <2>2. current = Len(slices) + 1 /\ \A k \in 1 .. current - 1 : Truthful(k)
    BY <1>1 DEF IInv, LoopInv, Loop
  <2>3. current - 1 = Len(slices)
    BY <2>1, <2>2
  <2>4. session = "usable"
    BY <1>1 DEF IInv, CountInv, TypeOK
  <2>5. current - 1 = succeeded + skipped + Len(failed)
    BY <1>1, <2>4 DEF IInv, CountInv
  <2>6. QED
    BY <2>2, <2>3, <2>5 DEF Truthful
<1>2. IInv => SummaryMatchesRows
  BY <1>1 DEF SummaryMatchesRows
<1>3. QED
  BY <1>2, Invariance, PTL

\* No event is lost silently: for any range, any slices left over from earlier
\* invocations and any failures, an event the source reported all along is in
\* the catalog or in a slice the summary reports as failed.
THEOREM NothingLostHolds == Spec => []NothingLost
<1>1. ASSUME IInv, pc = "done", NEW e \in Early, At[e] < end
      PROVE  e \in catalog \/ \E i \in Reported : e \in InSlice(i)
  <2>1. end \in Nat \ {0} /\ Partition(slices, end) /\ Len(slices) \in Nat
    BY <1>1, SlicesPartition DEF Loop
  <2>2. e \in Event /\ At[e] \in 0 .. end - 1
    BY <1>1, <2>1, BackfillAssumption
  <2>3. PICK k \in 1 .. Len(slices) : slices[k][1] <= At[e] /\ At[e] < slices[k][2]
    BY <2>1, <2>2 DEF Partition
  <2>4. e \in InSlice(slices[k])
    BY <2>2, <2>3 DEF InSlice
  <2>5. Truthful(k)
    <3>1. current = Len(slices) + 1 /\ \A n \in 1 .. current - 1 : Truthful(n)
      BY <1>1 DEF IInv, LoopInv, Loop
    <3>2. k \in 1 .. current - 1
      BY <2>1, <3>1
    <3>3. QED
      BY <3>1, <3>2
  <2>6. PICK w \in RowOf(slices[k]) :
            w.status = IF slices[k] \in Reported THEN "failed" ELSE "succeeded"
    BY <2>5 DEF Truthful
  <2>7. CASE slices[k] \in Reported
    BY <2>4, <2>7
  <2>8. CASE slices[k] \notin Reported
    <3>1. w \in rows /\ w.status = "succeeded" /\ w.lo = slices[k][1] /\ w.hi = slices[k][2]
      BY <2>6, <2>8 DEF RowOf
    <3>2. InSlice(<<w.lo, w.hi>>) \cap Early \subseteq catalog
      BY <1>1, <3>1 DEF IInv, IngestedInv
    <3>3. e \in InSlice(<<w.lo, w.hi>>)
      BY <2>2, <2>3, <3>1 DEF InSlice
    <3>4. QED
      BY <3>2, <3>3
  <2>9. QED
    BY <2>7, <2>8
<1>2. IInv => NothingLost
  BY <1>1 DEF NothingLost
<1>3. QED
  BY <1>2, Invariance, PTL

-----------------------------------------------------------------------------
(* The plan of a source that has nothing new to say                           *)

Load(i) == Cardinality(InSlice(i))

\* The intervals bisection reaches from i when every event is published: i,
\* and the halves of what holds too many events and can be bisected.
Closed(S) ==
    \A k \in S : Load(k) > MaxResults /\ k[2] - k[1] > MinSlice =>
        <<k[1], Midpoint(k)>> \in S /\ <<Midpoint(k), k[2]>> \in S
Tree(i) == {j \in Interval : \A S \in SUBSET Interval : i \in S /\ Closed(S) => j \in S}
Leaves(i) == {j \in Tree(i) : Load(j) <= MaxResults}

Disjoint(i, j) == i[2] <= j[1] \/ j[2] <= i[1]

\* Every non-empty set of numbers has a least element: what stands for
\* induction below.
LEMMA LeastOf ==
    ASSUME NEW S \in SUBSET Nat, S # {}
    PROVE  \E m \in S : \A k \in S : m <= k
<1>1. PICK m \in S : \A k \in S : <<k, m>> \notin OpToRel(<, Nat)
  BY WFMin, NatLessThanWellFounded, Zenon
<1>2. \A k \in S : ~(k < m)
  BY <1>1, Zenon DEF OpToRel
<1>3. QED
  BY <1>2

\* The tree of i is closed, and it is in every closed set that has i.
LEMMA TreeIsLeast ==
    ASSUME NEW i \in Interval
    PROVE  /\ i \in Tree(i) /\ Tree(i) \in SUBSET Interval /\ Closed(Tree(i))
           /\ \A S \in SUBSET Interval : i \in S /\ Closed(S) => Tree(i) \subseteq S
<1>1. i \in Tree(i) /\ Tree(i) \in SUBSET Interval
  BY DEF Tree
<1>2. \A S \in SUBSET Interval : i \in S /\ Closed(S) => Tree(i) \subseteq S
  BY DEF Tree
<1>3. ASSUME NEW k \in Tree(i), Load(k) > MaxResults, k[2] - k[1] > MinSlice
      PROVE  <<k[1], Midpoint(k)>> \in Tree(i) /\ <<Midpoint(k), k[2]>> \in Tree(i)
  <2>1. <<k[1], Midpoint(k)>> \in Interval /\ <<Midpoint(k), k[2]>> \in Interval
    BY <1>1, <1>3, MidpointInside
  <2>2. ASSUME NEW S \in SUBSET Interval, i \in S, Closed(S)
        PROVE  <<k[1], Midpoint(k)>> \in S /\ <<Midpoint(k), k[2]>> \in S
    <3>1. k \in S
      BY <1>2, <2>2
    <3>2. QED
      BY <1>3, <2>2, <3>1 DEF Closed
  <2>3. QED
    BY <2>1, <2>2 DEF Tree
<1>4. Closed(Tree(i))
  BY <1>3 DEF Closed
<1>5. QED
  BY <1>1, <1>2, <1>4

\* What bisection reaches from i lies in i.
LEMMA TreeInside ==
    ASSUME NEW i \in Interval, NEW j \in Tree(i)
    PROVE  i[1] <= j[1] /\ j[2] <= i[2]
<1> DEFINE S == {k \in Interval : i[1] <= k[1] /\ k[2] <= i[2]}
<1>1. \A k \in Interval : k[1] \in Nat /\ k[2] \in Nat
  BY DEF Interval
<1>2. i \in S
  BY <1>1
<1>3. Closed(S)
  <2>1. ASSUME NEW k \in S, k[2] - k[1] > MinSlice
        PROVE  <<k[1], Midpoint(k)>> \in S /\ <<Midpoint(k), k[2]>> \in S
    <3>1. /\ Midpoint(k) \in Nat /\ k[1] < Midpoint(k) /\ Midpoint(k) < k[2]
          /\ <<k[1], Midpoint(k)>> \in Interval /\ <<Midpoint(k), k[2]>> \in Interval
      BY <2>1, MidpointInside
    <3>2. k \in Interval /\ i[1] <= k[1] /\ k[2] <= i[2]
      OBVIOUS
    <3>3. i[1] <= Midpoint(k) /\ Midpoint(k) <= i[2]
      BY <1>1, <3>1, <3>2
    <3>4. QED
      BY <3>1, <3>2, <3>3
  <2> HIDE DEF S
  <2>2. QED
    BY <2>1 DEF Closed
<1>4. S \in SUBSET Interval
  OBVIOUS
<1> HIDE DEF S
<1>5. j \in S
  BY <1>2, <1>3, <1>4, TreeIsLeast
<1>6. QED
  BY <1>5 DEF S

\* The events of an interval are finitely many, and fewer of them when fewer
\* are published.
LEMMA LoadType ==
    ASSUME NEW i, NEW P \in SUBSET Event
    PROVE  /\ Load(i) \in Nat /\ Cardinality(InSlice(i) \cap P) \in Nat
           /\ \A Q \in SUBSET P : Cardinality(InSlice(i) \cap Q) <= Cardinality(InSlice(i) \cap P)
<1>1. IsFiniteSet(Event) /\ InSlice(i) \subseteq Event
  BY BackfillAssumption DEF InSlice
<1>2. IsFiniteSet(InSlice(i)) /\ IsFiniteSet(InSlice(i) \cap P)
  BY <1>1, FS_Subset
<1>3. Load(i) \in Nat /\ Cardinality(InSlice(i) \cap P) \in Nat
  BY <1>2, FS_CardinalityType DEF Load
<1>4. ASSUME NEW Q \in SUBSET P
      PROVE  Cardinality(InSlice(i) \cap Q) <= Cardinality(InSlice(i) \cap P)
  <2>1. InSlice(i) \cap Q \in SUBSET (InSlice(i) \cap P)
    OBVIOUS
  <2>2. QED
    BY <1>2, <2>1, FS_Subset
<1>5. QED
  BY <1>3, <1>4

\* Below an interval with few enough events there is nothing but itself; below
\* another, what is below one of its halves.
LEMMA LeafTree ==
    ASSUME NEW i \in Interval, Load(i) <= MaxResults
    PROVE  Tree(i) = {i}
<1>1. MaxResults \in Nat /\ Load(i) \in Nat
  <2>1. {} \in SUBSET Event
    OBVIOUS
  <2>2. QED
    BY <2>1, BackfillAssumption, LoadType
<1>2. ~(Load(i) > MaxResults)
  BY <1>1
<1>3. Closed({i})
  BY <1>2 DEF Closed
<1>4. QED
  BY <1>3, TreeIsLeast

\* A range the bisection reaches below another one is reached from one of its halves.
LEMMA BranchTree ==
    ASSUME NEW i \in Interval, i[2] - i[1] > MinSlice, NEW j \in Tree(i), j # i
    PROVE  j \in Tree(<<i[1], Midpoint(i)>>) \/ j \in Tree(<<Midpoint(i), i[2]>>)
<1> DEFINE a == <<i[1], Midpoint(i)>>
           b == <<Midpoint(i), i[2]>>
           S == {i} \cup Tree(a) \cup Tree(b)
<1>1. a \in Interval /\ b \in Interval
  BY MidpointInside
<1>2. /\ a \in Tree(a) /\ Tree(a) \in SUBSET Interval /\ Closed(Tree(a))
      /\ b \in Tree(b) /\ Tree(b) \in SUBSET Interval /\ Closed(Tree(b))
  BY <1>1, TreeIsLeast
<1>3. S \in SUBSET Interval /\ i \in S
  BY <1>2
<1>4. Closed(S)
  <2>1. ASSUME NEW k \in S, Load(k) > MaxResults, k[2] - k[1] > MinSlice
        PROVE  <<k[1], Midpoint(k)>> \in S /\ <<Midpoint(k), k[2]>> \in S
    <3>1. CASE k = i
      BY <1>2, <3>1
    <3>2. CASE k \in Tree(a)
      BY <1>2, <2>1, <3>2 DEF Closed
    <3>3. CASE k \in Tree(b)
      BY <1>2, <2>1, <3>3 DEF Closed
    <3>4. QED
      BY <3>1, <3>2, <3>3
  <2> HIDE DEF S
  <2>2. QED
    BY <2>1 DEF Closed
<1>5. j \in S
  <2> HIDE DEF S
  <2>1. QED
    BY <1>3, <1>4, TreeIsLeast
<1>6. QED
  BY <1>5

\* An interval with too many events that cannot be bisected has no leaf.
LEMMA StuckTree ==
    ASSUME NEW i \in Interval, ~(i[2] - i[1] > MinSlice)
    PROVE  Tree(i) = {i}
<1>1. Closed({i})
  BY DEF Closed
<1>2. QED
  BY <1>1, TreeIsLeast

\* Two leaves of one tree are the same or have no instant in common.
LEMMA LeavesApart ==
    ASSUME NEW top \in Interval, NEW l \in Leaves(top), NEW m \in Leaves(top)
    PROVE  l = m \/ Disjoint(l, m)
<1> DEFINE Apart(i) == \A p, q \in Leaves(i) : p = q \/ Disjoint(p, q)
           Bad == {n \in Nat : \E i \in Interval : i[2] - i[1] = n /\ ~Apart(i)}
<1>1. \A i \in Interval : i[1] \in Nat /\ i[2] \in Nat /\ i[2] - i[1] \in Nat
  BY DEF Interval
<1>2. ASSUME ~Apart(top) PROVE FALSE
  <2>1. Bad \in SUBSET Nat
    OBVIOUS
  <2>2. top[2] - top[1] \in Bad
    BY <1>1, <1>2
  <2>3. PICK n \in Bad : \A k \in Bad : n <= k
    <3> HIDE DEF Bad
    <3>1. QED
      BY <2>1, <2>2, LeastOf
  <2>4. PICK i \in Interval : i[2] - i[1] = n /\ ~Apart(i)
    OBVIOUS
  <2>5. \A j \in Interval : j[2] - j[1] < n => Apart(j)
    <3>1. ASSUME NEW j \in Interval, j[2] - j[1] < n PROVE j[2] - j[1] \notin Bad
      BY <1>1, <2>1, <2>3, <3>1
    <3>2. QED
      BY <1>1, <3>1
  <2> HIDE DEF Bad
  <2>6. PICK p \in Leaves(i), q \in Leaves(i) : p # q /\ ~Disjoint(p, q)
    BY <2>4
  <2>7. p \in Tree(i) /\ q \in Tree(i) /\ Load(p) <= MaxResults /\ Load(q) <= MaxResults
    BY <2>6 DEF Leaves
  <2>8. i[2] - i[1] > MinSlice
    BY <2>6, <2>7, StuckTree
  <2>9. p # i /\ q # i
    BY <2>6, <2>7, LeafTree
  <2> DEFINE a == <<i[1], Midpoint(i)>>
             b == <<Midpoint(i), i[2]>>
  <2>10. /\ Midpoint(i) \in Nat /\ i[1] < Midpoint(i) /\ Midpoint(i) < i[2]
         /\ a \in Interval /\ b \in Interval
    BY <2>8, MidpointInside
  <2>11. Apart(a) /\ Apart(b)
    <3>1. a[2] - a[1] < n /\ b[2] - b[1] < n
      BY <1>1, <2>4, <2>10
    <3> HIDE DEF Apart, a, b
    <3>2. QED
      BY <2>5, <2>10, <3>1
  <2>12. (p \in Tree(a) \/ p \in Tree(b)) /\ (q \in Tree(a) \/ q \in Tree(b))
    BY <2>7, <2>8, <2>9, BranchTree
  <2>13. ASSUME NEW x \in Tree(a), NEW y \in Tree(b) PROVE Disjoint(x, y) /\ Disjoint(y, x)
    <3>1. x[2] <= a[2] /\ b[1] <= y[1] /\ a[2] = Midpoint(i) /\ b[1] = Midpoint(i)
      BY <2>10, TreeInside
    <3>2. x[2] \in Nat /\ y[1] \in Nat
      BY <1>1, <2>10, TreeIsLeast
    <3>3. x[2] <= y[1]
      BY <2>10, <3>1, <3>2
    <3>4. QED
      BY <3>3 DEF Disjoint
  <2>14. CASE p \in Tree(a) /\ q \in Tree(a)
    BY <2>6, <2>7, <2>11, <2>14 DEF Leaves
  <2>15. CASE p \in Tree(b) /\ q \in Tree(b)
    BY <2>6, <2>7, <2>11, <2>15 DEF Leaves
  <2>16. QED
    BY <2>6, <2>12, <2>13, <2>14, <2>15
<1>3. QED
  BY <1>2

-----------------------------------------------------------------------------
(* No range is requested again                                                *)

\* The plan does not change from one invocation to the next: the ranges asked
\* for are intervals of one bisection, and what is still to be published takes
\* no interval of it over the limit.
SettledPlan(top) ==
    /\ \A x \in Ends : <<0, x>> \in Tree(top)
    /\ \A i \in Tree(top) :
          Load(i) > MaxResults => Cardinality(InSlice(i) \cap Early) > MaxResults

\* Every interval planned or recorded belongs to that bisection, what is kept
\* to its leaves, and nothing is retrieved that is recorded as retrieved.
Unrecorded(i) == \A w \in rows : w.lo = i[1] /\ w.hi = i[2] => w.status # "succeeded"
RefetchInv(top) ==
    /\ \A k \in 1 .. Len(agenda) : agenda[k] \in Tree(top)
    /\ \A k \in 1 .. Len(slices) : slices[k] \in Leaves(top)
    /\ \A w \in rows : w.status = "succeeded" => <<w.lo, w.hi>> \in Leaves(top)
    /\ pc \in {"fetching", "recording"} => Unrecorded(Slice)

\* Whatever is published by now, an interval of the bisection is kept exactly
\* when it is one of its leaves.
LEMMA KeptIsLeaf ==
    ASSUME NEW top \in Interval, SettledPlan(top), IInv, NEW i \in Tree(top)
    PROVE  /\ Count(i) <= MaxResults => i \in Leaves(top)
           /\ Count(i) > MaxResults => Load(i) > MaxResults
<1>1. Early \subseteq published /\ published \subseteq Event
  BY DEF IInv, IngestedInv, TypeOK
<1>2. MaxResults \in Nat
  BY BackfillAssumption
<1>3. /\ Load(i) \in Nat /\ Count(i) \in Nat
      /\ Cardinality(InSlice(i) \cap Early) \in Nat
      /\ Cardinality(InSlice(i) \cap Early) <= Count(i)
  <2>1. Early \in SUBSET published /\ published \in SUBSET Event /\ Early \in SUBSET Event
    BY <1>1
  <2>2. QED
    BY <2>1, LoadType DEF Count
<1>4. Count(i) <= Load(i)
  <2>1. InSlice(i) \cap Event = InSlice(i)
    BY DEF InSlice
  <2>2. Event \in SUBSET Event /\ published \in SUBSET Event
    BY <1>1
  <2>3. Cardinality(InSlice(i) \cap published) <= Cardinality(InSlice(i) \cap Event)
    BY <2>2, LoadType
  <2>4. QED
    BY <2>1, <2>3 DEF Count, Load
<1>5. Load(i) > MaxResults => Cardinality(InSlice(i) \cap Early) > MaxResults
  BY DEF SettledPlan
<1>6. Count(i) > MaxResults => Load(i) > MaxResults
  BY <1>2, <1>3, <1>4
<1>7. Count(i) <= MaxResults => Load(i) <= MaxResults
  BY <1>2, <1>3, <1>5
<1>8. QED
  BY <1>6, <1>7 DEF Leaves

\* A step of plan_time_partitions stays in the bisection.
LEMMA PlanRefetch ==
    ASSUME NEW top \in Interval, SettledPlan(top), IInv, RefetchInv(top), Plan
    PROVE  RefetchInv(top)'
<1> DEFINE h == Head(agenda)
<1>1. /\ pc = "planning" /\ pc' = pc /\ rows' = rows
      /\ agenda \in Seq(Interval) /\ slices \in Seq(Interval) /\ agenda # <<>>
  BY DEF Plan, IInv, TypeOK
<1>2. /\ h = agenda[1] /\ h \in Interval
      /\ Tail(agenda) \in Seq(Interval) /\ Len(Tail(agenda)) = Len(agenda) - 1
      /\ Len(agenda) \in Nat \ {0}
      /\ \A k \in 1 .. Len(Tail(agenda)) : Tail(agenda)[k] = agenda[k + 1]
  BY <1>1, HeadTailProperties, EmptySeq
<1>3. h \in Tree(top)
  BY <1>2 DEF RefetchInv
<1>4. \A k \in 1 .. Len(Tail(agenda)) : Tail(agenda)[k] \in Tree(top)
  BY <1>2 DEF RefetchInv
<1>5. /\ \A w \in rows' : w.status = "succeeded" => <<w.lo, w.hi>> \in Leaves(top)'
      /\ ~(pc' \in {"fetching", "recording"})
  BY <1>1 DEF RefetchInv, Leaves, Tree, Closed, Load, InSlice, Midpoint
<1>6. Tree(top)' = Tree(top) /\ Leaves(top)' = Leaves(top)
  BY DEF Leaves, Tree, Closed, Load, InSlice, Midpoint
<1>7. CASE Count(h) <= MaxResults /\ slices' = Append(slices, h) /\ agenda' = Tail(agenda)
  <2>1. h \in Leaves(top)
    BY <1>3, <1>7, KeptIsLeaf
  <2>2. Len(slices') = Len(slices) + 1 /\ Len(slices) \in Nat
    BY <1>1, <1>2, <1>7, AppendProperties, LenProperties
  <2>3. /\ \A k \in 1 .. Len(slices) : slices'[k] = slices[k]
        /\ slices'[Len(slices) + 1] = h
    BY <1>1, <1>2, <1>7, AppendProperties
  <2>4. \A k \in 1 .. Len(slices') : slices'[k] \in Leaves(top)
    BY <2>1, <2>2, <2>3 DEF RefetchInv
  <2>5. QED
    BY <1>4, <1>5, <1>6, <1>7, <2>4 DEF RefetchInv
<1>8. CASE /\ Count(h) > MaxResults /\ h[2] - h[1] > MinSlice /\ slices' = slices
           /\ agenda' = <<<<h[1], Midpoint(h)>>, <<Midpoint(h), h[2]>>>> \o Tail(agenda)
  <2> DEFINE a == <<h[1], Midpoint(h)>>
             b == <<Midpoint(h), h[2]>>
  <2>1. a \in Interval /\ b \in Interval
    BY <1>2, <1>8, MidpointInside
  <2>2. a \in Tree(top) /\ b \in Tree(top)
    <3>1. Load(h) > MaxResults
      BY <1>3, <1>8, KeptIsLeaf
    <3>2. Closed(Tree(top))
      BY TreeIsLeast
    <3>3. QED
      BY <1>3, <1>8, <3>1, <3>2 DEF Closed
  <2>3. <<a, b>> \in Seq(Interval) /\ Len(<<a, b>>) = 2 /\ <<a, b>>[1] = a /\ <<a, b>>[2] = b
    BY <2>1
  <2>4. agenda' = <<a, b>> \o Tail(agenda)
    BY <1>8
  <2> HIDE DEF a, b
  <2>5. /\ Len(agenda') = 2 + Len(Tail(agenda)) /\ Len(Tail(agenda)) \in Nat
        /\ \A k \in 1 .. 2 + Len(Tail(agenda)) :
              agenda'[k] = IF k <= 2 THEN <<a, b>>[k] ELSE Tail(agenda)[k - 2]
    BY <1>2, <2>3, <2>4, ConcatProperties, LenProperties
  <2>6. ASSUME NEW k \in 1 .. Len(agenda') PROVE agenda'[k] \in Tree(top)
    <3>1. CASE k = 1 \/ k = 2
      BY <2>2, <2>3, <2>5, <3>1
    <3>2. CASE k # 1 /\ k # 2
      <4>1. k - 2 \in 1 .. Len(Tail(agenda)) /\ ~(k <= 2)
        BY <2>5, <3>2
      <4>2. agenda'[k] = Tail(agenda)[k - 2]
        BY <2>5, <4>1
      <4>3. QED
        BY <1>4, <4>1, <4>2
    <3>3. QED
      BY <3>1, <3>2
  <2>7. QED
    BY <1>5, <1>6, <1>8, <2>6 DEF RefetchInv
<1>9. QED
  BY <1>7, <1>8 DEF Plan

\* The tables of an interval recorded as it was retrieved, or as a failure.
LEMMA RecordRefetch ==
    ASSUME NEW top \in Interval, IInv, RefetchInv(top), Record \/ RecordFailure
    PROVE  RefetchInv(top)'
<1>0. Leaves(top)' = Leaves(top) /\ Tree(top)' = Tree(top)
  BY DEF Leaves, Tree, Closed, Load, InSlice, Midpoint
<1>1. /\ pc \in {"recording", "failing"} /\ pc' = "checking"
      /\ UNCHANGED <<agenda, slices>>
      /\ rows' = Recorded(Slice, "succeeded") \/ rows' = Recorded(Slice, "failed")
  BY DEF Record, RecordFailure, NextSlice, planVars
<1>2. current \in 1 .. Len(slices)
  <2>1. slices \in Seq(Interval) /\ Len(slices) \in Nat
    BY LenProperties DEF IInv, TypeOK
  <2>2. current \in 1 .. Len(slices) + 1 /\ current <= Len(slices)
    BY <1>1 DEF IInv, LoopInv, Loop
  <2>3. QED
    BY <2>1, <2>2
<1>3. Slice \in Leaves(top) /\ Slice = <<Slice[1], Slice[2]>>
  BY <1>2, SliceType DEF RefetchInv, Slice
<1>4. ASSUME NEW w \in rows', w.status = "succeeded" PROVE <<w.lo, w.hi>> \in Leaves(top)
  BY <1>1, <1>3, <1>4 DEF Recorded, RowOf, RefetchInv
<1>5. QED
  BY <1>0, <1>1, <1>4 DEF RefetchInv

\* With a settled plan, every step keeps slices and rows to the leaves of the
\* bisection, and the slice under way without a row.
LEMMA NextRefetch ==
    ASSUME NEW top \in Interval, SettledPlan(top), IInv, RefetchInv(top), [Next]_vars
    PROVE  RefetchInv(top)'
<1>0. Leaves(top)' = Leaves(top) /\ Tree(top)' = Tree(top)
  BY DEF Leaves, Tree, Closed, Load, InSlice, Midpoint
<1>1. CASE \E x \in Ends : Start(x)
  <2>1. PICK x \in Ends : Start(x)
    BY <1>1
  <2>2. /\ agenda' = <<<<0, x>>>> /\ slices' = <<>> /\ rows' = rows /\ pc' = "planning"
    BY <2>1 DEF Start
  <2>3. <<0, x>> \in Tree(top)
    BY DEF SettledPlan
  <2>4. /\ \A k \in 1 .. Len(agenda') : agenda'[k] \in Tree(top)
        /\ \A k \in 1 .. Len(slices') : slices'[k] \in Leaves(top)
    BY <2>2, <2>3
  <2>5. QED
    BY <1>0, <2>2, <2>4 DEF RefetchInv
<1>2. CASE Plan
  BY <1>2, PlanRefetch
<1>3. CASE Check
  <2>1. UNCHANGED <<agenda, slices, rows>> /\ pc = "checking"
    BY <1>3 DEF Check, planVars
  <2>2. CASE \E w \in RowOf(Slice) : w.status = "succeeded"
    <3>1. pc' = "checking"
      BY <1>3, <2>2 DEF Check, NextSlice
    <3>2. QED
      BY <1>0, <2>1, <3>1 DEF RefetchInv
  <2>3. CASE ~(\E w \in RowOf(Slice) : w.status = "succeeded")
    <3>1. UNCHANGED current
      BY <1>3, <2>3 DEF Check
    <3>2. Unrecorded(Slice)
      BY <2>3 DEF Unrecorded, RowOf
    <3>3. Unrecorded(Slice)'
      BY <2>1, <3>1, <3>2 DEF Unrecorded, Slice
    <3>4. QED
      BY <1>0, <2>1, <3>3 DEF RefetchInv
  <2>4. QED
    BY <2>2, <2>3
<1>4. CASE Fetch \/ FetchRaises \/ RecordRaises
  <2>1. UNCHANGED <<agenda, slices, rows, current>> /\ pc \in {"fetching", "recording"}
    BY <1>4 DEF Fetch, FetchRaises, RecordRaises, planVars
  <2>2. Unrecorded(Slice)'
    BY <2>1 DEF RefetchInv, Unrecorded, Slice
  <2>3. QED
    BY <1>0, <2>1, <2>2 DEF RefetchInv
<1>5. CASE Record \/ RecordFailure
  BY <1>5, RecordRefetch
<1>6. CASE PlanRaises \/ PlanDone \/ RecordFailureRaises \/ Return \/ Crash
  <2>1. UNCHANGED <<agenda, slices, rows>> /\ ~(pc' \in {"fetching", "recording"})
    BY <1>6 DEF PlanRaises, PlanDone, RecordFailureRaises, Return, Crash, planVars
  <2>2. QED
    BY <1>0, <2>1 DEF RefetchInv
<1>7. CASE (\E e \in Event : Publish(e)) \/ UNCHANGED vars
  <2>1. UNCHANGED <<agenda, slices, rows, pc, current>>
    BY <1>7 DEF Publish, vars, planVars, loopVars
  <2>2. QED
    BY <1>0, <2>1 DEF RefetchInv, Unrecorded, Slice
<1>8. QED
  BY <1>1, <1>2, <1>3, <1>4, <1>5, <1>6, <1>7 DEF Next, Command

\* A time range recorded as ingested is not requested again, by any number of
\* invocations that fail and die anywhere, as long as the plan does not change.
\* The hypothesis is needed: a value of --end off the bisection of the others,
\* or an event that takes a recorded slice over the limit, makes a later
\* invocation plan other slices, which it does not find in the table.
THEOREM NoRefetchHolds ==
    ASSUME NEW top \in Interval, SettledPlan(top)
    PROVE  Spec => NoRefetch
<1>1. Init => RefetchInv(top)
  BY DEF Init, RefetchInv
<1>2. IInv /\ RefetchInv(top) /\ [Next]_vars => RefetchInv(top)'
  BY NextRefetch
<1>3. ASSUME IInv, RefetchInv(top), Next, pc = "fetching", pc' = "recording",
             NEW w \in rows, w.status = "succeeded"
      PROVE  w.hi <= Slice[1] \/ Slice[2] <= w.lo
  <2>1. current \in 1 .. Len(slices)
    <3>1. slices \in Seq(Interval) /\ Len(slices) \in Nat
      BY <1>3, LenProperties DEF IInv, TypeOK
    <3>2. current \in 1 .. Len(slices) + 1 /\ current <= Len(slices)
      BY <1>3 DEF IInv, LoopInv, Loop
    <3>3. QED
      BY <3>1, <3>2
  <2>2. Slice \in Leaves(top) /\ <<w.lo, w.hi>> \in Leaves(top) /\ Unrecorded(Slice)
    BY <1>3, <2>1 DEF RefetchInv, Slice
  <2>3. <<w.lo, w.hi>> # Slice
    BY <1>3, <2>2 DEF Unrecorded
  <2>4. Disjoint(<<w.lo, w.hi>>, Slice)
    BY <2>2, <2>3, LeavesApart
  <2>5. QED
    BY <2>4 DEF Disjoint
<1>4. IInv /\ RefetchInv(top) /\ [Next]_vars =>
         [pc = "fetching" /\ pc' = "recording" =>
            \A w \in rows : w.status = "succeeded" => w.hi <= Slice[1] \/ Slice[2] <= w.lo]_vars
  BY <1>3
<1>5. QED
  BY <1>1, <1>2, <1>4, Invariance, PTL DEF Spec, NoRefetch

\* In particular: the same command, given again and again for a range of which
\* the source has nothing new to report, requests no slice it has recorded.
THEOREM SameCommandNeverRefetches ==
    ASSUME NEW x \in Ends, Ends = {x}, Early = Event
    PROVE  Spec => NoRefetch
<1>1. <<0, x>> \in Interval
  BY BackfillAssumption DEF Interval
<1>2. <<0, x>> \in Tree(<<0, x>>)
  BY <1>1, TreeIsLeast
<1>3. \A i : InSlice(i) \cap Early = InSlice(i)
  BY DEF InSlice
<1>4. SettledPlan(<<0, x>>)
  BY <1>2, <1>3 DEF SettledPlan, Load
<1>5. QED
  BY <1>1, <1>4, NoRefetchHolds

-----------------------------------------------------------------------------
(* The command ends                                                           *)

\* The steps the command may still take, at most: planning takes two for every
\* instant of the range, whatever is published meanwhile; a slice takes two for
\* each attempt, one to look for its row and one to record that it failed.
PerSlice == 2 * MaxRetries + 2
SlicesLeft == Len(slices) + 1 - current
StepsLeft ==
    CASE pc = "planning" -> 2 * end - (2 * Len(slices) + Len(agenda)) + end * PerSlice + 2
      [] pc = "checking" -> SlicesLeft * PerSlice + 1
      [] pc = "fetching" -> (SlicesLeft - 1) * PerSlice + 2 * (MaxRetries - attempt) + 4
      [] pc = "recording" -> (SlicesLeft - 1) * PerSlice + 2 * (MaxRetries - attempt) + 3
      [] pc = "failing" -> (SlicesLeft - 1) * PerSlice + 2
      [] OTHER -> 0

\* Intervals of positive length that follow one another in a range of x
\* instants are at most x.
LEMMA PiecesAreFew ==
    ASSUME NEW x \in Nat, NEW s, Partition(s, x)
    PROVE  Len(s) \in Nat /\ Len(s) <= x
<1> DEFINE Bad == {k \in 1 .. Len(s) : ~(k <= s[k][2])}
<1>1. /\ Len(s) \in Nat
      /\ \A k \in 1 .. Len(s) : s[k][1] \in Nat /\ s[k][2] \in Nat /\ s[k][1] < s[k][2]
      /\ \A k \in 1 .. Len(s) : s[k][2] <= x
      /\ \A j, k \in 1 .. Len(s) : j < k => s[j][2] <= s[k][1]
  BY LenProperties, ElementOfSeq DEF Partition, Interval
<1>2. Bad = {}
  <2>1. SUFFICES ASSUME Bad # {} PROVE FALSE
    OBVIOUS
  <2>2. Bad \in SUBSET Nat
    BY <1>1
  <2>3. PICK k \in Bad : \A j \in Bad : k <= j
    <3> HIDE DEF Bad
    <3>1. QED
      BY <2>1, <2>2, LeastOf
  <2>4. k \in 1 .. Len(s) /\ ~(k <= s[k][2])
    OBVIOUS
  <2>5. k # 1
    BY <1>1, <2>4
  <2>6. k - 1 \in 1 .. Len(s) /\ k - 1 < k /\ ~(k <= k - 1)
    BY <1>1, <2>4, <2>5
  <2>7. k - 1 \notin Bad
    <3> HIDE DEF Bad
    <3>1. QED
      BY <2>3, <2>6
  <2>8. k - 1 <= s[k - 1][2]
    BY <2>6, <2>7
  <2>9. s[k - 1][2] <= s[k][1] /\ s[k][1] < s[k][2]
    BY <1>1, <2>4, <2>6
  <2>10. s[k - 1][2] \in Nat /\ s[k][1] \in Nat /\ s[k][2] \in Nat /\ k \in Nat
    BY <1>1, <2>4, <2>6
  <2>11. QED
    BY <2>4, <2>8, <2>9, <2>10
<1>3. ASSUME Len(s) # 0 PROVE Len(s) <= x
  <2>1. Len(s) \in 1 .. Len(s)
    BY <1>1, <1>3
  <2>2. Len(s) <= s[Len(s)][2] /\ s[Len(s)][2] <= x /\ s[Len(s)][2] \in Nat
    BY <1>1, <1>2, <2>1
  <2>3. QED
    BY <1>1, <2>2
<1>4. QED
  BY <1>1, <1>3

\* Multiplying by a fixed number of steps is monotone.
LEMMA Products ==
    ASSUME NEW c \in Nat
    PROVE  /\ \A a \in Nat : a * c \in Nat /\ (a + 1) * c = a * c + c
           /\ \A a, b \in Nat : a <= b => a * c <= b * c
<1>1. \A a \in Nat : a * c \in Nat /\ (a + 1) * c = a * c + c
  BY Z3
<1>2. \A a, b \in Nat : a <= b => a * c <= b * c
  <2>1. SUFFICES ASSUME NEW a \in Nat, NEW b \in Nat, a <= b PROVE a * c <= b * c
    OBVIOUS
  <2>2. PICK d \in Nat : b = a + d
    <3>1. b - a \in Nat /\ b = a + (b - a)
      BY <2>1
    <3>2. QED
      BY <3>1
  <2>3. (a + d) * c = a * c + d * c /\ d * c \in Nat /\ a * c \in Nat
    BY Z3
  <2>4. QED
    BY <2>2, <2>3
<1>3. QED
  BY <1>1, <1>2

\* How many slices and pieces there can be, and what a slice costs.
LEMMA Sizes ==
    ASSUME IInv
    PROVE  /\ PerSlice \in Nat /\ MaxRetries \in Nat \ {0} /\ attempt \in 1 .. MaxRetries
           /\ Len(slices) \in Nat /\ Len(agenda) \in Nat
           /\ starts > 0 => end \in Nat /\ Len(slices) + Len(agenda) <= end
           /\ pc \in Loop => /\ SlicesLeft \in Nat
                             /\ pc \in {"fetching", "recording", "failing"} => SlicesLeft - 1 \in Nat
           /\ pc = "planning" => starts > 0 /\ SlicesLeft = Len(slices)
<1>1. MaxRetries \in Nat \ {0} /\ PerSlice \in Nat
  BY BackfillAssumption DEF PerSlice
<1>2. /\ attempt \in 1 .. MaxRetries /\ slices \in Seq(Interval) /\ agenda \in Seq(Interval)
      /\ Len(slices) \in Nat /\ Len(agenda) \in Nat /\ current \in Nat
  BY LenProperties DEF IInv, TypeOK
<1>3. starts > 0 => end \in Nat /\ Len(slices) + Len(agenda) <= end
  <2>1. SUFFICES ASSUME starts > 0 PROVE end \in Nat /\ Len(slices) + Len(agenda) <= end
    OBVIOUS
  <2>2. end \in Nat /\ Partition(slices \o agenda, end)
    BY <2>1 DEF IInv, PlanInv, Pieces
  <2>3. Len(slices \o agenda) = Len(slices) + Len(agenda)
    BY <1>2, PieceAt
  <2>4. QED
    BY <2>2, <2>3, PiecesAreFew
<1>4. ASSUME pc \in Loop
      PROVE  /\ SlicesLeft \in Nat
             /\ pc \in {"fetching", "recording", "failing"} => SlicesLeft - 1 \in Nat
  <2>1. current \in 1 .. Len(slices) + 1
    BY <1>4 DEF IInv, LoopInv
  <2>2. pc \in {"fetching", "recording", "failing"} => current <= Len(slices)
    BY DEF IInv, LoopInv
  <2>3. QED
    BY <1>2, <2>1, <2>2 DEF SlicesLeft
<1>5. ASSUME pc = "planning" PROVE starts > 0 /\ SlicesLeft = Len(slices)
  <2>1. starts > 0 /\ current = 1
    BY <1>5 DEF IInv, LoopInv, CountInv
  <2>2. QED
    BY <1>2, <2>1 DEF SlicesLeft
<1>6. QED
  BY <1>1, <1>2, <1>3, <1>4, <1>5

\* The steps left are a natural number in every state of the command.
LEMMA StepsAreNumbers == IInv => StepsLeft \in Nat
<1> SUFFICES ASSUME IInv PROVE StepsLeft \in Nat
  OBVIOUS
<1>1. pc \in Working \cup Stopped
  BY DEF IInv, TypeOK
<1>2. CASE pc = "planning"
  <2>1. /\ end \in Nat /\ Len(slices) \in Nat /\ Len(agenda) \in Nat
        /\ Len(slices) + Len(agenda) <= end /\ end * PerSlice \in Nat
    BY <1>2, Sizes, Products
  <2>2. QED
    BY <1>2, <2>1 DEF StepsLeft
<1>3. CASE pc = "checking"
  <2>1. SlicesLeft * PerSlice \in Nat
    BY <1>3, Sizes, Products DEF Loop
  <2>2. QED
    BY <1>3, <2>1 DEF StepsLeft
<1>4. CASE pc \in {"fetching", "recording", "failing"}
  <2>1. (SlicesLeft - 1) * PerSlice \in Nat
    BY <1>4, Sizes, Products DEF Loop
  <2>2. MaxRetries - attempt \in Nat
    BY Sizes
  <2>3. QED
    BY <1>4, <2>1, <2>2 DEF StepsLeft
<1>5. CASE pc \in Stopped
  BY <1>5 DEF StepsLeft, Stopped
<1>6. QED
  BY <1>1, <1>2, <1>3, <1>4, <1>5 DEF Working

\* Each step of the command leaves fewer.
LEMMA PlanShortens == ASSUME IInv, Plan PROVE StepsLeft' < StepsLeft
<1> DEFINE h == Head(agenda)
<1>1. /\ pc = "planning" /\ pc' = pc /\ agenda # <<>> /\ end' = end
      /\ agenda \in Seq(Interval) /\ slices \in Seq(Interval)
  BY DEF Plan, IInv, TypeOK
<1>2. /\ end \in Nat /\ Len(slices) \in Nat /\ Len(agenda) \in Nat /\ end * PerSlice \in Nat
  BY <1>1, Sizes, Products
<1>3. h \in Interval /\ Tail(agenda) \in Seq(Interval) /\ Len(Tail(agenda)) = Len(agenda) - 1
  BY <1>1, HeadTailProperties
<1>4. 2 * Len(slices') + Len(agenda') = 2 * Len(slices) + Len(agenda) + 1
  <2>1. CASE slices' = Append(slices, h) /\ agenda' = Tail(agenda)
    <3>1. Len(slices') = Len(slices) + 1
      BY <1>1, <1>3, <2>1, AppendProperties
    <3>2. QED
      BY <1>2, <1>3, <2>1, <3>1
  <2>2. CASE /\ h[2] - h[1] > MinSlice /\ slices' = slices
             /\ agenda' = <<<<h[1], Midpoint(h)>>, <<Midpoint(h), h[2]>>>> \o Tail(agenda)
    <3> DEFINE two == <<<<h[1], Midpoint(h)>>, <<Midpoint(h), h[2]>>>>
    <3>1. two \in Seq(Interval) /\ Len(two) = 2
      BY <1>3, <2>2, MidpointInside
    <3>2. Len(agenda') = 2 + Len(Tail(agenda))
      <4> HIDE DEF two
      <4>1. agenda' = two \o Tail(agenda)
        BY <2>2 DEF two
      <4>2. Len(two \o Tail(agenda)) = Len(two) + Len(Tail(agenda))
        BY <1>3, <3>1, ConcatProperties
      <4>3. QED
        BY <3>1, <4>1, <4>2
    <3>3. QED
      BY <1>2, <1>3, <2>2, <3>2
  <2>3. QED
    BY <2>1, <2>2 DEF Plan
<1>5. StepsLeft = 2 * end - (2 * Len(slices) + Len(agenda)) + end * PerSlice + 2
  BY <1>1 DEF StepsLeft
<1>6. StepsLeft' = 2 * end - (2 * Len(slices') + Len(agenda')) + end * PerSlice + 2
  BY <1>1 DEF StepsLeft, PerSlice
<1>7. QED
  BY <1>2, <1>4, <1>5, <1>6

\* The end of the planning uses up a step.
LEMMA PlanDoneShortens == ASSUME IInv, PlanDone PROVE StepsLeft' < StepsLeft
<1>1. /\ pc = "planning" /\ pc' = "checking" /\ agenda = <<>>
      /\ UNCHANGED <<slices, current>>
  BY DEF PlanDone, planVars, loopVars
<1>2. SlicesLeft = Len(slices) /\ SlicesLeft \in Nat /\ SlicesLeft <= end /\ end \in Nat /\ Len(agenda) = 0
  BY <1>1, Sizes
<1>3. SlicesLeft * PerSlice <= end * PerSlice /\ SlicesLeft * PerSlice \in Nat /\ end * PerSlice \in Nat
  BY <1>2, Sizes, Products
<1>4. StepsLeft = 2 * end - 2 * Len(slices) + end * PerSlice + 2
  BY <1>1, <1>2 DEF StepsLeft
<1>5. StepsLeft' = SlicesLeft * PerSlice + 1
  BY <1>1 DEF StepsLeft, SlicesLeft, PerSlice
<1>6. QED
  BY <1>2, <1>3, <1>4, <1>5

\* One slice fewer: NextSlice.
LEMMA SliceShortens ==
    ASSUME IInv, pc \in Loop, current <= Len(slices),
           pc' = "checking", current' = current + 1, slices' = slices
    PROVE  /\ StepsLeft' = (SlicesLeft - 1) * PerSlice + 1
           /\ SlicesLeft - 1 \in Nat /\ (SlicesLeft - 1) * PerSlice \in Nat
           /\ SlicesLeft * PerSlice = (SlicesLeft - 1) * PerSlice + PerSlice
<1>1. Len(slices) \in Nat /\ PerSlice \in Nat /\ SlicesLeft \in Nat
  BY Sizes
<1>2. current \in Nat
  BY DEF IInv, TypeOK
<1>3. SlicesLeft - 1 \in Nat /\ SlicesLeft = (SlicesLeft - 1) + 1 /\ SlicesLeft' = SlicesLeft - 1
  BY <1>1, <1>2 DEF SlicesLeft
<1>4. /\ (SlicesLeft - 1) * PerSlice \in Nat
      /\ ((SlicesLeft - 1) + 1) * PerSlice = (SlicesLeft - 1) * PerSlice + PerSlice
  BY <1>1, <1>3, Products
<1>5. StepsLeft' = SlicesLeft' * PerSlice + 1
  BY DEF StepsLeft, PerSlice
<1>6. QED
  BY <1>3, <1>4, <1>5

\* Looking a slice up uses up a step.
LEMMA CheckShortens == ASSUME IInv, Check PROVE StepsLeft' < StepsLeft
<1>1. pc = "checking" /\ current <= Len(slices) /\ slices' = slices /\ pc \in Loop
  BY DEF Check, planVars, Loop
<1>2. MaxRetries \in Nat /\ PerSlice \in Nat /\ attempt \in 1 .. MaxRetries
  BY Sizes
<1>3. StepsLeft = SlicesLeft * PerSlice + 1
  BY <1>1 DEF StepsLeft
<1>4. CASE pc' = "checking" /\ current' = current + 1
  <2>1. /\ StepsLeft' = (SlicesLeft - 1) * PerSlice + 1
        /\ (SlicesLeft - 1) * PerSlice \in Nat
        /\ SlicesLeft * PerSlice = (SlicesLeft - 1) * PerSlice + PerSlice
    BY <1>1, <1>4, SliceShortens
  <2>2. PerSlice > 0
    BY <1>2 DEF PerSlice
  <2>3. QED
    BY <1>2, <1>3, <2>1, <2>2
<1>5. CASE pc' = "fetching" /\ UNCHANGED <<current, attempt>>
  <2>1. SlicesLeft \in Nat /\ current \in Nat /\ Len(slices) \in Nat
    BY <1>1, Sizes DEF IInv, TypeOK
  <2>2. SlicesLeft - 1 \in Nat /\ SlicesLeft = (SlicesLeft - 1) + 1
    BY <1>1, <2>1 DEF SlicesLeft
  <2>3. /\ (SlicesLeft - 1) * PerSlice \in Nat
        /\ ((SlicesLeft - 1) + 1) * PerSlice = (SlicesLeft - 1) * PerSlice + PerSlice
    BY <1>2, <2>2, Products
  <2>4. StepsLeft' = (SlicesLeft - 1) * PerSlice + 2 * (MaxRetries - attempt) + 4
    BY <1>1, <1>5 DEF StepsLeft, SlicesLeft, PerSlice
  <2>5. 2 * (MaxRetries - attempt) + 4 <= PerSlice
    BY <1>2 DEF PerSlice
  <2>6. QED
    BY <1>2, <1>3, <2>2, <2>3, <2>4, <2>5
<1>6. QED
  BY <1>4, <1>5 DEF Check, NextSlice

\* An attempt: the slice stays, and what is left of it shrinks.
LEMMA AttemptShortens ==
    ASSUME IInv, Fetch \/ FetchRaises \/ RecordRaises \/ Record \/ RecordFailure
    PROVE  StepsLeft' < StepsLeft
<1> DEFINE rest == (SlicesLeft - 1) * PerSlice
<1>1. pc \in {"fetching", "recording", "failing"} /\ pc \in Loop /\ slices' = slices
  BY DEF Fetch, FetchRaises, RecordRaises, Record, RecordFailure, planVars, Loop
<1>2. /\ MaxRetries \in Nat /\ attempt \in 1 .. MaxRetries /\ rest \in Nat
  BY <1>1, Sizes, Products
<1>3. /\ pc = "fetching" => StepsLeft = rest + 2 * (MaxRetries - attempt) + 4
      /\ pc = "recording" => StepsLeft = rest + 2 * (MaxRetries - attempt) + 3
      /\ pc = "failing" => StepsLeft = rest + 2
  BY DEF StepsLeft
<1>4. CASE Record \/ RecordFailure
  <2>1. pc \in {"recording", "failing"} /\ pc' = "checking" /\ current' = current + 1
    BY <1>4 DEF Record, RecordFailure, NextSlice
  <2>2. current <= Len(slices)
    BY <1>1 DEF IInv, LoopInv
  <2>3. StepsLeft' = rest + 1
    BY <1>1, <2>1, <2>2, SliceShortens
  <2> HIDE DEF rest
  <2>4. QED
    BY <1>2, <1>3, <2>1, <2>3
<1>5. CASE Fetch \/ FetchRaises \/ RecordRaises
  <2>1. current' = current
    BY <1>5 DEF Fetch, FetchRaises, RecordRaises
  <2>2. SlicesLeft' = SlicesLeft /\ PerSlice' = PerSlice
    BY <1>1, <2>1 DEF SlicesLeft, PerSlice
  <2>3. /\ pc' = "fetching" => StepsLeft' = rest + 2 * (MaxRetries - attempt') + 4
        /\ pc' = "recording" => StepsLeft' = rest + 2 * (MaxRetries - attempt') + 3
        /\ pc' = "failing" => StepsLeft' = rest + 2
    BY <2>2 DEF StepsLeft
  <2> HIDE DEF rest
  <2>4. CASE Fetch
    <3>1. pc = "fetching" /\ pc' = "recording" /\ attempt' = attempt
      BY <2>4 DEF Fetch
    <3>2. QED
      BY <1>2, <1>3, <2>3, <3>1
  <2>5. CASE FetchRaises \/ RecordRaises
    <3>1. pc \in {"fetching", "recording"} /\ Retry
      BY <2>5 DEF FetchRaises, RecordRaises
    <3>2. \/ attempt' = attempt + 1 /\ pc' = "fetching"
          \/ pc' = "failing"
      BY <3>1 DEF Retry
    <3>3. QED
      BY <1>2, <1>3, <2>3, <3>1, <3>2
  <2>6. QED
    BY <1>5, <2>4, <2>5
<1>6. QED
  BY <1>4, <1>5

\* The command returns or raises.
LEMMA EndShortens ==
    ASSUME IInv, PlanRaises \/ RecordFailureRaises \/ Return
    PROVE  StepsLeft' < StepsLeft
<1>1. StepsLeft' = 0
  BY DEF PlanRaises, RecordFailureRaises, Return, StepsLeft
<1>2. pc \in {"planning", "failing", "checking"}
  BY DEF PlanRaises, RecordFailureRaises, Return
<1>3. CASE pc = "planning"
  <2>1. /\ end \in Nat /\ Len(slices) \in Nat /\ Len(agenda) \in Nat
        /\ Len(slices) + Len(agenda) <= end /\ end * PerSlice \in Nat
    BY <1>3, Sizes, Products
  <2>2. QED
    BY <1>1, <1>3, <2>1 DEF StepsLeft
<1>4. CASE pc = "checking"
  <2>1. SlicesLeft * PerSlice \in Nat
    BY <1>4, Sizes, Products DEF Loop
  <2>2. QED
    BY <1>1, <1>4, <2>1 DEF StepsLeft
<1>5. CASE pc = "failing"
  <2>1. (SlicesLeft - 1) * PerSlice \in Nat
    BY <1>5, Sizes, Products DEF Loop
  <2>2. QED
    BY <1>1, <1>5, <2>1 DEF StepsLeft
<1>6. QED
  BY <1>2, <1>3, <1>4, <1>5

\* An invocation for a range of x instants takes at most a number of steps
\* that depends on x and MaxRetries only: bisection comes to an end although
\* the counts change under it, and so do the retries.  With the fairness of
\* FairSpec, this is why CommandEnds holds.
THEOREM CommandIsBounded ==
    Spec => [][/\ \A x \in Ends : Start(x) => StepsLeft' = x * (PerSlice + 2) + 1
               /\ Command => StepsLeft \in Nat /\ StepsLeft' \in Nat /\ StepsLeft' < StepsLeft
               /\ (\E e \in Event : Publish(e)) => StepsLeft' = StepsLeft]_vars
<1>1. ASSUME NEW x \in Ends, Start(x) PROVE StepsLeft' = x * (PerSlice + 2) + 1
  <2>1. pc' = "planning" /\ end' = x /\ agenda' = <<<<0, x>>>> /\ slices' = <<>>
    BY <1>1 DEF Start
  <2>2. Len(agenda') = 1 /\ Len(slices') = 0
    BY <2>1
  <2>3. x \in Nat /\ PerSlice \in Nat
    BY BackfillAssumption DEF PerSlice
  <2>4. StepsLeft' = 2 * x - 1 + x * PerSlice + 2
    BY <2>1, <2>2, <2>3 DEF StepsLeft, PerSlice
  <2>5. \A p \in Nat : x * (p + 2) = x * p + 2 * x /\ x * p \in Nat
    BY <2>3, Z3
  <2>6. x * (PerSlice + 2) = x * PerSlice + 2 * x /\ x * PerSlice \in Nat
    BY <2>3, <2>5
  <2>7. QED
    BY <2>3, <2>4, <2>6
<1>2. ASSUME IInv, Command PROVE StepsLeft' < StepsLeft
  BY <1>2, PlanShortens, PlanDoneShortens, CheckShortens, AttemptShortens, EndShortens
     DEF Command
<1>3. ASSUME NEW e \in Event, Publish(e) PROVE StepsLeft' = StepsLeft
  BY <1>3 DEF Publish, planVars, loopVars, StepsLeft, SlicesLeft, PerSlice
<1>4. IInv /\ StepsLeft \in Nat /\ (StepsLeft \in Nat)' =>
         /\ \A x \in Ends : Start(x) => StepsLeft' = x * (PerSlice + 2) + 1
         /\ Command => StepsLeft \in Nat /\ StepsLeft' \in Nat /\ StepsLeft' < StepsLeft
         /\ (\E e \in Event : Publish(e)) => StepsLeft' = StepsLeft
  BY <1>1, <1>2, <1>3
<1>5. QED
  BY <1>4, StepsAreNumbers, Invariance, PTL

=============================================================================
