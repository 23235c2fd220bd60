-------------------------- MODULE FoldCounts_proofs --------------------------
(* An event is scored in the row of the forecast whose bounds hold it, and in *)
(* no other: counting by division and first bin is counting by bounds, and    *)
(* the counts of the rows add up to the events scored.                        *)
EXTENDS FoldCounts, FiniteSetTheorems, WellFoundedInduction, TLAPS

\* The estimable rows of a forecast.
Rows(reference) == {row \in Cell \X DOMAIN Bins : Estimable(row[2], reference)}

\* The floor division the cell arithmetic uses is the quotient that brackets its
\* dividend.
LEMMA Quotient ==
    ASSUME NEW a \in Int, NEW r \in Nat \ {0}, NEW q \in Int
    PROVE  a \div r = q <=> r * q <= a /\ a < r * (q + 1)
  BY Z3

\* No magnitude is in two bins.
LEMMA BinsDisjoint ==
    ASSUME NEW i \in DOMAIN Bins, NEW j \in DOMAIN Bins, NEW m \in Int,
           InBin(m, Bins[i]), InBin(m, Bins[j])
    PROVE  i = j
<1> DEFINE Bin == [lower : Int, upper : Int \cup {None}]
<1>0. Bins \in Seq(Bin)
  BY FoldCountsAssumption
<1>1. /\ DOMAIN Bins \subseteq Int
      /\ \A k \in DOMAIN Bins : Bins[k].lower \in Int /\ Bins[k].upper \in Int \cup {None}
  <2>1. DOMAIN Bins \subseteq Int /\ \A k \in DOMAIN Bins : Bins[k] \in Bin
    <3> HIDE DEF Bin
    <3> QED
      BY <1>0
  <2> QED
    BY <2>1
<1>2. ASSUME NEW k \in DOMAIN Bins, NEW l \in DOMAIN Bins, k < l,
             InBin(m, Bins[k]), InBin(m, Bins[l])
      PROVE  FALSE
  BY <1>1, <1>2, BinsAscending DEF InBin
<1> QED
  BY <1>1, <1>2

\* _cell_id_for_point gives a point the cell of iter_cells that holds it.
THEOREM CellByBounds ==
    ASSUME NEW ev \in Event, NEW c \in Cell
    PROVE  CellOf(At[ev]) = c <=> InCell(At[ev], c)
<1> DEFINE p == At[ev]
           y == p.lat - Grid.south
           x == p.lon - Grid.west
           r == Grid.resolution
           d == <<y \div r, x \div r>>
<1>1. /\ p.lat \in Int /\ p.lon \in Int /\ Grid.south \in Int /\ Grid.west \in Int
      /\ Grid.rows \in Nat /\ Grid.columns \in Nat /\ r \in Nat \ {0}
  BY FoldCountsAssumption
<1>2. c[1] \in Int /\ c[2] \in Int /\ c = <<c[1], c[2]>>
  BY <1>1 DEF Cell
<1>3. c # None
  BY <1>2, FoldCountsAssumption
<1>4. CellOf(p) = c <=> d = c
  BY <1>3 DEF CellOf
<1>5. d = c <=> y \div r = c[1] /\ x \div r = c[2]
  BY <1>2
<1>6. y \in Int /\ x \in Int
  BY <1>1
<1> HIDE DEF p
<1>7. y \div r = c[1] <=> r * c[1] <= y /\ y < r * (c[1] + 1)
  BY <1>1, <1>2, <1>6, Quotient
<1>8. x \div r = c[2] <=> r * c[2] <= x /\ x < r * (c[2] + 1)
  BY <1>1, <1>2, <1>6, Quotient
<1>9. r * c[1] \in Int /\ r * (c[1] + 1) \in Int /\ r * c[2] \in Int /\ r * (c[2] + 1) \in Int
  BY <1>1, <1>2
<1>10. InCell(p, c) <=> /\ r * c[1] <= y /\ y < r * (c[1] + 1)
                        /\ r * c[2] <= x /\ x < r * (c[2] + 1)
  BY <1>1, <1>9 DEF InCell
<1>11. CellOf(p) = c <=> InCell(p, c)
  BY <1>4, <1>5, <1>7, <1>8, <1>10
<1> QED
  BY <1>11 DEF p

\* _magnitude_bin_index finds the bin that holds a magnitude.
LEMMA BinByBounds ==
    ASSUME NEW m \in Int, NEW i \in DOMAIN Bins
    PROVE  BinOf(m) = i <=> InBin(m, Bins[i])
<1> DEFINE S == {j \in DOMAIN Bins : InBin(m, Bins[j])}
<1>1. DOMAIN Bins \subseteq Int
  BY FoldCountsAssumption
<1>2. ASSUME S # {} PROVE Min(S) \in S
  <2>1. PICK j : j \in S
    BY <1>2
  <2>2. S = {j}
    BY <2>1, BinsDisjoint
  <2>3. j <= j
    BY <1>1, <2>1
  <2> QED
    BY <2>2, <2>3 DEF Min
<1>3. None \notin Int
  BY FoldCountsAssumption
<1>4. ASSUME InBin(m, Bins[i]) PROVE BinOf(m) = i
  <2>1. S # {}
    BY <1>4
  <2>2. Min(S) = i
    BY <1>2, <1>4, <2>1, BinsDisjoint
  <2> QED
    BY <2>1, <2>2 DEF BinOf
<1>5. ASSUME BinOf(m) = i PROVE InBin(m, Bins[i])
  <2>1. S # {}
    BY <1>1, <1>3, <1>5 DEF BinOf
  <2> QED
    BY <1>2, <1>5, <2>1 DEF BinOf
<1> QED
  BY <1>4, <1>5

\* The events a fold's scores are over are those of the estimable rows of its
\* forecast, by the bounds of cell and bin: observed_counts loses none of them.
THEOREM ScoredAreRows ==
    ASSUME NEW E \in SUBSET Event, NEW reference \in Int
    PROVE  Scored(E, reference) =
             UNION {RowEvents(E, reference, row[1], row[2]) : row \in Rows(reference)}
<1>1. \A ev \in Event : At[ev].mag \in Int
  BY FoldCountsAssumption
<1>2. DOMAIN Bins \subseteq Int /\ None \notin Int /\ None \notin Cell
  BY FoldCountsAssumption DEF Cell
<1>3. ASSUME NEW ev \in Scored(E, reference)
      PROVE  \E row \in Rows(reference) : ev \in RowEvents(E, reference, row[1], row[2])
  <2> DEFINE c == CellOf(At[ev])
             i == BinOf(At[ev].mag)
  <2>1. ev \in Selected(E, reference) /\ ev \in Event /\ c # None /\ i # None /\ Estimable(i, reference)
    BY DEF Scored, Counted, Selected
  <2>2. c \in Cell
    BY <2>1 DEF CellOf
  <2>3. i \in DOMAIN Bins
    <3> DEFINE S == {j \in DOMAIN Bins : InBin(At[ev].mag, Bins[j])}
    <3>1. S # {}
      BY <2>1 DEF BinOf
    <3>2. PICK j \in DOMAIN Bins : InBin(At[ev].mag, Bins[j])
      BY <3>1
    <3>3. BinOf(At[ev].mag) = j
      BY <1>1, <2>1, <3>2, BinByBounds
    <3> QED
      BY <3>2, <3>3
  <2>4. InCell(At[ev], c) /\ InBin(At[ev].mag, Bins[i])
    BY <1>1, <2>1, <2>2, <2>3, CellByBounds, BinByBounds
  <2>5. <<c, i>> \in Rows(reference)
    BY <2>1, <2>2, <2>3 DEF Rows
  <2>6. ev \in RowEvents(E, reference, c, i)
    BY <2>1, <2>4 DEF RowEvents
  <2> QED
    BY <2>5, <2>6
<1>4. ASSUME NEW row \in Rows(reference), NEW ev \in RowEvents(E, reference, row[1], row[2])
      PROVE  ev \in Scored(E, reference)
  <2>1. row[1] \in Cell /\ row[2] \in DOMAIN Bins /\ Estimable(row[2], reference)
    BY DEF Rows
  <2>2. ev \in Selected(E, reference) /\ ev \in Event /\ InCell(At[ev], row[1]) /\ InBin(At[ev].mag, Bins[row[2]])
    BY DEF RowEvents, Selected
  <2>3. CellOf(At[ev]) = row[1] /\ BinOf(At[ev].mag) = row[2]
    BY <1>1, <2>1, <2>2, CellByBounds, BinByBounds
  <2> QED
    BY <1>2, <2>1, <2>2, <2>3 DEF Scored, Counted
<1> QED
  BY <1>3, <1>4

\* No event is in two rows: none is counted twice.
THEOREM RowsApart ==
    ASSUME NEW E \in SUBSET Event, NEW reference \in Int,
           NEW row \in Rows(reference), NEW other \in Rows(reference),
           NEW ev \in RowEvents(E, reference, row[1], row[2]),
           ev \in RowEvents(E, reference, other[1], other[2])
    PROVE  row = other
<1>1. /\ row[1] \in Cell /\ row[2] \in DOMAIN Bins /\ row = <<row[1], row[2]>>
      /\ other[1] \in Cell /\ other[2] \in DOMAIN Bins /\ other = <<other[1], other[2]>>
  BY DEF Rows
<1>2. /\ ev \in Event /\ InCell(At[ev], row[1]) /\ InCell(At[ev], other[1])
      /\ InBin(At[ev].mag, Bins[row[2]]) /\ InBin(At[ev].mag, Bins[other[2]])
  BY DEF RowEvents, Selected
<1>3. row[1] = other[1]
  <2>1. CellOf(At[ev]) = row[1]
    BY <1>1, <1>2, CellByBounds
  <2>2. CellOf(At[ev]) = other[1]
    BY <1>1, <1>2, CellByBounds
  <2> QED
    BY <2>1, <2>2
<1>4. row[2] = other[2]
  <2>1. At[ev].mag \in Int
    BY <1>2, FoldCountsAssumption
  <2> QED
    BY <1>1, <1>2, <2>1, BinsDisjoint
<1> QED
  BY <1>1, <1>3, <1>4

-----------------------------------------------------------------------------
(* The counts of the rows add up                                              *)

\* Every non-empty set of numbers has a least element: what stands for
\* induction below.
LEMMA LeastOf ==
    ASSUME NEW S \in SUBSET Nat, S # {}
    PROVE  \E m \in S : \A k \in S : m <= k
<1>1. PICK m \in S : \A k \in S : <<k, m>> \notin OpToRel(<, Nat)
  BY WFMin, NatLessThanWellFounded, Zenon
<1>2. \A k \in S : ~(k < m)
  BY <1>1, Zenon DEF OpToRel
<1>3. QED
  BY <1>2

\* The sum over the estimable rows of the events each of them holds, as the
\* evaluation makes it: one row after the other, in whatever order.
EstimableRows(reference) == Cell \X {i \in DOMAIN Bins : Estimable(i, reference)}
RowCount(E, reference, row) == Cardinality(RowEvents(E, reference, row[1], row[2]))
SumOfRows(E, reference) ==
    LET InRow(row) == RowCount(E, reference, row)
    IN  MapThenSumSet(InRow, EstimableRows(reference))

\* What a sum over a set is when it takes its elements one by one.
Adds(E, reference, R, g) ==
    g = [s \in SUBSET R |->
            IF s = {} THEN 0
            ELSE RowCount(E, reference, CHOOSE x \in s : TRUE) + g[s \ {CHOOSE x \in s : TRUE}]]

\* The events of a set of rows.
Held(E, reference, s) == UNION {RowEvents(E, reference, row[1], row[2]) : row \in s}

\* There are finitely many estimable rows.
LEMMA RowsAreFinite ==
    ASSUME NEW reference \in Int
    PROVE  /\ IsFiniteSet(EstimableRows(reference))
           /\ EstimableRows(reference) = Rows(reference)
<1>1. Grid.rows \in Nat /\ Grid.columns \in Nat /\ Bins \in Seq([lower : Int, upper : Int \cup {None}])
  BY FoldCountsAssumption
<1>2. IsFiniteSet(0 .. Grid.rows - 1) /\ IsFiniteSet(0 .. Grid.columns - 1)
  <2>1. 0 \in Int /\ Grid.rows - 1 \in Int /\ Grid.columns - 1 \in Int
    BY <1>1
  <2>2. QED
    BY <2>1, FS_Interval
<1>3. IsFiniteSet(Cell)
  BY <1>2, FS_Product DEF Cell
<1>4. IsFiniteSet(DOMAIN Bins)
  <2>1. DOMAIN Bins = 1 .. Len(Bins) /\ Len(Bins) \in Nat
    BY <1>1
  <2>2. QED
    BY <2>1, FS_Interval
<1>5. IsFiniteSet({i \in DOMAIN Bins : Estimable(i, reference)})
  BY <1>4, FS_Subset
<1>6. IsFiniteSet(EstimableRows(reference))
  BY <1>3, <1>5, FS_Product DEF EstimableRows
<1>7. EstimableRows(reference) = Rows(reference)
  BY DEF EstimableRows, Rows
<1>8. QED
  BY <1>6, <1>7

\* The events held by a set of rows, with one row taken out.
LEMMA HeldStep ==
    ASSUME NEW E \in SUBSET Event, NEW reference \in Int,
           NEW s \in SUBSET EstimableRows(reference), NEW row \in s
    PROVE  /\ RowCount(E, reference, row) \in Nat
           /\ Cardinality(Held(E, reference, s \ {row})) \in Nat
           /\ Cardinality(Held(E, reference, s)) =
                RowCount(E, reference, row) + Cardinality(Held(E, reference, s \ {row}))
<1> DEFINE A == RowEvents(E, reference, row[1], row[2])
           B == Held(E, reference, s \ {row})
<1>1. s \in SUBSET Rows(reference) /\ row \in Rows(reference)
  BY RowsAreFinite
<1>2. A \subseteq Event /\ B \subseteq Event
  BY DEF RowEvents, Selected, Held
<1>3. IsFiniteSet(A) /\ IsFiniteSet(B)
  BY <1>2, FoldCountsAssumption, FS_Subset
<1>4. Held(E, reference, s) = A \cup B
  BY DEF Held
<1>5. A \cap B = {}
  <2>1. ASSUME NEW ev \in A, NEW other \in s \ {row},
               ev \in RowEvents(E, reference, other[1], other[2])
        PROVE  FALSE
    BY <1>1, <2>1, RowsApart
  <2>2. QED
    BY <2>1 DEF Held
<1> HIDE DEF A, B
<1>6. Cardinality(A) \in Nat /\ Cardinality(B) \in Nat
  BY <1>3, FS_CardinalityType
<1>7. Cardinality(A \cup B) = Cardinality(A) + Cardinality(B) - Cardinality(A \cap B)
  BY <1>3, FS_Union
<1>8. Cardinality(A \cap B) = 0
  BY <1>5, FS_EmptySet
<1>9. QED
  BY <1>4, <1>6, <1>7, <1>8 DEF A, B, RowCount

\* Counting the events held is such a sum, ...
LEMMA HeldAdds ==
    ASSUME NEW E \in SUBSET Event, NEW reference \in Int
    PROVE  Adds(E, reference, EstimableRows(reference),
                [s \in SUBSET EstimableRows(reference) |-> Cardinality(Held(E, reference, s))])
<1> DEFINE R == EstimableRows(reference)
           g == [s \in SUBSET R |-> Cardinality(Held(E, reference, s))]
           P(s) == CHOOSE x \in s : TRUE
<1>1. Cardinality(Held(E, reference, {})) = 0
  <2>1. Held(E, reference, {}) = {}
    BY DEF Held
  <2>2. QED
    BY <2>1, FS_EmptySet
<1>2. ASSUME NEW s \in SUBSET R, s # {}
      PROVE  Cardinality(Held(E, reference, s)) = RowCount(E, reference, P(s)) + g[s \ {P(s)}]
  <2>1. P(s) \in s
    BY <1>2
  <2>2. s \ {P(s)} \in SUBSET R
    OBVIOUS
  <2>3. g[s \ {P(s)}] = Cardinality(Held(E, reference, s \ {P(s)}))
    BY <2>2
  <2> HIDE DEF g, P
  <2>4. QED
    BY <2>1, <2>3, HeldStep
<1>3. g = [s \in SUBSET R |->
             IF s = {} THEN 0 ELSE RowCount(E, reference, P(s)) + g[s \ {P(s)}]]
  <2>1. \A s \in SUBSET R : Cardinality(Held(E, reference, s)) =
             IF s = {} THEN 0 ELSE RowCount(E, reference, P(s)) + g[s \ {P(s)}]
    BY <1>1, <1>2
  <2> DEFINE h(s) == IF s = {} THEN 0 ELSE RowCount(E, reference, P(s)) + g[s \ {P(s)}]
  <2>2. \A s \in SUBSET R : Cardinality(Held(E, reference, s)) = h(s)
    BY <2>1
  <2> HIDE DEF h
  <2>3. g = [s \in SUBSET R |-> h(s)]
    BY <2>2
  <2>4. QED
    BY <2>3 DEF h
<1>4. QED
  BY <1>3 DEF Adds

\* ... and the only one: two that differ differ on a smallest set of rows, from
\* which both take the same row.
LEMMA SumIsUnique ==
    ASSUME NEW E, NEW reference, NEW R, IsFiniteSet(R), NEW g, NEW h,
           Adds(E, reference, R, g), Adds(E, reference, R, h)
    PROVE  g[R] = h[R]
<1> DEFINE P(s) == CHOOSE x \in s : TRUE
           Differ == {n \in Nat : \E s \in SUBSET R : Cardinality(s) = n /\ g[s] # h[s]}
<1>1. \A s \in SUBSET R : /\ g[s] = IF s = {} THEN 0 ELSE RowCount(E, reference, P(s)) + g[s \ {P(s)}]
                          /\ h[s] = IF s = {} THEN 0 ELSE RowCount(E, reference, P(s)) + h[s \ {P(s)}]
  BY DEF Adds
<1>2. \A s \in SUBSET R : IsFiniteSet(s) /\ Cardinality(s) \in Nat
  BY FS_Subset, FS_CardinalityType
<1>3. SUFFICES ASSUME g[R] # h[R] PROVE FALSE
  OBVIOUS
<1>4. Differ \in SUBSET Nat /\ Cardinality(R) \in Differ
  BY <1>2, <1>3
<1>5. PICK n \in Differ : \A k \in Differ : n <= k
  <2> HIDE DEF Differ
  <2>1. QED
    BY <1>4, LeastOf
<1>6. PICK s \in SUBSET R : Cardinality(s) = n /\ g[s] # h[s]
  OBVIOUS
<1>7. \A q \in SUBSET R : Cardinality(q) \in Nat /\ g[q] # h[q] => n <= Cardinality(q)
  BY <1>5
<1> HIDE DEF Differ
<1>8. s # {}
  BY <1>1, <1>6
<1>9. P(s) \in s
  BY <1>8
<1> HIDE DEF P
<1>10. g[s \ {P(s)}] # h[s \ {P(s)}]
  BY <1>1, <1>6, <1>8
<1>11. Cardinality(s \ {P(s)}) = Cardinality(s) - 1 /\ s \ {P(s)} \in SUBSET R
  BY <1>2, <1>9, FS_RemoveElement
<1>12. QED
  BY <1>2, <1>6, <1>7, <1>10, <1>11

\* The rows of the forecast, each counted by its bounds, add up to the events
\* the scores of the fold are over.
THEOREM RowsAddUp ==
    ASSUME NEW E \in SUBSET Event, NEW reference \in Int
    PROVE  SumOfRows(E, reference) = Cardinality(Scored(E, reference))
<1> DEFINE R == EstimableRows(reference)
           g == [s \in SUBSET R |-> Cardinality(Held(E, reference, s))]
           sum == CHOOSE h : Adds(E, reference, R, h)
<1>1. SumOfRows(E, reference) = sum[R]
  BY DEF SumOfRows, MapThenSumSet, MapThenFoldSet, Adds
<1>2. Adds(E, reference, R, g)
  BY HeldAdds
<1> HIDE DEF g
<1>3. Adds(E, reference, R, sum)
  BY <1>2
<1> HIDE DEF sum
<1>4. sum[R] = g[R]
  BY <1>2, <1>3, RowsAreFinite, SumIsUnique
<1>5. g[R] = Cardinality(Held(E, reference, R))
  BY DEF g
<1>6. Held(E, reference, R) = Scored(E, reference)
  BY ScoredAreRows, RowsAreFinite DEF Held
<1>7. QED
  BY <1>1, <1>4, <1>5, <1>6

=============================================================================
