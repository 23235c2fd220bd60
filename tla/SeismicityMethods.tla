------------------------- MODULE SeismicityMethods -------------------------
(* What the seismicity estimators compute from a selection of the catalog: a  *)
(* set of rows [canon, rev] as ListEvents returns it.  Magnitudes and log10    *)
(* distances are natural numbers in a unit finer than a bin.  What a numerical *)
(* optimizer returns is any value its bounds and its stopping rule leave.     *)
EXTENDS CatalogReads, Integers, Sequences, FiniteSets

CONSTANTS
    None,            \* NULL
    Mag,             \* Mag[e][v]: the magnitude, None if it is missing or of another type
    Eta,             \* Eta[x][y]: log10 distance of the content y from the earlier x
    Magnitudes,      \* the magnitudes an optimizer may return
    BinWidth,        \* bin_width_magnitude
    OneMagnitude,    \* 1.0 in the unit of Mag
    PeakCorrection,  \* maximum_curvature_correction_magnitude
    MinEvents,       \* research_only_minimum_events
    MinAbove,        \* goodness_of_fit_minimum_events_above_candidate
    MinSpan,         \* goodness_of_fit_minimum_bins_above_candidate
    MinPairs,        \* minimum_events_for_threshold_fit
    MinFamily,       \* minimum_events_per_sequence
    MinEtas,         \* minimum_events of each ETAS model
    IasWindow,       \* evaluation_window_days
    MinWindows       \* minimum_historical_windows

Content == Event \X Version
Kind == {"temporal", "spatiotemporal"}

ASSUME MethodsAssumption ==
    /\ Mag \in [Event -> [Version -> Nat \cup {None}]]
    /\ Eta \in [Content -> [Content -> Int]]
    /\ Magnitudes \subseteq Nat
    /\ {BinWidth, OneMagnitude, IasWindow, MinWindows} \subseteq Nat \ {0}
    /\ MinEvents \in Nat \ {0, 1} /\ {MinFamily, MinPairs} \subseteq Nat \ {0, 1}
    /\ {PeakCorrection, MinAbove, MinSpan} \subseteq Nat
    /\ MinEtas \in [Kind -> Nat \ {0}]
    /\ None \notin Nat \cup BOOLEAN

Time(p) == Place[p.rev.ev][p.rev.ver]
Size(p) == Mag[p.rev.ev][p.rev.ver]
Distance(p, q) == Eta[<<p.rev.ev, p.rev.ver>>][<<q.rev.ev, q.rev.ver>>]

-----------------------------------------------------------------------------
(* Selections                                                                 *)

\* fetch_magnitude_catalog: the rows that have a magnitude of the one type.
Sample(L) == {p \in L : Size(p) # None}

\* fetch_declustering_catalog, and the ETAS and IAS services: the magnitude as
\* it is against Mc as it is.
AtOrAbove(S, mc) == {p \in Sample(S) : Size(p) >= mc}

-----------------------------------------------------------------------------
(* Magnitude of completeness                                                  *)

\* _bin_magnitude: round() takes halves to the even bin.
Bin(m) ==
    LET q == m \div BinWidth
        r == m % BinWidth
        up == 2 * r > BinWidth \/ (2 * r = BinWidth /\ q % 2 = 1)
    IN  (IF up THEN q + 1 ELSE q) * BinWidth

Bins(S) == {Bin(Size(p)) : p \in S}
InMagnitudeBin(S, b) == {p \in S : Bin(Size(p)) = b}

\* Variant: the events in the bin of Mc are left out.
BinnedStrictlyAbove(S, mc) == {p \in S : Bin(Size(p)) > Bin(mc)}

\* The events a b-value is fitted to: both sides are binned.
BinnedAbove(S, mc) == {p \in S : Bin(Size(p)) >= Bin(mc)}

Supported(S) == Cardinality(S) >= MinEvents

\* The fullest bin, the smallest of those that tie.
RawPeak(S) ==
    LET size(b) == Cardinality(InMagnitudeBin(S, b))
    IN  {b \in Bins(S) : \A c \in Bins(S) :
            size(c) < size(b) \/ (size(c) = size(b) /\ b <= c)}

\* The bins a line is fitted from: between the least and the greatest, with
\* enough events and enough bins above them.
Candidates(S) ==
    {b \in UNION {x .. y : x, y \in Bins(S)} :
        /\ b % BinWidth = 0
        /\ Cardinality(BinnedAbove(S, b)) >= MinAbove
        /\ \E y \in Bins(S) : y >= b + (MinSpan - 1) * BinWidth}

\* What the optimizer of the entire range may return: mu keeps to its bounds.
WithinBounds(S) ==
    {m \in Magnitudes : \E x, y \in Bins(S) : x - OneMagnitude <= m /\ m <= y + OneMagnitude}

\* estimate_mc_maximum_curvature; estimate_mc_goodness_of_fit, where which bin
\* fits well enough, if any, is left open; estimate_mc_entire_magnitude_range,
\* which may not converge: the values each may return.
Estimates(method, S) ==
    IF ~Supported(S) THEN {None}
    ELSE CASE method = "maximum_curvature" -> {b + PeakCorrection : b \in RawPeak(S)}
           [] method = "goodness_of_fit" -> Candidates(S) \cup {None}
           [] method = "entire_magnitude_range" -> WithinBounds(S) \cup {None}

Methods == {"maximum_curvature", "goodness_of_fit", "entire_magnitude_range"}

-----------------------------------------------------------------------------
(* Declustering                                                               *)

\* sorted() by event time: rows of one time stay in the order of the query,
\* which is any.
InTimeOrder(S) ==
    {s \in [1 .. Cardinality(S) -> S] :
        \A i, j \in 1 .. Cardinality(S) : i < j => s[i] # s[j] /\ Time(s[i]) <= Time(s[j])}

\* argmin: the first of the nearest predecessors.
Nearest(s, i) ==
    CHOOSE j \in 1 .. (i - 1) : \A k \in 1 .. (i - 1) :
        \/ Distance(s[j], s[i]) < Distance(s[k], s[i])
        \/ Distance(s[j], s[i]) = Distance(s[k], s[i]) /\ j <= k

NearestDistance(s, i) == Distance(s[Nearest(s, i)], s[i])

\* The crossover of the two fitted modes lies between the distances; where it
\* cuts them is left open.
Thresholds(s) ==
    IF Len(s) < MinPairs + 1 THEN {None} ELSE {NearestDistance(s, i) : i \in 2 .. Len(s)}

\* decluster: one row per event; the first is background, the others are not
\* classified when no threshold could be fitted.
Classify(s, threshold) ==
    {[id |-> s[i].rev,
      parent |-> IF i = 1 THEN None ELSE s[Nearest(s, i)].rev,
      background |-> IF i = 1 THEN TRUE
                     ELSE IF threshold = None THEN None ELSE NearestDistance(s, i) >= threshold]
        : i \in 1 .. Len(s)}

Ids(C) == {c.id : c \in C}
ClassOf(C, x) == CHOOSE c \in C : c.id = x
Triggered(C) == {c \in C : c.background = FALSE}
Background(C) == {c \in C : c.background = TRUE}

\* Variant: the parent is taken for the root.
FamilyRootsDirect(C) == [x \in Ids(Triggered(C)) |-> ClassOf(C, x).parent]

\* _resolve_family_roots: up the parents until one is not triggered.
FamilyRoots(C) ==
    LET top[x \in Ids(C)] ==
            IF ClassOf(C, x).background = FALSE THEN top[ClassOf(C, x).parent] ELSE x
    IN  [x \in Ids(Triggered(C)) |-> top[x]]

\* The sequences ModifiedOmoriService fits, one for each root that has children.
Families(C) ==
    LET root == FamilyRoots(C)
    IN  {[root |-> r, members |-> {x \in DOMAIN root : root[x] = r}] :
            r \in {root[x] : x \in DOMAIN root}}

-----------------------------------------------------------------------------
(* Fits                                                                       *)

\* estimate_modified_omori: too few events are refused; with enough, neither
\* optimizer may converge.
OmoriOutcomes(members) ==
    IF Cardinality(members) >= MinFamily THEN BOOLEAN ELSE {FALSE}

\* estimate_temporal_etas and estimate_spatiotemporal_etas, likewise: no restart
\* may converge.
EtasOutcomes(kind, S) ==
    IF Cardinality(S) >= MinEtas[kind] THEN BOOLEAN ELSE {FALSE}

-----------------------------------------------------------------------------
(* Seismic anomaly index                                                      *)

CountIn(S, from, to) == Cardinality({p \in S : from <= Time(p) /\ Time(p) < to})

\* _prior_events: what is expected in a window is computed from earlier events.
Prior(S, w) == {p \in S : Time(p) < w.from}

\* Not before the first event; not before `opening`, when there is none.
Reached(S, opening, t) == IF S = {} THEN t >= opening ELSE \E p \in S : t >= Time(p)

\* Variant: the windows go back while they end no earlier than the first event.
HistoryWindowsPastFirst(S, opening, start) ==
    {[from |-> start - k * IasWindow, to |-> start - (k - 1) * IasWindow] :
        k \in {n \in 1 .. start : Reached(S, opening, start - (n - 1) * IasWindow)}}

\* The windows of the reference distribution, back from the evaluated one while
\* they start no earlier than the first event.
HistoryWindows(S, opening, start) ==
    {[from |-> start - k * IasWindow, to |-> start - (k - 1) * IasWindow] :
        k \in {n \in 1 .. start : Reached(S, opening, start - n * IasWindow)}}

\* estimate_ias: what is counted and what is expected from in each window; the
\* index is given only with enough windows to compare with.
Anomaly(S, opening, end) ==
    LET history == HistoryWindows(S, opening, end - IasWindow)
        windows == history \cup {[from |-> end - IasWindow, to |-> end]}
    IN  [history |-> history,
         observed |-> [w \in windows |-> CountIn(S, w.from, w.to)],
         prior |-> [w \in windows |-> Prior(S, w)],
         scored |-> Cardinality(history) >= MinWindows]

=============================================================================
