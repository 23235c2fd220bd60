----------------------------- MODULE FoldCounts -----------------------------
(* What a fold counts: which events of a window fall into which cell and      *)
(* magnitude bin of the forecast, and which of them its scores are over.      *)
(* Coordinates and magnitudes are whole numbers of some small unit.           *)
EXTENDS Integers, Sequences, FiniteSets, FiniteSetsExt

CONSTANTS
    Event,    \* events the catalog may have
    At,       \* At[ev]: where and how strong it is, [lat, lon, mag]
    Grid,     \* SpatialGrid: [south, west, rows, columns, resolution]
    Region,   \* box of the completeness estimate: [south, north, west, east]
    Bins,     \* specification.magnitude_bins: [lower, upper], open when upper = None
    None

ASSUME FoldCountsAssumption ==
    /\ IsFiniteSet(Event) /\ At \in [Event -> [lat : Int, lon : Int, mag : Int]]
    /\ Grid \in [south : Int, west : Int, rows : Nat, columns : Nat, resolution : Nat \ {0}]
    /\ Region \in [south : Int, north : Int, west : Int, east : Int]
    /\ Bins \in Seq([lower : Int, upper : Int \cup {None}]) /\ None \notin Int \cup (Int \X Int)

\* The bins of config/forecast-specification.yaml: ascending, none over another.
ASSUME BinsAscending ==
    \A i, j \in DOMAIN Bins : i < j => Bins[i].upper # None /\ Bins[i].upper <= Bins[j].lower

Cell == (0 .. Grid.rows - 1) \X (0 .. Grid.columns - 1)

\* Variant: the cell is rounded, not cut.
CellOfNearest(p) ==
    LET c == <<(p.lat - Grid.south + 1) \div Grid.resolution, (p.lon - Grid.west + 1) \div Grid.resolution>>
    IN  IF c \in Cell THEN c ELSE None

\* _cell_id_for_point; the epsilon repairs rounding that whole numbers lack.
CellOf(p) ==
    LET c == <<(p.lat - Grid.south) \div Grid.resolution, (p.lon - Grid.west) \div Grid.resolution>>
    IN  IF c \in Cell THEN c ELSE None

\* The bounds iter_cells gives a cell; on an edge, to the north or east of it.
InCell(p, c) ==
    /\ Grid.south + Grid.resolution * c[1] <= p.lat /\ p.lat < Grid.south + Grid.resolution * (c[1] + 1)
    /\ Grid.west + Grid.resolution * c[2] <= p.lon /\ p.lon < Grid.west + Grid.resolution * (c[2] + 1)

InBin(m, b) == b.lower <= m /\ (b.upper = None \/ m < b.upper)

\* _magnitude_bin_index: the first bin that holds it.
BinOf(m) ==
    LET S == {i \in DOMAIN Bins : InBin(m, Bins[i])}
    IN  IF S = {} THEN None ELSE Min(S)

\* A bin that begins below the reference magnitude is not estimable.
Estimable(i, reference) == Bins[i].lower >= reference

\* fetch_declustering_catalog for a window whose events are E.
Selected(E, reference) ==
    {ev \in E : /\ At[ev].mag >= reference
                /\ Region.south <= At[ev].lat /\ At[ev].lat <= Region.north
                /\ Region.west <= At[ev].lon /\ At[ev].lon <= Region.east}

\* total_observed: the events with a cell and a bin, estimable or not.
Counted(E, reference) ==
    {ev \in Selected(E, reference) : CellOf(At[ev]) # None /\ BinOf(At[ev].mag) # None}

\* observed_counts has a place for the estimable rows only.
Scored(E, reference) == {ev \in Counted(E, reference) : Estimable(BinOf(At[ev].mag), reference)}

\* The events of one row of the forecast, by the bounds of its cell and bin.
RowEvents(E, reference, c, i) ==
    {ev \in Selected(E, reference) : InCell(At[ev], c) /\ InBin(At[ev].mag, Bins[i])}

=============================================================================
