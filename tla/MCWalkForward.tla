---------------------------- MODULE MCWalkForward ----------------------------
(* An instance of WalkForward for TLC.                                        *)
EXTENDS WalkForward, TLC

CONSTANTS ev1, ev2, strong, weak, edge

\* Three daily folds, and a shorter protocol with two.
Daily == [start |-> 0, end |-> 3, step |-> 1, horizon |-> 1]
EveryOther == [start |-> 0, end |-> 3, step |-> 2, horizon |-> 1]

MCProtocol == {Daily, EveryOther}

\* Two cells, one north of the other, and a bin with an open one above it.
MCGrid == [south |-> 0, west |-> 0, rows |-> 2, columns |-> 1, resolution |-> 2]
MCRegion == [south |-> 0, north |-> 4, west |-> 0, east |-> 2]
MCBins == << [lower |-> 4, upper |-> 6], [lower |-> 6, upper |-> None] >>

\* A reference magnitude at the lower edge of a bin, and one inside it.
MCReference == ev1 :> 4 @@ ev2 :> 5

\* On the line between the cells, at the lower edge of a bin; weak, in the bin
\* that is not estimable for ev2; on the north edge of the grid and the region.
MCAt == strong :> [lat |-> 2, lon |-> 0, mag |-> 6]
     @@ weak :> [lat |-> 1, lon |-> 1, mag |-> 5]
     @@ edge :> [lat |-> 4, lon |-> 0, mag |-> 6]

=============================================================================
