----------------------------- MODULE MCBackfill -----------------------------
(* Instances of HistoricalBackfill for TLC.                                   *)
EXTENDS HistoricalBackfill, TLC

CONSTANTS e1, e2, e3, e4

\* Three events in the left half of [0, 8), one in the right half.
MCAt == e1 :> 1 @@ e2 :> 2 @@ e3 :> 3 @@ e4 :> 6

=============================================================================
