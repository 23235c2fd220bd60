----------------------------- MODULE MCIssuance -----------------------------
(* Instances of ForecastIssuance for TLC.                                     *)
EXTENDS ForecastIssuance

CONSTANTS p1, p2, s1, P7D, utc, chile, g1, g2, MaxCompleteness, MaxGr, MaxEtas, MaxDecl, MaxBg

MCMaxOf == [k \in Kind |->
    CASE k = "completeness" -> MaxCompleteness [] k = "gutenberg_richter" -> MaxGr
      [] k = "etas" -> MaxEtas [] k = "declustering" -> MaxDecl [] k = "background" -> MaxBg]

=============================================================================
