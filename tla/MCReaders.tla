----------------------------- MODULE MCReaders -----------------------------
(* A CSN and a USGS record of one shock, and two later USGS events of one     *)
(* time.  USGS revises its record, which moves it out of the readers' window. *)
(* A magnitude bin is two units wide.  With the two records apart and u2 before *)
(* u3, both belong to the family of u1; with u3 first, it belongs to that of c1. *)
EXTENDS SeismicityEstimators

CONSTANTS c1, u1, u2, u3, d1, k1, a1

MCEvent == {c1, u1, u2, u3}
MCSource == {"csn", "usgs"}
MCSourceOf == [e \in MCEvent |-> IF e = c1 THEN "csn" ELSE "usgs"]
MCPriority == [s \in MCSource |-> IF s = "csn" THEN 0 ELSE 2]
MCVersion == 1 .. 2
MCContents == [e \in MCEvent |-> IF e = u1 THEN {1, 2} ELSE {1}]
MCPlace == [e \in MCEvent |-> [v \in MCVersion |->
    CASE e = u1 -> IF v = 1 THEN 4 ELSE 6 [] e = c1 -> 4 [] OTHER -> 5]]
MCMag == [e \in MCEvent |-> [v \in MCVersion |->
    CASE e = u1 -> 6 [] e = c1 -> 7 [] e = u2 -> 8 [] OTHER -> 9]]
MCEta == [x \in MCEvent \X MCVersion |-> [y \in MCEvent \X MCVersion |->
    CASE <<x[1], y[1]>> \in {<<u1, u2>>, <<u2, u3>>} -> 1 [] <<x[1], y[1]>> = <<c1, u3>> -> 2
      [] OTHER -> 3]]
MCMinEtas == [k \in {"temporal", "spatiotemporal"} |-> IF k = "temporal" THEN 2 ELSE 3]
=============================================================================
