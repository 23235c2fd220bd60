---------------------------- MODULE MCTectonics ----------------------------
(* An instance of TectonicReleases for TLC.  A second slab release may be     *)
(* built beside the first, or after it became ready.  Two of three revisions  *)
(* are of one artifact, and the limit may cut between them.                   *)
EXTENDS TectonicReleases, TLC

CONSTANTS slab1, slab2, chaf, p1, p2, c1, c2

MCAssets == slab1 :> <<"depth", "dip">> @@ slab2 :> <<"depth">> @@ chaf :> <<"faults_shapefile">>

MCAvailable == 1 :> 1 @@ 2 :> 2 @@ 3 :> 2

=============================================================================
