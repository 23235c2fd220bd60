----------------------------- MODULE MCCatalog -----------------------------
(* Two sources.  USGS has two events, both close enough to the CSN event to be *)
(* matched with it; the second version of u1 moves out of the window.         *)
(* WholeFeeds are runs that ask for all a source publishes; FeedAndSlice adds *)
(* a narrower FDSN query, CsnPage asks for the page of c1 alone, whose        *)
(* contents are undated and may return.                                       *)
EXTENDS CatalogIngestion, TLC

CONSTANTS c1, u1, u2, r1, r2, r3

MCEvent == {c1, u1, u2}
MCSource == {"csn", "usgs"}
MCSourceOf == [e \in MCEvent |-> IF e = c1 THEN "csn" ELSE "usgs"]
MCPriority == [s \in MCSource |-> IF s = "csn" THEN 0 ELSE 2]
MCVersion == 1 .. 2
MCPlace == [e \in MCEvent |->
    CASE e = c1 -> [v \in MCVersion |-> 5]
      [] e = u1 -> [v \in MCVersion |-> IF v = 1 THEN 4 ELSE 8]
      [] OTHER -> [v \in MCVersion |-> 6]]
WholeFeeds == {{c1}, {u1, u2}}
CsnPage == {{c1}}
FeedAndSlice == WholeFeeds \cup {{u2}}
MCPublish == [e \in MCEvent |-> IF e = u1 THEN 2 ELSE 1]
OncePublish == [e \in MCEvent |-> 1]
RevertPublish == [e \in MCEvent |-> IF e = c1 THEN 3 ELSE 0]
MCUndated == {"csn"}
MCGenerated == {"usgs"}
MCRejects == {"csn"}
RunSymmetry == Permutations({r1, r2, r3})
=============================================================================
