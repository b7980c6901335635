------------------------- MODULE MCReleaseManifests -------------------------
(***************************************************************************)
(* Three versions, the first of them published at another registry.        *)
(***************************************************************************)
EXTENDS ReleaseManifests

MCHome == [v \in Versions |-> IF v = 1 THEN "old" ELSE "new"]
=============================================================================
