---------------------------- MODULE MCNodePlans ----------------------------
(***************************************************************************)
(* Two control plane nodes and a worker, or one that a worker joins; two   *)
(* releases that share their OS version, so that a Plan of the second has  *)
(* the name of one of the first, or change both versions; and a single     *)
(* node with reconciles that start from old copies of the Release.         *)
(***************************************************************************)
EXTENDS NodePlans

CONSTANTS c1, c2, w1

Three   == [start |-> {c1, c2, w1}, joiners |-> {}, stale |-> FALSE]
Growing == [start |-> {c1}, joiners |-> {w1}, stale |-> FALSE]
Single  == [start |-> {c1}, joiners |-> {}, stale |-> FALSE]
Late    == [Single EXCEPT !.stale = TRUE]

FixedOrGrowing == {Three, Growing, Late}
OnlyOne        == {Single}

SharedOS == <<[os |-> 1, k8s |-> 1], [os |-> 1, k8s |-> 2]>>
BothNew  == <<[os |-> 1, k8s |-> 1], [os |-> 2, k8s |-> 2]>>
=============================================================================
