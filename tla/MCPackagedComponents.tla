------------------------ MODULE MCPackagedComponents ------------------------
(***************************************************************************)
(* Two packaged components and two upgrades.  Both versions change one     *)
(* component, version 1 adds the other; a release may keep the version of  *)
(* the one before.                                                         *)
(***************************************************************************)
EXTENDS PackagedComponents, TLC

CONSTANTS n1, n2, cni, dns

K8sVersions == 0..2
ChartContent == (0 :> (cni :> 1 @@ dns :> 0)) @@ (1 :> (cni :> 2 @@ dns :> 1))
                @@ (2 :> (cni :> 3 @@ dns :> 1))
Upgrades   == <<1, 1, 2>>
Replacing  == <<1, 1>>
=============================================================================
