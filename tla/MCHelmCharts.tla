---------------------------- MODULE MCHelmCharts ----------------------------
(***************************************************************************)
(* Three charts: storage, which ingress depends on, and monitoring, which  *)
(* is not installed on the cluster in one of the instances.  The second    *)
(* release changes the values of one chart, the third takes them back.     *)
(***************************************************************************)
EXTENDS HelmCharts

CONSTANTS storage, ingress, monitoring

At(v, val) == [version |-> v, values |-> val]

MCCharts == {storage, ingress, monitoring}
MCOrder == <<storage, ingress, monitoring>>
MCDependsOn == [c \in MCCharts |-> IF c = ingress THEN {storage} ELSE {}]
MCContents == {At(1, 0), At(2, 0), At(2, 1)}
MCTargets ==
    <<[c \in MCCharts |-> At(2, 0)],
      [c \in MCCharts |-> IF c = storage THEN At(2, 1) ELSE At(2, 0)],
      [c \in MCCharts |-> At(2, 0)]>>
MCPreinstalled ==
    [c \in MCCharts |-> IF c = monitoring THEN NotInstalled ELSE At(1, 0)]
Two == {storage, ingress}
TwoOrder == <<storage, ingress>>
TwoDependsOn == [c \in Two |-> IF c = ingress THEN {storage} ELSE {}]
TwoPreinstalled == [c \in Two |-> At(1, 0)]
TwoTargets == <<[c \in Two |-> At(2, 0)],
                [c \in Two |-> IF c = storage THEN At(2, 1) ELSE At(2, 0)]>>
AllFail == Charts
Numbers == {At(2, 1)}
=============================================================================
