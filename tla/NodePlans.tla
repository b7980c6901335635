----------------------------- MODULE NodePlans -----------------------------
(***************************************************************************)
(* The OS and Kubernetes phases (internal/upgrade/reconcilers/os.go,       *)
(* kubernetes.go, plan.go), the Plans they create (internal/plan), the     *)
(* clean-up of old Plans (release_controller.go), and the System Upgrade   *)
(* Controller (SUC) that runs a Plan's Job on each of its nodes.           *)
(*                                                                         *)
(* A Plan is identified by what its name is made of: the phase, the node   *)
(* group and the OS or Kubernetes version.  Its label says which release   *)
(* created it.  The reconciler reads Plans from the informer cache (seen)  *)
(* and creates and deletes them at the API server (plans).  In a cluster   *)
(* with stale it may also start from an old copy of the Release, and then  *)
(* writes the status.version of that copy back.  The packaged components   *)
(* of Kubernetes are taken to be available at once.                        *)
(***************************************************************************)
EXTENDS Naturals, Sequences, FiniteSets

CONSTANTS
    ControlPlane, Workers,  \* the nodes
    Clusters,               \* nodes the cluster has, nodes that join later, and
                            \* whether the Release is read and written late
    Releases,               \* [os, k8s] versions of the releases, in order
    AfterFailure,           \* are releases replaced before they succeeded?
    MaxFaults               \* bound: failed Jobs and API errors

Nodes == ControlPlane \cup Workers
Versions == {0} \cup {Releases[r].os : r \in 1..Len(Releases)}
                \cup {Releases[r].k8s : r \in 1..Len(Releases)}

ASSUME NodesAssumption ==
    /\ ControlPlane # {} /\ ControlPlane \cap Workers = {}
    /\ IsFiniteSet(Nodes)
    /\ Clusters \subseteq [start : SUBSET Nodes, joiners : SUBSET Nodes,
                    stale : BOOLEAN]
    /\ \A c \in Clusters : c.start \cap ControlPlane # {}
ASSUME ReleasesAssumption ==
    /\ Releases \in Seq([os : Nat \ {0}, k8s : Nat \ {0}])
    /\ Releases # <<>>
    /\ AfterFailure \in BOOLEAN /\ MaxFaults \in Nat

PlanIds == [phase : {"os", "k8s"}, group : {"cp", "wk"}, version : Versions]

VARIABLES
    release,    \* spec.version: the release being applied
    version,    \* status.version: the last release applied, 0 for none
    written,    \* the values status.version has had
    stale,      \* may a reconcile start from an old copy of the Release?
    read,       \* status.version in the reconcile's copy of the Release
    plans,      \* PlanId -> Plan, at the API server
    seen,       \* PlanId -> Plan, in the informer cache
    labelled,   \* PlanId -> nodes SUC has labelled as done
    joiners,    \* nodes that will join
    members,    \* the nodes in the cluster
    os,         \* node -> OS version
    installed,  \* node -> Kubernetes version installed
    kubelet,    \* node -> Kubernetes version its kubelet reports
    pc, phase, group,   \* where the reconcile is
    cpOnly,     \* isControlPlaneOnlyCluster when the Plans were prepared
    outcome,    \* what the pipeline last returned for this release
    faults

nodeVars == <<joiners, members, os, installed, kubelet>>
planVars == <<plans, seen, labelled>>
callVars == <<phase, group, cpOnly>>
statusVars == <<version, written, outcome>>
vars == <<release, version, written, stale, read, plans, seen, labelled,
          joiners, members, os, installed, kubelet, pc, phase, group, cpOnly,
          outcome, faults>>

\* complete is the Complete condition of the Plan; label 0: no such Plan.
PlanStates == [label    : 0..Len(Releases),
               applying : SUBSET Nodes,
               complete : {"Unknown", "True", "Failed"}]
NoPlan == [label |-> 0, applying |-> {}, complete |-> "Unknown"]

Exists(p) == p.label # 0
Group(g) == members \cap (IF g = "cp" THEN ControlPlane ELSE Workers)
Target(ph) == IF ph = "os" THEN Releases[release].os ELSE Releases[release].k8s

Init ==
    /\ release = 1
    /\ version = 0 /\ written = {0} /\ read = 0
    /\ plans = [p \in PlanIds |-> NoPlan]
    /\ seen = plans
    /\ labelled = [p \in PlanIds |-> {}]
    /\ \E c \in Clusters :
          members = c.start /\ joiners = c.joiners /\ stale = c.stale
    /\ os = [n \in Nodes |-> 0]
    /\ installed = [n \in Nodes |-> 0]
    /\ kubelet = [n \in Nodes |-> 0]
    /\ pc = "idle" /\ phase = "os" /\ group = "cp" /\ cpOnly = FALSE
    /\ outcome = "None"
    /\ faults = 0

-----------------------------------------------------------------------------
(* The reconciler                                                          *)

Begin ==
    /\ pc = "idle"
    /\ read' \in IF stale THEN written ELSE {version}
    /\ pc' = "cleanup" /\ phase' = "os" /\ group' = "cp"
    /\ UNCHANGED <<release, statusVars, stale, planVars, nodeVars, cpOnly,
                   faults>>

\* updateReleaseStatus puts the whole status of the reconcile's copy over the
\* one stored.  It is left out when the copy's status has not changed, which
\* says nothing of the one stored if the copy is old.
WriteStatus(v, result) ==
    /\ \/ version' = v /\ outcome' = result
       \/ stale /\ UNCHANGED <<version, outcome>>
    /\ written' = written \cup {version'}
    /\ pc' = "idle" /\ read' = 0
    /\ UNCHANGED <<callVars, stale>>

Return(result) == WriteStatus(read, result)

\* An error before the pipeline changes no condition of the Release; those
\* of an old copy are not the ones stored.
ReturnEarly == Return(IF stale THEN "None" ELSE outcome)

\* A whole reconcile that started from an old copy and ended before it came
\* to the Plans: conditions reset for a new generation, or the LCM phase or
\* the manifest not ready.
PutBack ==
    /\ pc = "idle" /\ stale
    /\ version' \in written /\ outcome' \in {"None", "Error"}
    /\ UNCHANGED <<release, written, stale, read, planVars, nodeVars, pc,
                   callVars, faults>>

\* Mutant: nothing is ever cleaned up.
NothingOld == {}

\* cleanupOldVersionPlans: the Plans labelled with the status.version of the
\* copy, if that is not the version being applied.
OldPlans == IF read = 0 \/ read = release THEN {}
            ELSE {p \in PlanIds : seen[p].label = read}

\* The labels SUC has put on nodes stay when their Plan is deleted.
CleanUp ==
    /\ pc = "cleanup"
    /\ plans' = [p \in PlanIds |-> IF p \in OldPlans THEN NoPlan ELSE plans[p]]
    /\ IF \A p \in OldPlans : Exists(plans[p])
       THEN pc' = "prepare" /\ UNCHANGED <<callVars, statusVars, stale, read>>
       ELSE ReturnEarly         \* NotFound: the cache was behind
    /\ UNCHANGED <<release, seen, labelled, nodeVars, faults>>

\* preparePlans lists the nodes: no worker Plan without workers.
PreparePlans ==
    /\ pc = "prepare"
    /\ cpOnly' = (members \subseteq ControlPlane)
    /\ pc' = "plan" /\ group' = "cp"
    /\ UNCHANGED <<release, statusVars, stale, read, planVars, nodeVars, phase,
                   faults>>

ThisPlan == [phase |-> phase, group |-> group, version |-> Target(phase)]
MissingPlan == pc = "plan" /\ ~Exists(seen[ThisPlan])

PlanCreated ==
    plans' = [plans EXCEPT ![ThisPlan] = [NoPlan EXCEPT !.label = release]]

\* getOrCreatePlan, not found: the new Plan has no status, so in progress.
CreatePlan ==
    /\ MissingPlan
    /\ ~Exists(plans[ThisPlan])
    /\ PlanCreated
    /\ Return("InProgress")
    /\ UNCHANGED <<release, seen, labelled, nodeVars, faults>>

\* The cache did not have it yet: Create returns AlreadyExists.
CreateConflicts ==
    /\ MissingPlan
    /\ Exists(plans[ThisPlan])
    /\ Return("Error")
    /\ UNCHANGED <<release, planVars, nodeVars, faults>>

\* Mutant: nodes a Plan is being applied to are not looked at.
ConditionOnly(p) == CASE p.complete = "True" -> "Complete"
                      [] p.complete = "Failed" -> "Failed"
                      [] p.complete = "Unknown" -> "Complete"

\* parsePhaseStatusFromPlan
PlanStatus(p) == CASE p.applying # {} -> "InProgress"
                   [] p.applying = {} /\ p.complete = "True" -> "Complete"
                   [] p.applying = {} /\ p.complete = "Failed" -> "Failed"
                   [] p.applying = {} /\ p.complete = "Unknown" -> "InProgress"

Cordoned(n) == \E p \in PlanIds : n \in plans[p].applying

\* Mutant: a complete Plan is trusted, nodes are not verified.
TrustPlan(nodes, v) == TRUE

\* allNodesAtKubernetesVersion.  A node that has not reported the version
\* installed is not ready.
AllNodesAtKubernetesVersion(nodes, v) ==
    /\ nodes # {}
    /\ \A n \in nodes : ~Cordoned(n) /\ kubelet[n] = installed[n]
                                     /\ kubelet[n] = v

PlanPending ==
    /\ pc = "plan" /\ Exists(seen[ThisPlan])
    /\ PlanStatus(seen[ThisPlan]) # "Complete"
    /\ Return(PlanStatus(seen[ThisPlan]))
    /\ UNCHANGED <<release, planVars, nodeVars, faults>>

PlanComplete ==
    pc = "plan" /\ Exists(seen[ThisPlan]) /\ PlanStatus(seen[ThisPlan]) = "Complete"

Verified == phase = "k8s" =>
                AllNodesAtKubernetesVersion(Group(group), Target(phase))

AwaitNodes ==
    /\ PlanComplete /\ ~Verified
    /\ Return("InProgress")
    /\ UNCHANGED <<release, planVars, nodeVars, faults>>

\* Mutant: workers are expected in every cluster.
WorkersLast == group = "wk"

LastPlan == group = "wk" \/ cpOnly

NextPlan ==
    /\ PlanComplete /\ Verified /\ ~LastPlan
    /\ group' = "wk"
    /\ UNCHANGED <<release, statusVars, stale, read, planVars, nodeVars, pc,
                   phase, cpOnly, faults>>

NextPhase ==
    /\ PlanComplete /\ Verified /\ LastPlan /\ phase = "os"
    /\ phase' = "k8s" /\ group' = "cp" /\ pc' = "prepare"
    /\ UNCHANGED <<release, statusVars, stale, read, planVars, nodeVars, cpOnly,
                   faults>>

Succeed ==
    /\ PlanComplete /\ Verified /\ LastPlan /\ phase = "k8s"
    /\ WriteStatus(release, "Succeeded")
    /\ UNCHANGED <<release, planVars, nodeVars, faults>>

\* A call to the API server fails.  Some of the old Plans may be gone by
\* then, and a Plan may have been created without the reconciler knowing.
ReconcileError ==
    /\ pc # "idle"
    /\ faults < MaxFaults /\ faults' = faults + 1
    /\ \/ UNCHANGED plans
       \/ /\ pc = "cleanup"
          /\ \E gone \in (SUBSET OldPlans) \ {{}} :
                plans' = [p \in PlanIds |->
                            IF p \in gone THEN NoPlan ELSE plans[p]]
       \/ MissingPlan /\ ~Exists(plans[ThisPlan]) /\ PlanCreated
    /\ IF pc = "cleanup" THEN ReturnEarly ELSE Return("Error")
    /\ UNCHANGED <<release, seen, labelled, nodeVars>>

\* The webhook admits the next release after a success or a failure.  Without
\* AfterFailure a failure is only one written over a success, from an old copy.
Replaced == IF AfterFailure \/ (stale /\ release \in written)
            THEN {"Failed", "Error"} ELSE {}

NextRelease ==
    /\ pc = "idle" /\ release < Len(Releases)
    /\ outcome \in {"Succeeded"} \cup Replaced
    /\ release' = release + 1
    /\ outcome' = "None"
    /\ UNCHANGED <<version, written, stale, read, planVars, nodeVars, pc,
                   callVars, faults>>

CacheSync(p) ==
    /\ seen[p] # plans[p]
    /\ seen' = [seen EXCEPT ![p] = plans[p]]
    /\ UNCHANGED <<release, statusVars, stale, read, plans, labelled, nodeVars,
                   pc, callVars, faults>>

-----------------------------------------------------------------------------
(* SUC and the nodes                                                       *)

Pending(p) == Group(p.group) \ labelled[p]

\* Concurrency is 1.  A Kubernetes worker Job prepares by waiting for the
\* control plane Plan of its version.
StartJob(p, n) ==
    /\ Exists(plans[p]) /\ plans[p].applying = {} /\ n \in Pending(p)
    /\ p.phase = "k8s" /\ p.group = "wk" =>
         PlanStatus(plans[[p EXCEPT !.group = "cp"]]) = "Complete"
    /\ plans' = [plans EXCEPT ![p].applying = {n}, ![p].complete = "Unknown"]
    /\ UNCHANGED <<seen, labelled, nodeVars, faults>>

\* The node runs the new OS, or has the new Kubernetes installed.
JobCompletes(p, n) ==
    /\ n \in plans[p].applying
    /\ plans' = [plans EXCEPT ![p].applying = {}]
    /\ labelled' = [labelled EXCEPT ![p] = @ \cup {n}]
    /\ IF p.phase = "os"
       THEN os' = [os EXCEPT ![n] = p.version] /\ UNCHANGED installed
       ELSE installed' = [installed EXCEPT ![n] = p.version] /\ UNCHANGED os
    /\ UNCHANGED <<seen, joiners, members, kubelet, faults>>

JobFails(p, n) ==
    /\ n \in plans[p].applying
    /\ faults < MaxFaults /\ faults' = faults + 1
    /\ plans' = [plans EXCEPT ![p].applying = {}, ![p].complete = "Failed"]
    /\ UNCHANGED <<seen, labelled, nodeVars>>

MarkComplete(p) ==
    /\ Exists(plans[p]) /\ plans[p].applying = {} /\ Pending(p) = {}
    /\ plans[p].complete # "True"
    /\ plans' = [plans EXCEPT ![p].complete = "True"]
    /\ UNCHANGED <<seen, labelled, nodeVars, faults>>

\* The kubelet comes back with the version installed.
NodeReports(n) ==
    /\ kubelet[n] # installed[n]
    /\ kubelet' = [kubelet EXCEPT ![n] = installed[n]]
    /\ UNCHANGED <<planVars, joiners, members, os, installed, faults>>

Join(n) ==
    /\ n \in joiners \ members
    /\ members' = members \cup {n}
    /\ UNCHANGED <<planVars, joiners, os, installed, kubelet, faults>>

SUC(p) == \/ \E n \in Nodes : StartJob(p, n) \/ JobCompletes(p, n)
          \/ MarkComplete(p)

Still == UNCHANGED <<release, statusVars, stale, read, pc, callVars>>

Cluster == /\ \/ \E p \in PlanIds :
                    SUC(p) \/ \E n \in Nodes : JobFails(p, n)
              \/ \E n \in Nodes : NodeReports(n) \/ Join(n)
           /\ Still

-----------------------------------------------------------------------------
Reconcile == \/ Begin \/ CleanUp \/ PreparePlans
             \/ CreatePlan \/ CreateConflicts \/ PlanPending \/ AwaitNodes
             \/ NextPlan \/ NextPhase \/ Succeed

Next == \/ Reconcile \/ ReconcileError \/ PutBack \/ NextRelease
        \/ \E p \in PlanIds : CacheSync(p)
        \/ Cluster

Spec == Init /\ [][Next]_vars

\* The pipeline is run again until it completes, the informer catches up,
\* SUC handles every Plan and nodes come back.
Fairness ==
    /\ WF_vars(Reconcile)
    /\ \A p \in PlanIds : WF_vars(CacheSync(p)) /\ WF_vars(SUC(p) /\ Still)
    /\ \A n \in Nodes : WF_vars(NodeReports(n) /\ Still)

FairSpec == Spec /\ Fairness

-----------------------------------------------------------------------------
(* Properties                                                              *)

\* The variables keep to their types, and a reconcile gets to the worker
\* Plan only if it found a worker when it prepared the Plans.
TypeOK ==
    /\ release \in 1..Len(Releases) /\ written \subseteq 0..release
    /\ {0, version, read} \subseteq written /\ stale \in BOOLEAN
    /\ plans \in [PlanIds -> PlanStates]
    /\ seen \in [PlanIds -> PlanStates]
    /\ labelled \in [PlanIds -> SUBSET Nodes]
    /\ members \in SUBSET Nodes /\ joiners \in SUBSET Nodes
    /\ os \in [Nodes -> Versions]
    /\ installed \in [Nodes -> Versions]
    /\ kubelet \in [Nodes -> Versions]
    /\ pc \in {"idle", "cleanup", "prepare", "plan"}
    /\ phase \in {"os", "k8s"} /\ group \in {"cp", "wk"} /\ cpOnly \in BOOLEAN
    /\ group = "wk" => ~cpOnly
    /\ outcome \in {"None", "InProgress", "Failed", "Succeeded", "Error"}
    /\ faults \in 0..MaxFaults

\* The phases report Succeeded only when every node runs the release's OS
\* and Kubernetes and is schedulable, whatever stale Plans and status the
\* reconciler read (unless a node joins meanwhile).
NodeAt(n, r) == /\ os[n] = Releases[r].os
                /\ kubelet[n] = Releases[r].k8s /\ installed[n] = kubelet[n]
PhasesHonest ==
    [][outcome' = "Succeeded" /\ outcome # "Succeeded" /\ joiners = {} =>
         /\ version' = release
         /\ \A n \in members : NodeAt(n, release) /\ ~Cordoned(n)]_vars

\* A worker's OS or Kubernetes changes only when all of the control plane
\* has the version already, and Kubernetes only when every node has the
\* release's OS (docs/workflow.md; preparePlans, the loops over the Plans);
\* again unless a node joins.
UpgradeOrder ==
    [][joiners = {} => \A n \in Nodes :
         /\ n \in Workers /\ os'[n] # os[n] =>
              \A c \in ControlPlane \cap members : os[c] = os'[n]
         /\ n \in Workers /\ installed'[n] # installed[n] =>
              \A c \in ControlPlane \cap members : kubelet[c] = installed'[n]
         /\ installed'[n] # installed[n] =>
              \A m \in members : os[m] = Releases[release].os]_vars

\* No two nodes are out of service at once, over all Plans together
\* (Concurrency bounds only the nodes of one Plan), unless a node joins
\* in the middle.
OneNodeAtATime == joiners = {} =>
    \A m, n \in members : Cordoned(m) /\ Cordoned(n) => m = n

\* release_controller.go:189: Plans are created only once those of earlier
\* releases are gone, if no old copy of the Release hides the status.version
\* the clean-up goes by.
OneReleaseAtATime ==
    [][~stale => \A p, q \in PlanIds :
         ~Exists(plans[p]) /\ Exists(plans'[p]) /\ Exists(plans[q])
            => plans[q].label = plans'[p].label]_vars

\* Every node ends with the versions of the last release: also one that joins
\* in the middle, if no old copy of the Release can leave Plans of another
\* release for it, and then that release is reported applied too.
NodesConverge ==
    <>[](/\ ~stale => version = release
         /\ ~stale \/ joiners = {} => \A n \in members : NodeAt(n, release))
=============================================================================
