------------------------- MODULE PackagedComponents -------------------------
(***************************************************************************)
(* The end of the Kubernetes phase: the snapshot of the packaged           *)
(* components of RKE2 and the wait for the ones an upgrade changes         *)
(* (internal/upgrade/reconcilers/rke2_core.go, called from kubernetes.go). *)
(*                                                                         *)
(* Around the reconciler: the RKE2 server, which writes the HelmCharts of  *)
(* its version once it is upgraded, and the Helm Controller, which runs a  *)
(* Job per HelmChart.  Plans are reduced to the version they ask for       *)
(* (NodePlans models them); a chart is its content, which stands for its   *)
(* chartContent, its chart-url annotation and its version.                 *)
(***************************************************************************)
EXTENDS Naturals, Sequences

CONSTANTS
    ControlNode, WorkerNode,  \* a control plane node and a worker
    Charts,         \* names of packaged components
    Versions,       \* Kubernetes versions, 0 the one the cluster starts at
    Content,        \* version -> chart -> content; 0: not in that version
    Releases,       \* the Kubernetes versions of the releases, in order
    AfterFailure,   \* are releases replaced before they succeeded?
    Together,       \* does RKE2 write the charts of a version all at once?
    Reconfigured,   \* components whose Job the user may have run again
    MaxReruns,      \* bound: how often
    MaxFaults       \* bound: errors, crashes and failures of Plans

Nodes == {ControlNode, WorkerNode}

ASSUME ContentAssumption ==
    /\ Versions \subseteq Nat /\ 0 \in Versions
    /\ Content \in [Versions -> [Charts -> Nat]]
ASSUME ReleasesAssumption ==
    /\ ControlNode # WorkerNode
    /\ Releases \in Seq(Versions) /\ Releases # <<>>
    /\ AfterFailure \in BOOLEAN /\ Together \in BOOLEAN
    /\ Reconfigured \subseteq Charts
    /\ MaxReruns \in Nat /\ MaxFaults \in Nat

VARIABLES
    release,    \* the release being applied
    outcome,    \* what the phase last returned for this release
    wanted,     \* the Kubernetes version asked for by Plans
    server,     \* version of the RKE2 server on the control plane
    kubelet,    \* node -> version its kubelet reports
    charts,     \* chart -> content of its HelmChart, 0: no such HelmChart
    job,        \* chart -> the Job of the Helm Controller
    helm,       \* chart -> its last Helm release, revision 0: none
    snapshot,   \* the snapshot ConfigMap; label 0: there is none
    seen,       \* is the snapshot in the informer cache?
    pc,         \* where the reconcile is
    draft,      \* the snapshot under construction
    pairs,      \* new or changed components still to be looked at
    reruns, faults

phaseVars   == <<release, outcome>>
nodeVars    == <<wanted, server, kubelet>>
helmVars    == <<charts, job, helm>>
localVars   == <<pc, draft, pairs>>
vars == <<release, outcome, wanted, server, kubelet, charts, job, helm, snapshot,
          seen, pc, draft, pairs, reruns, faults>>

(***************************************************************************)
(* state of a Job: unnamed, the HelmChart's status names none yet;         *)
(* pending, named but not there; gone, cleaned up.  late: it completed     *)
(* after the present snapshot was created.                                 *)
(***************************************************************************)
JobStates == {"unnamed", "pending", "active", "complete", "gone"}
Contents  == {0} \cup {Content[v][c] : v \in Versions, c \in Charts}
JobRecords  == [state : JobStates, content : Contents, late : BOOLEAN]
\* deployed: some Job installed this content successfully.
HelmRecords == [content : Contents, revision : Nat, deployed : BOOLEAN]
Snapshots   == [label : 0..Len(Releases), source : Versions,
                content : [Charts -> Contents], revision : [Charts -> Nat]]

NoCharts   == [c \in Charts |-> 0]
NoSnapshot == [label |-> 0, source |-> 0, content |-> NoCharts,
               revision |-> NoCharts]

Exists(s) == s.label # 0
Target == Releases[release]

\* findRKE2PackagedComponents
Components == {c \in Charts : charts[c] # 0}

Init ==
    /\ release = 1 /\ outcome = "None"
    /\ wanted = 0 /\ server = 0
    /\ kubelet = [n \in Nodes |-> 0]
    /\ charts = Content[0]
    /\ \E s \in [Charts -> {"complete", "gone"}] :
          job = [c \in Charts |->
                   [state   |-> IF charts[c] = 0 THEN "unnamed" ELSE s[c],
                    content |-> charts[c], late |-> FALSE]]
    /\ helm = [c \in Charts |-> [content  |-> charts[c],
                                 revision |-> IF charts[c] = 0 THEN 0 ELSE 1,
                                 deployed |-> charts[c] # 0]]
    /\ snapshot = NoSnapshot /\ seen = FALSE
    /\ pc = "idle" /\ draft = NoSnapshot /\ pairs = {}
    /\ reruns = 0 /\ faults = 0

-----------------------------------------------------------------------------
(* GenerateSnapshot                                                        *)

Return(result) ==
    /\ pc' = "idle" /\ outcome' = result
    /\ draft' = NoSnapshot /\ pairs' = {}
    /\ UNCHANGED release

Step(next) == pc' = next /\ UNCHANGED <<phaseVars, pairs>>

\* Mutant: a snapshot is taken for this release whatever its labels say.
AnyRelease == TRUE

ForThisRelease == snapshot.label = release

ReuseSnapshot ==
    /\ pc = "idle"
    /\ seen /\ ForThisRelease
    /\ Step("plan")
    /\ UNCHANGED <<nodeVars, helmVars, snapshot, seen, draft, reruns, faults>>

\* Mutant: the snapshot is deleted, and nobody waits until it is gone.
DeletedUnseen == UNCHANGED seen

Deleted == seen' = FALSE

\* deleteSnapshotAndWait returns once the cache does not have it any more.
DeleteSnapshot ==
    /\ pc = "idle"
    /\ seen /\ ~ForThisRelease
    /\ snapshot' = NoSnapshot /\ Deleted
    /\ Step("version")
    /\ UNCHANGED <<nodeVars, helmVars, draft, reruns, faults>>

SnapshotNotFound ==
    /\ pc = "idle"
    /\ ~seen
    /\ Step("version")
    /\ UNCHANGED <<nodeVars, helmVars, snapshot, seen, draft, reruns, faults>>

\* createSnapshot takes the version of the first node the cache lists.
ReadVersion ==
    /\ pc = "version"
    /\ \E n \in Nodes : draft' = [draft EXCEPT !.source = kubelet[n]]
    /\ Step("list")
    /\ UNCHANGED <<nodeVars, helmVars, snapshot, seen, reruns, faults>>

\* populateSnapshot: every chart listed needs a Helm release.
CanRecord == \A c \in Components : helm[c].revision > 0

ListCharts ==
    /\ pc = "list" /\ CanRecord
    /\ draft' = [draft EXCEPT
                   !.content = charts,
                   !.revision = [c \in Charts |->
                       IF charts[c] = 0 THEN 0 ELSE helm[c].revision]]
    /\ Step("create")
    /\ UNCHANGED <<nodeVars, helmVars, snapshot, seen, reruns, faults>>

\* The snapshot is read back from the cache, which may not have it yet.
CreateSnapshot ==
    /\ pc = "create" /\ ~Exists(snapshot)
    /\ snapshot' = [draft EXCEPT !.label = release]
    /\ job' = [c \in Charts |-> [job[c] EXCEPT !.late = FALSE]]
    /\ \/ seen' = TRUE /\ Step("plan") /\ draft' = NoSnapshot
       \/ seen' = FALSE /\ Return("Error")
    /\ UNCHANGED <<nodeVars, charts, helm, reruns, faults>>

\* A chart has no Helm release yet, or the name of the snapshot is taken.
SnapshotFails ==
    /\ \/ pc = "list" /\ ~CanRecord
       \/ pc = "create" /\ Exists(snapshot)
    /\ Return("Error")
    /\ UNCHANGED <<nodeVars, helmVars, snapshot, seen, reruns, faults>>

-----------------------------------------------------------------------------
(* KubernetesReconciler.Reconcile: the Plans, then ReconcileAvailability   *)

AllAtTarget == \A n \in Nodes : kubelet[n] = Target

AwaitNodes ==
    /\ pc = "plan" /\ ~AllAtTarget
    /\ wanted' = Target
    /\ Return("InProgress")
    /\ UNCHANGED <<server, kubelet, helmVars, snapshot, seen, reruns, faults>>

\* A Job of the Plan has failed.
PlanFailed ==
    /\ pc = "plan" /\ ~AllAtTarget /\ wanted = Target
    /\ faults < MaxFaults /\ faults' = faults + 1
    /\ Return("Failed")
    /\ UNCHANGED <<nodeVars, helmVars, snapshot, seen, reruns>>

NodesDone ==
    /\ pc = "plan" /\ AllAtTarget
    /\ wanted' = Target
    /\ Step("find")
    /\ UNCHANGED <<server, kubelet, helmVars, snapshot, seen, draft, reruns,
                   faults>>

\* Mutant: only components the snapshot has are compared.
ChangedOnly == {c \in Components : /\ snapshot.content[c] # 0
                                   /\ charts[c] # snapshot.content[c]}

\* findNewOrChangedRKE2PackagedComponents
NewOrChanged == {c \in Components : charts[c] # snapshot.content[c]}

\* Mutant: without a change the wait goes on.
NeverUnchanged == FALSE

\* The versions are compared as they are written.
VersionUnchanged == Target = snapshot.source

NothingChanged ==
    /\ pc = "find" /\ NewOrChanged = {}
    /\ Return(IF VersionUnchanged THEN "Succeeded" ELSE "InProgress")
    /\ UNCHANGED <<nodeVars, helmVars, snapshot, seen, reruns, faults>>

\* A HelmChart that names no Job yet ends the wait for this time, whichever
\* component is looked at first.
FindChanged ==
    /\ pc = "find" /\ NewOrChanged # {}
    /\ IF \E c \in NewOrChanged : job[c].state = "unnamed"
       THEN Return("InProgress")
       ELSE /\ pairs' = NewOrChanged /\ pc' = "check"
            /\ UNCHANGED <<phaseVars, draft>>
    /\ UNCHANGED <<nodeVars, helmVars, snapshot, seen, reruns, faults>>

\* Mutant: the revision recorded counts as one past it.
NotBehindSnapshot(c) ==
    /\ helm[c].revision > 0
    /\ helm[c].revision >= snapshot.revision[c]

\* hasHelmReleaseAdvancedPastSnapshot: of the last Helm release, whatever
\* its state.
AdvancedPastSnapshot(c) ==
    /\ helm[c].revision > 0
    /\ snapshot.content[c] # 0 =>
         \/ helm[c].content # snapshot.content[c]
         \/ helm[c].revision > snapshot.revision[c]

\* Mutant: the time of completion is not compared.
AnyCompletion(c) == job[c].state = "complete"

CompletedLate(c) == job[c].state = "complete" /\ job[c].late

\* isHelmChartJobComplete
JobComplete(c) ==
    \/ CompletedLate(c)
    \/ job[c].state \in {"pending", "gone"} /\ AdvancedPastSnapshot(c)

\* The pairs come out of a map, in any order.
CheckJob(c) ==
    /\ pc = "check" /\ c \in pairs
    /\ IF ~JobComplete(c) THEN Return("InProgress")
       ELSE IF pairs = {c} THEN Return("Succeeded")
       ELSE pairs' = pairs \ {c} /\ UNCHANGED <<phaseVars, pc, draft>>
    /\ UNCHANGED <<nodeVars, helmVars, snapshot, seen, reruns, faults>>

\* A call fails, or the manager stops.
Interrupted ==
    /\ pc # "idle"
    /\ faults < MaxFaults /\ faults' = faults + 1
    /\ Return("Error")
    /\ UNCHANGED <<nodeVars, helmVars, snapshot, seen, reruns>>

-----------------------------------------------------------------------------
(* User, informer, nodes                                                   *)

Replaced == IF AfterFailure THEN {"Failed"} ELSE {}

NextRelease ==
    /\ pc = "idle" /\ release < Len(Releases)
    /\ outcome \in {"Succeeded"} \cup Replaced
    /\ release' = release + 1 /\ outcome' = "None"
    /\ UNCHANGED <<nodeVars, helmVars, snapshot, seen, localVars,
                   reruns, faults>>

CacheSync ==
    /\ seen # Exists(snapshot)
    /\ seen' = Exists(snapshot)
    /\ UNCHANGED <<phaseVars, nodeVars, helmVars, snapshot, localVars, reruns,
                   faults>>

UpgradeServer ==
    /\ server # wanted
    /\ server' = wanted
    /\ UNCHANGED <<wanted, kubelet, helmVars>>

\* The worker follows the control plane.
NodeReports(n) ==
    /\ kubelet[n] # server
    /\ n = WorkerNode => kubelet[ControlNode] = server
    /\ kubelet' = [kubelet EXCEPT ![n] = server]
    /\ UNCHANGED <<wanted, server, helmVars>>

Batches == IF Together THEN {Charts} ELSE {{c} : c \in Charts}

\* The server applies the manifests of its version.
WriteCharts ==
    /\ charts # Content[server]
    /\ \E b \in Batches :
          charts' = [c \in Charts |-> IF c \in b THEN Content[server][c]
                                     ELSE charts[c]]
    /\ UNCHANGED <<nodeVars, job, helm>>

-----------------------------------------------------------------------------
(* The Helm Controller                                                     *)

\* The Job of another content is replaced: its name is known, it is not
\* there.  A completed one may also have to run again (a HelmChartConfig).
ReplaceJob(c) ==
    /\ charts[c] # 0 /\ job[c].content # charts[c]
    /\ job' = [job EXCEPT ![c] = [state |-> "pending", content |-> charts[c],
                                  late |-> FALSE]]
    /\ UNCHANGED <<charts, helm, reruns>>

RepeatJob(c) ==
    /\ c \in Reconfigured
    /\ job[c].state \in {"complete", "gone"}
    /\ reruns < MaxReruns /\ reruns' = reruns + 1
    /\ job' = [job EXCEPT ![c].state = "pending", ![c].late = FALSE]
    /\ UNCHANGED <<charts, helm>>

StartJob(c) ==
    /\ job[c].state = "pending"
    /\ job' = [job EXCEPT ![c].state = "active"]
    /\ helm' = [helm EXCEPT
                  ![c] = [content  |-> job[c].content,
                          revision |-> @.revision + 1,
                          deployed |-> @.deployed /\ @.content = job[c].content]]
    /\ UNCHANGED <<charts, reruns>>

CompleteJob(c) ==
    /\ job[c].state = "active"
    /\ job' = [job EXCEPT ![c].state = "complete", ![c].late = TRUE]
    /\ helm' = [helm EXCEPT ![c].deployed = TRUE]
    /\ UNCHANGED <<charts, reruns>>

CleanUpJob(c) ==
    /\ job[c].state = "complete"
    /\ job' = [job EXCEPT ![c].state = "gone"]
    /\ UNCHANGED <<charts, helm, reruns>>

HelmController(c) == ReplaceJob(c) \/ StartJob(c) \/ CompleteJob(c)

Outside == UNCHANGED <<phaseVars, snapshot, seen, localVars, faults>>

Cluster ==
    /\ Outside
    /\ \/ /\ UpgradeServer \/ WriteCharts \/ \E n \in Nodes : NodeReports(n)
          /\ UNCHANGED reruns
       \/ /\ \E c \in Charts : HelmController(c) \/ RepeatJob(c)
                                                 \/ CleanUpJob(c)
          /\ UNCHANGED nodeVars

-----------------------------------------------------------------------------
Reconcile ==
    \/ ReuseSnapshot \/ DeleteSnapshot \/ SnapshotNotFound
    \/ ReadVersion \/ ListCharts \/ CreateSnapshot \/ SnapshotFails
    \/ AwaitNodes \/ PlanFailed \/ NodesDone \/ NothingChanged \/ FindChanged
    \/ \E c \in Charts : CheckJob(c)

Next == Reconcile \/ Interrupted \/ NextRelease \/ CacheSync \/ Cluster

Spec == Init /\ [][Next]_vars

\* The phase is run again until it succeeds (UpgradeInProgress is requeued),
\* the informer catches up, nodes upgrade, RKE2 writes its charts and the
\* Helm Controller runs its Jobs to completion.
Fairness ==
    /\ WF_vars(Reconcile) /\ WF_vars(CacheSync)
    /\ WF_vars(UpgradeServer /\ Outside /\ UNCHANGED reruns)
    /\ WF_vars(WriteCharts /\ Outside /\ UNCHANGED reruns)
    /\ \A n \in Nodes : WF_vars(NodeReports(n) /\ Outside /\ UNCHANGED reruns)
    /\ \A c \in Charts :
         WF_vars(HelmController(c) /\ Outside /\ UNCHANGED nodeVars)

FairSpec == Spec /\ Fairness

-----------------------------------------------------------------------------
(* Properties                                                              *)

\* The variables keep to their types; a component is looked at only while
\* its HelmChart is there, and the cache has no snapshot that is not there.
TypeOK ==
    /\ release \in 1..Len(Releases)
    /\ outcome \in {"None", "InProgress", "Failed", "Error", "Succeeded"}
    /\ wanted \in Versions /\ server \in Versions
    /\ kubelet \in [Nodes -> Versions]
    /\ charts \in [Charts -> Contents]
    /\ job \in [Charts -> JobRecords] /\ helm \in [Charts -> HelmRecords]
    /\ snapshot \in Snapshots /\ draft \in Snapshots
    /\ seen \in BOOLEAN /\ seen => Exists(snapshot)
    /\ pc \in {"idle", "version", "list", "create", "plan", "find", "check"}
    /\ pairs \subseteq Charts /\ (pc = "check" <=> pairs # {})
    /\ reruns \in 0..MaxReruns /\ faults \in 0..MaxFaults

\* docs/workflow.md:52: the phase is complete only when every packaged
\* component of the version is there, installed by its own Job, and all
\* nodes are at the version; across retries, errors and re-created snapshots.
Available(v) == /\ charts = Content[v]
                /\ \A c \in Components : /\ helm[c].content = charts[c]
                                         /\ helm[c].deployed
ComponentsHonest ==
    [][pc # "idle" /\ pc' = "idle" /\ outcome' = "Succeeded"
         => Available(Target) /\ AllAtTarget]_vars

\* kubernetes.go:103: before any upgrade there is a snapshot for the release,
\* and it shows the version and the charts the upgrade starts from, although
\* it is taken in steps and may take several reconciles.
SnapshotFirst ==
    [][server' # server =>
         /\ snapshot.label = release
         /\ snapshot.source = server /\ snapshot.content = charts]_vars

\* The wait for the packaged components ends, for every release submitted.
WaitEnds == []<>(outcome = "Succeeded")
=============================================================================
