-------------------------- MODULE NodePlansProofs --------------------------
(***************************************************************************)
(* Proofs about NodePlans, for all nodes, releases and bounds: its type    *)
(* invariant; that Plans of two releases are never mixed, if the Release's *)
(* status is read as it is stored; and, as long as no node joins, that one *)
(* node at a time is out of service, that nodes are upgraded in order, and *)
(* that the phases succeed only when every node is at the release, also if *)
(* reconciles start from old copies of the Release.  All but the first     *)
(* need that a release succeeds before the next one is submitted           *)
(* (~AfterFailure).                                                        *)
(***************************************************************************)
EXTENDS NodePlans, SequenceTheorems, TLAPS

-----------------------------------------------------------------------------
(* The invariants.                                                         *)

\* The Plans of a release are made in this order.
Rank(ph, g) == (IF ph = "os" THEN 0 ELSE 2) + (IF g = "cp" THEN 0 ELSE 1)
Before(p, q) == Rank(p.phase, p.group) < Rank(q.phase, q.group)

\* The names of the Plans of the present release.
Own(p) == p.version = Target(p.phase)
Made(p) == Exists(plans[p]) /\ plans[p].label = release

(***************************************************************************)
(* Which Plans there are, whatever copies of the Release reconciles start  *)
(* from.  A Plan in the cache is the one that exists, if one exists; the   *)
(* Plans of this release carry its versions.                               *)
(***************************************************************************)
SamePlan == \A p \in PlanIds :
    Exists(plans[p]) /\ Exists(seen[p]) => seen[p].label = plans[p].label

PlansKnown == \A p \in PlanIds : Exists(plans[p]) =>
    /\ plans[p].label \in 1..release
    /\ Made(p) => Own(p)
    /\ p.group = "wk" => Group("wk") # {}

\* Where the reconcile is; success leaves its trace in status.version.
Place ==
    /\ outcome = "Succeeded" => release \in written
    /\ pc = "cleanup" => phase = "os"
    /\ pc \in {"cleanup", "prepare"} => group = "cp"
    /\ pc = "plan" =>
         IF cpOnly THEN \A p \in PlanIds : Exists(plans[p]) => p.group = "cp"
                   ELSE Group("wk") # {}

Labels == SamePlan /\ PlansKnown /\ Place

(***************************************************************************)
(* With status.version as it is stored (~stale), Plans are those of this   *)
(* release or all of the one before, and in the latter case the cache has  *)
(* them all, so that the clean-up finds them.                              *)
(***************************************************************************)
Previous == \A p \in PlanIds : Exists(plans[p]) =>
    /\ plans[p].label \in {release - 1, release}
    /\ ~Made(p) => Exists(seen[p])

Unmixed ==
    (version = release \/ pc \in {"prepare", "plan"} \/ \E q \in PlanIds : Made(q))
        => \A p \in PlanIds : Exists(plans[p]) => Made(p)

\* The reconcile has seen the Plans before the one it is at.
Watched ==
    /\ version \in {release - 1, release}
    /\ pc # "idle" => read = version
    /\ outcome = "Succeeded" =>
         /\ version = release
         /\ \A p \in PlanIds : Exists(plans[p]) => Exists(seen[p])
    /\ pc \in {"prepare", "plan"} =>
         \A p \in PlanIds : Exists(plans[p]) /\ Rank(p.phase, p.group) < Rank(phase, group)
                               => Exists(seen[p])

Tidy == ~stale => Previous /\ Unmixed /\ Watched

(***************************************************************************)
(* Which nodes are done, when none joins.  SUC's labels stay, so a Plan    *)
(* that was complete once never applies again, under whatever release its  *)
(* name returns.                                                           *)
(***************************************************************************)
Done(p) == Group(p.group) \subseteq labelled[p]

Applying == \A p \in PlanIds :
    /\ plans[p].complete = "True" \/ seen[p].complete = "True" => Done(p)
    /\ \A n \in plans[p].applying : /\ Exists(plans[p])
                                    /\ n \in Group(p.group) \ labelled[p]
                                    /\ plans[p].applying = {n}

DoneBefore ==
    /\ \A p \in PlanIds : Exists(plans[p]) =>
         IF Made(p) THEN \A q \in PlanIds : Own(q) /\ Before(q, p) => Done(q)
                    ELSE Done(p)
    /\ release \in written => \A q \in PlanIds : Own(q) => Done(q)
    /\ pc \in {"prepare", "plan"} =>
         \A q \in PlanIds : Own(q) /\ Rank(q.phase, q.group) < Rank(phase, group)
                               => Done(q)
    /\ pc = "plan" /\ cpOnly => members \subseteq ControlPlane

Turns == Applying /\ DoneBefore

(***************************************************************************)
(* Which versions the nodes have.  A label says which version a node got;  *)
(* the last of them counts, if a version that was left does not return.    *)
(***************************************************************************)
VersionOf(r, ph) == IF ph = "os" THEN Releases[r].os ELSE Releases[r].k8s
NoReturn == \A ph \in {"os", "k8s"} : \A r \in 1..Len(Releases) : \A s \in 1..r :
    \A t \in s..r : VersionOf(s, ph) = VersionOf(r, ph)
                       => VersionOf(t, ph) = VersionOf(r, ph)

Reported == \A c \in Group("cp") : kubelet[c] = installed[c]

Nodal ==
    /\ \A p \in PlanIds : \A n \in labelled[p] :
         /\ \E s \in 1..release : p.version = VersionOf(s, p.phase)
         /\ Own(p) => p.version = (IF p.phase = "os" THEN os[n] ELSE installed[n])
    /\ pc = "plan" /\ phase = "k8s" /\ group = "wk" => Reported
    /\ \A p \in PlanIds : Made(p) /\ p.phase = "k8s" /\ p.group = "wk" => Reported

QuietTurns == joiners = {} => Turns
QuietNodal == joiners = {} => Nodal

-----------------------------------------------------------------------------
(* Single steps, by what they do to the Plans.                             *)

CompleteStates == {"Unknown", "True", "Failed"}

\* The versions of a release are versions.
LEMMA TargetType ==
    ASSUME release \in 1..Len(Releases), NEW ph \in {"os", "k8s"}
    PROVE  Target(ph) \in Versions /\ Target(ph) # 0
  <1>1. Releases[release] \in [os : Nat \ {0}, k8s : Nat \ {0}]
    BY ReleasesAssumption, ElementOfSeq
  <1>2. /\ Releases[release].os \in Versions
        /\ Releases[release].k8s \in Versions
    BY DEF Versions
  <1> QED  BY <1>1, <1>2 DEF Target

LEMMA ThisPlanType ==
    ASSUME TypeOK
    PROVE  /\ ThisPlan \in PlanIds /\ Own(ThisPlan)
           /\ ThisPlan.phase = phase /\ ThisPlan.group = group
  BY TargetType DEF TypeOK, ThisPlan, PlanIds, Own

LEMMA NoPlanType == NoPlan \in PlanStates /\ ~Exists(NoPlan)
  <1>1. 0 \in 0..Len(Releases)
    BY ReleasesAssumption, LenProperties
  <1> QED  BY <1>1 DEF NoPlan, PlanStates, Exists

\* The name of a Plan is made of three parts.
LEMMA SameName ==
    ASSUME NEW p \in PlanIds, NEW q \in PlanIds, p.phase = q.phase,
           p.group = q.group, p.version = q.version
    PROVE  p = q
  BY DEF PlanIds

\* SUC changes the nodes a Plan applies to and its condition.
Patched(p, nodes, cond) ==
    /\ plans' \in [PlanIds -> PlanStates]
    /\ \A q \in PlanIds \ {p} : plans'[q] = plans[q]
    /\ plans'[p].label = plans[p].label
    /\ plans'[p].applying = nodes /\ plans'[p].complete = cond

LEMMA Patch ==
    ASSUME plans \in [PlanIds -> PlanStates], NEW p \in PlanIds,
           NEW nodes \in SUBSET Nodes, NEW cond \in CompleteStates,
           \/ plans' = [plans EXCEPT ![p].applying = nodes, ![p].complete = cond]
           \/ /\ plans' = [plans EXCEPT ![p].applying = nodes]
              /\ plans[p].complete = cond
           \/ /\ plans' = [plans EXCEPT ![p].complete = cond]
              /\ plans[p].applying = nodes
    PROVE  Patched(p, nodes, cond)
  <1> DEFINE new == [label |-> plans[p].label, applying |-> nodes,
                     complete |-> cond]
  <1>1. plans[p] \in PlanStates
    OBVIOUS
  <1>2. new \in PlanStates
    BY <1>1 DEF PlanStates, CompleteStates
  <1>3. plans' = [plans EXCEPT ![p] = new]
    <2>1. plans[p] = [label |-> plans[p].label, applying |-> plans[p].applying,
                      complete |-> plans[p].complete]
      BY <1>1 DEF PlanStates
    <2>2. CASE plans' = [plans EXCEPT ![p].applying = nodes, ![p].complete = cond]
      <3> DEFINE mid == [label |-> plans[p].label, applying |-> nodes,
                         complete |-> plans[p].complete]
                 f == [plans EXCEPT ![p] = mid]
      <3>1. [plans[p] EXCEPT !.applying = nodes] = mid
        BY <2>1
      <3>2. [plans EXCEPT ![p].applying = nodes] = f
        BY <3>1
      <3>3. plans' = [f EXCEPT ![p].complete = cond]
        BY <2>2, <3>2
      <3>4. [mid EXCEPT !.complete = cond] = new
        OBVIOUS
      <3>5. f[p] = mid /\ plans' = [f EXCEPT ![p] = [mid EXCEPT !.complete = cond]]
        BY <3>3
      <3> QED  BY <3>4, <3>5
    <2>3. CASE /\ plans' = [plans EXCEPT ![p].applying = nodes]
               /\ plans[p].complete = cond
      <3>1. [plans[p] EXCEPT !.applying = nodes] = new
        BY <2>1, <2>3
      <3> QED  BY <2>3, <3>1
    <2>4. CASE /\ plans' = [plans EXCEPT ![p].complete = cond]
               /\ plans[p].applying = nodes
      <3>1. [plans[p] EXCEPT !.complete = cond] = new
        BY <2>1, <2>4
      <3> QED  BY <2>4, <3>1
    <2> QED  BY <2>2, <2>3, <2>4
  <1>4. new.label = plans[p].label /\ new.applying = nodes /\ new.complete = cond
    OBVIOUS
  <1> HIDE DEF new
  <1> QED  BY <1>2, <1>3, <1>4 DEF Patched

LEMMA Starts ==
    ASSUME TypeOK, NEW p \in PlanIds, NEW n \in Nodes, StartJob(p, n)
    PROVE  Patched(p, {n}, "Unknown")
  <1>1. plans' = [plans EXCEPT ![p].applying = {n}, ![p].complete = "Unknown"]
    BY DEF StartJob
  <1>2. plans \in [PlanIds -> PlanStates] /\ {n} \in SUBSET Nodes
    BY DEF TypeOK
  <1>3. "Unknown" \in CompleteStates
    BY DEF CompleteStates
  <1> QED  BY <1>1, <1>2, <1>3, Patch

LEMMA Completes ==
    ASSUME TypeOK, NEW p \in PlanIds, NEW n \in Nodes, JobCompletes(p, n)
    PROVE  Patched(p, {}, plans[p].complete)
  <1>1. plans' = [plans EXCEPT ![p].applying = {}]
    BY DEF JobCompletes
  <1>2. /\ plans \in [PlanIds -> PlanStates] /\ {} \in SUBSET Nodes
        /\ plans[p].complete \in CompleteStates
    BY DEF TypeOK, PlanStates, CompleteStates
  <1> QED  BY <1>1, <1>2, Patch

LEMMA Fails ==
    ASSUME TypeOK, NEW p \in PlanIds, NEW n \in Nodes, JobFails(p, n)
    PROVE  Patched(p, {}, "Failed")
  <1>1. plans' = [plans EXCEPT ![p].applying = {}, ![p].complete = "Failed"]
    BY DEF JobFails
  <1>2. plans \in [PlanIds -> PlanStates] /\ {} \in SUBSET Nodes
    BY DEF TypeOK
  <1>3. "Failed" \in CompleteStates
    BY DEF CompleteStates
  <1> QED  BY <1>1, <1>2, <1>3, Patch

LEMMA Marks ==
    ASSUME TypeOK, NEW p \in PlanIds, MarkComplete(p)
    PROVE  Patched(p, {}, "True")
  <1>1. /\ plans' = [plans EXCEPT ![p].complete = "True"]
        /\ plans[p].applying = {}
    BY DEF MarkComplete
  <1>2. plans \in [PlanIds -> PlanStates] /\ {} \in SUBSET Nodes
    BY DEF TypeOK
  <1>3. "True" \in CompleteStates
    BY DEF CompleteStates
  <1> QED  BY <1>1, <1>2, <1>3, Patch

\* A step of SUC or of a node leaves the reconciler and its view alone.
LEMMA ClusterFrame ==
    ASSUME Cluster
    PROVE  UNCHANGED <<release, version, written, stale, read, seen, joiners, pc,
                       phase, group, cpOnly, outcome>>
  BY DEF Cluster, SUC, StartJob, JobCompletes, JobFails, MarkComplete, Still,
         NodeReports, Join, nodeVars, planVars, callVars, statusVars

\* getOrCreatePlan creates an empty Plan, labelled with the release.
NewPlan == [label |-> release, applying |-> {}, complete |-> "Unknown"]

LEMMA Create ==
    ASSUME TypeOK, PlanCreated
    PROVE  /\ plans' \in [PlanIds -> PlanStates]
           /\ \A q \in PlanIds \ {ThisPlan} : plans'[q] = plans[q]
           /\ plans'[ThisPlan] = NewPlan /\ NewPlan.label = release
           /\ NewPlan.applying = {} /\ NewPlan.complete = "Unknown"
  <1>1. [NoPlan EXCEPT !.label = release] = NewPlan
    BY DEF NoPlan, NewPlan
  <1>2. NewPlan \in PlanStates
    BY ReleasesAssumption DEF NewPlan, PlanStates, TypeOK
  <1>3. plans' = [plans EXCEPT ![ThisPlan] = NewPlan]
    BY <1>1 DEF PlanCreated
  <1>4. /\ NewPlan.label = release
        /\ NewPlan.applying = {} /\ NewPlan.complete = "Unknown"
    BY DEF NewPlan
  <1>5. ThisPlan \in PlanIds /\ plans \in [PlanIds -> PlanStates]
    BY ThisPlanType DEF TypeOK
  <1> QED  BY <1>2, <1>3, <1>4, <1>5

\* A clean-up, whole or in part, deletes old Plans and nothing else.
Deletes == \E gone \in SUBSET OldPlans :
    plans' = [p \in PlanIds |-> IF p \in gone THEN NoPlan ELSE plans[p]]

LEMMA Delete ==
    ASSUME TypeOK, Deletes
    PROVE  /\ plans' \in [PlanIds -> PlanStates]
           /\ \A p \in PlanIds : \/ plans'[p] = plans[p]
                                 \/ p \in OldPlans /\ plans'[p] = NoPlan
  BY NoPlanType DEF Deletes, TypeOK

\* A reconcile that ends without success writes no version that was never
\* written, and, if it started from the Release as stored, the same one.
Ending ==
    /\ pc # "idle" /\ pc' = "idle" /\ read' = 0
    /\ version' \in written /\ (~stale => version' = read)
    /\ UNCHANGED <<written, stale, phase, group, cpOnly>>

LEMMA Returns ==
    ASSUME TypeOK, pc # "idle", NEW result, Return(result)
    PROVE  /\ Ending
           /\ outcome' \in {result, outcome}
           /\ ~stale => outcome' = result
  <1>1. version \in written /\ read \in written
    BY DEF TypeOK
  <1> QED  BY <1>1 DEF Return, WriteStatus, Ending, callVars

LEMMA ReturnsEarly ==
    ASSUME TypeOK, pc # "idle", ReturnEarly
    PROVE  /\ Ending
           /\ outcome' \in {"None", outcome}
           /\ ~stale => outcome' = outcome
  BY Returns DEF ReturnEarly

LEMMA Succeeds ==
    ASSUME Succeed
    PROVE  /\ PlanComplete /\ Verified /\ LastPlan /\ phase = "k8s"
           /\ pc' = "idle" /\ read' = 0
           /\ \/ version' = release /\ outcome' = "Succeeded"
              \/ stale /\ version' = version /\ outcome' = outcome
           /\ written' = written \cup {version'}
           /\ UNCHANGED <<release, stale, plans, seen, labelled, joiners, members,
                          os, installed, kubelet, phase, group, cpOnly, faults>>
  BY DEF Succeed, WriteStatus, callVars, planVars, nodeVars

\* An error ends a reconcile; what it leaves of the Plans is one of these.
LEMMA ErrorStep ==
    ASSUME TypeOK, ReconcileError
    PROVE  /\ Ending
           /\ outcome' \in {"None", "Error", outcome}
           /\ ~stale => outcome' = IF pc = "cleanup" THEN outcome ELSE "Error"
           /\ UNCHANGED <<release, seen, labelled, joiners, members, os,
                          installed, kubelet>>
           /\ \/ plans' = plans
              \/ pc = "cleanup" /\ Deletes
              \/ MissingPlan /\ ~Exists(plans[ThisPlan]) /\ PlanCreated
  <1>1. pc # "idle"
    BY DEF ReconcileError
  <1>2. /\ Ending /\ outcome' \in {"None", "Error", outcome}
        /\ ~stale => outcome' = IF pc = "cleanup" THEN outcome ELSE "Error"
    <2>1. CASE pc = "cleanup"
      BY <1>1, <2>1, ReturnsEarly DEF ReconcileError
    <2>2. CASE pc # "cleanup"
      BY <1>1, <2>2, Returns DEF ReconcileError
    <2> QED  BY <2>1, <2>2
  <1> QED  BY <1>2 DEF ReconcileError, nodeVars, Deletes

-----------------------------------------------------------------------------
(* Types.                                                                  *)

\* The variables have their types initially.
LEMMA TypeInit == Init => TypeOK
  <1> SUFFICES ASSUME Init PROVE TypeOK
    OBVIOUS
  <1>1. /\ release \in 1..Len(Releases) /\ written \subseteq 0..release
        /\ {0, version, read} \subseteq written
    BY ReleasesAssumption, EmptySeq DEF Init
  <1>2. 0 \in Versions
    BY DEF Versions
  <1>3. members \in SUBSET Nodes /\ joiners \in SUBSET Nodes /\ stale \in BOOLEAN
    BY NodesAssumption DEF Init
  <1>4. plans \in [PlanIds -> PlanStates] /\ seen \in [PlanIds -> PlanStates]
    BY NoPlanType DEF Init
  <1>5. /\ labelled \in [PlanIds -> SUBSET Nodes] /\ os \in [Nodes -> Versions]
        /\ installed \in [Nodes -> Versions] /\ kubelet \in [Nodes -> Versions]
    BY <1>2 DEF Init
  <1>6. faults \in 0..MaxFaults
    BY ReleasesAssumption DEF Init
  <1>7. /\ pc = "idle" /\ phase = "os" /\ group = "cp" /\ cpOnly = FALSE
        /\ outcome = "None"
    BY DEF Init
  <1> QED  BY <1>1, <1>3, <1>4, <1>5, <1>6, <1>7 DEF TypeOK

\* A reconcile's steps that return keep the types.
LEMMA TypeReturn ==
    ASSUME TypeOK, Ending, plans' \in [PlanIds -> PlanStates],
           faults' \in 0..MaxFaults,
           outcome' \in {"None", "InProgress", "Failed", "Error", outcome},
           UNCHANGED <<release, seen, labelled, joiners, members, os, installed,
                       kubelet>>
    PROVE  TypeOK'
  BY DEF Ending, TypeOK

\* The reconciler's steps keep the types.
LEMMA TypeReconcile == TypeOK /\ Reconcile => TypeOK'
  <1> SUFFICES ASSUME TypeOK, Reconcile PROVE TypeOK'
    OBVIOUS
  <1> USE DEF nodeVars, planVars, callVars, statusVars
  <1>0. plans \in [PlanIds -> PlanStates] /\ faults \in 0..MaxFaults
    BY DEF TypeOK
  <1>1. CASE Begin
    BY <1>1 DEF Begin, TypeOK
  <1>2. CASE CleanUp
    <2>1. Deletes
      BY <1>2 DEF CleanUp, Deletes
    <2>2. plans' \in [PlanIds -> PlanStates]
      BY <2>1, Delete
    <2>3. UNCHANGED <<release, seen, labelled, joiners, members, os, installed,
                      kubelet, faults>> /\ pc = "cleanup"
      BY <1>2 DEF CleanUp
    <2>4. CASE ReturnEarly
      BY <1>0, <2>2, <2>3, <2>4, ReturnsEarly, TypeReturn
    <2>5. CASE ~ReturnEarly
      <3>1. pc' = "prepare" /\ UNCHANGED <<version, written, stale, read, phase,
                                          group, cpOnly, outcome>>
        BY <1>2, <2>5 DEF CleanUp
      <3> QED  BY <2>2, <2>3, <3>1 DEF TypeOK
    <2> QED  BY <2>4, <2>5
  <1>3. CASE PreparePlans
    BY <1>3 DEF PreparePlans, TypeOK
  <1>4. CASE CreatePlan
    <2>1. plans' \in [PlanIds -> PlanStates] /\ pc = "plan"
      BY <1>4, Create DEF CreatePlan, MissingPlan
    <2>2. Ending /\ outcome' \in {"InProgress", outcome}
      BY <1>4, <2>1, Returns DEF CreatePlan
    <2> QED  BY <1>0, <1>4, <2>1, <2>2, TypeReturn DEF CreatePlan
  <1>5. CASE CreateConflicts \/ AwaitNodes
    <2>1. Ending /\ outcome' \in {"InProgress", "Error", outcome}
      BY <1>5, Returns DEF CreateConflicts, AwaitNodes, MissingPlan, PlanComplete
    <2> QED  BY <1>0, <1>5, <2>1, TypeReturn DEF CreateConflicts, AwaitNodes
  <1>6. CASE PlanPending
    <2>1. /\ seen[ThisPlan].complete \in {"Unknown", "True", "Failed"}
          /\ seen[ThisPlan].applying \in SUBSET Nodes
      BY ThisPlanType DEF TypeOK, PlanStates
    <2>2. PlanStatus(seen[ThisPlan]) \in {"InProgress", "Complete", "Failed"}
      BY <2>1 DEF PlanStatus
    <2>3. Ending /\ outcome' \in {"InProgress", "Failed", outcome}
      BY <1>6, <2>2, Returns DEF PlanPending
    <2> QED  BY <1>0, <1>6, <2>3, TypeReturn DEF PlanPending
  <1>7. CASE NextPlan \/ NextPhase
    <2>1. /\ group' \in {"cp", "wk"} /\ (group' = "wk" => ~cpOnly)
          /\ phase' \in {"os", "k8s"} /\ pc' \in {"plan", "prepare"}
          /\ UNCHANGED <<release, version, written, stale, read, plans, seen,
                         labelled, joiners, members, os, installed, kubelet,
                         cpOnly, outcome, faults>>
      BY <1>7 DEF NextPlan, NextPhase, LastPlan, PlanComplete, TypeOK
    <2> QED  BY <2>1 DEF TypeOK
  <1>8. CASE Succeed
    <2>1. release \in Nat /\ written \subseteq 0..release /\ {0, version} \subseteq written
      BY ReleasesAssumption, LenProperties DEF TypeOK
    <2>2. version' \in {release, version}
      BY <1>8, Succeeds
    <2>3. written' = written \cup {version'} /\ read' = 0
      BY <1>8, Succeeds
    <2>4. written' \subseteq 0..release /\ {0, version', read'} \subseteq written'
      BY <2>1, <2>2, <2>3
    <2>5. outcome' \in {"Succeeded", outcome}
      BY <1>8, Succeeds
    <2> QED  BY <1>8, <2>4, <2>5, Succeeds DEF TypeOK
  <1> QED  BY <1>1, <1>2, <1>3, <1>4, <1>5, <1>6, <1>7, <1>8 DEF Reconcile

\* SUC and the nodes keep the types.
LEMMA TypeCluster == TypeOK /\ Cluster => TypeOK'
  <1> SUFFICES ASSUME TypeOK, Cluster PROVE TypeOK'
    OBVIOUS
  <1> USE DEF nodeVars, planVars, callVars
  <1>0. UNCHANGED <<release, version, written, stale, read, seen, joiners, pc,
                    phase, group, cpOnly, outcome>>
    BY ClusterFrame
  <1>1. ASSUME NEW p \in PlanIds, NEW n \in Nodes, StartJob(p, n) PROVE TypeOK'
    BY <1>0, <1>1, Starts DEF Patched, StartJob, TypeOK
  <1>2. ASSUME NEW p \in PlanIds, NEW n \in Nodes, JobCompletes(p, n) PROVE TypeOK'
    <2>1. p.version \in Versions
      BY DEF PlanIds
    <2>2. /\ labelled' \in [PlanIds -> SUBSET Nodes]
          /\ os' \in [Nodes -> Versions] /\ installed' \in [Nodes -> Versions]
      BY <1>2, <2>1 DEF JobCompletes, TypeOK
    <2>3. UNCHANGED <<members, kubelet, faults>>
      BY <1>2 DEF JobCompletes
    <2> QED  BY <1>0, <1>2, <2>2, <2>3, Completes DEF Patched, TypeOK
  <1>3. ASSUME NEW p \in PlanIds, NEW n \in Nodes, JobFails(p, n) PROVE TypeOK'
    <2>1. faults' \in 0..MaxFaults
      BY <1>3, ReleasesAssumption DEF JobFails, TypeOK
    <2> QED  BY <1>0, <1>3, <2>1, Fails DEF Patched, JobFails, TypeOK
  <1>4. ASSUME NEW p \in PlanIds, MarkComplete(p) PROVE TypeOK'
    BY <1>0, <1>4, Marks DEF Patched, MarkComplete, TypeOK
  <1>5. ASSUME NEW n \in Nodes, NodeReports(n) \/ Join(n) PROVE TypeOK'
    BY <1>0, <1>5 DEF NodeReports, Join, TypeOK
  <1> QED  BY <1>1, <1>2, <1>3, <1>4, <1>5 DEF Cluster, SUC

\* Every step keeps the types.
LEMMA TypeNext == TypeOK /\ [Next]_vars => TypeOK'
  <1> SUFFICES ASSUME TypeOK, [Next]_vars PROVE TypeOK'
    OBVIOUS
  <1> USE DEF nodeVars, planVars, callVars, statusVars
  <1>1. CASE ReconcileError
    <2>1. faults' \in 0..MaxFaults
      BY <1>1, ReleasesAssumption DEF ReconcileError, TypeOK
    <2>2. plans' \in [PlanIds -> PlanStates]
      BY <1>1, ErrorStep, Delete, Create DEF TypeOK
    <2> QED  BY <1>1, <2>1, <2>2, ErrorStep, TypeReturn
  <1>2. CASE NextRelease
    <2>1. release' \in 1..Len(Releases) /\ written \subseteq 0..release'
      BY <1>2, ReleasesAssumption, LenProperties DEF NextRelease, TypeOK
    <2> QED  BY <1>2, <2>1 DEF NextRelease, TypeOK
  <1>3. CASE \E p \in PlanIds : CacheSync(p)
    BY <1>3 DEF CacheSync, TypeOK
  <1>4. CASE UNCHANGED vars
    BY <1>4 DEF vars, TypeOK
  <1>5. CASE PutBack
    BY <1>5 DEF PutBack, TypeOK
  <1> QED  BY <1>1, <1>2, <1>3, <1>4, <1>5, TypeReconcile, TypeCluster DEF Next

\* The variables keep to their types, and the worker Plan is only looked at
\* if there was a worker when preparePlans listed the nodes.
THEOREM TypeCorrect == Spec => []TypeOK
  BY TypeInit, TypeNext, PTL DEF Spec

-----------------------------------------------------------------------------
(***************************************************************************)
(* The kinds of steps, for what concerns which Plans exist.  Keeping: none *)
(* is created, deleted or seen to be.                                      *)
(***************************************************************************)
Keeping == /\ \A p \in PlanIds : plans'[p].label = plans[p].label
           /\ UNCHANGED <<seen, release>>
           /\ members \subseteq members'

Deleting == /\ pc = "cleanup" /\ Deletes
            /\ UNCHANGED <<release, seen, labelled, joiners, members, os, installed,
                           kubelet>>
            /\ outcome' \in {"None", outcome} /\ (~stale => outcome' = outcome)
            /\ \/ Ending
               \/ /\ pc' = "prepare"
                  /\ UNCHANGED <<version, written, stale, read, phase, group, cpOnly>>
                  /\ \A p \in OldPlans : plans'[p] = NoPlan

Creating == /\ MissingPlan /\ PlanCreated /\ Ending
            /\ outcome' \in {"InProgress", "None", "Error", outcome}
            /\ ~stale => outcome' \in {"InProgress", "Error"}
            /\ UNCHANGED <<release, seen, labelled, joiners, members, os,
                           installed, kubelet>>

\* A reconcile that ends without having touched the Plans.
Leaving == /\ Ending
           /\ outcome' \in {"InProgress", "None", "Failed", "Error", outcome}
           /\ UNCHANGED <<release, plans, seen, labelled, joiners, members, os,
                          installed, kubelet>>

\* The reconciler's steps that do not touch the Plans.
Looking == \/ Begin \/ PreparePlans \/ NextPlan \/ NextPhase \/ Succeed \/ PutBack
           \/ Leaving \/ UNCHANGED vars

LEMMA Kinds ==
    ASSUME TypeOK, [Next]_vars
    PROVE  \/ Looking \/ Cluster \/ Deleting \/ Creating \/ NextRelease
           \/ \E p \in PlanIds : CacheSync(p)
  <1> USE DEF nodeVars, planVars, callVars
  <1>1. CASE Begin \/ PreparePlans \/ NextPlan \/ NextPhase \/ Succeed \/ PutBack
             \/ UNCHANGED vars
    BY <1>1 DEF Looking
  <1>2. CASE CleanUp
    <2>1. Deletes /\ pc = "cleanup"
      BY <1>2 DEF CleanUp, Deletes
    <2>2. \A p \in OldPlans : plans'[p] = NoPlan
      BY <1>2 DEF CleanUp, OldPlans
    <2>3. UNCHANGED <<release, seen, labelled, joiners, members, os, installed,
                      kubelet, faults>>
      BY <1>2 DEF CleanUp
    <2>4. CASE ReturnEarly
      BY <2>1, <2>3, <2>4, ReturnsEarly DEF Deleting
    <2>5. CASE ~ReturnEarly
      <3>1. pc' = "prepare" /\ UNCHANGED <<version, written, stale, read, phase,
                                          group, cpOnly, outcome>>
        BY <1>2, <2>5 DEF CleanUp, statusVars
      <3> QED  BY <2>1, <2>2, <2>3, <3>1 DEF Deleting
    <2> QED  BY <2>4, <2>5
  <1>3. CASE CreatePlan
    <2>1. /\ Ending /\ outcome' \in {"InProgress", outcome}
          /\ ~stale => outcome' = "InProgress"
      BY <1>3, Returns DEF CreatePlan, MissingPlan
    <2> QED  BY <1>3, <2>1 DEF CreatePlan, Creating
  <1>4. CASE CreateConflicts \/ AwaitNodes
    <2>1. Ending /\ outcome' \in {"InProgress", "Error", outcome}
      BY <1>4, Returns DEF CreateConflicts, AwaitNodes, MissingPlan, PlanComplete
    <2> QED  BY <1>4, <2>1 DEF CreateConflicts, AwaitNodes, Looking, Leaving
  <1>5. CASE PlanPending
    <2>1. /\ seen[ThisPlan].complete \in {"Unknown", "True", "Failed"}
          /\ seen[ThisPlan].applying \in SUBSET Nodes
      BY ThisPlanType DEF TypeOK, PlanStates
    <2>2. PlanStatus(seen[ThisPlan]) \in {"InProgress", "Complete", "Failed"}
      BY <2>1 DEF PlanStatus
    <2>3. Ending /\ outcome' \in {"InProgress", "Failed", outcome}
      BY <1>5, <2>2, Returns DEF PlanPending
    <2> QED  BY <1>5, <2>3 DEF PlanPending, Looking, Leaving
  <1>6. CASE ReconcileError
    <2>1. CASE plans' = plans
      BY <1>6, <2>1, ErrorStep DEF Looking, Leaving
    <2>2. CASE plans' # plans /\ pc = "cleanup" /\ Deletes
      <3>1. Ending /\ outcome' \in {"None", outcome}
        BY <1>6, <2>2, ReturnsEarly DEF ReconcileError
      <3> QED  BY <1>6, <2>2, <3>1, ErrorStep DEF Deleting
    <2>3. CASE MissingPlan /\ PlanCreated
      BY <1>6, <2>3, ErrorStep DEF Creating, MissingPlan
    <2> QED  BY <1>6, <2>1, <2>2, <2>3, ErrorStep
  <1> QED  BY <1>1, <1>2, <1>3, <1>4, <1>5, <1>6 DEF Next, Reconcile

\* Only these change which Plans there are.
LEMMA Keeps ==
    ASSUME TypeOK, Looking \/ Cluster
    PROVE  Keeping
  <1> USE DEF nodeVars, planVars, callVars
  <1>1. CASE Looking
    BY <1>1, Succeeds DEF Looking, Begin, PreparePlans, NextPlan, NextPhase,
             PutBack, Leaving, vars, Keeping
  <1>2. CASE Cluster
    <2>0. UNCHANGED <<release, seen>>
      BY <1>2, ClusterFrame
    <2>1. ASSUME NEW p \in PlanIds, NEW n \in Nodes, StartJob(p, n) PROVE Keeping
      BY <2>0, <2>1, Starts DEF Patched, StartJob, Keeping
    <2>2. ASSUME NEW p \in PlanIds, NEW n \in Nodes, JobCompletes(p, n)
          PROVE  Keeping
      BY <2>0, <2>2, Completes DEF Patched, JobCompletes, Keeping
    <2>3. ASSUME NEW p \in PlanIds, NEW n \in Nodes, JobFails(p, n) PROVE Keeping
      BY <2>0, <2>3, Fails DEF Patched, JobFails, Keeping
    <2>4. ASSUME NEW p \in PlanIds, MarkComplete(p) PROVE Keeping
      BY <2>0, <2>4, Marks DEF Patched, MarkComplete, Keeping
    <2>5. ASSUME NEW n \in Nodes, NodeReports(n) \/ Join(n) PROVE Keeping
      BY <2>0, <2>5 DEF NodeReports, Join, Keeping
    <2> QED  BY <1>2, <2>1, <2>2, <2>3, <2>4, <2>5 DEF Cluster, SUC
  <1> QED  BY <1>1, <1>2

\* A Plan of the release at hand, at the place of the reconcile, is ThisPlan.
LEMMA AtPlace ==
    ASSUME TypeOK, NEW p \in PlanIds, Own(p),
           Rank(p.phase, p.group) = Rank(phase, group)
    PROVE  p = ThisPlan
  <1>1. /\ p.phase \in {"os", "k8s"} /\ p.group \in {"cp", "wk"}
        /\ phase \in {"os", "k8s"} /\ group \in {"cp", "wk"}
    BY DEF PlanIds, TypeOK
  <1>2. p.phase = phase /\ p.group = group
    BY <1>1 DEF Rank
  <1>3. p.version = ThisPlan.version
    BY <1>2 DEF Own, ThisPlan
  <1> QED  BY <1>2, <1>3, ThisPlanType, SameName

-----------------------------------------------------------------------------
(* Which Plans there are.                                                  *)

\* The cache holds a Plan's only incarnation.
LEMMA SamePlanNext ==
    ASSUME TypeOK, SamePlan, [Next]_vars
    PROVE  SamePlan'
  <1>1. CASE Looking \/ Cluster
    BY <1>1, Keeps DEF Keeping, SamePlan, Exists
  <1>2. CASE Deleting
    BY <1>2, Delete, NoPlanType DEF Deleting, SamePlan, Exists
  <1>3. CASE Creating
    <2>1. ~Exists(seen[ThisPlan]) /\ seen' = seen
      BY <1>3 DEF Creating, MissingPlan
    <2>2. \A q \in PlanIds \ {ThisPlan} : plans'[q] = plans[q]
      BY <1>3, Create DEF Creating
    <2> QED  BY <2>1, <2>2 DEF SamePlan, Exists
  <1>4. CASE NextRelease
    BY <1>4 DEF NextRelease, planVars, SamePlan, Exists
  <1>5. ASSUME NEW p \in PlanIds, CacheSync(p) PROVE SamePlan'
    BY <1>5 DEF CacheSync, SamePlan, Exists, TypeOK
  <1> QED  BY <1>1, <1>2, <1>3, <1>4, <1>5, Kinds

\* No step changes whether copies of the Release may be old.
LEMMA StaleStays ==
    ASSUME TypeOK, [Next]_vars
    PROVE  stale' = stale
  BY Kinds, ClusterFrame, Succeeds DEF Looking, Begin, PreparePlans, NextPlan,
     NextPhase, PutBack, Leaving, Ending, Deleting, Creating, NextRelease, CacheSync,
     vars

\* The next release is admitted when this one has succeeded.
LEMMA Admitted ==
    ASSUME ~AfterFailure, TypeOK, Labels, NextRelease
    PROVE  /\ release \in written /\ release' = release + 1 /\ release \in Nat
           /\ pc = "idle" /\ pc' = "idle" /\ outcome' = "None"
           /\ ~stale => outcome = "Succeeded"
           /\ UNCHANGED <<version, written, stale, read, plans, seen, labelled,
                          joiners, members, os, installed, kubelet, phase, group,
                          cpOnly>>
  <1>1. outcome = "Succeeded" \/ (stale /\ release \in written)
    BY DEF NextRelease, Replaced
  <1>2. release \in written
    BY <1>1 DEF Labels, Place
  <1>3. release \in Nat
    BY DEF TypeOK
  <1> QED  BY <1>1, <1>2, <1>3 DEF NextRelease, planVars, nodeVars, callVars

\* The Plans of this release carry its versions; none is of a later one.
LEMMA PlansKnownNext ==
    ASSUME TypeOK, Labels, [Next]_vars
    PROVE  PlansKnown'
  <1> SUFFICES ASSUME NEW p \in PlanIds, Exists(plans[p])'
               PROVE  /\ plans'[p].label \in 1..release'
                      /\ Made(p)' => Own(p)'
                      /\ p.group = "wk" => Group("wk")' # {}
    BY DEF PlansKnown
  <1>0. /\ Exists(plans[p]) => /\ plans[p].label \in 1..release
                               /\ Made(p) => Own(p)
                               /\ p.group = "wk" => Group("wk") # {}
        /\ release \in Nat \ {0}
    BY DEF Labels, PlansKnown, TypeOK
  <1>1. CASE Looking \/ Cluster
    <2>1. /\ plans'[p].label = plans[p].label /\ UNCHANGED <<seen, release>>
          /\ members \subseteq members'
      BY <1>1, Keeps DEF Keeping
    <2> QED  BY <1>0, <2>1 DEF Exists, Made, Own, Target, Group
  <1>2. CASE Deleting
    <2>1. plans'[p] = plans[p]
      BY <1>2, Delete, NoPlanType DEF Deleting, Exists
    <2>2. UNCHANGED <<release, members>>
      BY <1>2 DEF Deleting
    <2> QED  BY <1>0, <2>1, <2>2 DEF Exists, Made, Own, Target, Group
  <1>3. CASE Creating
    <2>1. /\ UNCHANGED <<release, members>> /\ pc = "plan"
      BY <1>3 DEF Creating, MissingPlan
    <2>2. /\ \A q \in PlanIds \ {ThisPlan} : plans'[q] = plans[q]
          /\ plans'[ThisPlan].label = release
      BY <1>3, Create DEF Creating
    <2>3. CASE p # ThisPlan
      BY <1>0, <2>1, <2>2, <2>3 DEF Exists, Made, Own, Target, Group
    <2>4. CASE p = ThisPlan
      <3>1. Made(p)' /\ Own(p)'
        BY <2>1, <2>2, <2>4, ThisPlanType DEF Made, Own, Exists, Target, TypeOK
      <3>2. p.group = "wk" => Group("wk") # {}
        BY <2>1, <2>4, ThisPlanType DEF Labels, Place, TypeOK
      <3> QED  BY <1>0, <2>1, <2>2, <2>4, <3>1, <3>2 DEF Made, Group
    <2> QED  BY <2>3, <2>4
  <1>4. CASE NextRelease
    <2>1. release' = release + 1 /\ UNCHANGED <<plans, members>>
      BY <1>4 DEF NextRelease, planVars, nodeVars
    <2> QED  BY <1>0, <2>1 DEF Made, Exists, Group
  <1>5. ASSUME NEW q \in PlanIds, CacheSync(q) PROVE PlansKnown'
    BY <1>5 DEF CacheSync, nodeVars, Exists, Made, Own, Target, Group, PlansKnown,
       Labels
  <1> QED  BY <1>1, <1>2, <1>3, <1>4, <1>5, Kinds DEF PlansKnown

\* The reconciler's reading steps keep the reconcile in its place.
LEMMA PlaceLooking ==
    ASSUME TypeOK, Labels, Looking
    PROVE  Place'
  <1> USE DEF nodeVars, planVars, callVars, statusVars
  <1>0. Place /\ TypeOK
    BY DEF Labels
  <1>1. CASE Begin
    BY <1>0, <1>1 DEF Begin, Place, Exists, Group
  <1>2. CASE PreparePlans
    <2>1. /\ UNCHANGED <<release, written, plans, members, phase, outcome>>
          /\ cpOnly' = (members \subseteq ControlPlane)
          /\ pc = "prepare" /\ pc' = "plan" /\ group' = "cp" /\ group = "cp"
      BY <1>0, <1>2 DEF PreparePlans, Place
    <2>2. CASE cpOnly'
      <3>1. Group("wk") = {}
        BY <2>1, <2>2, NodesAssumption DEF Group
      <3>2. \A p \in PlanIds : Exists(plans[p]) => p.group = "cp"
        BY <3>1 DEF Labels, PlansKnown, PlanIds
      <3> QED  BY <1>0, <2>1, <2>2, <3>2 DEF Place, Exists
    <2>3. CASE ~cpOnly'
      <3>1. Group("wk")' # {}
        BY <1>0, <2>1, <2>3 DEF Group, TypeOK, Nodes
      <3> QED  BY <1>0, <2>1, <2>3, <3>1 DEF Place, Exists
    <2> QED  BY <2>2, <2>3
  <1>3. CASE NextPlan
    BY <1>0, <1>3 DEF NextPlan, PlanComplete, Place, Exists, Group
  <1>4. CASE NextPhase
    BY <1>0, <1>4 DEF NextPhase, PlanComplete, Place, Exists, Group
  <1>5. CASE Succeed
    <2>1. /\ written' = written \cup {version'} /\ UNCHANGED release
          /\ pc' = "idle" /\ (outcome' = "Succeeded" => version' = release \/ outcome = "Succeeded")
      BY <1>5, Succeeds
    <2> QED  BY <1>0, <2>1 DEF Place
  <1>6. CASE UNCHANGED vars
    BY <1>0, <1>6 DEF vars, Place, Exists, Group
  <1>7. CASE Leaving
    BY <1>0, <1>7 DEF Leaving, Ending, Place
  <1>8. CASE PutBack
    BY <1>8 DEF PutBack, Place
  <1> QED  BY <1>1, <1>2, <1>3, <1>4, <1>5, <1>6, <1>7, <1>8 DEF Looking

\* Every step keeps the reconcile in its place.
LEMMA PlaceNext ==
    ASSUME TypeOK, Labels, [Next]_vars
    PROVE  Place'
  <1>0. Place
    BY DEF Labels
  <1>1. CASE Cluster
    <2>1. /\ \A p \in PlanIds : Exists(plans[p])' <=> Exists(plans[p])
          /\ members \subseteq members'
      BY <1>1, Keeps DEF Keeping, Exists
    <2>2. Group("wk") \subseteq Group("wk")'
      BY <2>1 DEF Group
    <2>3. UNCHANGED <<release, written, pc, phase, group, cpOnly, outcome>>
      BY <1>1, ClusterFrame
    <2> QED  BY <1>0, <2>1, <2>2, <2>3 DEF Place
  <1>2. CASE Deleting
    BY <1>0, <1>2 DEF Deleting, Ending, Place
  <1>3. CASE Creating
    BY <1>0, <1>3 DEF Creating, Ending, Place
  <1>4. CASE NextRelease
    BY <1>0, <1>4 DEF NextRelease, Place
  <1>5. ASSUME NEW q \in PlanIds, CacheSync(q) PROVE Place'
    BY <1>0, <1>5 DEF CacheSync, nodeVars, callVars, statusVars, Place, Exists, Group
  <1> QED  BY <1>1, <1>2, <1>3, <1>4, <1>5, Kinds, PlaceLooking

LEMMA LabelsInit == Init => Labels
  <1> SUFFICES ASSUME Init PROVE Labels
    OBVIOUS
  <1>1. \A p \in PlanIds : ~Exists(plans[p]) /\ ~Exists(seen[p])
    BY NoPlanType DEF Init
  <1>2. SamePlan /\ PlansKnown
    BY <1>1 DEF SamePlan, PlansKnown
  <1>3. Place
    BY DEF Init, Place
  <1> QED  BY <1>2, <1>3 DEF Labels

LEMMA LabelsNext ==
    ASSUME TypeOK, Labels, [Next]_vars
    PROVE  Labels'
  <1>1. SamePlan'
    BY SamePlanNext DEF Labels
  <1> QED  BY <1>1, PlansKnownNext, PlaceNext DEF Labels

-----------------------------------------------------------------------------
(* Plans of one release, with status.version as it is stored.              *)

\* An admitted release finds all Plans made by the one before, and seen.
LEMMA AdmittedTidy ==
    ASSUME ~AfterFailure, TypeOK, Labels, Tidy, ~stale, NextRelease
    PROVE  /\ version = release
           /\ \A p \in PlanIds : Exists(plans[p]) => Made(p) /\ Exists(seen[p])
  <1>1. outcome = "Succeeded"
    BY Admitted
  <1>2. version = release /\ \A p \in PlanIds : Exists(plans[p]) => Exists(seen[p])
    BY <1>1 DEF Tidy, Watched
  <1> QED  BY <1>2 DEF Tidy, Unmixed

\* Plans belong to this release or the one before.
LEMMA PreviousNext ==
    ASSUME ~AfterFailure, TypeOK, Labels, Tidy, ~stale, [Next]_vars
    PROVE  Previous'
  <1> SUFFICES ASSUME NEW p \in PlanIds, Exists(plans[p])'
               PROVE  /\ plans'[p].label \in {release' - 1, release'}
                      /\ ~Made(p)' => Exists(seen[p])'
    BY DEF Previous
  <1>0. Exists(plans[p]) => /\ plans[p].label \in {release - 1, release}
                            /\ ~Made(p) => Exists(seen[p])
    BY DEF Tidy, Previous
  <1>1. CASE Looking \/ Cluster
    <2>1. plans'[p].label = plans[p].label /\ UNCHANGED <<seen, release>>
      BY <1>1, Keeps DEF Keeping
    <2> QED  BY <1>0, <2>1 DEF Exists, Made
  <1>2. CASE Deleting
    <2>1. plans'[p] = plans[p]
      BY <1>2, Delete, NoPlanType DEF Deleting, Exists
    <2>2. UNCHANGED <<seen, release>>
      BY <1>2 DEF Deleting
    <2> QED  BY <1>0, <2>1, <2>2 DEF Exists, Made
  <1>3. CASE Creating
    <2>1. UNCHANGED <<seen, release>>
      BY <1>3 DEF Creating
    <2>2. /\ \A q \in PlanIds \ {ThisPlan} : plans'[q] = plans[q]
          /\ plans'[ThisPlan].label = release
      BY <1>3, Create DEF Creating
    <2>3. CASE p # ThisPlan
      BY <1>0, <2>1, <2>2, <2>3 DEF Exists, Made
    <2>4. CASE p = ThisPlan
      BY <2>1, <2>2, <2>4 DEF Exists, Made, TypeOK
    <2> QED  BY <2>3, <2>4
  <1>4. CASE NextRelease
    <2>1. /\ release' = release + 1 /\ UNCHANGED <<plans, seen>>
          /\ Exists(plans[p]) => Made(p) /\ Exists(seen[p])
      BY <1>4, Admitted, AdmittedTidy
    <2>2. plans'[p].label = release /\ release \in Nat /\ Exists(seen[p])'
      BY <2>1 DEF Made, Exists, TypeOK
    <2> QED  BY <2>1, <2>2
  <1>5. ASSUME NEW q \in PlanIds, CacheSync(q)
        PROVE  /\ plans'[p].label \in {release' - 1, release'}
               /\ ~Made(p)' => Exists(seen[p])'
    <2>1. UNCHANGED <<plans, release>>
      BY <1>5 DEF CacheSync
    <2>2. Exists(plans[p]) /\ (Exists(seen[p]) => Exists(seen[p])')
      BY <1>5, <2>1 DEF CacheSync, Exists, TypeOK
    <2> QED  BY <1>0, <2>1, <2>2 DEF Made, Exists
  <1> QED  BY <1>1, <1>2, <1>3, <1>4, <1>5, Kinds

\* The clean-up gets every Plan of the release before.
LEMMA CleanedUp ==
    ASSUME TypeOK, Labels, Tidy, ~stale, pc = "cleanup", NEW p \in PlanIds,
           Exists(plans[p]), ~Made(p)
    PROVE  p \in OldPlans
  <1>1. /\ plans[p].label = release - 1 /\ Exists(seen[p])
        /\ version \in {release - 1, release} /\ read = version
    BY DEF Tidy, Previous, Made, Watched
  <1>2. version # release
    BY DEF Tidy, Unmixed
  <1>3. seen[p].label = read /\ read # 0
    BY <1>1, <1>2 DEF Labels, SamePlan, Exists
  <1> QED  BY <1>1, <1>2, <1>3 DEF OldPlans

\* Only success takes status.version to the release.
LEMMA VersionLooking ==
    ASSUME TypeOK, Labels, Tidy, ~stale, Looking
    PROVE  /\ Succeed => version' = release /\ outcome' = "Succeeded"
           /\ ~Succeed => version' = version
           /\ pc' # "idle" => read' = version'
  <1>0. Watched
    BY DEF Tidy
  <1>1. CASE Succeed
    BY <1>1, Succeeds
  <1>2. CASE ~Succeed
    <2>1. CASE Leaving
      BY <1>0, <1>2, <2>1 DEF Leaving, Ending, Watched
    <2>2. CASE Begin
      BY <1>2, <2>2 DEF Begin, statusVars
    <2>3. CASE ~Leaving /\ ~Begin
      <3>1. UNCHANGED <<version, read, pc>> \/ (UNCHANGED <<version, read>> /\ pc # "idle")
        BY <1>2, <2>3 DEF Looking, PreparePlans, NextPlan, NextPhase, PutBack,
           PlanComplete, statusVars, vars
      <3> QED  BY <1>0, <1>2, <3>1 DEF Watched
    <2> QED  BY <2>1, <2>2, <2>3
  <1> QED  BY <1>1, <1>2

\* Plans of two releases are never mixed.
LEMMA UnmixedNext ==
    ASSUME ~AfterFailure, TypeOK, Labels, Tidy, ~stale, [Next]_vars
    PROVE  Unmixed'
  <1> USE DEF nodeVars, planVars, callVars, statusVars
  <1>0. Unmixed /\ SamePlan /\ PlansKnown /\ Watched
    BY DEF Labels, Tidy
  <1>1. CASE Looking \/ Cluster
    <2>1. /\ \A p \in PlanIds : plans'[p].label = plans[p].label
          /\ release' = release
      BY <1>1, Keeps DEF Keeping
    <2>2. \A p \in PlanIds : /\ Made(p)' <=> Made(p)
                             /\ Exists(plans[p])' <=> Exists(plans[p])
      BY <2>1 DEF Made, Exists
    <2>3. version' = release' => version = release \/ pc = "plan"
      <3>1. CASE Cluster
        BY <2>1, <3>1, ClusterFrame
      <3>2. CASE Looking
        BY <2>1, <3>2, VersionLooking DEF Succeed, PlanComplete
      <3> QED  BY <1>1, <3>1, <3>2
    <2>4. pc' \in {"prepare", "plan"} => pc \in {"prepare", "plan"}
      <3>1. CASE Cluster
        BY <3>1, ClusterFrame
      <3>2. CASE Looking
        BY <3>2, Succeeds DEF Looking, Begin, PreparePlans, NextPlan, NextPhase,
           PutBack, Leaving, Ending, vars, PlanComplete
      <3> QED  BY <1>1, <3>1, <3>2
    <2> QED  BY <1>0, <2>2, <2>3, <2>4 DEF Unmixed
  <1>2. CASE Deleting
    <2>0. UNCHANGED <<release, version>> /\ pc' \in {"idle", "prepare"}
      BY <1>0, <1>2 DEF Deleting, Ending, Watched
    <2>1. \A p \in PlanIds : Exists(plans[p])' => plans'[p] = plans[p]
      BY <1>2, Delete, NoPlanType DEF Deleting, Exists
    <2>2. \A p \in PlanIds : Exists(plans[p])' =>
             Exists(plans[p]) /\ (Made(p)' <=> Made(p))
      BY <2>0, <2>1 DEF Made, Exists
    <2>3. CASE pc' = "idle"
      BY <1>0, <2>0, <2>2, <2>3 DEF Unmixed, Made
    <2>4. CASE pc' = "prepare"
      <3>1. pc = "cleanup" /\ \A p \in OldPlans : plans'[p] = NoPlan
        BY <1>2, <2>4 DEF Deleting, Ending
      <3>2. ASSUME NEW p \in PlanIds, Exists(plans[p])' PROVE Made(p)'
        <4>1. p \notin OldPlans
          BY <3>1, <3>2, NoPlanType DEF Exists
        <4> QED  BY <2>2, <3>1, <3>2, <4>1, CleanedUp
      <3> QED  BY <3>2 DEF Unmixed
    <2> QED  BY <2>0, <2>3, <2>4
  <1>3. CASE Creating
    <2>1. UNCHANGED release /\ pc = "plan"
      BY <1>3 DEF Creating, MissingPlan
    <2>2. /\ \A q \in PlanIds \ {ThisPlan} : plans'[q] = plans[q]
          /\ plans'[ThisPlan].label = release
      BY <1>3, Create DEF Creating
    <2>3. \A p \in PlanIds : Exists(plans[p]) => plans[p].label = release
      BY <1>0, <2>1 DEF Unmixed, Made
    <2> QED  BY <2>1, <2>2, <2>3 DEF Unmixed, Made, Exists
  <1>4. CASE NextRelease
    <2>1. /\ release' = release + 1 /\ UNCHANGED <<plans, version>>
          /\ version = release /\ pc' = "idle" /\ release \in Nat
          /\ \A p \in PlanIds : Exists(plans[p]) => Made(p)
      BY <1>4, Admitted, AdmittedTidy
    <2> QED  BY <2>1 DEF Unmixed, Made, Exists
  <1>5. ASSUME NEW q \in PlanIds, CacheSync(q) PROVE Unmixed'
    BY <1>0, <1>5 DEF CacheSync, Unmixed, Made, Exists
  <1> QED  BY <1>1, <1>2, <1>3, <1>4, <1>5, Kinds

\* A reconcile that finds its Plan complete has seen all Plans up to there.
LEMMA SeenSoFar ==
    ASSUME TypeOK, Labels, Tidy, ~stale, PlanComplete, NEW p \in PlanIds,
           Exists(plans[p]), ~(Rank(phase, group) < Rank(p.phase, p.group))
    PROVE  Exists(seen[p])
  <1>1. Own(p) /\ pc = "plan" /\ Exists(seen[ThisPlan])
    BY DEF Labels, Tidy, Unmixed, PlansKnown, PlanComplete
  <1>2. Rank(p.phase, p.group) \in Nat /\ Rank(phase, group) \in Nat
    BY DEF Rank
  <1>3. CASE Rank(p.phase, p.group) = Rank(phase, group)
    BY <1>1, <1>3, AtPlace
  <1>4. CASE Rank(p.phase, p.group) < Rank(phase, group)
    BY <1>1, <1>4 DEF Tidy, Watched
  <1> QED  BY <1>2, <1>3, <1>4

\* With LastPlan, those are all Plans of the phase and the ones before it.
LEMMA SeenPhase ==
    ASSUME TypeOK, Labels, Tidy, ~stale, PlanComplete, LastPlan, NEW p \in PlanIds,
           Exists(plans[p]), phase = "k8s" \/ p.phase = "os"
    PROVE  Exists(seen[p])
  <1>1. p.phase \in {"os", "k8s"} /\ p.group \in {"cp", "wk"}
        /\ phase \in {"os", "k8s"} /\ group \in {"cp", "wk"}
    BY DEF PlanIds, TypeOK
  <1>2. group = "wk" \/ p.group = "cp"
    BY DEF LastPlan, Labels, Place, PlanComplete
  <1>3. ~(Rank(phase, group) < Rank(p.phase, p.group))
    BY <1>1, <1>2 DEF Rank
  <1> QED  BY <1>3, SeenSoFar

\* What the reconciler's reading steps have seen, where they lead.
LEMMA SeenLooking ==
    ASSUME TypeOK, Labels, Tidy, ~stale, Looking, pc' \in {"prepare", "plan"},
           NEW p \in PlanIds, Exists(plans[p]),
           Rank(p.phase, p.group) < Rank(phase', group')
    PROVE  Exists(seen[p])
  <1> USE DEF nodeVars, planVars, callVars, statusVars
  <1>1. CASE NextPlan
    <2>1. /\ PlanComplete /\ phase' = phase /\ group' = "wk" /\ group = "cp"
      BY <1>1 DEF NextPlan, LastPlan, TypeOK
    <2>2. ~(Rank(phase, group) < Rank(p.phase, p.group))
      BY <2>1 DEF Rank
    <2> QED  BY <2>1, <2>2, SeenSoFar
  <1>2. CASE NextPhase
    <2>1. PlanComplete /\ LastPlan /\ phase' = "k8s" /\ group' = "cp"
      BY <1>2 DEF NextPhase
    <2>2. p.phase = "os"
      BY <2>1 DEF Rank, PlanIds
    <2> QED  BY <2>1, <2>2, SeenPhase
  <1>3. CASE PreparePlans
    BY <1>3 DEF PreparePlans, Tidy, Watched, Labels, Place
  <1>4. CASE ~NextPlan /\ ~NextPhase /\ ~PreparePlans
    <2>1. UNCHANGED <<pc, phase, group>>
      BY <1>4, Succeeds DEF Looking, Begin, PutBack, Leaving, Ending, vars
    <2> QED  BY <2>1 DEF Tidy, Watched
  <1> QED  BY <1>1, <1>2, <1>3, <1>4

\* Every step keeps what the reconcile has seen.
LEMMA WatchedNext ==
    ASSUME ~AfterFailure, TypeOK, Labels, Tidy, ~stale, [Next]_vars
    PROVE  Watched'
  <1>0. Watched
    BY DEF Tidy
  <1>1. CASE Looking
    <2>1. UNCHANGED <<release, plans, seen>>
      BY <1>1, Succeeds DEF Looking, Begin, PreparePlans, NextPlan, NextPhase,
         PutBack, Leaving, vars, planVars
    <2>2. version' \in {release - 1, release} /\ (pc' # "idle" => read' = version')
      BY <1>0, <1>1, VersionLooking DEF Watched
    <2>3. outcome' = "Succeeded" =>
            /\ version' = release
            /\ \A p \in PlanIds : Exists(plans[p]) => Exists(seen[p])
      <3>1. CASE Succeed
        BY <1>1, <3>1, VersionLooking, SeenPhase DEF Succeed
      <3>2. CASE ~Succeed
        <4>1. outcome' = "Succeeded" => outcome = "Succeeded"
          BY <1>1, <3>2 DEF Looking, Begin, PreparePlans, NextPlan, NextPhase,
             PutBack, Leaving, vars, statusVars
        <4> QED  BY <1>0, <1>1, <3>2, <4>1, VersionLooking DEF Watched
      <3> QED  BY <3>1, <3>2
    <2>4. pc' \in {"prepare", "plan"} =>
            \A p \in PlanIds :
               Exists(plans[p]) /\ Rank(p.phase, p.group) < Rank(phase', group')
                  => Exists(seen[p])
      BY <1>1, SeenLooking
    <2> QED  BY <2>1, <2>2, <2>3, <2>4 DEF Watched, Exists
  <1>2. CASE Cluster
    <2>1. \A p \in PlanIds : Exists(plans[p])' <=> Exists(plans[p])
      BY <1>2, Keeps DEF Keeping, Exists
    <2>2. UNCHANGED <<release, version, read, seen, pc, phase, group, outcome>>
      BY <1>2, ClusterFrame
    <2> QED  BY <1>0, <2>1, <2>2 DEF Watched
  <1>3. CASE Deleting
    <2>1. \A p \in PlanIds : Exists(plans[p])' => Exists(plans[p])
      BY <1>3, Delete, NoPlanType DEF Deleting, Exists
    <2>2. /\ pc = "cleanup" /\ pc' \in {"idle", "prepare"}
          /\ UNCHANGED <<release, seen, phase, group, outcome>>
      BY <1>3 DEF Deleting, Ending
    <2>3. version' = version /\ (pc' # "idle" => read' = version')
      BY <1>0, <1>3 DEF Deleting, Ending, Watched
    <2>4. phase = "os" /\ group = "cp"
      BY <2>2 DEF Labels, Place
    <2>5. \A p \in PlanIds : ~(Rank(p.phase, p.group) < Rank(phase, group))
      BY <2>4 DEF Rank
    <2> QED  BY <1>0, <2>1, <2>2, <2>3, <2>5 DEF Watched
  <1>4. CASE Creating
    <2>1. /\ pc' = "idle" /\ outcome' # "Succeeded" /\ release' = release
          /\ version' = version
      BY <1>0, <1>4 DEF Creating, Ending, Watched
    <2> QED  BY <1>0, <2>1 DEF Watched
  <1>5. CASE NextRelease
    <2>1. /\ release' = release + 1 /\ version = release /\ version' = version
          /\ pc' = "idle" /\ outcome' = "None" /\ release \in Nat
      BY <1>5, Admitted, AdmittedTidy
    <2> QED  BY <2>1 DEF Watched
  <1>6. ASSUME NEW q \in PlanIds, CacheSync(q) PROVE Watched'
    <2>1. UNCHANGED <<release, version, read, plans, pc, phase, group, outcome>>
      BY <1>6 DEF CacheSync, nodeVars, callVars, statusVars
    <2>2. \A p \in PlanIds : Exists(plans[p]) /\ Exists(seen[p]) => Exists(seen[p])'
      BY <1>6 DEF CacheSync, Exists, TypeOK
    <2> QED  BY <1>0, <2>1, <2>2 DEF Watched, Exists
  <1> QED  BY <1>1, <1>2, <1>3, <1>4, <1>5, <1>6, Kinds

LEMMA TidyInit == Init => Tidy
  <1> SUFFICES ASSUME Init PROVE Tidy
    OBVIOUS
  <1>1. \A p \in PlanIds : ~Exists(plans[p]) /\ ~Exists(seen[p])
    BY NoPlanType DEF Init
  <1>2. Previous /\ Unmixed
    BY <1>1 DEF Previous, Unmixed
  <1>3. Watched
    BY DEF Init, Watched
  <1> QED  BY <1>2, <1>3 DEF Tidy

LEMMA TidyNext ==
    ASSUME ~AfterFailure, TypeOK, Labels, Tidy, [Next]_vars
    PROVE  Tidy'
  <1>1. stale' = stale
    BY StaleStays
  <1> QED  BY <1>1, PreviousNext, UnmixedNext, WatchedNext DEF Tidy

(***************************************************************************)
(* getOrCreatePlan creates a Plan only when none of an earlier release is  *)
(* left: the clean-up before it has found them all, whatever the cache     *)
(* shows of the Plans, and wherever earlier reconciles were cut off by an  *)
(* error.  The property is about the behaviours with ~stale: the clean-up  *)
(* goes by status.version, which must be read as it is stored and must not *)
(* be put back.                                                            *)
(***************************************************************************)
THEOREM PlansOfOneRelease ==
    ASSUME ~AfterFailure
    PROVE  Spec => OneReleaseAtATime
  <1> DEFINE Step == ~stale => \A p, q \in PlanIds :
                 ~Exists(plans[p]) /\ Exists(plans'[p]) /\ Exists(plans[q])
                    => plans[q].label = plans'[p].label
  <1>1. ASSUME TypeOK, Labels, Tidy, [Next]_vars, ~stale
        PROVE  \A p, q \in PlanIds :
                 ~Exists(plans[p]) /\ Exists(plans'[p]) /\ Exists(plans[q])
                    => plans[q].label = plans'[p].label
    <2>1. CASE Looking \/ Cluster
      BY <1>1, <2>1, Keeps DEF Keeping, Exists
    <2>2. CASE Deleting
      BY <1>1, <2>2, Delete, NoPlanType DEF Deleting
    <2>3. CASE Creating
      <3>1. \A q \in PlanIds : Exists(plans[q]) => plans[q].label = release
        BY <1>1, <2>3 DEF Creating, MissingPlan, Tidy, Unmixed, Made
      <3>2. /\ \A p \in PlanIds \ {ThisPlan} : plans'[p] = plans[p]
            /\ plans'[ThisPlan].label = release
        BY <1>1, <2>3, Create DEF Creating
      <3> QED  BY <3>1, <3>2
    <2>4. CASE NextRelease \/ \E p \in PlanIds : CacheSync(p)
      BY <2>4 DEF NextRelease, CacheSync, planVars
    <2> QED  BY <1>1, <2>1, <2>2, <2>3, <2>4, Kinds
  <1>2. TypeOK /\ Labels /\ Tidy /\ [Next]_vars => [Step]_vars
    BY <1>1
  <1>3. TypeOK /\ Labels /\ Tidy /\ [Next]_vars => (TypeOK /\ Labels /\ Tidy)'
    BY TypeNext, LabelsNext, TidyNext
  <1>4. Init => TypeOK /\ Labels /\ Tidy
    BY TypeInit, LabelsInit, TidyInit
  <1> HIDE DEF Step
  <1>5. Spec => [][Step]_vars
    BY <1>2, <1>3, <1>4, PTL DEF Spec
  <1> QED  BY <1>5 DEF OneReleaseAtATime, Step

-----------------------------------------------------------------------------
(* Which nodes are done, when none joins.                                  *)

\* No node joins where none is to join.
LEMMA QuietFrame ==
    ASSUME TypeOK, joiners = {}, [Next]_vars
    PROVE  UNCHANGED <<joiners, members>>
  <1>1. ASSUME NEW n \in Nodes, Join(n) PROVE FALSE
    BY <1>1 DEF Join
  <1> QED  BY <1>1 DEF Next, Reconcile, Begin, CleanUp, PreparePlans, CreatePlan,
             CreateConflicts, PlanPending, AwaitNodes, NextPlan, NextPhase, Succeed,
             ReconcileError, PutBack, NextRelease, CacheSync, Cluster, SUC,
             StartJob, JobCompletes, JobFails, MarkComplete, NodeReports, vars,
             nodeVars

LEMMA LookingFrame ==
    ASSUME Looking
    PROVE  UNCHANGED <<release, plans, seen, labelled, members, os, installed,
                       kubelet>>
  BY Succeeds DEF Looking, Begin, PreparePlans, NextPlan, NextPhase, PutBack,
     Leaving, vars, planVars, nodeVars

\* A Plan that is seen complete is done.
LEMMA SeenDone ==
    ASSUME TypeOK, Turns, PlanComplete
    PROVE  Done(ThisPlan)
  <1>1. /\ seen[ThisPlan].complete \in {"Unknown", "True", "Failed"}
        /\ ThisPlan \in PlanIds
    BY ThisPlanType DEF TypeOK, PlanStates
  <1>2. PlanStatus(seen[ThisPlan]) = "Complete"
    BY DEF PlanComplete
  <1>3. seen[ThisPlan].complete = "True"
    BY <1>1, <1>2 DEF PlanStatus
  <1> QED  BY <1>1, <1>3 DEF Turns, Applying

\* A reconcile that finds its Plan complete has all Plans done up to there.
LEMMA DoneSoFar ==
    ASSUME TypeOK, Turns, PlanComplete, NEW p \in PlanIds, Own(p),
           ~(Rank(phase, group) < Rank(p.phase, p.group))
    PROVE  Done(p)
  <1>1. Rank(p.phase, p.group) \in Nat /\ Rank(phase, group) \in Nat
    BY DEF Rank
  <1>2. CASE Rank(p.phase, p.group) = Rank(phase, group)
    BY <1>2, AtPlace, SeenDone
  <1>3. CASE Rank(p.phase, p.group) < Rank(phase, group)
    BY <1>3 DEF Turns, DoneBefore, PlanComplete
  <1> QED  BY <1>1, <1>2, <1>3

\* With LastPlan, those are all Plans of the phase and the ones before it:
\* one for workers has nothing to do when there are none.
LEMMA DonePhase ==
    ASSUME TypeOK, Turns, PlanComplete, LastPlan, NEW p \in PlanIds,
           Own(p), phase = "k8s" \/ p.phase = "os"
    PROVE  Done(p)
  <1>1. p.phase \in {"os", "k8s"} /\ p.group \in {"cp", "wk"}
        /\ phase \in {"os", "k8s"} /\ group \in {"cp", "wk"}
    BY DEF PlanIds, TypeOK
  <1>2. CASE group = "wk" \/ p.group = "cp"
    <2>1. ~(Rank(phase, group) < Rank(p.phase, p.group))
      BY <1>1, <1>2 DEF Rank
    <2> QED  BY <2>1, DoneSoFar
  <1>3. CASE group # "wk" /\ p.group = "wk"
    <2>1. members \subseteq ControlPlane
      BY <1>3 DEF LastPlan, Turns, DoneBefore, PlanComplete
    <2>2. Group(p.group) = {}
      BY <1>3, <2>1, NodesAssumption DEF Group
    <2> QED  BY <2>2 DEF Done
  <1> QED  BY <1>1, <1>2, <1>3

\* SUC puts a label on a node and takes none away.
LEMMA LabelsStay ==
    ASSUME TypeOK, Cluster, NEW p \in PlanIds
    PROVE  labelled[p] \subseteq labelled'[p]
  <1>1. ASSUME NEW q \in PlanIds, NEW n \in Nodes, JobCompletes(q, n)
        PROVE  labelled[p] \subseteq labelled'[p]
    BY <1>1 DEF JobCompletes, TypeOK
  <1> QED  BY <1>1 DEF Cluster, SUC, StartJob, JobFails, MarkComplete, NodeReports,
             Join, planVars

\* A Plan is applied to one node at a time, one it is not done with; and is
\* complete, or was when the cache was filled, only when all are done.
LEMMA ApplyingNext ==
    ASSUME TypeOK, joiners = {}, Turns, [Next]_vars
    PROVE  Applying'
  <1> DEFINE Fine(p) ==
        /\ plans[p].complete = "True" \/ seen[p].complete = "True" => Done(p)
        /\ \A n \in plans[p].applying : /\ Exists(plans[p])
                                        /\ n \in Group(p.group) \ labelled[p]
                                        /\ plans[p].applying = {n}
  <1> SUFFICES ASSUME NEW p \in PlanIds PROVE Fine(p)'
    BY DEF Applying
  <1>0. Fine(p) /\ members' = members
    BY QuietFrame DEF Turns, Applying
  <1>1. CASE Looking
    BY <1>0, <1>1, LookingFrame DEF Exists, Done, Group
  <1>2. CASE Cluster
    <2>0. seen' = seen /\ labelled[p] \subseteq labelled'[p]
      BY <1>2, ClusterFrame, LabelsStay
    <2>1. ASSUME plans'[p] = plans[p], labelled'[p] = labelled[p] PROVE Fine(p)'
      BY <1>0, <2>0, <2>1 DEF Exists, Done, Group
    <2>2. ASSUME NEW q \in PlanIds, NEW n \in Nodes, StartJob(q, n) PROVE Fine(p)'
      <3>1. /\ Patched(q, {n}, "Unknown") /\ labelled' = labelled
            /\ Exists(plans[q]) /\ n \in Group(q.group) \ labelled[q]
        BY <2>2, Starts DEF StartJob, Pending
      <3>2. CASE p # q
        BY <2>1, <3>1, <3>2 DEF Patched
      <3>3. CASE p = q
        <4>1. /\ plans'[p].applying = {n} /\ plans'[p].complete = "Unknown"
              /\ Exists(plans[p])'
          BY <3>1, <3>3 DEF Patched, Exists
        <4> QED  BY <1>0, <2>0, <3>1, <3>3, <4>1 DEF Done, Group
      <3> QED  BY <3>2, <3>3
    <2>3. ASSUME NEW q \in PlanIds, NEW n \in Nodes, JobCompletes(q, n)
          PROVE  Fine(p)'
      <3>1. /\ Patched(q, {}, plans[q].complete)
            /\ \A r \in PlanIds \ {q} : labelled'[r] = labelled[r]
        BY <2>3, Completes DEF JobCompletes, TypeOK
      <3>2. CASE p # q
        BY <2>1, <3>1, <3>2 DEF Patched
      <3>3. CASE p = q
        <4>1. plans'[p].applying = {} /\ plans'[p].complete = plans[p].complete
          BY <3>1, <3>3 DEF Patched
        <4> QED  BY <1>0, <2>0, <4>1 DEF Done, Group
      <3> QED  BY <3>2, <3>3
    <2>4. ASSUME NEW q \in PlanIds, NEW n \in Nodes, JobFails(q, n) PROVE Fine(p)'
      <3>1. Patched(q, {}, "Failed") /\ labelled' = labelled
        BY <2>4, Fails DEF JobFails
      <3>2. CASE p # q
        BY <2>1, <3>1, <3>2 DEF Patched
      <3>3. CASE p = q
        <4>1. plans'[p].applying = {} /\ plans'[p].complete = "Failed"
          BY <3>1, <3>3 DEF Patched
        <4> QED  BY <1>0, <2>0, <4>1 DEF Done, Group
      <3> QED  BY <3>2, <3>3
    <2>5. ASSUME NEW q \in PlanIds, MarkComplete(q) PROVE Fine(p)'
      <3>1. /\ Patched(q, {}, "True") /\ labelled' = labelled
            /\ Group(q.group) \ labelled[q] = {}
        BY <2>5, Marks DEF MarkComplete, Pending
      <3>2. CASE p # q
        BY <2>1, <3>1, <3>2 DEF Patched
      <3>3. CASE p = q
        <4>1. plans'[p].applying = {} /\ Done(p)
          BY <3>1, <3>3 DEF Patched, Done
        <4> QED  BY <1>0, <3>1, <4>1 DEF Done, Group
      <3> QED  BY <3>2, <3>3
    <2>6. ASSUME NEW n \in Nodes, NodeReports(n) \/ Join(n) PROVE Fine(p)'
      BY <2>1, <2>6 DEF NodeReports, Join, planVars
    <2> QED  BY <1>2, <2>2, <2>3, <2>4, <2>5, <2>6 DEF Cluster, SUC
  <1>3. CASE Deleting
    <2>1. plans'[p] = plans[p] \/ plans'[p] = NoPlan
      BY <1>3, Delete DEF Deleting
    <2>2. seen' = seen /\ labelled' = labelled
      BY <1>3 DEF Deleting
    <2> QED  BY <1>0, <2>1, <2>2 DEF Exists, Done, Group, NoPlan
  <1>4. CASE Creating
    <2>1. \/ plans'[p] = plans[p]
          \/ plans'[p].applying = {} /\ plans'[p].complete = "Unknown"
      BY <1>4, Create DEF Creating
    <2>2. seen' = seen /\ labelled' = labelled
      BY <1>4 DEF Creating
    <2> QED  BY <1>0, <2>1, <2>2 DEF Exists, Done, Group
  <1>5. ASSUME NEW q \in PlanIds, CacheSync(q) PROVE Fine(p)'
    <2>1. /\ UNCHANGED <<plans, labelled>>
          /\ seen'[p] = seen[p] \/ seen'[p] = plans[p]
      BY <1>5 DEF CacheSync, TypeOK
    <2> QED  BY <1>0, <2>1 DEF Exists, Done, Group
  <1>6. CASE NextRelease
    BY <1>0, <1>6 DEF NextRelease, planVars, Exists, Done, Group
  <1> QED  BY <1>1, <1>2, <1>3, <1>4, <1>5, <1>6, Kinds

\* Plans are made in order, each when those before it are done.
LEMMA DoneBeforeNext ==
    ASSUME ~AfterFailure, TypeOK, Labels, joiners = {}, Turns, [Next]_vars
    PROVE  DoneBefore'
  <1>0. DoneBefore /\ members' = members /\ joiners' = joiners
    BY QuietFrame DEF Turns
  <1>1. CASE Cluster
    <2>1. /\ UNCHANGED <<release, written, seen, pc, phase, group, cpOnly>>
          /\ \A p \in PlanIds : plans'[p].label = plans[p].label
      BY <1>1, ClusterFrame, Keeps DEF Keeping
    <2>2. \A p \in PlanIds : Done(p) => Done(p)'
      BY <1>0, <1>1, LabelsStay DEF Done, Group
    <2>3. \A p \in PlanIds : /\ Exists(plans[p])' <=> Exists(plans[p])
                             /\ Made(p)' <=> Made(p)
                             /\ Own(p)' <=> Own(p)
      BY <2>1 DEF Exists, Made, Own, Target
    <2>4. \A p \in PlanIds : Exists(plans[p])' =>
            IF Made(p)' THEN \A q \in PlanIds : Own(q)' /\ Before(q, p) => Done(q)'
                        ELSE Done(p)'
      BY <1>0, <2>2, <2>3 DEF DoneBefore
    <2>5. release \in written => \A q \in PlanIds : Own(q) => Done(q)'
      BY <1>0, <2>2 DEF DoneBefore
    <2>6. pc \in {"prepare", "plan"} =>
            \A q \in PlanIds : Own(q) /\ Rank(q.phase, q.group) < Rank(phase, group)
                                  => Done(q)'
      BY <1>0, <2>2 DEF DoneBefore
    <2> QED  BY <1>0, <2>1, <2>3, <2>4, <2>5, <2>6 DEF DoneBefore
  <1>2. CASE ~Cluster
    <2>1. UNCHANGED labelled
      BY <1>2, Kinds, LookingFrame DEF Deleting, Creating, NextRelease, CacheSync,
         planVars
    <2>2. \A p \in PlanIds : Done(p)' <=> Done(p)
      BY <1>0, <2>1 DEF Done, Group
    <2>3. CASE Looking
      <3>1. \A p \in PlanIds : /\ Exists(plans[p])' <=> Exists(plans[p])
                               /\ Made(p)' <=> Made(p)
                               /\ Own(p)' <=> Own(p)
        BY <2>3, LookingFrame DEF Exists, Made, Own, Target
      <3>2. \A p \in PlanIds : Exists(plans[p])' =>
              IF Made(p)' THEN \A q \in PlanIds : Own(q)' /\ Before(q, p) => Done(q)'
                          ELSE Done(p)'
        BY <1>0, <2>2, <3>1 DEF DoneBefore
      <3>3. (release \in written)' => \A q \in PlanIds : Own(q) => Done(q)
        <4>1. CASE Succeed
          BY <4>1, DonePhase DEF Succeed
        <4>2. CASE ~Succeed
          <5>1. UNCHANGED <<written, release>>
            BY <2>3, <4>2 DEF Looking, Begin, PreparePlans, NextPlan, NextPhase,
               PutBack, Leaving, Ending, vars, statusVars
          <5> QED  BY <1>0, <5>1 DEF DoneBefore
        <4> QED  BY <4>1, <4>2
      <3>4. pc' \in {"prepare", "plan"} =>
              \A q \in PlanIds : Own(q) /\ Rank(q.phase, q.group) < Rank(phase', group')
                                    => Done(q)
        <4>1. CASE NextPlan
          <5>1. PlanComplete /\ phase' = phase /\ group' = "wk" /\ group = "cp"
            BY <4>1 DEF NextPlan, LastPlan, TypeOK
          <5>2. ASSUME NEW q \in PlanIds, Own(q),
                       Rank(q.phase, q.group) < Rank(phase, "wk")
                PROVE  Done(q)
            <6>1. ~(Rank(phase, group) < Rank(q.phase, q.group))
              BY <5>1, <5>2 DEF Rank
            <6> QED  BY <5>1, <5>2, <6>1, DoneSoFar
          <5> QED  BY <5>1, <5>2
        <4>2. CASE NextPhase
          <5>1. PlanComplete /\ LastPlan /\ phase' = "k8s" /\ group' = "cp"
            BY <4>2 DEF NextPhase
          <5>2. ASSUME NEW q \in PlanIds, Own(q),
                       Rank(q.phase, q.group) < Rank("k8s", "cp")
                PROVE  Done(q)
            <6>1. q.phase = "os"
              BY <5>2 DEF Rank, PlanIds
            <6> QED  BY <5>1, <5>2, <6>1, DonePhase
          <5> QED  BY <5>1, <5>2
        <4>3. CASE PreparePlans
          <5>1. UNCHANGED phase /\ pc = "prepare" /\ group = "cp" /\ group' = "cp"
            BY <4>3 DEF PreparePlans, Labels, Place
          <5> QED  BY <1>0, <5>1 DEF DoneBefore
        <4>4. CASE ~NextPlan /\ ~NextPhase /\ ~PreparePlans
          <5>1. pc' \in {"prepare", "plan"} => UNCHANGED <<pc, phase, group>>
            BY <2>3, <4>4, Succeeds DEF Looking, Begin, PutBack, Leaving, Ending,
               vars
          <5> QED  BY <1>0, <5>1 DEF DoneBefore
        <4> QED  BY <4>1, <4>2, <4>3, <4>4
      <3>5. (pc = "plan" /\ cpOnly)' => members \subseteq ControlPlane
        BY <1>0, <2>3, Succeeds DEF Looking, Begin, PreparePlans, NextPlan,
           NextPhase, PutBack, Leaving, Ending, vars, DoneBefore
      <3> QED  BY <1>0, <2>2, <3>1, <3>2, <3>3, <3>4, <3>5 DEF DoneBefore
    <2>4. CASE Deleting
      <3>1. /\ \A p \in PlanIds : Exists(plans[p])' => plans'[p] = plans[p]
            /\ UNCHANGED <<release, written, phase, group, cpOnly>>
            /\ pc = "cleanup" /\ pc' \in {"idle", "prepare"}
        BY <2>4, Delete, NoPlanType DEF Deleting, Ending, Exists
      <3>2. \A p \in PlanIds : Exists(plans[p])' =>
              /\ Exists(plans[p]) /\ (Made(p)' <=> Made(p))
        BY <3>1 DEF Exists, Made
      <3>3. \A p \in PlanIds : Own(p)' <=> Own(p)
        BY <3>1 DEF Own, Target
      <3>4. phase = "os" /\ group = "cp"
        BY <3>1 DEF Labels, Place
      <3>5. \A q \in PlanIds : ~(Rank(q.phase, q.group) < Rank(phase, group))
        BY <3>4 DEF Rank
      <3>6. \A p \in PlanIds : Exists(plans[p])' =>
              IF Made(p)' THEN \A q \in PlanIds : Own(q)' /\ Before(q, p) => Done(q)'
                          ELSE Done(p)'
        BY <1>0, <2>2, <3>2, <3>3 DEF DoneBefore
      <3> QED  BY <1>0, <2>2, <3>1, <3>3, <3>5, <3>6 DEF DoneBefore
    <2>5. CASE Creating
      <3>1. /\ \A p \in PlanIds \ {ThisPlan} : plans'[p] = plans[p]
            /\ plans'[ThisPlan].label = release
            /\ UNCHANGED <<release, written, phase, group, cpOnly>>
            /\ pc = "plan" /\ pc' = "idle"
        BY <2>5, Create DEF Creating, Ending, MissingPlan
      <3>2. \A p \in PlanIds \ {ThisPlan} : Exists(plans[p])' =>
              /\ Exists(plans[p]) /\ (Made(p)' <=> Made(p))
        BY <3>1 DEF Exists, Made
      <3>4. \A q \in PlanIds : Own(q) /\ Before(q, ThisPlan) => Done(q)
        BY <1>0, <3>1, ThisPlanType DEF DoneBefore, Before
      <3>5. \A p \in PlanIds : Own(p)' <=> Own(p)
        BY <3>1 DEF Own, Target
      <3>6. ASSUME NEW p \in PlanIds, Exists(plans[p])'
            PROVE  IF Made(p)' THEN \A q \in PlanIds : Own(q)' /\ Before(q, p) => Done(q)'
                               ELSE Done(p)'
        <4>1. CASE p = ThisPlan
          BY <2>2, <3>1, <3>4, <3>5, <3>6, <4>1 DEF Made, Exists
        <4>2. CASE p # ThisPlan
          BY <1>0, <2>2, <3>2, <3>5, <3>6, <4>2 DEF DoneBefore
        <4> QED  BY <4>1, <4>2
      <3> QED  BY <1>0, <2>2, <3>1, <3>5, <3>6 DEF DoneBefore
    <2>6. CASE NextRelease
      <3>1. /\ release \in written /\ release' = release + 1 /\ pc' = "idle"
            /\ UNCHANGED <<written, plans>> /\ release \in Nat
        BY <2>6, Admitted
      <3>2. release' \notin written'
        BY <3>1 DEF TypeOK
      <3>3. \A p \in PlanIds : Exists(plans[p]) => Done(p)
        BY <1>0, <3>1 DEF DoneBefore, Labels, PlansKnown
      <3>4. \A p \in PlanIds : Exists(plans[p])' => ~Made(p)' /\ Done(p)'
        BY <2>2, <3>1, <3>3 DEF Labels, PlansKnown, Made, Exists
      <3> QED  BY <3>1, <3>2, <3>4 DEF DoneBefore
    <2>7. ASSUME NEW r \in PlanIds, CacheSync(r) PROVE DoneBefore'
      <3>1. UNCHANGED <<release, written, plans, pc, phase, group, cpOnly>>
        BY <2>7 DEF CacheSync, callVars, statusVars
      <3>2. \A p \in PlanIds : /\ Exists(plans[p])' <=> Exists(plans[p])
                               /\ Made(p)' <=> Made(p)
                               /\ Own(p)' <=> Own(p)
        BY <3>1 DEF Exists, Made, Own, Target
      <3> QED  BY <1>0, <2>2, <3>1, <3>2 DEF DoneBefore
    <2> QED  BY <1>2, <2>3, <2>4, <2>5, <2>6, <2>7, Kinds
  <1> QED  BY <1>1, <1>2

LEMMA TurnsInit == Init => QuietTurns
  <1> SUFFICES ASSUME Init PROVE Turns
    BY DEF QuietTurns
  <1>1. \A p \in PlanIds : /\ plans[p] = NoPlan /\ seen[p] = NoPlan
                           /\ ~Exists(plans[p])
    BY NoPlanType DEF Init
  <1>2. Applying
    BY <1>1 DEF Applying, NoPlan
  <1>3. DoneBefore
    BY <1>1 DEF Init, DoneBefore
  <1> QED  BY <1>2, <1>3 DEF Turns

LEMMA TurnsNext ==
    ASSUME ~AfterFailure, TypeOK, Labels, QuietTurns, [Next]_vars
    PROVE  QuietTurns'
  <1>1. joiners' = {} => joiners = {}
    BY DEF Next, Reconcile, Begin, CleanUp, PreparePlans, CreatePlan,
       CreateConflicts, PlanPending, AwaitNodes, NextPlan, NextPhase, Succeed,
       ReconcileError, PutBack, NextRelease, CacheSync, Cluster, SUC, StartJob,
       JobCompletes, JobFails, MarkComplete, NodeReports, Join, vars, nodeVars
  <1> QED  BY <1>1, ApplyingNext, DoneBeforeNext DEF QuietTurns, Turns

LEMMA TurnsCorrect ==
    ASSUME ~AfterFailure
    PROVE  Spec => [](TypeOK /\ Labels /\ QuietTurns)
  <1>1. TypeOK /\ Labels /\ QuietTurns /\ [Next]_vars
           => (TypeOK /\ Labels /\ QuietTurns)'
    BY TypeNext, LabelsNext, TurnsNext
  <1> QED  BY <1>1, TypeInit, LabelsInit, TurnsInit, PTL DEF Spec

\* A Plan that SUC applies to a node is one of this release, with the Plans
\* before it done.
LEMMA AppliedPlan ==
    ASSUME TypeOK, Labels, Turns, NEW p \in PlanIds, NEW n \in plans[p].applying
    PROVE  /\ Made(p) /\ Own(p) /\ ~Done(p)
           /\ n \in Group(p.group) \ labelled[p] /\ plans[p].applying = {n}
           /\ \A q \in PlanIds : Own(q) /\ Before(q, p) => Done(q)
  <1>1. /\ Exists(plans[p]) /\ n \in Group(p.group) \ labelled[p]
        /\ plans[p].applying = {n}
    BY DEF Turns, Applying
  <1>2. ~Done(p)
    BY <1>1 DEF Done
  <1>3. Made(p) /\ \A q \in PlanIds : Own(q) /\ Before(q, p) => Done(q)
    BY <1>1, <1>2 DEF Turns, DoneBefore
  <1>4. Own(p)
    BY <1>1, <1>3 DEF Labels, PlansKnown
  <1> QED  BY <1>1, <1>2, <1>3, <1>4

(***************************************************************************)
(* SUC's Concurrency bounds the nodes of one Plan; that no two Plans have  *)
(* a node out of service at once is the reconciler's doing: it creates a   *)
(* Plan only when those before it have been complete.                      *)
(***************************************************************************)
THEOREM OneNodeOut ==
    ASSUME ~AfterFailure
    PROVE  Spec => []OneNodeAtATime
  <1>1. ASSUME TypeOK, Labels, QuietTurns PROVE OneNodeAtATime
    <2> SUFFICES ASSUME joiners = {}, NEW m \in members, NEW n \in members,
                        Cordoned(m), Cordoned(n)
                 PROVE  m = n
      BY DEF OneNodeAtATime
    <2>1. PICK p \in PlanIds : m \in plans[p].applying
      BY DEF Cordoned
    <2>2. PICK q \in PlanIds : n \in plans[q].applying
      BY DEF Cordoned
    <2>3. Turns
      BY <1>1 DEF QuietTurns
    <2>4. /\ Own(p) /\ ~Done(p) /\ plans[p].applying = {m}
          /\ \A r \in PlanIds : Own(r) /\ Before(r, p) => Done(r)
      BY <1>1, <2>1, <2>3, AppliedPlan
    <2>5. /\ Own(q) /\ ~Done(q) /\ plans[q].applying = {n}
          /\ \A r \in PlanIds : Own(r) /\ Before(r, q) => Done(r)
      BY <1>1, <2>2, <2>3, AppliedPlan
    <2>6. ~Before(p, q) /\ ~Before(q, p)
      BY <2>4, <2>5
    <2>7. /\ p.phase \in {"os", "k8s"} /\ p.group \in {"cp", "wk"}
          /\ q.phase \in {"os", "k8s"} /\ q.group \in {"cp", "wk"}
      BY DEF PlanIds
    <2>8. p.phase = q.phase /\ p.group = q.group
      BY <2>6, <2>7 DEF Before, Rank
    <2>9. p = q
      BY <2>4, <2>5, <2>8, SameName DEF Own
    <2> QED  BY <2>4, <2>5, <2>9
  <1> QED  BY <1>1, TurnsCorrect, PTL

-----------------------------------------------------------------------------
(* Which versions the nodes have.                                          *)

\* What a Plan's label on a node says.
VersionAt(ph, n) == IF ph = "os" THEN os[n] ELSE installed[n]
Given == \A p \in PlanIds : \A n \in labelled[p] :
    /\ \E s \in 1..release : p.version = VersionOf(s, p.phase)
    /\ Own(p) => p.version = VersionAt(p.phase, n)
WorkersTurn ==
    /\ pc = "plan" /\ phase = "k8s" /\ group = "wk" => Reported
    /\ \A p \in PlanIds : Made(p) /\ p.phase = "k8s" /\ p.group = "wk" => Reported

LEMMA NodalParts == Nodal <=> Given /\ WorkersTurn
  BY DEF Nodal, Given, WorkersTurn, VersionAt

\* Only a finished Job changes what is installed on a node.
LEMMA Installs ==
    ASSUME TypeOK, [Next]_vars,
           ~(\E p \in PlanIds, n \in Nodes : JobCompletes(p, n))
    PROVE  UNCHANGED <<labelled, os, installed>>
  BY Kinds, LookingFrame DEF Deleting, Creating, NextRelease, CacheSync, Cluster, SUC,
     StartJob, JobFails, MarkComplete, NodeReports, Join, planVars, nodeVars

\* The labels on nodes say which version of this release they have.
LEMMA GivenNext ==
    ASSUME ~AfterFailure, NoReturn, TypeOK, Labels, Turns, Given, [Next]_vars
    PROVE  Given'
  <1> SUFFICES ASSUME NEW p \in PlanIds, NEW m \in labelled'[p]
               PROVE  /\ \E s \in 1..release' : p.version = VersionOf(s, p.phase)
                      /\ Own(p)' => p.version = VersionAt(p.phase, m)'
    BY DEF Given
  <1>0. release \in 1..Len(Releases) /\ Len(Releases) \in Nat
    BY ReleasesAssumption, LenProperties DEF TypeOK
  <1>1. ASSUME NEW q \in PlanIds, NEW n \in Nodes, JobCompletes(q, n), Cluster
        PROVE  /\ \E s \in 1..release' : p.version = VersionOf(s, p.phase)
               /\ Own(p)' => p.version = VersionAt(p.phase, m)'
    <2>1. release' = release /\ (Own(p)' <=> Own(p)) /\ n \in plans[q].applying
      BY <1>1, ClusterFrame DEF Own, Target, JobCompletes
    <2>2. Own(q)
      BY <2>1, AppliedPlan
    <2>3. q.version = VersionOf(release, q.phase) /\ q.phase \in {"os", "k8s"}
      BY <2>2 DEF Own, Target, VersionOf, PlanIds
    <2>4. /\ p.phase = q.phase => VersionAt(p.phase, n)' = q.version
          /\ p.phase # q.phase \/ m # n => VersionAt(p.phase, m)' = VersionAt(p.phase, m)
      <3>1. p.phase \in {"os", "k8s"} /\ os \in [Nodes -> Versions]
            /\ installed \in [Nodes -> Versions]
        BY DEF PlanIds, TypeOK
      <3>2. m \in Nodes
        BY <1>1, TypeNext DEF TypeOK
      <3> QED  BY <1>1, <2>3, <3>1, <3>2 DEF JobCompletes, VersionAt
    <2>5. CASE m \in labelled[p]
      <3>1. /\ \E s \in 1..release : p.version = VersionOf(s, p.phase)
            /\ Own(p) => p.version = VersionAt(p.phase, m)
        BY <2>5 DEF Given
      <3>2. Own(p) /\ p.phase = q.phase => p.version = q.version
        BY <2>2 DEF Own
      <3> QED  BY <2>1, <2>4, <3>1, <3>2
    <2>6. CASE m \notin labelled[p]
      <3>1. p = q /\ m = n
        BY <1>1, <2>6 DEF JobCompletes, TypeOK
      <3> QED  BY <1>0, <2>1, <2>3, <2>4, <3>1
    <2> QED  BY <2>5, <2>6
  <1>2. CASE ~(\E q \in PlanIds, n \in Nodes : JobCompletes(q, n))
    <2>1. UNCHANGED <<labelled, os, installed>>
      BY <1>2, Installs
    <2>2. /\ \E s \in 1..release : p.version = VersionOf(s, p.phase)
          /\ Own(p) => p.version = VersionAt(p.phase, m)
      BY <2>1 DEF Given
    <2>3. VersionAt(p.phase, m)' = VersionAt(p.phase, m)
      BY <2>1 DEF VersionAt
    <2>4. CASE release' = release
      BY <2>2, <2>3, <2>4 DEF Own, Target
    <2>5. CASE release' # release
      <3>1. release' = release + 1 /\ release' \in 1..Len(Releases)
        <4>1. NextRelease
          BY <2>5, Kinds, Keeps DEF Keeping, Deleting, Creating, CacheSync
        <4> QED  BY <4>1, TypeNext DEF NextRelease, TypeOK
      <3>2. PICK s \in 1..release : p.version = VersionOf(s, p.phase)
        BY <2>2
      <3>3. s \in 1..release' /\ release \in s..release'
        BY <1>0, <3>1
      <3>4. p.phase \in {"os", "k8s"}
        BY DEF PlanIds
      <3>5. Own(p)' => p.version = VersionOf(release', p.phase)
        BY <3>4 DEF Own, Target, VersionOf
      <3>6. VersionOf(s, p.phase) = VersionOf(release', p.phase)
               => VersionOf(release, p.phase) = VersionOf(release', p.phase)
        BY <3>1, <3>3, <3>4 DEF NoReturn
      <3>7. p.version = VersionOf(release, p.phase) => Own(p)
        BY <3>4 DEF Own, Target, VersionOf
      <3> QED  BY <2>2, <2>3, <3>2, <3>3, <3>5, <3>6, <3>7
    <2> QED  BY <2>4, <2>5
  <1>3. (\E q \in PlanIds, n \in Nodes : JobCompletes(q, n)) => Cluster
    <2> SUFFICES ASSUME NEW q \in PlanIds, NEW n \in Nodes, JobCompletes(q, n)
                 PROVE  Cluster
      OBVIOUS
    <2>1. n \in plans[q].applying /\ plans'[q].applying = {}
      BY Completes DEF JobCompletes, Patched
    <2>2. labelled'[q] # labelled[q]
      <3>1. n \in Group(q.group) \ labelled[q]
        BY <2>1, AppliedPlan
      <3> QED  BY <3>1 DEF JobCompletes, TypeOK
    <2>3. labelled' # labelled
      BY <2>2
    <2> QED  BY <2>3, Kinds, LookingFrame DEF Deleting, Creating, NextRelease,
             CacheSync, planVars
  <1> QED  BY <1>1, <1>2, <1>3

\* A worker's Kubernetes is upgraded once the control plane has reported.
LEMMA WorkersTurnNext ==
    ASSUME ~AfterFailure, TypeOK, Labels, joiners = {}, Turns, WorkersTurn,
           [Next]_vars
    PROVE  WorkersTurn'
  <1>0. members' = members /\ (Group("cp")' = Group("cp"))
    BY QuietFrame DEF Group
  <1> DEFINE Turn == \/ pc = "plan" /\ phase = "k8s" /\ group = "wk"
                     \/ \E p \in PlanIds : Made(p) /\ p.phase = "k8s" /\ p.group = "wk"
  <1>1. WorkersTurn <=> (Turn => Reported)
    BY DEF WorkersTurn
  <1>2. WorkersTurn' <=> (Turn' => Reported')
    BY DEF WorkersTurn
  <1>3. ASSUME Turn, Reported PROVE Reported'
    <2>0. \A c \in Group("cp") : kubelet[c] = installed[c] /\ c \in Nodes
      BY <1>3 DEF Reported, Group, TypeOK
    <2>1. CASE UNCHANGED <<installed, kubelet>>
      BY <1>0, <2>0, <2>1 DEF Reported
    <2>2. ASSUME NEW n \in Nodes, NodeReports(n) PROVE Reported'
      <3>1. \A c \in Group("cp") : kubelet'[c] = kubelet[c] \/ kubelet'[c] = installed[c]
        BY <2>0, <2>2 DEF NodeReports, TypeOK
      <3>2. installed' = installed
        BY <2>2 DEF NodeReports
      <3> QED  BY <1>0, <2>0, <3>1, <3>2 DEF Reported
    <2>3. ASSUME NEW q \in PlanIds, NEW n \in Nodes, JobCompletes(q, n)
          PROVE  Reported'
      <3>1. /\ Own(q) /\ ~Done(q) /\ n \in Group(q.group)
            /\ q.phase \in {"os", "k8s"} /\ q.group \in {"cp", "wk"}
        BY <2>3, AppliedPlan DEF JobCompletes, PlanIds
      <3>2. ~(q.phase = "k8s" /\ q.group = "cp")
        <4> SUFFICES ASSUME q.phase = "k8s", q.group = "cp" PROVE FALSE
          OBVIOUS
        <4>1. CASE pc = "plan" /\ phase = "k8s" /\ group = "wk"
          <5>1. Rank(q.phase, q.group) < Rank(phase, group)
            BY <4>1 DEF Rank
          <5> QED  BY <3>1, <4>1, <5>1 DEF Turns, DoneBefore
        <4>2. ASSUME NEW p \in PlanIds, Made(p), p.phase = "k8s", p.group = "wk"
              PROVE  FALSE
          <5>1. Before(q, p)
            BY <4>2 DEF Before, Rank
          <5>2. Exists(plans[p])
            BY <4>2 DEF Made
          <5> QED  BY <3>1, <4>2, <5>1, <5>2 DEF Turns, DoneBefore
        <4> QED  BY <1>3, <4>1, <4>2
      <3>3. kubelet' = kubelet
        BY <2>3 DEF JobCompletes
      <3>4. CASE q.phase = "os"
        BY <2>1, <2>3, <3>3, <3>4 DEF JobCompletes
      <3>5. CASE q.phase = "k8s" /\ q.group = "wk"
        <4>1. n \notin Group("cp")
          BY <3>1, <3>5, NodesAssumption DEF Group
        <4>2. \A c \in Group("cp") : installed'[c] = installed[c]
          BY <2>0, <2>3, <3>5, <4>1 DEF JobCompletes, TypeOK
        <4> QED  BY <1>0, <2>0, <3>3, <4>2 DEF Reported
      <3> QED  BY <3>1, <3>2, <3>4, <3>5
    <2>4. CASE Cluster
      BY <2>1, <2>2, <2>3, <2>4 DEF Cluster, SUC, StartJob, JobFails, MarkComplete,
         Join, nodeVars
    <2>5. CASE ~Cluster
      <3>1. UNCHANGED <<installed, kubelet>>
        BY <2>5, Kinds, LookingFrame DEF Deleting, Creating, NextRelease, CacheSync,
           nodeVars
      <3> QED  BY <2>1, <3>1
    <2> QED  BY <2>4, <2>5
  <1>4. ASSUME ~Turn, Turn' PROVE Reported'
    <2>1. CASE Cluster
      <3>1. \A p \in PlanIds : Made(p)' <=> Made(p)
        BY <2>1, Keeps DEF Keeping, Made, Exists
      <3> QED  BY <1>4, <2>1, <3>1, ClusterFrame
    <2>2. CASE Looking
      <3>1. \A p \in PlanIds : Made(p)' <=> Made(p)
        BY <2>2, LookingFrame DEF Made, Exists
      <3>2. (pc = "plan" /\ phase = "k8s" /\ group = "wk")'
        BY <1>4, <3>1
      <3>3. NextPlan
        BY <1>4, <2>2, <3>2, Succeeds DEF Looking, Begin, PreparePlans, NextPhase,
           PutBack, Leaving, Ending, vars
      <3>4. phase = "k8s" /\ group = "cp" /\ Verified
        BY <3>2, <3>3 DEF NextPlan, LastPlan, TypeOK
      <3>5. Reported
        BY <3>4 DEF Verified, AllNodesAtKubernetesVersion, Reported
      <3> QED  BY <1>0, <2>2, <3>5, LookingFrame DEF Reported
    <2>3. CASE Deleting
      <3>1. \A p \in PlanIds : Made(p)' => Made(p)
        BY <2>3, Delete, NoPlanType DEF Deleting, Made, Exists
      <3> QED  BY <1>4, <2>3, <3>1 DEF Deleting, Ending
    <2>4. CASE Creating
      <3>1. \A p \in PlanIds \ {ThisPlan} : Made(p)' => Made(p)
        BY <2>4, Create DEF Creating, Made, Exists
      <3>2. ThisPlan.phase = phase /\ ThisPlan.group = group
        BY ThisPlanType
      <3> QED  BY <1>4, <2>4, <3>1, <3>2 DEF Creating, Ending, MissingPlan
    <2>5. CASE NextRelease
      <3>1. \A p \in PlanIds : ~Made(p)'
        BY <2>5, Admitted DEF Labels, PlansKnown, Made, Exists
      <3> QED  BY <1>4, <2>5, <3>1, Admitted
    <2>6. ASSUME NEW q \in PlanIds, CacheSync(q) PROVE Reported'
      BY <1>4, <2>6 DEF CacheSync, callVars, Made, Exists
    <2> QED  BY <2>1, <2>2, <2>3, <2>4, <2>5, <2>6, Kinds
  <1> HIDE DEF Turn
  <1> QED  BY <1>1, <1>2, <1>3, <1>4

LEMMA NodalInit == Init => QuietNodal
  <1> SUFFICES ASSUME Init PROVE Nodal
    BY DEF QuietNodal
  <1>1. Given
    BY DEF Init, Given
  <1>2. \A p \in PlanIds : ~Made(p)
    BY NoPlanType DEF Init, Made
  <1>3. WorkersTurn
    BY <1>2 DEF Init, WorkersTurn
  <1> QED  BY <1>1, <1>3, NodalParts

LEMMA NodalNext ==
    ASSUME ~AfterFailure, NoReturn, TypeOK, Labels, QuietTurns, QuietNodal,
           [Next]_vars
    PROVE  QuietNodal'
  <1>1. joiners' = {} => joiners = {}
    BY DEF Next, Reconcile, Begin, CleanUp, PreparePlans, CreatePlan,
       CreateConflicts, PlanPending, AwaitNodes, NextPlan, NextPhase, Succeed,
       ReconcileError, PutBack, NextRelease, CacheSync, Cluster, SUC, StartJob,
       JobCompletes, JobFails, MarkComplete, NodeReports, Join, vars, nodeVars
  <1>2. ASSUME joiners = {} PROVE Nodal'
    <2>1. Turns /\ Given /\ WorkersTurn
      BY <1>2, NodalParts DEF QuietTurns, QuietNodal
    <2>2. Given' /\ WorkersTurn'
      BY <1>2, <2>1, GivenNext, WorkersTurnNext
    <2> QED  BY <2>2 DEF Nodal, Given, WorkersTurn, VersionAt
  <1> QED  BY <1>1, <1>2 DEF QuietNodal

LEMMA NodalCorrect ==
    ASSUME ~AfterFailure, NoReturn
    PROVE  Spec => [](TypeOK /\ Labels /\ QuietTurns /\ QuietNodal)
  <1>1. TypeOK /\ Labels /\ QuietTurns /\ QuietNodal /\ [Next]_vars
           => (TypeOK /\ Labels /\ QuietTurns /\ QuietNodal)'
    BY TypeNext, LabelsNext, TurnsNext, NodalNext
  <1> QED  BY <1>1, TypeInit, LabelsInit, TurnsInit, NodalInit, PTL DEF Spec

\* The name of the Plan of this release for a phase and a group.
PlanOf(ph, g) == [phase |-> ph, group |-> g, version |-> Target(ph)]

LEMMA PlanOfType ==
    ASSUME TypeOK, NEW ph \in {"os", "k8s"}, NEW g \in {"cp", "wk"}
    PROVE  /\ PlanOf(ph, g) \in PlanIds /\ Own(PlanOf(ph, g))
           /\ PlanOf(ph, g).phase = ph /\ PlanOf(ph, g).group = g
           /\ PlanOf(ph, g).version = Target(ph)
  BY TargetType DEF TypeOK, PlanOf, PlanIds, Own

\* The nodes of a Plan of this release that is done have its version.
LEMMA DoneNodes ==
    ASSUME TypeOK, Nodal, NEW ph \in {"os", "k8s"}, NEW g \in {"cp", "wk"},
           Done(PlanOf(ph, g)), NEW n \in Group(g)
    PROVE  VersionAt(ph, n) = Target(ph)
  <1> DEFINE p == PlanOf(ph, g)
  <1>1. /\ p \in PlanIds /\ Own(p) /\ p.phase = ph /\ p.group = g
        /\ p.version = Target(ph)
    BY PlanOfType
  <1>2. n \in labelled[p]
    BY <1>1 DEF Done
  <1>3. Own(p) => p.version = VersionAt(p.phase, n)
    BY <1>1, <1>2, NodalParts DEF Given
  <1> QED  BY <1>1, <1>3

(***************************************************************************)
(* The phases return success, and status.version is set, only when every   *)
(* node runs the release's OS and Kubernetes and is schedulable, whatever  *)
(* the cache showed, of the Plans and of the Release:                      *)
(* parsePhaseStatusFromPlan and the check of the nodes are enough because  *)
(* a complete Plan stays done.                                             *)
(***************************************************************************)
THEOREM PhasesAreHonest ==
    ASSUME ~AfterFailure, NoReturn
    PROVE  Spec => PhasesHonest
  <1> DEFINE Step == outcome' = "Succeeded" /\ outcome # "Succeeded" /\ joiners = {} =>
                 /\ version' = release
                 /\ \A n \in members : NodeAt(n, release) /\ ~Cordoned(n)
  <1>1. ASSUME TypeOK, Labels, QuietTurns, QuietNodal, [Next]_vars
        PROVE  Step
    <2> SUFFICES ASSUME outcome' = "Succeeded", outcome # "Succeeded", joiners = {}
                 PROVE  /\ version' = release
                        /\ \A n \in members : NodeAt(n, release) /\ ~Cordoned(n)
      OBVIOUS
    <2>0. Succeed
      BY <1>1, Kinds, ClusterFrame DEF Looking, Begin, PreparePlans, NextPlan,
         NextPhase, PutBack, Leaving, vars, Deleting, Creating, NextRelease,
         CacheSync, statusVars
    <2>1. version' = release
      BY <2>0, Succeeds
    <2> SUFFICES ASSUME NEW n \in members PROVE NodeAt(n, release) /\ ~Cordoned(n)
      BY <2>1
    <2>2. /\ PlanComplete /\ LastPlan /\ phase = "k8s"
          /\ Verified /\ Turns /\ Nodal
      BY <1>1, <2>0 DEF Succeed, QuietTurns, QuietNodal
    <2>3. \A p \in PlanIds : Own(p) => Done(p)
      BY <1>1, <2>2, DonePhase
    <2>4. PICK g \in {"cp", "wk"} : n \in Group(g)
      BY <1>1 DEF TypeOK, Nodes, Group
    <2>5. Done(PlanOf("os", g)) /\ Done(PlanOf("k8s", g))
      BY <1>1, <2>3, PlanOfType
    <2>6. VersionAt("os", n) = Target("os") /\ VersionAt("k8s", n) = Target("k8s")
      BY <1>1, <2>2, <2>4, <2>5, DoneNodes
    <2>7. kubelet[n] = installed[n]
      <3>1. CASE n \in Group(group)
        BY <2>2, <3>1 DEF Verified, AllNodesAtKubernetesVersion
      <3>2. CASE n \notin Group(group)
        <4>1. group = "wk" /\ g = "cp"
          <5>1. group = "cp" => members \subseteq ControlPlane
            BY <2>2 DEF LastPlan, Turns, DoneBefore, PlanComplete
          <5>2. group \in {"cp", "wk"}
            BY <1>1 DEF TypeOK
          <5> QED  BY <2>4, <3>2, <5>1, <5>2 DEF Group
        <4>2. Reported
          BY <2>2, <4>1, NodalParts DEF WorkersTurn, PlanComplete
        <4> QED  BY <2>4, <4>1, <4>2 DEF Reported
      <3> QED  BY <3>1, <3>2
    <2>8. ~Cordoned(n)
      BY <1>1, <2>2, <2>3, AppliedPlan DEF Cordoned
    <2> QED  BY <2>2, <2>6, <2>7, <2>8 DEF NodeAt, VersionAt, Target
  <1>2. TypeOK /\ Labels /\ QuietTurns /\ QuietNodal /\ [Next]_vars => [Step]_vars
    BY <1>1
  <1> HIDE DEF Step
  <1>3. Spec => [][Step]_vars
    BY <1>2, NodalCorrect, PTL DEF Spec
  <1> QED  BY <1>3 DEF PhasesHonest, Step

(***************************************************************************)
(* Control plane before workers, and the OS of all nodes before the        *)
(* Kubernetes of any (preparePlans and the loops over its Plans): every    *)
(* node that is changed is changed when those before it have the version.  *)
(***************************************************************************)
THEOREM UpgradesInOrder ==
    ASSUME ~AfterFailure, NoReturn
    PROVE  Spec => UpgradeOrder
  <1> DEFINE Step == joiners = {} => \A n \in Nodes :
                 /\ n \in Workers /\ os'[n] # os[n] =>
                      \A c \in ControlPlane \cap members : os[c] = os'[n]
                 /\ n \in Workers /\ installed'[n] # installed[n] =>
                      \A c \in ControlPlane \cap members : kubelet[c] = installed'[n]
                 /\ installed'[n] # installed[n] =>
                      \A m \in members : os[m] = Releases[release].os
  <1>1. ASSUME TypeOK, Labels, QuietTurns, QuietNodal, [Next]_vars
        PROVE  Step
    <2> SUFFICES ASSUME joiners = {}, NEW n \in Nodes,
                        os'[n] # os[n] \/ installed'[n] # installed[n]
                 PROVE  /\ n \in Workers /\ os'[n] # os[n] =>
                             \A c \in ControlPlane \cap members : os[c] = os'[n]
                        /\ n \in Workers /\ installed'[n] # installed[n] =>
                             \A c \in ControlPlane \cap members :
                                kubelet[c] = installed'[n]
                        /\ installed'[n] # installed[n] =>
                             \A m \in members : os[m] = Releases[release].os
      OBVIOUS
    <2>1. Turns /\ Nodal
      BY <1>1 DEF QuietTurns, QuietNodal
    <2>2. PICK p \in PlanIds, k \in Nodes : JobCompletes(p, k)
      BY <1>1, Installs
    <2>3. k = n
      BY <1>1, <2>2 DEF JobCompletes, TypeOK
    <2>4. n \in plans[p].applying
      BY <2>2, <2>3 DEF JobCompletes
    <2>5. /\ Made(p) /\ Own(p) /\ n \in Group(p.group)
          /\ \A q \in PlanIds : Own(q) /\ Before(q, p) => Done(q)
      BY <1>1, <2>1, <2>4, AppliedPlan
    <2>6. ASSUME NEW ph \in {"os", "k8s"}, NEW g \in {"cp", "wk"},
                 Rank(ph, g) < Rank(p.phase, p.group), NEW m \in Group(g)
          PROVE  VersionAt(ph, m) = Target(ph)
      <3>1. Done(PlanOf(ph, g))
        BY <1>1, <2>5, <2>6, PlanOfType DEF Before
      <3> QED  BY <1>1, <2>1, <2>6, <3>1, DoneNodes
    <2>7. /\ n \in Workers => p.group = "wk"
          /\ p.phase \in {"os", "k8s"} /\ p.group \in {"cp", "wk"}
          /\ p.version = Target(p.phase)
      BY <2>5, NodesAssumption DEF Group, PlanIds, Own
    <2>8. CASE p.phase = "os"
      <3>1. installed' = installed /\ os'[n] = Target("os")
        BY <1>1, <2>2, <2>3, <2>7, <2>8 DEF JobCompletes, TypeOK
      <3>2. ASSUME n \in Workers, NEW c \in ControlPlane \cap members
            PROVE  os[c] = os'[n]
        <4>1. Rank("os", "cp") < Rank(p.phase, p.group) /\ c \in Group("cp")
          BY <2>7, <2>8, <3>2 DEF Rank, Group
        <4>2. VersionAt("os", c) = Target("os")
          BY <2>6, <4>1
        <4> QED  BY <3>1, <4>2 DEF VersionAt
      <3> QED  BY <3>1, <3>2
    <2>9. CASE p.phase = "k8s"
      <3>1. os' = os /\ installed'[n] = Target("k8s")
        BY <1>1, <2>2, <2>3, <2>7, <2>9 DEF JobCompletes, TypeOK
      <3>2. ASSUME n \in Workers, NEW c \in ControlPlane \cap members
            PROVE  kubelet[c] = installed'[n]
        <4>1. Rank("k8s", "cp") < Rank(p.phase, p.group) /\ c \in Group("cp")
          BY <2>7, <2>9, <3>2 DEF Rank, Group
        <4>2. VersionAt("k8s", c) = Target("k8s")
          BY <2>6, <4>1
        <4>3. Reported
          BY <2>1, <2>5, <2>7, <2>9, <3>2, NodalParts DEF WorkersTurn
        <4> QED  BY <3>1, <4>1, <4>2, <4>3 DEF VersionAt, Reported
      <3>3. ASSUME NEW m \in members PROVE os[m] = Releases[release].os
        <4>1. PICK g \in {"cp", "wk"} : m \in Group(g)
          BY <1>1 DEF TypeOK, Nodes, Group
        <4>2. Rank("os", g) < Rank(p.phase, p.group)
          BY <2>7, <2>9 DEF Rank
        <4>3. VersionAt("os", m) = Target("os")
          BY <2>6, <4>1, <4>2
        <4> QED  BY <4>3 DEF VersionAt, Target
      <3> QED  BY <3>1, <3>2, <3>3
    <2> QED  BY <2>7, <2>8, <2>9
  <1>2. TypeOK /\ Labels /\ QuietTurns /\ QuietNodal /\ [Next]_vars => [Step]_vars
    BY <1>1
  <1> HIDE DEF Step
  <1>3. Spec => [][Step]_vars
    BY <1>2, NodalCorrect, PTL DEF Spec
  <1> QED  BY <1>3 DEF UpgradeOrder, Step
=============================================================================
