----------------------- MODULE PackagedComponentsProofs -----------------------
(***************************************************************************)
(* Proofs about PackagedComponents, for all versions, charts and releases: *)
(* its type invariant; that the snapshot shows what an upgrade starts      *)
(* from; and that the phase succeeds only with every component installed.  *)
(* The last two need that a release succeeds before the next is submitted  *)
(* (~AfterFailure) and that RKE2 writes the charts of a version together.  *)
(***************************************************************************)
EXTENDS PackagedComponents, SequenceTheorems, TLAPS

-----------------------------------------------------------------------------
(* The invariants.                                                         *)

\* The version of a release, and the one an upgrade starts from.
At(r) == IF r = 0 THEN 0 ELSE Releases[r]
Prev == At(release - 1)

Taken == snapshot.label = release

(***************************************************************************)
(* Until the snapshot of the release is taken nothing has moved; after     *)
(* that the nodes and the charts are at the version before or the new one. *)
(***************************************************************************)
Moved ==
    /\ wanted \in {Prev, Target} /\ server \in {Prev, wanted}
    /\ ~Taken => wanted = Prev
    /\ \A n \in Nodes : kubelet[n] \in {Prev, server}
    /\ charts \in {Content[Prev], Content[server]}

Recorded ==
    /\ Taken => snapshot.source = Prev /\ snapshot.content = Content[Prev]
    /\ ~Taken /\ pc \in {"list", "create"} => draft.source = Prev
    /\ ~Taken /\ pc = "create" => draft.content = Content[Prev]

Finished == Taken /\ wanted = Target /\ charts = Content[Target] /\ AllAtTarget

Stage ==
    /\ pc \in {"plan", "find", "check"} => Taken
    /\ pc \in {"find", "check"} => wanted = Target /\ AllAtTarget
    /\ pc = "check" => charts = Content[Target]
    /\ outcome = "Succeeded" => Finished

Upgrading == Moved /\ Recorded /\ Stage

(***************************************************************************)
(* What is known of a component's Job and Helm release.  A component that  *)
(* the user may reconfigure never changes, one that is dropped does not    *)
(* come back.                                                              *)
(***************************************************************************)
Steady == \A c \in Reconfigured : \A v, w \in Versions :
    Content[v][c] # 0 /\ Content[w][c] # 0 => Content[v][c] = Content[w][c]
NotBack == \A c \in Charts : \A t \in 0..Len(Releases) : \A s \in 0..t : \A r \in 0..s :
    Content[At(r)][c] # 0 /\ Content[At(s)][c] = 0 => Content[At(t)][c] = 0

Never(c) == \A r \in 0..(release - 1) : Content[At(r)][c] = 0
Old(c) == Content[Prev][c]
New(c) == Content[Target][c]

\* The component as the release before left it.
Untouched(c) ==
    IF Old(c) # 0
    THEN /\ helm[c].content = Old(c) /\ helm[c].deployed /\ helm[c].revision > 0
         /\ Taken => snapshot.revision[c] = helm[c].revision
         /\ ~Taken /\ pc = "create" => draft.revision[c] = helm[c].revision
    ELSE Never(c) => helm[c].revision = 0

Waiting(c) ==
    /\ Untouched(c)
    /\ Old(c) # 0 => /\ job[c].content = Old(c)
                     /\ job[c].state \in {"complete", "gone"}
                     /\ Taken => ~job[c].late
    /\ Never(c) => job[c].state = "unnamed" /\ job[c].content = 0

\* Its Job has been replaced by one for the new content.
Changing(c) ==
    /\ charts[c] = New(c) /\ New(c) # 0 /\ New(c) # Old(c) /\ Taken
    /\ job[c].content = New(c) /\ job[c].state # "unnamed"
    /\ job[c].state = "pending" => Untouched(c)
    /\ job[c].state # "pending" => helm[c].content = New(c) /\ helm[c].revision > 0
    /\ job[c].state \in {"complete", "gone"} => helm[c].deployed

\* A component the user reconfigures has one content.
Repeating(c) ==
    /\ IF job[c].state = "unnamed"
       THEN job[c].content = 0 /\ helm[c].revision = 0
       ELSE \E v \in Versions : job[c].content = Content[v][c] /\ Content[v][c] # 0
    /\ job[c].state \in {"active", "complete", "gone"} => helm[c].revision > 0
    /\ helm[c].revision > 0 =>
         /\ helm[c].content = job[c].content
         /\ job[c].state # "active" => helm[c].deployed
    /\ Old(c) # 0 => helm[c].revision > 0 /\ helm[c].deployed

ComponentOK(c) == IF c \in Reconfigured THEN Repeating(c)
                  ELSE Waiting(c) \/ Changing(c)

Ready(c) == charts[c] # 0 =>
    /\ helm[c].content = charts[c] /\ helm[c].deployed /\ helm[c].revision > 0
    /\ c \notin Reconfigured => /\ job[c].content = charts[c]
                                /\ job[c].state \in {"complete", "gone"}

Installed ==
    /\ \A c \in Charts : ComponentOK(c)
    /\ pc = "check" => \A c \in Charts \ pairs : Ready(c)
    /\ outcome = "Succeeded" => \A c \in Charts : Ready(c)

-----------------------------------------------------------------------------
(* Single steps, by what they do to the records.                           *)

LEMMA ContentType ==
    ASSUME NEW v \in Versions
    PROVE  /\ Content[v] \in [Charts -> Contents]
           /\ \A c \in Charts : Content[v][c] \in Contents /\ Content[v][c] \in Nat
  <1>1. Content[v] \in [Charts -> Nat]
    BY ContentAssumption
  <1>2. \A c \in Charts : Content[v][c] \in Contents
    BY DEF Contents
  <1> QED  BY <1>1, <1>2

LEMMA TargetType ==
    ASSUME release \in 1..Len(Releases)
    PROVE  Target \in Versions
  BY ReleasesAssumption, ElementOfSeq DEF Target

LEMMA NoSnapshotType ==
    /\ NoSnapshot \in Snapshots /\ NoSnapshot.label = 0 /\ ~Exists(NoSnapshot)
    /\ NoSnapshot.source = 0 /\ NoSnapshot.content = NoCharts
    /\ NoSnapshot.revision = NoCharts
  <1>1. 0 \in 0..Len(Releases) /\ 0 \in Versions
    BY ReleasesAssumption, ContentAssumption, LenProperties
  <1>2. NoCharts \in [Charts -> Contents] /\ NoCharts \in [Charts -> Nat]
    BY DEF NoCharts, Contents
  <1> QED  BY <1>1, <1>2 DEF NoSnapshot, Snapshots, Exists

\* A Job and a Helm release after a step, field by field.
JobIs(c, st, co, la) ==
    /\ job' \in [Charts -> JobRecords]
    /\ \A d \in Charts \ {c} : job'[d] = job[d]
    /\ job'[c].state = st /\ job'[c].content = co /\ job'[c].late = la
HelmIs(c, co, re, de) ==
    /\ helm' \in [Charts -> HelmRecords]
    /\ \A d \in Charts \ {c} : helm'[d] = helm[d]
    /\ helm'[c].content = co /\ helm'[c].revision = re /\ helm'[c].deployed = de

LEMMA JobPatch ==
    ASSUME job \in [Charts -> JobRecords], NEW c \in Charts, NEW st \in JobStates,
           NEW la \in BOOLEAN,
           \/ job' = [job EXCEPT ![c].state = st, ![c].late = la]
           \/ job' = [job EXCEPT ![c].state = st] /\ job[c].late = la
    PROVE  JobIs(c, st, job[c].content, la)
  <1> DEFINE new == [state |-> st, content |-> job[c].content, late |-> la]
  <1>1. job[c] \in JobRecords
    OBVIOUS
  <1>2. new \in JobRecords
    BY <1>1 DEF JobRecords
  <1>3. job[c] = [state |-> job[c].state, content |-> job[c].content,
                  late |-> job[c].late]
    BY <1>1 DEF JobRecords
  <1>4. job' = [job EXCEPT ![c] = new]
    <2>1. CASE job' = [job EXCEPT ![c].state = st] /\ job[c].late = la
      <3>1. [job[c] EXCEPT !.state = st] = new
        BY <1>3, <2>1
      <3> QED  BY <2>1, <3>1
    <2>2. CASE job' = [job EXCEPT ![c].state = st, ![c].late = la]
      <3> DEFINE mid == [state |-> st, content |-> job[c].content,
                         late |-> job[c].late]
                 f == [job EXCEPT ![c] = mid]
      <3>1. [job[c] EXCEPT !.state = st] = mid
        BY <1>3
      <3>2. [job EXCEPT ![c].state = st] = f
        BY <3>1
      <3>3. job' = [f EXCEPT ![c].late = la]
        BY <2>2, <3>2
      <3>4. [mid EXCEPT !.late = la] = new
        OBVIOUS
      <3>5. f[c] = mid /\ job' = [f EXCEPT ![c] = [mid EXCEPT !.late = la]]
        BY <3>3
      <3> QED  BY <3>4, <3>5
    <2> QED  BY <2>1, <2>2
  <1>5. new.state = st /\ new.content = job[c].content /\ new.late = la
    OBVIOUS
  <1> HIDE DEF new
  <1> QED  BY <1>2, <1>4, <1>5 DEF JobIs

LEMMA Replaces ==
    ASSUME TypeOK, NEW c \in Charts, ReplaceJob(c)
    PROVE  /\ JobIs(c, "pending", charts[c], FALSE) /\ UNCHANGED <<charts, helm, reruns>>
           /\ charts[c] # 0 /\ job[c].content # charts[c]
  <1> DEFINE new == [state |-> "pending", content |-> charts[c], late |-> FALSE]
  <1>1. job' = [job EXCEPT ![c] = new] /\ job \in [Charts -> JobRecords]
    BY DEF ReplaceJob, TypeOK
  <1>2. new \in JobRecords
    BY DEF JobRecords, JobStates, TypeOK
  <1>3. new.state = "pending" /\ new.content = charts[c] /\ new.late = FALSE
    OBVIOUS
  <1> HIDE DEF new
  <1>4. JobIs(c, "pending", charts[c], FALSE)
    BY <1>1, <1>2, <1>3 DEF JobIs
  <1> QED  BY <1>4 DEF ReplaceJob

LEMMA Repeats ==
    ASSUME TypeOK, NEW c \in Charts, RepeatJob(c)
    PROVE  /\ JobIs(c, "pending", job[c].content, FALSE) /\ UNCHANGED <<charts, helm>>
           /\ c \in Reconfigured /\ job[c].state \in {"complete", "gone"}
  <1>1. /\ job' = [job EXCEPT ![c].state = "pending", ![c].late = FALSE]
        /\ job \in [Charts -> JobRecords] /\ "pending" \in JobStates
    BY DEF RepeatJob, TypeOK, JobStates
  <1>2. JobIs(c, "pending", job[c].content, FALSE)
    BY <1>1, JobPatch
  <1> QED  BY <1>2 DEF RepeatJob

LEMMA Started ==
    ASSUME TypeOK, NEW c \in Charts, StartJob(c)
    PROVE  /\ JobIs(c, "active", job[c].content, job[c].late)
           /\ HelmIs(c, job[c].content, helm[c].revision + 1,
                     helm[c].deployed /\ helm[c].content = job[c].content)
           /\ job[c].state = "pending" /\ UNCHANGED <<charts, reruns>>
  <1>0. job[c] \in JobRecords /\ helm[c] \in HelmRecords
    BY DEF TypeOK
  <1>1. /\ job' = [job EXCEPT ![c].state = "active"]
        /\ job \in [Charts -> JobRecords] /\ "active" \in JobStates
        /\ job[c].late \in BOOLEAN
    BY <1>0 DEF StartJob, TypeOK, JobStates, JobRecords
  <1>2. JobIs(c, "active", job[c].content, job[c].late)
    BY <1>1, JobPatch
  <1> DEFINE de == helm[c].deployed /\ helm[c].content = job[c].content
             new == [content |-> job[c].content, revision |-> helm[c].revision + 1,
                     deployed |-> de]
  <1>3. helm' = [helm EXCEPT ![c] = new] /\ helm \in [Charts -> HelmRecords]
    BY DEF StartJob, TypeOK
  <1>4. /\ job[c].content \in Contents /\ helm[c].revision \in Nat
        /\ helm[c].deployed \in BOOLEAN
    BY <1>0 DEF JobRecords, HelmRecords
  <1>5. de \in BOOLEAN
    OBVIOUS
  <1>6. new.content = job[c].content /\ new.revision = helm[c].revision + 1
        /\ new.deployed = de
    OBVIOUS
  <1> HIDE DEF de
  <1>7. new \in HelmRecords
    BY <1>4, <1>5 DEF HelmRecords
  <1> HIDE DEF new
  <1>8. HelmIs(c, job[c].content, helm[c].revision + 1, de)
    BY <1>3, <1>6, <1>7 DEF HelmIs
  <1> QED  BY <1>2, <1>8 DEF StartJob, de

LEMMA Completed ==
    ASSUME TypeOK, NEW c \in Charts, CompleteJob(c)
    PROVE  /\ JobIs(c, "complete", job[c].content, TRUE)
           /\ HelmIs(c, helm[c].content, helm[c].revision, TRUE)
           /\ job[c].state = "active" /\ UNCHANGED <<charts, reruns>>
  <1>1. /\ job' = [job EXCEPT ![c].state = "complete", ![c].late = TRUE]
        /\ job \in [Charts -> JobRecords] /\ "complete" \in JobStates
    BY DEF CompleteJob, TypeOK, JobStates
  <1>2. JobIs(c, "complete", job[c].content, TRUE)
    BY <1>1, JobPatch
  <1> DEFINE new == [content |-> helm[c].content, revision |-> helm[c].revision,
                     deployed |-> TRUE]
  <1>3. helm[c] \in HelmRecords /\ helm \in [Charts -> HelmRecords]
    BY DEF TypeOK
  <1>4. helm[c] = [content |-> helm[c].content, revision |-> helm[c].revision,
                   deployed |-> helm[c].deployed]
    BY <1>3 DEF HelmRecords
  <1>5. new \in HelmRecords
    BY <1>3 DEF HelmRecords
  <1>6. [helm[c] EXCEPT !.deployed = TRUE] = new
    <2>1. ASSUME NEW x
          PROVE  [helm[c] EXCEPT !.deployed = x] =
                   [content |-> helm[c].content, revision |-> helm[c].revision,
                    deployed |-> x]
      BY <1>4
    <2> QED  BY <2>1
  <1>7. helm' = [helm EXCEPT ![c] = new]
    BY <1>6 DEF CompleteJob
  <1>8. /\ new.content = helm[c].content /\ new.revision = helm[c].revision
        /\ new.deployed = TRUE
    OBVIOUS
  <1> HIDE DEF new
  <1>9. HelmIs(c, helm[c].content, helm[c].revision, TRUE)
    BY <1>3, <1>5, <1>7, <1>8 DEF HelmIs
  <1> QED  BY <1>2, <1>9 DEF CompleteJob

LEMMA Cleaned ==
    ASSUME TypeOK, NEW c \in Charts, CleanUpJob(c)
    PROVE  /\ JobIs(c, "gone", job[c].content, job[c].late)
           /\ UNCHANGED <<charts, helm, reruns>> /\ job[c].state = "complete"
  <1>0. job[c] \in JobRecords
    BY DEF TypeOK
  <1>1. /\ job' = [job EXCEPT ![c].state = "gone"]
        /\ job \in [Charts -> JobRecords] /\ "gone" \in JobStates
        /\ job[c].late \in BOOLEAN
    BY <1>0 DEF CleanUpJob, TypeOK, JobStates, JobRecords
  <1>2. JobIs(c, "gone", job[c].content, job[c].late)
    BY <1>1, JobPatch
  <1> QED  BY <1>2 DEF CleanUpJob

\* The snapshot is put together in three steps.
LEMMA Fields ==
    ASSUME NEW d \in Snapshots
    PROVE  /\ d = [label |-> d.label, source |-> d.source, content |-> d.content,
                   revision |-> d.revision]
           /\ d.label \in 0..Len(Releases) /\ d.source \in Versions
           /\ d.content \in [Charts -> Contents] /\ d.revision \in [Charts -> Nat]
  BY DEF Snapshots

LEMMA Sourced ==
    ASSUME NEW d \in Snapshots, NEW e, NEW v \in Versions, e = [d EXCEPT !.source = v]
    PROVE  /\ e \in Snapshots /\ e.source = v /\ e.label = d.label
           /\ e.content = d.content /\ e.revision = d.revision
  <1>1. e = [label |-> d.label, source |-> v, content |-> d.content,
             revision |-> d.revision]
    BY Fields
  <1> QED  BY <1>1, Fields DEF Snapshots

LEMMA Labelled ==
    ASSUME NEW d \in Snapshots, NEW e, NEW l \in 0..Len(Releases),
           e = [d EXCEPT !.label = l]
    PROVE  /\ e \in Snapshots /\ e.source = d.source /\ e.label = l
           /\ e.content = d.content /\ e.revision = d.revision
  <1>1. e = [label |-> l, source |-> d.source, content |-> d.content,
             revision |-> d.revision]
    BY Fields
  <1> QED  BY <1>1, Fields DEF Snapshots

LEMMA Reading ==
    ASSUME TypeOK, ReadVersion
    PROVE  /\ draft' \in Snapshots /\ \E n \in Nodes : draft'.source = kubelet[n]
  <1>1. PICK n \in Nodes : draft' = [draft EXCEPT !.source = kubelet[n]]
    BY DEF ReadVersion
  <1>2. kubelet[n] \in Versions /\ draft \in Snapshots
    BY DEF TypeOK
  <1> QED  BY <1>1, <1>2, Sourced

LEMMA Listing ==
    ASSUME TypeOK, ListCharts
    PROVE  /\ draft' \in Snapshots /\ draft'.source = draft.source
           /\ draft'.content = charts
           /\ \A c \in Charts : charts[c] # 0 => draft'.revision[c] = helm[c].revision
  <1> DEFINE re == [c \in Charts |-> IF charts[c] = 0 THEN 0 ELSE helm[c].revision]
  <1>1. draft' = [draft EXCEPT !.content = charts, !.revision = re]
    BY DEF ListCharts
  <1>2. charts \in [Charts -> Contents] /\ draft \in Snapshots
    BY DEF TypeOK
  <1>3. \A c \in Charts : helm[c].revision \in Nat
    BY DEF TypeOK, HelmRecords
  <1>4. re \in [Charts -> Nat]
    BY <1>3
  <1>5. \A c \in Charts : charts[c] # 0 => re[c] = helm[c].revision
    OBVIOUS
  <1> HIDE DEF re
  <1> DEFINE mid == [label |-> draft.label, source |-> draft.source,
                     content |-> charts, revision |-> draft.revision]
             new == [label |-> draft.label, source |-> draft.source,
                     content |-> charts, revision |-> re]
  <1>6. draft' = new
    <2>1. [draft EXCEPT !.content = charts] = mid
      BY <1>2, Fields
    <2>2. draft' = [[draft EXCEPT !.content = charts] EXCEPT !.revision = re]
      BY <1>1
    <2>3. draft' = [mid EXCEPT !.revision = re]
      BY <2>1, <2>2
    <2> QED  BY <2>3
  <1>7. new \in Snapshots
    BY <1>2, <1>4, Fields DEF Snapshots
  <1> QED  BY <1>5, <1>6, <1>7

LEMMA Creates ==
    ASSUME TypeOK, CreateSnapshot
    PROVE  /\ ~Exists(snapshot) /\ pc = "create"
           /\ snapshot' \in Snapshots /\ snapshot'.label = release
           /\ Exists(snapshot)'
           /\ snapshot'.source = draft.source /\ snapshot'.content = draft.content
           /\ snapshot'.revision = draft.revision
           /\ job' \in [Charts -> JobRecords]
           /\ \A c \in Charts : /\ job'[c].state = job[c].state
                                /\ job'[c].content = job[c].content
                                /\ ~job'[c].late
           /\ UNCHANGED <<release, wanted, server, kubelet, charts, helm>>
           /\ pc' \in {"plan", "idle"} /\ draft' = NoSnapshot
           /\ pairs' = pairs \/ pairs' = {}
           /\ outcome' = outcome \/ outcome' = "Error"
  <1>0. /\ release \in 0..Len(Releases) /\ draft \in Snapshots /\ release # 0
        /\ job \in [Charts -> JobRecords]
    BY ReleasesAssumption, LenProperties DEF TypeOK
  <1>1. /\ snapshot' = [draft EXCEPT !.label = release]
        /\ job' = [c \in Charts |-> [job[c] EXCEPT !.late = FALSE]]
    BY DEF CreateSnapshot
  <1>2. /\ snapshot' \in Snapshots /\ snapshot'.label = release
        /\ snapshot'.source = draft.source /\ snapshot'.content = draft.content
        /\ snapshot'.revision = draft.revision
    BY <1>0, <1>1, Labelled
  <1>3. ASSUME NEW c \in Charts
        PROVE  /\ job'[c] \in JobRecords
               /\ job'[c].state = job[c].state
               /\ job'[c].content = job[c].content
               /\ ~job'[c].late
    <2> DEFINE new == [state |-> job[c].state, content |-> job[c].content,
                       late |-> FALSE]
    <2>1. job[c] \in JobRecords
      BY <1>0
    <2>2. job[c] = [state |-> job[c].state, content |-> job[c].content,
                    late |-> job[c].late]
      BY <2>1 DEF JobRecords
    <2>3. ASSUME NEW x
          PROVE  [job[c] EXCEPT !.late = x] = [state |-> job[c].state,
                     content |-> job[c].content, late |-> x]
      BY <2>2
    <2>4. job'[c] = new
      BY <1>1, <2>3
    <2> QED  BY <2>1, <2>4 DEF JobRecords
  <1>4. job' \in [Charts -> JobRecords]
    BY <1>1, <1>3
  <1> QED  BY <1>0, <1>2, <1>3, <1>4 DEF CreateSnapshot, Step, Return, Exists, phaseVars,
             nodeVars

-----------------------------------------------------------------------------
(* Types.                                                                  *)

LEMMA TypeInit == Init => TypeOK
  <1> SUFFICES ASSUME Init PROVE TypeOK
    OBVIOUS
  <1>1. 0 \in Versions /\ 0 \in Contents
    BY ContentAssumption DEF Contents
  <1>2. release \in 1..Len(Releases)
    BY ReleasesAssumption, EmptySeq DEF Init
  <1>3. charts \in [Charts -> Contents] /\ kubelet \in [Nodes -> Versions]
    BY <1>1, ContentType DEF Init
  <1>4. job \in [Charts -> JobRecords]
    <2>1. PICK s \in [Charts -> {"complete", "gone"}] :
            job = [c \in Charts |->
                     [state   |-> IF charts[c] = 0 THEN "unnamed" ELSE s[c],
                      content |-> charts[c], late |-> FALSE]]
      BY DEF Init
    <2>2. \A c \in Charts : /\ (IF charts[c] = 0 THEN "unnamed" ELSE s[c]) \in JobStates
                            /\ charts[c] \in Contents
      BY <1>3 DEF JobStates
    <2> QED  BY <2>1, <2>2 DEF JobRecords
  <1>5. helm \in [Charts -> HelmRecords]
    <2>1. \A c \in Charts : /\ (IF charts[c] = 0 THEN 0 ELSE 1) \in Nat
                            /\ charts[c] \in Contents
                            /\ (charts[c] # 0) \in BOOLEAN
      BY <1>3
    <2> QED  BY <2>1 DEF Init, HelmRecords
  <1>6. /\ snapshot \in Snapshots /\ draft \in Snapshots /\ seen = FALSE
        /\ reruns \in 0..MaxReruns /\ faults \in 0..MaxFaults
    BY NoSnapshotType, ReleasesAssumption DEF Init
  <1> QED  BY <1>1, <1>2, <1>3, <1>4, <1>5, <1>6 DEF Init, TypeOK

\* The reconciler's steps keep the types.
LEMMA TypeReconcile == TypeOK /\ Reconcile => TypeOK'
  <1> SUFFICES ASSUME TypeOK, Reconcile PROVE TypeOK'
    OBVIOUS
  <1> USE DEF phaseVars, nodeVars, helmVars
  <1>1. CASE ReuseSnapshot \/ SnapshotNotFound
    BY <1>1 DEF ReuseSnapshot, SnapshotNotFound, Step, TypeOK, Exists
  <1>2. CASE DeleteSnapshot
    BY <1>2, NoSnapshotType DEF DeleteSnapshot, Deleted, Step, TypeOK
  <1>3. CASE ReadVersion
    BY <1>3, Reading DEF ReadVersion, Step, TypeOK, Exists
  <1>4. CASE ListCharts
    BY <1>4, Listing DEF ListCharts, Step, TypeOK, Exists
  <1>5. CASE CreateSnapshot
    <2>1. seen' \in BOOLEAN /\ pairs' = {} /\ UNCHANGED <<reruns, faults>>
      BY <1>5 DEF CreateSnapshot, Step, Return, TypeOK
    <2>2. pc' # "check"
      BY <1>5, Creates
    <2> QED  BY <1>5, <2>1, <2>2, Creates, NoSnapshotType DEF TypeOK
  <1>6. CASE SnapshotFails
    BY <1>6, NoSnapshotType DEF SnapshotFails, Return, TypeOK, Exists
  <1>7. CASE AwaitNodes
    BY <1>7, NoSnapshotType, TargetType DEF AwaitNodes, Return, TypeOK, Exists
  <1>8. CASE PlanFailed
    <2>1. faults' \in 0..MaxFaults
      BY <1>8, ReleasesAssumption DEF PlanFailed, TypeOK
    <2> QED  BY <1>8, <2>1, NoSnapshotType DEF PlanFailed, Return, TypeOK, Exists
  <1>9. CASE NodesDone
    BY <1>9, TargetType DEF NodesDone, Step, TypeOK, Exists
  <1>10. CASE NothingChanged
    BY <1>10, NoSnapshotType DEF NothingChanged, Return, TypeOK, Exists
  <1>11. CASE FindChanged
    <2>1. NewOrChanged \subseteq Charts /\ NewOrChanged # {}
      BY <1>11 DEF FindChanged, NewOrChanged, Components
    <2>2. \/ pc' = "idle" /\ pairs' = {} /\ draft' = NoSnapshot
             /\ outcome' = "InProgress"
          \/ pc' = "check" /\ pairs' = NewOrChanged /\ UNCHANGED <<draft, outcome>>
      BY <1>11 DEF FindChanged, Return
    <2>3. UNCHANGED <<release, wanted, server, kubelet, charts, job, helm, snapshot,
                      seen, reruns, faults>>
      BY <1>11 DEF FindChanged, Return
    <2> QED  BY <2>1, <2>2, <2>3, NoSnapshotType DEF TypeOK, Exists
  <1>12. ASSUME NEW c \in Charts, CheckJob(c) PROVE TypeOK'
    <2>1. \/ /\ pc' = "idle" /\ pairs' = {} /\ draft' = NoSnapshot
             /\ outcome' \in {"InProgress", "Succeeded"}
          \/ pc = "check" /\ pairs' = pairs \ {c} /\ pairs # {c} /\ c \in pairs
             /\ UNCHANGED <<pc, draft, outcome>>
      BY <1>12 DEF CheckJob, Return
    <2>2. UNCHANGED <<release, wanted, server, kubelet, charts, job, helm, snapshot,
                      seen, reruns, faults>>
      BY <1>12 DEF CheckJob, Return
    <2> QED  BY <2>1, <2>2, NoSnapshotType DEF TypeOK, Exists
  <1> QED  BY <1>1, <1>2, <1>3, <1>4, <1>5, <1>6, <1>7, <1>8, <1>9, <1>10, <1>11,
             <1>12 DEF Reconcile

\* So do those of RKE2 and the Helm Controller.
LEMMA TypeCluster == TypeOK /\ Cluster => TypeOK'
  <1> SUFFICES ASSUME TypeOK, Cluster PROVE TypeOK'
    OBVIOUS
  <1>0. UNCHANGED <<release, outcome, snapshot, seen, pc, draft, pairs, faults>>
    BY DEF Cluster, Outside, phaseVars, localVars
  <1>1. CASE /\ UpgradeServer \/ WriteCharts \/ \E n \in Nodes : NodeReports(n)
             /\ UNCHANGED reruns
    <2>1. charts' \in [Charts -> Contents]
      <3>1. CASE WriteCharts
        BY <3>1, ContentType DEF WriteCharts, TypeOK
      <3>2. CASE UpgradeServer \/ \E n \in Nodes : NodeReports(n)
        BY <3>2 DEF UpgradeServer, NodeReports, helmVars, TypeOK
      <3> QED  BY <1>1, <3>1, <3>2
    <2>2. /\ wanted' \in Versions /\ server' \in Versions
          /\ kubelet' \in [Nodes -> Versions]
      BY <1>1 DEF UpgradeServer, WriteCharts, NodeReports, nodeVars, TypeOK
    <2>3. UNCHANGED <<job, helm>>
      BY <1>1 DEF UpgradeServer, WriteCharts, NodeReports, helmVars
    <2> QED  BY <1>0, <1>1, <2>1, <2>2, <2>3 DEF TypeOK, Exists
  <1>2. ASSUME NEW c \in Charts, HelmController(c) \/ RepeatJob(c) \/ CleanUpJob(c),
               UNCHANGED nodeVars
        PROVE  TypeOK'
    <2>1. /\ job' \in [Charts -> JobRecords] /\ helm' \in [Charts -> HelmRecords]
          /\ charts' = charts
      <3>1. CASE ReplaceJob(c)
        BY <3>1, Replaces DEF JobIs, TypeOK
      <3>2. CASE StartJob(c)
        BY <3>2, Started DEF JobIs, HelmIs
      <3>3. CASE CompleteJob(c)
        BY <3>3, Completed DEF JobIs, HelmIs
      <3>4. CASE RepeatJob(c)
        BY <3>4, Repeats DEF JobIs, TypeOK
      <3>5. CASE CleanUpJob(c)
        BY <3>5, Cleaned DEF JobIs, TypeOK
      <3> QED  BY <1>2, <3>1, <3>2, <3>3, <3>4, <3>5 DEF HelmController
    <2>2. reruns' \in 0..MaxReruns
      BY <1>2, ReleasesAssumption DEF HelmController, ReplaceJob, StartJob, CompleteJob,
         RepeatJob, CleanUpJob, TypeOK
    <2> QED  BY <1>0, <1>2, <2>1, <2>2 DEF nodeVars, TypeOK, Exists
  <1> QED  BY <1>1, <1>2 DEF Cluster

LEMMA TypeNext == TypeOK /\ [Next]_vars => TypeOK'
  <1> SUFFICES ASSUME TypeOK, [Next]_vars PROVE TypeOK'
    OBVIOUS
  <1> USE DEF phaseVars, nodeVars, helmVars, localVars
  <1>1. CASE Interrupted
    <2>1. faults' \in 0..MaxFaults
      BY <1>1, ReleasesAssumption DEF Interrupted, TypeOK
    <2> QED  BY <1>1, <2>1, NoSnapshotType DEF Interrupted, Return, TypeOK, Exists
  <1>2. CASE NextRelease
    <2>1. release' \in 1..Len(Releases)
      BY <1>2, ReleasesAssumption, LenProperties DEF NextRelease, TypeOK
    <2> QED  BY <1>2, <2>1 DEF NextRelease, TypeOK, Exists
  <1>3. CASE CacheSync
    <2>1. Exists(snapshot) \in BOOLEAN
      BY DEF Exists
    <2>2. seen' = Exists(snapshot) /\ snapshot' = snapshot
      BY <1>3 DEF CacheSync
    <2>3. seen' \in BOOLEAN /\ (seen' => Exists(snapshot)')
      BY <2>1, <2>2 DEF Exists
    <2> QED  BY <1>3, <2>3 DEF CacheSync, TypeOK
  <1>4. CASE UNCHANGED vars
    BY <1>4 DEF vars, TypeOK, Exists
  <1> QED  BY <1>1, <1>2, <1>3, <1>4, TypeReconcile, TypeCluster DEF Next

\* The variables keep to their types; only components whose HelmChart was
\* found are waited for, and a cached snapshot is one that is there.
THEOREM TypeCorrect == Spec => []TypeOK
  BY TypeInit, TypeNext, PTL DEF Spec

-----------------------------------------------------------------------------
(* How an upgrade proceeds.                                                *)

LEMMA PrevType ==
    ASSUME TypeOK
    PROVE  Prev \in Versions /\ Target \in Versions
  <1>1. release \in 1..Len(Releases) /\ Len(Releases) \in Nat
    BY ReleasesAssumption, LenProperties DEF TypeOK
  <1>2. release - 1 = 0 \/ release - 1 \in 1..Len(Releases)
    BY <1>1
  <1> QED  BY <1>1, <1>2, TargetType, ContentAssumption, ReleasesAssumption,
             ElementOfSeq DEF Prev, At

\* The server is at the version all nodes have reported.
LEMMA AtTarget ==
    ASSUME Moved, AllAtTarget
    PROVE  server = Target
  BY DEF Moved, AllAtTarget, Nodes

\* The steps of the reconciler that only look.
Looking == UNCHANGED <<release, wanted, server, kubelet, charts, job, helm, snapshot>>

\* Kinds of steps, for what concerns the upgrade.
LEMMA Kinds ==
    ASSUME TypeOK, [Next]_vars
    PROVE  \/ Looking \/ AwaitNodes \/ NodesDone \/ DeleteSnapshot \/ CreateSnapshot
           \/ NextRelease \/ Cluster
  BY DEF Next, Reconcile, Looking, ReuseSnapshot, SnapshotNotFound, ReadVersion,
         ListCharts, SnapshotFails, PlanFailed, NothingChanged, FindChanged, CheckJob,
         Interrupted, CacheSync, vars, Step, Return, phaseVars, nodeVars, helmVars

\* The reconciler asks for the new version.
LEMMA Asks ==
    ASSUME AwaitNodes \/ NodesDone
    PROVE  /\ pc = "plan" /\ wanted' = Target
           /\ UNCHANGED <<release, server, kubelet, charts, job, helm, snapshot>>
  BY DEF AwaitNodes, NodesDone, Step, Return, phaseVars, helmVars

LEMMA ClusterFrame ==
    ASSUME Cluster
    PROVE  UNCHANGED <<release, outcome, wanted, snapshot, seen, pc, draft, pairs>>
  BY DEF Cluster, Outside, UpgradeServer, WriteCharts, NodeReports, phaseVars, localVars,
         nodeVars

\* RKE2 writes all charts of its version.
LEMMA Writes ==
    ASSUME Together, TypeOK, WriteCharts
    PROVE  charts' = Content[server] /\ charts # Content[server]
           /\ UNCHANGED <<wanted, server, kubelet, job, helm>>
  <1>1. charts' = [c \in Charts |-> Content[server][c]]
    BY DEF WriteCharts, Batches
  <1>2. Content[server] \in [Charts -> Nat]
    BY ContentAssumption DEF TypeOK
  <1> QED  BY <1>1, <1>2 DEF WriteCharts, nodeVars

\* Once all nodes are at the version, they stay; so do the charts.
LEMMA Stays ==
    ASSUME Together, TypeOK, Moved, Cluster, wanted = Target, AllAtTarget
    PROVE  /\ AllAtTarget' /\ wanted' = Target'
           /\ charts = Content[Target] => charts' = charts
  <1>0. server = Target /\ UNCHANGED <<release, wanted>>
    BY AtTarget, ClusterFrame
  <1>1. ~UpgradeServer
    BY <1>0 DEF UpgradeServer
  <1>2. \A n \in Nodes : ~NodeReports(n)
    BY <1>0 DEF NodeReports, AllAtTarget
  <1>3. CASE WriteCharts
    BY <1>0, <1>3, Writes DEF AllAtTarget, Target
  <1>4. CASE /\ \E c \in Charts : HelmController(c) \/ RepeatJob(c) \/ CleanUpJob(c)
             /\ UNCHANGED nodeVars
    <2>1. charts' = charts
      BY <1>4 DEF HelmController, ReplaceJob, StartJob, CompleteJob, RepeatJob,
         CleanUpJob
    <2> QED  BY <1>0, <1>4, <2>1 DEF nodeVars, AllAtTarget, Target
  <1> QED  BY <1>1, <1>2, <1>3, <1>4 DEF Cluster

\* The release that follows starts where this one ended.
LEMMA Admitted ==
    ASSUME ~AfterFailure, TypeOK, Upgrading, NextRelease
    PROVE  /\ release' = release + 1 /\ outcome' = "None" /\ outcome = "Succeeded"
           /\ pc = "idle" /\ pc' = "idle"
           /\ Finished /\ server = Target /\ Prev' = Target /\ ~Taken'
           /\ UNCHANGED <<wanted, server, kubelet, charts, job, helm, snapshot>>
  <1>1. /\ outcome = "Succeeded" /\ release' = release + 1 /\ outcome' = "None"
        /\ pc = "idle" /\ pc' = "idle"
        /\ UNCHANGED <<wanted, server, kubelet, charts, job, helm, snapshot>>
    BY DEF NextRelease, Replaced, nodeVars, helmVars, localVars
  <1>2. Finished /\ server = Target
    BY <1>1, AtTarget DEF Upgrading, Stage, Finished
  <1>3. release \in Nat /\ release # 0
    BY ReleasesAssumption, LenProperties DEF TypeOK
  <1>4. ~Taken'
    BY <1>1, <1>2, <1>3 DEF Finished, Taken
  <1>5. Prev' = Target
    BY <1>1, <1>3 DEF Prev, At, Target
  <1> QED  BY <1>1, <1>2, <1>4, <1>5

LEMMA MovedNext ==
    ASSUME ~AfterFailure, Together, TypeOK, Upgrading, [Next]_vars
    PROVE  Moved'
  <1>0. Moved
    BY DEF Upgrading
  <1>1. CASE Looking
    BY <1>0, <1>1 DEF Looking, Moved, Prev, Target, Taken
  <1>2. CASE AwaitNodes \/ NodesDone
    <2>1. Taken
      BY <1>2, Asks DEF Upgrading, Stage
    <2> QED  BY <1>0, <1>2, <2>1, Asks DEF Moved, Prev, Target, Taken
  <1>3. CASE DeleteSnapshot
    <2>1. /\ ~Taken
          /\ UNCHANGED <<release, wanted, server, kubelet, charts>>
      BY <1>3 DEF DeleteSnapshot, ForThisRelease, Taken, Step, phaseVars, nodeVars,
         helmVars
    <2> QED  BY <1>0, <2>1 DEF Moved, Prev, Target, Taken
  <1>4. CASE CreateSnapshot
    BY <1>0, <1>4, Creates DEF Moved, Prev, Target, Taken
  <1>5. CASE NextRelease
    <2>1. /\ wanted' = Prev' /\ server' = Prev' /\ charts' = Content[Prev']
          /\ \A n \in Nodes : kubelet'[n] = Prev'
      BY <1>5, Admitted DEF Finished, AllAtTarget
    <2> QED  BY <2>1 DEF Moved
  <1>6. CASE Cluster
    <2>0. UNCHANGED <<release, wanted, snapshot>>
      BY <1>6, ClusterFrame
    <2>1. CASE UpgradeServer
      BY <1>0, <2>0, <2>1 DEF UpgradeServer, helmVars, Moved, Prev, Target, Taken
    <2>2. CASE WriteCharts
      BY <1>0, <2>0, <2>2, Writes DEF Moved, Prev, Target, Taken
    <2>3. ASSUME NEW n \in Nodes, NodeReports(n) PROVE Moved'
      <3>1. \A m \in Nodes : kubelet'[m] \in {kubelet[m], server}
        BY <2>3 DEF NodeReports, TypeOK
      <3> QED  BY <1>0, <2>0, <2>3, <3>1 DEF NodeReports, helmVars, Moved, Prev, Target,
                  Taken
    <2>4. CASE /\ \E c \in Charts : HelmController(c) \/ RepeatJob(c) \/ CleanUpJob(c)
               /\ UNCHANGED nodeVars
      <3>1. charts' = charts
        BY <2>4 DEF HelmController, ReplaceJob, StartJob, CompleteJob, RepeatJob,
           CleanUpJob
      <3> QED  BY <1>0, <2>0, <2>4, <3>1 DEF nodeVars, Moved, Prev, Target, Taken
    <2> QED  BY <1>6, <2>1, <2>2, <2>3, <2>4 DEF Cluster
  <1> QED  BY <1>1, <1>2, <1>3, <1>4, <1>5, <1>6, Kinds

\* The snapshot, and the draft of one, show the version an upgrade starts from.
LEMMA RecordedNext ==
    ASSUME ~AfterFailure, TypeOK, Upgrading, [Next]_vars
    PROVE  Recorded'
  <1> USE DEF phaseVars, nodeVars, helmVars, localVars
  <1>0. Recorded /\ Moved
    BY DEF Upgrading
  <1>1. ASSUME ~Taken
        PROVE  /\ \A n \in Nodes : kubelet[n] = Prev
               /\ charts = Content[Prev]
    BY <1>0, <1>1 DEF Moved
  <1>2. CASE ReadVersion
    <2>1. \E n \in Nodes : draft'.source = kubelet[n]
      BY <1>2, Reading
    <2>2. UNCHANGED <<release, snapshot>> /\ pc' = "list"
      BY <1>2 DEF ReadVersion, Step
    <2> QED  BY <1>0, <1>1, <2>1, <2>2 DEF Recorded, Taken, Prev
  <1>3. CASE ListCharts
    <2>1. UNCHANGED <<release, snapshot>> /\ pc = "list" /\ pc' = "create"
      BY <1>3 DEF ListCharts, Step
    <2>2. draft'.source = draft.source /\ draft'.content = charts
      BY <1>3, Listing
    <2> QED  BY <1>0, <1>1, <2>1, <2>2 DEF Recorded, Taken, Prev
  <1>4. CASE CreateSnapshot
    <2>1. ~Taken
      BY <1>4, Creates DEF Exists, Taken, TypeOK
    <2>2. Taken' /\ Prev' = Prev
      BY <1>4, Creates DEF Taken, Prev
    <2> QED  BY <1>0, <1>4, <2>1, <2>2, Creates DEF Recorded
  <1>5. CASE DeleteSnapshot
    <2>1. ~Taken' /\ pc' = "version"
      BY <1>5, NoSnapshotType DEF DeleteSnapshot, Step, Taken, TypeOK
    <2> QED  BY <2>1 DEF Recorded
  <1>6. CASE NextRelease
    BY <1>6, Admitted DEF Recorded
  <1>7. CASE Cluster
    BY <1>0, <1>7, ClusterFrame DEF Recorded, Taken, Prev
  <1>8. CASE ~(\/ ReadVersion \/ ListCharts \/ CreateSnapshot \/ DeleteSnapshot
               \/ NextRelease \/ Cluster)
    <2>1. /\ UNCHANGED <<release, snapshot>>
          /\ pc' \notin {"list", "create"} \/ UNCHANGED <<pc, draft>>
      BY <1>8 DEF Next, Reconcile, ReuseSnapshot, SnapshotNotFound, SnapshotFails,
         AwaitNodes, PlanFailed, NodesDone, NothingChanged, FindChanged, CheckJob,
         Interrupted, CacheSync, vars, Step, Return
    <2> QED  BY <1>0, <2>1 DEF Recorded, Taken, Prev
  <1> QED  BY <1>2, <1>3, <1>4, <1>5, <1>6, <1>7, <1>8

\* A wait that finds nothing new to wait for ends it only in a release that
\* keeps the version.
LEMMA Unchanged ==
    ASSUME TypeOK, Upgrading, NothingChanged, outcome' = "Succeeded"
    PROVE  Finished /\ Prev = Target
  <1>1. pc = "find" /\ Target = snapshot.source
    BY DEF NothingChanged, Return, VersionUnchanged
  <1>2. Taken /\ wanted = Target /\ AllAtTarget
    BY <1>1 DEF Upgrading, Stage
  <1>3. Prev = Target
    BY <1>1, <1>2 DEF Upgrading, Recorded
  <1>4. charts = Content[Target]
    BY <1>2, <1>3 DEF Upgrading, Moved
  <1> QED  BY <1>2, <1>3, <1>4 DEF Finished

\* Components that are new or changed are those of the new version.
LEMMA Changed ==
    ASSUME TypeOK, Upgrading, FindChanged
    PROVE  charts = Content[Target]
  <1>1. /\ pc = "find" /\ NewOrChanged # {}
    BY DEF FindChanged
  <1>2. Taken /\ AllAtTarget
    BY <1>1 DEF Upgrading, Stage
  <1>3. snapshot.content = Content[Prev]
    BY <1>2 DEF Upgrading, Recorded
  <1>4. charts # Content[Prev]
    BY <1>1, <1>3 DEF NewOrChanged
  <1> QED  BY <1>2, <1>4, AtTarget DEF Upgrading, Moved

LEMMA StageNext ==
    ASSUME ~AfterFailure, Together, TypeOK, Upgrading, [Next]_vars
    PROVE  Stage'
  <1> USE DEF phaseVars, nodeVars, helmVars, localVars
  <1>0. Stage /\ Moved
    BY DEF Upgrading
  <1>1. CASE Cluster
    <2>1. UNCHANGED <<release, outcome, wanted, snapshot, pc>>
      BY <1>1, ClusterFrame
    <2>2. Taken' <=> Taken
      BY <2>1 DEF Taken
    <2>3. wanted = Target /\ AllAtTarget =>
            /\ wanted' = Target' /\ AllAtTarget' /\ Target' = Target
            /\ charts = Content[Target] => charts' = charts
      BY <1>0, <1>1, <2>1, Stays DEF Target
    <2> QED  BY <1>0, <2>1, <2>2, <2>3 DEF Stage, Finished
  <1>2. CASE NextRelease
    BY <1>2, Admitted DEF Stage
  <1>3. CASE CreateSnapshot
    <2>1. ~Taken /\ Taken'
      BY <1>3, Creates DEF Exists, Taken, TypeOK
    <2>2. outcome # "Succeeded"
      BY <1>0, <2>1 DEF Stage, Finished
    <2> QED  BY <1>3, <2>1, <2>2, Creates DEF Stage
  <1>4. CASE DeleteSnapshot
    <2>1. ~Taken /\ pc' = "version" /\ outcome' = outcome
      BY <1>4 DEF DeleteSnapshot, ForThisRelease, Step, Taken
    <2> QED  BY <1>0, <2>1 DEF Stage, Finished
  <1>5. CASE AwaitNodes
    BY <1>5 DEF AwaitNodes, Return, Stage
  <1>6. CASE NodesDone
    <2>1. /\ UNCHANGED <<release, outcome, kubelet, charts, snapshot>>
          /\ pc = "plan" /\ pc' = "find" /\ wanted' = Target /\ AllAtTarget
      BY <1>6 DEF NodesDone, Step
    <2> QED  BY <1>0, <2>1 DEF Stage, Finished, Taken, AllAtTarget, Target
  <1>7. CASE NothingChanged
    <2>1. /\ UNCHANGED <<release, wanted, kubelet, charts, snapshot>> /\ pc' = "idle"
      BY <1>7 DEF NothingChanged, Return
    <2>2. Finished' <=> Finished
      BY <2>1 DEF Finished, Taken, AllAtTarget, Target
    <2> QED  BY <1>7, <2>1, <2>2, Unchanged DEF Stage
  <1>8. CASE FindChanged
    <2>1. /\ UNCHANGED <<release, wanted, kubelet, charts, snapshot>> /\ pc = "find"
          /\ \/ pc' = "idle" /\ outcome' = "InProgress"
             \/ pc' = "check" /\ outcome' = outcome
      BY <1>8 DEF FindChanged, Return
    <2>2. /\ Finished' <=> Finished
          /\ AllAtTarget' <=> AllAtTarget
          /\ Taken' <=> Taken
          /\ Target' = Target
      BY <2>1 DEF Finished, Taken, AllAtTarget, Target
    <2>3. charts' = Content[Target]
      BY <1>8, <2>1, Changed
    <2> QED  BY <1>0, <2>1, <2>2, <2>3 DEF Stage
  <1>9. ASSUME NEW c \in Charts, CheckJob(c) PROVE Stage'
    <2>1. /\ UNCHANGED <<release, wanted, kubelet, charts, snapshot>> /\ pc = "check"
          /\ \/ pc' = "idle" /\ outcome' \in {"InProgress", "Succeeded"}
             \/ UNCHANGED <<pc, outcome>>
      BY <1>9 DEF CheckJob, Return
    <2>2. Finished
      BY <1>0, <2>1 DEF Stage, Finished
    <2>3. Finished'
      BY <2>1, <2>2 DEF Finished, Taken, AllAtTarget, Target
    <2> QED  BY <2>1, <2>3 DEF Stage, Finished
  <1>10. CASE ReuseSnapshot
    <2>1. /\ UNCHANGED <<release, outcome, wanted, kubelet, charts, snapshot>>
          /\ Taken /\ pc' = "plan"
      BY <1>10 DEF ReuseSnapshot, ForThisRelease, Step, Taken
    <2> QED  BY <1>0, <2>1 DEF Stage, Finished, Taken, AllAtTarget, Target
  <1>11. CASE SnapshotNotFound \/ ReadVersion \/ ListCharts \/ SnapshotFails
              \/ PlanFailed \/ Interrupted \/ CacheSync \/ UNCHANGED vars
    <2>1. /\ UNCHANGED <<release, wanted, kubelet, charts, snapshot>>
          /\ pc' \notin {"plan", "find", "check"} \/ UNCHANGED pc
          /\ outcome' \in {outcome, "Error", "Failed"}
      BY <1>11 DEF SnapshotNotFound, ReadVersion, ListCharts, SnapshotFails, PlanFailed,
         Interrupted, CacheSync, vars, Step, Return
    <2> QED  BY <1>0, <2>1 DEF Stage, Finished, Taken, AllAtTarget, Target
  <1> QED  BY <1>1, <1>2, <1>3, <1>4, <1>5, <1>6, <1>7, <1>8, <1>9, <1>10, <1>11
             DEF Next, Reconcile

LEMMA UpgradingInit == Init => Upgrading
  <1> SUFFICES ASSUME Init PROVE Upgrading
    OBVIOUS
  <1>1. Prev = 0 /\ ~Taken
    BY NoSnapshotType DEF Init, Prev, At, Taken
  <1>2. Moved
    BY <1>1 DEF Init, Moved
  <1>3. Recorded /\ Stage
    BY <1>1 DEF Init, Recorded, Stage
  <1> QED  BY <1>2, <1>3 DEF Upgrading

LEMMA UpgradingCorrect ==
    ASSUME ~AfterFailure, Together
    PROVE  Spec => [](TypeOK /\ Upgrading)
  <1>1. TypeOK /\ Upgrading /\ [Next]_vars => (TypeOK /\ Upgrading)'
    BY TypeNext, MovedNext, RecordedNext, StageNext DEF Upgrading
  <1> QED  BY <1>1, TypeInit, UpgradingInit, PTL DEF Spec

(***************************************************************************)
(* GenerateSnapshot comes before any upgrade: when the server changes its  *)
(* version, the snapshot is the one of the release, and shows the version  *)
(* and the charts the server then has.                                     *)
(***************************************************************************)
THEOREM SnapshotIsFirst ==
    ASSUME ~AfterFailure, Together
    PROVE  Spec => SnapshotFirst
  <1> DEFINE Step1 == server' # server =>
                 /\ snapshot.label = release
                 /\ snapshot.source = server /\ snapshot.content = charts
  <1>1. ASSUME TypeOK, Upgrading, [Next]_vars
        PROVE  Step1
    <2> SUFFICES ASSUME server' # server
                 PROVE  /\ snapshot.label = release
                        /\ snapshot.source = server /\ snapshot.content = charts
      OBVIOUS
    <2>1. CASE Looking \/ AwaitNodes \/ NodesDone \/ CreateSnapshot
      BY <1>1, <2>1, Asks, Creates DEF Looking
    <2>2. CASE NextRelease \/ DeleteSnapshot
      BY <2>2 DEF NextRelease, DeleteSnapshot, nodeVars
    <2>3. CASE Cluster
      <3>1. UpgradeServer
        BY <2>3 DEF Cluster, WriteCharts, NodeReports, nodeVars
      <3>2. server # wanted
        BY <3>1 DEF UpgradeServer
      <3>3. server = Prev /\ wanted # Prev /\ Taken /\ charts = Content[Prev]
        BY <1>1, <3>2 DEF Upgrading, Moved
      <3> QED  BY <1>1, <3>3 DEF Upgrading, Recorded, Taken
    <2> QED  BY <1>1, <2>1, <2>2, <2>3, Kinds
  <1>2. TypeOK /\ Upgrading /\ [Next]_vars => [Step1]_vars
    BY <1>1
  <1> HIDE DEF Step1
  <1>3. Spec => [][Step1]_vars
    BY <1>2, UpgradingCorrect, PTL DEF Spec
  <1> QED  BY <1>3 DEF SnapshotFirst, Step1

-----------------------------------------------------------------------------
(* What becomes of a component.                                            *)

LEMMA ComponentTypes ==
    ASSUME TypeOK, NEW c \in Charts
    PROVE  /\ helm[c].revision \in Nat /\ helm[c].deployed \in BOOLEAN
           /\ job[c].state \in JobStates /\ job[c].late \in BOOLEAN
  BY DEF TypeOK, HelmRecords, JobRecords

\* A chart that is not as before is of the new version.
LEMMA ChartMoved ==
    ASSUME Moved, NEW c \in Charts, charts[c] # Old(c)
    PROVE  charts = Content[server] /\ server = Target /\ Taken
  BY DEF Moved, Old

\* A component that is added was never there.
LEMMA Added ==
    ASSUME NotBack, TypeOK, NEW c \in Charts, Old(c) = 0, New(c) # 0
    PROVE  Never(c)
  <1>1. release \in 1..Len(Releases) /\ Len(Releases) \in Nat
    BY ReleasesAssumption, LenProperties DEF TypeOK
  <1>2. At(release) = Target
    BY <1>1 DEF At, Target
  <1> SUFFICES ASSUME NEW r \in 0..(release - 1), Content[At(r)][c] # 0
               PROVE  FALSE
    BY DEF Never
  <1>3. /\ release \in 0..Len(Releases) /\ release - 1 \in 0..release
        /\ r \in 0..(release - 1)
    BY <1>1
  <1> QED  BY <1>2, <1>3 DEF NotBack, Old, New, Prev

\* A component that an upgrade leaves alone stays installed.
LEMMA UnchangedReady ==
    ASSUME Steady, TypeOK, Upgrading, NEW c \in Charts, ComponentOK(c),
           charts[c] = Old(c)
    PROVE  Ready(c)
  <1> SUFFICES ASSUME Old(c) # 0 PROVE Ready(c)
    BY DEF Ready
  <1>1. CASE c \notin Reconfigured
    <2>1. Waiting(c)
      BY <1>1 DEF ComponentOK, Changing
    <2> QED  BY <1>1, <2>1 DEF Waiting, Untouched, Ready
  <1>2. CASE c \in Reconfigured
    <2>1. Repeating(c)
      BY <1>2 DEF ComponentOK
    <2>2. /\ helm[c].revision > 0 /\ helm[c].deployed
          /\ helm[c].content = job[c].content
      BY <2>1 DEF Repeating
    <2>3. helm[c].revision # 0
      BY <2>2, ComponentTypes
    <2>4. \E v \in Versions : job[c].content = Content[v][c] /\ Content[v][c] # 0
      BY <2>1, <2>3 DEF Repeating
    <2>5. job[c].content = Old(c)
      BY <1>2, <2>4, PrevType DEF Steady, Old
    <2> QED  BY <1>2, <2>2, <2>5 DEF Ready
  <1> QED  BY <1>1, <1>2

(***************************************************************************)
(* isHelmChartJobComplete is right: neither a Job from before the snapshot *)
(* nor a Helm release the snapshot has passes for the new one.             *)
(***************************************************************************)
LEMMA CompleteReady ==
    ASSUME Steady, NotBack, TypeOK, Upgrading, Taken, charts = Content[Target],
           NEW c \in Charts, ComponentOK(c), JobComplete(c)
    PROVE  Ready(c)
  <1> SUFFICES ASSUME charts[c] # 0, charts[c] # Old(c) PROVE Ready(c)
    BY UnchangedReady DEF Ready
  <1>0. /\ charts[c] = New(c) /\ New(c) # 0 /\ New(c) # Old(c)
        /\ snapshot.content[c] = Old(c)
    BY DEF New, Old, Upgrading, Recorded
  <1>1. helm[c].revision \in Nat
    BY ComponentTypes
  <1>2. CASE c \in Reconfigured
    <2>1. Repeating(c)
      BY <1>2 DEF ComponentOK
    <2>2. /\ job[c].state \in {"complete", "pending", "gone"}
          /\ helm[c].revision > 0
      BY <2>1 DEF JobComplete, CompletedLate, AdvancedPastSnapshot, Repeating
    <2>3. /\ helm[c].deployed /\ helm[c].content = job[c].content
          /\ \E v \in Versions : job[c].content = Content[v][c] /\ Content[v][c] # 0
      BY <2>1, <2>2 DEF Repeating
    <2>4. job[c].content = New(c)
      BY <1>0, <1>2, <2>3, PrevType DEF Steady, New
    <2> QED  BY <1>0, <1>2, <2>2, <2>3, <2>4 DEF Ready
  <1>3. CASE c \notin Reconfigured
    <2>1. ~(Untouched(c) /\ AdvancedPastSnapshot(c))
      <3> SUFFICES ASSUME Untouched(c), AdvancedPastSnapshot(c) PROVE FALSE
        OBVIOUS
      <3>1. CASE Old(c) # 0
        BY <1>0, <1>1, <3>1 DEF Untouched, AdvancedPastSnapshot
      <3>2. CASE Old(c) = 0
        <4>1. Never(c)
          BY <1>0, <3>2, Added
        <4> QED  BY <3>2, <4>1 DEF Untouched, AdvancedPastSnapshot
      <3> QED  BY <3>1, <3>2
    <2>2. ~Waiting(c)
      <3> SUFFICES ASSUME Waiting(c) PROVE FALSE
        OBVIOUS
      <3>1. ~CompletedLate(c)
        <4>1. CASE Old(c) # 0
          BY <4>1 DEF Waiting, CompletedLate
        <4>2. CASE Old(c) = 0
          BY <1>0, <4>2, Added DEF Waiting, CompletedLate
        <4> QED  BY <4>1, <4>2
      <3> QED  BY <2>1, <3>1 DEF Waiting, JobComplete
    <2>3. Changing(c)
      BY <1>3, <2>2 DEF ComponentOK
    <2>4. job[c].state \in {"complete", "gone"}
      BY <2>1, <2>3 DEF Changing, JobComplete, CompletedLate
    <2> QED  BY <1>0, <1>3, <2>3, <2>4 DEF Changing, Ready
  <1> QED  BY <1>2, <1>3

\* The Job of a component, after the step of any component.
JobSteps(c) == ReplaceJob(c) \/ StartJob(c) \/ CompleteJob(c) \/ RepeatJob(c)
                 \/ CleanUpJob(c)

LEMMA OtherJobs ==
    ASSUME TypeOK, NEW c \in Charts, NEW d \in Charts, JobSteps(d), c # d
    PROVE  job'[c] = job[c] /\ helm'[c] = helm[c] /\ charts' = charts
  BY Replaces, Started, Completed, Repeats, Cleaned DEF JobSteps, JobIs, HelmIs

\* A component stays installed until RKE2 changes its chart.
LEMMA ReadyStays ==
    ASSUME TypeOK, NEW c \in Charts, ComponentOK(c), Ready(c), NEW d \in Charts,
           JobSteps(d)
    PROVE  Ready(c)'
  <1>1. CASE c # d
    BY <1>1, OtherJobs DEF Ready
  <1>2. CASE c = d /\ charts[c] = 0
    BY <1>2, Replaces, Started, Completed, Repeats, Cleaned DEF JobSteps, Ready
  <1>3. CASE c = d /\ charts[c] # 0
    <2>0. /\ helm[c].content = charts[c] /\ helm[c].deployed /\ helm[c].revision > 0
          /\ job[c].content = charts[c] /\ helm[c].revision \in Nat
          /\ c \notin Reconfigured => job[c].state \in {"complete", "gone"}
      BY <1>3, ComponentTypes DEF Ready, ComponentOK, Repeating
    <2>1. CASE ReplaceJob(c)
      BY <2>0, <2>1, Replaces
    <2>2. CASE StartJob(c)
      <3>1. /\ helm'[c].content = charts[c] /\ helm'[c].revision = helm[c].revision + 1
            /\ helm'[c].deployed /\ charts' = charts /\ c \in Reconfigured
        BY <2>0, <2>2, Started DEF HelmIs
      <3> QED  BY <2>0, <3>1 DEF Ready
    <2>3. CASE CompleteJob(c)
      <3>1. /\ helm'[c].content = charts[c] /\ helm'[c].revision = helm[c].revision
            /\ helm'[c].deployed /\ charts' = charts /\ c \in Reconfigured
        BY <2>0, <2>3, Completed DEF HelmIs
      <3> QED  BY <2>0, <3>1 DEF Ready
    <2>4. CASE RepeatJob(c)
      BY <2>0, <2>4, Repeats DEF Ready
    <2>5. CASE CleanUpJob(c)
      BY <2>0, <2>5, Cleaned DEF Ready, JobIs
    <2> QED  BY <1>3, <2>1, <2>2, <2>3, <2>4, <2>5 DEF JobSteps
  <1> QED  BY <1>1, <1>2, <1>3

\* What the reconciler does to no component leaves each as it was.
LEMMA ComponentLooking ==
    ASSUME TypeOK, Upgrading, NEW c \in Charts, ComponentOK(c), [Next]_vars,
           \/ Looking \/ AwaitNodes \/ NodesDone \/ DeleteSnapshot
    PROVE  ComponentOK(c)'
  <1> USE DEF phaseVars, nodeVars, helmVars, localVars
  <1>1. UNCHANGED <<release, charts, job, helm>>
    BY Asks DEF Looking, DeleteSnapshot, Step
  <1>2. /\ Taken' <=> Taken
        /\ Taken => snapshot' = snapshot
    <2>1. CASE DeleteSnapshot
      BY <2>1, NoSnapshotType DEF DeleteSnapshot, ForThisRelease, Taken, Step, TypeOK
    <2>2. CASE ~DeleteSnapshot
      BY <2>2, Asks DEF Looking, Taken
    <2> QED  BY <2>1, <2>2
  <1>3. ~Taken /\ pc' = "create" /\ Old(c) # 0 =>
          \/ draft'.revision[c] = helm[c].revision
          \/ pc = "create" /\ draft' = draft
    <2>1. CASE ListCharts
      <3>1. ~Taken => charts = Content[Prev]
        BY DEF Upgrading, Moved
      <3> QED  BY <2>1, <3>1, Listing DEF Old
    <2>2. CASE Cluster
      BY <2>2, ClusterFrame
    <2>3. CASE ~ListCharts /\ ~Cluster
      <3>1. CASE CreateSnapshot
        BY <3>1, Creates
      <3>2. CASE ~CreateSnapshot
        BY <2>3, <3>2 DEF Next, Reconcile, ReuseSnapshot, SnapshotNotFound,
           DeleteSnapshot, ReadVersion, SnapshotFails, AwaitNodes, PlanFailed, NodesDone,
           NothingChanged, FindChanged, CheckJob, Interrupted, NextRelease, CacheSync,
           vars, Step, Return
      <3> QED  BY <3>1, <3>2
    <2> QED  BY <2>1, <2>2, <2>3
  <1>4. /\ Old(c)' = Old(c) /\ New(c)' = New(c)
        /\ Never(c)' <=> Never(c)
    BY <1>1 DEF Old, New, Never, Prev, Target
  <1>5. Untouched(c) => Untouched(c)'
    BY <1>1, <1>2, <1>3, <1>4 DEF Untouched
  <1>6. Waiting(c) => Waiting(c)'
    BY <1>1, <1>2, <1>4, <1>5 DEF Waiting
  <1>7. Changing(c) => Changing(c)'
    BY <1>1, <1>2, <1>4, <1>5 DEF Changing
  <1>8. Repeating(c) => Repeating(c)'
    BY <1>1, <1>4 DEF Repeating
  <1> QED  BY <1>6, <1>7, <1>8 DEF ComponentOK

\* The snapshot records each component as it is.
LEMMA ComponentCreate ==
    ASSUME TypeOK, Upgrading, NEW c \in Charts, ComponentOK(c), CreateSnapshot
    PROVE  ComponentOK(c)'
  <1>1. ~Taken /\ Taken'
    BY Creates DEF Exists, Taken, TypeOK
  <1>2. /\ UNCHANGED <<release, charts, helm>> /\ pc = "create"
        /\ snapshot'.revision = draft.revision
        /\ job'[c].state = job[c].state /\ job'[c].content = job[c].content
        /\ ~job'[c].late
    BY Creates
  <1>3. /\ Old(c)' = Old(c) /\ New(c)' = New(c)
        /\ Never(c)' <=> Never(c)
    BY <1>2 DEF Old, New, Never, Prev, Target
  <1>4. Waiting(c) => Waiting(c)'
    BY <1>1, <1>2, <1>3 DEF Waiting, Untouched
  <1>5. Repeating(c) => Repeating(c)'
    BY <1>2, <1>3 DEF Repeating
  <1> QED  BY <1>1, <1>4, <1>5 DEF ComponentOK, Changing

\* The next release finds each component installed, or never there.
LEMMA ComponentAdmitted ==
    ASSUME ~AfterFailure, TypeOK, Upgrading, NEW c \in Charts, ComponentOK(c),
           Ready(c), NextRelease
    PROVE  ComponentOK(c)'
  <1>1. /\ release' = release + 1 /\ pc' = "idle" /\ ~Taken'
        /\ UNCHANGED <<charts, helm, job>> /\ Prev' = Target
        /\ charts = Content[Target]
    BY Admitted DEF Finished
  <1>2. Old(c)' = charts[c] /\ New(c) = charts[c]
    BY <1>1 DEF Old, New
  <1>3. Never(c)' => Never(c) /\ New(c) = 0 /\ Old(c) = 0
    <2>1. release \in Nat /\ release # 0
      BY ReleasesAssumption, LenProperties DEF TypeOK
    <2>2. /\ 0..(release - 1) \subseteq 0..(release' - 1) /\ release \in 0..(release' - 1)
          /\ release - 1 \in 0..(release' - 1)
      BY <1>1, <2>1
    <2>3. At(release) = Target
      BY <2>1 DEF At, Target
    <2> QED  BY <2>2, <2>3 DEF Never, New, Old, Prev
  <1>4. CASE c \in Reconfigured
    <2>1. Repeating(c)
      BY <1>4 DEF ComponentOK
    <2>2. Old(c)' # 0 => helm[c].revision > 0 /\ helm[c].deployed
      BY <1>2 DEF Ready
    <2> QED  BY <1>1, <1>4, <2>1, <2>2 DEF Repeating, ComponentOK
  <1>5. CASE c \notin Reconfigured
    <2>1. CASE charts[c] # 0
      <3>1. Untouched(c)'
        BY <1>1, <1>2, <2>1 DEF Ready, Untouched
      <3>2. ~Never(c)'
        BY <1>2, <1>3, <2>1
      <3>3. Waiting(c)'
        BY <1>1, <1>2, <1>5, <2>1, <3>1, <3>2 DEF Ready, Waiting
      <3> QED  BY <1>5, <3>3 DEF ComponentOK
    <2>2. CASE charts[c] = 0
      <3>1. Waiting(c)
        BY <1>2, <1>5, <2>2 DEF ComponentOK, Changing
      <3>2. Never(c)' => /\ helm[c].revision = 0
                         /\ job[c].state = "unnamed" /\ job[c].content = 0
        BY <1>3, <3>1 DEF Waiting, Untouched
      <3>3. Waiting(c)'
        BY <1>1, <1>2, <2>2, <3>2 DEF Waiting, Untouched
      <3> QED  BY <1>5, <3>3 DEF ComponentOK
    <2> QED  BY <2>1, <2>2
  <1> QED  BY <1>4, <1>5

\* A step of the Helm Controller on a component that is not reconfigured.
LEMMA ComponentJob ==
    ASSUME TypeOK, Upgrading, NEW c \in Charts, c \notin Reconfigured,
           ComponentOK(c), JobSteps(c),
           UNCHANGED <<release, snapshot, pc, draft>>
    PROVE  ComponentOK(c)'
  <1>0. /\ Waiting(c) \/ Changing(c)
        /\ helm[c].revision \in Nat /\ Moved
    BY ComponentTypes DEF ComponentOK, Upgrading
  <1>1. /\ Old(c)' = Old(c) /\ New(c)' = New(c)
        /\ Never(c)' <=> Never(c)
        /\ Taken' <=> Taken
    BY DEF Old, New, Never, Prev, Target, Taken
  <1>2. helm' = helm => (Untouched(c)' <=> Untouched(c))
    BY <1>1 DEF Untouched
  <1>4. CASE ReplaceJob(c)
    <2>1. /\ job'[c].state = "pending" /\ job'[c].content = charts[c]
          /\ charts[c] # 0 /\ job[c].content # charts[c] /\ UNCHANGED <<charts, helm>>
      BY <1>4, Replaces DEF JobIs
    <2>2. Waiting(c)
      BY <1>0, <2>1 DEF Changing
    <2>3. charts[c] # Old(c)
      BY <2>1, <2>2 DEF Waiting
    <2>4. charts[c] = New(c) /\ Taken
      BY <1>0, <2>3, ChartMoved DEF New
    <2>5. Changing(c)'
      BY <1>1, <1>2, <2>1, <2>2, <2>3, <2>4 DEF Waiting, Changing
    <2> QED  BY <2>5 DEF ComponentOK
  <1>5. CASE StartJob(c)
    <2>1. /\ job[c].state = "pending" /\ job'[c].state = "active"
          /\ job'[c].content = job[c].content /\ helm'[c].content = job[c].content
          /\ helm'[c].revision = helm[c].revision + 1 /\ charts' = charts
      BY <1>5, Started DEF JobIs, HelmIs
    <2>2. Waiting(c) => Waiting(c)'
      BY <1>1, <2>1 DEF Waiting, Untouched
    <2>3. Changing(c) => Changing(c)'
      BY <1>0, <1>1, <2>1 DEF Changing
    <2> QED  BY <1>0, <2>2, <2>3 DEF ComponentOK
  <1>6. CASE CompleteJob(c)
    <2>1. /\ job[c].state = "active" /\ job'[c].state = "complete"
          /\ job'[c].content = job[c].content /\ helm'[c].content = helm[c].content
          /\ helm'[c].revision = helm[c].revision /\ charts' = charts
          /\ helm'[c].deployed
      BY <1>6, Completed DEF JobIs, HelmIs
    <2>2. Waiting(c) => Waiting(c)'
      BY <1>1, <2>1 DEF Waiting, Untouched
    <2>3. Changing(c) => Changing(c)'
      BY <1>0, <1>1, <2>1 DEF Changing
    <2> QED  BY <1>0, <2>2, <2>3 DEF ComponentOK
  <1>7. CASE CleanUpJob(c)
    <2>1. /\ job[c].state = "complete" /\ job'[c].state = "gone"
          /\ job'[c].content = job[c].content /\ job'[c].late = job[c].late
          /\ UNCHANGED <<helm, charts>>
      BY <1>7, Cleaned DEF JobIs
    <2>2. Waiting(c) => Waiting(c)'
      BY <1>1, <1>2, <2>1 DEF Waiting
    <2>3. Changing(c) => Changing(c)'
      BY <1>0, <1>1, <2>1 DEF Changing
    <2> QED  BY <1>0, <2>2, <2>3 DEF ComponentOK
  <1>8. ~RepeatJob(c)
    BY DEF RepeatJob
  <1> QED  BY <1>4, <1>5, <1>6, <1>7, <1>8 DEF JobSteps

\* The same for one that is: a repeated Job installs what was installed.
LEMMA ComponentRepeat ==
    ASSUME Steady, TypeOK, Upgrading, NEW c \in Charts, c \in Reconfigured,
           ComponentOK(c), JobSteps(c),
           UNCHANGED <<release, snapshot, pc, draft>>
    PROVE  ComponentOK(c)'
  <1>0. /\ Repeating(c) /\ helm[c].revision \in Nat
        /\ helm[c].revision > 0 <=> helm[c].revision # 0
        /\ Old(c)' = Old(c)
    BY ComponentTypes DEF ComponentOK, Old, Prev
  <1>1. CASE ReplaceJob(c)
    <2>1. /\ job'[c].state = "pending" /\ job'[c].content = charts[c]
          /\ charts[c] # 0 /\ job[c].content # charts[c] /\ UNCHANGED <<charts, helm>>
      BY <1>1, Replaces DEF JobIs
    <2>2. \E w \in Versions : charts[c] = Content[w][c]
      BY PrevType DEF Upgrading, Moved, TypeOK
    <2>3. job[c].state = "unnamed"
      BY <1>0, <2>1, <2>2 DEF Repeating, Steady
    <2> QED  BY <1>0, <2>1, <2>2, <2>3 DEF Repeating, ComponentOK
  <1>2. CASE RepeatJob(c)
    <2>1. /\ job'[c].state = "pending" /\ job'[c].content = job[c].content
          /\ job[c].state \in {"complete", "gone"} /\ UNCHANGED <<charts, helm>>
      BY <1>2, Repeats DEF JobIs
    <2> QED  BY <1>0, <2>1 DEF Repeating, ComponentOK
  <1>3. CASE StartJob(c)
    <2>1. /\ job[c].state = "pending" /\ job'[c].state = "active"
          /\ job'[c].content = job[c].content /\ helm'[c].content = job[c].content
          /\ helm'[c].revision = helm[c].revision + 1
          /\ helm[c].deployed /\ helm[c].content = job[c].content => helm'[c].deployed
      BY <1>3, Started DEF JobIs, HelmIs
    <2> QED  BY <1>0, <2>1 DEF Repeating, ComponentOK
  <1>4. CASE CompleteJob(c)
    <2>1. /\ job[c].state = "active" /\ job'[c].state = "complete"
          /\ job'[c].content = job[c].content /\ helm'[c].content = helm[c].content
          /\ helm'[c].revision = helm[c].revision /\ helm'[c].deployed
      BY <1>4, Completed DEF JobIs, HelmIs
    <2> QED  BY <1>0, <2>1 DEF Repeating, ComponentOK
  <1>5. CASE CleanUpJob(c)
    <2>1. /\ job[c].state = "complete" /\ job'[c].state = "gone"
          /\ job'[c].content = job[c].content /\ helm' = helm
      BY <1>5, Cleaned DEF JobIs
    <2> QED  BY <1>0, <2>1 DEF Repeating, ComponentOK
  <1> QED  BY <1>1, <1>2, <1>3, <1>4, <1>5 DEF JobSteps

\* What happens outside of the reconciler is a step of one Job or of none.
LEMMA ClusterKinds ==
    ASSUME Cluster
    PROVE  \/ WriteCharts
           \/ UNCHANGED <<charts, job, helm>>
           \/ (\E d \in Charts : JobSteps(d)) /\ charts' = charts
  BY DEF Cluster, UpgradeServer, NodeReports, HelmController, JobSteps, ReplaceJob,
         StartJob, CompleteJob, RepeatJob, CleanUpJob, helmVars

LEMMA ComponentCluster ==
    ASSUME Together, Steady, TypeOK, Upgrading, NEW c \in Charts, ComponentOK(c),
           Cluster
    PROVE  ComponentOK(c)'
  <1>0. UNCHANGED <<release, snapshot, pc, draft>>
    BY ClusterFrame
  <1>1. /\ Old(c)' = Old(c) /\ New(c)' = New(c)
        /\ Never(c)' <=> Never(c)
        /\ Taken' <=> Taken
    BY <1>0 DEF Old, New, Never, Prev, Target, Taken
  <1>2. ASSUME job'[c] = job[c], helm'[c] = helm[c], Changing(c) => charts'[c] = charts[c]
        PROVE  ComponentOK(c)'
    <2>1. Untouched(c)' <=> Untouched(c)
      BY <1>0, <1>1, <1>2 DEF Untouched
    <2>2. Waiting(c) => Waiting(c)'
      BY <1>1, <1>2, <2>1 DEF Waiting
    <2>3. Changing(c) => Changing(c)'
      BY <1>1, <1>2, <2>1 DEF Changing
    <2>4. Repeating(c) => Repeating(c)'
      BY <1>1, <1>2 DEF Repeating
    <2> QED  BY <2>2, <2>3, <2>4 DEF ComponentOK
  <1>3. CASE WriteCharts
    <2>1. charts # Content[server] /\ UNCHANGED <<job, helm>>
      BY <1>3, Writes
    <2>2. ~Changing(c)
      BY <2>1, ChartMoved DEF Changing, Upgrading
    <2> QED  BY <1>2, <2>1, <2>2
  <1>4. CASE UNCHANGED <<charts, job, helm>>
    BY <1>2, <1>4
  <1>5. ASSUME NEW d \in Charts, JobSteps(d), charts' = charts
        PROVE  ComponentOK(c)'
    <2>1. CASE c # d
      BY <1>2, <1>5, <2>1, OtherJobs
    <2>2. CASE c = d
      BY <1>0, <1>5, <2>2, ComponentJob, ComponentRepeat
    <2> QED  BY <2>1, <2>2
  <1> QED  BY <1>3, <1>4, <1>5, ClusterKinds

LEMMA ComponentNext ==
    ASSUME ~AfterFailure, Together, Steady, TypeOK, Upgrading, Installed, [Next]_vars,
           NEW c \in Charts
    PROVE  ComponentOK(c)'
  <1>1. ComponentOK(c)
    BY DEF Installed
  <1>2. CASE NextRelease
    <2>1. Ready(c)
      BY <1>2, Admitted DEF Installed
    <2> QED  BY <1>1, <1>2, <2>1, ComponentAdmitted
  <1> QED  BY <1>1, <1>2, Kinds, ComponentLooking, ComponentCreate, ComponentCluster

\* A reconcile that succeeds leaves every component installed.
LEMMA AllReady ==
    ASSUME Steady, NotBack, TypeOK, Upgrading, Installed,
           \/ NothingChanged /\ outcome' = "Succeeded"
           \/ \E c \in Charts : CheckJob(c) /\ pairs = {c} /\ JobComplete(c)
    PROVE  Finished /\ \A c \in Charts : Ready(c)
  <1>0. \A c \in Charts : ComponentOK(c)
    BY DEF Installed
  <1>1. CASE NothingChanged /\ outcome' = "Succeeded"
    <2>1. Finished /\ Prev = Target
      BY <1>1, Unchanged
    <2>2. \A c \in Charts : charts[c] = Old(c)
      BY <2>1 DEF Finished, Old
    <2> QED  BY <1>0, <2>1, <2>2, UnchangedReady
  <1>2. ASSUME NEW c \in Charts, CheckJob(c), pairs = {c}, JobComplete(c)
        PROVE  Finished /\ \A d \in Charts : Ready(d)
    <2>1. pc = "check"
      BY <1>2 DEF CheckJob
    <2>2. Finished
      BY <2>1 DEF Upgrading, Stage, Finished
    <2>3. Ready(c)
      BY <1>0, <1>2, <2>2, CompleteReady DEF Finished
    <2> QED  BY <1>2, <2>1, <2>2, <2>3 DEF Installed
  <1> QED  BY <1>1, <1>2

\* A step that ends with success is one of the two that AllReady is about.
LEMMA Succeeding ==
    ASSUME TypeOK, [Next]_vars, outcome' = "Succeeded"
    PROVE  \/ outcome' = outcome /\ (pc' = "idle" => pc = "idle")
           \/ NothingChanged
           \/ \E c \in Charts : CheckJob(c) /\ pairs = {c} /\ JobComplete(c)
  <1>1. ASSUME NEW c \in Charts, CheckJob(c)
        PROVE  \/ outcome' = outcome /\ (pc' = "idle" => pc = "idle")
               \/ CheckJob(c) /\ pairs = {c} /\ JobComplete(c)
    BY <1>1 DEF CheckJob, Return, phaseVars
  <1>2. CASE Cluster
    BY <1>2, ClusterFrame
  <1>3. CASE CreateSnapshot
    BY <1>3 DEF CreateSnapshot, Step, Return, phaseVars
  <1>4. CASE ~(\E c \in Charts : CheckJob(c)) /\ ~Cluster /\ ~NothingChanged
             /\ ~CreateSnapshot
    BY <1>4 DEF Next, Reconcile, ReuseSnapshot, SnapshotNotFound, DeleteSnapshot,
       ReadVersion, ListCharts, SnapshotFails, AwaitNodes, PlanFailed, NodesDone,
       FindChanged, Interrupted, NextRelease, CacheSync, vars, Step, Return, phaseVars,
       localVars
  <1> QED  BY <1>1, <1>2, <1>3, <1>4

LEMMA InstalledNext ==
    ASSUME ~AfterFailure, Together, Steady, NotBack, TypeOK, Upgrading, Installed,
           [Next]_vars
    PROVE  Installed'
  <1> USE DEF phaseVars, nodeVars, helmVars, localVars
  <1>0. \A c \in Charts : ComponentOK(c) /\ ComponentOK(c)'
    BY ComponentNext DEF Installed
  <1> SUFFICES /\ pc' = "check" => \A c \in Charts \ pairs' : Ready(c)'
               /\ outcome' = "Succeeded" => \A c \in Charts : Ready(c)'
    BY <1>0 DEF Installed
  <1>1. CASE Cluster
    <2>1. UNCHANGED <<outcome, pc, pairs>>
      BY <1>1, ClusterFrame
    <2>2. ASSUME pc = "check" \/ outcome = "Succeeded", NEW c \in Charts, Ready(c)
          PROVE  Ready(c)'
      <3>1. AllAtTarget /\ charts = Content[Target] /\ Moved
        BY <2>2 DEF Upgrading, Stage, Finished
      <3>2. ~WriteCharts
        BY <3>1, AtTarget DEF WriteCharts
      <3>3. CASE UNCHANGED <<charts, job, helm>>
        BY <2>2, <3>3 DEF Ready
      <3>4. ASSUME NEW d \in Charts, JobSteps(d) PROVE Ready(c)'
        BY <1>0, <2>2, <3>4, ReadyStays
      <3> QED  BY <1>1, <3>2, <3>3, <3>4, ClusterKinds
    <2> QED  BY <2>1, <2>2 DEF Installed
  <1>2. CASE NextRelease
    BY <1>2, Admitted
  <1>3. CASE CreateSnapshot
    <2>1. ~Taken
      BY <1>3, Creates DEF Exists, Taken, TypeOK
    <2>2. outcome # "Succeeded"
      BY <2>1 DEF Upgrading, Stage, Finished
    <2> QED  BY <1>3, <2>2, Creates
  <1>4. CASE ~Cluster /\ ~NextRelease /\ ~CreateSnapshot
    <2>1. UNCHANGED <<charts, job, helm>>
      BY <1>4, Kinds, Asks DEF Looking, DeleteSnapshot
    <2>2. \A c \in Charts : Ready(c)' <=> Ready(c)
      BY <2>1 DEF Ready
    <2>3. outcome' = "Succeeded" => \A c \in Charts : Ready(c)
      BY Succeeding, AllReady DEF Installed
    <2>4. CASE FindChanged
      <3> SUFFICES ASSUME pc' = "check", NEW c \in Charts \ pairs' PROVE Ready(c)
        BY <2>2, <2>3
      <3>1. pairs' = NewOrChanged /\ pc = "find"
        BY <2>4 DEF FindChanged, Return
      <3>2. snapshot.content = Content[Prev]
        BY <3>1 DEF Upgrading, Stage, Recorded
      <3>3. charts[c] = 0 \/ charts[c] = Old(c)
        BY <3>1, <3>2 DEF NewOrChanged, Components, Old
      <3> QED  BY <1>0, <3>3, UnchangedReady DEF Ready
    <2>5. ASSUME NEW d \in Charts, CheckJob(d), pc' = "check"
          PROVE  \A c \in Charts \ pairs' : Ready(c)
      <3>1. pairs' = pairs \ {d} /\ JobComplete(d) /\ pc = "check"
        BY <2>5 DEF CheckJob, Return
      <3>2. Taken /\ charts = Content[Target]
        BY <3>1 DEF Upgrading, Stage
      <3>3. Ready(d)
        BY <1>0, <3>1, <3>2, CompleteReady
      <3> QED  BY <3>1, <3>3 DEF Installed
    <2>6. CASE ~FindChanged /\ ~(\E d \in Charts : CheckJob(d))
      <3>1. pc' = "check" => UNCHANGED <<pc, pairs>>
        BY <1>4, <2>6 DEF Next, Reconcile, ReuseSnapshot, SnapshotNotFound,
           DeleteSnapshot, ReadVersion, ListCharts, SnapshotFails, AwaitNodes,
           PlanFailed, NodesDone, NothingChanged, Interrupted, CacheSync, vars, Step,
           Return
      <3> QED  BY <2>2, <2>3, <3>1 DEF Installed
    <2> QED  BY <2>2, <2>3, <2>4, <2>5, <2>6
  <1> QED  BY <1>1, <1>2, <1>3, <1>4

\* A cluster starts with the components of its version installed.
LEMMA InstalledInit == Init => Installed
  <1> SUFFICES ASSUME Init PROVE Installed
    OBVIOUS
  <1>1. Prev = 0 /\ ~Taken
    BY NoSnapshotType DEF Init, Prev, At, Taken
  <1>2. ASSUME NEW c \in Charts PROVE ComponentOK(c)
    <2>1. /\ Old(c) = charts[c] /\ pc = "idle" /\ 0 \in Versions
          /\ charts[c] = Content[0][c]
      BY <1>1, ContentAssumption DEF Init, Old
    <2>2. /\ helm[c].content = charts[c]
          /\ helm[c].revision = IF charts[c] = 0 THEN 0 ELSE 1
          /\ charts[c] # 0 => helm[c].deployed
      BY DEF Init
    <2>3. /\ job[c].content = charts[c]
          /\ charts[c] = 0 => job[c].state = "unnamed"
          /\ charts[c] # 0 => job[c].state \in {"complete", "gone"}
      BY DEF Init
    <2>4. release = 1
      BY DEF Init
    <2>5. Never(c) => charts[c] = 0
      BY <1>1, <2>1, <2>4 DEF Never, At
    <2>6. Untouched(c)
      BY <1>1, <2>1, <2>2 DEF Untouched
    <2>7. Waiting(c)
      BY <1>1, <2>1, <2>3, <2>5, <2>6 DEF Waiting
    <2>8. Repeating(c)
      BY <2>1, <2>2, <2>3 DEF Repeating
    <2> QED  BY <2>7, <2>8 DEF ComponentOK
  <1>3. pc = "idle" /\ outcome = "None"
    BY DEF Init
  <1> QED  BY <1>2, <1>3 DEF Installed

(***************************************************************************)
(* ReconcileAvailability lets the phase succeed only when every packaged   *)
(* component of the version is there and was installed by its own Job, and *)
(* all nodes are at the version.                                           *)
(***************************************************************************)
THEOREM ComponentsAreHonest ==
    ASSUME ~AfterFailure, Together, Steady, NotBack
    PROVE  Spec => ComponentsHonest
  <1> DEFINE IInv == TypeOK /\ Upgrading /\ Installed
             Step1 == pc # "idle" /\ pc' = "idle" /\ outcome' = "Succeeded"
                         => Available(Target) /\ AllAtTarget
  <1>1. Init => IInv
    BY TypeInit, UpgradingInit, InstalledInit
  <1>2. IInv /\ [Next]_vars => IInv'
    BY TypeNext, MovedNext, RecordedNext, StageNext, InstalledNext DEF Upgrading
  <1>3. ASSUME IInv, [Next]_vars PROVE Step1
    <2> SUFFICES ASSUME pc # "idle", pc' = "idle", outcome' = "Succeeded"
                 PROVE  Available(Target) /\ AllAtTarget
      OBVIOUS
    <2>1. Finished /\ \A c \in Charts : Ready(c)
      BY <1>3, Succeeding, AllReady
    <2> QED  BY <2>1 DEF Finished, Ready, Available, Components
  <1>4. IInv /\ [Next]_vars => [Step1]_vars
    BY <1>3
  <1> HIDE DEF IInv, Step1
  <1>5. Spec => [][Step1]_vars
    BY <1>1, <1>2, <1>4, PTL DEF Spec
  <1> QED  BY <1>5 DEF ComponentsHonest, Step1
=============================================================================
