------------------------ MODULE StagedUpgradeProofs ------------------------
(***************************************************************************)
(* ReleaseController implements StagedUpgrade, for every number of phases, *)
(* every set of specs and every bound; and what its steps never do: admit  *)
(* an edit in the middle of an upgrade, lower the version they read.       *)
(***************************************************************************)
EXTENDS ReleaseControllerProofs

-----------------------------------------------------------------------------
(***************************************************************************)
(* The invariant.  An edit is admitted on what the stored status says of   *)
(* the generation it has observed.  That this is the latest one, if the    *)
(* latest was started, holds because a stage is only asked for a           *)
(* generation that the cached status has observed, and neither the cache   *)
(* nor the reconciler ever goes back to an older generation.               *)
(***************************************************************************)
Observed ==
    /\ cached.status.observed <= status.observed /\ status.observed <= gen
    /\ pc # "idle" => st.observed = gen
    /\ pc \in {"lcm", "manifest", "phase"} => gen <= cached.status.observed
    /\ \A q \in Stages : want[q] <= cached.status.observed

\* Applied is there once a generation was observed, and never Skipped.
AppliedSet(s) == /\ s.applied # "Skipped"
                 /\ s.applied = "None" => s.observed = 0

\* The version is that of a generation no later than the observed one.
VersionFrom(s, sp) ==
    s.version # 0 => \E g \in 1..s.observed : sp[g].version = s.version

\* The working copy has the version read, or that of its generation.
Versions ==
    /\ VersionFrom(status, specs) /\ VersionFrom(cached.status, specs)
    /\ VersionFrom(orig, specs) /\ orig.observed <= gen
    /\ pc # "idle" => st.version \in {orig.version, specs[gen].version}

Orderly == /\ Observed
           /\ AppliedSet(status) /\ AppliedSet(cached.status) /\ AppliedSet(st)
           /\ Versions

-----------------------------------------------------------------------------
(* The steps of a reconcile between its read and its end.                  *)

\* Such a step asks at most one stage for the generation being reconciled,
\* after the stages before it, and changes no shared status.
WorkStep ==
    /\ pc \in {"lcm", "manifest", "phase"} /\ pc' # "idle"
    /\ UNCHANGED <<specs, status, cached, gen, orig>>
    /\ \E q \in Stages : Requests(q) /\ \A r \in 0..(q - 1) : Reached(gen, r)
    /\ st'.observed = st.observed
    /\ st'.version \in {st.version, specs[gen].version}
    /\ st'.applied \in {st.applied, "Failed", "Succeeded", "InProgress"}

\* updateAppliedCondition changes Applied only, and never to Skipped.
LEMMA UpdateAppliedKeeps ==
    ASSUME NEW s \in Statuses
    PROVE  /\ UpdateApplied(s).observed = s.observed
           /\ UpdateApplied(s).version = s.version
           /\ UpdateApplied(s).applied \in
                 {s.applied, "Failed", "Succeeded", "InProgress"}
  BY DEF UpdateApplied, AppliedOf, Statuses

\* A return of reconcileNormal.
LEMMA ReturnWork ==
    ASSUME pc \in {"lcm", "manifest", "phase"},
           NEW q \in Stages, Requests(q), \A r \in 0..(q - 1) : Reached(gen, r),
           NEW s \in Statuses, NEW again, Return(s, again),
           s.observed = st.observed,
           s.version \in {st.version, specs[gen].version},
           s.applied \in {st.applied, "Failed"}
    PROVE  WorkStep
  <1>1. /\ st' = UpdateApplied(s) /\ pc' = "commit"
        /\ UNCHANGED <<specs, status, cached, gen, orig>>
    BY DEF Return, apiVars
  <1>2. \E p \in Stages : Requests(p) /\ \A r \in 0..(p - 1) : Reached(gen, r)
    OBVIOUS
  <1> QED  BY <1>1, <1>2, UpdateAppliedKeeps DEF WorkStep

\* The actions of the LCM phase.
LEMMA LCMWork ==
    ASSUME Inv,
           \/ LCMConfigError \/ LCMConfigInvalid \/ LCMError \/ LCMWaits
           \/ LCMSucceeds
    PROVE  WorkStep
  <1>1. pc = "lcm" /\ st \in Statuses /\ 0 \in Stages
    <2>1. 0 \in Stages
      BY PipelineAssumption DEF Stages
    <2>2. pc = "lcm"
      BY DEF LCMConfigured, LCMConfigError, LCMConfigInvalid, LCMError,
             LCMWaits, LCMSucceeds
    <2> QED  BY <2>1, <2>2 DEF Inv, TypeOK
  <1>2. \A r \in 0..(0 - 1) : Reached(gen, r)
    OBVIOUS
  <1>3. ASSUME NEW c \in Conditions PROVE [st EXCEPT !.lcm = c] \in Statuses
    BY <1>1 DEF Statuses
  <1>4. CASE LCMConfigError
    <2>1. Requests(0) /\ Return(st, TRUE)
      BY <1>4 DEF LCMConfigError, Requests
    <2> QED  BY <1>1, <1>2, <2>1, ReturnWork
  <1>5. CASE LCMConfigInvalid
    <2>1. Requests(0) /\ Return([st EXCEPT !.applied = "Failed"], FALSE)
      BY <1>5 DEF LCMConfigInvalid, Requests, clusterVars
    <2>2. [st EXCEPT !.applied = "Failed"] \in Statuses
      BY <1>1 DEF Statuses, Conditions, Reasons
    <2> QED  BY <1>1, <1>2, <2>1, <2>2, ReturnWork DEF Statuses
  <1>6. CASE LCMError
    <2>1. Requests(0)
      BY <1>1, <1>6, HandlerRequests DEF LCMError
    <2>2. Return([st EXCEPT !.lcm = "Failed"], FALSE)
      BY <1>6 DEF LCMError
    <2>3. "Failed" \in Conditions
      BY DEF Conditions, Reasons
    <2> QED  BY <1>1, <1>2, <1>3, <2>1, <2>2, <2>3, ReturnWork DEF Statuses
  <1>7. CASE LCMWaits
    <2>1. PICK state \in {"InProgress", "Skipped"} :
             /\ HandlerInProgress(0) \/ HandlerSkips(0)
             /\ Return([st EXCEPT !.lcm = UpdatePhaseCondition(@, state)], TRUE)
      BY <1>7 DEF LCMWaits
    <2>2. Requests(0)
      BY <1>1, <2>1, HandlerRequests
    <2>3. UpdatePhaseCondition(st.lcm, state) \in Conditions
      BY <1>1 DEF UpdatePhaseCondition, Statuses, Conditions, Reasons
    <2> QED  BY <1>1, <1>2, <1>3, <2>1, <2>2, <2>3, ReturnWork DEF Statuses
  <1>8. CASE LCMSucceeds
    <2>1. Requests(0)
      BY <1>1, <1>8, HandlerRequests DEF LCMSucceeds
    <2>2. /\ st' = [st EXCEPT !.lcm = UpdatePhaseCondition(@, "Succeeded")]
          /\ pc' = "manifest" /\ UNCHANGED <<specs, status, cached, gen, orig>>
      BY <1>8 DEF LCMSucceeds, apiVars
    <2>3. /\ st'.observed = st.observed /\ st'.version = st.version
          /\ st'.applied = st.applied
      BY <1>1, <2>2 DEF Statuses
    <2> QED  BY <1>1, <1>2, <2>1, <2>2, <2>3 DEF WorkStep
  <1> QED  BY <1>4, <1>5, <1>6, <1>7, <1>8

\* The manifest and the configuration of the pipeline.
LEMMA ManifestWork ==
    ASSUME Inv,
           \/ ManifestError \/ ConfigInvalid \/ ConfigError \/ StartPipeline
    PROVE  WorkStep
  <1>1. pc = "manifest" /\ st \in Statuses /\ 0 \in Stages
    <2>1. 0 \in Stages
      BY PipelineAssumption DEF Stages
    <2>2. pc = "manifest"
      BY DEF ManifestError, ConfigInvalid, ConfigError, StartPipeline
    <2> QED  BY <2>1, <2>2 DEF Inv, TypeOK
  <1>2. \A r \in 0..(0 - 1) : Reached(gen, r)
    OBVIOUS
  <1>3. Requests(0)
    BY DEF ManifestError, ConfigInvalid, ConfigError, StartPipeline, Requests,
           clusterVars
  <1>4. /\ [st EXCEPT !.manifest = "Failed"] \in Statuses
        /\ Resolved \in Statuses
        /\ [Resolved EXCEPT !.applied = "Failed"] \in Statuses
    BY <1>1 DEF Resolved, Statuses, Conditions, Reasons
  <1>5. /\ Resolved.observed = st.observed /\ Resolved.version = st.version
        /\ Resolved.applied = st.applied
    BY <1>1 DEF Resolved, Statuses
  <1>6. CASE ManifestError
    <2>1. Return([st EXCEPT !.manifest = "Failed"], TRUE)
      BY <1>6 DEF ManifestError
    <2> QED  BY <1>1, <1>2, <1>3, <1>4, <2>1, ReturnWork DEF Statuses
  <1>7. CASE ConfigInvalid
    <2>1. Return([Resolved EXCEPT !.applied = "Failed"], FALSE)
      BY <1>7 DEF ConfigInvalid
    <2>2. LET s == [Resolved EXCEPT !.applied = "Failed"]
          IN /\ s.observed = st.observed /\ s.version = st.version
             /\ s.applied = "Failed"
      BY <1>1 DEF Resolved, Statuses
    <2> QED  BY <1>1, <1>2, <1>3, <1>4, <2>1, <2>2, ReturnWork
  <1>8. CASE ConfigError
    <2>1. Return(Resolved, TRUE)
      BY <1>8 DEF ConfigError
    <2> QED  BY <1>1, <1>2, <1>3, <1>4, <1>5, <2>1, ReturnWork
  <1>9. CASE StartPipeline
    <2>1. /\ st' = Resolved /\ pc' = "phase"
          /\ UNCHANGED <<specs, status, cached, gen, orig>>
      BY <1>9 DEF StartPipeline, apiVars
    <2> QED  BY <1>1, <1>2, <1>3, <1>5, <2>1 DEF WorkStep
  <1> QED  BY <1>6, <1>7, <1>8, <1>9

\* The handlers of the pipeline.
LEMMA PipelineWork ==
    ASSUME Inv,
           PhaseErrors \/ PhaseIncomplete \/ PhaseAdvances \/ PipelineCompletes
    PROVE  WorkStep
  <1>1. /\ pc = "phase" /\ st \in Statuses /\ k \in Stages /\ k \in Phases
        /\ specs[gen].version \in Nat /\ TypeOK
    <2>1. pc = "phase"
      BY DEF PhaseErrors, PhaseIncomplete, PhaseAdvances, PipelineCompletes
    <2>2. k \in Phases /\ st \in Statuses
      BY DEF Inv, TypeOK
    <2>3. k \in Stages
      BY <2>2, PipelineAssumption DEF Phases, Stages
    <2>4. /\ specs \in Seq(Specs) /\ gen \in 1..Len(specs)
      BY DEF Inv, TypeOK
    <2>5. specs[gen].version \in Nat
      BY <2>4, SpecsAssumption DEF SpecRecords
    <2> QED  BY <2>1, <2>2, <2>3, <2>5 DEF Inv
  <1>2. \A r \in 0..(k - 1) : Reached(gen, r)
    BY <1>1, ReachedBefore
  <1>3. ASSUME NEW f \in [Phases -> Conditions]
        PROVE  [st EXCEPT !.phase = f] \in Statuses
    BY <1>1 DEF Statuses
  <1>4. ASSUME NEW f, NEW v
        PROVE  LET s == [st EXCEPT !.phase = f]
                   u == [s EXCEPT !.version = v]
               IN /\ s.observed = st.observed /\ s.version = st.version
                  /\ s.applied = st.applied
                  /\ u.observed = st.observed /\ u.version = v
                  /\ u.applied = st.applied
    BY <1>1 DEF Statuses
  <1>5. CASE PhaseErrors
    <2> DEFINE f == [st.phase EXCEPT ![k] = "Failed"]
    <2>1. Requests(k) /\ Return([st EXCEPT !.phase = f], TRUE)
      BY <1>1, <1>5, HandlerRequests DEF PhaseErrors
    <2>2. f \in [Phases -> Conditions]
      BY <1>1 DEF Statuses, Conditions, Reasons
    <2> HIDE DEF f
    <2> QED  BY <1>1, <1>2, <1>3, <1>4, <2>1, <2>2, ReturnWork
  <1>6. CASE PhaseIncomplete
    <2>1. PICK state \in {"InProgress", "Failed"} :
             /\ HandlerInProgress(k) \/ HandlerFailed(k)
             /\ Return(UpdatePhaseConditions(st, PhaseStates(state)), TRUE)
      BY <1>6 DEF PhaseIncomplete
    <2>2. Requests(k)
      BY <1>1, <2>1, HandlerRequests
    <2>3. PICK f \in [Phases -> Conditions] :
             UpdatePhaseConditions(st, PhaseStates(state))
                = [st EXCEPT !.phase = f]
      BY <1>1, PhasesAfterIs DEF Reasons
    <2> QED  BY <1>1, <1>2, <1>3, <1>4, <2>1, <2>2, <2>3, ReturnWork
  <1>7. CASE PhaseAdvances
    <2>1. Requests(k)
      BY <1>1, <1>7, HandlerRequests DEF PhaseAdvances, HandlerCompletes
    <2>2. /\ st' = st /\ pc' = pc
          /\ UNCHANGED <<specs, status, cached, gen, orig>>
      BY <1>7 DEF PhaseAdvances, apiVars
    <2> QED  BY <1>1, <1>2, <2>1, <2>2 DEF WorkStep
  <1>8. CASE PipelineCompletes
    <2> DEFINE last == IF Needed(gen, k) THEN "Succeeded" ELSE "Skipped"
    <2>1. /\ HandlerCompletes(k)
          /\ Return([UpdatePhaseConditions(st, PhaseStates(last)) EXCEPT
                       !.version = specs[gen].version], FALSE)
      BY <1>8 DEF PipelineCompletes
    <2>2. Requests(k)
      BY <1>1, <2>1, HandlerRequests DEF HandlerCompletes
    <2>3. last \in Reasons
      BY DEF Reasons
    <2> HIDE DEF last
    <2>4. PICK f \in [Phases -> Conditions] :
             UpdatePhaseConditions(st, PhaseStates(last))
                = [st EXCEPT !.phase = f]
      BY <1>1, <2>3, PhasesAfterIs
    <2> DEFINE u == [[st EXCEPT !.phase = f] EXCEPT
                        !.version = specs[gen].version]
    <2>5. u \in Statuses
      BY <1>1 DEF Statuses
    <2>6. /\ u.observed = st.observed /\ u.version = specs[gen].version
          /\ u.applied = st.applied
      BY <1>4
    <2>7. Return(u, FALSE)
      BY <2>1, <2>4
    <2> HIDE DEF u
    <2> QED  BY <1>1, <1>2, <2>2, <2>5, <2>6, <2>7, ReturnWork
  <1> QED  BY <1>5, <1>6, <1>7, <1>8

\* Every step of a reconcile but its read and its end is such a step.
LEMMA WorkIs ==
    ASSUME Inv,
           \/ LCMConfigError \/ LCMConfigInvalid \/ LCMError \/ LCMWaits
           \/ LCMSucceeds
           \/ ManifestError \/ ConfigInvalid \/ ConfigError \/ StartPipeline
           \/ PhaseErrors \/ PhaseIncomplete \/ PhaseAdvances
           \/ PipelineCompletes
    PROVE  WorkStep
  BY LCMWork, ManifestWork, PipelineWork

-----------------------------------------------------------------------------
(* Orderly is inductive, given Inv.                                        *)

\* The invariant holds initially.
LEMMA OrderlyInit == Init => Orderly
  <1> SUFFICES ASSUME Init PROVE Orderly
    OBVIOUS
  <1>1. /\ status = NoStatus /\ cached.status = NoStatus /\ st = NoStatus
        /\ orig = NoStatus /\ gen = 1 /\ pc = "idle"
        /\ want = [q \in Stages |-> 0]
    BY DEF Init
  <1>2. /\ NoStatus.observed = 0 /\ NoStatus.version = 0
        /\ NoStatus.applied = "None"
    BY DEF NoStatus
  <1> QED  BY <1>1, <1>2 DEF Orderly, Observed, AppliedSet, Versions, VersionFrom

\* A version stays that of a generation while specs are appended.
LEMMA VersionLasts ==
    ASSUME NEW sp \in Seq(Specs), NEW sp2 \in Seq(Specs), NEW s \in Statuses,
           Len(sp) <= Len(sp2), \A g \in 1..Len(sp) : sp2[g] = sp[g],
           s.observed <= Len(sp), VersionFrom(s, sp)
    PROVE  VersionFrom(s, sp2)
  <1>1. s.observed \in Nat /\ Len(sp) \in Nat
    BY DEF Statuses
  <1>2. \A g \in 1..s.observed : g \in 1..Len(sp)
    BY <1>1
  <1> QED  BY <1>2 DEF VersionFrom

\* What TypeOK says of the numbers involved.
LEMMA NumbersType ==
    ASSUME TypeOK
    PROVE  /\ Len(specs) \in Nat /\ gen \in Nat /\ gen >= 1 /\ gen <= cached.gen
           /\ cached.gen \in Nat /\ cached.gen <= Len(specs)
           /\ status.observed \in Nat /\ cached.status.observed \in Nat
           /\ st.observed \in Nat /\ orig.observed \in Nat
           /\ status \in Statuses /\ cached.status \in Statuses
           /\ st \in Statuses /\ orig \in Statuses
           /\ specs \in Seq(Specs) /\ want \in [Stages -> 0..gen]
           /\ cached.gen >= 1
  BY DEF TypeOK, Statuses

\* Reading the cache.
LEMMA OrderlyTake ==
    ASSUME Inv, TypeOK', Orderly, StartGeneration \/ StartWork
    PROVE  Orderly'
  <1>1. /\ gen' = cached.gen /\ orig' = cached.status /\ gen <= gen'
        /\ UNCHANGED <<specs, status, cached, want>>
    BY TakeType DEF StartGeneration, StartWork, Take, Inv, apiVars, clusterVars
  <1>2. TypeOK /\ pc' \in {"lcm", "manifest", "commit"}
    BY DEF Inv, StartGeneration, StartWork
  <1>3. /\ st'.observed = gen' /\ st'.version = orig'.version
        /\ AppliedSet(st')
    <2>1. CASE StartGeneration
      <3>1. st' = InitializePending(cached.status, cached.gen)
        BY <2>1 DEF StartGeneration
      <3> QED  BY <1>1, <3>1 DEF InitializePending, AppliedSet
    <2>2. CASE StartWork
      <3>1. st' = cached.status /\ cached.status.observed = cached.gen
        BY <2>2 DEF StartWork, Seen
      <3> QED  BY <1>1, <3>1 DEF Orderly
    <2> QED  BY <2>1, <2>2
  <1>4. pc' \in {"lcm", "manifest", "phase"} => gen' <= cached.status.observed
    <2>1. CASE StartGeneration
      BY <2>1 DEF StartGeneration
    <2>2. CASE StartWork
      <3>1. cached.status.observed = cached.gen /\ cached.gen \in Nat
        BY <1>2, <2>2, NumbersType DEF StartWork, Seen
      <3> QED  BY <1>1, <3>1
    <2> QED  BY <2>1, <2>2
  <1>5. Observed'
    <2>1. status.observed <= gen'
      BY <1>1, <1>2, NumbersType DEF Orderly, Observed
    <2> QED  BY <1>1, <1>3, <1>4, <2>1 DEF Orderly, Observed
  <1>6. Versions'
    <2>1. cached.status.observed <= gen'
      BY <1>1, <1>2, NumbersType DEF Orderly, Observed
    <2> QED  BY <1>1, <1>3, <2>1 DEF Orderly, Versions
  <1> QED  BY <1>1, <1>3, <1>5, <1>6 DEF Orderly

\* A step within a reconcile.
LEMMA OrderlyWork ==
    ASSUME Inv, TypeOK', Orderly, WorkStep
    PROVE  Orderly'
  <1>1. /\ UNCHANGED <<specs, status, cached, gen, orig>> /\ pc # "idle"
        /\ pc \in {"lcm", "manifest", "phase"}
        /\ st'.observed = st.observed
    BY DEF WorkStep
  <1>2. PICK p \in Stages : Requests(p)
    BY DEF WorkStep
  <1>3. want' = want \/ want' = [want EXCEPT ![p] = gen]
    BY <1>2 DEF Requests, clusterVars
  <1>4. ASSUME NEW q \in Stages PROVE want'[q] <= cached.status.observed
    <2>1. want \in [Stages -> 0..gen] /\ gen <= cached.status.observed
      BY <1>1, NumbersType DEF Inv, Orderly, Observed
    <2>2. want[q] <= cached.status.observed
      BY DEF Orderly, Observed
    <2> QED  BY <1>3, <2>1, <2>2
  <1>5. Observed'
    BY <1>1, <1>4 DEF Orderly, Observed
  <1>6. AppliedSet(st')
    BY <1>1 DEF WorkStep, Orderly, AppliedSet
  <1>7. Versions'
    BY <1>1 DEF WorkStep, Orderly, Versions
  <1> QED  BY <1>1, <1>5, <1>6, <1>7 DEF Orderly

\* The end of a reconcile, by a write or without, and a crash.
LEMMA OrderlyFinish ==
    ASSUME Inv, Orderly, Forget, UNCHANGED <<specs, want>>,
           status' = status \/ (pc # "idle" /\ status' = st),
           cached' = cached \/ (cached'.status = status /\ status' = status)
    PROVE  Orderly'
  <1>1. /\ pc' = "idle" /\ st' = NoStatus /\ orig' = NoStatus /\ gen' = gen
    BY DEF Forget
  <1>2. /\ NoStatus.observed = 0 /\ NoStatus.version = 0
        /\ NoStatus.applied = "None"
    BY DEF NoStatus
  <1>3. /\ gen \in Nat /\ want \in [Stages -> 0..gen] /\ specs \in Seq(Specs)
        /\ status.observed \in Nat /\ cached.status.observed \in Nat
        /\ status.observed <= gen
        /\ cached.status.observed <= status.observed
    BY NumbersType DEF Inv, Orderly, Observed
  <1>4. /\ cached'.status.observed \in Nat /\ status'.observed \in Nat
        /\ cached.status.observed <= cached'.status.observed
        /\ cached'.status.observed <= status'.observed
        /\ status'.observed <= gen
    BY <1>3 DEF Orderly, Observed
  <1>5. ASSUME NEW q \in Stages PROVE want[q] <= cached'.status.observed
    <2>1. want[q] \in Nat /\ want[q] <= cached.status.observed
      BY <1>3 DEF Orderly, Observed
    <2> QED  BY <1>3, <1>4, <2>1
  <1>6. Observed'
    BY <1>1, <1>4, <1>5 DEF Observed
  <1>7. AppliedSet(status') /\ AppliedSet(cached'.status) /\ AppliedSet(st')
    BY <1>1, <1>2 DEF Orderly, AppliedSet
  <1>8. ASSUME pc # "idle" PROVE VersionFrom(st, specs)
    <2>1. /\ st.observed = gen /\ orig.observed <= gen /\ VersionFrom(orig, specs)
          /\ st.version \in {orig.version, specs[gen].version}
      BY <1>8 DEF Orderly, Observed, Versions
    <2>2. orig.observed \in Nat /\ gen >= 1
      BY NumbersType DEF Inv
    <2> QED  BY <1>3, <2>1, <2>2 DEF VersionFrom
  <1>9. Versions'
    <2>1. VersionFrom(status', specs) /\ VersionFrom(cached'.status, specs)
      BY <1>8 DEF Orderly, Versions
    <2>2. VersionFrom(orig', specs) /\ orig'.observed <= gen
      BY <1>1, <1>2, <1>3 DEF VersionFrom
    <2> QED  BY <1>1, <2>1, <2>2 DEF Versions
  <1> QED  BY <1>6, <1>7, <1>9 DEF Orderly

\* A step of the environment that leaves the reconcile and want alone.
LEMMA OrderlyOutside ==
    ASSUME Inv, TypeOK', Orderly,
           UNCHANGED <<status, pc, gen, st, orig, want>>,
           cached' = cached \/ cached'.status = status,
           Len(specs) <= Len(specs'),
           \A g \in 1..Len(specs) : specs'[g] = specs[g]
    PROVE  Orderly'
  <1>1. /\ gen \in 1..Len(specs) /\ want \in [Stages -> 0..gen]
        /\ specs \in Seq(Specs) /\ specs' \in Seq(Specs)
        /\ Len(specs) \in Nat /\ gen \in Nat
        /\ status \in Statuses /\ cached.status \in Statuses /\ orig \in Statuses
        /\ status.observed \in Nat /\ cached.status.observed \in Nat
        /\ orig.observed \in Nat
    BY NumbersType DEF Inv, TypeOK
  <1>2. /\ cached.status.observed <= status.observed
        /\ status.observed <= gen /\ gen <= Len(specs)
        /\ orig.observed <= gen
    BY <1>1 DEF Orderly, Observed, Versions
  <1>3. /\ cached'.status.observed \in Nat
        /\ cached.status.observed <= cached'.status.observed
        /\ cached'.status.observed <= status.observed
    BY <1>1, <1>2
  <1>4. ASSUME NEW q \in Stages PROVE want[q] <= cached'.status.observed
    <2>1. want[q] \in Nat /\ want[q] <= cached.status.observed
      BY <1>1 DEF Orderly, Observed
    <2> QED  BY <1>1, <1>3, <2>1
  <1>5. pc \in {"lcm", "manifest", "phase"} => gen <= cached'.status.observed
    BY <1>1, <1>3 DEF Orderly, Observed
  <1>6. Observed'
    BY <1>2, <1>3, <1>4, <1>5 DEF Orderly, Observed
  <1>7. AppliedSet(status') /\ AppliedSet(cached'.status) /\ AppliedSet(st')
    BY DEF Orderly, AppliedSet
  <1>8. ASSUME NEW s \in {status, cached.status, orig}, VersionFrom(s, specs)
        PROVE  VersionFrom(s, specs')
    <2>1. s \in Statuses /\ s.observed <= Len(specs)
      BY <1>1, <1>2
    <2> QED  BY <1>1, <1>8, <2>1, VersionLasts
  <1>9. Versions'
    <2>1. /\ VersionFrom(status, specs') /\ VersionFrom(orig, specs')
          /\ VersionFrom(cached'.status, specs')
      BY <1>8 DEF Orderly, Versions
    <2>2. specs'[gen] = specs[gen]
      BY <1>1
    <2> QED  BY <2>1, <2>2 DEF Orderly, Versions
  <1> QED  BY <1>6, <1>7, <1>9 DEF Orderly

\* An edit appends to specs and leaves everything else as it was.
LEMMA EditIs ==
    ASSUME TypeOK, NEW s \in Specs, Edit(s)
    PROVE  /\ specs' = Append(specs, s) /\ Len(specs) <= Len(specs')
           /\ \A g \in 1..Len(specs) : specs'[g] = specs[g]
           /\ UNCHANGED <<status, cached, pc, gen, st, orig, want, have>>
  BY DEF TypeOK, Edit, workVars, clusterVars

\* The other steps of the environment but a crash.
LEMMA OutsideIs ==
    ASSUME TypeOK,
           \/ CacheSync \/ \E q \in Stages : Achieve(q)
           \/ Resync \/ UNCHANGED vars
    PROVE  /\ UNCHANGED <<specs, status, pc, gen, st, orig, want>>
           /\ cached' = cached \/ cached'.status = status
           /\ Len(specs) <= Len(specs')
  <1>1. Len(specs) \in Nat
    BY NumbersType
  <1>2. CASE CacheSync
    BY <1>1, <1>2 DEF CacheSync, Current, apiVars, workVars, clusterVars
  <1>3. CASE \E q \in Stages : Achieve(q)
    BY <1>1, <1>3 DEF Achieve, apiVars, workVars
  <1>4. CASE Resync \/ UNCHANGED vars
    BY <1>1, <1>4 DEF Resync, vars, apiVars, workVars, clusterVars
  <1> QED  BY <1>2, <1>3, <1>4

\* The ends of a reconcile and a crash leave specs and the cluster alone.
LEMMA FinishIs ==
    ASSUME SkipUpdate \/ WriteStatus \/ WriteConflicts \/ WriteFails \/ Crash
    PROVE  /\ Forget /\ UNCHANGED <<specs, want, have>>
           /\ status' = status \/ (pc # "idle" /\ status' = st)
           /\ cached' = cached \/ (cached'.status = status /\ status' = status)
  <1>1. CASE SkipUpdate \/ WriteStatus \/ WriteConflicts \/ WriteFails
    BY <1>1 DEF SkipUpdate, WriteStatus, WriteConflicts, WriteFails, Finish,
                clusterVars
  <1>2. CASE Crash
    BY <1>2 DEF Crash, Current, apiVars, clusterVars
  <1> QED  BY <1>1, <1>2

\* Every step keeps the invariant.
LEMMA OrderlyNext == Inv /\ Orderly /\ [Next]_vars => Orderly'
  <1> SUFFICES ASSUME Inv, Orderly, [Next]_vars PROVE Orderly'
    OBVIOUS
  <1>1. TypeOK /\ TypeOK'
    BY TypeNext DEF Inv
  <1>2. CASE StartGeneration \/ StartWork
    BY <1>1, <1>2, OrderlyTake
  <1>3. CASE SkipUpdate \/ WriteStatus \/ WriteConflicts \/ WriteFails \/ Crash
    BY <1>3, FinishIs, OrderlyFinish
  <1>4. CASE \E s \in Specs : Edit(s)
    BY <1>1, <1>4, EditIs, OrderlyOutside
  <1>5. CASE \/ CacheSync \/ \E q \in Stages : Achieve(q)
             \/ Resync \/ UNCHANGED vars
    BY <1>1, <1>5, OutsideIs, OrderlyOutside
  <1> QED
    BY <1>1, <1>2, <1>3, <1>4, <1>5, WorkIs, OrderlyWork DEF Next, Reconcile

\* The invariant holds in every behaviour.
LEMMA OrderlyCorrect == Spec => []Orderly
  BY OrderlyInit, OrderlyNext, InvCorrect, PTL DEF Spec

-----------------------------------------------------------------------------
(* What a step may never do.                                               *)

\* What the webhook asks of the stored status is true of the last generation:
\* it has failed, has not been started, or is complete.
LEMMA EditBetween ==
    ASSUME Inv, Orderly, EditAllowed(status)
    PROVE  \/ status.applied = "Failed"
           \/ ~Started(Len(specs))
           \/ AllReached(Len(specs))
  <1> SUFFICES ASSUME status.applied # "Failed", Started(Len(specs))
               PROVE  AllReached(Len(specs))
    OBVIOUS
  <1>1. PICK p \in Stages : want[p] = Len(specs)
    BY DEF Started
  <1>2. status.observed = Len(specs) /\ status.observed > 0
    <2>1. /\ want[p] <= cached.status.observed
          /\ cached.status.observed <= status.observed /\ status.observed <= gen
      BY DEF Orderly, Observed
    <2>2. TypeOK
      BY DEF Inv
    <2> QED  BY <1>1, <2>1, <2>2, NumbersType
  <1>3. status.applied = "Succeeded"
    <2>1. status.applied \in Conditions
      BY DEF Inv, TypeOK, Statuses
    <2> QED  BY <1>2, <2>1 DEF Orderly, AppliedSet, EditAllowed, Conditions, Reasons
  <1>4. ASSUME NEW q \in Stages PROVE Reached(status.observed, q)
    <2>1. AllComplete(status) /\ TrueBody(status, specs, have)
      BY <1>3 DEF Inv, TrueStatus
    <2>2. q = 0 \/ q \in Phases
      BY PipelineAssumption DEF Stages, Phases
    <2> QED  BY <2>1, <2>2, ReachedIs DEF TrueBody, AllComplete
  <1> QED  BY <1>2, <1>4 DEF AllReached

\* Only an edit changes specs.
LEMMA OnlyEdits ==
    ASSUME Inv, [Next]_vars, specs' # specs
    PROVE  \E s \in Specs : Edit(s)
  <1>1. TypeOK
    BY DEF Inv
  <1>2. ~(StartGeneration \/ StartWork)
    BY DEF StartGeneration, StartWork, Take, apiVars
  <1> QED
    BY <1>1, <1>2, WorkIs, FinishIs, OutsideIs DEF Next, Reconcile, WorkStep

\* The webhook never admits an edit in the middle of an upgrade that has not
\* failed, whatever the cache and the reconciler are working on.
THEOREM EditsAreBetweenUpgrades == Spec => EditsOnlyBetweenUpgrades
  <1>1. ASSUME Inv, Orderly, [Next]_vars, specs' # specs,
               status.applied # "Failed"
        PROVE  ~Started(Len(specs)) \/ AllReached(Len(specs))
    <2>1. EditAllowed(status)
      BY <1>1, OnlyEdits DEF Edit
    <2> QED  BY <1>1, <2>1, EditBetween
  <1>2. Inv /\ Orderly /\ [Next]_vars =>
           [specs' # specs /\ status.applied # "Failed"
              => ~Started(Len(specs)) \/ AllReached(Len(specs))]_vars
    BY <1>1
  <1> QED
    BY <1>2, InvCorrect, OrderlyCorrect, PTL DEF Spec, EditsOnlyBetweenUpgrades

\* A reconcile never writes a lower version than the one it read, when the
\* versions submitted increase.
THEOREM VersionIsNeverLowered == Spec => VersionNeverLowered
  <1>1. ASSUME Inv, Orderly, [Next]_vars, VersionsIncrease, status' # status
        PROVE  status'.version >= orig.version
    <2>1. WriteStatus
      <3>1. TypeOK
        BY <1>1 DEF Inv
      <3>2. ~(\E s \in Specs : Edit(s)) /\ ~StartGeneration /\ ~StartWork
        BY <1>1 DEF Edit, StartGeneration, StartWork, Take, apiVars
      <3>3. ~SkipUpdate /\ ~WriteConflicts /\ ~WriteFails /\ ~Crash
        BY <1>1 DEF SkipUpdate, WriteConflicts, WriteFails, Crash, apiVars
      <3> QED
        BY <1>1, <3>1, <3>2, <3>3, WorkIs, OutsideIs
           DEF Next, Reconcile, WorkStep
    <2>2. /\ status'.version = st.version
          /\ st.version \in {orig.version, specs[gen].version}
          /\ orig.observed <= gen /\ VersionFrom(orig, specs)
      BY <1>1, <2>1 DEF WriteStatus, Finish, Orderly, Versions
    <2>3. /\ specs \in Seq(Specs) /\ gen \in 1..Len(specs) /\ Len(specs) \in Nat
          /\ orig.observed \in Nat /\ orig.version \in Nat
      BY <1>1, NumbersType DEF Inv, TypeOK, Statuses
    <2>4. ASSUME NEW g \in 1..Len(specs) PROVE specs[g].version \in Nat
      BY <2>3, SpecsAssumption DEF SpecRecords
    <2>5. specs[gen].version >= orig.version
      <3>1. CASE orig.version = 0
        BY <2>3, <2>4, <3>1
      <3>2. CASE orig.version # 0
        <4>1. PICK g \in 1..orig.observed : specs[g].version = orig.version
          BY <2>2, <3>2 DEF VersionFrom
        <4>2. g \in 1..Len(specs) /\ g <= gen
          BY <2>2, <2>3
        <4> QED  BY <1>1, <2>3, <2>4, <4>1, <4>2 DEF VersionsIncrease
      <3> QED  BY <3>1, <3>2
    <2> QED  BY <2>2, <2>3, <2>5
  <1>2. Inv /\ Orderly /\ [Next]_vars =>
           [VersionsIncrease /\ status' # status
              => status'.version >= orig.version]_vars
    BY <1>1
  <1> QED
    BY <1>2, InvCorrect, OrderlyCorrect, PTL DEF Spec, VersionNeverLowered

-----------------------------------------------------------------------------
(* The refinement.                                                         *)

\* The operators of the abstract specification are those of this one.
LEMMA PromiseIs ==
    ASSUME NEW g
    PROVE  /\ Promise!Stages = Stages
           /\ Promise!AllReached(g) <=> AllReached(g)
           /\ Promise!Started(g) <=> Started(g)
           /\ \A q : Promise!Reached(g, q) <=> Reached(g, q)
  BY DEF Promise!Stages, Stages, Promise!AllReached, AllReached, Promise!Started,
         Started, Promise!Reached, Reached, Needed

\* The initial states are initial states of the abstract specification.
LEMMA PromiseInit == Init => Promise!Init
  BY DEF Init, NoStatus, Promise!Init, Promise!Stages, Stages

\* A step within a reconcile takes a stage to the generation reconciled, or
\* is none.
LEMMA WorkTakes ==
    ASSUME Inv, WorkStep
    PROVE  [Promise!Next]_Promise!vars
  <1>1. PICK q \in Stages : Requests(q) /\ \A r \in 0..(q - 1) : Reached(gen, r)
    BY DEF WorkStep
  <1>2. UNCHANGED <<specs, status>>
    BY DEF WorkStep
  <1>3. gen \in 1..Len(specs) /\ want \in [Stages -> 0..gen] /\ gen \in Nat
    BY NumbersType DEF Inv, TypeOK
  <1>4. CASE UNCHANGED clusterVars
    BY <1>2, <1>4 DEF clusterVars, Promise!vars, Promise!clusterVars,
                      Promise!reportVars
  <1>5. CASE Request(q)
    <2>1. gen >= want[q]
      BY <1>3
    <2>2. \A r \in 0..(q - 1) : Promise!Reached(gen, r)
      BY <1>1, PromiseIs
    <2>3. /\ want' = [want EXCEPT ![q] = gen]
          /\ have' \in {have, [have EXCEPT ![q] = gen]}
      BY <1>5 DEF Request
    <2>4. Promise!Take(q, gen)
      BY <1>2, <2>1, <2>2, <2>3 DEF Promise!Take, Promise!reportVars
    <2> QED  BY <1>1, <1>3, <2>4, PromiseIs DEF Promise!Next
  <1> QED  BY <1>1, <1>4, <1>5 DEF Requests

\* The end of a reconcile, and a crash, report what is stored now.
LEMMA FinishReports ==
    ASSUME Inv, Inv', UNCHANGED <<specs, want, have>>
    PROVE  Promise!Report
  <1>1. specs' = specs /\ have' = have /\ want' = want
    OBVIOUS
  <1>2. Len(specs) \in Nat
    BY NumbersType DEF Inv
  <1>3. ASSUME NEW g, \A q \in Stages : ReachedBy(g, q, specs', have')
        PROVE  Promise!AllReached(g)
    BY <1>1, <1>3, PromiseIs, ReachedIs DEF AllReached
  <1>4. status'.version # 0 =>
           \E g \in 1..Len(specs) : /\ Promise!AllReached(g)
                                    /\ specs[g].version = status'.version
    <2> SUFFICES ASSUME status'.version # 0
                 PROVE  \E g \in 1..Len(specs) :
                           /\ Promise!AllReached(g)
                           /\ specs[g].version = status'.version
      OBVIOUS
    <2>1. PICK g \in 1..Len(specs') :
             /\ specs'[g].version = status'.version
             /\ \A q \in Stages : ReachedBy(g, q, specs', have')
      BY DEF Inv, TrueStatus, TrueBody
    <2> QED  BY <1>1, <1>3, <2>1
  <1>5. status'.applied = "Succeeded" =>
           /\ status'.observed \in 1..Len(specs)
           /\ Promise!AllReached(status'.observed)
           /\ specs[status'.observed].version = status'.version
    <2> SUFFICES ASSUME status'.applied = "Succeeded"
                 PROVE  /\ status'.observed \in 1..Len(specs)
                        /\ Promise!AllReached(status'.observed)
                        /\ specs[status'.observed].version = status'.version
      OBVIOUS
    <2>1. AllComplete(status') /\ TrueBody(status', specs', have')
      BY DEF Inv, TrueStatus
    <2>2. /\ status'.observed \in 0..Len(specs') /\ status'.observed > 0
          /\ status'.version = specs'[status'.observed].version
          /\ ReachedBy(status'.observed, 0, specs', have')
          /\ \A p \in Phases : ReachedBy(status'.observed, p, specs', have')
      BY <2>1 DEF TrueBody, AllComplete
    <2>3. \A q \in Stages : q = 0 \/ q \in Phases
      BY PipelineAssumption DEF Stages, Phases
    <2>4. Promise!AllReached(status'.observed)
      BY <1>3, <2>2, <2>3
    <2> QED  BY <1>1, <1>2, <2>2, <2>4
  <1> QED
    BY <1>1, <1>2, <1>4, <1>5 DEF Promise!Report, Promise!clusterVars

\* A stage whose work is done reaches what it was asked for.
LEMMA AchieveReaches ==
    ASSUME NEW q \in Stages, Achieve(q)
    PROVE  Promise!Reach(q)
  BY DEF Achieve, apiVars, Promise!Reach, Promise!reportVars

\* An edit submits a generation, as the stored status allows.
LEMMA EditSubmits ==
    ASSUME Inv, Orderly, NEW s \in Specs, Edit(s)
    PROVE  Promise!Submit(s)
  <1>1. /\ specs' = Append(specs, s) /\ UNCHANGED <<status, want, have>>
        /\ EditAllowed(status)
    BY DEF Edit, clusterVars
  <1> QED
    BY <1>1, EditBetween, PromiseIs
       DEF Promise!Submit, Promise!clusterVars, Promise!reportVars

\* Every step is one of the abstract specification, or none.
LEMMA PromiseNext ==
    Inv /\ Inv' /\ Orderly /\ [Next]_vars => [Promise!Next]_Promise!vars
  <1> SUFFICES ASSUME Inv, Inv', Orderly, [Next]_vars
               PROVE  [Promise!Next]_Promise!vars
    OBVIOUS
  <1>1. ASSUME UNCHANGED <<specs, status, want, have>>
        PROVE  UNCHANGED Promise!vars
    BY <1>1 DEF Promise!vars, Promise!clusterVars, Promise!reportVars
  <1>2. CASE StartGeneration \/ StartWork \/ CacheSync \/ Resync
             \/ UNCHANGED vars
    BY <1>1, <1>2 DEF StartGeneration, StartWork, Take, CacheSync, Resync, vars,
                      apiVars, clusterVars
  <1>3. CASE SkipUpdate \/ WriteStatus \/ WriteConflicts \/ WriteFails \/ Crash
    BY <1>3, FinishIs, FinishReports DEF Promise!Next
  <1>4. CASE \E s \in Specs : Edit(s)
    BY <1>4, EditSubmits DEF Promise!Next
  <1>5. CASE \E q \in Stages : Achieve(q)
    BY <1>5, AchieveReaches, PromiseIs DEF Promise!Next
  <1> QED
    BY <1>2, <1>3, <1>4, <1>5, WorkIs, WorkTakes DEF Next, Reconcile

\* The release controller implements the staged upgrade: stages in order and
\* never back, nothing reported before it is reached, and no generation
\* submitted in the middle of another that has not failed.
THEOREM ControllerKeepsPromise == Spec => KeepsPromise
  BY PromiseInit, PromiseNext, InvCorrect, OrderlyCorrect, PTL
     DEF Spec, KeepsPromise, Promise!Spec
=============================================================================
