---------------------- MODULE ReleaseControllerProofs ----------------------
(***************************************************************************)
(* Proofs about ReleaseController, for every number of phases, every set   *)
(* of specs and every bound: its type invariant, and the safety of what    *)
(* the status claims, from an inductive invariant.                         *)
(***************************************************************************)
EXTENDS ReleaseController, TLAPS

-----------------------------------------------------------------------------
(* The status functions stay within Statuses.                              *)

\* updateAppliedCondition returns a status.
LEMMA UpdateAppliedType ==
    ASSUME NEW s \in Statuses
    PROVE  UpdateApplied(s) \in Statuses
  BY DEF UpdateApplied, AppliedOf, Statuses, Conditions, Reasons

\* The states a pipeline run reports are conditions.
LEMMA PhaseStatesType ==
    ASSUME NEW state \in Conditions
    PROVE  PhaseStates(state) \in [Phases -> Conditions]
  BY DEF PhaseStates, Conditions, Reasons

\* updatePhaseConditions returns a status.
LEMMA UpdatePhaseConditionsType ==
    ASSUME NEW s \in Statuses, NEW results \in [Phases -> Conditions]
    PROVE  UpdatePhaseConditions(s, results) \in Statuses
  BY DEF UpdatePhaseConditions, UpdatePhaseCondition, Statuses

\* A reset status is a status.
LEMMA InitializePendingType ==
    ASSUME NEW s \in Statuses, NEW g \in Nat
    PROVE  InitializePending(s, g) \in Statuses
  BY DEF InitializePending, Statuses, Conditions, Reasons

\* The empty status of a new Release is a status.
LEMMA NoStatusType == NoStatus \in Statuses
  BY DEF NoStatus, Statuses, Conditions

\* The status and the locals a reconcile returns with.
LEMMA ReturnType ==
    ASSUME TypeOK, NEW s \in Statuses, NEW again \in BOOLEAN, Return(s, again)
    PROVE  /\ st' \in Statuses /\ requeue' \in BOOLEAN /\ pc' = "commit"
           /\ UNCHANGED <<specs, status, cached, queued, gen, orig, k>>
  BY UpdateAppliedType DEF Return, apiVars

\* What a handler's call leaves behind, whatever it answers.
RequestOK == /\ want' \in [Stages -> 0..gen]
             /\ have' \in [Stages -> Nat]
             /\ \A q \in Stages : have'[q] <= want'[q]

\* A request keeps the types of want and have.
LEMMA RequestType ==
    ASSUME TypeOK, NEW q \in Stages, Request(q)
    PROVE  RequestOK
  <1>1. /\ want \in [Stages -> 0..gen] /\ have \in [Stages -> Nat]
        /\ \A p \in Stages : have[p] <= want[p]
        /\ gen \in 1..cached.gen /\ cached.gen \in 1..Len(specs)
        /\ specs \in Seq(Specs)
    BY DEF TypeOK
  <1>2. gen \in Nat
    BY <1>1
  <1>3. /\ want' = [want EXCEPT ![q] = gen]
        /\ have' = have \/ have' = [have EXCEPT ![q] = gen]
    BY DEF Request
  <1>4. want' \in [Stages -> 0..gen] /\ have' \in [Stages -> Nat]
    <2>1. gen \in 0..gen
      BY <1>2
    <2>2. want \in [Stages -> 0..gen] /\ have \in [Stages -> Nat]
      BY <1>1
    <2>3. want' \in [Stages -> 0..gen]
      BY <1>3, <2>1, <2>2
    <2>4. have' \in [Stages -> Nat]
      BY <1>2, <1>3, <2>2
    <2> QED  BY <2>3, <2>4
  <1>5. ASSUME NEW p \in Stages PROVE have'[p] <= want'[p]
    <2>1. have[p] \in Nat /\ want[p] \in 0..gen /\ have[p] <= want[p]
      BY <1>1
    <2>2. CASE p = q
      BY <1>1, <1>2, <1>3, <2>1, <2>2
    <2>3. CASE p # q
      BY <1>1, <1>3, <2>1, <2>3
    <2> QED  BY <2>2, <2>3
  <1> QED  BY <1>4, <1>5 DEF RequestOK

\* A handler that leaves the cluster alone keeps its types.
LEMMA UnchangedRequestType ==
    ASSUME TypeOK, UNCHANGED clusterVars
    PROVE  RequestOK
  BY DEF TypeOK, RequestOK, clusterVars

\* Each handler outcome keeps the types of the cluster and of faults.
LEMMA HandlerType ==
    ASSUME TypeOK, NEW q \in Stages,
           \/ HandlerSkips(q) \/ HandlerSucceeds(q) \/ HandlerInProgress(q)
           \/ HandlerFailed(q) \/ (Fault /\ MaybeRequest(q))
    PROVE  RequestOK /\ faults' \in 0..MaxFaults
  <1>1. RequestOK
    BY RequestType, UnchangedRequestType
       DEF HandlerSkips, HandlerSucceeds, HandlerInProgress, HandlerFailed,
           MaybeRequest
  <1>2. faults' \in 0..MaxFaults
    BY BoundsAssumption DEF TypeOK, HandlerSkips, HandlerSucceeds,
       HandlerInProgress, HandlerFailed, Fault
  <1> QED  BY <1>1, <1>2

\* A step that returns, or goes on within the reconcile, keeps TypeOK when
\* the status it leaves is one and the handler kept its types.
LEMMA WorkType ==
    ASSUME TypeOK, RequestOK, faults' \in 0..MaxFaults,
           st' \in Statuses, requeue' \in BOOLEAN, k' \in Phases,
           pc' \in {"manifest", "phase", "commit"},
           UNCHANGED <<specs, status, cached, queued, gen, orig>>
    PROVE  TypeOK'
  BY DEF TypeOK, RequestOK

\* Reading the cache never takes the reconciler back to an older generation.
LEMMA TakeType ==
    ASSUME TypeOK, Take
    PROVE  /\ gen' \in 1..cached.gen /\ gen <= gen'
           /\ want' \in [Stages -> 0..gen'] /\ have' = have /\ want' = want
           /\ orig' \in Statuses /\ cached' = cached /\ specs' = specs
           /\ status' = status /\ k' \in Phases /\ queued' \in BOOLEAN
           /\ faults' = faults /\ cached.status \in Statuses
           /\ gen' \in Nat /\ gen' = cached.gen
  <1>1. /\ cached.gen \in 1..Len(specs) /\ cached.status \in Statuses
        /\ Len(specs) \in Nat
    BY DEF TypeOK
  <1>2. /\ gen' = cached.gen /\ orig' = cached.status /\ k' = 1
        /\ queued' = FALSE /\ cached' = cached /\ faults' = faults
        /\ specs' = specs /\ status' = status /\ want' = want /\ have' = have
    BY DEF Take, apiVars, clusterVars
  <1>3. gen \in 1..cached.gen /\ want \in [Stages -> 0..gen]
    BY DEF TypeOK
  <1>4. gen' \in 1..cached.gen /\ gen <= gen' /\ gen' \in Nat
    BY <1>1, <1>2, <1>3
  <1>5. \A q \in Stages : want[q] \in 0..gen'
    BY <1>3, <1>4
  <1>6. want' \in [Stages -> 0..gen']
    BY <1>2, <1>3, <1>5
  <1>7. 1 \in Phases
    BY PipelineAssumption DEF Phases
  <1> QED  BY <1>1, <1>2, <1>4, <1>6, <1>7

\* The end of a reconcile, with whatever status is stored by then.
LEMMA FinishType ==
    ASSUME TypeOK, NEW again \in BOOLEAN, Finish(again), status' \in Statuses,
           faults' \in 0..MaxFaults
    PROVE  TypeOK'
  <1>1. /\ pc' = "idle" /\ st' = NoStatus /\ orig' = NoStatus /\ k' = 1
        /\ requeue' = FALSE /\ gen' = gen /\ queued' \in BOOLEAN
        /\ specs' = specs /\ cached' = cached /\ want' = want /\ have' = have
    BY DEF Finish, Forget, clusterVars
  <1>2. 1 \in Phases
    BY PipelineAssumption DEF Phases
  <1> QED  BY <1>1, <1>2, NoStatusType DEF TypeOK

\* Faults are counted up to their bound.
LEMMA FaultType ==
    ASSUME TypeOK, Fault \/ UNCHANGED faults
    PROVE  faults' \in 0..MaxFaults
  BY BoundsAssumption DEF TypeOK, Fault

\* The initial states have the types.
LEMMA TypeInit == Init => TypeOK
  <1> SUFFICES ASSUME Init PROVE TypeOK
    OBVIOUS
  <1>1. specs \in Seq(Specs) /\ Len(specs) = 1
    BY DEF Init
  <1>2. 1 \in 1..MaxGenerations /\ 1 \in Phases /\ 0 \in 0..MaxFaults
    BY BoundsAssumption, PipelineAssumption DEF Phases
  <1>3. cached \in [gen : 1..Len(specs), status : Statuses]
    BY <1>1, NoStatusType DEF Init
  <1>4. gen \in 1..cached.gen /\ gen = 1
    BY DEF Init
  <1>5. /\ want \in [Stages -> 0..gen] /\ have \in [Stages -> Nat]
        /\ \A q \in Stages : have[q] <= want[q]
    BY <1>4 DEF Init
  <1> QED
    BY <1>1, <1>2, <1>3, <1>4, <1>5, NoStatusType DEF Init, TypeOK

\* Every step keeps the types.
LEMMA TypeNext == TypeOK /\ [Next]_vars => TypeOK'
  <1> SUFFICES ASSUME TypeOK, [Next]_vars PROVE TypeOK'
    OBVIOUS
  <1> USE BoundsAssumption, PipelineAssumption
  <1>0. /\ \A c \in Reasons : c \in Conditions
        /\ 0 \in Stages /\ Phases \subseteq Stages
    BY DEF Reasons, Conditions, Stages, Phases
  <1>1. CASE StartGeneration
    <2>1. st' \in Statuses /\ requeue' \in BOOLEAN /\ pc' = "commit"
      BY <1>1, TakeType, InitializePendingType DEF StartGeneration
    <2>2. Take
      BY <1>1 DEF StartGeneration
    <2> QED  BY <2>1, <2>2, TakeType DEF TypeOK
  <1>2. CASE StartWork
    <2>1. st' \in Statuses /\ requeue' \in BOOLEAN /\ pc' \in {"manifest", "lcm"}
      BY <1>2, TakeType DEF StartWork
    <2>2. Take
      BY <1>2 DEF StartWork
    <2> QED  BY <2>1, <2>2, TakeType DEF TypeOK
  <1>3. CASE LCMConfigError
    <2>1. RequestOK /\ faults' \in 0..MaxFaults
      BY <1>3, UnchangedRequestType DEF LCMConfigError, TypeOK, Fault
    <2> QED  BY <1>3, <2>1, ReturnType, WorkType DEF LCMConfigError, TypeOK
  <1>4. CASE LCMConfigInvalid
    <2>1. RequestOK /\ faults' \in 0..MaxFaults
      BY <1>4, UnchangedRequestType DEF LCMConfigInvalid, TypeOK
    <2>2. [st EXCEPT !.applied = "Failed"] \in Statuses
      BY DEF TypeOK, Statuses, Conditions, Reasons
    <2> QED  BY <1>4, <2>1, <2>2, ReturnType, WorkType
                DEF LCMConfigInvalid, TypeOK
  <1>5. CASE LCMError
    <2>1. RequestOK /\ faults' \in 0..MaxFaults
      BY <1>0, <1>5, HandlerType DEF LCMError
    <2>2. [st EXCEPT !.lcm = "Failed"] \in Statuses
      BY DEF TypeOK, Statuses, Conditions, Reasons
    <2> QED  BY <1>5, <2>1, <2>2, ReturnType, WorkType DEF LCMError, TypeOK
  <1>6. CASE LCMWaits
    <2>1. PICK state \in {"InProgress", "Skipped"} :
            /\ \/ state = "InProgress" /\ HandlerInProgress(0)
               \/ state = "Skipped" /\ HandlerSkips(0)
            /\ Return([st EXCEPT !.lcm = UpdatePhaseCondition(@, state)], TRUE)
      BY <1>6 DEF LCMWaits
    <2>2. RequestOK /\ faults' \in 0..MaxFaults
      BY <1>0, <2>1, HandlerType
    <2>3. [st EXCEPT !.lcm = UpdatePhaseCondition(@, state)] \in Statuses
      BY DEF TypeOK, Statuses, Conditions, Reasons, UpdatePhaseCondition
    <2> QED  BY <2>1, <2>2, <2>3, ReturnType, WorkType DEF TypeOK
  <1>7. CASE LCMSucceeds
    <2>1. RequestOK /\ faults' \in 0..MaxFaults
      BY <1>0, <1>7, HandlerType DEF LCMSucceeds
    <2>2. st' \in Statuses
      BY <1>7 DEF LCMSucceeds, TypeOK, Statuses, Conditions, Reasons,
                  UpdatePhaseCondition
    <2> QED  BY <1>7, <2>1, <2>2, WorkType DEF LCMSucceeds, TypeOK, apiVars
  <1>8. Resolved \in Statuses
    BY DEF Resolved, TypeOK, Statuses, Conditions, Reasons
  <1>9. CASE ManifestError
    <2>1. RequestOK /\ faults' \in 0..MaxFaults
      BY <1>9, UnchangedRequestType DEF ManifestError, TypeOK, Fault
    <2>2. [st EXCEPT !.manifest = "Failed"] \in Statuses
      BY DEF TypeOK, Statuses, Conditions, Reasons
    <2> QED  BY <1>9, <2>1, <2>2, ReturnType, WorkType DEF ManifestError, TypeOK
  <1>10. CASE ConfigInvalid
    <2>1. RequestOK /\ faults' \in 0..MaxFaults
      BY <1>10, UnchangedRequestType DEF ConfigInvalid, TypeOK
    <2>2. [Resolved EXCEPT !.applied = "Failed"] \in Statuses
      BY <1>8 DEF Statuses, Conditions, Reasons
    <2> QED  BY <1>10, <2>1, <2>2, ReturnType, WorkType
                DEF ConfigInvalid, TypeOK
  <1>11. CASE ConfigError
    <2>1. RequestOK /\ faults' \in 0..MaxFaults
      BY <1>11, UnchangedRequestType DEF ConfigError, TypeOK, Fault
    <2> QED  BY <1>8, <1>11, <2>1, ReturnType, WorkType DEF ConfigError, TypeOK
  <1>12. CASE StartPipeline
    <2>1. RequestOK /\ faults' \in 0..MaxFaults
      BY <1>12, UnchangedRequestType DEF StartPipeline, TypeOK, clusterVars
    <2> QED  BY <1>8, <1>12, <2>1, WorkType DEF StartPipeline, TypeOK, apiVars
  <1>13. CASE PhaseErrors
    <2>1. RequestOK /\ faults' \in 0..MaxFaults
      BY <1>0, <1>13, HandlerType DEF PhaseErrors, TypeOK
    <2>2. [st EXCEPT !.phase[k] = "Failed"] \in Statuses
      BY DEF TypeOK, Statuses, Conditions, Reasons
    <2> QED  BY <1>13, <2>1, <2>2, ReturnType, WorkType DEF PhaseErrors, TypeOK
  <1>14. CASE PhaseIncomplete
    <2>1. PICK state \in {"InProgress", "Failed"} :
            /\ \/ state = "InProgress" /\ HandlerInProgress(k)
               \/ state = "Failed" /\ HandlerFailed(k)
            /\ Return(UpdatePhaseConditions(st, PhaseStates(state)), TRUE)
      BY <1>14 DEF PhaseIncomplete
    <2>2. RequestOK /\ faults' \in 0..MaxFaults
      BY <1>0, <2>1, HandlerType DEF TypeOK
    <2>3. UpdatePhaseConditions(st, PhaseStates(state)) \in Statuses
      BY PhaseStatesType, UpdatePhaseConditionsType
         DEF TypeOK, Conditions, Reasons
    <2> QED  BY <2>1, <2>2, <2>3, ReturnType, WorkType DEF TypeOK
  <1>15. CASE PhaseAdvances
    <2>1. RequestOK /\ faults' \in 0..MaxFaults
      BY <1>0, <1>15, HandlerType DEF PhaseAdvances, HandlerCompletes, TypeOK
    <2> QED  BY <1>15, <2>1, WorkType
                DEF PhaseAdvances, MoreHandlers, TypeOK, apiVars, Phases
  <1>16. CASE PipelineCompletes
    <2>1. RequestOK /\ faults' \in 0..MaxFaults
      BY <1>0, <1>16, HandlerType DEF PipelineCompletes, HandlerCompletes, TypeOK
    <2> DEFINE last == IF Needed(gen, k) THEN "Succeeded" ELSE "Skipped"
               s == UpdatePhaseConditions(st, PhaseStates(last))
    <2>2. s \in Statuses
      BY PhaseStatesType, UpdatePhaseConditionsType
         DEF TypeOK, Conditions, Reasons
    <2>3. specs[gen].version \in Nat
      BY SpecsAssumption DEF TypeOK, SpecRecords
    <2>4. [s EXCEPT !.version = specs[gen].version] \in Statuses
      BY <2>2, <2>3 DEF Statuses
    <2> QED  BY <1>16, <2>1, <2>4, ReturnType, WorkType
                DEF PipelineCompletes, TypeOK
  <1>17. CASE SkipUpdate \/ WriteStatus
    BY <1>17, FinishType DEF SkipUpdate, WriteStatus, TypeOK
  <1>18. CASE WriteConflicts \/ WriteFails
    <2>1. Finish(TRUE)
      BY <1>18, Zenon DEF WriteConflicts, WriteFails
    <2>2. status' \in Statuses
      BY <1>18 DEF WriteConflicts, WriteFails, TypeOK
    <2>3. faults' \in 0..MaxFaults
      BY <1>18, FaultType DEF WriteConflicts, WriteFails
    <2> QED  BY <2>1, <2>2, <2>3, FinishType
  <1>19. CASE \E s \in Specs : Edit(s)
    <2>1. PICK s \in Specs : Edit(s)
      BY <1>19
    <2>2. specs' \in Seq(Specs) /\ Len(specs') = Len(specs) + 1
      BY <2>1 DEF Edit, TypeOK
    <2> QED  BY <2>1, <2>2 DEF Edit, TypeOK, workVars, clusterVars
  <1>20. CASE CacheSync
    BY <1>20 DEF CacheSync, Current, TypeOK, apiVars, workVars, clusterVars
  <1>21. CASE \E q \in Stages : Achieve(q)
    <2>1. PICK q \in Stages : Achieve(q)
      BY <1>21
    <2>2. /\ have' = [have EXCEPT ![q] = want[q]] /\ queued' \in BOOLEAN
          /\ UNCHANGED <<specs, status, cached, pc, gen, st, orig, k, requeue,
                         want, faults>>
      BY <2>1 DEF Achieve, apiVars, workVars, TypeOK
    <2>3. /\ have' \in [Stages -> Nat]
          /\ \A p \in Stages : have'[p] <= want'[p]
      BY <2>2 DEF TypeOK
    <2> QED  BY <2>2, <2>3 DEF TypeOK
  <1>22. CASE Resync
    BY <1>22 DEF Resync, TypeOK, apiVars, workVars, clusterVars
  <1>23. CASE Crash
    <2>1. /\ pc' = "idle" /\ st' = NoStatus /\ orig' = NoStatus /\ k' = 1
          /\ requeue' = FALSE /\ gen' = gen /\ queued' = TRUE
          /\ specs' = specs /\ status' = status /\ want' = want /\ have' = have
          /\ cached' = [gen |-> Len(specs), status |-> status]
          /\ faults' \in 0..MaxFaults
      BY <1>23 DEF Crash, Forget, Current, apiVars, clusterVars, Fault, TypeOK
    <2>2. 1 \in Phases
      BY DEF Phases
    <2>3. /\ cached' \in [gen : 1..Len(specs'), status : Statuses]
          /\ gen' \in 1..cached'.gen
      BY <2>1 DEF TypeOK
    <2> QED  BY <2>1, <2>2, <2>3, NoStatusType DEF TypeOK
  <1>24. CASE UNCHANGED vars
    BY <1>24 DEF vars, TypeOK
  <1> QED
    BY <1>1, <1>2, <1>3, <1>4, <1>5, <1>6, <1>7, <1>9, <1>10, <1>11, <1>12,
       <1>13, <1>14, <1>15, <1>16, <1>17, <1>18, <1>19, <1>20, <1>21, <1>22, <1>23,
       <1>24 DEF Next, Reconcile

\* The variables keep to their types: in particular the reconciler only works
\* with submitted generations, and no stage gets past what it was asked for.
THEOREM TypeCorrect == Spec => []TypeOK
  BY TypeInit, TypeNext, PTL DEF Spec

-----------------------------------------------------------------------------
(***************************************************************************)
(* The inductive invariant.  AppliedHonest is not inductive: Applied is    *)
(* computed from the other conditions of a copy of the status, which may   *)
(* be old.  What is inductive is that every copy in the system (the stored *)
(* one, the cached one, the one being worked on) is true of the cluster by *)
(* now, however old it is: what a status claims is about the generation it *)
(* has observed, and the cluster does not lose a generation it reached.    *)
(***************************************************************************)
ReachedBy(g, q, sp, hv) == q \in sp[g].needs => hv[q] >= g

\* Everything a status claims but Applied.
TrueBody(s, sp, hv) ==
    /\ s.observed \in 0..Len(sp)
    /\ Complete(s.lcm) => s.observed > 0 /\ ReachedBy(s.observed, 0, sp, hv)
    /\ \A p \in Phases : Complete(s.phase[p]) =>
          s.observed > 0 /\ ReachedBy(s.observed, p, sp, hv)
    /\ Complete(s.manifest) => Complete(s.lcm)
    /\ (\A p \in Phases : Complete(s.phase[p])) =>
          s.version = sp[s.observed].version
    /\ s.version # 0 =>
          \E g \in 1..Len(sp) : /\ sp[g].version = s.version
                                /\ \A q \in Stages : ReachedBy(g, q, sp, hv)

AllComplete(s) == Complete(s.lcm) /\ \A p \in Phases : Complete(s.phase[p])

TrueStatus(s, sp, hv) == /\ TrueBody(s, sp, hv)
                         /\ s.applied = "Succeeded" => AllComplete(s)

\* What the place in the reconcile says of the working copy.
Position ==
    /\ pc \in {"lcm", "manifest", "phase"} => st.observed = gen
    /\ pc = "lcm" => ~Complete(st.lcm)
    /\ pc \in {"lcm", "manifest"} => k = 1
    /\ pc \in {"manifest", "phase"} => Complete(st.lcm)
    /\ pc = "phase" => /\ st.manifest = "Succeeded"
                       /\ \A q \in Phases : q < k => Reached(gen, q)

Inv == /\ TypeOK
       /\ TrueStatus(status, specs, have)
       /\ TrueStatus(cached.status, specs, have)
       /\ TrueStatus(st, specs, have)
       /\ Position
       /\ StageOrder

\* Specs are only appended and stages only advance.
Grows(sp, hv, sp2, hv2) ==
    /\ Len(sp) <= Len(sp2)
    /\ \A g \in 1..Len(sp) : sp2[g] = sp[g]
    /\ \A q \in Stages : hv[q] <= hv2[q]

\* What a generation reached stays reached while have grows.
LEMMA ReachedGrows ==
    ASSUME NEW sp \in Seq(Specs), NEW sp2 \in Seq(Specs),
           NEW hv \in [Stages -> Nat], NEW hv2 \in [Stages -> Nat],
           Grows(sp, hv, sp2, hv2),
           NEW g \in 1..Len(sp), NEW q \in Stages, ReachedBy(g, q, sp, hv)
    PROVE  ReachedBy(g, q, sp2, hv2)
  BY DEF Grows, ReachedBy

\* A true status stays true.
LEMMA TruthLasts ==
    ASSUME NEW sp \in Seq(Specs), NEW sp2 \in Seq(Specs),
           NEW hv \in [Stages -> Nat], NEW hv2 \in [Stages -> Nat],
           Grows(sp, hv, sp2, hv2),
           NEW s \in Statuses, TrueStatus(s, sp, hv)
    PROVE  TrueStatus(s, sp2, hv2)
  <1>1. 0 \in Stages /\ Phases \subseteq Stages /\ N \in Nat /\ 1 \in Phases
    BY PipelineAssumption DEF Stages, Phases
  <1>2. Len(sp) \in Nat /\ Len(sp2) \in Nat /\ Len(sp) <= Len(sp2)
    BY DEF Grows
  <1>3. s.observed \in 0..Len(sp)
    BY DEF TrueStatus, TrueBody
  <1>4. s.observed \in 0..Len(sp2)
    BY <1>2, <1>3
  <1>5. ASSUME s.observed > 0, NEW q \in Stages,
               ReachedBy(s.observed, q, sp, hv)
        PROVE  ReachedBy(s.observed, q, sp2, hv2)
    <2>1. s.observed \in 1..Len(sp)
      BY <1>2, <1>3, <1>5
    <2> QED  BY <1>5, <2>1, ReachedGrows
  <1>6. ASSUME \A p \in Phases : Complete(s.phase[p])
        PROVE  s.version = sp2[s.observed].version
    <2>1. s.observed > 0 /\ s.version = sp[s.observed].version
      BY <1>1, <1>6 DEF TrueStatus, TrueBody
    <2> QED  BY <1>2, <1>3, <2>1 DEF Grows
  <1>7. ASSUME s.version # 0
        PROVE  \E g \in 1..Len(sp2) : /\ sp2[g].version = s.version
                                      /\ \A q \in Stages : ReachedBy(g, q, sp2, hv2)
    <2>1. PICK g \in 1..Len(sp) : /\ sp[g].version = s.version
                                  /\ \A q \in Stages : ReachedBy(g, q, sp, hv)
      BY <1>7 DEF TrueStatus, TrueBody
    <2>2. g \in 1..Len(sp2) /\ sp2[g] = sp[g]
      BY <1>2 DEF Grows
    <2> QED  BY <2>1, <2>2, ReachedGrows
  <1> QED  BY <1>1, <1>4, <1>5, <1>6, <1>7 DEF TrueStatus, TrueBody

\* updateAppliedCondition makes Applied true of the other conditions, unless
\* it leaves alone a Succeeded that these do not bear out.
LEMMA UpdateAppliedTrue ==
    ASSUME NEW sp, NEW hv, NEW s \in Statuses, TrueBody(s, sp, hv),
           s.applied = "Succeeded" =>
              \/ AllComplete(s) \/ s.lcm = "Failed" \/ s.manifest = "Failed"
              \/ /\ Complete(s.manifest)
                 /\ \E p \in Phases : s.phase[p] \in {"Failed", "InProgress"}
    PROVE  TrueStatus(UpdateApplied(s), sp, hv)
  <1> DEFINE u == UpdateApplied(s)
  <1>1. /\ u.version = s.version /\ u.observed = s.observed /\ u.lcm = s.lcm
        /\ u.manifest = s.manifest /\ u.phase = s.phase
        /\ u.applied = AppliedOf(s)
    BY DEF UpdateApplied, Statuses
  <1>2. TrueBody(u, sp, hv)
    BY <1>1 DEF TrueBody
  <1>3. AppliedOf(s) = "Succeeded" => AllComplete(s)
    BY DEF AppliedOf, AllComplete, TrueBody, Complete
  <1>4. AllComplete(s) => AllComplete(u)
    BY <1>1 DEF AllComplete
  <1> QED  BY <1>1, <1>2, <1>3, <1>4 DEF TrueStatus

\* A reset status claims nothing but the version, which it keeps.
LEMMA InitializePendingTrue ==
    ASSUME NEW sp \in Seq(Specs), NEW hv, NEW s \in Statuses,
           TrueStatus(s, sp, hv), NEW g \in 1..Len(sp)
    PROVE  TrueStatus(InitializePending(s, g), sp, hv)
  <1>1. 1 \in Phases
    BY PipelineAssumption DEF Phases
  <1> QED  BY <1>1 DEF TrueStatus, TrueBody, AllComplete, InitializePending,
                       Complete

\* The empty status claims nothing.
LEMMA NoStatusTrue ==
    ASSUME NEW sp \in Seq(Specs), NEW hv
    PROVE  TrueStatus(NoStatus, sp, hv)
  <1>1. 1 \in Phases
    BY PipelineAssumption DEF Phases
  <1> QED  BY <1>1 DEF TrueStatus, TrueBody, AllComplete, NoStatus, Complete

-----------------------------------------------------------------------------
(* How each kind of return keeps the status true.  sp and hv stand for the *)
(* specs and the cluster after the step.                                   *)

\* The deferred update of a true status.
LEMMA UpdatedTrue ==
    ASSUME NEW sp, NEW hv, NEW s \in Statuses, TrueStatus(s, sp, hv)
    PROVE  TrueStatus(UpdateApplied(s), sp, hv)
  BY UpdateAppliedTrue DEF TrueStatus

\* The condition of a stage 0 that was not complete.
LEMMA SetLCMTrue ==
    ASSUME NEW sp, NEW hv, NEW s \in Statuses, TrueStatus(s, sp, hv),
           ~Complete(s.lcm), NEW c \in Conditions,
           Complete(c) => s.observed > 0 /\ ReachedBy(s.observed, 0, sp, hv)
    PROVE  TrueStatus([s EXCEPT !.lcm = c], sp, hv)
  <1> DEFINE u == [s EXCEPT !.lcm = c]
  <1>1. /\ u.version = s.version /\ u.observed = s.observed /\ u.lcm = c
        /\ u.manifest = s.manifest /\ u.phase = s.phase
        /\ u.applied = s.applied
    BY DEF Statuses
  <1>2. ~Complete(s.manifest) /\ s.applied # "Succeeded"
    BY DEF TrueStatus, TrueBody, AllComplete
  <1>3. TrueBody(u, sp, hv)
    BY <1>1, <1>2 DEF TrueStatus, TrueBody
  <1> QED  BY <1>1, <1>2, <1>3 DEF TrueStatus

\* The manifest is dealt with only after stage 0.
LEMMA SetManifestTrue ==
    ASSUME NEW sp, NEW hv, NEW s \in Statuses, TrueStatus(s, sp, hv),
           Complete(s.lcm), NEW c \in Conditions
    PROVE  TrueStatus([s EXCEPT !.manifest = c], sp, hv)
  <1> DEFINE u == [s EXCEPT !.manifest = c]
  <1>1. /\ u.version = s.version /\ u.observed = s.observed /\ u.lcm = s.lcm
        /\ u.phase = s.phase /\ u.applied = s.applied
    BY DEF Statuses
  <1> QED  BY <1>1 DEF TrueStatus, TrueBody, AllComplete

\* Applied set to Failed claims nothing.
LEMMA SetAppliedFailedTrue ==
    ASSUME NEW sp, NEW hv, NEW s \in Statuses, TrueStatus(s, sp, hv)
    PROVE  TrueStatus([s EXCEPT !.applied = "Failed"], sp, hv)
  <1> DEFINE u == [s EXCEPT !.applied = "Failed"]
  <1>1. /\ u.version = s.version /\ u.observed = s.observed /\ u.lcm = s.lcm
        /\ u.phase = s.phase /\ u.manifest = s.manifest /\ u.applied = "Failed"
    BY DEF Statuses
  <1> QED  BY <1>1 DEF TrueStatus, TrueBody

\* One phase turns out incomplete, and those whose condition is complete
\* (the ones before it now, the others earlier) have been reached.
LEMMA PhaseIncompleteTrue ==
    ASSUME NEW sp, NEW hv, NEW s \in Statuses, TrueStatus(s, sp, hv),
           Complete(s.manifest),
           NEW f \in [Phases -> Conditions],
           NEW j \in Phases, f[j] \in {"Failed", "InProgress"},
           \A p \in Phases : Complete(f[p]) =>
              s.observed > 0 /\ ReachedBy(s.observed, p, sp, hv)
    PROVE  TrueStatus(UpdateApplied([s EXCEPT !.phase = f]), sp, hv)
  <1> DEFINE u == [s EXCEPT !.phase = f]
  <1>1. /\ u.version = s.version /\ u.observed = s.observed /\ u.lcm = s.lcm
        /\ u.phase = f /\ u.manifest = s.manifest /\ u.applied = s.applied
        /\ u \in Statuses
    BY DEF Statuses
  <1>2. ~Complete(f[j])
    BY DEF Complete
  <1>3. TrueBody(u, sp, hv)
    BY <1>1, <1>2 DEF TrueStatus, TrueBody
  <1>4. Complete(u.manifest) /\ u.phase[j] \in {"Failed", "InProgress"}
    BY <1>1
  <1> HIDE DEF u
  <1>5. TrueStatus(UpdateApplied(u), sp, hv)
    BY <1>1, <1>3, <1>4, UpdateAppliedTrue
  <1> QED  BY <1>5 DEF u

\* Every stage was reached, and the version is that of the generation.
LEMMA PipelineCompleteTrue ==
    ASSUME NEW sp \in Seq(Specs), NEW hv, NEW s \in Statuses,
           TrueStatus(s, sp, hv), Complete(s.lcm),
           NEW f \in [Phases -> Conditions],
           s.observed \in 1..Len(sp),
           \A q \in Stages : ReachedBy(s.observed, q, sp, hv),
           \A p \in Phases : Complete(f[p])
    PROVE  TrueStatus([[s EXCEPT !.phase = f] EXCEPT
                          !.version = sp[s.observed].version], sp, hv)
  <1> DEFINE u == [[s EXCEPT !.phase = f] EXCEPT
                      !.version = sp[s.observed].version]
  <1>1. /\ u.version = sp[s.observed].version /\ u.observed = s.observed
        /\ u.lcm = s.lcm /\ u.phase = f /\ u.manifest = s.manifest
        /\ u.applied = s.applied
    BY DEF Statuses
  <1>2. s.observed > 0 /\ Phases \subseteq Stages
    BY PipelineAssumption DEF Phases, Stages
  <1>3. TrueBody(u, sp, hv)
    BY <1>1, <1>2 DEF TrueStatus, TrueBody
  <1>4. AllComplete(u)
    BY <1>1 DEF AllComplete
  <1> QED  BY <1>3, <1>4 DEF TrueStatus

-----------------------------------------------------------------------------
(* Stages are asked for in order, and what was reached stays reached.      *)

\* What a step within a reconcile does to the stages: nothing, or a request
\* of the generation being reconciled for one stage.
Requests(q) == \/ UNCHANGED clusterVars
               \/ want' = [want EXCEPT ![q] = gen] /\ Request(q)

\* Every outcome of a handler is a request or leaves the cluster alone.
LEMMA HandlerRequests ==
    ASSUME NEW q \in Stages,
           \/ HandlerSkips(q) \/ HandlerSucceeds(q) \/ HandlerInProgress(q)
           \/ HandlerFailed(q) \/ MaybeRequest(q)
    PROVE  Requests(q)
  BY DEF HandlerSkips, HandlerSucceeds, HandlerInProgress, HandlerFailed,
         MaybeRequest, Requests, Request

\* A request never lowers what a stage has reached.
LEMMA RequestGrows ==
    ASSUME TypeOK, NEW q \in Stages, Requests(q), UNCHANGED specs
    PROVE  Grows(specs, have, specs', have')
  <1>1. Len(specs) \in Nat
    BY DEF TypeOK
  <1>2. ASSUME NEW p \in Stages PROVE have[p] <= have'[p]
    <2>1. have[p] \in Nat /\ have[p] <= want[p] /\ want[p] \in 0..gen
          /\ gen \in Nat
      BY DEF TypeOK
    <2>2. have' = have \/ have' = [have EXCEPT ![q] = gen]
      BY DEF Requests, Request, clusterVars
    <2> QED  BY <2>1, <2>2 DEF TypeOK
  <1> QED  BY <1>1, <1>2 DEF Grows

\* Reached is ReachedBy of the state's specs and stages.
LEMMA ReachedIs ==
    ASSUME NEW g, NEW q
    PROVE  /\ Reached(g, q) <=> ReachedBy(g, q, specs, have)
           /\ Reached(g, q)' <=> ReachedBy(g, q, specs', have')
  BY DEF Reached, Needed, ReachedBy

\* StageOrder survives steps that request no stage.
LEMMA StageOrderLasts ==
    ASSUME TypeOK, TypeOK', StageOrder, Grows(specs, have, specs', have'),
           NEW q \in Stages, want' = want \/ want' = [want EXCEPT ![q] = gen],
           want' # want => \A r \in 0..(q - 1) : Reached(gen, r)
    PROVE  StageOrder'
  <1>1. /\ specs \in Seq(Specs) /\ specs' \in Seq(Specs)
        /\ have \in [Stages -> Nat] /\ have' \in [Stages -> Nat]
        /\ gen \in 1..Len(specs) /\ want \in [Stages -> 0..gen]
        /\ Len(specs) \in Nat
    BY DEF TypeOK
  <1> SUFFICES ASSUME NEW p \in Stages, want'[p] > 0, NEW r \in 0..(p - 1)
               PROVE  ReachedBy(want'[p], r, specs', have')
    BY DEF StageOrder, Reached, Needed, ReachedBy
  <1>2. r \in Stages
    BY PipelineAssumption DEF Stages
  <1>3. want'[p] \in 1..Len(specs)
    <2>1. gen \in 1..Len(specs) /\ want[p] \in 0..gen /\ Len(specs) \in Nat
      BY <1>1
    <2>2. want'[p] \in {want[p], gen}
      BY <1>1
    <2> QED  BY <2>1, <2>2
  <1>4. Reached(want'[p], r)
    <2>1. CASE want'[p] = want[p]
      BY <2>1 DEF StageOrder
    <2>2. CASE want'[p] # want[p]
      BY <1>1, <2>2
    <2> QED  BY <2>1, <2>2
  <1>5. ReachedBy(want'[p], r, specs, have)
    BY <1>4 DEF Reached, Needed, ReachedBy
  <1> QED  BY <1>1, <1>2, <1>3, <1>5, ReachedGrows

\* A stage that is complete in the working copy was reached; in the pipeline
\* so was every stage before handler k.
LEMMA ReachedBefore ==
    ASSUME Inv, pc = "phase", NEW r \in 0..(k - 1)
    PROVE  Reached(gen, r)
  <1>1. st.observed = gen /\ Complete(st.lcm)
    BY DEF Inv, Position
  <1>2. CASE r = 0
    BY <1>1, <1>2, ReachedIs DEF Inv, TrueStatus, TrueBody
  <1>3. CASE r # 0
    <2>1. r \in Phases /\ r < k
      BY <1>3, PipelineAssumption DEF Inv, TypeOK, Phases
    <2> QED  BY <2>1 DEF Inv, Position
  <1> QED  BY <1>2, <1>3

\* The three statuses, whatever else a step that grows changes.
LEMMA StatusesLast ==
    ASSUME Inv, TypeOK', Grows(specs, have, specs', have')
    PROVE  /\ TrueStatus(status, specs', have')
           /\ TrueStatus(cached.status, specs', have')
           /\ TrueStatus(st, specs', have')
  <1>1. /\ specs \in Seq(Specs) /\ specs' \in Seq(Specs)
        /\ have \in [Stages -> Nat] /\ have' \in [Stages -> Nat]
        /\ status \in Statuses /\ cached.status \in Statuses /\ st \in Statuses
    BY DEF Inv, TypeOK
  <1> QED  BY <1>1, TruthLasts DEF Inv

\* A step of handler q within a reconcile, up to the status it works on.
LEMMA WorkInv ==
    ASSUME Inv, TypeOK', NEW q \in Stages, Requests(q),
           \A r \in 0..(q - 1) : Reached(gen, r),
           UNCHANGED <<specs, status, cached>>,
           TrueStatus(st', specs', have'), Position'
    PROVE  Inv'
  <1>1. Grows(specs, have, specs', have')
    BY RequestGrows DEF Inv
  <1>2. want' = want \/ want' = [want EXCEPT ![q] = gen]
    BY DEF Requests, clusterVars
  <1>3. StageOrder'
    BY <1>1, <1>2, StageOrderLasts DEF Inv
  <1> QED  BY <1>1, <1>3, StatusesLast DEF Inv

\* A return of reconcileNormal.
LEMMA ReturnInv ==
    ASSUME Inv, TypeOK', NEW q \in Stages, Requests(q),
           \A r \in 0..(q - 1) : Reached(gen, r),
           NEW s, NEW again, Return(s, again),
           TrueStatus(UpdateApplied(s), specs', have')
    PROVE  Inv'
  <1>1. st' = UpdateApplied(s) /\ pc' = "commit"
        /\ UNCHANGED <<specs, status, cached>>
    BY DEF Return, apiVars
  <1>2. Position'
    BY <1>1 DEF Position
  <1> QED  BY <1>1, <1>2, WorkInv

\* A step outside reconcileNormal that leaves want alone.
LEMMA OtherInv ==
    ASSUME Inv, TypeOK', Grows(specs, have, specs', have'), want' = want,
           TrueStatus(status', specs', have'),
           TrueStatus(cached'.status, specs', have'),
           TrueStatus(st', specs', have'), Position'
    PROVE  Inv'
  <1>1. 0 \in Stages
    BY PipelineAssumption DEF Stages
  <1>2. StageOrder'
    BY <1>1, StageOrderLasts DEF Inv
  <1> QED  BY <1>2 DEF Inv

\* A step that leaves specs and have alone is one that grows.
LEMMA NothingGrows ==
    ASSUME TypeOK, UNCHANGED <<specs, have>>
    PROVE  Grows(specs, have, specs', have')
  BY DEF Grows, TypeOK

\* The end of a reconcile and a crash: the status stored is one of the three.
LEMMA FinishInv ==
    ASSUME Inv, TypeOK', UNCHANGED <<specs, want, have>>, Forget,
           status' \in {status, st},
           cached'.status \in {cached.status, status}
    PROVE  Inv'
  <1>1. Grows(specs, have, specs', have')
    BY NothingGrows DEF Inv
  <1>2. TrueStatus(st', specs', have')
    BY NoStatusTrue DEF Forget, Inv, TypeOK
  <1>3. Position'
    BY DEF Forget, Position
  <1> QED  BY <1>1, <1>2, <1>3, StatusesLast, OtherInv

-----------------------------------------------------------------------------
(* The invariant is inductive.                                             *)

\* The inductive invariant holds initially.
LEMMA InvInit == Init => Inv
  <1> SUFFICES ASSUME Init PROVE Inv
    OBVIOUS
  <1>1. TypeOK
    BY TypeInit
  <1>2. /\ status = NoStatus /\ cached.status = NoStatus /\ st = NoStatus
        /\ specs \in Seq(Specs)
    BY DEF Init
  <1>3. /\ TrueStatus(status, specs, have)
        /\ TrueStatus(cached.status, specs, have)
        /\ TrueStatus(st, specs, have)
    BY <1>2, NoStatusTrue
  <1>4. Position /\ StageOrder
    BY DEF Init, Position, StageOrder
  <1> QED  BY <1>1, <1>3, <1>4 DEF Inv

\* The steps up to and including the LCM phase.
LEMMA InvLCM ==
    ASSUME Inv, TypeOK',
           \/ StartGeneration \/ StartWork
           \/ LCMConfigError \/ LCMConfigInvalid \/ LCMError \/ LCMWaits
           \/ LCMSucceeds
    PROVE  Inv'
  <1>0. \A r \in 0..(0 - 1) : Reached(gen, r)
    OBVIOUS
  <1>a. TypeOK
    BY DEF Inv
  <1>b. 0 \in Stages
    BY PipelineAssumption DEF Stages
  <1>1. /\ TypeOK /\ 0 \in Stages
        /\ st \in Statuses /\ cached.status \in Statuses
        /\ specs \in Seq(Specs) /\ gen \in 1..Len(specs) /\ gen > 0
        /\ have \in [Stages -> Nat]
    BY <1>a, <1>b DEF TypeOK
  <1>2. CASE StartGeneration
    <2>1. Take
      BY <1>2 DEF StartGeneration
    <2>2. Grows(specs, have, specs', have')
      BY <1>1, <2>1, TakeType, NothingGrows
    <2>3. cached.gen \in 1..Len(specs)
      BY <1>1 DEF TypeOK
    <2>4. TrueStatus(st', specs', have')
      BY <1>1, <1>2, <2>1, <2>2, <2>3, TakeType, StatusesLast,
         InitializePendingTrue DEF StartGeneration
    <2>5. Position'
      BY <1>2 DEF StartGeneration, Position
    <2> QED  BY <1>1, <2>1, <2>2, <2>4, <2>5, TakeType, StatusesLast, OtherInv
  <1>3. CASE StartWork
    <2>1. Take
      BY <1>3 DEF StartWork
    <2>2. Grows(specs, have, specs', have')
      BY <1>1, <2>1, TakeType, NothingGrows
    <2>3. st' = cached.status /\ st'.observed = gen'
      BY <1>1, <1>3, <2>1, TakeType DEF StartWork, Seen
    <2>4. Position'
      BY <1>3, <2>3 DEF StartWork, Take, Position, LCMDone
    <2> QED  BY <1>1, <2>1, <2>2, <2>3, <2>4, TakeType, StatusesLast, OtherInv
  <1>4. ASSUME pc = "lcm"
        PROVE  st.observed = gen /\ ~Complete(st.lcm) /\ k = 1
    BY <1>4 DEF Inv, Position
  <1>5. ASSUME Requests(0), UNCHANGED specs
        PROVE  TrueStatus(st, specs', have')
    BY <1>1, <1>5, RequestGrows, StatusesLast
  <1>6. CASE LCMConfigError
    <2>1. Requests(0) /\ Return(st, TRUE) /\ UNCHANGED specs
      BY <1>6 DEF LCMConfigError, Requests, Return, apiVars
    <2> QED  BY <1>0, <1>1, <1>5, <2>1, UpdatedTrue, ReturnInv
  <1>7. CASE LCMConfigInvalid
    <2>1. /\ Requests(0) /\ Return([st EXCEPT !.applied = "Failed"], FALSE)
          /\ UNCHANGED specs
      BY <1>7 DEF LCMConfigInvalid, Requests, Return, apiVars
    <2>2. /\ TrueStatus([st EXCEPT !.applied = "Failed"], specs', have')
          /\ [st EXCEPT !.applied = "Failed"] \in Statuses
      BY <1>1, <1>5, <2>1, SetAppliedFailedTrue
         DEF Statuses, Conditions, Reasons
    <2> QED  BY <1>0, <1>1, <2>1, <2>2, UpdatedTrue, ReturnInv
  <1>8. CASE LCMError
    <2>1. /\ Requests(0) /\ Return([st EXCEPT !.lcm = "Failed"], FALSE)
          /\ UNCHANGED specs /\ pc = "lcm"
      BY <1>1, <1>8, HandlerRequests
         DEF LCMError, LCMConfigured, Return, apiVars
    <2>2. "Failed" \in Conditions /\ ~Complete("Failed")
      BY DEF Conditions, Reasons, Complete
    <2>3. /\ TrueStatus([st EXCEPT !.lcm = "Failed"], specs', have')
          /\ [st EXCEPT !.lcm = "Failed"] \in Statuses
      BY <1>1, <1>4, <1>5, <2>1, <2>2, SetLCMTrue DEF Statuses
    <2> QED  BY <1>0, <1>1, <2>1, <2>3, UpdatedTrue, ReturnInv
  <1>9. CASE LCMWaits
    <2>1. PICK state \in {"InProgress", "Skipped"} :
            /\ \/ state = "InProgress" /\ HandlerInProgress(0)
               \/ state = "Skipped" /\ HandlerSkips(0)
            /\ Return([st EXCEPT !.lcm = UpdatePhaseCondition(@, state)], TRUE)
      BY <1>9 DEF LCMWaits
    <2>2. Requests(0) /\ UNCHANGED specs /\ pc = "lcm"
      BY <1>1, <1>9, <2>1, HandlerRequests
         DEF LCMWaits, LCMConfigured, Return, apiVars
    <2>3. UpdatePhaseCondition(st.lcm, state) = state /\ state \in Conditions
      BY <1>4, <2>2 DEF UpdatePhaseCondition, Conditions, Reasons
    <2>4. Complete(state) => ReachedBy(gen, 0, specs', have')
      <3>1. CASE state = "Skipped"
        BY <2>1, <2>2, <3>1 DEF HandlerSkips, Needed, ReachedBy
      <3>2. CASE state = "InProgress"
        BY <3>2 DEF Complete
      <3> QED  BY <3>1, <3>2
    <2>5. /\ TrueStatus([st EXCEPT !.lcm = state], specs', have')
          /\ [st EXCEPT !.lcm = state] \in Statuses
      BY <1>1, <1>4, <1>5, <2>2, <2>3, <2>4, SetLCMTrue DEF Statuses
    <2>6. Return([st EXCEPT !.lcm = state], TRUE)
      BY <2>1, <2>3
    <2> QED  BY <1>0, <1>1, <2>2, <2>5, <2>6, UpdatedTrue, ReturnInv
  <1>10. CASE LCMSucceeds
    <2>1. /\ Requests(0) /\ UNCHANGED <<specs, status, cached, gen, k>>
          /\ pc = "lcm" /\ pc' = "manifest"
      BY <1>1, <1>10, HandlerRequests DEF LCMSucceeds, LCMConfigured, apiVars
    <2>2. st' = [st EXCEPT !.lcm = "Succeeded"]
      BY <1>4, <1>10, <2>1 DEF LCMSucceeds, UpdatePhaseCondition
    <2>3. "Succeeded" \in Conditions /\ Complete("Succeeded")
      BY DEF Conditions, Reasons, Complete
    <2>4. ReachedBy(gen, 0, specs', have')
      BY <1>1, <1>10 DEF LCMSucceeds, HandlerSucceeds, AtGeneration, ReachedBy
    <2>5. TrueStatus(st', specs', have')
      BY <1>1, <1>4, <1>5, <2>1, <2>2, <2>3, <2>4, SetLCMTrue
    <2>6. st'.observed = gen' /\ Complete(st'.lcm)
      BY <1>1, <1>4, <2>1, <2>2, <2>3 DEF Statuses
    <2>7. Position'
      BY <1>4, <2>1, <2>6 DEF Position
    <2> QED  BY <1>0, <1>1, <2>1, <2>5, <2>7, WorkInv
  <1> QED  BY <1>2, <1>3, <1>6, <1>7, <1>8, <1>9, <1>10

\* The steps from the manifest to the start of the pipeline.
LEMMA InvManifest ==
    ASSUME Inv, TypeOK',
           ManifestError \/ ConfigInvalid \/ ConfigError \/ StartPipeline
    PROVE  Inv'
  <1>0. \A r \in 0..(0 - 1) : Reached(gen, r)
    OBVIOUS
  <1>a. TypeOK
    BY DEF Inv
  <1>b. 0 \in Stages
    BY PipelineAssumption DEF Stages
  <1>1. /\ TypeOK /\ 0 \in Stages
        /\ st \in Statuses
    BY <1>a, <1>b DEF TypeOK
  <1>2. /\ pc = "manifest" /\ Requests(0) /\ UNCHANGED <<specs, status, cached>>
        /\ gen' = gen
    BY DEF ManifestError, ConfigInvalid, ConfigError, StartPipeline, Requests,
           Return, apiVars
  <1>3. st.observed = gen /\ Complete(st.lcm) /\ k = 1
    BY <1>2 DEF Inv, Position
  <1>4. TrueStatus(st, specs', have')
    BY <1>1, <1>2, RequestGrows, StatusesLast
  <1>5. ASSUME NEW c \in {"Succeeded", "Failed"}
        PROVE  /\ TrueStatus([st EXCEPT !.manifest = c], specs', have')
               /\ [st EXCEPT !.manifest = c] \in Statuses
    <2>1. c \in Conditions
      BY <1>5 DEF Conditions, Reasons
    <2> QED  BY <1>1, <1>3, <1>4, <2>1, SetManifestTrue DEF Statuses
  <1>6. TrueStatus(Resolved, specs', have') /\ Resolved \in Statuses
    BY <1>5 DEF Resolved
  <1>7. CASE ManifestError
    <2>1. Return([st EXCEPT !.manifest = "Failed"], TRUE)
      BY <1>7 DEF ManifestError
    <2> QED  BY <1>0, <1>1, <1>2, <1>5, <2>1, UpdatedTrue, ReturnInv
  <1>8. CASE ConfigInvalid
    <2>1. Return([Resolved EXCEPT !.applied = "Failed"], FALSE)
      BY <1>8 DEF ConfigInvalid
    <2>2. /\ TrueStatus([Resolved EXCEPT !.applied = "Failed"], specs', have')
          /\ [Resolved EXCEPT !.applied = "Failed"] \in Statuses
      BY <1>6, SetAppliedFailedTrue DEF Statuses, Conditions, Reasons
    <2> QED  BY <1>0, <1>1, <1>2, <2>1, <2>2, UpdatedTrue, ReturnInv
  <1>9. CASE ConfigError
    <2>1. Return(Resolved, TRUE)
      BY <1>9 DEF ConfigError
    <2> QED  BY <1>0, <1>1, <1>2, <1>6, <2>1, UpdatedTrue, ReturnInv
  <1>10. CASE StartPipeline
    <2>1. st' = Resolved /\ pc' = "phase" /\ k' = k
      BY <1>10 DEF StartPipeline
    <2>2. /\ st'.observed = gen' /\ Complete(st'.lcm)
          /\ st'.manifest = "Succeeded"
      BY <1>1, <1>2, <1>3, <2>1 DEF Resolved, Statuses
    <2>3. ~(\E q \in Phases : q < k')
      BY <1>3, <2>1, PipelineAssumption DEF Phases
    <2>4. Position'
      BY <2>1, <2>2, <2>3 DEF Position
    <2> QED  BY <1>0, <1>1, <1>2, <1>6, <2>1, <2>4, WorkInv
  <1> QED  BY <1>7, <1>8, <1>9, <1>10

\* The conditions a run of the pipeline up to handler k leaves.
PhasesAfter(state) ==
    [p \in Phases |-> IF PhaseStates(state)[p] = "None" THEN st.phase[p]
                      ELSE UpdatePhaseCondition(st.phase[p],
                                                PhaseStates(state)[p])]

\* A phase before k is complete, phase k is as reported if it was not, and
\* the phases after k are as they were.
LEMMA PhasesAfterIs ==
    ASSUME TypeOK, NEW state \in Reasons
    PROVE  /\ PhasesAfter(state) \in [Phases -> Conditions]
           /\ UpdatePhaseConditions(st, PhaseStates(state))
                 = [st EXCEPT !.phase = PhasesAfter(state)]
           /\ \A p \in Phases : p < k => Complete(PhasesAfter(state)[p])
           /\ ~Complete(state) => PhasesAfter(state)[k] = state
           /\ Complete(state) => Complete(PhasesAfter(state)[k])
           /\ \A p \in Phases :
                 p > k => PhasesAfter(state)[p] = st.phase[p]
  <1> DEFINE f == PhaseStates(state)
  <1>1. state \in Conditions /\ state # "None" /\ k \in Phases /\ k \in Nat
        /\ st.phase \in [Phases -> Conditions]
    BY PipelineAssumption DEF TypeOK, Statuses, Conditions, Reasons, Phases
  <1>2. ASSUME NEW p \in Phases
        PROVE  /\ p < k => f[p] \in {"Succeeded", "Skipped"}
               /\ p = k => f[p] = state
               /\ p > k => f[p] = "None"
    BY <1>1, PipelineAssumption DEF PhaseStates, Phases
  <1>3. f \in [Phases -> Conditions]
    BY <1>1, PhaseStatesType
  <1> HIDE DEF f
  <1>4. ASSUME NEW p \in Phases
        PROVE  PhasesAfter(state)[p]
                  = IF f[p] = "None" THEN st.phase[p]
                    ELSE UpdatePhaseCondition(st.phase[p], f[p])
    BY DEF PhasesAfter, f
  <1>5. PhasesAfter(state) \in [Phases -> Conditions]
    <2>1. ASSUME NEW p \in Phases
          PROVE  (IF f[p] = "None" THEN st.phase[p]
                  ELSE UpdatePhaseCondition(st.phase[p], f[p])) \in Conditions
      BY <1>1, <1>3 DEF UpdatePhaseCondition
    <2> QED  BY <2>1 DEF PhasesAfter, f
  <1>6. ASSUME NEW p \in Phases, p < k
        PROVE  Complete(PhasesAfter(state)[p])
    BY <1>2, <1>4, <1>6 DEF UpdatePhaseCondition, Complete
  <1>7. ~Complete(state) => PhasesAfter(state)[k] = state
    BY <1>1, <1>2, <1>4 DEF UpdatePhaseCondition
  <1>8. Complete(state) => Complete(PhasesAfter(state)[k])
    BY <1>1, <1>2, <1>4 DEF UpdatePhaseCondition
  <1>9. ASSUME NEW p \in Phases, p > k
        PROVE  PhasesAfter(state)[p] = st.phase[p]
    BY <1>2, <1>4, <1>9
  <1>10. UpdatePhaseConditions(st, PhaseStates(state))
            = [st EXCEPT !.phase = PhasesAfter(state)]
    BY DEF UpdatePhaseConditions, PhasesAfter
  <1> QED  BY <1>5, <1>6, <1>7, <1>8, <1>9, <1>10

\* A stage that is asked for has reached the generation, or is not needed,
\* when its handler reports that it is complete.
LEMMA CompletesReached ==
    ASSUME NEW q, HandlerCompletes(q), UNCHANGED specs, gen \in Nat
    PROVE  ReachedBy(gen, q, specs', have')
  BY DEF HandlerCompletes, HandlerSkips, HandlerSucceeds, AtGeneration, Needed,
         ReachedBy

\* The steps of Pipeline.Reconcile.
LEMMA InvPipeline ==
    ASSUME Inv, TypeOK',
           PhaseErrors \/ PhaseIncomplete \/ PhaseAdvances \/ PipelineCompletes
    PROVE  Inv'
  <1>1. TypeOK
    BY DEF Inv
  <1>2. /\ k \in Phases /\ k \in Nat /\ st \in Statuses /\ gen \in Nat
        /\ gen \in 1..Len(specs) /\ gen > 0 /\ specs \in Seq(Specs)
        /\ Phases \subseteq Stages /\ k \in Stages /\ N \in Nat
    <2>1. /\ k \in Phases /\ st \in Statuses /\ specs \in Seq(Specs)
          /\ cached.gen \in 1..Len(specs) /\ gen \in 1..cached.gen
      BY <1>1 DEF TypeOK
    <2>2. Len(specs) \in Nat
      BY <2>1
    <2>3. gen \in 1..Len(specs) /\ gen \in Nat /\ gen > 0
      BY <2>1, <2>2
    <2>4. N \in Nat /\ Phases \subseteq Stages /\ \A p \in Phases : p \in Nat
      BY PipelineAssumption DEF Phases, Stages
    <2> QED  BY <2>1, <2>3, <2>4
  <1>3. pc = "phase" /\ UNCHANGED <<specs, status, cached, gen>>
    BY DEF PhaseErrors, PhaseIncomplete, PhaseAdvances, PipelineCompletes,
           Return, apiVars
  <1>4. Requests(k)
    BY <1>2, HandlerRequests
       DEF PhaseErrors, PhaseIncomplete, PhaseAdvances, PipelineCompletes,
           HandlerCompletes
  <1>5. \A r \in 0..(k - 1) : Reached(gen, r)
    BY <1>3, ReachedBefore
  <1>6. /\ st.observed = gen /\ Complete(st.lcm) /\ st.manifest = "Succeeded"
        /\ \A q \in Phases : q < k => Reached(gen, q)
    BY <1>3 DEF Inv, Position
  <1>7. Grows(specs, have, specs', have')
    BY <1>1, <1>2, <1>3, <1>4, RequestGrows
  <1>8. TrueStatus(st, specs', have')
    BY <1>7, StatusesLast
  <1>9. ASSUME NEW r \in Stages, Reached(gen, r)
        PROVE  ReachedBy(gen, r, specs', have')
    <2>1. /\ have \in [Stages -> Nat] /\ have' \in [Stages -> Nat]
          /\ specs' \in Seq(Specs)
      BY <1>1 DEF TypeOK
    <2>2. ReachedBy(gen, r, specs, have)
      BY <1>9, ReachedIs
    <2> QED  BY <1>2, <1>7, <2>1, <2>2, ReachedGrows
  <1>10. ASSUME NEW p \in Phases, Complete(st.phase[p])
         PROVE  ReachedBy(gen, p, specs', have')
    BY <1>6, <1>8, <1>10 DEF TrueStatus, TrueBody
  <1>11. Complete(st.manifest)
    BY <1>6 DEF Complete
  <1>12. CASE PhaseErrors
    <2> DEFINE f == [st.phase EXCEPT ![k] = "Failed"]
    <2>1. /\ f \in [Phases -> Conditions] /\ f[k] = "Failed"
          /\ \A p \in Phases : p # k => f[p] = st.phase[p]
      BY <1>2 DEF Statuses, Conditions, Reasons
    <2>2. [st EXCEPT !.phase[k] = "Failed"] = [st EXCEPT !.phase = f]
      BY <1>2 DEF Statuses
    <2> HIDE DEF f
    <2>3. ASSUME NEW p \in Phases, Complete(f[p])
          PROVE  st.observed > 0 /\ ReachedBy(st.observed, p, specs', have')
      <3>1. p # k
        BY <2>1, <2>3 DEF Complete
      <3> QED  BY <1>2, <1>6, <1>10, <2>1, <2>3, <3>1
    <2>4. TrueStatus(UpdateApplied([st EXCEPT !.phase = f]), specs', have')
      BY <1>2, <1>8, <1>11, <2>1, <2>3, PhaseIncompleteTrue
    <2>5. Return([st EXCEPT !.phase = f], TRUE)
      BY <1>12, <2>2 DEF PhaseErrors
    <2> QED  BY <1>2, <1>4, <1>5, <2>4, <2>5, ReturnInv
  <1>13. CASE PhaseIncomplete
    <2>1. PICK state \in {"InProgress", "Failed"} :
            Return(UpdatePhaseConditions(st, PhaseStates(state)), TRUE)
      BY <1>13 DEF PhaseIncomplete
    <2>2. state \in Reasons /\ ~Complete(state)
      BY DEF Reasons, Complete
    <2> DEFINE f == PhasesAfter(state)
    <2>3. /\ f \in [Phases -> Conditions] /\ f[k] = state
          /\ UpdatePhaseConditions(st, PhaseStates(state))
                = [st EXCEPT !.phase = f]
          /\ \A p \in Phases : p > k => f[p] = st.phase[p]
      BY <1>1, <2>2, PhasesAfterIs
    <2> HIDE DEF f
    <2>4. ASSUME NEW p \in Phases, Complete(f[p])
          PROVE  st.observed > 0 /\ ReachedBy(st.observed, p, specs', have')
      <3>1. CASE p < k
        BY <1>2, <1>6, <1>9, <3>1
      <3>2. CASE p = k
        BY <2>2, <2>3, <2>4, <3>2
      <3>3. CASE p > k
        BY <1>2, <1>6, <1>10, <2>3, <2>4, <3>3
      <3> QED  BY <1>2, <3>1, <3>2, <3>3 DEF Phases
    <2>5. TrueStatus(UpdateApplied([st EXCEPT !.phase = f]), specs', have')
      BY <1>2, <1>8, <1>11, <2>3, <2>4, PhaseIncompleteTrue
    <2>6. Return([st EXCEPT !.phase = f], TRUE)
      BY <2>1, <2>3
    <2> QED  BY <1>2, <1>4, <1>5, <2>5, <2>6, ReturnInv
  <1>14. CASE PhaseAdvances
    <2>1. /\ HandlerCompletes(k) /\ k' = k + 1 /\ UNCHANGED <<pc, st>>
      BY <1>14 DEF PhaseAdvances
    <2>2. ASSUME NEW q \in Phases, q < k'
          PROVE  ReachedBy(gen, q, specs', have')
      <3>1. CASE q = k
        BY <1>2, <1>3, <2>1, <3>1, CompletesReached
      <3>2. CASE q < k
        BY <1>2, <1>6, <1>9, <3>2
      <3> QED  BY <1>2, <2>1, <2>2, <3>1, <3>2 DEF Phases
    <2>3. Position'
      BY <1>3, <1>6, <2>1, <2>2 DEF Position, Reached, Needed, ReachedBy
    <2> QED  BY <1>2, <1>3, <1>4, <1>5, <1>8, <2>1, <2>3, WorkInv
  <1>15. CASE PipelineCompletes
    <2> DEFINE last == IF Needed(gen, k) THEN "Succeeded" ELSE "Skipped"
               f == PhasesAfter(last)
    <2>1. /\ HandlerCompletes(k) /\ k = N
          /\ Return([UpdatePhaseConditions(st, PhaseStates(last)) EXCEPT
                       !.version = specs[gen].version], FALSE)
      BY <1>15 DEF PipelineCompletes
    <2>2. last \in Reasons /\ Complete(last)
      BY DEF Reasons, Complete
    <2> HIDE DEF last
    <2>3. /\ f \in [Phases -> Conditions]
          /\ UpdatePhaseConditions(st, PhaseStates(last))
                = [st EXCEPT !.phase = f]
          /\ \A p \in Phases : p < k => Complete(f[p])
          /\ Complete(f[k])
      BY <1>1, <2>2, PhasesAfterIs
    <2> HIDE DEF f
    <2>4. \A p \in Phases : Complete(f[p])
      BY <1>2, <2>1, <2>3 DEF Phases
    <2>5. ASSUME NEW q \in Stages PROVE ReachedBy(gen, q, specs', have')
      <3>1. CASE q = k
        BY <1>2, <1>3, <2>1, <3>1, CompletesReached
      <3>2. CASE q # k
        <4>1. q \in 0..(k - 1)
          BY <1>2, <2>1, <3>2 DEF Stages
        <4> QED  BY <1>5, <1>9, <4>1
      <3> QED  BY <3>1, <3>2
    <2> DEFINE u == [[st EXCEPT !.phase = f] EXCEPT
                        !.version = specs'[st.observed].version]
    <2>6. TrueStatus(u, specs', have')
      BY <1>2, <1>3, <1>6, <1>8, <2>3, <2>4, <2>5, PipelineCompleteTrue
    <2>7. specs[gen].version \in Nat
      BY <1>2, SpecsAssumption DEF SpecRecords
    <2>8. u \in Statuses
      BY <1>2, <1>3, <1>6, <2>3, <2>7 DEF Statuses
    <2>9. Return(u, FALSE)
      BY <1>3, <1>6, <2>1, <2>3
    <2> HIDE DEF u
    <2>10. TrueStatus(UpdateApplied(u), specs', have')
      BY <2>6, <2>8, UpdatedTrue
    <2> QED  BY <1>2, <1>4, <1>5, <2>9, <2>10, ReturnInv
  <1> QED  BY <1>12, <1>13, <1>14, <1>15

\* The end of a reconcile, and the steps of the environment.
LEMMA InvOther ==
    ASSUME Inv, TypeOK',
           \/ SkipUpdate \/ WriteStatus \/ WriteConflicts \/ WriteFails
           \/ \E s \in Specs : Edit(s)
           \/ CacheSync \/ \E q \in Stages : Achieve(q)
           \/ Resync \/ Crash \/ UNCHANGED vars
    PROVE  Inv'
  <1>1. TypeOK /\ Position
    BY DEF Inv
  <1>2. CASE SkipUpdate \/ WriteStatus \/ WriteConflicts \/ WriteFails
    <2>1. /\ UNCHANGED <<specs, want, have, cached>> /\ Forget
          /\ status' \in {status, st}
      BY <1>2 DEF SkipUpdate, WriteStatus, WriteConflicts, WriteFails, Finish,
                  clusterVars
    <2> QED  BY <2>1, FinishInv
  <1>3. CASE Crash
    <2>1. /\ UNCHANGED <<specs, want, have, status>> /\ Forget
          /\ cached'.status = status
      BY <1>3 DEF Crash, Current, apiVars, clusterVars
    <2> QED  BY <2>1, FinishInv
  <1>4. CASE \E s \in Specs : Edit(s)
    <2>1. PICK s \in Specs : Edit(s)
      BY <1>4
    <2>2. /\ specs' = Append(specs, s)
          /\ UNCHANGED <<status, cached, pc, gen, st, k, want, have>>
      BY <2>1 DEF Edit, workVars, clusterVars
    <2>3. Grows(specs, have, specs', have')
      BY <1>1, <2>2 DEF Grows, TypeOK
    <2>4. gen \in 1..Len(specs) /\ specs \in Seq(Specs)
      BY <1>1 DEF TypeOK
    <2>5. specs'[gen] = specs[gen]
      BY <2>3, <2>4 DEF Grows
    <2>6. Position'
      BY <1>1, <2>2, <2>5 DEF Position, Reached, Needed
    <2> QED  BY <2>2, <2>3, <2>6, StatusesLast, OtherInv
  <1>5. CASE CacheSync
    <2>1. /\ UNCHANGED <<specs, status, pc, gen, st, k, want, have>>
          /\ cached'.status = status
      BY <1>5 DEF CacheSync, Current, apiVars, workVars, clusterVars
    <2>2. Grows(specs, have, specs', have')
      BY <1>1, <2>1, NothingGrows
    <2>3. Position'
      BY <1>1, <2>1 DEF Position, Reached, Needed
    <2> QED  BY <2>1, <2>2, <2>3, StatusesLast, OtherInv
  <1>6. CASE \E q \in Stages : Achieve(q)
    <2>1. PICK q \in Stages : Achieve(q)
      BY <1>6
    <2>2. /\ have' = [have EXCEPT ![q] = want[q]] /\ have[q] < want[q]
          /\ UNCHANGED <<specs, status, cached, pc, gen, st, k, want>>
      BY <2>1 DEF Achieve, apiVars, workVars
    <2>3. have \in [Stages -> Nat] /\ have' \in [Stages -> Nat]
      BY <1>1 DEF TypeOK
    <2>4. ASSUME NEW p \in Stages PROVE have[p] <= have'[p]
      <3>1. have[p] \in Nat /\ want[p] \in Nat /\ have[p] <= want[p]
        BY <1>1 DEF TypeOK
      <3> QED  BY <2>2, <2>3, <3>1
    <2>5. Grows(specs, have, specs', have')
      BY <1>1, <2>2, <2>4 DEF Grows, TypeOK
    <2>6. /\ gen \in 1..Len(specs) /\ Phases \subseteq Stages
          /\ specs \in Seq(Specs)
      <3>1. /\ specs \in Seq(Specs) /\ cached.gen \in 1..Len(specs)
            /\ gen \in 1..cached.gen
        BY <1>1 DEF TypeOK
      <3>2. gen \in 1..Len(specs)
        BY <3>1
      <3>3. Phases \subseteq Stages
        BY PipelineAssumption DEF Phases, Stages
      <3> QED  BY <3>1, <3>2, <3>3
    <2>7. ASSUME NEW p \in Phases, Reached(gen, p)
          PROVE  ReachedBy(gen, p, specs', have')
      <3>1. ReachedBy(gen, p, specs, have)
        BY <2>7, ReachedIs
      <3> QED  BY <2>2, <2>3, <2>5, <2>6, <3>1, ReachedGrows
    <2>8. Position'
      BY <1>1, <2>2, <2>7 DEF Position, Reached, Needed, ReachedBy
    <2> QED  BY <2>2, <2>5, <2>8, StatusesLast, OtherInv
  <1>7. CASE Resync \/ UNCHANGED vars
    <2>1. UNCHANGED <<specs, status, cached, pc, gen, st, k, want, have>>
      BY <1>7 DEF Resync, vars, apiVars, workVars, clusterVars
    <2>2. Grows(specs, have, specs', have')
      BY <1>1, <2>1, NothingGrows
    <2>3. Position'
      BY <1>1, <2>1 DEF Position, Reached, Needed
    <2> QED  BY <2>1, <2>2, <2>3, StatusesLast, OtherInv
  <1> QED  BY <1>2, <1>3, <1>4, <1>5, <1>6, <1>7

\* Every step keeps the inductive invariant.
LEMMA InvNext == Inv /\ [Next]_vars => Inv'
  <1> SUFFICES ASSUME Inv, [Next]_vars PROVE Inv'
    OBVIOUS
  <1>1. TypeOK'
    BY TypeNext DEF Inv
  <1> QED
    BY <1>1, InvLCM, InvManifest, InvPipeline, InvOther DEF Next, Reconcile

\* The inductive invariant holds in every behaviour.
LEMMA InvCorrect == Spec => []Inv
  BY InvInit, InvNext, PTL DEF Spec

-----------------------------------------------------------------------------
(* What the user may rely on.                                              *)

\* Applied is Succeeded only when the observed generation is on the cluster
\* in all its stages and status.version names it.
THEOREM AppliedIsHonest == Spec => []AppliedHonest
  <1>1. Inv => AppliedHonest
    <2> SUFFICES ASSUME Inv, status.applied = "Succeeded"
                 PROVE  /\ status.version = specs[status.observed].version
                        /\ AllReached(status.observed)
      BY DEF AppliedHonest
    <2>1. AllComplete(status) /\ TrueBody(status, specs, have)
      BY DEF Inv, TrueStatus
    <2>2. status.version = specs[status.observed].version
      BY <2>1 DEF TrueBody, AllComplete
    <2>3. ASSUME NEW q \in Stages PROVE Reached(status.observed, q)
      <3>1. q = 0 \/ q \in Phases
        BY PipelineAssumption DEF Stages, Phases
      <3> QED  BY <2>1, <3>1, ReachedIs DEF TrueBody, AllComplete
    <2> QED  BY <2>2, <2>3 DEF AllReached
  <1> QED  BY <1>1, InvCorrect, PTL

\* status.version is always a release the environment really reached.
THEOREM VersionIsHonest == Spec => []VersionHonest
  <1>1. Inv => VersionHonest
    BY ReachedIs DEF Inv, TrueStatus, TrueBody, VersionHonest, AllReached
  <1> QED  BY <1>1, InvCorrect, PTL

\* No stage is asked for a generation before the stages in front of it have
\* reached that generation.
THEOREM StagesInOrder == Spec => []StageOrder
  <1>1. Inv => StageOrder
    BY DEF Inv
  <1> QED  BY <1>1, InvCorrect, PTL
=============================================================================
