------------------------- MODULE ReleaseController -------------------------
(***************************************************************************)
(* One Release resource, the ReleaseReconciler that drives it              *)
(* (internal/controller/release_controller.go), the pipeline it calls      *)
(* (internal/upgrade/pipeline.go), and the admission webhook that guards   *)
(* its edits (internal/webhook/v1alpha1/release_webhook.go).               *)
(*                                                                         *)
(* The upgrade has stages 0..N: stage 0 is the LCM self-upgrade, stages    *)
(* 1..N are the pipeline handlers.  What a stage does to the cluster is    *)
(* abstracted to two generations: the last one it was asked for (want) and *)
(* the last one it reached (have).  NodePlans and HelmCharts model the     *)
(* handlers themselves.                                                    *)
(*                                                                         *)
(* The reconciler reads the Release from the informer cache, works on a    *)
(* copy, and writes the status back at the end.  Its steps interleave with *)
(* the user's edits, the informer, the cluster's work and crashes.  The    *)
(* Release is never deleted (ValidateDelete denies it).                    *)
(***************************************************************************)
EXTENDS ReleaseConditions, Sequences

CONSTANTS Specs,            \* the Release specs a user may submit
          MaxGenerations,   \* bound: number of specs submitted
          MaxFaults,        \* bound: transient errors, disturbances, crashes
          Lagging           \* may a reconcile start from a stale cache?

Stages == 0..N

(***************************************************************************)
(* kind says how far the spec gets.  unreachable: the image of the release *)
(* cannot be read.  badLCM: it configures an LCM chart the core manifest   *)
(* does not have.  unresolvable: the manifest does not resolve.            *)
(* badCharts: it configures a chart unknown to the manifest.  malformed:   *)
(* NewConfig rejects the manifest itself.  needs are the stages for which  *)
(* the manifest has something to install (the others report Skipped);      *)
(* fails are the ones whose work ends in a failure.                        *)
(***************************************************************************)
Kinds == {"ok", "unreachable", "badLCM", "unresolvable", "badCharts",
          "malformed"}

SpecRecords == [version : Nat \ {0},
                kind    : Kinds,
                needs   : SUBSET Stages,
                fails   : SUBSET Stages]

ASSUME SpecsAssumption == Specs \subseteq SpecRecords
ASSUME BoundsAssumption == /\ MaxGenerations \in Nat \ {0}
                           /\ MaxFaults \in Nat
                           /\ Lagging \in BOOLEAN

VARIABLES
    specs,      \* every spec submitted, in order; generation = Len(specs)
    status,     \* Release.Status as stored by the API server
    cached,     \* the informer's copy: a generation and a status
    queued,     \* the request is in the workqueue
    pc,         \* where the reconcile is
    gen,        \* Generation of the copy being reconciled
    st,         \* Status of the copy being reconciled
    orig,       \* originalStatus
    k,          \* the pipeline handler being run
    requeue,    \* the reconcile asks to be run again
    want,       \* per stage: the last generation its handler requested
    have,       \* per stage: the last generation the cluster reached
    faults      \* transient errors so far

apiVars     == <<specs, status>>
workVars    == <<gen, st, orig, k, requeue>>
clusterVars == <<want, have>>
vars == <<specs, status, cached, queued, pc, gen, st, orig, k, requeue, want,
          have, faults>>

Current == [gen |-> Len(specs), status |-> status]
Synced  == cached = Current

Needed(g, q)  == q \in specs[g].needs
Reached(g, q) == Needed(g, q) => have[q] >= g

Init ==
    /\ \E s \in Specs : specs = <<s>>
    /\ status = NoStatus
    /\ cached = [gen |-> 1, status |-> NoStatus]
    /\ queued = TRUE
    /\ pc = "idle"
    /\ gen = 1
    /\ st = NoStatus
    /\ orig = NoStatus
    /\ k = 1
    /\ requeue = FALSE
    /\ want = [q \in Stages |-> 0]
    /\ have = [q \in Stages |-> 0]
    /\ faults = 0

Fault == faults < MaxFaults /\ faults' = faults + 1

-----------------------------------------------------------------------------
(* Reconcile: read the copy, then reconcileNormal up to the LCM phase.     *)

\* Mutant: a change of generation is not noticed.
SeenEver(s, g) == s.observed # 0

Seen(s, g) == s.observed = g

Take == /\ pc = "idle" /\ queued
        /\ Lagging \/ Synced
        /\ queued' = FALSE
        /\ gen' = cached.gen
        /\ orig' = cached.status
        /\ k' = 1
        /\ UNCHANGED <<apiVars, cached, clusterVars, faults>>

\* A new generation: the conditions restart as Pending and the function
\* returns before the deferred updateAppliedCondition is registered.
StartGeneration ==
    /\ Take
    /\ ~Seen(cached.status, cached.gen)
    /\ st' = InitializePending(cached.status, cached.gen)
    /\ requeue' = TRUE
    /\ pc' = "commit"

\* Mutant: the pipeline does not wait for the LCM phase.
NeverWait(s) == TRUE

LCMDone(s) == Complete(s.lcm)

StartWork ==
    /\ Take
    /\ Seen(cached.status, cached.gen)
    /\ st' = cached.status
    /\ requeue' = FALSE
    /\ pc' = IF LCMDone(cached.status) THEN "manifest" ELSE "lcm"

\* Every other return of reconcileNormal: the deferred
\* updateAppliedCondition runs last, over the status the body leaves.
Return(s, again) ==
    /\ st' = UpdateApplied(s)
    /\ requeue' = again
    /\ pc' = "commit"
    /\ UNCHANGED <<apiVars, cached, queued, gen, orig, k>>

-----------------------------------------------------------------------------
(* The cluster's side of a handler: stage q is asked for the generation    *)
(* being reconciled, and may turn out to be there already.                 *)

Request(q) ==
    /\ want' = [want EXCEPT ![q] = gen]
    /\ \/ have' = have
       \/ q \notin specs[gen].fails /\ have' = [have EXCEPT ![q] = gen]

\* A handler that fails may have changed the cluster before or not at all.
MaybeRequest(q) == UNCHANGED clusterVars \/ (Needed(gen, q) /\ Request(q))

\* Mutant: a stage is reported complete as soon as it was asked for.
AskedFor(q) == TRUE

AtGeneration(q) == have'[q] = gen

\* A stage with nothing to install is skipped and touches nothing.
HandlerSkips(q) == ~Needed(gen, q) /\ UNCHANGED <<clusterVars, faults>>

HandlerSucceeds(q) ==
    /\ Needed(gen, q) /\ Request(q) /\ AtGeneration(q)
    /\ UNCHANGED faults

\* Work under way, or a finished stage found disturbed again (a node that
\* is not ready, a chart's job that runs again).
HandlerInProgress(q) ==
    /\ Needed(gen, q) /\ Request(q)
    /\ q \in specs[gen].fails => want[q] # gen
    /\ IF AtGeneration(q) THEN Fault ELSE UNCHANGED faults

\* The work was seen to have failed, for good or (Fault) for a while.
HandlerFailed(q) ==
    /\ Needed(gen, q) /\ Request(q)
    /\ IF q \in specs[gen].fails THEN want[q] = gen /\ UNCHANGED faults
                                 ELSE Fault

-----------------------------------------------------------------------------
(* The LCM phase: lcmUpgradeConfig, then a strict HelmReconciler.          *)

\* Neither error is a RuntimeConfigError: it is returned, no condition set.
LCMConfigError ==
    /\ pc = "lcm"
    /\ \/ specs[gen].kind = "unreachable" /\ UNCHANGED faults
       \/ Fault
    /\ UNCHANGED clusterVars
    /\ Return(st, TRUE)

\* RuntimeConfigError: Applied is Failed and nothing is requeued.
LCMConfigInvalid ==
    /\ pc = "lcm" /\ specs[gen].kind = "badLCM"
    /\ UNCHANGED <<clusterVars, faults>>
    /\ Return([st EXCEPT !.applied = "Failed"], FALSE)

LCMConfigured == pc = "lcm" /\ specs[gen].kind \notin {"unreachable", "badLCM"}

\* An error of the reconciler, which in strict mode a failed chart is too:
\* the LCM condition is Failed and the request is not requeued.
LCMError ==
    /\ LCMConfigured
    /\ \/ HandlerFailed(0)
       \/ Fault /\ MaybeRequest(0)
    /\ Return([st EXCEPT !.lcm = "Failed"], FALSE)

\* Any state but Succeeded, Skipped included, ends the reconcile.
LCMWaits ==
    /\ LCMConfigured
    /\ \E state \in {"InProgress", "Skipped"} :
          /\ \/ state = "InProgress" /\ HandlerInProgress(0)
             \/ state = "Skipped" /\ HandlerSkips(0)
          /\ Return([st EXCEPT !.lcm = UpdatePhaseCondition(@, state)], TRUE)

LCMSucceeds ==
    /\ LCMConfigured
    /\ HandlerSucceeds(0)
    /\ st' = [st EXCEPT !.lcm = UpdatePhaseCondition(@, "Succeeded")]
    /\ pc' = "manifest"
    /\ UNCHANGED <<apiVars, cached, queued, gen, orig, k, requeue>>

-----------------------------------------------------------------------------
(* The manifest and the configuration of the pipeline.                     *)

ManifestError ==
    /\ pc = "manifest"
    /\ \/ specs[gen].kind = "unresolvable" /\ UNCHANGED faults
       \/ Fault
    /\ UNCHANGED clusterVars
    /\ Return([st EXCEPT !.manifest = "Failed"], TRUE)

Resolved == [st EXCEPT !.manifest = "Succeeded"]

ConfigInvalid ==
    /\ pc = "manifest" /\ specs[gen].kind = "badCharts"
    /\ UNCHANGED <<clusterVars, faults>>
    /\ Return([Resolved EXCEPT !.applied = "Failed"], FALSE)

\* parseDrainOpts or NewConfig fails, or (Fault) cleanupOldVersionPlans:
\* the error is returned and no condition says so.
ConfigError ==
    /\ pc = "manifest" /\ specs[gen].kind # "unresolvable"
    /\ \/ specs[gen].kind = "malformed" /\ UNCHANGED faults
       \/ Fault
    /\ UNCHANGED clusterVars
    /\ Return(Resolved, TRUE)

StartPipeline ==
    /\ pc = "manifest"
    /\ specs[gen].kind \notin {"unresolvable", "badCharts", "malformed"}
    /\ st' = Resolved
    /\ pc' = "phase"
    /\ UNCHANGED <<apiVars, cached, queued, gen, orig, k, requeue, clusterVars,
                   faults>>

-----------------------------------------------------------------------------
(* Pipeline.Reconcile: handler k, then k + 1 while they are complete.      *)

\* PhaseStates after handler k reported state: the handlers before it
\* reported a complete one, the handlers after it did not run.
PhaseStates(state) ==
    [p \in Phases |-> CASE p < k -> IF Needed(gen, p) THEN "Succeeded"
                                                      ELSE "Skipped"
                        [] p = k -> state
                        [] OTHER -> "None"]

\* The error discards what the earlier handlers reported.
PhaseErrors ==
    /\ pc = "phase"
    /\ Fault /\ MaybeRequest(k)
    /\ Return([st EXCEPT !.phase[k] = "Failed"], TRUE)

PhaseIncomplete ==
    /\ pc = "phase"
    /\ \E state \in {"InProgress", "Failed"} :
          /\ \/ state = "InProgress" /\ HandlerInProgress(k)
             \/ state = "Failed" /\ HandlerFailed(k)
          /\ Return(UpdatePhaseConditions(st, PhaseStates(state)), TRUE)

\* Mutant: the pipeline goes on whatever the handler reports.
NoStop(q) == HandlerSkips(q) \/ HandlerSucceeds(q) \/ HandlerInProgress(q)

HandlerCompletes(q) == HandlerSkips(q) \/ HandlerSucceeds(q)

\* Mutant: an off-by-one at the end of the handlers.
PastTheEnd(q) == q <= N

MoreHandlers(q) == q < N

PhaseAdvances ==
    /\ pc = "phase" /\ MoreHandlers(k)
    /\ HandlerCompletes(k)
    /\ k' = k + 1
    /\ UNCHANGED <<apiVars, cached, queued, pc, gen, st, orig, requeue>>

\* Result.AllComplete: Status.Version is the version just applied.
PipelineCompletes ==
    /\ pc = "phase" /\ k = N
    /\ HandlerCompletes(k)
    /\ LET last == IF Needed(gen, k) THEN "Succeeded" ELSE "Skipped"
       IN Return([UpdatePhaseConditions(st, PhaseStates(last)) EXCEPT
                    !.version = specs[gen].version], FALSE)

-----------------------------------------------------------------------------
(* The end of Reconcile: the status is written when it changed.            *)

\* The locals of a reconcile that ended, or died with the process.
Forget == /\ pc' = "idle"
          /\ st' = NoStatus /\ orig' = NoStatus
          /\ k' = 1 /\ requeue' = FALSE
          /\ UNCHANGED gen

Finish(again) ==
    /\ pc = "commit"
    /\ Forget
    /\ queued' = (queued \/ again)
    /\ UNCHANGED <<specs, cached, clusterVars>>

\* DeepEqual: nothing to write.
SkipUpdate ==
    /\ st = orig
    /\ Finish(requeue)
    /\ UNCHANGED <<status, faults>>

(***************************************************************************)
(* updateReleaseStatus: the status replaces the stored one whatever that   *)
(* holds by now.  The object is read from the cache for its                *)
(* resourceVersion, so the write goes through only once the cache is       *)
(* current.  A write with st = orig is one that changed only messages.     *)
(***************************************************************************)
WriteStatus ==
    /\ Synced
    /\ status' = st
    /\ Finish(requeue)
    /\ UNCHANGED faults

\* RetryOnConflict gave up: the cache stayed behind for all its retries.
WriteConflicts ==
    /\ ~Synced
    /\ Finish(TRUE)
    /\ UNCHANGED <<status, faults>>

\* Any other error of the API server.
WriteFails ==
    /\ Fault
    /\ Finish(TRUE)
    /\ UNCHANGED status

-----------------------------------------------------------------------------
(* The environment: user, informer, cluster, process.                      *)

\* Mutant: edits are admitted whatever Applied says.
AdmitAlways(s) == TRUE

\* Mutant: a failed upgrade blocks edits too.
OnlyAfterSuccess(s) == s.applied = "Succeeded"

\* validateNoUpgradeInProgress
EditAllowed(s) == s.applied \notin {"Pending", "InProgress"}

\* Mutant: the new version is not compared with the applied one.
AnyVersion(old, new) == TRUE

Increments(old, new) == old.version # 0 => new.version > old.version

Edit(s) ==
    /\ Len(specs) < MaxGenerations
    /\ s # specs[Len(specs)]
    /\ EditAllowed(status)
    /\ Increments(status, s)
    /\ specs' = Append(specs, s)
    /\ UNCHANGED <<status, cached, queued, pc, workVars, clusterVars, faults>>

\* The watch delivers the latest object, which enqueues it.
CacheSync ==
    /\ ~Synced
    /\ cached' = Current
    /\ queued' = TRUE
    /\ UNCHANGED <<apiVars, pc, workVars, clusterVars, faults>>

\* A stage's work is done.  The watch on Plans or HelmCharts may enqueue the
\* Release at that moment (a Job is not watched).
Achieve(q) ==
    /\ have[q] < want[q]
    /\ q \notin specs[want[q]].fails
    /\ have' = [have EXCEPT ![q] = want[q]]
    /\ queued' \in {queued, TRUE}
    /\ UNCHANGED <<apiVars, cached, pc, workVars, want, faults>>

\* The informer's periodic resync, or an event that changed nothing here.
Resync ==
    /\ ~queued
    /\ queued' = TRUE
    /\ UNCHANGED <<apiVars, cached, pc, workVars, clusterVars, faults>>

\* The manager stops (as it does when its own chart is upgraded) and starts
\* again with an empty workqueue, a fresh cache and one request per object.
Crash ==
    /\ Fault
    /\ Forget
    /\ queued' = TRUE
    /\ cached' = Current
    /\ UNCHANGED <<apiVars, clusterVars>>

-----------------------------------------------------------------------------
Reconcile ==
    \/ StartGeneration \/ StartWork
    \/ LCMConfigError \/ LCMConfigInvalid \/ LCMError \/ LCMWaits
    \/ LCMSucceeds
    \/ ManifestError \/ ConfigInvalid \/ ConfigError \/ StartPipeline
    \/ PhaseErrors \/ PhaseIncomplete \/ PhaseAdvances \/ PipelineCompletes
    \/ SkipUpdate \/ WriteStatus \/ WriteConflicts \/ WriteFails

Next ==
    \/ Reconcile
    \/ \E s \in Specs : Edit(s)
    \/ CacheSync
    \/ \E q \in Stages : Achieve(q)
    \/ Resync
    \/ Crash

Spec == Init /\ [][Next]_vars

\* The manager runs its worker, the informer catches up, the cluster
\* finishes what it was asked for, and informers resync (SyncPeriod).
Fairness ==
    /\ WF_vars(Reconcile)
    /\ WF_vars(CacheSync)
    /\ \A q \in Stages : WF_vars(Achieve(q))
    /\ WF_vars(Resync)

FairSpec == Spec /\ Fairness

-----------------------------------------------------------------------------
(* Properties                                                              *)

\* The variables keep to their types: generations the reconciler works with
\* were submitted, a stage reaches only what it was asked for.
TypeOK ==
    /\ specs \in Seq(Specs) /\ Len(specs) \in 1..MaxGenerations
    /\ status \in Statuses
    /\ cached \in [gen : 1..Len(specs), status : Statuses]
    /\ queued \in BOOLEAN
    /\ pc \in {"idle", "lcm", "manifest", "phase", "commit"}
    /\ gen \in 1..cached.gen
    /\ st \in Statuses
    /\ orig \in Statuses
    /\ k \in Phases
    /\ requeue \in BOOLEAN
    /\ want \in [Stages -> 0..gen]
    /\ have \in [Stages -> Nat] /\ \A q \in Stages : have[q] <= want[q]
    /\ faults \in 0..MaxFaults

\* All stages that generation g needs have reached it (or a later one).
AllReached(g) == \A q \in Stages : Reached(g, q)

\* Applied is Succeeded only when the whole observed generation is on the
\* cluster and status.version names it: updateAppliedCondition works from
\* conditions that several reconciles wrote, possibly from stale reads.
AppliedHonest ==
    status.applied = "Succeeded" =>
        /\ status.version = specs[status.observed].version
        /\ AllReached(status.observed)

\* status.version is a release the environment really reached: some
\* submitted generation with that version was brought to every stage
\* (the assignment after Result.AllComplete).
VersionHonest ==
    status.version # 0 =>
        \E g \in 1..Len(specs) : /\ specs[g].version = status.version
                                 /\ AllReached(g)

\* A stage is asked for a generation only after every earlier stage, the
\* LCM self-upgrade first, has reached it: the order of the pipeline holds
\* across reconciles, stale reads, crashes and edits in the middle.
StageOrder ==
    \A p \in Stages : want[p] > 0 =>
        \A q \in 0..(p - 1) : Reached(want[p], q)

\* An edit is admitted with Applied other than Failed only when the present
\* generation has not been started or is complete (ValidateUpdate looks
\* only at the stored Applied condition).
Started(g) == \E q \in Stages : want[q] = g
EditsOnlyBetweenUpgrades ==
    [][specs' # specs /\ status.applied # "Failed"
          => ~Started(Len(specs)) \/ AllReached(Len(specs))]_vars

\* A user who never lowers the version: then a reconcile never writes a
\* status.version lower than the one it read, through resets of the status,
\* failures and retries.
VersionsIncrease == \A i, j \in 1..Len(specs) :
                        i < j => specs[i].version <= specs[j].version
VersionNeverLowered ==
    [][VersionsIncrease /\ status' # status =>
         status'.version >= orig.version]_vars

\* docs/release-api.md:71: status.version is the last release applied, so it
\* never goes back to an earlier one or to none.  updateReleaseStatus
\* overwrites the whole status, and orig may be older than the stored one.
VersionNeverRegresses ==
    [][VersionsIncrease => status'.version >= status.version]_vars

\* The promise: stages in order, nothing reported before it is reached, no
\* new generation in the middle of one (StagedUpgrade), kept by every step
\* of a reconcile, from stale reads and across crashes.
Promise == INSTANCE StagedUpgrade WITH
    version <- status.version,
    done    <- IF status.applied = "Succeeded" THEN status.observed ELSE 0,
    failed  <- status.applied = "Failed"
KeepsPromise == Promise!Spec

\* Whatever is submitted, the webhook does not refuse every later edit for
\* ever: an upgrade reaches an outcome (Applied True or Failed).
NeverLockedOut == []<>EditAllowed(status)

\* The same for every spec but the ones whose errors set no condition
\* (NeverLockedOut fails for those).
Unreported(s) == s.kind \in {"unreachable", "malformed"}
RepairAllowed ==
    []<>(EditAllowed(status) \/ Unreported(specs[Len(specs)]))

\* Once edits stop, a spec that can be installed is installed, and the
\* status says so: lost writes, LCM errors that are not requeued and stale
\* reads do not leave the Release stuck.
Healthy(s) == s.kind = "ok" /\ s.fails = {}
Settled == /\ status.applied = "Succeeded"
           /\ status.observed = Len(specs)
           /\ status.version = specs[Len(specs)].version
           /\ AllReached(Len(specs))
Converges == <>[](Healthy(specs[Len(specs)]) => Settled)
=============================================================================
