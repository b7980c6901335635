# TLA+ models and proofs of the Elemental lifecycle manager

The lifecycle manager (LCM) is a Kubernetes operator. A user writes one
`Release` resource; the operator takes the whole cluster (its own chart, the
operating system, Kubernetes, the Helm charts) to the release it names. Nothing
in it computes much. What is hard is that a reconcile is one attempt among
many, from a cache that may be behind, against a user, a Helm Controller, a
System Upgrade Controller (SUC) and nodes that all move meanwhile, and that the
manager restarts itself in the middle. This directory models that, checks it
with TLC and proves most of its safety with TLAPS.

To check a model: `tlc -config MCRelease.cfg MCReleaseController` (for the
others, the runs in section 3); to check the proofs of a module:
`tlapm ReleaseControllerProofs.tla`, and so on for each `...Proofs.tla`.

## 1. The system

### Components

| Component | State it keeps | Operations | Module |
|---|---|---|---|
| Release controller, `internal/controller/release_controller.go`, `condition.go` | `Release.Status` (version, observedGeneration, conditions), stored at the API server and cached by the informer; a working copy during a reconcile; the work queue | `Reconcile`, `reconcileNormal`, `updateReleaseStatus`, the condition functions, `cleanupOldVersionPlans` | `ReleaseConditions`, `ReleaseController`, abstract: `StagedUpgrade` (the clean-up: `NodePlans`) |
| Upgrade pipeline, `internal/upgrade/pipeline.go`, `phase.go` | none; the result of one run | run the handlers in order until one is not complete | `ReleaseController` |
| Admission webhook, `internal/webhook/v1alpha1` | none; reads the stored Release | `ValidateCreate`, `ValidateUpdate`, `ValidateDelete` | `ReleaseController` (update, delete) |
| Helm phase and LCM self-upgrade, `reconcilers/helm.go` | `HelmChart` resources; reads Helm releases and Jobs | sort the charts, reconcile each, aggregate | `ChartOrder`, `HelmCharts` |
| OS and Kubernetes phases, `reconcilers/os.go`, `kubernetes.go`, `plan.go`, `internal/plan` | SUC `Plan` resources; reads nodes | create Plans, follow their status, verify nodes | `NodePlans` |
| RKE2 packaged components, `reconcilers/rke2_core.go` | a ConfigMap with a snapshot of the packaged HelmCharts | take the snapshot, wait for changed components | `PackagedComponents` |
| Manifest retrieval and cache, `internal/release`, the retrieval functions of the controller | a ConfigMap with a manifest per version; manifests in memory | read, or resolve and store | `ReleaseManifests` |
| Upgrade configuration, `internal/upgrade/config.go` and the functions of the controller that call it | none | `NewConfig`, `BuildHelmChartConfig`, `lcmUpgradeConfig`, `parseDrainOpts` | `UpgradeConfig` (its errors also: `ReleaseController`) |
| Helm values and client, `internal/helm` | none | merge values, read Helm releases | `HelmValues`; what the client reports: `HelmCharts`, `PackagedComponents` |
| API types, `api/v1alpha1` | none | defaults, `SanitizeVersion` | the status: `ReleaseConditions` |
| Manager wiring, `cmd/main.go` | none | order of the handlers, restarts | `Stages` and `Crash` of `ReleaseController` |

External parties, modelled only as far as the code relies on them: the API
server (optimistic concurrency, admission), the informer cache, the user, the
Helm Controller with its Jobs, SUC with its Jobs and node labels, the RKE2
server with its packaged charts, the nodes' kubelets, the image registries.

### How they interact

The reconciler is called from a work queue fed by watches (Release, Plan,
HelmChart), by `requeueInterval`, by rate-limited retries and by the informer's
resync. A reconcile reads the Release from the cache, works on a copy and
writes the whole status back at the end. In between it runs the LCM phase
(`HelmReconciler` in strict mode, over the charts of LCM itself), reads the
manifest, deletes the Plans of the release applied before, and runs the
pipeline: OS, Kubernetes, Helm. A handler compares the cluster with its target,
writes what is missing (a Plan, a HelmChart), and answers with a state; the
pipeline stops at the first handler that is not complete, and the next
reconcile starts it again from the first. Which edits a user may make is decided
by the webhook from the `Applied` condition and `status.version`: the status is
an input of the system, not just a report.

### What is hard, and what makes each component correct

`PROJECT.json` lists the hazards line by line. In short:

- **Release controller.** A status computed from an old read replaces a newer
  one; an edit falls between the read and the write; conditions written by
  several reconciles add up to a claim about the cluster that none of them
  checked; errors that set no condition; failures that are not requeued; the
  manager is killed by its own upgrade. Correct when: `Applied` is `Succeeded`
  and `status.version` names a release only if the cluster got there; stages
  are started in order; edits happen only between upgrades; every upgrade
  reaches an outcome; a spec that can be installed is, at last, installed.
- **Helm phase.** The Job that a chart names may be that of its previous
  content, may fail, or may be gone before anybody looked; one of several
  charts fails; values that never compare as equal. Correct when: success is
  true of every chart, dependencies go first, the phase ends.
- **Chart ordering and upgrade configuration.** Marks that survive the visits
  of shared, repeated, external and cyclic dependencies; two phases that each
  see some of the charts and some of the user's configurations; values merged
  at any depth. Correct when: nothing precedes its dependencies, across the two
  phases too, nothing is lost or repeated, cycles and only cycles are rejected,
  every configuration reaches its chart and wins.
- **OS and Kubernetes phases.** Plans read from a cache that lacks a new Plan or
  still has a deleted one, two releases with the same Plan name, a Plan that is
  complete before its nodes are back or that applies again to a new node, nodes
  that join at any time, a clean-up that stops half-way. Correct when: one node
  at a time is out of service, the control plane goes before the workers and
  the OS before Kubernetes, success is true of every node, every node gets
  there.
- **Packaged components.** The snapshot is deleted, built and created in steps,
  read back through a lagging cache, and recreated for every release; a Job may
  be old, gone, or not there yet; nothing may have changed at all. Correct when:
  an upgrade starts only from a snapshot of what it starts from, success is
  true of every packaged chart, the wait ends.
- **Manifests.** Two phases of one release read their manifests from two
  caches with different keys and lifetimes; the ConfigMap is read behind a cache
  and written as a whole. Correct when: each phase uses the manifest of the
  release being reconciled and no stored manifest is lost.

## 2. The modules

### `ReleaseConditions`

The status and the functions of `condition.go`, for a pipeline of `N` handlers
(`main.go` wires 3). A condition is its Reason: the code sets Status True
exactly with the reasons Succeeded and Skipped, so `Complete(reason)` is the
Status. Version 0 is the empty string. No state; `ReleaseController` uses its
operators.

### `ReleaseController`

One Release, its reconciler, the pipeline and the webhook. A stage is the LCM
phase (0) or a handler (1..N).

| Variable | In the code |
|---|---|
| `specs` | the sequence of specs submitted; `metadata.generation` is its length |
| `status` | `Release.Status` at the API server |
| `cached` | the informer's copy (generation and status) |
| `queued` | the request is in the work queue |
| `pc`, `gen`, `st`, `orig`, `k`, `requeue` | a reconcile: where it is, the copy's Generation and Status, `originalStatus`, the handler being run, the `ctrl.Result` |
| `want`, `have` | per stage, the last generation its handler asked the cluster for, and the last the cluster reached |
| `faults` | transient errors so far |

Every return of `reconcileNormal` is an action (`LCMConfigError`,
`LCMConfigInvalid`, `LCMError`, `LCMWaits`, `ManifestError`, `ConfigInvalid`,
`ConfigError`, `PhaseErrors`, `PhaseIncomplete`, `PipelineCompletes`); each ends
with the deferred `updateAppliedCondition` (`Return`). `StartGeneration` is the
return before that `defer` is registered. `SkipUpdate`, `WriteStatus`,
`WriteConflicts` and `WriteFails` are the ends of `Reconcile`. The environment
has `Edit` (guarded by `EditAllowed` and `Increments`, the two guards of
`ValidateUpdate`), `CacheSync`, `Achieve` (a stage's work is done), `Resync` and
`Crash`. Deletion is always denied, so it is no action.

What a stage does to the cluster is two numbers here: `want` and `have`. That a
handler's "complete" means `have = gen` is what `HelmCharts` (`PhaseHonest`),
`NodePlans` (`PhasesHonest`) and `PackagedComponents` (`ComponentsHonest`) check
of the handlers themselves, and findings 4 and 6 are cases where it fails. A spec
is a version, a `kind` that says which error path it takes, the stages that have
something to install, and the ones whose work fails. Stages disturbed after the
fact (a node that is not ready again, a Job that runs again) are
`HandlerInProgress` with a fault.

### `StagedUpgrade`

What the controller promises, without reconciles, caches, conditions or errors.
A generation is submitted only when the last one has not been started, is
complete or is reported failed (`Submit`); a stage is taken to a generation only
after every earlier stage has reached it, and never back (`Take`, `Reach`); and
only what was reached is reported (`Report`). `ReleaseController` implements it:
`Promise == INSTANCE StagedUpgrade WITH ...` keeps `specs`, `want` and `have`,
and maps `version` to `status.version`, `done` to the observed generation when
`Applied` is Succeeded (0 otherwise) and `failed` to `Applied` = Failed.
`Edit` is a `Submit`, a handler that asks the cluster for something is a `Take`,
`Achieve` is a `Reach`, `WriteStatus` is a `Report`, and every other step of a
reconcile, a lost or conflicting write and a crash are stutters. `KeepsPromise`
is the property.

### `HelmCharts`

`reconcileHelmCharts` over the sorted charts, and the Helm Controller. A chart
has the content of its Helm release (`deployed`), the content of its HelmChart
resource (`cr`), the `jobName` and `Failed` condition of that resource's status
(`named`, `failedCond`) and its Job (`job`). `ReconcileChart` is one turn of the
loop with all of `reconcileChart`; `strict`, fixed at the start, tells the LCM phase
(a failed chart ends the loop) from the pipeline's phase. `RemoveStaleJob`, `ScheduleJob`,
`JobCompletes`, `JobFails` and `JobExpires` are external.

### `ChartOrder`, `HelmValues`, `UpgradeConfig`

`ChartOrder` is `sortChartConfigsByDependencies`. The closure `visit` calls
itself; here its calls under way are a stack (`calls`: the chart, and how many
of its dependencies have been visited), so that the module has no recursive
operator and can be proved about. `VisitNext` is a turn of the outer loop,
`VisitDependency` a turn of the loop over `DependsOn`, `Return` the end of a
visit; `Visit` is what the first two share, from the check for a cycle to the
mark in `inProgress`. `SortSpec` has the sort called for any lists of `Configs`, one
after the other; `UpgradeConfig` calls it for the lists of the two phases.
`HelmCharts` takes the result as its constant `Order` and
assumes of it (`OrderAssumption`) what is shown here.

`HelmValues` is the merge of values. A document is a function from the paths of
its nodes to a scalar or `"map"`. `mergeMaps` calls itself; as in the sort there is
no recursive operator, and `turns` has the keys, of all its calls under way, that
are still to come. `NextSource` is a turn of the loop of `MergeHelmValues`, `MergeInner` a
key at which both documents have a map, `Override` any other key. The order of
the keys of a Go map is undefined, so any of `turns` may be next. `Precedence`
is the reference: it speaks of the paths of all sources and not of a merge.

`UpgradeConfig` joins both to the code that turns a release into the input of the
two Helm phases: `StartLCM` is `lcmUpgradeConfig` with the charts of LCM picked out
of the core manifest, `Sort` the sort, `StartPipeline` is `parseUpgradeConfig` with the
other charts, `Merge` is `resolveHelmChartValues` of one of the charts. Its state is
that of the sort and of the merge, the phase and the configs the LCM phase went
through (`upgraded`). `Only` is what a loop over a list that keeps some of its charts
makes (a function by recursion, not an operator). The drain options are an
operator, `ParseDrainOpts`.

### `NodePlans`

The OS and Kubernetes handlers, the Plans they create, the clean-up and SUC. A
Plan is identified by what its name is made of (phase, node group, version), so
two releases with one OS version share a name; its label says which release
made it. The reconciler reads `seen` (cache) and writes `plans` (API server).
`CleanUp`, `PreparePlans` and the actions from `CreatePlan` to `Succeed` are
the reconciler; `StartJob`, `JobCompletes`, `JobFails`, `MarkComplete`,
`NodeReports` and `Join` are SUC and the nodes.

Which Plans are cleaned up is decided by the `status.version` of the reconcile's
copy of the Release. `version` is the one stored, `read` that of the copy, and
`written` all it has ever been. `Clusters` says which nodes there are at the
start, which may join, and whether copies may be old (`stale`). If they may,
`read` is any of `written`; at the end `WriteStatus` puts it back over `version`,
as `updateReleaseStatus` does (finding 1), or leaves the stored status alone, as
a reconcile does that changed nothing in its copy. `PutBack` is a reconcile on an
old copy that ends before it comes to the Plans.

A release is replaced between reconciles here. A reconcile with the edit in its
middle is one that ends without a write, the edit, and a `PutBack` for the write.
Copies with the spec of the earlier release are read only before the first
reconcile of the new one, so that those reconciles can be put before the edit
in the same way.

### `PackagedComponents`

The two ends of the Kubernetes handler that `NodePlans` leaves out:
`GenerateSnapshot` before the Plans and `ReconcileAvailability` after them.

| Variable | In the code |
|---|---|
| `snapshot`, `seen` | the ConfigMap `rke2-packaged-components-snapshot` (label, source version, per chart its content and Helm revision), and whether the cache has it |
| `pc`, `draft`, `pairs` | the reconcile, the ConfigMap being filled by `createSnapshot`, the components still to be looked at |
| `charts`, `job`, `helm` | the packaged HelmCharts, their Jobs and last Helm releases |
| `wanted`, `server`, `kubelet` | the version asked for by Plans, that of the RKE2 server, and the one each node reports |
| `release`, `outcome` | the release being applied, and what the phase last returned for it |

`ReuseSnapshot`, `DeleteSnapshot`, `SnapshotNotFound`, `ReadVersion`,
`ListCharts`, `CreateSnapshot`, `SnapshotFails` are the steps of
`GenerateSnapshot`: the cluster, the cache and a crash may come between any two.
`AwaitNodes`, `PlanFailed`, `NodesDone` stand for the Plans.
`NothingChanged`, `FindChanged` and `CheckJob` are `ReconcileAvailability`, with
`isHelmChartJobComplete` in full: the Job's completion after the snapshot, and
without a Job the Helm release's advance past it. `WriteCharts` is the RKE2
server, `ReplaceJob` to `CleanUpJob` the Helm Controller.

### `ReleaseManifests`

`getOrRetrieveUpgradeManifest` (LCM phase; `RawManifests`, in memory, by image)
and `getOrRetrieveManifest` (pipeline; the ConfigMap, by version). A manifest is
the image it came from. `GetCached`, `Retrieve`, `ReadConfigMap`,
`WriteConfigMap` and `WriteFails` are the steps of a retrieval; the ConfigMap is
read through the cache (`seen`) and written with the resourceVersion it was
read at (`base`). `Edit` follows the webhook; `Crash` empties the memory.

### `MC...`

Each adds only the values of constants for the runs.

## 3. What is checked

Runs that pass:

| Run | Question | Properties |
|---|---|---|
| `MCRelease` | Do stale reads, lost writes, edits and restarts ever make the status lie, break the order of the stages, or leave a Release stuck? | `TypeOK`, `AppliedHonest`, `VersionHonest`, `StageOrder`, `EditsOnlyBetweenUpgrades`, `VersionNeverLowered`, `KeepsPromise`, `RepairAllowed`, `Converges` |
| `MCHelmPhase` | The LCM phase (a failed chart ends it) and the Helm phase (it does not), with failing and expiring Jobs | `TypeOK`, `PhaseHonest`, `DependenciesFirst`, `PhaseEnds` |
| `MCPlans` | Two releases that share a Plan name, with stale Plan reads, failed Jobs, API errors, a worker that joins, and a node with old copies of the Release | `TypeOK`, `OneNodeAtATime`, `PhasesHonest`, `UpgradeOrder`, `OneReleaseAtATime`, `NodesConverge` |
| `MCUpgradeConfig` | From the manifests and the spec to the charts, the order and the values of both Helm phases, with every step of the sort | `TypeOK`, `DependenciesBefore`, `CyclesDetected`, `CoreFirst`, `SortEnds`, `WholeOrder`, `UserConfigApplied`, `DrainAsDocumented`, `UserValuesWin` |
| `MCPackaged` | Three releases, one of them without a new Kubernetes version, with repeated Jobs, errors, crashes and a lagging cache | `TypeOK`, `ComponentsHonest`, `SnapshotFirst`, `WaitEnds` |
| `MCManifests` | Four generations, conflicts, lagging reads, failed writes and restarts, each version at one registry | `TypeOK`, `ManifestOfRelease`, `NothingForgotten` |

Run them as `tlc -config <run>.cfg <module>`; the module of `MCRelease` is
`MCReleaseController`, of `MCHelmPhase` `MCHelmCharts`, of `MCPlans`
`MCNodePlans`, of `MCPackaged` `MCPackagedComponents`, of `MCManifests`
`MCReleaseManifests`. `MCUpgradeConfig` ends when its input is processed, so it
does not check deadlock; the others do.

Every property of these is also broken by at least one small mutation of the
code's definitions (the operators headed "Mutant:"), so none of them holds
whatever the code does.

### Disagreements the models found

Each is a run that states what a comment or a document says and has TLC find the
behaviour of the code that contradicts it. `PROJECT.json` quotes both sides.

1. `MCReleaseStaleRead`. `updateReleaseStatus` refetches the Release only for
   its resourceVersion and puts its own status over the stored one. A reconcile
   started by a watch event before the cache had the last write recomputes from
   the old status, and `status.version` goes back. One consequence, in
   `NodePlans`: a reconcile of the next release that finds no `status.version`,
   or an older one, skips the clean-up (`release_controller.go:190`) although the
   release before had succeeded, and its Plans stay beside the new ones. They
   are complete, so the nodes in the cluster are not touched by them, and
   `OneNodeAtATime`, `UpgradeOrder` and `PhasesHonest` hold; but they also apply
   to a node that joins then, which may be taken back to the older Kubernetes.
   TLC finds both: `OneReleaseAtATime` violated when its hypothesis `~stale` is
   left out, and such a node when a cluster with `stale` has a joiner.
2. `MCReleaseLockout`. A release image that cannot be read, or a manifest that
   `NewConfig` rejects, is an error that sets no condition. `Applied` stays
   Pending and the webhook denies the edit that would repair it. `RepairAllowed`
   shows that with every other spec a failure is reported and an edit admitted,
   as long as each stage that is asked for ends, well or badly. A stage that
   does not end (finding 5) keeps edits denied too.
3. `MCPlansLeftover`. The clean-up looks for Plans labelled with
   `status.version`. Those of a release that was replaced before it succeeded
   stay, and the next release creates its own beside them. SUC then works on
   both: with `AfterFailure` TRUE, `OneNodeAtATime`, `UpgradeOrder` and
   `PhasesHonest` fail as well, and a node may be taken back to the older
   version after the new release was reported applied. The passing run
   `MCPlans` shows that these three hold when each release succeeds before the
   next is submitted. `OneReleaseAtATime` holds then only if, besides, reconciles
   start from the `status.version` that is stored (see finding 1).
4. `MCHelmStaleJob`. Until the Helm Controller has replaced a chart's Job, the
   complete Job of the previous content counts as the success of the new one.
   `rke2_core.go` guards its own charts against just this.
5. `MCHelmNumbers`. LCM's values come from YAML (`int`), the resource's from
   JSON (`float64`). With a number among them `shouldUpdateChart` is true for
   ever, and the LCM phase never ends.
6. `MCPackagedRetry`. A release that replaces one whose Kubernetes phase failed
   half-way deletes the snapshot and takes another, in the middle of the
   upgrade: it may have the target version and the new charts already. Nothing
   then counts as changed, and the phase succeeds while the Jobs have not run.
   `MCPackaged` shows that it does not happen when each release succeeds before
   the next is submitted, RKE2 writes its charts together, and a component that
   is reconfigured meanwhile keeps its content; without the last two it does, as
   described below.

More divergences showed up while modelling and have no run of their own:

- The docs deny downgrades (`docs/release-api.md:12`), but `ValidateUpdate`
  compares with `status.version`, which is set only when an upgrade ends
  (`release_webhook.go:105`). After an upgrade to 2 failed half-way, version 1
  is admitted with nodes at 2.
- After a failure the webhook admits another registry with the same version.
  The ConfigMap keeps manifests by version alone
  (`release_controller.go:381`; `release_types.go:93`), so the pipeline works
  from the manifest of the registry before, while the LCM phase works from that
  of the new one. With `Moving = TRUE` TLC finds `ManifestOfRelease` violated.
- While the manifest is unresolved `updateAppliedCondition` leaves `Applied` as it
  was (`condition.go:116`), so after a failed LCM phase the webhook admits edits
  while that phase is retried and in progress; `EditsOnlyBetweenUpgrades`
  therefore excludes `Applied` Failed, and `Submit` of `StagedUpgrade` admits it.
- Outside the LCM phase the charts that depend on a failed chart are upgraded
  (`helm.go:135`), although `docs/workflow.md:64` says that dependencies always
  go first; `DependenciesFirst` allows just that.
- `lcmUpgradeConfig` rebuilds LCM's charts without their dependencies, so that
  the CRDs chart is upgraded before the controller's only if the manifest lists
  it first (`docs/helm-chart-ref.md:12`); `WholeOrder` excludes those two. A
  configuration for the CRDs chart is accepted and ignored. An LCM chart that
  only the solution manifest lists would be upgraded by neither phase; the model
  assumes that they are charts of the core manifest.
- Configurations are matched by chart (`config.go:181`), charts are sorted by name
  (`helm.go:153`). Of two different charts with one name the later alone is
  upgraded, and a configuration for the other is accepted and then lost with it.
  The attempt to prove `UserConfigApplied` showed it; the property now says that
  this is the only way to lose one, and `MCUpgradeConfig` has such a manifest.
- `rke2_core.go`: an upgrade between two Kubernetes versions that share all
  packaged charts waits for ever (`:145`); the versions are compared as written
  there, while `kubernetes.go:220` ignores a leading `v`; and when the RKE2
  server writes its charts one after another, the phase may succeed before the
  last is written (`Together = FALSE`, with which TLC finds `ComponentsHonest`
  violated). A Job that runs again for the content before the upgrade, because
  the user reconfigured the component meanwhile, completes after the snapshot and
  is taken for the one of the new content, against the comment at `:409` (with
  `Reconfigured = {cni}` TLC finds it; `MCPackaged` has `{dns}`, whose content no
  upgrade changes). `hasHelmReleaseAdvancedPastSnapshot` does not look at the
  status of the Helm release.
- SUC's labels on a node outlive its Plan, so an OS or Kubernetes version to
  which a later release returns (1, 2, 1) finds every node labelled: its Plan is
  complete at once, and nothing is upgraded. `allNodesAtKubernetesVersion` would
  notice it, nothing checks the OS beyond the Plan. The webhook denies a release version
  below the last one, not a release with an older OS. The proof of `PhasesHonest`
  needed a hypothesis against it (`NoReturn`), and with three such releases TLC
  finds the property violated.
- The snapshot just created is read back through the cache and may not be there
  yet (`:225`): the attempt then ends with an error and is repeated.

### Bounds, and why they are enough

- `MCRelease`: `N = 2` handlers (a first, a last, and the step between
  them; the LCM phase before both); `MaxGenerations = 2` (an old generation
  whose status lands on a new one); `MaxFaults = 2`
  (a fault, and another during the recovery from it); specs that succeed, skip
  stages, fail at the first and last stage, and take each of the error paths.
  The proofs remove these bounds for the theorems below.
- `MCHelmPhase`: three releases over three charts, a dependency, a chart that is
  not installed and a chart whose values alone change, and are taken back by the
  third release while a Job for either may be there. `MaxFaults = 1` error of
  the API server; failing Jobs are not bounded. The order `ChartOrder` shows
  correct is the only thing the loop uses of the charts' number.
- `MCPlans`: three clusters. In one, two control plane nodes and a worker: two
  nodes in one group is what "one at a time" needs, two groups what the order
  needs. In the other a worker joins a single node at any moment: a group that
  was empty when the Plans were prepared. In the third a single node, with
  reconciles on old copies of the Release: enough for a clean-up that is skipped
  and a version that is put back at any moment; with more nodes the run would be
  too long, and the theorems are for any number. In the other two clusters, and
  in `MCPlansLeftover`, the Release is read as it is stored. Two releases with
  one OS version, one fault.
- `MCUpgradeConfig`: four families of input. Every list of two core charts and
  a solution chart over three names (one possibly twice) with up to two
  dependencies, or an external one: all cycles of one to three charts,
  diamonds, duplicates. LCM's charts at the start and at the end of the core
  manifest among renamed and solution charts, with every set of configured
  charts. Every two documents of values of depth two over two keys: each way two
  sources can differ at, above or below a path. 1 to 3 control plane nodes with
  0 to 3 workers: `parseDrainOpts` only compares with 1.
- `MCPackaged`: a component that each version changes and one that version 1
  adds; the releases 1, 1, 2 have an upgrade from the initial version, a release
  that keeps the version, and an upgrade whose snapshot replaces an older one.
  Two faults, a Job that is run again once. `MCPackagedRetry` has two releases
  and one fault.
- `MCManifests`: three versions at two registries, four generations: every
  release may find, and add to, what an earlier one left. Two faults, one of
  which may be the crash that parts memory and ConfigMap.

### Fairness, and why the code justifies it

- `ReleaseController`: weak fairness of the reconciler's steps (one worker, no
  step blocks for ever), of `CacheSync` (informers deliver), of each `Achieve`
  (external controllers finish what does not fail) and of `Resync` (the
  manager's cache has a `SyncPeriod` of controller-runtime's default). An LCM
  failure is *not* requeued by the code (`release_controller.go:154`); that
  `Converges` holds rests on an event or the resync. Faults are bounded, so a
  fault never repeats for ever.
- `HelmCharts`: weak fairness of the loop and of the Helm Controller per chart;
  none of `JobExpires` or of `NextRelease`.
- `NodePlans`: weak fairness of the reconciler, of the cache and of SUC per Plan
  and of each node's report; none of `Join`, `PutBack` or of failures.
  `NodesConverge` expects of a cluster with old copies only that its nodes get
  there: `status.version` may be put back again and again.
- `PackagedComponents`: weak fairness of the reconcile (an incomplete phase and
  an error are both requeued), of the cache, of the RKE2 server and each
  kubelet, and of the Helm Controller per chart; none of `CleanUpJob`,
  `RepeatJob`, `NextRelease` or of faults.
- `UpgradeConfig`: weak fairness of the whole, which is sequential code.
- `ReleaseManifests`: safety only.

## 4. What is proved

Every theorem is for all values of the constants (any number of handlers, specs,
charts, nodes, releases, versions, lists and bounds), from the named assumptions
of the modules, which TLC evaluates in the runs, and from the hypotheses in the
table.

| Theorem | Statement | Hypotheses |
|---|---|---|
| **`ReleaseControllerProofs`** | | |
| `TypeCorrect` | `Spec => []TypeOK` | |
| `AppliedIsHonest` | `Spec => []AppliedHonest` | |
| `VersionIsHonest` | `Spec => []VersionHonest` | |
| `StagesInOrder` | `Spec => []StageOrder` | |
| **`StagedUpgradeProofs`** | | |
| `EditsAreBetweenUpgrades` | `Spec => EditsOnlyBetweenUpgrades` | |
| `VersionIsNeverLowered` | `Spec => VersionNeverLowered` | |
| `ControllerKeepsPromise` | `Spec => KeepsPromise`: `ReleaseController` implements `StagedUpgrade` | |
| **`ReleaseManifestsProofs`** | | |
| `TypeCorrect` | `Spec => []TypeOK` | |
| `ManifestsAreKept` | `Spec => NothingForgotten` | |
| `ManifestIsOfRelease` | `Spec => []ManifestOfRelease` | `~Moving` |
| **`HelmChartsProofs`** | | |
| `TypeCorrect` | `Spec => []TypeOK` | |
| `PhaseIsHonest` | `Spec => []PhaseHonest` | `Prompt` |
| `DependenciesGoFirst` | `Spec => DependenciesFirst` | `Prompt` |
| **`ChartOrderProofs`** | | |
| `TypeCorrect` | `SortSpec => []TypeOK` | |
| `DependenciesComeFirst` | `SortSpec => []DependenciesBefore` | |
| `CyclesAreDetected` | `SortSpec => []CyclesDetected` | |
| `CoreComesFirst` | `SortSpec => []CoreFirst` | |
| **`UpgradeConfigProofs`** | | |
| `LaterSourcesWin` | `MergeSpec => []UserValuesWin` | |
| `ConfigSorts`, `ConfigMerges` | `ConfigSpec => SortSpec`, `ConfigSpec => MergeSpec` | |
| `UserValuesAreApplied` | `ConfigSpec => []UserValuesWin` | |
| `EveryChartInOrder` | `ConfigSpec => []WholeOrder` | |
| `ConfigReachesItsCharts` | `ConfigSpec => []UserConfigApplied` | |
| `DrainIsAsDocumented` | `ConfigSpec => []DrainAsDocumented` | |
| **`NodePlansProofs`** | | |
| `TypeCorrect` | `Spec => []TypeOK` | |
| `PlansOfOneRelease` | `Spec => OneReleaseAtATime` | `~AfterFailure`, and in the property `~stale` |
| `OneNodeOut` | `Spec => []OneNodeAtATime` | `~AfterFailure` |
| `PhasesAreHonest` | `Spec => PhasesHonest` | `~AfterFailure`, `NoReturn` |
| `UpgradesInOrder` | `Spec => UpgradeOrder` | `~AfterFailure`, `NoReturn` |
| **`PackagedComponentsProofs`** | | |
| `TypeCorrect` | `Spec => []TypeOK` | |
| `SnapshotIsFirst` | `Spec => SnapshotFirst` | `~AfterFailure`, `Together` |
| `ComponentsAreHonest` | `Spec => ComponentsHonest` | `~AfterFailure`, `Together`, `Steady`, `NotBack` |

Each hypothesis has instances (the passing runs satisfy it) and is needed (TLC
finds the property violated without it):

- `Prompt`: the Helm Controller has reacted to a chart before it is read again;
  without it, finding 4.
- `~AfterFailure`: a release succeeds before the next is submitted; without it,
  findings 3 and 6.
- `~stale`: reconciles start from the `status.version` that is stored; without
  it, the consequence described with finding 1.
- `~Moving`, `Together`: each version at one registry, and RKE2 writes the charts
  of a version together; without them, the divergences in section 3.
- `NoReturn`: no release has an OS or Kubernetes version that an earlier one left;
  without it, the divergence on SUC's labels.
- `Steady`: a component that the user reconfigures during an upgrade has one
  content in all versions; without it, the divergence on `rke2_core.go:409`.
- `NotBack`: a component that a version drops does not come back in a later one.
  What uninstalling does to a Job or Helm release is not modelled, so nothing is
  known of one that returns; this is a limit of the model, not of the code.

### Release controller

`AppliedHonest` is not inductive: `Applied` is computed from the other
conditions of a copy that may be old, and is then written over a status that
has moved on. The inductive invariant is that every copy of the status in the
system (the stored one, the cached one, the one being worked on) is *true of
the cluster by now*, however old it is:

    Inv == TypeOK /\ TrueStatus of status, cached.status and st
           /\ Position /\ StageOrder

`TrueStatus(s)`: each complete condition of `s` was reached by the generation
`s` has observed; a resolved manifest comes after a complete LCM phase; all
phases complete means the version is that generation's; a version is one that
every stage reached for some generation; `Applied` is Succeeded only with all
of these complete. `Position` ties the place in the reconcile to the copy: the
handlers before `k` have been found reached in this run.

The argument has three parts. (1) Claims last: specs are only appended and
`have` only grows, so a true status stays true (`TruthLasts`), and overwriting
a newer status with an older true one does no harm to these properties, though
it does to `VersionNeverRegresses` (finding 1). (2) Each condition function
keeps a status true given what the handler just reported (`SetLCMTrue`,
`PhaseIncompleteTrue`, `PipelineCompleteTrue`, `UpdateAppliedTrue`...). (3) One
step per action, grouped as the code is: up to the LCM phase, manifest,
pipeline, the end of a reconcile and the environment.

The refinement needs more: that the status an edit is admitted on is about the
latest generation, if that one was started. `Orderly`, inductive given `Inv`,
says why.

- `Observed`: `want[q] <= cached.status.observed <= status.observed <= gen`. A
  stage is asked only for a generation that the cached status has observed, and
  neither the cache nor the reconciler goes back to an older generation, though
  the rest of the status may go back.
- `AppliedSet`: `Applied` is never Skipped, and absent only before the first
  generation is observed.
- `Versions`: the version of each copy is that of a generation no later than the
  one the copy has observed.

So if the last generation was started, the stored status has observed it, and an
`Applied` that admits the edit is Failed or a true Succeeded (`EditBetween`). All
steps within a reconcile are of one shape, `WorkStep`: at most one stage is
asked for the generation at hand, and no shared status changes; each is a
`Take` or a stutter (`WorkTakes`). The ends of a reconcile are a `Report`
because the status written is true (`FinishReports`).

### Manifests

`NothingForgotten` rests on `Copies`: a copy of the ConfigMap
of the revision that is stored now has the data that is stored now. A write goes
through only at the revision of its copy (`base`), so what it writes back are all
the entries there are. `ManifestOfRelease` rests on `Sources`: every entry of the
ConfigMap and of its copies is the image that a release of that version names,
and a reconcile whose generation is still the last one has the last spec. The
first part needs `~Moving`, and is where the divergence on registries in section
3 breaks it.

### Helm phase and chart order

`PhaseHonest` speaks of the moment the phase ends, the loop of one chart after
the other, and Jobs end in between. The invariant has two parts. `ChartsOK`, of
each chart alone, says what a Job may be trusted for: a complete Job has
installed its content, and one that is gone has too unless the HelmChart says
that it failed, which is what
`evaluateHelmChartJobStatus` infers. `Progress` says that each
chart the loop has passed is `Settled` (at its target, and no Job is left that
could move it) or, outside the LCM phase, has failed for good. `Prompt` is
used in one place: the Job that is read is of the content that was written.
`DependenciesFirst` follows from `Progress` and `OrderAssumption`, and this
assumption is what `ChartOrderProofs` shows of the sort.

There the invariant `Sorting` describes the stack of calls. Each call is of
another chart of the list, has all dependencies behind it done (visited, or not
in the list), and was made for the dependency that the call below it is at
(`Frames`, `Linked`); exactly the charts of the calls are in progress; the loop
leaves nothing behind (`Passed`). A visit of a name in progress thus closes a
circle of calls, which is the witness of `HasCycle`. Conversely, in a result
with each chart after its dependencies the first member of a set depends on none
of the others, so there is no cycle. `CoreFirst` needs `Leading`: until the loop
has passed a leading part that is closed under dependencies nothing else is
visited, and afterwards all of the part is done.

### Values and upgrade configuration

In the middle of a merge the document is neither what it was nor what it will be.
`Between` splits the paths by `turns`: at and inside a key still to come (`Pending`)
the document is as before the merge, everywhere else it is as merged, and no key
still to come is inside of another, so that the turns do not disturb each other.
Going into a map on both sides keeps this because whatever the later source has
there is inside of one of the new keys (`JustInside`); replacing a value keeps it
because no node of the earlier source inside of it is to stay. With no turn left
the document is merged everywhere (`MergeEnds`), and one source after the other
gives `Precedence` (`PrecedenceStep`, `Merging`).

The lists of the two phases come from loops that keep some of the charts. What
`Only` returns is shown along the list by `UpTo`, which is induction in the form of
a least counterexample, since the library's induction theorems cannot be used:
first that the function defined by recursion exists (`LoopExists`), then what is in
it (`OnlyKeeps`). From this every chart of the manifests is in the list of exactly
one phase (`LCMElement`, `PipelineElement`, `InOnePhase`). The invariant of a release is

    ConfigInv == Sorting /\ Phases

where `Phases` ties the list being sorted to the phase, and says of the LCM phase that is
over what it went through: `Went`, configs of its list, each name once.
`ConfigStep` shows at the same time that each step is one of the sort, one of the
merge or of neither, from which `ConfigSorts` and `ConfigMerges` follow: the
theorems of `ChartOrderProofs` hold in `ConfigSpec`. When both phases are through
(`Through`), `WholeOrder` and `UserConfigApplied` are read off `Went`, of the LCM phase
and, by `NothingLost` and `DependenciesBefore`, of the Helm phase.

### Plans

`Labels` says what is known of Plans whatever copy of the Release a reconcile
starts from: a Plan and its copy in the cache are of one release, and a Plan of
this release has its versions (`SamePlan`, `PlansKnown`, `Place`). `Tidy` adds
what holds while `status.version` is read as it is stored (`~stale`): Plans are
those of this release or all of the release before, never both once something
of this release was created, and what the clean-up has to find is in the cache
(`Previous`, `Unmixed`, `Watched`). From this `OneReleaseAtATime` follows, which
is about such clusters alone. The other three theorems use only `Labels` and
hold with old copies too: a Plan that was left over belongs to a release that
has succeeded, so it is done and every node has its label. `Turns` says, when no node is still to join,
that a Plan exists only when the Plans before it in the order (OS before
Kubernetes, control plane before workers) are done, and that done is for ever,
since SUC's labels stay: so at most one Plan has a node out of service. `Nodal`
adds which version each node then has. `NoReturn` enters there: the label of a
Plan says that a node had the version once.

### Packaged components

`Upgrading` follows an upgrade from the snapshot to the end: until the snapshot
of the release is taken nothing has moved, and it shows the version and charts
before (`Moved`, `Recorded`, `Stage`). `Installed` says of each component that it
is as the release before left it (`Waiting`), or its Job has been replaced by
one for the new content (`Changing`); one that may be reconfigured has the same
content throughout (`Repeating`). `isHelmChartJobComplete` can then tell
the new Job from the old by the time of the snapshot, and, when the Job is gone,
by the revision of the Helm release.

### Only model-checked

Liveness under fairness (`Converges`, `RepairAllowed`, `PhaseEnds`,
`NodesConverge`, `WaitEnds`, `SortEnds`) is out of the prover's reach. Every other
property that a passing run checks is also a theorem. That a property is violated,
in the runs of section 3, is TLC's result alone.

## 5. Abstractions and assumptions

- `reconcileChart` and each handler's look at one Plan are one step; charts and
  Plans interleave with the external controllers between steps.
- `Prompt` (in `HelmCharts`): the Helm Controller has reacted to a chart before
  it is read again. `MCHelmPhase` assumes it, because without it
  `PhaseHonest` is false (finding 4). Reads of HelmCharts and of the node list
  are otherwise taken to be current; those of Plans, of the
  snapshot and of the manifests' ConfigMap are not. Nor are those of the Release
  in `ReleaseController`, and in `NodePlans` in clusters with `stale`;
  `OneReleaseAtATime` alone is about the others, since it is false with old
  copies (finding 1). The other modules do not use `status.version`.
- The status write goes through only when the cache has the stored
  resourceVersion, because the refetch reads the same cache.
- Conditions are their reasons. A write that changes only messages or
  transition times is a `WriteStatus` with `st = orig`.
- `have` never goes back: a cluster does not lose a release by itself. A
  finished stage may still report InProgress for a while.
- SUC's labels on nodes outlive the Plan. `NodePlans` takes the packaged
  components of Kubernetes to be available at once and `PackagedComponents`
  reduces Plans to the version they ask for: the handler runs the two one after
  the other, and they share only the node versions. Versions are distinct, although
  `SanitizeVersion` can map two to one name.
- In `PackagedComponents` a Job of a packaged component does not fail for ever:
  the code waits for it without limit. A content stands for a chart's
  `chartContent`, URL and version together.
- In `ReleaseManifests` an image does not change under its tag, what the phases
  do with a manifest is any result, and a lagging status is left to
  `ReleaseController`.
- In `UpgradeConfig` each phase runs to its end. LCM's charts are charts of the core
  manifest and have no other name, no other chart has theirs, and there is a
  control plane node (`ConfigAssumption`). Node counts are those of the moment;
  values are maps and scalars (`mergeMaps` does not look into lists).
- The comment at `release_webhook.go:134` mentions "in progress or failed"; the
  code admits edits after a failure, which the model follows.

## 6. Plan

Done, in this order: `ReleaseConditions`, `ReleaseController` and its proofs;
`HelmCharts`; `NodePlans`; `ChartOrder`; `PackagedComponents`;
`ReleaseManifests`; `HelmValues` and `UpgradeConfig`; `StagedUpgrade` and its
refinement by `ReleaseController`, with its proof; the proofs about
`ReleaseManifests`, `HelmCharts`, `NodePlans`, `PackagedComponents`,
`ChartOrder`, `HelmValues` and `UpgradeConfig`.

To come:

1. An abstract handler (asked, working, reached) that `HelmCharts` and
   `NodePlans` implement: the contract `ReleaseController` takes from them.
2. `ReleaseAdmission`: two creations at a time and the check of value secrets
   (`release_webhook.go:68`).
3. The drain options of a Plan in `NodePlans`, which are those of the moment it
   was created (`release_controller.go:413`), and `SanitizeVersion`, with which
   two versions may share a label (`release_types.go:84`).

## 7. Not modelled, and why

Reading an OCI image, the Helm client's storage access and the templates of
SUC's Jobs are I/O or run outside the manager. Flags, TLS, metrics, leader
election and RBAC are configuration of controller-runtime. Deep copies are
generated. Validation markers and defaults of the API types are enforced by the
API server. Draining of nodes is carried out by SUC; the options that are passed
to it are in `UpgradeConfig`. Creation of the Release precedes everything here.
How long anything takes is left out: a timer is an action that may happen once
it is enabled.
