----------------------------- MODULE HelmCharts -----------------------------
(***************************************************************************)
(* The HelmReconciler (internal/upgrade/reconcilers/helm.go), which        *)
(* upgrades the charts of a release in dependency order, and the Helm      *)
(* Controller that does the work: for every HelmChart resource (CR) whose  *)
(* content is new it runs a Job that installs the content.                 *)
(*                                                                         *)
(* The content of a chart is its version and its custom values (inline and *)
(* from secrets).  A round is one release: a target content per chart.     *)
(* reconcileChart reads the Helm release, the CR and the Job of a chart in *)
(* one step; the steps for different charts interleave with the Helm       *)
(* Controller.                                                             *)
(***************************************************************************)
EXTENDS Naturals, Sequences

CONSTANTS
    Charts,         \* the charts of the release manifest
    Order,          \* what sortChartConfigsByDependencies returned
    DependsOn,      \* per chart: the charts its DependsOn names
    Contents,       \* [version, values] records a chart may be asked for
    Targets,        \* the releases applied one after the other
    Preinstalled,   \* per chart: what a user has installed, or NotInstalled
    MayFail,        \* charts whose Jobs may fail
    Modes,          \* values of strict to start with: TRUE is the LCM phase
    Numeric,        \* the contents with a number in the manifest's values
    Prompt,         \* the Helm Controller reacts to a CR before it is read
    MaxFaults       \* bound: errors of the API server

NotInstalled == [version |-> 0, values |-> 0]

ASSUME ChartsAssumption ==
    /\ Contents \subseteq [version : Nat \ {0}, values : Nat]
    /\ Targets \in Seq([Charts -> Contents]) /\ Targets # <<>>
    /\ Preinstalled \in [Charts -> Contents \cup {NotInstalled}]
    /\ MayFail \subseteq Charts /\ Numeric \subseteq Contents
    /\ Modes \subseteq BOOLEAN /\ Prompt \in BOOLEAN /\ MaxFaults \in Nat
ASSUME OrderAssumption ==
    /\ DependsOn \in [Charts -> SUBSET Charts]
    /\ Order \in Seq(Charts) /\ Len(Order) > 0
    /\ \A c \in Charts : \E i \in 1..Len(Order) : Order[i] = c
    /\ \A i, j \in 1..Len(Order) :
          /\ Order[i] = Order[j] => i = j
          /\ Order[j] \in DependsOn[Order[i]] => j < i

VARIABLES
    strict,     \* HelmReconciler.strict: a failed chart ends the phase
    round,      \* the release being applied
    deployed,   \* per chart: the content of its Helm release
    cr,         \* per chart: spec.content of the HelmChart CR, or Absent
    named,      \* per chart: the CR's status.jobName is set
    failedCond, \* per chart: the CR's Failed condition is True
    job,        \* per chart: the Job, [state, content]
    i,          \* the chart being reconciled, 0 between reconciles
    states,     \* results: the state of the charts reconciled so far
    outcome,    \* what the last reconcile returned in this round
    faults

crVars  == <<cr, named, failedCond>>
vars == <<strict, round, deployed, cr, named, failedCond, job, i, states, outcome,
          faults>>

Absent == NotInstalled      \* no CR
NoJob  == [state |-> "none", content |-> NotInstalled]
ChartStates == {"NotInstalled", "VersionAlreadyInstalled", "InProgress",
                "Failed", "Succeeded"}

Target(c) == Targets[round][c]

\* Each chart was installed by hand, or through a CR whose Job is done.
Init ==
    /\ strict \in Modes
    /\ round = 1
    /\ deployed = Preinstalled
    /\ \E managed \in SUBSET {c \in Charts : Preinstalled[c] # NotInstalled} :
         /\ cr = [c \in Charts |-> IF c \in managed THEN Preinstalled[c]
                                                    ELSE Absent]
         /\ named = [c \in Charts |-> c \in managed]
         /\ job = [c \in Charts |->
                     IF c \in managed
                     THEN [state |-> "complete", content |-> Preinstalled[c]]
                     ELSE NoJob]
    /\ failedCond = [c \in Charts |-> FALSE]
    /\ i = 0
    /\ states = <<>>
    /\ outcome = "None"
    /\ faults = 0

-----------------------------------------------------------------------------
(* The reconciler                                                          *)

Begin ==
    /\ i = 0
    /\ i' = 1
    /\ states' = <<>>
    /\ UNCHANGED <<strict, round, deployed, crVars, job, outcome, faults>>

Return(result) == i' = 0 /\ outcome' = result

\* Mutant: a version that is up to date hides a change of the values.
VersionDiffers(c) == cr[c].version # Target(c).version

\* The LCM phase decodes the manifest's values from YAML, where a number is
\* an int, and those of the CR from JSON, where it is a float64: DeepEqual
\* tells them apart.  (The pipeline's manifest is cached as JSON.)
Decoded(c) == [content |-> Target(c),
               ints    |-> strict /\ Target(c) \in Numeric]
Existing(c) == [content |-> cr[c], ints |-> FALSE]

\* shouldUpdateChart: version, values or value secrets differ.
ShouldUpdate(c) == Existing(c) # Decoded(c)

\* Mutant: an unfinished Job counts as a success.
JobNotFailed(c) ==
    CASE ~named[c] -> "InProgress"
      [] job[c].state = "failed" -> "Failed"
      [] OTHER -> "Succeeded"

\* Mutant: only a complete Job is an answer.
AwaitCompletion(c) ==
    IF named[c] /\ job[c].state = "complete" THEN "Succeeded" ELSE "InProgress"

\* evaluateHelmChartJobStatus: a Job that is gone counts as complete unless
\* the CR's conditions say otherwise.
JobStatus(c) ==
    CASE ~named[c] -> "InProgress"
      [] named[c] /\ job[c].state = "none" ->
            IF failedCond[c] THEN "Failed" ELSE "Succeeded"
      [] named[c] /\ job[c].state = "running" -> "InProgress"
      [] named[c] /\ job[c].state = "complete" -> "Succeeded"
      [] named[c] /\ job[c].state = "failed" -> "Failed"

\* The state reconcileChart returns; Create or Update makes it InProgress.
Writes(c) ==
    /\ deployed[c] # NotInstalled
    /\ IF cr[c] = Absent THEN deployed[c].version # Target(c).version
                         ELSE ShouldUpdate(c)

ChartState(c) ==
    CASE deployed[c] = NotInstalled -> "NotInstalled"
      [] deployed[c] # NotInstalled /\ Writes(c) -> "InProgress"
      [] deployed[c] # NotInstalled /\ ~Writes(c) ->
            IF cr[c] = Absent THEN "VersionAlreadyInstalled" ELSE JobStatus(c)

\* aggregateResults
Aggregate(results) ==
    LET seen == {results[j] : j \in 1..Len(results)} IN
    CASE "Failed" \in seen -> "Failed"
      [] "Failed" \notin seen /\ "InProgress" \in seen -> "InProgress"
      [] OTHER -> "Succeeded"

\* Mutant: the charts after one in progress are reconciled too.
NeverWaits(state) == state = "Failed" /\ strict

\* The loop ends early at a chart in progress and, if strict, a failed one.
Stops(state) == state = "InProgress" \/ (state = "Failed" /\ strict)

\* Mutant: an off-by-one at the end of the list.
BeyondLast(n) == n > Len(Order)

IsLast(n) == n = Len(Order)

\* One turn of the loop in reconcileHelmCharts.
ReconcileChart ==
    /\ i > 0
    /\ LET c == Order[i]
           state == ChartState(c)
           results == Append(states, state)
       IN /\ Prompt /\ named[c] => job[c].content = cr[c]
          /\ cr' = IF Writes(c) THEN [cr EXCEPT ![c] = Target(c)] ELSE cr
          /\ states' = results
          /\ \/ Stops(state) /\ state = "Failed" /\ Return("Error")
             \/ /\ Stops(state) /\ state # "Failed"
                /\ Return(Aggregate(results))
             \/ /\ ~Stops(state) /\ IsLast(i)
                /\ Return(Aggregate(results))
             \/ /\ ~Stops(state) /\ ~IsLast(i)
                /\ i' = i + 1 /\ UNCHANGED outcome
    /\ UNCHANGED <<strict, round, deployed, named, failedCond, job, faults>>

\* Any call of reconcileChart fails; a write may have gone through.
ReconcileError ==
    /\ i > 0
    /\ faults < MaxFaults /\ faults' = faults + 1
    /\ LET c == Order[i] IN
         cr' \in {cr, IF Writes(c) THEN [cr EXCEPT ![c] = Target(c)] ELSE cr}
    /\ Return("Error")
    /\ UNCHANGED <<strict, round, deployed, named, failedCond, job, states>>

\* A new release.  The webhook can admit it while Jobs still run (see
\* ReleaseController), so only a reconcile under way holds it back.
NextRelease ==
    /\ i = 0
    /\ round < Len(Targets)
    /\ round' = round + 1
    /\ outcome' = "None"
    /\ UNCHANGED <<strict, deployed, crVars, job, i, states, faults>>

-----------------------------------------------------------------------------
(* The Helm Controller                                                     *)

\* The Job of the previous content goes before the new one is created.
RemoveStaleJob(c) ==
    /\ cr[c] # Absent /\ job[c].state # "none" /\ job[c].content # cr[c]
    /\ job' = [job EXCEPT ![c] = NoJob]
    /\ UNCHANGED <<strict, round, deployed, crVars, i, states, outcome, faults>>

ScheduleJob(c) ==
    /\ cr[c] # Absent /\ job[c].state = "none" /\ job[c].content # cr[c]
    /\ job' = [job EXCEPT ![c] = [state |-> "running", content |-> cr[c]]]
    /\ named' = [named EXCEPT ![c] = TRUE]
    /\ failedCond' = [failedCond EXCEPT ![c] = FALSE]
    /\ UNCHANGED <<strict, round, deployed, cr, i, states, outcome, faults>>

JobCompletes(c) ==
    /\ job[c].state = "running"
    /\ job' = [job EXCEPT ![c].state = "complete"]
    /\ deployed' = [deployed EXCEPT ![c] = job[c].content]
    /\ UNCHANGED <<strict, round, crVars, i, states, outcome, faults>>

JobFails(c) ==
    /\ c \in MayFail /\ job[c].state = "running"
    /\ job' = [job EXCEPT ![c].state = "failed"]
    /\ failedCond' = [failedCond EXCEPT ![c] = TRUE]
    /\ UNCHANGED <<strict, round, deployed, cr, named, i, states, outcome, faults>>

\* A finished Job is cleaned up.
JobExpires(c) ==
    /\ job[c].state \in {"complete", "failed"}
    /\ job[c].content = cr[c]
    /\ job' = [job EXCEPT ![c].state = "none"]
    /\ UNCHANGED <<strict, round, deployed, crVars, i, states, outcome, faults>>

HelmController(c) == \/ RemoveStaleJob(c) \/ ScheduleJob(c)
                     \/ JobCompletes(c) \/ JobFails(c)

-----------------------------------------------------------------------------
Next == \/ Begin \/ ReconcileChart \/ ReconcileError \/ NextRelease
        \/ \E c \in Charts : HelmController(c) \/ JobExpires(c)

Spec == Init /\ [][Next]_vars

\* The pipeline is run again every requeueInterval until it is complete, and
\* the Helm Controller handles every CR.
Fairness == /\ WF_vars(Begin) /\ WF_vars(ReconcileChart)
            /\ \A c \in Charts : WF_vars(HelmController(c))

FairSpec == Spec /\ Fairness

-----------------------------------------------------------------------------
(* Properties                                                              *)

\* The variables keep to their types and the loop to the list of charts.
TypeOK ==
    /\ strict \in Modes
    /\ round \in 1..Len(Targets)
    /\ deployed \in [Charts -> Contents \cup {NotInstalled}]
    /\ cr \in [Charts -> Contents \cup {Absent}]
    /\ named \in [Charts -> BOOLEAN]
    /\ failedCond \in [Charts -> BOOLEAN]
    /\ job \in [Charts -> [state : {"none", "running", "complete", "failed"},
                           content : Contents \cup {NotInstalled}]]
    /\ i \in 0..Len(Order)
    /\ states \in Seq(ChartStates) /\ Len(states) <= Len(Order)
    /\ outcome \in {"None", "InProgress", "Failed", "Succeeded", "Error"}
    /\ faults \in 0..MaxFaults

\* A chart is where this release wants it, or is not LCM's to upgrade.
UpToDate(c) ==
    \/ deployed[c] = NotInstalled
    \/ cr[c] = Absent /\ deployed[c].version = Target(c).version
    \/ deployed[c] = Target(c)

\* The phase reports Succeeded only when every chart is at its target, for
\* every order in which Jobs are replaced, finish, fail and are cleaned up
\* while charts are reconciled (docs/workflow.md:62 and :66).
PhaseHonest == outcome = "Succeeded" => \A c \in Charts : UpToDate(c)

\* A CR is created or changed only when every chart it depends on is at its
\* target or, outside the LCM phase, has failed (docs/workflow.md:64): the
\* loop's break and the strict return are all that holds dependents back.
DependenciesFirst ==
    [][\A c \in Charts : cr'[c] # cr[c] =>
          \A d \in DependsOn[c] : UpToDate(d) \/ (failedCond[d] /\ ~strict)]_vars

\* Reconciling the charts comes to an end: no chart waits for ever for a Job
\* that nothing will start.
PhaseEnds == []<>(outcome \in {"Succeeded", "Failed", "Error"})
=============================================================================
