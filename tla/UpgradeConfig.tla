---------------------------- MODULE UpgradeConfig ----------------------------
(***************************************************************************)
(* What the two Helm phases of a release are given, from its manifests and *)
(* its spec (internal/upgrade/config.go, parseUpgradeConfig and            *)
(* lcmUpgradeConfig in internal/controller/release_controller.go), and the *)
(* order in which they go through it (ChartOrder): the LCM phase through   *)
(* the LCM charts of the core manifest, then the Helm phase through the    *)
(* other charts of the core and of the solution manifest.  Also the drain  *)
(* options and the values of a chart (HelmValues).                         *)
(*                                                                         *)
(* Every phase runs to its end here; how a chart fails or waits is in      *)
(* HelmCharts.  A chart of a manifest is [chart, name, deps]; name is what *)
(* GetName returns.                                                        *)
(***************************************************************************)
EXTENDS ChartOrder, HelmValues

CONSTANTS ChartSpecs, \* the charts a manifest may list
          Inputs,     \* the releases, in several sets
          LCM, CRDs   \* elementalLifecycleManager, elementalLifecycleManagerCRDs

VARIABLES input,      \* the release
          phase,      \* start, lcm, helm or rejected (RuntimeConfigError)
          upgraded    \* the chart configs the LCM phase went through

vars == <<sortVars, mergeVars, input, phase, upgraded>>

SelfCharts == {LCM, CRDs}

Charts(list) == {list[i].chart : i \in 1..Len(list)}

-----------------------------------------------------------------------------
\* A HelmChartConfig: own is whose repositories are looked up, runtime whether
\* the chart has a componentConfig.
Config(chart, own, runtime) ==
    [name |-> chart.name, chart |-> chart.chart, deps |-> chart.deps,
     repository |-> own, runtime |-> runtime]

\* A part of BuildHelmChartConfig; runtime: the charts with a componentConfig.
PartConfigs(list, own, runtime) ==
    [i \in 1..Len(list) |-> Config(list[i], own, list[i].chart \in runtime)]

\* Mutant: a configuration is looked up in the core manifest alone.
KnownInCore(core, solution, runtime) == runtime \subseteq Charts(core)

\* No configuration is left unprocessed.
AllKnown(core, solution, runtime) ==
    runtime \subseteq Charts(core) \cup Charts(solution)

BuildHelmChartConfig(core, solution, runtime) ==
    PartConfigs(core, "core", runtime) \o PartConfigs(solution, "solution", runtime)

\* Mutant: the configurations of all charts.
AnyRuntime(in) == in.runtime

\* runtimeHelmChartConfigs for the LCM phase.
LCMRuntime(in) == in.runtime \cap {LCM}

\* What a loop that appends the elements of these charts makes of the list.
Only(list, charts) ==
    LET kept[i \in 0..Len(list)] ==
            IF i = 0 THEN <<>>
            ELSE IF list[i].chart \in charts THEN Append(kept[i - 1], list[i])
                 ELSE kept[i - 1]
    IN kept[Len(list)]

\* An LCM chart as lcmUpgradeConfig rebuilds it, without dependencies.
Rebuilt(c) == [chart |-> c.chart, name |-> c.chart, deps |-> <<>>]

LCMCharts(in) ==
    LET own == Only(in.core, SelfCharts)
    IN [i \in 1..Len(own) |-> Rebuilt(own[i])]

LCMConfigs(in) == BuildHelmChartConfig(LCMCharts(in), <<>>, LCMRuntime(in))

\* Mutant: only the chart of the controller is left out.
NotTheController(charts) == charts \ {LCM}

\* parseUpgradeConfig removes the charts of the LCM phase.
NotSelfUpgraded(charts) == charts \ SelfCharts

PipelineConfigs(in) ==
    Only(BuildHelmChartConfig(in.core, in.solution, in.runtime),
         NotSelfUpgraded(Charts(in.core) \cup Charts(in.solution)))

\* Mutant: the groups are mixed up.
DrainAny(in) == LET drain == ~in.disableDrain /\ in.controlPlane + in.workers > 2
                IN [controlPlane |-> drain, worker |-> drain]

\* parseDrainOpts, case by case.
ParseDrainOpts(in) ==
    LET Opts(cp, worker) == [controlPlane |-> cp, worker |-> worker]
    IN CASE in.disableDrain                             -> Opts(FALSE, FALSE)
         [] ~in.disableDrain /\ in.controlPlane > 1 /\ in.workers <= 1
                                                        -> Opts(TRUE, FALSE)
         [] ~in.disableDrain /\ in.controlPlane = 1 /\ in.workers > 1
                                                        -> Opts(FALSE, TRUE)
         [] ~in.disableDrain /\ in.controlPlane <= 1 /\ in.workers <= 1
                                                        -> Opts(FALSE, FALSE)
         [] OTHER                                       -> Opts(TRUE, TRUE)

\* generateCustomValuesMap of one chart: values of the manifest, then of the user.
GenerateCustomValues(in) == <<in.manifestValues, in.userValues>>

\* LCM's charts are charts of the core manifest, have no other name, and no
\* other chart has theirs.  There is a control plane node.
ConfigAssumption ==
    /\ LCM # CRDs
    /\ \A c \in ChartSpecs :
          /\ \A own \in {"core", "solution"}, runtime \in BOOLEAN :
                /\ Config(c, own, runtime) \in Configs
                /\ c.chart \in SelfCharts => Config(Rebuilt(c), own, runtime) \in Configs
          /\ c.name \in SelfCharts \/ c.chart \in SelfCharts => c.name = c.chart
    /\ \A family \in Inputs : \A in \in family :
          /\ in.core \in Seq(ChartSpecs) /\ in.solution \in Seq(ChartSpecs)
          /\ Charts(in.solution) \cap SelfCharts = {}
          /\ in.controlPlane \in Nat \ {0} /\ in.workers \in Nat
          /\ in.disableDrain \in BOOLEAN
          /\ in.manifestValues \in Documents /\ in.userValues \in Documents
ASSUME ConfigAssumption

-----------------------------------------------------------------------------
ConfigInit == /\ Init
              /\ \E family \in Inputs : input \in family
              /\ phase = "start"
              /\ upgraded = <<>>
              /\ sources = GenerateCustomValues(input)
              /\ MergeInit

\* A RuntimeConfigError: no phase gets a configuration.
Reject == phase' = "rejected" /\ UNCHANGED <<sortVars, upgraded>>

StartLCM ==
    /\ phase = "start"
    /\ IF AllKnown(LCMCharts(input), <<>>, LCMRuntime(input))
       THEN /\ phase' = "lcm"
            /\ StartSort(LCMConfigs(input))
            /\ UNCHANGED upgraded
       ELSE Reject
    /\ UNCHANGED <<mergeVars, input>>

Sort == SortStep /\ UNCHANGED <<mergeVars, input, phase, upgraded>>

Sorted == [i \in 1..Len(result) |-> ConfigOf(result[i])]

\* The LCM phase is complete.
StartPipeline ==
    /\ phase = "lcm" /\ Ended
    /\ IF AllKnown(input.core, input.solution, input.runtime)
       THEN /\ phase' = "helm"
            /\ StartSort(PipelineConfigs(input))
            /\ upgraded' = Sorted
       ELSE Reject
    /\ UNCHANGED <<mergeVars, input>>

Complete == phase = "helm" /\ Ended /\ ~cyclic

\* resolveHelmChartValues of one of the charts.
Merge == /\ Complete
         /\ MergeStep
         /\ UNCHANGED <<sortVars, input, phase, upgraded>>

ConfigNext == StartLCM \/ Sort \/ StartPipeline \/ Merge

ConfigSpec == ConfigInit /\ [][ConfigNext]_vars /\ WF_vars(ConfigNext)

-----------------------------------------------------------------------------
(* Properties                                                              *)

\* All charts, in the order in which the two phases went through them.
Whole == upgraded \o Sorted

ManifestCharts == input.core \o input.solution

\* The two phases together go through every chart the manifests name exactly
\* once (docs/workflow.md:66), the LCM phase through LCM's own, and through no
\* chart before the charts it depends on (docs/workflow.md:64), those of the
\* other phase included.  The dependencies of LCM's own charts are dropped.
WholeOrder ==
    Complete =>
        LET At(name) == {i \in 1..Len(Whole) : Whole[i].name = name}
            Own(i)   == Whole[i].chart \in SelfCharts
        IN /\ {Whole[i].name : i \in 1..Len(Whole)} =
                  {ManifestCharts[i].name : i \in 1..Len(ManifestCharts)}
           /\ \A i \in 1..Len(Whole) :
                 /\ Cardinality(At(Whole[i].name)) = 1
                 /\ Own(i) <=> i <= Len(upgraded)
                 /\ ~Own(i) => \A d \in ToSet(Whole[i].deps) :
                                  \A j \in At(d) : j < i

\* A release is rejected exactly when its componentConfig names a chart that
\* the manifests have not (config.go:213); otherwise each configuration goes
\* with every chart it names, in whichever phase that is, and with no other.
\* It is lost only with its chart, when another chart has the same name.
\* That of the CRDs chart, which has no options (docs/helm-chart-ref.md:56),
\* is ignored.
UserConfigApplied ==
    LET configured == input.runtime \ {CRDs}
    IN /\ phase = "rejected" => ~(input.runtime \subseteq Charts(ManifestCharts))
       /\ Complete =>
             /\ input.runtime \subseteq Charts(ManifestCharts)
             /\ \A i \in 1..Len(Whole) :
                   Whole[i].runtime <=> Whole[i].chart \in configured
             /\ \A i \in 1..Len(ManifestCharts) :
                   ManifestCharts[i].chart \in configured =>
                      \/ ManifestCharts[i].chart \in Charts(Whole)
                      \/ \E k \in 1..Len(ManifestCharts) :
                            /\ ManifestCharts[k].name = ManifestCharts[i].name
                            /\ ManifestCharts[k].chart # ManifestCharts[i].chart

\* docs/workflow.md:23 and 37: the nodes of a group are drained when the group
\* has more than one and drain is not disabled.
DrainAsDocumented ==
    phase = "start" =>
        LET Drained(n) == n > 1 /\ ~input.disableDrain
        IN ParseDrainOpts(input) = [controlPlane |-> Drained(input.controlPlane),
                                    worker       |-> Drained(input.workers)]
=============================================================================
