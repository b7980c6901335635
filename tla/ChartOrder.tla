----------------------------- MODULE ChartOrder -----------------------------
(***************************************************************************)
(* sortChartConfigsByDependencies (internal/upgrade/reconcilers/helm.go):  *)
(* the depth-first sort that puts every chart after the charts it depends  *)
(* on.  HelmCharts assumes of its constant Order what is shown here;       *)
(* UpgradeConfig starts the sort on the lists that the two Helm phases of  *)
(* a release get.                                                          *)
(*                                                                         *)
(* A chart config has, among other fields, a name and the names in its     *)
(* DependsOn of type Helm, in their order.  Two configs may have one name: *)
(* the map then holds the later one.                                       *)
(***************************************************************************)
EXTENDS Naturals, Sequences, FiniteSets

CONSTANTS Names,        \* chart names, of the manifest or external
          Configs       \* the chart configs

ASSUME ConfigsAssumption ==
    \A c \in Configs : c.name \in Names /\ c.deps \in Seq(Names)

\* The lists to sort.
Lists == Seq(Configs)

VARIABLES configs,      \* the list being sorted
          next,         \* the next element of the loop over configs
          calls,        \* the calls of visit under way, the outermost first
          visited,      \* names done
          inProgress,   \* names whose visit is under way
          result,       \* the sorted names
          cyclic        \* visit returned an error

sortVars == <<configs, next, calls, visited, inProgress, result, cyclic>>

ToSet(s) == {s[i] : i \in 1..Len(s)}
Listed == {configs[i].name : i \in 1..Len(configs)}

\* chartConfigMap: the last config with the name.
ConfigOf(name) ==
    configs[CHOOSE i \in 1..Len(configs) :
              /\ configs[i].name = name
              /\ \A j \in (i + 1)..Len(configs) : configs[j].name # name]

\* A call of visit: its chart, and how many dependencies it has visited, the
\* one whose visit is under way included.
Call(name, dep) == [name |-> name, dep |-> dep]
Top == calls[Len(calls)]
TopDeps == ConfigOf(Top.name).deps

\* Nothing to sort yet.
Init == /\ configs = <<>> /\ next = 1 /\ calls = <<>>
        /\ visited = {} /\ inProgress = {}
        /\ result = <<>> /\ cyclic = FALSE

\* The call of sortChartConfigsByDependencies.
StartSort(list) ==
    /\ configs' = list /\ next' = 1 /\ calls' = <<>>
    /\ visited' = {} /\ inProgress' = {}
    /\ result' = <<>> /\ cyclic' = FALSE

Ended == cyclic \/ (calls = <<>> /\ next > Len(configs))

\* visit(name), up to its first dependency or its return; stack holds the
\* calls that led to it.  An error ends them all.
Visit(name, stack) ==
    /\ \/ /\ name \in inProgress
          /\ cyclic' = TRUE /\ calls' = <<>> /\ UNCHANGED inProgress
       \/ /\ name \notin inProgress /\ (name \in visited \/ name \notin Listed)
          /\ calls' = stack /\ UNCHANGED <<cyclic, inProgress>>
       \/ /\ name \notin inProgress /\ name \notin visited /\ name \in Listed
          /\ inProgress' = inProgress \cup {name}
          /\ calls' = Append(stack, Call(name, 0)) /\ UNCHANGED cyclic
    /\ UNCHANGED <<configs, visited, result>>

\* One turn of the loop over chartConfigs.
VisitNext ==
    /\ ~Ended /\ calls = <<>>
    /\ next' = next + 1
    /\ Visit(configs[next].name, <<>>)

\* Mutant: a dependency is visited again and again.
SameDependency == calls

NextDependency == [calls EXCEPT ![Len(calls)] = Call(Top.name, Top.dep + 1)]

\* One turn of the loop over a chart's DependsOn.
VisitDependency ==
    /\ calls # <<>> /\ Top.dep < Len(TopDeps)
    /\ Visit(TopDeps[Top.dep + 1], NextDependency)
    /\ UNCHANGED next

\* Mutant: a chart is emitted before its dependencies.
EmitFirst(order, name) == <<name>> \o order

Emit(order, name) == Append(order, name)

\* Mutant: a name is in progress for ever.
NeverLeave(names, name) == names

Leave(names, name) == names \ {name}

\* visit returns: all dependencies are visited.
Return ==
    /\ calls # <<>> /\ Top.dep >= Len(TopDeps)
    /\ inProgress' = Leave(inProgress, Top.name)
    /\ visited' = visited \cup {Top.name}
    /\ result' = Emit(result, Top.name)
    /\ calls' = SubSeq(calls, 1, Len(calls) - 1)
    /\ UNCHANGED <<configs, next, cyclic>>

SortStep == VisitNext \/ VisitDependency \/ Return

\* reconcileHelmCharts, for one list after the other.
Start == Ended /\ \E list \in Lists : StartSort(list)

SortSpec == Init /\ [][Start \/ SortStep]_sortVars

-----------------------------------------------------------------------------
\* The variables keep to their types; no chart is visited inside its own
\* visit, unless there was an error exactly the charts of the calls under way
\* are in progress, and the result holds what was visited.
TypeOK == /\ \A i \in 1..Len(configs) : configs[i].name \in Names
          /\ next \in 1..(Len(configs) + 1)
          /\ calls \in Seq([name : Names, dep : Nat])
          /\ \A i \in 1..Len(calls) :
                \A j \in 1..(i - 1) : calls[j].name # calls[i].name
          /\ inProgress \in SUBSET Names
          /\ ~cyclic => inProgress = {calls[i].name : i \in 1..Len(calls)}
          /\ visited \in SUBSET Names
          /\ result \in Seq(Names)
          /\ ToSet(result) = visited
          /\ cyclic \in BOOLEAN

\* Whatever was emitted so far has each chart once and after all its
\* dependencies that are in the list (result at every return of visit).
DepsOf(name) == ToSet(ConfigOf(name).deps) \cap Listed
DependenciesBefore ==
    \A i \in 1..Len(result) :
        /\ \A j \in 1..(i - 1) : result[j] # result[i]
        /\ DepsOf(result[i]) \subseteq {result[j] : j \in 1..(i - 1)}

\* The sort fails exactly on a cycle, and otherwise loses no chart.  A set of
\* names each of which depends on another of them is what a cycle leaves.
HasCycle == \E S \in (SUBSET Listed) \ {{}} :
               \A name \in S : DepsOf(name) \cap S # {}
CyclesDetected ==
    Ended => /\ cyclic <=> HasCycle
             /\ ~cyclic => ToSet(result) = Listed

\* docs/workflow.md:64: charts of the core manifest come before those of the
\* solution.  The sort keeps every leading part of the list in front whose
\* charts depend on nothing behind it.
ClosedPrefix(n) == \A name \in {configs[i].name : i \in 1..n} :
                       DepsOf(name) \subseteq {configs[i].name : i \in 1..n}
CoreFirst ==
    Ended /\ ~cyclic =>
        \A n \in 1..Len(configs) : ClosedPrefix(n) =>
            LET core == {configs[i].name : i \in 1..n}
            IN {result[i] : i \in 1..Cardinality(core)} = core

\* Whatever depends on what, the sort returns.
SortEnds == []<>Ended
=============================================================================
