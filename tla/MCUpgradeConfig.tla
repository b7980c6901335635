--------------------------- MODULE MCUpgradeConfig ---------------------------
(***************************************************************************)
(* Releases of four kinds.  OrderInputs: every two core charts and one     *)
(* solution chart over three names, a name possibly twice, each with up to *)
(* two dependencies, or an external one.  ChartInputs: LCM's charts among  *)
(* others, with every set of configured charts.                            *)
(* ValueInputs: every two values of depth two.  NodeInputs: node counts.   *)
(***************************************************************************)
EXTENDS UpgradeConfig

MCNames == {"a", "b", "c", "x", "n", LCM, CRDs}

Releases(cores, solutions, runtimes) ==
    [core : cores, solution : solutions, runtime : runtimes,
     controlPlane : {1}, workers : {0}, disableDrain : {FALSE},
     manifestValues : {NoValues}, userValues : {NoValues}]

Chart(name, deps) == [chart |-> name, name |-> name, deps |-> deps]

Own == {"a", "b", "c"}
DepLists == {<<>>, <<"x">>} \cup {<<p>> : p \in Own} \cup
            {<<p, q>> : p, q \in Own}
AnyChart == {Chart(name, deps) : name \in Own, deps \in DepLists}
OrderInputs == Releases(AnyChart \X AnyChart, {<<r>> : r \in AnyChart}, {{}})

ChartInputs ==
    LET Renamed(deps) == [chart |-> "a", name |-> "n", deps |-> deps]
        Core(deps, own) == {<<Chart(LCM, own), Chart(CRDs, <<>>), Renamed(deps)>>,
                            <<Chart(CRDs, <<>>), Renamed(deps), Chart(LCM, own)>>,
                            <<Renamed(deps), Chart(LCM, own)>>,
                            <<Renamed(deps)>>}
        Solution(deps) == {<<>>, <<Chart("b", deps)>>,
                           <<Chart("b", deps), Chart("a", <<"n">>)>>,
                           <<[chart |-> "b", name |-> "n", deps |-> deps]>>}
    IN Releases(UNION {Core(deps, own) : deps \in {<<>>, <<LCM>>, <<"b">>},
                                         own \in {<<>>, <<"n">>}},
                UNION {Solution(deps) : deps \in {<<>>, <<"n">>, <<LCM>>}},
                SUBSET {LCM, CRDs, "a", "b", "x"})

MCKeys == {"p", "q"}
MCPaths == {<<k>> : k \in MCKeys} \cup (MCKeys \X MCKeys)
ValuesOf(who) == {v \in UNION {[D -> {"map", who}] : D \in SUBSET MCPaths} :
                     IsValues(v)}
MCDocuments == ValuesOf("manifest") \cup ValuesOf("user")
ValueInputs ==
    [core : {<<>>}, solution : {<<>>}, runtime : {{}},
     controlPlane : {1}, workers : {0}, disableDrain : {FALSE},
     manifestValues : ValuesOf("manifest"), userValues : ValuesOf("user")]
NodeInputs ==
    [core : {<<>>}, solution : {<<>>}, runtime : {{}},
     controlPlane : 1..3, workers : 0..3, disableDrain : BOOLEAN,
     manifestValues : {NoValues}, userValues : {NoValues}]

MCInputs == {OrderInputs, ChartInputs, ValueInputs, NodeInputs}

\* Sets given element by element, in which TLC finds one quickly.
MCChartSpecs ==
    LET Named == {<<name, name>> : name \in Own \cup SelfCharts} \cup
                 {<<"a", "n">>, <<"b", "n">>}
    IN {[chart |-> n[1], name |-> n[2], deps |-> deps] :
           n \in Named, deps \in DepLists \cup {<<LCM>>, <<"n">>}}
MCConfigs ==
    {Config(c, own, runtime) : c \in MCChartSpecs, own \in {"core", "solution"},
                               runtime \in BOOLEAN}
=============================================================================
