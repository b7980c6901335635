----------------------------- MODULE HelmValues -----------------------------
(***************************************************************************)
(* The merge of Helm values (internal/helm/values.go).  A document of      *)
(* values is a function from the paths of its nodes to what is there: a    *)
(* scalar, or "map" for a map, empty or not.  Sources of either encoding   *)
(* are decoded to such a function; what the decoders make of a number is   *)
(* in HelmCharts.                                                          *)
(*                                                                         *)
(* mergeMaps calls itself for a key that both documents hold a map at.     *)
(* Here turns has the keys, of the loop of the outermost call and of those *)
(* called from it, whose turn is still to come.  The order of a Go map is  *)
(* undefined, so any of them may be next; the loops of nested calls, which *)
(* work on separate parts of the document, may interleave here as well.    *)
(***************************************************************************)
EXTENDS Naturals, Sequences

CONSTANTS Keys,       \* the keys of maps
          Documents   \* the documents that are merged

Paths == Seq(Keys) \ {<<>>}

\* The node at path q is that at p, or inside of it.
Within(p, q) == /\ Len(p) <= Len(q)
                /\ \A i \in 1..Len(p) : p[i] = q[i]

\* Every node is inside of maps of the document only.
IsValues(v) == /\ DOMAIN v \subseteq Paths
               /\ \A q \in DOMAIN v : \A n \in 1..(Len(q) - 1) :
                     LET above == SubSeq(q, 1, n)
                     IN above \in DOMAIN v /\ v[above] = "map"

ASSUME DocumentsAssumption == \A v \in Documents : IsValues(v)

VARIABLES sources,    \* the documents, later ones taking precedence
          source,     \* how many of them MergeHelmValues has come to
          merged,     \* mergedValues, without the last of these: m1
          out,        \* m1 with what was merged into it so far
          turns       \* the keys of the last of these still to come

mergeVars == <<sources, source, merged, out, turns>>

NoValues == [q \in {} |-> "map"]

MergeInit == /\ sources \in Seq(Documents)
             /\ source = 0 /\ merged = NoValues /\ out = NoValues /\ turns = {}

\* m2.
Source == sources[source]

\* One turn of the loop of MergeHelmValues; the call before has returned.
NextSource ==
    /\ turns = {} /\ source < Len(sources)
    /\ source' = source + 1
    /\ merged' = out
    /\ turns' = {q \in DOMAIN sources[source + 1] : Len(q) = 1}
    /\ UNCHANGED <<sources, out>>

\* Mutant: a key of the later source replaces the whole of the earlier one's.
NeverMerged(p) == FALSE

\* Both hold a map at p.
BothMaps(p) == Source[p] = "map" /\ p \in DOMAIN out /\ out[p] = "map"

\* out[k] = mergeMaps(outInner, inner), as far as the call.
MergeInner(p) ==
    /\ BothMaps(p)
    /\ turns' = (turns \ {p}) \cup
                {q \in DOMAIN Source : Within(p, q) /\ Len(q) = Len(p) + 1}
    /\ UNCHANGED <<sources, source, merged, out>>

\* out[k] = v, with all that is inside of v.
Override(p) ==
    LET kept == {q \in DOMAIN out : ~Within(p, q)}
        new  == {q \in DOMAIN Source : Within(p, q)}
    IN /\ ~BothMaps(p)
       /\ turns' = turns \ {p}
       /\ out' = [q \in kept \cup new |-> IF q \in new THEN Source[q] ELSE out[q]]
       /\ UNCHANGED <<sources, source, merged>>

\* One turn of the loop of mergeMaps.
MergeKey == \E p \in turns : MergeInner(p) \/ Override(p)

MergeStep == NextSource \/ MergeKey

MergeSpec == MergeInit /\ [][MergeStep]_mergeVars

-----------------------------------------------------------------------------
\* What the first n sources should make together: a node is that of the last
\* of them that has one at its path, unless a later one has a scalar above it.
Precedence(n) ==
    UNION {{<<q, sources[i][q]>> : q \in
               {q \in DOMAIN sources[i] :
                   \A j \in (i + 1)..n :
                      /\ q \notin DOMAIN sources[j]
                      /\ \A p \in DOMAIN sources[j] :
                            sources[j][p] # "map" => ~Within(p, q)}} : i \in 1..n}

Nodes(v) == {<<q, v[q]>> : q \in DOMAIN v}

\* values.go:29, helm.go:505: a value that a later source sets wins at its
\* path, whatever earlier ones have at it, above it or below it, and every
\* other value of theirs stays, beside it in the same map too.  So it is
\* whenever a merge has ended, and at its end what is there is again values.
UserValuesWin ==
    turns = {} => Nodes(out) = Precedence(source) /\ IsValues(out)
=============================================================================
