--------------------------- MODULE StagedUpgrade ---------------------------
(***************************************************************************)
(* What the lifecycle manager promises, without reconciles, caches or      *)
(* conditions: the environment is taken to a submitted release stage by    *)
(* stage, LCM itself first (docs/workflow.md), and the Release says it is  *)
(* there only when it is.  ReleaseController implements it.                *)
(***************************************************************************)
EXTENDS Naturals, Sequences

CONSTANTS N,        \* the last stage
          Specs     \* the Release specs: [version, needs, ...]

VARIABLES specs,    \* the generations submitted
          want,     \* per stage: the generation it is taken to
          have,     \* per stage: the last generation it reached
          version,  \* the version reported as applied, 0: none
          done,     \* the generation reported as applied, 0: none
          failed    \* is the upgrade reported as failed?

clusterVars == <<want, have>>
reportVars  == <<version, done, failed>>
vars == <<specs, clusterVars, reportVars>>

Stages == 0..N

Reached(g, q) == q \in specs[g].needs => have[q] >= g
AllReached(g) == \A q \in Stages : Reached(g, q)
Started(g)    == \E q \in Stages : want[q] = g

Init ==
    /\ \E s \in Specs : specs = <<s>>
    /\ want = [q \in Stages |-> 0] /\ have = [q \in Stages |-> 0]
    /\ version = 0 /\ done = 0 /\ failed = FALSE

\* A new generation, unless the last one is half done and has not failed.
Submit(s) ==
    /\ failed \/ ~Started(Len(specs)) \/ AllReached(Len(specs))
    /\ specs' = Append(specs, s)
    /\ UNCHANGED <<clusterVars, reportVars>>

\* A stage is never taken back, and waits for the ones before it.
Take(q, g) ==
    /\ g >= want[q] /\ \A p \in 0..(q - 1) : Reached(g, p)
    /\ want' = [want EXCEPT ![q] = g]
    /\ have' \in {have, [have EXCEPT ![q] = g]}
    /\ UNCHANGED <<specs, reportVars>>

Reach(q) ==
    /\ have' = [have EXCEPT ![q] = want[q]]
    /\ UNCHANGED <<specs, want, reportVars>>

\* Only what was reached is reported.
Report ==
    /\ version' # 0 => \E g \in 1..Len(specs) : /\ AllReached(g)
                                                /\ specs[g].version = version'
    /\ done' # 0 => /\ done' <= Len(specs) /\ AllReached(done')
                    /\ specs[done'].version = version'
    /\ failed' => done' = 0
    /\ UNCHANGED <<specs, clusterVars>>

Next ==
    \/ \E s \in Specs : Submit(s)
    \/ \E q \in Stages : Reach(q) \/ \E g \in 1..Len(specs) : Take(q, g)
    \/ Report

Spec == Init /\ [][Next]_vars
=============================================================================
