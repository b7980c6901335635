------------------------ MODULE MCReleaseController ------------------------
(***************************************************************************)
(* Small instances of ReleaseController.  Each set of specs has what one   *)
(* question needs; a stage left out of needs reports Skipped.              *)
(***************************************************************************)
EXTENDS ReleaseController

Good(v) == [version |-> v, kind |-> "ok", needs |-> Stages, fails |-> {}]

\* Two upgrades in a row, the first of which skips LCM and a phase.
Upgrades == {[Good(1) EXCEPT !.needs = {N}], Good(2)}

\* The same and a spec whose last stage fails.
UpgradesOrFailure ==
    {[Good(1) EXCEPT !.needs = {1}], Good(2), [Good(1) EXCEPT !.fails = {N}]}

\* Specs that fail in every way the user is told of, and one that repairs.
Reported == {Good(2)} \cup
    {[Good(1) EXCEPT !.kind = kd] : kd \in {"badLCM", "unresolvable",
                                            "badCharts"}} \cup
    {[Good(1) EXCEPT !.fails = {q}] : q \in {0, N}}

\* A release whose image cannot be read, or whose manifest is rejected.
Silent == {[Good(1) EXCEPT !.kind = kd] : kd \in {"unreachable",
                                                      "malformed"}}

Submitted == UpgradesOrFailure \cup Reported \cup Silent
=============================================================================
