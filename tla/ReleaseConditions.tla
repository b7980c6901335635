------------------------- MODULE ReleaseConditions -------------------------
(***************************************************************************)
(* The status of a Release resource and the functions of                   *)
(* internal/controller/condition.go that compute its conditions.           *)
(*                                                                         *)
(* A condition is abstracted to its Reason.  The controller sets Status to *)
(* True exactly when it sets Reason to Succeeded or Skipped, so the        *)
(* Status of a condition is Complete(reason).  "None" stands for a         *)
(* condition that is absent from the list (FindStatusCondition is nil).    *)
(* Messages and transition times are left out.                             *)
(***************************************************************************)
EXTENDS Integers

CONSTANT N      \* number of handlers in upgrade.Pipeline (main.go wires 3)

ASSUME PipelineAssumption == N \in Nat \ {0}

Phases == 1..N                  \* the pipeline handlers, in their order
Reasons == {"Pending", "InProgress", "Skipped", "Succeeded", "Failed"}
Conditions == Reasons \cup {"None"}

\* Release.Status: version 0 is the empty string.
Statuses == [version  : Nat,
             observed : Nat,
             lcm      : Conditions,
             manifest : Conditions,
             phase    : [Phases -> Conditions],
             applied  : Conditions]

NoStatus == [version  |-> 0,
             observed |-> 0,
             lcm      |-> "None",
             manifest |-> "None",
             phase    |-> [p \in Phases |-> "None"],
             applied  |-> "None"]

\* A phase state (or a condition's reason) that counts as finished.
Complete(c) == c \in {"Succeeded", "Skipped"}

\* Mutant: the conditions of the previous generation are kept.
KeepConditions(s, g) == [s EXCEPT !.observed = g, !.applied = "Pending"]

\* Mutant: the whole status is reset, the applied version with it.
ResetAll(s, g) == [NoStatus EXCEPT !.observed = g]

(***************************************************************************)
(* A new generation g: ObservedGeneration moves on, the conditions are     *)
(* dropped and initializePendingConditions recreates them all as Pending.  *)
(***************************************************************************)
InitializePending(s, g) ==
    [version  |-> s.version,
     observed |-> g,
     lcm      |-> "Pending",
     manifest |-> "Pending",
     phase    |-> [p \in Phases |-> "Pending"],
     applied  |-> "Pending"]

\* updatePhaseCondition: a condition that is already True is not rewritten
\* by another complete state.
UpdatePhaseCondition(c, state) ==
    IF Complete(state) /\ Complete(c) THEN c ELSE state

\* updatePhaseConditions: only the phases the pipeline reached have a state
\* in the result; the others ("None") keep their condition.
UpdatePhaseConditions(s, results) ==
    [s EXCEPT !.phase = [p \in Phases |->
        IF results[p] = "None" THEN s.phase[p]
        ELSE UpdatePhaseCondition(s.phase[p], results[p])]]

\* Mutant: one complete phase is enough for Applied.
AppliedOnAnyPhase(s) ==
    IF s.lcm = "Failed" \/ s.manifest = "Failed" THEN "Failed"
    ELSE IF ~Complete(s.manifest) THEN s.applied
    ELSE IF \E p \in Phases : Complete(s.phase[p]) THEN "Succeeded"
    ELSE s.applied

(***************************************************************************)
(* updateAppliedCondition: the summary the webhook and the user look at.   *)
(* A failed LCM phase or manifest decides it; while the manifest is not    *)
(* resolved it is left as it was; then the phases decide.                  *)
(***************************************************************************)
AppliedOf(s) ==
    IF s.lcm = "Failed" \/ s.manifest = "Failed" THEN "Failed"
    ELSE IF ~Complete(s.manifest) THEN s.applied
    ELSE IF \A p \in Phases : Complete(s.phase[p]) THEN "Succeeded"
    ELSE IF \E p \in Phases : s.phase[p] = "Failed" THEN "Failed"
    ELSE IF \E p \in Phases : s.phase[p] = "InProgress" THEN "InProgress"
    ELSE s.applied

UpdateApplied(s) == [s EXCEPT !.applied = AppliedOf(s)]
=============================================================================
