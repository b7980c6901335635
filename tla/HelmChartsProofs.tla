-------------------------- MODULE HelmChartsProofs --------------------------
(***************************************************************************)
(* Proofs about HelmCharts, for every set of charts, order, sequence of    *)
(* releases and choice of charts that fail: its type invariant and, when   *)
(* the Helm Controller reacts to a chart before it is read again (Prompt), *)
(* that the phase succeeds only with every chart at its target and that no *)
(* chart is touched before those it depends on.                            *)
(***************************************************************************)
EXTENDS HelmCharts, SequenceTheorems, TLAPS

(***************************************************************************)
(* What is known of a chart whatever the release.  LCM takes over only a   *)
(* chart that is installed; a Job is that of a content that a CR had; a    *)
(* Job that completed has installed its content, and one that is gone has  *)
(* unless the CR says that it failed.                                      *)
(***************************************************************************)
ChartOK(c) ==
    /\ deployed[c] = NotInstalled => cr[c] = Absent
    /\ cr[c] = Absent => job[c] = NoJob /\ ~named[c]
    /\ job[c].state # "none" => job[c].content # NotInstalled
    /\ job[c].state = "complete" => deployed[c] = job[c].content
    /\ job[c].state = "failed" => failedCond[c]
    /\ job[c].state = "none" /\ job[c].content # NotInstalled =>
          deployed[c] = job[c].content \/ failedCond[c]

\* The Job of a chart is that of the release, and is over.
JobOver(c) == /\ cr[c] = Target(c) /\ job[c].content = cr[c]
              /\ job[c].state # "running"

\* The chart is where the release wants it, and no Job will move it.
Settled(c) ==
    \/ deployed[c] = NotInstalled
    \/ cr[c] = Absent /\ deployed[c].version = Target(c).version
    \/ JobOver(c) /\ deployed[c] = Target(c)

\* Its Job has failed, and none will run again for this release.
GaveUp(c) == JobOver(c) /\ failedCond[c]

(***************************************************************************)
(* The loop: each chart that has been passed is settled, or has failed in  *)
(* a phase that goes on then.                                              *)
(***************************************************************************)
Passed(j) == /\ states[j] # "InProgress"
             /\ states[j] = "Failed" => ~strict /\ GaveUp(Order[j])
             /\ states[j] # "Failed" => Settled(Order[j])

Progress ==
    /\ i > 0 => Len(states) = i - 1 /\ \A j \in 1..(i - 1) : Passed(j)
    /\ outcome = "Succeeded" => \A c \in Charts : Settled(c)

ChartsOK == \A c \in Charts : ChartOK(c)

-----------------------------------------------------------------------------
(* Operators.                                                              *)

\* A content is never the mark of what is not installed.
LEMMA ContentIsInstalled == \A t \in Contents : t # NotInstalled
  BY ChartsAssumption DEF NotInstalled

\* The list names charts.
LEMMA OrderIsOfCharts == \A n \in 1..Len(Order) : Order[n] \in Charts
  BY OrderAssumption

\* What a release asks of a chart.
LEMMA TargetType ==
    ASSUME round \in 1..Len(Targets), NEW c \in Charts
    PROVE  Target(c) \in Contents /\ Target(c) # NotInstalled
  <1>1. Targets[round] \in [Charts -> Contents]
    BY ChartsAssumption
  <1> QED  BY <1>1, ContentIsInstalled DEF Target

\* reconcileChart returns one of the states.
LEMMA ChartStateType ==
    ASSUME TypeOK, NEW c \in Charts
    PROVE  ChartState(c) \in ChartStates
  <1>1. job[c].state \in {"none", "running", "complete", "failed"}
    BY DEF TypeOK
  <1>2. JobStatus(c) \in {"InProgress", "Failed", "Succeeded"}
    BY <1>1 DEF JobStatus
  <1> QED  BY <1>2 DEF ChartState, ChartStates

\* aggregateResults says Succeeded only when no chart failed or waits.
LEMMA AggregateType ==
    ASSUME NEW results
    PROVE  /\ Aggregate(results) \in {"Failed", "InProgress", "Succeeded"}
           /\ Aggregate(results) = "Succeeded" =>
                \A j \in 1..Len(results) : results[j] \notin {"Failed", "InProgress"}
  BY DEF Aggregate

\* A turn of the loop: the chart, its state, and what may change.
LEMMA Turn ==
    ASSUME TypeOK, ReconcileChart \/ ReconcileError
    PROVE  /\ i \in 1..Len(Order) /\ Order[i] \in Charts
           /\ \/ cr' = cr
              \/ /\ Writes(Order[i])
                 /\ cr' = [cr EXCEPT ![Order[i]] = Target(Order[i])]
           /\ UNCHANGED <<strict, round, deployed, named, failedCond, job>>
  <1>1. i \in 1..Len(Order)
    BY OrderAssumption DEF TypeOK, ReconcileChart, ReconcileError
  <1>2. Order[i] \in Charts
    BY <1>1, OrderIsOfCharts
  <1>3. CASE ReconcileChart
    BY <1>1, <1>2, <1>3 DEF ReconcileChart
  <1>4. CASE ReconcileError
    BY <1>1, <1>2, <1>4 DEF ReconcileError
  <1> QED  BY <1>3, <1>4

Jobs == [state : {"none", "running", "complete", "failed"},
         content : Contents \cup {NotInstalled}]

\* A Job whose state alone changes.
LEMMA OneJob ==
    ASSUME job \in [Charts -> Jobs], NEW c \in Charts,
           NEW s \in {"none", "running", "complete", "failed"},
           job' = [job EXCEPT ![c].state = s]
    PROVE  /\ job' \in [Charts -> Jobs]
           /\ \A d \in Charts \ {c} : job'[d] = job[d]
           /\ job'[c].state = s /\ job'[c].content = job[c].content
  <1> DEFINE new == [job[c] EXCEPT !.state = s]
  <1>1. job[c] \in Jobs
    OBVIOUS
  <1>2. new \in Jobs /\ new.state = s /\ new.content = job[c].content
    BY <1>1 DEF Jobs
  <1>3. job' = [job EXCEPT ![c] = new]
    OBVIOUS
  <1> HIDE DEF new
  <1> QED  BY <1>2, <1>3

(***************************************************************************)
(* What the Helm Controller does to a chart, in all its actions: nothing   *)
(* to the others and to the reconciler, and to this one what one of the    *)
(* disjuncts says.                                                         *)
(***************************************************************************)
Removed(c) == /\ job[c].content # cr[c] /\ cr[c] # Absent
              /\ job'[c] = NoJob
              /\ UNCHANGED <<deployed, named, failedCond>>
Scheduled(c) == /\ job[c].content # cr[c] /\ cr[c] # Absent
                /\ job'[c] = [state |-> "running", content |-> cr[c]]
                /\ deployed' = deployed
Ran(c) == /\ job[c].state = "running"
          /\ \/ /\ job'[c].state = "complete"
                /\ deployed'[c] = job[c].content /\ UNCHANGED failedCond
             \/ /\ job'[c].state = "failed"
                /\ failedCond'[c] /\ UNCHANGED deployed
          /\ job'[c].content = job[c].content /\ UNCHANGED named
Expired(c) == /\ job[c].state \in {"complete", "failed"}
              /\ job'[c].state = "none" /\ job'[c].content = job[c].content
              /\ UNCHANGED <<deployed, named, failedCond>>

LEMMA JobStep ==
    ASSUME TypeOK, NEW c \in Charts, HelmController(c) \/ JobExpires(c)
    PROVE  /\ UNCHANGED <<strict, round, cr, i, states, outcome, faults>>
           /\ job' \in [Charts -> Jobs] /\ named' \in [Charts -> BOOLEAN]
           /\ failedCond' \in [Charts -> BOOLEAN]
           /\ deployed' \in [Charts -> Contents \cup {NotInstalled}]
           /\ \A d \in Charts \ {c} :
                 /\ job'[d] = job[d] /\ named'[d] = named[d]
                 /\ failedCond'[d] = failedCond[d] /\ deployed'[d] = deployed[d]
           /\ Removed(c) \/ Scheduled(c) \/ Ran(c) \/ Expired(c)
  <1>0. job \in [Charts -> Jobs]
    BY DEF TypeOK, Jobs
  <1>1. CASE RemoveStaleJob(c)
    <2>1. NoJob \in Jobs
      BY DEF NoJob, Jobs
    <2> QED  BY <1>0, <1>1, <2>1 DEF RemoveStaleJob, crVars, Removed, TypeOK
  <1>2. CASE ScheduleJob(c)
    <2> DEFINE new == [state |-> "running", content |-> cr[c]]
    <2>1. new \in Jobs
      BY DEF TypeOK, Jobs, Absent
    <2>2. /\ job' = [job EXCEPT ![c] = new]
          /\ named' = [named EXCEPT ![c] = TRUE]
          /\ failedCond' = [failedCond EXCEPT ![c] = FALSE]
          /\ job[c].content # cr[c] /\ cr[c] # Absent
          /\ UNCHANGED <<strict, round, deployed, cr, i, states, outcome, faults>>
      BY <1>2 DEF ScheduleJob
    <2>3. job'[c] = [state |-> "running", content |-> cr[c]]
      BY <1>0, <2>2
    <2> HIDE DEF new
    <2> QED  BY <1>0, <2>1, <2>2, <2>3 DEF Scheduled, TypeOK
  <1>3. CASE JobCompletes(c)
    <2>1. job[c].content \in Contents \cup {NotInstalled}
      BY <1>0 DEF Jobs
    <2>2. /\ job' \in [Charts -> Jobs]
          /\ \A d \in Charts \ {c} : job'[d] = job[d]
          /\ job'[c].state = "complete" /\ job'[c].content = job[c].content
      BY <1>0, <1>3, OneJob DEF JobCompletes
    <2>3. /\ job[c].state = "running"
          /\ deployed' = [deployed EXCEPT ![c] = job[c].content]
          /\ UNCHANGED <<strict, round, cr, named, failedCond, i, states, outcome,
                         faults>>
      BY <1>3 DEF JobCompletes, crVars
    <2> QED  BY <2>1, <2>2, <2>3 DEF Ran, TypeOK
  <1>4. CASE JobFails(c)
    <2>1. /\ job' \in [Charts -> Jobs]
          /\ \A d \in Charts \ {c} : job'[d] = job[d]
          /\ job'[c].state = "failed" /\ job'[c].content = job[c].content
      BY <1>0, <1>4, OneJob DEF JobFails
    <2>2. /\ job[c].state = "running"
          /\ failedCond' = [failedCond EXCEPT ![c] = TRUE]
          /\ UNCHANGED <<strict, round, deployed, cr, named, i, states, outcome,
                         faults>>
      BY <1>4 DEF JobFails
    <2> QED  BY <2>1, <2>2 DEF Ran, TypeOK
  <1>5. CASE JobExpires(c)
    <2>1. /\ job' \in [Charts -> Jobs]
          /\ \A d \in Charts \ {c} : job'[d] = job[d]
          /\ job'[c].state = "none" /\ job'[c].content = job[c].content
      BY <1>0, <1>5, OneJob DEF JobExpires
    <2>2. /\ job[c].state \in {"complete", "failed"}
          /\ UNCHANGED <<strict, round, deployed, cr, named, failedCond, i, states,
                         outcome, faults>>
      BY <1>5 DEF JobExpires, crVars
    <2> QED  BY <2>1, <2>2 DEF Expired, TypeOK
  <1> QED  BY <1>1, <1>2, <1>3, <1>4, <1>5 DEF HelmController

-----------------------------------------------------------------------------
(* Types.                                                                  *)

\* The variables have their types initially.
LEMMA TypeInit == Init => TypeOK
  <1> SUFFICES ASSUME Init PROVE TypeOK
    OBVIOUS
  <1>1. PICK managed \in SUBSET {c \in Charts : Preinstalled[c] # NotInstalled} :
          /\ cr = [c \in Charts |-> IF c \in managed THEN Preinstalled[c]
                                                     ELSE Absent]
          /\ named = [c \in Charts |-> c \in managed]
          /\ job = [c \in Charts |->
                      IF c \in managed
                      THEN [state |-> "complete", content |-> Preinstalled[c]]
                      ELSE NoJob]
    BY DEF Init
  <1>2. \A c \in Charts : Preinstalled[c] \in Contents \cup {NotInstalled}
    BY ChartsAssumption
  <1>3. cr \in [Charts -> Contents \cup {Absent}] /\ named \in [Charts -> BOOLEAN]
    BY <1>1, <1>2
  <1>4. job \in [Charts -> [state : {"none", "running", "complete", "failed"},
                            content : Contents \cup {NotInstalled}]]
    BY <1>1, <1>2 DEF NoJob
  <1>5. round \in 1..Len(Targets)
    BY ChartsAssumption, EmptySeq, LenProperties DEF Init
  <1>6. Len(Order) \in Nat /\ faults \in 0..MaxFaults
    BY ChartsAssumption, OrderAssumption DEF Init
  <1> QED  BY <1>3, <1>4, <1>5, <1>6, ChartsAssumption DEF Init, TypeOK

\* A turn of the loop keeps the types of what it works on.
LEMMA TurnType ==
    ASSUME TypeOK, ReconcileChart \/ ReconcileError
    PROVE  cr' \in [Charts -> Contents \cup {Absent}]
  <1>1. Order[i] \in Charts
    BY Turn
  <1>2. Target(Order[i]) \in Contents
    BY <1>1, TargetType DEF TypeOK
  <1> QED  BY <1>1, <1>2, Turn DEF TypeOK

\* One result per chart passed.
Counted == i > 0 => Len(states) = i - 1

\* Every step keeps the types.
LEMMA TypeNext == TypeOK /\ Counted /\ [Next]_vars => TypeOK' /\ Counted'
  <1> SUFFICES ASSUME TypeOK, Counted, [Next]_vars PROVE TypeOK' /\ Counted'
    OBVIOUS
  <1> USE DEF crVars
  <1>0. Len(Order) \in Nat /\ Len(Order) > 0
    BY OrderAssumption
  <1>1. CASE Begin
    BY <1>0, <1>1 DEF Begin, TypeOK, Counted
  <1>2. CASE ReconcileChart
    <2>1. i \in 1..Len(Order) /\ Order[i] \in Charts
      BY <1>2, Turn
    <2> DEFINE state == ChartState(Order[i])
               results == Append(states, state)
    <2>2. state \in ChartStates
      BY <2>1, ChartStateType
    <2>3. states' = results
      BY <1>2 DEF ReconcileChart
    <2>4. /\ i' \in 0..Len(Order)
          /\ outcome' \in {"None", "InProgress", "Failed", "Succeeded", "Error"}
      <3> HIDE DEF results
      <3>1. \/ Return("Error") \/ Return(Aggregate(results))
            \/ ~IsLast(i) /\ i' = i + 1 /\ UNCHANGED outcome
        BY <1>2 DEF ReconcileChart, results
      <3> QED  BY <2>1, <3>1, AggregateType DEF Return, IsLast, TypeOK
    <2>5. states' \in Seq(ChartStates) /\ Len(states') = i
      <3>1. states \in Seq(ChartStates) /\ Len(states) = i - 1
        BY <2>1 DEF TypeOK, Counted
      <3> QED  BY <2>1, <2>2, <2>3, <3>1, AppendProperties
    <2>6. i' = 0 \/ i' = i + 1
      BY <1>2 DEF ReconcileChart, Return
    <2>7. UNCHANGED <<strict, round, deployed, named, failedCond, job, faults>>
      BY <1>2 DEF ReconcileChart
    <2>8. cr' \in [Charts -> Contents \cup {Absent}]
      BY <1>2, TurnType
    <2>9. Counted'
      BY <2>1, <2>5, <2>6 DEF Counted
    <2>10. Len(states') <= Len(Order)
      BY <1>0, <2>1, <2>5
    <2> QED  BY <2>4, <2>5, <2>7, <2>8, <2>9, <2>10 DEF TypeOK
  <1>3. CASE ReconcileError
    <2>1. faults' \in 0..MaxFaults
      BY <1>3, ChartsAssumption DEF ReconcileError, TypeOK
    <2> QED  BY <1>0, <1>3, <2>1, Turn, TurnType
             DEF ReconcileError, Return, TypeOK, Counted
  <1>4. CASE NextRelease
    BY <1>4, ChartsAssumption DEF NextRelease, TypeOK, Counted
  <1>5. CASE \E c \in Charts : HelmController(c) \/ JobExpires(c)
    BY <1>5, JobStep DEF Jobs, TypeOK, Counted
  <1>6. CASE UNCHANGED vars
    BY <1>6 DEF vars, TypeOK, Counted
  <1> QED  BY <1>1, <1>2, <1>3, <1>4, <1>5, <1>6 DEF Next

\* The variables keep to their types, and reconcileHelmCharts to the list of
\* charts it was given.
THEOREM TypeCorrect == Spec => []TypeOK
  <1>1. Init => Counted
    BY DEF Init, Counted
  <1> QED  BY <1>1, TypeInit, TypeNext, PTL DEF Spec

-----------------------------------------------------------------------------
(* A chart and its Job.                                                    *)

\* The reconciler keeps what is known of a chart: it writes the CR only of a
\* chart that is installed.
LEMMA ChartsTurn ==
    ASSUME TypeOK, ChartsOK, ReconcileChart \/ ReconcileError
    PROVE  ChartsOK'
  <1> SUFFICES ASSUME NEW c \in Charts PROVE ChartOK(c)'
    BY DEF ChartsOK
  <1>1. ChartOK(c)
    BY DEF ChartsOK
  <1>2. UNCHANGED <<deployed, named, failedCond, job>>
    BY Turn
  <1>3. cr'[c] = cr[c] \/ (deployed[c] # NotInstalled /\ cr'[c] # Absent)
    <2>1. CASE cr' = cr
      BY <2>1
    <2>2. CASE /\ Writes(Order[i])
               /\ cr' = [cr EXCEPT ![Order[i]] = Target(Order[i])]
      <3>1. Order[i] \in Charts /\ Target(Order[i]) # NotInstalled
        BY Turn, TargetType DEF TypeOK
      <3> QED  BY <2>2, <3>1 DEF Writes, Absent, TypeOK
    <2> QED  BY <2>1, <2>2, Turn
  <1> QED  BY <1>1, <1>2, <1>3 DEF ChartOK

\* So does the Helm Controller.
LEMMA ChartsJob ==
    ASSUME TypeOK, ChartsOK, NEW d \in Charts, HelmController(d) \/ JobExpires(d)
    PROVE  ChartsOK'
  <1> SUFFICES ASSUME NEW c \in Charts PROVE ChartOK(c)'
    BY DEF ChartsOK
  <1>1. ChartOK(c)
    BY DEF ChartsOK
  <1>2. cr' = cr
    BY JobStep
  <1>3. CASE c # d
    <2>1. /\ job'[c] = job[c] /\ named'[c] = named[c]
          /\ failedCond'[c] = failedCond[c] /\ deployed'[c] = deployed[c]
      BY <1>3, JobStep
    <2> QED  BY <1>1, <1>2, <2>1 DEF ChartOK
  <1>4. CASE c = d
    <2>1. CASE Removed(c)
      BY <1>1, <1>2, <2>1 DEF Removed, ChartOK, NoJob
    <2>2. CASE Scheduled(c)
      BY <1>1, <1>2, <2>2 DEF Scheduled, ChartOK, NoJob, Absent
    <2>3. CASE Ran(c)
      BY <1>1, <1>2, <2>3 DEF Ran, ChartOK, NoJob
    <2>4. CASE Expired(c)
      BY <1>1, <1>2, <2>4 DEF Expired, ChartOK, NoJob
    <2> QED  BY <1>4, <2>1, <2>2, <2>3, <2>4, JobStep
  <1> QED  BY <1>3, <1>4

\* Every step keeps what is known of the charts.
LEMMA ChartsNext == TypeOK /\ ChartsOK /\ [Next]_vars => ChartsOK'
  <1> SUFFICES ASSUME TypeOK, ChartsOK, [Next]_vars PROVE ChartsOK'
    OBVIOUS
  <1>1. CASE Begin \/ NextRelease \/ UNCHANGED vars
    BY <1>1 DEF Begin, NextRelease, vars, crVars, ChartsOK, ChartOK
  <1>2. CASE ReconcileChart \/ ReconcileError
    BY <1>2, ChartsTurn
  <1>3. CASE \E c \in Charts : HelmController(c) \/ JobExpires(c)
    BY <1>3, ChartsJob
  <1> QED  BY <1>1, <1>2, <1>3 DEF Next

\* What a user installed, or a CR whose Job is done.
LEMMA ChartsInit == Init => ChartsOK
  <1> SUFFICES ASSUME Init, NEW c \in Charts PROVE ChartOK(c)
    BY DEF ChartsOK
  <1>1. PICK managed \in SUBSET {d \in Charts : Preinstalled[d] # NotInstalled} :
          /\ cr = [d \in Charts |-> IF d \in managed THEN Preinstalled[d]
                                                     ELSE Absent]
          /\ named = [d \in Charts |-> d \in managed]
          /\ job = [d \in Charts |->
                      IF d \in managed
                      THEN [state |-> "complete", content |-> Preinstalled[d]]
                      ELSE NoJob]
    BY DEF Init
  <1>2. CASE c \in managed
    BY <1>1, <1>2 DEF Init, ChartOK, Absent
  <1>3. CASE c \notin managed
    BY <1>1, <1>3 DEF Init, ChartOK, NoJob
  <1> QED  BY <1>2, <1>3

-----------------------------------------------------------------------------
(* Within a release a chart that is settled stays settled.                 *)

\* No step of the release moves a chart that is settled or given up.
LEMMA SettledStays ==
    ASSUME TypeOK, ChartsOK, [Next]_vars, ~NextRelease, NEW c \in Charts
    PROVE  /\ Settled(c) => Settled(c)'
           /\ GaveUp(c) => GaveUp(c)'
           /\ strict' = strict /\ round' = round
  <1>0. ChartOK(c)
    BY DEF ChartsOK
  <1>1. CASE Begin \/ UNCHANGED vars
    BY <1>1 DEF Begin, vars, crVars, Settled, GaveUp, JobOver, Target
  <1>2. CASE ReconcileChart \/ ReconcileError
    <2>1. UNCHANGED <<strict, round, deployed, named, failedCond, job>>
      BY <1>2, Turn
    <2>2. cr'[c] = cr[c] \/ (Writes(c) /\ cr'[c] = Target(c))
      BY <1>2, Turn DEF TypeOK
    <2>3. Target(c) # Absent
      BY TargetType DEF TypeOK, Absent
    <2> QED  BY <1>0, <2>1, <2>2, <2>3
             DEF Settled, GaveUp, JobOver, Writes, Target, ChartOK
  <1>3. CASE \E d \in Charts : HelmController(d) \/ JobExpires(d)
    <2>1. PICK d \in Charts : HelmController(d) \/ JobExpires(d)
      BY <1>3
    <2>2. UNCHANGED <<strict, round, cr>>
      BY <2>1, JobStep
    <2>3. CASE c # d
      <3>1. /\ job'[c] = job[c] /\ failedCond'[c] = failedCond[c]
            /\ deployed'[c] = deployed[c]
        BY <2>1, <2>3, JobStep
      <3> QED  BY <2>2, <3>1 DEF Settled, GaveUp, JobOver, Target
    <2>4. CASE c = d
      <3>1. Removed(c) \/ Scheduled(c) \/ Ran(c) \/ Expired(c)
        BY <2>1, <2>4, JobStep
      <3>2. CASE Settled(c) \/ GaveUp(c)
        <4>1. Expired(c)
          BY <1>0, <3>1, <3>2
          DEF Settled, GaveUp, JobOver, ChartOK, Removed, Scheduled, Ran, NoJob
        <4> QED  BY <2>2, <4>1 DEF Settled, GaveUp, JobOver, Target, Expired
      <3> QED  BY <2>2, <3>2
    <2> QED  BY <2>3, <2>4
  <1> QED  BY <1>1, <1>2, <1>3 DEF Next

(***************************************************************************)
(* What a state that reconcileChart returns says of the chart, if the Job  *)
(* it names is that of the CR.                                             *)
(***************************************************************************)
LEMMA Judged ==
    ASSUME TypeOK, NEW c \in Charts, ChartOK(c),
           named[c] => job[c].content = cr[c]
    PROVE  /\ ChartState(c) = "Failed" => GaveUp(c)
           /\ ChartState(c) \notin {"Failed", "InProgress"} => Settled(c)
           /\ Writes(c) => ChartState(c) = "InProgress"
  <1>1. CASE deployed[c] = NotInstalled
    BY <1>1 DEF ChartState, Settled, Writes
  <1>2. CASE deployed[c] # NotInstalled /\ Writes(c)
    BY <1>2 DEF ChartState
  <1>3. CASE deployed[c] # NotInstalled /\ ~Writes(c) /\ cr[c] = Absent
    <2>1. ChartState(c) = "VersionAlreadyInstalled"
      BY <1>3 DEF ChartState
    <2> QED  BY <1>3, <2>1 DEF Writes, Settled
  <1>4. CASE deployed[c] # NotInstalled /\ ~Writes(c) /\ cr[c] # Absent
    <2>1. ChartState(c) = JobStatus(c)
      BY <1>4 DEF ChartState
    <2>2. cr[c] = Target(c)
      BY <1>4 DEF Writes, ShouldUpdate, Existing, Decoded
    <2>3. job[c].state \in {"none", "running", "complete", "failed"}
      BY DEF TypeOK
    <2>4. CASE named[c]
      <3>1. job[c].content = cr[c]
        BY <2>4
      <3>2. CASE job[c].state = "none"
        <4>1. JobStatus(c) = IF failedCond[c] THEN "Failed" ELSE "Succeeded"
          BY <2>4, <3>2 DEF JobStatus
        <4> QED  BY <1>4, <2>1, <2>2, <3>1, <3>2, <4>1
                 DEF ChartOK, GaveUp, Settled, JobOver, Absent
      <3>3. CASE job[c].state = "running"
        BY <1>4, <2>1, <2>4, <3>3 DEF JobStatus
      <3>4. CASE job[c].state = "complete"
        <4>1. JobStatus(c) = "Succeeded"
          BY <2>4, <3>4 DEF JobStatus
        <4> QED  BY <1>4, <2>1, <2>2, <3>1, <3>4, <4>1
                 DEF ChartOK, GaveUp, Settled, JobOver
      <3>5. CASE job[c].state = "failed"
        <4>1. JobStatus(c) = "Failed"
          BY <2>4, <3>5 DEF JobStatus
        <4> QED  BY <1>4, <2>1, <2>2, <3>1, <3>5, <4>1
                 DEF ChartOK, GaveUp, Settled, JobOver
      <3> QED  BY <2>3, <3>2, <3>3, <3>4, <3>5
    <2>5. CASE ~named[c]
      BY <1>4, <2>1, <2>5 DEF JobStatus
    <2> QED  BY <2>4, <2>5
  <1> QED  BY <1>1, <1>2, <1>3, <1>4

-----------------------------------------------------------------------------
(* The loop.                                                               *)

\* Results that are there stay, and so does what they say.
LEMMA PassedStays ==
    ASSUME TypeOK, ChartsOK, [Next]_vars, ~NextRelease,
           NEW j \in 1..Len(Order), Passed(j), states'[j] = states[j]
    PROVE  Passed(j)'
  <1>1. Order[j] \in Charts
    BY OrderIsOfCharts
  <1> QED  BY <1>1, SettledStays DEF Passed

\* A turn of the loop passes the chart, or ends the loop with a result that is
\* a success only if every chart was passed.
LEMMA ProgressTurn ==
    ASSUME Prompt, TypeOK, ChartsOK, Progress, ReconcileChart
    PROVE  Progress'
  <1>0. PICK n \in 1..Len(Order) : n = i /\ Order[n] \in Charts
    BY Turn
  <1> DEFINE c == Order[n]
             results == Append(states, ChartState(c))
  <1>1. n \in 1..Len(Order) /\ n = i /\ c \in Charts /\ Len(Order) \in Nat
    BY <1>0, OrderAssumption
  <1>2. /\ states \in Seq(ChartStates) /\ Len(states) = n - 1
        /\ \A j \in 1..(n - 1) : Passed(j)
    BY <1>1 DEF TypeOK, Progress
  <1>3. /\ states' = results /\ Len(results) = n /\ results[n] = ChartState(c)
        /\ \A j \in 1..(n - 1) : results[j] = states[j]
    <2>1. states' = results
      BY <1>0 DEF ReconcileChart
    <2>2. ChartState(c) \in ChartStates
      BY <1>1, ChartStateType
    <2> QED  BY <1>1, <1>2, <2>1, <2>2, AppendProperties
  <1> HIDE DEF results
  <1>4. /\ ChartState(c) = "Failed" => GaveUp(c)
        /\ ChartState(c) \notin {"Failed", "InProgress"} => Settled(c)
    <2>1. named[c] => job[c].content = cr[c]
      BY <1>0 DEF ReconcileChart
    <2> QED  BY <1>1, <2>1, Judged DEF ChartsOK
  <1>5. ~NextRelease /\ [Next]_vars
    BY <1>1 DEF NextRelease, Next
  <1>6. \A j \in 1..(n - 1) : Passed(j)'
    <2> SUFFICES ASSUME NEW j \in 1..(n - 1) PROVE Passed(j)'
      OBVIOUS
    <2>1. Passed(j) /\ states'[j] = states[j] /\ j \in 1..Len(Order)
      BY <1>1, <1>2, <1>3
    <2> QED  BY <1>5, <2>1, PassedStays
  <1>7. ASSUME ~Stops(ChartState(c)) PROVE Passed(n)'
    <2>1. /\ ChartState(c) # "InProgress"
          /\ ChartState(c) = "Failed" => ~strict /\ GaveUp(c)
          /\ ChartState(c) # "Failed" => Settled(c)
      BY <1>4, <1>7 DEF Stops
    <2>2. /\ Settled(c) => Settled(c)'
          /\ GaveUp(c) => GaveUp(c)'
          /\ strict' = strict
      BY <1>1, <1>5, SettledStays
    <2>3. states'[n] = ChartState(c)
      BY <1>3
    <2> QED  BY <2>1, <2>2, <2>3 DEF Passed
  <1>8. CASE Stops(ChartState(c))
    <2>1. i' = 0
      BY <1>0, <1>8 DEF ReconcileChart, Return
    <2>2. outcome' \in {"Error", Aggregate(results)}
      BY <1>0, <1>8 DEF ReconcileChart, Return, results
    <2>3. Aggregate(results) # "Succeeded"
      BY <1>1, <1>3, <1>8, AggregateType DEF Stops
    <2> QED  BY <2>1, <2>2, <2>3 DEF Progress
  <1>9. CASE ~Stops(ChartState(c)) /\ IsLast(i)
    <2>1. i' = 0 /\ outcome' = Aggregate(results)
      BY <1>0, <1>9 DEF ReconcileChart, Return, results
    <2>2. ASSUME outcome' = "Succeeded", NEW d \in Charts PROVE Settled(d)'
      <3>1. PICK j \in 1..Len(Order) : Order[j] = d
        BY OrderAssumption
      <3>2. j \in 1..(n - 1) \/ j = n
        BY <1>1, <1>9, OrderAssumption DEF IsLast
      <3>3. Passed(j)'
        BY <1>6, <1>7, <1>9, <3>2
      <3>4. states'[j] # "Failed"
        <4>1. j \in 1..Len(results)
          BY <1>1, <1>3, <3>2
        <4>2. Aggregate(results) = "Succeeded"
          BY <2>1, <2>2
        <4> QED  BY <1>3, <4>1, <4>2, AggregateType
      <3> QED  BY <3>1, <3>3, <3>4 DEF Passed
    <2> QED  BY <2>1, <2>2 DEF Progress
  <1>10. CASE ~Stops(ChartState(c)) /\ ~IsLast(i)
    <2>1. i' = i + 1 /\ outcome' = outcome
      BY <1>0, <1>10 DEF ReconcileChart
    <2>2. \A j \in 1..n : Passed(j)'
      BY <1>1, <1>6, <1>7, <1>10
    <2>3. outcome = "Succeeded" => \A d \in Charts : Settled(d)'
      BY <1>5, SettledStays DEF Progress
    <2> QED  BY <1>1, <1>3, <2>1, <2>2, <2>3 DEF Progress
  <1> QED  BY <1>8, <1>9, <1>10

\* Every step keeps the loop's account of the charts.
LEMMA ProgressNext ==
    ASSUME Prompt, TypeOK, ChartsOK, Progress, [Next]_vars
    PROVE  Progress'
  <1>1. CASE Begin
    <2>1. i' = 1 /\ states' = <<>> /\ outcome' = outcome /\ i = 0
      BY <1>1 DEF Begin
    <2>2. ~NextRelease
      BY <2>1 DEF NextRelease
    <2>3. outcome = "Succeeded" => \A c \in Charts : Settled(c)'
      BY <2>2, SettledStays DEF Progress
    <2>4. Len(states') = 0
      BY <2>1
    <2> QED  BY <2>1, <2>3, <2>4 DEF Progress
  <1>2. CASE ReconcileChart
    BY <1>2, ProgressTurn
  <1>3. CASE ReconcileError
    BY <1>3 DEF ReconcileError, Return, Progress
  <1>4. CASE NextRelease
    BY <1>4 DEF NextRelease, Progress
  <1>5. CASE ~NextRelease /\ ( \/ UNCHANGED vars
                               \/ \E c \in Charts : HelmController(c) \/ JobExpires(c) )
    <2>1. UNCHANGED <<i, states, outcome>>
      BY <1>5, JobStep DEF vars
    <2>2. outcome = "Succeeded" => \A c \in Charts : Settled(c)'
      BY <1>5, SettledStays DEF Progress
    <2>3. ASSUME i > 0, NEW j \in 1..(i - 1) PROVE Passed(j)'
      <3>1. j \in 1..Len(Order) /\ Passed(j)
        <4>1. Len(Order) \in Nat /\ i \in 0..Len(Order)
          BY OrderAssumption DEF TypeOK
        <4> QED  BY <2>3, <4>1 DEF Progress
      <3> QED  BY <1>5, <2>1, <3>1, PassedStays
    <2> QED  BY <2>1, <2>2, <2>3 DEF Progress
  <1> QED  BY <1>1, <1>2, <1>3, <1>4, <1>5 DEF Next

\* The inductive invariant holds in every behaviour.
LEMMA ProgressCorrect ==
    ASSUME Prompt
    PROVE  Spec => [](TypeOK /\ ChartsOK /\ Progress)
  <1>1. Init => ChartsOK /\ Progress
    BY ChartsInit DEF Init, Progress
  <1>2. TypeOK /\ ChartsOK /\ Progress /\ [Next]_vars => ChartsOK' /\ Progress'
    BY ChartsNext, ProgressNext
  <1> QED  BY <1>1, <1>2, TypeCorrect, PTL DEF Spec

\* The phase reports Succeeded only when every chart is at its target,
\* whichever Jobs fail, are replaced or are cleaned up, and whenever
\* (reconcileHelmCharts, aggregateResults).
THEOREM PhaseIsHonest ==
    ASSUME Prompt
    PROVE  Spec => []PhaseHonest
  <1>1. Progress => PhaseHonest
    BY DEF Progress, PhaseHonest, Settled, UpToDate
  <1> QED  BY <1>1, ProgressCorrect, PTL

\* No CR is created or changed before the charts its chart depends on are at
\* their target or, outside the LCM phase, have failed (the break and the
\* strict return in reconcileHelmCharts, on the sorted list).
THEOREM DependenciesGoFirst ==
    ASSUME Prompt
    PROVE  Spec => DependenciesFirst
  <1>1. ASSUME TypeOK, ChartsOK, Progress, [Next]_vars
        PROVE  \A c \in Charts : cr'[c] # cr[c] =>
                 \A d \in DependsOn[c] : UpToDate(d) \/ (failedCond[d] /\ ~strict)
    <2> SUFFICES ASSUME NEW c \in Charts, cr'[c] # cr[c], NEW d \in DependsOn[c]
                 PROVE  UpToDate(d) \/ (failedCond[d] /\ ~strict)
      OBVIOUS
    <2>1. ReconcileChart \/ ReconcileError
      BY <1>1, JobStep DEF Next, Begin, NextRelease, vars, crVars
    <2>2. i \in 1..Len(Order) /\ c = Order[i]
      BY <1>1, <2>1, Turn DEF TypeOK
    <2>3. PICK j \in 1..Len(Order) : Order[j] = d
      BY OrderAssumption
    <2>4. j < i
      BY <2>2, <2>3, OrderAssumption
    <2>5. Passed(j)
      BY <1>1, <2>2, <2>4, OrderAssumption DEF Progress
    <2> QED  BY <2>3, <2>5 DEF Passed, Settled, GaveUp, JobOver, UpToDate
  <1>2. TypeOK /\ ChartsOK /\ Progress /\ [Next]_vars =>
          [\A c \in Charts : cr'[c] # cr[c] =>
             \A d \in DependsOn[c] : UpToDate(d) \/ (failedCond[d] /\ ~strict)]_vars
    BY <1>1
  <1> QED  BY <1>2, ProgressCorrect, PTL DEF Spec, DependenciesFirst
=============================================================================
