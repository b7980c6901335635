-------------------------- MODULE ChartOrderProofs --------------------------
(***************************************************************************)
(* Proofs about ChartOrder, for lists of any length with any dependencies: *)
(* its type invariant, that every chart comes after its dependencies, that *)
(* the sort fails exactly on a cycle and otherwise loses no chart, and     *)
(* that it keeps a leading part of the list in front.                      *)
(***************************************************************************)
EXTENDS ChartOrder, SequenceTheorems, FiniteSetTheorems, TLAPS

-----------------------------------------------------------------------------
(* The invariants.                                                         *)

CallRecords == [name : Names, dep : Nat]
Deps(name) == ConfigOf(name).deps
NamesOf(stack) == {stack[i].name : i \in 1..Len(stack)}

\* What a visit of the name does not change: it is done, or external.
Done(name) == name \in visited \/ name \notin Listed

\* Each call is of another chart of the list and has the dependencies behind
\* it done, the one it is at excepted.
Frames(stack) ==
    /\ stack \in Seq(CallRecords)
    /\ \A i \in 1..Len(stack) :
          /\ stack[i].name \in Listed
          /\ stack[i].dep <= Len(Deps(stack[i].name))
          /\ \A d \in 1..(stack[i].dep - 1) : Done(Deps(stack[i].name)[d])
    /\ \A i, j \in 1..Len(stack) : stack[i].name = stack[j].name => i = j

\* Each call was made for the dependency that the call below it is at.
Linked(stack) ==
    \A i \in 1..(Len(stack) - 1) :
        /\ stack[i].dep > 0
        /\ Deps(stack[i].name)[stack[i].dep] = stack[i + 1].name

Marks ==
    /\ configs \in Lists /\ next \in 1..(Len(configs) + 1)
    /\ visited \subseteq Listed /\ inProgress \subseteq Listed
    /\ visited \cap inProgress = {}
    /\ result \in Seq(Names) /\ ToSet(result) = visited
    /\ cyclic \in BOOLEAN /\ (cyclic => calls = <<>>)

CallsOK ==
    /\ Frames(calls) /\ Linked(calls)
    /\ ~cyclic => inProgress = NamesOf(calls)
    /\ calls # <<>> /\ Top.dep > 0 => Done(TopDeps[Top.dep])

\* What the loop over the list has behind it.
Passed == ~cyclic => \A i \in 1..(next - 1) :
                        configs[i].name \in visited \cup inProgress

FailsOnCycle == cyclic => HasCycle

Sorting == Marks /\ CallsOK /\ Passed /\ DependenciesBefore /\ FailsOnCycle

-----------------------------------------------------------------------------
(* Lemmas about the operators.                                             *)

LEMMA Least ==
    ASSUME NEW T \in SUBSET Nat, T # {}
    PROVE  \E x \in T : \A y \in T : x <= y
  <1>1. PICK x \in T : \A y \in T : ~(<<y, x>> \in OpToRel(<, Nat))
    BY NatLessThanWellFounded, WFMin
  <1>2. \A y \in T : ~(y < x)
    BY <1>1 DEF OpToRel
  <1> QED  BY <1>2

LEMMA ListFacts ==
    ASSUME configs \in Lists
    PROVE  /\ Len(configs) \in Nat /\ Listed \subseteq Names
           /\ \A i \in 1..Len(configs) : /\ configs[i].name \in Names
                                         /\ configs[i].deps \in Seq(Names)
  <1>1. configs \in Seq(Configs)
    BY DEF Lists
  <1>2. Len(configs) \in Nat /\ \A i \in 1..Len(configs) : configs[i] \in Configs
    BY <1>1, LenProperties, ElementOfSeq
  <1> QED  BY <1>2, ConfigsAssumption DEF Listed

\* The map has a config for every name of the list.
LEMMA LastConfig ==
    ASSUME configs \in Lists, NEW name \in Listed
    PROVE  /\ Deps(name) \in Seq(Names)
           /\ ConfigOf(name).name = name /\ ConfigOf(name) \in ToSet(configs)
  <1> DEFINE L == Len(configs)
             T == {k \in Nat : L - k \in 1..L /\ configs[L - k].name = name}
             Last(i) == /\ configs[i].name = name
                        /\ \A j \in (i + 1)..L : configs[j].name # name
  <1>0. L \in Nat
    BY ListFacts
  <1>1. PICK i \in 1..L : configs[i].name = name
    BY DEF Listed
  <1>2. L - i \in T
    BY <1>0, <1>1
  <1>3. PICK k \in T : \A y \in T : k <= y
    BY <1>2, Least
  <1>4. L - k \in 1..L /\ configs[L - k].name = name /\ k \in Nat
    BY <1>3
  <1>5. ASSUME NEW j \in (L - k + 1)..L, configs[j].name = name
        PROVE  FALSE
    <2>1. L - j \in T
      BY <1>0, <1>4, <1>5
    <2>2. k <= L - j
      BY <2>1, <1>3
    <2> QED  BY <2>2, <1>0, <1>4
  <1>6. \E m \in 1..L : Last(m)
    BY <1>4, <1>5
  <1> DEFINE last == CHOOSE m \in 1..L : Last(m)
  <1>7. last \in 1..L /\ configs[last].name = name
    BY <1>6
  <1>8. ConfigOf(name) = configs[last]
    BY DEF ConfigOf
  <1> HIDE DEF last
  <1> QED  BY <1>7, <1>8, ListFacts DEF Deps, ToSet

\* The list stays, and with it everything that is read from it alone.
LEMMA SameList ==
    ASSUME configs' = configs
    PROVE  /\ Listed' = Listed /\ HasCycle' = HasCycle
           /\ \A name : Deps(name)' = Deps(name) /\ DepsOf(name)' = DepsOf(name)
           /\ \A n : ClosedPrefix(n)' = ClosedPrefix(n)
  BY DEF Listed, HasCycle, Deps, DepsOf, ConfigOf, ClosedPrefix

\* DependenciesBefore, of any sequence.
Ordered(order) ==
    \A i \in 1..Len(order) :
        /\ \A j \in 1..(i - 1) : order[j] # order[i]
        /\ DepsOf(order[i]) \subseteq {order[j] : j \in 1..(i - 1)}

LEMMA SameOrder ==
    ASSUME configs' = configs, NEW order, Ordered(order)
    PROVE  Ordered(order)'
  <1>1. \A name : DepsOf(name)' = DepsOf(name)
    BY SameList
  <1> QED  BY <1>1 DEF Ordered

LEMMA OrderStays ==
    ASSUME configs' = configs, result' = result, DependenciesBefore
    PROVE  DependenciesBefore'
  <1>1. PICK order : order = result
    OBVIOUS
  <1>2. Ordered(order)
    <2>1. Ordered(result)
      BY DEF Ordered, DependenciesBefore
    <2> QED  BY <1>1, <2>1
  <1>3. Ordered(order)'
    BY <1>2, SameOrder
  <1>4. Ordered(result)'
    BY <1>1, <1>3
  <1> QED  BY <1>4 DEF Ordered, DependenciesBefore

LEMMA TopIsLast ==
    ASSUME calls \in Seq(CallRecords), calls # <<>>
    PROVE  /\ Len(calls) \in Nat \ {0} /\ Top = calls[Len(calls)]
           /\ Top.name \in Names /\ Top.dep \in Nat /\ Top = Call(Top.name, Top.dep)
  <1>1. Len(calls) \in Nat \ {0}
    BY EmptySeq
  <1>2. calls[Len(calls)] \in CallRecords
    BY <1>1, ElementOfSeq
  <1> QED  BY <1>1, <1>2 DEF Top, CallRecords, Call

-----------------------------------------------------------------------------
(* A visit.                                                                *)

\* The calls that lead to a visit of the name, and nothing else.
Ready(name, stack) ==
    /\ Frames(stack) /\ Linked(stack)
    /\ inProgress = NamesOf(stack)
    /\ stack # <<>> =>
          LET last == stack[Len(stack)]
          IN last.dep > 0 /\ Deps(last.name)[last.dep] = name

LEMMA FirstVisit ==
    ASSUME Sorting, VisitNext
    PROVE  Ready(configs[next].name, <<>>) /\ configs[next].name \in Listed
  <1>1. calls = <<>> /\ ~cyclic /\ next \in 1..Len(configs)
    BY ListFacts DEF VisitNext, Ended, Sorting, Marks
  <1>2. inProgress = NamesOf(<<>>)
    BY <1>1 DEF Sorting, CallsOK
  <1>3. Frames(<<>>) /\ Linked(<<>>)
    BY <1>1 DEF Sorting, CallsOK
  <1> QED  BY <1>1, <1>2, <1>3 DEF Ready, Listed

LEMMA NextVisit ==
    ASSUME Sorting, VisitDependency
    PROVE  /\ Ready(TopDeps[Top.dep + 1], NextDependency)
           /\ NextDependency # <<>> /\ ~cyclic
  <1> DEFINE n == Len(calls)
             next1 == Call(Top.name, Top.dep + 1)
  <1>1. /\ calls # <<>> /\ Top.dep < Len(TopDeps) /\ ~cyclic
        /\ Frames(calls) /\ Linked(calls) /\ inProgress = NamesOf(calls)
        /\ Top.dep > 0 => Done(TopDeps[Top.dep])
        /\ configs \in Lists
    BY DEF VisitDependency, Sorting, Marks, CallsOK
  <1>2. /\ calls \in Seq(CallRecords) /\ n \in Nat \ {0} /\ Top = calls[n]
        /\ Top.name \in Names /\ Top.dep \in Nat
    BY <1>1, TopIsLast DEF Frames
  <1>3. next1 \in CallRecords /\ next1.name = Top.name /\ next1.dep = Top.dep + 1
    BY <1>2 DEF Call, CallRecords
  <1>4. /\ NextDependency \in Seq(CallRecords) /\ Len(NextDependency) = n
        /\ \A j \in 1..n : NextDependency[j] = IF j = n THEN next1 ELSE calls[j]
    BY <1>2, <1>3, ExceptSeq DEF NextDependency
  <1> HIDE DEF next1
  <1>5. \A j \in 1..n : NextDependency[j].name = calls[j].name
    BY <1>2, <1>3, <1>4
  <1>6. Top.name \in Listed /\ Len(TopDeps) \in Nat /\ TopDeps = Deps(Top.name)
    <2>1. Top.name \in Listed
      BY <1>1, <1>2 DEF Frames
    <2>2. Deps(Top.name) \in Seq(Names)
      BY <1>1, <2>1, LastConfig
    <2> QED  BY <2>1, <2>2, LenProperties DEF TopDeps, Deps
  <1>7. Frames(NextDependency)
    <2>1. ASSUME NEW i \in 1..n
          PROVE  LET s == NextDependency[i]
                 IN /\ s.name \in Listed /\ s.dep <= Len(Deps(s.name))
                    /\ \A d \in 1..(s.dep - 1) : Done(Deps(s.name)[d])
      <3>1. CASE i = n
        <4>1. \A d \in 1..(Top.dep - 1) : Done(Deps(Top.name)[d])
          BY <1>1, <1>2, <3>1 DEF Frames
        <4>2. \A d \in 1..Top.dep : Done(Deps(Top.name)[d])
          BY <4>1, <1>1, <1>2, <1>6
        <4> QED  BY <4>2, <3>1, <1>1, <1>2, <1>3, <1>4, <1>6
      <3>2. CASE i # n
        BY <3>2, <1>1, <1>4 DEF Frames
      <3> QED  BY <3>1, <3>2
    <2>2. \A i, j \in 1..n : NextDependency[i].name = NextDependency[j].name => i = j
      BY <1>1, <1>5 DEF Frames
    <2> QED  BY <2>1, <2>2, <1>4 DEF Frames
  <1>8. Linked(NextDependency)
    <2>1. ASSUME NEW i \in 1..(n - 1)
          PROVE  /\ NextDependency[i].dep > 0
                 /\ Deps(NextDependency[i].name)[NextDependency[i].dep] =
                       NextDependency[i + 1].name
      <3>1. NextDependency[i] = calls[i] /\ NextDependency[i + 1].name = calls[i + 1].name
        BY <1>2, <1>4, <1>5
      <3> QED  BY <3>1, <1>1 DEF Linked
    <2> QED  BY <2>1, <1>4 DEF Linked
  <1>9. inProgress = NamesOf(NextDependency)
    BY <1>1, <1>4, <1>5 DEF NamesOf
  <1>10. NextDependency # <<>>
    BY <1>2, <1>4, EmptySeq
  <1>11. /\ NextDependency[n].dep > 0
         /\ Deps(NextDependency[n].name)[NextDependency[n].dep] = TopDeps[Top.dep + 1]
    BY <1>2, <1>3, <1>4, <1>6
  <1> QED  BY <1>1, <1>4, <1>7, <1>8, <1>9, <1>10, <1>11 DEF Ready

LEMMA DependencyOf ==
    ASSUME configs \in Lists, NEW name \in Listed,
           NEW d \in Nat, d > 0, d <= Len(Deps(name)), Deps(name)[d] \in Listed
    PROVE  Deps(name)[d] \in DepsOf(name)
  <1>1. Len(Deps(name)) \in Nat
    BY LastConfig, LenProperties
  <1> QED  BY <1>1 DEF DepsOf, ToSet, Deps

\* A visit of a name in progress: the calls from that of the name on form a
\* cycle.
LEMMA CycleFound ==
    ASSUME configs \in Lists, NEW name, NEW stack, Ready(name, stack),
           name \in inProgress
    PROVE  HasCycle
  <1> DEFINE n == Len(stack)
  <1>1. /\ stack \in Seq(CallRecords) /\ n \in Nat /\ Linked(stack) /\ Frames(stack)
        /\ inProgress = NamesOf(stack)
    BY LenProperties DEF Ready, Frames
  <1>2. PICK m \in 1..n : stack[m].name = name
    BY <1>1 DEF NamesOf
  <1>3. stack # <<>>
    BY <1>1, <1>2, EmptySeq
  <1>4. stack[n].dep > 0 /\ Deps(stack[n].name)[stack[n].dep] = name
    BY <1>3 DEF Ready
  <1> DEFINE S == {stack[k].name : k \in m..n}
  <1>5. S \in (SUBSET Listed) \ {{}}
    <2>1. stack[m].name \in S
      BY <1>1, <1>2
    <2>2. S \subseteq Listed
      BY <1>1 DEF Frames
    <2> QED  BY <2>1, <2>2
  <1>6. ASSUME NEW k \in m..n
        PROVE  DepsOf(stack[k].name) \cap S # {}
    <2>1. k \in 1..n /\ stack[k] \in CallRecords
      BY <1>1, <1>2, ElementOfSeq
    <2>2. stack[k].name \in Listed /\ stack[k].dep \in Nat
          /\ stack[k].dep <= Len(Deps(stack[k].name))
      BY <2>1, <1>1 DEF Frames, CallRecords
    <2>3. /\ stack[k].dep > 0
          /\ Deps(stack[k].name)[stack[k].dep] \in S
      <3>1. CASE k = n
        BY <3>1, <1>2, <1>4
      <3>2. CASE k # n
        <4>1. k \in 1..(n - 1) /\ k + 1 \in m..n
          BY <3>2, <1>1, <1>2
        <4> QED  BY <4>1, <1>1 DEF Linked
      <3> QED  BY <3>1, <3>2
    <2>4. Deps(stack[k].name)[stack[k].dep] \in DepsOf(stack[k].name)
      BY <2>2, <2>3, <1>5, DependencyOf
    <2> QED  BY <2>3, <2>4
  <1>7. \A x \in S : DepsOf(x) \cap S # {}
    BY <1>6
  <1> HIDE DEF S
  <1> QED  BY <1>5, <1>7 DEF HasCycle

\* What is done stays done.
LEMMA KeepsFrames ==
    ASSUME configs' = configs, visited \subseteq visited', NEW stack
    PROVE  /\ \A name : Done(name) => Done(name)'
           /\ Frames(stack) => Frames(stack)'
           /\ Linked(stack) => Linked(stack)'
  BY SameList DEF Done, Frames, Linked

LEMMA VisitKeepsCalls ==
    ASSUME Sorting, ~cyclic, NEW name, NEW stack, Ready(name, stack),
           Visit(name, stack)
    PROVE  CallsOK'
  <1> DEFINE n == Len(stack)
             new == Append(stack, Call(name, 0))
  <1>0. configs' = configs /\ visited' = visited /\ configs \in Lists
    BY DEF Visit, Sorting, Marks
  <1>1. /\ stack \in Seq(CallRecords) /\ n \in Nat /\ Frames(stack) /\ Linked(stack)
        /\ inProgress = NamesOf(stack)
    BY LenProperties DEF Ready, Frames
  <1>2. CASE name \in inProgress
    <2>1. calls' = <<>> /\ cyclic'
      BY <1>2 DEF Visit
    <2>2. <<>> \in Seq(CallRecords) /\ Len(<<>>) = 0
      BY EmptySeq
    <2>3. Frames(<<>>)' /\ Linked(<<>>)'
      BY <2>2 DEF Frames, Linked
    <2> QED  BY <2>1, <2>3 DEF CallsOK
  <1>3. CASE name \notin inProgress /\ (name \in visited \/ name \notin Listed)
    <2>1. calls' = stack /\ cyclic' = cyclic /\ inProgress' = inProgress
      BY <1>3 DEF Visit
    <2>2. Frames(stack)' /\ Linked(stack)' /\ Done(name)'
      BY <1>0, <1>1, <1>3, KeepsFrames DEF Done
    <2>3. Frames(calls)' /\ Linked(calls)'
      BY <2>1, <2>2 DEF Frames, Linked
    <2>4. inProgress' = NamesOf(calls)'
      BY <2>1, <1>1 DEF NamesOf
    <2>5. calls' # <<>> => Done(TopDeps[Top.dep])'
      BY <1>0, <2>1, <2>2, SameList DEF Ready, Top, TopDeps, Deps, Done
    <2> QED  BY <2>3, <2>4, <2>5 DEF CallsOK
  <1>4. CASE name \notin inProgress /\ name \notin visited /\ name \in Listed
    <2>1. /\ calls' = new /\ cyclic' = cyclic
          /\ inProgress' = inProgress \cup {name}
      BY <1>4 DEF Visit
    <2>2. /\ Call(name, 0) \in CallRecords
          /\ Call(name, 0).name = name /\ Call(name, 0).dep = 0
      BY <1>0, <1>4, ListFacts DEF Call, CallRecords
    <2>3. /\ new \in Seq(CallRecords) /\ Len(new) = n + 1
          /\ \A i \in 1..n : new[i] = stack[i]
          /\ new[n + 1] = Call(name, 0)
      BY <1>1, <2>2, AppendProperties
    <2> HIDE DEF new
    <2>4. Len(Deps(name)) \in Nat
      BY <1>0, <1>4, LastConfig, LenProperties
    <2>5. Frames(new)
      <3>1. ASSUME NEW i \in 1..(n + 1)
            PROVE  /\ new[i].name \in Listed
                   /\ new[i].dep <= Len(Deps(new[i].name))
                   /\ \A d \in 1..(new[i].dep - 1) : Done(Deps(new[i].name)[d])
        <4>1. CASE i = n + 1
          BY <4>1, <1>4, <2>2, <2>3, <2>4
        <4>2. CASE i # n + 1
          BY <4>2, <1>1, <2>3 DEF Frames
        <4> QED  BY <4>1, <4>2
      <3>2. ASSUME NEW i \in 1..(n + 1), NEW j \in 1..(n + 1),
                   new[i].name = new[j].name
            PROVE  i = j
        <4>1. \A k \in 1..n : stack[k].name # name
          BY <1>1, <1>4 DEF NamesOf
        <4> QED  BY <3>2, <4>1, <1>1, <2>2, <2>3 DEF Frames
      <3> QED  BY <3>1, <3>2, <2>3 DEF Frames
    <2>6. Linked(new)
      <3>1. ASSUME NEW i \in 1..n
            PROVE  /\ new[i].dep > 0
                   /\ Deps(new[i].name)[new[i].dep] = new[i + 1].name
        <4>1. CASE i = n
          <5>1. stack # <<>>
            BY <1>1, EmptySeq
          <5> QED  BY <5>1, <4>1, <2>2, <2>3 DEF Ready
        <4>2. CASE i # n
          BY <4>2, <1>1, <2>3 DEF Linked
        <4> QED  BY <4>1, <4>2
      <3> QED  BY <3>1, <2>3, <1>1 DEF Linked
    <2>7. Frames(new)' /\ Linked(new)'
      BY <1>0, <2>5, <2>6, KeepsFrames
    <2>8. Frames(calls)' /\ Linked(calls)'
      BY <2>1, <2>7 DEF Frames, Linked
    <2>9. inProgress' = NamesOf(calls)'
      BY <2>1, <2>2, <2>3, <1>1 DEF NamesOf
    <2>10. Top'.dep = 0
      BY <2>1, <2>2, <2>3 DEF Top
    <2> QED  BY <2>8, <2>9, <2>10 DEF CallsOK
  <1> QED  BY <1>2, <1>3, <1>4

LEMMA VisitKeepsSorting ==
    ASSUME Sorting, ~cyclic, NEW name, NEW stack, Ready(name, stack),
           Visit(name, stack), next' \in 1..(Len(configs) + 1),
           \/ next' = next
           \/ next' = next + 1 /\ name = configs[next].name /\ name \in Listed
    PROVE  Sorting'
  <1>0. /\ configs' = configs /\ visited' = visited /\ result' = result
        /\ configs \in Lists
    BY DEF Visit, Sorting, Marks
  <1>1. Listed' = Listed /\ HasCycle' = HasCycle /\ Len(configs) \in Nat
    BY <1>0, SameList, ListFacts
  <1>2. Marks'
    <2>1. inProgress' \subseteq Listed /\ visited \cap inProgress' = {}
      <3>1. inProgress \subseteq Listed /\ visited \cap inProgress = {}
        BY DEF Sorting, Marks
      <3> QED  BY <3>1 DEF Visit
    <2>3. cyclic' \in BOOLEAN /\ (cyclic' => calls' = <<>>)
      <3>1. cyclic \in BOOLEAN
        BY DEF Sorting, Marks
      <3>2. (cyclic' = TRUE /\ calls' = <<>>) \/ cyclic' = cyclic
        BY DEF Visit
      <3>3. CASE cyclic' = TRUE /\ calls' = <<>>
        BY <3>3
      <3>4. CASE cyclic' = cyclic
        <4>1. cyclic = FALSE
          BY <3>1
        <4> QED  BY <4>1, <3>4
      <3> QED  BY <3>2, <3>3, <3>4
    <2>2. /\ visited \subseteq Listed /\ result \in Seq(Names)
          /\ ToSet(result)' = visited
      BY <1>0 DEF Sorting, Marks, ToSet
    <2> QED  BY <2>1, <2>2, <2>3, <1>0, <1>1 DEF Marks
  <1>3. CallsOK'
    BY VisitKeepsCalls
  <1>4. Passed'
    <2>0. PICK m : m = next' - 1
      OBVIOUS
    <2> SUFFICES ASSUME ~cyclic', NEW i \in 1..m
                 PROVE  configs[i].name \in visited \cup inProgress'
      BY <1>0, <2>0 DEF Passed
    <2>1. name \notin inProgress /\ inProgress \subseteq inProgress'
      BY DEF Visit
    <2>2. CASE i <= next - 1
      BY <2>1, <2>2 DEF Sorting, Passed, Marks
    <2>3. CASE ~(i <= next - 1)
      <3>1. i = next /\ name = configs[next].name /\ name \in Listed
        <4>0. next \in Nat /\ next' \in Nat
          <5>1. next \in 1..(Len(configs) + 1)
            BY DEF Sorting, Marks
          <5>2. next \in Nat
            BY <5>1, <1>1
          <5> QED  BY <5>2
        <4>1. next \in Nat /\ next' \in Nat /\ i \in Nat /\ i <= next' - 1
          <5>1. m \in Int
            BY <4>0, <2>0
          <5>2. i \in Nat /\ i <= m
            BY <5>1
          <5> QED  BY <4>0, <2>0, <5>2
        <4>2. next' # next
          BY <4>1, <2>3
        <4>3. next' = next + 1
          BY <4>2
        <4>4. i = next
          BY <4>1, <4>3, <2>3
        <4> QED  BY <4>2, <4>4
      <3> QED  BY <3>1, <2>1 DEF Visit
    <2> QED  BY <2>2, <2>3
  <1>5. DependenciesBefore'
    BY <1>0, OrderStays DEF Sorting
  <1>6. FailsOnCycle'
    BY <1>0, <1>1, CycleFound DEF FailsOnCycle, Visit, Sorting
  <1> QED  BY <1>2, <1>3, <1>4, <1>5, <1>6 DEF Sorting

-----------------------------------------------------------------------------
(* The return of a visit.                                                  *)

LEMMA Returning ==
    ASSUME Sorting, Return
    PROVE  /\ ~cyclic /\ calls \in Seq(CallRecords) /\ Len(calls) \in Nat \ {0}
           /\ Top = calls[Len(calls)] /\ Top.name \in Listed
           /\ Top.name \in inProgress /\ Top.name \notin visited
           /\ DepsOf(Top.name) \subseteq visited
           /\ configs' = configs /\ configs \in Lists
  <1>1. /\ calls # <<>> /\ Top.dep >= Len(TopDeps) /\ ~cyclic
        /\ Frames(calls) /\ Linked(calls) /\ inProgress = NamesOf(calls)
        /\ Top.dep > 0 => Done(TopDeps[Top.dep])
        /\ configs \in Lists /\ configs' = configs
    BY DEF Return, Sorting, Marks, CallsOK
  <1>2. /\ calls \in Seq(CallRecords) /\ Len(calls) \in Nat \ {0}
        /\ Top = calls[Len(calls)] /\ Top.dep \in Nat
    BY <1>1, TopIsLast DEF Frames
  <1>3. /\ Top.name \in Listed /\ Top.dep <= Len(Deps(Top.name))
        /\ \A d \in 1..(Top.dep - 1) : Done(Deps(Top.name)[d])
    BY <1>1, <1>2 DEF Frames
  <1>4. Top.name \in inProgress /\ Top.name \notin visited
    BY <1>1, <1>2 DEF NamesOf, Sorting, Marks
  <1>5. Len(Deps(Top.name)) \in Nat /\ TopDeps = Deps(Top.name)
    BY <1>1, <1>3, LastConfig, LenProperties DEF TopDeps, Deps
  <1>6. \A d \in 1..Len(Deps(Top.name)) : Done(Deps(Top.name)[d])
    BY <1>1, <1>2, <1>3, <1>5
  <1>7. DepsOf(Top.name) \subseteq visited
    BY <1>6 DEF DepsOf, ToSet, Deps, Done
  <1> QED  BY <1>1, <1>2, <1>3, <1>4, <1>7

LEMMA ReturnKeepsCalls ==
    ASSUME Sorting, Return
    PROVE  CallsOK'
  <1>0. PICK n : n = Len(calls)
    OBVIOUS
  <1>1. PICK done : done = Top.name
    OBVIOUS
  <1>2. /\ configs' = configs /\ visited' = visited \cup {done}
        /\ inProgress' = inProgress \ {done}
        /\ calls' = SubSeq(calls, 1, n - 1)
        /\ cyclic' = cyclic /\ ~cyclic /\ configs \in Lists
    BY <1>0, <1>1, Returning DEF Return, Leave
  <1>3. /\ calls \in Seq(CallRecords) /\ n \in Nat \ {0} /\ done = calls[n].name
        /\ Frames(calls) /\ Linked(calls) /\ inProgress = NamesOf(calls)
    BY <1>0, <1>1, Returning DEF Sorting, CallsOK
  <1>4. PICK rest : rest = SubSeq(calls, 1, n - 1)
    OBVIOUS
  <1>5. /\ rest \in Seq(CallRecords) /\ Len(rest) = n - 1
        /\ \A i \in 1..(n - 1) : rest[i] = calls[i]
    <2>1. \A i \in 1..(n - 1) : calls[i] \in CallRecords
      BY <1>0, <1>3, ElementOfSeq
    <2>2. /\ SubSeq(calls, 1, n - 1) \in Seq(CallRecords)
          /\ Len(SubSeq(calls, 1, n - 1)) = IF 1 <= n - 1 THEN n - 1 - 1 + 1 ELSE 0
          /\ \A i \in 1..(n - 1 - 1 + 1) : SubSeq(calls, 1, n - 1)[i] = calls[1 + i - 1]
      BY <1>3, <2>1, SubSeqProperties
    <2> QED  BY <2>2, <1>3, <1>4
  <1>6. Frames(rest) /\ Linked(rest)
    <2>1. \A i \in 1..(n - 1) : i \in 1..n /\ rest[i] = calls[i]
      BY <1>3, <1>5
    <2>2. Frames(rest)
      BY <2>1, <1>0, <1>3, <1>5 DEF Frames
    <2>3. \A i \in 1..(n - 1 - 1) : /\ i \in 1..(n - 1) /\ rest[i] = calls[i]
                                    /\ rest[i + 1] = calls[i + 1]
      BY <1>3, <1>5
    <2>4. Linked(rest)
      BY <2>3, <1>0, <1>3, <1>5 DEF Linked
    <2> QED  BY <2>2, <2>4
  <1>7. Frames(calls)' /\ Linked(calls)'
    <2>1. Frames(rest)' /\ Linked(rest)'
      BY <1>2, <1>6, KeepsFrames
    <2> QED  BY <2>1, <1>2, <1>4 DEF Frames, Linked
  <1>8. inProgress' = NamesOf(calls)'
    <2>1. \A i \in 1..n : calls[i].name = done <=> i = n
      BY <1>0, <1>3 DEF Frames
    <2> QED  BY <2>1, <1>0, <1>2, <1>3, <1>4, <1>5 DEF NamesOf
  <1>9. calls' # <<>> => Done(TopDeps[Top.dep])'
    <2> SUFFICES ASSUME calls' # <<>>
                 PROVE  Done(TopDeps[Top.dep])'
      OBVIOUS
    <2>1. n - 1 \in 1..(n - 1) /\ n - 1 \in 1..n
      BY <1>2, <1>3, <1>4, <1>5, EmptySeq
    <2>2. Deps(calls[n - 1].name)[calls[n - 1].dep] = done
      BY <2>1, <1>0, <1>3 DEF Linked
    <2>3. Top' = calls[n - 1]
      BY <2>1, <1>2, <1>4, <1>5 DEF Top
    <2>4. PICK last : last = calls[n - 1]
      OBVIOUS
    <2>5. TopDeps' = Deps(last.name)
      BY <2>3, <2>4, <1>2 DEF TopDeps, Deps, ConfigOf
    <2>6. TopDeps'[Top'.dep] = done
      BY <2>2, <2>3, <2>4, <2>5
    <2> QED  BY <2>6, <1>2 DEF Done
  <1> QED  BY <1>7, <1>8, <1>9 DEF CallsOK

LEMMA ReturnKeepsOrder ==
    ASSUME Sorting, Return
    PROVE  /\ DependenciesBefore'
           /\ result' \in Seq(Names) /\ ToSet(result)' = visited'
           /\ Len(result') = Len(result) + 1 /\ Len(result) \in Nat
           /\ \A i \in 1..Len(result) : result'[i] = result[i]
           /\ result'[Len(result) + 1] = Top.name
  <1>1. PICK done : done = Top.name
    OBVIOUS
  <1>2. PICK len : len = Len(result)
    OBVIOUS
  <1>3. /\ result' = Append(result, done) /\ visited' = visited \cup {done}
        /\ result \in Seq(Names) /\ ToSet(result) = visited
        /\ configs' = configs /\ configs \in Lists
        /\ done \in Listed /\ done \notin visited
        /\ DepsOf(done) \subseteq visited
        /\ DependenciesBefore
    BY <1>1, Returning DEF Return, Emit, Sorting, Marks
  <1>4. /\ len \in Nat /\ result' \in Seq(Names) /\ Len(result') = len + 1
        /\ \A i \in 1..len : result'[i] = result[i]
        /\ result'[len + 1] = done
    BY <1>2, <1>3, ListFacts, AppendProperties, LenProperties
  <1>5. ToSet(result)' = visited'
    BY <1>2, <1>3, <1>4 DEF ToSet
  <1>6. ASSUME NEW i \in 1..(len + 1)
        PROVE  /\ \A j \in 1..(i - 1) : result'[j] # result'[i]
               /\ DepsOf(result'[i]) \subseteq {result'[j] : j \in 1..(i - 1)}
    <2>1. CASE i = len + 1
      BY <2>1, <1>2, <1>3, <1>4 DEF ToSet
    <2>2. CASE i # len + 1
      <3>1. i \in 1..len /\ \A j \in 1..(i - 1) : j \in 1..len
        BY <2>2, <1>4
      <3>2. /\ \A j \in 1..(i - 1) : result[j] # result[i]
            /\ DepsOf(result[i]) \subseteq {result[j] : j \in 1..(i - 1)}
        BY <3>1, <1>2, <1>3 DEF DependenciesBefore
      <3> QED  BY <3>1, <3>2, <1>4
    <2> QED  BY <2>1, <2>2
  <1>7. PICK order : result' = order
    OBVIOUS
  <1>8. DependenciesBefore'
    <2>1. Ordered(order)
      BY <1>4, <1>6, <1>7 DEF Ordered
    <2>2. Ordered(order)'
      BY <2>1, <1>3, SameOrder
    <2>3. Ordered(result)'
      BY <2>2, <1>7
    <2> QED  BY <2>3 DEF Ordered, DependenciesBefore
  <1> QED  BY <1>1, <1>2, <1>4, <1>5, <1>8

LEMMA ReturnKeepsSorting ==
    ASSUME Sorting, Return
    PROVE  Sorting'
  <1>0. PICK done : done = Top.name
    OBVIOUS
  <1>1. /\ configs' = configs /\ next' = next /\ cyclic' = cyclic
        /\ visited' = visited \cup {done} /\ inProgress' = inProgress \ {done}
        /\ done \in Listed /\ ~cyclic /\ configs \in Lists
    BY <1>0, Returning DEF Return, Leave
  <1>2. Listed' = Listed
    BY <1>1, SameList
  <1>3. Marks'
    <2>1. /\ visited \subseteq Listed /\ inProgress \subseteq Listed
          /\ visited \cap inProgress = {} /\ cyclic \in BOOLEAN
          /\ next \in 1..(Len(configs) + 1)
      BY DEF Sorting, Marks
    <2>2. result' \in Seq(Names) /\ ToSet(result)' = visited'
      BY ReturnKeepsOrder
    <2>3. visited' \cap inProgress' = {}
      BY <1>1, <2>1
    <2> QED  BY <1>1, <1>2, <2>1, <2>2, <2>3 DEF Marks
  <1>4. Passed'
    <2>1. visited \cup inProgress \subseteq visited' \cup inProgress'
      BY <1>1
    <2> QED  BY <1>1, <2>1 DEF Passed, Sorting
  <1>5. FailsOnCycle'
    BY <1>1 DEF FailsOnCycle
  <1> QED  BY <1>3, <1>4, <1>5, ReturnKeepsCalls, ReturnKeepsOrder DEF Sorting

-----------------------------------------------------------------------------
(* The theorems.                                                           *)

\* The state in which the sort of a list starts.
Fresh == /\ configs \in Lists /\ next = 1 /\ calls = <<>> /\ visited = {}
         /\ inProgress = {} /\ result = <<>> /\ cyclic = FALSE

LEMMA FreshSorting == Fresh => Sorting
  <1> SUFFICES ASSUME Fresh
               PROVE  Sorting
    OBVIOUS
  <1>1. /\ configs \in Lists /\ next = 1 /\ calls = <<>> /\ visited = {}
        /\ inProgress = {} /\ result = <<>> /\ cyclic = FALSE
    BY DEF Fresh
  <1>2. Len(configs) \in Nat
    BY <1>1, ListFacts
  <1>3. /\ Len(<<>>) = 0 /\ <<>> \in Seq(Names) /\ <<>> \in Seq(CallRecords)
    BY EmptySeq
  <1>4. Marks
    <2>1. ToSet(<<>>) = {}
      BY <1>3 DEF ToSet
    <2>2. next \in 1..(Len(configs) + 1)
      BY <1>1, <1>2
    <2> QED  BY <1>1, <1>3, <2>1, <2>2 DEF Marks
  <1>5. CallsOK
    BY <1>1, <1>3 DEF CallsOK, Frames, Linked, NamesOf
  <1>6. Passed /\ FailsOnCycle
    BY <1>1 DEF Passed, FailsOnCycle
  <1>7. DependenciesBefore
    BY <1>1, <1>3 DEF DependenciesBefore
  <1> QED  BY <1>4, <1>5, <1>6, <1>7 DEF Sorting

LEMMA StartsFresh ==
    /\ Init => Fresh
    /\ Start => Fresh'
  <1>1. Init => Fresh
    BY EmptySeq DEF Init, Fresh, Lists
  <1>2. Start => Fresh'
    BY DEF Start, StartSort, Fresh
  <1> QED  BY <1>1, <1>2

LEMMA SortingStep ==
    ASSUME Sorting, [SortStep]_sortVars
    PROVE  Sorting'
  <1>1. CASE VisitNext
    <2>1. PICK name : name = configs[next].name
      OBVIOUS
    <2>2. PICK stack : stack = <<>>
      OBVIOUS
    <2>3. Ready(name, stack) /\ Visit(name, stack) /\ name \in Listed
      BY <1>1, <2>1, <2>2, FirstVisit DEF VisitNext
    <2>4. /\ ~cyclic /\ next' = next + 1 /\ next \in 1..Len(configs)
          /\ Len(configs) \in Nat
      BY <1>1, ListFacts DEF VisitNext, Ended, Sorting, Marks
    <2>5. next' \in 1..(Len(configs) + 1)
      BY <2>4
    <2> QED  BY <2>1, <2>3, <2>4, <2>5, VisitKeepsSorting
  <1>2. CASE VisitDependency
    <2>1. PICK name : name = TopDeps[Top.dep + 1]
      OBVIOUS
    <2>2. PICK stack : stack = NextDependency
      OBVIOUS
    <2>3. Ready(name, stack) /\ Visit(name, stack) /\ ~cyclic
      BY <1>2, <2>1, <2>2, NextVisit DEF VisitDependency
    <2>4. next' = next /\ next' \in 1..(Len(configs) + 1)
      BY <1>2 DEF VisitDependency, Sorting, Marks
    <2> QED  BY <2>3, <2>4, VisitKeepsSorting
  <1>3. CASE Return
    BY <1>3, ReturnKeepsSorting
  <1>4. CASE UNCHANGED sortVars
    <2>1. /\ configs' = configs /\ next' = next /\ calls' = calls
          /\ visited' = visited /\ inProgress' = inProgress
          /\ result' = result /\ cyclic' = cyclic
      BY <1>4 DEF sortVars
    <2>2. Marks'
      BY <2>1 DEF Sorting, Marks, Listed, ToSet
    <2>3. CallsOK'
      <3>1. PICK stack : stack = calls
        OBVIOUS
      <3>2. Frames(stack)' /\ Linked(stack)'
        BY <3>1, <2>1, KeepsFrames DEF Sorting, CallsOK
      <3>3. Frames(calls)' /\ Linked(calls)'
        BY <3>1, <3>2, <2>1 DEF Frames, Linked
      <3>4. /\ Top' = Top /\ TopDeps' = TopDeps /\ NamesOf(calls)' = NamesOf(calls)
            /\ Listed' = Listed
        BY <2>1 DEF Top, TopDeps, ConfigOf, NamesOf, Listed
      <3> QED  BY <3>3, <3>4, <2>1 DEF Sorting, CallsOK, Done
    <2>4. Passed' /\ FailsOnCycle'
      BY <2>1, SameList DEF Sorting, Passed, FailsOnCycle
    <2>5. DependenciesBefore'
      BY <2>1, OrderStays DEF Sorting
    <2> QED  BY <2>2, <2>3, <2>4, <2>5 DEF Sorting
  <1> QED  BY <1>1, <1>2, <1>3, <1>4 DEF SortStep

LEMMA SortingHolds == SortSpec => []Sorting
  <1>1. Init => Sorting
    BY StartsFresh, FreshSorting
  <1>2. Start => Sorting'
    <2>1. (Fresh => Sorting)'
      BY FreshSorting, PTL
    <2> QED  BY <2>1, StartsFresh
  <1>3. Sorting /\ [Start \/ SortStep]_sortVars => Sorting'
    BY <1>2, SortingStep
  <1> QED  BY <1>1, <1>3, PTL DEF SortSpec

LEMMA SortingTypes == Sorting => TypeOK
  <1> SUFFICES ASSUME Sorting
               PROVE  TypeOK
    OBVIOUS
  <1>1. /\ configs \in Lists /\ Listed \subseteq Names
        /\ \A i \in 1..Len(configs) : configs[i].name \in Names
    BY ListFacts DEF Sorting, Marks
  <1>2. /\ next \in 1..(Len(configs) + 1) /\ inProgress \in SUBSET Names
        /\ visited \in SUBSET Names /\ result \in Seq(Names)
        /\ ToSet(result) = visited /\ cyclic \in BOOLEAN
    BY <1>1 DEF Sorting, Marks
  <1>3. /\ calls \in Seq([name : Names, dep : Nat]) /\ Len(calls) \in Nat
        /\ \A i, j \in 1..Len(calls) : calls[i].name = calls[j].name => i = j
    BY LenProperties DEF Sorting, CallsOK, Frames, CallRecords
  <1>4. \A i \in 1..Len(calls) : \A j \in 1..(i - 1) : calls[j].name # calls[i].name
    BY <1>3
  <1>5. ~cyclic => inProgress = {calls[i].name : i \in 1..Len(calls)}
    BY DEF Sorting, CallsOK, NamesOf
  <1> QED  BY <1>1, <1>2, <1>3, <1>4, <1>5 DEF TypeOK

\* The variables keep to their types, the marks agree with the calls under
\* way, and no chart is visited inside its own visit, whatever depends on
\* what (visit in sortChartConfigsByDependencies).
THEOREM TypeCorrect == SortSpec => []TypeOK
  BY SortingHolds, SortingTypes, PTL

\* At every step of the sort of any list what was emitted has each chart once
\* and after all its dependencies that are in the list (result of visit).
THEOREM DependenciesComeFirst == SortSpec => []DependenciesBefore
  <1>1. Sorting => DependenciesBefore
    BY DEF Sorting
  <1> QED  BY <1>1, SortingHolds, PTL

LEMMA NothingLost ==
    ASSUME Sorting, Ended, ~cyclic
    PROVE  visited = Listed
  <1>1. /\ calls = <<>> /\ next > Len(configs) /\ next \in 1..(Len(configs) + 1)
        /\ Len(configs) \in Nat /\ visited \subseteq Listed
    BY ListFacts DEF Ended, Sorting, Marks
  <1>2. inProgress = {}
    <2>1. Len(<<>>) = 0
      BY EmptySeq
    <2> QED  BY <1>1, <2>1 DEF Sorting, CallsOK, NamesOf
  <1>3. \A i \in 1..Len(configs) : configs[i].name \in visited
    BY <1>1, <1>2 DEF Sorting, Passed
  <1> QED  BY <1>1, <1>3 DEF Listed

\* The first of a set of names in an order depends on none of the others.
LEMMA NoCycleInOrder ==
    ASSUME Sorting, visited = Listed
    PROVE  ~HasCycle
  <1> SUFFICES ASSUME NEW S \in (SUBSET Listed) \ {{}},
                      \A name \in S : DepsOf(name) \cap S # {}
               PROVE  FALSE
    BY DEF HasCycle
  <1> DEFINE T == {i \in 1..Len(result) : result[i] \in S}
  <1>1. /\ ToSet(result) = Listed /\ Len(result) \in Nat /\ DependenciesBefore
    BY LenProperties DEF Sorting, Marks
  <1>2. T # {} /\ T \in SUBSET Nat
    BY <1>1 DEF ToSet
  <1>3. PICK i \in T : \A j \in T : i <= j
    BY <1>2, Least
  <1>4. PICK d \in S : d \in DepsOf(result[i])
    BY <1>3
  <1>5. PICK j \in 1..(i - 1) : result[j] = d
    BY <1>1, <1>3, <1>4 DEF DependenciesBefore
  <1>6. j \in T
    BY <1>1, <1>3, <1>4, <1>5
  <1> QED  BY <1>3, <1>5, <1>6

\* The sort of any list ends with an error exactly when some charts depend on
\* one another in a circle, and otherwise loses none (visit's errors).
THEOREM CyclesAreDetected == SortSpec => []CyclesDetected
  <1>1. ASSUME Sorting
        PROVE  CyclesDetected
    <2>1. cyclic => HasCycle
      BY <1>1 DEF Sorting, FailsOnCycle
    <2>2. ASSUME Ended, ~cyclic
          PROVE  ~HasCycle /\ ToSet(result) = Listed
      BY <1>1, <2>2, NothingLost, NoCycleInOrder DEF Sorting, Marks
    <2> QED  BY <2>1, <2>2 DEF CyclesDetected
  <1> QED  BY <1>1, SortingHolds, PTL

-----------------------------------------------------------------------------
(* A leading part of the list that depends on nothing behind it.           *)

Core(n) == {configs[i].name : i \in 1..n}

\* Until the loop has passed the part nothing else is visited; afterwards all
\* of it is done.
LeadingMarks(n) == \/ next <= n + 1 /\ visited \cup inProgress \subseteq Core(n)
                   \/ Core(n) \subseteq visited

LeadingResult(n) == \A i, j \in 1..Len(result) :
                       i < j /\ result[j] \in Core(n) => result[i] \in Core(n)

Leading == ~cyclic => \A n \in 1..Len(configs) :
                         ClosedPrefix(n) => LeadingMarks(n) /\ LeadingResult(n)

LEMMA SameCore ==
    ASSUME configs' = configs
    PROVE  \A n : Core(n)' = Core(n)
  BY DEF Core

LEMMA LeadingStep ==
    ASSUME Sorting, Leading, [SortStep]_sortVars
    PROVE  Leading'
  <1>0. /\ configs' = configs /\ configs \in Lists
    BY DEF SortStep, VisitNext, VisitDependency, Visit, Return, sortVars, Sorting, Marks
  <1> SUFFICES ASSUME ~cyclic', NEW n \in 1..Len(configs), ClosedPrefix(n)
               PROVE  LeadingMarks(n)' /\ LeadingResult(n)'
    BY <1>0, SameList DEF Leading
  <1>1. ~cyclic /\ Len(configs) \in Nat /\ n \in Nat /\ next \in Nat
    <2>1. Len(configs) \in Nat /\ next \in 1..(Len(configs) + 1)
      BY ListFacts DEF Sorting, Marks
    <2>2. ~cyclic
      BY DEF SortStep, VisitNext, VisitDependency, Visit, Return, sortVars, Ended
    <2> QED  BY <2>1, <2>2
  <1>2. LeadingMarks(n) /\ LeadingResult(n) /\ Core(n)' = Core(n)
    BY <1>0, <1>1, SameCore DEF Leading
  <1>3. CASE VisitNext
    <2>1. PICK name : name = configs[next].name
      OBVIOUS
    <2>2. /\ visited' = visited /\ result' = result /\ next' = next + 1
          /\ inProgress' \subseteq inProgress \cup {name} /\ calls = <<>>
      BY <1>3, <2>1 DEF VisitNext, Visit
    <2>3. LeadingMarks(n)'
      <3>1. CASE next <= n
        <4>1. name \in Core(n)
          BY <3>1, <2>1, <1>1 DEF Core, Sorting, Marks
        <4> QED  BY <4>1, <3>1, <2>2, <1>1, <1>2 DEF LeadingMarks
      <3>2. CASE next > n
        <4>1. inProgress = {}
          BY <2>2, <1>1, EmptySeq DEF Sorting, CallsOK, NamesOf
        <4>2. \A i \in 1..n : configs[i].name \in visited
          BY <4>1, <3>2, <1>1 DEF Sorting, Passed
        <4>3. Core(n) \subseteq visited
          BY <4>2 DEF Core
        <4> QED  BY <4>3, <2>2, <1>2 DEF LeadingMarks
      <3> QED  BY <3>1, <3>2, <1>1
    <2> QED  BY <2>2, <2>3, <1>2 DEF LeadingResult
  <1>4. CASE VisitDependency
    <2>1. PICK name : name = TopDeps[Top.dep + 1]
      OBVIOUS
    <2>2. /\ visited' = visited /\ result' = result /\ next' = next
          /\ inProgress' \subseteq inProgress \cup (Listed \cap {name})
      BY <1>4, <2>1 DEF VisitDependency, Visit
    <2>3. Top.name \in inProgress /\ (name \in Listed => name \in DepsOf(Top.name))
      <3>1. /\ calls # <<>> /\ Top.dep < Len(TopDeps) /\ Frames(calls)
            /\ inProgress = NamesOf(calls)
        BY <1>1, <1>4 DEF VisitDependency, Sorting, CallsOK
      <3>2. /\ calls \in Seq(CallRecords) /\ Len(calls) \in Nat \ {0}
            /\ Top = calls[Len(calls)] /\ Top.dep \in Nat
        BY <3>1, TopIsLast DEF Frames
      <3>3. Top.name \in Listed /\ Top.name \in inProgress
        BY <3>1, <3>2 DEF Frames, NamesOf
      <3>4. TopDeps = Deps(Top.name) /\ Len(TopDeps) \in Nat
        BY <3>3, <1>0, LastConfig, LenProperties DEF TopDeps, Deps
      <3> QED  BY <3>1, <3>2, <3>3, <3>4, <2>1, <1>0, DependencyOf
    <2>4. Top.name \in Core(n) /\ name \in Listed => name \in Core(n)
      BY <2>3 DEF ClosedPrefix, Core
    <2>5. LeadingMarks(n)'
      BY <2>2, <2>3, <2>4, <1>2 DEF LeadingMarks
    <2> QED  BY <2>2, <2>5, <1>2 DEF LeadingResult
  <1>5. CASE Return
    <2>1. PICK done : done = Top.name
      OBVIOUS
    <2>2. PICK len : len = Len(result)
      OBVIOUS
    <2>3. /\ visited' = visited \cup {done} /\ inProgress' = inProgress \ {done}
          /\ next' = next /\ done \in inProgress /\ done \notin visited
          /\ \A i \in 1..len : result[i] \in visited
      BY <1>5, <2>1, <2>2, Returning DEF Return, Leave, Sorting, Marks, ToSet
    <2>4. /\ len \in Nat /\ Len(result') = len + 1 /\ result'[len + 1] = done
          /\ \A i \in 1..len : result'[i] = result[i]
      BY <1>5, <2>1, <2>2, ReturnKeepsOrder
    <2>5. LeadingMarks(n)'
      BY <2>3, <1>2 DEF LeadingMarks
    <2>6. ASSUME NEW i \in 1..(len + 1), NEW j \in 1..(len + 1), i < j,
                 result'[j] \in Core(n)
          PROVE  result'[i] \in Core(n)
      <3>0. i \in 1..len /\ result'[i] = result[i]
        BY <2>4, <2>6
      <3>1. CASE j = len + 1
        BY <3>0, <3>1, <2>3, <2>4, <2>6, <1>2 DEF LeadingMarks
      <3>2. CASE j # len + 1
        BY <3>0, <3>2, <2>2, <2>4, <2>6, <1>2 DEF LeadingResult
      <3> QED  BY <3>1, <3>2
    <2>7. LeadingResult(n)'
      BY <2>4, <2>6, <1>2 DEF LeadingResult
    <2> QED  BY <2>5, <2>7
  <1>6. CASE UNCHANGED sortVars
    BY <1>6, <1>2 DEF sortVars, LeadingMarks, LeadingResult
  <1> QED  BY <1>3, <1>4, <1>5, <1>6 DEF SortStep

LEMMA FreshLeading == Fresh => Leading
  <1> SUFFICES ASSUME Fresh, NEW n \in 1..Len(configs)
               PROVE  LeadingMarks(n) /\ LeadingResult(n)
    BY DEF Leading
  <1>1. /\ configs \in Lists /\ next = 1 /\ visited = {} /\ inProgress = {}
        /\ result = <<>>
    BY DEF Fresh
  <1>2. Len(configs) \in Nat /\ Len(<<>>) = 0
    BY <1>1, ListFacts, EmptySeq
  <1> QED  BY <1>1, <1>2 DEF LeadingMarks, LeadingResult

LEMMA LeadingHolds == SortSpec => []Leading
  <1>1. Init => Leading
    BY StartsFresh, FreshLeading
  <1>2. Start => Leading'
    <2>1. (Fresh => Leading)'
      BY FreshLeading, PTL
    <2> QED  BY <2>1, StartsFresh
  <1>3. Sorting /\ Leading /\ [Start \/ SortStep]_sortVars => Leading'
    BY <1>2, LeadingStep
  <1> QED  BY <1>1, <1>3, SortingHolds, PTL DEF SortSpec

\* Numbers from 1 on without a gap are an interval.
LEMMA InitialSegment ==
    ASSUME NEW len \in Nat, NEW K \in SUBSET (1..len),
           \A i, j \in 1..len : i < j /\ j \in K => i \in K
    PROVE  \E m \in Nat : K = 1..m /\ m <= len
  <1> DEFINE T == {i \in Nat : i > 0 /\ i \notin K}
  <1>1. len + 1 \in T /\ T \in SUBSET Nat
    OBVIOUS
  <1>2. PICK k \in T : \A i \in T : k <= i
    BY <1>1, Least
  <1>3. k \in Nat /\ k > 0 /\ k <= len + 1 /\ k \notin K
    BY <1>1, <1>2
  <1>4. \A i \in 1..(k - 1) : i \in K
    <2> SUFFICES ASSUME NEW i \in 1..(k - 1), i \notin K
                 PROVE  FALSE
      OBVIOUS
    <2>1. i \in T
      BY <1>3
    <2>2. k <= i
      BY <2>1, <1>2
    <2> QED  BY <2>2, <1>3
  <1>5. \A j \in K : j <= k - 1
    BY <1>3
  <1>6. K = 1..(k - 1) /\ k - 1 \in Nat /\ k - 1 <= len
    <2>1. \A j \in K : j \in 1..(k - 1)
      BY <1>3, <1>5
    <2>2. K = 1..(k - 1)
      BY <2>1, <1>4
    <2> QED  BY <2>2, <1>3
  <1> QED  BY <1>6

LEMMA CoreIsFirst ==
    ASSUME Sorting, Leading, Ended, ~cyclic, NEW n \in 1..Len(configs),
           ClosedPrefix(n)
    PROVE  {result[i] : i \in 1..Cardinality(Core(n))} = Core(n)
  <1> DEFINE len == Len(result)
             K == {i \in 1..len : result[i] \in Core(n)}
  <1>1. /\ len \in Nat /\ ToSet(result) = Listed /\ DependenciesBefore
        /\ Len(configs) \in Nat
    BY NothingLost, LenProperties, ListFacts DEF Sorting, Marks
  <1>2. Core(n) \subseteq Listed
    BY <1>1 DEF Core, Listed
  <1>3. LeadingResult(n)
    BY DEF Leading
  <1>4. PICK m \in Nat : K = 1..m /\ m <= len
    BY <1>1, <1>3, InitialSegment DEF LeadingResult
  <1>5. \A i, j \in 1..len : result[i] = result[j] => i = j
    BY <1>1 DEF DependenciesBefore
  <1>6. ExistsBijection(1..m, Core(n))
    <2> DEFINE f == [i \in 1..m |-> result[i]]
    <2>1. f \in [1..m -> Core(n)]
      BY <1>4
    <2>2. \A i, j \in 1..m : f[i] = f[j] => i = j
      BY <1>1, <1>4, <1>5
    <2>3. \A x \in Core(n) : \E i \in 1..m : f[i] = x
      BY <1>1, <1>2, <1>4 DEF ToSet
    <2> HIDE DEF f
    <2> QED  BY <2>1, <2>2, <2>3
             DEF ExistsBijection, Bijection, Injection, Surjection, IsInjective
  <1>7. Cardinality(Core(n)) = m
    BY <1>6, FS_CountingElements
  <1> QED  BY <1>1, <1>2, <1>4, <1>7 DEF ToSet

\* However the list is made up, the charts of a leading part of it that
\* depends on nothing behind it come first in the result: those of the core
\* manifest before those of the solution (docs/workflow.md:64).
THEOREM CoreComesFirst == SortSpec => []CoreFirst
  <1>1. ASSUME Sorting, Leading
        PROVE  CoreFirst
    BY <1>1, CoreIsFirst DEF CoreFirst, Core
  <1> QED  BY <1>1, SortingHolds, LeadingHolds, PTL
=============================================================================
