------------------------ MODULE UpgradeConfigProofs ------------------------
(***************************************************************************)
(* Proofs about HelmValues and UpgradeConfig: what the merge of values has *)
(* made of any number of sources (Between, Merging), which charts the      *)
(* lists of the two Helm phases have (OnlyKeeps, LCMList, PipelineList),   *)
(* and what the phases have gone through (Went, Phases).  ConfigInv holds  *)
(* of every release, and the sorts and the merge in it are those of        *)
(* ChartOrder and HelmValues.                                              *)
(***************************************************************************)
EXTENDS UpgradeConfig, ChartOrderProofs

-----------------------------------------------------------------------------
(* Paths.                                                                  *)

LEMMA PathLen ==
    ASSUME NEW q \in Paths
    PROVE  /\ q \in Seq(Keys) /\ Len(q) \in Nat \ {0}
           /\ \A i \in 1..Len(q) : q[i] \in Keys
  BY EmptySeq, ElementOfSeq DEF Paths

LEMMA WithinItself ==
    ASSUME NEW q \in Paths
    PROVE  Within(q, q)
  BY PathLen DEF Within

LEMMA WithinTransitive ==
    ASSUME NEW p \in Paths, NEW q \in Paths, NEW r \in Paths,
           Within(p, q), Within(q, r)
    PROVE  Within(p, r)
  BY PathLen DEF Within

\* Of two paths above a third one is above the other.
LEMMA WithinLinear ==
    ASSUME NEW p \in Paths, NEW q \in Paths, NEW r \in Paths,
           Within(p, r), Within(q, r), Len(p) <= Len(q)
    PROVE  Within(p, q)
  <1>1. Len(p) \in Nat /\ Len(q) \in Nat /\ Len(r) \in Nat
    BY PathLen
  <1> QED  BY <1>1 DEF Within

LEMMA SamePath ==
    ASSUME NEW p \in Paths, NEW q \in Paths, Within(p, q), Len(p) = Len(q)
    PROVE  p = q
  BY PathLen, SeqEqual DEF Within

LEMMA CutPath ==
    ASSUME NEW q \in Paths, NEW n \in 1..Len(q)
    PROVE  /\ SubSeq(q, 1, n) \in Paths /\ Len(SubSeq(q, 1, n)) = n
           /\ Within(SubSeq(q, 1, n), q)
  <1>1. /\ q \in Seq(Keys) /\ Len(q) \in Nat \ {0} /\ n \in Int /\ 1 <= n
        /\ \A i \in 1..n : q[i] \in Keys
    BY PathLen
  <1>2. /\ SubSeq(q, 1, n) \in Seq(Keys) /\ Len(SubSeq(q, 1, n)) = n - 1 + 1
        /\ \A i \in 1..(n - 1 + 1) : SubSeq(q, 1, n)[i] = q[1 + i - 1]
    BY <1>1, SubSeqProperties
  <1>3. /\ Len(SubSeq(q, 1, n)) = n
        /\ \A i \in 1..n : SubSeq(q, 1, n)[i] = q[i]
    BY <1>1, <1>2
  <1>4. SubSeq(q, 1, n) # <<>>
    BY <1>1, <1>3, EmptySeq
  <1> QED  BY <1>1, <1>2, <1>3, <1>4 DEF Within, Paths

\* A path above another is what is cut off it.
LEMMA AbovePath ==
    ASSUME NEW p \in Paths, NEW q \in Paths, Within(p, q)
    PROVE  /\ Len(p) \in 1..Len(q) /\ p = SubSeq(q, 1, Len(p))
           /\ p # q => Len(p) \in 1..(Len(q) - 1)
  <1>1. Len(p) \in 1..Len(q)
    BY PathLen DEF Within
  <1> DEFINE c == SubSeq(q, 1, Len(p))
  <1>2. c \in Paths /\ Len(c) = Len(p) /\ Within(c, q)
    BY <1>1, CutPath
  <1> HIDE DEF c
  <1>3. p = c
    <2>1. Len(p) <= Len(c)
      BY <1>2, PathLen
    <2>2. Within(p, c)
      BY <1>2, <2>1, WithinLinear
    <2> QED  BY <1>2, <2>2, SamePath
  <1>4. p # q => Len(p) # Len(q)
    BY SamePath
  <1>5. Len(q) \in Nat
    BY PathLen
  <1> QED  BY <1>1, <1>3, <1>4, <1>5 DEF c

LEMMA AboveIsMap ==
    ASSUME NEW v, IsValues(v), NEW q \in DOMAIN v, NEW p \in Paths,
           Within(p, q), p # q
    PROVE  p \in DOMAIN v /\ v[p] = "map"
  <1>1. q \in Paths
    BY DEF IsValues
  <1>2. Len(p) \in 1..(Len(q) - 1) /\ p = SubSeq(q, 1, Len(p))
    BY <1>1, AbovePath
  <1>3. \A n \in 1..(Len(q) - 1) : /\ SubSeq(q, 1, n) \in DOMAIN v
                                   /\ v[SubSeq(q, 1, n)] = "map"
    BY DEF IsValues
  <1> QED  BY <1>2, <1>3

\* On the way from p down to a node of the document is a node just inside of p.
LEMMA JustInside ==
    ASSUME NEW v, IsValues(v), NEW q \in DOMAIN v, NEW p \in Paths,
           Within(p, q), p # q
    PROVE  \E r \in DOMAIN v : /\ Within(p, r) /\ Len(r) = Len(p) + 1
                               /\ Within(r, q)
  <1>1. /\ q \in Paths /\ Len(q) \in Nat /\ Len(p) \in 1..(Len(q) - 1)
        /\ Len(p) + 1 \in 1..Len(q)
    <2>1. q \in Paths
      BY DEF IsValues
    <2>2. Len(q) \in Nat /\ Len(p) \in 1..(Len(q) - 1)
      BY <2>1, AbovePath, PathLen
    <2> QED  BY <2>1, <2>2
  <1> DEFINE r == SubSeq(q, 1, Len(p) + 1)
  <1>2. r \in Paths /\ Len(r) = Len(p) + 1 /\ Within(r, q)
    BY <1>1, CutPath
  <1> HIDE DEF r
  <1>3. Within(p, r)
    <2>1. Len(p) <= Len(r)
      BY <1>1, <1>2
    <2> QED  BY <1>1, <1>2, <2>1, WithinLinear
  <1>4. r \in DOMAIN v
    <2>1. CASE r = q
      BY <2>1
    <2>2. CASE r # q
      BY <2>2, <1>2, AboveIsMap
    <2> QED  BY <2>1, <2>2
  <1> QED  BY <1>2, <1>3, <1>4

\* Every node is inside of one at a top-level key.
LEMMA TopKey ==
    ASSUME NEW v, IsValues(v), NEW q \in DOMAIN v
    PROVE  \E r \in DOMAIN v : Len(r) = 1 /\ Within(r, q)
  <1>1. q \in Paths /\ Len(q) \in Nat \ {0} /\ 1 \in 1..Len(q)
    BY PathLen DEF IsValues
  <1> DEFINE r == SubSeq(q, 1, 1)
  <1>2. r \in Paths /\ Len(r) = 1 /\ Within(r, q)
    BY <1>1, CutPath
  <1> HIDE DEF r
  <1>3. r \in DOMAIN v
    BY <1>2, AboveIsMap
  <1> QED  BY <1>2, <1>3

-----------------------------------------------------------------------------
(* One merge: of m2 into m1, of which t is still to come and o is there.   *)

\* v has a scalar at q or above it.
CutOff(v, q) == \E p \in DOMAIN v : v[p] # "map" /\ Within(p, q)

Stays(q, m1, m2) == q \in DOMAIN m1 /\ q \notin DOMAIN m2 /\ ~CutOff(m2, q)

AsBefore(q, m1, o) == /\ q \in DOMAIN o <=> q \in DOMAIN m1
                      /\ q \in DOMAIN m1 => o[q] = m1[q]

AsMerged(q, m1, m2, o) ==
    /\ q \in DOMAIN o <=> q \in DOMAIN m2 \/ Stays(q, m1, m2)
    /\ q \in DOMAIN m2 => o[q] = m2[q]
    /\ Stays(q, m1, m2) => o[q] = m1[q]

Pending(q, t) == \E p \in t : Within(p, q)

\* Inside of the keys still to come nothing has changed, elsewhere all is done.
Between(m1, m2, o, t) ==
    /\ IsValues(m1) /\ IsValues(m2) /\ DOMAIN o \subseteq Paths
    /\ t \subseteq DOMAIN m2
    /\ \A p, r \in t : Within(p, r) => p = r
    /\ \A q \in Paths : /\ Pending(q, t) => AsBefore(q, m1, o)
                        /\ ~Pending(q, t) => AsMerged(q, m1, m2, o)

LEMMA MergeBegins ==
    ASSUME NEW m1, NEW m2, IsValues(m1), IsValues(m2)
    PROVE  Between(m1, m2, m1, {q \in DOMAIN m2 : Len(q) = 1})
  <1> DEFINE t == {q \in DOMAIN m2 : Len(q) = 1}
  <1>1. t \subseteq DOMAIN m2 /\ DOMAIN m1 \subseteq Paths /\ DOMAIN m2 \subseteq Paths
    BY DEF IsValues
  <1>2. \A p, r \in t : Within(p, r) => p = r
    BY <1>1, SamePath
  <1>3. ASSUME NEW q \in Paths, ~Pending(q, t)
        PROVE  q \notin DOMAIN m2 /\ ~CutOff(m2, q)
    <2>1. ASSUME NEW p \in DOMAIN m2, Within(p, q)
          PROVE  FALSE
      <3>1. PICK r \in DOMAIN m2 : Len(r) = 1 /\ Within(r, p)
        BY TopKey
      <3>2. r \in t /\ Within(r, q)
        BY <1>1, <2>1, <3>1, WithinTransitive
      <3> HIDE DEF t
      <3> QED  BY <3>2, <1>3 DEF Pending
    <2> QED  BY <2>1, WithinItself DEF CutOff
  <1> HIDE DEF t
  <1>4. \A q \in Paths : ~Pending(q, t) => AsMerged(q, m1, m2, m1)
    BY <1>3 DEF AsMerged, Stays
  <1>5. \A q \in Paths : AsBefore(q, m1, m1)
    BY DEF AsBefore
  <1>6. Between(m1, m2, m1, t)
    BY <1>1, <1>2, <1>4, <1>5 DEF Between
  <1> QED  BY <1>6 DEF t

LEMMA MergeGoesInside ==
    ASSUME NEW m1, NEW m2, NEW o, NEW t, Between(m1, m2, o, t), NEW p \in t,
           m2[p] = "map", p \in DOMAIN o, o[p] = "map",
           NEW new, new = {q \in DOMAIN m2 : Within(p, q) /\ Len(q) = Len(p) + 1}
    PROVE  Between(m1, m2, o, (t \ {p}) \cup new)
  <1> DEFINE t2 == (t \ {p}) \cup new
  <1>1. /\ IsValues(m1) /\ IsValues(m2) /\ DOMAIN o \subseteq Paths
        /\ t \subseteq DOMAIN m2 /\ p \in DOMAIN m2 /\ p \in Paths
        /\ DOMAIN m2 \subseteq Paths /\ Len(p) \in Nat
    BY PathLen DEF Between, IsValues
  <1>2. t2 \subseteq DOMAIN m2
    BY <1>1
  <1>3. ASSUME NEW a \in t2, NEW b \in t2, Within(a, b)
        PROVE  a = b
    <2>0. a \in Paths /\ b \in Paths /\ Len(a) \in Nat /\ Len(b) \in Nat
      BY <1>1, <1>2, PathLen
    <2>1. CASE a \in t \ {p} /\ b \in t \ {p}
      BY <1>3, <2>1 DEF Between
    <2>2. CASE a \in new /\ b \in new
      BY <1>3, <2>0, <2>2, SamePath
    <2>3. CASE a \in new /\ b \in t \ {p}
      <3>1. Within(p, b)
        BY <1>1, <1>3, <2>0, <2>3, WithinTransitive
      <3> QED  BY <3>1, <2>3 DEF Between
    <2>4. CASE a \in t \ {p} /\ b \in new
      <3>1. Within(p, b) /\ Len(b) = Len(p) + 1 /\ Len(a) <= Len(b) /\ a # p
        BY <1>3, <2>4 DEF Within
      <3>2. CASE Len(a) <= Len(p)
        BY <3>1, <3>2, <1>1, <1>3, <2>0, <2>4, WithinLinear DEF Between
      <3>3. CASE Len(a) = Len(b)
        BY <3>3, <1>3, <2>0, SamePath
      <3> QED  BY <3>1, <3>2, <3>3, <1>1, <2>0
    <2> QED  BY <2>1, <2>2, <2>3, <2>4
  <1>4. ASSUME NEW q \in Paths, Pending(q, t2)
        PROVE  AsBefore(q, m1, o)
    <2>1. PICK a \in t2 : Within(a, q)
      BY <1>4 DEF Pending
    <2>2. Pending(q, t)
      <3>1. CASE a \in new
        <4>1. Within(p, q)
          BY <1>1, <2>1, <3>1, WithinTransitive
        <4> QED  BY <4>1 DEF Pending
      <3>2. CASE a \in t \ {p}
        BY <3>2, <2>1 DEF Pending
      <3> QED  BY <3>1, <3>2
    <2> QED  BY <2>2 DEF Between
  <1>5. ASSUME NEW q \in Paths, ~Pending(q, t2)
        PROVE  AsMerged(q, m1, m2, o)
    <2>1. CASE ~Pending(q, t)
      BY <2>1 DEF Between
    <2>2. CASE Pending(q, t)
      <3>1. PICK a \in t : Within(a, q)
        BY <2>2 DEF Pending
      <3>2. a = p /\ Within(p, q)
        BY <3>1, <1>5 DEF Pending
      <3>3. AsBefore(q, m1, o)
        BY <2>2 DEF Between
      <3>4. CASE q = p
        <4>1. ~Stays(q, m1, m2)
          BY <3>4, <1>1 DEF Stays
        <4> QED  BY <3>4, <4>1, <1>1 DEF AsMerged
      <3>5. CASE q # p
        <4>1. ASSUME NEW b \in DOMAIN m2, Within(b, q), m2[b] # "map" \/ b = q
              PROVE  FALSE
          <5>0. b \in Paths /\ Len(b) \in Nat
            BY <1>1, PathLen
          <5>1. CASE Len(b) <= Len(p)
            <6>1. Within(b, p)
              BY <5>0, <5>1, <4>1, <3>2, <1>1, WithinLinear
            <6>2. m2[b] = "map"
              BY <6>1, <5>0, <1>1, AboveIsMap
            <6>3. b = q
              BY <6>2, <4>1
            <6>4. Len(q) = Len(p)
              BY <6>3, <5>1, <3>2, <5>0, <1>1 DEF Within
            <6> QED  BY <6>4, <3>2, <3>5, <1>1, SamePath
          <5>2. CASE Len(p) < Len(b)
            <6>1. Within(p, b) /\ p # b
              BY <5>0, <5>2, <4>1, <3>2, <1>1, WithinLinear
            <6>2. PICK r \in DOMAIN m2 : /\ Within(p, r) /\ Len(r) = Len(p) + 1
                                         /\ Within(r, b)
              BY <6>1, <1>1, JustInside
            <6>3. r \in t2 /\ Within(r, q)
              BY <6>2, <5>0, <4>1, <1>1, WithinTransitive
            <6> HIDE DEF t2
            <6> QED  BY <6>3, <1>5 DEF Pending
          <5> QED  BY <5>0, <5>1, <5>2, <1>1
        <4>2. q \notin DOMAIN m2 /\ ~CutOff(m2, q)
          BY <4>1, WithinItself DEF CutOff
        <4> QED  BY <4>2, <3>3 DEF AsBefore, AsMerged, Stays
      <3> QED  BY <3>4, <3>5
    <2> QED  BY <2>1, <2>2
  <1> HIDE DEF t2
  <1>6. Between(m1, m2, o, t2)
    BY <1>1, <1>2, <1>3, <1>4, <1>5 DEF Between
  <1> QED  BY <1>6 DEF t2

\* o2 is o with all inside of p taken from m2.
Overridden(m2, o, p, o2) ==
    LET kept == {q \in DOMAIN o : ~Within(p, q)}
        new  == {q \in DOMAIN m2 : Within(p, q)}
    IN /\ ~(m2[p] = "map" /\ p \in DOMAIN o /\ o[p] = "map")
       /\ DOMAIN o2 = kept \cup new
       /\ \A q \in new : o2[q] = m2[q]
       /\ \A q \in kept : o2[q] = o[q]

LEMMA MergeOverrides ==
    ASSUME NEW m1, NEW m2, NEW o, NEW t, Between(m1, m2, o, t), NEW p \in t,
           NEW o2, Overridden(m2, o, p, o2)
    PROVE  Between(m1, m2, o2, t \ {p})
  <1> DEFINE kept == {q \in DOMAIN o : ~Within(p, q)}
             new == {q \in DOMAIN m2 : Within(p, q)}
  <1>0. ~(m2[p] = "map" /\ p \in DOMAIN o /\ o[p] = "map")
    BY DEF Overridden
  <1>1. /\ IsValues(m1) /\ IsValues(m2) /\ DOMAIN o \subseteq Paths
        /\ t \subseteq DOMAIN m2 /\ p \in DOMAIN m2 /\ p \in Paths
        /\ DOMAIN m1 \subseteq Paths /\ DOMAIN m2 \subseteq Paths
    BY DEF Between, IsValues
  <1>2. /\ DOMAIN o2 = kept \cup new /\ DOMAIN o2 \subseteq Paths
        /\ \A q \in new : o2[q] = m2[q]
        /\ \A q \in kept : o2[q] = o[q]
    BY <1>1 DEF Overridden
  <1>3. \A a, b \in t \ {p} : Within(a, b) => a = b
    BY DEF Between
  <1>4. ASSUME NEW q \in Paths, Within(p, q)
        PROVE  AsMerged(q, m1, m2, o2) /\ ~Pending(q, t \ {p})
    <2>1. ~Pending(q, t \ {p})
      <3> SUFFICES ASSUME NEW a \in t \ {p}, Within(a, q)
                   PROVE  FALSE
        BY DEF Pending
      <3>0. a \in Paths /\ Len(a) \in Nat /\ Len(p) \in Nat
        BY <1>1, PathLen
      <3>1. CASE Len(a) <= Len(p)
        <4>1. Within(a, p)
          BY <3>0, <3>1, <1>1, <1>4, WithinLinear
        <4> QED  BY <4>1 DEF Between
      <3>2. CASE Len(p) <= Len(a)
        <4>1. Within(p, a)
          BY <3>0, <3>2, <1>1, <1>4, WithinLinear
        <4> QED  BY <4>1 DEF Between
      <3> QED  BY <3>0, <3>1, <3>2
    <2>2. q \in DOMAIN o2 <=> q \in DOMAIN m2
      BY <1>2, <1>4
    <2>3. q \in DOMAIN m2 => o2[q] = m2[q]
      BY <1>2, <1>4
    <2>4. ~Stays(q, m1, m2)
      <3> SUFFICES ASSUME q \in DOMAIN m1, q \notin DOMAIN m2, ~CutOff(m2, q)
                   PROVE  FALSE
        BY DEF Stays
      <3>1. m2[p] = "map" /\ p # q
        BY <1>1, <1>4 DEF CutOff
      <3>2. p \in DOMAIN m1 /\ m1[p] = "map"
        BY <3>1, <1>1, <1>4, AboveIsMap
      <3>3. AsBefore(p, m1, o)
        BY <1>1, WithinItself DEF Between, Pending
      <3> QED  BY <3>1, <3>2, <3>3, <1>0 DEF AsBefore
    <2> QED  BY <2>1, <2>2, <2>3, <2>4 DEF AsMerged
  <1>5. ASSUME NEW q \in Paths, ~Within(p, q)
        PROVE  /\ Pending(q, t \ {p}) <=> Pending(q, t)
               /\ q \in DOMAIN o2 <=> q \in DOMAIN o
               /\ q \in DOMAIN o => o2[q] = o[q]
    BY <1>2, <1>5 DEF Pending
  <1>6. ASSUME NEW q \in Paths
        PROVE  /\ Pending(q, t \ {p}) => AsBefore(q, m1, o2)
               /\ ~Pending(q, t \ {p}) => AsMerged(q, m1, m2, o2)
    <2>1. CASE Within(p, q)
      BY <2>1, <1>4
    <2>2. CASE ~Within(p, q)
      <3>1. Pending(q, t) => AsBefore(q, m1, o2)
        BY <2>2, <1>5 DEF Between, AsBefore
      <3>2. ~Pending(q, t) => AsMerged(q, m1, m2, o2)
        BY <2>2, <1>5 DEF Between, AsMerged
      <3> QED  BY <3>1, <3>2, <2>2, <1>5
    <2> QED  BY <2>1, <2>2
  <1> QED  BY <1>1, <1>2, <1>3, <1>6 DEF Between

LEMMA MergeEnds ==
    ASSUME NEW m1, NEW m2, NEW o, Between(m1, m2, o, {})
    PROVE  IsValues(o) /\ \A q \in Paths : AsMerged(q, m1, m2, o)
  <1>1. /\ IsValues(m1) /\ IsValues(m2) /\ DOMAIN o \subseteq Paths
        /\ \A q \in Paths : AsMerged(q, m1, m2, o)
    BY DEF Between, Pending
  <1>2. ASSUME NEW q \in DOMAIN o, NEW n \in 1..(Len(q) - 1)
        PROVE  LET above == SubSeq(q, 1, n)
               IN above \in DOMAIN o /\ o[above] = "map"
    <2> DEFINE above == SubSeq(q, 1, n)
    <2>1. q \in Paths /\ Len(q) \in Nat /\ n \in 1..Len(q)
      BY <1>1, PathLen
    <2>2. above \in Paths /\ Len(above) = n /\ Within(above, q)
      BY <2>1, CutPath
    <2> HIDE DEF above
    <2>3. above # q
      BY <2>1, <2>2
    <2>4. CASE q \in DOMAIN m2
      <3>1. above \in DOMAIN m2 /\ m2[above] = "map"
        BY <2>2, <2>3, <2>4, <1>1, AboveIsMap
      <3> QED  BY <3>1, <2>2, <1>1 DEF AsMerged, above
    <2>5. CASE q \notin DOMAIN m2
      <3>1. Stays(q, m1, m2)
        BY <2>1, <2>5, <1>1 DEF AsMerged
      <3>2. above \in DOMAIN m1 /\ m1[above] = "map"
        BY <3>1, <2>2, <2>3, <1>1, AboveIsMap DEF Stays
      <3>3. ASSUME NEW p \in DOMAIN m2, m2[p] # "map", Within(p, above)
            PROVE  FALSE
        <4>1. Within(p, q)
          BY <3>3, <2>1, <2>2, <1>1, WithinTransitive DEF IsValues
        <4> QED  BY <4>1, <3>1, <3>3 DEF Stays, CutOff
      <3>4. CASE above \in DOMAIN m2
        <4>1. m2[above] = "map"
          BY <3>3, <3>4, <2>2, WithinItself
        <4> QED  BY <4>1, <3>4, <2>2, <1>1 DEF AsMerged, above
      <3>5. CASE above \notin DOMAIN m2
        <4>1. Stays(above, m1, m2)
          BY <3>2, <3>3, <3>5 DEF Stays, CutOff
        <4> QED  BY <4>1, <3>2, <2>2, <1>1 DEF AsMerged, above
      <3> QED  BY <3>4, <3>5
    <2> QED  BY <2>4, <2>5
  <1> QED  BY <1>1, <1>2 DEF IsValues

-----------------------------------------------------------------------------
(* All merges.                                                             *)

LEMMA PrecedenceStep ==
    ASSUME NEW n \in Nat, NEW q, NEW x
    PROVE  <<q, x>> \in Precedence(n + 1) <=>
              \/ q \in DOMAIN sources[n + 1] /\ x = sources[n + 1][q]
              \/ /\ <<q, x>> \in Precedence(n)
                 /\ q \notin DOMAIN sources[n + 1] /\ ~CutOff(sources[n + 1], q)
  <1> DEFINE Lost(i) == q \in DOMAIN sources[i] \/ CutOff(sources[i], q)
             Has(i) == q \in DOMAIN sources[i] /\ x = sources[i][q]
  <1>1. \A k \in Nat : <<q, x>> \in Precedence(k) <=>
             \E i \in 1..k : Has(i) /\ \A j \in (i + 1)..k : ~Lost(j)
    BY DEF Precedence, CutOff
  <1>2. <<q, x>> \in Precedence(n + 1) <=>
             \E i \in 1..(n + 1) : Has(i) /\ \A j \in (i + 1)..(n + 1) : ~Lost(j)
    BY <1>1
  <1>3. <<q, x>> \in Precedence(n) <=>
             \E i \in 1..n : Has(i) /\ \A j \in (i + 1)..n : ~Lost(j)
    BY <1>1
  <1> HIDE DEF Lost, Has
  <1>4. (\E i \in 1..(n + 1) : Has(i) /\ \A j \in (i + 1)..(n + 1) : ~Lost(j))
           <=> \/ Has(n + 1)
               \/ /\ \E i \in 1..n : Has(i) /\ \A j \in (i + 1)..n : ~Lost(j)
                  /\ ~Lost(n + 1)
    <2>1. ASSUME NEW i \in 1..(n + 1), Has(i), \A j \in (i + 1)..(n + 1) : ~Lost(j),
                 ~Has(n + 1)
          PROVE  i \in 1..n /\ ~Lost(n + 1) /\ \A j \in (i + 1)..n : ~Lost(j)
      <3>1. i \in 1..n
        <4>1. i # n + 1
          BY <2>1
        <4> QED  BY <4>1
      <3>2. n + 1 \in (i + 1)..(n + 1)
        BY <3>1
      <3> QED  BY <3>1, <3>2, <2>1
    <2>2. ASSUME Has(n + 1)
          PROVE  \E i \in 1..(n + 1) : Has(i) /\ \A j \in (i + 1)..(n + 1) : ~Lost(j)
      <3>1. n + 1 \in 1..(n + 1) /\ \A j \in (n + 1 + 1)..(n + 1) : ~Lost(j)
        OBVIOUS
      <3> QED  BY <3>1, <2>2
    <2>3. ASSUME NEW i \in 1..n, Has(i), \A j \in (i + 1)..n : ~Lost(j), ~Lost(n + 1)
          PROVE  \E k \in 1..(n + 1) : Has(k) /\ \A j \in (k + 1)..(n + 1) : ~Lost(j)
      <3>1. \A j \in (i + 1)..(n + 1) : ~Lost(j)
        BY <2>3
      <3> QED  BY <3>1, <2>3
    <2> QED  BY <2>1, <2>2, <2>3
  <1> QED  BY <1>2, <1>3, <1>4 DEF Lost, Has

LEMMA NodesOf ==
    ASSUME NEW v, NEW q, NEW x
    PROVE  <<q, x>> \in Nodes(v) <=> q \in DOMAIN v /\ x = v[q]
  BY DEF Nodes

\* Nodes and Precedence are sets of pairs, and equal when they have the same.
LEMMA SameNodes ==
    ASSUME NEW v, NEW n \in Nat,
           \A q, x : <<q, x>> \in Nodes(v) <=> <<q, x>> \in Precedence(n)
    PROVE  Nodes(v) = Precedence(n)
  <1>1. \A e \in Nodes(v) : \E q, x : e = <<q, x>>
    BY DEF Nodes
  <1>2. \A e \in Precedence(n) : \E q, x : e = <<q, x>>
    BY DEF Precedence
  <1> QED  BY <1>1, <1>2

LEMMA NothingMerged ==
    IsValues(NoValues) /\ Nodes(NoValues) = Precedence(0)
  <1>1. DOMAIN NoValues = {}
    BY DEF NoValues
  <1>2. Nodes(NoValues) = {}
    BY <1>1 DEF Nodes
  <1>3. Precedence(0) = {}
    BY DEF Precedence
  <1> QED  BY <1>1, <1>2, <1>3 DEF IsValues

Merging ==
    /\ sources \in Seq(Documents) /\ source \in 0..Len(sources)
    /\ source = 0 => turns = {} /\ out = NoValues
    /\ source > 0 => /\ Between(merged, Source, out, turns)
                     /\ Nodes(merged) = Precedence(source - 1)

LEMMA SourcesAreValues ==
    ASSUME sources \in Seq(Documents)
    PROVE  Len(sources) \in Nat /\ \A i \in 1..Len(sources) : IsValues(sources[i])
  BY DocumentsAssumption, LenProperties, ElementOfSeq

\* What holds whenever a merge has ended.
LEMMA Merged ==
    ASSUME Merging, turns = {}
    PROVE  IsValues(out) /\ Nodes(out) = Precedence(source)
  <1>0. source \in Nat /\ Len(sources) \in Nat
    BY SourcesAreValues DEF Merging
  <1>1. CASE source = 0
    BY <1>1, NothingMerged DEF Merging
  <1>2. CASE source > 0
    <2>1. Between(merged, Source, out, {}) /\ Nodes(merged) = Precedence(source - 1)
      BY <1>2 DEF Merging
    <2>2. /\ IsValues(out) /\ IsValues(merged) /\ IsValues(Source)
          /\ \A q \in Paths : AsMerged(q, merged, Source, out)
      BY <2>1, MergeEnds DEF Between
    <2>3. PICK n \in Nat : source = n + 1 /\ n = source - 1
      BY <1>0, <1>2
    <2>4. ASSUME NEW q, NEW x
          PROVE  <<q, x>> \in Nodes(out) <=> <<q, x>> \in Precedence(source)
      <3>1. <<q, x>> \in Precedence(source) <=>
               \/ q \in DOMAIN Source /\ x = Source[q]
               \/ /\ q \in DOMAIN merged /\ x = merged[q]
                  /\ q \notin DOMAIN Source /\ ~CutOff(Source, q)
        BY <2>1, <2>3, PrecedenceStep, NodesOf DEF Source
      <3>2. q \notin Paths => q \notin DOMAIN out \cup DOMAIN merged \cup DOMAIN Source
        BY <2>2 DEF IsValues
      <3>3. q \in Paths => AsMerged(q, merged, Source, out)
        BY <2>2
      <3> QED  BY <3>1, <3>2, <3>3, NodesOf DEF AsMerged, Stays
    <2> QED  BY <2>2, <2>4, <1>0, SameNodes
  <1> QED  BY <1>0, <1>1, <1>2

LEMMA MergingStep ==
    ASSUME Merging, [MergeStep]_mergeVars
    PROVE  Merging'
  <1>0. /\ sources \in Seq(Documents) /\ source \in 0..Len(sources)
        /\ Len(sources) \in Nat /\ \A i \in 1..Len(sources) : IsValues(sources[i])
    BY SourcesAreValues DEF Merging
  <1>1. CASE NextSource
    <2>1. PICK n : n = source
      OBVIOUS
    <2>2. PICK m1 : m1 = out
      OBVIOUS
    <2>3. PICK m2 : m2 = sources[n + 1]
      OBVIOUS
    <2>4. PICK t : t = {q \in DOMAIN m2 : Len(q) = 1}
      OBVIOUS
    <2>5. /\ n \in Nat /\ n < Len(sources) /\ sources' = sources /\ source' = n + 1
          /\ merged' = m1 /\ out' = m1 /\ Source' = m2 /\ turns = {}
          /\ turns' = t
      BY <1>0, <1>1, <2>1, <2>2, <2>3, <2>4 DEF NextSource, Source
    <2>6. IsValues(m1) /\ Nodes(m1) = Precedence(n)
      BY <2>1, <2>2, <2>5, Merged
    <2>7. IsValues(m2)
      BY <1>0, <2>3, <2>5
    <2>8. Between(m1, m2, m1, t)
      BY <2>4, <2>6, <2>7, MergeBegins
    <2>9. Between(merged, Source, out, turns)'
      BY <2>5, <2>8
    <2>10. Precedence(n)' = Precedence(n)
      BY <2>5 DEF Precedence
    <2>11. Nodes(merged)' = Precedence(source - 1)'
      <3>1. Nodes(merged)' = Nodes(m1)
        BY <2>5 DEF Nodes
      <3>2. source' - 1 = n
        BY <2>5
      <3>3. Precedence(source - 1)' = Precedence(n)'
        BY <3>2
      <3> QED  BY <3>1, <3>3, <2>6, <2>10
    <2>12. source' \in 0..Len(sources') /\ source' > 0 /\ sources' \in Seq(Documents)
      BY <1>0, <2>5
    <2> QED  BY <2>9, <2>11, <2>12 DEF Merging
  <1>2. ASSUME NEW p \in turns, MergeInner(p) \/ Override(p)
        PROVE  Merging'
    <2>1. PICK m1 : m1 = merged
      OBVIOUS
    <2>2. PICK m2 : m2 = Source
      OBVIOUS
    <2>3. PICK n : n = source - 1
      OBVIOUS
    <2>4. /\ sources' = sources /\ source' = source /\ merged' = m1 /\ Source' = m2
          /\ source > 0
      BY <1>0, <1>2, <2>1, <2>2 DEF MergeInner, Override, Source, Merging
    <2>5. Between(m1, m2, out, turns)
      BY <2>1, <2>2, <2>4 DEF Merging
    <2>6. Between(m1, m2, out', turns')
      <3>1. CASE MergeInner(p)
        BY <3>1, <2>2, <2>5, MergeGoesInside DEF MergeInner, BothMaps
      <3>2. CASE Override(p)
        <4>1. PICK o2 : o2 = out'
          OBVIOUS
        <4>2. Overridden(m2, out, p, o2) /\ turns' = turns \ {p}
          BY <3>2, <4>1, <2>2 DEF Override, BothMaps, Overridden
        <4>3. Between(m1, m2, o2, turns \ {p})
          BY <4>2, <2>5, MergeOverrides
        <4> QED  BY <4>1, <4>2, <4>3
      <3> QED  BY <1>2, <3>1, <3>2
    <2>7. Between(merged, Source, out, turns)'
      BY <2>4, <2>6
    <2>8. Nodes(m1) = Precedence(n) /\ Precedence(n)' = Precedence(n)
      BY <2>1, <2>3, <2>4 DEF Merging, Precedence
    <2>9. Nodes(merged)' = Precedence(source - 1)'
      <3>1. Nodes(merged)' = Nodes(m1)
        BY <2>4 DEF Nodes
      <3>2. Precedence(source - 1)' = Precedence(n)'
        BY <2>3, <2>4
      <3> QED  BY <3>1, <3>2, <2>8
    <2> QED  BY <2>4, <2>7, <2>9, <1>0 DEF Merging
  <1>3. CASE UNCHANGED mergeVars
    <2>1. /\ sources' = sources /\ source' = source /\ merged' = merged
          /\ out' = out /\ turns' = turns
      BY <1>3 DEF mergeVars
    <2>2. Precedence(source - 1)' = Precedence(source - 1) /\ Source' = Source
      BY <2>1 DEF Precedence, Source
    <2> QED  BY <2>1, <2>2 DEF Merging, Nodes
  <1> QED  BY <1>1, <1>2, <1>3 DEF MergeStep, MergeKey

LEMMA MergingHolds == MergeSpec => []Merging
  <1>1. MergeInit => Merging
    BY SourcesAreValues DEF MergeInit, Merging
  <1> QED  BY <1>1, MergingStep, PTL DEF MergeSpec

\* Whatever the sources hold, at whatever depth, and in whatever order the keys
\* of a map come, later sources win and nothing else is lost (mergeMaps).
THEOREM LaterSourcesWin == MergeSpec => []UserValuesWin
  <1>1. Merging => UserValuesWin
    BY Merged DEF UserValuesWin
  <1> QED  BY <1>1, MergingHolds, PTL

-----------------------------------------------------------------------------
(* The lists of the two phases.                                            *)

\* Induction up to N, with the numbers that have the property as a set.
LEMMA UpTo ==
    ASSUME NEW N \in Nat, NEW T, 0 \in T,
           \A n \in 0..(N - 1) : n \in T => n + 1 \in T
    PROVE  \A n \in 0..N : n \in T
  <1> SUFFICES ASSUME NEW m \in 0..N, m \notin T
               PROVE  FALSE
    OBVIOUS
  <1> DEFINE U == {n \in Nat : n <= N /\ n \notin T}
  <1>1. m \in U /\ U \in SUBSET Nat
    OBVIOUS
  <1>2. PICK n \in U : \A k \in U : n <= k
    BY <1>1, Least
  <1>3. n # 0 /\ n \in Nat /\ n <= N /\ n \notin T
    BY <1>2
  <1>4. n - 1 \in 0..(N - 1) /\ n - 1 \notin U
    BY <1>2, <1>3
  <1>5. n - 1 \in T
    BY <1>3, <1>4
  <1> QED  BY <1>3, <1>4, <1>5

\* What the loop has kept of the first n elements of the list.
KeptOf(list, charts, kept, n) ==
    IF n = 0 THEN <<>>
    ELSE IF list[n].chart \in charts THEN Append(kept[n - 1], list[n])
         ELSE kept[n - 1]

Loop(list, charts, kept) ==
    kept = [n \in 0..Len(list) |-> KeptOf(list, charts, kept, n)]

\* There is such a function: the loop is well defined.
LEMMA LoopExists ==
    ASSUME NEW S, NEW list \in Seq(S), NEW charts
    PROVE  \E kept : Loop(list, charts, kept)
  <1> DEFINE N == Len(list)
             Upto(f, n) == /\ DOMAIN f = 0..n
                           /\ \A i \in 0..n : f[i] = KeptOf(list, charts, f, i)
             T == {n \in 0..N : \E f : Upto(f, n)}
  <1>0. N \in Nat
    BY LenProperties
  <1>1. 0 \in T
    <2> DEFINE f == [i \in 0..0 |-> <<>>]
    <2>1. Upto(f, 0)
      BY DEF KeptOf
    <2> HIDE DEF f
    <2> QED  BY <2>1, <1>0
  <1>2. ASSUME NEW n \in 0..(N - 1), n \in T
        PROVE  n + 1 \in T
    <2>1. PICK f : Upto(f, n)
      BY <1>2
    <2> DEFINE g == [i \in 0..(n + 1) |-> IF i = n + 1 THEN KeptOf(list, charts, f, n + 1)
                                          ELSE f[i]]
    <2>2. /\ DOMAIN g = 0..(n + 1) /\ g[n + 1] = KeptOf(list, charts, f, n + 1)
          /\ \A i \in 0..n : g[i] = f[i]
      BY <1>0
    <2> HIDE DEF g
    <2>3. ASSUME NEW i \in 0..(n + 1)
          PROVE  g[i] = KeptOf(list, charts, g, i)
      <3>1. i # 0 => i - 1 \in 0..n
        BY <1>0
      <3>2. i # 0 => g[i - 1] = f[i - 1]
        BY <3>1, <2>2
      <3>3. KeptOf(list, charts, g, i) = KeptOf(list, charts, f, i)
        BY <3>2 DEF KeptOf
      <3>4. CASE i = n + 1
        BY <3>3, <3>4, <2>2
      <3>5. CASE i # n + 1
        <4>1. i \in 0..n
          BY <3>5, <1>0
        <4> QED  BY <4>1, <3>3, <2>1, <2>2
      <3> QED  BY <3>4, <3>5
    <2>4. Upto(g, n + 1)
      BY <2>2, <2>3
    <2>5. n + 1 \in 0..N
      BY <1>0
    <2> QED  BY <2>4, <2>5
  <1> HIDE DEF T, N
  <1>3. N \in T
    <2>1. \A n \in 0..(N - 1) : n \in T => n + 1 \in T
      BY <1>2
    <2>2. \A n \in 0..N : n \in T
      BY <1>0, <1>1, <2>1, UpTo
    <2> QED  BY <2>2, <1>0
  <1>4. PICK f : Upto(f, N)
    BY <1>3 DEF T
  <1> DEFINE h == [i \in 0..N |-> f[i]]
  <1>5. \A i \in 0..N : h[i] = KeptOf(list, charts, h, i)
    <2> SUFFICES ASSUME NEW i \in 0..N
                 PROVE  h[i] = KeptOf(list, charts, h, i)
      OBVIOUS
    <2>1. h[i] = KeptOf(list, charts, f, i)
      BY <1>4
    <2>2. i # 0 => i - 1 \in 0..N
      BY <1>0
    <2>3. i # 0 => h[i - 1] = f[i - 1]
      BY <2>2
    <2> HIDE DEF h
    <2> QED  BY <2>1, <2>3 DEF KeptOf
  <1>6. h = [n \in 0..N |-> KeptOf(list, charts, h, n)]
    <2>1. DOMAIN h = 0..N /\ h = [n \in 0..N |-> h[n]]
      OBVIOUS
    <2> HIDE DEF h
    <2> QED  BY <1>5, <2>1
  <1> HIDE DEF h
  <1> QED  BY <1>6 DEF Loop, N

LEMMA OnlyLoops ==
    ASSUME NEW S, NEW list \in Seq(S), NEW charts
    PROVE  \E kept : Loop(list, charts, kept) /\ Only(list, charts) = kept[Len(list)]
  <1> DEFINE kept == CHOOSE f : Loop(list, charts, f)
  <1>1. Loop(list, charts, kept)
    BY LoopExists
  <1>2. Only(list, charts) = kept[Len(list)]
    BY DEF Only, Loop, KeptOf
  <1> HIDE DEF kept
  <1> QED  BY <1>1, <1>2

\* The elements of these charts and no others are kept.
LEMMA OnlyKeeps ==
    ASSUME NEW S, NEW list \in Seq(S), NEW charts
    PROVE  /\ Only(list, charts) \in Seq(S)
           /\ \A x : x \in ToSet(Only(list, charts)) <=>
                     \E i \in 1..Len(list) : x = list[i] /\ x.chart \in charts
  <1> DEFINE N == Len(list)
  <1>0. N \in Nat /\ \A i \in 1..N : list[i] \in S
    BY LenProperties, ElementOfSeq
  <1>1. PICK kept : Loop(list, charts, kept) /\ Only(list, charts) = kept[N]
    BY OnlyLoops
  <1>2. \A n \in 0..N : kept[n] = KeptOf(list, charts, kept, n)
    BY <1>1 DEF Loop
  <1> DEFINE Keeps(n) == /\ kept[n] \in Seq(S)
                         /\ \A x : x \in ToSet(kept[n]) <=>
                               \E i \in 1..n : x = list[i] /\ x.chart \in charts
             T == {n \in 0..N : Keeps(n)}
  <1>3. 0 \in T
    <2>1. kept[0] = <<>>
      BY <1>0, <1>2 DEF KeptOf
    <2>2. <<>> \in Seq(S) /\ ToSet(<<>>) = {}
      BY EmptySeq DEF ToSet
    <2>3. Keeps(0)
      BY <2>1, <2>2
    <2> QED  BY <2>3, <1>0
  <1>4. ASSUME NEW n \in 0..(N - 1), n \in T
        PROVE  n + 1 \in T
    <2>1. Keeps(n) /\ n + 1 \in 0..N /\ n + 1 # 0 /\ n + 1 \in 1..N /\ n \in Nat
      BY <1>0, <1>4
    <2>2. kept[n + 1] = IF list[n + 1].chart \in charts
                        THEN Append(kept[n], list[n + 1]) ELSE kept[n]
      <3>1. kept[n + 1] = KeptOf(list, charts, kept, n + 1)
        BY <1>2, <2>1
      <3>2. n + 1 - 1 = n
        BY <2>1
      <3> QED  BY <3>1, <3>2, <2>1 DEF KeptOf
    <2>3. CASE list[n + 1].chart \in charts
      <3>1. PICK s : s = kept[n]
        OBVIOUS
      <3>2. /\ Append(s, list[n + 1]) \in Seq(S)
            /\ ToSet(Append(s, list[n + 1])) = ToSet(s) \cup {list[n + 1]}
        <4>1. s \in Seq(S) /\ list[n + 1] \in S /\ Len(s) \in Nat
          BY <3>1, <2>1, <1>0, LenProperties
        <4>2. /\ Append(s, list[n + 1]) \in Seq(S)
              /\ Len(Append(s, list[n + 1])) = Len(s) + 1
              /\ \A i \in 1..Len(s) : Append(s, list[n + 1])[i] = s[i]
              /\ Append(s, list[n + 1])[Len(s) + 1] = list[n + 1]
          BY <4>1, AppendProperties
        <4>3. \A i \in 1..(Len(s) + 1) : i \in 1..Len(s) \/ i = Len(s) + 1
          BY <4>1
        <4> QED  BY <4>1, <4>2, <4>3 DEF ToSet
      <3>3. kept[n + 1] \in Seq(S) /\ ToSet(kept[n + 1]) = ToSet(kept[n]) \cup {list[n + 1]}
        BY <3>1, <3>2, <2>2, <2>3
      <3>4. ASSUME NEW x
            PROVE  x \in ToSet(kept[n + 1]) <=>
                      \E i \in 1..(n + 1) : x = list[i] /\ x.chart \in charts
        <4>1. x \in ToSet(kept[n + 1]) <=>
                 \/ \E i \in 1..n : x = list[i] /\ x.chart \in charts
                 \/ x = list[n + 1]
          BY <3>3, <2>1
        <4> QED  BY <4>1, <2>1, <2>3
      <3>5. Keeps(n + 1)
        BY <3>3, <3>4
      <3> QED  BY <3>5, <2>1
    <2>4. CASE list[n + 1].chart \notin charts
      <3>1. kept[n + 1] = kept[n]
        BY <2>2, <2>4
      <3>2. ASSUME NEW x
            PROVE  x \in ToSet(kept[n + 1]) <=>
                      \E i \in 1..(n + 1) : x = list[i] /\ x.chart \in charts
        <4>1. x \in ToSet(kept[n + 1]) <=>
                 \E i \in 1..n : x = list[i] /\ x.chart \in charts
          BY <3>1, <2>1
        <4> QED  BY <4>1, <2>1, <2>4
      <3>3. Keeps(n + 1)
        BY <3>1, <3>2, <2>1
      <3> QED  BY <3>3, <2>1
    <2> QED  BY <2>3, <2>4
  <1> HIDE DEF T, N
  <1>5. N \in T
    <2>1. \A n \in 0..(N - 1) : n \in T => n + 1 \in T
      BY <1>4
    <2>2. \A n \in 0..N : n \in T
      BY <1>0, <1>3, <2>1, UpTo
    <2> QED  BY <2>2, <1>0
  <1>6. Keeps(N)
    BY <1>5 DEF T
  <1> QED  BY <1>1, <1>6 DEF N

\* A list made element by element is a sequence of what its elements are.
LEMMA MadeList ==
    ASSUME NEW S, NEW n \in Nat, NEW f \in [1..n -> S]
    PROVE  /\ f \in Seq(S) /\ Len(f) = n
           /\ \A x : x \in ToSet(f) <=> \E i \in 1..n : x = f[i]
  <1>1. f \in Seq(S)
    BY SeqDef
  <1>2. DOMAIN f = 1..Len(f) /\ Len(f) \in Nat /\ DOMAIN f = 1..n
    BY <1>1, LenProperties
  <1>3. Len(f) = n
    BY <1>2
  <1> QED  BY <1>1, <1>3 DEF ToSet

LEMMA JoinedList ==
    ASSUME NEW S, NEW s \in Seq(S), NEW t \in Seq(S)
    PROVE  s \o t \in Seq(S) /\ ToSet(s \o t) = ToSet(s) \cup ToSet(t)
  <1>1. Len(s) \in Nat /\ Len(t) \in Nat
    BY LenProperties
  <1>2. /\ s \o t \in Seq(S) /\ Len(s \o t) = Len(s) + Len(t)
        /\ \A i \in 1..(Len(s) + Len(t)) :
              (s \o t)[i] = IF i <= Len(s) THEN s[i] ELSE t[i - Len(s)]
    BY ConcatProperties
  <1>3. \A i \in 1..Len(s) : i \in 1..(Len(s) + Len(t)) /\ i <= Len(s)
    BY <1>1
  <1>4. \A i \in 1..Len(t) : /\ i + Len(s) \in 1..(Len(s) + Len(t))
                             /\ ~(i + Len(s) <= Len(s)) /\ i + Len(s) - Len(s) = i
    BY <1>1
  <1>5. \A i \in 1..(Len(s) + Len(t)) : i \in 1..Len(s) \/ i - Len(s) \in 1..Len(t)
    BY <1>1
  <1>6. \A x \in ToSet(s) : x \in ToSet(s \o t)
    BY <1>2, <1>3 DEF ToSet
  <1>7. \A x \in ToSet(t) : x \in ToSet(s \o t)
    <2> SUFFICES ASSUME NEW i \in 1..Len(t)
                 PROVE  t[i] \in ToSet(s \o t)
      BY DEF ToSet
    <2>1. (s \o t)[i + Len(s)] = t[i]
      BY <1>2, <1>4
    <2> QED  BY <2>1, <1>2, <1>4 DEF ToSet
  <1>8. \A x \in ToSet(s \o t) : x \in ToSet(s) \cup ToSet(t)
    <2> SUFFICES ASSUME NEW i \in 1..(Len(s) + Len(t))
                 PROVE  (s \o t)[i] \in ToSet(s) \cup ToSet(t)
      BY <1>2 DEF ToSet
    <2>1. CASE i <= Len(s)
      BY <2>1, <1>1, <1>2 DEF ToSet
    <2>2. CASE ~(i <= Len(s))
      <3>1. i - Len(s) \in 1..Len(t)
        BY <2>2, <1>1
      <3> QED  BY <2>2, <3>1, <1>2 DEF ToSet
    <2> QED  BY <2>1, <2>2
  <1> QED  BY <1>2, <1>6, <1>7, <1>8

LEMMA PartList ==
    ASSUME NEW S, NEW list \in Seq(S), NEW own, NEW runtime,
           \A c \in S : \A r \in BOOLEAN : Config(c, own, r) \in Configs
    PROVE  /\ PartConfigs(list, own, runtime) \in Seq(Configs)
           /\ \A x : x \in ToSet(PartConfigs(list, own, runtime)) <=>
                 \E c \in ToSet(list) : x = Config(c, own, c.chart \in runtime)
  <1> DEFINE n == Len(list)
             f == PartConfigs(list, own, runtime)
  <1>1. n \in Nat /\ \A i \in 1..n : list[i] \in S
    BY LenProperties, ElementOfSeq
  <1>2. ASSUME NEW i \in 1..n
        PROVE  Config(list[i], own, list[i].chart \in runtime) \in Configs
    <2>1. Config(list[i], own, TRUE) \in Configs /\ Config(list[i], own, FALSE) \in Configs
      BY <1>1
    <2>2. CASE list[i].chart \in runtime
      <3>1. (list[i].chart \in runtime) = TRUE
        BY <2>2
      <3> QED  BY <2>1, <3>1
    <2>3. CASE list[i].chart \notin runtime
      <3>1. (list[i].chart \in runtime) = FALSE
        BY <2>3
      <3> QED  BY <2>1, <3>1
    <2> QED  BY <2>2, <2>3
  <1>3. f = [i \in 1..n |-> Config(list[i], own, list[i].chart \in runtime)]
    BY DEF PartConfigs
  <1>4. f \in [1..n -> Configs]
    BY <1>2, <1>3
  <1>5. \A i \in 1..n : f[i] = Config(list[i], own, list[i].chart \in runtime)
    BY <1>3
  <1> HIDE DEF f, n
  <1>6. f \in Seq(Configs) /\ \A x : x \in ToSet(f) <=> \E i \in 1..n : x = f[i]
    BY <1>1, <1>4, MadeList
  <1>7. ASSUME NEW x
        PROVE  x \in ToSet(f) <=>
                 \E c \in ToSet(list) : x = Config(c, own, c.chart \in runtime)
    <2>1. x \in ToSet(f) <=> \E i \in 1..n : x = Config(list[i], own, list[i].chart \in runtime)
      BY <1>5, <1>6
    <2> QED  BY <2>1 DEF ToSet, n
  <1> QED  BY <1>6, <1>7 DEF f

\* What ConfigAssumption says of a release.
IsRelease(in) ==
    /\ in.core \in Seq(ChartSpecs) /\ in.solution \in Seq(ChartSpecs)
    /\ \A c \in ToSet(in.solution) : c.chart \notin SelfCharts

LEMMA InputIsRelease ==
    ASSUME NEW family \in Inputs, NEW in \in family
    PROVE  IsRelease(in)
  <1>1. /\ in.core \in Seq(ChartSpecs) /\ in.solution \in Seq(ChartSpecs)
        /\ Charts(in.solution) \cap SelfCharts = {}
    BY ConfigAssumption DEF ConfigAssumption
  <1> QED  BY <1>1 DEF IsRelease, Charts, ToSet

LEMMA SpecFacts ==
    ASSUME NEW c \in ChartSpecs
    PROVE  /\ \A own \in {"core", "solution"} : \A r \in BOOLEAN :
                 /\ Config(c, own, r) \in Configs
                 /\ c.chart \in SelfCharts => Config(Rebuilt(c), own, r) \in Configs
           /\ c.name \in SelfCharts \/ c.chart \in SelfCharts => c.name = c.chart
  BY ConfigAssumption DEF ConfigAssumption

LEMMA ElementsOf ==
    ASSUME NEW S, NEW list \in Seq(S)
    PROVE  \A x \in ToSet(list) : x \in S
  BY LenProperties, ElementOfSeq DEF ToSet

LEMMA LCMChartList ==
    ASSUME NEW in, IsRelease(in),
           NEW R, R = {Rebuilt(c) : c \in {c \in ChartSpecs : c.chart \in SelfCharts}}
    PROVE  /\ LCMCharts(in) \in Seq(R)
           /\ \A x : x \in ToSet(LCMCharts(in)) <=>
                 \E c \in ToSet(in.core) : c.chart \in SelfCharts /\ x = Rebuilt(c)
  <1> DEFINE own == Only(in.core, SelfCharts)
             n == Len(own)
             f == LCMCharts(in)
  <1>1. /\ in.core \in Seq(ChartSpecs) /\ own \in Seq(ChartSpecs)
        /\ \A x : x \in ToSet(own) <=>
              \E i \in 1..Len(in.core) : x = in.core[i] /\ x.chart \in SelfCharts
    BY OnlyKeeps DEF IsRelease
  <1>2. f = [i \in 1..n |-> Rebuilt(own[i])]
    BY DEF LCMCharts
  <1> HIDE DEF own, f
  <1>3. n \in Nat /\ \A i \in 1..n : own[i] \in ToSet(own) /\ own[i] \in ChartSpecs
    BY <1>1, LenProperties, ElementOfSeq DEF ToSet
  <1>4. \A i \in 1..n : own[i].chart \in SelfCharts
    BY <1>1, <1>3
  <1>5. f \in [1..n -> R] /\ \A i \in 1..n : f[i] = Rebuilt(own[i])
    BY <1>2, <1>3, <1>4
  <1> HIDE DEF n
  <1>6. f \in Seq(R) /\ \A x : x \in ToSet(f) <=> \E i \in 1..n : x = f[i]
    BY <1>3, <1>5, MadeList
  <1>7. ASSUME NEW x
        PROVE  x \in ToSet(f) <=>
                 \E c \in ToSet(in.core) : c.chart \in SelfCharts /\ x = Rebuilt(c)
    <2>1. x \in ToSet(f) <=> \E c \in ToSet(own) : x = Rebuilt(c)
      BY <1>5, <1>6 DEF ToSet, n
    <2>2. \A c : c \in ToSet(own) <=> c \in ToSet(in.core) /\ c.chart \in SelfCharts
      BY <1>1 DEF ToSet
    <2> QED  BY <2>1, <2>2
  <1> QED  BY <1>6, <1>7 DEF f

\* The list of the LCM phase.
LEMMA LCMList ==
    ASSUME NEW in, IsRelease(in)
    PROVE  /\ LCMConfigs(in) \in Lists
           /\ \A x : x \in ToSet(LCMConfigs(in)) <=>
                 \E c \in ToSet(in.core) :
                    /\ c.chart \in SelfCharts
                    /\ x = Config(Rebuilt(c), "core", c.chart \in LCMRuntime(in))
  <1> DEFINE R == {Rebuilt(c) : c \in {c \in ChartSpecs : c.chart \in SelfCharts}}
             f == PartConfigs(LCMCharts(in), "core", LCMRuntime(in))
             e == PartConfigs(<<>>, "solution", LCMRuntime(in))
  <1>1. /\ LCMCharts(in) \in Seq(R)
        /\ \A x : x \in ToSet(LCMCharts(in)) <=>
              \E c \in ToSet(in.core) : c.chart \in SelfCharts /\ x = Rebuilt(c)
    BY LCMChartList
  <1>2. /\ \A c \in R : \A r \in BOOLEAN : Config(c, "core", r) \in Configs
        /\ \A c \in R : \A r \in BOOLEAN : Config(c, "solution", r) \in Configs
    BY SpecFacts
  <1> HIDE DEF R
  <1>3. f \in Seq(Configs) /\ \A x : x \in ToSet(f) <=>
              \E c \in ToSet(LCMCharts(in)) : x = Config(c, "core", c.chart \in LCMRuntime(in))
    BY <1>1, <1>2, PartList
  <1>4. e = <<>>
    <2>1. e \in Seq(Configs) /\ <<>> \in Seq(R)
      BY <1>2, EmptySeq, PartList
    <2>2. DOMAIN e = 1..0
      BY EmptySeq DEF PartConfigs
    <2>3. Len(e) = 0
      BY <2>1, <2>2, LenProperties
    <2> HIDE DEF e
    <2> QED  BY <2>1, <2>3, EmptySeq
  <1>5. LCMConfigs(in) = f \o e
    BY DEF LCMConfigs, BuildHelmChartConfig
  <1> HIDE DEF f, e
  <1>6. LCMConfigs(in) = f
    BY <1>3, <1>4, <1>5, ConcatEmptySeq
  <1>7. \A c : Rebuilt(c).chart = c.chart
    BY DEF Rebuilt
  <1> QED  BY <1>1, <1>3, <1>6, <1>7 DEF Lists

\* The list of the Helm phase.
LEMMA PipelineList ==
    ASSUME NEW in, IsRelease(in)
    PROVE  /\ PipelineConfigs(in) \in Lists
           /\ \A x : x \in ToSet(PipelineConfigs(in)) <=>
                 \E c \in ToSet(in.core) \cup ToSet(in.solution) :
                    /\ c.chart \notin SelfCharts
                    /\ \/ /\ c \in ToSet(in.core)
                          /\ x = Config(c, "core", c.chart \in in.runtime)
                       \/ /\ c \in ToSet(in.solution)
                          /\ x = Config(c, "solution", c.chart \in in.runtime)
  <1> DEFINE f == PartConfigs(in.core, "core", in.runtime)
             g == PartConfigs(in.solution, "solution", in.runtime)
             all == BuildHelmChartConfig(in.core, in.solution, in.runtime)
             charts == NotSelfUpgraded(Charts(in.core) \cup Charts(in.solution))
  <1>0. in.core \in Seq(ChartSpecs) /\ in.solution \in Seq(ChartSpecs)
    BY DEF IsRelease
  <1>1. /\ \A c \in ChartSpecs : \A r \in BOOLEAN : Config(c, "core", r) \in Configs
        /\ \A c \in ChartSpecs : \A r \in BOOLEAN : Config(c, "solution", r) \in Configs
    BY SpecFacts
  <1>2. f \in Seq(Configs) /\ \A x : x \in ToSet(f) <=>
              \E c \in ToSet(in.core) : x = Config(c, "core", c.chart \in in.runtime)
    BY <1>0, <1>1, PartList
  <1>3. g \in Seq(Configs) /\ \A x : x \in ToSet(g) <=>
              \E c \in ToSet(in.solution) : x = Config(c, "solution", c.chart \in in.runtime)
    BY <1>0, <1>1, PartList
  <1>4. all = f \o g
    BY DEF BuildHelmChartConfig
  <1> HIDE DEF f, g, all
  <1>5. all \in Seq(Configs) /\ ToSet(all) = ToSet(f) \cup ToSet(g)
    BY <1>2, <1>3, <1>4, JoinedList
  <1>6. PipelineConfigs(in) = Only(all, charts)
    BY DEF PipelineConfigs, all
  <1>7. \A x : x \in charts <=> /\ x \notin SelfCharts
                               /\ \E c \in ToSet(in.core) \cup ToSet(in.solution) : x = c.chart
    BY DEF NotSelfUpgraded, Charts, ToSet
  <1> HIDE DEF charts
  <1>8. /\ Only(all, charts) \in Seq(Configs)
        /\ \A x : x \in ToSet(Only(all, charts)) <=> x \in ToSet(all) /\ x.chart \in charts
    BY <1>5, OnlyKeeps DEF ToSet
  <1>9. \A c, own, r : Config(c, own, r).chart = c.chart
    BY DEF Config
  <1>10. ASSUME NEW x
         PROVE  x \in ToSet(all) /\ x.chart \in charts <=>
                 \E c \in ToSet(in.core) \cup ToSet(in.solution) :
                    /\ c.chart \notin SelfCharts
                    /\ \/ /\ c \in ToSet(in.core)
                          /\ x = Config(c, "core", c.chart \in in.runtime)
                       \/ /\ c \in ToSet(in.solution)
                          /\ x = Config(c, "solution", c.chart \in in.runtime)
    BY <1>2, <1>3, <1>5, <1>7, <1>9
  <1> QED  BY <1>6, <1>8, <1>10 DEF Lists

Listing(in) == ToSet(in.core) \cup ToSet(in.solution)

\* Configs are applied to the charts they are for, that of the CRDs chart to none.
Configured(x, in) == x.runtime <=> x.chart \in in.runtime \ {CRDs}

Same(x, c) == x.chart = c.chart /\ x.name = c.name

LEMMA LCMElement ==
    ASSUME NEW in, IsRelease(in), NEW x \in ToSet(LCMConfigs(in))
    PROVE  /\ x.chart \in SelfCharts /\ x.name \in SelfCharts /\ x.deps = <<>>
           /\ Configured(x, in) /\ \E c \in Listing(in) : Same(x, c)
  <1>1. PICK c \in ToSet(in.core) :
              /\ c.chart \in SelfCharts
              /\ x = Config(Rebuilt(c), "core", c.chart \in LCMRuntime(in))
    BY LCMList
  <1>2. c \in ChartSpecs
    BY ElementsOf DEF IsRelease
  <1>3. c.name = c.chart
    BY <1>1, <1>2, SpecFacts
  <1>4. x.chart = c.chart /\ x.name = c.chart /\ x.deps = <<>>
        /\ x.runtime = (c.chart \in LCMRuntime(in))
    BY <1>1 DEF Config, Rebuilt
  <1>5. c.chart \in LCMRuntime(in) <=> c.chart \in in.runtime \ {CRDs}
    BY <1>1, ConfigAssumption DEF ConfigAssumption, LCMRuntime, SelfCharts
  <1>6. Configured(x, in)
    BY <1>4, <1>5 DEF Configured
  <1>7. c \in Listing(in) /\ Same(x, c)
    BY <1>1, <1>3, <1>4 DEF Listing, Same
  <1> QED  BY <1>1, <1>4, <1>6, <1>7

LEMMA PipelineElement ==
    ASSUME NEW in, IsRelease(in), NEW x \in ToSet(PipelineConfigs(in))
    PROVE  /\ x.chart \notin SelfCharts /\ x.name \notin SelfCharts
           /\ Configured(x, in) /\ \E c \in Listing(in) : Same(x, c)
  <1>1. PICK c \in Listing(in), own \in {"core", "solution"} :
              /\ c.chart \notin SelfCharts
              /\ x = Config(c, own, c.chart \in in.runtime)
    BY PipelineList DEF Listing
  <1>2. c \in ChartSpecs
    BY ElementsOf DEF IsRelease, Listing
  <1>3. c.name \notin SelfCharts
    BY <1>1, <1>2, SpecFacts
  <1>4. x.chart = c.chart /\ x.name = c.name
        /\ x.runtime = (c.chart \in in.runtime)
    BY <1>1 DEF Config
  <1>5. c.chart # CRDs
    BY <1>1 DEF SelfCharts
  <1>6. Configured(x, in)
    BY <1>4, <1>5 DEF Configured
  <1> QED  BY <1>1, <1>3, <1>4, <1>6 DEF Same

\* Every chart of the manifests is in the list of one phase.
LEMMA InOnePhase ==
    ASSUME NEW in, IsRelease(in), NEW c \in Listing(in)
    PROVE  \E x \in ToSet(LCMConfigs(in)) \cup ToSet(PipelineConfigs(in)) : Same(x, c)
  <1>0. c \in ChartSpecs
    BY ElementsOf DEF IsRelease, Listing
  <1>1. CASE c.chart \in SelfCharts
    <2>1. c \in ToSet(in.core) /\ c.name = c.chart
      BY <1>0, <1>1, SpecFacts DEF Listing, IsRelease
    <2> DEFINE x == Config(Rebuilt(c), "core", c.chart \in LCMRuntime(in))
    <2>2. x.chart = c.chart /\ x.name = c.chart
      BY DEF Config, Rebuilt
    <2>3. x \in ToSet(LCMConfigs(in))
      BY <1>1, <2>1, LCMList
    <2> HIDE DEF x
    <2> QED  BY <2>1, <2>2, <2>3 DEF Same
  <1>2. CASE c.chart \notin SelfCharts
    <2>1. PICK own : \/ c \in ToSet(in.core) /\ own = "core"
                     \/ c \in ToSet(in.solution) /\ own = "solution"
      BY DEF Listing
    <2> DEFINE x == Config(c, own, c.chart \in in.runtime)
    <2>2. x.chart = c.chart /\ x.name = c.name
      BY DEF Config
    <2>3. x \in ToSet(PipelineConfigs(in))
      BY <1>2, <2>1, PipelineList
    <2> HIDE DEF x
    <2> QED  BY <2>2, <2>3 DEF Same
  <1> QED  BY <1>1, <1>2

-----------------------------------------------------------------------------
(* The phases.                                                             *)

\* What a phase goes through: configs of its list, each name of it once.
Went(seq, list) ==
    /\ seq \in Seq(Configs)
    /\ ToSet(seq) \subseteq ToSet(list)
    /\ \A x \in ToSet(list) : \E y \in ToSet(seq) : y.name = x.name
    /\ \A i, j \in 1..Len(seq) : seq[i].name = seq[j].name => i = j

LEMMA SortedList ==
    ASSUME Sorting, Ended, ~cyclic
    PROVE  /\ Went(Sorted, configs) /\ Len(Sorted) = Len(result)
           /\ Len(result) \in Nat /\ ToSet(result) = Listed
           /\ \A i \in 1..Len(result) : /\ Sorted[i] = ConfigOf(result[i])
                                         /\ Sorted[i].name = result[i]
  <1> DEFINE n == Len(result)
             f == Sorted
  <1>1. /\ configs \in Lists /\ n \in Nat /\ ToSet(result) = Listed
        /\ DependenciesBefore
    BY NothingLost, LenProperties DEF Sorting, Marks
  <1>2. \A i \in 1..n : /\ ConfigOf(result[i]) \in ToSet(configs)
                        /\ ConfigOf(result[i]).name = result[i]
    <2>1. \A i \in 1..n : result[i] \in Listed
      BY <1>1 DEF ToSet
    <2> QED  BY <1>1, <2>1, LastConfig
  <1>3. \A c \in ToSet(configs) : c \in Configs
    BY <1>1, ElementsOf DEF Lists
  <1>4. f = [i \in 1..n |-> ConfigOf(result[i])]
    BY DEF Sorted
  <1>5. f \in [1..n -> Configs] /\ \A i \in 1..n : f[i] = ConfigOf(result[i])
    BY <1>2, <1>3, <1>4
  <1> HIDE DEF f, n
  <1>6. /\ f \in Seq(Configs) /\ Len(f) = n
        /\ \A x : x \in ToSet(f) <=> \E i \in 1..n : x = f[i]
    BY <1>1, <1>5, MadeList
  <1>7. \A i \in 1..n : f[i].name = result[i]
    BY <1>2, <1>5
  <1>8. ToSet(f) \subseteq ToSet(configs)
    BY <1>2, <1>5, <1>6
  <1>9. ASSUME NEW x \in ToSet(configs)
        PROVE  \E y \in ToSet(f) : y.name = x.name
    <2>1. x.name \in Listed
      BY DEF ToSet, Listed
    <2>2. PICK i \in 1..n : result[i] = x.name
      BY <1>1, <2>1 DEF ToSet, n
    <2> QED  BY <2>2, <1>6, <1>7
  <1>10. \A i, j \in 1..n : f[i].name = f[j].name => i = j
    <2>1. \A i, j \in 1..n : result[i] = result[j] => i = j
      BY <1>1 DEF DependenciesBefore, n
    <2> QED  BY <2>1, <1>7
  <1>11. Went(f, configs)
    BY <1>6, <1>8, <1>9, <1>10 DEF Went
  <1> QED  BY <1>1, <1>5, <1>6, <1>7, <1>11 DEF f, n

\* Without dependencies there is no cycle.
LEMMA NoDependencies ==
    ASSUME Sorting, \A x \in ToSet(configs) : x.deps = <<>>
    PROVE  ~cyclic
  <1>1. configs \in Lists /\ (cyclic => HasCycle)
    BY DEF Sorting, Marks, FailsOnCycle
  <1>2. \A name \in Listed : DepsOf(name) = {}
    <2> SUFFICES ASSUME NEW name \in Listed
                 PROVE  DepsOf(name) = {}
      OBVIOUS
    <2>1. ConfigOf(name).deps = <<>>
      BY <1>1, LastConfig
    <2>2. ToSet(<<>>) = {}
      BY EmptySeq DEF ToSet
    <2> QED  BY <2>1, <2>2 DEF DepsOf
  <1>3. ~HasCycle
    BY <1>2 DEF HasCycle
  <1> QED  BY <1>1, <1>3

KnownCharts(in) == AllKnown(in.core, in.solution, in.runtime)

Phases ==
    /\ \E family \in Inputs : input \in family
    /\ phase \in {"start", "lcm", "helm", "rejected"}
    /\ phase = "start" => configs = <<>> /\ calls = <<>> /\ next = 1
    /\ phase = "lcm" => configs = LCMConfigs(input)
    /\ phase = "helm" => /\ configs = PipelineConfigs(input) /\ KnownCharts(input)
                         /\ Went(upgraded, LCMConfigs(input))
    /\ phase = "rejected" => ~KnownCharts(input)

ConfigInv == Sorting /\ Phases

LEMMA ConfigStarts == ConfigInit => ConfigInv
  <1>1. Init => Sorting
    BY StartsFresh, FreshSorting
  <1>2. ConfigInit => Phases
    BY DEF ConfigInit, Init, Phases
  <1> QED  BY <1>1, <1>2 DEF ConfigInit, ConfigInv

\* Both phases sort one of the lists, after the sort before has ended.
LEMMA StartsSort ==
    ASSUME NEW list \in Lists, StartSort(list)
    PROVE  Sorting'
  <1>1. Fresh'
    BY DEF StartSort, Fresh
  <1>2. (Fresh => Sorting)'
    BY FreshSorting, PTL
  <1> QED  BY <1>1, <1>2

LEMMA KnownToLCM ==
    ASSUME NEW in, IsRelease(in), KnownCharts(in)
    PROVE  AllKnown(LCMCharts(in), <<>>, LCMRuntime(in))
  <1> SUFFICES ASSUME NEW x \in LCMRuntime(in)
               PROVE  x \in Charts(LCMCharts(in))
    BY DEF AllKnown
  <1>1. x = LCM /\ x \in SelfCharts /\ x \in in.runtime
    BY DEF LCMRuntime, SelfCharts
  <1>2. x \in Charts(in.core) \cup Charts(in.solution)
    BY <1>1 DEF KnownCharts, AllKnown
  <1>3. PICK c \in ToSet(in.core) : c.chart = x
    BY <1>1, <1>2 DEF IsRelease, Charts, ToSet
  <1>4. Rebuilt(c) \in ToSet(LCMCharts(in)) /\ Rebuilt(c).chart = x
    BY <1>1, <1>3, LCMChartList DEF Rebuilt
  <1> QED  BY <1>4 DEF Charts, ToSet

LEMMA ConfigStep ==
    ASSUME ConfigInv, [ConfigNext]_vars
    PROVE  ConfigInv' /\ [Start \/ SortStep]_sortVars /\ [MergeStep]_mergeVars
  <1>0. IsRelease(input) /\ Sorting /\ Phases
    BY InputIsRelease DEF ConfigInv, Phases
  <1>1. CASE StartLCM
    <2>1. /\ phase = "start" /\ input' = input /\ UNCHANGED mergeVars
          /\ configs = <<>> /\ calls = <<>> /\ next = 1
      BY <1>0, <1>1 DEF StartLCM, Phases
    <2>2. Ended
      BY <2>1, EmptySeq DEF Ended
    <2>3. PICK list : list = LCMConfigs(input)
      OBVIOUS
    <2>4. list \in Lists
      BY <1>0, <2>3, LCMList
    <2>5. CASE AllKnown(LCMCharts(input), <<>>, LCMRuntime(input))
      <3>1. StartSort(list) /\ phase' = "lcm"
        BY <1>1, <2>3, <2>5 DEF StartLCM
      <3>2. Sorting' /\ Start
        BY <3>1, <2>2, <2>4, StartsSort DEF Start
      <3>3. Phases'
        BY <3>1, <2>1, <2>3, <1>0 DEF Phases, StartSort
      <3> QED  BY <3>2, <3>3, <2>1 DEF ConfigInv
    <2>6. CASE ~AllKnown(LCMCharts(input), <<>>, LCMRuntime(input))
      <3>1. phase' = "rejected" /\ UNCHANGED sortVars
        BY <1>1, <2>6 DEF StartLCM, Reject
      <3>2. ~KnownCharts(input)
        BY <1>0, <2>6, KnownToLCM
      <3>3. Phases'
        BY <3>1, <3>2, <2>1, <1>0 DEF Phases, KnownCharts
      <3>4. Sorting'
        BY <3>1, <1>0, SortingStep
      <3> QED  BY <3>1, <3>3, <3>4, <2>1 DEF ConfigInv
    <2> QED  BY <2>5, <2>6
  <1>2. CASE Sort
    <2>1. /\ SortStep /\ UNCHANGED mergeVars
          /\ input' = input /\ phase' = phase /\ upgraded' = upgraded
      BY <1>2 DEF Sort
    <2>2. Sorting' /\ configs' = configs
      BY <2>1, <1>0, SortingStep
         DEF SortStep, VisitNext, VisitDependency, Visit, Return
    <2>3. phase # "start"
      <3>1. Len(<<>>) = 0
        BY EmptySeq
      <3> QED  BY <3>1, <2>1, <1>0
               DEF Phases, SortStep, VisitNext, VisitDependency, Return, Ended
    <2>4. Phases'
      BY <2>1, <2>2, <2>3, <1>0 DEF Phases
    <2> QED  BY <2>1, <2>2, <2>4 DEF ConfigInv
  <1>3. CASE StartPipeline
    <2>1. /\ phase = "lcm" /\ Ended /\ input' = input /\ UNCHANGED mergeVars
          /\ configs = LCMConfigs(input)
      BY <1>0, <1>3 DEF StartPipeline, Phases
    <2>2. PICK list : list = PipelineConfigs(input)
      OBVIOUS
    <2>3. PICK seq : seq = Sorted
      OBVIOUS
    <2>4. list \in Lists
      BY <1>0, <2>2, PipelineList
    <2>5. Went(seq, LCMConfigs(input))
      <3>1. ~cyclic
        BY <1>0, <2>1, LCMElement, NoDependencies
      <3> QED  BY <3>1, <1>0, <2>1, <2>3, SortedList
    <2>6. CASE AllKnown(input.core, input.solution, input.runtime)
      <3>1. StartSort(list) /\ phase' = "helm" /\ upgraded' = seq
        BY <1>3, <2>2, <2>3, <2>6 DEF StartPipeline
      <3>2. Sorting' /\ Start
        BY <3>1, <2>1, <2>4, StartsSort DEF Start
      <3>3. Went(upgraded, LCMConfigs(input))'
        BY <2>1, <2>5, <3>1
      <3>4. Phases'
        BY <3>1, <3>3, <2>1, <2>2, <2>6, <1>0 DEF Phases, StartSort, KnownCharts
      <3> QED  BY <3>2, <3>4, <2>1 DEF ConfigInv
    <2>7. CASE ~AllKnown(input.core, input.solution, input.runtime)
      <3>1. phase' = "rejected" /\ UNCHANGED sortVars
        BY <1>3, <2>7 DEF StartPipeline, Reject
      <3>2. Phases'
        BY <3>1, <2>1, <2>7, <1>0 DEF Phases, KnownCharts
      <3>3. Sorting'
        BY <3>1, <1>0, SortingStep
      <3> QED  BY <3>1, <3>2, <3>3, <2>1 DEF ConfigInv
    <2> QED  BY <2>6, <2>7
  <1>4. CASE Merge \/ UNCHANGED vars
    <2>1. /\ [MergeStep]_mergeVars /\ UNCHANGED sortVars
          /\ input' = input /\ phase' = phase /\ upgraded' = upgraded
      BY <1>4 DEF Merge, vars
    <2>2. Sorting' /\ configs' = configs /\ calls' = calls /\ next' = next
      BY <2>1, <1>0, SortingStep DEF sortVars
    <2>3. Phases'
      BY <2>1, <2>2, <1>0 DEF Phases
    <2> QED  BY <2>1, <2>2, <2>3 DEF ConfigInv
  <1> QED  BY <1>1, <1>2, <1>3, <1>4 DEF ConfigNext

LEMMA ConfigHolds == ConfigSpec => []ConfigInv
  <1>1. ConfigInv /\ [ConfigNext]_vars => ConfigInv'
    BY ConfigStep
  <1> QED  BY <1>1, ConfigStarts, PTL DEF ConfigSpec

\* The sort and the merge of UpgradeConfig are those of ChartOrder and of
\* HelmValues: what is proved of these holds here.  The LCM phase and the Helm
\* phase call sortChartConfigsByDependencies one after the other, never while
\* a sort is under way, and no other step touches the state of either.
THEOREM ConfigSorts == ConfigSpec => SortSpec
  <1>1. ConfigInv /\ [ConfigNext]_vars => [Start \/ SortStep]_sortVars
    BY ConfigStep
  <1>2. ConfigInit => Init
    BY DEF ConfigInit
  <1> QED  BY <1>1, <1>2, ConfigHolds, PTL DEF ConfigSpec, SortSpec

\* generateCustomValuesMap has resolveHelmChartValues merge the values of the
\* manifest and of the user as MergeHelmValues does.
THEOREM ConfigMerges == ConfigSpec => MergeSpec
  <1>1. ConfigInv /\ [ConfigNext]_vars => [MergeStep]_mergeVars
    BY ConfigStep
  <1>2. ConfigInit => MergeInit
    BY DEF ConfigInit
  <1> QED  BY <1>1, <1>2, ConfigHolds, PTL DEF ConfigSpec, MergeSpec

\* What a chart of a release gets from its manifest stays, unless the user sets
\* a value at its path or around it (generateCustomValuesMap, helm.go:505).
THEOREM UserValuesAreApplied == ConfigSpec => []UserValuesWin
  BY ConfigMerges, LaterSourcesWin, PTL

-----------------------------------------------------------------------------
(* Both phases together.                                                   *)

\* A release that is through: a of its charts were LCM's own, n the others.
Through(a, n) ==
    /\ IsRelease(input) /\ KnownCharts(input)
    /\ a \in Nat /\ n \in Nat /\ a = Len(upgraded) /\ n = Len(result)
    /\ Len(Whole) = a + n
    /\ \A i \in 1..a : /\ Whole[i] = upgraded[i]
                       /\ Whole[i] \in ToSet(LCMConfigs(input))
    /\ \A i \in 1..n : /\ Whole[a + i] = ConfigOf(result[i])
                       /\ Whole[a + i].name = result[i] /\ Sorted[i].name = result[i]
                       /\ Whole[a + i] \in ToSet(PipelineConfigs(input))
    /\ Went(upgraded, LCMConfigs(input)) /\ Went(Sorted, PipelineConfigs(input))
    /\ Len(Sorted) = n
    /\ ToSet(Whole) = ToSet(upgraded) \cup ToSet(Sorted)
    /\ ToSet(ManifestCharts) = Listing(input)

LEMMA CompleteIsThrough ==
    ASSUME ConfigInv, Complete
    PROVE  \E a, n : Through(a, n)
  <1>1. PICK s : s = Sorted
    OBVIOUS
  <1>2. PICK u : u = upgraded
    OBVIOUS
  <1>3. PICK a : a = Len(u)
    OBVIOUS
  <1>4. PICK n : n = Len(result)
    OBVIOUS
  <1>5. /\ Sorting /\ Ended /\ ~cyclic /\ KnownCharts(input) /\ IsRelease(input)
        /\ configs = PipelineConfigs(input) /\ Went(u, LCMConfigs(input))
    BY <1>2, InputIsRelease DEF ConfigInv, Complete, Phases
  <1>6. /\ Went(s, configs) /\ Len(s) = n /\ n \in Nat
        /\ \A i \in 1..n : s[i] = ConfigOf(result[i]) /\ s[i].name = result[i]
    BY <1>1, <1>4, <1>5, SortedList
  <1>7. s \in Seq(Configs) /\ u \in Seq(Configs) /\ a \in Nat
    BY <1>3, <1>5, <1>6, LenProperties DEF Went
  <1>8. Whole = u \o s
    BY <1>1, <1>2 DEF Whole
  <1>9. /\ Len(u \o s) = a + n
        /\ \A i \in 1..(a + n) : (u \o s)[i] = IF i <= a THEN u[i] ELSE s[i - a]
    BY <1>3, <1>6, <1>7, ConcatProperties
  <1>10. ASSUME NEW i \in 1..a
         PROVE  Whole[i] = u[i] /\ u[i] \in ToSet(LCMConfigs(input))
    <2>1. i \in 1..(a + n) /\ i <= a
      BY <1>6, <1>7
    <2>2. u[i] \in ToSet(u)
      BY <1>3 DEF ToSet
    <2> QED  BY <2>1, <2>2, <1>5, <1>8, <1>9 DEF Went
  <1>11. ASSUME NEW i \in 1..n
         PROVE  Whole[a + i] = s[i] /\ s[i] \in ToSet(PipelineConfigs(input))
    <2>1. a + i \in 1..(a + n) /\ ~(a + i <= a) /\ (a + i) - a = i
      BY <1>6, <1>7
    <2>2. s[i] \in ToSet(s)
      BY <1>6 DEF ToSet
    <2> QED  BY <2>1, <2>2, <1>5, <1>6, <1>8, <1>9 DEF Went
  <1>12. ToSet(Whole) = ToSet(u) \cup ToSet(s)
    BY <1>7, <1>8, JoinedList
  <1>13. ToSet(ManifestCharts) = Listing(input)
    BY <1>5, JoinedList DEF ManifestCharts, IsRelease, Listing
  <1>14. Through(a, n)
    BY <1>1, <1>2, <1>3, <1>4, <1>5, <1>6, <1>7, <1>8, <1>9, <1>10, <1>11, <1>12, <1>13
       DEF Through
  <1> QED  BY <1>14

LEMMA ThroughAllNames ==
    ASSUME NEW a, NEW n, Through(a, n)
    PROVE  {Whole[i].name : i \in 1..Len(Whole)} =
               {ManifestCharts[i].name : i \in 1..Len(ManifestCharts)}
  <1>1. /\ IsRelease(input)
        /\ Went(upgraded, LCMConfigs(input)) /\ Went(Sorted, PipelineConfigs(input))
        /\ ToSet(Whole) = ToSet(upgraded) \cup ToSet(Sorted)
        /\ ToSet(ManifestCharts) = Listing(input)
    BY DEF Through
  <1>2. {Whole[i].name : i \in 1..Len(Whole)} = {x.name : x \in ToSet(Whole)}
    BY DEF ToSet
  <1>3. {ManifestCharts[i].name : i \in 1..Len(ManifestCharts)} =
            {c.name : c \in ToSet(ManifestCharts)}
    BY DEF ToSet
  <1>4. ASSUME NEW x \in ToSet(Whole)
        PROVE  \E c \in Listing(input) : c.name = x.name
    <2>1. x \in ToSet(LCMConfigs(input)) \cup ToSet(PipelineConfigs(input))
      BY <1>1 DEF Went
    <2> QED  BY <2>1, <1>1, LCMElement, PipelineElement DEF Same
  <1>5. ASSUME NEW c \in Listing(input)
        PROVE  \E y \in ToSet(Whole) : y.name = c.name
    <2>1. PICK x \in ToSet(LCMConfigs(input)) \cup ToSet(PipelineConfigs(input)) :
                  Same(x, c)
      BY <1>1, InOnePhase
    <2> QED  BY <2>1, <1>1 DEF Went, Same
  <1>6. {x.name : x \in ToSet(Whole)} = {c.name : c \in ToSet(ManifestCharts)}
    <2>1. PICK w : w = ToSet(Whole)
      OBVIOUS
    <2>2. PICK m : m = ToSet(ManifestCharts)
      OBVIOUS
    <2>3. /\ \A x \in w : \E c \in m : c.name = x.name
          /\ \A c \in m : \E x \in w : x.name = c.name
      BY <1>1, <1>4, <1>5, <2>1, <2>2
    <2>4. {x.name : x \in w} = {c.name : c \in m}
      BY <2>3
    <2> QED  BY <2>1, <2>2, <2>4
  <1> QED  BY <1>2, <1>3, <1>6

LEMMA ThroughOnce ==
    ASSUME NEW a, NEW n, Through(a, n),
           NEW i \in 1..Len(Whole), NEW j \in 1..Len(Whole),
           Whole[i].name = Whole[j].name
    PROVE  i = j
  <1>1. /\ IsRelease(input) /\ a \in Nat /\ n \in Nat /\ Len(Whole) = a + n
        /\ a = Len(upgraded) /\ n = Len(result)
        /\ \A k \in 1..a : Whole[k] = upgraded[k]
        /\ \A k, l \in 1..Len(upgraded) : upgraded[k].name = upgraded[l].name => k = l
    BY DEF Through, Went
  <1>2. /\ \A k \in 1..a : Whole[k].name \in SelfCharts
        /\ \A k \in 1..n : Whole[a + k].name \notin SelfCharts
    BY <1>1, LCMElement, PipelineElement DEF Through
  <1>3. ASSUME NEW k \in 1..n, NEW l \in 1..n, Whole[a + k].name = Whole[a + l].name
        PROVE  k = l
    <2>1. PICK s : s = Sorted
      OBVIOUS
    <2>2. /\ \A m \in 1..n : Whole[a + m].name = result[m] /\ s[m].name = result[m]
          /\ Went(s, PipelineConfigs(input)) /\ Len(s) = n
      BY <2>1 DEF Through
    <2> QED  BY <1>3, <2>2 DEF Went
  <1>4. CASE i <= a /\ j <= a
    BY <1>1, <1>4
  <1>5. CASE i > a /\ j > a
    <2>1. i - a \in 1..n /\ j - a \in 1..n /\ a + (i - a) = i /\ a + (j - a) = j
      BY <1>1, <1>5
    <2>2. i - a = j - a
      BY <2>1, <1>3
    <2> QED  BY <2>2, <1>1
  <1>6. CASE i <= a /\ j > a
    <2>1. i \in 1..a /\ j - a \in 1..n /\ a + (j - a) = j
      BY <1>1, <1>6
    <2> QED  BY <2>1, <1>2
  <1>7. CASE i > a /\ j <= a
    <2>1. j \in 1..a /\ i - a \in 1..n /\ a + (i - a) = i
      BY <1>1, <1>7
    <2> QED  BY <2>1, <1>2
  <1> QED  BY <1>1, <1>4, <1>5, <1>6, <1>7

LEMMA ThroughInOrder ==
    ASSUME NEW a, NEW n, Through(a, n), ConfigInv, Complete,
           NEW i \in 1..Len(Whole), i > a,
           NEW d \in ToSet(Whole[i].deps),
           NEW j \in 1..Len(Whole), Whole[j].name = d
    PROVE  j < i
  <1>1. /\ a \in Nat /\ n \in Nat /\ Len(Whole) = a + n /\ n = Len(result)
        /\ \A k \in 1..n : /\ Whole[a + k] = ConfigOf(result[k])
                           /\ Whole[a + k].name = result[k]
    BY DEF Through
  <1>2. CASE j <= a
    BY <1>1, <1>2
  <1>3. CASE j > a
    <2>1. PICK k \in 1..n : i = a + k
      <3>1. i - a \in 1..n /\ i = a + (i - a)
        BY <1>1
      <3> QED  BY <3>1
    <2>2. PICK l \in 1..n : j = a + l
      <3>1. j - a \in 1..n /\ j = a + (j - a)
        BY <1>1, <1>3
      <3> QED  BY <3>1
    <2>3. d = result[l] /\ d \in ToSet(ConfigOf(result[k]).deps)
      BY <2>1, <2>2, <1>1
    <2>4. /\ ToSet(result) = Listed /\ DependenciesBefore
      BY SortedList DEF ConfigInv, Complete, Sorting
    <2>5. d \in DepsOf(result[k])
      <3>1. d \in Listed
        BY <1>1, <2>3, <2>4 DEF ToSet
      <3> QED  BY <2>3, <3>1 DEF DepsOf
    <2>6. PICK m \in 1..(k - 1) : result[m] = d
      <3>1. DepsOf(result[k]) \subseteq {result[m] : m \in 1..(k - 1)}
        BY <1>1, <2>4 DEF DependenciesBefore
      <3> QED  BY <2>5, <3>1
    <2>7. m \in 1..n /\ \A p, q \in 1..n : result[p] = result[q] => p = q
      BY <1>1, <2>4, <2>6 DEF DependenciesBefore
    <2>8. m = l
      BY <2>3, <2>6, <2>7
    <2> QED  BY <1>1, <2>1, <2>2, <2>6, <2>8
  <1> QED  BY <1>1, <1>2, <1>3

\* A release that is through went through every chart of its manifests once,
\* LCM's own first, and after what it depends on (parseUpgradeConfig,
\* lcmUpgradeConfig, sortChartConfigsByDependencies), however many charts the
\* manifests list and whatever depends on what.
THEOREM EveryChartInOrder == ConfigSpec => []WholeOrder
  <1>1. ASSUME ConfigInv
        PROVE  WholeOrder
    <2> DEFINE At(name) == {i \in 1..Len(Whole) : Whole[i].name = name}
               Own(i)   == Whole[i].chart \in SelfCharts
    <2> SUFFICES ASSUME Complete
                 PROVE  /\ {Whole[i].name : i \in 1..Len(Whole)} =
                            {ManifestCharts[i].name : i \in 1..Len(ManifestCharts)}
                        /\ \A i \in 1..Len(Whole) :
                              /\ Cardinality(At(Whole[i].name)) = 1
                              /\ Own(i) <=> i <= Len(upgraded)
                              /\ ~Own(i) => \A d \in ToSet(Whole[i].deps) :
                                               \A j \in At(d) : j < i
      BY DEF WholeOrder
    <2>1. PICK a, n : Through(a, n)
      BY <1>1, CompleteIsThrough
    <2>2. ASSUME NEW i \in 1..Len(Whole)
          PROVE  Cardinality(At(Whole[i].name)) = 1
      <3>1. At(Whole[i].name) = {i}
        BY <2>1, ThroughOnce
      <3> HIDE DEF At
      <3> QED  BY <3>1, FS_Singleton
    <2>3. ASSUME NEW i \in 1..Len(Whole)
          PROVE  Own(i) <=> i <= a
      <3>1. /\ IsRelease(input) /\ a \in Nat /\ n \in Nat /\ Len(Whole) = a + n
            /\ \A k \in 1..a : Whole[k] \in ToSet(LCMConfigs(input))
            /\ \A k \in 1..n : Whole[a + k] \in ToSet(PipelineConfigs(input))
        BY <2>1 DEF Through
      <3>2. CASE i <= a
        BY <3>1, <3>2, LCMElement
      <3>3. CASE i > a
        <4>1. i - a \in 1..n /\ a + (i - a) = i
          BY <3>1, <3>3
        <4>2. Whole[i] \in ToSet(PipelineConfigs(input))
          BY <3>1, <4>1
        <4>3. ~(i <= a)
          BY <3>1, <3>3
        <4> QED  BY <3>1, <4>2, <4>3, PipelineElement
      <3> QED  BY <3>1, <3>2, <3>3
    <2>4. a = Len(upgraded) /\ a \in Nat
      BY <2>1 DEF Through
    <2>5. ASSUME NEW i \in 1..Len(Whole), ~Own(i),
                 NEW d \in ToSet(Whole[i].deps), NEW j \in At(d)
          PROVE  j < i
      <3>1. i > a
        BY <2>3, <2>4, <2>5
      <3> QED  BY <1>1, <2>1, <3>1, ThroughInOrder
    <2>6. {Whole[i].name : i \in 1..Len(Whole)} =
              {ManifestCharts[i].name : i \in 1..Len(ManifestCharts)}
      BY <2>1, ThroughAllNames
    <2> HIDE DEF At, Own
    <2> QED  BY <2>2, <2>3, <2>4, <2>5, <2>6
  <1> QED  BY <1>1, ConfigHolds, PTL

\* The componentConfig of a release is refused exactly when it names a chart
\* that neither manifest has (config.go:213), and otherwise reaches the charts
\* it is for and no other, for every release and every manifest.
THEOREM ConfigReachesItsCharts == ConfigSpec => []UserConfigApplied
  <1>0. ASSUME ConfigInv
        PROVE  Charts(ManifestCharts) = Charts(input.core) \cup Charts(input.solution)
    <2>1. IsRelease(input)
      BY <1>0, InputIsRelease DEF ConfigInv, Phases
    <2>2. ToSet(ManifestCharts) = ToSet(input.core) \cup ToSet(input.solution)
      BY <2>1, JoinedList DEF ManifestCharts, IsRelease
    <2>3. \A list : Charts(list) = {c.chart : c \in ToSet(list)}
      BY DEF Charts, ToSet
    <2>4. PICK m : m = ManifestCharts
      OBVIOUS
    <2>5. \A x : x \in Charts(m) <=> \/ x \in Charts(input.core)
                                     \/ x \in Charts(input.solution)
      BY <2>2, <2>3, <2>4
    <2> QED  BY <2>4, <2>5
  <1>1. ASSUME ConfigInv
        PROVE  UserConfigApplied
    <2> DEFINE configured == input.runtime \ {CRDs}
    <2>1. KnownCharts(input) <=> input.runtime \subseteq Charts(ManifestCharts)
      BY <1>0, <1>1 DEF KnownCharts, AllKnown
    <2>2. phase = "rejected" => ~(input.runtime \subseteq Charts(ManifestCharts))
      BY <1>1, <2>1 DEF ConfigInv, Phases
    <2>3. ASSUME Complete
          PROVE  /\ input.runtime \subseteq Charts(ManifestCharts)
                 /\ \A i \in 1..Len(Whole) :
                       Whole[i].runtime <=> Whole[i].chart \in configured
                 /\ \A i \in 1..Len(ManifestCharts) :
                       ManifestCharts[i].chart \in configured =>
                          \/ ManifestCharts[i].chart \in Charts(Whole)
                          \/ \E k \in 1..Len(ManifestCharts) :
                                /\ ManifestCharts[k].name = ManifestCharts[i].name
                                /\ ManifestCharts[k].chart # ManifestCharts[i].chart
      <3>1. PICK a, n : Through(a, n)
        BY <1>1, <2>3, CompleteIsThrough
      <3>2. /\ IsRelease(input) /\ KnownCharts(input)
            /\ Went(upgraded, LCMConfigs(input)) /\ Went(Sorted, PipelineConfigs(input))
            /\ ToSet(Whole) = ToSet(upgraded) \cup ToSet(Sorted)
            /\ ToSet(ManifestCharts) = Listing(input)
        BY <3>1 DEF Through
      <3>3. ASSUME NEW x \in ToSet(Whole)
            PROVE  Configured(x, input) /\ \E c \in Listing(input) : Same(x, c)
        <4>1. x \in ToSet(LCMConfigs(input)) \cup ToSet(PipelineConfigs(input))
          BY <3>2 DEF Went
        <4> QED  BY <4>1, <3>2, LCMElement, PipelineElement
      <3>4. ASSUME NEW i \in 1..Len(Whole)
            PROVE  Whole[i].runtime <=> Whole[i].chart \in configured
        <4>1. Whole[i] \in ToSet(Whole)
          BY DEF ToSet
        <4> QED  BY <4>1, <3>3 DEF Configured
      <3>5. ASSUME NEW c \in Listing(input)
            PROVE  \/ \E y \in ToSet(Whole) : y.chart = c.chart
                   \/ \E e \in Listing(input) : e.name = c.name /\ e.chart # c.chart
        <4>1. PICK x \in ToSet(LCMConfigs(input)) \cup ToSet(PipelineConfigs(input)) :
                      Same(x, c)
          BY <3>2, InOnePhase
        <4>2. PICK y \in ToSet(Whole) : y.name = x.name
          BY <3>2, <4>1 DEF Went
        <4>3. PICK e \in Listing(input) : Same(y, e)
          BY <3>3
        <4> QED  BY <4>1, <4>2, <4>3 DEF Same
      <3>6. ASSUME NEW i \in 1..Len(ManifestCharts)
            PROVE  \/ ManifestCharts[i].chart \in Charts(Whole)
                   \/ \E k \in 1..Len(ManifestCharts) :
                         /\ ManifestCharts[k].name = ManifestCharts[i].name
                         /\ ManifestCharts[k].chart # ManifestCharts[i].chart
        <4>1. ManifestCharts[i] \in Listing(input)
          BY <3>2 DEF ToSet
        <4>2. \A e \in Listing(input) : \E k \in 1..Len(ManifestCharts) :
                 e = ManifestCharts[k]
          BY <3>2 DEF ToSet
        <4>3. \A y \in ToSet(Whole) : y.chart \in Charts(Whole)
          BY DEF ToSet, Charts
        <4> QED  BY <3>5, <4>1, <4>2, <4>3
      <3> QED  BY <2>1, <3>2, <3>4, <3>6
    <2> QED  BY <2>2, <2>3 DEF UserConfigApplied
  <1> QED  BY <1>1, ConfigHolds, PTL

\* parseDrainOpts decides for every number of control plane nodes and workers
\* as docs/workflow.md:23 and 37 say.
THEOREM DrainIsAsDocumented == ConfigSpec => []DrainAsDocumented
  <1>1. ASSUME NEW cp \in Nat \ {0}, NEW w \in Nat, NEW disabled \in BOOLEAN,
               NEW in, in.controlPlane = cp, in.workers = w, in.disableDrain = disabled
        PROVE  ParseDrainOpts(in) = [controlPlane |-> cp > 1 /\ ~disabled,
                                     worker       |-> w > 1 /\ ~disabled]
    <2>1. CASE disabled
      BY <1>1, <2>1 DEF ParseDrainOpts
    <2>2. CASE ~disabled /\ cp > 1 /\ w <= 1
      <3>1. /\ ~in.disableDrain
            /\ in.controlPlane > 1 /\ in.controlPlane # 1 /\ ~(in.controlPlane <= 1)
            /\ in.workers <= 1 /\ ~(in.workers > 1)
        BY <1>1, <2>2
      <3>2. ParseDrainOpts(in) = [controlPlane |-> TRUE, worker |-> FALSE]
        BY <3>1, Zenon DEF ParseDrainOpts
      <3>3. /\ (cp > 1 /\ ~disabled) = TRUE
            /\ (w > 1 /\ ~disabled) = FALSE
        BY <1>1, <2>2
      <3> QED  BY <3>2, <3>3, Zenon
    <2>3. CASE ~disabled /\ cp = 1 /\ w > 1
      <3>1. /\ ~in.disableDrain
            /\ in.controlPlane = 1 /\ in.controlPlane <= 1 /\ ~(in.controlPlane > 1)
            /\ in.workers > 1 /\ ~(in.workers <= 1)
        BY <1>1, <2>3
      <3>2. ParseDrainOpts(in) = [controlPlane |-> FALSE, worker |-> TRUE]
        BY <3>1, Zenon DEF ParseDrainOpts
      <3>3. /\ (cp > 1 /\ ~disabled) = FALSE
            /\ (w > 1 /\ ~disabled) = TRUE
        BY <1>1, <2>3
      <3> QED  BY <3>2, <3>3, Zenon
    <2>4. CASE ~disabled /\ cp = 1 /\ w <= 1
      <3>1. /\ ~in.disableDrain
            /\ in.controlPlane = 1 /\ in.controlPlane <= 1 /\ ~(in.controlPlane > 1)
            /\ in.workers <= 1 /\ ~(in.workers > 1)
        BY <1>1, <2>4
      <3>2. ParseDrainOpts(in) = [controlPlane |-> FALSE, worker |-> FALSE]
        BY <3>1, Zenon DEF ParseDrainOpts
      <3>3. /\ (cp > 1 /\ ~disabled) = FALSE
            /\ (w > 1 /\ ~disabled) = FALSE
        BY <1>1, <2>4
      <3> QED  BY <3>2, <3>3, Zenon
    <2>5. CASE ~disabled /\ cp > 1 /\ w > 1
      <3>1. /\ ~in.disableDrain
            /\ in.controlPlane > 1 /\ in.controlPlane # 1 /\ ~(in.controlPlane <= 1)
            /\ in.workers > 1 /\ ~(in.workers <= 1)
        BY <1>1, <2>5
      <3>2. ParseDrainOpts(in) = [controlPlane |-> TRUE, worker |-> TRUE]
        BY <3>1, Zenon DEF ParseDrainOpts
      <3>3. /\ (cp > 1 /\ ~disabled) = TRUE
            /\ (w > 1 /\ ~disabled) = TRUE
        BY <1>1, <2>5
      <3> QED  BY <3>2, <3>3, Zenon
    <2> QED  BY <1>1, <2>1, <2>2, <2>3, <2>4, <2>5
  <1>2. ASSUME ConfigInv
        PROVE  DrainAsDocumented
    <2>1. /\ input.controlPlane \in Nat \ {0} /\ input.workers \in Nat
          /\ input.disableDrain \in BOOLEAN
      BY <1>2, ConfigAssumption DEF ConfigInv, Phases, ConfigAssumption
    <2> QED  BY <1>1, <2>1 DEF DrainAsDocumented
  <1> QED  BY <1>2, ConfigHolds, PTL
=============================================================================
