----------------------- MODULE ReleaseManifestsProofs -----------------------
(***************************************************************************)
(* Proofs about ReleaseManifests, for all versions, registries and bounds: *)
(* its type invariant; that a manifest once stored is never lost, although *)
(* the ConfigMap is changed in memory and written as a whole; and that     *)
(* both phases use the manifest of the release they reconcile, as long as  *)
(* each version is published at one registry.                              *)
(***************************************************************************)
EXTENDS ReleaseManifests, TLAPS

\* A missing ConfigMap has no entries.
LEMMA NoConfigMapType == NoConfigMap \in ConfigMaps
  BY DEF NoConfigMap, ConfigMaps

\* The ConfigMap with an entry is one, of the next revision.
LEMMA WriteType ==
    ASSUME TypeOK, WriteConfigMap
    PROVE  /\ stored' \in ConfigMaps
           /\ stored'.revision = stored.revision + 1
           /\ stored'.data = [base.data EXCEPT ![rel.version] = manifest]
           /\ base.revision = stored.revision
  BY DEF TypeOK, WriteConfigMap, WithEntry, Unchanged, ConfigMaps, Images

-----------------------------------------------------------------------------
(* Types.                                                                  *)

\* The variables have their types initially.
LEMMA TypeInit == Init => TypeOK
  <1> SUFFICES ASSUME Init PROVE TypeOK
    OBVIOUS
  <1>1. spec \in Images
    BY DEF Init, Named
  <1>2. NoConfigMap \in ConfigMaps /\ NoConfigMap.revision \in Nat
    BY NoConfigMapType DEF ConfigMaps
  <1> QED  BY <1>1, <1>2, ManifestsAssumption DEF Init, TypeOK

\* A reconcile's end keeps the types of its locals.
LEMMA EndType ==
    ASSUME TypeOK, End, UNCHANGED gen, stored' \in ConfigMaps,
           stored'.revision >= stored.revision
    PROVE  /\ base' \in ConfigMaps /\ base'.revision <= stored'.revision
           /\ pc' = "idle" /\ rel' \in Images /\ relGen' \in 1..gen'
           /\ manifest' = None
  BY NoConfigMapType DEF TypeOK, End, localVars, NoConfigMap, ConfigMaps

\* The bound on faults.
LEMMA FaultType == ASSUME TypeOK, Fault PROVE faults' \in 0..MaxFaults
  BY ManifestsAssumption DEF TypeOK, Fault

\* Every step keeps the types.
LEMMA TypeNext == TypeOK /\ [Next]_vars => TypeOK'
  <1> SUFFICES ASSUME TypeOK, [Next]_vars PROVE TypeOK'
    OBVIOUS
  <1> USE DEF releaseVars, cacheVars, localVars
  <1>1. stored.revision \in Nat /\ seen.revision \in Nat /\ base.revision \in Nat
    BY DEF TypeOK, ConfigMaps
  <1>2. CASE Start
    BY <1>2 DEF Start, TypeOK
  <1>3. CASE UpgradeLCM
    <2>1. PICK i \in UpgradeManifests :
             /\ raw' = raw \cup {i}
             /\ \/ lcm' = (IF relGen = gen THEN i ELSE lcm) /\ pc' = "get"
                   /\ UNCHANGED <<manifest, base, localVars>>
                \/ UNCHANGED lcm /\ End
      BY <1>3 DEF UpgradeLCM
    <2>2. /\ pc = "lcm" /\ UNCHANGED <<spec, gen, result, version, stored, seen,
                                      faults>>
      BY <1>3 DEF UpgradeLCM
    <2>3. i \in Images
      BY DEF UpgradeManifests, TypeOK
    <2>4. CASE End /\ UNCHANGED lcm
      BY <1>1, <2>1, <2>2, <2>3, <2>4, EndType DEF TypeOK
    <2>5. CASE lcm' = (IF relGen = gen THEN i ELSE lcm) /\ pc' = "get"
               /\ UNCHANGED <<manifest, base, localVars>>
      BY <2>1, <2>2, <2>3, <2>5 DEF TypeOK
    <2> QED  BY <2>1, <2>4, <2>5
  <1>4. CASE GetCached
    <2>1. manifest' \in Images
      BY <1>4 DEF GetCached, Cached, TypeOK, ConfigMaps, Images
    <2> QED  BY <1>4, <2>1, ManifestsAssumption DEF GetCached, TypeOK
  <1>5. CASE Retrieve
    <2>1. faults' \in 0..MaxFaults
      BY <1>5, FaultType DEF Retrieve, TypeOK
    <2> QED  BY <1>5, <2>1, ManifestsAssumption DEF Retrieve, TypeOK
  <1>6. CASE ReadConfigMap
    BY <1>6 DEF ReadConfigMap, TypeOK
  <1>7. CASE WriteConfigMap
    <2>1. /\ stored' \in ConfigMaps /\ stored'.revision = stored.revision + 1
      BY <1>7, WriteType
    <2>2. /\ pc = "write" /\ pc' = "use"
          /\ UNCHANGED <<spec, gen, result, version, lcm, seen, raw, rel, relGen,
                         manifest, base, faults>>
      BY <1>7 DEF WriteConfigMap
    <2> QED  BY <1>1, <2>1, <2>2 DEF TypeOK
  <1>8. CASE WriteFails
    <2>1. faults' \in 0..MaxFaults
      BY <1>8, FaultType DEF WriteFails, TypeOK
    <2> QED  BY <1>8, <2>1 DEF WriteFails, TypeOK
  <1>9. CASE RunPipeline
    <2>1. /\ result' \in {"busy", "failed", "applied"}
          /\ version' \in Versions \cup {0}
      BY <1>9 DEF RunPipeline, TypeOK, Images
    <2>2. /\ End /\ UNCHANGED <<spec, gen, lcm, stored, seen, raw, faults>>
      BY <1>9 DEF RunPipeline
    <2> QED  BY <1>1, <2>1, <2>2, EndType DEF TypeOK
  <1>10. CASE ReadFails
    <2>1. /\ End /\ UNCHANGED <<spec, gen, result, version, lcm, stored, seen,
                                raw>>
      BY <1>10 DEF ReadFails
    <2>2. faults' \in 0..MaxFaults
      BY <1>10, FaultType DEF ReadFails
    <2> QED  BY <1>1, <2>1, <2>2, EndType DEF TypeOK
  <1>11. CASE \E i \in Named : Edit(i)
    <2>1. PICK i \in Named : Edit(i)
      BY <1>11
    <2>2. i \in Images
      BY DEF Named
    <2>3. gen' \in 1..(MaxEdits + 1) /\ relGen \in 1..gen'
      BY <2>1, ManifestsAssumption DEF Edit, TypeOK
    <2> QED  BY <2>1, <2>2, <2>3 DEF Edit, TypeOK
  <1>12. CASE CacheSync
    BY <1>1, <1>12 DEF CacheSync, TypeOK
  <1>13. CASE Crash
    <2>1. /\ End /\ raw' = {} /\ seen' = stored
          /\ UNCHANGED <<spec, gen, result, version, lcm, stored>>
      BY <1>13 DEF Crash
    <2>2. faults' \in 0..MaxFaults
      BY <1>13, FaultType DEF Crash
    <2> QED  BY <1>1, <2>1, <2>2, EndType DEF TypeOK
  <1>14. CASE UNCHANGED vars
    BY <1>14 DEF vars, TypeOK
  <1> QED
    BY <1>2, <1>3, <1>4, <1>5, <1>6, <1>7, <1>8, <1>9, <1>10, <1>11, <1>12,
       <1>13, <1>14 DEF Next, Reconcile

\* The variables keep to their types, and no copy of the ConfigMap is ahead
\* of it.
THEOREM TypeCorrect == Spec => []TypeOK
  BY TypeInit, TypeNext, PTL DEF Spec

-----------------------------------------------------------------------------
(***************************************************************************)
(* Nothing is forgotten.  A write replaces all of the ConfigMap, but only  *)
(* at the revision its copy was read at; and a copy of that revision is    *)
(* what is stored, however long ago it was made.                           *)
(***************************************************************************)
CopyOf(c, s) == /\ c.revision <= s.revision
                /\ c.revision = s.revision => c.data = s.data

Copies == /\ CopyOf(seen, stored) /\ CopyOf(base, stored)
          /\ CopyOf(NoConfigMap, stored)

\* Who changes the ConfigMap and its copies, and how.
LEMMA CopyStep ==
    ASSUME [Next]_vars
    PROVE  \/ WriteConfigMap
           \/ /\ stored' = stored
              /\ seen' \in {seen, stored}
              /\ base' \in {base, seen, NoConfigMap}
  <1> USE DEF releaseVars, cacheVars, localVars
  <1>1. CASE Start \/ GetCached \/ Retrieve \/ ReadConfigMap \/ WriteFails
    BY <1>1 DEF Start, GetCached, Retrieve, ReadConfigMap, WriteFails
  <1>2. CASE UpgradeLCM \/ RunPipeline \/ ReadFails
    BY <1>2 DEF UpgradeLCM, RunPipeline, ReadFails, End
  <1>3. CASE \E i \in Named : Edit(i)
    BY <1>3 DEF Edit
  <1>4. CASE CacheSync \/ Crash \/ UNCHANGED vars
    BY <1>4 DEF CacheSync, Crash, End, vars
  <1> QED  BY <1>1, <1>2, <1>3, <1>4 DEF Next, Reconcile

\* Copies is inductive, given the types.
LEMMA CopiesNext == TypeOK /\ Copies /\ [Next]_vars => Copies'
  <1> SUFFICES ASSUME TypeOK, Copies, [Next]_vars PROVE Copies'
    OBVIOUS
  <1>1. /\ stored.revision \in Nat /\ seen.revision \in Nat
        /\ base.revision \in Nat /\ NoConfigMap.revision \in Nat
    BY NoConfigMapType DEF TypeOK, ConfigMaps
  <1>2. CASE WriteConfigMap
    <2>1. stored'.revision = stored.revision + 1
      BY <1>2, WriteType
    <2>2. seen' = seen /\ base' = base
      BY <1>2 DEF WriteConfigMap
    <2> QED  BY <1>1, <2>1, <2>2 DEF Copies, CopyOf
  <1>3. CASE /\ stored' = stored
             /\ seen' \in {seen, stored}
             /\ base' \in {base, seen, NoConfigMap}
    BY <1>1, <1>3 DEF Copies, CopyOf
  <1> QED  BY <1>2, <1>3, CopyStep

\* Copies holds in every behaviour.
LEMMA CopiesCorrect == Spec => []Copies
  <1>1. Init => Copies
    BY DEF Init, Copies, CopyOf, NoConfigMap
  <1> QED  BY <1>1, CopiesNext, TypeCorrect, PTL DEF Spec

\* A manifest once stored stays stored: ManifestCache.set writes back every
\* key it has read, and is refused if others were written meanwhile.
THEOREM ManifestsAreKept == Spec => NothingForgotten
  <1>1. ASSUME TypeOK, Copies, [Next]_vars
        PROVE  \A v \in Versions : stored.data[v] # None => stored'.data[v] # None
    <2>1. CASE WriteConfigMap
      <3>1. /\ stored'.data = [base.data EXCEPT ![rel.version] = manifest]
            /\ base.revision = stored.revision
        BY <1>1, <2>1, WriteType
      <3>2. base.data = stored.data /\ base \in ConfigMaps
        BY <1>1, <3>1 DEF Copies, CopyOf, TypeOK
      <3>3. manifest # None
        BY <1>1, <2>1 DEF WriteConfigMap, TypeOK
      <3> QED  BY <3>1, <3>2, <3>3 DEF ConfigMaps
    <2>2. CASE stored' = stored
      BY <2>2
    <2> QED  BY <1>1, <2>1, <2>2, CopyStep
  <1>2. TypeOK /\ Copies /\ [Next]_vars =>
           [\A v \in Versions : stored.data[v] # None
              => stored'.data[v] # None]_vars
    BY <1>1
  <1> QED  BY <1>2, TypeCorrect, CopiesCorrect, PTL DEF Spec, NothingForgotten

-----------------------------------------------------------------------------
(***************************************************************************)
(* The manifest of the release, when no release names another registry     *)
(* than the one its version is published at: every entry of the ConfigMap  *)
(* and of its copies is then the image a release of that version names.    *)
(***************************************************************************)
AtHome(c) == \A v \in Versions :
                c.data[v] # None => c.data[v] = [registry |-> Home[v], version |-> v]

Sources ==
    /\ spec \in Named /\ rel \in Named
    /\ relGen = gen => rel = spec
    /\ pc \in {"set", "write", "use"} => manifest = rel
    /\ lcm # None => lcm = spec
    /\ AtHome(stored) /\ AtHome(seen) /\ AtHome(base)

\* An image a release may name is that of its version.
LEMMA NamedIs ==
    ASSUME ~Moving, NEW i \in Named
    PROVE  i = [registry |-> Home[i.version], version |-> i.version]
           /\ i.version \in Versions
  BY DEF Named, Images

\* An empty ConfigMap has no entry of another registry.
LEMMA NoneAtHome == AtHome(NoConfigMap)
  BY DEF AtHome, NoConfigMap

\* Sources is inductive.
LEMMA SourcesNext ==
    ASSUME ~Moving, TypeOK, TypeOK', Sources, [Next]_vars
    PROVE  Sources'
  <1> USE DEF releaseVars, cacheVars, localVars
  <1>1. AtHome(stored') /\ AtHome(seen') /\ AtHome(base')
    <2>1. CASE WriteConfigMap
      <3>1. /\ stored'.data = [base.data EXCEPT ![rel.version] = manifest]
            /\ manifest = rel /\ seen' = seen /\ base' = base
        BY <2>1, WriteType DEF WriteConfigMap, Sources
      <3>2. /\ rel = [registry |-> Home[rel.version], version |-> rel.version]
            /\ base \in ConfigMaps
        BY NamedIs DEF Sources, TypeOK
      <3>3. AtHome(stored')
        BY <3>1, <3>2 DEF Sources, AtHome, ConfigMaps
      <3> QED  BY <3>1, <3>3 DEF Sources
    <2>2. CASE /\ stored' = stored
               /\ seen' \in {seen, stored}
               /\ base' \in {base, seen, NoConfigMap}
      BY <2>2, NoneAtHome DEF Sources
    <2> QED  BY <2>1, <2>2, CopyStep
  <1>2. ASSUME UNCHANGED <<spec, gen>> PROVE spec' \in Named
    BY <1>2 DEF Sources
  <1>3. CASE Start
    BY <1>1, <1>3 DEF Start, Sources
  <1>4. CASE UpgradeLCM
    <2>1. UpgradeManifests = {rel}
      BY DEF UpgradeManifests, SameImage
    <2>2. lcm' \in {lcm, rel} /\ (lcm' = rel => lcm' = lcm \/ relGen = gen)
      BY <1>4, <2>1 DEF UpgradeLCM
    <2>3. /\ pc' \in {"get", "idle"}
          /\ UNCHANGED <<spec, gen, rel, relGen>>
      BY <1>4 DEF UpgradeLCM, End
    <2> QED  BY <1>1, <2>2, <2>3 DEF Sources
  <1>5. CASE GetCached
    <2>1. manifest' = seen.data[rel.version] /\ manifest' # None
      BY <1>5 DEF GetCached, Cached
    <2>2. manifest' = rel
      BY <2>1, NamedIs DEF Sources, AtHome
    <2> QED  BY <1>1, <1>5, <2>2 DEF GetCached, Sources
  <1>6. CASE Retrieve
    BY <1>1, <1>6 DEF Retrieve, Sources
  <1>7. CASE ReadConfigMap
    BY <1>1, <1>7 DEF ReadConfigMap, Sources
  <1>8. CASE WriteConfigMap
    BY <1>1, <1>8 DEF WriteConfigMap, Sources
  <1>9. CASE WriteFails
    BY <1>1, <1>9 DEF WriteFails, Sources
  <1>10. CASE RunPipeline \/ ReadFails
    BY <1>1, <1>10 DEF RunPipeline, ReadFails, End, Sources
  <1>11. CASE \E i \in Named : Edit(i)
    <2>1. PICK i \in Named : Edit(i)
      BY <1>11
    <2>2. relGen # gen'
      BY <2>1 DEF Edit, TypeOK
    <2> QED  BY <1>1, <2>1, <2>2 DEF Edit, Sources
  <1>12. CASE CacheSync \/ UNCHANGED vars
    BY <1>1, <1>12 DEF CacheSync, vars, Sources
  <1>13. CASE Crash
    BY <1>1, <1>13 DEF Crash, End, Sources
  <1> QED
    BY <1>3, <1>4, <1>5, <1>6, <1>7, <1>8, <1>9, <1>10, <1>11, <1>12, <1>13
       DEF Next, Reconcile

\* Both phases of every release work from its own manifest, provided that a
\* version is published at one registry: the ConfigMap's key is the version.
THEOREM ManifestIsOfRelease ==
    ASSUME ~Moving
    PROVE  Spec => []ManifestOfRelease
  <1>1. Init => Sources
    BY NoneAtHome DEF Init, Sources
  <1>2. TypeOK /\ TypeOK' /\ Sources /\ [Next]_vars => Sources'
    BY SourcesNext
  <1>3. Sources => ManifestOfRelease
    BY DEF Sources, ManifestOfRelease
  <1> QED  BY <1>1, <1>2, <1>3, TypeCorrect, PTL DEF Spec
=============================================================================
