-------------------------- MODULE ReleaseManifests --------------------------
(***************************************************************************)
(* Where a reconcile gets the manifests of its release from                *)
(* (getOrRetrieveUpgradeManifest and getOrRetrieveManifest in              *)
(* internal/controller/release_controller.go, internal/release): the LCM   *)
(* phase from an image or from memory, the pipeline from an image or from  *)
(* a ConfigMap, which it reads through the informer cache and writes with  *)
(* the resourceVersion it read.                                            *)
(*                                                                         *)
(* A manifest is identified by the image it was read from; an image does   *)
(* not change.  What the phases do with it is a nondeterministic result.   *)
(***************************************************************************)
EXTENDS Naturals

CONSTANTS Registries, Versions,
          Home,         \* version -> the registry it is published at
          Moving,       \* may a release name another registry than Home?
          MaxEdits,     \* bound: generations after the first
          MaxFaults     \* bound: failed calls and crashes

Images == [registry : Registries, version : Versions]
None   == [registry |-> "none", version |-> 0]

ASSUME ManifestsAssumption ==
    /\ Versions \subseteq Nat \ {0} /\ Home \in [Versions -> Registries]
    /\ None \notin Images
    /\ Moving \in BOOLEAN /\ MaxEdits \in Nat /\ MaxFaults \in Nat

VARIABLES
    spec,       \* the image the Release names: spec.registry, spec.version
    gen,        \* its generation
    result,     \* Applied: busy, failed or applied
    version,    \* status.version, 0: none
    lcm,        \* image the LCM phase of this generation ended with, or None
    stored,     \* the ConfigMap: resourceVersion, 0 for none, and manifests
    seen,       \* the same, in the informer cache
    raw,        \* RawManifests: the images in memory
    pc, rel, relGen,    \* the reconcile and its copy of the Release
    manifest,   \* the manifest retrieved
    base,       \* the ConfigMap as set read it
    faults

releaseVars == <<spec, gen, result, version>>
cacheVars   == <<stored, seen>>
localVars   == <<rel, relGen>>
vars == <<spec, gen, result, version, lcm, stored, seen, raw, pc, rel, relGen,
          manifest, base, faults>>

NoConfigMap == [revision |-> 0, data |-> [v \in Versions |-> None]]

\* Images a user may name.
Named == IF Moving THEN Images ELSE {i \in Images : i.registry = Home[i.version]}

Init ==
    /\ spec \in Named /\ gen = 1 /\ result = "busy" /\ version = 0
    /\ lcm = None
    /\ stored = NoConfigMap /\ seen = NoConfigMap /\ raw = {}
    /\ pc = "idle" /\ rel = spec /\ relGen = 1
    /\ manifest = None /\ base = NoConfigMap
    /\ faults = 0

Fault == faults < MaxFaults /\ faults' = faults + 1

-----------------------------------------------------------------------------
(* The reconcile                                                           *)

\* The LCM phase runs until its condition is complete.
Start ==
    /\ pc = "idle"
    /\ rel' = spec /\ relGen' = gen
    /\ pc' = IF lcm = None THEN "lcm" ELSE "get"
    /\ UNCHANGED <<releaseVars, lcm, cacheVars, raw, manifest, base, faults>>

End == /\ pc' = "idle" /\ manifest' = None /\ base' = NoConfigMap
       /\ UNCHANGED localVars

SameImage(i) == i = rel

\* What the LCM phase works from: an image in memory, else the one read.
UpgradeManifests == LET held == {i \in raw : SameImage(i)}
                    IN IF held = {} THEN {rel} ELSE held

\* getOrRetrieveUpgradeManifest and the LCM phase.  Its condition counts for
\* the generation it was computed for.
UpgradeLCM ==
    /\ pc = "lcm"
    /\ \E i \in UpgradeManifests :
          /\ raw' = raw \cup {i}
          /\ \/ lcm' = (IF relGen = gen THEN i ELSE lcm) /\ pc' = "get"
                /\ UNCHANGED <<manifest, base, localVars>>
             \/ UNCHANGED lcm /\ End     \* in progress, or failed
    /\ UNCHANGED <<releaseVars, cacheVars, faults>>

\* Mutant: any manifest in the ConfigMap will do.
AnyKey(data) == {data[v] : v \in Versions} \ {None}

\* Mutant: a missing entry counts as a manifest.
MissingToo(data) == {data[rel.version]}

Cached(data) == {data[rel.version]} \ {None}

\* ManifestCache.Get; an error of it counts as not found.
GetCached ==
    /\ pc = "get"
    /\ \E i \in Cached(seen.data) : manifest' = i
    /\ pc' = "use"
    /\ UNCHANGED <<releaseVars, lcm, cacheVars, raw, localVars, base, faults>>

Retrieve ==
    /\ pc = "get"
    /\ \/ Cached(seen.data) = {} /\ UNCHANGED faults
       \/ Cached(seen.data) # {} /\ Fault
    /\ manifest' = rel
    /\ pc' = "set"
    /\ UNCHANGED <<releaseVars, lcm, cacheVars, raw, localVars, base>>

\* ManifestCache.Set reads the ConfigMap and then creates or updates it.
ReadConfigMap ==
    /\ pc = "set"
    /\ base' = seen /\ pc' = "write"
    /\ UNCHANGED <<releaseVars, lcm, cacheVars, raw, localVars, manifest, faults>>

\* Mutant: the update names no resourceVersion.
Unconditional == TRUE

\* Create finds nothing under the name; Update finds the version read.
Unchanged == base.revision = stored.revision

\* Mutant: the data is replaced by the new entry.
OnlyEntry(data) == [v \in Versions |-> IF v = rel.version THEN manifest ELSE None]

WithEntry(data) == [data EXCEPT ![rel.version] = manifest]

WriteConfigMap ==
    /\ pc = "write" /\ Unchanged
    /\ stored' = [revision |-> stored.revision + 1,
                  data     |-> WithEntry(base.data)]
    /\ pc' = "use"
    /\ UNCHANGED <<releaseVars, lcm, seen, raw, localVars, manifest, base, faults>>

\* AlreadyExists, a conflict or another error: logged, the manifest is used.
WriteFails ==
    /\ pc \in {"set", "write"}
    /\ \/ pc = "write" /\ ~Unchanged /\ UNCHANGED faults
       \/ Fault
    /\ pc' = "use"
    /\ UNCHANGED <<releaseVars, lcm, cacheVars, raw, localVars, manifest, base>>

\* The pipeline runs on the manifest, and its status is written unless the
\* Release has a new generation by then.
RunPipeline ==
    /\ pc = "use"
    /\ IF relGen = gen
       THEN /\ result' \in {"busy", "failed", "applied"}
            /\ version' = IF result' = "applied" THEN rel.version ELSE version
       ELSE UNCHANGED <<result, version>>
    /\ End
    /\ UNCHANGED <<spec, gen, lcm, cacheVars, raw, faults>>

\* An image cannot be read: the reconcile ends.
ReadFails ==
    /\ pc \in {"lcm", "get"}
    /\ Fault /\ End
    /\ UNCHANGED <<releaseVars, lcm, cacheVars, raw>>

-----------------------------------------------------------------------------
(* User, informer, process                                                 *)

Edit(i) ==
    /\ gen <= MaxEdits /\ i # spec
    /\ result # "busy"
    /\ version # 0 => i.version > version
    /\ spec' = i /\ gen' = gen + 1 /\ result' = "busy" /\ lcm' = None
    /\ UNCHANGED <<version, cacheVars, raw, pc, localVars, manifest, base, faults>>

CacheSync ==
    /\ seen # stored /\ seen' = stored
    /\ UNCHANGED <<releaseVars, lcm, stored, raw, pc, localVars, manifest, base,
                   faults>>

\* The memory is lost, the informer starts from what is stored.
Crash ==
    /\ Fault /\ End
    /\ raw' = {} /\ seen' = stored
    /\ UNCHANGED <<releaseVars, lcm, stored>>

Reconcile == \/ Start \/ UpgradeLCM \/ GetCached \/ Retrieve \/ ReadConfigMap
             \/ WriteConfigMap \/ WriteFails \/ RunPipeline \/ ReadFails

Next == Reconcile \/ (\E i \in Named : Edit(i)) \/ CacheSync \/ Crash

Spec == Init /\ [][Next]_vars

-----------------------------------------------------------------------------
(* Properties                                                              *)

\* The variables keep to their types, and the cache is not ahead of what is
\* stored.
ConfigMaps == [revision : Nat, data : [Versions -> Images \cup {None}]]
TypeOK ==
    /\ spec \in Images /\ gen \in 1..(MaxEdits + 1)
    /\ result \in {"busy", "failed", "applied"} /\ version \in Versions \cup {0}
    /\ lcm \in Images \cup {None}
    /\ stored \in ConfigMaps /\ seen \in ConfigMaps /\ base \in ConfigMaps
    /\ base.revision <= stored.revision /\ seen.revision <= stored.revision
    /\ raw \subseteq Images
    /\ pc \in {"idle", "lcm", "get", "set", "write", "use"}
    /\ rel \in Images /\ relGen \in 1..gen
    /\ manifest \in Images \cup {None}
    /\ pc \in {"set", "write", "use"} <=> manifest # None
    /\ faults \in 0..MaxFaults

\* Both phases work from the manifest of the release being reconciled, each
\* from its own cache, across edits, lagging reads and restarts.
ManifestOfRelease ==
    /\ pc = "use" => manifest = rel
    /\ lcm # None => lcm = spec

\* ManifestCache.set leaves other keys untouched (manifest_cache.go:86): a
\* manifest once stored stays, whatever the copy that set started from.
NothingForgotten ==
    [][\A v \in Versions : stored.data[v] # None => stored'.data[v] # None]_vars
=============================================================================
