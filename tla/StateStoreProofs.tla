--------------------------- MODULE StateStoreProofs ---------------------------
(***************************************************************************)
(* Lemmas about the operations of the state manager that the proofs about  *)
(* its callers rest on: the types they keep, the one entry they touch, and *)
(* what they do to the file.                                               *)
(***************************************************************************)
EXTENDS StateStore, TLAPS

\* A change of the public map, and its write if it is written.
PublicCall(ok) ==
    \/ \E k \in Keys : Remove(k, ok)
    \/ \E k \in Keys, r \in Resources, w \in BOOLEAN : AddOrUpdate(k, r, w, ok)

\* A change of the private map, and its write if it is written.
PrivateCall(ok) ==
    \/ \E k \in PrivateKeys : RemovePrivate(k, ok)
    \/ \E k \in PrivateKeys, r \in PrivateResources, w \in BOOLEAN : AddOrUpdatePrivate(k, r, w, ok)

\* The file holds both maps.
Level == outputFile = BlueprintOf(resources, privateResources)

\* Every manager call keeps the manager's state well typed.
LEMMA ManagerTypes ==
    ASSUME StoreTypeOK, NEW ok \in BOOLEAN, PublicCall(ok) \/ PrivateCall(ok) \/ ForceWrite(ok)
    PROVE  StoreTypeOK'
<1>0. \A pub \in PublicMap, priv \in PrivateMap : BlueprintOf(pub, priv) \in Blueprints
  BY DEF BlueprintOf, Blueprints
<1>w. ASSUME NEW pub \in PublicMap, NEW priv \in PrivateMap, WriteState(pub, priv, ok)
      PROVE  outputFile' \in Blueprints \cup {NoFile} /\ lastWriteErr' \in BOOLEAN
  BY <1>0, <1>w DEF WriteState, StoreTypeOK
<1>1. ASSUME NEW k \in Keys, Remove(k, ok) PROVE StoreTypeOK'
  <2>1. resources' \in PublicMap /\ privateResources' = privateResources
    BY <1>1 DEF Remove, StoreTypeOK, storeVars, PublicMap
  <2> QED
    BY <1>1, <1>w, <2>1 DEF Remove, StoreTypeOK, storeVars
<1>2. ASSUME NEW k \in Keys, NEW r \in Resources, NEW w \in BOOLEAN, AddOrUpdate(k, r, w, ok)
      PROVE  StoreTypeOK'
  <2>1. resources' \in PublicMap /\ privateResources' = privateResources
    BY <1>2 DEF AddOrUpdate, StoreTypeOK, storeVars, PublicMap
  <2> QED
    BY <1>2, <1>w, <2>1 DEF AddOrUpdate, StoreTypeOK, storeVars, KeepFile
<1>3. ASSUME NEW k \in PrivateKeys, RemovePrivate(k, ok) PROVE StoreTypeOK'
  <2>1. privateResources' \in PrivateMap /\ resources' = resources
    BY <1>3 DEF RemovePrivate, StoreTypeOK, storeVars, PrivateMap
  <2> QED
    BY <1>3, <1>w, <2>1 DEF RemovePrivate, StoreTypeOK, storeVars
<1>4. ASSUME NEW k \in PrivateKeys, NEW r \in PrivateResources, NEW w \in BOOLEAN,
             AddOrUpdatePrivate(k, r, w, ok)
      PROVE  StoreTypeOK'
  <2>1. privateResources' \in PrivateMap /\ resources' = resources
    BY <1>4 DEF AddOrUpdatePrivate, StoreTypeOK, storeVars, PrivateMap
  <2> QED
    BY <1>4, <1>w, <2>1 DEF AddOrUpdatePrivate, StoreTypeOK, storeVars, KeepFile
<1>5. ASSUME ForceWrite(ok) PROVE StoreTypeOK'
  BY <1>5, <1>w DEF ForceWrite, StoreTypeOK
<1> QED
  BY <1>1, <1>2, <1>3, <1>4, <1>5 DEF PublicCall, PrivateCall

\* A call changes the entry of its key and no other, and never both maps.
LEMMA OneEntryChanges ==
    ASSUME StoreTypeOK, NEW ok \in BOOLEAN
    PROVE  /\ \A k \in Keys : Remove(k, ok) =>
                /\ resources'[k] = NoEntry
                /\ \A j \in Keys : j # k => resources'[j] = resources[j]
                /\ privateResources' = privateResources
           /\ \A k \in Keys, r \in Resources, w \in BOOLEAN : AddOrUpdate(k, r, w, ok) =>
                /\ resources'[k] = r
                /\ \A j \in Keys : j # k => resources'[j] = resources[j]
                /\ privateResources' = privateResources
           /\ \A k \in PrivateKeys : RemovePrivate(k, ok) =>
                /\ privateResources'[k] = NoEntry
                /\ \A j \in PrivateKeys : j # k => privateResources'[j] = privateResources[j]
                /\ resources' = resources
           /\ \A k \in PrivateKeys, r \in PrivateResources, w \in BOOLEAN :
                AddOrUpdatePrivate(k, r, w, ok) =>
                /\ privateResources'[k] = r
                /\ \A j \in PrivateKeys : j # k => privateResources'[j] = privateResources[j]
                /\ resources' = resources
<1>1. ASSUME NEW k \in Keys, Remove(k, ok)
      PROVE  /\ resources'[k] = NoEntry
             /\ \A j \in Keys : j # k => resources'[j] = resources[j]
             /\ privateResources' = privateResources
  BY <1>1 DEF Remove, StoreTypeOK, storeVars, PublicMap
<1>2. ASSUME NEW k \in Keys, NEW r \in Resources, NEW w \in BOOLEAN, AddOrUpdate(k, r, w, ok)
      PROVE  /\ resources'[k] = r
             /\ \A j \in Keys : j # k => resources'[j] = resources[j]
             /\ privateResources' = privateResources
  BY <1>2 DEF AddOrUpdate, StoreTypeOK, storeVars, PublicMap
<1>3. ASSUME NEW k \in PrivateKeys, RemovePrivate(k, ok)
      PROVE  /\ privateResources'[k] = NoEntry
             /\ \A j \in PrivateKeys : j # k => privateResources'[j] = privateResources[j]
             /\ resources' = resources
  BY <1>3 DEF RemovePrivate, StoreTypeOK, storeVars, PrivateMap
<1>4. ASSUME NEW k \in PrivateKeys, NEW r \in PrivateResources, NEW w \in BOOLEAN,
             AddOrUpdatePrivate(k, r, w, ok)
      PROVE  /\ privateResources'[k] = r
             /\ \A j \in PrivateKeys : j # k => privateResources'[j] = privateResources[j]
             /\ resources' = resources
  BY <1>4 DEF AddOrUpdatePrivate, StoreTypeOK, storeVars, PrivateMap
<1> QED
  BY <1>1, <1>2, <1>3, <1>4

\* What a manager call does to the file: a change with write = false leaves the
\* file behind, anything else keeps it level or records the failure.
LEMMA ManagerPublishes ==
    ASSUME NEW ok \in BOOLEAN
    PROVE  /\ \A k \in Keys : Remove(k, ok) => UNCHANGED storeVars \/ lastWriteErr' \/ Level'
           /\ \A k \in Keys, r \in Resources, w \in BOOLEAN :
                AddOrUpdate(k, r, w, ok) => UNCHANGED storeVars \/ lastWriteErr' \/ Level' \/ ~w
           /\ \A k \in PrivateKeys :
                RemovePrivate(k, ok) => UNCHANGED storeVars \/ lastWriteErr' \/ Level'
           /\ \A k \in PrivateKeys, r \in PrivateResources, w \in BOOLEAN :
                AddOrUpdatePrivate(k, r, w, ok) => UNCHANGED storeVars \/ lastWriteErr' \/ Level' \/ ~w
           /\ ForceWrite(ok) => lastWriteErr' \/ Level'
<1>1. ASSUME NEW k \in Keys, Remove(k, ok) PROVE UNCHANGED storeVars \/ lastWriteErr' \/ Level'
  BY <1>1 DEF Remove, WriteState, Level
<1>2. ASSUME NEW k \in Keys, NEW r \in Resources, NEW w \in BOOLEAN, AddOrUpdate(k, r, w, ok)
      PROVE  UNCHANGED storeVars \/ lastWriteErr' \/ Level' \/ ~w
  BY <1>2 DEF AddOrUpdate, WriteState, Level
<1>3. ASSUME NEW k \in PrivateKeys, RemovePrivate(k, ok)
      PROVE  UNCHANGED storeVars \/ lastWriteErr' \/ Level'
  BY <1>3 DEF RemovePrivate, WriteState, Level
<1>4. ASSUME NEW k \in PrivateKeys, NEW r \in PrivateResources, NEW w \in BOOLEAN,
             AddOrUpdatePrivate(k, r, w, ok)
      PROVE  UNCHANGED storeVars \/ lastWriteErr' \/ Level' \/ ~w
  BY <1>4 DEF AddOrUpdatePrivate, WriteState, Level
<1>5. ASSUME ForceWrite(ok) PROVE lastWriteErr' \/ Level'
  BY <1>5 DEF ForceWrite, WriteState, Level
<1> QED
  BY <1>1, <1>2, <1>3, <1>4, <1>5
===============================================================================
