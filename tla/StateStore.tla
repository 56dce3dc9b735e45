------------------------------ MODULE StateStore ------------------------------
(***************************************************************************)
(* What internal/state promises its callers: a map of public resources and *)
(* a map of private resources that are changed one whole operation at a    *)
(* time, and a blueprint file that a write either replaces by the complete *)
(* blueprint of both maps or leaves as it was.                             *)
(*                                                                         *)
(* The operations are used as they stand by the modules that model the     *)
(* callers (Controller, Reconciler); module Manager models the code itself *)
(* (the mutex and the steps of writeState) and is shown to implement       *)
(* StoreSpec.                                                              *)
(***************************************************************************)

CONSTANTS
    Keys,             \* keys of public resources
    PrivateKeys,      \* keys of private resources
    Resources,        \* blueprint.Resource values
    PrivateResources, \* blueprint.PrivateResource values
    NoEntry,          \* a key that is not in the map
    NoFile            \* the output file does not exist

PublicMap == [Keys -> Resources \cup {NoEntry}]
PrivateMap == [PrivateKeys -> PrivateResources \cup {NoEntry}]
Blueprints == [public : PublicMap, private : PrivateMap]

ASSUME StoreAssumption ==
    /\ NoEntry \notin Resources \cup PrivateResources
    /\ NoFile \notin Blueprints

VARIABLES
    resources,        \* m.resources
    privateResources, \* m.privateResources
    outputFile,       \* the content of m.outputFile on the shared volume
    lastWriteErr      \* m.lastWriteErr # nil

storeVars == <<resources, privateResources, outputFile, lastWriteErr>>

EmptyPublic == [k \in Keys |-> NoEntry]
EmptyPrivate == [k \in PrivateKeys |-> NoEntry]

\* The Blueprint value that writeState marshals.
BlueprintOf(pub, priv) == [public |-> pub, private |-> priv]

StoreTypeOK ==
    /\ resources \in PublicMap
    /\ privateResources \in PrivateMap
    /\ outputFile \in Blueprints \cup {NoFile}
    /\ lastWriteErr \in BOOLEAN

\* NewManager: empty maps, no write attempted. The file is whatever an earlier
\* process left on the volume.
NewManager ==
    /\ resources' = EmptyPublic
    /\ privateResources' = EmptyPrivate
    /\ lastWriteErr' = FALSE
    /\ UNCHANGED outputFile

StoreInit ==
    /\ resources = EmptyPublic
    /\ privateResources = EmptyPrivate
    /\ outputFile = NoFile
    /\ lastWriteErr = FALSE

(***************************************************************************)
(* writeState, seen from outside the mutex: ok tells whether every step of *)
(* it succeeded.                                                           *)
(***************************************************************************)
WriteState(pub, priv, ok) ==
    /\ outputFile' = IF ok THEN BlueprintOf(pub, priv) ELSE outputFile
    /\ lastWriteErr' = ~ok

KeepFile == UNCHANGED <<outputFile, lastWriteErr>>

\* reflect.DeepEqual suppresses both the change and the write.
AddOrUpdate(key, r, write, ok) ==
    \/ /\ resources[key] = r
       /\ UNCHANGED storeVars
    \/ /\ resources[key] # r
       /\ resources' = [resources EXCEPT ![key] = r]
       /\ UNCHANGED privateResources
       /\ IF write THEN WriteState(resources', privateResources, ok) ELSE KeepFile

AddOrUpdatePrivate(key, r, write, ok) ==
    \/ /\ privateResources[key] = r
       /\ UNCHANGED storeVars
    \/ /\ privateResources[key] # r
       /\ privateResources' = [privateResources EXCEPT ![key] = r]
       /\ UNCHANGED resources
       /\ IF write THEN WriteState(resources, privateResources', ok) ELSE KeepFile

\* A removal that changes the map is always written.
Remove(key, ok) ==
    \/ /\ resources[key] = NoEntry
       /\ UNCHANGED storeVars
    \/ /\ resources[key] # NoEntry
       /\ resources' = [resources EXCEPT ![key] = NoEntry]
       /\ UNCHANGED privateResources
       /\ WriteState(resources', privateResources, ok)

RemovePrivate(key, ok) ==
    \/ /\ privateResources[key] = NoEntry
       /\ UNCHANGED storeVars
    \/ /\ privateResources[key] # NoEntry
       /\ privateResources' = [privateResources EXCEPT ![key] = NoEntry]
       /\ UNCHANGED resources
       /\ WriteState(resources, privateResources', ok)

ForceWrite(ok) ==
    /\ WriteState(resources, privateResources, ok)
    /\ UNCHANGED <<resources, privateResources>>

StoreNext ==
    \/ \E ok \in BOOLEAN :
         \/ \E k \in Keys :
              \/ \E r \in Resources, w \in BOOLEAN : AddOrUpdate(k, r, w, ok)
              \/ Remove(k, ok)
         \/ \E k \in PrivateKeys :
              \/ \E r \in PrivateResources, w \in BOOLEAN : AddOrUpdatePrivate(k, r, w, ok)
              \/ RemovePrivate(k, ok)
         \/ ForceWrite(ok)
    \/ NewManager

StoreSpec == StoreInit /\ [][StoreNext]_storeVars
===============================================================================
