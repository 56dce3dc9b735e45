---------------------------- MODULE ManagerProofs ----------------------------
(***************************************************************************)
(* The manager's safety properties for every set of callers, keys and      *)
(* resources: Manager's type invariant, what the blueprint file may hold,  *)
(* what readiness means, and that Manager implements StateStore.           *)
(***************************************************************************)
EXTENDS Manager, TLAPS

\* Only the holder of the mutex is inside writeState, and the history variable
\* is the maps whenever nobody holds it.
LockInv ==
    /\ \A c \in Callers : pc[c] # "idle" => mu = c
    /\ mu = Free => committed = Current

\* The marshalled data stays the blueprint of the maps until the unlock, and a
\* rename only ever moves a complete temporary file.
FileInv ==
    /\ \A c \in Callers : pc[c] \in {"open", "fill", "rename"} => yamlData[c] = Current
    /\ \A c \in Callers : pc[c] = "rename" => tmpFile = yamlData[c]

\* The file against the maps of the last unlock: the form of ReadyMeansPublished
\* that also holds while a caller is inside the mutex.
PublishedInv ==
    (~lastWriteErr /\ sinceWrite # Never /\ ~deferred) => outputFile = committed

\* What the holder of the mutex has done so far is at most one operation.
OneOperation ==
    \/ Current = committed
    \/ /\ privateResources = committed.private
       /\ \E k \in Keys, r \in Resources \cup {NoEntry} :
            /\ committed.public[k] # r
            /\ resources = [committed.public EXCEPT ![k] = r]
    \/ /\ resources = committed.public
       /\ \E k \in PrivateKeys, r \in PrivateResources \cup {NoEntry} :
            /\ committed.private[k] # r
            /\ privateResources = [committed.private EXCEPT ![k] = r]

IInv == TypeOK /\ LockInv /\ FileInv /\ PublishedInv /\ OneOperation

\* The new process's manager has a type-correct, unlocked state that publishes
\* nothing.
LEMMA InitIInv == Init => IInv
<1> SUFFICES ASSUME Init PROVE IInv
  OBVIOUS
<1>0. EmptyMaps \in Blueprints
  BY DEF EmptyMaps, Blueprints, PublicMap, PrivateMap
<1>1. TypeOK
  BY <1>0, ManagerAssumption
     DEF Init, TypeOK, EmptyMaps, Blueprints, PublicMap, PrivateMap, Stages
<1>2. Current = committed
  BY DEF Init, Current, EmptyMaps
<1> QED
  BY <1>1, <1>2 DEF Init, IInv, LockInv, FileInv, PublishedInv, OneOperation

\* What every operation leaves behind once it has changed the maps: the common
\* part of the six operations of the manager.
LEMMA WriteOrReturnIInv ==
    ASSUME IInv, NEW c \in Callers, NEW write \in BOOLEAN,
           Lock(c), WriteOrReturn(c, write),
           resources' \in PublicMap, privateResources' \in PrivateMap,
           OneOperation'
    PROVE  IInv'
<1> USE DEF IInv
<1>0. Current' \in Blueprints
  BY DEF Current, Blueprints
<1>1. CASE write
  <2>1. TypeOK'
    BY <1>1, <1>0 DEF WriteOrReturn, TypeOK, files, health, Stages
  <2>2. LockInv'
    BY <1>1, ManagerAssumption DEF WriteOrReturn, TypeOK, LockInv, Lock
  <2>3. FileInv'
    BY <1>1, ManagerAssumption DEF WriteOrReturn, TypeOK, LockInv, FileInv, Lock, files
  <2>4. PublishedInv'
    BY <1>1 DEF WriteOrReturn, PublishedInv, files, health
  <2> QED
    BY <2>1, <2>2, <2>3, <2>4
<1>2. CASE ~write
  <2>1. TypeOK'
    BY <1>2, <1>0 DEF WriteOrReturn, TypeOK, files, health
  <2>2. LockInv'
    BY <1>2 DEF WriteOrReturn, LockInv
  <2>3. FileInv'
    BY <1>2, ManagerAssumption DEF WriteOrReturn, TypeOK, LockInv, FileInv, Lock, files
  <2>4. PublishedInv'
    BY <1>2 DEF WriteOrReturn, PublishedInv
  <2> QED
    BY <2>1, <2>2, <2>3, <2>4
<1> QED
  BY <1>1, <1>2

\* Every operation preserves the invariant.
LEMMA OperationIInv ==
    ASSUME IInv, NEW c \in Callers, Operation(c)
    PROVE  IInv'
<1> USE DEF IInv
<1>0. Lock(c) => committed = Current
  BY DEF Lock, LockInv
<1>1. ASSUME NEW k \in Keys, NEW r \in Resources, NEW w \in BOOLEAN, AddOrUpdate(c, k, r, w)
      PROVE  IInv'
  <2>1. OneOperation'
    <3>1. committed' = committed \/ committed' = Current'
      BY <1>1 DEF AddOrUpdate, WriteOrReturn
    <3>2. committed.public = resources /\ committed.private = privateResources
      BY <1>0, <1>1 DEF AddOrUpdate, Current
    <3> QED
      BY <1>1, <3>1, <3>2 DEF AddOrUpdate, OneOperation, Current
  <2>2. resources' \in PublicMap /\ privateResources' \in PrivateMap
    BY <1>1 DEF AddOrUpdate, TypeOK, PublicMap, PrivateMap
  <2> QED
    BY <1>1, <2>1, <2>2, WriteOrReturnIInv DEF AddOrUpdate
<1>2. ASSUME NEW k \in Keys, Remove(c, k)
      PROVE  IInv'
  <2>1. OneOperation'
    <3>1. committed' = committed
      BY <1>2 DEF Remove, WriteOrReturn
    <3>2. committed.public = resources /\ committed.private = privateResources
      BY <1>0, <1>2 DEF Remove, Current
    <3> QED
      BY <1>2, <3>1, <3>2 DEF Remove, OneOperation, Current
  <2>2. resources' \in PublicMap /\ privateResources' \in PrivateMap
    BY <1>2 DEF Remove, TypeOK, PublicMap, PrivateMap
  <2> QED
    BY <1>2, <2>1, <2>2, WriteOrReturnIInv DEF Remove
<1>3. ASSUME NEW k \in PrivateKeys, NEW r \in PrivateResources, NEW w \in BOOLEAN,
             AddOrUpdatePrivate(c, k, r, w)
      PROVE  IInv'
  <2>1. OneOperation'
    <3>1. committed' = committed \/ committed' = Current'
      BY <1>3 DEF AddOrUpdatePrivate, WriteOrReturn
    <3>2. committed.public = resources /\ committed.private = privateResources
      BY <1>0, <1>3 DEF AddOrUpdatePrivate, Current
    <3> QED
      BY <1>3, <3>1, <3>2 DEF AddOrUpdatePrivate, OneOperation, Current
  <2>2. resources' \in PublicMap /\ privateResources' \in PrivateMap
    BY <1>3 DEF AddOrUpdatePrivate, TypeOK, PublicMap, PrivateMap
  <2> QED
    BY <1>3, <2>1, <2>2, WriteOrReturnIInv DEF AddOrUpdatePrivate
<1>4. ASSUME NEW k \in PrivateKeys, RemovePrivate(c, k)
      PROVE  IInv'
  <2>1. OneOperation'
    <3>1. committed' = committed
      BY <1>4 DEF RemovePrivate, WriteOrReturn
    <3>2. committed.public = resources /\ committed.private = privateResources
      BY <1>0, <1>4 DEF RemovePrivate, Current
    <3> QED
      BY <1>4, <3>1, <3>2 DEF RemovePrivate, OneOperation, Current
  <2>2. resources' \in PublicMap /\ privateResources' \in PrivateMap
    BY <1>4 DEF RemovePrivate, TypeOK, PublicMap, PrivateMap
  <2> QED
    BY <1>4, <2>1, <2>2, WriteOrReturnIInv DEF RemovePrivate
<1>5. CASE ForceWrite(c)
  <2>1. OneOperation'
    BY <1>0, <1>5 DEF ForceWrite, WriteOrReturn, OneOperation, Current, maps
  <2>2. resources' \in PublicMap /\ privateResources' \in PrivateMap
    BY <1>5 DEF ForceWrite, TypeOK, maps
  <2> QED
    BY <1>5, <2>1, <2>2, WriteOrReturnIInv DEF ForceWrite
<1> QED
  BY <1>1, <1>2, <1>3, <1>4, <1>5 DEF Operation

\* The error return of writeState, wherever it happens.
LEMMA FailIInv ==
    ASSUME IInv, NEW c \in Callers, pc[c] # "idle", Fail(c),
           tmpFile' \in {tmpFile, NoFile}, outputFile' = outputFile
    PROVE  IInv'
<1> USE DEF IInv
<1>0. Current \in Blueprints /\ Current' = Current
  BY DEF Current, Blueprints, TypeOK, Fail, Unlock, maps
<1>1. TypeOK'
  BY <1>0 DEF TypeOK, Fail, Unlock, maps, Stages
<1>2. \A d \in Callers : pc'[d] = "idle"
  BY ManagerAssumption DEF TypeOK, LockInv, Fail, Unlock
<1>3. LockInv' /\ FileInv'
  BY <1>0, <1>2 DEF LockInv, FileInv, Fail, Unlock
<1>4. PublishedInv' /\ OneOperation'
  BY <1>0 DEF PublishedInv, OneOperation, Fail, Unlock
<1> QED
  BY <1>1, <1>3, <1>4

\* Every step of writeState preserves the invariant.
LEMMA WriteStateStepIInv ==
    ASSUME IInv, NEW c \in Callers, WriteStateStep(c)
    PROVE  IInv'
<1> USE DEF IInv
<1>a. Current \in Blueprints
  BY DEF Current, Blueprints, TypeOK
<1>b. ASSUME NEW stage, Proceed(c, stage)
      PROVE  Current' = Current /\ OneOperation'
  BY <1>b DEF Proceed, maps, Current, OneOperation
<1>1. CASE Marshal(c)
  <2>1. CASE Fail(c)
    BY <1>1, <2>1, FailIInv DEF Marshal, files
  <2>2. CASE ~Fail(c)
    <3>0. /\ yamlData' = [yamlData EXCEPT ![c] = Current]
          /\ Proceed(c, "open")
          /\ UNCHANGED files
          /\ mu = c
      BY <1>1, <2>2 DEF Marshal, LockInv
    <3>1. TypeOK'
      BY <3>0, <1>a DEF TypeOK, Proceed, files, maps, health, Stages
    <3>2. LockInv'
      BY <3>0, <1>b, ManagerAssumption DEF TypeOK, LockInv, Proceed
    <3>3. FileInv'
      BY <3>0, <1>b DEF TypeOK, LockInv, FileInv, Proceed, files
    <3>4. PublishedInv'
      BY <3>0 DEF PublishedInv, Proceed, files, health
    <3> QED
      BY <3>0, <3>1, <3>2, <3>3, <3>4, <1>b
  <2> QED
    BY <2>1, <2>2
<1>2. CASE OpenTmp(c)
  <2>1. CASE Fail(c)
    <3>1. tmpFile' \in {tmpFile, NoFile} /\ outputFile' = outputFile
      BY <1>2, <2>1, ManagerAssumption DEF OpenTmp, Fail, Unlock, Proceed, TypeOK, LockInv
    <3> QED
      BY <1>2, <2>1, <3>1, FailIInv DEF OpenTmp
  <2>2. CASE ~Fail(c)
    <3>0. /\ pc[c] = "open"
          /\ tmpFile' = Torn
          /\ Proceed(c, "fill")
          /\ UNCHANGED <<yamlData, outputFile>>
          /\ mu = c
      BY <1>2, <2>2 DEF OpenTmp, LockInv
    <3>1. TypeOK'
      BY <3>0 DEF TypeOK, Proceed, maps, health, Stages
    <3>2. LockInv'
      BY <3>0, <1>b, ManagerAssumption DEF TypeOK, LockInv, Proceed
    <3>3. FileInv'
      BY <3>0, <1>b DEF TypeOK, LockInv, FileInv, Proceed
    <3>4. PublishedInv'
      BY <3>0 DEF PublishedInv, Proceed, health
    <3> QED
      BY <3>0, <3>1, <3>2, <3>3, <3>4, <1>b
  <2> QED
    BY <2>1, <2>2
<1>3. CASE FillTmp(c)
  <2>1. CASE Fail(c)
    <3>1. tmpFile' \in {tmpFile, NoFile} /\ outputFile' = outputFile
      BY <1>3, <2>1, ManagerAssumption DEF FillTmp, Fail, Unlock, Proceed, TypeOK, LockInv
    <3> QED
      BY <1>3, <2>1, <3>1, FailIInv DEF FillTmp
  <2>2. CASE ~Fail(c)
    <3>0. /\ pc[c] = "fill"
          /\ tmpFile' = yamlData[c]
          /\ Proceed(c, "rename")
          /\ UNCHANGED <<yamlData, outputFile>>
          /\ mu = c
      BY <1>3, <2>2 DEF FillTmp, LockInv
    <3>1. TypeOK'
      BY <3>0 DEF TypeOK, Proceed, maps, health, Stages
    <3>2. LockInv'
      BY <3>0, <1>b, ManagerAssumption DEF TypeOK, LockInv, Proceed
    <3>3. FileInv'
      BY <3>0, <1>b DEF TypeOK, LockInv, FileInv, Proceed
    <3>4. PublishedInv'
      BY <3>0 DEF PublishedInv, Proceed, health
    <3> QED
      BY <3>0, <3>1, <3>2, <3>3, <3>4, <1>b
  <2> QED
    BY <2>1, <2>2
<1>4. CASE RenameTmp(c)
  <2>1. CASE Fail(c) /\ tmpFile' \in {tmpFile, NoFile} /\ outputFile' = outputFile
    BY <1>4, <2>1, FailIInv DEF RenameTmp
  <2>2. CASE ~(Fail(c) /\ tmpFile' \in {tmpFile, NoFile} /\ outputFile' = outputFile)
    <3>0. /\ pc[c] = "rename"
          /\ outputFile' = tmpFile
          /\ tmpFile' = NoFile
          /\ lastWriteErr' = FALSE
          /\ sinceWrite' = 0
          /\ deferred' = FALSE
          /\ Unlock(c)
      BY <1>4, <2>2 DEF RenameTmp
    <3>1. tmpFile = Current /\ Current' = Current /\ committed' = Current
      BY <3>0 DEF FileInv, Unlock, maps, Current
    <3>2. TypeOK'
      <4>1. 0 \in 0 .. Threshold + 1
        BY ManagerAssumption
      <4>2. outputFile' \in Blueprints /\ committed' \in Blueprints
        BY <3>0, <3>1, <1>a
      <4> QED
        BY <3>0, <4>1, <4>2 DEF TypeOK, Unlock, maps, Stages
    <3>3. \A d \in Callers : pc'[d] = "idle"
      BY <3>0, ManagerAssumption DEF TypeOK, LockInv, Unlock
    <3>4. LockInv' /\ FileInv'
      BY <3>1, <3>3 DEF LockInv, FileInv
    <3>5. PublishedInv' /\ OneOperation'
      BY <3>0, <3>1 DEF PublishedInv, OneOperation
    <3> QED
      BY <3>2, <3>4, <3>5
  <2> QED
    BY <2>1, <2>2
<1> QED
  BY <1>1, <1>2, <1>3, <1>4 DEF WriteStateStep

\* The invariant is inductive.
LEMMA NextIInv == IInv /\ [Next]_vars => IInv'
<1> SUFFICES ASSUME IInv, [Next]_vars PROVE IInv'
  OBVIOUS
<1> USE DEF IInv
<1>1. ASSUME NEW c \in Callers, Operation(c) PROVE IInv'
  BY <1>1, OperationIInv
<1>2. ASSUME NEW c \in Callers, WriteStateStep(c) PROVE IInv'
  BY <1>2, WriteStateStepIInv
<1>3. CASE Tick
  <2>1. Current' = Current
    BY <1>3 DEF Tick, maps, Current
  <2>2. TypeOK'
    BY <1>3, ManagerAssumption DEF Tick, TypeOK, maps, files
  <2>3. LockInv' /\ FileInv' /\ OneOperation'
    BY <1>3, <2>1 DEF Tick, LockInv, FileInv, OneOperation, maps, files
  <2>4. PublishedInv'
    BY <1>3, ManagerAssumption DEF Tick, PublishedInv, files
  <2> QED
    BY <2>2, <2>3, <2>4
<1>4. CASE Restart
  <2>1. EmptyMaps \in Blueprints /\ Current' = EmptyMaps
    BY <1>4 DEF Restart, EmptyMaps, Blueprints, PublicMap, PrivateMap, Current
  <2>2. TypeOK'
    BY <1>4, <2>1 DEF Restart, TypeOK, EmptyMaps, Blueprints, PublicMap, PrivateMap, files, Stages
  <2>3. LockInv' /\ FileInv' /\ OneOperation' /\ PublishedInv'
    BY <1>4, <2>1 DEF Restart, LockInv, FileInv, OneOperation, PublishedInv
  <2> QED
    BY <2>2, <2>3
<1>5. CASE UNCHANGED vars
  <2>1. Current' = Current
    BY <1>5 DEF vars, maps, Current
  <2> QED
    BY <1>5, <2>1 DEF vars, maps, files, health, TypeOK, LockInv, FileInv, OneOperation,
                      PublishedInv
<1> QED
  BY <1>1, <1>2, <1>3, <1>4, <1>5 DEF Next

\* The invariant holds in every reachable state, for every set of callers.
LEMMA Invariance == Spec => []IInv
BY InitIInv, NextIInv, PTL DEF Spec

\* Manager.go keeps its state well typed; in particular the output file is
\* absent or a complete blueprint, never a torn one.
THEOREM TypeCorrect == Spec => []TypeOK
<1>1. IInv => TypeOK
  BY DEF IInv
<1> QED
  BY Invariance, <1>1, PTL

\* WriteHealthy tells the truth about the file: see ReadyMeansPublished.
THEOREM ReadyIsPublished == Spec => []ReadyMeansPublished
<1>1. IInv => ReadyMeansPublished
  BY DEF IInv, LockInv, PublishedInv, ReadyMeansPublished, handleReadiness, WriteHealthy
<1> QED
  BY Invariance, <1>1, PTL

\* writeState replaces the file by a complete, current blueprint or not at all.
THEOREM OutputSnapshot == Spec => OutputIsSnapshot
<1>1. IInv /\ [Next]_vars => [outputFile' # outputFile => outputFile' = Current]_vars
  <2> SUFFICES ASSUME IInv, Next, outputFile' # outputFile
               PROVE  outputFile' = Current
    BY DEF vars, files
  <2>1. PICK c \in Callers : RenameTmp(c)
    BY DEF Next, Operation, AddOrUpdate, AddOrUpdatePrivate, Remove, RemovePrivate, ForceWrite,
           WriteOrReturn, WriteStateStep, Marshal, OpenTmp, FillTmp, Tick, Restart, files
  <2> QED
    BY <2>1 DEF RenameTmp, IInv, FileInv
<1> QED
  BY Invariance, <1>1, PTL DEF Spec, OutputIsSnapshot

\* The abstract operation that the unlock of a write stands for: whatever the
\* holder did to the maps becomes visible together with the result of the write.
LEMMA UnlockRefines ==
    ASSUME IInv, NEW ok \in BOOLEAN,
           committed' = Current,
           outputFile' = IF ok THEN Current ELSE outputFile,
           lastWriteErr' = ~ok
    PROVE  Store!StoreNext
<1> DEFINE pub == committed.public
           priv == committed.private
<1>1. pub' = resources /\ priv' = privateResources
  BY DEF Current
<1>2. Store!WriteState(pub', priv', ok)
  BY <1>1 DEF Store!WriteState, Store!BlueprintOf, Current
<1>3. CASE Current = committed
  <2>1. Store!ForceWrite(ok)
    BY <1>1, <1>2, <1>3 DEF Store!ForceWrite, Current
  <2> QED
    BY <2>1 DEF Store!StoreNext
<1>4. ASSUME privateResources = priv,
             NEW k \in Keys, NEW r \in Resources \cup {NoEntry},
             pub[k] # r, resources = [pub EXCEPT ![k] = r]
      PROVE  Store!StoreNext
  <2>1. CASE r = NoEntry
    <3>1. Store!Remove(k, ok)
      BY <1>1, <1>2, <1>4, <2>1 DEF Store!Remove
    <3> QED
      BY <3>1 DEF Store!StoreNext
  <2>2. CASE r \in Resources
    <3>1. Store!AddOrUpdate(k, r, TRUE, ok)
      BY <1>1, <1>2, <1>4 DEF Store!AddOrUpdate
    <3> QED
      BY <3>1, <2>2 DEF Store!StoreNext
  <2> QED
    BY <2>1, <2>2
<1>5. ASSUME resources = pub,
             NEW k \in PrivateKeys, NEW r \in PrivateResources \cup {NoEntry},
             priv[k] # r, privateResources = [priv EXCEPT ![k] = r]
      PROVE  Store!StoreNext
  <2>1. CASE r = NoEntry
    <3>1. Store!RemovePrivate(k, ok)
      BY <1>1, <1>2, <1>5, <2>1 DEF Store!RemovePrivate
    <3> QED
      BY <3>1 DEF Store!StoreNext
  <2>2. CASE r \in PrivateResources
    <3>1. Store!AddOrUpdatePrivate(k, r, TRUE, ok)
      BY <1>1, <1>2, <1>5 DEF Store!AddOrUpdatePrivate
    <3> QED
      BY <3>1, <2>2 DEF Store!StoreNext
  <2> QED
    BY <2>1, <2>2
<1> QED
  BY <1>3, <1>4, <1>5 DEF IInv, OneOperation

\* The abstract step of every operation that does not write: a stutter while
\* the mutex is kept, the whole operation when it is released at once.
LEMMA OperationRefines ==
    ASSUME IInv, NEW c \in Callers, Operation(c)
    PROVE  [Store!StoreNext]_(Store!storeVars)
<1> DEFINE pub == committed.public
           priv == committed.private
<1>0. Lock(c) => pub = resources /\ priv = privateResources
  BY DEF Lock, IInv, LockInv, Current
<1>1. ASSUME WriteOrReturn(c, TRUE) PROVE UNCHANGED Store!storeVars
  BY <1>1 DEF WriteOrReturn, Store!storeVars, files, health
<1>2. ASSUME NEW k \in Keys, NEW r \in Resources, AddOrUpdate(c, k, r, FALSE)
      PROVE  Store!StoreNext
  <2>1. Store!AddOrUpdate(k, r, FALSE, TRUE)
    BY <1>0, <1>2 DEF AddOrUpdate, WriteOrReturn, Current, files, health,
                      Store!AddOrUpdate, Store!KeepFile
  <2> QED
    BY <2>1 DEF Store!StoreNext
<1>3. ASSUME NEW k \in PrivateKeys, NEW r \in PrivateResources, AddOrUpdatePrivate(c, k, r, FALSE)
      PROVE  Store!StoreNext
  <2>1. Store!AddOrUpdatePrivate(k, r, FALSE, TRUE)
    BY <1>0, <1>3 DEF AddOrUpdatePrivate, WriteOrReturn, Current, files, health,
                      Store!AddOrUpdatePrivate, Store!KeepFile
  <2> QED
    BY <2>1 DEF Store!StoreNext
<1>4. CASE \E k \in Keys : Remove(c, k)
  BY <1>1, <1>4 DEF Remove
<1>5. CASE \E k \in PrivateKeys : RemovePrivate(c, k)
  BY <1>1, <1>5 DEF RemovePrivate
<1>6. CASE ForceWrite(c)
  BY <1>1, <1>6 DEF ForceWrite
<1>7. ASSUME NEW k \in Keys, NEW r \in Resources, AddOrUpdate(c, k, r, TRUE)
      PROVE  UNCHANGED Store!storeVars
  BY <1>1, <1>7 DEF AddOrUpdate
<1>8. ASSUME NEW k \in PrivateKeys, NEW r \in PrivateResources, AddOrUpdatePrivate(c, k, r, TRUE)
      PROVE  UNCHANGED Store!storeVars
  BY <1>1, <1>8 DEF AddOrUpdatePrivate
<1> QED
  BY <1>2, <1>3, <1>4, <1>5, <1>6, <1>7, <1>8 DEF Operation

\* The abstract step of every step of writeState: a stutter, except that the one
\* that unlocks stands for the whole operation.
LEMMA WriteStateStepRefines ==
    ASSUME IInv, NEW c \in Callers, WriteStateStep(c)
    PROVE  [Store!StoreNext]_(Store!storeVars)
<1>1. CASE Fail(c) /\ outputFile' = outputFile
  <2>1. committed' = Current /\ lastWriteErr' = ~FALSE
    BY <1>1 DEF Fail, Unlock
  <2> QED
    BY <1>1, <2>1, UnlockRefines
<1>2. ASSUME NEW stage, Proceed(c, stage), outputFile' = outputFile
      PROVE  UNCHANGED Store!storeVars
  BY <1>2 DEF Proceed, health, Store!storeVars
<1>3. CASE RenameTmp(c)
  <2>1. CASE ~(Fail(c) /\ outputFile' = outputFile)
    <3>1. /\ committed' = Current
          /\ outputFile' = Current
          /\ lastWriteErr' = ~TRUE
      BY <1>3, <2>1 DEF RenameTmp, Unlock, IInv, FileInv
    <3> QED
      BY <3>1, UnlockRefines
  <2> QED
    BY <1>1, <2>1
<1>4. CASE Marshal(c)
  BY <1>1, <1>2, <1>4 DEF Marshal, files
<1>5. CASE OpenTmp(c)
  BY <1>1, <1>2, <1>5 DEF OpenTmp
<1>6. CASE FillTmp(c)
  BY <1>1, <1>2, <1>6 DEF FillTmp
<1> QED
  BY <1>3, <1>4, <1>5, <1>6 DEF WriteStateStep

\* The code's mutex and its write through a temporary file implement the
\* abstract store, whose operations are atomic.
THEOREM Refinement == Spec => ImplementsStateStore
<1>1. Init => Store!StoreInit
  BY DEF Init, EmptyMaps, Store!StoreInit, Store!EmptyPublic, Store!EmptyPrivate
<1>2. IInv /\ [Next]_vars => [Store!StoreNext]_(Store!storeVars)
  <2> SUFFICES ASSUME IInv, [Next]_vars
               PROVE  [Store!StoreNext]_(Store!storeVars)
    OBVIOUS
  <2>1. ASSUME NEW c \in Callers, Operation(c) PROVE [Store!StoreNext]_(Store!storeVars)
    BY <2>1, OperationRefines
  <2>2. ASSUME NEW c \in Callers, WriteStateStep(c) PROVE [Store!StoreNext]_(Store!storeVars)
    BY <2>2, WriteStateStepRefines
  <2>3. CASE Tick
    BY <2>3 DEF Tick, files, Store!storeVars
  <2>4. CASE Restart
    <3>1. Store!NewManager
      BY <2>4 DEF Restart, EmptyMaps, files, Store!NewManager, Store!EmptyPublic,
                  Store!EmptyPrivate
    <3> QED
      BY <3>1 DEF Store!StoreNext
  <2>5. CASE UNCHANGED vars
    BY <2>5 DEF vars, files, health, Store!storeVars
  <2> QED
    BY <2>1, <2>2, <2>3, <2>4, <2>5 DEF Next
<1> QED
  BY Invariance, <1>1, <1>2, PTL DEF Spec, ImplementsStateStore, Store!StoreSpec
===============================================================================
