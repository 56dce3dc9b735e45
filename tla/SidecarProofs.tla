---------------------------- MODULE SidecarProofs ----------------------------
(***************************************************************************)
(* The whole process: what the controllers and the reconcilers each keep   *)
(* true alone, they keep true together, for every set of objects, CRs and  *)
(* keys, shared keys included. A step of one component is a step of its    *)
(* own specification that leaves the other's state alone, so the step      *)
(* lemmas of ControllerProofs and of ReconcilerProofs (instance RP) carry  *)
(* over; only what both write, the manager and the budgets, is argued anew.*)
(***************************************************************************)
EXTENDS Sidecar, ControllerProofs

RP == INSTANCE ReconcilerProofs WITH cluster <- crs, Specs <- CRSpecs, UsesSecret <- CRUsesSecret

\* What a step of the process is to the two components.
ControllerStep == [Next]_vars /\ UNCHANGED crVars
ReconcilerStep ==
    /\ [RP!Next]_RP!vars
    /\ AfterCall(FALSE)
    /\ UNCHANGED <<cluster, informers, handlers, runs, restarts>>
WorldStep == UNCHANGED <<storeVars, world, informers, handlers, runs, straddled, crVars, faults, restarts>>
             /\ changes' \in 0 .. MaxChanges

\* Reconciler's operations are the same through either instance.
LEMMA Instances ==
    /\ R!CRs = RP!CRs /\ R!Kinds = RP!Kinds
    /\ R!Init => RP!Init
    /\ \A o, s : R!ChangeCR(o, s) => RP!ChangeCR(o, s)
    /\ \A o : R!Deliver(o) => RP!Deliver(o)
    /\ \A o : R!Resync(o) => RP!Resync(o)
    /\ \A kind : R!Reconcile(kind) => RP!Reconcile(kind)
    /\ R!Restart => RP!Restart
<1>1. R!CRs = RP!CRs /\ R!Kinds = RP!Kinds /\ R!storeVars = RP!storeVars /\ R!budgets = RP!budgets
  BY DEF R!CRs, RP!CRs, R!Kinds, RP!Kinds, R!storeVars, RP!storeVars, R!budgets, RP!budgets
<1>2. R!Init => RP!Init
  BY DEF R!Init, RP!Init, R!CRs, RP!CRs, R!Kinds, RP!Kinds, R!Idle, RP!Idle, R!StoreInit, RP!StoreInit,
         R!EmptyPublic, RP!EmptyPublic, R!EmptyPrivate, RP!EmptyPrivate
<1>3. \A o, s : R!ChangeCR(o, s) => RP!ChangeCR(o, s)
  BY DEF R!ChangeCR, RP!ChangeCR, R!storeVars, RP!storeVars
<1>4. \A o : R!Deliver(o) => RP!Deliver(o)
  BY DEF R!Deliver, RP!Deliver, R!storeVars, RP!storeVars, R!budgets, RP!budgets
<1>5. \A o : R!Resync(o) => RP!Resync(o)
  BY DEF R!Resync, RP!Resync, R!storeVars, RP!storeVars, R!budgets, RP!budgets
<1>6. R!Restart => RP!Restart
  BY DEF R!Restart, RP!Restart, R!NewManager, RP!NewManager, R!EmptyPublic, RP!EmptyPublic,
         R!EmptyPrivate, RP!EmptyPrivate, R!Idle, RP!Idle, R!CRs, RP!CRs, R!Kinds, RP!Kinds
<1>7. ASSUME NEW kind, NEW ok
      PROVE  /\ \A o : R!Get(kind, o, ok) => RP!Get(kind, o, ok)
             /\ R!resolveAuthSecret(kind, ok) => RP!resolveAuthSecret(kind, ok)
             /\ R!ReconcileRemove(kind, ok) => RP!ReconcileRemove(kind, ok)
             /\ R!ReconcileApply(kind, ok) => RP!ReconcileApply(kind, ok)
  <2>1. \A o : R!Get(kind, o, ok) => RP!Get(kind, o, ok)
    BY DEF R!Get, RP!Get, R!Attempt, RP!Attempt, R!AfterGet, RP!AfterGet, R!Idle, RP!Idle,
           R!storeVars, RP!storeVars
  <2>2. R!resolveAuthSecret(kind, ok) => RP!resolveAuthSecret(kind, ok)
    BY DEF R!resolveAuthSecret, RP!resolveAuthSecret, R!Attempt, RP!Attempt, R!storeVars, RP!storeVars
  <2>3. R!ReconcileRemove(kind, ok) => RP!ReconcileRemove(kind, ok)
    BY DEF R!ReconcileRemove, RP!ReconcileRemove, R!Attempt, RP!Attempt, R!Idle, RP!Idle,
           R!Remove, RP!Remove, R!RemovePrivate, RP!RemovePrivate, R!WriteState, RP!WriteState,
           R!BlueprintOf, RP!BlueprintOf, R!storeVars, RP!storeVars
  <2>4. R!ReconcileApply(kind, ok) => RP!ReconcileApply(kind, ok)
    BY DEF R!ReconcileApply, RP!ReconcileApply, R!Attempt, RP!Attempt, R!Idle, RP!Idle,
           R!AddOrUpdate, RP!AddOrUpdate, R!AddOrUpdatePrivate, RP!AddOrUpdatePrivate,
           R!WriteState, RP!WriteState, R!KeepFile, RP!KeepFile,
           R!BlueprintOf, RP!BlueprintOf, R!storeVars, RP!storeVars
  <2> QED
    BY <2>1, <2>2, <2>3, <2>4
<1>8. \A kind : R!Reconcile(kind) => RP!Reconcile(kind)
  BY <1>7 DEF R!Reconcile, RP!Reconcile, R!CRsOf, RP!CRsOf
<1> QED
  BY <1>1, <1>2, <1>3, <1>4, <1>5, <1>6, <1>8

\* A step of the process is a step of the controllers, of the reconcilers or of
\* the world around them, or a restart of both components at once.
LEMMA StepOf ==
    ASSUME BaseInv, [SidecarNext]_sidecarVars
    PROVE  ControllerStep \/ ReconcilerStep \/ WorldStep \/ (Restart /\ RP!Restart)
<1>1. CASE \/ UNCHANGED sidecarVars \/ WaitForCacheSync \/ (\E ok \in BOOLEAN : Setup(ok)) \/ Signal
  BY <1>1 DEF sidecarVars, WaitForCacheSync, Setup, Goto, Signal, ControllerStep
<1>2. CASE InstallCRDs
  BY <1>2, ControllerAssumption DEF InstallCRDs, WorldStep, BaseInv, TypeOK
<1>3. CASE Die \/ Exit
  BY <1>3, Instances DEF Die, Exit, Reboot
<1>4. CASE OfController(Environment)
  BY <1>4 DEF OfController, ControllerStep, Next
<1>5. ASSUME NEW o \in Objects, DeliverObject(o) \/ OfController(Resync(o)) PROVE ControllerStep
  BY <1>5 DEF DeliverObject, OfController, ControllerStep, Next
<1>6. ASSUME NEW c \in Controllers, OfController(Handle(c)) \/ RunController(c) PROVE ControllerStep
  BY <1>6 DEF RunController, OfController, ControllerStep, Next
<1>7. ASSUME NEW o \in R!CRs, NEW s \in CRSpecs \cup {NoObject}, ChangeCR(o, s) PROVE ReconcilerStep
  BY <1>7, Instances DEF ChangeCR, OfReconciler, ReconcilerStep, RP!Next, RP!ChangeCR
<1>8. ASSUME NEW o \in R!CRs, DeliverCR(o) \/ ResyncCR(o) PROVE ReconcilerStep
  BY <1>8, Instances DEF DeliverCR, ResyncCR, OfReconciler, ReconcilerStep, RP!Next,
                         RP!Deliver, RP!Resync, RP!budgets
<1>9. ASSUME NEW kind \in R!Kinds, ReconcileCR(kind) PROVE ReconcilerStep
  <2>1. restarts' = restarts
    BY <1>9, Instances DEF ReconcileCR, OfReconciler, RP!Reconcile, RP!Get, RP!resolveAuthSecret,
                           RP!ReconcileRemove, RP!ReconcileApply, RP!Attempt
  <2> QED
    BY <1>9, <2>1, Instances DEF ReconcileCR, OfReconciler, ReconcilerStep, RP!Next
<1> QED
  BY <1>1, <1>2, <1>3, <1>4, <1>5, <1>6, <1>7, <1>8, <1>9 DEF SidecarNext, World, Main
(***************************************************************************)
(* Each component's base invariant survives the other's steps.             *)
(***************************************************************************)
SidecarInv == BaseInv /\ RP!BaseInv

\* The state that both components type.
SharedTypeOK ==
    /\ StoreTypeOK
    /\ secret \in SecretData \cup {NoSecret}
    /\ changes \in 0 .. MaxChanges
    /\ faults \in 0 .. MaxFaults
    /\ restarts \in 0 .. MaxRestarts

\* What ReconcilerProofs assumes holds of the instance.
LEMMA InstanceAssumptions ==
    /\ NoEntry \notin Resources \cup PrivateResources /\ NoFile \notin RP!Blueprints
    /\ PublicCRs \cap PrivateCRs = {}
    /\ \A o \in PublicCRs : KeyOf[o] \in Keys
    /\ \A o \in PrivateCRs : KeyOf[o] \in PrivateKeys
    /\ NoObject \notin RP!CRs \cup CRSpecs
    /\ NoSecret \notin SecretData
    /\ SecretsWatchable \in BOOLEAN
    /\ \A s \in CRSpecs, d \in SecretData \cup {NoSecret} :
         /\ \A o \in PublicCRs : buildResource(o, s, d) \in Resources
         /\ \A o \in PrivateCRs : buildResource(o, s, d) \in PrivateResources
    /\ MaxChanges \in Nat /\ MaxFaults \in Nat /\ MaxRestarts \in Nat
<1>1. NoFile \notin RP!Blueprints
  BY StoreAssumption DEF RP!Blueprints, Blueprints, RP!PublicMap, PublicMap, RP!PrivateMap, PrivateMap
<1> QED
  BY <1>1, StoreAssumption, ControllerAssumption, SidecarAssumption DEF RP!CRs

\* The reconcilers' step lemmas, for the instance.
LEMMA ReconcilerKeeps ==
    /\ RP!Init => RP!BaseInv
    /\ RP!BaseInv /\ [RP!Next]_RP!vars => RP!BaseInv' /\ RP!KeepsHold /\ RP!Publishes
<1>1. RP!Init => RP!BaseInv
  BY InstanceAssumptions, RP!InitBaseInv
<1>2. RP!BaseInv /\ [RP!Next]_RP!vars => RP!BaseInv'
  BY InstanceAssumptions, RP!NextBaseInv
<1>3. RP!BaseInv /\ [RP!Next]_RP!vars => RP!KeepsHold
  BY InstanceAssumptions, RP!NextKeepsHold
<1>4. RP!BaseInv /\ [RP!Next]_RP!vars => RP!Publishes
  BY InstanceAssumptions, RP!NextPublishes
<1> QED
  BY <1>1, <1>2, <1>3, <1>4

\* The components agree on the types of what they share.
LEMMA SharedTypes == (TypeOK => SharedTypeOK) /\ (RP!TypeOK => SharedTypeOK)
<1>1. RP!StoreTypeOK => StoreTypeOK
  BY DEF RP!StoreTypeOK, StoreTypeOK, RP!Blueprints, Blueprints, RP!PublicMap, PublicMap,
         RP!PrivateMap, PrivateMap
<1> QED
  BY <1>1 DEF TypeOK, RP!TypeOK, SharedTypeOK

\* The reconcilers' base invariant does not depend on the controllers' state.
LEMMA ReconcilerFrame ==
    ASSUME RP!BaseInv, UNCHANGED crVars, SharedTypeOK'
    PROVE  RP!BaseInv'
<1>1. RP!StoreTypeOK'
  BY DEF SharedTypeOK, RP!StoreTypeOK, StoreTypeOK, RP!Blueprints, Blueprints, RP!PublicMap,
         PublicMap, RP!PrivateMap, PrivateMap
<1>2. RP!TypeOK'
  BY <1>1 DEF RP!BaseInv, RP!TypeOK, SharedTypeOK, crVars
<1>3. RP!WorkerInv' /\ RP!FreshInv'
  BY DEF RP!BaseInv, RP!WorkerInv, RP!FreshInv, crVars
<1> QED
  BY <1>2, <1>3 DEF RP!BaseInv

\* The controllers' base invariant does not depend on the reconcilers' state.
LEMMA ControllerFrame ==
    ASSUME BaseInv, UNCHANGED <<cluster, informers, handlers, runs>>,
           SharedTypeOK', straddled' \in BOOLEAN
    PROVE  BaseInv'
<1>1. TypeOK'
  BY DEF BaseInv, TypeOK, SharedTypeOK, informers, handlers, runs
<1>2. QueueInv' /\ CallInv'
  BY DEF BaseInv, QueueInv, CallInv, informers, handlers
<1> QED
  BY <1>1, <1>2 DEF BaseInv

\* Every step of the process keeps both.
LEMMA NextSidecarInv == SidecarInv /\ [SidecarNext]_sidecarVars => SidecarInv'
<1> SUFFICES ASSUME BaseInv, RP!BaseInv, [SidecarNext]_sidecarVars PROVE BaseInv' /\ RP!BaseInv'
  BY DEF SidecarInv
<1>1. CASE ControllerStep
  <2>1. BaseInv'
    BY <1>1, NextBaseInv DEF ControllerStep
  <2>2. SharedTypeOK'
    BY <2>1, SharedTypes, PTL DEF BaseInv
  <2> QED
    BY <1>1, <2>1, <2>2, ReconcilerFrame DEF ControllerStep
<1>2. CASE ReconcilerStep
  <2>1. RP!BaseInv'
    BY <1>2, ReconcilerKeeps DEF ReconcilerStep
  <2>2. SharedTypeOK'
    BY <2>1, SharedTypes, PTL DEF RP!BaseInv
  <2>3. straddled' \in BOOLEAN
    BY <1>2 DEF ReconcilerStep, AfterCall
  <2> QED
    BY <1>2, <2>1, <2>2, <2>3, ControllerFrame DEF ReconcilerStep
<1>3. CASE WorldStep
  <2>1. SharedTypeOK' /\ straddled' \in BOOLEAN
    BY <1>3 DEF WorldStep, SharedTypeOK, BaseInv, TypeOK, StoreTypeOK, storeVars, world
  <2> QED
    BY <1>3, <2>1, ReconcilerFrame, ControllerFrame DEF WorldStep, world
<1>4. CASE Restart /\ RP!Restart
  BY <1>4, NextBaseInv, ReconcilerKeeps DEF Next, RP!Next
<1> QED
  BY <1>1, <1>2, <1>3, <1>4, StepOf

\* The process starts with both.
LEMMA InitSidecarInv == SidecarInit => SidecarInv
BY InitBaseInv, Instances, ReconcilerKeeps DEF SidecarInit, SidecarInv

\* And keeps them, whatever the scheduler does.
LEMMA SidecarInvariance == SidecarSpec => []SidecarInv
BY InitSidecarInv, NextSidecarInv, PTL DEF SidecarSpec

(***************************************************************************)
(* The properties.                                                         *)
(***************************************************************************)
\* A step that keeps track of what one component answers for, and leaves what
\* the other answers for alone, orphans nothing.
LEMMA NextNoOrphansAnywhere ==
    SidecarInv /\ NoOrphansAnywhere /\ [SidecarNext]_sidecarVars => NoOrphansAnywhere'
<1> SUFFICES ASSUME BaseInv, RP!BaseInv, NoOrphansAnywhere, [SidecarNext]_sidecarVars,
                    NEW k \in Keys, resources'[k] # NoEntry
             PROVE  Tracked(k)' \/ RP!Held(k)'
  BY DEF SidecarInv, NoOrphansAnywhere, Tracked, RP!Held
<1>1. resources[k] = NoEntry \/ Tracked(k) \/ RP!Held(k)
  BY DEF NoOrphansAnywhere, Tracked, RP!Held
<1>2. CASE ControllerStep
  <2>1. KeepsTrack
    BY <1>2, NextBaseInv DEF ControllerStep
  <2>2. RP!Held(k)' <=> RP!Held(k)
    BY <1>2 DEF ControllerStep, crVars, RP!Held
  <2> QED
    BY <1>1, <2>1, <2>2 DEF KeepsTrack
<1>3. CASE ReconcilerStep
  <2>1. RP!KeepsHold
    BY <1>3, ReconcilerKeeps DEF ReconcilerStep
  <2>2. Tracked(k)' <=> Tracked(k)
    BY <1>3 DEF ReconcilerStep, handlers, Tracked
  <2> QED
    BY <1>1, <2>1, <2>2 DEF RP!KeepsHold
<1>4. CASE WorldStep
  BY <1>1, <1>4 DEF WorldStep, storeVars, handlers, crVars, Tracked, RP!Held
<1>5. CASE Restart
  BY <1>5 DEF Restart, NewManager, EmptyPublic
<1> QED
  BY <1>2, <1>3, <1>4, <1>5, StepOf

\* Whatever routes, Services and CRs share a key, however handlers, workers, main
\* and restarts interleave, no entry outlives everyone who could withdraw it.
THEOREM NeverOrphanedAnywhere == SidecarSpec => []NoOrphansAnywhere
<1>1. SidecarInit => NoOrphansAnywhere
  BY DEF SidecarInit, Init, StoreInit, EmptyPublic, NoOrphansAnywhere
<1> QED
  BY SidecarInvariance, NextNoOrphansAnywhere, <1>1, PTL DEF SidecarSpec

\* The two ways a change can miss the file stay the only ones when reconcilers
\* write too: theirs are immediate, and publish what the controllers deferred.
THEOREM LostWritesAnywhere == SidecarSpec => []OnlyStraddlingIsLost
<1>1. SidecarInit => OnlyStraddlingIsLost
  BY ControllerAssumption DEF SidecarInit, Init, OnlyStraddlingIsLost
<1>2. SidecarInv /\ OnlyStraddlingIsLost /\ [SidecarNext]_sidecarVars => OnlyStraddlingIsLost'
  <2> SUFFICES ASSUME BaseInv, RP!BaseInv, OnlyStraddlingIsLost, [SidecarNext]_sidecarVars
               PROVE  OnlyStraddlingIsLost'
    BY DEF SidecarInv
  <2>1. CASE ControllerStep \/ Restart
    BY <2>1, NextOnlyStraddlingIsLost DEF ControllerStep, Next
  <2>2. CASE ReconcilerStep
    <3>0. ~RP!Restart
      BY <2>2, ControllerAssumption DEF ReconcilerStep, RP!Restart, BaseInv, TypeOK
    <3>1. \/ UNCHANGED storeVars
          \/ lastWriteErr'
          \/ outputFile' = BlueprintOf(resources', privateResources')
      BY <2>2, <3>0, ReconcilerKeeps
      DEF ReconcilerStep, RP!Publishes, RP!storeVars, storeVars, RP!Level, RP!BlueprintOf, BlueprintOf
    <3>2. /\ runPc' = runPc
          /\ straddled' = (straddled /\ outputFile' # BlueprintOf(resources', privateResources'))
      BY <2>2 DEF ReconcilerStep, AfterCall, runs
    <3> QED
      BY <3>1, <3>2 DEF OnlyStraddlingIsLost, storeVars, BlueprintOf
  <2>3. CASE WorldStep
    BY <2>3 DEF WorldStep, OnlyStraddlingIsLost, storeVars, runs, BlueprintOf
  <2> QED
    BY <2>1, <2>2, <2>3, StepOf
<1> QED
  BY SidecarInvariance, <1>1, <1>2, PTL DEF SidecarSpec

\* The controllers' book-keeping is exact also while reconcilers and main run.
THEOREM BookKeepingIsExactAnywhere == SidecarSpec => []CaughtUp
<1>1. SidecarInit => CaughtInv
  BY InitCaughtInv DEF SidecarInit
<1>2. SidecarInv /\ CaughtInv /\ [SidecarNext]_sidecarVars => CaughtInv'
  <2> SUFFICES ASSUME BaseInv, CaughtInv, [SidecarNext]_sidecarVars PROVE CaughtInv'
    BY DEF SidecarInv
  <2>1. CASE ControllerStep \/ Restart
    BY <2>1, NextCaughtInv DEF ControllerStep, Next
  <2>2. CASE ReconcilerStep \/ WorldStep
    BY <2>2, CaughtFrame DEF ReconcilerStep, WorldStep, informers, handlers
  <2> QED
    BY <2>1, <2>2, StepOf
<1>3. CaughtInv => CaughtUp
  BY DEF CaughtInv, RecordInv, Recorded, Awaited, CaughtUp
<1> QED
  BY SidecarInvariance, <1>1, <1>2, <1>3, PTL DEF SidecarSpec
===============================================================================
