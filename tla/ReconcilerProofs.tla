--------------------------- MODULE ReconcilerProofs ---------------------------
(***************************************************************************)
(* The reconcilers' safety properties for every set of CRs, specs, names   *)
(* and Secrets.                                                            *)
(***************************************************************************)
EXTENDS Reconciler, StateStoreProofs

KindOf(o) == IF o \in PublicCRs THEN "public" ELSE "private"

Calls == [at : {"idle", "remove", "secret", "apply"}, obj : CRs \cup {NoObject},
          spec : Specs \cup {NoObject}, data : SecretData \cup {NoSecret}]

\* A worker in a call has a CR of its kind, and a spec that validate accepts if
\* the call is about one; an idle worker has none.
WorkerInv ==
    \A kind \in Kinds :
        /\ worker[kind].at = "idle" => worker[kind].obj = NoObject
        /\ worker[kind].at # "idle" => worker[kind].obj \in CRsOf(kind)
        /\ worker[kind].at \in {"secret", "apply"} =>
             worker[kind].spec \in Specs /\ Valid(worker[kind].spec)

\* A call whose CR has not been requested again works on what the cache holds.
FreshInv ==
    \A kind \in Kinds : (worker[kind].at # "idle" /\ worker[kind].obj \notin requests) =>
        IF worker[kind].at = "remove" THEN cache[worker[kind].obj] = NoObject
        ELSE cache[worker[kind].obj] = worker[kind].spec

\* The entry under a CR's name is its own, from some version that was valid.
OwnInv ==
    \A o \in CRs : EntryOf(o) = NoEntry \/ IsFrom(o, {s \in Specs : Valid(s)}, EntryOf(o))

\* Two CRs of one kind never share a name: names are unique in a namespace, and
\* across namespaces it is up to the users.
NamesAreUnique ==
    \A o, p \in CRs : (KindOf(o) = KindOf(p) /\ KeyOf[o] = KeyOf[p]) => o = p

BaseInv == TypeOK /\ WorkerInv /\ FreshInv
EntryInv == OwnInv /\ EachCRHasItsEntry

\* An idle worker is well typed, and so is the call that follows a Get.
LEMMA WorkerTypes ==
    ASSUME TypeOK
    PROVE  /\ Idle \in Calls
           /\ worker \in [Kinds -> Calls]
           /\ \A o \in CRs : AfterGet(o) \in Calls
<1>1. Idle \in Calls
  BY DEF Idle, Calls
<1>2. worker \in [Kinds -> Calls]
  BY DEF TypeOK, Calls
<1>3. ASSUME NEW o \in CRs PROVE AfterGet(o) \in Calls
  BY <1>1 DEF AfterGet, Idle, Calls, TypeOK
<1> QED
  BY <1>1, <1>2, <1>3

\* Where a call goes after its Get.
LEMMA AfterGetFacts ==
    ASSUME TypeOK, NEW o \in CRs
    PROVE  \/ AfterGet(o) = Idle /\ cache[o] # NoObject /\ ~Valid(cache[o])
           \/ /\ AfterGet(o).at = "remove" /\ AfterGet(o).obj = o
              /\ cache[o] = NoObject
           \/ /\ AfterGet(o).at \in {"secret", "apply"} /\ AfterGet(o).obj = o
              /\ AfterGet(o).spec = cache[o] /\ cache[o] \in Specs /\ Valid(cache[o])
<1>1. CASE cache[o] = NoObject
  BY <1>1 DEF AfterGet, Idle
<1>2. CASE cache[o] # NoObject /\ ~Valid(cache[o])
  BY <1>2 DEF AfterGet
<1>3. CASE cache[o] # NoObject /\ Valid(cache[o])
  BY <1>3 DEF AfterGet, TypeOK
<1> QED
  BY <1>1, <1>2, <1>3

\* A failed attempt stays within its bound.
LEMMA AttemptType ==
    ASSUME TypeOK, NEW ok \in BOOLEAN, Attempt(ok)
    PROVE  /\ changes' \in 0 .. MaxChanges
           /\ faults' \in 0 .. MaxFaults
           /\ restarts' \in 0 .. MaxRestarts
BY ReconcilerAssumption DEF TypeOK, Attempt

\* The manager call that ends a Reconcile is about the CR's own key: it removes
\* the entry, or sets and writes the one built for the CR.
LEMMA ManagerCalls ==
    ASSUME BaseInv, NEW kind \in Kinds, NEW ok \in BOOLEAN
    PROVE  /\ ReconcileRemove(kind, ok) =>
                LET o == worker[kind].obj
                IN /\ o \in CRsOf(kind)
                   /\ \/ kind = "public" /\ KeyOf[o] \in Keys /\ Remove(KeyOf[o], ok)
                      \/ kind = "private" /\ KeyOf[o] \in PrivateKeys /\ RemovePrivate(KeyOf[o], ok)
           /\ ReconcileApply(kind, ok) =>
                LET o == worker[kind].obj
                    r == buildResource(o, worker[kind].spec, worker[kind].data)
                IN /\ o \in CRsOf(kind)
                   /\ worker[kind].spec \in Specs /\ Valid(worker[kind].spec)
                   /\ worker[kind].data \in SecretData \cup {NoSecret}
                   /\ \/ /\ kind = "public" /\ KeyOf[o] \in Keys /\ r \in Resources
                         /\ AddOrUpdate(KeyOf[o], r, TRUE, ok)
                      \/ /\ kind = "private" /\ KeyOf[o] \in PrivateKeys /\ r \in PrivateResources
                         /\ AddOrUpdatePrivate(KeyOf[o], r, TRUE, ok)
<1>1. worker[kind] \in Calls
  BY WorkerTypes DEF BaseInv
<1>2. worker[kind].at # "idle" => worker[kind].obj \in CRsOf(kind)
  BY DEF BaseInv, WorkerInv
<1>3. worker[kind].at = "apply" => worker[kind].spec \in Specs /\ Valid(worker[kind].spec)
  BY DEF BaseInv, WorkerInv
<1>4. worker[kind].data \in SecretData \cup {NoSecret}
  BY <1>1 DEF Calls
<1>5. kind = "public" \/ kind = "private"
  BY DEF Kinds
<1>6. /\ CRsOf("public") = PublicCRs
      /\ CRsOf("private") = PrivateCRs
  BY DEF CRsOf
<1>7. ASSUME ReconcileRemove(kind, ok)
      PROVE  LET o == worker[kind].obj
             IN /\ o \in CRsOf(kind)
                /\ \/ kind = "public" /\ KeyOf[o] \in Keys /\ Remove(KeyOf[o], ok)
                   \/ kind = "private" /\ KeyOf[o] \in PrivateKeys /\ RemovePrivate(KeyOf[o], ok)
  BY <1>7, <1>2, <1>5, <1>6, ReconcilerAssumption DEF ReconcileRemove
<1>8. ASSUME ReconcileApply(kind, ok)
      PROVE  LET o == worker[kind].obj
                 r == buildResource(o, worker[kind].spec, worker[kind].data)
             IN /\ o \in CRsOf(kind)
                /\ worker[kind].spec \in Specs /\ Valid(worker[kind].spec)
                /\ worker[kind].data \in SecretData \cup {NoSecret}
                /\ \/ /\ kind = "public" /\ KeyOf[o] \in Keys /\ r \in Resources
                      /\ AddOrUpdate(KeyOf[o], r, TRUE, ok)
                   \/ /\ kind = "private" /\ KeyOf[o] \in PrivateKeys /\ r \in PrivateResources
                      /\ AddOrUpdatePrivate(KeyOf[o], r, TRUE, ok)
  BY <1>8, <1>2, <1>3, <1>4, <1>5, <1>6, ReconcilerAssumption DEF ReconcileApply
<1> QED
  BY <1>7, <1>8

(***************************************************************************)
(* The base invariant.                                                     *)
(***************************************************************************)
\* The initial state, whatever the cluster holds.
LEMMA InitBaseInv == Init => BaseInv
<1> SUFFICES ASSUME Init PROVE BaseInv
  OBVIOUS
<1>1. StoreTypeOK
  BY DEF Init, StoreInit, StoreTypeOK, EmptyPublic, PublicMap, EmptyPrivate, PrivateMap
<1>2. 0 \in 0 .. MaxChanges /\ 0 \in 0 .. MaxFaults /\ 0 \in 0 .. MaxRestarts
  BY ReconcilerAssumption
<1>3. TypeOK
  BY <1>1, <1>2 DEF Init, TypeOK, Idle
<1>4. WorkerInv /\ FreshInv
  BY DEF Init, WorkerInv, FreshInv, Idle
<1> QED
  BY <1>3, <1>4 DEF BaseInv

\* A Get takes its CR off the queue as it starts to work on the cached spec.
LEMMA GetBaseInv ==
    ASSUME BaseInv, NEW kind \in Kinds, NEW o \in CRsOf(kind), NEW ok \in BOOLEAN, Get(kind, o, ok)
    PROVE  BaseInv'
<1>0. o \in CRs
  BY DEF CRsOf, CRs
<1>1. /\ changes' \in 0 .. MaxChanges
      /\ faults' \in 0 .. MaxFaults
      /\ restarts' \in 0 .. MaxRestarts
  BY AttemptType DEF Get, BaseInv
<1>2. /\ requests' \in SUBSET CRs
      /\ worker' \in [Kinds -> Calls]
  BY <1>0, WorkerTypes DEF Get, BaseInv, TypeOK
<1>3. TypeOK'
  BY <1>1, <1>2 DEF Get, BaseInv, TypeOK, StoreTypeOK, storeVars, Calls
<1>4. CASE ~ok
  BY <1>3, <1>4 DEF Get, BaseInv, WorkerInv, FreshInv
<1>5. CASE ok
  <2>1. /\ requests' = requests \ {o} /\ cache' = cache
        /\ \A j \in Kinds : worker'[j] = IF j = kind THEN AfterGet(o) ELSE worker[j]
    BY <1>5, WorkerTypes DEF Get, BaseInv
  <2>2. WorkerInv'
    <3> SUFFICES ASSUME NEW j \in Kinds PROVE WorkerInv!(j)'
      BY DEF WorkerInv
    <3>1. CASE j = kind
      BY <3>1, <1>0, <2>1, AfterGetFacts DEF BaseInv, Idle
    <3>2. CASE j # kind
      BY <3>2, <2>1 DEF BaseInv, WorkerInv
    <3> QED
      BY <3>1, <3>2
  <2>3. FreshInv'
    <3> SUFFICES ASSUME NEW j \in Kinds PROVE FreshInv!(j)'
      BY DEF FreshInv
    <3>1. CASE j = kind
      BY <3>1, <1>0, <2>1, AfterGetFacts DEF BaseInv, Idle
    <3>2. CASE j # kind
      <4>1. worker[j].at # "idle" => worker[j].obj # o
        <5>1. CRsOf(j) \cap CRsOf(kind) = {}
          BY <3>2, ReconcilerAssumption DEF Kinds, CRsOf
        <5> QED
          BY <5>1 DEF BaseInv, WorkerInv
      <4> QED
        BY <3>2, <4>1, <2>1 DEF BaseInv, FreshInv
    <3> QED
      BY <3>1, <3>2
  <2> QED
    BY <1>3, <2>2, <2>3 DEF BaseInv
<1> QED
  BY <1>4, <1>5

\* The Secret Get leaves the call's CR and spec alone.
LEMMA SecretBaseInv ==
    ASSUME BaseInv, NEW kind \in Kinds, NEW ok \in BOOLEAN, resolveAuthSecret(kind, ok)
    PROVE  BaseInv'
<1> DEFINE data == IF ok /\ UsesSecret(worker[kind].spec) THEN secret ELSE NoSecret
           r == [worker[kind] EXCEPT !.at = "apply", !.data = data]
<1>1. worker[kind] \in Calls /\ worker[kind].at = "secret"
  BY WorkerTypes DEF resolveAuthSecret, BaseInv
<1>2. data \in SecretData \cup {NoSecret}
  BY DEF BaseInv, TypeOK
<1>3. worker' = [worker EXCEPT ![kind] = r]
  BY DEF resolveAuthSecret
<1> HIDE DEF data
<1>4. r \in Calls /\ r.at = "apply" /\ r.obj = worker[kind].obj /\ r.spec = worker[kind].spec
  BY <1>1, <1>2 DEF Calls
<1> HIDE DEF r
<1>5. /\ worker' \in [Kinds -> Calls]
      /\ \A j \in Kinds : worker'[j] = IF j = kind THEN r ELSE worker[j]
  BY <1>3, <1>4, WorkerTypes DEF BaseInv
<1>6. /\ changes' \in 0 .. MaxChanges
      /\ faults' \in 0 .. MaxFaults
      /\ restarts' \in 0 .. MaxRestarts
  BY AttemptType DEF resolveAuthSecret, BaseInv
<1>7. TypeOK'
  BY <1>5, <1>6 DEF resolveAuthSecret, BaseInv, TypeOK, StoreTypeOK, storeVars, Calls
<1>8. requests' = requests /\ cache' = cache
  BY DEF resolveAuthSecret
<1>9. WorkerInv' /\ FreshInv'
  BY <1>1, <1>4, <1>5, <1>8 DEF BaseInv, WorkerInv, FreshInv
<1> QED
  BY <1>7, <1>9 DEF BaseInv

\* A manager call ends the Reconcile.
LEMMA ManagerCallBaseInv ==
    ASSUME BaseInv, NEW kind \in Kinds, NEW ok \in BOOLEAN,
           ReconcileRemove(kind, ok) \/ ReconcileApply(kind, ok)
    PROVE  BaseInv'
<1>1. StoreTypeOK'
  BY ManagerCalls, ManagerTypes DEF BaseInv, TypeOK, PublicCall, PrivateCall
<1>2. /\ changes' \in 0 .. MaxChanges
      /\ faults' \in 0 .. MaxFaults
      /\ restarts' \in 0 .. MaxRestarts
  BY AttemptType DEF ReconcileRemove, ReconcileApply, BaseInv
<1>3. worker' = [worker EXCEPT ![kind] = Idle] /\ UNCHANGED <<cluster, secret, cache, requests>>
  BY DEF ReconcileRemove, ReconcileApply
<1>4. /\ worker' \in [Kinds -> Calls]
      /\ \A j \in Kinds : worker'[j] = IF j = kind THEN Idle ELSE worker[j]
  BY <1>3, WorkerTypes DEF BaseInv
<1>5. TypeOK'
  BY <1>1, <1>2, <1>3, <1>4 DEF BaseInv, TypeOK, Calls
<1>6. WorkerInv' /\ FreshInv'
  BY <1>3, <1>4 DEF BaseInv, WorkerInv, FreshInv, Idle
<1> QED
  BY <1>5, <1>6 DEF BaseInv

\* The cluster, the cache and the restart.
LEMMA OutsideBaseInv ==
    ASSUME BaseInv,
           \/ \E o \in CRs, s \in Specs \cup {NoObject} : ChangeCR(o, s)
           \/ \E d \in SecretData \cup {NoSecret} : ChangeSecret(d)
           \/ \E o \in CRs : Deliver(o) \/ Resync(o)
           \/ Restart
    PROVE  BaseInv'
<1>1. ASSUME NEW o \in CRs, NEW s \in Specs \cup {NoObject}, ChangeCR(o, s) PROVE BaseInv'
  <2>1. cluster' \in [CRs -> Specs \cup {NoObject}] /\ changes' \in 0 .. MaxChanges
    BY <1>1, ReconcilerAssumption DEF ChangeCR, BaseInv, TypeOK
  <2>2. TypeOK'
    BY <1>1, <2>1 DEF ChangeCR, BaseInv, TypeOK, StoreTypeOK, storeVars
  <2> QED
    BY <1>1, <2>2 DEF ChangeCR, BaseInv, WorkerInv, FreshInv
<1>2. ASSUME NEW d \in SecretData \cup {NoSecret}, ChangeSecret(d) PROVE BaseInv'
  <2>1. changes' \in 0 .. MaxChanges
    BY <1>2, ReconcilerAssumption DEF ChangeSecret, BaseInv, TypeOK
  <2>2. TypeOK'
    BY <1>2, <2>1 DEF ChangeSecret, BaseInv, TypeOK, StoreTypeOK, storeVars
  <2> QED
    BY <1>2, <2>2 DEF ChangeSecret, BaseInv, WorkerInv, FreshInv
<1>3. ASSUME NEW o \in CRs, Deliver(o) \/ Resync(o) PROVE BaseInv'
  <2>1. /\ cache' \in [CRs -> Specs \cup {NoObject}]
        /\ \A p \in CRs : p # o => cache'[p] = cache[p]
        /\ requests' = requests \cup {o}
        /\ UNCHANGED <<storeVars, cluster, secret, worker, budgets>>
    BY <1>3 DEF Deliver, Resync, BaseInv, TypeOK
  <2>2. TypeOK'
    BY <2>1 DEF BaseInv, TypeOK, StoreTypeOK, storeVars, budgets
  <2>3. WorkerInv'
    BY <2>1 DEF BaseInv, WorkerInv
  <2>4. FreshInv'
    <3> SUFFICES ASSUME NEW j \in Kinds, worker[j].at # "idle", worker[j].obj \notin requests'
                 PROVE  IF worker[j].at = "remove" THEN cache'[worker[j].obj] = NoObject
                        ELSE cache'[worker[j].obj] = worker[j].spec
      BY <2>1 DEF FreshInv
    <3>1. worker[j].obj \in CRs /\ worker[j].obj # o /\ worker[j].obj \notin requests
      BY <2>1 DEF BaseInv, WorkerInv, CRsOf, CRs
    <3> QED
      BY <2>1, <3>1 DEF BaseInv, FreshInv
  <2> QED
    BY <2>2, <2>3, <2>4 DEF BaseInv
<1>4. CASE Restart
  <2>1. StoreTypeOK'
    BY <1>4 DEF Restart, NewManager, BaseInv, TypeOK, StoreTypeOK, EmptyPublic, PublicMap, EmptyPrivate,
                PrivateMap
  <2>2. restarts' \in 0 .. MaxRestarts
    BY <1>4, ReconcilerAssumption DEF Restart, BaseInv, TypeOK
  <2>3. worker' \in [Kinds -> Calls]
    BY <1>4, WorkerTypes DEF Restart, BaseInv
  <2>4. TypeOK'
    BY <1>4, <2>1, <2>2, <2>3 DEF Restart, BaseInv, TypeOK, Calls
  <2>5. WorkerInv' /\ FreshInv'
    BY <1>4 DEF Restart, WorkerInv, FreshInv, Idle
  <2> QED
    BY <2>4, <2>5 DEF BaseInv
<1> QED
  BY <1>1, <1>2, <1>3, <1>4

\* The base invariant is inductive.
LEMMA NextBaseInv == BaseInv /\ [Next]_vars => BaseInv'
<1> SUFFICES ASSUME BaseInv, [Next]_vars PROVE BaseInv'
  OBVIOUS
<1>1. ASSUME NEW kind \in Kinds, Reconcile(kind) PROVE BaseInv'
  BY <1>1, GetBaseInv, SecretBaseInv, ManagerCallBaseInv DEF Reconcile
<1>2. CASE UNCHANGED vars
  <2>1. TypeOK'
    BY <1>2 DEF vars, storeVars, budgets, BaseInv, TypeOK, StoreTypeOK
  <2> QED
    BY <1>2, <2>1 DEF vars, BaseInv, WorkerInv, FreshInv
<1> QED
  BY <1>1, <1>2, OutsideBaseInv DEF Next

\* The base invariant holds in every reachable state.
LEMMA BaseInvariance == Spec => []BaseInv
BY InitBaseInv, NextBaseInv, PTL DEF Spec

\* The reconcilers keep their own and the manager's state well typed.
THEOREM ReconcilerTypeCorrect == Spec => []TypeOK
<1>1. BaseInv => TypeOK
  BY DEF BaseInv
<1> QED
  BY BaseInvariance, <1>1, PTL

(***************************************************************************)
(* What a reconciler's step does to the shared map and the file, whoever   *)
(* else writes to them.                                                    *)
(***************************************************************************)
\* A PublicResource of this name is cached, requested or being reconciled.
Held(k) ==
    \E o \in PublicCRs :
        /\ KeyOf[o] = k
        /\ cache[o] # NoObject \/ o \in requests \/ worker["public"].obj = o

\* A step that adds no entry without a holder, and takes the last holder from
\* none that stays.
KeepsHold ==
    \A k \in Keys : (resources'[k] # NoEntry /\ (resources[k] = NoEntry \/ Held(k))) => Held(k)'

\* A step leaves the manager alone, starts it anew, or leaves the file level with
\* the maps unless the write failed.
Publishes == UNCHANGED storeVars \/ Restart \/ lastWriteErr' \/ Level'

\* Every write of a reconciler is immediate.
LEMMA NextPublishes == BaseInv /\ [Next]_vars => Publishes
<1> SUFFICES ASSUME BaseInv, [Next]_vars PROVE Publishes
  OBVIOUS
<1>1. ASSUME NEW kind \in Kinds, NEW ok \in BOOLEAN,
             ReconcileRemove(kind, ok) \/ ReconcileApply(kind, ok)
      PROVE  Publishes
  BY <1>1, ManagerCalls, ManagerPublishes DEF Publishes
<1>2. ASSUME NEW kind \in Kinds, Reconcile(kind) PROVE Publishes
  BY <1>1, <1>2 DEF Reconcile, Get, resolveAuthSecret, Publishes
<1> QED
  BY <1>2 DEF Next, ChangeCR, ChangeSecret, Deliver, Resync, Publishes, vars

\* A CR that has an entry is never out of sight.
LEMMA NextKeepsHold == BaseInv /\ [Next]_vars => KeepsHold
<1> SUFFICES ASSUME BaseInv, [Next]_vars PROVE KeepsHold
  OBVIOUS
<1>1. CASE /\ UNCHANGED <<resources, cache, worker>>
           /\ requests \subseteq requests'
  BY <1>1 DEF KeepsHold, Held
<1>2. ASSUME NEW o \in CRs, Deliver(o) PROVE KeepsHold
  BY <1>2 DEF Deliver, storeVars, KeepsHold, Held, BaseInv, TypeOK, CRs
<1>3. ASSUME NEW kind \in Kinds, NEW ok \in BOOLEAN, NEW o \in CRsOf(kind), Get(kind, o, ok)
      PROVE  KeepsHold
  <2>1. CASE ~ok
    BY <1>1, <1>3, <2>1 DEF Get, storeVars
  <2>2. CASE ok
    <3>1. /\ resources' = resources /\ cache' = cache /\ requests' = requests \ {o}
          /\ worker' = [worker EXCEPT ![kind] = AfterGet(o)]
          /\ worker \in [Kinds -> Calls] /\ o \in CRs
          /\ worker[kind].obj = NoObject
      BY <1>3, <2>2, WorkerTypes DEF Get, storeVars, BaseInv, WorkerInv, CRsOf, CRs
    <3>2. cache[o] # NoObject \/ AfterGet(o).obj = o
      BY <3>1, AfterGetFacts DEF BaseInv
    <3>3. o \in PublicCRs => kind = "public"
      BY ReconcilerAssumption DEF CRsOf
    <3>4. "public" \in Kinds /\ NoObject \notin PublicCRs
      BY ReconcilerAssumption DEF Kinds, CRs
    <3>5. ASSUME NEW p \in PublicCRs,
                 cache[p] # NoObject \/ p \in requests \/ worker["public"].obj = p
          PROVE  cache'[p] # NoObject \/ p \in requests' \/ worker'["public"].obj = p
      BY <3>1, <3>2, <3>3, <3>4, <3>5
    <3> QED
      BY <3>1, <3>5 DEF KeepsHold, Held
  <2> QED
    BY <2>1, <2>2
<1>4. ASSUME NEW kind \in Kinds, NEW ok \in BOOLEAN, resolveAuthSecret(kind, ok) PROVE KeepsHold
  <2>1. worker'["public"].obj = worker["public"].obj
    BY <1>4, WorkerTypes DEF resolveAuthSecret, BaseInv, Calls, Kinds
  <2> QED
    BY <1>4, <2>1 DEF resolveAuthSecret, storeVars, KeepsHold, Held
<1>5. ASSUME NEW kind \in Kinds, NEW ok \in BOOLEAN,
             ReconcileRemove(kind, ok) \/ ReconcileApply(kind, ok)
      PROVE  KeepsHold
  <2>1. /\ UNCHANGED <<cache, requests>> /\ StoreTypeOK
        /\ \A q \in Kinds : q # kind => worker'[q] = worker[q]
    BY <1>5 DEF ReconcileRemove, ReconcileApply, BaseInv, TypeOK
  <2>2. CASE kind # "public"
    <3>1. resources' = resources
      BY <1>5, <2>1, <2>2, ManagerCalls DEF AddOrUpdatePrivate, RemovePrivate, storeVars
    <3> QED
      BY <2>1, <2>2, <3>1 DEF KeepsHold, Held, Kinds
  <2>3. CASE kind = "public" /\ ReconcileRemove(kind, ok)
    <3>1. PICK o : o = worker["public"].obj
      OBVIOUS
    <3>2. KeyOf[o] \in Keys /\ Remove(KeyOf[o], ok)
      BY <2>3, <3>1, ManagerCalls
    <3>3. resources'[KeyOf[o]] = NoEntry /\ \A j \in Keys : j # KeyOf[o] => resources'[j] = resources[j]
      BY <2>1, <3>2, OneEntryChanges
    <3> QED
      BY <2>1, <3>1, <3>3 DEF KeepsHold, Held
  <2>4. CASE kind = "public" /\ ReconcileApply(kind, ok)
    <3>1. PICK o : o = worker["public"].obj
      OBVIOUS
    <3>2. PICK r : r = buildResource(o, worker["public"].spec, worker["public"].data)
      OBVIOUS
    <3>3. /\ o \in PublicCRs /\ worker["public"].spec \in Specs /\ KeyOf[o] \in Keys
          /\ AddOrUpdate(KeyOf[o], r, TRUE, ok)
      BY <2>4, <3>1, <3>2, ManagerCalls DEF CRsOf
    <3>4. \A j \in Keys : j # KeyOf[o] => resources'[j] = resources[j]
      BY <2>1, <3>3 DEF AddOrUpdate, StoreTypeOK, PublicMap, storeVars
    <3>5. cache[o] # NoObject \/ o \in requests
      BY <2>4, <3>1, <3>3, ReconcilerAssumption DEF BaseInv, FreshInv, ReconcileApply
    <3> QED
      BY <2>1, <3>1, <3>3, <3>4, <3>5 DEF KeepsHold, Held
  <2> QED
    BY <1>5, <2>2, <2>3, <2>4
<1>6. CASE Restart
  BY <1>6 DEF Restart, NewManager, EmptyPublic, KeepsHold
<1>7. CASE \/ \E o \in CRs, s \in Specs \cup {NoObject} : ChangeCR(o, s)
           \/ \E d \in SecretData \cup {NoSecret} : ChangeSecret(d)
           \/ \E o \in CRs : Resync(o)
           \/ UNCHANGED vars
  BY <1>1, <1>7 DEF ChangeCR, ChangeSecret, Resync, storeVars, vars
<1>8. ASSUME NEW kind \in Kinds, Reconcile(kind) PROVE KeepsHold
  BY <1>3, <1>4, <1>5, <1>8 DEF Reconcile
<1> QED
  BY <1>2, <1>6, <1>7, <1>8 DEF Next

(***************************************************************************)
(* Every write of a reconciler is immediate.                               *)
(***************************************************************************)
\* Unless a write failed, an entry in the maps is in the file too.
THEOREM EntriesPublished == Spec => []EntriesArePublished
<1>1. Init => EntriesArePublished
  BY DEF Init, StoreInit, EntriesArePublished
<1>2. BaseInv /\ EntriesArePublished /\ [Next]_vars => EntriesArePublished'
  <2> SUFFICES ASSUME BaseInv, EntriesArePublished, [Next]_vars PROVE EntriesArePublished'
    OBVIOUS
  <2> QED
    BY NextPublishes DEF Publishes, Level, EntriesArePublished, Restart, NewManager, storeVars,
                         BlueprintOf
<1> QED
  BY BaseInvariance, <1>1, <1>2, PTL DEF Spec

(***************************************************************************)
(* One entry per CR.                                                       *)
(***************************************************************************)
\* A call with unique names leaves the entries of all other CRs alone.
LEMMA OthersKeepTheirEntry ==
    ASSUME NamesAreUnique, BaseInv, NEW kind \in Kinds, NEW ok \in BOOLEAN,
           ReconcileRemove(kind, ok) \/ ReconcileApply(kind, ok)
    PROVE  \A o \in CRs : o # worker[kind].obj => EntryOf(o)' = EntryOf(o)
<1> DEFINE w == worker[kind].obj
<1> SUFFICES ASSUME NEW o \in CRs, o # w
             PROVE  EntryOf(o)' = EntryOf(o)
  OBVIOUS
<1>1. w \in CRsOf(kind) /\ w \in CRs /\ KindOf(w) = kind
  BY ManagerCalls, ReconcilerAssumption DEF Kinds, CRsOf, CRs, KindOf
<1>2. CASE KindOf(o) = kind
  <2>1. KeyOf[o] # KeyOf[w]
    BY <1>1, <1>2 DEF NamesAreUnique
  <2>2. o \in PublicCRs => kind = "public" /\ KeyOf[o] \in Keys
    BY <1>2, ReconcilerAssumption DEF KindOf
  <2>3. o \notin PublicCRs => kind = "private" /\ KeyOf[o] \in PrivateKeys
    BY <1>2, ReconcilerAssumption DEF KindOf, CRs
  <2> HIDE DEF w
  <2>4. ASSUME o \in PublicCRs PROVE resources'[KeyOf[o]] = resources[KeyOf[o]]
    <3>1. \/ Remove(KeyOf[w], ok)
          \/ \E r \in Resources : AddOrUpdate(KeyOf[w], r, TRUE, ok)
      BY <2>2, <2>4, ManagerCalls DEF w
    <3> QED
      BY <2>1, <2>2, <2>4, <3>1 DEF Remove, AddOrUpdate, storeVars, BaseInv, TypeOK, StoreTypeOK,
                                    PublicMap
  <2>5. ASSUME o \notin PublicCRs PROVE privateResources'[KeyOf[o]] = privateResources[KeyOf[o]]
    <3>1. \/ RemovePrivate(KeyOf[w], ok)
          \/ \E r \in PrivateResources : AddOrUpdatePrivate(KeyOf[w], r, TRUE, ok)
      BY <2>3, <2>5, ManagerCalls DEF w
    <3> QED
      BY <2>1, <2>3, <2>5, <3>1 DEF RemovePrivate, AddOrUpdatePrivate, storeVars, BaseInv, TypeOK,
                                    StoreTypeOK, PrivateMap
  <2> QED
    BY <2>4, <2>5 DEF EntryOf
<1>3. CASE KindOf(o) # kind
  <2>1. CASE o \in PublicCRs
    <3>1. kind = "private"
      BY <1>3, <2>1 DEF KindOf, Kinds
    <3>2. resources' = resources
      BY <3>1, ManagerCalls, OneEntryChanges, ZenonT(60) DEF BaseInv, TypeOK
    <3> QED
      BY <2>1, <3>2 DEF EntryOf
  <2>2. CASE o \notin PublicCRs
    <3>1. kind = "public"
      BY <1>3, <2>2 DEF KindOf, Kinds
    <3>2. privateResources' = privateResources
      BY <3>1, ManagerCalls, OneEntryChanges, ZenonT(60) DEF BaseInv, TypeOK
    <3> QED
      BY <2>2, <3>2 DEF EntryOf
  <2> QED
    BY <2>1, <2>2
<1> QED
  BY <1>2, <1>3

\* What a call makes of the entry of its own CR.
LEMMA OwnEntryIsSet ==
    ASSUME BaseInv, NEW kind \in Kinds, NEW ok \in BOOLEAN, NEW o \in CRs, o = worker[kind].obj
    PROVE  /\ ReconcileRemove(kind, ok) => EntryOf(o)' = NoEntry
           /\ ReconcileApply(kind, ok) =>
                EntryOf(o)' = buildResource(o, worker[kind].spec, worker[kind].data)
<1>1. /\ CRsOf("public") = PublicCRs
      /\ CRsOf("private") = PrivateCRs
      /\ \A p \in PrivateCRs : p \notin PublicCRs
  BY ReconcilerAssumption DEF CRsOf
<1>2. ASSUME ReconcileRemove(kind, ok) PROVE EntryOf(o)' = NoEntry
  <2>1. CASE o \in PublicCRs /\ KeyOf[o] \in Keys /\ Remove(KeyOf[o], ok)
    BY <2>1, OneEntryChanges DEF EntryOf, BaseInv, TypeOK
  <2>2. CASE o \notin PublicCRs /\ KeyOf[o] \in PrivateKeys /\ RemovePrivate(KeyOf[o], ok)
    BY <2>2, OneEntryChanges DEF EntryOf, BaseInv, TypeOK
  <2> QED
    BY <1>1, <1>2, <2>1, <2>2, ManagerCalls
<1>3. ASSUME ReconcileApply(kind, ok)
      PROVE  EntryOf(o)' = buildResource(o, worker[kind].spec, worker[kind].data)
  <2> DEFINE r == buildResource(o, worker[kind].spec, worker[kind].data)
  <2> HIDE DEF r
  <2>1. CASE /\ o \in PublicCRs /\ KeyOf[o] \in Keys /\ r \in Resources
             /\ AddOrUpdate(KeyOf[o], r, TRUE, ok)
    <3>1. resources'[KeyOf[o]] = r
      BY <2>1 DEF AddOrUpdate, storeVars, BaseInv, TypeOK, StoreTypeOK, PublicMap
    <3> QED
      BY <2>1, <3>1 DEF EntryOf, r
  <2>2. CASE /\ o \notin PublicCRs /\ KeyOf[o] \in PrivateKeys /\ r \in PrivateResources
             /\ AddOrUpdatePrivate(KeyOf[o], r, TRUE, ok)
    <3>1. privateResources'[KeyOf[o]] = r
      BY <2>2 DEF AddOrUpdatePrivate, storeVars, BaseInv, TypeOK, StoreTypeOK, PrivateMap
    <3> QED
      BY <2>2, <3>1 DEF EntryOf, r
  <2> QED
    BY <1>1, <1>3, <2>1, <2>2, ManagerCalls DEF r
<1> QED
  BY <1>2, <1>3

\* Steps that leave a CR's entry, its cached spec and its requests alone, and do
\* not start or end a call on it, keep what is claimed of it.
LEMMA EntryKept ==
    ASSUME EntryInv, NEW o \in CRs, EntryOf(o)' = EntryOf(o)
    PROVE  /\ OwnInv!(o)'
           /\ (cache'[o] = cache[o] /\ (Settled(o)' => Settled(o))) => EachCRHasItsEntry!(o)'
<1>1. OwnInv!(o)'
  BY DEF EntryInv, OwnInv, IsFrom
<1>2. ASSUME cache'[o] = cache[o], Settled(o)' => Settled(o) PROVE EachCRHasItsEntry!(o)'
  BY <1>2 DEF EntryInv, EachCRHasItsEntry, IsFrom
<1> QED
  BY <1>1, <1>2

\* With unique names the entries of the CRs are an inductive invariant.
LEMMA NextEntryInv ==
    ASSUME NamesAreUnique, BaseInv, EntryInv, [Next]_vars
    PROVE  EntryInv'
<1> SUFFICES ASSUME NEW o \in CRs
             PROVE  OwnInv!(o)' /\ EachCRHasItsEntry!(o)'
  BY DEF EntryInv, OwnInv, EachCRHasItsEntry
<1> DEFINE Goal == OwnInv!(o)' /\ EachCRHasItsEntry!(o)'
<1> SUFFICES Goal
  OBVIOUS
<1> HIDE DEF Goal
<1>0. CASE UNCHANGED storeVars /\ cache'[o] = cache[o] /\ (Settled(o)' => Settled(o))
  <2>1. EntryOf(o)' = EntryOf(o)
    BY <1>0 DEF EntryOf, storeVars
  <2> QED
    BY <1>0, <2>1, EntryKept DEF Goal
<1>1. ASSUME NEW p \in CRs, NEW s \in Specs \cup {NoObject}, ChangeCR(p, s) PROVE Goal
  BY <1>0, <1>1 DEF ChangeCR, Settled
<1>2. ASSUME NEW d \in SecretData \cup {NoSecret}, ChangeSecret(d) PROVE Goal
  BY <1>0, <1>2 DEF ChangeSecret, Settled
<1>3. ASSUME NEW p \in CRs, Deliver(p) \/ Resync(p) PROVE Goal
  <2>1. UNCHANGED storeVars /\ worker' = worker /\ requests' = requests \cup {p}
    BY <1>3 DEF Deliver, Resync
  <2>2. CASE p = o
    <3>1. ~Settled(o)' /\ EntryOf(o)' = EntryOf(o)
      BY <2>1, <2>2 DEF Settled, EntryOf, storeVars
    <3>2. OwnInv!(o)'
      BY <3>1, EntryKept
    <3>3. EachCRHasItsEntry!(o)'
      BY <3>1
    <3> QED
      BY <3>2, <3>3 DEF Goal
  <2>3. CASE p # o
    <3>1. cache'[o] = cache[o]
      BY <1>3, <2>3 DEF Deliver, Resync, BaseInv, TypeOK
    <3> QED
      BY <1>0, <2>1, <3>1 DEF Settled
  <2> QED
    BY <2>2, <2>3
<1>4. ASSUME NEW kind \in Kinds, NEW p \in CRsOf(kind), NEW ok \in BOOLEAN, Get(kind, p, ok)
      PROVE  Goal
  <2>1. UNCHANGED storeVars /\ cache' = cache
    BY <1>4 DEF Get
  <2>2. p \in CRs
    BY DEF CRsOf, CRs
  <2>3. CASE ~ok \/ p # o
    <3>1. worker[kind].obj = NoObject
      BY <1>4 DEF Get, BaseInv, WorkerInv
    <3>2. NoObject # o
      BY ReconcilerAssumption
    <3>3. Settled(o)' => Settled(o)
      BY <1>4, <2>3, <3>1, <3>2, WorkerTypes DEF Get, Settled, BaseInv
    <3> QED
      BY <1>0, <2>1, <3>3
  <2>4. CASE ok /\ p = o
    <3>1. worker'[kind] = AfterGet(o)
      BY <1>4, <2>4, WorkerTypes DEF Get, BaseInv
    <3>2. Settled(o)' => cache[o] # NoObject /\ ~Valid(cache[o])
      BY <3>1, AfterGetFacts DEF Settled, BaseInv
    <3>3. EntryOf(o)' = EntryOf(o)
      BY <2>1 DEF EntryOf, storeVars
    <3>4. OwnInv!(o)'
      BY <3>3, EntryKept
    <3>5. EachCRHasItsEntry!(o)'
      BY <2>1, <3>2, <3>4
    <3> QED
      BY <3>4, <3>5 DEF Goal
  <2> QED
    BY <2>3, <2>4
<1>5. ASSUME NEW kind \in Kinds, NEW ok \in BOOLEAN, resolveAuthSecret(kind, ok) PROVE Goal
  <2>1. worker'[kind].obj = worker[kind].obj /\ \A j \in Kinds : j # kind => worker'[j] = worker[j]
    <3>1. worker \in [Kinds -> Calls] /\ worker[kind] \in Calls
      BY WorkerTypes DEF BaseInv
    <3> QED
      BY <1>5, <3>1 DEF resolveAuthSecret, Calls
  <2>2. Settled(o)' => Settled(o)
    BY <1>5, <2>1 DEF resolveAuthSecret, Settled
  <2> QED
    BY <1>0, <1>5, <2>2 DEF resolveAuthSecret
<1>6. ASSUME NEW kind \in Kinds, NEW ok \in BOOLEAN,
             ReconcileRemove(kind, ok) \/ ReconcileApply(kind, ok)
      PROVE  Goal
  <2>1. UNCHANGED <<cache, requests>> /\ \A j \in Kinds : j # kind => worker'[j] = worker[j]
    BY <1>6, WorkerTypes DEF ReconcileRemove, ReconcileApply, BaseInv
  <2>2. CASE o # worker[kind].obj
    <3>1. EntryOf(o)' = EntryOf(o)
      BY <1>6, <2>2, OthersKeepTheirEntry
    <3>2. Settled(o)' => Settled(o)
      BY <2>1, <2>2 DEF Settled
    <3> QED
      BY <2>1, <3>1, <3>2, EntryKept DEF Goal
  <2>3. CASE o = worker[kind].obj /\ ReconcileRemove(kind, ok)
    <3>1. EntryOf(o)' = NoEntry
      BY <2>3, OwnEntryIsSet
    <3>2. o \notin requests => cache[o] = NoObject
      BY <2>3 DEF ReconcileRemove, BaseInv, FreshInv
    <3> QED
      BY <2>1, <3>1, <3>2 DEF Goal, Settled
  <2>4. CASE o = worker[kind].obj /\ ReconcileApply(kind, ok)
    <3> DEFINE s == worker[kind].spec
               d == worker[kind].data
    <3>1. EntryOf(o)' = buildResource(o, s, d)
      BY <2>4, OwnEntryIsSet
    <3>2. s \in Specs /\ Valid(s) /\ d \in SecretData \cup {NoSecret}
      BY <2>4, ManagerCalls
    <3>3. o \notin requests => cache[o] = s
      BY <2>4 DEF ReconcileApply, BaseInv, FreshInv
    <3> HIDE DEF s, d
    <3>4. OwnInv!(o)'
      BY <3>1, <3>2 DEF IsFrom
    <3>5. cache[o] = s => IsFrom(o, {cache[o]}, EntryOf(o)')
      BY <3>1, <3>2 DEF IsFrom
    <3>6. s # NoObject
      BY <3>2, ReconcilerAssumption
    <3>7. EachCRHasItsEntry!(o)'
      <4> SUFFICES ASSUME Settled(o)'
                   PROVE  /\ cache[o] = s /\ cache'[o] = cache[o]
                          /\ IsFrom(o, {cache'[o]}, EntryOf(o)')
        BY <3>2, <3>6
      <4>1. cache[o] = s /\ cache'[o] = cache[o]
        BY <2>1, <3>3 DEF Settled
      <4> QED
        BY <3>5, <4>1
    <3> QED
      BY <3>4, <3>7 DEF Goal
  <2> QED
    BY <1>6, <2>2, <2>3, <2>4
<1>7. CASE Restart
  <2>1. cache'[o] = NoObject
    BY <1>7 DEF Restart
  <2>2. EntryOf(o)' = NoEntry
    BY <1>7, ReconcilerAssumption DEF Restart, NewManager, EntryOf, EmptyPublic, EmptyPrivate, CRs
  <2> QED
    BY <2>1, <2>2 DEF Goal
<1>8. CASE UNCHANGED vars
  BY <1>0, <1>8 DEF vars, Settled
<1>9. ASSUME NEW kind \in Kinds, Reconcile(kind) PROVE Goal
  BY <1>4, <1>5, <1>6, <1>9 DEF Reconcile
<1> QED
  BY <1>1, <1>2, <1>3, <1>7, <1>8, <1>9 DEF Next

\* As long as no two CRs of a kind share a name, a settled CR has the entry its
\* cached spec asks for, and a deleted one has none.
THEOREM OneEntryPerCR == NamesAreUnique => (Spec => []EachCRHasItsEntry)
<1> SUFFICES ASSUME NamesAreUnique PROVE Spec => []EachCRHasItsEntry
  OBVIOUS
<1>1. Init => EntryInv
  <2> SUFFICES ASSUME Init, NEW o \in CRs PROVE EntryOf(o) = NoEntry /\ cache[o] = NoObject
    BY DEF EntryInv, OwnInv, EachCRHasItsEntry
  <2> QED
    BY ReconcilerAssumption DEF Init, StoreInit, EntryOf, EmptyPublic, EmptyPrivate, CRs
<1>2. BaseInv /\ EntryInv /\ [Next]_vars => EntryInv'
  BY NextEntryInv
<1>3. EntryInv => EachCRHasItsEntry
  BY DEF EntryInv
<1> QED
  BY BaseInvariance, <1>1, <1>2, <1>3, PTL DEF Spec
===============================================================================
