--------------------------- MODULE ControllerProofs ---------------------------
(***************************************************************************)
(* The controllers' safety properties for every set of controllers,        *)
(* objects, versions and keys: type correctness, no orphaned entries, the  *)
(* one way in which a change can miss the file, and exact book-keeping,    *)
(* shared keys included; and an exact map where no key is shared.          *)
(***************************************************************************)
EXTENDS Controller, StateStoreProofs, SequenceTheorems

EventsOf(c) == {e \in Events : ControllerOf[e.obj] = c}

\* A handler is only ever given objects of its own informer.
QueueInv == \A c \in Controllers : queue[c] \in Seq(EventsOf(c))

\* A call concerns an object of its controller, has nothing left to do when it
\* is idle or before BuildEntries, and only puts keys that resourceKeys records.
CallInv ==
    \A c \in Controllers :
        /\ call[c].at = "idle" => call[c].drop = {} /\ call[c].put = EmptyPublic
        /\ call[c].at # "idle" => call[c].obj \in Objects /\ ControllerOf[call[c].obj] = c
        /\ call[c].at = "resolve" =>
             call[c].spec \in Specs /\ call[c].drop = {} /\ call[c].put = EmptyPublic
        /\ \A k \in Keys : call[c].put[k] # NoEntry => k \in resourceKeys[call[c].obj]

BaseInv == TypeOK /\ QueueInv /\ CallInv

\* Some object or some removal under way answers for the entry of a key.
Tracked(k) ==
    \/ \E o \in Objects : k \in resourceKeys[o]
    \/ \E c \in Controllers : k \in call[c].drop

\* A step that adds no entry without a tracker, and takes the last tracker from
\* none that stays.
KeepsTrack ==
    \A k \in Keys : (resources'[k] # NoEntry /\ (resources[k] = NoEntry \/ Tracked(k))) => Tracked(k)'

\* The empty map and the idle call are well typed.
LEMMA EmptyTypes == EmptyPublic \in PublicMap /\ IdleCall \in Calls
BY DEF EmptyPublic, PublicMap, IdleCall, Calls

\* Continue changes nothing but the book-keeping of a finished call.
LEMMA ContinueFacts ==
    ASSUME NEW r \in Calls, r.at = "apply"
    PROVE  /\ Continue(r) \in Calls
           /\ Continue(r).drop = r.drop
           /\ Continue(r).put = r.put
           /\ Continue(r).at \in {"idle", "apply"}
           /\ Continue(r).at = "idle" => r.drop = {} /\ r.put = EmptyPublic
           /\ Continue(r).at # "idle" => Continue(r).obj = r.obj
BY EmptyTypes DEF Continue, IdleCall

\* The initial state, whatever the cluster holds.
LEMMA InitBaseInv == Init => BaseInv
<1> SUFFICES ASSUME Init PROVE BaseInv
  OBVIOUS
<1>1. StoreTypeOK
  BY EmptyTypes DEF Init, StoreInit, StoreTypeOK, EmptyPrivate, PrivateMap
<1>2. TypeOK
  <2>1. 0 \in 0 .. MaxChanges /\ 0 \in 0 .. MaxFaults /\ 0 \in 0 .. MaxRestarts
    BY ControllerAssumption
  <2>2. queue \in [Controllers -> Seq(Events)]
    BY DEF Init
  <2>3. call \in [Controllers -> Calls]
    BY EmptyTypes DEF Init
  <2> QED
    BY <1>1, <2>1, <2>2, <2>3 DEF Init, TypeOK, Existing
<1>3. QueueInv
  BY DEF Init, QueueInv
<1>4. CallInv
  BY EmptyTypes DEF Init, CallInv, IdleCall, EmptyPublic
<1> QED
  BY <1>2, <1>3, <1>4 DEF BaseInv

\* A notification goes to the object's own handler.
LEMMA NotifyInv ==
    ASSUME TypeOK, QueueInv, NEW o \in Objects, NEW s \in Specs,
           NEW kind \in {"upsert", "delete"}, Notify(kind, o, s)
    PROVE  queue' \in [Controllers -> Seq(Events)] /\ QueueInv'
<1> DEFINE e == [kind |-> kind, obj |-> o, spec |-> s]
<1>1. e \in EventsOf(ControllerOf[o]) /\ ControllerOf[o] \in Controllers
  BY ControllerAssumption DEF EventsOf, Events
<1>2. \A c \in Controllers :
         queue'[c] = IF c = ControllerOf[o] THEN Append(queue[c], e) ELSE queue[c]
  BY DEF Notify, TypeOK
<1>3. e \in Events
  BY DEF Events
<1> HIDE DEF e
<1> DEFINE home == ControllerOf[o]
<1>4. queue[home] \in Seq(EventsOf(home)) /\ queue[home] \in Seq(Events)
  BY <1>1 DEF QueueInv, TypeOK
<1>5. Append(queue[home], e) \in Seq(EventsOf(home)) /\ Append(queue[home], e) \in Seq(Events)
  BY <1>1, <1>3, <1>4, AppendProperties
<1> HIDE DEF home
<1>6. \A c \in Controllers : queue'[c] \in Seq(EventsOf(c))
  BY <1>1, <1>2, <1>5 DEF QueueInv, home
<1>7. \A c \in Controllers : queue'[c] \in Seq(Events)
  BY <1>2, <1>5 DEF TypeOK, home
<1>8. queue' \in [Controllers -> Seq(Events)]
  BY <1>7 DEF Notify, TypeOK
<1> QED
  BY <1>6, <1>8 DEF QueueInv

\* removeObject from an idle call or before BuildEntries: the keys move from
\* resourceKeys to the removals that follow.
LEMMA removeObjectInv ==
    ASSUME BaseInv, NEW c \in Controllers, NEW o \in Objects, ControllerOf[o] = c,
           call[c].at # "apply", removeObject(c, o), UNCHANGED resources
    PROVE  /\ call' \in [Controllers -> Calls]
           /\ resourceKeys' \in [Objects -> SUBSET Keys]
           /\ CallInv'
           /\ KeepsTrack
<1> DEFINE r == [IdleCall EXCEPT !.at = "apply", !.obj = o, !.drop = resourceKeys[o]]
<1>1. /\ r \in Calls
      /\ r.at = "apply"
      /\ r.obj = o
      /\ r.drop = resourceKeys[o]
      /\ r.put = EmptyPublic
  BY EmptyTypes DEF IdleCall, Calls, BaseInv, TypeOK
<1>2. /\ call' = [call EXCEPT ![c] = Continue(r)]
      /\ resourceKeys' = [resourceKeys EXCEPT ![o] = {}]
  BY DEF removeObject
<1>3. /\ Continue(r) \in Calls
      /\ Continue(r).drop = resourceKeys[o]
      /\ Continue(r).put = EmptyPublic
      /\ Continue(r).at \in {"idle", "apply"}
      /\ Continue(r).at = "idle" => resourceKeys[o] = {}
      /\ Continue(r).at # "idle" => Continue(r).obj = o
  BY <1>1, ContinueFacts
<1> HIDE DEF r
<1>4. call' \in [Controllers -> Calls] /\ resourceKeys' \in [Objects -> SUBSET Keys]
  BY <1>2, <1>3 DEF BaseInv, TypeOK
<1>5. \A d \in Controllers : call'[d] = IF d = c THEN Continue(r) ELSE call[d]
  BY <1>2 DEF BaseInv, TypeOK
<1>6. \A p \in Objects : resourceKeys'[p] = IF p = o THEN {} ELSE resourceKeys[p]
  BY <1>2 DEF BaseInv, TypeOK
<1>7. CallInv'
  <2> SUFFICES ASSUME NEW d \in Controllers
               PROVE  CallInv!(d)'
    BY DEF CallInv
  <2>1. CASE d = c
    BY <2>1, <1>3, <1>5 DEF EmptyPublic
  <2>2. CASE d # c
    <3>1. call'[d] = call[d] /\ CallInv!(d)
      BY <2>2, <1>5 DEF BaseInv, CallInv
    <3>2. \A k \in Keys : call[d].put[k] # NoEntry => call[d].obj # o
      BY <3>1, <2>2 DEF EmptyPublic
    <3>3. \A k \in Keys : call[d].put[k] # NoEntry => call[d].obj \in Objects
      BY <3>1 DEF EmptyPublic
    <3> QED
      BY <3>1, <3>2, <3>3, <1>6
  <2> QED
    BY <2>1, <2>2
<1>8. KeepsTrack
  <2> SUFFICES ASSUME NEW k \in Keys, Tracked(k)
               PROVE  \/ \E p \in Objects : k \in resourceKeys'[p]
                      \/ \E d \in Controllers : k \in call'[d].drop
    BY DEF KeepsTrack, Tracked
  <2>1. CASE k \in resourceKeys[o]
    BY <2>1, <1>3, <1>5
  <2>2. CASE \E p \in Objects : p # o /\ k \in resourceKeys[p]
    BY <2>2, <1>6
  <2>3. CASE \E d \in Controllers : k \in call[d].drop
    <3>1. call[c].drop = {}
      <4>1. call[c] \in Calls
        BY DEF BaseInv, TypeOK
      <4>2. call[c].at \in {"idle", "resolve"}
        BY <4>1 DEF Calls
      <4> QED
        BY <4>2 DEF BaseInv, CallInv
    <3> QED
      BY <2>3, <3>1, <1>5
  <2> QED
    BY <2>1, <2>2, <2>3 DEF Tracked
<1> QED
  BY <1>4, <1>7, <1>8
\* Steps that touch neither the handlers nor the map.
LEMMA HandlersUnchanged ==
    ASSUME BaseInv, UNCHANGED <<handlers, resources>>
    PROVE  /\ CallInv' /\ KeepsTrack
           /\ call' \in [Controllers -> Calls] /\ resourceKeys' \in [Objects -> SUBSET Keys]
BY DEF BaseInv, TypeOK, CallInv, KeepsTrack, Tracked, handlers

\* A failed attempt stays within its bound.
LEMMA AttemptType ==
    ASSUME TypeOK, NEW ok \in BOOLEAN, Attempt(ok)
    PROVE  /\ changes' \in 0 .. MaxChanges
           /\ faults' \in 0 .. MaxFaults
           /\ restarts' \in 0 .. MaxRestarts
BY ControllerAssumption DEF TypeOK, Attempt

\* The environment, the informers, Run and the restart.
LEMMA OutsideInv ==
    ASSUME BaseInv,
           \/ Environment
           \/ \E o \in Objects : Deliver(o) \/ Resync(o)
           \/ \E c \in Controllers : Run(c)
           \/ Restart
    PROVE  BaseInv' /\ KeepsTrack
<1>1. ASSUME NEW o \in Objects, NEW s \in Specs \cup {NoObject}, ChangeObject(o, s)
      PROVE  BaseInv' /\ KeepsTrack
  <2>1. TypeOK'
    <3>1. cluster' \in [Objects -> Specs \cup {NoObject}] /\ changes' \in 0 .. MaxChanges
      BY <1>1, ControllerAssumption DEF ChangeObject, BaseInv, TypeOK
    <3> QED
      BY <1>1, <3>1 DEF ChangeObject, BaseInv, TypeOK, StoreTypeOK, storeVars, informers, handlers, runs
  <2>2. QueueInv' /\ UNCHANGED <<handlers, resources>>
    BY <1>1 DEF ChangeObject, BaseInv, QueueInv, informers, storeVars, handlers
  <2> QED
    BY <2>1, <2>2, HandlersUnchanged DEF BaseInv
<1>2. ASSUME NEW d \in SecretData \cup {NoSecret}, ChangeSecret(d)
      PROVE  BaseInv' /\ KeepsTrack
  <2>1. TypeOK'
    <3>1. changes' \in 0 .. MaxChanges
      BY <1>2, ControllerAssumption DEF ChangeSecret, BaseInv, TypeOK
    <3> QED
      BY <1>2, <3>1 DEF ChangeSecret, BaseInv, TypeOK, StoreTypeOK, storeVars, informers, handlers, runs
  <2>2. QueueInv' /\ UNCHANGED <<handlers, resources>>
    BY <1>2 DEF ChangeSecret, BaseInv, QueueInv, informers, storeVars, handlers
  <2> QED
    BY <2>1, <2>2, HandlersUnchanged DEF BaseInv
<1>3. ASSUME NEW o \in Objects, Deliver(o)
      PROVE  BaseInv' /\ KeepsTrack
  <2>1. queue' \in [Controllers -> Seq(Events)] /\ QueueInv'
    <3>1. CASE UNCHANGED queue
      BY <3>1 DEF BaseInv, TypeOK, QueueInv
    <3>2. CASE cluster[o] # NoObject /\ Notify("upsert", o, cluster[o])
      <4>1. cluster[o] \in Specs
        BY <3>2 DEF BaseInv, TypeOK
      <4> QED
        BY <3>2, <4>1, NotifyInv DEF BaseInv
    <3>3. CASE store[o] # NoObject /\ Notify("delete", o, store[o])
      <4>1. store[o] \in Specs
        BY <3>3 DEF BaseInv, TypeOK
      <4> QED
        BY <3>3, <4>1, NotifyInv DEF BaseInv
    <3> QED
      BY <1>3, <3>1, <3>2, <3>3 DEF Deliver
  <2>2. store' \in [Objects -> Specs \cup {NoObject}] /\ unlisted' \in SUBSET Objects
    BY <1>3 DEF Deliver, BaseInv, TypeOK
  <2>3. TypeOK'
    BY <1>3, <2>1, <2>2 DEF Deliver, BaseInv, TypeOK, StoreTypeOK, storeVars, world, handlers, runs,
                            budgets
  <2>4. UNCHANGED <<handlers, resources>>
    BY <1>3 DEF Deliver, storeVars, handlers
  <2> QED
    BY <2>1, <2>3, <2>4, HandlersUnchanged DEF BaseInv
<1>4. ASSUME NEW o \in Objects, Resync(o)
      PROVE  BaseInv' /\ KeepsTrack
  <2>1. queue' \in [Controllers -> Seq(Events)] /\ QueueInv'
    <3>1. store[o] \in Specs /\ Notify("upsert", o, store[o])
      BY <1>4 DEF Resync, BaseInv, TypeOK
    <3> QED
      BY <3>1, NotifyInv DEF BaseInv
  <2>2. TypeOK'
    BY <1>4, <2>1 DEF Resync, BaseInv, TypeOK, StoreTypeOK, storeVars, world, handlers, runs, budgets
  <2>3. UNCHANGED <<handlers, resources>>
    BY <1>4 DEF Resync, storeVars, handlers
  <2> QED
    BY <2>1, <2>2, <2>3, HandlersUnchanged DEF BaseInv
<1>5. ASSUME NEW c \in Controllers, NEW ok \in BOOLEAN, RunForceWrite(c, ok)
      PROVE  BaseInv' /\ KeepsTrack
  <2>1. StoreTypeOK'
    BY <1>5, ManagerTypes DEF RunForceWrite, BaseInv, TypeOK
  <2>2. /\ changes' \in 0 .. MaxChanges
        /\ faults' \in 0 .. MaxFaults
        /\ restarts' \in 0 .. MaxRestarts
    BY <1>5, AttemptType DEF RunForceWrite, BaseInv
  <2>3. straddled' \in BOOLEAN /\ runPc' \in [Controllers -> {"wait", "forced", "running"}]
    BY <1>5 DEF RunForceWrite, AfterCall, BaseInv, TypeOK
  <2>4. TypeOK'
    BY <1>5, <2>1, <2>2, <2>3 DEF RunForceWrite, BaseInv, TypeOK, world, informers, handlers
  <2>5. QueueInv' /\ UNCHANGED <<handlers, resources>>
    BY <1>5 DEF RunForceWrite, ForceWrite, BaseInv, QueueInv, informers, handlers
  <2> QED
    BY <2>4, <2>5, HandlersUnchanged DEF BaseInv
<1>6. ASSUME NEW c \in Controllers, RunStoreSynced(c)
      PROVE  BaseInv' /\ KeepsTrack
  <2>1. TypeOK'
    BY <1>6 DEF RunStoreSynced, BaseInv, TypeOK, StoreTypeOK, storeVars, world, informers, handlers,
                budgets
  <2>2. QueueInv' /\ UNCHANGED <<handlers, resources>>
    BY <1>6 DEF RunStoreSynced, BaseInv, QueueInv, informers, handlers, storeVars
  <2> QED
    BY <2>1, <2>2, HandlersUnchanged DEF BaseInv
<1>7. CASE Restart
  <2>1. StoreTypeOK'
    BY <1>7, EmptyTypes DEF Restart, NewManager, BaseInv, TypeOK, StoreTypeOK, EmptyPrivate, PrivateMap
  <2>2. /\ restarts' \in 0 .. MaxRestarts
        /\ queue' \in [Controllers -> Seq(Events)]
        /\ call' \in [Controllers -> Calls]
    BY <1>7, EmptyTypes, ControllerAssumption DEF Restart, BaseInv, TypeOK
  <2>3. TypeOK'
    BY <1>7, <2>1, <2>2 DEF Restart, Existing, BaseInv, TypeOK, world
  <2>4. QueueInv'
    BY <1>7 DEF Restart, QueueInv
  <2>5. CallInv' /\ KeepsTrack
    BY <1>7, EmptyTypes DEF Restart, NewManager, CallInv, KeepsTrack, IdleCall, EmptyPublic
  <2> QED
    BY <2>3, <2>4, <2>5 DEF BaseInv
<1> QED
  BY <1>1, <1>2, <1>3, <1>4, <1>5, <1>6, <1>7 DEF Environment, Run
\* The handler takes an event: onAdd, onUpdate and onDelete.
LEMMA BeginInv ==
    ASSUME BaseInv, NEW c \in Controllers, Begin(c)
    PROVE  BaseInv' /\ KeepsTrack
<1> DEFINE e == Head(queue[c])
<1>1. /\ queue[c] \in Seq(EventsOf(c)) /\ queue[c] \in Seq(Events) /\ queue[c] # <<>>
      /\ queue' = [queue EXCEPT ![c] = Tail(queue[c])]
  BY DEF Begin, BaseInv, QueueInv, TypeOK
<1>2. /\ e \in EventsOf(c)
      /\ Tail(queue[c]) \in Seq(EventsOf(c))
      /\ Tail(queue[c]) \in Seq(Events)
  BY <1>1, HeadTailProperties
<1>3. e.obj \in Objects /\ e.spec \in Specs /\ ControllerOf[e.obj] = c
  BY <1>2 DEF EventsOf, Events
<1>4. queue' \in [Controllers -> Seq(Events)] /\ QueueInv'
  BY <1>1, <1>2 DEF BaseInv, TypeOK, QueueInv
<1>5. \/ UNCHANGED handlers
      \/ removeObject(c, e.obj)
      \/ /\ call' = [call EXCEPT ![c] = [IdleCall EXCEPT !.at = "resolve", !.obj = e.obj,
                                                          !.spec = e.spec, !.write = synced[c]]]
         /\ UNCHANGED resourceKeys
  BY DEF Begin, onUpsert, onDelete
<1>6. call[c].at = "idle" /\ UNCHANGED resources
  BY DEF Begin, storeVars
<1> HIDE DEF e
<1>7. /\ call' \in [Controllers -> Calls]
      /\ resourceKeys' \in [Objects -> SUBSET Keys]
      /\ CallInv'
      /\ KeepsTrack
  <2>1. CASE UNCHANGED handlers
    BY <1>6, <2>1, HandlersUnchanged
  <2>2. CASE removeObject(c, e.obj)
    BY <1>3, <1>6, <2>2, removeObjectInv
  <2>3. ASSUME call' = [call EXCEPT ![c] = [IdleCall EXCEPT !.at = "resolve", !.obj = e.obj,
                                                            !.spec = e.spec, !.write = synced[c]]],
               UNCHANGED resourceKeys
        PROVE  /\ call' \in [Controllers -> Calls]
               /\ resourceKeys' \in [Objects -> SUBSET Keys]
               /\ CallInv'
               /\ KeepsTrack
    <3> DEFINE r == [IdleCall EXCEPT !.at = "resolve", !.obj = e.obj,
                                     !.spec = e.spec, !.write = synced[c]]
    <3>1. /\ r \in Calls /\ r.at = "resolve" /\ r.obj = e.obj /\ r.spec = e.spec
          /\ r.drop = {} /\ r.put = EmptyPublic
      BY <1>3, EmptyTypes DEF IdleCall, Calls, BaseInv, TypeOK
    <3>2. call' = [call EXCEPT ![c] = r]
      BY <2>3
    <3> HIDE DEF r
    <3>3. \A d \in Controllers : call'[d] = IF d = c THEN r ELSE call[d]
      BY <3>2 DEF BaseInv, TypeOK
    <3>4. call' \in [Controllers -> Calls] /\ resourceKeys' \in [Objects -> SUBSET Keys]
      BY <2>3, <3>1, <3>2 DEF BaseInv, TypeOK
    <3>5. CallInv'
      <4> SUFFICES ASSUME NEW d \in Controllers
                   PROVE  CallInv!(d)'
        BY DEF CallInv
      <4>1. CASE d = c
        BY <4>1, <1>3, <3>1, <3>3 DEF EmptyPublic
      <4>2. CASE d # c
        BY <4>2, <2>3, <3>3 DEF BaseInv, CallInv
      <4> QED
        BY <4>1, <4>2
    <3>6. KeepsTrack
      BY <1>6, <2>3, <3>3 DEF BaseInv, CallInv, KeepsTrack, Tracked
    <3> QED
      BY <3>4, <3>5, <3>6
  <2> QED
    BY <1>5, <2>1, <2>2, <2>3
<1>8. TypeOK'
  BY <1>4, <1>7 DEF Begin, BaseInv, TypeOK, StoreTypeOK, storeVars, world, runs, budgets
<1> QED
  BY <1>4, <1>7, <1>8 DEF BaseInv

\* BuildEntries and the book-keeping that follows it.
LEMMA ProcessObjectInv ==
    ASSUME BaseInv, NEW c \in Controllers, NEW ok \in BOOLEAN, ProcessObject(c, ok)
    PROVE  BaseInv' /\ KeepsTrack
<1> DEFINE o == call[c].obj
           s == call[c].spec
           data == resolveAuthSecret(c, ok)
           entries == BuildEntries(o, s, data)
<1>1. /\ call[c].at = "resolve" /\ call[c] \in Calls
      /\ o \in Objects /\ ControllerOf[o] = c /\ s \in Specs
      /\ call[c].drop = {} /\ call[c].put = EmptyPublic
  BY DEF ProcessObject, BaseInv, TypeOK, CallInv
<1>2. data \in SecretData \cup {NoSecret}
  BY DEF resolveAuthSecret, BaseInv, TypeOK
<1>3. entries \in PublicMap
  BY <1>1, <1>2, ControllerAssumption
<1>4. \/ removeObject(c, o)
      \/ /\ resourceKeys' = [resourceKeys EXCEPT ![o] = KeysOf(entries)]
         /\ call' = [call EXCEPT ![c] = [call[c] EXCEPT !.at = "apply",
                                                        !.drop = resourceKeys[o] \ KeysOf(entries),
                                                        !.put = entries]]
  BY DEF ProcessObject
<1>5. UNCHANGED resources
  BY DEF ProcessObject, storeVars
<1>6. QueueInv'
  BY DEF ProcessObject, BaseInv, QueueInv, informers
<1> HIDE DEF o, s, data, entries
<1>7. /\ call' \in [Controllers -> Calls]
      /\ resourceKeys' \in [Objects -> SUBSET Keys]
      /\ CallInv'
      /\ KeepsTrack
  <2>1. CASE removeObject(c, o)
    BY <1>1, <1>5, <2>1, removeObjectInv
  <2>2. CASE ~removeObject(c, o)
    <3> DEFINE r == [call[c] EXCEPT !.at = "apply",
                                    !.drop = resourceKeys[o] \ KeysOf(entries),
                                    !.put = entries]
    <3>1. /\ r \in Calls /\ r.at = "apply" /\ r.obj = o
          /\ r.drop = resourceKeys[o] \ KeysOf(entries) /\ r.put = entries
      BY <1>1, <1>3 DEF Calls, BaseInv, TypeOK, o
    <3>2. /\ call' = [call EXCEPT ![c] = r]
          /\ resourceKeys' = [resourceKeys EXCEPT ![o] = KeysOf(entries)]
      BY <1>4, <2>2
    <3> HIDE DEF r
    <3>3. \A d \in Controllers : call'[d] = IF d = c THEN r ELSE call[d]
      BY <3>2 DEF BaseInv, TypeOK
    <3>4. \A p \in Objects : resourceKeys'[p] = IF p = o THEN KeysOf(entries) ELSE resourceKeys[p]
      BY <3>2 DEF BaseInv, TypeOK
    <3>5. call' \in [Controllers -> Calls] /\ resourceKeys' \in [Objects -> SUBSET Keys]
      BY <3>1, <3>2 DEF BaseInv, TypeOK, KeysOf
    <3>6. CallInv'
      <4> SUFFICES ASSUME NEW d \in Controllers
                   PROVE  CallInv!(d)'
        BY DEF CallInv
      <4>1. CASE d = c
        <5>1. call'[d] = r /\ resourceKeys'[o] = KeysOf(entries)
          BY <4>1, <1>1, <3>3, <3>4
        <5>2. \A k \in Keys : r.put[k] # NoEntry => k \in resourceKeys'[r.obj]
          BY <5>1, <3>1 DEF KeysOf
        <5>3. r.obj \in Objects /\ ControllerOf[r.obj] = d
          BY <4>1, <1>1, <3>1
        <5> QED
          BY <5>1, <5>2, <5>3, <3>1
      <4>2. CASE d # c
        <5>1. call'[d] = call[d] /\ CallInv!(d)
          BY <4>2, <3>3 DEF BaseInv, CallInv
        <5>2. \A k \in Keys : call[d].put[k] # NoEntry => call[d].obj # o /\ call[d].obj \in Objects
          BY <4>2, <5>1, <1>1 DEF EmptyPublic
        <5> QED
          BY <5>1, <5>2, <3>4
      <4> QED
        BY <4>1, <4>2
    <3>7. KeepsTrack
      <4> SUFFICES ASSUME NEW k \in Keys, Tracked(k)
                   PROVE  \/ \E p \in Objects : k \in resourceKeys'[p]
                          \/ \E d \in Controllers : k \in call'[d].drop
        BY <1>5 DEF KeepsTrack, Tracked
      <4>1. CASE k \in resourceKeys[o]
        BY <4>1, <1>1, <3>1, <3>3, <3>4
      <4>2. CASE \E p \in Objects : p # o /\ k \in resourceKeys[p]
        BY <4>2, <3>4
      <4>3. CASE \E d \in Controllers : k \in call[d].drop
        BY <4>3, <1>1, <3>3
      <4> QED
        BY <4>1, <4>2, <4>3 DEF Tracked
    <3> QED
      BY <3>5, <3>6, <3>7
  <2> QED
    BY <2>1, <2>2
<1>8. /\ changes' \in 0 .. MaxChanges
      /\ faults' \in 0 .. MaxFaults
      /\ restarts' \in 0 .. MaxRestarts
  BY AttemptType DEF ProcessObject, BaseInv
<1>9. TypeOK'
  BY <1>7, <1>8 DEF ProcessObject, BaseInv, TypeOK, StoreTypeOK, storeVars, world, informers, runs
<1> QED
  BY <1>6, <1>7, <1>9 DEF BaseInv

\* One Remove: the key leaves the map with the pending removal.
LEMMA DropInv ==
    ASSUME BaseInv, NEW c \in Controllers, NEW k \in Keys, NEW ok \in BOOLEAN, Drop(c, k, ok)
    PROVE  BaseInv' /\ KeepsTrack
<1> DEFINE r == [call[c] EXCEPT !.drop = call[c].drop \ {k}]
<1>1. /\ call[c] \in Calls /\ call[c].at = "apply"
      /\ call[c].obj \in Objects /\ ControllerOf[call[c].obj] = c
  BY DEF Drop, BaseInv, TypeOK, CallInv
<1>2. /\ r \in Calls /\ r.at = "apply" /\ r.obj = call[c].obj
      /\ r.drop = call[c].drop \ {k} /\ r.put = call[c].put
  BY <1>1 DEF Calls
<1>3. call' = [call EXCEPT ![c] = Continue(r)] /\ resourceKeys' = resourceKeys
  BY DEF Drop
<1> HIDE DEF r
<1>4. /\ Continue(r) \in Calls
      /\ Continue(r).drop = call[c].drop \ {k}
      /\ Continue(r).put = call[c].put
      /\ Continue(r).at \in {"idle", "apply"}
      /\ Continue(r).at = "idle" => r.drop = {} /\ r.put = EmptyPublic
      /\ Continue(r).at # "idle" => Continue(r).obj = call[c].obj
  BY <1>2, ContinueFacts
<1>5. \A d \in Controllers : call'[d] = IF d = c THEN Continue(r) ELSE call[d]
  BY <1>3 DEF BaseInv, TypeOK
<1>6. CallInv'
  <2> SUFFICES ASSUME NEW d \in Controllers
               PROVE  CallInv!(d)'
    BY DEF CallInv
  <2>1. CASE d = c
    <3>1. \A j \in Keys : Continue(r).put[j] # NoEntry => Continue(r).at # "idle"
      BY <1>2, <1>4 DEF EmptyPublic
    <3>2. \A j \in Keys : call[c].put[j] # NoEntry => j \in resourceKeys[call[c].obj]
      BY DEF BaseInv, CallInv
    <3> QED
      BY <2>1, <3>1, <3>2, <1>1, <1>2, <1>3, <1>4, <1>5
  <2>2. CASE d # c
    BY <2>2, <1>3, <1>5 DEF BaseInv, CallInv
  <2> QED
    BY <2>1, <2>2
<1>7. resources'[k] = NoEntry /\ \A j \in Keys : j # k => resources'[j] = resources[j]
  BY DEF Drop, Remove, storeVars, BaseInv, TypeOK, StoreTypeOK, PublicMap
<1>8. KeepsTrack
  BY <1>3, <1>4, <1>5, <1>7 DEF KeepsTrack, Tracked
<1>9. StoreTypeOK'
  BY ManagerTypes DEF PublicCall, Drop, BaseInv, TypeOK
<1>10. /\ changes' \in 0 .. MaxChanges
       /\ faults' \in 0 .. MaxFaults
       /\ restarts' \in 0 .. MaxRestarts
       /\ straddled' \in BOOLEAN
  BY AttemptType DEF Drop, BaseInv, AfterCall
<1>11. call' \in [Controllers -> Calls]
  BY <1>3, <1>4 DEF BaseInv, TypeOK
<1>12. TypeOK' /\ QueueInv'
  BY <1>9, <1>10, <1>11 DEF Drop, BaseInv, TypeOK, QueueInv, world, informers, runs
<1> QED
  BY <1>6, <1>8, <1>12 DEF BaseInv

\* One AddOrUpdate: the key it adds is recorded in resourceKeys.
LEMMA PutInv ==
    ASSUME BaseInv, NEW c \in Controllers, NEW k \in Keys, NEW ok \in BOOLEAN, Put(c, k, ok)
    PROVE  BaseInv' /\ KeepsTrack
<1> DEFINE r == [call[c] EXCEPT !.put[k] = NoEntry]
<1>1. /\ call[c] \in Calls /\ call[c].at = "apply" /\ call[c].drop = {}
      /\ call[c].obj \in Objects /\ ControllerOf[call[c].obj] = c
      /\ call[c].put[k] # NoEntry /\ k \in resourceKeys[call[c].obj]
  BY DEF Put, BaseInv, TypeOK, CallInv
<1>2. /\ r \in Calls /\ r.at = "apply" /\ r.obj = call[c].obj /\ r.drop = {}
      /\ \A j \in Keys : r.put[j] # NoEntry => call[c].put[j] # NoEntry
  <2>1. [call[c].put EXCEPT ![k] = NoEntry] \in PublicMap
    BY <1>1 DEF Calls, PublicMap
  <2> QED
    BY <1>1, <2>1 DEF Calls, PublicMap
<1>3. call' = [call EXCEPT ![c] = Continue(r)] /\ resourceKeys' = resourceKeys
  BY DEF Put
<1> HIDE DEF r
<1>4. /\ Continue(r) \in Calls
      /\ Continue(r).drop = {}
      /\ Continue(r).put = r.put
      /\ Continue(r).at \in {"idle", "apply"}
      /\ Continue(r).at = "idle" => r.put = EmptyPublic
      /\ Continue(r).at # "idle" => Continue(r).obj = call[c].obj
  BY <1>2, ContinueFacts
<1>5. \A d \in Controllers : call'[d] = IF d = c THEN Continue(r) ELSE call[d]
  BY <1>3 DEF BaseInv, TypeOK
<1>6. CallInv'
  <2> SUFFICES ASSUME NEW d \in Controllers
               PROVE  CallInv!(d)'
    BY DEF CallInv
  <2>1. CASE d = c
    <3>1. \A j \in Keys : Continue(r).put[j] # NoEntry => Continue(r).at # "idle"
      BY <1>4 DEF EmptyPublic
    <3>2. \A j \in Keys : call[c].put[j] # NoEntry => j \in resourceKeys[call[c].obj]
      BY DEF BaseInv, CallInv
    <3> QED
      BY <2>1, <3>1, <3>2, <1>1, <1>2, <1>3, <1>4, <1>5
  <2>2. CASE d # c
    BY <2>2, <1>3, <1>5 DEF BaseInv, CallInv
  <2> QED
    BY <2>1, <2>2
<1>7. \A j \in Keys : j # k => resources'[j] = resources[j]
  BY DEF Put, AddOrUpdate, storeVars, BaseInv, TypeOK, StoreTypeOK, PublicMap
<1>8. KeepsTrack
  BY <1>1, <1>3, <1>4, <1>5, <1>7 DEF KeepsTrack, Tracked
<1>9. StoreTypeOK'
  <2>1. call[c].put[k] \in Resources /\ call[c].write \in BOOLEAN
    BY <1>1 DEF Calls, PublicMap
  <2> QED
    BY <2>1, ManagerTypes DEF PublicCall, Put, BaseInv, TypeOK
<1>10. /\ changes' \in 0 .. MaxChanges
       /\ faults' \in 0 .. MaxFaults
       /\ restarts' \in 0 .. MaxRestarts
       /\ straddled' \in BOOLEAN
  BY AttemptType DEF Put, BaseInv, AfterCall
<1>11. call' \in [Controllers -> Calls]
  BY <1>3, <1>4 DEF BaseInv, TypeOK
<1>12. TypeOK' /\ QueueInv'
  BY <1>9, <1>10, <1>11 DEF Put, BaseInv, TypeOK, QueueInv, world, informers, runs
<1> QED
  BY <1>6, <1>8, <1>12 DEF BaseInv

\* The invariant is inductive.
LEMMA NextBaseInv == BaseInv /\ [Next]_vars => BaseInv' /\ KeepsTrack
<1> SUFFICES ASSUME BaseInv, [Next]_vars PROVE BaseInv' /\ KeepsTrack
  OBVIOUS
<1>1. CASE Environment \/ (\E o \in Objects : Deliver(o) \/ Resync(o))
           \/ (\E c \in Controllers : Run(c)) \/ Restart
  BY <1>1, OutsideInv
<1>2. ASSUME NEW c \in Controllers, Handle(c) PROVE BaseInv' /\ KeepsTrack
  BY <1>2, BeginInv, ProcessObjectInv, DropInv, PutInv DEF Handle
<1>3. CASE UNCHANGED vars
  <2>1. TypeOK'
    BY <1>3 DEF vars, storeVars, world, informers, handlers, runs, budgets, BaseInv, TypeOK, StoreTypeOK
  <2>2. QueueInv' /\ UNCHANGED <<handlers, resources>>
    BY <1>3 DEF vars, storeVars, informers, handlers, BaseInv, QueueInv
  <2> QED
    BY <2>1, <2>2, HandlersUnchanged DEF BaseInv
<1> QED
  BY <1>1, <1>2, <1>3 DEF Next

\* The invariant holds in every reachable state.
LEMMA Invariance == Spec => []BaseInv
BY InitBaseInv, NextBaseInv, PTL DEF Spec

\* The controllers keep their own and the manager's state well typed.
THEOREM TypeCorrect == Spec => []TypeOK
<1>1. BaseInv => TypeOK
  BY DEF BaseInv
<1> QED
  BY Invariance, <1>1, PTL

\* No entry is ever orphaned, however many objects share its key.
THEOREM NeverOrphaned == Spec => []NoOrphans
<1>1. Init => NoOrphans
  BY DEF Init, StoreInit, EmptyPublic, NoOrphans
<1>2. NoOrphans /\ KeepsTrack => NoOrphans'
  BY DEF NoOrphans, KeepsTrack, Tracked
<1> QED
  BY Invariance, NextBaseInv, <1>1, <1>2, PTL DEF Spec

\* No step loses a change but by a failed write or by straddling ForceWrite.
LEMMA NextOnlyStraddlingIsLost ==
    BaseInv /\ OnlyStraddlingIsLost /\ [Next]_vars => OnlyStraddlingIsLost'
<1> SUFFICES ASSUME BaseInv, OnlyStraddlingIsLost, [Next]_vars PROVE OnlyStraddlingIsLost'
  OBVIOUS
<1>1. CASE UNCHANGED <<storeVars, straddled, runPc>>
  BY <1>1 DEF OnlyStraddlingIsLost, storeVars, BlueprintOf
<1>2. CASE Environment \/ (\E o \in Objects : Deliver(o) \/ Resync(o)) \/ UNCHANGED vars
  BY <1>1, <1>2, SMTT(30) DEF Environment, ChangeObject, ChangeSecret, Deliver, Resync, vars, runs
<1>3. ASSUME NEW c \in Controllers, Begin(c) \/ \E ok \in BOOLEAN : ProcessObject(c, ok)
      PROVE  OnlyStraddlingIsLost'
  BY <1>1, <1>3 DEF Begin, ProcessObject, runs
<1>4. ASSUME NEW c \in Controllers, NEW k \in Keys, NEW ok \in BOOLEAN, Drop(c, k, ok)
      PROVE  OnlyStraddlingIsLost'
  <2>1. \/ UNCHANGED storeVars
        \/ lastWriteErr'
        \/ outputFile' = BlueprintOf(resources', privateResources')
    BY <1>4, ManagerPublishes DEF Level, Drop
  <2>2. runPc' = runPc
    BY <1>4 DEF Drop, runs
  <2>3. straddled' = (straddled /\ outputFile' # BlueprintOf(resources', privateResources'))
    BY <1>4 DEF Drop, AfterCall
  <2> QED
    BY <2>1, <2>2, <2>3 DEF OnlyStraddlingIsLost, storeVars, BlueprintOf
<1>5. ASSUME NEW c \in Controllers, NEW k \in Keys, NEW ok \in BOOLEAN, Put(c, k, ok)
      PROVE  OnlyStraddlingIsLost'
  <2>1. call[c].put[k] \in Resources /\ call[c].write \in BOOLEAN
    <3>1. call[c] \in Calls /\ call[c].put[k] # NoEntry
      BY <1>5 DEF Put, BaseInv, TypeOK
    <3> QED
      BY <3>1 DEF Calls, PublicMap
  <2>2. \/ UNCHANGED storeVars
        \/ lastWriteErr'
        \/ outputFile' = BlueprintOf(resources', privateResources')
        \/ ~call[c].write
    BY <1>5, <2>1, ManagerPublishes DEF Level, Put
  <2>3. resources' = resources => UNCHANGED storeVars
    BY <1>5 DEF Put, AddOrUpdate, BaseInv, TypeOK, StoreTypeOK, PublicMap, storeVars
  <2>4. runPc' = runPc
    BY <1>5 DEF Put, runs
  <2>5. straddled' = (/\ straddled \/ (resources' # resources /\ ~call[c].write /\ runPc[c] # "wait")
                      /\ outputFile' # BlueprintOf(resources', privateResources'))
    BY <1>5 DEF Put, AfterCall
  <2> QED
    BY <2>2, <2>3, <2>4, <2>5 DEF OnlyStraddlingIsLost, storeVars, BlueprintOf
<1>6. ASSUME NEW c \in Controllers, NEW ok \in BOOLEAN, RunForceWrite(c, ok)
      PROVE  OnlyStraddlingIsLost'
  BY <1>6, ManagerPublishes DEF Level, RunForceWrite, OnlyStraddlingIsLost
<1>7. ASSUME NEW c \in Controllers, RunStoreSynced(c)
      PROVE  OnlyStraddlingIsLost'
  <2>1. \A d \in Controllers : runPc'[d] # "wait" => runPc[d] # "wait"
    BY <1>7 DEF RunStoreSynced, BaseInv, TypeOK
  <2> QED
    BY <1>7, <2>1 DEF RunStoreSynced, OnlyStraddlingIsLost, storeVars, BlueprintOf
<1>8. CASE Restart
  BY <1>8, ControllerAssumption DEF Restart, OnlyStraddlingIsLost
<1> QED
  BY <1>2, <1>3, <1>4, <1>5, <1>6, <1>7, <1>8 DEF Next, Handle, Run

\* Every change that misses the file was a failed write or straddled ForceWrite.
THEOREM LostWrites == Spec => []OnlyStraddlingIsLost
<1>1. Init => OnlyStraddlingIsLost
  BY ControllerAssumption DEF Init, OnlyStraddlingIsLost
<1> QED
  BY Invariance, NextOnlyStraddlingIsLost, <1>1, PTL DEF Spec

(***************************************************************************)
(* The handlers catch up with the informers' caches.                       *)
(***************************************************************************)
\* The handler has something of the object before it, or is about to build its
\* entries.
Awaited(o) ==
    \/ Pending(o)
    \/ call[ControllerOf[o]].at = "resolve" /\ call[ControllerOf[o]].obj = o

\* The last notification of an object tells what the cache holds.
Tells(e, s) ==
    \/ e.kind = "upsert" /\ e.spec = s
    \/ e.kind = "delete" /\ s = NoObject

TailInv ==
    \A o \in Objects :
        LET q == queue[ControllerOf[o]]
        IN \A i \in DOMAIN q :
             (q[i].obj = o /\ \A j \in DOMAIN q : j > i => q[j].obj # o) => Tells(q[i], store[o])

\* A call before BuildEntries has a version to process, which is the cached one
\* unless a newer notification waits.
ResolveInv ==
    \A c \in Controllers : call[c].at = "resolve" =>
        /\ Converts(call[c].spec) /\ ShouldProcess(call[c].obj, call[c].spec)
        /\ ~Pending(call[c].obj) => call[c].spec = store[call[c].obj]

\* The keys of an object are those of one version of it.
VersionInv ==
    \A o \in Objects :
        \/ resourceKeys[o] = {}
        \/ \E s \in {t \in Specs : Converts(t)} : resourceKeys[o] = EntitledBy(o, s)

\* What CaughtUp says of an object.
Recorded(o) ==
    \/ resourceKeys[o] = Entitled(o)
    \/ /\ store[o] = NoObject \/ ~Converts(store[o])
       /\ \E s \in Specs : ~Converts(s)
       /\ \E s \in {t \in Specs : Converts(t)} : resourceKeys[o] = EntitledBy(o, s)

RecordInv == \A o \in Objects : Awaited(o) \/ Recorded(o)

CaughtInv == TailInv /\ ResolveInv /\ VersionInv /\ RecordInv

\* Appending to a queue and taking its head, index by index.
LEMMA QueueFacts ==
    ASSUME NEW S, NEW q \in Seq(S)
    PROVE  /\ Len(q) \in Nat /\ DOMAIN q = 1 .. Len(q)
           /\ \A e \in S :
                /\ DOMAIN Append(q, e) = 1 .. Len(q) + 1
                /\ \A i \in 1 .. Len(q) : Append(q, e)[i] = q[i]
                /\ Append(q, e)[Len(q) + 1] = e
           /\ q # <<>> =>
                /\ Len(q) >= 1 /\ Head(q) = q[1]
                /\ DOMAIN Tail(q) = 1 .. Len(q) - 1
                /\ \A i \in 1 .. Len(q) - 1 : Tail(q)[i] = q[i + 1]
<1>1. Len(q) \in Nat /\ DOMAIN q = 1 .. Len(q)
  BY LenProperties
<1>2. ASSUME NEW e \in S
      PROVE  /\ DOMAIN Append(q, e) = 1 .. Len(q) + 1
             /\ \A i \in 1 .. Len(q) : Append(q, e)[i] = q[i]
             /\ Append(q, e)[Len(q) + 1] = e
  BY <1>1, AppendProperties, LenProperties
<1>3. ASSUME q # <<>>
      PROVE  /\ Len(q) >= 1 /\ Head(q) = q[1]
             /\ DOMAIN Tail(q) = 1 .. Len(q) - 1
             /\ \A i \in 1 .. Len(q) - 1 : Tail(q)[i] = q[i + 1]
  BY <1>1, <1>3, HeadTailProperties, LenProperties
<1> QED
  BY <1>1, <1>2, <1>3

\* The start, whatever the cluster holds.
LEMMA InitCaughtInv == Init => CaughtInv
<1> SUFFICES ASSUME Init PROVE CaughtInv
  OBVIOUS
<1>1. \A o \in Objects : ControllerOf[o] \in Controllers /\ queue[ControllerOf[o]] = <<>>
  BY ControllerAssumption DEF Init
<1>2. TailInv
  BY <1>1 DEF TailInv
<1>3. ResolveInv
  BY DEF Init, ResolveInv, IdleCall
<1>4. \A o \in Objects : resourceKeys[o] = {} /\ store[o] = NoObject
  BY DEF Init
<1>5. VersionInv /\ RecordInv
  BY <1>4 DEF VersionInv, RecordInv, Recorded, Entitled, EntitledBy
<1> QED
  BY <1>2, <1>3, <1>5 DEF CaughtInv

\* Steps that leave the informers, the book-keeping and the calls before
\* BuildEntries alone.
LEMMA CaughtFrame ==
    ASSUME BaseInv, CaughtInv, UNCHANGED <<store, queue, resourceKeys>>,
           \A c \in Controllers :
               call'[c] = call[c] \/ (call[c].at # "resolve" /\ call'[c].at # "resolve")
    PROVE  CaughtInv'
<1>1. \A o \in Objects : /\ Pending(o)' <=> Pending(o)
                         /\ Awaited(o)' <=> Awaited(o)
                         /\ Recorded(o)' <=> Recorded(o)
  <2> SUFFICES ASSUME NEW o \in Objects
               PROVE  /\ Pending(o)' <=> Pending(o)
                      /\ Awaited(o)' <=> Awaited(o)
                      /\ Recorded(o)' <=> Recorded(o)
    OBVIOUS
  <2>1. Pending(o)' <=> Pending(o)
    BY DEF Pending
  <2>2. ControllerOf[o] \in Controllers
    BY ControllerAssumption
  <2> QED
    BY <2>1, <2>2 DEF Awaited, Recorded, Entitled
<1>2. TailInv'
  BY DEF CaughtInv, TailInv
<1>3. ResolveInv'
  BY <1>1 DEF CaughtInv, ResolveInv, BaseInv, CallInv
<1>4. VersionInv' /\ RecordInv'
  BY <1>1 DEF CaughtInv, VersionInv, RecordInv
<1> QED
  BY <1>2, <1>3, <1>4 DEF CaughtInv

\* A notification waits from now on, and no other comes or goes.
LEMMA NotifyPending ==
    ASSUME BaseInv, NEW o \in Objects, NEW s \in Specs, NEW kind \in {"upsert", "delete"},
           Notify(kind, o, s)
    PROVE  \A p \in Objects : Pending(p)' <=> (p = o \/ Pending(p))
<1> DEFINE e == [kind |-> kind, obj |-> o, spec |-> s]
           home == ControllerOf[o]
<1>1. e \in Events /\ e.obj = o /\ home \in Controllers
  BY ControllerAssumption DEF Events
<1>2. \A c \in Controllers : queue[c] \in Seq(Events)
  BY DEF BaseInv, TypeOK
<1>3. \A c \in Controllers : queue'[c] = IF c = home THEN Append(queue[c], e) ELSE queue[c]
  BY DEF Notify, BaseInv, TypeOK
<1>4. \A p \in Objects : ControllerOf[p] \in Controllers
  BY ControllerAssumption
<1> HIDE DEF e, home
<1> QED
  <2> SUFFICES ASSUME NEW p \in Objects PROVE Pending(p)' <=> (p = o \/ Pending(p))
    OBVIOUS
  <2> DEFINE c == ControllerOf[p]
             q == queue[c]
  <2>1. c \in Controllers /\ q \in Seq(Events)
    BY <1>2, <1>4
  <2>2. Pending(p)' <=> \E i \in DOMAIN queue'[c] : queue'[c][i].obj = p
    BY DEF Pending
  <2>3. Pending(p) <=> \E i \in DOMAIN q : q[i].obj = p
    BY DEF Pending
  <2>4. CASE c # home
    BY <2>1, <2>2, <2>3, <2>4, <1>3 DEF home
  <2>5. CASE c = home
    <3>1. queue'[c] = Append(q, e)
      BY <2>1, <2>5, <1>3
    <3>2. /\ Len(q) \in Nat /\ DOMAIN q = 1 .. Len(q)
          /\ DOMAIN Append(q, e) = 1 .. Len(q) + 1
          /\ \A i \in 1 .. Len(q) : Append(q, e)[i] = q[i]
          /\ Append(q, e)[Len(q) + 1] = e
      BY <2>1, <1>1, QueueFacts
    <3> HIDE DEF q, c
    <3>3. \A i \in 1 .. Len(q) + 1 : i \in 1 .. Len(q) \/ i = Len(q) + 1
      BY <3>2
    <3>4. Len(q) + 1 \in 1 .. Len(q) + 1 /\ \A i \in 1 .. Len(q) : i \in 1 .. Len(q) + 1
      BY <3>2
    <3> QED
      BY <2>2, <2>3, <3>1, <3>2, <3>3, <3>4, <1>1
  <2> QED
    BY <2>4, <2>5

\* A notification that tells what the cache holds from now on.
LEMMA NotifyCaught ==
    ASSUME BaseInv, CaughtInv, NEW o \in Objects, NEW s \in Specs,
           NEW kind \in {"upsert", "delete"}, Notify(kind, o, s),
           NEW v \in Specs \cup {NoObject}, Tells([kind |-> kind, obj |-> o, spec |-> s], v),
           store' = [store EXCEPT ![o] = v], UNCHANGED handlers
    PROVE  CaughtInv'
<1> DEFINE e == [kind |-> kind, obj |-> o, spec |-> s]
           home == ControllerOf[o]
<1>1. e \in Events /\ e.obj = o /\ home \in Controllers
  BY ControllerAssumption DEF Events
<1>2. \A c \in Controllers : queue[c] \in Seq(Events)
  BY DEF BaseInv, TypeOK
<1>3. \A c \in Controllers : queue'[c] = IF c = home THEN Append(queue[c], e) ELSE queue[c]
  BY DEF Notify, BaseInv, TypeOK
<1>4. Tells(e, v)
  OBVIOUS
<1>5. \A p \in Objects : ControllerOf[p] \in Controllers /\ store'[p] = IF p = o THEN v ELSE store[p]
  BY ControllerAssumption DEF BaseInv, TypeOK
<1> HIDE DEF e, home
<1>6. \A p \in Objects : Pending(p)' <=> (p = o \/ Pending(p))
  BY NotifyPending
<1>7. TailInv'
  <2> SUFFICES ASSUME NEW p \in Objects, NEW i \in DOMAIN queue'[ControllerOf[p]],
                      queue'[ControllerOf[p]][i].obj = p,
                      \A j \in DOMAIN queue'[ControllerOf[p]] :
                          j > i => queue'[ControllerOf[p]][j].obj # p
               PROVE  Tells(queue'[ControllerOf[p]][i], store'[p])
    BY DEF TailInv
  <2> DEFINE c == ControllerOf[p]
             q == queue[c]
  <2>1. c \in Controllers /\ q \in Seq(Events)
    BY <1>2, <1>5
  <2>2. \A h \in DOMAIN q : (q[h].obj = p /\ \A j \in DOMAIN q : j > h => q[j].obj # p)
                              => Tells(q[h], store[p])
    BY DEF CaughtInv, TailInv
  <2>3. CASE c # home
    BY <2>1, <2>2, <2>3, <1>3, <1>5 DEF home
  <2>4. CASE c = home
    <3>1. queue'[c] = Append(q, e)
      BY <2>1, <2>4, <1>3
    <3>2. /\ Len(q) \in Nat /\ DOMAIN q = 1 .. Len(q)
          /\ DOMAIN Append(q, e) = 1 .. Len(q) + 1
          /\ \A h \in 1 .. Len(q) : Append(q, e)[h] = q[h]
          /\ Append(q, e)[Len(q) + 1] = e
      BY <2>1, <1>1, QueueFacts
    <3>3. CASE i = Len(q) + 1
      BY <3>1, <3>2, <3>3, <1>1, <1>4, <1>5
    <3>4. CASE i # Len(q) + 1
      <4>1. i \in 1 .. Len(q) /\ Append(q, e)[i] = q[i]
        BY <3>1, <3>2, <3>4
      <4>2. Len(q) + 1 > i /\ Len(q) + 1 \in DOMAIN Append(q, e)
        BY <3>2, <4>1
      <4>3. p # o
        BY <3>1, <3>2, <4>2, <1>1
      <4>4. \A j \in DOMAIN q : j > i => q[j].obj # p
        BY <3>1, <3>2
      <4> QED
        BY <2>2, <3>1, <3>2, <4>1, <4>3, <4>4, <1>5
    <3> QED
      BY <3>3, <3>4
  <2> QED
    BY <2>3, <2>4
<1>8. ResolveInv'
  <2> SUFFICES ASSUME NEW c \in Controllers, call[c].at = "resolve"
               PROVE  ResolveInv!(c)'
    BY DEF ResolveInv, handlers
  <2>1. call'[c] = call[c] /\ call[c].obj \in Objects
    BY DEF BaseInv, CallInv, handlers
  <2>2. ResolveInv!(c)
    BY DEF CaughtInv, ResolveInv
  <2> QED
    BY <2>1, <2>2, <1>5, <1>6
<1>9. VersionInv'
  BY DEF CaughtInv, VersionInv, handlers
<1>10. RecordInv'
  <2> SUFFICES ASSUME NEW p \in Objects PROVE (Awaited(p) \/ Recorded(p))'
    BY DEF RecordInv
  <2>1. CASE p = o
    BY <2>1, <1>6 DEF Awaited
  <2>2. CASE p # o
    <3>1. Awaited(p)' <=> Awaited(p)
      BY <2>2, <1>6 DEF Awaited, handlers
    <3>2. Recorded(p)' <=> Recorded(p)
      BY <2>2, <1>5 DEF Recorded, Entitled, handlers
    <3> QED
      BY <3>1, <3>2 DEF CaughtInv, RecordInv
  <2> QED
    BY <2>1, <2>2
<1> QED
  BY <1>7, <1>8, <1>9, <1>10 DEF CaughtInv

\* The handler takes an event: what it says of its object is what the cache
\* holds, unless a newer event waits.
LEMMA BeginQueue ==
    ASSUME BaseInv, CaughtInv, NEW c \in Controllers, Begin(c), NEW e, e = Head(queue[c])
    PROVE  /\ e \in Events /\ ControllerOf[e.obj] = c
           /\ TailInv'
           /\ \A p \in Objects : p # e.obj => (Pending(p)' <=> Pending(p))
           /\ Pending(e.obj)' \/ Tells(e, store[e.obj])
<1>1. PICK q : q = queue[c]
  OBVIOUS
<1>2. PICK r : r = queue'[c]
  OBVIOUS
<1>3. /\ q \in Seq(EventsOf(c)) /\ q # <<>> /\ e = Head(q) /\ r = Tail(q)
      /\ \A d \in Controllers : d # c => queue'[d] = queue[d]
  BY <1>1, <1>2 DEF Begin, BaseInv, QueueInv, TypeOK
<1>4. /\ Len(q) \in Nat /\ DOMAIN q = 1 .. Len(q) /\ Len(q) >= 1
      /\ e = q[1]
      /\ DOMAIN r = 1 .. Len(q) - 1
      /\ \A i \in 1 .. Len(q) - 1 : r[i] = q[i + 1]
  BY <1>3, QueueFacts
<1>5. e \in Events /\ ControllerOf[e.obj] = c /\ e.obj \in Objects
  <2>1. e \in EventsOf(c)
    BY <1>3, HeadTailProperties
  <2> QED
    BY <2>1 DEF EventsOf, Events
<1>6. store' = store /\ \A p \in Objects : ControllerOf[p] \in Controllers
  BY ControllerAssumption DEF Begin
<1>7. \A p \in Objects : ControllerOf[p] = c =>
         /\ Pending(p) <=> \E i \in 1 .. Len(q) : q[i].obj = p
         /\ Pending(p)' <=> \E i \in 2 .. Len(q) : q[i].obj = p
  <2> SUFFICES ASSUME NEW p \in Objects, ControllerOf[p] = c
               PROVE  /\ Pending(p) <=> \E i \in 1 .. Len(q) : q[i].obj = p
                      /\ Pending(p)' <=> \E i \in 2 .. Len(q) : q[i].obj = p
    OBVIOUS
  <2>1. Pending(p) <=> \E i \in 1 .. Len(q) : q[i].obj = p
    BY <1>1, <1>4 DEF Pending
  <2>2. Pending(p)' <=> \E i \in DOMAIN r : r[i].obj = p
    BY <1>2 DEF Pending
  <2>3. ASSUME NEW i \in 1 .. Len(q) - 1 PROVE i + 1 \in 2 .. Len(q)
    BY <1>4
  <2>4. ASSUME NEW i \in 2 .. Len(q)
        PROVE  i - 1 \in 1 .. Len(q) - 1 /\ r[i - 1] = q[i]
    <3>1. i - 1 \in 1 .. Len(q) - 1 /\ (i - 1) + 1 = i
      BY <1>4
    <3> QED
      BY <3>1, <1>4
  <2>5. ASSUME NEW i \in DOMAIN r, r[i].obj = p
        PROVE  \E j \in 2 .. Len(q) : q[j].obj = p
    BY <2>3, <2>5, <1>4
  <2>6. ASSUME NEW i \in 2 .. Len(q), q[i].obj = p
        PROVE  \E j \in DOMAIN r : r[j].obj = p
    BY <2>4, <2>6, <1>4
  <2> QED
    BY <2>1, <2>2, <2>5, <2>6
<1>8. TailInv'
  <2> SUFFICES ASSUME NEW p \in Objects, NEW i \in DOMAIN queue'[ControllerOf[p]],
                      queue'[ControllerOf[p]][i].obj = p,
                      \A j \in DOMAIN queue'[ControllerOf[p]] :
                          j > i => queue'[ControllerOf[p]][j].obj # p
               PROVE  Tells(queue'[ControllerOf[p]][i], store'[p])
    BY DEF TailInv
  <2>1. CASE ControllerOf[p] # c
    BY <2>1, <1>3, <1>6 DEF CaughtInv, TailInv
  <2>2. CASE ControllerOf[p] = c
    <3>1. i \in DOMAIN r /\ r[i].obj = p /\ \A j \in DOMAIN r : j > i => r[j].obj # p
      BY <2>2, <1>2
    <3>2. i \in 1 .. Len(q) - 1 /\ i + 1 \in 1 .. Len(q) /\ r[i] = q[i + 1]
      BY <3>1, <1>4
    <3>3. ASSUME NEW j \in 1 .. Len(q), j > i + 1 PROVE q[j].obj # p
      <4>1. j - 1 \in 1 .. Len(q) - 1 /\ j - 1 > i /\ (j - 1) + 1 = j
        BY <3>2, <3>3, <1>4
      <4>2. r[j - 1] = q[j]
        BY <4>1, <1>4
      <4> QED
        BY <3>1, <4>1, <4>2, <1>4
    <3>4. \A h \in DOMAIN q :
            (q[h].obj = p /\ \A j \in DOMAIN q : j > h => q[j].obj # p) => Tells(q[h], store[p])
      BY <2>2, <1>1 DEF CaughtInv, TailInv
    <3>5. Tells(q[i + 1], store[p])
      BY <3>1, <3>2, <3>3, <3>4, <1>4
    <3> QED
      BY <2>2, <3>2, <3>5, <1>2, <1>6
  <2> QED
    BY <2>1, <2>2
<1>9. ASSUME NEW p \in Objects, p # e.obj PROVE Pending(p)' <=> Pending(p)
  <2>1. CASE ControllerOf[p] # c
    BY <2>1, <1>3, <1>6 DEF Pending
  <2>2. CASE ControllerOf[p] = c
    <3>1. \A i \in 1 .. Len(q) : q[i].obj = p => i \in 2 .. Len(q)
      BY <1>4, <1>9
    <3>2. \A i \in 2 .. Len(q) : i \in 1 .. Len(q)
      BY <1>4
    <3> QED
      BY <2>2, <3>1, <3>2, <1>7
  <2> QED
    BY <2>1, <2>2
<1>10. ASSUME ~Pending(e.obj)' PROVE Tells(e, store[e.obj])
  <2>1. \A j \in 2 .. Len(q) : q[j].obj # e.obj
    BY <1>5, <1>7, <1>10
  <2>2. 1 \in 1 .. Len(q) /\ \A j \in 1 .. Len(q) : j > 1 => j \in 2 .. Len(q)
    BY <1>4
  <2>3. \A h \in DOMAIN q :
          (q[h].obj = e.obj /\ \A j \in DOMAIN q : j > h => q[j].obj # e.obj)
            => Tells(q[h], store[e.obj])
    BY <1>1, <1>5 DEF CaughtInv, TailInv
  <2> QED
    BY <2>1, <2>2, <2>3, <1>4
<1> QED
  BY <1>5, <1>8, <1>9, <1>10

\* What removeObject leaves: no keys recorded, and a Remove ahead for each.
LEMMA removeObjectFacts ==
    ASSUME BaseInv, NEW c \in Controllers, NEW o \in Objects, removeObject(c, o)
    PROVE  /\ \A d \in Controllers : d # c => call'[d] = call[d]
           /\ \A p \in Objects : resourceKeys'[p] = IF p = o THEN {} ELSE resourceKeys[p]
           /\ call'[c].at \in {"idle", "apply"}
           /\ call'[c].at = "apply" => call'[c].obj = o
           /\ call'[c].drop = resourceKeys[o] /\ call'[c].put = EmptyPublic
<1> DEFINE r == [IdleCall EXCEPT !.at = "apply", !.obj = o, !.drop = resourceKeys[o]]
<1>1. r \in Calls /\ r.at = "apply" /\ r.obj = o /\ r.drop = resourceKeys[o] /\ r.put = EmptyPublic
  BY EmptyTypes DEF IdleCall, Calls, BaseInv, TypeOK
<1>2. call' = [call EXCEPT ![c] = Continue(r)] /\ resourceKeys' = [resourceKeys EXCEPT ![o] = {}]
  BY DEF removeObject
<1> HIDE DEF r
<1> QED
  BY <1>1, <1>2, ContinueFacts DEF BaseInv, TypeOK

\* A step of a handler on one of its objects: it either starts a call for the
\* cached version, or leaves the keys that version entitles the object to.
LEMMA HandlerCaught ==
    ASSUME BaseInv, CaughtInv, NEW c \in Controllers, NEW o \in Objects, ControllerOf[o] = c,
           TailInv', store' = store,
           \A p \in Objects : p # o => (Pending(p)' <=> Pending(p)) /\ resourceKeys'[p] = resourceKeys[p],
           \A d \in Controllers : d # c => call'[d] = call[d],
           call[c].at = "idle" \/ (call[c].at = "resolve" /\ call[c].obj = o),
           \/ /\ call'[c].at # "resolve"
              /\ VersionInv!(o)'
              /\ Pending(o)' \/ Recorded(o)'
           \/ /\ call'[c].at = "resolve" /\ call'[c].obj = o
              /\ Converts(call'[c].spec) /\ ShouldProcess(o, call'[c].spec)
              /\ Pending(o)' \/ call'[c].spec = store[o]
              /\ resourceKeys'[o] = resourceKeys[o]
    PROVE  CaughtInv'
<1>1. \A p \in Objects : ControllerOf[p] \in Controllers
  BY ControllerAssumption
<1>2. ResolveInv'
  <2> SUFFICES ASSUME NEW d \in Controllers, call'[d].at = "resolve" PROVE ResolveInv!(d)'
    BY DEF ResolveInv
  <2>1. CASE d = c
    BY <2>1
  <2>2. CASE d # c
    <3>1. call'[d] = call[d] /\ call[d].obj \in Objects /\ call[d].obj # o /\ ResolveInv!(d)
      BY <2>2 DEF BaseInv, CallInv, CaughtInv, ResolveInv
    <3> QED
      BY <3>1
  <2> QED
    BY <2>1, <2>2
<1>3. VersionInv'
  <2> SUFFICES ASSUME NEW p \in Objects PROVE VersionInv!(p)'
    BY DEF VersionInv
  <2>1. VersionInv!(p)
    BY DEF CaughtInv, VersionInv
  <2> QED
    BY <2>1
<1>4. RecordInv'
  <2> SUFFICES ASSUME NEW p \in Objects PROVE (Awaited(p) \/ Recorded(p))'
    BY DEF RecordInv
  <2>1. CASE p = o
    BY <2>1 DEF Awaited
  <2>2. CASE p # o
    <3>1. Awaited(p)' <=> Awaited(p)
      BY <2>2, <1>1 DEF Awaited
    <3>2. Recorded(p)' <=> Recorded(p)
      BY <2>2 DEF Recorded, Entitled
    <3> QED
      BY <3>1, <3>2 DEF CaughtInv, RecordInv
  <2> QED
    BY <2>1, <2>2
<1> QED
  BY <1>2, <1>3, <1>4 DEF CaughtInv

\* onAdd, onUpdate and onDelete: an event is skipped, removes the object's keys
\* or goes on to the Secret GET.
LEMMA BeginCaught ==
    ASSUME BaseInv, CaughtInv, NEW c \in Controllers, Begin(c)
    PROVE  CaughtInv'
<1>1. PICK e : e = Head(queue[c])
  OBVIOUS
<1>2. PICK o : o = e.obj
  OBVIOUS
<1>3. /\ e \in Events /\ ControllerOf[o] = c /\ o \in Objects /\ e.spec \in Specs
      /\ TailInv'
      /\ \A p \in Objects : p # o => (Pending(p)' <=> Pending(p))
      /\ Pending(o)' \/ Tells(e, store[o])
  BY <1>1, <1>2, BeginQueue DEF Events
<1>4. store' = store /\ call[c].at = "idle"
  BY DEF Begin
<1>5. NoObject \notin Specs
  BY ControllerAssumption
<1>6. CASE ~Converts(e.spec)
  <2>1. UNCHANGED <<call, resourceKeys>>
    BY <1>1, <1>6 DEF Begin, onUpsert, onDelete, handlers
  <2>2. VersionInv!(o)
    BY <1>3 DEF CaughtInv, VersionInv
  <2>3. Tells(e, store[o]) => Recorded(o)'
    <3> SUFFICES ASSUME Tells(e, store[o]) PROVE Recorded(o)'
      OBVIOUS
    <3>1. store[o] = NoObject \/ ~Converts(store[o])
      BY <1>6 DEF Tells
    <3>2. Entitled(o) = {}
      BY <3>1 DEF Entitled, EntitledBy
    <3> QED
      BY <1>3, <1>4, <1>6, <2>1, <2>2, <3>1, <3>2 DEF Recorded, Entitled
  <2> QED
    BY <1>3, <1>4, <2>1, <2>2, <2>3, HandlerCaught
<1>7. CASE removeObject(c, o) /\ (e.kind = "upsert" => ~ShouldProcess(o, e.spec))
  <2>1. Tells(e, store[o]) => Recorded(o)'
    <3>1. resourceKeys'[o] = {}
      BY <1>3, <1>7, removeObjectFacts
    <3>2. Tells(e, store[o]) => Entitled(o) = {}
      BY <1>3, <1>7 DEF Tells, Entitled, EntitledBy, Events
    <3> QED
      BY <1>4, <3>1, <3>2 DEF Recorded, Entitled
  <2>2. resourceKeys'[o] = {} /\ call'[c].at # "resolve"
    BY <1>3, <1>7, removeObjectFacts
  <2> QED
    BY <1>3, <1>4, <1>7, <2>1, <2>2, removeObjectFacts, HandlerCaught
<1>8. CASE /\ e.kind = "upsert" /\ Converts(e.spec) /\ ShouldProcess(o, e.spec)
           /\ call' = [call EXCEPT ![c] = [IdleCall EXCEPT !.at = "resolve", !.obj = o,
                                                           !.spec = e.spec, !.write = synced[c]]]
           /\ UNCHANGED resourceKeys
  <2>1. /\ call'[c].at = "resolve" /\ call'[c].obj = o /\ call'[c].spec = e.spec
        /\ \A d \in Controllers : d # c => call'[d] = call[d]
    BY <1>8 DEF IdleCall, BaseInv, TypeOK
  <2>2. Tells(e, store[o]) => e.spec = store[o]
    BY <1>8 DEF Tells
  <2> QED
    BY <1>3, <1>4, <1>8, <2>1, <2>2, HandlerCaught
<1> QED
  BY <1>1, <1>2, <1>6, <1>7, <1>8 DEF Begin, onUpsert, onDelete

\* Whatever the Secret GET brings, the keys are those the version declares.
LEMMA BuiltKeys ==
    ASSUME BaseInv, NEW c \in Controllers, NEW ok \in BOOLEAN, call[c].at = "resolve"
    PROVE  /\ resolveAuthSecret(c, ok) \in SecretData \cup {NoSecret}
           /\ KeysOf(BuildEntries(call[c].obj, call[c].spec, resolveAuthSecret(c, ok)))
                = DeclaredKeys(call[c].obj, call[c].spec)
<1>1. resolveAuthSecret(c, ok) \in SecretData \cup {NoSecret}
  BY DEF resolveAuthSecret, BaseInv, TypeOK
<1>2. call[c].obj \in Objects /\ call[c].spec \in Specs
  BY DEF BaseInv, CallInv
<1> QED
  BY <1>1, <1>2, ControllerAssumption

\* BuildEntries and the book-keeping: the keys of the version that was built.
LEMMA ProcessObjectCaught ==
    ASSUME BaseInv, CaughtInv, NEW c \in Controllers, NEW ok \in BOOLEAN, ProcessObject(c, ok)
    PROVE  CaughtInv'
<1>1. PICK o, s, entries :
        /\ o = call[c].obj /\ s = call[c].spec
        /\ entries = BuildEntries(call[c].obj, call[c].spec, resolveAuthSecret(c, ok))
  OBVIOUS
<1>2. /\ call[c].at = "resolve" /\ call[c] \in Calls
      /\ o \in Objects /\ ControllerOf[o] = c /\ s \in Specs
  BY <1>1 DEF ProcessObject, BaseInv, TypeOK, CallInv
<1>3. Converts(s) /\ ShouldProcess(o, s) /\ (Pending(o) \/ s = store[o])
  BY <1>1, <1>2 DEF CaughtInv, ResolveInv
<1>4. KeysOf(entries) = EntitledBy(o, s)
  BY <1>1, <1>2, <1>3, BuiltKeys, ControllerAssumption DEF EntitledBy
<1>5. UNCHANGED <<store, queue>>
  BY DEF ProcessObject, informers
<1>6. \A p \in Objects : Pending(p)' <=> Pending(p)
  BY <1>5 DEF Pending
<1>7. TailInv'
  BY <1>5 DEF CaughtInv, TailInv
<1>8. /\ \A d \in Controllers : d # c => call'[d] = call[d]
      /\ \A p \in Objects : resourceKeys'[p] = IF p = o THEN KeysOf(entries) ELSE resourceKeys[p]
      /\ call'[c].at # "resolve"
  <2>1. CASE entries = EmptyPublic /\ removeObject(c, o)
    <3>1. KeysOf(entries) = {}
      BY <2>1 DEF KeysOf, EmptyPublic
    <3> QED
      BY <1>2, <2>1, <3>1, removeObjectFacts
  <2>2. CASE /\ resourceKeys' = [resourceKeys EXCEPT ![o] = KeysOf(entries)]
             /\ call' = [call EXCEPT ![c] = [call[c] EXCEPT !.at = "apply",
                                                   !.drop = resourceKeys[o] \ KeysOf(entries),
                                                   !.put = entries]]
    BY <1>2, <2>2 DEF BaseInv, TypeOK, Calls
  <2> QED
    BY <1>1, <2>1, <2>2 DEF ProcessObject
<1>9. resourceKeys'[o] = EntitledBy(o, s)
  BY <1>2, <1>4, <1>8
<1>10. VersionInv!(o)'
  BY <1>2, <1>3, <1>9
<1>11. Pending(o)' \/ Recorded(o)'
  BY <1>2, <1>3, <1>5, <1>6, <1>9 DEF Recorded, Entitled
<1> QED
  BY <1>1, <1>2, <1>5, <1>6, <1>7, <1>8, <1>10, <1>11, HandlerCaught

\* The handlers keep catching up, whatever step is taken.
LEMMA NextCaughtInv == BaseInv /\ CaughtInv /\ [Next]_vars => CaughtInv'
<1> SUFFICES ASSUME BaseInv, CaughtInv, [Next]_vars PROVE CaughtInv'
  OBVIOUS
<1>1. CASE UNCHANGED vars
  BY <1>1, CaughtFrame DEF vars, informers, handlers
<1>2. CASE Environment
  BY <1>2, CaughtFrame DEF Environment, ChangeObject, ChangeSecret, informers, handlers
<1>3. ASSUME NEW o \in Objects, Deliver(o) PROVE CaughtInv'
  <2>1. /\ cluster[o] \in Specs \cup {NoObject} /\ store[o] \in Specs \cup {NoObject}
        /\ store' = [store EXCEPT ![o] = cluster[o]] /\ UNCHANGED handlers
        /\ store \in [Objects -> Specs \cup {NoObject}]
    BY <1>3 DEF Deliver, BaseInv, TypeOK
  <2>2. CASE cluster[o] = store[o] /\ UNCHANGED queue
    BY <2>1, <2>2, CaughtFrame DEF handlers
  <2>3. CASE cluster[o] # NoObject /\ Notify("upsert", o, cluster[o])
    <3>1. Tells([kind |-> "upsert", obj |-> o, spec |-> cluster[o]], cluster[o])
      BY DEF Tells
    <3> QED
      BY <2>1, <2>3, <3>1, NotifyCaught
  <2>4. CASE cluster[o] # store[o] /\ cluster[o] = NoObject /\ Notify("delete", o, store[o])
    <3>1. Tells([kind |-> "delete", obj |-> o, spec |-> store[o]], cluster[o])
      BY <2>4 DEF Tells
    <3> QED
      BY <2>1, <2>4, <3>1, NotifyCaught
  <2> QED
    BY <1>3, <2>2, <2>3, <2>4 DEF Deliver
<1>4. ASSUME NEW o \in Objects, Resync(o) PROVE CaughtInv'
  <2>1. /\ store[o] \in Specs /\ Notify("upsert", o, store[o]) /\ UNCHANGED handlers
        /\ store' = [store EXCEPT ![o] = store[o]]
    BY <1>4 DEF Resync, BaseInv, TypeOK
  <2>2. Tells([kind |-> "upsert", obj |-> o, spec |-> store[o]], store[o])
    BY DEF Tells
  <2> QED
    BY <2>1, <2>2, NotifyCaught
<1>5. ASSUME NEW c \in Controllers, NEW ok \in BOOLEAN, NEW k \in Keys,
             Drop(c, k, ok) \/ Put(c, k, ok)
      PROVE  CaughtInv'
  <2>1. UNCHANGED <<store, queue, resourceKeys>> /\ call[c].at = "apply" /\ call[c] \in Calls
    BY <1>5 DEF Drop, Put, informers, BaseInv, TypeOK
  <2>2. PICK r \in Calls : r.at = "apply" /\ call' = [call EXCEPT ![c] = Continue(r)]
    <3>1. CASE Drop(c, k, ok)
      <4> DEFINE r == [call[c] EXCEPT !.drop = call[c].drop \ {k}]
      <4>1. r \in Calls /\ r.at = "apply"
        BY <2>1 DEF Calls
      <4> QED
        BY <3>1, <4>1 DEF Drop
    <3>2. CASE Put(c, k, ok)
      <4> DEFINE r == [call[c] EXCEPT !.put[k] = NoEntry]
      <4>1. r \in Calls /\ r.at = "apply"
        BY <2>1 DEF Calls, PublicMap
      <4> QED
        BY <3>2, <4>1 DEF Put
    <3> QED
      BY <1>5, <3>1, <3>2
  <2>3. \A d \in Controllers :
          call'[d] = call[d] \/ (call[d].at # "resolve" /\ call'[d].at # "resolve")
    BY <2>1, <2>2, ContinueFacts DEF BaseInv, TypeOK
  <2> QED
    BY <2>1, <2>3, CaughtFrame
<1>6. ASSUME NEW c \in Controllers, Run(c) PROVE CaughtInv'
  BY <1>6, CaughtFrame DEF Run, RunStoreSynced, RunForceWrite, informers, handlers
<1>7. CASE Restart
  <2>1. \A o \in Objects : ControllerOf[o] \in Controllers /\ queue'[ControllerOf[o]] = <<>>
    BY <1>7, ControllerAssumption DEF Restart
  <2>2. TailInv'
    BY <2>1 DEF TailInv
  <2>3. ResolveInv'
    BY <1>7 DEF Restart, ResolveInv, IdleCall
  <2>4. \A o \in Objects : resourceKeys'[o] = {} /\ store'[o] = NoObject
    BY <1>7 DEF Restart
  <2> QED
    BY <2>2, <2>3, <2>4 DEF CaughtInv, VersionInv, RecordInv, Recorded, Entitled, EntitledBy
<1> QED
  BY <1>1, <1>2, <1>3, <1>4, <1>5, <1>6, <1>7, BeginCaught, ProcessObjectCaught DEF Next, Handle

\* Both invariants hold throughout.
LEMMA CaughtInvariance == Spec => [](BaseInv /\ CaughtInv)
<1> QED
  BY InitBaseInv, InitCaughtInv, NextBaseInv, NextCaughtInv, PTL DEF Spec

\* Once the handler has caught up with an object, resourceKeys records exactly
\* the keys of its cached version.
THEOREM BookKeepingIsExact == Spec => []CaughtUp
<1>1. CaughtInv => CaughtUp
  BY DEF CaughtInv, RecordInv, Recorded, Awaited, CaughtUp
<1> QED
  BY <1>1, CaughtInvariance, PTL

(***************************************************************************)
(* The map holds the entries of the cached objects.                        *)
(***************************************************************************)
\* No two objects ever declare the same key, and every version converts.
KeysAreOwn ==
    \A o, p \in Objects, s, t \in Specs :
        DeclaredKeys(o, s) \cap DeclaredKeys(p, t) # {} => o = p
AllConvert == \A s \in Specs : Converts(s)

\* A call removes keys that its object once declared and no longer has.
RemovalInv ==
    \A c \in Controllers : call[c].at = "apply" =>
        /\ call[c].drop \cap resourceKeys[call[c].obj] = {}
        /\ \A k \in call[c].drop : \E s \in Specs : k \in DeclaredKeys(call[c].obj, s)

\* The entry an object's key has, once the call in progress has made its puts.
EntryOf(o, k) ==
    LET r == call[ControllerOf[o]]
    IN IF r.obj = o /\ r.put[k] # NoEntry THEN r.put[k] ELSE resources[k]

\* A key that an object has is in the map, or about to be put there, as the
\* cached version and some state of its Secret make it.
Built(o) ==
    ~Awaited(o) => \A k \in resourceKeys[o] :
        \E d \in SecretData \cup {NoSecret} : BuildEntries(o, store[o], d)[k] = EntryOf(o, k)

BuiltInv == \A o \in Objects : Built(o)

ExactInv == RemovalInv /\ BuiltInv

\* A key that an object has is declared by no other object.
LEMMA KeyOwner ==
    ASSUME KeysAreOwn, VersionInv, NEW o \in Objects, NEW k \in resourceKeys[o]
    PROVE  /\ \E s \in Specs : k \in DeclaredKeys(o, s)
           /\ \A p \in Objects, s \in Specs : k \in DeclaredKeys(p, s) => p = o
<1>1. PICK s \in Specs : resourceKeys[o] = EntitledBy(o, s)
  BY DEF VersionInv
<1>2. k \in DeclaredKeys(o, s)
  BY <1>1 DEF EntitledBy
<1> QED
  BY <1>2 DEF KeysAreOwn

\* Steps that leave the caches, the book-keeping, the calls and the map alone.
LEMMA ExactFrame ==
    ASSUME ExactInv, UNCHANGED <<store, queue, handlers, resources>>
    PROVE  ExactInv'
<1>1. RemovalInv'
  BY DEF ExactInv, RemovalInv, handlers
<1>2. \A o \in Objects : Built(o) => Built(o)'
  BY DEF Built, EntryOf, Awaited, Pending, handlers
<1> QED
  BY <1>1, <1>2 DEF ExactInv, BuiltInv

\* A notification leaves every other object as it was.
LEMMA NotifyExact ==
    ASSUME BaseInv, ExactInv, NEW o \in Objects, NEW s \in Specs,
           NEW kind \in {"upsert", "delete"}, Notify(kind, o, s),
           NEW v, store' = [store EXCEPT ![o] = v],
           UNCHANGED <<handlers, resources>>
    PROVE  ExactInv'
<1>1. RemovalInv'
  BY DEF ExactInv, RemovalInv, handlers
<1>2. ASSUME NEW p \in Objects PROVE Built(p)'
  <2>1. CASE p = o
    BY <2>1, NotifyPending DEF Built, Awaited
  <2>2. CASE p # o
    <3>1. store'[p] = store[p] /\ resourceKeys'[p] = resourceKeys[p]
      BY <2>2 DEF BaseInv, TypeOK, handlers
    <3>2. Awaited(p)' <=> Awaited(p)
      BY <2>2, NotifyPending DEF Awaited, handlers
    <3>3. \A k : EntryOf(p, k)' = EntryOf(p, k)
      BY DEF EntryOf, handlers
    <3> QED
      BY <3>1, <3>2, <3>3 DEF ExactInv, BuiltInv, Built
  <2> QED
    BY <2>1, <2>2
<1> QED
  BY <1>1, <1>2 DEF ExactInv, BuiltInv

\* A step of a handler on one of its objects that leaves the map alone: every
\* other object is as it was, and the keys to be removed were the object's.
LEMMA HandlerExact ==
    ASSUME BaseInv, CaughtInv, ExactInv, KeysAreOwn,
           NEW c \in Controllers, NEW o \in Objects, ControllerOf[o] = c,
           UNCHANGED <<store, resources>>,
           \A p \in Objects : p # o => (Pending(p)' <=> Pending(p)) /\ resourceKeys'[p] = resourceKeys[p],
           \A d \in Controllers : d # c => call'[d] = call[d],
           call[c].at = "idle" \/ (call[c].at = "resolve" /\ call[c].obj = o),
           call'[c].at # "apply" => call'[c].put = EmptyPublic,
           call'[c].at \in {"resolve", "apply"} => call'[c].obj = o,
           call'[c].at = "apply" => call'[c].drop = resourceKeys[o] \ resourceKeys'[o],
           Built(o)'
    PROVE  ExactInv'
<1>1. RemovalInv'
  <2> SUFFICES ASSUME NEW d \in Controllers, call'[d].at = "apply" PROVE RemovalInv!(d)'
    BY DEF RemovalInv
  <2>1. CASE d = c
    BY <2>1, KeyOwner DEF CaughtInv
  <2>2. CASE d # c
    <3>1. call'[d] = call[d] /\ call[d].obj \in Objects /\ call[d].obj # o /\ RemovalInv!(d)
      BY <2>2 DEF BaseInv, CallInv, ExactInv, RemovalInv
    <3> QED
      BY <3>1
  <2> QED
    BY <2>1, <2>2
<1>2. ASSUME NEW p \in Objects, p # o PROVE Built(p)'
  <2>1. ControllerOf[p] \in Controllers /\ call[c].put = EmptyPublic
    BY ControllerAssumption DEF BaseInv, CallInv
  <2>2. Awaited(p)' <=> Awaited(p)
    BY <1>2, <2>1 DEF Awaited
  <2>3. resourceKeys[p] \subseteq Keys
    BY DEF BaseInv, TypeOK
  <2>4. \A k \in Keys : EntryOf(p, k)' = EntryOf(p, k)
    BY <1>2, <2>1 DEF EntryOf, EmptyPublic
  <2> QED
    BY <1>2, <2>2, <2>3, <2>4 DEF ExactInv, BuiltInv, Built
<1> QED
  BY <1>1, <1>2 DEF ExactInv, BuiltInv

\* An event whose version converts removes its object's keys or goes on to the
\* Secret GET.
LEMMA BeginExact ==
    ASSUME BaseInv, CaughtInv, ExactInv, KeysAreOwn, AllConvert, NEW c \in Controllers, Begin(c)
    PROVE  ExactInv'
<1>1. PICK e : e = Head(queue[c])
  OBVIOUS
<1>2. PICK o : o = e.obj
  OBVIOUS
<1>3. /\ e \in Events /\ ControllerOf[o] = c /\ o \in Objects /\ e.spec \in Specs
      /\ \A p \in Objects : p # o => (Pending(p)' <=> Pending(p))
  BY <1>1, <1>2, BeginQueue DEF Events
<1>4. UNCHANGED <<store, resources>> /\ call[c].at = "idle" /\ Converts(e.spec)
  BY <1>3 DEF Begin, storeVars, AllConvert
<1>5. CASE removeObject(c, o)
  <2>1. /\ \A d \in Controllers : d # c => call'[d] = call[d]
        /\ \A p \in Objects : resourceKeys'[p] = IF p = o THEN {} ELSE resourceKeys[p]
        /\ call'[c].at \in {"idle", "apply"}
        /\ call'[c].at = "apply" => call'[c].obj = o
        /\ call'[c].drop = resourceKeys[o] /\ call'[c].put = EmptyPublic
    BY <1>3, <1>5, removeObjectFacts
  <2>2. Built(o)'
    BY <1>3, <2>1 DEF Built
  <2> QED
    BY <1>3, <1>4, <2>1, <2>2, HandlerExact
<1>6. CASE /\ call' = [call EXCEPT ![c] = [IdleCall EXCEPT !.at = "resolve", !.obj = o,
                                                           !.spec = e.spec, !.write = synced[c]]]
           /\ UNCHANGED resourceKeys
  <2>1. /\ call'[c].at = "resolve" /\ call'[c].obj = o /\ call'[c].put = EmptyPublic
        /\ \A d \in Controllers : d # c => call'[d] = call[d]
    BY <1>6 DEF IdleCall, BaseInv, TypeOK
  <2>2. Built(o)'
    BY <1>3, <2>1 DEF Built, Awaited
  <2> QED
    BY <1>3, <1>4, <1>6, <2>1, <2>2, HandlerExact
<1> QED
  BY <1>1, <1>2, <1>4, <1>5, <1>6 DEF Begin, onUpsert, onDelete

\* BuildEntries: every key the object now has is about to be put.
LEMMA ProcessObjectExact ==
    ASSUME BaseInv, CaughtInv, ExactInv, KeysAreOwn, NEW c \in Controllers, NEW ok \in BOOLEAN,
           ProcessObject(c, ok)
    PROVE  ExactInv'
<1>1. PICK o, s, d, entries :
        /\ o = call[c].obj /\ s = call[c].spec /\ d = resolveAuthSecret(c, ok)
        /\ entries = BuildEntries(call[c].obj, call[c].spec, resolveAuthSecret(c, ok))
  OBVIOUS
<1>2. /\ call[c].at = "resolve" /\ call[c] \in Calls
      /\ o \in Objects /\ ControllerOf[o] = c /\ s \in Specs
      /\ d \in SecretData \cup {NoSecret}
  BY <1>1, BuiltKeys DEF ProcessObject, BaseInv, TypeOK, CallInv
<1>3. Pending(o) \/ entries = BuildEntries(o, store[o], d)
  BY <1>1, <1>2 DEF CaughtInv, ResolveInv
<1>4. UNCHANGED <<store, queue, resources>>
  BY DEF ProcessObject, informers, storeVars
<1>5. \A p \in Objects : Pending(p)' <=> Pending(p)
  BY <1>4 DEF Pending
<1>6. CASE entries = EmptyPublic /\ removeObject(c, o)
  <2>1. /\ \A e \in Controllers : e # c => call'[e] = call[e]
        /\ \A p \in Objects : resourceKeys'[p] = IF p = o THEN {} ELSE resourceKeys[p]
        /\ call'[c].at \in {"idle", "apply"}
        /\ call'[c].at = "apply" => call'[c].obj = o
        /\ call'[c].drop = resourceKeys[o] /\ call'[c].put = EmptyPublic
    BY <1>2, <1>6, removeObjectFacts
  <2>2. Built(o)'
    BY <1>2, <2>1 DEF Built
  <2> QED
    BY <1>1, <1>2, <1>4, <1>5, <2>1, <2>2, HandlerExact
<1>7. CASE /\ resourceKeys' = [resourceKeys EXCEPT ![o] = KeysOf(entries)]
           /\ call' = [call EXCEPT ![c] = [call[c] EXCEPT !.at = "apply",
                                                 !.drop = resourceKeys[o] \ KeysOf(entries),
                                                 !.put = entries]]
  <2>1. /\ \A e \in Controllers : e # c => call'[e] = call[e]
        /\ \A p \in Objects : resourceKeys'[p] = IF p = o THEN KeysOf(entries) ELSE resourceKeys[p]
        /\ call'[c].at = "apply" /\ call'[c].obj = o
        /\ call'[c].drop = resourceKeys[o] \ resourceKeys'[o] /\ call'[c].put = entries
    BY <1>1, <1>2, <1>7 DEF BaseInv, TypeOK, Calls
  <2>2. \A k \in resourceKeys'[o] : EntryOf(o, k)' = entries[k]
    BY <1>2, <2>1, ZenonT(60) DEF EntryOf, KeysOf
  <2>3. Built(o)'
    BY <1>2, <1>3, <1>4, <1>5, <2>2 DEF Built, Awaited
  <2> QED
    BY <1>1, <1>2, <1>4, <1>5, <2>1, <2>3, HandlerExact
<1> QED
  BY <1>1, <1>6, <1>7 DEF ProcessObject

\* The manager calls: a call is over when it has nothing left, and an object
\* that is not its own keeps its entries.
LEMMA ApplyExact ==
    ASSUME BaseInv, CaughtInv, ExactInv, KeysAreOwn, NEW c \in Controllers, NEW k \in Keys,
           call[c].at = "apply", NEW r \in Calls, r.at = "apply", r.obj = call[c].obj,
           r.drop \subseteq call[c].drop, call' = [call EXCEPT ![c] = Continue(r)],
           UNCHANGED <<store, queue, resourceKeys>>,
           \A j \in Keys : j # k => resources'[j] = resources[j] /\ r.put[j] = call[c].put[j],
           k \in resourceKeys[call[c].obj] => EntryOf(call[c].obj, k) =
               IF r.put[k] # NoEntry THEN r.put[k] ELSE resources'[k],
           \E s \in Specs : k \in DeclaredKeys(call[c].obj, s)
    PROVE  ExactInv'
<1>1. PICK o : o = call[c].obj
  OBVIOUS
<1>2. o \in Objects /\ ControllerOf[o] = c /\ \A p \in Objects : ControllerOf[p] \in Controllers
  BY <1>1, ControllerAssumption DEF BaseInv, CallInv
<1>3. /\ \A d \in Controllers : d # c => call'[d] = call[d]
      /\ call'[c].at \in {"idle", "apply"}
      /\ call'[c].at = "idle" => r.drop = {} /\ r.put = EmptyPublic
      /\ call'[c].at = "apply" => call'[c].obj = o
      /\ call'[c].drop = r.drop /\ call'[c].put = r.put
  BY <1>1, ContinueFacts DEF BaseInv, TypeOK
<1>4. RemovalInv'
  <2> SUFFICES ASSUME NEW d \in Controllers, call'[d].at = "apply" PROVE RemovalInv!(d)'
    BY DEF RemovalInv
  <2>1. RemovalInv!(c)
    BY DEF ExactInv, RemovalInv
  <2>2. d # c => RemovalInv!(d)'
    BY <1>3 DEF ExactInv, RemovalInv
  <2> QED
    BY <1>1, <1>3, <2>1, <2>2
<1>5. \A p \in Objects : Awaited(p)' <=> Awaited(p)
  BY <1>2, <1>3 DEF Awaited, Pending
<1>6. ASSUME NEW p \in Objects, NEW j \in resourceKeys[p] PROVE EntryOf(p, j)' = EntryOf(p, j)
  <2>1. j \in Keys /\ (j = k => p = o)
    BY <1>1, <1>2, KeyOwner DEF BaseInv, TypeOK, CaughtInv
  <2>2. CASE p # o
    BY <1>1, <1>2, <1>3, <2>1, <2>2 DEF EntryOf, EmptyPublic
  <2>3. CASE p = o
    <3>1. EntryOf(o, j) = IF r.put[j] # NoEntry THEN r.put[j] ELSE resources'[j]
      BY <1>1, <1>2, <1>6, <2>1, <2>3 DEF EntryOf
    <3>2. EntryOf(o, j)' = IF r.put[j] # NoEntry THEN r.put[j] ELSE resources'[j]
      BY <1>1, <1>2, <1>3, <2>1 DEF EntryOf, EmptyPublic
    <3> QED
      BY <2>3, <3>1, <3>2
  <2> QED
    BY <2>2, <2>3
<1>7. \A p \in Objects : Built(p)'
  BY <1>5, <1>6 DEF ExactInv, BuiltInv, Built
<1> QED
  BY <1>4, <1>7 DEF ExactInv, BuiltInv

\* The map stays exact, whatever step is taken.
LEMMA NextExactInv ==
    ASSUME KeysAreOwn, AllConvert
    PROVE  BaseInv /\ CaughtInv /\ ExactInv /\ [Next]_vars => ExactInv'
<1> SUFFICES ASSUME BaseInv, CaughtInv, ExactInv, [Next]_vars PROVE ExactInv'
  OBVIOUS
<1>1. CASE UNCHANGED vars
  BY <1>1, ExactFrame DEF vars, informers, storeVars
<1>2. CASE Environment
  BY <1>2, ExactFrame DEF Environment, ChangeObject, ChangeSecret, informers, storeVars
<1>3. ASSUME NEW o \in Objects, Deliver(o) PROVE ExactInv'
  <2>1. /\ cluster[o] \in Specs \cup {NoObject} /\ store[o] \in Specs \cup {NoObject}
        /\ store' = [store EXCEPT ![o] = cluster[o]] /\ UNCHANGED <<handlers, resources>>
        /\ store \in [Objects -> Specs \cup {NoObject}]
    BY <1>3 DEF Deliver, BaseInv, TypeOK, storeVars
  <2>2. CASE cluster[o] = store[o] /\ UNCHANGED queue
    BY <2>1, <2>2, ExactFrame
  <2>3. CASE cluster[o] # NoObject /\ Notify("upsert", o, cluster[o])
    BY <2>1, <2>3, NotifyExact
  <2>4. CASE cluster[o] # store[o] /\ cluster[o] = NoObject /\ Notify("delete", o, store[o])
    BY <2>1, <2>4, NotifyExact
  <2> QED
    BY <1>3, <2>2, <2>3, <2>4 DEF Deliver
<1>4. ASSUME NEW o \in Objects, Resync(o) PROVE ExactInv'
  <2>1. /\ store[o] \in Specs /\ Notify("upsert", o, store[o]) /\ UNCHANGED <<handlers, resources>>
        /\ store' = [store EXCEPT ![o] = store[o]]
    BY <1>4 DEF Resync, BaseInv, TypeOK, storeVars
  <2> QED
    BY <2>1, NotifyExact
<1>5. ASSUME NEW c \in Controllers, NEW ok \in BOOLEAN, NEW k \in Keys, Drop(c, k, ok)
      PROVE  ExactInv'
  <2> DEFINE r == [call[c] EXCEPT !.drop = call[c].drop \ {k}]
  <2>1. /\ call[c].at = "apply" /\ call[c] \in Calls /\ k \in call[c].drop
        /\ UNCHANGED <<store, queue, resourceKeys>> /\ StoreTypeOK
        /\ call' = [call EXCEPT ![c] = Continue(r)]
    BY <1>5 DEF Drop, informers, BaseInv, TypeOK
  <2>2. r \in Calls /\ r.at = "apply" /\ r.obj = call[c].obj /\ r.put = call[c].put
        /\ r.drop \subseteq call[c].drop
    BY <2>1 DEF Calls
  <2>3. \A j \in Keys : j # k => resources'[j] = resources[j]
    BY <1>5, <2>1, OneEntryChanges DEF Drop
  <2>4. k \notin resourceKeys[call[c].obj] /\ \E s \in Specs : k \in DeclaredKeys(call[c].obj, s)
    BY <2>1 DEF ExactInv, RemovalInv
  <2> HIDE DEF r
  <2> QED
    BY <2>1, <2>2, <2>3, <2>4, ApplyExact
<1>6. ASSUME NEW c \in Controllers, NEW ok \in BOOLEAN, NEW k \in Keys, Put(c, k, ok)
      PROVE  ExactInv'
  <2> DEFINE r == [call[c] EXCEPT !.put[k] = NoEntry]
  <2>1. /\ call[c].at = "apply" /\ call[c] \in Calls /\ call[c].put[k] # NoEntry
        /\ UNCHANGED <<store, queue, resourceKeys>> /\ StoreTypeOK
        /\ call' = [call EXCEPT ![c] = Continue(r)]
        /\ call[c].obj \in Objects /\ ControllerOf[call[c].obj] = c
        /\ k \in resourceKeys[call[c].obj]
    BY <1>6 DEF Put, informers, BaseInv, TypeOK, CallInv
  <2>2. /\ r \in Calls /\ r.at = "apply" /\ r.obj = call[c].obj /\ r.drop \subseteq call[c].drop
        /\ r.put[k] = NoEntry /\ \A j \in Keys : j # k => r.put[j] = call[c].put[j]
    BY <2>1 DEF Calls, PublicMap
  <2>3. resources'[k] = call[c].put[k] /\ \A j \in Keys : j # k => resources'[j] = resources[j]
    BY <1>6, <2>1 DEF Put, AddOrUpdate, StoreTypeOK, PublicMap, storeVars
  <2>4. EntryOf(call[c].obj, k) = call[c].put[k]
    BY <2>1 DEF EntryOf
  <2>5. \E s \in Specs : k \in DeclaredKeys(call[c].obj, s)
    BY <2>1, KeyOwner DEF CaughtInv
  <2> HIDE DEF r
  <2>6. EntryOf(call[c].obj, k) = IF r.put[k] # NoEntry THEN r.put[k] ELSE resources'[k]
    BY <2>2, <2>3, <2>4
  <2>7. \A j \in Keys : j # k => resources'[j] = resources[j] /\ r.put[j] = call[c].put[j]
    BY <2>2, <2>3
  <2> QED
    BY <2>1, <2>2, <2>5, <2>6, <2>7, ApplyExact
<1>7. ASSUME NEW c \in Controllers, Run(c) PROVE ExactInv'
  BY <1>7, ExactFrame DEF Run, RunStoreSynced, RunForceWrite, ForceWrite, informers, storeVars
<1>8. CASE Restart
  BY <1>8 DEF Restart, ExactInv, RemovalInv, BuiltInv, Built, IdleCall
<1> QED
  BY <1>1, <1>2, <1>3, <1>4, <1>5, <1>6, <1>7, <1>8, BeginExact, ProcessObjectExact
  DEF Next, Handle

\* A quiet sidecar's map is exact.
LEMMA QuietIsExact ==
    ASSUME AllConvert, BaseInv, CaughtInv, ExactInv, NoOrphans
    PROVE  QuietMeansExact
<1> SUFFICES ASSUME Quiet, NEW k \in Keys
             PROVE  \/ /\ resources[k] = NoEntry
                       /\ \A o \in Objects : k \notin Entitled(o)
                    \/ \E o \in Objects, d \in SecretData \cup {NoSecret} :
                         k \in Entitled(o) /\ resources[k] = BuildEntries(o, store[o], d)[k]
  BY DEF QuietMeansExact
<1>1. ASSUME NEW o \in Objects
      PROVE  /\ resourceKeys[o] = Entitled(o)
             /\ k \in resourceKeys[o] => \E d \in SecretData \cup {NoSecret} :
                                            BuildEntries(o, store[o], d)[k] = resources[k]
  <2>1. /\ ControllerOf[o] \in Controllers /\ queue[ControllerOf[o]] = <<>>
        /\ call[ControllerOf[o]].at = "idle" /\ call[ControllerOf[o]].put = EmptyPublic
    BY ControllerAssumption DEF Quiet, BaseInv, CallInv
  <2>2. ~Awaited(o)
    BY <2>1 DEF Awaited, Pending
  <2>3. Recorded(o) /\ ~\E s \in Specs : ~Converts(s)
    BY <2>2 DEF CaughtInv, RecordInv, AllConvert
  <2>4. EntryOf(o, k) = resources[k]
    BY <2>1 DEF EntryOf, EmptyPublic
  <2> QED
    BY <2>2, <2>3, <2>4 DEF Recorded, ExactInv, BuiltInv, Built
<1>2. ASSUME NEW o \in Objects, k \in Entitled(o) PROVE resources[k] # NoEntry
  <2>1. PICK d \in SecretData \cup {NoSecret} : BuildEntries(o, store[o], d)[k] = resources[k]
    BY <1>1, <1>2
  <2>2. store[o] \in Specs /\ k \in DeclaredKeys(o, store[o])
    BY <1>2 DEF Entitled, EntitledBy, BaseInv, TypeOK
  <2>3. k \in KeysOf(BuildEntries(o, store[o], d))
    BY <2>2, ControllerAssumption
  <2> QED
    BY <2>1, <2>3 DEF KeysOf
<1>3. ASSUME resources[k] # NoEntry PROVE \E o \in Objects : k \in resourceKeys[o]
  BY <1>3 DEF NoOrphans, Quiet, BaseInv, CallInv
<1> QED
  BY <1>1, <1>2, <1>3

\* When every key has one declaring object and every version converts, a quiet
\* sidecar's map holds exactly the entries of the cached objects.
THEOREM QuietMapIsExact == KeysAreOwn /\ AllConvert => (Spec => []QuietMeansExact)
<1> SUFFICES ASSUME KeysAreOwn, AllConvert PROVE Spec => []QuietMeansExact
  OBVIOUS
<1>1. Init => ExactInv
  BY DEF Init, ExactInv, RemovalInv, BuiltInv, Built, IdleCall
<1>2. BaseInv /\ CaughtInv /\ ExactInv /\ [Next]_vars => ExactInv'
  BY NextExactInv
<1>3. BaseInv /\ CaughtInv /\ ExactInv /\ NoOrphans => QuietMeansExact
  BY QuietIsExact
<1> QED
  BY CaughtInvariance, NeverOrphaned, <1>1, <1>2, <1>3, PTL DEF Spec

===============================================================================
