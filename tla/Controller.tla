------------------------------ MODULE Controller ------------------------------
(***************************************************************************)
(* internal/controller/controller.go: one Controller per watched resource  *)
(* type (HTTPRoute, Service), each fed by a shared informer, all of them   *)
(* writing to one state manager.                                           *)
(*                                                                         *)
(* Concurrent are: the API server's objects and Secrets, the informers'    *)
(* reflectors (which fill the cache and queue notifications), the one      *)
(* handler goroutine of every informer (which runs onAdd, onUpdate and     *)
(* onDelete one at a time), and every Controller.Run (ForceWrite and       *)
(* synced.Store). A handler's step ends where another goroutine could be   *)
(* seen or could see it: at the Secret GET and at each manager call, which *)
(* are atomic by module Manager.                                           *)
(***************************************************************************)
EXTENDS StateStore, Sequences, Naturals

CONSTANTS
    Controllers,
    Objects,              \* "namespace/name" of the watched objects
    ControllerOf,         \* the controller whose informer watches an object
    Specs,                \* versions an object may have
    NoObject,             \* the object does not exist
    SecretData, NoSecret, \* data of the auth Secret, or none (nil)
    Converts(_),          \* toMetaObj succeeds on this version
    ShouldProcess(_, _),  \* handler.ShouldProcess(object, version)
    UsesSecret(_, _),     \* the auth-secret annotation is set
    BuildEntries(_, _, _),\* handler.BuildEntries(object, version, secret data)
    MaxChanges,           \* bound: changes of objects and of the Secret
    MaxFaults,            \* bound: failed writes and failed Secret GETs
    MaxRestarts           \* bound: restarts of the process

KeysOf(entries) == {k \in Keys : entries[k] # NoEntry}
DeclaredKeys(o, s) == KeysOf(BuildEntries(o, s, NoSecret))

\* The Secret decides the auth fields of an entry, never its key.
ASSUME ControllerAssumption ==
    /\ Controllers # {}
    /\ ControllerOf \in [Objects -> Controllers]
    /\ NoObject \notin Objects \cup Specs
    /\ NoSecret \notin SecretData
    /\ \A o \in Objects, s \in Specs, d \in SecretData \cup {NoSecret} :
         /\ BuildEntries(o, s, d) \in PublicMap
         /\ KeysOf(BuildEntries(o, s, d)) = DeclaredKeys(o, s)
    /\ \A s \in Specs : Converts(s) \in BOOLEAN
    /\ \A o \in Objects, s \in Specs : ShouldProcess(o, s) \in BOOLEAN
    /\ MaxChanges \in Nat /\ MaxFaults \in Nat /\ MaxRestarts \in Nat

VARIABLES
    cluster,      \* the API server's objects
    secret,       \* the API server's Secret
    store,        \* the informers' caches
    unlisted,     \* objects of the initial list that the informer has not popped
    queue,        \* notifications waiting for the handler goroutine
    call,         \* the handler call in progress
    resourceKeys, \* c.resourceKeys
    runPc,        \* where Controller.Run is
    synced,       \* c.synced
    straddled,    \* history: see Put
    changes, faults, restarts

world == <<cluster, secret>>
informers == <<store, unlisted, queue>>
handlers == <<call, resourceKeys>>
runs == <<runPc, synced>>
budgets == <<changes, faults, restarts>>
vars == <<storeVars, world, informers, handlers, runs, straddled, budgets>>

Events == [kind : {"upsert", "delete"}, obj : Objects, spec : Specs]

Calls == [at : {"idle", "resolve", "apply"}, obj : Objects \cup {NoObject},
          spec : Specs \cup {NoObject}, write : BOOLEAN, drop : SUBSET Keys, put : PublicMap]

IdleCall == [at |-> "idle", obj |-> NoObject, spec |-> NoObject, write |-> FALSE,
             drop |-> {}, put |-> EmptyPublic]

TypeOK ==
    /\ StoreTypeOK
    /\ cluster \in [Objects -> Specs \cup {NoObject}]
    /\ secret \in SecretData \cup {NoSecret}
    /\ store \in [Objects -> Specs \cup {NoObject}]
    /\ unlisted \in SUBSET Objects
    /\ queue \in [Controllers -> Seq(Events)]
    /\ call \in [Controllers -> Calls]
    /\ resourceKeys \in [Objects -> SUBSET Keys]
    /\ runPc \in [Controllers -> {"wait", "forced", "running"}]
    /\ synced \in [Controllers -> BOOLEAN]
    /\ straddled \in BOOLEAN
    /\ changes \in 0 .. MaxChanges
    /\ faults \in 0 .. MaxFaults
    /\ restarts \in 0 .. MaxRestarts

Existing == {o \in Objects : cluster[o] # NoObject}

\* main: New for every controller, factory.Start; the informers list what exists.
Init ==
    /\ StoreInit
    /\ cluster \in [Objects -> Specs \cup {NoObject}]
    /\ secret \in SecretData \cup {NoSecret}
    /\ store = [o \in Objects |-> NoObject]
    /\ unlisted = Existing
    /\ queue = [c \in Controllers |-> <<>>]
    /\ call = [c \in Controllers |-> IdleCall]
    /\ resourceKeys = [o \in Objects |-> {}]
    /\ runPc = [c \in Controllers |-> "wait"]
    /\ synced = [c \in Controllers |-> FALSE]
    /\ straddled = FALSE
    /\ changes = 0 /\ faults = 0 /\ restarts = 0

(***************************************************************************)
(* The API server and client-go.                                           *)
(***************************************************************************)
ChangeObject(o, s) ==
    /\ changes < MaxChanges
    /\ cluster[o] # s
    /\ cluster' = [cluster EXCEPT ![o] = s]
    /\ changes' = changes + 1
    /\ UNCHANGED <<storeVars, secret, informers, handlers, runs, straddled, faults, restarts>>

ChangeSecret(d) ==
    /\ changes < MaxChanges
    /\ secret # d
    /\ secret' = d
    /\ changes' = changes + 1
    /\ UNCHANGED <<storeVars, cluster, informers, handlers, runs, straddled, faults, restarts>>

Notify(kind, o, s) ==
    LET c == ControllerOf[o]
    IN queue' = [queue EXCEPT ![c] = Append(@, [kind |-> kind, obj |-> o, spec |-> s])]

\* The informer pops an object of the initial list, or learns of a change (by
\* watch or by relist, which may skip versions): cache first, then a
\* notification, with the last known version for a delete.
Deliver(o) ==
    /\ o \in unlisted \/ store[o] # cluster[o]
    /\ unlisted' = unlisted \ {o}
    /\ store' = [store EXCEPT ![o] = cluster[o]]
    /\ \/ cluster[o] = store[o] /\ UNCHANGED queue
       \/ cluster[o] # store[o] /\ cluster[o] # NoObject /\ Notify("upsert", o, cluster[o])
       \/ cluster[o] # store[o] /\ cluster[o] = NoObject /\ Notify("delete", o, store[o])
    /\ UNCHANGED <<storeVars, world, handlers, runs, straddled, budgets>>

Pending(o) == \E i \in DOMAIN queue[ControllerOf[o]] : queue[ControllerOf[o]][i].obj = o

\* The five-minute resync: an update notification from the cache. It comes only
\* when the handler's queue is empty, which bounds the queue.
Resync(o) ==
    /\ store[o] # NoObject
    /\ queue[ControllerOf[o]] = <<>>
    /\ Notify("upsert", o, store[o])
    /\ UNCHANGED <<storeVars, world, store, unlisted, handlers, runs, straddled, budgets>>

\* informer.HasSynced: the initial list is popped and its notifications queued,
\* not necessarily handled.
HasSynced(c) == \A o \in unlisted : ControllerOf[o] # c

(***************************************************************************)
(* The handler goroutine.                                                  *)
(***************************************************************************)
\* The call goes on until every removal and update is made.
Continue(r) == IF r.drop = {} /\ r.put = EmptyPublic THEN IdleCall ELSE r

removeObjectForgetful(c, o) ==
    /\ resourceKeys' = [resourceKeys EXCEPT ![o] = {}]
    /\ call' = [call EXCEPT ![c] = IdleCall]

removeObject(c, o) ==
    /\ resourceKeys' = [resourceKeys EXCEPT ![o] = {}]
    /\ call' = [call EXCEPT ![c] = Continue([IdleCall EXCEPT !.at = "apply",
                                                              !.obj = o,
                                                              !.drop = resourceKeys[o]])]

\* onAdd and onUpdate up to the Secret GET; they differ only in their log lines.
\* A version that does not convert is logged and skipped.
onUpsertIgnoringOptOut(c, o, s) ==
    \/ /\ ~Converts(s) \/ ~ShouldProcess(o, s)
       /\ UNCHANGED handlers
    \/ /\ Converts(s)
       /\ ShouldProcess(o, s)
       /\ call' = [call EXCEPT ![c] = [IdleCall EXCEPT !.at = "resolve", !.obj = o, !.spec = s,
                                                       !.write = synced[c]]]
       /\ UNCHANGED resourceKeys

onUpsertOnce(c, o, s) ==
    \/ /\ ~Converts(s) \/ resourceKeys[o] = DeclaredKeys(o, s)
       /\ UNCHANGED handlers
    \/ /\ Converts(s)
       /\ ~ShouldProcess(o, s)
       /\ removeObject(c, o)
    \/ /\ Converts(s)
       /\ ShouldProcess(o, s)
       /\ resourceKeys[o] # DeclaredKeys(o, s)
       /\ call' = [call EXCEPT ![c] = [IdleCall EXCEPT !.at = "resolve", !.obj = o, !.spec = s,
                                                       !.write = synced[c]]]
       /\ UNCHANGED resourceKeys

onUpsert(c, o, s) ==
    \/ /\ ~Converts(s)
       /\ UNCHANGED handlers
    \/ /\ Converts(s)
       /\ ~ShouldProcess(o, s)
       /\ removeObject(c, o)
    \/ /\ Converts(s)
       /\ ShouldProcess(o, s)
       /\ call' = [call EXCEPT ![c] = [IdleCall EXCEPT !.at = "resolve", !.obj = o, !.spec = s,
                                                       !.write = synced[c]]]
       /\ UNCHANGED resourceKeys

onDelete(c, o, s) ==
    \/ ~Converts(s) /\ UNCHANGED handlers
    \/ Converts(s) /\ removeObject(c, o)

Begin(c) ==
    /\ call[c].at = "idle"
    /\ queue[c] # <<>>
    /\ queue' = [queue EXCEPT ![c] = Tail(@)]
    /\ LET e == Head(queue[c])
       IN \/ e.kind = "upsert" /\ onUpsert(c, e.obj, e.spec)
          \/ e.kind = "delete" /\ onDelete(c, e.obj, e.spec)
    /\ UNCHANGED <<storeVars, world, store, unlisted, runs, straddled, budgets>>

\* A system or API call that may fail; ok is its outcome.
Attempt(ok) ==
    /\ ok \/ faults < MaxFaults
    /\ faults' = IF ok THEN faults ELSE faults + 1
    /\ UNCHANGED <<changes, restarts>>

\* As if the error of the GET were not looked at.
resolveAuthSecretUnchecked(c, ok) ==
    IF ~UsesSecret(call[c].obj, call[c].spec) THEN NoSecret
    ELSE IF ok THEN secret ELSE NoObject

\* resolveAuthSecret: nil without the annotation, and on any error.
resolveAuthSecret(c, ok) ==
    IF ok /\ UsesSecret(call[c].obj, call[c].spec) THEN secret ELSE NoSecret

\* processObject from BuildEntries to the first manager call. The new keys are
\* recorded before the old ones are removed.
ProcessObjectKeepingOld(c, ok) ==
    /\ call[c].at = "resolve"
    /\ LET o == call[c].obj
           entries == BuildEntries(o, call[c].spec, resolveAuthSecret(c, ok))
       IN /\ resourceKeys' = [resourceKeys EXCEPT ![o] = KeysOf(entries)]
          /\ call' = [call EXCEPT ![c] = Continue([@ EXCEPT !.at = "apply", !.put = entries])]
    /\ Attempt(ok)
    /\ UNCHANGED <<storeVars, world, informers, runs, straddled>>

\* As if the keys of the new version were added to the recorded ones.
ProcessObjectMerging(c, ok) ==
    /\ call[c].at = "resolve"
    /\ LET o == call[c].obj
           entries == BuildEntries(o, call[c].spec, resolveAuthSecret(c, ok))
       IN /\ resourceKeys' = [resourceKeys EXCEPT ![o] = @ \cup KeysOf(entries)]
          /\ call' = [call EXCEPT ![c] = Continue([@ EXCEPT !.at = "apply", !.put = entries])]
    /\ Attempt(ok)
    /\ UNCHANGED <<storeVars, world, informers, runs, straddled>>

ProcessObject(c, ok) ==
    /\ call[c].at = "resolve"
    /\ LET o == call[c].obj
           entries == BuildEntries(o, call[c].spec, resolveAuthSecret(c, ok))
       IN \/ /\ entries = EmptyPublic
             /\ removeObject(c, o)
          \/ /\ entries # EmptyPublic
             /\ resourceKeys' = [resourceKeys EXCEPT ![o] = KeysOf(entries)]
             /\ call' = [call EXCEPT ![c] =
                           [@ EXCEPT !.at = "apply",
                                     !.drop = resourceKeys[o] \ KeysOf(entries),
                                     !.put = entries]]
    /\ Attempt(ok)
    /\ UNCHANGED <<storeVars, world, informers, runs, straddled>>

\* The history variable after a manager call: the file lags because a change was
\* made with write = false after its controller's ForceWrite.
AfterCall(late) ==
    straddled' = /\ straddled \/ late
                 /\ outputFile' # BlueprintOf(resources', privateResources')

\* One stateManager.Remove of removeObject or processObject.
Drop(c, k, ok) ==
    /\ call[c].at = "apply"
    /\ k \in call[c].drop
    /\ Remove(k, ok)
    /\ call' = [call EXCEPT ![c] = Continue([@ EXCEPT !.drop = call[c].drop \ {k}])]
    /\ AfterCall(FALSE)
    /\ Attempt(ok)
    /\ UNCHANGED <<world, informers, resourceKeys, runs>>

\* One stateManager.AddOrUpdate of processObject, with the synced flag that was
\* read before the Secret GET.
Put(c, k, ok) ==
    /\ call[c].at = "apply"
    /\ call[c].drop = {}
    /\ call[c].put[k] # NoEntry
    /\ AddOrUpdate(k, call[c].put[k], call[c].write, ok)
    /\ call' = [call EXCEPT ![c] = Continue([@ EXCEPT !.put[k] = NoEntry])]
    /\ AfterCall(resources' # resources /\ ~call[c].write /\ runPc[c] # "wait")
    /\ Attempt(ok)
    /\ UNCHANGED <<world, informers, resourceKeys, runs>>

(***************************************************************************)
(* Controller.Run, which main starts once every informer has synced.       *)
(***************************************************************************)
RunSkipsForceWrite(c, ok) ==
    /\ runPc[c] = "wait"
    /\ \A d \in Controllers : HasSynced(d)
    /\ runPc' = [runPc EXCEPT ![c] = "forced"]
    /\ UNCHANGED <<storeVars, straddled, budgets, world, informers, handlers, synced>>

RunForceWrite(c, ok) ==
    /\ runPc[c] = "wait"
    /\ \A d \in Controllers : HasSynced(d)
    /\ runPc' = [runPc EXCEPT ![c] = "forced"]
    /\ ForceWrite(ok)
    /\ AfterCall(FALSE)
    /\ Attempt(ok)
    /\ UNCHANGED <<world, informers, handlers, synced>>

RunStoreSynced(c) ==
    /\ runPc[c] = "forced"
    /\ runPc' = [runPc EXCEPT ![c] = "running"]
    /\ synced' = [synced EXCEPT ![c] = TRUE]
    /\ UNCHANGED <<storeVars, world, informers, handlers, straddled, budgets>>

\* The process dies and main starts again; the volume keeps the output file.
Restart ==
    /\ restarts < MaxRestarts
    /\ restarts' = restarts + 1
    /\ NewManager
    /\ store' = [o \in Objects |-> NoObject]
    /\ unlisted' = Existing
    /\ queue' = [c \in Controllers |-> <<>>]
    /\ call' = [c \in Controllers |-> IdleCall]
    /\ resourceKeys' = [o \in Objects |-> {}]
    /\ runPc' = [c \in Controllers |-> "wait"]
    /\ synced' = [c \in Controllers |-> FALSE]
    /\ straddled' = FALSE
    /\ UNCHANGED <<world, changes, faults>>

Environment ==
    \/ \E o \in Objects, s \in Specs \cup {NoObject} : ChangeObject(o, s)
    \/ \E d \in SecretData \cup {NoSecret} : ChangeSecret(d)

Handle(c) ==
    \/ Begin(c)
    \/ \E ok \in BOOLEAN :
         \/ ProcessObject(c, ok)
         \/ \E k \in Keys : Drop(c, k, ok) \/ Put(c, k, ok)

Run(c) == RunStoreSynced(c) \/ \E ok \in BOOLEAN : RunForceWrite(c, ok)

Next ==
    \/ Environment
    \/ \E o \in Objects : Deliver(o) \/ Resync(o)
    \/ \E c \in Controllers : Handle(c) \/ Run(c)
    \/ Restart

Spec == Init /\ [][Next]_vars

\* client-go delivers and resyncs, goroutines are scheduled. The environment,
\* failures and restarts are under no obligation.
Fairness ==
    /\ \A o \in Objects : WF_vars(Deliver(o)) /\ WF_vars(Resync(o))
    /\ \A c \in Controllers : WF_vars(Handle(c)) /\ WF_vars(Run(c))

FairSpec == Spec /\ Fairness

(***************************************************************************)
(* Properties.                                                             *)
(***************************************************************************)

\* Whatever objects share a key, however events, removals and the two handler
\* goroutines interleave, an entry of the blueprint always has an object that
\* tracks its key or a Remove on its way: nothing stays published that no later
\* event could withdraw.
NoOrphans ==
    \A k \in Keys : resources[k] # NoEntry =>
        \/ \E o \in Objects : k \in resourceKeys[o]
        \/ \E c \in Controllers : k \in call[c].drop

\* The keys a version entitles an object to.
EntitledBy(o, s) ==
    IF s # NoObject /\ Converts(s) /\ ShouldProcess(o, s) THEN DeclaredKeys(o, s) ELSE {}

Entitled(o) == EntitledBy(o, store[o])

\* Once the handler has caught up with an object, resourceKeys records exactly
\* the keys its cached version declares: the book-keeping that removals rely on
\* never drifts, whatever was renamed, opted out, deleted or recreated on the
\* way. Only a version that does not convert, which onAdd, onUpdate and onDelete
\* skip, leaves the keys of an earlier version behind, and then all of them:
\* never a mixture of two versions.
CaughtUp ==
    \A o \in Objects : (call[ControllerOf[o]].obj # o /\ ~Pending(o)) =>
        \/ resourceKeys[o] = Entitled(o)
        \/ /\ store[o] = NoObject \/ ~Converts(store[o])
           /\ \E s \in Specs : ~Converts(s)
           /\ \E s \in {t \in Specs : Converts(t)} : resourceKeys[o] = EntitledBy(o, s)

\* The handlers have nothing to do.
Quiet == \A c \in Controllers : queue[c] = <<>> /\ call[c].at = "idle"

\* When every key has one declaring object and the handlers are quiet, the map
\* holds exactly the entries of the cached objects, built from some state of
\* their Secret.
QuietMeansExact ==
    Quiet => \A k \in Keys :
        \/ /\ resources[k] = NoEntry
           /\ \A o \in Objects : k \notin Entitled(o)
        \/ \E o \in Objects, d \in SecretData \cup {NoSecret} :
             k \in Entitled(o) /\ resources[k] = BuildEntries(o, store[o], d)[k]

\* Once every Run has done its ForceWrite, the file is the blueprint of the maps
\* unless the last write failed or a handler call straddled the ForceWrite:
\* those two are the only ways a change can miss the file.
OnlyStraddlingIsLost ==
    (/\ \A c \in Controllers : runPc[c] # "wait"
     /\ ~lastWriteErr
     /\ ~straddled)
    => outputFile = BlueprintOf(resources, privateResources)

\* README: the file is written "whenever resources change". When the sidecar is
\* up, no write failed and nothing is left to handle, the file holds what the
\* sidecar knows.
QuietMeansPublished ==
    (Quiet /\ (\A c \in Controllers : runPc[c] = "running") /\ ~lastWriteErr)
    => outputFile = BlueprintOf(resources, privateResources)

\* What the entries should be, given the API server's objects and Secret.
Desired(k) ==
    {BuildEntries(o, cluster[o], IF UsesSecret(o, cluster[o]) THEN secret ELSE NoSecret)[k] :
        o \in {p \in Existing : ShouldProcess(p, cluster[p]) /\ k \in DeclaredKeys(p, cluster[p])}}

\* The map converges to what the cluster says, the Secrets' data included, after
\* any changes, failed Secret GETs and restarts: the resync repairs what no event
\* announces. When two objects declare one key, deleting one withdraws the entry
\* the other still wants, and the resync brings it back. (Which of two different
\* entries such a key shows may go on changing.)
MemoryConverges ==
    <>[](\A k \in Keys : resources[k] \in Desired(k) \/ (Desired(k) = {} /\ resources[k] = NoEntry))
===============================================================================
