------------------------------ MODULE Reconciler ------------------------------
(***************************************************************************)
(* internal/controller/publicresource and privateresource: the two         *)
(* reconcilers that controller-runtime drives from a de-duplicating work   *)
(* queue, one worker each, and that share the state manager. Both key an   *)
(* entry by the name of the custom resource (CR).                          *)
(*                                                                         *)
(* A Reconcile call is split where others can interleave: the cached Get,  *)
(* the Secret Get and the manager call.                                    *)
(***************************************************************************)
EXTENDS StateStore, Naturals

CONSTANTS
    PublicCRs, PrivateCRs, \* "namespace/name" of the CRs of each kind
    KeyOf,                 \* req.Name of a CR
    Specs,                 \* specs a CR may have
    NoObject,              \* the CR does not exist
    SecretData, NoSecret,  \* data of the auth Secret, or none (nil)
    Valid(_),              \* validate accepts the spec
    UsesSecret(_),         \* spec.auth.authSecretRef is set
    buildResource(_, _, _),\* the entry for (CR, spec, secret data)
    SecretsWatchable,      \* the sidecar may list and watch Secrets
    MaxChanges, MaxFaults, MaxRestarts \* bounds, as in Controller

CRs == PublicCRs \cup PrivateCRs
Kinds == {"public", "private"}
CRsOf(kind) == IF kind = "public" THEN PublicCRs ELSE PrivateCRs

ASSUME ReconcilerAssumption ==
    /\ PublicCRs \cap PrivateCRs = {}
    /\ \A o \in PublicCRs : KeyOf[o] \in Keys
    /\ \A o \in PrivateCRs : KeyOf[o] \in PrivateKeys
    /\ NoObject \notin CRs \cup Specs
    /\ NoSecret \notin SecretData
    /\ SecretsWatchable \in BOOLEAN
    /\ \A s \in Specs, d \in SecretData \cup {NoSecret} :
         /\ \A o \in PublicCRs : buildResource(o, s, d) \in Resources
         /\ \A o \in PrivateCRs : buildResource(o, s, d) \in PrivateResources
    /\ MaxChanges \in Nat /\ MaxFaults \in Nat /\ MaxRestarts \in Nat

VARIABLES
    cluster,  \* the API server's CRs
    secret,   \* the API server's Secret
    cache,    \* the manager's cache
    requests, \* the work queues
    worker,   \* the Reconcile call each kind's worker is in
    changes, faults, restarts

budgets == <<changes, faults, restarts>>
vars == <<storeVars, cluster, secret, cache, requests, worker, budgets>>

Idle == [at |-> "idle", obj |-> NoObject, spec |-> NoObject, data |-> NoSecret]

TypeOK ==
    /\ StoreTypeOK
    /\ cluster \in [CRs -> Specs \cup {NoObject}]
    /\ secret \in SecretData \cup {NoSecret}
    /\ cache \in [CRs -> Specs \cup {NoObject}]
    /\ requests \in SUBSET CRs
    /\ worker \in [Kinds -> [at : {"idle", "remove", "secret", "apply"}, obj : CRs \cup {NoObject},
                             spec : Specs \cup {NoObject}, data : SecretData \cup {NoSecret}]]
    /\ changes \in 0 .. MaxChanges
    /\ faults \in 0 .. MaxFaults
    /\ restarts \in 0 .. MaxRestarts

Init ==
    /\ StoreInit
    /\ cluster \in [CRs -> Specs \cup {NoObject}]
    /\ secret \in SecretData \cup {NoSecret}
    /\ cache = [o \in CRs |-> NoObject]
    /\ requests = {}
    /\ worker = [kind \in Kinds |-> Idle]
    /\ changes = 0 /\ faults = 0 /\ restarts = 0

(***************************************************************************)
(* The API server and controller-runtime.                                  *)
(***************************************************************************)
ChangeCR(o, s) ==
    /\ changes < MaxChanges
    /\ cluster[o] # s
    /\ cluster' = [cluster EXCEPT ![o] = s]
    /\ changes' = changes + 1
    /\ UNCHANGED <<storeVars, secret, cache, requests, worker, faults, restarts>>

ChangeSecret(d) ==
    /\ changes < MaxChanges
    /\ secret # d
    /\ secret' = d
    /\ changes' = changes + 1
    /\ UNCHANGED <<storeVars, cluster, cache, requests, worker, faults, restarts>>

\* The cache catches up with a CR and its request is queued, once.
Deliver(o) ==
    /\ cache[o] # cluster[o]
    /\ cache' = [cache EXCEPT ![o] = cluster[o]]
    /\ requests' = requests \cup {o}
    /\ UNCHANGED <<storeVars, cluster, secret, worker, budgets>>

\* The cache's periodic resync requests every CR again.
Resync(o) ==
    /\ cache[o] # NoObject
    /\ o \notin requests
    /\ requests' = requests \cup {o}
    /\ UNCHANGED <<storeVars, cluster, secret, cache, worker, budgets>>

(***************************************************************************)
(* Reconcile.                                                              *)
(***************************************************************************)
Attempt(ok) ==
    /\ ok \/ faults < MaxFaults
    /\ faults' = IF ok THEN faults ELSE faults + 1
    /\ UNCHANGED <<changes, restarts>>

\* As if a deletion were not handled.
AfterGetIgnoringDeletes(o) ==
    CASE cache[o] = NoObject -> Idle
      [] cache[o] # NoObject /\ ~Valid(cache[o]) -> Idle
      [] OTHER -> [at |-> IF o \in PublicCRs THEN "secret" ELSE "apply",
                   obj |-> o, spec |-> cache[o], data |-> NoSecret]

\* As if client.IgnoreNotFound were used and its caller went on.
AfterGetFallingThrough(o) ==
    IF cache[o] # NoObject /\ ~Valid(cache[o]) THEN Idle
    ELSE [at |-> IF o \in PublicCRs THEN "secret" ELSE "apply",
          obj |-> o, spec |-> cache[o], data |-> NoSecret]

\* Where the call goes after the Get: the removal, nowhere (an invalid spec is
\* logged and skipped), the Secret or the entry.
AfterGet(o) ==
    CASE cache[o] = NoObject -> [Idle EXCEPT !.at = "remove", !.obj = o]
      [] cache[o] # NoObject /\ ~Valid(cache[o]) -> Idle
      [] OTHER -> [at |-> IF o \in PublicCRs THEN "secret" ELSE "apply",
                   obj |-> o, spec |-> cache[o], data |-> NoSecret]

GetSwallowingErrors(kind, o, ok) ==
    /\ worker[kind].at = "idle"
    /\ o \in requests
    /\ requests' = requests \ {o}
    /\ IF ok THEN worker' = [worker EXCEPT ![kind] = AfterGet(o)] ELSE UNCHANGED worker
    /\ Attempt(ok)
    /\ UNCHANGED <<storeVars, cluster, secret, cache>>

\* r.Get: an error is returned, and the request queued again.
Get(kind, o, ok) ==
    /\ worker[kind].at = "idle"
    /\ o \in requests
    /\ \/ /\ ok
          /\ requests' = requests \ {o}
          /\ worker' = [worker EXCEPT ![kind] = AfterGet(o)]
       \/ /\ ~ok
          /\ UNCHANGED <<requests, worker>>
    /\ Attempt(ok)
    /\ UNCHANGED <<storeVars, cluster, secret, cache>>

\* resolveAuthSecret: nil without a reference, and on any error. The client is
\* the manager's, which reads through a cache: the first Get of a Secret waits
\* until all Secrets are listed and watched, and for ever if they may not be.
resolveAuthSecret(kind, ok) ==
    /\ worker[kind].at = "secret"
    /\ UsesSecret(worker[kind].spec) => SecretsWatchable
    /\ worker' = [worker EXCEPT ![kind] =
         [@ EXCEPT !.at = "apply",
                   !.data = IF ok /\ UsesSecret(worker[kind].spec) THEN secret ELSE NoSecret]]
    /\ Attempt(ok)
    /\ UNCHANGED <<storeVars, cluster, secret, cache, requests>>

\* The manager call that ends Reconcile.
ReconcileRemove(kind, ok) ==
    /\ worker[kind].at = "remove"
    /\ IF kind = "public" THEN Remove(KeyOf[worker[kind].obj], ok)
                          ELSE RemovePrivate(KeyOf[worker[kind].obj], ok)
    /\ worker' = [worker EXCEPT ![kind] = Idle]
    /\ Attempt(ok)
    /\ UNCHANGED <<cluster, secret, cache, requests>>

ReconcileApplyDeferred(kind, ok) ==
    /\ worker[kind].at = "apply"
    /\ LET o == worker[kind].obj
           entry == buildResource(o, worker[kind].spec, worker[kind].data)
       IN IF kind = "public" THEN AddOrUpdate(KeyOf[o], entry, FALSE, ok)
                             ELSE AddOrUpdatePrivate(KeyOf[o], entry, FALSE, ok)
    /\ worker' = [worker EXCEPT ![kind] = Idle]
    /\ Attempt(ok)
    /\ UNCHANGED <<cluster, secret, cache, requests>>

ReconcileApply(kind, ok) ==
    /\ worker[kind].at = "apply"
    /\ LET o == worker[kind].obj
           entry == buildResource(o, worker[kind].spec, worker[kind].data)
       IN IF kind = "public" THEN AddOrUpdate(KeyOf[o], entry, TRUE, ok)
                             ELSE AddOrUpdatePrivate(KeyOf[o], entry, TRUE, ok)
    /\ worker' = [worker EXCEPT ![kind] = Idle]
    /\ Attempt(ok)
    /\ UNCHANGED <<cluster, secret, cache, requests>>

\* The process dies; the new one starts with an empty cache and empty queues.
Restart ==
    /\ restarts < MaxRestarts
    /\ restarts' = restarts + 1
    /\ NewManager
    /\ cache' = [o \in CRs |-> NoObject]
    /\ requests' = {}
    /\ worker' = [kind \in Kinds |-> Idle]
    /\ UNCHANGED <<cluster, secret, changes, faults>>

Reconcile(kind) ==
    \E ok \in BOOLEAN :
        \/ \E o \in CRsOf(kind) : Get(kind, o, ok)
        \/ resolveAuthSecret(kind, ok)
        \/ ReconcileRemove(kind, ok)
        \/ ReconcileApply(kind, ok)

Next ==
    \/ \E o \in CRs, s \in Specs \cup {NoObject} : ChangeCR(o, s)
    \/ \E d \in SecretData \cup {NoSecret} : ChangeSecret(d)
    \/ \E o \in CRs : Deliver(o) \/ Resync(o)
    \/ \E kind \in Kinds : Reconcile(kind)
    \/ Restart

Spec == Init /\ [][Next]_vars

\* controller-runtime delivers, resyncs and takes requests in turn.
Fairness ==
    /\ \A o \in CRs : WF_vars(Deliver(o)) /\ WF_vars(Resync(o))
    /\ \A kind \in Kinds :
         /\ WF_vars(Reconcile(kind))
         /\ \A o \in CRsOf(kind) : SF_vars(Get(kind, o, TRUE))

FairSpec == Spec /\ Fairness

(***************************************************************************)
(* Properties.                                                             *)
(***************************************************************************)
EntryOf(o) == IF o \in PublicCRs THEN resources[KeyOf[o]] ELSE privateResources[KeyOf[o]]

Settled(o) == o \notin requests /\ \A kind \in Kinds : worker[kind].obj # o

\* Built from this CR, with some spec and some state of the Secret.
IsFrom(o, specs, entry) ==
    \E s \in specs, d \in SecretData \cup {NoSecret} : entry = buildResource(o, s, d)

\* "Each CR produces one entry in the blueprint": once its requests are handled,
\* a valid CR has the entry of its cached spec; a deleted one has none, even if
\* it was invalid in between; an invalid one keeps an earlier entry of its own
\* or has none.
EachCRHasItsEntry ==
    \A o \in CRs : Settled(o) =>
        IF cache[o] = NoObject THEN EntryOf(o) = NoEntry
        ELSE IF Valid(cache[o]) THEN IsFrom(o, {cache[o]}, EntryOf(o))
        ELSE EntryOf(o) = NoEntry \/ IsFrom(o, {s \in Specs : Valid(s)}, EntryOf(o))

\* publicresource_types.go:222: "Each CR produces one entry in the blueprint's
\* public-resources block." A valid CR that exists, and whose last version is
\* handled, has an entry, be it the one that another CR of its name left there.
ExistingCRsArePublished ==
    \A o \in CRs : (/\ Settled(o)
                    /\ cluster[o] # NoObject /\ cache[o] = cluster[o]
                    /\ Valid(cache[o])) => EntryOf(o) # NoEntry

\* Every write of a reconciler is immediate: unless a write failed, an entry in
\* the maps is in the file too.
EntriesArePublished ==
    (~lastWriteErr /\ (resources # EmptyPublic \/ privateResources # EmptyPrivate))
    => outputFile = BlueprintOf(resources, privateResources)

\* After any changes, failed Gets and restarts, the entry of every valid CR
\* becomes, for good, the one that its spec and its Secret give, and that of a
\* deleted CR disappears.
EntriesConverge ==
    \A o \in CRs : <>[]
        (/\ cluster[o] = NoObject => EntryOf(o) = NoEntry
         /\ cluster[o] \in {s \in Specs : Valid(s)} =>
              EntryOf(o) = buildResource(o, cluster[o],
                               IF o \in PublicCRs /\ UsesSecret(cluster[o]) THEN secret ELSE NoSecret))

\* README: "The sidecar watches these cluster-wide and merges them into the
\* generated blueprint." A valid CR that names no Secret has its entry in the
\* end, whatever the other CRs name and whatever the sidecar may do with Secrets.
SecretsBlockNoOthers ==
    \A o \in CRs : <>[](cluster[o] \in {s \in Specs : Valid(s) /\ ~UsesSecret(s)} => EntryOf(o) # NoEntry)
===============================================================================
