------------------------------- MODULE Sidecar -------------------------------
(***************************************************************************)
(* cmd/root.go: the whole process. main starts the informers, waits for    *)
(* them, starts every Controller.Run, asks once whether the CRDs are       *)
(* installed, registers the reconcilers if so, and serves until a signal   *)
(* or an error ends it. Controllers and reconcilers share the state        *)
(* manager, the Secrets and the fate of the process; a PublicResource's    *)
(* name may be the key of an HTTPRoute's or a Service's entry.             *)
(*                                                                         *)
(* Every step is one of Controller's, one of Reconciler's (instance R) or  *)
(* one of main's.                                                          *)
(***************************************************************************)
EXTENDS Controller

CONSTANTS
    PublicCRs, PrivateCRs, KeyOf, CRSpecs, Valid(_), CRUsesSecret(_),
    buildResource(_, _, _), SecretsWatchable \* as in Reconciler

\* A name is a key; NoObject is neither a CR nor a spec of one.
ASSUME SidecarAssumption ==
    /\ PublicCRs \cap PrivateCRs = {}
    /\ \A o \in PublicCRs : KeyOf[o] \in Keys
    /\ \A o \in PrivateCRs : KeyOf[o] \in PrivateKeys
    /\ NoObject \notin PublicCRs \cup PrivateCRs \cup CRSpecs
    /\ SecretsWatchable \in BOOLEAN
    /\ \A s \in CRSpecs, d \in SecretData \cup {NoSecret} :
         /\ \A o \in PublicCRs : buildResource(o, s, d) \in Resources
         /\ \A o \in PrivateCRs : buildResource(o, s, d) \in PrivateResources

VARIABLES
    crs, cache, requests, worker, \* as in Reconciler; crs is its cluster
    listable,   \* the API server lets the informers list their types
    served,     \* the API server serves the CRDs
    main,       \* where main is
    registered, \* main has registered the reconcilers
    signalled   \* ctx is cancelled by SIGINT or SIGTERM

R == INSTANCE Reconciler WITH cluster <- crs, Specs <- CRSpecs, UsesSecret <- CRUsesSecret

crVars == <<crs, cache, requests, worker>>
mainVars == <<listable, served, main, registered, signalled>>
sidecarVars == <<vars, crVars, mainVars>>

\* Before the first process; the CRDs may be there already.
SidecarInit ==
    /\ Init
    /\ R!Init
    /\ listable \in BOOLEAN
    /\ served \in BOOLEAN
    /\ ~served => crs = [o \in R!CRs |-> NoObject]
    /\ main = "syncing"
    /\ registered = FALSE
    /\ signalled = FALSE

(***************************************************************************)
(* The components inside the process.                                      *)
(***************************************************************************)
OfController(A) == A /\ UNCHANGED <<crVars, mainVars>>

\* The history variable of Controller follows every manager call.
OfReconciler(A) ==
    /\ A
    /\ AfterCall(FALSE)
    /\ UNCHANGED <<cluster, informers, handlers, runs, mainVars>>

DeliverObject(o) == listable /\ OfController(Deliver(o))

\* The Run goroutines are started after WaitForCacheSync.
RunController(c) == main # "syncing" /\ OfController(Run(c))

\* The manager's caches and workers run only in mgr.Start.
Serving == main = "serving" /\ registered
DeliverCR(o) == Serving /\ OfReconciler(R!Deliver(o))
ResyncCR(o) == Serving /\ OfReconciler(R!Resync(o))
ReconcileCR(kind) == Serving /\ OfReconciler(R!Reconcile(kind))

ChangeCR(o, s) == served /\ OfReconciler(R!ChangeCR(o, s))

InstallCRDs ==
    /\ ~served
    /\ changes < MaxChanges
    /\ served' = TRUE
    /\ changes' = changes + 1
    /\ UNCHANGED <<storeVars, world, informers, handlers, runs, straddled, faults, restarts,
                   crVars, listable, main, registered, signalled>>

(***************************************************************************)
(* main.                                                                   *)
(***************************************************************************)
Goto(place) ==
    /\ main' = place
    /\ UNCHANGED <<vars, crVars, listable, served, signalled>>

AllSynced == listable /\ \A c \in Controllers : HasSynced(c)

\* factory.WaitForCacheSync for every informer.
WaitForCacheSync ==
    /\ main = "syncing"
    /\ AllSynced
    /\ Goto("setup")
    /\ UNCHANGED registered

\* Any error of the discovery request counts as "not installed".
crdInstalled(ok) == served /\ ok

\* From NewManager to mgr.Start.
Setup(ok) ==
    /\ main = "setup"
    /\ registered' = crdInstalled(ok)
    /\ Goto("serving")

Signal ==
    /\ ~signalled
    /\ restarts < MaxRestarts
    /\ signalled' = TRUE
    /\ UNCHANGED <<vars, crVars, listable, served, main, registered>>

\* The process ends and the kubelet starts the container again.
Reboot ==
    /\ Restart
    /\ R!Restart
    /\ main' = "syncing"
    /\ registered' = FALSE
    /\ signalled' = FALSE
    /\ UNCHANGED <<listable, served>>

\* As if main waited for the caches whatever the context says.
ExitWhenServing == signalled /\ main = "serving" /\ Reboot

\* A signal ends main in its last select, or makes WaitForCacheSync give up on
\* an informer that has not synced. Nothing is written on the way out.
Exit ==
    /\ signalled
    /\ main = "serving" \/ (main = "syncing" /\ ~AllSynced)
    /\ Reboot

\* os.Exit(1) in set-up or after an error on errCh, or a crash, anywhere.
Die == Reboot

World ==
    \/ OfController(Environment)
    \/ \E o \in R!CRs, s \in CRSpecs \cup {NoObject} : ChangeCR(o, s)
    \/ InstallCRDs
    \/ Signal
    \/ Die

Main == WaitForCacheSync \/ (\E ok \in BOOLEAN : Setup(ok)) \/ Exit

SidecarNext ==
    \/ World
    \/ Main
    \/ \E o \in Objects : DeliverObject(o) \/ OfController(Resync(o))
    \/ \E c \in Controllers : OfController(Handle(c)) \/ RunController(c)
    \/ \E o \in R!CRs : DeliverCR(o) \/ ResyncCR(o)
    \/ \E kind \in R!Kinds : ReconcileCR(kind)

\* As in Controller and Reconciler; main itself is never stuck but where it waits.
SidecarFairness ==
    /\ WF_sidecarVars(Main)
    /\ \A o \in Objects : WF_sidecarVars(DeliverObject(o)) /\ WF_sidecarVars(OfController(Resync(o)))
    /\ \A c \in Controllers : WF_sidecarVars(OfController(Handle(c))) /\ WF_sidecarVars(RunController(c))
    /\ \A o \in R!CRs : WF_sidecarVars(DeliverCR(o)) /\ WF_sidecarVars(ResyncCR(o))
    /\ \A kind \in R!Kinds :
         /\ WF_sidecarVars(ReconcileCR(kind))
         /\ \A o \in R!CRsOf(kind) : SF_sidecarVars(Serving /\ OfReconciler(R!Get(kind, o, TRUE)))

SidecarSpec == SidecarInit /\ [][SidecarNext]_sidecarVars /\ SidecarFairness

(***************************************************************************)
(* Properties.                                                             *)
(***************************************************************************)

\* Whatever routes, Services and CRs share a key, no entry outlives everyone who
\* could withdraw it: it is tracked by an object, about to be removed by a
\* handler, or its CR is cached, requested or being reconciled.
NoOrphansAnywhere ==
    \A k \in Keys : resources[k] # NoEntry =>
        \/ \E o \in Objects : k \in resourceKeys[o]
        \/ \E c \in Controllers : k \in call[c].drop
        \/ \E o \in PublicCRs :
             /\ KeyOf[o] = k
             /\ cache[o] # NoObject \/ o \in requests \/ worker["public"].obj = o

\* What the CRs ask for under a key, if this process found the CRDs.
CRsOn(k) == {o \in R!CRs : KeyOf[o] = k /\ registered /\ crs[o] # NoObject}
DesiredOfCRs(k) ==
    {buildResource(o, crs[o], IF o \in PublicCRs /\ CRUsesSecret(crs[o]) THEN secret ELSE NoSecret) :
        o \in CRsOn(k)}

\* The file holds what the cluster asks for, on a key that several ask for one of
\* the entries asked for; nothing is claimed of a key that an invalid CR has.
Shows(k, entry, desired) ==
    \/ \E o \in CRsOn(k) : ~Valid(crs[o])
    \/ entry \in desired
    \/ desired = {} /\ entry = NoEntry

Published ==
    /\ outputFile # NoFile
    /\ \A k \in Keys : Shows(k, outputFile.public[k], Desired(k) \cup DesiredOfCRs(k))
    /\ \A k \in PrivateKeys : Shows(k, outputFile.private[k], DesiredOfCRs(k))

\* The end-to-end promise: after any changes of objects, CRs and Secrets, failed
\* calls, signals and crashes, the file comes to hold for good what the cluster
\* asks for: also after a restart whose ForceWrite published a partial blueprint,
\* and when the deletion of a CR took a route's entry with it. The exceptions are
\* informers that cannot list, a write that failed with no change to repeat it,
\* and a change that straddled ForceWrite (OnlyStraddlingIsLost).
PublishedConverges == <>[]((listable /\ ~lastWriteErr /\ ~straddled) => Published)

\* A signal ends the process wherever main is, also when an informer can never
\* sync (its type is not installed, or may not be listed).
ShutdownCompletes == signalled ~> ~signalled
===============================================================================
