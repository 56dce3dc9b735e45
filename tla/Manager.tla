------------------------------- MODULE Manager -------------------------------
(***************************************************************************)
(* internal/state/manager.go as the code runs it: callers (informer        *)
(* goroutines, reconcilers, Controller.Run) that share one mutex, and a    *)
(* writeState that goes through a temporary file, each of whose system     *)
(* calls may fail and between any two of which the process may die.        *)
(*                                                                         *)
(* Locking, the lookup in the map and the map update are one step: nothing *)
(* outside the mutex reads the maps. An operation that finds nothing to    *)
(* change locks, compares and unlocks; it leaves no trace and is not an    *)
(* action. What another process can see, the two files, changes one        *)
(* system call at a time.                                                  *)
(***************************************************************************)
EXTENDS Naturals

CONSTANTS
    Keys, PrivateKeys, Resources, PrivateResources,
    NoEntry, NoFile,  \* as in StateStore
    Callers,          \* goroutines that call the manager
    Free,             \* the mutex is not held
    Torn,             \* a file that is truncated or partly written
    Never,            \* lastWriteTime.IsZero()
    Threshold         \* the readiness threshold, in ticks (10 minutes)

PublicMap == [Keys -> Resources \cup {NoEntry}]
PrivateMap == [PrivateKeys -> PrivateResources \cup {NoEntry}]
Blueprints == [public : PublicMap, private : PrivateMap]

ASSUME ManagerAssumption ==
    /\ NoEntry \notin Resources \cup PrivateResources
    /\ NoFile \notin Blueprints
    /\ Torn \notin Blueprints \cup {NoFile}
    /\ Free \notin Callers
    /\ Threshold \in Nat
    /\ Never \notin Nat

VARIABLES
    resources, privateResources, \* the maps of the Manager
    mu,           \* the holder of m.mu
    pc,           \* the step of writeState each caller is at
    yamlData,     \* each caller's marshalled blueprint
    tmpFile,      \* the content of m.outputFile + ".tmp"
    outputFile,   \* the content of m.outputFile
    lastWriteErr, \* m.lastWriteErr # nil
    sinceWrite,   \* the time since m.lastWriteTime
    committed,    \* history: both maps when the mutex was last released
    deferred      \* history: a write = false change came after the last successful write

maps == <<resources, privateResources>>
health == <<lastWriteErr, sinceWrite>>
files == <<tmpFile, outputFile>>
vars == <<maps, mu, pc, yamlData, files, health, committed, deferred>>

Stages == {"idle", "marshal", "open", "fill", "rename"}

EmptyMaps ==
    [public |-> [k \in Keys |-> NoEntry], private |-> [k \in PrivateKeys |-> NoEntry]]

Current == [public |-> resources, private |-> privateResources]

TypeOK ==
    /\ resources \in PublicMap
    /\ privateResources \in PrivateMap
    /\ mu \in Callers \cup {Free}
    /\ pc \in [Callers -> Stages]
    /\ yamlData \in [Callers -> Blueprints \cup {NoFile}]
    /\ tmpFile \in Blueprints \cup {NoFile, Torn}
    /\ outputFile \in Blueprints \cup {NoFile}
    /\ lastWriteErr \in BOOLEAN
    /\ sinceWrite \in (0 .. Threshold + 1) \cup {Never}
    /\ committed \in Blueprints
    /\ deferred \in BOOLEAN

\* NewManager, on a fresh volume.
Init ==
    /\ resources = EmptyMaps.public
    /\ privateResources = EmptyMaps.private
    /\ mu = Free
    /\ pc = [c \in Callers |-> "idle"]
    /\ yamlData = [c \in Callers |-> NoFile]
    /\ tmpFile = NoFile
    /\ outputFile = NoFile
    /\ lastWriteErr = FALSE
    /\ sinceWrite = Never
    /\ committed = EmptyMaps
    /\ deferred = FALSE

(***************************************************************************)
(* The operations up to the point where writeState starts.                 *)
(***************************************************************************)
LockNothing(c) == pc[c] = "idle"
Lock(c) == pc[c] = "idle" /\ mu = Free

\* The tail of every operation: keep the mutex and start writeState, or unlock.
WriteOrReturn(c, write) ==
    /\ \/ /\ write
          /\ mu' = c
          /\ pc' = [pc EXCEPT ![c] = "marshal"]
          /\ UNCHANGED <<committed, deferred>>
       \/ /\ ~write
          /\ committed' = Current'
          /\ deferred' = TRUE
          /\ UNCHANGED <<mu, pc>>
    /\ UNCHANGED <<yamlData, files, health>>

AddOrUpdate(c, key, r, write) ==
    /\ Lock(c)
    /\ resources[key] # r
    /\ resources' = [resources EXCEPT ![key] = r]
    /\ UNCHANGED privateResources
    /\ WriteOrReturn(c, write)

AddOrUpdatePrivate(c, key, r, write) ==
    /\ Lock(c)
    /\ privateResources[key] # r
    /\ privateResources' = [privateResources EXCEPT ![key] = r]
    /\ UNCHANGED resources
    /\ WriteOrReturn(c, write)

RemoveUnwritten(c, key) ==
    /\ Lock(c)
    /\ resources[key] # NoEntry
    /\ resources' = [resources EXCEPT ![key] = NoEntry]
    /\ UNCHANGED privateResources
    /\ WriteOrReturn(c, FALSE)

Remove(c, key) ==
    /\ Lock(c)
    /\ resources[key] # NoEntry
    /\ resources' = [resources EXCEPT ![key] = NoEntry]
    /\ UNCHANGED privateResources
    /\ WriteOrReturn(c, TRUE)

RemovePrivate(c, key) ==
    /\ Lock(c)
    /\ privateResources[key] # NoEntry
    /\ privateResources' = [privateResources EXCEPT ![key] = NoEntry]
    /\ UNCHANGED resources
    /\ WriteOrReturn(c, TRUE)

ForceWrite(c) ==
    /\ Lock(c)
    /\ UNCHANGED maps
    /\ WriteOrReturn(c, TRUE)

(***************************************************************************)
(* writeState. Every error path sets lastWriteErr and returns; the         *)
(* deferred Unlock of the operation follows.                               *)
(***************************************************************************)
Proceed(c, stage) ==
    /\ pc' = [pc EXCEPT ![c] = stage]
    /\ UNCHANGED <<maps, mu, health, committed, deferred>>

Unlock(c) ==
    /\ mu' = Free
    /\ pc' = [pc EXCEPT ![c] = "idle"]
    /\ yamlData' = [yamlData EXCEPT ![c] = NoFile]
    /\ committed' = Current
    /\ UNCHANGED maps

FailSilently(c) ==
    /\ Unlock(c)
    /\ UNCHANGED <<health, deferred>>

FailLocked(c) ==
    /\ lastWriteErr' = TRUE
    /\ pc' = [pc EXCEPT ![c] = "idle"]
    /\ UNCHANGED <<maps, mu, yamlData, sinceWrite, committed, deferred>>

Fail(c) ==
    /\ Unlock(c)
    /\ lastWriteErr' = TRUE
    /\ UNCHANGED <<sinceWrite, deferred>>

Marshal(c) ==
    /\ pc[c] = "marshal"
    /\ \/ /\ yamlData' = [yamlData EXCEPT ![c] = Current]
          /\ Proceed(c, "open")
       \/ Fail(c)
    /\ UNCHANGED files

\* os.WriteFile, first half: open with O_CREATE | O_TRUNC.
OpenTmp(c) ==
    /\ pc[c] = "open"
    /\ \/ /\ tmpFile' = Torn
          /\ Proceed(c, "fill")
          /\ UNCHANGED yamlData
       \/ Fail(c) /\ UNCHANGED tmpFile
    /\ UNCHANGED outputFile

\* os.WriteFile, second half: write and close. A failure leaves the torn file.
FillTmpUnchecked(c) ==
    /\ pc[c] = "fill"
    /\ tmpFile' \in {yamlData[c], Torn}
    /\ Proceed(c, "rename")
    /\ UNCHANGED <<yamlData, outputFile>>

FillTmp(c) ==
    /\ pc[c] = "fill"
    /\ \/ /\ tmpFile' = yamlData[c]
          /\ Proceed(c, "rename")
          /\ UNCHANGED yamlData
       \/ Fail(c) /\ UNCHANGED tmpFile
    /\ UNCHANGED outputFile

\* os.Rename, and on failure an os.Remove whose own result is ignored.
RenameTmp(c) ==
    /\ pc[c] = "rename"
    /\ \/ /\ outputFile' = tmpFile
          /\ tmpFile' = NoFile
          /\ lastWriteErr' = FALSE
          /\ sinceWrite' = 0
          /\ deferred' = FALSE
          /\ Unlock(c)
       \/ /\ Fail(c)
          /\ tmpFile' \in {tmpFile, NoFile}
          /\ UNCHANGED outputFile

WriteStateStep(c) == Marshal(c) \/ OpenTmp(c) \/ FillTmp(c) \/ RenameTmp(c)

(***************************************************************************)
(* Time, readiness and restarts.                                           *)
(***************************************************************************)
Tick ==
    /\ sinceWrite \in 0 .. Threshold
    /\ sinceWrite' = sinceWrite + 1
    /\ UNCHANGED <<maps, mu, pc, yamlData, files, lastWriteErr, committed, deferred>>

WriteHealthyUntimed == ~lastWriteErr

WriteHealthy ==
    /\ ~lastWriteErr
    /\ sinceWrite = Never \/ sinceWrite \in 0 .. Threshold

\* What /readyz answers.
handleReadiness == IF WriteHealthy THEN "OK" ELSE "ServiceUnavailable"

\* The process dies at any point and main starts a new one. Both files are on a
\* volume that outlives the container.
Restart ==
    /\ resources' = EmptyMaps.public
    /\ privateResources' = EmptyMaps.private
    /\ mu' = Free
    /\ pc' = [c \in Callers |-> "idle"]
    /\ yamlData' = [c \in Callers |-> NoFile]
    /\ lastWriteErr' = FALSE
    /\ sinceWrite' = Never
    /\ committed' = EmptyMaps
    /\ deferred' = FALSE
    /\ UNCHANGED files

Operation(c) ==
    \/ \E k \in Keys :
         \/ \E r \in Resources, w \in BOOLEAN : AddOrUpdate(c, k, r, w)
         \/ Remove(c, k)
    \/ \E k \in PrivateKeys :
         \/ \E r \in PrivateResources, w \in BOOLEAN : AddOrUpdatePrivate(c, k, r, w)
         \/ RemovePrivate(c, k)
    \/ ForceWrite(c)

Next ==
    \/ \E c \in Callers : Operation(c) \/ WriteStateStep(c)
    \/ Tick
    \/ Restart

Spec == Init /\ [][Next]_vars

\* A goroutine inside writeState is never blocked, and time passes. Nothing is
\* assumed of the callers, of the outcome of a system call, or of restarts.
Fairness ==
    /\ \A c \in Callers : WF_vars(WriteStateStep(c))
    /\ WF_vars(Tick)

FairSpec == Spec /\ Fairness

(***************************************************************************)
(* Properties.                                                             *)
(***************************************************************************)

\* Newt reads the blueprint file while the sidecar writes it. Whatever fails or
\* crashes between the steps of writeState, the file only ever changes to the
\* complete blueprint of what the manager holds at that moment.
OutputIsSnapshot ==
    [][outputFile' # outputFile => outputFile' = Current]_vars

\* A ready sidecar has published what it knows: if the last write did not fail,
\* this process has written at all and no change was deferred since, then the
\* file is the blueprint of both maps. A failed write that a later no-op or
\* deferred call hides would break this.
ReadyMeansPublished ==
    (mu = Free /\ handleReadiness = "OK" /\ sinceWrite # Never /\ ~deferred) => outputFile = Current

Store == INSTANCE StateStore
           WITH resources <- committed.public, privateResources <- committed.private

\* With the maps taken as of the last release of the mutex, every behaviour of
\* the code is one of the abstract store: operations are atomic, and a write
\* replaces the file or leaves it alone.
ImplementsStateStore == Store!StoreSpec

\* Every path through writeState releases the mutex, so no caller waits for it
\* for ever (an early return that skipped the unlock would stop the sidecar).
LockIsReleased == \A c \in Callers : (mu = c) ~> (mu = Free)

\* writeState is the only thing that renews lastWriteTime and nothing writes
\* when nothing changes: a process that has written and stops doing so ends up
\* unready although its file is up to date.
IdleTurnsUnready ==
    []<>(sinceWrite = 0) \/ []<>(sinceWrite = Never) \/ <>[](handleReadiness = "ServiceUnavailable")
===============================================================================
