---------------------------- MODULE HostRuntime -----------------------------
(***************************************************************************)
(* HostRuntime: the life of the processes that want to own one data        *)
(* instance.  start() acquires the instance lock and then everything that  *)
(* depends on it; a failed start, shutdown() and retry_failed_cleanup()    *)
(* give things back through _close_runtime_resources, which keeps the lock *)
(* as long as anything that may use the database might still run.          *)
(*                                                                         *)
(* Each host has the thread that calls start, shutdown and                 *)
(* retry_failed_cleanup, one at a time; the server thread; one request     *)
(* that asks for shutdown; futures of its two executors; and writers that  *)
(* enter the admission gate directly.                                      *)
(***************************************************************************)
EXTENDS Integers

CONSTANTS
    Hosts,      \* processes started on the same data instance
    None,       \* nobody
    MaxRuns,    \* bound: calls of start() per host
    MaxFaults,  \* bound: crashes and exceptions during cleanup
    MaxWork     \* bound: concurrent futures, and concurrent writers, per host

ASSUME HostAssumption ==
    /\ None \notin Hosts
    /\ None \notin Hosts \X Nat
    /\ MaxRuns \in Nat /\ MaxFaults \in Nat /\ MaxWork \in Nat

VARIABLES
    host,      \* the attributes and threads of each HostRuntime
    osLock,    \* the process that holds the lock byte, or None
    registry,  \* <<host, run>> named by the registry file, or None
    faults     \* faults so far

vars == <<host, osLock, registry, faults>>

HostStates == {"STARTING", "MIGRATING", "VERIFYING", "LISTENING_NOT_READY", "READY",
               "QUIESCING", "STOPPED", "FAILED"}

Resources == {"executors", "server", "loopback", "registry", "security", "lock"}

(* The steps of start() before and after the lock is acquired. *)
UnlockedSteps == {"prepare", "lock"}

LockedSteps == {"migrate", "verify", "reconcile", "requestExecutor", "backgroundExecutor",
                "bind", "security", "listen", "publish", "probe", "ready"}

ShutdownSteps == {"drainWrites", "drainWork", "checkpoint"}

CloseSteps == {"quiesce", "stopServer", "joinServer", "closeLoopback", "drainExecutors",
               "drainGate", "closeSecurity", "removeRegistry", "releaseLock", "closed"}

Steps == {"idle"} \cup UnlockedSteps \cup LockedSteps \cup ShutdownSteps \cup CloseSteps

Host ==
    [state   : HostStates,
     pc      : Steps,                                \* of the owning thread
     caller  : {"none", "start", "shutdown", "retry"},  \* the call it executes
     own     : SUBSET Resources,                     \* resource attributes set
     cleanup : {"ok", "failed", "retain"},           \* failures, retain_ownership
     admits  : BOOLEAN,                              \* WriteAdmissionGate._accepting
     writers : Nat,                                  \* WriteAdmissionGate._active
     accepts : BOOLEAN,                              \* HostExecutor._accepting
     work    : Nat,                                  \* futures that run
     server  : {"none", "serving", "exiting"},       \* the server thread
     request : {"none", "preparing", "committing", "accepted", "checked", "closing",
                "quiescing"},                        \* where request_shutdown is
     told    : BOOLEAN,                              \* a client was told QUIESCING
     run     : Nat]                                  \* run_id

Stopped ==
    [state |-> "STOPPED", pc |-> "idle", caller |-> "none", own |-> {},
     cleanup |-> "ok", admits |-> FALSE, writers |-> 0, accepts |-> FALSE,
     work |-> 0, server |-> "none", request |-> "none", told |-> FALSE, run |-> 0]

Init ==
    /\ host = [h \in Hosts |-> Stopped]
    /\ osLock = None
    /\ registry = None
    /\ faults = 0

-----------------------------------------------------------------------------
At(h, step) == host[h].pc = step

Becomes(h, attributes) == host' = [host EXCEPT ![h] = attributes]

Fault ==
    /\ faults < MaxFaults
    /\ faults' = faults + 1

(* start() *)

(* A failed runtime that still owns something must be cleaned up first. *)
Start(h) ==
    /\ At(h, "idle")
    /\ host[h].state \in {"STOPPED", "FAILED"}
    /\ host[h].state = "FAILED" => host[h].own = {}
    /\ host[h].run < MaxRuns
    /\ Becomes(h, [host[h] EXCEPT !.pc = "prepare", !.caller = "start",
                                  !.state = "STARTING", !.run = @ + 1, !.told = FALSE])
    /\ UNCHANGED <<osLock, registry, faults>>

StartPrepare(h) ==
    /\ At(h, "prepare")
    /\ Becomes(h, [host[h] EXCEPT !.pc = "lock"])
    /\ UNCHANGED <<osLock, registry, faults>>

(* DataInstanceLock.acquire; INSTANCE_OWNED is one of the failures of start. *)
StartLock(h) ==
    /\ At(h, "lock")
    /\ osLock = None
    /\ osLock' = h
    /\ Becomes(h, [host[h] EXCEPT !.pc = "migrate", !.state = "MIGRATING",
                                  !.own = @ \cup {"lock"}])
    /\ UNCHANGED <<registry, faults>>

StartMigrate(h) ==
    /\ At(h, "migrate")
    /\ Becomes(h, [host[h] EXCEPT !.pc = "verify", !.state = "VERIFYING"])
    /\ UNCHANGED <<osLock, registry, faults>>

(* The gate opens once the identity is read; reopen raises under writers. *)
StartVerify(h) ==
    /\ At(h, "verify")
    /\ host[h].writers = 0
    /\ Becomes(h, [host[h] EXCEPT !.pc = "reconcile", !.admits = TRUE])
    /\ UNCHANGED <<osLock, registry, faults>>

StartReconcile(h) ==
    /\ At(h, "reconcile")
    /\ Becomes(h, [host[h] EXCEPT !.pc = "requestExecutor"])
    /\ UNCHANGED <<osLock, registry, faults>>

(* "executors" is owned as soon as there is one of the two. *)
StartRequestExecutor(h) ==
    /\ At(h, "requestExecutor")
    /\ Becomes(h, [host[h] EXCEPT !.pc = "backgroundExecutor", !.own = @ \cup {"executors"},
                                  !.accepts = TRUE])
    /\ UNCHANGED <<osLock, registry, faults>>

StartBackgroundExecutor(h) ==
    /\ At(h, "backgroundExecutor")
    /\ Becomes(h, [host[h] EXCEPT !.pc = "bind"])
    /\ UNCHANGED <<osLock, registry, faults>>

StartLoopback(h) ==
    /\ At(h, "bind")
    /\ Becomes(h, [host[h] EXCEPT !.pc = "security", !.own = @ \cup {"loopback"}])
    /\ UNCHANGED <<osLock, registry, faults>>

(* The flags of security and server are set before the call they guard, so *)
(* a call that raises half way is one that fails at the next step.         *)
StartSecurity(h) ==
    /\ At(h, "security")
    /\ Becomes(h, [host[h] EXCEPT !.pc = "listen", !.own = @ \cup {"security"}])
    /\ UNCHANGED <<osLock, registry, faults>>

StartServer(h) ==
    /\ At(h, "listen")
    /\ Becomes(h, [host[h] EXCEPT !.pc = "publish", !.state = "LISTENING_NOT_READY",
                                  !.own = @ \cup {"server"}, !.server = "serving"])
    /\ UNCHANGED <<osLock, registry, faults>>

StartPublish(h) ==
    /\ At(h, "publish")
    /\ registry' = <<h, host[h].run>>
    /\ Becomes(h, [host[h] EXCEPT !.pc = "probe", !.own = @ \cup {"registry"}])
    /\ UNCHANGED <<osLock, faults>>

(* authenticated_self_health has to be told LISTENING_NOT_READY. *)
StartProbe(h) ==
    /\ At(h, "probe")
    /\ host[h].state = "LISTENING_NOT_READY"
    /\ host[h].server # "none"
    /\ Becomes(h, [host[h] EXCEPT !.pc = "ready"])
    /\ UNCHANGED <<osLock, registry, faults>>

StartReady(h) ==
    /\ At(h, "ready")
    /\ Becomes(h, [host[h] EXCEPT !.pc = "idle", !.caller = "none", !.state = "READY"])
    /\ UNCHANGED <<osLock, registry, faults>>

(* Whatever start is doing raises: the gate closes and the start unwinds. *)
StartFails(h) ==
    /\ host[h].pc \in UnlockedSteps \cup (LockedSteps \ {"ready"})
    /\ Becomes(h, [host[h] EXCEPT !.pc = "quiesce", !.state = "FAILED", !.admits = FALSE])
    /\ UNCHANGED <<osLock, registry, faults>>

-----------------------------------------------------------------------------
(* shutdown() and retry_failed_cleanup() *)

(* shutdown quiesces first unless a request already did; the executors     *)
(* exist in every state quiesce accepts.                                   *)
Shutdown(h) ==
    /\ At(h, "idle")
    /\ host[h].run > 0
    /\ host[h].state \in {"READY", "LISTENING_NOT_READY", "QUIESCING"}
    /\ Becomes(h, [host[h] EXCEPT !.pc = "drainWrites", !.caller = "shutdown",
                                  !.state = "QUIESCING",
                                  !.admits = IF host[h].state = "QUIESCING" THEN @ ELSE FALSE,
                                  !.accepts = IF host[h].state = "QUIESCING" THEN @ ELSE FALSE])
    /\ UNCHANGED <<osLock, registry, faults>>

(* A drain that misses the deadline raises, as does a busy checkpoint;      *)
(* shutdown can be called again.                                           *)
GiveUp(h) ==
    /\ \/ At(h, "drainWrites") /\ host[h].writers > 0 /\ UNCHANGED faults
       \/ At(h, "drainWork") /\ host[h].work > 0 /\ UNCHANGED faults
       \/ At(h, "checkpoint") /\ Fault
    /\ Becomes(h, [host[h] EXCEPT !.pc = "idle", !.caller = "none"])
    /\ UNCHANGED <<osLock, registry>>

DrainWrites(h) ==
    /\ At(h, "drainWrites")
    /\ host[h].writers = 0
    /\ Becomes(h, [host[h] EXCEPT !.pc = "drainWork", !.accepts = FALSE])
    /\ UNCHANGED <<osLock, registry, faults>>

DrainWork(h) ==
    /\ At(h, "drainWork")
    /\ host[h].work = 0
    /\ Becomes(h, [host[h] EXCEPT !.pc = "checkpoint"])
    /\ UNCHANGED <<osLock, registry, faults>>

Checkpoint(h) ==
    /\ At(h, "checkpoint")
    /\ Becomes(h, [host[h] EXCEPT !.pc = "quiesce"])
    /\ UNCHANGED <<osLock, registry, faults>>

RetryFailedCleanup(h) ==
    /\ At(h, "idle")
    /\ host[h].state = "FAILED"
    /\ host[h].own # {}
    /\ Becomes(h, [host[h] EXCEPT !.pc = "quiesce", !.caller = "retry"])
    /\ UNCHANGED <<osLock, registry, faults>>

-----------------------------------------------------------------------------
(* _close_runtime_resources *)

Retains(h) == host[h].cleanup = "retain"

(* One step of the cleanup: what remains owned, and a verdict that can     *)
(* only get worse.                                                         *)
Closing(h, next, remaining, verdict) ==
    Becomes(h, [host[h] EXCEPT !.pc = next, !.own = remaining,
                               !.cleanup = IF verdict = "ok" \/ @ = "retain" THEN @ ELSE verdict])

CloseAdmission(h) ==
    /\ At(h, "quiesce")
    /\ Becomes(h, [host[h] EXCEPT !.pc = "stopServer", !.cleanup = "ok",
                                  !.admits = FALSE, !.accepts = FALSE])
    /\ UNCHANGED <<osLock, registry, faults>>

(* Faulty variant of StopServer: waited for without being told to exit. *)
StopServerUnasked(h) ==
    /\ At(h, "stopServer")
    /\ Becomes(h, [host[h] EXCEPT
                      !.pc = IF "server" \in host[h].own THEN "joinServer" ELSE "closeLoopback"])
    /\ UNCHANGED <<osLock, registry, faults>>

StopServer(h) ==
    /\ At(h, "stopServer")
    /\ IF "server" \in host[h].own
       THEN Becomes(h, [host[h] EXCEPT !.pc = "joinServer",
                                       !.server = IF @ = "serving" THEN "exiting" ELSE @])
       ELSE Becomes(h, [host[h] EXCEPT !.pc = "closeLoopback"])
    /\ UNCHANGED <<osLock, registry, faults>>

(* stop() may raise what the server thread died of; is_stopped decides. *)
JoinServer(h) ==
    /\ At(h, "joinServer")
    /\ \/ /\ host[h].server # "none"
          /\ Closing(h, "closeLoopback", host[h].own, "retain")
          /\ UNCHANGED faults
       \/ /\ host[h].server = "none"
          /\ \/ Closing(h, "closeLoopback", host[h].own \ {"server"}, "ok") /\ UNCHANGED faults
             \/ Closing(h, "closeLoopback", host[h].own \ {"server"}, "failed") /\ Fault
    /\ UNCHANGED <<osLock, registry>>

CloseLoopback(h) ==
    /\ At(h, "closeLoopback")
    /\ \/ Closing(h, "drainExecutors", host[h].own \ {"loopback"}, "ok") /\ UNCHANGED faults
       \/ /\ "loopback" \in host[h].own
          /\ Closing(h, "drainExecutors", host[h].own, "retain")
          /\ Fault
    /\ UNCHANGED <<osLock, registry>>

(* Faulty variant of DrainExecutors: the pool is forgotten although a      *)
(* future still runs.                                                      *)
DrainExecutorsCancelled(h) ==
    /\ At(h, "drainExecutors")
    /\ Closing(h, "drainGate", host[h].own \ {"executors"}, "ok")
    /\ UNCHANGED <<osLock, registry, faults>>

(* Cancellation stops queued futures only: running ones are waited for. *)
DrainExecutors(h) ==
    /\ At(h, "drainExecutors")
    /\ IF host[h].work = 0
       THEN Closing(h, "drainGate", host[h].own \ {"executors"}, "ok")
       ELSE Closing(h, "drainGate", host[h].own, "retain")
    /\ UNCHANGED <<osLock, registry, faults>>

DrainGate(h) ==
    /\ At(h, "drainGate")
    /\ Closing(h, "closeSecurity", host[h].own, IF host[h].writers = 0 THEN "ok" ELSE "retain")
    /\ UNCHANGED <<osLock, registry, faults>>

CloseSecurity(h) ==
    /\ At(h, "closeSecurity")
    /\ IF Retains(h) \/ "security" \notin host[h].own
       THEN Closing(h, "removeRegistry", host[h].own, "ok") /\ UNCHANGED faults
       ELSE \/ Closing(h, "removeRegistry", host[h].own \ {"security"}, "ok") /\ UNCHANGED faults
            \/ Closing(h, "removeRegistry", host[h].own, "retain") /\ Fault
    /\ UNCHANGED <<osLock, registry>>

(* Faulty variant of RemoveRegistry: whatever record is there is removed,  *)
(* also by a start that never published one.                               *)
RemoveAnyRegistry(h) ==
    /\ At(h, "removeRegistry")
    /\ registry' = IF Retains(h) THEN registry ELSE None
    /\ Closing(h, "releaseLock", host[h].own \ {"registry"}, "ok")
    /\ UNCHANGED <<osLock, faults>>

(* RuntimeRegistry.remove_owned removes the record of this run only. *)
RemoveRegistry(h) ==
    /\ At(h, "removeRegistry")
    /\ IF Retains(h) \/ "registry" \notin host[h].own
       THEN /\ Closing(h, "releaseLock", host[h].own, "ok")
            /\ UNCHANGED <<registry, faults>>
       ELSE \/ /\ registry' = IF registry = <<h, host[h].run>> THEN None ELSE registry
               /\ Closing(h, "releaseLock", host[h].own \ {"registry"}, "ok")
               /\ UNCHANGED faults
            \/ /\ Closing(h, "releaseLock", host[h].own, "retain")
               /\ Fault
               /\ UNCHANGED registry
    /\ UNCHANGED osLock

(* A release that raises has closed the file all the same. *)
ReleaseLock(h) ==
    /\ At(h, "releaseLock")
    /\ IF Retains(h) \/ "lock" \notin host[h].own
       THEN /\ Closing(h, "closed", host[h].own, "ok")
            /\ UNCHANGED <<osLock, faults>>
       ELSE /\ osLock' = IF osLock = h THEN None ELSE osLock
            /\ \/ Closing(h, "closed", host[h].own \ {"lock"}, "ok") /\ UNCHANGED faults
               \/ Closing(h, "closed", host[h].own, "failed") /\ osLock = h /\ Fault
    /\ UNCHANGED registry

(* Only a shutdown without failures reaches STOPPED. *)
CloseDone(h) ==
    /\ At(h, "closed")
    /\ Becomes(h, [host[h] EXCEPT !.pc = "idle", !.caller = "none", !.cleanup = "ok",
                                  !.state = IF host[h].caller = "shutdown" /\ host[h].cleanup = "ok"
                                               THEN "STOPPED" ELSE @])
    /\ UNCHANGED <<osLock, registry, faults>>

-----------------------------------------------------------------------------
(* request_shutdown, in a thread of the server *)

Quiescable(h) == host[h].state \in {"READY", "LISTENING_NOT_READY"}

(* The command enters the gate as any unit of work does. *)
RequestShutdown(h) ==
    /\ host[h].request = "none"
    /\ host[h].server = "serving"
    /\ Quiescable(h)
    /\ host[h].admits
    /\ Becomes(h, [host[h] EXCEPT !.request = "preparing", !.writers = @ + 1])
    /\ UNCHANGED <<osLock, registry, faults>>

RequestPrepare(h) ==
    /\ host[h].request = "preparing"
    /\ Quiescable(h)
    /\ Becomes(h, [host[h] EXCEPT !.request = "committing"])
    /\ UNCHANGED <<osLock, registry, faults>>

RequestCommit(h) ==
    /\ host[h].request = "committing"
    /\ Becomes(h, [host[h] EXCEPT !.request = "accepted", !.writers = @ - 1])
    /\ UNCHANGED <<osLock, registry, faults>>

RequestFails(h) ==
    /\ host[h].request \in {"preparing", "committing"}
    /\ Becomes(h, [host[h] EXCEPT !.request = "none", !.writers = @ - 1])
    /\ UNCHANGED <<osLock, registry, faults>>

(* quiesce() reads the state, closes the gate, writes the state and closes *)
(* the executors, with no lock around the four.                            *)
RequestCheck(h) ==
    /\ host[h].request = "accepted"
    /\ Becomes(h, [host[h] EXCEPT !.request = IF Quiescable(h) THEN "checked" ELSE "none",
                                  !.told = @ \/ host[h].state = "QUIESCING"])
    /\ UNCHANGED <<osLock, registry, faults>>

RequestGate(h) ==
    /\ host[h].request = "checked"
    /\ Becomes(h, [host[h] EXCEPT !.request = "closing", !.admits = FALSE])
    /\ UNCHANGED <<osLock, registry, faults>>

RequestState(h) ==
    /\ host[h].request = "closing"
    /\ Becomes(h, [host[h] EXCEPT !.request = "quiescing", !.state = "QUIESCING"])
    /\ UNCHANGED <<osLock, registry, faults>>

RequestDone(h) ==
    /\ host[h].request = "quiescing"
    /\ Becomes(h, [host[h] EXCEPT !.request = "none", !.accepts = FALSE, !.told = TRUE])
    /\ UNCHANGED <<osLock, registry, faults>>

-----------------------------------------------------------------------------
(* Work, writers, the server thread, and the end of the process *)

WriterEnters(h) ==
    /\ host[h].admits
    /\ host[h].writers < MaxWork
    /\ Becomes(h, [host[h] EXCEPT !.writers = @ + 1])
    /\ UNCHANGED <<osLock, registry, faults>>

WriterLeaves(h) ==
    /\ host[h].writers > (IF host[h].request \in {"preparing", "committing"} THEN 1 ELSE 0)
    /\ Becomes(h, [host[h] EXCEPT !.writers = @ - 1])
    /\ UNCHANGED <<osLock, registry, faults>>

WorkStarts(h) ==
    /\ "executors" \in host[h].own
    /\ host[h].accepts
    /\ host[h].work < MaxWork
    /\ Becomes(h, [host[h] EXCEPT !.work = @ + 1])
    /\ UNCHANGED <<osLock, registry, faults>>

WorkEnds(h) ==
    /\ host[h].work > 0
    /\ Becomes(h, [host[h] EXCEPT !.work = @ - 1])
    /\ UNCHANGED <<osLock, registry, faults>>

(* The server thread ends when told to, once its request is answered. *)
ServerExits(h) ==
    /\ host[h].server = "exiting"
    /\ host[h].request = "none"
    /\ Becomes(h, [host[h] EXCEPT !.server = "none"])
    /\ UNCHANGED <<osLock, registry, faults>>

ServerDies(h) ==
    /\ host[h].server = "serving"
    /\ host[h].request = "none"
    /\ Fault
    /\ Becomes(h, [host[h] EXCEPT !.server = "none"])
    /\ UNCHANGED <<osLock, registry>>

(* The process dies and with it its threads and its lock; the registry     *)
(* file stays.  A new process takes its place.                             *)
Crash(h) ==
    /\ host[h].own # {} \/ host[h].pc # "idle"
    /\ Fault
    /\ Becomes(h, [Stopped EXCEPT !.run = host[h].run])
    /\ osLock' = IF osLock = h THEN None ELSE osLock
    /\ UNCHANGED registry

-----------------------------------------------------------------------------
StartStep(h) ==
    \/ StartPrepare(h) \/ StartLock(h) \/ StartMigrate(h) \/ StartVerify(h)
    \/ StartReconcile(h) \/ StartRequestExecutor(h) \/ StartBackgroundExecutor(h)
    \/ StartLoopback(h) \/ StartSecurity(h) \/ StartServer(h) \/ StartPublish(h)
    \/ StartProbe(h) \/ StartReady(h) \/ StartFails(h)

ShutdownStep(h) ==
    \/ GiveUp(h) \/ DrainWrites(h) \/ DrainWork(h) \/ Checkpoint(h)

CloseStep(h) ==
    \/ CloseAdmission(h) \/ StopServer(h) \/ JoinServer(h) \/ CloseLoopback(h)
    \/ DrainExecutors(h) \/ DrainGate(h) \/ CloseSecurity(h) \/ RemoveRegistry(h)
    \/ ReleaseLock(h) \/ CloseDone(h)

RequestStep(h) ==
    \/ RequestPrepare(h) \/ RequestCommit(h) \/ RequestFails(h) \/ RequestCheck(h)
    \/ RequestGate(h) \/ RequestState(h) \/ RequestDone(h)

Ending(h) == WriterLeaves(h) \/ WorkEnds(h)

Next ==
    \E h \in Hosts :
        \/ Start(h) \/ StartStep(h)
        \/ Shutdown(h) \/ ShutdownStep(h)
        \/ RetryFailedCleanup(h) \/ CloseStep(h)
        \/ RequestShutdown(h) \/ RequestStep(h)
        \/ WriterEnters(h) \/ WorkStarts(h) \/ Ending(h)
        \/ ServerExits(h) \/ ServerDies(h) \/ Crash(h)

Spec == Init /\ [][Next]_vars

(* The owner retries a failed cleanup, its thread goes on, requests and    *)
(* running work end, and a server told to exit does.                       *)
Fairness ==
    \A h \in Hosts :
       /\ WF_vars(StartStep(h)) /\ WF_vars(ShutdownStep(h)) /\ WF_vars(CloseStep(h))
       /\ WF_vars(RetryFailedCleanup(h)) /\ WF_vars(RequestStep(h))
       /\ WF_vars(WriterLeaves(h)) /\ WF_vars(WorkEnds(h)) /\ WF_vars(ServerExits(h))

FairSpec == Spec /\ Fairness

-----------------------------------------------------------------------------
TypeOK ==
    /\ host \in [Hosts -> Host]
    /\ osLock \in Hosts \cup {None}
    /\ registry \in (Hosts \X Nat) \cup {None}
    /\ faults \in Nat

(* What uses the database: admission that is open, a writer, running work, *)
(* the server thread, start() from migration on, and the WAL checkpoint of *)
(* a shutdown() whose server has not been given back yet.                  *)
Busy(h) ==
    \/ host[h].admits
    \/ host[h].writers > 0
    \/ host[h].work > 0
    \/ host[h].server # "none"
    \/ host[h].pc \in LockedSteps
    \/ At(h, "checkpoint") /\ "server" \in host[h].own

(* Only the process that holds the instance lock is busy, however starts   *)
(* fail, drains time out, cleanups raise and requests race with them; so   *)
(* two processes are never busy at once.  The checkpoint of a shutdown()   *)
(* called after the cleanup has run is not covered: see CheckpointOwned.   *)
OwnerWhileBusy == \A h \in Hosts : Busy(h) => osLock = h

(* shutdown() checkpoints the WAL before the lock is released, as the      *)
(* order of its steps promises.                                            *)
CheckpointOwned == \A h \in Hosts : At(h, "checkpoint") => osLock = h

(* A host that reports READY is the one the registry file names: no other  *)
(* start, failed start or late cleanup has replaced or removed the record. *)
ReadyIsPublished ==
    \A h \in Hosts : host[h].state = "READY" => registry = <<h, host[h].run>>

(* STOPPED means that everything was given back. *)
StoppedIsClean ==
    \A h \in Hosts : host[h].state = "STOPPED" =>
        host[h].own = {} /\ ~Busy(h) /\ osLock # h

(* Retried cleanup of a failed start gives everything back in the end. *)
FailedIsCleanedUp ==
    \A h \in Hosts :
        host[h].state = "FAILED" ~> (host[h].own = {} \/ host[h].state # "FAILED")

(* A shutdown that was acknowledged is not forgotten: the host does not    *)
(* return to READY in that run.                                            *)
AcknowledgedStays == \A h \in Hosts : host[h].told => host[h].state # "READY"

=============================================================================
