------------------------- MODULE HostRuntimeProofs --------------------------
(***************************************************************************)
(* Proofs about HostRuntime for any number of processes, runs, faults and  *)
(* concurrent work.  The invariant is a statement about one host and the   *)
(* lock: at each step of the cleanup, unless ownership is retained, the    *)
(* things stopped so far have stopped and cannot start again; so when the  *)
(* lock is released nothing of what Busy names is left.                    *)
(***************************************************************************)
EXTENDS HostRuntime, TLAPS

(* What must not be without the lock. *)
Active(s) ==
    \/ s.admits \/ s.accepts \/ s.writers > 0 \/ s.work > 0
    \/ s.server # "none" \/ s.pc \in LockedSteps \/ s.state = "READY"
    \/ "server" \in s.own

(* The cleanup steps after the server, the executors and the gate. *)
AfterGate == {"closeSecurity", "removeRegistry", "releaseLock", "closed"}

AfterWork == {"drainGate"} \cup AfterGate

AfterServer == {"closeLoopback", "drainExecutors"} \cup AfterWork

(* What a cleanup without failures has given back when it is at a step. *)
GivenBack(step) ==
    (IF step \in AfterServer THEN {"server"} ELSE {}) \cup
    (IF step \in AfterServer \ {"closeLoopback"} THEN {"loopback"} ELSE {}) \cup
    (IF step \in AfterWork THEN {"executors"} ELSE {}) \cup
    (IF step \in AfterGate \ {"closeSecurity"} THEN {"security"} ELSE {}) \cup
    (IF step \in {"releaseLock", "closed"} THEN {"registry"} ELSE {}) \cup
    (IF step = "closed" THEN {"lock"} ELSE {})

(* The parts of the invariant of a host with attributes s; "mine": it      *)
(* holds the lock byte; "published": the registry names its run.           *)
Flagged(s) ==
    /\ s.server # "none" => "server" \in s.own
    /\ s.work > 0 => "executors" \in s.own
    /\ s.request # "none" => s.server # "none"
    /\ s.request \in {"preparing", "committing"} => s.writers > 0

Owned(s, mine) ==
    /\ Active(s) => mine
    /\ mine => "lock" \in s.own

Reported(s, published) ==
    /\ s.state = "STOPPED" => s.pc = "idle" /\ s.own = {}
    /\ s.state = "READY" => s.pc = "idle" /\ published
    /\ s.pc \in {"probe", "ready"} => published

Closed(s) ==
    /\ s.pc \in CloseSteps \ {"quiesce"} => ~s.admits /\ ~s.accepts
    /\ s.cleanup # "retain" =>
          /\ s.pc \in AfterServer => s.server = "none" /\ "server" \notin s.own
          /\ s.pc \in AfterWork => s.work = 0
          /\ s.pc \in AfterGate => s.writers = 0
    /\ s.cleanup = "ok" => s.own \cap GivenBack(s.pc) = {}

Safe(s, mine, published) ==
    Flagged(s) /\ Owned(s, mine) /\ Reported(s, published) /\ Closed(s)

HostInv ==
    \A h \in Hosts : Safe(host[h], osLock = h, registry = <<h, host[h].run>>)

Inv == TypeOK /\ HostInv

-----------------------------------------------------------------------------
(* A step of one host that keeps its own part keeps everybody's: the lock  *)
(* changes hands only through nobody, and only the holder publishes.       *)
LEMMA Lift ==
    ASSUME Inv, NEW h \in Hosts, NEW r \in Host, Becomes(h, r),
           Safe(r, osLock' = h, registry' = <<h, r.run>>),
           osLock' \in {h, None, osLock}, osLock' # osLock => osLock \in {h, None},
           \/ registry' = registry
           \/ registry' = None /\ registry = <<h, r.run>>
           \/ registry' = <<h, r.run>> /\ osLock = h,
           faults' \in Nat
    PROVE  Inv'
<1>1. host'[h] = r /\ \A g \in Hosts \ {h} : host'[g] = host[g]
  BY DEF Inv, TypeOK, Becomes
<1>2. TypeOK'
  <2>1. host' \in [Hosts -> Host]
    BY DEF Inv, TypeOK, Becomes
  <2>2. r.run \in Nat
    BY DEF Host
  <2>3. osLock' \in Hosts \cup {None} /\ registry' \in (Hosts \X Nat) \cup {None}
    BY <2>2 DEF Inv, TypeOK
  <2> QED BY <2>1, <2>3 DEF TypeOK
<1>3. ASSUME NEW g \in Hosts, g # h
      PROVE  Safe(host'[g], osLock' = g, registry' = <<g, host'[g].run>>)
  <2>1. Safe(host[g], osLock = g, registry = <<g, host[g].run>>)
    BY DEF Inv, HostInv
  <2>2. (osLock' = g) <=> (osLock = g)
    BY <1>3, HostAssumption
  <2>3. (registry = <<g, host[g].run>> /\ osLock = g) => registry' = <<g, host[g].run>>
    BY <1>3
  <2>4. Owned(host[g], osLock' = g) /\ Flagged(host[g]) /\ Closed(host[g])
    BY <2>1, <2>2 DEF Safe, Owned
  <2>5. Reported(host[g], registry' = <<g, host[g].run>>)
    BY <2>1, <2>3 DEF Safe, Owned, Reported, Active, LockedSteps
  <2> QED BY <1>1, <1>3, <2>4, <2>5 DEF Safe
<1>4. HostInv'
  BY <1>1, <1>3 DEF HostInv
<1> QED BY <1>2, <1>4 DEF Inv

(* The common case: only the host itself moves. *)
LEMMA LiftLocal ==
    ASSUME Inv, NEW h \in Hosts, NEW r \in Host, Becomes(h, r),
           UNCHANGED <<osLock, registry>>, faults' \in Nat,
           Safe(r, osLock = h, registry = <<h, r.run>>)
    PROVE  Inv'
BY Lift

(* What is known of the host that moves. *)
LEMMA Known ==
    ASSUME Inv, NEW h \in Hosts
    PROVE  /\ host[h] \in Host
           /\ Safe(host[h], osLock = h, registry = <<h, host[h].run>>)
BY DEF Inv, TypeOK, HostInv

-----------------------------------------------------------------------------
(* Steps that move nothing but the host itself. *)

(* The steps of start() that touch neither the lock nor the registry. *)
LEMMA StartLocalInv ==
    ASSUME Inv, NEW h \in Hosts,
           \/ Start(h)
           \/ StartPrepare(h)
           \/ StartMigrate(h)
           \/ StartVerify(h)
           \/ StartReconcile(h)
           \/ StartRequestExecutor(h)
           \/ StartBackgroundExecutor(h)
           \/ StartLoopback(h)
           \/ StartSecurity(h)
           \/ StartServer(h)
           \/ StartProbe(h)
           \/ StartReady(h)
           \/ StartFails(h)
    PROVE  Inv'
<1> USE DEF Safe, Flagged, Owned, Reported, Closed, Active, GivenBack, Steps, HostStates,
            UnlockedSteps, LockedSteps, ShutdownSteps, CloseSteps, AfterServer, AfterWork,
            AfterGate, At, Resources
<1>0. PICK s \in Host : s = host[h] /\ Safe(s, osLock = h, registry = <<h, s.run>>)
  BY Known
<1>1. CASE Start(h)
  <2> DEFINE r == [s EXCEPT !.pc = "prepare", !.caller = "start", !.state = "STARTING",
                            !.run = @ + 1, !.told = FALSE]
  <2>1. Becomes(h, r) /\ UNCHANGED <<osLock, registry>> /\ faults' \in Nat
    BY <1>0, <1>1 DEF Start, Fault, Inv, TypeOK
  <2>2. r \in Host
    <3>1. s.run + 1 \in Nat
      BY <1>0 DEF Host
    <3>2. "prepare" \in Steps
      OBVIOUS
    <3>3. "STARTING" \in HostStates
      OBVIOUS
    <3> HIDE DEF HostStates, Resources, Steps, UnlockedSteps, LockedSteps, ShutdownSteps,
                 CloseSteps
    <3> QED BY <3>1, <3>2, <3>3 DEF Host
  <2>3. Safe(r, osLock = h, registry = <<h, r.run>>)
    BY <1>0, <1>1, <2>2 DEF Start, Host
  <2> HIDE DEF r
  <2> QED BY <2>1, <2>2, <2>3, LiftLocal
<1>2. CASE StartPrepare(h)
  <2> DEFINE r == [s EXCEPT !.pc = "lock"]
  <2>1. Becomes(h, r) /\ UNCHANGED <<osLock, registry>> /\ faults' \in Nat
    BY <1>0, <1>2 DEF StartPrepare, Fault, Inv, TypeOK
  <2>2. r \in Host
    <3>1. "lock" \in Steps
      OBVIOUS
    <3> HIDE DEF HostStates, Resources, Steps, UnlockedSteps, LockedSteps, ShutdownSteps,
                 CloseSteps
    <3> QED BY <3>1 DEF Host
  <2>3. Safe(r, osLock = h, registry = <<h, r.run>>)
    BY <1>0, <1>2, <2>2 DEF StartPrepare, Host
  <2> HIDE DEF r
  <2> QED BY <2>1, <2>2, <2>3, LiftLocal
<1>3. CASE StartMigrate(h)
  <2> DEFINE r == [s EXCEPT !.pc = "verify", !.state = "VERIFYING"]
  <2>1. Becomes(h, r) /\ UNCHANGED <<osLock, registry>> /\ faults' \in Nat
    BY <1>0, <1>3 DEF StartMigrate, Fault, Inv, TypeOK
  <2>2. r \in Host
    <3>1. "verify" \in Steps
      OBVIOUS
    <3>2. "VERIFYING" \in HostStates
      OBVIOUS
    <3> HIDE DEF HostStates, Resources, Steps, UnlockedSteps, LockedSteps, ShutdownSteps,
                 CloseSteps
    <3> QED BY <3>1, <3>2 DEF Host
  <2>3. Safe(r, osLock = h, registry = <<h, r.run>>)
    BY <1>0, <1>3, <2>2 DEF StartMigrate, Host
  <2> HIDE DEF r
  <2> QED BY <2>1, <2>2, <2>3, LiftLocal
<1>4. CASE StartVerify(h)
  <2> DEFINE r == [s EXCEPT !.pc = "reconcile", !.admits = TRUE]
  <2>1. Becomes(h, r) /\ UNCHANGED <<osLock, registry>> /\ faults' \in Nat
    BY <1>0, <1>4 DEF StartVerify, Fault, Inv, TypeOK
  <2>2. r \in Host
    <3>1. "reconcile" \in Steps
      OBVIOUS
    <3> HIDE DEF HostStates, Resources, Steps, UnlockedSteps, LockedSteps, ShutdownSteps,
                 CloseSteps
    <3> QED BY <3>1 DEF Host
  <2>3. Safe(r, osLock = h, registry = <<h, r.run>>)
    BY <1>0, <1>4, <2>2 DEF StartVerify, Host
  <2> HIDE DEF r
  <2> QED BY <2>1, <2>2, <2>3, LiftLocal
<1>5. CASE StartReconcile(h)
  <2> DEFINE r == [s EXCEPT !.pc = "requestExecutor"]
  <2>1. Becomes(h, r) /\ UNCHANGED <<osLock, registry>> /\ faults' \in Nat
    BY <1>0, <1>5 DEF StartReconcile, Fault, Inv, TypeOK
  <2>2. r \in Host
    <3>1. "requestExecutor" \in Steps
      OBVIOUS
    <3>2. {"executors", "loopback", "server", "security"} \subseteq Resources
      OBVIOUS
    <3> HIDE DEF HostStates, Resources, Steps, UnlockedSteps, LockedSteps, ShutdownSteps,
                 CloseSteps
    <3> QED BY <3>1, <3>2 DEF Host
  <2>3. Safe(r, osLock = h, registry = <<h, r.run>>)
    BY <1>0, <1>5, <2>2 DEF StartReconcile, Host
  <2> HIDE DEF r
  <2> QED BY <2>1, <2>2, <2>3, LiftLocal
<1>6. CASE StartRequestExecutor(h)
  <2> DEFINE r == [s EXCEPT !.pc = "backgroundExecutor", !.own = @ \cup {"executors"}, !.accepts = TRUE]
  <2>1. Becomes(h, r) /\ UNCHANGED <<osLock, registry>> /\ faults' \in Nat
    BY <1>0, <1>6 DEF StartRequestExecutor, Fault, Inv, TypeOK
  <2>2. r \in Host
    <3>1. "backgroundExecutor" \in Steps
      OBVIOUS
    <3>2. {"executors", "loopback", "server", "security"} \subseteq Resources
      OBVIOUS
    <3> HIDE DEF HostStates, Resources, Steps, UnlockedSteps, LockedSteps, ShutdownSteps,
                 CloseSteps
    <3> QED BY <3>1, <3>2 DEF Host
  <2>3. Safe(r, osLock = h, registry = <<h, r.run>>)
    BY <1>0, <1>6, <2>2 DEF StartRequestExecutor, Host
  <2> HIDE DEF r
  <2> QED BY <2>1, <2>2, <2>3, LiftLocal
<1>6a. CASE StartBackgroundExecutor(h)
  <2> DEFINE r == [s EXCEPT !.pc = "bind"]
  <2>1. Becomes(h, r) /\ UNCHANGED <<osLock, registry>> /\ faults' \in Nat
    BY <1>0, <1>6a DEF StartBackgroundExecutor, Fault, Inv, TypeOK
  <2>2. r \in Host
    <3>1. "bind" \in Steps
      OBVIOUS
    <3>2. {"executors", "loopback", "server", "security"} \subseteq Resources
      OBVIOUS
    <3> HIDE DEF HostStates, Resources, Steps, UnlockedSteps, LockedSteps, ShutdownSteps,
                 CloseSteps
    <3> QED BY <3>1, <3>2 DEF Host
  <2>3. Safe(r, osLock = h, registry = <<h, r.run>>)
    BY <1>0, <1>6a, <2>2 DEF StartBackgroundExecutor, Host
  <2> HIDE DEF r
  <2> QED BY <2>1, <2>2, <2>3, LiftLocal
<1>6b. CASE StartLoopback(h)
  <2> DEFINE r == [s EXCEPT !.pc = "security", !.own = @ \cup {"loopback"}]
  <2>1. Becomes(h, r) /\ UNCHANGED <<osLock, registry>> /\ faults' \in Nat
    BY <1>0, <1>6b DEF StartLoopback, Fault, Inv, TypeOK
  <2>2. r \in Host
    <3>1. "security" \in Steps
      OBVIOUS
    <3>2. {"executors", "loopback", "server", "security"} \subseteq Resources
      OBVIOUS
    <3> HIDE DEF HostStates, Resources, Steps, UnlockedSteps, LockedSteps, ShutdownSteps,
                 CloseSteps
    <3> QED BY <3>1, <3>2 DEF Host
  <2>3. Safe(r, osLock = h, registry = <<h, r.run>>)
    BY <1>0, <1>6b, <2>2 DEF StartLoopback, Host
  <2> HIDE DEF r
  <2> QED BY <2>1, <2>2, <2>3, LiftLocal
<1>7. CASE StartSecurity(h)
  <2> DEFINE r == [s EXCEPT !.pc = "listen", !.own = @ \cup {"security"}]
  <2>1. Becomes(h, r) /\ UNCHANGED <<osLock, registry>> /\ faults' \in Nat
    BY <1>0, <1>7 DEF StartSecurity, Fault, Inv, TypeOK
  <2>2. r \in Host
    <3>1. "listen" \in Steps
      OBVIOUS
    <3>2. {"executors", "loopback", "server", "security"} \subseteq Resources
      OBVIOUS
    <3> HIDE DEF HostStates, Resources, Steps, UnlockedSteps, LockedSteps, ShutdownSteps,
                 CloseSteps
    <3> QED BY <3>1, <3>2 DEF Host
  <2>3. Safe(r, osLock = h, registry = <<h, r.run>>)
    BY <1>0, <1>7, <2>2 DEF StartSecurity, Host
  <2> HIDE DEF r
  <2> QED BY <2>1, <2>2, <2>3, LiftLocal
<1>8. CASE StartServer(h)
  <2> DEFINE r == [s EXCEPT !.pc = "publish", !.state = "LISTENING_NOT_READY",
                            !.own = @ \cup {"server"}, !.server = "serving"]
  <2>1. Becomes(h, r) /\ UNCHANGED <<osLock, registry>> /\ faults' \in Nat
    BY <1>0, <1>8 DEF StartServer, Fault, Inv, TypeOK
  <2>2. r \in Host
    <3>1. "publish" \in Steps
      OBVIOUS
    <3>2. "LISTENING_NOT_READY" \in HostStates
      OBVIOUS
    <3>3. {"executors", "loopback", "server", "security"} \subseteq Resources
      OBVIOUS
    <3> HIDE DEF HostStates, Resources, Steps, UnlockedSteps, LockedSteps, ShutdownSteps,
                 CloseSteps
    <3> QED BY <3>1, <3>2, <3>3 DEF Host
  <2>3. Safe(r, osLock = h, registry = <<h, r.run>>)
    BY <1>0, <1>8, <2>2 DEF StartServer, Host
  <2> HIDE DEF r
  <2> QED BY <2>1, <2>2, <2>3, LiftLocal
<1>9. CASE StartProbe(h)
  <2> DEFINE r == [s EXCEPT !.pc = "ready"]
  <2>1. Becomes(h, r) /\ UNCHANGED <<osLock, registry>> /\ faults' \in Nat
    BY <1>0, <1>9 DEF StartProbe, Fault, Inv, TypeOK
  <2>2. r \in Host
    <3>1. "ready" \in Steps
      OBVIOUS
    <3> HIDE DEF HostStates, Resources, Steps, UnlockedSteps, LockedSteps, ShutdownSteps,
                 CloseSteps
    <3> QED BY <3>1 DEF Host
  <2>3. Safe(r, osLock = h, registry = <<h, r.run>>)
    BY <1>0, <1>9, <2>2 DEF StartProbe, Host
  <2> HIDE DEF r
  <2> QED BY <2>1, <2>2, <2>3, LiftLocal
<1>10. CASE StartReady(h)
  <2> DEFINE r == [s EXCEPT !.pc = "idle", !.caller = "none", !.state = "READY"]
  <2>1. Becomes(h, r) /\ UNCHANGED <<osLock, registry>> /\ faults' \in Nat
    BY <1>0, <1>10 DEF StartReady, Fault, Inv, TypeOK
  <2>2. r \in Host
    <3>1. "idle" \in Steps
      OBVIOUS
    <3>2. "READY" \in HostStates
      OBVIOUS
    <3> HIDE DEF HostStates, Resources, Steps, UnlockedSteps, LockedSteps, ShutdownSteps,
                 CloseSteps
    <3> QED BY <3>1, <3>2 DEF Host
  <2>3. Safe(r, osLock = h, registry = <<h, r.run>>)
    BY <1>0, <1>10, <2>2 DEF StartReady, Host
  <2> HIDE DEF r
  <2> QED BY <2>1, <2>2, <2>3, LiftLocal
<1>11. CASE StartFails(h)
  <2> DEFINE r == [s EXCEPT !.pc = "quiesce", !.state = "FAILED", !.admits = FALSE]
  <2>1. Becomes(h, r) /\ UNCHANGED <<osLock, registry>> /\ faults' \in Nat
    BY <1>0, <1>11 DEF StartFails, Fault, Inv, TypeOK
  <2>2. r \in Host
    <3>1. "quiesce" \in Steps
      OBVIOUS
    <3>2. "FAILED" \in HostStates
      OBVIOUS
    <3> HIDE DEF HostStates, Resources, Steps, UnlockedSteps, LockedSteps, ShutdownSteps,
                 CloseSteps
    <3> QED BY <3>1, <3>2 DEF Host
  <2>3. Safe(r, osLock = h, registry = <<h, r.run>>)
    BY <1>0, <1>11, <2>2 DEF StartFails, Host
  <2> HIDE DEF r
  <2> QED BY <2>1, <2>2, <2>3, LiftLocal
<1> QED BY <1>1, <1>2, <1>3, <1>4, <1>5, <1>6, <1>6a, <1>6b, <1>7, <1>8, <1>9, <1>10, <1>11

(* shutdown() up to the cleanup, and the call that retries a cleanup. *)
LEMMA ShutdownInv ==
    ASSUME Inv, NEW h \in Hosts,
           \/ Shutdown(h)
           \/ GiveUp(h)
           \/ DrainWrites(h)
           \/ DrainWork(h)
           \/ Checkpoint(h)
           \/ RetryFailedCleanup(h)
    PROVE  Inv'
<1> USE DEF Safe, Flagged, Owned, Reported, Closed, Active, GivenBack, Steps, HostStates,
            UnlockedSteps, LockedSteps, ShutdownSteps, CloseSteps, AfterServer, AfterWork,
            AfterGate, At, Resources
<1>0. PICK s \in Host : s = host[h] /\ Safe(s, osLock = h, registry = <<h, s.run>>)
  BY Known
<1>1. CASE Shutdown(h)
  <2> DEFINE r == [s EXCEPT !.pc = "drainWrites", !.caller = "shutdown",
                            !.state = "QUIESCING",
                            !.admits = IF s.state = "QUIESCING" THEN @ ELSE FALSE,
                            !.accepts = IF s.state = "QUIESCING" THEN @ ELSE FALSE]
  <2>1. Becomes(h, r) /\ UNCHANGED <<osLock, registry>> /\ faults' \in Nat
    BY <1>0, <1>1 DEF Shutdown, Fault, Inv, TypeOK
  <2>2. r \in Host
    <3>1. "drainWrites" \in Steps
      OBVIOUS
    <3>2. "QUIESCING" \in HostStates
      OBVIOUS
    <3> HIDE DEF HostStates, Resources, Steps, UnlockedSteps, LockedSteps, ShutdownSteps,
                 CloseSteps
    <3> QED BY <3>1, <3>2 DEF Host
  <2>3. Safe(r, osLock = h, registry = <<h, r.run>>)
    BY <1>0, <1>1, <2>2 DEF Shutdown, Host
  <2> HIDE DEF r
  <2> QED BY <2>1, <2>2, <2>3, LiftLocal
<1>2. CASE GiveUp(h)
  <2> DEFINE r == [s EXCEPT !.pc = "idle", !.caller = "none"]
  <2>1. Becomes(h, r) /\ UNCHANGED <<osLock, registry>> /\ faults' \in Nat
    BY <1>0, <1>2 DEF GiveUp, Fault, Inv, TypeOK
  <2>2. r \in Host
    <3>1. "idle" \in Steps
      OBVIOUS
    <3> HIDE DEF HostStates, Resources, Steps, UnlockedSteps, LockedSteps, ShutdownSteps,
                 CloseSteps
    <3> QED BY <3>1 DEF Host
  <2>3. Safe(r, osLock = h, registry = <<h, r.run>>)
    BY <1>0, <1>2, <2>2 DEF GiveUp, Host
  <2> HIDE DEF r
  <2> QED BY <2>1, <2>2, <2>3, LiftLocal
<1>3. CASE DrainWrites(h)
  <2> DEFINE r == [s EXCEPT !.pc = "drainWork", !.accepts = FALSE]
  <2>1. Becomes(h, r) /\ UNCHANGED <<osLock, registry>> /\ faults' \in Nat
    BY <1>0, <1>3 DEF DrainWrites, Fault, Inv, TypeOK
  <2>2. r \in Host
    <3>1. "drainWork" \in Steps
      OBVIOUS
    <3> HIDE DEF HostStates, Resources, Steps, UnlockedSteps, LockedSteps, ShutdownSteps,
                 CloseSteps
    <3> QED BY <3>1 DEF Host
  <2>3. Safe(r, osLock = h, registry = <<h, r.run>>)
    BY <1>0, <1>3, <2>2 DEF DrainWrites, Host
  <2> HIDE DEF r
  <2> QED BY <2>1, <2>2, <2>3, LiftLocal
<1>4. CASE DrainWork(h)
  <2> DEFINE r == [s EXCEPT !.pc = "checkpoint"]
  <2>1. Becomes(h, r) /\ UNCHANGED <<osLock, registry>> /\ faults' \in Nat
    BY <1>0, <1>4 DEF DrainWork, Fault, Inv, TypeOK
  <2>2. r \in Host
    <3>1. "checkpoint" \in Steps
      OBVIOUS
    <3> HIDE DEF HostStates, Resources, Steps, UnlockedSteps, LockedSteps, ShutdownSteps,
                 CloseSteps
    <3> QED BY <3>1 DEF Host
  <2>3. Safe(r, osLock = h, registry = <<h, r.run>>)
    BY <1>0, <1>4, <2>2 DEF DrainWork, Host
  <2> HIDE DEF r
  <2> QED BY <2>1, <2>2, <2>3, LiftLocal
<1>5. CASE Checkpoint(h)
  <2> DEFINE r == [s EXCEPT !.pc = "quiesce"]
  <2>1. Becomes(h, r) /\ UNCHANGED <<osLock, registry>> /\ faults' \in Nat
    BY <1>0, <1>5 DEF Checkpoint, Fault, Inv, TypeOK
  <2>2. r \in Host
    <3>1. "quiesce" \in Steps
      OBVIOUS
    <3> HIDE DEF HostStates, Resources, Steps, UnlockedSteps, LockedSteps, ShutdownSteps,
                 CloseSteps
    <3> QED BY <3>1 DEF Host
  <2>3. Safe(r, osLock = h, registry = <<h, r.run>>)
    BY <1>0, <1>5, <2>2 DEF Checkpoint, Host
  <2> HIDE DEF r
  <2> QED BY <2>1, <2>2, <2>3, LiftLocal
<1>6. CASE RetryFailedCleanup(h)
  <2> DEFINE r == [s EXCEPT !.pc = "quiesce", !.caller = "retry"]
  <2>1. Becomes(h, r) /\ UNCHANGED <<osLock, registry>> /\ faults' \in Nat
    BY <1>0, <1>6 DEF RetryFailedCleanup, Fault, Inv, TypeOK
  <2>2. r \in Host
    <3>1. "quiesce" \in Steps
      OBVIOUS
    <3> HIDE DEF HostStates, Resources, Steps, UnlockedSteps, LockedSteps, ShutdownSteps,
                 CloseSteps
    <3> QED BY <3>1 DEF Host
  <2>3. Safe(r, osLock = h, registry = <<h, r.run>>)
    BY <1>0, <1>6, <2>2 DEF RetryFailedCleanup, Host
  <2> HIDE DEF r
  <2> QED BY <2>1, <2>2, <2>3, LiftLocal
<1> QED BY <1>1, <1>2, <1>3, <1>4, <1>5, <1>6

(* A shutdown request, at any moment of the above. *)
LEMMA RequestInv ==
    ASSUME Inv, NEW h \in Hosts,
           \/ RequestShutdown(h)
           \/ RequestPrepare(h)
           \/ RequestCommit(h)
           \/ RequestFails(h)
           \/ RequestCheck(h)
           \/ RequestGate(h)
           \/ RequestState(h)
           \/ RequestDone(h)
    PROVE  Inv'
<1> USE DEF Safe, Flagged, Owned, Reported, Closed, Active, GivenBack, Steps, HostStates,
            UnlockedSteps, LockedSteps, ShutdownSteps, CloseSteps, AfterServer, AfterWork,
            AfterGate, At, Resources
<1>0. PICK s \in Host : s = host[h] /\ Safe(s, osLock = h, registry = <<h, s.run>>)
  BY Known
<1>1. CASE RequestShutdown(h)
  <2> DEFINE r == [s EXCEPT !.request = "preparing", !.writers = @ + 1]
  <2>1. Becomes(h, r) /\ UNCHANGED <<osLock, registry>> /\ faults' \in Nat
    BY <1>0, <1>1 DEF RequestShutdown, Quiescable, Fault, Inv, TypeOK
  <2>2. r \in Host
    <3>1. s.writers + 1 \in Nat
      BY <1>0 DEF Host
    <3> HIDE DEF HostStates, Resources, Steps, UnlockedSteps, LockedSteps, ShutdownSteps,
                 CloseSteps
    <3> QED BY <3>1 DEF Host
  <2>3. Safe(r, osLock = h, registry = <<h, r.run>>)
    BY <1>0, <1>1, <2>2 DEF RequestShutdown, Quiescable, Host
  <2> HIDE DEF r
  <2> QED BY <2>1, <2>2, <2>3, LiftLocal
<1>2. CASE RequestPrepare(h)
  <2> DEFINE r == [s EXCEPT !.request = "committing"]
  <2>1. Becomes(h, r) /\ UNCHANGED <<osLock, registry>> /\ faults' \in Nat
    BY <1>0, <1>2 DEF RequestPrepare, Quiescable, Fault, Inv, TypeOK
  <2>2. r \in Host
    <3> HIDE DEF HostStates, Resources, Steps, UnlockedSteps, LockedSteps, ShutdownSteps,
                 CloseSteps
    <3> QED BY DEF Host
  <2>3. Safe(r, osLock = h, registry = <<h, r.run>>)
    BY <1>0, <1>2, <2>2 DEF RequestPrepare, Quiescable, Host
  <2> HIDE DEF r
  <2> QED BY <2>1, <2>2, <2>3, LiftLocal
<1>3. CASE RequestCommit(h)
  <2> DEFINE r == [s EXCEPT !.request = "accepted", !.writers = @ - 1]
  <2>1. Becomes(h, r) /\ UNCHANGED <<osLock, registry>> /\ faults' \in Nat
    BY <1>0, <1>3 DEF RequestCommit, Fault, Inv, TypeOK
  <2>2. r \in Host
    <3>1. s.writers - 1 \in Nat
      BY <1>0, <1>3 DEF RequestCommit, Host
    <3> HIDE DEF HostStates, Resources, Steps, UnlockedSteps, LockedSteps, ShutdownSteps,
                 CloseSteps
    <3> QED BY <3>1 DEF Host
  <2>3. Safe(r, osLock = h, registry = <<h, r.run>>)
    BY <1>0, <1>3, <2>2 DEF RequestCommit, Host
  <2> HIDE DEF r
  <2> QED BY <2>1, <2>2, <2>3, LiftLocal
<1>4. CASE RequestFails(h)
  <2> DEFINE r == [s EXCEPT !.request = "none", !.writers = @ - 1]
  <2>1. Becomes(h, r) /\ UNCHANGED <<osLock, registry>> /\ faults' \in Nat
    BY <1>0, <1>4 DEF RequestFails, Fault, Inv, TypeOK
  <2>2. r \in Host
    <3>1. s.writers - 1 \in Nat
      BY <1>0, <1>4 DEF RequestFails, Host
    <3> HIDE DEF HostStates, Resources, Steps, UnlockedSteps, LockedSteps, ShutdownSteps,
                 CloseSteps
    <3> QED BY <3>1 DEF Host
  <2>3. Safe(r, osLock = h, registry = <<h, r.run>>)
    BY <1>0, <1>4, <2>2 DEF RequestFails, Host
  <2> HIDE DEF r
  <2> QED BY <2>1, <2>2, <2>3, LiftLocal
<1>5. CASE RequestCheck(h)
  <2> DEFINE r == [s EXCEPT !.request = IF s.state \in {"READY", "LISTENING_NOT_READY"} THEN "checked" ELSE "none",
                            !.told = @ \/ s.state = "QUIESCING"]
  <2>1. Becomes(h, r) /\ UNCHANGED <<osLock, registry>> /\ faults' \in Nat
    BY <1>0, <1>5 DEF RequestCheck, Quiescable, Fault, Inv, TypeOK
  <2>2. r \in Host
    <3> HIDE DEF HostStates, Resources, Steps, UnlockedSteps, LockedSteps, ShutdownSteps,
                 CloseSteps
    <3> QED BY DEF Host
  <2>3. Safe(r, osLock = h, registry = <<h, r.run>>)
    BY <1>0, <1>5, <2>2 DEF RequestCheck, Quiescable, Host
  <2> HIDE DEF r
  <2> QED BY <2>1, <2>2, <2>3, LiftLocal
<1>6. CASE RequestGate(h)
  <2> DEFINE r == [s EXCEPT !.request = "closing", !.admits = FALSE]
  <2>1. Becomes(h, r) /\ UNCHANGED <<osLock, registry>> /\ faults' \in Nat
    BY <1>0, <1>6 DEF RequestGate, Fault, Inv, TypeOK
  <2>2. r \in Host
    <3> HIDE DEF HostStates, Resources, Steps, UnlockedSteps, LockedSteps, ShutdownSteps,
                 CloseSteps
    <3> QED BY DEF Host
  <2>3. Safe(r, osLock = h, registry = <<h, r.run>>)
    BY <1>0, <1>6, <2>2 DEF RequestGate, Host
  <2> HIDE DEF r
  <2> QED BY <2>1, <2>2, <2>3, LiftLocal
<1>7. CASE RequestState(h)
  <2> DEFINE r == [s EXCEPT !.request = "quiescing", !.state = "QUIESCING"]
  <2>1. Becomes(h, r) /\ UNCHANGED <<osLock, registry>> /\ faults' \in Nat
    BY <1>0, <1>7 DEF RequestState, Fault, Inv, TypeOK
  <2>2. r \in Host
    <3>1. "QUIESCING" \in HostStates
      OBVIOUS
    <3> HIDE DEF HostStates, Resources, Steps, UnlockedSteps, LockedSteps, ShutdownSteps,
                 CloseSteps
    <3> QED BY <3>1 DEF Host
  <2>3. Safe(r, osLock = h, registry = <<h, r.run>>)
    BY <1>0, <1>7, <2>2 DEF RequestState, Host
  <2> HIDE DEF r
  <2> QED BY <2>1, <2>2, <2>3, LiftLocal
<1>8. CASE RequestDone(h)
  <2> DEFINE r == [s EXCEPT !.request = "none", !.accepts = FALSE, !.told = TRUE]
  <2>1. Becomes(h, r) /\ UNCHANGED <<osLock, registry>> /\ faults' \in Nat
    BY <1>0, <1>8 DEF RequestDone, Fault, Inv, TypeOK
  <2>2. r \in Host
    <3> HIDE DEF HostStates, Resources, Steps, UnlockedSteps, LockedSteps, ShutdownSteps,
                 CloseSteps
    <3> QED BY DEF Host
  <2>3. Safe(r, osLock = h, registry = <<h, r.run>>)
    BY <1>0, <1>8, <2>2 DEF RequestDone, Host
  <2> HIDE DEF r
  <2> QED BY <2>1, <2>2, <2>3, LiftLocal
<1> QED BY <1>1, <1>2, <1>3, <1>4, <1>5, <1>6, <1>7, <1>8

(* Writers, futures and the server thread. *)
LEMMA WorkInv ==
    ASSUME Inv, NEW h \in Hosts,
           \/ WriterEnters(h)
           \/ WriterLeaves(h)
           \/ WorkStarts(h)
           \/ WorkEnds(h)
           \/ ServerExits(h)
           \/ ServerDies(h)
    PROVE  Inv'
<1> USE DEF Safe, Flagged, Owned, Reported, Closed, Active, GivenBack, Steps, HostStates,
            UnlockedSteps, LockedSteps, ShutdownSteps, CloseSteps, AfterServer, AfterWork,
            AfterGate, At, Resources
<1>0. PICK s \in Host : s = host[h] /\ Safe(s, osLock = h, registry = <<h, s.run>>)
  BY Known
<1>1. CASE WriterEnters(h)
  <2> DEFINE r == [s EXCEPT !.writers = @ + 1]
  <2>1. Becomes(h, r) /\ UNCHANGED <<osLock, registry>> /\ faults' \in Nat
    BY <1>0, <1>1 DEF WriterEnters, Fault, Inv, TypeOK
  <2>2. r \in Host
    <3>1. s.writers + 1 \in Nat
      BY <1>0 DEF Host
    <3> HIDE DEF HostStates, Resources, Steps, UnlockedSteps, LockedSteps, ShutdownSteps,
                 CloseSteps
    <3> QED BY <3>1 DEF Host
  <2>3. Safe(r, osLock = h, registry = <<h, r.run>>)
    BY <1>0, <1>1, <2>2 DEF WriterEnters, Host
  <2> HIDE DEF r
  <2> QED BY <2>1, <2>2, <2>3, LiftLocal
<1>2. CASE WriterLeaves(h)
  <2> DEFINE r == [s EXCEPT !.writers = @ - 1]
  <2>1. Becomes(h, r) /\ UNCHANGED <<osLock, registry>> /\ faults' \in Nat
    BY <1>0, <1>2 DEF WriterLeaves, Fault, Inv, TypeOK
  <2>2. r \in Host
    <3>1. s.writers - 1 \in Nat
      BY <1>0, <1>2 DEF WriterLeaves, Host
    <3> HIDE DEF HostStates, Resources, Steps, UnlockedSteps, LockedSteps, ShutdownSteps,
                 CloseSteps
    <3> QED BY <3>1 DEF Host
  <2>3. Safe(r, osLock = h, registry = <<h, r.run>>)
    BY <1>0, <1>2, <2>2 DEF WriterLeaves, Host
  <2> HIDE DEF r
  <2> QED BY <2>1, <2>2, <2>3, LiftLocal
<1>3. CASE WorkStarts(h)
  <2> DEFINE r == [s EXCEPT !.work = @ + 1]
  <2>1. Becomes(h, r) /\ UNCHANGED <<osLock, registry>> /\ faults' \in Nat
    BY <1>0, <1>3 DEF WorkStarts, Fault, Inv, TypeOK
  <2>2. r \in Host
    <3>1. s.work + 1 \in Nat
      BY <1>0 DEF Host
    <3> HIDE DEF HostStates, Resources, Steps, UnlockedSteps, LockedSteps, ShutdownSteps,
                 CloseSteps
    <3> QED BY <3>1 DEF Host
  <2>3. Safe(r, osLock = h, registry = <<h, r.run>>)
    BY <1>0, <1>3, <2>2 DEF WorkStarts, Host
  <2> HIDE DEF r
  <2> QED BY <2>1, <2>2, <2>3, LiftLocal
<1>4. CASE WorkEnds(h)
  <2> DEFINE r == [s EXCEPT !.work = @ - 1]
  <2>1. Becomes(h, r) /\ UNCHANGED <<osLock, registry>> /\ faults' \in Nat
    BY <1>0, <1>4 DEF WorkEnds, Fault, Inv, TypeOK
  <2>2. r \in Host
    <3>1. s.work - 1 \in Nat
      BY <1>0, <1>4 DEF WorkEnds, Host
    <3> HIDE DEF HostStates, Resources, Steps, UnlockedSteps, LockedSteps, ShutdownSteps,
                 CloseSteps
    <3> QED BY <3>1 DEF Host
  <2>3. Safe(r, osLock = h, registry = <<h, r.run>>)
    BY <1>0, <1>4, <2>2 DEF WorkEnds, Host
  <2> HIDE DEF r
  <2> QED BY <2>1, <2>2, <2>3, LiftLocal
<1>5. CASE ServerExits(h)
  <2> DEFINE r == [s EXCEPT !.server = "none"]
  <2>1. Becomes(h, r) /\ UNCHANGED <<osLock, registry>> /\ faults' \in Nat
    BY <1>0, <1>5 DEF ServerExits, Fault, Inv, TypeOK
  <2>2. r \in Host
    <3> HIDE DEF HostStates, Resources, Steps, UnlockedSteps, LockedSteps, ShutdownSteps,
                 CloseSteps
    <3> QED BY DEF Host
  <2>3. Safe(r, osLock = h, registry = <<h, r.run>>)
    BY <1>0, <1>5, <2>2 DEF ServerExits, Host
  <2> HIDE DEF r
  <2> QED BY <2>1, <2>2, <2>3, LiftLocal
<1>6. CASE ServerDies(h)
  <2> DEFINE r == [s EXCEPT !.server = "none"]
  <2>1. Becomes(h, r) /\ UNCHANGED <<osLock, registry>> /\ faults' \in Nat
    BY <1>0, <1>6 DEF ServerDies, Fault, Inv, TypeOK
  <2>2. r \in Host
    <3> HIDE DEF HostStates, Resources, Steps, UnlockedSteps, LockedSteps, ShutdownSteps,
                 CloseSteps
    <3> QED BY DEF Host
  <2>3. Safe(r, osLock = h, registry = <<h, r.run>>)
    BY <1>0, <1>6, <2>2 DEF ServerDies, Host
  <2> HIDE DEF r
  <2> QED BY <2>1, <2>2, <2>3, LiftLocal
<1> QED BY <1>1, <1>2, <1>3, <1>4, <1>5, <1>6
-----------------------------------------------------------------------------
(* Steps that move the lock or the registry, and the cleanup. *)

(* start() gets the lock and publishes; the process dies. *)
LEMMA OwnershipInv ==
    ASSUME Inv, NEW h \in Hosts,
           \/ StartLock(h)
           \/ StartPublish(h)
           \/ Crash(h)
    PROVE  Inv'
<1> USE DEF Safe, Flagged, Owned, Reported, Closed, Active, GivenBack, Steps, HostStates,
            UnlockedSteps, LockedSteps, ShutdownSteps, CloseSteps, AfterServer, AfterWork,
            AfterGate, At, Resources
<1>0. PICK s \in Host : s = host[h] /\ Safe(s, osLock = h, registry = <<h, s.run>>)
  BY Known
<1>1. CASE StartLock(h)
  <2> DEFINE r == [s EXCEPT !.pc = "migrate", !.state = "MIGRATING",
                            !.own = @ \cup {"lock"}]
  <2>1. Becomes(h, r) /\ registry' = registry /\ faults' \in Nat /\ osLock' = h /\ osLock = None
    BY <1>0, <1>1 DEF StartLock, Inv, TypeOK
  <2>2. r \in Host
    <3>1. "migrate" \in Steps
      OBVIOUS
    <3>2. "MIGRATING" \in HostStates /\ "lock" \in Resources
      OBVIOUS
    <3> HIDE DEF HostStates, Resources, Steps, UnlockedSteps, LockedSteps, ShutdownSteps,
                 CloseSteps
    <3> QED BY <3>1, <3>2 DEF Host
  <2>3. Safe(r, osLock' = h, registry' = <<h, r.run>>)
    BY <1>0, <1>1, <2>1, <2>2 DEF StartLock, Host
  <2> HIDE DEF r
  <2> QED BY <2>1, <2>2, <2>3, Lift
<1>2. CASE StartPublish(h)
  <2> DEFINE r == [s EXCEPT !.pc = "probe", !.own = @ \cup {"registry"}]
  <2>1. Becomes(h, r) /\ osLock' = osLock /\ faults' \in Nat /\ registry' = <<h, r.run>>
    BY <1>0, <1>2 DEF StartPublish, Inv, TypeOK, Host
  <2>2. r \in Host
    <3>1. "probe" \in Steps
      OBVIOUS
    <3>2. "registry" \in Resources
      OBVIOUS
    <3> HIDE DEF HostStates, Resources, Steps, UnlockedSteps, LockedSteps, ShutdownSteps,
                 CloseSteps
    <3> QED BY <3>1, <3>2 DEF Host
  <2>3. osLock = h
    BY <1>0, <1>2 DEF StartPublish
  <2>4. Safe(r, osLock' = h, registry' = <<h, r.run>>)
    BY <1>0, <1>2, <2>1, <2>2, <2>3 DEF StartPublish, Host
  <2> HIDE DEF r
  <2> QED BY <2>1, <2>2, <2>3, <2>4, Lift
<1>3. CASE Crash(h)
  <2> DEFINE r == [Stopped EXCEPT !.run = s.run]
  <2>1. Becomes(h, r) /\ registry' = registry /\ faults' \in Nat
        /\ osLock' = IF osLock = h THEN None ELSE osLock
    BY <1>0, <1>3 DEF Crash, Fault, Inv, TypeOK
  <2>2. r \in Host
    <3>1. "idle" \in Steps /\ "STOPPED" \in HostStates
      OBVIOUS
    <3> HIDE DEF HostStates, Resources, Steps, UnlockedSteps, LockedSteps, ShutdownSteps,
                 CloseSteps
    <3> QED BY <3>1 DEF Host, Stopped
  <2>3. osLock' # h
    BY <2>1, HostAssumption
  <2>4. Safe(r, osLock' = h, registry' = <<h, r.run>>)
    BY <2>3 DEF Stopped
  <2> HIDE DEF r
  <2> QED BY <2>1, <2>2, <2>3, <2>4, Lift
<1> QED BY <1>1, <1>2, <1>3

(* The cleanup until nothing that uses the database can start, and what runs is awaited. *)
LEMMA StopInv ==
    ASSUME Inv, NEW h \in Hosts,
           \/ CloseAdmission(h)
           \/ StopServer(h)
           \/ JoinServer(h)
           \/ CloseLoopback(h)
           \/ DrainExecutors(h)
    PROVE  Inv'
<1> USE DEF Safe, Flagged, Owned, Reported, Closed, Active, GivenBack, Steps, HostStates,
            UnlockedSteps, LockedSteps, ShutdownSteps, CloseSteps, AfterServer, AfterWork,
            AfterGate, At, Resources
<1>0. PICK s \in Host : s = host[h] /\ Safe(s, osLock = h, registry = <<h, s.run>>)
  BY Known
<1>1. CASE CloseAdmission(h)
  <2> DEFINE r == [s EXCEPT !.pc = "stopServer", !.cleanup = "ok", !.admits = FALSE,
                            !.accepts = FALSE]
  <2>1. Becomes(h, r) /\ UNCHANGED <<osLock, registry>> /\ faults' \in Nat
    BY <1>0, <1>1 DEF CloseAdmission, Inv, TypeOK
  <2>2. r \in Host
    <3>1. "stopServer" \in Steps
      OBVIOUS
    <3> HIDE DEF HostStates, Resources, Steps, UnlockedSteps, LockedSteps, ShutdownSteps,
                 CloseSteps
    <3> QED BY <3>1 DEF Host
  <2>3. Safe(r, osLock = h, registry = <<h, r.run>>)
    BY <1>0, <1>1, <2>2 DEF CloseAdmission, Host
  <2> HIDE DEF r
  <2> QED BY <2>1, <2>2, <2>3, LiftLocal
<1>2. CASE StopServer(h) /\ "server" \in s.own
  <2> DEFINE r == [s EXCEPT !.pc = "joinServer",
                            !.server = IF @ = "serving" THEN "exiting" ELSE @]
  <2>1. Becomes(h, r) /\ UNCHANGED <<osLock, registry>> /\ faults' \in Nat
    BY <1>0, <1>2 DEF StopServer, Inv, TypeOK
  <2>2. r \in Host
    <3>1. "joinServer" \in Steps
      OBVIOUS
    <3> HIDE DEF HostStates, Resources, Steps, UnlockedSteps, LockedSteps, ShutdownSteps,
                 CloseSteps
    <3> QED BY <3>1 DEF Host
  <2>3. Safe(r, osLock = h, registry = <<h, r.run>>)
    BY <1>0, <1>2, <2>2 DEF StopServer, Host
  <2> HIDE DEF r
  <2> QED BY <2>1, <2>2, <2>3, LiftLocal
<1>3. CASE StopServer(h) /\ "server" \notin s.own
  <2> DEFINE r == [s EXCEPT !.pc = "closeLoopback"]
  <2>1. Becomes(h, r) /\ UNCHANGED <<osLock, registry>> /\ faults' \in Nat
    BY <1>0, <1>3 DEF StopServer, Inv, TypeOK
  <2>2. r \in Host
    <3>1. "closeLoopback" \in Steps
      OBVIOUS
    <3> HIDE DEF HostStates, Resources, Steps, UnlockedSteps, LockedSteps, ShutdownSteps,
                 CloseSteps
    <3> QED BY <3>1 DEF Host
  <2>3. Safe(r, osLock = h, registry = <<h, r.run>>)
    BY <1>0, <1>3, <2>2 DEF StopServer, Host
  <2> HIDE DEF r
  <2> QED BY <2>1, <2>2, <2>3, LiftLocal
<1>4. CASE JoinServer(h)
  <2>1. PICK own \in SUBSET s.own, v \in {"ok", "failed", "retain"} :
          /\ Closing(h, "closeLoopback", own, v)
          /\ UNCHANGED <<osLock, registry>>
          /\ faults' \in Nat
          /\ s.server # "none" => own = s.own /\ v = "retain"
          /\ s.server = "none" => own = s.own \ {"server"}
    BY <1>0, <1>4 DEF JoinServer, Fault, Retains, Inv, TypeOK, Host
  <2> DEFINE r == [s EXCEPT !.pc = "closeLoopback", !.own = own,
                           !.cleanup = IF v = "ok" \/ @ = "retain" THEN @ ELSE v]
  <2>2. r \in Host
    <3>1. "closeLoopback" \in Steps
      OBVIOUS
    <3>2. own \in SUBSET Resources /\ v \in {"ok", "failed", "retain"}
      BY <2>1 DEF Host
    <3> HIDE DEF HostStates, Resources, Steps, UnlockedSteps, LockedSteps, ShutdownSteps,
                 CloseSteps
    <3> QED BY <3>1, <3>2 DEF Host
  <2>3. Becomes(h, r)
    BY <1>0, <2>1 DEF Closing
  <2>4. Safe(r, osLock = h, registry = <<h, r.run>>)
    BY <1>0, <1>4, <2>1, <2>2 DEF JoinServer, Host
  <2> HIDE DEF r
  <2> QED BY <2>1, <2>2, <2>3, <2>4, LiftLocal
<1>5. CASE CloseLoopback(h)
  <2>1. PICK own \in SUBSET s.own, v \in {"ok", "failed", "retain"} :
          /\ Closing(h, "drainExecutors", own, v)
          /\ UNCHANGED <<osLock, registry>>
          /\ faults' \in Nat
          /\ s.own \ {"loopback"} \subseteq own
          /\ v = "ok" => "loopback" \notin own
    BY <1>0, <1>5 DEF CloseLoopback, Fault, Retains, Inv, TypeOK, Host
  <2> DEFINE r == [s EXCEPT !.pc = "drainExecutors", !.own = own,
                           !.cleanup = IF v = "ok" \/ @ = "retain" THEN @ ELSE v]
  <2>2. r \in Host
    <3>1. "drainExecutors" \in Steps
      OBVIOUS
    <3>2. own \in SUBSET Resources /\ v \in {"ok", "failed", "retain"}
      BY <2>1 DEF Host
    <3> HIDE DEF HostStates, Resources, Steps, UnlockedSteps, LockedSteps, ShutdownSteps,
                 CloseSteps
    <3> QED BY <3>1, <3>2 DEF Host
  <2>3. Becomes(h, r)
    BY <1>0, <2>1 DEF Closing
  <2>4. Safe(r, osLock = h, registry = <<h, r.run>>)
    BY <1>0, <1>5, <2>1, <2>2 DEF CloseLoopback, Host
  <2> HIDE DEF r
  <2> QED BY <2>1, <2>2, <2>3, <2>4, LiftLocal
<1>6. CASE DrainExecutors(h)
  <2>1. PICK own \in SUBSET s.own, v \in {"ok", "failed", "retain"} :
          /\ Closing(h, "drainGate", own, v)
          /\ UNCHANGED <<osLock, registry>>
          /\ faults' \in Nat
          /\ s.work = 0 => own = s.own \ {"executors"}
          /\ s.work # 0 => own = s.own /\ v = "retain"
    BY <1>0, <1>6 DEF DrainExecutors, Fault, Retains, Inv, TypeOK, Host
  <2> DEFINE r == [s EXCEPT !.pc = "drainGate", !.own = own,
                           !.cleanup = IF v = "ok" \/ @ = "retain" THEN @ ELSE v]
  <2>2. r \in Host
    <3>1. "drainGate" \in Steps
      OBVIOUS
    <3>2. own \in SUBSET Resources /\ v \in {"ok", "failed", "retain"}
      BY <2>1 DEF Host
    <3> HIDE DEF HostStates, Resources, Steps, UnlockedSteps, LockedSteps, ShutdownSteps,
                 CloseSteps
    <3> QED BY <3>1, <3>2 DEF Host
  <2>3. Becomes(h, r)
    BY <1>0, <2>1 DEF Closing
  <2>4. Safe(r, osLock = h, registry = <<h, r.run>>)
    BY <1>0, <1>6, <2>1, <2>2 DEF DrainExecutors, Host
  <2> HIDE DEF r
  <2> QED BY <2>1, <2>2, <2>3, <2>4, LiftLocal
<1> QED BY <1>1, <1>2, <1>3, <1>4, <1>5, <1>6

(* The rest of the cleanup, down to the release of the lock. *)
LEMMA ReleaseInv ==
    ASSUME Inv, NEW h \in Hosts,
           \/ DrainGate(h)
           \/ CloseSecurity(h)
           \/ RemoveRegistry(h)
           \/ ReleaseLock(h)
           \/ CloseDone(h)
    PROVE  Inv'
<1> USE DEF Safe, Flagged, Owned, Reported, Closed, Active, GivenBack, Steps, HostStates,
            UnlockedSteps, LockedSteps, ShutdownSteps, CloseSteps, AfterServer, AfterWork,
            AfterGate, At, Resources
<1>0. PICK s \in Host : s = host[h] /\ Safe(s, osLock = h, registry = <<h, s.run>>)
  BY Known
<1>1. CASE DrainGate(h)
  <2>1. PICK own \in SUBSET s.own, v \in {"ok", "failed", "retain"} :
          /\ Closing(h, "closeSecurity", own, v)
          /\ UNCHANGED <<osLock, registry>>
          /\ faults' \in Nat
          /\ own = s.own
          /\ v = "retain" <=> s.writers # 0
          /\ v # "failed"
    BY <1>0, <1>1 DEF DrainGate, Fault, Retains, Inv, TypeOK, Host
  <2> DEFINE r == [s EXCEPT !.pc = "closeSecurity", !.own = own,
                           !.cleanup = IF v = "ok" \/ @ = "retain" THEN @ ELSE v]
  <2>2. r \in Host
    <3>1. "closeSecurity" \in Steps
      OBVIOUS
    <3>2. own \in SUBSET Resources /\ v \in {"ok", "failed", "retain"}
      BY <2>1 DEF Host
    <3> HIDE DEF HostStates, Resources, Steps, UnlockedSteps, LockedSteps, ShutdownSteps,
                 CloseSteps
    <3> QED BY <3>1, <3>2 DEF Host
  <2>3. Becomes(h, r)
    BY <1>0, <2>1 DEF Closing
  <2>4. Safe(r, osLock = h, registry = <<h, r.run>>)
    BY <1>0, <1>1, <2>1, <2>2 DEF DrainGate, Host
  <2> HIDE DEF r
  <2> QED BY <2>1, <2>2, <2>3, <2>4, LiftLocal
<1>2. CASE CloseSecurity(h)
  <2>1. PICK own \in SUBSET s.own, v \in {"ok", "failed", "retain"} :
          /\ Closing(h, "removeRegistry", own, v)
          /\ UNCHANGED <<osLock, registry>>
          /\ faults' \in Nat
          /\ s.own \ {"security"} \subseteq own
          /\ v = "ok" /\ s.cleanup # "retain" => "security" \notin own
    BY <1>0, <1>2 DEF CloseSecurity, Fault, Retains, Inv, TypeOK, Host
  <2> DEFINE r == [s EXCEPT !.pc = "removeRegistry", !.own = own,
                           !.cleanup = IF v = "ok" \/ @ = "retain" THEN @ ELSE v]
  <2>2. r \in Host
    <3>1. "removeRegistry" \in Steps
      OBVIOUS
    <3>2. own \in SUBSET Resources /\ v \in {"ok", "failed", "retain"}
      BY <2>1 DEF Host
    <3> HIDE DEF HostStates, Resources, Steps, UnlockedSteps, LockedSteps, ShutdownSteps,
                 CloseSteps
    <3> QED BY <3>1, <3>2 DEF Host
  <2>3. Becomes(h, r)
    BY <1>0, <2>1 DEF Closing
  <2>4. Safe(r, osLock = h, registry = <<h, r.run>>)
    BY <1>0, <1>2, <2>1, <2>2 DEF CloseSecurity, Host
  <2> HIDE DEF r
  <2> QED BY <2>1, <2>2, <2>3, <2>4, LiftLocal
<1>3. CASE RemoveRegistry(h)
  <2>1. PICK own \in SUBSET s.own, v \in {"ok", "failed", "retain"} :
          /\ Closing(h, "releaseLock", own, v)
          /\ UNCHANGED osLock
          /\ faults' \in Nat
          /\ s.own \ {"registry"} \subseteq own
          /\ v = "ok" /\ s.cleanup # "retain" => "registry" \notin own
    BY <1>0, <1>3 DEF RemoveRegistry, Fault, Retains, Inv, TypeOK, Host
  <2> DEFINE r == [s EXCEPT !.pc = "releaseLock", !.own = own,
                           !.cleanup = IF v = "ok" \/ @ = "retain" THEN @ ELSE v]
  <2>2. r \in Host
    <3>1. "releaseLock" \in Steps
      OBVIOUS
    <3>2. own \in SUBSET Resources /\ v \in {"ok", "failed", "retain"}
      BY <2>1 DEF Host
    <3> HIDE DEF HostStates, Resources, Steps, UnlockedSteps, LockedSteps, ShutdownSteps,
                 CloseSteps
    <3> QED BY <3>1, <3>2 DEF Host
  <2>3. Becomes(h, r)
    BY <1>0, <2>1 DEF Closing
  <2>4. registry' = registry \/ (registry' = None /\ registry = <<h, r.run>>)
    BY <1>0, <1>3 DEF RemoveRegistry, Host
  <2>5. Safe(r, osLock' = h, registry' = <<h, r.run>>)
    BY <1>0, <1>3, <2>1, <2>2 DEF RemoveRegistry, Host
  <2> HIDE DEF r
  <2> QED BY <2>1, <2>2, <2>3, <2>4, <2>5, Lift
<1>4. CASE ReleaseLock(h)
  <2>1. PICK own \in SUBSET s.own, v \in {"ok", "failed", "retain"} :
          /\ Closing(h, "closed", own, v)
          /\ UNCHANGED registry
          /\ faults' \in Nat
          /\ s.own \ {"lock"} \subseteq own
          /\ s.cleanup = "retain" => own = s.own /\ osLock' = osLock
          /\ v = "ok" /\ s.cleanup # "retain" => "lock" \notin own
          /\ osLock' = osLock \/ (osLock' = None /\ osLock = h)
          /\ "lock" \notin own => osLock' # h \/ "lock" \notin s.own
    BY <1>0, <1>4, HostAssumption DEF ReleaseLock, Fault, Retains, Inv, TypeOK, Host
  <2> DEFINE r == [s EXCEPT !.pc = "closed", !.own = own,
                           !.cleanup = IF v = "ok" \/ @ = "retain" THEN @ ELSE v]
  <2>2. r \in Host
    <3>1. "closed" \in Steps
      OBVIOUS
    <3>2. own \in SUBSET Resources /\ v \in {"ok", "failed", "retain"}
      BY <2>1 DEF Host
    <3> HIDE DEF HostStates, Resources, Steps, UnlockedSteps, LockedSteps, ShutdownSteps,
                 CloseSteps
    <3> QED BY <3>1, <3>2 DEF Host
  <2>3. Becomes(h, r)
    BY <1>0, <2>1 DEF Closing
  <2>4. osLock' # osLock => s.cleanup # "retain" /\ osLock = h /\ osLock' = None
    BY <2>1
  <2>5. Safe(r, osLock' = h, registry' = <<h, r.run>>)
    BY <1>0, <1>4, <2>1, <2>2, <2>4, HostAssumption DEF ReleaseLock, Host
  <2> HIDE DEF r
  <2> QED BY <2>1, <2>2, <2>3, <2>4, <2>5, Lift
<1>5. CASE CloseDone(h)
  <2> DEFINE r == [s EXCEPT !.pc = "idle", !.caller = "none", !.cleanup = "ok",
                           !.state = IF s.caller = "shutdown" /\ s.cleanup = "ok" THEN "STOPPED" ELSE @]
  <2>1. Becomes(h, r) /\ UNCHANGED <<osLock, registry>> /\ faults' \in Nat
    BY <1>0, <1>5 DEF CloseDone, Inv, TypeOK
  <2>2. r \in Host
    <3>1. "idle" \in Steps
      OBVIOUS
    <3>2. "STOPPED" \in HostStates
      OBVIOUS
    <3> HIDE DEF HostStates, Resources, Steps, UnlockedSteps, LockedSteps, ShutdownSteps,
                 CloseSteps
    <3> QED BY <3>1, <3>2 DEF Host
  <2>3. Safe(r, osLock = h, registry = <<h, r.run>>)
    BY <1>0, <1>5, <2>2 DEF CloseDone, Host
  <2> HIDE DEF r
  <2> QED BY <2>1, <2>2, <2>3, LiftLocal
<1> QED BY <1>1, <1>2, <1>3, <1>4, <1>5

-----------------------------------------------------------------------------
LEMMA InitInv == Init => Inv
<1> SUFFICES ASSUME Init PROVE Inv
  OBVIOUS
<1>1. Stopped \in Host
  BY DEF Host, Stopped, Steps, HostStates
<1>2. ASSUME NEW h \in Hosts
      PROVE  Safe(Stopped, osLock = h, registry = <<h, Stopped.run>>)
  BY HostAssumption DEF Init, Stopped, Safe, Flagged, Owned, Reported, Closed, Active,
     GivenBack,
     LockedSteps, CloseSteps, AfterServer, AfterWork, AfterGate
<1> QED BY <1>1, <1>2 DEF Init, Inv, TypeOK, HostInv

LEMMA NextInv == Inv /\ [Next]_vars => Inv'
<1> SUFFICES ASSUME Inv, [Next]_vars PROVE Inv'
  OBVIOUS
<1>1. CASE UNCHANGED vars
  BY <1>1 DEF vars, Inv, TypeOK, HostInv
<1>2. CASE Next
  <2>1. PICK h \in Hosts :
          \/ Start(h) \/ StartStep(h)
          \/ Shutdown(h) \/ ShutdownStep(h)
          \/ RetryFailedCleanup(h) \/ CloseStep(h)
          \/ RequestShutdown(h) \/ RequestStep(h)
          \/ WriterEnters(h) \/ WorkStarts(h) \/ Ending(h)
          \/ ServerExits(h) \/ ServerDies(h) \/ Crash(h)
    BY <1>2 DEF Next
  <2>2. CASE Start(h) \/ StartStep(h)
    BY <2>2, StartLocalInv, OwnershipInv DEF StartStep
  <2>3. CASE Shutdown(h) \/ ShutdownStep(h) \/ RetryFailedCleanup(h)
    BY <2>3, ShutdownInv DEF ShutdownStep
  <2>4. CASE CloseStep(h)
    BY <2>4, StopInv, ReleaseInv DEF CloseStep
  <2>5. CASE RequestShutdown(h) \/ RequestStep(h)
    BY <2>5, RequestInv DEF RequestStep
  <2>6. CASE WriterEnters(h) \/ WorkStarts(h) \/ Ending(h) \/ ServerExits(h) \/ ServerDies(h)
    BY <2>6, WorkInv DEF Ending
  <2>7. CASE Crash(h)
    BY <2>7, OwnershipInv
  <2> QED BY <2>1, <2>2, <2>3, <2>4, <2>5, <2>6, <2>7
<1> QED BY <1>1, <1>2

(* The invariant of every host and of the lock they share. *)
THEOREM HostInvariant == Spec => []Inv
BY InitInv, NextInv, PTL DEF Spec

(* Every attribute of every host keeps its type; in particular no exit     *)
(* path of a request leaves the gate more often than it entered it.        *)
THEOREM HostTyped == Spec => []TypeOK
<1>1. Inv => TypeOK
  BY DEF Inv
<1> QED BY <1>1, HostInvariant, PTL

(* Admission, writers, running work, the server thread, start() from the   *)
(* migration on and the checkpoint of a shutdown() whose server is still   *)
(* there belong to the process that holds the instance lock: start() and   *)
(* _close_runtime_resources keep it so through failed starts, cleanups     *)
(* that raise, timeouts and crashes.                                       *)
THEOREM OwnerWhileBusyHolds == Spec => []OwnerWhileBusy
<1>1. Inv => OwnerWhileBusy
  BY DEF Inv, HostInv, Safe, Owned, Active, OwnerWhileBusy, Busy
<1> QED BY <1>1, HostInvariant, PTL

(* A READY host is the one the registry file names. *)
THEOREM ReadyIsPublishedHolds == Spec => []ReadyIsPublished
<1>1. Inv => ReadyIsPublished
  BY DEF Inv, HostInv, Safe, Reported, ReadyIsPublished
<1> QED BY <1>1, HostInvariant, PTL

(* A STOPPED host has given everything back, the lock included. *)
THEOREM StoppedIsCleanHolds == Spec => []StoppedIsClean
<1>1. Inv => StoppedIsClean
  <2> SUFFICES ASSUME Inv, NEW h \in Hosts, host[h].state = "STOPPED"
               PROVE  host[h].own = {} /\ ~Busy(h) /\ osLock # h
    BY DEF StoppedIsClean
  <2>1. host[h].own = {} /\ host[h].pc = "idle"
    BY DEF Inv, HostInv, Safe, Reported
  <2>2. osLock # h
    BY <2>1 DEF Inv, HostInv, Safe, Owned
  <2>3. ~Busy(h)
    BY <2>2 DEF Inv, HostInv, Safe, Owned, Active, Busy
  <2> QED BY <2>1, <2>2, <2>3
<1> QED BY <1>1, HostInvariant, PTL
=============================================================================
