------------------------- MODULE DurableJobsProofs --------------------------
(***************************************************************************)
(* Proofs about DurableJobs for any set of jobs, keys and clock readings   *)
(* and any number of process runs.                                         *)
(***************************************************************************)
EXTENDS DurableJobs, TLAPS

(* A running row carries a complete claim: what the running/claimed_run_id *)
(* CHECK of durable_jobs demands.                                          *)
ClaimShape ==
    \A j \in JobIds : Running(j) => jobs[j].run \in Runs /\ jobs[j].started \in Nat

TypeInv == TypeOK /\ ClaimShape

(* The next attempt times the contracts produce are times. *)
LEMMA RetryTimesType ==
    ASSUME NEW type \in Types, NEW n \in Nat, NEW now \in Nat,
           NEW t \in RetryTimes(type, n, now, Clock)
    PROVE  t \in Moments
BY ConstantsAssumption DEF RetryTimes, RetryDelay, MaxRetries, Moments, Null

LEMMA CrashRetryType ==
    ASSUME NEW type \in Types, NEW n \in Nat, NEW now \in Nat
    PROVE  CrashRetryTime(type, n, now) \in Moments
BY DEF CrashRetryTime, RetryDelay, MaxRetries, Moments, Null

LEMMA NewRowType ==
    ASSUME NEW type \in Types, NEW key \in Keys, NEW now \in Nat
    PROVE  NewRow(type, key, now) \in Row /\ NoRow \in Row
BY ConstantsAssumption
   DEF NewRow, NoRow, Row, States, ActiveStates, Moments, Null, Runs

LEMMA SettledType ==
    ASSUME TypeOK, NEW j \in JobIds, NEW state \in States, NEW next \in Moments,
           NEW at \in Nat
    PROVE  /\ Settled(j, state, next, at) \in Row
           /\ Settled(j, state, next, at).state = state
           /\ Settled(j, state, next, at).updated = at
           /\ Settled(j, state, next, at).count = jobs[j].count
           /\ Settled(j, state, next, at).created = jobs[j].created
           /\ Settled(j, state, next, at).checkpoint = jobs[j].checkpoint
           /\ Settled(j, state, next, at).type = jobs[j].type
           /\ Settled(j, state, next, at).key = jobs[j].key
           /\ Settled(j, state, next, at).legacy = jobs[j].legacy
BY DEF TypeOK, Settled, Row, Moments

LEMMA ClosingType ==
    ASSUME TypeInv, NEW j \in JobIds, Running(j), NEW finished \in Nat,
           NEW outcome \in Outcomes
    PROVE  Closing(j, finished, outcome) \in Attempt
BY DEF TypeInv, TypeOK, ClaimShape, Closing, Attempt, Row

LEMMA InterruptingType ==
    ASSUME TypeInv, NEW j \in JobIds, NEW now \in Nat
    PROVE  Interrupting(j, now) \subseteq Attempt
<1>1. CASE Running(j)
  <2>1. Later(now, jobs[j].started) \in Nat
    BY <1>1 DEF TypeInv, ClaimShape, Later
  <2>2. Closing(j, Later(now, jobs[j].started), "interrupted") \in Attempt
    BY <1>1, <2>1, ClosingType DEF Outcomes
  <2> QED  BY <2>2 DEF Interrupting
<1>2. CASE ~Running(j)
  BY <1>2 DEF Interrupting
<1> QED  BY <1>1, <1>2

(* Replacing one row by a settled one keeps the types. *)
LEMMA SettleType ==
    ASSUME TypeInv, NEW j \in JobIds, NEW state \in States \ {"running"},
           NEW next \in Moments, NEW at \in Nat,
           jobs' = [jobs EXCEPT ![j] = Settled(j, state, next, at)]
    PROVE  /\ jobs' \in [JobIds -> Row]
           /\ \A i \in JobIds : jobs'[i].state = "running" =>
                 jobs'[i].run \in Runs /\ jobs'[i].started \in Nat
<1>1. Settled(j, state, next, at) \in Row
  BY SettledType DEF TypeInv
<1>2. Settled(j, state, next, at).state = state
  BY SettledType DEF TypeInv
<1> QED  BY <1>1, <1>2 DEF TypeInv, TypeOK, ClaimShape, Running

LEMMA TypeInit == Init => TypeInv
<1> SUFFICES ASSUME Init PROVE TypeInv
  OBVIOUS
<1>1. Seeds \subseteq Row
  <2>1. ASSUME NEW t \in Types, NEW k \in Keys, NEW l \in BOOLEAN
        PROVE  SeedRow(t, k, l) \in Row /\ ClaimedSeedRow(t, k, l) \in Row
    <3>1. NewRow(t, k, SeedTime) \in Row
      BY ConstantsAssumption, NewRowType
    <3>2. SeedRow(t, k, l) \in Row
      BY <3>1 DEF SeedRow, Row
    <3>3. 0 \in Runs \cup {Null} /\ SeedTime \in Moments /\ "running" \in States
      BY ConstantsAssumption DEF Runs, Moments, States, ActiveStates
    <3>4. ClaimedSeedRow(t, k, l) \in Row
      BY <3>2, <3>3 DEF ClaimedSeedRow, Row
    <3> QED  BY <3>2, <3>4
  <2> QED  BY <2>1 DEF Seeds
<1>2. NoRow \in Row
  BY ConstantsAssumption, NewRowType
<1>3. \A s \in Seeds : s.state = "running" =>
         s.run = 0 /\ s.started = SeedTime /\ s.count = 1
  <2>1. ASSUME NEW t \in Types, NEW k \in Keys, NEW l \in BOOLEAN
        PROVE  /\ SeedRow(t, k, l).state = "queued"
               /\ ClaimedSeedRow(t, k, l).run = 0
               /\ ClaimedSeedRow(t, k, l).started = SeedTime
               /\ ClaimedSeedRow(t, k, l).count = 1
    BY DEF SeedRow, ClaimedSeedRow, NewRow
  <2> QED  BY <2>1 DEF Seeds
<1>4. NoRow.state = "none"
  BY DEF NoRow, NewRow
<1>5. jobs \in [JobIds -> Row]
  BY <1>1, <1>2 DEF Init
<1>6. ClaimShape
  BY <1>3, <1>4, ConstantsAssumption DEF Init, ClaimShape, Running, Runs
<1>7. issued \subseteq Claim
  BY <1>5, ConstantsAssumption DEF Init, Claim, Runs, Row
<1> QED
  BY <1>5, <1>6, <1>7, ConstantsAssumption DEF Init, TypeInv, TypeOK, Runs, Idle

LEMMA TypeNext == TypeInv /\ [Next]_vars => TypeInv'
<1> SUFFICES ASSUME TypeInv, [Next]_vars PROVE TypeInv'
  OBVIOUS
<1> USE ConstantsAssumption
<1> DEFINE ClaimShapeNew ==
      \A i \in JobIds : jobs'[i].state = "running" =>
          jobs'[i].run \in Runs /\ jobs'[i].started \in Nat
<1>0. ASSUME jobs' \in [JobIds -> Row], ClaimShapeNew, attempts' \subseteq Attempt,
             issued' \subseteq Claim, run' = run, recovery' = recovery
      PROVE  TypeInv'
  BY <1>0 DEF TypeInv, TypeOK, ClaimShape, Running
<1>1. ASSUME NEW j \in JobIds, NEW type \in Types, NEW key \in Keys,
             NEW now \in Clock, Enqueue(j, type, key, now)
      PROVE  TypeInv'
  <2>1. NewRow(type, key, now) \in Row
    BY NewRowType
  <2>2. NewRow(type, key, now).state # "running"
    BY DEF NewRow
  <2>3. jobs' \in [JobIds -> Row] /\ ClaimShapeNew
    BY <1>1, <2>1, <2>2 DEF Enqueue, TypeInv, TypeOK, ClaimShape, Running
  <2> QED  BY <1>0, <1>1, <2>3 DEF Enqueue, TypeInv, TypeOK
<1>2. ASSUME NEW j \in JobIds, NEW now \in Clock, ClaimNext(j, now)
      PROVE  TypeInv'
  <2>1. /\ jobs[j] \in Row /\ run \in Runs /\ now \in Nat
        /\ jobs[j].count + 1 \in Nat /\ "running" \in States
    BY DEF TypeInv, TypeOK, Row, States, ActiveStates
  <2>2. jobs' \in [JobIds -> Row]
    BY <1>2, <2>1 DEF ClaimNext, TypeInv, TypeOK, Row, Moments
  <2>3. ClaimShapeNew
    BY <1>2, <2>1 DEF ClaimNext, TypeInv, TypeOK, ClaimShape, Running, Row
  <2>4. issued' \subseteq Claim
    BY <1>2, <2>1 DEF ClaimNext, TypeInv, TypeOK, Claim
  <2> QED  BY <1>0, <1>2, <2>2, <2>3, <2>4 DEF ClaimNext, TypeInv, TypeOK
<1>3. ASSUME NEW j \in JobIds, NEW now \in Clock, FailUnclaimable(j, now)
      PROVE  TypeInv'
  <2>1. Later(now, jobs[j].updated) \in Nat
    BY DEF Later, TypeInv, TypeOK, Row
  <2>2. jobs' \in [JobIds -> Row] /\ ClaimShapeNew
    BY <1>3, <2>1, SettleType
       DEF FailUnclaimable, States, TerminalStates, Moments
  <2> QED  BY <1>0, <1>3, <2>2 DEF FailUnclaimable, TypeInv, TypeOK
<1>4. ASSUME NEW c \in issued, NEW now \in Clock, Checkpoint(c, now)
      PROVE  TypeInv'
  <2>1. c.job \in JobIds /\ c.ordinal \in Nat /\ now \in Nat
    BY DEF TypeInv, TypeOK, Claim
  <2>2. jobs' \in [JobIds -> Row]
    BY <1>4, <2>1 DEF Checkpoint, TypeInv, TypeOK, Row
  <2>3. ClaimShapeNew
    BY <1>4, <2>1 DEF Checkpoint, TypeInv, TypeOK, ClaimShape, Running, Row
  <2> QED  BY <1>0, <1>4, <2>2, <2>3 DEF Checkpoint, TypeInv, TypeOK
<1>5. ASSUME NEW c \in issued, NEW now \in Clock, NEW outcome \in Outcomes,
             NEW state \in States \ {"running"}, NEW next \in Moments,
             Finish(c, now, outcome, state, next)
      PROVE  TypeInv'
  <2>1. c.job \in JobIds /\ now \in Nat /\ Running(c.job)
    BY <1>5 DEF TypeInv, TypeOK, Claim, Finish, VerifyClaim, Running
  <2>2. attempts' \subseteq Attempt
    BY <1>5, <2>1, ClosingType DEF Finish, TypeInv, TypeOK
  <2>3. jobs' \in [JobIds -> Row] /\ ClaimShapeNew
    BY <1>5, <2>1, SettleType DEF Finish
  <2> QED  BY <1>0, <1>5, <2>2, <2>3 DEF Finish, TypeInv, TypeOK
<1>6. ASSUME NEW c \in issued, NEW now \in Clock, Complete(c, now)
      PROVE  TypeInv'
  BY <1>5, <1>6 DEF Complete, Outcomes, States, TerminalStates, Moments
<1>7. ASSUME NEW c \in issued, NEW now \in Clock, NEW retryable \in BOOLEAN,
             Fail(c, now, retryable)
      PROVE  TypeInv'
  <2>1. PICK next \in IF retryable
                      THEN RetryTimes(jobs[c.job].type, c.ordinal, now, Clock)
                      ELSE {Null} :
               Finish(c, now, "failed",
                      IF next = Null THEN "failed" ELSE "retry_wait", next)
    BY <1>7 DEF Fail
  <2>2. jobs[c.job].type \in Types /\ c.ordinal \in Nat /\ now \in Nat
    BY DEF TypeInv, TypeOK, Claim, Row
  <2>3. next \in Moments
    BY <2>2, RetryTimesType DEF Moments
  <2>4. (IF next = Null THEN "failed" ELSE "retry_wait") \in States \ {"running"}
    BY DEF States, ActiveStates, TerminalStates
  <2> QED  BY <1>5, <2>1, <2>3, <2>4 DEF Outcomes
<1>8. ASSUME NEW j \in JobIds, NEW now \in Clock, Cancel(j, now)
      PROVE  TypeInv'
  <2>1. attempts' \subseteq Attempt
    BY <1>8, ClosingType DEF Cancel, ClosingIfRunning, Outcomes, TypeInv, TypeOK
  <2>2. jobs' \in [JobIds -> Row] /\ ClaimShapeNew
    BY <1>8, SettleType DEF Cancel, States, TerminalStates, Moments
  <2> QED  BY <1>0, <1>8, <2>1, <2>2 DEF Cancel, TypeInv, TypeOK
<1>9. ASSUME NEW now \in Clock, ReconcileRestored(now)
      PROVE  TypeInv'
  <2>1. \A j \in JobIds : Later(now, jobs[j].updated) \in Nat
    BY DEF Later, TypeInv, TypeOK, Row
  <2>2. attempts' \subseteq Attempt
    BY <1>9, <2>1, InterruptingType DEF ReconcileRestored, TypeInv, TypeOK
  <2>3. ASSUME NEW j \in JobIds
        PROVE  LET row == Settled(j, "cancelled", Null, Later(now, jobs[j].updated))
               IN  row \in Row /\ row.state = "cancelled"
    <3>1. "cancelled" \in States /\ Null \in Moments
      BY DEF States, TerminalStates, Moments
    <3> QED  BY <2>1, <3>1, SettledType DEF TypeInv
  <2>4. jobs' \in [JobIds -> Row] /\ ClaimShapeNew
    BY <1>9, <2>3 DEF ReconcileRestored, TypeInv, TypeOK, ClaimShape, Running
  <2> QED  BY <1>0, <1>9, <2>2, <2>4 DEF ReconcileRestored, TypeInv, TypeOK
<1>10. ASSUME NEW now \in Clock, RecoverBegin(now)
       PROVE  TypeInv'
  BY <1>10 DEF RecoverBegin, TypeInv, TypeOK, ClaimShape, Running
<1>11. ASSUME NEW j \in JobIds, NEW state \in States \ {"running"},
              NEW next \in Moments, Dispose(j, state, next)
       PROVE  jobs' \in [JobIds -> Row] /\ ClaimShapeNew /\ attempts' \subseteq Attempt
  <2>1. recovery.now \in Nat /\ Later(recovery.now, jobs[j].updated) \in Nat
    BY DEF Later, TypeInv, TypeOK, Row
  <2>2. attempts' \subseteq Attempt
    BY <1>11, <2>1, InterruptingType DEF Dispose, TypeInv, TypeOK
  <2>3. jobs' \in [JobIds -> Row] /\ ClaimShapeNew
    BY <1>11, <2>1, SettleType DEF Dispose
  <2> QED  BY <2>2, <2>3
<1>12. ASSUME NEW j \in JobIds, RecoverLegacy(j)
       PROVE  TypeInv'
  <2>1. jobs' \in [JobIds -> Row] /\ ClaimShapeNew /\ attempts' \subseteq Attempt
    <3>1. CASE Active(j) /\ jobs[j].legacy
      BY <1>11, <1>12, <3>1 DEF RecoverLegacy, States, TerminalStates, Moments
    <3>2. CASE ~(Active(j) /\ jobs[j].legacy)
      BY <1>12, <3>2 DEF RecoverLegacy, TypeInv, TypeOK, ClaimShape, Running
    <3> QED  BY <3>1, <3>2
  <2> QED  BY <1>12, <2>1
              DEF RecoverLegacy, TypeInv, TypeOK, ClaimShape, Running
<1>13. ASSUME NEW j \in JobIds, RecoverStale(j)
       PROVE  TypeInv'
  <2>1. jobs' \in [JobIds -> Row] /\ ClaimShapeNew /\ attempts' \subseteq Attempt
    <3> DEFINE next == IF jobs[j].type \in Registered
                       THEN CrashRetryTime(jobs[j].type, jobs[j].count, recovery.now)
                       ELSE Null
    <3>0. next \in Moments
      BY CrashRetryType DEF TypeInv, TypeOK, Row, Moments
    <3>1. CASE Running(j) /\ jobs[j].run # run
      BY <1>11, <1>13, <3>0, <3>1
         DEF RecoverStale, States, TerminalStates, ActiveStates
    <3>2. CASE ~(Running(j) /\ jobs[j].run # run)
      BY <1>13, <3>2 DEF RecoverStale, TypeInv, TypeOK, ClaimShape, Running
    <3> QED  BY <3>1, <3>2
  <2> QED  BY <1>13, <2>1
              DEF RecoverStale, TypeInv, TypeOK, ClaimShape, Running
<1>14. ASSUME RecoverListStale \/ RecoverEnd
       PROVE  TypeInv'
  BY <1>14 DEF RecoverListStale, RecoverEnd, TypeInv, TypeOK, ClaimShape, Running
<1>15. ASSUME Restart
       PROVE  TypeInv'
  BY <1>15 DEF Restart, Idle, Runs, TypeInv, TypeOK, ClaimShape, Running
<1>16. CASE UNCHANGED vars
  BY <1>16 DEF vars, TypeInv, TypeOK, ClaimShape, Running
<1> QED
  BY <1>1, <1>2, <1>3, <1>4, <1>6, <1>7, <1>8, <1>9, <1>10, <1>12, <1>13,
     <1>14, <1>15, <1>16 DEF Next, RecoveryStep

(* Every reachable state is typed, and a running row always carries a      *)
(* whole claim.                                                            *)
THEOREM TypeCorrect == Spec => []TypeOK
<1>1. TypeInv => TypeOK
  BY DEF TypeInv
<1> QED  BY <1>1, TypeInit, TypeNext, PTL DEF Spec

-----------------------------------------------------------------------------
(* The inductive invariant.  Ledger and Accounts are AttemptLedger and     *)
(* ClaimsAccounted element by element; Timeline adds to AttemptsInSequence *)
(* that no attempt ends after its row was last updated, which is what      *)
(* makes the next claim, taken no earlier than that update, start late     *)
(* enough.                                                                 *)

FreshIds == \A j \in JobIds : jobs[j].state = "none" => jobs[j].count = 0

Ledger ==
    /\ \A a \in attempts : a.ordinal >= 1 /\ a.ordinal <= LastClosed(a.job)
    /\ \A j \in JobIds, n \in Nat :
          n >= 1 /\ n <= LastClosed(j) => ~AttemptAbsent(j, n)
    /\ \A a, b \in attempts : a.job = b.job /\ a.ordinal = b.ordinal => a = b
    /\ \A j \in JobIds : Running(j) => jobs[j].count >= 1

Accounts ==
    /\ \A c \in issued : \/ Running(c.job) /\ c = HeldClaim(c.job)
                         \/ \E a \in attempts : c = ClaimOf(a)
    /\ \A a \in attempts : ClaimOf(a) \in issued
    /\ \A j \in JobIds : Running(j) => HeldClaim(j) \in issued

Timeline ==
    /\ \A j \in JobIds : jobs[j].created <= jobs[j].updated
    /\ \A j \in JobIds : Running(j) => jobs[j].started <= jobs[j].updated
    /\ \A a \in attempts : a.finished <= jobs[a.job].updated
    /\ AttemptsInSequence

CoreInv == TypeInv /\ FreshIds /\ Ledger /\ Accounts /\ Timeline

(* The one kind of step behind complete, fail, cancel, both recoveries and *)
(* the restore: the active jobs of S leave their state, and every claim    *)
(* among them is closed by one new attempt row.                            *)
Settling(S) ==
    /\ \A j \in JobIds \ S : jobs'[j] = jobs[j]
    /\ \A j \in S :
          /\ Active(j)
          /\ jobs'[j].state \in {"retry_wait"} \cup TerminalStates
          /\ jobs'[j].count = jobs[j].count
          /\ jobs'[j].created = jobs[j].created
          /\ jobs'[j].checkpoint = jobs[j].checkpoint
          /\ jobs'[j].updated >= jobs[j].updated
          /\ jobs'[j].type = jobs[j].type
          /\ jobs'[j].key = jobs[j].key
          /\ jobs'[j].legacy = jobs[j].legacy
    /\ attempts \subseteq attempts'
    /\ \A a \in attempts' \ attempts :
          /\ a.job \in S /\ Running(a.job)
          /\ ClaimOf(a) = HeldClaim(a.job)
          /\ a.started <= a.finished
          /\ a.finished <= jobs'[a.job].updated
    /\ \A j \in S : Running(j) => \E a \in attempts' \ attempts : a.job = j
    /\ \A a, b \in attempts' \ attempts : a.job = b.job => a = b
    /\ issued' = issued

LEMMA SettlingKeepsCore ==
    ASSUME CoreInv, TypeInv', NEW S \in SUBSET JobIds, Settling(S)
    PROVE  CoreInv'
<1> USE DEF CoreInv
<1>1. /\ jobs \in [JobIds -> Row] /\ jobs' \in [JobIds -> Row]
      /\ attempts' \subseteq Attempt /\ attempts \subseteq Attempt
      /\ issued \subseteq Claim
  BY DEF TypeInv, TypeOK
<1>2. \A j \in S : ~Running(j)' /\ LastClosed(j)' = jobs[j].count
  BY <1>1 DEF Settling, Running, LastClosed, TerminalStates
<1>3. \A j \in JobIds \ S :
         Running(j)' = Running(j) /\ LastClosed(j)' = LastClosed(j)
  BY <1>1 DEF Settling, Running, LastClosed
<1>4. \A a \in attempts' \ attempts :
         /\ a.job \in S /\ Running(a.job) /\ a.ordinal = jobs[a.job].count
         /\ a.run = jobs[a.job].run /\ a.started = jobs[a.job].started
  BY DEF Settling, ClaimOf, HeldClaim
<1>5. \A j \in S : LastClosed(j) <= jobs[j].count
  BY <1>1 DEF LastClosed, Row
<1>6. FreshIds'
  BY <1>1 DEF FreshIds, Settling, TerminalStates
<1>7. Ledger'
  <2>1. ASSUME NEW a \in attempts'
        PROVE  a.ordinal >= 1 /\ a.ordinal <= LastClosed(a.job)'
    <3>0. a.job \in JobIds /\ a.ordinal \in Nat
      BY <1>1 DEF Attempt
    <3>1. CASE a \in attempts
      BY <3>0, <3>1, <1>1, <1>2, <1>3, <1>5 DEF Ledger, LastClosed, Row
    <3>2. CASE a \notin attempts
      BY <3>0, <3>2, <1>1, <1>2, <1>4 DEF Ledger, Row
    <3> QED  BY <3>1, <3>2
  <2>2. ASSUME NEW j \in JobIds, NEW n \in Nat, n >= 1, n <= LastClosed(j)'
        PROVE  \E a \in attempts' : a.job = j /\ a.ordinal = n
    <3>1. CASE n <= LastClosed(j)
      BY <2>2, <3>1 DEF Ledger, AttemptAbsent, Settling
    <3>2. CASE ~(n <= LastClosed(j))
      <4>1. j \in S /\ n = jobs[j].count /\ Running(j)
        BY <2>2, <3>2, <1>1, <1>2, <1>3 DEF LastClosed, Row
      <4>2. PICK a \in attempts' \ attempts : a.job = j
        BY <4>1 DEF Settling
      <4> QED  BY <4>1, <4>2, <1>4
    <3> QED  BY <3>1, <3>2
  <2>3. ASSUME NEW a \in attempts', NEW b \in attempts',
               a.job = b.job, a.ordinal = b.ordinal
        PROVE  a = b
    <3>0. ASSUME NEW x \in attempts, NEW y \in attempts' \ attempts,
                 x.job = y.job
          PROVE  x.ordinal # y.ordinal
      <4>1. x.job \in JobIds /\ x.ordinal \in Nat /\ Running(x.job)
            /\ y.ordinal = jobs[x.job].count
        BY <3>0, <1>1, <1>4 DEF Attempt
      <4>2. x.ordinal <= jobs[x.job].count - 1
        BY <4>1 DEF Ledger, LastClosed
      <4> QED  BY <4>1, <4>2, <1>1 DEF Row
    <3>1. CASE a \in attempts /\ b \in attempts
      BY <2>3, <3>1 DEF Ledger
    <3>2. CASE a \notin attempts /\ b \notin attempts
      BY <2>3, <3>2 DEF Settling
    <3>3. CASE a \in attempts /\ b \notin attempts
      BY <2>3, <3>0, <3>3
    <3>4. CASE a \notin attempts /\ b \in attempts
      BY <2>3, <3>0, <3>4
    <3> QED  BY <3>1, <3>2, <3>3, <3>4
  <2>4. \A j \in JobIds : Running(j)' => jobs'[j].count >= 1
    BY <1>1, <1>2, <1>3 DEF Ledger, Settling
  <2> QED  BY <2>1, <2>2, <2>3, <2>4 DEF Ledger, AttemptAbsent
<1>8. Accounts'
  <2>1. ASSUME NEW j \in JobIds \ S
        PROVE  HeldClaim(j)' = HeldClaim(j)
    BY DEF Settling, HeldClaim
  <2>2. ASSUME NEW c \in issued
        PROVE  \/ Running(c.job)' /\ c = HeldClaim(c.job)'
               \/ \E a \in attempts' : c = ClaimOf(a)
    <3>0. c.job \in JobIds
      BY <1>1 DEF Claim
    <3>1. CASE \E a \in attempts : c = ClaimOf(a)
      BY <3>1 DEF Settling
    <3>2. CASE Running(c.job) /\ c = HeldClaim(c.job) /\ c.job \notin S
      BY <3>0, <3>2, <1>3, <2>1
    <3>3. CASE Running(c.job) /\ c = HeldClaim(c.job) /\ c.job \in S
      <4>1. PICK a \in attempts' \ attempts : a.job = c.job
        BY <3>3 DEF Settling
      <4> QED  BY <3>3, <4>1 DEF Settling
    <3> QED  BY <3>1, <3>2, <3>3 DEF Accounts
  <2>3. ASSUME NEW a \in attempts'
        PROVE  ClaimOf(a) \in issued
    <3>1. CASE a \in attempts
      BY <3>1 DEF Accounts
    <3>2. CASE a \notin attempts
      BY <3>2, <1>4 DEF Accounts, Settling
    <3> QED  BY <3>1, <3>2
  <2>4. ASSUME NEW j \in JobIds, Running(j)'
        PROVE  HeldClaim(j)' \in issued
    BY <2>4, <1>2, <1>3, <2>1 DEF Accounts
  <2> QED  BY <2>2, <2>3, <2>4 DEF Accounts, Settling
<1>9. Timeline'
  <2>1. \A j \in JobIds : jobs'[j].created <= jobs'[j].updated
    BY <1>1 DEF Timeline, Settling, Row
  <2>2. \A j \in JobIds : Running(j)' => jobs'[j].started <= jobs'[j].updated
    BY <1>1, <1>2, <1>3 DEF Timeline, Settling
  <2>3. ASSUME NEW a \in attempts'
        PROVE  a.finished <= jobs'[a.job].updated /\ a.started <= a.finished
    <3>0. a.job \in JobIds /\ a.finished \in Nat
      BY <1>1 DEF Attempt
    <3>1. CASE a \in attempts
      BY <3>0, <3>1, <1>1 DEF Timeline, AttemptsInSequence, Settling, Row
    <3>2. CASE a \notin attempts
      BY <3>2 DEF Settling
    <3> QED  BY <3>1, <3>2
  <2>4. ASSUME NEW a \in attempts', NEW b \in attempts', a.job = b.job,
               a.ordinal < b.ordinal
        PROVE  a.finished <= b.started
    <3>0. /\ a.job \in JobIds /\ b.job \in JobIds
          /\ a.ordinal \in Nat /\ b.ordinal \in Nat
      BY <1>1 DEF Attempt
    <3>1. CASE a \in attempts /\ b \in attempts
      BY <2>4, <3>1 DEF Timeline, AttemptsInSequence
    <3>2. CASE a \in attempts /\ b \notin attempts
      BY <2>4, <3>2, <1>4 DEF Timeline, AttemptsInSequence
    <3>3. CASE a \notin attempts
      <4>1. a.ordinal = jobs[a.job].count /\ Running(a.job)
        BY <3>3, <1>4
      <4>2. b.ordinal <= jobs[a.job].count
        BY <2>1, <2>4, <3>0, <4>1, <1>1, <1>4 DEF Ledger, LastClosed, Row
      <4> QED  BY <2>4, <3>0, <4>1, <4>2, <1>1 DEF Row
    <3> QED  BY <3>1, <3>2, <3>3
  <2>5. ASSUME NEW a \in attempts', Running(a.job)'
        PROVE  a.finished <= jobs'[a.job].started
    <3>1. a.job \in JobIds \ S
      BY <2>5, <1>1, <1>2 DEF Attempt
    <3>2. a \in attempts
      BY <3>1, <1>4
    <3> QED  BY <2>5, <3>1, <3>2, <1>3 DEF Timeline, AttemptsInSequence, Settling
  <2> QED  BY <2>1, <2>2, <2>3, <2>4, <2>5 DEF Timeline, AttemptsInSequence
<1> QED  BY <1>6, <1>7, <1>8, <1>9

(* A claim that is held has no attempt row yet. *)
LEMMA HeldIsOpen ==
    ASSUME CoreInv, NEW j \in JobIds, Running(j)
    PROVE  AttemptAbsent(j, jobs[j].count)
<1>1. jobs[j].count \in Nat
  BY DEF CoreInv, TypeInv, TypeOK, Row
<1>2. \A a \in attempts : a.job = j => a.ordinal \in Nat /\ a.ordinal <= jobs[j].count - 1
  BY DEF CoreInv, TypeInv, TypeOK, Attempt, Ledger, LastClosed
<1> QED  BY <1>1, <1>2 DEF AttemptAbsent

LEMMA OneSettles ==
    ASSUME CoreInv, NEW j \in JobIds, Active(j),
           NEW state \in {"retry_wait"} \cup TerminalStates,
           NEW next \in Moments, NEW at \in Nat, at >= jobs[j].updated,
           NEW finished \in Nat, NEW outcome \in Outcomes,
           Running(j) => jobs[j].started <= finished /\ finished <= at,
           jobs' = [jobs EXCEPT ![j] = Settled(j, state, next, at)],
           attempts' = attempts \cup ClosingIfRunning(j, finished, outcome),
           issued' = issued
    PROVE  Settling({j})
<1> DEFINE row == Settled(j, state, next, at)
<1>1. TypeOK /\ state \in States /\ jobs \in [JobIds -> Row]
  BY DEF CoreInv, TypeInv, TypeOK, States, ActiveStates
<1>2. jobs'[j] = row /\ \A i \in JobIds \ {j} : jobs'[i] = jobs[i]
  BY <1>1
<1>3. /\ row.state = state /\ row.updated = at /\ row.count = jobs[j].count
      /\ row.created = jobs[j].created /\ row.type = jobs[j].type
      /\ row.key = jobs[j].key /\ row.legacy = jobs[j].legacy
      /\ row.checkpoint = jobs[j].checkpoint
  BY <1>1, SettledType
<1>4. CASE Running(j)
  <2> DEFINE a == Closing(j, finished, outcome)
  <2>1. attempts' = attempts \cup {a}
    BY <1>4 DEF ClosingIfRunning
  <2>2. /\ a.job = j /\ ClaimOf(a) = HeldClaim(j) /\ a.ordinal = jobs[j].count
        /\ a.started <= a.finished /\ a.finished <= at
    BY <1>4 DEF Closing, ClaimOf, HeldClaim
  <2>3. a \notin attempts
    BY <1>4, <2>2, HeldIsOpen DEF AttemptAbsent
  <2> HIDE DEF a, row
  <2> QED  BY <1>2, <1>3, <1>4, <2>1, <2>2, <2>3 DEF Settling
<1>5. CASE ~Running(j)
  <2>1. attempts' = attempts
    BY <1>5 DEF ClosingIfRunning
  <2> HIDE DEF row
  <2> QED  BY <1>2, <1>3, <1>5, <2>1 DEF Settling
<1> QED  BY <1>4, <1>5

LEMMA DisposeSettles ==
    ASSUME CoreInv, NEW j \in JobIds, Active(j),
           NEW state \in {"retry_wait"} \cup TerminalStates,
           NEW next \in Moments, Dispose(j, state, next), issued' = issued
    PROVE  Settling({j})
<1> DEFINE at == Later(recovery.now, jobs[j].updated)
           finished == Later(recovery.now, jobs[j].started)
<1>1. /\ recovery.now \in Nat /\ jobs[j].updated \in Nat
      /\ jobs[j].started \in Moments
  BY DEF CoreInv, TypeInv, TypeOK, Row
<1>2. at \in Nat /\ at >= jobs[j].updated /\ finished \in Nat
  BY <1>1 DEF Later, Moments, Null
<1>3. Running(j) => jobs[j].started <= finished /\ finished <= at
  BY <1>1 DEF Later, CoreInv, Timeline, TypeInv, ClaimShape
<1>4. Interrupting(j, recovery.now) = ClosingIfRunning(j, finished, "interrupted")
  BY HeldIsOpen DEF Interrupting, ClosingIfRunning
<1>5. jobs' = [jobs EXCEPT ![j] = Settled(j, state, next, at)]
      /\ attempts' = attempts \cup ClosingIfRunning(j, finished, "interrupted")
  BY <1>4 DEF Dispose
<1> HIDE DEF at, finished
<1> QED  BY <1>2, <1>3, <1>5, OneSettles DEF Outcomes

LEMMA FinishSettles ==
    ASSUME CoreInv, NEW c \in issued, NEW now \in Clock, NEW outcome \in Outcomes,
           NEW state \in {"retry_wait"} \cup TerminalStates,
           NEW next \in Moments, Finish(c, now, outcome, state, next)
    PROVE  c.job \in JobIds /\ Settling({c.job})
<1>1. c.job \in JobIds /\ now \in Nat /\ jobs[c.job].updated \in Nat
  BY ConstantsAssumption DEF CoreInv, TypeInv, TypeOK, Claim, Row
<1>2. Running(c.job) /\ Active(c.job)
  BY DEF Finish, VerifyClaim, Running, Active, ActiveStates
<1>3. now >= jobs[c.job].updated /\ jobs[c.job].started <= now /\ now <= now
  BY <1>1, <1>2 DEF Finish, VerifyClaim, NonRegressing, Claim
<1>4. /\ jobs' = [jobs EXCEPT ![c.job] = Settled(c.job, state, next, now)]
      /\ attempts' = attempts \cup ClosingIfRunning(c.job, now, outcome)
      /\ issued' = issued
  BY <1>2 DEF Finish, ClosingIfRunning
<1> QED  BY <1>1, <1>2, <1>3, <1>4, OneSettles

LEMMA ReconcileSettles ==
    ASSUME CoreInv, NEW now \in Clock, ReconcileRestored(now)
    PROVE  Settling({j \in JobIds : Active(j)})
<1> DEFINE at(j) == Later(now, jobs[j].updated)
           row(j) == Settled(j, "cancelled", Null, at(j))
           att(j) == Closing(j, Later(at(j), jobs[j].started), "interrupted")
           S == {j \in JobIds : Active(j)}
<1>0. TypeOK /\ TypeInv /\ now \in Nat
  BY ConstantsAssumption DEF CoreInv, TypeInv
<1>1. ASSUME NEW j \in JobIds
      PROVE  at(j) \in Nat /\ at(j) >= jobs[j].updated
  BY <1>0 DEF Later, TypeOK, Row
<1>2. ASSUME NEW j \in JobIds
      PROVE  /\ row(j).state = "cancelled" /\ row(j).updated = at(j)
             /\ row(j).count = jobs[j].count /\ row(j).created = jobs[j].created
             /\ row(j).type = jobs[j].type /\ row(j).key = jobs[j].key
             /\ row(j).legacy = jobs[j].legacy
             /\ row(j).checkpoint = jobs[j].checkpoint
  <2>1. "cancelled" \in States /\ Null \in Moments
    BY DEF States, TerminalStates, Moments
  <2> QED  BY <1>0, <1>1, <2>1, SettledType
<1>3. \A j \in S : jobs'[j] = row(j)
  BY DEF ReconcileRestored
<1>4. \A j \in JobIds \ S : jobs'[j] = jobs[j]
  BY DEF ReconcileRestored
<1>5. ASSUME NEW j \in JobIds
      PROVE  /\ Running(j) => Interrupting(j, at(j)) = {att(j)}
             /\ ~Running(j) => Interrupting(j, at(j)) = {}
  BY HeldIsOpen DEF Interrupting
<1>6. attempts' = attempts \cup {att(j) : j \in {i \in JobIds : Running(i)}}
  <2>1. attempts' = attempts \cup UNION {Interrupting(j, at(j)) : j \in JobIds}
    BY DEF ReconcileRestored
  <2> HIDE DEF at, att
  <2>2. UNION {Interrupting(j, at(j)) : j \in JobIds}
           = {att(j) : j \in {i \in JobIds : Running(i)}}
    BY <1>5
  <2> QED  BY <2>1, <2>2
<1>7. ASSUME NEW j \in JobIds, Running(j)
      PROVE  /\ att(j).job = j /\ ClaimOf(att(j)) = HeldClaim(j)
             /\ att(j).ordinal = jobs[j].count /\ j \in S
             /\ att(j).started <= att(j).finished /\ att(j).finished <= at(j)
             /\ att(j) \notin attempts
  <2>1. /\ att(j).job = j /\ ClaimOf(att(j)) = HeldClaim(j)
        /\ att(j).ordinal = jobs[j].count
    BY DEF Closing, ClaimOf, HeldClaim
  <2>2. att(j) \notin attempts
    BY <1>7, <2>1, HeldIsOpen DEF AttemptAbsent
  <2>3. /\ jobs[j].started \in Nat /\ jobs[j].updated \in Nat
        /\ jobs[j].started <= jobs[j].updated
    BY <1>7, <1>0 DEF CoreInv, Timeline, TypeInv, TypeOK, ClaimShape, Row
  <2>4. att(j).started <= att(j).finished /\ att(j).finished <= at(j)
    BY <2>3, <1>1 DEF Closing, Later
  <2> QED  BY <1>7, <2>1, <2>2, <2>4 DEF Running, Active, ActiveStates
<1>8. \A a \in attempts' \ attempts :
         \E j \in JobIds : Running(j) /\ a = att(j)
  BY <1>6
<1>9. \A j \in JobIds : Running(j) => att(j) \in attempts' \ attempts
  BY <1>6, <1>7
<1>10. attempts \subseteq attempts' /\ issued' = issued
  BY <1>6 DEF ReconcileRestored
<1> HIDE DEF at, row, att
<1>11. \A j \in S :
          /\ Active(j)
          /\ jobs'[j].state \in {"retry_wait"} \cup TerminalStates
          /\ jobs'[j].count = jobs[j].count
          /\ jobs'[j].created = jobs[j].created
          /\ jobs'[j].checkpoint = jobs[j].checkpoint
          /\ jobs'[j].updated = at(j)
          /\ jobs'[j].updated >= jobs[j].updated
          /\ jobs'[j].type = jobs[j].type
          /\ jobs'[j].key = jobs[j].key
          /\ jobs'[j].legacy = jobs[j].legacy
  BY <1>1, <1>2, <1>3 DEF TerminalStates
<1>12. \A a \in attempts' \ attempts :
          /\ a.job \in S /\ Running(a.job)
          /\ ClaimOf(a) = HeldClaim(a.job)
          /\ a.started <= a.finished
          /\ a.finished <= jobs'[a.job].updated
  BY <1>7, <1>8, <1>11
<1>13. \A j \in S : Running(j) => \E a \in attempts' \ attempts : a.job = j
  BY <1>7, <1>9
<1>14. \A a, b \in attempts' \ attempts : a.job = b.job => a = b
  BY <1>7, <1>8
<1> QED  BY <1>4, <1>10, <1>11, <1>12, <1>13, <1>14 DEF Settling

(* Every step settles some jobs, is one of the three that open or touch a  *)
(* claim, or leaves the tables alone.                                      *)
LEMMA StepKinds ==
    ASSUME CoreInv, [Next]_vars
    PROVE  \/ \E S \in SUBSET JobIds : Settling(S)
           \/ \E j \in JobIds, type \in Types, key \in Keys, now \in Clock :
                 Enqueue(j, type, key, now)
           \/ \E j \in JobIds, now \in Clock : ClaimNext(j, now)
           \/ \E c \in issued, now \in Clock : Checkpoint(c, now)
           \/ UNCHANGED <<jobs, attempts, issued>>
<1> DEFINE Goal == \/ \E S \in SUBSET JobIds : Settling(S)
                   \/ UNCHANGED <<jobs, attempts, issued>>
<1>1. ASSUME NEW j \in JobIds, NEW now \in Clock, FailUnclaimable(j, now)
      PROVE  Goal
  <2>1. now \in Nat /\ jobs[j].updated \in Nat /\ TypeOK
    BY ConstantsAssumption DEF CoreInv, TypeInv, TypeOK, Row
  <2>2. /\ Later(now, jobs[j].updated) \in Nat
        /\ Later(now, jobs[j].updated) >= jobs[j].updated
    BY <2>1 DEF Later
  <2>3. Active(j) /\ ~Running(j)
    BY <1>1 DEF FailUnclaimable, Selected, Claimable, Active, Running, ActiveStates
  <2>4. attempts' = attempts \cup ClosingIfRunning(j, 0, "failed")
    BY <1>1, <2>3 DEF FailUnclaimable, ClosingIfRunning
  <2>5. "failed" \in {"retry_wait"} \cup TerminalStates /\ Null \in Moments
        /\ "failed" \in Outcomes /\ 0 \in Nat
    BY DEF TerminalStates, Moments, Outcomes
  <2>6. jobs' = [jobs EXCEPT
                   ![j] = Settled(j, "failed", Null, Later(now, jobs[j].updated))]
        /\ issued' = issued
    BY <1>1 DEF FailUnclaimable
  <2>7. Settling({j})
    BY <2>2, <2>3, <2>4, <2>5, <2>6, OneSettles
  <2> QED  BY <2>7
<1>2. ASSUME NEW c \in issued, NEW now \in Clock, Complete(c, now)
      PROVE  Goal
  <2>1. c.job \in JobIds /\ Settling({c.job})
    BY <1>2, FinishSettles DEF Complete, Outcomes, TerminalStates, Moments
  <2> QED  BY <2>1
<1>3. ASSUME NEW c \in issued, NEW now \in Clock, NEW retryable \in BOOLEAN,
             Fail(c, now, retryable)
      PROVE  Goal
  <2>1. PICK next \in IF retryable
                      THEN RetryTimes(jobs[c.job].type, c.ordinal, now, Clock)
                      ELSE {Null} :
               Finish(c, now, "failed",
                      IF next = Null THEN "failed" ELSE "retry_wait", next)
    BY <1>3 DEF Fail
  <2>2. jobs[c.job].type \in Types /\ c.ordinal \in Nat /\ now \in Nat
    BY ConstantsAssumption DEF CoreInv, TypeInv, TypeOK, Claim, Row
  <2>3. next \in Moments
    BY <2>2, RetryTimesType DEF Moments
  <2>4. (IF next = Null THEN "failed" ELSE "retry_wait")
           \in {"retry_wait"} \cup TerminalStates
    BY DEF TerminalStates
  <2>5. c.job \in JobIds /\ Settling({c.job})
    BY <2>1, <2>3, <2>4, FinishSettles DEF Outcomes
  <2> QED  BY <2>5
<1>4. ASSUME NEW j \in JobIds, NEW now \in Clock, Cancel(j, now)
      PROVE  Goal
  <2>1. now \in Nat /\ jobs[j].updated \in Nat
    BY ConstantsAssumption DEF CoreInv, TypeInv, TypeOK, Row
  <2>2. Active(j) /\ now >= jobs[j].updated
    BY <1>4 DEF Cancel
  <2>3. Running(j) => jobs[j].started <= now /\ now <= now
    BY <2>1, <2>2 DEF CoreInv, Timeline, TypeInv, ClaimShape
  <2>4. "cancelled" \in {"retry_wait"} \cup TerminalStates /\ Null \in Moments
        /\ "cancelled" \in Outcomes
    BY DEF TerminalStates, Moments, Outcomes
  <2>5. Settling({j})
    BY <1>4, <2>1, <2>2, <2>3, <2>4, OneSettles DEF Cancel
  <2> QED  BY <2>5
<1>5. ASSUME NEW now \in Clock, ReconcileRestored(now)
      PROVE  Goal
  <2>1. Settling({j \in JobIds : Active(j)})
    BY <1>5, ReconcileSettles
  <2> QED  BY <2>1
<1>6. ASSUME NEW j \in JobIds, RecoverLegacy(j)
      PROVE  Goal
  <2>1. CASE Active(j) /\ jobs[j].legacy
    <3>1. Settling({j})
      BY <1>6, <2>1, DisposeSettles DEF RecoverLegacy, TerminalStates, Moments
    <3> QED  BY <3>1
  <2>2. CASE ~(Active(j) /\ jobs[j].legacy)
    BY <1>6, <2>2 DEF RecoverLegacy
  <2> QED  BY <2>1, <2>2
<1>7. ASSUME NEW j \in JobIds, RecoverStale(j)
      PROVE  Goal
  <2> DEFINE next == IF jobs[j].type \in Registered
                     THEN CrashRetryTime(jobs[j].type, jobs[j].count, recovery.now)
                     ELSE Null
  <2>1. next \in Moments
    BY CrashRetryType DEF CoreInv, TypeInv, TypeOK, Row, Moments
  <2>2. CASE Running(j) /\ jobs[j].run # run
    <3>1. Active(j)
      BY <2>2 DEF Running, Active, ActiveStates
    <3>2. Dispose(j, IF next = Null THEN "failed" ELSE "retry_wait", next)
          /\ issued' = issued
      BY <1>7, <2>2 DEF RecoverStale
    <3>3. (IF next = Null THEN "failed" ELSE "retry_wait")
             \in {"retry_wait"} \cup TerminalStates
      BY DEF TerminalStates
    <3> HIDE DEF next
    <3>4. Settling({j})
      BY <2>1, <3>1, <3>2, <3>3, DisposeSettles
    <3> QED  BY <3>4
  <2>3. CASE ~(Running(j) /\ jobs[j].run # run)
    BY <1>7, <2>3 DEF RecoverStale
  <2> QED  BY <2>2, <2>3
<1>8. ASSUME \/ \E now \in Clock : RecoverBegin(now)
             \/ RecoverListStale \/ RecoverEnd \/ Restart \/ UNCHANGED vars
      PROVE  Goal
  BY <1>8 DEF RecoverBegin, RecoverListStale, RecoverEnd, Restart, vars
<1> QED
  BY <1>1, <1>2, <1>3, <1>4, <1>5, <1>6, <1>7, <1>8 DEF Next, RecoveryStep

LEMMA EnqueueKeepsCore ==
    ASSUME CoreInv, TypeInv', NEW j \in JobIds, NEW type \in Types,
           NEW key \in Keys, NEW now \in Clock, Enqueue(j, type, key, now)
    PROVE  CoreInv'
<1>0. jobs \in [JobIds -> Row] /\ attempts \subseteq Attempt /\ now \in Nat
      /\ issued \subseteq Claim
  BY ConstantsAssumption DEF CoreInv, TypeInv, TypeOK
<1>1. /\ \A i \in JobIds \ {j} : jobs'[i] = jobs[i]
      /\ jobs'[j] = NewRow(type, key, now)
      /\ attempts' = attempts /\ issued' = issued
      /\ jobs[j].state = "none"
  BY <1>0 DEF Enqueue
<1>2. /\ jobs'[j].state = "queued" /\ jobs'[j].count = 0
      /\ jobs'[j].created = now /\ jobs'[j].updated = now
  BY <1>1 DEF NewRow
<1>3. ~Running(j) /\ ~Running(j)' /\ jobs[j].count = 0
  BY <1>1, <1>2 DEF Running, CoreInv, FreshIds
<1>4. \A i \in JobIds : Running(i)' = Running(i) /\ LastClosed(i)' = LastClosed(i)
  BY <1>1, <1>2, <1>3 DEF Running, LastClosed
<1>5. \A a \in attempts : a.job \in JobIds /\ a.job # j
  BY <1>0, <1>3 DEF CoreInv, Ledger, LastClosed, Attempt
<1>6. \A i \in JobIds : Running(i) => jobs'[i] = jobs[i]
  BY <1>1, <1>3
<1>7. FreshIds'
  BY <1>1, <1>2 DEF CoreInv, FreshIds
<1>8. Ledger'
  BY <1>1, <1>4, <1>5, <1>6 DEF CoreInv, Ledger, AttemptAbsent
<1>9. Accounts'
  <2>1. \A i \in JobIds : Running(i) => HeldClaim(i)' = HeldClaim(i)
    BY <1>6 DEF HeldClaim
  <2> QED  BY <1>0, <1>1, <1>4, <2>1 DEF CoreInv, Accounts, Claim
<1>10. Timeline'
  BY <1>0, <1>1, <1>2, <1>4, <1>5, <1>6
     DEF CoreInv, Timeline, AttemptsInSequence, Row
<1> QED  BY <1>7, <1>8, <1>9, <1>10 DEF CoreInv

LEMMA ClaimKeepsCore ==
    ASSUME CoreInv, TypeInv', NEW j \in JobIds, NEW now \in Clock,
           ClaimNext(j, now)
    PROVE  CoreInv'
<1>0. jobs \in [JobIds -> Row] /\ attempts \subseteq Attempt /\ now \in Nat
      /\ issued \subseteq Claim /\ jobs[j].count \in Nat /\ jobs[j].updated \in Nat
  BY ConstantsAssumption DEF CoreInv, TypeInv, TypeOK, Row
<1>1. /\ \A i \in JobIds \ {j} : jobs'[i] = jobs[i]
      /\ jobs'[j].state = "running" /\ jobs'[j].count = jobs[j].count + 1
      /\ jobs'[j].run = run /\ jobs'[j].started = now
      /\ jobs'[j].created = jobs[j].created /\ jobs'[j].updated = now
      /\ attempts' = attempts
  BY <1>0 DEF ClaimNext, Row
<1>2. issued' = issued \cup {HeldClaim(j)'}
  BY <1>1 DEF ClaimNext, HeldClaim
<1>3. ~Running(j) /\ Running(j)' /\ now >= jobs[j].created /\ now >= jobs[j].updated
  BY <1>1 DEF ClaimNext, Selected, Claimable, Running
<1>4. \A i \in JobIds \ {j} : Running(i)' = Running(i)
  BY <1>1 DEF Running
<1>5. \A i \in JobIds : LastClosed(i)' = LastClosed(i)
  <2>1. LastClosed(j)' = LastClosed(j)
    BY <1>0, <1>1, <1>3 DEF LastClosed
  <2> QED  BY <1>1, <1>4, <2>1 DEF LastClosed
<1>6. FreshIds'
  BY <1>1 DEF CoreInv, FreshIds
<1>7. Ledger'
  <2>1. \A i \in JobIds : Running(i)' => jobs'[i].count >= 1
    BY <1>0, <1>1, <1>4 DEF CoreInv, Ledger
  <2> QED  BY <1>0, <1>1, <1>5, <2>1 DEF CoreInv, Ledger, AttemptAbsent, Attempt
<1>8. Accounts'
  <2>1. \A i \in JobIds \ {j} : HeldClaim(i)' = HeldClaim(i)
    BY <1>1 DEF HeldClaim
  <2>2. HeldClaim(j)'.job = j
    BY DEF HeldClaim
  <2>3. \A c \in issued : \/ Running(c.job)' /\ c = HeldClaim(c.job)'
                          \/ \E a \in attempts : c = ClaimOf(a)
    BY <1>0, <1>3, <1>4, <2>1 DEF CoreInv, Accounts, Claim
  <2>4. \A i \in JobIds : Running(i)' => HeldClaim(i)' \in issued'
    BY <1>2, <1>4, <2>1 DEF CoreInv, Accounts
  <2>5. \A a \in attempts : ClaimOf(a) \in issued'
    BY <1>2 DEF CoreInv, Accounts
  <2> QED  BY <1>1, <1>2, <1>3, <2>2, <2>3, <2>4, <2>5 DEF Accounts
<1>9. Timeline'
  <2>1. \A i \in JobIds : jobs'[i].created <= jobs'[i].updated
    BY <1>0, <1>1, <1>3 DEF CoreInv, Timeline, Row
  <2>2. \A i \in JobIds : Running(i)' => jobs'[i].started <= jobs'[i].updated
    BY <1>0, <1>1, <1>4 DEF CoreInv, Timeline
  <2>3. \A a \in attempts : a.finished <= jobs'[a.job].updated
    BY <1>0, <1>1, <1>3 DEF CoreInv, Timeline, Attempt
  <2>4. \A a \in attempts : Running(a.job)' => a.finished <= jobs'[a.job].started
    BY <1>0, <1>1, <1>4, <2>3 DEF CoreInv, Timeline, AttemptsInSequence, Attempt
  <2> QED  BY <1>1, <2>1, <2>2, <2>3, <2>4
              DEF CoreInv, Timeline, AttemptsInSequence
<1> QED  BY <1>6, <1>7, <1>8, <1>9 DEF CoreInv

LEMMA CheckpointKeepsCore ==
    ASSUME CoreInv, TypeInv', NEW c \in issued, NEW now \in Clock,
           Checkpoint(c, now)
    PROVE  CoreInv'
<1> DEFINE j == c.job
<1>0. jobs \in [JobIds -> Row] /\ attempts \subseteq Attempt /\ now \in Nat
      /\ issued \subseteq Claim /\ j \in JobIds /\ jobs[j].updated \in Nat
  BY ConstantsAssumption DEF CoreInv, TypeInv, TypeOK, Row, Claim
<1>1. /\ \A i \in JobIds \ {j} : jobs'[i] = jobs[i]
      /\ jobs'[j].state = jobs[j].state /\ jobs'[j].count = jobs[j].count
      /\ jobs'[j].run = jobs[j].run /\ jobs'[j].started = jobs[j].started
      /\ jobs'[j].created = jobs[j].created /\ jobs'[j].updated = now
      /\ attempts' = attempts /\ issued' = issued
      /\ now >= jobs[j].updated
  BY <1>0 DEF Checkpoint, NonRegressing, Row
<1> HIDE DEF j
<1>2. \A i \in JobIds :
         /\ Running(i)' = Running(i) /\ LastClosed(i)' = LastClosed(i)
         /\ HeldClaim(i)' = HeldClaim(i) /\ jobs'[i].count = jobs[i].count
         /\ jobs'[i].state = jobs[i].state /\ jobs'[i].started = jobs[i].started
  BY <1>0, <1>1 DEF Running, LastClosed, HeldClaim
<1>3. FreshIds'
  BY <1>2 DEF CoreInv, FreshIds
<1>4. Ledger'
  BY <1>0, <1>1, <1>2 DEF CoreInv, Ledger, AttemptAbsent, Attempt
<1>5. Accounts'
  BY <1>0, <1>1, <1>2 DEF CoreInv, Accounts, Claim
<1>6. Timeline'
  <2>1. \A i \in JobIds : /\ jobs'[i].updated >= jobs[i].updated
                          /\ jobs'[i].created = jobs[i].created
                          /\ jobs'[i].updated \in Nat /\ jobs[i].updated \in Nat
                          /\ jobs[i].created \in Nat
    BY <1>0, <1>1 DEF Row
  <2>2. \A i \in JobIds : jobs'[i].created <= jobs'[i].updated
    BY <2>1 DEF CoreInv, Timeline
  <2>3. \A i \in JobIds : Running(i)' => jobs'[i].started <= jobs'[i].updated
    BY <1>2, <2>1 DEF CoreInv, Timeline, TypeInv, ClaimShape
  <2>4. \A a \in attempts : a.finished <= jobs'[a.job].updated
    BY <1>0, <2>1 DEF CoreInv, Timeline, Attempt
  <2>5. AttemptsInSequence'
    BY <1>0, <1>1, <1>2 DEF CoreInv, Timeline, AttemptsInSequence, Attempt
  <2> QED  BY <1>1, <2>2, <2>3, <2>4, <2>5 DEF Timeline
<1> QED  BY <1>3, <1>4, <1>5, <1>6 DEF CoreInv

LEMMA UnchangedKeepsCore ==
    ASSUME CoreInv, TypeInv', UNCHANGED <<jobs, attempts, issued>>
    PROVE  CoreInv'
BY DEF CoreInv, FreshIds, Ledger, Accounts, Timeline, AttemptsInSequence,
       LastClosed, AttemptAbsent, Running, HeldClaim, ClaimOf

LEMMA CoreNext == CoreInv /\ [Next]_vars => CoreInv'
<1> SUFFICES ASSUME CoreInv, [Next]_vars PROVE CoreInv'
  OBVIOUS
<1>1. TypeInv'
  BY TypeNext DEF CoreInv
<1> QED
  BY <1>1, StepKinds, SettlingKeepsCore, EnqueueKeepsCore, ClaimKeepsCore,
     CheckpointKeepsCore, UnchangedKeepsCore

LEMMA SeedFacts ==
    ASSUME NEW row \in {NoRow} \cup Seeds
    PROVE  /\ row.state \in {"none", "queued", "running"}
           /\ row.state # "running" => row.count = 0
           /\ row.state = "running" =>
                 row.count = 1 /\ row.run = 0 /\ row.started = SeedTime
                 /\ row.updated = SeedTime
           /\ row.created = row.updated /\ row.checkpoint = 0
<1>1. ASSUME NEW t \in Types, NEW k \in Keys, NEW l \in BOOLEAN
      PROVE  /\ SeedRow(t, k, l).state = "queued"
             /\ SeedRow(t, k, l).count = 0
             /\ SeedRow(t, k, l).created = SeedTime
             /\ SeedRow(t, k, l).updated = SeedTime
             /\ SeedRow(t, k, l).checkpoint = 0
             /\ ClaimedSeedRow(t, k, l).state = "running"
             /\ ClaimedSeedRow(t, k, l).count = 1
             /\ ClaimedSeedRow(t, k, l).run = 0
             /\ ClaimedSeedRow(t, k, l).started = SeedTime
             /\ ClaimedSeedRow(t, k, l).created = SeedTime
             /\ ClaimedSeedRow(t, k, l).updated = SeedTime
             /\ ClaimedSeedRow(t, k, l).checkpoint = 0
  BY DEF SeedRow, ClaimedSeedRow, NewRow
<1>2. NoRow.state = "none" /\ NoRow.count = 0 /\ NoRow.created = NoRow.updated
      /\ NoRow.checkpoint = 0
  BY DEF NoRow, NewRow
<1>3. CASE row = NoRow
  BY <1>2, <1>3
<1>4. CASE row \in Seeds
  BY <1>1, <1>4 DEF Seeds
<1> QED  BY <1>3, <1>4

LEMMA CoreInit == Init => CoreInv
<1> SUFFICES ASSUME Init PROVE CoreInv
  OBVIOUS
<1>1. TypeInv
  BY TypeInit
<1>2. \A j \in JobIds :
           /\ jobs[j].state # "running" => jobs[j].count = 0
           /\ jobs[j].state = "running" =>
                 jobs[j].count = 1 /\ jobs[j].run = 0 /\ jobs[j].started = SeedTime
                 /\ jobs[j].updated = SeedTime
           /\ jobs[j].created = jobs[j].updated
           /\ jobs[j].created \in Nat
  BY <1>1, SeedFacts DEF Init, TypeInv, TypeOK, Row
<1>3. attempts = {}
  BY DEF Init
<1>4. FreshIds
  BY <1>2 DEF FreshIds
<1>5. Ledger
  <2>1. \A j \in JobIds : LastClosed(j) = 0
    BY <1>2 DEF LastClosed, Running
  <2> QED  BY <1>2, <1>3, <2>1 DEF Ledger, Running
<1>6. Accounts
  <2>1. \A j \in JobIds : Running(j) =>
           HeldClaim(j) = [job |-> j, ordinal |-> jobs[j].count, run |-> 0,
                           started |-> SeedTime]
    BY <1>2 DEF HeldClaim, Running
  <2>2. issued = {HeldClaim(j) : j \in {i \in JobIds : Running(i)}}
    BY <2>1 DEF Init, Running
  <2>3. \A j \in JobIds : HeldClaim(j).job = j
    BY DEF HeldClaim
  <2> HIDE DEF HeldClaim
  <2> QED  BY <1>3, <2>2, <2>3 DEF Accounts
<1>7. Timeline
  BY <1>2, <1>3, ConstantsAssumption DEF Timeline, AttemptsInSequence, Running
<1> QED  BY <1>1, <1>4, <1>5, <1>6, <1>7 DEF CoreInv

(* Every reachable state satisfies the inductive invariant of the job      *)
(* tables.                                                                 *)
THEOREM CoreInvariant == Spec => []CoreInv
BY CoreInit, CoreNext, PTL DEF Spec

(* The attempt history of every job is gap-free, one row per ordinal,      *)
(* complete up to the claim in progress: coordinator.py settles every      *)
(* claim exactly once.                                                     *)
THEOREM LedgerHolds == Spec => []AttemptLedger
<1>1. CoreInv => AttemptLedger
  <2> SUFFICES ASSUME CoreInv PROVE AttemptLedger
    OBVIOUS
  <2>1. ASSUME NEW j \in JobIds
        PROVE  {a.ordinal : a \in {b \in attempts : b.job = j}} = 1 .. LastClosed(j)
    <3>1. LastClosed(j) \in Int /\ \A a \in attempts : a.ordinal \in Nat
      BY DEF CoreInv, TypeInv, TypeOK, Row, Attempt, LastClosed
    <3>2. \A a \in attempts : a.job = j =>
             a.ordinal >= 1 /\ a.ordinal <= LastClosed(j)
      BY DEF CoreInv, Ledger
    <3>3. \A n \in 1 .. LastClosed(j) :
             \E a \in attempts : a.job = j /\ a.ordinal = n
      BY <3>1 DEF CoreInv, Ledger, AttemptAbsent
    <3> QED  BY <3>1, <3>2, <3>3
  <2> QED  BY <2>1 DEF AttemptLedger, CoreInv, Ledger
<1> QED  BY <1>1, CoreInvariant, PTL

(* Every claim ever handed out is held or closed, never both, and nothing  *)
(* else is held or closed.                                                 *)
THEOREM ClaimsAccountedHolds == Spec => []ClaimsAccounted
<1>1. CoreInv => ClaimsAccounted
  <2> SUFFICES ASSUME CoreInv PROVE ClaimsAccounted
    OBVIOUS
  <2> DEFINE closed == {ClaimOf(a) : a \in attempts}
             held   == {HeldClaim(j) : j \in {i \in JobIds : Running(i)}}
  <2>1. \A c \in issued : c.job \in JobIds
    BY DEF CoreInv, TypeInv, TypeOK, Claim
  <2>2. issued = closed \cup held
    BY <2>1 DEF CoreInv, Accounts
  <2>3. ASSUME NEW a \in attempts, NEW j \in JobIds, Running(j),
               ClaimOf(a) = HeldClaim(j)
        PROVE  FALSE
    <3>1. a.job = j /\ a.ordinal = jobs[j].count
      BY <2>3 DEF ClaimOf, HeldClaim
    <3> QED  BY <2>3, <3>1, HeldIsOpen DEF AttemptAbsent
  <2>4. closed \cap held = {}
    BY <2>3
  <2> QED  BY <2>2, <2>4 DEF ClaimsAccounted
<1> QED  BY <1>1, CoreInvariant, PTL

(* One attempt of a job ends before the next begins, whatever the clock    *)
(* readings.                                                               *)
THEOREM SequenceHolds == Spec => []AttemptsInSequence
<1>1. CoreInv => AttemptsInSequence
  BY DEF CoreInv, Timeline
<1> QED  BY <1>1, CoreInvariant, PTL

-----------------------------------------------------------------------------
(* enqueue_or_coalesce: at most one row answers for a (type, key) identity. *)
THEOREM IdentityHolds == Spec => []OneJobPerIdentity
<1> DEFINE Inv == CoreInv /\ OneJobPerIdentity
<1>1. Init => Inv
  BY CoreInit DEF Init, OneJobPerIdentity
<1>2. ASSUME Inv, [Next]_vars PROVE OneJobPerIdentity'
  <2>0. jobs \in [JobIds -> Row] /\ CoreInv
    BY <1>2 DEF CoreInv, TypeInv, TypeOK
  <2> SUFFICES ASSUME NEW j \in JobIds, NEW k \in JobIds, j # k,
                      Duplicates(jobs'[j], jobs'[k])
               PROVE  FALSE
    BY DEF OneJobPerIdentity
  <2> DEFINE Kept(i) == /\ jobs'[i].type = jobs[i].type
                        /\ jobs'[i].key = jobs[i].key
                        /\ jobs'[i].legacy = jobs[i].legacy
                        /\ jobs'[i].state \in CoalesceStates(jobs[i].type)
                              => jobs[i].state \in CoalesceStates(jobs[i].type)
  <2>1. ASSUME Kept(j), Kept(k) PROVE FALSE
    BY <1>2, <2>1 DEF OneJobPerIdentity, Duplicates, SameIdentity
  <2>2. CASE \E S \in SUBSET JobIds : Settling(S)
    BY <2>1, <2>2 DEF Settling, Active, CoalesceStates
  <2>3. CASE \E i \in JobIds, now \in Clock : ClaimNext(i, now)
    <3>1. PICK i \in JobIds, now \in Clock : ClaimNext(i, now)
      BY <2>3
    <3>2. jobs[i].state \in ActiveStates
      BY <3>1 DEF ClaimNext, Selected, Claimable, ActiveStates
    <3>3. /\ jobs'[i].type = jobs[i].type /\ jobs'[i].key = jobs[i].key
          /\ jobs'[i].legacy = jobs[i].legacy
          /\ \A m \in JobIds \ {i} : jobs'[m] = jobs[m]
      BY <2>0, <3>1 DEF ClaimNext, Row
    <3> QED  BY <2>1, <3>2, <3>3 DEF CoalesceStates
  <2>4. CASE \E c \in issued, now \in Clock : Checkpoint(c, now)
    <3>1. PICK c \in issued, now \in Clock : Checkpoint(c, now)
      BY <2>4
    <3>2. c.job \in JobIds
      BY <2>0 DEF CoreInv, TypeInv, TypeOK, Claim
    <3>3. /\ jobs'[c.job].type = jobs[c.job].type
          /\ jobs'[c.job].key = jobs[c.job].key
          /\ jobs'[c.job].legacy = jobs[c.job].legacy
          /\ jobs'[c.job].state = jobs[c.job].state
          /\ \A m \in JobIds \ {c.job} : jobs'[m] = jobs[m]
      BY <2>0, <3>1, <3>2 DEF Checkpoint, Row
    <3> QED  BY <2>1, <3>3
  <2>5. CASE \E i \in JobIds, type \in Types, key \in Keys, now \in Clock :
                Enqueue(i, type, key, now)
    <3>1. PICK i \in JobIds, type \in Types, key \in Keys, now \in Clock :
                Enqueue(i, type, key, now)
      BY <2>5
    <3>2. /\ jobs'[i].type = type /\ jobs'[i].key = key
          /\ \A m \in JobIds \ {i} : jobs'[m] = jobs[m]
      BY <2>0, <3>1 DEF Enqueue, NewRow
    <3>3. \A m \in JobIds : ~(/\ jobs[m].state \in CoalesceStates(type)
                              /\ jobs[m].type = type /\ jobs[m].key = key
                              /\ ~jobs[m].legacy)
      BY <3>1 DEF Enqueue, Coalesces
    <3>4. CASE i \notin {j, k}
      BY <2>1, <3>2, <3>4
    <3>5. CASE i = j
      BY <3>2, <3>3, <3>5 DEF Duplicates, SameIdentity
    <3>6. CASE i = k
      BY <3>2, <3>3, <3>6 DEF Duplicates, SameIdentity
    <3> QED  BY <3>4, <3>5, <3>6
  <2>6. CASE UNCHANGED <<jobs, attempts, issued>>
    BY <2>1, <2>6
  <2> QED  BY <1>2, <2>0, <2>2, <2>3, <2>4, <2>5, <2>6, StepKinds
<1>3. Inv /\ [Next]_vars => Inv'
  BY <1>2, CoreNext
<1> QED  BY <1>1, <1>3, PTL DEF Spec

-----------------------------------------------------------------------------
(* What one step may do to one row, for the action properties. *)
LEMMA RowStep ==
    ASSUME CoreInv, [Next]_vars, NEW j \in JobIds, jobs'[j] # jobs[j]
    PROVE  /\ jobs[j].state \notin TerminalStates
           /\ jobs[j].state # "none" => jobs'[j].updated >= jobs[j].updated
           /\ jobs'[j].checkpoint # jobs[j].checkpoint =>
                 \/ jobs[j].state = "none" /\ jobs'[j].checkpoint = 0
                 \/ Running(j) /\ jobs'[j].checkpoint = jobs[j].count
           /\ jobs[j].state # "none" => jobs'[j].count >= jobs[j].count
           /\ jobs[j].state = "none" => jobs'[j].checkpoint = 0
<1>0. jobs \in [JobIds -> Row] /\ jobs[j].updated \in Nat /\ jobs[j].count \in Nat
  BY DEF CoreInv, TypeInv, TypeOK, Row
<1>1. CASE \E S \in SUBSET JobIds : Settling(S)
  BY <1>0, <1>1 DEF Settling, Active, ActiveStates, TerminalStates
<1>2. CASE \E i \in JobIds, now \in Clock : ClaimNext(i, now)
  <2>1. PICK i \in JobIds, now \in Clock : ClaimNext(i, now)
    BY <1>2
  <2>2. i = j /\ now >= jobs[j].updated /\ jobs[j].state \in {"queued", "retry_wait"}
    BY <1>0, <2>1 DEF ClaimNext, Selected, Claimable
  <2>3. /\ jobs'[j].updated = now /\ jobs'[j].count = jobs[j].count + 1
        /\ jobs'[j].checkpoint = jobs[j].checkpoint
    BY <1>0, <2>1, <2>2 DEF ClaimNext, Row
  <2> QED  BY <1>0, <2>2, <2>3 DEF TerminalStates
<1>3. CASE \E c \in issued, now \in Clock : Checkpoint(c, now)
  <2>1. PICK c \in issued, now \in Clock : Checkpoint(c, now)
    BY <1>3
  <2>2. /\ c.job = j /\ jobs[j].state = "running" /\ c.ordinal = jobs[j].count
        /\ now >= jobs[j].updated
    BY <1>0, <2>1 DEF Checkpoint, VerifyClaim, NonRegressing
  <2>3. /\ jobs'[j].updated = now /\ jobs'[j].count = jobs[j].count
        /\ jobs'[j].checkpoint = c.ordinal
    BY <1>0, <2>1, <2>2 DEF Checkpoint, Row
  <2> QED  BY <1>0, <2>2, <2>3 DEF TerminalStates, Running
<1>4. CASE \E i \in JobIds, type \in Types, key \in Keys, now \in Clock :
              Enqueue(i, type, key, now)
  BY <1>0, <1>4 DEF Enqueue, NewRow, TerminalStates
<1>5. CASE UNCHANGED <<jobs, attempts, issued>>
  BY <1>5
<1> QED  BY <1>1, <1>2, <1>3, <1>4, <1>5, StepKinds

(* No late worker, recovery or cancellation touches a finished job. *)
THEOREM FinalIsFinalHolds == Spec => FinalIsFinal
<1>1. CoreInv /\ [Next]_vars =>
        [\A j \in JobIds : jobs[j].state \in TerminalStates => jobs'[j] = jobs[j]]_vars
  BY RowStep
<1> QED  BY <1>1, CoreInvariant, PTL DEF Spec, FinalIsFinal

(* updated_at_utc never goes back, even when the clock does. *)
THEOREM UpdatedMonotoneHolds == Spec => UpdatedMonotone
<1>1. CoreInv /\ [Next]_vars =>
        [\A j \in JobIds : jobs[j].state # "none" =>
            jobs'[j].updated >= jobs[j].updated]_vars
  <2> SUFFICES ASSUME CoreInv, [Next]_vars, NEW j \in JobIds,
                      jobs[j].state # "none"
               PROVE  jobs'[j].updated >= jobs[j].updated
    OBVIOUS
  <2>1. jobs[j].updated \in Nat
    BY DEF CoreInv, TypeInv, TypeOK, Row
  <2> QED  BY <2>1, RowStep
<1> QED  BY <1>1, CoreInvariant, PTL DEF Spec, UpdatedMonotone

(* Only the attempt in progress writes the checkpoint. *)
THEOREM CheckpointFencedHolds == Spec => CheckpointFenced
<1> DEFINE Bounded == \A j \in JobIds : jobs[j].checkpoint <= jobs[j].count
           A == \A j \in JobIds :
                  jobs'[j].checkpoint # jobs[j].checkpoint =>
                      /\ jobs'[j].checkpoint >= jobs[j].checkpoint
                      /\ AttemptAbsent(j, jobs'[j].checkpoint)
<1>1. Init => Bounded
  <2> SUFFICES ASSUME Init, NEW j \in JobIds PROVE jobs[j].checkpoint <= jobs[j].count
    OBVIOUS
  <2>1. jobs[j].checkpoint = 0 /\ jobs[j].count \in Nat
    BY TypeInit, SeedFacts DEF Init, TypeInv, TypeOK, Row
  <2> QED  BY <2>1
<1>2. CoreInv /\ Bounded /\ [Next]_vars => Bounded' /\ A
  <2> SUFFICES ASSUME CoreInv, Bounded, [Next]_vars, NEW j \in JobIds
               PROVE  /\ jobs'[j].checkpoint <= jobs'[j].count
                      /\ jobs'[j].checkpoint # jobs[j].checkpoint =>
                           /\ jobs'[j].checkpoint >= jobs[j].checkpoint
                           /\ AttemptAbsent(j, jobs'[j].checkpoint)
    OBVIOUS
  <2>1. /\ jobs[j].checkpoint \in Nat /\ jobs[j].count \in Nat
        /\ jobs[j].checkpoint <= jobs[j].count
    BY DEF CoreInv, TypeInv, TypeOK, Row
  <2>2. jobs'[j].checkpoint \in Nat /\ jobs'[j].count \in Nat
    BY TypeNext DEF CoreInv, TypeInv, TypeOK, Row
  <2>3. CASE jobs'[j] = jobs[j]
    BY <2>1, <2>3
  <2>4. CASE jobs'[j] # jobs[j]
    <3>1. CASE jobs[j].state = "none"
      <4>1. jobs'[j].checkpoint = 0 /\ jobs[j].count = 0
        BY <2>4, <3>1, RowStep DEF CoreInv, FreshIds
      <4> QED  BY <2>1, <2>2, <4>1
    <3>2. CASE jobs[j].state # "none"
      BY <2>1, <2>2, <2>4, <3>2, RowStep, HeldIsOpen
    <3> QED  BY <3>1, <3>2
  <2> QED  BY <2>3, <2>4
<1>3. CoreInv /\ Bounded /\ [Next]_vars => Bounded' /\ [A]_vars
  BY <1>2
<1> QED  BY <1>1, <1>3, CoreInvariant, PTL DEF Spec, CheckpointFenced

-----------------------------------------------------------------------------
(* recover_stale_claims.  Its lists are read before its changes, so the    *)
(* argument is that nothing joins them later: what still needs recovery is *)
(* on the list until it is dealt with.                                     *)
Unidentified(j) == Active(j) /\ jobs[j].legacy

RecoveryInv ==
    /\ recovery.phase = "legacy" =>
          \A j \in JobIds : Unidentified(j) => j \in recovery.todo
    /\ recovery.phase \in {"stale", "done"} => \A j \in JobIds : ~Unidentified(j)
    /\ recovery.phase = "stale" => \A j \in JobIds : Stale(j) => j \in recovery.todo
    /\ recovery.phase = "done" => \A j \in JobIds : ~Stale(j)

LEMMA NothingNewToRecover ==
    ASSUME CoreInv, [Next]_vars, run' = run, NEW j \in JobIds
    PROVE  /\ Stale(j)' => Stale(j)
           /\ Unidentified(j)' => Unidentified(j)
<1>0. jobs \in [JobIds -> Row]
  BY DEF CoreInv, TypeInv, TypeOK
<1> USE DEF Stale, Unidentified, Running, Active
<1>1. CASE \E S \in SUBSET JobIds : Settling(S)
  BY <1>0, <1>1 DEF Settling, TerminalStates, ActiveStates
<1>2. CASE \E i \in JobIds, now \in Clock : ClaimNext(i, now)
  <2>1. PICK i \in JobIds, now \in Clock : ClaimNext(i, now)
    BY <1>2
  <2>2. CASE i = j
    <3>1. jobs'[j].run = run /\ jobs'[j].legacy = jobs[j].legacy /\ ~jobs[j].legacy
      BY <1>0, <2>1, <2>2 DEF ClaimNext, Row
    <3> QED  BY <3>1
  <2>3. CASE i # j
    BY <1>0, <2>1, <2>3 DEF ClaimNext
  <2> QED  BY <2>2, <2>3
<1>3. CASE \E c \in issued, now \in Clock : Checkpoint(c, now)
  <2>1. PICK c \in issued, now \in Clock : Checkpoint(c, now)
    BY <1>3
  <2>2. /\ jobs'[j].state = jobs[j].state /\ jobs'[j].run = jobs[j].run
        /\ jobs'[j].legacy = jobs[j].legacy
    BY <1>0, <2>1 DEF Checkpoint, Row
  <2> QED  BY <2>2
<1>4. CASE \E i \in JobIds, type \in Types, key \in Keys, now \in Clock :
              Enqueue(i, type, key, now)
  BY <1>0, <1>4 DEF Enqueue, NewRow
<1>5. CASE UNCHANGED <<jobs, attempts, issued>>
  BY <1>5
<1> QED  BY <1>1, <1>2, <1>3, <1>4, <1>5, StepKinds

(* A job that recovery disposes of is neither running nor active legacy.   *)
LEMMA DisposeClears ==
    ASSUME CoreInv, NEW j \in JobIds, Active(j),
           NEW state \in {"retry_wait"} \cup TerminalStates,
           NEW next \in Moments, Dispose(j, state, next)
    PROVE  jobs'[j].state = state
<1>1. Later(recovery.now, jobs[j].updated) \in Nat /\ TypeOK
  BY DEF CoreInv, TypeInv, TypeOK, Row, Later
<1>2. state \in States
  BY DEF States, ActiveStates
<1>3. jobs'[j] = Settled(j, state, next, Later(recovery.now, jobs[j].updated))
  BY <1>1 DEF Dispose, TypeOK
<1> QED  BY <1>1, <1>2, <1>3, SettledType

(* When recover_stale_claims has returned, nothing is left to recover. *)
THEOREM RecoveryCompleteHolds == Spec => []RecoveryComplete
<1>1. Init => RecoveryInv
  BY DEF Init, Idle, RecoveryInv
<1>2. ASSUME CoreInv, RecoveryInv, [Next]_vars PROVE RecoveryInv'
  <2>1. ASSUME recovery' = recovery, run' = run PROVE RecoveryInv'
    BY <1>2, <2>1, NothingNewToRecover DEF RecoveryInv
  <2>2. ASSUME NEW now \in Clock, RecoverBegin(now) PROVE RecoveryInv'
    BY <2>2 DEF RecoverBegin, RecoveryInv, Unidentified, Active
  <2>3. ASSUME NEW j \in JobIds, RecoverLegacy(j) PROVE RecoveryInv'
    <3>1. recovery'.phase = "legacy" /\ recovery'.todo = recovery.todo \ {j}
          /\ run' = run /\ recovery.phase = "legacy"
      BY <1>2, <2>3 DEF RecoverLegacy, CoreInv, TypeInv, TypeOK
    <3>2. ~Unidentified(j)'
      <4>1. CASE Unidentified(j)
        <5>1. "failed" \in {"retry_wait"} \cup TerminalStates /\ Null \in Moments
          BY DEF TerminalStates, Moments
        <5>2. Active(j) /\ Dispose(j, "failed", Null)
          BY <2>3, <4>1 DEF RecoverLegacy, Unidentified
        <5>3. jobs'[j].state = "failed"
          BY <1>2, <5>1, <5>2, DisposeClears
        <5> QED  BY <5>3 DEF Unidentified, Active, ActiveStates
      <4>2. CASE ~Unidentified(j)
        BY <1>2, <3>1, <4>2, NothingNewToRecover
      <4> QED  BY <4>1, <4>2
    <3> QED  BY <1>2, <3>1, <3>2, NothingNewToRecover DEF RecoveryInv
  <2>4. ASSUME RecoverListStale PROVE RecoveryInv'
    <3>1. recovery'.phase = "stale" /\ recovery.phase = "legacy"
          /\ recovery.todo = {} /\ UNCHANGED <<jobs, run>>
          /\ recovery'.todo = {j \in JobIds : /\ Running(j)
                                              /\ ~jobs[j].legacy
                                              /\ jobs[j].run # run}
      BY <1>2, <2>4 DEF RecoverListStale, CoreInv, TypeInv, TypeOK
    <3>2. \A j \in JobIds : ~Unidentified(j)
      BY <1>2, <3>1 DEF RecoveryInv
    <3> QED  BY <3>1, <3>2 DEF RecoveryInv, Stale, Running, Unidentified, Active,
                               ActiveStates
  <2>5. ASSUME NEW j \in JobIds, RecoverStale(j) PROVE RecoveryInv'
    <3>1. recovery'.phase = "stale" /\ recovery'.todo = recovery.todo \ {j}
          /\ run' = run /\ recovery.phase = "stale"
      BY <1>2, <2>5 DEF RecoverStale, CoreInv, TypeInv, TypeOK
    <3>2. ~Stale(j)'
      <4>1. CASE Stale(j)
        <5> DEFINE next == IF jobs[j].type \in Registered
                           THEN CrashRetryTime(jobs[j].type, jobs[j].count,
                                               recovery.now)
                           ELSE Null
                   state == IF next = Null THEN "failed" ELSE "retry_wait"
        <5>1. next \in Moments
          BY <1>2, CrashRetryType DEF CoreInv, TypeInv, TypeOK, Row, Moments
        <5>2. state \in {"retry_wait"} \cup TerminalStates /\ state # "running"
          BY DEF TerminalStates
        <5>3. Active(j) /\ Dispose(j, state, next)
          BY <2>5, <4>1 DEF RecoverStale, Stale, Running, Active, ActiveStates
        <5> HIDE DEF next, state
        <5>4. jobs'[j].state = state
          BY <1>2, <5>1, <5>2, <5>3, DisposeClears
        <5> QED  BY <5>2, <5>4 DEF Stale, Running
      <4>2. CASE ~Stale(j)
        BY <1>2, <3>1, <4>2, NothingNewToRecover
      <4> QED  BY <4>1, <4>2
    <3> QED  BY <1>2, <3>1, <3>2, NothingNewToRecover DEF RecoveryInv
  <2>6. ASSUME RecoverEnd PROVE RecoveryInv'
    <3>1. recovery'.phase = "done" /\ recovery.phase = "stale"
          /\ recovery.todo = {} /\ UNCHANGED <<jobs, run>>
      BY <1>2, <2>6 DEF RecoverEnd, CoreInv, TypeInv, TypeOK
    <3> QED  BY <1>2, <3>1 DEF RecoveryInv, Stale, Running, Unidentified, Active
  <2>7. ASSUME Restart PROVE RecoveryInv'
    BY <2>7 DEF Restart, Idle, RecoveryInv
  <2> QED
    BY <1>2, <2>1, <2>2, <2>3, <2>4, <2>5, <2>6, <2>7
       DEF Next, RecoveryStep, Enqueue, ClaimNext, FailUnclaimable, Checkpoint,
           Complete, Fail, Finish, Cancel, ReconcileRestored, vars
<1>3. CoreInv /\ RecoveryInv /\ [Next]_vars => RecoveryInv'
  BY <1>2
<1>4. RecoveryInv => RecoveryComplete
  BY DEF RecoveryInv, RecoveryComplete, Unidentified
<1> QED  BY <1>1, <1>3, <1>4, CoreInvariant, PTL DEF Spec

-----------------------------------------------------------------------------
(* The retry budget.  A row leaves "running" for "retry_wait" through a    *)
(* retryable failure within the table, or through recovery; beyond the     *)
(* table only a report is sent back, and then the attempt that was closed  *)
(* was a lost claim.  The budget itself is not inductive: the row that     *)
(* waits with its budget spent must be known to be such a report before    *)
(* the next claim raises its count.                                        *)
Spent(j) ==
    /\ jobs[j].type = "sla_report"
    /\ \A a \in attempts :
          /\ a.job = j
          /\ a.ordinal > MaxRetries(jobs[j].type)
          /\ a.ordinal < jobs[j].count
          => a.outcome = "interrupted"

LastInterrupted(j) ==
    \A a \in attempts :
        a.job = j /\ a.ordinal = jobs[j].count => a.outcome = "interrupted"

BudgetInv ==
    \A j \in JobIds :
        /\ jobs[j].state = "queued" => jobs[j].count = 0
        /\ jobs[j].count > MaxRetries(jobs[j].type) + 1 => Spent(j)
        /\ jobs[j].state = "retry_wait" /\ jobs[j].count > MaxRetries(jobs[j].type)
              => Spent(j) /\ LastInterrupted(j)

(* fail and recover_stale_claims are the only ways into retry_wait: what   *)
(* the contracts let through. *)
LEMMA EntersRetryWait ==
    ASSUME CoreInv, [Next]_vars, NEW j \in JobIds,
           jobs'[j] # jobs[j], jobs'[j].state = "retry_wait"
    PROVE  /\ Running(j)
           /\ \/ jobs[j].count <= MaxRetries(jobs[j].type)
              \/ /\ jobs[j].type = "sla_report"
                 /\ \A a \in attempts' \ attempts : a.outcome = "interrupted"
<1> DEFINE Goal == /\ Running(j)
                   /\ \/ jobs[j].count <= MaxRetries(jobs[j].type)
                      \/ /\ jobs[j].type = "sla_report"
                         /\ \A a \in attempts' \ attempts : a.outcome = "interrupted"
<1>0. /\ jobs \in [JobIds -> Row] /\ issued \subseteq Claim /\ TypeOK
      /\ jobs[j].count \in Nat /\ MaxRetries(jobs[j].type) \in Nat
  BY DEF CoreInv, TypeInv, TypeOK, Row, MaxRetries
<1>1. ASSUME NEW c \in issued, NEW now \in Clock, NEW retryable \in BOOLEAN,
             Fail(c, now, retryable)
      PROVE  Goal
  <2>1. PICK next \in IF retryable
                      THEN RetryTimes(jobs[c.job].type, c.ordinal, now, Clock)
                      ELSE {Null} :
               Finish(c, now, "failed",
                      IF next = Null THEN "failed" ELSE "retry_wait", next)
    BY <1>1 DEF Fail
  <2>2. c.job = j /\ Running(j) /\ c.ordinal = jobs[j].count
    BY <1>0, <2>1 DEF Finish, VerifyClaim, Running
  <2>3. next # Null
    <3>1. jobs'[j].state = IF next = Null THEN "failed" ELSE "retry_wait"
      BY <1>0, <2>1, <2>2 DEF Finish, Settled, Row
    <3> QED  BY <3>1
  <2>4. c.ordinal <= MaxRetries(jobs[j].type)
    BY <1>0, <2>2, <2>3 DEF RetryTimes
  <2> QED  BY <2>2, <2>4
<1>2. ASSUME NEW i \in JobIds, RecoverStale(i)
      PROVE  Goal
  <2> DEFINE next == IF jobs[i].type \in Registered
                     THEN CrashRetryTime(jobs[i].type, jobs[i].count, recovery.now)
                     ELSE Null
             state == IF next = Null THEN "failed" ELSE "retry_wait"
  <2>1. i = j /\ Running(j) /\ Dispose(j, state, next)
    BY <1>0, <1>2 DEF RecoverStale, Dispose
  <2>2. next # Null
    <3>1. jobs'[j].state = state
      BY <1>0, <2>1 DEF Dispose, Settled, Row
    <3> QED  BY <3>1
  <2>3. jobs[j].count <= MaxRetries(jobs[j].type) \/ jobs[j].type = "sla_report"
    BY <1>0, <2>1, <2>2 DEF CrashRetryTime
  <2>4. \A a \in attempts' \ attempts : a.outcome = "interrupted"
    BY <2>1 DEF Dispose, Interrupting, Closing
  <2> QED  BY <2>1, <2>3, <2>4
<1>3. ASSUME NEW c \in issued, NEW now \in Clock,
             Complete(c, now) \/ Checkpoint(c, now)
      PROVE  Goal
  <2>1. c.job \in JobIds /\ jobs[c.job].state = "running"
    BY <1>0, <1>3 DEF Complete, Finish, Checkpoint, VerifyClaim, Claim
  <2>2. jobs'[c.job].state # "retry_wait"
    <3>1. CASE Complete(c, now)
      BY <1>0, <2>1, <3>1 DEF Complete, Finish, Settled, Row
    <3>2. CASE Checkpoint(c, now)
      BY <1>0, <2>1, <3>2 DEF Checkpoint, Row
    <3> QED  BY <1>3, <3>1, <3>2
  <2>3. c.job = j
    BY <1>0, <1>3, <2>1 DEF Complete, Finish, Checkpoint
  <2> QED  BY <2>2, <2>3
<1>4. ASSUME NEW i \in JobIds, RecoverLegacy(i)
      PROVE  Goal
  <2>1. i = j /\ Dispose(j, "failed", Null)
    BY <1>0, <1>4 DEF RecoverLegacy, Dispose
  <2>2. jobs'[j].state = "failed"
    BY <1>0, <2>1 DEF Dispose, Settled, Row
  <2> QED  BY <2>2
<1>5. ASSUME NEW i \in JobIds, NEW now \in Clock,
             \/ FailUnclaimable(i, now) \/ Cancel(i, now) \/ ClaimNext(i, now)
             \/ \E type \in Types, key \in Keys : Enqueue(i, type, key, now)
      PROVE  Goal
  <2>1. i = j
    BY <1>0, <1>5 DEF FailUnclaimable, Cancel, ClaimNext, Enqueue
  <2>2. jobs'[j].state \in {"failed", "cancelled", "running", "queued"}
    <3>0. ASSUME NEW state, NEW at,
                 jobs' = [jobs EXCEPT ![j] = Settled(j, state, Null, at)]
          PROVE  jobs'[j].state = state
      BY <1>0, <3>0 DEF Settled, Row
    <3>1. CASE FailUnclaimable(j, now) \/ Cancel(j, now)
      BY <3>0, <3>1 DEF FailUnclaimable, Cancel
    <3>2. CASE ClaimNext(j, now)
      BY <1>0, <3>2 DEF ClaimNext, Row
    <3>3. CASE \E type \in Types, key \in Keys : Enqueue(j, type, key, now)
      BY <1>0, <3>3 DEF Enqueue, NewRow
    <3> QED  BY <1>5, <2>1, <3>1, <3>2, <3>3
  <2> QED  BY <2>2
<1>6. ASSUME NEW now \in Clock, ReconcileRestored(now)
      PROVE  Goal
  <2>1. jobs'[j] = IF Active(j)
                   THEN Settled(j, "cancelled", Null, Later(now, jobs[j].updated))
                   ELSE jobs[j]
    BY <1>6 DEF ReconcileRestored
  <2>2. Settled(j, "cancelled", Null, Later(now, jobs[j].updated)).state = "cancelled"
    BY <1>0 DEF Settled, Row
  <2> QED  BY <2>1, <2>2
<1>7. ASSUME \/ \E now \in Clock : RecoverBegin(now)
             \/ RecoverListStale \/ RecoverEnd \/ Restart \/ UNCHANGED vars
      PROVE  Goal
  BY <1>7 DEF RecoverBegin, RecoverListStale, RecoverEnd, Restart, vars
<1> QED
  BY <1>1, <1>2, <1>3, <1>4, <1>5, <1>6, <1>7 DEF Next, RecoveryStep

(* A step that settles jobs keeps the budget: their counts stay, and the   *)
(* attempt it closes is the last one.                                      *)
LEMMA SettlingKeepsBudget ==
    ASSUME CoreInv, CoreInv', BudgetInv, [Next]_vars, NEW S \in SUBSET JobIds,
           Settling(S)
    PROVE  BudgetInv'
<1> SUFFICES ASSUME NEW j \in JobIds
             PROVE  /\ jobs'[j].state = "queued" => jobs'[j].count = 0
                    /\ jobs'[j].count > MaxRetries(jobs'[j].type) + 1 => Spent(j)'
                    /\ jobs'[j].state = "retry_wait"
                       /\ jobs'[j].count > MaxRetries(jobs'[j].type)
                          => Spent(j)' /\ LastInterrupted(j)'
  BY DEF BudgetInv
<1>1. /\ jobs \in [JobIds -> Row] /\ attempts' \subseteq Attempt
      /\ jobs[j].count \in Nat /\ MaxRetries(jobs[j].type) \in Nat
      /\ \A a \in attempts' : a.ordinal \in Nat
  BY DEF CoreInv, TypeInv, TypeOK, Row, Attempt, MaxRetries
<1>2. jobs'[j].count = jobs[j].count /\ jobs'[j].type = jobs[j].type
  BY DEF Settling
<1>3. \A a \in attempts' \ attempts : a.job = j =>
         j \in S /\ Running(j) /\ a.ordinal = jobs[j].count
  BY DEF Settling, ClaimOf, HeldClaim
<1>4. Spent(j) => Spent(j)'
  BY <1>1, <1>2, <1>3 DEF Spent
<1>5. CASE jobs'[j] = jobs[j]
  <2>1. LastInterrupted(j) /\ ~Running(j) => LastInterrupted(j)'
    BY <1>2, <1>3 DEF LastInterrupted
  <2>2. jobs'[j].state = "retry_wait" => ~Running(j)
    BY <1>5 DEF Running
  <2> QED  BY <1>4, <1>5, <2>1, <2>2 DEF BudgetInv
<1>6. CASE jobs'[j] # jobs[j]
  <2>1. jobs'[j].state # "queued"
    BY <1>6 DEF Settling, TerminalStates
  <2>2. ASSUME jobs'[j].state = "retry_wait",
               jobs[j].count > MaxRetries(jobs[j].type)
        PROVE  Spent(j)' /\ LastInterrupted(j)'
    <3>1. /\ Running(j) /\ jobs[j].type = "sla_report"
          /\ \A a \in attempts' \ attempts : a.outcome = "interrupted"
      BY <1>1, <1>6, <2>2, EntersRetryWait
    <3>2. LastInterrupted(j)'
      <4>1. \A a \in attempts : a.job = j => a.ordinal # jobs[j].count
        BY <3>1, HeldIsOpen DEF AttemptAbsent
      <4> QED  BY <1>2, <3>1, <4>1 DEF LastInterrupted
    <3>3. Spent(j)'
      <4>1. CASE jobs[j].count > MaxRetries(jobs[j].type) + 1
        BY <1>4, <4>1 DEF BudgetInv
      <4>2. CASE jobs[j].count = MaxRetries(jobs[j].type) + 1
        BY <1>1, <1>2, <3>1, <4>2 DEF Spent
      <4> QED  BY <1>1, <2>2, <4>1, <4>2
    <3> QED  BY <3>2, <3>3
  <2> QED  BY <1>2, <1>4, <2>1, <2>2 DEF BudgetInv
<1> QED  BY <1>5, <1>6

LEMMA ClaimKeepsBudget ==
    ASSUME CoreInv, BudgetInv, NEW i \in JobIds, NEW now \in Clock,
           ClaimNext(i, now)
    PROVE  BudgetInv'
<1>1. /\ jobs \in [JobIds -> Row] /\ attempts \subseteq Attempt
      /\ \A j \in JobIds : jobs[j].count \in Nat /\ MaxRetries(jobs[j].type) \in Nat
      /\ \A j \in JobIds : MaxRetries(jobs[j].type) >= 2
  BY DEF CoreInv, TypeInv, TypeOK, Row, MaxRetries
<1>2. /\ \A j \in JobIds \ {i} : jobs'[j] = jobs[j]
      /\ jobs'[i].state = "running" /\ jobs'[i].count = jobs[i].count + 1
      /\ jobs'[i].type = jobs[i].type /\ attempts' = attempts
      /\ jobs[i].state \in {"queued", "retry_wait"}
  BY <1>1 DEF ClaimNext, Selected, Claimable, Row
<1>3. ASSUME jobs'[i].count > MaxRetries(jobs'[i].type) + 1
      PROVE  Spent(i)'
  <2>1. jobs[i].state = "retry_wait" /\ jobs[i].count > MaxRetries(jobs[i].type)
    BY <1>1, <1>2, <1>3 DEF BudgetInv
  <2>2. Spent(i) /\ LastInterrupted(i)
    BY <2>1 DEF BudgetInv
  <2>3. \A a \in attempts : a.ordinal \in Nat
    BY <1>1 DEF Attempt
  <2> QED  BY <1>1, <1>2, <2>2, <2>3 DEF Spent, LastInterrupted
<1>4. \A j \in JobIds \ {i} : /\ Spent(j) => Spent(j)'
                              /\ LastInterrupted(j) => LastInterrupted(j)'
  BY <1>2 DEF Spent, LastInterrupted
<1> QED  BY <1>2, <1>3, <1>4 DEF BudgetInv

(* No contract is asked for more attempts than its retry table allows,     *)
(* except a report whose claim was lost: fail, recover_stale_claims and    *)
(* claim_next together keep the budget of JobTypeContract.                 *)
THEOREM RetryBudgetHolds == Spec => []RetryBudget
<1>1. Init => BudgetInv
  <2> SUFFICES ASSUME Init, NEW j \in JobIds
               PROVE  /\ jobs[j].state # "retry_wait" /\ jobs[j].count \in {0, 1}
                      /\ jobs[j].state = "queued" => jobs[j].count = 0
    BY DEF BudgetInv, MaxRetries
  <2> QED  BY SeedFacts DEF Init
<1>2. ASSUME CoreInv, BudgetInv, [Next]_vars PROVE BudgetInv'
  <2>0. jobs \in [JobIds -> Row] /\ CoreInv'
    BY <1>2, CoreNext DEF CoreInv, TypeInv, TypeOK
  <2>1. CASE \E S \in SUBSET JobIds : Settling(S)
    BY <1>2, <2>0, <2>1, SettlingKeepsBudget
  <2>2. CASE \E i \in JobIds, now \in Clock : ClaimNext(i, now)
    BY <1>2, <2>2, ClaimKeepsBudget
  <2>3. CASE \E c \in issued, now \in Clock : Checkpoint(c, now)
    <3>1. attempts' = attempts /\ \A j \in JobIds :
            /\ jobs'[j].state = jobs[j].state /\ jobs'[j].count = jobs[j].count
            /\ jobs'[j].type = jobs[j].type
      BY <2>0, <2>3 DEF Checkpoint, Row
    <3> QED  BY <1>2, <3>1 DEF BudgetInv, Spent, LastInterrupted
  <2>4. CASE \E i \in JobIds, type \in Types, key \in Keys, now \in Clock :
                Enqueue(i, type, key, now)
    <3>1. PICK i \in JobIds, type \in Types, key \in Keys, now \in Clock :
                Enqueue(i, type, key, now)
      BY <2>4
    <3>2. /\ attempts' = attempts /\ \A j \in JobIds \ {i} : jobs'[j] = jobs[j]
          /\ jobs'[i].state = "queued" /\ jobs'[i].count = 0
      BY <2>0, <3>1 DEF Enqueue, NewRow
    <3>3. ~(0 > MaxRetries(jobs'[i].type) + 1)
      BY DEF MaxRetries
    <3> QED  BY <1>2, <3>2, <3>3 DEF BudgetInv, Spent, LastInterrupted
  <2>5. CASE UNCHANGED <<jobs, attempts, issued>>
    BY <1>2, <2>5 DEF BudgetInv, Spent, LastInterrupted
  <2> QED  BY <1>2, <2>1, <2>2, <2>3, <2>4, <2>5, StepKinds
<1>3. CoreInv /\ BudgetInv /\ [Next]_vars => BudgetInv'
  BY <1>2
<1>4. BudgetInv => RetryBudget
  BY DEF BudgetInv, RetryBudget, Spent
<1> QED  BY <1>1, <1>3, <1>4, CoreInvariant, PTL DEF Spec
=============================================================================
