---------------------------- MODULE DurableJobs -----------------------------
(***************************************************************************)
(* DurableJobCoordinator: the durable_jobs and job_attempts tables and the *)
(* operations that move a job through its life.                            *)
(*                                                                         *)
(* Every operation runs in one unit of work (BEGIN IMMEDIATE ... COMMIT)   *)
(* and is one atomic step; recover_stale_claims is the exception: it reads *)
(* its work lists outside any transaction and then uses one unit of work   *)
(* per job.  An operation that raises rolls back, so it is a step that is  *)
(* not enabled.                                                            *)
(*                                                                         *)
(* Two kinds of lateness are built in.  A claim that was handed out may be *)
(* used by its worker at any later moment, whatever happened to the job    *)
(* since.  And the clock reading "now" of an operation is an arbitrary     *)
(* member of Clock: callers read the clock before they wait for the write  *)
(* lock, and the host's clock can be set back.                             *)
(***************************************************************************)
EXTENDS JobContracts, FiniteSets

CONSTANTS
    JobIds,      \* identifiers new_uuid4 may produce
    Types,       \* the job types stored rows may have
    Registered,  \* the types with a contract in this build's JobTypeRegistry
    Keys,        \* semantic dedupe keys
    Clock,       \* readings of the host clock, whole seconds
    SeedTime,    \* when the rows found at the first start were written
    MaxRuns      \* bound: process runs (each has its own run id)

ASSUME ConstantsAssumption ==
    /\ Registered \subseteq ContractTypes
    /\ Registered \subseteq Types
    /\ Types \subseteq STRING
    /\ Types # {} /\ Keys # {}
    /\ Clock \subseteq Nat
    /\ SeedTime \in Clock
    /\ MaxRuns \in Nat \ {0}

VARIABLES
    jobs,      \* durable_jobs: job id -> row (state "none": no such row)
    attempts,  \* job_attempts: the set of its rows
    issued,    \* every claim a worker was ever given
    run,       \* run id of the process that is up
    recovery   \* progress of recover_stale_claims in that process

vars == <<jobs, attempts, issued, run, recovery>>

-----------------------------------------------------------------------------
(* Rows.  "legacy" is dedupe_sha256 IS NULL, a row older than migration 8. *)
(* "checkpoint" is the ordinal of the attempt that last wrote              *)
(* checkpoint_json, 0 while it is NULL.                                    *)

States == {"none"} \cup ActiveStates \cup TerminalStates

Moments == Nat \cup {Null}

Runs == 0 .. MaxRuns

Row == [state : States, type : Types, key : Keys, legacy : BOOLEAN,
        created : Nat, updated : Nat, count : Nat, next : Moments,
        run : Runs \cup {Null}, started : Moments, checkpoint : Nat]

Claim == [job : JobIds, ordinal : Nat, run : Runs, started : Nat]

Outcomes == {"completed", "failed", "cancelled", "interrupted"}

Attempt == [job : JobIds, ordinal : Nat, run : Runs, started : Nat,
            finished : Nat, outcome : Outcomes]

NewRow(type, key, now) ==
    [state |-> "queued", type |-> type, key |-> key, legacy |-> FALSE,
     created |-> now, updated |-> now, count |-> 0, next |-> Null,
     run |-> Null, started |-> Null, checkpoint |-> 0]

(* A job id that is not in the table; the other columns mean nothing. *)
NoRow ==
    [NewRow(CHOOSE t \in Types : TRUE, CHOOSE k \in Keys : TRUE, 0)
        EXCEPT !.state = "none"]

Active(j) == jobs[j].state \in ActiveStates

Running(j) == jobs[j].state = "running"

Later(a, b) == IF a > b THEN a ELSE b

(* The row after the claim, if any, is gone: what every settling UPDATE    *)
(* sets.  "at" is the new updated_at_utc.                                  *)
Settled(j, state, next, at) ==
    [jobs[j] EXCEPT !.state = state, !.next = next, !.updated = at,
                    !.run = Null, !.started = Null]

AttemptAbsent(j, n) == \A a \in attempts : ~(a.job = j /\ a.ordinal = n)

(* Faulty variant of Closing: signs with the run that closes. *)
ClosingWithOwnRun(j, finished, outcome) ==
    [job |-> j, ordinal |-> jobs[j].count, run |-> run,
     started |-> jobs[j].started, finished |-> finished, outcome |-> outcome]

(* The job_attempts row that closes the claim a running row carries. *)
Closing(j, finished, outcome) ==
    [job |-> j, ordinal |-> jobs[j].count, run |-> jobs[j].run,
     started |-> jobs[j].started, finished |-> finished, outcome |-> outcome]

ClosingIfRunning(j, finished, outcome) ==
    IF Running(j) THEN {Closing(j, finished, outcome)} ELSE {}

(* _insert_interrupted_if_absent: an attempt row that is already there     *)
(* must be the same interruption; the finish time never precedes the start *)
(* even when the clock did.                                                *)
HistoryAgrees(j) ==
    \A a \in attempts :
        a.job = j /\ a.ordinal = jobs[j].count =>
            /\ a.run = jobs[j].run
            /\ a.started = jobs[j].started
            /\ a.outcome = "interrupted"

Interrupting(j, now) ==
    IF Running(j) /\ AttemptAbsent(j, jobs[j].count)
    THEN {Closing(j, Later(now, jobs[j].started), "interrupted")}
    ELSE {}

Idle == [phase |-> "idle", todo |-> {}, now |-> 0]

-----------------------------------------------------------------------------
(* The table a first start of this build may find: nothing, rows written   *)
(* before migration 8, and rows of a type this build no longer registers;  *)
(* a running one was claimed by an earlier process, run 0, that is gone.   *)

SeedRow(type, key, legacy) ==
    [NewRow(type, key, SeedTime) EXCEPT !.legacy = legacy]

ClaimedSeedRow(type, key, legacy) ==
    [SeedRow(type, key, legacy) EXCEPT !.state = "running", !.count = 1,
                                       !.run = 0, !.started = SeedTime]

Seeds ==
    {row \in {SeedRow(t, k, l) : t \in Types, k \in Keys, l \in BOOLEAN} \cup
             {ClaimedSeedRow(t, k, l) : t \in Types, k \in Keys, l \in BOOLEAN} :
        row.legacy \/ row.type \notin Registered}

SameIdentity(a, b) ==
    a.type = b.type /\ a.key = b.key /\ ~a.legacy /\ ~b.legacy

(* Two rows that are both answers to a request for one identity. *)
Duplicates(a, b) ==
    /\ SameIdentity(a, b)
    /\ a.state \in CoalesceStates(a.type)
    /\ b.state \in CoalesceStates(b.type)

Init ==
    /\ jobs \in [JobIds -> {NoRow} \cup Seeds]
    /\ \A j, k \in JobIds : j # k => ~Duplicates(jobs[j], jobs[k])
    /\ attempts = {}
    /\ issued = {[job |-> j, ordinal |-> jobs[j].count, run |-> 0,
                  started |-> SeedTime] :
                    j \in {i \in JobIds : jobs[i].state = "running"}}
    /\ run = 1
    /\ recovery = Idle

-----------------------------------------------------------------------------
(* Faulty variant of Coalesces: forgets the contract's "completed". *)
CoalescesActive(type, key) ==
    \E j \in JobIds : /\ jobs[j].state \in ActiveStates
                      /\ jobs[j].type = type /\ jobs[j].key = key
                      /\ ~jobs[j].legacy

(* enqueue_or_coalesce inserts a row only when no row of the identity is   *)
(* in one of the contract's coalesce states; otherwise it returns that     *)
(* row's id and changes nothing.                                           *)
Coalesces(type, key) ==
    \E j \in JobIds : /\ jobs[j].state \in CoalesceStates(type)
                      /\ jobs[j].type = type /\ jobs[j].key = key
                      /\ ~jobs[j].legacy

Enqueue(j, type, key, now) ==
    /\ type \in Registered
    /\ ~Coalesces(type, key)
    /\ jobs[j].state = "none"
    /\ jobs' = [jobs EXCEPT ![j] = NewRow(type, key, now)]
    /\ UNCHANGED <<attempts, issued, run, recovery>>

(* The row claim_next selects: queued rows in order of creation, then the  *)
(* due retries by due time and creation.  Null sorts first.  Equal rows    *)
(* are ordered by their random ids, so either may come first.              *)
Claimable(now) ==
    {j \in JobIds : \/ jobs[j].state = "queued"
                    \/ jobs[j].state = "retry_wait" /\ jobs[j].next <= now}

Precedes(a, b) ==
    a.next < b.next \/ (a.next = b.next /\ a.created <= b.created)

(* Faulty variant of Selected: trusts the caller's clock. *)
SelectedAnyClock(j, now) ==
    /\ j \in Claimable(now)
    /\ \A k \in Claimable(now) : Precedes(jobs[j], jobs[k])

Selected(j, now) ==
    /\ j \in Claimable(now)
    /\ \A k \in Claimable(now) : Precedes(jobs[j], jobs[k])
    /\ now >= jobs[j].created
    /\ now >= jobs[j].updated

ClaimNext(j, now) ==
    /\ Selected(j, now)
    /\ jobs[j].type \in Registered
    /\ ~jobs[j].legacy
    /\ jobs' = [jobs EXCEPT ![j].state = "running", ![j].run = run,
                            ![j].started = now, ![j].count = @ + 1,
                            ![j].next = Null, ![j].updated = now]
    /\ issued' = issued \cup {[job |-> j, ordinal |-> jobs[j].count + 1,
                               run |-> run, started |-> now]}
    /\ UNCHANGED <<attempts, run, recovery>>

(* claim_next on a row without a contract: _fail_unclaimable. *)
FailUnclaimable(j, now) ==
    /\ Selected(j, now)
    /\ jobs[j].type \notin Registered
    /\ jobs' = [jobs EXCEPT
                  ![j] = Settled(j, "failed", Null, Later(now, jobs[j].updated))]
    /\ UNCHANGED <<attempts, issued, run, recovery>>

-----------------------------------------------------------------------------
(* Faulty variant of VerifyClaim: any claim of a running job will do. *)
VerifyRunning(c) ==
    /\ jobs[c.job].type \in Registered
    /\ ~jobs[c.job].legacy
    /\ jobs[c.job].state = "running"

(* The worker's side.  _verify_claim compares the claim with the row: run, *)
(* attempt ordinal and claim start must all be the row's own.              *)
VerifyClaim(c) ==
    /\ jobs[c.job].type \in Registered
    /\ ~jobs[c.job].legacy
    /\ jobs[c.job].state = "running"
    /\ jobs[c.job].run = c.run
    /\ jobs[c.job].count = c.ordinal
    /\ jobs[c.job].started = c.started

NonRegressing(c, now) == now >= jobs[c.job].updated /\ now >= c.started

Checkpoint(c, now) ==
    /\ VerifyClaim(c)
    /\ NonRegressing(c, now)
    /\ jobs' = [jobs EXCEPT ![c.job].checkpoint = c.ordinal,
                            ![c.job].updated = now]
    /\ UNCHANGED <<attempts, issued, run, recovery>>

(* What complete and fail share: close the claim, settle the row. *)
Finish(c, now, outcome, state, next) ==
    /\ VerifyClaim(c)
    /\ NonRegressing(c, now)
    /\ AttemptAbsent(c.job, c.ordinal)
    /\ attempts' = attempts \cup {Closing(c.job, now, outcome)}
    /\ jobs' = [jobs EXCEPT ![c.job] = Settled(c.job, state, next, now)]
    /\ UNCHANGED <<issued, run, recovery>>

Complete(c, now) == Finish(c, now, "completed", "completed", Null)

(* "retryable" tells whether the error code is in the contract's retryable *)
(* set.  The contract dictates retry_at; a request it rejects raises.      *)
Fail(c, now, retryable) ==
    \E next \in IF retryable
                THEN RetryTimes(jobs[c.job].type, c.ordinal, now, Clock)
                ELSE {Null} :
        Finish(c, now, "failed",
               IF next = Null THEN "failed" ELSE "retry_wait", next)

-----------------------------------------------------------------------------
(* cancel revokes a running claim under its worker's feet. *)
Cancel(j, now) ==
    /\ jobs[j].type \in Registered
    /\ Active(j)
    /\ Cancellable(jobs[j].type)
    /\ now >= jobs[j].created /\ now >= jobs[j].updated
    /\ Running(j) => AttemptAbsent(j, jobs[j].count)
    /\ attempts' = attempts \cup ClosingIfRunning(j, now, "cancelled")
    /\ jobs' = [jobs EXCEPT ![j] = Settled(j, "cancelled", Null, now)]
    /\ UNCHANGED <<issued, run, recovery>>

(* reconcile_restored_jobs cancels every active row in one unit of work.   *)
(* Rows brought back by a restore must not run again.                      *)
ReconcileRestored(now) ==
    /\ \E j \in JobIds : Active(j)
    /\ \A j \in JobIds : Running(j) => HistoryAgrees(j)
    /\ attempts' = attempts \cup
         UNION {Interrupting(j, Later(now, jobs[j].updated)) : j \in JobIds}
    /\ jobs' = [j \in JobIds |->
                  IF Active(j)
                  THEN Settled(j, "cancelled", Null, Later(now, jobs[j].updated))
                  ELSE jobs[j]]
    /\ UNCHANGED <<issued, run, recovery>>

-----------------------------------------------------------------------------
(* recover_stale_claims(run, now): list the legacy rows, fail each in its  *)
(* own unit of work; list the running rows of other runs, dispose of each. *)
(* A listed row may have changed by the time its turn comes: it is read    *)
(* again and skipped when it no longer qualifies.                          *)

RecoverBegin(now) ==
    /\ recovery.phase \in {"idle", "done"}
    /\ recovery' = [phase |-> "legacy", now |-> now,
                    todo |-> {j \in JobIds : Active(j) /\ jobs[j].legacy}]
    /\ UNCHANGED <<jobs, attempts, issued, run>>

Dispose(j, state, next) ==
    /\ Running(j) => HistoryAgrees(j)
    /\ attempts' = attempts \cup Interrupting(j, recovery.now)
    /\ jobs' = [jobs EXCEPT ![j] =
                  Settled(j, state, next, Later(recovery.now, jobs[j].updated))]

RecoverLegacy(j) ==
    /\ recovery.phase = "legacy"
    /\ j \in recovery.todo
    /\ recovery' = [recovery EXCEPT !.todo = @ \ {j}]
    /\ IF Active(j) /\ jobs[j].legacy THEN Dispose(j, "failed", Null)
                                      ELSE UNCHANGED <<jobs, attempts>>
    /\ UNCHANGED <<issued, run>>

RecoverListStale ==
    /\ recovery.phase = "legacy"
    /\ recovery.todo = {}
    /\ recovery' = [recovery EXCEPT
                      !.phase = "stale",
                      !.todo = {j \in JobIds : /\ Running(j)
                                               /\ ~jobs[j].legacy
                                               /\ jobs[j].run # run}]
    /\ UNCHANGED <<jobs, attempts, issued, run>>

(* Faulty variants of RecoverStale: jobs without a contract are skipped;   *)
(* a listed job that changed since is waited for.                          *)
RecoverStaleRegistered(j) ==
    /\ recovery.phase = "stale"
    /\ j \in recovery.todo
    /\ recovery' = [recovery EXCEPT !.todo = @ \ {j}]
    /\ IF Running(j) /\ jobs[j].run # run /\ jobs[j].type \in Registered
       THEN Dispose(j, "failed", Null)
       ELSE UNCHANGED <<jobs, attempts>>
    /\ UNCHANGED <<issued, run>>

RecoverStaleWaits(j) ==
    /\ recovery.phase = "stale"
    /\ j \in recovery.todo
    /\ Running(j) /\ jobs[j].run # run
    /\ recovery' = [recovery EXCEPT !.todo = @ \ {j}]
    /\ Dispose(j, "failed", Null)
    /\ UNCHANGED <<issued, run>>

RecoverStale(j) ==
    /\ recovery.phase = "stale"
    /\ j \in recovery.todo
    /\ recovery' = [recovery EXCEPT !.todo = @ \ {j}]
    /\ LET next == IF jobs[j].type \in Registered
                   THEN CrashRetryTime(jobs[j].type, jobs[j].count, recovery.now)
                   ELSE Null
       IN  IF Running(j) /\ jobs[j].run # run
           THEN Dispose(j, IF next = Null THEN "failed" ELSE "retry_wait", next)
           ELSE UNCHANGED <<jobs, attempts>>
    /\ UNCHANGED <<issued, run>>

RecoverEnd ==
    /\ recovery.phase = "stale"
    /\ recovery.todo = {}
    /\ recovery' = [recovery EXCEPT !.phase = "done"]
    /\ UNCHANGED <<jobs, attempts, issued, run>>

(* The process ends at any point, recovery included, and a new one starts  *)
(* under a new run id.  The tables survive, and so may workers of the old  *)
(* run.                                                                    *)
Restart ==
    /\ run < MaxRuns
    /\ run' = run + 1
    /\ recovery' = Idle
    /\ UNCHANGED <<jobs, attempts, issued>>

-----------------------------------------------------------------------------
RecoveryStep ==
    \/ RecoverListStale
    \/ RecoverEnd
    \/ \E j \in JobIds : RecoverLegacy(j) \/ RecoverStale(j)

Next ==
    \/ \E j \in JobIds, type \in Types, key \in Keys, now \in Clock :
            Enqueue(j, type, key, now)
    \/ \E j \in JobIds, now \in Clock : ClaimNext(j, now)
    \/ \E j \in JobIds, now \in Clock : FailUnclaimable(j, now)
    \/ \E c \in issued, now \in Clock : Checkpoint(c, now)
    \/ \E c \in issued, now \in Clock : Complete(c, now)
    \/ \E c \in issued, now \in Clock, retryable \in BOOLEAN :
            Fail(c, now, retryable)
    \/ \E j \in JobIds, now \in Clock : Cancel(j, now)
    \/ \E now \in Clock : ReconcileRestored(now)
    \/ \E now \in Clock : RecoverBegin(now)
    \/ RecoveryStep
    \/ Restart

Spec == Init /\ [][Next]_vars

(* recover_stale_claims is a loop: a process that stays up finishes it. *)
FairSpec == Spec /\ WF_vars(RecoveryStep)

-----------------------------------------------------------------------------
TypeOK ==
    /\ jobs \in [JobIds -> Row]
    /\ attempts \subseteq Attempt
    /\ issued \subseteq Claim
    /\ run \in Runs
    /\ recovery \in [phase : {"idle", "legacy", "stale", "done"},
                     todo : SUBSET JobIds, now : Nat]

(* The attempt history of a job is gap-free and has one entry per attempt: *)
(* ordinals 1 .. attempt_count, without the last one exactly while the     *)
(* claim is held.                                                          *)
LastClosed(j) == IF Running(j) THEN jobs[j].count - 1 ELSE jobs[j].count

AttemptLedger ==
    /\ \A j \in JobIds :
          {a.ordinal : a \in {b \in attempts : b.job = j}} = 1 .. LastClosed(j)
    /\ \A a, b \in attempts : a.job = b.job /\ a.ordinal = b.ordinal => a = b

(* Every claim a worker was given is either the one its job's row carries  *)
(* now or closed by an attempt row with the same run id and start time,    *)
(* never both; and nothing else is in either place.  No interleaving of    *)
(* late workers, cancellation, recovery and restarts loses a claim, closes *)
(* it twice or closes it for another run.                                  *)
ClaimOf(a) == [job |-> a.job, ordinal |-> a.ordinal, run |-> a.run,
               started |-> a.started]

HeldClaim(j) == [job |-> j, ordinal |-> jobs[j].count, run |-> jobs[j].run,
                 started |-> jobs[j].started]

ClaimsAccounted ==
    LET closed == {ClaimOf(a) : a \in attempts}
        held   == {HeldClaim(j) : j \in {i \in JobIds : Running(i)}}
    IN  issued = closed \cup held /\ closed \cap held = {}

(* At most one row answers for a (type, key) identity, a completed         *)
(* reappearance job included: what enqueue_or_coalesce and the index       *)
(* uq_jobs_active_dedupe promise.                                          *)
OneJobPerIdentity ==
    \A j, k \in JobIds : j # k => ~Duplicates(jobs[j], jobs[k])

(* The attempts of a job follow each other in time, whatever the clock     *)
(* readings were: one is finished before the next is started.              *)
AttemptsInSequence ==
    /\ \A a, b \in attempts :
          a.job = b.job /\ a.ordinal < b.ordinal => a.finished <= b.started
    /\ \A a \in attempts : a.started <= a.finished
    /\ \A a \in attempts : Running(a.job) => a.finished <= jobs[a.job].started

(* A job is attempted once more than its retry table has entries; only a   *)
(* report is claimed beyond that, and only after a lost claim.             *)
RetryBudget ==
    \A j \in JobIds :
        jobs[j].count > MaxRetries(jobs[j].type) + 1 =>
            /\ jobs[j].type = "sla_report"
            /\ \A a \in attempts :
                  /\ a.job = j
                  /\ a.ordinal > MaxRetries(jobs[j].type)
                  /\ a.ordinal < jobs[j].count
                  => a.outcome = "interrupted"

(* When recover_stale_claims returns, no job is left with the claim of an  *)
(* earlier process and no job without a dedupe identity is left active,    *)
(* although the lists were read before the rows were changed; and that     *)
(* stays so until the process ends.                                        *)
Stale(j) == Running(j) /\ jobs[j].run # run

RecoveryComplete ==
    recovery.phase = "done" =>
        \A j \in JobIds : ~Stale(j) /\ ~(Active(j) /\ jobs[j].legacy)

(* A job in a final state is never touched again, whoever is late. *)
FinalIsFinal ==
    [][\A j \in JobIds : jobs[j].state \in TerminalStates => jobs'[j] = jobs[j]]_vars

(* The row's updated_at_utc never goes back, even when the clock does. *)
UpdatedMonotone ==
    [][\A j \in JobIds : jobs[j].state # "none" =>
          jobs'[j].updated >= jobs[j].updated]_vars

(* A checkpoint is only replaced by the attempt in progress: a worker      *)
(* whose attempt is closed cannot overwrite its successor's progress.      *)
CheckpointFenced ==
    [][\A j \in JobIds :
          jobs'[j].checkpoint # jobs[j].checkpoint =>
              /\ jobs'[j].checkpoint >= jobs[j].checkpoint
              /\ AttemptAbsent(j, jobs'[j].checkpoint)]_vars

(* A recovery that has begun ends, or its process does. *)
RecoveryEnds ==
    recovery.phase \in {"legacy", "stale"} ~> recovery.phase \in {"idle", "done"}
=============================================================================
