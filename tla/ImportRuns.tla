----------------------------- MODULE ImportRuns -----------------------------
(***************************************************************************)
(* Ticket import of one source family: the source-check worker that turns  *)
(* a discovered export file into an import run, the source checkpoint that *)
(* says which export was processed last, and the operator's review of the  *)
(* run's proposals.  Three actors share the tables:                        *)
(*                                                                         *)
(*   - source-check workers, one per claimed attempt of a durable job; an  *)
(*     attempt whose claim was taken away keeps running until it notices;  *)
(*   - the operator, who decides proposals, reviews recoveries and         *)
(*     finalizes runs;                                                     *)
(*   - the job coordinator, which hands out and takes away claims.         *)
(*                                                                         *)
(* One action is one unit of work, or one read snapshot whose result is    *)
(* used by a later unit of work.  The family modelled is the Advanced      *)
(* Search one; the other two differ only in not queueing reappearance      *)
(* jobs.                                                                   *)
(***************************************************************************)
EXTENDS Naturals, FiniteSets

CONSTANTS
    Jobs,          \* source-check jobs of the family (one per source locator)
    RunIds,        \* identifiers new_uuid4 may give an import run
    NoRun,         \* no import run
    Chronologies,  \* candidate_chronology_value of the files there may be
    Contents,      \* logical contents of those files, i.e. their fingerprints
    NoContent,     \* NULL, or the fingerprint of rows that are no whole file
    Materials,     \* material inputs a proposal can have (its equivalence class)
    Blocked,       \* the ones whose proposals have risk class "blocked"
    Batches,       \* parser batches in a file
    MaxAttempts,   \* attempts a source check has; 3 in the code
    MaxFaults      \* bound: retryable errors and lost claims

ASSUME ImportAssumption ==
    /\ NoRun \notin RunIds \cup Jobs
    /\ Chronologies \subseteq Nat
    /\ NoContent \notin Contents
    /\ IsFiniteSet(Materials)
    /\ Blocked \subseteq Materials
    /\ Batches \in Nat \ {0}
    /\ MaxAttempts \in Nat \ {0}
    /\ MaxFaults \in Nat

VARIABLES
    runs,        \* import_runs with their staged rows
    proposals,   \* reconciliation_proposals: run -> material -> state
    suppressed,  \* proposal_equivalence_decisions: rejected or deferred
    source,      \* import_source_checkpoints, the family's row
    reviews,     \* import_recovery_reviews: the latest one of each run
    reappear,    \* runs an SR reappearance job was queued for
    receipts,    \* the receipt of RecordNewerIdenticalSourceCheck per run
    jobs,        \* durable_jobs: state, claimed attempt, checkpoint_json
    workers,     \* the worker of each attempt, with what it holds in memory
    faults       \* faults so far

vars == <<runs, proposals, suppressed, source, reviews, reappear, receipts,
          jobs, workers, faults>>

-----------------------------------------------------------------------------
(* Records. *)

Review == {"staged", "waiting_review", "recovery_required"}

Terminal == {"accepted", "partially_accepted", "rejected", "noop"}

RunStates == {"none", "validating", "noop_pending_checkpoint"}
             \cup Review \cup Terminal

Fingerprints == Contents \cup {NoContent}

(* "job" is the job whose worker inserted the row (no column holds it),    *)
(* "content" what the candidate file holds, "rows" the parser batches in   *)
(* source_observations, "fingerprint" logical_fingerprint_sha256.          *)
Run == [state : RunStates, revision : Nat, job : Jobs \cup {NoRun},
        chronology : Nat, content : Fingerprints, rows : Nat,
        fingerprint : Fingerprints, count : Nat, pending : Nat,
        accepted : Nat, rejected : Nat, deferred : Nat]

NoRunRow == [state |-> "none", revision |-> 0, job |-> NoRun,
             chronology |-> 0, content |-> NoContent, rows |-> 0,
             fingerprint |-> NoContent, count |-> 0, pending |-> 0,
             accepted |-> 0, rejected |-> 0, deferred |-> 0]

ProposalStates ==
    {"none", "pending", "accepted", "rejected", "deferred", "superseded"}

(* The source checkpoint; revision 0 is the absent row. *)
Source == [revision : Nat, chronology : Nat, fingerprint : Fingerprints,
           run : RunIds \cup {NoRun}]

NoSource == [revision |-> 0, chronology |-> 0, fingerprint |-> NoContent,
             run |-> NoRun]

Phases == {"none", "validating", "staging", "publishing", "noop_checkpoint"}

(* checkpoint_json of a source check; phase "none" is NULL. *)
Checkpoint == [phase : Phases, run : RunIds \cup {NoRun}, revision : Nat,
               next : Nat, fingerprint : Fingerprints, source : Nat]

NoCheckpoint == [phase |-> "none", run |-> NoRun, revision |-> 0,
                 next |-> 0, fingerprint |-> NoContent, source |-> 0]

JobStates == {"none", "queued", "running", "completed", "failed"}

Attempts == 1 .. MaxAttempts

Steps == {"ended", "claimed", "stage", "verify", "publish", "commit", "noop",
          "note", "record", "complete"}

(* What a worker holds: its place in run(), its copy of the checkpoint, and *)
(* between a read and the unit of work that relies on it the source         *)
(* checkpoint it saw and the proposals it generated.                        *)
Worker == [step : Steps, checkpoint : Checkpoint, seen : Source,
           raw : SUBSET Materials, kept : SUBSET Materials]

Idle == [step |-> "ended", checkpoint |-> NoCheckpoint, seen |-> NoSource,
         raw |-> {}, kept |-> {}]

Decisions == {"none", "authorized", "deferred", "rejected"}

RecoveryFingerprint == [revision : Nat, source : Source,
                        pending : SUBSET Materials]

NoReview == [decision |-> "none",
             fingerprint |-> [revision |-> 0, source |-> NoSource,
                              pending |-> {}]]

Receipt == [revision : Nat, source : Nat]

NoReceipt == [revision |-> 0, source |-> 0]

TypeOK ==
    /\ runs \in [RunIds -> Run]
    /\ proposals \in [RunIds -> [Materials -> ProposalStates]]
    /\ suppressed \subseteq Materials
    /\ source \in Source
    /\ reviews \in [RunIds -> [decision : Decisions,
                               fingerprint : RecoveryFingerprint]]
    /\ reappear \subseteq RunIds
    /\ receipts \in [RunIds -> Receipt]
    /\ jobs \in [Jobs -> [state : JobStates, attempt : 0 .. MaxAttempts,
                          checkpoint : Checkpoint]]
    /\ workers \in [Jobs -> [Attempts -> Worker]]
    /\ faults \in 0 .. MaxFaults

-----------------------------------------------------------------------------
(* Helpers. *)

(* _verify_claim: the row is running under this very attempt. *)
Owns(j, a) == jobs[j].state = "running" /\ jobs[j].attempt = a

At(j, a, step) == workers[j][a].step = step

Held(j, a) == workers[j][a].checkpoint

RunOf(j, a) == Held(j, a).run

Becomes(j, a, worker) == workers' = [workers EXCEPT ![j][a] = worker]

Saved(j, checkpoint) == jobs' = [jobs EXCEPT ![j].checkpoint = checkpoint]

(* verify_staged_logical_run recomputes the fingerprint from the rows. *)
Fingerprint(r) ==
    IF runs[r].rows = Batches THEN runs[r].content ELSE NoContent

Validating(r, revision) ==
    runs[r].state = "validating" /\ runs[r].revision = revision

(* How a candidate compares with the source checkpoint. *)
classify_replay(chronology, fingerprint, checkpoint) ==
    CASE checkpoint.revision = 0 -> "NEW_SOURCE"
      [] chronology < checkpoint.chronology -> "OLDER_SOURCE"
      [] chronology = checkpoint.chronology ->
            IF fingerprint = checkpoint.fingerprint
            THEN "EXACT_REPLAY" ELSE "CONTENT_CONFLICT"
      [] OTHER ->
            IF fingerprint = checkpoint.fingerprint
            THEN "NEWER_IDENTICAL" ELSE "NEW_SOURCE"

Classification(r) ==
    classify_replay(runs[r].chronology, Fingerprint(r), source)

NoopClasses == {"EXACT_REPLAY", "NEWER_IDENTICAL"}

(* _target_state. *)
TargetState(class, kept) ==
    CASE class = "EXACT_REPLAY" -> "noop"
      [] class = "NEWER_IDENTICAL" -> "noop_pending_checkpoint"
      [] class = "NEW_SOURCE" ->
            IF kept = {} THEN "staged" ELSE "waiting_review"
      [] OTHER -> "recovery_required"

In(r, state) == {m \in Materials : proposals[r][m] = state}

(* recovery_review_fingerprint: what an authorization is bound to. *)
ReviewFingerprint(r) ==
    [revision |-> runs[r].revision, source |-> source,
     pending |-> In(r, "pending")]

(* require_current_recovery_authorization. *)
Authorized(r) ==
    runs[r].state = "recovery_required" =>
        /\ source.revision > 0
        /\ reviews[r].decision = "authorized"
        /\ reviews[r].fingerprint = ReviewFingerprint(r)

-----------------------------------------------------------------------------
(* A database that has processed nothing yet, or one whose last accepted   *)
(* export is older work.                                                   *)

Seeded(r, chronology, content) ==
    /\ runs = [i \in RunIds |->
                IF i # r THEN NoRunRow
                ELSE [NoRunRow EXCEPT
                        !.state = "accepted", !.revision = 3,
                        !.chronology = chronology, !.content = content,
                        !.rows = Batches, !.fingerprint = content]]
    /\ source = [revision |-> 1, chronology |-> chronology,
                 fingerprint |-> content, run |-> r]
    /\ reappear = {r}

Init ==
    /\ \/ /\ runs = [r \in RunIds |-> NoRunRow]
          /\ source = NoSource
          /\ reappear = {}
       \/ \E r \in RunIds, t \in Chronologies, c \in Contents :
             Seeded(r, t, c)
    /\ proposals = [r \in RunIds |-> [m \in Materials |-> "none"]]
    /\ suppressed = {}
    /\ reviews = [r \in RunIds |-> NoReview]
    /\ receipts = [r \in RunIds |-> NoReceipt]
    /\ jobs = [j \in Jobs |-> [state |-> "none", attempt |-> 0,
                               checkpoint |-> NoCheckpoint]]
    /\ workers = [j \in Jobs |-> [a \in Attempts |-> Idle]]
    /\ faults = 0

-----------------------------------------------------------------------------
(* The coordinator's side of a source check.  DurableJobs has the detail;  *)
(* retry_wait and its delay are folded into "queued".                      *)

(* The start command queues the job; a request for a job that is still     *)
(* active is absorbed by it and changes nothing here.                      *)
StartTicketSourceImportCheck(j) ==
    /\ jobs[j].state = "none"
    /\ jobs' = [jobs EXCEPT ![j].state = "queued"]
    /\ UNCHANGED <<runs, proposals, suppressed, source, reviews, reappear,
                   receipts, workers, faults>>

(* claim_next: a new attempt starts from the checkpoint the row carries.   *)
(* The code looks at one row, the first by due time, age and id; these are *)
(* not modelled, so any queued row may be that one.                        *)
ClaimNext(j) ==
    LET a == jobs[j].attempt + 1 IN
    /\ jobs[j].state = "queued"
    /\ jobs' = [jobs EXCEPT ![j].state = "running", ![j].attempt = a]
    /\ Becomes(j, a, [Idle EXCEPT !.step = "claimed",
                                  !.checkpoint = jobs[j].checkpoint])
    /\ UNCHANGED <<runs, proposals, suppressed, source, reviews, reappear,
                   receipts, faults>>

(* A retry while the attempts last, else the job fails. *)
Requeued(j) ==
    jobs' = [jobs EXCEPT ![j].state =
                IF jobs[j].attempt < MaxAttempts THEN "queued" ELSE "failed"]

(* recover_stale_claims takes the claim away.  A worker that died is one   *)
(* that takes no further step, before and after; one that still runs is    *)
(* not told.                                                               *)
LoseClaim(j) ==
    /\ jobs[j].state = "running"
    /\ faults < MaxFaults
    /\ Requeued(j)
    /\ faults' = faults + 1
    /\ UNCHANGED <<runs, proposals, suppressed, source, reviews, reappear,
                   receipts, workers>>

(* DurableJobCoordinator.fail for an attempt that raised.  Nothing in the  *)
(* repository calls it for a source check: whether, and with which code,   *)
(* is free.  A code that is retryable means a retry while there are any.   *)
FailClaim(j, retryable) ==
    /\ jobs[j].state = "running"
    /\ At(j, jobs[j].attempt, "ended")
    /\ IF retryable THEN Requeued(j)
                    ELSE jobs' = [jobs EXCEPT ![j].state = "failed"]
    /\ UNCHANGED <<runs, proposals, suppressed, source, reviews, reappear,
                   receipts, workers, faults>>

(* A step raises for a reason outside the import's tables (source          *)
(* unavailable, file changed since the checkpoint, database busy): its     *)
(* unit of work rolls back and the worker ends; the claim stays.           *)
Stumble(j, a) ==
    /\ ~At(j, a, "ended")
    /\ faults < MaxFaults
    /\ Becomes(j, a, Idle)
    /\ faults' = faults + 1
    /\ UNCHANGED <<runs, proposals, suppressed, source, reviews, reappear,
                   receipts, jobs>>

-----------------------------------------------------------------------------
(* The worker, TicketImportSourceCheckWorker.run, one unit of work at a    *)
(* time.  CanX is what the unit of work of step X checks; a step that      *)
(* cannot be taken raises, see Refused.                                    *)

CanStartRun(j, a) ==
    Owns(j, a) /\ jobs[j].checkpoint = NoCheckpoint

(* _start_run, after a fresh claim discovered a candidate file. *)
StartRun(j, a, r, chronology, content) ==
    LET checkpoint == [NoCheckpoint EXCEPT !.phase = "validating",
                                           !.run = r, !.revision = 1] IN
    /\ At(j, a, "claimed")
    /\ Held(j, a) = NoCheckpoint
    /\ CanStartRun(j, a)
    /\ runs[r].state = "none"
    /\ runs' = [runs EXCEPT ![r] =
                  [NoRunRow EXCEPT !.state = "validating", !.revision = 1,
                                   !.job = j, !.chronology = chronology,
                                   !.content = content]]
    /\ Saved(j, checkpoint)
    /\ Becomes(j, a, [workers[j][a] EXCEPT !.step = "stage",
                                           !.checkpoint = checkpoint])
    /\ UNCHANGED <<proposals, suppressed, source, reviews, reappear,
                   receipts, faults>>

(* A later attempt finds the candidate of its checkpoint unchanged and     *)
(* goes on in the phase it names; a changed file is a Stumble.             *)
Resume(j, a) ==
    LET phase == Held(j, a).phase IN
    /\ At(j, a, "claimed")
    /\ phase # "none"
    /\ Becomes(j, a, [workers[j][a] EXCEPT !.step =
            CASE phase \in {"validating", "staging"} -> "stage"
              [] phase = "publishing" -> "publish"
              [] OTHER -> "record"])
    /\ UNCHANGED <<runs, proposals, suppressed, source, reviews, reappear,
                   receipts, jobs, faults>>

(* Faulty variant of CanStage: the rows are committed whoever has the claim. *)
CanStageUnfenced(j, a) == Validating(RunOf(j, a), Held(j, a).revision)

CanStage(j, a) ==
    Owns(j, a) /\ Validating(RunOf(j, a), Held(j, a).revision)

(* _stage: one batch of rows and the cursor behind it, together.  A        *)
(* resumed worker whose cursor is at the end stages nothing.               *)
StageBatch(j, a) ==
    LET r    == RunOf(j, a)
        more == Held(j, a).next < Batches
        next == IF more THEN Held(j, a).next + 1 ELSE Held(j, a).next
        checkpoint == [Held(j, a) EXCEPT !.phase = "staging", !.next = next]
    IN
    /\ At(j, a, "stage")
    /\ CanStage(j, a)
    /\ runs' = [runs EXCEPT ![r].rows = IF more THEN @ + 1 ELSE @]
    /\ Saved(j, checkpoint)
    /\ Becomes(j, a, [workers[j][a] EXCEPT
            !.step = IF next = Batches THEN "verify" ELSE "stage",
            !.checkpoint = checkpoint])
    /\ UNCHANGED <<proposals, suppressed, source, reviews, reappear,
                   receipts, faults>>

(* _publishing_checkpoint.  The fingerprint is read in a snapshot before   *)
(* the checkpoint is written under the claim: a claim that is current at   *)
(* the write was current at the read, so nobody else staged in between.    *)
Verify(j, a) ==
    LET checkpoint == [Held(j, a) EXCEPT
            !.phase = "publishing", !.fingerprint = Fingerprint(RunOf(j, a))]
    IN
    /\ At(j, a, "verify")
    /\ CanStage(j, a)
    /\ Saved(j, checkpoint)
    /\ Becomes(j, a, [workers[j][a] EXCEPT !.step = "publish",
                                           !.checkpoint = checkpoint])
    /\ UNCHANGED <<runs, proposals, suppressed, source, reviews, reappear,
                   receipts, faults>>

CanPreflight(j, a) ==
    /\ Validating(RunOf(j, a), Held(j, a).revision)
    /\ Fingerprint(RunOf(j, a)) = Held(j, a).fingerprint

(* _preflight_publication: classify the run and generate its proposals in  *)
(* a snapshot.  "raw" is what reconciliation proposes, any set of inputs.  *)
Preflight(j, a, raw) ==
    /\ At(j, a, "publish")
    /\ CanPreflight(j, a)
    /\ Classification(RunOf(j, a)) \in NoopClasses => raw = {}
    /\ Becomes(j, a, [workers[j][a] EXCEPT
            !.step = "commit", !.seen = source, !.raw = raw,
            !.kept = raw \ suppressed])
    /\ UNCHANGED <<runs, proposals, suppressed, source, reviews, reappear,
                   receipts, jobs, faults>>

CanAdopt(j, a) ==
    /\ runs[RunOf(j, a)].state # "validating"
    /\ runs[RunOf(j, a)].fingerprint = Held(j, a).fingerprint

(* Faulty variant of Adopt: an adopted publication is always complete. *)
AdoptAsDone(j, a) ==
    /\ At(j, a, "publish")
    /\ CanAdopt(j, a)
    /\ Becomes(j, a, [workers[j][a] EXCEPT !.step = "complete"])
    /\ UNCHANGED <<runs, proposals, suppressed, source, reviews, reappear,
                   receipts, jobs, faults>>

(* _publish_run when an earlier attempt has published the run. *)
Adopt(j, a) ==
    LET run == runs[RunOf(j, a)] IN
    /\ At(j, a, "publish")
    /\ CanAdopt(j, a)
    /\ Becomes(j, a, [workers[j][a] EXCEPT
            !.step = IF run.state = "noop_pending_checkpoint"
                     THEN "noop" ELSE "complete",
            !.checkpoint.revision = run.revision])
    /\ UNCHANGED <<runs, proposals, suppressed, source, reviews, reappear,
                   receipts, jobs, faults>>

SuppressionHolds(j, a) ==
    workers[j][a].raw \ suppressed = workers[j][a].kept

(* prepare of PublishStagedImportRun: the claim and its checkpoint, the    *)
(* run, and everything the preflight read, all again under the write lock. *)
CanPublish(j, a) ==
    /\ Owns(j, a)
    /\ jobs[j].checkpoint = Held(j, a)
    /\ CanPreflight(j, a)
    /\ source = workers[j][a].seen
    /\ SuppressionHolds(j, a)

(* Faulty variant of ReappearanceDue: every publication with rows. *)
ReappearanceAlways(class) == class \notin NoopClasses

ReappearanceDue(class) == class = "NEW_SOURCE"

(* apply of PublishStagedImportRun.  Its command id is derived from the    *)
(* attempt, so no other attempt can replay its receipt.                    *)
Publish(j, a) ==
    LET r     == RunOf(j, a)
        class == Classification(r)
        kept  == workers[j][a].kept
        state == TargetState(class, kept)
    IN
    /\ At(j, a, "commit")
    /\ CanPublish(j, a)
    /\ runs' = [runs EXCEPT ![r] =
            [runs[r] EXCEPT !.state = state, !.revision = @ + 1,
                            !.fingerprint = Held(j, a).fingerprint,
                            !.rows = IF class \in NoopClasses THEN 0 ELSE @,
                            !.count = Cardinality(kept),
                            !.pending = Cardinality(kept)]]
    /\ proposals' = [proposals EXCEPT ![r] =
            [m \in Materials |-> IF m \in kept THEN "pending" ELSE "none"]]
    /\ reappear' = IF ReappearanceDue(class) THEN reappear \cup {r}
                                             ELSE reappear
    /\ Becomes(j, a, [Idle EXCEPT
            !.step = IF state = "noop_pending_checkpoint"
                     THEN "noop" ELSE "complete",
            !.checkpoint = [Held(j, a) EXCEPT !.revision = @ + 1]])
    /\ UNCHANGED <<suppressed, source, reviews, receipts, jobs, faults>>

(* The end of _publish_run for a newer identical file: the source          *)
(* checkpoint is read in a snapshot of its own ...                         *)
SeeSource(j, a) ==
    /\ At(j, a, "noop")
    /\ source.revision > 0
    /\ Becomes(j, a, [workers[j][a] EXCEPT !.step = "note", !.seen = source])
    /\ UNCHANGED <<runs, proposals, suppressed, source, reviews, reappear,
                   receipts, jobs, faults>>

(* ... and its revision, by now perhaps an old one, goes into the job's    *)
(* checkpoint.                                                             *)
NoteSource(j, a) ==
    LET checkpoint == [Held(j, a) EXCEPT
            !.phase = "noop_checkpoint", !.source = workers[j][a].seen.revision]
    IN
    /\ At(j, a, "note")
    /\ Owns(j, a)
    /\ Saved(j, checkpoint)
    /\ Becomes(j, a, [Idle EXCEPT !.step = "record",
                                  !.checkpoint = checkpoint])
    /\ UNCHANGED <<runs, proposals, suppressed, source, reviews, reappear,
                   receipts, faults>>

(* The base revisions that RecordNewerIdenticalSourceCheck hashes. *)
Request(j, a) ==
    [revision |-> Held(j, a).revision, source |-> Held(j, a).source]

(* prepare of RecordNewerIdenticalSourceCheck; it does not see the claim.  *)
(* (Its NO_CHANGE branch, a run that is already a noop at the requested    *)
(* revision, has no caller: a requested revision is one of a pending run.) *)
CanRecord(j, a) ==
    LET run == runs[RunOf(j, a)] IN
    /\ receipts[RunOf(j, a)] = NoReceipt
    /\ run.revision = Held(j, a).revision
    /\ source.revision = Held(j, a).source
    /\ run.fingerprint = Held(j, a).fingerprint
    /\ run.state = "noop_pending_checkpoint"
    /\ run.chronology > source.chronology
    /\ run.fingerprint = source.fingerprint
    /\ run.count = 0 /\ run.pending = 0 /\ run.rows = 0

(* _finalize_noop: the source checkpoint and the run advance together. *)
RecordNewerIdentical(j, a) ==
    LET r == RunOf(j, a) IN
    /\ At(j, a, "record")
    /\ CanRecord(j, a)
    /\ source' = [revision |-> source.revision + 1,
                  chronology |-> runs[r].chronology,
                  fingerprint |-> runs[r].fingerprint, run |-> r]
    /\ runs' = [runs EXCEPT ![r].state = "noop", ![r].revision = @ + 1]
    /\ receipts' = [receipts EXCEPT ![r] = Request(j, a)]
    /\ Becomes(j, a, [workers[j][a] EXCEPT !.step = "complete"])
    /\ UNCHANGED <<proposals, suppressed, reviews, reappear, jobs, faults>>

(* _assert_replay_match: the receipt answers the very same request. *)
CanReplay(j, a) == receipts[RunOf(j, a)] = Request(j, a)

(* The same command again, by a later attempt: the stored answer. *)
ReplayNewerIdentical(j, a) ==
    /\ At(j, a, "record")
    /\ CanReplay(j, a)
    /\ Becomes(j, a, [workers[j][a] EXCEPT !.step = "complete"])
    /\ UNCHANGED <<runs, proposals, suppressed, source, reviews, reappear,
                   receipts, jobs, faults>>

Complete(j, a) ==
    /\ At(j, a, "complete")
    /\ Owns(j, a)
    /\ jobs' = [jobs EXCEPT ![j].state = "completed"]
    /\ Becomes(j, a, Idle)
    /\ UNCHANGED <<runs, proposals, suppressed, source, reviews, reappear,
                   receipts, faults>>

(* The step the worker is at raises a stale, conflict or integrity error. *)
Rejects(j, a) ==
    CASE At(j, a, "claimed") -> /\ Held(j, a) = NoCheckpoint
                                /\ ~CanStartRun(j, a)
      [] At(j, a, "stage")    -> ~CanStage(j, a)
      [] At(j, a, "verify")   -> ~CanStage(j, a)
      [] At(j, a, "publish")  -> ~CanPreflight(j, a) /\ ~CanAdopt(j, a)
      [] At(j, a, "commit")   -> ~CanPublish(j, a)
      [] At(j, a, "noop")     -> source.revision = 0
      [] At(j, a, "note")     -> ~Owns(j, a)
      [] At(j, a, "record")   -> ~CanRecord(j, a) /\ ~CanReplay(j, a)
      [] At(j, a, "complete") -> ~Owns(j, a)
      [] OTHER                -> FALSE

(* run() lets the error through: the worker ends with nothing changed, and *)
(* the job stays running until its claim is failed or recovered.           *)
Refused(j, a) ==
    /\ Rejects(j, a)
    /\ Becomes(j, a, Idle)
    /\ UNCHANGED <<runs, proposals, suppressed, source, reviews, reappear,
                   receipts, jobs, faults>>

-----------------------------------------------------------------------------
(* The operator.  A command carries the revisions and fingerprints of an   *)
(* earlier read and changes nothing unless they are still current, so its  *)
(* successful executions are those below.                                  *)

Undecided(r, m) ==
    /\ proposals[r][m] = "pending"
    /\ runs[r].state \in Review
    /\ Authorized(r)

(* The state of a run under review after one of its proposals is decided. *)
Reviewed(state) ==
    IF state = "recovery_required" THEN state ELSE "waiting_review"

(* Faulty variant of Decide: the pending counter is left alone. *)
DecideUncounted(r, m, decision) ==
    /\ Undecided(r, m)
    /\ proposals' = [proposals EXCEPT ![r][m] = decision]
    /\ suppressed' = suppressed \cup {m}
    /\ runs' = [runs EXCEPT ![r] =
            [runs[r] EXCEPT !.state = Reviewed(@), !.revision = @ + 1,
                            !.rejected = IF decision = "rejected" THEN @ + 1 ELSE @,
                            !.deferred = IF decision = "deferred" THEN @ + 1 ELSE @]]
    /\ UNCHANGED <<source, reviews, reappear, receipts, jobs, workers, faults>>

(* reject and defer: the decision also suppresses equivalent proposals. *)
Decide(r, m, decision) ==
    /\ Undecided(r, m)
    /\ runs[r].pending > 0
    /\ proposals' = [proposals EXCEPT ![r][m] = decision]
    /\ suppressed' = suppressed \cup {m}
    /\ runs' = [runs EXCEPT ![r] =
            [runs[r] EXCEPT !.state = Reviewed(@), !.revision = @ + 1,
                            !.pending = @ - 1,
                            !.rejected = IF decision = "rejected" THEN @ + 1 ELSE @,
                            !.deferred = IF decision = "deferred" THEN @ + 1 ELSE @]]
    /\ UNCHANGED <<source, reviews, reappear, receipts, jobs, workers, faults>>

(* accept: the owning domain applies the change (not modelled; it refuses  *)
(* when its base state moved), and identity proposals append follow-on     *)
(* proposals, less the suppressed ones, as a second revision.              *)
Accept(r, m, followOn) ==
    LET extra == followOn \ suppressed IN
    /\ Undecided(r, m)
    /\ runs[r].pending > 0
    /\ m \notin Blocked
    /\ followOn \subseteq In(r, "none")
    /\ proposals' = [proposals EXCEPT ![r] =
            [x \in Materials |-> CASE x = m -> "accepted"
                                   [] x \in extra -> "pending"
                                   [] OTHER -> @[x]]]
    /\ runs' = [runs EXCEPT ![r] =
            [runs[r] EXCEPT !.state = Reviewed(@),
                            !.revision = IF extra = {} THEN @ + 1 ELSE @ + 2,
                            !.pending = @ - 1 + Cardinality(extra),
                            !.count = @ + Cardinality(extra),
                            !.accepted = @ + 1]]
    /\ UNCHANGED <<suppressed, source, reviews, reappear, receipts, jobs,
                   workers, faults>>

(* The stored counters agree with the proposals, as finalize_run requires. *)
CountersAgree(r) ==
    /\ runs[r].count    = Cardinality(Materials \ In(r, "none"))
    /\ runs[r].pending  = Cardinality(In(r, "pending"))
    /\ runs[r].accepted = Cardinality(In(r, "accepted"))
    /\ runs[r].rejected = Cardinality(In(r, "rejected"))
    /\ runs[r].deferred = Cardinality(In(r, "deferred"))

FinalState(run) ==
    IF run.accepted = 0 /\ run.count > 0 THEN "rejected"
    ELSE IF run.rejected > 0 \/ run.deferred > 0 THEN "partially_accepted"
    ELSE "accepted"

(* The source checkpoint after run r was finalized into it. *)
SourceAt(r) == [revision |-> source.revision + 1,
                chronology |-> runs[r].chronology,
                fingerprint |-> runs[r].fingerprint, run |-> r]

Finalizing(r) ==
    /\ runs[r].pending = 0
    /\ CountersAgree(r)
    /\ runs' = [runs EXCEPT ![r] =
            [runs[r] EXCEPT !.state = FinalState(runs[r]), !.revision = @ + 1]]
    /\ UNCHANGED <<proposals, suppressed, reviews, receipts, jobs, workers,
                   faults>>

(* Faulty variant of Advances: any file of another age moves the checkpoint. *)
AdvancesAnyAge(r) ==
    source.revision = 0 \/ runs[r].chronology # source.chronology

(* establish_or_advance_finalized: only a strictly newer file. *)
Advances(r) ==
    source.revision = 0 \/ runs[r].chronology > source.chronology

(* finalize_run of an ordinary run.  The checkpoint advances whatever the  *)
(* decisions were: a fully rejected file has been processed too.           *)
FinalizeReview(r) ==
    /\ runs[r].state \in {"staged", "waiting_review"}
    /\ Advances(r)
    /\ Finalizing(r)
    /\ source' = SourceAt(r)
    /\ UNCHANGED reappear

(* finalize_run of an authorized recovery: an older file leaves the source *)
(* checkpoint alone, one of equal age with other content replaces it.      *)
FinalizeRecovery(r) ==
    /\ runs[r].state = "recovery_required"
    /\ Authorized(r)
    /\ Finalizing(r)
    /\ \/ /\ runs[r].chronology < source.chronology
          /\ UNCHANGED <<source, reappear>>
       \/ /\ runs[r].chronology = source.chronology
          /\ runs[r].fingerprint # source.fingerprint
          /\ source' = SourceAt(r)
          /\ reappear' = reappear \cup {r}

CanResolve(r) == runs[r].state = "recovery_required" /\ source.revision > 0

(* ResolveImportRecovery, authorize_correction and defer: a review row. *)
ReviewRecovery(r, decision) ==
    /\ CanResolve(r)
    /\ reviews' = [reviews EXCEPT ![r] =
            [decision |-> decision, fingerprint |-> ReviewFingerprint(r)]]
    /\ UNCHANGED <<runs, proposals, suppressed, source, reappear, receipts,
                   jobs, workers, faults>>

(* ResolveImportRecovery, reject: pending proposals are superseded. *)
RejectRecovery(r) ==
    /\ CanResolve(r)
    /\ runs[r].accepted = 0
    /\ reviews' = [reviews EXCEPT ![r] =
            [decision |-> "rejected", fingerprint |-> ReviewFingerprint(r)]]
    /\ proposals' = [proposals EXCEPT ![r] =
            [m \in Materials |-> IF @[m] = "pending" THEN "superseded"
                                                     ELSE @[m]]]
    /\ runs' = [runs EXCEPT ![r] =
            [runs[r] EXCEPT !.state = "rejected", !.pending = 0, !.revision = @ + 1]]
    /\ UNCHANGED <<suppressed, source, reappear, receipts, jobs, workers,
                   faults>>

-----------------------------------------------------------------------------
WorkerStep(j, a) ==
    \/ \E r \in RunIds, t \in Chronologies, c \in Contents :
          StartRun(j, a, r, t, c)
    \/ Resume(j, a)
    \/ StageBatch(j, a)
    \/ Verify(j, a)
    \/ \E raw \in SUBSET Materials : Preflight(j, a, raw)
    \/ Adopt(j, a)
    \/ Publish(j, a)
    \/ SeeSource(j, a)
    \/ NoteSource(j, a)
    \/ RecordNewerIdentical(j, a)
    \/ ReplayNewerIdentical(j, a)
    \/ Complete(j, a)
    \/ Refused(j, a)

OperatorStep(r) ==
    \/ \E m \in Materials, d \in {"rejected", "deferred"} : Decide(r, m, d)
    \/ \E m \in Materials, f \in SUBSET Materials : Accept(r, m, f)
    \/ FinalizeReview(r)
    \/ FinalizeRecovery(r)
    \/ \E d \in {"authorized", "deferred"} : ReviewRecovery(r, d)
    \/ RejectRecovery(r)

CoordinatorStep(j) ==
    \/ StartTicketSourceImportCheck(j)
    \/ ClaimNext(j)
    \/ LoseClaim(j)
    \/ \E retryable \in BOOLEAN : FailClaim(j, retryable)

Next ==
    \/ \E j \in Jobs : CoordinatorStep(j)
    \/ \E j \in Jobs, a \in Attempts : WorkerStep(j, a) \/ Stumble(j, a)
    \/ \E r \in RunIds : OperatorStep(r)

Spec == Init /\ [][Next]_vars

-----------------------------------------------------------------------------
(* Properties. *)

(* A source check never produces two import runs, however often it is      *)
(* retried, and even while a worker that lost its claim is still running:  *)
(* the run and the checkpoint that names it are one unit of work under the *)
(* claim (source_check._start_run).                                        *)
OneRunPerJob ==
    \A q, r \in RunIds :
        runs[q].job # NoRun /\ runs[q].job = runs[r].job => q = r

(* A published run carries the fingerprint of the whole file: crashes and  *)
(* retries in the middle of staging neither lose a batch of rows nor stage *)
(* one twice (source_check._stage and the publication's recomputation).    *)
PublishedIsWhole ==
    \A r \in RunIds :
        runs[r].state \notin {"none", "validating"} =>
            runs[r].fingerprint = runs[r].content

(* The source checkpoint names a run that was really finished, and has     *)
(* that run's chronology and fingerprint: the two are written together by  *)
(* finalize_run and record_newer_identical_source_check.                   *)
SourceNamesFinishedRun ==
    source.revision > 0 =>
        /\ source.run \in RunIds
        /\ runs[source.run].state \in Terminal
        /\ runs[source.run].chronology = source.chronology
        /\ runs[source.run].fingerprint = source.fingerprint

(* The source checkpoint never moves backward.  At the same age only its   *)
(* content is replaced, and only by a recovery an operator authorized; and *)
(* every change is one revision.                                           *)
SourceMovesForward ==
    [][source' # source =>
        /\ source'.revision = source.revision + 1
        /\ \/ source.revision = 0
           \/ source'.chronology > source.chronology
           \/ /\ source'.chronology = source.chronology
              /\ source'.fingerprint # source.fingerprint
              /\ runs[source'.run].state = "recovery_required"
              /\ reviews[source'.run].decision = "authorized"]_vars

(* A newer identical file moves the age of the source checkpoint and never *)
(* its content, also when another run was finalized into the checkpoint    *)
(* between the worker's look at it and the command                         *)
(* (record_newer_identical_source_check compares again).                   *)
NoopBringsNoContent ==
    [][\A r \in RunIds :
        runs[r].state = "noop_pending_checkpoint" /\ runs'[r].state = "noop" =>
            /\ source'.fingerprint = source.fingerprint
            /\ source'.chronology > source.chronology]_vars

(* The counters of a run under review agree with its proposals, so that    *)
(* finalize_run never meets "stored counters disagree with exact evidence".*)
CountersExact ==
    \A r \in RunIds : runs[r].state \in Review => CountersAgree(r)

(* A finished run stays as it is, with nothing left to decide: no late     *)
(* decision, worker or recovery reaches it or its proposals.               *)
FinishedIsFinal ==
    [][\A r \in RunIds : runs[r].state \in Terminal =>
        /\ runs'[r] = runs[r]
        /\ proposals'[r] = proposals[r]
        /\ In(r, "pending") = {}]_vars

(* A proposal equivalent to one that was rejected or deferred is not put   *)
(* up again, even when the decision fell between the publication's         *)
(* preflight and its command (filter_equivalence_suppressed).              *)
DecidedStaysDecided ==
    [][\A r \in RunIds, m \in Materials :
        proposals'[r][m] = "pending" /\ proposals[r][m] # "pending" =>
            m \notin suppressed]_vars

(* A completed source check leaves a published run, and never one that     *)
(* still waits for the source checkpoint to advance: complete comes after  *)
(* publication and after the newer-identical command, in every attempt.    *)
CompletedIsSettled ==
    \A j \in Jobs : jobs[j].state = "completed" =>
        \E r \in RunIds :
            /\ runs[r].job = j
            /\ runs[r].state \in Review \cup Terminal

(* Automatic reappearance work exists for the files that count as current  *)
(* evidence and for no other: never for a run that awaits recovery, nor    *)
(* for an older file, and always for the one the source checkpoint took    *)
(* rows from.                                                              *)
ReappearanceIsCurrent ==
    /\ \A r \in reappear :
          runs[r].state \in {"staged", "waiting_review", "accepted",
                            "partially_accepted", "rejected"}
    /\ source.revision > 0 /\ runs[source.run].state # "noop" =>
          source.run \in reappear

=============================================================================
