------------------------------ MODULE SlaReports ------------------------------
(***************************************************************************)
(* Generation of one SLA report: the attempt row, its staged snapshot, the *)
(* durable job that works on it, the worker process and the workbook files *)
(* at the destination.                                                     *)
(*                                                                         *)
(* The worker (jobs/report_generation.py) is sequential, but every         *)
(* checkpoint, command and file operation takes effect on its own: it may  *)
(* die after each one, the report may be cancelled between two, and the    *)
(* live rows the report is about change all the time.  An action is one    *)
(* such step; worker.pc says which comes next.  A command is executed by   *)
(* the command boundary: its receipt is what makes a repetition harmless.  *)
(*                                                                         *)
(* The hash of a snapshot is the snapshot itself, the bytes of a workbook  *)
(* the snapshot it represents; a fault may lose or damage the candidate.   *)
(***************************************************************************)
EXTENDS Integers, Sequences, FiniteSets

CONSTANTS Batches,    \* the batches of a snapshot: members, cohorts, sections
          MaxFaults,  \* bound on crashes and on damage to the candidate file
          MaxTries,   \* bound on claims; the code has none
          MaxLive,    \* bound on the versions of the live rows
          Damaged,    \* the bytes of a damaged workbook, or of another file
          None

Open == {"staging", "ready_to_generate", "generating", "verifying"}
Settled == {"completed", "failed", "cancelled"}

(* Rows, and the bytes of a workbook. *)
SnapshotRow == [kind : STRING, version : Nat]
Bytes == Seq(SnapshotRow) \cup {None, Damaged}
Attempt == [state : Open \cup Settled, rev : Nat, count : Nat, hash : Bytes, candidate : BOOLEAN, artifact : Bytes]
Kinds == {"stage_batch", "seal", "mark_generating", "mark_verifying", "complete", "fail"}
CommandId == Kinds \X Nat \X Nat
PendingCommand == [kind : Kinds, id : CommandId, rev : Nat, hash : Bytes]
Phases == {"snapshotting", "sealed", "writing", "verifying", "publishing", "completing", "terminal"}
JobCheckpoint == [phase : Phases, rev : Nat, token : Nat, batch : Nat, pending : PendingCommand \cup {None},
                  candidate : BOOLEAN, published : Bytes]
Job == [state : {"queued", "running", "retry_wait"} \cup Settled, tries : Nat, checkpoint : JobCheckpoint \cup {None}]
Pcs == {"run_to_completion", "snapshot", "view", "batch", "stage", "staged", "seal", "sealed", "artifact",
        "generating", "writing", "write", "save", "saved", "verifying", "checked", "verify", "publishing",
        "publish", "move", "published", "complete", "terminal", "complete_job", "interrupted", "lost",
        "fail", "failed", "fail_job"}
Worker == [pc : Pcs, claim : Nat, view : Nat, rev : Nat, batch : Nat, mode : {"fresh", "resumed", "rebuilt"},
           proof : Bytes]

ASSUME ReportAssumption ==
    /\ Batches \in Seq(STRING) /\ Batches # << >>
    /\ MaxFaults \in Nat /\ MaxLive \in Nat /\ MaxTries \in Nat
    /\ None \notin Attempt /\ None \notin PendingCommand /\ None \notin JobCheckpoint
    /\ None \notin Job /\ None \notin Worker

VARIABLES attempt,    \* sla_report_attempts
          staged,     \* the snapshot rows of the attempt
          job,        \* its durable_jobs row, and the checkpoint in it
          receipts,   \* command_receipts of the worker's commands
          worker,     \* the worker process, or None
          disk,       \* the candidate and the final workbook
          live,       \* the version of the rows reports are made of
          faults      \* faults so far

vars == <<attempt, staged, job, receipts, worker, disk, live, faults>>

(* The final name may be taken by a file that is none of this report's. *)
Init ==
    /\ attempt = None /\ staged = << >> /\ job = None
    /\ receipts = {} /\ worker = None
    /\ disk \in {[candidate |-> None, final |-> f] : f \in {None, Damaged}}
    /\ live = 0 /\ faults = 0

-----------------------------------------------------------------------------
(* What a user does: start a report, cancel it. *)

start_resolved ==
    /\ attempt = None
    /\ attempt' = [state |-> "staging", rev |-> 1, count |-> 0, hash |-> None,
                   candidate |-> FALSE, artifact |-> None]
    /\ job' = [state |-> "queued", tries |-> 0, checkpoint |-> None]
    /\ UNCHANGED <<staged, receipts, worker, disk, live, faults>>

Ended(state) ==
    [state |-> state, rev |-> attempt.rev + 1, count |-> 0, hash |-> None,
     candidate |-> FALSE, artifact |-> None]

(* Altered form: the claim of a running job is not revoked. *)
CancelQueuedJob == IF job.state \in Settled \cup {"running"} THEN job ELSE [job EXCEPT !.state = "cancelled"]

CancelJob == IF job.state \in Settled THEN job ELSE [job EXCEPT !.state = "cancelled"]

cancel ==
    /\ attempt # None /\ attempt.state \in Open
    /\ job.state # "completed"
    /\ job' = CancelJob
    /\ staged' = << >>
    /\ attempt' = Ended("cancelled")
    /\ UNCHANGED <<receipts, worker, disk, live, faults>>

-----------------------------------------------------------------------------
(* The worker's steps. *)

At(pc) == worker # None /\ worker.pc = pc
Goto(pc) == worker' = [worker EXCEPT !.pc = pc]
Raise == worker' = None

claim_next ==
    /\ worker = None
    /\ job # None /\ job.state \in {"queued", "retry_wait"} /\ job.tries < MaxTries
    /\ job' = [job EXCEPT !.state = "running", !.tries = @ + 1]
    /\ worker' = [pc |-> "run_to_completion", claim |-> job.tries + 1, view |-> 0,
                  rev |-> attempt.rev, batch |-> 1, mode |-> "fresh", proof |-> None]
    /\ UNCHANGED <<attempt, staged, receipts, disk, live, faults>>

(* The claim is current: no cancellation has revoked it. *)
Claimed == job.state = "running" /\ job.tries = worker.claim

(* A checkpoint under a claim that is no longer current raises. *)
Checkpoint(c, pc) ==
    /\ IF Claimed
       THEN job' = [job EXCEPT !.checkpoint = c] /\ Goto(pc)
       ELSE Raise /\ UNCHANGED job
    /\ UNCHANGED <<attempt, staged, receipts, disk, live, faults>>

_pending(kind, hash) ==
    [kind |-> kind, id |-> <<kind, worker.claim, worker.batch>>, rev |-> worker.rev, hash |-> hash]

Pending == job.checkpoint.pending

(* A command commits its effect and its receipt, or finds its receipt, or raises. *)
Command(allowed, effect, rows, pc) ==
    /\ IF Pending.id \in receipts
       THEN /\ worker' = [worker EXCEPT !.pc = pc, !.rev = Pending.rev + 1]
            /\ UNCHANGED <<attempt, staged, receipts>>
       ELSE IF allowed
       THEN /\ attempt' = effect /\ staged' = rows
            /\ receipts' = receipts \cup {Pending.id}
            /\ worker' = [worker EXCEPT !.pc = pc, !.rev = Pending.rev + 1]
       ELSE Raise /\ UNCHANGED <<attempt, staged, receipts>>
    /\ UNCHANGED <<job, disk, live, faults>>

_require_generation ==
    /\ job.state = "running"
    /\ job.checkpoint.phase = "snapshotting"
    /\ job.checkpoint.token = worker.claim

_require_worker_job_running == job.state = "running"

EmptyCheckpoint(phase) ==
    [phase |-> phase, rev |-> worker.rev, token |-> worker.claim, batch |-> 1,
     pending |-> None, candidate |-> FALSE, published |-> None]

-----------------------------------------------------------------------------
(* snapshot_and_seal: everything is read in one read transaction. *)

BeginSnapshot == At("snapshot") /\ Checkpoint(EmptyCheckpoint("snapshotting"), "view")

OpenView ==
    /\ At("view")
    /\ IF attempt.state = "staging" /\ attempt.rev = 1
       THEN worker' = [worker EXCEPT !.view = live, !.pc = "batch"]
       ELSE Raise
    /\ UNCHANGED <<attempt, staged, job, receipts, disk, live, faults>>

(* Altered form: every batch is read in a transaction of its own. *)
LivePage == [kind |-> Batches[worker.batch], version |-> live]

(* The rows of a batch as the open read transaction sees them. *)
Page == [kind |-> Batches[worker.batch], version |-> worker.view]

_checkpoint_batch ==
    /\ At("batch") /\ worker.batch <= Len(Batches)
    /\ Checkpoint([job.checkpoint EXCEPT !.rev = worker.rev, !.batch = worker.batch,
                                         !.pending = _pending("stage_batch", None)], "stage")

stage_batch ==
    /\ At("stage")
    /\ Command(/\ attempt.state = "staging" /\ attempt.rev = Pending.rev
               /\ _require_generation
               /\ job.checkpoint.batch = worker.batch,
               [attempt EXCEPT !.count = @ + 1, !.rev = @ + 1],
               Append(staged, Page), "staged")

BatchStaged ==
    /\ At("staged")
    /\ IF Claimed
       THEN /\ job' = [job EXCEPT !.checkpoint.rev = worker.rev, !.checkpoint.batch = worker.batch + 1,
                                  !.checkpoint.pending = None]
            /\ worker' = [worker EXCEPT !.pc = "batch", !.batch = @ + 1]
       ELSE Raise /\ UNCHANGED job
    /\ UNCHANGED <<attempt, staged, receipts, disk, live, faults>>

PendSeal ==
    /\ At("batch") /\ worker.batch > Len(Batches)
    /\ Checkpoint([job.checkpoint EXCEPT !.rev = worker.rev, !.batch = worker.batch,
                                         !.pending = _pending("seal", staged)], "seal")

seal ==
    /\ At("seal")
    /\ Command(/\ attempt.state = "staging" /\ attempt.rev = Pending.rev
               /\ _require_generation
               /\ staged = Pending.hash,
               [attempt EXCEPT !.state = "ready_to_generate", !.hash = Pending.hash,
                               !.count = Len(staged), !.rev = @ + 1],
               staged, "sealed")

Sealed == At("sealed") /\ Checkpoint(EmptyCheckpoint("sealed"), "artifact")

-----------------------------------------------------------------------------
(* artifact_and_complete: from the sealed snapshot to the published file. *)

artifact_and_complete ==
    /\ At("artifact")
    /\ IF /\ Claimed /\ job.checkpoint.phase = "sealed" /\ Pending = None
          /\ attempt.state = "ready_to_generate" /\ attempt.rev = job.checkpoint.rev
       THEN /\ job' = [job EXCEPT !.checkpoint.pending =
                          [_pending("mark_generating", attempt.hash) EXCEPT !.rev = attempt.rev]]
            /\ Goto("generating")
       ELSE Raise /\ UNCHANGED job
    /\ UNCHANGED <<attempt, staged, receipts, disk, live, faults>>

Transition(from, to, candidate, pc) ==
    Command(/\ attempt.state = from /\ attempt.rev = Pending.rev /\ attempt.hash = Pending.hash
            /\ _require_worker_job_running,
            [attempt EXCEPT !.state = to, !.candidate = candidate, !.rev = @ + 1],
            staged, pc)

mark_generating == At("generating") /\ Transition("ready_to_generate", "generating", FALSE, "writing")

Writing ==
    /\ At("writing")
    /\ Checkpoint([job.checkpoint EXCEPT !.phase = "writing", !.rev = worker.rev, !.pending = None],
                  "write")

_require_sealed_snapshot(states) ==
    /\ attempt.state \in states
    /\ attempt.hash = staged /\ attempt.count = Len(staged)

(* A resumed worker first removes the candidate it finds; a fresh one refuses it. *)
write_candidate ==
    /\ At("write")
    /\ IF /\ _require_sealed_snapshot(Open \ {"staging"})
          /\ worker.mode = "fresh" => disk.candidate = None
       THEN /\ worker' = [worker EXCEPT !.pc = "save", !.proof = attempt.hash]
            /\ disk' = [disk EXCEPT !.candidate = None]
       ELSE Raise /\ UNCHANGED disk
    /\ UNCHANGED <<attempt, staged, job, receipts, live, faults>>

SaveCandidate ==
    /\ At("save")
    /\ disk' = [disk EXCEPT !.candidate = worker.proof]
    /\ Goto(IF job.checkpoint.phase # "writing" THEN "verify"
            ELSE IF Pending = None THEN "saved" ELSE "verifying")
    /\ UNCHANGED <<attempt, staged, job, receipts, live, faults>>

PendVerifying ==
    /\ At("saved")
    /\ Checkpoint([job.checkpoint EXCEPT !.candidate = TRUE,
                                         !.pending = _pending("mark_verifying", worker.proof)],
                  "verifying")

mark_verifying == At("verifying") /\ Transition("generating", "verifying", TRUE, "checked")

Verifying ==
    /\ At("checked")
    /\ Checkpoint([job.checkpoint EXCEPT !.phase = "verifying", !.rev = worker.rev, !.pending = None],
                  "verify")

(* A resumed worker rebuilds, once, a candidate that is missing or damaged. *)
verify_candidate ==
    /\ At("verify")
    /\ IF _require_sealed_snapshot({"verifying"}) /\ disk.candidate = attempt.hash
       THEN worker' = [worker EXCEPT !.pc = "publishing", !.proof = disk.candidate]
       ELSE IF worker.mode = "resumed"
       THEN worker' = [worker EXCEPT !.pc = "write", !.mode = "rebuilt"]
       ELSE Raise
    /\ UNCHANGED <<attempt, staged, job, receipts, disk, live, faults>>

Publishing ==
    /\ At("publishing")
    /\ Checkpoint([job.checkpoint EXCEPT !.phase = "publishing"], "publish")

(* The attempt is looked at, then the file is moved: a cancellation may fall between. *)
publish_verified ==
    /\ At("publish")
    /\ IF attempt.state = "verifying" /\ attempt.hash = worker.proof /\ attempt.candidate
       THEN Goto("move")
       ELSE Raise
    /\ UNCHANGED <<attempt, staged, job, receipts, disk, live, faults>>

(* A final file that is there already is accepted when it is this very      *)
(* workbook, and never replaced.                                            *)
MoveToFinal ==
    /\ At("move")
    /\ IF disk.final = worker.proof
       THEN Goto("published") /\ UNCHANGED disk
       ELSE IF disk.final = None /\ disk.candidate = worker.proof
       THEN disk' = [candidate |-> None, final |-> worker.proof] /\ Goto("published")
       ELSE Raise /\ UNCHANGED disk
    /\ UNCHANGED <<attempt, staged, job, receipts, live, faults>>

Completing ==
    /\ At("published")
    /\ Checkpoint([job.checkpoint EXCEPT !.phase = "completing", !.published = worker.proof,
                      !.pending = _pending("complete", worker.proof)], "complete")

complete ==
    /\ At("complete")
    /\ Command(/\ attempt.state = "verifying" /\ attempt.rev = Pending.rev
               /\ attempt.candidate /\ attempt.artifact = None
               /\ _require_worker_job_running
               /\ _require_sealed_snapshot({"verifying"}) /\ attempt.hash = Pending.hash,
               [attempt EXCEPT !.state = "completed", !.artifact = job.checkpoint.published,
                               !.rev = @ + 1],
               staged, "terminal")

_checkpoint_terminal(from, to) ==
    /\ At(from)
    /\ Checkpoint([EmptyCheckpoint("terminal") EXCEPT !.rev = attempt.rev], to)

EndJob(from, state) ==
    /\ At(from)
    /\ job' = IF Claimed THEN [job EXCEPT !.state = state] ELSE job
    /\ worker' = None
    /\ UNCHANGED <<attempt, staged, receipts, disk, live, faults>>

Completed == _checkpoint_terminal("terminal", "complete_job")
CompleteJob == EndJob("complete_job", "completed")

-----------------------------------------------------------------------------
(* Giving up: an interrupted snapshot, or a publication without its proof. *)

_fail_interrupted_snapshot ==
    /\ At("interrupted")
    /\ Checkpoint([EmptyCheckpoint("snapshotting") EXCEPT !.pending = _pending("fail", None)], "fail")

_fail_artifact_recovery ==
    /\ At("lost")
    /\ Checkpoint([job.checkpoint EXCEPT !.pending = _pending("fail", None)], "fail")

fail ==
    /\ At("fail")
    /\ Command(attempt.state \in Open /\ attempt.rev = Pending.rev, Ended("failed"), << >>, "failed")

Failed == _checkpoint_terminal("failed", "fail_job")
FailJob == EndJob("fail_job", "failed")

-----------------------------------------------------------------------------
(* What a claim does first: where the last one stopped decides. *)

Resume(mode, pc) == [worker EXCEPT !.pc = pc, !.mode = mode, !.rev = attempt.rev]

(* Altered form: an interrupted snapshot is always given up. *)
NeverResumed == FALSE

_resume_committed_seal ==
    /\ attempt.state = "ready_to_generate"
    /\ Pending # None /\ Pending.kind = "seal" /\ Pending.hash = attempt.hash

SnapshotPhase ==
    IF _resume_committed_seal THEN Resume("fresh", "sealed")
    ELSE IF attempt.state = "staging" THEN Resume("fresh", "interrupted") ELSE None

_resume_sealed_phase ==
    IF Pending = None
    THEN IF attempt.state = "ready_to_generate" THEN Resume("fresh", "artifact") ELSE None
    ELSE IF /\ Pending.kind = "mark_generating" /\ Pending.hash = attempt.hash
            /\ attempt.state \in {"ready_to_generate", "generating"}
         THEN Resume("resumed", "generating") ELSE None

_resume_writing_phase ==
    IF Pending = None
    THEN IF attempt.state = "generating" THEN Resume("resumed", "write") ELSE None
    ELSE IF attempt.state = "verifying" \/ (attempt.state = "generating" /\ disk.candidate # None)
    THEN Resume("resumed", "verifying")
    ELSE IF attempt.state = "generating" THEN Resume("resumed", "write") ELSE None

CandidateStands == attempt.state = "verifying" /\ attempt.candidate

_resume_verifying_phase == IF CandidateStands THEN Resume("resumed", "verify") ELSE None

_resume_publishing_phase ==
    IF ~CandidateStands THEN None
    ELSE IF disk.candidate = None THEN Resume("resumed", "lost") ELSE Resume("resumed", "verify")

_resume_published_completion ==
    IF /\ attempt.state = "verifying" /\ Pending # None /\ Pending.kind = "complete"
       /\ Pending.hash = attempt.hash
    THEN Resume("resumed", "complete") ELSE None

ResumePhase ==
    LET phase == job.checkpoint.phase IN
    CASE phase = "snapshotting" -> SnapshotPhase
      [] phase = "sealed" -> _resume_sealed_phase
      [] phase = "writing" -> _resume_writing_phase
      [] phase = "verifying" -> _resume_verifying_phase
      [] phase = "publishing" -> _resume_publishing_phase
      [] phase = "completing" -> _resume_published_completion
      [] OTHER -> None

run_to_completion ==
    /\ At("run_to_completion")
    /\ worker' =
         CASE attempt.state = "completed" -> Resume("fresh", "terminal")
           [] attempt.state = "failed" -> Resume("fresh", "failed")
           [] attempt.state = "cancelled" -> None
           [] attempt.state \in Open /\ job.checkpoint # None -> ResumePhase
           [] attempt.state \in Open /\ job.checkpoint = None /\ worker.claim = 1 ->
                  Resume("fresh", "snapshot")
           [] OTHER -> IF attempt.state = "staging" THEN Resume("fresh", "interrupted") ELSE None
    /\ UNCHANGED <<attempt, staged, job, receipts, disk, live, faults>>

-----------------------------------------------------------------------------
(* The environment. *)

(* The process dies, or anything the worker calls raises. *)
Die ==
    /\ worker # None /\ faults < MaxFaults
    /\ worker' = None /\ faults' = faults + 1
    /\ UNCHANGED <<attempt, staged, job, receipts, disk, live>>

(* The next start of the host finds a job that is running and nobody's: its *)
(* worker died or raised.  It is claimed again, however often that was.     *)
_recover_report_stale ==
    /\ worker = None
    /\ job # None /\ job.state = "running"
    /\ job' = [job EXCEPT !.state = "retry_wait"]
    /\ UNCHANGED <<attempt, staged, receipts, worker, disk, live, faults>>

(* The candidate is lost, or something else is found in its place: the      *)
(* destination is a directory others write to.                              *)
DamageCandidate ==
    /\ faults < MaxFaults
    /\ disk' \in {[disk EXCEPT !.candidate = None], [disk EXCEPT !.candidate = Damaged]}
    /\ disk' # disk
    /\ faults' = faults + 1
    /\ UNCHANGED <<attempt, staged, job, receipts, worker, live>>

LiveChange ==
    /\ live < MaxLive
    /\ live' = live + 1
    /\ UNCHANGED <<attempt, staged, job, receipts, worker, disk, faults>>

WorkerStep ==
    \/ run_to_completion
    \/ BeginSnapshot \/ OpenView \/ _checkpoint_batch \/ stage_batch \/ BatchStaged
    \/ PendSeal \/ seal \/ Sealed
    \/ artifact_and_complete \/ mark_generating \/ Writing
    \/ write_candidate \/ SaveCandidate \/ PendVerifying \/ mark_verifying \/ Verifying
    \/ verify_candidate \/ Publishing \/ publish_verified \/ MoveToFinal
    \/ Completing \/ complete \/ Completed \/ CompleteJob
    \/ _fail_interrupted_snapshot \/ _fail_artifact_recovery \/ fail \/ Failed \/ FailJob

Next ==
    \/ start_resolved \/ cancel \/ claim_next \/ WorkerStep
    \/ Die \/ _recover_report_stale \/ DamageCandidate \/ LiveChange

Spec == Init /\ [][Next]_vars

-----------------------------------------------------------------------------
(* Properties. *)

(* A completed report stands for one moment: every staged row comes from the *)
(* same version of the live rows, the seal covers exactly those rows, and the *)
(* final workbook holds exactly them, whatever died, was damaged or was done  *)
(* again on the way (snapshot_and_seal, seal, publish_verified, complete).    *)
CompletedIsExact ==
    attempt # None /\ attempt.state = "completed" =>
        /\ disk.final = attempt.hash /\ attempt.artifact = attempt.hash
        /\ attempt.hash = staged
        /\ \E v \in 0..MaxLive :
              staged = [i \in 1..Len(Batches) |-> [kind |-> Batches[i], version |-> v]]

(* The job and the report never tell different stories: a finished job is the *)
(* job of a report that ended the same way, a cancelled report has no job left *)
(* to run (run_to_completion, cancel, _recover_report_stale).                  *)
JobAgrees ==
    job # None =>
        /\ job.state \in Settled => attempt.state = job.state
        /\ attempt.state = "cancelled" => job.state = "cancelled"

(* Recovery accepts whatever an earlier claim left: no death of the worker     *)
(* between a checkpoint, a command and a file operation makes the next claim   *)
(* refuse the state it finds, unless the report was cancelled meanwhile        *)
(* (run_to_completion and the _resume functions).                              *)
RecoveryAccepts ==
    [][run_to_completion /\ attempt.state # "cancelled" => worker' # None]_vars
=============================================================================
