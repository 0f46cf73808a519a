---------------------------- MODULE SlaReportsProofs ----------------------------
(***************************************************************************)
(* Proofs about SlaReports: a completed report is one snapshot and its     *)
(* workbook says the same, and job and report end alike.                   *)
(***************************************************************************)
EXTENDS SlaReports, TLAPS

(* The rows of the first n batches as one moment shows them. *)
Snapshot(v, n) == [i \in 1..n |-> [kind |-> Batches[i], version |-> v]]

-----------------------------------------------------------------------------
(* The invariant.  The two properties speak of the end; what carries them      *)
(* there is what the worker may assume at each of its steps, what a checkpoint *)
(* of each phase says to the worker that finds it, and that the identity of a  *)
(* command is used by one claim for one purpose.                               *)

ReportType ==
    /\ attempt \in Attempt \cup {None} /\ staged \in Seq(SnapshotRow)
    /\ job \in Job \cup {None} /\ receipts \subseteq CommandId /\ worker \in Worker \cup {None}
    /\ disk \in [candidate : Bytes, final : Bytes] /\ live \in 0..MaxLive

(* The attempt and its rows: nothing is staged at its first revision, and what *)
(* has been sealed is whole.                                                   *)
AttemptInv ==
    attempt # None =>
        /\ attempt.state = "staging" => attempt.rev = Len(staged) + 1
        /\ attempt.state \in (Open \ {"staging"}) \cup {"completed"} =>
              \E v \in 0..MaxLive : staged = Snapshot(v, Len(Batches))
        /\ attempt.state = "completed" =>
              disk.final = attempt.hash /\ attempt.artifact = attempt.hash /\ attempt.hash = staged

(* Receipts are of claims that were given, and the last ones tell how it ended. *)
ReceiptInv ==
    \A id \in receipts :
        /\ id[2] <= job.tries
        /\ id[1] = "complete" => attempt.state = "completed"
        /\ id[1] = "fail" => attempt.state = "failed"

(* What a checkpoint promises to the worker that resumes from it. *)
CheckpointInv ==
    job # None /\ job.checkpoint # None =>
        /\ Pending # None => Pending.id[1] = Pending.kind /\ Pending.id[2] <= job.tries
        /\ job.checkpoint.phase = "sealed" => Pending = None \/ Pending.kind = "mark_generating"
        /\ job.checkpoint.phase = "writing" => Pending = None \/ Pending.kind = "mark_verifying"
        /\ job.checkpoint.phase = "completing" =>
              /\ Pending # None /\ Pending.kind = "complete"
              /\ disk.final = job.checkpoint.published /\ Pending.hash = job.checkpoint.published

(* No command of this claim has staged batch n or a later one. *)
Unstaged(n) == \A id \in receipts : id[1] = "stage_batch" /\ id[2] = worker.claim => id[3] < n

(* What is staged is what the open view showed. *)
Shows(n) == attempt.state = "staging" => staged = Snapshot(worker.view, n)

Pends(kind) == job.checkpoint # None /\ Pending # None /\ Pending.kind = kind

(* The worker at its steps: what it is about to stage, *)
Staging ==
    /\ worker.pc \in {"run_to_completion", "snapshot", "view"} => worker.batch = 1
    /\ worker.pc \in {"run_to_completion", "snapshot", "view", "batch", "stage"} => Unstaged(worker.batch)
    /\ worker.pc \in {"batch", "stage"} => worker.batch \in 1..(Len(Batches) + 1) /\ Shows(worker.batch - 1)
    /\ worker.pc = "stage" => /\ worker.batch <= Len(Batches) /\ Pends("stage_batch")
                              /\ Pending.id = <<"stage_batch", worker.claim, worker.batch>>
    /\ worker.pc = "staged" => /\ worker.batch \in 1..Len(Batches)
                               /\ Unstaged(worker.batch + 1) /\ Shows(worker.batch)
    /\ worker.pc = "seal" => Pends("seal") /\ Shows(Len(Batches))
    /\ worker.pc \in {"view", "batch", "stage", "staged", "seal"} => job.checkpoint.phase = "snapshotting"

(* what it has pended and published, *)
Generating ==
    /\ worker.pc = "generating" => Pends("mark_generating")
    /\ worker.pc = "verifying" => Pends("mark_verifying")
    /\ worker.pc = "saved" => job.checkpoint.phase = "writing"
    /\ worker.pc \in {"publish", "move", "published", "lost"} => job.checkpoint.phase = "publishing"
    /\ worker.pc = "published" => disk.final = worker.proof
    /\ worker.pc = "complete" => job.checkpoint.phase = "completing"

(* and how the report has ended. *)
Ending ==
    /\ worker.pc \in {"terminal", "complete_job"} => attempt.state = "completed"
    /\ worker.pc \in {"failed", "fail_job"} => attempt.state = "failed"
    /\ worker.pc = "fail" => Pends("fail")
    /\ attempt.state = "completed" => worker.pc \in {"run_to_completion", "terminal", "complete_job"}

WithoutCheckpoint == {"run_to_completion", "snapshot", "sealed", "interrupted", "terminal", "complete_job", "failed", "fail_job"}

WorkerInv ==
    worker # None =>
        /\ job # None /\ worker.claim = job.tries /\ worker.view \in 0..MaxLive
        /\ worker.pc \notin WithoutCheckpoint => job.checkpoint # None
        /\ Staging /\ Generating /\ Ending

ReportInv ==
    /\ ReportType /\ (attempt = None <=> job = None) /\ (job = None => receipts = {} /\ staged = << >>)
    /\ AttemptInv /\ ReceiptInv /\ CheckpointInv /\ WorkerInv /\ JobAgrees

-----------------------------------------------------------------------------
(* Snapshots. *)

LEMMA SnapshotFacts ==
    ASSUME NEW v \in Nat
    PROVE  /\ \A n \in 0..Len(Batches) : Snapshot(v, n) \in Seq(SnapshotRow) /\ Len(Snapshot(v, n)) = n
           /\ Snapshot(v, 0) = << >>
           /\ \A n \in 1..Len(Batches) :
                 Append(Snapshot(v, n - 1), [kind |-> Batches[n], version |-> v]) = Snapshot(v, n)
<1>0. Len(Batches) \in Nat /\ \A i \in 1..Len(Batches) : Batches[i] \in STRING
  BY ReportAssumption
<1>1. ASSUME NEW n \in 0..Len(Batches) PROVE Snapshot(v, n) \in Seq(SnapshotRow) /\ Len(Snapshot(v, n)) = n
  <2>1. \A i \in 1..n : [kind |-> Batches[i], version |-> v] \in SnapshotRow
    BY <1>0 DEF SnapshotRow
  <2>2. Snapshot(v, n) \in [1..n -> SnapshotRow]
    BY <2>1 DEF Snapshot
  <2> QED  BY <1>0, <2>2
<1>2. Snapshot(v, 0) = << >>
  BY DEF Snapshot
<1>3. ASSUME NEW n \in 1..Len(Batches)
      PROVE  Append(Snapshot(v, n - 1), [kind |-> Batches[n], version |-> v]) = Snapshot(v, n)
  <2> DEFINE s == Snapshot(v, n - 1)
             e == [kind |-> Batches[n], version |-> v]
  <2>1. s \in Seq(SnapshotRow) /\ Len(s) = n - 1
    BY <1>0, <1>1
  <2>2. Append(s, e) = [i \in 1..(Len(s) + 1) |-> IF i = Len(s) + 1 THEN e ELSE s[i]]
    BY <2>1
  <2>3. \A i \in 1..n : (IF i = n THEN e ELSE s[i]) = [kind |-> Batches[i], version |-> v]
    BY <1>0 DEF Snapshot
  <2>4. Len(s) + 1 = n
    BY <1>0, <2>1
  <2> HIDE DEF s, e
  <2>5. Append(s, e) = [i \in 1..n |-> [kind |-> Batches[i], version |-> v]]
    BY <2>2, <2>3, <2>4
  <2> QED  BY <2>5 DEF Snapshot, s, e
<1> QED  BY <1>1, <1>2, <1>3

-----------------------------------------------------------------------------
(* Edits of the rows. *)

LEMMA WorkerEdits ==
    ASSUME NEW old \in Worker, NEW pc \in Pcs
    PROVE  LET w == [old EXCEPT !.pc = pc]
           IN  /\ w \in Worker /\ w.pc = pc /\ w.claim = old.claim /\ w.view = old.view
               /\ w.batch = old.batch /\ w.proof = old.proof
BY DEF Worker

LEMMA JobEdits ==
    ASSUME NEW old \in Job, NEW c \in JobCheckpoint \cup {None}
    PROVE  LET j == [old EXCEPT !.checkpoint = c]
           IN  j \in Job /\ j.state = old.state /\ j.tries = old.tries /\ j.checkpoint = c
BY DEF Job

-----------------------------------------------------------------------------
(* The forms of the worker's steps. *)

(* It moves on, with another checkpoint, or with another file. *)
LEMMA WorkerMoves ==
    ASSUME ReportInv, worker # None,
           NEW w \in Worker, worker' = w, w.claim = worker.claim, w.view \in 0..MaxLive,
           NEW c \in JobCheckpoint \cup {None}, job' = [job EXCEPT !.checkpoint = c],
           UNCHANGED <<attempt, staged, receipts, live>>,
           disk' \in [candidate : Bytes, final : Bytes], attempt.state = "completed" => disk'.final = disk.final,
           CheckpointInv', w.pc \notin WithoutCheckpoint => c # None,
           Staging', Generating', Ending'
    PROVE  ReportInv'
<1>1. job \in Job /\ job # None /\ attempt # None /\ worker.claim = job.tries
  BY DEF ReportInv, ReportType, WorkerInv
<1>2. job' \in Job /\ job'.state = job.state /\ job'.tries = job.tries /\ job'.checkpoint = c
  BY <1>1, JobEdits
<1>3. job' # None /\ worker' # None
  BY <1>2, ReportAssumption
<1>4. ReportType'
  BY <1>2 DEF ReportInv, ReportType
<1>5. AttemptInv'
  BY <1>1 DEF ReportInv, AttemptInv
<1>6. ReceiptInv' /\ JobAgrees'
  BY <1>1, <1>2, <1>3 DEF ReportInv, ReceiptInv, JobAgrees
<1>7. WorkerInv'
  BY <1>1, <1>2, <1>3 DEF WorkerInv
<1> QED  BY <1>1, <1>3, <1>4, <1>5, <1>6, <1>7 DEF ReportInv

(* It raises, or its process dies. *)
LEMMA WorkerEnds ==
    ASSUME ReportInv, worker' = None, UNCHANGED <<attempt, staged, receipts, job, disk, live>>
    PROVE  ReportInv'
<1>1. ReportType' /\ AttemptInv' /\ ReceiptInv' /\ JobAgrees'
  BY DEF ReportInv, ReportType, AttemptInv, ReceiptInv, JobAgrees
<1>2. CheckpointInv'
  BY DEF ReportInv, CheckpointInv, Pending
<1>3. WorkerInv'
  BY DEF WorkerInv
<1> QED  BY <1>1, <1>2, <1>3 DEF ReportInv

(* A command commits. *)
LEMMA WorkerCommits ==
    ASSUME ReportInv, worker # None, attempt.state \in Open, job.checkpoint # None, Pending # None,
           NEW w \in Worker, worker' = w, w.claim = worker.claim, w.view \in 0..MaxLive,
           NEW a \in Attempt, attempt' = a, a.state # "cancelled",
           NEW rows \in Seq(SnapshotRow), staged' = rows,
           receipts' = receipts \cup {Pending.id}, UNCHANGED <<job, disk, live>>,
           Pending.kind = "complete" => a.state = "completed", Pending.kind = "fail" => a.state = "failed",
           AttemptInv', Staging', Generating', Ending'
    PROVE  ReportInv'
<1>1. job \in Job /\ job # None /\ attempt # None /\ attempt \in Attempt /\ worker.claim = job.tries
  BY DEF ReportInv, ReportType, WorkerInv
<1>2. Pending \in PendingCommand /\ Pending.id[1] = Pending.kind /\ Pending.id[2] <= job.tries
  <2>1. job.checkpoint \in JobCheckpoint
    BY <1>1 DEF Job
  <2>2. Pending \in PendingCommand
    BY <2>1 DEF JobCheckpoint, Pending
  <2> QED  BY <1>1, <2>2 DEF ReportInv, CheckpointInv
<1>3. Pending.id \in CommandId
  BY <1>2 DEF PendingCommand
<1>4. a # None /\ w # None
  BY ReportAssumption
<1>5. ReportType'
  BY <1>3 DEF ReportInv, ReportType
<1>6. ReceiptInv'
  <2>1. \A id \in receipts : id[2] <= job.tries /\ id[1] # "complete" /\ id[1] # "fail"
    BY DEF ReportInv, ReceiptInv, Open
  <2> QED  BY <1>2, <2>1 DEF ReceiptInv
<1>7. JobAgrees'
  <2>1. job.state \notin Settled
    BY <1>1 DEF ReportInv, JobAgrees, Open, Settled
  <2> QED  BY <2>1 DEF JobAgrees
<1>8. CheckpointInv'
  BY DEF ReportInv, CheckpointInv, Pending
<1>9. WorkerInv'
  <2>1. w.pc \notin WithoutCheckpoint => job.checkpoint # None
    OBVIOUS
  <2> QED  BY <1>1, <2>1 DEF WorkerInv
<1> QED  BY <1>1, <1>4, <1>5, <1>6, <1>7, <1>8, <1>9 DEF ReportInv

(* The fields of the rows after a checkpoint, for the steps that write one. *)
Moved(c, pc) ==
    /\ job.state = "running" /\ job'.checkpoint = c /\ job'.tries = job.tries
    /\ worker'.pc = pc /\ worker'.claim = worker.claim /\ worker'.view = worker.view
    /\ worker'.batch = worker.batch /\ worker'.proof = worker.proof
    /\ UNCHANGED <<attempt, staged, receipts, disk, live>>

LEMMA CheckpointStep ==
    ASSUME ReportInv, worker # None, NEW c \in JobCheckpoint, NEW pc \in Pcs, Checkpoint(c, pc),
           Moved(c, pc) => CheckpointInv' /\ Staging' /\ Generating' /\ Ending'
    PROVE  ReportInv'
<1>1. CASE ~Claimed
  BY <1>1, WorkerEnds DEF Checkpoint, Raise
<1>2. CASE Claimed
  <2> DEFINE w == [worker EXCEPT !.pc = pc]
  <2>0. worker \in Worker /\ job \in Job /\ worker.view \in 0..MaxLive /\ job.state = "running"
    BY <1>2 DEF ReportInv, ReportType, WorkerInv, Claimed
  <2>1. /\ w \in Worker /\ w.pc = pc /\ w.claim = worker.claim /\ w.view = worker.view
        /\ w.batch = worker.batch /\ w.proof = worker.proof
    BY <2>0, WorkerEdits
  <2>2. worker' = w /\ job' = [job EXCEPT !.checkpoint = c] /\ UNCHANGED <<attempt, staged, receipts, disk, live>>
    BY <1>2 DEF Checkpoint, Goto
  <2> HIDE DEF w
  <2>3. job'.tries = job.tries /\ job'.checkpoint = c /\ c # None
    BY <2>0, <2>2, JobEdits, ReportAssumption
  <2>4. Moved(c, pc)
    BY <2>0, <2>1, <2>2, <2>3 DEF Moved
  <2>5. disk' \in [candidate : Bytes, final : Bytes]
    BY <2>2 DEF ReportInv, ReportType
  <2> QED  BY <2>0, <2>1, <2>2, <2>3, <2>4, <2>5, WorkerMoves
<1> QED  BY <1>1, <1>2

(* What is typed at a step of the worker. *)
LEMMA WorkerRows ==
    ASSUME ReportInv, worker # None
    PROVE  /\ worker \in Worker /\ job \in Job /\ attempt \in Attempt
           /\ worker.claim \in Nat /\ worker.batch \in Nat /\ worker.rev \in Nat /\ worker.proof \in Bytes
           /\ worker.view \in 0..MaxLive /\ worker.claim = job.tries /\ attempt.rev \in Nat /\ attempt.hash \in Bytes
           /\ staged \in Seq(SnapshotRow) /\ staged \in Bytes /\ None \in Bytes
           /\ job.checkpoint # None => /\ job.checkpoint \in JobCheckpoint
                                       /\ Pending # None => Pending \in PendingCommand /\ Pending.rev \in Nat
<1>1. worker \in Worker /\ job \in Job /\ attempt \in Attempt /\ worker.claim = job.tries
      /\ worker.view \in 0..MaxLive /\ staged \in Seq(SnapshotRow)
  BY DEF ReportInv, ReportType, WorkerInv
<1>2. worker.claim \in Nat /\ worker.batch \in Nat /\ worker.rev \in Nat /\ worker.proof \in Bytes
  BY <1>1 DEF Worker
<1>3. attempt.rev \in Nat /\ attempt.hash \in Bytes
  BY <1>1 DEF Attempt
<1>4. staged \in Bytes /\ None \in Bytes
  BY <1>1 DEF Bytes
<1>5. ASSUME job.checkpoint # None PROVE job.checkpoint \in JobCheckpoint
  BY <1>1, <1>5 DEF Job
<1>6. ASSUME job.checkpoint # None, Pending # None PROVE Pending \in PendingCommand /\ Pending.rev \in Nat
  <2>1. Pending \in PendingCommand
    BY <1>5, <1>6 DEF JobCheckpoint, Pending
  <2> QED  BY <2>1 DEF PendingCommand
<1> QED  BY <1>1, <1>2, <1>3, <1>4, <1>5, <1>6

LEMMA NewPending ==
    ASSUME ReportInv, worker # None, NEW kind \in Kinds, NEW hash \in Bytes
    PROVE  LET p == _pending(kind, hash)
           IN  /\ p \in PendingCommand /\ p.kind = kind /\ p.hash = hash /\ p # None
               /\ p.id = <<kind, worker.claim, worker.batch>>
               /\ p.id[1] = kind /\ p.id[2] = job.tries
<1> DEFINE p == _pending(kind, hash)
<1>1. worker.claim \in Nat /\ worker.batch \in Nat /\ worker.rev \in Nat /\ worker.claim = job.tries
  BY WorkerRows
<1>2. /\ p.kind = kind /\ p.hash = hash /\ p.id = <<kind, worker.claim, worker.batch>>
      /\ p = [kind |-> kind, id |-> <<kind, worker.claim, worker.batch>>, rev |-> worker.rev, hash |-> hash]
  BY DEF _pending
<1>3. p \in PendingCommand
  BY <1>1, <1>2 DEF PendingCommand, CommandId
<1>4. p # None
  BY <1>3, ReportAssumption
<1>5. p.id[1] = kind /\ p.id[2] = job.tries
  BY <1>1, <1>2
<1> HIDE DEF p
<1>6. /\ p \in PendingCommand /\ p.kind = kind /\ p.hash = hash /\ p # None
      /\ p.id = <<kind, worker.claim, worker.batch>> /\ p.id[1] = kind /\ p.id[2] = job.tries
  BY <1>2, <1>3, <1>4, <1>5
<1> QED  BY <1>6 DEF p

LEMMA EmptyFacts ==
    ASSUME ReportInv, worker # None, NEW ph \in Phases
    PROVE  LET c == EmptyCheckpoint(ph) IN c \in JobCheckpoint /\ c.phase = ph /\ c.pending = None /\ c.published = None
<1>1. worker.claim \in Nat /\ worker.rev \in Nat /\ None \in Bytes
  BY WorkerRows
<1> QED  BY <1>1 DEF EmptyCheckpoint, JobCheckpoint

(* After a checkpoint the receipts, the attempt and the files are as they were. *)
LEMMA MovedFacts ==
    ASSUME ReportInv, worker # None, NEW c \in JobCheckpoint, NEW pc \in Pcs, Moved(c, pc),
           c.pending # None => c.pending.id[1] = c.pending.kind /\ c.pending.id[2] <= job.tries,
           c.phase = "sealed" => c.pending = None \/ c.pending.kind = "mark_generating",
           c.phase = "writing" => c.pending = None \/ c.pending.kind = "mark_verifying",
           c.phase = "completing" =>
              /\ c.pending # None /\ c.pending.kind = "complete"
              /\ disk.final = c.published /\ c.pending.hash = c.published
    PROVE  CheckpointInv'
BY DEF Moved, CheckpointInv, Pending

-----------------------------------------------------------------------------
(* The snapshot. *)

LEMMA BeginSnapshotKeeps == ReportInv /\ BeginSnapshot => ReportInv'
<1> SUFFICES ASSUME ReportInv, BeginSnapshot PROVE ReportInv'
  OBVIOUS
<1> DEFINE c == EmptyCheckpoint("snapshotting")
<1>1. worker # None /\ worker.pc = "snapshot" /\ Checkpoint(c, "view")
  BY DEF BeginSnapshot, At
<1>2. c \in JobCheckpoint /\ c.phase = "snapshotting" /\ c.pending = None
  BY <1>1, EmptyFacts DEF Phases
<1>3. "view" \in Pcs
  BY DEF Pcs
<1> HIDE DEF c
<1>4. ASSUME Moved(c, "view") PROVE CheckpointInv' /\ Staging' /\ Generating' /\ Ending'
  <2>1. CheckpointInv'
    BY <1>1, <1>2, <1>3, <1>4, MovedFacts
  <2>2. Staging' /\ Generating' /\ Ending'
    BY <1>1, <1>2, <1>4 DEF Moved, ReportInv, WorkerInv, Staging, Generating, Ending, Unstaged
  <2> QED  BY <2>1, <2>2
<1> QED  BY <1>1, <1>2, <1>3, <1>4, CheckpointStep

LEMMA OpenViewKeeps == ReportInv /\ OpenView => ReportInv'
<1> SUFFICES ASSUME ReportInv, OpenView PROVE ReportInv'
  OBVIOUS
<1>1. worker # None /\ worker.pc = "view" /\ UNCHANGED <<attempt, staged, job, receipts, disk, live>>
  BY DEF OpenView, At
<1>2. CASE ~(attempt.state = "staging" /\ attempt.rev = 1)
  BY <1>1, <1>2, WorkerEnds DEF OpenView, Raise
<1>3. CASE attempt.state = "staging" /\ attempt.rev = 1
  <2> DEFINE w == [worker EXCEPT !.view = live, !.pc = "batch"]
  <2>1. worker' = w
    BY <1>3 DEF OpenView
  <2>2. worker \in Worker /\ job \in Job /\ attempt # None /\ live \in 0..MaxLive /\ live \in Nat
        /\ staged \in Seq(SnapshotRow) /\ "batch" \in Pcs
    BY <1>1, WorkerRows, ReportAssumption DEF ReportInv, ReportType, Pcs
  <2>3. w \in Worker /\ w.pc = "batch" /\ w.claim = worker.claim /\ w.view = live /\ w.batch = worker.batch
    BY <2>2 DEF Worker
  <2> HIDE DEF w
  <2>4. worker.batch = 1 /\ Unstaged(1) /\ job.checkpoint # None /\ job.checkpoint.phase = "snapshotting"
    BY <1>1 DEF ReportInv, WorkerInv, Staging, WithoutCheckpoint
  <2>5. staged = Snapshot(live, 0)
    <3>1. Len(staged) = 0
      BY <1>3, <2>2 DEF ReportInv, AttemptInv
    <3> QED  BY <2>2, <3>1, SnapshotFacts
  <2>6. Len(Batches) \in Nat
    BY ReportAssumption
  <2>7. Staging'
    BY <1>1, <2>1, <2>3, <2>4, <2>5, <2>6 DEF Staging, Unstaged, Shows
  <2>8. Generating' /\ Ending'
    BY <1>1, <1>3, <2>1, <2>3 DEF Generating, Ending
  <2>9. CheckpointInv'
    BY <1>1 DEF ReportInv, CheckpointInv, Pending
  <2>10. job' = [job EXCEPT !.checkpoint = job.checkpoint] /\ job.checkpoint \in JobCheckpoint \cup {None}
    BY <1>1, <2>2 DEF Job
  <2>11. disk' \in [candidate : Bytes, final : Bytes] /\ disk' = disk
    BY <1>1 DEF ReportInv, ReportType
  <2> QED  BY <1>1, <2>1, <2>2, <2>3, <2>4, <2>7, <2>8, <2>9, <2>10, <2>11, WorkerMoves
<1> QED  BY <1>2, <1>3

LEMMA CheckpointBatchKeeps == ReportInv /\ _checkpoint_batch => ReportInv'
<1> SUFFICES ASSUME ReportInv, _checkpoint_batch PROVE ReportInv'
  OBVIOUS
<1> DEFINE p == _pending("stage_batch", None)
           c == [job.checkpoint EXCEPT !.rev = worker.rev, !.batch = worker.batch, !.pending = p]
<1>1. worker # None /\ worker.pc = "batch" /\ worker.batch <= Len(Batches) /\ Checkpoint(c, "stage")
  BY DEF _checkpoint_batch, At
<1>2. /\ p \in PendingCommand /\ p.kind = "stage_batch" /\ p # None
      /\ p.id = <<"stage_batch", worker.claim, worker.batch>> /\ p.id[1] = p.kind /\ p.id[2] = job.tries
  BY <1>1, NewPending, WorkerRows DEF Kinds
<1>3. job.checkpoint \in JobCheckpoint /\ worker.rev \in Nat /\ worker.batch \in Nat /\ job.tries \in Nat
      /\ "stage" \in Pcs
  BY <1>1, WorkerRows DEF ReportInv, WorkerInv, WithoutCheckpoint, Pcs
<1> HIDE DEF p
<1>4. c \in JobCheckpoint /\ c.phase = job.checkpoint.phase /\ c.pending = p /\ c.published = job.checkpoint.published
  BY <1>2, <1>3 DEF JobCheckpoint
<1>5. job.checkpoint.phase = "snapshotting"
  BY <1>1 DEF ReportInv, WorkerInv, Staging
<1> HIDE DEF c
<1>6. ASSUME Moved(c, "stage") PROVE CheckpointInv' /\ Staging' /\ Generating' /\ Ending'
  <2>1. CheckpointInv'
    BY <1>1, <1>2, <1>3, <1>4, <1>5, <1>6, MovedFacts
  <2>2. Unstaged(worker.batch) /\ worker.batch \in 1..(Len(Batches) + 1) /\ Shows(worker.batch - 1)
        /\ attempt.state # "completed"
    BY <1>1 DEF ReportInv, WorkerInv, Staging, Ending
  <2>3. c # None
    BY <1>4, ReportAssumption
  <2>4. Staging'
    BY <1>1, <1>2, <1>4, <1>5, <1>6, <2>2, <2>3 DEF Moved, Staging, Unstaged, Shows, Pends, Pending
  <2>5. Generating' /\ Ending'
    BY <1>6, <2>2 DEF Moved, Generating, Ending
  <2> QED  BY <2>1, <2>4, <2>5
<1> QED  BY <1>1, <1>3, <1>4, <1>6, CheckpointStep

(* The worker goes on and nothing else changes. *)
LEMMA WorkerGoes ==
    ASSUME ReportInv, worker # None, NEW w \in Worker, worker' = w, w.claim = worker.claim, w.view \in 0..MaxLive,
           UNCHANGED <<attempt, staged, receipts, job, live>>,
           disk' \in [candidate : Bytes, final : Bytes], disk'.final = disk.final,
           w.pc \notin WithoutCheckpoint => job.checkpoint # None,
           Staging', Generating', Ending'
    PROVE  ReportInv'
<1>1. job \in Job
  BY WorkerRows
<1>2. job' = [job EXCEPT !.checkpoint = job.checkpoint] /\ job.checkpoint \in JobCheckpoint \cup {None}
  BY <1>1 DEF Job
<1>3. CheckpointInv'
  BY DEF ReportInv, CheckpointInv, Pending
<1> QED  BY <1>2, <1>3, WorkerMoves

(* What a command leaves in the worker. *)
LEMMA Answered ==
    ASSUME ReportInv, worker # None, job.checkpoint # None, Pending # None, NEW pc \in Pcs
    PROVE  LET w == [worker EXCEPT !.pc = pc, !.rev = Pending.rev + 1]
           IN  /\ w \in Worker /\ w.pc = pc /\ w.claim = worker.claim /\ w.view = worker.view
               /\ w.batch = worker.batch /\ w.proof = worker.proof /\ worker.view \in 0..MaxLive
<1> DEFINE r == Pending.rev + 1
<1>1. worker \in Worker /\ r \in Nat /\ worker.view \in 0..MaxLive
  BY WorkerRows
<1> HIDE DEF r
<1>2. LET w == [worker EXCEPT !.pc = pc, !.rev = r]
      IN  /\ w \in Worker /\ w.pc = pc /\ w.claim = worker.claim /\ w.view = worker.view
          /\ w.batch = worker.batch /\ w.proof = worker.proof
  BY <1>1 DEF Worker
<1> QED  BY <1>1, <1>2 DEF r

LEMMA StageBatchKeeps == ReportInv /\ stage_batch => ReportInv'
<1> SUFFICES ASSUME ReportInv, stage_batch PROVE ReportInv'
  OBVIOUS
<1> DEFINE w == [worker EXCEPT !.pc = "staged", !.rev = Pending.rev + 1]
           a == [attempt EXCEPT !.count = @ + 1, !.rev = @ + 1]
           allowed == /\ attempt.state = "staging" /\ attempt.rev = Pending.rev
                      /\ _require_generation /\ job.checkpoint.batch = worker.batch
<1>1. worker # None /\ worker.pc = "stage" /\ UNCHANGED <<job, disk, live>>
      /\ Command(allowed, a, Append(staged, Page), "staged")
  BY DEF stage_batch, At, Command
<1>2. /\ Pends("stage_batch") /\ Pending.id = <<"stage_batch", worker.claim, worker.batch>>
      /\ worker.batch \in 1..Len(Batches) /\ Unstaged(worker.batch) /\ Shows(worker.batch - 1)
      /\ job.checkpoint.phase = "snapshotting" /\ job.checkpoint # None /\ Pending # None
      /\ worker.view \in 0..MaxLive /\ attempt.state # "completed"
  <2>1. Len(Batches) \in Nat
    BY ReportAssumption
  <2> QED  BY <1>1, <2>1 DEF ReportInv, WorkerInv, Staging, Ending, Pends
<1>3. worker.claim \in Nat /\ worker.batch \in Nat /\ attempt \in Attempt /\ staged \in Seq(SnapshotRow)
      /\ disk \in [candidate : Bytes, final : Bytes] /\ attempt # None /\ "staged" \in Pcs
  BY <1>1, WorkerRows, ReportAssumption DEF ReportInv, ReportType, Pcs
<1>4. /\ w \in Worker /\ w.pc = "staged" /\ w.claim = worker.claim /\ w.view = worker.view
      /\ w.batch = worker.batch
  BY <1>1, <1>2, <1>3, Answered
<1>5. Pending.id \notin receipts
  BY <1>2, <1>3 DEF Unstaged
<1> HIDE DEF w
<1>6. CASE ~allowed
  BY <1>1, <1>5, <1>6, WorkerEnds DEF Command, Raise
<1>7. CASE allowed
  <2> DEFINE rows == Append(staged, Page)
  <2>1. worker' = w /\ attempt' = a /\ staged' = rows /\ receipts' = receipts \cup {Pending.id}
    BY <1>1, <1>5, <1>7 DEF Command, w
  <2>2. a \in Attempt /\ a.state = "staging" /\ a.rev = attempt.rev + 1
    <3>1. attempt.rev + 1 \in Nat /\ attempt.count + 1 \in Nat
      BY <1>3 DEF Attempt
    <3> QED  BY <1>3, <1>7, <3>1 DEF Attempt
  <2>3. rows = Snapshot(worker.view, worker.batch)
    <3>1. staged = Snapshot(worker.view, worker.batch - 1)
      BY <1>2, <1>7 DEF Shows
    <3>2. worker.view \in Nat
      BY <1>2, ReportAssumption
    <3> QED  BY <1>2, <3>1, <3>2, SnapshotFacts DEF Page
  <2>4. rows \in Seq(SnapshotRow) /\ Len(rows) = Len(staged) + 1 /\ Len(staged) \in Nat
    <3>1. worker.view \in Nat /\ worker.batch \in 0..Len(Batches) /\ worker.batch - 1 \in 0..Len(Batches)
      BY <1>2, ReportAssumption
    <3>2. staged = Snapshot(worker.view, worker.batch - 1)
      BY <1>2, <1>7 DEF Shows
    <3>3. Len(staged) = worker.batch - 1 /\ Len(rows) = worker.batch /\ rows \in Seq(SnapshotRow)
      BY <2>3, <3>1, <3>2, SnapshotFacts
    <3> QED  BY <1>3, <3>3
  <2> HIDE DEF rows, a
  <2>5. AttemptInv'
    <3>1. attempt.rev = Len(staged) + 1
      BY <1>3, <1>7 DEF ReportInv, AttemptInv
    <3> QED  BY <2>1, <2>2, <2>4, <3>1 DEF AttemptInv, Open
  <2>6. Unstaged(worker.batch + 1)'
    BY <1>1, <1>2, <1>3, <1>4, <2>1 DEF Unstaged, ReportInv, ReportType, CommandId
  <2>7. Staging'
    BY <1>1, <1>2, <1>4, <2>1, <2>3, <2>6 DEF Staging, Shows, Unstaged
  <2>8. Generating' /\ Ending'
    BY <1>4, <2>1, <2>2 DEF Generating, Ending
  <2>9. Pending.kind = "stage_batch" /\ attempt.state \in Open
    BY <1>2, <1>7 DEF Pends, Open
  <2> QED  BY <1>1, <1>2, <1>4, <2>1, <2>2, <2>4, <2>5, <2>7, <2>8, <2>9, WorkerCommits
<1> QED  BY <1>6, <1>7

LEMMA BatchStagedKeeps == ReportInv /\ BatchStaged => ReportInv'
<1> SUFFICES ASSUME ReportInv, BatchStaged PROVE ReportInv'
  OBVIOUS
<1>1. worker # None /\ worker.pc = "staged" /\ UNCHANGED <<attempt, staged, receipts, disk, live>>
  BY DEF BatchStaged, At
<1>2. CASE ~Claimed
  BY <1>1, <1>2, WorkerEnds DEF BatchStaged, Raise
<1>3. CASE Claimed
  <2> DEFINE w == [worker EXCEPT !.pc = "batch", !.batch = @ + 1]
             c == [job.checkpoint EXCEPT !.rev = worker.rev, !.batch = worker.batch + 1, !.pending = None]
  <2>1. worker' = w /\ job' = [job EXCEPT !.checkpoint.rev = worker.rev, !.checkpoint.batch = worker.batch + 1,
                                          !.checkpoint.pending = None]
    BY <1>3 DEF BatchStaged
  <2>2. /\ worker \in Worker /\ job \in Job /\ worker.batch \in Nat /\ worker.batch + 1 \in Nat /\ worker.rev \in Nat
        /\ worker.view \in 0..MaxLive
    BY <1>1, WorkerRows
  <2>3. /\ worker.batch \in 1..Len(Batches) /\ Unstaged(worker.batch + 1) /\ Shows(worker.batch)
        /\ job.checkpoint.phase = "snapshotting" /\ job.checkpoint # None /\ attempt.state # "completed"
    BY <1>1 DEF ReportInv, WorkerInv, Staging, Ending, WithoutCheckpoint
  <2>4. job.checkpoint \in JobCheckpoint /\ Len(Batches) \in Nat
    BY <1>1, <2>3, WorkerRows, ReportAssumption
  <2>5. job' = [job EXCEPT !.checkpoint = c]
    BY <2>1, <2>2, <2>4 DEF Job, JobCheckpoint
  <2>6. w \in Worker /\ w.pc = "batch" /\ w.claim = worker.claim /\ w.view = worker.view /\ w.batch = worker.batch + 1
    BY <2>2 DEF Worker, Pcs
  <2>7. c \in JobCheckpoint /\ c.phase = "snapshotting" /\ c.pending = None
    BY <2>2, <2>3, <2>4 DEF JobCheckpoint
  <2> HIDE DEF w, c
  <2>8. job'.checkpoint = c /\ c # None /\ job'.tries = job.tries
    BY <2>2, <2>5, <2>7, JobEdits, ReportAssumption
  <2>9. CheckpointInv'
    BY <2>7, <2>8 DEF CheckpointInv, Pending
  <2>10. Staging'
    BY <1>1, <2>1, <2>2, <2>3, <2>4, <2>6, <2>7, <2>8 DEF Staging, Shows, Unstaged
  <2>11. Generating' /\ Ending'
    BY <1>1, <2>1, <2>3, <2>6 DEF Generating, Ending
  <2>12. disk' \in [candidate : Bytes, final : Bytes] /\ disk' = disk
    BY <1>1 DEF ReportInv, ReportType
  <2> QED  BY <1>1, <2>1, <2>2, <2>5, <2>6, <2>7, <2>8, <2>9, <2>10, <2>11, <2>12, WorkerMoves
<1> QED  BY <1>2, <1>3

(* Steps before which the worker assumes nothing of the files and the rows. *)
Quiet == {"sealed", "artifact", "writing", "write", "save", "checked", "verify", "publishing", "interrupted"}

LEMMA QuietSteps ==
    ASSUME worker'.pc \in Quiet, attempt'.state # "completed"
    PROVE  Staging' /\ Generating' /\ Ending' /\ worker'.pc \in Pcs
BY DEF Quiet, Staging, Generating, Ending, Pcs

LEMMA PendSealKeeps == ReportInv /\ PendSeal => ReportInv'
<1> SUFFICES ASSUME ReportInv, PendSeal PROVE ReportInv'
  OBVIOUS
<1> DEFINE p == _pending("seal", staged)
           c == [job.checkpoint EXCEPT !.rev = worker.rev, !.batch = worker.batch, !.pending = p]
<1>1. worker # None /\ worker.pc = "batch" /\ worker.batch > Len(Batches) /\ Checkpoint(c, "seal")
  BY DEF PendSeal, At
<1>2. /\ p \in PendingCommand /\ p.kind = "seal" /\ p # None
      /\ p.id[1] = p.kind /\ p.id[2] = job.tries
  BY <1>1, NewPending, WorkerRows DEF Kinds
<1>3. job.checkpoint \in JobCheckpoint /\ worker.rev \in Nat /\ worker.batch \in Nat /\ job.tries \in Nat
      /\ "seal" \in Pcs
  BY <1>1, WorkerRows DEF ReportInv, WorkerInv, WithoutCheckpoint, Pcs
<1> HIDE DEF p
<1>4. c \in JobCheckpoint /\ c.phase = job.checkpoint.phase /\ c.pending = p
  BY <1>2, <1>3 DEF JobCheckpoint
<1>5. job.checkpoint.phase = "snapshotting" /\ worker.batch \in 1..(Len(Batches) + 1) /\ Shows(worker.batch - 1)
      /\ attempt.state # "completed"
  BY <1>1 DEF ReportInv, WorkerInv, Staging, Ending
<1>6. Shows(Len(Batches)) /\ c # None
  <2>1. Len(Batches) \in Nat
    BY ReportAssumption
  <2>2. worker.batch - 1 = Len(Batches)
    BY <1>1, <1>3, <1>5, <2>1
  <2> QED  BY <1>4, <1>5, <2>2, ReportAssumption
<1> HIDE DEF c
<1>7. ASSUME Moved(c, "seal") PROVE CheckpointInv' /\ Staging' /\ Generating' /\ Ending'
  <2>1. CheckpointInv'
    BY <1>1, <1>2, <1>3, <1>4, <1>5, <1>7, MovedFacts
  <2>2. Staging'
    BY <1>2, <1>4, <1>5, <1>6, <1>7 DEF Moved, Staging, Shows, Pends, Pending
  <2>3. Generating' /\ Ending'
    BY <1>5, <1>7 DEF Moved, Generating, Ending
  <2> QED  BY <2>1, <2>2, <2>3
<1> QED  BY <1>1, <1>3, <1>4, <1>7, CheckpointStep

LEMMA SealKeeps == ReportInv /\ seal => ReportInv'
<1> SUFFICES ASSUME ReportInv, seal PROVE ReportInv'
  OBVIOUS
<1> DEFINE w == [worker EXCEPT !.pc = "sealed", !.rev = Pending.rev + 1]
           a == [attempt EXCEPT !.state = "ready_to_generate", !.hash = Pending.hash,
                                !.count = Len(staged), !.rev = @ + 1]
           allowed == /\ attempt.state = "staging" /\ attempt.rev = Pending.rev
                      /\ _require_generation /\ staged = Pending.hash
<1>1. worker # None /\ worker.pc = "seal" /\ UNCHANGED <<job, disk, live>> /\ Command(allowed, a, staged, "sealed")
  BY DEF seal, At, Command
<1>2. /\ job.checkpoint # None /\ Pending # None /\ Pending.kind = "seal" /\ Shows(Len(Batches))
      /\ worker.view \in 0..MaxLive /\ attempt.state # "completed"
  BY <1>1 DEF ReportInv, WorkerInv, Staging, Ending, Pends
<1>3. attempt \in Attempt /\ staged \in Seq(SnapshotRow) /\ disk \in [candidate : Bytes, final : Bytes] /\ "sealed" \in Pcs
  BY <1>1, WorkerRows DEF ReportInv, ReportType, Pcs
<1>4. w \in Worker /\ w.pc = "sealed" /\ w.claim = worker.claim /\ w.view = worker.view
  BY <1>1, <1>2, <1>3, Answered
<1> HIDE DEF w
<1>5. CASE Pending.id \in receipts
  <2>1. worker' = w /\ UNCHANGED <<attempt, staged, receipts>>
    BY <1>1, <1>5 DEF Command, w
  <2>2. Staging' /\ Generating' /\ Ending'
    BY <1>2, <1>4, <2>1, QuietSteps DEF Quiet
  <2> QED  BY <1>1, <1>2, <1>3, <1>4, <2>1, <2>2, WorkerGoes
<1>6. CASE Pending.id \notin receipts /\ ~allowed
  BY <1>1, <1>6, WorkerEnds DEF Command, Raise
<1>7. CASE Pending.id \notin receipts /\ allowed
  <2>1. worker' = w /\ attempt' = a /\ staged' = staged /\ receipts' = receipts \cup {Pending.id}
    BY <1>1, <1>7 DEF Command, w
  <2>2. a \in Attempt /\ a.state = "ready_to_generate"
    <3>1. attempt.rev + 1 \in Nat /\ Len(staged) \in Nat /\ Pending.hash \in Bytes
      BY <1>3, <1>7 DEF Attempt, Bytes
    <3> QED  BY <1>3, <3>1 DEF Attempt, Open
  <2> HIDE DEF a
  <2>3. AttemptInv'
    BY <1>2, <1>7, <2>1, <2>2 DEF AttemptInv, Shows
  <2>4. Staging' /\ Generating' /\ Ending'
    BY <1>4, <2>1, <2>2, QuietSteps DEF Quiet
  <2>5. attempt.state \in Open
    BY <1>7 DEF Open
  <2> QED  BY <1>1, <1>2, <1>3, <1>4, <2>1, <2>2, <2>3, <2>4, <2>5, WorkerCommits
<1> QED  BY <1>5, <1>6, <1>7

LEMMA SealedKeeps == ReportInv /\ Sealed => ReportInv'
<1> SUFFICES ASSUME ReportInv, Sealed PROVE ReportInv'
  OBVIOUS
<1> DEFINE c == EmptyCheckpoint("sealed")
<1>1. worker # None /\ worker.pc = "sealed" /\ Checkpoint(c, "artifact")
  BY DEF Sealed, At
<1>2. c \in JobCheckpoint /\ c.phase = "sealed" /\ c.pending = None
  BY <1>1, EmptyFacts DEF Phases
<1>3. "artifact" \in Pcs /\ attempt.state # "completed"
  BY <1>1 DEF Pcs, ReportInv, WorkerInv, Ending
<1> HIDE DEF c
<1>4. ASSUME Moved(c, "artifact") PROVE CheckpointInv' /\ Staging' /\ Generating' /\ Ending'
  <2>1. CheckpointInv'
    BY <1>1, <1>2, <1>3, <1>4, MovedFacts
  <2> QED  BY <1>3, <1>4, <2>1, QuietSteps DEF Moved, Quiet
<1> QED  BY <1>1, <1>2, <1>3, <1>4, CheckpointStep

-----------------------------------------------------------------------------
(* The workbook. *)

LEMMA ArtifactKeeps == ReportInv /\ artifact_and_complete => ReportInv'
<1> SUFFICES ASSUME ReportInv, artifact_and_complete PROVE ReportInv'
  OBVIOUS
<1> DEFINE q == _pending("mark_generating", attempt.hash)
           p == [q EXCEPT !.rev = attempt.rev]
           c == [job.checkpoint EXCEPT !.pending = p]
           go == /\ Claimed /\ job.checkpoint.phase = "sealed" /\ Pending = None
                 /\ attempt.state = "ready_to_generate" /\ attempt.rev = job.checkpoint.rev
<1>1. worker # None /\ worker.pc = "artifact" /\ UNCHANGED <<attempt, staged, receipts, disk, live>>
  BY DEF artifact_and_complete, At
<1>2. CASE ~go
  BY <1>1, <1>2, WorkerEnds DEF artifact_and_complete, Raise
<1>3. CASE go
  <2>0. job' = [job EXCEPT !.checkpoint.pending = p] /\ worker' = [worker EXCEPT !.pc = "generating"]
    BY <1>3 DEF artifact_and_complete, Goto
  <2>1. /\ job \in Job /\ attempt.rev \in Nat /\ attempt.hash \in Bytes /\ job.tries \in Nat
        /\ job.checkpoint # None /\ job.checkpoint \in JobCheckpoint /\ "generating" \in Pcs
    BY <1>1, WorkerRows DEF ReportInv, WorkerInv, WithoutCheckpoint, Pcs
  <2>2. q \in PendingCommand /\ q.kind = "mark_generating" /\ q.id[1] = q.kind /\ q.id[2] = job.tries
    BY <1>1, <2>1, NewPending DEF Kinds
  <2> HIDE DEF q
  <2>3. p \in PendingCommand /\ p.kind = "mark_generating" /\ p.id[1] = p.kind /\ p.id[2] = job.tries
    BY <2>1, <2>2 DEF PendingCommand
  <2>4. p # None
    BY <2>3, ReportAssumption
  <2> HIDE DEF p
  <2>5. c \in JobCheckpoint /\ c.phase = "sealed" /\ c.pending = p
    BY <1>3, <2>1, <2>3 DEF JobCheckpoint
  <2>6. job' = [job EXCEPT !.checkpoint = c] /\ c # None
    BY <2>0, <2>1, <2>5, ReportAssumption DEF Job
  <2> HIDE DEF c
  <2>7. Checkpoint(c, "generating")
    BY <1>1, <1>3, <2>0, <2>6 DEF Checkpoint, Goto, artifact_and_complete
  <2>8. ASSUME Moved(c, "generating") PROVE CheckpointInv' /\ Staging' /\ Generating' /\ Ending'
    <3>1. CheckpointInv'
      BY <1>1, <2>1, <2>3, <2>5, <2>8, MovedFacts
    <3>2. Staging' /\ Ending'
      BY <1>3, <2>8 DEF Moved, Staging, Ending
    <3>3. Generating'
      BY <2>3, <2>4, <2>5, <2>6, <2>8 DEF Moved, Generating, Pends, Pending
    <3> QED  BY <3>1, <3>2, <3>3
  <2> QED  BY <1>1, <2>1, <2>5, <2>7, <2>8, CheckpointStep
<1> QED  BY <1>2, <1>3

(* Both marks move an open attempt on and keep its rows. *)
LEMMA TransitionKeeps ==
    ASSUME ReportInv, worker # None, NEW from \in Open \ {"staging"}, NEW to \in Open \ {"staging"},
           NEW candidate \in BOOLEAN, NEW pc \in Quiet, pc \notin WithoutCheckpoint, attempt.state # "completed",
           job.checkpoint # None, Pending # None, Pending.kind \notin {"complete", "fail"},
           Transition(from, to, candidate, pc)
    PROVE  ReportInv'
<1> DEFINE w == [worker EXCEPT !.pc = pc, !.rev = Pending.rev + 1]
           a == [attempt EXCEPT !.state = to, !.candidate = candidate, !.rev = @ + 1]
           allowed == /\ attempt.state = from /\ attempt.rev = Pending.rev /\ attempt.hash = Pending.hash
                      /\ _require_worker_job_running
<1>1. UNCHANGED <<job, disk, live>> /\ Command(allowed, a, staged, pc)
  BY DEF Transition, Command
<1>2. attempt \in Attempt /\ staged \in Seq(SnapshotRow) /\ disk \in [candidate : Bytes, final : Bytes] /\ pc \in Pcs
      /\ worker.view \in 0..MaxLive /\ attempt # None
  BY WorkerRows, ReportAssumption DEF ReportInv, ReportType, Pcs, Quiet
<1>3. w \in Worker /\ w.pc = pc /\ w.claim = worker.claim /\ w.view = worker.view
  BY <1>2, Answered
<1> HIDE DEF w
<1>4. CASE Pending.id \in receipts
  <2>1. worker' = w /\ UNCHANGED <<attempt, staged, receipts>>
    BY <1>1, <1>4 DEF Command, w
  <2>2. Staging' /\ Generating' /\ Ending'
    BY <1>3, <2>1, QuietSteps
  <2> QED  BY <1>1, <1>2, <1>3, <2>1, <2>2, WorkerGoes
<1>5. CASE Pending.id \notin receipts /\ ~allowed
  BY <1>1, <1>5, WorkerEnds DEF Command, Raise
<1>6. CASE Pending.id \notin receipts /\ allowed
  <2>1. worker' = w /\ attempt' = a /\ staged' = staged /\ receipts' = receipts \cup {Pending.id}
    BY <1>1, <1>6 DEF Command, w
  <2>2. a \in Attempt /\ a.state = to
    <3>1. attempt.rev + 1 \in Nat
      BY <1>2 DEF Attempt
    <3> QED  BY <1>2, <3>1 DEF Attempt, Open
  <2> HIDE DEF a
  <2>3. AttemptInv'
    BY <1>2, <1>6, <2>1, <2>2 DEF ReportInv, AttemptInv, Open
  <2>4. Staging' /\ Generating' /\ Ending'
    BY <1>3, <2>1, <2>2, QuietSteps DEF Open
  <2>5. attempt.state \in Open /\ a.state # "cancelled"
    BY <1>6, <2>2 DEF Open
  <2> QED  BY <1>1, <1>2, <1>3, <2>1, <2>2, <2>3, <2>4, <2>5, WorkerCommits
<1> QED  BY <1>4, <1>5, <1>6

LEMMA MarksKeep == ReportInv /\ (mark_generating \/ mark_verifying) => ReportInv'
<1>1. ASSUME ReportInv, mark_generating PROVE ReportInv'
  <2>1. worker # None /\ worker.pc = "generating" /\ Transition("ready_to_generate", "generating", FALSE, "writing")
    BY <1>1 DEF mark_generating, At
  <2>2. job.checkpoint # None /\ Pending # None /\ Pending.kind = "mark_generating" /\ attempt.state # "completed"
    BY <1>1, <2>1 DEF ReportInv, WorkerInv, Generating, Ending, Pends
  <2>3. "writing" \in Quiet /\ "writing" \notin WithoutCheckpoint
    BY DEF Quiet, WithoutCheckpoint
  <2>4. {"ready_to_generate", "generating"} \subseteq Open \ {"staging"}
    BY DEF Open
  <2> QED  BY <1>1, <2>1, <2>2, <2>3, <2>4, TransitionKeeps
<1>2. ASSUME ReportInv, mark_verifying PROVE ReportInv'
  <2>1. worker # None /\ worker.pc = "verifying" /\ Transition("generating", "verifying", TRUE, "checked")
    BY <1>2 DEF mark_verifying, At
  <2>2. job.checkpoint # None /\ Pending # None /\ Pending.kind = "mark_verifying" /\ attempt.state # "completed"
    BY <1>2, <2>1 DEF ReportInv, WorkerInv, Generating, Ending, Pends
  <2>3. "checked" \in Quiet /\ "checked" \notin WithoutCheckpoint
    BY DEF Quiet, WithoutCheckpoint
  <2>4. {"generating", "verifying"} \subseteq Open \ {"staging"}
    BY DEF Open
  <2> QED  BY <1>2, <2>1, <2>2, <2>3, <2>4, TransitionKeeps
<1> QED  BY <1>1, <1>2

(* The checkpoints of the phases. *)
LEMMA PhaseKeeps == ReportInv /\ (Writing \/ Verifying \/ Publishing) => ReportInv'
<1>1. ASSUME ReportInv, worker # None, worker.pc \in {"writing", "checked", "publishing"},
             NEW c \in JobCheckpoint, NEW pc \in {"write", "verify", "publish"}, Checkpoint(c, pc),
             c.phase \in {"writing", "verifying", "publishing"},
             c.pending = None \/ (c.phase = "publishing" /\ c.pending = Pending),
             pc = "publish" => c.phase = "publishing"
      PROVE  ReportInv'
  <2>1. attempt.state # "completed" /\ job.checkpoint # None /\ job # None
    BY <1>1 DEF ReportInv, WorkerInv, Ending, WithoutCheckpoint
  <2>2. pc \in Pcs
    BY DEF Pcs
  <2>3. ASSUME Moved(c, pc) PROVE CheckpointInv' /\ Staging' /\ Generating' /\ Ending'
    <3>1. c.pending # None => c.pending.id[1] = c.pending.kind /\ c.pending.id[2] <= job.tries
      BY <1>1, <2>1 DEF ReportInv, CheckpointInv
    <3>2. CheckpointInv'
      BY <1>1, <2>2, <2>3, <3>1, MovedFacts
    <3>3. Staging' /\ Generating' /\ Ending'
      BY <1>1, <2>1, <2>3 DEF Moved, Staging, Generating, Ending
    <3> QED  BY <3>2, <3>3
  <2> QED  BY <1>1, <2>2, <2>3, CheckpointStep
<1>2. ASSUME ReportInv, Writing \/ Verifying \/ Publishing PROVE ReportInv'
  <2>1. worker # None /\ worker.pc \in {"writing", "checked", "publishing"}
    BY <1>2 DEF Writing, Verifying, Publishing, At
  <2>2. job.checkpoint \in JobCheckpoint /\ worker.rev \in Nat
    BY <1>2, <2>1, WorkerRows DEF ReportInv, WorkerInv, WithoutCheckpoint
  <2>3. CASE Writing
    <3> DEFINE c == [job.checkpoint EXCEPT !.phase = "writing", !.rev = worker.rev, !.pending = None]
    <3>1. c \in JobCheckpoint /\ c.phase = "writing" /\ c.pending = None
      BY <2>2 DEF JobCheckpoint, Phases
    <3>2. Checkpoint(c, "write")
      BY <2>3 DEF Writing
    <3> HIDE DEF c
    <3> QED  BY <1>1, <1>2, <2>1, <3>1, <3>2
  <2>4. CASE Verifying
    <3> DEFINE c == [job.checkpoint EXCEPT !.phase = "verifying", !.rev = worker.rev, !.pending = None]
    <3>1. c \in JobCheckpoint /\ c.phase = "verifying" /\ c.pending = None
      BY <2>2 DEF JobCheckpoint, Phases
    <3>2. Checkpoint(c, "verify")
      BY <2>4 DEF Verifying
    <3> HIDE DEF c
    <3> QED  BY <1>1, <1>2, <2>1, <3>1, <3>2
  <2>5. CASE Publishing
    <3> DEFINE c == [job.checkpoint EXCEPT !.phase = "publishing"]
    <3>1. c \in JobCheckpoint /\ c.phase = "publishing" /\ c.pending = Pending
      BY <2>2 DEF JobCheckpoint, Phases, Pending
    <3>2. Checkpoint(c, "publish")
      BY <2>5 DEF Publishing
    <3> HIDE DEF c
    <3> QED  BY <1>1, <1>2, <2>1, <3>1, <3>2
  <2> QED  BY <1>2, <2>3, <2>4, <2>5
<1> QED  BY <1>2

LEMMA PendVerifyingKeeps == ReportInv /\ PendVerifying => ReportInv'
<1> SUFFICES ASSUME ReportInv, PendVerifying PROVE ReportInv'
  OBVIOUS
<1> DEFINE p == _pending("mark_verifying", worker.proof)
           c == [job.checkpoint EXCEPT !.candidate = TRUE, !.pending = p]
<1>1. worker # None /\ worker.pc = "saved" /\ Checkpoint(c, "verifying")
  BY DEF PendVerifying, At
<1>2. p \in PendingCommand /\ p.kind = "mark_verifying" /\ p # None /\ p.id[1] = p.kind /\ p.id[2] = job.tries
  BY <1>1, NewPending, WorkerRows DEF Kinds
<1>3. job.checkpoint \in JobCheckpoint /\ job.tries \in Nat /\ "verifying" \in Pcs
  BY <1>1, WorkerRows DEF ReportInv, WorkerInv, WithoutCheckpoint, Pcs
<1>4. job.checkpoint.phase = "writing" /\ attempt.state # "completed"
  BY <1>1 DEF ReportInv, WorkerInv, Generating, Ending
<1> HIDE DEF p
<1>5. c \in JobCheckpoint /\ c.phase = "writing" /\ c.pending = p
  BY <1>2, <1>3, <1>4 DEF JobCheckpoint
<1>6. c # None
  BY <1>5, ReportAssumption
<1> HIDE DEF c
<1>7. ASSUME Moved(c, "verifying") PROVE CheckpointInv' /\ Staging' /\ Generating' /\ Ending'
  <2>1. CheckpointInv'
    BY <1>1, <1>2, <1>3, <1>5, <1>7, MovedFacts
  <2>2. Staging' /\ Ending'
    BY <1>4, <1>7 DEF Moved, Staging, Ending
  <2>3. Generating'
    BY <1>2, <1>5, <1>6, <1>7 DEF Moved, Generating, Pends, Pending
  <2> QED  BY <2>1, <2>2, <2>3
<1> QED  BY <1>1, <1>3, <1>5, <1>7, CheckpointStep

(* Writing, verifying and looking at the attempt change the candidate only. *)
LEMMA CandidateKeeps ==
    ReportInv /\ (write_candidate \/ SaveCandidate \/ verify_candidate \/ publish_verified) => ReportInv'
<1> SUFFICES ASSUME ReportInv, write_candidate \/ SaveCandidate \/ verify_candidate \/ publish_verified
             PROVE  ReportInv'
  OBVIOUS
<1>1. /\ worker # None /\ worker.pc \in {"write", "save", "verify", "publish"}
      /\ UNCHANGED <<attempt, staged, job, receipts, live>>
  BY DEF write_candidate, SaveCandidate, verify_candidate, publish_verified, At
<1>2. attempt.state # "completed" /\ job.checkpoint # None /\ job # None
  BY <1>1 DEF ReportInv, WorkerInv, Ending, WithoutCheckpoint
<1>3. worker \in Worker /\ worker.proof \in Bytes /\ attempt.hash \in Bytes /\ None \in Bytes
      /\ worker.view \in 0..MaxLive /\ disk \in [candidate : Bytes, final : Bytes] /\ disk.candidate \in Bytes
  BY <1>1, WorkerRows DEF ReportInv, ReportType
<1>4. ASSUME NEW w \in Worker, worker' = w, w.claim = worker.claim, w.view = worker.view,
             w.pc \in Quiet \/ (w.pc = "move" /\ worker.pc = "publish") \/ (w.pc = "saved" /\ job.checkpoint.phase = "writing")
               \/ (w.pc = "verifying" /\ Pends("mark_verifying")),
             disk' \in [candidate : Bytes, final : Bytes], disk'.final = disk.final
      PROVE  ReportInv'
  <2>1. worker.pc = "publish" => job.checkpoint.phase = "publishing"
    BY <1>1 DEF ReportInv, WorkerInv, Generating
  <2>2. Staging' /\ Generating' /\ Ending'
    BY <1>1, <1>2, <1>4, <2>1 DEF Quiet, Staging, Generating, Ending, Pends, Pending
  <2> QED  BY <1>1, <1>2, <1>3, <1>4, <2>2, WorkerGoes
<1>5. ASSUME worker' = None, UNCHANGED disk PROVE ReportInv'
  BY <1>1, <1>5, WorkerEnds
<1>6. CASE write_candidate
  <2>1. ASSUME worker' = [worker EXCEPT !.pc = "save", !.proof = attempt.hash],
               disk' = [disk EXCEPT !.candidate = None]
        PROVE  ReportInv'
    <3> DEFINE w == [worker EXCEPT !.pc = "save", !.proof = attempt.hash]
    <3>1. w \in Worker /\ w.pc = "save" /\ w.claim = worker.claim /\ w.view = worker.view
      BY <1>3 DEF Worker, Pcs
    <3>2. disk' \in [candidate : Bytes, final : Bytes] /\ disk'.final = disk.final
      BY <1>3, <2>1
    <3> HIDE DEF w
    <3> QED  BY <1>4, <2>1, <3>1, <3>2 DEF Quiet, w
  <2> QED  BY <1>5, <1>6, <2>1 DEF write_candidate, Raise
<1>7. CASE SaveCandidate
  <2> DEFINE pc == IF job.checkpoint.phase # "writing" THEN "verify" ELSE IF Pending = None THEN "saved" ELSE "verifying"
             w == [worker EXCEPT !.pc = pc]
  <2>1. worker' = w /\ disk' = [disk EXCEPT !.candidate = worker.proof]
    BY <1>7 DEF SaveCandidate, Goto
  <2>2. pc \in Pcs
    BY DEF Pcs
  <2>3. pc \in Quiet \/ (pc = "saved" /\ job.checkpoint.phase = "writing") \/ (pc = "verifying" /\ Pends("mark_verifying"))
    BY <1>2 DEF ReportInv, CheckpointInv, Pends, Quiet
  <2> HIDE DEF pc
  <2>4. w \in Worker /\ w.pc = pc /\ w.claim = worker.claim /\ w.view = worker.view
    BY <1>3, <2>2, WorkerEdits
  <2>5. disk' \in [candidate : Bytes, final : Bytes] /\ disk'.final = disk.final
    BY <1>3, <2>1
  <2> HIDE DEF w
  <2> QED  BY <1>4, <2>1, <2>3, <2>4, <2>5
<1>8. CASE verify_candidate
  <2>1. ASSUME worker' = [worker EXCEPT !.pc = "publishing", !.proof = disk.candidate], UNCHANGED disk
        PROVE  ReportInv'
    <3> DEFINE w == [worker EXCEPT !.pc = "publishing", !.proof = disk.candidate]
    <3>1. w \in Worker /\ w.pc = "publishing" /\ w.claim = worker.claim /\ w.view = worker.view
      BY <1>3 DEF Worker, Pcs
    <3> HIDE DEF w
    <3> QED  BY <1>3, <1>4, <2>1, <3>1 DEF Quiet, w
  <2>2. ASSUME worker' = [worker EXCEPT !.pc = "write", !.mode = "rebuilt"], UNCHANGED disk
        PROVE  ReportInv'
    <3> DEFINE w == [worker EXCEPT !.pc = "write", !.mode = "rebuilt"]
    <3>1. w \in Worker /\ w.pc = "write" /\ w.claim = worker.claim /\ w.view = worker.view
      BY <1>3 DEF Worker, Pcs
    <3> HIDE DEF w
    <3> QED  BY <1>3, <1>4, <2>2, <3>1 DEF Quiet, w
  <2> QED  BY <1>5, <1>8, <2>1, <2>2 DEF verify_candidate, Raise
<1>9. CASE publish_verified
  <2>1. ASSUME worker' = [worker EXCEPT !.pc = "move"], UNCHANGED disk PROVE ReportInv'
    <3> DEFINE w == [worker EXCEPT !.pc = "move"]
    <3>1. w \in Worker /\ w.pc = "move" /\ w.claim = worker.claim /\ w.view = worker.view
      BY <1>3 DEF Worker, Pcs
    <3>2. worker.pc = "publish"
      BY <1>9 DEF publish_verified, At
    <3> HIDE DEF w
    <3> QED  BY <1>3, <1>4, <2>1, <3>1, <3>2 DEF w
  <2> QED  BY <1>5, <1>9, <2>1 DEF publish_verified, Raise, Goto
<1> QED  BY <1>6, <1>7, <1>8, <1>9

(* The file is moved once: a final workbook is never replaced. *)
LEMMA MoveKeeps == ReportInv /\ MoveToFinal => ReportInv'
<1> SUFFICES ASSUME ReportInv, MoveToFinal PROVE ReportInv'
  OBVIOUS
<1> DEFINE w == [worker EXCEPT !.pc = "published"]
           go == disk.final = worker.proof \/ (disk.final = None /\ disk.candidate = worker.proof)
<1>1. worker # None /\ worker.pc = "move" /\ UNCHANGED <<attempt, staged, job, receipts, live>>
  BY DEF MoveToFinal, At
<1>2. CASE ~go
  BY <1>1, <1>2, WorkerEnds DEF MoveToFinal, Raise
<1>3. CASE go
  <2>1. worker' = w /\ disk'.final = worker.proof
        /\ (disk' = disk \/ disk' = [candidate |-> None, final |-> worker.proof])
    BY <1>3 DEF MoveToFinal, Goto
  <2>2. worker \in Worker /\ worker.proof \in Bytes /\ None \in Bytes /\ worker.view \in 0..MaxLive /\ job \in Job
    BY <1>1, WorkerRows
  <2>3. w \in Worker /\ w.pc = "published" /\ w.claim = worker.claim /\ w.view = worker.view /\ w.proof = worker.proof
    BY <2>2 DEF Worker, Pcs
  <2> HIDE DEF w
  <2>4. attempt.state # "completed" /\ job.checkpoint # None /\ job.checkpoint.phase = "publishing" /\ job # None
    BY <1>1 DEF ReportInv, WorkerInv, Generating, Ending, WithoutCheckpoint
  <2>5. disk' \in [candidate : Bytes, final : Bytes] /\ disk'.final = worker.proof
    BY <2>1, <2>2 DEF ReportInv, ReportType
  <2>6. Staging' /\ Ending'
    BY <1>1, <2>1, <2>3, <2>4 DEF Staging, Ending
  <2>7. Generating'
    BY <1>1, <2>1, <2>3, <2>4, <2>5 DEF Generating
  <2>8. CheckpointInv'
    BY <1>1, <2>4 DEF ReportInv, CheckpointInv, Pending
  <2>9. job' = [job EXCEPT !.checkpoint = job.checkpoint] /\ job.checkpoint \in JobCheckpoint \cup {None}
    BY <1>1, <2>2 DEF Job
  <2> QED  BY <1>1, <2>1, <2>2, <2>3, <2>4, <2>5, <2>6, <2>7, <2>8, <2>9, WorkerMoves
<1> QED  BY <1>2, <1>3

LEMMA CompletingKeeps == ReportInv /\ Completing => ReportInv'
<1> SUFFICES ASSUME ReportInv, Completing PROVE ReportInv'
  OBVIOUS
<1> DEFINE p == _pending("complete", worker.proof)
           c == [job.checkpoint EXCEPT !.phase = "completing", !.published = worker.proof, !.pending = p]
<1>1. worker # None /\ worker.pc = "published" /\ Checkpoint(c, "complete")
  BY DEF Completing, At
<1>2. /\ p \in PendingCommand /\ p.kind = "complete" /\ p.hash = worker.proof /\ p # None
      /\ p.id[1] = p.kind /\ p.id[2] = job.tries
  BY <1>1, NewPending, WorkerRows DEF Kinds
<1>3. job.checkpoint \in JobCheckpoint /\ job.tries \in Nat /\ worker.proof \in Bytes /\ "complete" \in Pcs
  BY <1>1, WorkerRows DEF ReportInv, WorkerInv, WithoutCheckpoint, Pcs
<1>4. disk.final = worker.proof /\ attempt.state # "completed"
  BY <1>1 DEF ReportInv, WorkerInv, Generating, Ending
<1> HIDE DEF p
<1>5. c \in JobCheckpoint /\ c.phase = "completing" /\ c.pending = p /\ c.published = worker.proof
  BY <1>2, <1>3 DEF JobCheckpoint, Phases
<1> HIDE DEF c
<1>6. ASSUME Moved(c, "complete") PROVE CheckpointInv' /\ Staging' /\ Generating' /\ Ending'
  <2>1. CheckpointInv'
    BY <1>1, <1>2, <1>3, <1>4, <1>5, <1>6, MovedFacts
  <2>2. Staging' /\ Generating' /\ Ending'
    BY <1>4, <1>5, <1>6 DEF Moved, Staging, Generating, Ending
  <2> QED  BY <2>1, <2>2
<1> QED  BY <1>1, <1>3, <1>5, <1>6, CheckpointStep

(* The command compares the seal with the rows; the checkpoint names the file. *)
LEMMA CompleteKeeps == ReportInv /\ complete => ReportInv'
<1> SUFFICES ASSUME ReportInv, complete PROVE ReportInv'
  OBVIOUS
<1> DEFINE w == [worker EXCEPT !.pc = "terminal", !.rev = Pending.rev + 1]
           a == [attempt EXCEPT !.state = "completed", !.artifact = job.checkpoint.published, !.rev = @ + 1]
           allowed == /\ attempt.state = "verifying" /\ attempt.rev = Pending.rev
                      /\ attempt.candidate /\ attempt.artifact = None
                      /\ _require_worker_job_running
                      /\ _require_sealed_snapshot({"verifying"}) /\ attempt.hash = Pending.hash
<1>1. worker # None /\ worker.pc = "complete" /\ UNCHANGED <<job, disk, live>> /\ Command(allowed, a, staged, "terminal")
  BY DEF complete, At, Command
<1>2. job.checkpoint # None /\ job.checkpoint.phase = "completing" /\ attempt.state # "completed" /\ job # None
  BY <1>1 DEF ReportInv, WorkerInv, Generating, Ending, WithoutCheckpoint
<1>3. /\ Pending # None /\ Pending.kind = "complete" /\ Pending.id[1] = "complete"
      /\ disk.final = job.checkpoint.published /\ Pending.hash = job.checkpoint.published
  BY <1>2 DEF ReportInv, CheckpointInv
<1>4. /\ attempt \in Attempt /\ staged \in Seq(SnapshotRow) /\ worker.view \in 0..MaxLive /\ "terminal" \in Pcs
      /\ attempt.hash \in Bytes /\ attempt # None
  BY <1>1, WorkerRows, ReportAssumption DEF Pcs
<1>5. w \in Worker /\ w.pc = "terminal" /\ w.claim = worker.claim /\ w.view = worker.view
  BY <1>1, <1>2, <1>3, <1>4, Answered
<1> HIDE DEF w
<1>6. Pending.id \notin receipts
  BY <1>2, <1>3 DEF ReportInv, ReceiptInv
<1>7. CASE ~allowed
  BY <1>1, <1>6, <1>7, WorkerEnds DEF Command, Raise
<1>8. CASE allowed
  <2>1. worker' = w /\ attempt' = a /\ staged' = staged /\ receipts' = receipts \cup {Pending.id}
    BY <1>1, <1>6, <1>8 DEF Command, w
  <2>2. attempt.hash = job.checkpoint.published /\ attempt.hash = staged /\ disk.final = attempt.hash
    BY <1>3, <1>8 DEF _require_sealed_snapshot
  <2>3. a \in Attempt /\ a.state = "completed" /\ a.hash = attempt.hash /\ a.artifact = attempt.hash
    <3>1. attempt.rev + 1 \in Nat /\ job.checkpoint.published \in Bytes
      BY <1>4, <2>2 DEF Attempt
    <3> QED  BY <1>4, <2>2, <3>1 DEF Attempt, Settled
  <2> HIDE DEF a
  <2>4. AttemptInv'
    <3>1. \E v \in 0..MaxLive : staged = Snapshot(v, Len(Batches))
      BY <1>4, <1>8 DEF ReportInv, AttemptInv, Open
    <3> QED  BY <1>1, <2>1, <2>2, <2>3, <3>1 DEF AttemptInv
  <2>5. Staging' /\ Generating' /\ Ending'
    BY <1>5, <2>1, <2>3 DEF Staging, Generating, Ending
  <2>6. attempt.state \in Open
    BY <1>8 DEF Open
  <2> QED  BY <1>1, <1>2, <1>3, <1>4, <1>5, <2>1, <2>3, <2>4, <2>5, <2>6, WorkerCommits
<1> QED  BY <1>7, <1>8

-----------------------------------------------------------------------------
(* The end of the job. *)

LEMMA TerminalKeeps == ReportInv /\ (Completed \/ Failed) => ReportInv'
<1> SUFFICES ASSUME ReportInv, NEW from \in {"terminal", "failed"}, NEW to \in {"complete_job", "fail_job"},
                    from = "terminal" <=> to = "complete_job", _checkpoint_terminal(from, to)
             PROVE  ReportInv'
  BY DEF Completed, Failed
<1> DEFINE c == [EmptyCheckpoint("terminal") EXCEPT !.rev = attempt.rev]
<1>1. worker # None /\ worker.pc = from /\ Checkpoint(c, to)
  BY DEF _checkpoint_terminal, At
<1>2. EmptyCheckpoint("terminal") \in JobCheckpoint /\ EmptyCheckpoint("terminal").phase = "terminal"
      /\ EmptyCheckpoint("terminal").pending = None
  BY <1>1, EmptyFacts DEF Phases
<1>3. attempt.rev \in Nat /\ to \in Pcs
  BY <1>1, WorkerRows DEF Pcs
<1>4. c \in JobCheckpoint /\ c.phase = "terminal" /\ c.pending = None
  BY <1>2, <1>3 DEF JobCheckpoint
<1> HIDE DEF c
<1>5. /\ from = "terminal" => attempt.state = "completed"
      /\ from = "failed" => attempt.state = "failed"
  BY <1>1 DEF ReportInv, WorkerInv, Ending
<1>6. ASSUME Moved(c, to) PROVE CheckpointInv' /\ Staging' /\ Generating' /\ Ending'
  <2>1. CheckpointInv'
    BY <1>1, <1>3, <1>4, <1>6, MovedFacts
  <2>2. Staging' /\ Generating' /\ Ending'
    BY <1>5, <1>6 DEF Moved, Staging, Generating, Ending
  <2> QED  BY <2>1, <2>2
<1> QED  BY <1>1, <1>3, <1>4, <1>6, CheckpointStep

LEMMA EndJobKeeps == ReportInv /\ (CompleteJob \/ FailJob) => ReportInv'
<1> SUFFICES ASSUME ReportInv, NEW from \in {"complete_job", "fail_job"}, NEW state \in {"completed", "failed"},
                    from = "complete_job" <=> state = "completed", EndJob(from, state)
             PROVE  ReportInv'
  BY DEF CompleteJob, FailJob
<1>1. worker # None /\ worker.pc = from /\ worker' = None /\ UNCHANGED <<attempt, staged, receipts, disk, live>>
      /\ job' = IF Claimed THEN [job EXCEPT !.state = state] ELSE job
  BY DEF EndJob, At
<1>2. CASE ~Claimed
  BY <1>1, <1>2, WorkerEnds
<1>3. CASE Claimed
  <2>1. attempt.state = state /\ job \in Job /\ job # None
    BY <1>1, WorkerRows, ReportAssumption DEF ReportInv, WorkerInv, Ending
  <2>2. job' \in Job /\ job'.state = state /\ job'.tries = job.tries /\ job'.checkpoint = job.checkpoint
    BY <1>1, <1>3, <2>1 DEF Job, Settled
  <2>3. job' # None
    BY <2>2, ReportAssumption
  <2>4. ReportType'
    BY <1>1, <2>2 DEF ReportInv, ReportType
  <2>5. AttemptInv' /\ WorkerInv'
    BY <1>1 DEF ReportInv, AttemptInv, WorkerInv
  <2>6. ReceiptInv' /\ JobAgrees'
    BY <1>1, <2>1, <2>2 DEF ReportInv, ReceiptInv, JobAgrees, Settled
  <2>7. CheckpointInv'
    BY <1>1, <2>1, <2>2 DEF ReportInv, CheckpointInv, Pending
  <2> QED  BY <1>1, <2>1, <2>3, <2>4, <2>5, <2>6, <2>7 DEF ReportInv
<1> QED  BY <1>2, <1>3

LEMMA GivingUpKeeps == ReportInv /\ (_fail_interrupted_snapshot \/ _fail_artifact_recovery) => ReportInv'
<1> DEFINE p == _pending("fail", None)
<1>1. ASSUME ReportInv, worker # None, worker.pc \in {"interrupted", "lost"}, NEW c \in JobCheckpoint,
             c.phase \in {"snapshotting", "publishing"}, c.pending = p, Checkpoint(c, "fail")
      PROVE  ReportInv'
  <2>1. p \in PendingCommand /\ p.kind = "fail" /\ p # None /\ p.id[1] = p.kind /\ p.id[2] = job.tries
    BY <1>1, NewPending, WorkerRows DEF Kinds
  <2>2. job.tries \in Nat /\ "fail" \in Pcs /\ attempt.state # "completed"
    BY <1>1, WorkerRows DEF ReportInv, WorkerInv, Ending, Pcs
  <2>3. c # None
    BY <1>1, ReportAssumption
  <2> HIDE DEF p
  <2>4. ASSUME Moved(c, "fail") PROVE CheckpointInv' /\ Staging' /\ Generating' /\ Ending'
    <3>1. CheckpointInv'
      BY <1>1, <2>1, <2>2, <2>4, MovedFacts
    <3>2. Staging' /\ Generating'
      BY <2>4 DEF Moved, Staging, Generating
    <3>3. Ending'
      BY <1>1, <2>1, <2>2, <2>3, <2>4 DEF Moved, Ending, Pends, Pending
    <3> QED  BY <3>1, <3>2, <3>3
  <2> QED  BY <1>1, <2>2, <2>4, CheckpointStep
<1>2. ASSUME ReportInv, _fail_interrupted_snapshot PROVE ReportInv'
  <2> DEFINE c == [EmptyCheckpoint("snapshotting") EXCEPT !.pending = p]
  <2>1. worker # None /\ worker.pc = "interrupted" /\ Checkpoint(c, "fail")
    BY <1>2 DEF _fail_interrupted_snapshot, At
  <2>2. EmptyCheckpoint("snapshotting") \in JobCheckpoint /\ EmptyCheckpoint("snapshotting").phase = "snapshotting"
    BY <1>2, <2>1, EmptyFacts DEF Phases
  <2>3. p \in PendingCommand
    BY <1>2, <2>1, NewPending, WorkerRows DEF Kinds
  <2> HIDE DEF p
  <2>4. c \in JobCheckpoint /\ c.phase = "snapshotting" /\ c.pending = p
    BY <2>2, <2>3 DEF JobCheckpoint
  <2> HIDE DEF c
  <2> QED  BY <1>1, <1>2, <2>1, <2>4
<1>3. ASSUME ReportInv, _fail_artifact_recovery PROVE ReportInv'
  <2> DEFINE c == [job.checkpoint EXCEPT !.pending = p]
  <2>1. worker # None /\ worker.pc = "lost" /\ Checkpoint(c, "fail")
    BY <1>3 DEF _fail_artifact_recovery, At
  <2>2. job.checkpoint \in JobCheckpoint /\ job.checkpoint.phase = "publishing"
    BY <1>3, <2>1, WorkerRows DEF ReportInv, WorkerInv, Generating, WithoutCheckpoint
  <2>3. p \in PendingCommand
    BY <1>3, <2>1, NewPending, WorkerRows DEF Kinds
  <2> HIDE DEF p
  <2>4. c \in JobCheckpoint /\ c.phase = "publishing" /\ c.pending = p
    BY <2>2, <2>3 DEF JobCheckpoint
  <2> HIDE DEF c
  <2> QED  BY <1>1, <1>3, <2>1, <2>4
<1> QED  BY <1>2, <1>3

LEMMA FailKeeps == ReportInv /\ fail => ReportInv'
<1> SUFFICES ASSUME ReportInv, fail PROVE ReportInv'
  OBVIOUS
<1> DEFINE w == [worker EXCEPT !.pc = "failed", !.rev = Pending.rev + 1]
           a == Ended("failed")
           allowed == attempt.state \in Open /\ attempt.rev = Pending.rev
<1>1. worker # None /\ worker.pc = "fail" /\ UNCHANGED <<job, disk, live>> /\ Command(allowed, a, << >>, "failed")
  BY DEF fail, At, Command
<1>2. job.checkpoint # None /\ Pending # None /\ Pending.kind = "fail" /\ attempt.state # "completed" /\ job # None
  BY <1>1 DEF ReportInv, WorkerInv, Ending, Pends
<1>3. Pending.id[1] = "fail"
  BY <1>2 DEF ReportInv, CheckpointInv
<1>4. /\ attempt \in Attempt /\ attempt.rev \in Nat /\ worker.view \in 0..MaxLive /\ "failed" \in Pcs /\ None \in Bytes
      /\ disk \in [candidate : Bytes, final : Bytes]
  BY <1>1, WorkerRows DEF Pcs, ReportInv, ReportType
<1>5. w \in Worker /\ w.pc = "failed" /\ w.claim = worker.claim /\ w.view = worker.view
  BY <1>1, <1>2, <1>4, Answered
<1> HIDE DEF w
<1>6. CASE Pending.id \in receipts
  <2>1. worker' = w /\ UNCHANGED <<attempt, staged, receipts>>
    BY <1>1, <1>6 DEF Command, w
  <2>2. attempt.state = "failed"
    BY <1>3, <1>6 DEF ReportInv, ReceiptInv
  <2>3. Staging' /\ Generating' /\ Ending'
    BY <1>5, <2>1, <2>2 DEF Staging, Generating, Ending
  <2> QED  BY <1>1, <1>2, <1>4, <1>5, <2>1, <2>3, WorkerGoes
<1>7. CASE Pending.id \notin receipts /\ ~allowed
  BY <1>1, <1>7, WorkerEnds DEF Command, Raise
<1>8. CASE Pending.id \notin receipts /\ allowed
  <2>1. worker' = w /\ attempt' = a /\ staged' = << >> /\ receipts' = receipts \cup {Pending.id}
    BY <1>1, <1>8 DEF Command, w
  <2>2. a \in Attempt /\ a.state = "failed" /\ << >> \in Seq(SnapshotRow)
    BY <1>4 DEF Ended, Attempt, Settled
  <2> HIDE DEF a
  <2>3. AttemptInv'
    BY <2>1, <2>2 DEF AttemptInv, Open
  <2>4. Staging' /\ Generating' /\ Ending'
    BY <1>5, <2>1, <2>2 DEF Staging, Generating, Ending
  <2> QED  BY <1>1, <1>2, <1>4, <1>5, <1>8, <2>1, <2>2, <2>3, <2>4, WorkerCommits
<1> QED  BY <1>6, <1>7, <1>8

-----------------------------------------------------------------------------
(* A new claim finds in the checkpoint what its first step may assume. *)

LEMMA ResumeKeeps == ReportInv /\ run_to_completion => ReportInv'
<1> SUFFICES ASSUME ReportInv, run_to_completion PROVE ReportInv'
  OBVIOUS
<1>1. worker # None /\ worker.pc = "run_to_completion" /\ UNCHANGED <<attempt, staged, job, receipts, disk, live>>
  BY DEF run_to_completion, At
<1>2. /\ worker \in Worker /\ attempt.rev \in Nat /\ worker.view \in 0..MaxLive /\ attempt \in Attempt
      /\ disk \in [candidate : Bytes, final : Bytes] /\ job # None
  BY <1>1, WorkerRows DEF ReportInv, ReportType, WorkerInv
<1>3. worker.batch = 1 /\ Unstaged(1)
  BY <1>1 DEF ReportInv, WorkerInv, Staging
<1>4. CASE worker' = None
  BY <1>1, <1>4, WorkerEnds
<1>5. ASSUME NEW mode \in {"fresh", "resumed"}, NEW pc \in Pcs, worker' = Resume(mode, pc),
             \/ pc \in Quiet /\ attempt.state # "completed"
             \/ pc = "snapshot" /\ attempt.state # "completed"
             \/ pc = "terminal" /\ attempt.state = "completed"
             \/ pc = "failed" /\ attempt.state = "failed"
             \/ pc = "generating" /\ Pends("mark_generating") /\ attempt.state # "completed"
             \/ pc = "verifying" /\ Pends("mark_verifying") /\ attempt.state # "completed"
             \/ pc = "lost" /\ job.checkpoint.phase = "publishing" /\ attempt.state # "completed"
             \/ pc = "complete" /\ job.checkpoint.phase = "completing" /\ attempt.state # "completed",
             pc \notin WithoutCheckpoint => job.checkpoint # None
      PROVE  ReportInv'
  <2> DEFINE w == Resume(mode, pc)
  <2>1. w \in Worker /\ w.pc = pc /\ w.claim = worker.claim /\ w.view = worker.view /\ w.batch = worker.batch
    BY <1>2 DEF Resume, Worker
  <2> HIDE DEF w
  <2>2. worker' = w
    BY <1>5 DEF w
  <2>3. Staging' /\ Generating' /\ Ending'
    <3>1. CASE pc \in Quiet /\ attempt.state # "completed"
      BY <1>1, <2>1, <2>2, <3>1, QuietSteps
    <3>2. CASE pc = "snapshot" /\ attempt.state # "completed"
      BY <1>1, <1>3, <2>1, <2>2, <3>2 DEF Staging, Generating, Ending, Unstaged
    <3>3. CASE pc \in {"terminal", "failed"}
      BY <1>1, <1>5, <2>1, <2>2, <3>3 DEF Staging, Generating, Ending, Quiet
    <3>4. CASE pc \in {"generating", "verifying"}
      BY <1>1, <1>5, <2>1, <2>2, <3>4 DEF Staging, Generating, Ending, Quiet, Pends, Pending
    <3>5. CASE pc \in {"lost", "complete"}
      BY <1>1, <1>5, <2>1, <2>2, <3>5 DEF Staging, Generating, Ending, Quiet
    <3> QED  BY <1>5, <3>1, <3>2, <3>3, <3>4, <3>5
  <2> QED  BY <1>1, <1>2, <1>5, <2>1, <2>2, <2>3, WorkerGoes
<1>6. \A s : s \in Open => s # "completed"
  BY DEF Open
<1>7. ASSUME attempt.state \in Open, job.checkpoint # None, worker' = ResumePhase PROVE ReportInv'
  <2>0. attempt.state # "completed"
    BY <1>6, <1>7
  <2>1. ASSUME worker' = SnapshotPhase PROVE ReportInv'
    BY <1>4, <1>5, <1>7, <2>0, <2>1 DEF SnapshotPhase, Quiet, Pcs, WithoutCheckpoint
  <2>2. ASSUME worker' = _resume_sealed_phase PROVE ReportInv'
    BY <1>4, <1>5, <1>7, <2>0, <2>2 DEF _resume_sealed_phase, Quiet, Pcs, WithoutCheckpoint, Pends
  <2>3. ASSUME worker' = _resume_writing_phase, job.checkpoint.phase = "writing" PROVE ReportInv'
    <3>1. Pending # None => Pends("mark_verifying")
      BY <1>2, <1>7, <2>3 DEF ReportInv, CheckpointInv, Pends
    <3> QED  BY <1>4, <1>5, <1>7, <2>0, <2>3, <3>1 DEF _resume_writing_phase, Quiet, Pcs, WithoutCheckpoint
  <2>4. ASSUME worker' = _resume_verifying_phase PROVE ReportInv'
    BY <1>4, <1>5, <1>7, <2>0, <2>4 DEF _resume_verifying_phase, Quiet, Pcs, WithoutCheckpoint
  <2>5. ASSUME worker' = _resume_publishing_phase, job.checkpoint.phase = "publishing" PROVE ReportInv'
    BY <1>4, <1>5, <1>7, <2>0, <2>5 DEF _resume_publishing_phase, Quiet, Pcs, WithoutCheckpoint
  <2>6. ASSUME worker' = _resume_published_completion, job.checkpoint.phase = "completing" PROVE ReportInv'
    BY <1>4, <1>5, <1>7, <2>0, <2>6 DEF _resume_published_completion, Quiet, Pcs, WithoutCheckpoint
  <2>7. job.checkpoint.phase \in Phases
    <3>1. job.checkpoint \in JobCheckpoint
      BY <1>1, <1>7, WorkerRows
    <3> QED  BY <3>1 DEF JobCheckpoint
  <2>8. CASE job.checkpoint.phase = "terminal"
    BY <1>4, <1>7, <2>8 DEF ResumePhase
  <2> QED  BY <1>7, <2>1, <2>2, <2>3, <2>4, <2>5, <2>6, <2>7, <2>8 DEF ResumePhase, Phases
<1>8. attempt.state \in Open \cup Settled
  BY <1>2 DEF Attempt
<1>9. CASE attempt.state = "completed"
  <2>1. worker' = Resume("fresh", "terminal")
    BY <1>9 DEF run_to_completion, Open
  <2> QED  BY <1>5, <1>9, <2>1 DEF Pcs, WithoutCheckpoint
<1>10. CASE attempt.state = "failed"
  <2>1. worker' = Resume("fresh", "failed")
    BY <1>10 DEF run_to_completion, Open
  <2> QED  BY <1>5, <1>10, <2>1 DEF Pcs, WithoutCheckpoint
<1>11. CASE attempt.state = "cancelled"
  <2>1. worker' = None
    BY <1>11 DEF run_to_completion, Open
  <2> QED  BY <1>4, <2>1
<1>12. CASE attempt.state \in Open /\ job.checkpoint # None
  <2>1. worker' = ResumePhase
    BY <1>12 DEF run_to_completion, Open
  <2> QED  BY <1>7, <1>12, <2>1
<1>13. CASE attempt.state \in Open /\ job.checkpoint = None
  <2>1. worker' \in {Resume("fresh", "snapshot"), Resume("fresh", "interrupted"), None}
    BY <1>13 DEF run_to_completion, Open
  <2> QED  BY <1>4, <1>5, <1>6, <1>13, <2>1 DEF Pcs, WithoutCheckpoint, Quiet
<1> QED  BY <1>8, <1>9, <1>10, <1>11, <1>12, <1>13 DEF Settled

-----------------------------------------------------------------------------
(* The operator, the coordinator and the environment. *)

LEMMA StartKeeps == ReportInv /\ start_resolved => ReportInv'
<1> SUFFICES ASSUME ReportInv, start_resolved PROVE ReportInv'
  OBVIOUS
<1> DEFINE a == [state |-> "staging", rev |-> 1, count |-> 0, hash |-> None, candidate |-> FALSE, artifact |-> None]
           j == [state |-> "queued", tries |-> 0, checkpoint |-> None]
<1>1. attempt = None /\ attempt' = a /\ job' = j /\ UNCHANGED <<staged, receipts, worker, disk, live>>
  BY DEF start_resolved
<1>2. a \in Attempt /\ a.state = "staging" /\ a.rev = 1
  BY DEF Attempt, Open, Bytes
<1>3. j \in Job /\ j.state = "queued" /\ j.tries = 0 /\ j.checkpoint = None
  BY DEF Job
<1>4. a # None /\ j # None
  BY <1>2, <1>3, ReportAssumption
<1> HIDE DEF a, j
<1>5. job = None /\ receipts = {} /\ worker = None /\ staged = << >>
  BY <1>1 DEF ReportInv, WorkerInv
<1>6. ReportType'
  BY <1>1, <1>2, <1>3 DEF ReportInv, ReportType
<1>7. AttemptInv'
  BY <1>1, <1>2, <1>5 DEF AttemptInv, Open
<1>8. ReceiptInv' /\ CheckpointInv' /\ WorkerInv' /\ JobAgrees'
  BY <1>1, <1>2, <1>3, <1>5 DEF ReceiptInv, CheckpointInv, WorkerInv, JobAgrees, Settled
<1> QED  BY <1>1, <1>4, <1>6, <1>7, <1>8 DEF ReportInv

(* A cancellation takes the rows and the claim away under a running worker. *)
LEMMA CancelKeeps == ReportInv /\ cancel => ReportInv'
<1> SUFFICES ASSUME ReportInv, cancel PROVE ReportInv'
  OBVIOUS
<1> DEFINE a == Ended("cancelled")
           j == [job EXCEPT !.state = "cancelled"]
<1>1. /\ attempt # None /\ attempt.state \in Open /\ job' = CancelJob
      /\ attempt' = a /\ staged' = << >> /\ UNCHANGED <<receipts, worker, disk, live>>
  BY DEF cancel
<1>2. attempt \in Attempt /\ attempt.rev \in Nat /\ job \in Job /\ job # None
  BY <1>1 DEF ReportInv, ReportType, Attempt
<1>3. job.state \notin Settled /\ job' = j
  BY <1>1, <1>2 DEF ReportInv, JobAgrees, Open, Settled, CancelJob
<1>4. a \in Attempt /\ a.state = "cancelled"
  BY <1>2 DEF Ended, Attempt, Settled, Bytes
<1>5. j \in Job /\ j.state = "cancelled" /\ j.tries = job.tries /\ j.checkpoint = job.checkpoint
  BY <1>2 DEF Job, Settled
<1>6. a # None /\ j # None /\ << >> \in Seq(SnapshotRow)
  BY <1>4, <1>5, ReportAssumption
<1> HIDE DEF a, j
<1>7. ReportType'
  BY <1>1, <1>3, <1>4, <1>5, <1>6 DEF ReportInv, ReportType
<1>8. AttemptInv'
  BY <1>1, <1>4 DEF AttemptInv, Open
<1>9. ReceiptInv' /\ JobAgrees'
  <2>1. \A id \in receipts : id[2] <= job.tries /\ id[1] # "complete" /\ id[1] # "fail"
    BY <1>1 DEF ReportInv, ReceiptInv, Open
  <2> QED  BY <1>1, <1>3, <1>4, <1>5, <2>1 DEF ReceiptInv, JobAgrees, Settled
<1>10. CheckpointInv'
  BY <1>1, <1>2, <1>3, <1>5 DEF ReportInv, CheckpointInv, Pending
<1>11. ASSUME worker # None PROVE Staging' /\ Generating' /\ Ending'
  <2>1. worker.pc \notin {"terminal", "complete_job", "failed", "fail_job"} /\ Staging /\ Generating /\ Ending
    BY <1>1, <1>11 DEF ReportInv, WorkerInv, Ending, Open
  <2>2. Staging'
    BY <1>1, <1>3, <1>4, <1>5, <2>1 DEF Staging, Unstaged, Shows, Pends, Pending
  <2>3. Generating'
    BY <1>1, <1>3, <1>5, <2>1 DEF Generating, Pends, Pending
  <2>4. Ending'
    BY <1>1, <1>3, <1>4, <1>5, <2>1 DEF Ending, Pends, Pending
  <2> QED  BY <2>2, <2>3, <2>4
<1>12. WorkerInv'
  BY <1>1, <1>3, <1>5, <1>6, <1>11 DEF ReportInv, WorkerInv
<1> QED  BY <1>1, <1>3, <1>6, <1>7, <1>8, <1>9, <1>10, <1>12 DEF ReportInv

(* A new claim has used no command identity. *)
LEMMA ClaimKeeps == ReportInv /\ claim_next => ReportInv'
<1> SUFFICES ASSUME ReportInv, claim_next PROVE ReportInv'
  OBVIOUS
<1> DEFINE j == [job EXCEPT !.state = "running", !.tries = @ + 1]
           w == [pc |-> "run_to_completion", claim |-> job.tries + 1, view |-> 0,
                 rev |-> attempt.rev, batch |-> 1, mode |-> "fresh", proof |-> None]
<1>1. /\ job # None /\ job.state \in {"queued", "retry_wait"} /\ job' = j /\ worker' = w
      /\ UNCHANGED <<attempt, staged, receipts, disk, live>>
  BY DEF claim_next
<1>2. job \in Job /\ attempt \in Attempt /\ attempt # None
  BY <1>1 DEF ReportInv, ReportType
<1>3. job.tries \in Nat /\ job.tries + 1 \in Nat /\ attempt.rev \in Nat
  BY <1>2 DEF Job, Attempt
<1>4. j \in Job /\ j.state = "running" /\ j.tries = job.tries + 1 /\ j.checkpoint = job.checkpoint
  BY <1>2, <1>3 DEF Job
<1>5. w \in Worker /\ w.pc = "run_to_completion" /\ w.claim = job.tries + 1 /\ w.view = 0 /\ w.batch = 1
  BY <1>3 DEF Worker, Pcs, Bytes
<1>6. j # None /\ w # None /\ MaxLive \in Nat
  BY <1>4, <1>5, ReportAssumption
<1> HIDE DEF j, w
<1>7. ReportType'
  BY <1>1, <1>4, <1>5 DEF ReportInv, ReportType
<1>8. AttemptInv'
  BY <1>1 DEF ReportInv, AttemptInv
<1>9. \A id \in receipts : id[2] \in Nat /\ id[2] <= job.tries
  BY DEF ReportInv, ReportType, ReceiptInv, CommandId
<1>10. ReceiptInv'
  BY <1>1, <1>3, <1>4, <1>9 DEF ReportInv, ReceiptInv
<1>11. JobAgrees'
  BY <1>1, <1>2, <1>4 DEF ReportInv, JobAgrees, Settled
<1>12. CheckpointInv'
  <2>1. ASSUME job.checkpoint # None, Pending # None PROVE Pending.id[2] \in Nat
    <3>1. job.checkpoint \in JobCheckpoint
      BY <1>2, <2>1 DEF Job
    <3>2. Pending \in PendingCommand
      BY <2>1, <3>1 DEF JobCheckpoint, Pending
    <3> QED  BY <3>2 DEF PendingCommand, CommandId
  <2> QED  BY <1>1, <1>3, <1>4, <2>1 DEF ReportInv, CheckpointInv, Pending
<1>13. WorkerInv'
  <2>1. Unstaged(1)'
    BY <1>1, <1>3, <1>5, <1>9 DEF Unstaged
  <2>2. Staging' /\ Generating' /\ Ending'
    BY <1>1, <1>5, <2>1 DEF Staging, Generating, Ending, Unstaged
  <2> QED  BY <1>1, <1>4, <1>5, <1>6, <2>2 DEF WorkerInv, WithoutCheckpoint
<1> QED  BY <1>1, <1>2, <1>6, <1>7, <1>8, <1>10, <1>11, <1>12, <1>13 DEF ReportInv

LEMMA RecoverKeeps == ReportInv /\ _recover_report_stale => ReportInv'
<1> SUFFICES ASSUME ReportInv, _recover_report_stale PROVE ReportInv'
  OBVIOUS
<1> DEFINE j == [job EXCEPT !.state = "retry_wait"]
<1>1. /\ worker = None /\ job # None /\ job.state = "running" /\ job' = j
      /\ UNCHANGED <<attempt, staged, receipts, worker, disk, live>>
  BY DEF _recover_report_stale
<1>2. job \in Job
  BY <1>1 DEF ReportInv, ReportType
<1>3. j \in Job /\ j.state = "retry_wait" /\ j.tries = job.tries /\ j.checkpoint = job.checkpoint
  BY <1>2 DEF Job
<1>4. j # None
  BY <1>3, ReportAssumption
<1> HIDE DEF j
<1>5. ReportType' /\ AttemptInv' /\ WorkerInv'
  BY <1>1, <1>3 DEF ReportInv, ReportType, AttemptInv, WorkerInv
<1>6. ReceiptInv' /\ JobAgrees' /\ CheckpointInv'
  BY <1>1, <1>3 DEF ReportInv, ReceiptInv, JobAgrees, Settled, CheckpointInv, Pending
<1> QED  BY <1>1, <1>4, <1>5, <1>6 DEF ReportInv

(* Damage to the candidate, and changes of the live rows. *)
LEMMA WorldKeeps ==
    ASSUME ReportInv, UNCHANGED <<attempt, staged, job, receipts, worker>>,
           disk' \in [candidate : Bytes, final : Bytes], disk'.final = disk.final, live' \in 0..MaxLive
    PROVE  ReportInv'
<1>1. ReportType' /\ AttemptInv' /\ ReceiptInv' /\ JobAgrees'
  BY DEF ReportInv, ReportType, AttemptInv, ReceiptInv, JobAgrees
<1>2. CheckpointInv'
  BY DEF ReportInv, CheckpointInv, Pending
<1>3. WorkerInv'
  <2>1. ASSUME worker # None PROVE Staging' /\ Generating' /\ Ending'
    <3>1. Staging /\ Generating /\ Ending
      BY <2>1 DEF ReportInv, WorkerInv
    <3>2. Staging'
      BY <3>1 DEF Staging, Unstaged, Shows, Pends, Pending
    <3>3. Generating' /\ Ending'
      BY <3>1 DEF Generating, Ending, Pends, Pending
    <3> QED  BY <3>2, <3>3
  <2> QED  BY <2>1 DEF ReportInv, WorkerInv
<1> QED  BY <1>1, <1>2, <1>3 DEF ReportInv

-----------------------------------------------------------------------------
(* The theorems. *)

LEMMA ReportInitHolds == Init => ReportInv
<1> SUFFICES ASSUME Init PROVE ReportInv
  OBVIOUS
<1>1. ReportType
  BY ReportAssumption DEF Init, ReportType, Bytes
<1> QED  BY <1>1 DEF Init, ReportInv, AttemptInv, ReceiptInv, CheckpointInv, WorkerInv, JobAgrees

LEMMA ReportNextHolds == ReportInv /\ [Next]_vars => ReportInv'
<1> SUFFICES ASSUME ReportInv, [Next]_vars PROVE ReportInv'
  OBVIOUS
<1>0. disk \in [candidate : Bytes, final : Bytes] /\ live \in 0..MaxLive
  BY DEF ReportInv, ReportType
<1>1. CASE UNCHANGED vars
  BY <1>0, <1>1, WorldKeeps DEF vars
<1>2. CASE WorkerStep
  BY <1>2, ResumeKeeps, BeginSnapshotKeeps, OpenViewKeeps, CheckpointBatchKeeps, StageBatchKeeps, BatchStagedKeeps,
     PendSealKeeps, SealKeeps, SealedKeeps, ArtifactKeeps, MarksKeep, PhaseKeeps, CandidateKeeps,
     PendVerifyingKeeps, MoveKeeps, CompletingKeeps, CompleteKeeps, TerminalKeeps, EndJobKeeps,
     GivingUpKeeps, FailKeeps DEF WorkerStep
<1>3. CASE Die
  BY <1>3, WorkerEnds DEF Die
<1>4. CASE DamageCandidate
  <2>1. Damaged \in Bytes /\ None \in Bytes
    BY DEF Bytes
  <2>2. disk' \in [candidate : Bytes, final : Bytes] /\ disk'.final = disk.final
    BY <1>0, <1>4, <2>1 DEF DamageCandidate
  <2> QED  BY <1>0, <1>4, <2>2, WorldKeeps DEF DamageCandidate
<1>5. CASE LiveChange
  <2>1. live' \in 0..MaxLive
    BY <1>0, <1>5, ReportAssumption DEF LiveChange
  <2> QED  BY <1>0, <1>5, <2>1, WorldKeeps DEF LiveChange
<1> QED  BY <1>1, <1>2, <1>3, <1>4, <1>5, StartKeeps, CancelKeeps, ClaimKeeps, RecoverKeeps DEF Next

LEMMA ReportHolds == Spec => []ReportInv
BY ReportInitHolds, ReportNextHolds, PTL DEF Spec

(* A completed report is one consistent snapshot of the live rows, sealed as   *)
(* it was staged, and the published workbook holds exactly its rows, however   *)
(* often the worker died, the candidate was damaged or a command was repeated  *)
(* (snapshot_and_seal, artifact_and_complete, run_to_completion).              *)
THEOREM CompletedReportsAreExact == Spec => []CompletedIsExact
<1>1. ReportInv => CompletedIsExact
  BY DEF ReportInv, AttemptInv, CompletedIsExact, Snapshot
<1> QED  BY <1>1, ReportHolds, PTL

(* A settled job belongs to a report that ended the same way, and a cancelled   *)
(* report has a cancelled job, whatever races the cancellation (cancel,         *)
(* run_to_completion, _recover_report_stale).                                   *)
THEOREM JobsAgree == Spec => []JobAgrees
<1>1. ReportInv => JobAgrees
  BY DEF ReportInv
<1> QED  BY <1>1, ReportHolds, PTL
==================================================================================
