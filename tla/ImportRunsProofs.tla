-------------------------- MODULE ImportRunsProofs --------------------------
(***************************************************************************)
(* Proofs about ImportRuns, for every number of jobs, runs, attempts,      *)
(* files, batches and materials.                                           *)
(***************************************************************************)
EXTENDS ImportRuns, FiniteSetTheorems, TLAPS

Settled == Review \cup Terminal

(* The states of a run whose file is, or was, current evidence. *)
Current == {"staged", "waiting_review", "accepted", "partially_accepted",
            "rejected"}

(* What a job row says of its run: the checkpoint's cursor counts the rows *)
(* staged so far.                                                          *)
JobInv(j) ==
    LET c == jobs[j].checkpoint IN
    /\ jobs[j].state = "none" => jobs[j].attempt = 0
    /\ jobs[j].state = "queued" => jobs[j].attempt < MaxAttempts
    /\ c.run = NoRun => c = NoCheckpoint
    /\ c.run # NoRun =>
          /\ c.revision > 0
          /\ runs[c.run].job = j
          /\ runs[c.run].state # "none"
          /\ runs[c.run].state = "validating" =>
                runs[c.run].rows = c.next /\ c.next <= Batches
    /\ c.phase = "publishing" => c.next = Batches
    /\ c.phase = "noop_checkpoint" => runs[c.run].state # "validating"
    /\ jobs[j].state = "completed" =>
          c.run # NoRun /\ runs[c.run].state \in Settled

(* What a run says of its job, its rows and its proposals. *)
RunInv(r) ==
    /\ runs[r].state # "none" => runs[r].revision > 0
    /\ runs[r].job # NoRun => jobs[runs[r].job].checkpoint.run = r
    /\ runs[r].state \notin {"none", "validating"} =>
          runs[r].fingerprint = runs[r].content
    /\ receipts[r] # NoReceipt => runs[r].state = "noop"
    /\ runs[r].state \in {"staged", "waiting_review"} => r \in reappear
    /\ r \in reappear => runs[r].state \in Current
    /\ runs[r].state \in Terminal \cup {"noop_pending_checkpoint"} =>
          In(r, "pending") = {}

(* What a worker holds.  Every worker of a job works on the job's run, but *)
(* only the one with the claim has the current checkpoint.                 *)
WorkerInv(j, a) ==
    LET w == workers[j][a]
        c == w.checkpoint
    IN
    /\ c.run = NoRun => c = NoCheckpoint /\ w.step \in {"ended", "claimed"}
    /\ c.run # NoRun => c.run = jobs[j].checkpoint.run /\ c.revision > 0
    /\ Owns(j, a) /\ w.step \in {"claimed", "stage", "verify", "publish", "commit"}
          => c = jobs[j].checkpoint
    /\ w.step = "verify" => c.next = Batches
    /\ w.step \in {"publish", "commit"} => c.phase = "publishing"
    /\ c.phase = "noop_checkpoint" \/ w.step \in {"noop", "note"} =>
          runs[c.run].state # "validating"
    /\ w.step = "complete" => runs[c.run].state \in Settled
    /\ w.step = "commit" =>
          (classify_replay(runs[c.run].chronology, c.fingerprint, w.seen)
              \in NoopClasses => w.kept = {})

SourceInv ==
    /\ SourceNamesFinishedRun
    /\ source.revision > 0 /\ runs[source.run].state # "noop" =>
          source.run \in reappear

Inv ==
    /\ TypeOK
    /\ \A j \in Jobs : JobInv(j)
    /\ \A r \in RunIds : RunInv(r)
    /\ \A j \in Jobs, a \in Attempts : WorkerInv(j, a)
    /\ SourceInv

-----------------------------------------------------------------------------
LEMMA InitInv == Init => Inv
  <1> SUFFICES ASSUME Init PROVE Inv
    OBVIOUS
  <1> USE ImportAssumption
  <1>0. NoRunRow \in Run /\ NoCheckpoint \in Checkpoint /\ NoSource \in Source
        /\ NoReceipt \in Receipt
    BY DEF NoRunRow, Run, RunStates, Fingerprints, NoCheckpoint, Checkpoint, Phases, NoSource,
           Source, NoReceipt, Receipt
  <1>1. /\ proposals \in [RunIds -> [Materials -> ProposalStates]]
        /\ reviews \in [RunIds -> [decision : Decisions, fingerprint : RecoveryFingerprint]]
        /\ receipts \in [RunIds -> Receipt]
        /\ jobs \in [Jobs -> [state : JobStates, attempt : 0 .. MaxAttempts,
                             checkpoint : Checkpoint]]
        /\ workers \in [Jobs -> [Attempts -> Worker]]
        /\ suppressed \subseteq Materials /\ faults \in 0 .. MaxFaults
    <2>1. NoReview \in [decision : Decisions, fingerprint : RecoveryFingerprint]
      BY <1>0 DEF NoReview, Decisions, RecoveryFingerprint
    <2>2. Idle \in Worker
      BY <1>0 DEF Idle, Worker, Steps
    <2>. QED
      BY <1>0, <2>1, <2>2 DEF Init, ProposalStates, JobStates
  <1>2. \A j \in Jobs : JobInv(j)
    BY DEF Init, JobInv, NoCheckpoint
  <1>4. \A j \in Jobs, a \in Attempts : WorkerInv(j, a)
    BY DEF Init, WorkerInv, Idle, NoCheckpoint, Owns
  <1>5. \A r \in RunIds : In(r, "pending") = {} /\ receipts[r] = NoReceipt
    BY DEF Init, In
  <1>6. CASE runs = [r \in RunIds |-> NoRunRow] /\ source = NoSource /\ reappear = {}
    <2>1. TypeOK
      BY <1>0, <1>1, <1>6 DEF TypeOK
    <2>2. \A r \in RunIds : RunInv(r)
      BY <1>5, <1>6 DEF RunInv, NoRunRow, Terminal, Current
    <2>3. SourceInv
      BY <1>6 DEF SourceInv, SourceNamesFinishedRun, NoSource
    <2>. QED
      BY <1>2, <1>4, <2>1, <2>2, <2>3 DEF Inv
  <1>7. CASE \E r \in RunIds, t \in Chronologies, c \in Contents : Seeded(r, t, c)
    <2>0. PICK s \in RunIds, t \in Chronologies, c \in Contents : Seeded(s, t, c)
      BY <1>7
    <2>1. TypeOK
      <3> DEFINE row == [NoRunRow EXCEPT !.state = "accepted", !.revision = 3,
                            !.chronology = t, !.content = c, !.rows = Batches,
                            !.fingerprint = c]
      <3>1. row \in Run
        BY <1>0 DEF Run, RunStates, Terminal, Fingerprints
      <3>2. runs = [i \in RunIds |-> IF i # s THEN NoRunRow ELSE row]
        BY <2>0 DEF Seeded
      <3>3. runs \in [RunIds -> Run]
        BY <1>0, <3>1, <3>2
      <3>4. source \in Source /\ reappear \subseteq RunIds
        BY <2>0 DEF Seeded, Source, Fingerprints
      <3>. QED
        BY <1>1, <3>3, <3>4 DEF TypeOK
    <2>2. \A r \in RunIds : RunInv(r)
      BY <1>5, <2>0 DEF Seeded, RunInv, NoRunRow, Terminal, Current
    <2>3. SourceInv
      BY <2>0 DEF Seeded, SourceInv, SourceNamesFinishedRun, NoRunRow, Terminal
    <2>. QED
      BY <1>2, <1>4, <2>1, <2>2, <2>3 DEF Inv
  <1>. QED
    BY <1>6, <1>7 DEF Init

(* Steps. *)

(* How a run may change under its job and its workers. *)
Progresses(r) ==
    /\ runs'[r].job = runs[r].job
    /\ runs'[r].chronology = runs[r].chronology
    /\ runs[r].state # "none" => runs'[r].state # "none"
    /\ runs[r].state # "validating" => runs'[r].state # "validating"
    /\ runs[r].state \in Settled => runs'[r].state \in Settled

(* A step that leaves the jobs and the workers alone. *)
LEMMA Steady ==
  ASSUME Inv, UNCHANGED <<jobs, workers>>, \A r \in RunIds : Progresses(r),
         \A r \in RunIds :
             runs'[r].state = "validating" => runs'[r].rows = runs[r].rows
  PROVE  /\ \A j \in Jobs : JobInv(j)'
         /\ \A j \in Jobs, a \in Attempts : WorkerInv(j, a)'
  <1>1. ASSUME NEW j \in Jobs PROVE JobInv(j)'
    <2>1. JobInv(j) /\ jobs[j].checkpoint \in Checkpoint /\ jobs'[j] = jobs[j]
      BY <1>1 DEF Inv, TypeOK
    <2>2. CASE jobs[j].checkpoint.run = NoRun
      BY <2>1, <2>2 DEF JobInv, NoCheckpoint
    <2>3. CASE jobs[j].checkpoint.run # NoRun
      <3>1. /\ Progresses(jobs[j].checkpoint.run)
            /\ runs'[jobs[j].checkpoint.run].state = "validating" =>
                 runs'[jobs[j].checkpoint.run].rows = runs[jobs[j].checkpoint.run].rows
        BY <2>1, <2>3 DEF Checkpoint
      <3>. QED
        BY <2>1, <2>3, <3>1 DEF JobInv, Progresses
    <2>. QED
      BY <2>2, <2>3
  <1>2. ASSUME NEW j \in Jobs, NEW a \in Attempts PROVE WorkerInv(j, a)'
    <2>1. WorkerInv(j, a) /\ workers[j][a].checkpoint \in Checkpoint
      BY <1>2 DEF Inv, TypeOK, Worker
    <2>2. CASE workers[j][a].checkpoint.run = NoRun
      BY <2>1, <2>2 DEF WorkerInv, NoCheckpoint, Owns
    <2>3. CASE workers[j][a].checkpoint.run # NoRun
      <3>1. Progresses(workers[j][a].checkpoint.run)
        BY <2>1, <2>3 DEF Checkpoint
      <3>. QED
        BY <2>1, <2>3, <3>1 DEF WorkerInv, Progresses, Owns
    <2>. QED
      BY <2>2, <2>3
  <1>. QED
    BY <1>1, <1>2

(* A step of job j: the other jobs and their workers do not notice. *)
LEMMA OtherJobs ==
  ASSUME Inv, NEW j \in Jobs,
         \A i \in Jobs \ {j} : jobs'[i] = jobs[i] /\ workers'[i] = workers[i],
         \A i \in Jobs \ {j} : jobs[i].checkpoint.run # NoRun =>
             runs'[jobs[i].checkpoint.run] = runs[jobs[i].checkpoint.run]
  PROVE  \A i \in Jobs \ {j} :
             JobInv(i)' /\ \A a \in Attempts : WorkerInv(i, a)'
  <1> TAKE i \in Jobs \ {j}
  <1>1. JobInv(i)'
    <2>1. JobInv(i) /\ jobs'[i] = jobs[i]
      BY DEF Inv
    <2>2. CASE jobs[i].checkpoint.run = NoRun
      BY <2>1, <2>2 DEF JobInv, NoCheckpoint
    <2>3. CASE jobs[i].checkpoint.run # NoRun
      BY <2>1, <2>3 DEF JobInv
    <2>. QED
      BY <2>2, <2>3
  <1>2. ASSUME NEW a \in Attempts PROVE WorkerInv(i, a)'
    <2>1. WorkerInv(i, a) /\ jobs'[i] = jobs[i] /\ workers'[i] = workers[i]
      BY DEF Inv
    <2>2. CASE workers[i][a].checkpoint.run = NoRun
      BY <2>1, <2>2 DEF WorkerInv, NoCheckpoint, Owns
    <2>3. CASE workers[i][a].checkpoint.run # NoRun
      BY <2>1, <2>3 DEF WorkerInv, Owns
    <2>. QED
      BY <2>2, <2>3
  <1>. QED
    BY <1>1, <1>2

(* A step of attempt a: the other attempts of its job do not notice.  The  *)
(* checkpoint may only be rewritten for the same run and by its owner.     *)
LEMMA OtherAttempts ==
  ASSUME Inv, NEW j \in Jobs, NEW a \in Attempts,
         \A b \in Attempts \ {a} : workers'[j][b] = workers[j][b],
         jobs'[j].checkpoint.run = jobs[j].checkpoint.run,
         \A b \in Attempts \ {a} : Owns(j, b)' =>
             Owns(j, b) /\ jobs'[j].checkpoint = jobs[j].checkpoint,
         jobs[j].checkpoint.run # NoRun => Progresses(jobs[j].checkpoint.run)
  PROVE  \A b \in Attempts \ {a} : WorkerInv(j, b)'
  <1> TAKE b \in Attempts \ {a}
  <1>1. WorkerInv(j, b) /\ workers'[j][b] = workers[j][b]
    BY DEF Inv
  <1>2. CASE workers[j][b].checkpoint.run = NoRun
    BY <1>1, <1>2 DEF WorkerInv, NoCheckpoint
  <1>3. CASE workers[j][b].checkpoint.run # NoRun
    BY <1>1, <1>3 DEF WorkerInv, Progresses
  <1>. QED
    BY <1>2, <1>3

(* The runs of a step that leaves runs, receipts, reappearance and          *)
(* proposals alone, and moves no job to another run.                        *)
LEMMA SameRuns ==
  ASSUME Inv, UNCHANGED <<runs, proposals, source, reappear, receipts>>,
         \A j \in Jobs : jobs[j].checkpoint.run # NoRun =>
             jobs'[j].checkpoint.run = jobs[j].checkpoint.run
  PROVE  /\ \A r \in RunIds : RunInv(r)'
         /\ SourceInv'
  <1>1. ASSUME NEW r \in RunIds PROVE RunInv(r)'
    <2>1. RunInv(r) /\ runs[r].job \in Jobs \cup {NoRun}
      BY <1>1 DEF Inv, TypeOK, Run
    <2>2. runs[r].job # NoRun => jobs'[runs[r].job].checkpoint.run = r
      BY <2>1, ImportAssumption DEF RunInv
    <2>. QED
      BY <2>1, <2>2 DEF RunInv, In
  <1>2. SourceInv'
    BY DEF Inv, SourceInv, SourceNamesFinishedRun
  <1>. QED
    BY <1>1, <1>2


(* One worker changes. *)
LEMMA Becoming ==
  ASSUME TypeOK, NEW j \in Jobs, NEW a \in Attempts, NEW w \in Worker,
         Becomes(j, a, w)
  PROVE  /\ workers' \in [Jobs -> [Attempts -> Worker]]
         /\ workers'[j][a] = w
         /\ \A b \in Attempts \ {a} : workers'[j][b] = workers[j][b]
         /\ \A i \in Jobs \ {j} : workers'[i] = workers[i]
  BY DEF TypeOK, Becomes

(* One job's checkpoint changes. *)
LEMMA Saving ==
  ASSUME TypeOK, NEW j \in Jobs, NEW c \in Checkpoint, Saved(j, c)
  PROVE  /\ jobs' \in [Jobs -> [state : JobStates, attempt : 0 .. MaxAttempts,
                                checkpoint : Checkpoint]]
         /\ jobs'[j].checkpoint = c
         /\ jobs'[j].state = jobs[j].state
         /\ jobs'[j].attempt = jobs[j].attempt
         /\ \A i \in Jobs \ {j} : jobs'[i] = jobs[i]
  BY DEF TypeOK, Saved

(* One job's state changes. *)
LEMMA Stopping ==
  ASSUME TypeOK, NEW j \in Jobs, NEW s \in JobStates,
         jobs' = [jobs EXCEPT ![j].state = s]
  PROVE  /\ jobs' \in [Jobs -> [state : JobStates, attempt : 0 .. MaxAttempts,
                                checkpoint : Checkpoint]]
         /\ jobs'[j].checkpoint = jobs[j].checkpoint
         /\ jobs'[j].state = s
         /\ jobs'[j].attempt = jobs[j].attempt
         /\ \A i \in Jobs \ {j} : jobs'[i] = jobs[i]
  BY DEF TypeOK

LEMMA IdleTyped == Idle \in Worker
  BY ImportAssumption DEF Idle, Worker, Steps, NoCheckpoint, Checkpoint, Phases,
     Fingerprints, NoSource, Source

(* What changes when a job's state moves on and nothing else of the        *)
(* import does; attempt a is the one whose worker may change.              *)
LEMMA JobMoves ==
  ASSUME Inv, NEW j \in Jobs, NEW a \in Attempts,
         UNCHANGED <<runs, proposals, suppressed, source, reviews, reappear, receipts>>,
         jobs' \in [Jobs -> [state : JobStates, attempt : 0 .. MaxAttempts,
                             checkpoint : Checkpoint]],
         jobs'[j].checkpoint = jobs[j].checkpoint,
         \A i \in Jobs \ {j} : jobs'[i] = jobs[i],
         workers' \in [Jobs -> [Attempts -> Worker]],
         \A b \in Attempts \ {a} : workers'[j][b] = workers[j][b],
         \A i \in Jobs \ {j} : workers'[i] = workers[i],
         faults' \in 0 .. MaxFaults,
         \A b \in Attempts \ {a} : Owns(j, b)' => Owns(j, b),
         jobs'[j].state = "none" => jobs'[j].attempt = 0,
         jobs'[j].state = "queued" => jobs'[j].attempt < MaxAttempts,
         jobs'[j].state = "completed" =>
             jobs[j].checkpoint.run # NoRun
             /\ runs[jobs[j].checkpoint.run].state \in Settled,
         WorkerInv(j, a)'
  PROVE  Inv'
  <1>1. TypeOK'
    BY DEF Inv, TypeOK
  <1>2. /\ \A r \in RunIds : RunInv(r)'
        /\ SourceInv'
    <2>1. \A i \in Jobs : jobs'[i].checkpoint.run = jobs[i].checkpoint.run
      OBVIOUS
    <2>. QED
      BY <2>1, SameRuns
  <1>3. \A i \in Jobs \ {j} : JobInv(i)' /\ \A b \in Attempts : WorkerInv(i, b)'
    BY OtherJobs
  <1>4. JobInv(j)'
    <2>1. JobInv(j)
      BY DEF Inv
    <2>. QED
      BY <2>1 DEF JobInv
  <1>5. \A b \in Attempts \ {a} : WorkerInv(j, b)'
    <2>1. jobs[j].checkpoint.run # NoRun => Progresses(jobs[j].checkpoint.run)
      BY DEF Progresses
    <2>. QED
      BY <2>1, OtherAttempts
  <1>. QED
    BY <1>1, <1>2, <1>3, <1>4, <1>5 DEF Inv

(* The same for a worker whose job does not change either. *)
LEMMA WorkerMoves ==
  ASSUME Inv, NEW j \in Jobs, NEW a \in Attempts, NEW w \in Worker,
         UNCHANGED <<runs, proposals, suppressed, source, reviews, reappear, receipts,
                     jobs, faults>>,
         Becomes(j, a, w), WorkerInv(j, a)'
  PROVE  Inv'
  <1>1. TypeOK /\ JobInv(j)
    BY DEF Inv
  <1>2. /\ workers' \in [Jobs -> [Attempts -> Worker]]
        /\ \A b \in Attempts \ {a} : workers'[j][b] = workers[j][b]
        /\ \A i \in Jobs \ {j} : workers'[i] = workers[i]
    BY <1>1, Becoming
  <1>3. \A b \in Attempts \ {a} : Owns(j, b)' => Owns(j, b)
    BY DEF Owns
  <1>4. /\ jobs'[j].state = "none" => jobs'[j].attempt = 0
        /\ jobs'[j].state = "queued" => jobs'[j].attempt < MaxAttempts
        /\ jobs'[j].state = "completed" =>
             jobs[j].checkpoint.run # NoRun
             /\ runs[jobs[j].checkpoint.run].state \in Settled
    BY <1>1 DEF JobInv
  <1>5. /\ jobs' \in [Jobs -> [state : JobStates, attempt : 0 .. MaxAttempts,
                             checkpoint : Checkpoint]]
        /\ faults' \in 0 .. MaxFaults
        /\ \A i \in Jobs : jobs'[i] = jobs[i]
    BY <1>1 DEF TypeOK
  <1>. QED
    BY <1>2, <1>3, <1>4, <1>5, JobMoves

(* A worker that ended. *)
LEMMA IdleInv ==
  ASSUME NEW j \in Jobs, NEW a \in Attempts, workers'[j][a] = Idle
  PROVE  WorkerInv(j, a)'
  BY DEF WorkerInv, Idle, NoCheckpoint

LEMMA StartCheckInv ==
  ASSUME Inv, NEW j \in Jobs, StartTicketSourceImportCheck(j)
  PROVE  Inv'
  <1>1. TypeOK /\ JobInv(j) /\ 1 \in Attempts /\ WorkerInv(j, 1)
    BY ImportAssumption DEF Inv, Attempts
  <1>2. jobs' = [jobs EXCEPT ![j].state = "queued"] /\ "queued" \in JobStates
    BY DEF StartTicketSourceImportCheck, JobStates
  <1>3. /\ jobs' \in [Jobs -> [state : JobStates, attempt : 0 .. MaxAttempts,
                               checkpoint : Checkpoint]]
        /\ jobs'[j].checkpoint = jobs[j].checkpoint
        /\ jobs'[j].state = "queued"
        /\ jobs'[j].attempt = jobs[j].attempt
        /\ \A i \in Jobs \ {j} : jobs'[i] = jobs[i]
    BY <1>1, <1>2, Stopping
  <1>4. jobs[j].attempt = 0
    BY <1>1 DEF JobInv, StartTicketSourceImportCheck
  <1>5. \A b \in Attempts : ~Owns(j, b)'
    BY <1>3 DEF Owns
  <1>6. UNCHANGED <<runs, proposals, suppressed, source, reviews, reappear, receipts,
                    workers, faults>>
    BY DEF StartTicketSourceImportCheck
  <1>7. WorkerInv(j, 1)'
    BY <1>1, <1>3, <1>5, <1>6 DEF WorkerInv
  <1>8. /\ workers' \in [Jobs -> [Attempts -> Worker]]
        /\ faults' \in 0 .. MaxFaults
        /\ 0 < MaxAttempts
    BY <1>1, <1>6, ImportAssumption DEF TypeOK
  <1>. QED
    BY <1>1, <1>3, <1>4, <1>5, <1>6, <1>7, <1>8, JobMoves

LEMMA ClaimNextInv ==
  ASSUME Inv, NEW j \in Jobs, ClaimNext(j)
  PROVE  Inv'
  <1>1. TypeOK /\ JobInv(j)
    BY DEF Inv
  <1>2. /\ jobs[j].attempt \in 0 .. MaxAttempts
        /\ jobs[j].attempt < MaxAttempts
        /\ jobs[j].checkpoint \in Checkpoint
        /\ jobs[j].state = "queued"
    BY <1>1 DEF TypeOK, JobInv, ClaimNext
  <1> SUFFICES ASSUME NEW a \in Attempts, a = jobs[j].attempt + 1
               PROVE  Inv'
    BY <1>2, ImportAssumption DEF Attempts
  <1>3. a \in 0 .. MaxAttempts /\ "running" \in JobStates
    BY ImportAssumption DEF Attempts, JobStates
  <1> DEFINE w == [Idle EXCEPT !.step = "claimed", !.checkpoint = jobs[j].checkpoint]
  <1>4. w \in Worker
    BY <1>2, IdleTyped DEF Worker, Steps
  <1> HIDE DEF w
  <1>5. /\ jobs' = [jobs EXCEPT ![j].state = "running", ![j].attempt = a]
        /\ Becomes(j, a, w)
        /\ UNCHANGED <<runs, proposals, suppressed, source, reviews, reappear,
                       receipts, faults>>
    BY DEF ClaimNext, w
  <1>6. /\ jobs' \in [Jobs -> [state : JobStates, attempt : 0 .. MaxAttempts,
                               checkpoint : Checkpoint]]
        /\ jobs'[j].checkpoint = jobs[j].checkpoint
        /\ jobs'[j].state = "running"
        /\ jobs'[j].attempt = a
        /\ \A i \in Jobs \ {j} : jobs'[i] = jobs[i]
    BY <1>1, <1>3, <1>5 DEF TypeOK
  <1>7. /\ workers' \in [Jobs -> [Attempts -> Worker]]
        /\ workers'[j][a] = w
        /\ \A b \in Attempts \ {a} : workers'[j][b] = workers[j][b]
        /\ \A i \in Jobs \ {j} : workers'[i] = workers[i]
    BY <1>1, <1>3, <1>4, <1>5, Becoming
  <1>8. \A b \in Attempts \ {a} : ~Owns(j, b)'
    BY <1>6 DEF Owns
  <1>9. WorkerInv(j, a)'
    <2>1. workers'[j][a].step = "claimed" /\ workers'[j][a].checkpoint = jobs'[j].checkpoint
      BY <1>6, <1>7 DEF w, Idle
    <2>2. /\ jobs[j].checkpoint.run = NoRun => jobs[j].checkpoint = NoCheckpoint
          /\ jobs[j].checkpoint.run # NoRun => jobs[j].checkpoint.revision > 0
          /\ jobs[j].checkpoint.phase = "noop_checkpoint" =>
                runs[jobs[j].checkpoint.run].state # "validating"
      BY <1>1 DEF JobInv
    <2>3. runs' = runs
      BY <1>5
    <2>. QED
      BY <1>6, <2>1, <2>2, <2>3 DEF WorkerInv
  <1>10. faults' \in 0 .. MaxFaults
    BY <1>1, <1>5 DEF TypeOK
  <1>. QED
    BY <1>3, <1>5, <1>6, <1>7, <1>8, <1>9, <1>10, JobMoves

(* Requeued, as far as JobMoves needs it. *)
LEMMA Requeuing ==
  ASSUME TypeOK, NEW j \in Jobs, Requeued(j)
  PROVE  /\ jobs' \in [Jobs -> [state : JobStates, attempt : 0 .. MaxAttempts,
                                checkpoint : Checkpoint]]
         /\ jobs'[j].checkpoint = jobs[j].checkpoint
         /\ jobs'[j].state \in {"queued", "failed"}
         /\ jobs'[j].attempt = jobs[j].attempt
         /\ jobs'[j].state = "queued" => jobs[j].attempt < MaxAttempts
         /\ \A i \in Jobs \ {j} : jobs'[i] = jobs[i]
  <1> DEFINE s == IF jobs[j].attempt < MaxAttempts THEN "queued" ELSE "failed"
  <1>1. s \in JobStates /\ s \in {"queued", "failed"}
        /\ (s = "queued" => jobs[j].attempt < MaxAttempts)
    BY DEF JobStates
  <1>2. jobs' = [jobs EXCEPT ![j].state = s]
    BY DEF Requeued
  <1> HIDE DEF s
  <1>. QED
    BY <1>1, <1>2, Stopping

LEMMA LoseClaimInv ==
  ASSUME Inv, NEW j \in Jobs, LoseClaim(j)
  PROVE  Inv'
  <1>1. TypeOK /\ 1 \in Attempts /\ WorkerInv(j, 1)
    BY ImportAssumption DEF Inv, Attempts
  <1>2. /\ Requeued(j)
        /\ UNCHANGED <<runs, proposals, suppressed, source, reviews, reappear,
                       receipts, workers>>
    BY DEF LoseClaim
  <1>3. /\ jobs' \in [Jobs -> [state : JobStates, attempt : 0 .. MaxAttempts,
                                checkpoint : Checkpoint]]
        /\ jobs'[j].checkpoint = jobs[j].checkpoint
        /\ jobs'[j].state \in {"queued", "failed"}
        /\ jobs'[j].attempt = jobs[j].attempt
        /\ jobs'[j].state = "queued" => jobs[j].attempt < MaxAttempts
        /\ \A i \in Jobs \ {j} : jobs'[i] = jobs[i]
    BY <1>1, <1>2, Requeuing
  <1>4. \A b \in Attempts : ~Owns(j, b)'
    BY <1>3 DEF Owns
  <1>5. WorkerInv(j, 1)'
    BY <1>1, <1>2, <1>3, <1>4 DEF WorkerInv
  <1>6. faults' \in 0 .. MaxFaults /\ workers' \in [Jobs -> [Attempts -> Worker]]
    BY <1>1, <1>2, ImportAssumption DEF LoseClaim, TypeOK
  <1>. QED
    BY <1>1, <1>2, <1>3, <1>4, <1>5, <1>6, JobMoves

LEMMA FailClaimInv ==
  ASSUME Inv, NEW j \in Jobs, NEW retryable \in BOOLEAN, FailClaim(j, retryable)
  PROVE  Inv'
  <1>1. TypeOK /\ 1 \in Attempts /\ WorkerInv(j, 1)
    BY ImportAssumption DEF Inv, Attempts
  <1>2. UNCHANGED <<runs, proposals, suppressed, source, reviews, reappear,
                    receipts, workers, faults>>
    BY DEF FailClaim
  <1>3. /\ jobs' \in [Jobs -> [state : JobStates, attempt : 0 .. MaxAttempts,
                                checkpoint : Checkpoint]]
        /\ jobs'[j].checkpoint = jobs[j].checkpoint
        /\ jobs'[j].state \in {"queued", "failed"}
        /\ jobs'[j].attempt = jobs[j].attempt
        /\ jobs'[j].state = "queued" => jobs[j].attempt < MaxAttempts
        /\ \A i \in Jobs \ {j} : jobs'[i] = jobs[i]
    <2>1. CASE retryable
      <3>1. Requeued(j)
        BY <2>1 DEF FailClaim
      <3>. QED
        BY <1>1, <3>1, Requeuing
    <2>2. CASE ~retryable
      <3>1. jobs' = [jobs EXCEPT ![j].state = "failed"] /\ "failed" \in JobStates
        BY <2>2 DEF FailClaim, JobStates
      <3>. QED
        BY <1>1, <3>1, Stopping
    <2>. QED
      BY <2>1, <2>2
  <1>4. \A b \in Attempts : ~Owns(j, b)'
    BY <1>3 DEF Owns
  <1>5. WorkerInv(j, 1)'
    BY <1>1, <1>2, <1>3, <1>4 DEF WorkerInv
  <1>6. faults' \in 0 .. MaxFaults /\ workers' \in [Jobs -> [Attempts -> Worker]]
    BY <1>1, <1>2 DEF TypeOK
  <1>. QED
    BY <1>1, <1>2, <1>3, <1>4, <1>5, <1>6, JobMoves

LEMMA StumbleInv ==
  ASSUME Inv, NEW j \in Jobs, NEW a \in Attempts, Stumble(j, a)
  PROVE  Inv'
  <1>1. TypeOK /\ JobInv(j)
    BY DEF Inv
  <1>2. /\ Becomes(j, a, Idle)
        /\ UNCHANGED <<runs, proposals, suppressed, source, reviews, reappear,
                       receipts, jobs>>
    BY DEF Stumble
  <1>3. /\ workers' \in [Jobs -> [Attempts -> Worker]]
        /\ workers'[j][a] = Idle
        /\ \A b \in Attempts \ {a} : workers'[j][b] = workers[j][b]
        /\ \A i \in Jobs \ {j} : workers'[i] = workers[i]
    BY <1>1, <1>2, IdleTyped, Becoming
  <1>4. WorkerInv(j, a)'
    BY <1>3, IdleInv
  <1>5. faults' \in 0 .. MaxFaults
    BY <1>1, ImportAssumption DEF Stumble, TypeOK
  <1>6. \A b \in Attempts : Owns(j, b)' => Owns(j, b)
    BY <1>2 DEF Owns
  <1>7. /\ jobs' \in [Jobs -> [state : JobStates, attempt : 0 .. MaxAttempts,
                              checkpoint : Checkpoint]]
        /\ jobs'[j].state = "none" => jobs'[j].attempt = 0
        /\ jobs'[j].state = "queued" => jobs'[j].attempt < MaxAttempts
        /\ jobs'[j].state = "completed" =>
             jobs[j].checkpoint.run # NoRun
             /\ runs[jobs[j].checkpoint.run].state \in Settled
    BY <1>1, <1>2 DEF TypeOK, JobInv
  <1>. QED
    BY <1>2, <1>3, <1>4, <1>5, <1>6, <1>7, JobMoves

LEMMA RefusedInv ==
  ASSUME Inv, NEW j \in Jobs, NEW a \in Attempts, Refused(j, a)
  PROVE  Inv'
  <1>1. TypeOK
    BY DEF Inv
  <1>2. /\ Becomes(j, a, Idle)
        /\ UNCHANGED <<runs, proposals, suppressed, source, reviews, reappear,
                       receipts, jobs, faults>>
    BY DEF Refused
  <1>3. workers'[j][a] = Idle
    BY <1>1, <1>2, IdleTyped, Becoming
  <1>4. WorkerInv(j, a)'
    BY <1>3, IdleInv
  <1>. QED
    BY <1>2, <1>4, IdleTyped, WorkerMoves

LEMMA CompleteInv ==
  ASSUME Inv, NEW j \in Jobs, NEW a \in Attempts, Complete(j, a)
  PROVE  Inv'
  <1>1. TypeOK /\ JobInv(j) /\ WorkerInv(j, a)
    BY DEF Inv
  <1>2. /\ Becomes(j, a, Idle)
        /\ UNCHANGED <<runs, proposals, suppressed, source, reviews, reappear,
                       receipts, faults>>
        /\ jobs' = [jobs EXCEPT ![j].state = "completed"] /\ "completed" \in JobStates
    BY DEF Complete, JobStates
  <1>3. /\ workers' \in [Jobs -> [Attempts -> Worker]]
        /\ workers'[j][a] = Idle
        /\ \A b \in Attempts \ {a} : workers'[j][b] = workers[j][b]
        /\ \A i \in Jobs \ {j} : workers'[i] = workers[i]
    BY <1>1, <1>2, IdleTyped, Becoming
  <1>4. WorkerInv(j, a)'
    BY <1>3, IdleInv
  <1>5. faults' \in 0 .. MaxFaults
    BY <1>1, <1>2 DEF TypeOK
  <1>6. /\ jobs' \in [Jobs -> [state : JobStates, attempt : 0 .. MaxAttempts,
                                checkpoint : Checkpoint]]
        /\ jobs'[j].checkpoint = jobs[j].checkpoint
        /\ jobs'[j].state = "completed"
        /\ \A i \in Jobs \ {j} : jobs'[i] = jobs[i]
    BY <1>1, <1>2, Stopping
  <1>7. \A b \in Attempts : ~Owns(j, b)'
    BY <1>6 DEF Owns
  <1>8. /\ jobs[j].checkpoint.run # NoRun
        /\ runs[jobs[j].checkpoint.run].state \in Settled
    BY <1>1 DEF Complete, At, WorkerInv, NoCheckpoint
  <1>. QED
    BY <1>2, <1>3, <1>4, <1>5, <1>6, <1>7, <1>8, JobMoves

LEMMA ResumeInv ==
  ASSUME Inv, NEW j \in Jobs, NEW a \in Attempts, Resume(j, a)
  PROVE  Inv'
  <1> DEFINE phase == Held(j, a).phase
             s == CASE phase \in {"validating", "staging"} -> "stage"
                    [] phase = "publishing" -> "publish"
                    [] OTHER -> "record"
             w == [workers[j][a] EXCEPT !.step = s]
  <1>1. TypeOK /\ WorkerInv(j, a) /\ workers[j][a] \in Worker
    BY DEF Inv, TypeOK
  <1>2. /\ s \in {"stage", "publish", "record"}
        /\ s = "publish" => phase = "publishing"
    OBVIOUS
  <1>3. w \in Worker
    BY <1>1, <1>2 DEF Worker, Steps
  <1>4. /\ Becomes(j, a, w)
        /\ UNCHANGED <<runs, proposals, suppressed, source, reviews, reappear,
                       receipts, jobs, faults>>
        /\ workers[j][a].step = "claimed"
        /\ phase # "none"
    BY DEF Resume, At
  <1> HIDE DEF s, w
  <1>5. workers'[j][a] = w
    BY <1>1, <1>3, <1>4, Becoming
  <1>6. /\ workers'[j][a].step = s
        /\ workers'[j][a].checkpoint = workers[j][a].checkpoint
        /\ workers[j][a].checkpoint.run # NoRun
    BY <1>1, <1>4, <1>5 DEF w, Worker, WorkerInv, Held, NoCheckpoint
  <1>7. WorkerInv(j, a)'
    BY <1>1, <1>2, <1>4, <1>6 DEF WorkerInv, Owns, Held
  <1>. QED
    BY <1>3, <1>4, <1>7, WorkerMoves

LEMMA PreflightInv ==
  ASSUME Inv, NEW j \in Jobs, NEW a \in Attempts, NEW raw \in SUBSET Materials,
         Preflight(j, a, raw)
  PROVE  Inv'
  <1> DEFINE w == [workers[j][a] EXCEPT !.step = "commit", !.seen = source, !.raw = raw,
                                        !.kept = raw \ suppressed]
  <1>1. TypeOK /\ WorkerInv(j, a) /\ workers[j][a] \in Worker /\ source \in Source
    BY DEF Inv, TypeOK
  <1>3. w \in Worker
    BY <1>1 DEF Worker, Steps
  <1>4. /\ Becomes(j, a, w)
        /\ UNCHANGED <<runs, proposals, suppressed, source, reviews, reappear,
                       receipts, jobs, faults>>
        /\ workers[j][a].step = "publish"
        /\ CanPreflight(j, a)
        /\ Classification(RunOf(j, a)) \in NoopClasses => raw = {}
    BY DEF Preflight, At
  <1> HIDE DEF w
  <1>5. workers'[j][a] = w
    BY <1>1, <1>3, <1>4, Becoming
  <1>6. /\ workers'[j][a].step = "commit"
        /\ workers'[j][a].checkpoint = workers[j][a].checkpoint
        /\ workers'[j][a].seen = source
        /\ workers'[j][a].kept = raw \ suppressed
    BY <1>1, <1>5 DEF w, Worker
  <1>7. classify_replay(runs[Held(j, a).run].chronology, Held(j, a).fingerprint, source)
            \in NoopClasses => raw = {}
    BY <1>4 DEF CanPreflight, Classification, RunOf
  <1>8. WorkerInv(j, a)'
    BY <1>1, <1>4, <1>6, <1>7 DEF WorkerInv, Owns, Held
  <1>. QED
    BY <1>3, <1>4, <1>8, WorkerMoves

(* The run a worker works on. *)
LEMMA HeldRun ==
  ASSUME Inv, NEW j \in Jobs, NEW a \in Attempts,
         ~At(j, a, "ended"), ~At(j, a, "claimed")
  PROVE  /\ RunOf(j, a) \in RunIds
         /\ RunOf(j, a) = jobs[j].checkpoint.run
         /\ RunOf(j, a) # NoRun
         /\ runs[RunOf(j, a)].job = j
         /\ runs[RunOf(j, a)].state # "none"
         /\ runs[RunOf(j, a)].revision > 0
         /\ RunInv(RunOf(j, a))
  <1>1. TypeOK /\ WorkerInv(j, a) /\ JobInv(j) /\ workers[j][a] \in Worker
    BY DEF Inv, TypeOK
  <1>2. RunOf(j, a) \in RunIds /\ RunOf(j, a) # NoRun
    BY <1>1 DEF WorkerInv, RunOf, Held, At, Worker, Checkpoint
  <1>3. RunInv(RunOf(j, a))
    BY <1>2 DEF Inv
  <1>. QED
    BY <1>1, <1>2, <1>3 DEF WorkerInv, JobInv, RunOf, Held, RunInv

LEMMA AdoptInv ==
  ASSUME Inv, NEW j \in Jobs, NEW a \in Attempts, Adopt(j, a)
  PROVE  Inv'
  <1> DEFINE run == runs[RunOf(j, a)]
             w == [workers[j][a] EXCEPT
                     !.step = IF run.state = "noop_pending_checkpoint"
                              THEN "noop" ELSE "complete",
                     !.checkpoint.revision = run.revision]
  <1>1. TypeOK /\ WorkerInv(j, a) /\ workers[j][a] \in Worker
    BY DEF Inv, TypeOK
  <1>2. /\ RunOf(j, a) \in RunIds /\ run.state # "none" /\ run.revision > 0
        /\ RunOf(j, a) # NoRun
    BY HeldRun DEF Adopt, At
  <1>3. run \in Run /\ run.revision \in Nat
    BY <1>1, <1>2 DEF TypeOK, Run
  <1>4. w \in Worker
    BY <1>1, <1>3 DEF Worker, Steps, Checkpoint
  <1>5. /\ Becomes(j, a, w)
        /\ UNCHANGED <<runs, proposals, suppressed, source, reviews, reappear,
                       receipts, jobs, faults>>
        /\ run.state # "validating"
    BY DEF Adopt, CanAdopt
  <1> HIDE DEF w
  <1>6. workers'[j][a] = w
    BY <1>1, <1>4, <1>5, Becoming
  <1>7. /\ workers'[j][a].step \in {"noop", "complete"}
        /\ workers'[j][a].step = "complete" => run.state # "noop_pending_checkpoint"
        /\ workers'[j][a].checkpoint.revision = run.revision
        /\ workers'[j][a].checkpoint.run = RunOf(j, a)
    BY <1>1, <1>6 DEF w, Worker, Checkpoint, RunOf, Held
  <1>8. run.state \in RunStates
    BY <1>3 DEF Run
  <1>9. WorkerInv(j, a)'
    BY <1>1, <1>2, <1>5, <1>7, <1>8 DEF WorkerInv, RunOf, Held, RunStates, Settled
  <1>. QED
    BY <1>4, <1>5, <1>9, WorkerMoves

LEMMA SeeSourceInv ==
  ASSUME Inv, NEW j \in Jobs, NEW a \in Attempts, SeeSource(j, a)
  PROVE  Inv'
  <1> DEFINE w == [workers[j][a] EXCEPT !.step = "note", !.seen = source]
  <1>1. TypeOK /\ WorkerInv(j, a) /\ workers[j][a] \in Worker /\ source \in Source
    BY DEF Inv, TypeOK
  <1>2. w \in Worker
    BY <1>1 DEF Worker, Steps
  <1>3. /\ Becomes(j, a, w)
        /\ UNCHANGED <<runs, proposals, suppressed, source, reviews, reappear,
                       receipts, jobs, faults>>
        /\ workers[j][a].step = "noop"
    BY DEF SeeSource, At
  <1> HIDE DEF w
  <1>4. workers'[j][a] = w
    BY <1>1, <1>2, <1>3, Becoming
  <1>5. /\ workers'[j][a].step = "note"
        /\ workers'[j][a].checkpoint = workers[j][a].checkpoint
    BY <1>1, <1>4 DEF w, Worker
  <1>6. WorkerInv(j, a)'
    BY <1>1, <1>3, <1>5 DEF WorkerInv, Owns
  <1>. QED
    BY <1>2, <1>3, <1>6, WorkerMoves

LEMMA ReplayInv ==
  ASSUME Inv, NEW j \in Jobs, NEW a \in Attempts, ReplayNewerIdentical(j, a)
  PROVE  Inv'
  <1> DEFINE w == [workers[j][a] EXCEPT !.step = "complete"]
  <1>1. TypeOK /\ WorkerInv(j, a) /\ workers[j][a] \in Worker
    BY DEF Inv, TypeOK
  <1>2. RunOf(j, a) \in RunIds /\ RunInv(RunOf(j, a)) /\ RunOf(j, a) # NoRun
    BY HeldRun DEF ReplayNewerIdentical, At
  <1>3. w \in Worker
    BY <1>1 DEF Worker, Steps
  <1>4. /\ Becomes(j, a, w)
        /\ UNCHANGED <<runs, proposals, suppressed, source, reviews, reappear,
                       receipts, jobs, faults>>
        /\ CanReplay(j, a)
    BY DEF ReplayNewerIdentical
  <1> HIDE DEF w
  <1>5. workers'[j][a] = w
    BY <1>1, <1>3, <1>4, Becoming
  <1>6. /\ workers'[j][a].step = "complete"
        /\ workers'[j][a].checkpoint = workers[j][a].checkpoint
    BY <1>1, <1>5 DEF w, Worker
  <1>7. Held(j, a).revision > 0
    BY <1>1, <1>2 DEF WorkerInv, RunOf, Held
  <1>8. Request(j, a) # NoReceipt
    BY <1>7 DEF Request, NoReceipt
  <1>9. runs[RunOf(j, a)].state = "noop"
    BY <1>2, <1>4, <1>8 DEF CanReplay, RunInv
  <1>10. WorkerInv(j, a)'
    BY <1>1, <1>2, <1>4, <1>6, <1>9 DEF WorkerInv, RunOf, Held, Settled, Terminal, Owns
  <1>. QED
    BY <1>3, <1>4, <1>10, WorkerMoves

(* A step of attempt a of job j that changes at most the job's run r. *)
LEMMA Others ==
  ASSUME Inv, NEW j \in Jobs, NEW a \in Attempts, NEW r \in RunIds,
         jobs[j].checkpoint.run = r,
         \A q \in RunIds \ {r} :
             /\ runs'[q] = runs[q] /\ proposals'[q] = proposals[q]
             /\ receipts'[q] = receipts[q] /\ (q \in reappear' <=> q \in reappear),
         \A i \in Jobs \ {j} : jobs'[i] = jobs[i] /\ workers'[i] = workers[i],
         \A b \in Attempts \ {a} : workers'[j][b] = workers[j][b],
         jobs'[j].checkpoint.run = r,
         \A b \in Attempts \ {a} : Owns(j, b)' =>
             Owns(j, b) /\ jobs'[j].checkpoint = jobs[j].checkpoint,
         Progresses(r)
  PROVE  /\ \A q \in RunIds \ {r} : RunInv(q)'
         /\ \A i \in Jobs \ {j} : JobInv(i)' /\ \A b \in Attempts : WorkerInv(i, b)'
         /\ \A b \in Attempts \ {a} : WorkerInv(j, b)'
         /\ runs'[r].job # NoRun => jobs'[runs'[r].job].checkpoint.run = r
  <1>0. TypeOK /\ JobInv(j) /\ r # NoRun /\ runs[r].job = j
    BY ImportAssumption DEF Inv, JobInv
  <1>1. ASSUME NEW q \in RunIds \ {r} PROVE RunInv(q)'
    <2>1. RunInv(q) /\ runs[q].job \in Jobs \cup {NoRun}
      BY <1>0 DEF Inv, TypeOK, Run
    <2>2. runs[q].job # NoRun => jobs'[runs[q].job].checkpoint.run = q
      BY <1>0, <2>1 DEF RunInv
    <2>. QED
      BY <2>1, <2>2 DEF RunInv, In
  <1>2. \A i \in Jobs \ {j} : JobInv(i)' /\ \A b \in Attempts : WorkerInv(i, b)'
    <2>1. ASSUME NEW i \in Jobs \ {j}, jobs[i].checkpoint.run # NoRun
          PROVE  runs'[jobs[i].checkpoint.run] = runs[jobs[i].checkpoint.run]
      <3>1. JobInv(i) /\ jobs[i].checkpoint.run \in RunIds
        BY <1>0, <2>1 DEF Inv, TypeOK, Checkpoint
      <3>. QED
        BY <1>0, <2>1, <3>1 DEF JobInv
    <2>. QED
      BY <2>1, OtherJobs
  <1>3. \A b \in Attempts \ {a} : WorkerInv(j, b)'
    BY OtherAttempts
  <1>. QED
    BY <1>0, <1>1, <1>2, <1>3 DEF Progresses

(* The owner rewrites its checkpoint and nothing of the import. *)
LEMMA Rewrites ==
  ASSUME Inv, NEW j \in Jobs, NEW a \in Attempts, NEW w \in Worker,
         NEW c \in Checkpoint, Owns(j, a), Saved(j, c), Becomes(j, a, w),
         UNCHANGED <<runs, proposals, suppressed, source, reviews, reappear,
                     receipts, faults>>,
         c.run # NoRun, c.run = jobs[j].checkpoint.run,
         JobInv(j)', WorkerInv(j, a)'
  PROVE  Inv'
  <1>1. TypeOK /\ c.run \in RunIds
    BY DEF Inv, Checkpoint
  <1>2. /\ jobs' \in [Jobs -> [state : JobStates, attempt : 0 .. MaxAttempts,
                                checkpoint : Checkpoint]]
        /\ jobs'[j].checkpoint = c
        /\ jobs'[j].state = jobs[j].state
        /\ jobs'[j].attempt = jobs[j].attempt
        /\ \A i \in Jobs \ {j} : jobs'[i] = jobs[i]
    BY <1>1, Saving
  <1>3. /\ workers' \in [Jobs -> [Attempts -> Worker]]
        /\ \A b \in Attempts \ {a} : workers'[j][b] = workers[j][b]
        /\ \A i \in Jobs \ {j} : workers'[i] = workers[i]
    BY <1>1, Becoming
  <1>4. \A b \in Attempts \ {a} : ~Owns(j, b)'
    BY <1>2 DEF Owns
  <1>5. Progresses(c.run)
    BY DEF Progresses
  <1>6. /\ \A i \in Jobs \ {j} : JobInv(i)' /\ \A b \in Attempts : WorkerInv(i, b)'
        /\ \A b \in Attempts \ {a} : WorkerInv(j, b)'
    BY <1>1, <1>2, <1>3, <1>4, <1>5, Others
  <1>7. (\A r \in RunIds : RunInv(r)') /\ SourceInv'
    BY <1>2, SameRuns
  <1>8. TypeOK'
    BY <1>1, <1>2, <1>3 DEF TypeOK
  <1>. QED
    BY <1>6, <1>7, <1>8 DEF Inv

LEMMA VerifyInv ==
  ASSUME Inv, NEW j \in Jobs, NEW a \in Attempts, Verify(j, a)
  PROVE  Inv'
  <1> DEFINE r == RunOf(j, a)
             c == [Held(j, a) EXCEPT !.phase = "publishing",
                                     !.fingerprint = Fingerprint(RunOf(j, a))]
             w == [workers[j][a] EXCEPT !.step = "publish", !.checkpoint = c]
  <1>1. /\ TypeOK /\ WorkerInv(j, a) /\ JobInv(j) /\ workers[j][a] \in Worker
        /\ Held(j, a) \in Checkpoint
    BY DEF Inv, TypeOK, Held, Worker
  <1>2. r \in RunIds /\ r # NoRun /\ r = jobs[j].checkpoint.run
    BY HeldRun DEF Verify, At
  <1>3. Fingerprint(r) \in Fingerprints
    BY <1>1, <1>2 DEF TypeOK, Run, Fingerprint, Fingerprints
  <1>4. c \in Checkpoint
    BY <1>1, <1>3 DEF Checkpoint, Phases
  <1>5. w \in Worker
    BY <1>1, <1>4 DEF Worker, Steps
  <1>6. /\ Owns(j, a) /\ Saved(j, c) /\ Becomes(j, a, w)
        /\ UNCHANGED <<runs, proposals, suppressed, source, reviews, reappear,
                       receipts, faults>>
        /\ workers[j][a].step = "verify"
    BY DEF Verify, CanStage, At
  <1>7. /\ c.run = r /\ c.next = Held(j, a).next /\ c.revision = Held(j, a).revision
        /\ c.phase = "publishing"
    BY <1>1 DEF RunOf, Checkpoint
  <1>8. /\ Held(j, a) = jobs[j].checkpoint
        /\ Held(j, a).next = Batches
    BY <1>1, <1>6 DEF WorkerInv, Held
  <1> HIDE DEF c, w, r
  <1>9. /\ jobs'[j].checkpoint = c
        /\ jobs'[j].state = jobs[j].state
        /\ jobs'[j].attempt = jobs[j].attempt
    BY <1>1, <1>4, <1>6, Saving
  <1>10. JobInv(j)'
    BY <1>1, <1>2, <1>6, <1>7, <1>8, <1>9, ImportAssumption DEF JobInv
  <1>11. workers'[j][a] = w
    BY <1>1, <1>5, <1>6, Becoming
  <1>12. workers'[j][a].step = "publish" /\ workers'[j][a].checkpoint = c
    BY <1>1, <1>11 DEF w, Worker
  <1>13. c.revision > 0
    BY <1>1, <1>2, <1>7, <1>8 DEF JobInv
  <1>14. WorkerInv(j, a)'
    BY <1>2, <1>7, <1>9, <1>12, <1>13 DEF WorkerInv
  <1>. QED
    BY <1>2, <1>4, <1>5, <1>6, <1>7, <1>10, <1>14, Rewrites

LEMMA NoteSourceInv ==
  ASSUME Inv, NEW j \in Jobs, NEW a \in Attempts, NoteSource(j, a)
  PROVE  Inv'
  <1> DEFINE r == RunOf(j, a)
             c == [Held(j, a) EXCEPT !.phase = "noop_checkpoint",
                                     !.source = workers[j][a].seen.revision]
             w == [Idle EXCEPT !.step = "record", !.checkpoint = c]
  <1>1. /\ TypeOK /\ WorkerInv(j, a) /\ JobInv(j) /\ workers[j][a] \in Worker
        /\ Held(j, a) \in Checkpoint /\ workers[j][a].seen.revision \in Nat
    BY DEF Inv, TypeOK, Held, Worker, Source
  <1>2. /\ r \in RunIds /\ r # NoRun /\ r = jobs[j].checkpoint.run
        /\ runs[r].job = j /\ runs[r].state # "none"
    BY HeldRun DEF NoteSource, At
  <1>4. c \in Checkpoint
    BY <1>1 DEF Checkpoint, Phases
  <1>5. w \in Worker
    BY <1>4, IdleTyped DEF Worker, Steps
  <1>6. /\ Owns(j, a) /\ Saved(j, c) /\ Becomes(j, a, w)
        /\ UNCHANGED <<runs, proposals, suppressed, source, reviews, reappear,
                       receipts, faults>>
        /\ workers[j][a].step = "note"
    BY DEF NoteSource, At
  <1>7. /\ c.run = r /\ c.revision = Held(j, a).revision
        /\ c.phase = "noop_checkpoint"
    BY <1>1 DEF RunOf, Checkpoint
  <1>8. runs[r].state # "validating" /\ Held(j, a).revision > 0
    BY <1>1, <1>2, <1>6 DEF WorkerInv, Held, RunOf
  <1> HIDE DEF c, w, r
  <1>9. /\ jobs'[j].checkpoint = c
        /\ jobs'[j].state = jobs[j].state
        /\ jobs'[j].attempt = jobs[j].attempt
    BY <1>1, <1>4, <1>6, Saving
  <1>10. JobInv(j)'
    BY <1>1, <1>2, <1>6, <1>7, <1>8, <1>9 DEF JobInv
  <1>11. workers'[j][a] = w
    BY <1>1, <1>5, <1>6, Becoming
  <1>12. workers'[j][a].step = "record" /\ workers'[j][a].checkpoint = c
    BY <1>11 DEF w, Idle
  <1>14. WorkerInv(j, a)'
    BY <1>2, <1>6, <1>7, <1>8, <1>9, <1>12 DEF WorkerInv
  <1>. QED
    BY <1>2, <1>4, <1>5, <1>6, <1>7, <1>10, <1>14, Rewrites

LEMMA StageBatchInv ==
  ASSUME Inv, NEW j \in Jobs, NEW a \in Attempts, StageBatch(j, a)
  PROVE  Inv'
  <1>0. RunOf(j, a) \in RunIds
    BY HeldRun DEF StageBatch, At
  <1> SUFFICES ASSUME NEW r \in RunIds, r = RunOf(j, a)
               PROVE  Inv'
    BY <1>0
  <1> DEFINE more == Held(j, a).next < Batches
             next == IF more THEN Held(j, a).next + 1 ELSE Held(j, a).next
             c == [Held(j, a) EXCEPT !.phase = "staging", !.next = next]
             s == IF next = Batches THEN "verify" ELSE "stage"
             w == [workers[j][a] EXCEPT !.step = s, !.checkpoint = c]
             n == IF more THEN runs[r].rows + 1 ELSE runs[r].rows
  <1>1. /\ TypeOK /\ WorkerInv(j, a) /\ JobInv(j) /\ workers[j][a] \in Worker
        /\ Held(j, a) \in Checkpoint
    BY DEF Inv, TypeOK, Held, Worker
  <1>2. /\ r # NoRun /\ r = jobs[j].checkpoint.run
        /\ runs[r].job = j /\ RunInv(r)
    BY HeldRun DEF StageBatch, At
  <1>3. next \in Nat /\ runs[r] \in Run /\ runs[r].rows \in Nat /\ n \in Nat
    BY <1>1, <1>2 DEF Checkpoint, TypeOK, Run
  <1>4. c \in Checkpoint
    BY <1>1, <1>3 DEF Checkpoint, Phases
  <1>5. w \in Worker
    BY <1>1, <1>4 DEF Worker, Steps
  <1>6. /\ Owns(j, a) /\ Saved(j, c) /\ Becomes(j, a, w)
        /\ UNCHANGED <<proposals, suppressed, source, reviews, reappear,
                       receipts, faults>>
        /\ workers[j][a].step = "stage"
        /\ runs[r].state = "validating"
        /\ runs' = [runs EXCEPT ![r].rows = n]
    BY DEF StageBatch, CanStage, Validating, At
  <1>7. /\ c.run = r /\ c.next = next /\ c.revision = Held(j, a).revision
        /\ c.phase = "staging"
    BY <1>1 DEF RunOf, Checkpoint
  <1>8. Held(j, a) = jobs[j].checkpoint
    BY <1>1, <1>6 DEF WorkerInv, Held
  <1>9. /\ runs[r].rows = Held(j, a).next /\ Held(j, a).next <= Batches
        /\ Held(j, a).revision > 0 /\ Held(j, a).next \in Nat
    BY <1>1, <1>2, <1>6, <1>8 DEF JobInv, Checkpoint
  <1>10. n = next /\ next <= Batches /\ (s = "verify" => next = Batches)
         /\ s \in {"stage", "verify"}
    BY <1>9, ImportAssumption
  <1> HIDE DEF c, w, s, n, next
  <1>11. /\ jobs' \in [Jobs -> [state : JobStates, attempt : 0 .. MaxAttempts,
                                checkpoint : Checkpoint]]
         /\ jobs'[j].checkpoint = c
         /\ jobs'[j].state = jobs[j].state
         /\ jobs'[j].attempt = jobs[j].attempt
         /\ \A i \in Jobs \ {j} : jobs'[i] = jobs[i]
    BY <1>1, <1>4, <1>6, Saving
  <1>12. /\ workers' \in [Jobs -> [Attempts -> Worker]]
         /\ workers'[j][a] = w
         /\ \A b \in Attempts \ {a} : workers'[j][b] = workers[j][b]
         /\ \A i \in Jobs \ {j} : workers'[i] = workers[i]
    BY <1>1, <1>5, <1>6, Becoming
  <1>13. /\ runs' \in [RunIds -> Run]
         /\ \A q \in RunIds \ {r} : runs'[q] = runs[q]
         /\ runs'[r] = [runs[r] EXCEPT !.rows = n]
    BY <1>1, <1>2, <1>3, <1>6 DEF TypeOK, Run
  <1>14. /\ runs'[r].state = "validating" /\ runs'[r].job = j /\ runs'[r].rows = n
         /\ runs'[r].chronology = runs[r].chronology
         /\ runs'[r].revision = runs[r].revision
    BY <1>2, <1>3, <1>6, <1>13 DEF Run
  <1>15. \A b \in Attempts \ {a} : ~Owns(j, b)'
    BY <1>6, <1>11 DEF Owns
  <1>16. Progresses(r)
    BY <1>2, <1>6, <1>14 DEF Progresses, Settled, Review, Terminal
  <1>17. /\ \A q \in RunIds \ {r} : RunInv(q)'
         /\ \A i \in Jobs \ {j} : JobInv(i)' /\ \A b \in Attempts : WorkerInv(i, b)'
         /\ \A b \in Attempts \ {a} : WorkerInv(j, b)'
         /\ runs'[r].job # NoRun => jobs'[runs'[r].job].checkpoint.run = r
    <2>1. \A q \in RunIds \ {r} :
             /\ runs'[q] = runs[q] /\ proposals'[q] = proposals[q]
             /\ receipts'[q] = receipts[q] /\ (q \in reappear' <=> q \in reappear)
      BY <1>6, <1>13
    <2>2. jobs[j].checkpoint.run = r /\ jobs'[j].checkpoint.run = r
      BY <1>2, <1>7, <1>11
    <2>3. /\ \A i \in Jobs \ {j} : jobs'[i] = jobs[i] /\ workers'[i] = workers[i]
          /\ \A b \in Attempts \ {a} : workers'[j][b] = workers[j][b]
      BY <1>11, <1>12
    <2>. QED
      BY <1>15, <1>16, <2>1, <2>2, <2>3, Others
  <1>18. RunInv(r)'
    BY <1>2, <1>6, <1>14, <1>17 DEF RunInv, In, Terminal, Current
  <1>19. JobInv(j)'
    BY <1>1, <1>2, <1>6, <1>7, <1>8, <1>9, <1>10, <1>11, <1>14 DEF JobInv, Owns
  <1>20. workers'[j][a].step = s /\ workers'[j][a].checkpoint = c
    BY <1>1, <1>12 DEF w, Worker
  <1>21. WorkerInv(j, a)'
    BY <1>2, <1>7, <1>9, <1>10, <1>11, <1>20 DEF WorkerInv
  <1>22. SourceInv'
    <2>1. source.revision > 0 => source.run \in RunIds /\ source.run # r
      BY <1>6 DEF Inv, SourceInv, SourceNamesFinishedRun, Terminal
    <2>. QED
      BY <1>6, <1>13, <2>1 DEF Inv, SourceInv, SourceNamesFinishedRun
  <1>23. TypeOK'
    BY <1>1, <1>6, <1>11, <1>12, <1>13 DEF TypeOK
  <1>. QED
    BY <1>17, <1>18, <1>19, <1>21, <1>22, <1>23 DEF Inv

LEMMA StartRunInv ==
  ASSUME Inv, NEW j \in Jobs, NEW a \in Attempts, NEW r \in RunIds,
         NEW t \in Chronologies, NEW d \in Contents, StartRun(j, a, r, t, d)
  PROVE  Inv'
  <1> DEFINE c == [NoCheckpoint EXCEPT !.phase = "validating", !.run = r, !.revision = 1]
             w == [workers[j][a] EXCEPT !.step = "stage", !.checkpoint = c]
             row == [NoRunRow EXCEPT !.state = "validating", !.revision = 1, !.job = j,
                                     !.chronology = t, !.content = d]
  <1>1. /\ TypeOK /\ WorkerInv(j, a) /\ JobInv(j) /\ workers[j][a] \in Worker
        /\ RunInv(r) /\ r # NoRun
    BY ImportAssumption DEF Inv, TypeOK
  <1>2. c \in Checkpoint
    BY ImportAssumption DEF Checkpoint, Phases, NoCheckpoint, Fingerprints
  <1>3. w \in Worker
    BY <1>1, <1>2 DEF Worker, Steps
  <1>4. row \in Run
    BY ImportAssumption DEF Run, NoRunRow, RunStates, Fingerprints
  <1>5. /\ Owns(j, a) /\ Saved(j, c) /\ Becomes(j, a, w)
        /\ UNCHANGED <<proposals, suppressed, source, reviews, reappear,
                       receipts, faults>>
        /\ runs[r].state = "none" /\ jobs[j].checkpoint = NoCheckpoint
        /\ runs' = [runs EXCEPT ![r] = row]
    BY DEF StartRun, CanStartRun
  <1>6. /\ c.run = r /\ c.next = 0 /\ c.revision = 1 /\ c.phase = "validating"
        /\ row.state = "validating" /\ row.job = j /\ row.rows = 0 /\ row.revision = 1
    BY DEF NoCheckpoint, NoRunRow
  <1> HIDE DEF c, w, row
  <1>7. /\ jobs' \in [Jobs -> [state : JobStates, attempt : 0 .. MaxAttempts,
                                checkpoint : Checkpoint]]
        /\ jobs'[j].checkpoint = c
        /\ jobs'[j].state = jobs[j].state
        /\ jobs'[j].attempt = jobs[j].attempt
        /\ \A i \in Jobs \ {j} : jobs'[i] = jobs[i]
    BY <1>1, <1>2, <1>5, Saving
  <1>8. /\ workers' \in [Jobs -> [Attempts -> Worker]]
        /\ workers'[j][a] = w
        /\ \A b \in Attempts \ {a} : workers'[j][b] = workers[j][b]
        /\ \A i \in Jobs \ {j} : workers'[i] = workers[i]
    BY <1>1, <1>3, <1>5, Becoming
  <1>9. /\ runs' \in [RunIds -> Run]
        /\ \A q \in RunIds \ {r} : runs'[q] = runs[q]
        /\ runs'[r] = row
    BY <1>1, <1>4, <1>5 DEF TypeOK
  <1>10. \A i \in Jobs \ {j} : JobInv(i)' /\ \A b \in Attempts : WorkerInv(i, b)'
    <2>1. ASSUME NEW i \in Jobs \ {j}, jobs[i].checkpoint.run # NoRun
          PROVE  runs'[jobs[i].checkpoint.run] = runs[jobs[i].checkpoint.run]
      <3>1. JobInv(i) /\ jobs[i].checkpoint.run \in RunIds
        BY <1>1, <2>1 DEF Inv, TypeOK, Checkpoint
      <3>. QED
        BY <1>5, <1>9, <2>1, <3>1 DEF JobInv
    <2>. QED
      BY <1>7, <1>8, <2>1, OtherJobs
  <1>11. JobInv(j)'
    BY <1>1, <1>5, <1>6, <1>7, <1>9, ImportAssumption DEF JobInv, Owns
  <1>12. ASSUME NEW b \in Attempts \ {a} PROVE WorkerInv(j, b)'
    <2>1. WorkerInv(j, b) /\ workers'[j][b] = workers[j][b] /\ ~Owns(j, b)'
      BY <1>5, <1>7, <1>8 DEF Inv, Owns
    <2>2. workers[j][b].checkpoint = NoCheckpoint /\ workers[j][b].step \in {"ended", "claimed"}
      BY <1>5, <2>1 DEF WorkerInv, NoCheckpoint
    <2>. QED
      BY <2>1, <2>2 DEF WorkerInv, NoCheckpoint
  <1>13. workers'[j][a].step = "stage" /\ workers'[j][a].checkpoint = c
    BY <1>1, <1>8 DEF w, Worker
  <1>14. WorkerInv(j, a)'
    BY <1>1, <1>6, <1>7, <1>13 DEF WorkerInv
  <1>15. ASSUME NEW q \in RunIds \ {r} PROVE RunInv(q)'
    <2>1. RunInv(q) /\ runs[q].job \in Jobs \cup {NoRun}
      BY <1>1 DEF Inv, TypeOK, Run
    <2>2. runs[q].job # NoRun => runs[q].job # j
      BY <1>5, <2>1, ImportAssumption DEF RunInv, NoCheckpoint
    <2>3. runs[q].job # NoRun => jobs'[runs[q].job].checkpoint.run = q
      BY <1>7, <2>1, <2>2 DEF RunInv
    <2>. QED
      BY <1>5, <1>9, <2>1, <2>3 DEF RunInv, In
  <1>16. RunInv(r)'
    BY <1>1, <1>5, <1>6, <1>7, <1>9 DEF RunInv, Terminal, Current
  <1>17. SourceInv'
    <2>1. source.revision > 0 => source.run \in RunIds /\ source.run # r
      BY <1>5 DEF Inv, SourceInv, SourceNamesFinishedRun, Terminal
    <2>. QED
      BY <1>5, <1>9, <2>1 DEF Inv, SourceInv, SourceNamesFinishedRun
  <1>18. TypeOK'
    BY <1>1, <1>5, <1>7, <1>8, <1>9 DEF TypeOK
  <1>. QED
    BY <1>10, <1>11, <1>12, <1>14, <1>15, <1>16, <1>17, <1>18 DEF Inv

(* What TargetState and ReappearanceDue give for each classification. *)
LEMMA TargetFacts ==
  ASSUME NEW class, NEW kept
  PROVE  /\ TargetState(class, kept) \in
               {"noop", "noop_pending_checkpoint"} \cup Review
         /\ TargetState(class, kept) \in {"noop", "noop_pending_checkpoint"} =>
               class \in NoopClasses
         /\ TargetState(class, kept) \in {"staged", "waiting_review"} <=>
               ReappearanceDue(class)
  BY DEF TargetState, Review, NoopClasses, ReappearanceDue

LEMMA PublishInv ==
  ASSUME Inv, NEW j \in Jobs, NEW a \in Attempts, Publish(j, a)
  PROVE  Inv'
  <1>0. RunOf(j, a) \in RunIds
    BY HeldRun DEF Publish, At
  <1> DEFINE class == Classification(RunOf(j, a))
             kept  == workers[j][a].kept
             state == TargetState(class, kept)
             k     == Cardinality(kept)
             old   == runs[RunOf(j, a)]
             row   == [old EXCEPT !.state = state, !.revision = @ + 1,
                                  !.fingerprint = Held(j, a).fingerprint,
                                  !.rows = IF class \in NoopClasses THEN 0 ELSE @,
                                  !.count = k, !.pending = k]
             props == [m \in Materials |-> IF m \in kept THEN "pending" ELSE "none"]
             c     == [Held(j, a) EXCEPT !.revision = @ + 1]
             s     == IF state = "noop_pending_checkpoint" THEN "noop" ELSE "complete"
             w     == [Idle EXCEPT !.step = s, !.checkpoint = c]
  <1>a. runs' = [runs EXCEPT ![RunOf(j, a)] = row]
    BY DEF Publish
  <1>b. proposals' = [proposals EXCEPT ![RunOf(j, a)] = props]
    BY DEF Publish
  <1>c. /\ workers[j][a].step = "commit" /\ CanPublish(j, a)
        /\ reappear' = IF ReappearanceDue(class) THEN reappear \cup {RunOf(j, a)}
                                                 ELSE reappear
        /\ Becomes(j, a, w)
        /\ UNCHANGED <<suppressed, source, reviews, receipts, jobs, faults>>
    BY DEF Publish, At
  <1> SUFFICES ASSUME NEW r \in RunIds, r = RunOf(j, a)
               PROVE  Inv'
    BY <1>0
  <1>1. /\ TypeOK /\ WorkerInv(j, a) /\ JobInv(j) /\ workers[j][a] \in Worker
        /\ Held(j, a) \in Checkpoint /\ RunInv(r) /\ runs[r] \in Run
    BY DEF Inv, TypeOK, Held, Worker
  <1>2. /\ r # NoRun /\ r = jobs[j].checkpoint.run
        /\ runs[r].job = j /\ runs[r].revision > 0
    BY HeldRun DEF Publish, At
  <1>3. /\ workers[j][a].step = "commit" /\ CanPublish(j, a)
        /\ runs' = [runs EXCEPT ![r] = row]
        /\ proposals' = [proposals EXCEPT ![r] = props]
        /\ reappear' = IF ReappearanceDue(class) THEN reappear \cup {r} ELSE reappear
        /\ Becomes(j, a, w)
        /\ UNCHANGED <<suppressed, source, reviews, receipts, jobs, faults>>
    <2> HIDE DEF class, row, props, w
    <2>. QED
      BY <1>a, <1>b, <1>c
  <1>4. /\ runs[r].state = "validating"
        /\ Fingerprint(r) = Held(j, a).fingerprint
        /\ source = workers[j][a].seen
        /\ Owns(j, a) /\ jobs[j].checkpoint = Held(j, a)
    BY <1>3 DEF CanPublish, CanPreflight, Validating
  <1>5. Held(j, a).fingerprint = runs[r].content
    <2>1. Held(j, a).phase = "publishing"
      BY <1>1, <1>3 DEF WorkerInv, Held
    <2>2. runs[r].rows = Batches
      BY <1>1, <1>2, <1>4, <2>1 DEF JobInv
    <2>. QED
      BY <1>4, <2>2 DEF Fingerprint
  <1>6. class \in NoopClasses => kept = {}
    BY <1>1, <1>3, <1>4 DEF WorkerInv, Held, RunOf, Classification
  <1>7. kept \subseteq Materials /\ k \in Nat
    <2>1. kept \subseteq Materials
      BY <1>1 DEF Worker
    <2>2. IsFiniteSet(kept)
      BY <2>1, ImportAssumption, FS_Subset
    <2>. QED
      BY <2>1, <2>2, FS_CardinalityType
  <1>8. /\ state \in {"noop", "noop_pending_checkpoint"} \cup Review
        /\ state \in {"noop", "noop_pending_checkpoint"} => class \in NoopClasses
        /\ state \in {"staged", "waiting_review"} <=> ReappearanceDue(class)
    BY TargetFacts
  <1>10. s \in {"noop", "complete"} /\ (s = "complete" => state # "noop_pending_checkpoint")
    OBVIOUS
  <1> HIDE DEF class, kept, state, k, s
  <1>11. /\ row \in Run /\ row.state = state /\ row.job = j
         /\ row.chronology = runs[r].chronology
         /\ row.fingerprint = runs[r].content /\ row.content = runs[r].content
         /\ row.revision = runs[r].revision + 1
    <2>1. old \in Run /\ old = runs[r]
      BY <1>1
    <2>2. /\ state \in RunStates /\ Held(j, a).fingerprint \in Fingerprints
          /\ old.revision + 1 \in Nat
      BY <1>1, <1>8, <2>1 DEF RunStates, Terminal, Run, Checkpoint
    <2> HIDE DEF old
    <2>3. row \in Run
      BY <1>7, <2>1, <2>2 DEF Run
    <2>. QED
      BY <1>2, <1>5, <2>1, <2>3 DEF Run
  <1>12. /\ c \in Checkpoint /\ c.run = r /\ c.revision = Held(j, a).revision + 1
         /\ c.phase = Held(j, a).phase
    BY <1>1 DEF Checkpoint, RunOf
  <1>13. Held(j, a).revision > 0 /\ Held(j, a).revision \in Nat
         /\ Held(j, a).phase = "publishing"
    BY <1>1, <1>2, <1>3 DEF WorkerInv, Held, RunOf, Checkpoint
  <1>14. /\ w \in Worker /\ w.step = s /\ w.checkpoint = c
    BY <1>10, <1>12, IdleTyped DEF Worker, Steps, Idle
  <1>15. props \in [Materials -> ProposalStates]
    BY DEF ProposalStates
  <1>16. kept = {} => \A m \in Materials : props[m] # "pending"
    OBVIOUS
  <1> HIDE DEF row, props, c, w
  <1>17. /\ workers' \in [Jobs -> [Attempts -> Worker]]
         /\ workers'[j][a] = w
         /\ \A b \in Attempts \ {a} : workers'[j][b] = workers[j][b]
         /\ \A i \in Jobs \ {j} : workers'[i] = workers[i]
    BY <1>1, <1>3, <1>14, Becoming
  <1>18. /\ runs' \in [RunIds -> Run] /\ runs'[r] = row
         /\ \A q \in RunIds \ {r} : runs'[q] = runs[q]
    BY <1>1, <1>3, <1>11 DEF TypeOK
  <1>19. /\ proposals' \in [RunIds -> [Materials -> ProposalStates]]
         /\ proposals'[r] = props
         /\ \A q \in RunIds \ {r} : proposals'[q] = proposals[q]
    BY <1>1, <1>3, <1>15 DEF TypeOK
  <1>20. /\ reappear' \subseteq RunIds
         /\ \A q \in RunIds \ {r} : q \in reappear' <=> q \in reappear
    BY <1>1, <1>3 DEF TypeOK
  <1>21. Progresses(r)
    BY <1>2, <1>4, <1>8, <1>11, <1>18 DEF Progresses, Settled, Review, Terminal
  <1>22. /\ \A q \in RunIds \ {r} : RunInv(q)'
         /\ \A i \in Jobs \ {j} : JobInv(i)' /\ \A b \in Attempts : WorkerInv(i, b)'
         /\ \A b \in Attempts \ {a} : WorkerInv(j, b)'
         /\ runs'[r].job # NoRun => jobs'[runs'[r].job].checkpoint.run = r
    <2>1. \A q \in RunIds \ {r} :
             /\ runs'[q] = runs[q] /\ proposals'[q] = proposals[q]
             /\ receipts'[q] = receipts[q] /\ (q \in reappear' <=> q \in reappear)
      BY <1>3, <1>18, <1>19, <1>20
    <2>2. jobs[j].checkpoint.run = r /\ jobs'[j].checkpoint.run = r
      BY <1>2, <1>3
    <2>3. /\ \A i \in Jobs \ {j} : jobs'[i] = jobs[i] /\ workers'[i] = workers[i]
          /\ \A b \in Attempts \ {a} : workers'[j][b] = workers[j][b]
      BY <1>3, <1>17
    <2>4. \A b \in Attempts \ {a} : Owns(j, b)' =>
             Owns(j, b) /\ jobs'[j].checkpoint = jobs[j].checkpoint
      BY <1>3 DEF Owns
    <2>. QED
      BY <1>21, <2>1, <2>2, <2>3, <2>4, Others
  <1>23. RunInv(r)'
    <2>1. r \notin reappear /\ receipts[r] = NoReceipt
      BY <1>1, <1>4 DEF RunInv, Current
    <2>2. r \in reappear' <=> state \in {"staged", "waiting_review"}
      BY <1>3, <1>8, <2>1
    <2>3. state \in Terminal \cup {"noop_pending_checkpoint"} => In(r, "pending")' = {}
      BY <1>6, <1>8, <1>16, <1>19 DEF In, Terminal, Review
    <2>4. runs[r].revision + 1 > 0
      BY <1>1 DEF Run
    <2>. QED
      BY <1>3, <1>11, <1>18, <1>22, <2>1, <2>2, <2>3, <2>4 DEF RunInv, Current
  <1>24. JobInv(j)'
    BY <1>1, <1>2, <1>3, <1>4, <1>8, <1>11, <1>18 DEF JobInv, Owns, Review
  <1>25. WorkerInv(j, a)'
    BY <1>2, <1>3, <1>8, <1>10, <1>11, <1>12, <1>13, <1>14, <1>17, <1>18
       DEF WorkerInv, Review, Settled, Terminal
  <1>26. SourceInv'
    <2>1. source.revision > 0 => source.run \in RunIds /\ source.run # r
      BY <1>4 DEF Inv, SourceInv, SourceNamesFinishedRun, Terminal
    <2>. QED
      BY <1>3, <1>18, <1>20, <2>1 DEF Inv, SourceInv, SourceNamesFinishedRun
  <1>27. TypeOK'
    BY <1>1, <1>3, <1>17, <1>18, <1>19, <1>20 DEF TypeOK
  <1>. QED
    BY <1>22, <1>23, <1>24, <1>25, <1>26, <1>27 DEF Inv

LEMMA RecordInv ==
  ASSUME Inv, NEW j \in Jobs, NEW a \in Attempts, RecordNewerIdentical(j, a)
  PROVE  Inv'
  <1>0. RunOf(j, a) \in RunIds
    BY HeldRun DEF RecordNewerIdentical, At
  <1> SUFFICES ASSUME NEW r \in RunIds, r = RunOf(j, a)
               PROVE  Inv'
    BY <1>0
  <1>1. /\ TypeOK /\ WorkerInv(j, a) /\ JobInv(j) /\ workers[j][a] \in Worker
        /\ Held(j, a) \in Checkpoint /\ RunInv(r) /\ runs[r] \in Run
        /\ source \in Source
    BY DEF Inv, TypeOK, Held, Worker
  <1>2. /\ r # NoRun /\ r = jobs[j].checkpoint.run
        /\ runs[r].job = j /\ runs[r].revision > 0
    BY HeldRun DEF RecordNewerIdentical, At
  <1> DEFINE row == [runs[r] EXCEPT !.state = "noop", !.revision = runs[r].revision + 1]
             w   == [workers[j][a] EXCEPT !.step = "complete"]
             at  == [revision |-> source.revision + 1,
                     chronology |-> runs[r].chronology,
                     fingerprint |-> runs[r].fingerprint, run |-> r]
             req == Request(j, a)
  <1>3. /\ workers[j][a].step = "record" /\ runs[r].state = "noop_pending_checkpoint"
        /\ runs' = [runs EXCEPT ![r] = row]
        /\ source' = at
        /\ receipts' = [receipts EXCEPT ![r] = req]
        /\ Becomes(j, a, w)
        /\ UNCHANGED <<proposals, suppressed, reviews, reappear, jobs, faults>>
    BY <1>1 DEF RecordNewerIdentical, CanRecord, At, TypeOK, Run
  <1>4. /\ row \in Run /\ row.state = "noop" /\ row.job = j
        /\ row.chronology = runs[r].chronology
        /\ row.fingerprint = runs[r].fingerprint /\ row.content = runs[r].content
        /\ row.revision = runs[r].revision + 1
    <2>1. "noop" \in RunStates /\ runs[r].revision + 1 \in Nat
      BY <1>1 DEF RunStates, Terminal, Run
    <2>2. row \in Run
      BY <1>1, <2>1 DEF Run
    <2>. QED
      BY <1>1, <1>2, <2>2 DEF Run
  <1>5. /\ w \in Worker /\ w.step = "complete" /\ w.checkpoint = workers[j][a].checkpoint
    BY <1>1 DEF Worker, Steps
  <1>6. /\ at \in Source /\ at.revision > 0 /\ at.run = r
        /\ at.chronology = runs[r].chronology
        /\ at.fingerprint = runs[r].fingerprint
    BY <1>1 DEF Source, Run
  <1>7. req \in Receipt
    BY <1>1 DEF Request, Receipt, Checkpoint
  <1> HIDE DEF row, w, at, req
  <1>17. /\ workers' \in [Jobs -> [Attempts -> Worker]]
         /\ workers'[j][a] = w
         /\ \A b \in Attempts \ {a} : workers'[j][b] = workers[j][b]
         /\ \A i \in Jobs \ {j} : workers'[i] = workers[i]
    BY <1>1, <1>3, <1>5, Becoming
  <1>18. /\ runs' \in [RunIds -> Run] /\ runs'[r] = row
         /\ \A q \in RunIds \ {r} : runs'[q] = runs[q]
    BY <1>1, <1>3, <1>4 DEF TypeOK
  <1>19. /\ receipts' \in [RunIds -> Receipt]
         /\ \A q \in RunIds \ {r} : receipts'[q] = receipts[q]
    BY <1>1, <1>3, <1>7 DEF TypeOK
  <1>21. Progresses(r)
    BY <1>2, <1>3, <1>4, <1>18 DEF Progresses, Settled, Review, Terminal
  <1>22. /\ \A q \in RunIds \ {r} : RunInv(q)'
         /\ \A i \in Jobs \ {j} : JobInv(i)' /\ \A b \in Attempts : WorkerInv(i, b)'
         /\ \A b \in Attempts \ {a} : WorkerInv(j, b)'
         /\ runs'[r].job # NoRun => jobs'[runs'[r].job].checkpoint.run = r
    <2>1. \A q \in RunIds \ {r} :
             /\ runs'[q] = runs[q] /\ proposals'[q] = proposals[q]
             /\ receipts'[q] = receipts[q] /\ (q \in reappear' <=> q \in reappear)
      BY <1>3, <1>18, <1>19
    <2>2. jobs[j].checkpoint.run = r /\ jobs'[j].checkpoint.run = r
      BY <1>2, <1>3
    <2>3. /\ \A i \in Jobs \ {j} : jobs'[i] = jobs[i] /\ workers'[i] = workers[i]
          /\ \A b \in Attempts \ {a} : workers'[j][b] = workers[j][b]
      BY <1>3, <1>17
    <2>4. \A b \in Attempts \ {a} : Owns(j, b)' =>
             Owns(j, b) /\ jobs'[j].checkpoint = jobs[j].checkpoint
      BY <1>3 DEF Owns
    <2>. QED
      BY <1>21, <2>1, <2>2, <2>3, <2>4, Others
  <1>23. RunInv(r)'
    <2>1. r \notin reappear /\ In(r, "pending") = {}
      BY <1>1, <1>3 DEF RunInv, Current
    <2>4. runs[r].revision + 1 > 0 /\ runs[r].fingerprint = runs[r].content
      BY <1>1, <1>3 DEF Run, RunInv
    <2>. QED
      BY <1>3, <1>4, <1>18, <1>22, <2>1, <2>4 DEF RunInv, Current, In
  <1>24. JobInv(j)'
    BY <1>1, <1>2, <1>3, <1>4, <1>18 DEF JobInv, Settled, Review, Terminal
  <1>25. WorkerInv(j, a)'
    BY <1>1, <1>2, <1>3, <1>4, <1>5, <1>17, <1>18
       DEF WorkerInv, Held, RunOf, Settled, Terminal
  <1>26. SourceInv'
    BY <1>3, <1>4, <1>6, <1>18 DEF SourceInv, SourceNamesFinishedRun, Terminal
  <1>27. TypeOK'
    BY <1>1, <1>3, <1>6, <1>17, <1>18, <1>19 DEF TypeOK
  <1>. QED
    BY <1>22, <1>23, <1>24, <1>25, <1>26, <1>27 DEF Inv

(* The source checkpoint, and what it says of its run, outlive a change of *)
(* a run that is not finished.                                             *)
LEMMA SourceStays ==
  ASSUME Inv, NEW r \in RunIds, runs[r].state \notin Terminal,
         source' = source, reappear \subseteq reappear',
         \A q \in RunIds \ {r} : runs'[q] = runs[q]
  PROVE  SourceInv'
  <1>1. source.revision > 0 => source.run \in RunIds /\ source.run # r
    BY DEF Inv, SourceInv, SourceNamesFinishedRun
  <1>. QED
    BY <1>1 DEF Inv, SourceInv, SourceNamesFinishedRun

(* A step of the operator on a run under review. *)
LEMMA RowMoves ==
  ASSUME Inv, NEW r \in RunIds, NEW row \in Run,
         NEW props \in [Materials -> ProposalStates],
         runs' = [runs EXCEPT ![r] = row],
         proposals' = [proposals EXCEPT ![r] = props],
         runs[r].state \in Review, row.state \in Settled, row.state # "noop",
         row.job = runs[r].job, row.chronology = runs[r].chronology,
         row.content = runs[r].content, row.fingerprint = runs[r].fingerprint,
         row.revision > 0,
         suppressed' \subseteq Materials, source' \in Source,
         reviews' \in [RunIds -> [decision : Decisions,
                                  fingerprint : RecoveryFingerprint]],
         UNCHANGED <<receipts, jobs, workers, faults>>,
         reappear' \in {reappear, reappear \cup {r}},
         row.state \in {"staged", "waiting_review"} => r \in reappear',
         r \in reappear' => row.state \in Current,
         row.state \in Terminal => \A m \in Materials : props[m] # "pending",
         SourceInv'
  PROVE  Inv'
  <1>1. TypeOK /\ RunInv(r) /\ runs[r] \in Run
    BY DEF Inv, TypeOK
  <1>2. /\ runs' \in [RunIds -> Run] /\ runs'[r] = row
        /\ \A q \in RunIds \ {r} : runs'[q] = runs[q]
    BY <1>1 DEF TypeOK
  <1>3. /\ proposals' \in [RunIds -> [Materials -> ProposalStates]]
        /\ proposals'[r] = props
        /\ \A q \in RunIds \ {r} : proposals'[q] = proposals[q]
    BY <1>1 DEF TypeOK
  <1>4. /\ reappear' \subseteq RunIds
        /\ \A q \in RunIds \ {r} : q \in reappear' <=> q \in reappear
    BY <1>1 DEF TypeOK
  <1>5. TypeOK'
    BY <1>1, <1>2, <1>3, <1>4 DEF TypeOK
  <1>6. /\ \A j \in Jobs : JobInv(j)'
        /\ \A j \in Jobs, a \in Attempts : WorkerInv(j, a)'
    <2>1. \A q \in RunIds : Progresses(q)
      BY <1>2 DEF Progresses, Settled, Review, Terminal
    <2>2. \A q \in RunIds : runs'[q].state = "validating" => runs'[q].rows = runs[q].rows
      BY <1>2 DEF Settled, Review, Terminal
    <2>. QED
      BY <2>1, <2>2, Steady
  <1>7. ASSUME NEW q \in RunIds \ {r} PROVE RunInv(q)'
    <2>1. RunInv(q)
      BY DEF Inv
    <2>. QED
      BY <1>2, <1>3, <1>4, <2>1 DEF RunInv, In
  <1>8. RunInv(r)'
    <2>1. receipts[r] = NoReceipt
      BY <1>1 DEF RunInv, Review
    <2>2. row.job # NoRun => jobs'[row.job].checkpoint.run = r
      BY <1>1 DEF RunInv
    <2>3. row.fingerprint = row.content
      BY <1>1 DEF RunInv, Review
    <2>4. row.state # "noop_pending_checkpoint"
      BY DEF Settled, Review, Terminal
    <2>5. row.state \in Terminal => In(r, "pending")' = {}
      BY <1>3 DEF In
    <2>. QED
      BY <1>2, <2>1, <2>2, <2>3, <2>4, <2>5 DEF RunInv
  <1>. QED
    BY <1>5, <1>6, <1>7, <1>8 DEF Inv

(* The state of a run after a decision, and its reappearance mark. *)
LEMMA ReviewedFacts ==
  ASSUME Inv, NEW r \in RunIds, runs[r].state \in Review
  PROVE  /\ Reviewed(runs[r].state) \in {"waiting_review", "recovery_required"}
         /\ Reviewed(runs[r].state) = "waiting_review" <=> r \in reappear
  <1>1. RunInv(r)
    BY DEF Inv
  <1>. QED
    BY <1>1 DEF Reviewed, Review, RunInv, Current

LEMMA DecideInv ==
  ASSUME Inv, NEW r \in RunIds, NEW m \in Materials, NEW d \in {"rejected", "deferred"},
         Decide(r, m, d)
  PROVE  Inv'
  <1> DEFINE row == [runs[r] EXCEPT !.state = Reviewed(@), !.revision = @ + 1,
                        !.pending = @ - 1,
                        !.rejected = IF d = "rejected" THEN @ + 1 ELSE @,
                        !.deferred = IF d = "deferred" THEN @ + 1 ELSE @]
             props == [proposals[r] EXCEPT ![m] = d]
  <1>1. TypeOK /\ runs[r] \in Run /\ proposals[r] \in [Materials -> ProposalStates]
    BY DEF Inv, TypeOK
  <1>2. runs[r].state \in Review /\ runs[r].pending > 0
    BY DEF Decide, Undecided
  <1>3. /\ Reviewed(runs[r].state) \in {"waiting_review", "recovery_required"}
        /\ Reviewed(runs[r].state) = "waiting_review" <=> r \in reappear
    BY <1>2, ReviewedFacts
  <1>4. /\ Reviewed(runs[r].state) \in RunStates /\ runs[r].revision + 1 \in Nat
        /\ runs[r].pending - 1 \in Nat /\ runs[r].rejected + 1 \in Nat
        /\ runs[r].deferred + 1 \in Nat
    BY <1>1, <1>2, <1>3 DEF Run, RunStates, Review
  <1>5. row \in Run
    BY <1>1, <1>4 DEF Run
  <1>6. /\ row.state = Reviewed(runs[r].state) /\ row.job = runs[r].job
        /\ row.chronology = runs[r].chronology
        /\ row.content = runs[r].content /\ row.fingerprint = runs[r].fingerprint
        /\ row.revision = runs[r].revision + 1
    BY <1>1 DEF Run
  <1>7. props \in [Materials -> ProposalStates]
    BY <1>1 DEF ProposalStates
  <1>8. /\ runs' = [runs EXCEPT ![r] = row]
        /\ suppressed' = suppressed \cup {m}
        /\ UNCHANGED <<source, reviews, reappear, receipts, jobs, workers, faults>>
    BY DEF Decide
  <1>9. proposals' = [proposals EXCEPT ![r] = props]
    BY DEF Decide
  <1> HIDE DEF row, props
  <1>10. /\ suppressed' \subseteq Materials /\ source' \in Source
         /\ reviews' \in [RunIds -> [decision : Decisions,
                                     fingerprint : RecoveryFingerprint]]
    BY <1>1, <1>8 DEF TypeOK
  <1>11. SourceInv'
    <2>1. \A q \in RunIds \ {r} : runs'[q] = runs[q]
      BY <1>1, <1>8 DEF TypeOK
    <2>. QED
      BY <1>2, <1>8, <2>1, SourceStays DEF Review, Terminal
  <1>12. /\ row.state \in Settled /\ row.state # "noop" /\ row.state \notin Terminal
         /\ row.revision > 0
         /\ row.state \in {"staged", "waiting_review"} => r \in reappear'
         /\ r \in reappear' => row.state \in Current
    BY <1>1, <1>3, <1>6, <1>8 DEF Settled, Review, Terminal, Current, Run
  <1>13. reappear' \in {reappear, reappear \cup {r}}
    BY <1>8
  <1>. QED
    BY <1>2, <1>5, <1>6, <1>7, <1>8, <1>9, <1>10, <1>11, <1>12, <1>13, RowMoves

LEMMA AcceptInv ==
  ASSUME Inv, NEW r \in RunIds, NEW m \in Materials, NEW f \in SUBSET Materials,
         Accept(r, m, f)
  PROVE  Inv'
  <1> DEFINE extra == f \ suppressed
             row == [runs[r] EXCEPT !.state = Reviewed(@),
                        !.revision = IF extra = {} THEN @ + 1 ELSE @ + 2,
                        !.pending = @ - 1 + Cardinality(extra),
                        !.count = @ + Cardinality(extra),
                        !.accepted = @ + 1]
             props == [x \in Materials |-> CASE x = m -> "accepted"
                                             [] x \in extra -> "pending"
                                             [] OTHER -> proposals[r][x]]
  <1>1. TypeOK /\ runs[r] \in Run /\ proposals[r] \in [Materials -> ProposalStates]
    BY DEF Inv, TypeOK
  <1>2. runs[r].state \in Review /\ runs[r].pending > 0
    BY DEF Accept, Undecided
  <1>3. /\ Reviewed(runs[r].state) \in {"waiting_review", "recovery_required"}
        /\ Reviewed(runs[r].state) = "waiting_review" <=> r \in reappear
    BY <1>2, ReviewedFacts
  <1>4. Cardinality(extra) \in Nat
    <2>1. extra \subseteq Materials
      OBVIOUS
    <2>2. IsFiniteSet(extra)
      BY <2>1, ImportAssumption, FS_Subset
    <2>. QED
      BY <2>2, FS_CardinalityType
  <1>5. row \in Run
    <2> DEFINE k == Cardinality(extra)
    <2>1. k \in Nat
      BY <1>4
    <2> HIDE DEF k
    <2>2. /\ Reviewed(runs[r].state) \in RunStates
          /\ runs[r].revision + 1 \in Nat /\ runs[r].revision + 2 \in Nat
          /\ runs[r].pending - 1 + k \in Nat /\ runs[r].count + k \in Nat
          /\ runs[r].accepted + 1 \in Nat
      BY <1>1, <1>2, <1>3, <2>1 DEF Run, RunStates, Review
    <2>. QED
      BY <1>1, <2>2 DEF Run, k
  <1>6. /\ row.state = Reviewed(runs[r].state) /\ row.job = runs[r].job
        /\ row.chronology = runs[r].chronology
        /\ row.content = runs[r].content /\ row.fingerprint = runs[r].fingerprint
        /\ row.revision > 0
    BY <1>1 DEF Run
  <1>7. props \in [Materials -> ProposalStates]
    BY <1>1 DEF ProposalStates
  <1>8. /\ runs' = [runs EXCEPT ![r] = row]
        /\ UNCHANGED <<suppressed, source, reviews, reappear, receipts, jobs, workers,
                       faults>>
    BY DEF Accept
  <1>9. proposals' = [proposals EXCEPT ![r] = props]
    BY DEF Accept
  <1> HIDE DEF row, props
  <1>10. /\ suppressed' \subseteq Materials /\ source' \in Source
         /\ reviews' \in [RunIds -> [decision : Decisions,
                                     fingerprint : RecoveryFingerprint]]
    BY <1>1, <1>8 DEF TypeOK
  <1>11. SourceInv'
    <2>1. \A q \in RunIds \ {r} : runs'[q] = runs[q]
      BY <1>1, <1>8 DEF TypeOK
    <2>. QED
      BY <1>2, <1>8, <2>1, SourceStays DEF Review, Terminal
  <1>12. /\ row.state \in Settled /\ row.state # "noop" /\ row.state \notin Terminal
         /\ row.state \in {"staged", "waiting_review"} => r \in reappear'
         /\ r \in reappear' => row.state \in Current
    BY <1>3, <1>6, <1>8 DEF Settled, Review, Terminal, Current
  <1>13. reappear' \in {reappear, reappear \cup {r}}
    BY <1>8
  <1>. QED
    BY <1>2, <1>5, <1>6, <1>7, <1>8, <1>9, <1>10, <1>11, <1>12, <1>13, RowMoves

(* A run without pending proposals, by the counter finalize_run compares. *)
LEMMA NothingPending ==
  ASSUME NEW r \in RunIds, runs[r].pending = 0, CountersAgree(r)
  PROVE  In(r, "pending") = {}
  <1>1. IsFiniteSet(In(r, "pending"))
    <2>1. In(r, "pending") \subseteq Materials
      BY DEF In
    <2>. QED
      BY <2>1, ImportAssumption, FS_Subset
  <1>2. Cardinality(In(r, "pending")) = 0
    BY DEF CountersAgree
  <1>. QED
    BY <1>1, <1>2, FS_EmptySet

(* What both kinds of finalization share; the source checkpoint is the     *)
(* caller's.                                                               *)
LEMMA FinalizingInv ==
  ASSUME Inv, NEW r \in RunIds, Finalizing(r), runs[r].state \in Review,
         \/ source' = source /\ reappear' = reappear
         \/ source' = SourceAt(r) /\ r \in reappear'
            /\ reappear' \in {reappear, reappear \cup {r}}
  PROVE  Inv'
  <1> DEFINE row == [runs[r] EXCEPT !.state = FinalState(runs[r]), !.revision = @ + 1]
             props == proposals[r]
  <1>1. /\ TypeOK /\ runs[r] \in Run /\ proposals[r] \in [Materials -> ProposalStates]
        /\ source \in Source
    BY DEF Inv, TypeOK
  <1>2. FinalState(runs[r]) \in {"accepted", "partially_accepted", "rejected"}
    BY DEF FinalState
  <1>3. FinalState(runs[r]) \in RunStates /\ runs[r].revision + 1 \in Nat
    BY <1>1, <1>2 DEF RunStates, Terminal, Run
  <1>4. row \in Run
    BY <1>1, <1>3 DEF Run
  <1>5. /\ row.state = FinalState(runs[r]) /\ row.job = runs[r].job
        /\ row.chronology = runs[r].chronology
        /\ row.content = runs[r].content /\ row.fingerprint = runs[r].fingerprint
        /\ row.revision > 0
    BY <1>1 DEF Run
  <1>6. /\ runs' = [runs EXCEPT ![r] = row]
        /\ UNCHANGED <<proposals, suppressed, reviews, receipts, jobs, workers, faults>>
        /\ runs[r].pending = 0 /\ CountersAgree(r)
    BY DEF Finalizing
  <1>7. proposals' = [proposals EXCEPT ![r] = props]
    BY <1>1, <1>6 DEF TypeOK
  <1>8. \A m \in Materials : props[m] # "pending"
    <2>1. In(r, "pending") = {}
      BY <1>6, NothingPending
    <2>. QED
      BY <2>1 DEF In
  <1> HIDE DEF row, props
  <1>9. /\ runs'[r] = row
        /\ \A q \in RunIds \ {r} : runs'[q] = runs[q]
    BY <1>1, <1>6 DEF TypeOK
  <1>10. SourceInv'
    <2>1. CASE source' = source /\ reappear' = reappear
      BY <1>9, <2>1, SourceStays DEF Review, Terminal
    <2>2. CASE source' = SourceAt(r) /\ r \in reappear'
      BY <1>2, <1>5, <1>9, <2>2 DEF SourceInv, SourceNamesFinishedRun, SourceAt, Terminal
    <2>. QED
      BY <2>1, <2>2
  <1>11. source' \in Source
    <2>1. SourceAt(r) \in Source
      BY <1>1 DEF SourceAt, Source, Run
    <2>. QED
      BY <1>1, <2>1
  <1>12. /\ suppressed' \subseteq Materials
         /\ reviews' \in [RunIds -> [decision : Decisions,
                                     fingerprint : RecoveryFingerprint]]
    BY <1>1, <1>6 DEF TypeOK
  <1>13. /\ row.state \in Settled /\ row.state # "noop"
         /\ row.state \notin {"staged", "waiting_review"}
         /\ row.state \in Current
    BY <1>2, <1>5 DEF Settled, Terminal, Current
  <1>14. reappear' \in {reappear, reappear \cup {r}}
    OBVIOUS
  <1>15. props \in [Materials -> ProposalStates]
    BY <1>1 DEF props
  <1>. QED
    BY <1>4, <1>5, <1>6, <1>7, <1>8, <1>10, <1>11, <1>12, <1>13, <1>14, <1>15, RowMoves

LEMMA FinalizeReviewInv ==
  ASSUME Inv, NEW r \in RunIds, FinalizeReview(r)
  PROVE  Inv'
  <1>1. r \in reappear
    BY DEF FinalizeReview, Inv, RunInv
  <1>. QED
    BY <1>1, FinalizingInv DEF FinalizeReview, Review

LEMMA FinalizeRecoveryInv ==
  ASSUME Inv, NEW r \in RunIds, FinalizeRecovery(r)
  PROVE  Inv'
  BY FinalizingInv DEF FinalizeRecovery, Review

LEMMA ReviewFingerprintTyped ==
  ASSUME TypeOK, NEW r \in RunIds
  PROVE  ReviewFingerprint(r) \in RecoveryFingerprint
  <1>1. runs[r].revision \in Nat /\ source \in Source /\ In(r, "pending") \subseteq Materials
    BY DEF TypeOK, Run, In
  <1>. QED
    BY <1>1 DEF ReviewFingerprint, RecoveryFingerprint

LEMMA ReviewRecoveryInv ==
  ASSUME Inv, NEW r \in RunIds, NEW d \in {"authorized", "deferred"}, ReviewRecovery(r, d)
  PROVE  Inv'
  <1>1. TypeOK /\ ReviewFingerprint(r) \in RecoveryFingerprint
    BY ReviewFingerprintTyped DEF Inv
  <1>2. UNCHANGED <<runs, proposals, suppressed, source, reappear, receipts, jobs, workers,
                    faults>>
    BY DEF ReviewRecovery
  <1>3. reviews' \in [RunIds -> [decision : Decisions, fingerprint : RecoveryFingerprint]]
    BY <1>1 DEF ReviewRecovery, TypeOK, Decisions
  <1>4. TypeOK'
    BY <1>1, <1>2, <1>3 DEF TypeOK
  <1>5. /\ \A j \in Jobs : JobInv(j)'
        /\ \A j \in Jobs, a \in Attempts : WorkerInv(j, a)'
    <2>1. \A q \in RunIds : Progresses(q)
      BY <1>2 DEF Progresses
    <2>. QED
      BY <1>2, <2>1, Steady
  <1>6. (\A q \in RunIds : RunInv(q)') /\ SourceInv'
    BY <1>2, SameRuns
  <1>. QED
    BY <1>4, <1>5, <1>6 DEF Inv

LEMMA RejectRecoveryInv ==
  ASSUME Inv, NEW r \in RunIds, RejectRecovery(r)
  PROVE  Inv'
  <1> DEFINE row == [runs[r] EXCEPT !.state = "rejected", !.pending = 0, !.revision = @ + 1]
             props == [m \in Materials |-> IF proposals[r][m] = "pending" THEN "superseded"
                                                                  ELSE proposals[r][m]]
  <1>1. /\ TypeOK /\ runs[r] \in Run /\ proposals[r] \in [Materials -> ProposalStates]
        /\ ReviewFingerprint(r) \in RecoveryFingerprint /\ RunInv(r)
    BY ReviewFingerprintTyped DEF Inv, TypeOK
  <1>2. /\ runs[r].state = "recovery_required"
        /\ runs' = [runs EXCEPT ![r] = row]
        /\ UNCHANGED <<suppressed, source, reappear, receipts, jobs, workers, faults>>
    BY DEF RejectRecovery, CanResolve
  <1>3. proposals' = [proposals EXCEPT ![r] = props]
    BY DEF RejectRecovery
  <1>4. reviews' \in [RunIds -> [decision : Decisions, fingerprint : RecoveryFingerprint]]
    BY <1>1 DEF RejectRecovery, TypeOK, Decisions
  <1>5. "rejected" \in RunStates /\ runs[r].revision + 1 \in Nat
    BY <1>1 DEF RunStates, Terminal, Run
  <1>6. row \in Run
    BY <1>1, <1>5 DEF Run
  <1>7. /\ row.state = "rejected" /\ row.job = runs[r].job
        /\ row.chronology = runs[r].chronology
        /\ row.content = runs[r].content /\ row.fingerprint = runs[r].fingerprint
        /\ row.revision > 0
    BY <1>1 DEF Run
  <1>8. props \in [Materials -> ProposalStates] /\ \A m \in Materials : props[m] # "pending"
    BY <1>1 DEF ProposalStates
  <1> HIDE DEF row, props
  <1>9. SourceInv'
    <2>1. \A q \in RunIds \ {r} : runs'[q] = runs[q]
      BY <1>1, <1>2 DEF TypeOK
    <2>. QED
      BY <1>2, <2>1, SourceStays DEF Terminal
  <1>10. /\ row.state \in Settled /\ row.state # "noop"
         /\ row.state \notin {"staged", "waiting_review"} /\ row.state \in Current
    BY <1>7 DEF Settled, Terminal, Current
  <1>11. /\ suppressed' \subseteq Materials /\ source' \in Source
         /\ reappear' \in {reappear, reappear \cup {r}} /\ runs[r].state \in Review
    BY <1>1, <1>2 DEF TypeOK, Review
  <1>. QED
    BY <1>2, <1>3, <1>4, <1>6, <1>7, <1>8, <1>9, <1>10, <1>11, RowMoves

LEMMA NextInv == Inv /\ [Next]_vars => Inv'
  <1> SUFFICES ASSUME Inv, [Next]_vars PROVE Inv'
    OBVIOUS
  <1>1. ASSUME NEW j \in Jobs, CoordinatorStep(j) PROVE Inv'
    BY <1>1, StartCheckInv, ClaimNextInv, LoseClaimInv, FailClaimInv
       DEF CoordinatorStep
  <1>2. ASSUME NEW j \in Jobs, NEW a \in Attempts, WorkerStep(j, a) PROVE Inv'
    <2>1. CASE \E r \in RunIds, t \in Chronologies, c \in Contents : StartRun(j, a, r, t, c)
      BY <2>1, StartRunInv
    <2>2. CASE Resume(j, a)
      BY <2>2, ResumeInv
    <2>3. CASE StageBatch(j, a)
      BY <2>3, StageBatchInv
    <2>4. CASE Verify(j, a)
      BY <2>4, VerifyInv
    <2>5. CASE \E raw \in SUBSET Materials : Preflight(j, a, raw)
      BY <2>5, PreflightInv
    <2>6. CASE Adopt(j, a)
      BY <2>6, AdoptInv
    <2>7. CASE Publish(j, a)
      BY <2>7, PublishInv
    <2>8. CASE NoteSource(j, a)
      BY <2>8, NoteSourceInv
    <2>9. CASE RecordNewerIdentical(j, a)
      BY <2>9, RecordInv
    <2>10. CASE ReplayNewerIdentical(j, a)
      BY <2>10, ReplayInv
    <2>11. CASE Complete(j, a)
      BY <2>11, CompleteInv
    <2>12. CASE Refused(j, a)
      BY <2>12, RefusedInv
    <2>13. CASE SeeSource(j, a)
      BY <2>13, SeeSourceInv
    <2>. QED
      BY <1>2, <2>1, <2>2, <2>3, <2>4, <2>5, <2>6, <2>7, <2>8, <2>9, <2>10, <2>11, <2>12,
         <2>13
         DEF WorkerStep
  <1>3. ASSUME NEW j \in Jobs, NEW a \in Attempts, Stumble(j, a) PROVE Inv'
    BY <1>3, StumbleInv
  <1>4. ASSUME NEW r \in RunIds, OperatorStep(r) PROVE Inv'
    <2>1. CASE \E m \in Materials, d \in {"rejected", "deferred"} : Decide(r, m, d)
      BY <2>1, DecideInv
    <2>2. CASE \E m \in Materials, f \in SUBSET Materials : Accept(r, m, f)
      BY <2>2, AcceptInv
    <2>3. CASE FinalizeReview(r)
      BY <2>3, FinalizeReviewInv
    <2>4. CASE FinalizeRecovery(r)
      BY <2>4, FinalizeRecoveryInv
    <2>5. CASE \E d \in {"authorized", "deferred"} : ReviewRecovery(r, d)
      BY <2>5, ReviewRecoveryInv
    <2>6. CASE RejectRecovery(r)
      BY <2>6, RejectRecoveryInv
    <2>. QED
      BY <1>4, <2>1, <2>2, <2>3, <2>4, <2>5, <2>6 DEF OperatorStep
  <1>5. CASE UNCHANGED vars
    <2>1. UNCHANGED <<runs, proposals, suppressed, source, reviews, reappear, receipts,
                      jobs, workers, faults>>
      BY <1>5 DEF vars
    <2>2. \A r \in RunIds : Progresses(r)
      BY <2>1 DEF Progresses
    <2>3. TypeOK'
      BY <2>1 DEF Inv, TypeOK
    <2>4. /\ \A j \in Jobs : JobInv(j)'
          /\ \A j \in Jobs, a \in Attempts : WorkerInv(j, a)'
      BY <2>1, <2>2, Steady
    <2>5. (\A r \in RunIds : RunInv(r)') /\ SourceInv'
      BY <2>1, SameRuns
    <2>. QED
      BY <2>3, <2>4, <2>5 DEF Inv
  <1>. QED
    BY <1>1, <1>2, <1>3, <1>4, <1>5 DEF Next

-----------------------------------------------------------------------------
(* Invariants of every behaviour. *)

(* The inductive invariant holds in every reachable state: what job rows,  *)
(* runs, workers and the source checkpoint say of each other agrees,       *)
(* whatever claims are lost and whoever finishes first.                    *)
THEOREM ImportInvariant == Spec => []Inv
  <1>1. Init => Inv
    BY InitInv
  <1>2. Inv /\ [Next]_vars => Inv'
    BY NextInv
  <1>. QED
    BY <1>1, <1>2, PTL DEF Spec

(* The tables and the workers' memory keep their types; a claim never gets *)
(* an attempt number beyond MaxAttempts (claim_next, fail_claim).          *)
THEOREM ImportTyped == Spec => []TypeOK
  <1>1. Inv => TypeOK
    BY DEF Inv
  <1>. QED
    BY <1>1, ImportInvariant, PTL

(* No source check produces two import runs (source_check._start_run). *)
THEOREM OneRunPerJobHolds == Spec => []OneRunPerJob
  <1>1. Inv => OneRunPerJob
    BY DEF Inv, RunInv, OneRunPerJob
  <1>. QED
    BY <1>1, ImportInvariant, PTL

(* A published run carries the fingerprint of the whole file               *)
(* (source_check._stage, PublishStagedImportRun).                          *)
THEOREM PublishedIsWholeHolds == Spec => []PublishedIsWhole
  <1>1. Inv => PublishedIsWhole
    BY DEF Inv, RunInv, PublishedIsWhole
  <1>. QED
    BY <1>1, ImportInvariant, PTL

(* The source checkpoint names a finished run and carries its chronology   *)
(* and fingerprint (finalize_run, record_newer_identical_source_check).    *)
THEOREM SourceNamesFinishedRunHolds == Spec => []SourceNamesFinishedRun
  <1>1. Inv => SourceNamesFinishedRun
    BY DEF Inv, SourceInv
  <1>. QED
    BY <1>1, ImportInvariant, PTL

(* A completed source check leaves a published run that does not wait for  *)
(* the source checkpoint (TicketImportSourceCheckWorker.run).              *)
THEOREM CompletedIsSettledHolds == Spec => []CompletedIsSettled
  <1>1. Inv => CompletedIsSettled
    <2> SUFFICES ASSUME Inv, NEW j \in Jobs, jobs[j].state = "completed"
                 PROVE  \E r \in RunIds : runs[r].job = j
                                          /\ runs[r].state \in Review \cup Terminal
      BY DEF CompletedIsSettled
    <2>1. JobInv(j) /\ jobs[j].checkpoint.run \in RunIds \cup {NoRun}
      BY DEF Inv, TypeOK, Checkpoint
    <2>2. /\ jobs[j].checkpoint.run \in RunIds
          /\ runs[jobs[j].checkpoint.run].job = j
          /\ runs[jobs[j].checkpoint.run].state \in Review \cup Terminal
      BY <2>1 DEF JobInv, Settled
    <2>. QED
      BY <2>2
  <1>. QED
    BY <1>1, ImportInvariant, PTL

(* Automatic reappearance work exists exactly for current evidence         *)
(* (publish_staged_run, finalize_run).                                     *)
THEOREM ReappearanceIsCurrentHolds == Spec => []ReappearanceIsCurrent
  <1>1. Inv => ReappearanceIsCurrent
    BY DEF Inv, TypeOK, RunInv, SourceInv, ReappearanceIsCurrent, Current
  <1>. QED
    BY <1>1, ImportInvariant, PTL

-----------------------------------------------------------------------------
(* What a step may never do. *)

(* The units of work that write a run or its proposals. *)
Writes(r) ==
    \/ \E j \in Jobs, a \in Attempts, t \in Chronologies, c \in Contents :
          StartRun(j, a, r, t, c)
    \/ \E j \in Jobs, a \in Attempts :
          RunOf(j, a) = r
          /\ (StageBatch(j, a) \/ Publish(j, a) \/ RecordNewerIdentical(j, a))
    \/ \E m \in Materials, d \in {"rejected", "deferred"} : Decide(r, m, d)
    \/ \E m \in Materials, f \in SUBSET Materials : Accept(r, m, f)
    \/ FinalizeReview(r)
    \/ FinalizeRecovery(r)
    \/ RejectRecovery(r)

LEMMA WhoWrites ==
  ASSUME TypeOK, [Next]_vars, NEW r \in RunIds
  PROVE  \/ runs'[r] = runs[r] /\ proposals'[r] = proposals[r]
         \/ Writes(r)
  <1>0. /\ runs \in [RunIds -> Run]
        /\ proposals \in [RunIds -> [Materials -> ProposalStates]]
    BY DEF TypeOK
  <1>1. CASE UNCHANGED vars
    BY <1>1 DEF vars
  <1>2. ASSUME NEW j \in Jobs, CoordinatorStep(j)
        PROVE  runs'[r] = runs[r] /\ proposals'[r] = proposals[r]
    BY <1>2 DEF CoordinatorStep, StartTicketSourceImportCheck, ClaimNext, LoseClaim, FailClaim
  <1>3. ASSUME NEW j \in Jobs, NEW a \in Attempts, Stumble(j, a)
        PROVE  runs'[r] = runs[r] /\ proposals'[r] = proposals[r]
    BY <1>3 DEF Stumble
  <1>4. ASSUME NEW j \in Jobs, NEW a \in Attempts, WorkerStep(j, a)
        PROVE  \/ runs'[r] = runs[r] /\ proposals'[r] = proposals[r]
               \/ Writes(r)
    <2>1. CASE \/ Resume(j, a) \/ Verify(j, a) \/ Adopt(j, a) \/ SeeSource(j, a)
               \/ NoteSource(j, a)
               \/ ReplayNewerIdentical(j, a) \/ Complete(j, a) \/ Refused(j, a)
               \/ \E raw \in SUBSET Materials : Preflight(j, a, raw)
      BY <2>1 DEF Resume, Verify, Adopt, SeeSource, NoteSource, ReplayNewerIdentical, Complete,
                  Refused, Preflight
    <2>2. CASE \E q \in RunIds, t \in Chronologies, c \in Contents : StartRun(j, a, q, t, c)
      <3>1. PICK q \in RunIds, t \in Chronologies, c \in Contents : StartRun(j, a, q, t, c)
        BY <2>2
      <3>2. CASE q = r
        BY <3>1, <3>2 DEF Writes
      <3>3. CASE q # r
        BY <1>0, <3>1, <3>3 DEF StartRun
      <3>. QED
        BY <3>2, <3>3
    <2>3. CASE StageBatch(j, a) \/ Publish(j, a) \/ RecordNewerIdentical(j, a)
      <3>1. CASE RunOf(j, a) = r
        BY <2>3, <3>1 DEF Writes
      <3>2. CASE RunOf(j, a) # r
        <4>1. CASE StageBatch(j, a)
          BY <1>0, <3>2, <4>1 DEF StageBatch
        <4>2. CASE Publish(j, a)
          BY <1>0, <3>2, <4>2 DEF Publish
        <4>3. CASE RecordNewerIdentical(j, a)
          BY <1>0, <3>2, <4>3 DEF RecordNewerIdentical
        <4>. QED
          BY <2>3, <4>1, <4>2, <4>3
      <3>. QED
        BY <3>1, <3>2
    <2>. QED
      BY <1>4, <2>1, <2>2, <2>3 DEF WorkerStep
  <1>5. ASSUME NEW q \in RunIds, OperatorStep(q)
        PROVE  \/ runs'[r] = runs[r] /\ proposals'[r] = proposals[r]
               \/ Writes(r)
    <2>1. CASE \E d \in {"authorized", "deferred"} : ReviewRecovery(q, d)
      BY <2>1 DEF ReviewRecovery
    <2>2. CASE q = r
      BY <1>5, <2>1, <2>2 DEF OperatorStep, Writes
    <2>3. CASE q # r
      <3>1. CASE \E m \in Materials, d \in {"rejected", "deferred"} : Decide(q, m, d)
        BY <1>0, <2>3, <3>1 DEF Decide
      <3>2. CASE \E m \in Materials, f \in SUBSET Materials : Accept(q, m, f)
        BY <1>0, <2>3, <3>2 DEF Accept
      <3>3. CASE FinalizeReview(q) \/ FinalizeRecovery(q)
        BY <1>0, <2>3, <3>3 DEF FinalizeReview, FinalizeRecovery, Finalizing
      <3>4. CASE RejectRecovery(q)
        BY <1>0, <2>3, <3>4 DEF RejectRecovery
      <3>. QED
        BY <1>5, <2>1, <3>1, <3>2, <3>3, <3>4 DEF OperatorStep
    <2>. QED
      BY <2>2, <2>3
  <1>. QED
    BY <1>1, <1>2, <1>3, <1>4, <1>5 DEF Next

(* No unit of work writes a finished run. *)
LEMMA NobodyWritesFinished ==
  ASSUME NEW r \in RunIds, Writes(r)
  PROVE  runs[r].state \notin Terminal
  <1>1. CASE \E j \in Jobs, a \in Attempts, t \in Chronologies, c \in Contents :
               StartRun(j, a, r, t, c)
    BY <1>1 DEF StartRun, Terminal
  <1>2. CASE \E j \in Jobs, a \in Attempts :
               RunOf(j, a) = r
               /\ (StageBatch(j, a) \/ Publish(j, a) \/ RecordNewerIdentical(j, a))
    BY <1>2 DEF StageBatch, CanStage, Validating, Publish, CanPublish, CanPreflight,
                RecordNewerIdentical, CanRecord, Terminal
  <1>3. CASE \/ \E m \in Materials, d \in {"rejected", "deferred"} : Decide(r, m, d)
             \/ \E m \in Materials, f \in SUBSET Materials : Accept(r, m, f)
    BY <1>3 DEF Decide, Accept, Undecided, Review, Terminal
  <1>4. CASE FinalizeReview(r) \/ FinalizeRecovery(r) \/ RejectRecovery(r)
    BY <1>4 DEF FinalizeReview, FinalizeRecovery, RejectRecovery, CanResolve, Terminal
  <1>. QED
    BY <1>1, <1>2, <1>3, <1>4 DEF Writes

(* A finished run and its proposals never change again, and none of them   *)
(* is pending (proposals.transition_decision, runs._finish_run).           *)
THEOREM FinishedIsFinalHolds == Spec => FinishedIsFinal
  <1>1. Inv /\ [Next]_vars =>
          [\A r \in RunIds : runs[r].state \in Terminal =>
              /\ runs'[r] = runs[r]
              /\ proposals'[r] = proposals[r]
              /\ In(r, "pending") = {}]_vars
    <2> SUFFICES ASSUME Inv, [Next]_vars, NEW r \in RunIds, runs[r].state \in Terminal
                 PROVE  /\ runs'[r] = runs[r]
                        /\ proposals'[r] = proposals[r]
                        /\ In(r, "pending") = {}
      OBVIOUS
    <2>1. In(r, "pending") = {} /\ TypeOK
      BY DEF Inv, RunInv
    <2>. QED
      BY <2>1, WhoWrites, NobodyWritesFinished
  <1>. QED
    BY <1>1, ImportInvariant, PTL DEF Spec, FinishedIsFinal

(* A proposal equivalent to a rejected or deferred one is not put up again *)
(* (proposals.filter_equivalence_suppressed, insert_follow_on_pending_set). *)
THEOREM DecidedStaysDecidedHolds == Spec => DecidedStaysDecided
  <1>1. Inv /\ [Next]_vars =>
          [\A r \in RunIds, m \in Materials :
              proposals'[r][m] = "pending" /\ proposals[r][m] # "pending" =>
                  m \notin suppressed]_vars
    <2> SUFFICES ASSUME Inv, [Next]_vars, NEW r \in RunIds, NEW m \in Materials,
                        proposals'[r][m] = "pending", proposals[r][m] # "pending"
                 PROVE  m \notin suppressed
      OBVIOUS
    <2>0. TypeOK /\ proposals \in [RunIds -> [Materials -> ProposalStates]]
      BY DEF Inv, TypeOK
    <2>1. Writes(r)
      BY <2>0, WhoWrites
    <2>2. CASE \E j \in Jobs, a \in Attempts, t \in Chronologies, c \in Contents :
                 StartRun(j, a, r, t, c)
      BY <2>2 DEF StartRun
    <2>3. CASE \E j \in Jobs, a \in Attempts :
                 RunOf(j, a) = r
                 /\ (StageBatch(j, a) \/ Publish(j, a) \/ RecordNewerIdentical(j, a))
      <3>1. PICK j \in Jobs, a \in Attempts :
               RunOf(j, a) = r
               /\ (StageBatch(j, a) \/ Publish(j, a) \/ RecordNewerIdentical(j, a))
        BY <2>3
      <3>2. CASE StageBatch(j, a) \/ RecordNewerIdentical(j, a)
        BY <3>2 DEF StageBatch, RecordNewerIdentical
      <3>3. CASE Publish(j, a)
        <4>1. m \in workers[j][a].kept
          BY <2>0, <3>1, <3>3 DEF Publish
        <4>2. workers[j][a].raw \ suppressed = workers[j][a].kept
          BY <3>3 DEF Publish, CanPublish, SuppressionHolds
        <4>. QED
          BY <4>1, <4>2
      <3>. QED
        BY <3>1, <3>2, <3>3
    <2>4. CASE \E n \in Materials, d \in {"rejected", "deferred"} : Decide(r, n, d)
      BY <2>0, <2>4 DEF Decide
    <2>5. CASE \E n \in Materials, f \in SUBSET Materials : Accept(r, n, f)
      BY <2>0, <2>5 DEF Accept
    <2>6. CASE FinalizeReview(r) \/ FinalizeRecovery(r)
      BY <2>6 DEF FinalizeReview, FinalizeRecovery, Finalizing
    <2>7. CASE RejectRecovery(r)
      BY <2>0, <2>7 DEF RejectRecovery
    <2>. QED
      BY <2>1, <2>2, <2>3, <2>4, <2>5, <2>6, <2>7 DEF Writes
  <1>. QED
    BY <1>1, ImportInvariant, PTL DEF Spec, DecidedStaysDecided

(* A newer identical file moves the age of the source checkpoint and never *)
(* its content (record_newer_identical_source_check).                      *)
THEOREM NoopBringsNoContentHolds == Spec => NoopBringsNoContent
  <1>1. Inv /\ [Next]_vars =>
          [\A r \in RunIds :
              runs[r].state = "noop_pending_checkpoint" /\ runs'[r].state = "noop" =>
                  /\ source'.fingerprint = source.fingerprint
                  /\ source'.chronology > source.chronology]_vars
    <2> SUFFICES ASSUME Inv, [Next]_vars, NEW r \in RunIds,
                        runs[r].state = "noop_pending_checkpoint", runs'[r].state = "noop"
                 PROVE  /\ source'.fingerprint = source.fingerprint
                        /\ source'.chronology > source.chronology
      OBVIOUS
    <2>0. TypeOK
      BY DEF Inv
    <2>1. Writes(r)
      BY <2>0, WhoWrites
    <2>2. PICK j \in Jobs, a \in Attempts :
             RunOf(j, a) = r
             /\ (StageBatch(j, a) \/ Publish(j, a) \/ RecordNewerIdentical(j, a))
      BY <2>1 DEF Writes, StartRun, Decide, Accept, Undecided, Review, FinalizeReview,
                  FinalizeRecovery, RejectRecovery, CanResolve
    <2>3. RecordNewerIdentical(j, a)
      BY <2>2 DEF StageBatch, CanStage, Validating, Publish, CanPublish, CanPreflight
    <2>. QED
      BY <2>2, <2>3 DEF RecordNewerIdentical, CanRecord
  <1>. QED
    BY <1>1, ImportInvariant, PTL DEF Spec, NoopBringsNoContent

(* The source checkpoint never moves backward, and its content changes at  *)
(* the same age only through an authorized recovery                        *)
(* (runs.establish_or_advance_finalized, finalize_authorized_recovery,     *)
(* advance_newer_identical).                                               *)
THEOREM SourceMovesForwardHolds == Spec => SourceMovesForward
  <1>1. Inv /\ [Next]_vars =>
          [source' # source =>
              /\ source'.revision = source.revision + 1
              /\ \/ source.revision = 0
                 \/ source'.chronology > source.chronology
                 \/ /\ source'.chronology = source.chronology
                    /\ source'.fingerprint # source.fingerprint
                    /\ runs[source'.run].state = "recovery_required"
                    /\ reviews[source'.run].decision = "authorized"]_vars
    <2> DEFINE Forward ==
              /\ source'.revision = source.revision + 1
              /\ \/ source.revision = 0
                 \/ source'.chronology > source.chronology
                 \/ /\ source'.chronology = source.chronology
                    /\ source'.fingerprint # source.fingerprint
                    /\ runs[source'.run].state = "recovery_required"
                    /\ reviews[source'.run].decision = "authorized"
    <2> SUFFICES ASSUME Inv, [Next]_vars, source' # source
                 PROVE  Forward
      OBVIOUS
    <2>1. ASSUME NEW j \in Jobs, CoordinatorStep(j) PROVE FALSE
      BY <2>1 DEF CoordinatorStep, StartTicketSourceImportCheck, ClaimNext, LoseClaim, FailClaim
    <2>2. ASSUME NEW j \in Jobs, NEW a \in Attempts, Stumble(j, a) PROVE FALSE
      BY <2>2 DEF Stumble
    <2>3. ASSUME NEW j \in Jobs, NEW a \in Attempts, WorkerStep(j, a) PROVE Forward
      <3>1. RecordNewerIdentical(j, a)
        BY <2>3 DEF WorkerStep, StartRun, Resume, StageBatch, Verify, Preflight, Adopt,
                    Publish, SeeSource, NoteSource, ReplayNewerIdentical, Complete, Refused
      <3>. QED
        BY <3>1 DEF RecordNewerIdentical, CanRecord
    <2>4. ASSUME NEW r \in RunIds, OperatorStep(r) PROVE Forward
      <3>1. FinalizeReview(r) \/ FinalizeRecovery(r)
        BY <2>4 DEF OperatorStep, Decide, Accept, ReviewRecovery, RejectRecovery
      <3>2. CASE FinalizeReview(r)
        BY <3>2 DEF FinalizeReview, Advances, SourceAt
      <3>3. CASE FinalizeRecovery(r)
        BY <3>3 DEF FinalizeRecovery, Authorized, SourceAt
      <3>. QED
        BY <3>1, <3>2, <3>3
    <2>5. CASE UNCHANGED vars
      BY <2>5 DEF vars
    <2>. QED
      BY <2>1, <2>2, <2>3, <2>4, <2>5 DEF Next
  <1>. QED
    BY <1>1, ImportInvariant, PTL DEF Spec, SourceMovesForward

-----------------------------------------------------------------------------
(* Counters. *)

CountInv(r) ==
    /\ runs[r].state \in Review => CountersAgree(r)
    /\ runs[r].state \in {"none", "validating"} =>
          runs[r].accepted = 0 /\ runs[r].rejected = 0 /\ runs[r].deferred = 0

Counted == \A r \in RunIds : CountInv(r)

LEMMA FiniteIn ==
  ASSUME NEW r \in RunIds, NEW s
  PROVE  IsFiniteSet(In(r, s)) /\ In(r, s) \subseteq Materials
  BY ImportAssumption, FS_Subset DEF In

LEMMA DecideCounts ==
  ASSUME Inv, NEW r \in RunIds, NEW m \in Materials, NEW d \in {"rejected", "deferred"},
         Decide(r, m, d), CountInv(r)
  PROVE  CountInv(r)'
  <1>1. /\ TypeOK /\ runs[r] \in Run /\ runs \in [RunIds -> Run]
        /\ proposals \in [RunIds -> [Materials -> ProposalStates]]
    BY DEF Inv, TypeOK
  <1>2. proposals[r][m] = "pending" /\ CountersAgree(r) /\ runs[r].state \in Review
    BY DEF Decide, Undecided, CountInv
  <1>3. proposals' = [proposals EXCEPT ![r][m] = d]
    BY DEF Decide
  <1>4. /\ In(r, "none")' = In(r, "none")
        /\ In(r, "accepted")' = In(r, "accepted")
        /\ In(r, "pending")' = In(r, "pending") \ {m}
        /\ In(r, d)' = In(r, d) \cup {m}
        /\ \A e \in {"rejected", "deferred"} \ {d} : In(r, e)' = In(r, e)
        /\ m \in In(r, "pending") /\ m \notin In(r, d)
    BY <1>1, <1>2, <1>3 DEF In
  <1>5. /\ Cardinality(In(r, "pending")') = Cardinality(In(r, "pending")) - 1
        /\ Cardinality(In(r, d)') = Cardinality(In(r, d)) + 1
    <2>1. IsFiniteSet(In(r, "pending")) /\ IsFiniteSet(In(r, d))
      BY FiniteIn
    <2>2. Cardinality(In(r, "pending") \ {m}) = Cardinality(In(r, "pending")) - 1
      BY <1>4, <2>1, FS_RemoveElement
    <2>3. Cardinality(In(r, d) \cup {m}) = Cardinality(In(r, d)) + 1
      BY <1>4, <2>1, FS_AddElement
    <2>. QED
      BY <1>4, <2>2, <2>3
  <1>6. /\ runs'[r].count = runs[r].count /\ runs'[r].accepted = runs[r].accepted
        /\ runs'[r].pending = runs[r].pending - 1
        /\ runs'[r].rejected = IF d = "rejected" THEN runs[r].rejected + 1 ELSE runs[r].rejected
        /\ runs'[r].deferred = IF d = "deferred" THEN runs[r].deferred + 1 ELSE runs[r].deferred
        /\ runs'[r].state \in {"waiting_review", "recovery_required"}
    BY <1>1, <1>2 DEF Decide, Run, Reviewed
  <1>7. CASE d = "rejected"
    BY <1>2, <1>4, <1>5, <1>6, <1>7 DEF CountersAgree, CountInv
  <1>8. CASE d = "deferred"
    BY <1>2, <1>4, <1>5, <1>6, <1>8 DEF CountersAgree, CountInv
  <1>. QED
    BY <1>7, <1>8

LEMMA AcceptCounts ==
  ASSUME Inv, NEW r \in RunIds, NEW m \in Materials, NEW f \in SUBSET Materials,
         Accept(r, m, f), CountInv(r)
  PROVE  CountInv(r)'
  <1> DEFINE extra == f \ suppressed
             k == Cardinality(extra)
  <1>1. /\ TypeOK /\ runs[r] \in Run /\ runs \in [RunIds -> Run]
        /\ proposals \in [RunIds -> [Materials -> ProposalStates]]
    BY DEF Inv, TypeOK
  <1>2. /\ proposals[r][m] = "pending" /\ CountersAgree(r) /\ runs[r].state \in Review
        /\ extra \subseteq In(r, "none")
    BY DEF Accept, Undecided, CountInv
  <1>3. \A x \in Materials : proposals'[r][x] =
            IF x = m THEN "accepted" ELSE IF x \in extra THEN "pending"
            ELSE proposals[r][x]
    <2>1. proposals' = [proposals EXCEPT ![r] =
              [x \in Materials |-> CASE x = m -> "accepted"
                                     [] x \in extra -> "pending"
                                     [] OTHER -> proposals[r][x]]]
      BY DEF Accept
    <2> HIDE DEF extra
    <2>2. proposals'[r] = [x \in Materials |-> CASE x = m -> "accepted"
                                                 [] x \in extra -> "pending"
                                                 [] OTHER -> proposals[r][x]]
      BY <1>1, <2>1
    <2>3. m \notin extra
      BY <1>2 DEF In
    <2>. QED
      BY <2>2, <2>3
  <1>4. /\ runs'[r].count = runs[r].count + k /\ runs'[r].accepted = runs[r].accepted + 1
        /\ runs'[r].pending = runs[r].pending - 1 + k
        /\ runs'[r].rejected = runs[r].rejected
        /\ runs'[r].deferred = runs[r].deferred
        /\ runs'[r].state \in {"waiting_review", "recovery_required"}
    BY <1>1, <1>2 DEF Accept, Run, Reviewed
  <1> HIDE DEF extra
  <1>5. /\ Materials \ In(r, "none")' = (Materials \ In(r, "none")) \cup extra
        /\ In(r, "accepted")' = In(r, "accepted") \cup {m}
        /\ In(r, "pending")' = (In(r, "pending") \ {m}) \cup extra
        /\ In(r, "rejected")' = In(r, "rejected")
        /\ In(r, "deferred")' = In(r, "deferred")
        /\ m \in In(r, "pending") /\ m \notin In(r, "accepted")
        /\ (Materials \ In(r, "none")) \cap extra = {}
        /\ (In(r, "pending") \ {m}) \cap extra = {}
    BY <1>2, <1>3 DEF In
  <1>6. /\ IsFiniteSet(In(r, "pending")) /\ IsFiniteSet(In(r, "accepted"))
        /\ IsFiniteSet(Materials \ In(r, "none")) /\ IsFiniteSet(extra)
        /\ IsFiniteSet(In(r, "pending") \ {m})
    <2>1. extra \subseteq Materials
      BY DEF extra
    <2>2. Materials \ In(r, "none") \subseteq Materials
          /\ In(r, "pending") \ {m} \subseteq Materials
      BY DEF In
    <2>. QED
      BY <2>1, <2>2, FiniteIn, FS_Subset, ImportAssumption
  <1>7. /\ Cardinality(In(r, "pending") \ {m}) = Cardinality(In(r, "pending")) - 1
        /\ Cardinality(In(r, "accepted") \cup {m}) = Cardinality(In(r, "accepted")) + 1
    BY <1>5, <1>6, FS_RemoveElement, FS_AddElement
  <1>8. /\ Cardinality((In(r, "pending") \ {m}) \cup extra)
             = Cardinality(In(r, "pending") \ {m}) + k
        /\ Cardinality((Materials \ In(r, "none")) \cup extra)
             = Cardinality(Materials \ In(r, "none")) + k
    <2>1. \A S : IsFiniteSet(S) /\ S \cap extra = {} =>
                    Cardinality(S \cup extra) = Cardinality(S) + k
      <3> SUFFICES ASSUME NEW S, IsFiniteSet(S), S \cap extra = {}
                   PROVE  Cardinality(S \cup extra) = Cardinality(S) + k
        OBVIOUS
      <3>1. Cardinality(S) \in Nat /\ k \in Nat
        BY <1>6, FS_CardinalityType
      <3>2. Cardinality(S \cup extra) = Cardinality(S) + k - Cardinality(S \cap extra)
        BY <1>6, FS_Union
      <3>3. Cardinality(S \cap extra) = 0
        BY FS_EmptySet
      <3> HIDE DEF k
      <3>. QED
        BY <3>1, <3>2, <3>3
    <2>. QED
      BY <1>5, <1>6, <2>1
  <1> HIDE DEF k
  <1>. QED
    BY <1>2, <1>4, <1>5, <1>7, <1>8 DEF CountersAgree, CountInv

LEMMA PublishCounts ==
  ASSUME Inv, NEW j \in Jobs, NEW a \in Attempts, NEW r \in RunIds, r = RunOf(j, a),
         Publish(j, a), CountInv(r)
  PROVE  CountInv(r)'
  <1> DEFINE kept == workers[j][a].kept
  <1>1. /\ TypeOK /\ runs[r] \in Run /\ runs \in [RunIds -> Run]
        /\ proposals \in [RunIds -> [Materials -> ProposalStates]]
        /\ workers[j][a] \in Worker
    BY DEF Inv, TypeOK
  <1>2. kept \subseteq Materials
    BY <1>1 DEF Worker
  <1>3. runs[r].accepted = 0 /\ runs[r].rejected = 0 /\ runs[r].deferred = 0
    BY DEF Publish, CanPublish, CanPreflight, Validating, CountInv
  <1>4. \A x \in Materials : proposals'[r][x] = IF x \in kept THEN "pending" ELSE "none"
    BY <1>1 DEF Publish
  <1>5. /\ runs'[r].count = Cardinality(kept) /\ runs'[r].pending = Cardinality(kept)
        /\ runs'[r].accepted = runs[r].accepted /\ runs'[r].rejected = runs[r].rejected
        /\ runs'[r].deferred = runs[r].deferred
    BY <1>1 DEF Publish, Run
  <1> HIDE DEF kept
  <1>6. /\ Materials \ In(r, "none")' = kept /\ In(r, "pending")' = kept
        /\ In(r, "accepted")' = {} /\ In(r, "rejected")' = {} /\ In(r, "deferred")' = {}
    BY <1>2, <1>4 DEF In
  <1>. QED
    BY <1>3, <1>5, <1>6, FS_EmptySet DEF CountersAgree, CountInv

LEMMA CountStep == Inv /\ Counted /\ [Next]_vars => Counted'
  <1> SUFFICES ASSUME Inv, [Next]_vars, NEW r \in RunIds, CountInv(r) PROVE CountInv(r)'
    BY DEF Counted
  <1>1. TypeOK /\ runs \in [RunIds -> Run] /\ runs[r] \in Run
    BY DEF Inv, TypeOK
  <1>2. CASE runs'[r] = runs[r] /\ proposals'[r] = proposals[r]
    BY <1>2 DEF CountInv, CountersAgree, In
  <1>3. CASE \E j \in Jobs, a \in Attempts, t \in Chronologies, c \in Contents :
               StartRun(j, a, r, t, c)
    BY <1>1, <1>3 DEF StartRun, CountInv, NoRunRow, Review
  <1>4. ASSUME NEW j \in Jobs, NEW a \in Attempts, RunOf(j, a) = r,
               StageBatch(j, a) \/ Publish(j, a) \/ RecordNewerIdentical(j, a)
        PROVE  CountInv(r)'
    <2>1. CASE StageBatch(j, a)
      <3>1. /\ runs'[r].state = runs[r].state /\ runs[r].state = "validating"
            /\ runs'[r].accepted = runs[r].accepted
            /\ runs'[r].rejected = runs[r].rejected
            /\ runs'[r].deferred = runs[r].deferred
        BY <1>1, <1>4, <2>1 DEF StageBatch, CanStage, Validating, Run
      <3>. QED
        BY <3>1 DEF CountInv, Review
    <2>2. CASE Publish(j, a)
      BY <1>4, <2>2, PublishCounts
    <2>3. CASE RecordNewerIdentical(j, a)
      <3>1. runs'[r].state = "noop"
        BY <1>1, <1>4, <2>3 DEF RecordNewerIdentical, Run
      <3>. QED
        BY <3>1 DEF CountInv, Review
    <2>. QED
      BY <1>4, <2>1, <2>2, <2>3
  <1>5. CASE \E m \in Materials, d \in {"rejected", "deferred"} : Decide(r, m, d)
    BY <1>5, DecideCounts
  <1>6. CASE \E m \in Materials, f \in SUBSET Materials : Accept(r, m, f)
    BY <1>6, AcceptCounts
  <1>7. CASE FinalizeReview(r) \/ FinalizeRecovery(r) \/ RejectRecovery(r)
    <2>1. runs'[r].state \in {"accepted", "partially_accepted", "rejected"}
      <3>1. CASE Finalizing(r)
        <4>1. FinalState(runs[r]) \in {"accepted", "partially_accepted", "rejected"}
          BY DEF FinalState
        <4>. QED
          BY <1>1, <3>1, <4>1 DEF Finalizing, Run
      <3>2. CASE RejectRecovery(r)
        BY <1>1, <3>2 DEF RejectRecovery, Run
      <3>. QED
        BY <1>7, <3>1, <3>2 DEF FinalizeReview, FinalizeRecovery
    <2>. QED
      BY <2>1 DEF CountInv, Review
  <1>. QED
    BY <1>1, <1>2, <1>3, <1>4, <1>5, <1>6, <1>7, WhoWrites DEF Writes

(* The counters of a run under review agree with its proposals             *)
(* (runs.publish_validating_run, proposals.transition_decision,            *)
(* transition_accept), so finalize_run's comparison never fails.           *)
THEOREM CountersExactHolds == Spec => []CountersExact
  <1>1. Init => Counted
    <2> SUFFICES ASSUME Init, NEW r \in RunIds PROVE CountInv(r)
      BY DEF Counted
    <2>1. CASE runs = [i \in RunIds |-> NoRunRow]
      BY <2>1 DEF CountInv, NoRunRow, Review
    <2>2. CASE \E q \in RunIds, t \in Chronologies, c \in Contents : Seeded(q, t, c)
      BY <2>2 DEF Seeded, CountInv, NoRunRow, Review
    <2>. QED
      BY <2>1, <2>2 DEF Init
  <1>2. Inv /\ Counted /\ [Next]_vars => Counted'
    BY CountStep
  <1>3. Counted => CountersExact
    BY DEF Counted, CountInv, CountersExact
  <1>. QED
    BY <1>1, <1>2, <1>3, ImportInvariant, PTL DEF Spec
=============================================================================
