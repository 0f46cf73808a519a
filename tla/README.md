# SOMA: models, checks and proofs in TLA+

SOMA (Service Operations Management Application) is a local, single-host program.
One Python process serves a loopback HTTP interface to one operator and keeps all
of its state in one encrypted SQLite database. It imports ticket exports, turns
them into proposals the operator reviews, plans and records the tasks that follow
from the tickets, keeps an inventory of spare parts, and reports on service levels.

This directory models the foundation of SOMA and the domain components that stand on
it, checks the models with TLC on small instances and proves the safety
properties of all of them with TLAPS for all instances. `soma/` below stands for `src/src/soma/`. `PROJECT.json` names, for every definition, the source lines it
translates.

## 1. The system

### 1.1 Components

| component | state it keeps | operations | modelled in |
|---|---|---|---|
| Durable jobs, `soma/foundation/jobs` | `durable_jobs`, `job_attempts` | enqueue or coalesce, claim, checkpoint, complete, fail, cancel, stale-claim recovery, reconciliation after restore | `DurableJobs`, `JobContracts` |
| Command boundary, `soma/foundation/application` | `command_receipts`, `command_receipt_results` | `execute`: lookup, prepare, apply, audit, result, commit | `CommandBoundary`, `CommandLedger` |
| Unit of work and write gate, `soma/foundation/persistence` | write lock, admission count | enter, commit, exit, quiesce, wait, reopen | `CommandBoundary`, `HostRuntime` |
| Host runtime, `soma/foundation/runtime` | host state, instance lock, registry record, server, executors | `start`, `request_shutdown`, `quiesce`, `shutdown`, `retry_failed_cleanup` | `HostRuntime` |
| Ticket import, `soma/ticket_import` | `import_runs`, proposals, decisions, recovery reviews, source checkpoints | start a source check, stage, publish, decide, review a recovery, finalize, record a newer identical check | `ImportRuns` |
| Inventory, `soma/inventory` | needs, units, reservations, requests, RMAs, consequences, fault tags, proposals, attention rows | plan, reserve, release, move, submit, authorize, receive, correct, tag, decide, resend, delete | `Stock`, `FaultTags` |
| Objectives and tasks, `soma/objectives_tasks` | tasks with plans, evidence, outcomes, locks; objectives with envelope and aggregate; provider tasks, lineages, retries; regroup proposals | plan, execute, correct, review, lock, retry, join, archive, restore, cancel, group, merge, delete | `Objectives`, `WfmTasks`, `Grouping` |
| Tickets, `soma/tickets` | service requests, RFCs, hierarchy, links, archive operations, terminal epochs and cascades | create, adopt, link, reparent, detach, archive, restore, accept a source status, capture, refresh and execute a cascade, hard delete | `ServiceRequests`, `Rfcs` |
| Product lines and SLA, `soma/product_line_sla` | catalogue, classifications, batches; report attempts, staged rows, workbooks | classify, clear, batch; start, generate, publish, cancel a report | `SlaClassification`, `SlaReports` |
| Customers, `soma/reference` | lifecycle of a customer | archive, reactivate | `ServiceRequests` (part) |
| Source presence, `ticket_import/jobs/sr_reappearance.py`, `tickets/sr_source_presence.py` | presence events of a service request, reappearance jobs | propose and review a disappearance, confirm a reappearance | `SourcePresence` |
| Migrations, backup and restore, `soma/foundation/migrations`, `persistence/backup_snapshot.py` | migration ledger, database files | initialize, migrate, snapshot, restore | not yet |
| Contacts, dispatch points, settings, `soma/reference` | single rows | edit under a revision | no |

### 1.2 How they interact

Every change of domain data is a *command*: a handler builds an envelope and calls
`CommandBoundary.execute`, which opens a unit of work, looks for a receipt of the
command id, lets the handler validate and change the domain in that unit of work,
writes the audit event and the answer, and commits. The database has one writer at
a time (`BEGIN IMMEDIATE`), so commands are serial; what is *not* serial is
everything around them: what a thread read in a snapshot, what it holds in memory
between two units of work, and what it was told by an answer that may have been
lost. Long work is a *durable job*: a worker holds a claim, does its work in many
units of work, and stores a checkpoint in the job row; another attempt continues
from there. Every unit of work of a worker asserts that the claim is still current.
In front of all units of work stands the write gate of the process, which the host
closes when it shuts down; and behind everything stands the instance lock, which
says which process may touch the database at all.

Nothing in the repository calls `claim_next`, `recover_stale_claims`,
`reconcile_restored_jobs`, `cancel`, or `HostRuntime.start`, `shutdown` and
`retry_failed_cleanup`, apart from the report cancellation and the tests: their
caller is external, so the models let these operations be called at any moment
their own guards allow.

### 1.3 What is hard

* **Late workers.** A claim may be taken away while its worker is in the middle
  of something. The worker goes on until it meets the claim check.
* **Crashes** between any two units of work, and inside of one.
* **Lost answers** and repeated commands, with the same or another request.
* **Reading first, writing later.** The publication of an import run, the recovery
  of stale claims and the recording of a newer identical file all use, in one unit
  of work, what they read before it.
* **Two clocks' worth of order.** Files have an age, runs have an order of
  finalization, and these need not agree.
* **Shutdown against start.** The shutdown request is served by the very server
  that a start is still bringing up.
* **Failing cleanup.** Something that could not be stopped may still use the
  database, so the lock must not be given back.
* **One fact in several tables.** A reservation, a return, the state of an objective and
  the answer to a spare request are each stored several times; every command has to
  rewrite all of the copies, and there are dozens of commands.
* **Reviewed now, used later.** A cascade, an archive operation, a regroup proposal, a
  batch preview record what a user saw; the world moves before it is applied.
* **Files and rows.** A report is a row, a job checkpoint and a workbook, and nothing
  makes the three change together.

What makes each part correct follows in section 3, next to the run that checks it.
`PROJECT.json` lists each hazard at its line with the properties that watch it.

## 2. The modules

| module | models | about |
|---|---|---|
| `JobContracts` | `jobs/__init__.py` of three packages | coalescing, retry, crash and cancellation policy of the four job types |
| `DurableJobs` | `foundation/jobs/coordinator.py` | the job tables; extends `JobContracts` |
| `CommandLedger` | (abstract) | what the boundary promises: a command id is decided once, and answered only so |
| `CommandBoundary` | `command_boundary.py`, `command_receipts.py`, `uow.py`, `connections.py` | `execute` step by step; implements `CommandLedger` |
| `HostRuntime` | `runtime/host.py` with lock, registry, server | the life of competing processes |
| `ImportRuns` | `ticket_import/commands`, `jobs/source_check.py`, `repositories` | one source family, from the start command to the source checkpoint |
| `Stock` | `inventory/services/needs_stock.py`, `requests_rma.py`, `consequences_logistics.py`, their repositories | needs, units, reservations, spare requests, RMAs, consequences, logistics |
| `FaultTags` | `inventory/services/fault_tags.py`, `corrections_bulk.py`, `hard_delete.py`, their repositories | tags, warehouse decisions, proposals, evidence corrections; extends `Stock` |
| `Objectives` | `objectives_tasks/services/task_planning.py`, `task_execution.py`, `task_review.py`, `objectives.py`, `hard_delete.py` | tasks, objectives, envelope and aggregate |
| `WfmTasks` | `wfm_import*.py`, `source_terminal.py`, `historical.py`, `task_activity_review.py` | provider tasks, their sources, retries and lineages; extends `Objectives` |
| `Grouping` | `services/grouping.py`, `jobs/grouping_recompute.py` | candidates, proposals, the recompute worker; extends `WfmTasks` |
| `ServiceRequests` | `tickets/service_requests.py`, `sr_*.py`, customer lifecycle | what RFCs and SLA share |
| `SourcePresence` | `sr_reappearance.py`, `providers/sr_source_presence.py`, `advanced_search_disappearance.py`, `tickets/sr_source_presence.py` | disappearance and reappearance of service requests; extends `ServiceRequests` |
| `Rfcs` | `tickets/rfc*.py`, `relationships.py`, `_rfc_terminal_cascade_*.py` | hierarchy, links, archive, terminal cascade, hard delete; extends `ServiceRequests` |
| `SlaClassification` | `product_line_sla/services/catalog.py`, `classification.py`, `batch_classification.py` | catalogue, mappings, single and batch classification; extends `Rfcs` |
| `Tickets` | | `SlaClassification` and `SourcePresence` over the same service requests: `Init`, `Next`, `Spec` of the ticket components |
| `SlaReports` | `report_orchestration.py`, `report_worker.py`, `jobs/report_generation.py`, `artifacts` | one report with its job, worker and files |
| `MC*` | | the instances for TLC |
| `*Proofs` | | theorems and their proofs |

`EXTENDS` is also how components are composed: a command of one component that calls
another in its own unit of work (a consequence that opens a return, an execution event
that rebuilds an objective, a customer change that clears a classification) is one action
over the variables of both.

**`DurableJobs`.** `jobs` is `durable_jobs` (a row with state `"none"` is an absent
row), `attempts` is `job_attempts`, `issued` remembers every claim a worker was ever
given, `run` is the process run, `recovery` the progress of `recover_stale_claims`.
One action is one operation of the coordinator, which is one unit of work;
`recover_stale_claims` is several, because it reads its two lists outside of any.
An operation that raises rolls back and is therefore not a step. The clock reading
of an operation is any member of `Clock`: callers read it before they wait for the
write lock, and it may go back. The table a first start finds may hold rows from
before the dedupe column existed and rows of a type that is no longer registered.
Payloads and checkpoint contents are reduced to the identity of what wrote them.

**`CommandBoundary`.** `db` is the committed database, `tx` what the open transaction
would commit, `owner` the thread holding the write lock, `gate` the admission gate
and `pc`, `call` the callers. `execute` is one action per group of statements, so
that a raise (`Raise`), a failing `BEGIN` (`BeginFails`), a crash (`Crash`) and a lost
reply (`LoseReply`) can happen between any two. A request stands for the request
hash; the version of the domain stands for the answer computed from it.

**`HostRuntime`.** `host` has the attributes of each `HostRuntime` object and the
program counters of its threads; `osLock` the lock byte, `registry` the registry file.
`start`, `shutdown` and the cleanup they share are one action per call they make.
The two executors and the loopback socket are started one by one, as each may fail.
`request_shutdown` runs in a server thread and takes its four unprotected steps
separately. Each step of a start may raise; in a cleanup, each may raise, and the
drains may time out.

**`ImportRuns`.** `runs`, `proposals`, `suppressed`, `source`, `reviews`, `receipts`
and `jobs` are the tables; `workers` is what each attempt holds in memory, lost claims
included; `reappear` the runs for which reappearance work was queued. One action is
one unit of work, or one read snapshot whose result a later unit of work uses
(`Preflight`). `CanX` is what the unit of work of step `X` checks; when it does not
hold the worker gets an error and ends (`Refused`), as it does when anything else raises
(`Stumble`). Nothing in the repository then calls `fail` for it: the job stays `running`
under its claim until whoever owns it does (`FailClaim`) or the claim is found stale
(`LoseClaim`). What a worker reads in one step and writes in the next (`SeeSource`,
`NoteSource`) is two actions.
A file is its age (`chronology`), its content and its number of parser batches; the
proposals a file gives rise to are any set of material inputs. The coordinator's
part is reduced to claiming, losing and retrying (section 7); which of the rows that are
due `claim_next` looks at is left open.

**`Stock`, `FaultTags`.** One variable for each table and its current projection, by
identifier; `attention` is the set of rows of `inventory_attention_projection`. One action
is one command. A command names the revision and the fingerprint its user saw and is
refused when they have moved, so an action acts on current rows. Names, texts, e-mail
evidence and dates are left out; the service request and the BOM of an identifier are
constants, since nothing ever changes them. A bulk action is the sequence of its items:
each runs the single command under an identity of its own, which `CommandBoundary` makes
harmless to repeat. The removed device part of a consequence and the unit of a membership
are kept by identifier, since two RMAs without a target may name the same one. `bound` is the set of identifiers a behaviour may use.

**`Objectives`, `WfmTasks`, `Grouping`.** `task` holds what belongs to a task (immutable
plan revisions and execution events are sequences, a revision is a length), `obj` the
objectives in tracking order with their stored envelope and aggregate. Every command that
touches a member ends, as in the code, with the rebuilding of the objectives concerned
(`Commit`). Two sets of objective states matter: those planning and regrouping respect
(`Closed`) and the larger one of plan corrections and unlocks, which leave a running or
awaiting objective alone as well (`Held`). A task has one lineage identifier, with the decision
that gave it; a fresh identifier is the set of the tasks it was given to. Instants and intervals are small numbers: only their order counts. The worker
of a recomputation takes its snapshot in one step and publishes one candidate in each of
the following ones, and may die in between; `basis` is what a candidate's fingerprint
hashes. `bound` says which tasks and groups of commands a behaviour may use.

**`ServiceRequests`, `Rfcs`, `SlaClassification`.** `cmd` counts accepted commands and names
the evidence, epochs and events they create. What is reviewed in one command and used in
another is state: `ops` (members of an archive operation), `proposals` (scope of a
cascade), `batch` (the preview of a batch). Provider tasks appear as their owner, their
revision and whether they are open, ended or ended for good (an end may be withdrawn); what ending them does to objectives is in
`WfmTasks`. A batch has attempts that may die between two items, be repeated and overlap;
`receipts` is what the command boundary keeps of its items.

**`SourcePresence`.** `population` has the published exports with their age, their class
and how each official number is observed in them, `accepted` the source checkpoint,
`absence` the disappearance proposals, `presence` the events of a service request, `rjob`
the job of a run with its cursor and the number in hand, `answered` the receipts of its
commands. The worker's command and its checkpoint are two steps, and the claim may be
lost between them. The rest of a run's life is in `ImportRuns`: here publication is one
step, and a recovery is authorized whenever it is finalized.

**`SlaReports`.** `attempt` and `staged` are the tables of a report, `job` its job row with
the checkpoint, `receipts` the receipts of the worker's commands, `disk` the candidate and
the final workbook, whose name another file may have taken, `worker` the process with its place in `run_to_completion`, `live` the
version of the rows the report is about. Each checkpoint, command and file operation is a
step; death of the worker, damage to the candidate and cancellation may come between any two.

Each module also defines *faulty variants* of some of its operators, named as such:
plausible mistakes in the code they translate. With a variant in the place of the
original, the property it is paired with in `PROJECT.json` fails, so no property
holds merely by the shape of the model.

## 3. The runs

All bounds are constants of the modules.

| run | instance | shows |
|---|---|---|
| `jobs` | one job through all retries of its contract, on a clock with the readings 0, 5, 40, 200 that make the delays fall due; or two rows, retired types among them; two process runs after the seed's | every claim ever given is held or closed exactly once (`ClaimsAccounted`), attempts follow each other in time although the clock jumps (`AttemptsInSequence`), no late worker overwrites its successor's checkpoint (`CheckpointFenced`), the retry budget is kept, except that a report is reclaimed after a lost claim (`RetryBudget`), at most one row answers for a dedupe identity (`OneJobPerIdentity`), recovery leaves no stale claim (`RecoveryComplete`) and ends (`RecoveryEnds`) |
| `command_boundary` | two callers, two command ids, two requests, one crash, one shutdown of the gate | a command is whole or absent and happens once (`ExactlyOnce`), a drained gate means no open transaction (`DrainedIsQuiet`), refinement of `CommandLedger` (`LedgerSpec`), a closed gate drains (`GateDrains`) |
| `host` | one process with two starts, a writer, work and two faults; or two processes that race, with one fault | writers, work, the server, a start from migration on and the checkpoint of a shutdown that still owns its server have the lock (`OwnerWhileBusy`), the registry names the host that is READY (`ReadyIsPublished`), a failed start is cleaned up in the end (`FailedIsCleanedUp`) |
| `imports` | two checks and a seeded run, two ages, two contents; with two attempts each and two faults and no proposals, or without faults and with two material inputs, one of them blocked | counters agree with proposals (`CountersExact`), reappearance work exists for current evidence only (`ReappearanceIsCurrent`), a run is published whole (`PublishedIsWhole`), a job completes only when its run is settled (`CompletedIsSettled`), the source checkpoint only moves forward (`SourceMovesForward`) |
| `inventory` | eleven shapes of a few identifiers each, from empty stock, from one authorised RMA, or from two open returns, of different parts or of the same | the four records of a reservation agree and a used unit is promised to nobody (`ReservationMirror`), a request promises what its RMAs say (`RequestCounts`), no part is replaced twice (`TargetExclusive`), an open return is always shown (`OpenReturnsShown`) and travels under one tag, and so does its unit (`ExclusiveReturn`), tags follow their members (`TagCounters`), a hard delete leaves nothing dangling (`NothingDangles`) |
| `work` | sixteen shapes of up to three tasks and three objectives, from nothing, from one or two objectives or from a historical one | the stored aggregate is what the rows derive (`AggregateFresh`), current objectives do not overlap and their envelopes are the hull of their plans (`EnvelopesDisjoint`), the execution state is what the evidence folds to (`ExecutionAccounted`), the tasks of a lineage agree on the decision, and one is alone exactly where it was called distinct (`LineagesAgree`) |
| `tickets` | three RFCs, two service requests, two customers, two provider tasks, a small catalogue; five commands of some groups, from empty tables, from a branch or from a catalogue; or an accepted export and two more of two ages, with one lost claim, while a number is given to a second request | a pending cascade is about the current closure (`PendingIsCurrent`) and ends exactly the open work of its branch (`ExecutesWholeBranch`), an archived RFC is restored by one operation (`RestorableOnce`), the hierarchy is a sound forest (`BranchIsSound`), a classification stays under an active contract of the current customer (`ClassifiedWithinCustomer`), a repeated batch applies an item once and its summary is true (`BatchSummaryIsTrue`), a disappearance warning does not outlive the worker of a newer export that has the number (`WarningIsCurrent`) |
| `sla_reports` | one report of three batches, four faults, six claims, two changes of the live rows, a foreign file under the final name, a cancellation at any point | a completed report is one consistent snapshot and its workbook says the same (`CompletedIsExact`), job and report end alike (`JobAgrees`), a new claim accepts whatever a dead worker left (`RecoveryAccepts`) |
| `host_acknowledged`, `host_checkpoint`, `work_running`, `work_members` | as the passing runs | the disagreements of section 6 |

Two of each kind are enough to make the cases meet that the properties are about: a
late worker and its successor, two processes that want the lock, two runs of one
family with every relation of age and content, two returns and a third tag to carry
them again, two objectives that touch and a task between them, a root with a subordinate
and a third RFC to move it to. For the safety properties the theorems below remove the bounds altogether.

Some MC modules put two or more small instances into one (`Bounded`, `bound`, `use`, the
shapes): a behaviour moves inside one of them, so that the sum and not the product of
their sizes is explored. The shapes of a domain component start from states that its
commands produce, written down because reaching them would use up the bounds. A property
that fails only where commands of groups that never share a shape meet is out of their
sight; the groups are chosen by the variables the commands have in common.

Symmetry is used in `imports`, over jobs, runs and contents, and in `tickets`, over the two
exports that are not in the seed; neither run has a liveness property, and nothing in the
modules chooses among the permuted values by identity.

`CHECK_DEADLOCK FALSE` is set where a behaviour may come to rest: when all jobs are
done and the bounded clock, runs, faults or commands are used up, the system has nothing
to do until somebody asks for more. `CommandBoundary` never rests, since a caller can
always submit again, and its run checks for deadlock.

### Fairness

* `jobs`: weak fairness of the steps of `recover_stale_claims` that has begun,
  a loop without waiting. Nothing is assumed of who calls the coordinator.
* `command_boundary`: weak fairness of a thread that is inside the gate. The wait for
  the write lock is bounded by SQLite's busy timeout, after which `BeginFails`; handler
  callbacks are finite.
* `host`: weak fairness of the owning thread, of requests and running work, of
  a server told to exit, and of the owner's `retry_failed_cleanup`, which is what the
  method is for. A cleanup that fails is one of the bounded faults.
* `imports`: none. Nothing in the repository claims, fails or recovers a source check by
  itself, so that a check ends cannot be promised; the run is about safety.
* `sla_reports`: none. That a report that was started ends in time is *not* true of the
  code: the recovery of a report job has no budget (`product_line_sla/jobs/__init__.py:264-284`),
  so a raise that comes back with every attempt, such as a foreign file under the final
  name, is tried again for as long as the host is started. The run checks what is true,
  that no state an earlier claim left is refused.

## 4. What is proved

The theorems hold for every value of the constants under the assumptions the modules
state (`ConstantsAssumption`, `BoundaryAssumption`, `HostAssumption`, `ImportAssumption`,
`RequestAssumption`, `RfcAssumption`, `SlaAssumption`, `PresenceAssumption`,
`StockAssumption`, `TagAssumption`, `ObjectivesAssumption`, `WfmAssumption`,
`ReportAssumption`), which are
only about types, distinctness and, for callers, materials, device parts, RMAs, tags and
tasks, finiteness; and that a plan ends after it starts, which the schema checks. Any
number of jobs, callers, processes, runs, files, RFCs, service requests, exports, needs,
units, requests, RMAs, tags, tasks, plans, objectives, batches of a snapshot, faults.

* **`DurableJobsProofs`**: `TypeOK`, `AttemptLedger`, `ClaimsAccounted`,
  `AttemptsInSequence`, `OneJobPerIdentity`, `RecoveryComplete`, `FinalIsFinal`,
  `UpdatedMonotone`, `CheckpointFenced`, `RetryBudgetHolds`. None of the history properties is inductive
  alone: `CoreInv` is `TypeInv /\ FreshIds /\ Ledger /\ Accounts /\ Timeline`.
  `TypeInv` adds that a running row carries a complete claim; `Ledger` and `Accounts`
  are the two history properties element by element; `Timeline` adds that no attempt
  ends after its row was last updated, so that the next claim starts late enough.
  `RecoveryComplete` needs, in addition, that a stale or legacy row is still on the list
  of the phase that will treat it. `RetryBudget` needs `BudgetInv`: a queued row has not
  been tried, and a row that waits for a retry has one left, unless its last claim was
  lost and its contract forgives that.
* **`CommandBoundaryProofs`**: the invariant says for the one thread that holds the write
  lock how far its transaction is ahead of the database at each step, and for a thread
  that has committed that its answer is durable. From it follow `ExactlyOnce`,
  `RepliesAreDurable`, `DrainedIsQuiet` (which needs that the gate's count is the number
  of admitted threads) and `ImplementsLedger`: the initial states map, and every step
  maps to a step of `CommandLedger` or stutters; the decision is the COMMIT.
* **`HostRuntimeProofs`**: `OwnerWhileBusy`, `ReadyIsPublished`, `StoppedIsClean`; what the
  first leaves out, the checkpoint of a shutdown after the cleanup, fails (section 6). The
  invariant says at each step of a cleanup that does not retain ownership what has
  already stopped and cannot start again; when the lock is released, nothing is left.
  The lemma `Lift` carries a step of one host to all of them.
* **`ImportRunsProofs`**: all safety properties of `ImportRuns`. The inductive invariant
  ties four things together: what a job row says of its run (the cursor in the
  checkpoint counts the rows staged), what a run says of its job, what each worker
  holds (only the one with the claim has the current checkpoint; what was read before
  a commit still classifies the run), and what the source checkpoint says of the run it
  names. `SourceMovesForward` needs the revision bookkeeping of all four; the counters
  have an invariant of their own about cardinalities.
* **`TicketsProofs`**, about `Tickets`, in layers that follow the modules. `CoreInv` is the
  types of the service requests and `RfcInv`. Its part `BranchInv` adds to `BranchIsSound`
  that a row used in a hierarchy or a link is past revision 1, which is what keeps
  `hard_delete` away from it; `ArchiveInv` says that the last archive event of an archived
  row names an operation that lists it; `CascadeInv` says that epochs were given by earlier
  commands and that at most one cascade of an epoch is pending or executed, which gives `PendingIsCurrent` and, for the step
  that executes one, `ExecutesWholeBranch`. `SlaInv` (catalogue, classifications, batch)
  gives `ClassifiedWithinCustomer` and `BatchSummaryIsTrue`. The theorems are
  `BranchesAreSound`, `ArchivedIsRestorableOnce`, `CascadesAreCurrent`,
  `CascadeExecutesWholeBranch`, `ClassificationsFit` and `BatchSummaries`.
  The last part is about `SourcePresence`: `WarningsAreCurrent`, that is `WarningIsCurrent`,
  speaks of jobs that have ended; inductive is what is true while one runs (`StillAhead`): as long as
  a newer ordinary export contradicts a warning, the worker of that export has not answered
  for the number and its cursor is before it. This uses that a number belongs to one
  request (`NumbersUnique`), that what proposals, jobs and events refer to is there
  (`RunsKnown`), and that the number a worker has in hand was answered (`HandAnswered`), so
  that moving the cursor passes nothing over.
* **`InventoryProofs`**, about `FaultTags` on top of `Stock`: seven invariants, each with the
  strengthening it needs, the later ones on the earlier.
  `ReservationsMirror` rests on `UnitInv`, which adds that a reserved unit is touched
  (`ReservedIsTouched`): that is what keeps `hard_delete_unit` away from it.
  `TagsCounted` and, for the RMAs, `ReturnsExclusive` rest on `TagInv`: the RMA and its membership name each
  other (`Linked`), one acceptance closes an obligation (`AcceptedOnce`), the states of
  a tag and of its members fit (`StatesFit`), the projection counts the members (`Counted`), and
  in a tag that has ended every member is decided (`Finished`). For the units `ReturnsExclusive` needs `UnitsExclusive`
  besides: only a submission makes a membership active, and its check of the unit covers
  the tags submitted before.
  `TargetsExclusive` (`PartInv`) has to show that the batch of a response gives its RMAs
  different parts: each takes the part whose rank among the free ones is its place in the
  batch, and rank is injective (`RankGrows`, `NthRank`, `BatchTargetsDiffer`).
  `ReturnsShown` (`ShownInv`) says that an open obligation and a received unit are shown, and
  that an obligation is grounded in the consequence that selects its unit; the lemmas about
  attention keys show that rebuilding the rows of one RMA or membership hides no other.
  `RequestsCounted` (`RequestInv`) adds that a draft has no RMA; the sum of the submitted
  quantities is the same term before and after a response, so nothing has to be known of how
  it is computed.
  `NoRowDangles` (`DangleInv`) is about the hard deletes: all other commands leave what exists
  (`DevicesStay`, `RmasStay`, `UnitsStay`), and a delete is refused as soon as a row is
  touched, so every reference is shown to come with a touched target: the need of a
  reservation, a unit that was shipped, the return unit of an obligation once established.
* **`WorkProofs`**, about `Grouping` on top of `WfmTasks` and `Objectives`:
  `AggregatesAreFresh`, `EnvelopesAreDisjoint`, `ExecutionsAreAccounted` and
  `LineagesDoAgree`, all from `WorkInvariant`. The invariant is `EnvelopesDisjoint`,
  `AggregateFresh` and `CoreInv`: the rows have their types, a membership names an objective
  that was not deleted and a plan its task has had (`MemInv`), the stored execution is the
  fold of the evidence and an unstarted one has no instants (`ExecInv`), the tasks that carry a
  lineage's identifier are there and are those it was given to (`LineageInv`), and so is the task of a historical proposal
  (`HistInv`).
  The fold is a recursive function, and what a command does to it is shown without an
  induction scheme, by a smallest counterexample (`WFMin`): appending an event folds it on top
  (`FoldAppend`), and from a sane state the fold stays sane (`FoldSane`). In the same way every
  finite set of plans has a hull (`LeastOf`, `GreatestOf`, `HullType`).
  An aggregate depends only on what its members show (`DeriveLocal`, `DeriveSame`), so a command
  falls under one of a few kinds, each with one lemma: it moves nothing an objective shows
  (`Quiet`), it changes members and rebuilds their objectives (`CommitOne`, `CommitMany`), it
  replaces a plan, and the pinned one stays (`Replanned`), it deletes an objective or a task
  (`DeleteObjectiveKeeps`, `DeleteTaskKeeps`), or it puts a set of tasks into an objective whose
  new envelope meets no other (`Joining`: creation, historical acceptance, regrouping).
  That new envelopes meet no other is what the commands check last; what has to be derived is
  that this check suffices. Accepting a regrouping takes the candidate again from the
  current rows, so that the tasks it moves come from no objective but the survivor and those
  it supersedes (`CandidateOk`): no other loses a member, and with it its envelope.
  `AggregateFresh` has one exception, which the proof needs in full: a plan correction passes
  over an objective that is historical or in one of the five states of `Held`
  (`task_plan_correction.py:23-25,72-78`), where the rows derive a `plan_membership_mismatch` and
  the stored aggregate has no attention. The run has shapes that reach both. And `insert_candidate` needs the tasks and objectives of a candidate to be there still, as the
  foreign keys of its changes demand (`0006_objectives_tasks.sql:314`): the worker
  publishes from an older snapshot.
* **`SlaReportsProofs`**: `CompletedReportsAreExact` and `JobsAgree`. `ReportInv` says what the
  states of an attempt mean for its snapshot and files (`AttemptInv`), that receipts belong
  to claims that were given and a terminal one tells how the report ended (`ReceiptInv`),
  what the checkpoint promises the worker that resumes from it (`CheckpointInv`), and, for
  every place of the worker, what it may rely on (`WorkerInv`). The argument turns on the
  identity of a command, which contains the claim: while a worker stages, no receipt of
  its own claim is for the batch at hand, so a staged row is always one of the view it has
  open, and the seal covers rows of one version. A file counts only after it was compared
  with the seal, and `completing` is entered only with the final file in place.

Some of these are proved and not part of a run, because the theorem says more than an
instance would: `AttemptLedger`, `FinalIsFinal`, `UpdatedMonotone` (`DurableJobs`),
`RepliesAreDurable` (`CommandBoundary`), `StoppedIsClean` (`HostRuntime`), `OneRunPerJob`,
`SourceNamesFinishedRun`, `NoopBringsNoContent`, `FinishedIsFinal` and `DecidedStaysDecided`
(`ImportRuns`), and the type invariants.

Only checked, not proved: the liveness properties (`RecoveryEnds`, `GateDrains`,
`FailedIsCleanedUp`), which are out of the prover's reach
together with `ENABLED`, and the action property `RecoveryAccepts`. Every invariant and every
other action property of a passing run is stated by a theorem. The disagreements with a run are counterexamples.

## 5. Correspondence and abstraction

* An operation that raises rolls back its unit of work; it is a step only where the
  raise has an effect outside of it (the gate, a worker that ends, a job that fails).
* Hashes are what they identify. Two different inputs never have the same hash.
* Identifiers from `new_uuid4` are unused members of a set.
* Corrupt rows (the many `IntegrityFailure` checks) are not modelled: the tables
  start in states the code can write. The checks that guard against what *another
  actor* may have done since are modelled, every one.
* `retry_wait` and its delay are modelled in `DurableJobs`; `ImportRuns` folds them into
  `queued`.

## 6. Where the code and its documents disagree

With a run that shows it:

1. **A shutdown that was acknowledged is forgotten** (`host_acknowledged`).
   `start()` sets `READY` without looking at the state (`runtime/host.py:367`). A
   shutdown request that the new server has answered since the self-health probe has
   set `QUIESCING`; it is overwritten, and the host reports READY with its gate and
   executors closed.
2. **A checkpoint without ownership** (`host_checkpoint`). `quiesce()` reads the state and
   writes it later (`runtime/host.py:470-473`). If the start fails in between, its cleanup
   releases the instance lock, the state becomes `QUIESCING` again, and a later `shutdown()`
   opens the database and checkpoints the WAL without holding the lock.
3. **A task runs again with its outcome** (`work_running`). A correction that withdraws the
   end of a reviewed task keeps the outcome row (`task_execution.py:1112`);
   `end_task_execution` takes that for corruption (`:975`), and no other command ends,
   starts or cancels the task.
4. **A member is left in a superseded objective** (`work_members`).
   `accept_regroup_proposal` moves the members that are still eligible
   (`grouping.py:1292`). One whose membership was locked or whose work was decided since the
   proposal stays behind, and `_eligible_workset_count` (`grouping.py:125`) raises an
   integrity failure on every later recomputation.

Met with TLC while modelling and kept here without a run:

5. **An overtaken run cannot be finalized.** `docs/implementation/pre_lld08_import_traceability.json:809`
   says that a run whose proposals are all decided may be finalized;
   `establish_or_advance_finalized` (`ticket_import/repositories/runs.py:486`) refuses when a
   newer file was finalized first, and no other command ends the run.
6. **A newer identical run can stay pending for ever** (`finalize_run.py:466`). The
   command that should advance the source checkpoint insists on the revision noted
   before; when another run has advanced it, the job fails with a code that is not
   retried, and the run stays in `noop_pending_checkpoint`, contrary to line 1387 of the
   same document.
7. **Subordinates of different customers.** A subordinate is compared with its root only
   (`tickets/rfc_hierarchy.py:204-211`), so a root without a customer may have subordinates of
   two; `pre_lld08_tickets_traceability.json:227` says "known different Customers block
   hierarchy mutation".

Smaller things a maintainer may want to know: overlapping attempts at one batch can
report as rejected an item the other attempt applied; the revision of a classification
starts again at 1 after it was cleared; a late inbound receipt sets the state of an RMA
back to `received`; `correct_false_submission` revives a cancelled request; a reappearance
job that meets a warning its evidence is not newer than raises a code that is not retried
(`sr_reappearance.py:444`), and the numbers behind it in the same export are looked at by
nobody; of two ordinary exports of one age, the finalization of one does not clear a warning
accepted from the other; a request for grouping that is coalesced onto a job which has taken
its snapshot (`grouping.py:830`) leaves what changed in between to the next request. The properties
are stated so that they say what the code guarantees in these cases.

## 7. Not modelled, and the plan

Not to be modelled: parsing of workbooks, HTTP decoding, read-only queries, audit
payload registries, schema verification and rendering of reports: they keep no state
or change none. Contacts, dispatch points, notes and settings are single rows edited under
a revision. The SLA algorithms are arithmetic on timestamps.

Left for later, in the order of their weight:

1. **`DatabaseFiles`**: clean initialization, migration ledger, snapshot and restore with
   crashes between the renames; composes with the instance lock of `HostRuntime`.
2. **Composition of the cascade with the tasks**: `Rfcs` ends the provider tasks of a
   branch, `WfmTasks` says what that does to their objectives; today each module has its
   own view of the shared rows.
3. `SourcePresence` on top of the runs of `ImportRuns`; the coordinator of `ImportRuns`,
   `SlaReports` and `SourcePresence` as an abstraction of `DurableJobs`.
