-------------------------------- MODULE Grouping --------------------------------
(***************************************************************************)
(* Regrouping: the candidates a snapshot of tasks and objectives gives,    *)
(* the proposals made of them at once or by the recompute worker, and      *)
(* their acceptance, rejection and reconsideration.                        *)
(*                                                                         *)
(* A candidate carries the rows it was computed from (basis): its          *)
(* fingerprint is equal exactly when they are.                             *)
(***************************************************************************)
EXTENDS WfmTasks

CONSTANTS MaxProposals,      \* bound on the proposals ever made
          MaxBatch           \* recompute_grouping_proposals works at once up to this many tasks

VARIABLES pending,     \* regroup_proposals in state pending
          suppressed,  \* rejected inputs not reconsidered
          made,        \* proposals ever inserted
          job          \* the recompute job: idle, queued, or the candidates left to publish

groupVars == <<pending, suppressed, made, job>>
vars == <<coreVars, wfmVars, groupVars>>

Idle == [state |-> "idle", left |-> {}]

Init ==
    /\ WfmInit
    /\ pending = {} /\ suppressed = {} /\ made = 0
    /\ job = Idle
    /\ bound.plans \subseteq Intervals /\ bound.at \subseteq Instants

-----------------------------------------------------------------------------
(* The snapshot. *)

OpenWork(t) ==
    /\ task[t].plans # <<>> /\ task[t].out = None
    /\ source[t].class \notin TerminalSource

Activities == {t \in Live(task) : OpenWork(t) /\ task[t].x.st \notin {"ended", "terminated"}}

strict_overlap_member_ids(S) ==
    {t \in S : \E u \in S \ {t} : /\ SameLineage(t, u)
                                  /\ StrictOverlap(CurrentPlan(task[t]), CurrentPlan(task[u]))}

_competing_task_ids == strict_overlap_member_ids(Activities)

Ungroupable == {t \in Live(task) : OpenWork(t) /\ task[t].x.st = "not_started"} \ _competing_task_ids

(* Every member's objective is current: what _eligible_workset_count takes for *)
(* granted, raising an integrity failure for the whole recompute otherwise.    *)
MembershipsCurrent == \A t \in Live(task) : task[t].mem # None => task[t].mem.o \in Current(obj)

(* Loading the snapshot fails on such a member only if its work is open. *)
SnapshotLoads == \A t \in Ungroupable : task[t].mem # None => task[t].mem.o \in Current(obj)

GroupingTasks ==
    {t \in Ungroupable : "membership" \notin task[t].lock /\ ~ObjectiveProtects(task[t], Closed)}

(* Sweep by start: a component opens where every earlier plan has ended. *)
Opening(S) ==
    {t \in S : \A u \in S : CurrentPlan(task[u])[1] < CurrentPlan(task[t])[1]
                                => CurrentPlan(task[u])[2] <= CurrentPlan(task[t])[1]}
strict_overlap_components(S) ==
    LET starts == {CurrentPlan(task[t])[1] : t \in Opening(S)}
        from(a) == {t \in S : /\ CurrentPlan(task[t])[1] >= a
                              /\ \A b \in starts : b > a => CurrentPlan(task[t])[1] < b}
    IN {from(a) : a \in starts}

Span(C) == Hull({CurrentPlan(task[t]) : t \in C})

ObjectivesOf(C) == {task[t].mem.o : t \in {u \in C : task[u].mem # None}}

_split_objectives(comps) ==
    {o \in Current(obj) : \E C, D \in comps : C # D /\ o \in ObjectivesOf(C) /\ o \in ObjectivesOf(D)}

(* Rows the fingerprint covers. *)
Basis(C, A) ==
    [tasks |-> [t \in C |-> [task[t] EXCEPT !.touched = TRUE]],
     objectives |-> [o \in A |-> <<obj[o].env, obj[o].agg.st>>]]

Candidate(kind, risk, survivor, moves, A) ==
    [kind |-> kind, risk |-> risk, survivor |-> survivor, moves |-> moves,
     supersede |-> IF kind \in {"consolidate", "manual_merge"} THEN A \ {survivor} ELSE {},
     basis |-> Basis(DOMAIN moves, A)]

ChangeKind(t, survivor) ==
    IF task[t].mem = None THEN "add"
    ELSE IF task[t].mem.o # survivor THEN "move"
    ELSE IF task[t].mem.p # Len(task[t].plans) THEN "repin"
    ELSE "unchanged_context"
Moves(C, survivor) == [t \in C |-> ChangeKind(t, survivor)]

Least(A) == CHOOSE o \in A : \A q \in A : o <= q

(* One objective is met: it takes what is not yet in it.  While it runs it *)
(* takes only work inside its envelope.                                    *)
JoinCandidate(C, o) ==
    LET changed == {t \in C : ChangeKind(t, o) # "unchanged_context"}
        running == obj[o].agg.st = "in_progress"
        inside == \A t \in changed : /\ ChangeKind(t, o) \in {"add", "repin"}
                                     /\ CurrentPlan(task[t])[1] >= obj[o].env[1]
                                     /\ CurrentPlan(task[t])[2] <= obj[o].env[2]
        kind == IF \E t \in changed : task[t].mem = None THEN "join" ELSE "repin"
    IN IF changed = {} \/ (running /\ ~inside) THEN {}
       ELSE {Candidate(kind, IF running THEN "high" ELSE "normal", o, Moves(changed, o), {o})}

(* Several are met: the first in tracking order takes the members of all. *)
ConsolidateCandidate(C, A) ==
    LET members == {t \in GroupingTasks : task[t].mem # None /\ task[t].mem.o \in A} IN
    IF \/ \E o \in A : obj[o].agg.st # "planned"
       \/ ObjectivesOf(members) # A
    THEN {}
    ELSE {Candidate("consolidate", "normal", Least(A), Moves(C \cup members, Least(A)), A)}

ComponentCandidate(C, split) ==
    LET A == ObjectivesOf(C) \cup {o \in Current(obj) : StrictOverlap(obj[o].env, Span(C))} IN
    IF \/ A \cap split # {}
       \/ \E o \in A : \/ obj[o].origin = "historical_provider_complete"
                       \/ obj[o].agg.st \in Closed
    THEN {}
    ELSE IF A = {} THEN {Candidate("create", "normal", None, Moves(C, None), {})}
    ELSE IF Cardinality(A) = 1 THEN JoinCandidate(C, Least(A))
    ELSE ConsolidateCandidate(C, A)

_candidates ==
    LET comps == strict_overlap_components(GroupingTasks) IN
    UNION {ComponentCandidate(C, _split_objectives(comps)) : C \in comps}

(* Two planned objectives that touch exactly, merged on request. *)
_manual_exact_touch_candidate(o, q) ==
    LET A == {o, q}
        M == Members(task, o) \cup Members(task, q)
        union == <<obj[o].env[1], obj[q].env[2]>>
    IN IF /\ A \subseteq Current(obj) /\ o # q
          /\ \A a \in A : obj[a].agg.st = "planned" /\ obj[a].origin # "historical_provider_complete"
          /\ obj[o].env[2] = obj[q].env[1]
          /\ \A a \in Current(obj) \ A : ~StrictOverlap(obj[a].env, union)
          /\ M \subseteq GroupingTasks
          /\ \A t \in M : task[t].mem.p = Len(task[t].plans)
       THEN {Candidate("manual_merge", "normal", Least(A), Moves(M, Least(A)), A)}
       ELSE {}

-----------------------------------------------------------------------------
(* Proposals. *)

exact_pending(c) == c \in pending
rejection_suppressed(c) == c \in suppressed
Publishable(S) == {c \in S : ~exact_pending(c) /\ ~rejection_suppressed(c)}

(* A proposal is history of the tasks and objectives it names, which exist. *)
insert_candidate(S) ==
    LET tasks == UNION {DOMAIN c.moves : c \in S}
        objectives == UNION {DOMAIN c.basis.objectives : c \in S}
    IN /\ made + Cardinality(S) <= MaxProposals
       /\ tasks \subseteq Live(task)
       /\ objectives \subseteq {o \in DOMAIN obj : ~obj[o].gone}
       /\ pending' = pending \cup S
       /\ made' = made + Cardinality(S)
       /\ task' = [t \in Tasks |-> IF t \in tasks THEN [task[t] EXCEPT !.touched = TRUE] ELSE task[t]]
       /\ obj' = [o \in DOMAIN obj |-> IF o \in objectives THEN [obj[o] EXCEPT !.touched = TRUE]
                                       ELSE obj[o]]

(* Few tasks are regrouped at once. *)
recompute_grouping_proposals ==
    /\ "group" \in bound.use
    /\ MembershipsCurrent /\ Cardinality(GroupingTasks) <= MaxBatch
    /\ Publishable(_candidates) # {}
    /\ insert_candidate(Publishable(_candidates))
    /\ UNCHANGED <<source, review, bound, wfmVars, suppressed, job>>

request_manual_merge(o, q) ==
    /\ "group" \in bound.use
    /\ Publishable(_manual_exact_touch_candidate(o, q)) # {}
    /\ insert_candidate(_manual_exact_touch_candidate(o, q))
    /\ UNCHANGED <<source, review, bound, wfmVars, suppressed, job>>

(* Many are left to the worker; a request while one is queued or running *)
(* is coalesced onto it.                                                  *)
enqueue_recompute ==
    /\ "group" \in bound.use
    /\ MembershipsCurrent /\ Cardinality(GroupingTasks) > MaxBatch
    /\ job = Idle
    /\ job' = [Idle EXCEPT !.state = "queued"]
    /\ UNCHANGED <<coreVars, wfmVars, pending, suppressed, made>>

(* The worker computes all candidates from one snapshot... *)
WorkerSnapshot ==
    /\ job.state = "queued" /\ SnapshotLoads
    /\ job' = [state |-> "publishing", left |-> _candidates]
    /\ UNCHANGED <<coreVars, wfmVars, pending, suppressed, made>>

(* ... and publishes each in a transaction of its own, whatever has happened *)
(* to its rows, unless one of them is gone: that insert fails, and the job   *)
(* stays as it is until its claim is taken back.                             *)
WorkerPublish(c) ==
    /\ job.state = "publishing" /\ c \in job.left
    /\ job' = [job EXCEPT !.left = @ \ {c}]
    /\ IF Publishable({c}) = {} THEN UNCHANGED <<pending, made, task, obj>>
       ELSE insert_candidate({c})
    /\ UNCHANGED <<source, review, bound, wfmVars, suppressed>>

WorkerDone ==
    /\ job.state = "publishing" /\ job.left = {}
    /\ job' = Idle
    /\ UNCHANGED <<coreVars, wfmVars, pending, suppressed, made>>

(* The worker dies between two publications.  Recovery puts the job back, to  *)
(* start from a new snapshot, or fails it once its attempts, which are not    *)
(* counted here, are used up.                                                 *)
WorkerDies ==
    /\ job.state = "publishing"
    /\ job' \in {[Idle EXCEPT !.state = "queued"], Idle}
    /\ UNCHANGED <<coreVars, wfmVars, pending, suppressed, made>>

Settle(c) == pending' = pending \ {c}

reject_regroup_proposal(c) ==
    /\ c \in pending
    /\ Settle(c) /\ suppressed' = suppressed \cup {c}
    /\ UNCHANGED <<coreVars, wfmVars, made, job>>

reconsider_regroup_inputs(c) ==
    /\ c \in suppressed
    /\ suppressed' = suppressed \ {c}
    /\ UNCHANGED <<coreVars, wfmVars, pending, made, job>>

(* The current rows must still give the reviewed candidate. *)
_candidate_for_proposal(c) ==
    IF c.kind = "manual_merge"
    THEN \E o, q \in DOMAIN c.basis.objectives : c \in _manual_exact_touch_candidate(o, q)
    ELSE SnapshotLoads /\ c \in _candidates

_apply_membership_changes(c, o) ==
    Joined(task, {t \in DOMAIN c.moves : c.moves[t] # "unchanged_context"}, o)

_envelope_of_changes(T, c, o) == Envelope(T, DOMAIN c.moves)

_rebuild_survivor_envelope(T, c, o) == Envelope(T, Members(T, o))

(* Superseded objectives name the survivor; its envelope is the hull of    *)
(* what its members are pinned to.                                         *)
Regrouped(c) ==
    LET new == c.kind = "create"
        o == IF new THEN Len(obj) + 1 ELSE c.survivor
        T == _apply_membership_changes(c, o)
        env == _rebuild_survivor_envelope(T, c, o)
        base == IF new THEN Append(obj, NewObjective("automatic_grouping", env))
                ELSE [obj EXCEPT ![o].env = env]
        O == [q \in DOMAIN base |-> IF q \in c.supersede THEN [base[q] EXCEPT !.by = o] ELSE base[q]]
    IN [T |-> T, o |-> o, O |-> rebuild_aggregate(T, O, {o} \cup c.supersede)]

accept_regroup_proposal(c) ==
    /\ c \in pending /\ _candidate_for_proposal(c)
    /\ c.kind = "create" => Len(obj) < MaxObjectives
    /\ LET done == Regrouped(c) IN
       /\ _assert_no_overlap(done.O, done.o)
       /\ task' = done.T /\ obj' = done.O
    /\ Settle(c)
    /\ UNCHANGED <<source, review, bound, wfmVars, suppressed, made, job>>

-----------------------------------------------------------------------------

Plans == {<<>>} \cup {<<i>> : i \in bound.plans}

PlanNext ==
    \E t \in Tasks \cap bound.use :
        \/ \E plans \in Plans : create_local_task(t, plans, {})
        \/ \E i \in bound.plans : set_task_plan(t, i) \/ correct_task_plan(t, i)
        \/ \E kind \in {"plan", "membership"}, lock \in BOOLEAN :
               kind \in bound.use /\ set_explicit_task_lock(t, kind, lock)
        \/ \E l \in Links \cap bound.use, link \in BOOLEAN : change_task_relationship(t, l, link)

ExecutionNext ==
    \/ \E t \in Tasks \cap bound.use :
        \/ \E at \in bound.at : start_task_execution(t, at) \/ end_task_execution(t, at)
        \/ cancel_task_without_execution(t)
        \/ /\ t \in Live(task)
           /\ \E i \in DOMAIN task[t].ev, w \in BOOLEAN, at \in bound.at :
                 correct_task_execution_evidence(t, i, w, at)
        \/ \E out \in Outcomes : review_task_outcome(t, out) \/ correct_task_outcome(t, out)
    \/ \E o \in DOMAIN obj, S \in SUBSET Tasks, at \in bound.at :
        start_selected_objective_tasks(o, S, at)

ObjectiveNext ==
    \/ \E S, D \in SUBSET (Tasks \cap bound.use), i \in bound.plans : create_objective_from_preview(S, D, i)
    \/ \E o \in DOMAIN obj :
        \/ review_objective(o) \/ archive_objective(o) \/ restore_objective(o)
        \/ cancel_objective_before_execution(o) \/ hard_delete_objective(o)

CoreNext ==
    /\ \/ "plan work" \in bound.use /\ PlanNext
       \/ "execute" \in bound.use /\ ExecutionNext
       \/ "objectives" \in bound.use /\ ObjectiveNext
    /\ UNCHANGED wfmVars

WfmNext ==
    \/ \E t \in Tasks \cap bound.use :
        \/ \E no \in TaskNos \cap bound.use, r \in Rfcs \cap bound.use :
            \/ \E plans \in Plans : register_manual_wfm_task(t, no, r, plans)
            \/ \E class \in {"active"} \cup TerminalSource : create_or_adopt_wfm_from_source(t, no, r, class)
        \/ \E r \in Rfcs \cap bound.use : reassign_wfm_parent(t, r)
        \/ \E r \in Rfcs \cap bound.use, class \in {"active"} \cup TerminalSource : reassign_parent_from_source(t, r, class)
        \/ \E class \in {"active"} \cup TerminalSource, iv \in bound.plans \cup {None} :
               "source" \in bound.use /\ apply_wfm_source_projection(t, class, iv)
        \/ apply_reviewed_operational_plan_from_source(t)
        \/ \E d \in {"retain_local_work", "terminate_local_work"} :
               resolve_wfm_source_terminal_consequence(t, d)
        \/ \E p \in hist[t] : accept_proposal(t, p) \/ reject_proposal(t, p)
        \/ set_operational_count_inclusion(t)
        \/ "delete" \in bound.use /\ hard_delete_task(t)
        \/ \E s \in Tasks :
               /\ "retry" \in bound.use
               /\ \/ \E i \in bound.plans, links \in SUBSET Links : create_local_task_retry(t, s, i, links)
                  \/ link_wfm_retry_attempt(t, s)
    \/ \E r \in Rfcs \cap bound.use : RfcChanges(r)
    \/ \E r \in Rfcs \cap bound.use, captured \in SUBSET Tasks : apply_terminal_cascade(r, captured)
    \/ \E seeds \in SUBSET Tasks, d \in Decisions :
           "lineage" \in bound.use /\ review_wfm_activity_relationship(seeds, d)

GroupNext ==
    \/ recompute_grouping_proposals
    \/ \E o, q \in DOMAIN obj : request_manual_merge(o, q)
    \/ enqueue_recompute \/ WorkerSnapshot \/ WorkerDone \/ WorkerDies
    \/ \E c \in job.left : WorkerPublish(c)
    \/ \E c \in pending : reject_regroup_proposal(c) \/ accept_regroup_proposal(c)
    \/ \E c \in suppressed : reconsider_regroup_inputs(c)

Next == ((CoreNext \/ WfmNext) /\ UNCHANGED groupVars) \/ GroupNext

Spec == Init /\ [][Next]_vars

-----------------------------------------------------------------------------
(* Properties. *)

(* The aggregate stored with every objective (objective_aggregate_projection) *)
(* is what its members' rows now derive: no command that moves a member, its  *)
(* evidence, its outcome, its inclusion or its plan leaves it stale.  One     *)
(* exception is in the code: a reviewed plan correction of a member of an     *)
(* objective that is more than planned (_surface_mutable_objective_mismatch)  *)
(* leaves that objective's attention alone, until something else rebuilds it. *)
AggregateFresh ==
    \A o \in {q \in DOMAIN obj : ~obj[q].gone} :
        LET now == _derive_material_state(task, obj, o) IN
        \/ obj[o].agg = now
        \/ /\ obj[o].agg = [now EXCEPT !.att = None]
           /\ now.att = "plan_membership_mismatch"
           /\ now.st \in Held \/ obj[o].origin = "historical_provider_complete"

(* Current objectives never overlap in time, and the envelope stored for each *)
(* is the hull of the plans its members were accepted with: whatever joins,   *)
(* leaves, is pinned again, consolidated, deleted or restored.                *)
EnvelopesDisjoint ==
    \A o \in Current(obj) :
        /\ Members(task, o) # {}
        /\ obj[o].env = Envelope(task, Members(task, o))
        /\ \A q \in Current(obj) \ {o} : obj[q].env[1] >= obj[o].env[2] \/ obj[q].env[2] <= obj[o].env[1]

(* The execution state stored for a task is what its evidence, less what was *)
(* withdrawn and with corrected instants, folds to, and it is never invalid.  *)
ExecutionAccounted ==
    \A t \in Live(task) :
        /\ task[t].x = _fold_execution_history(task[t].ev)
        /\ task[t].x.st # "invalid"

(* The tasks of a reviewed lineage all carry the decision it was last given, *)
(* and a task is alone in its lineage exactly when the review that put it     *)
(* there called it a distinct activity: reviews of overlapping pairs, in any  *)
(* order, strand no task in a lineage shared with nobody, nor with a decision *)
(* its partners have lost (_semantic_no_change reads both).                   *)
LineagesAgree ==
    \A t \in Assigned :
        /\ \A u \in Assigned : SameLineage(t, u) => lineage[u].why = lineage[t].why
        /\ lineage[t].why = "distinct_activity" <=> \A u \in Assigned : SameLineage(t, u) => u = t

(* A task in progress has no reviewed terminal outcome row: the premise on   *)
(* which end_task_execution calls such a row an integrity failure.            *)
RunningIsUndecided == \A t \in Live(task) : task[t].x.st = "in_progress" => task[t].out = None

=================================================================================
