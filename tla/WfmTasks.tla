-------------------------------- MODULE WfmTasks --------------------------------
(***************************************************************************)
(* Tasks of the provider (WFM): their numbers and owning RFCs, the source  *)
(* projection the ticket import accepts for them, the reviews a terminal   *)
(* source asks for, the termination of an RFC's tasks, proposals for       *)
(* historical objectives, retries and reviewed activity lineages.          *)
(***************************************************************************)
EXTENDS Objectives

CONSTANTS Rfcs, TaskNos,
          MaxSource   \* bound on the source revisions of a task

(* Decisions on a reviewed relationship, and the lineage row they leave. *)
Decisions == {"distinct_activity", "same_activity", "retry_lineage", "unresolved_source_error"}
Lineage == [id : SUBSET Tasks, why : Decisions]

ASSUME WfmAssumption == MaxSource \in Nat /\ None \notin Rfcs /\ None \notin TaskNos /\ None \notin Lineage

VARIABLES wfm,       \* wfm_task_identities: number and current RFC, by task
          retired,   \* retired WFM task numbers
          eligible,  \* RFCs that are active and implement-eligible
          hist,      \* historical_objective_proposals: pending and answered, by task
          retry,     \* task_retry_relations: <<predecessor, successor>>
          lineage    \* task_activity_lineage_current: lineage and decision of its last event, by task

wfmVars == <<wfm, retired, eligible, hist, retry, lineage>>

WfmInit ==
    /\ CoreInit
    /\ wfm = [t \in Tasks |-> None]
    /\ retired = {}
    /\ eligible = Rfcs
    /\ hist = [t \in Tasks |-> {}]
    /\ retry = {}
    /\ lineage = [t \in Tasks |-> None]

-----------------------------------------------------------------------------
(* Identity and owning RFC. *)

task_no_status(no) ==
    IF no \in retired THEN "RETIRED"
    ELSE IF \E t \in Tasks : wfm[t] # None /\ wfm[t].no = no THEN "ACTIVE" ELSE "ABSENT"

insert_identity(t, no, r) == wfm' = [wfm EXCEPT ![t] = [no |-> no, rfc |-> r]]

register_manual_wfm_task(t, no, r, plans) ==
    /\ t \in Fresh /\ task_no_status(no) = "ABSENT"
    /\ r \in eligible
    /\ task' = [task EXCEPT ![t] = Draft("wfm", "wfm_manual", plans)]
    /\ insert_identity(t, no, r)
    /\ UNCHANGED <<obj, source, review, bound, retired, eligible, hist, retry, lineage>>

(* Terminal sources are adopted as history whatever the RFC has become. *)
create_or_adopt_wfm_from_source(t, no, r, class) ==
    /\ t \in Fresh /\ task_no_status(no) = "ABSENT"
    /\ class \notin TerminalSource => r \in eligible
    /\ task' = [task EXCEPT ![t] = Draft("wfm",
                    IF class \in TerminalSource THEN "historical_source" ELSE "wfm_source_adoption", <<>>)]
    /\ insert_identity(t, no, r)
    /\ UNCHANGED <<obj, source, review, bound, retired, eligible, hist, retry, lineage>>

Wfms == {t \in Live(task) : task[t].kind = "wfm"}

reassign_rfc(t, r) ==
    /\ wfm[t].rfc # r
    /\ wfm' = [wfm EXCEPT ![t].rfc = r]
    /\ task' = Advance(t, task[t])
    /\ UNCHANGED <<obj, source, review, bound, retired, eligible, hist, retry, lineage>>

reassign_wfm_parent(t, r) == t \in Wfms /\ r \in eligible /\ reassign_rfc(t, r)

reassign_parent_from_source(t, r, class) ==
    /\ t \in Wfms
    /\ class \notin TerminalSource => r \in eligible
    /\ reassign_rfc(t, r)

(* An RFC leaves or returns to Implement in the tickets module. *)
RfcChanges(r) ==
    /\ "rfc" \in bound.use
    /\ eligible' = IF r \in eligible THEN eligible \ {r} ELSE eligible \cup {r}
    /\ UNCHANGED <<coreVars, wfm, retired, hist, retry, lineage>>

-----------------------------------------------------------------------------
(* The accepted source, and what it asks of local work. *)

_local_terminal_decision_required(r) ==
    \/ r.x.st = "in_progress"
    \/ r.x.st = "not_started" /\ (r.plans # <<>> \/ r.mem # None)

(* Inputs of the aggregate of the objective a task belongs to. *)
MembershipState(T, O, t) ==
    IF T[t].mem = None THEN None
    ELSE <<T[t].mem, O[T[t].mem.o].agg, _review_fingerprint(T, T[t].mem.o)>>

source_terminal_review_payload(t, src) ==
    <<src, ExecutionRevision(task[t]), Len(task[t].plans), MembershipState(task, obj, t), task[t].lock>>

(* A historical objective is offered for a finished source nothing local contradicts. *)
HistoricalFits(T, src, t) ==
    /\ src.class = "complete" /\ src.iv # None
    /\ T[t].mem = None /\ ExecutionRevision(T[t]) = 0 /\ T[t].out = None /\ T[t].lock = {}
    /\ T[t].plans # <<>> => CurrentPlan(T[t]) = src.iv

input_fingerprint(T, O, src, w, t) ==
    <<src, T[t].plans, T[t].touched, T[t].links, w.rfc,
      {o \in Current(O) : StrictOverlap(O[o].env, src.iv)}>>

supersede_pending_except(H, keep) == {p \in H : p.state # "pending" \/ p.fp = keep}

_refresh_historical_objective_proposal(T, O, src, t) ==
    LET fp == input_fingerprint(T, O, src, wfm[t], t)
        kept == supersede_pending_except(hist[t], fp)
    IN hist' = [hist EXCEPT ![t] =
          IF ~HistoricalFits(T, src, t) THEN supersede_pending_except(@, None)
          ELSE IF \E p \in kept : p.fp = fp THEN kept
          ELSE kept \cup {[state |-> "pending", fp |-> fp, src |-> src, p |-> Len(T[t].plans)]}]

apply_wfm_source_projection(t, class, iv) ==
    LET src == [class |-> class, iv |-> iv, n |-> source[t].n + 1] IN
    /\ t \in Wfms /\ source[t].n < MaxSource
    /\ source' = [source EXCEPT ![t] = src]
    /\ review' = [review EXCEPT ![t] =
          IF class \in TerminalSource /\ _local_terminal_decision_required(task[t])
          THEN [state |-> "pending", fp |-> source_terminal_review_payload(t, src)]
          ELSE None]
    /\ _refresh_historical_objective_proposal(task, obj, src, t)
    /\ UNCHANGED <<task, obj, bound, wfm, retired, eligible, retry, lineage>>

apply_reviewed_operational_plan_from_source(t) ==
    /\ t \in Wfms /\ source[t].iv # None
    /\ ~SamePlan(task[t], source[t].iv) /\ Len(task[t].plans) < MaxPlans
    /\ wfm[t].rfc \in eligible
    /\ _require_ordinary_plan_unlocked(t)
    /\ LET T == Advance(t, Planned(task[t], source[t].iv))
           O == _surface_plan_membership_mismatch(obj, task[t])
       IN /\ task' = T /\ obj' = O
          /\ _refresh_historical_objective_proposal(T, O, source[t], t)
    /\ UNCHANGED <<source, review, bound, wfm, retired, eligible, retry, lineage>>

Terminated(r, kind) ==
    [r EXCEPT !.ev = Append(@, Evidence(kind, None)), !.touched = TRUE,
              !.x.st = "terminated", !.x.e = None]

(* Only the reviewed state may be decided: anything else asks for a new review. *)
_require_current_review(t) ==
    /\ ReviewState(t) = "pending"
    /\ review[t].fp = source_terminal_review_payload(t, source[t])

resolve_wfm_source_terminal_consequence(t, decision) ==
    /\ t \in Wfms /\ _require_current_review(t)
    /\ review' = [review EXCEPT ![t].state = decision]
    /\ IF decision = "retain_local_work" THEN UNCHANGED <<task, obj>>
       ELSE /\ task[t].x.st \notin {"ended", "terminated"} /\ HasRoom(task[t])
            /\ Commit(Advance(t, Terminated(task[t], "source_terminal_consequence")), obj, {t})
    /\ UNCHANGED <<source, bound, wfmVars>>

(* Local work of an RFC that has ended. *)
_applicable_wfms(r) ==
    {t \in Wfms : wfm[t].rfc = r /\ task[t].x.st \notin {"ended", "terminated"} /\ task[t].out = None}

(* The tasks captured with the proposal, all of them or none. *)
apply_terminal_cascade(r, captured) ==
    /\ r \notin eligible /\ captured # {} /\ captured \subseteq _applicable_wfms(r)
    /\ \A t \in captured : HasRoom(task[t])
    /\ Commit([t \in Tasks |-> IF t \in captured THEN Terminated(task[t], "rfc_terminal_terminate")
                               ELSE task[t]], obj, captured)
    /\ UNCHANGED <<source, review, bound, wfmVars>>

-----------------------------------------------------------------------------
(* Historical objectives and operational counts. *)

Pending(t) == {p \in hist[t] : p.state = "pending"}

_proposal(t, p) ==
    p \in Pending(t) /\ p.fp = input_fingerprint(task, obj, source[t], wfm[t], t)

_assert_historical_eligibility(t, p) ==
    /\ source[t] = p.src /\ HistoricalFits(task, p.src, t)
    /\ Len(task[t].plans) = p.p
    /\ \A o \in Current(obj) : ~StrictOverlap(obj[o].env, p.src.iv)

Answered(t, p, state) == hist' = [hist EXCEPT ![t] = (@ \ {p}) \cup {[p EXCEPT !.state = state]}]

accept_proposal(t, p) ==
    LET T == IF task[t].plans = <<>> THEN Advance(t, Planned(task[t], p.src.iv)) ELSE task
        new == Created(T, {t}, "historical_provider_complete")
    IN /\ _proposal(t, p) /\ _assert_historical_eligibility(t, p)
       /\ Len(obj) < MaxObjectives
       /\ task' = new.T /\ obj' = new.O
       /\ Answered(t, p, "accepted")
       /\ UNCHANGED <<source, review, bound, wfm, retired, eligible, retry, lineage>>

reject_proposal(t, p) ==
    /\ _proposal(t, p)
    /\ Answered(t, p, "rejected")
    /\ UNCHANGED <<coreVars, wfm, retired, eligible, retry, lineage>>

set_operational_count_inclusion(t) ==
    /\ t \in Live(task) /\ task[t].counts < 2
    /\ \/ task[t].origin = "historical_source"
       \/ source[t].class = "complete"
       \/ task[t].mem # None /\ obj[task[t].mem.o].origin = "historical_provider_complete"
    /\ Commit([task EXCEPT ![t].counts = @ + 1, ![t].touched = TRUE], obj, {t})
    /\ UNCHANGED <<source, review, bound, wfmVars>>

-----------------------------------------------------------------------------
(* Retries and reviewed lineages. *)

_edge_from_predecessor(t) == {e \in retry : e[1] = t}
_edge_from_successor(t) == {e \in retry : e[2] = t}

create_local_task_retry(t, s, i, links) ==
    /\ t \in Live(task) /\ task[t].kind = "local" /\ _edge_from_predecessor(t) = {}
    /\ s \in Fresh /\ links \subseteq task[t].links
    /\ task' = [task EXCEPT ![s] = [Draft("local", "retry", <<i>>) EXCEPT !.links = links]]
    /\ retry' = retry \cup {<<t, s>>}
    /\ UNCHANGED <<obj, source, review, bound, wfm, retired, eligible, hist, lineage>>

(* The chain of successors of s, followed as far as it goes, never meets t. *)
_assert_no_cycle(t, s) ==
    ~\E n \in 0..Cardinality(retry) : \E path \in [0..n -> Tasks] :
        path[0] = s /\ path[n] = t /\ \A k \in 0..(n - 1) : <<path[k], path[k + 1]>> \in retry

link_wfm_retry_attempt(t, s) ==
    /\ {t, s} \subseteq Wfms /\ t # s
    /\ _edge_from_predecessor(t) = {} /\ _edge_from_successor(s) = {}
    /\ _assert_no_cycle(t, s)
    /\ retry' = retry \cup {<<t, s>>}
    /\ UNCHANGED <<coreVars, wfm, retired, eligible, hist, lineage>>

Assigned == {t \in Tasks : lineage[t] # None}
SameLineage(t, u) == {t, u} \subseteq Assigned /\ lineage[t].id = lineage[u].id

_seed_ids(seeds) == seeds

_expand_affected_ids(seeds) == seeds \cup {u \in Tasks : \E t \in seeds : SameLineage(t, u)}

(* Apart, every task has a new lineage of its own; together, all keep the one *)
(* they share, or have a new one.  A new lineage is named by the tasks it is  *)
(* opened for: a row of it is left by all of them at once, so no two lineages *)
(* in use have one name.                                                      *)
_plan_material_review(affected, decision) ==
    LET shared == \A t, u \in affected : SameLineage(t, u)
        id(t) == IF decision = "distinct_activity" THEN {t}
                 ELSE IF shared THEN lineage[t].id ELSE affected
    IN [t \in Tasks |-> IF t \in affected THEN [id |-> id(t), why |-> decision] ELSE lineage[t]]

(* Every task of every lineage the seeds touch is decided with them.  (A task *)
(* whose row stays the same was touched by the review that gave it the row.)  *)
review_wfm_activity_relationship(seeds, decision) ==
    LET decided == _plan_material_review(_expand_affected_ids(seeds), decision) IN
    /\ seeds \subseteq Wfms /\ Cardinality(seeds) >= 2
    /\ decision = "retry_lineage" =>
           Cardinality(seeds) = 2 /\ \E e \in retry : {e[1], e[2]} = seeds
    /\ lineage # decided
    /\ lineage' = decided
    /\ task' = [t \in Tasks |-> IF decided[t] # lineage[t] THEN [task[t] EXCEPT !.touched = TRUE]
                                ELSE task[t]]
    /\ UNCHANGED <<obj, source, review, bound, wfm, retired, eligible, hist, retry>>

-----------------------------------------------------------------------------
(* Deleting a draft retires its number for good. *)

hard_delete_task(t) ==
    /\ TaskDeletable(t) /\ hist[t] = {} /\ lineage[t] = None
    /\ _edge_from_predecessor(t) \cup _edge_from_successor(t) = {}
    /\ task' = [task EXCEPT ![t] = None]
    /\ wfm' = [wfm EXCEPT ![t] = None]
    /\ retired' = IF task[t].kind = "wfm" THEN retired \cup {wfm[t].no} ELSE retired
    /\ UNCHANGED <<obj, source, review, bound, eligible, hist, retry, lineage>>

=================================================================================
