------------------------------- MODULE Objectives -------------------------------
(***************************************************************************)
(* Tasks and the objectives (maintenance windows) that group them: plans,  *)
(* execution evidence, reviewed outcomes, explicit locks, memberships, the *)
(* envelope of an objective and its stored aggregate.                      *)
(*                                                                         *)
(* Every action is one command of soma.objectives_tasks.services, run by   *)
(* the command boundary in one transaction.  A command that names a stale  *)
(* revision or fingerprint raises and changes nothing, so an action acts   *)
(* on the current rows, and a fingerprint is the tuple of values it        *)
(* hashes.  Immutable histories are sequences; a revision is a length.     *)
(***************************************************************************)
EXTENDS Integers, Sequences, FiniteSetsExt

CONSTANTS Tasks,          \* task identifiers
          Intervals,      \* plans <<start, end>>
          Instants,       \* instants of execution evidence
          Links,          \* related devices, service requests and RFCs
          DeviceLinks,    \* those of them that are devices
          MaxPlans,       \* bound on the plan revisions of a task
          MaxEvents,      \* bound on the execution events of a task
          MaxObjectives,  \* bound on the tracking sequence
          MaxReviews,     \* bound on the reviews of an objective
          None

Opt(S) == S \cup {None}

Outcomes == {"completed", "incomplete", "cancelled_without_execution"}
GovernedTerminal == {"rfc_terminal_terminate", "source_terminal_consequence"}
(* Closed objectives hold the plans of their members from ordinary planning    *)
(* and from regrouping; to corrections and unlocks, a running one is held too.  *)
Closed == {"historical_structure", "reviewed", "superseded"}
Held == Closed \cup {"in_progress", "awaiting_review"}
TerminalSource == {"complete", "plan_cancel"}

(* Rows. *)
Event == [k : {"start", "end", "manual_cancel"} \cup GovernedTerminal, at : Opt(Instants), off : BOOLEAN]
Execution == [st : {"not_started", "in_progress", "ended", "terminated"},
              s : Opt(Instants), e : Opt(Instants)]
Membership == [o : Nat \ {0}, p : Nat \ {0}, n : Nat \ {0}]
TaskRow == [kind : {"local", "wfm"},
            origin : {"manual", "retry", "wfm_manual", "wfm_source_adoption", "historical_source"},
            plans : Seq(Intervals), ev : Seq(Event), corrections : Nat, x : Execution,
            out : Opt(Outcomes), outs : Nat, lock : SUBSET {"plan", "membership"}, counts : Nat,
            mem : Opt(Membership), links : SUBSET Links, touched : BOOLEAN]
AggregateOutcomes == {"completed", "incomplete", "cancelled", "mixed", "excluded_from_operational_counts"}
Attention == {"mixed_outcomes", "lost_last_executable", "plan_membership_mismatch"}
Aggregate == [st : {"planned"} \cup Held,
              out : Opt(AggregateOutcomes), att : Opt(Attention)]
Objective == [origin : {"manual", "automatic_grouping", "historical_provider_complete"},
              by : Opt(Nat \ {0}), arch : BOOLEAN, env : Nat \X Nat,
              reviews : SUBSET SUBSET (Tasks \X Membership \X Nat \X Nat \X Nat),
              gone : BOOLEAN, touched : BOOLEAN, agg : Aggregate]

ASSUME ObjectivesAssumption ==
    /\ IsFiniteSet(Tasks)
    /\ Intervals \subseteq Nat \X Nat /\ \A i \in Intervals : i[1] < i[2]
    /\ Instants \subseteq Nat
    /\ DeviceLinks \subseteq Links
    /\ {MaxPlans, MaxEvents, MaxObjectives, MaxReviews} \subseteq Nat \ {0}
    /\ None \notin Tasks /\ None \notin Intervals /\ None \notin Links /\ None \notin Nat
    /\ None \notin TaskRow /\ None \notin Membership
    /\ None \notin Outcomes \cup AggregateOutcomes \cup Attention

VARIABLES task,    \* tasks with their plans, evidence, outcome, locks and membership
          obj,     \* objectives in tracking order, with envelope and aggregate
          source,  \* wfm_source_projection_cache: provider class, plan, revision
          review,  \* wfm_source_terminal_reviews of the current source revision
          bound    \* use: the tasks and commands this behaviour may use; plans, at: its intervals and instants

coreVars == <<task, obj, source, review, bound>>

Live(T) == {t \in Tasks : T[t] # None}
Fresh == {t \in Tasks \cap bound.use : task[t] = None}
Unstarted == [st |-> "not_started", s |-> None, e |-> None]
Unsourced == [class |-> None, iv |-> None, n |-> 0]

Draft(kind, origin, plans) ==
    [kind |-> kind, origin |-> origin, plans |-> plans, ev |-> <<>>, corrections |-> 0,
     x |-> Unstarted, out |-> None, outs |-> 0, lock |-> {}, counts |-> 0, mem |-> None,
     links |-> {}, touched |-> FALSE]

CoreInit ==
    /\ task = [t \in Tasks |-> None]
    /\ obj = <<>>
    /\ source = [t \in Tasks |-> Unsourced]
    /\ review = [t \in Tasks |-> None]

-----------------------------------------------------------------------------
(* What a task's rows say. *)

CurrentPlan(r) == r.plans[Len(r.plans)]
ExecutionRevision(r) == Len(r.ev) + r.corrections
Included(r) == r.counts % 2 = 0
HasStarted(r) == r.x.s # None

Evidence(kind, at) == [k |-> kind, at |-> at, off |-> FALSE]

(* One piece of effective evidence on top of the folded state. *)
Folded(x, e) ==
    LET invalid == [Unstarted EXCEPT !.st = "invalid"] IN
    IF e.off \/ x.st = "invalid" THEN x
    ELSE IF e.k = "start"
         THEN IF x.st = "not_started" THEN [st |-> "in_progress", s |-> e.at, e |-> None]
              ELSE invalid
    ELSE IF e.k = "end"
         THEN IF x.st = "in_progress" /\ e.at >= x.s THEN [x EXCEPT !.st = "ended", !.e = e.at]
              ELSE invalid
    ELSE IF x.st = "terminated" THEN invalid
    ELSE [x EXCEPT !.st = "terminated", !.e = None]

(* The states after each prefix of the evidence; the last one is the fold. *)
_fold_execution_history(ev) ==
    LET after[n \in 0..Len(ev)] == IF n = 0 THEN Unstarted ELSE Folded(after[n - 1], ev[n])
    IN after[Len(ev)]

_outcome_matches_execution(out, x) ==
    \/ out = "completed" /\ x.st = "ended"
    \/ out = "incomplete" /\ x.st \in {"ended", "terminated"} /\ x.s # None
    \/ out = "cancelled_without_execution" /\ x.st = "terminated" /\ x.s = None

Accepted(r) == IF _outcome_matches_execution(r.out, r.x) THEN r.out ELSE None
_has_terminal_outcome(r) == r.out # None
LocallyExecutable(r) == r.x.st = "not_started" /\ Accepted(r) = None

-----------------------------------------------------------------------------
(* The aggregate of an objective. *)

Members(T, o) == {t \in Live(T) : T[t].mem # None /\ T[t].mem.o = o}
PinnedPlan(r) == r.plans[r.mem.p]
Current(O) == {o \in DOMAIN O : ~O[o].gone /\ O[o].by = None}

Hull(plans) == <<Min({i[1] : i \in plans}), Max({i[2] : i \in plans})>>
Envelope(T, M) == Hull({PinnedPlan(T[t]) : t \in M})

StrictOverlap(i, j) == i[1] < j[2] /\ j[1] < i[2]

_review_fingerprint(T, o) ==
    {<<t, T[t].mem, ExecutionRevision(T[t]), T[t].outs, T[t].counts>> : t \in Members(T, o)}

_derive_outcome(T, M) ==
    LET counted == {t \in M : Included(T[t])}
        outcomes == {Accepted(T[t]) : t \in counted}
    IN IF counted = {} THEN IF M = {} THEN None ELSE "excluded_from_operational_counts"
       ELSE IF None \in outcomes THEN None
       ELSE IF outcomes \in {{"completed"}, {"incomplete"}} THEN CHOOSE v \in outcomes : TRUE
       ELSE IF outcomes = {"cancelled_without_execution"}
            THEN IF \A t \in M : ~HasStarted(T[t]) THEN "cancelled" ELSE None
       ELSE "mixed"

_derive_material_state(T, O, o) ==
    LET M == Members(T, o)
        started == \E t \in M : HasStarted(T[t])
        decided == M # {} /\ \A t \in M : Accepted(T[t]) # None
        st == IF O[o].by # None THEN "superseded"
              ELSE IF O[o].origin = "historical_provider_complete" /\ ~started THEN "historical_structure"
              ELSE IF \E t \in M : T[t].x.st = "in_progress" THEN "in_progress"
              ELSE IF decided THEN IF _review_fingerprint(T, o) \in O[o].reviews
                                   THEN "reviewed" ELSE "awaiting_review"
              ELSE IF started /\ \A t \in M : ~LocallyExecutable(T[t]) THEN "awaiting_review"
              ELSE "planned"
        out == IF st \in {"superseded", "historical_structure"} \/ (st # "in_progress" /\ decided)
               THEN _derive_outcome(T, M) ELSE None
        reviewable == st \in {"reviewed", "awaiting_review"}
    IN [st |-> st, out |-> out,
        att |-> IF reviewable /\ decided /\ out = "mixed" THEN "mixed_outcomes"
                ELSE IF reviewable /\ ~decided THEN "lost_last_executable"
                ELSE IF \E t \in M : T[t].mem.p # Len(T[t].plans) THEN "plan_membership_mismatch"
                ELSE None]

rebuild_aggregate(T, O, S) ==
    [o \in DOMAIN O |-> IF o \in S
        THEN [O[o] EXCEPT !.agg = _derive_material_state(T, O, o), !.touched = TRUE]
        ELSE O[o]]

current_membership_for_task(T, t) == IF T[t].mem = None THEN {} ELSE {T[t].mem.o}

CommitStale(T, O, changed) ==
    /\ task' = T
    /\ obj' = rebuild_aggregate(T, O, UNION {current_membership_for_task(T, t) : t \in
                {u \in changed : T[u].x.st # "terminated"}})

(* The rows T of tasks, with the aggregates of their objectives rebuilt. *)
Commit(T, O, changed) ==
    /\ task' = T
    /\ obj' = rebuild_aggregate(T, O, UNION {current_membership_for_task(T, t) : t \in changed})

Advance(t, r) == [task EXCEPT ![t] = [r EXCEPT !.touched = TRUE]]

-----------------------------------------------------------------------------
(* Plans, relationships and locks. *)

create_local_task(t, plans, links) ==
    /\ t \in Fresh
    /\ task' = [task EXCEPT ![t] = [Draft("local", "manual", plans) EXCEPT !.links = links]]
    /\ UNCHANGED <<obj, source, review, bound>>

(* The objective of r is of the past, or in one of the given states. *)
ObjectiveProtects(r, states) ==
    /\ r.mem # None
    /\ \/ obj[r.mem.o].by # None
       \/ obj[r.mem.o].origin = "historical_provider_complete"
       \/ obj[r.mem.o].agg.st \in states

ReviewState(t) == IF review[t] = None THEN None ELSE review[t].state

(* A terminal source holds the plan unless a review kept the local work. *)
SourceProtects(t) == source[t].class \in TerminalSource /\ ReviewState(t) # "retain_local_work"

_require_ordinary_plan_unlocked(t) ==
    /\ "plan" \notin task[t].lock
    /\ task[t].ev = <<>>
    /\ ~SourceProtects(t)
    /\ ~ObjectiveProtects(task[t], Closed)

(* The mismatch is shown only where no other attention is. *)
_surface_plan_membership_mismatch(O, r) ==
    IF r.mem = None \/ O[r.mem.o].agg.att # None THEN O
    ELSE [O EXCEPT ![r.mem.o].agg.att = "plan_membership_mismatch", ![r.mem.o].touched = TRUE]

Planned(r, i) == [r EXCEPT !.plans = Append(@, i)]
SamePlan(r, i) == r.plans # <<>> /\ CurrentPlan(r) = i

set_task_plan(t, i) ==
    /\ t \in Live(task) /\ Len(task[t].plans) < MaxPlans
    /\ ~SamePlan(task[t], i)
    /\ _require_ordinary_plan_unlocked(t)
    /\ task' = Advance(t, Planned(task[t], i))
    /\ obj' = _surface_plan_membership_mismatch(obj, task[t])
    /\ UNCHANGED <<source, review, bound>>

_surface_mutable_objective_mismatch(r) ==
    IF ObjectiveProtects(r, Held) THEN obj ELSE _surface_plan_membership_mismatch(obj, r)

(* A reviewed correction overrides every lock but a pending terminal review. *)
correct_task_plan(t, i) ==
    /\ t \in Live(task) /\ task[t].plans # <<>> /\ Len(task[t].plans) < MaxPlans
    /\ ~SamePlan(task[t], i)
    /\ ReviewState(t) # "pending"
    /\ task' = Advance(t, Planned(task[t], i))
    /\ obj' = _surface_mutable_objective_mismatch(task[t])
    /\ UNCHANGED <<source, review, bound>>

_has_objective_lock(r) == ObjectiveProtects(r, Held)
_assert_unlock_effective(t) == task[t].ev = <<>> /\ ~SourceProtects(t) /\ ~_has_objective_lock(task[t])

set_explicit_task_lock(t, kind, lock) ==
    /\ t \in Live(task)
    /\ lock # (kind \in task[t].lock)
    /\ lock \/ _assert_unlock_effective(t)
    /\ task' = Advance(t, [task[t] EXCEPT !.lock = IF lock THEN @ \cup {kind} ELSE @ \ {kind}])
    /\ UNCHANGED <<obj, source, review, bound>>

change_task_relationship(t, l, link) ==
    /\ t \in Live(task)
    /\ task[t].kind = "wfm" => l \in DeviceLinks
    /\ link # (l \in task[t].links)
    /\ task' = Advance(t, [task[t] EXCEPT !.links = IF link THEN @ \cup {l} ELSE @ \ {l}])
    /\ UNCHANGED <<obj, source, review, bound>>

-----------------------------------------------------------------------------
(* Execution evidence and outcomes. *)

StartableUndecided(r) == r.x.st \in {"not_started", "terminated"} /\ ~_has_terminal_outcome(r)
Startable(r) == r.x.st = "not_started" /\ ~_has_terminal_outcome(r)
HasRoom(r) == ExecutionRevision(r) < MaxEvents

Started(r, at) ==
    [r EXCEPT !.ev = Append(@, Evidence("start", at)), !.touched = TRUE,
              !.x = [st |-> "in_progress", s |-> at, e |-> None]]

start_task_execution(t, at) ==
    /\ t \in Live(task) /\ HasRoom(task[t]) /\ Startable(task[t])
    /\ Commit(Advance(t, Started(task[t], at)), obj, {t})
    /\ UNCHANGED <<source, review, bound>>

start_selected_objective_tasks(o, S, at) ==
    /\ o \in Current(obj) /\ S # {} /\ S \subseteq Members(task, o)
    /\ \A t \in S : HasRoom(task[t]) /\ Startable(task[t])
    /\ Commit([t \in Tasks |-> IF t \in S THEN Started(task[t], at) ELSE task[t]], obj, S)
    /\ UNCHANGED <<source, review, bound>>

end_task_execution(t, at) ==
    /\ t \in Live(task) /\ HasRoom(task[t])
    /\ task[t].x.st = "in_progress" /\ ~_has_terminal_outcome(task[t])
    /\ at >= task[t].x.s
    /\ Commit(Advance(t, [task[t] EXCEPT !.ev = Append(@, Evidence("end", at)),
                                         !.x.st = "ended", !.x.e = at]), obj, {t})
    /\ UNCHANGED <<source, review, bound>>

(* Evidence i is withdrawn, or its instant replaced by at.  An outcome this *)
(* invalidates keeps its row: the caller has acknowledged it.               *)
correct_task_execution_evidence(t, i, withdraw, at) ==
    LET r == task[t]
        ev == [r.ev EXCEPT ![i].off = withdraw, ![i].at = IF withdraw THEN @ ELSE at]
        x == _fold_execution_history(ev)
    IN /\ HasRoom(r) /\ ~r.ev[i].off
       /\ withdraw => r.ev[i].k \notin GovernedTerminal
       /\ x.st # "invalid"
       /\ Commit(Advance(t, [r EXCEPT !.ev = ev, !.corrections = @ + 1, !.x = x]), obj, {t})
       /\ UNCHANGED <<source, review, bound>>

Cancelled(r) ==
    [r EXCEPT !.ev = Append(@, Evidence("manual_cancel", None)), !.touched = TRUE,
              !.x = [Unstarted EXCEPT !.st = "terminated"],
              !.out = "cancelled_without_execution", !.outs = 1]

cancel_task_without_execution(t) ==
    /\ t \in Live(task) /\ HasRoom(task[t]) /\ Startable(task[t])
    /\ Commit(Advance(t, Cancelled(task[t])), obj, {t})
    /\ UNCHANGED <<source, review, bound>>

review_task_outcome(t, out) ==
    /\ t \in Live(task) /\ task[t].out = None
    /\ _outcome_matches_execution(out, task[t].x)
    /\ Commit(Advance(t, [task[t] EXCEPT !.out = out, !.outs = 1]), obj, {t})
    /\ UNCHANGED <<source, review, bound>>

(* Another outcome, or the same one for another reason. *)
correct_task_outcome(t, out) ==
    /\ t \in Live(task) /\ task[t].out # None
    /\ _outcome_matches_execution(out, task[t].x)
    /\ task[t].outs < MaxEvents
    /\ Commit(Advance(t, [task[t] EXCEPT !.out = out, !.outs = @ + 1]), obj, {t})
    /\ UNCHANGED <<source, review, bound>>

-----------------------------------------------------------------------------
(* Objectives. *)

(* A row with its envelope, before its aggregate is first derived. *)
NewObjective(origin, env) ==
    [origin |-> origin, by |-> None, arch |-> FALSE, env |-> env, reviews |-> {}, gone |-> FALSE,
     touched |-> FALSE, agg |-> [st |-> "planned", out |-> None, att |-> None]]

_insert_membership(T, t, o) ==
    [T EXCEPT ![t].mem = [o |-> o, p |-> Len(T[t].plans),
                          n |-> IF T[t].mem = None THEN 1 ELSE T[t].mem.n + 1]]

Joined(T, S, o) ==
    [t \in Tasks |-> IF t \in S THEN _insert_membership(T, t, o)[t] ELSE T[t]]

_assert_no_overlap(O, o) ==
    \A q \in Current(O) \ {o} : ~StrictOverlap(O[q].env, O[o].env)

(* The objective of the tasks S of T, appended with its first aggregate. *)
Created(T, S, origin) ==
    LET o == Len(obj) + 1
        J == Joined(T, S, o)
        O == Append(obj, NewObjective(origin, Envelope(J, S)))
    IN [T |-> J, o |-> o,
        O |-> [O EXCEPT ![o].agg = _derive_material_state(J, O, o)]]

(* Drafts become local tasks of the objective in the same transaction. *)
create_objective_from_preview(S, drafts, i) ==
    LET T == [t \in Tasks |-> IF t \in drafts THEN Draft("local", "manual", <<i>>) ELSE task[t]]
        new == Created(T, S \cup drafts, "manual")
    IN /\ Len(obj) < MaxObjectives
       /\ S \subseteq Live(task) /\ drafts \subseteq Fresh /\ S \cup drafts # {}
       /\ \A t \in S : /\ task[t].plans # <<>> /\ task[t].mem = None
                       /\ "membership" \notin task[t].lock
       /\ _assert_no_overlap(new.O, new.o)
       /\ task' = new.T /\ obj' = new.O
       /\ UNCHANGED <<source, review, bound>>

review_objective(o) ==
    /\ o \in Current(obj) /\ obj[o].origin # "historical_provider_complete"
    /\ \A t \in Members(task, o) : Accepted(task[t]) # None
    /\ _derive_outcome(task, Members(task, o)) # None
    /\ _review_fingerprint(task, o) \notin obj[o].reviews
    /\ Cardinality(obj[o].reviews) < MaxReviews
    /\ LET O == [obj EXCEPT ![o].reviews = @ \cup {_review_fingerprint(task, o)}] IN
       obj' = rebuild_aggregate(task, O, {o})
    /\ UNCHANGED <<task, source, review, bound>>

archive_objective(o) ==
    /\ o \in DOMAIN obj /\ ~obj[o].gone /\ ~obj[o].arch
    /\ obj[o].agg.st \notin {"planned", "in_progress"}
    /\ obj' = [obj EXCEPT ![o].arch = TRUE, ![o].touched = TRUE]
    /\ UNCHANGED <<task, source, review, bound>>

restore_objective(o) ==
    /\ o \in DOMAIN obj /\ ~obj[o].gone /\ obj[o].arch
    /\ _assert_no_overlap(obj, o)
    /\ obj' = [obj EXCEPT ![o].arch = FALSE, ![o].touched = TRUE]
    /\ UNCHANGED <<task, source, review, bound>>

(* Every member is cancelled and the objective reviewed at once. *)
cancel_objective_before_execution(o) ==
    LET M == Members(task, o)
        T == [t \in Tasks |-> IF t \in M THEN Cancelled(task[t]) ELSE task[t]]
        O == [obj EXCEPT ![o].reviews = @ \cup {_review_fingerprint(T, o)}]
    IN /\ o \in Current(obj) /\ obj[o].agg.st = "planned"
       /\ \A t \in M : HasRoom(task[t]) /\ Startable(task[t])
       /\ _derive_outcome(T, M) = "cancelled"
       /\ task' = T
       /\ obj' = rebuild_aggregate(T, O, {o})
       /\ UNCHANGED <<source, review, bound>>

-----------------------------------------------------------------------------
(* Hard deletion of a draft. *)

TaskDeletable(t) ==
    /\ t \in Live(task)
    /\ task[t].origin \in {"manual", "wfm_manual"}
    /\ ~task[t].touched /\ task[t].mem = None /\ source[t].n = 0

ObjectiveDeletable(o) ==
    /\ o \in Current(obj)
    /\ obj[o].origin = "manual" /\ ~obj[o].touched
    /\ obj[o].agg = [st |-> "planned", out |-> None, att |-> None]
    /\ \A t \in Members(task, o) : task[t].mem.n = 1 /\ task[t].ev = <<>> /\ task[t].out = None

hard_delete_objective(o) ==
    /\ o \in DOMAIN obj /\ ObjectiveDeletable(o)
    /\ task' = [t \in Tasks |-> IF t \in Members(task, o) THEN [task[t] EXCEPT !.mem = None]
                                ELSE task[t]]
    /\ obj' = [obj EXCEPT ![o].gone = TRUE]
    /\ UNCHANGED <<source, review, bound>>

=================================================================================
