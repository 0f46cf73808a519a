---------------------------------- MODULE Stock ----------------------------------
(***************************************************************************)
(* The inventory of spare parts: device parts and the needs they raise,    *)
(* spare part units and their reservations for tasks, spare requests and   *)
(* the RMAs that answer them, inbound receipts, physical consequences of   *)
(* tasks and the return obligations they open.                             *)
(*                                                                         *)
(* Every action is one command of soma.inventory.services, run by the      *)
(* command boundary in one transaction: CommandBoundary shows that it      *)
(* happens once or not at all.  A command that names a stale revision or   *)
(* fingerprint raises and changes nothing, so an action always acts on     *)
(* the current rows.                                                       *)
(*                                                                         *)
(* Identifiers are fresh; what is fixed when a row is inserted (service    *)
(* request and BOM) is a constant function of the identifier.              *)
(***************************************************************************)
EXTENDS Integers, FiniteSets, Functions

CONSTANTS Devices, Needs, Units, Requests, Rmas, Tasks, Sr7s, C10s,
          Shipments,        \* identifiers of actual logistics events
          UnitConditions,   \* the condition tokens units are registered with
          MaxQuantity,      \* bound on planned and requested quantities
          None,
          SrOf, BomOf,      \* of devices, needs and requests; of devices, needs, units, RMAs
          TaskSrs           \* service requests a task is linked to

Opt(S) == S \cup {None}

NeedStates == {"active", "resolved", "cancelled", "removed"}
TerminalRequest == {"cancelled", "rejected"}
Origins == {"manual_local", "legacy", "reviewed_reconciliation", "extracted"}
Consequences == {"installed_used", "unused", "inbound_faulty", "incompatible",
                 "dismantled", "removed_only", "no_physical_change", "other_reviewed"}

(* Rows. *)
Need == [state : NeedStates, quantity : Nat, origin : {"manual", "system_aggregate"},
         contributors : SUBSET Devices]
Unit == [condition : UnitConditions, held : BOOLEAN,
         disposition : {"available", "unavailable", "reserved", "installed", "dismantled"},
         origin : Origins \cup {"direct_rma_receipt"}, rma : Opt(Rmas), parent : Opt(Units)]
Sum(f) == FoldFunction(+, 0, f)
Allocations == UNION {[S -> 1..MaxQuantity] : S \in SUBSET Needs}
Request == [state : {"draft", "submitted_awaiting_response", "acknowledged", "partially_authorized",
                     "authorized"} \cup TerminalRequest,
            origin : {"soma_draft", "external_registration"}, draft : Allocations, ever : SUBSET Needs,
            sr7 : Opt(Sr7s), submitted : BOOLEAN, quantity : {0} \cup {Sum(f) : f \in Allocations},
            authorized : Nat]
Reservation == [task : Tasks, need : Opt(Needs)]
Consequence == [disposition : Consequences, rma : Opt(Rmas), target : Opt(Devices),
                installed : Opt(Units), removed : Opt(Devices), inbound : Opt(Units), parent : Opt(Units)]

ASSUME StockAssumption ==
    /\ Devices \subseteq Nat /\ Rmas \subseteq Nat
    /\ IsFiniteSet(Devices) /\ IsFiniteSet(Rmas)
    /\ MaxQuantity \in Nat \ {0}
    /\ None \notin Devices \cup Needs \cup Units \cup Requests \cup Rmas
                   \cup Tasks \cup Sr7s \cup C10s
    /\ None \notin {"unknown", "faulty", "removed"} \cup Need \cup Unit \cup Request \cup Reservation \cup Consequence

VARIABLES device,    \* condition of a device part unit, or None
          need,      \* spare_needs and its current projection
          unit,      \* spare_part_units and its current projection
          reserved,  \* task_unit_allocation_current, by unit
          request,   \* spare_requests, allocations and current projection
          sr7Owner,  \* spare_request_identifier_aliases
          rma,       \* rmas, assignment, inbound unit, obligation and projection
          c10Owner,  \* rma_identifier_aliases
          logistics, \* active participants of an actual logistics event
          outcome,   \* the physical consequence of a task
          touched,   \* identifiers with history beyond their creation event
          attention, \* inventory_attention_projection
          bound      \* the identifiers this behaviour may use

stockVars == <<device, need, unit, reserved, request, sr7Owner, rma, c10Owner,
               logistics, outcome, touched, attention, bound>>

Needed == {n \in Needs : need[n] # None}
Stocked == {u \in Units : unit[u] # None}
Requested == {q \in Requests : request[q] # None}
Authorized == {r \in Rmas : rma[r] # None}
Registered == {d \in Devices : device[d] # None}
Reviewed == {t \in Tasks : outcome[t] # None}
RmasOf(q) == {r \in Authorized : rma[r].request = q}
UnitHeldByRma(u) == {r \in Authorized : rma[r].inbound = u}
Nth(S, k) == CHOOSE x \in S : Cardinality({y \in S : y <= x}) = k

StockInit ==
    /\ device = [d \in Devices |-> None]
    /\ need = [n \in Needs |-> None]
    /\ unit = [u \in Units |-> None]
    /\ reserved = [u \in Units |-> None]
    /\ request = [q \in Requests |-> None]
    /\ sr7Owner = [s \in Sr7s |-> None]
    /\ rma = [r \in Rmas |-> None]
    /\ c10Owner = [c \in C10s |-> None]
    /\ logistics = [e \in Shipments |-> None]
    /\ outcome = [t \in Tasks |-> None]
    /\ touched = {}
    /\ attention = {}

-----------------------------------------------------------------------------
(* Needs. *)

active_need_for(sr, bom) ==
    {n \in Needed : /\ need[n].state = "active"
                    /\ SrOf[n] = sr
                    /\ BomOf[n] = bom}

ManualNeed(q) == [state |-> "active", quantity |-> q, origin |-> "manual", contributors |-> {}]
NeedWithContributor(d) ==
    [state |-> "active", quantity |-> 1, origin |-> "system_aggregate", contributors |-> {d}]

create_spare_need_draft(n, quantity) ==
    /\ n \in bound \ Needed
    /\ active_need_for(SrOf[n], BomOf[n]) = {}
    /\ need' = [need EXCEPT ![n] = ManualNeed(quantity)]
    /\ UNCHANGED <<device, unit, reserved, request, sr7Owner, rma, c10Owner, outcome, touched, attention, logistics, bound>>

(* Device parts are numbered in the order they are registered. *)
allocate_device_part_creation_sequence(d) ==
    /\ d \in bound \ Registered
    /\ \A e \in bound \cap Devices : e < d => e \in Registered

(* A faulty part joins the active need of its key, or raises one. *)
FaultRaisesNeed(d) ==
    LET active == active_need_for(SrOf[d], BomOf[d]) IN
    IF active # {}
    THEN need' = [n \in Needs |-> IF n \in active
                                  THEN [need[n] EXCEPT !.contributors = @ \cup {d}]
                                  ELSE need[n]]
    ELSE \E n \in (bound \cap Needs) \ Needed :
            /\ SrOf[n] = SrOf[d] /\ BomOf[n] = BomOf[d]
            /\ need' = [need EXCEPT ![n] = NeedWithContributor(d)]

register_device_part_unit(d, condition) ==
    /\ allocate_device_part_creation_sequence(d)
    /\ device' = [device EXCEPT ![d] = condition]
    /\ IF condition = "faulty" THEN FaultRaisesNeed(d) ELSE UNCHANGED need
    /\ UNCHANGED <<unit, reserved, request, sr7Owner, rma, c10Owner, outcome, touched, attention, logistics, bound>>

(* The quantity of a need that is no longer active can be changed too. *)
set_spare_need_planned_quantity(n, quantity) ==
    /\ n \in Needed
    /\ quantity # need[n].quantity
    /\ need' = [need EXCEPT ![n].quantity = quantity]
    /\ touched' = touched \cup {n}
    /\ UNCHANGED <<device, unit, reserved, request, sr7Owner, rma, c10Owner, outcome, attention, logistics, bound>>

(* Every request that ever allocated the need counts, not only current drafts. *)
request_dependency_states(n) == {request[q].state : q \in {p \in Requested : n \in request[p].ever}}

CanChangeNeed(n, state) ==
    CASE state \in {"resolved", "cancelled"} -> need[n].state = "active"
      [] state = "active" -> /\ need[n].state \in {"resolved", "cancelled"}
                             /\ active_need_for(SrOf[n], BomOf[n]) = {}
      [] state = "removed" -> /\ need[n].state \in {"resolved", "cancelled"}
                              /\ request_dependency_states(n) \subseteq TerminalRequest

change_spare_need_lifecycle(n, state) ==
    /\ n \in Needed
    /\ CanChangeNeed(n, state)
    /\ need' = [need EXCEPT ![n].state = state]
    /\ touched' = touched \cup {n}
    /\ UNCHANGED <<device, unit, reserved, request, sr7Owner, rma, c10Owner, outcome, attention, logistics, bound>>

-----------------------------------------------------------------------------
(* Spare part units and reservations. *)

initial_disposition_for_condition(c) == IF c \in {"new", "used"} THEN "available" ELSE "unavailable"

require_registration_provenance(origin, r, parent) ==
    CASE origin = "extracted" ->
            /\ r \in Authorized /\ parent \in Stocked
            /\ unit[parent].rma = r
            /\ rma[r].inbound = parent
      [] origin = "reviewed_reconciliation" ->
            /\ parent = None
            /\ r # None => r \in Authorized /\ rma[r].inbound = None
      [] OTHER -> parent = None /\ r = None

SparePartUnit(condition, origin, r, parent) ==
    [condition |-> condition, disposition |-> initial_disposition_for_condition(condition),
     held |-> FALSE, origin |-> origin, rma |-> r, parent |-> parent]

register_spare_part_unit(u, condition, origin, r, parent) ==
    /\ u \in bound \ Stocked
    /\ require_registration_provenance(origin, r, parent)
    /\ unit' = [unit EXCEPT ![u] = SparePartUnit(condition, origin, r, parent)]
    /\ UNCHANGED <<device, need, reserved, request, sr7Owner, rma, c10Owner, outcome, touched, attention, logistics, bound>>

OwedForReturn(u) == \E r \in Authorized : rma[r].obligation = "open" /\ rma[r].returned = u
Installed(u) == \E t \in Reviewed : outcome[t].installed = u

(* What the list of stock shows as free, and what a reservation asks for. *)
StockEligible(u) ==
    /\ unit[u].condition \in {"new", "used"}
    /\ unit[u].disposition = "available"
    /\ ~unit[u].held /\ reserved[u] = None
    /\ ~OwedForReturn(u)
    /\ ~Installed(u)

require_active_need(n) == n \in Needed /\ need[n].state = "active"

CanReserve(u, t, n) ==
    /\ u \in Stocked
    /\ StockEligible(u)
    /\ n # None => /\ require_active_need(n)
                   /\ BomOf[n] = BomOf[u]
                   /\ TaskSrs[t] # {} => SrOf[n] \in TaskSrs[t]

reserve_for_task(u, t, n) ==
    /\ CanReserve(u, t, n)
    /\ reserved' = [reserved EXCEPT ![u] = [task |-> t, need |-> n]]
    /\ unit' = [unit EXCEPT ![u].disposition = "reserved", ![u].held = TRUE]

reserve_spare_part_unit_for_task(u, t, n) ==
    /\ reserve_for_task(u, t, n)
    /\ touched' = touched \cup {u} \cup ({n} \ {None})
    /\ UNCHANGED <<device, need, request, sr7Owner, rma, c10Owner, outcome, attention, logistics, bound>>

(* Mutant: the hold is forgotten when the disposition is restored. *)
ReleasedHeld(row) == [row EXCEPT !.disposition = initial_disposition_for_condition(row.condition)]

(* Row of a unit whose reservation is released. *)
Released(row) ==
    [row EXCEPT !.disposition = initial_disposition_for_condition(row.condition), !.held = FALSE]

release_reservation(u) == reserved[u] # None /\ ~Installed(u) /\ unit[u].held

release_spare_part_unit_reservation(u) ==
    /\ release_reservation(u)
    /\ reserved' = [reserved EXCEPT ![u] = None]
    /\ unit' = [unit EXCEPT ![u] = Released(@)]
    /\ UNCHANGED <<device, need, request, sr7Owner, rma, c10Owner, outcome, touched, attention, logistics, bound>>

(* A retry takes reservations of its predecessor over, all selected ones or none. *)
preview_retry_relationship_clone(t, U) ==
    /\ outcome[t] = None
    /\ \A u \in U : reserved[u] # None /\ reserved[u].task = t

reassign_task_allocation(row, t) == [row EXCEPT !.task = t]

apply_retry_relationship_clone(t, t2, U) ==
    /\ t # t2 /\ U # {}
    /\ preview_retry_relationship_clone(t, U)
    /\ \A u \in U : unit[u].held
    /\ reserved' = [u \in Units |-> IF u \in U THEN reassign_task_allocation(reserved[u], t2) ELSE reserved[u]]
    /\ UNCHANGED <<device, need, unit, request, sr7Owner, rma, c10Owner, outcome, touched, attention, logistics, bound>>

(* A selection without a task is only recorded; with a task it also reserves. *)
record_local_need_fulfillment_selection(n, u, t) ==
    /\ require_active_need(n) /\ u \in Stocked
    /\ BomOf[n] = BomOf[u]
    /\ StockEligible(u)
    /\ IF t = None THEN UNCHANGED <<reserved, unit>> ELSE reserve_for_task(u, t, n)
    /\ touched' = touched \cup {n, u}
    /\ UNCHANGED <<device, need, request, sr7Owner, rma, c10Owner, outcome, attention, logistics, bound>>

-----------------------------------------------------------------------------
(* Spare requests. *)

Drafts == UNION {[S -> 1..MaxQuantity] : S \in (SUBSET (bound \cap Needs)) \ {{}}}

require_sr_need_allocations(q, draft) ==
    \A n \in DOMAIN draft : /\ n \in Needed
                            /\ SrOf[n] = SrOf[q]
                            /\ need[n].state = "active"

Draft(origin, draft) ==
    [state |-> "draft", origin |-> origin, draft |-> draft, ever |-> DOMAIN draft,
     sr7 |-> None, submitted |-> FALSE, quantity |-> 0, authorized |-> 0]

create_spare_request_draft(q, draft, origin) ==
    /\ q \in bound \ Requested
    /\ require_sr_need_allocations(q, draft)
    /\ request' = [request EXCEPT ![q] = Draft(origin, draft)]
    /\ UNCHANGED <<device, need, unit, reserved, sr7Owner, rma, c10Owner, outcome, touched, attention, logistics, bound>>

update_spare_request_draft(q, draft) ==
    /\ q \in Requested
    /\ request[q].state = "draft" /\ request[q].sr7 = None
    /\ ~request[q].submitted
    /\ require_sr_need_allocations(q, draft)
    /\ draft # request[q].draft
    /\ request' = [request EXCEPT ![q].draft = draft, ![q].ever = @ \cup DOMAIN draft]
    /\ UNCHANGED <<device, need, unit, reserved, sr7Owner, rma, c10Owner, outcome, touched, attention, logistics, bound>>

(* The former SR7 stays an alias of the request and is never free again. *)
assign_or_correct_spare_request_official_id(q, s) ==
    /\ q \in Requested /\ s \in bound
    /\ request[q].state \notin TerminalRequest
    /\ sr7Owner[s] = None
    /\ request' = [request EXCEPT ![q].sr7 = s]
    /\ sr7Owner' = [sr7Owner EXCEPT ![s] = q]
    /\ touched' = touched \cup {q}
    /\ UNCHANGED <<device, need, unit, reserved, rma, c10Owner, outcome, attention, logistics, bound>>

(* The submission snapshot stays where it is. *)
cancel_or_reject_spare_request(q, state) ==
    /\ q \in Requested
    /\ request[q].state \notin TerminalRequest
    /\ RmasOf(q) = {}
    /\ request' = [request EXCEPT ![q].state = state]
    /\ touched' = touched \cup {q}
    /\ UNCHANGED <<device, need, unit, reserved, sr7Owner, rma, c10Owner, outcome, attention, logistics, bound>>

CanSubmit(q) ==
    /\ q \in Requested
    /\ request[q].state = "draft"
    /\ ~request[q].submitted
    /\ require_sr_need_allocations(q, request[q].draft)

accept_submission(row) ==
    [row EXCEPT !.state = IF row.sr7 # None THEN "acknowledged" ELSE "submitted_awaiting_response",
                !.submitted = TRUE,
                !.quantity = Sum(row.draft)]

accept_spare_request_submission(q) ==
    /\ CanSubmit(q)
    /\ request' = [request EXCEPT ![q] = accept_submission(@)]
    /\ touched' = touched \cup {q}
    /\ UNCHANGED <<device, need, unit, reserved, sr7Owner, rma, c10Owner, outcome, attention, logistics, bound>>

(* The state of the request is not looked at: a cancelled or rejected       *)
(* request that had been submitted becomes a draft again.                   *)
correct_false_submission(q) ==
    /\ request[q].submitted
    /\ request[q].sr7 = None
    /\ RmasOf(q) = {}
    /\ request' = [request EXCEPT ![q].state = "draft", ![q].submitted = FALSE, ![q].quantity = 0]

correct_false_spare_request_submission(q) ==
    /\ q \in Requested
    /\ correct_false_submission(q)
    /\ UNCHANGED <<device, need, unit, reserved, sr7Owner, rma, c10Owner, outcome, touched, attention, logistics, bound>>

-----------------------------------------------------------------------------
(* Attention: derived rows, rebuilt by the commands that call the rebuild. *)

Attend(att, key, active) == IF active THEN att \cup {key} ELSE att \ {key}

rebuild_request_attention(att, q, row) ==
    Attend(att, <<"partial_rma_authorization", q>>, row.state = "partially_authorized")

rebuild_rma_attention(att, r, row) ==
    Attend(Attend(att, <<"rma_assignment_conflict", r>>,
                  row.target = None /\ row.state # "closed_accepted"),
           <<"return_obligation_open", r>>, row.obligation = "open")

-----------------------------------------------------------------------------
(* RMAs. *)

require_batch_eligible(q) ==
    /\ request[q].sr7 # None
    /\ request[q].submitted \/ request[q].origin = "external_registration"
    /\ request[q].state \notin TerminalRequest

(* Mutant: a part another RMA is assigned to is offered again. *)
EligibleTargetsAny(q, bom) == {d \in Registered : SrOf[d] = SrOf[q] /\ BomOf[d] = bom}

(* Device parts of the request's SR and BOM that no RMA is assigned to. *)
EligibleTargets(q, bom) ==
    {d \in Registered : /\ SrOf[d] = SrOf[q]
                        /\ BomOf[d] = bom
                        /\ \A r \in Authorized : rma[r].target # d}

(* Rows of a response are assigned in their order, each to the oldest part left. *)
_eligible_target(q, batch, r) ==
    LET targets == EligibleTargets(q, BomOf[r])
        rank == Cardinality({x \in batch : x <= r /\ BomOf[x] = BomOf[r]})
    IN IF rank <= Cardinality(targets) THEN Nth(targets, rank) ELSE None

Rma(q, c, target) ==
    [request |-> q, c10 |-> c, state |-> "promised", target |-> target, inbound |-> None,
     obligation |-> "not_established", returned |-> None, by |-> None,
     member |-> None]

(* Mutant: the boundary is taken by the quantity itself. *)
AuthorizedStateUpTo(row, total) ==
    IF row.quantity > 0 /\ total <= row.quantity THEN "partially_authorized" ELSE "authorized"

AuthorizedState(row, total) ==
    IF row.quantity > 0 /\ total < row.quantity THEN "partially_authorized" ELSE "authorized"

accept_rma_authorization_batch(q, batch, c10) ==
    /\ q \in Requested /\ batch \subseteq bound \ Authorized
    /\ require_batch_eligible(q)
    /\ \A r \in batch : c10Owner[c10[r]] = None
    /\ rma' = [r \in Rmas |-> IF r \in batch THEN Rma(q, c10[r], _eligible_target(q, batch, r))
                              ELSE rma[r]]
    /\ c10Owner' = [c \in C10s |-> IF \E r \in batch : c10[r] = c
                                   THEN CHOOSE r \in batch : c10[r] = c ELSE c10Owner[c]]
    /\ LET total == request[q].authorized + Cardinality(batch)
       IN request' = [request EXCEPT ![q].authorized = total,
                                     ![q].state = AuthorizedState(request[q], total)]
    /\ attention' = rebuild_request_attention(attention, q, request'[q])
                    \cup {<<"rma_assignment_conflict", r>> : r \in {x \in batch : rma'[x].target = None}}
    /\ touched' = touched \cup {q}
    /\ UNCHANGED <<device, need, unit, reserved, sr7Owner, outcome, logistics, bound>>

correct_rma_official_id(r, c) ==
    /\ r \in Authorized /\ c \in bound
    /\ c10Owner[c] = None
    /\ rma' = [rma EXCEPT ![r].c10 = c]
    /\ c10Owner' = [c10Owner EXCEPT ![c] = r]
    /\ UNCHANGED <<device, need, unit, reserved, request, sr7Owner, outcome, touched, attention, logistics, bound>>

set_rma_target_assignment(r, d) ==
    /\ r \in Authorized
    /\ d # rma[r].target
    /\ d # None => d \in EligibleTargets(rma[r].request, BomOf[r])
    /\ rma' = [rma EXCEPT ![r].target = d]
    /\ attention' = rebuild_rma_attention(attention, r, rma'[r])
    /\ UNCHANGED <<device, need, unit, reserved, request, sr7Owner, c10Owner, outcome, touched, logistics, bound>>

(* The received unit is new; the state becomes received whatever it was, and *)
(* attention is not rebuilt.                                                 *)
record_rma_inbound_receipt(r, u, condition) ==
    /\ r \in Authorized
    /\ rma[r].inbound = None
    /\ u \in bound \ Stocked
    /\ unit' = [unit EXCEPT ![u] = SparePartUnit(condition, "direct_rma_receipt", r, None)]
    /\ rma' = [rma EXCEPT ![r].inbound = u, ![r].state = "received"]
    /\ touched' = touched \cup {u}
    /\ UNCHANGED <<device, need, reserved, request, sr7Owner, c10Owner, outcome, attention, logistics, bound>>

(* Reviewed correction: a unit without provenance is tied to an RMA. *)
attach_origin_rma(u, r) ==
    /\ u \in Stocked /\ r \in Authorized
    /\ unit[u].rma = None
    /\ unit' = [unit EXCEPT ![u].rma = r]
    /\ touched' = touched \cup {u}
    /\ UNCHANGED <<device, need, reserved, request, sr7Owner, rma, c10Owner, outcome, attention, logistics, bound>>

Existing == Stocked \cup Authorized \cup Registered
require_participant_identity(x) == x \in Existing

record_actual_logistics_event(e, participants) ==
    /\ e \in bound /\ logistics[e] = None
    /\ participants # {}
    /\ \A x \in participants : require_participant_identity(x)
    /\ logistics' = [logistics EXCEPT ![e] = participants]
    /\ touched' = touched \cup (participants \cap Units)
    /\ UNCHANGED <<device, need, unit, reserved, request, sr7Owner, rma, c10Owner, outcome, attention, bound>>

(* An active participant is closed, and may be replaced by another. *)
correct_logistics_participant(e, x, y) ==
    /\ logistics[e] # None
    /\ x \in logistics[e]
    /\ y # None => require_participant_identity(y)
    /\ logistics' = [logistics EXCEPT ![e] = (@ \ {x}) \cup ({y} \ {None})]
    /\ touched' = touched \cup ({y} \cap Units)
    /\ UNCHANGED <<device, need, unit, reserved, request, sr7Owner, rma, c10Owner, outcome, attention, bound>>

-----------------------------------------------------------------------------
(* Physical consequences of tasks. *)

(* The units a disposition must and may name. *)
validate_consequence_shape(c) ==
    LET named == {f \in {"installed", "removed", "inbound", "parent"} : c[f] # None} IN
    CASE c.disposition = "installed_used" -> named = {"installed", "removed"}
      [] c.disposition \in {"unused", "inbound_faulty", "incompatible"} -> named = {"inbound"}
      [] c.disposition = "dismantled" -> named = {"parent"}
      [] c.disposition = "removed_only" -> named = {"removed"}
      [] c.disposition = "no_physical_change" -> named = {}
      [] OTHER -> Cardinality(named) = 1 /\ "installed" \notin named

(* The unit that must go back. *)
ReturnSelection(c) == IF c.removed # None THEN c.removed
                      ELSE IF c.inbound # None THEN c.inbound ELSE c.parent

_validate_rma_consequence(c) ==
    LET row == rma[c.rma] IN
    /\ c.rma \in Authorized
    /\ c.target # None => c.target = row.target
    /\ c.disposition \in {"installed_used", "unused", "inbound_faulty", "incompatible", "dismantled"}
          => /\ row.inbound # None
             /\ row.inbound \in {c.installed, c.inbound, c.parent}
    /\ c.removed # None /\ row.target # None => c.removed = row.target
    /\ row.obligation = "not_established"

(* A reserved unit may be installed or dismantled only by the task that holds it. *)
_mark_spare_disposition(u, t) == unit[u].held => reserved[u].task = t /\ release_reservation(u)

Marked(c) == {c.installed, c.parent} \ {None}

(* Every unit and every part a consequence names has to exist. *)
NamesExist(c) ==
    /\ {c.installed, c.inbound, c.parent} \subseteq Opt(Stocked)
    /\ c.removed \in Opt(Registered)

OpenReturn(c, t) ==
    IF c.rma = None \/ ReturnSelection(c) = None THEN UNCHANGED <<rma, attention>>
    ELSE /\ rma' = [rma EXCEPT ![c.rma].state = "return_open", ![c.rma].obligation = "open",
                               ![c.rma].returned = ReturnSelection(c), ![c.rma].by = t]
         /\ attention' = rebuild_rma_attention(attention, c.rma, rma'[c.rma])

accept_inventory_physical_consequence(t, c) ==
    /\ t \in bound \ Reviewed
    /\ NamesExist(c)
    /\ c.rma # None => _validate_rma_consequence(c)
    /\ \A u \in Marked(c) : _mark_spare_disposition(u, t)
    /\ outcome' = [outcome EXCEPT ![t] = c]
    /\ device' = [d \in Devices |-> IF d = c.removed THEN "removed" ELSE device[d]]
    /\ reserved' = [u \in Units |-> IF u \in Marked(c) THEN None ELSE reserved[u]]
    /\ unit' = [u \in Units |-> IF u \notin Marked(c) THEN unit[u]
                  ELSE [unit[u] EXCEPT !.held = FALSE,
                          !.disposition = IF u = c.installed THEN "installed" ELSE "dismantled"]]
    /\ touched' = touched \cup (({c.installed, c.inbound, c.parent, c.removed} \ {None}) \ Devices)
    /\ OpenReturn(c, t)
    /\ UNCHANGED <<need, request, sr7Owner, c10Owner, logistics, bound>>

(* A correction may change the disposition and nothing physical. *)
CanCorrectConsequence(t, disposition) ==
    LET c == [outcome[t] EXCEPT !.disposition = disposition] IN
    /\ validate_consequence_shape(c)
    /\ c.rma # None =>
          IF ReturnSelection(c) = None THEN rma[c.rma].obligation = "not_established"
          ELSE /\ rma[c.rma].obligation = "open"
               /\ rma[c.rma].by = t
               /\ rma[c.rma].returned = ReturnSelection(c)

correct_physical_consequence(t, disposition) ==
    /\ t \in Reviewed
    /\ CanCorrectConsequence(t, disposition)
    /\ outcome' = [outcome EXCEPT ![t].disposition = disposition]
    /\ LET r == outcome[t].rma IN
       attention' = IF r = None \/ ReturnSelection(outcome[t]) = None THEN attention
                    ELSE rebuild_rma_attention(attention, r, rma[r])
    /\ UNCHANGED <<device, need, unit, reserved, request, sr7Owner, rma, c10Owner, touched, logistics, bound>>

-----------------------------------------------------------------------------
(* Hard delete of a draft nothing has touched. *)

Untouched(x) == x \notin touched

NeedDeletable(n) ==
    /\ need[n].origin = "manual" /\ need[n].state = "active"
    /\ need[n].contributors = {}
    /\ \A q \in Requested : n \notin request[q].ever
    /\ Untouched(n)

RequestDeletable(q) ==
    /\ request[q].origin = "soma_draft" /\ request[q].state = "draft"
    /\ request[q].sr7 = None /\ ~request[q].submitted
    /\ RmasOf(q) = {}
    /\ Untouched(q)

(* Mutant: a unit nobody holds can go, whatever happened to it. *)
UnitDeletableTouched(u) ==
    /\ unit[u].origin = "manual_local" /\ ~unit[u].held
    /\ unit[u].rma = None /\ unit[u].parent = None

UnitDeletable(u) ==
    /\ unit[u].origin = "manual_local"
    /\ unit[u].rma = None /\ unit[u].parent = None
    /\ \A v \in Stocked : unit[v].parent # u
    /\ UnitHeldByRma(u) = {}
    /\ \A r \in Authorized : rma[r].returned # u
    /\ \A t \in Reviewed : u \notin {outcome[t].installed, outcome[t].inbound, outcome[t].parent}
    /\ Untouched(u)

_delete_rows(need2, request2, unit2) ==
    /\ need' = need2 /\ request' = request2 /\ unit' = unit2
    /\ UNCHANGED <<device, reserved, sr7Owner, rma, c10Owner, outcome, touched, attention, logistics, bound>>

hard_delete_need(n) ==
    n \in Needed /\ NeedDeletable(n) /\ _delete_rows([need EXCEPT ![n] = None], request, unit)

hard_delete_request(q) ==
    q \in Requested /\ RequestDeletable(q) /\ _delete_rows(need, [request EXCEPT ![q] = None], unit)

hard_delete_unit(u) ==
    u \in Stocked /\ UnitDeletable(u) /\ _delete_rows(need, request, [unit EXCEPT ![u] = None])

-----------------------------------------------------------------------------
(* Consequences a review of a task can state about the identifiers in use. *)
Outcomes ==
    LET units == Opt(Stocked)  devices == Opt(Registered) IN
    {c \in [disposition : Consequences, rma : Opt(Authorized), target : devices,
            installed : units, removed : devices, inbound : units, parent : units] :
        validate_consequence_shape(c)}

(* Inputs are drawn from the identifiers of this behaviour. *)
In(S) == S \cap bound

NeedStep ==
    \/ \E n \in In(Needs), q \in 1..MaxQuantity :
          create_spare_need_draft(n, q) \/ set_spare_need_planned_quantity(n, q)
    \/ \E d \in In(Devices), c \in {"unknown", "faulty"} : register_device_part_unit(d, c)
    \/ \E n \in In(Needs), s \in NeedStates : change_spare_need_lifecycle(n, s)
    \/ \E n \in In(Needs) : hard_delete_need(n)

UnitStep ==
    \/ \E u \in In(Units), c \in UnitConditions, o \in Origins, r \in Opt(In(Rmas)), p \in Opt(In(Units)) :
          register_spare_part_unit(u, c, o, r, p)
    \/ \E u \in In(Units), t \in In(Tasks), n \in Opt(In(Needs)) : reserve_spare_part_unit_for_task(u, t, n)
    \/ \E u \in In(Units) : release_spare_part_unit_reservation(u)
    \/ \E t, t2 \in In(Tasks), U \in SUBSET In(Units) : apply_retry_relationship_clone(t, t2, U)
    \/ \E n \in In(Needs), u \in In(Units), t \in Opt(In(Tasks)) :
          record_local_need_fulfillment_selection(n, u, t)

RequestStep ==
    \/ \E q \in In(Requests), f \in Drafts, o \in {"soma_draft", "external_registration"} :
          create_spare_request_draft(q, f, o)
    \/ \E q \in In(Requests), f \in Drafts : update_spare_request_draft(q, f)
    \/ \E q \in In(Requests), s \in In(Sr7s) : assign_or_correct_spare_request_official_id(q, s)
    \/ \E q \in In(Requests), s \in TerminalRequest : cancel_or_reject_spare_request(q, s)
    \/ \E q \in In(Requests) : \/ accept_spare_request_submission(q)
                           \/ correct_false_spare_request_submission(q)

RmaStep ==
    \/ \E q \in In(Requests), batch \in (SUBSET In(Rmas)) \ {{}} :
          \E c10 \in Injection(batch, In(C10s)) : accept_rma_authorization_batch(q, batch, c10)
    \/ \E r \in In(Rmas), c \in In(C10s) : correct_rma_official_id(r, c)
    \/ \E r \in In(Rmas), d \in Opt(In(Devices)) : set_rma_target_assignment(r, d)
    \/ \E r \in In(Rmas), u \in In(Units), c \in UnitConditions : record_rma_inbound_receipt(r, u, c)

ConsequenceStep == \E t \in In(Tasks), c \in Outcomes : accept_inventory_physical_consequence(t, c)

LogisticsStep ==
    \E e \in In(Shipments) :
       \/ \E x \in Existing : record_actual_logistics_event(e, {x})
       \/ \E x \in Existing, y \in Opt(Existing) : correct_logistics_participant(e, x, y)

(* The steps that no tag stands in the way of. *)
StockNext == NeedStep \/ UnitStep \/ RequestStep \/ RmaStep \/ LogisticsStep \/ ConsequenceStep

==================================================================================
