----------------------------- MODULE InventoryProofs -----------------------------
(***************************************************************************)
(* Proofs about the inventory (Stock and FaultTags) for any finite sets of   *)
(* parts, RMAs and tags and any sets of needs, units, requests and tasks.   *)
(***************************************************************************)
EXTENDS FaultTags, FiniteSetTheorems, TLAPS

-----------------------------------------------------------------------------
(* What each group of commands leaves alone. *)

LEMMA NeedFrame ==
    ASSUME NeedStep
    PROVE  /\ UNCHANGED <<unit, reserved, request, sr7Owner, rma, c10Owner, outcome, attention, logistics, bound>>
           /\ touched \subseteq touched'
BY DEF NeedStep, create_spare_need_draft, set_spare_need_planned_quantity, register_device_part_unit,
       change_spare_need_lifecycle, hard_delete_need, _delete_rows

LEMMA UnitFrame ==
    ASSUME UnitStep
    PROVE  /\ UNCHANGED <<device, need, request, sr7Owner, rma, c10Owner, outcome, attention, logistics, bound>>
           /\ touched \subseteq touched'
BY DEF UnitStep, register_spare_part_unit, reserve_spare_part_unit_for_task, release_spare_part_unit_reservation,
       apply_retry_relationship_clone, record_local_need_fulfillment_selection

LEMMA RequestFrame ==
    ASSUME RequestStep
    PROVE  /\ UNCHANGED <<device, need, unit, reserved, rma, c10Owner, outcome, attention, logistics, bound>>
           /\ touched \subseteq touched'
BY DEF RequestStep, create_spare_request_draft, update_spare_request_draft,
       assign_or_correct_spare_request_official_id, cancel_or_reject_spare_request,
       accept_spare_request_submission, correct_false_spare_request_submission

LEMMA RmaFrame ==
    ASSUME RmaStep
    PROVE  /\ UNCHANGED <<device, need, reserved, sr7Owner, outcome, logistics, bound>>
           /\ touched \subseteq touched'
           /\ unit' = unit \/ \E r \in In(Rmas), u \in In(Units), c \in UnitConditions :
                                 record_rma_inbound_receipt(r, u, c)
<1>1. CASE \E q \in In(Requests), batch \in (SUBSET In(Rmas)) \ {{}} :
              \E c10 \in Injection(batch, In(C10s)) : accept_rma_authorization_batch(q, batch, c10)
  BY <1>1 DEF accept_rma_authorization_batch
<1>2. CASE \E r \in In(Rmas), c \in In(C10s) : correct_rma_official_id(r, c)
  BY <1>2 DEF correct_rma_official_id
<1>3. CASE \E r \in In(Rmas), d \in Opt(In(Devices)) : set_rma_target_assignment(r, d)
  BY <1>3 DEF set_rma_target_assignment
<1>4. CASE \E r \in In(Rmas), u \in In(Units), c \in UnitConditions : record_rma_inbound_receipt(r, u, c)
  BY <1>4 DEF record_rma_inbound_receipt
<1> QED  BY <1>1, <1>2, <1>3, <1>4 DEF RmaStep

LEMMA LogisticsFrame ==
    ASSUME LogisticsStep
    PROVE  /\ UNCHANGED <<device, need, unit, reserved, request, sr7Owner, rma, c10Owner, outcome, attention, bound>>
           /\ touched \subseteq touched'
BY DEF LogisticsStep, record_actual_logistics_event, correct_logistics_participant

LEMMA WarehouseFrame ==
    ASSUME NEW T, NEW state, Warehouse(T, state)
    PROVE  UNCHANGED <<device, need, unit, reserved, request, sr7Owner, c10Owner, outcome, touched,
                       logistics, bound, lineage>>
BY DEF Warehouse

LEMMA TagFrame ==
    ASSUME TagStep
    PROVE  UNCHANGED <<device, need, unit, reserved, request, sr7Owner, c10Owner, outcome, touched,
                       logistics, bound, proposal>>
BY DEF TagStep, create_fault_tag_draft, update_fault_tag_draft, accept_fault_tag_submission,
       archive_or_restore, hard_delete_tag, replacement, resend, stockVars

(* A receipt or a decision, whoever makes it. *)
WarehouseMoves ==
    \E T \in SUBSET (Tags \X Rmas) :
        \/ _require_warehouse_targets(T, "submitted_awaiting_receipt") /\ Warehouse(T, "warehouse_received")
        \/ _require_warehouse_targets(T, "warehouse_received")
           /\ \E d \in Decisions \cup {"submitted_awaiting_receipt"} : Warehouse(T, d)

LEMMA WarehouseMovesFrame ==
    ASSUME WarehouseMoves
    PROVE  UNCHANGED <<device, need, unit, reserved, request, sr7Owner, c10Owner, outcome, touched,
                       logistics, bound, lineage>>
BY WarehouseFrame DEF WarehouseMoves

LEMMA WarehouseSteps == WarehouseStep => WarehouseMoves /\ UNCHANGED proposal
<1>1. \A s : WarehouseTargets(s) \subseteq Tags \X Rmas
  BY DEF WarehouseTargets
<1> SUFFICES ASSUME WarehouseStep PROVE WarehouseMoves /\ UNCHANGED proposal
  OBVIOUS
<1>2. CASE \E T \in SUBSET WarehouseTargets("submitted_awaiting_receipt") :
              record_warehouse_receipt(T) \/ accept_inventory_bulk_action("warehouse_receipt", T)
  BY <1>1, <1>2 DEF WarehouseMoves, record_warehouse_receipt, accept_inventory_bulk_action, Receipt
<1>3. CASE \E T \in SUBSET WarehouseTargets("warehouse_received"), d \in Decisions :
              record_warehouse_final_decision(T, d) \/ accept_inventory_bulk_action(d, T)
  BY <1>1, <1>3 DEF WarehouseMoves, record_warehouse_final_decision, accept_inventory_bulk_action,
                    FinalDecision, Decisions
<1> QED  BY <1>2, <1>3 DEF WarehouseStep

-----------------------------------------------------------------------------
(* Proposals keep the kind of targets they were raised for. *)

ProposalInv ==
    /\ proposal \in [Proposals -> Opt(Proposal)]
    /\ \A p \in Proposals : proposal[p] # None =>
          /\ proposal[p].kind = "spare_request_submission" => proposal[p].targets \subseteq Requests
          /\ proposal[p].kind # "spare_request_submission" => proposal[p].targets \subseteq Tags \X Rmas

LEMMA AcceptedProposal ==
    ASSUME ProposalInv, NEW p \in Proposals, accept_inventory_proposal(p)
    PROVE  WarehouseMoves \/ \E T \in SUBSET Requests : SubmissionTargets(T)
<1>0. proposal[p] \in Proposal /\ proposal[p] # None
  BY DEF accept_inventory_proposal, ProposalInv, Opt
<1>1. CASE proposal[p].kind = "spare_request_submission"
  <2>1. SubmissionTargets(proposal[p].targets)
    BY <1>1 DEF accept_inventory_proposal, apply_targets, Decisions
  <2> QED  BY <1>0, <1>1, <2>1 DEF ProposalInv
<1>2. CASE proposal[p].kind # "spare_request_submission"
  <2>1. proposal[p].targets \in SUBSET (Tags \X Rmas)
    BY <1>0, <1>2 DEF ProposalInv
  <2>2. \/ Receipt(proposal[p].targets)
        \/ proposal[p].kind \in Decisions /\ FinalDecision(proposal[p].targets, proposal[p].kind)
    BY <1>2 DEF accept_inventory_proposal, apply_targets
  <2> QED  BY <2>1, <2>2 DEF WarehouseMoves, Receipt, FinalDecision
<1> QED  BY <1>1, <1>2

(* The steps of the inventory, by what they do to the tables. *)
StockStep == NeedStep \/ UnitStep \/ RequestStep \/ RmaStep \/ LogisticsStep \/ ConsequenceStep

OtherStep ==
    \/ UNCHANGED <<stockVars, tag, member, lineage>>
    \/ \E T \in SUBSET Requests : SubmissionTargets(T)
    \/ \E u \in Units, r \in Rmas : attach_origin_rma(u, r) /\ UNCHANGED tagVars
    \/ \E g \in Tags : correct_false_fault_tag_submission(g)
    \/ \E t \in Tasks, d \in Consequences : correct_inventory_physical_consequence(t, d)
    \/ \E u \in Units : hard_delete_untouched_unit(u)
    \/ \E q \in Requests : hard_delete_untouched_request(q)

LEMMA Steps ==
    ASSUME ProposalInv, Next
    PROVE  (StockStep /\ UNCHANGED tagVars) \/ TagStep \/ WarehouseMoves \/ OtherStep
<1>1. CASE StockNext /\ UNCHANGED tagVars
  BY <1>1 DEF StockNext, StockStep
<1>2. CASE ProposalStep
  <2>1. CASE \E p \in In(Proposals), k \in ProposalKinds : \E T \in SUBSET TargetsOf(k) : propose(p, k, T)
    BY <2>1 DEF propose, OtherStep
  <2>2. CASE \E p \in In(Proposals) : accept_inventory_proposal(p)
    BY <2>2, AcceptedProposal DEF In, OtherStep
  <2>3. CASE \E p \in In(Proposals) : reject_inventory_proposal(p)
    BY <2>3 DEF reject_inventory_proposal, OtherStep
  <2> QED  BY <1>2, <2>1, <2>2, <2>3 DEF ProposalStep
<1>3. CASE correct_inventory_evidence
  <2>1. CASE \E x \in Tags \X Rmas : correct_false_warehouse_receipt(x)
    <3>1. PICK x \in Tags \X Rmas : correct_false_warehouse_receipt(x)
      BY <2>1
    <3>2. {x} \in SUBSET (Tags \X Rmas)
      OBVIOUS
    <3> QED  BY <3>1, <3>2 DEF correct_false_warehouse_receipt, WarehouseMoves
  <2>2. CASE \E u \in In(Units), r \in In(Rmas) : attach_origin_rma(u, r) /\ UNCHANGED tagVars
    BY <2>2 DEF In, OtherStep
  <2>3. CASE \E q \in In(Requests) : correct_false_spare_request_submission(q) /\ UNCHANGED tagVars
    BY <2>3 DEF StockStep, RequestStep
  <2>4. CASE \E r \in In(Rmas), c \in In(C10s) : correct_rma_official_id(r, c) /\ UNCHANGED tagVars
    BY <2>4 DEF StockStep, RmaStep
  <2>5. CASE \E g \in In(Tags) : correct_false_fault_tag_submission(g)
    BY <2>5 DEF In, OtherStep
  <2>6. CASE \E t \in In(Tasks), d \in Consequences : correct_inventory_physical_consequence(t, d)
    BY <2>6 DEF In, OtherStep
  <2> QED  BY <1>3, <2>1, <2>2, <2>3, <2>4, <2>5, <2>6 DEF correct_inventory_evidence
<1>4. CASE (\E u \in In(Units) : hard_delete_untouched_unit(u)) \/ (\E q \in In(Requests) : hard_delete_untouched_request(q))
  BY <1>4 DEF In, OtherStep
<1>5. CASE WarehouseStep
  BY <1>5, WarehouseSteps
<1> QED  BY <1>1, <1>2, <1>3, <1>4, <1>5 DEF Next



LEMMA ProposalsKept ==
    ASSUME ProposalInv, [Next]_vars
    PROVE  ProposalInv'
<1>0. CASE UNCHANGED proposal
  BY <1>0 DEF ProposalInv
<1>1. ASSUME NEW p \in Proposals, NEW k \in ProposalKinds, NEW T \in SUBSET TargetsOf(k), propose(p, k, T)
      PROVE  ProposalInv'
  <2> DEFINE row == [kind |-> k, targets |-> T, state |-> "pending"]
  <2>1. /\ k = "spare_request_submission" => T \subseteq Requests
        /\ k # "spare_request_submission" => T \subseteq Tags \X Rmas
    BY <1>1 DEF TargetsOf, Requested
  <2>2. row \in Proposal /\ row.kind = k /\ row.targets = T
    BY <1>1, <2>1 DEF Proposal
  <2>3. proposal' = [proposal EXCEPT ![p] = row]
    BY <1>1 DEF propose
  <2> HIDE DEF row
  <2> QED  BY <2>1, <2>2, <2>3 DEF ProposalInv, Opt
<1>2. ASSUME NEW p \in Proposals, NEW s \in {"accepted", "rejected"}, proposal[p] # None, Decided(p, s)
      PROVE  ProposalInv'
  <2> DEFINE row == [proposal[p] EXCEPT !.state = s]
  <2>1. proposal[p] \in Proposal
    BY <1>2 DEF ProposalInv, Opt
  <2>2. row \in Proposal /\ row.kind = proposal[p].kind /\ row.targets = proposal[p].targets
    BY <1>2, <2>1 DEF Proposal
  <2>3. proposal' = [proposal EXCEPT ![p] = row]
    BY <1>2 DEF Decided
  <2> HIDE DEF row
  <2> QED  BY <1>2, <2>1, <2>2, <2>3 DEF ProposalInv, Opt
<1>3. CASE ProposalStep
  BY <1>1, <1>2, <1>3 DEF ProposalStep, In, accept_inventory_proposal, reject_inventory_proposal
<1>4. CASE correct_inventory_evidence
  BY <1>0, <1>4 DEF correct_inventory_evidence, correct_false_warehouse_receipt, tagVars,
                    correct_false_fault_tag_submission, correct_inventory_physical_consequence
<1>5. CASE Next /\ ~ProposalStep /\ ~correct_inventory_evidence
  BY <1>0, <1>5, TagFrame, WarehouseSteps
     DEF Next, tagVars, hard_delete_untouched_unit, hard_delete_untouched_request
<1>6. CASE UNCHANGED vars
  BY <1>0, <1>6 DEF vars, tagVars
<1> QED  BY <1>3, <1>4, <1>5, <1>6

-----------------------------------------------------------------------------
(* Units and reservations. *)

UnitType ==
    /\ unit \in [Units -> Opt(Unit)]
    /\ reserved \in [Units -> Opt(Reservation)]
    /\ outcome \in [Tasks -> Opt(Consequence)]

(* A reserved unit has a history, which keeps hard_delete away from it. *)
ReservedIsTouched == \A u \in Units : reserved[u] # None => u \in touched

UnitInv == UnitType /\ ReservationMirror /\ ReservedIsTouched

(* The part of ReservationMirror that looks at one unit. *)
Mirrored(u) ==
    /\ (reserved[u] # None) <=> (u \in Stocked /\ unit[u].held)
    /\ u \in Stocked => (unit[u].held <=> unit[u].disposition = "reserved")
    /\ Installed(u) => reserved[u] = None

LEMMA UnitsQuiet ==
    ASSUME UnitInv, UNCHANGED <<unit, reserved, outcome>>, touched \subseteq touched'
    PROVE  UnitInv'
BY DEF UnitInv, UnitType, ReservationMirror, ReservedIsTouched, Stocked, Installed, Reviewed

(* A step that writes one unit and its reservation. *)
LEMMA OneUnit ==
    ASSUME UnitInv, NEW u \in Units, NEW row \in Opt(Unit), NEW held \in Opt(Reservation),
           unit' = [unit EXCEPT ![u] = row], reserved' = [reserved EXCEPT ![u] = held],
           UNCHANGED outcome, touched \subseteq touched',
           (held # None) <=> (row # None /\ row.held),
           row # None => (row.held <=> row.disposition = "reserved"),
           held # None => ~Installed(u) /\ u \in touched'
    PROVE  UnitInv'
<1>1. UnitType'
  BY DEF UnitInv, UnitType
<1>2. ReservedIsTouched'
  BY DEF UnitInv, UnitType, ReservedIsTouched
<1>3. ASSUME NEW v \in Units PROVE Mirrored(v)'
  <2>1. CASE v = u
    BY <2>1 DEF UnitInv, UnitType, Mirrored, Stocked, Installed, Reviewed
  <2>2. CASE v # u
    <3>1. unit'[v] = unit[v] /\ reserved'[v] = reserved[v]
      BY <2>2 DEF UnitInv, UnitType
    <3>2. Mirrored(v)
      BY DEF UnitInv, ReservationMirror, Mirrored
    <3> QED  BY <3>1, <3>2 DEF Mirrored, Stocked, Installed, Reviewed
  <2> QED  BY <2>1, <2>2
<1> QED  BY <1>1, <1>2, <1>3 DEF UnitInv, ReservationMirror, Mirrored

LEMMA StockedUnit ==
    ASSUME UnitInv, NEW u \in Stocked
    PROVE  u \in Units /\ unit[u] \in Unit /\ unit[u] # None
BY StockAssumption DEF UnitInv, UnitType, Stocked, Opt

(* The rows the commands write. *)
LEMMA NewUnit ==
    ASSUME NEW c \in UnitConditions, NEW o \in Origins \cup {"direct_rma_receipt"}, NEW r \in Opt(Rmas),
           NEW p \in Opt(Units)
    PROVE  LET row == SparePartUnit(c, o, r, p)
           IN  row \in Unit /\ row # None /\ row.held = FALSE /\ row.disposition # "reserved"
<1>1. initial_disposition_for_condition(c) \in {"available", "unavailable"}
  BY DEF initial_disposition_for_condition
<1>2. SparePartUnit(c, o, r, p) \in Unit
  BY <1>1 DEF SparePartUnit, Unit
<1> QED  BY <1>1, <1>2, StockAssumption DEF SparePartUnit

LEMMA UnitEdits ==
    ASSUME NEW old \in Unit
    PROVE  /\ LET row == [old EXCEPT !.disposition = "reserved", !.held = TRUE]
              IN  row \in Unit /\ row # None /\ row.held = TRUE /\ row.disposition = "reserved"
           /\ LET row == Released(old)
              IN  row \in Unit /\ row # None /\ row.held = FALSE /\ row.disposition # "reserved"
           /\ \A r \in Rmas : LET row == [old EXCEPT !.rma = r]
                              IN  /\ row \in Unit /\ row # None
                                  /\ row.held = old.held /\ row.disposition = old.disposition
<1>1. initial_disposition_for_condition(old.condition) \in {"available", "unavailable"}
  BY DEF initial_disposition_for_condition
<1>2. LET row == [old EXCEPT !.disposition = "reserved", !.held = TRUE]
      IN  row \in Unit /\ row # None /\ row.held = TRUE /\ row.disposition = "reserved"
  BY StockAssumption DEF Unit
<1>3. LET row == Released(old)
      IN  row \in Unit /\ row # None /\ row.held = FALSE /\ row.disposition # "reserved"
  BY <1>1, StockAssumption DEF Unit, Released
<1>4. ASSUME NEW r \in Rmas
      PROVE  LET row == [old EXCEPT !.rma = r]
             IN  row \in Unit /\ row # None /\ row.held = old.held /\ row.disposition = old.disposition
  BY StockAssumption DEF Unit, Opt
<1> QED  BY <1>2, <1>3, <1>4

LEMMA UnitMirrored ==
    ASSUME UnitInv, NEW u \in Units
    PROVE  Mirrored(u)
BY DEF UnitInv, ReservationMirror, Mirrored

LEMMA Reserving ==
    ASSUME UnitInv, NEW u \in Units, NEW t \in Tasks, NEW n \in Opt(Needs), reserve_for_task(u, t, n),
           UNCHANGED outcome, touched \subseteq touched', u \in touched'
    PROVE  UnitInv'
<1> DEFINE row == [unit[u] EXCEPT !.disposition = "reserved", !.held = TRUE]
           held == [task |-> t, need |-> n]
<1>1. u \in Stocked /\ ~Installed(u)
  BY DEF reserve_for_task, CanReserve, StockEligible
<1>2. row \in Unit /\ row # None /\ row.held = TRUE /\ row.disposition = "reserved"
  BY <1>1, StockedUnit, UnitEdits
<1>3. held \in Reservation /\ held # None
  BY StockAssumption DEF Reservation
<1>4. unit' = [unit EXCEPT ![u] = row] /\ reserved' = [reserved EXCEPT ![u] = held]
  <2>1. unit[u] \in Unit
    BY <1>1, StockedUnit
  <2> QED  BY <2>1 DEF reserve_for_task, Unit
<1> HIDE DEF row, held
<1> QED  BY <1>1, <1>2, <1>3, <1>4, OneUnit DEF Opt

LEMMA NewUnits ==
    ASSUME UnitInv, NEW u \in Units, u \notin Stocked,
           NEW c \in UnitConditions, NEW o \in Origins \cup {"direct_rma_receipt"}, NEW r \in Opt(Rmas),
           NEW p \in Opt(Units), unit' = [unit EXCEPT ![u] = SparePartUnit(c, o, r, p)],
           UNCHANGED <<reserved, outcome>>, touched \subseteq touched'
    PROVE  UnitInv'
<1> DEFINE row == SparePartUnit(c, o, r, p)
<1>1. row \in Unit /\ row # None /\ row.held = FALSE /\ row.disposition # "reserved"
  BY NewUnit
<1>2. reserved[u] = None
  BY UnitMirrored DEF Mirrored
<1>3. reserved' = [reserved EXCEPT ![u] = None]
  BY <1>2 DEF UnitInv, UnitType
<1>4. unit' = [unit EXCEPT ![u] = row]
  OBVIOUS
<1> HIDE DEF row
<1> QED  BY <1>1, <1>3, <1>4, OneUnit DEF Opt

LEMMA UnitStepKeeps ==
    ASSUME UnitInv, UnitStep
    PROVE  UnitInv'
<1>0. UNCHANGED outcome /\ touched \subseteq touched'
  BY UnitFrame
<1>1. ASSUME NEW u \in Units, NEW c \in UnitConditions, NEW o \in Origins, NEW r \in Opt(Rmas),
             NEW p \in Opt(Units), register_spare_part_unit(u, c, o, r, p)
      PROVE  UnitInv'
  BY <1>0, <1>1, NewUnits DEF register_spare_part_unit
<1>2. ASSUME NEW u \in Units, NEW t \in Tasks, NEW n \in Opt(Needs), reserve_spare_part_unit_for_task(u, t, n)
      PROVE  UnitInv'
  BY <1>0, <1>2, Reserving DEF reserve_spare_part_unit_for_task
<1>3. ASSUME NEW u \in Units, release_spare_part_unit_reservation(u)
      PROVE  UnitInv'
  <2> DEFINE row == Released(unit[u])
  <2>1. u \in Stocked
    BY <1>3, UnitMirrored DEF Mirrored, release_spare_part_unit_reservation, release_reservation
  <2>2. row \in Unit /\ row # None /\ row.held = FALSE /\ row.disposition # "reserved"
    BY <2>1, StockedUnit, UnitEdits
  <2>3. unit' = [unit EXCEPT ![u] = row] /\ reserved' = [reserved EXCEPT ![u] = None]
    BY <1>3 DEF release_spare_part_unit_reservation
  <2> HIDE DEF row
  <2> QED  BY <1>0, <2>2, <2>3, OneUnit DEF Opt
<1>4. ASSUME NEW t \in Tasks, NEW t2 \in Tasks, NEW U \in SUBSET Units, apply_retry_relationship_clone(t, t2, U)
      PROVE  UnitInv'
  <2>1. ASSUME NEW u \in U
        PROVE  reserved[u] # None /\ [reserved[u] EXCEPT !.task = t2] \in Reservation
    <3>1. reserved[u] # None
      BY <1>4 DEF apply_retry_relationship_clone, preview_retry_relationship_clone
    <3>2. reserved[u] \in Reservation
      BY <3>1 DEF UnitInv, UnitType, Opt
    <3> QED  BY <3>1, <3>2 DEF Reservation
  <2>2. reserved' \in [Units -> Opt(Reservation)]
    BY <1>4, <2>1 DEF apply_retry_relationship_clone, reassign_task_allocation, UnitInv, UnitType, Opt
  <2>3. \A u \in Units : reserved'[u] # None <=> reserved[u] # None
    BY <1>4, <2>1, StockAssumption DEF apply_retry_relationship_clone, reassign_task_allocation
  <2>4. unit' = unit
    BY <1>4 DEF apply_retry_relationship_clone
  <2> QED  BY <1>0, <2>2, <2>3, <2>4
           DEF UnitInv, UnitType, ReservationMirror, ReservedIsTouched, Stocked, Installed, Reviewed
<1>5. ASSUME NEW n \in Needs, NEW u \in Units, NEW t \in Opt(Tasks), record_local_need_fulfillment_selection(n, u, t)
      PROVE  UnitInv'
  <2>1. CASE t = None
    BY <1>0, <1>5, <2>1, UnitsQuiet DEF record_local_need_fulfillment_selection
  <2>2. CASE t # None
    <3>1. t \in Tasks /\ reserve_for_task(u, t, n) /\ u \in touched'
      BY <1>5, <2>2 DEF record_local_need_fulfillment_selection, Opt
    <3> QED  BY <1>0, <3>1, Reserving DEF Opt
  <2> QED  BY <2>1, <2>2
<1> QED  BY <1>1, <1>2, <1>3, <1>4, <1>5 DEF UnitStep, In, Opt

LEMMA OutcomeRows ==
    ASSUME NEW c \in Outcomes
    PROVE  c \in Consequence
BY DEF Outcomes, Consequence, Opt, Stocked, Registered, Authorized

LEMMA ConsequenceKeepsUnits ==
    ASSUME UnitInv, NEW t \in Tasks, NEW c \in Outcomes, accept_inventory_physical_consequence(t, c)
    PROVE  UnitInv'
<1>0. c \in Consequence /\ c # None
  BY OutcomeRows, StockAssumption
<1>1. Marked(c) \subseteq Stocked
  BY DEF accept_inventory_physical_consequence, NamesExist, Marked, Opt
<1>2. outcome' = [outcome EXCEPT ![t] = c] /\ touched \subseteq touched' /\ outcome[t] = None
  BY DEF accept_inventory_physical_consequence, Reviewed
<1>3. ASSUME NEW u \in Marked(c)
      PROVE  /\ u \in Units /\ unit'[u] \in Unit /\ unit'[u] # None /\ reserved'[u] = None
             /\ ~unit'[u].held /\ unit'[u].disposition # "reserved"
  <2> DEFINE d == IF u = c.installed THEN "installed" ELSE "dismantled"
  <2>1. u \in Units /\ unit[u] \in Unit
    BY <1>1, StockedUnit
  <2>2. unit'[u] = [unit[u] EXCEPT !.held = FALSE, !.disposition = d] /\ reserved'[u] = None
    BY <2>1 DEF accept_inventory_physical_consequence
  <2>3. d \in {"installed", "dismantled"}
    OBVIOUS
  <2> HIDE DEF d
  <2> QED  BY <2>1, <2>2, <2>3, StockAssumption DEF Unit
<1>4. ASSUME NEW u \in Units, u \notin Marked(c)
      PROVE  unit'[u] = unit[u] /\ reserved'[u] = reserved[u]
  BY <1>4 DEF accept_inventory_physical_consequence
<1>5. UnitType'
  <2>1. outcome' \in [Tasks -> Opt(Consequence)]
    BY <1>0, <1>2 DEF UnitInv, UnitType, Opt
  <2>2. DOMAIN unit' = Units /\ unit' = [u \in Units |-> unit'[u]] /\ reserved' = [u \in Units |-> reserved'[u]]
    BY DEF accept_inventory_physical_consequence
  <2>3. ASSUME NEW u \in Units PROVE unit'[u] \in Opt(Unit) /\ reserved'[u] \in Opt(Reservation)
    BY <1>3, <1>4 DEF UnitInv, UnitType, Opt
  <2> QED  BY <2>1, <2>2, <2>3 DEF UnitType
<1>6. ReservedIsTouched'
  BY <1>2, <1>3, <1>4 DEF UnitInv, ReservedIsTouched
<1>7. ASSUME NEW u \in Units PROVE Mirrored(u)'
  <2>1. CASE u \in Marked(c)
    BY <1>3, <2>1 DEF Mirrored, Stocked
  <2>2. CASE u \notin Marked(c)
    <3>1. unit'[u] = unit[u] /\ reserved'[u] = reserved[u] /\ Mirrored(u)
      BY <1>4, <2>2, UnitMirrored
    <3>2. Installed(u)' => Installed(u)
      <4>1. u # c.installed
        BY <2>2, StockAssumption DEF Marked
      <4>2. \A k \in Tasks : k # t => outcome'[k] = outcome[k]
        BY <1>2 DEF UnitInv, UnitType
      <4>3. outcome'[t] = c
        BY <1>2 DEF UnitInv, UnitType
      <4> QED  BY <4>1, <4>2, <4>3 DEF Installed, Reviewed
    <3> QED  BY <3>1, <3>2 DEF Mirrored, Stocked
  <2> QED  BY <2>1, <2>2
<1> QED  BY <1>5, <1>6, <1>7 DEF UnitInv, ReservationMirror, Mirrored

(* A correction of a consequence names the same units. *)
LEMMA CorrectedOutcome ==
    ASSUME UnitInv, NEW t \in Tasks, NEW d \in Consequences, correct_inventory_physical_consequence(t, d)
    PROVE  /\ outcome' \in [Tasks -> Opt(Consequence)] /\ Reviewed' = Reviewed
           /\ \A k \in Reviewed :
                 /\ outcome[k] \in Consequence /\ outcome'[k] \in Consequence
                 /\ outcome'[k].installed = outcome[k].installed /\ outcome'[k].removed = outcome[k].removed
                 /\ outcome'[k].inbound = outcome[k].inbound /\ outcome'[k].parent = outcome[k].parent
                 /\ outcome'[k].rma = outcome[k].rma /\ outcome'[k].target = outcome[k].target
<1> DEFINE row == [outcome[t] EXCEPT !.disposition = d]
<1>1. outcome[t] \in Consequence
  BY DEF correct_inventory_physical_consequence, correct_physical_consequence, Reviewed, UnitInv, UnitType, Opt
<1>2. /\ row \in Consequence /\ row # None
      /\ row.installed = outcome[t].installed /\ row.removed = outcome[t].removed
      /\ row.inbound = outcome[t].inbound /\ row.parent = outcome[t].parent
      /\ row.rma = outcome[t].rma /\ row.target = outcome[t].target
  BY <1>1, StockAssumption DEF Consequence
<1>3. outcome' = [outcome EXCEPT ![t] = row] /\ outcome[t] # None
  BY <1>1 DEF correct_inventory_physical_consequence, correct_physical_consequence, Reviewed
<1> HIDE DEF row
<1>4. outcome \in [Tasks -> Opt(Consequence)]
  BY DEF UnitInv, UnitType
<1>5. \A k \in Reviewed : k \in Tasks /\ outcome[k] \in Consequence
  BY <1>4 DEF Reviewed, Opt
<1>6. outcome' \in [Tasks -> Opt(Consequence)] /\ outcome'[t] = row /\ \A k \in Tasks : k # t => outcome'[k] = outcome[k]
  BY <1>2, <1>3, <1>4 DEF Opt
<1>7. Reviewed' = Reviewed
  BY <1>2, <1>3, <1>6 DEF Reviewed
<1>8. ASSUME NEW k \in Reviewed
      PROVE  /\ outcome[k] \in Consequence /\ outcome'[k] \in Consequence
             /\ outcome'[k].installed = outcome[k].installed /\ outcome'[k].removed = outcome[k].removed
             /\ outcome'[k].inbound = outcome[k].inbound /\ outcome'[k].parent = outcome[k].parent
             /\ outcome'[k].rma = outcome[k].rma /\ outcome'[k].target = outcome[k].target
  <2>1. CASE k = t
    BY <1>2, <1>5, <1>6, <2>1
  <2>2. CASE k # t
    BY <1>5, <1>6, <2>2
  <2> QED  BY <2>1, <2>2
<1> QED  BY <1>6, <1>7, <1>8

LEMMA UnitsKept ==
    ASSUME ProposalInv, UnitInv, Next
    PROVE  UnitInv'
<1>1. CASE NeedStep \/ RequestStep \/ LogisticsStep
  BY <1>1, NeedFrame, RequestFrame, LogisticsFrame, UnitsQuiet
<1>2. CASE UnitStep
  BY <1>2, UnitStepKeeps
<1>3. CASE RmaStep
  <2>1. CASE unit' = unit
    BY <1>3, <2>1, RmaFrame, UnitsQuiet
  <2>2. ASSUME NEW r \in Rmas, NEW u \in Units, NEW c \in UnitConditions, record_rma_inbound_receipt(r, u, c)
        PROVE  UnitInv'
    BY <2>2, NewUnits DEF record_rma_inbound_receipt, Opt
  <2> QED  BY <1>3, <2>1, <2>2, RmaFrame DEF In
<1>4. CASE ConsequenceStep
  BY <1>4, ConsequenceKeepsUnits DEF ConsequenceStep, In
<1>5. CASE TagStep \/ WarehouseMoves
  BY <1>5, TagFrame, WarehouseMovesFrame, UnitsQuiet
<1>6. CASE OtherStep
  <2>1. CASE UNCHANGED <<stockVars, tag, member, lineage>>
    BY <2>1, UnitsQuiet DEF stockVars
  <2>2. CASE \E T \in SUBSET Requests : SubmissionTargets(T)
    BY <2>2, UnitsQuiet DEF SubmissionTargets
  <2>3. ASSUME NEW u \in Units, NEW r \in Rmas, attach_origin_rma(u, r)
        PROVE  UnitInv'
    <3> DEFINE row == [unit[u] EXCEPT !.rma = r]
    <3>1. u \in Stocked /\ unit[u] \in Unit
      BY <2>3, StockedUnit DEF attach_origin_rma
    <3>2. row \in Unit /\ row # None /\ row.held = unit[u].held /\ row.disposition = unit[u].disposition
      BY <3>1, UnitEdits
    <3>3. unit' = [unit EXCEPT ![u] = row] /\ UNCHANGED <<reserved, outcome>> /\ touched \subseteq touched'
      BY <2>3 DEF attach_origin_rma
    <3>4. reserved' = [reserved EXCEPT ![u] = reserved[u]] /\ reserved[u] \in Opt(Reservation)
      BY <3>3 DEF UnitInv, UnitType
    <3>5. Mirrored(u) /\ (reserved[u] # None => u \in touched)
      BY UnitMirrored DEF UnitInv, ReservedIsTouched
    <3> HIDE DEF row
    <3> QED  BY <3>1, <3>2, <3>3, <3>4, <3>5, OneUnit DEF Opt, Mirrored
  <2>4. CASE \E g \in Tags : correct_false_fault_tag_submission(g)
    BY <2>4, UnitsQuiet DEF correct_false_fault_tag_submission
  <2>5. ASSUME NEW t \in Tasks, NEW d \in Consequences, correct_inventory_physical_consequence(t, d)
        PROVE  UnitInv'
    <3>1. UNCHANGED <<unit, reserved, touched>>
      BY <2>5 DEF correct_inventory_physical_consequence, correct_physical_consequence
    <3>2. \A u : Installed(u)' <=> Installed(u)
      BY <2>5, CorrectedOutcome DEF Installed
    <3>3. outcome' \in [Tasks -> Opt(Consequence)]
      BY <2>5, CorrectedOutcome
    <3> QED  BY <3>1, <3>2, <3>3 DEF UnitInv, UnitType, ReservationMirror, ReservedIsTouched, Stocked
  <2>6. ASSUME NEW u \in Units, hard_delete_untouched_unit(u)
        PROVE  UnitInv'
    <3>1. /\ unit' = [unit EXCEPT ![u] = None] /\ UNCHANGED <<reserved, outcome, touched>> /\ u \notin touched
      BY <2>6 DEF hard_delete_untouched_unit, hard_delete_unit, _delete_rows, UnitDeletable, Untouched
    <3>2. reserved[u] = None
      BY <3>1 DEF UnitInv, ReservedIsTouched
    <3>3. reserved' = [reserved EXCEPT ![u] = None]
      BY <3>1, <3>2 DEF UnitInv, UnitType
    <3> QED  BY <3>1, <3>3, OneUnit DEF Opt
  <2>7. CASE \E q \in Requests : hard_delete_untouched_request(q)
    BY <2>7, UnitsQuiet DEF hard_delete_untouched_request, hard_delete_request, _delete_rows
  <2> QED  BY <1>6, <2>1, <2>2, <2>3, <2>4, <2>5, <2>6, <2>7 DEF OtherStep
<1> QED  BY <1>1, <1>2, <1>3, <1>4, <1>5, <1>6, Steps DEF StockStep

LEMMA UnitInvariant == Spec => [](ProposalInv /\ UnitInv)
<1>1. Init => ProposalInv /\ UnitInv
  BY DEF Init, StockInit, TagInit, ProposalInv, UnitInv, UnitType, ReservationMirror, ReservedIsTouched,
         Stocked, Installed, Reviewed, Opt
<1>2. ProposalInv /\ UnitInv /\ [Next]_vars => (ProposalInv /\ UnitInv)'
  <2>1. ASSUME UnitInv, UNCHANGED vars PROVE UnitInv'
    BY <2>1, UnitsQuiet DEF vars, stockVars
  <2> QED  BY <2>1, ProposalsKept, UnitsKept
<1> QED  BY <1>1, <1>2, PTL DEF Spec

(* The reservation of a unit, its allocation row, its projection and its     *)
(* disposition agree after every command, and a unit that a task has used up *)
(* is not promised to another (reserve_for_task, release_reservation,        *)
(* _mark_spare_disposition, hard_delete_unit).                               *)
THEOREM ReservationsMirror == Spec => []ReservationMirror
<1>1. UnitInv => ReservationMirror
  BY DEF UnitInv
<1> QED  BY <1>1, UnitInvariant, PTL

-----------------------------------------------------------------------------
(* RMAs: what a step that is not about tags may do to them. *)

RmaType == rma \in [Rmas -> Opt(RmaRow)]

LEMMA AuthorizedRow ==
    ASSUME RmaType, NEW r \in Authorized
    PROVE  r \in Rmas /\ rma[r] \in RmaRow /\ rma[r] # None
BY TagAssumption DEF RmaType, Authorized, Opt

(* The return of an RMA: what its obligation says and which tag carries it. *)
SameReturn(old, new) ==
    /\ new.member = old.member /\ new.obligation = old.obligation
    /\ new.by = old.by /\ new.returned = old.returned

(* A step that opens a return at most: no tag is concerned. *)
ReturnsMove ==
    /\ RmaType'
    /\ Authorized \subseteq Authorized'
    /\ \A r \in Authorized : SameReturn(rma[r], rma'[r])
                             \/ /\ rma[r].obligation = "not_established" /\ rma'[r].obligation = "open"
                                /\ rma'[r].member = rma[r].member
    /\ \A r \in Authorized' \ Authorized : rma'[r].member = None /\ rma'[r].obligation = "not_established"

LEMMA ReturnsQuiet ==
    ASSUME RmaType, UNCHANGED rma
    PROVE  ReturnsMove
BY DEF RmaType, ReturnsMove, Authorized, SameReturn

(* A step that writes one RMA. *)
LEMMA OneReturn ==
    ASSUME RmaType, NEW r \in Authorized, NEW row \in RmaRow, rma' = [rma EXCEPT ![r] = row],
           \/ SameReturn(rma[r], row)
           \/ /\ rma[r].obligation = "not_established" /\ row.obligation = "open"
              /\ row.member = rma[r].member
    PROVE  ReturnsMove
<1>1. row # None /\ r \in Rmas
  BY TagAssumption, AuthorizedRow
<1>2. rma'[r] = row /\ \A s \in Rmas : s # r => rma'[s] = rma[s]
  BY <1>1 DEF RmaType
<1>3. RmaType'
  BY DEF RmaType, Opt
<1>4. Authorized' = Authorized
  BY <1>1, <1>2 DEF Authorized
<1>5. \A s \in Authorized : s # r => SameReturn(rma[s], rma'[s])
  BY <1>2 DEF Authorized, SameReturn
<1> QED  BY <1>2, <1>3, <1>4, <1>5 DEF ReturnsMove

LEMMA NewRma ==
    ASSUME NEW q \in Requests, NEW c \in C10s, NEW d \in Opt(Devices)
    PROVE  LET row == Rma(q, c, d)
           IN  /\ row \in RmaRow /\ row # None /\ row.member = None /\ row.obligation = "not_established"
               /\ row.request = q /\ row.target = d /\ row.inbound = None /\ row.returned = None
<1>1. Rma(q, c, d) \in RmaRow
  BY DEF Rma, RmaRow, Opt
<1> QED  BY <1>1, TagAssumption DEF Rma

-----------------------------------------------------------------------------
(* The parts a batch of RMAs is assigned to. *)

UpTo(S, x) == {y \in S : y <= x}

LEMMA RankGrows ==
    ASSUME NEW S \in SUBSET Nat, IsFiniteSet(S), NEW x \in S, NEW y \in S, x < y
    PROVE  Cardinality(UpTo(S, x)) < Cardinality(UpTo(S, y))
<1>1. UpTo(S, y) \in SUBSET S /\ UpTo(S, x) \in SUBSET UpTo(S, y)
  <2>1. ASSUME NEW z \in UpTo(S, x) PROVE z \in S /\ z <= y
    <3>1. z \in S /\ z <= x /\ z \in Nat /\ x \in Nat /\ y \in Nat
      BY DEF UpTo
    <3> QED  BY <3>1
  <2> QED  BY <2>1 DEF UpTo
<1>2. y \in UpTo(S, y) /\ y \notin UpTo(S, x)
  BY DEF UpTo
<1>3. IsFiniteSet(UpTo(S, y))
  BY <1>1, FS_Subset
<1>4. /\ Cardinality(UpTo(S, x)) <= Cardinality(UpTo(S, y))
      /\ Cardinality(UpTo(S, y)) # Cardinality(UpTo(S, x)) /\ IsFiniteSet(UpTo(S, x))
  BY <1>1, <1>2, <1>3, FS_Subset
<1>5. Cardinality(UpTo(S, x)) \in Nat /\ Cardinality(UpTo(S, y)) \in Nat
  BY <1>3, <1>4, FS_CardinalityType
<1> QED  BY <1>4, <1>5

(* Counting from the smallest element reaches every rank. *)
LEMMA NthRank ==
    ASSUME NEW S \in SUBSET Nat, IsFiniteSet(S), NEW k \in 1..Cardinality(S)
    PROVE  Nth(S, k) \in S /\ Cardinality(UpTo(S, Nth(S, k))) = k
<1> DEFINE n == Cardinality(S)
           f == [x \in S |-> Cardinality(UpTo(S, x))]
<1>1. n \in Nat
  BY FS_CardinalityType
<1>2. ASSUME NEW x \in S PROVE Cardinality(UpTo(S, x)) \in 1..n
  <2>1. UpTo(S, x) \in SUBSET S /\ x \in UpTo(S, x)
    BY DEF UpTo
  <2>2. IsFiniteSet(UpTo(S, x)) /\ Cardinality(UpTo(S, x)) <= n
    BY <2>1, FS_Subset
  <2>3. Cardinality(UpTo(S, x)) \in Nat /\ Cardinality(UpTo(S, x)) # 0
    BY <2>1, <2>2, FS_CardinalityType, FS_EmptySet
  <2> QED  BY <1>1, <2>2, <2>3
<1>3. f \in [S -> 1..n]
  BY <1>2
<1>4. ASSUME NEW x \in S, NEW y \in S, f[x] = f[y] PROVE x = y
  <2>1. Cardinality(UpTo(S, x)) = Cardinality(UpTo(S, y)) /\ Cardinality(UpTo(S, x)) \in Int
    BY <1>2, <1>4
  <2>2. ~(x < y) /\ ~(y < x)
    BY <2>1, RankGrows
  <2> QED  BY <2>2
<1>5. f \in Injection(S, 1..n)
  BY <1>3, <1>4 DEF Injection, IsInjective
<1>6. IsFiniteSet(1..n) /\ Cardinality(1..n) = n
  BY <1>1, FS_Interval
<1>7. f \in Surjection(S, 1..n)
  <2> HIDE DEF f, n
  <2>1. Cardinality(S) = Cardinality(1..n)
    BY <1>6 DEF n
  <2> QED  BY <1>5, <1>6, <2>1, FS_Injection
<1>8. PICK x \in S : f[x] = k
  BY <1>7 DEF Surjection
<1>9. Cardinality(UpTo(S, x)) = k
  BY <1>8
<1> QED  BY <1>9 DEF Nth, UpTo

LEMMA EligibleSet ==
    ASSUME NEW q, NEW bom
    PROVE  /\ EligibleTargets(q, bom) \in SUBSET Nat /\ IsFiniteSet(EligibleTargets(q, bom))
           /\ EligibleTargets(q, bom) \subseteq Registered /\ Cardinality(EligibleTargets(q, bom)) \in Nat
           /\ \A d \in EligibleTargets(q, bom) : BomOf[d] = bom /\ \A r \in Authorized : rma[r].target # d
<1>1. EligibleTargets(q, bom) \in SUBSET Devices /\ EligibleTargets(q, bom) \subseteq Registered
  BY DEF EligibleTargets, Registered
<1>2. IsFiniteSet(EligibleTargets(q, bom))
  BY <1>1, FS_Subset, StockAssumption
<1> QED  BY <1>1, <1>2, FS_CardinalityType, StockAssumption DEF EligibleTargets

SameBom(batch, bom) == {x \in batch : BomOf[x] = bom}

LEMMA BatchRank ==
    ASSUME NEW batch \in SUBSET Rmas, NEW r \in batch
    PROVE  /\ {x \in batch : x <= r /\ BomOf[x] = BomOf[r]} = UpTo(SameBom(batch, BomOf[r]), r)
           /\ SameBom(batch, BomOf[r]) \in SUBSET Nat /\ IsFiniteSet(SameBom(batch, BomOf[r]))
           /\ r \in SameBom(batch, BomOf[r])
           /\ Cardinality(UpTo(SameBom(batch, BomOf[r]), r)) \in Nat \ {0}
<1>1. SameBom(batch, BomOf[r]) \in SUBSET Rmas /\ r \in SameBom(batch, BomOf[r]) /\ r \in Nat
  BY StockAssumption DEF SameBom
<1>2. IsFiniteSet(SameBom(batch, BomOf[r]))
  BY <1>1, FS_Subset, StockAssumption
<1>3. UpTo(SameBom(batch, BomOf[r]), r) \in SUBSET SameBom(batch, BomOf[r]) /\ r \in UpTo(SameBom(batch, BomOf[r]), r)
  BY <1>1 DEF UpTo
<1>4. IsFiniteSet(UpTo(SameBom(batch, BomOf[r]), r))
  BY <1>2, <1>3, FS_Subset
<1>5. Cardinality(UpTo(SameBom(batch, BomOf[r]), r)) \in Nat \ {0}
  BY <1>3, <1>4, FS_CardinalityType, FS_EmptySet
<1> QED  BY <1>1, <1>2, <1>5, StockAssumption DEF UpTo, SameBom

(* What a row of a response is assigned to: nothing, or the part of its rank. *)
LEMMA BatchTarget ==
    ASSUME NEW q, NEW batch \in SUBSET Rmas, NEW r \in batch, _eligible_target(q, batch, r) # None
    PROVE  LET S == EligibleTargets(q, BomOf[r])  d == _eligible_target(q, batch, r)
           IN  d \in S /\ Cardinality(UpTo(S, d)) = Cardinality(UpTo(SameBom(batch, BomOf[r]), r))
<1> DEFINE S == EligibleTargets(q, BomOf[r])
           k == Cardinality(UpTo(SameBom(batch, BomOf[r]), r))
<1>1. _eligible_target(q, batch, r) = IF k <= Cardinality(S) THEN Nth(S, k) ELSE None
  BY BatchRank DEF _eligible_target
<1>2. k <= Cardinality(S) /\ _eligible_target(q, batch, r) = Nth(S, k)
  BY <1>1
<1>3. S \in SUBSET Nat /\ IsFiniteSet(S) /\ Cardinality(S) \in Nat
  BY EligibleSet
<1>4. k \in 1..Cardinality(S)
  BY <1>2, <1>3, BatchRank
<1>5. Nth(S, k) \in S /\ Cardinality(UpTo(S, Nth(S, k))) = k
  <2> HIDE DEF S, k
  <2> QED  BY <1>3, <1>4, NthRank
<1> QED  BY <1>2, <1>5

(* Two rows of a response are never assigned to one part. *)
LEMMA BatchTargetsDiffer ==
    ASSUME NEW q, NEW batch \in SUBSET Rmas, NEW r \in batch, NEW s \in batch,
           _eligible_target(q, batch, r) = _eligible_target(q, batch, s), _eligible_target(q, batch, r) # None
    PROVE  r = s
<1> DEFINE d == _eligible_target(q, batch, r)
           B == SameBom(batch, BomOf[r])
<1>1. /\ d \in EligibleTargets(q, BomOf[r]) /\ d \in EligibleTargets(q, BomOf[s])
      /\ Cardinality(UpTo(EligibleTargets(q, BomOf[r]), d)) = Cardinality(UpTo(B, r))
      /\ Cardinality(UpTo(EligibleTargets(q, BomOf[s]), d)) = Cardinality(UpTo(SameBom(batch, BomOf[s]), s))
  BY BatchTarget
<1>2. BomOf[r] = BomOf[s]
  BY <1>1, EligibleSet
<1>3. Cardinality(UpTo(B, r)) = Cardinality(UpTo(B, s)) /\ Cardinality(UpTo(B, r)) \in Nat
  BY <1>1, <1>2, BatchRank
<1>4. B \in SUBSET Nat /\ IsFiniteSet(B) /\ r \in B /\ s \in B
  BY <1>2, BatchRank
<1>5. ~(r < s) /\ ~(s < r)
  BY <1>3, <1>4, RankGrows
<1> QED  BY <1>4, <1>5

-----------------------------------------------------------------------------
(* Tags, their members and the returns they carry. *)

Rows == [Rmas -> Opt(Membership)]
Present(rows) == {r \in Rmas : rows[r] # None}

TagType ==
    /\ tag \in [Tags -> Opt(Tag)]
    /\ member \in [Tags -> Rows]

(* Members are drafts exactly until the submission, and are superseded only with their tag. *)
StatesFit(row, rows) ==
    \A r \in Present(rows) :
        /\ rows[r].state = "draft" <=> ~row.submitted
        /\ rows[r].state = "superseded" => row.state = "superseded"
        /\ row.state = "superseded" => rows[r].state \notin ActiveMember

Counted(row, rows) ==
    /\ row.receipt = Cardinality(InState(rows, "submitted_awaiting_receipt"))
    /\ row.final = Cardinality(InState(rows, "warehouse_received"))
    /\ row.accepted = Cardinality(InState(rows, "accepted"))
    /\ row.rejected = Cardinality(InState(rows, "rejected"))
    /\ row.submitted => row.count = Cardinality(Present(rows))

Terminal == {"terminal_completed", "terminal_with_rejected"}

Finished(row, rows) ==
    row.state \in Terminal => /\ \A r \in Present(rows) : rows[r].state \in Decisions
                              /\ row.accepted + row.rejected = row.count

TagOk(row, rows) ==
    /\ row = None => Present(rows) = {}
    /\ row # None => StatesFit(row, rows) /\ Counted(row, rows) /\ Finished(row, rows)

Active(g, r) == member[g][r] # None /\ member[g][r].state \in ActiveMember
Accepted(g, r) == member[g][r] # None /\ member[g][r].state = "accepted"

(* An active membership and its RMA name each other, *)
LinkedMember(g, r) ==
    Active(g, r) => /\ rma[r].member = g /\ rma[r].obligation = "open"
                    /\ rma[r].by = member[g][r].by /\ rma[r].returned = member[g][r].unit

LinkedRma(r) == rma[r].member # None => rma[r].member \in Tags /\ Active(rma[r].member, r)

Linked ==
    /\ \A g \in Tags, r \in Rmas : LinkedMember(g, r)
    /\ \A r \in Authorized : LinkedRma(r)

(* and an obligation is closed by one acceptance. *)
AcceptedOnce ==
    /\ \A r \in Authorized : rma[r].obligation = "closed_accepted" <=> \E g \in Tags : Accepted(g, r)
    /\ \A r \in Rmas : \A g, h \in Tags : Accepted(g, r) /\ Accepted(h, r) => g = h

MembersAuthorized == \A g \in Tags, r \in Rmas : member[g][r] # None => r \in Authorized

TagInv ==
    /\ TagType /\ RmaType /\ MembersAuthorized
    /\ \A g \in Tags : TagOk(tag[g], member[g])
    /\ Linked /\ AcceptedOnce

LEMMA InStateFinite ==
    ASSUME NEW rows, NEW s
    PROVE  /\ InState(rows, s) \in SUBSET Present(rows) /\ IsFiniteSet(InState(rows, s))
           /\ Cardinality(InState(rows, s)) \in Nat
           /\ IsFiniteSet(Present(rows)) /\ Cardinality(Present(rows)) \in Nat
           /\ (\A r \in Present(rows) : rows[r].state # s) => Cardinality(InState(rows, s)) = 0
<1>1. InState(rows, s) \in SUBSET Present(rows) /\ Present(rows) \in SUBSET Rmas /\ InState(rows, s) \in SUBSET Rmas
  BY DEF InState, Present
<1>2. IsFiniteSet(InState(rows, s)) /\ IsFiniteSet(Present(rows))
  BY <1>1, FS_Subset, StockAssumption
<1>3. Cardinality(InState(rows, s)) \in Nat /\ Cardinality(Present(rows)) \in Nat
  BY <1>2, FS_CardinalityType
<1>4. ASSUME \A r \in Present(rows) : rows[r].state # s PROVE Cardinality(InState(rows, s)) = 0
  <2>1. InState(rows, s) = {}
    BY <1>4 DEF InState, Present
  <2> QED  BY <2>1, FS_EmptySet
<1> QED  BY <1>1, <1>2, <1>3, <1>4

LEMMA DraftTag ==
    ASSUME NEW row \in Tag, NEW rows, \A r \in Present(rows) : rows[r].state = "draft",
           ~row.submitted, row.state \notin Terminal,
           row.receipt = 0, row.final = 0, row.accepted = 0, row.rejected = 0
    PROVE  TagOk(row, rows)
<1>1. StatesFit(row, rows)
  BY DEF StatesFit, ActiveMember, Tag
<1>2. \A s \in ActiveMember \cup Decisions : Cardinality(InState(rows, s)) = 0
  BY InStateFinite DEF ActiveMember, Decisions
<1>3. Counted(row, rows)
  BY <1>2 DEF Counted, ActiveMember, Decisions
<1> QED  BY <1>1, <1>3, TagAssumption DEF TagOk, Finished

LEMMA FreshTagRow == FreshTag \in Tag /\ FreshTag # None
<1>1. FreshTag \in Tag
  BY DEF FreshTag, Tag
<1> QED  BY <1>1, TagAssumption

LEMMA FreshTagOk ==
    ASSUME NEW rows, \A r \in Present(rows) : rows[r].state = "draft"
    PROVE  TagOk(FreshTag, rows)
<1>1. /\ ~FreshTag.submitted /\ FreshTag.state \notin Terminal
      /\ FreshTag.receipt = 0 /\ FreshTag.final = 0 /\ FreshTag.accepted = 0 /\ FreshTag.rejected = 0
  BY DEF FreshTag, Terminal
<1> QED  BY <1>1, FreshTagRow, DraftTag

(* What an unsubmitted tag looks like. *)
LEMMA Unsubmitted ==
    ASSUME NEW row \in Tag, NEW rows, TagOk(row, rows), ~row.submitted
    PROVE  /\ \A r \in Present(rows) : rows[r].state = "draft"
           /\ row.receipt = 0 /\ row.final = 0 /\ row.accepted = 0 /\ row.rejected = 0
<1>1. row # None
  BY TagAssumption
<1>2. \A r \in Present(rows) : rows[r].state = "draft"
  BY <1>1 DEF TagOk, StatesFit
<1>3. \A s \in ActiveMember \cup Decisions : Cardinality(InState(rows, s)) = 0
  BY <1>2, InStateFinite DEF ActiveMember, Decisions
<1> QED  BY <1>1, <1>2, <1>3 DEF TagOk, Counted, ActiveMember, Decisions

SubmittedTag(row, sent, n) ==
    [row EXCEPT !.state = "submitted", !.submitted = TRUE, !.history = TRUE, !.sent = sent, !.count = n, !.receipt = n]

LEMMA SubmittedTagOk ==
    ASSUME NEW row \in Tag, NEW rows, TagOk(row, rows), ~row.submitted, NEW sent \in BOOLEAN,
           NEW rows2, Present(rows2) = Present(rows),
           \A r \in Present(rows) : rows2[r].state = "submitted_awaiting_receipt"
    PROVE  LET new == SubmittedTag(row, sent, Cardinality(Present(rows)))
           IN  new \in Tag /\ TagOk(new, rows2)
<1> DEFINE n == Cardinality(Present(rows))
           new == SubmittedTag(row, sent, n)
<1>1. n \in Nat
  BY InStateFinite
<1>2. /\ new \in Tag /\ new.state = "submitted" /\ new.submitted /\ new.count = n /\ new.receipt = n
      /\ new.final = row.final /\ new.accepted = row.accepted /\ new.rejected = row.rejected
  BY <1>1 DEF SubmittedTag, Tag
<1>3. row.final = 0 /\ row.accepted = 0 /\ row.rejected = 0
  BY Unsubmitted
<1>4. InState(rows2, "submitted_awaiting_receipt") = Present(rows)
  BY DEF InState, Present
<1>5. /\ Cardinality(InState(rows2, "warehouse_received")) = 0
      /\ Cardinality(InState(rows2, "accepted")) = 0 /\ Cardinality(InState(rows2, "rejected")) = 0
  BY InStateFinite
<1> HIDE DEF new
<1>6. StatesFit(new, rows2)
  BY <1>2 DEF StatesFit
<1>7. Counted(new, rows2)
  BY <1>2, <1>3, <1>4, <1>5 DEF Counted
<1>8. new # None
  BY <1>2, TagAssumption
<1> QED  BY <1>2, <1>6, <1>7, <1>8 DEF TagOk, Finished, Terminal, new

LEMMA RebuiltTag ==
    ASSUME NEW row \in Tag, NEW rows, row.submitted, row.count = Cardinality(Present(rows)),
           \A r \in Present(rows) : rows[r].state \in ActiveMember \cup Decisions
    PROVE  LET new == _rebuild_tag_projection(row, rows)
           IN  new \in Tag /\ TagOk(new, rows)
<1> DEFINE n(s) == Cardinality(InState(rows, s))
           new == _rebuild_tag_projection(row, rows)
           state == IF row.count > 0 /\ n("accepted") + n("rejected") + n("superseded") >= row.count
                    THEN IF n("rejected") > 0 THEN "terminal_with_rejected" ELSE "terminal_completed"
                    ELSE IF n("warehouse_received") > 0 THEN "in_warehouse_review" ELSE "submitted"
<1>1. \A s : n(s) \in Nat
  BY InStateFinite
<1>2. n("superseded") = 0
  BY InStateFinite DEF ActiveMember, Decisions
<1>3. new = [row EXCEPT !.receipt = n("submitted_awaiting_receipt"), !.final = n("warehouse_received"),
                        !.accepted = n("accepted"), !.rejected = n("rejected"), !.state = state]
  BY DEF _rebuild_tag_projection
<1>4. state \in {"terminal_with_rejected", "terminal_completed", "in_warehouse_review", "submitted"}
  OBVIOUS
<1>5. state \in Terminal => n("accepted") + n("rejected") >= Cardinality(Present(rows))
  BY <1>1, <1>2 DEF Terminal
<1> HIDE DEF state, n
<1>6. /\ new \in Tag /\ new.submitted /\ new.state = state /\ new.count = row.count
      /\ new.receipt = n("submitted_awaiting_receipt") /\ new.final = n("warehouse_received")
      /\ new.accepted = n("accepted") /\ new.rejected = n("rejected")
  <2>0. /\ n("submitted_awaiting_receipt") \in Nat /\ n("warehouse_received") \in Nat
        /\ n("accepted") \in Nat /\ n("rejected") \in Nat
    BY <1>1
  <2> QED  BY <1>3, <1>4, <2>0 DEF Tag
<1> HIDE DEF new
<1>7. StatesFit(new, rows)
  BY <1>4, <1>6 DEF StatesFit, ActiveMember, Decisions
<1>8. Counted(new, rows)
  BY <1>6 DEF Counted, n
<1>9. Finished(new, rows)
  <2> SUFFICES ASSUME state \in Terminal
               PROVE  /\ \A r \in Present(rows) : rows[r].state \in Decisions
                      /\ n("accepted") + n("rejected") = row.count
    BY <1>6 DEF Finished
  <2> DEFINE A == InState(rows, "accepted")
             R == InState(rows, "rejected")
  <2>1. IsFiniteSet(A) /\ IsFiniteSet(R) /\ IsFiniteSet(Present(rows)) /\ A \cup R \in SUBSET Present(rows)
    BY InStateFinite
  <2>2. A \cap R = {}
    BY DEF InState
  <2>3. Cardinality(A \cup R) = n("accepted") + n("rejected")
    <3>1. Cardinality(A \cup R) = Cardinality(A) + Cardinality(R) - Cardinality(A \cap R)
      BY <2>1, FS_Union
    <3>2. Cardinality(A \cap R) = 0
      BY <2>2, FS_EmptySet
    <3> QED  BY <1>1, <3>1, <3>2 DEF n
  <2>4. Cardinality(A \cup R) <= Cardinality(Present(rows))
        /\ (Cardinality(Present(rows)) = Cardinality(A \cup R) => Present(rows) = A \cup R)
    BY <2>1, FS_Subset
  <2>5. Cardinality(Present(rows)) \in Nat
    BY InStateFinite
  <2>6. Cardinality(Present(rows)) = n("accepted") + n("rejected")
    <3>1. n("accepted") \in Nat /\ n("rejected") \in Nat
      BY <1>1
    <3> QED  BY <1>5, <2>3, <2>4, <2>5, <3>1
  <2>7. Present(rows) = A \cup R
    BY <2>3, <2>4, <2>6
  <2> QED  BY <2>6, <2>7 DEF InState, Decisions
<1> QED  BY <1>6, <1>7, <1>8, <1>9, TagAssumption DEF TagOk, new

SupersededTag(row) == [row EXCEPT !.state = "superseded", !.receipt = 0, !.final = 0, !.touched = TRUE]

LEMMA SupersededTagOk ==
    ASSUME NEW row \in Tag, NEW rows, TagOk(row, rows), NEW rows2, Present(rows2) = Present(rows),
           \A r \in Present(rows) : rows2[r].state = IF rows[r].state \in ActiveMember THEN "superseded" ELSE rows[r].state
    PROVE  SupersededTag(row) \in Tag /\ TagOk(SupersededTag(row), rows2)
<1> DEFINE new == SupersededTag(row)
<1>1. /\ new \in Tag /\ new.state = "superseded" /\ new.submitted = row.submitted /\ new.count = row.count
      /\ new.receipt = 0 /\ new.final = 0 /\ new.accepted = row.accepted /\ new.rejected = row.rejected
  BY DEF SupersededTag, Tag
<1>2. row # None /\ new # None
  BY <1>1, TagAssumption
<1>3. /\ InState(rows2, "accepted") = InState(rows, "accepted")
      /\ InState(rows2, "rejected") = InState(rows, "rejected")
  BY DEF InState, Present, ActiveMember
<1>4. /\ Cardinality(InState(rows2, "submitted_awaiting_receipt")) = 0
      /\ Cardinality(InState(rows2, "warehouse_received")) = 0
  BY InStateFinite DEF ActiveMember
<1> HIDE DEF new
<1>5. StatesFit(new, rows2)
  BY <1>1, <1>2 DEF TagOk, StatesFit, ActiveMember
<1>6. Counted(new, rows2)
  BY <1>1, <1>2, <1>3, <1>4 DEF TagOk, Counted
<1> QED  BY <1>1, <1>2, <1>5, <1>6 DEF TagOk, Finished, Terminal, new

LEMMA FalseTagOk ==
    ASSUME NEW row \in Tag, NEW rows, \A r \in Present(rows) : rows[r].state = "draft"
    PROVE  LET new == [row EXCEPT !.state = "draft", !.submitted = FALSE, !.count = 0,
                                  !.receipt = 0, !.final = 0, !.accepted = 0, !.rejected = 0]
           IN  new \in Tag /\ TagOk(new, rows)
<1> DEFINE new == [row EXCEPT !.state = "draft", !.submitted = FALSE, !.count = 0,
                              !.receipt = 0, !.final = 0, !.accepted = 0, !.rejected = 0]
<1>1. /\ new \in Tag /\ new.state = "draft" /\ ~new.submitted
      /\ new.receipt = 0 /\ new.final = 0 /\ new.accepted = 0 /\ new.rejected = 0
  BY DEF Tag
<1> HIDE DEF new
<1>2. TagOk(new, rows)
  BY <1>1, DraftTag DEF Terminal
<1> QED  BY <1>1, <1>2 DEF new

LEMMA ArchivedTagOk ==
    ASSUME NEW row \in Tag, NEW rows, TagOk(row, rows)
    PROVE  LET new == [row EXCEPT !.archived = ~@, !.touched = TRUE]
           IN  new \in Tag /\ TagOk(new, rows)
<1> DEFINE new == [row EXCEPT !.archived = ~@, !.touched = TRUE]
<1>1. /\ new \in Tag /\ new.state = row.state /\ new.submitted = row.submitted /\ new.count = row.count
      /\ new.receipt = row.receipt /\ new.final = row.final
      /\ new.accepted = row.accepted /\ new.rejected = row.rejected
  BY DEF Tag
<1>2. row # None /\ new # None
  BY <1>1, TagAssumption
<1> HIDE DEF new
<1>3. TagOk(new, rows)
  BY <1>1, <1>2 DEF TagOk, StatesFit, Counted, Finished
<1> QED  BY <1>1, <1>3 DEF new

-----------------------------------------------------------------------------
(* Rows of members and RMAs that the commands about tags write. *)

MemberState == {"draft", "superseded"} \cup ActiveMember \cup Decisions

LEMMA MemberEdits ==
    ASSUME NEW old \in Membership, NEW s \in MemberState
    PROVE  /\ LET new == [old EXCEPT !.state = s]
              IN  new \in Membership /\ new # None /\ new.state = s /\ new.by = old.by /\ new.unit = old.unit
           /\ LET new == [old EXCEPT !.state = s, !.history = TRUE]
              IN  new \in Membership /\ new # None /\ new.state = s /\ new.by = old.by /\ new.unit = old.unit
BY TagAssumption DEF Membership, MemberState

LEMMA MovedMembers ==
    ASSUME WarehouseMoves
    PROVE  \E T \in SUBSET (Tags \X Rmas), s \in MemberState :
              Warehouse(T, s) /\ \A x \in T : member[x[1]][x[2]] # None
BY DEF WarehouseMoves, _require_warehouse_targets, _validate_warehouse_target_authority,
       MemberState, ActiveMember, Decisions

SamePart(old, new) == new.request = old.request /\ new.target = old.target /\ new.inbound = old.inbound
SameObligation(old, new) == new.obligation = old.obligation /\ new.by = old.by /\ new.returned = old.returned

(* What a command on tags leaves of the RMAs: everything but where the return is. *)
RmasKept ==
    /\ Authorized' = Authorized
    /\ \A r \in Authorized :
          /\ SamePart(rma[r], rma'[r]) /\ rma'[r].by = rma[r].by /\ rma'[r].returned = rma[r].returned
          /\ rma'[r].obligation = "not_established" <=> rma[r].obligation = "not_established"


LEMMA RmaEdits ==
    ASSUME NEW old \in RmaRow
    PROVE  /\ \A g \in Opt(Tags) : LET new == _update_rma_fault_tag_projection(old, g)
                                   IN  /\ new \in RmaRow /\ new # None /\ new.member = g
                                       /\ SamePart(old, new) /\ SameObligation(old, new)
           /\ \A d \in Decisions : LET new == FinalRma(old, d)
                                   IN  /\ new \in RmaRow /\ new # None /\ new.member = None /\ SamePart(old, new)
                                       /\ new.by = old.by /\ new.returned = old.returned
                                       /\ new.obligation = IF d = "accepted" THEN "closed_accepted" ELSE old.obligation
           /\ \A s \in ActiveMember : LET new == _rebuild_rma_warehouse_state(old, s)
                                      IN  /\ new \in RmaRow /\ new # None /\ new.member = old.member
                                          /\ SamePart(old, new) /\ SameObligation(old, new)
<1>1. ASSUME NEW g \in Opt(Tags)
      PROVE  LET new == _update_rma_fault_tag_projection(old, g)
             IN  /\ new \in RmaRow /\ new # None /\ new.member = g
                 /\ SamePart(old, new) /\ SameObligation(old, new)
  <2> DEFINE s == IF g # None THEN "fault_tagged" ELSE IF old.obligation = "open" THEN "return_open" ELSE old.state
             new == [old EXCEPT !.member = g, !.state = s]
  <2>1. _update_rma_fault_tag_projection(old, g) = new
    BY DEF _update_rma_fault_tag_projection, RmaRow
  <2>2. s \in {"promised", "received", "return_open", "fault_tagged", "warehouse_received",
               "return_rejected", "closed_accepted"}
    BY DEF RmaRow
  <2> HIDE DEF s
  <2>3. new \in RmaRow /\ new.member = g /\ SamePart(old, new) /\ SameObligation(old, new)
    BY <2>2 DEF RmaRow, SamePart, SameObligation
  <2> QED  BY <2>1, <2>3, TagAssumption
<1>2. ASSUME NEW d \in Decisions
      PROVE  LET new == FinalRma(old, d)
             IN  /\ new \in RmaRow /\ new # None /\ new.member = None /\ SamePart(old, new)
                 /\ new.by = old.by /\ new.returned = old.returned
                 /\ new.obligation = IF d = "accepted" THEN "closed_accepted" ELSE old.obligation
  <2>1. CASE d = "accepted"
    <3> DEFINE new == [old EXCEPT !.state = "closed_accepted", !.obligation = "closed_accepted", !.member = None]
    <3>1. FinalRma(old, d) = new
      BY <2>1 DEF FinalRma
    <3>2. /\ new \in RmaRow /\ new.member = None /\ SamePart(old, new) /\ new.by = old.by
          /\ new.returned = old.returned /\ new.obligation = "closed_accepted"
      BY DEF RmaRow, SamePart, Opt
    <3> QED  BY <2>1, <3>1, <3>2, TagAssumption
  <2>2. CASE d # "accepted"
    <3> DEFINE new == [old EXCEPT !.state = "return_rejected", !.member = None]
    <3>1. FinalRma(old, d) = new
      BY <2>2 DEF FinalRma
    <3>2. /\ new \in RmaRow /\ new.member = None /\ SamePart(old, new) /\ new.by = old.by
          /\ new.returned = old.returned /\ new.obligation = old.obligation
      BY DEF RmaRow, SamePart, Opt
    <3> QED  BY <2>2, <3>1, <3>2, TagAssumption
  <2> QED  BY <2>1, <2>2
<1>3. ASSUME NEW s \in ActiveMember
      PROVE  LET new == _rebuild_rma_warehouse_state(old, s)
             IN  /\ new \in RmaRow /\ new # None /\ new.member = old.member
                 /\ SamePart(old, new) /\ SameObligation(old, new)
  BY <1>3, TagAssumption DEF _rebuild_rma_warehouse_state, RmaRow, SamePart, SameObligation
<1> QED  BY <1>1, <1>2, <1>3

LEMMA TaggedRow ==
    ASSUME TagInv, NEW g \in Tagged
    PROVE  g \in Tags /\ tag[g] \in Tag /\ tag[g] # None /\ TagOk(tag[g], member[g]) /\ member[g] \in Rows
BY DEF TagInv, TagType, Tagged, Opt

LEMMA MemberRow ==
    ASSUME TagInv, NEW g \in Tags, NEW r \in Rmas, member[g][r] # None
    PROVE  member[g][r] \in Membership /\ g \in Tagged /\ r \in Authorized /\ r \in MembersOf(g)
<1>1. member[g][r] \in Membership
  BY DEF TagInv, TagType, Rows, Opt
<1>2. Present(member[g]) # {}
  BY DEF Present
<1>3. tag[g] # None
  BY <1>2 DEF TagInv, TagOk
<1> QED  BY <1>1, <1>3 DEF Tagged, TagInv, MembersAuthorized, MembersOf

LEMMA MembersPresent ==
    ASSUME NEW g
    PROVE  MembersOf(g) = Present(member[g])
BY DEF MembersOf, Present

(* A step that is not about tags. *)
LEMMA TagsStay ==
    ASSUME TagInv, ReturnsMove, UNCHANGED <<tag, member>>
    PROVE  TagInv'
<1>1. TagType' /\ RmaType' /\ \A g \in Tags : TagOk(tag'[g], member'[g])
  BY DEF TagInv, TagType, ReturnsMove
<1>2. MembersAuthorized'
  BY DEF TagInv, MembersAuthorized, ReturnsMove
<1>3. ASSUME NEW g \in Tags, NEW r \in Rmas PROVE LinkedMember(g, r)'
  <2> SUFFICES ASSUME Active(g, r) PROVE LinkedMember(g, r)'
    BY DEF LinkedMember, Active
  <2>1. r \in Authorized /\ LinkedMember(g, r)
    BY DEF TagInv, MembersAuthorized, Active, Linked
  <2>2. SameReturn(rma[r], rma'[r])
    BY <2>1 DEF ReturnsMove, LinkedMember
  <2> QED  BY <2>1, <2>2 DEF LinkedMember, SameReturn, Active
<1>4. ASSUME NEW r \in Authorized' PROVE LinkedRma(r)'
  BY DEF TagInv, Linked, LinkedRma, Active, ReturnsMove, SameReturn
<1>5. AcceptedOnce'
  <2>1. ASSUME NEW r \in Authorized'
        PROVE  rma'[r].obligation = "closed_accepted" <=> \E g \in Tags : Accepted(g, r)'
    <3>1. CASE r \in Authorized
      BY <3>1 DEF TagInv, AcceptedOnce, Accepted, ReturnsMove, SameReturn
    <3>2. CASE r \notin Authorized
      <4>1. \A g \in Tags : member[g][r] = None
        BY <3>2 DEF TagInv, MembersAuthorized, Authorized
      <4> QED  BY <3>2, <4>1 DEF Accepted, ReturnsMove
    <3> QED  BY <3>1, <3>2
  <2> QED  BY <2>1 DEF TagInv, AcceptedOnce, Accepted
<1> QED  BY <1>1, <1>2, <1>3, <1>4, <1>5 DEF TagInv, Linked

(* A step that changes no membership that counts. *)
LEMMA PairsKept ==
    ASSUME TagInv, UNCHANGED rma,
           \A g \in Tags, r \in Rmas :
              /\ Active(g, r)' <=> Active(g, r)
              /\ Accepted(g, r)' <=> Accepted(g, r)
              /\ Active(g, r) => member'[g][r].by = member[g][r].by /\ member'[g][r].unit = member[g][r].unit
    PROVE  Linked' /\ AcceptedOnce'
<1>1. Authorized' = Authorized
  BY DEF Authorized
<1>2. Linked'
  BY <1>1 DEF TagInv, Linked, LinkedMember, LinkedRma, Authorized
<1>3. AcceptedOnce'
  BY <1>1 DEF TagInv, AcceptedOnce, Authorized
<1> QED  BY <1>2, <1>3

LEMMA DraftsWritten ==
    ASSUME TagInv, NEW g \in Tags, tag[g] = None \/ ~tag[g].submitted,
           NEW row \in Opt(Tag), NEW rows \in Rows, UNCHANGED rma,
           tag' = [tag EXCEPT ![g] = row], member' = [member EXCEPT ![g] = rows],
           \A r \in Present(rows) : rows[r].state = "draft" /\ r \in Authorized,
           TagOk(row, rows)
    PROVE  TagInv'
<1>1. TagType' /\ RmaType'
  BY DEF TagInv, TagType, RmaType
<1>2. member'[g] = rows /\ tag'[g] = row /\ \A h \in Tags : h # g => member'[h] = member[h] /\ tag'[h] = tag[h]
  BY DEF TagInv, TagType
<1>3. \A h \in Tags : TagOk(tag'[h], member'[h])
  BY <1>2 DEF TagInv
<1>4. MembersAuthorized'
  BY <1>2 DEF TagInv, MembersAuthorized, Authorized, Present
<1>5. \A r \in Rmas : member[g][r] # None => member[g][r].state = "draft"
  <2>1. CASE tag[g] = None
    BY <2>1 DEF TagInv, TagOk, Present
  <2>2. CASE tag[g] # None
    BY <2>2 DEF TagInv, TagOk, StatesFit, Present
  <2> QED  BY <2>1, <2>2
<1>6. \A r \in Rmas : ~Active(g, r) /\ ~Accepted(g, r) /\ ~Active(g, r)' /\ ~Accepted(g, r)'
  BY <1>2, <1>5 DEF Active, Accepted, ActiveMember, Present
<1>7. Linked' /\ AcceptedOnce'
  <2>1. \A h \in Tags, r \in Rmas :
              /\ Active(h, r)' <=> Active(h, r)
              /\ Accepted(h, r)' <=> Accepted(h, r)
              /\ Active(h, r) => member'[h][r].by = member[h][r].by /\ member'[h][r].unit = member[h][r].unit
    BY <1>2, <1>6 DEF Active, Accepted
  <2> QED  BY <2>1, PairsKept
<1> QED  BY <1>1, <1>3, <1>4, <1>7 DEF TagInv

-----------------------------------------------------------------------------
(* The commands about tags. *)

LEMMA InsertedRow ==
    ASSUME RmaType, NEW r \in Authorized
    PROVE  LET new == _insert_membership(r)
           IN  /\ new \in Membership /\ new # None /\ new.state = "draft"
               /\ new.by = rma[r].by /\ new.unit = rma[r].returned
<1>1. rma[r].by \in Opt(Tasks) /\ rma[r].returned \in Opt(Units \cup Devices)
  BY AuthorizedRow DEF RmaRow
<1>2. _insert_membership(r) \in Membership
  BY <1>1 DEF _insert_membership, Membership
<1> QED  BY <1>2, TagAssumption DEF _insert_membership

InsertedRows(S) == [r \in Rmas |-> IF r \in S THEN _insert_membership(r) ELSE None]

LEMMA Inserted ==
    ASSUME RmaType, NEW S \in SUBSET Authorized
    PROVE  /\ InsertedRows(S) \in Rows /\ Present(InsertedRows(S)) = S
           /\ \A r \in S : InsertedRows(S)[r] = _insert_membership(r) /\ InsertedRows(S)[r].state = "draft"
<1>1. S \subseteq Rmas
  BY DEF Authorized
<1> QED  BY <1>1, InsertedRow DEF InsertedRows, Rows, Opt, Present

LEMMA FreshKeeps ==
    ASSUME TagInv, NEW g \in Tags, g \notin Tagged, NEW S \in SUBSET Authorized, UNCHANGED rma,
           tag' = [tag EXCEPT ![g] = FreshTag], member' = [member EXCEPT ![g] = InsertedRows(S)]
    PROVE  TagInv'
<1>1. tag[g] = None
  BY DEF Tagged
<1>2. InsertedRows(S) \in Rows /\ \A r \in Present(InsertedRows(S)) : InsertedRows(S)[r].state = "draft" /\ r \in Authorized
  BY Inserted DEF TagInv
<1>3. TagOk(FreshTag, InsertedRows(S)) /\ FreshTag \in Opt(Tag)
  BY <1>2, FreshTagOk, FreshTagRow DEF Opt
<1> QED  BY <1>1, <1>2, <1>3, DraftsWritten

LEMMA UpdateKeeps ==
    ASSUME TagInv, NEW g \in Tags, NEW S \in SUBSET Authorized, update_fault_tag_draft(g, S)
    PROVE  TagInv'
<1> DEFINE rows == [r \in Rmas |-> IF r \notin S THEN None
                      ELSE [_insert_membership(r) EXCEPT !.history = member[g][r] # None /\ member[g][r].history]]
<1>1. g \in Tagged /\ ~tag[g].submitted /\ UNCHANGED <<tag, rma>> /\ member' = [member EXCEPT ![g] = rows]
  BY DEF update_fault_tag_draft, replace_draft, stockVars
<1>2. ASSUME NEW r \in S
      PROVE  rows[r] \in Membership /\ rows[r].state = "draft" /\ r \in Rmas
  <2>1. _insert_membership(r) \in Membership /\ _insert_membership(r).state = "draft" /\ r \in Rmas
    BY InsertedRow DEF TagInv, Authorized
  <2>2. (member[g][r] # None /\ member[g][r].history) \in BOOLEAN
    <3>1. CASE member[g][r] # None
      <4>1. member[g][r] \in Membership
        BY <2>1, <3>1, MemberRow
      <4> QED  BY <4>1 DEF Membership
    <3> QED  BY <3>1
  <2> QED  BY <2>1, <2>2 DEF Membership
<1>3. rows \in Rows /\ Present(rows) \subseteq S
  BY <1>2 DEF Rows, Opt, Present
<1>4. \A r \in Present(rows) : rows[r].state = "draft" /\ r \in Authorized
  BY <1>2, <1>3
<1> HIDE DEF rows
<1>5. tag[g] \in Tag /\ TagOk(tag[g], member[g])
  BY <1>1, TaggedRow
<1>6. tag[g].state \notin Terminal
  BY DEF update_fault_tag_draft, replace_draft, Terminal
<1>7. TagOk(tag[g], rows)
  BY <1>1, <1>4, <1>5, <1>6, Unsubmitted, DraftTag
<1>8. tag' = [tag EXCEPT ![g] = tag[g]]
  BY <1>1 DEF TagInv, TagType
<1> QED  BY <1>1, <1>3, <1>4, <1>5, <1>7, <1>8, DraftsWritten DEF Opt

LEMMA DeleteTagKeeps ==
    ASSUME TagInv, NEW g \in Tags, hard_delete_tag(g)
    PROVE  TagInv'
<1> DEFINE rows == [r \in Rmas |-> None]
<1>1. /\ ~tag[g].submitted /\ UNCHANGED rma
      /\ tag' = [tag EXCEPT ![g] = None] /\ member' = [member EXCEPT ![g] = rows]
  BY DEF hard_delete_tag, TagDeletable, stockVars
<1>2. rows \in Rows /\ Present(rows) = {}
  BY DEF Rows, Opt, Present
<1> HIDE DEF rows
<1>3. TagOk(None, rows)
  BY <1>2 DEF TagOk
<1> QED  BY <1>1, <1>2, <1>3, DraftsWritten DEF Opt

LEMMA ArchiveKeeps ==
    ASSUME TagInv, NEW g \in Tags, archive_or_restore(g)
    PROVE  TagInv'
<1> DEFINE row == [tag[g] EXCEPT !.archived = ~@, !.touched = TRUE]
<1>1. g \in Tagged /\ UNCHANGED <<rma, member>> /\ tag' = [tag EXCEPT ![g] = row]
  <2>1. tag[g] \in Tag
    BY TaggedRow DEF archive_or_restore
  <2> QED  BY <2>1 DEF archive_or_restore, Tag
<1>2. row \in Tag /\ TagOk(row, member[g])
  BY <1>1, TaggedRow, ArchivedTagOk
<1> HIDE DEF row
<1>3. TagType' /\ RmaType' /\ MembersAuthorized' /\ \A h \in Tags : TagOk(tag'[h], member'[h])
  BY <1>1, <1>2 DEF TagInv, TagType, RmaType, MembersAuthorized, Authorized, Opt
<1>4. Linked' /\ AcceptedOnce'
  BY <1>1, PairsKept DEF Active, Accepted
<1> QED  BY <1>3, <1>4 DEF TagInv

(* An eligible RMA is carried by no other tag. *)
LEMMA EligibleRma ==
    ASSUME TagInv, NEW g \in Tags, NEW r, require_membership_eligible(g, r)
    PROVE  /\ r \in Authorized /\ rma[r].obligation = "open"
           /\ \A h \in Tags : h # g => ~Active(h, r)
<1>1. ASSUME NEW h \in Tags, h # g, Active(h, r) PROVE FALSE
  <2>1. r \in Rmas
    BY DEF require_membership_eligible, Authorized
  <2>2. h \in Tagged /\ r \in MembersOf(h)
    BY <1>1, <2>1, MemberRow DEF Active
  <2>3. r \in ActiveIn(h)
    BY <1>1, <2>2 DEF ActiveIn, Active
  <2> QED  BY <1>1, <2>2, <2>3 DEF require_membership_eligible
<1> QED  BY <1>1 DEF require_membership_eligible

(* The RMAs of a tag are given to it, or taken from it. *)
LEMMA RmasRelinked ==
    ASSUME RmaType, NEW M \in SUBSET Authorized, NEW x \in Opt(Tags),
           rma' = [r \in Rmas |-> IF r \in M THEN _update_rma_fault_tag_projection(rma[r], x) ELSE rma[r]]
    PROVE  /\ RmaType' /\ Authorized' = Authorized
           /\ \A r \in M : rma'[r].member = x /\ SameObligation(rma[r], rma'[r]) /\ SamePart(rma[r], rma'[r])
<1>1. ASSUME NEW r \in M
      PROVE  /\ rma'[r] \in RmaRow /\ rma'[r] # None /\ rma[r] # None /\ rma'[r].member = x
             /\ SameObligation(rma[r], rma'[r]) /\ SamePart(rma[r], rma'[r])
  <2>1. r \in Rmas /\ rma[r] \in RmaRow /\ rma[r] # None
    BY AuthorizedRow
  <2>2. rma'[r] = _update_rma_fault_tag_projection(rma[r], x)
    BY <2>1
  <2> QED  BY <2>1, <2>2, RmaEdits
<1>2. \A r \in Rmas : rma'[r] \in Opt(RmaRow) /\ (rma'[r] = None <=> rma[r] = None)
  BY <1>1 DEF RmaType, Opt
<1>3. RmaType'
  BY <1>2 DEF RmaType
<1> QED  BY <1>1, <1>2, <1>3 DEF Authorized

LEMMA SubmissionKeeps ==
    ASSUME TagInv, NEW g \in Tags, NEW sent \in BOOLEAN, accept_fault_tag_submission(g, sent)
    PROVE  TagInv'
<1> DEFINE M == MembersOf(g)
           rows == [r \in Rmas |-> IF member[g][r] = None THEN None
                      ELSE [member[g][r] EXCEPT !.state = "submitted_awaiting_receipt", !.history = TRUE]]
           row == SubmittedTag(tag[g], sent, Cardinality(M))
<1>1. g \in Tagged /\ ~tag[g].submitted /\ tag[g] \in Tag /\ TagOk(tag[g], member[g]) /\ M = Present(member[g])
  BY TaggedRow, MembersPresent DEF accept_fault_tag_submission, CanSubmitTag
<1>2. /\ tag' = [tag EXCEPT ![g] = row] /\ member' = [member EXCEPT ![g] = rows]
      /\ rma' = [r \in Rmas |-> IF r \in M THEN _update_rma_fault_tag_projection(rma[r], g) ELSE rma[r]]
  BY DEF accept_fault_tag_submission, SubmittedTag
<1>3. ASSUME NEW r \in M
      PROVE  /\ r \in Authorized /\ rma[r].obligation = "open" /\ \A h \in Tags : h # g => ~Active(h, r)
             /\ rma[r].by = member[g][r].by /\ rma[r].returned = member[g][r].unit
  <2>1. require_membership_eligible(g, r) /\ obligation_authority(r) = [by |-> member[g][r].by, unit |-> member[g][r].unit]
    BY DEF accept_fault_tag_submission, CanSubmitTag
  <2> QED  BY <2>1, EligibleRma DEF obligation_authority
<1>4. ASSUME NEW r \in Rmas, member[g][r] # None
      PROVE  /\ rows[r] \in Membership /\ rows[r] # None /\ rows[r].state = "submitted_awaiting_receipt"
             /\ rows[r].by = member[g][r].by /\ rows[r].unit = member[g][r].unit
  <2>1. member[g][r] \in Membership /\ "submitted_awaiting_receipt" \in MemberState
    BY <1>4, MemberRow DEF MemberState, ActiveMember
  <2> QED  BY <1>4, <2>1, MemberEdits
<1>5. rows \in Rows /\ Present(rows) = Present(member[g])
  BY <1>4 DEF Rows, Opt, Present
<1>6. row \in Tag /\ TagOk(row, rows)
  <2>1. \A r \in Present(member[g]) : rows[r].state = "submitted_awaiting_receipt"
    BY <1>4 DEF Present
  <2> HIDE DEF rows
  <2> QED  BY <1>1, <1>5, <2>1, SubmittedTagOk
<1>7. \A r \in M : rma'[r].member = g /\ SameObligation(rma[r], rma'[r])
  BY <1>2, <1>3, RmasRelinked DEF TagInv, Opt
<1> HIDE DEF row, rows
<1>8. \A r \in Rmas : r \notin M => rma'[r] = rma[r]
  BY <1>2
<1>9. RmaType' /\ Authorized' = Authorized
  BY <1>2, <1>3, RmasRelinked DEF TagInv, Opt
<1>10. member'[g] = rows /\ tag'[g] = row /\ \A h \in Tags : h # g => member'[h] = member[h] /\ tag'[h] = tag[h]
  BY <1>2 DEF TagInv, TagType
<1>11. TagType' /\ \A h \in Tags : TagOk(tag'[h], member'[h])
  BY <1>2, <1>5, <1>6, <1>10 DEF TagInv, TagType, Opt
<1>12. MembersAuthorized'
  BY <1>3, <1>5, <1>9, <1>10, <1>1 DEF TagInv, MembersAuthorized, Present
<1>13. ASSUME NEW h \in Tags, NEW r \in Rmas PROVE LinkedMember(h, r)'
  <2>1. CASE h = g
    <3> SUFFICES ASSUME rows[r] # None PROVE LinkedMember(g, r)'
      BY <1>10, <2>1 DEF LinkedMember, Active
    <3>1. r \in M /\ member[g][r] # None
      BY <1>1, <1>5 DEF Present
    <3> QED  BY <1>3, <1>4, <1>7, <1>10, <3>1 DEF LinkedMember, SameObligation
  <2>2. CASE h # g
    <3> SUFFICES ASSUME Active(h, r) PROVE LinkedMember(h, r)'
      BY <1>10, <2>2 DEF LinkedMember, Active
    <3>1. r \notin M
      BY <1>3, <2>2
    <3> QED  BY <1>8, <1>10, <2>2, <3>1 DEF TagInv, Linked, LinkedMember, Active
  <2> QED  BY <2>1, <2>2
<1>14. ASSUME NEW r \in Authorized PROVE LinkedRma(r)'
  <2>0. r \in Rmas
    BY DEF Authorized
  <2>1. CASE r \in M
    <3>1. member[g][r] # None
      BY <2>1 DEF MembersOf
    <3> QED  BY <1>4, <1>7, <1>10, <2>0, <2>1, <3>1 DEF LinkedRma, Active, ActiveMember
  <2>2. CASE r \notin M
    <3>1. rma'[r] = rma[r] /\ LinkedRma(r)
      BY <1>8, <2>0, <2>2 DEF TagInv, Linked
    <3>2. ~Active(g, r)
      BY <2>0, <2>2 DEF Active, MembersOf
    <3> QED  BY <1>10, <3>1, <3>2 DEF LinkedRma, Active
  <2> QED  BY <2>1, <2>2
<1>15. ASSUME NEW h \in Tags, NEW r \in Rmas PROVE Accepted(h, r)' <=> Accepted(h, r)
  <2>1. CASE h = g
    <3>1. ~Accepted(g, r)'
      BY <1>4, <1>5, <1>10 DEF Accepted, Present
    <3>2. ~Accepted(g, r)
      BY <1>1, Unsubmitted DEF Accepted, Present
    <3> QED  BY <2>1, <3>1, <3>2
  <2>2. CASE h # g
    BY <1>10, <2>2 DEF Accepted
  <2> QED  BY <2>1, <2>2
<1>16. \A r \in Authorized : rma'[r].obligation = rma[r].obligation
  BY <1>7, <1>8 DEF SameObligation, Authorized
<1>17. AcceptedOnce'
  <2>1. \A r \in Authorized : r \in Rmas
    BY DEF Authorized
  <2> QED  BY <1>9, <1>15, <1>16, <2>1 DEF TagInv, AcceptedOnce
<1> QED  BY <1>9, <1>11, <1>12, <1>13, <1>14, <1>17 DEF TagInv, Linked

LEMMA FalseSubmissionKeeps ==
    ASSUME TagInv, NEW g \in Tags, correct_false_fault_tag_submission(g)
    PROVE  TagInv'
<1> DEFINE M == MembersOf(g)
           rows == [r \in Rmas |-> IF member[g][r] = None THEN None ELSE [member[g][r] EXCEPT !.state = "draft"]]
           row == [tag[g] EXCEPT !.state = "draft", !.submitted = FALSE, !.count = 0,
                                 !.receipt = 0, !.final = 0, !.accepted = 0, !.rejected = 0]
<1>1. g \in Tagged /\ tag[g] \in Tag /\ M = Present(member[g])
  BY TaggedRow, MembersPresent DEF correct_false_fault_tag_submission
<1>2. /\ tag' = [tag EXCEPT ![g] = row] /\ member' = [member EXCEPT ![g] = rows]
      /\ rma' = [r \in Rmas |-> IF r \in M THEN _update_rma_fault_tag_projection(rma[r], None) ELSE rma[r]]
  BY DEF correct_false_fault_tag_submission
<1>3. ASSUME NEW r \in M
      PROVE  r \in Rmas /\ member[g][r] # None /\ r \in Authorized /\ Active(g, r) /\ rma[r].member = g
  <2>1. r \in Rmas /\ member[g][r] # None
    BY DEF MembersOf
  <2>2. Active(g, r)
    BY <2>1 DEF correct_false_fault_tag_submission, correct_false_submission_tag, Active, ActiveMember
  <2> QED  BY <2>1, <2>2 DEF TagInv, MembersAuthorized, Linked, LinkedMember
<1>4. ASSUME NEW r \in Rmas, member[g][r] # None
      PROVE  rows[r] \in Membership /\ rows[r] # None /\ rows[r].state = "draft"
  <2>1. member[g][r] \in Membership /\ "draft" \in MemberState
    BY <1>4, MemberRow DEF MemberState
  <2> QED  BY <1>4, <2>1, MemberEdits
<1>5. rows \in Rows /\ Present(rows) = Present(member[g]) /\ \A r \in Present(rows) : rows[r].state = "draft"
  BY <1>4 DEF Rows, Opt, Present
<1>6. row \in Tag /\ TagOk(row, rows)
  <2> HIDE DEF rows
  <2> QED  BY <1>1, <1>5, FalseTagOk
<1>7. /\ RmaType' /\ Authorized' = Authorized
      /\ \A r \in M : rma'[r].member = None /\ SameObligation(rma[r], rma'[r])
  BY <1>2, <1>3, RmasRelinked DEF TagInv, Opt
<1> HIDE DEF row, rows
<1>8. \A r \in Rmas : r \notin M => rma'[r] = rma[r]
  BY <1>2
<1>9. member'[g] = rows /\ tag'[g] = row /\ \A h \in Tags : h # g => member'[h] = member[h] /\ tag'[h] = tag[h]
  BY <1>2 DEF TagInv, TagType
<1>10. TagType' /\ \A h \in Tags : TagOk(tag'[h], member'[h])
  BY <1>2, <1>5, <1>6, <1>9 DEF TagInv, TagType, Opt
<1>11. MembersAuthorized'
  BY <1>1, <1>3, <1>5, <1>7, <1>9 DEF TagInv, MembersAuthorized, Present
<1>12. \A r \in Rmas : ~Active(g, r)' /\ ~Accepted(g, r)' /\ ~Accepted(g, r)
  <2>1. ASSUME NEW r \in Rmas PROVE ~Active(g, r)' /\ ~Accepted(g, r)'
    BY <1>5, <1>9 DEF Active, Accepted, Present, ActiveMember
  <2>2. ASSUME NEW r \in Rmas, Accepted(g, r) PROVE FALSE
    <3>1. Active(g, r)
      BY <1>3, <2>2 DEF Accepted, MembersOf
    <3> QED  BY <2>2, <3>1 DEF Accepted, Active, ActiveMember
  <2> QED  BY <2>1, <2>2
<1>13. \A h \in Tags, r \in Rmas : h # g => (Active(h, r)' <=> Active(h, r)) /\ (Accepted(h, r)' <=> Accepted(h, r))
  BY <1>9 DEF Active, Accepted
<1>14. ASSUME NEW h \in Tags, NEW r \in Rmas, Active(h, r)' PROVE LinkedMember(h, r)'
  <2>1. h # g /\ Active(h, r) /\ LinkedMember(h, r)
    BY <1>12, <1>13, <1>14 DEF TagInv, Linked
  <2>2. r \notin M
    BY <1>3, <2>1 DEF LinkedMember
  <2> QED  BY <1>8, <1>9, <2>1, <2>2 DEF LinkedMember
<1>15. ASSUME NEW r \in Authorized PROVE LinkedRma(r)'
  <2>1. CASE r \in M
    BY <1>7, <2>1 DEF LinkedRma
  <2>2. CASE r \notin M
    <3>1. r \in Rmas /\ rma'[r] = rma[r] /\ LinkedRma(r) /\ ~Active(g, r)
      BY <1>8, <2>2 DEF TagInv, Linked, Authorized, Active, MembersOf
    <3> QED  BY <1>13, <3>1 DEF LinkedRma
  <2> QED  BY <2>1, <2>2
<1>16. AcceptedOnce'
  <2>1. \A r \in Authorized : r \in Rmas /\ rma'[r].obligation = rma[r].obligation
    BY <1>7, <1>8 DEF SameObligation, Authorized
  <2>2. \A h \in Tags, r \in Rmas : Accepted(h, r)' <=> Accepted(h, r)
    BY <1>12, <1>13
  <2> QED  BY <1>7, <2>1, <2>2 DEF TagInv, AcceptedOnce
<1>17. Linked'
  BY <1>7, <1>14, <1>15 DEF Linked, LinkedMember
<1> QED  BY <1>7, <1>10, <1>11, <1>16, <1>17 DEF TagInv

LEMMA ReplacementKeeps ==
    ASSUME TagInv, NEW g \in Tags, NEW h \in Tags, NEW S \in SUBSET Authorized, replacement(g, h, S)
    PROVE  TagInv'
<1> DEFINE M == ActiveIn(g)
           rows == [r \in Rmas |-> IF r \in M THEN [member[g][r] EXCEPT !.state = "superseded"] ELSE member[g][r]]
           row == SupersededTag(tag[g])
<1>1. /\ g \in Tagged /\ tag[g] \in Tag /\ TagOk(tag[g], member[g]) /\ member[g] \in Rows
      /\ g # h /\ h \notin Tagged /\ tag[h] = None
  BY TaggedRow DEF replacement, Tagged
<1>2. /\ tag' = [tag EXCEPT ![g] = row, ![h] = FreshTag]
      /\ member' = [member EXCEPT ![g] = rows, ![h] = InsertedRows(S)]
      /\ rma' = [r \in Rmas |-> IF r \in M THEN _update_rma_fault_tag_projection(rma[r], None) ELSE rma[r]]
  BY DEF replacement, SupersededTag, InsertedRows
<1>3. ASSUME NEW r \in M
      PROVE  r \in Rmas /\ member[g][r] # None /\ r \in Authorized /\ Active(g, r) /\ rma[r].member = g
  <2>1. r \in Rmas /\ member[g][r] # None /\ Active(g, r)
    BY DEF ActiveIn, MembersOf, Active
  <2> QED  BY <2>1 DEF TagInv, MembersAuthorized, Linked, LinkedMember
<1>4. ASSUME NEW r \in M
      PROVE  rows[r] \in Membership /\ rows[r] # None /\ rows[r].state = "superseded"
  <2>1. member[g][r] \in Membership /\ "superseded" \in MemberState /\ r \in Rmas
    BY <1>3, MemberRow DEF MemberState
  <2> QED  BY <2>1, MemberEdits
<1>5. \A r \in Rmas : r \in M <=> Active(g, r)
  BY DEF ActiveIn, MembersOf, Active
<1>6. rows \in Rows /\ Present(rows) = Present(member[g])
  BY <1>1, <1>3, <1>4 DEF Rows, Opt, Present
<1>7. \A r \in Present(member[g]) :
         rows[r].state = IF member[g][r].state \in ActiveMember THEN "superseded" ELSE member[g][r].state
  BY <1>4, <1>5 DEF Present, Active
<1>8. row \in Tag /\ TagOk(row, rows)
  <2> HIDE DEF rows
  <2> QED  BY <1>1, <1>6, <1>7, SupersededTagOk
<1>9. /\ RmaType' /\ Authorized' = Authorized
      /\ \A r \in M : rma'[r].member = None /\ SameObligation(rma[r], rma'[r])
  BY <1>2, <1>3, RmasRelinked DEF TagInv, Opt
<1>10. /\ InsertedRows(S) \in Rows /\ TagOk(FreshTag, InsertedRows(S)) /\ FreshTag \in Tag
       /\ \A r \in Present(InsertedRows(S)) : InsertedRows(S)[r].state = "draft" /\ r \in Authorized
  BY Inserted, FreshTagOk, FreshTagRow DEF TagInv
<1> HIDE DEF row, rows
<1>11. \A r \in Rmas : r \notin M => rma'[r] = rma[r]
  BY <1>2
<1>12. /\ member'[g] = rows /\ tag'[g] = row /\ member'[h] = InsertedRows(S) /\ tag'[h] = FreshTag
       /\ \A k \in Tags : k \notin {g, h} => member'[k] = member[k] /\ tag'[k] = tag[k]
  BY <1>1, <1>2 DEF TagInv, TagType
<1>13. TagType'
  <2>1. tag' \in [Tags -> Opt(Tag)]
    BY <1>2, <1>8, <1>10 DEF TagInv, TagType, Opt
  <2>2. member' \in [Tags -> Rows]
    BY <1>2, <1>6, <1>10 DEF TagInv, TagType
  <2> QED  BY <2>1, <2>2 DEF TagType
<1>14. \A k \in Tags : TagOk(tag'[k], member'[k])
  BY <1>8, <1>10, <1>12 DEF TagInv
<1>15. MembersAuthorized'
  <2> SUFFICES ASSUME NEW k \in Tags, NEW r \in Rmas, member'[k][r] # None PROVE r \in Authorized
    BY <1>9 DEF MembersAuthorized
  <2>1. CASE k = g
    BY <1>6, <1>12, <2>1 DEF Present, TagInv, MembersAuthorized
  <2>2. CASE k = h
    BY <1>10, <1>12, <2>2 DEF Present
  <2>3. CASE k \notin {g, h}
    BY <1>12, <2>3 DEF TagInv, MembersAuthorized
  <2> QED  BY <2>1, <2>2, <2>3
<1>16. ASSUME NEW r \in Rmas
       PROVE  ~Active(g, r)' /\ ~Active(h, r)' /\ ~Active(h, r) /\ ~Accepted(h, r) /\ ~Accepted(h, r)'
  <2>1. ~Active(h, r) /\ ~Accepted(h, r)
    BY <1>1 DEF TagInv, TagOk, Present, Active, Accepted
  <2>2. ~Active(h, r)' /\ ~Accepted(h, r)'
    BY <1>10, <1>12 DEF Present, Active, Accepted, ActiveMember
  <2>3. ~Active(g, r)'
    BY <1>6, <1>7, <1>12 DEF Present, Active, ActiveMember
  <2> QED  BY <2>1, <2>2, <2>3
<1>17. \A r \in Rmas : Accepted(g, r)' <=> Accepted(g, r)
  BY <1>6, <1>7, <1>12 DEF Present, Accepted, ActiveMember
<1>18. \A k \in Tags, r \in Rmas : k \notin {g, h} => (Active(k, r)' <=> Active(k, r)) /\ (Accepted(k, r)' <=> Accepted(k, r))
  BY <1>12 DEF Active, Accepted
<1>19. ASSUME NEW k \in Tags, NEW r \in Rmas, Active(k, r)' PROVE LinkedMember(k, r)'
  <2>1. k \notin {g, h} /\ Active(k, r) /\ LinkedMember(k, r)
    BY <1>16, <1>18, <1>19 DEF TagInv, Linked
  <2>2. r \notin M
    BY <1>3, <2>1 DEF LinkedMember
  <2> QED  BY <1>11, <1>12, <2>1, <2>2 DEF LinkedMember
<1>20. ASSUME NEW r \in Authorized PROVE LinkedRma(r)'
  <2>1. CASE r \in M
    BY <1>9, <2>1 DEF LinkedRma
  <2>2. CASE r \notin M
    <3>1. r \in Rmas /\ rma'[r] = rma[r] /\ LinkedRma(r) /\ ~Active(g, r) /\ ~Active(h, r)
      BY <1>5, <1>11, <1>16, <2>2 DEF TagInv, Linked, Authorized
    <3> QED  BY <1>18, <3>1 DEF LinkedRma
  <2> QED  BY <2>1, <2>2
<1>21. AcceptedOnce'
  <2>1. \A r \in Authorized : r \in Rmas /\ rma'[r].obligation = rma[r].obligation
    BY <1>9, <1>11 DEF SameObligation, Authorized
  <2>2. \A k \in Tags, r \in Rmas : Accepted(k, r)' <=> Accepted(k, r)
    BY <1>16, <1>17, <1>18
  <2> QED  BY <1>9, <2>1, <2>2 DEF TagInv, AcceptedOnce
<1>22. Linked'
  BY <1>9, <1>19, <1>20 DEF Linked, LinkedMember
<1> QED  BY <1>9, <1>13, <1>14, <1>15, <1>21, <1>22 DEF TagInv

LEMMA WarehouseKeeps ==
    ASSUME TagInv, NEW T \in SUBSET (Tags \X Rmas), \A x \in T : Active(x[1], x[2]),
           NEW s \in ActiveMember \cup Decisions, Warehouse(T, s)
    PROVE  TagInv' /\ RmasKept
<1> DEFINE R == {r \in Rmas : \E g \in Tags : <<g, r>> \in T}
           G == {g \in Tags : \E r \in Rmas : <<g, r>> \in T}
<1>1. /\ \A r \in Rmas : (\A x \in T : x[2] # r) <=> r \notin R
      /\ \A g \in Tags : (\E x \in T : x[1] = g) <=> g \in G
  <2>1. \A x \in T : x = <<x[1], x[2]>> /\ x[1] \in Tags /\ x[2] \in Rmas
    OBVIOUS
  <2>2. ASSUME NEW r \in Rmas PROVE (\E x \in T : x[2] = r) <=> r \in R
    <3>1. ASSUME NEW x \in T, x[2] = r PROVE r \in R
      BY <2>1, <3>1
    <3>2. ASSUME r \in R PROVE \E x \in T : x[2] = r
      <4>1. PICK g \in Tags : <<g, r>> \in T
        BY <3>2
      <4>2. <<g, r>>[2] = r
        OBVIOUS
      <4> QED  BY <4>1, <4>2
    <3> QED  BY <3>1, <3>2
  <2>3. ASSUME NEW g \in Tags PROVE (\E x \in T : x[1] = g) <=> g \in G
    <3>1. ASSUME NEW x \in T, x[1] = g PROVE g \in G
      BY <2>1, <3>1
    <3>2. ASSUME g \in G PROVE \E x \in T : x[1] = g
      <4>1. PICK r \in Rmas : <<g, r>> \in T
        BY <3>2
      <4>2. <<g, r>>[1] = g
        OBVIOUS
      <4> QED  BY <4>1, <4>2
    <3> QED  BY <3>1, <3>2
  <2> QED  BY <2>2, <2>3
<1>2. /\ member' = [g \in Tags |-> [r \in Rmas |->
                       IF <<g, r>> \in T THEN [member[g][r] EXCEPT !.state = s] ELSE member[g][r]]]
      /\ rma' = [r \in Rmas |-> IF r \notin R THEN rma[r]
                                ELSE IF s \in Decisions THEN FinalRma(rma[r], s)
                                ELSE _rebuild_rma_warehouse_state(rma[r], s)]
      /\ tag' = [g \in Tags |-> IF g \in G THEN _rebuild_tag_projection(tag[g], member'[g]) ELSE tag[g]]
  BY <1>1 DEF Warehouse
<1> HIDE DEF R, G
<1>3. ASSUME NEW g \in Tags, NEW r \in Rmas, <<g, r>> \in T
      PROVE  /\ member[g][r] # None /\ member[g][r] \in Membership /\ r \in Authorized /\ g \in Tagged
             /\ Active(g, r) /\ LinkedMember(g, r) /\ g \in G /\ r \in R
  <2>1. Active(g, r)
    BY <1>3
  <2> QED  BY <1>3, <2>1, MemberRow DEF Active, TagInv, Linked, G, R
(* Memberships. *)
<1>4. ASSUME NEW g \in Tags, NEW r \in Rmas, <<g, r>> \in T
      PROVE  /\ member'[g][r] \in Membership /\ member'[g][r] # None /\ member'[g][r].state = s
             /\ member'[g][r].by = member[g][r].by /\ member'[g][r].unit = member[g][r].unit
  <2>1. member[g][r] \in Membership /\ s \in MemberState
    BY <1>3, <1>4 DEF MemberState
  <2>2. member'[g][r] = [member[g][r] EXCEPT !.state = s]
    BY <1>2, <1>4
  <2> QED  BY <2>1, <2>2, TagAssumption DEF Membership, MemberState
<1>5. ASSUME NEW g \in Tags, NEW r \in Rmas, <<g, r>> \notin T PROVE member'[g][r] = member[g][r]
  BY <1>2, <1>5
<1>6. ASSUME NEW g \in Tags PROVE member'[g] \in Rows /\ Present(member'[g]) = Present(member[g])
  <2>1. \A r \in Rmas : member'[g][r] \in Opt(Membership) /\ (member'[g][r] = None <=> member[g][r] = None)
    BY <1>3, <1>4, <1>5 DEF TagInv, TagType, Rows, Opt
  <2>2. member'[g] = [r \in Rmas |-> member'[g][r]]
    BY <1>2
  <2> QED  BY <2>1, <2>2 DEF Rows, Present
<1>7. member' \in [Tags -> Rows]
  <2>1. member' = [g \in Tags |-> member'[g]]
    BY <1>2
  <2> QED  BY <1>6, <2>1
(* Tags. *)
<1>8. ASSUME NEW g \in Tags PROVE tag'[g] \in Opt(Tag) /\ TagOk(tag'[g], member'[g])
  <2>1. CASE g \in G
    <3>1. PICK r \in Rmas : <<g, r>> \in T
      BY <2>1 DEF G
    <3>2. /\ tag[g] \in Tag /\ tag[g] # None /\ TagOk(tag[g], member[g])
          /\ r \in Present(member[g]) /\ member[g][r].state \in ActiveMember
      BY <1>3, <3>1, TaggedRow DEF Present, Active
    <3>3. tag[g].submitted /\ tag[g].state # "superseded"
      <4>1. tag[g].submitted \in BOOLEAN /\ member[g][r].state # "draft"
        BY <3>2 DEF Tag, ActiveMember
      <4> QED  BY <3>2, <4>1 DEF TagOk, StatesFit
    <3>4. tag[g].count = Cardinality(Present(member'[g]))
      BY <1>6, <3>2, <3>3 DEF TagOk, Counted
    <3>5. ASSUME NEW k \in Present(member[g]) PROVE member'[g][k].state \in ActiveMember \cup Decisions
      <4>1. k \in Rmas /\ member[g][k] \in Membership
        BY MemberRow DEF Present
      <4>2. CASE <<g, k>> \in T
        BY <1>4, <4>1, <4>2
      <4>3. CASE <<g, k>> \notin T
        <5>1. member[g][k].state # "draft" /\ member[g][k].state # "superseded"
          BY <3>2, <3>3 DEF TagOk, StatesFit
        <5> QED  BY <1>5, <4>1, <4>3, <5>1 DEF Membership
      <4> QED  BY <4>2, <4>3
    <3>6. tag'[g] = _rebuild_tag_projection(tag[g], member'[g])
      BY <1>2, <2>1
    <3> QED  BY <1>6, <3>2, <3>3, <3>4, <3>5, <3>6, RebuiltTag DEF Opt
  <2>2. CASE g \notin G
    <3>1. tag'[g] = tag[g]
      BY <1>2, <2>2
    <3>2. \A r \in Rmas : member'[g][r] = member[g][r]
      BY <1>3, <1>5, <2>2
    <3>3. member'[g] = member[g]
      BY <1>6, <3>2 DEF TagInv, TagType, Rows
    <3> QED  BY <3>1, <3>3 DEF TagInv, TagType
  <2> QED  BY <2>1, <2>2
<1>9. TagType'
  <2>1. tag' = [g \in Tags |-> tag'[g]]
    BY <1>2
  <2> QED  BY <1>7, <1>8, <2>1 DEF TagType
(* RMAs. *)
<1>10. ASSUME NEW r \in R
       PROVE  /\ r \in Rmas /\ r \in Authorized /\ rma'[r] \in RmaRow /\ rma'[r] # None
              /\ rma[r].obligation = "open" /\ SamePart(rma[r], rma'[r])
              /\ \A g \in Tags : <<g, r>> \in T <=> rma[r].member = g
              /\ rma'[r].by = rma[r].by /\ rma'[r].returned = rma[r].returned
              /\ s \in Decisions => rma'[r].member = None
                                    /\ rma'[r].obligation = IF s = "accepted" THEN "closed_accepted" ELSE "open"
              /\ s \notin Decisions => rma'[r].member = rma[r].member /\ SameObligation(rma[r], rma'[r])
  <2>1. PICK g \in Tags : <<g, r>> \in T
    BY DEF R
  <2>2. r \in Rmas /\ r \in Authorized /\ rma[r].member = g /\ rma[r].obligation = "open"
    BY <1>3, <2>1 DEF LinkedMember, R
  <2>3. rma[r] \in RmaRow
    BY <2>2, AuthorizedRow DEF TagInv
  <2>4. \A h \in Tags : <<h, r>> \in T <=> rma[r].member = h
    BY <1>3, <2>1, <2>2 DEF LinkedMember
  <2>5. CASE s \in Decisions
    <3>1. rma'[r] = FinalRma(rma[r], s)
      BY <1>2, <2>2, <2>5
    <3> QED  BY <2>2, <2>3, <2>4, <2>5, <3>1, RmaEdits
  <2>6. CASE s \notin Decisions
    <3>1. rma'[r] = _rebuild_rma_warehouse_state(rma[r], s) /\ s \in ActiveMember
      BY <1>2, <2>2, <2>6
    <3> QED  BY <2>2, <2>3, <2>4, <2>6, <3>1, RmaEdits DEF SameObligation
  <2> QED  BY <2>5, <2>6
<1>11. ASSUME NEW r \in Rmas, r \notin R PROVE rma'[r] = rma[r] /\ \A g \in Tags : <<g, r>> \notin T
  BY <1>2, <1>3, <1>11
<1>12. RmaType' /\ Authorized' = Authorized
  <2>1. \A r \in Rmas : rma'[r] \in Opt(RmaRow) /\ (rma'[r] = None <=> rma[r] = None)
    BY <1>10, <1>11 DEF TagInv, RmaType, Opt, Authorized
  <2>2. rma' = [r \in Rmas |-> rma'[r]]
    BY <1>2
  <2> QED  BY <2>1, <2>2 DEF RmaType, Authorized
<1>13. MembersAuthorized'
  BY <1>6, <1>12 DEF TagInv, MembersAuthorized, Present
<1>14. ASSUME NEW g \in Tags, NEW r \in Rmas
       PROVE  /\ Active(g, r)' <=> Active(g, r) /\ (<<g, r>> \in T => s \in ActiveMember)
              /\ Accepted(g, r)' <=> Accepted(g, r) \/ (<<g, r>> \in T /\ s = "accepted")
  <2>1. CASE <<g, r>> \in T
    BY <1>3, <1>4, <2>1 DEF Active, Accepted, ActiveMember
  <2>2. CASE <<g, r>> \notin T
    BY <1>5, <2>2 DEF Active, Accepted
  <2> QED  BY <2>1, <2>2
<1>15. ASSUME NEW g \in Tags, NEW r \in Rmas, Active(g, r)' PROVE LinkedMember(g, r)'
  <2>1. Active(g, r) /\ LinkedMember(g, r) /\ (<<g, r>> \in T => s \in ActiveMember)
    BY <1>14, <1>15 DEF TagInv, Linked
  <2>2. CASE <<g, r>> \in T
    <3>1. s \notin Decisions /\ r \in R
      BY <1>3, <2>1, <2>2 DEF ActiveMember, Decisions
    <3> QED  BY <1>4, <1>10, <2>1, <2>2, <3>1 DEF LinkedMember, SameObligation
  <2>3. CASE <<g, r>> \notin T
    <3>1. r \notin R
      BY <1>10, <2>1, <2>3 DEF LinkedMember
    <3> QED  BY <1>5, <1>11, <2>1, <2>3, <3>1 DEF LinkedMember
  <2> QED  BY <2>2, <2>3
<1>16. ASSUME NEW r \in Authorized PROVE LinkedRma(r)'
  <2>0. r \in Rmas /\ LinkedRma(r)
    BY DEF TagInv, Linked, Authorized
  <2>1. CASE r \in R /\ s \in Decisions
    BY <1>10, <2>1 DEF LinkedRma
  <2>2. CASE r \in R /\ s \notin Decisions
    BY <1>10, <1>14, <2>0, <2>2 DEF LinkedRma
  <2>3. CASE r \notin R
    BY <1>11, <1>14, <2>0, <2>3 DEF LinkedRma
  <2> QED  BY <2>1, <2>2, <2>3
<1>17. Linked'
  BY <1>12, <1>15, <1>16 DEF Linked, LinkedMember
<1>18. AcceptedOnce'
  <2>1. ASSUME NEW r \in Authorized
        PROVE  rma'[r].obligation = "closed_accepted" <=> \E g \in Tags : Accepted(g, r)'
    <3>0. r \in Rmas /\ (rma[r].obligation = "closed_accepted" <=> \E g \in Tags : Accepted(g, r))
      BY DEF TagInv, AcceptedOnce, Authorized
    <3>1. CASE r \notin R
      BY <1>11, <1>14, <3>0, <3>1
    <3>2. CASE r \in R /\ s = "accepted"
      BY <1>10, <1>14, <3>0, <3>2 DEF Decisions, R
    <3>3. CASE r \in R /\ s # "accepted"
      <4>1. rma'[r].obligation = "open" /\ rma[r].obligation = "open"
        BY <1>10, <3>3 DEF SameObligation
      <4> QED  BY <1>14, <3>0, <3>3, <4>1
    <3> QED  BY <3>1, <3>2, <3>3
  <2>2. ASSUME NEW r \in Rmas, NEW g \in Tags, NEW h \in Tags, Accepted(g, r)', Accepted(h, r)'
        PROVE  g = h
    <3>1. CASE r \notin R
      BY <1>11, <1>14, <2>2, <3>1 DEF TagInv, AcceptedOnce
    <3>2. CASE r \in R
      <4>1. \A k \in Tags : ~Accepted(k, r)
        BY <1>10, <3>2 DEF TagInv, AcceptedOnce
      <4>2. <<g, r>> \in T /\ <<h, r>> \in T
        BY <1>14, <2>2, <4>1
      <4>3. rma[r].member = g /\ rma[r].member = h
        BY <1>10, <3>2, <4>2
      <4> QED  BY <4>3
    <3> QED  BY <3>1, <3>2
  <2> QED  BY <1>12, <2>1, <2>2 DEF AcceptedOnce
<1>19. RmasKept
  <2>1. ASSUME NEW r \in Authorized, r \in R
        PROVE  rma'[r].obligation # "not_established" /\ rma[r].obligation = "open"
    <3>1. s \notin Decisions => rma'[r].obligation = "open"
      BY <1>10, <2>1 DEF SameObligation
    <3> QED  BY <1>10, <2>1, <3>1
  <2>2. ASSUME NEW r \in Authorized, r \notin R PROVE rma'[r] = rma[r]
    BY <1>11, <2>2 DEF Authorized
  <2> QED  BY <1>10, <1>12, <2>1, <2>2 DEF RmasKept, SamePart
<1> QED  BY <1>8, <1>9, <1>12, <1>13, <1>17, <1>18, <1>19 DEF TagInv

LEMMA WarehouseMovesKeep ==
    ASSUME TagInv, WarehouseMoves
    PROVE  TagInv' /\ RmasKept
<1>1. PICK T \in SUBSET (Tags \X Rmas) :
        \/ _require_warehouse_targets(T, "submitted_awaiting_receipt") /\ Warehouse(T, "warehouse_received")
        \/ _require_warehouse_targets(T, "warehouse_received")
           /\ \E d \in Decisions \cup {"submitted_awaiting_receipt"} : Warehouse(T, d)
  BY DEF WarehouseMoves
<1>2. \A x \in T : Active(x[1], x[2])
  BY <1>1 DEF _require_warehouse_targets, _validate_warehouse_target_authority, Active, ActiveMember
<1> QED  BY <1>1, <1>2, WarehouseKeeps DEF ActiveMember

-----------------------------------------------------------------------------
(* The commands on RMAs and the consequences of tasks concern no tag. *)

(* The RMAs a response authorises, and the ones that were there. *)
LEMMA BatchRows ==
    ASSUME RmaType, NEW q \in Requests, NEW batch \in SUBSET Rmas, NEW c10 \in Injection(batch, C10s),
           accept_rma_authorization_batch(q, batch, c10)
    PROVE  /\ RmaType' /\ Authorized' = Authorized \cup batch /\ batch \cap Authorized = {}
           /\ \A r \in Authorized : rma'[r] = rma[r]
           /\ \A r \in batch : /\ rma'[r] # None /\ rma'[r].member = None
                               /\ rma'[r].obligation = "not_established" /\ rma'[r].returned = None
                               /\ rma'[r].request = q /\ rma'[r].inbound = None
                               /\ rma'[r].target = _eligible_target(q, batch, r)
<1>1. ASSUME NEW r \in batch
      PROVE  /\ rma'[r] \in RmaRow /\ rma'[r] # None /\ rma'[r].member = None
             /\ rma'[r].obligation = "not_established" /\ rma'[r].returned = None
             /\ rma'[r].request = q /\ rma'[r].inbound = None
             /\ rma'[r].target = _eligible_target(q, batch, r)
  <2>1. c10[r] \in C10s
    BY DEF Injection
  <2>2. _eligible_target(q, batch, r) \in Opt(Devices)
    <3>1. CASE _eligible_target(q, batch, r) = None
      BY <3>1 DEF Opt
    <3>2. CASE _eligible_target(q, batch, r) # None
      <4>1. _eligible_target(q, batch, r) \in EligibleTargets(q, BomOf[r])
        BY <3>2, BatchTarget
      <4> QED  BY <4>1 DEF EligibleTargets, Registered, Opt
    <3> QED  BY <3>1, <3>2
  <2>3. rma'[r] = Rma(q, c10[r], _eligible_target(q, batch, r))
    BY DEF accept_rma_authorization_batch
  <2> QED  BY <2>1, <2>2, <2>3, NewRma
<1>2. ASSUME NEW r \in Rmas, r \notin batch PROVE rma'[r] = rma[r]
  BY <1>2 DEF accept_rma_authorization_batch
<1>3. batch \cap Authorized = {}
  BY DEF accept_rma_authorization_batch
<1>4. RmaType'
  <2>1. rma' = [r \in Rmas |-> rma'[r]]
    BY DEF accept_rma_authorization_batch
  <2>2. \A r \in Rmas : rma'[r] \in Opt(RmaRow)
    BY <1>1, <1>2 DEF RmaType, Opt
  <2> QED  BY <2>1, <2>2 DEF RmaType
<1>5. Authorized' = Authorized \cup batch
  BY <1>1, <1>2 DEF Authorized
<1> QED  BY <1>1, <1>2, <1>3, <1>4, <1>5 DEF Authorized

(* The rows the other commands write. *)
LEMMA RmaRowEdits ==
    ASSUME NEW old \in RmaRow
    PROVE  /\ \A c \in C10s : LET new == [old EXCEPT !.c10 = c]
                              IN  new \in RmaRow /\ SameReturn(old, new) /\ SamePart(old, new)
           /\ \A d \in Opt(Devices) : LET new == [old EXCEPT !.target = d]
                                      IN  /\ new \in RmaRow /\ SameReturn(old, new) /\ new.target = d
                                          /\ new.request = old.request /\ new.inbound = old.inbound
           /\ \A u \in Units : LET new == [old EXCEPT !.inbound = u, !.state = "received"]
                               IN  /\ new \in RmaRow /\ SameReturn(old, new) /\ new.inbound = u
                                   /\ new.request = old.request /\ new.target = old.target
           /\ \A x \in Units \cup Devices, t \in Tasks :
                 LET new == [old EXCEPT !.state = "return_open", !.obligation = "open", !.returned = x, !.by = t]
                 IN  /\ new \in RmaRow /\ new.obligation = "open" /\ new.returned = x /\ new.by = t
                     /\ new.member = old.member /\ SamePart(old, new)
<1>1. ASSUME NEW c \in C10s
      PROVE  LET new == [old EXCEPT !.c10 = c] IN new \in RmaRow /\ SameReturn(old, new) /\ SamePart(old, new)
  BY DEF RmaRow, SameReturn, SamePart
<1>2. ASSUME NEW d \in Opt(Devices)
      PROVE  LET new == [old EXCEPT !.target = d]
             IN  /\ new \in RmaRow /\ SameReturn(old, new) /\ new.target = d
                 /\ new.request = old.request /\ new.inbound = old.inbound
  BY DEF RmaRow, SameReturn
<1>3. ASSUME NEW u \in Units
      PROVE  LET new == [old EXCEPT !.inbound = u, !.state = "received"]
             IN  /\ new \in RmaRow /\ SameReturn(old, new) /\ new.inbound = u
                 /\ new.request = old.request /\ new.target = old.target
  BY DEF RmaRow, SameReturn, Opt
<1>4. ASSUME NEW x \in Units \cup Devices, NEW t \in Tasks
      PROVE  LET new == [old EXCEPT !.state = "return_open", !.obligation = "open", !.returned = x, !.by = t]
             IN  /\ new \in RmaRow /\ new.obligation = "open" /\ new.returned = x /\ new.by = t
                 /\ new.member = old.member /\ SamePart(old, new)
  BY DEF RmaRow, SamePart, Opt
<1> QED  BY <1>1, <1>2, <1>3, <1>4

(* A command on RMAs authorises a batch or writes one RMA, whose return it leaves alone. *)
OneRmaWritten ==
    \E r \in Authorized, row \in RmaRow :
       /\ rma' = [rma EXCEPT ![r] = row] /\ SameReturn(rma[r], row) /\ row.request = rma[r].request
       /\ UNCHANGED request
       /\ attention' = attention \/ attention' = rebuild_rma_attention(attention, r, row)

BatchAccepted ==
    \E q \in Requests, batch \in (SUBSET Rmas) \ {{}} :
       \E c10 \in Injection(batch, C10s) : accept_rma_authorization_batch(q, batch, c10)

LEMMA RmaStepForm ==
    ASSUME RmaType, RmaStep
    PROVE  BatchAccepted \/ OneRmaWritten
<1>2. ASSUME NEW r \in Rmas, NEW c \in C10s, correct_rma_official_id(r, c) PROVE OneRmaWritten
  <2> DEFINE row == [rma[r] EXCEPT !.c10 = c]
  <2>1. r \in Authorized /\ rma[r] \in RmaRow
    BY <1>2, AuthorizedRow DEF correct_rma_official_id
  <2>2. row \in RmaRow /\ SameReturn(rma[r], row) /\ row.request = rma[r].request
    BY <2>1, RmaRowEdits DEF SamePart
  <2>3. rma' = [rma EXCEPT ![r] = row] /\ UNCHANGED <<request, attention>>
    BY <1>2 DEF correct_rma_official_id
  <2> HIDE DEF row
  <2> QED  BY <2>1, <2>2, <2>3 DEF OneRmaWritten
<1>3. ASSUME NEW r \in Rmas, NEW d \in Opt(Devices), set_rma_target_assignment(r, d) PROVE OneRmaWritten
  <2> DEFINE row == [rma[r] EXCEPT !.target = d]
  <2>1. r \in Authorized /\ rma[r] \in RmaRow /\ r \in Rmas
    BY <1>3, AuthorizedRow DEF set_rma_target_assignment
  <2>2. row \in RmaRow /\ SameReturn(rma[r], row) /\ row.request = rma[r].request
    BY <2>1, RmaRowEdits
  <2>3. rma' = [rma EXCEPT ![r] = row] /\ UNCHANGED request /\ attention' = rebuild_rma_attention(attention, r, rma'[r])
    BY <1>3 DEF set_rma_target_assignment
  <2> HIDE DEF row
  <2>4. rma'[r] = row
    BY <2>1, <2>3 DEF RmaType
  <2> QED  BY <2>1, <2>2, <2>3, <2>4 DEF OneRmaWritten
<1>4. ASSUME NEW r \in Rmas, NEW u \in Units, NEW c, record_rma_inbound_receipt(r, u, c) PROVE OneRmaWritten
  <2> DEFINE row == [rma[r] EXCEPT !.inbound = u, !.state = "received"]
  <2>1. r \in Authorized /\ rma[r] \in RmaRow
    BY <1>4, AuthorizedRow DEF record_rma_inbound_receipt
  <2>2. row \in RmaRow /\ SameReturn(rma[r], row) /\ row.request = rma[r].request
    BY <2>1, RmaRowEdits
  <2>3. rma' = [rma EXCEPT ![r] = row] /\ UNCHANGED <<request, attention>>
    BY <1>4, <2>1 DEF record_rma_inbound_receipt, RmaRow
  <2> HIDE DEF row
  <2> QED  BY <2>1, <2>2, <2>3 DEF OneRmaWritten
<1>5. \A batch \in SUBSET Rmas : Injection(batch, In(C10s)) \subseteq Injection(batch, C10s)
  BY DEF Injection, IsInjective, In
<1>6. In(Rmas) \subseteq Rmas /\ In(Units) \subseteq Units /\ In(Requests) \subseteq Requests /\ In(C10s) \subseteq C10s
      /\ Opt(In(Devices)) \subseteq Opt(Devices)
  BY DEF In, Opt
<1>7. CASE \E q \in In(Requests), batch \in (SUBSET In(Rmas)) \ {{}} :
              \E c10 \in Injection(batch, In(C10s)) : accept_rma_authorization_batch(q, batch, c10)
  <2>1. PICK q \in In(Requests), batch \in (SUBSET In(Rmas)) \ {{}} :
              \E c10 \in Injection(batch, In(C10s)) : accept_rma_authorization_batch(q, batch, c10)
    BY <1>7
  <2>2. q \in Requests /\ batch \in (SUBSET Rmas) \ {{}}
    BY <1>6
  <2>3. PICK c10 \in Injection(batch, C10s) : accept_rma_authorization_batch(q, batch, c10)
    BY <1>5, <2>1, <2>2
  <2> QED  BY <2>2, <2>3 DEF BatchAccepted
<1>8. CASE \E r \in In(Rmas), c \in In(C10s) : correct_rma_official_id(r, c)
  BY <1>2, <1>6, <1>8
<1>9. CASE \E r \in In(Rmas), d \in Opt(In(Devices)) : set_rma_target_assignment(r, d)
  BY <1>3, <1>6, <1>9
<1>10. CASE \E r \in In(Rmas), u \in In(Units), c \in UnitConditions : record_rma_inbound_receipt(r, u, c)
  BY <1>4, <1>6, <1>10
<1> QED  BY <1>7, <1>8, <1>9, <1>10 DEF RmaStep

LEMMA RmaStepReturns ==
    ASSUME RmaType, RmaStep
    PROVE  ReturnsMove
<1>1. CASE BatchAccepted
  BY <1>1, BatchRows DEF BatchAccepted, ReturnsMove, SameReturn
<1>2. CASE OneRmaWritten
  BY <1>2, OneReturn DEF OneRmaWritten
<1> QED  BY <1>1, <1>2, RmaStepForm

(* The return a consequence opens is of an RMA that owes nothing yet. *)
OpenedRow(old, c, t) ==
    [old EXCEPT !.state = "return_open", !.obligation = "open", !.returned = ReturnSelection(c), !.by = t]

LEMMA OpenedReturn ==
    ASSUME RmaType, NEW t \in Tasks, NEW c \in Outcomes, accept_inventory_physical_consequence(t, c),
           c.rma # None, ReturnSelection(c) # None
    PROVE  LET row == OpenedRow(rma[c.rma], c, t)
           IN  /\ c.rma \in Authorized /\ rma[c.rma] \in RmaRow /\ row \in RmaRow
               /\ rma' = [rma EXCEPT ![c.rma] = row] /\ rma[c.rma].obligation = "not_established"
               /\ row.obligation = "open" /\ row.returned = ReturnSelection(c) /\ row.by = t
               /\ row.member = rma[c.rma].member /\ SamePart(rma[c.rma], row)
<1> DEFINE old == rma[c.rma]
           row == OpenedRow(old, c, t)
<1>1. c.rma \in Authorized /\ old.obligation = "not_established"
  BY DEF accept_inventory_physical_consequence, _validate_rma_consequence
<1>2. old \in RmaRow
  BY <1>1, AuthorizedRow
<1>3. ReturnSelection(c) \in Units \cup Devices
  <2>1. c.removed \in Opt(Devices) /\ c.inbound \in Opt(Units) /\ c.parent \in Opt(Units)
    BY OutcomeRows DEF Consequence
  <2> QED  BY <2>1 DEF ReturnSelection, Opt
<1>4. rma' = [rma EXCEPT ![c.rma] = row]
  BY <1>2 DEF accept_inventory_physical_consequence, OpenReturn, OpenedRow, RmaRow
<1>5. /\ row \in RmaRow /\ row.obligation = "open" /\ row.returned = ReturnSelection(c) /\ row.by = t
      /\ row.member = old.member /\ SamePart(old, row)
  BY <1>2, <1>3, RmaRowEdits DEF OpenedRow
<1> QED  BY <1>1, <1>2, <1>4, <1>5

LEMMA ConsequenceReturns ==
    ASSUME RmaType, ConsequenceStep
    PROVE  ReturnsMove
<1>1. PICK t \in Tasks, c \in Outcomes : accept_inventory_physical_consequence(t, c)
  BY DEF ConsequenceStep, In
<1>2. CASE c.rma = None \/ ReturnSelection(c) = None
  BY <1>1, <1>2, ReturnsQuiet DEF accept_inventory_physical_consequence, OpenReturn
<1>3. CASE c.rma # None /\ ReturnSelection(c) # None
  <2> DEFINE row == OpenedRow(rma[c.rma], c, t)
  <2>1. /\ c.rma \in Authorized /\ row \in RmaRow /\ rma' = [rma EXCEPT ![c.rma] = row]
        /\ rma[c.rma].obligation = "not_established" /\ row.obligation = "open"
        /\ row.member = rma[c.rma].member
    BY <1>1, <1>3, OpenedReturn
  <2> HIDE DEF row
  <2> QED  BY <2>1, OneReturn
<1> QED  BY <1>2, <1>3

LEMMA QuietTags ==
    ASSUME TagInv, UNCHANGED <<rma, tag, member>>
    PROVE  TagInv'
BY ReturnsQuiet, TagsStay DEF TagInv

LEMMA TagStepKeeps ==
    ASSUME TagInv, TagStep
    PROVE  TagInv'
<1>0. In(Tags) \subseteq Tags
  BY DEF In
<1>1. ASSUME NEW g \in Tags, NEW S \in SUBSET Authorized, create_fault_tag_draft(g, S) PROVE TagInv'
  BY <1>1, FreshKeeps DEF create_fault_tag_draft, insert_draft, InsertedRows, stockVars
<1>2. ASSUME NEW g \in Tags, NEW h \in Tags, NEW S \in SUBSET Authorized, resend(g, h, S) PROVE TagInv'
  BY <1>2, FreshKeeps DEF resend, insert_draft, InsertedRows
<1> QED  BY <1>0, <1>1, <1>2, UpdateKeeps, SubmissionKeeps, ArchiveKeeps, DeleteTagKeeps, ReplacementKeeps
         DEF TagStep

LEMMA TagsKept ==
    ASSUME ProposalInv, TagInv, Next
    PROVE  TagInv'
<1>0. RmaType
  BY DEF TagInv
<1>1. CASE StockStep /\ UNCHANGED tagVars
  <2>1. UNCHANGED <<tag, member>>
    BY <1>1 DEF tagVars
  <2>2. CASE NeedStep \/ UnitStep \/ RequestStep \/ LogisticsStep
    BY <2>1, <2>2, NeedFrame, UnitFrame, RequestFrame, LogisticsFrame, QuietTags
  <2>3. CASE RmaStep \/ ConsequenceStep
    BY <1>0, <2>1, <2>3, RmaStepReturns, ConsequenceReturns, TagsStay
  <2> QED  BY <1>1, <2>2, <2>3 DEF StockStep
<1>2. CASE TagStep
  BY <1>2, TagStepKeeps
<1>3. CASE WarehouseMoves
  BY <1>3, WarehouseMovesKeep
<1>4. CASE OtherStep
  <2>1. CASE \E g \in Tags : correct_false_fault_tag_submission(g)
    BY <2>1, FalseSubmissionKeeps
  <2>2. CASE UNCHANGED <<rma, tag, member>>
    BY <2>2, QuietTags
  <2> QED  BY <1>4, <2>1, <2>2
           DEF OtherStep, stockVars, tagVars, SubmissionTargets, attach_origin_rma,
               correct_inventory_physical_consequence, correct_physical_consequence,
               hard_delete_untouched_unit, hard_delete_unit, hard_delete_untouched_request,
               hard_delete_request, _delete_rows
<1> QED  BY <1>1, <1>2, <1>3, <1>4, Steps

LEMMA TagInvariant == Spec => [](ProposalInv /\ TagInv)
<1>1. Init => ProposalInv
  BY DEF Init, TagInit, ProposalInv, Opt
<1>2. Init => TagInv
  <2> SUFFICES ASSUME Init PROVE TagInv
    OBVIOUS
  <2>1. /\ tag = [g \in Tags |-> None] /\ member = [g \in Tags |-> [r \in Rmas |-> None]]
        /\ rma = [r \in Rmas |-> None]
    BY DEF Init, StockInit, TagInit
  <2>2. TagType /\ RmaType /\ MembersAuthorized
    BY <2>1 DEF TagType, Rows, RmaType, MembersAuthorized, Opt
  <2>3. \A g \in Tags : TagOk(tag[g], member[g])
    BY <2>1 DEF TagOk, Present
  <2>4. Linked /\ AcceptedOnce
    BY <2>1 DEF Linked, LinkedMember, AcceptedOnce, Active, Accepted, Authorized
  <2> QED  BY <2>2, <2>3, <2>4 DEF TagInv
<1>3. ProposalInv /\ TagInv /\ [Next]_vars => (ProposalInv /\ TagInv)'
  <2>1. ASSUME TagInv, UNCHANGED vars PROVE TagInv'
    BY <2>1, QuietTags DEF vars, stockVars, tagVars
  <2> QED  BY <2>1, ProposalsKept, TagsKept
<1> QED  BY <1>1, <1>2, <1>3, PTL DEF Spec

(* No unit is in two memberships that hold it. *)
UnitsExclusive ==
    \A g, h \in Tags, r, s \in Rmas :
       Active(g, r) /\ Active(h, s) /\ member[g][r].unit = member[h][s].unit => g = h /\ r = s

(* Every command but a submission leaves it at the memberships that were active. *)
NoneActivated ==
    \A g \in Tags, r \in Rmas : Active(g, r)' => Active(g, r) /\ member'[g][r].unit = member[g][r].unit

LEMMA NoneActivatedKeeps ==
    ASSUME UnitsExclusive, NoneActivated
    PROVE  UnitsExclusive'
<1> SUFFICES ASSUME NEW g \in Tags, NEW h \in Tags, NEW r \in Rmas, NEW s \in Rmas,
                    Active(g, r)', Active(h, s)', member'[g][r].unit = member'[h][s].unit
             PROVE  g = h /\ r = s
  BY DEF UnitsExclusive
<1> QED  BY DEF UnitsExclusive, NoneActivated

LEMMA DraftsActivateNone ==
    ASSUME TagInv, NEW g \in Tags, NEW rows, member' = [member EXCEPT ![g] = rows],
           \A r \in Rmas : rows[r] # None => rows[r].state = "draft"
    PROVE  NoneActivated
<1>1. member'[g] = rows /\ \A h \in Tags : h # g => member'[h] = member[h]
  BY DEF TagInv, TagType
<1>2. \A r \in Rmas : ~Active(g, r)'
  BY <1>1 DEF Active, ActiveMember
<1> QED  BY <1>1, <1>2 DEF NoneActivated, Active

LEMMA ReplacementActivatesNone ==
    ASSUME TagInv, NEW g \in Tags, NEW h \in Tags, NEW S \in SUBSET Authorized, replacement(g, h, S)
    PROVE  NoneActivated
<1> DEFINE rows == [r \in Rmas |-> IF r \in ActiveIn(g) THEN [member[g][r] EXCEPT !.state = "superseded"]
                                   ELSE member[g][r]]
<1>1. g # h /\ member' = [member EXCEPT ![g] = rows, ![h] = InsertedRows(S)]
  BY DEF replacement, InsertedRows
<1>2. ASSUME NEW r \in Rmas, rows[r] # None PROVE rows[r].state \notin ActiveMember
  <2>1. CASE r \in ActiveIn(g)
    <3>1. member[g][r] \in Membership /\ "superseded" \in MemberState
      BY <2>1, MemberRow DEF ActiveIn, MembersOf, MemberState
    <3>2. rows[r].state = "superseded"
      BY <2>1, <3>1, MemberEdits
    <3> QED  BY <3>2 DEF ActiveMember
  <2>2. CASE r \notin ActiveIn(g)
    BY <1>2, <2>2 DEF ActiveIn, MembersOf
  <2> QED  BY <2>1, <2>2
<1> HIDE DEF rows
<1>3. member'[g] = rows /\ member'[h] = InsertedRows(S) /\ \A k \in Tags : k \notin {g, h} => member'[k] = member[k]
  BY <1>1 DEF TagInv, TagType
<1>4. \A r \in Rmas : InsertedRows(S)[r] # None => InsertedRows(S)[r].state = "draft"
  BY Inserted DEF TagInv, Present
<1>5. \A r \in Rmas : ~Active(g, r)' /\ ~Active(h, r)'
  BY <1>2, <1>3, <1>4 DEF Active, ActiveMember
<1> QED  BY <1>3, <1>5 DEF NoneActivated, Active

LEMMA WarehouseActivatesNone ==
    ASSUME TagInv, WarehouseMoves
    PROVE  NoneActivated
<1>1. PICK T \in SUBSET (Tags \X Rmas) :
        \/ _require_warehouse_targets(T, "submitted_awaiting_receipt") /\ Warehouse(T, "warehouse_received")
        \/ _require_warehouse_targets(T, "warehouse_received")
           /\ \E d \in Decisions \cup {"submitted_awaiting_receipt"} : Warehouse(T, d)
  BY DEF WarehouseMoves
<1>2. PICK s \in MemberState : Warehouse(T, s)
  BY <1>1 DEF MemberState, ActiveMember
<1>3. member' = [g \in Tags |-> [r \in Rmas |->
                   IF <<g, r>> \in T THEN [member[g][r] EXCEPT !.state = s] ELSE member[g][r]]]
  BY <1>2 DEF Warehouse
<1> SUFFICES ASSUME NEW g \in Tags, NEW r \in Rmas, Active(g, r)'
             PROVE  Active(g, r) /\ member'[g][r].unit = member[g][r].unit
  BY DEF NoneActivated
<1>4. CASE <<g, r>> \in T
  <2>1. \A x \in T : Active(x[1], x[2])
    BY <1>1 DEF _require_warehouse_targets, _validate_warehouse_target_authority, Active, ActiveMember
  <2>2. Active(g, r)
    BY <1>4, <2>1
  <2>3. member[g][r] \in Membership
    BY <2>2, MemberRow DEF Active
  <2>4. member'[g][r] = [member[g][r] EXCEPT !.state = s]
    BY <1>3, <1>4
  <2>5. member'[g][r].unit = member[g][r].unit
    BY <2>3, <2>4 DEF Membership
  <2> QED  BY <2>2, <2>5
<1>5. CASE <<g, r>> \notin T
  BY <1>3, <1>5 DEF Active
<1> QED  BY <1>4, <1>5

(* A submission looks for the unit of each of its members in the other tags, *)
(* and the index refuses one unit twice in the tag.                          *)
LEMMA SubmissionExclusive ==
    ASSUME TagInv, UnitsExclusive, NEW g \in Tags, NEW sent \in BOOLEAN, accept_fault_tag_submission(g, sent)
    PROVE  UnitsExclusive'
<1> DEFINE rows == [r \in Rmas |-> IF member[g][r] = None THEN None
                      ELSE [member[g][r] EXCEPT !.state = "submitted_awaiting_receipt", !.history = TRUE]]
<1>1. member' = [member EXCEPT ![g] = rows]
  BY DEF accept_fault_tag_submission
<1>2. ASSUME NEW r \in Rmas, rows[r] # None PROVE r \in MembersOf(g) /\ rows[r].unit = member[g][r].unit
  <2>1. member[g][r] \in Membership /\ "submitted_awaiting_receipt" \in MemberState
    BY <1>2, MemberRow DEF MemberState, ActiveMember
  <2> QED  BY <1>2, <2>1, MemberEdits DEF MembersOf
<1> HIDE DEF rows
<1>3. member'[g] = rows /\ \A h \in Tags : h # g => member'[h] = member[h]
  BY <1>1 DEF TagInv, TagType
<1>4. ASSUME NEW r \in Rmas, NEW h \in Tags, NEW s \in Rmas, h # g, Active(g, r)', Active(h, s)'
      PROVE  member'[g][r].unit # member'[h][s].unit
  <2>1. r \in MembersOf(g) /\ member'[g][r].unit = member[g][r].unit
    BY <1>2, <1>3, <1>4 DEF Active
  <2>2. /\ require_membership_eligible(g, r)
        /\ obligation_authority(r) = [by |-> member[g][r].by, unit |-> member[g][r].unit]
    BY <2>1 DEF accept_fault_tag_submission, CanSubmitTag
  <2>3. member'[h][s] = member[h][s] /\ Active(h, s)
    BY <1>3, <1>4 DEF Active
  <2>4. h \in Tagged /\ s \in ActiveIn(h)
    BY <2>3, MemberRow DEF Active, ActiveIn
  <2>5. member[h][s].unit # rma[r].returned
    BY <1>4, <2>2, <2>4 DEF require_membership_eligible
  <2> QED  BY <2>1, <2>2, <2>3, <2>5 DEF obligation_authority
<1>5. ASSUME NEW r \in Rmas, NEW s \in Rmas, Active(g, r)', Active(g, s)',
             member'[g][r].unit = member'[g][s].unit
      PROVE  r = s
  <2>1. /\ r \in MembersOf(g) /\ member'[g][r].unit = member[g][r].unit
        /\ s \in MembersOf(g) /\ member'[g][s].unit = member[g][s].unit
    BY <1>2, <1>3, <1>5 DEF Active
  <2> QED  BY <1>5, <2>1 DEF accept_fault_tag_submission, CanSubmitTag
<1>6. ASSUME NEW h \in Tags, NEW k \in Tags, NEW r \in Rmas, NEW s \in Rmas, h # g, k # g,
             Active(h, r)', Active(k, s)', member'[h][r].unit = member'[k][s].unit
      PROVE  h = k /\ r = s
  BY <1>3, <1>6 DEF UnitsExclusive, Active
<1> SUFFICES ASSUME NEW h \in Tags, NEW k \in Tags, NEW r \in Rmas, NEW s \in Rmas,
                    Active(h, r)', Active(k, s)', member'[h][r].unit = member'[k][s].unit
             PROVE  h = k /\ r = s
  BY DEF UnitsExclusive
<1>7. CASE h = g /\ k = g
  BY <1>5, <1>7
<1>8. CASE h = g /\ k # g
  BY <1>4, <1>8
<1>9. CASE h # g /\ k = g
  BY <1>4, <1>9
<1> QED  BY <1>6, <1>7, <1>8, <1>9

LEMMA TagStepExclusive ==
    ASSUME TagInv, UnitsExclusive, TagStep
    PROVE  UnitsExclusive'
<1>0. In(Tags) \subseteq Tags
  BY DEF In
<1>1. ASSUME NEW h \in Tags, NEW S \in SUBSET Authorized, member' = [member EXCEPT ![h] = InsertedRows(S)]
      PROVE  NoneActivated
  <2>1. \A r \in Rmas : InsertedRows(S)[r] # None => InsertedRows(S)[r].state = "draft"
    BY Inserted DEF TagInv, Present
  <2> QED  BY <1>1, <2>1, DraftsActivateNone
<1>2. ASSUME NEW g \in Tags, NEW S \in SUBSET Authorized, create_fault_tag_draft(g, S) PROVE NoneActivated
  BY <1>1, <1>2 DEF create_fault_tag_draft, InsertedRows
<1>3. ASSUME NEW g \in Tags, NEW h \in Tags, NEW S \in SUBSET Authorized, resend(g, h, S) PROVE NoneActivated
  BY <1>1, <1>3 DEF resend, InsertedRows
<1>4. ASSUME NEW g \in Tags, NEW S \in SUBSET Authorized, update_fault_tag_draft(g, S) PROVE NoneActivated
  <2> DEFINE rows == [r \in Rmas |-> IF r \notin S THEN None
                        ELSE [_insert_membership(r) EXCEPT !.history = member[g][r] # None /\ member[g][r].history]]
  <2>1. member' = [member EXCEPT ![g] = rows]
    BY <1>4 DEF update_fault_tag_draft
  <2>2. \A r \in Rmas : rows[r] # None => rows[r].state = "draft"
    BY DEF _insert_membership
  <2> HIDE DEF rows
  <2> QED  BY <2>1, <2>2, DraftsActivateNone
<1>5. ASSUME NEW g \in Tags, archive_or_restore(g) PROVE NoneActivated
  BY <1>5 DEF archive_or_restore, NoneActivated, Active
<1>6. ASSUME NEW g \in Tags, hard_delete_tag(g) PROVE NoneActivated
  <2> DEFINE rows == [r \in Rmas |-> None]
  <2>1. member' = [member EXCEPT ![g] = rows] /\ \A r \in Rmas : rows[r] = None
    BY <1>6 DEF hard_delete_tag
  <2> HIDE DEF rows
  <2> QED  BY <2>1, DraftsActivateNone
<1>7. CASE \E g \in In(Tags), e \in BOOLEAN : accept_fault_tag_submission(g, e)
  BY <1>0, <1>7, SubmissionExclusive
<1>8. CASE ~\E g \in In(Tags), e \in BOOLEAN : accept_fault_tag_submission(g, e)
  <2>1. NoneActivated
    BY <1>0, <1>2, <1>3, <1>4, <1>5, <1>6, <1>8, ReplacementActivatesNone DEF TagStep
  <2> QED  BY <2>1, NoneActivatedKeeps
<1> QED  BY <1>7, <1>8

LEMMA FalseSubmissionActivatesNone ==
    ASSUME TagInv, NEW g \in Tags, correct_false_fault_tag_submission(g)
    PROVE  NoneActivated
<1> DEFINE rows == [r \in Rmas |-> IF member[g][r] = None THEN None ELSE [member[g][r] EXCEPT !.state = "draft"]]
<1>1. member' = [member EXCEPT ![g] = rows]
  BY DEF correct_false_fault_tag_submission
<1>2. ASSUME NEW r \in Rmas, rows[r] # None PROVE rows[r].state = "draft"
  <2>1. member[g][r] \in Membership /\ "draft" \in MemberState
    BY <1>2, MemberRow DEF MemberState
  <2> QED  BY <1>2, <2>1, MemberEdits
<1> HIDE DEF rows
<1> QED  BY <1>1, <1>2, DraftsActivateNone

LEMMA UnitsExclusiveKept ==
    ASSUME ProposalInv, TagInv, UnitsExclusive, Next
    PROVE  UnitsExclusive'
<1>1. CASE TagStep
  BY <1>1, TagStepExclusive
<1>2. CASE WarehouseMoves
  BY <1>2, WarehouseActivatesNone, NoneActivatedKeeps
<1>3. CASE (StockStep /\ UNCHANGED tagVars) \/ OtherStep
  <2>1. CASE \E g \in Tags : correct_false_fault_tag_submission(g)
    BY <2>1, FalseSubmissionActivatesNone, NoneActivatedKeeps
  <2>2. CASE UNCHANGED member
    BY <2>2 DEF UnitsExclusive, Active
  <2> QED  BY <1>3, <2>1, <2>2
           DEF OtherStep, stockVars, tagVars, SubmissionTargets, correct_inventory_physical_consequence,
               hard_delete_untouched_unit, hard_delete_untouched_request
<1> QED  BY <1>1, <1>2, <1>3, Steps

(* A returned unit travels in one membership of one submitted tag, the one   *)
(* its RMA names, with the obligation it was submitted for, through          *)
(* submissions, warehouse moves, replacements and corrections                *)
(* (require_membership_eligible, _update_rma_fault_tag_projection,           *)
(* _validate_warehouse_target_authority).                                    *)
THEOREM ReturnsExclusive == Spec => []ExclusiveReturn
<1>1. Init => UnitsExclusive
  BY DEF Init, TagInit, UnitsExclusive, Active
<1>2. UnitsExclusive /\ ProposalInv /\ TagInv /\ [Next]_vars => UnitsExclusive'
  <2>1. ASSUME UnitsExclusive, UNCHANGED vars PROVE UnitsExclusive'
    BY <2>1 DEF vars, tagVars, UnitsExclusive, Active
  <2> QED  BY <2>1, UnitsExclusiveKept
<1>3. TagInv /\ UnitsExclusive => ExclusiveReturn
  <2> SUFFICES ASSUME TagInv, UnitsExclusive PROVE ExclusiveReturn
    OBVIOUS
  <2>1. \A g \in Tagged : \A r \in ActiveIn(g) : g \in Tags /\ r \in Rmas /\ Active(g, r)
    BY DEF Tagged, ActiveIn, MembersOf, Active
  <2>2. ASSUME NEW g \in Tagged, NEW r \in ActiveIn(g)
        PROVE  /\ rma[r].member = g /\ rma[r].obligation = "open"
               /\ obligation_authority(r) = [by |-> member[g][r].by, unit |-> member[g][r].unit]
    BY <2>1 DEF TagInv, Linked, LinkedMember, obligation_authority
  <2>3. ASSUME NEW r \in Authorized, rma[r].member # None PROVE r \in ActiveIn(rma[r].member)
    BY <2>3 DEF TagInv, Linked, LinkedRma, Active, ActiveIn, MembersOf, Authorized
  <2>4. ASSUME NEW g \in Tagged, NEW h \in Tagged, NEW r \in ActiveIn(g), NEW s \in ActiveIn(h),
               member[g][r].unit = member[h][s].unit
        PROVE  g = h /\ r = s
    BY <2>1, <2>4 DEF UnitsExclusive
  <2> QED  BY <2>2, <2>3, <2>4 DEF ExclusiveReturn
<1> QED  BY <1>1, <1>2, <1>3, TagInvariant, PTL DEF Spec

(* The counters and the terminal states of a tag are those of its members,   *)
(* whichever command decided, and exactly one acceptance closes an           *)
(* obligation (_rebuild_tag_projection, accept_fault_tag_submission,         *)
(* FinalRma, correct_false_fault_tag_submission, replacement).               *)
THEOREM TagsCounted == Spec => []TagCounters
<1>1. TagInv => TagCounters
  <2> SUFFICES ASSUME TagInv PROVE TagCounters
    OBVIOUS
  <2>1. ASSUME NEW g \in Tagged
        PROVE  /\ tag[g].receipt = Cardinality(InState(member[g], "submitted_awaiting_receipt"))
               /\ tag[g].final = Cardinality(InState(member[g], "warehouse_received"))
               /\ tag[g].accepted = Cardinality(InState(member[g], "accepted"))
               /\ tag[g].rejected = Cardinality(InState(member[g], "rejected"))
               /\ tag[g].submitted => tag[g].count = Cardinality(MembersOf(g))
               /\ tag[g].state \in {"terminal_completed", "terminal_with_rejected"} =>
                     ActiveIn(g) = {} /\ tag[g].accepted + tag[g].rejected = tag[g].count
    <3>1. tag[g] # None /\ TagOk(tag[g], member[g]) /\ MembersOf(g) = Present(member[g])
      BY TaggedRow, MembersPresent
    <3>2. Counted(tag[g], member[g]) /\ Finished(tag[g], member[g])
      BY <3>1 DEF TagOk
    <3>3. tag[g].state \in Terminal => ActiveIn(g) = {}
      BY <3>1, <3>2 DEF Finished, ActiveIn, ActiveMember, Decisions
    <3> QED  BY <3>1, <3>2, <3>3 DEF Counted, Finished, Terminal
  <2>2. ASSUME NEW r \in Authorized
        PROVE  Cardinality({g \in Tagged : r \in InState(member[g], "accepted")}) =
                  IF rma[r].obligation = "closed_accepted" THEN 1 ELSE 0
    <3> DEFINE A == {g \in Tagged : r \in InState(member[g], "accepted")}
    <3>1. r \in Rmas
      BY DEF Authorized
    <3>2. \A g : g \in A <=> g \in Tags /\ Accepted(g, r)
      BY <3>1, MemberRow DEF Tagged, InState, Accepted
    <3> HIDE DEF A
    <3>3. CASE rma[r].obligation = "closed_accepted"
      <4>1. PICK g \in Tags : Accepted(g, r)
        BY <3>3 DEF TagInv, AcceptedOnce
      <4>2. A = {g}
        BY <3>1, <3>2, <4>1 DEF TagInv, AcceptedOnce
      <4> QED  BY <3>3, <4>2, FS_Singleton DEF A
    <3>4. CASE rma[r].obligation # "closed_accepted"
      <4>1. A = {}
        BY <3>2, <3>4 DEF TagInv, AcceptedOnce
      <4> QED  BY <3>4, <4>1, FS_EmptySet DEF A
    <3> QED  BY <3>3, <3>4
  <2> QED  BY <2>1, <2>2 DEF TagCounters
<1> QED  BY <1>1, TagInvariant, PTL

-----------------------------------------------------------------------------
(* No command on tags changes what an RMA is for. *)

LEMMA RmasQuiet ==
    ASSUME UNCHANGED rma
    PROVE  RmasKept
BY DEF RmasKept, Authorized, SamePart

SameObligations == \A r \in Authorized : rma'[r].obligation = rma[r].obligation

LEMMA RelinkedKept ==
    ASSUME RmaType, NEW M \in SUBSET Authorized, NEW x \in Opt(Tags),
           rma' = [r \in Rmas |-> IF r \in M THEN _update_rma_fault_tag_projection(rma[r], x) ELSE rma[r]]
    PROVE  RmasKept /\ SameObligations
<1>1. \A r \in Authorized : r \notin M => rma'[r] = rma[r]
  BY DEF Authorized
<1> QED  BY <1>1, RmasRelinked DEF RmasKept, SamePart, SameObligation, SameObligations

LEMMA MembersKnown ==
    ASSUME TagInv, NEW g \in Tags
    PROVE  MembersOf(g) \in SUBSET Authorized /\ ActiveIn(g) \in SUBSET Authorized
BY DEF TagInv, MembersAuthorized, MembersOf, ActiveIn

LEMMA TagStepRmas ==
    ASSUME TagInv, TagStep
    PROVE  RmasKept /\ SameObligations
<1>0. In(Tags) \subseteq Tags /\ RmaType
  BY DEF In, TagInv
<1>1. ASSUME NEW g \in Tags, NEW e \in BOOLEAN, accept_fault_tag_submission(g, e)
      PROVE  RmasKept /\ SameObligations
  BY <1>0, <1>1, MembersKnown, RelinkedKept DEF accept_fault_tag_submission, Opt
<1>2. ASSUME NEW g \in Tags, NEW h \in Tags, NEW S, replacement(g, h, S) PROVE RmasKept /\ SameObligations
  BY <1>0, <1>2, MembersKnown, RelinkedKept DEF replacement, Opt
<1>3. UNCHANGED rma => SameObligations
  BY DEF SameObligations
<1> QED  BY <1>0, <1>1, <1>2, <1>3, RmasQuiet
         DEF TagStep, create_fault_tag_draft, update_fault_tag_draft, archive_or_restore, hard_delete_tag, resend,
             stockVars

LEMMA FalseSubmissionRmas ==
    ASSUME TagInv, NEW g \in Tags, correct_false_fault_tag_submission(g)
    PROVE  RmasKept /\ SameObligations
BY MembersKnown, RelinkedKept DEF correct_false_fault_tag_submission, TagInv, Opt

(* Units come and stay: only a hard delete takes one away. *)
LEMMA OneStocked ==
    ASSUME UnitType, NEW u \in Units, NEW row, row # None, unit' = [unit EXCEPT ![u] = row]
    PROVE  Stocked' = Stocked \cup {u}
BY DEF UnitType, Stocked

LEMMA ReservedStocked ==
    ASSUME UnitInv, NEW u \in Units, NEW t, NEW n, reserve_for_task(u, t, n)
    PROVE  Stocked' = Stocked
<1> DEFINE row == [unit[u] EXCEPT !.disposition = "reserved", !.held = TRUE]
<1>1. u \in Stocked /\ unit[u] \in Unit
  BY StockedUnit DEF reserve_for_task, CanReserve
<1>2. row # None
  BY <1>1, UnitEdits
<1>3. unit' = [unit EXCEPT ![u] = row]
  BY <1>1 DEF reserve_for_task, Unit
<1> HIDE DEF row
<1> QED  BY <1>1, <1>2, <1>3, OneStocked DEF UnitInv

LEMMA UnitStepStocks ==
    ASSUME UnitInv, UnitStep
    PROVE  Stocked \subseteq Stocked'
<1>1. ASSUME NEW u \in Units, NEW c \in UnitConditions, NEW o \in Origins, NEW r \in Opt(Rmas),
             NEW p \in Opt(Units), register_spare_part_unit(u, c, o, r, p)
      PROVE  Stocked \subseteq Stocked'
  BY <1>1, NewUnit, OneStocked DEF register_spare_part_unit, UnitInv
<1>2. ASSUME NEW u \in Units, NEW t, NEW n, reserve_spare_part_unit_for_task(u, t, n)
      PROVE  Stocked \subseteq Stocked'
  BY <1>2, ReservedStocked DEF reserve_spare_part_unit_for_task
<1>3. ASSUME NEW u \in Units, release_spare_part_unit_reservation(u) PROVE Stocked \subseteq Stocked'
  <2>1. u \in Stocked /\ unit[u] \in Unit
    BY <1>3, UnitMirrored, StockedUnit DEF Mirrored, release_spare_part_unit_reservation, release_reservation
  <2>2. Released(unit[u]) # None /\ unit' = [unit EXCEPT ![u] = Released(unit[u])]
    BY <1>3, <2>1, UnitEdits DEF release_spare_part_unit_reservation
  <2> QED  BY <2>2, OneStocked DEF UnitInv
<1>4. ASSUME NEW n, NEW u \in Units, NEW t, record_local_need_fulfillment_selection(n, u, t)
      PROVE  Stocked \subseteq Stocked'
  <2>1. CASE t = None
    BY <1>4, <2>1 DEF record_local_need_fulfillment_selection, Stocked
  <2>2. CASE t # None
    BY <1>4, <2>2, ReservedStocked DEF record_local_need_fulfillment_selection
  <2> QED  BY <2>1, <2>2
<1>5. ASSUME NEW t, NEW t2, NEW U, apply_retry_relationship_clone(t, t2, U) PROVE Stocked \subseteq Stocked'
  BY <1>5 DEF apply_retry_relationship_clone, Stocked
<1> QED  BY <1>1, <1>2, <1>3, <1>4, <1>5 DEF UnitStep, In, Opt

LEMMA ConsequenceStocks ==
    ASSUME UnitInv, NEW t \in Tasks, NEW c \in Outcomes, accept_inventory_physical_consequence(t, c)
    PROVE  Stocked' = Stocked
<1>1. Marked(c) \subseteq Stocked
  BY DEF accept_inventory_physical_consequence, NamesExist, Marked, Opt
<1>2. ASSUME NEW u \in Marked(c) PROVE unit'[u] # None
  <2> DEFINE d == IF u = c.installed THEN "installed" ELSE "dismantled"
  <2>1. u \in Units /\ unit[u] \in Unit
    BY <1>1, StockedUnit
  <2>2. unit'[u] = [unit[u] EXCEPT !.held = FALSE, !.disposition = d]
    BY <2>1 DEF accept_inventory_physical_consequence
  <2>3. d \in {"installed", "dismantled"}
    OBVIOUS
  <2> HIDE DEF d
  <2>4. unit'[u] \in Unit
    BY <2>1, <2>2, <2>3 DEF Unit
  <2> QED  BY <2>4, StockAssumption
<1>3. ASSUME NEW u \in Units, u \notin Marked(c) PROVE unit'[u] = unit[u]
  BY <1>3 DEF accept_inventory_physical_consequence
<1> QED  BY <1>1, <1>2, <1>3 DEF Stocked

LEMMA AttachedStocks ==
    ASSUME UnitInv, NEW u \in Units, NEW r \in Rmas, attach_origin_rma(u, r)
    PROVE  Stocked' = Stocked
<1> DEFINE row == [unit[u] EXCEPT !.rma = r]
<1>1. u \in Stocked /\ unit[u] \in Unit
  BY StockedUnit DEF attach_origin_rma
<1>2. row # None
  BY <1>1, UnitEdits
<1>3. unit' = [unit EXCEPT ![u] = row]
  BY DEF attach_origin_rma
<1> HIDE DEF row
<1> QED  BY <1>1, <1>2, <1>3, OneStocked DEF UnitInv

-----------------------------------------------------------------------------
(* The part an RMA replaces and the unit it brings. *)

PartInv ==
    /\ \A r \in Authorized : rma[r].inbound \in Opt(Stocked)
    /\ TargetExclusive

LEMMA PartsKept ==
    ASSUME PartInv, RmasKept, Stocked \subseteq Stocked'
    PROVE  PartInv'
<1>1. \A r \in Authorized : rma'[r].target = rma[r].target /\ rma'[r].inbound = rma[r].inbound
  BY DEF RmasKept, SamePart
<1>2. Authorized' = Authorized
  BY DEF RmasKept
<1>3. \A r \in Authorized : rma'[r].inbound \in Opt(Stocked')
  BY <1>1 DEF PartInv, Opt
<1>4. TargetExclusive'
  BY <1>1, <1>2 DEF PartInv, TargetExclusive
<1> QED  BY <1>2, <1>3, <1>4 DEF PartInv, Opt

(* A step that writes one RMA. *)
LEMMA OnePart ==
    ASSUME RmaType, PartInv, NEW r \in Authorized, NEW row \in RmaRow, rma' = [rma EXCEPT ![r] = row],
           Stocked \subseteq Stocked', row.inbound \in Opt(Stocked'),
           row.target # None => \A s \in Authorized : s # r => rma[s].target # row.target,
           row.inbound # None => \A s \in Authorized : s # r => rma[s].inbound # row.inbound
    PROVE  PartInv'
<1>1. row # None /\ r \in Rmas
  BY TagAssumption, AuthorizedRow
<1>2. rma'[r] = row /\ \A s \in Rmas : s # r => rma'[s] = rma[s]
  BY <1>1 DEF RmaType
<1>3. Authorized' = Authorized /\ Authorized \subseteq Rmas
  BY <1>1, <1>2 DEF Authorized
<1>4. \A s \in Authorized : rma'[s].inbound \in Opt(Stocked')
  BY <1>2, <1>3 DEF PartInv, Opt
<1>5. ASSUME NEW x \in Authorized, NEW y \in Authorized, x # y
      PROVE  /\ rma'[x].target = rma'[y].target => rma'[x].target = None
             /\ rma'[x].inbound = rma'[y].inbound => rma'[x].inbound = None
  <2>1. CASE x # r /\ y # r
    BY <1>2, <1>3, <1>5, <2>1 DEF PartInv, TargetExclusive
  <2>2. CASE x = r
    BY <1>2, <1>3, <1>5, <2>2
  <2>3. CASE y = r
    BY <1>2, <1>3, <1>5, <2>3
  <2> QED  BY <2>1, <2>2, <2>3
<1>6. TargetExclusive'
  BY <1>3, <1>5 DEF TargetExclusive
<1> QED  BY <1>3, <1>4, <1>6 DEF PartInv, Opt

LEMMA BatchParts ==
    ASSUME RmaType, PartInv, NEW q \in Requests, NEW batch \in SUBSET Rmas, NEW c10 \in Injection(batch, C10s),
           accept_rma_authorization_batch(q, batch, c10)
    PROVE  PartInv'
<1>1. Stocked' = Stocked
  BY DEF accept_rma_authorization_batch, Stocked
<1>2. /\ Authorized' = Authorized \cup batch /\ batch \cap Authorized = {}
      /\ \A r \in Authorized : rma'[r] = rma[r]
      /\ \A r \in batch : rma'[r].inbound = None /\ rma'[r].target = _eligible_target(q, batch, r)
  BY BatchRows
<1>3. ASSUME NEW r \in batch, NEW s \in Authorized, rma'[r].target # None PROVE rma'[r].target # rma'[s].target
  <2>1. rma'[r].target \in EligibleTargets(q, BomOf[r])
    BY <1>2, <1>3, BatchTarget
  <2> QED  BY <1>2, <2>1, EligibleSet
<1>4. ASSUME NEW x \in Authorized', NEW y \in Authorized', x # y, rma'[x].target = rma'[y].target
      PROVE  rma'[x].target = None
  <2>1. CASE x \in Authorized /\ y \in Authorized
    BY <1>2, <1>4, <2>1 DEF PartInv, TargetExclusive
  <2>2. CASE x \in batch /\ y \in batch
    BY <1>2, <1>4, <2>2, BatchTargetsDiffer
  <2>3. CASE x \in batch /\ y \in Authorized
    BY <1>3, <1>4, <2>3
  <2>4. CASE x \in Authorized /\ y \in batch
    BY <1>3, <1>4, <2>4
  <2> QED  BY <1>2, <2>1, <2>2, <2>3, <2>4
<1>5. ASSUME NEW x \in Authorized', NEW y \in Authorized', x # y, rma'[x].inbound = rma'[y].inbound
      PROVE  rma'[x].inbound = None
  BY <1>2, <1>5 DEF PartInv, TargetExclusive
<1>6. \A r \in Authorized' : rma'[r].inbound \in Opt(Stocked')
  BY <1>1, <1>2 DEF PartInv, Opt
<1> QED  BY <1>4, <1>5, <1>6 DEF PartInv, TargetExclusive, Opt

LEMMA RmaStepParts ==
    ASSUME UnitInv, RmaType, PartInv, RmaStep
    PROVE  PartInv'
<1>1. ASSUME NEW r \in Rmas, NEW c \in C10s, correct_rma_official_id(r, c) PROVE PartInv'
  <2> DEFINE row == [rma[r] EXCEPT !.c10 = c]
  <2>1. r \in Authorized /\ rma[r] \in RmaRow /\ Stocked' = Stocked
    BY <1>1, AuthorizedRow DEF correct_rma_official_id, Stocked
  <2>2. row \in RmaRow /\ row.target = rma[r].target /\ row.inbound = rma[r].inbound
    BY <2>1, RmaRowEdits DEF SamePart
  <2>3. rma' = [rma EXCEPT ![r] = row]
    BY <1>1 DEF correct_rma_official_id
  <2> HIDE DEF row
  <2>4. /\ row.inbound \in Opt(Stocked')
        /\ row.target # None => \A s \in Authorized : s # r => rma[s].target # row.target
        /\ row.inbound # None => \A s \in Authorized : s # r => rma[s].inbound # row.inbound
    BY <2>1, <2>2 DEF PartInv, TargetExclusive
  <2> QED  BY <2>1, <2>2, <2>3, <2>4, OnePart
<1>2. ASSUME NEW r \in Rmas, NEW d \in Opt(Devices), set_rma_target_assignment(r, d) PROVE PartInv'
  <2> DEFINE row == [rma[r] EXCEPT !.target = d]
  <2>1. r \in Authorized /\ rma[r] \in RmaRow /\ Stocked' = Stocked
    BY <1>2, AuthorizedRow DEF set_rma_target_assignment, Stocked
  <2>2. row \in RmaRow /\ row.target = d /\ row.inbound = rma[r].inbound
    BY <2>1, RmaRowEdits
  <2>3. rma' = [rma EXCEPT ![r] = row] /\ (d # None => d \in EligibleTargets(rma[r].request, BomOf[r]))
    BY <1>2 DEF set_rma_target_assignment
  <2> HIDE DEF row
  <2>4. /\ row.inbound \in Opt(Stocked')
        /\ row.inbound # None => \A s \in Authorized : s # r => rma[s].inbound # row.inbound
    BY <2>1, <2>2 DEF PartInv, TargetExclusive
  <2>5. row.target # None => \A s \in Authorized : s # r => rma[s].target # row.target
    BY <2>2, <2>3, EligibleSet
  <2> QED  BY <2>1, <2>2, <2>3, <2>4, <2>5, OnePart
<1>3. ASSUME NEW r \in Rmas, NEW u \in Units, NEW c \in UnitConditions, record_rma_inbound_receipt(r, u, c)
      PROVE  PartInv'
  <2> DEFINE row == [rma[r] EXCEPT !.inbound = u, !.state = "received"]
             new == SparePartUnit(c, "direct_rma_receipt", r, None)
  <2>1. r \in Authorized /\ rma[r] \in RmaRow /\ u \notin Stocked
    BY <1>3, AuthorizedRow DEF record_rma_inbound_receipt
  <2>2. row \in RmaRow /\ row.target = rma[r].target /\ row.inbound = u
    BY <2>1, RmaRowEdits
  <2>3. rma' = [rma EXCEPT ![r] = row] /\ unit' = [unit EXCEPT ![u] = new]
    BY <1>3, <2>1 DEF record_rma_inbound_receipt, RmaRow
  <2>4. new # None
    BY NewUnit DEF Opt
  <2> HIDE DEF row, new
  <2>5. Stocked' = Stocked \cup {u}
    BY <2>3, <2>4, OneStocked DEF UnitInv
  <2>6. \A s \in Authorized : rma[s].inbound # u
    BY <2>1, StockAssumption DEF PartInv, Opt
  <2>7. row.target # None => \A s \in Authorized : s # r => rma[s].target # row.target
    BY <2>1, <2>2 DEF PartInv, TargetExclusive
  <2> QED  BY <2>1, <2>2, <2>3, <2>5, <2>6, <2>7, OnePart DEF Opt
<1>4. \A batch \in SUBSET Rmas : Injection(batch, In(C10s)) \subseteq Injection(batch, C10s)
  BY DEF Injection, IsInjective, In
<1>5. In(Rmas) \subseteq Rmas /\ In(Units) \subseteq Units /\ In(Requests) \subseteq Requests /\ In(C10s) \subseteq C10s
      /\ Opt(In(Devices)) \subseteq Opt(Devices)
  BY DEF In, Opt
<1>6. CASE \E q \in In(Requests), batch \in (SUBSET In(Rmas)) \ {{}} :
              \E c10 \in Injection(batch, In(C10s)) : accept_rma_authorization_batch(q, batch, c10)
  <2>1. PICK q \in In(Requests), batch \in (SUBSET In(Rmas)) \ {{}} :
              \E c10 \in Injection(batch, In(C10s)) : accept_rma_authorization_batch(q, batch, c10)
    BY <1>6
  <2>2. q \in Requests /\ batch \in SUBSET Rmas
    BY <1>5
  <2>3. PICK c10 \in Injection(batch, C10s) : accept_rma_authorization_batch(q, batch, c10)
    BY <1>4, <2>1, <2>2
  <2> QED  BY <2>2, <2>3, BatchParts
<1>7. CASE \E r \in In(Rmas), c \in In(C10s) : correct_rma_official_id(r, c)
  BY <1>1, <1>5, <1>7
<1>8. CASE \E r \in In(Rmas), d \in Opt(In(Devices)) : set_rma_target_assignment(r, d)
  BY <1>2, <1>5, <1>8
<1>9. CASE \E r \in In(Rmas), u \in In(Units), c \in UnitConditions : record_rma_inbound_receipt(r, u, c)
  BY <1>3, <1>5, <1>9
<1> QED  BY <1>6, <1>7, <1>8, <1>9 DEF RmaStep

LEMMA OpenedReturnKept ==
    ASSUME UnitInv, RmaType, PartInv, ConsequenceStep
    PROVE  PartInv'
<1>1. PICK t \in Tasks, c \in Outcomes : accept_inventory_physical_consequence(t, c)
  BY DEF ConsequenceStep, In
<1>2. Stocked' = Stocked
  BY <1>1, ConsequenceStocks
<1>3. CASE c.rma = None \/ ReturnSelection(c) = None
  BY <1>1, <1>2, <1>3, RmasQuiet, PartsKept DEF accept_inventory_physical_consequence, OpenReturn
<1>4. CASE c.rma # None /\ ReturnSelection(c) # None
  <2> DEFINE r == c.rma
             row == OpenedRow(rma[r], c, t)
  <2>1. r \in Authorized /\ row \in RmaRow /\ rma' = [rma EXCEPT ![r] = row] /\ SamePart(rma[r], row)
    BY <1>1, <1>4, OpenedReturn
  <2> HIDE DEF row, r
  <2>2. /\ row.inbound \in Opt(Stocked')
        /\ row.target # None => \A s \in Authorized : s # r => rma[s].target # row.target
        /\ row.inbound # None => \A s \in Authorized : s # r => rma[s].inbound # row.inbound
    BY <1>2, <2>1 DEF PartInv, TargetExclusive, SamePart
  <2> QED  BY <1>2, <2>1, <2>2, OnePart
<1> QED  BY <1>3, <1>4

LEMMA AllPartsKept ==
    ASSUME ProposalInv, UnitInv, TagInv, PartInv, Next
    PROVE  PartInv'
<1>0. RmaType
  BY DEF TagInv
<1>1. CASE NeedStep \/ RequestStep \/ LogisticsStep
  BY <1>1, NeedFrame, RequestFrame, LogisticsFrame, RmasQuiet, PartsKept DEF Stocked
<1>2. CASE UnitStep
  BY <1>2, UnitFrame, UnitStepStocks, RmasQuiet, PartsKept
<1>3. CASE RmaStep \/ ConsequenceStep
  BY <1>0, <1>3, RmaStepParts, OpenedReturnKept
<1>4. CASE TagStep
  BY <1>4, TagFrame, TagStepRmas, PartsKept DEF Stocked
<1>5. CASE WarehouseMoves
  BY <1>5, WarehouseMovesFrame, WarehouseMovesKeep, PartsKept DEF Stocked
<1>6. CASE OtherStep
  <2>1. CASE UNCHANGED <<rma, unit>>
    BY <2>1, RmasQuiet, PartsKept DEF Stocked
  <2>2. ASSUME NEW u \in Units, NEW r \in Rmas, attach_origin_rma(u, r) PROVE PartInv'
    BY <2>2, AttachedStocks, RmasQuiet, PartsKept DEF attach_origin_rma
  <2>3. ASSUME NEW g \in Tags, correct_false_fault_tag_submission(g) PROVE PartInv'
    BY <2>3, FalseSubmissionRmas, PartsKept DEF correct_false_fault_tag_submission, Stocked
  <2>4. ASSUME NEW u \in Units, hard_delete_untouched_unit(u) PROVE PartInv'
    <3>1. /\ unit' = [unit EXCEPT ![u] = None] /\ rma' = rma /\ \A r \in Authorized : rma[r].inbound # u
      BY <2>4 DEF hard_delete_untouched_unit, hard_delete_unit, _delete_rows, UnitDeletable, UnitHeldByRma
    <3>2. Stocked \ {u} \subseteq Stocked' /\ Authorized' = Authorized
      BY <3>1 DEF Stocked, Authorized, UnitInv, UnitType
    <3> QED  BY <3>1, <3>2 DEF PartInv, TargetExclusive, Opt
  <2> QED  BY <1>6, <2>1, <2>2, <2>3, <2>4
           DEF OtherStep, stockVars, SubmissionTargets, correct_inventory_physical_consequence,
               correct_physical_consequence, hard_delete_untouched_request, hard_delete_request, _delete_rows
<1> QED  BY <1>1, <1>2, <1>3, <1>4, <1>5, <1>6, Steps DEF StockStep

LEMMA PartInvariant == Spec => []PartInv
<1>1. Init => PartInv
  BY DEF Init, StockInit, PartInv, TargetExclusive, Authorized
<1>2. (ProposalInv /\ UnitInv) /\ (ProposalInv /\ TagInv) /\ PartInv /\ [Next]_vars => PartInv'
  <2>1. ASSUME PartInv, UNCHANGED vars PROVE PartInv'
    BY <2>1, RmasQuiet, PartsKept DEF vars, stockVars, Stocked
  <2> QED  BY <2>1, AllPartsKept
<1> QED  BY <1>1, <1>2, UnitInvariant, TagInvariant, PTL DEF Spec

(* No part of a customer's device is to be replaced under two RMAs, whether  *)
(* responses assign them in batches or a user moves them, and no two RMAs    *)
(* bring one unit (_eligible_target, set_rma_target_assignment,              *)
(* record_rma_inbound_receipt).                                              *)
THEOREM TargetsExclusive == Spec => []TargetExclusive
<1>1. PartInv => TargetExclusive
  BY DEF PartInv
<1> QED  BY <1>1, PartInvariant, PTL

-----------------------------------------------------------------------------
(* The rows of the attention projection the properties are about. *)

OpenKey(r) == <<"return_obligation_open", r>>
PendingKey(g, r) == <<"warehouse_final_decision_pending", g, r>>
PartialKey(q) == <<"partial_rma_authorization", q>>
OtherKeys == {<<"rma_assignment_conflict", r>> : r \in Rmas}
             \cup {<<"warehouse_rejected_resend_required", x[1], x[2]>> : x \in Tags \X Rmas}

LEMMA KeysDiffer ==
    /\ \A r, s : OpenKey(r) = OpenKey(s) => r = s
    /\ \A g, r, h, s : PendingKey(g, r) = PendingKey(h, s) => g = h /\ r = s
    /\ \A q, p : PartialKey(q) = PartialKey(p) => q = p
    /\ \A r, g, s, q : OpenKey(r) # PendingKey(g, s) /\ OpenKey(r) # PartialKey(q) /\ PendingKey(g, s) # PartialKey(q)
    /\ \A r, g, s, q : OpenKey(r) \notin OtherKeys /\ PendingKey(g, s) \notin OtherKeys /\ PartialKey(q) \notin OtherKeys
<1>1. /\ \A r, s : OpenKey(r) = OpenKey(s) => r = s
      /\ \A g, r, h, s : PendingKey(g, r) = PendingKey(h, s) => g = h /\ r = s
      /\ \A q, p : PartialKey(q) = PartialKey(p) => q = p
  BY DEF OpenKey, PendingKey, PartialKey
<1>2. \A r, g, s, q : OpenKey(r) # PendingKey(g, s) /\ OpenKey(r) # PartialKey(q) /\ PendingKey(g, s) # PartialKey(q)
  BY DEF OpenKey, PendingKey, PartialKey
<1>3. \A r, g, s, q : OpenKey(r) \notin OtherKeys /\ PendingKey(g, s) \notin OtherKeys /\ PartialKey(q) \notin OtherKeys
  BY DEF OpenKey, PendingKey, PartialKey, OtherKeys
<1> QED  BY <1>1, <1>2, <1>3

LEMMA RmaAttention ==
    ASSUME NEW att, NEW r \in Rmas, NEW row
    PROVE  LET new == rebuild_rma_attention(att, r, row)
           IN  /\ OpenKey(r) \in new <=> row.obligation = "open"
               /\ \A s : s # r => (OpenKey(s) \in new <=> OpenKey(s) \in att)
               /\ \A g, s : PendingKey(g, s) \in new <=> PendingKey(g, s) \in att
               /\ \A q : PartialKey(q) \in new <=> PartialKey(q) \in att
<1> DEFINE k == <<"rma_assignment_conflict", r>>
           mid == Attend(att, k, row.target = None /\ row.state # "closed_accepted")
           new == Attend(mid, OpenKey(r), row.obligation = "open")
<1>1. rebuild_rma_attention(att, r, row) = new
  BY DEF rebuild_rma_attention, OpenKey
<1>2. k \in OtherKeys
  BY DEF OtherKeys
<1>3. \A x : x \notin OtherKeys => (x \in mid <=> x \in att)
  BY <1>2 DEF Attend
<1>4. OpenKey(r) \in new <=> row.obligation = "open"
  BY DEF Attend
<1>5. \A x : x # OpenKey(r) => (x \in new <=> x \in mid)
  BY DEF Attend
<1> HIDE DEF mid, new
<1> QED  BY <1>1, <1>3, <1>4, <1>5, KeysDiffer

LEMMA RequestAttention ==
    ASSUME NEW att, NEW q, NEW row
    PROVE  LET new == rebuild_request_attention(att, q, row)
           IN  /\ PartialKey(q) \in new <=> row.state = "partially_authorized"
               /\ \A p : p # q => (PartialKey(p) \in new <=> PartialKey(p) \in att)
               /\ \A g, s : PendingKey(g, s) \in new <=> PendingKey(g, s) \in att
               /\ \A r : OpenKey(r) \in new <=> OpenKey(r) \in att
<1> DEFINE new == Attend(att, PartialKey(q), row.state = "partially_authorized")
<1>1. rebuild_request_attention(att, q, row) = new
  BY DEF rebuild_request_attention, PartialKey
<1>2. PartialKey(q) \in new <=> row.state = "partially_authorized"
  BY DEF Attend
<1>3. \A x : x # PartialKey(q) => (x \in new <=> x \in att)
  BY DEF Attend
<1> HIDE DEF new
<1> QED  BY <1>1, <1>2, <1>3, KeysDiffer

LEMMA RmasAttention ==
    ASSUME NEW att, NEW R \in SUBSET Rmas, NEW rmas
    PROVE  LET new == rebuild_rmas_attention(att, R, rmas)
           IN  /\ \A r \in R : OpenKey(r) \in new <=> rmas[r].obligation = "open"
               /\ \A r : r \notin R => (OpenKey(r) \in new <=> OpenKey(r) \in att)
               /\ \A g, s : PendingKey(g, s) \in new <=> PendingKey(g, s) \in att
               /\ \A q : PartialKey(q) \in new <=> PartialKey(q) \in att
<1> DEFINE conflict == {r \in R : rmas[r].target = None /\ rmas[r].state # "closed_accepted"}
           open == {r \in R : rmas[r].obligation = "open"}
           C1 == {<<"rma_assignment_conflict", r>> : r \in R \ conflict}
           C2 == {<<"rma_assignment_conflict", r>> : r \in conflict}
           O1 == {OpenKey(r) : r \in R \ open}
           O2 == {OpenKey(r) : r \in open}
           new == (att \ (C1 \cup O1)) \cup C2 \cup O2
<1>1. rebuild_rmas_attention(att, R, rmas) = new
  BY DEF rebuild_rmas_attention, OpenKey
<1>2. C1 \subseteq OtherKeys /\ C2 \subseteq OtherKeys
  BY DEF OtherKeys
<1>3. \A r : /\ OpenKey(r) \in O1 <=> r \in R \ open
             /\ OpenKey(r) \in O2 <=> r \in open
  BY KeysDiffer
<1>4. \A x : (\A r : x # OpenKey(r)) => x \notin O1 /\ x \notin O2
  OBVIOUS
<1> HIDE DEF C1, C2, O1, O2
<1>5. \A x : x \notin OtherKeys => (x \in new <=> (x \in att /\ x \notin O1) \/ x \in O2)
  BY <1>2
<1> HIDE DEF new
<1>6. \A r : OpenKey(r) \in new <=> (OpenKey(r) \in att /\ r \notin R \ open) \/ r \in open
  BY <1>3, <1>5, KeysDiffer
<1>7. \A g, s : PendingKey(g, s) \in new <=> PendingKey(g, s) \in att
  BY <1>4, <1>5, KeysDiffer
<1>8. \A q : PartialKey(q) \in new <=> PartialKey(q) \in att
  BY <1>4, <1>5, KeysDiffer
<1> QED  BY <1>1, <1>6, <1>7, <1>8

(* What a rebuild of the memberships T does to the rows the properties are about. *)
MembershipsRebuilt(new, att, T, members, rmas) ==
    /\ \A r \in Rmas : (\E g \in Tags : <<g, r>> \in T) => (OpenKey(r) \in new <=> rmas[r].obligation = "open")
    /\ \A r \in Rmas : (\A g \in Tags : <<g, r>> \notin T) => (OpenKey(r) \in new <=> OpenKey(r) \in att)
    /\ \A g \in Tags, r \in Rmas :
          <<g, r>> \in T => (PendingKey(g, r) \in new <=> members[g][r].state = "warehouse_received")
    /\ \A g \in Tags, r \in Rmas :
          <<g, r>> \notin T => (PendingKey(g, r) \in new <=> PendingKey(g, r) \in att)
    /\ \A q : PartialKey(q) \in new <=> PartialKey(q) \in att

LEMMA MembershipAttention ==
    ASSUME NEW att, NEW T \in SUBSET (Tags \X Rmas), NEW members, NEW rmas, NEW lin
    PROVE  MembershipsRebuilt(rebuild_fault_tag_membership_attention(att, T, members, rmas, lin),
                              att, T, members, rmas)
<1> DEFINE P(x) == members[x[1]][x[2]].state = "warehouse_received"
           Q(x) == /\ members[x[1]][x[2]].state = "rejected" /\ rmas[x[2]].obligation = "open"
                   /\ ~HasResend(lin, members, x[1], x[2])
           pending == {x \in T : P(x)}
           again == {x \in T : Q(x)}
           P1 == {PendingKey(x[1], x[2]) : x \in T}
           P2 == {PendingKey(x[1], x[2]) : x \in pending}
           R1 == {<<"warehouse_rejected_resend_required", x[1], x[2]>> : x \in T}
           R2 == {<<"warehouse_rejected_resend_required", x[1], x[2]>> : x \in again}
           own == (att \ (P1 \cup R1)) \cup P2 \cup R2
           R == {x[2] : x \in T}
<1>1. rebuild_fault_tag_membership_attention(att, T, members, rmas, lin) = rebuild_rmas_attention(own, R, rmas)
  BY DEF rebuild_fault_tag_membership_attention, PendingKey
<1>2. \A x \in T : x = <<x[1], x[2]>> /\ x[1] \in Tags /\ x[2] \in Rmas
  OBVIOUS
<1>3. R1 \subseteq OtherKeys /\ R2 \subseteq OtherKeys
  BY <1>2 DEF OtherKeys
<1>4. ASSUME NEW g \in Tags, NEW r \in Rmas
      PROVE  /\ PendingKey(g, r) \in P1 <=> <<g, r>> \in T
             /\ PendingKey(g, r) \in P2 <=> <<g, r>> \in T /\ P(<<g, r>>)
  <2>1. \A x \in T : PendingKey(g, r) = PendingKey(x[1], x[2]) <=> x = <<g, r>>
    BY <1>2, KeysDiffer
  <2> HIDE DEF P
  <2> QED  BY <2>1
<1>5. \A x : (\A g, r : x # PendingKey(g, r)) => x \notin P1 /\ x \notin P2
  OBVIOUS
<1>6. /\ R \in SUBSET Rmas
      /\ \A r \in Rmas : r \in R <=> \E g \in Tags : <<g, r>> \in T
  <2>1. ASSUME NEW r \in R PROVE r \in Rmas /\ \E g \in Tags : <<g, r>> \in T
    BY <1>2
  <2>2. ASSUME NEW r \in Rmas, NEW g \in Tags, <<g, r>> \in T PROVE r \in R
    <3>1. <<g, r>>[2] = r
      OBVIOUS
    <3> QED  BY <2>2, <3>1
  <2> QED  BY <2>1, <2>2
<1> HIDE DEF P1, P2, R1, R2, R
<1>7. \A x : x \notin OtherKeys => (x \in own <=> (x \in att /\ x \notin P1) \/ x \in P2)
  BY <1>3
<1> HIDE DEF own
<1>8. \A r : OpenKey(r) \in own <=> OpenKey(r) \in att
  BY <1>5, <1>7, KeysDiffer
<1>9. \A q : PartialKey(q) \in own <=> PartialKey(q) \in att
  BY <1>5, <1>7, KeysDiffer
<1>10. ASSUME NEW g \in Tags, NEW r \in Rmas
       PROVE  /\ <<g, r>> \in T => (PendingKey(g, r) \in own <=> members[g][r].state = "warehouse_received")
              /\ <<g, r>> \notin T => (PendingKey(g, r) \in own <=> PendingKey(g, r) \in att)
  <2>1. P(<<g, r>>) <=> members[g][r].state = "warehouse_received"
    OBVIOUS
  <2> HIDE DEF P
  <2> QED  BY <1>4, <1>7, <2>1, KeysDiffer
<1> DEFINE new == rebuild_rmas_attention(own, R, rmas)
<1>11. /\ \A r \in R : OpenKey(r) \in new <=> rmas[r].obligation = "open"
       /\ \A r : r \notin R => (OpenKey(r) \in new <=> OpenKey(r) \in own)
       /\ \A g, s : PendingKey(g, s) \in new <=> PendingKey(g, s) \in own
       /\ \A q : PartialKey(q) \in new <=> PartialKey(q) \in own
  BY <1>6, RmasAttention
<1> HIDE DEF new
<1>12. \A r \in Rmas : (\A g \in Tags : <<g, r>> \notin T) => (OpenKey(r) \in new <=> OpenKey(r) \in att)
  BY <1>6, <1>8, <1>11
<1>13. \A r \in Rmas : (\E g \in Tags : <<g, r>> \in T) => (OpenKey(r) \in new <=> rmas[r].obligation = "open")
  BY <1>6, <1>11
<1> QED  BY <1>1, <1>9, <1>10, <1>11, <1>12, <1>13 DEF new, MembershipsRebuilt

-----------------------------------------------------------------------------
(* Open returns: where they are shown and the consequence they come from. *)

ObligationShown == \A r \in Rmas : OpenKey(r) \in attention <=> r \in Authorized /\ rma[r].obligation = "open"

Grounded(r) ==
    rma[r].obligation # "not_established" =>
        /\ rma[r].by \in Reviewed /\ outcome[rma[r].by].rma = r
        /\ ReturnSelection(outcome[rma[r].by]) = rma[r].returned

ObligationGrounded ==
    /\ \A r \in Authorized : Grounded(r)
    /\ \A t \in Reviewed : outcome[t].rma \in Opt(Authorized)

Waiting(g, r) == member[g][r] # None /\ member[g][r].state = "warehouse_received"

DecisionShown == \A g \in Tags, r \in Rmas : Waiting(g, r) => PendingKey(g, r) \in attention

ShownInv == ObligationShown /\ ObligationGrounded /\ DecisionShown

LEMMA GroundedKept ==
    ASSUME ObligationGrounded, RmasKept, UNCHANGED outcome
    PROVE  ObligationGrounded'
<1>1. Authorized' = Authorized /\ Reviewed' = Reviewed
  BY DEF RmasKept, Reviewed
<1>2. ASSUME NEW r \in Authorized PROVE Grounded(r)'
  BY <1>1 DEF ObligationGrounded, Grounded, RmasKept
<1> QED  BY <1>1, <1>2 DEF ObligationGrounded

LEMMA ObligationsQuiet ==
    ASSUME ObligationShown, RmasKept, SameObligations, UNCHANGED attention
    PROVE  ObligationShown'
BY DEF ObligationShown, RmasKept, SameObligations

LEMMA DecisionsQuiet ==
    ASSUME DecisionShown, \A g \in Tags, r \in Rmas : Waiting(g, r)' => Waiting(g, r),
           \A g \in Tags, r \in Rmas : PendingKey(g, r) \in attention => PendingKey(g, r) \in attention'
    PROVE  DecisionShown'
BY DEF DecisionShown

LEMMA ShownQuiet ==
    ASSUME ShownInv, UNCHANGED <<rma, outcome, attention, member>>
    PROVE  ShownInv'
<1>1. RmasKept /\ SameObligations
  BY RmasQuiet DEF SameObligations
<1>2. \A g \in Tags, r \in Rmas : Waiting(g, r)' => Waiting(g, r)
  BY DEF Waiting
<1> QED  BY <1>1, <1>2, GroundedKept, ObligationsQuiet, DecisionsQuiet DEF ShownInv

LEMMA BatchShown ==
    ASSUME RmaType, ShownInv, NEW q \in Requests, NEW batch \in SUBSET Rmas, NEW c10 \in Injection(batch, C10s),
           accept_rma_authorization_batch(q, batch, c10), UNCHANGED <<outcome, member>>
    PROVE  ShownInv'
<1>1. /\ Authorized' = Authorized \cup batch /\ batch \cap Authorized = {}
      /\ \A r \in Authorized : rma'[r] = rma[r]
      /\ \A r \in batch : rma'[r].obligation = "not_established"
  BY BatchRows
<1> DEFINE mid == rebuild_request_attention(attention, q, request'[q])
           more == {<<"rma_assignment_conflict", r>> : r \in {x \in batch : rma'[x].target = None}}
<1>2. attention' = mid \cup more
  BY DEF accept_rma_authorization_batch
<1>3. more \subseteq OtherKeys
  BY DEF OtherKeys
<1>4. /\ \A g, s : PendingKey(g, s) \in mid <=> PendingKey(g, s) \in attention
      /\ \A r : OpenKey(r) \in mid <=> OpenKey(r) \in attention
  BY RequestAttention
<1> HIDE DEF mid, more
<1>5. /\ \A g, s : PendingKey(g, s) \in attention' <=> PendingKey(g, s) \in attention
      /\ \A r : OpenKey(r) \in attention' <=> OpenKey(r) \in attention
  BY <1>2, <1>3, <1>4, KeysDiffer
<1>6. ObligationShown'
  BY <1>1, <1>5 DEF ShownInv, ObligationShown, Authorized
<1>7. ObligationGrounded'
  <2>1. Reviewed' = Reviewed
    BY DEF Reviewed
  <2>2. ASSUME NEW r \in Authorized' PROVE Grounded(r)'
    BY <1>1, <2>1 DEF ShownInv, ObligationGrounded, Grounded
  <2> QED  BY <1>1, <2>1, <2>2 DEF ShownInv, ObligationGrounded, Opt
<1>8. DecisionShown'
  BY <1>5, DecisionsQuiet DEF ShownInv, Waiting
<1> QED  BY <1>6, <1>7, <1>8 DEF ShownInv

LEMMA OneShown ==
    ASSUME RmaType, ShownInv, NEW r \in Authorized, NEW row \in RmaRow, rma' = [rma EXCEPT ![r] = row],
           UNCHANGED member,
           \/ attention' = attention /\ row.obligation = rma[r].obligation
           \/ attention' = rebuild_rma_attention(attention, r, row)
    PROVE  ObligationShown' /\ DecisionShown'
<1>1. row # None /\ r \in Rmas
  BY TagAssumption, AuthorizedRow
<1>2. rma'[r] = row /\ \A s \in Rmas : s # r => rma'[s] = rma[s]
  BY <1>1 DEF RmaType
<1>3. Authorized' = Authorized
  BY <1>1, <1>2 DEF Authorized
<1>4. /\ OpenKey(r) \in attention' <=> row.obligation = "open"
      /\ \A s : s # r => (OpenKey(s) \in attention' <=> OpenKey(s) \in attention)
      /\ \A g, s : PendingKey(g, s) \in attention' <=> PendingKey(g, s) \in attention
  <2>1. CASE attention' = attention /\ row.obligation = rma[r].obligation
    BY <1>1, <2>1 DEF ShownInv, ObligationShown
  <2>2. CASE attention' = rebuild_rma_attention(attention, r, row)
    BY <1>1, <2>2, RmaAttention
  <2> QED  BY <2>1, <2>2
<1>5. ObligationShown'
  BY <1>2, <1>3, <1>4 DEF ShownInv, ObligationShown
<1>6. DecisionShown'
  BY <1>4, DecisionsQuiet DEF ShownInv, Waiting
<1> QED  BY <1>5, <1>6

LEMMA RmaStepShown ==
    ASSUME RmaType, ShownInv, RmaStep, UNCHANGED member
    PROVE  ShownInv'
<1>0. UNCHANGED outcome
  BY RmaFrame
<1>1. CASE BatchAccepted
  BY <1>0, <1>1, BatchShown DEF BatchAccepted
<1>2. CASE OneRmaWritten
  <2>1. PICK r \in Authorized, row \in RmaRow :
           /\ rma' = [rma EXCEPT ![r] = row] /\ SameReturn(rma[r], row)
           /\ attention' = attention \/ attention' = rebuild_rma_attention(attention, r, row)
    BY <1>2 DEF OneRmaWritten
  <2>2. ObligationShown' /\ DecisionShown'
    BY <2>1, OneShown DEF SameReturn
  <2>3. row # None /\ r \in Rmas
    BY TagAssumption, AuthorizedRow
  <2>4. rma'[r] = row /\ \A s \in Rmas : s # r => rma'[s] = rma[s]
    BY <2>1, <2>3 DEF RmaType
  <2>5. Authorized' = Authorized /\ Reviewed' = Reviewed
    BY <1>0, <2>3, <2>4 DEF Authorized, Reviewed
  <2>6. ASSUME NEW s \in Authorized PROVE Grounded(s)'
    <3>1. s \in Rmas /\ Grounded(s)
      BY DEF ShownInv, ObligationGrounded, Authorized
    <3>2. SameReturn(rma[s], rma'[s])
      BY <2>1, <2>4, <3>1 DEF SameReturn
    <3> QED  BY <1>0, <2>5, <3>1, <3>2 DEF Grounded, SameReturn
  <2> QED  BY <1>0, <2>2, <2>5, <2>6 DEF ShownInv, ObligationGrounded
<1> QED  BY <1>1, <1>2, RmaStepForm

LEMMA ConsequenceShown ==
    ASSUME UnitInv, RmaType, ShownInv, ConsequenceStep, UNCHANGED member
    PROVE  ShownInv'
<1>1. PICK t \in Tasks, c \in Outcomes : accept_inventory_physical_consequence(t, c)
  BY DEF ConsequenceStep, In
<1>2. c # None /\ c.rma \in Opt(Authorized)
  <2>1. c \in Consequence
    BY OutcomeRows
  <2> QED  BY <2>1, StockAssumption DEF Outcomes
<1>3. outcome' = [outcome EXCEPT ![t] = c] /\ t \notin Reviewed
  BY <1>1 DEF accept_inventory_physical_consequence
<1>4. /\ outcome'[t] = c /\ \A k \in Reviewed : outcome'[k] = outcome[k] /\ k # t
      /\ Reviewed' = Reviewed \cup {t}
  BY <1>2, <1>3 DEF UnitInv, UnitType, Reviewed
<1>5. CASE c.rma = None \/ ReturnSelection(c) = None
  <2>1. UNCHANGED <<rma, attention>>
    BY <1>1, <1>5 DEF accept_inventory_physical_consequence, OpenReturn
  <2>2. RmasKept /\ SameObligations /\ Authorized' = Authorized
    BY <2>1, RmasQuiet DEF SameObligations, Authorized
  <2>3. ObligationShown' /\ DecisionShown'
    BY <2>1, <2>2, ObligationsQuiet, DecisionsQuiet DEF ShownInv, Waiting
  <2>4. ASSUME NEW r \in Authorized PROVE Grounded(r)'
    BY <1>4, <2>1 DEF ShownInv, ObligationGrounded, Grounded
  <2>5. \A k \in Reviewed' : outcome'[k].rma \in Opt(Authorized)
    BY <1>2, <1>4 DEF ShownInv, ObligationGrounded
  <2> QED  BY <2>2, <2>3, <2>4, <2>5 DEF ShownInv, ObligationGrounded, Opt
<1>6. CASE c.rma # None /\ ReturnSelection(c) # None
  <2> DEFINE r == c.rma
             row == OpenedRow(rma[r], c, t)
  <2>1. /\ r \in Authorized /\ row \in RmaRow /\ rma' = [rma EXCEPT ![r] = row]
        /\ row.obligation = "open" /\ row.by = t /\ row.returned = ReturnSelection(c)
    BY <1>1, <1>6, OpenedReturn
  <2>2. attention' = rebuild_rma_attention(attention, r, rma'[r])
    BY <1>1, <1>6 DEF accept_inventory_physical_consequence, OpenReturn
  <2> HIDE DEF row
  <2>3. row # None /\ r \in Rmas
    BY <2>1, TagAssumption, AuthorizedRow
  <2>4. rma'[r] = row /\ \A s \in Rmas : s # r => rma'[s] = rma[s]
    BY <2>1, <2>3 DEF RmaType
  <2>5. Authorized' = Authorized
    BY <2>1, <2>3, <2>4 DEF Authorized
  <2>6. ObligationShown' /\ DecisionShown'
    BY <2>1, <2>2, <2>4, OneShown
  <2>7. ASSUME NEW s \in Authorized PROVE Grounded(s)'
    <3>1. CASE s = r
      BY <1>4, <2>1, <2>4, <3>1 DEF Grounded
    <3>2. CASE s # r
      <4>1. rma'[s] = rma[s] /\ Grounded(s)
        BY <2>4, <3>2 DEF ShownInv, ObligationGrounded, Authorized
      <4> QED  BY <1>4, <4>1 DEF Grounded
    <3> QED  BY <3>1, <3>2
  <2>8. \A k \in Reviewed' : outcome'[k].rma \in Opt(Authorized)
    BY <1>2, <1>4 DEF ShownInv, ObligationGrounded
  <2> QED  BY <2>5, <2>6, <2>7, <2>8 DEF ShownInv, ObligationGrounded, Opt
<1> QED  BY <1>5, <1>6

LEMMA CorrectionShown ==
    ASSUME UnitInv, RmaType, ShownInv, NEW t \in Tasks, NEW d \in Consequences,
           correct_inventory_physical_consequence(t, d)
    PROVE  ShownInv'
<1>1. UNCHANGED <<rma, member>> /\ t \in Reviewed
  BY DEF correct_inventory_physical_consequence, correct_physical_consequence, tagVars
<1>2. Authorized' = Authorized /\ Reviewed' = Reviewed
  BY <1>1, CorrectedOutcome DEF Authorized
<1>3. \A k \in Reviewed : /\ outcome'[k].rma = outcome[k].rma
                          /\ ReturnSelection(outcome'[k]) = ReturnSelection(outcome[k])
  BY CorrectedOutcome DEF ReturnSelection
<1>4. ObligationGrounded'
  <2>1. ASSUME NEW r \in Authorized PROVE Grounded(r)'
    BY <1>1, <1>2, <1>3 DEF ShownInv, ObligationGrounded, Grounded
  <2> QED  BY <1>2, <1>3, <2>1 DEF ShownInv, ObligationGrounded, Opt
<1>5. ObligationShown' /\ DecisionShown'
  <2> DEFINE r == outcome[t].rma
  <2>1. CASE r = None \/ ReturnSelection(outcome[t]) = None
    <3>1. attention' = attention
      BY <2>1 DEF correct_inventory_physical_consequence, correct_physical_consequence
    <3>2. RmasKept /\ SameObligations
      BY <1>1, RmasQuiet DEF SameObligations
    <3> QED  BY <1>1, <3>1, <3>2, ObligationsQuiet, DecisionsQuiet DEF ShownInv, Waiting
  <2>2. CASE r # None /\ ReturnSelection(outcome[t]) # None
    <3>1. attention' = rebuild_rma_attention(attention, r, rma[r])
      BY <2>2 DEF correct_inventory_physical_consequence, correct_physical_consequence
    <3>2. r \in Authorized
      BY <1>1, <2>2 DEF ShownInv, ObligationGrounded, Opt
    <3> HIDE DEF r
    <3>3. rma[r] \in RmaRow /\ rma' = [rma EXCEPT ![r] = rma[r]]
      BY <1>1, <3>2, AuthorizedRow DEF RmaType
    <3> QED  BY <1>1, <3>1, <3>2, <3>3, OneShown
  <2> QED  BY <2>1, <2>2
<1> QED  BY <1>4, <1>5 DEF ShownInv

(* Commands on tags: no membership starts to wait for a decision. *)
LEMMA WaitingAt ==
    ASSUME TagInv, NEW g \in Tags, NEW rows \in Rows, member' = [member EXCEPT ![g] = rows],
           \A r \in Rmas : rows[r] # None /\ rows[r].state = "warehouse_received" => Waiting(g, r)
    PROVE  \A h \in Tags, r \in Rmas : Waiting(h, r)' => Waiting(h, r)
<1>1. member'[g] = rows /\ \A h \in Tags : h # g => member'[h] = member[h]
  BY DEF TagInv, TagType
<1> QED  BY <1>1 DEF Waiting

LEMMA TagStepWaiting ==
    ASSUME TagInv, TagStep
    PROVE  \A g \in Tags, r \in Rmas : Waiting(g, r)' => Waiting(g, r)
<1> DEFINE Goal == \A g \in Tags, r \in Rmas : Waiting(g, r)' => Waiting(g, r)
<1>0. In(Tags) \subseteq Tags /\ RmaType
  BY DEF In, TagInv
<1>1. ASSUME NEW S \in SUBSET Authorized, NEW g \in Tags, member' = [member EXCEPT ![g] = InsertedRows(S)]
      PROVE  Goal
  <2>1. \A r \in Rmas : InsertedRows(S)[r] # None => InsertedRows(S)[r].state = "draft"
    BY <1>0, Inserted DEF Present
  <2> QED  BY <1>0, <1>1, <2>1, Inserted, WaitingAt
<1>2. ASSUME NEW g \in Tags, NEW S \in SUBSET Authorized, create_fault_tag_draft(g, S) PROVE Goal
  BY <1>1, <1>2 DEF create_fault_tag_draft, InsertedRows
<1>3. ASSUME NEW g \in Tags, NEW h \in Tags, NEW S \in SUBSET Authorized, resend(g, h, S) PROVE Goal
  BY <1>1, <1>3 DEF resend, InsertedRows
<1>4. ASSUME NEW g \in Tags, NEW S \in SUBSET Authorized, update_fault_tag_draft(g, S) PROVE Goal
  <2> DEFINE f(r) == member[g][r] # None /\ member[g][r].history
             rows == [r \in Rmas |-> IF r \notin S THEN None ELSE [_insert_membership(r) EXCEPT !.history = f(r)]]
  <2>1. member' = [member EXCEPT ![g] = rows]
    BY <1>4 DEF update_fault_tag_draft
  <2>2. ASSUME NEW r \in S PROVE rows[r].state = "draft"
    <3>1. _insert_membership(r).state = "draft" /\ _insert_membership(r) \in Membership /\ r \in Rmas
      BY <1>0, InsertedRow DEF Authorized
    <3> HIDE DEF f
    <3> QED  BY <3>1 DEF Membership
  <2>3. \A r \in Rmas : r \notin S => rows[r] = None
    OBVIOUS
  <2> HIDE DEF rows
  <2>4. member'[g] = rows /\ \A h \in Tags : h # g => member'[h] = member[h]
    BY <2>1 DEF TagInv, TagType
  <2> QED  BY <2>2, <2>3, <2>4 DEF Waiting
<1>5. ASSUME NEW g \in Tags, NEW e \in BOOLEAN, accept_fault_tag_submission(g, e) PROVE Goal
  <2>1. ASSUME NEW r \in Rmas
        PROVE  member'[g][r] # None => member'[g][r].state = "submitted_awaiting_receipt"
    <3>1. member[g] \in Rows
      BY DEF TagInv, TagType
    <3>2. member'[g][r] = IF member[g][r] = None THEN None
                          ELSE [member[g][r] EXCEPT !.state = "submitted_awaiting_receipt", !.history = TRUE]
      BY <1>5 DEF accept_fault_tag_submission, TagInv, TagType
    <3>3. CASE member[g][r] # None
      <4>1. member[g][r] \in Membership
        BY <3>3, MemberRow
      <4> QED  BY <3>2, <3>3, <4>1 DEF Membership
    <3> QED  BY <3>2, <3>3
  <2>2. \A h \in Tags : h # g => member'[h] = member[h]
    BY <1>5 DEF accept_fault_tag_submission, TagInv, TagType
  <2> QED  BY <2>1, <2>2 DEF Waiting
<1>6. ASSUME NEW g \in Tags, NEW h \in Tags, NEW S \in SUBSET Authorized, replacement(g, h, S) PROVE Goal
  <2>0. g # h /\ h \notin Tagged
    BY <1>6 DEF replacement
  <2>1. member'[h] = InsertedRows(S) /\ \A k \in Tags : k # g /\ k # h => member'[k] = member[k]
    BY <1>6, <2>0 DEF replacement, InsertedRows, TagInv, TagType
  <2>2. \A r \in Rmas : member'[g][r] = IF r \in ActiveIn(g) THEN [member[g][r] EXCEPT !.state = "superseded"]
                                        ELSE member[g][r]
    BY <1>6, <2>0 DEF replacement, TagInv, TagType
  <2>3. ASSUME NEW r \in Rmas PROVE Waiting(g, r)' => Waiting(g, r)
    <3>1. CASE r \in ActiveIn(g)
      <4>1. member[g][r] \in Membership
        BY <3>1, MemberRow DEF ActiveIn, MembersOf
      <4> QED  BY <2>2, <3>1, <4>1 DEF Waiting, Membership
    <3>2. CASE r \notin ActiveIn(g)
      BY <2>2, <3>2 DEF Waiting
    <3> QED  BY <3>1, <3>2
  <2>4. \A r \in Rmas : ~Waiting(h, r)'
    BY <1>0, <2>1, Inserted DEF Present, Waiting
  <2> QED  BY <2>1, <2>3, <2>4 DEF Waiting
<1>7. ASSUME NEW g \in Tags, hard_delete_tag(g) PROVE Goal
  <2>1. \A r \in Rmas : member'[g][r] = None
    BY <1>7 DEF hard_delete_tag, TagInv, TagType
  <2>2. \A h \in Tags : h # g => member'[h] = member[h]
    BY <1>7 DEF hard_delete_tag, TagInv, TagType
  <2> QED  BY <2>1, <2>2 DEF Waiting
<1>8. ASSUME NEW g \in Tags, archive_or_restore(g) PROVE Goal
  BY <1>8 DEF archive_or_restore, Waiting
<1> HIDE DEF Goal
<1>9. Goal
  BY <1>0, <1>2, <1>3, <1>4, <1>5, <1>6, <1>7, <1>8 DEF TagStep
<1> QED  BY <1>9 DEF Goal

(* A step that rebuilds the attention of memberships shows what it leaves. *)
LEMMA RebuiltShown ==
    ASSUME ShownInv, NEW T \in SUBSET (Tags \X Rmas), NEW lin,
           \A g \in Tags, r \in Rmas : <<g, r>> \in T => r \in Authorized,
           attention' = rebuild_fault_tag_membership_attention(attention, T, member', rma', lin),
           Authorized' = Authorized,
           \A r \in Authorized : (\A g \in Tags : <<g, r>> \notin T) => rma'[r].obligation = rma[r].obligation,
           \A g \in Tags, r \in Rmas : <<g, r>> \notin T => (Waiting(g, r)' => Waiting(g, r))
    PROVE  ObligationShown' /\ DecisionShown'
<1>1. /\ \A r \in Rmas : (\E g \in Tags : <<g, r>> \in T) => (OpenKey(r) \in attention' <=> rma'[r].obligation = "open")
      /\ \A r \in Rmas : (\A g \in Tags : <<g, r>> \notin T) => (OpenKey(r) \in attention' <=> OpenKey(r) \in attention)
      /\ \A g \in Tags, r \in Rmas :
            <<g, r>> \in T => (PendingKey(g, r) \in attention' <=> member'[g][r].state = "warehouse_received")
      /\ \A g \in Tags, r \in Rmas :
            <<g, r>> \notin T => (PendingKey(g, r) \in attention' <=> PendingKey(g, r) \in attention)
  <2>1. MembershipsRebuilt(attention', attention, T, member', rma')
    BY MembershipAttention
  <2> QED  BY <2>1 DEF MembershipsRebuilt
<1>2. ASSUME NEW r \in Rmas PROVE OpenKey(r) \in attention' <=> r \in Authorized /\ rma'[r].obligation = "open"
  <2>1. CASE \E g \in Tags : <<g, r>> \in T
    BY <1>1, <2>1
  <2>2. CASE \A g \in Tags : <<g, r>> \notin T
    <3>1. OpenKey(r) \in attention' <=> r \in Authorized /\ rma[r].obligation = "open"
      BY <1>1, <2>2 DEF ShownInv, ObligationShown
    <3> QED  BY <2>2, <3>1
  <2> QED  BY <2>1, <2>2
<1>3. ASSUME NEW g \in Tags, NEW r \in Rmas, Waiting(g, r)' PROVE PendingKey(g, r) \in attention'
  <2>1. CASE <<g, r>> \in T
    BY <1>1, <1>3, <2>1 DEF Waiting
  <2>2. CASE <<g, r>> \notin T
    BY <1>1, <1>3, <2>2 DEF ShownInv, DecisionShown
  <2> QED  BY <2>1, <2>2
<1> QED  BY <1>2, <1>3 DEF ObligationShown, DecisionShown

LEMMA TagStepShown ==
    ASSUME TagInv, ShownInv, TagStep
    PROVE  ShownInv'
<1>1. /\ RmasKept /\ SameObligations /\ UNCHANGED outcome /\ Authorized' = Authorized
      /\ \A g \in Tags, r \in Rmas : Waiting(g, r)' => Waiting(g, r)
  BY TagStepRmas, TagStepWaiting, TagFrame DEF RmasKept
<1>2. ObligationGrounded'
  BY <1>1, GroundedKept DEF ShownInv
<1>3. CASE attention' = attention
  BY <1>1, <1>2, <1>3, ObligationsQuiet, DecisionsQuiet DEF ShownInv
<1>4. ASSUME NEW g \in Tags, NEW S \in SUBSET Authorized, NEW lin,
             attention' = rebuild_fault_tag_membership_attention(attention, {<<g, r>> : r \in S}, member', rma', lin)
      PROVE  ObligationShown' /\ DecisionShown'
  <2> DEFINE T == {<<g, r>> : r \in S}
  <2>1. S \subseteq Rmas
    BY DEF Authorized
  <2>2. T \in SUBSET (Tags \X Rmas)
    BY <2>1
  <2>3. \A h \in Tags, r \in Rmas : <<h, r>> \in T => r \in Authorized
    OBVIOUS
  <2>4. attention' = rebuild_fault_tag_membership_attention(attention, T, member', rma', lin)
    BY <1>4
  <2> HIDE DEF T
  <2> QED  BY <1>1, <2>2, <2>3, <2>4, RebuiltShown DEF SameObligations
<1>5. ASSUME NEW g \in Tags, archive_or_restore(g) PROVE ObligationShown' /\ DecisionShown'
  <2>1. UNCHANGED <<rma, member>> /\ MembersOf(g) \in SUBSET Authorized
    BY <1>5, MembersKnown DEF archive_or_restore
  <2>2. attention' = rebuild_fault_tag_membership_attention(attention, {<<g, r>> : r \in MembersOf(g)}, member', rma', lineage)
    BY <1>5, <2>1 DEF archive_or_restore
  <2> QED  BY <1>4, <2>1, <2>2
<1>6. ASSUME NEW g \in Tags, NEW h \in Tags, NEW S \in SUBSET Authorized, resend(g, h, S)
      PROVE  ObligationShown' /\ DecisionShown'
  <2>1. UNCHANGED rma
    BY <1>6 DEF resend
  <2>2. attention' = rebuild_fault_tag_membership_attention(attention, {<<g, r>> : r \in S}, member', rma', lineage')
    BY <1>6, <2>1 DEF resend
  <2> QED  BY <1>4, <2>2
<1>7. In(Tags) \subseteq Tags
  BY DEF In
<1>8. attention' = attention \/ (ObligationShown' /\ DecisionShown')
  BY <1>5, <1>6, <1>7
     DEF TagStep, create_fault_tag_draft, update_fault_tag_draft, accept_fault_tag_submission, hard_delete_tag,
         replacement, stockVars
<1> QED  BY <1>2, <1>3, <1>8 DEF ShownInv

LEMMA FalseSubmissionShown ==
    ASSUME TagInv, ShownInv, NEW g \in Tags, correct_false_fault_tag_submission(g)
    PROVE  ShownInv'
<1>1. RmasKept /\ SameObligations /\ UNCHANGED <<outcome, attention>>
  BY FalseSubmissionRmas DEF correct_false_fault_tag_submission
<1>2. ASSUME NEW r \in Rmas PROVE ~Waiting(g, r)'
  <2>1. member'[g][r] = IF member[g][r] = None THEN None ELSE [member[g][r] EXCEPT !.state = "draft"]
    BY DEF correct_false_fault_tag_submission, TagInv, TagType
  <2>2. CASE member[g][r] # None
    <3>1. member[g][r] \in Membership
      BY <2>2, MemberRow
    <3> QED  BY <2>1, <2>2, <3>1 DEF Membership, Waiting
  <2> QED  BY <2>1, <2>2 DEF Waiting
<1>3. \A h \in Tags : h # g => member'[h] = member[h]
  BY DEF correct_false_fault_tag_submission, TagInv, TagType
<1>4. \A h \in Tags, r \in Rmas : Waiting(h, r)' => Waiting(h, r)
  BY <1>2, <1>3 DEF Waiting
<1> QED  BY <1>1, <1>4, GroundedKept, ObligationsQuiet, DecisionsQuiet DEF ShownInv

LEMMA WarehouseShown ==
    ASSUME TagInv, ShownInv, WarehouseMoves
    PROVE  ShownInv'
<1>1. PICK T \in SUBSET (Tags \X Rmas), s \in MemberState :
        Warehouse(T, s) /\ \A x \in T : member[x[1]][x[2]] # None
  BY MovedMembers
<1>2. RmasKept /\ UNCHANGED outcome
  BY WarehouseMovesKeep, WarehouseMovesFrame
<1>3. ObligationGrounded'
  BY <1>2, GroundedKept DEF ShownInv
<1>4. ASSUME NEW g \in Tags, NEW r \in Rmas, <<g, r>> \in T PROVE r \in Authorized
  <2>1. member[g][r] # None
    BY <1>1, <1>4
  <2> QED  BY <2>1, MemberRow
<1>5. ASSUME NEW r \in Authorized, \A g \in Tags : <<g, r>> \notin T PROVE rma'[r].obligation = rma[r].obligation
  <2>1. \A x \in T : x = <<x[1], x[2]>> /\ x[1] \in Tags
    OBVIOUS
  <2>2. \A x \in T : x[2] # r
    BY <1>5, <2>1
  <2> QED  BY <1>1, <2>2 DEF Warehouse, Authorized
<1>6. ASSUME NEW g \in Tags, NEW r \in Rmas, <<g, r>> \notin T PROVE member'[g][r] = member[g][r]
  BY <1>1, <1>6 DEF Warehouse
<1>7. attention' = rebuild_fault_tag_membership_attention(attention, T, member', rma', lineage)
  BY <1>1 DEF Warehouse
<1>8. ObligationShown' /\ DecisionShown'
  BY <1>2, <1>4, <1>5, <1>6, <1>7, RebuiltShown DEF RmasKept, Waiting
<1> QED  BY <1>3, <1>8 DEF ShownInv

LEMMA ReturnsStayShown ==
    ASSUME ProposalInv, UnitInv, TagInv, ShownInv, Next
    PROVE  ShownInv'
<1>0. RmaType
  BY DEF TagInv
<1>1. CASE StockStep /\ UNCHANGED tagVars
  <2>1. UNCHANGED member
    BY <1>1 DEF tagVars
  <2>2. CASE NeedStep \/ UnitStep \/ RequestStep \/ LogisticsStep
    BY <2>1, <2>2, NeedFrame, UnitFrame, RequestFrame, LogisticsFrame, ShownQuiet
  <2>3. CASE RmaStep \/ ConsequenceStep
    BY <1>0, <2>1, <2>3, RmaStepShown, ConsequenceShown
  <2> QED  BY <1>1, <2>2, <2>3 DEF StockStep
<1>2. CASE TagStep \/ WarehouseMoves
  BY <1>2, TagStepShown, WarehouseShown
<1>3. CASE OtherStep
  <2>1. CASE UNCHANGED <<rma, outcome, attention, member>>
    BY <2>1, ShownQuiet
  <2> QED  BY <1>0, <1>3, <2>1, FalseSubmissionShown, CorrectionShown
           DEF OtherStep, stockVars, tagVars, SubmissionTargets, attach_origin_rma, hard_delete_untouched_unit,
               hard_delete_unit, hard_delete_untouched_request, hard_delete_request, _delete_rows
<1> QED  BY <1>1, <1>2, <1>3, Steps

LEMMA ShownInvariant == Spec => []ShownInv
<1>1. Init => ShownInv
  <2> SUFFICES ASSUME Init PROVE ShownInv
    OBVIOUS
  <2>1. /\ member = [g \in Tags |-> [r \in Rmas |-> None]] /\ rma = [r \in Rmas |-> None]
        /\ attention = {} /\ outcome = [t \in Tasks |-> None]
    BY DEF Init, StockInit, TagInit
  <2> QED  BY <2>1 DEF ShownInv, ObligationShown, ObligationGrounded, DecisionShown, Waiting, Authorized, Reviewed
<1>2. (ProposalInv /\ UnitInv) /\ (ProposalInv /\ TagInv) /\ ShownInv /\ [Next]_vars => ShownInv'
  <2>1. ASSUME ShownInv, UNCHANGED vars PROVE ShownInv'
    BY <2>1, ShownQuiet DEF vars, stockVars, tagVars
  <2> QED  BY <2>1, ReturnsStayShown
<1> QED  BY <1>1, <1>2, UnitInvariant, TagInvariant, PTL DEF Spec

(* An open obligation is in the attention list, comes from the consequence   *)
(* of a task that selects the unit to return, and a unit the warehouse has   *)
(* received shows until it is decided on (OpenReturn, rebuild_rma_attention, *)
(* rebuild_fault_tag_membership_attention, correct_physical_consequence).    *)
THEOREM ReturnsShown == Spec => []OpenReturnsShown
<1>1. ShownInv => OpenReturnsShown
  BY DEF ShownInv, ObligationShown, ObligationGrounded, Grounded, DecisionShown, OpenReturnsShown, Waiting,
         OpenKey, PendingKey, Authorized, Tagged, InState
<1> QED  BY <1>1, ShownInvariant, PTL

-----------------------------------------------------------------------------
(* Requests and the RMAs that answer them. *)

Answered == {"partially_authorized", "authorized"}

(* The row of a request with n RMAs, and whether its attention is shown. *)
CountOk(row, n, shown) ==
    /\ row = None => n = 0 /\ ~shown
    /\ row # None =>
          /\ row.authorized = n
          /\ n > 0 => row.state = AuthorizedState(row, n) /\ row.sr7 # None
          /\ n = 0 => row.state \notin Answered
          /\ row.state = "partially_authorized" <=> shown

RequestInv ==
    /\ request \in [Requests -> Opt(Request)]
    /\ \A q \in Requests : CountOk(request[q], Cardinality(RmasOf(q)), PartialKey(q) \in attention)

LEMMA RmasCounted ==
    ASSUME NEW q
    PROVE  /\ RmasOf(q) \in SUBSET Rmas /\ IsFiniteSet(RmasOf(q)) /\ Cardinality(RmasOf(q)) \in Nat
           /\ RmasOf(q) = {} => Cardinality(RmasOf(q)) = 0
<1>1. RmasOf(q) \in SUBSET Rmas
  BY DEF RmasOf, Authorized
<1>2. IsFiniteSet(RmasOf(q))
  BY <1>1, FS_Subset, StockAssumption
<1> QED  BY <1>1, <1>2, FS_CardinalityType, FS_EmptySet

LEMMA RequestedRow ==
    ASSUME RequestInv, NEW q \in Requested
    PROVE  q \in Requests /\ request[q] \in Request /\ request[q] # None
BY DEF RequestInv, Requested, Opt

(* What a request still owes is unchanged by the edits that keep its answer. *)
LEMMA SameAnswer ==
    ASSUME NEW old, NEW new, NEW n \in Nat, NEW shown, CountOk(old, n, shown), old # None, new # None,
           new.state = old.state, new.authorized = old.authorized, new.quantity = old.quantity,
           new.sr7 = old.sr7 \/ new.sr7 # None
    PROVE  CountOk(new, n, shown)
BY DEF CountOk, AuthorizedState

(* A request that no RMA answers moves between the other states. *)
LEMMA NoAnswer ==
    ASSUME NEW old, NEW new, NEW n \in Nat, NEW shown, CountOk(old, n, shown), n = 0, new # None,
           new.state \notin Answered, new.authorized = 0
    PROVE  CountOk(new, n, shown)
BY DEF CountOk, Answered

LEMMA DraftUnanswered ==
    ASSUME NEW row, NEW n \in Nat, NEW shown, CountOk(row, n, shown), row # None, row.state = "draft"
    PROVE  n = 0 /\ row.authorized = 0 /\ ~shown
BY DEF CountOk, AuthorizedState

LEMMA RequestsKept ==
    ASSUME RequestInv, request' \in [Requests -> Opt(Request)],
           \A q \in Requests :
              /\ RmasOf(q)' = RmasOf(q) /\ (PartialKey(q) \in attention' <=> PartialKey(q) \in attention)
              /\ \/ request'[q] = request[q]
                 \/ CountOk(request'[q], Cardinality(RmasOf(q)), PartialKey(q) \in attention)
    PROVE  RequestInv'
<1>1. ASSUME NEW q \in Requests PROVE CountOk(request'[q], Cardinality(RmasOf(q)'), PartialKey(q) \in attention')
  <2> DEFINE n == Cardinality(RmasOf(q))
             shown == PartialKey(q) \in attention
  <2>1. CountOk(request'[q], n, shown)
    BY DEF RequestInv
  <2>2. Cardinality(RmasOf(q)') = n /\ (PartialKey(q) \in attention') = shown
    OBVIOUS
  <2> HIDE DEF n, shown
  <2> QED  BY <2>1, <2>2
<1> QED  BY <1>1 DEF RequestInv

LEMMA RequestsQuiet ==
    ASSUME RequestInv, UNCHANGED request,
           \A q \in Requests : /\ RmasOf(q)' = RmasOf(q)
                               /\ (PartialKey(q) \in attention' <=> PartialKey(q) \in attention)
    PROVE  RequestInv'
BY RequestsKept DEF RequestInv

(* A step that writes one request. *)
LEMMA OneRequest ==
    ASSUME RequestInv, NEW q \in Requests, NEW row \in Opt(Request), request' = [request EXCEPT ![q] = row],
           UNCHANGED <<rma, attention>>, CountOk(row, Cardinality(RmasOf(q)), PartialKey(q) \in attention)
    PROVE  RequestInv'
<1>1. request'[q] = row /\ \A p \in Requests : p # q => request'[p] = request[p]
  BY DEF RequestInv
<1>2. request' \in [Requests -> Opt(Request)]
  BY DEF RequestInv
<1>3. \A p \in Requests : RmasOf(p)' = RmasOf(p)
  BY DEF RmasOf, Authorized
<1> QED  BY <1>1, <1>2, <1>3, RequestsKept

LEMMA DraftRows ==
    ASSUME NEW f \in Drafts
    PROVE  f \in Allocations /\ DOMAIN f \in SUBSET Needs
<1>1. PICK S \in (SUBSET (bound \cap Needs)) \ {{}} : f \in [S -> 1..MaxQuantity]
  BY DEF Drafts
<1>2. S \in SUBSET Needs /\ DOMAIN f = S
  BY <1>1
<1> QED  BY <1>1, <1>2 DEF Allocations

LEMMA RequestRowEdits ==
    ASSUME NEW old \in Request
    PROVE  /\ \A f \in Allocations : DOMAIN f \in SUBSET Needs =>
                 LET new == [old EXCEPT !.draft = f, !.ever = @ \cup DOMAIN f]
                 IN  /\ new \in Request /\ new.state = old.state /\ new.authorized = old.authorized
                     /\ new.quantity = old.quantity /\ new.sr7 = old.sr7 /\ new.ever = old.ever \cup DOMAIN f
           /\ \A s \in Sr7s : LET new == [old EXCEPT !.sr7 = s]
                              IN  /\ new \in Request /\ new.state = old.state /\ new.authorized = old.authorized
                                  /\ new.quantity = old.quantity /\ new.sr7 = s /\ new.ever = old.ever
           /\ \A s \in TerminalRequest : LET new == [old EXCEPT !.state = s]
                                         IN  /\ new \in Request /\ new.state = s /\ new.ever = old.ever
                                             /\ new.authorized = old.authorized
           /\ LET new == accept_submission(old)
              IN  /\ new \in Request /\ new.state \notin Answered /\ new.ever = old.ever
                  /\ new.authorized = old.authorized
           /\ LET new == [old EXCEPT !.state = "draft", !.submitted = FALSE, !.quantity = 0]
              IN  /\ new \in Request /\ new.state = "draft" /\ new.ever = old.ever
                  /\ new.authorized = old.authorized
<1>1. ASSUME NEW f \in Allocations, DOMAIN f \in SUBSET Needs
      PROVE  LET new == [old EXCEPT !.draft = f, !.ever = @ \cup DOMAIN f]
             IN  /\ new \in Request /\ new.state = old.state /\ new.authorized = old.authorized
                 /\ new.quantity = old.quantity /\ new.sr7 = old.sr7 /\ new.ever = old.ever \cup DOMAIN f
  <2>1. old.ever \cup DOMAIN f \in SUBSET Needs
    BY <1>1 DEF Request
  <2> QED  BY <2>1 DEF Request
<1>2. ASSUME NEW s \in Sr7s
      PROVE  LET new == [old EXCEPT !.sr7 = s]
             IN  /\ new \in Request /\ new.state = old.state /\ new.authorized = old.authorized
                 /\ new.quantity = old.quantity /\ new.sr7 = s /\ new.ever = old.ever
  BY DEF Request, Opt
<1>3. ASSUME NEW s \in TerminalRequest
      PROVE  LET new == [old EXCEPT !.state = s]
             IN  new \in Request /\ new.state = s /\ new.ever = old.ever /\ new.authorized = old.authorized
  BY DEF Request
<1>4. LET new == accept_submission(old)
      IN  new \in Request /\ new.state \notin Answered /\ new.ever = old.ever /\ new.authorized = old.authorized
  <2> DEFINE s == IF old.sr7 # None THEN "acknowledged" ELSE "submitted_awaiting_response"
             k == Sum(old.draft)
             new == [old EXCEPT !.state = s, !.submitted = TRUE, !.quantity = k]
  <2>1. accept_submission(old) = new
    BY DEF accept_submission
  <2>2. s \in {"acknowledged", "submitted_awaiting_response"}
    OBVIOUS
  <2>3. k \in {Sum(f) : f \in Allocations}
    BY DEF Request
  <2> HIDE DEF s, k
  <2>4. new \in Request /\ new.state = s /\ new.ever = old.ever /\ new.authorized = old.authorized
    BY <2>2, <2>3 DEF Request
  <2> QED  BY <2>1, <2>2, <2>4 DEF Answered
<1>5. LET new == [old EXCEPT !.state = "draft", !.submitted = FALSE, !.quantity = 0]
      IN  new \in Request /\ new.state = "draft" /\ new.ever = old.ever /\ new.authorized = old.authorized
  BY DEF Request
<1> QED  BY <1>1, <1>2, <1>3, <1>4, <1>5

LEMMA NewRequest ==
    ASSUME NEW f \in Allocations, DOMAIN f \in SUBSET Needs, NEW o \in {"soma_draft", "external_registration"}
    PROVE  LET row == Draft(o, f)
           IN  row \in Request /\ row # None /\ row.state = "draft" /\ row.authorized = 0 /\ row.ever = DOMAIN f
<1>1. Draft(o, f) \in Request
  BY DEF Draft, Request, Opt
<1> QED  BY <1>1, StockAssumption DEF Draft

LEMMA RequestStepCounts ==
    ASSUME RequestInv, RequestStep
    PROVE  RequestInv'
<1>0. UNCHANGED <<rma, attention>>
  BY RequestFrame
<1>00. ASSUME NEW q \in Requests PROVE CountOk(request[q], Cardinality(RmasOf(q)), PartialKey(q) \in attention)
  BY DEF RequestInv
<1>1. ASSUME NEW q \in Requests, NEW f \in Drafts, NEW o \in {"soma_draft", "external_registration"},
             create_spare_request_draft(q, f, o)
      PROVE  RequestInv'
  <2>1. Draft(o, f) \in Request /\ Draft(o, f) # None /\ Draft(o, f).state = "draft" /\ Draft(o, f).authorized = 0
    BY DraftRows, NewRequest
  <2>2. request[q] = None /\ request' = [request EXCEPT ![q] = Draft(o, f)]
    BY <1>1 DEF create_spare_request_draft, Requested
  <2>3. Cardinality(RmasOf(q)) = 0
    BY <1>00, <2>2 DEF CountOk
  <2>4. CountOk(Draft(o, f), Cardinality(RmasOf(q)), PartialKey(q) \in attention)
    BY <1>00, <2>1, <2>3, NoAnswer DEF Answered
  <2> QED  BY <1>0, <2>1, <2>2, <2>4, OneRequest DEF Opt
<1>2. ASSUME NEW q \in Requests, NEW f \in Drafts, update_spare_request_draft(q, f)
      PROVE  RequestInv'
  <2> DEFINE row == [request[q] EXCEPT !.draft = f, !.ever = @ \cup DOMAIN f]
  <2>1. q \in Requested /\ request[q] \in Request /\ request[q] # None
    BY <1>2, RequestedRow DEF update_spare_request_draft
  <2>2. /\ row \in Request /\ row.state = request[q].state /\ row.authorized = request[q].authorized
        /\ row.quantity = request[q].quantity /\ row.sr7 = request[q].sr7
    BY <2>1, DraftRows, RequestRowEdits
  <2>3. request' = [request EXCEPT ![q] = row]
    BY <1>2, <2>1 DEF update_spare_request_draft, Request
  <2> HIDE DEF row
  <2>4. CountOk(row, Cardinality(RmasOf(q)), PartialKey(q) \in attention)
    BY <1>00, <2>1, <2>2, RmasCounted, SameAnswer, StockAssumption
  <2> QED  BY <1>0, <2>2, <2>3, <2>4, OneRequest DEF Opt
<1>3. ASSUME NEW q \in Requests, NEW s \in Sr7s, assign_or_correct_spare_request_official_id(q, s)
      PROVE  RequestInv'
  <2> DEFINE row == [request[q] EXCEPT !.sr7 = s]
  <2>1. q \in Requested /\ request[q] \in Request /\ request[q] # None
    BY <1>3, RequestedRow DEF assign_or_correct_spare_request_official_id
  <2>2. /\ row \in Request /\ row.state = request[q].state /\ row.authorized = request[q].authorized
        /\ row.quantity = request[q].quantity /\ row.sr7 = s
    BY <2>1, RequestRowEdits
  <2>3. request' = [request EXCEPT ![q] = row]
    BY <1>3 DEF assign_or_correct_spare_request_official_id
  <2> HIDE DEF row
  <2>4. s # None
    BY StockAssumption
  <2>5. CountOk(row, Cardinality(RmasOf(q)), PartialKey(q) \in attention)
    BY <1>00, <2>1, <2>2, <2>4, RmasCounted, SameAnswer, StockAssumption
  <2> QED  BY <1>0, <2>2, <2>3, <2>5, OneRequest DEF Opt
<1>4. ASSUME NEW q \in Requests, NEW s \in TerminalRequest, cancel_or_reject_spare_request(q, s)
      PROVE  RequestInv'
  <2> DEFINE row == [request[q] EXCEPT !.state = s]
  <2>1. q \in Requested /\ request[q] \in Request /\ request[q] # None /\ Cardinality(RmasOf(q)) = 0
    BY <1>4, RequestedRow, RmasCounted DEF cancel_or_reject_spare_request
  <2>2. row \in Request /\ row.state = s /\ row.authorized = request[q].authorized
    BY <2>1, RequestRowEdits
  <2>3. request' = [request EXCEPT ![q] = row]
    BY <1>4 DEF cancel_or_reject_spare_request
  <2> HIDE DEF row
  <2>4. row.state \notin Answered /\ row.authorized = 0 /\ row # None
    BY <1>00, <2>1, <2>2, StockAssumption DEF TerminalRequest, Answered, CountOk
  <2>5. CountOk(row, Cardinality(RmasOf(q)), PartialKey(q) \in attention)
    BY <1>00, <2>1, <2>4, NoAnswer
  <2> QED  BY <1>0, <2>2, <2>3, <2>5, OneRequest DEF Opt
<1>5. ASSUME NEW q \in Requests, accept_spare_request_submission(q)
      PROVE  RequestInv'
  <2> DEFINE row == accept_submission(request[q])
  <2>1. q \in Requested /\ request[q] \in Request /\ request[q] # None /\ request[q].state = "draft"
    BY <1>5, RequestedRow DEF accept_spare_request_submission, CanSubmit
  <2>0. row \in Request /\ row.state \notin Answered /\ row.authorized = request[q].authorized
    BY <2>1, RequestRowEdits
  <2>2. row \in Request /\ row.state \notin Answered /\ row.authorized = request[q].authorized /\ row # None
    BY <2>0, StockAssumption
  <2>3. request' = [request EXCEPT ![q] = row]
    BY <1>5 DEF accept_spare_request_submission
  <2> HIDE DEF row
  <2>4. Cardinality(RmasOf(q)) = 0 /\ request[q].authorized = 0
    BY <1>00, <2>1, RmasCounted, DraftUnanswered
  <2>5. CountOk(row, Cardinality(RmasOf(q)), PartialKey(q) \in attention)
    BY <1>00, <2>2, <2>4, NoAnswer
  <2> QED  BY <1>0, <2>2, <2>3, <2>5, OneRequest DEF Opt
<1>6. ASSUME NEW q \in Requests, correct_false_spare_request_submission(q)
      PROVE  RequestInv'
  <2> DEFINE row == [request[q] EXCEPT !.state = "draft", !.submitted = FALSE, !.quantity = 0]
  <2>1. q \in Requested /\ request[q] \in Request /\ request[q] # None /\ Cardinality(RmasOf(q)) = 0
    BY <1>6, RequestedRow, RmasCounted DEF correct_false_spare_request_submission, correct_false_submission
  <2>2. row \in Request /\ row.state = "draft" /\ row.authorized = request[q].authorized
    BY <2>1, RequestRowEdits
  <2>3. request' = [request EXCEPT ![q] = row]
    BY <1>6, <2>1 DEF correct_false_spare_request_submission, correct_false_submission, Request
  <2> HIDE DEF row
  <2>4. row.state \notin Answered /\ row.authorized = 0 /\ row # None
    BY <1>00, <2>1, <2>2, StockAssumption DEF Answered, CountOk
  <2>5. CountOk(row, Cardinality(RmasOf(q)), PartialKey(q) \in attention)
    BY <1>00, <2>1, <2>4, NoAnswer
  <2> QED  BY <1>0, <2>2, <2>3, <2>5, OneRequest DEF Opt
<1>7. In(Requests) \subseteq Requests /\ In(Sr7s) \subseteq Sr7s
  BY DEF In
<1> QED  BY <1>1, <1>2, <1>3, <1>4, <1>5, <1>6, <1>7 DEF RequestStep

LEMMA BatchCounts ==
    ASSUME RmaType, RequestInv, NEW q \in Requests, NEW batch \in (SUBSET Rmas) \ {{}},
           NEW c10 \in Injection(batch, C10s), accept_rma_authorization_batch(q, batch, c10)
    PROVE  RequestInv'
<1> DEFINE k == Cardinality(batch)
           n == Cardinality(RmasOf(q))
           total == request[q].authorized + k
           s == AuthorizedState(request[q], total)
           row == [request[q] EXCEPT !.authorized = total, !.state = s]
<1>1. q \in Requested /\ request[q] \in Request /\ request[q] # None /\ request[q].sr7 # None
  BY RequestedRow DEF accept_rma_authorization_batch, require_batch_eligible
<1>2. /\ Authorized' = Authorized \cup batch /\ batch \cap Authorized = {}
      /\ \A r \in Authorized : rma'[r] = rma[r]
      /\ \A r \in batch : rma'[r].request = q
  BY BatchRows
<1>3. RmasOf(q)' = RmasOf(q) \cup batch /\ RmasOf(q) \cap batch = {}
  BY <1>2 DEF RmasOf
<1>4. \A p \in Requests : p # q => RmasOf(p)' = RmasOf(p)
  BY <1>2 DEF RmasOf
<1>5. IsFiniteSet(batch) /\ k \in Nat /\ k # 0
  <2>1. IsFiniteSet(batch)
    BY FS_Subset, StockAssumption
  <2> QED  BY <2>1, FS_CardinalityType, FS_EmptySet
<1>6. n \in Nat /\ request[q].authorized = n
  BY <1>1, RmasCounted DEF RequestInv, CountOk
<1>7. Cardinality(RmasOf(q)') = n + k
  <2>1. Cardinality(RmasOf(q) \cup batch) = Cardinality(RmasOf(q)) + Cardinality(batch) - Cardinality(RmasOf(q) \cap batch)
    BY <1>5, RmasCounted, FS_Union
  <2>2. Cardinality(RmasOf(q) \cap batch) = 0
    BY <1>3, FS_EmptySet
  <2> QED  BY <1>3, <1>5, <1>6, <2>1, <2>2
<1>8. total = n + k /\ total \in Nat /\ total > 0
  BY <1>5, <1>6
<1>9. request' = [request EXCEPT ![q] = row]
  BY <1>1 DEF accept_rma_authorization_batch, Request
<1>10. s \in Answered
  BY DEF AuthorizedState, Answered
<1> HIDE DEF k, n, total, s
<1>11. /\ row \in Request /\ row.authorized = total /\ row.state = s
       /\ row.quantity = request[q].quantity /\ row.sr7 = request[q].sr7
  BY <1>1, <1>8, <1>10 DEF Request, Answered
<1> HIDE DEF row
<1>12. row # None /\ request'[q] = row /\ \A p \in Requests : p # q => request'[p] = request[p]
  BY <1>9, <1>11, StockAssumption DEF RequestInv
<1> DEFINE mid == rebuild_request_attention(attention, q, request'[q])
           more == {<<"rma_assignment_conflict", r>> : r \in {x \in batch : rma'[x].target = None}}
<1>13. attention' = mid \cup more /\ more \subseteq OtherKeys
  BY DEF accept_rma_authorization_batch, OtherKeys
<1>14. /\ PartialKey(q) \in mid <=> row.state = "partially_authorized"
       /\ \A p : p # q => (PartialKey(p) \in mid <=> PartialKey(p) \in attention)
  BY <1>12, RequestAttention
<1> HIDE DEF mid, more
<1>15. /\ PartialKey(q) \in attention' <=> row.state = "partially_authorized"
       /\ \A p : p # q => (PartialKey(p) \in attention' <=> PartialKey(p) \in attention)
  BY <1>13, <1>14, KeysDiffer
<1>16. CountOk(row, total, PartialKey(q) \in attention')
  <2>1. row.state = AuthorizedState(row, total)
    BY <1>11 DEF s, AuthorizedState
  <2> QED  BY <1>1, <1>8, <1>11, <1>12, <1>15, <2>1 DEF CountOk
<1>17. ASSUME NEW p \in Requests PROVE CountOk(request'[p], Cardinality(RmasOf(p)'), PartialKey(p) \in attention')
  <2>1. CASE p = q
    BY <1>7, <1>8, <1>12, <1>16, <2>1
  <2>2. CASE p # q
    <3> DEFINE m == Cardinality(RmasOf(p))
               shown == PartialKey(p) \in attention
    <3>1. CountOk(request[p], m, shown)
      BY DEF RequestInv
    <3>2. request'[p] = request[p] /\ Cardinality(RmasOf(p)') = m /\ (PartialKey(p) \in attention') = shown
      BY <1>4, <1>12, <1>15, <2>2
    <3> HIDE DEF m, shown
    <3> QED  BY <3>1, <3>2
  <2> QED  BY <2>1, <2>2
<1>18. request' \in [Requests -> Opt(Request)]
  BY <1>9, <1>11 DEF RequestInv, Opt
<1> QED  BY <1>17, <1>18 DEF RequestInv

LEMMA RmaStepCounts ==
    ASSUME RmaType, RequestInv, RmaStep
    PROVE  RequestInv'
<1>1. CASE BatchAccepted
  BY <1>1, BatchCounts DEF BatchAccepted
<1>2. CASE OneRmaWritten
  <2>1. PICK r \in Authorized, row \in RmaRow :
           /\ rma' = [rma EXCEPT ![r] = row] /\ row.request = rma[r].request /\ UNCHANGED request
           /\ attention' = attention \/ attention' = rebuild_rma_attention(attention, r, row)
    BY <1>2 DEF OneRmaWritten
  <2>2. row # None /\ r \in Rmas
    BY TagAssumption, AuthorizedRow
  <2>3. rma'[r] = row /\ \A s \in Rmas : s # r => rma'[s] = rma[s]
    BY <2>1, <2>2 DEF RmaType
  <2>4. Authorized' = Authorized
    BY <2>2, <2>3 DEF Authorized
  <2>5. \A s \in Authorized : rma'[s].request = rma[s].request
    BY <2>1, <2>3 DEF Authorized
  <2>6. \A q : RmasOf(q)' = RmasOf(q)
    BY <2>4, <2>5 DEF RmasOf
  <2>7. \A q : PartialKey(q) \in attention' <=> PartialKey(q) \in attention
    BY <2>1, <2>2, RmaAttention
  <2> QED  BY <2>1, <2>6, <2>7, RequestsQuiet
<1> QED  BY <1>1, <1>2, RmaStepForm

LEMMA KeptCounts ==
    ASSUME RmasKept
    PROVE  \A q : RmasOf(q)' = RmasOf(q)
BY DEF RmasKept, SamePart, RmasOf

LEMMA ConsequenceCounts ==
    ASSUME RmaType, RequestInv, ConsequenceStep
    PROVE  RequestInv'
<1>1. PICK t \in Tasks, c \in Outcomes : accept_inventory_physical_consequence(t, c)
  BY DEF ConsequenceStep, In
<1>2. UNCHANGED request
  BY <1>1 DEF accept_inventory_physical_consequence
<1>3. CASE c.rma = None \/ ReturnSelection(c) = None
  <2>1. UNCHANGED <<rma, attention>>
    BY <1>1, <1>3 DEF accept_inventory_physical_consequence, OpenReturn
  <2> QED  BY <1>2, <2>1, RmasQuiet, KeptCounts, RequestsQuiet
<1>4. CASE c.rma # None /\ ReturnSelection(c) # None
  <2> DEFINE r == c.rma
             row == OpenedRow(rma[r], c, t)
  <2>1. r \in Authorized /\ row \in RmaRow /\ rma' = [rma EXCEPT ![r] = row] /\ row.request = rma[r].request
    BY <1>1, <1>4, OpenedReturn DEF SamePart
  <2>2. attention' = rebuild_rma_attention(attention, r, rma'[r])
    BY <1>1, <1>4 DEF accept_inventory_physical_consequence, OpenReturn
  <2> HIDE DEF row, r
  <2>3. row # None /\ r \in Rmas
    BY <2>1, TagAssumption, AuthorizedRow
  <2>4. rma'[r] = row /\ \A s \in Rmas : s # r => rma'[s] = rma[s]
    BY <2>1, <2>3 DEF RmaType
  <2>5. Authorized' = Authorized
    BY <2>1, <2>3, <2>4 DEF Authorized
  <2>6. \A s \in Authorized : rma'[s].request = rma[s].request
    BY <2>1, <2>4 DEF Authorized
  <2>7. \A q : RmasOf(q)' = RmasOf(q)
    BY <2>5, <2>6 DEF RmasOf
  <2>8. \A q : PartialKey(q) \in attention' <=> PartialKey(q) \in attention
    BY <2>2, <2>3, RmaAttention
  <2> QED  BY <1>2, <2>7, <2>8, RequestsQuiet
<1> QED  BY <1>3, <1>4

(* Rebuilding memberships does not touch the attention of requests. *)
LEMMA MembershipPartial ==
    ASSUME NEW T \in SUBSET (Tags \X Rmas), NEW members, NEW rmas, NEW lin,
           attention' = rebuild_fault_tag_membership_attention(attention, T, members, rmas, lin)
    PROVE  \A q : PartialKey(q) \in attention' <=> PartialKey(q) \in attention
<1>1. MembershipsRebuilt(attention', attention, T, members, rmas)
  BY MembershipAttention
<1> QED  BY <1>1 DEF MembershipsRebuilt

LEMMA TagStepPartial ==
    ASSUME TagInv, TagStep
    PROVE  \A q : PartialKey(q) \in attention' <=> PartialKey(q) \in attention
<1> DEFINE Goal == \A q : PartialKey(q) \in attention' <=> PartialKey(q) \in attention
<1>1. ASSUME NEW g \in Tags, archive_or_restore(g) PROVE Goal
  <2> DEFINE T == {<<g, r>> : r \in MembersOf(g)}
  <2>1. T \in SUBSET (Tags \X Rmas)
    BY DEF MembersOf
  <2>2. attention' = rebuild_fault_tag_membership_attention(attention, T, member, rma, lineage)
    BY <1>1 DEF archive_or_restore
  <2> HIDE DEF T
  <2> QED  BY <2>1, <2>2, MembershipPartial
<1>2. ASSUME NEW g \in Tags, NEW h \in Tags, NEW S \in SUBSET Authorized, resend(g, h, S) PROVE Goal
  <2> DEFINE T == {<<g, r>> : r \in S}
  <2>1. T \in SUBSET (Tags \X Rmas)
    BY DEF Authorized
  <2>2. attention' = rebuild_fault_tag_membership_attention(attention, T, member', rma, lineage')
    BY <1>2 DEF resend
  <2> HIDE DEF T
  <2> QED  BY <2>1, <2>2, MembershipPartial
<1>3. In(Tags) \subseteq Tags
  BY DEF In
<1>4. UNCHANGED attention => Goal
  OBVIOUS
<1> HIDE DEF Goal
<1>5. Goal
  BY <1>1, <1>2, <1>3, <1>4
     DEF TagStep, create_fault_tag_draft, update_fault_tag_draft, accept_fault_tag_submission, hard_delete_tag,
         replacement, stockVars
<1> QED  BY <1>5 DEF Goal

LEMMA SubmittedCounts ==
    ASSUME RequestInv, NEW T \in SUBSET Requests, SubmissionTargets(T)
    PROVE  RequestInv'
<1>1. UNCHANGED <<rma, attention>> /\ \A q \in Requests : RmasOf(q)' = RmasOf(q)
  BY DEF SubmissionTargets, RmasOf, Authorized
<1>2. ASSUME NEW q \in T
      PROVE  /\ request'[q] \in Request
             /\ CountOk(request'[q], Cardinality(RmasOf(q)), PartialKey(q) \in attention)
  <2> DEFINE row == accept_submission(request[q])
  <2>1. request[q] \in Request /\ request[q] # None /\ request[q].state = "draft"
    BY RequestedRow DEF SubmissionTargets, CanSubmit
  <2>2. row \in Request /\ row.state \notin Answered /\ row.authorized = request[q].authorized
    BY <2>1, RequestRowEdits
  <2>3. request'[q] = row
    BY DEF SubmissionTargets
  <2> HIDE DEF row
  <2>4. row # None
    BY <2>2, StockAssumption
  <2>5. Cardinality(RmasOf(q)) = 0 /\ request[q].authorized = 0
    BY <2>1, RmasCounted, DraftUnanswered DEF RequestInv
  <2>6. CountOk(row, Cardinality(RmasOf(q)), PartialKey(q) \in attention)
    BY <2>2, <2>4, <2>5, NoAnswer DEF RequestInv
  <2> QED  BY <2>2, <2>3, <2>6
<1>3. \A q \in Requests : q \notin T => request'[q] = request[q]
  BY DEF SubmissionTargets
<1>4. request' \in [Requests -> Opt(Request)]
  <2>1. request' = [q \in Requests |-> request'[q]]
    BY DEF SubmissionTargets
  <2>2. \A q \in Requests : request'[q] \in Opt(Request)
    BY <1>2, <1>3 DEF RequestInv, Opt
  <2> QED  BY <2>1, <2>2
<1> QED  BY <1>1, <1>2, <1>3, <1>4, RequestsKept

LEMMA CountsKept ==
    ASSUME ProposalInv, UnitInv, TagInv, ShownInv, RequestInv, Next
    PROVE  RequestInv'
<1>0. RmaType
  BY DEF TagInv
<1>00. ASSUME UNCHANGED <<request, rma, attention>> PROVE RequestInv'
  BY <1>00, RmasQuiet, KeptCounts, RequestsQuiet
<1>1. CASE NeedStep \/ UnitStep \/ LogisticsStep
  BY <1>00, <1>1, NeedFrame, UnitFrame, LogisticsFrame
<1>2. CASE RequestStep \/ RmaStep \/ ConsequenceStep
  BY <1>0, <1>2, RequestStepCounts, RmaStepCounts, ConsequenceCounts
<1>3. CASE TagStep
  BY <1>3, TagFrame, TagStepRmas, TagStepPartial, KeptCounts, RequestsQuiet
<1>4. CASE WarehouseMoves
  <2>1. PICK T \in SUBSET (Tags \X Rmas), s \in MemberState : Warehouse(T, s)
    BY <1>4, MovedMembers
  <2>2. \A q : PartialKey(q) \in attention' <=> PartialKey(q) \in attention
    BY <2>1, MembershipPartial DEF Warehouse
  <2> QED  BY <1>4, <2>2, WarehouseMovesKeep, WarehouseMovesFrame, KeptCounts, RequestsQuiet
<1>5. CASE OtherStep
  <2>1. ASSUME NEW g \in Tags, correct_false_fault_tag_submission(g) PROVE RequestInv'
    BY <2>1, FalseSubmissionRmas, KeptCounts, RequestsQuiet DEF correct_false_fault_tag_submission
  <2>2. ASSUME NEW t \in Tasks, NEW d \in Consequences, correct_inventory_physical_consequence(t, d)
        PROVE  RequestInv'
    <3> DEFINE r == outcome[t].rma
    <3>1. UNCHANGED <<request, rma>> /\ t \in Reviewed
      BY <2>2 DEF correct_inventory_physical_consequence, correct_physical_consequence
    <3>2. attention' = attention \/ (r # None /\ attention' = rebuild_rma_attention(attention, r, rma[r]))
      BY <2>2 DEF correct_inventory_physical_consequence, correct_physical_consequence
    <3>3. r # None => r \in Rmas
      BY <3>1 DEF ShownInv, ObligationGrounded, Opt, Authorized
    <3> HIDE DEF r
    <3>4. \A q : PartialKey(q) \in attention' <=> PartialKey(q) \in attention
      BY <3>2, <3>3, RmaAttention
    <3> QED  BY <3>1, <3>4, RmasQuiet, KeptCounts, RequestsQuiet
  <2>3. ASSUME NEW q \in Requests, hard_delete_untouched_request(q) PROVE RequestInv'
    <3>1. /\ request' = [request EXCEPT ![q] = None] /\ UNCHANGED <<rma, attention>> /\ RmasOf(q) = {}
          /\ q \in Requested /\ request[q].state = "draft"
      BY <2>3 DEF hard_delete_untouched_request, hard_delete_request, _delete_rows, RequestDeletable
    <3>2. Cardinality(RmasOf(q)) = 0 /\ PartialKey(q) \notin attention
      BY <3>1, RequestedRow, RmasCounted, DraftUnanswered DEF RequestInv
    <3>3. CountOk(None, Cardinality(RmasOf(q)), PartialKey(q) \in attention)
      BY <3>2 DEF CountOk
    <3> QED  BY <3>1, <3>3, OneRequest DEF Opt
  <2>4. CASE UNCHANGED <<request, rma, attention>>
    BY <1>00, <2>4
  <2> QED  BY <1>5, <2>1, <2>2, <2>3, <2>4, SubmittedCounts
           DEF OtherStep, stockVars, attach_origin_rma, hard_delete_untouched_unit, hard_delete_unit, _delete_rows
<1> QED  BY <1>1, <1>2, <1>3, <1>4, <1>5, Steps DEF StockStep

LEMMA RequestInvariant == Spec => []RequestInv
<1>1. Init => RequestInv
  <2> SUFFICES ASSUME Init PROVE RequestInv
    OBVIOUS
  <2>1. request = [q \in Requests |-> None] /\ rma = [r \in Rmas |-> None] /\ attention = {}
    BY DEF Init, StockInit
  <2>2. ASSUME NEW q \in Requests PROVE CountOk(request[q], Cardinality(RmasOf(q)), PartialKey(q) \in attention)
    <3>1. RmasOf(q) = {}
      BY <2>1 DEF RmasOf, Authorized
    <3>2. Cardinality(RmasOf(q)) = 0
      BY <3>1, FS_EmptySet
    <3> QED  BY <2>1, <3>2 DEF CountOk
  <2> QED  BY <2>1, <2>2 DEF RequestInv, Opt
<1>2. (ProposalInv /\ UnitInv) /\ (ProposalInv /\ TagInv) /\ ShownInv /\ RequestInv /\ [Next]_vars => RequestInv'
  <2>1. ASSUME RequestInv, UNCHANGED vars PROVE RequestInv'
    BY <2>1, RmasQuiet, KeptCounts, RequestsQuiet DEF vars, stockVars
  <2> QED  BY <2>1, CountsKept
<1> QED  BY <1>1, <1>2, UnitInvariant, TagInvariant, ShownInvariant, PTL DEF Spec

(* The count of authorisations of a request is the number of its RMAs; a     *)
(* request with RMAs has a reference and is partial, and shown as partial,   *)
(* exactly while fewer RMAs than submitted parts came                        *)
(* (accept_rma_authorization_batch, AuthorizedState, CanSubmit,              *)
(* cancel_or_reject_spare_request, correct_false_submission).                *)
THEOREM RequestsCounted == Spec => []RequestCounts
<1>1. RequestInv => RequestCounts
  <2> SUFFICES ASSUME RequestInv, NEW q \in Requested
               PROVE  LET n == Cardinality(RmasOf(q))  row == request[q] IN
                      /\ row.authorized = n
                      /\ n > 0 => /\ row.state = IF 0 < row.quantity /\ n < row.quantity
                                                 THEN "partially_authorized" ELSE "authorized"
                                  /\ row.sr7 # None
                      /\ row.state = "partially_authorized" <=> <<"partial_rma_authorization", q>> \in attention
    BY DEF RequestCounts
  <2> DEFINE n == Cardinality(RmasOf(q))
  <2>1. request[q] # None /\ CountOk(request[q], n, PartialKey(q) \in attention)
    BY RequestedRow DEF RequestInv
  <2> HIDE DEF n
  <2>2. /\ request[q].authorized = n
        /\ n > 0 => /\ request[q].state = IF 0 < request[q].quantity /\ n < request[q].quantity
                                          THEN "partially_authorized" ELSE "authorized"
                    /\ request[q].sr7 # None
        /\ request[q].state = "partially_authorized" <=> <<"partial_rma_authorization", q>> \in attention
    BY <2>1 DEF CountOk, AuthorizedState, PartialKey
  <2> QED  BY <2>2 DEF n
<1> QED  BY <1>1, RequestInvariant, PTL

-----------------------------------------------------------------------------
(* What the commands on tags leave behind: tags, lineage and members. *)

LineageInv == \A l \in lineage : l[2] \in Tagged /\ l[3] \in Tagged

LEMMA OneTagged ==
    ASSUME TagInv, NEW g \in Tags, NEW row \in Tag, tag' = [tag EXCEPT ![g] = row]
    PROVE  Tagged' = Tagged \cup {g}
<1>1. row # None
  BY TagAssumption
<1> QED  BY <1>1 DEF TagInv, TagType, Tagged

LEMMA SubmissionTags ==
    ASSUME TagInv, NEW g \in Tags, NEW e \in BOOLEAN, accept_fault_tag_submission(g, e)
    PROVE  Tagged' = Tagged
<1> DEFINE n == Cardinality(MembersOf(g))
           row == SubmittedTag(tag[g], e, n)
<1>1. g \in Tagged /\ tag[g] \in Tag
  BY TaggedRow DEF accept_fault_tag_submission
<1>2. n \in Nat
  BY MembersPresent, InStateFinite
<1>3. tag' = [tag EXCEPT ![g] = row]
  BY DEF accept_fault_tag_submission, SubmittedTag
<1> HIDE DEF n
<1>4. row \in Tag
  BY <1>1, <1>2 DEF SubmittedTag, Tag
<1> HIDE DEF row
<1> QED  BY <1>1, <1>3, <1>4, OneTagged

LEMMA ReplacementTags ==
    ASSUME TagInv, NEW g \in Tags, NEW h \in Tags, NEW S, replacement(g, h, S)
    PROVE  Tagged' = Tagged \cup {h} /\ g \in Tagged
<1> DEFINE row == SupersededTag(tag[g])
<1>1. g \in Tagged /\ tag[g] \in Tag /\ g # h
  BY TaggedRow DEF replacement
<1>2. tag' = [tag EXCEPT ![g] = row, ![h] = FreshTag]
  BY DEF replacement, SupersededTag
<1>3. row \in Tag
  BY <1>1 DEF SupersededTag, Tag
<1> HIDE DEF row
<1>4. row # None /\ FreshTag # None
  BY <1>3, TagAssumption, FreshTagRow
<1> QED  BY <1>1, <1>2, <1>4 DEF TagInv, TagType, Tagged

LEMMA ArchiveTags ==
    ASSUME TagInv, NEW g \in Tags, archive_or_restore(g)
    PROVE  Tagged' = Tagged
<1> DEFINE row == [tag[g] EXCEPT !.archived = ~@, !.touched = TRUE]
<1>1. g \in Tagged /\ tag[g] \in Tag
  BY TaggedRow DEF archive_or_restore
<1>2. row \in Tag /\ tag' = [tag EXCEPT ![g] = row]
  BY <1>1 DEF archive_or_restore, Tag
<1> HIDE DEF row
<1> QED  BY <1>1, <1>2, OneTagged

LEMMA FalseSubmissionTags ==
    ASSUME TagInv, NEW g \in Tags, correct_false_fault_tag_submission(g)
    PROVE  Tagged' = Tagged
<1> DEFINE row == [tag[g] EXCEPT !.state = "draft", !.submitted = FALSE, !.count = 0,
                                 !.receipt = 0, !.final = 0, !.accepted = 0, !.rejected = 0]
<1>1. g \in Tagged /\ tag[g] \in Tag
  BY TaggedRow DEF correct_false_fault_tag_submission
<1>2. row \in Tag
  BY <1>1 DEF Tag
<1>3. tag' = [tag EXCEPT ![g] = row]
  BY DEF correct_false_fault_tag_submission
<1> HIDE DEF row
<1> QED  BY <1>1, <1>2, <1>3, OneTagged

LEMMA TagStepLineage ==
    ASSUME TagInv, LineageInv, TagStep
    PROVE  LineageInv'
<1>0. In(Tags) \subseteq Tags
  BY DEF In
<1>00. ASSUME Tagged \subseteq Tagged', UNCHANGED lineage PROVE LineageInv'
  BY <1>00 DEF LineageInv
<1>1. ASSUME NEW g \in Tags, NEW S \in SUBSET Authorized, create_fault_tag_draft(g, S) PROVE LineageInv'
  BY <1>00, <1>1, FreshTagRow, OneTagged DEF create_fault_tag_draft
<1>2. ASSUME NEW g \in Tags, NEW S \in SUBSET Authorized, update_fault_tag_draft(g, S) PROVE LineageInv'
  BY <1>00, <1>2 DEF update_fault_tag_draft, Tagged
<1>3. ASSUME NEW g \in Tags, NEW e \in BOOLEAN, accept_fault_tag_submission(g, e) PROVE LineageInv'
  BY <1>00, <1>3, SubmissionTags DEF accept_fault_tag_submission
<1>4. ASSUME NEW g \in Tags, archive_or_restore(g) PROVE LineageInv'
  BY <1>00, <1>4, ArchiveTags DEF archive_or_restore
<1>5. ASSUME NEW g \in Tags, hard_delete_tag(g) PROVE LineageInv'
  <2>1. UNCHANGED lineage /\ Tagged \ {g} \subseteq Tagged' /\ \A l \in lineage : g # l[2] /\ g # l[3]
    BY <1>5 DEF hard_delete_tag, TagDeletable, TagInv, TagType, Tagged
  <2> QED  BY <2>1 DEF LineageInv
<1>6. ASSUME NEW g \in Tags, NEW h \in Tags, NEW k, g \in Tagged, Tagged' = Tagged \cup {h},
             lineage' = lineage \cup {<<k, g, h>>}
      PROVE  LineageInv'
  BY <1>6 DEF LineageInv
<1>7. ASSUME NEW g \in Tags, NEW h \in Tags, NEW S \in SUBSET Authorized, replacement(g, h, S) PROVE LineageInv'
  BY <1>6, <1>7, ReplacementTags DEF replacement
<1>8. ASSUME NEW g \in Tags, NEW h \in Tags, NEW S \in SUBSET Authorized, resend(g, h, S) PROVE LineageInv'
  <2>1. g \in Tagged /\ Tagged' = Tagged \cup {h} /\ lineage' = lineage \cup {<<"resend_of", g, h>>}
    BY <1>8, FreshTagRow, OneTagged DEF resend
  <2> QED  BY <1>6, <2>1
<1> QED  BY <1>0, <1>1, <1>2, <1>3, <1>4, <1>5, <1>7, <1>8 DEF TagStep

LEMMA WarehouseTags ==
    ASSUME TagInv, WarehouseMoves
    PROVE  Tagged \subseteq Tagged'
<1>1. PICK T \in SUBSET (Tags \X Rmas), s \in MemberState :
        Warehouse(T, s) /\ \A x \in T : member[x[1]][x[2]] # None
  BY MovedMembers
<1>2. TagInv'
  BY WarehouseMovesKeep
<1>3. ASSUME NEW g \in Tagged PROVE g \in Tagged'
  <2>1. CASE \E x \in T : x[1] = g
    <3>1. PICK x \in T : x[1] = g
      BY <2>1
    <3> DEFINE r == x[2]
    <3>2. g \in Tags /\ r \in Rmas /\ x = <<g, r>> /\ member[g][r] # None
      BY <1>1, <3>1
    <3>3. member[g][r] \in Membership
      BY <3>2, MemberRow
    <3>4. member'[g][r] = [member[g][r] EXCEPT !.state = s]
      BY <1>1, <3>2 DEF Warehouse
    <3> HIDE DEF r
    <3>5. r \in Present(member'[g])
      BY <3>2, <3>3, <3>4, MemberEdits DEF Present
    <3> QED  BY <1>2, <3>2, <3>5 DEF TagInv, TagOk, Tagged
  <2>2. CASE ~\E x \in T : x[1] = g
    BY <1>1, <2>2 DEF Warehouse, Tagged
  <2> QED  BY <2>1, <2>2
<1> QED  BY <1>3

(* Where the unit of a membership comes from. *)
MembersMove ==
    \A g \in Tags, r \in Rmas : member'[g][r] # None =>
        \/ member[g][r] # None /\ member'[g][r].unit = member[g][r].unit
        \/ r \in Authorized /\ rma[r].obligation = "open" /\ member'[g][r].unit = rma[r].returned

LEMMA EditedMembers ==
    ASSUME TagInv, NEW g \in Tags, \A h \in Tags : h # g => member'[h] = member[h],
           \A r \in Rmas : member'[g][r] # None =>
              \/ member[g][r] # None /\ member'[g][r].unit = member[g][r].unit
              \/ r \in Authorized /\ rma[r].obligation = "open" /\ member'[g][r].unit = rma[r].returned
    PROVE  MembersMove
BY DEF MembersMove

LEMMA InsertedMembers ==
    ASSUME RmaType, NEW S \in SUBSET Authorized, \A r \in S : rma[r].obligation = "open"
    PROVE  \A r \in Rmas : InsertedRows(S)[r] # None =>
              r \in Authorized /\ rma[r].obligation = "open" /\ InsertedRows(S)[r].unit = rma[r].returned
<1>1. \A r \in S : _insert_membership(r).unit = rma[r].returned
  BY InsertedRow
<1> QED  BY <1>1 DEF InsertedRows

LEMMA TagStepMembers ==
    ASSUME TagInv, TagStep
    PROVE  MembersMove
<1>0. In(Tags) \subseteq Tags /\ RmaType
  BY DEF In, TagInv
<1>1. ASSUME NEW g \in Tags, NEW S \in SUBSET Authorized, create_fault_tag_draft(g, S) PROVE MembersMove
  <2>1. member' = [member EXCEPT ![g] = InsertedRows(S)] /\ \A r \in S : rma[r].obligation = "open"
    BY <1>1 DEF create_fault_tag_draft, insert_draft, require_membership_eligible, InsertedRows
  <2>2. member'[g] = InsertedRows(S) /\ \A h \in Tags : h # g => member'[h] = member[h]
    BY <2>1 DEF TagInv, TagType
  <2> QED  BY <1>0, <2>1, <2>2, InsertedMembers, EditedMembers
<1>2. ASSUME NEW g \in Tags, NEW h \in Tags, NEW S \in SUBSET Authorized, resend(g, h, S) PROVE MembersMove
  <2>1. member' = [member EXCEPT ![h] = InsertedRows(S)] /\ \A r \in S : rma[r].obligation = "open"
    BY <1>2 DEF resend, insert_draft, require_membership_eligible, InsertedRows
  <2>2. member'[h] = InsertedRows(S) /\ \A k \in Tags : k # h => member'[k] = member[k]
    BY <2>1 DEF TagInv, TagType
  <2> QED  BY <1>0, <2>1, <2>2, InsertedMembers, EditedMembers
<1>3. ASSUME NEW g \in Tags, NEW S \in SUBSET Authorized, update_fault_tag_draft(g, S) PROVE MembersMove
  <2> DEFINE f(r) == member[g][r] # None /\ member[g][r].history
             rows == [r \in Rmas |-> IF r \notin S THEN None ELSE [_insert_membership(r) EXCEPT !.history = f(r)]]
  <2>1. member' = [member EXCEPT ![g] = rows] /\ \A r \in S : rma[r].obligation = "open"
    BY <1>3 DEF update_fault_tag_draft, replace_draft, require_membership_eligible
  <2>2. ASSUME NEW r \in S PROVE rows[r].unit = rma[r].returned
    <3>1. _insert_membership(r).unit = rma[r].returned /\ _insert_membership(r) \in Membership /\ r \in Rmas
      BY <1>0, InsertedRow DEF Authorized
    <3> HIDE DEF f
    <3> QED  BY <3>1 DEF Membership
  <2>3. \A r \in Rmas : r \notin S => rows[r] = None
    OBVIOUS
  <2> HIDE DEF rows
  <2>4. member'[g] = rows /\ \A h \in Tags : h # g => member'[h] = member[h]
    BY <2>1 DEF TagInv, TagType
  <2> QED  BY <2>1, <2>2, <2>3, <2>4, EditedMembers
<1>4. ASSUME NEW g \in Tags, NEW e \in BOOLEAN, accept_fault_tag_submission(g, e) PROVE MembersMove
  <2>1. ASSUME NEW r \in Rmas, member'[g][r] # None
        PROVE  member[g][r] # None /\ member'[g][r].unit = member[g][r].unit
    <3>1. member'[g][r] = IF member[g][r] = None THEN None
                          ELSE [member[g][r] EXCEPT !.state = "submitted_awaiting_receipt", !.history = TRUE]
      BY <1>4 DEF accept_fault_tag_submission, TagInv, TagType
    <3>2. member[g][r] # None
      BY <2>1, <3>1
    <3>3. member[g][r] \in Membership
      BY <3>2, MemberRow
    <3> QED  BY <3>1, <3>2, <3>3 DEF Membership
  <2>2. \A h \in Tags : h # g => member'[h] = member[h]
    BY <1>4 DEF accept_fault_tag_submission, TagInv, TagType
  <2> QED  BY <2>1, <2>2, EditedMembers
<1>5. ASSUME NEW g \in Tags, NEW h \in Tags, NEW S \in SUBSET Authorized, replacement(g, h, S) PROVE MembersMove
  <2>0. g # h /\ \A r \in S : rma[r].obligation = "open"
    BY <1>5 DEF replacement, require_membership_eligible
  <2>1. member'[h] = InsertedRows(S) /\ \A k \in Tags : k # g /\ k # h => member'[k] = member[k]
    BY <1>5, <2>0 DEF replacement, InsertedRows, TagInv, TagType
  <2>2. \A r \in Rmas : member'[g][r] = IF r \in ActiveIn(g) THEN [member[g][r] EXCEPT !.state = "superseded"]
                                        ELSE member[g][r]
    BY <1>5, <2>0 DEF replacement, TagInv, TagType
  <2>3. ASSUME NEW r \in Rmas, member'[g][r] # None
        PROVE  member[g][r] # None /\ member'[g][r].unit = member[g][r].unit
    <3>1. CASE r \in ActiveIn(g)
      <4>1. member[g][r] \in Membership /\ member[g][r] # None
        BY <3>1, MemberRow DEF ActiveIn, MembersOf
      <4> QED  BY <2>2, <3>1, <4>1 DEF Membership
    <3>2. CASE r \notin ActiveIn(g)
      BY <2>2, <2>3, <3>2
    <3> QED  BY <3>1, <3>2
  <2> QED  BY <1>0, <2>0, <2>1, <2>3, InsertedMembers DEF MembersMove
<1>6. ASSUME NEW g \in Tags, hard_delete_tag(g) PROVE MembersMove
  <2>1. (\A r \in Rmas : member'[g][r] = None) /\ \A h \in Tags : h # g => member'[h] = member[h]
    BY <1>6 DEF hard_delete_tag, TagInv, TagType
  <2> QED  BY <2>1, EditedMembers
<1>7. ASSUME NEW g \in Tags, archive_or_restore(g) PROVE MembersMove
  BY <1>7 DEF archive_or_restore, MembersMove
<1> QED  BY <1>0, <1>1, <1>2, <1>3, <1>4, <1>5, <1>6, <1>7 DEF TagStep

LEMMA FalseSubmissionMembers ==
    ASSUME TagInv, NEW g \in Tags, correct_false_fault_tag_submission(g)
    PROVE  MembersMove
<1>1. ASSUME NEW r \in Rmas, member'[g][r] # None
      PROVE  member[g][r] # None /\ member'[g][r].unit = member[g][r].unit
  <2>1. member'[g][r] = IF member[g][r] = None THEN None ELSE [member[g][r] EXCEPT !.state = "draft"]
    BY DEF correct_false_fault_tag_submission, TagInv, TagType
  <2>2. member[g][r] # None
    BY <1>1, <2>1
  <2>3. member[g][r] \in Membership
    BY <2>2, MemberRow
  <2> QED  BY <2>1, <2>2, <2>3 DEF Membership
<1>2. \A h \in Tags : h # g => member'[h] = member[h]
  BY DEF correct_false_fault_tag_submission, TagInv, TagType
<1> QED  BY <1>1, <1>2, EditedMembers

LEMMA WarehouseMembers ==
    ASSUME TagInv, WarehouseMoves
    PROVE  MembersMove
<1>1. PICK T \in SUBSET (Tags \X Rmas), s \in MemberState :
        Warehouse(T, s) /\ \A x \in T : member[x[1]][x[2]] # None
  BY MovedMembers
<1>2. ASSUME NEW g \in Tags, NEW r \in Rmas, member'[g][r] # None
      PROVE  member[g][r] # None /\ member'[g][r].unit = member[g][r].unit
  <2>1. CASE <<g, r>> \in T
    <3>1. member[g][r] # None
      BY <1>1, <2>1
    <3>2. member[g][r] \in Membership
      BY <3>1, MemberRow
    <3>3. member'[g][r] = [member[g][r] EXCEPT !.state = s]
      BY <1>1, <2>1 DEF Warehouse
    <3> QED  BY <3>1, <3>2, <3>3 DEF Membership
  <2>2. CASE <<g, r>> \notin T
    BY <1>1, <1>2, <2>2 DEF Warehouse
  <2> QED  BY <2>1, <2>2
<1> QED  BY <1>2 DEF MembersMove

-----------------------------------------------------------------------------
(* Rows that other rows name: what exists stays, but for the hard deletes. *)

DeviceType == device \in [Devices -> Opt({"unknown", "faulty", "removed"})]

LEMMA DevicesStay ==
    ASSUME ProposalInv, DeviceType, Next
    PROVE  DeviceType' /\ Registered \subseteq Registered'
<1>0. None \notin {"unknown", "faulty", "removed"}
  BY StockAssumption
<1>00. ASSUME UNCHANGED device PROVE DeviceType' /\ Registered \subseteq Registered'
  BY <1>00 DEF DeviceType, Registered
<1>1. CASE NeedStep
  <2>1. ASSUME NEW d \in Devices, NEW c \in {"unknown", "faulty"}, register_device_part_unit(d, c)
        PROVE  DeviceType' /\ Registered \subseteq Registered'
    BY <1>0, <2>1 DEF register_device_part_unit, DeviceType, Registered, Opt
  <2> QED  BY <1>00, <1>1, <2>1
           DEF NeedStep, In, create_spare_need_draft, set_spare_need_planned_quantity,
               change_spare_need_lifecycle, hard_delete_need, _delete_rows
<1>2. CASE ConsequenceStep
  <2>1. PICK t \in Tasks, c \in Outcomes : accept_inventory_physical_consequence(t, c)
    BY <1>2 DEF ConsequenceStep, In
  <2>2. device' = [d \in Devices |-> IF d = c.removed THEN "removed" ELSE device[d]]
    BY <2>1 DEF accept_inventory_physical_consequence
  <2> QED  BY <1>0, <2>2 DEF DeviceType, Registered, Opt
<1>3. CASE UnitStep \/ RequestStep \/ RmaStep \/ LogisticsStep \/ TagStep \/ WarehouseMoves
  BY <1>00, <1>3, UnitFrame, RequestFrame, RmaFrame, LogisticsFrame, TagFrame, WarehouseMovesFrame
<1>4. CASE OtherStep
  BY <1>00, <1>4 DEF OtherStep, stockVars, SubmissionTargets, attach_origin_rma, correct_false_fault_tag_submission,
                     correct_inventory_physical_consequence, correct_physical_consequence,
                     hard_delete_untouched_unit, hard_delete_unit, hard_delete_untouched_request,
                     hard_delete_request, _delete_rows
<1> QED  BY <1>1, <1>2, <1>3, <1>4, Steps DEF StockStep

LEMMA RmasStay ==
    ASSUME ProposalInv, TagInv, Next
    PROVE  Authorized \subseteq Authorized'
<1>0. RmaType
  BY DEF TagInv
<1>00. ASSUME UNCHANGED rma PROVE Authorized \subseteq Authorized'
  BY <1>00 DEF Authorized
<1>1. CASE NeedStep \/ UnitStep \/ RequestStep \/ LogisticsStep
  BY <1>00, <1>1, NeedFrame, UnitFrame, RequestFrame, LogisticsFrame
<1>2. CASE RmaStep \/ ConsequenceStep
  BY <1>0, <1>2, RmaStepReturns, ConsequenceReturns DEF ReturnsMove
<1>3. CASE TagStep \/ WarehouseMoves
  BY <1>3, TagStepRmas, WarehouseMovesKeep DEF RmasKept
<1>4. CASE OtherStep
  <2>1. ASSUME NEW g \in Tags, correct_false_fault_tag_submission(g) PROVE Authorized \subseteq Authorized'
    BY <2>1, FalseSubmissionRmas DEF RmasKept
  <2> QED  BY <1>00, <1>4, <2>1
           DEF OtherStep, stockVars, SubmissionTargets, attach_origin_rma,
               correct_inventory_physical_consequence, correct_physical_consequence,
               hard_delete_untouched_unit, hard_delete_unit, hard_delete_untouched_request,
               hard_delete_request, _delete_rows
<1> QED  BY <1>1, <1>2, <1>3, <1>4, Steps DEF StockStep

UnitDeleted(u) ==
    /\ unit' = [unit EXCEPT ![u] = None] /\ Stocked' = Stocked \ {u} /\ UnitDeletable(u)
    /\ \A g \in Tagged : \A r \in MembersOf(g) : member[g][r].unit # u
    /\ UNCHANGED <<device, need, reserved, request, rma, outcome, touched, logistics, tag, member, lineage>>

LEMMA UnitsStay ==
    ASSUME ProposalInv, UnitInv, TagInv, Next
    PROVE  Stocked \subseteq Stocked' \/ \E u \in Units : UnitDeleted(u)
<1>00. ASSUME UNCHANGED unit PROVE Stocked \subseteq Stocked'
  BY <1>00 DEF Stocked
<1>1. CASE NeedStep \/ RequestStep \/ LogisticsStep \/ TagStep \/ WarehouseMoves
  BY <1>00, <1>1, NeedFrame, RequestFrame, LogisticsFrame, TagFrame, WarehouseMovesFrame
<1>2. CASE UnitStep
  BY <1>2, UnitStepStocks
<1>3. CASE RmaStep
  <2>1. ASSUME NEW r \in Rmas, NEW u \in Units, NEW c \in UnitConditions, record_rma_inbound_receipt(r, u, c)
        PROVE  Stocked \subseteq Stocked'
    <3> DEFINE new == SparePartUnit(c, "direct_rma_receipt", r, None)
    <3>1. unit' = [unit EXCEPT ![u] = new]
      BY <2>1 DEF record_rma_inbound_receipt
    <3>2. new # None
      BY NewUnit DEF Opt
    <3> HIDE DEF new
    <3> QED  BY <3>1, <3>2, OneStocked DEF UnitInv
  <2> QED  BY <1>00, <1>3, <2>1, RmaFrame DEF In
<1>4. CASE ConsequenceStep
  BY <1>4, ConsequenceStocks DEF ConsequenceStep, In
<1>5. CASE OtherStep
  <2>1. ASSUME NEW u \in Units, hard_delete_untouched_unit(u) PROVE UnitDeleted(u)
    <3>1. /\ unit' = [unit EXCEPT ![u] = None] /\ UnitDeletable(u)
          /\ \A g \in Tagged : \A r \in MembersOf(g) : member[g][r].unit # u
          /\ UNCHANGED <<device, need, reserved, request, rma, outcome, touched, logistics, tag, member, lineage>>
      BY <2>1 DEF hard_delete_untouched_unit, hard_delete_unit, _delete_rows, tagVars
    <3>2. Stocked' = Stocked \ {u}
      BY <3>1 DEF Stocked, UnitInv, UnitType
    <3> QED  BY <3>1, <3>2 DEF UnitDeleted
  <2>2. ASSUME NEW u \in Units, NEW r \in Rmas, attach_origin_rma(u, r) PROVE Stocked \subseteq Stocked'
    BY <2>2, AttachedStocks
  <2> QED  BY <1>00, <1>5, <2>1, <2>2
           DEF OtherStep, stockVars, SubmissionTargets, correct_false_fault_tag_submission,
               correct_inventory_physical_consequence, correct_physical_consequence,
               hard_delete_untouched_request, hard_delete_request, _delete_rows
<1> QED  BY <1>1, <1>2, <1>3, <1>4, <1>5, Steps DEF StockStep

-----------------------------------------------------------------------------
(* Needs that reservations and requests name. *)

NeedType == need \in [Needs -> Opt(Need)]
NamedNeeds == \A q \in Requested : request[q].ever \subseteq Needed
ReservedNeeds == \A u \in Units : reserved[u] # None => reserved[u].need \in Opt(Needed \cap touched)

NeedInv == NeedType /\ NamedNeeds /\ ReservedNeeds

LEMMA NeedRowEdits ==
    ASSUME NEW old \in Need
    PROVE  /\ \A q \in Nat : [old EXCEPT !.quantity = q] \in Need
           /\ \A s \in NeedStates : [old EXCEPT !.state = s] \in Need
           /\ \A d \in Devices : [old EXCEPT !.contributors = @ \cup {d}] \in Need
BY DEF Need

LEMMA NewNeeds ==
    /\ \A q \in Nat : ManualNeed(q) \in Need
    /\ \A d \in Devices : NeedWithContributor(d) \in Need
BY DEF Need, NeedStates, ManualNeed, NeedWithContributor

LEMMA OneNeed ==
    ASSUME NeedType, NEW n \in Needs, NEW row \in Need, need' = [need EXCEPT ![n] = row]
    PROVE  NeedType' /\ Needed \subseteq Needed'
<1>1. row # None
  BY StockAssumption
<1> QED  BY <1>1 DEF NeedType, Needed, Opt

LEMMA NeededRow ==
    ASSUME NeedType, NEW n \in Needed
    PROVE  n \in Needs /\ need[n] \in Need
BY DEF NeedType, Needed, Opt

LEMMA FaultNeeds ==
    ASSUME NeedType, NEW d \in Devices, FaultRaisesNeed(d)
    PROVE  NeedType' /\ Needed \subseteq Needed'
<1> DEFINE active == active_need_for(SrOf[d], BomOf[d])
<1>1. CASE active # {}
  <2>1. active \subseteq Needed
    BY DEF active_need_for
  <2>2. need' = [n \in Needs |-> IF n \in active THEN [need[n] EXCEPT !.contributors = @ \cup {d}] ELSE need[n]]
    BY <1>1 DEF FaultRaisesNeed
  <2> HIDE DEF active
  <2>3. ASSUME NEW n \in active PROVE need'[n] \in Need /\ need'[n] # None
    <3>1. n \in Needs /\ need[n] \in Need
      BY <2>1, NeededRow
    <3>2. need'[n] \in Need
      BY <2>2, <3>1, NeedRowEdits
    <3> QED  BY <3>2, StockAssumption
  <2>4. \A n \in Needs : n \notin active => need'[n] = need[n]
    BY <2>2
  <2>5. need' \in [Needs -> Opt(Need)]
    BY <2>2, <2>3, <2>4 DEF NeedType, Opt
  <2> QED  BY <2>3, <2>4, <2>5 DEF NeedType, Needed
<1>2. CASE active = {}
  <2>1. PICK n \in Needs : need' = [need EXCEPT ![n] = NeedWithContributor(d)]
    BY <1>2 DEF FaultRaisesNeed
  <2> QED  BY <2>1, NewNeeds, OneNeed
<1> QED  BY <1>1, <1>2

NeedDeleted(n) ==
    /\ Needed' = Needed \ {n} /\ touched' = touched /\ n \notin touched
    /\ \A q \in Requested : n \notin request[q].ever

LEMMA NeedStepNeeds ==
    ASSUME NeedType, NeedStep
    PROVE  NeedType' /\ (Needed \subseteq Needed' \/ \E n \in Needs : NeedDeleted(n))
<1>0. 1..MaxQuantity \subseteq Nat /\ In(Needs) \subseteq Needs /\ In(Devices) \subseteq Devices
  BY StockAssumption DEF In
<1>1. ASSUME NEW n \in Needs, NEW q \in Nat, create_spare_need_draft(n, q)
      PROVE  NeedType' /\ Needed \subseteq Needed'
  BY <1>1, NewNeeds, OneNeed DEF create_spare_need_draft
<1>2. ASSUME NEW n \in Needs, NEW q \in Nat, set_spare_need_planned_quantity(n, q)
      PROVE  NeedType' /\ Needed \subseteq Needed'
  BY <1>2, NeededRow, NeedRowEdits, OneNeed DEF set_spare_need_planned_quantity
<1>3. ASSUME NEW n \in Needs, NEW s \in NeedStates, change_spare_need_lifecycle(n, s)
      PROVE  NeedType' /\ Needed \subseteq Needed'
  BY <1>3, NeededRow, NeedRowEdits, OneNeed DEF change_spare_need_lifecycle
<1>4. ASSUME NEW d \in Devices, NEW c, register_device_part_unit(d, c)
      PROVE  NeedType' /\ Needed \subseteq Needed'
  <2>1. CASE FaultRaisesNeed(d)
    BY <2>1, FaultNeeds
  <2>2. CASE UNCHANGED need
    BY <2>2 DEF NeedType, Needed
  <2> QED  BY <1>4, <2>1, <2>2 DEF register_device_part_unit
<1>5. ASSUME NEW n \in Needs, hard_delete_need(n) PROVE NeedType' /\ NeedDeleted(n)
  <2>1. /\ need' = [need EXCEPT ![n] = None] /\ touched' = touched /\ n \notin touched
        /\ \A q \in Requested : n \notin request[q].ever
    BY <1>5 DEF hard_delete_need, NeedDeletable, Untouched, _delete_rows
  <2> QED  BY <2>1 DEF NeedType, NeedDeleted, Needed, Opt
<1> QED  BY <1>0, <1>1, <1>2, <1>3, <1>4, <1>5 DEF NeedStep

LEMMA NeedsStay ==
    ASSUME NeedInv, NeedType', Needed \subseteq Needed', touched \subseteq touched', UNCHANGED <<request, reserved>>
    PROVE  NeedInv'
<1>1. NamedNeeds'
  BY DEF NeedInv, NamedNeeds, Requested
<1>2. ReservedNeeds'
  BY DEF NeedInv, ReservedNeeds, Opt
<1> QED  BY <1>1, <1>2 DEF NeedInv

LEMMA DeletedNeed ==
    ASSUME NeedInv, NeedType', NEW n \in Needs, NeedDeleted(n), UNCHANGED <<request, reserved>>
    PROVE  NeedInv'
<1>1. NamedNeeds'
  BY DEF NeedInv, NamedNeeds, Requested, NeedDeleted
<1>2. ReservedNeeds'
  BY DEF NeedInv, ReservedNeeds, Opt, NeedDeleted
<1> QED  BY <1>1, <1>2 DEF NeedInv

LEMMA ReservedNames ==
    ASSUME NeedInv, UNCHANGED <<need, request>>, touched \subseteq touched',
           \A u \in Units : reserved'[u] # None =>
              \/ reserved[u] # None /\ reserved'[u].need = reserved[u].need
              \/ reserved'[u].need \in Opt(Needed \cap touched')
    PROVE  NeedInv'
<1>1. Needed' = Needed
  BY DEF Needed
<1>2. NeedType' /\ NamedNeeds'
  BY <1>1 DEF NeedInv, NeedType, NamedNeeds, Requested
<1>3. ReservedNeeds'
  BY <1>1 DEF NeedInv, ReservedNeeds, Opt
<1> QED  BY <1>2, <1>3 DEF NeedInv

LEMMA RequestNames ==
    ASSUME NeedInv, UNCHANGED <<need, reserved>>, touched \subseteq touched',
           \A q \in Requested' : \/ q \in Requested /\ request'[q].ever = request[q].ever
                                 \/ request'[q].ever \subseteq Needed
    PROVE  NeedInv'
<1>1. Needed' = Needed
  BY DEF Needed
<1>2. NeedType' /\ NamedNeeds'
  BY <1>1 DEF NeedInv, NeedType, NamedNeeds
<1>3. ReservedNeeds'
  BY <1>1 DEF NeedInv, ReservedNeeds, Opt
<1> QED  BY <1>2, <1>3 DEF NeedInv

LEMMA ReservingNames ==
    ASSUME UnitType, NeedInv, NEW u \in Units, NEW t, NEW n \in Opt(Needs), reserve_for_task(u, t, n),
           n # None => n \in touched', UNCHANGED <<need, request>>, touched \subseteq touched'
    PROVE  NeedInv'
<1>1. reserved' = [reserved EXCEPT ![u] = [task |-> t, need |-> n]] /\ (n # None => n \in Needed)
  BY DEF reserve_for_task, CanReserve, require_active_need
<1>2. reserved'[u].need \in Opt(Needed \cap touched') /\ \A v \in Units : v # u => reserved'[v] = reserved[v]
  BY <1>1 DEF UnitType, Opt
<1> QED  BY <1>2, ReservedNames

LEMMA UnitStepNeeds ==
    ASSUME UnitInv, NeedInv, UnitStep
    PROVE  NeedInv'
<1>0. UnitType /\ UNCHANGED <<need, request>> /\ touched \subseteq touched'
  BY UnitFrame DEF UnitInv
<1>00. In(Units) \subseteq Units /\ Opt(In(Needs)) \subseteq Opt(Needs) /\ In(Needs) \subseteq Needs
  BY DEF In, Opt
<1>1. ASSUME UNCHANGED reserved PROVE NeedInv'
  BY <1>0, <1>1, ReservedNames
<1>2. ASSUME NEW u \in Units, NEW t, NEW n \in Opt(Needs), reserve_spare_part_unit_for_task(u, t, n)
      PROVE  NeedInv'
  BY <1>0, <1>2, ReservingNames DEF reserve_spare_part_unit_for_task
<1>3. ASSUME NEW u \in Units, release_spare_part_unit_reservation(u) PROVE NeedInv'
  <2>1. \A v \in Units : reserved'[v] # None => reserved[v] # None /\ reserved'[v] = reserved[v]
    BY <1>0, <1>3 DEF release_spare_part_unit_reservation, UnitType
  <2> QED  BY <1>0, <2>1, ReservedNames
<1>4. ASSUME NEW t, NEW t2, NEW U, apply_retry_relationship_clone(t, t2, U) PROVE NeedInv'
  <2>1. ASSUME NEW u \in Units, reserved'[u] # None
        PROVE  reserved[u] # None /\ reserved'[u].need = reserved[u].need
    <3>1. CASE u \in U
      <4>1. reserved[u] # None /\ reserved'[u] = [reserved[u] EXCEPT !.task = t2]
        BY <1>4, <3>1 DEF apply_retry_relationship_clone, preview_retry_relationship_clone, reassign_task_allocation
      <4>2. reserved[u] \in Reservation
        BY <1>0, <4>1 DEF UnitType, Opt
      <4> QED  BY <4>1, <4>2 DEF Reservation
    <3>2. CASE u \notin U
      BY <1>4, <2>1, <3>2 DEF apply_retry_relationship_clone
    <3> QED  BY <3>1, <3>2
  <2> QED  BY <1>0, <2>1, ReservedNames
<1>5. ASSUME NEW n \in Needs, NEW u \in Units, NEW t, record_local_need_fulfillment_selection(n, u, t)
      PROVE  NeedInv'
  <2>1. CASE t = None
    BY <1>1, <1>5, <2>1 DEF record_local_need_fulfillment_selection
  <2>2. CASE t # None
    BY <1>0, <1>5, <2>2, ReservingNames DEF record_local_need_fulfillment_selection, Opt
  <2> QED  BY <2>1, <2>2
<1>6. ASSUME NEW u, NEW c, NEW o, NEW r, NEW p, register_spare_part_unit(u, c, o, r, p) PROVE NeedInv'
  BY <1>1, <1>6 DEF register_spare_part_unit
<1> QED  BY <1>00, <1>2, <1>3, <1>4, <1>5, <1>6 DEF UnitStep

LEMMA ConsequenceNeeds ==
    ASSUME NeedInv, ConsequenceStep
    PROVE  NeedInv'
<1>1. PICK t \in Tasks, c \in Outcomes : accept_inventory_physical_consequence(t, c)
  BY DEF ConsequenceStep, In
<1>2. UNCHANGED <<need, request>> /\ touched \subseteq touched'
  BY <1>1 DEF accept_inventory_physical_consequence
<1>3. \A u \in Units : reserved'[u] # None => reserved'[u] = reserved[u]
  BY <1>1 DEF accept_inventory_physical_consequence
<1> QED  BY <1>2, <1>3, ReservedNames

LEMMA OneRequestNames ==
    ASSUME RequestInv, NeedInv, NEW q \in Requests, NEW row, request' = [request EXCEPT ![q] = row],
           row = None \/ row.ever \subseteq Needed, UNCHANGED <<need, reserved>>, touched \subseteq touched'
    PROVE  NeedInv'
<1>1. request'[q] = row /\ \A p \in Requests : p # q => request'[p] = request[p]
  BY DEF RequestInv
<1>2. \A p \in Requested' : \/ p \in Requested /\ request'[p].ever = request[p].ever
                            \/ request'[p].ever \subseteq Needed
  BY <1>1 DEF Requested
<1> QED  BY <1>2, RequestNames

LEMMA EverNeeded ==
    ASSUME RequestInv, NeedInv, NEW q \in Requested
    PROVE  q \in Requests /\ request[q] \in Request /\ request[q].ever \subseteq Needed
BY RequestedRow DEF NeedInv, NamedNeeds

LEMMA RequestStepNeeds ==
    ASSUME RequestInv, NeedInv, RequestStep
    PROVE  NeedInv'
<1>0. UNCHANGED <<need, reserved>> /\ touched \subseteq touched' /\ In(Requests) \subseteq Requests /\ In(Sr7s) \subseteq Sr7s
  BY RequestFrame DEF In
<1>1. ASSUME NEW q \in Requests, NEW f \in Drafts, NEW o \in {"soma_draft", "external_registration"},
             create_spare_request_draft(q, f, o)
      PROVE  NeedInv'
  <2> DEFINE row == Draft(o, f)
  <2>1. row.ever = DOMAIN f
    BY DraftRows, NewRequest
  <2>2. request' = [request EXCEPT ![q] = row] /\ DOMAIN f \subseteq Needed
    BY <1>1 DEF create_spare_request_draft, require_sr_need_allocations
  <2> HIDE DEF row
  <2> QED  BY <1>0, <2>1, <2>2, OneRequestNames
<1>2. ASSUME NEW q \in Requests, NEW f \in Drafts, update_spare_request_draft(q, f) PROVE NeedInv'
  <2> DEFINE row == [request[q] EXCEPT !.draft = f, !.ever = @ \cup DOMAIN f]
  <2>1. request[q] \in Request /\ request[q].ever \subseteq Needed /\ DOMAIN f \subseteq Needed
    BY <1>2, EverNeeded DEF update_spare_request_draft, require_sr_need_allocations
  <2>2. row.ever = request[q].ever \cup DOMAIN f
    BY <2>1 DEF Request
  <2>3. request' = [request EXCEPT ![q] = row]
    BY <1>2, <2>1 DEF update_spare_request_draft, Request
  <2> HIDE DEF row
  <2> QED  BY <1>0, <2>1, <2>2, <2>3, OneRequestNames
<1>3. ASSUME NEW q \in Requests, NEW s \in Sr7s, assign_or_correct_spare_request_official_id(q, s) PROVE NeedInv'
  <2> DEFINE row == [request[q] EXCEPT !.sr7 = s]
  <2>1. request[q] \in Request /\ request[q].ever \subseteq Needed
    BY <1>3, EverNeeded DEF assign_or_correct_spare_request_official_id
  <2>2. row.ever = request[q].ever
    BY <2>1, RequestRowEdits
  <2>3. request' = [request EXCEPT ![q] = row]
    BY <1>3 DEF assign_or_correct_spare_request_official_id
  <2> HIDE DEF row
  <2> QED  BY <1>0, <2>1, <2>2, <2>3, OneRequestNames
<1>4. ASSUME NEW q \in Requests, NEW s \in TerminalRequest, cancel_or_reject_spare_request(q, s) PROVE NeedInv'
  <2> DEFINE row == [request[q] EXCEPT !.state = s]
  <2>1. request[q] \in Request /\ request[q].ever \subseteq Needed
    BY <1>4, EverNeeded DEF cancel_or_reject_spare_request
  <2>2. row.ever = request[q].ever
    BY <2>1, RequestRowEdits
  <2>3. request' = [request EXCEPT ![q] = row]
    BY <1>4 DEF cancel_or_reject_spare_request
  <2> HIDE DEF row
  <2> QED  BY <1>0, <2>1, <2>2, <2>3, OneRequestNames
<1>5. ASSUME NEW q \in Requests, accept_spare_request_submission(q) PROVE NeedInv'
  <2> DEFINE row == accept_submission(request[q])
  <2>1. request[q] \in Request /\ request[q].ever \subseteq Needed
    BY <1>5, EverNeeded DEF accept_spare_request_submission, CanSubmit
  <2>2. row.ever = request[q].ever
    BY <2>1, RequestRowEdits
  <2>3. request' = [request EXCEPT ![q] = row]
    BY <1>5 DEF accept_spare_request_submission
  <2> HIDE DEF row
  <2> QED  BY <1>0, <2>1, <2>2, <2>3, OneRequestNames
<1>6. ASSUME NEW q \in Requests, correct_false_spare_request_submission(q) PROVE NeedInv'
  <2> DEFINE row == [request[q] EXCEPT !.state = "draft", !.submitted = FALSE, !.quantity = 0]
  <2>1. request[q] \in Request /\ request[q].ever \subseteq Needed
    BY <1>6, EverNeeded DEF correct_false_spare_request_submission
  <2>2. row.ever = request[q].ever
    BY <2>1, RequestRowEdits
  <2>3. request' = [request EXCEPT ![q] = row]
    BY <1>6, <2>1 DEF correct_false_spare_request_submission, correct_false_submission, Request
  <2> HIDE DEF row
  <2> QED  BY <1>0, <2>1, <2>2, <2>3, OneRequestNames
<1> QED  BY <1>0, <1>1, <1>2, <1>3, <1>4, <1>5, <1>6 DEF RequestStep

LEMMA RmaStepNeeds ==
    ASSUME RmaType, RequestInv, NeedInv, RmaStep
    PROVE  NeedInv'
<1>0. UNCHANGED <<need, reserved>> /\ touched \subseteq touched'
  BY RmaFrame
<1>1. CASE BatchAccepted
  <2>0. PICK q \in Requests, batch \in (SUBSET Rmas) \ {{}} :
              \E c10 \in Injection(batch, C10s) : accept_rma_authorization_batch(q, batch, c10)
    BY <1>1 DEF BatchAccepted
  <2>1. PICK c10 \in Injection(batch, C10s) : accept_rma_authorization_batch(q, batch, c10)
    BY <2>0
  <2> DEFINE total == request[q].authorized + Cardinality(batch)
             row == [request[q] EXCEPT !.authorized = total, !.state = AuthorizedState(request[q], total)]
  <2>2. request[q] \in Request /\ request[q].ever \subseteq Needed
    BY <2>1, EverNeeded DEF accept_rma_authorization_batch
  <2>3. request' = [request EXCEPT ![q] = row]
    BY <2>1, <2>2 DEF accept_rma_authorization_batch, Request
  <2>4. row.ever = request[q].ever
    BY <2>2 DEF Request
  <2> HIDE DEF row
  <2> QED  BY <1>0, <2>2, <2>3, <2>4, OneRequestNames
<1>2. CASE OneRmaWritten
  BY <1>0, <1>2, ReservedNames DEF OneRmaWritten
<1> QED  BY <1>1, <1>2, RmaStepForm

LEMMA SubmittedNeeds ==
    ASSUME RequestInv, NeedInv, NEW T \in SUBSET Requests, SubmissionTargets(T)
    PROVE  NeedInv'
<1>1. ASSUME NEW q \in Requested' PROVE q \in Requested /\ request'[q].ever = request[q].ever
  <2>0. q \in Requests /\ request'[q] # None
    BY DEF Requested
  <2>1. CASE q \in T
    <3>1. q \in Requested /\ request'[q] = accept_submission(request[q])
      BY <2>0, <2>1 DEF SubmissionTargets, CanSubmit
    <3> QED  BY <3>1, EverNeeded, RequestRowEdits
  <2>2. CASE q \notin T
    BY <2>0, <2>2 DEF SubmissionTargets, Requested
  <2> QED  BY <2>1, <2>2
<1> QED  BY <1>1, RequestNames DEF SubmissionTargets

LEMMA NeedsKept ==
    ASSUME ProposalInv, UnitInv, TagInv, RequestInv, NeedInv, Next
    PROVE  NeedInv'
<1>0. RmaType
  BY DEF TagInv
<1>00. ASSUME UNCHANGED <<need, request, reserved>>, touched \subseteq touched' PROVE NeedInv'
  BY <1>00, ReservedNames
<1>1. CASE NeedStep
  BY <1>1, NeedFrame, NeedStepNeeds, NeedsStay, DeletedNeed DEF NeedInv
<1>2. CASE UnitStep \/ RequestStep \/ RmaStep \/ ConsequenceStep
  BY <1>0, <1>2, UnitStepNeeds, RequestStepNeeds, RmaStepNeeds, ConsequenceNeeds
<1>3. CASE LogisticsStep \/ TagStep \/ WarehouseMoves
  BY <1>00, <1>3, LogisticsFrame, TagFrame, WarehouseMovesFrame
<1>4. CASE OtherStep
  <2>1. ASSUME NEW q \in Requests, hard_delete_untouched_request(q) PROVE NeedInv'
    BY <2>1, OneRequestNames DEF hard_delete_untouched_request, hard_delete_request, _delete_rows
  <2> QED  BY <1>00, <1>4, <2>1, SubmittedNeeds
           DEF OtherStep, stockVars, attach_origin_rma, correct_false_fault_tag_submission,
               correct_inventory_physical_consequence, correct_physical_consequence,
               hard_delete_untouched_unit, hard_delete_unit, _delete_rows
<1> QED  BY <1>1, <1>2, <1>3, <1>4, Steps DEF StockStep

-----------------------------------------------------------------------------
(* Units that units, returns, consequences, shipments and members name. *)

UnitRefs == \A u \in Stocked : unit[u].rma \in Opt(Authorized) /\ unit[u].parent \in Opt(Stocked)
ReturnRefs == \A r \in Authorized : /\ rma[r].returned \in Opt(Stocked \cup Registered)
                                    /\ rma[r].obligation # "not_established" => rma[r].returned # None
OutcomeRefs == \A t \in Reviewed : {outcome[t].installed, outcome[t].inbound, outcome[t].parent} \subseteq Opt(Stocked)
ShipmentRefs ==
    /\ logistics \in [Shipments -> Opt(SUBSET (Units \cup Rmas \cup Devices))]
    /\ \A e \in Shipments : logistics[e] # None => /\ logistics[e] \subseteq Existing
                                                  /\ logistics[e] \cap Units \subseteq touched
MemberRefs == \A g \in Tags, r \in Rmas : member[g][r] # None => member[g][r].unit \in Stocked \cup Registered

UnitRows == \A u \in Stocked' :
    \/ u \in Stocked /\ unit'[u].rma = unit[u].rma /\ unit'[u].parent = unit[u].parent
    \/ unit'[u].rma \in Opt(Authorized) /\ unit'[u].parent \in Opt(Stocked)

LEMMA UnitRowsKept ==
    ASSUME UnitRefs, UnitRows, Authorized \subseteq Authorized', Stocked \subseteq Stocked'
    PROVE  UnitRefs'
BY DEF UnitRefs, UnitRows, Opt

LEMMA OneUnitRow ==
    ASSUME UnitType, NEW u \in Units, NEW row, unit' = [unit EXCEPT ![u] = row],
           \/ u \in Stocked /\ row.rma = unit[u].rma /\ row.parent = unit[u].parent
           \/ row.rma \in Opt(Authorized) /\ row.parent \in Opt(Stocked)
    PROVE  UnitRows
<1>1. unit'[u] = row /\ \A v \in Units : v # u => unit'[v] = unit[v]
  BY DEF UnitType
<1> QED  BY <1>1 DEF UnitRows, Stocked

LEMMA ReservingRow ==
    ASSUME UnitInv, NEW u \in Units, NEW t, NEW n, reserve_for_task(u, t, n)
    PROVE  UnitRows
<1> DEFINE row == [unit[u] EXCEPT !.disposition = "reserved", !.held = TRUE]
<1>1. u \in Stocked /\ unit[u] \in Unit
  BY StockedUnit DEF reserve_for_task, CanReserve
<1>2. row.rma = unit[u].rma /\ row.parent = unit[u].parent /\ unit' = [unit EXCEPT ![u] = row]
  BY <1>1 DEF reserve_for_task, Unit
<1> HIDE DEF row
<1> QED  BY <1>1, <1>2, OneUnitRow DEF UnitInv

LEMMA UnitStepRows ==
    ASSUME UnitInv, UnitStep
    PROVE  UnitRows
<1>0. In(Units) \subseteq Units
  BY DEF In
<1>00. ASSUME UNCHANGED unit PROVE UnitRows
  BY <1>00 DEF UnitRows, Stocked
<1>1. ASSUME NEW u \in Units, NEW c, NEW o \in Origins, NEW r, NEW p, register_spare_part_unit(u, c, o, r, p)
      PROVE  UnitRows
  <2>1. unit' = [unit EXCEPT ![u] = SparePartUnit(c, o, r, p)] /\ require_registration_provenance(o, r, p)
    BY <1>1 DEF register_spare_part_unit
  <2>2. r \in Opt(Authorized) /\ p \in Opt(Stocked)
    BY <2>1 DEF require_registration_provenance, Origins, Opt
  <2>3. SparePartUnit(c, o, r, p).rma = r /\ SparePartUnit(c, o, r, p).parent = p
    BY DEF SparePartUnit
  <2> QED  BY <2>1, <2>2, <2>3, OneUnitRow DEF UnitInv
<1>2. ASSUME NEW u \in Units, NEW t, NEW n, reserve_spare_part_unit_for_task(u, t, n) PROVE UnitRows
  BY <1>2, ReservingRow DEF reserve_spare_part_unit_for_task
<1>3. ASSUME NEW u \in Units, release_spare_part_unit_reservation(u) PROVE UnitRows
  <2>1. u \in Stocked /\ unit[u] \in Unit
    BY <1>3, UnitMirrored, StockedUnit DEF Mirrored, release_spare_part_unit_reservation, release_reservation
  <2>2. unit' = [unit EXCEPT ![u] = Released(unit[u])]
    BY <1>3 DEF release_spare_part_unit_reservation
  <2>3. Released(unit[u]).rma = unit[u].rma /\ Released(unit[u]).parent = unit[u].parent
    BY <2>1 DEF Released, Unit
  <2> QED  BY <2>1, <2>2, <2>3, OneUnitRow DEF UnitInv
<1>4. ASSUME NEW n, NEW u \in Units, NEW t, record_local_need_fulfillment_selection(n, u, t) PROVE UnitRows
  <2>1. CASE t = None
    BY <1>00, <1>4, <2>1 DEF record_local_need_fulfillment_selection
  <2>2. CASE t # None
    BY <1>4, <2>2, ReservingRow DEF record_local_need_fulfillment_selection
  <2> QED  BY <2>1, <2>2
<1>5. ASSUME NEW t, NEW t2, NEW U, apply_retry_relationship_clone(t, t2, U) PROVE UnitRows
  BY <1>00, <1>5 DEF apply_retry_relationship_clone
<1> QED  BY <1>0, <1>1, <1>2, <1>3, <1>4, <1>5 DEF UnitStep

LEMMA ConsequenceRows ==
    ASSUME UnitInv, NEW t \in Tasks, NEW c \in Outcomes, accept_inventory_physical_consequence(t, c)
    PROVE  UnitRows
<1>1. Marked(c) \subseteq Stocked /\ Stocked' = Stocked
  BY ConsequenceStocks DEF accept_inventory_physical_consequence, NamesExist, Marked, Opt
<1>2. ASSUME NEW u \in Stocked PROVE unit'[u].rma = unit[u].rma /\ unit'[u].parent = unit[u].parent
  <2> DEFINE d == IF u = c.installed THEN "installed" ELSE "dismantled"
  <2>1. u \in Units /\ unit[u] \in Unit
    BY StockedUnit
  <2>2. unit'[u] = IF u \notin Marked(c) THEN unit[u] ELSE [unit[u] EXCEPT !.held = FALSE, !.disposition = d]
    BY <2>1 DEF accept_inventory_physical_consequence
  <2> HIDE DEF d
  <2> QED  BY <2>1, <2>2 DEF Unit
<1> QED  BY <1>1, <1>2 DEF UnitRows

LEMMA AttachedRow ==
    ASSUME UnitInv, NEW u \in Units, NEW r \in Rmas, attach_origin_rma(u, r)
    PROVE  unit' = [unit EXCEPT ![u].rma = r] /\ r \in Authorized /\ u \in Stocked
           /\ unit'[u].rma = r /\ unit'[u].parent = unit[u].parent
           /\ \A v \in Units : v # u => unit'[v] = unit[v]
<1>1. unit' = [unit EXCEPT ![u].rma = r] /\ r \in Authorized /\ u \in Stocked /\ unit[u] \in Unit
  BY StockedUnit DEF attach_origin_rma
<1> QED  BY <1>1 DEF Unit, UnitInv, UnitType

LEMMA UnitRefsKept ==
    ASSUME ProposalInv, UnitInv, TagInv, UnitRefs, Next
    PROVE  UnitRefs'
<1>0. Authorized \subseteq Authorized' /\ (Stocked \subseteq Stocked' \/ \E u \in Units : UnitDeleted(u))
  BY RmasStay, UnitsStay
<1>00. ASSUME UNCHANGED unit PROVE UnitRefs'
  <2>1. Stocked' = Stocked
    BY <1>00 DEF Stocked
  <2> QED  BY <1>0, <1>00, <2>1 DEF UnitRefs, Opt
<1>1. CASE \E u \in Units : UnitDeleted(u)
  <2>1. PICK u \in Units : UnitDeleted(u)
    BY <1>1
  <2>2. Stocked' = Stocked \ {u} /\ (\A v \in Stocked : unit[v].parent # u) /\ \A v \in Stocked' : unit'[v] = unit[v]
    BY <2>1 DEF UnitDeleted, UnitDeletable, UnitInv, UnitType, Stocked
  <2> QED  BY <1>0, <2>2 DEF UnitRefs, Opt
<1>2. CASE Stocked \subseteq Stocked'
  <2>00. ASSUME UnitRows PROVE UnitRefs'
    BY <1>0, <1>2, <2>00, UnitRowsKept
  <2>1. CASE NeedStep \/ RequestStep \/ LogisticsStep \/ TagStep \/ WarehouseMoves
    BY <1>00, <2>1, NeedFrame, RequestFrame, LogisticsFrame, TagFrame, WarehouseMovesFrame
  <2>2. CASE UnitStep
    BY <2>00, <2>2, UnitStepRows
  <2>3. CASE RmaStep
    <3>1. ASSUME NEW r \in Rmas, NEW u \in Units, NEW c, record_rma_inbound_receipt(r, u, c) PROVE UnitRows
      <4> DEFINE row == SparePartUnit(c, "direct_rma_receipt", r, None)
      <4>1. unit' = [unit EXCEPT ![u] = row] /\ r \in Authorized /\ row.rma = r /\ row.parent = None
        BY <3>1 DEF record_rma_inbound_receipt, SparePartUnit
      <4> HIDE DEF row
      <4> QED  BY <4>1, OneUnitRow DEF UnitInv, Opt
    <3> QED  BY <1>00, <2>00, <2>3, <3>1, RmaFrame DEF In
  <2>4. CASE ConsequenceStep
    BY <2>00, <2>4, ConsequenceRows DEF ConsequenceStep, In
  <2>5. CASE OtherStep
    <3>1. ASSUME NEW u \in Units, NEW r \in Rmas, attach_origin_rma(u, r) PROVE UnitRefs'
      <4>1. Stocked' = Stocked
        BY <3>1, AttachedStocks
      <4>2. /\ r \in Authorized /\ u \in Stocked /\ unit'[u].rma = r /\ unit'[u].parent = unit[u].parent
            /\ \A v \in Units : v # u => unit'[v] = unit[v]
        BY <3>1, AttachedRow
      <4>3. \A v \in Stocked : v \in Units
        BY DEF Stocked
      <4> QED  BY <1>0, <4>1, <4>2, <4>3 DEF UnitRefs, Opt
    <3>2. ASSUME NEW u \in Units, hard_delete_untouched_unit(u) PROVE FALSE
      <4>1. u \in Stocked /\ unit' = [unit EXCEPT ![u] = None]
        BY <3>2 DEF hard_delete_untouched_unit, hard_delete_unit, _delete_rows
      <4> QED  BY <1>2, <4>1 DEF Stocked, UnitInv, UnitType
    <3> QED  BY <1>00, <2>5, <3>1, <3>2
             DEF OtherStep, stockVars, SubmissionTargets, correct_false_fault_tag_submission,
                 correct_inventory_physical_consequence, correct_physical_consequence,
                 hard_delete_untouched_request, hard_delete_request, _delete_rows
  <2> QED  BY <2>1, <2>2, <2>3, <2>4, <2>5, Steps DEF StockStep
<1> QED  BY <1>0, <1>1, <1>2

ReturnRows == \A r \in Authorized' :
    \/ /\ r \in Authorized /\ rma'[r].returned = rma[r].returned
       /\ rma'[r].obligation # "not_established" => rma[r].obligation # "not_established"
    \/ /\ rma'[r].returned \in Opt(Stocked \cup Registered)
       /\ rma'[r].obligation # "not_established" => rma'[r].returned # None

LEMMA KeptReturns ==
    ASSUME RmasKept
    PROVE  ReturnRows
BY DEF RmasKept, ReturnRows

LEMMA OneReturnRow ==
    ASSUME RmaType, NEW r \in Authorized, NEW row \in RmaRow, rma' = [rma EXCEPT ![r] = row],
           \/ row.returned = rma[r].returned /\ row.obligation = rma[r].obligation
           \/ row.returned \in Stocked \cup Registered /\ row.returned # None
    PROVE  ReturnRows
<1>1. r \in Rmas
  BY DEF Authorized
<1>2. rma'[r] = row /\ \A s \in Rmas : s # r => rma'[s] = rma[s]
  BY <1>1 DEF RmaType
<1> QED  BY <1>2 DEF ReturnRows, Authorized, Opt

LEMMA RmaStepReturned ==
    ASSUME RmaType, RmaStep
    PROVE  ReturnRows
<1>1. CASE BatchAccepted
  <2>1. PICK q \in Requests, batch \in (SUBSET Rmas) \ {{}} :
              \E c10 \in Injection(batch, C10s) : accept_rma_authorization_batch(q, batch, c10)
    BY <1>1 DEF BatchAccepted
  <2>2. PICK c10 \in Injection(batch, C10s) : accept_rma_authorization_batch(q, batch, c10)
    BY <2>1
  <2>3. /\ Authorized' = Authorized \cup batch /\ \A r \in Authorized : rma'[r] = rma[r]
        /\ \A r \in batch : rma'[r].obligation = "not_established" /\ rma'[r].returned = None
    BY <2>2, BatchRows
  <2> QED  BY <2>3 DEF ReturnRows, Opt
<1>2. CASE OneRmaWritten
  <2>1. PICK r \in Authorized, row \in RmaRow : rma' = [rma EXCEPT ![r] = row] /\ SameReturn(rma[r], row)
    BY <1>2 DEF OneRmaWritten
  <2> QED  BY <2>1, OneReturnRow DEF SameReturn
<1> QED  BY <1>1, <1>2, RmaStepForm

LEMMA SelectedExists ==
    ASSUME NEW c, NamesExist(c)
    PROVE  ReturnSelection(c) \in Opt(Stocked \cup Registered)
BY DEF NamesExist, ReturnSelection, Opt

LEMMA ConsequenceReturned ==
    ASSUME RmaType, ConsequenceStep
    PROVE  ReturnRows
<1>1. PICK t \in Tasks, c \in Outcomes : accept_inventory_physical_consequence(t, c)
  BY DEF ConsequenceStep, In
<1>2. CASE c.rma = None \/ ReturnSelection(c) = None
  BY <1>1, <1>2, RmasQuiet, KeptReturns DEF accept_inventory_physical_consequence, OpenReturn
<1>3. CASE c.rma # None /\ ReturnSelection(c) # None
  <2> DEFINE r == c.rma
             row == OpenedRow(rma[r], c, t)
  <2>1. r \in Authorized /\ row \in RmaRow /\ rma' = [rma EXCEPT ![r] = row] /\ row.returned = ReturnSelection(c)
    BY <1>1, <1>3, OpenedReturn
  <2>2. ReturnSelection(c) \in Opt(Stocked \cup Registered)
    BY <1>1, SelectedExists DEF accept_inventory_physical_consequence
  <2> HIDE DEF row, r
  <2> QED  BY <1>3, <2>1, <2>2, OneReturnRow DEF Opt
<1> QED  BY <1>2, <1>3

LEMMA ReturnsFollow ==
    ASSUME ProposalInv, TagInv, Next
    PROVE  ReturnRows
<1>0. RmaType
  BY DEF TagInv
<1>00. ASSUME UNCHANGED rma PROVE ReturnRows
  BY <1>00, RmasQuiet, KeptReturns
<1>1. CASE NeedStep \/ UnitStep \/ RequestStep \/ LogisticsStep
  BY <1>00, <1>1, NeedFrame, UnitFrame, RequestFrame, LogisticsFrame
<1>2. CASE RmaStep \/ ConsequenceStep
  BY <1>0, <1>2, RmaStepReturned, ConsequenceReturned
<1>3. CASE TagStep \/ WarehouseMoves
  BY <1>3, TagStepRmas, WarehouseMovesKeep, KeptReturns
<1>4. CASE OtherStep
  <2>1. ASSUME NEW g \in Tags, correct_false_fault_tag_submission(g) PROVE ReturnRows
    BY <2>1, FalseSubmissionRmas, KeptReturns
  <2> QED  BY <1>00, <1>4, <2>1
           DEF OtherStep, stockVars, SubmissionTargets, attach_origin_rma,
               correct_inventory_physical_consequence, correct_physical_consequence,
               hard_delete_untouched_unit, hard_delete_unit, hard_delete_untouched_request,
               hard_delete_request, _delete_rows
<1> QED  BY <1>1, <1>2, <1>3, <1>4, Steps DEF StockStep

LEMMA ReturnRefsKept ==
    ASSUME ProposalInv, UnitInv, TagInv, DeviceType, ReturnRefs, Next
    PROVE  ReturnRefs'
<1>1. Registered \subseteq Registered' /\ ReturnRows
  BY DevicesStay, ReturnsFollow
<1>2. CASE Stocked \subseteq Stocked'
  BY <1>1, <1>2 DEF ReturnRefs, ReturnRows, Opt
<1>3. CASE \E u \in Units : UnitDeleted(u)
  <2>1. PICK u \in Units : UnitDeleted(u)
    BY <1>3
  <2>2. Stocked' = Stocked \ {u} /\ (\A r \in Authorized : rma[r].returned # u) /\ UNCHANGED rma
    BY <2>1 DEF UnitDeleted, UnitDeletable
  <2>3. Authorized' = Authorized
    BY <2>2 DEF Authorized
  <2> QED  BY <1>1, <2>2, <2>3 DEF ReturnRefs, Opt
<1> QED  BY <1>2, <1>3, UnitsStay

NamedByOutcomes == \A t \in Reviewed' :
    \/ /\ t \in Reviewed /\ outcome'[t].installed = outcome[t].installed
       /\ outcome'[t].inbound = outcome[t].inbound /\ outcome'[t].parent = outcome[t].parent
    \/ {outcome'[t].installed, outcome'[t].inbound, outcome'[t].parent} \subseteq Opt(Stocked)

LEMMA OutcomesFollow ==
    ASSUME ProposalInv, UnitInv, Next
    PROVE  NamedByOutcomes
<1>00. ASSUME UNCHANGED outcome PROVE NamedByOutcomes
  BY <1>00 DEF NamedByOutcomes, Reviewed
<1>1. CASE NeedStep \/ UnitStep \/ RequestStep \/ RmaStep \/ LogisticsStep \/ TagStep \/ WarehouseMoves
  BY <1>00, <1>1, NeedFrame, UnitFrame, RequestFrame, RmaFrame, LogisticsFrame, TagFrame, WarehouseMovesFrame
<1>2. CASE ConsequenceStep
  <2>1. PICK t \in Tasks, c \in Outcomes : accept_inventory_physical_consequence(t, c)
    BY <1>2 DEF ConsequenceStep, In
  <2>2. outcome' = [outcome EXCEPT ![t] = c] /\ {c.installed, c.inbound, c.parent} \subseteq Opt(Stocked)
    BY <2>1 DEF accept_inventory_physical_consequence, NamesExist
  <2>3. outcome'[t] = c /\ \A k \in Tasks : k # t => outcome'[k] = outcome[k]
    BY <2>2 DEF UnitInv, UnitType
  <2> QED  BY <2>2, <2>3 DEF NamedByOutcomes, Reviewed
<1>3. CASE OtherStep
  <2>1. ASSUME NEW t \in Tasks, NEW d \in Consequences, correct_inventory_physical_consequence(t, d)
        PROVE  NamedByOutcomes
    BY <2>1, CorrectedOutcome DEF NamedByOutcomes
  <2> QED  BY <1>00, <1>3, <2>1
           DEF OtherStep, stockVars, SubmissionTargets, attach_origin_rma, correct_false_fault_tag_submission,
               hard_delete_untouched_unit, hard_delete_unit, hard_delete_untouched_request,
               hard_delete_request, _delete_rows
<1> QED  BY <1>1, <1>2, <1>3, Steps DEF StockStep

LEMMA OutcomeRefsKept ==
    ASSUME ProposalInv, UnitInv, TagInv, OutcomeRefs, Next
    PROVE  OutcomeRefs'
<1>1. NamedByOutcomes
  BY OutcomesFollow
<1>2. CASE Stocked \subseteq Stocked'
  BY <1>1, <1>2 DEF OutcomeRefs, NamedByOutcomes, Opt
<1>3. CASE \E u \in Units : UnitDeleted(u)
  <2>1. PICK u \in Units : UnitDeleted(u)
    BY <1>3
  <2>2. /\ Stocked' = Stocked \ {u} /\ UNCHANGED outcome
        /\ \A t \in Reviewed : u \notin {outcome[t].installed, outcome[t].inbound, outcome[t].parent}
    BY <2>1 DEF UnitDeleted, UnitDeletable
  <2>3. Reviewed' = Reviewed
    BY <2>2 DEF Reviewed
  <2> QED  BY <2>2, <2>3 DEF OutcomeRefs, Opt
<1> QED  BY <1>2, <1>3, UnitsStay

LEMMA TouchesStay ==
    ASSUME ProposalInv, Next
    PROVE  touched \subseteq touched'
<1>1. CASE NeedStep \/ UnitStep \/ RequestStep \/ RmaStep \/ LogisticsStep \/ TagStep \/ WarehouseMoves
  BY <1>1, NeedFrame, UnitFrame, RequestFrame, RmaFrame, LogisticsFrame, TagFrame, WarehouseMovesFrame
<1>2. CASE ConsequenceStep
  BY <1>2 DEF ConsequenceStep, accept_inventory_physical_consequence
<1>3. CASE OtherStep
  BY <1>3 DEF OtherStep, stockVars, SubmissionTargets, attach_origin_rma, correct_false_fault_tag_submission,
              correct_inventory_physical_consequence, correct_physical_consequence,
              hard_delete_untouched_unit, hard_delete_unit, hard_delete_untouched_request,
              hard_delete_request, _delete_rows
<1> QED  BY <1>1, <1>2, <1>3, Steps DEF StockStep

LEMMA OneShipment ==
    ASSUME ShipmentRefs, NEW e \in Shipments, NEW S, logistics' = [logistics EXCEPT ![e] = S],
           S \subseteq Existing, S \cap Units \subseteq touched', UNCHANGED <<device, unit, rma>>, touched \subseteq touched'
    PROVE  ShipmentRefs'
<1>1. Existing' = Existing /\ Existing \subseteq Units \cup Rmas \cup Devices
  BY DEF Existing, Stocked, Authorized, Registered
<1>2. logistics' \in [Shipments -> Opt(SUBSET (Units \cup Rmas \cup Devices))]
  BY <1>1 DEF ShipmentRefs, Opt
<1>3. logistics'[e] = S /\ \A k \in Shipments : k # e => logistics'[k] = logistics[k]
  BY DEF ShipmentRefs
<1>4. ASSUME NEW k \in Shipments, logistics'[k] # None
      PROVE  logistics'[k] \subseteq Existing /\ logistics'[k] \cap Units \subseteq touched'
  <2>1. CASE k = e
    BY <1>3, <2>1
  <2>2. CASE k # e
    BY <1>3, <1>4, <2>2 DEF ShipmentRefs
  <2> QED  BY <2>1, <2>2
<1> QED  BY <1>1, <1>2, <1>4 DEF ShipmentRefs

LEMMA LogisticsStepRefs ==
    ASSUME ShipmentRefs, LogisticsStep
    PROVE  ShipmentRefs'
<1>0. UNCHANGED <<device, unit, rma>> /\ touched \subseteq touched' /\ In(Shipments) \subseteq Shipments
  BY LogisticsFrame DEF In
<1>1. ASSUME NEW e \in Shipments, NEW x \in Existing, record_actual_logistics_event(e, {x}) PROVE ShipmentRefs'
  <2>1. {x} \cap Units \subseteq touched'
    BY <1>1 DEF record_actual_logistics_event
  <2> QED  BY <1>0, <1>1, <2>1, OneShipment DEF record_actual_logistics_event
<1>2. ASSUME NEW e \in Shipments, NEW x, NEW y \in Opt(Existing), correct_logistics_participant(e, x, y)
      PROVE  ShipmentRefs'
  <2> DEFINE S == (logistics[e] \ {x}) \cup ({y} \ {None})
  <2>1. /\ logistics[e] # None /\ logistics' = [logistics EXCEPT ![e] = S]
        /\ touched' = touched \cup ({y} \cap Units)
    BY <1>2 DEF correct_logistics_participant
  <2>2. logistics[e] \subseteq Existing /\ logistics[e] \cap Units \subseteq touched
    BY <2>1 DEF ShipmentRefs
  <2>3. S \subseteq Existing /\ S \cap Units \subseteq touched'
    BY <2>1, <2>2 DEF Opt
  <2> HIDE DEF S
  <2> QED  BY <1>0, <2>1, <2>3, OneShipment
<1> QED  BY <1>0, <1>1, <1>2 DEF LogisticsStep

LEMMA ShipmentRefsKept ==
    ASSUME ProposalInv, UnitInv, TagInv, DeviceType, ShipmentRefs, Next
    PROVE  ShipmentRefs'
<1>1. /\ Registered \subseteq Registered' /\ Authorized \subseteq Authorized' /\ touched \subseteq touched'
      /\ Stocked \subseteq Stocked' \/ \E u \in Units : UnitDeleted(u)
  BY DevicesStay, RmasStay, TouchesStay, UnitsStay
<1>2. ASSUME UNCHANGED logistics, Stocked \subseteq Stocked' PROVE ShipmentRefs'
  <2>1. Existing \subseteq Existing'
    BY <1>1, <1>2 DEF Existing
  <2> QED  BY <1>1, <1>2, <2>1 DEF ShipmentRefs
<1>3. ASSUME NEW u \in Units, UnitDeleted(u) PROVE ShipmentRefs'
  <2>1. Existing \ {u} \subseteq Existing' /\ u \notin touched /\ UNCHANGED logistics
    BY <1>1, <1>3 DEF Existing, UnitDeleted, UnitDeletable, Untouched
  <2>2. \A e \in Shipments : logistics[e] # None => u \notin logistics[e]
    BY <2>1 DEF ShipmentRefs
  <2> QED  BY <1>1, <2>1, <2>2 DEF ShipmentRefs
<1>4. LogisticsStep \/ UNCHANGED logistics
  <2>1. CASE NeedStep \/ UnitStep \/ RequestStep \/ RmaStep \/ TagStep \/ WarehouseMoves
    BY <2>1, NeedFrame, UnitFrame, RequestFrame, RmaFrame, TagFrame, WarehouseMovesFrame
  <2>2. CASE ConsequenceStep
    BY <2>2 DEF ConsequenceStep, accept_inventory_physical_consequence
  <2>3. CASE OtherStep
    BY <2>3 DEF OtherStep, stockVars, SubmissionTargets, attach_origin_rma, correct_false_fault_tag_submission,
                correct_inventory_physical_consequence, correct_physical_consequence,
                hard_delete_untouched_unit, hard_delete_unit, hard_delete_untouched_request,
                hard_delete_request, _delete_rows
  <2> QED  BY <2>1, <2>2, <2>3, Steps DEF StockStep
<1> QED  BY <1>1, <1>2, <1>3, <1>4, LogisticsStepRefs

LEMMA MembersFollow ==
    ASSUME ProposalInv, TagInv, Next
    PROVE  MembersMove
<1>00. ASSUME UNCHANGED member PROVE MembersMove
  BY <1>00 DEF MembersMove
<1>1. CASE StockStep /\ UNCHANGED tagVars
  BY <1>00, <1>1 DEF tagVars
<1>2. CASE TagStep \/ WarehouseMoves
  BY <1>2, TagStepMembers, WarehouseMembers
<1>3. CASE OtherStep
  BY <1>00, <1>3, FalseSubmissionMembers
  DEF OtherStep, SubmissionTargets, tagVars, correct_inventory_physical_consequence,
      hard_delete_untouched_unit, hard_delete_untouched_request
<1> QED  BY <1>1, <1>2, <1>3, Steps

LEMMA MemberRefsKept ==
    ASSUME ProposalInv, UnitInv, TagInv, DeviceType, ReturnRefs, MemberRefs, Next
    PROVE  MemberRefs'
<1>1. Registered \subseteq Registered' /\ MembersMove
  BY DevicesStay, MembersFollow
<1>2. \A r \in Authorized : rma[r].obligation = "open" => rma[r].returned \in Stocked \cup Registered
  BY DEF ReturnRefs, Opt
<1>3. CASE Stocked \subseteq Stocked'
  BY <1>1, <1>2, <1>3 DEF MemberRefs, MembersMove
<1>4. CASE \E u \in Units : UnitDeleted(u)
  <2>1. PICK u \in Units : UnitDeleted(u)
    BY <1>4
  <2>2. ASSUME NEW g \in Tags, NEW r \in Rmas, member[g][r] # None PROVE member[g][r].unit # u
    <3>1. g \in Tagged /\ r \in MembersOf(g)
      BY <2>2, MemberRow
    <3> QED  BY <2>1, <3>1 DEF UnitDeleted
  <2>3. Stocked' = Stocked \ {u} /\ UNCHANGED member
    BY <2>1 DEF UnitDeleted
  <2> QED  BY <1>1, <2>2, <2>3 DEF MemberRefs
<1> QED  BY <1>3, <1>4, UnitsStay

LEMMA LineageKept ==
    ASSUME ProposalInv, TagInv, LineageInv, Next
    PROVE  LineageInv'
<1>00. ASSUME Tagged \subseteq Tagged', UNCHANGED lineage PROVE LineageInv'
  BY <1>00 DEF LineageInv
<1>01. ASSUME UNCHANGED <<tag, lineage>> PROVE LineageInv'
  BY <1>00, <1>01 DEF Tagged
<1>1. CASE StockStep /\ UNCHANGED tagVars
  BY <1>01, <1>1 DEF tagVars
<1>2. CASE TagStep
  BY <1>2, TagStepLineage
<1>3. CASE WarehouseMoves
  BY <1>00, <1>3, WarehouseTags, WarehouseMovesFrame
<1>4. CASE OtherStep
  <2>1. ASSUME NEW g \in Tags, correct_false_fault_tag_submission(g) PROVE LineageInv'
    BY <1>00, <2>1, FalseSubmissionTags DEF correct_false_fault_tag_submission
  <2> QED  BY <1>01, <1>4, <2>1
           DEF OtherStep, SubmissionTargets, tagVars, correct_inventory_physical_consequence,
               hard_delete_untouched_unit, hard_delete_untouched_request
<1> QED  BY <1>1, <1>2, <1>3, <1>4, Steps

DangleInv == /\ DeviceType /\ NeedInv /\ UnitRefs /\ ReturnRefs /\ OutcomeRefs
             /\ ShipmentRefs /\ MemberRefs /\ LineageInv

LEMMA DangleInit == Init => DangleInv
<1> SUFFICES ASSUME Init PROVE DangleInv
  OBVIOUS
<1>1. DeviceType
  BY DEF Init, StockInit, DeviceType, Opt
<1>2. NeedInv
  BY DEF Init, StockInit, NeedInv, NeedType, NamedNeeds, ReservedNeeds, Requested, Opt
<1>3. UnitRefs /\ ReturnRefs /\ OutcomeRefs
  BY DEF Init, StockInit, UnitRefs, ReturnRefs, OutcomeRefs, Stocked, Authorized, Reviewed
<1>4. ShipmentRefs
  BY DEF Init, StockInit, ShipmentRefs, Opt
<1>5. MemberRefs /\ LineageInv
  BY DEF Init, TagInit, MemberRefs, LineageInv
<1> QED  BY <1>1, <1>2, <1>3, <1>4, <1>5 DEF DangleInv

LEMMA DangleQuiet ==
    ASSUME DangleInv, UNCHANGED vars
    PROVE  DangleInv'
<1>0. /\ UNCHANGED <<device, need, unit, reserved, request, rma, logistics, outcome, touched, tag, member, lineage>>
      /\ Needed' = Needed /\ Requested' = Requested /\ Stocked' = Stocked /\ Authorized' = Authorized
      /\ Registered' = Registered /\ Reviewed' = Reviewed /\ Tagged' = Tagged
  BY DEF vars, stockVars, tagVars, Needed, Requested, Stocked, Authorized, Registered, Reviewed, Tagged
<1>1. DeviceType' /\ NeedInv'
  BY <1>0 DEF DangleInv, DeviceType, NeedInv, NeedType, NamedNeeds, ReservedNeeds
<1>2. UnitRefs' /\ ReturnRefs' /\ OutcomeRefs'
  BY <1>0 DEF DangleInv, UnitRefs, ReturnRefs, OutcomeRefs
<1>3. ShipmentRefs' /\ MemberRefs' /\ LineageInv'
  BY <1>0 DEF DangleInv, ShipmentRefs, MemberRefs, LineageInv, Existing
<1> QED  BY <1>1, <1>2, <1>3 DEF DangleInv

LEMMA DangleKept ==
    ASSUME ProposalInv, UnitInv, TagInv, RequestInv, DangleInv, Next
    PROVE  DangleInv'
<1>1. DeviceType' /\ NeedInv' /\ UnitRefs'
  BY DevicesStay, NeedsKept, UnitRefsKept DEF DangleInv
<1>2. ReturnRefs' /\ OutcomeRefs' /\ ShipmentRefs'
  BY ReturnRefsKept, OutcomeRefsKept, ShipmentRefsKept DEF DangleInv
<1>3. MemberRefs' /\ LineageInv'
  BY MemberRefsKept, LineageKept DEF DangleInv
<1> QED  BY <1>1, <1>2, <1>3 DEF DangleInv

LEMMA AnsweredRequest ==
    ASSUME RmaType, RequestInv, NEW r \in Authorized
    PROVE  rma[r].request \in Requested
<1> DEFINE q == rma[r].request
<1>1. q \in Requests
  BY AuthorizedRow DEF RmaRow
<1>2. r \in RmasOf(q)
  BY DEF RmasOf
<1>3. Cardinality(RmasOf(q)) # 0
  BY <1>2, RmasCounted, FS_EmptySet
<1>4. CountOk(request[q], Cardinality(RmasOf(q)), PartialKey(q) \in attention)
  BY <1>1 DEF RequestInv
<1> HIDE DEF q
<1>5. request[q] # None
  BY <1>3, <1>4 DEF CountOk
<1> QED  BY <1>1, <1>5 DEF q, Requested

(* No hard delete takes away what another row names: the needs of            *)
(* reservations and requests, the RMA and the parent of a unit, the unit an  *)
(* RMA brought or has to send back, the units of consequences, shipments and *)
(* memberships, the requests of RMAs and the tags of a lineage all exist     *)
(* (NeedDeletable, RequestDeletable, UnitDeletable, TagDeletable).           *)
THEOREM NoRowDangles == Spec => []NothingDangles
<1>1. (ProposalInv /\ UnitInv) /\ (ProposalInv /\ TagInv) /\ RequestInv /\ DangleInv /\ [Next]_vars => DangleInv'
  BY DangleKept, DangleQuiet
<1>2. TagInv /\ PartInv /\ RequestInv /\ DangleInv => NothingDangles
  <2> SUFFICES ASSUME TagInv, PartInv, RequestInv, DangleInv PROVE NothingDangles
    OBVIOUS
  <2>1. \A u \in Units : reserved[u] # None => reserved[u].need \in Opt(Needed)
    BY DEF DangleInv, NeedInv, ReservedNeeds, Opt
  <2>2. \A q \in Requested : request[q].ever \subseteq Needed
    BY DEF DangleInv, NeedInv, NamedNeeds
  <2>3. \A u \in Stocked : unit[u].rma \in Opt(Authorized) /\ unit[u].parent \in Opt(Stocked)
    BY DEF DangleInv, UnitRefs
  <2>4. \A r \in Authorized : /\ rma[r].inbound \in Opt(Stocked) /\ rma[r].returned \in Opt(Stocked \cup Registered)
                              /\ rma[r].request \in Requested
    BY AnsweredRequest DEF DangleInv, ReturnRefs, PartInv, TagInv
  <2>5. \A t \in Reviewed : {outcome[t].installed, outcome[t].inbound, outcome[t].parent} \subseteq Opt(Stocked)
    BY DEF DangleInv, OutcomeRefs
  <2>6. \A e \in Shipments : logistics[e] # None => logistics[e] \subseteq Existing
    BY DEF DangleInv, ShipmentRefs
  <2>7. \A l \in lineage : {l[2], l[3]} \subseteq Tagged
    BY DEF DangleInv, LineageInv
  <2>8. \A g \in Tagged : \A r \in MembersOf(g) : member[g][r].unit \in Stocked \cup Registered
    BY DEF DangleInv, MemberRefs, Tagged, MembersOf
  <2> QED  BY <2>1, <2>2, <2>3, <2>4, <2>5, <2>6, <2>7, <2>8 DEF NothingDangles
<1> QED  BY <1>1, <1>2, DangleInit, UnitInvariant, TagInvariant, PartInvariant, RequestInvariant, PTL DEF Spec
==================================================================================
