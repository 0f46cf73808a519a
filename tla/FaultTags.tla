-------------------------------- MODULE FaultTags --------------------------------
(***************************************************************************)
(* Fault tags: the sets of RMAs sent back to the warehouse together, their *)
(* submission, the warehouse's receipt and final decision, corrections,    *)
(* replacement and resend, and the proposals, bulk actions and evidence    *)
(* corrections that run the same transitions.  The module completes Stock: *)
(* Next is every command of the inventory.                                 *)
(***************************************************************************)
EXTENDS Stock

CONSTANTS Tags,       \* fault tags, numbered by their tracking sequence
          Proposals   \* inventory proposals a communication may raise

ActiveMember == {"submitted_awaiting_receipt", "warehouse_received"}
Decisions == {"accepted", "rejected"}
ProposalKinds == {"spare_request_submission", "warehouse_receipt", "accepted", "rejected"}

(* Rows. *)
RmaRow == [request : Requests, c10 : C10s,
           state : {"promised", "received", "return_open", "fault_tagged", "warehouse_received",
                    "return_rejected", "closed_accepted"},
           target : Opt(Devices), inbound : Opt(Units),
           obligation : {"not_established", "open", "closed_accepted"},
           returned : Opt(Units \cup Devices), by : Opt(Tasks), member : Opt(Tags)]
Tag == [state : {"draft", "submitted", "in_warehouse_review", "terminal_completed", "terminal_with_rejected",
                 "superseded"},
        archived : BOOLEAN, submitted : BOOLEAN, history : BOOLEAN, sent : BOOLEAN, touched : BOOLEAN,
        count : Nat, receipt : Nat, final : Nat, accepted : Nat, rejected : Nat]
Membership == [state : {"draft", "superseded"} \cup ActiveMember \cup Decisions,
               by : Opt(Tasks), unit : Opt(Units \cup Devices), history : BOOLEAN]
Proposal == [kind : ProposalKinds, targets : SUBSET (Requests \cup (Tags \X Rmas)),
             state : {"pending", "accepted", "rejected"}]

ASSUME TagAssumption ==
    /\ Tags \subseteq Nat /\ IsFiniteSet(Tags)
    /\ None \notin Tags \cup Proposals \cup RmaRow \cup Tag \cup Membership \cup Proposal

VARIABLES tag,       \* fault_tags and fault_tag_current_projection
          member,    \* fault_tag_memberships and their current state, by tag and RMA
          lineage,   \* fault_tag_lineage: <<relation, predecessor, successor>>
          proposal   \* inventory_proposals with their targets

tagVars == <<tag, member, lineage, proposal>>
vars == <<stockVars, tagVars>>

Tagged == {g \in Tags : tag[g] # None}
MembersOf(g) == {r \in Rmas : member[g][r] # None}
InState(row, s) == {r \in Rmas : row[r] # None /\ row[r].state = s}

(* Submitted memberships that hold an RMA or a unit. *)
ActiveIn(g) == {r \in MembersOf(g) : member[g][r].state \in ActiveMember}

TagInit ==
    /\ tag = [g \in Tags |-> None]
    /\ member = [g \in Tags |-> [r \in Rmas |-> None]]
    /\ lineage = {}
    /\ proposal = [p \in Proposals |-> None]

-----------------------------------------------------------------------------
(* Drafts. *)

obligation_authority(r) == [by |-> rma[r].by, unit |-> rma[r].returned]

(* Mutant: the RMA is looked up in the other tags and its unit is not. *)
require_membership_eligible_rma(g, r) ==
    /\ r \in Authorized
    /\ rma[r].obligation = "open"
    /\ \A h \in Tagged \ {g} : r \notin ActiveIn(h)

require_membership_eligible(g, r) ==
    /\ r \in Authorized
    /\ rma[r].obligation = "open"
    /\ \A h \in Tagged \ {g} : \A s \in ActiveIn(h) :
          s # r /\ member[h][s].unit # rma[r].returned

_insert_membership(r) ==
    [state |-> "draft", by |-> rma[r].by, unit |-> rma[r].returned, history |-> FALSE]

FreshTag ==
    [state |-> "draft", archived |-> FALSE, submitted |-> FALSE,
     history |-> FALSE, sent |-> FALSE, touched |-> FALSE,
     count |-> 0, receipt |-> 0, final |-> 0, accepted |-> 0, rejected |-> 0]

insert_draft(g, S) ==
    /\ g \in bound \ Tagged
    /\ \A h \in bound \cap Tags : h < g => h \in Tagged
    /\ S # {} /\ \A r \in S : require_membership_eligible(g, r)

create_fault_tag_draft(g, S) ==
    /\ insert_draft(g, S)
    /\ tag' = [tag EXCEPT ![g] = FreshTag]
    /\ member' = [member EXCEPT ![g] = [r \in Rmas |-> IF r \in S THEN _insert_membership(r) ELSE None]]
    /\ UNCHANGED <<stockVars, lineage, proposal>>

(* A kept member is checked again and takes over what its obligation says now. *)
replace_draft(g, S) ==
    /\ tag[g].state = "draft" /\ ~tag[g].submitted
    /\ \A r \in MembersOf(g) \ S : member[g][r].state = "draft" /\ ~member[g][r].history
    /\ \A r \in S : require_membership_eligible(g, r)

update_fault_tag_draft(g, S) ==
    /\ g \in Tagged
    /\ S # {}
    /\ replace_draft(g, S)
    /\ UNCHANGED tag
    /\ member' = [member EXCEPT ![g] = [r \in Rmas |->
                    IF r \notin S THEN None
                    ELSE [_insert_membership(r) EXCEPT
                            !.history = member[g][r] # None /\ member[g][r].history]]]
    /\ UNCHANGED <<stockVars, lineage, proposal>>

-----------------------------------------------------------------------------
(* Submission.  A pickup place or contact that no longer qualifies makes the  *)
(* command raise, like a stale revision.                                      *)

(* The RMA follows the membership that holds it; without one it is open again. *)
_update_rma_fault_tag_projection(row, g) ==
    [row EXCEPT !.member = g,
                !.state = IF g # None THEN "fault_tagged"
                          ELSE IF row.obligation = "open" THEN "return_open" ELSE @]

(* The last conjunct is the unique index on the units of active memberships. *)
CanSubmitTag(g) ==
    /\ tag[g].state = "draft" /\ ~tag[g].submitted
    /\ MembersOf(g) # {}
    /\ \A r \in MembersOf(g) :
          /\ require_membership_eligible(g, r)
          /\ obligation_authority(r) = [by |-> member[g][r].by, unit |-> member[g][r].unit]
    /\ \A r, s \in MembersOf(g) : member[g][r].unit = member[g][s].unit => r = s

accept_fault_tag_submission(g, sent) ==
    /\ g \in Tagged
    /\ CanSubmitTag(g)
    /\ LET n == Cardinality(MembersOf(g)) IN
       tag' = [tag EXCEPT ![g] = [@ EXCEPT !.state = "submitted", !.submitted = TRUE, !.history = TRUE,
                                           !.sent = sent, !.count = n, !.receipt = n]]
    /\ member' = [member EXCEPT ![g] = [r \in Rmas |-> IF @[r] = None THEN None
                    ELSE [@[r] EXCEPT !.state = "submitted_awaiting_receipt", !.history = TRUE]]]
    /\ rma' = [r \in Rmas |-> IF r \in MembersOf(g) THEN _update_rma_fault_tag_projection(rma[r], g)
                              ELSE rma[r]]
    /\ UNCHANGED <<device, need, unit, reserved, request, sr7Owner, c10Owner, outcome, touched,
                   attention, logistics, bound, lineage, proposal>>

(* Mutant: what the warehouse has done to a member is not looked at. *)
correct_false_submission_tag_any(g) == tag[g].submitted /\ ~tag[g].sent

(* Only while nothing has happened to any member, and never against indexed mail. *)
correct_false_submission_tag(g) ==
    /\ tag[g].submitted /\ ~tag[g].sent
    /\ \A r \in MembersOf(g) : member[g][r].state = "submitted_awaiting_receipt"

correct_false_fault_tag_submission(g) ==
    /\ g \in Tagged
    /\ correct_false_submission_tag(g)
    /\ tag' = [tag EXCEPT ![g] = [@ EXCEPT !.state = "draft", !.submitted = FALSE, !.count = 0,
                                           !.receipt = 0, !.final = 0, !.accepted = 0, !.rejected = 0]]
    /\ member' = [member EXCEPT ![g] = [r \in Rmas |-> IF @[r] = None THEN None
                                                      ELSE [@[r] EXCEPT !.state = "draft"]]]
    /\ rma' = [r \in Rmas |-> IF r \in MembersOf(g) THEN _update_rma_fault_tag_projection(rma[r], None)
                              ELSE rma[r]]
    /\ UNCHANGED <<device, need, unit, reserved, request, sr7Owner, c10Owner, outcome, touched,
                   attention, logistics, bound, lineage, proposal>>

-----------------------------------------------------------------------------
(* The warehouse.  A target is a pair of a tag and an RMA in it. *)

_validate_warehouse_target_authority(x, state) ==
    LET row == member[x[1]][x[2]] IN
    /\ row # None
    /\ row.state = state
    /\ rma[x[2]].obligation = "open"
    /\ obligation_authority(x[2]) = [by |-> row.by, unit |-> row.unit]

_require_warehouse_targets(T, state) ==
    T # {} /\ \A x \in T : _validate_warehouse_target_authority(x, state)

(* Row of a tag computed again from the states of its members. *)
_rebuild_tag_projection(row, rows) ==
    LET n(s) == Cardinality(InState(rows, s))
        terminal == n("accepted") + n("rejected") + n("superseded")
    IN [row EXCEPT !.receipt = n("submitted_awaiting_receipt"), !.final = n("warehouse_received"),
                   !.accepted = n("accepted"), !.rejected = n("rejected"),
                   !.state = IF row.count > 0 /\ terminal >= row.count
                             THEN IF n("rejected") > 0 THEN "terminal_with_rejected"
                                  ELSE "terminal_completed"
                             ELSE IF n("warehouse_received") > 0 THEN "in_warehouse_review"
                             ELSE "submitted"]

HasResend(lin, members, g, r) ==
    \E h \in Tags : <<"resend_of", g, h>> \in lin /\ members[h][r] # None

(* Mutant: the rebuild stops at the membership and leaves its RMA out. *)
rebuild_fault_tag_membership_attention_only(att, T, members, rmas, lin) ==
    att \cup {<<"warehouse_final_decision_pending", x[1], x[2]>> :
               x \in {y \in T : members[y[1]][y[2]].state = "warehouse_received"}}

(* What rebuild_rma_attention does, for a set of RMAs. *)
rebuild_rmas_attention(att, R, rmas) ==
    LET conflict == {r \in R : rmas[r].target = None /\ rmas[r].state # "closed_accepted"}
        open == {r \in R : rmas[r].obligation = "open"}
        key(k, S) == {<<k, r>> : r \in S}
    IN (att \ (key("rma_assignment_conflict", R \ conflict) \cup key("return_obligation_open", R \ open)))
       \cup key("rma_assignment_conflict", conflict) \cup key("return_obligation_open", open)

(* Attention of the memberships T, then of their RMAs. *)
rebuild_fault_tag_membership_attention(att, T, members, rmas, lin) ==
    LET pending == {x \in T : members[x[1]][x[2]].state = "warehouse_received"}
        resend == {x \in T : /\ members[x[1]][x[2]].state = "rejected"
                             /\ rmas[x[2]].obligation = "open"
                             /\ ~HasResend(lin, members, x[1], x[2])}
        key(k, S) == {<<k, x[1], x[2]>> : x \in S}
        clean == att \ (key("warehouse_final_decision_pending", T)
                        \cup key("warehouse_rejected_resend_required", T))
        own == clean \cup key("warehouse_final_decision_pending", pending)
                     \cup key("warehouse_rejected_resend_required", resend)
    IN rebuild_rmas_attention(own, {x[2] : x \in T}, rmas)

_rebuild_rma_warehouse_state(row, state) ==
    [row EXCEPT !.state = IF state = "warehouse_received" THEN state ELSE "fault_tagged"]

(* An accepted return closes the obligation; a rejected one leaves it open. *)
FinalRma(row, decision) ==
    IF decision = "accepted"
    THEN [row EXCEPT !.state = "closed_accepted", !.obligation = "closed_accepted", !.member = None]
    ELSE [row EXCEPT !.state = "return_rejected", !.member = None]

(* The transition of a set of memberships and of the RMAs and tags they belong to. *)
Warehouse(T, state) ==
    /\ member' = [g \in Tags |-> [r \in Rmas |->
                    IF <<g, r>> \in T THEN [member[g][r] EXCEPT !.state = state] ELSE member[g][r]]]
    /\ rma' = [r \in Rmas |->
                 IF \A x \in T : x[2] # r THEN rma[r]
                 ELSE IF state \in Decisions THEN FinalRma(rma[r], state)
                 ELSE _rebuild_rma_warehouse_state(rma[r], state)]
    /\ tag' = [g \in Tags |-> IF \E x \in T : x[1] = g
                              THEN _rebuild_tag_projection(tag[g], member'[g]) ELSE tag[g]]
    /\ attention' = rebuild_fault_tag_membership_attention(attention, T, member', rma', lineage)
    /\ UNCHANGED <<device, need, unit, reserved, request, sr7Owner, c10Owner, outcome, touched,
                   logistics, bound, lineage>>

Receipt(T) ==
    /\ _require_warehouse_targets(T, "submitted_awaiting_receipt")
    /\ Warehouse(T, "warehouse_received")

FinalDecision(T, decision) ==
    /\ _require_warehouse_targets(T, "warehouse_received")
    /\ Warehouse(T, decision)

record_warehouse_receipt(T) == Receipt(T) /\ UNCHANGED proposal
record_warehouse_final_decision(T, d) == FinalDecision(T, d) /\ UNCHANGED proposal

correct_false_warehouse_receipt(x) ==
    /\ _require_warehouse_targets({x}, "warehouse_received")
    /\ Warehouse({x}, "submitted_awaiting_receipt")
    /\ UNCHANGED proposal

-----------------------------------------------------------------------------
(* Replacement, resend and archive. *)

correction_successor(g) == \E h \in Tags : <<"corrects_replaces", g, h>> \in lineage

supersede_for_replacement(g) ==
    tag[g].history /\ ~correction_successor(g) /\ tag[g].state # "superseded"

(* Attention of the superseded memberships is left as it was. *)
replacement(g, h, S) ==
    /\ g \in Tagged /\ g # h
    /\ supersede_for_replacement(g)
    /\ rma' = [r \in Rmas |-> IF r \in ActiveIn(g) THEN _update_rma_fault_tag_projection(rma[r], None)
                              ELSE rma[r]]
    /\ h \in bound \ Tagged
    /\ \A k \in bound \cap Tags : k < h => k \in Tagged
    /\ S # {} /\ \A r \in S : require_membership_eligible(g, r)
    /\ tag' = [tag EXCEPT ![g] = [@ EXCEPT !.state = "superseded", !.receipt = 0, !.final = 0,
                                           !.touched = TRUE],
                          ![h] = FreshTag]
    /\ member' = [member EXCEPT
          ![g] = [r \in Rmas |-> IF r \in ActiveIn(g) THEN [@[r] EXCEPT !.state = "superseded"] ELSE @[r]],
          ![h] = [r \in Rmas |-> IF r \in S THEN _insert_membership(r) ELSE None]]
    /\ lineage' = lineage \cup {<<"corrects_replaces", g, h>>}
    /\ UNCHANGED <<device, need, unit, reserved, request, sr7Owner, c10Owner, outcome, touched,
                   attention, logistics, bound, proposal>>

require_resend_scope(g, S) ==
    /\ tag[g].history
    /\ \A r \in S : /\ member[g][r] # None /\ member[g][r].state = "rejected"
                    /\ rma[r].obligation = "open"
                    /\ ~HasResend(lineage, member, g, r)

resend(g, h, S) ==
    /\ g \in Tagged /\ g # h
    /\ require_resend_scope(g, S)
    /\ insert_draft(h, S)
    /\ tag' = [tag EXCEPT ![h] = FreshTag]
    /\ member' = [member EXCEPT ![h] = [r \in Rmas |-> IF r \in S THEN _insert_membership(r) ELSE None]]
    /\ lineage' = lineage \cup {<<"resend_of", g, h>>}
    /\ attention' = rebuild_fault_tag_membership_attention(attention, {<<g, r>> : r \in S},
                                                           member', rma, lineage')
    /\ UNCHANGED <<device, need, unit, reserved, request, sr7Owner, rma, c10Owner, outcome, touched,
                   logistics, bound, proposal>>

archive_or_restore(g) ==
    /\ g \in Tagged
    /\ tag' = [tag EXCEPT ![g].archived = ~@, ![g].touched = TRUE]
    /\ attention' = rebuild_fault_tag_membership_attention(attention, {<<g, r>> : r \in MembersOf(g)},
                                                           member, rma, lineage)
    /\ UNCHANGED <<device, need, unit, reserved, request, sr7Owner, rma, c10Owner, outcome, touched,
                   logistics, bound, member, lineage, proposal>>

TagDeletable(g) ==
    /\ tag[g].state = "draft"
    /\ ~tag[g].submitted /\ ~tag[g].history /\ ~tag[g].touched
    /\ \A r \in MembersOf(g) : ~member[g][r].history
    /\ \A l \in lineage : g \notin {l[2], l[3]}
    /\ \A p \in Proposals : proposal[p] # None => \A x \in proposal[p].targets : x \notin {g} \X Rmas

hard_delete_tag(g) ==
    /\ g \in Tagged
    /\ TagDeletable(g)
    /\ tag' = [tag EXCEPT ![g] = None]
    /\ member' = [member EXCEPT ![g] = [r \in Rmas |-> None]]
    /\ UNCHANGED <<stockVars, lineage, proposal>>

-----------------------------------------------------------------------------
(* Proposals, bulk actions and corrections of evidence. *)

TargetsOf(kind) ==
    CASE kind = "spare_request_submission" -> Requested
      [] kind = "warehouse_receipt" -> {x \in Tags \X Rmas : x[2] \in ActiveIn(x[1])}
      [] OTHER -> {x \in Tags \X Rmas : x[2] \in ActiveIn(x[1])}

(* A communication that is read raises a proposal about what exists then. *)
propose(p, kind, T) ==
    /\ p \in bound /\ proposal[p] = None
    /\ T # {}
    /\ proposal' = [proposal EXCEPT ![p] = [kind |-> kind, targets |-> T, state |-> "pending"]]
    /\ UNCHANGED <<stockVars, tag, member, lineage>>

Decided(p, state) == proposal' = [proposal EXCEPT ![p].state = state]

SubmissionTargets(T) ==
    /\ \A q \in T : CanSubmit(q)
    /\ request' = [q \in Requests |-> IF q \in T THEN accept_submission(request[q]) ELSE request[q]]
    /\ touched' = touched \cup T
    /\ UNCHANGED <<device, need, unit, reserved, sr7Owner, rma, c10Owner, outcome, attention,
                   logistics, bound, tag, member, lineage>>

(* All targets or none, whether the inventory or another command decides. *)
apply_targets(kind, T) ==
    \/ kind = "spare_request_submission" /\ SubmissionTargets(T)
    \/ kind = "warehouse_receipt" /\ Receipt(T)
    \/ kind \in Decisions /\ FinalDecision(T, kind)

accept_inventory_proposal(p) ==
    /\ proposal[p] # None /\ proposal[p].state = "pending"
    /\ apply_targets(proposal[p].kind, proposal[p].targets)
    /\ Decided(p, "accepted")

reject_inventory_proposal(p) ==
    /\ proposal[p] # None /\ proposal[p].state = "pending"
    /\ Decided(p, "rejected")
    /\ UNCHANGED <<stockVars, tag, member, lineage>>

(* A bulk action is refused unless its preview calls every target eligible. *)
classify_bulk(kind, T) ==
    _require_warehouse_targets(T, IF kind = "warehouse_receipt" THEN "submitted_awaiting_receipt"
                                  ELSE "warehouse_received")

accept_inventory_bulk_action(kind, T) ==
    /\ classify_bulk(kind, T)
    /\ IF kind = "warehouse_receipt" THEN Receipt(T) ELSE FinalDecision(T, kind)
    /\ UNCHANGED proposal

(* A consequence whose membership was once submitted is not corrected. *)
correct_inventory_physical_consequence(t, disposition) ==
    /\ correct_physical_consequence(t, disposition)
    /\ \A g \in Tagged : \A r \in MembersOf(g) : ~(member[g][r].by = t /\ member[g][r].history)
    /\ UNCHANGED tagVars

hard_delete_untouched_unit(u) ==
    /\ hard_delete_unit(u)
    /\ \A g \in Tagged : \A r \in MembersOf(g) : member[g][r].unit # u
    /\ UNCHANGED tagVars

hard_delete_untouched_request(q) ==
    /\ hard_delete_request(q)
    /\ \A p \in Proposals : proposal[p] # None => q \notin proposal[p].targets
    /\ UNCHANGED tagVars

(* The branches of the one command that corrects evidence of any kind. *)
correct_inventory_evidence ==
    \/ \E x \in Tags \X Rmas : correct_false_warehouse_receipt(x)
    \/ \E u \in In(Units), r \in In(Rmas) : attach_origin_rma(u, r) /\ UNCHANGED tagVars
    \/ \E q \in In(Requests) : correct_false_spare_request_submission(q) /\ UNCHANGED tagVars
    \/ \E r \in In(Rmas), c \in In(C10s) : correct_rma_official_id(r, c) /\ UNCHANGED tagVars
    \/ \E g \in In(Tags) : correct_false_fault_tag_submission(g)
    \/ \E t \in In(Tasks), d \in Consequences : correct_inventory_physical_consequence(t, d)

-----------------------------------------------------------------------------
WarehouseTargets(state) == {x \in Tags \X Rmas : x[2] \in InState(member[x[1]], state)}

TagStep ==
    \/ \E g \in In(Tags), S \in SUBSET Authorized :
          create_fault_tag_draft(g, S) \/ update_fault_tag_draft(g, S)
    \/ \E g \in In(Tags), e \in BOOLEAN : accept_fault_tag_submission(g, e)
    \/ \E g \in In(Tags) : archive_or_restore(g) \/ hard_delete_tag(g)
    \/ \E g, h \in In(Tags), S \in SUBSET Authorized :
          replacement(g, h, S) \/ resend(g, h, S)

WarehouseStep ==
    \/ \E T \in SUBSET WarehouseTargets("submitted_awaiting_receipt") :
          record_warehouse_receipt(T) \/ accept_inventory_bulk_action("warehouse_receipt", T)
    \/ \E T \in SUBSET WarehouseTargets("warehouse_received"), d \in Decisions :
          record_warehouse_final_decision(T, d) \/ accept_inventory_bulk_action(d, T)

ProposalStep ==
    \/ \E p \in In(Proposals), k \in ProposalKinds : \E T \in SUBSET TargetsOf(k) : propose(p, k, T)
    \/ \E p \in In(Proposals) : accept_inventory_proposal(p) \/ reject_inventory_proposal(p)

Next ==
    \/ StockNext /\ UNCHANGED tagVars
    \/ TagStep \/ WarehouseStep \/ ProposalStep
    \/ correct_inventory_evidence
    \/ \E u \in In(Units) : hard_delete_untouched_unit(u)
    \/ \E q \in In(Requests) : hard_delete_untouched_request(q)

Init ==
    /\ StockInit /\ TagInit
    /\ bound \subseteq Devices \cup Needs \cup Units \cup Requests \cup Rmas \cup Tasks \cup Sr7s
                       \cup C10s \cup Shipments \cup Tags \cup Proposals

Spec == Init /\ [][Next]_vars

-----------------------------------------------------------------------------
(* One reservation of a unit, its allocation row, its current projection and *)
(* its disposition are four records of one fact; a unit that a task has used *)
(* up is never still promised to a task.                                     *)
ReservationMirror ==
    \A u \in Units :
       /\ (reserved[u] # None) <=> (u \in Stocked /\ unit[u].held)
       /\ u \in Stocked => (unit[u].held <=> unit[u].disposition = "reserved")
       /\ Installed(u) => reserved[u] = None

(* A spare request promises what its RMAs say: the count of authorisations   *)
(* is the number of RMAs, a request with RMAs is neither a draft nor closed, *)
(* and it is partial exactly while fewer RMAs than submitted parts came.     *)
RequestCounts ==
    \A q \in Requested :
       LET n == Cardinality(RmasOf(q))  row == request[q] IN
       /\ row.authorized = n
       /\ n > 0 => /\ row.state = IF 0 < row.quantity /\ n < row.quantity THEN "partially_authorized" ELSE "authorized"
                   /\ row.sr7 # None
       /\ row.state = "partially_authorized" <=> <<"partial_rma_authorization", q>> \in attention

(* No part of a customer's device is to be replaced under two RMAs, and the  *)
(* spares of one RMA come back as one unit.                                  *)
TargetExclusive ==
    \A r, s \in Authorized :
       r # s => /\ rma[r].target = rma[s].target => rma[r].target = None
                /\ rma[r].inbound = rma[s].inbound => rma[r].inbound = None

(* A part that has to go back is never out of sight: an open obligation is   *)
(* shown, was opened by the consequence of a task that selects that unit,    *)
(* and a unit in the hands of the warehouse waits visibly for its decision.  *)
OpenReturnsShown ==
    /\ \A r \in Authorized :
          /\ rma[r].obligation = "open" <=> <<"return_obligation_open", r>> \in attention
          /\ rma[r].obligation # "not_established" =>
                /\ rma[r].by \in Reviewed
                /\ outcome[rma[r].by].rma = r
                /\ ReturnSelection(outcome[rma[r].by]) = rma[r].returned
    /\ \A g \in Tagged : \A r \in InState(member[g], "warehouse_received") :
          <<"warehouse_final_decision_pending", g, r>> \in attention

(* A returned unit travels in one membership of one submitted tag at a time, *)
(* also when two RMAs without a target name the same removed part; that tag  *)
(* is the one the RMA names and still says what the obligation says.         *)
ExclusiveReturn ==
    /\ \A g \in Tagged : \A r \in ActiveIn(g) :
          /\ rma[r].member = g
          /\ rma[r].obligation = "open"
          /\ obligation_authority(r) = [by |-> member[g][r].by, unit |-> member[g][r].unit]
    /\ \A r \in Authorized : rma[r].member # None => r \in ActiveIn(rma[r].member)
    /\ \A g, h \in Tagged : \A r \in ActiveIn(g), s \in ActiveIn(h) :
          member[g][r].unit = member[h][s].unit => g = h /\ r = s

(* The counters and the state of a tag follow its members, whichever way a   *)
(* decision came; an obligation is closed by exactly one acceptance.         *)
TagCounters ==
    /\ \A g \in Tagged :
          LET n(s) == Cardinality(InState(member[g], s)) IN
          /\ tag[g].receipt = n("submitted_awaiting_receipt")
          /\ tag[g].final = n("warehouse_received")
          /\ tag[g].accepted = n("accepted") /\ tag[g].rejected = n("rejected")
          /\ tag[g].submitted => tag[g].count = Cardinality(MembersOf(g))
          /\ tag[g].state \in {"terminal_completed", "terminal_with_rejected"} =>
                ActiveIn(g) = {} /\ tag[g].accepted + tag[g].rejected = tag[g].count
    /\ \A r \in Authorized :
          Cardinality({g \in Tagged : r \in InState(member[g], "accepted")}) =
             IF rma[r].obligation = "closed_accepted" THEN 1 ELSE 0

(* A hard delete takes nothing away that anything else still names.          *)
NothingDangles ==
    /\ \A u \in Units : reserved[u] # None => reserved[u].need \in Opt(Needed)
    /\ \A q \in Requested : request[q].ever \subseteq Needed
    /\ \A u \in Stocked : unit[u].rma \in Opt(Authorized) /\ unit[u].parent \in Opt(Stocked)
    /\ \A r \in Authorized : /\ rma[r].inbound \in Opt(Stocked)
                              /\ rma[r].returned \in Opt(Stocked \cup Registered)
                              /\ rma[r].request \in Requested
    /\ \A t \in Reviewed : {outcome[t].installed, outcome[t].inbound, outcome[t].parent} \subseteq Opt(Stocked)
    /\ \A e \in Shipments : logistics[e] # None => logistics[e] \subseteq Existing
    /\ \A l \in lineage : {l[2], l[3]} \subseteq Tagged
    /\ \A g \in Tagged : \A r \in MembersOf(g) : member[g][r].unit \in Stocked \cup Registered

==================================================================================
