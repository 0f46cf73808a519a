--------------------------------- MODULE Rfcs ---------------------------------
(***************************************************************************)
(* Requests for change: their identity and customer, the two-level          *)
(* hierarchy, links to service requests, archive operations and their       *)
(* restoration, the source status with its terminal epochs, the cascade     *)
(* that ends the work of a closed RFC after a review, and hard deletion.    *)
(*                                                                         *)
(* Every command names the revisions and the fingerprint its user reviewed  *)
(* and is refused when they have moved, so an action is the command whose   *)
(* review is current.  What is reviewed in one command and used by another  *)
(* is state: the scope a cascade proposal captured, and the members an      *)
(* archive operation recorded.  The evidence that a command accepts and the *)
(* epoch that it opens are named by the number of the command.              *)
(***************************************************************************)
EXTENDS ServiceRequests

CONSTANTS Rfcs, Wfms

VARIABLES rfc,        \* rfcs: customer, revision, archive state, how it was created
          parent,     \* active rfc_hierarchy_edges: the parent of a subordinate
          links,      \* active sr_rfc_links
          ops,        \* rfc_archive_operations: the members each archived
          last,       \* latest rfc_archive_event of an RFC: its type and its operation
          proj,       \* rfc_current_source_projection: status, evidence, terminal epoch
          proposals,  \* rfc_terminal_cascade_proposals with their captured members
          wfm,        \* provider tasks: owning RFC, earlier ones, revision, how far they are
          use         \* the groups of commands this behaviour may use

(* Rows.  An epoch is the number of the command that opened it. *)
Terminal == {"terminal_closed", "terminal_cancelled"}
(* The evidence of a source has one of three texts, each with a class of its own:  *)
(* comparing classes compares texts.  No evidence is of the class pre_implement.  *)
Classes == {"implement_eligible"} \cup Terminal
RfcRow == [customer : Customers \cup {None}, rev : Nat, archived : BOOLEAN, local : BOOLEAN]
ArchiveEvent == [type : {"archived", "restored"}, op : Nat]
Projection == [class : Classes, auth : {"enhanced_rfc", "wfm_provisional"}, ev : Nat, epoch : Nat \cup {None}]
(* A task's end can be withdrawn until an outcome is reviewed or a source governs it. *)
Works == {"open", "ended", "final"}
Task == [rfc : Rfcs, was : SUBSET Rfcs, rev : Nat, work : Works]

ASSUME RfcAssumption ==
    /\ None \notin Rfcs /\ None \notin RfcRow /\ None \notin ArchiveEvent
    /\ None \notin Projection /\ None \notin Task

rfcVars == <<rfc, parent, links, ops, last, proj, proposals, wfm>>
ticketVars == <<srVars, rfcVars, cmd, use>>

RfcInit ==
    /\ rfc = [r \in Rfcs |-> None] /\ parent = [r \in Rfcs |-> None] /\ links = {}
    /\ ops = <<>> /\ last = [r \in Rfcs |-> None]
    /\ proj = [r \in Rfcs |-> None] /\ proposals = {}
    /\ wfm = [w \in Wfms |-> None]

-----------------------------------------------------------------------------
(* Identity. *)

Stored == {r \in Rfcs : rfc[r] # None}
IsActive(r) == r \in Stored /\ ~rfc[r].archived
_require_active_customer(c) == c # None => Active(c)

NewRfc(c, local) == [customer |-> c, rev |-> 1, archived |-> FALSE, local |-> local]
Bumped(S) == [r \in Rfcs |-> IF r \in S THEN [rfc[r] EXCEPT !.rev = @ + 1] ELSE rfc[r]]

(* By hand (manual, provisional) or to adopt a number a source names.  A number *)
(* that exists is answered without a change.                                    *)
create_or_adopt_identity(r, c, local) ==
    /\ Accept
    /\ r \notin Stored
    /\ _require_active_customer(c)
    /\ rfc' = [rfc EXCEPT ![r] = NewRfc(c, local)]
    /\ UNCHANGED <<srVars, parent, links, ops, last, proj, proposals, wfm, use>>

create_from_source(r) == create_or_adopt_identity(r, None, FALSE)

-----------------------------------------------------------------------------
(* The hierarchy: a forest of two levels. *)

Children(r) == {c \in Rfcs : parent[c] = r}
_governing_root(r) == IF parent[r] = None THEN r ELSE parent[r]
Branch(r) == {_governing_root(r)} \cup Children(_governing_root(r))
Linked(r) == \E s \in SRs : <<s, r>> \in links

(* Customers that are both known are the same. *)
Agree(c, d) == None \notin {c, d} => c = d

(* What a child under a new parent may be: no parent above, no child and no *)
(* service request below.                                                   *)
_raise_first_hierarchy_blocker(p, c) ==
    /\ p # c /\ p \in Stored /\ c \in Stored
    /\ parent[p] = None /\ Children(c) = {} /\ ~Linked(c)
    /\ Agree(rfc[p].customer, rfc[c].customer)

add_subordinate(p, c) ==
    /\ Accept
    /\ _raise_first_hierarchy_blocker(p, c)
    /\ parent[c] = None
    /\ parent' = [parent EXCEPT ![c] = p]
    /\ rfc' = Bumped({p, c})
    /\ UNCHANGED <<srVars, links, ops, last, proj, proposals, wfm, use>>

reparent_subordinate(p, c) ==
    /\ Accept
    /\ _raise_first_hierarchy_blocker(p, c)
    /\ parent[c] \notin {None, p}
    /\ parent' = [parent EXCEPT ![c] = p]
    /\ rfc' = Bumped({p, c, parent[c]})
    /\ UNCHANGED <<srVars, links, ops, last, proj, proposals, wfm, use>>

detach_subordinate(c) ==
    /\ Accept
    /\ parent[c] # None
    /\ parent' = [parent EXCEPT ![c] = None]
    /\ rfc' = Bumped({c, parent[c]})
    /\ UNCHANGED <<srVars, links, ops, last, proj, proposals, wfm, use>>

-----------------------------------------------------------------------------
(* The customer: one for all members of the branch that have one. *)

(* Altered form: the command looks at the root of the branch only. *)
RootOnlyAgrees(r, c) == LET b == _governing_root(r) IN b = r \/ rfc[b].customer \in {None, c}

BranchAgrees(r, c) == \A b \in Branch(r) \ {r} : rfc[b].customer \in {None, c}

set_customer(r, c) ==
    /\ Accept
    /\ r \in Stored /\ rfc[r].customer # c
    /\ _require_active_customer(c)
    /\ BranchAgrees(r, c)
    /\ rfc' = [rfc EXCEPT ![r].customer = c, ![r].rev = @ + 1]
    /\ UNCHANGED <<srVars, parent, links, ops, last, proj, proposals, wfm, use>>

set_customer_from_review(r, c) == c # None /\ set_customer(r, c)

-----------------------------------------------------------------------------
(* Links to service requests: the governing root carries them. *)

_customer_warnings(s, r) ==
    \A b, d \in Branch(r) : Agree(rfc[b].customer, rfc[d].customer) /\ Agree(rfc[b].customer, sr[s].customer)

LinkTo(s, r) ==
    /\ Exists(s) /\ <<s, r>> \notin links
    /\ _customer_warnings(s, r)
    /\ links' = links \cup {<<s, r>>}
    /\ sr' = [sr EXCEPT ![s].rev = @ + 1]
    /\ rfc' = Bumped({r})
    /\ UNCHANGED <<customer, parent, ops, last, proj, proposals, wfm, use>>

link(s, r) ==
    /\ Accept
    /\ r \in Stored /\ parent[r] = None
    /\ LinkTo(s, r)

(* The same from a reconciliation proposal, which may name a subordinate. *)
link_sr_from_review(s, r) ==
    /\ Accept
    /\ r \in Stored /\ Exists(s) /\ sr[s].no # None
    /\ LinkTo(s, _governing_root(r))

unlink(s, r) ==
    /\ Accept
    /\ <<s, r>> \in links /\ parent[r] = None
    /\ links' = links \ {<<s, r>>}
    /\ sr' = [sr EXCEPT ![s].rev = @ + 1]
    /\ rfc' = Bumped({r})
    /\ UNCHANGED <<customer, parent, ops, last, proj, proposals, wfm, use>>

-----------------------------------------------------------------------------
(* Archive operations. *)

(* A reviewed branch is archived from its root, another scope is the RFC alone. *)
_iter_scope_members(r, kind) == IF kind = "exact_rfc" THEN {r} ELSE {r} \cup Children(r)

(* Members that are archived already belong to another operation. *)
archive(r, kind) ==
    /\ Accept
    /\ r \in Stored
    /\ kind = "reviewed_branch" => parent[r] = None
    /\ LET changed == {q \in _iter_scope_members(r, kind) : IsActive(q)} IN
       /\ changed # {}
       /\ rfc' = [q \in Rfcs |-> IF q \in changed THEN [rfc[q] EXCEPT !.rev = @ + 1, !.archived = TRUE]
                                                  ELSE rfc[q]]
       /\ ops' = Append(ops, changed)
       /\ last' = [q \in Rfcs |-> IF q \in changed THEN [type |-> "archived", op |-> Len(ops')] ELSE last[q]]
    /\ UNCHANGED <<srVars, parent, links, proj, proposals, wfm, use>>

(* Altered form: any archived member is restored, whichever operation archived it last. *)
RestoresAnyArchived(o, q) == q \in ops[o] /\ q \in Stored /\ rfc[q].archived

(* A member is restored by the operation that archived it last. *)
restore_eligible(o, q) ==
    /\ q \in ops[o] /\ q \in Stored /\ rfc[q].archived
    /\ last[q] = [type |-> "archived", op |-> o]

restore_operation(o) ==
    /\ Accept
    /\ LET back == {q \in ops[o] : restore_eligible(o, q)} IN
       /\ back # {}
       /\ rfc' = [q \in Rfcs |-> IF q \in back THEN [rfc[q] EXCEPT !.rev = @ + 1, !.archived = FALSE]
                                               ELSE rfc[q]]
       /\ last' = [q \in Rfcs |-> IF q \in back THEN [type |-> "restored", op |-> o] ELSE last[q]]
    /\ UNCHANGED <<srVars, parent, links, ops, proj, proposals, wfm, use>>

-----------------------------------------------------------------------------
(* Provider tasks, as far as the cascade reads them. *)

StatusClass(r) == IF proj[r] = None THEN "unknown" ELSE proj[r].class

_assert_eligible_rfc_authority(r) == IsActive(r) /\ StatusClass(r) \notin Terminal

register_manual_wfm_task(w, r) ==
    /\ Accept
    /\ wfm[w] = None /\ _assert_eligible_rfc_authority(r)
    /\ wfm' = [wfm EXCEPT ![w] = [rfc |-> r, was |-> {}, rev |-> 1, work |-> "open"]]
    /\ UNCHANGED <<srVars, rfc, parent, links, ops, last, proj, proposals, use>>

reassign_wfm_parent(w, r) ==
    /\ Accept
    /\ wfm[w] # None /\ wfm[w].rfc # r /\ _assert_eligible_rfc_authority(r)
    /\ wfm' = [wfm EXCEPT ![w].rfc = r, ![w].was = @ \cup {wfm[w].rfc}, ![w].rev = @ + 1]
    /\ UNCHANGED <<srVars, rfc, parent, links, ops, last, proj, proposals, use>>

(* Any other command on the task moves its revision.  Ending it takes it out of a *)
(* cascade's reach and withdrawing that end puts it back, until its outcome is     *)
(* reviewed.                                                                       *)
TaskChanges(w, work) ==
    /\ Accept
    /\ wfm[w] # None /\ (wfm[w].work = "final" => work = "final")
    /\ wfm' = [wfm EXCEPT ![w].work = work, ![w].rev = @ + 1]
    /\ UNCHANGED <<srVars, rfc, parent, links, ops, last, proj, proposals, use>>

-----------------------------------------------------------------------------
(* The terminal cascade. *)

_applicable_wfms(S) == {w \in Wfms : wfm[w] # None /\ wfm[w].work = "open" /\ wfm[w].rfc \in S}

(* A subordinate alone; a root with its subordinates. *)
ScopeRfcs(r) == IF parent[r] # None THEN {r} ELSE {r} \cup Children(r)

capture_scope(r) ==
    [kind |-> IF parent[r] # None THEN "exact_rfc" ELSE "root_branch",
     rfcs |-> [q \in ScopeRfcs(r) |-> rfc[q].rev],
     wfms |-> [w \in _applicable_wfms(ScopeRfcs(r)) |-> [rfc |-> wfm[w].rfc, rev |-> wfm[w].rev]]]

Pending == {p \in proposals : p.state = "pending"}
_pending_for_epoch(r, e) == {p \in Pending : p.trigger = r /\ p.epoch = e}

(* The proposal that this command makes. *)
capture_pending(r, e, class, ev) ==
    [id |-> cmd, trigger |-> r, epoch |-> e, class |-> class, ev |-> ev,
     scope |-> capture_scope(r), state |-> "pending"]

Superseded(S) == (proposals \ S) \cup {[p EXCEPT !.state = "superseded"] : p \in S}

(* Altered form: a reviewed reversal leaves the pending proposal of its epoch. *)
ReversalKeepsPending(r, e) == proposals

_supersede_pending_for_reversal(r, e) == Superseded(_pending_for_epoch(r, e))

(* An accepted status.  Entering a terminal class opens an epoch and captures *)
(* what the cascade would end; another terminal class stays in the epoch; a    *)
(* reviewed reversal closes it.                                                *)
ApplyStatus(r, class, auth) ==
    LET was == StatusClass(r) \in Terminal
        is == class \in Terminal
        epoch == IF proj[r] = None THEN None ELSE proj[r].epoch IN
    /\ r \in Stored
    /\ proj[r] # None => <<proj[r].class, proj[r].auth>> # <<class, auth>>
    /\ proj' = [proj EXCEPT ![r] = [class |-> class, auth |-> auth, ev |-> cmd,
                                    epoch |-> IF ~is THEN None ELSE IF was THEN epoch ELSE cmd]]
    /\ proposals' = IF is /\ ~was THEN proposals \cup {capture_pending(r, cmd, class, cmd)}
                    ELSE IF was /\ ~is THEN _supersede_pending_for_reversal(r, epoch)
                    ELSE proposals
    /\ UNCHANGED <<srVars, rfc, parent, links, ops, last, wfm, use>>

apply_accepted_source_projection(r, class) == Accept /\ ApplyStatus(r, class, "enhanced_rfc")

(* Work of a provider makes an RFC of which no source told a status yet eligible. *)
accept_provisional_implement_eligibility_from_wfm(r) ==
    /\ Accept
    /\ IsActive(r)
    /\ proj[r] # None => proj[r].auth # "enhanced_rfc" /\ proj[r].class \notin Terminal
    /\ ApplyStatus(r, "implement_eligible", "wfm_provisional")

(* The terminal status of the trigger is still of the proposal's epoch. *)
_current_terminal_binding(p) ==
    proj[p.trigger] # None /\ proj[p.trigger].epoch = p.epoch /\ proj[p.trigger].class \in Terminal

(* Capture again what changed since. *)
refresh(p) ==
    LET now == proj[p.trigger] IN
    /\ Accept
    /\ p.state = "pending" /\ _current_terminal_binding(p)
    /\ now.class # p.class \/ now.ev # p.ev \/ capture_scope(p.trigger) # p.scope
    /\ proposals' = Superseded({p}) \cup {capture_pending(p.trigger, p.epoch, now.class, now.ev)}
    /\ UNCHANGED <<srVars, rfc, parent, links, ops, last, proj, wfm, use>>

(* The proposal as it was captured. *)
_persisted_snapshot(p) == p.scope

(* Altered form: the proposal is executed as it was captured. *)
ExecutesAsCaptured(p) == TRUE

ScopeUnchanged(p) == capture_scope(p.trigger) = _persisted_snapshot(p)

(* The captured work is terminated. *)
apply_terminal_cascade(p) ==
    wfm' = [w \in Wfms |-> IF w \in DOMAIN _persisted_snapshot(p).wfms
                           THEN [wfm[w] EXCEPT !.work = "final", !.rev = @ + 1] ELSE wfm[w]]

(* A reviewed proposal is executed when nothing of it moved. *)
execute(p) ==
    /\ Accept
    /\ p.state = "pending"
    /\ proj[p.trigger] # None
    /\ proj[p.trigger].class = p.class /\ proj[p.trigger].ev = p.ev /\ proj[p.trigger].epoch = p.epoch
    /\ ScopeUnchanged(p)
    /\ apply_terminal_cascade(p)
    /\ proposals' = (proposals \ {p}) \cup {[p EXCEPT !.state = "executed"]}
    /\ UNCHANGED <<srVars, rfc, parent, links, ops, last, proj, use>>

-----------------------------------------------------------------------------
(* Hard deletion of an RFC that was created here and never used.  Every command *)
(* on an RFC or on its relationships moves its revision.                        *)
evaluate(r) ==
    /\ r \in Stored /\ rfc[r].local /\ rfc[r].rev = 1 /\ ~rfc[r].archived
    /\ proj[r] = None /\ \A w \in Wfms : wfm[w] # None => r \notin {wfm[w].rfc} \cup wfm[w].was

hard_delete(r) ==
    /\ Accept
    /\ evaluate(r)
    /\ rfc' = [rfc EXCEPT ![r] = None]
    /\ UNCHANGED <<srVars, parent, links, ops, last, proj, proposals, wfm, use>>

-----------------------------------------------------------------------------
RequestNext ==
    \/ \E c \in Customers : archive_reference(c) \/ reactivate_reference(c)
    \/ \E s \in SRs \cap use :
          \/ \E no \in (Official \cap use) \cup {None} : create_manual(s, no)
          \/ \E no \in Official \cap use : create_or_adopt_from_source(s, no) \/ attach_official_identity(s, no)
          \/ \E v \in StatusValues : apply_accepted_field_deltas(s, "status", v)
          \/ \E v \in Codes : apply_accepted_field_deltas(s, "code", v)

RfcNext ==
    \/ \E r \in Rfcs :
          \/ /\ "identity" \in use
             /\ \/ \E c \in Customers \cup {None}, local \in BOOLEAN : create_or_adopt_identity(r, c, local)
                \/ create_from_source(r) \/ hard_delete(r)
          \/ "customer" \in use /\ \E c \in Customers \cup {None} : set_customer(r, c) \/ set_customer_from_review(r, c)
          \/ /\ "hierarchy" \in use
             /\ detach_subordinate(r) \/ \E p \in Rfcs : add_subordinate(p, r) \/ reparent_subordinate(p, r)
          \/ \E s \in SRs \cap use : link(s, r) \/ link_sr_from_review(s, r) \/ unlink(s, r)
          \/ "archive" \in use /\ \E kind \in {"exact_rfc", "reviewed_branch"} : archive(r, kind)
          \/ "tasks" \in use /\ \E w \in Wfms : register_manual_wfm_task(w, r) \/ reassign_wfm_parent(w, r)
          \/ "source" \in use /\ \E class \in Classes : apply_accepted_source_projection(r, class)
          \/ "source" \in use /\ accept_provisional_implement_eligibility_from_wfm(r)
    \/ \E o \in DOMAIN ops : restore_operation(o)
    \/ "tasks" \in use /\ \E w \in Wfms, work \in Works : TaskChanges(w, work)
    \/ \E p \in proposals : refresh(p) \/ execute(p)

-----------------------------------------------------------------------------
(* Properties. *)

(* A proposal that awaits its execution is about the terminal epoch its trigger *)
(* is in, and an epoch has one proposal that counts: what was captured before a *)
(* reversal, or before a refresh, cannot end work later (uq_rfc_terminal_       *)
(* pending_epoch; _supersede_pending_for_reversal; refresh).                    *)
PendingIsCurrent ==
    /\ \A p \in Pending : _current_terminal_binding(p)
    /\ \A p, q \in proposals :
         p.trigger = q.trigger /\ p.epoch = q.epoch /\ {p.state, q.state} \subseteq {"pending", "executed"} => p = q

(* Executing a cascade ends all the work that is open at that moment under the  *)
(* RFC, or under the branch it is the root of, and no other: tasks registered,  *)
(* moved or ended since the capture, and subordinates that came or went, never  *)
(* slip past the review.                                                        *)
ExecutesWholeBranch ==
    [][\A p \in Pending : [p EXCEPT !.state = "executed"] \in proposals' =>
         \A w \in Wfms : IF w \in _applicable_wfms(ScopeRfcs(p.trigger))
                         THEN wfm'[w].work = "final" ELSE wfm'[w] = wfm[w]]_ticketVars

(* An archived RFC is restored by exactly one operation, an active one by none, *)
(* however operations on the RFC and on its branch follow each other and the    *)
(* hierarchy changes between them.                                              *)
RestorableOnce ==
    \A r \in Stored :
        Cardinality({o \in DOMAIN ops : restore_eligible(o, r)}) = (IF rfc[r].archived THEN 1 ELSE 0)

(* The hierarchy is a forest of two levels over stored RFCs, service requests  *)
(* are linked to roots, and a subordinate's customer, where it and its root's  *)
(* are known, is the root's.                                                   *)
BranchIsSound ==
    /\ \A c \in Rfcs : parent[c] # None =>
         /\ {c, parent[c]} \subseteq Stored /\ parent[parent[c]] = None /\ ~Linked(c)
         /\ Agree(rfc[c].customer, rfc[parent[c]].customer)
    /\ \A l \in links : Exists(l[1]) /\ l[2] \in Stored
    /\ \A w \in Wfms : wfm[w] # None => wfm[w].rfc \in Stored

=============================================================================
