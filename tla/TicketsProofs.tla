------------------------------ MODULE TicketsProofs ------------------------------
(***************************************************************************)
(* Proofs about Tickets for any sets of service requests, RFCs, tasks,      *)
(* customers, contracts and attempts, and any number of commands.           *)
(***************************************************************************)
EXTENDS Tickets, FiniteSetTheorems, WellFoundedInduction, TLAPS

-----------------------------------------------------------------------------
(* Service requests: what any step may do to them. *)

SrType ==
    /\ customer \in [Customers -> {"active", "archived"}]
    /\ sr \in [SRs -> Request \cup {None}]
    /\ cmd \in Nat

(* A step writes one row.  An official number is kept for good and is given *)
(* to one request only; another customer takes an unfit classification away.*)
Rewrites(s, row) ==
    /\ sr' = [sr EXCEPT ![s] = row]
    /\ Exists(s) /\ sr[s].no # None => row.no = sr[s].no
    /\ row.no # None /\ ~(Exists(s) /\ row.no = sr[s].no) => ~Owned(row.no)
    /\ Exists(s) /\ row.customer # sr[s].customer => apply_customer_change(s, row.customer)

RequestsMove == sr' = sr \/ \E s \in SRs, row \in Request : Rewrites(s, row)

LEMMA NewRequestType ==
    ASSUME NEW no \in Official \cup {None}
    PROVE  NewRequest(no) \in Request /\ NewRequest(no).no = no
BY DEF NewRequest, Request

LEMMA ExistingRow ==
    ASSUME SrType, NEW s \in SRs, Exists(s)
    PROVE  sr[s] \in Request
BY DEF SrType, Exists

(* The rows the commands write. *)
LEMMA RequestEdits ==
    ASSUME NEW old \in Request
    PROVE  /\ \A n \in Official :
                LET row == [old EXCEPT !.no = n, !.rev = @ + 1]
                IN  row \in Request /\ row.no = n /\ row.customer = old.customer
           /\ \A c \in Customers \cup {None} :
                LET row == [old EXCEPT !.customer = c, !.rev = @ + 1]
                IN  row \in Request /\ row.no = old.no /\ row.customer = c
           /\ LET row == [old EXCEPT !.rev = @ + 1]
              IN  row \in Request /\ row.no = old.no /\ row.customer = old.customer
           /\ \A v \in StatusValues :
                LET row == [old EXCEPT !.status = v, !.proj = @ + 1]
                IN  row \in Request /\ row.no = old.no /\ row.customer = old.customer
           /\ \A v \in Codes :
                LET row == [old EXCEPT !.code = v, !.proj = @ + 1]
                IN  row \in Request /\ row.no = old.no /\ row.customer = old.customer
<1>0. old.rev + 1 \in Nat /\ old.proj + 1 \in Nat
  BY DEF Request
<1>1. ASSUME NEW n \in Official
      PROVE  LET row == [old EXCEPT !.no = n, !.rev = @ + 1]
             IN  row \in Request /\ row.no = n /\ row.customer = old.customer
  BY <1>0 DEF Request
<1>2. ASSUME NEW c \in Customers \cup {None}
      PROVE  LET row == [old EXCEPT !.customer = c, !.rev = @ + 1]
             IN  row \in Request /\ row.no = old.no /\ row.customer = c
  BY <1>0 DEF Request
<1>3. LET row == [old EXCEPT !.rev = @ + 1]
      IN  row \in Request /\ row.no = old.no /\ row.customer = old.customer
  BY <1>0 DEF Request
<1>4. ASSUME NEW v \in StatusValues
      PROVE  LET row == [old EXCEPT !.status = v, !.proj = @ + 1]
             IN  row \in Request /\ row.no = old.no /\ row.customer = old.customer
  BY <1>0 DEF Request
<1>5. ASSUME NEW v \in Codes
      PROVE  LET row == [old EXCEPT !.code = v, !.proj = @ + 1]
             IN  row \in Request /\ row.no = old.no /\ row.customer = old.customer
  BY <1>0 DEF Request
<1> QED  BY <1>1, <1>2, <1>3, <1>4, <1>5

LEMMA AcceptCounts ==
    ASSUME SrType, Accept
    PROVE  cmd' = cmd + 1 /\ cmd' \in Nat /\ cmd < cmd'
BY DEF SrType, Accept

(* Every step keeps the types of the service requests and writes at most one. *)
LEMMA RequestNextMoves ==
    ASSUME SrType, RequestNext
    PROVE  SrType' /\ RequestsMove /\ cmd < cmd'
<1> DEFINE Goal == SrType' /\ RequestsMove /\ cmd < cmd'
<1>0. ASSUME Accept, NEW s \in SRs, NEW row \in Request, Rewrites(s, row),
             customer' = customer
      PROVE  Goal
  BY <1>0, AcceptCounts DEF SrType, Rewrites, RequestsMove
<1>1. ASSUME NEW c \in Customers, archive_reference(c) \/ reactivate_reference(c)
      PROVE  Goal
  BY <1>1, AcceptCounts
     DEF archive_reference, reactivate_reference, SrType, RequestsMove
<1>2. ASSUME NEW s \in SRs, NEW no \in Official \cup {None},
             create_manual(s, no) \/ (no # None /\ create_or_adopt_from_source(s, no))
      PROVE  Goal
  <2>1. /\ Accept /\ ~Exists(s) /\ (no # None => ~Owned(no))
        /\ sr' = [sr EXCEPT ![s] = NewRequest(no)] /\ customer' = customer
    BY <1>2 DEF create_manual, create_or_adopt_from_source
  <2>2. Rewrites(s, NewRequest(no))
    BY <2>1, NewRequestType DEF Rewrites
  <2> QED  BY <1>0, <2>1, <2>2, NewRequestType
<1>3. ASSUME NEW s \in SRs, NEW no \in Official, attach_official_identity(s, no)
      PROVE  Goal
  <2> DEFINE row == [sr[s] EXCEPT !.no = no, !.rev = @ + 1]
  <2>1. /\ Accept /\ Exists(s) /\ sr[s].no = None /\ ~Owned(no)
        /\ sr' = [sr EXCEPT ![s] = row] /\ customer' = customer
    BY <1>3 DEF attach_official_identity
  <2>2. row \in Request /\ row.no = no /\ row.customer = sr[s].customer
    <3>1. sr[s] \in Request
      BY <2>1, ExistingRow
    <3> QED  BY <3>1, RequestEdits
  <2>3. Rewrites(s, row)
    BY <2>1, <2>2 DEF Rewrites
  <2> QED  BY <1>0, <2>1, <2>2, <2>3
<1>4. ASSUME NEW s \in SRs, NEW v \in StatusValues,
             apply_accepted_field_deltas(s, "status", v)
      PROVE  Goal
  <2> DEFINE row == [sr[s] EXCEPT !.status = v, !.proj = @ + 1]
  <2>1. /\ Accept /\ Exists(s) /\ sr' = [sr EXCEPT ![s] = row]
        /\ customer' = customer
    BY <1>4 DEF apply_accepted_field_deltas
  <2>2. row \in Request /\ row.no = sr[s].no /\ row.customer = sr[s].customer
    <3>1. sr[s] \in Request
      BY <2>1, ExistingRow
    <3> QED  BY <3>1, RequestEdits
  <2>3. Rewrites(s, row)
    BY <2>1, <2>2 DEF Rewrites
  <2> QED  BY <1>0, <2>1, <2>2, <2>3
<1>5. ASSUME NEW s \in SRs, NEW v \in Codes,
             apply_accepted_field_deltas(s, "code", v)
      PROVE  Goal
  <2> DEFINE row == [sr[s] EXCEPT !.code = v, !.proj = @ + 1]
  <2>1. /\ Accept /\ Exists(s) /\ sr' = [sr EXCEPT ![s] = row]
        /\ customer' = customer
    BY <1>5 DEF apply_accepted_field_deltas
  <2>2. row \in Request /\ row.no = sr[s].no /\ row.customer = sr[s].customer
    <3>1. sr[s] \in Request
      BY <2>1, ExistingRow
    <3> QED  BY <3>1, RequestEdits
  <2>3. Rewrites(s, row)
    BY <2>1, <2>2 DEF Rewrites
  <2> QED  BY <1>0, <2>1, <2>2, <2>3
<1> QED  BY <1>1, <1>2, <1>3, <1>4, <1>5, RequestAssumption DEF RequestNext


LEMMA TouchMoves ==
    ASSUME SrType, Accept, NEW s \in SRs, Exists(s), customer' = customer,
           sr' = [sr EXCEPT ![s].rev = @ + 1]
    PROVE  SrType' /\ RequestsMove /\ cmd < cmd'
<1> DEFINE row == [sr[s] EXCEPT !.rev = @ + 1]
<1>1. row \in Request /\ row.no = sr[s].no /\ row.customer = sr[s].customer
  BY ExistingRow, RequestEdits
<1>2. sr' = [sr EXCEPT ![s] = row]
  OBVIOUS
<1> HIDE DEF row
<1>3. Rewrites(s, row)
  BY <1>1, <1>2 DEF Rewrites
<1> QED  BY <1>1, <1>2, <1>3, AcceptCounts DEF SrType, RequestsMove

LEMMA CustomerMoves ==
    ASSUME SrType, NEW s \in SRs, NEW c \in Customers \cup {None}, set_request_customer(s, c)
    PROVE  SrType' /\ RequestsMove /\ cmd < cmd'
<1> DEFINE row == [sr[s] EXCEPT !.customer = c, !.rev = @ + 1]
<1>1. /\ Accept /\ Exists(s) /\ customer' = customer /\ apply_customer_change(s, c)
      /\ sr' = [sr EXCEPT ![s] = row]
  BY DEF set_request_customer, SetCustomer, build_customer_preview_state
<1>2. row \in Request /\ row.no = sr[s].no /\ row.customer = c
  BY <1>1, ExistingRow, RequestEdits
<1> HIDE DEF row
<1>3. Rewrites(s, row)
  BY <1>1, <1>2 DEF Rewrites
<1> QED  BY <1>1, <1>2, <1>3, AcceptCounts DEF SrType, RequestsMove

(* A service request is never removed. *)
LEMMA ExistsForGood ==
    ASSUME SrType, RequestsMove
    PROVE  \A s \in SRs : Exists(s) => Exists(s)'
BY RequestAssumption DEF SrType, RequestsMove, Rewrites, Exists

-----------------------------------------------------------------------------
(* RFCs: types. *)

RfcType ==
    /\ rfc \in [Rfcs -> RfcRow \cup {None}]
    /\ parent \in [Rfcs -> Rfcs \cup {None}]
    /\ links \subseteq SRs \X Rfcs
    /\ ops \in Seq(SUBSET Rfcs)
    /\ last \in [Rfcs -> ArchiveEvent \cup {None}]
    /\ proj \in [Rfcs -> Projection \cup {None}]
    /\ wfm \in [Wfms -> Task \cup {None}]

(* A service request that is linked is there: unlink writes its row. *)
LinksExist == \A s \in SRs, r \in Rfcs : <<s, r>> \in links => Exists(s)

LEMMA RfcInitType == RfcInit => RfcType /\ LinksExist
BY DEF RfcInit, RfcType, LinksExist

LEMMA StoredRow ==
    ASSUME RfcType, NEW r \in Stored
    PROVE  r \in Rfcs /\ rfc[r] \in RfcRow /\ rfc[r].rev + 1 \in Nat /\ rfc[r].rev \in Nat
BY DEF RfcType, Stored, RfcRow

(* What the commands write to a row. *)
LEMMA RfcEdits ==
    ASSUME NEW old \in RfcRow
    PROVE  /\ LET row == [old EXCEPT !.rev = @ + 1]
              IN  /\ row \in RfcRow /\ row.rev = old.rev + 1 /\ row.customer = old.customer
                  /\ row.archived = old.archived
           /\ \A c \in Customers \cup {None} :
                LET row == [old EXCEPT !.customer = c, !.rev = @ + 1]
                IN  /\ row \in RfcRow /\ row.rev = old.rev + 1 /\ row.customer = c
                    /\ row.archived = old.archived
<1>0. old.rev + 1 \in Nat
  BY DEF RfcRow
<1>1. LET row == [old EXCEPT !.rev = @ + 1]
      IN  /\ row \in RfcRow /\ row.rev = old.rev + 1 /\ row.customer = old.customer
          /\ row.archived = old.archived
  BY <1>0 DEF RfcRow
<1>2. ASSUME NEW c \in Customers \cup {None}
      PROVE  LET row == [old EXCEPT !.customer = c, !.rev = @ + 1]
             IN  /\ row \in RfcRow /\ row.rev = old.rev + 1 /\ row.customer = c
                 /\ row.archived = old.archived
  BY <1>0 DEF RfcRow
<1> QED  BY <1>1, <1>2

LEMMA NewRfcType ==
    ASSUME NEW c \in Customers \cup {None}, NEW local \in BOOLEAN
    PROVE  /\ NewRfc(c, local) \in RfcRow /\ NewRfc(c, local).rev = 1
           /\ NewRfc(c, local).archived = FALSE
BY DEF NewRfc, RfcRow

(* How a step may treat the RFC table when it deletes nothing: stored RFCs  *)
(* stay, with their customers, and revisions never go back.                 *)
Moves(S) ==
    /\ rfc' \in [Rfcs -> RfcRow \cup {None}]
    /\ \A r \in Stored : /\ rfc'[r] \in RfcRow
                         /\ rfc'[r].rev = IF r \in S THEN rfc[r].rev + 1 ELSE rfc[r].rev
                         /\ rfc'[r].customer = rfc[r].customer
    /\ \A r \in Rfcs : r \notin Stored /\ rfc'[r] # None =>
          rfc'[r].rev = 1 /\ rfc'[r].archived = FALSE

LEMMA BumpedMoves ==
    ASSUME RfcType, NEW S \in SUBSET Rfcs, S \subseteq Stored, rfc' = Bumped(S)
    PROVE  Moves(S) /\ \A r \in Stored : rfc'[r].archived = rfc[r].archived
<1>1. ASSUME NEW r \in Rfcs
      PROVE  rfc'[r] = IF r \in S THEN [rfc[r] EXCEPT !.rev = @ + 1] ELSE rfc[r]
  BY DEF Bumped
<1>2. ASSUME NEW r \in Stored
      PROVE  /\ rfc'[r] \in RfcRow
             /\ rfc'[r].rev = IF r \in S THEN rfc[r].rev + 1 ELSE rfc[r].rev
             /\ rfc'[r].customer = rfc[r].customer /\ rfc'[r].archived = rfc[r].archived
  <2>1. r \in Rfcs /\ rfc[r] \in RfcRow
    BY StoredRow
  <2>2. CASE r \in S
    <3> DEFINE row == [rfc[r] EXCEPT !.rev = @ + 1]
    <3>1. /\ row \in RfcRow /\ row.rev = rfc[r].rev + 1 /\ row.customer = rfc[r].customer
          /\ row.archived = rfc[r].archived
      BY <2>1, RfcEdits
    <3>2. rfc'[r] = row
      BY <1>1, <2>1, <2>2
    <3> HIDE DEF row
    <3> QED  BY <2>2, <3>1, <3>2
  <2>3. CASE r \notin S
    BY <1>1, <2>1, <2>3
  <2> QED  BY <2>2, <2>3
<1>3. ASSUME NEW r \in Rfcs, r \notin Stored
      PROVE  rfc'[r] = None
  BY <1>1, <1>3 DEF Stored
<1>4. rfc' \in [Rfcs -> RfcRow \cup {None}]
  <2>1. \A r \in Rfcs : rfc'[r] \in RfcRow \cup {None}
    BY <1>2, <1>3
  <2>2. rfc' = [r \in Rfcs |-> rfc'[r]]
    BY DEF Bumped
  <2> QED  BY <2>1, <2>2
<1> QED  BY <1>2, <1>3, <1>4 DEF Moves, Stored

(* archive and restore_operation turn some stored RFCs. *)
LEMMA TurnedMoves ==
    ASSUME RfcType, NEW S \in SUBSET Rfcs, S \subseteq Stored, NEW b \in BOOLEAN,
           rfc' = [q \in Rfcs |-> IF q \in S THEN [rfc[q] EXCEPT !.rev = @ + 1, !.archived = b]
                                             ELSE rfc[q]]
    PROVE  /\ Moves(S)
           /\ \A r \in Stored : rfc'[r].archived = IF r \in S THEN b ELSE rfc[r].archived
<1>1. ASSUME NEW r \in Rfcs
      PROVE  rfc'[r] = IF r \in S THEN [rfc[r] EXCEPT !.rev = @ + 1, !.archived = b] ELSE rfc[r]
  OBVIOUS
<1>2. ASSUME NEW r \in Stored
      PROVE  /\ rfc'[r] \in RfcRow
             /\ rfc'[r].rev = IF r \in S THEN rfc[r].rev + 1 ELSE rfc[r].rev
             /\ rfc'[r].customer = rfc[r].customer
             /\ rfc'[r].archived = IF r \in S THEN b ELSE rfc[r].archived
  <2>1. r \in Rfcs /\ rfc[r] \in RfcRow
    BY StoredRow
  <2>2. CASE r \in S
    <3> DEFINE row == [rfc[r] EXCEPT !.rev = @ + 1, !.archived = b]
    <3>1. /\ row \in RfcRow /\ row.rev = rfc[r].rev + 1 /\ row.customer = rfc[r].customer
          /\ row.archived = b
      BY <2>1, StoredRow DEF RfcRow
    <3>2. rfc'[r] = row
      BY <1>1, <2>1, <2>2
    <3> HIDE DEF row
    <3> QED  BY <2>2, <3>1, <3>2
  <2>3. CASE r \notin S
    BY <1>1, <2>1, <2>3
  <2> QED  BY <2>2, <2>3
<1>3. ASSUME NEW r \in Rfcs, r \notin Stored
      PROVE  rfc'[r] = None
  BY <1>1, <1>3 DEF Stored
<1>4. rfc' \in [Rfcs -> RfcRow \cup {None}]
  <2>1. \A r \in Rfcs : rfc'[r] \in RfcRow \cup {None}
    BY <1>2, <1>3
  <2>2. rfc' = [r \in Rfcs |-> rfc'[r]]
    OBVIOUS
  <2> QED  BY <2>1, <2>2
<1> QED  BY <1>2, <1>3, <1>4 DEF Moves, Stored

-----------------------------------------------------------------------------
(* RFCs: the branch invariant.  BranchIsSound is not inductive: what keeps  *)
(* hard_delete away from an RFC that an edge or a link still names is its    *)
(* revision, which every such command has moved past 1.                     *)

Used(r) == r \in Stored /\ rfc[r].rev > 1

BranchInv ==
    /\ \A r \in Stored : rfc[r].rev >= 1
    /\ \A c \in Rfcs : parent[c] # None =>
          /\ Used(c) /\ Used(parent[c]) /\ parent[parent[c]] = None
          /\ \A s \in SRs : <<s, c>> \notin links
          /\ Agree(rfc[c].customer, rfc[parent[c]].customer)
    /\ \A s \in SRs, r \in Rfcs : <<s, r>> \in links => Exists(s) /\ Used(r)
    /\ \A w \in Wfms : wfm[w] # None => wfm[w].rfc \in Stored

RfcInv == RfcType /\ BranchInv

LEMMA MovesKeepsStored ==
    ASSUME RfcInv, NEW S, Moves(S)
    PROVE  /\ \A r \in Stored : r \in Stored'
           /\ \A r \in Rfcs : Used(r) => Used(r)'
           /\ \A r \in Stored : r \in S => Used(r)'
           /\ \A r \in Stored' : rfc'[r].rev >= 1
<1>1. \A r \in Stored : r \in Stored'
  BY RfcAssumption DEF Moves, Stored
<1>2. ASSUME NEW r \in Stored
      PROVE  /\ rfc'[r].rev >= rfc[r].rev /\ rfc'[r].rev >= 1
             /\ rfc[r].rev > 1 \/ r \in S => rfc'[r].rev > 1
  <2>1. rfc[r].rev \in Nat /\ rfc[r].rev >= 1
    BY StoredRow DEF RfcInv, BranchInv
  <2> QED  BY <2>1 DEF Moves
<1>3. \A r \in Stored' : r \notin Stored => rfc'[r].rev = 1
  BY DEF Moves, Stored
<1> QED  BY <1>1, <1>2, <1>3 DEF Used

(* A step that leaves the edges and the tasks alone, adds no link and moves *)
(* rows only keeps it.                                                      *)
LEMMA MovesKeepsBranch ==
    ASSUME RfcInv, NEW S, Moves(S), parent' = parent, links' \subseteq links, wfm' = wfm,
           \A s \in SRs : Exists(s) => Exists(s)'
    PROVE  BranchInv'
<1>1. /\ \A r \in Stored : r \in Stored' /\ rfc'[r].customer = rfc[r].customer
      /\ \A r \in Rfcs : Used(r) => Used(r)'
      /\ \A r \in Stored' : rfc'[r].rev >= 1
  BY MovesKeepsStored DEF Moves
<1>2. ASSUME NEW c \in Rfcs, parent[c] # None
      PROVE  /\ Used(c)' /\ Used(parent[c])' /\ parent'[parent'[c]] = None
             /\ \A s \in SRs : <<s, c>> \notin links'
             /\ Agree(rfc'[c].customer, rfc'[parent'[c]].customer)
  <2>1. parent[c] \in Rfcs
    BY <1>2 DEF RfcInv, RfcType
  <2>2. /\ Used(c) /\ Used(parent[c]) /\ parent[parent[c]] = None
        /\ \A s \in SRs : <<s, c>> \notin links
        /\ Agree(rfc[c].customer, rfc[parent[c]].customer)
    BY <1>2 DEF RfcInv, BranchInv
  <2> QED  BY <1>1, <2>1, <2>2 DEF Used
<1>3. \A s \in SRs, r \in Rfcs : <<s, r>> \in links' => Exists(s)' /\ Used(r)'
  BY <1>1 DEF RfcInv, BranchInv
<1>4. \A w \in Wfms : wfm'[w] # None => wfm'[w].rfc \in Stored'
  BY <1>1 DEF RfcInv, BranchInv
<1> QED  BY <1>1, <1>2, <1>3, <1>4 DEF BranchInv

-----------------------------------------------------------------------------
(* RFCs: one lemma for each group of commands. *)

LEMMA RfcNextMovesRequests ==
    ASSUME SrType, RfcInv, RfcNext
    PROVE  SrType' /\ RequestsMove /\ cmd < cmd'
<1> DEFINE Goal == SrType' /\ RequestsMove /\ cmd < cmd'
<1>0. ASSUME Accept, UNCHANGED srVars PROVE Goal
  BY <1>0, AcceptCounts DEF srVars, SrType, RequestsMove
<1>1. ASSUME NEW s \in SRs, NEW r \in Rfcs, link(s, r) \/ link_sr_from_review(s, r) \/ unlink(s, r)
      PROVE  Goal
  <2>1. /\ Accept /\ Exists(s) /\ customer' = customer
        /\ sr' = [sr EXCEPT ![s].rev = @ + 1]
    BY <1>1 DEF link, link_sr_from_review, unlink, LinkTo, RfcInv, BranchInv
  <2> QED  BY <2>1, TouchMoves
<1>2. ASSUME NEW r \in Rfcs, NEW c, NEW local,
             \/ create_or_adopt_identity(r, c, local) \/ hard_delete(r) \/ set_customer(r, c)
      PROVE  Goal
  BY <1>0, <1>2 DEF create_or_adopt_identity, hard_delete, set_customer
<1>3. ASSUME NEW r \in Rfcs, NEW p \in Rfcs,
             detach_subordinate(r) \/ add_subordinate(p, r) \/ reparent_subordinate(p, r)
      PROVE  Goal
  BY <1>0, <1>3 DEF detach_subordinate, add_subordinate, reparent_subordinate
<1>4. ASSUME NEW r, NEW kind, archive(r, kind) \/ restore_operation(r)
      PROVE  Goal
  BY <1>0, <1>4 DEF archive, restore_operation
<1>5. ASSUME NEW w, NEW x,
             register_manual_wfm_task(w, x) \/ reassign_wfm_parent(w, x) \/ TaskChanges(w, x)
      PROVE  Goal
  BY <1>0, <1>5 DEF register_manual_wfm_task, reassign_wfm_parent, TaskChanges
<1>6. ASSUME NEW r, NEW class,
             \/ apply_accepted_source_projection(r, class)
             \/ accept_provisional_implement_eligibility_from_wfm(r)
      PROVE  Goal
  BY <1>0, <1>6 DEF apply_accepted_source_projection,
                    accept_provisional_implement_eligibility_from_wfm, ApplyStatus
<1>7. ASSUME NEW p, refresh(p) \/ execute(p)
      PROVE  Goal
  BY <1>0, <1>7 DEF refresh, execute
<1> QED
  BY <1>1, <1>2, <1>3, <1>4, <1>5, <1>6, <1>7
     DEF RfcNext, create_from_source, set_customer_from_review

RequestsStay == \A s \in SRs : Exists(s) => Exists(s)'

LEMMA IdentityKeepsRfcs ==
    ASSUME RfcInv, RequestsStay, NEW r \in Rfcs, NEW c \in Customers \cup {None}, NEW local \in BOOLEAN,
           create_or_adopt_identity(r, c, local)
    PROVE  RfcInv'
<1>1. /\ r \notin Stored /\ rfc' = [rfc EXCEPT ![r] = NewRfc(c, local)]
      /\ UNCHANGED <<parent, links, ops, last, proj, wfm>>
  BY DEF create_or_adopt_identity
<1>2. RfcType'
  BY <1>1, NewRfcType DEF RfcInv, RfcType
<1>3. Moves({})
  <2>1. \A q \in Rfcs : q # r => rfc'[q] = rfc[q]
    BY <1>1 DEF RfcInv, RfcType
  <2>2. rfc'[r] = NewRfc(c, local)
    BY <1>1 DEF RfcInv, RfcType
  <2> QED  BY <1>1, <1>2, <2>1, <2>2, NewRfcType, StoredRow DEF RfcInv, RfcType, Moves, Stored
<1>4. BranchInv'
  BY <1>1, <1>3, MovesKeepsBranch DEF RequestsStay
<1> QED  BY <1>2, <1>4 DEF RfcInv

LEMMA DeleteKeepsRfcs ==
    ASSUME RfcInv, RequestsStay, NEW r \in Rfcs, hard_delete(r)
    PROVE  RfcInv'
<1>1. /\ r \in Stored /\ rfc[r].rev = 1 /\ rfc' = [rfc EXCEPT ![r] = None]
      /\ \A w \in Wfms : wfm[w] # None => wfm[w].rfc # r
      /\ UNCHANGED <<parent, links, ops, last, proj, wfm>>
  BY DEF hard_delete, evaluate
<1>2. RfcType'
  BY <1>1 DEF RfcInv, RfcType
<1>3. /\ \A q \in Rfcs : q # r => rfc'[q] = rfc[q]
      /\ \A q \in Rfcs : Used(q) => Used(q)' /\ q # r
      /\ \A q \in Stored : q # r => q \in Stored'
      /\ \A q \in Stored' : q \in Stored /\ rfc'[q] = rfc[q]
  BY <1>1 DEF RfcInv, RfcType, Used, Stored
<1>4. ASSUME NEW c \in Rfcs, parent[c] # None
      PROVE  /\ Used(c)' /\ Used(parent[c])' /\ parent[parent[c]] = None
             /\ \A s \in SRs : <<s, c>> \notin links
             /\ Agree(rfc'[c].customer, rfc'[parent[c]].customer)
  <2>1. parent[c] \in Rfcs
    BY <1>4 DEF RfcInv, RfcType
  <2> QED  BY <1>1, <1>3, <1>4, <2>1 DEF RfcInv, BranchInv
<1>5. \A w \in Wfms : wfm[w] # None => wfm[w].rfc \in Stored'
  BY <1>1, <1>3 DEF RfcInv, BranchInv
<1>6. \A s \in SRs, q \in Rfcs : <<s, q>> \in links => Exists(s)' /\ Used(q)'
  BY <1>3 DEF RfcInv, BranchInv, RequestsStay
<1>7. \A q \in Stored' : rfc'[q].rev >= 1
  BY <1>3 DEF RfcInv, BranchInv
<1>8. BranchInv'
  BY <1>1, <1>4, <1>5, <1>6, <1>7 DEF BranchInv
<1> QED  BY <1>2, <1>8 DEF RfcInv

LEMMA CustomerKeepsRfcs ==
    ASSUME RfcInv, RequestsStay, NEW r \in Rfcs, NEW c \in Customers \cup {None}, set_customer(r, c)
    PROVE  RfcInv'
<1> DEFINE row == [rfc[r] EXCEPT !.customer = c, !.rev = @ + 1]
<1>1. /\ r \in Stored /\ BranchAgrees(r, c) /\ rfc' = [rfc EXCEPT ![r] = row]
      /\ UNCHANGED <<parent, links, ops, last, proj, wfm>>
  BY DEF set_customer
<1>2. row \in RfcRow /\ row.rev = rfc[r].rev + 1 /\ row.customer = c
  BY <1>1, StoredRow, RfcEdits DEF RfcInv
<1> HIDE DEF row
<1>3. RfcType'
  BY <1>1, <1>2 DEF RfcInv, RfcType
<1>4. /\ \A q \in Rfcs : q # r => rfc'[q] = rfc[q]
      /\ rfc'[r] = row /\ rfc[r].rev \in Nat /\ rfc[r].rev >= 1
  BY <1>1, StoredRow DEF RfcInv, RfcType, BranchInv
<1>5. /\ \A q \in Rfcs : Used(q) => Used(q)'
      /\ \A q \in Stored : q \in Stored'
      /\ \A q \in Stored' : rfc'[q].rev >= 1
  <2>1. Stored' = Stored
    BY <1>1, <1>2, <1>4, RfcAssumption DEF Stored
  <2>2. rfc'[r].rev > 1 /\ rfc'[r].rev >= 1
    BY <1>2, <1>4
  <2>3. \A q \in Stored : rfc[q].rev >= 1 /\ q \in Rfcs
    BY DEF RfcInv, BranchInv, Stored
  <2> QED  BY <1>4, <2>1, <2>2, <2>3 DEF Used
<1>6. ASSUME NEW d \in Rfcs, parent[d] # None
      PROVE  Agree(rfc'[d].customer, rfc'[parent[d]].customer)
  <2>1. /\ parent[d] \in Rfcs /\ parent[parent[d]] = None /\ parent[d] # d
        /\ Agree(rfc[d].customer, rfc[parent[d]].customer)
    BY <1>6 DEF RfcInv, RfcType, BranchInv
  <2>2. CASE d = r
    <3>1. parent[d] \in Branch(r) \ {r}
      BY <1>6, <2>1, <2>2 DEF Branch, _governing_root
    <3> QED  BY <1>1, <1>2, <1>4, <2>1, <2>2, <3>1 DEF BranchAgrees, Agree
  <2>3. CASE parent[d] = r
    <3>1. d \in Branch(r) \ {r}
      BY <2>1, <2>3 DEF Branch, _governing_root, Children
    <3> QED  BY <1>1, <1>2, <1>4, <2>1, <2>3, <3>1 DEF BranchAgrees, Agree
  <2>4. CASE d # r /\ parent[d] # r
    BY <1>4, <2>1, <2>4
  <2> QED  BY <2>2, <2>3, <2>4
<1>7. ASSUME NEW d \in Rfcs, parent[d] # None
      PROVE  /\ Used(d)' /\ Used(parent[d])' /\ parent[parent[d]] = None
             /\ \A s \in SRs : <<s, d>> \notin links
  <2>1. parent[d] \in Rfcs
    BY <1>7 DEF RfcInv, RfcType
  <2> QED  BY <1>1, <1>5, <1>7, <2>1 DEF RfcInv, BranchInv
<1>8. /\ \A s \in SRs, q \in Rfcs : <<s, q>> \in links => Exists(s)' /\ Used(q)'
      /\ \A w \in Wfms : wfm[w] # None => wfm[w].rfc \in Stored'
  BY <1>5 DEF RfcInv, BranchInv, RequestsStay
<1>9. BranchInv'
  BY <1>1, <1>5, <1>6, <1>7, <1>8 DEF BranchInv
<1> QED  BY <1>3, <1>9 DEF RfcInv

(* The new edge is between two roots, and nothing hangs from the lower one. *)
LEMMA HierarchyKeepsRfcs ==
    ASSUME RfcInv, RequestsStay, NEW p \in Rfcs, NEW c \in Rfcs,
           add_subordinate(p, c) \/ reparent_subordinate(p, c)
    PROVE  RfcInv'
<1> DEFINE S == {p, c} \cup ({parent[c]} \ {None})
<1>1. /\ p # c /\ p \in Stored /\ c \in Stored /\ parent[p] = None
      /\ \A d \in Rfcs : parent[d] # c
      /\ \A s \in SRs : <<s, c>> \notin links
      /\ Agree(rfc[p].customer, rfc[c].customer)
      /\ parent' = [parent EXCEPT ![c] = p]
      /\ UNCHANGED <<links, ops, last, proj, wfm>>
  BY DEF add_subordinate, reparent_subordinate, _raise_first_hierarchy_blocker, Children, Linked
<1>2. S \subseteq Stored /\ S \in SUBSET Rfcs
  BY <1>1 DEF RfcInv, RfcType, BranchInv, Used
<1>3. rfc' = Bumped(S)
  <2>1. CASE add_subordinate(p, c)
    <3>1. S = {p, c} /\ rfc' = Bumped({p, c})
      BY <2>1 DEF add_subordinate
    <3> QED  BY <3>1
  <2>2. CASE reparent_subordinate(p, c)
    <3>1. S = {p, c, parent[c]} /\ rfc' = Bumped({p, c, parent[c]})
      BY <2>2 DEF reparent_subordinate
    <3> QED  BY <3>1
  <2> QED  BY <2>1, <2>2
<1>4. p \in S /\ c \in S
  OBVIOUS
<1> HIDE DEF S
<1>5. Moves(S)
  BY <1>2, <1>3, BumpedMoves DEF RfcInv
<1>6. /\ \A r \in Stored : r \in Stored' /\ rfc'[r].customer = rfc[r].customer
      /\ \A r \in Rfcs : Used(r) => Used(r)'
      /\ Used(p)' /\ Used(c)'
      /\ \A r \in Stored' : rfc'[r].rev >= 1
  BY <1>1, <1>4, <1>5, MovesKeepsStored DEF Moves
<1>7. RfcType'
  BY <1>1, <1>5 DEF RfcInv, RfcType, Moves
<1>8. ASSUME NEW d \in Rfcs, parent'[d] # None
      PROVE  /\ Used(d)' /\ Used(parent[d])' /\ parent'[parent'[d]] = None
             /\ \A s \in SRs : <<s, d>> \notin links
             /\ Agree(rfc'[d].customer, rfc'[parent'[d]].customer)
  <2>1. CASE d = c
    <3>1. parent'[d] = p /\ parent'[p] = None
      BY <1>1, <2>1 DEF RfcInv, RfcType
    <3> QED  BY <1>1, <1>6, <2>1, <3>1 DEF Agree
  <2>2. CASE d # c
    <3>1. /\ parent'[d] = parent[d] /\ parent[d] # c /\ parent[d] \in Rfcs
          /\ parent'[parent[d]] = parent[parent[d]] /\ parent[d] # None
      BY <1>1, <1>8, <2>2 DEF RfcInv, RfcType
    <3>2. /\ Used(d) /\ Used(parent[d]) /\ parent[parent[d]] = None
          /\ \A s \in SRs : <<s, d>> \notin links
          /\ Agree(rfc[d].customer, rfc[parent[d]].customer)
      BY <3>1 DEF RfcInv, BranchInv
    <3>3. d \in Stored /\ parent[d] \in Stored
      BY <3>2 DEF Used
    <3> QED  BY <1>6, <3>1, <3>2, <3>3
  <2> QED  BY <2>1, <2>2
<1>9. /\ \A s \in SRs, q \in Rfcs : <<s, q>> \in links => Exists(s)' /\ Used(q)'
      /\ \A w \in Wfms : wfm[w] # None => wfm[w].rfc \in Stored'
  BY <1>6 DEF RfcInv, BranchInv, RequestsStay
<1>10. BranchInv'
  BY <1>1, <1>6, <1>8, <1>9 DEF BranchInv
<1> QED  BY <1>7, <1>10 DEF RfcInv

LEMMA DetachKeepsRfcs ==
    ASSUME RfcInv, RequestsStay, NEW c \in Rfcs, detach_subordinate(c)
    PROVE  RfcInv'
<1> DEFINE S == {c, parent[c]}
<1>1. /\ parent[c] # None /\ parent' = [parent EXCEPT ![c] = None] /\ rfc' = Bumped(S)
      /\ UNCHANGED <<links, ops, last, proj, wfm>>
  BY DEF detach_subordinate
<1>2. S \subseteq Stored /\ S \in SUBSET Rfcs
  BY <1>1 DEF RfcInv, RfcType, BranchInv, Used
<1> HIDE DEF S
<1>3. Moves(S)
  BY <1>1, <1>2, BumpedMoves DEF RfcInv
<1>4. /\ \A r \in Stored : r \in Stored' /\ rfc'[r].customer = rfc[r].customer
      /\ \A r \in Rfcs : Used(r) => Used(r)'
      /\ \A r \in Stored' : rfc'[r].rev >= 1
  BY <1>3, MovesKeepsStored DEF Moves
<1>5. RfcType'
  BY <1>1, <1>3 DEF RfcInv, RfcType, Moves
<1>6. ASSUME NEW d \in Rfcs, parent'[d] # None
      PROVE  /\ Used(d)' /\ Used(parent[d])' /\ parent'[parent'[d]] = None
             /\ \A s \in SRs : <<s, d>> \notin links
             /\ Agree(rfc'[d].customer, rfc'[parent'[d]].customer)
  <2>1. parent'[d] = parent[d] /\ parent[d] \in Rfcs /\ parent[d] # None
    BY <1>1, <1>6 DEF RfcInv, RfcType
  <2>2. /\ Used(d) /\ Used(parent[d]) /\ parent[parent[d]] = None
        /\ \A s \in SRs : <<s, d>> \notin links
        /\ Agree(rfc[d].customer, rfc[parent[d]].customer)
    BY <2>1 DEF RfcInv, BranchInv
  <2>3. d \in Stored /\ parent[d] \in Stored /\ parent'[parent[d]] = None
    BY <1>1, <2>1, <2>2 DEF Used, RfcInv, RfcType
  <2> QED  BY <1>4, <2>1, <2>2, <2>3
<1>7. /\ \A s \in SRs, q \in Rfcs : <<s, q>> \in links => Exists(s)' /\ Used(q)'
      /\ \A w \in Wfms : wfm[w] # None => wfm[w].rfc \in Stored'
  BY <1>4 DEF RfcInv, BranchInv, RequestsStay
<1>8. BranchInv'
  BY <1>1, <1>4, <1>6, <1>7 DEF BranchInv
<1> QED  BY <1>5, <1>8 DEF RfcInv

LEMMA LinkKeepsRfcs ==
    ASSUME RfcInv, RequestsStay, NEW s \in SRs, NEW r \in Rfcs, r \in Stored, parent[r] = None,
           LinkTo(s, r)
    PROVE  RfcInv'
<1>1. /\ Exists(s) /\ links' = links \cup {<<s, r>>} /\ rfc' = Bumped({r})
      /\ UNCHANGED <<parent, ops, last, proj, wfm>>
  BY DEF LinkTo
<1>2. Moves({r})
  BY <1>1, BumpedMoves DEF RfcInv
<1>3. RfcType'
  <2>1. links' \subseteq SRs \X Rfcs
    <3>1. <<s, r>> \in SRs \X Rfcs
      OBVIOUS
    <3> QED  BY <1>1, <3>1 DEF RfcInv, RfcType
  <2>2. rfc' \in [Rfcs -> RfcRow \cup {None}]
    BY <1>2 DEF Moves
  <2> QED  BY <1>1, <2>1, <2>2 DEF RfcInv, RfcType
<1>4. /\ \A q \in Stored : q \in Stored' /\ rfc'[q].customer = rfc[q].customer
      /\ \A q \in Rfcs : Used(q) => Used(q)'
      /\ Used(r)'
      /\ \A q \in Stored' : rfc'[q].rev >= 1
  BY <1>2, MovesKeepsStored DEF Moves
<1>5. ASSUME NEW d \in Rfcs, parent[d] # None
      PROVE  /\ Used(d)' /\ Used(parent[d])' /\ parent[parent[d]] = None
             /\ \A t \in SRs : <<t, d>> \notin links'
             /\ Agree(rfc'[d].customer, rfc'[parent[d]].customer)
  <2>1. /\ parent[d] \in Rfcs /\ Used(d) /\ Used(parent[d]) /\ parent[parent[d]] = None
        /\ \A t \in SRs : <<t, d>> \notin links
        /\ Agree(rfc[d].customer, rfc[parent[d]].customer)
    BY <1>5 DEF RfcInv, RfcType, BranchInv
  <2>2. d \in Stored /\ parent[d] \in Stored
    BY <2>1 DEF Used
  <2>3. \A t \in SRs : <<t, d>> \notin links'
    BY <1>1, <1>5, <2>1
  <2> QED  BY <1>1, <1>4, <2>1, <2>2, <2>3
<1>6. ASSUME NEW t \in SRs, NEW q \in Rfcs, <<t, q>> \in links'
      PROVE  Exists(t)' /\ Used(q)'
  <2>1. CASE <<t, q>> \in links
    BY <1>4, <2>1 DEF RfcInv, BranchInv, RequestsStay
  <2>2. CASE t = s /\ q = r
    BY <1>1, <1>4, <2>2 DEF RequestsStay
  <2> QED  BY <1>1, <1>6, <2>1, <2>2
<1>7. \A w \in Wfms : wfm[w] # None => wfm[w].rfc \in Stored'
  BY <1>4 DEF RfcInv, BranchInv
<1>8. BranchInv'
  BY <1>1, <1>4, <1>5, <1>6, <1>7 DEF BranchInv
<1> QED  BY <1>3, <1>8 DEF RfcInv

LEMMA LinksKeepRfcs ==
    ASSUME RfcInv, RequestsStay, NEW s \in SRs, NEW r \in Rfcs,
           link(s, r) \/ link_sr_from_review(s, r) \/ unlink(s, r)
    PROVE  RfcInv'
<1>1. CASE link(s, r)
  BY <1>1, LinkKeepsRfcs DEF link
<1>2. CASE link_sr_from_review(s, r)
  <2>1. /\ _governing_root(r) \in Rfcs /\ _governing_root(r) \in Stored
        /\ parent[_governing_root(r)] = None
    BY <1>2 DEF link_sr_from_review, _governing_root, RfcInv, RfcType, BranchInv, Used
  <2> QED  BY <1>2, <2>1, LinkKeepsRfcs DEF link_sr_from_review
<1>3. CASE unlink(s, r)
  <2>1. /\ r \in Stored /\ links' \subseteq links /\ rfc' = Bumped({r})
        /\ UNCHANGED <<parent, ops, last, proj, wfm>>
    BY <1>3 DEF unlink, RfcInv, BranchInv, Used
  <2>2. Moves({r})
    BY <2>1, BumpedMoves DEF RfcInv
  <2>3. BranchInv'
    BY <2>1, <2>2, MovesKeepsBranch DEF RequestsStay
  <2> QED  BY <2>1, <2>2, <2>3 DEF RfcInv, RfcType, Moves
<1> QED  BY <1>1, <1>2, <1>3

(* Archive operations turn stored RFCs only. *)
LEMMA ArchiveFacts ==
    ASSUME RfcInv, NEW r \in Rfcs, NEW kind, archive(r, kind)
    PROVE  \E S \in SUBSET Stored :
              /\ Moves(S)
              /\ \A q \in Stored : rfc'[q].archived = IF q \in S THEN TRUE ELSE rfc[q].archived
              /\ ops' = Append(ops, S)
              /\ last' = [q \in Rfcs |-> IF q \in S THEN [type |-> "archived", op |-> Len(ops')] ELSE last[q]]
              /\ UNCHANGED <<parent, links, proj, wfm>>
<1> DEFINE S == {q \in _iter_scope_members(r, kind) : IsActive(q)}
<1>1. /\ rfc' = [q \in Rfcs |-> IF q \in S THEN [rfc[q] EXCEPT !.rev = @ + 1, !.archived = TRUE]
                                            ELSE rfc[q]]
      /\ ops' = Append(ops, S)
      /\ last' = [q \in Rfcs |-> IF q \in S THEN [type |-> "archived", op |-> Len(ops')] ELSE last[q]]
      /\ UNCHANGED <<parent, links, proj, wfm>>
  BY DEF archive
<1>2. S \subseteq Stored /\ S \in SUBSET Rfcs
  BY DEF IsActive, Stored
<1> HIDE DEF S
<1>3. Moves(S) /\ \A q \in Stored : rfc'[q].archived = IF q \in S THEN TRUE ELSE rfc[q].archived
  BY <1>1, <1>2, TurnedMoves DEF RfcInv
<1> QED  BY <1>1, <1>2, <1>3

LEMMA RestoreFacts ==
    ASSUME RfcInv, NEW o \in DOMAIN ops, restore_operation(o)
    PROVE  \E S \in SUBSET Stored :
              /\ Moves(S)
              /\ \A q \in Stored : rfc'[q].archived = IF q \in S THEN FALSE ELSE rfc[q].archived
              /\ last' = [q \in Rfcs |-> IF q \in S THEN [type |-> "restored", op |-> o] ELSE last[q]]
              /\ UNCHANGED <<parent, links, ops, proj, wfm>>
<1> DEFINE S == {q \in ops[o] : restore_eligible(o, q)}
<1>1. /\ rfc' = [q \in Rfcs |-> IF q \in S THEN [rfc[q] EXCEPT !.rev = @ + 1, !.archived = FALSE]
                                            ELSE rfc[q]]
      /\ last' = [q \in Rfcs |-> IF q \in S THEN [type |-> "restored", op |-> o] ELSE last[q]]
      /\ UNCHANGED <<parent, links, ops, proj, wfm>>
  BY DEF restore_operation
<1>2. S \subseteq Stored /\ S \in SUBSET Rfcs
  BY DEF restore_eligible, Stored
<1> HIDE DEF S
<1>3. Moves(S) /\ \A q \in Stored : rfc'[q].archived = IF q \in S THEN FALSE ELSE rfc[q].archived
  BY <1>1, <1>2, TurnedMoves DEF RfcInv
<1> QED  BY <1>1, <1>2, <1>3

LEMMA ArchivesKeepRfcs ==
    ASSUME RfcInv, RequestsStay,
           \/ \E r \in Rfcs, kind \in {"exact_rfc", "reviewed_branch"} : archive(r, kind)
           \/ \E o \in DOMAIN ops : restore_operation(o)
    PROVE  RfcInv'
<1>1. CASE \E r \in Rfcs, kind \in {"exact_rfc", "reviewed_branch"} : archive(r, kind)
  <2>1. PICK S \in SUBSET Stored :
              /\ Moves(S)
              /\ ops' = Append(ops, S)
              /\ last' = [q \in Rfcs |-> IF q \in S THEN [type |-> "archived", op |-> Len(ops')] ELSE last[q]]
              /\ UNCHANGED <<parent, links, proj, wfm>>
    BY <1>1, ArchiveFacts
  <2>2. BranchInv'
    BY <2>1, MovesKeepsBranch DEF RequestsStay
  <2>3. ops' \in Seq(SUBSET Rfcs) /\ Len(ops') \in Nat
    BY <2>1 DEF RfcInv, RfcType, Stored
  <2>4. last' \in [Rfcs -> ArchiveEvent \cup {None}]
    <3>1. [type |-> "archived", op |-> Len(ops')] \in ArchiveEvent
      BY <2>3 DEF ArchiveEvent
    <3> QED  BY <2>1, <3>1 DEF RfcInv, RfcType
  <2> QED  BY <2>1, <2>2, <2>3, <2>4 DEF RfcInv, RfcType, Moves
<1>2. CASE \E o \in DOMAIN ops : restore_operation(o)
  <2>1. PICK o \in DOMAIN ops : restore_operation(o)
    BY <1>2
  <2>2. PICK S \in SUBSET Stored :
              /\ Moves(S)
              /\ last' = [q \in Rfcs |-> IF q \in S THEN [type |-> "restored", op |-> o] ELSE last[q]]
              /\ UNCHANGED <<parent, links, ops, proj, wfm>>
    BY <2>1, RestoreFacts
  <2>3. BranchInv'
    BY <2>2, MovesKeepsBranch DEF RequestsStay
  <2>4. last' \in [Rfcs -> ArchiveEvent \cup {None}]
    <3>1. o \in Nat
      BY <2>1 DEF RfcInv, RfcType
    <3>2. [type |-> "restored", op |-> o] \in ArchiveEvent
      BY <3>1 DEF ArchiveEvent
    <3> QED  BY <2>2, <3>2 DEF RfcInv, RfcType
  <2> QED  BY <2>2, <2>3, <2>4 DEF RfcInv, RfcType, Moves
<1> QED  BY <1>1, <1>2

(* Provider tasks stay with stored RFCs. *)
LEMMA TaskEdits ==
    ASSUME NEW old \in Task
    PROVE  \A work \in Works : LET row == [old EXCEPT !.work = work, !.rev = @ + 1]
                                 IN  row \in Task /\ row.rfc = old.rfc /\ row.work = work
<1>1. old.rev + 1 \in Nat
  BY DEF Task
<1> QED  BY <1>1 DEF Task

LEMMA RowsKeepRfcs ==
    ASSUME RfcInv, RequestsStay, UNCHANGED <<rfc, parent, links, ops, last>>,
           proj' \in [Rfcs -> Projection \cup {None}], wfm' \in [Wfms -> Task \cup {None}],
           \A w \in Wfms : wfm'[w] # None => wfm'[w].rfc \in Stored
    PROVE  RfcInv'
<1>1. RfcType'
  BY DEF RfcInv, RfcType
<1>2. Stored' = Stored /\ \A r : Used(r)' <=> Used(r)
  BY DEF Stored, Used
<1>3. BranchInv'
  <2>1. \A c \in Rfcs : parent[c] # None => Used(parent[c])'
    BY <1>2 DEF RfcInv, BranchInv
  <2> QED  BY <1>2, <2>1 DEF RfcInv, BranchInv, RequestsStay
<1> QED  BY <1>1, <1>3 DEF RfcInv

LEMMA TasksKeepRfcs ==
    ASSUME RfcInv, RequestsStay, NEW w \in Wfms,
           \/ \E r \in Rfcs : register_manual_wfm_task(w, r) \/ reassign_wfm_parent(w, r)
           \/ \E work \in Works : TaskChanges(w, work)
    PROVE  RfcInv'
<1>0. ASSUME NEW row \in Task, row.rfc \in Stored, wfm' = [wfm EXCEPT ![w] = row],
             UNCHANGED <<rfc, parent, links, ops, last, proj>>
      PROVE  RfcInv'
  <2>1. wfm' \in [Wfms -> Task \cup {None}] /\ proj' \in [Rfcs -> Projection \cup {None}]
    BY <1>0 DEF RfcInv, RfcType
  <2>2. \A x \in Wfms : wfm'[x] # None => wfm'[x].rfc \in Stored
    BY <1>0 DEF RfcInv, RfcType, BranchInv
  <2> QED  BY <1>0, <2>1, <2>2, RowsKeepRfcs
<1>1. ASSUME wfm[w] # None
      PROVE  wfm[w] \in Task /\ wfm[w].rfc \in Stored
  BY <1>1 DEF RfcInv, RfcType, BranchInv
<1>2. ASSUME NEW r \in Rfcs, register_manual_wfm_task(w, r)
      PROVE  RfcInv'
  <2> DEFINE row == [rfc |-> r, was |-> {}, rev |-> 1, work |-> "open"]
  <2>1. r \in Stored /\ wfm' = [wfm EXCEPT ![w] = row] /\ UNCHANGED <<rfc, parent, links, ops, last, proj>>
    BY <1>2 DEF register_manual_wfm_task, _assert_eligible_rfc_authority, IsActive
  <2>2. row \in Task /\ row.rfc = r
    BY DEF Task, Works
  <2> HIDE DEF row
  <2> QED  BY <1>0, <2>1, <2>2
<1>3. ASSUME NEW r \in Rfcs, reassign_wfm_parent(w, r)
      PROVE  RfcInv'
  <2> DEFINE row == [wfm[w] EXCEPT !.rfc = r, !.was = @ \cup {wfm[w].rfc}, !.rev = @ + 1]
  <2>1. /\ wfm[w] # None /\ r \in Stored /\ wfm' = [wfm EXCEPT ![w] = row]
        /\ UNCHANGED <<rfc, parent, links, ops, last, proj>>
    BY <1>3 DEF reassign_wfm_parent, _assert_eligible_rfc_authority, IsActive
  <2>2. row \in Task /\ row.rfc = r
    <3>1. wfm[w] \in Task
      BY <1>1, <2>1
    <3>2. wfm[w].rev + 1 \in Nat /\ wfm[w].was \cup {wfm[w].rfc} \in SUBSET Rfcs
      BY <3>1 DEF Task
    <3> QED  BY <3>1, <3>2 DEF Task
  <2> HIDE DEF row
  <2> QED  BY <1>0, <2>1, <2>2
<1>4. ASSUME NEW work \in Works, TaskChanges(w, work)
      PROVE  RfcInv'
  <2> DEFINE row == [wfm[w] EXCEPT !.work = work, !.rev = @ + 1]
  <2>1. /\ wfm[w] # None /\ wfm' = [wfm EXCEPT ![w] = row]
        /\ UNCHANGED <<rfc, parent, links, ops, last, proj>>
    BY <1>4 DEF TaskChanges
  <2>2. row \in Task /\ row.rfc = wfm[w].rfc
    BY <1>1, <2>1, TaskEdits
  <2> HIDE DEF row
  <2> QED  BY <1>0, <1>1, <2>1, <2>2
<1> QED  BY <1>2, <1>3, <1>4

-----------------------------------------------------------------------------
(* RFCs: the statuses and the cascade. *)

LEMMA StatusType ==
    ASSUME RfcInv, NEW r \in Rfcs, NEW class \in Classes, NEW auth \in {"enhanced_rfc", "wfm_provisional"},
           cmd \in Nat, ApplyStatus(r, class, auth)
    PROVE  /\ proj' \in [Rfcs -> Projection \cup {None}]
           /\ proj'[r].class = class /\ proj'[r] # None
           /\ proj'[r].epoch = IF class \notin Terminal THEN None
                               ELSE IF StatusClass(r) \in Terminal THEN proj[r].epoch ELSE cmd
           /\ \A q \in Rfcs : q # r => proj'[q] = proj[q]
<1> DEFINE epoch == IF class \notin Terminal THEN None
                    ELSE IF StatusClass(r) \in Terminal THEN proj[r].epoch ELSE cmd
           row == [class |-> class, auth |-> auth, ev |-> cmd, epoch |-> epoch]
<1>1. StatusClass(r) \in Terminal => proj[r] # None /\ proj[r] \in Projection
  BY DEF StatusClass, Terminal, RfcInv, RfcType
<1>2. proj' = [proj EXCEPT ![r] = row]
  BY <1>1 DEF ApplyStatus
<1>3. epoch \in Nat \cup {None}
  BY <1>1 DEF Projection
<1>4. row \in Projection /\ row.class = class /\ row.epoch = epoch
  <2> HIDE DEF epoch
  <2> QED  BY <1>3 DEF Projection
<1> HIDE DEF row
<1> QED  BY <1>2, <1>4, RfcAssumption DEF RfcInv, RfcType

LEMMA StatusKeepsRfcs ==
    ASSUME RfcInv, RequestsStay, NEW r \in Rfcs, NEW class \in Classes,
           NEW auth \in {"enhanced_rfc", "wfm_provisional"}, cmd \in Nat, ApplyStatus(r, class, auth)
    PROVE  RfcInv'
<1>1. UNCHANGED <<rfc, parent, links, ops, last, wfm>>
  BY DEF ApplyStatus
<1>2. proj' \in [Rfcs -> Projection \cup {None}]
  BY StatusType
<1> QED  BY <1>1, <1>2, RowsKeepRfcs DEF RfcInv, RfcType, BranchInv

(* What a cascade ends is there: the scope was captured again. *)
LEMMA CascadeFacts ==
    ASSUME RfcInv, NEW p, execute(p)
    PROVE  /\ DOMAIN p.scope.wfms = _applicable_wfms(ScopeRfcs(p.trigger))
           /\ wfm' \in [Wfms -> Task \cup {None}]
           /\ \A w \in Wfms : IF w \in _applicable_wfms(ScopeRfcs(p.trigger))
                              THEN wfm'[w] # None /\ wfm'[w].work = "final" /\ wfm'[w].rfc = wfm[w].rfc
                              ELSE wfm'[w] = wfm[w]
<1> DEFINE D == _applicable_wfms(ScopeRfcs(p.trigger))
<1>1. DOMAIN p.scope.wfms = D
  <2>1. p.scope = capture_scope(p.trigger)
    BY DEF execute, ScopeUnchanged, _persisted_snapshot
  <2> QED  BY <2>1 DEF capture_scope
<1>2. wfm' = [w \in Wfms |-> IF w \in D THEN [wfm[w] EXCEPT !.work = "final", !.rev = @ + 1] ELSE wfm[w]]
  BY <1>1 DEF execute, apply_terminal_cascade, _persisted_snapshot
<1>3. ASSUME NEW w \in Wfms
      PROVE  /\ wfm'[w] \in Task \cup {None}
             /\ IF w \in D THEN wfm'[w] # None /\ wfm'[w].work = "final" /\ wfm'[w].rfc = wfm[w].rfc
                           ELSE wfm'[w] = wfm[w]
  <2>1. CASE w \in D
    <3> DEFINE row == [wfm[w] EXCEPT !.work = "final", !.rev = @ + 1]
    <3>1. wfm[w] \in Task
      BY <2>1 DEF _applicable_wfms, RfcInv, RfcType
    <3>2. row \in Task /\ row.rfc = wfm[w].rfc /\ row.work = "final"
      BY <3>1, TaskEdits DEF Works
    <3>3. wfm'[w] = row
      BY <1>2, <2>1
    <3> HIDE DEF row, D
    <3> QED  BY <2>1, <3>2, <3>3, RfcAssumption
  <2>2. CASE w \notin D
    BY <1>2, <2>2 DEF RfcInv, RfcType
  <2> QED  BY <2>1, <2>2
<1>4. wfm' \in [Wfms -> Task \cup {None}]
  <2>1. wfm' = [w \in Wfms |-> wfm'[w]]
    BY <1>2
  <2> QED  BY <1>3, <2>1
<1> QED  BY <1>1, <1>3, <1>4

LEMMA CascadeKeepsRfcs ==
    ASSUME RfcInv, RequestsStay, NEW p, refresh(p) \/ execute(p)
    PROVE  RfcInv'
<1>1. CASE refresh(p)
  BY <1>1, RowsKeepRfcs DEF refresh, RfcInv, RfcType, BranchInv
<1>2. CASE execute(p)
  <2>1. UNCHANGED <<rfc, parent, links, ops, last, proj>>
    BY <1>2 DEF execute
  <2>2. ASSUME NEW w \in Wfms, wfm'[w] # None
        PROVE  wfm'[w].rfc \in Stored
    <3>1. CASE w \in _applicable_wfms(ScopeRfcs(p.trigger))
      <4>1. wfm'[w].rfc = wfm[w].rfc
        BY <1>2, <3>1, CascadeFacts
      <4>2. wfm[w] # None
        BY <3>1 DEF _applicable_wfms
      <4> QED  BY <4>1, <4>2 DEF RfcInv, BranchInv
    <3>2. CASE w \notin _applicable_wfms(ScopeRfcs(p.trigger))
      <4>1. wfm'[w] = wfm[w]
        BY <1>2, <3>2, CascadeFacts
      <4> QED  BY <2>2, <4>1 DEF RfcInv, BranchInv
    <3> QED  BY <3>1, <3>2
  <2> QED  BY <1>2, <2>1, <2>2, CascadeFacts, RowsKeepRfcs DEF RfcInv, RfcType
<1> QED  BY <1>1, <1>2

LEMMA RfcNextKeepsRfcs ==
    ASSUME SrType, RfcInv, RfcNext
    PROVE  RfcInv'
<1>1. RequestsStay /\ cmd \in Nat
  BY RfcNextMovesRequests, ExistsForGood DEF RequestsStay, SrType
<1>2. ASSUME NEW r \in Rfcs, NEW c \in Customers \cup {None}, NEW local \in BOOLEAN,
             \/ create_or_adopt_identity(r, c, local) \/ create_from_source(r) \/ hard_delete(r)
             \/ set_customer(r, c) \/ set_customer_from_review(r, c)
      PROVE  RfcInv'
  <2>1. FALSE \in BOOLEAN /\ None \in Customers \cup {None}
    OBVIOUS
  <2> QED  BY <1>1, <1>2, <2>1, IdentityKeepsRfcs, DeleteKeepsRfcs, CustomerKeepsRfcs
              DEF create_from_source, set_customer_from_review
<1>3. ASSUME NEW r \in Rfcs, NEW p \in Rfcs,
             detach_subordinate(r) \/ add_subordinate(p, r) \/ reparent_subordinate(p, r)
      PROVE  RfcInv'
  BY <1>1, <1>3, DetachKeepsRfcs, HierarchyKeepsRfcs
<1>4. ASSUME NEW r \in Rfcs, NEW s \in SRs,
             link(s, r) \/ link_sr_from_review(s, r) \/ unlink(s, r)
      PROVE  RfcInv'
  BY <1>1, <1>4, LinksKeepRfcs
<1>5. ASSUME NEW w \in Wfms,
             \/ \E r \in Rfcs : register_manual_wfm_task(w, r) \/ reassign_wfm_parent(w, r)
             \/ \E work \in Works : TaskChanges(w, work)
      PROVE  RfcInv'
  BY <1>1, <1>5, TasksKeepRfcs
<1>6. ASSUME NEW r \in Rfcs, NEW class \in Classes,
             \/ apply_accepted_source_projection(r, class)
             \/ accept_provisional_implement_eligibility_from_wfm(r)
      PROVE  RfcInv'
  <2>1. "implement_eligible" \in Classes
    BY DEF Classes
  <2> QED  BY <1>1, <1>6, <2>1, StatusKeepsRfcs
              DEF apply_accepted_source_projection, accept_provisional_implement_eligibility_from_wfm
<1>7. ASSUME NEW p, refresh(p) \/ execute(p)
      PROVE  RfcInv'
  BY <1>1, <1>7, CascadeKeepsRfcs
<1>8. ASSUME \/ \E r \in Rfcs, kind \in {"exact_rfc", "reviewed_branch"} : archive(r, kind)
             \/ \E o \in DOMAIN ops : restore_operation(o)
      PROVE  RfcInv'
  BY <1>1, <1>8, ArchivesKeepRfcs
<1>9. "implement_eligible" \in Classes /\ TRUE \in BOOLEAN /\ None \in Customers \cup {None}
  BY DEF Classes
<1> QED  BY <1>2, <1>3, <1>4, <1>5, <1>6, <1>7, <1>8, <1>9 DEF RfcNext

-----------------------------------------------------------------------------
(* The whole step. *)

(* A command of the catalogue or of a classification leaves the service      *)
(* requests and the RFCs alone.                                              *)
LEMMA CatalogIsApart ==
    ASSUME CatalogNext
    PROVE  Accept /\ UNCHANGED <<srVars, rfcVars, use, cls, batchVars>>
<1>1. ASSUME NEW l, create_product_line(l) \/ SetLineLifecycle(l)
      PROVE  Accept /\ UNCHANGED <<srVars, rfcVars, use, cls, batchVars>>
  BY <1>1 DEF create_product_line, SetLineLifecycle
<1>2. ASSUME NEW k, NEW c, SetContractLifecycle(k) \/ create_contract(k, c)
      PROVE  Accept /\ UNCHANGED <<srVars, rfcVars, use, cls, batchVars>>
  BY <1>2 DEF SetContractLifecycle, create_contract
<1>3. ASSUME NEW p, NEW k, NEW l, NEW policy,
             revise_policy(p) \/ SetCplLifecycle(p) \/ create_contract_product_line(p, k, l, policy)
      PROVE  Accept /\ UNCHANGED <<srVars, rfcVars, use, cls, batchVars>>
  BY <1>3 DEF revise_policy, SetCplLifecycle, create_contract_product_line
<1>4. ASSUME NEW m, NEW c, NEW code, NEW p, supersede_mapping(m) \/ create_mapping(m, c, code, p)
      PROVE  Accept /\ UNCHANGED <<srVars, rfcVars, use, cls, batchVars>>
  BY <1>4 DEF supersede_mapping, create_mapping
<1> QED  BY <1>1, <1>2, <1>3, <1>4 DEF CatalogNext

LEMMA BatchIsApart ==
    ASSUME BatchNext
    PROVE  UNCHANGED <<srVars, rfcVars, cmd, use, catalogVars>>
<1>1. ASSUME NEW p, preview_batch(p)
      PROVE  UNCHANGED <<srVars, rfcVars, cmd, use, catalogVars>>
  BY <1>1 DEF preview_batch
<1>2. ASSUME NEW a, _completed_replay(a) \/ apply_batch(a) \/ _commit_summary(a) \/ AttemptDies(a)
      PROVE  UNCHANGED <<srVars, rfcVars, cmd, use, catalogVars>>
  BY <1>2 DEF _completed_replay, apply_batch, _commit_summary, AttemptDies
<1> QED  BY <1>1, <1>2 DEF BatchNext

LEMMA ClassificationIsApart ==
    ASSUME ClassificationNext
    PROVE  Accept /\ UNCHANGED <<srVars, rfcVars, use, catalogVars, batchVars>>
BY DEF ClassificationNext, classify_service_request, clear_service_request_classification

(* A step is one of RfcNext, or it leaves every RFC alone. *)
LEMMA StepMoves ==
    ASSUME SrType, RfcInv, Next
    PROVE  /\ SrType' /\ RequestsMove /\ RequestsStay /\ cmd <= cmd'
           /\ RfcNext \/ UNCHANGED rfcVars
<1> DEFINE Goal == SrType' /\ RequestsMove /\ cmd <= cmd'
<1>1. ASSUME RequestNext, UNCHANGED rfcVars PROVE Goal
  BY <1>1, RequestNextMoves DEF SrType
<1>2. ASSUME RfcNext PROVE Goal
  BY <1>2, RfcNextMovesRequests DEF SrType
<1>3. ASSUME NEW s \in SRs, NEW c \in Customers \cup {None},
             set_request_customer(s, c) \/ set_request_customer_from_review(s, c)
      PROVE  Goal /\ UNCHANGED rfcVars
  BY <1>3, CustomerMoves DEF set_request_customer, set_request_customer_from_review, SrType
<1>4. ASSUME UNCHANGED srVars, Accept \/ UNCHANGED cmd PROVE Goal
  BY <1>4, AcceptCounts DEF srVars, SrType, RequestsMove
<1>5. CatalogNext \/ ClassificationNext \/ BatchNext =>
          UNCHANGED srVars /\ UNCHANGED rfcVars /\ (Accept \/ UNCHANGED cmd)
  BY CatalogIsApart, ClassificationIsApart, BatchIsApart
<1>6. UNCHANGED slaVars => UNCHANGED srVars /\ UNCHANGED rfcVars /\ UNCHANGED cmd
  BY DEF slaVars, ticketVars
<1>7. Goal /\ (RfcNext \/ UNCHANGED rfcVars)
  BY <1>1, <1>2, <1>3, <1>4, <1>5, <1>6 DEF Next, SlaNext
<1> QED  BY <1>7, ExistsForGood DEF RequestsStay

(* What the proofs below start from. *)
CoreInv == SrType /\ RfcInv

LEMMA UnchangedKeepsRfcs ==
    ASSUME RfcInv, RequestsStay, UNCHANGED rfcVars
    PROVE  RfcInv'
BY RowsKeepRfcs DEF rfcVars, RfcInv, RfcType, BranchInv

LEMMA CoreInit == Init => CoreInv
<1> SUFFICES ASSUME Init PROVE CoreInv
  OBVIOUS
<1>1. SrType
  BY DEF Init, SlaInit, SrInit, SrType
<1>2. RfcType
  BY RfcInitType DEF Init, SlaInit
<1>3. Stored = {} /\ links = {} /\ \A r \in Rfcs : parent[r] = None
  BY DEF Init, SlaInit, RfcInit, Stored
<1>4. \A w \in Wfms : wfm[w] = None
  BY DEF Init, SlaInit, RfcInit
<1>5. BranchInv
  BY <1>3, <1>4 DEF BranchInv
<1> QED  BY <1>1, <1>2, <1>5 DEF CoreInv, RfcInv

LEMMA CoreNext ==
    ASSUME CoreInv, [Next]_vars
    PROVE  CoreInv'
<1>1. CASE Next
  BY <1>1, StepMoves, RfcNextKeepsRfcs, UnchangedKeepsRfcs DEF CoreInv
<1>2. CASE UNCHANGED vars
  <2>1. UNCHANGED srVars /\ UNCHANGED rfcVars /\ UNCHANGED cmd /\ sr' = sr
    BY <1>2 DEF vars, slaVars, ticketVars, srVars
  <2>2. RequestsStay
    BY <2>1 DEF RequestsStay, Exists
  <2>3. SrType'
    BY <2>1 DEF CoreInv, SrType, srVars
  <2> QED  BY <2>1, <2>2, <2>3, UnchangedKeepsRfcs DEF CoreInv
<1> QED  BY <1>1, <1>2

LEMMA CoreHolds == Spec => []CoreInv
<1>1. CoreInv /\ [Next]_vars => CoreInv'
  BY CoreNext
<1> QED  BY <1>1, CoreInit, PTL DEF Spec

(* The hierarchy is a forest of two levels over stored RFCs, service requests   *)
(* are linked to roots and the customers of a branch agree: whichever commands   *)
(* of add_subordinate, reparent_subordinate, detach_subordinate, link, unlink,   *)
(* set_customer, archive and hard_delete follow each other.                      *)
THEOREM BranchesAreSound == Spec => []BranchIsSound
<1>1. CoreInv => BranchIsSound
  <2> SUFFICES ASSUME CoreInv PROVE BranchIsSound
    OBVIOUS
  <2>1. ASSUME NEW c \in Rfcs, parent[c] # None
        PROVE  /\ {c, parent[c]} \subseteq Stored /\ parent[parent[c]] = None /\ ~Linked(c)
               /\ Agree(rfc[c].customer, rfc[parent[c]].customer)
    BY <2>1 DEF CoreInv, RfcInv, BranchInv, Used, Linked
  <2>2. ASSUME NEW l \in links
        PROVE  Exists(l[1]) /\ l[2] \in Stored
    <3>1. l \in SRs \X Rfcs
      BY DEF CoreInv, RfcInv, RfcType
    <3>2. l[1] \in SRs /\ l[2] \in Rfcs /\ l = <<l[1], l[2]>>
      BY <3>1
    <3> QED  BY <3>2 DEF CoreInv, RfcInv, BranchInv, Used
  <2> QED  BY <2>1, <2>2 DEF BranchIsSound, CoreInv, RfcInv, BranchInv
<1> QED  BY <1>1, CoreHolds, PTL

-----------------------------------------------------------------------------
(* RFCs: archive operations.  An archived RFC was archived last by an         *)
(* operation that lists it.                                                  *)

ArchivedBy(r, o) == r \in ops[o] /\ last[r] = [type |-> "archived", op |-> o]
ArchiveInv == \A r \in Stored : rfc[r].archived => \E o \in DOMAIN ops : ArchivedBy(r, o)

(* Any other command leaves the operations alone and archives nothing. *)
ArchivesStay ==
    /\ ops' = ops /\ last' = last
    /\ \A r \in Stored' : rfc'[r].archived => r \in Stored /\ rfc[r].archived

LEMMA BumpedKeepsArchives ==
    ASSUME RfcInv, NEW S \in SUBSET Stored, rfc' = Bumped(S), UNCHANGED <<ops, last>>
    PROVE  ArchivesStay
<1>1. /\ \A r \in Stored : rfc'[r].archived = rfc[r].archived
      /\ \A r \in Rfcs : r \notin Stored /\ rfc'[r] # None => rfc'[r].archived = FALSE
  BY BumpedMoves DEF RfcInv, Moves, Stored
<1> QED  BY <1>1 DEF ArchivesStay, Stored

LEMMA OthersKeepArchives ==
    ASSUME RfcInv, RfcNext,
           ~\E r \in Rfcs, kind \in {"exact_rfc", "reviewed_branch"} : archive(r, kind),
           ~\E o \in DOMAIN ops : restore_operation(o)
    PROVE  ArchivesStay
<1>1. ASSUME UNCHANGED <<rfc, ops, last>> PROVE ArchivesStay
  BY <1>1 DEF ArchivesStay, Stored
<1>2. ASSUME NEW r \in Rfcs, NEW c \in Customers \cup {None}, NEW local \in BOOLEAN,
             create_or_adopt_identity(r, c, local)
      PROVE  ArchivesStay
  <2>1. /\ r \notin Stored /\ rfc' = [rfc EXCEPT ![r] = NewRfc(c, local)]
        /\ UNCHANGED <<ops, last>> /\ NewRfc(c, local).archived = FALSE
    BY <1>2, NewRfcType DEF create_or_adopt_identity
  <2> QED  BY <2>1 DEF ArchivesStay, Stored, RfcInv, RfcType
<1>3. ASSUME NEW r \in Rfcs, hard_delete(r) PROVE ArchivesStay
  BY <1>3 DEF hard_delete, ArchivesStay, Stored, RfcInv, RfcType
<1>4. ASSUME NEW r \in Rfcs, NEW c \in Customers \cup {None}, set_customer(r, c)
      PROVE  ArchivesStay
  <2> DEFINE row == [rfc[r] EXCEPT !.customer = c, !.rev = @ + 1]
  <2>1. r \in Stored /\ rfc' = [rfc EXCEPT ![r] = row] /\ UNCHANGED <<ops, last>>
    BY <1>4 DEF set_customer
  <2>2. row.archived = rfc[r].archived
    BY <2>1, StoredRow, RfcEdits DEF RfcInv
  <2> HIDE DEF row
  <2> QED  BY <2>1, <2>2 DEF ArchivesStay, Stored, RfcInv, RfcType
<1>5. ASSUME NEW r \in Rfcs, NEW p \in Rfcs,
             detach_subordinate(r) \/ add_subordinate(p, r) \/ reparent_subordinate(p, r)
      PROVE  ArchivesStay
  <2>1. CASE detach_subordinate(r)
    <3>1. {r, parent[r]} \in SUBSET Stored
      BY <2>1 DEF detach_subordinate, RfcInv, BranchInv, Used
    <3> QED  BY <2>1, <3>1, BumpedKeepsArchives DEF detach_subordinate
  <2>2. CASE add_subordinate(p, r)
    <3>1. {p, r} \in SUBSET Stored
      BY <2>2 DEF add_subordinate, _raise_first_hierarchy_blocker
    <3> QED  BY <2>2, <3>1, BumpedKeepsArchives DEF add_subordinate
  <2>3. CASE reparent_subordinate(p, r)
    <3>1. {p, r, parent[r]} \in SUBSET Stored
      BY <2>3 DEF reparent_subordinate, _raise_first_hierarchy_blocker, RfcInv, BranchInv, Used
    <3> QED  BY <2>3, <3>1, BumpedKeepsArchives DEF reparent_subordinate
  <2> QED  BY <1>5, <2>1, <2>2, <2>3
<1>6. ASSUME NEW r \in Rfcs, NEW s \in SRs,
             link(s, r) \/ link_sr_from_review(s, r) \/ unlink(s, r)
      PROVE  ArchivesStay
  <2>1. CASE link(s, r)
    BY <2>1, BumpedKeepsArchives DEF link, LinkTo
  <2>2. CASE link_sr_from_review(s, r)
    <3>1. {_governing_root(r)} \in SUBSET Stored
      BY <2>2 DEF link_sr_from_review, _governing_root, RfcInv, BranchInv, Used
    <3> QED  BY <2>2, <3>1, BumpedKeepsArchives DEF link_sr_from_review, LinkTo
  <2>3. CASE unlink(s, r)
    <3>1. {r} \in SUBSET Stored
      BY <2>3 DEF unlink, RfcInv, BranchInv, Used
    <3> QED  BY <2>3, <3>1, BumpedKeepsArchives DEF unlink
  <2> QED  BY <1>6, <2>1, <2>2, <2>3
<1>7. ASSUME NEW w, NEW x,
             register_manual_wfm_task(w, x) \/ reassign_wfm_parent(w, x) \/ TaskChanges(w, x)
      PROVE  ArchivesStay
  BY <1>1, <1>7 DEF register_manual_wfm_task, reassign_wfm_parent, TaskChanges
<1>8. ASSUME NEW r, NEW class,
             \/ apply_accepted_source_projection(r, class)
             \/ accept_provisional_implement_eligibility_from_wfm(r)
      PROVE  ArchivesStay
  BY <1>1, <1>8 DEF apply_accepted_source_projection,
                    accept_provisional_implement_eligibility_from_wfm, ApplyStatus
<1>9. ASSUME NEW p, refresh(p) \/ execute(p)
      PROVE  ArchivesStay
  BY <1>1, <1>9 DEF refresh, execute
<1> QED
  BY <1>2, <1>3, <1>4, <1>5, <1>6, <1>7, <1>8, <1>9
     DEF RfcNext, create_from_source, set_customer_from_review

LEMMA ArchiveKeepsArchives ==
    ASSUME RfcInv, ArchiveInv, NEW r \in Rfcs, NEW kind, archive(r, kind)
    PROVE  ArchiveInv'
<1>1. PICK S \in SUBSET Stored :
              /\ Moves(S)
              /\ \A q \in Stored : rfc'[q].archived = IF q \in S THEN TRUE ELSE rfc[q].archived
              /\ ops' = Append(ops, S)
              /\ last' = [q \in Rfcs |-> IF q \in S THEN [type |-> "archived", op |-> Len(ops')] ELSE last[q]]
  BY ArchiveFacts
<1>2. /\ Len(ops') \in DOMAIN ops' /\ ops'[Len(ops')] = S
      /\ \A o \in DOMAIN ops : o \in DOMAIN ops' /\ ops'[o] = ops[o]
  BY <1>1 DEF RfcInv, RfcType, Stored
<1>3. ASSUME NEW q \in Stored', rfc'[q].archived
      PROVE  \E o \in DOMAIN ops' : q \in ops'[o] /\ last'[q] = [type |-> "archived", op |-> o]
  <2>1. q \in Rfcs /\ q \in Stored
    BY <1>1, <1>3 DEF Moves, Stored
  <2>2. CASE q \in S
    BY <1>1, <1>2, <2>1, <2>2
  <2>3. CASE q \notin S
    <3>1. PICK o \in DOMAIN ops : q \in ops[o] /\ last[q] = [type |-> "archived", op |-> o]
      BY <1>1, <1>3, <2>1, <2>3 DEF ArchiveInv, ArchivedBy
    <3> QED  BY <1>1, <1>2, <2>1, <2>3, <3>1
  <2> QED  BY <2>2, <2>3
<1> QED  BY <1>3 DEF ArchiveInv, ArchivedBy

LEMMA RestoreKeepsArchives ==
    ASSUME RfcInv, ArchiveInv, NEW o \in DOMAIN ops, restore_operation(o)
    PROVE  ArchiveInv'
<1>1. PICK S \in SUBSET Stored :
              /\ Moves(S)
              /\ \A q \in Stored : rfc'[q].archived = IF q \in S THEN FALSE ELSE rfc[q].archived
              /\ last' = [q \in Rfcs |-> IF q \in S THEN [type |-> "restored", op |-> o] ELSE last[q]]
              /\ ops' = ops
  BY RestoreFacts
<1>2. ASSUME NEW q \in Stored', rfc'[q].archived
      PROVE  \E x \in DOMAIN ops' : q \in ops'[x] /\ last'[q] = [type |-> "archived", op |-> x]
  <2>1. q \in Rfcs /\ q \in Stored /\ q \notin S /\ rfc[q].archived
    BY <1>1, <1>2 DEF Moves, Stored
  <2>2. PICK x \in DOMAIN ops : q \in ops[x] /\ last[q] = [type |-> "archived", op |-> x]
    BY <2>1 DEF ArchiveInv, ArchivedBy
  <2> QED  BY <1>1, <2>1, <2>2
<1> QED  BY <1>2 DEF ArchiveInv, ArchivedBy

LEMMA StayKeepsArchives ==
    ASSUME ArchiveInv, ArchivesStay
    PROVE  ArchiveInv'
BY DEF ArchiveInv, ArchivesStay, ArchivedBy

LEMMA ArchiveNext ==
    ASSUME CoreInv, ArchiveInv, [Next]_vars
    PROVE  ArchiveInv'
<1>1. CASE RfcNext
  BY <1>1, ArchiveKeepsArchives, RestoreKeepsArchives, OthersKeepArchives, StayKeepsArchives DEF CoreInv
<1>2. CASE UNCHANGED rfcVars
  BY <1>2, StayKeepsArchives DEF rfcVars, ArchivesStay, Stored
<1> QED  BY <1>1, <1>2, StepMoves DEF CoreInv, vars, slaVars, ticketVars

(* An archived RFC is restored by exactly one archive operation and an active  *)
(* one by none, whatever overlapping operations archived and restored it       *)
(* (archive, restore_operation and the eligibility of its members).            *)
THEOREM ArchivedIsRestorableOnce == Spec => []RestorableOnce
<1>1. CoreInv /\ ArchiveInv => RestorableOnce
  <2> SUFFICES ASSUME CoreInv, ArchiveInv, NEW r \in Stored
               PROVE  Cardinality({o \in DOMAIN ops : restore_eligible(o, r)})
                         = (IF rfc[r].archived THEN 1 ELSE 0)
    BY DEF RestorableOnce
  <2> DEFINE E == {o \in DOMAIN ops : restore_eligible(o, r)}
  <2>1. CASE rfc[r].archived
    <3>1. PICK o \in DOMAIN ops : ArchivedBy(r, o)
      BY <2>1 DEF ArchiveInv
    <3>2. E = {o}
      <4>1. o \in E
        BY <2>1, <3>1 DEF ArchivedBy, restore_eligible
      <4>2. ASSUME NEW x \in E PROVE x = o
        <5>1. [type |-> "archived", op |-> x] = [type |-> "archived", op |-> o]
          BY <3>1 DEF ArchivedBy, restore_eligible
        <5> QED  BY <5>1
      <4> QED  BY <4>1, <4>2
    <3> HIDE DEF E
    <3>3. Cardinality(E) = 1
      BY <3>2, FS_Singleton
    <3> QED  BY <2>1, <3>3 DEF E
  <2>2. CASE ~rfc[r].archived
    <3>1. E = {}
      BY <2>2 DEF restore_eligible
    <3> HIDE DEF E
    <3>2. Cardinality(E) = 0
      BY <3>1, FS_EmptySet
    <3> QED  BY <2>2, <3>2 DEF E
  <2> QED  BY <2>1, <2>2
<1>2. Init => ArchiveInv
  BY DEF Init, SlaInit, RfcInit, ArchiveInv, Stored
<1>3. CoreInv /\ ArchiveInv /\ [Next]_vars => ArchiveInv'
  BY ArchiveNext
<1> QED  BY <1>1, <1>2, <1>3, CoreHolds, PTL DEF Spec

-----------------------------------------------------------------------------
(* RFCs: cascade proposals.  PendingIsCurrent is not inductive: an epoch is    *)
(* opened with the number of a command, and no proposal may have it before.    *)

IsProposal(p) ==
    /\ p = [id |-> p.id, trigger |-> p.trigger, epoch |-> p.epoch, class |-> p.class, ev |-> p.ev,
            scope |-> p.scope, state |-> p.state]
    /\ p.trigger \in Rfcs /\ p.epoch \in Nat

Counts(p) == p.state \in {"pending", "executed"}
SameEpoch(p, q) == p.trigger = q.trigger /\ p.epoch = q.epoch

CascadeInv ==
    /\ \A p \in proposals : IsProposal(p) /\ p.epoch < cmd
    /\ \A r \in Rfcs : StatusClass(r) \in Terminal => proj[r].epoch \in Nat /\ proj[r].epoch < cmd
    /\ \A p \in proposals : p.state = "pending" => _current_terminal_binding(p)
    /\ \A p, q \in proposals : SameEpoch(p, q) /\ Counts(p) /\ Counts(q) => p = q

LEMMA ProposalEdit ==
    ASSUME NEW p, IsProposal(p), NEW v
    PROVE  LET q == [p EXCEPT !.state = v]
           IN  IsProposal(q) /\ SameEpoch(p, q) /\ q.state = v
BY DEF IsProposal, SameEpoch

LEMMA EditedOnce ==
    ASSUME NEW p, NEW q, IsProposal(p), IsProposal(q), NEW v, p.state = q.state,
           [p EXCEPT !.state = v] = [q EXCEPT !.state = v]
    PROVE  p = q
<1> DEFINE e == [p EXCEPT !.state = v]
           f == [q EXCEPT !.state = v]
<1>1. /\ e.id = p.id /\ e.trigger = p.trigger /\ e.epoch = p.epoch /\ e.class = p.class
      /\ e.ev = p.ev /\ e.scope = p.scope
  BY DEF IsProposal
<1>2. /\ f.id = q.id /\ f.trigger = q.trigger /\ f.epoch = q.epoch /\ f.class = q.class
      /\ f.ev = q.ev /\ f.scope = q.scope
  BY DEF IsProposal
<1> HIDE DEF e, f
<1>3. e = f
  BY DEF e, f
<1>4. /\ p.id = q.id /\ p.trigger = q.trigger /\ p.epoch = q.epoch /\ p.class = q.class
      /\ p.ev = q.ev /\ p.scope = q.scope
  BY <1>1, <1>2, <1>3
<1> QED  BY <1>4 DEF IsProposal

LEMMA CaptureFacts ==
    ASSUME NEW r \in Rfcs, NEW e \in Nat, NEW class, NEW ev
    PROVE  LET p == capture_pending(r, e, class, ev)
           IN  IsProposal(p) /\ p.trigger = r /\ p.epoch = e /\ p.state = "pending"
BY DEF capture_pending, IsProposal

(* The terminal class has an epoch that a proposal can be bound to. *)
LEMMA BoundTo ==
    ASSUME RfcInv, CascadeInv, NEW p \in proposals, p.state = "pending"
    PROVE  /\ p.trigger \in Rfcs /\ StatusClass(p.trigger) \in Terminal
           /\ proj[p.trigger] # None /\ proj[p.trigger].epoch = p.epoch
BY DEF CascadeInv, IsProposal, _current_terminal_binding, StatusClass

(* Superseding takes proposals out of the count and adds none. *)
LEMMA SupersededFacts ==
    ASSUME RfcInv, CascadeInv, NEW S \in SUBSET proposals
    PROVE  \A q \in Superseded(S) :
              /\ IsProposal(q) /\ q.epoch < cmd
              /\ q \in proposals \ S \/ q.state = "superseded"
<1> TAKE q \in Superseded(S)
<1>1. CASE q \in proposals \ S
  BY <1>1 DEF CascadeInv
<1>2. CASE \E p \in S : q = [p EXCEPT !.state = "superseded"]
  <2>1. PICK p \in S : q = [p EXCEPT !.state = "superseded"]
    BY <1>2
  <2>2. IsProposal(p) /\ p.epoch < cmd
    BY DEF CascadeInv
  <2>3. IsProposal(q) /\ SameEpoch(p, q) /\ q.state = "superseded"
    BY <2>1, <2>2, ProposalEdit
  <2> QED  BY <2>2, <2>3 DEF SameEpoch
<1> QED  BY <1>1, <1>2 DEF Superseded

LEMMA StatusKeepsCascades ==
    ASSUME CoreInv, CascadeInv, NEW r \in Rfcs, NEW class \in Classes,
           NEW auth \in {"enhanced_rfc", "wfm_provisional"}, Accept, ApplyStatus(r, class, auth)
    PROVE  CascadeInv'
<1> DEFINE was == StatusClass(r) \in Terminal
           is == class \in Terminal
           e == proj[r].epoch
<1>0. RfcInv /\ cmd \in Nat /\ cmd' = cmd + 1 /\ \A n \in Nat : n < cmd => n < cmd'
  BY AcceptCounts DEF CoreInv, SrType
<1>1. /\ proj'[r].class = class /\ proj'[r] # None
      /\ proj'[r].epoch = IF ~is THEN None ELSE IF was THEN e ELSE cmd
      /\ \A q \in Rfcs : q # r => proj'[q] = proj[q]
  BY <1>0, StatusType
<1>2. ASSUME NEW q \in Rfcs, StatusClass(q)' \in Terminal
      PROVE  proj'[q].epoch \in Nat /\ proj'[q].epoch < cmd'
  <2>1. CASE q = r
    BY <1>0, <1>1, <1>2, <2>1 DEF StatusClass, CascadeInv
  <2>2. CASE q # r
    BY <1>0, <1>1, <1>2, <2>2 DEF StatusClass, CascadeInv
  <2> QED  BY <2>1, <2>2
<1>3. ASSUME NEW p \in proposals, p.state = "pending", p.trigger # r \/ (was /\ is)
      PROVE  proj'[p.trigger] # None /\ proj'[p.trigger].epoch = p.epoch /\ proj'[p.trigger].class \in Terminal
  <2>1. p.trigger \in Rfcs /\ StatusClass(p.trigger) \in Terminal /\ proj[p.trigger].epoch = p.epoch
        /\ proj[p.trigger] # None
    BY <1>0, <1>3, BoundTo
  <2>2. CASE p.trigger = r
    BY <1>1, <1>3, <2>1, <2>2
  <2>3. CASE p.trigger # r
    BY <1>1, <2>1, <2>3 DEF StatusClass
  <2> QED  BY <2>2, <2>3
<1>4. ASSUME NEW p \in proposals, p.state = "pending", p.trigger = r
      PROVE  was /\ p.epoch = e
  BY <1>0, <1>4, BoundTo
<1>5. CASE is /\ ~was
  <2> DEFINE new == capture_pending(r, cmd, class, cmd)
  <2>1. proposals' = proposals \cup {new}
    BY <1>5 DEF ApplyStatus
  <2>2. IsProposal(new) /\ new.trigger = r /\ new.epoch = cmd /\ new.state = "pending"
    BY <1>0, CaptureFacts
  <2> HIDE DEF new
  <2>3. \A p \in proposals' : IsProposal(p) /\ p.epoch < cmd'
    BY <1>0, <2>1, <2>2 DEF CascadeInv, IsProposal
  <2>4. ASSUME NEW p \in proposals', p.state = "pending"
        PROVE  _current_terminal_binding(p)'
    <3>1. CASE p \in proposals
      BY <1>3, <1>4, <1>5, <2>4, <3>1 DEF _current_terminal_binding
    <3>2. CASE p = new
      BY <1>1, <1>5, <2>2, <3>2 DEF _current_terminal_binding
    <3> QED  BY <2>1, <3>1, <3>2
  <2>5. \A p \in proposals : p.epoch # new.epoch
    BY <1>0, <2>2 DEF CascadeInv, IsProposal
  <2>6. \A p, q \in proposals' : SameEpoch(p, q) /\ Counts(p) /\ Counts(q) => p = q
    BY <2>1, <2>5 DEF CascadeInv, SameEpoch
  <2> QED  BY <1>2, <2>3, <2>4, <2>6 DEF CascadeInv
<1>6. CASE was /\ ~is
  <2> DEFINE S == _pending_for_epoch(r, e)
  <2>1. proposals' = Superseded(S)
    BY <1>6 DEF ApplyStatus, _supersede_pending_for_reversal, StatusClass, Terminal
  <2>2. S \in SUBSET proposals /\ \A p \in proposals : p.state = "pending" /\ p.trigger = r => p \in S
    BY <1>4 DEF _pending_for_epoch, Pending
  <2> HIDE DEF S
  <2>3. \A p \in proposals' : /\ IsProposal(p) /\ p.epoch < cmd
                              /\ p \in proposals \ S \/ p.state = "superseded"
    BY <1>0, <2>1, <2>2, SupersededFacts
  <2>4. \A p \in proposals' : p.epoch < cmd'
    BY <1>0, <2>3 DEF IsProposal
  <2>5. ASSUME NEW p \in proposals', p.state = "pending"
        PROVE  _current_terminal_binding(p)'
    BY <1>3, <2>2, <2>3, <2>5 DEF _current_terminal_binding
  <2>6. \A p, q \in proposals' : SameEpoch(p, q) /\ Counts(p) /\ Counts(q) => p = q
    BY <2>3 DEF CascadeInv, Counts
  <2> QED  BY <1>2, <2>3, <2>4, <2>5, <2>6 DEF CascadeInv
<1>7. CASE (is <=> was)
  <2>1. proposals' = proposals
    BY <1>7 DEF ApplyStatus
  <2>2. \A p \in proposals : p.epoch < cmd'
    BY <1>0 DEF CascadeInv, IsProposal
  <2>3. ASSUME NEW p \in proposals, p.state = "pending"
        PROVE  _current_terminal_binding(p)'
    BY <1>3, <1>4, <1>7, <2>3 DEF _current_terminal_binding
  <2> QED  BY <1>2, <2>1, <2>2, <2>3 DEF CascadeInv
<1> QED  BY <1>5, <1>6, <1>7

LEMMA CascadesKeepCascades ==
    ASSUME CoreInv, CascadeInv, NEW p \in proposals, refresh(p) \/ execute(p)
    PROVE  CascadeInv'
<1>0. RfcInv /\ cmd \in Nat /\ cmd' = cmd + 1 /\ \A n \in Nat : n < cmd => n < cmd'
  BY AcceptCounts DEF CoreInv, SrType, refresh, execute
<1>1. proj' = proj /\ p.state = "pending" /\ IsProposal(p) /\ p.epoch < cmd
  BY DEF refresh, execute, CascadeInv
<1>2. /\ p.trigger \in Rfcs /\ p.epoch \in Nat
      /\ \A q : _current_terminal_binding(q)' <=> _current_terminal_binding(q)
      /\ \A r \in Rfcs : StatusClass(r)' = StatusClass(r)
  BY <1>1 DEF IsProposal, _current_terminal_binding, StatusClass
<1>3. _current_terminal_binding(p) /\ \A q \in proposals : SameEpoch(p, q) /\ Counts(q) => q = p
  BY <1>1 DEF CascadeInv, Counts
<1>4. \A r \in Rfcs : StatusClass(r)' \in Terminal => proj'[r].epoch \in Nat /\ proj'[r].epoch < cmd'
  BY <1>0, <1>1, <1>2 DEF CascadeInv
(* p makes way for one proposal of its epoch. *)
<1>5. ASSUME NEW new, IsProposal(new), SameEpoch(p, new),
             \A q \in proposals' : \/ q = new \/ q \in proposals \ {p}
                                   \/ q.state = "superseded" /\ IsProposal(q) /\ q.epoch < cmd
      PROVE  CascadeInv'
  <2>1. \A q \in proposals' : IsProposal(q) /\ q.epoch < cmd'
    BY <1>0, <1>1, <1>5 DEF CascadeInv, SameEpoch, IsProposal
  <2>2. _current_terminal_binding(new)
    BY <1>3, <1>5 DEF SameEpoch, _current_terminal_binding
  <2>3. ASSUME NEW q \in proposals', q.state = "pending"
        PROVE  _current_terminal_binding(q)'
    BY <1>2, <1>5, <2>2, <2>3 DEF CascadeInv
  <2>4. ASSUME NEW x \in proposals', NEW y \in proposals', SameEpoch(x, y), Counts(x), Counts(y)
        PROVE  x = y
    <3>1. (x = new \/ x \in proposals \ {p}) /\ (y = new \/ y \in proposals \ {p})
      BY <1>5, <2>4 DEF Counts
    <3> QED  BY <1>3, <1>5, <2>4, <3>1 DEF CascadeInv, SameEpoch
  <2> QED  BY <1>4, <2>1, <2>3, <2>4 DEF CascadeInv
<1>6. CASE refresh(p)
  <2> DEFINE now == proj[p.trigger]
             new == capture_pending(p.trigger, p.epoch, now.class, now.ev)
  <2>1. proposals' = Superseded({p}) \cup {new}
    BY <1>6 DEF refresh
  <2>2. IsProposal(new) /\ SameEpoch(p, new)
    BY <1>2, CaptureFacts DEF SameEpoch
  <2> HIDE DEF new
  <2>3. \A q \in Superseded({p}) : /\ IsProposal(q) /\ q.epoch < cmd
                                   /\ q \in proposals \ {p} \/ q.state = "superseded"
    BY <1>0, SupersededFacts
  <2> QED  BY <1>5, <2>1, <2>2, <2>3
<1>7. CASE execute(p)
  <2> DEFINE new == [p EXCEPT !.state = "executed"]
  <2>1. proposals' = (proposals \ {p}) \cup {new}
    BY <1>7 DEF execute
  <2>2. IsProposal(new) /\ SameEpoch(p, new)
    BY <1>1, ProposalEdit
  <2> HIDE DEF new
  <2> QED  BY <1>5, <2>1, <2>2
<1> QED  BY <1>6, <1>7

(* Every other step leaves the statuses and the proposals alone. *)
LEMMA RfcStepKinds ==
    ASSUME SrType, RfcNext
    PROVE  \/ UNCHANGED <<proj, proposals>>
           \/ \E r \in Rfcs, class \in Classes, auth \in {"enhanced_rfc", "wfm_provisional"} :
                 Accept /\ ApplyStatus(r, class, auth)
           \/ \E p \in proposals : refresh(p) \/ execute(p)
<1> DEFINE Stays == UNCHANGED <<proj, proposals>>
<1>1. ASSUME NEW r \in Rfcs, NEW c, NEW local,
             \/ create_or_adopt_identity(r, c, local) \/ hard_delete(r) \/ set_customer(r, c)
      PROVE  Stays
  BY <1>1 DEF create_or_adopt_identity, hard_delete, set_customer
<1>2. ASSUME NEW r \in Rfcs, NEW p \in Rfcs,
             detach_subordinate(r) \/ add_subordinate(p, r) \/ reparent_subordinate(p, r)
      PROVE  Stays
  BY <1>2 DEF detach_subordinate, add_subordinate, reparent_subordinate
<1>3. ASSUME NEW s, NEW r, link(s, r) \/ link_sr_from_review(s, r) \/ unlink(s, r)
      PROVE  Stays
  BY <1>3 DEF link, link_sr_from_review, unlink, LinkTo
<1>4. ASSUME NEW r, NEW kind, archive(r, kind) \/ restore_operation(r)
      PROVE  Stays
  BY <1>4 DEF archive, restore_operation
<1>5. ASSUME NEW w, NEW x,
             register_manual_wfm_task(w, x) \/ reassign_wfm_parent(w, x) \/ TaskChanges(w, x)
      PROVE  Stays
  BY <1>5 DEF register_manual_wfm_task, reassign_wfm_parent, TaskChanges
<1>6. ASSUME NEW r \in Rfcs, NEW class \in Classes,
             \/ apply_accepted_source_projection(r, class)
             \/ accept_provisional_implement_eligibility_from_wfm(r)
      PROVE  \E q \in Rfcs, cl \in Classes, auth \in {"enhanced_rfc", "wfm_provisional"} :
                 Accept /\ ApplyStatus(q, cl, auth)
  <2>1. "implement_eligible" \in Classes
    BY DEF Classes
  <2> QED  BY <1>6, <2>1
              DEF apply_accepted_source_projection, accept_provisional_implement_eligibility_from_wfm
<1>7. "implement_eligible" \in Classes
  BY DEF Classes
<1> QED
  BY <1>1, <1>2, <1>3, <1>4, <1>5, <1>6, <1>7
     DEF RfcNext, create_from_source, set_customer_from_review

LEMMA CascadeNext ==
    ASSUME CoreInv, CascadeInv, [Next]_vars
    PROVE  CascadeInv'
<1>1. ASSUME cmd \in Nat, cmd' \in Nat, cmd <= cmd', UNCHANGED <<proj, proposals>> PROVE CascadeInv'
  <2>1. /\ \A q : _current_terminal_binding(q)' <=> _current_terminal_binding(q)
        /\ \A r : StatusClass(r)' = StatusClass(r)
        /\ \A n \in Nat : n < cmd => n < cmd'
    BY <1>1 DEF _current_terminal_binding, StatusClass
  <2> QED  BY <1>1, <2>1 DEF CascadeInv, IsProposal
<1>2. CASE Next
  <2>1. cmd \in Nat /\ cmd' \in Nat /\ cmd <= cmd' /\ (RfcNext \/ UNCHANGED rfcVars)
    BY <1>2, StepMoves DEF CoreInv, SrType
  <2>2. CASE RfcNext
    BY <1>1, <2>1, <2>2, RfcStepKinds, StatusKeepsCascades, CascadesKeepCascades DEF CoreInv
  <2>3. CASE UNCHANGED rfcVars
    BY <1>1, <2>1, <2>3 DEF rfcVars
  <2> QED  BY <2>1, <2>2, <2>3
<1>3. CASE UNCHANGED vars
  BY <1>1, <1>3 DEF vars, slaVars, ticketVars, rfcVars, CoreInv, SrType
<1> QED  BY <1>2, <1>3

LEMMA CascadeHolds == Spec => [](CoreInv /\ CascadeInv)
<1>1. Init => CascadeInv
  BY DEF Init, SlaInit, RfcInit, CascadeInv, StatusClass, Terminal
<1>2. CoreInv /\ CascadeInv /\ [Next]_vars => CascadeInv'
  BY CascadeNext
<1> QED  BY <1>1, <1>2, CoreHolds, PTL DEF Spec

(* A pending cascade proposal is about the terminal epoch its RFC is in now,   *)
(* and an epoch has at most one proposal that is pending or was executed: a     *)
(* reversal, a refresh and a later closing never leave one that could end work  *)
(* twice (apply_accepted_source_projection, refresh, execute).                  *)
THEOREM CascadesAreCurrent == Spec => []PendingIsCurrent
<1>1. CoreInv /\ CascadeInv => PendingIsCurrent
  <2> SUFFICES ASSUME CascadeInv PROVE PendingIsCurrent
    OBVIOUS
  <2>1. \A p \in Pending : _current_terminal_binding(p)
    BY DEF CascadeInv, Pending
  <2>2. ASSUME NEW p \in proposals, NEW q \in proposals, p.trigger = q.trigger, p.epoch = q.epoch,
               {p.state, q.state} \subseteq {"pending", "executed"}
        PROVE  p = q
    <3>1. Counts(p) /\ Counts(q) /\ SameEpoch(p, q)
      BY <2>2 DEF Counts, SameEpoch
    <3> QED  BY <3>1 DEF CascadeInv
  <2> QED  BY <2>1, <2>2 DEF PendingIsCurrent
<1> QED  BY <1>1, CascadeHolds, PTL

(* A pending proposal was not executed, and only its own execution makes it so. *)
LEMMA ExecutedByExecute ==
    ASSUME CoreInv, CascadeInv, Next, NEW p \in Pending, [p EXCEPT !.state = "executed"] \in proposals'
    PROVE  execute(p)
<1> DEFINE done == [p EXCEPT !.state = "executed"]
<1>1. p \in proposals /\ p.state = "pending" /\ IsProposal(p) /\ RfcInv
  BY DEF Pending, CascadeInv, CoreInv
<1>2. SameEpoch(p, done) /\ done.state = "executed" /\ IsProposal(done)
  BY <1>1, ProposalEdit
<1> HIDE DEF done
<1>3. done \notin proposals
  BY <1>1, <1>2 DEF CascadeInv, Counts
<1>4. done \in proposals'
  BY DEF done
<1>5. RfcNext
  BY <1>3, <1>4, StepMoves DEF CoreInv, rfcVars
<1>6. ASSUME NEW r \in Rfcs, NEW class \in Classes, NEW auth \in {"enhanced_rfc", "wfm_provisional"},
             Accept, ApplyStatus(r, class, auth)
      PROVE  FALSE
  <2> DEFINE epoch == IF proj[r] = None THEN None ELSE proj[r].epoch
             S == _pending_for_epoch(r, epoch)
             new == capture_pending(r, cmd, class, cmd)
  <2>1. proposals' \in {proposals, proposals \cup {new}, Superseded(S)}
    BY <1>6 DEF ApplyStatus, _supersede_pending_for_reversal
  <2>2. S \in SUBSET proposals
    BY DEF _pending_for_epoch, Pending
  <2>3. new.state = "pending"
    BY DEF capture_pending
  <2> HIDE DEF S, new
  <2>4. done \notin Superseded(S)
    BY <1>1, <1>2, <1>3, <2>2, SupersededFacts
  <2> QED  BY <1>2, <1>3, <1>4, <2>1, <2>3, <2>4
<1>7. ASSUME NEW q \in proposals, refresh(q)
      PROVE  FALSE
  <2> DEFINE new == capture_pending(q.trigger, q.epoch, proj[q.trigger].class, proj[q.trigger].ev)
  <2>1. proposals' = Superseded({q}) \cup {new}
    BY <1>7 DEF refresh
  <2>2. new.state = "pending"
    BY DEF capture_pending
  <2> HIDE DEF new
  <2>3. done \notin Superseded({q})
    BY <1>1, <1>2, <1>3, SupersededFacts
  <2> QED  BY <1>2, <1>4, <2>1, <2>2, <2>3
<1>8. PICK q \in proposals : execute(q)
  BY <1>3, <1>4, <1>5, <1>6, <1>7, RfcStepKinds DEF CoreInv
<1>9. q.state = "pending" /\ IsProposal(q) /\ done = [q EXCEPT !.state = "executed"]
  BY <1>3, <1>4, <1>8 DEF execute, CascadeInv
<1>10. q = p
  BY <1>1, <1>9, EditedOnce DEF done
<1> QED  BY <1>8, <1>10

(* Executing a cascade ends exactly the work that is open under its RFC, or     *)
(* under the branch it is the root of, at that moment: the scope it was          *)
(* reviewed with is compared with the stored one first (execute,                *)
(* apply_terminal_cascade).                                                     *)
THEOREM CascadeExecutesWholeBranch == Spec => ExecutesWholeBranch
<1> DEFINE A == \A p \in Pending : [p EXCEPT !.state = "executed"] \in proposals' =>
                   \A w \in Wfms : IF w \in _applicable_wfms(ScopeRfcs(p.trigger))
                                   THEN wfm'[w].work = "final" ELSE wfm'[w] = wfm[w]
<1>1. ASSUME CoreInv, CascadeInv, [Next]_vars
      PROVE  [A]_ticketVars
  <2>1. CASE Next
    <3>1. ASSUME NEW p \in Pending, [p EXCEPT !.state = "executed"] \in proposals'
          PROVE  \A w \in Wfms : IF w \in _applicable_wfms(ScopeRfcs(p.trigger))
                                 THEN wfm'[w].work = "final" ELSE wfm'[w] = wfm[w]
      <4>1. execute(p)
        BY <1>1, <2>1, <3>1, ExecutedByExecute
      <4> QED  BY <1>1, <4>1, CascadeFacts DEF CoreInv
    <3> QED  BY <3>1
  <2>2. CASE UNCHANGED vars
    BY <2>2 DEF vars, slaVars
  <2> QED  BY <1>1, <2>1, <2>2
<1> QED  BY <1>1, CascadeHolds, PTL DEF Spec, ExecutesWholeBranch

-----------------------------------------------------------------------------
(* Classification: the catalogue.  An active CPL keeps its contract and its    *)
(* product line active, and a classified request keeps its CPL active.        *)

CatalogType ==
    /\ line \in [Lines -> Lifecycle \cup {None}]
    /\ contract \in [Contracts -> Contract \cup {None}]
    /\ cpl \in [Cpls -> Cpl \cup {None}]
    /\ mapping \in [Mappings -> Mapping \cup {None}]

OwnersActive == \A p \in Cpls : ActiveCpl(p) => ActiveContract(cpl[p].contract) /\ ActiveLine(cpl[p].line)

CatalogInv == CatalogType /\ OwnersActive

(* What makes a request's classification right. *)
Fits(s, p) == p \in Cpls /\ ActiveCpl(p) /\ cpl[p].policy /\ CustomerOf(p) = sr[s].customer

ClassInv ==
    /\ cls \in [SRs -> Classification \cup {None}]
    /\ \A s \in SRs : cls[s] # None => Exists(s) /\ Fits(s, cls[s].cpl)

LEMMA ContractEdit ==
    ASSUME NEW old \in Contract, NEW state \in Lifecycle
    PROVE  LET row == [old EXCEPT !.state = state, !.rev = @ + 1]
           IN  row \in Contract /\ row.state = state /\ row.customer = old.customer
<1>1. old.rev + 1 \in Nat
  BY DEF Contract
<1> QED  BY <1>1 DEF Contract

LEMMA CplEdits ==
    ASSUME NEW old \in Cpl
    PROVE  /\ \A state \in Lifecycle :
                LET row == [old EXCEPT !.state = state, !.rev = @ + 1]
                IN  /\ row \in Cpl /\ row.state = state /\ row.contract = old.contract
                    /\ row.line = old.line /\ row.policy = old.policy
           /\ LET row == [old EXCEPT !.policy = TRUE, !.rev = @ + 1]
              IN  /\ row \in Cpl /\ row.state = old.state /\ row.contract = old.contract
                  /\ row.line = old.line /\ row.policy = TRUE
<1>0. old.rev + 1 \in Nat
  BY DEF Cpl
<1>1. ASSUME NEW state \in Lifecycle
      PROVE  LET row == [old EXCEPT !.state = state, !.rev = @ + 1]
             IN  /\ row \in Cpl /\ row.state = state /\ row.contract = old.contract
                 /\ row.line = old.line /\ row.policy = old.policy
  BY <1>0 DEF Cpl
<1>2. LET row == [old EXCEPT !.policy = TRUE, !.rev = @ + 1]
      IN  /\ row \in Cpl /\ row.state = old.state /\ row.contract = old.contract
          /\ row.line = old.line /\ row.policy = TRUE
  BY <1>0 DEF Cpl
<1> QED  BY <1>1, <1>2

LEMMA OtherLifecycle == \A state : Other(state) \in Lifecycle
BY DEF Other, Lifecycle

(* A product line is created active, or turned when no active CPL needs it. *)
LEMMA LineKeepsCatalog ==
    ASSUME CatalogInv, ClassInv, UNCHANGED <<srVars, contract, cpl, mapping, cls>>,
           NEW l \in Lines, create_product_line(l) \/ SetLineLifecycle(l)
    PROVE  CatalogInv' /\ ClassInv'
<1>1. PICK state \in Lifecycle : line' = [line EXCEPT ![l] = state] /\ (ActiveLine(l) => \A p \in Cpls : ActiveCpl(p) => cpl[p].line # l)
  <2>1. CASE create_product_line(l)
    BY <2>1, SlaAssumption DEF create_product_line, ActiveLine, Lifecycle
  <2>2. CASE SetLineLifecycle(l)
    BY <2>2, OtherLifecycle DEF SetLineLifecycle
  <2> QED  BY <2>1, <2>2
<1>2. CatalogType'
  BY <1>1 DEF CatalogInv, CatalogType
<1>3. \A p \in Cpls : ActiveCpl(p)' <=> ActiveCpl(p)
  BY DEF ActiveCpl
<1>4. ASSUME NEW p \in Cpls, ActiveCpl(p)
      PROVE  ActiveContract(cpl[p].contract)' /\ ActiveLine(cpl[p].line)'
  <2>1. ActiveContract(cpl[p].contract) /\ ActiveLine(cpl[p].line) /\ cpl[p].line \in Lines
    BY <1>4 DEF CatalogInv, CatalogType, OwnersActive, ActiveCpl, Cpl
  <2>2. cpl[p].line # l
    BY <1>1, <1>4, <2>1
  <2> QED  BY <1>1, <2>1, <2>2 DEF ActiveContract, ActiveLine, CatalogInv, CatalogType
<1>5. ClassInv'
  BY <1>3 DEF ClassInv, Fits, CustomerOf, Exists, srVars
<1> QED  BY <1>2, <1>3, <1>4, <1>5 DEF CatalogInv, OwnersActive

LEMMA ContractKeepsCatalog ==
    ASSUME CatalogInv, ClassInv, UNCHANGED <<srVars, line, cpl, mapping, cls>>,
           NEW k \in Contracts, SetContractLifecycle(k) \/ \E c \in Customers : create_contract(k, c)
    PROVE  CatalogInv' /\ ClassInv'
<1>1. PICK row \in Contract :
          /\ contract' = [contract EXCEPT ![k] = row]
          /\ ActiveContract(k) => \A p \in Cpls : ActiveCpl(p) => cpl[p].contract # k
  <2>1. ASSUME NEW c \in Customers, create_contract(k, c)
        PROVE  \E row \in Contract : /\ contract' = [contract EXCEPT ![k] = row]
                                     /\ ~ActiveContract(k)
    <3> DEFINE row == [customer |-> c, state |-> "active", rev |-> 1]
    <3>1. contract' = [contract EXCEPT ![k] = row] /\ ~ActiveContract(k)
      BY <2>1 DEF create_contract, ActiveContract
    <3>2. row \in Contract
      BY DEF Contract, Lifecycle
    <3> QED  BY <3>1, <3>2
  <2>2. CASE SetContractLifecycle(k)
    <3> DEFINE row == [contract[k] EXCEPT !.state = Other(@), !.rev = @ + 1]
    <3>1. /\ contract[k] # None /\ contract' = [contract EXCEPT ![k] = row]
          /\ ActiveContract(k) => \A p \in Cpls : ActiveCpl(p) => cpl[p].contract # k
      BY <2>2 DEF SetContractLifecycle
    <3>2. contract[k] \in Contract /\ Other(contract[k].state) \in Lifecycle
      BY <3>1, OtherLifecycle DEF CatalogInv, CatalogType
    <3>3. row \in Contract
      BY <3>2, ContractEdit
    <3> QED  BY <3>1, <3>3
  <2> QED  BY <2>1, <2>2
<1>2. CatalogType'
  BY <1>1 DEF CatalogInv, CatalogType
<1>3. \A p \in Cpls : ActiveCpl(p)' <=> ActiveCpl(p)
  BY DEF ActiveCpl
<1>4. ASSUME NEW p \in Cpls, ActiveCpl(p)
      PROVE  /\ ActiveContract(cpl[p].contract)' /\ ActiveLine(cpl[p].line)'
             /\ CustomerOf(p)' = CustomerOf(p)
  <2>1. ActiveContract(cpl[p].contract) /\ ActiveLine(cpl[p].line) /\ cpl[p].contract \in Contracts
    BY <1>4 DEF CatalogInv, CatalogType, OwnersActive, ActiveCpl, Cpl
  <2>2. cpl[p].contract # k
    BY <1>1, <1>4, <2>1
  <2>3. contract'[cpl[p].contract] = contract[cpl[p].contract]
    BY <1>1, <2>1, <2>2 DEF CatalogInv, CatalogType
  <2> QED  BY <2>1, <2>3 DEF ActiveContract, ActiveLine, CustomerOf
<1>5. ClassInv'
  <2>1. ASSUME NEW s \in SRs, cls[s] # None
        PROVE  Exists(s)' /\ Fits(s, cls[s].cpl)'
    BY <1>3, <1>4, <2>1 DEF ClassInv, Fits, Exists, srVars
  <2> QED  BY <2>1 DEF ClassInv
<1> QED  BY <1>2, <1>3, <1>4, <1>5 DEF CatalogInv, OwnersActive

(* A CPL is created under active owners, revised, or turned: closed when no *)
(* request is classified under it, opened again under active owners.        *)
LEMMA CplKeepsCatalog ==
    ASSUME CatalogInv, ClassInv, UNCHANGED <<srVars, line, contract, mapping, cls>>, NEW p \in Cpls,
           \/ revise_policy(p) \/ SetCplLifecycle(p)
           \/ \E k \in Contracts, l \in Lines, policy \in BOOLEAN : create_contract_product_line(p, k, l, policy)
    PROVE  CatalogInv' /\ ClassInv'
<1>1. PICK row \in Cpl :
          /\ cpl' = [cpl EXCEPT ![p] = row]
          /\ row.state = "active" => ActiveContract(row.contract) /\ ActiveLine(row.line)
          /\ \/ Classified(p) = {}
             \/ /\ row.state = cpl[p].state /\ row.contract = cpl[p].contract /\ row.policy
                /\ cpl[p] # None
  <2>1. ASSUME NEW k \in Contracts, NEW l \in Lines, NEW policy \in BOOLEAN,
               create_contract_product_line(p, k, l, policy)
        PROVE  \E row \in Cpl : /\ cpl' = [cpl EXCEPT ![p] = row]
                                /\ ActiveContract(row.contract) /\ ActiveLine(row.line)
                                /\ Classified(p) = {}
    <3> DEFINE row == [contract |-> k, line |-> l, state |-> "active", rev |-> 1, policy |-> policy]
    <3>1. cpl[p] = None /\ cpl' = [cpl EXCEPT ![p] = row] /\ ActiveContract(k) /\ ActiveLine(l)
      BY <2>1 DEF create_contract_product_line
    <3>2. row \in Cpl /\ row.contract = k /\ row.line = l
      BY DEF Cpl, Lifecycle
    <3>3. Classified(p) = {}
      BY <3>1 DEF Classified, ClassInv, Fits, ActiveCpl
    <3> QED  BY <3>1, <3>2, <3>3
  <2>2. CASE revise_policy(p)
    <3> DEFINE row == [cpl[p] EXCEPT !.policy = TRUE, !.rev = @ + 1]
    <3>1. ActiveCpl(p) /\ cpl' = [cpl EXCEPT ![p] = row]
      BY <2>2 DEF revise_policy
    <3>2. cpl[p] \in Cpl
      BY <3>1 DEF ActiveCpl, CatalogInv, CatalogType
    <3>3. /\ row \in Cpl /\ row.state = cpl[p].state /\ row.contract = cpl[p].contract
          /\ row.line = cpl[p].line /\ row.policy = TRUE
      BY <3>2, CplEdits
    <3> HIDE DEF row
    <3>4. ActiveContract(row.contract) /\ ActiveLine(row.line)
      BY <3>1, <3>3 DEF CatalogInv, OwnersActive
    <3> QED  BY <3>1, <3>3, <3>4 DEF ActiveCpl
  <2>3. CASE SetCplLifecycle(p)
    <3> DEFINE row == [cpl[p] EXCEPT !.state = Other(@), !.rev = @ + 1]
    <3>1. /\ cpl[p] # None /\ cpl' = [cpl EXCEPT ![p] = row]
          /\ IF ActiveCpl(p) THEN Classified(p) = {}
                             ELSE ActiveContract(cpl[p].contract) /\ ActiveLine(cpl[p].line)
      BY <2>3 DEF SetCplLifecycle, CplMayClose
    <3>2. cpl[p] \in Cpl /\ Other(cpl[p].state) \in Lifecycle
      BY <3>1, OtherLifecycle DEF CatalogInv, CatalogType
    <3>3. /\ row \in Cpl /\ row.state = Other(cpl[p].state) /\ row.contract = cpl[p].contract
          /\ row.line = cpl[p].line
      BY <3>2, CplEdits
    <3> HIDE DEF row
    <3>4. row.state = "active" => ~ActiveCpl(p)
      BY <3>3 DEF ActiveCpl, Other
    <3>5. Classified(p) = {}
      BY <3>1 DEF Classified, ClassInv, Fits
    <3> QED  BY <3>1, <3>3, <3>4, <3>5
  <2> QED  BY <2>1, <2>2, <2>3
<1>2. CatalogType'
  BY <1>1 DEF CatalogInv, CatalogType
<1>3. cpl'[p] = row /\ row # None /\ \A q \in Cpls : q # p => cpl'[q] = cpl[q]
  BY <1>1, SlaAssumption DEF CatalogInv, CatalogType
<1>4. OwnersActive'
  <2>1. ASSUME NEW q \in Cpls, ActiveCpl(q)'
        PROVE  ActiveContract(cpl[q].contract)' /\ ActiveLine(cpl[q].line)'
    <3>1. CASE q = p
      BY <1>1, <1>3, <2>1, <3>1 DEF ActiveCpl, ActiveContract, ActiveLine
    <3>2. CASE q # p
      BY <1>3, <2>1, <3>2 DEF ActiveCpl, ActiveContract, ActiveLine, CatalogInv, OwnersActive
    <3> QED  BY <3>1, <3>2
  <2> QED  BY <2>1 DEF OwnersActive
<1>5. ASSUME NEW s \in SRs, cls[s] # None
      PROVE  Exists(s)' /\ Fits(s, cls[s].cpl)'
  <2>1. Exists(s) /\ Fits(s, cls[s].cpl)
    BY <1>5 DEF ClassInv
  <2>2. CASE cls[s].cpl = p
    <3>1. s \in Classified(p)
      BY <1>5, <2>2 DEF Classified
    <3> QED  BY <1>1, <1>3, <2>1, <2>2, <3>1 DEF Fits, ActiveCpl, CustomerOf, Exists, srVars
  <2>3. CASE cls[s].cpl # p
    BY <1>3, <2>1, <2>3 DEF Fits, ActiveCpl, CustomerOf, Exists, srVars
  <2> QED  BY <2>2, <2>3
<1>6. ClassInv'
  BY <1>5 DEF ClassInv
<1> QED  BY <1>2, <1>4, <1>6 DEF CatalogInv

LEMMA MappingKeepsCatalog ==
    ASSUME CatalogInv, ClassInv, UNCHANGED <<srVars, line, contract, cpl, cls>>, NEW m \in Mappings,
           \/ supersede_mapping(m)
           \/ \E c \in Customers, code \in Codes, p \in Cpls : create_mapping(m, c, code, p)
    PROVE  CatalogInv' /\ ClassInv'
<1>1. PICK row \in Mapping : mapping' = [mapping EXCEPT ![m] = row]
  <2>1. ASSUME NEW c \in Customers, NEW code \in Codes, NEW p \in Cpls, create_mapping(m, c, code, p)
        PROVE  \E row \in Mapping : mapping' = [mapping EXCEPT ![m] = row]
    <3>1. [customer |-> c, code |-> code, cpl |-> p, active |-> TRUE] \in Mapping
      BY DEF Mapping
    <3> QED  BY <2>1, <3>1 DEF create_mapping
  <2>2. CASE supersede_mapping(m)
    <3>1. mapping[m] \in Mapping
      BY <2>2 DEF supersede_mapping, CatalogInv, CatalogType
    <3>2. [mapping[m] EXCEPT !.active = FALSE] \in Mapping
      BY <3>1 DEF Mapping
    <3> QED  BY <2>2, <3>2 DEF supersede_mapping
  <2> QED  BY <2>1, <2>2
<1>2. CatalogType'
  BY <1>1 DEF CatalogInv, CatalogType
<1>3. OwnersActive' /\ ClassInv'
  BY DEF CatalogInv, OwnersActive, ActiveCpl, ActiveContract, ActiveLine, ClassInv, Fits, CustomerOf,
         Exists, srVars
<1> QED  BY <1>2, <1>3 DEF CatalogInv

LEMMA CatalogKeepsCatalog ==
    ASSUME CatalogInv, ClassInv, CatalogNext
    PROVE  CatalogInv' /\ ClassInv'
<1>0. UNCHANGED srVars /\ UNCHANGED cls
  BY CatalogIsApart
<1>1. ASSUME NEW l \in Lines, create_product_line(l) \/ SetLineLifecycle(l)
      PROVE  CatalogInv' /\ ClassInv'
  BY <1>0, <1>1, LineKeepsCatalog DEF create_product_line, SetLineLifecycle
<1>2. ASSUME NEW k \in Contracts, SetContractLifecycle(k) \/ \E c \in Customers : create_contract(k, c)
      PROVE  CatalogInv' /\ ClassInv'
  <2>1. UNCHANGED <<line, cpl, mapping>>
    BY <1>2 DEF SetContractLifecycle, create_contract
  <2> QED  BY <1>0, <1>2, <2>1, ContractKeepsCatalog
<1>3. ASSUME NEW p \in Cpls,
             \/ revise_policy(p) \/ SetCplLifecycle(p)
             \/ \E k \in Contracts, l \in Lines, policy \in BOOLEAN : create_contract_product_line(p, k, l, policy)
      PROVE  CatalogInv' /\ ClassInv'
  <2>1. UNCHANGED <<line, contract, mapping>>
    BY <1>3 DEF revise_policy, SetCplLifecycle, create_contract_product_line
  <2> QED  BY <1>0, <1>3, <2>1, CplKeepsCatalog
<1>4. ASSUME NEW m \in Mappings,
             \/ supersede_mapping(m)
             \/ \E c \in Customers, code \in Codes, p \in Cpls : create_mapping(m, c, code, p)
      PROVE  CatalogInv' /\ ClassInv'
  <2>1. UNCHANGED <<line, contract, cpl>>
    BY <1>4 DEF supersede_mapping, create_mapping
  <2> QED  BY <1>0, <1>4, <2>1, MappingKeepsCatalog
<1> QED  BY <1>1, <1>2, <1>3, <1>4 DEF CatalogNext

-----------------------------------------------------------------------------
(* Classification: previews.  What is eligible fits. *)

LEMMA EligibleFits ==
    ASSUME NEW s, NEW p \in Cpls \cup {None}, _target_state(s, p) = "eligible"
    PROVE  Fits(s, p)
<1>1. sr[s].customer # None /\ p # None /\ cpl[p] # None
  BY DEF _target_state
<1>2. CustomerOf(p) = sr[s].customer
  BY <1>1 DEF _target_state
<1>3. ActiveCpl(p) /\ ActiveContract(cpl[p].contract) /\ cpl[p].policy
  BY <1>1, <1>2 DEF _target_state
<1> QED  BY <1>1, <1>2, <1>3 DEF Fits

LEMMA ManualPreview ==
    ASSUME NEW s, NEW p
    PROVE  LET x == _manual_preview_from_reader(s, p)
           IN  x.sr = s /\ x.target = p /\ x.state = _target_state(s, p) /\ x.mapping = None
BY DEF _manual_preview_from_reader

LEMMA AutomaticPreview ==
    ASSUME CatalogInv, NEW s
    PROVE  LET x == _automatic_preview_from_reader(s)
           IN  /\ x.sr = s /\ x.target \in Cpls \cup {None}
               /\ x.state = "eligible" => _target_state(s, x.target) = "eligible"
<1> DEFINE M == match(s)
           m == CHOOSE y \in M : TRUE
           x == _automatic_preview_from_reader(s)
<1>1. CASE sr[s].customer # None /\ sr[s].code # None /\ Cardinality(M) = 1
  <2>1. M # {}
    <3> HIDE DEF M
    <3> QED  BY <1>1, FS_EmptySet
  <2>2. m \in M
    BY <2>1
  <2>3. mapping[m].cpl \in Cpls
    BY <2>2 DEF match, CatalogInv, CatalogType, Mapping
  <2>4. x = [sr |-> s, state |-> _target_state(s, mapping[m].cpl), target |-> mapping[m].cpl, mapping |-> m,
             fp |-> _preview_fingerprint(s, mapping[m].cpl, m)]
    BY <1>1 DEF _automatic_preview_from_reader
  <2> HIDE DEF m, M, x
  <2> QED  BY <2>3, <2>4 DEF x
<1>2. CASE ~(sr[s].customer # None /\ sr[s].code # None /\ Cardinality(M) = 1)
  <2> DEFINE state == IF sr[s].customer = None THEN "customer_unresolved"
                      ELSE IF M = {} \/ sr[s].code = None THEN "unclassified" ELSE "ambiguous"
  <2>1. x = [sr |-> s, target |-> None, mapping |-> None, fp |-> _preview_fingerprint(s, None, None),
             state |-> state]
    BY <1>2 DEF _automatic_preview_from_reader
  <2>2. state # "eligible"
    OBVIOUS
  <2> HIDE DEF M, x, state
  <2> QED  BY <2>1, <2>2 DEF x
<1> QED  BY <1>1, <1>2

LEMMA SetCurrentType ==
    ASSUME ClassInv, NEW s \in SRs, NEW p \in Cpls, set_current(s, p)
    PROVE  /\ cls' \in [SRs -> Classification \cup {None}]
           /\ cls'[s] # None /\ cls'[s].cpl = p
           /\ \A t \in SRs : t # s => cls'[t] = cls[t]
<1> DEFINE rev == IF cls[s] = None THEN 1 ELSE cls[s].rev + 1
           row == [cpl |-> p, rev |-> rev]
<1>1. rev \in Nat
  BY DEF ClassInv, Classification
<1>2. cls' = [cls EXCEPT ![s] = row]
  BY DEF set_current
<1> HIDE DEF rev
<1>3. row \in Classification /\ row.cpl = p
  BY <1>1 DEF Classification
<1> HIDE DEF row
<1> QED  BY <1>2, <1>3, SlaAssumption DEF ClassInv

LEMMA SetCurrentKeepsClass ==
    ASSUME ClassInv, NEW s \in SRs, NEW p, set_current(s, p), Exists(s), Fits(s, p),
           UNCHANGED <<srVars, catalogVars>>
    PROVE  ClassInv'
<1>1. /\ cls' \in [SRs -> Classification \cup {None}]
      /\ cls'[s].cpl = p /\ \A t \in SRs : t # s => cls'[t] = cls[t]
  BY SetCurrentType DEF Fits
<1>2. UNCHANGED <<sr, cpl, contract>>
  BY DEF srVars, catalogVars
<1>3. /\ \A t, q : Fits(t, q) => Fits(t, q)'
      /\ \A t : Exists(t) => Exists(t)'
  BY <1>2 DEF Fits, ActiveCpl, CustomerOf, Exists
<1>4. ASSUME NEW t \in SRs, cls'[t] # None
      PROVE  Exists(t)' /\ Fits(t, cls[t].cpl)'
  <2>1. CASE t = s
    <3>1. Fits(s, p)'
      BY <1>3
    <3> QED  BY <1>1, <1>2, <1>3, <2>1, <3>1 DEF Fits, ActiveCpl, CustomerOf
  <2>2. CASE t # s
    <3>1. cls'[t] = cls[t] /\ Exists(t) /\ Fits(t, cls[t].cpl)
      BY <1>1, <1>4, <2>2 DEF ClassInv
    <3> QED  BY <1>2, <3>1 DEF Fits, ActiveCpl, CustomerOf, Exists
  <2> QED  BY <2>1, <2>2
<1> QED  BY <1>1, <1>4 DEF ClassInv

LEMMA ClassificationKeepsClass ==
    ASSUME CatalogInv, ClassInv, ClassificationNext
    PROVE  ClassInv'
<1>0. UNCHANGED srVars /\ UNCHANGED catalogVars
  BY ClassificationIsApart
<1>1. ASSUME NEW s \in SRs, NEW p \in Previewable, Exists(s),
             classify_service_request(s, _manual_preview_from_reader(s, p))
      PROVE  ClassInv'
  <2>1. _target_state(s, p) = "eligible" /\ set_current(s, p) /\ p \in Cpls
    BY <1>1, ManualPreview DEF classify_service_request, Previewable
  <2> QED  BY <1>0, <1>1, <2>1, EligibleFits, SetCurrentKeepsClass
<1>2. ASSUME NEW s \in SRs, Exists(s), classify_service_request(s, _automatic_preview_from_reader(s))
      PROVE  ClassInv'
  <2> DEFINE x == _automatic_preview_from_reader(s)
  <2>1. /\ x.target \in Cpls \cup {None} /\ (x.state = "eligible" => _target_state(s, x.target) = "eligible")
    BY AutomaticPreview
  <2>2. x.state = "eligible" /\ set_current(s, x.target)
    BY <1>2 DEF classify_service_request
  <2> HIDE DEF x
  <2> QED  BY <1>0, <1>2, <2>1, <2>2, EligibleFits, SetCurrentKeepsClass
<1>3. ASSUME NEW s \in SRs, clear_service_request_classification(s)
      PROVE  ClassInv'
  BY <1>0, <1>3 DEF clear_service_request_classification, ClassInv, Fits, ActiveCpl, CustomerOf, Exists,
                    srVars, catalogVars
<1> QED  BY <1>1, <1>2, <1>3 DEF ClassificationNext

(* A request that gets another customer keeps a classification of that customer only. *)
LEMMA RequestsKeepClass ==
    ASSUME SrType, ClassInv, RequestsMove, UNCHANGED <<catalogVars, cls>>
    PROVE  ClassInv'
<1>1. UNCHANGED <<cpl, contract>> /\ cls' = cls
  BY DEF catalogVars
<1>2. ASSUME NEW t \in SRs, cls[t] # None, Exists(t)', sr'[t].customer = sr[t].customer \/ CustomerOf(cls[t].cpl) = sr'[t].customer
      PROVE  Exists(t)' /\ Fits(t, cls[t].cpl)'
  BY <1>1, <1>2 DEF ClassInv, Fits, ActiveCpl, CustomerOf
<1>3. ASSUME NEW t \in SRs, cls[t] # None
      PROVE  Exists(t)' /\ (sr'[t].customer = sr[t].customer \/ CustomerOf(cls[t].cpl) = sr'[t].customer)
  <2>1. Exists(t)
    BY <1>3 DEF ClassInv
  <2>2. Exists(t)'
    BY <2>1, ExistsForGood
  <2>3. ASSUME NEW s \in SRs, NEW row \in Request, Rewrites(s, row), t = s,
               row.customer # sr[t].customer, CustomerOf(cls[t].cpl) # row.customer
        PROVE  FALSE
    <3>1. cls' = [cls EXCEPT ![t] = None]
      BY <1>3, <2>1, <2>3 DEF Rewrites, apply_customer_change
    <3> QED  BY <1>1, <1>3, <3>1 DEF ClassInv
  <2>4. ASSUME NEW s \in SRs, NEW row \in Request, Rewrites(s, row)
        PROVE  sr'[t] = IF t = s THEN row ELSE sr[t]
    BY <2>4 DEF Rewrites, SrType
  <2> QED  BY <2>2, <2>3, <2>4 DEF RequestsMove
<1> QED  BY <1>1, <1>2, <1>3 DEF ClassInv

LEMMA CustomerKeepsClass ==
    ASSUME SrType, ClassInv, NEW s \in SRs, NEW c \in Customers \cup {None}, set_request_customer(s, c)
    PROVE  ClassInv'
<1>1. /\ sr' = [sr EXCEPT ![s] = [sr[s] EXCEPT !.customer = c, !.rev = @ + 1]] /\ Exists(s)
      /\ apply_customer_change(s, c) /\ UNCHANGED <<cpl, contract>>
  BY DEF set_request_customer, SetCustomer, build_customer_preview_state, catalogVars
<1>2. /\ sr'[s].customer = c /\ Exists(s)'
      /\ \A t \in SRs : t # s => sr'[t] = sr[t]
  <2> DEFINE row == [sr[s] EXCEPT !.customer = c, !.rev = @ + 1]
  <2>1. row \in Request /\ row.customer = c
    BY <1>1, ExistingRow, RequestEdits
  <2>2. sr' = [sr EXCEPT ![s] = row]
    BY <1>1
  <2> HIDE DEF row
  <2> QED  BY <2>1, <2>2, RequestAssumption DEF SrType, Exists
<1>3. /\ cls' \in [SRs -> Classification \cup {None}]
      /\ \A t \in SRs : t # s => cls'[t] = cls[t]
      /\ cls'[s] # None => cls'[s] = cls[s] /\ CustomerOf(cls[s].cpl) = c
  BY <1>1 DEF apply_customer_change, ClassInv
<1>4. ASSUME NEW t \in SRs, cls'[t] # None
      PROVE  Exists(t)' /\ Fits(t, cls[t].cpl)'
  <2>1. cls'[t] = cls[t]
    BY <1>3, <1>4
  <2>2. CASE t = s
    BY <1>1, <1>2, <1>3, <1>4, <2>1, <2>2 DEF ClassInv, Fits, ActiveCpl, CustomerOf
  <2>3. CASE t # s
    BY <1>1, <1>2, <1>4, <2>1, <2>3 DEF ClassInv, Fits, ActiveCpl, CustomerOf, Exists
  <2> QED  BY <2>2, <2>3
<1> QED  BY <1>3, <1>4 DEF ClassInv

-----------------------------------------------------------------------------
(* Classification: the batch.  BatchSummaryIsTrue is not inductive: the events *)
(* are counted by the receipts of the items, and an attempt has already        *)
(* reported what earlier attempts applied among the items it has passed.       *)

ReceiptOf(i, outcome) == [id |-> <<"target", i>>, outcome |-> outcome]
AppliedAt(i) == ReceiptOf(i, "APPLIED") \in receipts

ItemsRight ==
    /\ batch # <<>> => DOMAIN batch = DOMAIN BatchRequests /\ Len(batch) = Len(BatchRequests)
    /\ \A i \in DOMAIN batch : i \in DOMAIN BatchRequests /\ batch[i].sr = BatchRequests[i]
    /\ \A i \in DOMAIN batch : Exists(batch[i].sr) /\ batch[i].target \in Cpls \cup {None}

ReceiptsRight ==
    /\ \A r \in receipts : \E i \in DOMAIN batch, outcome \in {"APPLIED", "NO_CHANGE"} : r = ReceiptOf(i, outcome)
    /\ \A r, q \in receipts : r.id = q.id => r = q
    /\ \A i \in DOMAIN batch : AppliedAt(i) => batch[i].state = "eligible"

EventsRight ==
    /\ events \in [SRs -> {0, 1}]
    /\ \A s \in SRs : events[s] = 1 <=> \E i \in DOMAIN batch : AppliedAt(i) /\ batch[i].sr = s

(* An attempt under way has reported what it found applied so far. *)
Reports(x) ==
    /\ x \in Attempt /\ x.at >= 1 /\ x.applied \subseteq Applied /\ x.before \subseteq Applied
    /\ x.at <= Len(batch) + 1 =>
          \A i \in DOMAIN batch : i < x.at /\ batch[i].sr \in x.before => batch[i].sr \in x.applied

AttemptsRight ==
    /\ DOMAIN attempt = Attempts /\ attempt = [a \in Attempts |-> attempt[a]]
    /\ \A a \in Attempts : attempt[a] # None => batch # <<>> /\ Reports(attempt[a])

SummaryRight ==
    summary # None => /\ batch # <<>>
                      /\ summary.before \subseteq summary.applied /\ summary.applied \subseteq Applied

BatchInv == ItemsRight /\ ReceiptsRight /\ EventsRight /\ AttemptsRight /\ SummaryRight

LEMMA ReceiptFacts ==
    ASSUME NEW i, NEW outcome
    PROVE  /\ ReceiptOf(i, outcome).id = <<"target", i>> /\ ReceiptOf(i, outcome).outcome = outcome
           /\ \A j, o : ReceiptOf(j, o) = ReceiptOf(i, outcome) => j = i /\ o = outcome
<1>1. ASSUME NEW j, NEW o, ReceiptOf(j, o) = ReceiptOf(i, outcome)
      PROVE  j = i /\ o = outcome
  <2>1. <<"target", j>> = <<"target", i>> /\ o = outcome
    BY <1>1 DEF ReceiptOf
  <2> QED  BY <2>1
<1> QED  BY <1>1 DEF ReceiptOf

(* A request is one item: what was applied to it was applied at that item. *)
LEMMA ItemApplied ==
    ASSUME BatchInv, NEW i \in DOMAIN batch
    PROVE  /\ batch[i].sr \in SRs /\ i \in Nat /\ 1 <= i /\ i <= Len(batch)
           /\ batch[i].sr \in Applied <=> AppliedAt(i)
<1>0. batch # <<>>
  OBVIOUS
<1>1. /\ i \in DOMAIN BatchRequests /\ batch[i].sr = BatchRequests[i]
      /\ Len(batch) = Len(BatchRequests)
  BY <1>0 DEF BatchInv, ItemsRight
<1>2. i \in 1 .. Len(BatchRequests) /\ BatchRequests[i] \in SRs
  BY <1>1, SlaAssumption
<1>3. batch[i].sr \in Applied <=> events[batch[i].sr] = 1
  BY <1>1, <1>2 DEF Applied, BatchInv, EventsRight
<1>4. \A j \in DOMAIN batch : batch[j].sr = batch[i].sr => j = i
  BY <1>1, SlaAssumption DEF BatchInv, ItemsRight
<1> QED  BY <1>1, <1>2, <1>3, <1>4, SlaAssumption DEF BatchInv, EventsRight

LEMMA PreviewKeepsBatch ==
    ASSUME CatalogInv, BatchInv, NEW p \in Previewable \cup {None}, preview_batch(p)
    PROVE  BatchInv'
<1>0. batch = <<>> /\ receipts = {} /\ summary = None /\ \A a \in Attempts : attempt[a] = None
  <2>1. batch = <<>> /\ DOMAIN batch = {}
    BY DEF preview_batch
  <2> QED  BY <2>1 DEF BatchInv, ReceiptsRight, AttemptsRight, SummaryRight
<1>1. /\ \A i \in DOMAIN BatchRequests : Exists(BatchRequests[i])
      /\ batch' = [i \in DOMAIN BatchRequests |->
                      IF p = None THEN _automatic_preview_from_reader(BatchRequests[i])
                                  ELSE _manual_preview_from_reader(BatchRequests[i], p)]
      /\ UNCHANGED <<sr, attempt, receipts, events, summary>>
  BY DEF preview_batch, srVars
<1>2. p \in Cpls \cup {None}
  BY DEF Previewable
<1>3. DOMAIN batch' = DOMAIN BatchRequests
  BY <1>1
<1>4. ASSUME NEW i \in DOMAIN batch'
      PROVE  batch'[i].sr = BatchRequests[i] /\ batch'[i].target \in Cpls \cup {None}
  <2>1. i \in DOMAIN BatchRequests
    BY <1>3
  <2>2. CASE p = None
    <3>1. batch'[i] = _automatic_preview_from_reader(BatchRequests[i])
      BY <1>1, <2>1, <2>2
    <3> QED  BY <3>1, AutomaticPreview
  <2>3. CASE p # None
    <3>1. batch'[i] = _manual_preview_from_reader(BatchRequests[i], p)
      BY <1>1, <2>1, <2>3
    <3> QED  BY <1>2, <3>1, ManualPreview
  <2> QED  BY <2>2, <2>3
<1>5. Len(batch') = Len(BatchRequests)
  BY <1>3, SlaAssumption
<1>6. ItemsRight'
  BY <1>1, <1>3, <1>4, <1>5 DEF ItemsRight, Exists
<1>7. ReceiptsRight' /\ EventsRight'
  BY <1>0, <1>1 DEF BatchInv, ReceiptsRight, EventsRight, AppliedAt
<1>8. AttemptsRight' /\ SummaryRight'
  BY <1>0, <1>1 DEF BatchInv, AttemptsRight, SummaryRight, Reports
<1> QED  BY <1>6, <1>7, <1>8 DEF BatchInv

LEMMA AttemptEdits ==
    ASSUME NEW old \in Attempt
    PROVE  /\ LET row == [old EXCEPT !.at = @ + 1]
              IN  /\ row \in Attempt /\ row.at = old.at + 1 /\ row.before = old.before
                  /\ row.applied = old.applied
           /\ \A n \in Nat : LET row == [old EXCEPT !.at = n]
              IN  /\ row \in Attempt /\ row.at = n /\ row.before = old.before
                  /\ row.applied = old.applied
           /\ \A s \in SRs : LET row == [old EXCEPT !.at = @ + 1, !["applied"] = @ \cup {s}]
              IN  /\ row \in Attempt /\ row.at = old.at + 1 /\ row.before = old.before
                  /\ row.applied = old.applied \cup {s}
           /\ \A s \in SRs : LET row == [old EXCEPT !.at = @ + 1, !["rejected"] = @ \cup {s}]
              IN  /\ row \in Attempt /\ row.at = old.at + 1 /\ row.before = old.before
                  /\ row.applied = old.applied
<1>0. old.at + 1 \in Nat
  BY DEF Attempt
<1>1. LET row == [old EXCEPT !.at = @ + 1]
      IN  /\ row \in Attempt /\ row.at = old.at + 1 /\ row.before = old.before
          /\ row.applied = old.applied
  BY <1>0 DEF Attempt
<1>2. ASSUME NEW n \in Nat
      PROVE  LET row == [old EXCEPT !.at = n]
             IN  /\ row \in Attempt /\ row.at = n /\ row.before = old.before
                 /\ row.applied = old.applied
  BY <1>0 DEF Attempt
<1>3. ASSUME NEW s \in SRs
      PROVE  LET row == [old EXCEPT !.at = @ + 1, !["applied"] = @ \cup {s}]
             IN  /\ row \in Attempt /\ row.at = old.at + 1 /\ row.before = old.before
                 /\ row.applied = old.applied \cup {s}
  <2>1. old.applied \cup {s} \in SUBSET SRs
    BY DEF Attempt
  <2> QED  BY <1>0, <2>1 DEF Attempt
<1>4. ASSUME NEW s \in SRs
      PROVE  LET row == [old EXCEPT !.at = @ + 1, !["rejected"] = @ \cup {s}]
             IN  /\ row \in Attempt /\ row.at = old.at + 1 /\ row.before = old.before
                 /\ row.applied = old.applied
  <2>1. old.rejected \cup {s} \in SUBSET SRs
    BY DEF Attempt
  <2> QED  BY <1>0, <2>1 DEF Attempt
<1> QED  BY <1>1, <1>2, <1>3, <1>4

LEMMA AdvanceKeepsAttempts ==
    ASSUME BatchInv, NEW a \in Attempts, attempt[a] # None, batch' = batch,
           NEW i \in DOMAIN batch, i = attempt[a].at,
           NEW row \in Attempt, attempt' = [attempt EXCEPT ![a] = row], row.at = i + 1,
           row.before = attempt[a].before, attempt[a].applied \subseteq row.applied,
           Applied \subseteq Applied', row.applied \subseteq Applied',
           batch[i].sr \in row.before => batch[i].sr \in row.applied
    PROVE  AttemptsRight'
<1>1. Reports(attempt[a]) /\ batch # <<>>
  BY DEF BatchInv, AttemptsRight
<1>2. /\ attempt'[a] = row /\ \A b \in Attempts : b # a => attempt'[b] = attempt[b]
      /\ DOMAIN attempt' = Attempts /\ attempt' = [b \in Attempts |-> attempt'[b]]
  BY DEF BatchInv, AttemptsRight
<1>3. ASSUME NEW x, Reports(x) PROVE Reports(x)'
  BY <1>3 DEF Reports
<1>4. Reports(row)'
  <2>1. i \in Nat /\ 1 <= i /\ i <= Len(batch)
    BY ItemApplied
  <2>2. ASSUME NEW j \in DOMAIN batch, j < row.at, batch[j].sr \in row.before
        PROVE  batch[j].sr \in row.applied
    <3>1. j \in Nat
      BY ItemApplied
    <3>2. CASE j = i
      BY <2>2, <3>2
    <3>3. CASE j < i
      <4>1. attempt[a].at <= Len(batch) + 1
        BY <2>1, <1>1 DEF ItemsRight, BatchInv
      <4> QED  BY <1>1, <2>2, <3>3, <4>1 DEF Reports
    <3> QED  BY <2>1, <2>2, <3>1, <3>2, <3>3
  <2>3. row.before \subseteq Applied' /\ row.at >= 1
    BY <1>1, <2>1 DEF Reports
  <2> QED  BY <2>2, <2>3 DEF Reports
<1>5. ASSUME NEW b \in Attempts, attempt'[b] # None
      PROVE  batch' # <<>> /\ Reports(attempt[b])'
  <2>1. CASE b = a
    BY <1>1, <1>2, <1>4, <2>1 DEF Reports
  <2>2. CASE b # a
    <3>1. attempt'[b] = attempt[b] /\ Reports(attempt[b])
      BY <1>2, <1>5, <2>2 DEF BatchInv, AttemptsRight
    <3> QED  BY <1>1, <1>2, <1>3, <2>2, <3>1 DEF Reports
  <2> QED  BY <2>1, <2>2
<1> QED  BY <1>2, <1>5 DEF AttemptsRight

(* The branches of apply_batch. *)
LEMMA ApplyKinds ==
    ASSUME BatchInv, NEW a \in Attempts, apply_batch(a)
    PROVE  LET i == attempt[a].at
               s == batch[i].sr
               old == attempt[a]
           IN  /\ old # None /\ i \in DOMAIN batch /\ UNCHANGED <<srVars, catalogVars, batch, summary>>
               /\ \/ /\ ~AppliedAt(i) /\ UNCHANGED <<cls, receipts, events>>
                     /\ attempt' = [attempt EXCEPT ![a] = [old EXCEPT !.at = @ + 1, !["rejected"] = @ \cup {s}]]
                  \/ /\ AppliedAt(i) /\ UNCHANGED <<cls, receipts, events>>
                     /\ attempt' = [attempt EXCEPT ![a] = [old EXCEPT !.at = @ + 1, !["applied"] = @ \cup {s}]]
                  \/ /\ ~AppliedAt(i) /\ UNCHANGED <<cls, receipts, events>>
                     /\ attempt' = [attempt EXCEPT ![a] = [old EXCEPT !.at = @ + 1]]
                  \/ /\ \A r \in receipts : r.id # <<"target", i>>
                     /\ UNCHANGED <<cls, events>>
                     /\ receipts' = receipts \cup {ReceiptOf(i, "NO_CHANGE")}
                     /\ attempt' = [attempt EXCEPT ![a] = [old EXCEPT !.at = @ + 1]]
                  \/ /\ \A r \in receipts : r.id # <<"target", i>>
                     /\ batch[i].state = "eligible" /\ FreshPreview(batch[i]) = batch[i]
                     /\ set_current(s, batch[i].target)
                     /\ events' = [events EXCEPT ![s] = @ + 1]
                     /\ receipts' = receipts \cup {ReceiptOf(i, "APPLIED")}
                     /\ attempt' = [attempt EXCEPT ![a] = [old EXCEPT !.at = @ + 1, !["applied"] = @ \cup {s}]]
<1> DEFINE i == attempt[a].at
           item == batch[i]
           s == item.sr
           id == <<"target", i>>
           known == {r \in receipts : r.id = id}
<1>1. /\ attempt[a] # None /\ i \in DOMAIN batch /\ UNCHANGED <<srVars, catalogVars, batch, summary>>
      /\ \/ /\ _initial_rejection(item) \/ (known = {} /\ FreshPreview(item) # item)
            /\ Advanced(a, "rejected", s)
            /\ UNCHANGED <<cls, receipts, events>>
         \/ /\ ~_initial_rejection(item) /\ known # {}
            /\ \E r \in known : IF r.outcome = "APPLIED" THEN Advanced(a, "applied", s)
                                ELSE attempt' = [attempt EXCEPT ![a].at = @ + 1]
            /\ UNCHANGED <<cls, receipts, events>>
         \/ /\ item.state = "unchanged" /\ known = {} /\ FreshPreview(item) = item
            /\ attempt' = [attempt EXCEPT ![a].at = @ + 1]
            /\ receipts' = receipts \cup {[id |-> id, outcome |-> "NO_CHANGE"]}
            /\ UNCHANGED <<cls, events>>
         \/ /\ item.state = "eligible" /\ known = {} /\ FreshPreview(item) = item
            /\ set_current(s, item.target)
            /\ events' = [events EXCEPT ![s] = @ + 1]
            /\ receipts' = receipts \cup {[id |-> id, outcome |-> "APPLIED"]}
            /\ Advanced(a, "applied", s)
  BY DEF apply_batch, _derived_command_id
<1>2. known = {} => ~AppliedAt(i) /\ \A r \in receipts : r.id # id
  BY ReceiptFacts DEF AppliedAt
<1>3. _initial_rejection(item) => ~AppliedAt(i)
  BY <1>1 DEF _initial_rejection, BatchInv, ReceiptsRight
<1>4. ASSUME NEW r \in known
      PROVE  (r.outcome = "APPLIED" => AppliedAt(i)) /\ (r.outcome # "APPLIED" => ~AppliedAt(i))
  <2>1. PICK j \in DOMAIN batch, outcome \in {"APPLIED", "NO_CHANGE"} : r = ReceiptOf(j, outcome)
    BY DEF BatchInv, ReceiptsRight
  <2>2. j = i /\ r.outcome = outcome
    <3>1. r.id = <<"target", j>> /\ r.id = <<"target", i>>
      BY <2>1, ReceiptFacts
    <3> QED  BY <2>1, <3>1, ReceiptFacts
  <2>3. AppliedAt(i) => r = ReceiptOf(i, "APPLIED")
    BY ReceiptFacts DEF AppliedAt, BatchInv, ReceiptsRight
  <2> QED  BY <2>1, <2>2, <2>3, ReceiptFacts DEF AppliedAt
<1>5. CASE /\ _initial_rejection(item) \/ (known = {} /\ FreshPreview(item) # item)
           /\ Advanced(a, "rejected", s)
           /\ UNCHANGED <<cls, receipts, events>>
  BY <1>1, <1>2, <1>3, <1>5 DEF Advanced
<1>6. CASE /\ ~_initial_rejection(item) /\ known # {}
           /\ \E r \in known : IF r.outcome = "APPLIED" THEN Advanced(a, "applied", s)
                               ELSE attempt' = [attempt EXCEPT ![a].at = @ + 1]
           /\ UNCHANGED <<cls, receipts, events>>
  <2>1. PICK r \in known : IF r.outcome = "APPLIED" THEN Advanced(a, "applied", s)
                           ELSE attempt' = [attempt EXCEPT ![a].at = @ + 1]
    BY <1>6
  <2>2. CASE r.outcome = "APPLIED"
    BY <1>1, <1>4, <1>6, <2>1, <2>2 DEF Advanced
  <2>3. CASE r.outcome # "APPLIED"
    BY <1>1, <1>4, <1>6, <2>1, <2>3
  <2> QED  BY <2>2, <2>3
<1>7. CASE /\ item.state = "unchanged" /\ known = {} /\ FreshPreview(item) = item
           /\ attempt' = [attempt EXCEPT ![a].at = @ + 1]
           /\ receipts' = receipts \cup {[id |-> id, outcome |-> "NO_CHANGE"]}
           /\ UNCHANGED <<cls, events>>
  BY <1>1, <1>2, <1>7 DEF ReceiptOf
<1>8. CASE /\ item.state = "eligible" /\ known = {} /\ FreshPreview(item) = item
           /\ set_current(s, item.target)
           /\ events' = [events EXCEPT ![s] = @ + 1]
           /\ receipts' = receipts \cup {[id |-> id, outcome |-> "APPLIED"]}
           /\ Advanced(a, "applied", s)
  BY <1>1, <1>2, <1>8 DEF ReceiptOf, Advanced
<1> QED  BY <1>1, <1>5, <1>6, <1>7, <1>8

LEMMA ApplyKeepsBatch ==
    ASSUME BatchInv, NEW a \in Attempts, apply_batch(a)
    PROVE  BatchInv'
<1> DEFINE old == attempt[a]
           i == old.at
           s == batch[i].sr
           passed == [old EXCEPT !.at = @ + 1]
           rejected == [old EXCEPT !.at = @ + 1, !["rejected"] = @ \cup {s}]
           applied == [old EXCEPT !.at = @ + 1, !["applied"] = @ \cup {s}]
<1>1. old # None /\ i \in DOMAIN batch /\ sr' = sr /\ batch' = batch /\ summary' = summary
  BY ApplyKinds DEF srVars
<1>2. /\ s \in SRs /\ i \in Nat /\ 1 <= i /\ i <= Len(batch)
      /\ s \in Applied <=> AppliedAt(i)
  BY <1>1, ItemApplied
<1>3. old \in Attempt /\ old.applied \subseteq Applied /\ old.before \subseteq Applied
  BY <1>1 DEF BatchInv, AttemptsRight, Reports
<1>4. /\ passed \in Attempt /\ passed.at = i + 1 /\ passed.before = old.before
      /\ passed.applied = old.applied
      /\ rejected \in Attempt /\ rejected.at = i + 1 /\ rejected.before = old.before
      /\ rejected.applied = old.applied
      /\ applied \in Attempt /\ applied.at = i + 1 /\ applied.before = old.before
      /\ applied.applied = old.applied \cup {s}
  BY <1>2, <1>3, AttemptEdits
<1>5. ItemsRight'
  BY <1>1 DEF BatchInv, ItemsRight, Exists
<1> HIDE DEF passed, rejected, applied
<1>6. ASSUME NEW row \in {passed, rejected}, ~AppliedAt(i), attempt' = [attempt EXCEPT ![a] = row],
             Applied' = Applied
      PROVE  AttemptsRight'
  <2>1. s \notin old.before
    BY <1>2, <1>3, <1>6
  <2>2. row \in Attempt /\ row.at = i + 1 /\ row.before = old.before /\ row.applied = old.applied
    BY <1>4
  <2> QED  BY <1>1, <1>3, <1>6, <2>1, <2>2, AdvanceKeepsAttempts
<1>7. ASSUME attempt' = [attempt EXCEPT ![a] = applied], Applied \subseteq Applied', s \in Applied'
      PROVE  AttemptsRight'
  BY <1>1, <1>3, <1>4, <1>7, AdvanceKeepsAttempts
<1>8. ASSUME UNCHANGED <<receipts, events>>, AttemptsRight' PROVE BatchInv'
  BY <1>1, <1>5, <1>8 DEF BatchInv, ReceiptsRight, EventsRight, SummaryRight, AppliedAt, Applied
<1>9. CASE ~AppliedAt(i) /\ UNCHANGED <<receipts, events>> /\ attempt' = [attempt EXCEPT ![a] = rejected]
  <2>1. Applied' = Applied
    BY <1>9 DEF Applied
  <2> QED  BY <1>6, <1>8, <1>9, <2>1
<1>10. CASE ~AppliedAt(i) /\ UNCHANGED <<receipts, events>> /\ attempt' = [attempt EXCEPT ![a] = passed]
  <2>1. Applied' = Applied
    BY <1>10 DEF Applied
  <2> QED  BY <1>6, <1>8, <1>10, <2>1
<1>11. CASE AppliedAt(i) /\ UNCHANGED <<receipts, events>> /\ attempt' = [attempt EXCEPT ![a] = applied]
  <2>1. Applied' = Applied
    BY <1>11 DEF Applied
  <2> QED  BY <1>2, <1>7, <1>8, <1>11, <2>1
(* A new receipt of the item. *)
<1>12. ASSUME NEW outcome \in {"APPLIED", "NO_CHANGE"}, \A r \in receipts : r.id # <<"target", i>>,
              receipts' = receipts \cup {ReceiptOf(i, outcome)},
              outcome = "APPLIED" => batch[i].state = "eligible"
       PROVE  /\ ReceiptsRight' /\ ~AppliedAt(i)
              /\ \A j : AppliedAt(j)' <=> AppliedAt(j) \/ (j = i /\ outcome = "APPLIED")
  <2>1. ReceiptOf(i, outcome).id = <<"target", i>>
    BY ReceiptFacts
  <2>2. \A j : AppliedAt(j)' <=> AppliedAt(j) \/ (j = i /\ outcome = "APPLIED")
    BY <1>12, ReceiptFacts DEF AppliedAt
  <2>3. ~AppliedAt(i)
    BY <1>12, ReceiptFacts DEF AppliedAt
  <2>4. \A r \in receipts' : \E j \in DOMAIN batch, o \in {"APPLIED", "NO_CHANGE"} : r = ReceiptOf(j, o)
    BY <1>1, <1>12 DEF BatchInv, ReceiptsRight
  <2>5. \A r, q \in receipts' : r.id = q.id => r = q
    BY <1>12, <2>1 DEF BatchInv, ReceiptsRight
  <2>6. \A j \in DOMAIN batch : AppliedAt(j)' => batch[j].state = "eligible"
    BY <1>12, <2>2 DEF BatchInv, ReceiptsRight
  <2> QED  BY <1>1, <2>2, <2>3, <2>4, <2>5, <2>6 DEF ReceiptsRight
<1>13. CASE /\ \A r \in receipts : r.id # <<"target", i>>
            /\ events' = events
            /\ receipts' = receipts \cup {ReceiptOf(i, "NO_CHANGE")}
            /\ attempt' = [attempt EXCEPT ![a] = passed]
  <2>1. ReceiptsRight' /\ ~AppliedAt(i) /\ \A j : AppliedAt(j)' <=> AppliedAt(j)
    BY <1>12, <1>13
  <2>2. Applied' = Applied
    BY <1>13 DEF Applied
  <2>3. AttemptsRight'
    BY <1>6, <1>13, <2>1, <2>2
  <2>4. EventsRight'
    BY <1>1, <1>13, <2>1 DEF BatchInv, EventsRight
  <2>5. SummaryRight'
    BY <1>1, <2>2 DEF BatchInv, SummaryRight
  <2> QED  BY <1>5, <2>1, <2>3, <2>4, <2>5 DEF BatchInv
<1>14. CASE /\ \A r \in receipts : r.id # <<"target", i>>
            /\ batch[i].state = "eligible"
            /\ events' = [events EXCEPT ![s] = @ + 1]
            /\ receipts' = receipts \cup {ReceiptOf(i, "APPLIED")}
            /\ attempt' = [attempt EXCEPT ![a] = applied]
  <2>1. /\ ReceiptsRight' /\ ~AppliedAt(i)
        /\ \A j : AppliedAt(j)' <=> AppliedAt(j) \/ j = i
    BY <1>12, <1>14
  <2>2. events \in [SRs -> {0, 1}] /\ events[s] = 0
    BY <1>2, <2>1 DEF BatchInv, EventsRight, Applied
  <2>3. events'[s] = 1 /\ events' \in [SRs -> {0, 1}] /\ \A t \in SRs : t # s => events'[t] = events[t]
    BY <1>2, <1>14, <2>2
  <2>4. Applied \subseteq Applied' /\ s \in Applied'
    BY <1>2, <2>2, <2>3 DEF Applied
  <2>5. AttemptsRight'
    BY <1>7, <1>14, <2>4
  <2>6. ASSUME NEW t \in SRs
        PROVE  events'[t] = 1 <=> \E j \in DOMAIN batch : AppliedAt(j)' /\ batch[j].sr = t
    <3>1. CASE t = s
      BY <1>1, <2>1, <2>3, <3>1
    <3>2. CASE t # s
      <4>1. events'[t] = events[t]
        BY <2>3, <3>2
      <4>2. \A j \in DOMAIN batch : batch[j].sr = t => (AppliedAt(j)' <=> AppliedAt(j))
        BY <2>1, <3>2
      <4> QED  BY <4>1, <4>2 DEF BatchInv, EventsRight
    <3> QED  BY <3>1, <3>2
  <2>7. EventsRight'
    BY <1>1, <2>3, <2>6 DEF EventsRight
  <2>8. SummaryRight'
    BY <1>1, <2>4 DEF BatchInv, SummaryRight
  <2> QED  BY <1>5, <2>1, <2>5, <2>7, <2>8 DEF BatchInv
<1> QED  BY <1>9, <1>10, <1>11, <1>13, <1>14, ApplyKinds DEF passed, rejected, applied

(* An attempt that starts, ends or dies.  "row" is its new state. *)
LEMMA AttemptKeepsBatch ==
    ASSUME BatchInv, NEW a \in Attempts, batch # <<>>, UNCHANGED <<sr, batch, receipts, events>>,
           NEW row, attempt' = [attempt EXCEPT ![a] = row], Reports(row), SummaryRight'
    PROVE  BatchInv'
<1>1. /\ attempt'[a] = row /\ \A b \in Attempts : b # a => attempt'[b] = attempt[b]
      /\ DOMAIN attempt' = Attempts /\ attempt' = [b \in Attempts |-> attempt'[b]]
  BY DEF BatchInv, AttemptsRight
<1>2. ASSUME NEW x, Reports(x) PROVE Reports(x)'
  BY <1>2 DEF Reports, Applied
<1>3. ASSUME NEW b \in Attempts, attempt'[b] # None
      PROVE  batch' # <<>> /\ Reports(attempt[b])'
  <2>1. Reports(attempt'[b])
    BY <1>1, <1>3 DEF BatchInv, AttemptsRight
  <2> QED  BY <2>1 DEF Reports, Applied
<1>4. AttemptsRight'
  BY <1>1, <1>3 DEF AttemptsRight
<1> QED  BY <1>4 DEF BatchInv, ItemsRight, ReceiptsRight, EventsRight, AppliedAt, Exists

LEMMA BatchKeepsBatch ==
    ASSUME CatalogInv, BatchInv, BatchNext
    PROVE  BatchInv'
<1>0. ASSUME batch # <<>> PROVE Len(batch) \in Nat /\ DOMAIN batch = 1 .. Len(batch)
  BY <1>0, SlaAssumption DEF BatchInv, ItemsRight
<1>1. ASSUME NEW p \in Previewable \cup {None}, preview_batch(p) PROVE BatchInv'
  BY <1>1, PreviewKeepsBatch
<1>2. ASSUME NEW a \in Attempts, _completed_replay(a) PROVE BatchInv'
  <2> DEFINE row == [at |-> 1, applied |-> {}, rejected |-> {}, before |-> Applied]
  <2>1. /\ batch # <<>> /\ attempt' = [attempt EXCEPT ![a] = row]
        /\ UNCHANGED <<sr, batch, receipts, events, summary>>
    BY <1>2 DEF _completed_replay, srVars
  <2>2. Applied \in SUBSET SRs
    BY DEF Applied
  <2>3. row \in Attempt /\ row.at = 1 /\ row.applied = {} /\ row.before = Applied
    BY <2>2 DEF Attempt
  <2> HIDE DEF row
  <2>4. Reports(row)
    BY <1>0, <2>1, <2>3 DEF Reports
  <2>5. SummaryRight'
    BY <2>1 DEF BatchInv, SummaryRight, Applied
  <2> QED  BY <2>1, <2>4, <2>5, AttemptKeepsBatch
<1>3. ASSUME NEW a \in Attempts, apply_batch(a) PROVE BatchInv'
  BY <1>3, ApplyKeepsBatch
<1>4. ASSUME NEW a \in Attempts, _commit_summary(a) PROVE BatchInv'
  <2> DEFINE old == attempt[a]
             row == [old EXCEPT !.at = @ + 1]
  <2>1. /\ old # None /\ old.at = Len(batch) + 1 /\ attempt' = [attempt EXCEPT ![a] = row]
        /\ summary' = IF summary = None THEN old ELSE summary
        /\ UNCHANGED <<sr, batch, receipts, events>>
    BY <1>4 DEF _commit_summary, srVars
  <2>2. batch # <<>> /\ Reports(old)
    BY <2>1 DEF BatchInv, AttemptsRight
  <2>3. row \in Attempt /\ row.at = old.at + 1 /\ row.before = old.before /\ row.applied = old.applied
    BY <2>2, AttemptEdits DEF Reports
  <2> HIDE DEF row
  <2>4. Reports(row)
    BY <1>0, <2>1, <2>2, <2>3 DEF Reports
  <2>5. ASSUME NEW s \in old.before PROVE s \in old.applied
    <3>1. s \in SRs /\ events[s] = 1
      BY <2>2 DEF Reports, Applied, BatchInv, EventsRight
    <3>2. PICK i \in DOMAIN batch : batch[i].sr = s
      BY <3>1 DEF BatchInv, EventsRight
    <3>3. i < old.at /\ old.at <= Len(batch) + 1
      BY <1>0, <2>1, <2>2
    <3> QED  BY <2>2, <2>5, <3>2, <3>3 DEF Reports
  <2>6. SummaryRight'
    BY <2>1, <2>2, <2>5 DEF BatchInv, SummaryRight, Reports, Applied
  <2> QED  BY <2>1, <2>2, <2>4, <2>6, AttemptKeepsBatch
<1>5. ASSUME NEW a \in Attempts, AttemptDies(a) PROVE BatchInv'
  <2> DEFINE old == attempt[a]
             row == [old EXCEPT !.at = Len(batch) + 2]
  <2>1. /\ old # None /\ attempt' = [attempt EXCEPT ![a] = row]
        /\ UNCHANGED <<sr, batch, receipts, events, summary>>
    BY <1>5 DEF AttemptDies, srVars
  <2>2. batch # <<>> /\ Reports(old)
    BY <2>1 DEF BatchInv, AttemptsRight
  <2>3. Len(batch) + 2 \in Nat
    BY <1>0, <2>2
  <2>4. row \in Attempt /\ row.at = Len(batch) + 2 /\ row.before = old.before /\ row.applied = old.applied
    BY <2>2, <2>3, AttemptEdits DEF Reports
  <2> HIDE DEF row
  <2>5. Reports(row)
    BY <1>0, <2>2, <2>4 DEF Reports
  <2>6. SummaryRight'
    BY <2>1 DEF BatchInv, SummaryRight, Applied
  <2> QED  BY <2>1, <2>2, <2>5, <2>6, AttemptKeepsBatch
<1> QED  BY <1>1, <1>2, <1>3, <1>4, <1>5 DEF BatchNext

(* What a batch applies fits: its preview was read again. *)
LEMMA BatchKeepsClass ==
    ASSUME CatalogInv, ClassInv, BatchInv, BatchNext
    PROVE  ClassInv'
<1>0. UNCHANGED srVars /\ UNCHANGED catalogVars
  BY BatchIsApart
<1>1. ASSUME cls' = cls PROVE ClassInv'
  BY <1>0, <1>1 DEF ClassInv, Fits, ActiveCpl, CustomerOf, Exists, srVars, catalogVars
<1>2. ASSUME NEW a \in Attempts, apply_batch(a) PROVE ClassInv'
  <2> DEFINE i == attempt[a].at
             item == batch[i]
  <2>1. i \in DOMAIN batch
    BY <1>2, ApplyKinds
  <2>2. item.sr \in SRs /\ Exists(item.sr) /\ item.target \in Cpls \cup {None}
    BY <2>1, ItemApplied DEF BatchInv, ItemsRight
  <2>3. CASE /\ item.state = "eligible" /\ FreshPreview(item) = item /\ set_current(item.sr, item.target)
    <3>1. _target_state(item.sr, item.target) = "eligible"
      <4>1. CASE item.mapping = None
        BY <2>3, <4>1, ManualPreview DEF FreshPreview
      <4>2. CASE item.mapping # None
        <5>1. item = _automatic_preview_from_reader(item.sr)
          BY <2>3, <4>2 DEF FreshPreview
        <5> QED  BY <2>3, <5>1, AutomaticPreview
      <4> QED  BY <4>1, <4>2
    <3>2. Fits(item.sr, item.target)
      BY <2>2, <3>1, EligibleFits
    <3> QED  BY <1>0, <2>2, <2>3, <3>2, SetCurrentKeepsClass
  <2> QED  BY <1>1, <1>2, <2>3, ApplyKinds
<1>3. ASSUME NEW p, preview_batch(p) PROVE ClassInv'
  BY <1>1, <1>3 DEF preview_batch
<1>4. ASSUME NEW a, _completed_replay(a) \/ _commit_summary(a) \/ AttemptDies(a) PROVE ClassInv'
  BY <1>1, <1>4 DEF _completed_replay, _commit_summary, AttemptDies
<1> QED  BY <1>2, <1>3, <1>4 DEF BatchNext

LEMMA OthersKeepBatch ==
    ASSUME BatchInv, RequestsStay, UNCHANGED batchVars
    PROVE  BatchInv'
<1>1. UNCHANGED <<batch, attempt, receipts, events, summary>>
  BY DEF batchVars
<1>2. ItemsRight'
  <2>1. \A i \in DOMAIN batch : batch[i].sr \in SRs
    BY ItemApplied
  <2> QED  BY <1>1, <2>1 DEF BatchInv, ItemsRight, RequestsStay
<1>3. ReceiptsRight' /\ EventsRight' /\ SummaryRight'
  BY <1>1 DEF BatchInv, ReceiptsRight, EventsRight, SummaryRight, AppliedAt, Applied
<1>4. ASSUME NEW a \in Attempts, attempt[a] # None PROVE batch' # <<>> /\ Reports(attempt[a])'
  BY <1>1, <1>4 DEF BatchInv, AttemptsRight, Reports, Applied
<1>5. AttemptsRight'
  BY <1>1, <1>4 DEF BatchInv, AttemptsRight
<1> QED  BY <1>2, <1>3, <1>5 DEF BatchInv

SlaInv == CatalogInv /\ ClassInv /\ BatchInv

LEMMA SlaInitHolds == Init => SlaInv
<1> SUFFICES ASSUME SlaInit PROVE SlaInv
  BY DEF Init
<1>1. CatalogInv
  BY DEF SlaInit, CatalogInv, CatalogType, OwnersActive, ActiveCpl
<1>2. ClassInv
  BY DEF SlaInit, ClassInv
<1>3. BatchInv
  <2>1. batch = <<>> /\ DOMAIN batch = {} /\ receipts = {} /\ summary = None /\ events = [s \in SRs |-> 0]
        /\ attempt = [a \in Attempts |-> None]
    BY DEF SlaInit
  <2> QED  BY <2>1 DEF BatchInv, ItemsRight, ReceiptsRight, EventsRight, AttemptsRight, SummaryRight
<1> QED  BY <1>1, <1>2, <1>3 DEF SlaInv

LEMMA SlaNextHolds ==
    ASSUME CoreInv, SlaInv, [Next]_vars
    PROVE  SlaInv'
<1>0. ASSUME UNCHANGED catalogVars, ClassInv' PROVE CatalogInv'
  BY <1>0 DEF catalogVars, SlaInv, CatalogInv, CatalogType, OwnersActive, ActiveCpl, ActiveContract, ActiveLine
<1>1. CASE UNCHANGED vars
  <2>1. UNCHANGED <<sr, catalogVars, cls, batchVars>> /\ RequestsMove /\ RequestsStay
    BY <1>1 DEF vars, slaVars, ticketVars, srVars, RequestsMove, RequestsStay, Exists
  <2> QED  BY <1>0, <2>1, RequestsKeepClass, OthersKeepBatch DEF SlaInv, CoreInv
<1>2. CASE Next
  <2>0. RequestsMove /\ RequestsStay /\ SrType /\ RfcInv
    BY <1>2, StepMoves DEF CoreInv
  <2>1. CASE UNCHANGED <<catalogVars, cls, batchVars>>
    BY <1>0, <2>0, <2>1, RequestsKeepClass, OthersKeepBatch DEF SlaInv
  <2>2. ASSUME NEW s \in SRs, NEW c \in Customers \cup {None}, set_request_customer(s, c)
        PROVE  SlaInv'
    <3>1. UNCHANGED catalogVars /\ UNCHANGED batchVars
      BY <2>2 DEF set_request_customer
    <3> QED  BY <1>0, <2>0, <2>2, <3>1, CustomerKeepsClass, OthersKeepBatch DEF SlaInv
  <2>3. CASE CatalogNext
    BY <2>0, <2>3, CatalogKeepsCatalog, CatalogIsApart, OthersKeepBatch DEF SlaInv
  <2>4. CASE ClassificationNext
    BY <1>0, <2>0, <2>4, ClassificationKeepsClass, ClassificationIsApart, OthersKeepBatch DEF SlaInv
  <2>5. CASE BatchNext
    BY <1>0, <2>5, BatchIsApart, BatchKeepsClass, BatchKeepsBatch DEF SlaInv
  <2> QED  BY <1>2, <2>1, <2>2, <2>3, <2>4, <2>5
              DEF Next, SlaNext, set_request_customer_from_review, slaVars
<1> QED  BY <1>1, <1>2

LEMMA SlaHolds == Spec => []SlaInv
<1>1. CoreInv /\ SlaInv /\ [Next]_vars => SlaInv'
  BY SlaNextHolds
<1> QED  BY <1>1, SlaInitHolds, CoreHolds, PTL DEF Spec

(* The classification of a service request stays under a contract of its       *)
(* customer, with CPL, policy, contract and product line active, whatever       *)
(* changes of customers, contracts, lifecycles and batches come between.       *)
THEOREM ClassificationsFit == Spec => []ClassifiedWithinCustomer
<1>1. SlaInv => ClassifiedWithinCustomer
  BY DEF SlaInv, CatalogInv, OwnersActive, ClassInv, Fits, ClassifiedWithinCustomer
<1> QED  BY <1>1, SlaHolds, PTL

(* A batch applies each of its items at most once, whatever its attempts do,    *)
(* and its summary reports as applied only what was applied, and all that had   *)
(* been applied before its attempt started (apply_batch, _commit_summary).      *)
THEOREM BatchSummaries == Spec => []BatchSummaryIsTrue
<1>1. SlaInv => BatchSummaryIsTrue
  BY DEF SlaInv, BatchInv, EventsRight, SummaryRight, BatchSummaryIsTrue
<1> QED  BY <1>1, SlaHolds, PTL

-----------------------------------------------------------------------------
(***************************************************************************)
(* SourcePresence within Tickets: a warning that a newer export contradicts *)
(* is still ahead of that export's reappearance worker.                     *)
(***************************************************************************)

(* The smallest of a set of numbers, for the page of the worker. *)
LEMMA MinOfNumbers ==
    ASSUME NEW S \in SUBSET Nat, S # {}
    PROVE  Min(S) \in S /\ \A y \in S : Min(S) <= y
<1> DEFINE R == OpToRel(<, Nat)
<1>0. \A x, y \in Nat : y < x => <<y, x>> \in R
  BY DEF OpToRel
<1>1. PICK x \in S : \A y \in S : ~(<<y, x>> \in R)
  BY NatLessThanWellFounded, WFMin
<1> HIDE DEF R
<1>2. ASSUME NEW y \in S PROVE x <= y
  <2>1. x \in Nat /\ y \in Nat
    OBVIOUS
  <2>2. ~(<<y, x>> \in R)
    BY <1>1
  <2>3. ~(y < x)
    BY <1>0, <2>1, <2>2
  <2> QED  BY <2>1, <2>3
<1> QED  BY <1>2 DEF Min

(* The numbers in their order. *)
LEMMA SortedFacts ==
    /\ \A i \in DOMAIN Sorted : i \in Nat /\ 1 <= i /\ Sorted[i] \in Official
    /\ \A n \in Official : \E i \in DOMAIN Sorted : Sorted[i] = n
BY PresenceAssumption DEF Range

-----------------------------------------------------------------------------
(* An official number names one service request, and keeps naming it. *)

NumbersUnique ==
    \A s, t \in SRs : Exists(s) /\ Exists(t) /\ sr[s].no = sr[t].no /\ sr[s].no # None => s = t

NumbersStay == \A s \in SRs : Exists(s) => Exists(s)' /\ (sr[s].no # None => sr'[s].no = sr[s].no)

LEMMA MoveKeepsNumbers ==
    ASSUME SrType, NumbersUnique, RequestsMove
    PROVE  NumbersUnique' /\ NumbersStay
<1>1. CASE sr' = sr
  BY <1>1 DEF NumbersUnique, NumbersStay, Exists
<1>2. ASSUME NEW s \in SRs, NEW row \in Request, Rewrites(s, row)
      PROVE  NumbersUnique' /\ NumbersStay
  <2>1. sr'[s] = row /\ row # None /\ \A t \in SRs : t # s => sr'[t] = sr[t]
    BY <1>2, RequestAssumption DEF Rewrites, SrType
  <2>2. NumbersStay
    BY <1>2, <2>1 DEF NumbersStay, Rewrites, Exists
  <2>3. ASSUME NEW t \in SRs, t # s, Exists(t)', sr'[t].no = row.no, row.no # None
        PROVE  FALSE
    <3>1. Exists(t) /\ sr[t].no = row.no
      BY <2>1, <2>3 DEF Exists
    <3>2. Owned(row.no)
      BY <3>1 DEF Owned
    <3>3. Exists(s) /\ row.no = sr[s].no
      BY <1>2, <2>3, <3>2 DEF Rewrites
    <3> QED  BY <2>3, <3>1, <3>3 DEF NumbersUnique
  <2>4. ASSUME NEW t \in SRs, NEW u \in SRs, Exists(t)', Exists(u)', sr'[t].no = sr'[u].no, sr'[t].no # None
        PROVE  t = u
    <3>1. CASE t = s \/ u = s
      BY <2>1, <2>3, <2>4, <3>1
    <3>2. CASE t # s /\ u # s
      BY <2>1, <2>4, <3>2 DEF NumbersUnique, Exists
    <3> QED  BY <3>1, <3>2
  <2>5. NumbersUnique'
    BY <2>4 DEF NumbersUnique
  <2> QED  BY <2>2, <2>5
<1> QED  BY <1>1, <1>2 DEF RequestsMove

-----------------------------------------------------------------------------
(* The invariant.  WarningIsCurrent is not inductive: that the worker of a    *)
(* newer export has not passed a warned request rests on its cursor, on the   *)
(* receipts of its commands and on what it has in hand.                       *)

PresenceType ==
    /\ population \in [Runs -> Population \cup {None}]
    /\ accepted \in Checkpoint \cup {None}
    /\ absence \in [Runs -> [Official -> Disappearance \cup {None}]]
    /\ presence \in [SRs -> Seq(PresenceEvent)]
    /\ rjob \in [Runs -> ReappearanceJob \cup {None}]
    /\ answered \subseteq Runs \X Official

(* What rows refer to is there. *)
RunsKnown ==
    /\ \A r \in Runs : population[r] = None =>
          rjob[r] = None /\ (\A n \in Official : <<r, n>> \notin answered /\ absence[r][n] = None)
    /\ \A r \in Runs, n \in Official : absence[r][n] # None => Exists(absence[r][n].sr)
    /\ \A r \in _ordinary : rjob[r] # None
    /\ \A s \in SRs : presence[s] # <<>> =>
          Exists(s) /\ sr[s].no \in Official /\ Last(presence[s]).run \in Published

(* A number in hand has been answered. *)
HandAnswered ==
    \A r \in Runs : rjob[r] # None /\ rjob[r].hand # 0 =>
        rjob[r].hand \in DOMAIN Sorted /\ <<r, Sorted[rjob[r].hand]>> \in answered

(* s is warned of an absence that the ordinary run r contradicts. *)
Contradicts(r, s) ==
    /\ WarningActive(s) /\ r \in _ordinary
    /\ population[r].age > population[Last(presence[s]).run].age
    /\ population[r].rows[sr[s].no] = "exact"

(* The worker of r has still to come to the number of s. *)
Ahead(r, s) ==
    /\ <<r, sr[s].no>> \notin answered /\ rjob[r].state # "completed"
    /\ \A i \in DOMAIN Sorted : Sorted[i] = sr[s].no => rjob[r].cursor < i

StillAhead == \A s \in SRs, r \in Runs : Contradicts(r, s) => Ahead(r, s)

PresenceInv == PresenceType /\ NumbersUnique /\ RunsKnown /\ HandAnswered /\ StillAhead

LEMMA ProposedRequest ==
    ASSUME PresenceType, RunsKnown, NEW r \in Runs, NEW n \in Official, absence[r][n] # None
    PROVE  /\ absence[r][n] \in Disappearance /\ absence[r][n].sr \in SRs
           /\ Exists(absence[r][n].sr) /\ r \in Published
<1>1. absence[r][n] \in Disappearance
  BY DEF PresenceType
<1> QED  BY <1>1 DEF Disappearance, RunsKnown, Published

LEMMA PresenceImplies == PresenceInv => WarningIsCurrent
<1> SUFFICES ASSUME PresenceInv, NEW s \in SRs, Exists(s), WarningActive(s), NEW r \in _ordinary,
                    population[r].age > population[Last(presence[s]).run].age,
                    population[r].rows[sr[s].no] = "exact"
             PROVE  rjob[r].state # "completed"
  BY DEF WarningIsCurrent
<1>1. r \in Runs /\ Contradicts(r, s)
  BY DEF Contradicts, _ordinary, Published
<1> QED  BY <1>1 DEF PresenceInv, StillAhead, Ahead

LEMMA PresenceInitHolds == Init => PresenceInv
<1> SUFFICES ASSUME SrInit, PresenceInit PROVE PresenceInv
  BY DEF Init, SlaInit
<1>1. PresenceType
  BY DEF PresenceInit, PresenceType
<1>2. NumbersUnique
  BY DEF SrInit, NumbersUnique, Exists
<1>3. RunsKnown /\ HandAnswered
  BY DEF PresenceInit, RunsKnown, HandAnswered, _ordinary, Published
<1>4. StillAhead
  BY DEF PresenceInit, StillAhead, Contradicts, WarningActive
<1> QED  BY <1>1, <1>2, <1>3, <1>4 DEF PresenceInv

(* Commands of the other components. *)
LEMMA OthersKeepPresence ==
    ASSUME SrType, PresenceInv, RequestsMove, UNCHANGED presenceVars
    PROVE  PresenceInv'
<1>1. NumbersUnique' /\ NumbersStay
  BY MoveKeepsNumbers DEF PresenceInv
<1>2. UNCHANGED <<population, accepted, absence, presence, rjob, answered>>
  BY DEF presenceVars
<1>3. PresenceType' /\ HandAnswered'
  BY <1>2 DEF PresenceInv, PresenceType, HandAnswered
<1>4. \A s \in SRs : presence[s] # <<>> => Exists(s)' /\ sr'[s].no = sr[s].no
  BY <1>1, RequestAssumption DEF PresenceInv, RunsKnown, NumbersStay
<1>5. RunsKnown'
  <2>1. ASSUME NEW r \in Runs, NEW n \in Official, absence[r][n] # None
        PROVE  Exists(absence[r][n].sr)'
    <3>1. absence[r][n].sr \in SRs /\ Exists(absence[r][n].sr)
      BY <2>1, ProposedRequest DEF PresenceInv
    <3> QED  BY <1>1, <1>2, <3>1 DEF NumbersStay, Exists
  <2> QED  BY <1>2, <1>4, <2>1 DEF PresenceInv, RunsKnown, _ordinary, Published
<1>6. ASSUME NEW s \in SRs, NEW r \in Runs, Contradicts(r, s)' PROVE Ahead(r, s)'
  <2>1. presence[s] # <<>>
    BY <1>2, <1>6 DEF Contradicts, WarningActive
  <2>2. sr'[s].no = sr[s].no
    BY <1>4, <2>1
  <2>3. Contradicts(r, s)
    BY <1>2, <1>6, <2>2 DEF Contradicts, WarningActive, _ordinary, Published
  <2> QED  BY <1>2, <2>2, <2>3 DEF PresenceInv, StillAhead, Ahead
<1> QED  BY <1>1, <1>3, <1>5, <1>6 DEF PresenceInv, StillAhead

-----------------------------------------------------------------------------
(* The worker of r moves. *)
LEMMA WorkerKeepsPresence ==
    ASSUME PresenceInv, UNCHANGED <<sr, population, accepted, absence>>,
           NEW r \in Runs, rjob[r] # None, NEW job \in ReappearanceJob, Step(r, job),
           presence' \in [SRs -> Seq(PresenceEvent)],
           \A s \in SRs : presence'[s] # <<>> =>
               Exists(s) /\ sr[s].no \in Official /\ Last(presence'[s]).run \in Published,
           answered \subseteq answered', answered' \subseteq Runs \X Official,
           \A q \in Runs, n \in Official : <<q, n>> \in answered' => <<q, n>> \in answered \/ q = r,
           job.hand # 0 => job.hand \in DOMAIN Sorted /\ <<r, Sorted[job.hand]>> \in answered',
           \A s \in SRs, q \in Runs : Contradicts(q, s)' => Contradicts(q, s),
           \A s \in SRs : Contradicts(r, s)' =>
               /\ <<r, sr[s].no>> \notin answered' /\ job.state # "completed"
               /\ \A i \in DOMAIN Sorted : Sorted[i] = sr[s].no => job.cursor < i
    PROVE  PresenceInv'
<1>1. rjob'[r] = job /\ job # None /\ \A q \in Runs : q # r => rjob'[q] = rjob[q]
  BY PresenceAssumption DEF Step, PresenceInv, PresenceType
<1>2. PresenceType'
  BY DEF PresenceInv, PresenceType, Step
<1>3. NumbersUnique'
  BY DEF PresenceInv, NumbersUnique, Exists
<1>4. Published' = Published /\ _ordinary' = _ordinary /\ \A s : Exists(s)' <=> Exists(s)
  BY DEF Published, _ordinary, Exists
<1>5. RunsKnown'
  <2>1. population[r] # None
    BY DEF PresenceInv, RunsKnown
  <2>2. ASSUME NEW q \in Runs, population[q] = None
        PROVE  rjob'[q] = None /\ \A n \in Official : <<q, n>> \notin answered' /\ absence[q][n] = None
    BY <1>1, <2>1, <2>2 DEF PresenceInv, RunsKnown
  <2>3. \A q \in _ordinary : rjob'[q] # None
    BY <1>1 DEF PresenceInv, RunsKnown, _ordinary, Published
  <2>4. \A q \in Runs, n \in Official : absence[q][n] # None => Exists(absence[q][n].sr)
    BY DEF PresenceInv, RunsKnown
  <2> QED  BY <1>4, <2>2, <2>3, <2>4 DEF RunsKnown, Exists
<1>6. HandAnswered'
  BY <1>1 DEF PresenceInv, HandAnswered
<1>7. ASSUME NEW s \in SRs, NEW q \in Runs, Contradicts(q, s)' PROVE Ahead(q, s)'
  <2>1. CASE q = r
    BY <1>1, <1>7, <2>1 DEF Ahead
  <2>2. CASE q # r
    <3>1. Ahead(q, s) /\ sr[s].no \in Official
      BY <1>7 DEF PresenceInv, StillAhead, RunsKnown, Contradicts, WarningActive
    <3> QED  BY <1>1, <2>2, <3>1 DEF Ahead
  <2> QED  BY <2>1, <2>2
<1> QED  BY <1>2, <1>3, <1>5, <1>6, <1>7 DEF PresenceInv, StillAhead

LEMMA JobEdits ==
    ASSUME NEW old \in ReappearanceJob
    PROVE  /\ \A state \in {"queued", "running", "failed", "completed"} :
                LET job == [old EXCEPT !.state = state]
                IN  job \in ReappearanceJob /\ job.state = state /\ job.cursor = old.cursor /\ job.hand = old.hand
           /\ LET job == [old EXCEPT !.state = "queued", !.hand = 0]
              IN  job \in ReappearanceJob /\ job.state = "queued" /\ job.cursor = old.cursor /\ job.hand = 0
           /\ \A i \in Nat : LET job == [old EXCEPT !.hand = i]
              IN  job \in ReappearanceJob /\ job.state = old.state /\ job.cursor = old.cursor /\ job.hand = i
           /\ \A i \in Nat : LET job == [old EXCEPT !.cursor = i, !.hand = 0]
              IN  job \in ReappearanceJob /\ job.state = old.state /\ job.cursor = i /\ job.hand = 0
BY DEF ReappearanceJob

(* The page of the worker has the numbers of the contradicted warnings. *)
LEMMA PageFacts ==
    ASSUME PresenceInv, NEW r \in Runs, rjob[r] # None
    PROVE  /\ rjob[r] \in ReappearanceJob
           /\ _page(r) \in SUBSET Nat /\ _page(r) \subseteq DOMAIN Sorted
           /\ _page(r) # {} => Min(_page(r)) \in _page(r) /\ \A i \in _page(r) : Min(_page(r)) <= i
           /\ \A s \in SRs : Contradicts(r, s) => \E i \in _page(r) : Sorted[i] = sr[s].no
<1>1. rjob[r] \in ReappearanceJob
  BY DEF PresenceInv, PresenceType
<1>2. _page(r) \in SUBSET Nat /\ _page(r) \subseteq DOMAIN Sorted
  BY SortedFacts DEF _page
<1>3. ASSUME NEW s \in SRs, Contradicts(r, s) PROVE \E i \in _page(r) : Sorted[i] = sr[s].no
  <2>1. sr[s].no \in Official /\ Ahead(r, s)
    BY <1>3 DEF PresenceInv, StillAhead, RunsKnown, Contradicts, WarningActive
  <2>2. PICK i \in DOMAIN Sorted : Sorted[i] = sr[s].no
    BY <2>1, SortedFacts
  <2>3. sr[s].no \in Observed(r)
    BY <1>3, <2>1 DEF Observed, Contradicts
  <2>4. i > rjob[r].cursor
    BY <1>1, <2>1, <2>2, SortedFacts DEF Ahead, ReappearanceJob
  <2> QED  BY <2>2, <2>3, <2>4 DEF _page
<1> QED  BY <1>1, <1>2, <1>3, MinOfNumbers

LEMMA WorkerStateKeepsPresence ==
    ASSUME PresenceInv, UNCHANGED sr, NEW r \in Runs, claim(r) \/ lose_claim(r) \/ complete(r)
    PROVE  PresenceInv'
<1>1. /\ rjob[r] # None /\ UNCHANGED <<population, accepted, absence, presence, answered>>
  BY DEF claim, lose_claim, complete, Working
<1>2. rjob[r] \in ReappearanceJob
  BY <1>1, PageFacts
<1>3. /\ \A s \in SRs, q \in Runs : Contradicts(q, s)' <=> Contradicts(q, s)
      /\ answered \subseteq Runs \X Official /\ presence \in [SRs -> Seq(PresenceEvent)]
  BY <1>1 DEF PresenceInv, PresenceType, Contradicts, WarningActive, _ordinary, Published
<1>4. ASSUME NEW job \in ReappearanceJob, Step(r, job), job.hand \in {0, rjob[r].hand},
             job.cursor = rjob[r].cursor, job.state = "completed" => complete(r)
      PROVE  PresenceInv'
  <2>1. ASSUME NEW s \in SRs, Contradicts(r, s)
        PROVE  /\ <<r, sr[s].no>> \notin answered' /\ job.state # "completed"
               /\ \A i \in DOMAIN Sorted : Sorted[i] = sr[s].no => job.cursor < i
    <3>1. Ahead(r, s)
      BY <2>1 DEF PresenceInv, StillAhead
    <3>2. ~complete(r)
      BY <1>1, <2>1, PageFacts DEF complete
    <3> QED  BY <1>1, <1>4, <3>1, <3>2 DEF Ahead
  <2>2. job.hand # 0 => job.hand \in DOMAIN Sorted /\ <<r, Sorted[job.hand]>> \in answered'
    BY <1>1, <1>4 DEF PresenceInv, HandAnswered
  <2>3. \A s \in SRs : presence'[s] # <<>> =>
               Exists(s) /\ sr[s].no \in Official /\ Last(presence'[s]).run \in Published
    BY <1>1 DEF PresenceInv, RunsKnown
  <2> QED  BY <1>1, <1>3, <1>4, <2>1, <2>2, <2>3, WorkerKeepsPresence
<1>5. CASE claim(r)
  <2> DEFINE job == [rjob[r] EXCEPT !.state = "running"]
  <2>1. job \in ReappearanceJob /\ job.state = "running" /\ job.cursor = rjob[r].cursor /\ job.hand = rjob[r].hand
    BY <1>2, JobEdits
  <2>2. Step(r, job)
    BY <1>5 DEF claim
  <2> HIDE DEF job
  <2> QED  BY <1>4, <2>1, <2>2
<1>6. CASE lose_claim(r)
  <2> DEFINE job == [rjob[r] EXCEPT !.state = "queued", !.hand = 0]
  <2>1. job \in ReappearanceJob /\ job.state = "queued" /\ job.cursor = rjob[r].cursor /\ job.hand = 0
    BY <1>2, JobEdits
  <2>2. Step(r, job)
    BY <1>6 DEF lose_claim
  <2> HIDE DEF job
  <2> QED  BY <1>4, <2>1, <2>2
<1>7. CASE complete(r)
  <2> DEFINE job == [rjob[r] EXCEPT !.state = "completed"]
  <2>1. job \in ReappearanceJob /\ job.cursor = rjob[r].cursor /\ job.hand = rjob[r].hand
    BY <1>2, JobEdits
  <2>2. Step(r, job)
    BY <1>7 DEF complete
  <2> HIDE DEF job
  <2> QED  BY <1>4, <1>7, <2>1, <2>2
<1> QED  BY <1>5, <1>6, <1>7

(* The cursor passes a number that was answered or conflicts: no contradicted *)
(* warning has it.                                                            *)
LEMMA CheckpointKeepsPresence ==
    ASSUME PresenceInv, UNCHANGED sr, NEW r \in Runs, checkpoint(r)
    PROVE  PresenceInv'
<1>1. /\ rjob[r] # None /\ UNCHANGED <<population, accepted, absence, presence, answered>>
  BY DEF checkpoint, Working
<1>2. PICK i \in _page(r) :
          /\ i = Min(_page(r))
          /\ rjob[r].hand = i \/ population[r].rows[Sorted[i]] = "conflict"
          /\ Step(r, [rjob[r] EXCEPT !.cursor = i, !.hand = 0])
  BY DEF checkpoint
<1>3. /\ rjob[r] \in ReappearanceJob /\ i \in Nat /\ i \in DOMAIN Sorted /\ 1 <= i
      /\ \A j \in _page(r) : i <= j /\ j \in Nat
  BY <1>1, <1>2, PageFacts, SortedFacts
<1> DEFINE job == [rjob[r] EXCEPT !.cursor = i, !.hand = 0]
<1>4. job \in ReappearanceJob /\ job.state = rjob[r].state /\ job.cursor = i /\ job.hand = 0
  <2>1. rjob[r] \in ReappearanceJob /\ i \in Nat
    BY <1>3
  <2> QED  BY <2>1 DEF ReappearanceJob
<1>5. Step(r, job)
  BY <1>2
<1> HIDE DEF job
<1>6. ASSUME NEW s \in SRs, Contradicts(r, s)
      PROVE  /\ <<r, sr[s].no>> \notin answered' /\ job.state # "completed"
             /\ \A j \in DOMAIN Sorted : Sorted[j] = sr[s].no => job.cursor < j
  <2>1. Ahead(r, s)
    BY <1>6 DEF PresenceInv, StillAhead
  <2>2. PICK j \in _page(r) : Sorted[j] = sr[s].no
    BY <1>1, <1>6, PageFacts
  <2>3. j # i
    <3>1. CASE rjob[r].hand = i
      BY <1>1, <1>3, <2>1, <2>2, <3>1 DEF PresenceInv, HandAnswered, Ahead
    <3>2. CASE population[r].rows[Sorted[i]] = "conflict"
      BY <1>6, <2>2, <3>2 DEF Contradicts
    <3> QED  BY <1>2, <3>1, <3>2
  <2>4. i < j
    BY <1>3, <2>3
  <2>5. \A x \in DOMAIN Sorted : Sorted[x] = sr[s].no => x = j
    BY <1>1, <2>2, PageFacts, PresenceAssumption DEF IsInjective
  <2> QED  BY <1>1, <1>4, <2>1, <2>4, <2>5 DEF Ahead
<1>7. /\ \A s \in SRs, q \in Runs : Contradicts(q, s)' <=> Contradicts(q, s)
      /\ answered \subseteq Runs \X Official /\ presence \in [SRs -> Seq(PresenceEvent)]
  BY <1>1 DEF PresenceInv, PresenceType, Contradicts, WarningActive, _ordinary, Published
<1>8. \A s \in SRs : presence'[s] # <<>> =>
               Exists(s) /\ sr[s].no \in Official /\ Last(presence'[s]).run \in Published
  BY <1>1 DEF PresenceInv, RunsKnown
<1> QED  BY <1>1, <1>4, <1>5, <1>6, <1>7, <1>8, WorkerKeepsPresence

(* The command of a number: the warnings of it that the run contradicts are gone *)
(* when its receipt is there, or the job has failed.                             *)
LEMMA RepresentativeKeepsPresence ==
    ASSUME PresenceInv, UNCHANGED sr, NEW r \in Runs, _execute_representative(r)
    PROVE  PresenceInv'
<1> DEFINE i == Min(_page(r))
           n == Sorted[i]
<1>1. /\ rjob[r] # None /\ rjob[r].state = "running" /\ _page(r) # {} /\ UNCHANGED <<population, accepted, absence>>
      /\ population[r].rows[n] = "exact"
  BY DEF _execute_representative, Working
<1>2. rjob[r] \in ReappearanceJob /\ i \in Nat /\ i \in DOMAIN Sorted /\ n \in Official
  BY <1>1, PageFacts, SortedFacts
<1>3. r \in Published
  BY <1>1 DEF PresenceInv, RunsKnown, Published
<1> DEFINE held == [rjob[r] EXCEPT !.hand = i]
           failed == [rjob[r] EXCEPT !.state = "failed"]
<1>4. /\ \/ /\ <<r, n>> \in answered \/ Warned(n) = {}
            /\ Step(r, held) /\ answered' = answered \cup {<<r, n>>} /\ UNCHANGED presence
         \/ \E s \in Warned(n) : /\ append_event(s, "reappearance_confirmed", r)
                                 /\ Step(r, held) /\ answered' = answered \cup {<<r, n>>}
         \/ Step(r, failed) /\ UNCHANGED <<presence, answered>>
  BY DEF _execute_representative
<1>5. held \in ReappearanceJob /\ held.state = "running" /\ held.cursor = rjob[r].cursor /\ held.hand = i
  BY <1>1, <1>2 DEF ReappearanceJob
<1>6. /\ failed \in ReappearanceJob /\ failed.state = "failed" /\ failed.cursor = rjob[r].cursor
      /\ failed.hand = rjob[r].hand
  BY <1>1, <1>2 DEF ReappearanceJob
<1> HIDE DEF i, held, failed
<1>7. /\ answered \subseteq Runs \X Official /\ presence \in [SRs -> Seq(PresenceEvent)]
      /\ \A s \in SRs : presence[s] # <<>> =>
               Exists(s) /\ sr[s].no \in Official /\ Last(presence[s]).run \in Published
  BY DEF PresenceInv, PresenceType, RunsKnown
<1>8. presence' = presence => \A s \in SRs, q \in Runs : Contradicts(q, s)' <=> Contradicts(q, s)
  BY <1>1 DEF Contradicts, WarningActive, _ordinary, Published
<1>9. CASE Step(r, failed) /\ UNCHANGED <<presence, answered>>
  <2>1. ASSUME NEW s \in SRs, Contradicts(r, s)
        PROVE  /\ <<r, sr[s].no>> \notin answered' /\ failed.state # "completed"
               /\ \A j \in DOMAIN Sorted : Sorted[j] = sr[s].no => failed.cursor < j
    BY <1>6, <1>9, <2>1 DEF PresenceInv, StillAhead, Ahead
  <2>2. failed.hand # 0 => failed.hand \in DOMAIN Sorted /\ <<r, Sorted[failed.hand]>> \in answered'
    BY <1>1, <1>6, <1>9 DEF PresenceInv, HandAnswered
  <2> QED  BY <1>1, <1>6, <1>7, <1>8, <1>9, <2>1, <2>2, WorkerKeepsPresence
(* The receipt is written. *)
<1>10. ASSUME Step(r, held), answered' = answered \cup {<<r, n>>},
              presence' \in [SRs -> Seq(PresenceEvent)],
              \A s \in SRs : presence'[s] # <<>> =>
                  Exists(s) /\ sr[s].no \in Official /\ Last(presence'[s]).run \in Published,
              \A s \in SRs, q \in Runs : Contradicts(q, s)' => Contradicts(q, s),
              \A s \in SRs : Contradicts(r, s)' => sr[s].no # n
       PROVE  PresenceInv'
  <2>1. <<r, n>> \in Runs \X Official /\ <<r, n>> \in answered'
    BY <1>2, <1>10
  <2>2. answered \subseteq answered' /\ answered' \subseteq Runs \X Official
    BY <1>7, <1>10, <2>1
  <2>3. \A q, m : <<q, m>> \in answered' => <<q, m>> \in answered \/ (q = r /\ m = n)
    BY <1>10
  <2>4. ASSUME NEW s \in SRs, Contradicts(r, s)'
        PROVE  /\ <<r, sr[s].no>> \notin answered' /\ held.state # "completed"
               /\ \A j \in DOMAIN Sorted : Sorted[j] = sr[s].no => held.cursor < j
    <3>1. Ahead(r, s) /\ sr[s].no # n
      BY <1>10, <2>4 DEF PresenceInv, StillAhead
    <3> QED  BY <1>5, <2>3, <3>1 DEF Ahead
  <2>5. held.hand # 0 => held.hand \in DOMAIN Sorted /\ <<r, Sorted[held.hand]>> \in answered'
    BY <1>2, <1>5, <2>1
  <2> QED  BY <1>1, <1>5, <1>10, <2>2, <2>3, <2>4, <2>5, WorkerKeepsPresence
<1>11. CASE /\ <<r, n>> \in answered \/ Warned(n) = {}
            /\ Step(r, held) /\ answered' = answered \cup {<<r, n>>} /\ UNCHANGED presence
  <2>1. ASSUME NEW s \in SRs, Contradicts(r, s)' PROVE sr[s].no # n
    <3>1. Contradicts(r, s)
      BY <1>8, <1>11, <2>1
    <3>2. <<r, sr[s].no>> \notin answered
      BY <3>1 DEF PresenceInv, StillAhead, Ahead
    <3>3. Exists(s) /\ WarningActive(s)
      BY <1>7, <3>1 DEF Contradicts, WarningActive
    <3>4. sr[s].no = n => s \in Warned(n)
      BY <3>3 DEF Warned, get_by_official
    <3> QED  BY <1>11, <3>2, <3>4
  <2> QED  BY <1>7, <1>8, <1>10, <1>11, <2>1
<1>12. ASSUME NEW s \in Warned(n), append_event(s, "reappearance_confirmed", r),
              Step(r, held), answered' = answered \cup {<<r, n>>}
       PROVE  PresenceInv'
  <2> DEFINE e == [kind |-> "reappearance_confirmed", run |-> r]
  <2>1. s \in SRs /\ Exists(s) /\ sr[s].no = n
    BY DEF Warned, get_by_official
  <2>2. e \in PresenceEvent
    BY DEF PresenceEvent
  <2>3. /\ presence' \in [SRs -> Seq(PresenceEvent)]
        /\ presence'[s] = Append(presence[s], e) /\ \A t \in SRs : t # s => presence'[t] = presence[t]
    BY <1>7, <1>12, <2>1, <2>2 DEF append_event
  <2>4. Last(presence'[s]) = e /\ e.kind = "reappearance_confirmed" /\ e.run = r
    BY <1>7, <2>1, <2>3 DEF Last
  <2>5. ~WarningActive(s)'
    BY <2>4 DEF WarningActive
  <2>6. ASSUME NEW t \in SRs, NEW q \in Runs, Contradicts(q, t)'
        PROVE  t # s /\ Contradicts(q, t)
    <3>1. t # s
      BY <2>5, <2>6 DEF Contradicts
    <3>2. presence'[t] = presence[t]
      BY <2>3, <3>1
    <3> QED  BY <1>1, <2>6, <3>1, <3>2 DEF Contradicts, WarningActive, _ordinary, Published
  <2>7. ASSUME NEW t \in SRs, Contradicts(r, t)' PROVE sr[t].no # n
    <3>1. t # s /\ Exists(t)
      BY <1>7, <2>6, <2>7 DEF Contradicts, WarningActive
    <3> QED  BY <1>2, <2>1, <3>1, RequestAssumption DEF PresenceInv, NumbersUnique
  <2>8. ASSUME NEW t \in SRs, presence'[t] # <<>>
        PROVE  Exists(t) /\ sr[t].no \in Official /\ Last(presence'[t]).run \in Published
    <3>1. CASE t = s
      BY <1>2, <1>3, <2>1, <2>4, <3>1
    <3>2. CASE t # s
      BY <1>7, <2>3, <2>8, <3>2
    <3> QED  BY <3>1, <3>2
  <2> QED  BY <1>10, <1>12, <2>3, <2>6, <2>7, <2>8
<1> QED  BY <1>4, <1>9, <1>11, <1>12

-----------------------------------------------------------------------------
(* Exports. *)

LEMMA ProposalsType ==
    ASSUME SrType, PresenceInv, NEW rows, NEW class
    PROVE  /\ build_disappearance_proposals(rows, class) \in [Official -> Disappearance \cup {None}]
           /\ \A n \in Official : LET p == build_disappearance_proposals(rows, class)[n]
                                  IN  p # None => Exists(p.sr)
<1> DEFINE prior == _resolve_prior_population_run
           gone == IF prior = None \/ class = "older" THEN {} ELSE {n \in Observed(prior) : rows[n] = "none"}
           s(n) == CHOOSE x \in get_by_official(n) : TRUE
           due(n) == n \in gone /\ \E x \in get_by_official(n) : ~WarningActive(x)
           p(n) == [state |-> "pending", sr |-> s(n), token |-> base_token(s(n)), prior |-> prior]
<1>1. build_disappearance_proposals(rows, class) = [n \in Official |-> IF due(n) THEN p(n) ELSE None]
  BY DEF build_disappearance_proposals
<1>2. ASSUME NEW n \in Official, due(n)
      PROVE  p(n) \in Disappearance /\ Exists(p(n).sr)
  <2>1. s(n) \in get_by_official(n)
    BY <1>2
  <2>2. s(n) \in SRs /\ Exists(s(n))
    BY <2>1 DEF get_by_official
  <2>3. prior \in Runs
    <3>1. prior # None
      BY <1>2
    <3> QED  BY <3>1 DEF _resolve_prior_population_run, PresenceInv, PresenceType, Checkpoint
  <2> HIDE DEF s, prior
  <2>4. base_token(s(n)) \in Token
    <3>1. sr[s(n)] \in Request
      BY <2>2, ExistingRow
    <3>2. sr[s(n)].no \in Official \cup {None} /\ sr[s(n)].rev \in Nat
      BY <3>1 DEF Request
    <3>3. Len(presence[s(n)]) \in Nat
      BY <2>2 DEF PresenceInv, PresenceType
    <3> QED  BY <3>2, <3>3 DEF base_token, Token
  <2>5. p(n) \in Disappearance /\ p(n).sr = s(n)
    BY <2>2, <2>3, <2>4 DEF Disappearance
  <2> QED  BY <2>2, <2>5
<1> HIDE DEF p, due
<1> QED  BY <1>1, <1>2

LEMMA PublishKeepsPresence ==
    ASSUME SrType, PresenceInv, UNCHANGED sr, NEW r \in Runs, NEW age \in Ages, NEW rows \in Exports,
           publish(r, age, rows)
    PROVE  PresenceInv'
<1> DEFINE class == Class(age)
           row == [age |-> age, class |-> class, final |-> FALSE, rows |-> rows]
           proposed == build_disappearance_proposals(rows, class)
<1>1. /\ population[r] = None /\ population' = [population EXCEPT ![r] = row]
      /\ absence' = [absence EXCEPT ![r] = proposed]
      /\ rjob' = IF class = "new" THEN [rjob EXCEPT ![r] = Queued] ELSE rjob
      /\ UNCHANGED <<accepted, presence, answered>>
  BY DEF publish
<1>2. class \in {"new", "conflict", "older"}
  BY DEF Class
<1>3. row \in Population /\ row.class = class
  <2>1. age \in Nat /\ rows \in [Official -> Observation]
    BY PresenceAssumption
  <2> HIDE DEF class
  <2> QED  BY <1>2, <2>1 DEF Population
<1>4. /\ proposed \in [Official -> Disappearance \cup {None}]
      /\ \A n \in Official : proposed[n] # None => Exists(proposed[n].sr)
  BY ProposalsType
<1>5. Queued \in ReappearanceJob /\ Queued.cursor = 0 /\ Queued.hand = 0 /\ Queued.state = "queued"
  BY DEF Queued, ReappearanceJob
<1> HIDE DEF row, proposed, class
<1>6. /\ population'[r] = row /\ row # None /\ \A q \in Runs : q # r => population'[q] = population[q]
      /\ absence'[r] = proposed /\ \A q \in Runs : q # r => absence'[q] = absence[q]
      /\ rjob'[r] = IF class = "new" THEN Queued ELSE rjob[r]
      /\ \A q \in Runs : q # r => rjob'[q] = rjob[q]
  BY <1>1, <1>3, PresenceAssumption DEF PresenceInv, PresenceType
<1>7. PresenceType'
  BY <1>1, <1>3, <1>4, <1>5 DEF PresenceInv, PresenceType
<1>8. NumbersUnique' /\ \A s : Exists(s)' <=> Exists(s)
  BY DEF PresenceInv, NumbersUnique, Exists
<1>9. RunsKnown'
  <2>1. ASSUME NEW q \in Runs, population'[q] = None
        PROVE  rjob'[q] = None /\ \A n \in Official : <<q, n>> \notin answered' /\ absence'[q][n] = None
    BY <1>1, <1>6, <2>1 DEF PresenceInv, RunsKnown
  <2>2. ASSUME NEW q \in Runs, NEW n \in Official, absence'[q][n] # None PROVE Exists(absence'[q][n].sr)
    BY <1>4, <1>6, <2>2 DEF PresenceInv, RunsKnown
  <2>3. ASSUME NEW q \in _ordinary' PROVE rjob'[q] # None
    <3>1. CASE q = r
      BY <1>3, <1>5, <1>6, <3>1, PresenceAssumption DEF _ordinary
    <3>2. CASE q # r
      BY <1>6, <3>2 DEF PresenceInv, RunsKnown, _ordinary, Published
    <3> QED  BY <3>1, <3>2
  <2>4. ASSUME NEW s \in SRs, presence[s] # <<>>
        PROVE  Exists(s) /\ sr[s].no \in Official /\ Last(presence[s]).run \in Published'
    BY <1>6, <2>4 DEF PresenceInv, RunsKnown, Published
  <2> QED  BY <1>1, <1>8, <2>1, <2>2, <2>3, <2>4 DEF RunsKnown, Exists
<1>10. HandAnswered'
  <2>1. rjob[r] = None
    BY <1>1 DEF PresenceInv, RunsKnown
  <2> QED  BY <1>1, <1>5, <1>6, <2>1 DEF PresenceInv, HandAnswered
<1>11. ASSUME NEW s \in SRs, NEW q \in Runs, Contradicts(q, s)' PROVE Ahead(q, s)'
  <2>1. /\ presence[s] # <<>> /\ WarningActive(s) /\ sr[s].no \in Official
        /\ Last(presence[s]).run \in Published /\ Last(presence[s]).run \in Runs
    BY <1>1, <1>11 DEF Contradicts, WarningActive, PresenceInv, RunsKnown, Published
  <2>2. population'[Last(presence[s]).run] = population[Last(presence[s]).run]
    BY <1>1, <1>6, <2>1 DEF Published
  <2>3. CASE q = r
    <3>1. class = "new"
      BY <1>3, <1>6, <1>11, <2>3 DEF Contradicts, _ordinary
    <3>2. <<r, sr[s].no>> \notin answered
      BY <1>1, <2>1 DEF PresenceInv, RunsKnown
    <3>3. \A i \in DOMAIN Sorted : 0 < i
      BY SortedFacts
    <3> QED  BY <1>1, <1>5, <1>6, <2>3, <3>1, <3>2, <3>3 DEF Ahead
  <2>4. CASE q # r
    <3>1. Contradicts(q, s)
      BY <1>1, <1>6, <1>11, <2>1, <2>2, <2>4 DEF Contradicts, _ordinary, Published
    <3> QED  BY <1>1, <1>6, <2>4, <3>1 DEF PresenceInv, StillAhead, Ahead
  <2> QED  BY <2>3, <2>4
<1> QED  BY <1>7, <1>8, <1>9, <1>10, <1>11 DEF PresenceInv, StillAhead

(* The checkpoint moves; the job of an ordinary run is left alone. *)
LEMMA CheckpointMoves ==
    ASSUME PresenceInv, UNCHANGED sr,
           (\E r \in Runs : finalize_run(r)) \/ (\E age \in Ages : record_newer_identical(age))
    PROVE  PresenceInv'
<1>1. CASE \E age \in Ages : record_newer_identical(age)
  <2>1. PICK age \in Ages : record_newer_identical(age)
    BY <1>1
  <2>2. UNCHANGED <<population, absence, presence, rjob, answered>>
    BY <2>1 DEF record_newer_identical
  <2>3. accepted' \in Checkpoint \cup {None}
    <3>1. accepted \in Checkpoint /\ age \in Nat
      BY <2>1, PresenceAssumption DEF record_newer_identical, PresenceInv, PresenceType
    <3> QED  BY <2>1, <3>1 DEF record_newer_identical, Checkpoint
  <2>4. PresenceType' /\ NumbersUnique' /\ HandAnswered'
    BY <2>2, <2>3 DEF PresenceInv, PresenceType, NumbersUnique, HandAnswered, Exists
  <2>5. RunsKnown'
    BY <2>2 DEF PresenceInv, RunsKnown, Exists, _ordinary, Published
  <2>6. StillAhead'
    BY <2>2 DEF PresenceInv, StillAhead, Contradicts, Ahead, WarningActive, _ordinary, Published
  <2> QED  BY <2>4, <2>5, <2>6 DEF PresenceInv
<1>2. ASSUME NEW r \in Runs, finalize_run(r) PROVE PresenceInv'
  <2> DEFINE row == [population[r] EXCEPT !.final = TRUE]
  <2>1. /\ population[r] # None /\ population' = [population EXCEPT ![r] = row]
        /\ accepted' \in {accepted, [run |-> r, age |-> population[r].age]}
        /\ rjob' = rjob \/ (population[r].class # "new" /\ rjob' = [rjob EXCEPT ![r] = Queued])
        /\ UNCHANGED <<absence, presence, answered>>
    BY <1>2 DEF finalize_run, Published
  <2>2. population[r] \in Population /\ population[r].age \in Nat
    BY <2>1 DEF PresenceInv, PresenceType, Population
  <2>3. /\ row \in Population /\ row.age = population[r].age /\ row.class = population[r].class
        /\ row.rows = population[r].rows
    BY <2>2 DEF Population
  <2>4. Queued \in ReappearanceJob /\ Queued.hand = 0
    BY DEF Queued, ReappearanceJob
  <2> HIDE DEF row
  <2>5. accepted' \in Checkpoint \cup {None}
    <3>1. [run |-> r, age |-> population[r].age] \in Checkpoint
      BY <2>2 DEF Checkpoint
    <3> QED  BY <2>1, <3>1 DEF PresenceInv, PresenceType
  <2>6. /\ row # None /\ \A q \in Runs : population'[q] = IF q = r THEN row ELSE population[q]
        /\ \A q \in Runs : q # r => rjob'[q] = rjob[q]
        /\ r \in _ordinary => rjob' = rjob
    BY <2>1, <2>3, PresenceAssumption DEF PresenceInv, PresenceType, _ordinary
  <2>7. PresenceType'
    BY <2>1, <2>3, <2>4, <2>5 DEF PresenceInv, PresenceType
  <2>8. NumbersUnique' /\ \A s : Exists(s)' <=> Exists(s)
    BY DEF PresenceInv, NumbersUnique, Exists
  <2>9. /\ Published' = Published /\ _ordinary' = _ordinary
        /\ \A q \in Runs : population[q] # None =>
              population'[q].age = population[q].age /\ population'[q].rows = population[q].rows
    BY <2>1, <2>3, <2>6 DEF Published, _ordinary
  <2>10. \A q \in _ordinary : rjob'[q] = rjob[q] /\ q \in Runs
    BY <2>6 DEF _ordinary, Published
  <2>11. RunsKnown'
    <3>1. ASSUME NEW q \in Runs, population'[q] = None
          PROVE  rjob'[q] = None /\ \A n \in Official : <<q, n>> \notin answered' /\ absence'[q][n] = None
      BY <2>1, <2>6, <3>1 DEF PresenceInv, RunsKnown
    <3>2. \A q \in Runs, n \in Official : absence[q][n] # None => Exists(absence[q][n].sr)
      BY DEF PresenceInv, RunsKnown
    <3> QED  BY <2>1, <2>8, <2>9, <2>10, <3>1, <3>2 DEF PresenceInv, RunsKnown, Exists
  <2>12. HandAnswered'
    <3>1. ASSUME NEW q \in Runs, rjob'[q] # None, rjob'[q].hand # 0
          PROVE  rjob'[q] = rjob[q]
      BY <2>1, <2>4, <2>6, <3>1 DEF PresenceInv, PresenceType
    <3> QED  BY <2>1, <3>1 DEF PresenceInv, HandAnswered
  <2>13. ASSUME NEW s \in SRs, NEW q \in Runs, Contradicts(q, s)' PROVE Ahead(q, s)'
    <3>1. /\ presence[s] # <<>> /\ WarningActive(s) /\ q \in _ordinary
          /\ Last(presence[s]).run \in Published /\ Last(presence[s]).run \in Runs
      BY <2>1, <2>9, <2>13 DEF Contradicts, WarningActive, PresenceInv, RunsKnown, Published
    <3>2. Contradicts(q, s)
      BY <2>1, <2>9, <2>13, <3>1 DEF Contradicts, _ordinary, Published
    <3> QED  BY <2>1, <2>10, <3>1, <3>2 DEF PresenceInv, StillAhead, Ahead
  <2> QED  BY <2>7, <2>8, <2>11, <2>12, <2>13 DEF PresenceInv, StillAhead
<1> QED  BY <1>1, <1>2

-----------------------------------------------------------------------------
(* Reviews. *)

LEMMA DecisionTypes ==
    ASSUME PresenceInv, NEW r \in Runs, NEW n \in Undecided(r), NEW state \in {"accepted", "rejected"},
           absence' = [absence EXCEPT ![r][n].state = state]
    PROVE  /\ absence' \in [Runs -> [Official -> Disappearance \cup {None}]]
           /\ \A q \in Runs, m \in Official :
                 /\ absence'[q][m] = None <=> absence[q][m] = None
                 /\ absence[q][m] # None => absence'[q][m].sr = absence[q][m].sr
<1> DEFINE row == [absence[r][n] EXCEPT !.state = state]
<1>1. n \in Official /\ absence[r][n] # None
  BY DEF Undecided
<1>2. absence[r][n] \in Disappearance
  BY <1>1, ProposedRequest DEF PresenceInv
<1>3. row \in Disappearance /\ row.sr = absence[r][n].sr
  BY <1>2 DEF Disappearance
<1>4. row # None
  BY <1>3, PresenceAssumption
<1>5. absence' = [absence EXCEPT ![r] = [absence[r] EXCEPT ![n] = row]]
  OBVIOUS
<1> HIDE DEF row
<1>6. absence \in [Runs -> [Official -> Disappearance \cup {None}]]
  BY DEF PresenceInv, PresenceType
<1> QED  BY <1>1, <1>3, <1>4, <1>5, <1>6

LEMMA ReviewKeepsPresence ==
    ASSUME PresenceInv, UNCHANGED <<sr, population, accepted, rjob, answered>>,
           NEW r \in Runs, NEW n \in Undecided(r), NEW state \in {"accepted", "rejected"},
           absence' = [absence EXCEPT ![r][n].state = state],
           presence' \in [SRs -> Seq(PresenceEvent)],
           \A s \in SRs : presence'[s] # <<>> =>
               Exists(s) /\ sr[s].no \in Official /\ Last(presence'[s]).run \in Published,
           \A s \in SRs, q \in Runs : Contradicts(q, s)' => Contradicts(q, s)
    PROVE  PresenceInv'
<1>1. /\ absence' \in [Runs -> [Official -> Disappearance \cup {None}]]
      /\ \A q \in Runs, m \in Official :
            /\ absence'[q][m] = None <=> absence[q][m] = None
            /\ absence[q][m] # None => absence'[q][m].sr = absence[q][m].sr
  BY DecisionTypes
<1>2. PresenceType'
  BY <1>1 DEF PresenceInv, PresenceType
<1>3. NumbersUnique' /\ HandAnswered'
  BY DEF PresenceInv, NumbersUnique, HandAnswered, Exists
<1>4. Published' = Published /\ _ordinary' = _ordinary /\ \A s : Exists(s)' <=> Exists(s)
  BY DEF Published, _ordinary, Exists
<1>5. RunsKnown'
  <2>1. ASSUME NEW q \in Runs, NEW m \in Official, absence'[q][m] # None
        PROVE  Exists(absence'[q][m].sr)
    BY <1>1, <2>1 DEF PresenceInv, RunsKnown
  <2>2. ASSUME NEW q \in Runs, population[q] = None
        PROVE  rjob[q] = None /\ \A m \in Official : <<q, m>> \notin answered /\ absence'[q][m] = None
    BY <1>1, <2>2 DEF PresenceInv, RunsKnown
  <2>3. \A q \in _ordinary : rjob[q] # None
    BY DEF PresenceInv, RunsKnown
  <2> QED  BY <1>4, <2>1, <2>2, <2>3 DEF RunsKnown, Exists
<1>6. StillAhead'
  BY DEF PresenceInv, StillAhead, Ahead
<1> QED  BY <1>2, <1>3, <1>5, <1>6 DEF PresenceInv

(* A rejection leaves the warnings alone. *)
LEMMA RejectKeepsPresence ==
    ASSUME PresenceInv, UNCHANGED sr, NEW r \in Runs, NEW n \in Official, reject_disappearance(r, n)
    PROVE  PresenceInv'
<1>1. /\ n \in Undecided(r) /\ absence' = [absence EXCEPT ![r][n].state = "rejected"]
      /\ UNCHANGED <<population, accepted, presence, rjob, answered>>
  BY DEF reject_disappearance
<1>2. \A s \in SRs, q \in Runs : Contradicts(q, s)' => Contradicts(q, s)
  BY <1>1 DEF Contradicts, WarningActive, _ordinary, Published
<1>3. presence' \in [SRs -> Seq(PresenceEvent)]
  BY <1>1 DEF PresenceInv, PresenceType
<1>4. \A s \in SRs : presence'[s] # <<>> =>
          Exists(s) /\ sr[s].no \in Official /\ Last(presence'[s]).run \in Published
  BY <1>1 DEF PresenceInv, RunsKnown
<1> QED  BY <1>1, <1>2, <1>3, <1>4, ReviewKeepsPresence

(* An acceptance is refused when a newer ordinary export has the number. *)
LEMMA ApplyKeepsPresence ==
    ASSUME PresenceInv, UNCHANGED sr, NEW r \in Runs, NEW n \in Official, apply_disappearance(r, n)
    PROVE  PresenceInv'
<1> DEFINE s == absence[r][n].sr
           event == [kind |-> "disappearance_reviewed", run |-> r]
<1>1. /\ n \in Undecided(r) /\ absence' = [absence EXCEPT ![r][n].state = "accepted"]
      /\ presence' = [presence EXCEPT ![s] = Append(@, event)]
      /\ sr[s].no = n /\ ~_later_authoritative_presence_exists(r, absence[r][n].prior, n)
      /\ UNCHANGED <<population, accepted, rjob, answered>>
  BY DEF apply_disappearance, append_event, validate_disappearance_acceptance
<1>2. s \in SRs /\ Exists(s) /\ r \in Published
  BY <1>1, ProposedRequest DEF Undecided, PresenceInv
<1>3. event \in PresenceEvent /\ event.run = r /\ event.kind = "disappearance_reviewed"
  BY DEF PresenceEvent
<1> HIDE DEF s, event
<1>4. presence \in [SRs -> Seq(PresenceEvent)]
  BY DEF PresenceInv, PresenceType
<1>5. /\ presence' \in [SRs -> Seq(PresenceEvent)]
      /\ \A t \in SRs : t # s => presence'[t] = presence[t]
      /\ presence'[s] # <<>> /\ Last(presence'[s]) = event
  <2>1. presence[s] \in Seq(PresenceEvent) /\ presence'[s] = Append(presence[s], event)
    BY <1>1, <1>2, <1>4
  <2>2. Append(presence[s], event) \in Seq(PresenceEvent) /\ Append(presence[s], event) # <<>>
    <3> DEFINE old == presence[s]
    <3>1. old \in Seq(PresenceEvent) /\ event \in PresenceEvent
      BY <1>3, <2>1
    <3> HIDE DEF old
    <3>2. Append(old, event) \in Seq(PresenceEvent)
      BY <3>1
    <3>3. Len(Append(old, event)) = Len(old) + 1 /\ Len(old) \in Nat /\ Len(<<>>) = 0
      BY <3>1
    <3>4. Append(old, event) # <<>>
      BY <3>3
    <3> QED  BY <3>2, <3>4 DEF old
  <2>3. Last(Append(presence[s], event)) = event
    BY <1>3, <2>1 DEF Last
  <2> QED  BY <1>1, <1>2, <1>4, <2>1, <2>2, <2>3
<1>6. \A t \in SRs : presence'[t] # <<>> =>
          Exists(t) /\ sr[t].no \in Official /\ Last(presence'[t]).run \in Published
  BY <1>1, <1>2, <1>3, <1>5 DEF PresenceInv, RunsKnown
<1>7. ASSUME NEW t \in SRs, NEW q \in Runs, Contradicts(q, t)' PROVE Contradicts(q, t)
  <2>1. CASE t = s
    <3>1. q \in _ordinary /\ population[q].age > population[r].age /\ population[q].rows[n] = "exact"
      BY <1>1, <1>3, <1>5, <1>7, <2>1 DEF Contradicts, _ordinary, Published
    <3>2. n \in Observed(q)
      BY <3>1 DEF Observed
    <3> QED  BY <1>1, <3>1, <3>2 DEF _later_authoritative_presence_exists
  <2>2. CASE t # s
    BY <1>1, <1>5, <1>7, <2>2 DEF Contradicts, WarningActive, _ordinary, Published
  <2> QED  BY <2>1, <2>2
<1> QED  BY <1>1, <1>5, <1>6, <1>7, ReviewKeepsPresence

-----------------------------------------------------------------------------
(* Every step. *)
LEMMA PresenceNextHolds ==
    ASSUME CoreInv, PresenceInv, [Next]_vars
    PROVE  PresenceInv'
<1>0. SrType /\ RfcInv
  BY DEF CoreInv
<1>1. CASE UNCHANGED vars
  <2>1. RequestsMove /\ UNCHANGED presenceVars
    BY <1>1 DEF vars, slaVars, ticketVars, srVars, RequestsMove
  <2> QED  BY <1>0, <2>1, OthersKeepPresence
<1>2. CASE Next /\ UNCHANGED presenceVars
  <2>1. RequestsMove
    BY <1>0, <1>2, StepMoves
  <2> QED  BY <1>0, <1>2, <2>1, OthersKeepPresence
<1>3. CASE PresenceNext /\ UNCHANGED sr
  <2>1. ASSUME NEW r \in Runs, NEW age \in Ages, NEW rows \in Exports, publish(r, age, rows)
        PROVE  PresenceInv'
    BY <1>0, <1>3, <2>1, PublishKeepsPresence
  <2>2. ASSUME NEW r \in Runs, NEW n \in Official, apply_disappearance(r, n) PROVE PresenceInv'
    BY <1>3, <2>2, ApplyKeepsPresence
  <2>3. ASSUME NEW r \in Runs, NEW n \in Official, reject_disappearance(r, n) PROVE PresenceInv'
    BY <1>3, <2>3, RejectKeepsPresence
  <2>4. ASSUME NEW r \in Runs, claim(r) \/ lose_claim(r) \/ complete(r) PROVE PresenceInv'
    BY <1>3, <2>4, WorkerStateKeepsPresence
  <2>5. ASSUME NEW r \in Runs, _execute_representative(r) PROVE PresenceInv'
    BY <1>3, <2>5, RepresentativeKeepsPresence
  <2>6. ASSUME NEW r \in Runs, checkpoint(r) PROVE PresenceInv'
    BY <1>3, <2>6, CheckpointKeepsPresence
  <2>7. ASSUME (\E r \in Runs : finalize_run(r)) \/ (\E age \in Ages : record_newer_identical(age))
        PROVE  PresenceInv'
    BY <1>3, <2>7, CheckpointMoves
  <2> QED  BY <1>3, <2>1, <2>2, <2>3, <2>4, <2>5, <2>6, <2>7 DEF PresenceNext
<1> QED  BY <1>1, <1>2, <1>3 DEF Next, slaVars, ticketVars, srVars

(* No warning is left standing by an export that should have cleared it:      *)
(* however the review of an old absence (validate_disappearance_acceptance)  *)
(* and the reappearance worker of a newer export interleave, and however     *)
(* often that worker loses its claim, its job is not completed while a       *)
(* request it has seen again is warned.                                      *)
THEOREM WarningsAreCurrent == Spec => []WarningIsCurrent
<1>1. CoreInv /\ PresenceInv /\ [Next]_vars => PresenceInv'
  BY PresenceNextHolds
<1> QED  BY <1>1, PresenceInitHolds, PresenceImplies, CoreHolds, PTL DEF Spec
==================================================================================
