--------------------------- MODULE SlaClassification ---------------------------
(***************************************************************************)
(* Product lines, contracts and the classification of service requests       *)
(* under a contract's product line (CPL), from which their SLA follows: the  *)
(* catalogue and its lifecycle, policies, mappings from account codes,       *)
(* classification by hand, by a mapping or in a batch, and its clearance     *)
(* when the customer of the service request changes.                         *)
(*                                                                         *)
(* A batch is one command of many: each of its items is a command of its own *)
(* whose identity is derived from the batch's, and the summary is committed  *)
(* last.  Attempts at a batch may die between two items, be repeated and     *)
(* overlap.                                                                 *)
(***************************************************************************)
EXTENDS Rfcs

CONSTANTS Contracts, Lines, Cpls, Mappings,
          Attempts,      \* attempts at the batch
          BatchRequests  \* the service requests of the batch, in order

VARIABLES line,      \* product_lines: lifecycle
          contract,  \* contracts: customer, lifecycle, revision
          cpl,       \* contract_product_lines: contract, line, lifecycle, revision, has a policy
          mapping,   \* sla_classification_mappings
          cls,       \* sr_classification_current: CPL and revision
          batch,     \* the reviewed preview of a batch, one item for each request
          attempt,   \* attempts: next item, what was applied, what had been applied at the start
          receipts,  \* command receipts of the items: outcome by derived command id
          events,    \* sr_classification_events written by the batch for a request
          summary    \* the committed result of the batch

catalogVars == <<line, contract, cpl, mapping>>
batchVars == <<batch, attempt, receipts, events, summary>>
slaVars == <<ticketVars, catalogVars, cls, batchVars>>

(* Rows. *)
Lifecycle == {"active", "archived"}
Contract == [customer : Customers, state : Lifecycle, rev : Nat]
Cpl == [contract : Contracts, line : Lines, state : Lifecycle, rev : Nat, policy : BOOLEAN]
Mapping == [customer : Customers, code : Codes, cpl : Cpls, active : BOOLEAN]
Classification == [cpl : Cpls, rev : Nat]
Attempt == [at : Nat, applied : SUBSET SRs, rejected : SUBSET SRs, before : SUBSET SRs]

(* A batch names a service request once (_validate_preview). *)
ASSUME SlaAssumption ==
    /\ None \notin Contract /\ None \notin Cpl /\ None \notin Mapping /\ None \notin Cpls
    /\ None \notin Classification /\ None \notin Attempt /\ None \notin Lifecycle
    /\ BatchRequests \in Seq(SRs)
    /\ \A i, j \in DOMAIN BatchRequests : BatchRequests[i] = BatchRequests[j] => i = j

SlaInit ==
    /\ SrInit /\ RfcInit
    /\ line = [l \in Lines |-> None] /\ contract = [k \in Contracts |-> None]
    /\ cpl = [p \in Cpls |-> None] /\ mapping = [m \in Mappings |-> None]
    /\ cls = [s \in SRs |-> None]
    /\ batch = <<>> /\ attempt = [a \in Attempts |-> None]
    /\ receipts = {} /\ events = [s \in SRs |-> 0] /\ summary = None

-----------------------------------------------------------------------------
(* The catalogue. *)

ActiveLine(l) == line[l] = "active"
ActiveContract(k) == contract[k] # None /\ contract[k].state = "active"
ActiveCpl(p) == cpl[p] # None /\ cpl[p].state = "active"

create_product_line(l) ==
    /\ Accept
    /\ line[l] = None
    /\ line' = [line EXCEPT ![l] = "active"]
    /\ UNCHANGED <<srVars, rfcVars, use, contract, cpl, mapping, cls, batchVars>>

create_contract(k, c) ==
    /\ Accept
    /\ contract[k] = None /\ Active(c)
    /\ contract' = [contract EXCEPT ![k] = [customer |-> c, state |-> "active", rev |-> 1]]
    /\ UNCHANGED <<srVars, rfcVars, use, line, cpl, mapping, cls, batchVars>>

(* With a first policy, or without one for now. *)
create_contract_product_line(p, k, l, policy) ==
    /\ Accept
    /\ cpl[p] = None /\ ActiveContract(k) /\ ActiveLine(l)
    /\ cpl' = [cpl EXCEPT ![p] = [contract |-> k, line |-> l, state |-> "active", rev |-> 1, policy |-> policy]]
    /\ UNCHANGED <<srVars, rfcVars, use, line, contract, mapping, cls, batchVars>>

revise_policy(p) ==
    /\ Accept
    /\ ActiveCpl(p) /\ ActiveContract(cpl[p].contract)
    /\ cpl' = [cpl EXCEPT ![p].policy = TRUE, ![p].rev = @ + 1]
    /\ UNCHANGED <<srVars, rfcVars, use, line, contract, mapping, cls, batchVars>>

Classified(p) == {s \in SRs : cls[s] # None /\ cls[s].cpl = p}
Other(state) == IF state = "active" THEN "archived" ELSE "active"

(* set_catalog_lifecycle: an owner is archived after what it owns, and is     *)
(* active again before it.                                                    *)
SetLineLifecycle(l) ==
    /\ Accept
    /\ line[l] # None
    /\ ActiveLine(l) => \A p \in Cpls : ActiveCpl(p) => cpl[p].line # l
    /\ line' = [line EXCEPT ![l] = Other(@)]
    /\ UNCHANGED <<srVars, rfcVars, use, contract, cpl, mapping, cls, batchVars>>

SetContractLifecycle(k) ==
    /\ Accept
    /\ contract[k] # None
    /\ IF ActiveContract(k) THEN \A p \in Cpls : ActiveCpl(p) => cpl[p].contract # k
                            ELSE Active(contract[k].customer)
    /\ contract' = [contract EXCEPT ![k].state = Other(@), ![k].rev = @ + 1]
    /\ UNCHANGED <<srVars, rfcVars, use, line, cpl, mapping, cls, batchVars>>

CplMayClose(p) == Classified(p) = {}

SetCplLifecycle(p) ==
    /\ Accept
    /\ cpl[p] # None
    /\ IF ActiveCpl(p) THEN CplMayClose(p)
                       ELSE ActiveContract(cpl[p].contract) /\ ActiveLine(cpl[p].line)
    /\ cpl' = [cpl EXCEPT ![p].state = Other(@), ![p].rev = @ + 1]
    /\ UNCHANGED <<srVars, rfcVars, use, line, contract, mapping, cls, batchVars>>

-----------------------------------------------------------------------------
(* Mappings. *)

CustomerOf(p) == contract[cpl[p].contract].customer

create_mapping(m, c, code, p) ==
    /\ Accept
    /\ mapping[m] = None /\ Active(c)
    /\ ActiveCpl(p) /\ ActiveContract(cpl[p].contract) /\ CustomerOf(p) = c
    /\ mapping' = [mapping EXCEPT ![m] = [customer |-> c, code |-> code, cpl |-> p, active |-> TRUE]]
    /\ UNCHANGED <<srVars, rfcVars, use, line, contract, cpl, cls, batchVars>>

supersede_mapping(m) ==
    /\ Accept
    /\ mapping[m] # None /\ mapping[m].active
    /\ mapping' = [mapping EXCEPT ![m].active = FALSE]
    /\ UNCHANGED <<srVars, rfcVars, use, line, contract, cpl, cls, batchVars>>

match(s) ==
    {m \in Mappings : mapping[m] # None /\ mapping[m].active
                      /\ mapping[m].code = sr[s].code /\ mapping[m].customer = sr[s].customer}

-----------------------------------------------------------------------------
(* Previews of a classification, and the classification of one request. *)

_target_state(s, p) ==
    IF sr[s].customer = None THEN "customer_unresolved"
    ELSE IF p = None \/ cpl[p] = None THEN "incompatible"
    ELSE IF CustomerOf(p) # sr[s].customer THEN "cross_customer"
    ELSE IF ~ActiveCpl(p) \/ ~ActiveContract(cpl[p].contract) \/ ~cpl[p].policy THEN "incompatible"
    ELSE IF s \in Classified(p) THEN "unchanged" ELSE "eligible"

(* Everything the fingerprint of a preview covers. *)
_preview_fingerprint(s, p, m) ==
    <<sr[s].rev, sr[s].customer, sr[s].proj, sr[s].code, cls[s],
      IF p = None THEN None ELSE <<p, cpl[p], contract[cpl[p].contract]>>,
      IF m = None THEN None ELSE <<m, mapping[m]>>>>

_manual_preview_from_reader(s, p) ==
    [sr |-> s, state |-> _target_state(s, p), target |-> p, mapping |-> None,
     fp |-> _preview_fingerprint(s, p, None)]

_automatic_preview_from_reader(s) ==
    LET M == match(s)
        m == CHOOSE x \in M : TRUE IN
    IF sr[s].customer # None /\ sr[s].code # None /\ Cardinality(M) = 1
    THEN [sr |-> s, state |-> _target_state(s, mapping[m].cpl), target |-> mapping[m].cpl, mapping |-> m,
          fp |-> _preview_fingerprint(s, mapping[m].cpl, m)]
    ELSE [sr |-> s, target |-> None, mapping |-> None, fp |-> _preview_fingerprint(s, None, None),
          state |-> IF sr[s].customer = None THEN "customer_unresolved"
                    ELSE IF M = {} \/ sr[s].code = None THEN "unclassified" ELSE "ambiguous"]

(* The revision starts again at 1 after the row was cleared. *)
set_current(s, p) ==
    cls' = [cls EXCEPT ![s] = [cpl |-> p, rev |-> IF cls[s] = None THEN 1 ELSE cls[s].rev + 1]]

classify_service_request(s, preview) ==
    /\ Accept
    /\ Exists(s) /\ preview.state = "eligible"
    /\ set_current(s, preview.target)
    /\ UNCHANGED <<srVars, rfcVars, use, catalogVars, batchVars>>

clear_service_request_classification(s) ==
    /\ Accept
    /\ cls[s] # None
    /\ cls' = [cls EXCEPT ![s] = None]
    /\ UNCHANGED <<srVars, rfcVars, use, catalogVars, batchVars>>

(* Altered form: the classification outlives the customer. *)
KeepsClassification(s, c) == UNCHANGED cls

(* The classification under another customer's contract goes with the customer. *)
apply_customer_change(s, c) ==
    cls' = IF cls[s] # None /\ CustomerOf(cls[s].cpl) # c THEN [cls EXCEPT ![s] = None] ELSE cls

set_request_customer(s, c) ==
    /\ SetCustomer(s, c)
    /\ apply_customer_change(s, c)
    /\ UNCHANGED <<rfcVars, use, catalogVars, batchVars>>

(* The same from a reconciliation proposal, which names a customer. *)
set_request_customer_from_review(s, c) == c # None /\ set_request_customer(s, c)

-----------------------------------------------------------------------------
(* A batch. *)

(* The user reviews one preview for each request, under one CPL or by mapping. *)
preview_batch(p) ==
    /\ batch = <<>> /\ \A i \in DOMAIN BatchRequests : Exists(BatchRequests[i])
    /\ batch' = [i \in DOMAIN BatchRequests |->
                    IF p = None THEN _automatic_preview_from_reader(BatchRequests[i])
                                ELSE _manual_preview_from_reader(BatchRequests[i], p)]
    /\ UNCHANGED <<srVars, rfcVars, cmd, use, catalogVars, cls, attempt, receipts, events, summary>>

Applied == {s \in SRs : events[s] > 0}

(* An attempt starts when the command has no result yet.  Attempts carry the same *)
(* request, which the anchor receipt binds.                                       *)
_completed_replay(a) ==
    /\ batch # <<>> /\ attempt[a] = None /\ summary = None
    /\ attempt' = [attempt EXCEPT ![a] = [at |-> 1, applied |-> {}, rejected |-> {}, before |-> Applied]]
    /\ UNCHANGED <<srVars, rfcVars, cmd, use, catalogVars, cls, batch, receipts, events, summary>>

(* Altered form: every attempt gives its items identities of their own. *)
FreshCommandId(a, i) == <<a, i>>

(* The same in every attempt. *)
_derived_command_id(a, i) == <<"target", i>>

_initial_rejection(item) == item.state \notin {"eligible", "unchanged"}

FreshPreview(item) ==
    IF item.mapping = None THEN _manual_preview_from_reader(item.sr, item.target)
                           ELSE _automatic_preview_from_reader(item.sr)

Advanced(a, field, s) == attempt' = [attempt EXCEPT ![a].at = @ + 1, ![a][field] = @ \cup {s}]

(* The next item of an attempt: refused by its preview, answered from its        *)
(* receipt, refused because its preview is stale, or done.  A refusal leaves no  *)
(* receipt.                                                                      *)
apply_batch(a) ==
    LET item == batch[attempt[a].at]
        s == item.sr
        id == _derived_command_id(a, attempt[a].at)
        known == {r \in receipts : r.id = id} IN
    /\ attempt[a] # None /\ attempt[a].at \in DOMAIN batch
    /\ \/ /\ _initial_rejection(item) \/ (known = {} /\ FreshPreview(item) # item)
          /\ Advanced(a, "rejected", s)
          /\ UNCHANGED <<cls, receipts, events>>
       \/ /\ ~_initial_rejection(item) /\ known # {}
          /\ \E r \in known : IF r.outcome = "APPLIED" THEN Advanced(a, "applied", s)
                              ELSE attempt' = [attempt EXCEPT ![a].at = @ + 1]
          /\ UNCHANGED <<cls, receipts, events>>
       \/ /\ item.state = "unchanged" /\ known = {} /\ FreshPreview(item) = item
          /\ attempt' = [attempt EXCEPT ![a].at = @ + 1]
          /\ receipts' = receipts \cup {[id |-> id, outcome |-> "NO_CHANGE"]}
          /\ UNCHANGED <<cls, events>>
       \/ /\ item.state = "eligible" /\ known = {} /\ FreshPreview(item) = item
          /\ set_current(s, item.target)
          /\ events' = [events EXCEPT ![s] = @ + 1]
          /\ receipts' = receipts \cup {[id |-> id, outcome |-> "APPLIED"]}
          /\ Advanced(a, "applied", s)
    /\ UNCHANGED <<srVars, rfcVars, cmd, use, catalogVars, batch, summary>>

(* The first attempt at the end commits the result, a later one is answered with it. *)
_commit_summary(a) ==
    /\ attempt[a] # None /\ attempt[a].at = Len(batch) + 1
    /\ summary' = IF summary = None THEN attempt[a] ELSE summary
    /\ attempt' = [attempt EXCEPT ![a].at = @ + 1]
    /\ UNCHANGED <<srVars, rfcVars, cmd, use, catalogVars, cls, batch, receipts, events>>

(* The process, or the attempt by an error that is not of one item, ends between items. *)
AttemptDies(a) ==
    /\ attempt[a] # None /\ attempt[a].at <= Len(batch) + 1
    /\ attempt' = [attempt EXCEPT ![a].at = Len(batch) + 2]
    /\ UNCHANGED <<srVars, rfcVars, cmd, use, catalogVars, cls, batch, receipts, events, summary>>

-----------------------------------------------------------------------------
Previewable == {p \in Cpls : cpl[p] # None}

CatalogNext ==
    \/ \E l \in Lines : create_product_line(l) \/ SetLineLifecycle(l)
    \/ \E k \in Contracts : SetContractLifecycle(k) \/ \E c \in Customers : create_contract(k, c)
    \/ \E p \in Cpls :
          \/ revise_policy(p) \/ SetCplLifecycle(p)
          \/ \E k \in Contracts, l \in Lines, policy \in BOOLEAN : create_contract_product_line(p, k, l, policy)
    \/ \E m \in Mappings :
          \/ supersede_mapping(m)
          \/ \E c \in Customers, code \in Codes, p \in Cpls : create_mapping(m, c, code, p)

ClassificationNext ==
    \E s \in SRs \cap use :
       \/ Exists(s) /\ \E p \in Previewable : classify_service_request(s, _manual_preview_from_reader(s, p))
       \/ Exists(s) /\ classify_service_request(s, _automatic_preview_from_reader(s))
       \/ clear_service_request_classification(s)

BatchNext ==
    \/ \E p \in Previewable \cup {None} : preview_batch(p)
    \/ \E a \in Attempts : _completed_replay(a) \/ apply_batch(a) \/ _commit_summary(a) \/ AttemptDies(a)

SlaNext ==
    \/ "requests" \in use /\ RequestNext /\ UNCHANGED <<rfcVars, use, catalogVars, cls, batchVars>>
    \/ RfcNext /\ UNCHANGED <<catalogVars, cls, batchVars>>
    \/ \E s \in SRs \cap use, c \in Customers \cup {None} :
          set_request_customer(s, c) \/ set_request_customer_from_review(s, c)
    \/ "catalog" \in use /\ CatalogNext
    \/ "classify" \in use /\ ClassificationNext
    \/ "batch" \in use /\ BatchNext

-----------------------------------------------------------------------------
(* Properties. *)

(* The current classification of a service request is under a contract of its *)
(* current customer, and the CPL with its policy, the contract and the product *)
(* line are all active: whatever customers, contracts, lines and batches do    *)
(* between the classification and now.                                         *)
ClassifiedWithinCustomer ==
    \A s \in SRs : cls[s] # None =>
        LET p == cls[s].cpl IN
        /\ ActiveCpl(p) /\ cpl[p].policy
        /\ ActiveContract(cpl[p].contract) /\ ActiveLine(cpl[p].line)
        /\ CustomerOf(p) = sr[s].customer

(* A batch classifies each of its requests at most once, however often it is *)
(* attempted and whatever clears the classification between; and its summary *)
(* reports as applied what was applied, what attempts before did included.   *)
BatchSummaryIsTrue ==
    /\ \A s \in SRs : events[s] <= 1
    /\ summary # None => summary.before \subseteq summary.applied /\ summary.applied \subseteq Applied

=============================================================================
