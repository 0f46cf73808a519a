--------------------------- MODULE ServiceRequests ---------------------------
(***************************************************************************)
(* Customers and service requests: what the RFC and the SLA components      *)
(* share.  A service request has an official number or a local one, a      *)
(* current customer, and the current values of two source fields: its      *)
(* status and the account code of its customer.                            *)
(*                                                                         *)
(* Every command of the ticket components is one transaction that compares *)
(* what the user reviewed with what is stored: an action is the command    *)
(* whose review is current, any other is refused without effect.  cmd      *)
(* counts the commands accepted so far; it names what a command creates    *)
(* (evidence, events, epochs).                                             *)
(***************************************************************************)
EXTENDS Integers, Sequences, FiniteSets

CONSTANTS Customers, SRs,
          Official,     \* official service request numbers
          Codes,        \* customer account codes
          MaxCommands,  \* bound on accepted commands
          None

VARIABLES customer,     \* lifecycle of the customer organizations
          sr,           \* service_requests, their customer and source projection
          cmd           \* commands accepted so far

srVars == <<customer, sr>>

Accept == cmd < MaxCommands /\ cmd' = cmd + 1

SrInit ==
    /\ customer = [c \in Customers |-> "active"]
    /\ sr = [s \in SRs |-> None]
    /\ cmd = 0

Exists(s) == sr[s] # None
Active(c) == customer[c] = "active"

TerminalStatus == {"Closed"}
StatusValues == {"Open"} \cup TerminalStatus

(* A row; "no" is None while the service request has a local number only. *)
Request == [no : Official \cup {None}, rev : Nat, customer : Customers \cup {None},
            status : StatusValues \cup {None}, code : Codes \cup {None}, proj : Nat]

ASSUME RequestAssumption ==
    /\ MaxCommands \in Nat
    /\ None \notin Request /\ None \notin Official /\ None \notin Customers

-----------------------------------------------------------------------------
(* Customer organizations. *)

archive_reference(c) ==
    /\ Accept
    /\ customer[c] = "active"
    /\ customer' = [customer EXCEPT ![c] = "archived"]
    /\ UNCHANGED sr

reactivate_reference(c) ==
    /\ Accept
    /\ customer[c] = "archived"
    /\ customer' = [customer EXCEPT ![c] = "active"]
    /\ UNCHANGED sr

-----------------------------------------------------------------------------
(* Identity. *)

NewRequest(no) == [no |-> no, rev |-> 1, customer |-> None, status |-> None, code |-> None, proj |-> 0]

Owned(no) == \E s \in SRs : Exists(s) /\ sr[s].no = no

(* With an official number, or with the next local one. *)
create_manual(s, no) ==
    /\ Accept
    /\ ~Exists(s)
    /\ no # None => ~Owned(no)
    /\ sr' = [sr EXCEPT ![s] = NewRequest(no)]
    /\ UNCHANGED customer

create_or_adopt_from_source(s, no) ==
    /\ Accept
    /\ ~Exists(s) /\ ~Owned(no)
    /\ sr' = [sr EXCEPT ![s] = NewRequest(no)]
    /\ UNCHANGED customer

attach_official_identity(s, no) ==
    /\ Accept
    /\ Exists(s) /\ sr[s].no = None /\ ~Owned(no)
    /\ sr' = [sr EXCEPT ![s].no = no, ![s].rev = @ + 1]
    /\ UNCHANGED customer

-----------------------------------------------------------------------------
(* The current customer: chosen by a user, who may clear it, or accepted from *)
(* a reconciliation proposal.                                                  *)

build_customer_preview_state(s, c) == Exists(s) /\ (c # None => Active(c)) /\ sr[s].customer # c

SetCustomer(s, c) ==
    /\ Accept
    /\ build_customer_preview_state(s, c)
    /\ sr' = [sr EXCEPT ![s].customer = c, ![s].rev = @ + 1]
    /\ UNCHANGED customer

-----------------------------------------------------------------------------
(* An accepted source value.  It is newer than the current one or it is a    *)
(* reviewed correction, so any other value may follow a value.               *)

apply_accepted_field_deltas(s, field, v) ==
    /\ Accept
    /\ Exists(s) /\ sr[s].no # None
    /\ sr[s][field] # v
    /\ sr' = [sr EXCEPT ![s][field] = v, ![s].proj = @ + 1]
    /\ UNCHANGED customer
=============================================================================
