-------------------------- MODULE CommandBoundary ---------------------------
(***************************************************************************)
(* CommandBoundary.execute inside a UnitOfWork, with the WriteAdmissionGate *)
(* in front of it and the idempotency tables command_receipts and          *)
(* command_receipt_results behind it.                                      *)
(*                                                                         *)
(* "db" is the committed database, "tx" what the transaction that holds    *)
(* SQLite's write lock would commit.  Callers are the threads that run     *)
(* commands.  Any statement, callback or audit write may raise, the        *)
(* process may die between any two steps, and a caller that got no answer  *)
(* submits the same command id again, perhaps with another request.        *)
(***************************************************************************)
EXTENDS Integers, FiniteSets

CONSTANTS
    Callers,     \* threads that execute commands
    CommandIds,  \* client-chosen command identifiers
    Requests,    \* what is asked for: type, target and payload (request_hash)
    None,        \* no row, nobody
    MaxCrashes,  \* bound: process deaths
    MaxQuiesce   \* bound: times the host closes write admission

ASSUME BoundaryAssumption ==
    /\ None \notin Requests /\ None \notin Nat /\ None \notin Callers
    /\ None \notin [request : Requests, kind : {"no_change", "material", "legacy"}]
    /\ None \notin [request : Requests, response : Nat]
    /\ IsFiniteSet(Callers)
    /\ MaxCrashes \in Nat /\ MaxQuiesce \in Nat

VARIABLES
    db,        \* [receipts, results, applied, audits, version], committed
    tx,        \* the same of the open transaction
    owner,     \* the caller that holds the write lock, or None
    gate,      \* WriteAdmissionGate: [accepting, active]
    pc,        \* where each caller is
    call,      \* what each caller is executing: [command, request, response]
    replies,   \* the answers callers received
    faults     \* [crashes, quiesces] so far

vars == <<db, tx, owner, gate, pc, call, replies, faults>>

Kinds == {"no_change", "material", "legacy"}

Receipt == [request : Requests, kind : Kinds]

Database ==
    [receipts : [CommandIds -> Receipt \cup {None}],  \* command_receipts
     results  : [CommandIds -> Nat \cup {None}],      \* command_receipt_results
     applied  : [CommandIds -> Nat],                  \* runs of apply(uow)
     audits   : [CommandIds -> Nat],                  \* audit_events rows
     version  : Nat]                                  \* of the domain tables

(* Steps of execute between BEGIN IMMEDIATE and COMMIT. *)
InTransaction ==
    {"open", "fresh", "applying", "auditing", "answering", "committing"}

(* Steps between entering and leaving the gate. *)
Admitted == InTransaction \cup {"admitted", "leaving", "failing"}

Steps == Admitted \cup {"idle", "submitted", "replying"}

NoCall == [command |-> None, request |-> None, response |-> None]

(* The database may hold receipts from before the migration that added the *)
(* results table: they have no stored answer.                              *)
Init ==
    /\ \E receipts \in [CommandIds -> [request : Requests, kind : {"legacy"}] \cup {None}] :
          db = [receipts |-> receipts,
                results  |-> [c \in CommandIds |-> None],
                applied  |-> [c \in CommandIds |-> 0],
                audits   |-> [c \in CommandIds |-> 0],
                version  |-> 0]
    /\ tx = db
    /\ owner = None
    /\ gate = [accepting |-> TRUE, active |-> 0]
    /\ pc = [p \in Callers |-> "idle"]
    /\ call = [p \in Callers |-> NoCall]
    /\ replies = {}
    /\ faults = [crashes |-> 0, quiesces |-> 0]

-----------------------------------------------------------------------------
Goto(p, step) == pc' = [pc EXCEPT ![p] = step]

Return(p) ==
    /\ Goto(p, "idle")
    /\ call' = [call EXCEPT ![p] = NoCall]

Submit(p, c, r) ==
    /\ pc[p] = "idle"
    /\ Goto(p, "submitted")
    /\ call' = [call EXCEPT ![p] = [command |-> c, request |-> r, response |-> None]]
    /\ UNCHANGED <<db, tx, owner, gate, replies, faults>>

(* Faulty variant of Admit: the gate was never installed, so the writer    *)
(* passes uncounted.                                                       *)
AdmitUncounted(p) ==
    /\ pc[p] = "submitted"
    /\ gate.accepting
    /\ Goto(p, "admitted")
    /\ UNCHANGED <<db, tx, owner, gate, call, replies, faults>>

(* WriteAdmissionGate.enter, with HOST_QUIESCING once the gate is closed. *)
Admit(p) ==
    /\ pc[p] = "submitted"
    /\ gate.accepting
    /\ gate' = [gate EXCEPT !.active = @ + 1]
    /\ Goto(p, "admitted")
    /\ UNCHANGED <<db, tx, owner, call, replies, faults>>

Refuse(p) ==
    /\ pc[p] = "submitted"
    /\ ~gate.accepting
    /\ Return(p)
    /\ UNCHANGED <<db, tx, owner, gate, replies, faults>>

(* open_authoritative and BEGIN IMMEDIATE. *)
Begin(p) ==
    /\ pc[p] = "admitted"
    /\ owner = None
    /\ owner' = p
    /\ tx' = db
    /\ Goto(p, "open")
    /\ UNCHANGED <<db, gate, call, replies, faults>>

(* The connection cannot be opened or verified, or the lock is not had     *)
(* within the busy timeout.                                                *)
BeginFails(p) ==
    /\ pc[p] = "admitted"
    /\ Goto(p, "failing")
    /\ UNCHANGED <<db, tx, owner, gate, call, replies, faults>>

(* _assert_replay_match: type, target and request hash are the receipt's. *)
ReplayMatches(p) ==
    tx.receipts[call[p].command].request = call[p].request

(* Faulty variant of Lookup: a known command is answered from the present  *)
(* state of the domain.                                                    *)
LookupRecomputing(p) ==
    /\ pc[p] = "open"
    /\ LET c == call[p].command IN
       \/ /\ tx.receipts[c] # None
          /\ ReplayMatches(p)
          /\ tx.results[c] # None
          /\ call' = [call EXCEPT ![p].response = tx.version]
          /\ Goto(p, "committing")
       \/ /\ tx.receipts[c] = None
          /\ Goto(p, "fresh")
          /\ UNCHANGED call
    /\ UNCHANGED <<db, tx, owner, gate, replies, faults>>

(* A known command is replayed from its stored result; without a match, or *)
(* without a result, execute raises.  An unknown one goes on.              *)
Lookup(p) ==
    /\ pc[p] = "open"
    /\ LET c == call[p].command IN
       \/ /\ tx.receipts[c] # None
          /\ ReplayMatches(p)
          /\ tx.results[c] # None
          /\ call' = [call EXCEPT ![p].response = tx.results[c]]
          /\ Goto(p, "committing")
       \/ /\ tx.receipts[c] = None
          /\ Goto(p, "fresh")
          /\ UNCHANGED call
    /\ UNCHANGED <<db, tx, owner, gate, replies, faults>>

(* prepare(uow) decides between NO_CHANGE and a mutation; the receipt is   *)
(* inserted before the mutation is applied.                                *)
Prepare(p, kind) ==
    /\ pc[p] = "fresh"
    /\ tx' = [tx EXCEPT !.receipts[call[p].command] =
                 [request |-> call[p].request, kind |-> kind]]
    /\ Goto(p, IF kind = "material" THEN "applying" ELSE "answering")
    /\ UNCHANGED <<db, owner, gate, call, replies, faults>>

Apply(p) ==
    /\ pc[p] = "applying"
    /\ tx' = [tx EXCEPT !.applied[call[p].command] = @ + 1, !.version = @ + 1]
    /\ Goto(p, "auditing")
    /\ UNCHANGED <<db, owner, gate, call, replies, faults>>

(* _normalize_audit_emission accepts at least one event; all are written.  *)
WriteAudit(p) ==
    /\ pc[p] = "auditing"
    /\ tx' = [tx EXCEPT !.audits[call[p].command] = @ + 1]
    /\ Goto(p, "answering")
    /\ UNCHANGED <<db, owner, gate, call, replies, faults>>

(* The response is built in the same unit of work and stored with it. *)
StoreResult(p) ==
    /\ pc[p] = "answering"
    /\ tx' = [tx EXCEPT !.results[call[p].command] = tx.version]
    /\ call' = [call EXCEPT ![p].response = tx.version]
    /\ Goto(p, "committing")
    /\ UNCHANGED <<db, owner, gate, replies, faults>>

Commit(p) ==
    /\ pc[p] = "committing"
    /\ db' = tx
    /\ owner' = None
    /\ Goto(p, "leaving")
    /\ UNCHANGED <<tx, gate, call, replies, faults>>

(* Faulty variant of Raise: __exit__ commits what was written so far. *)
RaiseCommitting(p) ==
    /\ pc[p] \in InTransaction
    /\ owner' = None
    /\ db' = tx
    /\ Goto(p, "failing")
    /\ UNCHANGED <<tx, gate, call, replies, faults>>

(* Anything raises inside the unit of work, COMMIT included: rollback. *)
Raise(p) ==
    /\ pc[p] \in InTransaction
    /\ owner' = None
    /\ tx' = db
    /\ Goto(p, "failing")
    /\ UNCHANGED <<db, gate, call, replies, faults>>

(* UnitOfWork.__exit__ closes the connection and leaves the gate last. *)
Leave(p) ==
    /\ pc[p] = "leaving"
    /\ gate' = [gate EXCEPT !.active = @ - 1]
    /\ Goto(p, "replying")
    /\ UNCHANGED <<db, tx, owner, call, replies, faults>>

(* Faulty variant of LeaveFailing: an exception skips leaving the gate. *)
LeaveNotFailing(p) ==
    /\ pc[p] = "failing"
    /\ Return(p)
    /\ UNCHANGED <<db, tx, owner, gate, replies, faults>>

LeaveFailing(p) ==
    /\ pc[p] = "failing"
    /\ gate' = [gate EXCEPT !.active = @ - 1]
    /\ Return(p)
    /\ UNCHANGED <<db, tx, owner, replies, faults>>

(* The answer reaches the client, or is lost on the way. *)
Reply(p) ==
    /\ pc[p] = "replying"
    /\ replies' = replies \cup {call[p]}
    /\ Return(p)
    /\ UNCHANGED <<db, tx, owner, gate, faults>>

LoseReply(p) ==
    /\ pc[p] = "replying"
    /\ Return(p)
    /\ UNCHANGED <<db, tx, owner, gate, replies, faults>>

(* The process dies: SQLite discards the open transaction, and the next    *)
(* process starts with a new gate.                                         *)
Crash ==
    /\ faults.crashes < MaxCrashes
    /\ faults' = [faults EXCEPT !.crashes = @ + 1]
    /\ tx' = db
    /\ owner' = None
    /\ gate' = [accepting |-> TRUE, active |-> 0]
    /\ pc' = [p \in Callers |-> "idle"]
    /\ call' = [p \in Callers |-> NoCall]
    /\ UNCHANGED <<db, replies>>

Quiesce ==
    /\ gate.accepting
    /\ faults.quiesces < MaxQuiesce
    /\ faults' = [faults EXCEPT !.quiesces = @ + 1]
    /\ gate' = [gate EXCEPT !.accepting = FALSE]
    /\ UNCHANGED <<db, tx, owner, pc, call, replies>>

(* reopen refuses while writers are active. *)
Reopen ==
    /\ ~gate.accepting
    /\ gate.active = 0
    /\ gate' = [gate EXCEPT !.accepting = TRUE]
    /\ UNCHANGED <<db, tx, owner, pc, call, replies, faults>>

-----------------------------------------------------------------------------
(* The steps of a caller that is inside the gate. *)
UnitOfWorkStep(p) ==
    \/ Begin(p)
    \/ BeginFails(p)
    \/ Lookup(p)
    \/ \E kind \in {"no_change", "material"} : Prepare(p, kind)
    \/ Apply(p)
    \/ WriteAudit(p)
    \/ StoreResult(p)
    \/ Commit(p)
    \/ Raise(p)
    \/ Leave(p)
    \/ LeaveFailing(p)

Next ==
    \/ \E p \in Callers, c \in CommandIds, r \in Requests : Submit(p, c, r)
    \/ \E p \in Callers :
          Admit(p) \/ Refuse(p) \/ UnitOfWorkStep(p) \/ Reply(p) \/ LoseReply(p)
    \/ Crash
    \/ Quiesce
    \/ Reopen

Spec == Init /\ [][Next]_vars

(* A thread that entered the gate goes on: waiting for the lock is bounded *)
(* by the busy timeout, and the callbacks run to an end or raise.          *)
FairSpec == Spec /\ \A p \in Callers : WF_vars(UnitOfWorkStep(p))

-----------------------------------------------------------------------------
TypeOK ==
    /\ db \in Database /\ tx \in Database
    /\ owner \in Callers \cup {None}
    /\ gate \in [accepting : BOOLEAN, active : Nat]
    /\ pc \in [Callers -> Steps]
    /\ call \in [Callers -> [command : CommandIds \cup {None},
                             request : Requests \cup {None},
                             response : Nat \cup {None}]]
    /\ replies \subseteq [command : CommandIds, request : Requests, response : Nat]
    /\ faults \in [crashes : Nat, quiesces : Nat]

(* A committed command is whole: its receipt, its one application, its     *)
(* audit and its stored answer are there together, and without a receipt   *)
(* there is nothing.  No crash, raise or repetition leaves half of one.    *)
Whole(d, c) ==
    LET n == IF d.receipts[c] # None /\ d.receipts[c].kind = "material" THEN 1 ELSE 0
    IN  /\ d.applied[c] = n
        /\ d.audits[c] = n
        /\ (d.results[c] # None) <=>
              (d.receipts[c] # None /\ d.receipts[c].kind # "legacy")

ExactlyOnce == \A c \in CommandIds : Whole(db, c)

(* Whoever was answered holds the durable answer to the request it made:   *)
(* repeated, racing and resubmitted commands all get the same one.         *)
RepliesAreDurable ==
    \A x \in replies :
        /\ db.receipts[x.command] # None
        /\ db.receipts[x.command].request = x.request
        /\ db.results[x.command] = x.response

(* Once the closed gate has drained, no transaction is open: what the host *)
(* relies on when it gives up the database.                                *)
DrainedIsQuiet == ~gate.accepting /\ gate.active = 0 => owner = None

(* A closed gate drains unless it is opened again. *)
GateDrains == ~gate.accepting ~> (gate.active = 0 \/ gate.accepting)

-----------------------------------------------------------------------------
(* The boundary implements CommandLedger: the decision is the COMMIT. *)
Ledger ==
    INSTANCE CommandLedger WITH
        version <- db.version,
        ledger  <- [c \in CommandIds |->
                      IF db.receipts[c] = None THEN None
                      ELSE [request  |-> db.receipts[c].request,
                            response |-> db.results[c]]]

LedgerSpec == Ledger!Spec
=============================================================================
