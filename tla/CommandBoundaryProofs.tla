----------------------- MODULE CommandBoundaryProofs ------------------------
(***************************************************************************)
(* Proofs about CommandBoundary for any number of callers, commands and    *)
(* requests.  The invariant says, for the caller that holds the write      *)
(* lock, exactly how far its transaction has come from the committed       *)
(* database; for a caller that has committed, that its answer is durable.  *)
(***************************************************************************)
EXTENDS CommandBoundary, FiniteSetTheorems, TLAPS

(* The transaction after the receipt, the application, the audit and the   *)
(* result of a new command.                                                *)
WithReceipt(d, c, r, kind) ==
    [d EXCEPT !.receipts[c] = [request |-> r, kind |-> kind]]

WithApply(d, c) == [d EXCEPT !.applied[c] = @ + 1, !.version = @ + 1]

WithAudit(d, c) == [d EXCEPT !.audits[c] = @ + 1]

WithResult(d, c) == [d EXCEPT !.results[c] = d.version]

Prepared(c, r) ==
    \/ tx = WithReceipt(db, c, r, "no_change")
    \/ tx = WithAudit(WithApply(WithReceipt(db, c, r, "material"), c), c)

(* The durable answer to request r of command c. *)
Durable(c, r, response) ==
    /\ db.receipts[c] # None
    /\ db.receipts[c].request = r
    /\ db.results[c] = response
    /\ response # None

(* What the transaction of caller p holds at each of its steps. *)
Progress(p) ==
    LET c == call[p].command
        r == call[p].request
    IN  CASE pc[p] = "open" -> tx = db
          [] pc[p] = "fresh" -> tx = db /\ db.receipts[c] = None
          [] pc[p] = "applying" ->
                /\ db.receipts[c] = None
                /\ tx = WithReceipt(db, c, r, "material")
          [] pc[p] = "auditing" ->
                /\ db.receipts[c] = None
                /\ tx = WithApply(WithReceipt(db, c, r, "material"), c)
          [] pc[p] = "answering" -> db.receipts[c] = None /\ Prepared(c, r)
          [] pc[p] = "committing" ->
                \/ tx = db /\ Durable(c, r, call[p].response)
                \/ /\ db.receipts[c] = None
                   /\ call[p].response = tx.version
                   /\ \E t \in {WithReceipt(db, c, r, "no_change"),
                                WithAudit(WithApply(WithReceipt(db, c, r, "material"), c), c)} :
                         tx = WithResult(t, c)
          [] OTHER -> TRUE

LockHeld == \A p \in Callers : pc[p] \in InTransaction <=> owner = p

Called ==
    \A p \in Callers : pc[p] # "idle" =>
        call[p].command \in CommandIds /\ call[p].request \in Requests

Answered ==
    \A p \in Callers : pc[p] \in {"leaving", "replying"} =>
        Durable(call[p].command, call[p].request, call[p].response)

InProgress == \A p \in Callers : pc[p] \in InTransaction => Progress(p)

Counted == gate.active = Cardinality({p \in Callers : pc[p] \in Admitted})

Inv ==
    /\ TypeOK
    /\ LockHeld
    /\ Called
    /\ Answered
    /\ InProgress
    /\ ExactlyOnce
    /\ RepliesAreDurable

-----------------------------------------------------------------------------
(* Lemmas on one database. *)

(* Writing the receipt of a command that has none changes that row only. *)
LEMMA ReceiptWritten ==
    ASSUME NEW d \in Database, NEW c \in CommandIds, NEW r \in Requests,
           NEW kind \in {"no_change", "material"}
    PROVE  LET e == WithReceipt(d, c, r, kind) IN
           /\ e \in Database
           /\ e.receipts = [d.receipts EXCEPT ![c] = [request |-> r, kind |-> kind]]
           /\ e.results = d.results /\ e.applied = d.applied
           /\ e.audits = d.audits /\ e.version = d.version
<1> DEFINE x == [request |-> r, kind |-> kind]
<1>1. x \in Receipt
  BY DEF Receipt, Kinds
<1> HIDE DEF x
<1>2. [d EXCEPT !.receipts[c] = x] = [d EXCEPT !.receipts = [d.receipts EXCEPT ![c] = x]]
  BY DEF Database
<1>3. [d.receipts EXCEPT ![c] = x] \in [CommandIds -> Receipt \cup {None}]
  BY <1>1 DEF Database
<1> QED
  BY <1>2, <1>3 DEF Database, WithReceipt, x

(* apply(uow) counts one application and one change of the domain. *)
LEMMA ApplyWritten ==
    ASSUME NEW d \in Database, NEW c \in CommandIds
    PROVE  LET e == WithApply(d, c) IN
           /\ e \in Database
           /\ e.applied = [d.applied EXCEPT ![c] = d.applied[c] + 1]
           /\ e.version = d.version + 1
           /\ e.receipts = d.receipts /\ e.results = d.results /\ e.audits = d.audits
<1> DEFINE f == [d.applied EXCEPT ![c] = d.applied[c] + 1]
           n == d.version + 1
<1>1. WithApply(d, c) = [d EXCEPT !.applied = f, !.version = n]
  BY DEF Database, WithApply
<1>2. f \in [CommandIds -> Nat] /\ n \in Nat
  BY DEF Database
<1> HIDE DEF f, n
<1>3. LET e == [d EXCEPT !.applied = f, !.version = n] IN
      /\ e \in Database
      /\ e.applied = f /\ e.version = n
      /\ e.receipts = d.receipts /\ e.results = d.results /\ e.audits = d.audits
  BY <1>2 DEF Database
<1> QED
  BY <1>1, <1>3 DEF f, n

(* The audit writer adds to the audit rows of the command only. *)
LEMMA AuditWritten ==
    ASSUME NEW d \in Database, NEW c \in CommandIds
    PROVE  LET e == WithAudit(d, c) IN
           /\ e \in Database
           /\ e.audits = [d.audits EXCEPT ![c] = d.audits[c] + 1]
           /\ e.receipts = d.receipts /\ e.results = d.results
           /\ e.applied = d.applied /\ e.version = d.version
<1>1. WithAudit(d, c) = [d EXCEPT !.audits = [d.audits EXCEPT ![c] = d.audits[c] + 1]]
  BY DEF Database, WithAudit
<1>2. [d.audits EXCEPT ![c] = d.audits[c] + 1] \in [CommandIds -> Nat]
  BY DEF Database
<1> QED
  BY <1>1, <1>2 DEF Database

(* insert_exact_result stores the answer of the command only. *)
LEMMA ResultWritten ==
    ASSUME NEW d \in Database, NEW c \in CommandIds
    PROVE  LET e == WithResult(d, c) IN
           /\ e \in Database
           /\ e.results = [d.results EXCEPT ![c] = d.version]
           /\ e.receipts = d.receipts /\ e.audits = d.audits
           /\ e.applied = d.applied /\ e.version = d.version
<1>1. WithResult(d, c) = [d EXCEPT !.results = [d.results EXCEPT ![c] = d.version]]
  BY DEF Database, WithResult
<1>2. [d.results EXCEPT ![c] = d.version] \in [CommandIds -> Nat \cup {None}]
  BY DEF Database
<1> QED
  BY <1>1, <1>2 DEF Database

(* What a committing transaction does to the database: it repeats a        *)
(* durable answer, or it adds one whole command that was not there.        *)
Decided(c, r, response) ==
    /\ db.receipts[c] = None
    /\ response = tx.version
    /\ tx.version \in {db.version, db.version + 1}
    /\ \E kind \in {"no_change", "material"} :
          tx.receipts = [db.receipts EXCEPT ![c] = [request |-> r, kind |-> kind]]
    /\ tx.results = [db.results EXCEPT ![c] = tx.version]

(* The two ways to reach COMMIT. *)
LEMMA CommitOutcome ==
    ASSUME Inv, NEW p \in Callers, pc[p] = "committing"
    PROVE  /\ \A c \in CommandIds : Whole(tx, c)
           /\ \/ tx = db /\ Durable(call[p].command, call[p].request, call[p].response)
              \/ Decided(call[p].command, call[p].request, call[p].response)
<1> DEFINE c == call[p].command
           r == call[p].request
           t1 == WithReceipt(db, c, r, "no_change")
           m1 == WithReceipt(db, c, r, "material")
           m2 == WithApply(m1, c)
           m3 == WithAudit(m2, c)
<1>0. /\ c \in CommandIds /\ r \in Requests /\ db \in Database
      /\ Progress(p) /\ ExactlyOnce
  BY DEF Inv, InProgress, Called, InTransaction, TypeOK
<1>1. CASE tx = db /\ Durable(c, r, call[p].response)
  BY <1>0, <1>1 DEF ExactlyOnce
<1>2. CASE /\ db.receipts[c] = None
           /\ call[p].response = tx.version
           /\ tx = WithResult(t1, c)
  <2>1. /\ t1 \in Database
        /\ t1.receipts = [db.receipts EXCEPT ![c] = [request |-> r, kind |-> "no_change"]]
        /\ t1.results = db.results /\ t1.applied = db.applied
        /\ t1.audits = db.audits /\ t1.version = db.version
    BY <1>0, ReceiptWritten
  <2> HIDE DEF t1
  <2>2. /\ tx \in Database /\ tx.results = [t1.results EXCEPT ![c] = t1.version]
        /\ tx.receipts = t1.receipts /\ tx.audits = t1.audits
        /\ tx.applied = t1.applied /\ tx.version = t1.version
    BY <1>2, <2>1, <1>0, ResultWritten
  <2>3. Decided(c, r, call[p].response)
    BY <1>2, <2>1, <2>2 DEF Decided
  <2>4. ASSUME NEW d \in CommandIds PROVE Whole(tx, d)
    <3>1. Whole(db, d)
      BY <1>0 DEF ExactlyOnce
    <3>2. CASE d = c
      BY <3>1, <3>2, <1>2, <2>1, <2>2, <1>0, BoundaryAssumption DEF Whole, Database,
         Receipt, Kinds
    <3>3. CASE d # c
      BY <3>1, <3>3, <2>1, <2>2, <1>0 DEF Whole, Database
    <3> QED BY <3>2, <3>3
  <2> QED BY <2>3, <2>4
<1>3. CASE /\ db.receipts[c] = None
           /\ call[p].response = tx.version
           /\ tx = WithResult(m3, c)
  <2>1. /\ m1 \in Database
        /\ m1.receipts = [db.receipts EXCEPT ![c] = [request |-> r, kind |-> "material"]]
        /\ m1.results = db.results /\ m1.applied = db.applied
        /\ m1.audits = db.audits /\ m1.version = db.version
    BY <1>0, ReceiptWritten
  <2> HIDE DEF m1
  <2>2. /\ m2 \in Database
        /\ m2.applied = [m1.applied EXCEPT ![c] = m1.applied[c] + 1]
        /\ m2.version = m1.version + 1
        /\ m2.receipts = m1.receipts /\ m2.results = m1.results /\ m2.audits = m1.audits
    BY <1>0, <2>1, ApplyWritten
  <2> HIDE DEF m2
  <2>3. /\ m3 \in Database
        /\ m3.audits = [m2.audits EXCEPT ![c] = m2.audits[c] + 1]
        /\ m3.receipts = m2.receipts /\ m3.results = m2.results
        /\ m3.applied = m2.applied /\ m3.version = m2.version
    BY <1>0, <2>2, AuditWritten
  <2> HIDE DEF m3
  <2>4. /\ tx \in Database /\ tx.results = [m3.results EXCEPT ![c] = m3.version]
        /\ tx.receipts = m3.receipts /\ tx.audits = m3.audits
        /\ tx.applied = m3.applied /\ tx.version = m3.version
    BY <1>3, <2>3, <1>0, ResultWritten
  <2>5. Decided(c, r, call[p].response)
    BY <1>3, <2>1, <2>2, <2>3, <2>4 DEF Decided
  <2>6. ASSUME NEW d \in CommandIds PROVE Whole(tx, d)
    <3>1. Whole(db, d)
      BY <1>0 DEF ExactlyOnce
    <3>2. CASE d = c
      BY <3>1, <3>2, <1>3, <2>1, <2>2, <2>3, <2>4, <1>0, BoundaryAssumption
         DEF Whole, Database, Receipt, Kinds
    <3>3. CASE d # c
      BY <3>1, <3>3, <2>1, <2>2, <2>3, <2>4, <1>0 DEF Whole, Database
    <3> QED BY <3>2, <3>3
  <2> QED BY <2>5, <2>6
<1> QED
  BY <1>0, <1>1, <1>2, <1>3 DEF Progress

-----------------------------------------------------------------------------
(* Steps outside a transaction. *)

(* A caller that does not move keeps its progress while the database and   *)
(* the transaction stay as they are.                                       *)
LEMMA ProgressKept ==
    ASSUME NEW q \in Callers, UNCHANGED <<db, tx>>,
           pc'[q] = pc[q], call'[q] = call[q], Progress(q)
    PROVE  Progress(q)'
BY DEF Progress, Prepared, Durable

(* A caller outside a transaction that stays outside disturbs nobody. *)
LEMMA Outside ==
    ASSUME Inv, UNCHANGED <<db, tx, owner>>,
           NEW p \in Callers, pc[p] \notin InTransaction,
           NEW step \in Steps \ InTransaction, pc' = [pc EXCEPT ![p] = step],
           NEW k, call' = [call EXCEPT ![p] = k],
           \/ step = "idle"
           \/ /\ k.command \in CommandIds /\ k.request \in Requests
              /\ step \in {"leaving", "replying"} =>
                    k = call[p] /\ pc[p] \in {"leaving", "replying"}
    PROVE  LockHeld' /\ Called' /\ Answered' /\ InProgress' /\ ExactlyOnce'
<1>1. /\ pc'[p] = step /\ call'[p] = k
      /\ \A q \in Callers \ {p} : pc'[q] = pc[q] /\ call'[q] = call[q]
  BY DEF Inv, TypeOK
<1>2. LockHeld'
  BY <1>1 DEF Inv, LockHeld
<1>3. Called'
  BY <1>1 DEF Inv, Called
<1>4. Answered'
  BY <1>1 DEF Inv, Answered, Durable
<1>5. InProgress'
  BY <1>1, ProgressKept DEF Inv, InProgress
<1>6. ExactlyOnce'
  BY DEF Inv, ExactlyOnce, Whole
<1> QED BY <1>2, <1>3, <1>4, <1>5, <1>6

(* A client submits a command. *)
LEMMA SubmitInv ==
    ASSUME Inv, NEW p \in Callers, NEW c \in CommandIds, NEW r \in Requests,
           Submit(p, c, r)
    PROVE  Inv'
<1> DEFINE k == [command |-> c, request |-> r, response |-> None]
<1>1. TypeOK'
  BY DEF Inv, TypeOK, Submit, Goto, Steps
<1>2. LockHeld' /\ Called' /\ Answered' /\ InProgress' /\ ExactlyOnce'
  <2>1. /\ pc[p] \notin InTransaction /\ "submitted" \in Steps \ InTransaction
        /\ pc' = [pc EXCEPT ![p] = "submitted"] /\ call' = [call EXCEPT ![p] = k]
        /\ UNCHANGED <<db, tx, owner>>
        /\ k.command = c /\ k.request = r
    BY DEF Submit, Goto, InTransaction, Steps
  <2> HIDE DEF k
  <2> QED BY <2>1, Outside
<1>3. RepliesAreDurable'
  BY DEF Inv, RepliesAreDurable, Submit
<1> QED BY <1>1, <1>2, <1>3 DEF Inv

(* The gate lets a writer in. *)
LEMMA AdmitInv ==
    ASSUME Inv, NEW p \in Callers, Admit(p)
    PROVE  Inv'
<1>1. TypeOK'
  BY DEF Inv, TypeOK, Admit, Goto, Steps, Admitted
<1>2. LockHeld' /\ Called' /\ Answered' /\ InProgress' /\ ExactlyOnce'
  <2>1. /\ pc[p] \notin InTransaction /\ "admitted" \in Steps \ InTransaction
        /\ pc' = [pc EXCEPT ![p] = "admitted"] /\ call' = [call EXCEPT ![p] = call[p]]
        /\ UNCHANGED <<db, tx, owner>>
        /\ call[p].command \in CommandIds /\ call[p].request \in Requests
    BY DEF Inv, TypeOK, Called, Admit, Goto, InTransaction, Steps, Admitted
  <2> QED BY <2>1, Outside
<1>3. RepliesAreDurable'
  BY DEF Inv, RepliesAreDurable, Admit
<1> QED BY <1>1, <1>2, <1>3 DEF Inv

(* The gate is closed, an answer is lost, or a failed unit of work leaves. *)
LEMMA ReturnInv ==
    ASSUME Inv, NEW p \in Callers,
           \/ Refuse(p)
           \/ LoseReply(p)
           \/ LeaveFailing(p) /\ gate.active > 0
    PROVE  Inv'
<1>1. TypeOK'
  BY DEF Inv, TypeOK, Refuse, LoseReply, LeaveFailing, Return, Goto, Steps, NoCall
<1>2. LockHeld' /\ Called' /\ Answered' /\ InProgress' /\ ExactlyOnce'
  <2>1. /\ pc[p] \notin InTransaction /\ "idle" \in Steps \ InTransaction
        /\ pc' = [pc EXCEPT ![p] = "idle"] /\ call' = [call EXCEPT ![p] = NoCall]
        /\ UNCHANGED <<db, tx, owner>>
    BY DEF Refuse, LoseReply, LeaveFailing, Return, Goto, InTransaction, Steps, Admitted
  <2> QED BY <2>1, Outside
<1>3. RepliesAreDurable'
  BY DEF Inv, RepliesAreDurable, Refuse, LoseReply, LeaveFailing
<1> QED BY <1>1, <1>2, <1>3 DEF Inv

(* A unit of work that could not begin. *)
LEMMA BeginFailsInv ==
    ASSUME Inv, NEW p \in Callers, BeginFails(p)
    PROVE  Inv'
<1>1. TypeOK'
  BY DEF Inv, TypeOK, BeginFails, Goto, Steps, Admitted
<1>2. LockHeld' /\ Called' /\ Answered' /\ InProgress' /\ ExactlyOnce'
  <2>1. /\ pc[p] \notin InTransaction /\ "failing" \in Steps \ InTransaction
        /\ pc' = [pc EXCEPT ![p] = "failing"] /\ call' = [call EXCEPT ![p] = call[p]]
        /\ UNCHANGED <<db, tx, owner>>
        /\ call[p].command \in CommandIds /\ call[p].request \in Requests
    BY DEF Inv, TypeOK, Called, BeginFails, Goto, InTransaction, Steps, Admitted
  <2> QED BY <2>1, Outside
<1>3. RepliesAreDurable'
  BY DEF Inv, RepliesAreDurable, BeginFails
<1> QED BY <1>1, <1>2, <1>3 DEF Inv

(* A committed unit of work leaves the gate. *)
LEMMA LeaveInv ==
    ASSUME Inv, NEW p \in Callers, Leave(p), gate.active > 0
    PROVE  Inv'
<1>1. TypeOK'
  BY DEF Inv, TypeOK, Leave, Goto, Steps
<1>2. LockHeld' /\ Called' /\ Answered' /\ InProgress' /\ ExactlyOnce'
  <2>1. /\ pc[p] \notin InTransaction /\ "replying" \in Steps \ InTransaction
        /\ pc' = [pc EXCEPT ![p] = "replying"] /\ call' = [call EXCEPT ![p] = call[p]]
        /\ UNCHANGED <<db, tx, owner>>
        /\ call[p].command \in CommandIds /\ call[p].request \in Requests
        /\ pc[p] \in {"leaving", "replying"}
    BY DEF Inv, TypeOK, Called, Leave, Goto, InTransaction, Steps, Admitted
  <2> QED BY <2>1, Outside
<1>3. RepliesAreDurable'
  BY DEF Inv, RepliesAreDurable, Leave
<1> QED BY <1>1, <1>2, <1>3 DEF Inv

(* The answer given is the durable one. *)
LEMMA ReplyInv ==
    ASSUME Inv, NEW p \in Callers, Reply(p)
    PROVE  Inv'
<1>1. Durable(call[p].command, call[p].request, call[p].response)
  BY DEF Inv, Answered, Reply
<1>2. call[p] \in [command : CommandIds, request : Requests, response : Nat]
  BY <1>1 DEF Inv, TypeOK, Called, Reply, Durable
<1>3. TypeOK'
  BY <1>2 DEF Inv, TypeOK, Reply, Return, Goto, Steps, NoCall
<1>4. LockHeld' /\ Called' /\ Answered' /\ InProgress' /\ ExactlyOnce'
  <2>1. /\ pc[p] \notin InTransaction /\ "idle" \in Steps \ InTransaction
        /\ pc' = [pc EXCEPT ![p] = "idle"] /\ call' = [call EXCEPT ![p] = NoCall]
        /\ UNCHANGED <<db, tx, owner>>
    BY DEF Reply, Return, Goto, InTransaction, Steps, Admitted
  <2> QED BY <2>1, Outside
<1>5. RepliesAreDurable'
  BY <1>1 DEF Inv, RepliesAreDurable, Reply, Durable
<1> QED BY <1>3, <1>4, <1>5 DEF Inv

-----------------------------------------------------------------------------
(* Steps inside a transaction. *)

(* The caller that holds the lock, or takes it, is the only one whose      *)
(* progress has to be shown.                                               *)
LEMMA Inside ==
    ASSUME Inv, NEW p \in Callers, owner \in {None, p}, owner' = p,
           pc[p] # "idle", NEW step \in InTransaction, pc' = [pc EXCEPT ![p] = step],
           NEW k, call' = [call EXCEPT ![p] = k],
           k.command = call[p].command, k.request = call[p].request,
           UNCHANGED <<db, replies>>, Progress(p)'
    PROVE  /\ LockHeld' /\ Called' /\ Answered' /\ InProgress'
           /\ ExactlyOnce' /\ RepliesAreDurable'
<1>1. /\ pc'[p] = step /\ call'[p] = k
      /\ \A q \in Callers \ {p} : pc'[q] = pc[q] /\ call'[q] = call[q]
  BY DEF Inv, TypeOK
<1>2. \A q \in Callers \ {p} : pc[q] \notin InTransaction
  BY BoundaryAssumption DEF Inv, LockHeld
<1>3. LockHeld'
  BY <1>1, <1>2 DEF LockHeld
<1>4. Called'
  BY <1>1 DEF Inv, Called
<1>5. Answered'
  BY <1>1 DEF Inv, Answered, Durable, InTransaction
<1>6. InProgress'
  BY <1>1, <1>2 DEF InProgress
<1>7. ExactlyOnce' /\ RepliesAreDurable'
  BY DEF Inv, ExactlyOnce, Whole, RepliesAreDurable
<1> QED BY <1>3, <1>4, <1>5, <1>6, <1>7

(* BEGIN IMMEDIATE is granted. *)
LEMMA BeginInv ==
    ASSUME Inv, NEW p \in Callers, Begin(p)
    PROVE  Inv'
<1>1. TypeOK'
  BY DEF Inv, TypeOK, Begin, Goto, Steps, Admitted, InTransaction
<1>2. /\ owner = None /\ owner' = p /\ pc[p] # "idle"
      /\ "open" \in InTransaction /\ pc' = [pc EXCEPT ![p] = "open"]
      /\ call' = [call EXCEPT ![p] = call[p]] /\ UNCHANGED <<db, replies>>
  BY DEF Inv, TypeOK, Begin, Goto, InTransaction
<1>3. Progress(p)'
  BY DEF Inv, TypeOK, Begin, Goto, Progress
<1> QED BY <1>1, <1>2, <1>3, Inside DEF Inv

(* The receipt lookup, with or without a replay. *)
LEMMA LookupInv ==
    ASSUME Inv, NEW p \in Callers, Lookup(p)
    PROVE  Inv'
<1> DEFINE c == call[p].command
           k == [call[p] EXCEPT !.response = tx.results[c]]
<1>1. /\ owner = p /\ tx = db /\ c \in CommandIds /\ pc[p] = "open"
      /\ UNCHANGED <<db, tx, owner, gate, replies, faults>>
  BY DEF Inv, LockHeld, Called, InProgress, Progress, InTransaction, Lookup
<1>2. CASE /\ tx.receipts[c] # None /\ ReplayMatches(p) /\ tx.results[c] # None
           /\ call' = [call EXCEPT ![p].response = tx.results[c]]
           /\ Goto(p, "committing")
  <2>1. /\ tx.results[c] \in Nat \cup {None}
        /\ call[p] \in [command : CommandIds \cup {None}, request : Requests \cup {None},
                       response : Nat \cup {None}]
    BY <1>1 DEF Inv, TypeOK, Database
  <2>2. /\ k \in [command : CommandIds \cup {None}, request : Requests \cup {None},
                  response : Nat \cup {None}]
        /\ k.command = c /\ k.request = call[p].request /\ k.response = tx.results[c]
    BY <2>1
  <2>3. call' = [call EXCEPT ![p] = k]
    BY <1>2 DEF Inv, TypeOK
  <2> HIDE DEF k
  <2>4. TypeOK'
    BY <1>1, <1>2, <2>2, <2>3 DEF Inv, TypeOK, Goto, Steps, Admitted, InTransaction
  <2>5. pc' = [pc EXCEPT ![p] = "committing"] /\ "committing" \in InTransaction
    BY <1>2 DEF Goto, InTransaction
  <2>6. pc'[p] = "committing" /\ call'[p] = k
    BY <2>3, <2>5 DEF Inv, TypeOK
  <2>7. Progress(p)'
    BY <1>1, <1>2, <2>2, <2>6 DEF Progress, Durable, ReplayMatches
  <2> QED BY <1>1, <2>2, <2>3, <2>4, <2>5, <2>7, Inside DEF Inv
<1>3. CASE tx.receipts[c] = None /\ Goto(p, "fresh") /\ UNCHANGED call
  <2>1. TypeOK'
    BY <1>1, <1>3 DEF Inv, TypeOK, Goto, Steps, Admitted, InTransaction
  <2>2. /\ pc' = [pc EXCEPT ![p] = "fresh"] /\ "fresh" \in InTransaction
        /\ call' = [call EXCEPT ![p] = call[p]]
    BY <1>3 DEF Goto, InTransaction, Inv, TypeOK
  <2>3. Progress(p)'
    BY <1>1, <1>3 DEF Progress, Inv, TypeOK, Goto
  <2> QED BY <1>1, <2>1, <2>2, <2>3, Inside DEF Inv
<1> QED BY <1>2, <1>3 DEF Lookup

(* A step that writes to the transaction, under the name of its outcome. *)
LEMMA WriteInv ==
    ASSUME Inv, NEW p \in Callers, pc[p] \in InTransaction,
           NEW step \in InTransaction, Goto(p, step),
           tx' \in Database, UNCHANGED <<db, owner, gate, call, replies, faults>>,
           Progress(p)'
    PROVE  Inv'
<1>1. TypeOK'
  BY DEF Inv, TypeOK, Goto, Steps, Admitted
<1>2. /\ owner = p /\ pc' = [pc EXCEPT ![p] = step]
      /\ call' = [call EXCEPT ![p] = call[p]] /\ pc[p] # "idle"
  BY DEF Inv, TypeOK, LockHeld, Goto, InTransaction
<1> QED BY <1>1, <1>2, Inside DEF Inv

(* The receipt is inserted. *)
LEMMA PrepareInv ==
    ASSUME Inv, NEW p \in Callers, NEW kind \in {"no_change", "material"}, Prepare(p, kind)
    PROVE  Inv'
<1> DEFINE c == call[p].command
           r == call[p].request
           step == IF kind = "material" THEN "applying" ELSE "answering"
<1>1. /\ c \in CommandIds /\ r \in Requests /\ db \in Database
      /\ tx = db /\ db.receipts[c] = None
  BY DEF Inv, TypeOK, Called, InProgress, Progress, InTransaction, Prepare
<1>2. tx' = WithReceipt(db, c, r, kind)
  BY <1>1 DEF Prepare, WithReceipt
<1>3. tx' \in Database
  BY <1>1, <1>2, ReceiptWritten
<1>4. pc'[p] = step /\ UNCHANGED <<db, call>> /\ pc[p] \in InTransaction
  BY DEF Inv, TypeOK, Prepare, Goto, InTransaction
<1>5. Progress(p)'
  BY <1>1, <1>2, <1>4 DEF Progress, Prepared
<1>6. step \in InTransaction
  BY DEF InTransaction
<1> QED BY <1>3, <1>4, <1>5, <1>6, WriteInv DEF Prepare

(* The mutation is applied. *)
LEMMA ApplyInv ==
    ASSUME Inv, NEW p \in Callers, Apply(p)
    PROVE  Inv'
<1> DEFINE c == call[p].command
           r == call[p].request
<1>1. /\ c \in CommandIds /\ r \in Requests /\ tx \in Database
      /\ tx = WithReceipt(db, c, r, "material") /\ db.receipts[c] = None
  BY DEF Inv, TypeOK, Called, InProgress, Progress, InTransaction, Apply
<1>2. tx' = WithApply(tx, c)
  BY DEF Apply, WithApply
<1>3. tx' \in Database
  BY <1>1, <1>2, ApplyWritten
<1>4. /\ pc'[p] = "auditing" /\ UNCHANGED <<db, call>>
      /\ pc[p] \in InTransaction /\ "auditing" \in InTransaction
  BY DEF Inv, TypeOK, Apply, Goto, InTransaction
<1>5. Progress(p)'
  BY <1>1, <1>2, <1>4 DEF Progress
<1> QED BY <1>3, <1>4, <1>5, WriteInv DEF Apply

(* The audit events are written. *)
LEMMA WriteAuditInv ==
    ASSUME Inv, NEW p \in Callers, WriteAudit(p)
    PROVE  Inv'
<1> DEFINE c == call[p].command
           r == call[p].request
<1>1. /\ c \in CommandIds /\ r \in Requests /\ tx \in Database
      /\ tx = WithApply(WithReceipt(db, c, r, "material"), c) /\ db.receipts[c] = None
  BY DEF Inv, TypeOK, Called, InProgress, Progress, InTransaction, WriteAudit
<1>2. tx' = WithAudit(tx, c)
  BY DEF WriteAudit, WithAudit
<1>3. tx' \in Database
  BY <1>1, <1>2, AuditWritten
<1>4. /\ pc'[p] = "answering" /\ UNCHANGED <<db, call>>
      /\ pc[p] \in InTransaction /\ "answering" \in InTransaction
  BY DEF Inv, TypeOK, WriteAudit, Goto, InTransaction
<1>5. Progress(p)'
  BY <1>1, <1>2, <1>4 DEF Progress, Prepared
<1> QED BY <1>3, <1>4, <1>5, WriteInv DEF WriteAudit

(* The answer is stored. *)
LEMMA StoreResultInv ==
    ASSUME Inv, NEW p \in Callers, StoreResult(p)
    PROVE  Inv'
<1> DEFINE c == call[p].command
           r == call[p].request
           k == [call[p] EXCEPT !.response = tx.version]
<1>1. /\ c \in CommandIds /\ r \in Requests /\ tx \in Database /\ owner = p
      /\ db.receipts[c] = None /\ Prepared(c, r) /\ pc[p] = "answering"
      /\ UNCHANGED <<db, owner, gate, replies, faults>>
  BY DEF Inv, TypeOK, LockHeld, Called, InProgress, Progress, InTransaction, StoreResult
<1>2. tx' = WithResult(tx, c)
  BY DEF StoreResult, WithResult
<1>3. tx' \in Database /\ tx'.version = tx.version /\ tx.version \in Nat
  <2>1. tx.version \in Nat
    BY <1>1 DEF Database
  <2> QED BY <1>1, <1>2, <2>1, ResultWritten
<1>4. /\ k \in [command : CommandIds \cup {None}, request : Requests \cup {None},
                response : Nat \cup {None}]
      /\ k.command = c /\ k.request = r /\ k.response = tx.version
  <2>1. call[p] \in [command : CommandIds \cup {None}, request : Requests \cup {None},
                    response : Nat \cup {None}]
    BY DEF Inv, TypeOK
  <2> QED BY <2>1, <1>3
<1>5. call' = [call EXCEPT ![p] = k] /\ pc' = [pc EXCEPT ![p] = "committing"]
  BY DEF Inv, TypeOK, StoreResult, Goto
<1> HIDE DEF k
<1>6. call'[p] = k /\ pc'[p] = "committing"
  BY <1>5 DEF Inv, TypeOK
<1>7. TypeOK'
  BY <1>1, <1>3, <1>4, <1>5 DEF Inv, TypeOK, Steps, Admitted, InTransaction
<1>8. Progress(p)'
  <2>1. /\ db'.receipts[c] = None
        /\ k.response = tx'.version
        /\ \E t \in {WithReceipt(db, c, r, "no_change"),
                     WithAudit(WithApply(WithReceipt(db, c, r, "material"), c), c)} :
              tx' = WithResult(t, c)
    BY <1>1, <1>2, <1>3, <1>4 DEF Prepared
  <2> QED BY <2>1, <1>1, <1>4, <1>6 DEF Progress
<1>9. "committing" \in InTransaction /\ pc[p] # "idle"
  BY <1>1 DEF InTransaction
<1> QED BY <1>1, <1>4, <1>5, <1>7, <1>8, <1>9, Inside DEF Inv

(* COMMIT: nothing that was durable changes, and the answer becomes durable. *)
LEMMA CommitInv ==
    ASSUME Inv, NEW p \in Callers, Commit(p)
    PROVE  Inv'
<1> DEFINE c == call[p].command
           r == call[p].request
<1>1. /\ pc[p] = "committing" /\ db' = tx /\ owner' = None /\ owner = p
      /\ pc' = [pc EXCEPT ![p] = "leaving"]
      /\ UNCHANGED <<tx, gate, call, replies, faults>>
  BY DEF Inv, LockHeld, Commit, Goto, InTransaction
<1>2. /\ \A q \in Callers \ {p} : pc[q] \notin InTransaction
      /\ \A q \in Callers : pc'[q] = IF q = p THEN "leaving" ELSE pc[q]
  BY <1>1 DEF Inv, TypeOK, LockHeld
<1>3. TypeOK'
  BY <1>1 DEF Inv, TypeOK, Steps, Admitted
<1>4. LockHeld'
  BY <1>1, <1>2, BoundaryAssumption DEF LockHeld, InTransaction
<1>5. Called'
  BY <1>1, <1>2 DEF Inv, Called
<1>6. InProgress'
  BY <1>2 DEF InProgress, InTransaction
<1>7. /\ \A d \in CommandIds : Whole(tx, d)
      /\ \/ tx = db /\ Durable(c, r, call[p].response)
         \/ Decided(c, r, call[p].response)
  BY <1>1, CommitOutcome
<1>8. ExactlyOnce'
  BY <1>1, <1>7 DEF ExactlyOnce, Whole
<1>9. c \in CommandIds /\ r \in Requests /\ db \in Database /\ tx \in Database
  BY <1>1 DEF Inv, TypeOK, Called
<1>10. \A d \in CommandIds : db.receipts[d] # None =>
          tx.receipts[d] = db.receipts[d] /\ tx.results[d] = db.results[d]
  BY <1>7, <1>9 DEF Decided, Database
<1>11. /\ tx.receipts[c] # None /\ tx.receipts[c].request = r
       /\ tx.results[c] = call[p].response /\ call[p].response # None
  <2>1. CASE tx = db /\ Durable(c, r, call[p].response)
    BY <2>1 DEF Durable
  <2>2. CASE Decided(c, r, call[p].response)
    <3>1. PICK kind \in {"no_change", "material"} :
             tx.receipts = [db.receipts EXCEPT ![c] = [request |-> r, kind |-> kind]]
      BY <2>2 DEF Decided
    <3>2. [request |-> r, kind |-> kind] # None
      BY <1>9, BoundaryAssumption
    <3>3. tx.receipts[c] = [request |-> r, kind |-> kind]
      BY <3>1, <1>9 DEF Database
    <3>4. tx.results[c] = tx.version /\ tx.version \in Nat /\ call[p].response = tx.version
      BY <2>2, <1>9 DEF Decided, Database
    <3> QED BY <3>2, <3>3, <3>4, BoundaryAssumption
  <2> QED BY <1>7, <2>1, <2>2
<1>12. Answered'
  <2> SUFFICES ASSUME NEW q \in Callers, pc'[q] \in {"leaving", "replying"}
               PROVE  Durable(call[q].command, call[q].request, call[q].response)'
    BY <1>1 DEF Answered
  <2>1. CASE q = p
    BY <2>1, <1>1, <1>11 DEF Durable
  <2>2. CASE q # p
    <3>1. /\ call[q].command \in CommandIds
          /\ Durable(call[q].command, call[q].request, call[q].response)
      BY <2>2, <1>2 DEF Inv, Called, Answered
    <3> QED BY <3>1, <1>1, <1>10 DEF Durable
  <2> QED BY <2>1, <2>2
<1>13. RepliesAreDurable'
  <2> SUFFICES ASSUME NEW x \in replies
               PROVE  /\ tx.receipts[x.command] # None
                      /\ tx.receipts[x.command].request = x.request
                      /\ tx.results[x.command] = x.response
    BY <1>1 DEF RepliesAreDurable
  <2>1. x.command \in CommandIds
    BY DEF Inv, TypeOK
  <2> QED BY <2>1, <1>10 DEF Inv, RepliesAreDurable
<1> QED BY <1>3, <1>4, <1>5, <1>6, <1>8, <1>12, <1>13 DEF Inv

(* An exception rolls the transaction back. *)
LEMMA RaiseInv ==
    ASSUME Inv, NEW p \in Callers, Raise(p)
    PROVE  Inv'
<1>1. /\ owner = p /\ owner' = None /\ tx' = db
      /\ pc' = [pc EXCEPT ![p] = "failing"]
      /\ UNCHANGED <<db, gate, call, replies, faults>>
  BY DEF Inv, LockHeld, Raise, Goto
<1>2. /\ \A q \in Callers \ {p} : pc[q] \notin InTransaction
      /\ \A q \in Callers : pc'[q] = IF q = p THEN "failing" ELSE pc[q]
  BY <1>1 DEF Inv, TypeOK, LockHeld
<1>3. TypeOK'
  BY <1>1 DEF Inv, TypeOK, Steps, Admitted
<1>4. LockHeld'
  BY <1>1, <1>2, BoundaryAssumption DEF LockHeld, InTransaction
<1>5. Called'
  BY <1>1, <1>2 DEF Inv, Called, Raise, InTransaction
<1>6. InProgress'
  BY <1>2 DEF InProgress, InTransaction
<1>7. Answered'
  BY <1>1, <1>2 DEF Inv, Answered, Durable
<1>8. ExactlyOnce' /\ RepliesAreDurable'
  BY <1>1 DEF Inv, ExactlyOnce, Whole, RepliesAreDurable
<1> QED BY <1>3, <1>4, <1>5, <1>6, <1>7, <1>8 DEF Inv

(* A crash leaves the committed database alone. *)
LEMMA CrashInv ==
    ASSUME Inv, Crash
    PROVE  Inv'
<1>1. TypeOK'
  BY DEF Inv, TypeOK, Crash, Steps, NoCall
<1>2. LockHeld' /\ Called' /\ Answered' /\ InProgress'
  BY BoundaryAssumption DEF Crash, LockHeld, Called, Answered, InProgress, InTransaction
<1>3. ExactlyOnce' /\ RepliesAreDurable'
  BY DEF Inv, Crash, ExactlyOnce, Whole, RepliesAreDurable
<1> QED BY <1>1, <1>2, <1>3 DEF Inv

(* Opening and closing the gate touches no command; neither does stuttering. *)
LEMMA GateInv ==
    ASSUME Inv, Quiesce \/ Reopen \/ UNCHANGED vars
    PROVE  Inv'
<1>1. UNCHANGED <<db, tx, owner, pc, call, replies>>
  BY DEF Quiesce, Reopen, vars
<1>2. TypeOK'
  <2>1. gate \in [accepting : BOOLEAN, active : Nat] /\ faults \in [crashes : Nat, quiesces : Nat]
    BY DEF Inv, TypeOK
  <2>2. gate' \in [accepting : BOOLEAN, active : Nat]
    BY <2>1 DEF Quiesce, Reopen, vars
  <2>3. faults' \in [crashes : Nat, quiesces : Nat]
    BY <2>1 DEF Quiesce, Reopen, vars
  <2> QED BY <1>1, <2>2, <2>3 DEF Inv, TypeOK
<1>3. LockHeld' /\ Called' /\ Answered'
  BY <1>1 DEF Inv, LockHeld, Called, Answered, Durable
<1>4. InProgress'
  BY <1>1, ProgressKept DEF Inv, InProgress
<1>5. ExactlyOnce' /\ RepliesAreDurable'
  BY <1>1 DEF Inv, ExactlyOnce, Whole, RepliesAreDurable
<1> QED BY <1>2, <1>3, <1>4, <1>5 DEF Inv

-----------------------------------------------------------------------------
(* The gate's counter. *)

(* The callers inside the gate. *)
Insiders == {p \in Callers : pc[p] \in Admitted}

(* The callers inside the gate are finitely many, and there is one when    *)
(* the counter is not zero, and only then.                                 *)
LEMMA InsidersFinite ==
    ASSUME TypeOK, Counted
    PROVE  /\ IsFiniteSet(Insiders)
           /\ gate.active = Cardinality(Insiders)
           /\ (gate.active = 0) <=> (Insiders = {})
<1>1. IsFiniteSet(Insiders)
  BY FS_Subset, BoundaryAssumption DEF Insiders
<1>2. gate.active = Cardinality(Insiders)
  BY DEF Counted, Insiders
<1> QED BY <1>1, <1>2, FS_EmptySet

(* One caller enters, leaves or stays: the counter follows. *)
LEMMA CountedStep ==
    ASSUME TypeOK, Counted, NEW p \in Callers, NEW step, pc' = [pc EXCEPT ![p] = step],
           \/ pc[p] \notin Admitted /\ step \in Admitted /\ gate'.active = gate.active + 1
           \/ pc[p] \in Admitted /\ step \notin Admitted /\ gate'.active = gate.active - 1
           \/ (pc[p] \in Admitted <=> step \in Admitted) /\ gate'.active = gate.active
    PROVE  Counted'
<1>1. IsFiniteSet(Insiders) /\ gate.active = Cardinality(Insiders)
  BY InsidersFinite
<1>2. \A q \in Callers : pc'[q] = IF q = p THEN step ELSE pc[q]
  BY DEF TypeOK
<1>3. CASE pc[p] \notin Admitted /\ step \in Admitted /\ gate'.active = gate.active + 1
  <2>1. Insiders' = Insiders \cup {p} /\ p \notin Insiders
    BY <1>2, <1>3 DEF Insiders
  <2> QED BY <1>1, <1>3, <2>1, FS_AddElement DEF Counted, Insiders
<1>4. CASE pc[p] \in Admitted /\ step \notin Admitted /\ gate'.active = gate.active - 1
  <2>1. Insiders' = Insiders \ {p} /\ p \in Insiders
    BY <1>2, <1>4 DEF Insiders
  <2> QED BY <1>1, <1>4, <2>1, FS_RemoveElement DEF Counted, Insiders
<1>5. CASE (pc[p] \in Admitted <=> step \in Admitted) /\ gate'.active = gate.active
  <2>1. Insiders' = Insiders
    BY <1>2, <1>5 DEF Insiders
  <2> QED BY <1>1, <1>5, <2>1 DEF Counted, Insiders
<1> QED BY <1>3, <1>4, <1>5

(* The steps in which one caller moves. *)
CallerStep(p) ==
    \/ \E c \in CommandIds, r \in Requests : Submit(p, c, r)
    \/ Admit(p) \/ Refuse(p) \/ UnitOfWorkStep(p) \/ Reply(p) \/ LoseReply(p)

(* Every step of a caller keeps the counter right. *)
LEMMA CallerCounted ==
    ASSUME TypeOK, Counted, NEW p \in Callers, CallerStep(p)
    PROVE  Counted'
<1>1. \E step : /\ pc' = [pc EXCEPT ![p] = step]
                /\ \/ pc[p] \notin Admitted /\ step \in Admitted /\ gate'.active = gate.active + 1
                   \/ pc[p] \in Admitted /\ step \notin Admitted /\ gate'.active = gate.active - 1
                   \/ (pc[p] \in Admitted <=> step \in Admitted) /\ gate'.active = gate.active
  <2> USE DEF Admitted, InTransaction, Goto, Return
  <2>1. CASE \E c \in CommandIds, r \in Requests : Submit(p, c, r)
    BY <2>1 DEF Submit
  <2>2. CASE Admit(p)
    BY <2>2 DEF Admit, TypeOK
  <2>3. CASE Refuse(p) \/ Reply(p) \/ LoseReply(p)
    BY <2>3 DEF Refuse, Reply, LoseReply
  <2>4. CASE Begin(p) \/ BeginFails(p) \/ Lookup(p) \/ Apply(p) \/ WriteAudit(p)
    BY <2>4 DEF Begin, BeginFails, Lookup, Apply, WriteAudit
  <2>5. CASE \E kind \in {"no_change", "material"} : Prepare(p, kind)
    BY <2>5 DEF Prepare
  <2>6. CASE StoreResult(p) \/ Commit(p) \/ Raise(p)
    BY <2>6 DEF StoreResult, Commit, Raise
  <2>7. CASE Leave(p) \/ LeaveFailing(p)
    BY <2>7 DEF Leave, LeaveFailing, TypeOK
  <2> QED BY <2>1, <2>2, <2>3, <2>4, <2>5, <2>6, <2>7 DEF CallerStep, UnitOfWorkStep
<1> QED BY <1>1, CountedStep

-----------------------------------------------------------------------------
(* The theorems. *)

FullInv == Inv /\ Counted

(* Every step keeps the whole invariant. *)
LEMMA StepInv ==
    ASSUME FullInv, [Next]_vars
    PROVE  FullInv'
<1>0. Inv /\ Counted /\ TypeOK
  BY DEF FullInv, Inv
<1>1. ASSUME NEW p \in Callers, CallerStep(p) PROVE FullInv'
  <2>1. Counted'
    BY <1>0, <1>1, CallerCounted
  <2>2. pc[p] \in Admitted => gate.active > 0
    <3>1. pc[p] \in Admitted => Insiders # {}
      BY DEF Insiders
    <3> QED BY <3>1, <1>0, InsidersFinite DEF TypeOK
  <2>3. Inv'
    <3>1. CASE \E c \in CommandIds, r \in Requests : Submit(p, c, r)
      BY <1>0, <3>1, SubmitInv
    <3>2. CASE Admit(p) \/ BeginFails(p) \/ Begin(p)
      BY <1>0, <3>2, AdmitInv, BeginFailsInv, BeginInv
    <3>3. CASE Refuse(p) \/ LoseReply(p) \/ LeaveFailing(p)
      <4>1. LeaveFailing(p) => gate.active > 0
        BY <2>2 DEF LeaveFailing, Admitted
      <4> QED BY <1>0, <3>3, <4>1, ReturnInv
    <3>4. CASE Leave(p)
      <4>1. gate.active > 0
        BY <3>4, <2>2 DEF Leave, Admitted
      <4> QED BY <1>0, <3>4, <4>1, LeaveInv
    <3>5. CASE \E kind \in {"no_change", "material"} : Prepare(p, kind)
      BY <1>0, <3>5, PrepareInv
    <3>6. CASE Lookup(p) \/ Apply(p) \/ WriteAudit(p) \/ StoreResult(p)
      BY <1>0, <3>6, LookupInv, ApplyInv, WriteAuditInv, StoreResultInv
    <3>7. CASE Commit(p) \/ Raise(p) \/ Reply(p)
      BY <1>0, <3>7, CommitInv, RaiseInv, ReplyInv
    <3> QED BY <1>1, <3>1, <3>2, <3>3, <3>4, <3>5, <3>6, <3>7 DEF CallerStep, UnitOfWorkStep
  <2> QED BY <2>1, <2>3 DEF FullInv
<1>2. CASE Crash
  <2>1. {p \in Callers : pc'[p] \in Admitted} = {}
    BY <1>2 DEF Crash, Admitted, InTransaction
  <2>2. Counted'
    BY <1>2, <2>1, FS_EmptySet DEF Crash, Counted
  <2> QED BY <1>0, <1>2, <2>2, CrashInv DEF FullInv
<1>3. CASE Quiesce \/ Reopen \/ UNCHANGED vars
  <2>1. pc' = pc /\ gate'.active = gate.active
    BY <1>0, <1>3 DEF Quiesce, Reopen, vars, TypeOK
  <2> QED BY <1>0, <1>3, <2>1, GateInv DEF FullInv, Counted
<1> QED BY <1>1, <1>2, <1>3 DEF Next, CallerStep

(* The initial states satisfy it. *)
LEMMA InitInv ==
    ASSUME Init
    PROVE  FullInv
<1>1. PICK receipts \in [CommandIds -> [request : Requests, kind : {"legacy"}] \cup {None}] :
         db = [receipts |-> receipts,
               results  |-> [c \in CommandIds |-> None],
               applied  |-> [c \in CommandIds |-> 0],
               audits   |-> [c \in CommandIds |-> 0],
               version  |-> 0]
  BY DEF Init
<1>2. db \in Database
  BY <1>1 DEF Database, Receipt, Kinds
<1>3. TypeOK
  BY <1>2 DEF Init, TypeOK, Steps, NoCall
<1>4. LockHeld /\ Called /\ Answered /\ InProgress
  BY BoundaryAssumption DEF Init, LockHeld, Called, Answered, InProgress, InTransaction
<1>5. RepliesAreDurable
  BY DEF Init, RepliesAreDurable
<1>6. ASSUME NEW c \in CommandIds PROVE Whole(db, c)
  <2>1. /\ db.receipts[c] \in [request : Requests, kind : {"legacy"}] \cup {None}
        /\ db.results[c] = None /\ db.applied[c] = 0 /\ db.audits[c] = 0
    BY <1>1
  <2> QED BY <2>1 DEF Whole
<1>7. {p \in Callers : pc[p] \in Admitted} = {}
  BY DEF Init, Admitted, InTransaction
<1>8. Counted
  BY <1>7, FS_EmptySet DEF Init, Counted
<1> QED BY <1>3, <1>4, <1>5, <1>6, <1>8 DEF FullInv, Inv, ExactlyOnce

(* The inductive invariant of the command boundary. *)
THEOREM BoundaryInvariant == Spec => []FullInv
BY InitInv, StepInv, PTL DEF Spec

(* Every reachable state of the tables, the gate and the callers is typed. *)
THEOREM BoundaryTyped == Spec => []TypeOK
<1>1. FullInv => TypeOK
  BY DEF FullInv, Inv
<1> QED BY <1>1, BoundaryInvariant, PTL

(* A command identifier is applied, audited and answered once and whole,   *)
(* whatever raises, crashes or is repeated.                                *)
THEOREM ExactlyOnceHolds == Spec => []ExactlyOnce
<1>1. FullInv => ExactlyOnce
  BY DEF FullInv, Inv
<1> QED BY <1>1, BoundaryInvariant, PTL

(* Every answer ever given is the durable one of the request it answers. *)
THEOREM RepliesHold == Spec => []RepliesAreDurable
<1>1. FullInv => RepliesAreDurable
  BY DEF FullInv, Inv
<1> QED BY <1>1, BoundaryInvariant, PTL

(* A closed gate that reports zero writers means no open transaction. *)
THEOREM DrainedHolds == Spec => []DrainedIsQuiet
<1>1. FullInv => DrainedIsQuiet
  <2> SUFFICES ASSUME FullInv, gate.active = 0, owner # None PROVE FALSE
    BY DEF DrainedIsQuiet
  <2>1. owner \in Callers /\ pc[owner] \in Admitted
    BY DEF FullInv, Inv, TypeOK, LockHeld, Admitted
  <2>2. Insiders = {}
    BY InsidersFinite DEF FullInv, Inv
  <2> QED BY <2>1, <2>2 DEF Insiders
<1> QED BY <1>1, BoundaryInvariant, PTL

-----------------------------------------------------------------------------
(* Refinement. *)

(* A COMMIT decides one command, or repeats a decision. *)
LEMMA CommitDecides ==
    ASSUME FullInv, NEW p \in Callers, Commit(p)
    PROVE  Ledger!Next \/ UNCHANGED Ledger!vars
<1> DEFINE c == call[p].command
           r == call[p].request
           L(d) == [x \in CommandIds |->
                      IF d.receipts[x] = None THEN None
                      ELSE [request |-> d.receipts[x].request, response |-> d.results[x]]]
<1>1. /\ c \in CommandIds /\ r \in Requests /\ db \in Database /\ tx \in Database
      /\ db' = tx /\ replies' = replies
  BY DEF FullInv, Inv, TypeOK, Called, Commit
<1>2. \/ tx = db
      \/ Decided(c, r, call[p].response)
  BY CommitOutcome DEF FullInv, Commit
<1>3. CASE tx = db
  BY <1>1, <1>3 DEF Ledger!vars
<1>4. CASE Decided(c, r, call[p].response)
  <2>1. PICK kind \in {"no_change", "material"} :
           tx.receipts = [db.receipts EXCEPT ![c] = [request |-> r, kind |-> kind]]
    BY <1>4 DEF Decided
  <2>2. [request |-> r, kind |-> kind] # None
    BY <1>1, BoundaryAssumption
  <2>3. /\ db.receipts[c] = None /\ tx.results = [db.results EXCEPT ![c] = tx.version]
        /\ tx.version \in {db.version, db.version + 1} /\ db.version \in Nat
    BY <1>1, <1>4 DEF Decided, Database
  <2>4. L(tx) = [L(db) EXCEPT ![c] = [request |-> r, response |-> tx.version]]
    <3> DEFINE g == [request |-> r, response |-> tx.version]
    <3>1. /\ tx.receipts[c] = [request |-> r, kind |-> kind]
          /\ tx.results[c] = tx.version
          /\ \A x \in CommandIds \ {c} : /\ tx.receipts[x] = db.receipts[x]
                                        /\ tx.results[x] = db.results[x]
      BY <1>1, <2>1, <2>3 DEF Database
    <3>2. tx.receipts[c] # None /\ tx.receipts[c].request = r
      BY <3>1, <2>2
    <3>3. L(tx)[c] = g
      BY <3>1, <3>2, <1>1
    <3>4. \A x \in CommandIds \ {c} : L(tx)[x] = L(db)[x]
      BY <3>1
    <3>5. L(tx) = [x \in CommandIds |-> L(tx)[x]] /\ L(db) = [x \in CommandIds |-> L(db)[x]]
      OBVIOUS
    <3> HIDE DEF L, g
    <3>6. [L(db) EXCEPT ![c] = g] = [x \in CommandIds |-> IF x = c THEN g ELSE L(db)[x]]
      BY <3>5
    <3>7. L(tx) = [L(db) EXCEPT ![c] = g]
      BY <3>3, <3>4, <3>5, <3>6
    <3> QED BY <3>7 DEF g
  <2>5. L(db)[c] = None
    BY <1>1, <2>3
  <2>6. \E changes \in {0, 1} : tx.version = db.version + changes
    BY <2>3
  <2>7. \E changes \in {0, 1} : Ledger!Decide(c, r, changes)
    BY <1>1, <2>4, <2>5, <2>6 DEF Ledger!Decide
  <2> QED BY <1>1, <2>7 DEF Ledger!Next
<1> QED BY <1>2, <1>3, <1>4

(* An answer given is the ledger's. *)
LEMMA ReplyAnswers ==
    ASSUME FullInv, NEW p \in Callers, Reply(p)
    PROVE  Ledger!Next
<1> DEFINE c == call[p].command
<1>1. /\ Durable(c, call[p].request, call[p].response)
      /\ c \in CommandIds /\ db' = db /\ replies' = replies \cup {call[p]}
  BY DEF FullInv, Inv, Answered, Called, Reply
<1>2. call[p] = [command |-> c, request |-> call[p].request, response |-> call[p].response]
  BY DEF FullInv, Inv, TypeOK
<1> DEFINE L == [x \in CommandIds |->
                   IF db.receipts[x] = None THEN None
                   ELSE [request |-> db.receipts[x].request, response |-> db.results[x]]]
           g == [request |-> call[p].request, response |-> call[p].response]
<1>3. g # None
  <2>1. call[p].request \in Requests /\ call[p].response \in Nat
    BY <1>1 DEF FullInv, Inv, TypeOK, Called, Reply, Durable
  <2>2. g \in [request : Requests, response : Nat]
    BY <2>1
  <2> QED BY <2>2, BoundaryAssumption
<1>4. L[c] = g
  BY <1>1 DEF Durable
<1>5. L[c] # None /\ L[c].response # None
      /\ L[c].request = call[p].request /\ L[c].response = call[p].response
  BY <1>1, <1>3, <1>4 DEF Durable
<1>6. Ledger!Answer(c)
  BY <1>1, <1>2, <1>5 DEF Ledger!Answer
<1> QED BY <1>1, <1>6 DEF Ledger!Next

(* The boundary implements the abstract ledger: transactions, replays,     *)
(* exceptions, crashes and lost answers are invisible in it, except that a *)
(* COMMIT decides a command and an answer repeats a decision.              *)
THEOREM ImplementsLedger == Spec => LedgerSpec
<1>1. Init => Ledger!Init
  <2> SUFFICES ASSUME Init PROVE Ledger!Init
    OBVIOUS
  <2>1. PICK receipts \in [CommandIds -> [request : Requests, kind : {"legacy"}] \cup {None}] :
           /\ db.receipts = receipts
           /\ db.results = [c \in CommandIds |-> None] /\ db.version = 0
    BY DEF Init
  <2> QED BY <2>1 DEF Init, Ledger!Init
<1>2. FullInv /\ [Next]_vars => [Ledger!Next]_(Ledger!vars)
  <2> SUFFICES ASSUME FullInv, [Next]_vars PROVE [Ledger!Next]_(Ledger!vars)
    OBVIOUS
  <2>1. CASE \E p \in Callers : Commit(p)
    BY <2>1, CommitDecides
  <2>2. CASE \E p \in Callers : Reply(p)
    BY <2>2, ReplyAnswers
  <2>3. CASE /\ [Next]_vars
             /\ ~\E p \in Callers : Commit(p)
             /\ ~\E p \in Callers : Reply(p)
    <3>1. UNCHANGED <<db, replies>>
      BY <2>3 DEF Next, UnitOfWorkStep, vars, Submit, Admit, Refuse, LoseReply, Begin,
         BeginFails,
                  Lookup, Prepare, Apply, WriteAudit, StoreResult, Raise, Leave,
                     LeaveFailing,
                  Crash, Quiesce, Reopen
    <3> QED BY <3>1 DEF Ledger!vars
  <2> QED BY <2>1, <2>2, <2>3
<1> QED BY <1>1, <1>2, BoundaryInvariant, PTL DEF Spec, LedgerSpec, Ledger!Spec
=============================================================================
