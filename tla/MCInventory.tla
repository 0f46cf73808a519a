------------------------------- MODULE MCInventory -------------------------------
(* Small inventories: each behaviour uses the identifiers of one shape. *)
EXTENDS FaultTags, TLC

MCSrOf == [x \in Devices \cup Needs \cup Requests |-> "sr"]
MCBomOf == [x \in Devices \cup Needs \cup Units \cup Rmas |-> "bom"]
MCTaskSrs == [t \in Tasks |-> {"sr"}]

CONSTANTS n1, n2, u1, u2, q1, t1, t2, s1, s2, c1, c2, e1, p1

(* Needs and contributors; reservations and local fulfilment; requests, their *)
(* submission, authorisation and correction.                                    *)
StockShapes == {{1, n1, n2}, {n1, u1, t1, t2}, {1, n1, q1, s1, s2, 11, 12, c1, c2}, {n1, q1, p1}}
(* One RMA from authorisation to return, its units in stock and in transit. *)
ReturnShapes == {{1, 11, c2, u1, t1}, {11, u1, e1}, {11, u1, u2}, {1, 11, 21, u1, t1}}
(* Two open returns and the tags that carry them. *)
TagShapes == {{21, 22}, {21, p1}}

(* A request answered with the RMAs R for the parts 1 and 2, of which D were taken out. *)
Answered(R, D) ==
    /\ device = [d \in Devices |-> IF d \in D THEN "removed" ELSE IF d + 10 \in R THEN "faulty" ELSE None]
    /\ need = [n \in Needs |-> IF n = n1 THEN [NeedWithContributor(1) EXCEPT !.contributors = Registered]
                               ELSE None]
    /\ unit = [u \in Units |-> None] /\ reserved = [u \in Units |-> None]
    /\ request = [q \in Requests |-> IF q # q1 THEN None
          ELSE [Draft("soma_draft", n1 :> 1) EXCEPT !.state = "authorized", !.submitted = TRUE,
                  !.quantity = 1, !.sr7 = s1, !.authorized = Cardinality(R)]]
    /\ sr7Owner = [s \in Sr7s |-> IF s = s1 THEN q1 ELSE None]
    /\ c10Owner = [c \in C10s |-> IF c = c1 THEN 11 ELSE IF c = c2 /\ 12 \in R THEN 12 ELSE None]
    /\ logistics = [e \in Shipments |-> None]
    /\ touched = {q1}

Authorised(r) == Rma(q1, IF r = 11 THEN c1 ELSE c2, r - 10)

(* The task has taken the part out and nothing was put in. *)
Removal(r, d) == [disposition |-> "removed_only", rma |-> r, target |-> None, installed |-> None,
                  removed |-> d, inbound |-> None, parent |-> None]

OneRma ==
    /\ Answered({11}, {})
    /\ rma = [r \in Rmas |-> IF r = 11 THEN Authorised(11) ELSE None]
    /\ outcome = [t \in Tasks |-> None]
    /\ attention = {}

Returned(R) ==
    /\ Answered(R, {r - 10 : r \in R})
    /\ rma = [r \in Rmas |-> IF r \notin R THEN None
          ELSE [Authorised(r) EXCEPT !.state = "return_open", !.obligation = "open",
                  !.returned = r - 10, !.by = IF r = 11 THEN t1 ELSE t2]]
    /\ outcome = [t \in Tasks |-> IF t = t1 THEN Removal(11, 1)
                                   ELSE IF 12 \in R THEN Removal(12, 2) ELSE None]
    /\ attention = {<<"return_obligation_open", r>> : r \in R}

(* Two RMAs without a target, opened by two tasks that took the same part out. *)
ReturnedTwice ==
    /\ Answered({11, 12}, {1})
    /\ rma = [r \in Rmas |-> [Authorised(r) EXCEPT !.target = None, !.state = "return_open",
                  !.obligation = "open", !.returned = 1, !.by = IF r = 11 THEN t1 ELSE t2]]
    /\ outcome = [t \in Tasks |-> Removal(IF t = t1 THEN 11 ELSE 12, 1)]
    /\ attention = {"return_obligation_open", "rma_assignment_conflict"} \X Rmas

MCInit ==
    /\ TagInit
    /\ \/ StockInit /\ bound \in StockShapes
       \/ OneRma /\ bound \in ReturnShapes
       \/ Returned({11, 12}) /\ bound \in TagShapes
       \/ ReturnedTwice /\ bound = {21, 22}

MCSpec == MCInit /\ [][Next]_vars
==================================================================================
