--------------------------- MODULE CommandLedger ----------------------------
(***************************************************************************)
(* What the command boundary promises its callers, without transactions,   *)
(* threads or failures: a command identifier is decided once, by one step  *)
(* that records the request, changes the domain at most once and fixes the *)
(* answer; whoever repeats the same request is given that answer, and      *)
(* nobody is answered before the decision.                                 *)
(***************************************************************************)
EXTENDS Integers

CONSTANTS CommandIds, Requests, None

VARIABLES
    ledger,   \* command id -> None or [request, response]
    version,  \* number of changes made to the domain
    replies   \* the answers given: [command, request, response]

vars == <<ledger, version, replies>>

(* Receipts from before answers were recorded have the answer None. *)
Init ==
    /\ ledger \in [CommandIds -> {None} \cup [request : Requests, response : {None}]]
    /\ version = 0
    /\ replies = {}

Decide(c, r, changes) ==
    /\ ledger[c] = None
    /\ version' = version + changes
    /\ ledger' = [ledger EXCEPT ![c] = [request |-> r, response |-> version']]
    /\ UNCHANGED replies

Answer(c) ==
    /\ ledger[c] # None
    /\ ledger[c].response # None
    /\ replies' = replies \cup {[command |-> c, request |-> ledger[c].request,
                                 response |-> ledger[c].response]}
    /\ UNCHANGED <<ledger, version>>

Next ==
    \/ \E c \in CommandIds, r \in Requests, changes \in {0, 1} : Decide(c, r, changes)
    \/ \E c \in CommandIds : Answer(c)

Spec == Init /\ [][Next]_vars
=============================================================================
