------------------------------- MODULE MCTickets -------------------------------
(* Small sets of tickets: each behaviour starts empty, with a branch or with   *)
(* two roots, and uses some groups of the commands.                            *)
EXTENDS Tickets

CONSTANTS r1, r2, r3, s1, s2, c1, c2, w1, w2, p1, k1, k2, l1, o1, o2, e1

MCBatch == <<s1, s2>>
MCSorted == <<o1, o2>>
Export(x, y) == (o1 :> x) @@ (o2 :> y)
MCExports == {Export("exact", "exact"), Export("none", "exact"), Export("conflict", "exact"), Export("exact", "none")}
Symmetry == Permutations(Runs \ {e1})

(* r2 is subordinate to r1 and has a task to be done; c1 is the customer of some. *)
Branched(known) ==
    /\ rfc = [r \in Rfcs |-> [NewRfc(IF r \in known THEN c1 ELSE None, TRUE) EXCEPT
                                !.rev = IF r = r3 THEN 1 ELSE 2]]
    /\ parent = [r \in Rfcs |-> IF r = r2 THEN r1 ELSE None]
    /\ links = {} /\ ops = <<>> /\ last = [r \in Rfcs |-> None]
    /\ proj = [r \in Rfcs |-> None] /\ proposals = {}
    /\ wfm = [w \in Wfms |-> IF w = w1 THEN [rfc |-> r2, was |-> {}, rev |-> 1, work |-> "open"] ELSE None]

(* Service requests of c1. *)
Requested(S) ==
    /\ customer = [c \in Customers |-> "active"]
    /\ sr = [s \in SRs |-> IF s \in S THEN [NewRequest(None) EXCEPT !.customer = c1, !.rev = 2] ELSE None]

NoCatalog ==
    /\ line = [l \in Lines |-> None] /\ contract = [k \in Contracts |-> None]
    /\ cpl = [p \in Cpls |-> None] /\ mapping = [m \in Mappings |-> None]

(* A product line under a contract of c1. *)
Catalogued ==
    /\ line = [l \in Lines |-> "active"]
    /\ contract = [k \in Contracts |-> IF k = k1 THEN [customer |-> c1, state |-> "active", rev |-> 1] ELSE None]
    /\ cpl = [p \in Cpls |-> IF p = p1 THEN [contract |-> k1, line |-> l1, state |-> "active",
                                             rev |-> 1, policy |-> TRUE] ELSE None]
    /\ mapping = [m \in Mappings |-> None]

Unclassified ==
    /\ cls = [s \in SRs |-> None]
    /\ batch = <<>> /\ attempt = [a \in Attempts |-> None]
    /\ receipts = {} /\ events = [s \in SRs |-> 0] /\ summary = None

(* Each behaviour has five commands, or what is left of them. *)
MCInit ==
    /\ \/ /\ SrInit /\ RfcInit /\ NoCatalog
          /\ use \in {{"identity", "requests", s1, o1}, {"identity", "customer", "hierarchy"},
                      {"identity", "source", "tasks"}, {"catalog"}}
       \/ /\ \E known \in SUBSET Rfcs : Branched(known)
          /\ NoCatalog /\ Requested({s1})
          /\ cmd = 1 /\ use = {"customer", "hierarchy", s1}
       \/ /\ Branched({}) /\ NoCatalog /\ Requested({})
          /\ cmd = 0 /\ use \in {{"archive", "hierarchy"}, {"source", "hierarchy", "tasks"}}
       \/ /\ RfcInit /\ Catalogued /\ Requested({s1})
          /\ cmd = 0 /\ use = {"catalog", "classify", "requests", s1, o1}
       \/ /\ RfcInit /\ Catalogued /\ Requested({s1, s2})
          /\ cmd = 2 /\ use = {"catalog", "classify", "batch", s1}
    /\ Unclassified /\ PresenceInit

(* An accepted export has the number of s1; s2 may be given the other. *)
PresenceShape ==
    /\ RfcInit /\ NoCatalog /\ Unclassified
    /\ customer = [c \in Customers |-> "active"]
    /\ sr = [s \in SRs |-> NewRequest(IF s = s1 THEN o1 ELSE None)]
    /\ cmd = MaxCommands - 1 /\ use = {"presence", "requests", s2, o2}
    /\ population = [r \in Runs |-> IF r # e1 THEN None
                      ELSE [age |-> 1, class |-> "new", final |-> TRUE, rows |-> Export("exact", "exact")]]
    /\ accepted = [run |-> e1, age |-> 1]
    /\ absence = [r \in Runs |-> [n \in Official |-> None]]
    /\ presence = [s \in SRs |-> <<>>]
    /\ rjob = [r \in Runs |-> IF r = e1 THEN [Queued EXCEPT !.state = "completed", !.cursor = 2] ELSE None]
    /\ answered = {} /\ lost = 0

MCSpec == (MCInit \/ PresenceShape) /\ [][Next]_vars
================================================================================
