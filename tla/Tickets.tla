--------------------------------- MODULE Tickets ---------------------------------
(***************************************************************************)
(* The ticket components together: service requests, RFCs, classification    *)
(* and source presence share the service requests and the database, and any *)
(* command of one may come between two of another.  "use" restricts a        *)
(* behaviour to some groups of commands, service requests and numbers: a    *)
(* behaviour that may use everything is one of them.                        *)
(***************************************************************************)
EXTENDS SlaClassification, SourcePresence

vars == <<slaVars, presenceVars>>

Groups == {"requests", "identity", "customer", "hierarchy", "archive", "tasks", "source",
           "catalog", "classify", "batch", "presence"}

Init ==
    /\ SlaInit /\ PresenceInit
    /\ use \in SUBSET (Groups \cup SRs \cup Official)

Next ==
    \/ SlaNext /\ UNCHANGED presenceVars
    \/ "presence" \in use /\ PresenceNext /\ UNCHANGED slaVars

Spec == Init /\ [][Next]_vars
==================================================================================
