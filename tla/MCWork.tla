--------------------------------- MODULE MCWork ---------------------------------
(* Small plans of work: each behaviour uses the tasks, numbers and commands of *)
(* one shape.                                                                  *)
EXTENDS Grouping, TLC

CONSTANTS t1, t2, t3, w1, w2, w3, r1, r2, d1

MCIntervals == {<<1, 3>>, <<2, 4>>, <<3, 5>>}

Shape(use, plans, at) == [use |-> use, plans |-> plans, at |-> at]
One == {<<1, 3>>}
Two == {<<1, 3>>, <<2, 4>>}

(* From nothing: one task, two in one objective; provider tasks, their source, *)
(* history, lineages and retries; grouping.                                    *)
FreshShapes ==
    {Shape({t1, "plan work", "plan", "membership", d1, "execute"}, Two, {1, 2}),
     Shape({t1, "plan work", "plan", "execute", "objectives"}, Two, {1}),
     Shape({t1, w1, w2, r1, "source", "delete"}, Two, {1}),
     Shape({t1, w1, r1, "rfc", "source", "execute"}, One, {1}),
     Shape({t1, w1, r1, r2, "rfc"}, One, {1}),
     Shape({t1, w1, r1, "source", "objectives"}, One, {1}),
     Shape({t1, t2, w1, w2, r1, "lineage", "retry"}, One, {1}),
     Shape({t1, t2, t3, d1, "plan work", "retry", "delete"}, One, {1}),
     Shape({t1, t2, "group", "membership", "plan work"}, Two, {1})}

(* Objectives 1 and 2 touch in time; a third task is in the second, or not yet planned. *)
PlanOf(t) == IF t = t2 THEN <<3, 5>> ELSE <<1, 3>>
Grouped(t, o) == [Draft("local", "manual", <<PlanOf(t)>>) EXCEPT !.mem = [o |-> o, p |-> 1, n |-> 1]]
EmptyReviews ==
    /\ review = [t \in Tasks |-> None]
    /\ retired = {} /\ eligible = Rfcs
    /\ hist = [t \in Tasks |-> {}] /\ retry = {} /\ lineage = [t \in Tasks |-> None]
    /\ pending = {} /\ suppressed = {} /\ made = 0 /\ job = Idle
Empty == source = [t \in Tasks |-> Unsourced] /\ EmptyReviews

TwoObjectives(S) ==
    /\ task = [t \in Tasks |-> IF t \in S THEN Grouped(t, IF t = t2 THEN 1 ELSE 2) ELSE None]
    /\ obj = <<NewObjective("manual", <<3, 5>>), NewObjective("manual", <<1, 3>>)>>
    /\ wfm = [t \in Tasks |-> None]
    /\ Empty

OneObjective ==
    /\ task = [t \in Tasks |-> IF t = t3 THEN None ELSE Grouped(t, 1)]
    /\ obj = <<NewObjective("manual", <<1, 5>>)>>
    /\ wfm = [t \in Tasks |-> None]
    /\ Empty

(* A provider task in an objective of its own. *)
WfmObjective ==
    /\ task = [t \in Tasks |-> IF t # t1 THEN None
                               ELSE [Grouped(t1, 1) EXCEPT !.kind = "wfm", !.origin = "wfm_manual"]]
    /\ obj = <<NewObjective("manual", <<1, 3>>)>>
    /\ wfm = [t \in Tasks |-> IF t = t1 THEN [no |-> w1, rfc |-> r1] ELSE None]
    /\ Empty

(* Three attempts of the provider, the second a retry of the first. *)
ThreeAttempts ==
    /\ task = [t \in Tasks |-> Draft("wfm", "wfm_manual", <<<<1, 3>>>>)]
    /\ wfm = [t \in Tasks |-> [no |-> IF t = t1 THEN w1 ELSE IF t = t2 THEN w2 ELSE w3, rfc |-> r1]]
    /\ obj = <<>> /\ source = [t \in Tasks |-> Unsourced]
    /\ review = [t \in Tasks |-> None]
    /\ retired = {} /\ eligible = Rfcs
    /\ hist = [t \in Tasks |-> {}] /\ retry = {<<t1, t2>>} /\ lineage = [t \in Tasks |-> None]
    /\ pending = {} /\ suppressed = {} /\ made = 0 /\ job = Idle

(* The objective of a finished provider task, accepted as history. *)
HistoricalObjective ==
    /\ task = [t \in Tasks |-> IF t # t1 THEN None
                  ELSE [Grouped(t1, 1) EXCEPT !.kind = "wfm", !.origin = "historical_source", !.touched = TRUE]]
    /\ obj = <<[NewObjective("historical_provider_complete", <<1, 3>>) EXCEPT !.agg.st = "historical_structure"]>>
    /\ wfm = [t \in Tasks |-> IF t = t1 THEN [no |-> w1, rfc |-> r1] ELSE None]
    /\ source = [t \in Tasks |-> IF t = t1 THEN [class |-> "complete", iv |-> <<1, 3>>, n |-> 1] ELSE Unsourced]
    /\ EmptyReviews

MCInit ==
    \/ bound \in FreshShapes /\ Init
    \/ /\ TwoObjectives({t1, t2}) \/ TwoObjectives(Tasks)
       /\ bound = Shape({t3, t1, "plan work", "membership", "group", "delete"}, {<<2, 4>>}, {1})
    \/ OneObjective /\ bound = Shape({t1, t2, "execute", "objectives"}, One, {1})
    \/ HistoricalObjective /\ bound = Shape({t1, "plan work", "execute", "objectives"}, Two, {1})
    \/ ThreeAttempts /\ bound = Shape({t1, t2, t3, "lineage", "group", "delete"}, One, {1})
    \/ OneObjective /\ bound = Shape({t1, "plan work", "plan", "execute", "objectives"}, {<<2, 4>>}, {1})
    \/ WfmObjective /\ bound = Shape({t1, r1, "rfc", "source", "execute"}, One, {1})

MCSpec == MCInit /\ [][Next]_vars
=================================================================================
