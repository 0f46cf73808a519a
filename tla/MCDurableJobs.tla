--------------------------- MODULE MCDurableJobs ----------------------------
(* Two instances of DurableJobs in one: a job that goes through every retry *)
(* its contract has, on a clock with the readings that takes, and two rows, *)
(* retired ones among them, that may be answers to one request.             *)
EXTENDS DurableJobs

CONSTANT First

Readings(type) ==
    CASE type = "grouping_recompute" -> {0, 5, 40, 200}
      [] type = "source_check"       -> {0, 5, 40}
      [] OTHER                       -> {0, 5}

Retried == {"grouping_recompute", "source_check", "sla_report"}

Rows == {j \in JobIds : jobs[j].state # "none"}

Bounded ==
    /\ \/ Rows \subseteq {First}
       \/ \A j \in Rows : jobs[j].type \notin Retried
    /\ \A j \in Rows :
          /\ {jobs[j].created, jobs[j].updated} \subseteq Readings(jobs[j].type)
          /\ \A c \in issued : c.job = j => c.started \in Readings(jobs[j].type)
          /\ recovery.now \in Readings(jobs[j].type)

MCInit == Init /\ Bounded

MCSpec == MCInit /\ [][Next /\ Bounded']_vars /\ WF_vars(RecoveryStep)
=============================================================================
