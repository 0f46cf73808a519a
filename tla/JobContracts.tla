---------------------------- MODULE JobContracts ----------------------------
(***************************************************************************)
(* The packet-owned policies of the durable job types: which states of a   *)
(* job absorb a new request for the same work, when a failed attempt is    *)
(* retried, what happens to a claim whose process died, and whether the    *)
(* job may be cancelled.  Each operator is one callback of JobTypeContract *)
(* for the four contracts that exist: grouping recompute                   *)
(* (objectives_tasks/jobs), source check and SR reappearance               *)
(* (ticket_import/jobs) and SLA report generation (product_line_sla/jobs). *)
(* The callbacks that only check the shape of a payload are left out.      *)
(***************************************************************************)
EXTENDS Integers

(* An SQL NULL in a timestamp or run-id column. *)
Null == -1

ActiveStates == {"queued", "running", "waiting_review", "retry_wait"}

TerminalStates == {"completed", "failed", "cancelled"}

(* A type stands for a (job_type, contract_version) pair. *)
ContractTypes ==
    {"grouping_recompute", "source_check", "sr_reappearance", "sla_report"}

(* A finished reappearance job still absorbs a request for its import run. *)
CoalesceStates(type) ==
    IF type = "sr_reappearance" THEN ActiveStates \cup {"completed"}
                                ELSE ActiveStates

(* The number of attempts after which a retryable error is still retried. *)
MaxRetries(type) ==
    IF type \in {"grouping_recompute", "sla_report"} THEN 3 ELSE 2

(* _RETRY_DELAY_BY_ATTEMPT, in seconds; the report contract has none. *)
RetryDelay(ordinal) ==
    CASE ordinal = 1 -> 5
      [] ordinal = 2 -> 30
      [] OTHER       -> 120

(* Faulty variant of RetryTimes: one retry too many. *)
RetryTimesOffByOne(type, ordinal, now, times) ==
    IF ordinal > MaxRetries(type) + 1 THEN {Null}
    ELSE IF type = "sla_report" THEN {t \in times : t >= now}
    ELSE {now + RetryDelay(ordinal)}

(* The retry_at values validate_failure accepts for a retryable error code, *)
(* out of the clock readings "times"; Null is the terminal failure.        *)
RetryTimes(type, ordinal, now, times) ==
    IF ordinal > MaxRetries(type) THEN {Null}
    ELSE IF type = "sla_report" THEN {t \in times : t >= now}
    ELSE {now + RetryDelay(ordinal)}

(* recover_stale: when a claim lost to a crash is tried again, Null for    *)
(* never.  A lost report claim is always tried again: only its packet may  *)
(* terminate it.                                                           *)
CrashRetryTime(type, ordinal, now) ==
    IF type = "sla_report" THEN now
    ELSE IF ordinal > MaxRetries(type) THEN Null
    ELSE IF type = "grouping_recompute" THEN now
    ELSE now + RetryDelay(ordinal)

(* validate_cancellation: ticket import rejects every cancellation of an   *)
(* active job.                                                             *)
Cancellable(type) == type \in {"grouping_recompute", "sla_report"}
=============================================================================
