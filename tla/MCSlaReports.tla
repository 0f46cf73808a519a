----------------------------- MODULE MCSlaReports -----------------------------
(* One report of three batches: its members, its cohorts and one section. *)
EXTENDS SlaReports

MCBatches == <<"members", "cohorts", "sections">>
=============================================================================
