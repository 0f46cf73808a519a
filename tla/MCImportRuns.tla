---------------------------- MODULE MCImportRuns ----------------------------
(* Two instances of ImportRuns in one, with interchangeable jobs, runs and  *)
(* contents: retried checks of files that give rise to no proposal, and     *)
(* checks without faults whose proposals are reviewed.                      *)
EXTENDS ImportRuns, TLC

Symmetry == Permutations(Jobs) \cup Permutations(RunIds)
            \cup Permutations(Contents)

NothingProposed == \A r \in RunIds, m \in Materials : proposals[r][m] = "none"

NothingLost == faults = 0 /\ \A j \in Jobs : jobs[j].attempt <= 1

MCSpec == Init /\ [][Next /\ (NothingProposed \/ NothingLost)']_vars

=============================================================================
