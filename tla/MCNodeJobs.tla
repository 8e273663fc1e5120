--------------------------- MODULE MCNodeJobs ---------------------------
(* Symmetry for the runs of NodeJobs: identifiers are only compared. *)
EXTENDS NodeJobs, TLC

Symmetry == Permutations(JobIDs) \cup Permutations(Requests) \cup Permutations(LabelKeys)

=============================================================================
