-------------------------- MODULE MCJobDelivery --------------------------
(* Symmetry for the safety runs of JobDelivery. *)
EXTENDS JobDelivery

\* No action orders or names job identifiers.
Symmetry == Permutations(JobIDs)
=============================================================================
