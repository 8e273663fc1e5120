--------------------------- MODULE MCConfigApply ---------------------------
(* ConfigApply with the contents of both files as model values. *)
EXTENDS ConfigApply, TLC

\* Contents are only compared; plan identifiers are ordered and stay.
Symmetry == Permutations(Configs) \cup Permutations(Secrets)
=============================================================================
