------------------------- MODULE MCRolloutControl -------------------------
(* The rollout specs of the runs of RolloutControl. *)
EXTENDS RolloutControl

CONSTANTS n1, n2, old, new

Spec_(nodes, size, live, start) ==
  [nodes |-> nodes, batchSize |-> size, live |-> live, autoRollback |-> live,
   allowOverlap |-> FALSE, start |-> start, target |-> new]

\* A canary and then the other node; a node named twice counts once.
Staged == {Spec_(<<n1, n2, n1>>, 1, TRUE, "now")}

\* Both nodes in one batch, rolled back on failure.
OneBatch == {Spec_(<<n1, n2>>, 2, TRUE, "now")}

\* A dry run at a later time, batch size left out, and a live rollout of the same
\* node that may overlap it; or one of the specs that are refused.
Overlapping ==
  {Spec_(<<n1>>, 0, FALSE, "later"), [Spec_(<<n1>>, 1, TRUE, "now") EXCEPT !.allowOverlap = TRUE],
   Spec_(<<n1>>, 1, FALSE, "out of range"), Spec_(<<>>, 1, FALSE, "now")}
=============================================================================
