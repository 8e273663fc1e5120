------------------------------ MODULE MCAccess ------------------------------
(* Access for a few deployments that differ in what their operators do.       *)
EXTENDS Access, TLC

Deployment(open, limited, requests, asks) ==
  [open |-> open, limited |-> limited, requests |-> requests, asks |-> asks]

MCDeployments ==
  {Deployment(FALSE, FALSE, 3, {"createToken", "revokeToken", "listTokens"}),
   Deployment(TRUE, FALSE, 2, {"putSettings"}),
   Deployment(TRUE, FALSE, 3, {"createTemplate", "deleteTemplate", "listTemplates", "listAudit"}),
   Deployment(FALSE, FALSE, 2, {"createTicket", "stream"}),
   Deployment(FALSE, TRUE, 0, {})}

\* All of these are only compared.
Symmetry ==
  Permutations(TokenIDs) \cup Permutations(Templates) \cup Permutations(Tickets)
    \cup Permutations(Versions) \cup Permutations(Clients) \cup Permutations(Requests)
    \cup Permutations(Callers)
=============================================================================
