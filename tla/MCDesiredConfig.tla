--------------------------- MODULE MCDesiredConfig ---------------------------
(* DesiredConfig for a node with two runtimes, with a catalog name in two        *)
(* spellings and configurations that set different layers.                   *)
EXTENDS DesiredConfig, TLC

T(n, r, p) == [node |-> n, runtimeType |-> r, profile |-> p]
Sel(p, m) == [provider |-> p, model |-> m]
Def(n, e) == [name |-> n, apiKeyEnv |-> e]

MCLower == [s \in Spellings |-> "acme"]
MCEnvOf == [s \in Spellings |-> "ACME_API_KEY"]
MCTargets == {T(Blank, Blank, Blank), T("n1", Blank, Blank), T("n1", "hermes", "default"), T("n1", "hermes", Blank),
              T("n1", Blank, "hermes")}

Layered ==
  [overrides |-> [l \in {<<"global">>, <<"node", "n1">>} |->
                    IF l = <<"global">> THEN Sel("a", "a") ELSE Sel(Blank, "b")],
   providers |-> [l \in {<<"global">>} |-> <<Def("acme", "ACME_API_KEY")>>]]
Specific ==
  [overrides |-> [l \in {<<"global">>, <<"runtimeProfile", "hermes", "default">>} |->
                    IF l = <<"global">> THEN Sel("a", "b") ELSE Sel(Blank, "a")],
   providers |-> <<>>]
Twice ==
  [overrides |-> [l \in {<<"global">>} |-> Sel("a", "a")],
   providers |-> [l \in {<<"global">>} |-> <<Def("acme", Blank), Def("Acme", Blank)>>]]
Unusable ==
  [overrides |-> [l \in {<<"global">>} |-> Sel(Bad, "a")], providers |-> <<>>]

MCPutDefs == {Def("Acme", Blank)}
MCScopes == {T(Blank, Blank, Blank), T("n1", "hermes", "default")}
\* Two runtimes, the second alone, and a runtime whose file was not found.
Found(r, p, m) == [runtimeType |-> r, profile |-> Blank, path |-> "config.yaml", provider |-> p, model |-> m]
MCReports ==
  {<<Found("hermes", "a", "b"), Found("openclaw", "a", "a")>>, <<Found("openclaw", "a", "a")>>,
   <<[Found("hermes", Blank, Blank) EXCEPT !.path = Blank]>>}

\* Operators are only compared.
Symmetry == Permutations(Operators)

MCInputs == {Layered, Specific, Twice, Unusable}
=============================================================================
