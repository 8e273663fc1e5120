------------------------ MODULE DesiredConfigProofs ------------------------
(***************************************************************************)
(* Proofs about DesiredConfig, for any operators, targets, configurations,   *)
(* snapshots, page size and bounds: the versions on record are sound, plans  *)
(* come from one of them, keys are where the catalog says, the paged search  *)
(* misses nothing it was not overtaken by, drift is what a new plan would     *)
(* change, and every target gets what its most specific layer says.          *)
(***************************************************************************)
EXTENDS DesiredConfig, FiniteSetTheorems, SequenceTheorems, WellFoundedInduction, TLAPS

-----------------------------------------------------------------------------
(* Ranks: the sort of the history and the removal of entries choose the       *)
(* element of every rank.                                                    *)

\* The first m numbers are m.
LEMMA UpTo ==
  ASSUME NEW m \in Nat
  PROVE  IsFiniteSet(1..m) /\ Cardinality(1..m) = m
<1>1. 1 \in Int /\ m \in Int /\ (1 > m => m = 0) /\ m - 1 + 1 = m
  OBVIOUS
<1> QED BY <1>1, FS_Interval

\* Min of two numbers.
LEMMA LeastOfTwo ==
  ASSUME NEW a \in Nat, NEW b \in Nat
  PROVE  Min({a, b}) = IF a <= b THEN a ELSE b
<1>1. PICK m : m = IF a <= b THEN a ELSE b
  OBVIOUS
<1>2. m \in {a, b} /\ \A y \in {a, b} : m <= y
  BY <1>1
<1>3. \A x \in {a, b} : (\A y \in {a, b} : x <= y) => x = m
  BY <1>1
<1>4. Min({a, b}) = CHOOSE x \in {a, b} : \A y \in {a, b} : x <= y
  BY DEF Min
<1> QED BY <1>1, <1>2, <1>3, <1>4, Zenon

\* In a finite set whose elements' lower sets are strictly nested, there is an
\* element of every rank.
LEMMA RanksFill ==
  ASSUME NEW P, IsFiniteSet(P), NEW up \in [P -> SUBSET P],
         \A p \in P : p \in up[p],
         \A p, r \in P : p # r => \/ up[p] \subseteq up[r] /\ r \notin up[p]
                                  \/ up[r] \subseteq up[p] /\ p \notin up[r]
  PROVE  \A k \in 1..Cardinality(P) : \E p \in P : Cardinality(up[p]) = k
<1>1. PICK m : m = Cardinality(P)
  OBVIOUS
<1>2. m \in Nat
  BY <1>1, FS_CardinalityType
<1>3. ASSUME NEW p \in P
      PROVE  IsFiniteSet(up[p]) /\ Cardinality(up[p]) \in 1..m
  <2>1. up[p] \in SUBSET P /\ p \in up[p]
    OBVIOUS
  <2>2. IsFiniteSet(up[p]) /\ Cardinality(up[p]) <= m
    BY <1>1, <2>1, FS_Subset
  <2>3. Cardinality(up[p]) \in Nat /\ Cardinality(up[p]) # 0
    BY <2>1, <2>2, FS_CardinalityType, FS_EmptySet
  <2> QED BY <1>2, <2>2, <2>3
<1>4. ASSUME NEW p \in P, NEW r \in P, up[p] \subseteq up[r], r \notin up[p]
      PROVE  Cardinality(up[p]) # Cardinality(up[r])
  <2>1. up[p] \in SUBSET up[r] /\ up[p] # up[r] /\ IsFiniteSet(up[r])
    BY <1>3, <1>4
  <2> QED BY <2>1, FS_Subset
<1> DEFINE f == [p \in P |-> Cardinality(up[p])]
<1>5. f \in Injection(P, 1..m)
  <2>1. f \in [P -> 1..m]
    BY <1>3
  <2>2. ASSUME NEW p \in P, NEW r \in P, f[p] = f[r] PROVE p = r
    BY <1>4, <2>2
  <2> HIDE DEF f
  <2> QED BY <2>1, <2>2 DEF Injection, IsInjective
<1>6. IsFiniteSet(1..m) /\ Cardinality(1..m) = Cardinality(P)
  BY <1>1, <1>2, UpTo
<1>7. f \in Surjection(P, 1..m)
  <2> HIDE DEF f
  <2> QED BY <1>5, <1>6, FS_Injection
<1>8. \A k \in 1..m : \E p \in P : f[p] = k
  <2> HIDE DEF f
  <2> QED BY <1>7 DEF Surjection
<1> QED BY <1>1, <1>8

\* What is kept of a sequence is a sequence of its elements.
LEMMA PickType ==
  ASSUME NEW X, NEW s \in Seq(X), NEW P \in SUBSET (1..Len(s))
  PROVE  Pick(s, P) \in Seq(X)
<1>1. Len(s) \in Nat /\ \A i \in 1..Len(s) : s[i] \in X
  BY LenProperties, ElementOfSeq
<1>2. IsFiniteSet(P)
  BY <1>1, UpTo, FS_Subset
<1>3. PICK m : m = Cardinality(P)
  OBVIOUS
<1>4. m \in Nat
  BY <1>2, <1>3, FS_CardinalityType
<1> DEFINE up == [p \in P |-> {j \in P : j <= p}]
<1>5. up \in [P -> SUBSET P]
  OBVIOUS
<1>6. \A p \in P : p \in up[p]
  BY <1>1
<1>7. \A p, r \in P : p # r => \/ up[p] \subseteq up[r] /\ r \notin up[p]
                               \/ up[r] \subseteq up[p] /\ p \notin up[r]
  <2> SUFFICES ASSUME NEW p \in P, NEW r \in P, p # r
               PROVE  \/ up[p] \subseteq up[r] /\ r \notin up[p]
                      \/ up[r] \subseteq up[p] /\ p \notin up[r]
    OBVIOUS
  <2>1. p \in Nat /\ r \in Nat /\ \A j \in P : j \in Nat
    BY <1>1
  <2>2. up[p] = {j \in P : j <= p} /\ up[r] = {j \in P : j <= r}
    OBVIOUS
  <2> HIDE DEF up
  <2>3. CASE p < r
    <3>1. \A j \in P : j <= p => j <= r
      BY <2>1, <2>3
    <3>3. up[p] \subseteq up[r]
      BY <2>2, <3>1
    <3>2. r \notin up[p]
      BY <2>1, <2>2, <2>3
    <3> QED BY <3>2, <3>3
  <2>4. CASE r < p
    <3>1. \A j \in P : j <= r => j <= p
      BY <2>1, <2>4
    <3>3. up[r] \subseteq up[p]
      BY <2>2, <3>1
    <3>2. p \notin up[r]
      BY <2>1, <2>2, <2>4
    <3> QED BY <3>2, <3>3
  <2>5. p < r \/ r < p
    BY <2>1
  <2> QED BY <2>3, <2>4, <2>5, Zenon
<1>8. \A k \in 1..m : \E p \in P : Cardinality(up[p]) = k
  <2> HIDE DEF up
  <2>1. \A k \in 1..Cardinality(P) : \E p \in P : Cardinality(up[p]) = k
    BY <1>2, <1>5, <1>6, <1>7, RanksFill, Zenon
  <2> QED BY <1>3, <2>1
<1>9. \A k \in 1..m : \E p \in P : Cardinality({j \in P : j <= p}) = k
  BY <1>8
<1> DEFINE at(k) == CHOOSE i \in P : Cardinality({j \in P : j <= i}) = k
<1>10. \A k \in 1..m : at(k) \in P
  BY <1>9
<1>11. \A k \in 1..m : s[at(k)] \in X
  <2> HIDE DEF at
  <2> QED BY <1>1, <1>10
<1>12. Pick(s, P) = [k \in 1..m |-> s[at(k)]]
  BY <1>3 DEF Pick
<1> HIDE DEF at
<1> QED BY <1>4, <1>11, <1>12

\* NewestFirst, of any history.
NewestOf(h) ==
  [k \in DOMAIN h |->
    CHOOSE i \in DOMAIN h : Cardinality({j \in DOMAIN h : h[j].at >= h[i].at}) = k]

\* Every entry of the history is on some page.
LEMMA NewestFirstAll ==
  ASSUME NEW X, NEW h \in Seq(X),
         \A i \in 1..Len(h) : h[i].at \in Nat,
         \A i, j \in 1..Len(h) : h[i].at = h[j].at => i = j
  PROVE  /\ Len(h) \in Nat
         /\ \A k \in 1..Len(h) : NewestOf(h)[k] \in 1..Len(h)
         /\ \A i \in 1..Len(h) : \E k \in 1..Len(h) : NewestOf(h)[k] = i
<1>1. PICK P : P = 1..Len(h)
  OBVIOUS
<1>2. Len(h) \in Nat /\ DOMAIN h = P
  BY <1>1, LenProperties
<1>3. IsFiniteSet(P) /\ Cardinality(P) = Len(h)
  BY <1>1, <1>2, UpTo
<1> DEFINE up == [p \in P |-> {j \in P : h[j].at >= h[p].at}]
<1>4. up \in [P -> SUBSET P]
  OBVIOUS
<1>5. \A p \in P : p \in up[p]
  BY <1>1
<1>6. \A p, r \in P : p # r => \/ up[p] \subseteq up[r] /\ r \notin up[p]
                               \/ up[r] \subseteq up[p] /\ p \notin up[r]
  <2> SUFFICES ASSUME NEW p \in P, NEW r \in P, p # r
               PROVE  \/ up[p] \subseteq up[r] /\ r \notin up[p]
                      \/ up[r] \subseteq up[p] /\ p \notin up[r]
    OBVIOUS
  <2>1. PICK a, b : a = h[p].at /\ b = h[r].at
    OBVIOUS
  <2>2. a \in Nat /\ b \in Nat /\ a # b /\ \A j \in P : h[j].at \in Nat
    BY <1>1, <2>1
  <2>3. up[p] = {j \in P : h[j].at >= a} /\ up[r] = {j \in P : h[j].at >= b}
    BY <2>1
  <2> HIDE DEF up
  <2>4. CASE a > b
    <3>1. up[p] \subseteq up[r]
      BY <2>2, <2>3, <2>4
    <3>2. r \notin up[p]
      BY <2>1, <2>2, <2>3, <2>4
    <3> QED BY <3>1, <3>2
  <2>5. CASE b > a
    <3>1. up[r] \subseteq up[p]
      BY <2>2, <2>3, <2>5
    <3>2. p \notin up[r]
      BY <2>1, <2>2, <2>3, <2>5
    <3> QED BY <3>1, <3>2
  <2>6. a > b \/ b > a
    BY <2>2
  <2> QED BY <2>4, <2>5, <2>6, Zenon
<1>7. \A k \in P : \E p \in P : Cardinality(up[p]) = k
  <2> HIDE DEF up
  <2>1. PICK v : v = up
    OBVIOUS
  <2>2. v \in [P -> SUBSET P]
    BY <1>4, <2>1
  <2>4. \A p \in P : p \in v[p]
    BY <1>5, <2>1
  <2>5. \A p, r \in P : p # r => \/ v[p] \subseteq v[r] /\ r \notin v[p]
                                 \/ v[r] \subseteq v[p] /\ p \notin v[r]
    BY <1>6, <2>1, Zenon
  <2>3. \A k \in 1..Cardinality(P) : \E p \in P : Cardinality(v[p]) = k
    BY <1>3, <2>2, <2>4, <2>5, RanksFill
  <2> QED BY <1>1, <1>3, <2>1, <2>3
<1> DEFINE rank(p) == Cardinality({j \in P : h[j].at >= h[p].at})
<1>8. \A k \in P : \E p \in P : rank(p) = k
  BY <1>7
<1>9. NewestOf(h) = [k \in P |-> CHOOSE i \in P : rank(i) = k]
  BY <1>2 DEF NewestOf
<1> HIDE DEF rank, up
<1>10. \A k \in P : NewestOf(h)[k] \in P /\ rank(NewestOf(h)[k]) = k
  BY <1>8, <1>9
<1>11. NewestOf(h) \in Surjection(P, P)
  <2>1. NewestOf(h) \in [P -> P]
    BY <1>9, <1>10
  <2>2. NewestOf(h) \in Injection(P, P)
    BY <1>10, <2>1 DEF Injection, IsInjective
  <2> QED BY <1>3, <2>2, FS_Injection
<1>12. \A i \in P : \E k \in P : NewestOf(h)[k] = i
  BY <1>11 DEF Surjection
<1> QED BY <1>1, <1>2, <1>10, <1>12

-----------------------------------------------------------------------------
(* Configurations                                                            *)

Configs ==
  [overrides : UNION {[D -> Selection] : D \in SUBSET Layers},
   providers : UNION {[D -> Catalogs] : D \in SUBSET Layers}]

\* What a document decodes to is in one set, for the type of the history.
LEMMA ConfigsAre ==
  ASSUME NEW c, IsConfig(c)
  PROVE  c \in Configs
<1>1. PICK ov, pr : ov = c.overrides /\ pr = c.providers
  OBVIOUS
<1>2. c = [overrides |-> ov, providers |-> pr]
  BY <1>1 DEF IsConfig
<1>3. ov \in UNION {[D -> Selection] : D \in SUBSET Layers}
  BY <1>1 DEF IsConfig
<1>4. pr \in UNION {[D -> Catalogs] : D \in SUBSET Layers}
  BY <1>1 DEF IsConfig
<1> QED BY <1>2, <1>3, <1>4 DEF Configs

\* The empty sequence is the empty map.
LEMMA NothingIn ==
  /\ DOMAIN <<>> = {}
  /\ \A S : <<>> \in [{} -> S]
<1>1. \A S : <<>> \in Seq(S) /\ Len(<<>>) = 0
  BY EmptySeq
<1>2. \A S : <<>> \in [1..0 -> S] /\ DOMAIN <<>> = 1..0
  BY <1>1, LenProperties
<1>3. 1..0 = {}
  OBVIOUS
<1> QED BY <1>2, <1>3, Zenon

\* The configuration before the first version.
LEMMA NoConfigIsConfig ==
  IsConfig(NoConfig)
<1>1. NoConfig.overrides = <<>> /\ NoConfig.providers = <<>>
  BY DEF NoConfig
<1>2. NoConfig = [overrides |-> NoConfig.overrides, providers |-> NoConfig.providers]
  BY <1>1 DEF NoConfig
<1> QED BY <1>1, <1>2, NothingIn DEF IsConfig

\* The layers a target sees, and the one its catalog changes go to, are layers.
LEMMA LayersOfTarget ==
  ASSUME NEW t \in Targets
  PROVE  /\ Range(LayersOf(t)) =
              {GlobalLayer, NodeLayer(t), RuntimeProfileLayer(t), NodeRuntimeProfileLayer(t)}
         /\ Range(LayersOf(t)) \subseteq Layers
         /\ providerScopeLayer(t) \in Layers
<1>1. PICK a, b, c, d :
        /\ a = GlobalLayer /\ b = NodeLayer(t)
        /\ c = RuntimeProfileLayer(t) /\ d = NodeRuntimeProfileLayer(t)
  OBVIOUS
<1>2. LayersOf(t) = <<a, b, c, d>>
  BY <1>1 DEF LayersOf
<1>3. DOMAIN <<a, b, c, d>> = {1, 2, 3, 4}
  OBVIOUS
<1>4. Range(<<a, b, c, d>>) = {a, b, c, d}
  BY <1>3 DEF Range
<1>5. Range(LayersOf(t)) \subseteq Layers
  BY DEF Layers
<1>6. providerScopeLayer(t) \in {a, b, c, d}
  BY <1>1 DEF providerScopeLayer
<1> QED BY <1>1, <1>2, <1>4, <1>5, <1>6

\* upsertProviderDefinition leaves a catalog that is not empty.
LEMMA UpsertType ==
  ASSUME NEW defs \in Seq(Definition), NEW d \in Definition
  PROVE  upsertProviderDefinition(defs, d) \in Seq(Definition) \ {<<>>}
<1>1. Len(defs) \in Nat /\ DOMAIN defs = 1..Len(defs) /\ \A i \in 1..Len(defs) : defs[i] \in Definition
  BY LenProperties, ElementOfSeq
<1>2. CASE \E i \in DOMAIN defs : Fold(defs[i].name) = Fold(d.name)
  <2>1. PICK r : r = [i \in DOMAIN defs |-> IF Fold(defs[i].name) = Fold(d.name) THEN d ELSE defs[i]]
    OBVIOUS
  <2>2. r \in [1..Len(defs) -> Definition] /\ 1..Len(defs) # {}
    BY <1>1, <1>2, <2>1
  <2>3. r \in Seq(Definition) /\ DOMAIN r # {}
    BY <1>1, <2>2
  <2>4. r # <<>>
    BY <2>3, NothingIn, Zenon
  <2> QED BY <1>2, <2>1, <2>3, <2>4 DEF upsertProviderDefinition
<1>3. CASE ~ \E i \in DOMAIN defs : Fold(defs[i].name) = Fold(d.name)
  <2>1. Append(defs, d) \in Seq(Definition) /\ Append(defs, d) # <<>>
    BY AppendProperties
  <2>2. upsertProviderDefinition(defs, d) = Append(defs, d)
    BY <1>3, Zenon DEF upsertProviderDefinition
  <2> QED BY <2>1, <2>2
<1> QED BY <1>2, <1>3

\* At is typed, by the map or by the zero value.
LEMMA AtType ==
  ASSUME NEW S, NEW map, map \in [DOMAIN map -> S], NEW l, NEW z \in S
  PROVE  At(map, l, z) \in S
BY DEF At

\* A configuration with other catalogs.
LEMMA WithProviders ==
  ASSUME NEW c, IsConfig(c), NEW pr, DOMAIN pr \subseteq Layers,
         pr \in [DOMAIN pr -> Catalogs]
  PROVE  IsConfig([c EXCEPT !.providers = pr])
<1>1. PICK ov, old : c = [overrides |-> ov, providers |-> old]
  BY DEF IsConfig
<1>2. [c EXCEPT !.providers = pr] = [overrides |-> ov, providers |-> pr]
  BY <1>1
<1>3. PICK n : n = [overrides |-> ov, providers |-> pr]
  OBVIOUS
<1>4. n.overrides = ov /\ n.providers = pr /\ c.overrides = ov
  BY <1>1, <1>3
<1>5. IsConfig(n)
  BY <1>3, <1>4 DEF IsConfig
<1> QED BY <1>2, <1>3, <1>5

\* UpsertProviderDefinition builds a configuration.
LEMMA UpsertKeepsConfig ==
  ASSUME NEW c, IsConfig(c), NEW t \in Targets, NEW d \in Definition
  PROVE  IsConfig(UpsertProviderDefinition(c, t, d))
<1>1. PICK l : l = providerScopeLayer(t)
  OBVIOUS
<1>2. PICK pr : pr = c.providers
  OBVIOUS
<1>3. DOMAIN pr \subseteq Layers /\ pr \in [DOMAIN pr -> Catalogs] /\ l \in Layers
  BY <1>1, <1>2, LayersOfTarget DEF IsConfig
<1>4. pr \in [DOMAIN pr -> Seq(Definition)] /\ <<>> \in Seq(Definition)
  BY <1>3, EmptySeq DEF Catalogs
<1>5. At(pr, l, <<>>) \in Seq(Definition)
  BY <1>4, AtType
<1>6. PICK v : v = upsertProviderDefinition(At(pr, l, <<>>), d)
  OBVIOUS
<1>7. v \in Catalogs
  BY <1>5, <1>6, UpsertType DEF Catalogs
<1>8. PICK new : new = Put(pr, l, v)
  OBVIOUS
<1>9. new \in [DOMAIN pr \cup {l} -> Catalogs] /\ DOMAIN new = DOMAIN pr \cup {l}
  <2>1. pr \in [DOMAIN pr -> Catalogs]
    BY <1>3
  <2>2. new = [m \in DOMAIN pr \cup {l} |-> IF m = l THEN v ELSE pr[m]]
    BY <1>8 DEF Put
  <2>3. \A m \in DOMAIN pr \cup {l} : (IF m = l THEN v ELSE pr[m]) \in Catalogs
    BY <1>7, <2>1
  <2> QED BY <2>2, <2>3
<1>10. IsConfig([c EXCEPT !.providers = new])
  BY <1>3, <1>9, WithProviders
<1>11. UpsertProviderDefinition(c, t, d) = [c EXCEPT !.providers = new]
  BY <1>1, <1>2, <1>6, <1>8 DEF UpsertProviderDefinition
<1> QED BY <1>10, <1>11

\* RemoveProviderDefinition builds one, too: an empty catalog leaves the map.
LEMMA RemoveKeepsConfig ==
  ASSUME NEW c, IsConfig(c), NEW t \in Targets, NEW name,
         providerScopeLayer(t) \in DOMAIN c.providers
  PROVE  IsConfig(RemoveProviderDefinition(c, t, name))
<1>1. PICK l : l = providerScopeLayer(t)
  OBVIOUS
<1>2. PICK pr : pr = c.providers
  OBVIOUS
<1>3. DOMAIN pr \subseteq Layers /\ pr \in [DOMAIN pr -> Catalogs] /\ l \in DOMAIN pr
  BY <1>1, <1>2 DEF IsConfig
<1>4. pr[l] \in Seq(Definition)
  BY <1>3 DEF Catalogs
<1>5. DOMAIN pr[l] = 1..Len(pr[l])
  BY <1>4, LenProperties
<1>6. PICK rest : rest = removeProviderDefinition(pr[l], name)
  OBVIOUS
<1>7. PICK P : P = {i \in DOMAIN pr[l] : Fold(pr[l][i].name) # Fold(name)}
  OBVIOUS
<1>8. rest = Pick(pr[l], P) /\ P \in SUBSET (1..Len(pr[l]))
  BY <1>5, <1>6, <1>7 DEF removeProviderDefinition
<1>9. rest \in Seq(Definition)
  BY <1>4, <1>8, PickType
<1>10. PICK new : new = removeProviderDefinitionFromMap(pr, l, name)
  OBVIOUS
<1>11. DOMAIN new \subseteq Layers /\ new \in [DOMAIN new -> Catalogs]
  <2>1. CASE rest = <<>>
    <3>1. new = Restrict(pr, DOMAIN pr \ {l})
      BY <1>6, <1>10, <2>1 DEF removeProviderDefinitionFromMap
    <3>2. new = [x \in DOMAIN pr \ {l} |-> pr[x]]
      BY <3>1 DEF Restrict
    <3> QED BY <1>3, <3>2
  <2>2. CASE rest # <<>>
    <3>1. new = Put(pr, l, rest)
      BY <1>6, <1>10, <2>2 DEF removeProviderDefinitionFromMap
    <3>2. new \in [DOMAIN pr \cup {l} -> Catalogs] /\ DOMAIN new = DOMAIN pr \cup {l}
      <4>1. rest \in Catalogs
        BY <1>9, <2>2 DEF Catalogs
      <4>2. pr \in [DOMAIN pr -> Catalogs]
        BY <1>3
      <4>3. new = [m \in DOMAIN pr \cup {l} |-> IF m = l THEN rest ELSE pr[m]]
        BY <3>1 DEF Put
      <4>4. \A m \in DOMAIN pr \cup {l} : (IF m = l THEN rest ELSE pr[m]) \in Catalogs
        BY <4>1, <4>2
      <4> QED BY <4>3, <4>4
    <3> QED BY <1>3, <3>2
  <2> QED BY <2>1, <2>2
<1>12. IsConfig([c EXCEPT !.providers = new])
  BY <1>11, WithProviders
<1>13. RemoveProviderDefinition(c, t, name) = [c EXCEPT !.providers = new]
  BY <1>1, <1>2, <1>10 DEF RemoveProviderDefinition
<1> QED BY <1>12, <1>13

-----------------------------------------------------------------------------
(* The inductive invariant.  What it says of a handler, of a plan and of the  *)
(* history is in operators of constants, so that a step that leaves their     *)
(* arguments alone, or lets them grow, is one lemma.                          *)

Good(c) == IsConfig(c) /\ ValidateDesiredConfigValues(c)
IsVersion(c, h) == \E i \in 1..Len(h) : h[i].config = c
Applicable(c, t) ==
  /\ t \in Targets /\ t.node # Blank /\ t.runtimeType # Blank
  /\ ValidateProviderModelSelection(EffectiveProviderModelConfig(c, t))

\* A version is on its way into the history.
Writing(op) == op.step \in {"set", "secret"}

\* The pages read so far do not have the entry.
Missed(op, h) == \A k \in 1..op.offset : NewestOf(h)[k] # op.id

\* What the handler op may rely on in its next step.
HandlerOK(op, h, stored, c) ==
  /\ op.step \in {"idle", "set", "secret", "count", "page", "revert", "notFound", "plan"}
  /\ Writing(op) => Good(op.config) /\ op.at \in 1..c
  /\ op.step = "set" => op.keyed \subseteq stored
  /\ op.step = "secret" =>
       /\ {"step", "config", "at", "keyed"} \subseteq DOMAIN op
       /\ op.key \in 1..MaxKeys /\ \E e \in Envs : op.keyed = {e}
  /\ op.step \in {"count", "page"} =>
       /\ {"step", "id", "offset", "total", "since"} \subseteq DOMAIN op
       /\ op.id \in 1..Len(h)
       /\ op.offset \in 0..Len(h) /\ op.since \in 0..Len(h)
       /\ Len(h) = op.since => Missed(op, h)
  /\ op.step = "page" => (Len(h) = op.since => op.total = op.since)
  /\ op.step = "revert" => op.id \in 1..Len(h)
  /\ op.step = "notFound" => op.since \in Nat /\ Len(h) > op.since
  /\ op.step = "plan" => IsVersion(op.config, h) /\ Applicable(op.config, op.target)

PlanOK(p, h, stored) ==
  /\ IsVersion(p.config, h) /\ Applicable(p.config, p.target)
  /\ p.desired = EffectiveProviderModelConfig(p.config, p.target)
  /\ {q.def : q \in p.providers} = EffectiveProviderCatalog(p.config, p.target)
  /\ \A q \in p.providers : q.managed => q.def.apiKeyEnv \in stored

\* Every version is sound, and no two were stamped with the same reading.
HistoryOK(h, c) ==
  /\ h \in Seq([config : Configs, at : Nat])
  /\ \A i \in 1..Len(h) : Good(h[i].config) /\ h[i].at \in 1..c
  /\ \A i, j \in 1..Len(h) : h[i].at = h[j].at => i = j

StoreInv ==
  /\ clock \in 0..MaxClock /\ keys \in 0..MaxKeys
  /\ keyed \subseteq DOMAIN secrets /\ DOMAIN secrets \subseteq Envs
  /\ \A e \in DOMAIN secrets : secrets[e] \in 1..MaxKeys
HistoryInv ==
  /\ HistoryOK(history, clock)
  /\ desired = IF history = <<>> THEN NoConfig ELSE Last(history).config
HandlersInv ==
  /\ ops = [o \in Operators |-> ops[o]]
  /\ \A o \in Operators : HandlerOK(ops[o], history, DOMAIN secrets, clock)
\* The readings handlers carry are nobody else's.
StampsInv ==
  /\ \A o \in Operators : Writing(ops[o]) =>
       \A i \in 1..Len(history) : history[i].at # ops[o].at
  /\ \A o, u \in Operators : (Writing(ops[o]) /\ Writing(ops[u]) /\ o # u) => ops[o].at # ops[u].at
PlansInv ==
  /\ IsFiniteSet(plans) /\ Cardinality(plans) <= MaxPlans
  /\ \A p \in plans : PlanOK(p, history, DOMAIN secrets)

Inv == StoreInv /\ HistoryInv /\ HandlersInv /\ StampsInv /\ PlansInv

\* h with at most one entry more.
Extends(h2, h) ==
  /\ Len(h) \in Nat /\ Len(h2) \in Nat
  /\ h2 = h \/ Len(h2) = Len(h) + 1
  /\ \A i \in 1..Len(h) : h2[i] = h[i]

\* Versions stay on record.
LEMMA VersionKept ==
  ASSUME NEW h, NEW h2, Extends(h2, h), NEW c, IsVersion(c, h)
  PROVE  IsVersion(c, h2)
BY DEF Extends, IsVersion

\* What a handler relies on stays true when the store grows.
LEMMA HandlerKept ==
  ASSUME NEW h, NEW h2, NEW s, NEW s2, NEW c \in Nat, NEW c2 \in Nat, NEW op,
         HandlerOK(op, h, s, c), Extends(h2, h), s \subseteq s2, c <= c2
  PROVE  HandlerOK(op, h2, s2, c2)
<1>1. Len(h) \in Nat /\ Len(h2) \in Nat /\ Len(h) <= Len(h2)
  BY DEF Extends
<1>2. 1..c \subseteq 1..c2 /\ 1..Len(h) \subseteq 1..Len(h2) /\ 0..Len(h) \subseteq 0..Len(h2)
  BY <1>1
<1>3. Writing(op) => Good(op.config) /\ op.at \in 1..c2
  BY <1>2 DEF HandlerOK
<1>4. op.step \in {"count", "page"} =>
        /\ op.id \in 1..Len(h2)
        /\ op.offset \in 0..Len(h2) /\ op.since \in 0..Len(h2)
        /\ Len(h2) = op.since => h2 = h
  <2> SUFFICES ASSUME op.step \in {"count", "page"}
               PROVE  /\ op.id \in 1..Len(h2)
                      /\ op.offset \in 0..Len(h2) /\ op.since \in 0..Len(h2)
                      /\ Len(h2) = op.since => h2 = h
    OBVIOUS
  <2>1. op.id \in 1..Len(h) /\ op.offset \in 0..Len(h) /\ op.since \in 0..Len(h)
    BY DEF HandlerOK
  <2> QED BY <1>1, <1>2, <2>1 DEF Extends
<1>5. op.step = "notFound" => op.since \in Nat /\ Len(h2) > op.since
  BY <1>1 DEF HandlerOK
<1>6. op.step = "plan" => IsVersion(op.config, h2)
  BY VersionKept DEF HandlerOK
<1>7. op.step = "revert" => op.id \in 1..Len(h2)
  BY <1>2 DEF HandlerOK
<1>8. op.step = "set" => op.keyed \subseteq s2
  BY DEF HandlerOK
<1>9. op.step \in {"count", "page"} => (Len(h2) = op.since => Missed(op, h2))
  BY <1>4 DEF HandlerOK
<1>10. op.step = "page" => (Len(h2) = op.since => op.total = op.since)
  BY <1>4 DEF HandlerOK
<1> QED BY <1>3, <1>4, <1>5, <1>6, <1>7, <1>8, <1>9, <1>10 DEF HandlerOK

\* And so does what a plan was made from.
LEMMA PlanKept ==
  ASSUME NEW h, NEW h2, NEW s, NEW s2, NEW p,
         PlanOK(p, h, s), Extends(h2, h), s \subseteq s2
  PROVE  PlanOK(p, h2, s2)
BY VersionKept DEF PlanOK

\* A history extends itself.
LEMMA Same ==
  ASSUME NEW h, Len(h) \in Nat
  PROVE  Extends(h, h)
BY DEF Extends

-----------------------------------------------------------------------------
(* The kinds of steps                                                        *)

\* The history is a sequence.
LEMMA HistoryFacts ==
  ASSUME NEW h, NEW c, HistoryOK(h, c)
  PROVE  /\ Len(h) \in Nat /\ DOMAIN h = 1..Len(h)
         /\ h = <<>> <=> Len(h) = 0
         /\ Extends(h, h)
<1>1. h \in Seq([config : Configs, at : Nat])
  BY DEF HistoryOK
<1>2. Len(h) \in Nat /\ DOMAIN h = 1..Len(h) /\ (h = <<>> <=> Len(h) = 0)
  BY <1>1, LenProperties, EmptySeq
<1> QED BY <1>2, Same

\* A step of handler o changes its own entry only.
LEMMA OpsStep ==
  ASSUME HandlersInv, NEW o \in Operators, NEW op, ops' = [ops EXCEPT ![o] = op]
  PROVE  /\ ops' = [u \in Operators |-> ops'[u]]
         /\ ops'[o] = op
         /\ \A u \in Operators : u # o => ops'[u] = ops[u]
BY DEF HandlersInv

\* The other handlers, after a step of handler o that the store survives.
LEMMA HandlersStep ==
  ASSUME Inv, NEW o \in Operators, NEW op, ops' = [ops EXCEPT ![o] = op],
         NEW s2, DOMAIN secrets \subseteq s2, s2 = DOMAIN secrets',
         Extends(history', history), clock' \in Nat, clock <= clock',
         HandlerOK(op, history', s2, clock')
  PROVE  HandlersInv'
<1>1. /\ ops' = [u \in Operators |-> ops'[u]] /\ ops'[o] = op
      /\ \A u \in Operators : u # o => ops'[u] = ops[u]
  BY OpsStep DEF Inv
<1>2. clock \in Nat
  BY DEF Inv, StoreInv
<1>3. ASSUME NEW u \in Operators
      PROVE  HandlerOK(ops'[u], history', s2, clock')
  <2>1. CASE u = o
    BY <1>1, <2>1
  <2>2. CASE u # o
    <3>1. HandlerOK(ops[u], history, DOMAIN secrets, clock)
      BY DEF Inv, HandlersInv
    <3>2. HandlerOK(ops[u], history', s2, clock')
      BY <1>2, <3>1, HandlerKept
    <3> QED BY <1>1, <2>2, <3>2
  <2> QED BY <2>1, <2>2
<1> QED BY <1>1, <1>3 DEF HandlersInv

\* A handler that carries no version takes a step that is its own.
LEMMA QuietStep ==
  ASSUME Inv, NEW o \in Operators, NEW op, ~Writing(op),
         HandlerOK(op, history, DOMAIN secrets, clock), ops' = [ops EXCEPT ![o] = op],
         UNCHANGED <<desired, history, secrets, clock, keys, plans, keyed>>
  PROVE  Inv'
<1>1. StoreInv' /\ HistoryInv' /\ PlansInv'
  BY DEF Inv, StoreInv, HistoryInv, PlansInv
<1>2. Extends(history', history) /\ clock \in Nat
  BY HistoryFacts DEF Inv, StoreInv, HistoryInv
<1>3. HandlersInv'
  <2>1. HandlerOK(op, history', DOMAIN secrets', clock')
    OBVIOUS
  <2>2. DOMAIN secrets \subseteq DOMAIN secrets' /\ clock' \in Nat /\ clock <= clock'
    BY <1>2
  <2> QED BY <1>2, <2>1, <2>2, HandlersStep
<1>4. ops'[o] = op /\ \A u \in Operators : u # o => ops'[u] = ops[u]
  BY OpsStep DEF Inv
<1>5. StampsInv'
  BY <1>4 DEF Inv, StampsInv
<1> QED BY <1>1, <1>3, <1>5 DEF Inv

\* A handler stamps the version it is about to write.
LEMMA WriterStep ==
  ASSUME Inv, NEW o \in Operators, NEW op,
         HandlerOK(op, history, DOMAIN secrets, clock + 1), op.at = clock + 1,
         clock < MaxClock, clock' = clock + 1, keys' \in 0..MaxKeys,
         ops' = [ops EXCEPT ![o] = op],
         UNCHANGED <<desired, history, secrets, plans, keyed>>
  PROVE  Inv'
<1>0. clock \in Nat /\ clock' \in Nat /\ clock <= clock' /\ MaxClock \in Nat
  BY DesiredConstants DEF Inv, StoreInv
<1>1. StoreInv'
  <2>1. clock' \in 0..MaxClock
    BY <1>0
  <2> QED BY <2>1 DEF Inv, StoreInv
<1>2. HistoryInv'
  <2>1. \A i \in 1..Len(history) : history[i].at \in 1..clock => history[i].at \in 1..clock'
    BY <1>0
  <2>2. HistoryOK(history, clock')
    BY <2>1 DEF Inv, HistoryInv, HistoryOK
  <2> QED BY <2>2 DEF Inv, HistoryInv
<1>3. PlansInv'
  BY DEF Inv, PlansInv
<1>4. Extends(history', history)
  BY HistoryFacts DEF Inv, HistoryInv
<1>5. HandlersInv'
  <2>1. HandlerOK(op, history', DOMAIN secrets', clock')
    OBVIOUS
  <2>2. DOMAIN secrets \subseteq DOMAIN secrets'
    OBVIOUS
  <2> QED BY <1>0, <1>4, <2>1, <2>2, HandlersStep
<1>6. ops'[o] = op /\ \A u \in Operators : u # o => ops'[u] = ops[u]
  BY OpsStep DEF Inv
<1>7. \A i \in 1..Len(history) : history[i].at # clock + 1
  BY <1>0 DEF Inv, HistoryInv, HistoryOK
<1>8. \A u \in Operators : Writing(ops[u]) => ops[u].at # clock + 1
  <2>1. \A u \in Operators : Writing(ops[u]) => ops[u].at \in 1..clock
    BY DEF Inv, HandlersInv, HandlerOK
  <2> QED BY <1>0, <2>1
<1>9. StampsInv'
  BY <1>6, <1>7, <1>8 DEF Inv, StampsInv
<1> QED BY <1>1, <1>2, <1>3, <1>5, <1>9 DEF Inv

\* A version is recorded, and its handler is done.
LEMMA RecordStep ==
  ASSUME Inv, NEW o \in Operators, NEW c, NEW at, Good(c), at \in 1..clock',
         clock' \in Nat, clock <= clock', clock' <= MaxClock,
         \A i \in 1..Len(history) : history[i].at # at,
         \A u \in Operators : Writing(ops[u]) /\ u # o => ops[u].at # at,
         history' = Append(history, [config |-> c, at |-> at]), desired' = c,
         ops' = [ops EXCEPT ![o] = Idle],
         keyed' \subseteq DOMAIN secrets,
         UNCHANGED <<secrets, keys, plans>>
  PROVE  Inv'
<1>0. clock \in Nat /\ MaxClock \in Nat
  BY DesiredConstants DEF Inv, StoreInv
<1>1. PICK e : e = [config |-> c, at |-> at]
  OBVIOUS
<1>2. e.config = c /\ e.at = at /\ e \in [config : Configs, at : Nat]
  <2>1. c \in Configs /\ at \in Nat
    BY ConfigsAre DEF Good
  <2> QED BY <1>1, <2>1
<1>3. PICK S : S = [config : Configs, at : Nat]
  OBVIOUS
<1>4. history \in Seq(S) /\ e \in S /\ history' = Append(history, e)
  BY <1>1, <1>2, <1>3 DEF Inv, HistoryInv, HistoryOK
<1>5. PICK n : n = Len(history)
  OBVIOUS
<1>6. /\ n \in Nat /\ history' \in Seq(S) /\ Len(history') = n + 1
      /\ history'[n + 1] = e
      /\ \A i \in 1..n : history'[i] = history[i]
  BY <1>4, <1>5, AppendProperties, LenProperties
<1>7. \A i \in 1..(n + 1) : i \in 1..n \/ i = n + 1
  BY <1>6
<1>8. Extends(history', history)
  BY <1>5, <1>6 DEF Extends
<1>9. HistoryOK(history', clock')
  <2>1. \A i \in 1..n : Good(history[i].config) /\ history[i].at \in 1..clock
    BY <1>5 DEF Inv, HistoryInv, HistoryOK
  <2>2. 1..clock \subseteq 1..clock'
    BY <1>0
  <2>3. \A i \in 1..(n + 1) : Good(history'[i].config) /\ history'[i].at \in 1..clock'
    BY <1>2, <1>6, <1>7, <2>1, <2>2
  <2>4. ASSUME NEW i \in 1..(n + 1), NEW j \in 1..(n + 1), history'[i].at = history'[j].at
        PROVE  i = j
    <3>1. CASE i \in 1..n /\ j \in 1..n
      BY <1>5, <1>6, <2>4, <3>1 DEF Inv, HistoryInv, HistoryOK
    <3>2. CASE i = n + 1 /\ j \in 1..n
      BY <1>2, <1>5, <1>6, <2>4, <3>2
    <3>3. CASE j = n + 1 /\ i \in 1..n
      BY <1>2, <1>5, <1>6, <2>4, <3>3
    <3> QED BY <1>7, <3>1, <3>2, <3>3
  <2> QED BY <1>3, <1>6, <2>3, <2>4 DEF HistoryOK
<1>10. HistoryInv'
  <2>1. history' # <<>>
    BY <1>6, <1>9, HistoryFacts
  <2>2. Last(history') = e
    BY <1>6 DEF Last
  <2> QED BY <1>2, <1>9, <2>1, <2>2 DEF HistoryInv
<1>11. StoreInv'
  <2>1. clock' \in 0..MaxClock
    BY <1>0
  <2> QED BY <2>1 DEF Inv, StoreInv
<1>12. PlansInv'
  <2>1. \A p \in plans : PlanOK(p, history', DOMAIN secrets')
    BY <1>8, PlanKept DEF Inv, PlansInv
  <2> QED BY <2>1 DEF Inv, PlansInv
<1>13. HandlerOK(Idle, history', DOMAIN secrets', clock') /\ ~Writing(Idle)
  BY DEF HandlerOK, Idle, Writing
<1>14. HandlersInv'
  <2>1. PICK op : op = Idle
    OBVIOUS
  <2>2. HandlerOK(op, history', DOMAIN secrets', clock') /\ ops' = [ops EXCEPT ![o] = op]
    BY <1>13, <2>1
  <2>3. DOMAIN secrets \subseteq DOMAIN secrets'
    OBVIOUS
  <2> QED BY <1>8, <2>2, <2>3, HandlersStep
<1>15. ops'[o] = Idle /\ \A u \in Operators : u # o => ops'[u] = ops[u]
  BY OpsStep DEF Inv
<1>16. StampsInv'
  <2>1. ASSUME NEW u \in Operators, Writing(ops'[u]), NEW i \in 1..(n + 1)
        PROVE  history'[i].at # ops'[u].at
    <3>1. u # o /\ ops'[u] = ops[u] /\ Writing(ops[u])
      BY <1>13, <1>15, <2>1
    <3>2. CASE i \in 1..n
      BY <1>5, <1>6, <3>1, <3>2 DEF Inv, StampsInv
    <3>3. CASE i = n + 1
      BY <1>2, <1>6, <3>1, <3>3
    <3> QED BY <1>7, <3>2, <3>3
  <2>2. ASSUME NEW u \in Operators, NEW v \in Operators,
               Writing(ops'[u]), Writing(ops'[v]), u # v
        PROVE  ops'[u].at # ops'[v].at
    BY <1>13, <1>15, <2>2 DEF Inv, StampsInv
  <2> QED BY <1>6, <2>1, <2>2 DEF StampsInv
<1> QED BY <1>10, <1>11, <1>12, <1>14, <1>16 DEF Inv

-----------------------------------------------------------------------------
(* The actions                                                               *)

\* A handler that is done relies on nothing.
LEMMA IdleOK ==
  ASSUME NEW h, NEW s, NEW c
  PROVE  HandlerOK(Idle, h, s, c) /\ ~Writing(Idle)
BY DEF HandlerOK, Idle, Writing

\* What a handler needs that is about to record a version.
LEMMA SetterOK ==
  ASSUME NEW op, op.step = "set", Good(op.config), NEW s, op.keyed \subseteq s,
         NEW c, op.at \in 1..c, NEW h
  PROVE  HandlerOK(op, h, s, c)
BY DEF HandlerOK, Writing

\* What a handler needs that is about to store a key.
LEMMA SecretOK ==
  ASSUME NEW op, op.step = "secret", {"step", "config", "at", "keyed"} \subseteq DOMAIN op,
         Good(op.config), op.key \in 1..MaxKeys,
         NEW e \in Envs, op.keyed = {e},
         NEW c, op.at \in 1..c, NEW s, NEW h
  PROVE  HandlerOK(op, h, s, c)
BY DEF HandlerOK, Writing

\* The current configuration decodes, and is a version once there is one.
LEMMA CurrentVersion ==
  ASSUME Inv
  PROVE  /\ IsConfig(desired)
         /\ history # <<>> => IsVersion(desired, history)
<1>1. Len(history) \in Nat /\ (history = <<>> <=> Len(history) = 0)
  BY HistoryFacts DEF Inv, HistoryInv
<1>2. CASE history = <<>>
  BY <1>2, NoConfigIsConfig DEF Inv, HistoryInv
<1>3. CASE history # <<>>
  <2>1. desired = history[Len(history)].config /\ Len(history) \in 1..Len(history)
    BY <1>1, <1>3 DEF Inv, HistoryInv, Last
  <2> QED BY <2>1 DEF Inv, HistoryInv, HistoryOK, Good, IsVersion
<1> QED BY <1>2, <1>3

\* The store at the start.
LEMMA InitInv == Init => Inv
<1> SUFFICES ASSUME Init PROVE Inv
  OBVIOUS
<1>1. history = <<>> /\ secrets = <<>> /\ Len(history) = 0 /\ DOMAIN secrets = {}
  BY NothingIn, EmptySeq DEF Init
<1>2. 1..Len(history) = {}
  BY <1>1
<1>3. HistoryInv
  <2>1. history \in Seq([config : Configs, at : Nat])
    BY <1>1, EmptySeq
  <2> QED BY <1>1, <1>2, <2>1 DEF Init, HistoryInv, HistoryOK
<1>4. StoreInv
  <2>1. 0 \in 0..MaxClock /\ 0 \in 0..MaxKeys
    BY DesiredConstants
  <2> QED BY <1>1, <2>1 DEF Init, StoreInv
<1>5. \A o \in Operators : ops[o] = Idle
  BY DEF Init
<1>6. HandlersInv
  BY <1>5, IdleOK DEF Init, HandlersInv
<1>7. StampsInv
  BY <1>5, IdleOK DEF StampsInv
<1>8. PlansInv
  <2>1. 0 <= MaxPlans
    BY DesiredConstants
  <2> QED BY <2>1, FS_EmptySet DEF Init, PlansInv
<1> QED BY <1>3, <1>4, <1>6, <1>7, <1>8 DEF Inv

\* A validated version and a fresh reading: what the three ways to a new version share.
LEMMA SetStep ==
  ASSUME Inv, NEW o \in Operators, NEW op, op.step = "set", op.keyed = {},
         Good(op.config), op.at = clock + 1, ReadClock, keys' \in 0..MaxKeys,
         ops' = [ops EXCEPT ![o] = op],
         UNCHANGED <<desired, history, secrets, plans, keyed>>
  PROVE  Inv'
<1>1. clock \in Nat /\ clock < MaxClock /\ clock' = clock + 1 /\ op.at \in 1..(clock + 1)
  BY DEF Inv, StoreInv, ReadClock
<1>2. HandlerOK(op, history, DOMAIN secrets, clock + 1)
  BY <1>1, SetterOK
<1> QED BY <1>1, <1>2, WriterStep

\* PUT of a configuration.
LEMMA PutConfigStep ==
  ASSUME Inv, NEW o \in Operators, NEW c \in Inputs, desiredConfig(o, c)
  PROVE  Inv'
<1>1. PICK op : op = [step |-> "set", config |-> c, at |-> clock + 1, keyed |-> {}]
  OBVIOUS
<1>2. op.step = "set" /\ op.keyed = {} /\ op.config = c /\ op.at = clock + 1
  BY <1>1
<1>3. Good(c)
  BY DesiredInputs DEF desiredConfig, Good
<1>4. /\ ReadClock /\ ops' = [ops EXCEPT ![o] = op]
      /\ UNCHANGED <<desired, history, secrets, keys, plans, keyed>>
  BY <1>1 DEF desiredConfig, Become
<1>5. keys' \in 0..MaxKeys
  BY <1>4 DEF Inv, StoreInv
<1> QED BY <1>2, <1>3, <1>4, <1>5, SetStep

\* DELETE of a provider.
LEMMA DeleteStep ==
  ASSUME Inv, NEW o \in Operators, NEW t \in Scopes, NEW name, DeleteProvider(o, t, name)
  PROVE  Inv'
<1>1. PICK c : c = RemoveProviderDefinition(desired, t, name)
  OBVIOUS
<1>2. PICK op : op = [step |-> "set", config |-> c, at |-> clock + 1, keyed |-> {}]
  OBVIOUS
<1>3. op.step = "set" /\ op.keyed = {} /\ op.config = c /\ op.at = clock + 1
  BY <1>2
<1>4. PICK l : l = At(desired.providers, providerScopeLayer(t), <<>>)
  OBVIOUS
<1>5. DOMAIN l # {}
  BY <1>4 DEF DeleteProvider
<1>6. providerScopeLayer(t) \in DOMAIN desired.providers
  BY <1>4, <1>5, NothingIn DEF At
<1>7. IsConfig(c)
  BY <1>1, <1>6, CurrentVersion, RemoveKeepsConfig, DesiredConstants
<1>8. ValidateDesiredConfigValues(c)
  BY <1>1 DEF DeleteProvider
<1>9. /\ ReadClock /\ ops' = [ops EXCEPT ![o] = op]
      /\ UNCHANGED <<desired, history, secrets, keys, plans, keyed>>
  BY <1>1, <1>2 DEF DeleteProvider, Become
<1>10. keys' \in 0..MaxKeys
  BY <1>9 DEF Inv, StoreInv
<1>11. Good(op.config)
  BY <1>3, <1>7, <1>8 DEF Good
<1> QED BY <1>3, <1>9, <1>10, <1>11, SetStep

\* The entry that is put, with its variable derived, is one a catalog can hold, and
\* with a key it has a variable.
LEMMA DerivedDefinition ==
  ASSUME NEW d \in PutDefs, NEW key, NEW d2,
         d2 = [d EXCEPT !.apiKeyEnv = deriveProviderAPIKeyEnv(d, key)],
         validateProviderDefinitions(<<d2>>)
  PROVE  /\ d2 \in Definition
         /\ key # None => d2.apiKeyEnv \in Envs
<1>1. d \in Definition
  BY DesiredInputs
<1>2. PICK n, e : d = [name |-> n, apiKeyEnv |-> e] /\ n \in Spellings \cup {Bad} /\ e \in Envs \cup {Blank, Bad}
  BY <1>1 DEF Definition
<1>3. PICK e2 : e2 = deriveProviderAPIKeyEnv(d, key)
  OBVIOUS
<1>4. d2 = [name |-> n, apiKeyEnv |-> e2]
  BY <1>2, <1>3
<1>5. d2.name = n /\ d2.apiKeyEnv = e2 /\ d.name = n /\ d.apiKeyEnv = e
  BY <1>2, <1>4
<1>6. 1 \in DOMAIN <<d2>> /\ <<d2>>[1] = d2
  OBVIOUS
<1>7. n # Bad /\ e2 # Bad
  BY <1>5, <1>6 DEF validateProviderDefinitions, ValidValue
<1>8. n \in Spellings /\ EnvOf[n] \in Envs /\ Blank \notin Envs
  BY <1>2, <1>7, DesiredConstants
<1>9. e2 = IF key # None /\ e = Blank THEN EnvOf[n] ELSE e
  BY <1>3, <1>5 DEF deriveProviderAPIKeyEnv
<1>10. e2 \in Envs \cup {Blank} /\ (key # None => e2 \in Envs)
  BY <1>2, <1>7, <1>8, <1>9
<1> QED BY <1>4, <1>5, <1>8, <1>10 DEF Definition

\* PUT of a provider, with and without a key.
LEMMA PutProviderStep ==
  ASSUME Inv, NEW o \in Operators, NEW t \in Scopes, NEW d \in PutDefs, NEW key,
         key \in {None} \cup {k \in 1..MaxKeys : k = keys + 1},
         PutProvider(o, t, [d EXCEPT !.apiKeyEnv = deriveProviderAPIKeyEnv(d, key)], key)
  PROVE  Inv'
<1>1. PICK d2 : d2 = [d EXCEPT !.apiKeyEnv = deriveProviderAPIKeyEnv(d, key)]
  OBVIOUS
<1>2. PutProvider(o, t, d2, key)
  BY <1>1
<1>3. PICK first : first = IF key = None THEN "set" ELSE "secret"
  OBVIOUS
<1>4. PutProviderBy(o, t, d2, key, first)
  BY <1>2, <1>3 DEF PutProvider
<1>5. d2 \in Definition /\ (key # None => d2.apiKeyEnv \in Envs)
  BY <1>1, <1>4, DerivedDefinition DEF PutProviderBy
<1>6. PICK c : c = UpsertProviderDefinition(desired, t, d2)
  OBVIOUS
<1>7. IsConfig(c)
  BY <1>5, <1>6, CurrentVersion, UpsertKeepsConfig, DesiredConstants
<1>8. Good(c)
  BY <1>4, <1>6, <1>7 DEF PutProviderBy, Good
<1>9. PICK ks : ks = IF key = None THEN {} ELSE {d2.apiKeyEnv}
  OBVIOUS
<1>10. PICK op : op = [step |-> first, config |-> c, at |-> clock + 1, key |-> key, keyed |-> ks]
  OBVIOUS
<1>11. /\ op.step = first /\ op.config = c /\ op.at = clock + 1 /\ op.key = key /\ op.keyed = ks
       /\ {"step", "config", "at", "keyed"} \subseteq DOMAIN op
  BY <1>10
<1>12. /\ ReadClock /\ keys' = IF key = None THEN keys ELSE key
       /\ ops' = [ops EXCEPT ![o] = op]
       /\ UNCHANGED <<desired, history, secrets, plans, keyed>>
  BY <1>4, <1>6, <1>9, <1>10 DEF PutProviderBy, Become
<1>13. CASE key = None
  <2>1. keys' \in 0..MaxKeys
    BY <1>12, <1>13 DEF Inv, StoreInv
  <2>2. op.step = "set" /\ op.keyed = {} /\ Good(op.config)
    BY <1>3, <1>8, <1>9, <1>11, <1>13
  <2> QED BY <1>11, <1>12, <2>1, <2>2, SetStep
<1>14. CASE key # None
  <2>1. key \in 1..MaxKeys /\ keys' = key /\ MaxKeys \in Nat
    BY <1>12, <1>14, DesiredConstants
  <2>2. keys' \in 0..MaxKeys
    BY <2>1
  <2>3. op.step = "secret" /\ op.key \in 1..MaxKeys /\ op.keyed = {d2.apiKeyEnv} /\ Good(op.config)
    BY <1>3, <1>8, <1>9, <1>11, <1>14, <2>1
  <2>4. clock \in Nat /\ clock < MaxClock /\ clock' = clock + 1 /\ op.at \in 1..(clock + 1)
    BY <1>11, <1>12 DEF Inv, StoreInv, ReadClock
  <2>5. HandlerOK(op, history, DOMAIN secrets, clock + 1)
    BY <1>5, <1>11, <1>14, <2>3, <2>4, SecretOK
  <2> QED BY <1>11, <1>12, <2>2, <2>4, <2>5, WriterStep
<1> QED BY <1>13, <1>14

\* The key is stored before the entry.
LEMMA StoreSecretStep ==
  ASSUME Inv, NEW o \in Operators, storeSecret(o)
  PROVE  Inv'
<1>1. PICK old : old = ops[o]
  OBVIOUS
<1>2. old.step = "secret" /\ HandlerOK(old, history, DOMAIN secrets, clock) /\ Writing(old)
  BY <1>1 DEF storeSecret, Inv, HandlersInv, Writing
<1>3. PICK e \in Envs : old.keyed = {e}
  BY <1>2 DEF HandlerOK
<1>4. PICK op : op = [old EXCEPT !.step = "set"]
  OBVIOUS
<1>5. ops' = [ops EXCEPT ![o] = op]
  BY <1>1, <1>4 DEF storeSecret, Become
<1>6. secrets' = Put(secrets, e, old.key)
  BY <1>1, <1>3 DEF storeSecret, SetProviderSecret
<1>7. DOMAIN secrets' = DOMAIN secrets \cup {e} /\ \A x \in DOMAIN secrets' : secrets'[x] = IF x = e THEN old.key ELSE secrets[x]
  BY <1>6 DEF Put
<1>8. UNCHANGED <<desired, history, clock, keys, plans, keyed>>
  BY DEF storeSecret
<1>9. StoreInv'
  <2>1. old.key \in 1..MaxKeys
    BY <1>2 DEF HandlerOK
  <2> QED BY <1>7, <1>8, <2>1 DEF Inv, StoreInv
<1>10. Extends(history', history) /\ clock \in Nat
  BY <1>8, HistoryFacts DEF Inv, HistoryInv, StoreInv
<1>12. op.step = "set" /\ op.config = old.config /\ op.at = old.at /\ op.keyed = old.keyed
  <2>1. {"step", "config", "at", "keyed"} \subseteq DOMAIN old
    BY <1>2 DEF HandlerOK
  <2> QED BY <1>4, <2>1
<1>13. HandlerOK(op, history', DOMAIN secrets', clock')
  <2>1. Good(op.config) /\ op.at \in 1..clock' /\ op.keyed \subseteq DOMAIN secrets'
    BY <1>2, <1>3, <1>7, <1>8, <1>12 DEF HandlerOK
  <2> QED BY <1>12, <2>1, SetterOK
<1>14. HandlersInv'
  <2>1. DOMAIN secrets \subseteq DOMAIN secrets' /\ clock' \in Nat /\ clock <= clock'
    BY <1>7, <1>8, <1>10
  <2> QED BY <1>5, <1>10, <1>13, <2>1, HandlersStep
<1>15. ops'[o] = op /\ \A u \in Operators : u # o => ops'[u] = ops[u]
  BY <1>5, OpsStep DEF Inv
<1>16. StampsInv'
  <2>1. \A u \in Operators : ops'[u].at = ops[u].at /\ (Writing(ops'[u]) => Writing(ops[u]))
    BY <1>1, <1>2, <1>12, <1>15
  <2> QED BY <1>8, <2>1 DEF Inv, StampsInv
<1>17. HistoryInv'
  BY <1>8 DEF Inv, HistoryInv
<1>18. PlansInv'
  <2>1. \A p \in plans : PlanOK(p, history', DOMAIN secrets')
    BY <1>7, <1>10, PlanKept DEF Inv, PlansInv
  <2> QED BY <1>8, <2>1 DEF Inv, PlansInv
<1> QED BY <1>9, <1>14, <1>16, <1>17, <1>18 DEF Inv

\* The version is recorded.
LEMMA RecordDesiredStep ==
  ASSUME Inv, NEW o \in Operators, recordDesired(o)
  PROVE  Inv'
<1>1. PICK c, at, ks : c = ops[o].config /\ at = ops[o].at /\ ks = ops[o].keyed
  OBVIOUS
<1>2. ops[o].step = "set" /\ HandlerOK(ops[o], history, DOMAIN secrets, clock) /\ Writing(ops[o])
  BY DEF recordDesired, Inv, HandlersInv, Writing
<1>3. Good(c) /\ at \in 1..clock /\ ks \subseteq DOMAIN secrets
  BY <1>1, <1>2 DEF HandlerOK
<1>4. /\ history' = Append(history, [config |-> c, at |-> at])
      /\ ops' = [ops EXCEPT ![o] = Idle] /\ keyed' = keyed \cup ks
      /\ UNCHANGED <<secrets, clock, keys, plans>>
  BY <1>1 DEF recordDesired, SetDesiredConfig, insertDesiredConfigTx, newDesiredConfigHistoryEntry, Become
<1>5. desired' = c
  BY <1>1 DEF recordDesired, SetDesiredConfig, insertDesiredConfigTx, newDesiredConfigHistoryEntry
<1>6. /\ \A i \in 1..Len(history) : history[i].at # at
      /\ \A u \in Operators : Writing(ops[u]) /\ u # o => ops[u].at # at
  BY <1>1, <1>2 DEF Inv, StampsInv
<1>7. clock' \in Nat /\ clock <= clock' /\ clock' <= MaxClock /\ at \in 1..clock'
  BY <1>3, <1>4, DesiredConstants DEF Inv, StoreInv
<1>8. keyed' \subseteq DOMAIN secrets
  BY <1>3, <1>4 DEF Inv, StoreInv
<1>9. UNCHANGED <<secrets, keys, plans>>
  BY <1>4
<1> QED BY <1>3, <1>4, <1>5, <1>6, <1>7, <1>8, <1>9, RecordStep

\* An old version is restored as a new one.
LEMMA RevertFoundStep ==
  ASSUME Inv, NEW o \in Operators, RevertFound(o)
  PROVE  Inv'
<1>1. PICK c, at : c = history[ops[o].id].config /\ at = clock + 1
  OBVIOUS
<1>2. ops[o].step = "revert" /\ HandlerOK(ops[o], history, DOMAIN secrets, clock)
  BY DEF RevertFound, Inv, HandlersInv
<1>3. ops[o].id \in 1..Len(history)
  BY <1>2 DEF HandlerOK
<1>4. Good(c)
  BY <1>1, <1>3 DEF Inv, HistoryInv, HistoryOK
<1>5. clock \in Nat /\ MaxClock \in Nat
  BY DesiredConstants DEF Inv, StoreInv
<1>6. /\ clock < MaxClock /\ clock' = at
      /\ ops' = [ops EXCEPT ![o] = Idle]
      /\ UNCHANGED <<secrets, keys, plans, keyed>>
  BY <1>1 DEF RevertFound, RevertDesiredConfig, ReadClock, Become
<1>7. history' = Append(history, [config |-> c, at |-> at])
  BY <1>1, <1>6 DEF RevertFound, RevertDesiredConfig, insertDesiredConfigTx, newDesiredConfigHistoryEntry
<1>8. desired' = c
  BY <1>1 DEF RevertFound, RevertDesiredConfig, insertDesiredConfigTx, newDesiredConfigHistoryEntry
<1>9. \A i \in 1..Len(history) : history[i].at # at
  <2>1. \A i \in 1..Len(history) : history[i].at \in 1..clock
    BY DEF Inv, HistoryInv, HistoryOK
  <2> QED BY <1>1, <1>5, <2>1
<1>10. \A u \in Operators : Writing(ops[u]) /\ u # o => ops[u].at # at
  <2>1. \A u \in Operators : Writing(ops[u]) => ops[u].at \in 1..clock
    BY DEF Inv, HandlersInv, HandlerOK
  <2> QED BY <1>1, <1>5, <2>1
<1>11. clock' \in Nat /\ clock <= clock' /\ clock' <= MaxClock /\ at \in 1..clock'
  BY <1>1, <1>5, <1>6
<1>12. keyed' \subseteq DOMAIN secrets /\ UNCHANGED <<secrets, keys, plans>>
  BY <1>6 DEF Inv, StoreInv
<1> QED BY <1>4, <1>6, <1>7, <1>8, <1>9, <1>10, <1>11, <1>12, RecordStep

\* A search has read no page yet.
LEMMA StartRevertStep ==
  ASSUME Inv, NEW o \in Operators, NEW id \in DOMAIN history, revertDesiredConfig(o, id)
  PROVE  Inv'
<1>1. PICK op : op = [step |-> "count", id |-> id, offset |-> 0, total |-> 0, since |-> Len(history)]
  OBVIOUS
<1>2. /\ op.step = "count" /\ op.id = id /\ op.offset = 0 /\ op.since = Len(history)
      /\ {"step", "id", "offset", "total", "since"} \subseteq DOMAIN op
  BY <1>1
<1>3. Len(history) \in Nat /\ DOMAIN history = 1..Len(history)
  BY HistoryFacts DEF Inv, HistoryInv
<1>4. Missed(op, history)
  <2>1. 1..op.offset = {}
    BY <1>2
  <2> QED BY <2>1 DEF Missed
<1>5. op.offset \in 0..Len(history) /\ op.since \in 0..Len(history)
  BY <1>2, <1>3
<1>6. HandlerOK(op, history, DOMAIN secrets, clock) /\ ~Writing(op)
  BY <1>2, <1>3, <1>4, <1>5 DEF HandlerOK, Writing
<1>7. ops' = [ops EXCEPT ![o] = op] /\ UNCHANGED <<desired, history, secrets, clock, keys, plans, keyed>>
  BY <1>1 DEF revertDesiredConfig, Become
<1> QED BY <1>6, <1>7, QuietStep

\* The entries are counted.
LEMMA CountStep ==
  ASSUME Inv, NEW o \in Operators, CountHistory(o)
  PROVE  Inv'
<1>1. PICK old : old = ops[o]
  OBVIOUS
<1>2. old.step = "count" /\ HandlerOK(old, history, DOMAIN secrets, clock)
  BY <1>1 DEF CountHistory, Inv, HandlersInv
<1>3. PICK op : op = [old EXCEPT !.step = "page", !.total = Len(history)]
  OBVIOUS
<1>4. {"step", "id", "offset", "total", "since"} \subseteq DOMAIN old
  BY <1>2 DEF HandlerOK
<1>5. /\ op.step = "page" /\ op.total = Len(history) /\ op.id = old.id /\ op.offset = old.offset
      /\ op.since = old.since /\ DOMAIN op = DOMAIN old
  BY <1>3, <1>4
<1>6. Missed(old, history) => Missed(op, history)
  BY <1>5 DEF Missed
<1>7. HandlerOK(op, history, DOMAIN secrets, clock) /\ ~Writing(op)
  BY <1>2, <1>4, <1>5, <1>6 DEF HandlerOK, Writing
<1>8. ops' = [ops EXCEPT ![o] = op] /\ UNCHANGED <<desired, history, secrets, clock, keys, plans, keyed>>
  BY <1>1, <1>3 DEF CountHistory, Become
<1> QED BY <1>7, <1>8, QuietStep

\* A handler gives up.
LEMMA ErrorStep ==
  ASSUME Inv, NEW o \in Operators, AnswerError(o)
  PROVE  Inv'
<1>1. PICK op : op = Idle
  OBVIOUS
<1>2. HandlerOK(op, history, DOMAIN secrets, clock) /\ ~Writing(op)
  BY <1>1, IdleOK
<1>3. ops' = [ops EXCEPT ![o] = op] /\ UNCHANGED <<desired, history, secrets, clock, keys, plans, keyed>>
  BY <1>1 DEF AnswerError, Become
<1> QED BY <1>2, <1>3, QuietStep

\* Sorting the history loses no entry.
LEMMA NewestHistory ==
  ASSUME Inv
  PROVE  /\ \A k \in 1..Len(history) : NewestOf(history)[k] \in 1..Len(history)
         /\ \A i \in 1..Len(history) : \E k \in 1..Len(history) : NewestOf(history)[k] = i
<1>1. PICK h : h = history
  OBVIOUS
<1>2. PICK S : S = [config : Configs, at : Nat]
  OBVIOUS
<1>3. h \in Seq(S)
  BY <1>1, <1>2 DEF Inv, HistoryInv, HistoryOK
<1>4. \A i \in 1..Len(h) : h[i].at \in 1..clock
  BY <1>1 DEF Inv, HistoryInv, HistoryOK
<1>5. \A i \in 1..Len(h) : h[i].at \in Nat
  BY <1>4 DEF Inv, StoreInv
<1>6. \A i, j \in 1..Len(h) : h[i].at = h[j].at => i = j
  BY <1>1 DEF Inv, HistoryInv, HistoryOK
<1>7. /\ \A k \in 1..Len(h) : NewestOf(h)[k] \in 1..Len(h)
      /\ \A i \in 1..Len(h) : \E k \in 1..Len(h) : NewestOf(h)[k] = i
  BY <1>3, <1>5, <1>6, NewestFirstAll
<1> QED BY <1>1, <1>7

\* A page: the entries that follow the offset, up to the limit.
LEMMA PageFacts ==
  ASSUME Inv, NEW offset \in 0..Len(history), NEW page, page = ListDesiredConfigHistory(offset)
  PROVE  \E m \in Nat :
           /\ offset <= m /\ m <= Len(history) /\ Len(page) = m - offset
           /\ page = <<>> => m = Len(history)
           /\ \A k \in (offset + 1)..m : NewestOf(history)[k] \in Range(page)
           /\ Range(page) \subseteq 1..Len(history)
<1>1. PICK n : n = Len(history)
  OBVIOUS
<1>2. n \in Nat /\ PageLimit \in Nat /\ PageLimit > 0 /\ offset \in Nat /\ offset <= n
  BY <1>1, HistoryFacts, DesiredConstants DEF Inv, HistoryInv
<1>3. PICK m : m = Min({offset + PageLimit, n})
  OBVIOUS
<1>4. m = IF offset + PageLimit <= n THEN offset + PageLimit ELSE n
  BY <1>2, <1>3, LeastOfTwo
<1>5. /\ m \in Nat /\ offset <= m /\ m <= n /\ (m < offset + 1 => m = n) /\ offset + 1 \in Int
      /\ m - (offset + 1) + 1 = m - offset /\ (offset + 1 > m => m - offset = 0)
  BY <1>2, <1>4
<1>6. PICK b : b = NewestOf(history)
  OBVIOUS
<1>7. \A k \in 1..n : b[k] \in 1..n
  BY <1>1, <1>6, NewestHistory
<1>8. page = SubSeq(b, offset + 1, m)
  BY <1>1, <1>3, <1>6 DEF ListDesiredConfigHistory, NewestFirst, NewestOf
<1>9. \A k \in (offset + 1)..m : k \in 1..n
  BY <1>2, <1>5
<1>10. /\ page \in Seq(1..n) /\ Len(page) = m - offset
       /\ \A i \in 1..(m - offset) : page[i] = b[offset + 1 + i - 1]
  <2>1. \A k \in (offset + 1)..m : b[k] \in 1..n
    BY <1>7, <1>9
  <2>2. m \in Int /\ offset + 1 \in Int
    BY <1>5
  <2>3. /\ page \in Seq(1..n)
        /\ Len(page) = IF offset + 1 <= m THEN m - (offset + 1) + 1 ELSE 0
        /\ \A i \in 1..(m - (offset + 1) + 1) : page[i] = b[offset + 1 + i - 1]
    BY <1>8, <2>1, <2>2, SubSeqProperties
  <2> QED BY <1>2, <1>5, <2>3
<1>11. DOMAIN page = 1..(m - offset) /\ \A i \in DOMAIN page : page[i] \in 1..n
  BY <1>10, LenProperties, ElementOfSeq
<1>12. ASSUME NEW k \in (offset + 1)..m PROVE b[k] \in Range(page)
  <2>1. k - offset \in 1..(m - offset) /\ offset + 1 + (k - offset) - 1 = k
    BY <1>2, <1>5
  <2>2. page[k - offset] = b[k]
    BY <1>10, <2>1
  <2> QED BY <1>11, <2>1, <2>2 DEF Range
<1>13. Range(page) \subseteq 1..n
  BY <1>11 DEF Range
<1>14. page = <<>> => m = n
  <2> SUFFICES ASSUME page = <<>> PROVE m = n
    OBVIOUS
  <2>1. m - offset = 0
    BY <1>10, EmptySeq
  <2> QED BY <1>2, <1>5, <2>1
<1> QED BY <1>1, <1>5, <1>6, <1>10, <1>12, <1>13, <1>14

\* A page is read: the entry is on it, is nowhere, or the search goes on.
LEMMA FindStep ==
  ASSUME Inv, NEW o \in Operators, findDesiredConfigHistoryEntry(o)
  PROVE  Inv'
<1>1. PICK old : old = ops[o]
  OBVIOUS
<1>2. old.step = "page" /\ HandlerOK(old, history, DOMAIN secrets, clock)
  BY <1>1 DEF findDesiredConfigHistoryEntry, Inv, HandlersInv
<1>3. PICK n : n = Len(history)
  OBVIOUS
<1>4. /\ {"step", "id", "offset", "total", "since"} \subseteq DOMAIN old
      /\ old.id \in 1..n /\ old.offset \in 0..n /\ old.since \in 0..n
      /\ n = old.since => Missed(old, history) /\ old.total = old.since
  BY <1>2, <1>3 DEF HandlerOK
<1>5. PICK page : page = ListDesiredConfigHistory(old.offset)
  OBVIOUS
<1>6. n \in Nat
  BY <1>3, HistoryFacts DEF Inv, HistoryInv
<1>7. PICK m \in Nat :
        /\ old.offset <= m /\ m <= n /\ Len(page) = m - old.offset
        /\ page = <<>> => m = n
        /\ \A k \in (old.offset + 1)..m : NewestOf(history)[k] \in Range(page)
  BY <1>3, <1>4, <1>5, PageFacts
<1>8. old.offset + Len(page) = m
  BY <1>4, <1>6, <1>7
<1>9. PICK step : step = CASE old.id \in Range(page) -> "revert"
                           [] old.id \notin Range(page) /\ (page = <<>> \/ m >= old.total) -> "notFound"
                           [] OTHER -> "count"
  OBVIOUS
<1>10. PICK op : op = [old EXCEPT !.offset = m, !.step = step]
  OBVIOUS
<1>11. /\ op.step = step /\ op.offset = m /\ op.id = old.id /\ op.since = old.since
       /\ DOMAIN op = DOMAIN old
  BY <1>4, <1>10
<1>12. ops' = [ops EXCEPT ![o] = op] /\ UNCHANGED <<desired, history, secrets, clock, keys, plans, keyed>>
  BY <1>1, <1>5, <1>8, <1>9, <1>10 DEF findDesiredConfigHistoryEntry, Become
<1>13. old.id \notin Range(page) /\ n = old.since => Missed(op, history)
  <2> SUFFICES ASSUME old.id \notin Range(page), n = old.since, NEW k \in 1..m
               PROVE  NewestOf(history)[k] # old.id
    BY <1>11 DEF Missed
  <2>1. k \in 1..old.offset \/ k \in (old.offset + 1)..m
    BY <1>4, <1>6, <1>7
  <2>2. CASE k \in 1..old.offset
    BY <1>4, <2>2 DEF Missed
  <2>3. CASE k \in (old.offset + 1)..m
    BY <1>7, <2>3
  <2> QED BY <2>1, <2>2, <2>3
<1>14. CASE old.id \in Range(page)
  <2>1. op.step = "revert"
    BY <1>9, <1>11, <1>14
  <2>2. HandlerOK(op, history, DOMAIN secrets, clock) /\ ~Writing(op)
    BY <1>3, <1>4, <1>11, <2>1 DEF HandlerOK, Writing
  <2> QED BY <1>12, <2>2, QuietStep
<1>15. CASE old.id \notin Range(page) /\ (page = <<>> \/ m >= old.total)
  <2>1. op.step = "notFound"
    BY <1>9, <1>11, <1>15
  <2>2. n # old.since
    <3> SUFFICES ASSUME n = old.since PROVE FALSE
      OBVIOUS
    <3>1. m = n
      BY <1>4, <1>6, <1>7, <1>15
    <3>2. \A k \in 1..n : NewestOf(history)[k] # old.id
      BY <1>11, <1>13, <1>15, <3>1 DEF Missed
    <3>3. \E k \in 1..n : NewestOf(history)[k] = old.id
      BY <1>3, <1>4, NewestHistory
    <3> QED BY <3>2, <3>3
  <2>3. op.since \in Nat /\ Len(history) > op.since
    BY <1>3, <1>4, <1>6, <1>11, <2>2
  <2>4. HandlerOK(op, history, DOMAIN secrets, clock) /\ ~Writing(op)
    BY <2>1, <2>3 DEF HandlerOK, Writing
  <2> QED BY <1>12, <2>4, QuietStep
<1>16. CASE old.id \notin Range(page) /\ ~(page = <<>> \/ m >= old.total)
  <2>1. op.step = "count"
    BY <1>9, <1>11, <1>16
  <2>2. /\ op.id \in 1..Len(history) /\ op.offset \in 0..Len(history) /\ op.since \in 0..Len(history)
        /\ {"step", "id", "offset", "total", "since"} \subseteq DOMAIN op
    BY <1>3, <1>4, <1>6, <1>7, <1>11
  <2>3. Len(history) = op.since => Missed(op, history)
    BY <1>3, <1>11, <1>13, <1>16
  <2>4. HandlerOK(op, history, DOMAIN secrets, clock) /\ ~Writing(op)
    BY <2>1, <2>2, <2>3 DEF HandlerOK, Writing
  <2> QED BY <1>12, <2>4, QuietStep
<1> QED BY <1>14, <1>15, <1>16

\* Nothing is selected before there is a version.
LEMMA NothingSelected ==
  ASSUME NEW t
  PROVE  EffectiveProviderModelConfig(NoConfig, t) = NoSelection
<1>1. \A l : At(NoConfig.overrides, l, NoSelection) = NoSelection
  BY NothingIn DEF At, NoConfig
<1>2. mergeProviderModel(NoSelection, NoSelection) = NoSelection
  BY DEF mergeProviderModel, NoSelection
<1> QED BY <1>1, <1>2 DEF EffectiveProviderModelConfig

\* A plan is made from the current version: there is one, as its selection is complete.
LEMMA CreateJobStep ==
  ASSUME Inv, NEW o \in Operators, NEW t \in Targets, createConfigApplyJob(o, t)
  PROVE  Inv'
<1>1. PICK c : c = desired
  OBVIOUS
<1>2. PICK op : op = [step |-> "plan", target |-> t, config |-> c]
  OBVIOUS
<1>3. op.step = "plan" /\ op.target = t /\ op.config = c
  BY <1>2
<1>4. Applicable(c, t)
  BY <1>1 DEF createConfigApplyJob, Applicable
<1>5. history # <<>>
  <2> SUFFICES ASSUME history = <<>> PROVE FALSE
    OBVIOUS
  <2>1. c = NoConfig
    BY <1>1 DEF Inv, HistoryInv
  <2>2. ValidateProviderModelSelection(NoSelection)
    BY <1>4, <2>1, NothingSelected DEF Applicable
  <2> QED BY <2>2 DEF ValidateProviderModelSelection, ValidValue, NoSelection
<1>6. IsVersion(c, history)
  BY <1>1, <1>5, CurrentVersion
<1>7. HandlerOK(op, history, DOMAIN secrets, clock) /\ ~Writing(op)
  BY <1>3, <1>4, <1>6 DEF HandlerOK, Writing
<1>8. ops' = [ops EXCEPT ![o] = op] /\ UNCHANGED <<desired, history, secrets, clock, keys, plans, keyed>>
  BY <1>1, <1>2 DEF createConfigApplyJob, Become
<1> QED BY <1>7, <1>8, QuietStep

\* A plan's catalog is marked with the keys there are.
LEMMA PlanJobStep ==
  ASSUME Inv, NEW o \in Operators, CreatePlanJob(o)
  PROVE  Inv'
<1>1. PICK t, c : t = ops[o].target /\ c = ops[o].config
  OBVIOUS
<1>2. IsVersion(c, history) /\ Applicable(c, t)
  <2>1. ops[o].step = "plan" /\ HandlerOK(ops[o], history, DOMAIN secrets, clock)
    BY DEF CreatePlanJob, Inv, HandlersInv
  <2> QED BY <1>1, <2>1 DEF HandlerOK
<1>3. PICK catalog : catalog = EffectiveProviderCatalog(c, t)
  OBVIOUS
<1>4. PICK ps : ps = providerDefinitionsWithSecretState(catalog)
  OBVIOUS
<1>5. ps = {[def |-> d, managed |-> d.apiKeyEnv \in DOMAIN secrets] : d \in catalog}
  BY <1>4 DEF providerDefinitionsWithSecretState, HasProviderSecret
<1>6. {q.def : q \in ps} = catalog
  <2>1. ASSUME NEW q \in ps PROVE q.def \in catalog
    BY <1>5
  <2>2. ASSUME NEW d \in catalog PROVE \E q \in ps : q.def = d
    <3>1. PICK q : q = [def |-> d, managed |-> d.apiKeyEnv \in DOMAIN secrets]
      OBVIOUS
    <3>2. q \in ps /\ q.def = d
      BY <1>5, <3>1
    <3> QED BY <3>2
  <2> QED BY <2>1, <2>2
<1>7. ASSUME NEW q \in ps, q.managed PROVE q.def.apiKeyEnv \in DOMAIN secrets
  <2>1. PICK d, b : q = [def |-> d, managed |-> b] /\ b = (d.apiKeyEnv \in DOMAIN secrets)
    BY <1>5, <1>7
  <2>2. q.def = d /\ q.managed = b
    BY <2>1
  <2> QED BY <1>7, <2>1, <2>2, Zenon
<1>8. PICK p : p = [target |-> t, config |-> c, desired |-> EffectiveProviderModelConfig(c, t), providers |-> ps]
  OBVIOUS
<1>9. /\ p.target = t /\ p.config = c /\ p.providers = ps
      /\ p.desired = EffectiveProviderModelConfig(c, t)
  BY <1>8
<1>10. PlanOK(p, history, DOMAIN secrets)
  BY <1>2, <1>3, <1>6, <1>7, <1>9 DEF PlanOK
<1>11. /\ Cardinality(plans) < MaxPlans /\ plans' = plans \cup {p}
       /\ ops' = [ops EXCEPT ![o] = Idle]
       /\ UNCHANGED <<desired, history, secrets, clock, keys, keyed>>
  BY <1>1, <1>3, <1>4, <1>8 DEF CreatePlanJob, Plan, Become
<1>12. PlansInv'
  <2>1. IsFiniteSet(plans) /\ Cardinality(plans) \in Nat /\ MaxPlans \in Nat
    BY FS_CardinalityType, DesiredConstants DEF Inv, PlansInv
  <2>2. IsFiniteSet(plans') /\ Cardinality(plans') <= Cardinality(plans) + 1 /\ Cardinality(plans') \in Nat
    <3>1. PICK S : S = plans
      OBVIOUS
    <3>2. /\ IsFiniteSet(S \cup {p})
          /\ Cardinality(S \cup {p}) = IF p \in S THEN Cardinality(S) ELSE Cardinality(S) + 1
      BY <2>1, <3>1, FS_AddElement
    <3>3. plans' = S \cup {p}
      BY <1>11, <3>1
    <3> QED BY <2>1, <3>1, <3>2, <3>3
  <2>3. Cardinality(plans') <= MaxPlans
    BY <1>11, <2>1, <2>2
  <2>4. \A q \in plans' : PlanOK(q, history', DOMAIN secrets')
    BY <1>10, <1>11 DEF Inv, PlansInv
  <2> QED BY <2>2, <2>3, <2>4 DEF PlansInv
<1>13. StoreInv' /\ HistoryInv'
  BY <1>11 DEF Inv, StoreInv, HistoryInv
<1>14. HandlersInv'
  <2>1. PICK op : op = Idle
    OBVIOUS
  <2>2. HandlerOK(op, history', DOMAIN secrets', clock') /\ ops' = [ops EXCEPT ![o] = op]
    BY <1>11, <2>1, IdleOK
  <2>3. Extends(history', history) /\ clock' \in Nat /\ clock <= clock' /\ DOMAIN secrets \subseteq DOMAIN secrets'
    BY <1>11, HistoryFacts DEF Inv, HistoryInv, StoreInv
  <2> QED BY <2>2, <2>3, HandlersStep
<1>15. ops'[o] = Idle /\ \A u \in Operators : u # o => ops'[u] = ops[u]
  BY <1>11, OpsStep DEF Inv
<1>16. StampsInv'
  BY <1>11, <1>15, IdleOK DEF Inv, StampsInv
<1> QED BY <1>12, <1>13, <1>14, <1>16 DEF Inv

\* The invariant does not depend on the last probe.
LEMMA SameInv ==
  ASSUME Inv, UNCHANGED <<desired, history, secrets, clock, keys, ops, plans, keyed>>
  PROVE  Inv'
BY DEF Inv, StoreInv, HistoryInv, HandlersInv, StampsInv, PlansInv

\* Every step preserves the invariant.
LEMMA NextInv ==
  ASSUME Inv, [Next]_vars
  PROVE  Inv'
<1>1. CASE UNCHANGED vars
  BY <1>1, SameInv DEF vars
<1>2. CASE \E n \in Nodes : (\E report \in Reports : DeepProbe(n, report)) \/ DropProbe(n)
  BY <1>2, SameInv DEF DeepProbe, DropProbe
<1>3. ASSUME NEW o \in Operators, NEW t \in Scopes, NEW d \in PutDefs,
             NEW key \in {None} \cup {k \in 1..MaxKeys : k = keys + 1},
             PutProvider(o, t, [d EXCEPT !.apiKeyEnv = deriveProviderAPIKeyEnv(d, key)], key)
      PROVE  Inv'
  BY <1>3, PutProviderStep
<1>4. ASSUME NEW o \in Operators, NEW t \in Scopes, NEW name \in Spellings, DeleteProvider(o, t, name)
      PROVE  Inv'
  BY <1>4, DeleteStep
<1>5. ASSUME NEW o \in Operators,
             \/ \E c \in Inputs : desiredConfig(o, c)
             \/ storeSecret(o) \/ recordDesired(o)
             \/ \E id \in DOMAIN history : revertDesiredConfig(o, id)
             \/ CountHistory(o) \/ findDesiredConfigHistoryEntry(o) \/ RevertFound(o)
             \/ AnswerError(o)
             \/ \E t \in Targets : createConfigApplyJob(o, t)
             \/ CreatePlanJob(o)
      PROVE  Inv'
  BY <1>5, PutConfigStep, StoreSecretStep, RecordDesiredStep, StartRevertStep, CountStep,
     FindStep, RevertFoundStep, ErrorStep, CreateJobStep, PlanJobStep
<1> QED BY <1>1, <1>2, <1>3, <1>4, <1>5 DEF Next

\* The invariant holds.
LEMMA Invariance == Spec => []Inv
<1>1. Inv /\ [Next]_vars => Inv'
  BY NextInv
<1> QED BY InitInv, <1>1, PTL DEF Spec

\* Part of a list of reports is a list of reports.
LEMMA PartOfReports ==
  ASSUME NEW s \in Seq(Reports), NEW m \in Nat \ {0}, NEW n \in Int, n <= Len(s)
  PROVE  SubSeq(s, m, n) \in Seq(Reports) /\ Len(SubSeq(s, m, n)) = IF m <= n THEN n - m + 1 ELSE 0
<1>1. Len(s) \in Nat
  BY LenProperties
<1>2. \A i \in m..n : i \in 1..Len(s)
  BY <1>1
<1>3. \A i \in m..n : s[i] \in Reports
  BY <1>2, ElementOfSeq
<1>4. m \in Int
  OBVIOUS
<1> QED BY <1>3, <1>4, SubSeqProperties

\* A probe that completes, or that is no longer listed, leaves a list of reports.
LEMMA ReportsListed ==
  ASSUME NEW s \in Seq(Reports)
  PROVE  /\ \A i \in 1..Len(s) + 1, r \in Reports :
              InsertAt(s, i, r) \in Seq(Reports) /\ Len(InsertAt(s, i, r)) = Len(s) + 1
         /\ \A i \in 1..Len(s) : RemoveAt(s, i) \in Seq(Reports) /\ Len(RemoveAt(s, i)) = Len(s) - 1
<1>1. Len(s) \in Nat
  BY LenProperties
<1>2. ASSUME NEW i \in 1..Len(s) + 1, NEW r \in Reports
      PROVE  InsertAt(s, i, r) \in Seq(Reports) /\ Len(InsertAt(s, i, r)) = Len(s) + 1
  <2>1. PICK a, b : a = SubSeq(s, 1, i-1) /\ b = SubSeq(s, i, Len(s))
    OBVIOUS
  <2>2. /\ 1 \in Nat \ {0} /\ i - 1 \in Int /\ i - 1 <= Len(s)
        /\ i \in Nat \ {0} /\ Len(s) \in Int /\ Len(s) <= Len(s)
    BY <1>1
  <2>3. a \in Seq(Reports) /\ Len(a) = i - 1
    BY <1>1, <2>1, <2>2, PartOfReports
  <2>4. b \in Seq(Reports) /\ Len(b) = Len(s) - i + 1
    BY <1>1, <2>1, <2>2, PartOfReports
  <2>5. <<r>> \in Seq(Reports) /\ Len(<<r>>) = 1
    OBVIOUS
  <2>6. PICK c : c = a \o <<r>>
    OBVIOUS
  <2>7. c \in Seq(Reports) /\ Len(c) = Len(a) + Len(<<r>>)
    BY <2>3, <2>5, <2>6, ConcatProperties
  <2>8. c \o b \in Seq(Reports) /\ Len(c \o b) = Len(c) + Len(b)
    BY <2>4, <2>7, ConcatProperties
  <2>9. Len(c) + Len(b) = Len(s) + 1
    BY <1>1, <2>3, <2>4, <2>5, <2>7
  <2> QED BY <2>1, <2>6, <2>8, <2>9 DEF InsertAt
<1>3. ASSUME NEW i \in 1..Len(s)
      PROVE  RemoveAt(s, i) \in Seq(Reports) /\ Len(RemoveAt(s, i)) = Len(s) - 1
  <2>1. PICK a, b : a = SubSeq(s, 1, i-1) /\ b = SubSeq(s, i+1, Len(s))
    OBVIOUS
  <2>2. /\ 1 \in Nat \ {0} /\ i - 1 \in Int /\ i - 1 <= Len(s)
        /\ i + 1 \in Nat \ {0} /\ Len(s) \in Int /\ Len(s) <= Len(s)
    BY <1>1
  <2>3. a \in Seq(Reports) /\ Len(a) = i - 1
    BY <1>1, <2>1, <2>2, PartOfReports
  <2>4. b \in Seq(Reports) /\ Len(b) = Len(s) - i
    <3>1. Len(b) = IF i + 1 <= Len(s) THEN Len(s) - (i + 1) + 1 ELSE 0
      BY <2>1, <2>2, PartOfReports
    <3> QED BY <1>1, <2>1, <2>2, <3>1, PartOfReports
  <2>5. a \o b \in Seq(Reports) /\ Len(a \o b) = Len(a) + Len(b)
    BY <2>3, <2>4, ConcatProperties
  <2>6. Len(a) + Len(b) = Len(s) - 1
    BY <1>1, <2>3, <2>4
  <2> QED BY <2>1, <2>5, <2>6 DEF RemoveAt
<1> QED BY <1>2, <1>3

\* What the job lists show of deep probes.
ProbesInv ==
  /\ probes \in [Nodes -> Seq(Reports)]
  /\ \A n \in Nodes : Len(probes[n]) <= MaxProbes

\* Probes are completed and dropped one by one, and no other step touches them.
LEMMA ProbesListed == Spec => []ProbesInv
<1>1. Init => ProbesInv
  <2>1. <<>> \in Seq(Reports) /\ Len(<<>>) = 0 /\ MaxProbes \in Nat
    BY EmptySeq, DesiredConstants
  <2> QED BY <2>1 DEF Init, ProbesInv
<1>2. ProbesInv /\ [Next]_vars => ProbesInv'
  <2> SUFFICES ASSUME ProbesInv, [Next]_vars PROVE ProbesInv'
    OBVIOUS
  <2>1. CASE UNCHANGED probes
    BY <2>1 DEF ProbesInv
  <2>2. ASSUME NEW n \in Nodes, NEW s, probes' = [probes EXCEPT ![n] = s],
               s \in Seq(Reports), Len(s) <= MaxProbes
        PROVE  ProbesInv'
    BY <2>2 DEF ProbesInv
  <2>3. ASSUME NEW n \in Nodes, NEW report \in Reports, DeepProbe(n, report) PROVE ProbesInv'
    <3>1. PICK i \in 1..Len(probes[n]) + 1 : probes' = [probes EXCEPT ![n] = InsertAt(@, i, report)]
      BY <2>3 DEF DeepProbe
    <3>2. PICK s : s = InsertAt(probes[n], i, report)
      OBVIOUS
    <3>3. probes[n] \in Seq(Reports) /\ Len(probes[n]) \in Nat
      BY LenProperties DEF ProbesInv
    <3>4. s \in Seq(Reports) /\ Len(s) = Len(probes[n]) + 1
      BY <3>2, <3>3, ReportsListed
    <3>5. Len(s) <= MaxProbes
      BY <2>3, <3>3, <3>4, DesiredConstants DEF DeepProbe
    <3>6. probes' = [probes EXCEPT ![n] = s]
      BY <3>1, <3>2
    <3> QED BY <2>2, <3>4, <3>5, <3>6
  <2>4. ASSUME NEW n \in Nodes, DropProbe(n) PROVE ProbesInv'
    <3>1. PICK i \in DOMAIN probes[n] : probes' = [probes EXCEPT ![n] = RemoveAt(@, i)]
      BY <2>4 DEF DropProbe
    <3>2. PICK s : s = RemoveAt(probes[n], i)
      OBVIOUS
    <3>3. /\ probes[n] \in Seq(Reports) /\ Len(probes[n]) \in Nat /\ Len(probes[n]) <= MaxProbes
          /\ DOMAIN probes[n] = 1..Len(probes[n])
      BY LenProperties DEF ProbesInv
    <3>4. s \in Seq(Reports) /\ Len(s) = Len(probes[n]) - 1
      BY <3>2, <3>3, ReportsListed
    <3>5. Len(s) <= MaxProbes
      BY <3>3, <3>4, DesiredConstants
    <3>6. probes' = [probes EXCEPT ![n] = s]
      BY <3>1, <3>2
    <3> QED BY <2>2, <3>4, <3>5, <3>6
  <2>5. ASSUME NEW o \in Operators, NEW t \in Scopes, NEW d, NEW key,
               PutProvider(o, t, d, key) \/ DeleteProvider(o, t, d)
        PROVE  UNCHANGED probes
    BY <2>5 DEF PutProvider, PutProviderBy, DeleteProvider
  <2>6. ASSUME NEW o \in Operators,
               \/ \E c \in Inputs : desiredConfig(o, c)
               \/ storeSecret(o) \/ recordDesired(o)
               \/ \E id \in DOMAIN history : revertDesiredConfig(o, id)
               \/ CountHistory(o) \/ findDesiredConfigHistoryEntry(o) \/ RevertFound(o)
               \/ AnswerError(o)
               \/ \E t \in Targets : createConfigApplyJob(o, t)
               \/ CreatePlanJob(o)
        PROVE  UNCHANGED probes
    BY <2>6 DEF desiredConfig, storeSecret, recordDesired, revertDesiredConfig, CountHistory,
         findDesiredConfigHistoryEntry, RevertFound, AnswerError, createConfigApplyJob, CreatePlanJob
  <2> QED BY <2>1, <2>3, <2>4, <2>5, <2>6 DEF vars, Next
<1> QED BY <1>1, <1>2, PTL DEF Spec

-----------------------------------------------------------------------------
(* The properties                                                            *)

\* A catalog without a name twice has as many names as entries.
LEMMA NamesOnce ==
  ASSUME NEW defs \in Seq(Definition), validateProviderDefinitions(defs)
  PROVE  Cardinality({Fold(d.name) : d \in Range(defs)}) = Len(defs)
<1>1. PICK n : n = Len(defs)
  OBVIOUS
<1>2. n \in Nat /\ DOMAIN defs = 1..n
  BY <1>1, LenProperties
<1> DEFINE f == [i \in 1..n |-> Fold(defs[i].name)]
           N == {Fold(d.name) : d \in Range(defs)}
<1>3. f \in [1..n -> N]
  BY <1>2 DEF Range
<1>4. \A i, j \in 1..n : f[i] = f[j] => i = j
  BY <1>2 DEF validateProviderDefinitions
<1>5. \A x \in N : \E i \in 1..n : f[i] = x
  BY <1>2 DEF Range
<1> HIDE DEF f, N
<1>6. f \in Bijection(1..n, N)
  <2>1. f \in Injection(1..n, N)
    BY <1>3, <1>4 DEF Injection, IsInjective
  <2>2. f \in Surjection(1..n, N)
    BY <1>3, <1>5 DEF Surjection
  <2> QED BY <2>1, <2>2 DEF Bijection
<1>7. IsFiniteSet(1..n) /\ Cardinality(1..n) = n
  BY <1>2, UpTo
<1>8. Cardinality(N) = n
  BY <1>6, <1>7, FS_Bijection DEF ExistsBijection
<1> QED BY <1>1, <1>8 DEF N

\* What the validators accept.
LEMMA GoodIsSound ==
  ASSUME NEW c, Good(c)
  PROVE  /\ \A l \in DOMAIN c.overrides : Bad \notin Range(c.overrides[l])
         /\ \A l \in DOMAIN c.providers :
              /\ \A d \in Range(c.providers[l]) : Bad \notin Range(d)
              /\ Cardinality({Fold(d.name) : d \in Range(c.providers[l])}) = Len(c.providers[l])
<1>1. ASSUME NEW l \in DOMAIN c.overrides PROVE Bad \notin Range(c.overrides[l])
  <2>1. PICK s : s = c.overrides[l]
    OBVIOUS
  <2>2. s \in Selection /\ s.provider # Bad /\ s.model # Bad
    BY <2>1 DEF Good, IsConfig, ValidateDesiredConfigValues, ValidValue
  <2>3. DOMAIN s = {"provider", "model"}
    BY <2>2 DEF Selection
  <2>4. Bad \notin Range(s)
    BY <2>2, <2>3 DEF Range
  <2> QED BY <2>1, <2>4
<1>2. ASSUME NEW l \in DOMAIN c.providers
      PROVE  /\ \A d \in Range(c.providers[l]) : Bad \notin Range(d)
             /\ Cardinality({Fold(d.name) : d \in Range(c.providers[l])}) = Len(c.providers[l])
  <2>1. PICK s : s = c.providers[l]
    OBVIOUS
  <2>2. s \in Seq(Definition) /\ validateProviderDefinitions(s)
    BY <2>1 DEF Good, IsConfig, ValidateDesiredConfigValues, Catalogs
  <2>3. ASSUME NEW d \in Range(s) PROVE Bad \notin Range(d)
    <3>1. PICK i \in DOMAIN s : d = s[i]
      BY DEF Range
    <3>2. d \in Definition
      BY <2>2, <3>1, LenProperties, ElementOfSeq
    <3>3. d.name # Bad /\ d.apiKeyEnv # Bad
      BY <2>2, <3>1 DEF validateProviderDefinitions, ValidValue
    <3>4. DOMAIN d = {"name", "apiKeyEnv"}
      BY <3>2 DEF Definition
    <3> QED BY <3>3, <3>4 DEF Range
  <2>4. Cardinality({Fold(d.name) : d \in Range(s)}) = Len(s)
    BY <2>2, NamesOnce
  <2> QED BY <2>1, <2>3, <2>4
<1> QED BY <1>1, <1>2

\* SetDesiredConfig, RevertDesiredConfig, PutProvider, DeleteProvider: for every set of
\* operators and inputs, the current version is the one recorded last and no version
\* on record has a bad value or a provider twice in a layer.
THEOREM VersionsStaySound == Spec => []VersionsAreSound
<1>1. ASSUME Inv, ProbesInv PROVE VersionsAreSound
  <2>1. Len(history) \in Nat /\ DOMAIN history = 1..Len(history)
    BY <1>1, HistoryFacts DEF Inv, HistoryInv
  <2>2. \A i \in DOMAIN history : Good(history[i].config) /\ history[i].at \in 1..clock
    BY <1>1, <2>1 DEF Inv, HistoryInv, HistoryOK
  <2>3. clock \in 0..MaxClock /\ MaxClock \in Nat
    BY <1>1, DesiredConstants DEF Inv, StoreInv
  <2>4. DesiredTypeOK
    <3>1. IsConfig(desired)
      BY <1>1, CurrentVersion
    <3>2. \A i \in DOMAIN history : IsConfig(history[i].config) /\ history[i].at \in 1..MaxClock
      BY <2>2, <2>3 DEF Good
    <3>3. /\ DOMAIN secrets \subseteq Envs /\ Range(secrets) \subseteq 1..MaxKeys
          /\ clock \in 0..MaxClock /\ keys \in 0..MaxKeys /\ keyed \subseteq Envs
      BY <1>1 DEF Inv, StoreInv, Range
    <3>4. DOMAIN ops = Operators
      BY <1>1 DEF Inv, HandlersInv
    <3>5. \A o \in Operators : ops[o].step \in
            {"idle", "set", "secret", "count", "page", "revert", "notFound", "plan"}
      BY <1>1 DEF Inv, HandlersInv, HandlerOK
    <3>6. Cardinality(plans) <= MaxPlans
      BY <1>1 DEF Inv, PlansInv
    <3>7. \A n \in Nodes : Len(probes[n]) <= MaxProbes /\ Range(probes[n]) \subseteq Reports
      <4>1. \A n \in Nodes : probes[n] \in Seq(Reports) /\ Len(probes[n]) <= MaxProbes
        BY <1>1 DEF ProbesInv
      <4>2. \A n \in Nodes : Range(probes[n]) \subseteq Reports
        BY <4>1, LenProperties, ElementOfSeq DEF Range
      <4> QED BY <4>1, <4>2
    <3> QED BY <3>1, <3>2, <3>3, <3>4, <3>5, <3>6, <3>7 DEF DesiredTypeOK
  <2>5. desired = IF history = <<>> THEN NoConfig ELSE Last(history).config
    BY <1>1 DEF Inv, HistoryInv
  <2> QED BY <2>2, <2>4, <2>5, GoodIsSound DEF VersionsAreSound
<1> QED BY <1>1, Invariance, ProbesListed, PTL

\* configProviders, configApplySecrets: for every set of operators and keys, an entry
\* on record that came with a key is shown as managed, and a plan's managed keys are
\* exactly the ones its node is given.
THEOREM KeysStayServed == Spec => []KeysAreServed
<1>1. ASSUME Inv PROVE KeysAreServed
  <2>1. KeyBeforeCatalog
    <3> SUFFICES ASSUME NEW t \in Targets, NEW q \in providerCatalogResponse(t), q.def.apiKeyEnv \in keyed
                 PROVE  q.managed
      BY DEF KeyBeforeCatalog
    <3>1. PICK d, b : q = [def |-> d, managed |-> b] /\ b = (d.apiKeyEnv \in DOMAIN secrets)
      BY DEF providerCatalogResponse, providerDefinitionsWithSecretState, HasProviderSecret
    <3>2. q.def = d /\ q.managed = b
      BY <3>1
    <3>3. d.apiKeyEnv \in DOMAIN secrets
      BY <1>1, <3>2 DEF Inv, StoreInv
    <3> QED BY <3>1, <3>2, <3>3, Zenon
  <2>2. ManagedKeysServed
    <3> SUFFICES ASSUME NEW p \in plans
                 PROVE  {served[1] : served \in configApplySecrets(p)} = managedProviderEnvNames(p)
      BY DEF ManagedKeysServed
    <3>1. PlanOK(p, history, DOMAIN secrets)
      BY <1>1 DEF Inv, PlansInv
    <3>2. ASSUME NEW e \in managedProviderEnvNames(p) PROVE GetProviderSecret(e) # None
      <4>1. e \in DOMAIN secrets
        BY <3>1 DEF managedProviderEnvNames, PlanOK
      <4>2. secrets[e] \in 1..MaxKeys
        BY <1>1, <4>1 DEF Inv, StoreInv
      <4>3. secrets[e] # None
        BY <4>2, DesiredConstants
      <4> QED BY <4>1, <4>3 DEF GetProviderSecret, At
    <3> DEFINE E == managedProviderEnvNames(p)
    <3>3. configApplySecrets(p) = {<<e, GetProviderSecret(e)>> : e \in E}
      BY <3>2 DEF configApplySecrets
    <3> HIDE DEF E
    <3>4. \A e, g : <<e, g>>[1] = e
      OBVIOUS
    <3>5. \A served \in configApplySecrets(p) : served[1] \in E
      BY <3>3, <3>4
    <3>6. ASSUME NEW e \in E PROVE \E served \in configApplySecrets(p) : served[1] = e
      <4>1. PICK served : served = <<e, GetProviderSecret(e)>>
        OBVIOUS
      <4>2. served \in configApplySecrets(p) /\ served[1] = e
        BY <3>3, <4>1
      <4> QED BY <4>2
    <3>7. {served[1] : served \in configApplySecrets(p)} = E
      BY <3>5, <3>6
    <3> QED BY <3>7 DEF E
  <2> QED BY <2>1, <2>2 DEF KeysAreServed
<1> QED BY <1>1, Invariance, PTL

\* The merge of selections is a selection.
LEMMA EffectiveType ==
  ASSUME NEW c, IsConfig(c), NEW t
  PROVE  EffectiveProviderModelConfig(c, t) \in Selection
<1>1. NoSelection \in Selection
  BY DEF NoSelection, Selection
<1>2. \A l : At(c.overrides, l, NoSelection) \in Selection
  BY <1>1 DEF IsConfig, At
<1>3. \A a, b \in Selection : mergeProviderModel(a, b) \in Selection
  BY DEF mergeProviderModel, Selection
<1> QED BY <1>2, <1>3 DEF EffectiveProviderModelConfig

\* createConfigApplyJob: whatever is recorded between the reading of the configuration
\* and the creation of the job, a plan's selection is complete and comes, like its
\* catalog, from one version on record.
THEOREM PlansComeFromOneVersion == Spec => []PlanFromOneVersion
<1>1. ASSUME Inv PROVE PlanFromOneVersion
  <2> SUFFICES ASSUME NEW p \in plans
               PROVE  /\ p.desired.provider \in Values /\ p.desired.model \in Values
                      /\ \E i \in DOMAIN history :
                           /\ p.desired = EffectiveProviderModelConfig(history[i].config, p.target)
                           /\ {q.def : q \in p.providers} = EffectiveProviderCatalog(history[i].config, p.target)
    BY DEF PlanFromOneVersion
  <2>1. PlanOK(p, history, DOMAIN secrets)
    BY <1>1 DEF Inv, PlansInv
  <2>2. PICK i \in 1..Len(history) : history[i].config = p.config
    BY <2>1 DEF PlanOK, IsVersion
  <2>3. i \in DOMAIN history /\ IsConfig(p.config)
    BY <1>1, <2>2, HistoryFacts DEF Inv, HistoryInv, HistoryOK, Good
  <2>4. p.desired \in Selection
    BY <2>1, <2>3, EffectiveType DEF PlanOK
  <2>5. p.desired.provider \notin {Blank, Bad} /\ p.desired.model \notin {Blank, Bad}
    BY <2>1 DEF PlanOK, Applicable, ValidateProviderModelSelection, ValidValue
  <2>6. p.desired.provider \in Values /\ p.desired.model \in Values
    BY <2>4, <2>5 DEF Selection
  <2> QED BY <2>1, <2>2, <2>3, <2>6 DEF PlanOK
<1> QED BY <1>1, Invariance, PTL

\* findDesiredConfigHistoryEntry: for every page size and length of the history, an
\* entry that exists is missed only when a version was recorded during the search.
THEOREM EntriesAreFound == Spec => []FoundUnlessOvertaken
<1>1. ASSUME Inv PROVE FoundUnlessOvertaken
  BY <1>1 DEF Inv, HandlersInv, HandlerOK, FoundUnlessOvertaken
<1> QED BY <1>1, Invariance, PTL

\* Four layers, of which the last one that has something wins.
LEMMA LastOfFour ==
  ASSUME NEW S, S \subseteq {1, 2, 3, 4}, S # {}
  PROVE  (CHOOSE k \in S : \A j \in S : j <= k) =
           IF 4 \in S THEN 4 ELSE IF 3 \in S THEN 3 ELSE IF 2 \in S THEN 2 ELSE 1
<1>1. PICK i : i = IF 4 \in S THEN 4 ELSE IF 3 \in S THEN 3 ELSE IF 2 \in S THEN 2 ELSE 1
  OBVIOUS
<1>2. i \in S /\ i \in Nat
  BY <1>1
<1>3. ASSUME NEW j \in S PROVE j <= i
  <2>1. j = 1 \/ j = 2 \/ j = 3 \/ j = 4
    OBVIOUS
  <2> QED BY <1>1, <2>1
<1>4. ASSUME NEW k \in S, \A j \in S : j <= k PROVE k = i
  <2>1. k <= i /\ i <= k
    BY <1>2, <1>3, <1>4
  <2>2. k \in Nat
    OBVIOUS
  <2> QED BY <1>2, <2>1, <2>2
<1>5. (CHOOSE k \in S : \A j \in S : j <= k) = i
  BY <1>2, <1>3, <1>4
<1> QED BY <1>1, <1>5

\* EffectiveProviderModelConfig: for every set of targets and inputs, a target gets
\* for provider and for model what the most specific layer that sets that field says.
THEOREM EffectiveIsMostSpecific == Spec => []EffectiveFollowsPrecedence
<1>1. ASSUME Inv PROVE EffectiveFollowsPrecedence
  <2> SUFFICES ASSUME NEW t \in Targets, NEW field \in {"provider", "model"}
               PROVE  EffectiveProviderModelConfig(desired, t)[field] = MostSpecific(desired, t, field)
    BY DEF EffectiveFollowsPrecedence
  <2>1. PICK ls : ls = LayersOf(t)
    OBVIOUS
  <2>2. PICK ov : ov = desired.overrides
    OBVIOUS
  <2>3. /\ DOMAIN ls = {1, 2, 3, 4} /\ ls[1] = GlobalLayer /\ ls[2] = NodeLayer(t)
        /\ ls[3] = RuntimeProfileLayer(t) /\ ls[4] = NodeRuntimeProfileLayer(t)
    BY <2>1 DEF LayersOf
  <2>4. PICK v : v = [i \in {1, 2, 3, 4} |-> At(ov, ls[i], NoSelection)[field]]
    OBVIOUS
  <2>5. \A a, b : mergeProviderModel(a, b)[field] = IF b[field] # Blank THEN b[field] ELSE a[field]
    BY DEF mergeProviderModel
  <2>6. EffectiveProviderModelConfig(desired, t)[field] =
          IF v[4] # Blank THEN v[4] ELSE IF v[3] # Blank THEN v[3]
          ELSE IF v[2] # Blank THEN v[2] ELSE v[1]
    BY <2>2, <2>3, <2>4, <2>5 DEF EffectiveProviderModelConfig
  <2>7. PICK S : S = {i \in {1, 2, 3, 4} : v[i] # Blank}
    OBVIOUS
  <2>8. S = {i \in DOMAIN ls : At(ov, ls[i], NoSelection)[field] # Blank}
    BY <2>3, <2>4, <2>7
  <2>9. ASSUME NEW i \in S PROVE ov[ls[i]][field] = v[i]
    <3>1. NoSelection[field] = Blank
      BY DEF NoSelection
    <3> QED BY <2>4, <2>7, <3>1 DEF At
  <2>10. MostSpecific(desired, t, field) =
           IF S = {} THEN Blank ELSE ov[ls[CHOOSE k \in S : \A j \in S : j <= k]][field]
    BY <2>1, <2>2, <2>8 DEF MostSpecific
  <2>11. CASE S = {}
    BY <2>6, <2>7, <2>10, <2>11
  <2>12. CASE S # {}
    <3>1. PICK i : i = CHOOSE k \in S : \A j \in S : j <= k
      OBVIOUS
    <3>2. i = IF 4 \in S THEN 4 ELSE IF 3 \in S THEN 3 ELSE IF 2 \in S THEN 2 ELSE 1
      BY <2>7, <2>12, <3>1, LastOfFour
    <3>3. i \in S
      BY <2>7, <2>12, <3>2
    <3>4. MostSpecific(desired, t, field) = v[i]
      BY <2>9, <2>10, <2>12, <3>1, <3>3
    <3> QED BY <2>6, <2>7, <2>12, <3>2, <3>4
  <2> QED BY <2>11, <2>12
<1> QED BY <1>1, Invariance, PTL

-----------------------------------------------------------------------------
(* mergeProviderDefinitions: a loop over a layer's entries.  That the loop     *)
(* has a value at every entry, and what it has kept by then, is shown by the   *)
(* first entry at which it would not.                                        *)

\* A set of numbers has a least one.
LEMMA LeastMember ==
  ASSUME NEW B \in SUBSET Nat, B # {}
  PROVE  \E j \in B : \A i \in B : j <= i
<1>1. IsWellFoundedOn(OpToRel(<, Nat), Nat)
  BY NatLessThanWellFounded, Zenon
<1>2. PICK j \in B : ~ \E y \in B : <<y, j>> \in OpToRel(<, Nat)
  BY <1>1, WFMin
<1>3. ASSUME NEW i \in B PROVE j <= i
  <2>1. ~(i < j)
    BY <1>2 DEF OpToRel
  <2> QED BY <2>1
<1> QED BY <1>3

\* What the loop has built after each of its first m entries.
After(f, merged, defs, m) ==
  f = [k \in 0..m |-> IF k = 0 THEN merged ELSE upsertProviderDefinition(f[k - 1], defs[k])]

\* The loop has a value after any number of entries.
LEMMA MergeRuns ==
  ASSUME NEW merged, NEW defs, NEW m \in Nat
  PROVE  \E f : After(f, merged, defs, m)
<1> DEFINE B == {j \in Nat : ~ \E f : After(f, merged, defs, j)}
<1> SUFFICES ASSUME B # {} PROVE FALSE
  OBVIOUS
<1>1. PICK j \in B : \A i \in B : j <= i
  BY LeastMember
<1>2. CASE j = 0
  <2>1. PICK f : f = [k \in 0..0 |-> merged]
    OBVIOUS
  <2>2. After(f, merged, defs, 0)
    BY <2>1 DEF After
  <2> QED BY <1>1, <1>2, <2>2
<1>3. CASE j # 0
  <2>1. j \in Nat /\ j - 1 \in Nat /\ j - 1 \notin B
    BY <1>1, <1>3
  <2>2. PICK f : After(f, merged, defs, j - 1)
    BY <2>1
  <2>3. PICK g : g = [k \in 0..j |-> IF k = j THEN upsertProviderDefinition(f[j - 1], defs[j]) ELSE f[k]]
    OBVIOUS
  <2>4. ASSUME NEW k \in 0..j
        PROVE  g[k] = IF k = 0 THEN merged ELSE upsertProviderDefinition(g[k - 1], defs[k])
    <3>1. CASE k = j
      <4>1. g[k] = upsertProviderDefinition(f[j - 1], defs[j]) /\ g[j - 1] = f[j - 1]
        BY <2>1, <2>3, <3>1
      <4> QED BY <1>3, <3>1, <4>1
    <3>2. CASE k # j
      <4>1. k \in 0..(j - 1) /\ (k # 0 => k - 1 \in 0..j /\ k - 1 # j)
        BY <2>1, <3>2
      <4>2. g[k] = f[k] /\ (k # 0 => g[k - 1] = f[k - 1])
        BY <2>3, <3>2, <4>1
      <4>3. f[k] = IF k = 0 THEN merged ELSE upsertProviderDefinition(f[k - 1], defs[k])
        BY <2>2, <4>1 DEF After
      <4> QED BY <4>2, <4>3
    <3> QED BY <3>1, <3>2
  <2>5. g = [k \in 0..j |-> IF k = 0 THEN merged ELSE upsertProviderDefinition(g[k - 1], defs[k])]
    BY <2>3, <2>4
  <2>6. After(g, merged, defs, j)
    BY <2>5 DEF After
  <2> QED BY <1>1, <2>6
<1> QED BY <1>2, <1>3

\* mergeProviderDefinitions is the last of these values.
LEMMA MergeIsLoop ==
  ASSUME NEW merged, NEW defs, Len(defs) \in Nat
  PROVE  \E f : After(f, merged, defs, Len(defs)) /\ mergeProviderDefinitions(merged, defs) = f[Len(defs)]
<1>1. \E f : After(f, merged, defs, Len(defs))
  BY MergeRuns
<1>2. PICK f : f = CHOOSE g : After(g, merged, defs, Len(defs))
  OBVIOUS
<1>3. After(f, merged, defs, Len(defs))
  BY <1>1, <1>2
<1>4. mergeProviderDefinitions(merged, defs) = f[Len(defs)]
  BY <1>2 DEF mergeProviderDefinitions, After
<1> QED BY <1>3, <1>4

\* The entries of a name, in whatever spelling.
NamedIn(s, n) == {d \in Range(s) : Fold(d.name) = n}

\* upsertProviderDefinition replaces the entry of its name and no other.
LEMMA UpsertNamed ==
  ASSUME NEW s \in Seq(Definition), NEW e \in Definition, NEW n
  PROVE  NamedIn(upsertProviderDefinition(s, e), n) =
           IF n = Fold(e.name) THEN {e} ELSE NamedIn(s, n)
<1>1. PICK r : r = upsertProviderDefinition(s, e)
  OBVIOUS
<1>2. Len(s) \in Nat /\ DOMAIN s = 1..Len(s)
  BY LenProperties
<1>3. \A d : d \in Range(s) <=> \E i \in DOMAIN s : d = s[i]
  BY DEF Range
<1>4. \A d : d \in Range(r) <=> \E i \in DOMAIN r : d = r[i]
  BY DEF Range
<1>5. CASE \E i \in DOMAIN s : Fold(s[i].name) = Fold(e.name)
  <2>1. r = [i \in DOMAIN s |-> IF Fold(s[i].name) = Fold(e.name) THEN e ELSE s[i]]
    BY <1>1, <1>5 DEF upsertProviderDefinition
  <2>2. DOMAIN r = DOMAIN s /\ \A i \in DOMAIN s : r[i] = IF Fold(s[i].name) = Fold(e.name) THEN e ELSE s[i]
    BY <2>1
  <2>3. ASSUME NEW d
        PROVE  (d \in Range(r) /\ Fold(d.name) = n)
                 <=> IF n = Fold(e.name) THEN d = e ELSE (d \in Range(s) /\ Fold(d.name) = n)
    <3>1. CASE n = Fold(e.name)
      BY <1>4, <1>5, <2>2, <3>1
    <3>2. CASE n # Fold(e.name)
      BY <1>3, <1>4, <2>2, <3>2
    <3> QED BY <3>1, <3>2
  <2> QED BY <1>1, <2>3 DEF NamedIn
<1>6. CASE ~ \E i \in DOMAIN s : Fold(s[i].name) = Fold(e.name)
  <2>1. r = Append(s, e)
    BY <1>1, <1>6, Zenon DEF upsertProviderDefinition
  <2>2. /\ DOMAIN r = 1..(Len(s) + 1) /\ r[Len(s) + 1] = e
        /\ \A i \in 1..Len(s) : r[i] = s[i]
    BY <1>2, <2>1, AppendProperties
  <2>3. \A d : d \in Range(r) <=> d \in Range(s) \/ d = e
    <3>1. \A i : i \in 1..(Len(s) + 1) <=> i \in 1..Len(s) \/ i = Len(s) + 1
      BY <1>2
    <3> QED BY <1>2, <1>3, <1>4, <2>2, <3>1
  <2>4. \A d \in Range(s) : Fold(d.name) # Fold(e.name)
    BY <1>3, <1>6
  <2> QED BY <1>1, <2>3, <2>4 DEF NamedIn
<1> QED BY <1>5, <1>6

\* mergeProviderDefinitions: of a name that the layer has, the layer's entry; of any
\* other, what was there.
LEMMA MergeNamed ==
  ASSUME NEW merged \in Seq(Definition), NEW defs \in Seq(Definition), validateProviderDefinitions(defs)
  PROVE  /\ mergeProviderDefinitions(merged, defs) \in Seq(Definition)
         /\ \A n : NamedIn(mergeProviderDefinitions(merged, defs), n) =
                     IF NamedIn(defs, n) # {} THEN NamedIn(defs, n) ELSE NamedIn(merged, n)
<1>1. PICK l : l = Len(defs)
  OBVIOUS
<1>2. l \in Nat /\ DOMAIN defs = 1..l /\ \A i \in 1..l : defs[i] \in Definition
  BY <1>1, LenProperties, ElementOfSeq
<1>3. PICK f : After(f, merged, defs, l) /\ mergeProviderDefinitions(merged, defs) = f[l]
  BY <1>1, <1>2, MergeIsLoop
<1>4. /\ f[0] = merged
      /\ \A k \in 0..l : k # 0 => f[k] = upsertProviderDefinition(f[k - 1], defs[k])
  BY <1>2, <1>3 DEF After
<1> DEFINE Seen(k, n) == {i \in 1..k : Fold(defs[i].name) = n}
           OK(k) == /\ f[k] \in Seq(Definition)
                    /\ \A n : NamedIn(f[k], n) =
                         IF Seen(k, n) # {} THEN {defs[i] : i \in Seen(k, n)} ELSE NamedIn(merged, n)
           B == {k \in 0..l : ~OK(k)}
<1>5. OK(0)
  <2>1. \A n : Seen(0, n) = {}
    OBVIOUS
  <2> QED BY <1>4, <2>1
<1>6. ASSUME NEW k \in 0..l, k # 0, OK(k - 1) PROVE OK(k)
  <2>1. k \in 1..l /\ k - 1 \in 0..l /\ f[k] = upsertProviderDefinition(f[k - 1], defs[k])
    BY <1>2, <1>4, <1>6
  <2>2. f[k - 1] \in Seq(Definition) /\ defs[k] \in Definition
    BY <1>2, <1>6, <2>1
  <2>3. f[k] \in Seq(Definition)
    BY <2>1, <2>2, UpsertType
  <2>4. ASSUME NEW n
        PROVE  NamedIn(f[k], n) =
                 IF Seen(k, n) # {} THEN {defs[i] : i \in Seen(k, n)} ELSE NamedIn(merged, n)
    <3>1. NamedIn(f[k], n) = IF n = Fold(defs[k].name) THEN {defs[k]} ELSE NamedIn(f[k - 1], n)
      <4>1. PICK a, e : a = f[k - 1] /\ e = defs[k]
        OBVIOUS
      <4>2. a \in Seq(Definition) /\ e \in Definition /\ f[k] = upsertProviderDefinition(a, e)
        BY <2>1, <2>2, <4>1
      <4>3. NamedIn(f[k], n) = IF n = Fold(e.name) THEN {e} ELSE NamedIn(a, n)
        BY <4>2, UpsertNamed
      <4> QED BY <4>1, <4>3
    <3>2. \A i : i \in 1..k <=> i \in 1..(k - 1) \/ i = k
      <4>1. k \in Int /\ 1 <= k
        BY <1>2, <2>1
      <4> QED BY <4>1
    <3>3. CASE n = Fold(defs[k].name)
      <4>1. Seen(k, n) = {k}
        BY <1>2, <2>1, <3>3 DEF validateProviderDefinitions
      <4> QED BY <3>1, <3>3, <4>1
    <3>4. CASE n # Fold(defs[k].name)
      <4>1. Seen(k, n) = Seen(k - 1, n)
        BY <3>2, <3>4
      <4> QED BY <1>6, <3>1, <3>4, <4>1
    <3> QED BY <3>3, <3>4
  <2> QED BY <2>3, <2>4
<1> HIDE DEF OK
<1>7. OK(l)
  <2> SUFFICES ASSUME ~OK(l) PROVE FALSE
    OBVIOUS
  <2>1. B \in SUBSET Nat /\ B # {}
    BY <1>2
  <2>2. PICK k \in B : \A i \in B : k <= i
    BY <2>1, LeastMember, Zenon
  <2>3. k \in 0..l /\ k # 0 /\ ~OK(k)
    BY <1>5, <2>2
  <2>4. k - 1 \in 0..l /\ ~(k <= k - 1)
    BY <1>2, <2>3
  <2>5. OK(k - 1)
    BY <2>2, <2>4
  <2> QED BY <1>6, <2>3, <2>5
<1>8. ASSUME NEW n PROVE NamedIn(defs, n) = {defs[i] : i \in Seen(l, n)}
  BY <1>2 DEF NamedIn, Range
<1>9. /\ f[l] \in Seq(Definition)
      /\ \A n : NamedIn(f[l], n) =
           IF Seen(l, n) # {} THEN {defs[i] : i \in Seen(l, n)} ELSE NamedIn(merged, n)
  BY <1>7 DEF OK
<1>10. ASSUME NEW n
       PROVE  NamedIn(f[l], n) = IF NamedIn(defs, n) # {} THEN NamedIn(defs, n) ELSE NamedIn(merged, n)
  <2>1. PICK S : S = Seen(l, n)
    OBVIOUS
  <2>2. NamedIn(defs, n) = {defs[i] : i \in S}
    BY <1>8, <2>1
  <2> HIDE DEF Seen
  <2>3. NamedIn(defs, n) # {} <=> S # {}
    BY <2>2
  <2>4. NamedIn(f[l], n) = IF S # {} THEN {defs[i] : i \in S} ELSE NamedIn(merged, n)
    BY <1>9, <2>1
  <2> QED BY <2>2, <2>3, <2>4
<1> QED BY <1>3, <1>9, <1>10


\* What a target's catalog has of a name is what its most specific layer has of it.
FollowsPrecedence(c, t, n) ==
  LET ls == LayersOf(t)
      Named(i) == {d \in Range(At(c.providers, ls[i], <<>>)) : Fold(d.name) = n}
      defining == {i \in DOMAIN ls : Named(i) # {}}
  IN  {d \in EffectiveProviderCatalog(c, t) : Fold(d.name) = n} =
        IF defining = {} THEN {} ELSE Named(CHOOSE i \in defining : \A j \in defining : j <= i)

\* EffectiveProviderCatalog has of a name what the most specific layer has of it.
LEMMA CatalogOfLayers ==
  ASSUME NEW c, Good(c), NEW t \in Targets, NEW n
  PROVE  FollowsPrecedence(c, t, n)
<1>1. PICK ls : ls = LayersOf(t)
  OBVIOUS
<1>2. PICK pr : pr = c.providers
  OBVIOUS
<1>3. /\ DOMAIN ls = {1, 2, 3, 4} /\ ls[1] = GlobalLayer /\ ls[2] = NodeLayer(t)
      /\ ls[3] = RuntimeProfileLayer(t) /\ ls[4] = NodeRuntimeProfileLayer(t)
  BY <1>1 DEF LayersOf
<1>4. PICK q : q = [i \in {1, 2, 3, 4} |-> At(pr, ls[i], <<>>)]
  OBVIOUS
<1>5. ASSUME NEW i \in {1, 2, 3, 4}
      PROVE  q[i] \in Seq(Definition) /\ validateProviderDefinitions(q[i])
  <2>1. pr \in [DOMAIN pr -> Catalogs] /\ \A l \in DOMAIN pr : validateProviderDefinitions(pr[l])
    BY <1>2 DEF Good, IsConfig, ValidateDesiredConfigValues
  <2>2. CASE ls[i] \in DOMAIN pr
    <3>1. q[i] = pr[ls[i]]
      BY <1>4, <2>2 DEF At
    <3> QED BY <2>1, <2>2, <3>1 DEF Catalogs
  <2>3. CASE ls[i] \notin DOMAIN pr
    <3>1. q[i] = <<>>
      BY <1>4, <2>3 DEF At
    <3> QED BY <3>1, EmptySeq, NothingIn DEF validateProviderDefinitions
  <2> QED BY <2>2, <2>3
<1>a. \A a \in Seq(Definition), b \in Seq(Definition) :
        validateProviderDefinitions(b) =>
          /\ mergeProviderDefinitions(a, b) \in Seq(Definition)
          /\ NamedIn(mergeProviderDefinitions(a, b), n) =
               IF NamedIn(b, n) # {} THEN NamedIn(b, n) ELSE NamedIn(a, n)
  BY MergeNamed
<1>b. /\ q[1] \in Seq(Definition) /\ q[2] \in Seq(Definition)
      /\ q[3] \in Seq(Definition) /\ q[4] \in Seq(Definition)
      /\ validateProviderDefinitions(q[2]) /\ validateProviderDefinitions(q[3])
      /\ validateProviderDefinitions(q[4])
  BY <1>5
<1>6. PICK m2 : m2 = mergeProviderDefinitions(q[1], q[2])
  OBVIOUS
<1>7. m2 \in Seq(Definition) /\ NamedIn(m2, n) = IF NamedIn(q[2], n) # {} THEN NamedIn(q[2], n) ELSE NamedIn(q[1], n)
  BY <1>a, <1>b, <1>6
<1>8. PICK m3 : m3 = mergeProviderDefinitions(m2, q[3])
  OBVIOUS
<1>9. m3 \in Seq(Definition) /\ NamedIn(m3, n) = IF NamedIn(q[3], n) # {} THEN NamedIn(q[3], n) ELSE NamedIn(m2, n)
  BY <1>a, <1>b, <1>7, <1>8
<1>10. PICK m4 : m4 = mergeProviderDefinitions(m3, q[4])
  OBVIOUS
<1>11. NamedIn(m4, n) = IF NamedIn(q[4], n) # {} THEN NamedIn(q[4], n) ELSE NamedIn(m3, n)
  BY <1>a, <1>b, <1>9, <1>10
<1>12. EffectiveProviderCatalog(c, t) = Range(m4)
  BY <1>2, <1>3, <1>4, <1>6, <1>8, <1>10 DEF EffectiveProviderCatalog
<1>13. PICK v : v = [i \in {1, 2, 3, 4} |-> NamedIn(q[i], n)]
  OBVIOUS
<1>14. \A i \in {1, 2, 3, 4} : v[i] = {d \in Range(At(pr, ls[i], <<>>)) : Fold(d.name) = n}
  BY <1>4, <1>13 DEF NamedIn
<1>15. {d \in EffectiveProviderCatalog(c, t) : Fold(d.name) = n} =
         IF v[4] # {} THEN v[4] ELSE IF v[3] # {} THEN v[3] ELSE IF v[2] # {} THEN v[2] ELSE v[1]
  BY <1>7, <1>9, <1>11, <1>12, <1>13 DEF NamedIn
<1> DEFINE Named(i) == {d \in Range(At(c.providers, LayersOf(t)[i], <<>>)) : Fold(d.name) = n}
           S == {i \in DOMAIN LayersOf(t) : Named(i) # {}}
<1>16. \A i \in {1, 2, 3, 4} : Named(i) = v[i]
  BY <1>1, <1>2, <1>14
<1>17. S = {i \in {1, 2, 3, 4} : v[i] # {}}
  BY <1>1, <1>3, <1>16
<1> HIDE DEF S, Named
<1>18. PICK k : k = CHOOSE i \in S : \A j \in S : j <= i
  OBVIOUS
<1>19. CASE S = {}
  BY <1>15, <1>17, <1>19 DEF S, Named, FollowsPrecedence
<1>20. CASE S # {}
  <2>1. k = IF 4 \in S THEN 4 ELSE IF 3 \in S THEN 3 ELSE IF 2 \in S THEN 2 ELSE 1
    BY <1>17, <1>18, <1>20, LastOfFour
  <2>2. {d \in EffectiveProviderCatalog(c, t) : Fold(d.name) = n} = v[k] /\ k \in {1, 2, 3, 4}
    BY <1>15, <1>17, <1>20, <2>1
  <2>3. {d \in EffectiveProviderCatalog(c, t) : Fold(d.name) = n} =
          Named(CHOOSE i \in S : \A j \in S : j <= i)
    BY <1>16, <1>18, <2>2
  <2> QED BY <1>20, <2>3 DEF S, Named, FollowsPrecedence
<1> QED BY <1>19, <1>20


-----------------------------------------------------------------------------
(* Keys of layers                                                            *)

\* A sequence with one more element in front.
LEMMA Prefixed ==
  ASSUME NEW X, NEW x \in X, NEW s \in Seq(X)
  PROVE  /\ <<x>> \o s \in Seq(X)
         /\ Len(<<x>> \o s) = Len(s) + 1
         /\ (<<x>> \o s)[1] = x
         /\ \A i \in 2..(Len(s) + 1) : (<<x>> \o s)[i] = s[i - 1]
<1>1. <<x>> \in Seq(X) /\ Len(<<x>>) = 1 /\ <<x>>[1] = x /\ Len(s) \in Nat
  BY LenProperties
<1>2. PICK r : r = <<x>> \o s
  OBVIOUS
<1>3. /\ r \in Seq(X) /\ Len(r) = 1 + Len(s)
      /\ \A i \in 1..(1 + Len(s)) : r[i] = IF i <= 1 THEN <<x>>[i] ELSE s[i - 1]
  BY <1>1, <1>2, ConcatProperties
<1>4. r[1] = x /\ \A i \in 2..(Len(s) + 1) : r[i] = s[i - 1]
  BY <1>1, <1>3
<1> QED BY <1>1, <1>2, <1>3, <1>4

\* A key after its layer's name can be told from the layer.
LEMMA KeyOfLayer ==
  ASSUME NEW X, NEW k \in Seq(X), NEW h \in Seq(X), NEW x \in X, <<x>> \o k = <<x>> \o h
  PROVE  k = h
<1>1. Len(k) \in Nat /\ Len(h) \in Nat
  BY LenProperties
<1>2. PICK r : r = <<x>> \o k /\ r = <<x>> \o h
  OBVIOUS
<1>3. Len(r) = Len(k) + 1 /\ \A i \in 2..(Len(k) + 1) : r[i] = k[i - 1]
  BY <1>2, Prefixed
<1>4. Len(r) = Len(h) + 1 /\ \A i \in 2..(Len(h) + 1) : r[i] = h[i - 1]
  BY <1>2, Prefixed
<1>5. Len(k) = Len(h)
  BY <1>1, <1>3, <1>4
<1>6. ASSUME NEW i \in 1..Len(k) PROVE k[i] = h[i]
  <2>1. i + 1 \in 2..(Len(k) + 1) /\ i + 1 - 1 = i
    BY <1>1
  <2>2. r[i + 1] = k[i + 1 - 1] /\ r[i + 1] = h[i + 1 - 1]
    BY <1>3, <1>4, <1>5, <2>1
  <2> QED BY <2>1, <2>2
<1> QED BY <1>5, <1>6, SeqEqual

\* Keys are sequences of the parts that are not blank.
LEMMA KeysAreSequences ==
  ASSUME NEW t
  PROVE  /\ RuntimeProfileKey(t) \in Seq({t.node, t.runtimeType, t.profile})
         /\ NodeRuntimeProfileKey(t) \in Seq({t.node, t.runtimeType, t.profile})
<1>1. PICK X : X = {t.node, t.runtimeType, t.profile}
  OBVIOUS
<1>2. \A x \in X : Part(x) \in Seq(X)
  <2>1. <<>> \in Seq(X) /\ \A x \in X : <<x>> \in Seq(X)
    BY EmptySeq
  <2> QED BY <2>1 DEF Part
<1>3. t.node \in X /\ t.runtimeType \in X /\ t.profile \in X
  BY <1>1
<1>4. RuntimeProfileKey(t) \in Seq(X)
  BY <1>2, <1>3, ConcatProperties DEF RuntimeProfileKey
<1>5. NodeRuntimeProfileKey(t) \in Seq(X)
  BY <1>2, <1>3, <1>4, ConcatProperties DEF NodeRuntimeProfileKey
<1> QED BY <1>1, <1>4, <1>5

\* The first element of a layer tells its kind.
LEMMA KindOfLayer ==
  ASSUME NEW X, NEW k \in Seq(X), NEW x
  PROVE  (<<x>> \o k)[1] = x
<1>1. PICK Y : Y = X \cup {x}
  OBVIOUS
<1>2. k \in Seq(Y) /\ x \in Y
  BY <1>1
<1> QED BY <1>2, Prefixed

\* The most specific layers of two targets are the same when their keys are, and no
\* layer of another kind is one of them.
LEMMA LayersDiffer ==
  ASSUME NEW t, NEW u
  PROVE  /\ NodeRuntimeProfileLayer(u) = NodeRuntimeProfileLayer(t)
              <=> NodeRuntimeProfileKey(u) = NodeRuntimeProfileKey(t)
         /\ NodeRuntimeProfileLayer(t) # GlobalLayer
         /\ NodeRuntimeProfileLayer(t) # NodeLayer(u)
         /\ NodeRuntimeProfileLayer(t) # RuntimeProfileLayer(u)
<1> DEFINE name == "nodeRuntimeProfile"
           X == {t.node, t.runtimeType, t.profile}
           Y == {u.node, u.runtimeType, u.profile}
           Z == X \cup Y \cup {name}
<1>1. /\ NodeRuntimeProfileKey(t) \in Seq(X) /\ NodeRuntimeProfileKey(u) \in Seq(Y)
      /\ RuntimeProfileKey(u) \in Seq(Y)
  BY KeysAreSequences
<1>2. NodeRuntimeProfileLayer(t)[1] = name
  BY <1>1, KindOfLayer DEF NodeRuntimeProfileLayer
<1>3. GlobalLayer[1] = "global" /\ NodeLayer(u)[1] = "node"
  BY DEF GlobalLayer, NodeLayer
<1>4. RuntimeProfileLayer(u)[1] = "runtimeProfile"
  BY <1>1, KindOfLayer DEF RuntimeProfileLayer
<1>5. NodeRuntimeProfileKey(t) \in Seq(Z) /\ NodeRuntimeProfileKey(u) \in Seq(Z) /\ name \in Z
  <2>1. X \subseteq Z /\ Y \subseteq Z
    OBVIOUS
  <2>2. Seq(X) \subseteq Seq(Z) /\ Seq(Y) \subseteq Seq(Z)
    BY <2>1
  <2> QED BY <1>1, <2>2
<1>6. NodeRuntimeProfileLayer(u) = NodeRuntimeProfileLayer(t)
        => NodeRuntimeProfileKey(u) = NodeRuntimeProfileKey(t)
  BY <1>5, KeyOfLayer DEF NodeRuntimeProfileLayer
<1>7. NodeRuntimeProfileKey(u) = NodeRuntimeProfileKey(t)
        => NodeRuntimeProfileLayer(u) = NodeRuntimeProfileLayer(t)
  BY DEF NodeRuntimeProfileLayer
<1>8. name # "global" /\ name # "node" /\ name # "runtimeProfile"
  OBVIOUS
<1> QED BY <1>2, <1>3, <1>4, <1>6, <1>7, <1>8

\* A selection that is set for a target is what the merge of every target with the same
\* key ends with; nobody else, whose layers are others, sees it.
LEMMA OverrideSeen ==
  ASSUME NEW c, IsConfig(c), NEW t, NEW u,
         NEW s, s = [provider |-> s.provider, model |-> s.model], s.provider # Blank, s.model # Blank
  PROVE  EffectiveProviderModelConfig(DesiredConfigWithTargetOverride(c, t, s), u) =
           IF NodeRuntimeProfileKey(u) = NodeRuntimeProfileKey(t) THEN s
           ELSE EffectiveProviderModelConfig(c, u)
<1>1. PICK l : l = NodeRuntimeProfileLayer(t)
  OBVIOUS
<1>2. PICK ov, pr : c = [overrides |-> ov, providers |-> pr]
  BY DEF IsConfig
<1>3. PICK new : new = Put(ov, l, s)
  OBVIOUS
<1>4. PICK d : d = DesiredConfigWithTargetOverride(c, t, s)
  OBVIOUS
<1>5. d.overrides = new /\ c.overrides = ov
  BY <1>1, <1>2, <1>3, <1>4 DEF DesiredConfigWithTargetOverride
<1>6. \A k, z : At(new, k, z) = IF k = l THEN s ELSE At(ov, k, z)
  BY <1>3 DEF At, Put
<1>7. /\ GlobalLayer # l /\ NodeLayer(u) # l /\ RuntimeProfileLayer(u) # l
      /\ NodeRuntimeProfileLayer(u) = l <=> NodeRuntimeProfileKey(u) = NodeRuntimeProfileKey(t)
  BY <1>1, LayersDiffer
<1>8. PICK base : base = mergeProviderModel(mergeProviderModel(At(ov, GlobalLayer, NoSelection),
                           At(ov, NodeLayer(u), NoSelection)), At(ov, RuntimeProfileLayer(u), NoSelection))
  OBVIOUS
<1>9. /\ EffectiveProviderModelConfig(d, u) =
           mergeProviderModel(base, At(new, NodeRuntimeProfileLayer(u), NoSelection))
      /\ EffectiveProviderModelConfig(c, u) =
           mergeProviderModel(base, At(ov, NodeRuntimeProfileLayer(u), NoSelection))
  BY <1>5, <1>6, <1>7, <1>8 DEF EffectiveProviderModelConfig
<1>10. mergeProviderModel(base, s) = s
  BY DEF mergeProviderModel
<1> QED BY <1>4, <1>6, <1>7, <1>9, <1>10

\* There is always another value to preview.
LEMMA AnotherValue ==
  ASSUME NEW x
  PROVE  \E v \in Values : v # x
<1> SUFFICES ASSUME \A v \in Values : v = x PROVE FALSE
  OBVIOUS
<1>1. Values \in SUBSET {x}
  OBVIOUS
<1>2. IsFiniteSet({x}) /\ Cardinality({x}) = 1
  BY FS_Singleton
<1>3. Cardinality(Values) <= 1 /\ Cardinality(Values) \in Nat
  BY <1>1, <1>2, FS_Subset, FS_CardinalityType
<1> QED BY <1>3, DesiredConstants

\* EffectiveProviderCatalog: for every set of targets and inputs, a provider that some
\* layer of a target defines, in whatever spelling, is in the target's catalog once, as
\* the most specific layer that defines it has it.
THEOREM CatalogIsMostSpecific == Spec => []CatalogFollowsPrecedence
<1>1. ASSUME Inv PROVE CatalogFollowsPrecedence
  <2>1. Good(desired)
    <3>1. CASE history = <<>>
      <4>1. desired = NoConfig
        BY <1>1, <3>1 DEF Inv, HistoryInv
      <4>2. NoConfig.overrides = <<>> /\ NoConfig.providers = <<>>
        BY DEF NoConfig
      <4>3. ValidateDesiredConfigValues(NoConfig)
        BY <4>2, NothingIn DEF ValidateDesiredConfigValues
      <4> QED BY <4>1, <4>3, NoConfigIsConfig DEF Good
    <3>2. CASE history # <<>>
      BY <1>1, <3>2, CurrentVersion DEF Inv, HistoryInv, HistoryOK, IsVersion
    <3> QED BY <3>1, <3>2
  <2>2. \A t \in Targets : \A n : FollowsPrecedence(desired, t, n)
    BY <2>1, CatalogOfLayers
  <2> QED BY <2>2, Zenon DEF CatalogFollowsPrecedence, FollowsPrecedence
<1> QED BY <1>1, Invariance, PTL

\* previewEffectiveConfig shows the selection for its target's key and changes no other.
LEMMA PreviewsFollow ==
  ASSUME Inv
  PROVE  PreviewTouchesItsKey
<1> SUFFICES ASSUME NEW t \in Targets, t.node # Blank, NEW u \in Targets
             PROVE  LET new == CHOOSE v \in Values : v # EffectiveProviderModelConfig(desired, t).provider
                        request == [provider |-> new, model |-> new]
                    IN  previewEffectiveConfig(t, request, u).effective =
                          IF NodeRuntimeProfileKey(u) = NodeRuntimeProfileKey(t) THEN request
                          ELSE EffectiveProviderModelConfig(desired, u)
  BY DEF PreviewTouchesItsKey
<1> DEFINE new == CHOOSE v \in Values : v # EffectiveProviderModelConfig(desired, t).provider
           request == [provider |-> new, model |-> new]
<1>1. new \in Values
  BY AnotherValue
<1>2. new # Blank
  BY <1>1, DesiredConstants
<1> HIDE DEF new
<1>3. /\ request = [provider |-> request.provider, model |-> request.model]
      /\ request.provider # Blank /\ request.model # Blank
  BY <1>2
<1>4. IsConfig(desired)
  BY CurrentVersion
<1>5. \A s : previewEffectiveConfig(t, s, u).effective =
                  EffectiveProviderModelConfig(DesiredConfigWithTargetOverride(desired, t, s), u)
  BY DEF previewEffectiveConfig, writeEffectiveConfig
<1> HIDE DEF request
<1>6. previewEffectiveConfig(t, request, u).effective =
        IF NodeRuntimeProfileKey(u) = NodeRuntimeProfileKey(t) THEN request
                          ELSE EffectiveProviderModelConfig(desired, u)
  BY <1>3, <1>4, <1>5, OverrideSeen
<1> QED BY <1>6 DEF request, new

\* EffectiveProviderModelConfig, EffectiveProviderCatalog and previewEffectiveConfig: for
\* every set of targets, each gets for each field and each provider what its most specific
\* layer says, and a preview touches exactly the targets that share its target's key.
THEOREM PrecedenceHolds == Spec => []LayersFollowPrecedence
<1>1. Inv => PreviewTouchesItsKey
  BY PreviewsFollow
<1>2. EffectiveFollowsPrecedence /\ CatalogFollowsPrecedence /\ PreviewTouchesItsKey => LayersFollowPrecedence
  BY DEF LayersFollowPrecedence
<1> QED BY <1>1, <1>2, EffectiveIsMostSpecific, CatalogIsMostSpecific, Invariance, PTL

-----------------------------------------------------------------------------
(* Drift                                                                     *)

\* The least of a set of numbers is what FirstIn chooses.
LEMMA FirstIsLeast ==
  ASSUME NEW I \in SUBSET Nat
  PROVE  /\ I # {} => FirstIn(I) \in I /\ \A j \in I : FirstIn(I) <= j
         /\ \A k \in I : (\A j \in I : k <= j) => FirstIn(I) = k
<1>1. ASSUME I # {} PROVE FirstIn(I) \in I /\ \A j \in I : FirstIn(I) <= j
  <2>1. \E j \in I : \A i \in I : j <= i
    BY <1>1, LeastMember
  <2> QED BY <2>1, Zenon DEF FirstIn
<1>2. ASSUME NEW k \in I, \A j \in I : k <= j PROVE FirstIn(I) = k
  <2>1. FirstIn(I) \in I /\ FirstIn(I) <= k /\ k <= FirstIn(I)
    BY <1>1, <1>2
  <2>2. FirstIn(I) \in Nat /\ k \in Nat
    BY <2>1
  <2> QED BY <2>1, <2>2
<1> QED BY <1>1, <1>2

\* latestActualSnapshots: the newest probe that tells anything, of which all newer ones
\* tell nothing.
LEMMA NewestTelling ==
  ASSUME ProbesInv, NEW n \in Nodes
  PROVE  /\ latestActualSnapshots(n) \in Seq(Snapshot)
         /\ latestActualSnapshots(n) # <<>> =>
              \E k \in DOMAIN probes[n] :
                /\ latestActualSnapshots(n) = probes[n][k]
                /\ \A j \in DOMAIN probes[n] : j < k => probes[n][j] = <<>>
<1> DEFINE listed == probes[n]
           telling == {i \in DOMAIN listed : listed[i] # <<>>}
<1>1. listed \in Seq(Reports) /\ DOMAIN listed = 1..Len(listed) /\ Len(listed) \in Nat
  BY LenProperties DEF ProbesInv
<1>2. \A i \in DOMAIN listed : listed[i] \in Seq(Snapshot)
  BY <1>1, ElementOfSeq, DesiredInputs
<1>3. latestActualSnapshots(n) = IF telling = {} THEN <<>> ELSE listed[FirstIn(telling)]
  BY DEF latestActualSnapshots
<1>4. CASE telling = {}
  BY <1>3, <1>4, EmptySeq
<1>5. CASE telling # {}
  <2>1. telling \in SUBSET Nat
    BY <1>1
  <2> HIDE DEF listed
  <2>2. PICK k : k = FirstIn(telling)
    OBVIOUS
  <2>3. k \in telling /\ \A j \in telling : k <= j
    <3> HIDE DEF telling
    <3> QED BY <1>5, <2>1, <2>2, FirstIsLeast
  <2>4. k \in DOMAIN listed /\ k \in Nat
    BY <2>1, <2>3
  <2>5. ASSUME NEW j \in DOMAIN listed, j < k PROVE listed[j] = <<>>
    <3>1. j \in Nat /\ ~(k <= j)
      BY <1>1, <2>4, <2>5
    <3> QED BY <2>3, <3>1
  <2>6. latestActualSnapshots(n) = listed[k]
    BY <1>3, <1>5, <2>2
  <2> QED BY <1>2, <2>4, <2>5, <2>6 DEF listed
<1> QED BY <1>4, <1>5

\* Provider and model of what a runtime runs.
Runs(s, e) == s.provider = e.provider /\ s.model = e.model
\* What nodeHasConfigDrift looks for in a snapshot of node n.
Astray(n, s) ==
  LET e == EffectiveProviderModelConfig(desired, SnapshotTarget(n, s))
  IN  hasKnownProviderModel(s) /\ hasKnownProviderModel(e) /\ ~Runs(s, e)

\* A node drifts when some snapshot of its newest telling probe is astray.
LEMMA DriftOfSnapshots ==
  ASSUME ProbesInv, NEW n \in Nodes
  PROVE  /\ nodeHasConfigDrift(n) <=> \E s \in Range(latestActualSnapshots(n)) : Astray(n, s)
         /\ \A s \in Range(latestActualSnapshots(n)) : s \in Snapshot
         /\ \A s \in Snapshot : \A e : DiffProviderModelConfig(s, e) # {} <=> ~Runs(s, e)
<1>1. \A s \in Range(latestActualSnapshots(n)) : s \in Snapshot
  <2>1. latestActualSnapshots(n) \in Seq(Snapshot)
    BY NewestTelling
  <2> QED BY <2>1, LenProperties, ElementOfSeq DEF Range
<1>2. \A s \in Snapshot : \A e : DiffProviderModelConfig(s, e) # {} <=> ~Runs(s, e)
  <2>1. \A s \in Snapshot : s # None
    BY DesiredInputs
  <2> QED BY <2>1 DEF DiffProviderModelConfig, Runs
<1>3. nodeHasConfigDrift(n) <=> \E s \in Range(latestActualSnapshots(n)) : Astray(n, s)
  BY <1>1, <1>2 DEF nodeHasConfigDrift, Astray
<1> QED BY <1>1, <1>2, <1>3

\* A plan's target is one of a node, and plan and current version are selections.
LEMMA PlannedSelections ==
  ASSUME Inv, NEW p \in plans
  PROVE  /\ p.target.node \in Nodes
         /\ p.desired \in Selection /\ hasKnownProviderModel(p.desired)
         /\ EffectiveProviderModelConfig(desired, p.target) \in Selection
<1>1. PlanOK(p, history, DOMAIN secrets)
  BY DEF Inv, PlansInv
<1>2. p.target \in Targets /\ p.target.node # Blank
  BY <1>1 DEF PlanOK, Applicable
<1>3. hasKnownProviderModel(p.desired)
  BY <1>1 DEF PlanOK, Applicable, ValidateProviderModelSelection, ValidValue, hasKnownProviderModel
<1>4. PICK i \in 1..Len(history) : history[i].config = p.config
  BY <1>1 DEF PlanOK, IsVersion
<1>5. IsConfig(p.config)
  BY <1>4 DEF Inv, HistoryInv, HistoryOK, Good
<1>6. p.desired \in Selection
  BY <1>1, <1>5, EffectiveType DEF PlanOK
<1>7. EffectiveProviderModelConfig(desired, p.target) \in Selection
  BY CurrentVersion, EffectiveType
<1> QED BY <1>2, <1>3, <1>6, <1>7 DEF Nodes

\* A node that runs what a plan gave it drifts when a new plan would differ, or when
\* another of its runtimes does.
LEMMA DriftByPlan ==
  ASSUME Inv, ProbesInv
  PROVE  DriftIffReplanDiffers
<1> SUFFICES ASSUME NEW p \in plans,
                    LET n == p.target.node
                        planned == {s \in Range(latestActualSnapshots(n)) : SnapshotTarget(n, s) = p.target}
                    IN  planned # {} /\ \A s \in planned : Runs(s, p.desired)
             PROVE  LET n == p.target.node
                        reported == Range(latestActualSnapshots(n))
                        planned == {s \in reported : SnapshotTarget(n, s) = p.target}
                        again == EffectiveProviderModelConfig(desired, p.target)
                    IN  nodeHasConfigDrift(n) <=>
                          \/ hasKnownProviderModel(again) /\ again # p.desired
                          \/ \E s \in reported \ planned : Astray(n, s)
  BY DEF DriftIffReplanDiffers, Runs, Astray
<1>1. PICK n, t, d : n = p.target.node /\ t = p.target /\ d = p.desired
  OBVIOUS
<1>2. PICK again : again = EffectiveProviderModelConfig(desired, t)
  OBVIOUS
<1>3. PICK reported : reported = Range(latestActualSnapshots(n))
  OBVIOUS
<1>4. PICK planned : planned = {s \in reported : SnapshotTarget(n, s) = t}
  OBVIOUS
<1>5. n \in Nodes /\ d \in Selection /\ hasKnownProviderModel(d) /\ again \in Selection
  BY <1>1, <1>2, PlannedSelections
<1>6. nodeHasConfigDrift(n) <=> \E s \in reported : Astray(n, s)
  BY <1>3, <1>5, DriftOfSnapshots
<1>7. planned # {} /\ \A s \in planned : Runs(s, d)
  BY <1>1, <1>3, <1>4
<1>8. again # d <=> (again.provider # d.provider \/ again.model # d.model)
  BY <1>5 DEF Selection
<1>9. ASSUME NEW s \in planned
      PROVE  Astray(n, s) <=> hasKnownProviderModel(again) /\ again # d
  <2>1. SnapshotTarget(n, s) = t /\ s.provider = d.provider /\ s.model = d.model
    BY <1>4, <1>7 DEF Runs
  <2>2. hasKnownProviderModel(s)
    BY <1>5, <2>1 DEF hasKnownProviderModel
  <2>3. Astray(n, s) <=> hasKnownProviderModel(again) /\ ~Runs(s, again)
    BY <1>2, <2>1, <2>2 DEF Astray
  <2>4. Runs(s, again) <=> again = d
    BY <1>8, <2>1 DEF Runs
  <2> QED BY <2>3, <2>4
<1>10. planned \subseteq reported
  BY <1>4
<1>11. nodeHasConfigDrift(n) <=>
         \/ hasKnownProviderModel(again) /\ again # d
         \/ \E s \in reported \ planned : Astray(n, s)
  BY <1>6, <1>7, <1>9, <1>10
<1> QED BY <1>1, <1>2, <1>3, <1>4, <1>11

\* The page of a runtime takes its snapshot from the probe that the drift was found in:
\* no newer probe tells anything, and no other snapshot of that probe is of the runtime.
LEMMA DriftHasAPage ==
  ASSUME Inv, ProbesInv
  PROVE  DriftIsExplained
<1> SUFFICES ASSUME NEW n \in Nodes, nodeHasConfigDrift(n),
                    \A i, j \in DOMAIN latestActualSnapshots(n) :
                      latestActualSnapshots(n)[i].runtimeType = latestActualSnapshots(n)[j].runtimeType => i = j
             PROVE  \E s \in Range(latestActualSnapshots(n)) : effectiveConfig(SnapshotTarget(n, s)).diff # {}
  BY DEF DriftIsExplained
<1>1. PICK r : r = latestActualSnapshots(n)
  OBVIOUS
<1>2. PICK i \in DOMAIN r : Astray(n, r[i])
  BY <1>1, DriftOfSnapshots DEF Range
<1>3. PICK s, t : s = r[i] /\ t = SnapshotTarget(n, s)
  OBVIOUS
<1>4. r \in Seq(Snapshot) /\ DOMAIN r = 1..Len(r) /\ Len(r) \in Nat /\ r # <<>>
  <2>1. r \in Seq(Snapshot) /\ DOMAIN r = 1..Len(r) /\ Len(r) \in Nat
    BY <1>1, NewestTelling, LenProperties
  <2>2. r # <<>>
    BY <1>2, <2>1, EmptySeq
  <2> QED BY <2>1, <2>2
<1>5. PICK k \in DOMAIN probes[n] :
        /\ r = probes[n][k]
        /\ \A j \in DOMAIN probes[n] : j < k => probes[n][j] = <<>>
  BY <1>1, <1>4, NewestTelling
<1>6. s \in Snapshot /\ s.runtimeType # Blank
  <2>1. s \in Snapshot
    BY <1>2, <1>3, <1>4, ElementOfSeq
  <2> QED BY <2>1 DEF Snapshot
<1>7. t.node = n /\ t.runtimeType = s.runtimeType /\ runtimeConfigSnapshotMatchesTarget(s, t)
  BY <1>3 DEF SnapshotTarget, runtimeConfigSnapshotMatchesTarget
<1>8. \A j \in DOMAIN r : runtimeConfigSnapshotMatchesTarget(r[j], t) => j = i
  BY <1>1, <1>3, <1>6, <1>7 DEF runtimeConfigSnapshotMatchesTarget
<1> DEFINE listed == At(probes, t.node, <<>>)
           Answers(j) == {m \in DOMAIN listed[j] : runtimeConfigSnapshotMatchesTarget(listed[j][m], t)}
           answering == {j \in DOMAIN listed : Answers(j) # {}}
<1>9. listed = probes[n] /\ DOMAIN listed \in SUBSET Nat
  <2>1. DOMAIN probes = Nodes /\ probes[n] \in Seq(Reports)
    BY DEF ProbesInv
  <2>2. DOMAIN probes[n] = 1..Len(probes[n])
    BY <2>1, LenProperties
  <2> QED BY <1>7, <2>1, <2>2 DEF At
<1>10. latestActualSnapshot(t) =
         IF answering = {} THEN None ELSE listed[FirstIn(answering)][FirstIn(Answers(FirstIn(answering)))]
  BY DEF latestActualSnapshot
<1> HIDE DEF listed
<1>11. Answers(k) = {i}
  <2>1. listed[k] = r
    BY <1>5, <1>9
  <2> QED BY <1>2, <1>3, <1>7, <1>8, <2>1
<1>12. \A j \in DOMAIN listed : j < k => Answers(j) = {}
  <2>1. DOMAIN <<>> = {}
    OBVIOUS
  <2> QED BY <1>5, <1>9, <2>1
<1>13. answering \in SUBSET Nat
  BY <1>9
<1>14. k \in answering /\ \A j \in answering : k <= j
  <2>1. k \in DOMAIN listed /\ k \in Nat
    BY <1>5, <1>9
  <2>2. k \in answering
    BY <1>11, <2>1
  <2>3. ASSUME NEW j \in answering PROVE k <= j
    <3>1. j \in DOMAIN listed /\ j \in Nat /\ Answers(j) # {}
      BY <1>13
    <3>2. ~(j < k)
      BY <1>12, <3>1
    <3> QED BY <2>1, <3>1, <3>2
  <2> QED BY <2>2, <2>3
<1> HIDE DEF answering, Answers
<1>15. FirstIn(answering) = k
  BY <1>13, <1>14, FirstIsLeast
<1>16. FirstIn(Answers(k)) = i
  <2>1. i \in Nat
    BY <1>2, <1>4
  <2>2. {i} \in SUBSET Nat /\ i \in {i} /\ \A j \in {i} : i <= j
    BY <2>1
  <2>3. FirstIn({i}) = i
    BY <2>2, FirstIsLeast
  <2> QED BY <1>11, <2>3
<1>17. latestActualSnapshot(t) = s
  BY <1>3, <1>5, <1>9, <1>10, <1>14, <1>15, <1>16
<1>18. effectiveConfig(t).diff = DiffProviderModelConfig(s, EffectiveProviderModelConfig(desired, t))
  BY <1>17 DEF effectiveConfig, writeEffectiveConfig
<1>19. ~Runs(s, EffectiveProviderModelConfig(desired, t))
  BY <1>2, <1>3 DEF Astray
<1>20. effectiveConfig(t).diff # {}
  BY <1>6, <1>18, <1>19, DriftOfSnapshots
<1>21. s \in Range(r)
  BY <1>2, <1>3 DEF Range
<1> QED BY <1>1, <1>3, <1>20, <1>21

\* nodeHasConfigDrift: for every set of targets and reports, and probes listed in whatever
\* order, a node that runs what a plan gave it is shown as drifting exactly when a plan
\* made now would differ or another of its runtimes is astray, and a node with one
\* snapshot per runtime has a page that shows why.
THEOREM DriftMeansReplan == Spec => []DriftIsReal
<1>1. Inv /\ ProbesInv => DriftIsReal
  BY DriftByPlan, DriftHasAPage DEF DriftIsReal
<1> QED BY <1>1, Invariance, ProbesListed, PTL
=============================================================================
