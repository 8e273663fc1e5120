--------------------------- MODULE DesiredConfig ---------------------------
(***************************************************************************)
(* The desired configuration: its layers and how they merge, the history of  *)
(* its versions, the provider catalog with its encrypted keys, and the plan  *)
(* that a config_apply job carries to a node.                               *)
(*                                                                         *)
(* Every store call is one transaction; a handler makes several, and the     *)
(* handlers of other operators run in between.  A store call may fail: the   *)
(* handler answers with an error and leaves what it has already written.     *)
(*                                                                         *)
(* A value is what the validator and the merge tell apart: Blank, Bad (too    *)
(* long, an unsupported character), or a name.  A catalog entry is its name   *)
(* in some spelling and the environment variable of its key; base URL and     *)
(* model list are copied with it.  Keys of layers are the sequences of the    *)
(* parts that the code joins with slashes.                                   *)
(***************************************************************************)
EXTENDS Naturals, Sequences, FiniteSets, SequencesExt, Functions

CONSTANTS
  Operators,   \* requests that may be in progress at the same time
  Values,      \* provider and model names
  Spellings,   \* spellings of provider names in the catalog
  Lower,       \* Lower[s]: the lower case of spelling s
  Envs,        \* environment variables for keys
  EnvOf,       \* EnvOf[s]: the variable derived from spelling s
  Targets,     \* [node, runtimeType, profile] a plan or a preview is for
  Scopes,      \* the targets whose catalog layer operators change
  PutDefs,     \* the catalog entries operators put
  Inputs,      \* the configurations operators put
  Reports,     \* what a deep probe may report: sequences of snapshots, one per runtime it found
  DefaultProfile, \* the profile of a snapshot that names none
  Blank, Bad,  \* an empty value, and one the validator refuses
  None,        \* nothing there
  PageLimit,   \* MaxDesiredConfigHistoryListLimit
  MaxHistory,  \* bound on the versions
  MaxClock,    \* bound on the readings of the clock
  MaxKeys,     \* bound on the keys an operator hands over
  MaxPlans,    \* bound on the plans
  MaxProbes    \* bound on the deep probes of a node that are listed

ASSUME DesiredConstants ==
  /\ {MaxHistory, MaxClock, MaxKeys, MaxPlans, MaxProbes} \subseteq Nat
  /\ PageLimit \in Nat \ {0}
  /\ Cardinality(Values) > 1
  /\ Blank # Bad /\ {Blank, Bad} \cap (Values \cup Envs \cup Spellings) = {}
  /\ DefaultProfile # Blank /\ None \notin Nat
  /\ Scopes \subseteq Targets
  /\ Lower \in [Spellings -> Spellings]
  /\ EnvOf \in [Spellings -> Envs]

VARIABLES
  desired,  \* desired_config: the current version
  history,  \* desired_config_history, in the order of insertion
  secrets,  \* provider_secrets: env -> the number of the key stored last
  clock,    \* readings of the clock so far: no two are equal
  keys,     \* keys handed over so far
  ops,      \* per operator: the handler in progress
  probes,   \* per node: the reports of the deep probes its job list shows, newest job first
  plans,    \* the plans of the config_apply jobs created
  keyed     \* history: the variables of entries that were recorded with a key

vars == <<desired, history, secrets, clock, keys, ops, probes, plans, keyed>>

-----------------------------------------------------------------------------
(* Layers, validation and merging: pkg/config.                               *)

Selection == [provider : Values \cup {Blank, Bad}, model : Values \cup {Blank, Bad}]
NoSelection == [provider |-> Blank, model |-> Blank]
Definition == [name : Spellings \cup {Bad}, apiKeyEnv : Envs \cup {Blank, Bad}]
Catalogs == Seq(Definition) \ {<<>>}

Part(x) == IF x = Blank THEN <<>> ELSE <<x>>
RuntimeProfileKey(t) == Part(t.runtimeType) \o Part(t.profile)
NodeRuntimeProfileKey(t) == Part(t.node) \o RuntimeProfileKey(t)

GlobalLayer == <<"global">>
NodeLayer(t) == <<"node", t.node>>
RuntimeProfileLayer(t) == <<"runtimeProfile">> \o RuntimeProfileKey(t)
NodeRuntimeProfileLayer(t) == <<"nodeRuntimeProfile">> \o NodeRuntimeProfileKey(t)

providerScopeLayer(t) ==
  CASE t.node = Blank /\ t.runtimeType = Blank -> GlobalLayer
    [] t.node # Blank /\ t.runtimeType = Blank -> NodeLayer(t)
    [] t.node = Blank /\ t.runtimeType # Blank -> RuntimeProfileLayer(t)
    [] OTHER -> NodeRuntimeProfileLayer(t)

\* The layers a target sees, from the least to the most specific.
LayersOf(t) ==
  <<GlobalLayer, NodeLayer(t), RuntimeProfileLayer(t), NodeRuntimeProfileLayer(t)>>
Nodes == {t.node : t \in Targets} \ {Blank}
Layers == UNION {Range(LayersOf(t)) : t \in Targets}

\* What a configuration document decodes to: a map from layers to selections and one
\* to catalogs, without empty catalogs.
IsConfig(c) ==
  /\ c = [overrides |-> c.overrides, providers |-> c.providers]
  /\ DOMAIN c.overrides \subseteq Layers
  /\ c.overrides \in [DOMAIN c.overrides -> Selection]
  /\ DOMAIN c.providers \subseteq Layers
  /\ c.providers \in [DOMAIN c.providers -> Catalogs]

\* What a probe tells of one runtime; the path is blank where no file was found.
Snapshot == [runtimeType : STRING \ {Blank}, profile : STRING \cup {Blank},
             path : STRING \cup {Blank}, provider : Values \cup {Blank}, model : Values \cup {Blank}]

ASSUME DesiredInputs ==
  /\ \A c \in Inputs : IsConfig(c)
  /\ \A d \in PutDefs : d \in Definition
  /\ Reports \subseteq Seq(Snapshot) /\ None \notin Snapshot
  /\ \A t \in Targets :
       t = [node |-> t.node, runtimeType |-> t.runtimeType, profile |-> t.profile]

\* A layer that is not in a map reads as its zero value.
At(map, layer, zero) == IF layer \in DOMAIN map THEN map[layer] ELSE zero
\* A copy: the version that was read is not changed.
Put(map, layer, v) == [l \in DOMAIN map \cup {layer} |-> IF l = layer THEN v ELSE map[l]]
NoConfig == [overrides |-> <<>>, providers |-> <<>>]

ValidValue(v, required) == v # Bad /\ (required => v # Blank)
ValidateProviderModelSelection(s) == ValidValue(s.provider, TRUE) /\ ValidValue(s.model, TRUE)
Fold(name) == IF name \in Spellings THEN Lower[name] ELSE name

\* Slip: only the names are validated, and not against each other.
AcceptAnyDefinitions(defs) == \A i \in DOMAIN defs : ValidValue(defs[i].name, TRUE)

validateProviderDefinitions(defs) ==
  /\ \A i \in DOMAIN defs : ValidValue(defs[i].name, TRUE) /\ ValidValue(defs[i].apiKeyEnv, FALSE)
  /\ \A i, j \in DOMAIN defs : Fold(defs[i].name) = Fold(defs[j].name) => i = j

ValidateDesiredConfigValues(c) ==
  /\ \A l \in DOMAIN c.overrides :
       ValidValue(c.overrides[l].provider, FALSE) /\ ValidValue(c.overrides[l].model, FALSE)
  /\ \A l \in DOMAIN c.providers : validateProviderDefinitions(c.providers[l])

mergeProviderModel(base, override) ==
  [provider |-> IF override.provider # Blank THEN override.provider ELSE base.provider,
   model    |-> IF override.model # Blank THEN override.model ELSE base.model]

EffectiveProviderModelConfig(c, t) ==
  LET Of(l) == At(c.overrides, l, NoSelection)
      forNode == mergeProviderModel(Of(GlobalLayer), Of(NodeLayer(t)))
      forRuntime == mergeProviderModel(forNode, Of(RuntimeProfileLayer(t)))
  IN  mergeProviderModel(forRuntime, Of(NodeRuntimeProfileLayer(t)))

DesiredConfigWithTargetOverride(c, t, s) ==
  [c EXCEPT !.overrides = Put(@, NodeRuntimeProfileLayer(t), s)]

\* Replaces the entry of the same name in place, or appends.
upsertProviderDefinition(defs, d) ==
  IF \E i \in DOMAIN defs : Fold(defs[i].name) = Fold(d.name)
  THEN [i \in DOMAIN defs |-> IF Fold(defs[i].name) = Fold(d.name) THEN d ELSE defs[i]]
  ELSE Append(defs, d)

UpsertProviderDefinition(c, scope, d) ==
  LET l == providerScopeLayer(scope) IN
  [c EXCEPT !.providers = Put(@, l, upsertProviderDefinition(At(@, l, <<>>), d))]

\* What is left of s when only the positions in P are kept, in their order.
Pick(s, P) ==
  [k \in 1..Cardinality(P) |-> s[CHOOSE i \in P : Cardinality({j \in P : j <= i}) = k]]

removeProviderDefinition(defs, name) ==
  Pick(defs, {i \in DOMAIN defs : Fold(defs[i].name) # Fold(name)})

\* A layer that loses its last entry leaves the map.
removeProviderDefinitionFromMap(map, l, name) ==
  LET rest == removeProviderDefinition(map[l], name) IN
  IF rest = <<>> THEN Restrict(map, DOMAIN map \ {l}) ELSE Put(map, l, rest)

\* Used where the layer has an entry of that name.
RemoveProviderDefinition(c, scope, name) ==
  [c EXCEPT !.providers = removeProviderDefinitionFromMap(@, providerScopeLayer(scope), name)]

\* Slip: an entry of an earlier layer wins over a more specific one.
MergeKeepingBase(merged, defs) ==
  merged \o SelectSeq(defs, LAMBDA d : \A i \in DOMAIN merged : Fold(merged[i].name) # Fold(d.name))

mergeProviderDefinitions(merged, defs) ==
  LET after[k \in 0..Len(defs)] ==
        IF k = 0 THEN merged ELSE upsertProviderDefinition(after[k - 1], defs[k])
  IN  after[Len(defs)]

\* Sorted by name: as a set, since no two entries have a name in common.
EffectiveProviderCatalog(c, t) ==
  LET Of(l) == At(c.providers, l, <<>>)
      forNode == mergeProviderDefinitions(Of(GlobalLayer), Of(NodeLayer(t)))
      forRuntime == mergeProviderDefinitions(forNode, Of(RuntimeProfileLayer(t)))
  IN  Range(mergeProviderDefinitions(forRuntime, Of(NodeRuntimeProfileLayer(t))))

-----------------------------------------------------------------------------
(* The store.                                                                *)

ReadClock == clock < MaxClock /\ clock' = clock + 1

newDesiredConfigHistoryEntry(c, at) == [config |-> c, at |-> at]

\* Both tables in one transaction.
insertDesiredConfigTx(entry) ==
  /\ Len(history) < MaxHistory
  /\ desired' = entry.config
  /\ history' = Append(history, entry)

SetDesiredConfig(c, at) == insertDesiredConfigTx(newDesiredConfigHistoryEntry(c, at))

\* Newest time first, whatever the order of insertion; an entry's id is its index.
NewestFirst ==
  [k \in DOMAIN history |->
    CHOOSE i \in DOMAIN history :
      Cardinality({j \in DOMAIN history : history[j].at >= history[i].at}) = k]

ListDesiredConfigHistory(offset) ==
  SubSeq(NewestFirst, offset + 1, Min({offset + PageLimit, Len(history)}))

\* The clock is read inside the transaction.
RevertDesiredConfig(id) ==
  /\ ReadClock
  /\ insertDesiredConfigTx(newDesiredConfigHistoryEntry(history[id].config, clock'))

SetProviderSecret(env, key) == secrets' = Put(secrets, env, key)
GetProviderSecret(env) == At(secrets, env, None)
HasProviderSecret(env) == env \in DOMAIN secrets

-----------------------------------------------------------------------------
(* The handlers.                                                             *)

Idle == [step |-> "idle"]
Become(o, op) == ops' = [ops EXCEPT ![o] = op]

Init ==
  /\ desired = NoConfig
  /\ history = <<>>
  /\ secrets = <<>>
  /\ clock = 0
  /\ keys = 0
  /\ ops = [o \in Operators |-> Idle]
  /\ probes = [n \in Nodes |-> <<>>]
  /\ plans = {}
  /\ keyed = {}

\* PUT of a whole configuration: validated, stamped, then written.
desiredConfig(o, c) ==
  /\ ops[o] = Idle
  /\ ValidateDesiredConfigValues(c)
  /\ ReadClock
  /\ Become(o, [step |-> "set", config |-> c, at |-> clock + 1, keyed |-> {}])
  /\ UNCHANGED <<desired, history, secrets, keys, probes, plans, keyed>>

\* With a key and no variable named, the variable is derived from the name.
deriveProviderAPIKeyEnv(d, key) ==
  IF key # None /\ d.apiKeyEnv = Blank THEN EnvOf[d.name] ELSE d.apiKeyEnv

\* PUT of a provider, up to the reading of the clock: the new version is built
\* from the one read here.  A key that comes with it is to be stored first.
PutProviderBy(o, scope, d, key, first) ==
  LET updated == UpsertProviderDefinition(desired, scope, d) IN
  /\ ops[o] = Idle
  /\ validateProviderDefinitions(<<d>>)
  /\ ValidateDesiredConfigValues(updated)
  /\ ReadClock
  /\ keys' = IF key = None THEN keys ELSE key
  /\ Become(o, [step |-> first, config |-> updated, at |-> clock + 1, key |-> key,
                keyed |-> IF key = None THEN {} ELSE {d.apiKeyEnv}])
  /\ UNCHANGED <<desired, history, secrets, probes, plans, keyed>>

\* Slip: the entry is stored and the key is not.
PutProviderWithoutKey(o, scope, d, key) == PutProviderBy(o, scope, d, key, "set")

PutProvider(o, scope, d, key) ==
  PutProviderBy(o, scope, d, key, IF key = None THEN "set" ELSE "secret")

storeSecret(o) ==
  /\ ops[o].step = "secret"
  /\ \E env \in ops[o].keyed : SetProviderSecret(env, ops[o].key)
  /\ Become(o, [ops[o] EXCEPT !.step = "set"])
  /\ UNCHANGED <<desired, history, clock, keys, probes, plans, keyed>>

\* DELETE of a provider; a key stays in the store.
DeleteProvider(o, scope, name) ==
  LET updated == RemoveProviderDefinition(desired, scope, name)
      listed == At(desired.providers, providerScopeLayer(scope), <<>>)
  IN
  /\ ops[o] = Idle
  /\ \E i \in DOMAIN listed : Fold(listed[i].name) = Fold(name)
  /\ ValidateDesiredConfigValues(updated)
  /\ ReadClock
  /\ Become(o, [step |-> "set", config |-> updated, at |-> clock + 1, keyed |-> {}])
  /\ UNCHANGED <<desired, history, secrets, keys, probes, plans, keyed>>

\* The last store call of the three: nothing is compared with what was read.
recordDesired(o) ==
  /\ ops[o].step = "set"
  /\ SetDesiredConfig(ops[o].config, ops[o].at)
  /\ keyed' = keyed \cup ops[o].keyed
  /\ Become(o, Idle)
  /\ UNCHANGED <<secrets, clock, keys, probes, plans>>

\* POST revert: findDesiredConfigHistoryEntry walks the pages.  The number of
\* entries is counted before a page is read, in a query of its own.
revertDesiredConfig(o, id) ==
  /\ ops[o] = Idle
  /\ Become(o, [step |-> "count", id |-> id, offset |-> 0, total |-> 0, since |-> Len(history)])
  /\ UNCHANGED <<desired, history, secrets, clock, keys, probes, plans, keyed>>

CountHistory(o) ==
  /\ ops[o].step = "count"
  /\ Become(o, [ops[o] EXCEPT !.step = "page", !.total = Len(history)])
  /\ UNCHANGED <<desired, history, secrets, clock, keys, probes, plans, keyed>>

\* Slip: off by one, the last page is not read.
FindOnFirstPages(o) ==
  LET op == ops[o]
      page == ListDesiredConfigHistory(op.offset)
      offset == op.offset + Len(page)
  IN
  /\ op.step = "page"
  /\ Become(o, [op EXCEPT !.offset = offset,
       !.step = CASE op.id \in Range(page) -> "revert"
                  [] op.id \notin Range(page) /\ (page = <<>> \/ offset >= op.total - 1) -> "notFound"
                  [] OTHER -> "count"])
  /\ UNCHANGED <<desired, history, secrets, clock, keys, probes, plans, keyed>>

findDesiredConfigHistoryEntry(o) ==
  LET op == ops[o]
      page == ListDesiredConfigHistory(op.offset)
      offset == op.offset + Len(page)
  IN
  /\ op.step = "page"
  /\ Become(o, [op EXCEPT !.offset = offset,
       !.step = CASE op.id \in Range(page) -> "revert"
                  [] op.id \notin Range(page) /\ (page = <<>> \/ offset >= op.total) -> "notFound"
                  [] OTHER -> "count"])
  /\ UNCHANGED <<desired, history, secrets, clock, keys, probes, plans, keyed>>

\* The entry is validated again, then restored as a new version.
RevertFound(o) ==
  /\ ops[o].step = "revert"
  /\ ValidateDesiredConfigValues(history[ops[o].id].config)
  /\ RevertDesiredConfig(ops[o].id)
  /\ Become(o, Idle)
  /\ UNCHANGED <<secrets, keys, probes, plans, keyed>>

\* A handler ends with an error: the entry was not found, a store call failed,
\* or the node has an active config_apply job.
AnswerError(o) ==
  /\ ops[o].step \in {"set", "secret", "notFound", "plan"}
  /\ Become(o, Idle)
  /\ UNCHANGED <<desired, history, secrets, clock, keys, probes, plans, keyed>>

\* A deep probe of node n completes.  Jobs are listed by creation, and a probe may
\* complete after one that was created later.
DeepProbe(n, report) ==
  /\ Len(probes[n]) < MaxProbes
  /\ \E i \in 1..Len(probes[n]) + 1 : probes' = [probes EXCEPT ![n] = InsertAt(@, i, report)]
  /\ UNCHANGED <<desired, history, secrets, clock, keys, ops, plans, keyed>>

\* A probe is no longer listed: newer jobs fill the default page, or the retention of
\* jobs, which goes by the time they ended, has removed it.
DropProbe(n) ==
  /\ \E i \in DOMAIN probes[n] : probes' = [probes EXCEPT ![n] = RemoveAt(@, i)]
  /\ UNCHANGED <<desired, history, secrets, clock, keys, ops, plans, keyed>>

\* A snapshot without a profile answers for every profile.
runtimeConfigSnapshotMatchesTarget(s, t) ==
  /\ t.runtimeType = Blank \/ s.runtimeType = t.runtimeType
  /\ t.profile = Blank \/ s.profile = Blank \/ s.profile = t.profile

FirstIn(I) == CHOOSE i \in I : \A j \in I : i <= j

\* The first snapshot that answers for the target, of the newest probe that has one:
\* older probes are asked when newer ones say nothing of this runtime.
latestActualSnapshot(t) ==
  LET listed == At(probes, t.node, <<>>)
      Answers(i) == {j \in DOMAIN listed[i] : runtimeConfigSnapshotMatchesTarget(listed[i][j], t)}
      answering == {i \in DOMAIN listed : Answers(i) # {}}
      newest == FirstIn(answering)
  IN  IF answering = {} THEN None ELSE listed[newest][FirstIn(Answers(newest))]

\* All snapshots of the newest probe that has any.
latestActualSnapshots(n) ==
  LET telling == {i \in DOMAIN probes[n] : probes[n][i] # <<>>}
  IN  IF telling = {} THEN <<>> ELSE probes[n][FirstIn(telling)]

\* POST config-apply, up to the checks: the configuration is read once.
createConfigApplyJob(o, t) ==
  /\ ops[o] = Idle
  /\ t.node # Blank /\ t.runtimeType # Blank
  /\ Cardinality(plans) < MaxPlans
  /\ ValidateProviderModelSelection(EffectiveProviderModelConfig(desired, t))
  /\ latestActualSnapshot(t) # None /\ latestActualSnapshot(t).path # Blank
  /\ Become(o, [step |-> "plan", target |-> t, config |-> desired])
  /\ UNCHANGED <<desired, history, secrets, clock, keys, probes, plans, keyed>>

\* A provider is marked as managed when its key is in the store now.
providerDefinitionsWithSecretState(defs) ==
  {[def |-> d, managed |-> HasProviderSecret(d.apiKeyEnv)] : d \in defs}

Plan(t, c, catalogFrom) ==
  [target |-> t, config |-> c, desired |-> EffectiveProviderModelConfig(c, t),
   providers |-> providerDefinitionsWithSecretState(EffectiveProviderCatalog(catalogFrom, t))]

\* Slip: the catalog is read again after the selection.
CreatePlanJobRereading(o) ==
  /\ ops[o].step = "plan"
  /\ Cardinality(plans) < MaxPlans
  /\ plans' = plans \cup {Plan(ops[o].target, ops[o].config, desired)}
  /\ Become(o, Idle)
  /\ UNCHANGED <<desired, history, secrets, clock, keys, probes, keyed>>

CreatePlanJob(o) ==
  /\ ops[o].step = "plan"
  /\ Cardinality(plans) < MaxPlans
  /\ plans' = plans \cup {Plan(ops[o].target, ops[o].config, ops[o].config)}
  /\ Become(o, Idle)
  /\ UNCHANGED <<desired, history, secrets, clock, keys, probes, keyed>>

\* The keys a sidecar is given for its plan.
managedProviderEnvNames(plan) ==
  {p.def.apiKeyEnv : p \in {q \in plan.providers : q.managed /\ q.def.apiKeyEnv # Blank}}
configApplySecrets(plan) ==
  {<<env, GetProviderSecret(env)>> : env \in
     {e \in managedProviderEnvNames(plan) : GetProviderSecret(e) # None}}

Set(e) == {f \in {"provider", "model"} : e[f] # Blank}

\* Slip: the model is not compared.
DiffProvider(s, e) == IF s = None THEN Set(e) ELSE {f \in {"provider"} : s[f] # e[f]}

\* Without a probe, whatever is set is missing on the node (missingActualDiff).
DiffProviderModelConfig(s, e) ==
  IF s = None THEN Set(e) ELSE {f \in {"provider", "model"} : s[f] # e[f]}

\* What operators are shown for a target: the catalog with its managed keys, what
\* it gets and how that differs from the last probe, and what target u would get
\* if s were set for t.
providerCatalogResponse(t) ==
  providerDefinitionsWithSecretState(EffectiveProviderCatalog(desired, t))

writeEffectiveConfig(c, t) ==
  LET effective == EffectiveProviderModelConfig(c, t)
  IN  [effective |-> effective, diff |-> DiffProviderModelConfig(latestActualSnapshot(t), effective)]

effectiveConfig(t) == writeEffectiveConfig(desired, t)

previewEffectiveConfig(t, s, u) ==
  writeEffectiveConfig(DesiredConfigWithTargetOverride(desired, t, s), u)

hasKnownProviderModel(s) == s.provider # Blank /\ s.model # Blank

\* The target a snapshot is held against: its profile is "default" unless it names one.
SnapshotTarget(n, s) ==
  [node |-> n, runtimeType |-> s.runtimeType,
   profile |-> IF s.profile = Blank THEN DefaultProfile ELSE s.profile]

\* Whether node n is shown as drifting: some runtime is, and only known values count.
nodeHasConfigDrift(n) ==
  \E s \in Range(latestActualSnapshots(n)) :
    LET effective == EffectiveProviderModelConfig(desired, SnapshotTarget(n, s))
    IN  /\ hasKnownProviderModel(s) /\ hasKnownProviderModel(effective)
        /\ DiffProviderModelConfig(s, effective) # {}

Next ==
  \/ \E o \in Operators :
       \/ \E c \in Inputs : desiredConfig(o, c)
       \/ \E scope \in Scopes :
            \/ \E d \in PutDefs, key \in {None} \cup {k \in 1..MaxKeys : k = keys + 1} :
                 PutProvider(o, scope, [d EXCEPT !.apiKeyEnv = deriveProviderAPIKeyEnv(d, key)], key)
            \/ \E name \in Spellings : DeleteProvider(o, scope, name)
       \/ storeSecret(o)
       \/ recordDesired(o)
       \/ \E id \in DOMAIN history : revertDesiredConfig(o, id)
       \/ CountHistory(o) \/ findDesiredConfigHistoryEntry(o) \/ RevertFound(o)
       \/ AnswerError(o)
       \/ \E t \in Targets : createConfigApplyJob(o, t)
       \/ CreatePlanJob(o)
  \/ \E n \in Nodes :
       \/ \E report \in Reports : DeepProbe(n, report)
       \/ DropProbe(n)

Spec == Init /\ [][Next]_vars

-----------------------------------------------------------------------------
(* Properties.                                                               *)

\* The desired_config row, its history, the secrets and the handlers hold what
\* their columns and fields can hold; a provider layer in the map is not empty.
DesiredTypeOK ==
  /\ IsConfig(desired)
  /\ \A i \in DOMAIN history : IsConfig(history[i].config) /\ history[i].at \in 1..MaxClock
  /\ DOMAIN secrets \subseteq Envs /\ Range(secrets) \subseteq 1..MaxKeys
  /\ clock \in 0..MaxClock /\ keys \in 0..MaxKeys
  /\ DOMAIN ops = Operators
  /\ \A o \in Operators : ops[o].step \in
       {"idle", "set", "secret", "count", "page", "revert", "notFound", "plan"}
  /\ Cardinality(plans) <= MaxPlans
  /\ keyed \subseteq Envs
  /\ \A n \in Nodes : Len(probes[n]) <= MaxProbes /\ Range(probes[n]) \subseteq Reports

\* SetDesiredConfig and RevertDesiredConfig: the current version is the one
\* recorded last, and no version on record, whichever handler built it and from
\* whatever it had read, has a bad value or names a provider twice in a layer.
VersionsAreSound ==
  /\ DesiredTypeOK
  /\ desired = IF history = <<>> THEN NoConfig ELSE Last(history).config
  /\ \A i \in DOMAIN history :
       LET c == history[i].config IN
       /\ \A l \in DOMAIN c.overrides : Bad \notin Range(c.overrides[l])
       /\ \A l \in DOMAIN c.providers :
            /\ \A d \in Range(c.providers[l]) : Bad \notin Range(d)
            /\ Cardinality({Fold(d.name) : d \in Range(c.providers[l])}) = Len(c.providers[l])

\* The value of a field in the most specific layer that sets it.
MostSpecific(c, t, field) ==
  LET ls == LayersOf(t)
      setting == {i \in DOMAIN ls : At(c.overrides, ls[i], NoSelection)[field] # Blank}
  IN  IF setting = {} THEN Blank
      ELSE c.overrides[ls[CHOOSE i \in setting : \A j \in setting : j <= i]][field]

\* EffectiveProviderModelConfig: provider and model each come from the most
\* specific layer that sets that field, not both from the same layer.
EffectiveFollowsPrecedence ==
  \A t \in Targets, field \in {"provider", "model"} :
    EffectiveProviderModelConfig(desired, t)[field] = MostSpecific(desired, t, field)

\* EffectiveProviderCatalog: a provider that some layer of the target defines,
\* in whatever spelling, is in the catalog once, as its most specific layer has it.
CatalogFollowsPrecedence ==
  \A t \in Targets :
    LET ls == LayersOf(t)
        Named(i, n) == {d \in Range(At(desired.providers, ls[i], <<>>)) : Fold(d.name) = n}
    IN  \A n \in {Lower[s] : s \in Spellings} :
          LET defining == {i \in DOMAIN ls : Named(i, n) # {}} IN
          {d \in EffectiveProviderCatalog(desired, t) : Fold(d.name) = n} =
            IF defining = {} THEN {} ELSE Named(CHOOSE i \in defining : \A j \in defining : j <= i, n)

\* DesiredConfigWithTargetOverride: a preview of a selection that a target does not
\* have yet shows it there.  Keys join the parts that are not blank, so a target with the
\* same key gets it, too (a profile without a runtime, a node named like a runtime: the
\* handlers check neither); what any other target gets is not touched.
PreviewTouchesItsKey ==
  \A t \in {u \in Targets : u.node # Blank} :
    LET new == CHOOSE v \in Values : v # EffectiveProviderModelConfig(desired, t).provider
        request == [provider |-> new, model |-> new]
    IN  \A u \in Targets :
          previewEffectiveConfig(t, request, u).effective =
            IF NodeRuntimeProfileKey(u) = NodeRuntimeProfileKey(t) THEN request
            ELSE EffectiveProviderModelConfig(desired, u)

\* EffectiveProviderModelConfig, EffectiveProviderCatalog, previews: whichever
\* handlers recorded the versions, and from whatever they had read, every target gets
\* for each field and each provider what its most specific layer says.  This depends
\* on the configuration on record alone, and so it is looked at when no request is
\* in progress: any version may still be the current one then.
LayersFollowPrecedence ==
  (\A o \in Operators : ops[o] = Idle) =>
    EffectiveFollowsPrecedence /\ CatalogFollowsPrecedence /\ PreviewTouchesItsKey

\* configProviders: an entry whose variable was put with a key is shown as managed
\* from the moment it is on record, although key and entry are stored one after
\* the other and either call may fail.
KeyBeforeCatalog ==
  \A t \in Targets : \A q \in providerCatalogResponse(t) : q.def.apiKeyEnv \in keyed => q.managed

\* configApplySecrets: whatever happened to the catalog since a plan was made,
\* its node gets a key for every provider the plan calls managed, and no other.
ManagedKeysServed ==
  \A p \in plans : {served[1] : served \in configApplySecrets(p)} = managedProviderEnvNames(p)

\* configProviders, configApplySecrets: what operators and nodes are told about
\* stored keys stays true while catalog and keys are changed in separate calls.
KeysAreServed == KeyBeforeCatalog /\ ManagedKeysServed

\* createConfigApplyJob: selection and catalog of a plan are those of one version
\* that was on record, for the plan's target, and the selection is complete.
PlanFromOneVersion ==
  \A p \in plans :
    /\ p.desired.provider \in Values /\ p.desired.model \in Values
    /\ \E i \in DOMAIN history :
         /\ p.desired = EffectiveProviderModelConfig(history[i].config, p.target)
         /\ {q.def : q \in p.providers} = EffectiveProviderCatalog(history[i].config, p.target)

\* findDesiredConfigHistoryEntry: an entry that exists is reported as missing only
\* when another version was recorded while the pages were read.
FoundUnlessOvertaken ==
  \A o \in Operators : ops[o].step = "notFound" => Len(history) > ops[o].since

\* nodeHasConfigDrift: a node that runs, in the runtime and profile a plan was for, what
\* the plan gave it, is shown as drifting exactly when a plan made now would differ, or
\* when another runtime of the same probe runs something else than it should.
DriftIffReplanDiffers ==
  \A p \in plans :
    LET n == p.target.node
        reported == Range(latestActualSnapshots(n))
        planned == {s \in reported : SnapshotTarget(n, s) = p.target}
        again == EffectiveProviderModelConfig(desired, p.target)
        Runs(s, e) == s.provider = e.provider /\ s.model = e.model
        Astray(s) == LET e == EffectiveProviderModelConfig(desired, SnapshotTarget(n, s))
                     IN  hasKnownProviderModel(s) /\ hasKnownProviderModel(e) /\ ~Runs(s, e)
    IN  (planned # {} /\ \A s \in planned : Runs(s, p.desired)) =>
          (nodeHasConfigDrift(n) <=>
             \/ hasKnownProviderModel(again) /\ again # p.desired
             \/ \E s \in reported \ planned : Astray(s))

\* nodeHasConfigDrift, effectiveConfig: a node whose probe has one snapshot per runtime, as
\* its adapters give, is shown as drifting only if the page of one of these runtimes shows
\* a difference, although that page takes its snapshot from whichever probe answers first.
DriftIsExplained ==
  \A n \in Nodes :
    LET reported == latestActualSnapshots(n) IN
    (/\ nodeHasConfigDrift(n)
     /\ \A i, j \in DOMAIN reported : reported[i].runtimeType = reported[j].runtimeType => i = j)
    => \E s \in Range(reported) : effectiveConfig(SnapshotTarget(n, s)).diff # {}

\* nodeHasConfigDrift: what the node list says of a node agrees with what a new plan would
\* change and with what the pages of its runtimes show.
DriftIsReal == DriftIffReplanDiffers /\ DriftIsExplained
=============================================================================
