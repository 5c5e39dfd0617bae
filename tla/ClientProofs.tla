----------------------------- MODULE ClientProofs -----------------------------
(***************************************************************************)
(* The invariants of Client, for any tables, files, arguments and changes  *)
(* of the environment.                                                     *)
(***************************************************************************)
EXTENDS Client, TLAPS

(***************************************************************************)
(* A configuration goes by the lower-cased name of its key, wherever it    *)
(* comes from; the pieces that configurations are made of keep it so.      *)
(***************************************************************************)
Named(configs) ==
    \A key \in DOMAIN configs : key \in Keys /\ configs[key].name = Lower[key]

Surroundings ==
    /\ config_path \in Paths \cup {None}
    /\ \A path \in Paths : DOMAIN disk[path].providers \subseteq Keys
    /\ \A p \in Providers : "name" \notin DOMAIN variables[p].fields
    /\ DOMAIN disk = Paths /\ DOMAIN variables = Providers

NamesFollow ==
    /\ Named(registry) /\ DOMAIN Builtin \subseteq DOMAIN registry
    /\ Named(cache.configs)
    /\ client.built => Named(client.configs)

\* What a client is: it knows its provider and the built-in ones, and has the
\* model it was given for its own provider.
ClientShape ==
    client.built =>
        /\ DOMAIN Builtin \subseteq DOMAIN client.configs
        /\ DOMAIN client.default_models \subseteq {client.provider}
        /\ client.provider \in DOMAIN client.configs
        /\ client.arguments.provider # None =>
             client.provider = Lower[client.arguments.provider]

\* A request under way belongs to a client, and has passed its checks unless
\* a middleware put it in the place of another.
RequestChecked ==
    request # NoRequest =>
        /\ client.built
        /\ request \in [op : {"chat", "embeddings"}, provider : Keys \cup {None},
                        model : Models \cup {NoModel}, features : SUBSET Capabilities,
                        swapped : BOOLEAN]
        /\ ~request.swapped =>
             LET p == ProviderOf(request.provider)
             IN  /\ p \in DOMAIN AdapterMatrix
                 /\ \A f \in Needed(request) :
                      Supports(p, ResolvedFor(p, request.model, request.op), f)

IInv == Surroundings /\ NamesFollow /\ ClientShape /\ RequestChecked /\ StaysHome /\ ChecksSurvive

-----------------------------------------------------------------------------
LEMMA Empty == DOMAIN <<>> = {}
OBVIOUS

LEMMA NamedOver ==
  ASSUME NEW f, NEW g, Named(f), Named(g)
  PROVE  Named(Over(f, g))
BY DEF Named, Over

LEMMA NamedFile ==
  ASSUME NEW file, NEW reg, DOMAIN file.providers \subseteq Keys
  PROVE  Named(LoadFile(file, reg))
BY DEF Named, LoadFile, MergeWithDefaults, DeepMerge, Fields

LEMMA NamedEnv ==
  ASSUME NEW config, NEW v, "name" \notin DOMAIN v.fields
  PROVE  ApplyEnv(config, v).name = config.name
<1>1. "name" \notin DOMAIN EnvOverrides(v)
  BY DEF EnvOverrides
<1> QED
  BY <1>1 DEF ApplyEnv, EnvMerge, Fields

LEMMA FileKeys ==
  ASSUME Surroundings, NEW path \in Paths \cup {None}
  PROVE  DOMAIN FileFor(path).providers \subseteq Keys
<1>1. DOMAIN Discovered.providers \subseteq Keys
  <2> DEFINE first == {i \in 1..Len(DefaultPaths) :
                          /\ disk[DefaultPaths[i]] # Missing
                          /\ \A j \in 1..i - 1 : disk[DefaultPaths[j]] = Missing}
  <2>1. CASE first = {}
    BY <2>1, Empty DEF Discovered, Missing
  <2>2. CASE first # {}
    <3>1. \A i \in first : DefaultPaths[i] \in Paths
      BY ClientAssumption
    <3> QED
      BY <2>2, <3>1 DEF Discovered, Surroundings
  <2> QED
    BY <2>1, <2>2
<1> QED
  BY <1>1, ClientAssumption DEF FileFor, Surroundings

LEMMA NamedLoaded ==
  ASSUME Surroundings, Named(cache.configs), NEW path \in Paths \cup {None}
  PROVE  Named(Loaded(path).configs)
BY FileKeys, NamedFile DEF Loaded

LEMMA NamedRegistered ==
  ASSUME NEW configs, Named(configs), Named(registry)
  PROVE  Named(Registered(configs)) /\ DOMAIN registry \subseteq DOMAIN Registered(configs)
<1> DEFINE names == {configs[key].name : key \in DOMAIN configs}
           named == [n \in names |-> configs[CHOOSE key \in DOMAIN configs : configs[key].name = n]]
<1>1. ASSUME NEW n \in names PROVE n \in Keys /\ named[n].name = Lower[n]
  <2>1. PICK key \in DOMAIN configs : configs[key].name = n
    OBVIOUS
  <2>2. named[n].name = n
    BY <2>1
  <2>3. n \in Providers
    BY <2>1, ClientAssumption DEF Named
  <2> QED
    BY <2>2, <2>3, ClientAssumption
<1>2. Named(named)
  BY <1>1 DEF Named
<1>3. Registered(configs) = Over(named, registry)
  BY DEF Registered
<1> QED
  BY <1>2, <1>3, NamedOver DEF Over

LEMMA NamedAll ==
  ASSUME Surroundings, NamesFollow, NEW path \in Paths \cup {None}
  PROVE  Named(AllConfigs(path)) /\ DOMAIN Builtin \subseteq DOMAIN AllConfigs(path)
<1> DEFINE merged == Over(Loaded(path).configs, registry)
<1>1. Named(merged)
  BY NamedLoaded, NamedOver DEF NamesFollow
<1>2. DOMAIN AllConfigs(path) = DOMAIN merged /\ DOMAIN Builtin \subseteq DOMAIN merged
  BY DEF AllConfigs, NamesFollow, Over
<1>3. ASSUME NEW key \in DOMAIN merged PROVE AllConfigs(path)[key].name = Lower[key]
  <2>1. merged[key].name = Lower[key] /\ merged[key].name \in Providers
    BY <1>1, ClientAssumption DEF Named
  <2>2. AllConfigs(path)[key] = ApplyEnv(merged[key], variables[merged[key].name])
    BY DEF AllConfigs
  <2> QED
    BY <2>1, <2>2, NamedEnv DEF Surroundings
<1> QED
  BY <1>1, <1>2, <1>3 DEF Named

-----------------------------------------------------------------------------
LEMMA ClientInit == Init => IInv
<1> SUFFICES ASSUME Init PROVE IInv
  OBVIOUS
<1>1. Surroundings
  BY Empty DEF Init, Surroundings, Missing, NoVariables
<1>2. NamesFollow
  BY Empty, ClientAssumption DEF Init, NamesFollow, Named, NotLoaded, NoClient
<1> QED
  BY <1>1, <1>2 DEF Init, IInv, ClientShape, RequestChecked, StaysHome, ChecksSurvive, NoClient

\* What a request's provider and model resolve to stands as long as the client
\* does, though the registry may change: the client has configured every
\* provider that has an adapter.
LEMMA ResolvedStays ==
  ASSUME IInv, client' = client, client.built, NEW p \in DOMAIN AdapterMatrix
  PROVE  \A model, op : ResolvedFor(p, model, op)' = ResolvedFor(p, model, op)
<1>1. p \in DOMAIN client.configs
  BY ClientAssumption DEF IInv, ClientShape
<1>2. ConfigFor(p)' = ConfigFor(p)
  BY <1>1 DEF ConfigFor
<1> QED
  BY <1>2 DEF ResolvedFor, ModelFor

LEMMA RequestStays ==
  ASSUME IInv, client' = client, request' = request
  PROVE  RequestChecked'
<1> SUFFICES ASSUME request # NoRequest
             PROVE  RequestChecked'
  BY DEF RequestChecked
<1>1. ProviderOf(request.provider)' = ProviderOf(request.provider)
  BY DEF ProviderOf
<1>2. CASE request.swapped
  BY <1>2 DEF IInv, RequestChecked
<1>3. CASE ~request.swapped
  <2> DEFINE p == ProviderOf(request.provider)
  <2>1. /\ client.built
        /\ p \in DOMAIN AdapterMatrix
        /\ \A f \in Needed(request) :
             Supports(p, ResolvedFor(p, request.model, request.op), f)
    BY <1>3 DEF IInv, RequestChecked
  <2>2. ResolvedFor(p, request.model, request.op)' = ResolvedFor(p, request.model, request.op)
    BY <2>1, <1>1, ResolvedStays
  <2> QED
    BY <1>1, <2>1, <2>2 DEF IInv, RequestChecked, Needed, Supports
<1> QED
  BY <1>2, <1>3 DEF IInv, RequestChecked

\* A constructed client knows its provider and every built-in one.
LEMMA ConstructStep ==
  ASSUME IInv, NEW arguments \in ConstructorArguments, Construct(arguments)
  PROVE  IInv'
<1> DEFINE path == arguments.config_path
           configs == AllConfigs(path)
<1>0. path \in Paths \cup {None} /\ arguments.provider \in Keys \cup {None}
  BY ClientAssumption
<1>1. Named(configs) /\ DOMAIN Builtin \subseteq DOMAIN configs
  BY <1>0, NamedAll DEF IInv
<1>2. Named(cache'.configs)
  BY <1>0, NamedLoaded DEF IInv, NamesFollow, Construct
<1>3. Surroundings'
  BY DEF Construct, IInv, Surroundings
<1>4. /\ client'.built => Named(client'.configs)
      /\ ClientShape'
  <2>1. CASE UNCHANGED client
    BY <2>1 DEF IInv, NamesFollow, ClientShape
  <2>2. CASE client' # client
    <3>1. PICK provider \in Selected(configs, arguments) :
             /\ provider \in DOMAIN configs
             /\ client' = [built |-> TRUE, configs |-> configs, provider |-> provider,
                           default_models |-> IF arguments.model = NoModel THEN <<>>
                                              ELSE [p \in {provider} |-> arguments.model],
                           arguments |-> arguments, loaded |-> cache',
                           registry |-> registry, variables |-> variables]
      BY <2>2 DEF Construct
    <3>2. arguments.provider # None => provider = Lower[arguments.provider]
      BY <3>1 DEF Selected
    <3>3. DOMAIN client'.default_models \subseteq {provider}
      BY <3>1, Empty
    <3> QED
      BY <1>1, <3>1, <3>2, <3>3 DEF ClientShape
  <2> QED
    BY <2>1, <2>2
<1>5. NamesFollow'
  BY <1>2, <1>4 DEF Construct, IInv, NamesFollow
<1>6. RequestChecked' /\ StaysHome' /\ ChecksSurvive'
  BY DEF Construct, RequestChecked, StaysHome, ChecksSurvive
<1> QED
  BY <1>3, <1>4, <1>5, <1>6 DEF IInv

LEMMA BeginStep ==
  ASSUME IInv, NEW r \in RequestArguments, Begin(r)
  PROVE  IInv'
<1>1. UNCHANGED <<process, client>>
  BY DEF Begin
<1>2. Surroundings' /\ NamesFollow' /\ ClientShape'
  BY <1>1 DEF IInv, process, Surroundings, NamesFollow, Named, ClientShape
<1>3. StaysHome' /\ ChecksSurvive'
  BY DEF Begin, StaysHome, ChecksSurvive
<1>4. /\ request' \in [op : {"chat", "embeddings"}, provider : Keys \cup {None},
                       model : Models \cup {NoModel}, features : SUBSET Capabilities,
                       swapped : BOOLEAN]
      /\ request'.op = r.op /\ request'.provider = r.provider /\ request'.model = r.model
      /\ request'.features = r.features
  BY ClientAssumption DEF Begin
<1>5. client.built /\ request' # NoRequest /\ ~request'.swapped
  BY ClientAssumption DEF Begin, Building, NoRequest, None
<1>6. PICK p : p = ProviderOf(r.provider)
  OBVIOUS
<1>7. /\ p \in DOMAIN AdapterMatrix
      /\ \A f \in Needed(r) : Supports(p, ResolvedFor(p, r.model, r.op), f)
  BY <1>6 DEF Begin
<1>8. ResolvedFor(p, r.model, r.op)' = ResolvedFor(p, r.model, r.op)
  BY <1>1, <1>5, <1>7, ResolvedStays
<1>9. ProviderOf(request.provider)' = p
  BY <1>1, <1>4, <1>6 DEF ProviderOf
<1>10. RequestChecked'
  BY <1>1, <1>4, <1>5, <1>7, <1>8, <1>9 DEF RequestChecked, Needed, Supports
<1> QED
  BY <1>2, <1>3, <1>10 DEF IInv

LEMMA SwapStep ==
  ASSUME IInv, NEW r \in RequestArguments, Swap(r.provider, r.model)
  PROVE  IInv'
<1>1. UNCHANGED <<process, client, sent>>
  BY DEF Swap
<1>2. Surroundings' /\ NamesFollow' /\ ClientShape' /\ StaysHome' /\ ChecksSurvive'
  BY <1>1 DEF IInv, process, Surroundings, NamesFollow, Named, ClientShape, StaysHome, ChecksSurvive
<1>3. r.provider \in Keys \cup {None} /\ r.model \in Models \cup {NoModel}
  BY ClientAssumption
<1>4. request # NoRequest
  BY DEF Swap, NoRequest, None
<1>5. RequestChecked'
  BY <1>1, <1>3, <1>4 DEF Swap, IInv, RequestChecked
<1> QED
  BY <1>2, <1>5 DEF IInv

LEMMA SendStep ==
  ASSUME IInv, Send
  PROVE  IInv'
<1>1. UNCHANGED <<process, client>> /\ request' = NoRequest
  BY DEF Send
<1>2. Surroundings' /\ NamesFollow' /\ ClientShape' /\ RequestChecked'
  BY <1>1 DEF IInv, process, Surroundings, NamesFollow, Named, ClientShape, RequestChecked
<1>3. PICK p : p = ProviderOf(request.provider)
  OBVIOUS
<1>4. PICK config : config = ConfigFor(p)
  OBVIOUS
<1>5. PICK model : model = ResolvedFor(p, request.model, request.op)
  OBVIOUS
<1>6. /\ client.built
      /\ request.op \in {"chat", "embeddings"}
      /\ request.provider \in Keys \cup {None}
      /\ HasConfig(p) /\ model # NotFound /\ RecheckedOf(request) \subseteq model.capabilities
      /\ sent' = [op |-> request.op, provider |-> p, features |-> request.features,
                  asked |-> request.model, swapped |-> request.swapped,
                  to |-> config, key |-> KeyFor(config), model |-> model]
  BY <1>3, <1>4, <1>5 DEF Send, Accepts, IInv, RequestChecked
<1>7. p \in Providers /\ p \in Keys /\ Lower[p] = p
  BY <1>3, <1>6, ClientAssumption DEF ProviderOf, IInv, NamesFollow, ClientShape, Named
<1>8. config.name = p
  BY <1>4, <1>6, <1>7 DEF ConfigFor, HasConfig, IInv, NamesFollow, Named
<1>9. ASSUME KeyFor(config) = "constructor"
      PROVE  /\ config = client.configs[client.provider]
             /\ client.arguments.provider # None => config.name = Lower[client.arguments.provider]
  <2>1. p = client.provider
    BY <1>8, <1>9 DEF KeyFor, None
  <2> QED
    BY <1>4, <1>6, <1>8, <2>1 DEF ConfigFor, IInv, ClientShape
<1>10. ASSUME request.model = NoModel, p # client.provider
       PROVE  model.id = Resolve(config, DefaultModelFor(config, request.op), TRUE).id
  <2>1. ModelFor(p, request.model, request.op) = DefaultModelFor(config, request.op)
    BY <1>4, <1>6, <1>10 DEF ModelFor, IInv, ClientShape
  <2>2. model = Resolve(config, DefaultModelFor(config, request.op),
                        AllowUnknown(client.arguments.strict, config))
    BY <1>4, <1>5, <2>1 DEF ResolvedFor
  <2> QED
    BY <1>6, <2>2 DEF Resolve
<1>11. StaysHome'
  BY <1>1, <1>6, <1>9, <1>10 DEF StaysHome
<1>12. ASSUME ~request.swapped
       PROVE  {request.op} \cup request.features \subseteq model.capabilities \cap AdapterMatrix[p]
  BY <1>3, <1>5, <1>12 DEF Send, IInv, RequestChecked, Needed, Supports
<1>13. ChecksSurvive'
  BY <1>6, <1>12 DEF ChecksSurvive, RecheckedOf
<1> QED
  BY <1>2, <1>11, <1>13 DEF IInv

\* Everything else leaves the client and what has been sent alone.
LEMMA SurroundingStep ==
  ASSUME IInv, client' = client, Surroundings', NamesFollow',
         request' = request \/ request' = NoRequest,
         sent' = sent \/ sent' = NoRequest
  PROVE  IInv'
<1>1. RequestChecked'
  BY RequestStays DEF RequestChecked
<1>2. ClientShape' /\ StaysHome' /\ ChecksSurvive'
  BY DEF IInv, ClientShape, StaysHome, ChecksSurvive
<1> QED
  BY <1>1, <1>2 DEF IInv

LEMMA Step == IInv /\ [Next]_vars => IInv'
<1> SUFFICES ASSUME IInv, [Next]_vars PROVE IInv'
  OBVIOUS
<1>1. ASSUME NEW arguments \in ConstructorArguments, Construct(arguments) PROVE IInv'
  BY <1>1, ConstructStep
<1>2. ASSUME NEW r \in RequestArguments, Begin(r) \/ Swap(r.provider, r.model) PROVE IInv'
  BY <1>2, BeginStep, SwapStep
<1>3. CASE Send
  BY <1>3, SendStep
<1> USE DEF IInv, process
<1>4. CASE Raise
  BY <1>4, SurroundingStep DEF Raise, Surroundings, NamesFollow, Named
<1>5. ASSUME NEW path \in Paths \cup {None}, LoadConfig(path) PROVE IInv'
  <2>1. Named(cache'.configs)
    BY <1>5, NamedLoaded DEF LoadConfig, NamesFollow
  <2>2. Surroundings' /\ NamesFollow'
    BY <1>5, <2>1 DEF LoadConfig, Surroundings, NamesFollow
  <2> QED
    BY <1>5, <2>2, SurroundingStep DEF LoadConfig
<1>6. CASE ApplyToRegistry
  <2>1. Named(registry') /\ DOMAIN Builtin \subseteq DOMAIN registry'
    BY <1>6, NamedRegistered DEF ApplyToRegistry, NamesFollow
  <2>2. Surroundings' /\ NamesFollow'
    BY <1>6, <2>1 DEF ApplyToRegistry, Surroundings, NamesFollow
  <2> QED
    BY <1>6, <2>2, SurroundingStep DEF ApplyToRegistry
<1>7. CASE ClearCache
  <2>1. Named(cache'.configs)
    BY <1>7, Empty DEF ClearCache, NotLoaded, Named
  <2>2. Surroundings' /\ NamesFollow'
    BY <1>7, <2>1 DEF ClearCache, Surroundings, NamesFollow
  <2> QED
    BY <1>7, <2>2, SurroundingStep DEF ClearCache
<1>8. CASE Change
  <2>1. NamesFollow'
    BY <1>8 DEF Change, NamesFollow
  <2>2. Surroundings'
    <3>1. CASE \E edit \in Files : WriteFile(edit.path, edit.file)
      BY <3>1, ClientAssumption DEF WriteFile, Surroundings
    <3>2. CASE \E path \in Paths : SetConfigPath(path)
      BY <3>2 DEF SetConfigPath, Surroundings
    <3>3. CASE \E v \in Variables : SetVariables(v.provider, v)
      BY <3>3, ClientAssumption DEF SetVariables, Surroundings, Scalars
    <3>4. CASE \E p \in environmentKeys : UnsetKey(p)
      BY <3>4 DEF UnsetKey, Surroundings
    <3> QED
      BY <1>8, <3>1, <3>2, <3>3, <3>4 DEF Change
  <2> QED
    BY <1>8, <2>1, <2>2, SurroundingStep DEF Change
<1>9. CASE UNCHANGED vars
  BY <1>9, SurroundingStep DEF vars, Surroundings, NamesFollow, Named
<1> QED
  BY <1>1, <1>2, <1>3, <1>4, <1>5, <1>6, <1>7, <1>8, <1>9 DEF Next

(***************************************************************************)
(* The constructor's key and model stay with the provider they were given  *)
(* for, whatever providers, files and variables there are and however a    *)
(* call, a middleware or the environment changes in between.               *)
(***************************************************************************)
THEOREM CredentialsStayHome == Spec => []StaysHome
<1>1. IInv => StaysHome
  BY DEF IInv
<1> QED
  BY ClientInit, Step, <1>1, PTL DEF Spec

(***************************************************************************)
(* What the enforcer granted before the middleware still holds when the    *)
(* request leaves, although it is resolved anew and the registry may have  *)
(* changed; of a redirected request the operation is granted.              *)
(***************************************************************************)
THEOREM ChecksStand == Spec => []ChecksSurvive
<1>1. IInv => ChecksSurvive
  BY DEF IInv
<1> QED
  BY ClientInit, Step, <1>1, PTL DEF Spec

-----------------------------------------------------------------------------
(* What configurations are made of.                                        *)

\* What anybody holds has passed the schema, and lists its aliases.
Checked(config) == DOMAIN config = Fields /\ Valid(config) /\ Listed(config)

AllChecked(configs) == \A key \in DOMAIN configs : Checked(configs[key])

\* What is loaded is the file it was loaded from over the registry of then; what
\* is still to come can be loaded.
ConfigsChecked ==
    /\ AllChecked(registry) /\ AllChecked(cache.configs) /\ AllChecked(cache.base)
    /\ client.built => AllChecked(client.configs)
    /\ cache.configs = LoadFile(cache.file, cache.base)
    /\ \A path \in Paths : \A key \in DOMAIN disk[path].providers :
         Listed(disk[path].providers[key])
    /\ \A p \in Providers : DOMAIN variables[p].fields \subseteq Scalars

LEMMA DefaultsListed == \A name : Listed(SchemaDefaults(name)) /\ DOMAIN SchemaDefaults(name) = Fields
BY Empty DEF Listed, SchemaDefaults, Fields

LEMMA MergeListed ==
  ASSUME NEW base, NEW layer, Listed(base), DOMAIN base = Fields, Listed(layer)
  PROVE  Listed(DeepMerge(base, layer))
<1> DEFINE merged == DeepMerge(base, layer)
<1>1. DOMAIN merged = Fields /\ {"models", "aliases"} \subseteq Fields
  BY DEF DeepMerge, Fields
<1>2. merged.models = IF "models" \in DOMAIN layer THEN Over(layer.models, base.models)
                                                   ELSE base.models
  BY <1>1 DEF DeepMerge
<1>3. merged.aliases = IF "aliases" \in DOMAIN layer THEN Over(layer.aliases, base.aliases)
                                                     ELSE base.aliases
  BY <1>1 DEF DeepMerge
<1>4. /\ DOMAIN merged.models \subseteq Models /\ DOMAIN base.models \subseteq DOMAIN merged.models
      /\ "models" \in DOMAIN layer => DOMAIN layer.models \subseteq DOMAIN merged.models
  BY <1>1, <1>2 DEF Listed, Over
<1>5. ASSUME NEW a \in DOMAIN merged.aliases PROVE merged.aliases[a] \in DOMAIN merged.models
  <2>1. CASE "aliases" \in DOMAIN layer /\ a \in DOMAIN layer.aliases
    BY <1>3, <1>4, <2>1 DEF Listed, Over
  <2>2. CASE ~("aliases" \in DOMAIN layer /\ a \in DOMAIN layer.aliases)
    BY <1>1, <1>3, <1>4, <1>5, <2>2 DEF Listed, Over
  <2> QED
    BY <2>1, <2>2
<1> QED
  BY <1>1, <1>4, <1>5 DEF Listed

\* A layer over what is registered under its key, or over the schema's defaults.
Base(key, reg) == IF key \in DOMAIN reg THEN reg[key] ELSE SchemaDefaults(key)

LEMMA BaseListed ==
  ASSUME NEW reg, AllChecked(reg), NEW key
  PROVE  Listed(Base(key, reg)) /\ DOMAIN Base(key, reg) = Fields
BY DefaultsListed DEF Base, AllChecked, Checked

LEMMA MergedFields ==
  ASSUME NEW reg, NEW key, NEW layer
  PROVE  LET merged == MergeWithDefaults(key, layer, reg)
         IN  /\ DOMAIN merged = Fields
             /\ \A f \in Fields \ {"name"} : merged[f] = DeepMerge(Base(key, reg), layer)[f]
BY DEF MergeWithDefaults, DeepMerge, Base, Fields

LEMMA CheckedFile ==
  ASSUME NEW file, NEW reg, AllChecked(reg), Loadable(file, reg),
         \A key \in DOMAIN file.providers : Listed(file.providers[key])
  PROVE  AllChecked(LoadFile(file, reg))
<1> SUFFICES ASSUME NEW key \in DOMAIN file.providers
             PROVE  Checked(MergeWithDefaults(key, file.providers[key], reg))
  BY DEF AllChecked, LoadFile
<1> DEFINE merged == MergeWithDefaults(key, file.providers[key], reg)
           plain == DeepMerge(Base(key, reg), file.providers[key])
<1>1. Valid(merged)
  BY DEF Loadable
<1>2. Listed(plain)
  BY BaseListed, MergeListed
<1>3. DOMAIN merged = Fields /\ merged.models = plain.models /\ merged.aliases = plain.aliases
  BY MergedFields DEF Fields
<1>4. DOMAIN plain = Fields
  BY DEF DeepMerge
<1>5. Listed(merged)
  BY <1>2, <1>3, <1>4 DEF Listed
<1> QED
  BY <1>1, <1>3, <1>5 DEF Checked

LEMMA CheckedOver ==
  ASSUME NEW f, NEW g, AllChecked(f), AllChecked(g)
  PROVE  AllChecked(Over(f, g))
BY DEF AllChecked, Over

\* Variables reach scalar fields, and those only where the result is valid.
LEMMA EnvFields ==
  ASSUME NEW config, NEW v, DOMAIN v.fields \subseteq Scalars
  PROVE  LET merged == EnvMerge(config, v)
         IN  /\ DOMAIN merged = Fields
             /\ merged.aliases = config.aliases /\ DOMAIN merged.models = DOMAIN config.models
             /\ \A f \in Scalars : merged[f] = IF f \in DOMAIN EnvOverrides(v)
                                                 THEN EnvOverrides(v)[f] ELSE config[f]
<1>1. DOMAIN EnvOverrides(v) \subseteq Scalars
  BY DEF EnvOverrides
<1>2. "models" \notin Scalars /\ "aliases" \notin Scalars /\ Scalars \subseteq Fields
      /\ "models" \in Fields /\ "aliases" \in Fields
  BY DEF Scalars, Fields
<1> QED
  BY <1>1, <1>2 DEF EnvMerge

LEMMA CheckedEnv ==
  ASSUME NEW config, Checked(config), NEW v, DOMAIN v.fields \subseteq Scalars
  PROVE  Checked(ApplyEnv(config, v))
<1> DEFINE merged == EnvMerge(config, v)
<1>1. CASE Valid(merged)
  <2>1. Listed(merged)
    BY EnvFields DEF Checked, Listed
  <2> QED
    BY <1>1, <2>1, EnvFields DEF ApplyEnv, Checked
<1>2. CASE ~Valid(merged)
  BY <1>2 DEF ApplyEnv
<1> QED
  BY <1>1, <1>2

LEMMA ListedFile ==
  ASSUME IInv, ConfigsChecked, NEW path \in Paths \cup {None}
  PROVE  \A key \in DOMAIN FileFor(path).providers : Listed(FileFor(path).providers[key])
<1>1. \A key \in DOMAIN Discovered.providers : Listed(Discovered.providers[key])
  <2> DEFINE first == {i \in 1..Len(DefaultPaths) :
                          /\ disk[DefaultPaths[i]] # Missing
                          /\ \A j \in 1..i - 1 : disk[DefaultPaths[j]] = Missing}
  <2>1. CASE first = {}
    BY <2>1, Empty DEF Discovered, Missing
  <2>2. CASE first # {}
    <3>1. \A i \in first : DefaultPaths[i] \in Paths
      BY ClientAssumption
    <3> QED
      BY <2>2, <3>1 DEF Discovered, ConfigsChecked
  <2> QED
    BY <2>1, <2>2
<1> QED
  BY <1>1, ClientAssumption DEF FileFor, IInv, Surroundings, ConfigsChecked

LEMMA NothingLoaded == \A reg : LoadFile(Missing, reg) = <<>>
BY Empty DEF LoadFile, Missing

\* What load_config returns, and remembers.
LEMMA CheckedLoaded ==
  ASSUME IInv, ConfigsChecked, NEW path \in Paths \cup {None}, CanLoad(path)
  PROVE  /\ AllChecked(Loaded(path).configs) /\ AllChecked(Loaded(path).base)
         /\ Loaded(path).configs = LoadFile(Loaded(path).file, Loaded(path).base)
<1>1. CASE cache.loaded
  BY <1>1 DEF Loaded, ConfigsChecked
<1>2. CASE ~cache.loaded
  <2>1. /\ Loaded(path).configs = LoadFile(FileFor(path), registry)
        /\ Loaded(path).file = FileFor(path) /\ Loaded(path).base = registry
    BY <1>2 DEF Loaded
  <2>2. CASE path = None /\ config_path = None /\ Discovered = Missing
    <3>1. FileFor(path) = Missing
      BY <2>2 DEF FileFor
    <3>2. AllChecked(<<>>)
      BY Empty DEF AllChecked
    <3> QED
      BY <2>1, <3>1, <3>2, NothingLoaded DEF ConfigsChecked
  <2>3. CASE Loadable(FileFor(path), registry)
    <3>1. \A key \in DOMAIN FileFor(path).providers : Listed(FileFor(path).providers[key])
      BY ListedFile
    <3> QED
      BY <2>1, <2>3, <3>1, CheckedFile DEF ConfigsChecked
  <2> QED
    BY <1>2, <2>2, <2>3 DEF CanLoad, Readable
<1> QED
  BY <1>1, <1>2

LEMMA CheckedAll ==
  ASSUME IInv, ConfigsChecked, NEW path \in Paths \cup {None}, CanLoad(path)
  PROVE  AllChecked(AllConfigs(path))
<1> DEFINE merged == Over(Loaded(path).configs, registry)
<1>1. AllChecked(merged) /\ Named(merged)
  BY CheckedLoaded, CheckedOver, NamedLoaded, NamedOver DEF ConfigsChecked, IInv, NamesFollow
<1>2. \A key \in DOMAIN merged : merged[key].name \in Providers
  BY <1>1, ClientAssumption DEF Named
<1>3. \A key \in DOMAIN merged :
        Checked(ApplyEnv(merged[key], variables[merged[key].name]))
  BY <1>1, <1>2, CheckedEnv DEF AllChecked, ConfigsChecked
<1> QED
  BY <1>3 DEF AllConfigs, AllChecked

LEMMA CheckedRegistered ==
  ASSUME NEW configs, AllChecked(configs), AllChecked(registry)
  PROVE  AllChecked(Registered(configs))
<1> DEFINE names == {configs[key].name : key \in DOMAIN configs}
           named == [n \in names |-> configs[CHOOSE key \in DOMAIN configs : configs[key].name = n]]
<1>1. AllChecked(named)
  <2>1. ASSUME NEW n \in names PROVE Checked(named[n])
    <3>1. PICK key \in DOMAIN configs : configs[key].name = n
      OBVIOUS
    <3> QED
      BY <3>1 DEF AllChecked
  <2> QED
    BY <2>1 DEF AllChecked
<1>2. Registered(configs) = Over(named, registry)
  BY DEF Registered
<1> QED
  BY <1>1, <1>2, CheckedOver

LEMMA CheckedInit == Init => ConfigsChecked
<1> SUFFICES ASSUME Init PROVE ConfigsChecked
  OBVIOUS
<1>1. AllChecked(registry)
  BY ClientAssumption DEF Init, AllChecked, Checked
<1>2. AllChecked(<<>>) /\ cache.configs = <<>> /\ cache.base = <<>> /\ cache.file = Missing
  BY Empty DEF Init, AllChecked, NotLoaded
<1>3. cache.configs = LoadFile(cache.file, cache.base)
  BY <1>2, NothingLoaded
<1>4. \A path \in Paths : disk[path].providers = <<>>
  BY DEF Init, Missing
<1>5. \A p \in Providers : variables[p].fields = <<>>
  BY DEF Init, NoVariables
<1> QED
  BY <1>1, <1>2, <1>3, <1>4, <1>5, Empty DEF Init, ConfigsChecked, NoClient

LEMMA CheckedStep == IInv /\ ConfigsChecked /\ [Next]_vars => ConfigsChecked'
<1> SUFFICES ASSUME IInv, ConfigsChecked, [Next]_vars PROVE ConfigsChecked'
  OBVIOUS
<1> USE DEF ConfigsChecked
<1>1. ASSUME NEW arguments \in ConstructorArguments, Construct(arguments) PROVE ConfigsChecked'
  <2>1. arguments.config_path \in Paths \cup {None} /\ CanLoad(arguments.config_path)
    BY <1>1, ClientAssumption DEF Construct
  <2>2. AllChecked(AllConfigs(arguments.config_path))
    BY <2>1, CheckedAll
  <2>3. /\ AllChecked(cache'.configs) /\ AllChecked(cache'.base)
        /\ cache'.configs = LoadFile(cache'.file, cache'.base)
    BY <1>1, <2>1, CheckedLoaded DEF Construct
  <2>4. client' = client \/ client'.configs = AllConfigs(arguments.config_path)
    <3>1. client' # client => \E provider, models, loaded :
             client' = [built |-> TRUE, configs |-> AllConfigs(arguments.config_path),
                        provider |-> provider, default_models |-> models,
                        arguments |-> arguments, loaded |-> loaded,
                        registry |-> registry, variables |-> variables]
      BY <1>1 DEF Construct
    <3> QED
      BY <3>1
  <2> QED
    BY <1>1, <2>2, <2>3, <2>4 DEF Construct
<1>2. CASE \/ \E r \in RequestArguments : Begin(r) \/ Swap(r.provider, r.model)
           \/ Send \/ Raise \/ UNCHANGED vars
  BY <1>2 DEF Begin, Swap, Send, Raise, vars, process
<1>3. ASSUME NEW path \in Paths \cup {None}, LoadConfig(path) PROVE ConfigsChecked'
  <2>1. /\ AllChecked(cache'.configs) /\ AllChecked(cache'.base)
        /\ cache'.configs = LoadFile(cache'.file, cache'.base)
    BY <1>3, CheckedLoaded DEF LoadConfig, CanLoad
  <2> QED
    BY <1>3, <2>1 DEF LoadConfig
<1>4. CASE ApplyToRegistry
  BY <1>4, CheckedRegistered DEF ApplyToRegistry
<1>5. CASE ClearCache
  <2>1. AllChecked(<<>>) /\ cache'.configs = <<>> /\ cache'.base = <<>> /\ cache'.file = Missing
    BY <1>5, Empty DEF ClearCache, AllChecked, NotLoaded
  <2>2. cache'.configs = LoadFile(cache'.file, cache'.base)
    BY <2>1, NothingLoaded
  <2> QED
    BY <1>5, <2>1, <2>2 DEF ClearCache
<1>6. CASE Change
  <2>1. UNCHANGED <<registry, cache, client>>
    BY <1>6 DEF Change
  <2>2. \A path \in Paths : \A key \in DOMAIN disk'[path].providers :
          Listed(disk'[path].providers[key])
    BY <1>6, ClientAssumption DEF Change, WriteFile, SetConfigPath, SetVariables, UnsetKey,
                                  IInv, Surroundings
  <2>3. \A p \in Providers : DOMAIN variables'[p].fields \subseteq Scalars
    BY <1>6, ClientAssumption DEF Change, WriteFile, SetConfigPath, SetVariables, UnsetKey,
                                  IInv, Surroundings
  <2> QED
    BY <2>1, <2>2, <2>3
<1> QED
  BY <1>1, <1>2, <1>3, <1>4, <1>5, <1>6 DEF Next

(***************************************************************************)
(* Every configuration in the registry, the file cache and a client has    *)
(* passed the schema, whatever files and variables say and in whatever     *)
(* order they are loaded, cleared and registered: loader.py validates what *)
(* it merges, and env.py keeps a configuration that its variables would    *)
(* spoil.                                                                  *)
(***************************************************************************)
THEOREM SchemaKept == Spec => []SchemaHolds
<1>1. IInv /\ ConfigsChecked => SchemaHolds
  BY ClientAssumption DEF IInv, NamesFollow, Named, ConfigsChecked, AllChecked, Checked,
                          SchemaHolds, Configs
<1> QED
  BY ClientInit, Step, CheckedInit, CheckedStep, <1>1, PTL DEF Spec

-----------------------------------------------------------------------------
(* The layers of a client's configurations.                                *)

\* Layers, for one configuration of a client that was made of these.
LayersOf(config, key, loaded, reg, settings) ==
    LET file == loaded.file.providers
        layer == IF key \in DOMAIN file THEN file[key] ELSE <<>>
        base == IF key \notin DOMAIN file THEN reg[key] ELSE Base(key, loaded.base)
        below == Over(layer, base)
        above == Over(EnvOverrides(settings[config.name]), below)
    IN  /\ \/ \A f \in Scalars : config[f] = above[f]
           \/ \A f \in Scalars : config[f] = below[f]
        /\ DOMAIN base.models \subseteq DOMAIN config.models

\* A merged configuration takes each field from the layer that gives it.
LEMMA MergeLayers ==
  ASSUME NEW reg, NEW key, NEW layer, DOMAIN Base(key, reg) = Fields
  PROVE  LET merged == MergeWithDefaults(key, layer, reg)
             base == Base(key, reg)
         IN  /\ \A f \in Scalars : merged[f] = Over(layer, base)[f]
             /\ DOMAIN base.models \subseteq DOMAIN merged.models
<1>1. Scalars \subseteq Fields \ {"name", "models", "aliases"} /\ "models" \in Fields \ {"name"}
  BY DEF Scalars, Fields
<1>2. \A f \in Scalars : DeepMerge(Base(key, reg), layer)[f] = Over(layer, Base(key, reg))[f]
  BY <1>1 DEF DeepMerge, Over
<1>3. DOMAIN Base(key, reg).models \subseteq DOMAIN DeepMerge(Base(key, reg), layer).models
  BY <1>1 DEF DeepMerge, Over
<1> QED
  BY <1>1, <1>2, <1>3, MergedFields

LEMMA OverNothing == ASSUME NEW base, NEW f \in DOMAIN base PROVE Over(<<>>, base)[f] = base[f]
BY Empty DEF Over

\* The environment comes last, with all that it sets or with nothing.
LEMMA EnvLayers ==
  ASSUME NEW config, NEW v, DOMAIN v.fields \subseteq Scalars, NEW below,
         Scalars \subseteq DOMAIN below,
         \A f \in Scalars : config[f] = below[f]
  PROVE  LET applied == ApplyEnv(config, v)
             above == Over(EnvOverrides(v), below)
         IN  /\ \/ \A f \in Scalars : applied[f] = above[f]
                \/ \A f \in Scalars : applied[f] = below[f]
             /\ DOMAIN config.models \subseteq DOMAIN applied.models
<1> DEFINE merged == EnvMerge(config, v)
<1>1. CASE Valid(merged)
  <2>1. ApplyEnv(config, v) = merged
    BY <1>1 DEF ApplyEnv
  <2>2. \A f \in Scalars : merged[f] = Over(EnvOverrides(v), below)[f]
    BY EnvFields DEF Over
  <2> QED
    BY <2>1, <2>2, EnvFields
<1>2. CASE ~Valid(merged)
  BY <1>2 DEF ApplyEnv
<1> QED
  BY <1>1, <1>2

LEMMA LayersMade ==
  ASSUME IInv, ConfigsChecked, NEW path \in Paths \cup {None}, CanLoad(path),
         NEW key \in DOMAIN AllConfigs(path)
  PROVE  LayersOf(AllConfigs(path)[key], key, Loaded(path), registry, variables)
<1> DEFINE loaded == Loaded(path)
           file == loaded.file.providers
           merged == Over(loaded.configs, registry)
           config == merged[key]
           layer == IF key \in DOMAIN file THEN file[key] ELSE <<>>
           base == IF key \notin DOMAIN file THEN registry[key] ELSE Base(key, loaded.base)
           below == Over(layer, base)
<1>1. /\ loaded.configs = LoadFile(loaded.file, loaded.base)
      /\ AllChecked(loaded.base) /\ DOMAIN loaded.configs = DOMAIN file
  BY CheckedLoaded DEF LoadFile
<1>2. DOMAIN AllConfigs(path) = DOMAIN loaded.configs \cup DOMAIN registry
  BY DEF AllConfigs, Over
<1>3. Scalars \subseteq Fields /\ "models" \in Fields
  BY DEF Scalars, Fields
<1>4. /\ DOMAIN base = Fields
      /\ \A f \in Scalars : config[f] = below[f]
      /\ DOMAIN base.models \subseteq DOMAIN config.models
  <2>1. CASE key \in DOMAIN file
    <3>1. config = MergeWithDefaults(key, layer, loaded.base) /\ base = Base(key, loaded.base)
      BY <1>1, <2>1 DEF Over, LoadFile
    <3>2. DOMAIN base = Fields
      BY <1>1, <3>1, BaseListed
    <3> QED
      BY <3>1, <3>2, MergeLayers
  <2>2. CASE key \notin DOMAIN file
    <3>1. config = registry[key] /\ base = registry[key] /\ below = Over(<<>>, base)
      BY <1>1, <1>2, <2>2 DEF Over
    <3>2. DOMAIN base = Fields
      BY <1>1, <1>2, <2>2, <3>1 DEF ConfigsChecked, AllChecked, Checked
    <3> QED
      BY <1>3, <3>1, <3>2, OverNothing
  <2> QED
    BY <2>1, <2>2
<1>5. Scalars \subseteq DOMAIN below
  BY <1>3, <1>4 DEF Over
<1>6. config.name \in Providers
  <2>1. Named(merged)
    BY NamedLoaded, NamedOver DEF IInv, NamesFollow
  <2>2. key \in DOMAIN merged
    BY <1>2 DEF Over
  <2> QED
    BY <2>1, <2>2, ClientAssumption DEF Named
<1>7. DOMAIN variables[config.name].fields \subseteq Scalars
  BY <1>6 DEF ConfigsChecked
<1>8. AllConfigs(path)[key] = ApplyEnv(config, variables[config.name])
  BY <1>2 DEF AllConfigs, Over
<1>9. AllConfigs(path)[key].name = config.name
  <2>1. "name" \notin DOMAIN variables[config.name].fields
    BY <1>7 DEF Scalars
  <2> QED
    BY <2>1, <1>8, NamedEnv
<1>10. /\ \/ \A f \in Scalars : AllConfigs(path)[key][f]
                                  = Over(EnvOverrides(variables[config.name]), below)[f]
          \/ \A f \in Scalars : AllConfigs(path)[key][f] = below[f]
       /\ DOMAIN config.models \subseteq DOMAIN AllConfigs(path)[key].models
  <2>1. PICK c, v, b : c = config /\ v = variables[config.name] /\ b = below
    OBVIOUS
  <2>2. /\ DOMAIN v.fields \subseteq Scalars /\ Scalars \subseteq DOMAIN b
        /\ \A f \in Scalars : c[f] = b[f]
    BY <1>4, <1>5, <1>7, <2>1
  <2>3. PICK applied, above : applied = ApplyEnv(c, v) /\ above = Over(EnvOverrides(v), b)
    OBVIOUS
  <2>4. /\ (\A f \in Scalars : applied[f] = above[f]) \/ (\A f \in Scalars : applied[f] = b[f])
        /\ DOMAIN c.models \subseteq DOMAIN applied.models
    BY <2>2, <2>3, EnvLayers
  <2> QED
    BY <1>8, <2>1, <2>3, <2>4
<1> QED
  BY <1>4, <1>9, <1>10 DEF LayersOf

\* A client is made whole by its constructor, and nothing changes it.
LEMMA ClientMade ==
  ASSUME NEW arguments \in ConstructorArguments, Construct(arguments), client' # client
  PROVE  \E provider \in Selected(AllConfigs(arguments.config_path), arguments) :
           /\ provider \in DOMAIN AllConfigs(arguments.config_path)
           /\ ModelAccepted(AllConfigs(arguments.config_path), provider, arguments)
           /\ client'.configs = AllConfigs(arguments.config_path)
           /\ client'.provider = provider /\ client'.arguments = arguments
           /\ client'.loaded = Loaded(arguments.config_path)
           /\ client'.registry = registry /\ client'.variables = variables
<1> DEFINE configs == AllConfigs(arguments.config_path)
<1>1. PICK provider \in Selected(configs, arguments) :
           /\ provider \in DOMAIN configs
           /\ ModelAccepted(configs, provider, arguments)
           /\ client' = [built |-> TRUE, configs |-> configs, provider |-> provider,
                         default_models |-> IF arguments.model = NoModel THEN <<>>
                                            ELSE [p \in {provider} |-> arguments.model],
                         arguments |-> arguments, loaded |-> Loaded(arguments.config_path),
                         registry |-> registry, variables |-> variables]
  BY DEF Construct
<1> HIDE DEF configs
<1> QED
  BY <1>1 DEF configs
LEMMA ClientStays ==
  ASSUME [Next]_vars, client' # client
  PROVE  \E arguments \in ConstructorArguments : Construct(arguments)
BY DEF Next, Begin, Swap, Send, Raise, LoadConfig, ApplyToRegistry, ClearCache, Change, vars

LEMMA LayersStep == IInv /\ ConfigsChecked /\ Layers /\ [Next]_vars => Layers'
<1> SUFFICES ASSUME IInv, ConfigsChecked, Layers, [Next]_vars PROVE Layers'
  OBVIOUS
<1>1. CASE client' = client
  BY <1>1 DEF Layers
<1>2. CASE client' # client
  <2>1. PICK arguments \in ConstructorArguments : Construct(arguments)
    BY <1>2, ClientStays
  <2>2. arguments.config_path \in Paths \cup {None} /\ CanLoad(arguments.config_path)
    BY <2>1, ClientAssumption DEF Construct
  <2>3. /\ client'.configs = AllConfigs(arguments.config_path)
        /\ client'.loaded = Loaded(arguments.config_path)
        /\ client'.registry = registry /\ client'.variables = variables
    BY <1>2, <2>1, ClientMade
  <2>4. \A key \in DOMAIN client'.configs :
          LayersOf(client'.configs[key], key, client'.loaded, client'.registry,
                   client'.variables)
    BY <2>2, <2>3, LayersMade
  <2> QED
    BY <2>4 DEF Layers, LayersOf, Base
<1> QED
  BY <1>1, <1>2

(***************************************************************************)
(* Each scalar setting of a client's provider is the environment's, else   *)
(* the loaded file's, else the registry's when it was loaded, and no layer *)
(* loses a model: client.py:142-147, loader.py:192-218, env.py:233-278.    *)
(***************************************************************************)
THEOREM LayersOrdered == Spec => []Layers
<1>1. Init => Layers
  BY DEF Init, Layers, NoClient
<1> QED
  BY <1>1, ClientInit, Step, CheckedInit, CheckedStep, LayersStep, PTL DEF Spec

-----------------------------------------------------------------------------
(* Models.                                                                 *)

LEMMA ForeignStep == ForeignModelRejected /\ [Next]_vars => ForeignModelRejected'
<1> SUFFICES ASSUME ForeignModelRejected, [Next]_vars PROVE ForeignModelRejected'
  OBVIOUS
<1>1. CASE client' = client
  BY <1>1 DEF ForeignModelRejected
<1>2. CASE client' # client
  <2>1. PICK arguments \in ConstructorArguments : Construct(arguments)
    BY <1>2, ClientStays
  <2> DEFINE configs == AllConfigs(arguments.config_path)
  <2>2. PICK provider \in Selected(configs, arguments) :
           /\ provider \in DOMAIN configs
           /\ ModelAccepted(configs, provider, arguments)
           /\ client'.configs = configs /\ client'.provider = provider
           /\ client'.arguments = arguments
    BY <1>2, <2>1, ClientMade
  <2>3. ASSUME arguments.model # NoModel
        PROVE  /\ ProvidersFor(configs, arguments.model) = {}
                    \/ provider \in ProvidersFor(configs, arguments.model)
               /\ arguments.provider = None =>
                    ProvidersFor(configs, arguments.model) = {provider}
    BY <2>2, <2>3 DEF ModelAccepted, Selected, ProvidersFor
  <2> QED
    BY <2>2, <2>3 DEF ForeignModelRejected
<1> QED
  BY <1>1, <1>2

(***************************************************************************)
(* No client is made for a model that only other providers declare, and a  *)
(* provider is inferred from a model only if no other declares it:         *)
(* client.py:226-255 and 263-292, providers.py:634-653.                    *)
(***************************************************************************)
THEOREM ForeignRejected == Spec => []ForeignModelRejected
<1>1. Init => ForeignModelRejected
  BY DEF Init, ForeignModelRejected, NoClient
<1> QED
  BY <1>1, ForeignStep, PTL DEF Spec

\* An id that has been resolved is no alias, whether the provider knows it or not.
LEMMA ResolvedIds ==
  ASSUME NEW config, Checked(config), NEW id, NEW allow,
         Resolve(config, id, allow) # NotFound
  PROVE  /\ Resolve(config, id, allow).id \notin DOMAIN config.aliases
         /\ allow = FALSE => Resolve(config, id, allow).id \in DOMAIN config.models
<1>1. DOMAIN config.models \cap DOMAIN config.aliases = {}
  BY DEF Checked, Valid
<1>2. /\ DOMAIN config.models \subseteq Models
      /\ \A a \in DOMAIN config.aliases : config.aliases[a] \in DOMAIN config.models
  BY DEF Checked, Listed, Fields
<1>3. CASE KnowsModel(config, id)
  <2>1. Lookup(config, id) \in DOMAIN config.models
    BY <1>2, <1>3 DEF KnowsModel, Lookup
  <2>2. Resolve(config, id, allow).id = Lookup(config, id)
    BY <1>3 DEF Resolve
  <2> QED
    BY <1>1, <2>1, <2>2
<1>4. CASE ~KnowsModel(config, id)
  <2>1. id \notin DOMAIN config.aliases
    BY <1>2, <1>4, ClientAssumption DEF KnowsModel, Lookup
  <2>2. allow /\ Resolve(config, id, allow).id = id
    BY <1>4 DEF Resolve
  <2> QED
    BY <2>1, <2>2
<1> QED
  BY <1>3, <1>4

LEMMA DeclaredStep == IInv /\ ConfigsChecked /\ DeclaredIds /\ [Next]_vars => DeclaredIds'
<1> SUFFICES ASSUME IInv, ConfigsChecked, DeclaredIds, [Next]_vars PROVE DeclaredIds'
  OBVIOUS
<1>1. CASE Send
  <2>1. PICK p : p = ProviderOf(request.provider)
    OBVIOUS
  <2>2. PICK allow : allow = AllowUnknown(client.arguments.strict, ConfigFor(p))
    OBVIOUS
  <2>3. /\ HasConfig(p) /\ client' = client /\ sent'.to = ConfigFor(p)
        /\ sent'.model = Resolve(ConfigFor(p), ModelFor(p, request.model, request.op), allow)
        /\ sent'.model # NotFound
    BY <1>1, <2>1, <2>2 DEF Send, Accepts, ResolvedFor
  <2>4. client.built
    BY <1>1 DEF Send, IInv, RequestChecked
  <2>5. Checked(ConfigFor(p))
    BY <2>3, <2>4 DEF ConfigFor, HasConfig, ConfigsChecked, AllChecked
  <2>6. client.arguments.strict = "yes" => allow = FALSE
    BY <2>2 DEF AllowUnknown
  <2> QED
    BY <2>3, <2>5, <2>6, ResolvedIds DEF DeclaredIds
<1>2. ASSUME NEW arguments \in ConstructorArguments, Construct(arguments) PROVE DeclaredIds'
  BY <1>2 DEF Construct, DeclaredIds
<1>3. CASE ~Send /\ ~(\E arguments \in ConstructorArguments : Construct(arguments))
  <2>1. client' = client /\ (sent' = sent \/ sent' = NoRequest)
    BY <1>3 DEF Next, Begin, Swap, Raise, LoadConfig, ApplyToRegistry, ClearCache, Change, vars
  <2> QED
    BY <2>1 DEF DeclaredIds
<1> QED
  BY <1>1, <1>2, <1>3

(***************************************************************************)
(* No alias leaves in the place of a model id, and under strict_models no  *)
(* id that its provider does not declare, wherever the provider and the id *)
(* come from: schema.py:345-384 over configurations that have passed       *)
(* schema.py:248-311.                                                      *)
(***************************************************************************)
THEOREM IdsDeclared == Spec => []DeclaredIds
<1>1. Init => DeclaredIds
  BY DEF Init, DeclaredIds
<1> QED
  BY <1>1, ClientInit, Step, CheckedInit, CheckedStep, DeclaredStep, PTL DEF Spec
=============================================================================
