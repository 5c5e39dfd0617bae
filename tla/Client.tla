------------------------------- MODULE Client -------------------------------
(***************************************************************************)
(* client.py over registry/providers.py, loader.py and env.py: how a       *)
(* client is configured from the registry, a file and the environment, and *)
(* to which provider, with which model and key, its requests go.           *)
(*                                                                         *)
(* The registry, the file cache, the files and the environment belong to   *)
(* the process.  `client` is the one constructed last: clients share       *)
(* nothing else.                                                           *)
(***************************************************************************)
EXTENDS ProviderConfigs, Integers

CONSTANTS
    Keys,               \* names as files and callers write them: Providers and more
    Lower,              \* str.lower() on Keys
    Builtin,            \* the built-in PROVIDER_REGISTRY
    AdapterMatrix,      \* capabilities() of the adapters; its domain is _ADAPTER_SPECS
    DefaultProvider,    \* DEFAULT_PROVIDER
    Paths, DefaultPaths,    \* paths of configuration files; those searched, in order
    Files,              \* what may be written to which path
    Variables,          \* what the environment may be told of which provider
    ConstructorArguments, RequestArguments,     \* what an application may pass
    MaxChanges          \* bound: changes of files and environment

None == "none"

\* What the application and the tables of the code give.  A name is known in
\* lower case, a built-in configuration has passed the schema, an adapter belongs
\* to a built-in provider, and variables set scalar fields.
ASSUME ClientAssumption ==
    /\ None \notin Keys \cup Paths
    /\ NoModel \notin Models
    /\ Providers \subseteq Keys
    /\ Lower \in [Keys -> Providers]
    /\ \A p \in Providers : Lower[p] = p
    /\ DefaultProvider \in Providers
    /\ \A p \in DOMAIN Builtin :
         /\ p \in Providers /\ Builtin[p].name = p
         /\ DOMAIN Builtin[p] = Fields /\ Valid(Builtin[p]) /\ Listed(Builtin[p])
    /\ DOMAIN AdapterMatrix \subseteq DOMAIN Builtin
    /\ DefaultPaths \in Seq(Paths)
    /\ \A edit \in Files :
         /\ edit.path \in Paths /\ DOMAIN edit.file.providers \subseteq Keys
         /\ \A key \in DOMAIN edit.file.providers : Listed(edit.file.providers[key])
    /\ \A v \in Variables : v.provider \in Providers /\ DOMAIN v.fields \subseteq Scalars
    /\ ConstructorArguments \subseteq
           [provider : Keys \cup {None}, model : Models \cup {NoModel},
            strict : {"unset", "yes", "no"}, key : BOOLEAN, config_path : Paths \cup {None}]
    /\ RequestArguments \subseteq
           [op : {"chat", "embeddings"}, provider : Keys \cup {None},
            model : Models \cup {NoModel}, features : SUBSET Capabilities]

VARIABLES
    registry,   \* PROVIDER_REGISTRY
    cache,      \* _config_cache, and (history) what it was loaded from
    disk,       \* the files
    config_path,    \* UAI_CONFIG_PATH, or None
    variables,  \* UAI_PROVIDER_..., per provider
    environmentKeys,    \* providers whose api_key_env_var is set
    client,     \* the client, and (history) what it was made from; or NoClient
    request,    \* the request of the client that is under way, or NoRequest
    sent,       \* what has just been sent, or NoRequest
    changes

process == <<registry, cache, disk, config_path, variables, environmentKeys>>
vars == <<process, client, request, sent, changes>>

NoClient == [built |-> FALSE]
NoRequest == [op |-> None]

\* Files: none, one that does not parse or has no providers, or one that has.
Missing == [kind |-> "missing", providers |-> <<>>]

NotLoaded == [loaded |-> FALSE, configs |-> <<>>, file |-> Missing, base |-> <<>>]

Building == client.built /\ request = NoRequest

-----------------------------------------------------------------------------
(* Loading files.                                                          *)

\* _merge_with_defaults: a layer over a registered provider, or a provider of
\* its own.  The name is the key, which the schema's validator lower-cases.
MergeWithDefaults(key, layer, reg) ==
    [DeepMerge(IF key \in DOMAIN reg THEN reg[key] ELSE SchemaDefaults(key), layer)
       EXCEPT !.name = Lower[key]]

\* What load_config_file accepts: otherwise it raises ConfigError.
Loadable(file, reg) ==
    /\ file.kind = "providers"
    /\ \A key \in DOMAIN file.providers :
         /\ key \in DOMAIN reg \/ RequiredFields \subseteq DOMAIN file.providers[key]
         /\ Valid(MergeWithDefaults(key, file.providers[key], reg))

LoadFile(file, reg) ==
    [key \in DOMAIN file.providers |-> MergeWithDefaults(key, file.providers[key], reg)]

\* find_config_file: the first of the default paths that exists, if any.
Discovered ==
    LET first == {i \in 1..Len(DefaultPaths) :
                    /\ disk[DefaultPaths[i]] # Missing
                    /\ \A j \in 1..i - 1 : disk[DefaultPaths[j]] = Missing}
    IN  IF first = {} THEN Missing ELSE disk[DefaultPaths[CHOOSE i \in first : TRUE]]

\* The file load_config(path) reads, when it reads one.
FileFor(path) ==
    IF path # None THEN disk[path]
    ELSE IF config_path # None THEN disk[config_path]
    ELSE Discovered

Readable(path) ==
    \/ path = None /\ config_path = None /\ Discovered = Missing
    \/ Loadable(FileFor(path), registry)

\* load_config: what has been loaded before, whatever the path, or the file.
Loaded(path) ==
    IF cache.loaded THEN cache
    ELSE [loaded |-> TRUE, configs |-> LoadFile(FileFor(path), registry),
          file |-> FileFor(path), base |-> registry]

CanLoad(path) == cache.loaded \/ Readable(path)

\* apply_to_registry, register_provider(override=True) for each.
Registered(configs) ==
    LET names == {configs[key].name : key \in DOMAIN configs}
    IN  Over([n \in names |-> configs[CHOOSE key \in DOMAIN configs : configs[key].name = n]],
             registry)

-----------------------------------------------------------------------------
(* Constructing a client.                                                  *)

\* The environment over the file over the registry.
AllConfigs(path) ==
    LET merged == Over(Loaded(path).configs, registry)
    IN  [key \in DOMAIN merged |-> ApplyEnv(merged[key], variables[merged[key].name])]

\* find_providers_for_model
ProvidersFor(configs, model) == {key \in DOMAIN configs : KnowsModel(configs[key], model)}

\* _select_provider: what it returns, or nothing if it raises.
Selected(configs, arguments) ==
    IF arguments.provider # None THEN {Lower[arguments.provider]}
    ELSE IF arguments.model = NoModel THEN {DefaultProvider}
    ELSE LET candidates == ProvidersFor(configs, arguments.model)
         IN  {only \in candidates : candidates = {only}}

\* _allow_unknown_for
AllowUnknown(strict, config) ==
    IF strict = "unset" THEN config.allow_unknown_models = "yes" ELSE strict = "no"

ModelAccepted_Anywhere(configs, provider, arguments) ==
    \/ arguments.model = NoModel
    \/ KnowsModel(configs[provider], arguments.model)
    \/ AllowUnknown(arguments.strict, configs[provider])

\* _validate_constructor_model: known here, or nowhere and allowed.
ModelAccepted(configs, provider, arguments) ==
    \/ arguments.model = NoModel
    \/ KnowsModel(configs[provider], arguments.model)
    \/ /\ ProvidersFor(configs, arguments.model) = {}
       /\ AllowUnknown(arguments.strict, configs[provider])

\* UniversalAI(...): the file stays loaded even if a later check raises.
Construct(arguments) ==
    /\ request = NoRequest
    /\ CanLoad(arguments.config_path)
    /\ cache' = Loaded(arguments.config_path)
    /\ LET configs == AllConfigs(arguments.config_path)
       IN  \/ \E provider \in Selected(configs, arguments) :
                /\ provider \in DOMAIN configs
                /\ ModelAccepted(configs, provider, arguments)
                /\ client' = [built |-> TRUE, configs |-> configs, provider |-> provider,
                              default_models |-> IF arguments.model = NoModel THEN <<>>
                                                 ELSE [p \in {provider} |-> arguments.model],
                              arguments |-> arguments,
                              loaded |-> cache', registry |-> registry,
                              variables |-> variables]
           \/ /\ \A provider \in Selected(configs, arguments) \cap DOMAIN configs :
                   ~ModelAccepted(configs, provider, arguments)
              /\ UNCHANGED client
    /\ sent' = NoRequest
    /\ UNCHANGED <<registry, disk, config_path, variables, environmentKeys, request, changes>>

-----------------------------------------------------------------------------
(* A request.                                                              *)

\* (provider or default_provider).lower()
ProviderOf(provider) == Lower[IF provider = None THEN client.provider ELSE provider]

\* _config_for: the client's, or what the registry has by now.
ConfigFor(p) == IF p \in DOMAIN client.configs THEN client.configs[p] ELSE registry[p]

HasConfig(p) == p \in DOMAIN client.configs \/ p \in DOMAIN registry

ModelFor_AnyProvider(p, model, capability) ==
    IF model # NoModel THEN model
    ELSE IF capability = "chat" /\ client.default_models # <<>>
      THEN client.default_models[client.provider]
    ELSE DefaultModelFor(ConfigFor(p), capability)

\* _model_for: of the call, of the constructor for this provider, of the provider.
ModelFor(p, model, capability) ==
    IF model # NoModel THEN model
    ELSE IF capability = "chat" /\ p \in DOMAIN client.default_models
      THEN client.default_models[p]
    ELSE DefaultModelFor(ConfigFor(p), capability)

\* _resolve
ResolvedFor(p, model, capability) ==
    Resolve(ConfigFor(p), ModelFor(p, model, capability),
            AllowUnknown(client.arguments.strict, ConfigFor(p)))

\* CapabilityMatrixEnforcer.supports: the model and the adapter both have it.
Supports(p, info, feature) ==
    feature \in info.capabilities /\ feature \in AdapterMatrix[p]

Needed(r) == {r.op} \cup r.features

\* chat, embed, rerank up to the pipeline: what is refused here raises.
Begin(r) ==
    /\ Building
    /\ LET p == ProviderOf(r.provider)
       IN  /\ HasConfig(p) /\ p \in DOMAIN AdapterMatrix
           /\ ResolvedFor(p, r.model, r.op) # NotFound
           /\ \A f \in Needed(r) : Supports(p, ResolvedFor(p, r.model, r.op), f)
    /\ request' = [op |-> r.op, provider |-> r.provider, model |-> r.model,
                   features |-> r.features, swapped |-> FALSE]
    /\ sent' = NoRequest
    /\ UNCHANGED <<process, client, changes>>

\* A middleware's before_request puts another request in the place of a chat.
Swap(provider, model) ==
    /\ request.op = "chat" /\ ~request.swapped
    /\ request' = [request EXCEPT !.provider = provider, !.model = model, !.swapped = TRUE]
    /\ UNCHANGED <<process, client, sent, changes>>

RecheckedOf_Nothing(r) == {}

\* What is checked again at the provider's side of the pipeline.
RecheckedOf(r) == {IF "streaming" \in r.features THEN "streaming" ELSE r.op}

KeyFor_Fallback(config) ==
    IF client.arguments.key THEN "constructor"
    ELSE IF config.name \in environmentKeys THEN "environment" ELSE None

\* _get_api_key: the constructor's for its own provider, else the environment's.
KeyFor(config) ==
    IF client.arguments.key /\ config.name = client.provider THEN "constructor"
    ELSE IF config.name \in environmentKeys THEN "environment" ELSE None

\* _execute_chat, _execute_streaming_chat, _embed_request, _rerank_request.
Accepts(r, p) ==
    /\ HasConfig(p) /\ p \in DOMAIN AdapterMatrix
    /\ ResolvedFor(p, r.model, r.op) # NotFound
    /\ RecheckedOf(r) \subseteq ResolvedFor(p, r.model, r.op).capabilities
    /\ KeyFor(ConfigFor(p)) # None

Send ==
    /\ request # NoRequest
    /\ LET p == ProviderOf(request.provider)
       IN  /\ Accepts(request, p)
           /\ sent' = [op |-> request.op, provider |-> p, features |-> request.features,
                       asked |-> request.model, swapped |-> request.swapped,
                       to |-> ConfigFor(p), key |-> KeyFor(ConfigFor(p)),
                       model |-> ResolvedFor(p, request.model, request.op)]
    /\ request' = NoRequest
    /\ UNCHANGED <<process, client, changes>>

Raise ==
    /\ request # NoRequest
    /\ ~Accepts(request, ProviderOf(request.provider))
    /\ request' = NoRequest
    /\ UNCHANGED <<process, client, sent, changes>>

-----------------------------------------------------------------------------
(* The process and its surroundings.                                       *)

\* load_config() and apply_to_registry() called by the application.
LoadConfig(path) ==
    /\ ~cache.loaded /\ Readable(path)
    /\ cache' = Loaded(path)
    /\ sent' = NoRequest
    /\ UNCHANGED <<registry, disk, config_path, variables, environmentKeys, client, request, changes>>

ApplyToRegistry ==
    /\ cache.loaded
    /\ registry' = Registered(cache.configs)
    /\ sent' = NoRequest
    /\ UNCHANGED <<cache, disk, config_path, variables, environmentKeys, client, request, changes>>

ClearCache ==
    /\ cache' = NotLoaded
    /\ sent' = NoRequest
    /\ UNCHANGED <<registry, disk, config_path, variables, environmentKeys, client, request, changes>>

WriteFile(path, file) ==
    /\ disk' = [disk EXCEPT ![path] = file]
    /\ UNCHANGED <<config_path, variables, environmentKeys>>

SetConfigPath(path) ==
    /\ config_path' = path
    /\ UNCHANGED <<disk, variables, environmentKeys>>

SetVariables(p, v) ==
    /\ variables' = [variables EXCEPT ![p] = v]
    /\ UNCHANGED <<disk, config_path, environmentKeys>>

UnsetKey(p) ==
    /\ environmentKeys' = environmentKeys \ {p}
    /\ UNCHANGED <<disk, config_path, variables>>

Change ==
    /\ changes < MaxChanges
    /\ changes' = changes + 1
    /\ \/ \E edit \in Files : WriteFile(edit.path, edit.file)
       \/ \E path \in Paths : SetConfigPath(path)
       \/ \E v \in Variables : SetVariables(v.provider, v)
       \/ \E p \in environmentKeys : UnsetKey(p)
    /\ sent' = NoRequest
    /\ UNCHANGED <<registry, cache, client, request>>

NoVariables == [fields |-> <<>>, disabled |-> {}]

Init ==
    /\ registry = Builtin
    /\ cache = NotLoaded
    /\ disk = [path \in Paths |-> Missing]
    /\ config_path = None
    /\ variables = [p \in Providers |-> NoVariables]
    /\ environmentKeys = Providers
    /\ client = NoClient /\ request = NoRequest /\ sent = NoRequest
    /\ changes = 0

Next ==
    \/ \E arguments \in ConstructorArguments : Construct(arguments)
    \/ \E r \in RequestArguments : Begin(r) \/ Swap(r.provider, r.model)
    \/ Send \/ Raise
    \/ \E path \in Paths \cup {None} : LoadConfig(path)
    \/ ApplyToRegistry \/ ClearCache \/ Change

Spec == Init /\ [][Next]_vars

-----------------------------------------------------------------------------
(* Properties.                                                             *)

Configs(c) == {c[key] : key \in DOMAIN c}

(***************************************************************************)
(* Every configuration anybody holds has passed the schema: no layer, and  *)
(* no order of loading, clearing and registering, installs a default that  *)
(* cannot serve or a number out of range.                                  *)
(***************************************************************************)
SchemaHolds ==
    \A config \in Configs(registry) \cup Configs(cache.configs)
                  \cup (IF client.built THEN Configs(client.configs) ELSE {}) :
        /\ DOMAIN config = Fields
        /\ config.name \in Providers
        /\ Valid(config)

(***************************************************************************)
(* configuration.md:3: environment over file over registry, field by field,*)
(* where the file is the one that was loaded, and all or nothing for the   *)
(* environment; the models of a registered provider survive in any layer.  *)
(***************************************************************************)
Layers ==
    client.built =>
        \A key \in DOMAIN client.configs :
            LET config == client.configs[key]
                file == client.loaded.file.providers
                layer == IF key \in DOMAIN file THEN file[key] ELSE <<>>
                base == IF key \notin DOMAIN file THEN client.registry[key]
                        ELSE IF key \in DOMAIN client.loaded.base THEN client.loaded.base[key]
                        ELSE SchemaDefaults(key)
                below == Over(layer, base)
                above == Over(EnvOverrides(client.variables[config.name]), below)
            IN  /\ \/ \A f \in Scalars : config[f] = above[f]
                   \/ \A f \in Scalars : config[f] = below[f]
                /\ DOMAIN base.models \subseteq DOMAIN config.models

(***************************************************************************)
(* configuration.md, "Credential scoping" and "Choosing a model": what the *)
(* constructor was given serves the provider it was given with, whatever   *)
(* provider a call or a middleware asks for.  Its key goes to the client's *)
(* configuration of that provider; a call to any other that names no model *)
(* uses the default of that one.                                           *)
(***************************************************************************)
StaysHome ==
    sent # NoRequest =>
        /\ sent.key = "constructor" =>
             /\ sent.to = client.configs[client.provider]
             /\ client.arguments.provider # None => sent.to.name = Lower[client.arguments.provider]
        /\ sent.asked = NoModel /\ sent.provider # client.provider =>
             sent.model.id = Resolve(sent.to, DefaultModelFor(sent.to, sent.op), TRUE).id

(***************************************************************************)
(* Under strict_models no request leaves with an id its provider does not  *)
(* declare, wherever the id comes from, and never does an alias leave.     *)
(***************************************************************************)
DeclaredIds ==
    sent # NoRequest =>
        /\ sent.model.id \notin DOMAIN sent.to.aliases
        /\ client.arguments.strict = "yes" => sent.model.id \in DOMAIN sent.to.models

(***************************************************************************)
(* configuration.md:61: a client is not made for a model that only another *)
(* provider declares, and an inferred provider is the only one to declare  *)
(* it.                                                                     *)
(***************************************************************************)
ForeignModelRejected ==
    client.built /\ client.arguments.model # NoModel =>
        LET declaring == ProvidersFor(client.configs, client.arguments.model)
        IN  /\ declaring = {} \/ client.provider \in declaring
            /\ client.arguments.provider = None => declaring = {client.provider}

(***************************************************************************)
(* enforcer.py: what a request needs is supported by model and adapter when*)
(* it is sent, although configuration is resolved twice, before and after  *)
(* the middleware; of a request that a middleware put in its place only    *)
(* the operation itself is.                                                *)
(***************************************************************************)
ChecksSurvive ==
    sent # NoRequest =>
        IF sent.swapped
          THEN (IF "streaming" \in sent.features THEN "streaming" ELSE sent.op)
                 \in sent.model.capabilities
          ELSE {sent.op} \cup sent.features
                 \subseteq sent.model.capabilities \cap AdapterMatrix[sent.provider]
=============================================================================
