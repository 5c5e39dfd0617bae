--------------------------- MODULE ProviderConfigs ---------------------------
(***************************************************************************)
(* registry/schema.py and the pure part of loader.py and env.py: what a    *)
(* ProviderConfig is, when it is valid, how a layer overrides another and  *)
(* how a model id is resolved.                                             *)
(*                                                                         *)
(* A model is the set of capabilities it advertises.  Reranking is treated *)
(* like "embeddings" by the code, and audio, tools and so on like          *)
(* "vision"; these stand for both.  Of the scalar settings one of each     *)
(* kind is kept: a URL, a number, a flag and the defaults.                 *)
(***************************************************************************)
EXTENDS FiniteSets, Sequences, TLC

CONSTANTS
    Models,         \* ids and aliases of models
    Capabilities,   \* contains "chat", "streaming" and "embeddings"
    Providers       \* names of providers, in lower case

NoModel == "no model"

\* {**base, **layer}
Over(layer, base) ==
    [x \in DOMAIN layer \cup DOMAIN base |-> IF x \in DOMAIN layer THEN layer[x] ELSE base[x]]

\* A number outside of what the schema allows, and one that is none.
OutOfRange == "out of range"
Unreadable == "unreadable"

Fields == {"name", "base_url", "timeout", "allow_unknown_models", "default_model",
           "default_embedding_model", "models", "aliases"}

\* The values of the schema's defaults; name, base_url and default_model have none.
SchemaDefaults(name) ==
    [name |-> name, base_url |-> "none", timeout |-> "30", allow_unknown_models |-> "yes",
     default_model |-> NoModel, default_embedding_model |-> NoModel,
     models |-> <<>>, aliases |-> <<>>]

\* Aliases are listed with the model they stand for: in a configuration, and in
\* what a file gives of one.
Listed(layer) ==
    /\ "models" \in DOMAIN layer => DOMAIN layer.models \subseteq Models
    /\ "aliases" \in DOMAIN layer =>
         /\ "models" \in DOMAIN layer
         /\ \A a \in DOMAIN layer.aliases : layer.aliases[a] \in DOMAIN layer.models

RequiredFields == {"base_url", "default_model"}

-----------------------------------------------------------------------------
(* Model ids.                                                              *)

\* _lookup: the canonical id of an id or alias.
Lookup(config, id) ==
    IF id \in DOMAIN config.models THEN id
    ELSE IF id \in DOMAIN config.aliases THEN config.aliases[id]
    ELSE NoModel

KnowsModel(config, id) == Lookup(config, id) # NoModel

\* capabilities: what any of the provider's models advertises.
Aggregate(config) == UNION {config.models[m] : m \in DOMAIN config.models}

NotFound == [id |-> NoModel, capabilities |-> {}, registered |-> FALSE]

Resolve_IgnoresAllow(config, id, allow) ==
    IF KnowsModel(config, id)
      THEN LET m == Lookup(config, id)
           IN  [id |-> m, capabilities |-> config.models[m], registered |-> TRUE]
      ELSE [id |-> id, capabilities |-> Aggregate(config), registered |-> FALSE]

\* resolve_model: aliases become canonical ids; an unknown id passes, with the
\* capabilities of the provider, where that is allowed.
Resolve(config, id, allow) ==
    IF KnowsModel(config, id)
      THEN LET m == Lookup(config, id)
           IN  [id |-> m, capabilities |-> config.models[m], registered |-> TRUE]
      ELSE IF allow
             THEN [id |-> id, capabilities |-> Aggregate(config), registered |-> FALSE]
             ELSE NotFound

\* default_model_for: the configured default, else the first model that has the
\* capability, else the default of chats.
DefaultModelFor(config, capability) ==
    LET configured == IF capability = "chat" THEN config.default_model
                                             ELSE config.default_embedding_model
        able == {m \in DOMAIN config.models : capability \in config.models[m]}
    IN  IF configured # NoModel THEN configured
        ELSE IF able # {} THEN CHOOSE m \in able : TRUE
        ELSE config.default_model

-----------------------------------------------------------------------------
(* Validation.                                                             *)

\* A default must be a model that advertises the capability or nothing at all,
\* or unknown where unknown models are allowed.
DefaultOK(config, id, capability) ==
    \/ id = NoModel
    \/ ~KnowsModel(config, id) /\ config.allow_unknown_models = "yes"
    \/ /\ KnowsModel(config, id)
       /\ LET advertised == config.models[Lookup(config, id)]
          IN  advertised = {} \/ capability \in advertised

Valid(config) ==
    /\ config.timeout # OutOfRange
    /\ DefaultOK(config, config.default_model, "chat")
    /\ DefaultOK(config, config.default_embedding_model, "embeddings")
    /\ DOMAIN config.models \cap DOMAIN config.aliases = {}

-----------------------------------------------------------------------------
(* Layers.  A layer gives some fields; models and aliases merge.  A layer's*)
(* models are new ones: how it would rewrite a declared one is left out.   *)

DeepMerge_ReplacesModels(base, layer) ==
    [f \in Fields |-> IF f \in DOMAIN layer THEN layer[f] ELSE base[f]]

\* _deep_merge_dicts: nested dictionaries merge, everything else is replaced.
DeepMerge(base, layer) ==
    [f \in Fields |-> IF f \notin DOMAIN layer THEN base[f]
                      ELSE IF f \in {"models", "aliases"} THEN Over(layer[f], base[f])
                      ELSE layer[f]]

\* The fields a variable may set.
Scalars == Fields \ {"name", "models", "aliases"}

\* get_env_overrides: values that cannot be parsed are skipped one by one.
EnvOverrides(variables) ==
    [f \in {f \in DOMAIN variables.fields : variables.fields[f] # Unreadable} |->
       variables.fields[f]]

EnvMerge(config, variables) ==
    LET over == EnvOverrides(variables)
    IN  [f \in Fields |->
           IF f \in DOMAIN over THEN over[f]
           ELSE IF f = "models"
             THEN [m \in DOMAIN config.models |-> config.models[m] \ variables.disabled]
           ELSE config[f]]

ApplyEnv_Unvalidated(config, variables) == EnvMerge(config, variables)

\* apply_env_overrides_to_config: all of them if the result is valid, or none.
ApplyEnv(config, variables) ==
    IF Valid(EnvMerge(config, variables)) THEN EnvMerge(config, variables) ELSE config
=============================================================================
