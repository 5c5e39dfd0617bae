------------------------------ MODULE MCClient ------------------------------
(***************************************************************************)
(* Two built-in providers with an adapter and one that only a file defines,*)
(* under a name with a capital.  "chat" is an alias of "flash", "new" a    *)
(* model that only a file declares, "other" one that nobody does.          *)
(***************************************************************************)
EXTENDS Client

MCModels == {"flash", "chat", "plus", "embed", "new", "corp-1", "other"}
MCCapabilities == {"chat", "streaming", "vision", "embeddings"}
MCProviders == {"deepseek", "qwen", "corp"}
MCKeys == MCProviders \cup {"Corp"}
MCLower == [key \in MCKeys |-> IF key = "Corp" THEN "corp" ELSE key]

MCBuiltin ==
    [deepseek |-> [SchemaDefaults("deepseek") EXCEPT
                     !.base_url = "api.deepseek", !.default_model = "flash",
                     !.models = [flash |-> {"chat", "streaming"}],
                     !.aliases = [chat |-> "flash"]],
     qwen |-> [SchemaDefaults("qwen") EXCEPT
                 !.base_url = "api.qwen", !.default_model = "plus",
                 !.default_embedding_model = "embed",
                 !.models = [plus |-> {"chat", "streaming", "vision"},
                             embed |-> {"embeddings"}]]]

MCAdapterMatrix ==
    [deepseek |-> {"chat", "streaming", "embeddings"},
     qwen |-> {"chat", "streaming", "vision", "embeddings"}]

MCPaths == {"default.json", "explicit.json"}
MCDefaultPaths == <<"default.json">>

File(path, layers) ==
    [path |-> path, file |-> [kind |-> "providers", providers |-> layers]]

MCFiles ==
    {\* One that does not parse.
     [path |-> "default.json", file |-> [kind |-> "broken", providers |-> <<>>]],
     \* A model of its own and a default, for a built-in provider.
     File("explicit.json", [deepseek |-> [default_model |-> "new",
                                          models |-> [new |-> {"chat", "vision"}]]]),
     \* A gateway, and no unknown models.
     File("default.json", [qwen |-> [base_url |-> "gateway", allow_unknown_models |-> "no"]]),
     \* A provider of its own.
     File("default.json", [Corp |-> [base_url |-> "api.corp", default_model |-> "corp-1",
                                     models |-> ("corp-1" :> {"chat"})]])}

Set(p, fields) == [provider |-> p, fields |-> fields, disabled |-> {}]

MCVariables ==
    {Set("qwen", [base_url |-> "proxy", timeout |-> Unreadable]),
     Set("deepseek", [default_model |-> "other", timeout |-> OutOfRange]),
     Set("qwen", [allow_unknown_models |-> "no", default_model |-> "other"]),
     [provider |-> "qwen", fields |-> <<>>, disabled |-> {"chat"}],
     [provider |-> "qwen", fields |-> <<>>, disabled |-> {"vision"}]}

Arguments(provider, model, strict, key, path) ==
    [provider |-> provider, model |-> model, strict |-> strict, key |-> key,
     config_path |-> path]

MCConstructorArguments ==
    {Arguments(None, NoModel, "unset", TRUE, None),
     Arguments("deepseek", "new", "no", FALSE, "explicit.json"),
     Arguments("qwen", "chat", "unset", TRUE, None),
     Arguments("qwen", "plus", "yes", TRUE, "explicit.json"),
     Arguments("Corp", NoModel, "unset", TRUE, None),
     Arguments(None, "corp-1", "unset", TRUE, None)}

Call(op, provider, model, features) ==
    [op |-> op, provider |-> provider, model |-> model, features |-> features]

MCRequestArguments ==
    {Call("chat", None, NoModel, {}),
     Call("chat", "qwen", NoModel, {"vision"}),
     Call("chat", "deepseek", "chat", {"streaming"}),
     Call("chat", None, "other", {"vision"}),
     Call("embeddings", "qwen", NoModel, {}),
     Call("embeddings", None, NoModel, {})}
=============================================================================
