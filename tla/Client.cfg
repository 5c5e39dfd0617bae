SPECIFICATION Spec
CONSTANTS
    Models <- MCModels
    Capabilities <- MCCapabilities
    Providers <- MCProviders
    Keys <- MCKeys
    Lower <- MCLower
    Builtin <- MCBuiltin
    AdapterMatrix <- MCAdapterMatrix
    DefaultProvider = "deepseek"
    Paths <- MCPaths
    DefaultPaths <- MCDefaultPaths
    Files <- MCFiles
    Variables <- MCVariables
    ConstructorArguments <- MCConstructorArguments
    RequestArguments <- MCRequestArguments
    MaxChanges = 2
INVARIANT SchemaHolds
INVARIANT Layers
INVARIANT StaysHome
INVARIANT DeclaredIds
INVARIANT ForeignModelRejected
INVARIANT ChecksSurvive
