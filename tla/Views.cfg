CONSTANTS
    Deployments = {"d1"}
    Namespaces = {"user", "oauth_secrets"}
    SecretNamespaces = {"oauth_secrets"}
    Keys = {"k", "j"}
    Places <- MCPlaces
    Binary = {2}
    Waits = TRUE
    MaxWrites = 2
    Kinds = {"info", "error"}
    Filters = {{"info", "error"}, {"error"}}
    PageSize = 2
    TailSize = 2
    Allowed = {}
    MaxRows = 5
    MaxCalls = 2
    MaxFails = 1
    LogCalls = 2
    LogFails = 1
SPECIFICATION MCSpec
INVARIANTS
    
    OnlyMatchingRows
    
PROPERTIES
    ReplacesWhatWasShown
CHECK_DEADLOCK FALSE
