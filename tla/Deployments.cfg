CONSTANTS
    None = None
    Deploys = {a, b}
    Undeploys = {u}
    Scales = {s}
    Rollouts = {r}
    Networked = {a, b}
    External = {b}
    MaxSlug = 1
    Serial = {{a, b, u, s, r}}
    MayFail = {"apply"}
    MayCancel = {b, u}
SPECIFICATION Spec
INVARIANTS
    AddressReaches
    RollbackRemovesAll
    RowMatchesCluster
PROPERTIES
    StoreOutlivesRow
