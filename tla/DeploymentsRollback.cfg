CONSTANTS
    None = None
    Deploys = {a}
    Undeploys = {}
    Scales = {}
    Rollouts = {}
    Networked = {a}
    External = {}
    MaxSlug = 1
    Serial = {}
    MayFail = {}
    MayCancel = {a}
SPECIFICATION Spec
INVARIANT NothingLeftBehind
