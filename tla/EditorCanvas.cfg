CONSTANTS
    BlockSpec <- MCBlockSpec
    SourceSpec <- MCSourceSpec
    Configs <- MCConfigs
    NoRef = "none"
    Slugs = {"", "cron"}
    Palette = {"ref", "agent"}
    MaxEdits = 3
SPECIFICATION Spec
INVARIANTS
    ReloadStable
    ValidReload

    
CHECK_DEADLOCK FALSE
