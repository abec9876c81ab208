SPECIFICATION Spec
CONSTANTS
    Hosts = {"standalone", "platform"}
    Names = {"b"}
    McpNames = {}
    Deployments = {"d1"}
    Waits = TRUE
    MaxClock = 4
    MaxFails = 1
    MaxOpens = 2
    MaxShips = 1

    
    
PROPERTIES
    KeptInStore
CHECK_DEADLOCK FALSE
