SPECIFICATION Spec
CONSTANTS
    PageSectors = 2
    Pages = 3
    n_pmp = 2
    Triggers = 2
    TriggerVals <- MCTriggerVals
    Vpn = {0, 1}
    TLB_ENTRIES = 1
    ICACHE_ENTRIES = 1
    ADUE = TRUE
    Ptes <- MCPtes
    Boots <- MCBoots
    BootPt <- MCBootPt
    Vas = {1, 2}
    LrScAddrs = {2}
    PmpCfgs <- MCPmpCfgs
    PmpAddrs <- MCPmpAddrs
    MsecVals <- MCMsecVals
    StatusVals <- MCStatusVals
    Writes = 2
PROPERTIES
    DebugKeepsMode
