SPECIFICATION Spec
CONSTANTS
    Slice = 2
    Logging = FALSE
    Cfgs <- MCCfgs
    DcsrWrites <- MCDcsrWrites
    Pendings <- MCPendings
    Writes = 3
    ResumesCritical = TRUE
INVARIANT DebugRunsRom
