\* A descriptor duplicated by fcntl is a host descriptor, not one of the table.
CONSTANTS
    Commands <- DupCommands
    Files <- MCFiles
    MaxCommands = 3
    MaxTyped = 1
    MaxHostFds = 8
SPECIFICATION Spec
INVARIANTS
    HostInv
