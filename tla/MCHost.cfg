\* Three commands, and room for two files beyond the standard three.
CONSTANTS
    Commands <- MCCommands
    Files <- MCFiles
    MaxCommands = 3
    MaxTyped = 1
    MaxHostFds = 8
SPECIFICATION Spec
INVARIANTS
    HostInv
    AnsweredOnceInOrder
PROPERTIES
    CallsReturn
