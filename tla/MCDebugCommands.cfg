\* Commands of every kind and autoexec on two harts, by a debugger that waits.
CONSTANTS
    NumHarts = 2
    hartids <- Plain
    Values <- Bits
    DmcontrolValues <- HaltBothResumeOne
    MaskValues <- Nothing
    GroupValues <- Nothing
    CustomValues <- Nothing
    AutoValues <- AllAuto
    Commands <- EveryKind
    Programs <- Nothing
    abstract_rti = 0
    support_hasel = FALSE
    support_haltgroups = FALSE
    require_authentication = FALSE
SPECIFICATION CarefulSpec
INVARIANTS
    BusyUntilDone
PROPERTIES
    CommandEffect
