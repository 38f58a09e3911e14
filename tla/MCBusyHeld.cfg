\* A debugger that selects another hart while a command runs.
CONSTANTS
    NumHarts = 2
    hartids <- Plain
    Values <- Zero
    DmcontrolValues <- HaltResume
    MaskValues <- Nothing
    GroupValues <- Nothing
    CustomValues <- Nothing
    AutoValues <- Nothing
    Commands <- JustExec
    Programs <- Fine
    abstract_rti = 0
    support_hasel = FALSE
    support_haltgroups = FALSE
    require_authentication = FALSE
SPECIFICATION Spec
PROPERTIES
    BusyHeldUntilDone
