\* A debugger that halts and resumes.
CONSTANTS
    NumHarts = 2
    hartids <- Plain
    Values <- Zero
    DmcontrolValues <- HaltResume
    MaskValues <- Nothing
    GroupValues <- Nothing
    CustomValues <- Nothing
    AutoValues <- Nothing
    Commands <- Nothing
    Programs <- Nothing
    abstract_rti = 0
    support_hasel = FALSE
    support_haltgroups = FALSE
    require_authentication = FALSE
SPECIFICATION Spec
INVARIANTS
    NoLateResume
