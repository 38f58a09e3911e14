\* Commands, with a program buffer that may fault, halts of the debugger and of a
\* group, and resumes come to an end.
CONSTANTS
    NumHarts = 2
    hartids <- Plain
    Values <- Zero
    DmcontrolValues <- HaltBothResumeOne
    MaskValues <- Nothing
    GroupValues <- GroupOne
    CustomValues <- Nothing
    AutoValues <- Nothing
    Commands <- ReadThenRun
    Programs <- JustFault
    abstract_rti = 1
    support_hasel = FALSE
    support_haltgroups = TRUE
    require_authentication = FALSE
SPECIFICATION FairSpec
PROPERTIES
    RequestsServed
