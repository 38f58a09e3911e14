\* Run control: halts, resumes, resets, hart arrays, halt groups, availability
\* and authentication; no commands.
CONSTANTS
    NumHarts = 2
    hartids <- Shifted
    Values <- Zero
    DmcontrolValues <- WithArray
    MaskValues <- BothMask
    GroupValues <- GroupOne
    CustomValues <- OneGone
    AutoValues <- Nothing
    Commands <- Nothing
    Programs <- Nothing
    abstract_rti = 0
    support_hasel = TRUE
    support_haltgroups = TRUE
    require_authentication = TRUE
SPECIFICATION Spec
INVARIANTS
    TypeOK
    HaltedIsTrue
    AckIsFresh
PROPERTIES
    UnavailableLeftAlone
