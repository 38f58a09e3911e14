\* One hart with an M-mode and an S-mode context, two sources in two words, three priorities.
CONSTANTS
    NumContexts = 2
    NumIds = 3
    MaxPrio = 2
    WordBits = 2
    SMode <- SecondIsSMode
    HartOf <- OneHart
SPECIFICATION Spec
INVARIANTS
    TypeOK
    MipCoherent
    NoSpuriousMeip
    ServiceNesting
    ScanAgrees
CONSTRAINT SmallSMode
