\* Two harts that share one source.
CONSTANTS
    NumContexts = 2
    NumIds = 2
    MaxPrio = 1
    WordBits = 32
    SMode <- NoSMode
    HartOf <- HartPerContext
SPECIFICATION Spec
INVARIANT PendingFollowsWire
