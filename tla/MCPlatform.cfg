\* Two harts, one UART whose queue holds one character, two typed.
CONSTANTS
    NumContexts = 2
    NumIds = 2
    MaxPrio = 1
    WordBits = 2
    SMode <- NoSMode
    HartOf <- OwnHart
    UartId = 1
    UART_QUEUE_SIZE = 1
    MAX_BACKOFF = 2
    Half = 2
    ClintHarts <- Harts
    INTERLEAVE = 2
    rtc_ticks = 1
    MaxTyped = 2
    MaxMoves = 1
    Boot <- SelfTestThenOn
    TimerHarts <- Second
    Deadlines <- Ends
SPECIFICATION PlatformSpec
INVARIANTS
    PlatformInv
    LevelTriggered
    OneServer
    InputIntact
PROPERTIES
    NeverEarly
    InputIsRead
    WakesUp
