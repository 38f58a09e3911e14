\* Two connections, two processes, four clicks.
CONSTANTS
    MaxConns = 2
    MaxSpikes = 2
    MaxClicks = 4
SPECIFICATION Spec
INVARIANTS
    WebInv
PROPERTIES
    OnlyClicksAdd
    LetGo
