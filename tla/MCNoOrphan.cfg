\* Two starts in a row and a disconnection.
CONSTANTS
    MaxConns = 1
    MaxSpikes = 2
    MaxClicks = 2
SPECIFICATION Spec
INVARIANT NoOrphan
