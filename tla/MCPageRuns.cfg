\* One start, and the process ends between the two timers.
CONSTANTS
    MaxConns = 1
    MaxSpikes = 1
    MaxClicks = 1
SPECIFICATION Spec
INVARIANT PageRuns
