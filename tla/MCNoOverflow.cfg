\* One line of a set is used over and over; four-valued counters.
CONSTANTS
    lru_limit = 2
    wrap = 4
    l1_slots = 1
    l1_ways = 2
    l2_slots = 2
    l2_ways = 1
    l1_hit_latency = 1
    l2_hit_latency = 2
    memory_latency = 3
    Lines <- OneLine
    Pcs = {p1}
    MaxAccesses = 6
    MaxExecutions = 1
SPECIFICATION Spec
INVARIANT NoOverflow
CHECK_DEADLOCK FALSE
