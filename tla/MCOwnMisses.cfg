\* Two executions of instructions that may end in an exception.
CONSTANTS
    lru_limit = 2
    wrap = 16
    l1_slots = 1
    l1_ways = 2
    l2_slots = 2
    l2_ways = 1
    l1_hit_latency = 1
    l2_hit_latency = 2
    memory_latency = 3
    Lines <- ThreeLines
    Pcs = {p1}
    MaxAccesses = 2
    MaxExecutions = 1
SPECIFICATION Spec
INVARIANT OwnMissesOnly
CHECK_DEADLOCK FALSE
