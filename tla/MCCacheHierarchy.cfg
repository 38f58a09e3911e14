\* A first level of one set with two ways above a second level of two sets with
\* one way; three lines; counters are rebased once a set has seen two accesses.
\* Behaviours end at the bounds, as the simulated program does.
CONSTANTS
    lru_limit = 2
    wrap = 16
    l1_slots = 1
    l1_ways = 2
    l2_slots = 2
    l2_ways = 1
    l1_hit_latency = 1
    l2_hit_latency = 2
    memory_latency = 3
    Lines <- ThreeLines
    Pcs = {p1}
    MaxAccesses = 6
    MaxExecutions = 1
SPECIFICATION Spec
INVARIANTS
    TypeOK
    NothingLost
    CountersAgree
PROPERTY L1IsLru
CHECK_DEADLOCK FALSE
