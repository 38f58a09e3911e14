---------------------------- MODULE CacheHierarchy ----------------------------
(***************************************************************************)
(* The cache hierarchy a hart's data accesses go through                   *)
(* (riscv/cache_hierarchy.cc), and how the processor charges the misses to *)
(* instructions (simulate_cache_access, update_dcache_stats).              *)
(*                                                                         *)
(* The two levels have lines of one size.  No caller asks for an           *)
(* instruction access, so the instruction cache stays empty and is left    *)
(* out, as are the resets of the statistics, which nothing calls, and      *)
(* extra_cycles, which only feeds mcycle.                                  *)
(***************************************************************************)
EXTENDS CacheModel, FiniteSets, FiniteSetsExt

CONSTANTS
    l1_slots, l1_ways, l2_slots, l2_ways,
    l1_hit_latency, l2_hit_latency, memory_latency,
    Lines,           \* the line addresses that programs access
    Pcs,             \* the instructions
    MaxAccesses,     \* bound on the memory accesses of a behaviour
    MaxExecutions    \* bound on how often an instruction is executed

ASSUME HierarchyAssumption ==
    /\ l1_slots \in Nat \ {0} /\ l1_ways \in Nat \ {0}
    /\ l2_slots \in Nat \ {0} /\ l2_ways \in Nat \ {0}
    /\ l1_hit_latency \in Nat /\ l2_hit_latency \in Nat /\ memory_latency \in Nat
    /\ Lines \subseteq Nat
    /\ IsFiniteSet(Pcs)
    /\ MaxAccesses \in Nat /\ MaxExecutions \in Nat

VARIABLES
    l1d, l2,                        \* the caches
    l1_stats, l2_stats,             \* their statistics
    memory_accesses, total_cycles,  \* of the hierarchy
    perf,                           \* perf_counters
    current,                        \* current_instruction_*
    inst_perf,                      \* per instruction
    insn,                           \* the instruction in execution, or "none"
    own,                            \* history: the L1 misses it has made
    stale                           \* history: lines of which memory has an old copy

cacheVars == <<l1d, l2, l1_stats, l2_stats, memory_accesses, total_cycles, stale>>
vars == <<cacheVars, perf, current, inst_perf, insn, own>>

L1Slots == 0 .. l1_slots - 1
L2Slots == 0 .. l2_slots - 1
L1Ways  == 0 .. l1_ways - 1
L2Ways  == 0 .. l2_ways - 1

SetType(Ways) ==
    [tag : [Ways -> Nat], state : [Ways -> States], lru : [Ways -> Nat], next : Nat]

\* The sets of both levels and the statistics keep their ranges: update_lru never underflows.
TypeOK ==
    /\ l1d \in [L1Slots -> SetType(L1Ways)]
    /\ l2 \in [L2Slots -> SetType(L2Ways)]
    /\ \A i \in L1Slots : l1d[i].next < wrap
    /\ \A i \in L2Slots : l2[i].next < wrap
    /\ memory_accesses \in Nat /\ own \in Nat
    /\ insn \in Pcs \cup {"none"}
    /\ stale \subseteq Lines

NoPerf == [dcache_accesses |-> 0, dcache_misses |-> 0, l2_accesses |-> 0, l2_misses |-> 0]
Nothing == [l1 |-> 0, l2 |-> 0, cycles |-> 0]

\* cache_hierarchy_create_from_config, and the processor's constructor.
Init ==
    /\ l1d = [i \in L1Slots |-> EmptySet(L1Ways)]
    /\ l2 = [i \in L2Slots |-> EmptySet(L2Ways)]
    /\ l1_stats = NoStats /\ l2_stats = NoStats
    /\ memory_accesses = 0 /\ total_cycles = 0
    /\ perf = NoPerf
    /\ current = Nothing
    /\ inst_perf = [p \in Pcs |-> [executions |-> 0, l1 |-> 0, l2 |-> 0, cycles |-> 0]]
    /\ insn = "none" /\ own = 0
    /\ stale = {}
-----------------------------------------------------------------------------
\* simulate_cache_access, of an access that took that many cycles.
Charge(latency, miss1, miss2) ==
    /\ current' = [l1 |-> current.l1 + Bump(miss1), l2 |-> current.l2 + Bump(miss2),
                   cycles |-> current.cycles + IF latency > 1 THEN latency - 1 ELSE 0]
    /\ perf' = [dcache_accesses |-> perf.dcache_accesses + 1,
                dcache_misses |-> perf.dcache_misses + Bump(miss1),
                l2_accesses |-> l2_stats'.accesses, l2_misses |-> l2_stats'.misses]
    /\ own' = own + Bump(miss1)
    /\ UNCHANGED <<inst_perf, insn>>

\* An access that hits in the first level.
access_hit(a, wr) ==
    /\ insn # "none"
    /\ memory_accesses < MaxAccesses
    /\ IsHit(l1d, l1_slots, a)
    /\ memory_accesses' = memory_accesses + 1
    /\ l1d' = cache_access(l1d, l1_slots, a, wr)
    /\ l1_stats' = Count(l1_stats, l1d, l1_slots, a, wr)
    /\ total_cycles' = total_cycles + l1_hit_latency
    /\ UNCHANGED <<l2, l2_stats>>
    /\ stale' = IF wr THEN stale \cup {a} ELSE stale
    /\ Charge(l1_hit_latency, FALSE, FALSE)

\* An access that misses: the second level is asked, and asked again to take
\* the line that the first level gives up.  Only the line that the first of the
\* two throws out costs time.
access_miss(a, wr) ==
    LET hit2   == IsHit(l2, l2_slots, a)
        out2   == NeedsWriteback(l2, l2_slots, a)
        mid    == cache_access(l2, l2_slots, a, wr)
        midst  == Count(l2_stats, l2, l2_slots, a, wr)
        out1   == NeedsWriteback(l1d, l1_slots, a)
        wba    == writeback_addr(l1d, l1_slots, a)
        delay  == l1_hit_latency + l2_hit_latency + IF hit2 THEN 0 ELSE memory_latency
        saved  == (IF out2 THEN {writeback_addr(l2, l2_slots, a)} \ (IF out1 THEN {wba} ELSE {})
                           ELSE {})
                  \cup (IF out1 /\ NeedsWriteback(mid, l2_slots, wba)
                        THEN {writeback_addr(mid, l2_slots, wba)} ELSE {})
    IN  /\ insn # "none"
        /\ memory_accesses < MaxAccesses
        /\ ~IsHit(l1d, l1_slots, a)
        /\ memory_accesses' = memory_accesses + 1
        /\ l1d' = cache_access(l1d, l1_slots, a, wr)
        /\ l1_stats' = Count(l1_stats, l1d, l1_slots, a, wr)
        /\ l2' = IF out1 THEN cache_access(mid, l2_slots, wba, TRUE) ELSE mid
        /\ l2_stats' = IF out1 THEN Count(midst, mid, l2_slots, wba, TRUE) ELSE midst
        /\ total_cycles' = total_cycles + delay + IF out2 THEN memory_latency ELSE 0
        /\ stale' = (IF wr THEN stale \cup {a} ELSE stale)
                        \ (saved \ DirtyLines(l1d', l1_slots))
        /\ Charge(delay, TRUE, ~hit2)
-----------------------------------------------------------------------------
\* An instruction starts.
begin(p) ==
    /\ insn = "none"
    /\ inst_perf[p].executions < MaxExecutions
    /\ insn' = p
    /\ own' = 0
    /\ UNCHANGED <<cacheVars, perf, current, inst_perf>>

\* Mutant: the counts of the instruction are not reset.
update_keeps_current ==
    /\ inst_perf' = [inst_perf EXCEPT ![insn] =
                        [executions |-> inst_perf[insn].executions + 1,
                         l1 |-> inst_perf[insn].l1 + current.l1,
                         l2 |-> inst_perf[insn].l2 + current.l2,
                         cycles |-> inst_perf[insn].cycles + 1 + current.cycles]]
    /\ UNCHANGED current

update_dcache_stats ==
    /\ inst_perf' = [inst_perf EXCEPT ![insn] =
                        [executions |-> inst_perf[insn].executions + 1,
                         l1 |-> inst_perf[insn].l1 + current.l1,
                         l2 |-> inst_perf[insn].l2 + current.l2,
                         cycles |-> inst_perf[insn].cycles + 1 + current.cycles]]
    /\ current' = Nothing

\* It ends, or in the slow path traps at a memory access or waits for an
\* interrupt: the handlers call update_dcache_stats before they throw again.
retire ==
    /\ insn # "none"
    /\ update_dcache_stats
    /\ insn' = "none"
    /\ UNCHANGED <<cacheVars, perf, own>>

\* It leaves without update_dcache_stats: through an exception in the fast path,
\* through one that is no memory trap in the slow path, or to be executed again
\* after the pipeline is serialized.
escape ==
    /\ insn # "none"
    /\ insn' = "none"
    /\ UNCHANGED <<cacheVars, perf, current, inst_perf, own>>

Next ==
    \/ \E p \in Pcs : begin(p)
    \/ \E a \in Lines, wr \in BOOLEAN : access_hit(a, wr)
    \/ \E a \in Lines, wr \in BOOLEAN : access_miss(a, wr)
    \/ retire
    \/ escape

Spec == Init /\ [][Next]_vars
-----------------------------------------------------------------------------
\* No write is lost between the levels: a line whose last write has not reached
\* memory is dirty in the first or the second level, whatever the two accesses
\* to the second level threw out.
NothingLost == stale \subseteq DirtyLines(l1d, l1_slots) \cup DirtyLines(l2, l2_slots)

Sum(f(_)) == MapThenSumSet(f, Pcs)

\* The counters of the levels, of the processor and of the instructions tell one
\* story: the second level is asked once for each miss of the first and once
\* for each line it gives up, and each miss is charged to one instruction.
CountersAgree ==
    /\ l1_stats.accesses = l1_stats.hits + l1_stats.misses
    /\ l2_stats.accesses = l1_stats.misses + l1_stats.writebacks
    /\ perf = [dcache_accesses |-> memory_accesses, dcache_misses |-> l1_stats.misses,
               l2_accesses |-> l2_stats.accesses, l2_misses |-> l2_stats.misses]
    /\ l1_stats.misses = current.l1 + Sum(LAMBDA p : inst_perf[p].l1)

\* The first level is an LRU cache: seen without ways and counters, every access
\* is a step of LruCache, also when update_lru rebases the counters.
Resident(s)  == {s.tag[w] : w \in Valid(s)}
DirtyTags(s) == {s.tag[w] : w \in Dirty(s)}
Older(s)     == {p \in Resident(s) \X Resident(s) :
                    \E v, w \in Valid(s) : p = <<s.tag[v], s.tag[w]>> /\ s.lru[v] < s.lru[w]}

L1Tags == {Tag(a, l1_slots) : a \in Lines}

L1 == INSTANCE LruCache WITH
        Slots <- L1Slots, ways <- l1_ways, Tags <- L1Tags,
        resident <- [i \in L1Slots |-> Resident(l1d[i])],
        dirty <- [i \in L1Slots |-> DirtyTags(l1d[i])],
        older <- [i \in L1Slots |-> Older(l1d[i])],
        free <- [i \in L1Slots |-> Cardinality(L1Ways \ Valid(l1d[i]))]

L1IsLru == L1!Spec

\* cache_model.cc:114: "Prevent overflow by resetting counters periodically".
\* The next counter is above the counters of all lines.
NoOverflow == \A i \in L1Slots : \A w \in Valid(l1d[i]) : l1d[i].lru[w] < l1d[i].next

\* execute.cc:215, in the slow path's handlers: update_dcache_stats is to be
\* called when an instruction ends in an exception too.  The misses about to be
\* charged to an instruction are its own.
OwnMissesOnly == insn # "none" => current.l1 = own
=============================================================================
