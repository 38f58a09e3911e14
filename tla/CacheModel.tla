------------------------------ MODULE CacheModel ------------------------------
(***************************************************************************)
(* One cache of the cache model (riscv/cache_model.cc) as operators on its *)
(* sets, so that the hierarchy can access a cache twice in one step.       *)
(*                                                                         *)
(* Addresses are line addresses (addr >> offset_bits).  No cache of the    *)
(* program uses random replacement, and data_addr is never read: both are  *)
(* left out.                                                               *)
(***************************************************************************)
EXTENDS Naturals

CONSTANTS
    lru_limit,   \* 1000000: next_lru above it makes update_lru rebase
    wrap         \* 2^32: the counters are uint32_t

ASSUME CounterAssumption == lru_limit \in Nat /\ wrap \in Nat \ {0}

\* A set: per way a tag, a state and an LRU counter, and the next counter value.
States == {"invalid", "valid", "dirty"}

EmptySet(Ways) ==
    [tag |-> [w \in Ways |-> 0], state |-> [w \in Ways |-> "invalid"],
     lru |-> [w \in Ways |-> 0], next |-> 0]

Valid(s) == {w \in DOMAIN s.state : s.state[w] # "invalid"}
Dirty(s) == {w \in DOMAIN s.state : s.state[w] = "dirty"}

\* The number a loop over ways or counters ends with.
Least(S) == CHOOSE m \in S : \A n \in S : m <= n

\* The first way with the smallest counter, of any line.
find_lru_way(s) ==
    Least({w \in DOMAIN s.lru : \A v \in DOMAIN s.lru : s.lru[w] <= s.lru[v]})

\* Mutant: above the limit all counters start again from zero.
update_lru_restarts(s, w) ==
    LET lru  == [s.lru EXCEPT ![w] = s.next]
        next == IF s.next + 1 = wrap THEN 0 ELSE s.next + 1
        full == next > lru_limit
    IN  [s EXCEPT !.lru = [v \in DOMAIN s.lru |-> IF full THEN 0 ELSE lru[v]],
                  !.next = IF full THEN 0 ELSE next]

\* Mutant: the counters are rebased by the accessed line's.
update_lru_underflows(s, w) ==
    LET lru  == [s.lru EXCEPT ![w] = s.next]
        next == IF s.next + 1 = wrap THEN 0 ELSE s.next + 1
        base == IF next > lru_limit THEN s.next ELSE 0
    IN  [s EXCEPT !.lru = [v \in DOMAIN s.lru |-> lru[v] - base], !.next = next - base]

\* The accessed line gets the next counter; above the limit all counters are
\* rebased by the smallest one.
update_lru(s, w) ==
    LET lru  == [s.lru EXCEPT ![w] = s.next]
        next == IF s.next + 1 = wrap THEN 0 ELSE s.next + 1
        base == IF next > lru_limit THEN Least({lru[v] : v \in DOMAIN lru}) ELSE 0
    IN  [s EXCEPT !.lru = [v \in DOMAIN s.lru |-> lru[v] - base], !.next = next - base]

\* What cache_access does to the set that address maps to: the way it uses, and
\* the set afterwards.  stays is the state that a line that is only read keeps.
HitWays(s, t) == {w \in Valid(s) : s.tag[w] = t}

WayFor(s, t) ==
    IF HitWays(s, t) # {} THEN Least(HitWays(s, t))
    ELSE IF Valid(s) # DOMAIN s.state THEN Least(DOMAIN s.state \ Valid(s))
    ELSE find_lru_way(s)

AccessSet(s, t, wr) ==
    LET w     == WayFor(s, t)
        stays == IF HitWays(s, t) # {} THEN s.state[w] ELSE "valid"
    IN  update_lru([s EXCEPT !.tag = [s.tag EXCEPT ![w] = t],
                             !.state = [s.state EXCEPT ![w] = IF wr THEN "dirty" ELSE stays]], w)

\* Mutant: clean lines are written back instead of dirty ones.
evicts_clean(s, t) == HitWays(s, t) = {} /\ s.state[WayFor(s, t)] = "valid"

\* The line that leaves the set has to be written back.
Evicts(s, t) == HitWays(s, t) = {} /\ s.state[WayFor(s, t)] = "dirty"
-----------------------------------------------------------------------------
(***************************************************************************)
(* A cache: slots is 1 << index_bits, the sets an address can map to, and  *)
(* c a function from 0 .. slots - 1 to sets.                               *)
(***************************************************************************)
Index(a, slots)   == a % slots
Tag(a, slots)     == a \div slots
Line(i, t, slots) == t * slots + i

cache_access(c, slots, a, wr) ==
    LET i == Index(a, slots)
    IN  [c EXCEPT ![i] = AccessSet(c[i], Tag(a, slots), wr)]

IsHit(c, slots, a) == HitWays(c[Index(a, slots)], Tag(a, slots)) # {}

NeedsWriteback(c, slots, a) == Evicts(c[Index(a, slots)], Tag(a, slots))

writeback_addr(c, slots, a) ==
    LET i == Index(a, slots)
        s == c[i]
    IN  Line(i, s.tag[WayFor(s, Tag(a, slots))], slots)

DirtyLines(c, slots) ==
    UNION {{Line(i, c[i].tag[w], slots) : w \in Dirty(c[i])} : i \in DOMAIN c}

\* The statistics of a cache after an access.
NoStats == [accesses |-> 0, hits |-> 0, misses |-> 0, writebacks |-> 0, reads |-> 0, writes |-> 0]

Bump(b) == IF b THEN 1 ELSE 0

Count(st, c, slots, a, wr) ==
    [accesses   |-> st.accesses + 1,
     hits       |-> st.hits + Bump(IsHit(c, slots, a)),
     misses     |-> st.misses + Bump(~IsHit(c, slots, a)),
     writebacks |-> st.writebacks + Bump(NeedsWriteback(c, slots, a)),
     reads      |-> st.reads + Bump(~wr),
     writes     |-> st.writes + Bump(wr)]
=============================================================================
