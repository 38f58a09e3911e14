------------------------------ MODULE CacheProofs ------------------------------
(***************************************************************************)
(* Proofs about the cache hierarchy: types, the order of the LRU counters, *)
(* that the first level implements LruCache, that no write is lost between *)
(* the levels, and that the statistics agree.                              *)
(***************************************************************************)
EXTENDS CacheHierarchy, TLAPS, FiniteSetTheorems, WellFoundedInduction

\* A nonempty set of numbers has a least element, and Least finds it.
LEMMA LeastExists ==
    ASSUME NEW S, S \subseteq Nat, S # {}
    PROVE  Least(S) \in S /\ \A n \in S : Least(S) <= n
<1> DEFINE R == OpToRel(<, Nat)
<1>1. \A x, y \in Nat : y < x => <<y, x>> \in R
  BY Zenon DEF OpToRel
<1>2. IsWellFoundedOn(R, Nat)
  BY NatLessThanWellFounded
<1> HIDE DEF R
<1>3. PICK x \in S : \A y \in S : ~ (<<y, x>> \in R)
  BY <1>2, WFMin
<1>4. ASSUME NEW y \in S PROVE x <= y
  <2>1. x \in Nat /\ y \in Nat
    OBVIOUS
  <2>2. ~(y < x)
    BY <1>1, <1>3, <2>1, Zenon
  <2> QED BY <2>1, <2>2
<1> QED BY <1>4 DEF Least

\* The counters of u are those of s with way w as the newest, all less one base.
Renewed(Ways, s, w, u) ==
    \E base \in Nat :
        /\ u.next = s.next + 1 - base
        /\ u.lru[w] = s.next - base
        /\ \A v \in Ways \ {w} : u.lru[v] = s.lru[v] - base

\* What the set is after update_lru: the counters are those of before, the
\* accessed way's set to next_lru, all less one base; only the wrap breaks it.
LEMMA UpdateLru ==
    ASSUME NEW Ways, NEW s \in SetType(Ways), NEW w \in Ways, s.next < wrap
    PROVE  /\ update_lru(s, w) \in SetType(Ways)
           /\ update_lru(s, w).next < wrap
           /\ update_lru(s, w).tag = s.tag
           /\ update_lru(s, w).state = s.state
           /\ s.next + 1 < wrap => Renewed(Ways, s, w, update_lru(s, w))
<1> DEFINE lru  == [s.lru EXCEPT ![w] = s.next]
           next == IF s.next + 1 = wrap THEN 0 ELSE s.next + 1
           C    == {lru[v] : v \in DOMAIN lru}
           base == IF next > lru_limit THEN Least(C) ELSE 0
<1>1. /\ s.next \in Nat /\ s.lru \in [Ways -> Nat]
      /\ lru \in [Ways -> Nat] /\ lru[w] = s.next /\ next \in Nat /\ next < wrap
      /\ \A v \in Ways \ {w} : lru[v] = s.lru[v]
  BY CounterAssumption DEF SetType
<1>2. update_lru(s, w) = [s EXCEPT !.lru = [v \in Ways |-> lru[v] - base], !.next = next - base]
  BY <1>1 DEF update_lru
<1>3. next > 0 => next = s.next + 1
  BY <1>1
<1>4. s.next + 1 < wrap => next = s.next + 1
  BY <1>1, CounterAssumption
<1>5. C \subseteq Nat /\ C # {} /\ \A v \in Ways : lru[v] \in C
  BY <1>1
<1> HIDE DEF lru, next, C
<1>6. base \in Nat /\ base <= next /\ \A v \in Ways : base <= lru[v]
  <2>1. CASE next > lru_limit
    <3>1. Least(C) \in C /\ \A n \in C : Least(C) <= n
      BY <1>5, LeastExists
    <3>2. Least(C) \in Nat /\ Least(C) <= s.next /\ \A v \in Ways : Least(C) <= lru[v]
      BY <1>1, <1>5, <3>1
    <3>3. next = s.next + 1
      BY <1>1, <1>3, <2>1, CounterAssumption
    <3> QED BY <1>1, <2>1, <3>2, <3>3
  <2>2. CASE ~(next > lru_limit)
    BY <1>1, <2>2
  <2> QED BY <2>1, <2>2
<1> HIDE DEF base
<1>7. /\ [v \in Ways |-> lru[v] - base] \in [Ways -> Nat]
      /\ next - base \in Nat /\ next - base < wrap
  BY <1>1, <1>6, CounterAssumption
<1>8. /\ update_lru(s, w) \in SetType(Ways)
      /\ update_lru(s, w).next = next - base
      /\ update_lru(s, w).lru = [v \in Ways |-> lru[v] - base]
      /\ update_lru(s, w).tag = s.tag
      /\ update_lru(s, w).state = s.state
  BY <1>2, <1>7 DEF SetType
<1>9. ASSUME s.next + 1 < wrap
      PROVE  /\ update_lru(s, w).next = s.next + 1 - base
             /\ update_lru(s, w).lru[w] = s.next - base
             /\ \A v \in Ways \ {w} : update_lru(s, w).lru[v] = s.lru[v] - base
  BY <1>1, <1>4, <1>6, <1>8, <1>9
<1> QED BY <1>6, <1>7, <1>8, <1>9 DEF Renewed

\* The way an access uses exists: the line's own, an unfilled one, or the least
\* recently used.
LEMMA WayExists ==
    ASSUME NEW Ways, Ways \subseteq Nat, Ways # {}, NEW s \in SetType(Ways), NEW t
    PROVE  /\ WayFor(s, t) \in Ways
           /\ HitWays(s, t) # {} => WayFor(s, t) \in HitWays(s, t)
           /\ HitWays(s, t) = {} /\ Valid(s) # Ways => WayFor(s, t) \notin Valid(s)
           /\ HitWays(s, t) = {} /\ Valid(s) = Ways =>
                \A v \in Ways : s.lru[WayFor(s, t)] <= s.lru[v]
<1>1. DOMAIN s.state = Ways /\ DOMAIN s.lru = Ways /\ s.lru \in [Ways -> Nat]
  BY DEF SetType
<1>2. Valid(s) \subseteq Ways /\ HitWays(s, t) \subseteq Valid(s)
  BY <1>1 DEF Valid, HitWays
<1>3. CASE HitWays(s, t) # {}
  <2>1. Least(HitWays(s, t)) \in HitWays(s, t)
    BY <1>2, <1>3, LeastExists
  <2> QED BY <1>2, <1>3, <2>1 DEF WayFor
<1>4. CASE HitWays(s, t) = {} /\ Valid(s) # Ways
  <2>1. Ways \ Valid(s) # {} /\ Ways \ Valid(s) \subseteq Nat
    BY <1>2, <1>4
  <2>2. Least(Ways \ Valid(s)) \in Ways \ Valid(s)
    BY <2>1, LeastExists
  <2> QED BY <1>1, <1>4, <2>2 DEF WayFor
<1>5. CASE HitWays(s, t) = {} /\ Valid(s) = Ways
  <2> DEFINE C == {s.lru[v] : v \in Ways}
             W == {w \in Ways : \A v \in Ways : s.lru[w] <= s.lru[v]}
  <2>1. C \subseteq Nat /\ C # {} /\ \A v \in Ways : s.lru[v] \in C
    BY <1>1
  <2>2. Least(C) \in C /\ \A n \in C : Least(C) <= n
    <3> HIDE DEF C
    <3> QED BY <2>1, LeastExists
  <2>3. PICK w \in Ways : s.lru[w] = Least(C)
    BY <2>2
  <2>4. w \in W
    BY <2>1, <2>2, <2>3
  <2>5. W \subseteq Nat /\ W # {}
    BY <2>4
  <2>6. Least(W) \in W
    <3> HIDE DEF W
    <3> QED BY <2>5, LeastExists
  <2>7. WayFor(s, t) = Least(W)
    BY <1>1, <1>5 DEF WayFor, find_lru_way
  <2> QED BY <1>5, <2>6, <2>7
<1> QED BY <1>3, <1>4, <1>5

\* The set u is s after an access, field by field.
Accessed(Ways, s, t, wr, u) ==
    LET w == WayFor(s, t)
    IN  /\ u \in SetType(Ways)
        /\ u.next < wrap
        /\ u.tag = [s.tag EXCEPT ![w] = t]
        /\ u.state = [s.state EXCEPT ![w] =
                        IF wr THEN "dirty"
                        ELSE IF HitWays(s, t) # {} THEN s.state[w] ELSE "valid"]
        /\ s.next + 1 < wrap => Renewed(Ways, s, w, u)

LEMMA AccessSetIs ==
    ASSUME NEW Ways, Ways \subseteq Nat, Ways # {}, NEW s \in SetType(Ways), s.next < wrap,
           NEW t \in Nat, NEW wr \in BOOLEAN
    PROVE  Accessed(Ways, s, t, wr, AccessSet(s, t, wr))
<1> DEFINE w == WayFor(s, t)
           stays == IF HitWays(s, t) # {} THEN s.state[w] ELSE "valid"
           st == [s.state EXCEPT ![w] = IF wr THEN "dirty" ELSE stays]
           m == [s EXCEPT !.tag = [s.tag EXCEPT ![w] = t], !.state = st]
<1>1. w \in Ways
  BY WayExists
<1> HIDE DEF w
<1>2. stays \in States
  BY <1>1 DEF SetType, States
<1>3. st \in [Ways -> States]
  BY <1>1, <1>2 DEF SetType, States
<1> HIDE DEF st
<1>4. /\ m \in SetType(Ways) /\ m.next = s.next /\ m.lru = s.lru
      /\ m.tag = [s.tag EXCEPT ![w] = t] /\ m.state = st
  BY <1>1, <1>3 DEF SetType
<1>5. AccessSet(s, t, wr) = update_lru(m, w)
  BY DEF AccessSet, w, st
<1> HIDE DEF m
<1>6. /\ update_lru(m, w) \in SetType(Ways)
      /\ update_lru(m, w).next < wrap
      /\ update_lru(m, w).tag = m.tag
      /\ update_lru(m, w).state = m.state
      /\ m.next + 1 < wrap => Renewed(Ways, m, w, update_lru(m, w))
  <2>1. m.next < wrap
    BY <1>4
  <2> QED BY <1>1, <1>4, <2>1, UpdateLru, Zenon
<1>7. m.state = [s.state EXCEPT ![w] =
                   IF wr THEN "dirty" ELSE IF HitWays(s, t) # {} THEN s.state[w] ELSE "valid"]
  BY <1>4 DEF st
<1>8. s.next + 1 < wrap => Renewed(Ways, s, w, update_lru(m, w))
  BY <1>4, <1>6 DEF Renewed
<1> QED BY <1>4, <1>5, <1>6, <1>7, <1>8, Zenon DEF w, Accessed
-----------------------------------------------------------------------------
(***************************************************************************)
(* Types.                                                                  *)
(***************************************************************************)

\* Division by the number of sets gives a set and a tag.
LEMMA IndexTag ==
    ASSUME NEW a \in Nat, NEW slots \in Nat \ {0}
    PROVE  Index(a, slots) \in 0 .. slots - 1 /\ Tag(a, slots) \in Nat
BY DEF Index, Tag

\* A set has ways.
LEMMA WaysExist ==
    ASSUME NEW ways \in Nat \ {0}
    PROVE  0 .. ways - 1 \subseteq Nat /\ 0 .. ways - 1 # {}
<1>1. 0 \in 0 .. ways - 1
  OBVIOUS
<1> QED BY <1>1

\* The caches, with their counters within the width of a uint32_t.
CacheType(c, slots, ways) ==
    /\ c \in [0 .. slots - 1 -> SetType(0 .. ways - 1)]
    /\ \A i \in 0 .. slots - 1 : c[i].next < wrap

\* cache_access keeps the type of the cache.
LEMMA CacheAccessType ==
    ASSUME NEW c, NEW slots \in Nat \ {0}, NEW ways \in Nat \ {0}, CacheType(c, slots, ways),
           NEW a \in Nat, NEW wr \in BOOLEAN
    PROVE  CacheType(cache_access(c, slots, a, wr), slots, ways)
<1> DEFINE i == Index(a, slots)
           t == Tag(a, slots)
           Ways == 0 .. ways - 1
<1>1. i \in 0 .. slots - 1 /\ t \in Nat
  BY IndexTag
<1>2. Ways \subseteq Nat /\ Ways # {}
  BY WaysExist
<1> HIDE DEF i, t
<1>5. c[i] \in SetType(Ways) /\ c[i].next < wrap
  BY <1>1 DEF CacheType
<1> HIDE DEF Ways
<1>3. AccessSet(c[i], t, wr) \in SetType(Ways) /\ AccessSet(c[i], t, wr).next < wrap
  BY <1>1, <1>2, <1>5, AccessSetIs DEF Accessed
<1>4. cache_access(c, slots, a, wr) = [c EXCEPT ![i] = AccessSet(c[i], t, wr)]
  BY DEF cache_access, i, t
<1> QED BY <1>1, <1>3, <1>4 DEF CacheType, Ways

\* The address of the line to write back is a line address.
LEMMA WritebackAddrType ==
    ASSUME NEW c, NEW slots \in Nat \ {0}, NEW ways \in Nat \ {0}, CacheType(c, slots, ways),
           NEW a \in Nat
    PROVE  writeback_addr(c, slots, a) \in Nat
<1> DEFINE i == Index(a, slots)
           t == Tag(a, slots)
           Ways == 0 .. ways - 1
           w == WayFor(c[i], t)
<1>1. i \in 0 .. slots - 1 /\ t \in Nat
  BY IndexTag
<1>2. Ways \subseteq Nat /\ Ways # {}
  BY WaysExist
<1> HIDE DEF i, t
<1>7. c[i] \in SetType(Ways)
  BY <1>1 DEF CacheType
<1> HIDE DEF Ways
<1>3. w \in Ways
  BY <1>2, <1>7, WayExists
<1> HIDE DEF w
<1>4. c[i].tag[w] \in Nat
  BY <1>7, <1>3 DEF SetType
<1>5. c[i].tag[w] * slots + i \in Nat
  BY <1>1, <1>4
<1>6. writeback_addr(c, slots, a) = c[i].tag[w] * slots + i
  BY DEF writeback_addr, Line, i, t, w
<1> QED BY <1>5, <1>6

\* What an access may do to the state TypeOK speaks of.
AccessType ==
    /\ CacheType(l1d', l1_slots, l1_ways) /\ CacheType(l2', l2_slots, l2_ways)
    /\ memory_accesses' \in Nat /\ own' \in Nat
    /\ insn' = insn /\ stale' \subseteq Lines

LEMMA AccessKeepsTypes ==
    ASSUME TypeOK, NEW a \in Lines, NEW wr \in BOOLEAN,
           access_hit(a, wr) \/ access_miss(a, wr)
    PROVE  AccessType
<1> USE HierarchyAssumption
<1>1. /\ CacheType(l1d, l1_slots, l1_ways) /\ CacheType(l2, l2_slots, l2_ways)
      /\ memory_accesses \in Nat /\ own \in Nat /\ stale \subseteq Lines /\ a \in Nat
  BY DEF TypeOK, CacheType, L1Slots, L2Slots, L1Ways, L2Ways
<1>3. CacheType(cache_access(l1d, l1_slots, a, wr), l1_slots, l1_ways)
  BY <1>1, CacheAccessType
<1>4. CASE access_hit(a, wr)
  <2>1. /\ l1d' = cache_access(l1d, l1_slots, a, wr) /\ l2' = l2 /\ insn' = insn
        /\ memory_accesses' = memory_accesses + 1
        /\ stale' = IF wr THEN stale \cup {a} ELSE stale
        /\ own' = own + Bump(FALSE)
    BY <1>4 DEF access_hit, Charge
  <2>2. stale' \subseteq Lines
    BY <1>1, <2>1
  <2>3. own' \in Nat /\ memory_accesses' \in Nat
    BY <1>1, <2>1 DEF Bump
  <2> QED BY <1>1, <1>3, <2>1, <2>2, <2>3 DEF AccessType
<1>5. CASE access_miss(a, wr)
  <2> DEFINE mid == cache_access(l2, l2_slots, a, wr)
             wba == writeback_addr(l1d, l1_slots, a)
             out == NeedsWriteback(l1d, l1_slots, a)
  <2>1. /\ l1d' = cache_access(l1d, l1_slots, a, wr)
        /\ l2' = IF out THEN cache_access(mid, l2_slots, wba, TRUE) ELSE mid
        /\ memory_accesses' = memory_accesses + 1
        /\ own' = own + Bump(TRUE) /\ insn' = insn
    BY <1>5 DEF access_miss, Charge
  <2>2. stale' \subseteq stale \cup {a}
    BY <1>5 DEF access_miss
  <2>3. CacheType(mid, l2_slots, l2_ways)
    BY <1>1, CacheAccessType
  <2>4. wba \in Nat
    BY <1>1, WritebackAddrType
  <2> HIDE DEF mid, wba, out
  <2>5. CacheType(cache_access(mid, l2_slots, wba, TRUE), l2_slots, l2_ways)
    BY <2>3, <2>4, CacheAccessType
  <2>6. CacheType(l2', l2_slots, l2_ways)
    BY <2>1, <2>3, <2>5
  <2>7. own' \in Nat /\ memory_accesses' \in Nat
    BY <1>1, <2>1 DEF Bump
  <2> QED BY <1>1, <1>3, <2>1, <2>2, <2>6, <2>7 DEF AccessType
<1> QED BY <1>4, <1>5

LEMMA EmptySetType ==
    ASSUME NEW Ways
    PROVE  EmptySet(Ways) \in SetType(Ways) /\ EmptySet(Ways).next = 0
BY DEF EmptySet, SetType, States

LEMMA TypeInit == Init => TypeOK
<1> SUFFICES ASSUME Init PROVE TypeOK
  OBVIOUS
<1>1. /\ EmptySet(L1Ways) \in SetType(L1Ways) /\ EmptySet(L1Ways).next = 0
      /\ EmptySet(L2Ways) \in SetType(L2Ways) /\ EmptySet(L2Ways).next = 0
  BY EmptySetType
<1>2. l1d \in [L1Slots -> SetType(L1Ways)] /\ \A i \in L1Slots : l1d[i].next < wrap
  BY <1>1, CounterAssumption DEF Init
<1>3. l2 \in [L2Slots -> SetType(L2Ways)] /\ \A i \in L2Slots : l2[i].next < wrap
  BY <1>1, CounterAssumption DEF Init
<1> QED BY <1>2, <1>3 DEF Init, TypeOK

LEMMA TypeStep == TypeOK /\ [Next]_vars => TypeOK'
<1> SUFFICES ASSUME TypeOK, [Next]_vars PROVE TypeOK'
  OBVIOUS
<1>1. ASSUME NEW p \in Pcs, begin(p) PROVE TypeOK'
  BY <1>1 DEF begin, TypeOK, cacheVars
<1>2. ASSUME NEW a \in Lines, NEW wr \in BOOLEAN, access_hit(a, wr) \/ access_miss(a, wr)
      PROVE  TypeOK'
  <2>1. AccessType
    BY <1>2, AccessKeepsTypes
  <2> QED BY <2>1 DEF AccessType, CacheType, TypeOK, L1Slots, L2Slots, L1Ways, L2Ways
<1>3. CASE retire
  BY <1>3 DEF retire, TypeOK, cacheVars
<1>4. CASE escape
  BY <1>4 DEF escape, TypeOK, cacheVars
<1>5. CASE UNCHANGED vars
  BY <1>5 DEF vars, cacheVars, TypeOK
<1> QED BY <1>1, <1>2, <1>3, <1>4, <1>5 DEF Next

\* Tags, states and counters keep their ranges, the counters those of a
\* uint32_t: rebasing never underflows.
THEOREM CacheTypeCorrect == Spec => []TypeOK
<1> QED BY TypeInit, TypeStep, PTL DEF Spec
-----------------------------------------------------------------------------
(***************************************************************************)
(* The order of the counters.                                              *)
(***************************************************************************)

\* No tag is in a set twice, and the counters of valid lines are below next_lru
\* and differ.
Good(s) ==
    /\ \A v, w \in Valid(s) : v # w => s.tag[v] # s.tag[w] /\ s.lru[v] # s.lru[w]
    /\ \A w \in Valid(s) : s.lru[w] < s.next

\* The valid and the dirty ways of a set after an access.
LEMMA AccessWays ==
    ASSUME NEW Ways, Ways \subseteq Nat, Ways # {}, NEW s \in SetType(Ways), s.next < wrap,
           NEW t \in Nat, NEW wr \in BOOLEAN
    PROVE  LET w == WayFor(s, t)
               u == AccessSet(s, t, wr)
           IN  /\ Valid(u) = Valid(s) \cup {w}
               /\ Dirty(u) = (Dirty(s) \ {w})
                    \cup (IF wr \/ (HitWays(s, t) # {} /\ w \in Dirty(s)) THEN {w} ELSE {})
<1> DEFINE w == WayFor(s, t)
           u == AccessSet(s, t, wr)
           hit == HitWays(s, t) # {}
<1>1. w \in Ways /\ (hit => w \in HitWays(s, t))
  BY WayExists
<1>2. u.state = [s.state EXCEPT ![w] = IF wr THEN "dirty" ELSE IF hit THEN s.state[w] ELSE "valid"]
  <2>1. Accessed(Ways, s, t, wr, u)
    BY AccessSetIs
  <2> QED BY <2>1 DEF Accessed
<1>3. s.state \in [Ways -> States]
  BY DEF SetType
<1>4. hit => s.state[w] # "invalid"
  BY <1>1 DEF HitWays, Valid
<1> HIDE DEF w, u, hit
<1>5. DOMAIN u.state = Ways /\ DOMAIN s.state = Ways
  BY <1>2, <1>3
<1>6. Valid(u) = Valid(s) \cup {w}
  BY <1>1, <1>2, <1>3, <1>4, <1>5 DEF Valid
<1>7. Dirty(u) = (Dirty(s) \ {w}) \cup (IF wr \/ (hit /\ w \in Dirty(s)) THEN {w} ELSE {})
  BY <1>1, <1>2, <1>3, <1>4, <1>5 DEF Dirty
<1> QED BY <1>6, <1>7 DEF w, u, hit

\* An access keeps the order of the counters as long as next_lru does not wrap.
LEMMA AccessGood ==
    ASSUME NEW Ways, Ways \subseteq Nat, Ways # {}, NEW s \in SetType(Ways), s.next + 1 < wrap,
           NEW t \in Nat, NEW wr \in BOOLEAN, Good(s)
    PROVE  Good(AccessSet(s, t, wr)) /\ AccessSet(s, t, wr).next <= s.next + 1
<1> DEFINE w == WayFor(s, t)
           u == AccessSet(s, t, wr)
<1>1. s.next \in Nat /\ s.next < wrap /\ s.lru \in [Ways -> Nat] /\ s.tag \in [Ways -> Nat]
  BY CounterAssumption DEF SetType
<1>2. w \in Ways /\ (HitWays(s, t) # {} => w \in HitWays(s, t)) /\ Valid(s) \subseteq Ways
  BY WayExists DEF Valid, SetType
<1>3. u \in SetType(Ways) /\ u.tag = [s.tag EXCEPT ![w] = t] /\ Renewed(Ways, s, w, u)
  <2>1. Accessed(Ways, s, t, wr, u)
    BY <1>1, AccessSetIs
  <2> QED BY <2>1 DEF Accessed
<1>4. Valid(u) = Valid(s) \cup {w}
  BY <1>1, AccessWays
<1>5. \A v \in Valid(s) \ {w} : s.tag[v] # t
  BY <1>2 DEF HitWays, Good
<1> HIDE DEF w, u
<1>6. PICK base \in Nat : /\ u.next = s.next + 1 - base
                          /\ u.lru[w] = s.next - base
                          /\ \A v \in Ways \ {w} : u.lru[v] = s.lru[v] - base
  BY <1>3 DEF Renewed
<1>7. \A v \in Valid(s) \ {w} :
         u.lru[v] = s.lru[v] - base /\ s.lru[v] < s.next /\ s.lru[v] \in Nat /\ u.tag[v] = s.tag[v]
  BY <1>1, <1>2, <1>3, <1>6 DEF Good
<1>8. \A v \in Valid(u) : u.lru[v] < u.next
  BY <1>1, <1>4, <1>6, <1>7
<1>9. u.tag[w] = t
  BY <1>1, <1>2, <1>3
<1>10. ASSUME NEW v \in Valid(u), NEW x \in Valid(u), v # x
       PROVE  u.tag[v] # u.tag[x] /\ u.lru[v] # u.lru[x]
  <2>1. CASE v = w
    BY <1>1, <1>4, <1>5, <1>6, <1>7, <1>9, <1>10, <2>1
  <2>2. CASE x = w
    BY <1>1, <1>4, <1>5, <1>6, <1>7, <1>9, <1>10, <2>2
  <2>3. CASE v # w /\ x # w
    <3>1. v \in Valid(s) \ {w} /\ x \in Valid(s) \ {w}
      BY <1>4, <2>3
    <3>2. s.tag[v] # s.tag[x] /\ s.lru[v] # s.lru[x]
      BY <1>10, <3>1 DEF Good
    <3> QED BY <1>7, <3>1, <3>2
  <2> QED BY <2>1, <2>2, <2>3
<1>11. u.next <= s.next + 1
  BY <1>1, <1>6
<1> QED BY <1>8, <1>10, <1>11 DEF Good, u

\* The inductive invariant: with fewer than wrap accesses next_lru never wraps.
OrderInv ==
    \A i \in L1Slots : Good(l1d[i]) /\ l1d[i].next <= memory_accesses

\* An access changes the set that the address maps to, and no other.
L1Access(a, wr) ==
    LET j == Index(a, l1_slots)
    IN  /\ j \in L1Slots
        /\ l1d' = [l1d EXCEPT ![j] = AccessSet(l1d[j], Tag(a, l1_slots), wr)]
        /\ memory_accesses < MaxAccesses
        /\ memory_accesses' = memory_accesses + 1

LEMMA AccessIsL1Access ==
    ASSUME NEW a \in Lines, NEW wr \in BOOLEAN, access_hit(a, wr) \/ access_miss(a, wr)
    PROVE  L1Access(a, wr)
<1>1. Index(a, l1_slots) \in L1Slots
  BY HierarchyAssumption, IndexTag DEF L1Slots
<1> QED BY <1>1 DEF access_hit, access_miss, L1Access, cache_access

LEMMA OrderStep ==
    ASSUME MaxAccesses < wrap, TypeOK, OrderInv, [Next]_vars
    PROVE  OrderInv'
<1>1. ASSUME NEW a \in Lines, NEW wr \in BOOLEAN, L1Access(a, wr) PROVE OrderInv'
  <2> DEFINE j == Index(a, l1_slots)
             t == Tag(a, l1_slots)
             u == AccessSet(l1d[j], t, wr)
  <2>1. t \in Nat /\ j \in L1Slots
    BY <1>1, HierarchyAssumption, IndexTag DEF L1Access
  <2>2. /\ l1d' = [l1d EXCEPT ![j] = u]
        /\ memory_accesses < MaxAccesses /\ memory_accesses' = memory_accesses + 1
    BY <1>1 DEF L1Access
  <2> HIDE DEF j, t
  <2>3. L1Ways \subseteq Nat /\ L1Ways # {}
    BY HierarchyAssumption, WaysExist DEF L1Ways
  <2>4. l1d[j] \in SetType(L1Ways) /\ Good(l1d[j]) /\ l1d[j].next <= memory_accesses
    BY <2>1 DEF TypeOK, OrderInv
  <2>5. l1d[j].next \in Nat /\ memory_accesses \in Nat
    BY <2>4 DEF SetType, TypeOK
  <2>6. l1d[j].next + 1 < wrap
    BY <2>2, <2>4, <2>5, HierarchyAssumption, CounterAssumption
  <2>7. Good(u) /\ u.next <= l1d[j].next + 1
    BY <2>1, <2>3, <2>4, <2>6, AccessGood
  <2>8. u.next \in Nat
    <3>1. l1d[j].next < wrap
      BY <2>1 DEF TypeOK
    <3>2. Accessed(L1Ways, l1d[j], t, wr, u)
      BY <2>1, <2>3, <2>4, <3>1, AccessSetIs
    <3> QED BY <3>2 DEF Accessed, SetType
  <2> HIDE DEF u
  <2>9. ASSUME NEW i \in L1Slots PROVE Good(l1d'[i]) /\ l1d'[i].next <= memory_accesses'
    <3>1. CASE i = j
      <4>1. l1d'[i] = u
        BY <2>1, <2>2, <3>1 DEF TypeOK
      <4> QED BY <2>2, <2>4, <2>5, <2>7, <2>8, <4>1
    <3>2. CASE i # j
      <4>1. l1d'[i] = l1d[i]
        BY <2>1, <2>2, <3>2 DEF TypeOK
      <4>2. Good(l1d[i]) /\ l1d[i].next <= memory_accesses /\ l1d[i].next \in Nat
        BY DEF OrderInv, TypeOK, SetType
      <4> QED BY <2>2, <2>5, <4>1, <4>2
    <3> QED BY <3>1, <3>2
  <2> QED BY <2>9 DEF OrderInv
<1>2. ASSUME l1d' = l1d, memory_accesses' = memory_accesses PROVE OrderInv'
  BY <1>2 DEF OrderInv
<1>3. CASE \E a \in Lines, wr \in BOOLEAN : access_hit(a, wr) \/ access_miss(a, wr)
  BY <1>1, <1>3, AccessIsL1Access
<1>4. CASE (\E p \in Pcs : begin(p)) \/ retire \/ escape \/ UNCHANGED vars
  BY <1>2, <1>4 DEF begin, retire, escape, cacheVars, vars
<1> QED BY <1>3, <1>4 DEF Next

LEMMA OrderInit == Init => OrderInv
<1> SUFFICES ASSUME Init PROVE OrderInv
  OBVIOUS
<1>1. Valid(EmptySet(L1Ways)) = {} /\ EmptySet(L1Ways).next = 0
  BY DEF Valid, EmptySet
<1>2. Good(EmptySet(L1Ways))
  BY <1>1 DEF Good
<1> QED BY <1>1, <1>2 DEF Init, OrderInv

\* next_lru stays above the counters of all lines for as long as the hierarchy
\* has seen fewer accesses than the counter has values: the comment's promise
\* is kept up to the width of the counter, whatever is rebased and when.
THEOREM CacheNoOverflow ==
    ASSUME MaxAccesses < wrap
    PROVE  Spec => []NoOverflow
<1>1. Init => TypeOK /\ OrderInv
  BY TypeInit, OrderInit
<1>2. TypeOK /\ OrderInv /\ [Next]_vars => (TypeOK /\ OrderInv)'
  BY TypeStep, OrderStep
<1>3. OrderInv => NoOverflow
  BY DEF OrderInv, NoOverflow, Good
<1> QED BY <1>1, <1>2, <1>3, PTL DEF Spec
-----------------------------------------------------------------------------
(***************************************************************************)
(* The first level implements LruCache.                                    *)
(***************************************************************************)

\* The tags an access to t keeps.
Keep(s, t) == {s.tag[v] : v \in Valid(s) \ {WayFor(s, t)}}

\* What LruCache sees of a set after an access to t.
Refilled(s, t, wr, u) ==
    /\ Resident(u) = Keep(s, t) \cup {t}
    /\ DirtyTags(u) = (DirtyTags(s) \cap (Keep(s, t) \cup {t})) \cup (IF wr THEN {t} ELSE {})
    /\ Older(u) = (Older(s) \cap (Keep(s, t) \X Keep(s, t))) \cup (Keep(s, t) \X {t})
    /\ Valid(u) = Valid(s) \cup {WayFor(s, t)}

LEMMA AccessRefills ==
    ASSUME NEW Ways, Ways \subseteq Nat, Ways # {}, NEW s \in SetType(Ways), s.next + 1 < wrap,
           NEW t \in Nat, NEW wr \in BOOLEAN, Good(s)
    PROVE  Refilled(s, t, wr, AccessSet(s, t, wr))
<1> DEFINE w == WayFor(s, t)
           u == AccessSet(s, t, wr)
           K == Valid(s) \ {w}
           keep == {s.tag[v] : v \in K}
           hit == HitWays(s, t) # {}
<1>1. s.next \in Nat /\ s.next < wrap /\ s.lru \in [Ways -> Nat] /\ s.tag \in [Ways -> Nat]
  BY CounterAssumption DEF SetType
<1>2. w \in Ways /\ Valid(s) \subseteq Ways /\ Dirty(s) \subseteq Valid(s)
  BY WayExists DEF Valid, Dirty, SetType
<1>3. /\ hit => w \in Valid(s) /\ s.tag[w] = t
      /\ ~hit => \A v \in Valid(s) : s.tag[v] # t
  BY WayExists DEF HitWays
<1>4. Accessed(Ways, s, t, wr, u)
  BY <1>1, AccessSetIs
<1>5. u.tag = [s.tag EXCEPT ![w] = t] /\ Renewed(Ways, s, w, u)
  BY <1>4 DEF Accessed
<1>6. /\ Valid(u) = Valid(s) \cup {w}
      /\ Dirty(u) = (Dirty(s) \ {w}) \cup (IF wr \/ (hit /\ w \in Dirty(s)) THEN {w} ELSE {})
  BY <1>1, AccessWays
<1>7. Keep(s, t) = keep
  BY DEF Keep
<1>8. /\ \A v, x \in Valid(s) : v # x => s.tag[v] # s.tag[x]
      /\ \A v \in Valid(s) : s.lru[v] < s.next
  BY DEF Good
<1> HIDE DEF w, u, hit
<1>9. /\ u.tag[w] = t
      /\ \A v \in K : u.tag[v] = s.tag[v] /\ s.tag[v] # t
      /\ Valid(u) = K \cup {w}
  BY <1>1, <1>2, <1>3, <1>5, <1>6, <1>8
<1>10. Resident(u) = keep \cup {t}
  BY <1>9 DEF Resident
<1>11. DirtyTags(u) = (DirtyTags(s) \cap (keep \cup {t})) \cup (IF wr THEN {t} ELSE {})
  <2> DEFINE R == (DirtyTags(s) \cap (keep \cup {t})) \cup (IF wr THEN {t} ELSE {})
  <2>1. ASSUME NEW x \in DirtyTags(u) PROVE x \in R
    <3>1. PICK v \in Dirty(u) : x = u.tag[v]
      BY <2>1 DEF DirtyTags
    <3>2. CASE v = w
      <4>1. x = t
        BY <1>9, <3>1, <3>2
      <4>2. wr \/ (hit /\ w \in Dirty(s))
        BY <1>6, <3>1, <3>2
      <4>3. hit /\ w \in Dirty(s) => t \in DirtyTags(s)
        BY <1>3 DEF DirtyTags
      <4> QED BY <4>1, <4>2, <4>3
    <3>3. CASE v # w
      <4>1. v \in Dirty(s) /\ v \in K
        BY <1>2, <1>6, <3>1, <3>3
      <4>2. x = s.tag[v]
        BY <1>9, <3>1, <4>1
      <4> QED BY <4>1, <4>2 DEF DirtyTags
    <3> QED BY <3>2, <3>3
  <2>2. ASSUME NEW x \in R PROVE x \in DirtyTags(u)
    <3>1. CASE wr /\ x = t
      <4>1. w \in Dirty(u)
        BY <1>6, <3>1
      <4> QED BY <1>9, <3>1, <4>1 DEF DirtyTags
    <3>2. CASE x \in DirtyTags(s) \cap (keep \cup {t})
      <4>1. PICK v \in Dirty(s) : x = s.tag[v]
        BY <3>2 DEF DirtyTags
      <4>2. CASE v = w
        <5>1. hit
          <6>1. ASSUME x \in keep PROVE FALSE
            <7>1. PICK y \in K : x = s.tag[y]
              BY <6>1
            <7> QED BY <1>2, <1>8, <4>1, <4>2, <7>1
          <6>2. x = t
            BY <3>2, <6>1
          <6> QED BY <1>2, <1>3, <4>1, <6>2
        <5>2. w \in Dirty(u) /\ x = t
          BY <1>3, <1>6, <4>1, <4>2, <5>1
        <5> QED BY <1>9, <5>2 DEF DirtyTags
      <4>3. CASE v # w
        <5>1. v \in Dirty(u) /\ v \in K
          BY <1>2, <1>6, <4>1, <4>3
        <5>2. u.tag[v] = x
          BY <1>9, <4>1, <5>1
        <5> QED BY <5>1, <5>2 DEF DirtyTags
      <4> QED BY <4>2, <4>3
    <3> QED BY <2>2, <3>1, <3>2
  <2> QED BY <2>1, <2>2
<1>12. Older(u) = (Older(s) \cap (keep \X keep)) \cup (keep \X {t})
  <2>1. PICK base \in Nat : /\ u.lru[w] = s.next - base
                            /\ \A v \in Ways \ {w} : u.lru[v] = s.lru[v] - base
    BY <1>5 DEF Renewed
  <2>9. \A v \in K : s.lru[v] \in Nat /\ s.lru[v] < s.next /\ u.lru[v] = s.lru[v] - base
    BY <1>1, <1>2, <1>8, <2>1
  <2> HIDE DEF K
  <2>2. /\ \A v, x \in K : u.lru[v] < u.lru[x] <=> s.lru[v] < s.lru[x]
        /\ \A v \in K : u.lru[v] < u.lru[w] /\ ~(u.lru[w] < u.lru[v])
        /\ ~(u.lru[w] < u.lru[w])
    BY <1>1, <2>9, <2>1
  <2> USE DEF K
  <2> DEFINE R == (Older(s) \cap (keep \X keep)) \cup (keep \X {t})
  <2>4. ASSUME NEW p \in Older(u) PROVE p \in R
    <3>1. PICK v, x \in Valid(u) : p = <<u.tag[v], u.tag[x]>> /\ u.lru[v] < u.lru[x]
      BY <2>4 DEF Older
    <3>2. v \in K
      BY <1>9, <2>2, <3>1
    <3>3. CASE x = w
      BY <1>9, <3>1, <3>2, <3>3
    <3>4. CASE x # w
      <4>1. x \in K
        BY <1>9, <3>1, <3>4
      <4>2. p = <<s.tag[v], s.tag[x]>> /\ s.lru[v] < s.lru[x]
        BY <1>9, <2>2, <3>1, <3>2, <4>1
      <4>3. p \in Older(s)
        BY <3>2, <4>1, <4>2 DEF Older, Resident
      <4> QED BY <3>2, <4>1, <4>2, <4>3
    <3> QED BY <3>3, <3>4
  <2>5. ASSUME NEW p \in R PROVE p \in Older(u)
    <3>1. CASE p \in keep \X {t}
      <4>1. PICK v \in K : p = <<s.tag[v], t>>
        BY <3>1
      <4>2. p = <<u.tag[v], u.tag[w]>> /\ u.lru[v] < u.lru[w]
        BY <1>9, <2>2, <4>1
      <4> QED BY <1>9, <4>1, <4>2 DEF Older, Resident
    <3>2. CASE p \in Older(s) \cap (keep \X keep)
      <4>1. PICK v, x \in Valid(s) : p = <<s.tag[v], s.tag[x]>> /\ s.lru[v] < s.lru[x]
        BY <3>2 DEF Older
      <4>2. s.tag[v] \in keep /\ s.tag[x] \in keep
        BY <3>2, <4>1
      <4>3. v \in K /\ x \in K
        BY <1>8, <4>1, <4>2
      <4>4. p = <<u.tag[v], u.tag[x]>> /\ u.lru[v] < u.lru[x]
        BY <1>9, <2>2, <4>1, <4>3
      <4> QED BY <1>9, <4>3, <4>4 DEF Older, Resident
    <3> QED BY <2>5, <3>1, <3>2
  <2> QED BY <2>4, <2>5
<1> QED BY <1>6, <1>7, <1>10, <1>11, <1>12 DEF Refilled, w, u

\* The three ways an access to t can go in a set.
Free(s, Ways) == Cardinality(Ways \ Valid(s))

Hits(s, t, u) ==
    /\ t \in Resident(s)
    /\ Keep(s, t) = Resident(s) \ {t}
    /\ Valid(u) = Valid(s)

Fills(s, t, u, Ways) ==
    /\ t \notin Resident(s)
    /\ Free(s, Ways) > 0
    /\ Keep(s, t) = Resident(s)
    /\ Free(u, Ways) = Free(s, Ways) - 1

Replaces(s, t, u, Ways) ==
    /\ t \notin Resident(s)
    /\ Free(s, Ways) = 0
    /\ \E v \in Resident(s) : /\ \A x \in Resident(s) : <<x, v>> \notin Older(s)
                              /\ Keep(s, t) = Resident(s) \ {v}
    /\ Valid(u) = Valid(s)

\* An access hits, fills a free way, or replaces the oldest line.
LEMMA AccessCases ==
    ASSUME NEW Ways, Ways \subseteq Nat, Ways # {}, IsFiniteSet(Ways),
           NEW s \in SetType(Ways), Good(s), NEW t, NEW u,
           Valid(u) = Valid(s) \cup {WayFor(s, t)}
    PROVE  Hits(s, t, u) \/ Fills(s, t, u, Ways) \/ Replaces(s, t, u, Ways)
<1> DEFINE w == WayFor(s, t)
           hit == HitWays(s, t) # {}
<1>1. /\ w \in Ways /\ Valid(s) \subseteq Ways /\ s.lru \in [Ways -> Nat]
      /\ hit => w \in HitWays(s, t)
      /\ ~hit /\ Valid(s) # Ways => w \notin Valid(s)
      /\ ~hit /\ Valid(s) = Ways => \A v \in Ways : s.lru[w] <= s.lru[v]
  BY WayExists DEF Valid, SetType
<1>2. \A v, x \in Valid(s) : v # x => s.tag[v] # s.tag[x]
  BY DEF Good
<1>3. hit <=> t \in Resident(s)
  BY DEF HitWays, Resident
<1>4. hit => w \in Valid(s) /\ s.tag[w] = t
  BY <1>1 DEF HitWays
<1>5. Keep(s, t) = {s.tag[v] : v \in Valid(s) \ {w}} /\ Valid(u) = Valid(s) \cup {w}
  BY DEF Keep
<1>6. IsFiniteSet(Ways \ Valid(s))
  BY FS_Difference
<1> HIDE DEF w, hit
<1>7. w \in Valid(s) => Keep(s, t) = Resident(s) \ {s.tag[w]} /\ Valid(u) = Valid(s)
  BY <1>2, <1>5 DEF Resident
<1>8. CASE hit
  BY <1>3, <1>4, <1>7, <1>8 DEF Hits
<1>9. CASE ~hit /\ Valid(s) # Ways
  <2>1. w \in Ways \ Valid(s)
    BY <1>1, <1>9
  <2>2. Keep(s, t) = Resident(s)
    BY <1>5, <2>1 DEF Resident
  <2>3. Ways \ Valid(u) = (Ways \ Valid(s)) \ {w}
    BY <1>5
  <2>4. Free(u, Ways) = Free(s, Ways) - 1
    BY <1>6, <2>1, <2>3, FS_RemoveElement DEF Free
  <2>5. Free(s, Ways) \in Nat /\ Free(s, Ways) # 0
    BY <1>6, <2>1, FS_CardinalityType, FS_EmptySet DEF Free
  <2> QED BY <1>3, <1>9, <2>2, <2>4, <2>5 DEF Fills
<1>10. CASE ~hit /\ Valid(s) = Ways
  <2>1. Free(s, Ways) = 0
    BY <1>10, FS_EmptySet DEF Free
  <2>2. w \in Valid(s) /\ \A v \in Valid(s) : ~(s.lru[v] < s.lru[w])
    <3>1. w \in Ways /\ \A v \in Ways : s.lru[w] <= s.lru[v]
      BY <1>1, <1>10
    <3>2. \A v \in Ways : s.lru[v] \in Nat
      BY <1>1
    <3>3. \A v \in Ways : ~(s.lru[v] < s.lru[w])
      BY <3>1, <3>2
    <3> QED BY <1>10, <3>1, <3>3
  <2>3. s.tag[w] \in Resident(s)
    BY <2>2 DEF Resident
  <2>4. ASSUME NEW x \in Resident(s), <<x, s.tag[w]>> \in Older(s) PROVE FALSE
    <3>1. PICK v, y \in Valid(s) : <<x, s.tag[w]>> = <<s.tag[v], s.tag[y]>> /\ s.lru[v] < s.lru[y]
      BY <2>4 DEF Older
    <3>2. y = w
      BY <1>2, <2>2, <3>1
    <3> QED BY <2>2, <3>1, <3>2
  <2> QED BY <1>3, <1>7, <1>10, <2>1, <2>2, <2>3, <2>4 DEF Replaces
<1> QED BY <1>8, <1>9, <1>10

\* An access of the hierarchy is an access of LruCache.
LEMMA AccessRefines ==
    ASSUME MaxAccesses < wrap, TypeOK, OrderInv,
           NEW a \in Lines, NEW wr \in BOOLEAN, L1Access(a, wr)
    PROVE  L1!Next
<1> DEFINE j == Index(a, l1_slots)
           t == Tag(a, l1_slots)
           s == l1d[j]
           u == AccessSet(s, t, wr)
           resident == [i \in L1Slots |-> Resident(l1d[i])]
           dirty    == [i \in L1Slots |-> DirtyTags(l1d[i])]
           older    == [i \in L1Slots |-> Older(l1d[i])]
           free     == [i \in L1Slots |-> Cardinality(L1Ways \ Valid(l1d[i]))]
<1>1. t \in Nat /\ j \in L1Slots /\ t \in L1Tags
  BY HierarchyAssumption, IndexTag DEF L1Access, L1Tags
<1>2. /\ l1d' = [l1d EXCEPT ![j] = u]
      /\ memory_accesses < MaxAccesses
  BY DEF L1Access
<1> HIDE DEF j, t
<1>3. L1Ways \subseteq Nat /\ L1Ways # {} /\ IsFiniteSet(L1Ways)
  <2>1. IsFiniteSet(L1Ways)
    BY HierarchyAssumption, FS_Interval DEF L1Ways
  <2> QED BY HierarchyAssumption, WaysExist, <2>1 DEF L1Ways
<1>4. s \in SetType(L1Ways) /\ Good(s) /\ s.next <= memory_accesses
  BY <1>1 DEF TypeOK, OrderInv
<1>5. s.next + 1 < wrap
  <2>1. s.next \in Nat /\ memory_accesses \in Nat
    BY <1>4 DEF SetType, TypeOK
  <2> QED BY <1>2, <1>4, <2>1, HierarchyAssumption, CounterAssumption
<1>6. l1d' \in [L1Slots -> {l1d[i] : i \in L1Slots} \cup {u}] /\ l1d'[j] = u
      /\ \A i \in L1Slots \ {j} : l1d'[i] = l1d[i]
  BY <1>1, <1>2 DEF TypeOK
<1> HIDE DEF s, u
<1>7. Refilled(s, t, wr, u)
  BY <1>1, <1>3, <1>4, <1>5, AccessRefills DEF u
<1>8. Hits(s, t, u) \/ Fills(s, t, u, L1Ways) \/ Replaces(s, t, u, L1Ways)
  BY <1>3, <1>4, <1>7, AccessCases DEF Refilled
<1>9. /\ resident[j] = Resident(s) /\ dirty[j] = DirtyTags(s) /\ older[j] = Older(s)
      /\ free[j] = Free(s, L1Ways)
  BY <1>1 DEF s, Free
<1>10. /\ resident' = [resident EXCEPT ![j] = Resident(u)]
       /\ dirty' = [dirty EXCEPT ![j] = DirtyTags(u)]
       /\ older' = [older EXCEPT ![j] = Older(u)]
       /\ free' = [free EXCEPT ![j] = Free(u, L1Ways)]
  BY <1>1, <1>6 DEF Free
<1>11. /\ DOMAIN free = L1Slots
       /\ Free(u, L1Ways) = Free(s, L1Ways) => free' = free
  <2>1. DOMAIN free = L1Slots /\ [free EXCEPT ![j] = free[j]] = free
    BY <1>1
  <2>2. free[j] = Free(s, L1Ways) /\ free' = [free EXCEPT ![j] = Free(u, L1Ways)]
    BY <1>9, <1>10
  <2> HIDE DEF free
  <2> QED BY <2>1, <2>2
<1> HIDE DEF resident, dirty, older, free
<1> DEFINE Refill(keep) ==
             /\ resident' = [resident EXCEPT ![j] = keep \cup {t}]
             /\ dirty' = [dirty EXCEPT ![j] = (dirty[j] \cap (keep \cup {t})) \cup (IF wr THEN {t} ELSE {})]
             /\ older' = [older EXCEPT ![j] = (older[j] \cap (keep \X keep)) \cup (keep \X {t})]
<1>12. Refill(Keep(s, t))
  BY <1>7, <1>9, <1>10 DEF Refilled
<1> HIDE DEF Refill
<1>13. CASE Hits(s, t, u)
  <2>1. t \in resident[j] /\ Refill(resident[j] \ {t}) /\ free' = free
    BY <1>9, <1>11, <1>12, <1>13 DEF Hits, Free
  <2>2. L1!Hit(j, t, wr)
    BY <2>1 DEF L1!Hit, L1!Refill, Refill, resident, dirty, older, free
  <2> QED BY <1>1, <2>2 DEF L1!Next, L1!Access
<1>14. CASE Fills(s, t, u, L1Ways)
  <2>1. /\ t \notin resident[j] /\ free[j] > 0 /\ Refill(resident[j])
        /\ free' = [free EXCEPT ![j] = free[j] - 1]
    BY <1>9, <1>10, <1>12, <1>14 DEF Fills
  <2>2. L1!Fill(j, t, wr)
    BY <2>1 DEF L1!Fill, L1!Refill, Refill, resident, dirty, older, free
  <2> QED BY <1>1, <2>2 DEF L1!Next, L1!Access
<1>15. CASE Replaces(s, t, u, L1Ways)
  <2>1. /\ t \notin resident[j] /\ free[j] = 0 /\ free' = free
        /\ \E v \in resident[j] : /\ \A x \in resident[j] : <<x, v>> \notin older[j]
                                  /\ Refill(resident[j] \ {v})
    BY <1>9, <1>11, <1>12, <1>15 DEF Replaces, Free
  <2>2. L1!Replace(j, t, wr)
    BY <2>1 DEF L1!Replace, L1!Refill, Refill, resident, dirty, older, free
  <2> QED BY <1>1, <2>2 DEF L1!Next, L1!Access
<1> QED BY <1>8, <1>13, <1>14, <1>15

LEMMA InitRefines == Init => L1!Init
<1> SUFFICES ASSUME Init PROVE L1!Init
  OBVIOUS
<1> DEFINE e == EmptySet(L1Ways)
<1>1. Valid(e) = {} /\ Dirty(e) = {}
  BY DEF Valid, Dirty, EmptySet
<1> HIDE DEF e
<1>2. Resident(e) = {} /\ DirtyTags(e) = {} /\ Older(e) = {}
  BY <1>1 DEF Resident, DirtyTags, Older
<1>3. L1Ways \ Valid(e) = L1Ways
  BY <1>1
<1>4. Cardinality(L1Ways) = l1_ways
  BY HierarchyAssumption, FS_Interval DEF L1Ways
<1>5. \A i \in L1Slots : l1d[i] = e
  BY DEF Init, e
<1> QED BY <1>2, <1>3, <1>4, <1>5 DEF L1!Init

\* The first level implements LruCache while the hierarchy has seen fewer
\* accesses than a counter has values: every access hits, fills a free way or
\* replaces the line unused for longest, through any number of rebasings.
THEOREM CacheL1IsLru ==
    ASSUME MaxAccesses < wrap
    PROVE  Spec => L1IsLru
<1>1. Init => TypeOK /\ OrderInv
  BY TypeInit, OrderInit
<1>2. TypeOK /\ OrderInv /\ [Next]_vars => (TypeOK /\ OrderInv)'
  BY TypeStep, OrderStep
<1>3. TypeOK /\ OrderInv /\ [Next]_vars => [L1!Next]_(L1!vars)
  <2> SUFFICES ASSUME TypeOK, OrderInv, [Next]_vars PROVE [L1!Next]_(L1!vars)
    OBVIOUS
  <2>1. ASSUME l1d' = l1d PROVE UNCHANGED L1!vars
    BY <2>1 DEF L1!vars
  <2>2. CASE \E a \in Lines, wr \in BOOLEAN : access_hit(a, wr) \/ access_miss(a, wr)
    BY <2>2, AccessIsL1Access, AccessRefines
  <2>3. CASE (\E p \in Pcs : begin(p)) \/ retire \/ escape \/ UNCHANGED vars
    BY <2>1, <2>3 DEF begin, retire, escape, cacheVars, vars
  <2> QED BY <2>2, <2>3 DEF Next
<1> QED BY <1>1, <1>2, <1>3, InitRefines, PTL DEF Spec, L1IsLru, L1!Spec
-----------------------------------------------------------------------------
(***************************************************************************)
(* No write is lost between the levels.                                    *)
(***************************************************************************)

\* A line address is its set and its tag.
LEMMA LineOf ==
    ASSUME NEW a \in Nat, NEW slots \in Nat \ {0}
    PROVE  Line(Index(a, slots), Tag(a, slots), slots) = a
BY DEF Line, Index, Tag

\* An access leaves every dirty line dirty except the one it reports for writing
\* back, and a write leaves its own line dirty.
LEMMA AccessDirty ==
    ASSUME NEW c, NEW slots \in Nat \ {0}, NEW ways \in Nat \ {0}, CacheType(c, slots, ways),
           NEW a \in Nat, NEW wr \in BOOLEAN
    PROVE  LET d == cache_access(c, slots, a, wr)
           IN  /\ \A x \in DirtyLines(c, slots) :
                      \/ x \in DirtyLines(d, slots)
                      \/ NeedsWriteback(c, slots, a) /\ x = writeback_addr(c, slots, a)
               /\ wr => a \in DirtyLines(d, slots)
<1> DEFINE j == Index(a, slots)
           t == Tag(a, slots)
           Slots == 0 .. slots - 1
           Ways == 0 .. ways - 1
           s == c[j]
           w == WayFor(s, t)
           u == AccessSet(s, t, wr)
           d == cache_access(c, slots, a, wr)
<1>1. j \in Slots /\ t \in Nat
  BY IndexTag
<1>2. Ways \subseteq Nat /\ Ways # {}
  BY WaysExist
<1>3. Line(j, t, slots) = a
  BY LineOf
<1>4. d = [c EXCEPT ![j] = u]
  BY DEF cache_access
<1>5. c \in [Slots -> SetType(Ways)] /\ \A i \in Slots : c[i].next < wrap
  BY DEF CacheType
<1>6. /\ NeedsWriteback(c, slots, a) <=> HitWays(s, t) = {} /\ s.state[w] = "dirty"
      /\ writeback_addr(c, slots, a) = Line(j, s.tag[w], slots)
  BY DEF NeedsWriteback, Evicts, writeback_addr
<1> HIDE DEF j, t, Slots, Ways, d
<1>7. s \in SetType(Ways) /\ s.next < wrap
  BY <1>1, <1>5
<1> HIDE DEF s
<1>8. /\ Dirty(u) = (Dirty(s) \ {w}) \cup (IF wr \/ (HitWays(s, t) # {} /\ w \in Dirty(s)) THEN {w} ELSE {})
      /\ w \in Ways /\ (HitWays(s, t) # {} => w \in HitWays(s, t))
  BY <1>1, <1>2, <1>7, AccessWays, WayExists
<1>9. u.tag = [s.tag EXCEPT ![w] = t]
  <2>1. Accessed(Ways, s, t, wr, u)
    BY <1>1, <1>2, <1>7, AccessSetIs
  <2> QED BY <2>1 DEF Accessed
<1>10. s.tag \in [Ways -> Nat] /\ Dirty(s) \subseteq Ways
  BY <1>7 DEF SetType, Dirty
<1> HIDE DEF w, u
<1>11. u.tag[w] = t /\ \A v \in Ways \ {w} : u.tag[v] = s.tag[v]
  BY <1>8, <1>9, <1>10
<1>12. DOMAIN c = Slots /\ DOMAIN d = Slots /\ d[j] = u /\ \A i \in Slots \ {j} : d[i] = c[i]
  BY <1>1, <1>4, <1>5
<1>13. wr => a \in DirtyLines(d, slots)
  <2> SUFFICES ASSUME wr PROVE a \in DirtyLines(d, slots)
    OBVIOUS
  <2>1. w \in Dirty(d[j]) /\ a = Line(j, d[j].tag[w], slots)
    BY <1>3, <1>8, <1>11, <1>12
  <2> QED BY <1>1, <1>12, <2>1 DEF DirtyLines
<1>14. ASSUME NEW x \in DirtyLines(c, slots)
       PROVE  \/ x \in DirtyLines(d, slots)
              \/ NeedsWriteback(c, slots, a) /\ x = writeback_addr(c, slots, a)
  <2>1. PICK i \in Slots : \E v \in Dirty(c[i]) : x = Line(i, c[i].tag[v], slots)
    BY <1>12 DEF DirtyLines
  <2>2. PICK v \in Dirty(c[i]) : x = Line(i, c[i].tag[v], slots)
    BY <2>1
  <2>3. CASE i # j
    <3>1. d[i] = c[i]
      BY <1>12, <2>3
    <3> QED BY <1>12, <2>2, <3>1 DEF DirtyLines
  <2>4. CASE i = j
    <3>1. v \in Dirty(s) /\ x = Line(j, s.tag[v], slots)
      BY <2>2, <2>4 DEF s
    <3>2. CASE v # w
      <4>1. v \in Dirty(d[j]) /\ d[j].tag[v] = s.tag[v]
        BY <1>8, <1>10, <1>11, <1>12, <3>1, <3>2
      <4> QED BY <1>1, <1>12, <3>1, <4>1 DEF DirtyLines
    <3>3. CASE v = w /\ HitWays(s, t) # {}
      <4>1. s.tag[w] = t
        BY <1>8, <3>3 DEF HitWays
      <4>2. w \in Dirty(d[j]) /\ d[j].tag[w] = s.tag[w]
        BY <1>8, <1>11, <1>12, <3>1, <3>3, <4>1
      <4> QED BY <1>1, <1>12, <3>1, <3>3, <4>2 DEF DirtyLines
    <3>4. CASE v = w /\ HitWays(s, t) = {}
      <4>1. s.state[w] = "dirty"
        BY <3>1, <3>4 DEF Dirty
      <4> QED BY <1>6, <3>1, <3>4, <4>1
    <3> QED BY <3>2, <3>3, <3>4
  <2> QED BY <2>3, <2>4
<1> QED BY <1>13, <1>14 DEF d

\* A hit loses nothing: no line leaves the first level.
LEMMA HitLosesNothing ==
    ASSUME TypeOK, NothingLost, NEW a \in Lines, NEW wr \in BOOLEAN, access_hit(a, wr)
    PROVE  NothingLost'
<1> DEFINE d == cache_access(l1d, l1_slots, a, wr)
<1>1. /\ l1d' = d /\ l2' = l2 /\ IsHit(l1d, l1_slots, a)
      /\ stale' = IF wr THEN stale \cup {a} ELSE stale
  BY DEF access_hit
<1>2. CacheType(l1d, l1_slots, l1_ways) /\ a \in Nat
  BY HierarchyAssumption DEF TypeOK, CacheType, L1Slots, L1Ways
<1>3. ~NeedsWriteback(l1d, l1_slots, a)
  BY <1>1 DEF NeedsWriteback, Evicts, IsHit
<1>4. /\ \A x \in DirtyLines(l1d, l1_slots) :
            \/ x \in DirtyLines(d, l1_slots)
            \/ NeedsWriteback(l1d, l1_slots, a) /\ x = writeback_addr(l1d, l1_slots, a)
      /\ wr => a \in DirtyLines(d, l1_slots)
  BY <1>2, AccessDirty, HierarchyAssumption
<1> HIDE DEF d
<1> QED BY <1>1, <1>3, <1>4 DEF NothingLost

\* Nor does a miss, in whichever of its two accesses the second level gives up a
\* line: what leaves both levels is written to memory.
LEMMA MissLosesNothing ==
    ASSUME TypeOK, NothingLost, NEW a \in Lines, NEW wr \in BOOLEAN, access_miss(a, wr)
    PROVE  NothingLost'
<1> USE HierarchyAssumption
<1> DEFINE D1(c)  == DirtyLines(c, l1_slots)
           D2(c)  == DirtyLines(c, l2_slots)
           new1   == cache_access(l1d, l1_slots, a, wr)
           out2   == NeedsWriteback(l2, l2_slots, a)
           wb2    == writeback_addr(l2, l2_slots, a)
           mid    == cache_access(l2, l2_slots, a, wr)
           out1   == NeedsWriteback(l1d, l1_slots, a)
           wba    == writeback_addr(l1d, l1_slots, a)
           out3   == NeedsWriteback(mid, l2_slots, wba)
           wb3    == writeback_addr(mid, l2_slots, wba)
           new2   == cache_access(mid, l2_slots, wba, TRUE)
           saved  == (IF out2 THEN {wb2} \ (IF out1 THEN {wba} ELSE {}) ELSE {})
                     \cup (IF out1 /\ out3 THEN {wb3} ELSE {})
<1>1. /\ l1d' = new1
      /\ l2' = IF out1 THEN new2 ELSE mid
      /\ stale' = (IF wr THEN stale \cup {a} ELSE stale) \ (saved \ D1(l1d'))
  BY DEF access_miss
<1>2. /\ CacheType(l1d, l1_slots, l1_ways) /\ CacheType(l2, l2_slots, l2_ways) /\ a \in Nat
  BY DEF TypeOK, CacheType, L1Slots, L1Ways, L2Slots, L2Ways
<1>3. CacheType(mid, l2_slots, l2_ways)
  BY <1>2, CacheAccessType
<1>4. wba \in Nat
  BY <1>2, WritebackAddrType
<1>5. /\ \A x \in D1(l1d) : x \in D1(new1) \/ (out1 /\ x = wba)
      /\ wr => a \in D1(new1)
  BY <1>2, AccessDirty
<1>6. \A x \in D2(l2) : x \in D2(mid) \/ (out2 /\ x = wb2)
  BY <1>2, AccessDirty
<1> HIDE DEF mid, wba
<1>7. /\ \A x \in D2(mid) : x \in D2(new2) \/ (out3 /\ x = wb3)
      /\ wba \in D2(new2)
  BY <1>3, <1>4, AccessDirty
<1>8. stale \subseteq D1(l1d) \cup D2(l2)
  BY DEF NothingLost
<1> HIDE DEF D1, D2, new1, out1, out2, wb2, out3, wb3, new2
<1>9. ASSUME NEW x \in stale' PROVE x \in D1(new1) \cup D2(l2')
  <2>1. x \in stale \/ (wr /\ x = a)
    BY <1>1
  <2>2. x \in saved => x \in D1(new1)
    BY <1>1
  <2>3. CASE x \in D1(l1d)
    BY <1>1, <1>5, <1>7, <2>3
  <2>4. CASE x \in D2(l2)
    <3>1. CASE x \in D2(mid)
      BY <1>1, <1>7, <2>2, <3>1
    <3>2. CASE out2 /\ x = wb2
      BY <1>1, <1>7, <2>2, <3>2
    <3> QED BY <1>6, <2>4, <3>1, <3>2
  <2> QED BY <1>5, <1>8, <2>1, <2>3, <2>4
<1> QED BY <1>1, <1>9 DEF NothingLost, D1, D2

\* No write is lost between the levels, for any sizes of the two, whatever lines
\* the two accesses of a miss to the second level throw out, wrapped counters
\* included.
THEOREM CacheNothingLost == Spec => []NothingLost
<1>1. Init => NothingLost
  BY DEF Init, NothingLost
<1>2. TypeOK /\ NothingLost /\ [Next]_vars => NothingLost'
  <2> SUFFICES ASSUME TypeOK, NothingLost, [Next]_vars PROVE NothingLost'
    OBVIOUS
  <2>1. CASE \E a \in Lines, wr \in BOOLEAN : access_hit(a, wr) \/ access_miss(a, wr)
    BY <2>1, HitLosesNothing, MissLosesNothing
  <2>2. CASE (\E p \in Pcs : begin(p)) \/ retire \/ escape \/ UNCHANGED vars
    BY <2>2 DEF begin, retire, escape, cacheVars, vars, NothingLost
  <2> QED BY <2>1, <2>2 DEF Next
<1> QED BY <1>1, <1>2, CacheTypeCorrect, PTL DEF Spec
-----------------------------------------------------------------------------
(***************************************************************************)
(* The counters tell one story.  The charges of the instructions are added *)
(* up by a fold, a recursive function on the subsets of Pcs: what holds of *)
(* it is shown by a least set for which it would not hold.                 *)
(***************************************************************************)

\* Among sets of instructions there is one that has no smaller one by a member.
LEMMA LeastSet ==
    ASSUME NEW T, T \subseteq SUBSET Pcs, T # {}
    PROVE  \E s \in T : \A x \in s : s \ {x} \notin T
<1> DEFINE C == {Cardinality(s) : s \in T}
<1>1. \A s \in SUBSET Pcs : IsFiniteSet(s) /\ Cardinality(s) \in Nat
  BY HierarchyAssumption, FS_Subset, FS_CardinalityType
<1>2. C \subseteq Nat /\ C # {}
  BY <1>1
<1>3. Least(C) \in C /\ \A n \in C : Least(C) <= n
  <2> HIDE DEF C
  <2> QED BY <1>2, LeastExists
<1>4. PICK s \in T : Cardinality(s) = Least(C)
  BY <1>3
<1>5. ASSUME NEW x \in s, s \ {x} \in T PROVE FALSE
  <2>1. Cardinality(s \ {x}) = Cardinality(s) - 1
    BY <1>1, <1>5, FS_RemoveElement
  <2>2. Cardinality(s) <= Cardinality(s \ {x})
    BY <1>3, <1>4, <1>5
  <2>3. Cardinality(s) \in Nat
    BY <1>1
  <2> QED BY <2>1, <2>2, <2>3
<1> QED BY <1>5

\* The fold of Sum, over the misses that ip charges to the instructions.
Pick(s) == CHOOSE x \in s : TRUE

Added(ip, f, s) == IF s = {} THEN 0 ELSE ip[Pick(s)].l1 + f[s \ {Pick(s)}]

Summed(ip, f) == f = [s \in SUBSET Pcs |-> Added(ip, f, s)]

Total(ip) == (CHOOSE f : Summed(ip, f))[Pcs]

\* The sum of CountersAgree is that fold, before and after a step.
LEMMA SumIsTotal ==
    /\ Sum(LAMBDA p : inst_perf[p].l1) = Total(inst_perf)
    /\ Sum(LAMBDA p : inst_perf[p].l1)' = Total(inst_perf')
BY Zenon DEF Sum, MapThenSumSet, MapThenFoldSet, Total, Summed, Added, Pick

\* What the processor keeps of each instruction.
PerfType == [Pcs -> [executions : Nat, l1 : Nat, l2 : Nat, cycles : Nat]]

\* A set that is not empty has the member that the fold picks.
LEMMA PickIn ==
    ASSUME NEW s, s # {}
    PROVE  Pick(s) \in s
BY DEF Pick

\* The recursion has a solution: one that is right for the sets of up to n members
\* is made right for those of n + 1.
LEMMA SummedExists ==
    ASSUME NEW ip \in PerfType
    PROVE  \E f : Summed(ip, f)
<1> DEFINE Right(f, n) == \A s \in SUBSET Pcs : Cardinality(s) <= n => f[s] = Added(ip, f, s)
           Fs == [SUBSET Pcs -> Nat]
           T == {n \in Nat : ~ \E f \in Fs : Right(f, n)}
<1>1. \A s \in SUBSET Pcs : IsFiniteSet(s) /\ Cardinality(s) \in Nat
  BY HierarchyAssumption, FS_Subset, FS_CardinalityType
<1>2. \A s \in SUBSET Pcs : Cardinality(s) <= 0 => s = {}
  BY <1>1, FS_EmptySet
<1>3. ASSUME T # {} PROVE FALSE
  <2>1. Least(T) \in T /\ \A n \in T : Least(T) <= n
    <3>1. T \subseteq Nat
      OBVIOUS
    <3> HIDE DEF T
    <3> QED BY <1>3, <3>1, LeastExists
  <2>11. PICK m \in T : \A n \in T : m <= n
    BY <2>1, Zenon
  <2>2. m \in Nat /\ m \in T /\ \A n \in Nat : n < m => n \notin T
    <3>1. T \subseteq Nat
      OBVIOUS
    <3> HIDE DEF T
    <3> QED BY <2>11, <3>1
  <2>3. m # 0
    <3> DEFINE z == [s \in SUBSET Pcs |-> 0]
    <3>1. z \in Fs
      OBVIOUS
    <3>2. Right(z, 0)
      BY <1>2 DEF Added
    <3>3. 0 \notin T
      <4> HIDE DEF z, Right
      <4> QED BY <3>1, <3>2
    <3> QED BY <2>2, <3>3
  <2>4. m - 1 \in Nat /\ m - 1 < m
    BY <2>2, <2>3
  <2>5. PICK f \in Fs : Right(f, m - 1)
    <3>1. m - 1 \notin T
      BY <2>2, <2>4
    <3> HIDE DEF Right
    <3> QED BY <2>4, <3>1
  <2> DEFINE h == [s \in SUBSET Pcs |-> IF Cardinality(s) = m THEN Added(ip, f, s) ELSE f[s]]
  <2>6. \A s \in SUBSET Pcs : Added(ip, f, s) \in Nat
    BY PickIn DEF Added, PerfType
  <2>7. h \in Fs
    BY <2>6
  <2>8. Right(h, m)
    <3> SUFFICES ASSUME NEW s \in SUBSET Pcs, Cardinality(s) <= m
                 PROVE  h[s] = Added(ip, h, s)
      OBVIOUS
    <3>1. Added(ip, h, s) = Added(ip, f, s)
      <4>1. CASE s = {}
        BY <4>1 DEF Added
      <4>2. CASE s # {}
        <5>1. Pick(s) \in s
          BY <4>2, PickIn
        <5>2. s \ {Pick(s)} \in SUBSET Pcs /\ Cardinality(s \ {Pick(s)}) = Cardinality(s) - 1
          BY <1>1, <5>1, FS_RemoveElement
        <5>3. Cardinality(s \ {Pick(s)}) # m
          BY <1>1, <2>2, <5>2
        <5>4. h[s \ {Pick(s)}] = f[s \ {Pick(s)}]
          BY <5>2, <5>3
        <5> QED BY <4>2, <5>4 DEF Added
      <4> QED BY <4>1, <4>2
    <3>2. CASE Cardinality(s) = m
      BY <3>1, <3>2
    <3>3. CASE Cardinality(s) # m
      <4>1. Cardinality(s) <= m - 1
        BY <1>1, <2>2, <3>3
      <4>2. f[s] = Added(ip, f, s)
        BY <2>5, <4>1
      <4> QED BY <3>1, <3>3, <4>2
    <3> QED BY <3>2, <3>3
  <2>9. m \notin T
    <3> HIDE DEF h, Right
    <3> QED BY <2>7, <2>8
  <2> QED BY <2>2, <2>9
<1>4. PICK f \in Fs : Right(f, Cardinality(Pcs))
  <2>1. Cardinality(Pcs) \in Nat
    BY <1>1
  <2>2. Cardinality(Pcs) \notin T
    BY <1>3
  <2> HIDE DEF Right
  <2> QED BY <2>1, <2>2
<1>5. \A s \in SUBSET Pcs : Cardinality(s) <= Cardinality(Pcs)
  BY HierarchyAssumption, FS_Subset
<1>6. f = [s \in SUBSET Pcs |-> Added(ip, f, s)]
  BY <1>4, <1>5
<1> QED BY <1>6 DEF Summed

\* A solution of the recursion adds zeros up to zero.
LEMMA TotalOfNothing ==
    ASSUME NEW ip \in PerfType, \A p \in Pcs : ip[p].l1 = 0
    PROVE  Total(ip) = 0
<1> DEFINE f == CHOOSE f : Summed(ip, f)
           T == {s \in SUBSET Pcs : f[s] # 0}
<1>1. Summed(ip, f)
  BY SummedExists
<1> HIDE DEF f
<1>2. \A s \in SUBSET Pcs : f[s] = Added(ip, f, s)
  BY <1>1 DEF Summed
<1>3. ASSUME T # {} PROVE FALSE
  <2>1. T \subseteq SUBSET Pcs
    OBVIOUS
  <2>2. PICK s \in T : \A x \in s : s \ {x} \notin T
    <3> HIDE DEF T
    <3> QED BY <1>3, <2>1, LeastSet
  <2>3. s # {}
    BY <1>2, <2>2 DEF Added
  <2>4. Pick(s) \in s /\ Pick(s) \in Pcs
    BY <2>3, PickIn
  <2>5. f[s \ {Pick(s)}] = 0
    BY <2>2, <2>4
  <2>6. f[s] = ip[Pick(s)].l1 + f[s \ {Pick(s)}]
    BY <1>2, <2>3 DEF Added
  <2>7. ip[Pick(s)].l1 = 0
    BY <2>4
  <2> QED BY <2>5, <2>6, <2>7
<1>4. f[Pcs] = 0
  BY <1>3
<1> QED BY <1>4 DEF Total, f

\* Charging d more to one instruction makes the total d more.
LEMMA TotalCharged ==
    ASSUME NEW ip \in PerfType, NEW iq \in PerfType, NEW q \in Pcs, NEW d \in Nat,
           iq[q].l1 = ip[q].l1 + d,
           \A p \in Pcs \ {q} : iq[p].l1 = ip[p].l1
    PROVE  Total(ip) \in Nat /\ Total(iq) = Total(ip) + d
<1> DEFINE f == CHOOSE f : Summed(ip, f)
           g == CHOOSE g : Summed(iq, g)
           More(s) == IF q \in s THEN d ELSE 0
           T == {s \in SUBSET Pcs : ~(f[s] \in Nat /\ g[s] = f[s] + More(s))}
<1>1. Summed(ip, f) /\ Summed(iq, g)
  BY SummedExists
<1> HIDE DEF f, g
<1>2. \A s \in SUBSET Pcs : f[s] = Added(ip, f, s) /\ g[s] = Added(iq, g, s)
  BY <1>1 DEF Summed
<1>3. ASSUME T # {} PROVE FALSE
  <2>1. T \subseteq SUBSET Pcs
    OBVIOUS
  <2>2. PICK s \in T : \A x \in s : s \ {x} \notin T
    <3> HIDE DEF T
    <3> QED BY <1>3, <2>1, LeastSet
  <2> DEFINE x == Pick(s)
             r == s \ {x}
  <2>3. s # {}
    <3>1. f[{}] = 0 /\ g[{}] = 0 /\ More({}) = 0
      BY <1>2 DEF Added
    <3>2. {} \notin T
      BY <3>1
    <3> QED BY <2>2, <3>2
  <2>4. x \in s /\ x \in Pcs
    BY <2>3, PickIn
  <2>5. f[r] \in Nat /\ g[r] = f[r] + More(r)
    BY <2>2, <2>4
  <2>6. f[s] = ip[x].l1 + f[r] /\ g[s] = iq[x].l1 + g[r]
    BY <1>2, <2>3 DEF Added
  <2>7. ip[x].l1 \in Nat /\ iq[x].l1 \in Nat
    BY <2>4 DEF PerfType
  <2>8. iq[x].l1 + More(r) = ip[x].l1 + More(s) /\ More(r) \in Nat /\ More(s) \in Nat
    BY <2>4, <2>7
  <2>9. f[s] \in Nat /\ g[s] = f[s] + More(s)
    <3> HIDE DEF x, r, More
    <3> QED BY <2>5, <2>6, <2>7, <2>8
  <2> QED BY <2>2, <2>9
<1>4. f[Pcs] \in Nat /\ g[Pcs] = f[Pcs] + d
  BY <1>3
<1> QED BY <1>4 DEF Total, f, g

\* The statistics of a cache.
StatsType == [accesses : Nat, hits : Nat, misses : Nat, writebacks : Nat, reads : Nat, writes : Nat]

\* The ranges of the counters.
CounterType ==
    /\ l1_stats \in StatsType /\ l2_stats \in StatsType
    /\ current \in [l1 : Nat, l2 : Nat, cycles : Nat]
    /\ inst_perf \in PerfType

\* Count keeps the ranges of the statistics.
LEMMA CountType ==
    ASSUME NEW st \in StatsType, NEW c, NEW slots, NEW a, NEW wr
    PROVE  Count(st, c, slots, a, wr) \in StatsType
BY DEF Count, StatsType, Bump

\* Every step keeps the ranges of the counters.
LEMMA CounterTypeStep ==
    ASSUME TypeOK, CounterType, [Next]_vars
    PROVE  CounterType'
<1> USE HierarchyAssumption
<1>1. ASSUME NEW a \in Lines, NEW wr \in BOOLEAN, access_hit(a, wr) \/ access_miss(a, wr)
      PROVE  CounterType'
  <2> DEFINE mid == cache_access(l2, l2_slots, a, wr)
             midst == Count(l2_stats, l2, l2_slots, a, wr)
             wba == writeback_addr(l1d, l1_slots, a)
             hit2 == IsHit(l2, l2_slots, a)
  <2>1. inst_perf' = inst_perf /\ l1_stats' = Count(l1_stats, l1d, l1_slots, a, wr)
    BY <1>1 DEF access_hit, access_miss, Charge
  <2>2. l2_stats' \in {l2_stats, midst, Count(midst, mid, l2_slots, wba, TRUE)}
    BY <1>1, Zenon DEF access_hit, access_miss
  <2>3. midst \in StatsType
    BY CountType DEF CounterType
  <2>4. l2_stats' \in StatsType
    <3> HIDE DEF midst, mid, wba
    <3>1. Count(midst, mid, l2_slots, wba, TRUE) \in StatsType
      BY <2>3, CountType, Zenon
    <3>2. l2_stats \in StatsType
      BY DEF CounterType
    <3> QED BY <2>2, <2>3, <3>1, <3>2, Zenon
  <2>5. l1_stats' \in StatsType
    BY <2>1, CountType DEF CounterType
  <2>6. \E n \in Nat, b1, b2 \in BOOLEAN : Charge(n, b1, b2)
    <3>1. CASE access_hit(a, wr)
      BY <3>1 DEF access_hit
    <3>2. CASE access_miss(a, wr)
      <4> DEFINE delay == l1_hit_latency + l2_hit_latency + IF hit2 THEN 0 ELSE memory_latency
      <4>1. Charge(delay, TRUE, ~hit2)
        BY <3>2 DEF access_miss
      <4>2. delay \in Nat
        OBVIOUS
      <4>3. (~hit2) \in BOOLEAN
        BY Zenon
      <4> HIDE DEF delay, hit2
      <4> QED BY <4>1, <4>2, <4>3
    <3> QED BY <1>1, <3>1, <3>2
  <2>7. current' \in [l1 : Nat, l2 : Nat, cycles : Nat]
    BY <2>6 DEF Charge, CounterType, Bump
  <2> QED BY <2>1, <2>4, <2>5, <2>7 DEF CounterType
<1>2. CASE retire
  <2>1. /\ insn \in Pcs /\ l1_stats' = l1_stats /\ l2_stats' = l2_stats /\ current' = Nothing
        /\ inst_perf' = [inst_perf EXCEPT ![insn] =
                           [executions |-> inst_perf[insn].executions + 1,
                            l1 |-> inst_perf[insn].l1 + current.l1,
                            l2 |-> inst_perf[insn].l2 + current.l2,
                            cycles |-> inst_perf[insn].cycles + 1 + current.cycles]]
    BY <1>2 DEF retire, update_dcache_stats, TypeOK, cacheVars
  <2> QED BY <2>1 DEF CounterType, PerfType, Nothing
<1>3. CASE (\E p \in Pcs : begin(p)) \/ escape \/ UNCHANGED vars
  BY <1>3 DEF begin, escape, vars, cacheVars, CounterType
<1> QED BY <1>1, <1>2, <1>3 DEF Next

\* The parts of CountersAgree that an access changes.
LEMMA AccessCounts ==
    ASSUME TypeOK, CounterType, CountersAgree,
           NEW a \in Lines, NEW wr \in BOOLEAN, access_hit(a, wr) \/ access_miss(a, wr)
    PROVE  CountersAgree'
<1> DEFINE total == Total(inst_perf)
           hit == IsHit(l1d, l1_slots, a)
           out == NeedsWriteback(l1d, l1_slots, a)
<1>1. /\ l1_stats.accesses = l1_stats.hits + l1_stats.misses
      /\ l2_stats.accesses = l1_stats.misses + l1_stats.writebacks
      /\ perf = [dcache_accesses |-> memory_accesses, dcache_misses |-> l1_stats.misses,
                 l2_accesses |-> l2_stats.accesses, l2_misses |-> l2_stats.misses]
      /\ l1_stats.misses = current.l1 + total
  BY SumIsTotal DEF CountersAgree
<1>2. /\ l1_stats \in StatsType /\ l2_stats \in StatsType /\ current.l1 \in Nat
      /\ memory_accesses \in Nat
  BY DEF CounterType, TypeOK
<1>3. total \in Nat
  <2>1. Pcs # {}
    BY DEF access_hit, access_miss, TypeOK
  <2>2. PICK p \in Pcs : TRUE
    BY <2>1
  <2>3. inst_perf \in PerfType
    BY DEF CounterType
  <2> QED BY <2>2, <2>3, TotalCharged DEF PerfType
<1>4. /\ inst_perf' = inst_perf /\ memory_accesses' = memory_accesses + 1
      /\ l1_stats' = Count(l1_stats, l1d, l1_slots, a, wr)
      /\ perf' = [dcache_accesses |-> perf.dcache_accesses + 1,
                  dcache_misses |-> perf.dcache_misses + Bump(~hit),
                  l2_accesses |-> l2_stats'.accesses, l2_misses |-> l2_stats'.misses]
      /\ current'.l1 = current.l1 + Bump(~hit)
  <2>1. /\ inst_perf' = inst_perf /\ memory_accesses' = memory_accesses + 1
        /\ l1_stats' = Count(l1_stats, l1d, l1_slots, a, wr)
    BY DEF access_hit, access_miss, Charge
  <2>2. /\ perf' = [dcache_accesses |-> perf.dcache_accesses + 1,
                    dcache_misses |-> perf.dcache_misses + Bump(~hit),
                    l2_accesses |-> l2_stats'.accesses, l2_misses |-> l2_stats'.misses]
        /\ \E b, n : current' = [l1 |-> current.l1 + Bump(~hit), l2 |-> b, cycles |-> n]
    <3>1. CASE access_hit(a, wr)
      <4>1. (~hit) = FALSE /\ Charge(l1_hit_latency, FALSE, FALSE)
        BY <3>1, Zenon DEF access_hit
      <4> HIDE DEF hit
      <4> QED BY <4>1, Zenon DEF Charge
    <3>2. CASE access_miss(a, wr)
      <4>1. (~hit) = TRUE /\ \E n, b : Charge(n, TRUE, b)
        BY <3>2, Zenon DEF access_miss
      <4>2. PICK n, b : Charge(n, TRUE, b)
        BY <4>1
      <4> HIDE DEF hit
      <4> QED BY <4>1, <4>2, Zenon DEF Charge
    <3> QED BY <3>1, <3>2
  <2> QED BY <2>1, <2>2
<1>5. out => ~hit
  BY DEF NeedsWriteback, Evicts, IsHit
<1>6. l2_stats'.accesses = l2_stats.accesses + Bump(~hit) + Bump(out)
  <2>1. CASE access_hit(a, wr)
    BY <1>2, <1>5, <2>1 DEF access_hit, Bump, StatsType
  <2>2. CASE access_miss(a, wr)
    <3> DEFINE mid == cache_access(l2, l2_slots, a, wr)
               midst == Count(l2_stats, l2, l2_slots, a, wr)
               wba == writeback_addr(l1d, l1_slots, a)
    <3>1. ~hit /\ l2_stats' = IF out THEN Count(midst, mid, l2_slots, wba, TRUE) ELSE midst
      BY <2>2, Zenon DEF access_miss
    <3>2. midst.accesses = l2_stats.accesses + 1
      BY DEF Count
    <3> HIDE DEF midst, mid, wba
    <3>3. Count(midst, mid, l2_slots, wba, TRUE).accesses = midst.accesses + 1
      BY DEF Count
    <3>4. Bump(~hit) = 1 /\ (out => Bump(out) = 1) /\ (~out => Bump(out) = 0)
      BY <3>1, Zenon DEF Bump
    <3>5. l2_stats.accesses \in Nat
      BY <1>2 DEF StatsType
    <3>6. CASE out
      <4>1. l2_stats' = Count(midst, mid, l2_slots, wba, TRUE)
        BY <3>1, <3>6
      <4> QED BY <3>2, <3>3, <3>4, <3>5, <3>6, <4>1
    <3>7. CASE ~out
      <4>1. l2_stats' = midst
        BY <3>1, <3>7
      <4> QED BY <3>2, <3>4, <3>5, <3>7, <4>1
    <3> QED BY <3>6, <3>7
  <2> QED BY <2>1, <2>2
<1>7. /\ l1_stats'.accesses = l1_stats.accesses + 1
      /\ l1_stats'.hits = l1_stats.hits + Bump(hit)
      /\ l1_stats'.misses = l1_stats.misses + Bump(~hit)
      /\ l1_stats'.writebacks = l1_stats.writebacks + Bump(out)
  BY <1>4 DEF Count
<1>8. /\ l1_stats.accesses \in Nat /\ l1_stats.hits \in Nat /\ l1_stats.misses \in Nat
      /\ l1_stats.writebacks \in Nat /\ l2_stats.accesses \in Nat
  BY <1>2 DEF StatsType
<1>9. /\ Bump(hit) \in Nat /\ Bump(~hit) \in Nat /\ Bump(out) \in Nat
      /\ Bump(hit) + Bump(~hit) = 1
  BY DEF Bump
<1>10. /\ Sum(LAMBDA p : inst_perf[p].l1)' = Total(inst_perf')
  BY SumIsTotal
<1>11. Total(inst_perf') = total
  BY <1>4
<1> HIDE DEF total, hit, out
<1>12. /\ l1_stats'.accesses = l1_stats'.hits + l1_stats'.misses
       /\ l2_stats'.accesses = l1_stats'.misses + l1_stats'.writebacks
       /\ l1_stats'.misses = current'.l1 + total
  BY <1>1, <1>2, <1>3, <1>4, <1>6, <1>7, <1>8, <1>9
<1>13. perf' = [dcache_accesses |-> memory_accesses', dcache_misses |-> l1_stats'.misses,
                l2_accesses |-> l2_stats'.accesses, l2_misses |-> l2_stats'.misses]
  BY <1>1, <1>4, <1>7
<1> QED BY <1>10, <1>11, <1>12, <1>13 DEF CountersAgree

\* The counters of the levels, of the processor and of the instructions agree for
\* any number of instructions and any sizes: each miss is charged once, also when
\* instructions trap, are restarted or leave without update_dcache_stats.
THEOREM CacheCountersAgree == Spec => []CountersAgree
<1>1. Init => CounterType /\ CountersAgree
  <2> SUFFICES ASSUME Init PROVE CounterType /\ CountersAgree
    OBVIOUS
  <2>1. CounterType /\ \A p \in Pcs : inst_perf[p].l1 = 0
    BY DEF Init, CounterType, NoStats, StatsType, Nothing, PerfType
  <2>2. Total(inst_perf) = 0
    BY <2>1, TotalOfNothing DEF CounterType
  <2>3. Sum(LAMBDA p : inst_perf[p].l1) = 0
    BY <2>2, SumIsTotal
  <2> QED BY <2>1, <2>3 DEF Init, CountersAgree, NoStats, Nothing, NoPerf
<1>2. TypeOK /\ CounterType /\ CountersAgree /\ [Next]_vars => CountersAgree'
  <2> SUFFICES ASSUME TypeOK, CounterType, CountersAgree, [Next]_vars PROVE CountersAgree'
    OBVIOUS
  <2>1. CASE \E a \in Lines, wr \in BOOLEAN : access_hit(a, wr) \/ access_miss(a, wr)
    BY <2>1, AccessCounts
  <2>2. CASE retire
    <3>1. /\ insn \in Pcs /\ l1_stats' = l1_stats /\ l2_stats' = l2_stats
          /\ memory_accesses' = memory_accesses /\ perf' = perf /\ current'.l1 = 0
          /\ inst_perf' = [inst_perf EXCEPT ![insn] =
                             [executions |-> inst_perf[insn].executions + 1,
                              l1 |-> inst_perf[insn].l1 + current.l1,
                              l2 |-> inst_perf[insn].l2 + current.l2,
                              cycles |-> inst_perf[insn].cycles + 1 + current.cycles]]
      BY <2>2 DEF retire, update_dcache_stats, TypeOK, cacheVars, Nothing
    <3>2. inst_perf \in PerfType /\ inst_perf' \in PerfType /\ current.l1 \in Nat
      BY CounterTypeStep DEF CounterType
    <3>3. /\ inst_perf'[insn].l1 = inst_perf[insn].l1 + current.l1
          /\ \A p \in Pcs \ {insn} : inst_perf'[p].l1 = inst_perf[p].l1
      BY <3>1, <3>2 DEF PerfType
    <3>4. Total(inst_perf) \in Nat /\ Total(inst_perf') = Total(inst_perf) + current.l1
      <4>1. PICK iq \in PerfType : iq = inst_perf'
        BY <3>2
      <4>2. PICK ip \in PerfType : ip = inst_perf
        BY <3>2
      <4>3. PICK q \in Pcs : q = insn
        BY <3>1
      <4>4. PICK d \in Nat : d = current.l1
        BY <3>2
      <4>5. iq[q].l1 = ip[q].l1 + d /\ \A p \in Pcs \ {q} : iq[p].l1 = ip[p].l1
        BY <3>3, <4>1, <4>2, <4>3, <4>4
      <4>6. Total(ip) \in Nat /\ Total(iq) = Total(ip) + d
        BY <4>5, TotalCharged
      <4> QED BY <4>1, <4>2, <4>4, <4>6
    <3>5. Sum(LAMBDA p : inst_perf[p].l1)' = Total(inst_perf')
      BY SumIsTotal
    <3>6. l1_stats.misses = current.l1 + Total(inst_perf)
      BY SumIsTotal DEF CountersAgree
    <3>7. l1_stats'.misses = current'.l1 + Total(inst_perf')
      BY <3>1, <3>2, <3>4, <3>6
    <3>8. /\ l1_stats'.accesses = l1_stats'.hits + l1_stats'.misses
          /\ l2_stats'.accesses = l1_stats'.misses + l1_stats'.writebacks
          /\ perf' = [dcache_accesses |-> memory_accesses', dcache_misses |-> l1_stats'.misses,
                      l2_accesses |-> l2_stats'.accesses, l2_misses |-> l2_stats'.misses]
      BY <3>1 DEF CountersAgree
    <3> QED BY <3>5, <3>7, <3>8 DEF CountersAgree
  <2>3. CASE (\E p \in Pcs : begin(p)) \/ escape \/ UNCHANGED vars
    <3>1. /\ inst_perf' = inst_perf /\ current' = current /\ perf' = perf
          /\ l1_stats' = l1_stats /\ l2_stats' = l2_stats /\ memory_accesses' = memory_accesses
      BY <2>3 DEF begin, escape, vars, cacheVars
    <3>2. Sum(LAMBDA p : inst_perf[p].l1)' = Total(inst_perf')
      BY SumIsTotal
    <3>3. Sum(LAMBDA p : inst_perf[p].l1) = Total(inst_perf)
      BY SumIsTotal
    <3> QED BY <3>1, <3>2, <3>3 DEF CountersAgree
  <2> QED BY <2>1, <2>2, <2>3 DEF Next
<1>3. TypeOK /\ CounterType /\ [Next]_vars => CounterType'
  BY CounterTypeStep
<1> QED BY <1>1, <1>2, <1>3, CacheTypeCorrect, PTL DEF Spec

=============================================================================
