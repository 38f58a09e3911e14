------------------------------ MODULE MmuProofs ------------------------------
(***************************************************************************)
(* Proofs about the MMU and what it asks of the PMP and the triggers.       *)
(***************************************************************************)
EXTENDS Mmu, TLAPS, WellFoundedInduction

-----------------------------------------------------------------------------
(* Arithmetic of pages and regions.                                        *)

\* Division with remainder.
LEMMA DivMod ==
    ASSUME NEW x \in Nat, NEW n \in Nat \ {0}
    PROVE  \E d \in Nat, e \in 0 .. n - 1 : d = x \div n /\ e = x % n /\ x = n * d + e
OBVIOUS

\* Division with remainder determines the quotient.
LEMMA Quotient ==
    ASSUME NEW x \in Nat, NEW n \in Nat \ {0}, NEW q \in Nat, NEW t \in 0 .. n - 1, x = n * q + t
    PROVE  x \div n = q
<1>1. PICK d \in Nat, e \in 0 .. n - 1 : d = x \div n /\ x = n * d + e
  BY DivMod
<1>2. n * (q - d) = e - t
  BY <1>1
<1>3. q - d < 1
  <2>1. SUFFICES ASSUME q - d >= 1 PROVE FALSE
    OBVIOUS
  <2>2. n * (q - d) >= n
    BY <2>1
  <2> QED BY <1>2, <2>2
<1>4. d - q < 1
  <2>1. SUFFICES ASSUME d - q >= 1 PROVE FALSE
    OBVIOUS
  <2>2. n * (d - q) >= n
    BY <2>1
  <2>3. n * (d - q) = t - e
    BY <1>2
  <2> QED BY <2>2, <2>3
<1>5. d = q
  BY <1>3, <1>4
<1> QED BY <1>1, <1>5

\* Dividing twice is dividing by the product.
LEMMA DivDiv ==
    ASSUME NEW a \in Nat, NEW n \in Nat \ {0}, NEW m \in Nat \ {0}
    PROVE  a \div (n * m) = (a \div n) \div m
<1>1. PICK q \in Nat, r \in 0 .. n - 1 : q = a \div n /\ a = n * q + r
  BY DivMod
<1>2. PICK u \in Nat, v \in 0 .. m - 1 : u = q \div m /\ q = m * u + v
  BY DivMod
<1>3. n * m \in Nat \ {0}
  OBVIOUS
<1>4. n * v + r \in 0 .. n * m - 1
  <2>1. n * v <= n * (m - 1)
    OBVIOUS
  <2>2. n * v >= 0
    OBVIOUS
  <2>3. n * (m - 1) = n * m - n
    OBVIOUS
  <2> QED BY <1>3, <2>1, <2>2, <2>3
<1>5. a = (n * m) * u + (n * v + r)
  <2>1. n * q = n * (m * u) + n * v
    BY <1>2
  <2>2. n * (m * u) = (n * m) * u
    OBVIOUS
  <2>3. (n * m) * u \in Nat /\ n * v \in Nat /\ n * q \in Nat
    OBVIOUS
  <2> DEFINE nq == n * q
             nv == n * v
             nmu == (n * m) * u
  <2>4. a = nq + r /\ nq = nmu + nv /\ nq \in Nat /\ nv \in Nat /\ nmu \in Nat
    BY <1>1, <2>1, <2>2, <2>3
  <2> HIDE DEF nq, nv, nmu
  <2>5. a = nmu + (nv + r)
    BY <2>4
  <2> QED BY <2>5 DEF nmu, nv
<1>6. a \div (n * m) = u
  BY <1>3, <1>4, <1>5, Quotient
<1> QED BY <1>1, <1>2, <1>6

\* A divisor fits a whole number of times.
LEMMA Divisor ==
    ASSUME NEW a \in Nat \ {0}, NEW b \in Nat \ {0}, a % b = 0
    PROVE  \E m \in Nat \ {0} : a = b * m
<1>1. PICK m \in Nat, e \in 0 .. b - 1 : e = a % b /\ a = b * m + e
  BY DivMod
<1>2. a = b * m
  BY <1>1
<1>3. m # 0
  BY <1>2
<1> QED BY <1>2, <1>3

\* The sectors of a page have its number.
LEMMA PageOf ==
    ASSUME NEW page \in Nat, NEW o \in 0 .. PageSectors - 1
    PROVE  /\ AddrOf(page, o) \in Nat
           /\ AddrOf(page, o) \div PageSectors = page
<1>1. PageSectors \in Nat \ {0}
  BY PmpAssumption
<1>2. page * PageSectors \in Nat /\ page * PageSectors = PageSectors * page
  BY <1>1
<1>3. AddrOf(page, o) \in Nat /\ AddrOf(page, o) = PageSectors * page + o
  BY <1>1, <1>2 DEF AddrOf
<1> QED BY <1>1, <1>3, Quotient

-----------------------------------------------------------------------------
(* The PMP: what pmp_homogeneous promises of a page.                       *)

\* A nonempty set of entries has a first one.
LEMMA FirstEntry ==
    ASSUME NEW S \in SUBSET Entry, S # {}
    PROVE  Min(S) \in S /\ \A n \in S : Min(S) <= n
<1> DEFINE R == OpToRel(<, Nat)
<1>1. \A x, y \in Nat : y < x => <<y, x>> \in R
  BY Zenon DEF OpToRel
<1>2. IsWellFoundedOn(R, Nat)
  BY NatLessThanWellFounded
<1>3. S \subseteq Nat
  BY PmpAssumption DEF Entry
<1> HIDE DEF R
<1>4. PICK x \in S : \A y \in S : ~ (<<y, x>> \in R)
  BY <1>2, <1>3, WFMin
<1>5. ASSUME NEW y \in S PROVE x <= y
  <2>1. x \in Nat /\ y \in Nat
    BY <1>3
  <2>2. ~(y < x)
    BY <1>1, <1>4, <2>1, Zenon
  <2> QED BY <2>1, <2>2
<1> QED BY <1>5 DEF Min

\* The types an entry's region is computed from.
LEMMA RegionTypes ==
    ASSUME PmpType, NEW i \in Entry
    PROVE  /\ pmpaddr[i] \in Nat
           /\ tor_base(i) \in Nat
           /\ pmpcfg[i] \in Cfg
           /\ napot_size(i) \in Nat \ {0}
           /\ napot_size(i) % PageSectors = 0 \/ PageSectors % napot_size(i) = 0
<1>1. pmpaddr \in [Entry -> 0 .. AllOnes] /\ pmpcfg \in [Entry -> Cfg] /\ AllOnes \in Nat
  BY PageSizeAssumption DEF PmpType
<1> HIDE DEF AllOnes
<1>2. pmpaddr[i] \in 0 .. AllOnes /\ pmpaddr[i] \in Nat /\ pmpcfg[i] \in Cfg
  BY <1>1
<1>3. tor_base(i) \in Nat
  <2>1. CASE i = 0
    BY <2>1 DEF tor_base
  <2>2. CASE i # 0
    <3>1. i - 1 \in Entry
      BY <2>2, PmpAssumption DEF Entry
    <3> QED BY <1>1, <2>2, <3>1 DEF tor_base
  <2> QED BY <2>1, <2>2
<1>4. /\ NapotSize[pmpaddr[i]] \in Nat \ {0}
      /\ NapotSize[pmpaddr[i]] % PageSectors = 0 \/ PageSectors % NapotSize[pmpaddr[i]] = 0
  BY <1>2, PageSizeAssumption
<1>5. PageSectors % 1 = 0
  BY PmpAssumption
<1> QED BY <1>2, <1>3, <1>4, <1>5 DEF napot_size

\* An entry that pmp_homogeneous lets pass covers a page as a whole or not at all.
LEMMA SameMatch ==
    ASSUME PmpType, NEW i \in Entry, NEW page \in Nat, ~subset_match(i, page),
           NEW o \in 0 .. PageSectors - 1, NEW p \in 0 .. PageSectors - 1
    PROVE  match4(i, AddrOf(page, o)) = match4(i, AddrOf(page, p))
<1> DEFINE a == AddrOf(page, o)
           b == AddrOf(page, p)
           n == napot_size(i)
           x == pmpaddr[i]
           base == tor_base(i)
<1>0. PageSectors \in Nat \ {0}
  BY PmpAssumption
<1>1. a \in Nat /\ b \in Nat /\ a \div PageSectors = page /\ b \div PageSectors = page
  BY PageOf
<1>2. /\ x \in Nat /\ base \in Nat /\ n \in Nat \ {0}
      /\ n % PageSectors = 0 \/ PageSectors % n = 0
      /\ pmpcfg[i].a \in {"off", "tor", "na4", "napot"}
  BY RegionTypes DEF Cfg
<1>3. CASE pmpcfg[i].a = "off"
  BY <1>3 DEF match4
<1>4. CASE pmpcfg[i].a = "tor"
  <2> DEFINE start == page * PageSectors
  <2>1. /\ start \in Nat /\ a = start + o /\ b = start + p /\ AddrOf(page, 0) = start
    BY <1>0 DEF AddrOf
  <2>2. ASSUME NEW y \in Nat, page < y \div PageSectors
        PROVE  start + PageSectors <= y
    <3>1. PICK d \in Nat, e \in 0 .. PageSectors - 1 :
              d = y \div PageSectors /\ y = PageSectors * d + e
      BY <1>0, DivMod
    <3>2. page + 1 <= d
      BY <2>2, <3>1
    <3>3. PageSectors * (page + 1) <= PageSectors * d
      BY <1>0, <3>2
    <3>4. PageSectors * (page + 1) = start + PageSectors
      BY <1>0
    <3> QED BY <1>0, <3>1, <3>3, <3>4
  <2> HIDE DEF start
  <2>3. \/ page < base \div PageSectors
        \/ start >= x
        \/ start >= base /\ page < x \div PageSectors
    BY <1>4, <2>1 DEF subset_match
  <2>4. match4(i, a) = (base <= a /\ a < x) /\ match4(i, b) = (base <= b /\ b < x)
    BY <1>4 DEF match4
  <2>5. \/ start + PageSectors <= base
        \/ start >= x
        \/ start >= base /\ start + PageSectors <= x
    BY <1>2, <2>2, <2>3
  <2> HIDE DEF a, b, x, base
  <2>6. (base <= a /\ a < x) <=> (base <= b /\ b < x)
    BY <1>0, <1>2, <2>1, <2>5
  <2> QED BY <2>4, <2>6 DEF a, b
<1>5. CASE pmpcfg[i].a \in {"na4", "napot"}
  <2>1. match4(i, a) = (a \div n = x \div n) /\ match4(i, b) = (b \div n = x \div n)
    BY <1>5 DEF match4
  <2>2. n >= PageSectors \/ page # x \div PageSectors
    BY <1>5 DEF subset_match
  <2> HIDE DEF a, b, x, n
  <2>0. n \in Nat \ {0} /\ x \in Nat
    BY <1>2
  <2>d. \A k \in Nat \ {0} : PageSectors % k = 0 => \E m \in Nat \ {0} : PageSectors = k * m
    BY <1>0, Divisor
  <2>3. CASE n % PageSectors = 0
    <3>0. \A k \in Nat \ {0} : k % PageSectors = 0 => \E m \in Nat \ {0} : k = PageSectors * m
      BY <1>0, Divisor
    <3>1. PICK m \in Nat \ {0} : n = PageSectors * m
      BY <2>0, <2>3, <3>0
    <3>2. /\ a \div (PageSectors * m) = (a \div PageSectors) \div m
          /\ b \div (PageSectors * m) = (b \div PageSectors) \div m
      BY <1>0, <1>1, DivDiv, Zenon
    <3>3. a \div n = page \div m /\ b \div n = page \div m
      BY <1>1, <3>1, <3>2
    <3> QED BY <2>1, <3>3 DEF a, b
  <2>4. CASE PageSectors % n = 0 /\ page # x \div PageSectors
    <3>1. PICK m \in Nat \ {0} : PageSectors = n * m
      BY <1>0, <2>0, <2>4, <2>d, Zenon
    <3>2. /\ a \div (n * m) = (a \div n) \div m
          /\ b \div (n * m) = (b \div n) \div m
          /\ x \div (n * m) = (x \div n) \div m
      BY <1>1, <2>0, DivDiv, Zenon
    <3>3. a \div n # x \div n /\ b \div n # x \div n
      BY <1>1, <2>4, <3>1, <3>2
    <3> QED BY <2>1, <3>3 DEF a, b
  <2>5. CASE PageSectors % n = 0 /\ n >= PageSectors
    <3>1. PICK m \in Nat \ {0} : PageSectors = n * m
      BY <1>0, <2>0, <2>5, <2>d, Zenon
    <3>2. n = PageSectors
      BY <1>0, <1>2, <2>5, <3>1
    <3> QED BY <1>1, <2>1, <3>2 DEF a, b
  <2> QED BY <1>2, <2>2, <2>3, <2>4, <2>5
<1> QED BY <1>2, <1>3, <1>4, <1>5

\* What pmp_ok grants one access to a homogeneous page it grants every access
\* that stays in the page.
LEMMA PageAlike ==
    ASSUME PmpType, NEW page \in Nat, pmp_homogeneous(page), NEW type, NEW mode,
           NEW o \in 0 .. PageSectors - 1, NEW len \in Nat \ {0},
           pmp_ok(AddrOf(page, o), len, type, mode),
           NEW p \in 0 .. PageSectors - 1, NEW len2 \in Nat \ {0}, p + len2 <= PageSectors
    PROVE  pmp_ok(AddrOf(page, p), len2, type, mode)
<1> DEFINE a == AddrOf(page, o)
           b == AddrOf(page, p)
           span == a .. a + len - 1
           span2 == b .. b + len2 - 1
           m == {i \in Entry : \E x \in span : match4(i, x)}
           m2 == {i \in Entry : \E x \in span2 : match4(i, x)}
<1>1. a \in span /\ b \in span2
  BY PageOf
<1>2. ASSUME NEW x \in span2, NEW i \in Entry PROVE match4(i, x) = match4(i, a)
  <2>1. PICK q \in 0 .. PageSectors - 1 : x = AddrOf(page, q)
    <3> DEFINE start == page * PageSectors
    <3>1. start \in Nat /\ b = start + p /\ PageSectors \in Nat
      BY PmpAssumption DEF AddrOf
    <3> HIDE DEF start, b
    <3>2. x - start \in 0 .. PageSectors - 1 /\ x = start + (x - start)
      BY <3>1
    <3> QED BY <3>2 DEF AddrOf, start
  <2>2. ~subset_match(i, page)
    BY DEF pmp_homogeneous
  <2> QED BY <2>1, <2>2, SameMatch
<1> HIDE DEF a, b
<1>3. m \in SUBSET Entry /\ m2 \in SUBSET Entry
  OBVIOUS
<1>4. m2 = {i \in Entry : match4(i, a)}
  BY <1>1, <1>2
<1>5. m2 \subseteq m
  BY <1>1, <1>4
<1>6. CASE m = {}
  <2>1. m2 = {}
    BY <1>5, <1>6
  <2> QED BY <1>6, <2>1 DEF pmp_ok, a, b
<1>7. CASE m # {}
  <2>1. /\ Min(m) \in m
        /\ \A x \in span : match4(Min(m), x)
        /\ access_ok(Min(m), type, mode)
    <3>1. /\ \A x \in span : match4(Min(m), x)
          /\ access_ok(Min(m), type, mode)
      BY <1>7 DEF pmp_ok, a
    <3>2. Min(m) \in m
      BY <1>3, <1>7, FirstEntry
    <3> QED BY <3>1, <3>2
  <2> HIDE DEF m, m2, span, span2
  <2>2. Min(m) \in m2
    BY <1>1, <1>3, <1>4, <2>1
  <2>3. Min(m2) \in m2 /\ Min(m2) <= Min(m) /\ Min(m) <= Min(m2)
    BY <1>3, <1>5, <1>7, <2>2, FirstEntry
  <2>4. Min(m2) = Min(m)
    <3>1. Min(m) \in Int /\ Min(m2) \in Int
      <4>1. Min(m) \in Entry /\ Min(m2) \in Entry
        BY <1>3, <2>1, <2>3, Zenon
      <4> QED BY <4>1, PmpAssumption DEF Entry
    <3> QED BY <2>3, <3>1
  <2>5. \A x \in span2 : match4(Min(m2), x)
    <3>1. match4(Min(m2), a) /\ Min(m2) \in Entry
      BY <1>4, <2>3
    <3>2. \A x \in span2 : match4(Min(m2), x) = match4(Min(m2), a)
      BY <1>2, <3>1, Zenon
    <3> QED BY <3>1, <3>2
  <2>6. m2 # {} /\ access_ok(Min(m2), type, mode)
    BY <2>1, <2>3, <2>4
  <2> QED BY <2>5, <2>6 DEF pmp_ok, m2, span2, b
<1> QED BY <1>6, <1>7

-----------------------------------------------------------------------------
(* The inductive invariant.                                                *)

TagType == {NoTag} \cup [vpn : Vpn, check : BOOLEAN]

TlbType    == [0 .. TLB_ENTRIES - 1 -> [tag : [Operations -> TagType], ppn : Nat]]
IcacheType == [0 .. ICACHE_ENTRIES - 1 -> Vas \cup {None}]
CacheType  == tlb \in TlbType /\ icache \in IcacheType

\* The tags' flags are right because check_triggers is what the triggers watch,
\* and refills are right because the page table is one.
MmuIInv ==
    /\ PmpType
    /\ pt \in [Vpn -> PteType]
    /\ CacheType
    /\ check_triggers = UNION {triggers[i].ops : i \in TIndex}
    /\ CachesTransparent

\* The PMP answers the same while none of its registers changes.
LEMMA PmpStable ==
    ASSUME UNCHANGED pmpVars
    PROVE  \A s, len, type, mode : pmp_ok(s, len, type, mode)' <=> pmp_ok(s, len, type, mode)
<1>0. pmpaddr' = pmpaddr /\ pmpcfg' = pmpcfg /\ mseccfg' = mseccfg
  BY DEF pmpVars
<1>1. \A i, s : match4(i, s)' <=> match4(i, s)
  BY <1>0 DEF match4, napot_size, tor_base
<1> SUFFICES ASSUME NEW s, NEW len, NEW type, NEW mode
             PROVE  pmp_ok(s, len, type, mode)' <=> pmp_ok(s, len, type, mode)
  OBVIOUS
<1> DEFINE m == {i \in Entry : \E a \in s .. s + len - 1 : match4(i, a)}
<1>3. m' = m
  BY <1>1
<1> DEFINE f == Min(m)
<1>4. f' = f
  BY <1>3
<1>5. (\A a \in s .. s + len - 1 : match4(f, a))' <=> \A a \in s .. s + len - 1 : match4(f, a)
  <2> HIDE DEF f, m
  <2>1. ASSUME NEW a PROVE match4(f, a)' <=> match4(f, a)
    BY <1>0, <1>4 DEF match4, napot_size, tor_base
  <2> QED BY <2>1
<1>6. access_ok(f, type, mode)' <=> access_ok(f, type, mode)
  <2> HIDE DEF f, m
  <2> QED BY <1>0, <1>4 DEF access_ok
<1> DEFINE ok == IF m # {} THEN /\ \A a \in s .. s + len - 1 : match4(f, a)
                                /\ access_ok(f, type, mode)
                 ELSE mode = PRV_M /\ ~mseccfg.mmwp /\ (mseccfg.mml => type # "fetch")
<1>7. pmp_ok(s, len, type, mode) <=> ok
  BY DEF pmp_ok
<1>8. pmp_ok(s, len, type, mode)' <=> ok'
  BY DEF pmp_ok
<1> HIDE DEF m, f
<1> QED BY <1>0, <1>3, <1>5, <1>6, <1>7, <1>8

\* The entry with_ad returns.
LEMMA AdFields ==
    ASSUME NEW pte \in PteType, NEW type
    PROVE  LET new == with_ad(pte, type)
           IN  /\ new \in PteType
               /\ new.v = pte.v /\ new.ppn = pte.ppn /\ new.u = pte.u
               /\ new.r = pte.r /\ new.w = pte.w /\ new.x = pte.x
               /\ new.a = TRUE
               /\ new.d = (pte.d \/ type = "store")
<1>1. (pte.d \/ type = "store") \in BOOLEAN
  OBVIOUS
<1> DEFINE dirty == pte.d \/ type = "store"
           marked == [pte EXCEPT !.a = TRUE]
<1>2. /\ marked \in PteType /\ marked.d = pte.d
      /\ marked.v = pte.v /\ marked.ppn = pte.ppn /\ marked.u = pte.u
      /\ marked.r = pte.r /\ marked.w = pte.w /\ marked.x = pte.x
      /\ marked.a = TRUE
  BY DEF PteType
<1>3. with_ad(pte, type) = [marked EXCEPT !.d = dirty]
  BY <1>2 DEF with_ad
<1> HIDE DEF dirty, marked
<1>4. [marked EXCEPT !.d = dirty] \in PteType
  BY <1>1, <1>2 DEF PteType, dirty
<1> QED BY <1>2, <1>3, <1>4 DEF PteType, dirty

\* Setting the accessed and dirty bits leaves what a walk grants.
LEMMA AdKeeps ==
    ASSUME NEW pte \in PteType, NEW type, NEW other, NEW mode
    PROVE  /\ with_ad(pte, type) \in PteType
           /\ with_ad(pte, type).ppn = pte.ppn
           /\ pte_legal(with_ad(pte, type), other, mode) <=> pte_legal(pte, other, mode)
           /\ with_ad(with_ad(pte, type), type) = with_ad(pte, type)
           /\ with_ad(pte, other) = pte
                => with_ad(with_ad(pte, type), other) = with_ad(pte, type)
<1> DEFINE new == with_ad(pte, type)
<1>1. /\ new \in PteType
      /\ new.v = pte.v /\ new.ppn = pte.ppn /\ new.u = pte.u
      /\ new.r = pte.r /\ new.w = pte.w /\ new.x = pte.x
      /\ new.a = TRUE
      /\ new.d = (pte.d \/ type = "store")
  BY AdFields
<1> HIDE DEF new
<1>2. pte_legal(new, other, mode) <=> pte_legal(pte, other, mode)
  BY <1>1 DEF pte_legal
<1>3. ASSUME NEW t, t = "store" => new.d PROVE with_ad(new, t) = new
  <2> DEFINE p == with_ad(new, t)
  <2>1. /\ p \in PteType
        /\ p.v = new.v /\ p.ppn = new.ppn /\ p.u = new.u
        /\ p.r = new.r /\ p.w = new.w /\ p.x = new.x
        /\ p.a = TRUE
        /\ p.d = (new.d \/ t = "store")
    <3>1. new \in PteType
      BY <1>1
    <3> QED BY <3>1, AdFields, Zenon
  <2> HIDE DEF p
  <2>2. p.d = new.d /\ p.a = new.a
    BY <1>1, <1>3, <2>1 DEF PteType
  <2>3. p = new
    BY <1>1, <2>1, <2>2 DEF PteType
  <2> QED BY <2>3 DEF p
<1>4. type = "store" => new.d
  BY <1>1
<1>5. with_ad(pte, other) = pte => (other = "store" => new.d)
  <2>1. with_ad(pte, other).d = (pte.d \/ other = "store")
    BY AdFields, Zenon
  <2> QED BY <1>1, <2>1
<1> QED BY <1>1, <1>2, <1>3, <1>4, <1>5 DEF new

\* What else a walk may have done to the page table.
Walked ==
    \/ pt' = pt
    \/ \E type \in Operations, vpn \in Vpn : \E mode : pt' = walk_pt(type, vpn, mode)

\* An entry that is what it was but for the accessed and dirty bits.
Marked(v) == \E type \in Operations : pt'[v] = pt[v] \/ pt'[v] = with_ad(pt[v], type)

\* A walk leaves a page table, and each of its entries is what it was but for the
\* accessed and dirty bits.
LEMMA WalkedPt ==
    ASSUME pt \in [Vpn -> PteType], Walked
    PROVE  /\ pt' \in [Vpn -> PteType]
           /\ \A v \in Vpn : Marked(v)
<1>1. CASE pt' = pt
  BY <1>1 DEF Operations, Marked
<1>2. CASE pt' # pt
  <2>1. PICK type \in Operations, vpn \in Vpn : \E mode : pt' = walk_pt(type, vpn, mode)
    BY <1>2 DEF Walked
  <2>2. pt' = [pt EXCEPT ![vpn] = with_ad(pt[vpn], type)]
    BY <1>2, <2>1 DEF walk_pt
  <2>3. with_ad(pt[vpn], type) \in PteType
    BY AdKeeps
  <2>4. pt' \in [Vpn -> PteType]
    BY <2>2, <2>3
  <2>5. \A v \in Vpn : pt'[v] = pt[v] \/ pt'[v] = with_ad(pt[v], type)
    BY <2>2
  <2> QED BY <2>4, <2>5 DEF Marked
<1> QED BY <1>1, <1>2

\* What a walk grants stays granted when another walk marks an entry.
LEMMA WalkStable ==
    ASSUME pt \in [Vpn -> PteType], UNCHANGED <<pmpVars, hartVars>>,
           NEW t, NEW v \in Vpn, Marked(v), NEW m
    PROVE  /\ walk_ok(t, v, m) => walk_ok(t, v, m)'
           /\ walk_ppn(v, m)' = walk_ppn(v, m)
<1>1. satp' = satp /\ mstatus' = mstatus
  BY DEF hartVars
<1>2. PICK type \in Operations : pt'[v] = pt[v] \/ pt'[v] = with_ad(pt[v], type)
  BY DEF Marked
<1>3. translated(m)' <=> translated(m)
  BY <1>1 DEF translated
<1>4. pt[v] \in PteType
  OBVIOUS
<1>5. pt'[v].ppn = pt[v].ppn
  BY <1>2, <1>4, AdKeeps
<1>6. pte_legal(pt[v], t, m)' <=> pte_legal(pt[v], t, m)
  <2>1. pte_legal(pt'[v], t, m) <=> pte_legal(pt[v], t, m)
    BY <1>2, <1>4, AdKeeps
  <2>2. pte_legal(pt[v], t, m)' <=> pte_legal(pt'[v], t, m)
    BY <1>1 DEF pte_legal
  <2> QED BY <2>1, <2>2
<1>7. with_ad(pt[v], t) = pt[v] => with_ad(pt'[v], t) = pt'[v]
  BY <1>2, <1>4, AdKeeps
<1>8. with_ad(pt[v], t)' = with_ad(pt'[v], t)
  BY DEF with_ad
<1>9. /\ pmp_ok(PteAddr(v), 1, "load", PRV_S)' <=> pmp_ok(PteAddr(v), 1, "load", PRV_S)
      /\ pmp_ok(PteAddr(v), 1, "store", PRV_S)' <=> pmp_ok(PteAddr(v), 1, "store", PRV_S)
  BY PmpStable
<1>10. walk_ppn(v, m)' = walk_ppn(v, m)
  BY <1>3, <1>5 DEF walk_ppn
<1>11. walk_ok(t, v, m) => walk_ok(t, v, m)'
  BY <1>3, <1>6, <1>7, <1>8, <1>9 DEF walk_ok
<1> QED BY <1>10, <1>11

\* So does what a translation grants, and the whole page.
LEMMA GrantedStable ==
    ASSUME pt \in [Vpn -> PteType], UNCHANGED <<pmpVars, hartVars>>, NEW t,
           NEW v \in Vpn, Marked(v)
    PROVE  /\ \A p : Granted(t, v, p) => Granted(t, v, p)'
           /\ \A va, len : VpnOf(va) = v => (translate_ok(va, len, t) => translate_ok(va, len, t)')
<1>1. effective_priv(t)' = effective_priv(t)
  BY DEF hartVars, effective_priv, in_mprv
<1> DEFINE mode == effective_priv(t)
<1>2. ASSUME NEW p, Granted(t, v, p) PROVE Granted(t, v, p)'
  <2>1. /\ walk_ok(t, v, mode) /\ walk_ppn(v, mode) = p
        /\ \A o \in 0 .. PageSectors - 1 : pmp_ok(AddrOf(p, o), 1, t, mode)
        /\ pmp_ok(AddrOf(p, 0), PageSectors, t, mode)
    BY <1>2 DEF Granted
  <2> HIDE DEF mode
  <2>2. mode' = mode
    BY <1>1 DEF mode
  <2>3. walk_ok(t, v, mode)' /\ walk_ppn(v, mode)' = p
    <3>1. \A m : (walk_ok(t, v, m) => walk_ok(t, v, m)') /\ walk_ppn(v, m)' = walk_ppn(v, m)
      BY WalkStable
    <3> QED BY <2>1, <2>2, <3>1
  <2>4. \A s, len : pmp_ok(s, len, t, mode) => pmp_ok(s, len, t, mode)'
    BY <2>2, PmpStable
  <2>5. /\ \A o \in 0 .. PageSectors - 1 : pmp_ok(AddrOf(p, o), 1, t, mode)'
        /\ pmp_ok(AddrOf(p, 0), PageSectors, t, mode)'
    BY <2>1, <2>4
  <2> QED BY <2>3, <2>5 DEF Granted, mode
<1>3. ASSUME NEW va, NEW len, VpnOf(va) = v, translate_ok(va, len, t)
      PROVE  translate_ok(va, len, t)'
  <2> DEFINE paddr == PaddrOf(va, mode)
  <2>1. walk_ok(t, VpnOf(va), mode) /\ pmp_ok(paddr, len, t, mode)
    BY <1>3 DEF translate_ok
  <2> HIDE DEF mode, paddr
  <2>2. mode' = mode
    BY <1>1 DEF mode
  <2>3. \A m : /\ walk_ok(t, VpnOf(va), m) => walk_ok(t, VpnOf(va), m)'
               /\ walk_ppn(VpnOf(va), m)' = walk_ppn(VpnOf(va), m)
    BY <1>3, WalkStable
  <2>4. walk_ok(t, VpnOf(va), mode)'
    BY <2>1, <2>2, <2>3
  <2>5. paddr' = paddr
    BY <2>2, <2>3 DEF paddr, PaddrOf
  <2>6. pmp_ok(paddr, len, t, mode)'
    BY <2>1, <2>2, <2>5, PmpStable
  <2> QED BY <2>4, <2>6 DEF translate_ok, mode, paddr
<1> QED BY <1>2, <1>3

\* An access that was granted to a homogeneous page grants the page.
LEMMA GrantPage ==
    ASSUME PmpType, pt \in [Vpn -> PteType], NEW va \in Nat, VpnOf(va) \in Vpn,
           NEW len \in Nat \ {0}, NEW type, translate_ok(va, len, type),
           pmp_homogeneous(walk_ppn(VpnOf(va), effective_priv(type)))
    PROVE  Granted(type, VpnOf(va), walk_ppn(VpnOf(va), effective_priv(type)))
<1> DEFINE mode == effective_priv(type)
           vpn == VpnOf(va)
           ppn == walk_ppn(vpn, mode)
           o == va % PageSectors
<1>0. PageSectors \in Nat \ {0}
  BY PmpAssumption
<1>1. o \in 0 .. PageSectors - 1
  BY <1>0
<1>2. ppn \in Nat
  BY MmuAssumption DEF walk_ppn, PteType
<1>3. walk_ok(type, vpn, mode) /\ pmp_ok(AddrOf(ppn, o), len, type, mode)
  BY DEF translate_ok, PaddrOf
<1>4. pmp_homogeneous(ppn)
  OBVIOUS
<1> HIDE DEF mode, vpn, ppn, o
<1>5. ASSUME NEW p \in 0 .. PageSectors - 1, NEW len2 \in Nat \ {0}, p + len2 <= PageSectors
      PROVE  pmp_ok(AddrOf(ppn, p), len2, type, mode)
  BY <1>1, <1>2, <1>3, <1>4, <1>5, PageAlike
<1>6. \A p \in 0 .. PageSectors - 1 : pmp_ok(AddrOf(ppn, p), 1, type, mode)
  BY <1>0, <1>5
<1>7. pmp_ok(AddrOf(ppn, 0), PageSectors, type, mode)
  BY <1>0, <1>5
<1> QED BY <1>3, <1>6, <1>7 DEF Granted, mode, vpn, ppn

\* A page that is granted grants the fetch of any of its sectors.
LEMMA GrantFetch ==
    ASSUME NEW va \in Nat, NEW type, NEW ppn, Granted(type, VpnOf(va), ppn)
    PROVE  translate_ok(va, 1, type)
<1>1. va % PageSectors \in 0 .. PageSectors - 1
  BY PmpAssumption
<1> QED BY <1>1 DEF Granted, translate_ok, PaddrOf

-----------------------------------------------------------------------------
(* The caches.                                                             *)

\* Contents of a TLB and of an instruction cache that say what the tables say now.
TlbFine(c) ==
    \A i \in 0 .. TLB_ENTRIES - 1, type \in Operations :
        c[i].tag[type] # NoTag =>
            /\ \/ c[i].tag[type].vpn \in edited
               \/ Granted(type, c[i].tag[type].vpn, c[i].ppn)
            /\ c[i].tag[type].check \/ \A k \in TIndex : type \notin triggers[k].ops

IcacheFine(c) ==
    \A i \in 0 .. ICACHE_ENTRIES - 1 :
        c[i] # None => VpnOf(c[i]) \in edited \/ translate_ok(c[i], 1, "fetch")

CachesFine == CacheType /\ TlbFine(tlb) /\ IcacheFine(icache)

\* The invariant in these terms.
LEMMA FineIsTransparent == CachesFine <=> CacheType /\ CachesTransparent
BY DEF CachesFine, TlbFine, IcacheFine, CachesTransparent, TlbTransparent, IcacheTransparent

\* The empty caches are of the right form.
LEMMA EmptyTypes == EmptyTlb \in TlbType /\ EmptyIcache \in IcacheType
BY DEF EmptyTlb, EmptyIcache, TlbType, IcacheType, TagType

\* After a flush nothing is cached.
LEMMA FlushFine == flush_tlb => CachesFine'
<1> SUFFICES ASSUME flush_tlb PROVE CachesFine'
  OBVIOUS
<1>1. tlb' = EmptyTlb /\ icache' = EmptyIcache
  BY DEF flush_tlb
<1>2. CacheType'
  BY <1>1, EmptyTypes DEF CacheType
<1>3. \A i \in 0 .. TLB_ENTRIES - 1, type \in Operations : tlb'[i].tag[type] = NoTag
  BY <1>1 DEF EmptyTlb
<1>4. \A i \in 0 .. ICACHE_ENTRIES - 1 : icache'[i] = None
  BY <1>1 DEF EmptyIcache
<1> QED BY <1>2, <1>3, <1>4 DEF CachesFine, TlbFine, IcacheFine

\* Contents that are right stay right while only walks, or edits that are noted,
\* change the tables.
LEMMA FineStable ==
    ASSUME pt \in [Vpn -> PteType], UNCHANGED <<pmpVars, hartVars, triggers>>,
           edited \subseteq edited', \A v \in Vpn : v \in edited' \/ Marked(v),
           NEW c \in TlbType, TlbFine(c), tlb' = c,
           NEW d \in IcacheType, IcacheFine(d), icache' = d
    PROVE  CachesFine'
<1>0. triggers' = triggers
  OBVIOUS
<1>1. ASSUME NEW i \in 0 .. TLB_ENTRIES - 1, NEW type \in Operations, c[i].tag[type] # NoTag
      PROVE  /\ \/ c[i].tag[type].vpn \in edited'
                \/ Granted(type, c[i].tag[type].vpn, c[i].ppn)'
             /\ c[i].tag[type].check \/ \A k \in TIndex : type \notin triggers'[k].ops
  <2>1. c[i].tag[type].vpn \in Vpn
    <3>1. c[i].tag[type] \in TagType
      BY DEF TlbType
    <3> QED BY <1>1, <3>1 DEF TagType
  <2>2. \/ c[i].tag[type].vpn \in edited'
        \/ Granted(type, c[i].tag[type].vpn, c[i].ppn) => Granted(type, c[i].tag[type].vpn, c[i].ppn)'
    BY <2>1, GrantedStable
  <2> QED BY <1>0, <1>1, <2>2 DEF TlbFine
<1>2. ASSUME NEW i \in 0 .. ICACHE_ENTRIES - 1, d[i] # None
      PROVE  VpnOf(d[i]) \in edited' \/ translate_ok(d[i], 1, "fetch")'
  <2>1. VpnOf(d[i]) \in Vpn
    <3>1. d[i] \in Vas
      BY <1>2 DEF IcacheType
    <3> QED BY <3>1, MmuAssumption DEF VpnOf
  <2>2. VpnOf(d[i]) \in edited' \/ (translate_ok(d[i], 1, "fetch") => translate_ok(d[i], 1, "fetch")')
    BY <2>1, GrantedStable
  <2> QED BY <1>0, <1>2, <2>2 DEF IcacheFine
<1>3. TlbFine(tlb)'
  BY <1>1 DEF TlbFine
<1>4. IcacheFine(icache)'
  BY <1>2 DEF IcacheFine
<1> QED BY <1>3, <1>4 DEF CachesFine, CacheType

\* A refill leaves a TLB that says what the tables say: the tags that stay are of
\* the page whose translation replaces the one before, which was the same.
LEMMA RefillFine ==
    ASSUME MmuIInv, NEW va \in Nat, VpnOf(va) \in Vpn, NEW len \in Nat \ {0},
           NEW type \in Operations, translate_ok(va, len, type),
           NEW ppn, ppn = walk_ppn(VpnOf(va), effective_priv(type)),
           NEW c, c = refill_tlb(type, VpnOf(va), ppn)
    PROVE  c \in TlbType /\ TlbFine(c)
<1> DEFINE vpn == VpnOf(va)
           i == Index(vpn)
           old == tlb[i].tag
           kept == [o \in Operations |-> IF old[o].vpn = vpn THEN old[o] ELSE NoTag]
           new == [vpn |-> vpn, check |-> type \in check_triggers]
           tags == IF pmp_homogeneous(ppn) THEN [kept EXCEPT ![type] = new] ELSE kept
<1>0. TlbFine(tlb) /\ tlb \in TlbType
  BY FineIsTransparent DEF MmuIInv, CacheType, CachesFine
<1>1. CASE in_mprv
  BY <1>0, <1>1 DEF refill_tlb
<1>2. CASE ~in_mprv
  <2>1. c = [tlb EXCEPT ![i] = [tag |-> tags, ppn |-> ppn]]
    BY <1>2 DEF refill_tlb
  <2>2. vpn \in Nat /\ i \in 0 .. TLB_ENTRIES - 1
    <3>1. vpn \in Nat /\ TLB_ENTRIES \in Nat \ {0}
      BY MmuAssumption
    <3> HIDE DEF vpn
    <3>2. vpn % TLB_ENTRIES \in 0 .. TLB_ENTRIES - 1
      BY <3>1
    <3> QED BY <3>1, <3>2 DEF Index
  <2>3. ppn \in Nat
    BY MmuAssumption DEF walk_ppn, PteType, MmuIInv
  <2>4. old \in [Operations -> TagType] /\ tlb[i].ppn \in Nat
    BY <1>0, <2>2 DEF TlbType
  <2>5. new \in TagType /\ NoTag \in TagType
    BY DEF TagType
  <2> HIDE DEF i, old, new
  <2>6. tags \in [Operations -> TagType]
    BY <2>4, <2>5
  <2>7. c \in TlbType
    BY <1>0, <2>1, <2>2, <2>3, <2>6 DEF TlbType
  <2>8. ASSUME NEW t \in Operations, tags[t] # NoTag
        PROVE  /\ tags[t].vpn \in edited \/ Granted(t, tags[t].vpn, ppn)
               /\ tags[t].check \/ \A k \in TIndex : t \notin triggers[k].ops
    <3>1. CASE pmp_homogeneous(ppn) /\ t = type
      <4>1. tags[t] = [vpn |-> vpn, check |-> type \in check_triggers]
        BY <3>1 DEF new
      <4>2. Granted(type, vpn, ppn)
        BY <3>1, GrantPage DEF MmuIInv
      <4>3. ASSUME type \notin check_triggers PROVE \A k \in TIndex : type \notin triggers[k].ops
        BY <4>3 DEF MmuIInv
      <4>4. tags[t].vpn = vpn /\ tags[t].check = (type \in check_triggers)
        BY <4>1
      <4> HIDE DEF tags, vpn
      <4> QED BY <3>1, <4>2, <4>3, <4>4
    <3>2. CASE ~(pmp_homogeneous(ppn) /\ t = type)
      <4>1. tags[t] = old[t] /\ old[t].vpn = vpn /\ old[t] # NoTag
        BY <2>8, <3>2
      <4>2. /\ vpn \in edited \/ Granted(t, vpn, tlb[i].ppn)
            /\ old[t].check \/ \A k \in TIndex : t \notin triggers[k].ops
        BY <1>0, <2>2, <4>1 DEF TlbFine, old
      <4>3. effective_priv(t) = effective_priv(type)
        BY <1>2 DEF effective_priv
      <4>4. Granted(t, vpn, tlb[i].ppn) => tlb[i].ppn = ppn
        BY <4>3 DEF Granted
      <4> QED BY <4>1, <4>2, <4>4
    <3> QED BY <3>1, <3>2
  <2> HIDE DEF tags
  <2>9. TlbFine(c)
    <3> SUFFICES ASSUME NEW j \in 0 .. TLB_ENTRIES - 1, NEW t \in Operations, c[j].tag[t] # NoTag
                 PROVE  /\ c[j].tag[t].vpn \in edited \/ Granted(t, c[j].tag[t].vpn, c[j].ppn)
                        /\ c[j].tag[t].check \/ \A k \in TIndex : t \notin triggers[k].ops
      BY DEF TlbFine
    <3>1. CASE j = i
      <4>1. c[j].tag = tags /\ c[j].ppn = ppn
        BY <1>0, <2>1, <2>2, <3>1 DEF TlbType
      <4> QED BY <2>8, <4>1
    <3>2. CASE j # i
      <4>1. c[j] = tlb[j]
        BY <1>0, <2>1, <3>2 DEF TlbType
      <4> QED BY <1>0, <4>1 DEF TlbFine
    <3> QED BY <3>1, <3>2
  <2> QED BY <2>7, <2>9
<1> QED BY <1>1, <1>2

\* The caches as they are, or the instruction cache flushed, after walks.
LEMMA KeptFine ==
    ASSUME MmuIInv, Walked, UNCHANGED <<pmpVars, hartVars, triggers, edited, tlb>>,
           icache' \in {icache, EmptyIcache}
    PROVE  CachesFine'
<1>0. pt \in [Vpn -> PteType] /\ CachesFine
  BY FineIsTransparent DEF MmuIInv
<1>1. \A v \in Vpn : Marked(v)
  BY <1>0, WalkedPt
<1>2. tlb \in TlbType /\ TlbFine(tlb) /\ icache \in IcacheType /\ IcacheFine(icache)
  BY <1>0 DEF CachesFine, CacheType
<1>3. EmptyIcache \in IcacheType /\ IcacheFine(EmptyIcache)
  BY EmptyTypes DEF IcacheFine, EmptyIcache
<1>4. PICK c : c = tlb
  OBVIOUS
<1>5. PICK d \in IcacheType : icache' = d /\ IcacheFine(d)
  BY <1>2, <1>3
<1>6. c \in TlbType /\ TlbFine(c) /\ tlb' = c
  BY <1>2, <1>4
<1>7. edited \subseteq edited'
  OBVIOUS
<1>8. \A v \in Vpn : v \in edited' \/ Marked(v)
  BY <1>1
<1> QED BY <1>0, <1>5, <1>6, <1>7, <1>8, FineStable

\* A trap flushes, or in debug mode leaves everything.
LEMMA TrapFine ==
    ASSUME MmuIInv, Walked, UNCHANGED <<pmpVars, triggers>>, take_trap \/ enter_debug_mode
    PROVE  CachesFine'
<1>1. CASE flush_tlb
  BY <1>1, FlushFine
<1>2. CASE UNCHANGED <<hartVars, tlb, icache, edited>>
  BY <1>2, KeptFine
<1> QED BY <1>1, <1>2 DEF take_trap, enter_debug_mode, set_privilege

\* So does the action of a trigger.
LEMMA TriggerFine ==
    ASSUME MmuIInv, Walked, UNCHANGED <<pmpVars, triggers>>, NEW t, take_trigger_action(t)
    PROVE  CachesFine'
BY TrapFine DEF take_trigger_action

\* A refill, with whatever happens to the instruction cache that leaves it right.
LEMMA RefilledFine ==
    ASSUME MmuIInv, Walked, UNCHANGED <<pmpVars, hartVars, triggers, edited>>,
           NEW va \in Nat, VpnOf(va) \in Vpn, NEW len \in Nat \ {0},
           NEW type \in Operations, translate_ok(va, len, type),
           tlb' = refill_tlb(type, VpnOf(va), walk_ppn(VpnOf(va), effective_priv(type))),
           icache' \in IcacheType, NEW d, icache' = d, IcacheFine(d)
    PROVE  CachesFine'
<1>0. pt \in [Vpn -> PteType]
  BY DEF MmuIInv
<1>1. \A v \in Vpn : v \in edited' \/ Marked(v)
  BY <1>0, WalkedPt
<1>2. PICK ppn : ppn = walk_ppn(VpnOf(va), effective_priv(type))
  OBVIOUS
<1>3. PICK c : c = refill_tlb(type, VpnOf(va), ppn)
  OBVIOUS
<1>4. tlb' = c
  BY <1>2, <1>3
<1>5. c \in TlbType /\ TlbFine(c)
  BY <1>2, <1>3, RefillFine
<1>6. edited \subseteq edited'
  OBVIOUS
<1> QED BY <1>0, <1>1, <1>4, <1>5, <1>6, FineStable

\* A line of the instruction cache filled with what may be fetched now.
LEMMA FilledFine ==
    ASSUME MmuIInv, NEW va \in Vas, VpnOf(va) \in edited \/ translate_ok(va, 1, "fetch"),
           NEW d, d = [icache EXCEPT ![va % ICACHE_ENTRIES] = va]
    PROVE  d \in IcacheType /\ IcacheFine(d)
<1>0. icache \in IcacheType /\ IcacheFine(icache)
  BY FineIsTransparent DEF MmuIInv, CachesFine, CacheType
<1>1. d \in IcacheType
  BY <1>0 DEF IcacheType
<1>2. ASSUME NEW i \in 0 .. ICACHE_ENTRIES - 1 PROVE d[i] = va \/ d[i] = icache[i]
  BY <1>0 DEF IcacheType
<1> QED BY <1>0, <1>1, <1>2 DEF IcacheFine

-----------------------------------------------------------------------------
(* The actions.                                                            *)

\* The addresses the hart uses have a page-table entry.
LEMMA Addresses == \A va \in Vas \cup LrScAddrs : va \in Nat /\ VpnOf(va) \in Vpn
BY MmuAssumption DEF VpnOf

\* An access changes no register of the PMP or the triggers: what is left to show
\* of it is that the caches are right after it.
LEMMA AccessInv ==
    ASSUME MmuIInv, Walked, CachesFine', UNCHANGED <<pmpVars, triggers, check_triggers>>
    PROVE  MmuIInv'
<1>1. PmpType'
  BY DEF MmuIInv, PmpType, pmpVars
<1>2. pt' \in [Vpn -> PteType]
  BY WalkedPt DEF MmuIInv
<1>3. (check_triggers = UNION {triggers[i].ops : i \in TIndex})'
  BY DEF MmuIInv
<1>4. (CacheType /\ CachesTransparent)'
  BY FineIsTransparent, PTL
<1> QED BY <1>1, <1>2, <1>3, <1>4 DEF MmuIInv

\* A fetch fills the instruction cache only with what may be fetched now.
LEMMA FetchInv ==
    ASSUME MmuIInv, NEW va \in Vas, fetch(va)
    PROVE  MmuIInv'
<1> DEFINE vpn == VpnOf(va)
           mode == effective_priv("fetch")
           i == va % ICACHE_ENTRIES
           hit == tag("fetch", vpn) = [vpn |-> vpn, check |-> FALSE]
           flagged == tag("fetch", vpn) = [vpn |-> vpn, check |-> TRUE]
           before == IF hit THEN {} ELSE detect("fetch", va)
<1>0. va \in Nat /\ vpn \in Vpn /\ vpn \in Nat
  BY Addresses, MmuAssumption
<1>1. UNCHANGED <<pmpVars, triggers, check_triggers>>
  BY DEF fetch
<1>2. \/ \E t \in before : take_trigger_action(t) /\ UNCHANGED pt
      \/ /\ hit \/ flagged
         /\ icache' = [icache EXCEPT ![i] = va]
         /\ UNCHANGED <<hartVars, pt, tlb, edited>>
      \/ /\ pt' = walk_pt("fetch", vpn, mode)
         /\ IF translate_ok(va, 1, "fetch")
            THEN /\ tlb' = refill_tlb("fetch", vpn, walk_ppn(vpn, mode))
                 /\ icache' = [icache EXCEPT ![i] = va]
                 /\ UNCHANGED <<hartVars, edited>>
            ELSE take_trap
  BY DEF fetch
<1> HIDE DEF before
<1>3. ASSUME NEW t \in before, take_trigger_action(t), UNCHANGED pt PROVE MmuIInv'
  <2>1. Walked
    BY <1>3 DEF Walked
  <2> QED BY <1>1, <1>3, <2>1, TriggerFine, AccessInv
<1>4. ASSUME hit \/ flagged, icache' = [icache EXCEPT ![i] = va],
             UNCHANGED <<hartVars, pt, tlb, edited>>
      PROVE  MmuIInv'
  <2>1. vpn \in edited \/ translate_ok(va, 1, "fetch")
    <3>1. Index(vpn) \in 0 .. TLB_ENTRIES - 1
      <4>1. TLB_ENTRIES \in Nat \ {0}
        BY MmuAssumption
      <4> QED BY <1>0, <4>1 DEF Index
    <3>2. TlbFine(tlb)
      BY FineIsTransparent DEF MmuIInv, CachesFine
    <3>3. tag("fetch", vpn).vpn = vpn /\ tag("fetch", vpn) # NoTag
      BY <1>0, <1>4 DEF NoTag, None
    <3>4. vpn \in edited \/ Granted("fetch", vpn, tlb[Index(vpn)].ppn)
      BY <3>1, <3>2, <3>3 DEF TlbFine, tag, Operations
    <3> QED BY <1>0, <3>4, GrantFetch
  <2>2. PICK d : d = [icache EXCEPT ![i] = va]
    OBVIOUS
  <2>3. d \in IcacheType /\ IcacheFine(d) /\ icache' = d
    BY <1>4, <2>1, <2>2, FilledFine
  <2>4. PICK c : c = tlb
    OBVIOUS
  <2>5. c \in TlbType /\ TlbFine(c) /\ tlb' = c
    BY <1>4, <2>4, FineIsTransparent DEF MmuIInv, CachesFine, CacheType
  <2>6. Walked
    BY <1>4 DEF Walked
  <2>7. pt \in [Vpn -> PteType]
    BY DEF MmuIInv
  <2>8. edited \subseteq edited' /\ \A v \in Vpn : v \in edited' \/ Marked(v)
    BY <1>4, <2>6, <2>7, WalkedPt
  <2>9. CachesFine'
    BY <1>1, <1>4, <2>3, <2>5, <2>7, <2>8, FineStable
  <2> QED BY <1>1, <2>6, <2>9, AccessInv
<1>5. ASSUME pt' = walk_pt("fetch", vpn, mode),
             IF translate_ok(va, 1, "fetch")
             THEN /\ tlb' = refill_tlb("fetch", vpn, walk_ppn(vpn, mode))
                  /\ icache' = [icache EXCEPT ![i] = va]
                  /\ UNCHANGED <<hartVars, edited>>
             ELSE take_trap
      PROVE  MmuIInv'
  <2>1. Walked
    BY <1>0, <1>5 DEF Walked, Operations
  <2>2. CASE translate_ok(va, 1, "fetch")
    <3>1. PICK d : d = [icache EXCEPT ![i] = va]
      OBVIOUS
    <3>2. d \in IcacheType /\ IcacheFine(d) /\ icache' = d
      BY <1>5, <2>2, <3>1, FilledFine
    <3>3. CachesFine'
      BY <1>0, <1>1, <1>5, <2>1, <2>2, <3>2, RefilledFine DEF Operations
    <3> QED BY <1>1, <2>1, <3>3, AccessInv
  <2>3. CASE ~translate_ok(va, 1, "fetch")
    BY <1>1, <1>5, <2>1, <2>3, TrapFine, AccessInv
  <2> QED BY <2>2, <2>3
<1> QED BY <1>2, <1>3, <1>4, <1>5

\* A load or store, on the slow path.
LEMMA SlowFine ==
    ASSUME MmuIInv, NEW va \in Nat, VpnOf(va) \in Vpn, NEW len \in {1, 2}, NEW type \in Operations,
           NEW special, slow_path(type, va, len, special), UNCHANGED <<pmpVars, triggers>>
    PROVE  Walked /\ CachesFine'
<1> DEFINE fired == detect(type, va)
<1>1. \/ \E t \in fired : take_trigger_action(t) /\ UNCHANGED pt
      \/ intrapage(type, va, len, special)
      \/ take_trap /\ UNCHANGED pt
  BY DEF slow_path
<1> HIDE DEF fired
<1>2. ASSUME NEW t \in fired, take_trigger_action(t), UNCHANGED pt PROVE Walked /\ CachesFine'
  <2>1. Walked
    BY <1>2 DEF Walked
  <2> QED BY <1>2, <2>1, TriggerFine
<1>3. ASSUME take_trap, UNCHANGED pt PROVE Walked /\ CachesFine'
  <2>1. Walked
    BY <1>3 DEF Walked
  <2> QED BY <1>3, <2>1, TrapFine
<1>4. ASSUME intrapage(type, va, len, special) PROVE Walked /\ CachesFine'
  <2> DEFINE vpn == VpnOf(va)
             mode == effective_priv(type)
             hit == ~special /\ tag(type, vpn).vpn = vpn
             after == detect(type, va)
  <2>1. /\ pt' = IF hit THEN pt ELSE walk_pt(type, vpn, mode)
        /\ IF hit \/ translate_ok(va, len, type)
           THEN /\ tlb' = IF hit \/ special THEN tlb
                          ELSE refill_tlb(type, vpn, walk_ppn(vpn, mode))
                /\ icache' = IF after = {} THEN icache ELSE EmptyIcache
                /\ UNCHANGED <<hartVars, edited>>
           ELSE take_trap
    BY <1>4 DEF intrapage
  <2> HIDE DEF hit, after
  <2>2. Walked
    BY <2>1 DEF Walked
  <2>3. CASE hit \/ (special /\ translate_ok(va, len, type))
    <3>1. UNCHANGED <<hartVars, edited, tlb>> /\ icache' \in {icache, EmptyIcache}
      BY <2>1, <2>3
    <3> QED BY <2>2, <3>1, KeptFine
  <2>4. CASE ~hit /\ ~special /\ translate_ok(va, len, type)
    <3>1. /\ tlb' = refill_tlb(type, vpn, walk_ppn(vpn, mode))
          /\ icache' \in {icache, EmptyIcache}
          /\ UNCHANGED <<hartVars, edited>>
      BY <2>1, <2>4
    <3>2. icache \in IcacheType /\ IcacheFine(icache)
      BY FineIsTransparent DEF MmuIInv, CachesFine, CacheType
    <3>3. EmptyIcache \in IcacheType /\ IcacheFine(EmptyIcache)
      BY EmptyTypes DEF IcacheFine, EmptyIcache
    <3>4. PICK d \in IcacheType : icache' = d /\ IcacheFine(d)
      BY <3>1, <3>2, <3>3
    <3>5. CachesFine'
      BY <2>2, <2>4, <3>1, <3>4, RefilledFine
    <3> QED BY <2>2, <3>5
  <2>5. CASE ~hit /\ ~translate_ok(va, len, type)
    BY <2>1, <2>2, <2>5, TrapFine
  <2> QED BY <2>3, <2>4, <2>5
<1> QED BY <1>1, <1>2, <1>3, <1>4

\* A store-conditional.
LEMMA StoreConditionalInv ==
    ASSUME MmuIInv, NEW va \in LrScAddrs, store_conditional(va)
    PROVE  MmuIInv'
<1> DEFINE vpn == VpnOf(va)
           mode == effective_priv("store")
           hit == tag("store", vpn).vpn = vpn
           fired == IF fast_path("store", va, 1) THEN {} ELSE detect("store", va)
           ok == translate_ok(va, 1, "store")
<1>0. va \in Nat /\ vpn \in Vpn
  BY Addresses
<1>1. /\ UNCHANGED <<pmpVars, triggers, check_triggers>>
      /\ pt' = walk_pt("store", vpn, mode)
  BY DEF store_conditional
<1>2. \/ take_trap
      \/ UNCHANGED <<hartVars, tlb, icache, edited>>
      \/ \E t \in fired : take_trigger_action(t)
      \/ /\ ok
         /\ tlb' = IF hit THEN tlb ELSE refill_tlb("store", vpn, walk_ppn(vpn, mode))
         /\ icache' = IF fired = {} THEN icache ELSE EmptyIcache
         /\ UNCHANGED <<hartVars, edited>>
  BY DEF store_conditional, cacheVars
<1> HIDE DEF fired, hit
<1>3. Walked
  BY <1>0, <1>1 DEF Walked, Operations
<1>4. CASE take_trap \/ \E t \in fired : take_trigger_action(t)
  <2>1. CachesFine'
    BY <1>1, <1>3, <1>4, TrapFine, TriggerFine
  <2> QED BY <1>1, <1>3, <2>1, AccessInv
<1>5. CASE /\ UNCHANGED <<hartVars, tlb, edited>>
           /\ icache' \in {icache, EmptyIcache}
  BY <1>1, <1>3, <1>5, KeptFine, AccessInv
<1>6. CASE /\ ok
           /\ tlb' = refill_tlb("store", vpn, walk_ppn(vpn, mode))
           /\ icache' \in {icache, EmptyIcache}
           /\ UNCHANGED <<hartVars, edited>>
  <2>1. icache \in IcacheType /\ IcacheFine(icache)
    BY FineIsTransparent DEF MmuIInv, CachesFine, CacheType
  <2>2. EmptyIcache \in IcacheType /\ IcacheFine(EmptyIcache)
    BY EmptyTypes DEF IcacheFine, EmptyIcache
  <2>3. PICK d \in IcacheType : icache' = d /\ IcacheFine(d)
    BY <1>6, <2>1, <2>2
  <2>4. CachesFine'
    BY <1>0, <1>1, <1>3, <1>6, <2>3, RefilledFine DEF Operations
  <2> QED BY <1>1, <1>3, <2>4, AccessInv
<1> QED BY <1>2, <1>4, <1>5, <1>6

\* A change of privilege or of a status register: the caches are flushed, or
\* nothing they depend on has changed.
LEMMA StatusInv ==
    ASSUME MmuIInv, UNCHANGED <<pmpVars, triggers, check_triggers, pt>>,
           flush_tlb \/ UNCHANGED <<hartVars, tlb, icache, edited>>
    PROVE  MmuIInv'
<1>1. Walked
  BY DEF Walked
<1>2. CachesFine'
  BY <1>1, FlushFine, KeptFine
<1> QED BY <1>1, <1>2, AccessInv

\* Writes of the PMP registers keep their types.
LEMMA PmpTypeKept ==
    ASSUME PmpType, NEW i \in Entry,
           \/ \E val \in PmpAddrs : pmpaddr_write(i, val)
           \/ \E c \in PmpCfgs : pmpcfg_write([pmpcfg EXCEPT ![i] = c])
           \/ \E val \in MsecVals : mseccfg_write(val)
    PROVE  PmpType'
<1>1. ASSUME NEW val \in PmpAddrs, pmpaddr_write(i, val) PROVE PmpType'
  <2>1. val \in 0 .. AllOnes
    BY MmuAssumption
  <2> QED BY <1>1, <2>1 DEF PmpType, pmpaddr_write
<1>2. ASSUME NEW c \in PmpCfgs, pmpcfg_write([pmpcfg EXCEPT ![i] = c]) PROVE PmpType'
  <2> DEFINE val == [pmpcfg EXCEPT ![i] = c]
  <2>1. c \in Cfg /\ pmpcfg \in [Entry -> Cfg]
    BY MmuAssumption DEF PmpType
  <2>2. val \in [Entry -> Cfg]
    BY <2>1
  <2>3. \A j \in Entry : legal_cfg(val[j]) \in Cfg
    <3> HIDE DEF val
    <3>1. ASSUME NEW e \in Cfg PROVE legal_cfg(e) \in Cfg
      BY DEF legal_cfg, Cfg
    <3> QED BY <2>2, <3>1
  <2> HIDE DEF val
  <2>4. pmpcfg' \in [Entry -> Cfg] /\ UNCHANGED <<pmpaddr, mseccfg>>
    <3>1. pmpcfg_write(val)
      BY <1>2 DEF val
    <3> QED BY <2>1, <2>3, <3>1 DEF pmpcfg_write
  <2> QED BY <2>4 DEF PmpType
<1>3. ASSUME NEW val \in MsecVals, mseccfg_write(val) PROVE PmpType'
  <2>1. val \in MsecType /\ mseccfg \in MsecType
    BY MmuAssumption DEF PmpType
  <2>2. mseccfg' \in MsecType
    BY <1>3, <2>1 DEF mseccfg_write, MsecType
  <2> QED BY <1>3, <2>2 DEF mseccfg_write, PmpType
<1> QED BY <1>1, <1>2, <1>3

\* A write of the PMP registers flushes when it takes effect.
LEMMA WritePmpInv == MmuIInv /\ write_pmp => MmuIInv'
<1> SUFFICES ASSUME MmuIInv, write_pmp PROVE MmuIInv'
  OBVIOUS
<1>0. UNCHANGED <<triggers, hartVars, pt, check_triggers>>
  BY DEF write_pmp
<1>1. PmpType'
  <2>1. \E i \in Entry :
           \/ \E val \in PmpAddrs : pmpaddr_write(i, val)
           \/ \E c \in PmpCfgs : pmpcfg_write([pmpcfg EXCEPT ![i] = c])
           \/ \E val \in MsecVals : mseccfg_write(val)
    <3>1. 0 \in Entry
      BY PmpAssumption DEF Entry
    <3> QED BY <3>1 DEF write_pmp
  <2>2. PmpType
    BY DEF MmuIInv
  <2> QED BY <2>1, <2>2, PmpTypeKept
<1>2. flush_tlb \/ (UNCHANGED pmpVars /\ keep_tlb)
  BY DEF write_pmp, pmpaddr_write, pmpVars
<1>3. CachesFine'
  <2>1. CASE flush_tlb
    BY <2>1, FlushFine
  <2>2. CASE UNCHANGED pmpVars /\ keep_tlb
    <3>1. Walked
      BY <1>0 DEF Walked
    <3>2. UNCHANGED <<tlb, icache, edited>>
      BY <2>2 DEF keep_tlb
    <3> QED BY <1>0, <2>2, <3>1, <3>2, KeptFine
  <2> QED BY <1>2, <2>1, <2>2
<1>4. (CacheType /\ CachesTransparent)'
  BY <1>3, FineIsTransparent, PTL
<1>5. (check_triggers = UNION {triggers[i].ops : i \in TIndex})' /\ pt' \in [Vpn -> PteType]
  BY <1>0 DEF MmuIInv
<1> QED BY <1>1, <1>4, <1>5 DEF MmuIInv

\* A write of a trigger flushes and recomputes what the tags' flags stand for.
LEMMA WriteTriggerInv == MmuIInv /\ write_trigger => MmuIInv'
<1> SUFFICES ASSUME MmuIInv, write_trigger PROVE MmuIInv'
  OBVIOUS
<1>1. UNCHANGED <<pmpVars, pt>> /\ flush_tlb
  BY DEF write_trigger, trigger_updated
<1>2. (check_triggers = UNION {triggers[i].ops : i \in TIndex})'
  BY DEF write_trigger, trigger_updated
<1>3. (CacheType /\ CachesTransparent)'
  BY <1>1, FlushFine, FineIsTransparent, PTL
<1>4. PmpType' /\ pt' \in [Vpn -> PteType]
  BY <1>1 DEF MmuIInv, PmpType, pmpVars
<1> QED BY <1>2, <1>3, <1>4 DEF MmuIInv

\* An edit of the page table is noted, unless nothing is cached.
LEMMA WritePteInv ==
    ASSUME MmuIInv, NEW vpn \in Vpn, NEW pte \in Ptes, write_pte(vpn, pte)
    PROVE  MmuIInv'
<1>0. UNCHANGED <<pmpVars, triggers, hartVars, tlb, icache, check_triggers>>
  BY DEF write_pte, cacheVars
<1>1. pt' = [pt EXCEPT ![vpn] = pte] /\ pt \in [Vpn -> PteType] /\ pt' \in [Vpn -> PteType]
  BY MmuAssumption DEF write_pte, MmuIInv
<1>2. CachesFine'
  <2>1. CASE tlb = EmptyTlb /\ icache = EmptyIcache
    <3>1. tlb' = EmptyTlb /\ icache' = EmptyIcache
      BY <1>0, <2>1
    <3>2. CacheType'
      BY <3>1, EmptyTypes DEF CacheType
    <3>3. \A i \in 0 .. TLB_ENTRIES - 1, type \in Operations : tlb'[i].tag[type] = NoTag
      BY <3>1 DEF EmptyTlb
    <3>4. \A i \in 0 .. ICACHE_ENTRIES - 1 : icache'[i] = None
      BY <3>1 DEF EmptyIcache
    <3> QED BY <3>2, <3>3, <3>4 DEF CachesFine, TlbFine, IcacheFine
  <2>2. CASE ~(tlb = EmptyTlb /\ icache = EmptyIcache)
    <3>1. edited' = edited \cup {vpn}
      BY <2>2 DEF write_pte
    <3>2. \A v \in Vpn : v \in edited' \/ Marked(v)
      BY <1>1, <3>1 DEF Marked, Operations
    <3>3. PICK c, d : c = tlb /\ d = icache
      OBVIOUS
    <3>4. /\ c \in TlbType /\ TlbFine(c) /\ tlb' = c
          /\ d \in IcacheType /\ IcacheFine(d) /\ icache' = d
      BY <1>0, <3>3, FineIsTransparent DEF MmuIInv, CachesFine, CacheType
    <3>5. edited \subseteq edited'
      BY <3>1
    <3> QED BY <1>0, <1>1, <3>2, <3>4, <3>5, FineStable
  <2> QED BY <2>1, <2>2
<1>3. (CacheType /\ CachesTransparent)'
  BY <1>2, FineIsTransparent, PTL
<1>4. PmpType' /\ (check_triggers = UNION {triggers[i].ops : i \in TIndex})'
  BY <1>0 DEF MmuIInv, PmpType, pmpVars
<1> QED BY <1>1, <1>3, <1>4 DEF MmuIInv

\* Every step keeps the invariant.
LEMMA MmuStepInv == MmuIInv /\ [Next]_vars => MmuIInv'
<1> SUFFICES ASSUME MmuIInv, [Next]_vars PROVE MmuIInv'
  OBVIOUS
<1> USE DEF flush_tlb, keep_tlb, set_privilege
<1>1. ASSUME NEW va \in Vas, fetch(va) PROVE MmuIInv'
  BY <1>1, FetchInv
<1>2. ASSUME NEW type \in Operations, NEW va \in Vas \cup LrScAddrs, NEW len \in {1, 2}, NEW special,
             slow_path(type, va, len, special), UNCHANGED <<pmpVars, triggers, check_triggers>>
      PROVE  MmuIInv'
  BY <1>2, Addresses, SlowFine, AccessInv
<1>3. ASSUME NEW va \in Vas, NEW len \in {1, 2}, load(va, len) \/ store(va, len) PROVE MmuIInv'
  BY <1>2, <1>3 DEF load, store, Operations
<1>4. ASSUME NEW va \in LrScAddrs, load_reserved(va) PROVE MmuIInv'
  BY <1>2, <1>4 DEF load_reserved, Operations
<1>5. ASSUME NEW va \in LrScAddrs, store_conditional(va) PROVE MmuIInv'
  BY <1>5, StoreConditionalInv
<1>6. CASE matched_fetch
  <2>1. Walked /\ UNCHANGED <<pmpVars, triggers, check_triggers>>
    BY <1>6 DEF matched_fetch, Walked
  <2>2. CachesFine'
    BY <1>6, <2>1, TriggerFine DEF matched_fetch
  <2> QED BY <2>1, <2>2, AccessInv
<1>7. CASE end_of_turn \/ turn_begins \/ \E s \in Sector : other_store(s)
  BY <1>7, StatusInv DEF end_of_turn, turn_begins, other_store, noTurnVars, cacheVars
<1>8. ASSUME NEW val \in StatusVals, write_mstatus(val) PROVE MmuIInv'
  BY <1>8, StatusInv DEF write_mstatus, hartVars
<1>9. ASSUME NEW sum \in BOOLEAN, NEW mxr \in BOOLEAN, write_sstatus(sum, mxr) PROVE MmuIInv'
  BY <1>9, StatusInv DEF write_sstatus, hartVars
<1>10. ASSUME NEW on \in BOOLEAN, write_satp(on) PROVE MmuIInv'
  BY <1>10, StatusInv DEF write_satp, hartVars
<1>11. CASE write_pmp
  BY <1>11, WritePmpInv
<1>12. CASE write_trigger
  BY <1>12, WriteTriggerInv
<1>13. ASSUME NEW vpn \in Vpn, NEW pte \in Ptes, write_pte(vpn, pte) PROVE MmuIInv'
  BY <1>13, WritePteInv
<1>14. CASE sfence_vma
  BY <1>14, StatusInv DEF sfence_vma
<1>15. CASE fence_i
  <2>1. /\ Walked /\ UNCHANGED <<pmpVars, triggers, check_triggers, hartVars, edited, tlb>>
        /\ icache' \in {icache, EmptyIcache}
    BY <1>15 DEF fence_i, Walked
  <2> QED BY <2>1, KeptFine, AccessInv
<1>16. CASE mret
  BY <1>16, StatusInv DEF mret
<1>17. CASE ecall
  BY <1>17, StatusInv DEF ecall, take_trap
<1>18. CASE halt
  BY <1>18, StatusInv DEF halt, enter_debug_mode
<1>19. CASE dret
  BY <1>19, StatusInv DEF dret
<1>20. CASE UNCHANGED vars
  BY <1>20, StatusInv DEF vars, cacheVars
<1> QED BY <1>1, <1>3, <1>4, <1>5, <1>6, <1>7, <1>8, <1>9, <1>10, <1>11, <1>12, <1>13, <1>14,
           <1>15, <1>16, <1>17, <1>18, <1>19, <1>20 DEF Next, Step

\* The caches start empty.
LEMMA MmuInitInv == Init => MmuIInv
<1> SUFFICES ASSUME Init PROVE MmuIInv
  OBVIOUS
<1>1. PmpType
  <2>1. pmpaddr \in [Entry -> 0 .. AllOnes] /\ pmpcfg \in [Entry -> Cfg]
    BY MmuAssumption DEF Init
  <2>2. mseccfg \in MsecType
    BY DEF Init, MsecType
  <2> QED BY <2>1, <2>2 DEF PmpType
<1>2. pt \in [Vpn -> PteType]
  BY MmuAssumption DEF Init
<1>3. CacheType
  BY EmptyTypes DEF Init, CacheType
<1>4. TlbFine(tlb) /\ IcacheFine(icache)
  BY DEF Init, TlbFine, IcacheFine, EmptyTlb, EmptyIcache
<1>5. check_triggers = UNION {triggers[i].ops : i \in TIndex}
  BY DEF Init
<1> QED BY <1>1, <1>2, <1>3, <1>4, <1>5, FineIsTransparent DEF MmuIInv, CachesFine
-----------------------------------------------------------------------------
\* A hit in the TLB or the instruction cache answers what the page tables, the PMP
\* and the triggers would answer now, after any sequence of accesses, CSR writes,
\* fences, traps and visits of the debugger.
THEOREM MmuCachesTransparent == Spec => []CachesTransparent
<1>1. MmuIInv => CachesTransparent
  BY DEF MmuIInv
<1> QED BY <1>1, MmuInitInv, MmuStepInv, PTL DEF Spec

\* While other harts run this one has no reservation, and in its own turn nothing
\* stores behind its back: where there is one, no other hart has stored since.
THEOREM MmuReservationHolds == Spec => []ReservationHolds
<1> DEFINE Yielded == ~running => reserved = None
           Inv     == running \in BOOLEAN /\ Yielded /\ ReservationHolds
<1>1. Init => Inv
  BY DEF Init, ReservationHolds
<1>2. Inv /\ [Next]_vars => Inv'
  <2> SUFFICES ASSUME Inv, [Next]_vars PROVE Inv'
    OBVIOUS
  <2> USE DEF ReservationHolds
  <2>1. ASSUME UNCHANGED <<resVars, running>> PROVE Inv'
    BY <2>1 DEF resVars
  <2>2. CASE end_of_turn
    BY <2>2 DEF end_of_turn, yield_load_reservation
  <2>3. CASE \E s \in Sector : other_store(s)
    BY <2>3 DEF other_store
  <2>4. CASE turn_begins
    BY <2>4 DEF turn_begins
  <2>5. CASE UNCHANGED vars
    BY <2>1, <2>5 DEF vars
  <2>6. CASE running /\ Step /\ UNCHANGED running
    <3>1. ASSUME NEW va, load_reserved(va) PROVE Inv'
      BY <2>6, <3>1 DEF load_reserved
    <3>2. ASSUME NEW va, store_conditional(va) PROVE Inv'
      <4>1. (UNCHANGED resVars) \/ (yield_load_reservation /\ UNCHANGED linked)
        BY <3>2 DEF store_conditional
      <4> QED BY <2>1, <2>6, <4>1 DEF yield_load_reservation
    <3> HIDE DEF Inv
    <3>3. CASE \E va \in Vas : fetch(va) \/ \E len \in {1, 2} : load(va, len) \/ store(va, len)
      BY <2>1, <2>6, <3>3 DEF fetch, load, store
    <3>4. CASE matched_fetch \/ sfence_vma \/ fence_i \/ mret \/ ecall \/ halt \/ dret
      BY <2>1, <2>6, <3>4 DEF matched_fetch, sfence_vma, fence_i, mret, ecall, halt, dret
    <3>5. CASE \/ \E val \in StatusVals : write_mstatus(val)
               \/ \E sum, mxr \in BOOLEAN : write_sstatus(sum, mxr)
               \/ \E on \in BOOLEAN : write_satp(on)
               \/ write_pmp
               \/ write_trigger
               \/ \E vpn \in Vpn, pte \in Ptes : write_pte(vpn, pte)
      BY <2>1, <2>6, <3>5 DEF write_mstatus, write_sstatus, write_satp, write_pmp, write_trigger,
         write_pte
    <3> QED BY <2>6, <3>1, <3>2, <3>3, <3>4, <3>5 DEF Step
  <2> QED BY <2>2, <2>3, <2>4, <2>5, <2>6 DEF Next
<1>3. Inv => ReservationHolds
  OBVIOUS
<1> QED BY <1>1, <1>2, <1>3, PTL DEF Spec

\* Only write_pmp writes the PMP registers.
LEMMA PmpWriters == [Next]_vars => write_pmp \/ UNCHANGED pmpVars
<1> SUFFICES ASSUME [Next]_vars PROVE write_pmp \/ UNCHANGED pmpVars
  OBVIOUS
<1>1. CASE UNCHANGED vars
  BY <1>1 DEF vars
<1>2. CASE \E va \in Vas : fetch(va) \/ \E len \in {1, 2} : load(va, len) \/ store(va, len)
  BY <1>2 DEF fetch, load, store
<1>3. CASE \E va \in LrScAddrs : load_reserved(va) \/ store_conditional(va)
  BY <1>3 DEF load_reserved, store_conditional
<1>4. CASE matched_fetch \/ sfence_vma \/ fence_i \/ mret \/ ecall \/ halt \/ dret
  BY <1>4 DEF matched_fetch, sfence_vma, fence_i, mret, ecall, halt, dret
<1>6. CASE end_of_turn \/ turn_begins \/ \E s \in Sector : other_store(s)
  BY <1>6 DEF end_of_turn, turn_begins, other_store, noTurnVars
<1>5. CASE \/ \E val \in StatusVals : write_mstatus(val)
           \/ \E sum, mxr \in BOOLEAN : write_sstatus(sum, mxr)
           \/ \E on \in BOOLEAN : write_satp(on)
           \/ write_trigger
           \/ \E vpn \in Vpn, pte \in Ptes : write_pte(vpn, pte)
  BY <1>5 DEF write_mstatus, write_sstatus, write_satp, write_trigger, write_pte
<1> QED BY <1>1, <1>2, <1>3, <1>4, <1>5, <1>6 DEF Next, Step

\* Until MML is on, a byte written to pmpcfg that allows writes allows reads.
Legal == ~mseccfg.mml => \A i \in Entry : pmpcfg[i].w => pmpcfg[i].r

\* The boot configurations are legal, and the writes keep them so.
LEMMA LegalInvariant == Spec => [](MmuIInv /\ Legal)
<1>1. Init => Legal
  BY MmuAssumption DEF Init, Legal
<1>2. MmuIInv /\ Legal /\ [Next]_vars => Legal'
  <2> SUFFICES ASSUME MmuIInv, Legal, write_pmp PROVE Legal'
    BY PmpWriters DEF pmpVars, Legal
  <2>0. pmpcfg \in [Entry -> Cfg] /\ mseccfg \in MsecType
    BY DEF MmuIInv, PmpType
  <2>1. ASSUME NEW j \in Entry, NEW val \in PmpAddrs, pmpaddr_write(j, val) PROVE Legal'
    BY <2>1 DEF pmpaddr_write, Legal
  <2>2. ASSUME NEW j \in Entry, NEW c \in PmpCfgs, pmpcfg_write([pmpcfg EXCEPT ![j] = c]) PROVE Legal'
    <3> SUFFICES ASSUME ~mseccfg.mml, NEW i \in Entry, pmpcfg'[i].w PROVE pmpcfg'[i].r
      BY <2>2 DEF pmpcfg_write, Legal
    <3> DEFINE new == legal_cfg([pmpcfg EXCEPT ![j] = c][i])
    <3>1. pmpcfg'[i] = new \/ pmpcfg'[i] = pmpcfg[i]
      BY <2>2 DEF pmpcfg_write
    <3>2. [pmpcfg EXCEPT ![j] = c][i] \in Cfg
      BY <2>0, MmuAssumption
    <3>3. new.w => new.r
      BY <3>2 DEF legal_cfg, Cfg
    <3> QED BY <3>1, <3>3 DEF Legal
  <2>3. ASSUME NEW val \in MsecVals, mseccfg_write(val) PROVE Legal'
    BY <2>3 DEF mseccfg_write, Legal
  <2> QED BY <2>1, <2>2, <2>3 DEF write_pmp
<1> QED BY <1>1, <1>2, MmuInitInv, MmuStepInv, PTL DEF Spec

\* A region stays where it is when the entry's configuration, its address and, for
\* TOR, the address below it do.
LEMMA SameRegion ==
    ASSUME NEW i \in Entry, pmpcfg'[i] = pmpcfg[i], pmpaddr'[i] = pmpaddr[i],
           pmpcfg[i].a = "tor" => tor_base(i)' = tor_base(i), NEW s
    PROVE  match4(i, s)' = match4(i, s)
<1>1. napot_size(i)' = napot_size(i)
  BY DEF napot_size
<1> QED BY <1>1 DEF match4

\* What it allows stays as it is when its configuration and MML do.
LEMMA SameRights ==
    ASSUME NEW i \in Entry, pmpcfg'[i] = pmpcfg[i], mseccfg'.mml = mseccfg.mml, NEW type, NEW mode
    PROVE  access_ok(i, type, mode)' <=> access_ok(i, type, mode)
<1> DEFINE c == pmpcfg[i]
<1>1. pmpcfg'[i] = c /\ (mseccfg'.mml <=> mseccfg.mml)
  OBVIOUS
<1> HIDE DEF c
<1> QED BY <1>1 DEF access_ok, c

\* No write moves a locked rule while the lock bypass is off: not one of its own
\* registers, nor one of the entry below, which bounds a TOR region.  What it allows
\* stays as it is too, but for the write that switches MML on, which only takes away.
THEOREM MmuLockedForever == Spec => LockedForever
<1> DEFINE Kept(i) ==
             /\ pmpcfg'[i].l /\ ~mseccfg'.rlb
             /\ \A s \in Sector : match4(i, s)' = match4(i, s)
             /\ \A type \in {"fetch", "load", "store"}, mode \in Modes :
                  /\ access_ok(i, type, mode)' => access_ok(i, type, mode)
                  /\ mseccfg'.mml = mseccfg.mml =>
                       (access_ok(i, type, mode)' <=> access_ok(i, type, mode))
           Locked == \A i \in Entry : pmpcfg[i].l /\ ~mseccfg.rlb => Kept(i)
<1>1. MmuIInv /\ Legal /\ [Next]_vars => [Locked]_pmpVars
  <2> SUFFICES ASSUME MmuIInv, Legal, write_pmp, NEW i \in Entry, pmpcfg[i].l, ~mseccfg.rlb
               PROVE  Kept(i)
    BY PmpWriters
  <2>0. /\ pmpaddr \in [Entry -> 0 .. AllOnes] /\ pmpcfg \in [Entry -> Cfg]
        /\ mseccfg \in MsecType
    BY DEF MmuIInv, PmpType
  <2>1. ASSUME NEW j \in Entry, NEW val \in PmpAddrs, pmpaddr_write(j, val) PROVE Kept(i)
    <3>1. UNCHANGED <<pmpcfg, mseccfg>>
      BY <2>1 DEF pmpaddr_write
    <3>2. pmpaddr'[i] = pmpaddr[i] /\ (pmpcfg[i].a = "tor" => tor_base(i)' = tor_base(i))
      <4>1. CASE pmpaddr' = pmpaddr
        BY <4>1 DEF tor_base
      <4>2. CASE pmpaddr' # pmpaddr
        <5>1. pmpaddr_written(j) /\ pmpaddr' = [pmpaddr EXCEPT ![j] = val]
          BY <2>1, <4>2 DEF pmpaddr_write
        <5>2. j # i
          BY <5>1 DEF pmpaddr_written
        <5>3. ASSUME pmpcfg[i].a = "tor", i # 0 PROVE pmpaddr'[i - 1] = pmpaddr[i - 1]
          <6>1. i - 1 \in Entry /\ i \in Int /\ j \in Int /\ i < n_pmp
            BY <5>3, PmpAssumption DEF Entry
          <6>2. ASSUME j = i - 1 PROVE FALSE
            <7>1. j + 1 = i
              BY <6>1, <6>2
            <7>2. next_locked_and_tor(j)
              BY <5>3, <6>1, <7>1 DEF next_locked_and_tor
            <7> QED BY <5>1, <7>2 DEF pmpaddr_written
          <6> QED BY <2>0, <5>1, <6>1, <6>2
        <5> QED BY <2>0, <5>1, <5>2, <5>3 DEF tor_base
      <4> QED BY <4>1, <4>2
    <3>3. \A s \in Sector : match4(i, s)' = match4(i, s)
      BY <3>1, <3>2, SameRegion
    <3>4. \A type, mode : (access_ok(i, type, mode)' <=> access_ok(i, type, mode))
      BY <3>1, SameRights
    <3> QED BY <3>1, <3>3, <3>4
  <2>2. ASSUME NEW j \in Entry, NEW c \in PmpCfgs, pmpcfg_write([pmpcfg EXCEPT ![j] = c]) PROVE Kept(i)
    <3>1. UNCHANGED <<pmpaddr, mseccfg>> /\ pmpcfg'[i] = pmpcfg[i]
      BY <2>2 DEF pmpcfg_write
    <3>2. tor_base(i)' = tor_base(i)
      BY <3>1 DEF tor_base
    <3>3. \A s \in Sector : match4(i, s)' = match4(i, s)
      BY <3>1, <3>2, SameRegion
    <3>4. \A type, mode : (access_ok(i, type, mode)' <=> access_ok(i, type, mode))
      BY <3>1, SameRights
    <3> QED BY <3>1, <3>3, <3>4
  <2>3. ASSUME NEW val \in MsecVals, mseccfg_write(val) PROVE Kept(i)
    <3>1. /\ UNCHANGED <<pmpaddr, pmpcfg>> /\ mseccfg'.rlb = FALSE
          /\ mseccfg.mml => mseccfg'.mml
          /\ mseccfg'.mml \in BOOLEAN
      BY <2>0, <2>3, MmuAssumption DEF mseccfg_write, MsecType
    <3>2. tor_base(i)' = tor_base(i)
      BY <3>1 DEF tor_base
    <3>3. \A s \in Sector : match4(i, s)' = match4(i, s)
      BY <3>1, <3>2, SameRegion
    <3>4. ASSUME mseccfg'.mml = mseccfg.mml
          PROVE  \A type, mode : (access_ok(i, type, mode)' <=> access_ok(i, type, mode))
      BY <3>1, <3>4, SameRights
    <3>5. ASSUME mseccfg'.mml # mseccfg.mml, NEW type \in {"fetch", "load", "store"},
                 NEW mode \in Modes, access_ok(i, type, mode)'
          PROVE  access_ok(i, type, mode)
      <4>1. ~mseccfg.mml /\ mseccfg'.mml
        BY <2>0, <3>1, <3>5 DEF MsecType
      <4>2. pmpcfg[i].w => pmpcfg[i].r
        BY <4>1 DEF Legal
      <4> QED BY <3>1, <3>5, <4>1, <4>2 DEF access_ok
    <3> QED BY <3>1, <3>3, <3>4, <3>5
  <2> QED BY <2>1, <2>2, <2>3 DEF write_pmp
<1> QED BY <1>1, LegalInvariant, PTL DEF Spec, LockedForever
=============================================================================
