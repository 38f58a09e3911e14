--------------------------------- MODULE Pmp ---------------------------------
(***************************************************************************)
(* Physical memory protection: the pmpaddr, pmpcfg and mseccfg registers    *)
(* (riscv/csrs.cc) and the two questions the MMU asks of them, whether one  *)
(* access is allowed (pmp_ok) and whether a whole page is treated alike     *)
(* (pmp_homogeneous, riscv/mmu.cc).                                         *)
(*                                                                         *)
(* Memory is counted in 4-byte sectors, the granularity of pmpaddr; a page *)
(* is PageSectors of them.  lg_pmp_granularity is 2, so pmp_tor_mask keeps  *)
(* every bit and NA4 is legal.  hlvx accesses are not modelled.             *)
(***************************************************************************)
EXTENDS Integers, FiniteSets, FiniteSetsExt

CONSTANTS PageSectors,   \* PGSIZE in sectors
          Pages,         \* number of physical pages
          n_pmp          \* number of PMP entries

ASSUME PmpAssumption == /\ PageSectors \in Nat \ {0}
                        /\ Pages \in Nat \ {0}
                        /\ n_pmp \in Nat \ {0}

VARIABLES pmpaddr,    \* [entry -> address in sectors]
          pmpcfg,     \* [entry -> configuration byte]
          mseccfg     \* machine security configuration: MML, MMWP, RLB

pmpVars == <<pmpaddr, pmpcfg, mseccfg>>

PRV_U == 0
PRV_S == 1
PRV_M == 3
Modes == {PRV_U, PRV_S, PRV_M}
Entry == 0 .. n_pmp - 1
Sector == 0 .. Pages * PageSectors - 1
AddrOf(page, offset) == page * PageSectors + offset
AllOnes == 2 ^ (Pages * PageSectors) - 1
Cfg == [a : {"off", "tor", "na4", "napot"},
        r : BOOLEAN, w : BOOLEAN, x : BOOLEAN, l : BOOLEAN]
MsecType == [mml : BOOLEAN, mmwp : BOOLEAN, rlb : BOOLEAN]
Unused == [a |-> "off", r |-> FALSE, w |-> FALSE, x |-> FALSE, l |-> FALSE]

PmpType ==
    /\ pmpaddr \in [Entry -> 0 .. AllOnes]
    /\ pmpcfg \in [Entry -> Cfg]
    /\ mseccfg \in MsecType

(* After a reset the first entry opens all of memory to every mode.         *)
PmpReset ==
    [addr |-> [i \in Entry |-> IF i = 0 THEN AllOnes ELSE 0],
     cfg |-> [i \in Entry |->
                IF i = 0 THEN [a |-> "napot", r |-> TRUE, w |-> TRUE,
                               x |-> TRUE, l |-> FALSE]
                         ELSE Unused]]

-----------------------------------------------------------------------------
(* The region an entry covers.                                             *)

tor_base(i) == IF i = 0 THEN 0 ELSE pmpaddr[i - 1]

LowOnes ==
    [n \in 0 .. AllOnes |->
        CHOOSE k \in 0 .. n : n % 2 ^ k = 2 ^ k - 1 /\ n % 2 ^ (k + 1) # 2 ^ (k + 1) - 1]

\* the size of the region that napot_mask leaves free
NapotSize == [n \in 0 .. AllOnes |-> 2 ^ (LowOnes[n] + 1)]

\* PGSIZE is a power of two: NAPOT regions and pages nest
ASSUME PageSizeAssumption ==
    /\ AllOnes \in Nat
    /\ \A n \in 0 .. AllOnes :
         /\ NapotSize[n] \in Nat \ {0}
         /\ NapotSize[n] % PageSectors = 0 \/ PageSectors % NapotSize[n] = 0

napot_size(i) == IF pmpcfg[i].a = "na4" THEN 1 ELSE NapotSize[pmpaddr[i]]

match4(i, s) ==
    CASE pmpcfg[i].a = "off" -> FALSE
      [] pmpcfg[i].a = "tor" -> tor_base(i) <= s /\ s < pmpaddr[i]
      [] OTHER -> LET n == napot_size(i) IN s \div n = pmpaddr[i] \div n

(* Whether the entry tells the sectors of a page apart.                    *)
subset_match(i, page) ==
    LET begins_after_lower == AddrOf(page, 0) >= tor_base(i)
        begins_after_upper == AddrOf(page, 0) >= pmpaddr[i]
        ends_before_lower == page < tor_base(i) \div PageSectors
        ends_before_upper == page < pmpaddr[i] \div PageSectors
        tor_homogeneous == \/ ends_before_lower
                           \/ begins_after_upper
                           \/ begins_after_lower /\ ends_before_upper
        napot_homogeneous == \/ napot_size(i) >= PageSectors
                             \/ page # pmpaddr[i] \div PageSectors
    IN  CASE pmpcfg[i].a = "off" -> FALSE
          [] pmpcfg[i].a = "tor" -> ~tor_homogeneous
          [] OTHER -> ~napot_homogeneous

access_ok(i, type, mode) ==
    LET c == pmpcfg[i]
        prvm == mode = PRV_M
        normal_rwx == \/ type = "load" /\ c.r
                      \/ type = "store" /\ c.w
                      \/ type = "fetch" /\ c.x
        shared == \/ ~c.l /\ type = "load"
                  \/ ~c.l /\ type = "store" /\ (c.x \/ prvm)
                  \/ c.l /\ type = "fetch"
                  \/ c.l /\ type = "load" /\ c.x /\ prvm
    IN  IF ~mseccfg.mml THEN (prvm /\ ~c.l) \/ normal_rwx
        ELSE IF c.r /\ c.w /\ c.x /\ c.l THEN type = "load"
        ELSE IF ~c.r /\ c.w THEN shared
        ELSE prvm = c.l /\ normal_rwx

pmp_ok(s, len, type, mode) ==
    LET span == s .. s + len - 1
        matching == {i \in Entry : \E a \in span : match4(i, a)}
        first == Min(matching)
    IN  IF matching # {}
        THEN /\ \A a \in span : match4(first, a)
             /\ access_ok(first, type, mode)
        ELSE /\ mode = PRV_M
             /\ ~mseccfg.mmwp
             /\ mseccfg.mml => type # "fetch"

pmp_homogeneous(page) == \A i \in Entry : ~subset_match(i, page)

-----------------------------------------------------------------------------
(* Writes.  The caller, an instruction in M-mode or debug mode, flushes the *)
(* TLB where the code does.                                                 *)

(* Mutant: the entry below a locked TOR entry may be moved.                 *)
next_tor_ignored(i) == FALSE

next_locked_and_tor(i) ==
    /\ i + 1 < n_pmp
    /\ ~mseccfg.rlb /\ pmpcfg[i + 1].l
    /\ pmpcfg[i + 1].a = "tor"

pmpaddr_written(i) ==
    /\ mseccfg.rlb \/ ~pmpcfg[i].l
    /\ ~next_locked_and_tor(i)

pmpaddr_write(i, val) ==
    /\ pmpaddr' = IF pmpaddr_written(i) THEN [pmpaddr EXCEPT ![i] = val] ELSE pmpaddr
    /\ UNCHANGED <<pmpcfg, mseccfg>>

legal_cfg(c) == IF mseccfg.mml THEN c ELSE [c EXCEPT !.w = @ /\ c.r]

\* an M-mode-only or locked shared rule that executes or is written
forbidden_cfg(c) ==
    mseccfg.mml /\ c.l /\ ~(c.r /\ c.w /\ c.x) /\ (c.x \/ (c.w /\ ~c.r))

(* One pmpcfg register holds the bytes of all the entries.                 *)
pmpcfg_write(val) ==
    LET new(i) == legal_cfg(val[i])
        taken(i) == mseccfg.rlb \/ (~pmpcfg[i].l /\ ~forbidden_cfg(new(i)))
    IN  /\ pmpcfg' = [i \in Entry |-> IF taken(i) THEN new(i) ELSE pmpcfg[i]]
        /\ UNCHANGED <<pmpaddr, mseccfg>>

mseccfg_write(val) ==
    LET pmplock_recorded == \E i \in Entry : pmpcfg[i].l
    IN  /\ mseccfg' = [mml |-> mseccfg.mml \/ val.mml,
                       mmwp |-> mseccfg.mmwp \/ val.mmwp,
                       rlb |-> IF pmplock_recorded /\ ~mseccfg.rlb
                               THEN FALSE ELSE val.rlb]
        /\ UNCHANGED <<pmpaddr, pmpcfg>>

-----------------------------------------------------------------------------
(* A locked rule binds M-mode itself: once an entry is locked and the lock  *)
(* bypass is off, no sequence of writes to any PMP register changes what    *)
(* the entry covers (for a TOR entry the entry below it supplies the lower  *)
(* bound), and the bypass never comes back.  What the entry allows in any   *)
(* mode changes only when software switches MML on, and never grows.        *)
LockedForever ==
    [][\A i \in Entry :
         pmpcfg[i].l /\ ~mseccfg.rlb =>
            /\ pmpcfg'[i].l /\ ~mseccfg'.rlb
            /\ \A s \in Sector : match4(i, s)' = match4(i, s)
            /\ \A type \in {"fetch", "load", "store"}, mode \in Modes :
                 /\ access_ok(i, type, mode)' => access_ok(i, type, mode)
                 /\ mseccfg'.mml = mseccfg.mml =>
                      (access_ok(i, type, mode)' <=> access_ok(i, type, mode))]_pmpVars
=============================================================================
