--------------------------------- MODULE Mmu ---------------------------------
(***************************************************************************)
(* A hart's port into memory (riscv/mmu.cc, riscv/mmu.h): translation and   *)
(* protection of fetches, loads, stores and LR/SC, and the three caches     *)
(* kept in front of them "for simulator performance": a TLB with a tag per  *)
(* access type and one shared translation, a decoded-instruction cache and  *)
(* the load reservation.  None of them is coherent by itself; every CSR     *)
(* write, privilege change, fence and trigger update that could make them   *)
(* wrong has to flush them.                                                 *)
(*                                                                         *)
(* The page table has one level (the loop of walk() ends at its leaf), and  *)
(* the entry of page vpn is sector PteAddr(vpn).  Two-stage translation,    *)
(* shadow stacks, pointer masking and memory-mapped devices are left out;   *)
(* traps go to M-mode (Hart models delegation).  An access that hits an     *)
(* unflagged tag or the instruction cache changes nothing here.             *)
(***************************************************************************)
EXTENDS Pmp, Triggers, Sequences

CONSTANTS Vpn,            \* virtual page numbers, starting at 0
          TLB_ENTRIES,
          ICACHE_ENTRIES,
          ADUE,           \* menvcfg.ADUE: the walk sets accessed and dirty
          Ptes,           \* the page-table entries software writes
          BootPt,         \* and the page table it boots with
          Boots,          \* what it has made of the PMP and the triggers
          Vas, LrScAddrs, \* the addresses it uses, with LR and SC
          PmpCfgs, PmpAddrs, MsecVals, StatusVals,  \* and register values
          Writes          \* bound on those writes and on LRs in a behaviour

PteType == [v : BOOLEAN, ppn : Nat, r : BOOLEAN, w : BOOLEAN, x : BOOLEAN,
            u : BOOLEAN, a : BOOLEAN, d : BOOLEAN]

ASSUME MmuAssumption ==
    /\ Vpn \subseteq Nat
    /\ TLB_ENTRIES \in Nat \ {0}
    /\ ICACHE_ENTRIES \in Nat \ {0}
    /\ Ptes \subseteq PteType
    /\ BootPt \in [Vpn -> PteType]
    /\ \A b \in Boots : /\ b.pmp.addr \in [Entry -> 0 .. AllOnes]
                        /\ b.pmp.cfg \in [Entry -> Cfg]
                        /\ \A i \in Entry : b.pmp.cfg[i].w => b.pmp.cfg[i].r
    /\ \A va \in Vas \cup LrScAddrs : va \in Nat /\ va \div PageSectors \in Vpn
    /\ PmpAddrs \subseteq 0 .. AllOnes
    /\ PmpCfgs \subseteq Cfg
    /\ MsecVals \subseteq MsecType

VARIABLES prv,            \* privilege mode
          debug_mode, dcsr_prv,
          mstatus,        \* MPRV, MPP, SUM, MXR
          satp,           \* whether translation is on
          pt,             \* [vpn -> page-table entry]
          tlb,            \* [index -> tags by access type, and the page]
          icache,         \* [index -> tag, a virtual address or -1]
          check_triggers, \* the operations a trigger watches
          matched,        \* a trigger to be taken at the next fetch
          reserved,       \* load_reservation_address, or -1
          running,        \* whether it is this hart's turn
          linked,         \* history: the last LR's address, -1 once another hart stored there
          edited,         \* history: pages whose entry changed since a flush
          writes

hartVars == <<prv, debug_mode, dcsr_prv, mstatus, satp>>
cacheVars == <<tlb, icache, matched>>
resVars == <<reserved, linked>>
vars == <<pmpVars, triggers, hartVars, pt, cacheVars, check_triggers, resVars,
          running, edited, writes>>

None == -1
PteAddr(vpn) == AddrOf(Pages - 1, vpn % PageSectors)
NoTag == [vpn |-> None, check |-> FALSE]
EmptyTlb == [i \in 0 .. TLB_ENTRIES - 1 |->
               [tag |-> [o \in Operations |-> NoTag], ppn |-> 0]]
EmptyIcache == [i \in 0 .. ICACHE_ENTRIES - 1 |-> None]

(* M-mode firmware has set up a page table, perhaps locked a PMP entry and  *)
(* armed a trigger, and is about to enter S-mode.                           *)
Init ==
    /\ \E b \in Boots : /\ pmpaddr = b.pmp.addr /\ pmpcfg = b.pmp.cfg
                        /\ triggers = b.triggers
    /\ mseccfg = [mml |-> FALSE, mmwp |-> FALSE, rlb |-> FALSE]
    /\ prv = PRV_M /\ debug_mode = FALSE /\ dcsr_prv = PRV_M
    /\ mstatus = [mprv |-> FALSE, mpp |-> PRV_S,
                  sum |-> FALSE, mxr |-> FALSE]
    /\ satp = TRUE
    /\ pt = BootPt
    /\ tlb = EmptyTlb /\ icache = EmptyIcache
    /\ check_triggers = UNION {triggers[i].ops : i \in TIndex}
    /\ matched = {}
    /\ reserved = None /\ linked = None /\ running = TRUE
    /\ edited = {} /\ writes = 0

-----------------------------------------------------------------------------
(* Translation.                                                            *)

in_mprv == ~debug_mode /\ mstatus.mprv

\* generate_access_info: the mode an access is made in
effective_priv(type) == IF type # "fetch" /\ in_mprv THEN mstatus.mpp ELSE prv

translated(mode) == satp /\ mode # PRV_M

pte_legal(pte, type, mode) ==
    /\ IF pte.u THEN mode = PRV_S => type # "fetch" /\ mstatus.sum
                ELSE mode = PRV_S
    /\ pte.v /\ (pte.w => pte.r)
    /\ CASE type = "fetch" -> pte.x
         [] type = "load" -> pte.r \/ (mstatus.mxr /\ pte.x)
         [] OTHER -> pte.w

with_ad(pte, type) == [pte EXCEPT !.a = TRUE, !.d = @ \/ type = "store"]

walk_ok(type, vpn, mode) ==
    translated(mode) =>
        /\ pmp_ok(PteAddr(vpn), 1, "load", PRV_S)
        /\ pte_legal(pt[vpn], type, mode)
        /\ \/ with_ad(pt[vpn], type) = pt[vpn]
           \/ ADUE /\ pmp_ok(PteAddr(vpn), 1, "store", PRV_S)

walk_ppn(vpn, mode) == IF translated(mode) THEN pt[vpn].ppn ELSE vpn

\* the page table after the walk
walk_pt(type, vpn, mode) ==
    IF translated(mode) /\ walk_ok(type, vpn, mode)
    THEN [pt EXCEPT ![vpn] = with_ad(@, type)] ELSE pt

VpnOf(va) == va \div PageSectors
PaddrOf(va, mode) == AddrOf(walk_ppn(VpnOf(va), mode), va % PageSectors)

translate_ok(va, len, type) ==
    LET mode == effective_priv(type)
    IN  /\ walk_ok(type, VpnOf(va), mode)
        /\ pmp_ok(PaddrOf(va, mode), len, type, mode)

-----------------------------------------------------------------------------
(* The caches.                                                             *)

Index(vpn) == vpn % TLB_ENTRIES
tag(type, vpn) == tlb[Index(vpn)].tag[type]

\* Mutant: the tags of the page the entry held before stay.
refill_keeps_tags(type, vpn, ppn) ==
    LET i == Index(vpn)
        new == [vpn |-> vpn, check |-> type \in check_triggers]
        tags == IF pmp_homogeneous(ppn) THEN [tlb[i].tag EXCEPT ![type] = new] ELSE tlb[i].tag
    IN  IF in_mprv THEN tlb
        ELSE [tlb EXCEPT ![i] = [tag |-> tags, ppn |-> ppn]]

\* a stale translation of another page must not stay under a new one
refill_tlb(type, vpn, ppn) ==
    LET i == Index(vpn)
        kept == [o \in Operations |->
                   IF tlb[i].tag[o].vpn = vpn THEN tlb[i].tag[o] ELSE NoTag]
        new == [vpn |-> vpn, check |-> type \in check_triggers]
        tags == IF pmp_homogeneous(ppn) THEN [kept EXCEPT ![type] = new] ELSE kept
    IN  IF in_mprv THEN tlb
        ELSE [tlb EXCEPT ![i] = [tag |-> tags, ppn |-> ppn]]

flush_tlb ==
    /\ tlb' = EmptyTlb /\ icache' = EmptyIcache
    /\ edited' = {}

keep_tlb == UNCHANGED <<tlb, icache, edited>>

set_privilege(p) == prv' = p /\ flush_tlb

take_trap ==
    IF debug_mode THEN UNCHANGED <<hartVars, tlb, icache, edited>>
    ELSE /\ set_privilege(PRV_M)
         /\ mstatus' = [mstatus EXCEPT !.mpp = prv]
         /\ UNCHANGED <<debug_mode, dcsr_prv, satp>>

enter_debug_mode ==
    /\ debug_mode' = TRUE
    /\ dcsr_prv' = prv
    /\ set_privilege(PRV_M)
    /\ UNCHANGED <<mstatus, satp>>

take_trigger_action(t) == IF t.action = "debug" THEN enter_debug_mode ELSE take_trap

-----------------------------------------------------------------------------
(* Accesses.  Each ends in completion, a trap or a trigger.                *)

detect(type, va) ==
    IF debug_mode THEN {} ELSE detect_memory_access_match(type, va, prv)

fetch(va) ==
    LET vpn == VpnOf(va)
        mode == effective_priv("fetch")
        i == va % ICACHE_ENTRIES
        hit == tag("fetch", vpn) = [vpn |-> vpn, check |-> FALSE]
        flagged == tag("fetch", vpn) = [vpn |-> vpn, check |-> TRUE]
        before == IF hit THEN {} ELSE detect("fetch", va)
    IN  /\ ~debug_mode      \* debug mode runs from the debug ROM, a device
        /\ icache[i] # va
        /\ matched = {}
        /\ \/ \E t \in before : /\ take_trigger_action(t)
                                /\ UNCHANGED <<pt, matched>>
           \/ /\ before = {}
              /\ hit \/ flagged
              /\ icache' = [icache EXCEPT ![i] = va]
              /\ UNCHANGED <<hartVars, pt, tlb, edited, matched>>
           \/ /\ before = {} /\ ~hit /\ ~flagged
              /\ pt' = walk_pt("fetch", vpn, mode)
              /\ UNCHANGED matched
              /\ IF translate_ok(va, 1, "fetch")
                 THEN /\ tlb' = refill_tlb("fetch", vpn, walk_ppn(vpn, mode))
                      /\ icache' = [icache EXCEPT ![i] = va]
                      /\ UNCHANGED <<hartVars, edited>>
                 ELSE take_trap
        /\ UNCHANGED <<pmpVars, triggers, check_triggers, resVars, writes>>

(* The instruction after one that matched a trigger with timing "after".   *)
matched_fetch ==
    /\ \E t \in matched : take_trigger_action(t)
    /\ matched' = {}
    /\ UNCHANGED <<pmpVars, triggers, pt, check_triggers, resVars, writes>>

(* A load or store that stays in one page.  A special access (LR) neither   *)
(* uses nor fills the TLB.                                                  *)
intrapage(type, va, len, special) ==
    LET vpn == VpnOf(va)
        mode == effective_priv(type)
        hit == ~special /\ tag(type, vpn).vpn = vpn
        done == hit \/ translate_ok(va, len, type)
        after == detect(type, va)
    IN  /\ pt' = IF hit THEN pt ELSE walk_pt(type, vpn, mode)
        /\ IF done
           THEN /\ tlb' = IF hit \/ special THEN tlb
                          ELSE refill_tlb(type, vpn, walk_ppn(vpn, mode))
                /\ icache' = IF after = {} THEN icache ELSE EmptyIcache
                /\ UNCHANGED <<hartVars, edited>>
           ELSE take_trap
        /\ matched' = after

\* an unflagged tag takes the fast path, which looks at no trigger
fast_path(type, va, len) ==
    va % len = 0 /\ tag(type, VpnOf(va)) = [vpn |-> VpnOf(va), check |-> FALSE]

\* an address that is not a multiple of the length traps
slow_path(type, va, len, special) ==
    LET fired == detect(type, va)
    IN  \/ \E t \in fired : /\ ~t.after
                            /\ take_trigger_action(t)
                            /\ UNCHANGED <<pt, matched>>
        \/ /\ \A t \in fired : t.after
           /\ IF va % len = 0 THEN intrapage(type, va, len, special)
              ELSE /\ take_trap
                   /\ matched' = fired
                   /\ UNCHANGED pt

(* Bound: register writes and load reservations, which multiply the states. *)
Write == writes < Writes /\ writes' = writes + 1 /\ matched = {}

load(va, len) ==
    /\ matched = {}
    /\ ~fast_path("load", va, len)
    /\ slow_path("load", va, len, FALSE)
    /\ UNCHANGED <<pmpVars, triggers, check_triggers, resVars, writes>>

store(va, len) ==
    /\ matched = {}
    /\ ~fast_path("store", va, len)
    /\ slow_path("store", va, len, FALSE)
    /\ UNCHANGED <<pmpVars, triggers, check_triggers, resVars, writes>>

load_reserved(va) ==
    LET done == /\ \A t \in detect("load", va) : t.after
                /\ translate_ok(va, 1, "load")
        paddr == PaddrOf(va, effective_priv("load"))
    IN  /\ Write
        /\ slow_path("load", va, 1, TRUE)
        /\ reserved' = IF done THEN paddr ELSE reserved
        /\ linked' = IF done THEN paddr ELSE linked
        /\ UNCHANGED <<pmpVars, triggers, check_triggers>>

yield_load_reservation == reserved' = None

(* The reservation is checked on the physical address; the store that      *)
(* follows may still run into a trigger, which leaves the reservation.     *)
store_conditional(va) ==
    LET vpn == VpnOf(va)
        mode == effective_priv("store")
        hit == tag("store", vpn).vpn = vpn
        fired == IF fast_path("store", va, 1) THEN {} ELSE detect("store", va)
        ok == translate_ok(va, 1, "store")
        have_reservation == reserved = PaddrOf(va, mode)
    IN  /\ matched = {}
        /\ pt' = walk_pt("store", vpn, mode)
        /\ \/ /\ ~ok
              /\ take_trap
              /\ UNCHANGED <<matched, resVars>>
           \/ /\ ok /\ ~have_reservation
              /\ yield_load_reservation
              /\ UNCHANGED <<hartVars, cacheVars, edited, linked>>
           \/ /\ ok /\ have_reservation
              /\ \E t \in fired : ~t.after /\ take_trigger_action(t)
              /\ UNCHANGED <<matched, resVars>>
           \/ /\ ok /\ have_reservation
              /\ \A t \in fired : t.after
              /\ tlb' = IF hit THEN tlb
                        ELSE refill_tlb("store", vpn, walk_ppn(vpn, mode))
              /\ icache' = IF fired = {} THEN icache ELSE EmptyIcache
              /\ matched' = fired
              /\ yield_load_reservation
              /\ UNCHANGED <<hartVars, edited, linked>>
        /\ UNCHANGED <<pmpVars, triggers, check_triggers, writes>>

(* The harts take turns (sim_t::step).                                     *)
noTurnVars == <<pmpVars, triggers, hartVars, pt, cacheVars, check_triggers,
                edited, writes>>

(* Mutant: the reservation outlives the turn.                               *)
turn_keeps_reservation ==
    /\ running
    /\ running' = FALSE
    /\ UNCHANGED <<noTurnVars, reserved, linked>>

(* The hart's turn ends and its reservation is given up.                    *)
end_of_turn ==
    /\ running
    /\ running' = FALSE
    /\ yield_load_reservation
    /\ UNCHANGED <<noTurnVars, linked>>

(* In its own turn another hart stores to a sector.  Its mmu_t looks at its *)
(* own reservation only, and cannot reach this hart's.                      *)
other_store(s) ==
    /\ ~running
    /\ linked' = IF linked = s THEN None ELSE linked
    /\ UNCHANGED <<noTurnVars, reserved, running>>

(* The turn comes round to this hart again.                                 *)
turn_begins ==
    /\ ~running
    /\ running' = TRUE
    /\ UNCHANGED <<noTurnVars, reserved, linked>>

-----------------------------------------------------------------------------
(* Instructions and requests that change what the caches stand for.        *)

write_mstatus(val) ==
    /\ Write /\ prv = PRV_M
    /\ mstatus' = val
    /\ IF val # mstatus THEN flush_tlb ELSE keep_tlb
    /\ UNCHANGED <<pmpVars, triggers, prv, debug_mode, dcsr_prv, satp, pt,
                   matched, check_triggers, resVars>>

write_sstatus(sum, mxr) ==
    /\ Write /\ prv = PRV_S
    /\ mstatus' = [mstatus EXCEPT !.sum = sum, !.mxr = mxr]
    /\ IF mstatus' # mstatus THEN flush_tlb ELSE keep_tlb
    /\ UNCHANGED <<pmpVars, triggers, prv, debug_mode, dcsr_prv, satp, pt,
                   matched, check_triggers, resVars>>

write_satp(on) ==
    /\ Write /\ prv # PRV_U
    /\ satp' = on
    /\ IF on # satp THEN flush_tlb ELSE keep_tlb
    /\ UNCHANGED <<pmpVars, triggers, prv, debug_mode, dcsr_prv, mstatus, pt,
                   matched, check_triggers, resVars>>

write_pmp ==
    /\ Write /\ prv = PRV_M
    /\ \/ \E i \in Entry, val \in PmpAddrs :
             /\ pmpaddr_write(i, val)
             /\ IF pmpaddr_written(i) THEN flush_tlb ELSE keep_tlb
       \/ \E i \in Entry, c \in PmpCfgs :
             pmpcfg_write([pmpcfg EXCEPT ![i] = c]) /\ flush_tlb
       \/ \E val \in MsecVals : mseccfg_write(val) /\ flush_tlb
    /\ UNCHANGED <<triggers, hartVars, pt, matched, check_triggers, resVars>>

trigger_updated ==
    /\ flush_tlb
    /\ check_triggers' = UNION {triggers'[i].ops : i \in TIndex}

write_trigger ==
    /\ Write /\ prv = PRV_M
    /\ \E i \in TIndex :
         \/ \E val \in TriggerVals : tdata1_write(i, val, debug_mode)
         \/ \E va \in Vas : tdata2_write(i, va, debug_mode)
    /\ trigger_updated
    /\ UNCHANGED <<pmpVars, hartVars, pt, matched, resVars>>

(* Software edits the page table in memory; no flush comes with that.      *)
write_pte(vpn, pte) ==
    /\ Write
    /\ pt' = [pt EXCEPT ![vpn] = pte]
    /\ edited' = IF tlb = EmptyTlb /\ icache = EmptyIcache THEN edited
                 ELSE edited \cup {vpn}
    /\ UNCHANGED <<pmpVars, triggers, hartVars, cacheVars, check_triggers,
                   resVars>>

sfence_vma ==
    /\ matched = {} /\ prv # PRV_U
    /\ flush_tlb
    /\ UNCHANGED <<pmpVars, triggers, hartVars, pt, matched, check_triggers,
                   resVars, writes>>

fence_i ==
    /\ matched = {}
    /\ icache' = EmptyIcache
    /\ UNCHANGED <<pmpVars, triggers, hartVars, pt, tlb, matched,
                   check_triggers, resVars, edited, writes>>

mret ==
    /\ matched = {} /\ prv = PRV_M /\ ~debug_mode
    /\ set_privilege(mstatus.mpp)
    /\ mstatus' = [mstatus EXCEPT !.mpp = PRV_U,
                                  !.mprv = @ /\ mstatus.mpp = PRV_M]
    /\ UNCHANGED <<pmpVars, triggers, debug_mode, dcsr_prv, satp, pt, matched,
                   check_triggers, resVars, writes>>

ecall ==
    /\ matched = {}
    /\ take_trap
    /\ UNCHANGED <<pmpVars, triggers, pt, matched, check_triggers, resVars, writes>>

halt ==
    /\ ~debug_mode
    /\ enter_debug_mode
    /\ UNCHANGED <<pmpVars, triggers, pt, matched, check_triggers, resVars, writes>>

dret ==
    /\ matched = {} /\ debug_mode
    /\ set_privilege(dcsr_prv)
    /\ debug_mode' = FALSE
    /\ mstatus' = [mstatus EXCEPT !.mprv = @ /\ dcsr_prv = PRV_M]
    /\ dcsr_prv' = PRV_M    \* no longer read: the next entry overwrites it
    /\ UNCHANGED <<pmpVars, triggers, satp, pt, matched, check_triggers,
                   resVars, writes>>

Step ==
    \/ \E va \in Vas : fetch(va)
    \/ matched_fetch
    \/ \E va \in Vas, len \in {1, 2} : load(va, len) \/ store(va, len)
    \/ \E va \in LrScAddrs : load_reserved(va) \/ store_conditional(va)
    \/ \E val \in StatusVals : write_mstatus(val)
    \/ \E sum, mxr \in BOOLEAN : write_sstatus(sum, mxr)
    \/ \E on \in BOOLEAN : write_satp(on)
    \/ write_pmp
    \/ write_trigger
    \/ \E vpn \in Vpn, pte \in Ptes : write_pte(vpn, pte)
    \/ sfence_vma \/ fence_i
    \/ mret \/ ecall \/ halt \/ dret

Next ==
    \/ running /\ Step /\ UNCHANGED running
    \/ end_of_turn
    \/ \E s \in Sector : other_store(s)
    \/ turn_begins

Spec == Init /\ [][Next]_vars

-----------------------------------------------------------------------------
(* mmu.h: the caches are kept "for simulator performance".  Whatever order  *)
(* of privilege changes, register writes, fences, debugger visits and       *)
(* refills came before, what a TLB tag grants the page tables and the PMP   *)
(* grant now, for every sector of the page and in the mode the access would *)
(* be made in, and to the same physical page; the only exception is a page  *)
(* whose entry software edited without a fence.  A tag that lets accesses   *)
(* skip the trigger check hides no trigger.                                 *)
Granted(type, vpn, ppn) ==
    LET mode == effective_priv(type)
    IN  /\ walk_ok(type, vpn, mode)
        /\ walk_ppn(vpn, mode) = ppn
        /\ \A o \in 0 .. PageSectors - 1 :
             pmp_ok(AddrOf(ppn, o), 1, type, mode)
        /\ pmp_ok(AddrOf(ppn, 0), PageSectors, type, mode)

TlbTransparent ==
    \A i \in 0 .. TLB_ENTRIES - 1, type \in Operations :
        LET t == tlb[i].tag[type]
        IN  t # NoTag =>
              /\ t.vpn \in edited \/ Granted(type, t.vpn, tlb[i].ppn)
              /\ t.check \/ \A k \in TIndex : type \notin triggers[k].ops

(* The same for a decoded instruction: it is executed only where the fetch  *)
(* would be allowed now.                                                    *)
IcacheTransparent ==
    \A i \in 0 .. ICACHE_ENTRIES - 1 :
        icache[i] # None =>
            VpnOf(icache[i]) \in edited \/ translate_ok(icache[i], 1, "fetch")

(* No cache of the hart answers otherwise than the tables would now.        *)
CachesTransparent == TlbTransparent /\ IcacheTransparent

(* A store-conditional finds a reservation only where no other hart has     *)
(* stored since the load that made it, although nothing tells a hart of     *)
(* another one's stores: every reservation is gone before others run.       *)
ReservationHolds == reserved # None => linked = reserved

(* debug_defines.h of dcsr.prv: "Contains the privilege mode the hart was   *)
(* operating in when Debug Mode was entered."  As long as the hart stays in *)
(* debug mode the record of where to return to is not overwritten.          *)
DebugKeepsMode == [][debug_mode /\ debug_mode' => dcsr_prv' = dcsr_prv]_vars
=============================================================================
