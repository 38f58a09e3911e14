------------------------------- MODULE Clint -------------------------------
(***************************************************************************)
(* The core-local interruptor (riscv/clint.cc): mtime, one mtimecmp per    *)
(* hart, and the MTIP and MSIP bits of the harts' mip that it drives.      *)
(* mtime advances with the simulation (real_time = false).  A 64-bit       *)
(* register is written whole or by halves of Half values (2^32).           *)
(***************************************************************************)
EXTENDS Naturals

CONSTANTS
    Half,       \* number of values of half a register
    ClintHarts  \* sim->get_harts()

ASSUME ClintAssumption == Half \in Nat \ {0}

VARIABLES mtime, mtimecmp, mtip, msip

clintVars == <<mtime, mtimecmp, mtip, msip>>

Times == 0 .. Half * Half - 1

\* A hart's mtimecmp starts at 0, so its timer interrupt starts pending.
ClintInit ==
    /\ mtime = 0
    /\ mtimecmp = [h \in ClintHarts |-> 0]
    /\ mtip = [h \in ClintHarts |-> TRUE]
    /\ msip = [h \in ClintHarts |-> FALSE]

WithLow(r, v)  == (r \div Half) * Half + v
WithHigh(r, v) == v * Half + (r % Half)

\* Mutant: only the low halves are compared.
reached_low_half(t, cmp) == t % Half >= cmp % Half

Reached(t, cmp) == t >= cmp

\* clint_t::tick, the end of every access and of every round of the harts.
clint_tick(t, cmp) ==
    /\ mtime' = t
    /\ mtimecmp' = cmp
    /\ mtip' = [h \in ClintHarts |-> Reached(t, cmp[h])]

clint_advance(rtc_ticks) ==
    /\ clint_tick((mtime + rtc_ticks) % (Half * Half), mtimecmp)
    /\ UNCHANGED msip

clint_load == clint_advance(0)

clint_store_msip(h, b) ==
    /\ msip' = [msip EXCEPT ![h] = b]
    /\ clint_tick(mtime, mtimecmp)

clint_store_mtimecmp(h, cmp) ==
    /\ clint_tick(mtime, [mtimecmp EXCEPT ![h] = cmp])
    /\ UNCHANGED msip

clint_store_mtime(t) ==
    /\ clint_tick(t, mtimecmp)
    /\ UNCHANGED msip

\* MTIP is the comparison, whenever software can look: a store to half a
\* register takes effect at once.
MtipCoherent == \A h \in ClintHarts : mtip[h] = (mtime >= mtimecmp[h])
=============================================================================
