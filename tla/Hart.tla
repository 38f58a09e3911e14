-------------------------------- MODULE Hart --------------------------------
(***************************************************************************)
(* One hart: privilege modes, trap entry and return, the double-trap bits, *)
(* debug mode and single stepping, and the loop of processor_t::step that  *)
(* decides when interrupts are looked at (riscv/processor.cc,              *)
(* riscv/execute.cc, the status registers of riscv/csrs.cc and the return  *)
(* instructions).  The hart has S, U, H, Smdbltrp and Ssdbltrp.            *)
(*                                                                         *)
(* A register that only addresses or describes a trap (xepc, xcause, xtval)*)
(* is left out; the fields that decide what happens next are kept.  The    *)
(* program is any sequence of the instructions below, within the discipline*)
(* written at software_* : a handler keeps its saved status until it has   *)
(* copied it, and then clears the double-trap bit.                         *)
(***************************************************************************)
EXTENDS Naturals

CONSTANTS Slice,        \* instructions a call of step(n) may retire
          Logging,      \* TRUE when -d, -l or -g forces the slow path
          Cfgs,         \* what the firmware may write to the delegation registers
          DcsrWrites,   \* what the debugger may write to dcsr
          Pendings,     \* what mip & mie may hold when it is looked at
          ResumesCritical, \* the debugger resumes a hart with a critical error
          Writes        \* bound: CSR writes of the software and the debugger

ASSUME SliceAssumption == Slice \in Nat \ {0}
ASSUME SwitchAssumption == Logging \in BOOLEAN /\ ResumesCritical \in BOOLEAN
ASSUME CfgsAssumption ==
    Cfgs \subseteq [medeleg : SUBSET {"fault", "break"},
                    hedeleg : SUBSET {"fault", "break"},
                    mideleg : SUBSET {"SSI"}, hideleg : SUBSET {"VSSI"},
                    mdte : BOOLEAN, hdte : BOOLEAN]
\* Software interrupts: MSI is never delegated, SSI to S, VSSI to S or VS.
ASSUME BoundAssumption == Pendings \subseteq SUBSET {"MSI", "SSI", "VSSI"} /\ Writes \in Nat
\* The debugger resumes into modes that exist: dcsr takes V together with M as it
\* is written, and dret would then clear SDT under a context of S.
ASSUME DcsrAssumption ==
    DcsrWrites \subseteq {d \in [prv : {0, 1, 3}, v : BOOLEAN, step : BOOLEAN] :
                           d.v => d.prv # 3}

VARIABLES state,        \* state_t, with the ghosts saved and lost
          loop,         \* step()'s locals: where it is, n - instret, pc, path
          stepped,      \* ghost: instructions retired since a stepping dret
          writes        \* CSR writes left

vars == <<state, loop, stepped, writes>>

U == 0
S == 1
M == 3
Prv == {U, S, M}

Levels == {"M", "S", "VS"}
NoFrame == [live |-> FALSE, prv |-> U, v |-> FALSE, ie |-> FALSE]

----------------------------------------------------------------------------
(***************************************************************************)
(* Status registers.                                                       *)
(***************************************************************************)

\* henvcfg reads as if masked by menvcfg.
HDTE(st) == st.cfg.hdte /\ st.cfg.mdte

sstatus_read(st) ==
    IF st.v THEN [st.vs EXCEPT !.sdt = @ /\ HDTE(st)]
            ELSE [sie |-> st.m.sie, spie |-> st.m.spie, spp |-> st.m.spp,
                  sdt |-> st.m.sdt /\ st.cfg.mdte]

\* A write that leaves MDT set clears MIE.
mstatus_write(st, m) == [st EXCEPT !.m = [m EXCEPT !.mie = @ /\ ~m.mdt]]

\* A write that leaves SDT set clears SIE; without DTE it keeps the old SDT.
sstatus_proxy_write(st, s) ==
    LET sdt == IF st.cfg.mdte THEN s.sdt ELSE st.m.sdt
    IN  mstatus_write(st, [st.m EXCEPT !.sie = s.sie /\ ~sdt, !.spie = s.spie,
                                       !.spp = s.spp, !.sdt = sdt])

vsstatus_write(st, s) ==
    LET sdt == IF HDTE(st) THEN s.sdt ELSE st.vs.sdt
    IN  [st EXCEPT !.vs = [s EXCEPT !.sie = @ /\ ~sdt, !.sdt = sdt]]

sstatus_write(st, s) ==
    IF st.v THEN vsstatus_write(st, s) ELSE sstatus_proxy_write(st, s)

clear_vs_sdt(st) == vsstatus_write(st, [st.vs EXCEPT !.sdt = FALSE])

\* mideleg reads the VS bits as one; hideleg reads masked by mideleg.
mideleg_read(st) == st.cfg.mideleg \cup {"VSSI"}
hideleg_read(st) == st.cfg.hideleg \cap mideleg_read(st)

set_privilege(st, prv, virt) ==
    [st EXCEPT !.prv = prv, !.v = virt /\ prv # M]

enter_debug_mode(st) ==
    [set_privilege(st, M, FALSE) EXCEPT
        !.debug_mode = TRUE, !.in_wfi = FALSE, !.dpc = st.pc, !.pc = "rom",
        !.dcsr = [@ EXCEPT !.prv = st.prv, !.v = st.v]]

----------------------------------------------------------------------------
(***************************************************************************)
(* Traps.  t = [int, bit].                                                 *)
(***************************************************************************)

vsdeleg(st, t) == /\ st.prv # M /\ st.v
                  /\ IF t.int THEN t.bit \in hideleg_read(st)
                              ELSE t.bit \in st.cfg.medeleg \cap st.cfg.hedeleg

hsdeleg(st, t) == /\ st.prv # M
                  /\ IF t.int THEN t.bit \in mideleg_read(st)
                              ELSE t.bit \in st.cfg.medeleg

\* Mutant: only traps delegated to VS look at SDT.
double_trap_in_vs_only(st, t) == vsdeleg(st, t) /\ sstatus_read(st).sdt

\* A trap taken below M while SDT is set goes to M.
supv_double_trap(st, t) ==
    (vsdeleg(st, t) \/ hsdeleg(st, t)) /\ sstatus_read(st).sdt

\* Ghost: the trap puts a new context in the registers of the level.
Saves(st, level, ie) ==
    [st EXCEPT !.saved[level] = [live |-> TRUE, prv |-> st.prv, v |-> st.v,
                                 ie |-> ie],
               !.lost = IF st.saved[level].live THEN @ \cup {level} ELSE @,
               !.pc = "guest"]

trap_to_vs(st) ==
    LET s == sstatus_read(st)
        set == [sie |-> FALSE, spie |-> s.sie, spp |-> st.prv,
                sdt |-> s.sdt \/ HDTE(st)]
    IN  set_privilege(sstatus_write(Saves(st, "VS", s.sie), set), S, TRUE)

\* Mutant: hstatus.SPV is left as the last trap set it.
trap_to_hs_keeps_spv(st) ==
    LET s == sstatus_read([st EXCEPT !.v = FALSE])
        set == [sie |-> FALSE, spie |-> s.sie, spp |-> st.prv,
                sdt |-> s.sdt \/ st.cfg.mdte]
    IN  set_privilege(sstatus_proxy_write(Saves(st, "S", s.sie), set), S, FALSE)

trap_to_hs(st) ==
    LET s == sstatus_read([st EXCEPT !.v = FALSE])
        set == [sie |-> FALSE, spie |-> s.sie, spp |-> st.prv,
                sdt |-> s.sdt \/ st.cfg.mdte]
        stored == sstatus_proxy_write(Saves(st, "S", s.sie), set)
    IN  set_privilege([stored EXCEPT !.spv = st.v], S, FALSE)

trap_to_m(st) ==
    IF st.m.mdt
    THEN [st EXCEPT !.critical_error = TRUE]
    ELSE set_privilege(
           mstatus_write(Saves(st, "M", st.m.mie),
                         [st.m EXCEPT !.mdt = TRUE, !.mpie = st.m.mie,
                                      !.mpp = st.prv, !.mie = FALSE,
                                      !.mpv = st.v]),
           M, FALSE)

take_trap(st, t) ==
    CASE st.debug_mode -> [st EXCEPT !.pc = "rom"]
      [] ~st.debug_mode /\ vsdeleg(st, t) /\ ~supv_double_trap(st, t) ->
             trap_to_vs(st)
      [] ~st.debug_mode /\ ~vsdeleg(st, t) /\ hsdeleg(st, t)
             /\ ~supv_double_trap(st, t) -> trap_to_hs(st)
      [] OTHER -> trap_to_m(st)

Breakpoint == [int |-> FALSE, bit |-> "break"]

\* A trigger with action 0 may fire in mode (prv, v) only when a breakpoint
\* taken there would not land in the handler that is running.
common_match(st, prv, v, action) ==
    action = "exception" =>
       /\ ~(prv = M /\ ~st.m.mie)
       /\ ~(prv = S /\ ~v /\ "break" \in st.cfg.medeleg /\ ~sstatus_read(st).sie)
       /\ ~(prv = S /\ v /\ "break" \in st.cfg.medeleg \cap st.cfg.hedeleg
                    /\ ~st.vs.sie)

take_trigger_action(st, action) ==
    IF action = "debug" THEN enter_debug_mode(st)
                        ELSE take_trap(st, Breakpoint)

\* What step() does with a trap_t it catches; trig is what detect_trap_match
\* found.
catch_trap(st, t, trig) ==
    LET taken  == take_trap(st, t)
        halted == IF taken.critical_error
                  THEN enter_debug_mode(taken) ELSE taken
    IN  IF trig # "none" THEN take_trigger_action(halted, trig)
        ELSE IF halted.single_step = "stepped"
        THEN enter_debug_mode([halted EXCEPT !.single_step = "none"])
        ELSE halted

\* detect_trap_match: nothing in debug mode, the mode before the trap counts.
trap_match(st, t) ==
    {"none"} \cup
    {a \in {"debug", "exception"} :
        LET taken == take_trap(st, t)
        IN  /\ ~taken.debug_mode /\ ~taken.critical_error
            /\ common_match(taken, st.prv, st.v, a)}

----------------------------------------------------------------------------
(***************************************************************************)
(* The loop of step(n).                                                    *)
(***************************************************************************)

\* Mutant: a hart that single steps may take the fast path.
slow_unless_stepping == Logging \/ state.debug_mode \/ state.in_wfi

slow_path == \/ Logging \/ state.debug_mode \/ state.in_wfi
             \/ state.single_step # "none"

AtSlice == [at |-> "slice", left |-> 0, pc |-> "guest", path |-> "fast",
            csr |-> FALSE, checked |-> FALSE]

\* Back to the head of the outer loop, or out of step() when n is used up.
Outer(left) == IF left = 0 THEN AtSlice
               ELSE [AtSlice EXCEPT !.at = "outer", !.left = left]

Inner(left, pc) == IF left = 0 THEN AtSlice
                   ELSE [loop EXCEPT !.left = left, !.pc = pc, !.checked = FALSE]

\* Ghost: Off until a dret that steps, and again once debug mode is entered.
Off == 3
Ghost(st) == IF st.debug_mode THEN Off ELSE stepped
Counted(st) == IF st.debug_mode THEN Off
               ELSE IF stepped \in 0 .. 1 THEN stepped + 1 ELSE stepped

\* The debugger's request is looked at when a slice starts.
step(request) ==
    /\ loop.at = "slice"
    /\ state' = IF request /\ ~state.debug_mode THEN enter_debug_mode(state) ELSE state
    /\ loop' = Outer(Slice)
    /\ stepped' = Ghost(state')

\* Mutant: SIE is not looked at in HS-mode.
enabled_in_hs_always(mip) ==
    LET st == state
        to_m == IF st.prv # M \/ st.m.mie THEN mip \ mideleg_read(st) ELSE {}
        to_hs == IF st.prv # M THEN mip \cap (mideleg_read(st) \ hideleg_read(st))
                 ELSE {}
        to_vs == IF st.v /\ (st.prv = U \/ sstatus_read(st).sie)
                 THEN mip \cap hideleg_read(st) ELSE {}
    IN  IF to_m # {} THEN to_m ELSE IF to_hs # {} THEN to_hs ELSE to_vs

\* M first, then HS, then VS.
enabled_interrupts(mip) ==
    LET st == state
        sie  == sstatus_read(st).sie
        to_m == IF st.prv # M \/ st.m.mie THEN mip \ mideleg_read(st) ELSE {}
        to_hs == IF st.v \/ st.prv = U \/ (st.prv = S /\ sie)
                 THEN mip \cap (mideleg_read(st) \ hideleg_read(st)) ELSE {}
        to_vs == IF st.v /\ (st.prv = U \/ sie)
                 THEN mip \cap hideleg_read(st) ELSE {}
    IN  IF to_m # {} THEN to_m ELSE IF to_hs # {} THEN to_hs ELSE to_vs

\* MSI, SSI, VSSI is the order within a level.
interrupt(enabled) == IF "MSI" \in enabled THEN "MSI"
                      ELSE IF "SSI" \in enabled THEN "SSI" ELSE "VSSI"

awake(mip) == [state EXCEPT !.in_wfi = @ /\ mip = {}]

\* Devices raise and drop interrupts between slices, and stores and CSR writes
\* do in the middle of one: mip is whatever it is when it is looked at, unless
\* no instruction has completed since the last look (checked).  The interrupt is
\* thrown as a trap_t, which ends the slice.
take_interrupt(mip) ==
    /\ loop.at = "outer" /\ ~loop.checked
    /\ ~state.debug_mode /\ enabled_interrupts(mip) # {}
    /\ LET t == [int |-> TRUE, bit |-> interrupt(enabled_interrupts(mip))]
       IN  \E trig \in trap_match(awake(mip), t) :
               state' = catch_trap(awake(mip), t, trig)
    /\ loop' = AtSlice
    /\ stepped' = Ghost(state')

enter_inner(mip) ==
    /\ loop.at = "outer" /\ (state.debug_mode \/ enabled_interrupts(mip) = {})
    /\ state' = awake(mip)
    /\ loop' = [loop EXCEPT !.at = "inner", !.pc = state.pc, !.checked = TRUE,
                            !.path = IF slow_path' THEN "slow" ELSE "fast"]
    /\ UNCHANGED stepped

stepping_over == /\ loop.path = "slow" /\ ~state.serialized
                 /\ state.single_step = "stepped"

\* The stepped instruction is done: into debug mode, and around the outer loop.
step_done ==
    /\ loop.at = "inner" /\ stepping_over /\ ~state.debug_mode
    /\ state' = enter_debug_mode([state EXCEPT !.single_step = "none"])
    /\ loop' = Outer(loop.left)
    /\ stepped' = Off

\* The hart before an instruction of this iteration.
Fetched == LET ss == IF stepping_over THEN "none" ELSE state.single_step
           IN  [state EXCEPT !.in_wfi = FALSE,
                   !.single_step = IF ss = "stepping" THEN "stepped" ELSE ss]

\* csr: the instruction at pc is the one that has just serialized.
Ready == /\ loop.at = "inner"
         /\ ~(stepping_over /\ ~state.debug_mode)
         /\ ~(loop.path = "slow" /\ state.in_wfi /\ ~state.debug_mode)
CanExecute == Ready /\ ~loop.csr

\* A hart that waits uses up its slice.
wait ==
    /\ loop.at = "inner" /\ loop.path = "slow" /\ state.in_wfi
    /\ ~stepping_over /\ ~state.debug_mode
    /\ state' = [Fetched EXCEPT !.in_wfi = TRUE]
    /\ loop' = AtSlice
    /\ UNCHANGED stepped


\* An instruction that ends in the ordinary way (pc advances), with the check
\* the slow path makes after it.
Retire(st) ==
    LET done == [st EXCEPT !.pc = loop.pc]
    IN  /\ state' = IF loop.path = "slow" /\ done.critical_error /\ ~done.debug_mode
                    THEN enter_debug_mode(done) ELSE done
        /\ loop' = Inner(loop.left - 1, loop.pc)
        /\ stepped' = Counted(state')

\* An instruction that serializes: the outer loop starts again.
Serialize(st) ==
    /\ state' = st
    /\ loop' = Outer(loop.left - 1)
    /\ stepped' = Counted(st)

\* A thrown trap ends the slice.
Throw(st, t) ==
    /\ \E trig \in trap_match(st, t) : state' = catch_trap(st, t, trig)
    /\ loop' = AtSlice
    /\ stepped' = Ghost(state')

plain_insn ==
    /\ CanExecute
    /\ Retire(Fetched)

exception_insn(bit) ==
    /\ CanExecute
    /\ Throw(Fetched, [int |-> FALSE, bit |-> bit])

\* A trigger matched before the instruction; the slice goes on.
trigger_insn(action) ==
    /\ CanExecute /\ ~state.debug_mode
    /\ common_match(state, state.prv, state.v, action)
    /\ state' = take_trigger_action(Fetched, action)
    /\ loop' = Outer(loop.left)
    /\ stepped' = Ghost(state')

\* ebreakx: the dcsr bit of the running mode, whatever the debugger set it to.
ebreak(ebreakx) ==
    /\ CanExecute
    /\ IF ~state.debug_mode /\ ebreakx
       THEN /\ state' = enter_debug_mode(Fetched)
            /\ loop' = Outer(loop.left) /\ stepped' = Off
       ELSE Throw(Fetched, Breakpoint)

wfi ==
    /\ CanExecute /\ state.prv # U
    /\ state' = [Fetched EXCEPT !.in_wfi = TRUE, !.pc = loop.pc]
    /\ loop' = AtSlice
    /\ stepped' = Counted(state')

\* Ghost: returning to (prv, v) leaves the handlers that cannot run there.
Leaves(st, prv, v) ==
    [st EXCEPT !.saved =
        [l \in Levels |->
            IF CASE l = "M"  -> prv = M
                 [] l = "S"  -> prv = M \/ (prv = S /\ ~v)
                 [] l = "VS" -> ~(v /\ prv = U)
            THEN @[l] ELSE NoFrame]]

Ends(st, level) == [st EXCEPT !.saved[level] = NoFrame]

\* Runs at a guest address, or in the debug ROM which has no such instruction.
GuestCode == CanExecute /\ loop.pc = "guest"

mret ==
    /\ GuestCode /\ state.prv = M
    /\ LET st == Fetched
           prv == st.m.mpp
           v == st.m.mpv
           vs_ok == IF v /\ prv = U THEN clear_vs_sdt(st) ELSE st
           set == [st.m EXCEPT !.mie = st.m.mpie, !.mpie = TRUE, !.mpp = U,
                       !.mpv = FALSE, !.mdt = FALSE,
                       !.sdt = @ /\ ~(prv = U \/ v)]
       IN  Serialize(set_privilege(
               Leaves(Ends(mstatus_write(vs_ok, set), "M"), prv, v /\ prv # M),
               prv, v))

sret ==
    /\ GuestCode /\ state.prv # U
    /\ LET st == Fetched
           s == sstatus_read(st)
           prv == s.spp
           v == st.v \/ st.spv
           level == IF st.v THEN "VS" ELSE "S"
           no_spv == IF st.v THEN st ELSE [st EXCEPT !.spv = FALSE]
           in_m == mstatus_write(no_spv,
                     [no_spv.m EXCEPT !.mdt = FALSE, !.sdt = @ /\ ~(prv = U \/ v)])
           cleared == IF st.prv = M THEN in_m ELSE no_spv
           vs_ok == IF ~st.v /\ v /\ prv = U THEN clear_vs_sdt(cleared) ELSE cleared
           set == [sie |-> s.spie, spie |-> TRUE, spp |-> U,
                   sdt |-> s.sdt /\ st.prv # S]
       IN  Serialize(set_privilege(
               Leaves(Ends(sstatus_write(vs_ok, set), level), prv, v), prv, v))

\* dcsr and dpc are out of reach outside debug mode and every entry overwrites
\* dpc, dcsr.prv and dcsr.v, so the model forgets those three here.
dret ==
    /\ CanExecute /\ state.debug_mode /\ loop.pc = "rom"
    /\ state.critical_error => ResumesCritical
    /\ LET st == Fetched
           d == st.dcsr
           v == d.v /\ d.prv # M
           m == mstatus_write(st, [st.m EXCEPT !.mdt = @ /\ d.prv = M,
                                               !.sdt = @ /\ ~(d.prv = U \/ d.v)])
           vs_ok == IF d.v /\ d.prv = U THEN clear_vs_sdt(m) ELSE m
           out == set_privilege(Leaves(vs_ok, d.prv, v), d.prv, d.v)
       IN  /\ state' = [out EXCEPT !.debug_mode = FALSE, !.pc = st.dpc,
                  !.dpc = "guest", !.dcsr.prv = U, !.dcsr.v = FALSE,
                  !.single_step = IF d.step THEN "stepping" ELSE @]
           /\ loop' = Outer(loop.left - 1)
                  /\ stepped' = IF d.step THEN 0 ELSE Off

----------------------------------------------------------------------------
(***************************************************************************)
(* Instructions that access a CSR run twice: the first time they only      *)
(* serialize, so that the counters are up to date.                         *)
(***************************************************************************)

validate_csr ==
    /\ CanExecute /\ ~state.serialized
    /\ state' = [Fetched EXCEPT !.serialized = TRUE]
    /\ loop' = [Outer(loop.left) EXCEPT !.csr = TRUE, !.checked = loop.checked]
    /\ UNCHANGED stepped

WriteCsr(st) == Serialize([st EXCEPT !.serialized = FALSE])

CanWriteCsr == Ready /\ loop.pc = "guest" /\ state.serialized

\* The access is refused, or changes nothing modelled here.
csr_insn ==
    /\ Ready /\ state.serialized
    /\ \/ Throw([Fetched EXCEPT !.serialized = FALSE], [int |-> FALSE, bit |-> "fault"])
       \/ WriteCsr(Fetched)

\* Software in M sets or clears MIE.
software_mie(on) ==
    /\ CanWriteCsr /\ state.prv = M
    /\ WriteCsr(mstatus_write(Fetched, [state.m EXCEPT !.mie = on]))

\* The M handler has copied mepc and the previous mode, and clears MDT.
software_clears_mdt ==
    /\ CanWriteCsr /\ state.prv = M /\ state.m.mdt
    /\ WriteCsr(Ends(mstatus_write(Fetched, [state.m EXCEPT !.mdt = FALSE]), "M"))

\* With no context in its registers M chooses the mode it returns to.
software_mpp(prv, v) ==
    /\ CanWriteCsr /\ state.prv = M /\ ~state.saved["M"].live
    /\ WriteCsr(mstatus_write(Fetched, [state.m EXCEPT !.mpp = prv, !.mpv = v]))

Level(st) == IF st.v THEN "VS" ELSE "S"

software_sie(on) ==
    /\ CanWriteCsr /\ state.prv = S
    /\ WriteCsr(sstatus_write(Fetched, [sstatus_read(state) EXCEPT !.sie = on]))

software_clears_sdt ==
    /\ CanWriteCsr /\ state.prv = S /\ sstatus_read(state).sdt
    /\ WriteCsr(Ends(sstatus_write(Fetched, [sstatus_read(state) EXCEPT !.sdt = FALSE]),
                     Level(state)))

software_spp(prv, v) ==
    /\ CanWriteCsr /\ state.prv = S /\ ~state.saved[Level(state)].live
    /\ v => ~state.v
    /\ LET st == sstatus_write(Fetched, [sstatus_read(state) EXCEPT !.spp = prv])
       IN  WriteCsr(IF state.v THEN st ELSE [st EXCEPT !.spv = v])

\* The debugger writes dcsr through the program buffer.
dcsr_write(d) ==
    /\ Ready /\ loop.pc = "rom" /\ state.debug_mode /\ state.serialized
    /\ WriteCsr([Fetched EXCEPT !.dcsr = d])

----------------------------------------------------------------------------
\* state_t::reset, after the firmware has written the delegation registers.
Reset(cfg) ==
    [prv |-> M, v |-> FALSE, debug_mode |-> FALSE, in_wfi |-> FALSE,
     critical_error |-> FALSE, serialized |-> FALSE, single_step |-> "none",
     pc |-> "guest", dpc |-> "guest",
     m |-> [mie |-> FALSE, mpie |-> FALSE, mpp |-> U, mpv |-> FALSE, mdt |-> TRUE,
            sie |-> FALSE, spie |-> FALSE, spp |-> U, sdt |-> FALSE],
     vs |-> [sie |-> FALSE, spie |-> FALSE, spp |-> U, sdt |-> FALSE],
     spv |-> FALSE, cfg |-> cfg,
     dcsr |-> [prv |-> U, v |-> FALSE, step |-> FALSE],
     saved |-> [l \in Levels |-> NoFrame], lost |-> {}]

Init == /\ \E cfg \in Cfgs : state = Reset(cfg)
        /\ loop = AtSlice /\ stepped = Off /\ writes = Writes

\* The debug module resets the hart between slices, whatever it is doing.
reset ==
    /\ loop.at = "slice"
    /\ state' = Reset(state.cfg)
    /\ stepped' = Off
    /\ UNCHANGED loop

Modes == [prv : {U, S}, v : BOOLEAN]

Software ==
    \/ \E on \in BOOLEAN : software_mie(on) \/ software_sie(on)
    \/ software_clears_mdt \/ software_clears_sdt
    \/ \E d \in Modes : software_mpp(d.prv, d.v) \/ software_spp(d.prv, d.v)
    \/ \E d \in DcsrWrites : dcsr_write(d)
    \/ dcsr_write([state.dcsr EXCEPT !.step = TRUE])

Loop == \/ \E request \in BOOLEAN : step(request)
        \/ \E mip \in Pendings : take_interrupt(mip) \/ enter_inner(mip)
        \/ step_done \/ wait

Insn == \/ plain_insn \/ exception_insn("fault")
        \/ \E a \in {"debug", "exception"} : trigger_insn(a)
        \/ \E x \in BOOLEAN : ebreak(x)
        \/ wfi \/ mret \/ sret \/ dret \/ validate_csr \/ csr_insn

Next == \/ (reset \/ Loop \/ Insn) /\ UNCHANGED writes
        \/ writes > 0 /\ Software /\ writes' = writes - 1

Spec == Init /\ [][Next]_vars

----------------------------------------------------------------------------
Frame == [live : BOOLEAN, prv : Prv, v : BOOLEAN, ie : BOOLEAN]

\* The fields of the hart and the locals of the loop stay in range: an M-mode
\* hart is never virtualised, and a slice never retires more than n.
HartType ==
    /\ state.prv \in Prv /\ state.v \in BOOLEAN /\ (state.v => state.prv # M)
    /\ state.m.mpp \in Prv /\ state.m.spp \in {U, S} /\ state.vs.spp \in {U, S}
    /\ state.single_step \in {"none", "stepping", "stepped"}
    /\ state.saved \in [Levels -> Frame] /\ state.lost \subseteq Levels
    /\ loop.at \in {"slice", "outer", "inner"} /\ loop.left \in 0 .. Slice
    /\ stepped \in 0 .. Off /\ writes \in 0 .. Writes

\* While the double-trap bits are in use a trap never overwrites a context that
\* its handler has not copied: an unexpected trap goes to M, and one in M stops
\* the hart, instead of losing where to return.
NoContextLost ==
    /\ "M" \notin state.lost
    /\ "S" \in state.lost => ~state.cfg.mdte
    /\ "VS" \in state.lost => ~HDTE(state)

\* Single stepping: between a dret with dcsr.step and the next entry into debug
\* mode the hart retires at most one instruction, whatever traps, serializing
\* instructions, waits or slice ends come in between.
StepsOne == stepped # 2

\* MDT belongs to M-mode: no instruction or trap leaves M with it set, so the
\* next trap into M is never taken for a double trap.
MdtOnlyInM == state.m.mdt => state.prv = M

\* The state of a hart between its steps: what is saved is not overwritten before it is
\* used, and what privilege a flag speaks of is the privilege the hart has.
HartInv == HartType /\ NoContextLost /\ MdtOnlyInM

Returned(f) == state'.prv = f.prv /\ state'.v = f.v

\* A return from a handler goes back to the mode that was interrupted, with
\* that level's interrupt enable as it was.
ReturnsWhereItCame ==
    [][ LET f == state.saved
        IN  /\ f["M"].live /\ state.prv = M /\ mret =>
                 Returned(f["M"]) /\ state'.m.mie = f["M"].ie
            /\ f["VS"].live /\ state.prv = S /\ state.v /\ sret =>
                 Returned(f["VS"]) /\ state'.vs.sie = f["VS"].ie
            /\ f["S"].live /\ state.prv = S /\ ~state.v /\ sret =>
                 Returned(f["S"]) /\ state'.m.sie = f["S"].ie ]_vars

Rank(prv, v) == IF prv = M THEN 3 ELSE IF prv = S THEN (IF v THEN 1 ELSE 2) ELSE 0

\* An interrupt never lowers the privilege, never enters the running mode while
\* that mode has interrupts off, and never moves a hart that is not virtualised
\* into a guest: what take_interrupt enables is what take_trap delivers.
InterruptsRespectMasks ==
    [][ loop.at = "outer" /\ loop'.at = "slice" /\ ~state'.debug_mode =>
          /\ Rank(state'.prv, state'.v) >= Rank(state.prv, state.v)
          /\ state'.v => state.v
          /\ (state'.prv = M /\ state.prv = M) => state.m.mie
          /\ (state'.prv = S /\ state.prv = S /\ state'.v = state.v)
                => sstatus_read(state).sie ]_vars

\* The hart that has stopped on a critical error executes only the debug ROM.
DebugRunsRom == state.debug_mode /\ loop.at = "inner" => loop.pc = "rom"

=============================================================================
