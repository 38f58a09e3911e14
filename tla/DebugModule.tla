----------------------------- MODULE DebugModule -----------------------------
(***************************************************************************)
(* The debug module (riscv/debug_module.cc) and the harts it controls.     *)
(*                                                                         *)
(* The debugger reaches the module through dmi_read and dmi_write and      *)
(* lets time pass with run_test_idle.  A halted hart runs the debug ROM    *)
(* (debug_rom/debug_rom.S): it announces itself, polls its GO and RESUME   *)
(* flags and acts on them, one instruction at a time; the module learns    *)
(* what the hart does only from the hart's stores to the ROM's addresses.  *)
(* An abstract command is a small program the module leaves for the hart   *)
(* in debug_abstract before it raises the hart's GO flag.                  *)
(*                                                                         *)
(* Left to other modules: the system bus registers.  Left out: registers   *)
(* that are only read back, and hawindowsel (all harts in one window).     *)
(***************************************************************************)
EXTENDS Naturals

CONSTANTS
    NumHarts,                \* cfg.nprocs()
    hartids,                 \* cfg.hartids: hartsel indexes it
    Values,                  \* register values, 0 among them
    DmcontrolValues,         \* what the debugger may write to dmcontrol,
    MaskValues,              \* to hawindow,
    GroupValues,             \* to dmcs2.group,
    CustomValues,            \* to the availability bits of DM_CUSTOM,
    AutoValues,              \* to abstractauto,
    Commands,                \* to command,
    Programs,                \* and to the program buffer
    abstract_rti,            \* config.abstract_rti
    support_hasel,           \* config.support_hasel
    support_haltgroups,      \* config.support_haltgroups
    require_authentication   \* config.require_authentication

Sels  == 0 .. NumHarts - 1
Harts == {hartids[s] : s \in Sels}

\* An abstract command: at most one register transfer, then the program buffer
\* (postexec) or not; the custom registers, which the module serves by itself;
\* and the two ways a command can be unsupported.
Reads       == {"read", "read_exec"}
Writes      == {"write", "write_exec"}
Postexec    == {"exec", "read_exec", "write_exec"}
Transfers   == {"nop"} \cup Reads \cup Writes \cup Postexec
CommandType == Transfers \cup {"custom_read", "custom_write", "badtype", "badreg"}

\* What a program buffer does when a hart runs it.
ProgramType == {"ok", "fault", "loop"}

DmcontrolType ==
    [dmactive : BOOLEAN, haltreq : BOOLEAN, resumereq : BOOLEAN, hartreset : BOOLEAN,
     ackhavereset : BOOLEAN, hasel : BOOLEAN, ndmreset : BOOLEAN, hartsel : Nat]

ASSUME DebugAssumption ==
    /\ NumHarts \in Nat \ {0}
    /\ hartids \in [Sels -> Nat]
    /\ \A s, t \in Sels : s < t => hartids[s] < hartids[t]
    /\ 0 \in Values
    /\ DmcontrolValues \subseteq DmcontrolType
    /\ MaskValues \subseteq SUBSET Harts
    /\ GroupValues \subseteq Nat
    /\ CustomValues \subseteq SUBSET {0, 1}
    /\ AutoValues \subseteq SUBSET {"data", "progbuf"}
    /\ Commands \subseteq CommandType
    /\ Programs \subseteq ProgramType
    /\ abstract_rti \in Nat
    /\ support_hasel \in BOOLEAN
    /\ support_haltgroups \in BOOLEAN
    /\ require_authentication \in BOOLEAN

\* abstractcs.cmderr is a three-bit field the debugger clears bit by bit.
CMDERR_NONE       == {}
CMDERR_BUSY       == {0}
CMDERR_NOTSUP     == {1}
CMDERR_EXCEPTION  == {0, 1}
CMDERR_HALTRESUME == {2}

VARIABLES
    dmactive, hartsel, hasel,     \* dmcontrol
    authenticated,                \* dmstatus.authenticated
    mask,                         \* hart_array_mask
    unavailable,                  \* the harts 0 and 1 whose hart_available_state is false
    halted, resumeack, havereset, haltgroup,   \* hart_state
    go, resume,                   \* debug_rom_flags: the harts whose flag is set
    busy, cmderr, autoexec,       \* abstractcs, abstractauto
    command, abstract, progbuf,   \* command, debug_abstract, program_buffer
    dmdata, custom_base,
    completed, rti_remaining,     \* abstract_command_completed
    halt_request,                 \* per hart
    pc,                           \* per hart: running, or its place in the debug ROM
    xpr,                          \* per hart: the register that commands transfer
    late                          \* history: harts asked to resume while they were not halted

selVars   == <<dmactive, hartsel, hasel, authenticated, mask>>
stateVars == <<halted, resumeack, havereset, haltgroup>>
cmdVars   == <<busy, cmderr, abstract, dmdata, custom_base, completed, rti_remaining, go>>
hartVars  == <<halt_request, pc, xpr>>
vars == <<selVars, unavailable, stateVars, resume, cmdVars, autoexec, command, progbuf,
          hartVars, late>>

Places == {"run", "entry", "poll_go", "poll_resume", "going", "abstract", "progbuf",
           "exception", "resuming", "dret"}

\* The registers of debug_module_t, the flags and the places of the harts keep their ranges.
TypeOK ==
    /\ dmactive \in BOOLEAN /\ hartsel \in Sels /\ hasel \in BOOLEAN
    /\ authenticated \in BOOLEAN
    /\ mask \subseteq Harts
    /\ unavailable \subseteq {0, 1}
    /\ halted \subseteq Harts /\ resumeack \subseteq Harts /\ havereset \subseteq Harts
    /\ haltgroup \in [Harts -> Nat]
    /\ go \subseteq Harts /\ resume \subseteq Harts
    /\ busy \in BOOLEAN /\ cmderr \subseteq {0, 1, 2}
    /\ autoexec \subseteq {"data", "progbuf"}
    /\ command \in CommandType /\ abstract \in Transfers /\ progbuf \in ProgramType
    /\ dmdata \in Values /\ custom_base \in Values
    /\ completed \in BOOLEAN /\ rti_remaining \in Nat
    /\ halt_request \in [Harts -> {"none", "regular", "group"}]
    /\ pc \in [Harts -> Places]
    /\ xpr \in [Harts -> Values]
    /\ late \subseteq Harts

\* The constructor, which ends in reset().  abstract_command_completed is not
\* initialised, nor is command.
Init ==
    /\ dmactive = FALSE /\ hartsel = 0 /\ hasel = FALSE
    /\ authenticated = ~require_authentication
    /\ mask = {} /\ unavailable = {}
    /\ halted = {} /\ resumeack = {} /\ havereset = Harts
    /\ haltgroup = [h \in Harts |-> 0]
    /\ go = {} /\ resume = {}
    /\ busy = FALSE /\ cmderr = CMDERR_NONE /\ autoexec = {}
    /\ command \in Commands \cup {"nop"}
    /\ abstract = "nop"
    /\ progbuf = "ok"
    /\ dmdata = 0 /\ custom_base = 0
    /\ completed \in BOOLEAN /\ rti_remaining = 0
    /\ halt_request = [h \in Harts |-> "none"]
    /\ pc = [h \in Harts |-> "run"]
    /\ xpr = [h \in Harts |-> 0]
    /\ late = {}
-----------------------------------------------------------------------------
selected_hart_id == hartids[hartsel]

hart_available(i) == i \notin unavailable

Selected(sel, multi) == {hartids[sel]} \cup (IF multi THEN mask ELSE {})

\* Mutant: proc_reset leaves the halted bit.
reset_keeps_halted(R) ==
    /\ pc' = [h \in Harts |-> IF h \in R THEN "run" ELSE pc[h]]
    /\ xpr' = [h \in Harts |-> IF h \in R THEN 0 ELSE xpr[h]]
    /\ haltgroup' = [h \in Harts |-> IF h \in R THEN 0 ELSE haltgroup[h]]
    /\ UNCHANGED halted

\* The harts of R go through processor_t::reset and proc_reset.  The ROM flags,
\* the halt requests and a command in flight are not touched.
ResetHarts(R) ==
    /\ pc' = [h \in Harts |-> IF h \in R THEN "run" ELSE pc[h]]
    /\ xpr' = [h \in Harts |-> IF h \in R THEN 0 ELSE xpr[h]]
    /\ halted' = halted \ R
    /\ haltgroup' = [h \in Harts |-> IF h \in R THEN 0 ELSE haltgroup[h]]

\* debug_module_t::reset, of the registers other than dmcontrol and dmstatus.
ResetAbstract(fresh) ==
    /\ busy' = (busy /\ ~fresh)
    /\ cmderr' = IF fresh THEN CMDERR_NONE ELSE cmderr
    /\ autoexec' = IF fresh THEN {} ELSE autoexec
    /\ UNCHANGED <<abstract, dmdata, custom_base, completed, rti_remaining, go, command, progbuf>>

\* A dmcontrol write that ends before it selects harts: the module is switched
\* off, or switched on while the debugger is not authenticated.
dmcontrol_off ==
    /\ dmactive' = FALSE
    /\ UNCHANGED <<hartsel, hasel, authenticated, mask, unavailable, stateVars, resume, cmdVars,
                   autoexec, command, progbuf, hartVars, late>>

dmcontrol_locked ==
    LET fresh == ~dmactive
    IN  /\ ~(IF fresh THEN ~require_authentication ELSE authenticated)
        /\ dmactive' = TRUE
        /\ authenticated' = FALSE
        /\ hartsel' = IF fresh THEN 0 ELSE hartsel
        /\ hasel' = (hasel /\ ~fresh)
        /\ halt_request' = IF fresh THEN [h \in Harts |-> "none"] ELSE halt_request
        /\ ResetAbstract(fresh)
        /\ UNCHANGED <<mask, unavailable, stateVars, resume, pc, xpr, late>>

\* A dmcontrol write that takes effect.  Switching the module on resets it
\* first; then the selection, and for the selected harts, in this order, the
\* reset acknowledgement, the halt request, the resume request and the reset.
dmi_write_dmcontrol(v) ==
    LET fresh == ~dmactive
        sel   == IF v.hartsel < NumHarts THEN v.hartsel ELSE NumHarts - 1
        multi == support_hasel /\ v.hasel
        S     == Selected(sel, multi)
        avail == {h \in S : hart_available(h)}
        hold  == IF v.haltreq THEN avail ELSE {}
        wake  == IF v.resumereq THEN avail ELSE {}
        R     == (IF v.hartreset THEN avail ELSE {}) \cup (IF v.ndmreset THEN Harts ELSE {})
    IN  /\ v.dmactive
        /\ IF fresh THEN ~require_authentication ELSE authenticated
        /\ dmactive' = TRUE
        /\ authenticated' = TRUE
        /\ hartsel' = sel
        /\ hasel' = multi
        /\ halt_request' = [h \in Harts |-> IF h \in hold THEN "regular"
                                            ELSE IF h \in S \/ fresh THEN "none"
                                            ELSE halt_request[h]]
        /\ resume' = resume \cup wake
        /\ resumeack' = resumeack \ wake
        /\ havereset' = (IF v.ackhavereset THEN havereset \ S ELSE havereset) \cup R
        /\ late' = (late \ wake) \cup (wake \ halted)
        /\ ResetHarts(R)
        /\ ResetAbstract(fresh)
        /\ UNCHANGED <<mask, unavailable>>

-----------------------------------------------------------------------------
\* perform_abstract_command for command cmd when data is what data0 holds: an
\* early return for every reason not to start, then the registers the module
\* serves itself, then a program for the hart.
Refuse(err) ==
    /\ cmderr' = err
    /\ UNCHANGED <<busy, abstract, custom_base, completed, rti_remaining, go>>

perform_abstract_command(cmd, data) ==
    \/ /\ cmderr # CMDERR_NONE
       /\ Refuse(cmderr)
       /\ dmdata' = data
    \/ /\ cmderr = CMDERR_NONE
       /\ busy
       /\ Refuse(CMDERR_BUSY)
       /\ dmdata' = data
    \/ /\ cmderr = CMDERR_NONE
       /\ ~busy
       /\ ~hart_available(hartsel)
       /\ Refuse(CMDERR_HALTRESUME)
       /\ dmdata' = data
    \/ /\ cmderr = CMDERR_NONE
       /\ ~busy
       /\ hart_available(hartsel)
       /\ \/ /\ cmd # "badtype"
             /\ selected_hart_id \notin halted
             /\ Refuse(CMDERR_HALTRESUME)
             /\ dmdata' = data
          \/ /\ cmd = "badtype" \/ (cmd = "badreg" /\ selected_hart_id \in halted)
             /\ Refuse(CMDERR_NOTSUP)
             /\ dmdata' = data
          \/ /\ cmd \in {"custom_read", "custom_write"}
             /\ selected_hart_id \in halted
             /\ dmdata' = IF cmd = "custom_read" THEN custom_base ELSE data
             /\ custom_base' = IF cmd = "custom_write" THEN data ELSE custom_base
             /\ UNCHANGED <<busy, cmderr, abstract, completed, rti_remaining, go>>
          \/ /\ cmd \in Transfers
             /\ selected_hart_id \in halted
             /\ abstract' = cmd
             /\ go' = go \cup {selected_hart_id}
             /\ rti_remaining' = abstract_rti
             /\ completed' = FALSE
             /\ busy' = TRUE
             /\ dmdata' = data
             /\ UNCHANGED <<cmderr, custom_base>>

noCmdVars == <<selVars, unavailable, stateVars, resume, hartVars, late>>

dmi_write_command(cmd) ==
    /\ authenticated
    /\ command' = cmd
    /\ perform_abstract_command(cmd, dmdata)
    /\ UNCHANGED <<noCmdVars, autoexec, progbuf>>

\* An access to data0: data is its value afterwards.
AccessData(data) ==
    /\ \/ /\ busy
          /\ cmderr' = IF cmderr = CMDERR_NONE THEN CMDERR_BUSY ELSE cmderr
          /\ UNCHANGED <<busy, abstract, dmdata, custom_base, completed, rti_remaining, go>>
       \/ /\ ~busy
          /\ "data" \in autoexec
          /\ perform_abstract_command(command, data)
       \/ /\ ~busy
          /\ "data" \notin autoexec
          /\ dmdata' = data
          /\ UNCHANGED <<busy, cmderr, abstract, custom_base, completed, rti_remaining, go>>
    /\ UNCHANGED <<noCmdVars, autoexec, command, progbuf>>

dmi_read_data == AccessData(dmdata)

dmi_write_data(d) == authenticated /\ AccessData(d)

\* An access to progbuf0: p is its contents afterwards.  While a command is in
\* flight the access has no effect at all.
AccessProgbuf(p) ==
    /\ ~busy
    /\ progbuf' = p
    /\ \/ /\ "progbuf" \in autoexec
          /\ perform_abstract_command(command, dmdata)
       \/ /\ "progbuf" \notin autoexec
          /\ UNCHANGED cmdVars
    /\ UNCHANGED <<noCmdVars, autoexec, command>>

dmi_read_progbuf == AccessProgbuf(progbuf)

dmi_write_progbuf(p) == authenticated /\ AccessProgbuf(p)

\* abstractcs: the bits written as one are cleared.
dmi_write_abstractcs(bits) ==
    /\ authenticated
    /\ cmderr' = cmderr \ bits
    /\ UNCHANGED <<noCmdVars, busy, abstract, dmdata, custom_base, completed, rti_remaining, go,
                   autoexec, command, progbuf>>

dmi_write_abstractauto(a) ==
    /\ authenticated
    /\ autoexec' = a
    /\ UNCHANGED <<noCmdVars, cmdVars, command, progbuf>>

dmi_write_hawindow(m) ==
    /\ authenticated
    /\ mask' = m
    /\ UNCHANGED <<dmactive, hartsel, hasel, authenticated, unavailable, stateVars, resume, cmdVars,
                   autoexec, command, progbuf, hartVars, late>>

dmi_write_authdata(right) ==
    /\ require_authentication
    /\ authenticated' = right
    /\ UNCHANGED <<dmactive, hartsel, hasel, mask, unavailable, stateVars, resume, cmdVars,
                   autoexec, command, progbuf, hartVars, late>>

dmi_write_dmcs2(g) ==
    /\ authenticated
    /\ support_haltgroups
    /\ haltgroup' = [haltgroup EXCEPT ![selected_hart_id] = g]
    /\ UNCHANGED <<selVars, unavailable, halted, resumeack, havereset, resume, cmdVars,
                   autoexec, command, progbuf, hartVars, late>>

dmi_write_custom(u) ==
    /\ authenticated
    /\ unavailable' = u
    /\ UNCHANGED <<selVars, stateVars, resume, cmdVars, autoexec, command, progbuf, hartVars, late>>

\* Mutant: the counter is decremented without a test for zero.
idle_underflow ==
    /\ rti_remaining' = rti_remaining - 1
    /\ busy' = (busy /\ ~(rti_remaining' = 0 /\ completed))
    /\ UNCHANGED <<noCmdVars, cmderr, abstract, dmdata, custom_base, completed, go,
                   autoexec, command, progbuf>>

\* One JTAG cycle in Run-Test/Idle.
run_test_idle ==
    LET left == IF rti_remaining > 0 THEN rti_remaining - 1 ELSE 0
    IN  /\ rti_remaining' = left
        /\ busy' = (busy /\ ~(left = 0 /\ completed))
        /\ UNCHANGED <<noCmdVars, cmderr, abstract, dmdata, custom_base, completed, go,
                       autoexec, command, progbuf>>
-----------------------------------------------------------------------------
(***************************************************************************)
(* The harts.  processor_t::step enters debug mode at the head of a time   *)
(* slice when a halt is requested; a breakpoint, a trigger, a single step  *)
(* or dcsr.halt brings a hart there by itself.                             *)
(***************************************************************************)
noHartVars == <<selVars, unavailable, stateVars, resume, cmdVars, autoexec, command, progbuf>>

Goto(h, place) == pc' = [pc EXCEPT ![h] = place]

step_halt(h) ==
    /\ pc[h] = "run"
    /\ halt_request[h] # "none"
    /\ Goto(h, "entry")
    /\ UNCHANGED <<noHartVars, halt_request, xpr, late>>

step_break(h) ==
    /\ pc[h] = "run"
    /\ Goto(h, "entry")
    /\ UNCHANGED <<noHartVars, halt_request, xpr, late>>

\* Software running on the hart changes its registers.
step_run(h, val) ==
    /\ pc[h] = "run"
    /\ xpr' = [xpr EXCEPT ![h] = val]
    /\ UNCHANGED <<noHartVars, halt_request, pc, late>>

\* Mutant: an announcement completes the command even while GO is up.
halted_completes_early(h) ==
    /\ pc[h] = "entry"
    /\ Goto(h, "poll_go")
    /\ halted' = halted \cup {h}
    /\ completed' = (completed \/ selected_hart_id = h)
    /\ UNCHANGED <<selVars, unavailable, resumeack, havereset, haltgroup, resume, busy, cmderr,
                   abstract, dmdata, custom_base, rti_remaining, go, autoexec, command,
                   progbuf, xpr, late, halt_request>>

\* Mutant: the halt group reaches unavailable harts too.
halted_asks_all(h) ==
    LET mates == IF h \notin halted /\ haltgroup[h] # 0
                 THEN {k \in Harts \ (halted \cup {h}) : haltgroup[k] = haltgroup[h]}
                 ELSE {}
    IN  /\ pc[h] = "entry"
        /\ Goto(h, "poll_go")
        /\ halted' = halted \cup {h}
        /\ halt_request' = [k \in Harts |-> IF k \in mates THEN "group" ELSE halt_request[k]]
        /\ completed' = (completed \/ (selected_hart_id = h /\ h \notin go))
        /\ UNCHANGED <<selVars, unavailable, resumeack, havereset, haltgroup, resume, busy, cmderr,
                       abstract, dmdata, custom_base, rti_remaining, go, autoexec, command,
                       progbuf, xpr, late>>

\* entry_loop: sw s0, DEBUG_ROM_HALTED.  The first announcement asks the rest
\* of the hart's halt group to halt; an announcement of the selected hart with
\* GO clear means that its command is over.
rom_halted(h) ==
    LET mates == IF h \notin halted /\ haltgroup[h] # 0
                 THEN {k \in Harts \ (halted \cup {h}) :
                          haltgroup[k] = haltgroup[h] /\ hart_available(k)}
                 ELSE {}
    IN  /\ pc[h] = "entry"
        /\ Goto(h, "poll_go")
        /\ halted' = halted \cup {h}
        /\ halt_request' = [k \in Harts |-> IF k \in mates THEN "group" ELSE halt_request[k]]
        /\ completed' = (completed \/ (selected_hart_id = h /\ h \notin go))
        /\ UNCHANGED <<selVars, unavailable, resumeack, havereset, haltgroup, resume, busy, cmderr,
                       abstract, dmdata, custom_base, rti_remaining, go, autoexec, command,
                       progbuf, xpr, late>>

rom_poll_go(h) ==
    /\ pc[h] = "poll_go"
    /\ Goto(h, IF h \in go THEN "going" ELSE "poll_resume")
    /\ UNCHANGED <<noHartVars, halt_request, xpr, late>>

\* The wfi at the end of the loop is a nop in debug mode.
rom_poll_resume(h) ==
    /\ pc[h] = "poll_resume"
    /\ Goto(h, IF h \in resume THEN "resuming" ELSE "entry")
    /\ UNCHANGED <<noHartVars, halt_request, xpr, late>>

\* Mutant: the GO flag stays up.
going_keeps_go(h) ==
    /\ pc[h] = "going"
    /\ Goto(h, "abstract")
    /\ UNCHANGED <<noHartVars, halt_request, xpr, late>>

\* going: sw s0, DEBUG_ROM_GOING, then the jump to debug_abstract.
rom_going(h) ==
    /\ pc[h] = "going"
    /\ Goto(h, "abstract")
    /\ go' = go \ {h}
    /\ UNCHANGED <<selVars, unavailable, stateVars, resume, halt_request, xpr, late, busy, cmderr, abstract, dmdata, custom_base, completed,
                   rti_remaining, autoexec, command, progbuf>>

\* The hart runs what debug_abstract holds now, then the program buffer or an
\* ebreak, which in debug mode leads back to the entry.
rom_abstract(h) ==
    /\ pc[h] = "abstract"
    /\ Goto(h, IF abstract \in Postexec THEN "progbuf" ELSE "entry")
    /\ dmdata' = IF abstract \in Reads THEN xpr[h] ELSE dmdata
    /\ xpr' = IF abstract \in Writes THEN [xpr EXCEPT ![h] = dmdata] ELSE xpr
    /\ UNCHANGED <<selVars, unavailable, stateVars, resume, halt_request, late, busy, cmderr,
                   abstract, custom_base, completed, rti_remaining, go, autoexec, command, progbuf>>

\* The transfer names a register the hart does not have.
rom_abstract_trap(h) ==
    /\ pc[h] = "abstract"
    /\ abstract \in Reads \cup Writes
    /\ Goto(h, "exception")
    /\ UNCHANGED <<noHartVars, halt_request, xpr, late>>

\* The program buffer is the debugger's own code: before its ebreak, or the
\* exception that ends it, it may leave anything in the register and in data0.
rom_progbuf(h) ==
    /\ pc[h] = "progbuf"
    /\ progbuf # "loop"
    /\ Goto(h, IF progbuf = "ok" THEN "entry" ELSE "exception")
    /\ dmdata' \in Values
    /\ \E val \in Values : xpr' = [xpr EXCEPT ![h] = val]
    /\ UNCHANGED <<selVars, unavailable, stateVars, resume, halt_request, late, busy, cmderr,
                   abstract, custom_base, completed, rti_remaining, go, autoexec, command, progbuf>>

\* Mutant: an exception is not recorded.
exception_unrecorded(h) ==
    /\ pc[h] = "exception"
    /\ Goto(h, "entry")
    /\ UNCHANGED <<noHartVars, halt_request, xpr, late>>

\* _exception: sw zero, DEBUG_ROM_EXCEPTION, then ebreak.
rom_exception(h) ==
    /\ pc[h] = "exception"
    /\ Goto(h, "entry")
    /\ cmderr' = IF cmderr = CMDERR_NONE THEN CMDERR_EXCEPTION ELSE cmderr
    /\ UNCHANGED <<selVars, unavailable, stateVars, resume, halt_request, xpr, late, busy, abstract, dmdata, custom_base, completed, rti_remaining,
                   go, autoexec, command, progbuf>>

\* Mutant: the RESUME flag stays up.
resuming_keeps_flag(h) ==
    /\ pc[h] = "resuming"
    /\ Goto(h, "dret")
    /\ halted' = halted \ {h}
    /\ resumeack' = resumeack \cup {h}
    /\ UNCHANGED <<selVars, unavailable, havereset, haltgroup, cmdVars, autoexec, command, progbuf,
                   halt_request, xpr, late, resume>>

\* _resume: sw s0, DEBUG_ROM_RESUMING; the hart leaves debug mode with dret.
rom_resuming(h) ==
    /\ pc[h] = "resuming"
    /\ Goto(h, "dret")
    /\ halted' = halted \ {h}
    /\ resumeack' = resumeack \cup {h}
    /\ resume' = resume \ {h}
    /\ late' = late \ {h}
    /\ UNCHANGED <<selVars, unavailable, havereset, haltgroup, cmdVars, autoexec, command, progbuf,
                   halt_request, xpr>>

rom_dret(h) ==
    /\ pc[h] = "dret"
    /\ Goto(h, "run")
    /\ UNCHANGED <<noHartVars, halt_request, xpr, late>>

-----------------------------------------------------------------------------
Control ==
    \/ \E v \in DmcontrolValues : ~v.dmactive /\ dmcontrol_off
    \/ \E v \in DmcontrolValues : v.dmactive /\ dmcontrol_locked
    \/ \E v \in DmcontrolValues : dmi_write_dmcontrol(v)

Access ==
    \/ \E cmd \in Commands : dmi_write_command(cmd)
    \/ dmi_read_data
    \/ \E d \in Values : dmi_write_data(d)
    \/ dmi_read_progbuf
    \/ \E p \in Programs : dmi_write_progbuf(p)
    \/ \E bits \in SUBSET {0, 1, 2} : dmi_write_abstractcs(bits)
    \/ \E a \in AutoValues : dmi_write_abstractauto(a)
    \/ \E m \in MaskValues : dmi_write_hawindow(m)
    \/ \E right \in BOOLEAN : dmi_write_authdata(right)
    \/ \E g \in GroupValues : dmi_write_dmcs2(g)
    \/ \E u \in CustomValues : dmi_write_custom(u)

Rom(h) ==
    \/ step_halt(h)
    \/ rom_halted(h)
    \/ rom_poll_go(h)
    \/ rom_poll_resume(h)
    \/ rom_going(h)
    \/ rom_abstract(h)
    \/ rom_abstract_trap(h)
    \/ rom_progbuf(h)
    \/ rom_exception(h)
    \/ rom_resuming(h)
    \/ rom_dret(h)

Hart(h) ==
    \/ Rom(h)
    \/ step_break(h)
    \/ \E val \in Values : step_run(h, val)

Next == Control \/ Access \/ run_test_idle \/ \E h \in Harts : Hart(h)

Spec == Init /\ [][Next]_vars
-----------------------------------------------------------------------------
(***************************************************************************)
(* Whatever the debugger does.                                             *)
(***************************************************************************)
Polling   == {"poll_go", "poll_resume", "resuming"}
Executing == {"going", "abstract", "progbuf", "exception"}

\* The module's idea of a hart agrees with the hart: one it calls halted is in
\* the debug ROM, and one that polls its flags or runs a command is halted in
\* the module's eyes, so that no command is refused or started by mistake.
HaltedIsTrue ==
    \A h \in Harts :
        /\ h \in halted => pc[h] \notin {"run", "dret"}
        /\ pc[h] \in Polling \cup Executing => h \in halted

\* resumeack never stands for an older request: while a RESUME flag is up the
\* hart's acknowledgement is down.
AckIsFresh == resume \cap resumeack = {}

\* A hart marked unavailable is asked for nothing: neither a selection of
\* several harts nor a halt group it belongs to requests its halt or its
\* resumption.
UnavailableLeftAlone ==
    [][\A h \in Harts \cap unavailable :
            /\ halt_request'[h] \in {halt_request[h], "none"}
            /\ h \in resume' => h \in resume]_vars

\* debug_defines.h:2128: "Writing 1 causes the currently selected harts to
\* resume once, if they are halted when the write occurs."  A hart that resumes
\* was halted when it was asked to.
NoLateResume == \A h \in Harts : pc[h] = "resuming" => h \notin late

\* debug_defines.h:2392 of abstractcs.busy: "This bit is set as soon as
\* {dm-command} is written, and is not cleared until that command has
\* completed."  When busy falls, other than by a reset of the module, no hart
\* has a command to run or is running one.
BusyHeldUntilDone ==
    [][busy /\ ~busy' /\ dmactive => \A h \in Harts : h \notin go /\ pc[h] \notin Executing]_vars

-----------------------------------------------------------------------------
(***************************************************************************)
(* A debugger that waits: it leaves dmcontrol and cmderr alone while a     *)
(* command is in flight, and starts no command on a hart it has asked to   *)
(* resume before the hart has answered.                                    *)
(***************************************************************************)
Polite ==
    /\ busy => cmderr \subseteq cmderr'
    /\ go' \cap resume \subseteq go

CarefulNext ==
    \/ ~busy /\ Control
    \/ Access /\ Polite
    \/ run_test_idle
    \/ \E h \in Harts : Hart(h)

CarefulSpec == Init /\ [][CarefulNext]_vars

\* A hart that has been told to go, or runs a command, is the selected hart and
\* busy is up: at most one hart runs debug_abstract, and it is not rewritten
\* meanwhile.
BusyUntilDone ==
    \A h \in Harts :
        h \in go \/ pc[h] \in Executing => busy /\ ~completed /\ h = selected_hart_id

\* A read has left the register of the selected hart in data0, a write has put
\* data0 there.
Transferred == abstract \in Reads \cup Writes => dmdata = xpr[selected_hart_id]

\* A hart runs the program buffer.
RunsProgram == \E h \in Harts : pc[h] = "progbuf" /\ pc'[h] # "progbuf"

\* What a command that reports no error has done, however the hart's steps, the
\* idle cycles and other accesses fell in between: the transfer has taken place
\* when busy falls, and where the program buffer runs after the transfer, which
\* may then change both sides of it, when that program starts.
CommandEffect ==
    [][/\ cmderr = CMDERR_NONE
       /\ (busy /\ ~busy' /\ abstract \notin Postexec) \/ RunsProgram
       => Transferred]_vars

\* Harts get their time slices from sim_t::step in turn, and the debugger
\* spends idle cycles while it waits.
FairSpec ==
    /\ CarefulSpec
    /\ \A h \in Harts : WF_vars(Rom(h))
    /\ WF_vars(run_test_idle)

\* A command comes to an end and busy falls.
CommandCompletes == busy ~> ~busy

\* A requested halt, of the debugger or of a halt group, takes place unless it
\* is withdrawn.
HaltWorks ==
    \A h \in Harts : halt_request[h] # "none" ~> (h \in halted \/ halt_request[h] = "none")

\* A halted hart that is asked to resume does.
ResumeWorks == \A h \in Harts : (h \in halted \cap resume) ~> h \notin resume

\* Whatever the debugger asked for comes to an end: the command it waits for, the halt, by
\* its own request or through a halt group, and the resumption.
RequestsServed == CommandCompletes /\ HaltWorks /\ ResumeWorks
=============================================================================
