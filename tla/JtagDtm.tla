------------------------------ MODULE JtagDtm ------------------------------
(***************************************************************************)
(* The JTAG transport (riscv/jtag_dtm.cc), driven pin by pin by the        *)
(* commands a debugger sends over a socket (riscv/remote_bitbang.cc), with *)
(* the system bus registers of the debug module behind it.                 *)
(*                                                                         *)
(* What a scan shifts in is the debugger's choice, so a clock in Shift-DR  *)
(* leaves any value it may have in mind in the register; TDI and TDO are   *)
(* not modelled bit by bit.                                                *)
(***************************************************************************)
EXTENDS SystemBus

CONSTANTS
    required_rti_cycles,  \* idle cycles an operation needs before it is complete
    DmiScans              \* the operations the debugger may shift in

VARIABLES
    tck, tms,         \* the pins as the last set_pins left them
    state,            \* _state of the TAP controller
    ir,               \* the register a DR scan reaches
    dr,               \* what it holds
    dmi,              \* the last operation, with its status in the place of op
    rti_remaining,    \* idle cycles before that operation counts as complete
    busy_stuck,       \* an operation was scanned too early
    seen,             \* history: the status the running DBUS scan captured
    times,            \* history: how often it was applied
    dropped           \* history: an operation was refused since the last dmireset

tapVars  == <<state, ir, dr, dmi, rti_remaining, busy_stuck, seen, times, dropped>>
vars     == <<tapVars, tck, tms, sbVars>>

\* Operation codes and, in the same bits, statuses.
DMI_OP_NOP            == 0
DMI_OP_READ           == 1
DMI_OP_WRITE          == 2
DMI_OP_STATUS_SUCCESS == 0
DMI_OP_STATUS_FAILED  == 2
DMI_OP_STATUS_BUSY    == 3

DmiRegs  == {"sbaddress0", "sbaddress1", "sbdata0", "sbdata1", "sbcs", "dmcontrol", "none"}
Dtmcs    == {"nothing", "dmireset", "dmihardreset"}
IrType   == {"idcode", "dtmcontrol", "dbus", "bypass"}

Scan(op, reg, value) == [op |-> op, reg |-> reg, value |-> value]
Nothing              == Scan(DMI_OP_NOP, "nothing", 0)

\* What the DR may hold: a value of sbcs for sbcs, a word for any other register.
ScanType ==
    [op : 0 .. 3, reg : (DmiRegs \ {"sbcs"}) \cup Dtmcs, value : Words] \cup
    [op : 0 .. 3, reg : {"sbcs"}, value : SbcsType]

ASSUME JtagAssumption ==
    /\ required_rti_cycles \in Nat
    /\ DmiScans \subseteq ScanType

\* The TAP controller: the next state with TMS low and with TMS high.
Next2 ==
    [test_logic_reset |-> <<"run_test_idle", "test_logic_reset">>,
     run_test_idle    |-> <<"run_test_idle", "select_dr_scan">>,
     select_dr_scan   |-> <<"capture_dr", "select_ir_scan">>,
     capture_dr       |-> <<"shift_dr", "exit1_dr">>,
     shift_dr         |-> <<"shift_dr", "exit1_dr">>,
     exit1_dr         |-> <<"pause_dr", "update_dr">>,
     pause_dr         |-> <<"pause_dr", "exit2_dr">>,
     exit2_dr         |-> <<"shift_dr", "update_dr">>,
     update_dr        |-> <<"run_test_idle", "select_dr_scan">>,
     select_ir_scan   |-> <<"capture_ir", "test_logic_reset">>,
     capture_ir       |-> <<"shift_ir", "exit1_ir">>,
     shift_ir         |-> <<"shift_ir", "exit1_ir">>,
     exit1_ir         |-> <<"pause_ir", "update_ir">>,
     pause_ir         |-> <<"pause_ir", "exit2_ir">>,
     exit2_ir         |-> <<"shift_ir", "update_ir">>,
     update_ir        |-> <<"run_test_idle", "select_dr_scan">>]

JtagStates == DOMAIN Next2

\* The constructor leaves ir, dr, rti_remaining and busy_stuck as they are.
Init ==
    /\ SbInit
    /\ tck = FALSE
    /\ tms = FALSE
    /\ state = "test_logic_reset"
    /\ ir \in IrType
    /\ dr = Nothing
    /\ dmi = Nothing
    /\ rti_remaining \in 0 .. required_rti_cycles
    /\ busy_stuck \in BOOLEAN
    /\ seen = DMI_OP_STATUS_SUCCESS
    /\ times = 0
    /\ dropped = FALSE
-----------------------------------------------------------------------------
\* jtag_dtm_t::reset.
TapReset ==
    /\ state' = "test_logic_reset"
    /\ busy_stuck' = FALSE
    /\ rti_remaining' = 0
    /\ dmi' = Nothing
    /\ dropped' = FALSE

\* debug_module_t::dmi_write and dmi_read; FALSE for an unknown register.
DmiSucceeds(o) == o.reg # "none"

DmiWrite(o) ==
    \/ o.reg = "sbcs" /\ dmi_write_sbcs(o.value)
    \/ o.reg = "sbaddress0" /\ dmi_write_sbaddress(0, o.value)
    \/ o.reg = "sbaddress1" /\ dmi_write_sbaddress(1, o.value)
    \/ o.reg = "sbdata0" /\ dmi_write_sbdata(0, o.value)
    \/ o.reg = "sbdata1" /\ dmi_write_sbdata(1, o.value)
    \/ o.reg = "dmcontrol" /\ dmi_write_dmcontrol(o.value = 1)
    \/ o.reg = "none" /\ UNCHANGED sbVars

DmiRead(o) ==
    \/ o.reg = "sbdata0" /\ dmi_read_sbdata(0)
    \/ o.reg = "sbdata1" /\ dmi_read_sbdata(1)
    \/ o.reg \notin {"sbdata0", "sbdata1"} /\ UNCHANGED sbVars

\* The operation of a DBUS scan.  dmi is the scanned value with the status in
\* the place of the operation.
DmiApply(o) ==
    /\ \/ o.op = DMI_OP_READ /\ DmiRead(o)
       \/ o.op = DMI_OP_WRITE /\ DmiWrite(o)
       \/ o.op \notin {DMI_OP_READ, DMI_OP_WRITE} /\ UNCHANGED sbVars
    /\ LET failed == o.op \in {DMI_OP_READ, DMI_OP_WRITE} /\ ~DmiSucceeds(o)
       IN  dmi' = [o EXCEPT !.op = IF failed THEN DMI_OP_STATUS_FAILED ELSE DMI_OP_STATUS_SUCCESS]
    /\ rti_remaining' = required_rti_cycles

\* Mutant: the busy status is not sticky.
capture_forgives ==
    /\ IF ir = "dbus"
       THEN /\ dr' = IF rti_remaining > 0 THEN Scan(DMI_OP_STATUS_BUSY, "none", 0) ELSE dmi
            /\ busy_stuck' = (rti_remaining > 0)
            /\ seen' = IF rti_remaining > 0 THEN DMI_OP_STATUS_BUSY ELSE dmi.op
       ELSE /\ dr' = Nothing
            /\ UNCHANGED <<busy_stuck, seen>>
    /\ times' = 0
    /\ UNCHANGED <<state, ir, dmi, rti_remaining, dropped, sbVars>>

capture_dr ==
    LET busy == rti_remaining > 0 \/ busy_stuck
    IN  /\ IF ir = "dbus"
           THEN /\ dr' = IF busy THEN Scan(DMI_OP_STATUS_BUSY, "none", 0) ELSE dmi
                /\ busy_stuck' = busy
                /\ seen' = IF busy THEN DMI_OP_STATUS_BUSY ELSE dmi.op
           ELSE /\ dr' = Nothing
                /\ UNCHANGED <<busy_stuck, seen>>
        /\ times' = 0
        /\ UNCHANGED <<state, ir, dmi, rti_remaining, dropped, sbVars>>

\* Mutant: the operation of a scan that found the port busy is done anyway.
update_ignores_busy ==
    \/ /\ ir = "dbus"
       /\ DmiApply(dr)
       /\ times' = times + 1
       /\ UNCHANGED <<state, ir, dr, busy_stuck, seen, dropped>>
    \/ /\ ir # "dbus"
       /\ UNCHANGED <<tapVars, sbVars>>

update_dr ==
    \/ /\ ir = "dtmcontrol"
       /\ \/ dr.reg = "dmihardreset" /\ TapReset
          \/ /\ dr.reg # "dmihardreset"
             /\ busy_stuck' = (busy_stuck /\ dr.reg # "dmireset")
             /\ dropped' = (dropped /\ dr.reg # "dmireset")
             /\ UNCHANGED <<state, dmi, rti_remaining>>
       /\ UNCHANGED <<ir, dr, seen, times, sbVars>>
    \/ /\ ir = "dbus" /\ ~busy_stuck
       /\ DmiApply(dr)
       /\ times' = times + 1
       /\ UNCHANGED <<state, ir, dr, busy_stuck, seen, dropped>>
    \/ /\ ir = "dbus" /\ busy_stuck
       /\ dropped' = (dropped \/ dr.op \in {DMI_OP_READ, DMI_OP_WRITE})
       /\ UNCHANGED <<state, ir, dr, dmi, rti_remaining, busy_stuck, seen, times, sbVars>>
    \/ /\ ir \notin {"dtmcontrol", "dbus"}
       /\ UNCHANGED <<tapVars, sbVars>>

\* The rising edge samples the pins as the previous call left them.
Rise ==
    /\ state' = Next2[state][IF tms THEN 2 ELSE 1]
    /\ IF state = "shift_dr"
       THEN dr' \in IF ir = "dbus" THEN DmiScans ELSE {Scan(DMI_OP_NOP, r, 0) : r \in Dtmcs}
       ELSE UNCHANGED dr
    /\ IF state = "shift_ir" THEN ir' \in IrType ELSE UNCHANGED ir
    /\ UNCHANGED <<dmi, rti_remaining, busy_stuck, seen, times, dropped, sbVars>>

\* Any other call, a falling edge or not.
Fall ==
    \/ /\ state = "run_test_idle"
       /\ rti_remaining' = IF rti_remaining > 0 THEN rti_remaining - 1 ELSE 0
       /\ sb_idle
       /\ UNCHANGED <<state, ir, dr, dmi, busy_stuck, seen, times, dropped>>
    \/ /\ state = "test_logic_reset"
       /\ ir' = "idcode"
       /\ UNCHANGED <<state, dr, dmi, rti_remaining, busy_stuck, seen, times, dropped, sbVars>>
    \/ state = "capture_dr" /\ capture_dr
    \/ state = "update_dr" /\ update_dr
    \/ /\ state \notin {"run_test_idle", "test_logic_reset", "capture_dr", "update_dr"}
       /\ UNCHANGED <<tapVars, sbVars>>

set_pins(c, m) ==
    /\ IF ~tck /\ c THEN Rise ELSE Fall
    /\ tck' = c
    /\ tms' = m
-----------------------------------------------------------------------------
(***************************************************************************)
(* remote_bitbang_t::execute_commands: each command of the socket sets the *)
(* pins or resets the TAP.  How the commands are batched and who is        *)
(* connected makes no difference to the TAP: nothing is reset when a       *)
(* debugger goes or comes.                                                 *)
(***************************************************************************)
command_pins(c, m) == set_pins(c, m)

command_reset ==
    /\ TapReset
    /\ UNCHANGED <<ir, dr, seen, times, tck, tms, sbVars>>

\* A debugger that lets the clock alternate and, as debug_defines.h:2687 asks,
\* leaves sbcs alone (and the module on) while an access is in flight.
Careful == sb_busy => sbcs'.sbaccess = sbcs.sbaccess

Next ==
    \/ \E m \in BOOLEAN : command_pins(~tck, m) /\ Careful
    \/ command_reset

Spec == Init /\ [][Next]_vars
-----------------------------------------------------------------------------
\* The registers of jtag_dtm_t and of the system bus keep their ranges.
TypeOK ==
    /\ sbcs \in SbcsType
    /\ sbaddress \in [0 .. 3 -> Words]
    /\ sbdata \in [0 .. 1 -> Words]
    /\ sb_read_wait \in 0 .. SbWait
    /\ sb_write_wait \in 0 .. SbWait
    /\ state \in JtagStates
    /\ ir \in IrType
    /\ dr.op \in 0 .. 3
    /\ rti_remaining \in 0 .. required_rti_cycles

\* The access that happens is the access that was asked for: from the request
\* to the idle cycle that performs it, whatever is scanned in between, the
\* registers it reads keep the values they had, and one access waits at a time.
InFlightIntact ==
    sb_busy =>
        /\ sb_read_wait = 0 \/ sb_write_wait = 0
        /\ asked = Access(IF sb_read_wait > 0 THEN "read" ELSE "write", sbaddress, sbdata)

\* No request is lost without a trace: while one was refused or failed and the
\* debugger has not acknowledged it, an error bit says so.
NoSilentLoss == lost => sbcs.error # NoError \/ sbcs.sbbusyerror

\* The same of the transport: while an operation was refused and not
\* acknowledged by dmireset, the busy status sticks, so that nothing that
\* follows it is done in its place.
DroppedSticks == dropped => busy_stuck

\* The registers keep their widths, and what the port refused is not forgotten.
DtmInv == TypeOK /\ DroppedSticks

\* A scan whose status is not busy has its operation done exactly once, one that
\* finds the port busy not at all.
OncePerScan ==
    [][state = "update_dr" /\ state' \in {"run_test_idle", "select_dr_scan"} /\ ir = "dbus"
        => times = (IF seen = DMI_OP_STATUS_BUSY THEN 0 ELSE 1)]_vars
=============================================================================
