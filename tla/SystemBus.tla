----------------------------- MODULE SystemBus -----------------------------
(***************************************************************************)
(* The debug module's access to the system bus (riscv/debug_module.cc):    *)
(* the registers sbcs, sbaddress and sbdata, and the access itself, which  *)
(* happens SbWait idle cycles after it was asked for.  The registers are   *)
(* read again when it happens.                                             *)
(*                                                                         *)
(* Memory is the environment: a load returns any value, and an access to   *)
(* an address that no device answers raises mem_trap_t.                    *)
(***************************************************************************)
EXTENDS Naturals, FiniteSets

CONSTANTS
    Word,                \* number of values of a register (2^32 in the code)
    SbWait,              \* idle cycles before an access happens (20)
    max_sba_data_width,  \* config.max_sba_data_width
    Mapped,              \* the low words of the addresses that answer
    SbcsValues,          \* what the debugger may write to sbcs,
    AddressValues,       \* to sbaddress0 and sbaddress1,
    DataValues           \* and to sbdata0 and sbdata1

Words == 0 .. Word - 1

SbcsType ==
    [readonaddr : BOOLEAN, sbaccess : 0 .. 7, autoincrement : BOOLEAN, readondata : BOOLEAN,
     error : SUBSET (0 .. 2), sbbusyerror : BOOLEAN]

ASSUME SystemBusAssumption ==
    /\ Word \in Nat \ {0}
    /\ SbWait \in Nat \ {0}
    /\ max_sba_data_width \in {0, 8, 16, 32, 64}
    /\ Mapped \subseteq Words
    /\ SbcsValues \subseteq SbcsType
    /\ AddressValues \subseteq Words
    /\ DataValues \subseteq Words
    /\ 0 \in DataValues

VARIABLES
    dmactive,        \* of dmcontrol
    sbcs,            \* its writable fields; error as the set of its bits
    sbaddress,       \* four words, the lowest first
    sbdata,          \* the two words an access uses
    sb_read_wait,    \* idle cycles before the read in flight, or 0
    sb_write_wait,
    asked,           \* history: the access in flight as it was asked for
    lost             \* history: a request was refused, or failed, since the
                     \* errors were last cleared

sbRegs == <<sbcs, sbaddress, sbdata, sb_read_wait, sb_write_wait>>
sbVars == <<dmactive, sbRegs, asked, lost>>

NoError      == {}
BadAddress   == {1}        \* error 2
BadSize      == {0, 1}     \* error 3

ResetSbcs ==
    [readonaddr |-> FALSE, sbaccess |-> 0, autoincrement |-> FALSE, readondata |-> FALSE,
     error |-> NoError, sbbusyerror |-> FALSE]

\* Arrays no one has written hold any value; the model starts them at 0.
SbInit ==
    /\ dmactive = FALSE
    /\ sbcs = ResetSbcs
    /\ sbaddress = [i \in 0 .. 3 |-> 0]
    /\ sbdata = [i \in 0 .. 1 |-> 0]
    /\ sb_read_wait = 0
    /\ sb_write_wait = 0
    /\ asked = <<>>
    /\ lost = FALSE
-----------------------------------------------------------------------------
sb_busy == sb_read_wait > 0 \/ sb_write_wait > 0

\* sb_access_bits() / 8, that is 1 << sbaccess.
AccessBytes == <<1, 2, 4, 8, 16, 32, 64, 128>>[sbcs.sbaccess + 1]

SizeSupported == sbcs.sbaccess \in 0 .. 3 /\ max_sba_data_width >= 8 * AccessBytes

Answers == sbaddress[1] = 0 /\ sbaddress[0] \in Mapped

\* What the registers ask for now.
Access(kind, addr, data) ==
    [kind |-> kind, low |-> addr[0], high |-> addr[1], size |-> sbcs.sbaccess,
     data |-> IF kind = "read" THEN <<>> ELSE <<data[0], data[1]>>]

\* sb_autoincrement: the sum is formed in 32 bits, so no word ever carries.
Incremented ==
    IF sbcs.autoincrement /\ max_sba_data_width > 0
    THEN [sbaddress EXCEPT ![0] = (@ + AccessBytes) % Word]
    ELSE sbaddress

sb_read_start(addr, data) ==
    IF sb_busy \/ sbcs.sbbusyerror
    THEN /\ sbcs' = [sbcs EXCEPT !.sbbusyerror = TRUE]
         /\ lost' = TRUE
         /\ UNCHANGED <<sb_read_wait, sb_write_wait, asked>>
    ELSE /\ sb_read_wait' = SbWait
         /\ asked' = Access("read", addr, data)
         /\ UNCHANGED <<sbcs, lost, sb_write_wait>>

sb_write_start(addr, data) ==
    IF sb_busy \/ sbcs.sbbusyerror
    THEN /\ sbcs' = [sbcs EXCEPT !.sbbusyerror = TRUE]
         /\ lost' = TRUE
         /\ UNCHANGED <<sb_read_wait, sb_write_wait, asked>>
    ELSE /\ sb_write_wait' = SbWait
         /\ asked' = Access("write", addr, data)
         /\ UNCHANGED <<sbcs, lost, sb_read_wait>>

\* A request that an earlier error keeps from starting.
Ignore(wanted) ==
    /\ lost' = (lost \/ wanted)
    /\ UNCHANGED <<sbcs, sb_read_wait, sb_write_wait, asked>>

\* Reads and writes of the address and data registers while an access waits.
RefuseBusy ==
    /\ sb_busy
    /\ sbcs' = [sbcs EXCEPT !.sbbusyerror = TRUE]
    /\ lost' = TRUE
    /\ UNCHANGED <<dmactive, sbaddress, sbdata, sb_read_wait, sb_write_wait, asked>>
-----------------------------------------------------------------------------
(***************************************************************************)
(* DMI reads and writes.                                                   *)
(***************************************************************************)

\* v clears every error there is: a debugger that writes it knows of the loss.
Acknowledges(v) == sbcs.error \subseteq v.error /\ (sbcs.sbbusyerror => v.sbbusyerror)

\* Mutant: a write of sbcs clears the busy error whatever is written.
sbcs_clears_always(v) ==
    /\ sbcs' = [v EXCEPT !.error = sbcs.error \ v.error, !.sbbusyerror = FALSE]
    /\ lost' = (lost /\ ~Acknowledges(v))
    /\ UNCHANGED <<dmactive, sbaddress, sbdata, sb_read_wait, sb_write_wait, asked>>

\* The fields error and sbbusyerror of v are write-one-to-clear.
dmi_write_sbcs(v) ==
    /\ sbcs' = [v EXCEPT !.error = sbcs.error \ v.error,
                         !.sbbusyerror = sbcs.sbbusyerror /\ ~v.sbbusyerror]
    /\ lost' = (lost /\ ~Acknowledges(v))
    /\ UNCHANGED <<dmactive, sbaddress, sbdata, sb_read_wait, sb_write_wait, asked>>

\* Mutant: the address may be set for the next access while one waits.
address_written_while_busy(i, v) ==
    /\ sbaddress' = [sbaddress EXCEPT ![i] = v]
    /\ UNCHANGED <<dmactive, sbdata>>
    /\ IF i = 0 /\ sbcs.error = NoError /\ sbcs.readonaddr
       THEN sb_read_start(sbaddress', sbdata)
       ELSE Ignore(i = 0 /\ sbcs.readonaddr)

dmi_write_sbaddress(i, v) ==
    \/ RefuseBusy
    \/ /\ ~sb_busy
       /\ sbaddress' = [sbaddress EXCEPT ![i] = v]
       /\ UNCHANGED <<dmactive, sbdata>>
       /\ IF i = 0 /\ sbcs.error = NoError /\ sbcs.readonaddr
          THEN sb_read_start(sbaddress', sbdata)
          ELSE Ignore(i = 0 /\ sbcs.readonaddr)

dmi_write_sbdata(i, v) ==
    \/ RefuseBusy
    \/ /\ ~sb_busy
       /\ sbdata' = [sbdata EXCEPT ![i] = v]
       /\ UNCHANGED <<dmactive, sbaddress>>
       /\ IF i = 0 /\ sbcs.error = NoError THEN sb_write_start(sbaddress, sbdata') ELSE Ignore(i = 0)

dmi_read_sbdata(i) ==
    \/ RefuseBusy
    \/ /\ ~sb_busy
       /\ UNCHANGED <<dmactive, sbaddress, sbdata>>
       /\ IF i = 0 /\ sbcs.error = NoError /\ sbcs.readondata
          THEN sb_read_start(sbaddress, sbdata)
          ELSE Ignore(i = 0 /\ sbcs.readondata)

\* A write of dmcontrol that turns the module on resets its registers, but not
\* the access in flight.
dmi_write_dmcontrol(on) ==
    /\ dmactive' = on
    /\ sbcs' = IF on /\ ~dmactive THEN ResetSbcs ELSE sbcs
    /\ lost' = (lost /\ ~(on /\ ~dmactive))
    /\ UNCHANGED <<sbaddress, sbdata, sb_read_wait, sb_write_wait, asked>>
-----------------------------------------------------------------------------
(***************************************************************************)
(* Idle cycles.                                                            *)
(***************************************************************************)
Fail(error) ==
    /\ sbcs' = [sbcs EXCEPT !.error = error]
    /\ lost' = TRUE
    /\ UNCHANGED <<sbaddress, sbdata>>

\* error was 0 when the access started, but a write of sbcs cannot raise it, so
\* an access that succeeds always increments.
Succeed ==
    /\ sbaddress' = Incremented
    /\ UNCHANGED <<sbcs, lost>>

sb_read ==
    \/ ~SizeSupported /\ Fail(BadSize)
    \/ SizeSupported /\ ~Answers /\ Fail(BadAddress)
    \/ /\ SizeSupported /\ Answers
       /\ \E v \in DataValues, w \in DataValues :
              sbdata' = [sbdata EXCEPT ![0] = v, ![1] = IF sbcs.sbaccess = 3 THEN w ELSE @]
       /\ Succeed

sb_write ==
    \/ ~SizeSupported /\ Fail(BadSize)
    \/ SizeSupported /\ ~Answers /\ Fail(BadAddress)
    \/ SizeSupported /\ Answers /\ Succeed /\ UNCHANGED sbdata

sb_idle ==
    \/ /\ sb_read_wait = 0 /\ sb_write_wait = 0
       /\ UNCHANGED sbVars
    \/ /\ sb_read_wait > 1 \/ sb_write_wait > 1
       /\ sb_read_wait' = IF sb_read_wait > 0 THEN sb_read_wait - 1 ELSE 0
       /\ sb_write_wait' = IF sb_write_wait > 0 THEN sb_write_wait - 1 ELSE 0
       /\ UNCHANGED <<dmactive, sbcs, sbaddress, sbdata, asked, lost>>
    \/ /\ sb_read_wait = 1
       /\ sb_read
       /\ sb_read_wait' = 0
       /\ asked' = <<>>
       /\ UNCHANGED <<dmactive, sb_write_wait>>
    \/ /\ sb_write_wait = 1
       /\ sb_write
       /\ sb_write_wait' = 0
       /\ asked' = <<>>
       /\ UNCHANGED <<dmactive, sb_read_wait>>
=============================================================================
