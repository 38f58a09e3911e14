----------------------------- MODULE JtagProofs -----------------------------
(***************************************************************************)
(* Proofs about the JTAG transport and the system bus registers behind it  *)
(* (JtagDtm, SystemBus), for every width, wait, set of scans and bus.      *)
(*                                                                         *)
(* The inductive invariant is DtmIInv: the types, what the properties say, *)
(* and the phase of the clock that tells whether a state's action has run. *)
(***************************************************************************)
EXTENDS JtagDtm, TLAPS

-----------------------------------------------------------------------------
(***************************************************************************)
(* The system bus registers.                                               *)
(***************************************************************************)
SbTypes ==
    /\ dmactive \in BOOLEAN
    /\ sbcs \in SbcsType
    /\ sbaddress \in [0 .. 3 -> Words]
    /\ sbdata \in [0 .. 1 -> Words]
    /\ sb_read_wait \in 0 .. SbWait
    /\ sb_write_wait \in 0 .. SbWait
    /\ lost \in BOOLEAN

SbInv == SbTypes /\ InFlightIntact /\ NoSilentLoss

\* A busy error changes nothing else of sbcs.
LEMMA BusyError ==
    ASSUME sbcs \in SbcsType, sbcs' = [sbcs EXCEPT !.sbbusyerror = TRUE]
    PROVE  /\ sbcs' \in SbcsType
           /\ sbcs'.sbaccess = sbcs.sbaccess
           /\ sbcs'.sbbusyerror
BY DEF SbcsType

\* The registers start idle, with nothing lost.
LEMMA SbInitInv == SbInit => SbInv
<1> SUFFICES ASSUME SbInit PROVE SbInv
  OBVIOUS
<1>1. SbTypes
  <2>1. ResetSbcs \in SbcsType
    BY DEF ResetSbcs, SbcsType, NoError
  <2>2. 0 \in Words /\ 0 \in 0 .. SbWait
    BY SystemBusAssumption DEF Words
  <2> QED BY <2>1, <2>2 DEF SbInit, SbTypes
<1>2. InFlightIntact /\ NoSilentLoss
  BY DEF SbInit, InFlightIntact, NoSilentLoss, sb_busy
<1> QED BY <1>1, <1>2 DEF SbInv

\* A register that is read or written while an access waits changes nothing of it.
LEMMA RefuseInv == SbInv /\ RefuseBusy => SbInv'
<1> SUFFICES ASSUME SbInv, RefuseBusy PROVE SbInv'
  OBVIOUS
<1>1. sbcs' \in SbcsType /\ sbcs'.sbaccess = sbcs.sbaccess /\ sbcs'.sbbusyerror
  BY BusyError DEF SbInv, SbTypes, RefuseBusy
<1>2. SbTypes'
  BY <1>1 DEF SbInv, SbTypes, RefuseBusy
<1>3. InFlightIntact'
  BY <1>1 DEF SbInv, InFlightIntact, sb_busy, RefuseBusy, Access
<1>4. NoSilentLoss'
  BY <1>1 DEF NoSilentLoss
<1> QED BY <1>2, <1>3, <1>4 DEF SbInv

\* A read that is asked for finds nothing in flight, or is refused with a trace.
LEMMA ReadStartInv ==
    ASSUME SbInv, ~sb_busy, sbaddress' \in [0 .. 3 -> Words], UNCHANGED <<dmactive, sbdata>>,
           sb_read_start(sbaddress', sbdata)
    PROVE  SbInv'
<1>1. CASE sbcs.sbbusyerror
  <2>1. sbcs' \in SbcsType /\ sbcs'.sbbusyerror
    BY <1>1, BusyError DEF SbInv, SbTypes, sb_read_start
  <2>2. lost' \in BOOLEAN /\ UNCHANGED <<sb_read_wait, sb_write_wait>>
    BY <1>1 DEF sb_read_start
  <2> QED BY <2>1, <2>2 DEF SbInv, SbTypes, InFlightIntact, NoSilentLoss, sb_busy
<1>2. CASE ~sbcs.sbbusyerror
  <2>1. /\ sb_read_wait' = SbWait
        /\ asked' = Access("read", sbaddress', sbdata)
        /\ UNCHANGED <<sbcs, lost, sb_write_wait>>
    BY <1>2 DEF sb_read_start
  <2>2. SbTypes'
    BY <2>1, SystemBusAssumption DEF SbInv, SbTypes
  <2>3. InFlightIntact'
    <3>1. sb_read_wait' > 0 /\ sb_write_wait' = 0
      BY <2>1, SystemBusAssumption DEF SbInv, SbTypes, sb_busy
    <3>2. asked' = Access("read", sbaddress, sbdata)'
      BY <2>1 DEF Access
    <3> QED BY <3>1, <3>2 DEF InFlightIntact
  <2>4. NoSilentLoss'
    BY <2>1 DEF SbInv, NoSilentLoss
  <2> QED BY <2>2, <2>3, <2>4 DEF SbInv
<1> QED BY <1>1, <1>2

\* The same of a write.
LEMMA WriteStartInv ==
    ASSUME SbInv, ~sb_busy, sbdata' \in [0 .. 1 -> Words], UNCHANGED <<dmactive, sbaddress>>,
           sb_write_start(sbaddress, sbdata')
    PROVE  SbInv'
<1>1. CASE sbcs.sbbusyerror
  <2>1. sbcs' \in SbcsType /\ sbcs'.sbbusyerror
    BY <1>1, BusyError DEF SbInv, SbTypes, sb_write_start
  <2>2. lost' \in BOOLEAN /\ UNCHANGED <<sb_read_wait, sb_write_wait>>
    BY <1>1 DEF sb_write_start
  <2> QED BY <2>1, <2>2 DEF SbInv, SbTypes, InFlightIntact, NoSilentLoss, sb_busy
<1>2. CASE ~sbcs.sbbusyerror
  <2>1. /\ sb_write_wait' = SbWait
        /\ asked' = Access("write", sbaddress, sbdata')
        /\ UNCHANGED <<sbcs, lost, sb_read_wait>>
    BY <1>2 DEF sb_write_start
  <2>2. SbTypes'
    BY <2>1, SystemBusAssumption DEF SbInv, SbTypes
  <2>3. InFlightIntact'
    <3>1. sb_write_wait' > 0 /\ sb_read_wait' = 0
      BY <2>1, SystemBusAssumption DEF SbInv, SbTypes, sb_busy
    <3>2. asked' = Access("write", sbaddress, sbdata)'
      BY <2>1 DEF Access
    <3> QED BY <3>1, <3>2 DEF InFlightIntact
  <2>4. NoSilentLoss'
    BY <2>1 DEF SbInv, NoSilentLoss
  <2> QED BY <2>2, <2>3, <2>4 DEF SbInv
<1> QED BY <1>1, <1>2

\* A request that an earlier error keeps from starting leaves that error.
LEMMA IgnoreInv ==
    ASSUME SbInv, ~sb_busy, NEW wanted \in BOOLEAN, wanted => sbcs.error # NoError,
           sbdata' \in [0 .. 1 -> Words], sbaddress' \in [0 .. 3 -> Words], UNCHANGED dmactive,
           Ignore(wanted)
    PROVE  SbInv'
BY DEF SbInv, SbTypes, InFlightIntact, NoSilentLoss, sb_busy, Ignore

\* Each write of a register keeps the access in flight and the trace of a loss.
LEMMA WriteAddressInv ==
    ASSUME SbInv, NEW i \in 0 .. 1, NEW v \in Words, dmi_write_sbaddress(i, v)
    PROVE  SbInv'
<1>1. CASE RefuseBusy
  BY <1>1, RefuseInv
<1>2. CASE ~RefuseBusy
  <2> DEFINE start == i = 0 /\ sbcs.error = NoError /\ sbcs.readonaddr
  <2>1. /\ ~sb_busy
        /\ sbaddress' = [sbaddress EXCEPT ![i] = v]
        /\ UNCHANGED <<dmactive, sbdata>>
        /\ IF start THEN sb_read_start(sbaddress', sbdata) ELSE Ignore(i = 0 /\ sbcs.readonaddr)
    BY <1>2 DEF dmi_write_sbaddress
  <2>2. sbaddress' \in [0 .. 3 -> Words] /\ sbdata' \in [0 .. 1 -> Words]
    BY <2>1 DEF SbInv, SbTypes
  <2>3. CASE start
    BY <2>1, <2>2, <2>3, ReadStartInv
  <2>4. CASE ~start
    <3>1. (i = 0 /\ sbcs.readonaddr) \in BOOLEAN
      OBVIOUS
    <3> QED BY <2>1, <2>2, <2>4, <3>1, IgnoreInv
  <2> QED BY <2>3, <2>4
<1> QED BY <1>1, <1>2

\* The same of sbdata.
LEMMA WriteDataInv ==
    ASSUME SbInv, NEW i \in 0 .. 1, NEW v \in Words, dmi_write_sbdata(i, v)
    PROVE  SbInv'
<1>1. CASE RefuseBusy
  BY <1>1, RefuseInv
<1>2. CASE ~RefuseBusy
  <2> DEFINE start == i = 0 /\ sbcs.error = NoError
  <2>1. /\ ~sb_busy
        /\ sbdata' = [sbdata EXCEPT ![i] = v]
        /\ UNCHANGED <<dmactive, sbaddress>>
        /\ IF start THEN sb_write_start(sbaddress, sbdata') ELSE Ignore(i = 0)
    BY <1>2 DEF dmi_write_sbdata
  <2>2. sbaddress' \in [0 .. 3 -> Words] /\ sbdata' \in [0 .. 1 -> Words]
    BY <2>1 DEF SbInv, SbTypes
  <2>3. CASE start
    BY <2>1, <2>2, <2>3, WriteStartInv
  <2>4. CASE ~start
    <3>1. (i = 0) \in BOOLEAN
      OBVIOUS
    <3> QED BY <2>1, <2>2, <2>4, <3>1, IgnoreInv
  <2> QED BY <2>3, <2>4
<1> QED BY <1>1, <1>2

\* A read of sbdata may start an access too.
LEMMA ReadDataInv ==
    ASSUME SbInv, NEW i \in 0 .. 1, dmi_read_sbdata(i)
    PROVE  SbInv'
<1>1. CASE RefuseBusy
  BY <1>1, RefuseInv
<1>2. CASE ~RefuseBusy
  <2> DEFINE start == i = 0 /\ sbcs.error = NoError /\ sbcs.readondata
  <2>1. /\ ~sb_busy
        /\ UNCHANGED <<dmactive, sbaddress, sbdata>>
        /\ IF start THEN sb_read_start(sbaddress, sbdata) ELSE Ignore(i = 0 /\ sbcs.readondata)
    BY <1>2 DEF dmi_read_sbdata
  <2>2. sbaddress' \in [0 .. 3 -> Words] /\ sbdata' \in [0 .. 1 -> Words] /\ sbaddress' = sbaddress
    BY <2>1 DEF SbInv, SbTypes
  <2>3. CASE start
    <3>1. sb_read_start(sbaddress', sbdata)
      BY <2>1, <2>2, <2>3 DEF sb_read_start, Access
    <3> QED BY <2>1, <2>2, <3>1, ReadStartInv
  <2>4. CASE ~start
    <3>1. (i = 0 /\ sbcs.readondata) \in BOOLEAN
      OBVIOUS
    <3> QED BY <2>1, <2>2, <2>4, <3>1, IgnoreInv
  <2> QED BY <2>3, <2>4
<1> QED BY <1>1, <1>2

\* A write of sbcs clears a trace only together with what it is a trace of, and a
\* debugger that is careful leaves the size of an access in flight.
LEMMA WriteSbcsInv ==
    ASSUME SbInv, NEW v \in SbcsType, dmi_write_sbcs(v), Careful
    PROVE  SbInv'
<1>1. /\ sbcs' \in SbcsType
      /\ sbcs'.error = sbcs.error \ v.error
      /\ sbcs'.sbbusyerror = (sbcs.sbbusyerror /\ ~v.sbbusyerror)
  BY DEF SbInv, SbTypes, dmi_write_sbcs, SbcsType
<1>2. SbTypes'
  BY <1>1 DEF SbInv, SbTypes, dmi_write_sbcs
<1>3. InFlightIntact'
  BY DEF SbInv, InFlightIntact, sb_busy, dmi_write_sbcs, Access, Careful
<1>4. NoSilentLoss'
  BY <1>1 DEF SbInv, SbTypes, NoSilentLoss, dmi_write_sbcs, Acknowledges, SbcsType, NoError
<1> QED BY <1>2, <1>3, <1>4 DEF SbInv

\* Turning the module on clears both, and leaves the access in flight.
LEMMA WriteDmcontrolInv ==
    ASSUME SbInv, NEW on \in BOOLEAN, dmi_write_dmcontrol(on), Careful
    PROVE  SbInv'
<1>1. ResetSbcs \in SbcsType
  BY DEF ResetSbcs, SbcsType, NoError
<1>2. SbTypes'
  BY <1>1 DEF SbInv, SbTypes, dmi_write_dmcontrol
<1>3. InFlightIntact'
  BY DEF SbInv, InFlightIntact, sb_busy, dmi_write_dmcontrol, Access, Careful
<1>4. NoSilentLoss'
  BY DEF SbInv, NoSilentLoss, dmi_write_dmcontrol
<1> QED BY <1>2, <1>3, <1>4 DEF SbInv

\* An access that fails leaves its error, one that succeeds adds to the address
\* in the width of a word; nothing is in flight after it.
LEMMA AccessDone ==
    ASSUME SbInv, sb_read \/ sb_write, UNCHANGED dmactive, sb_read_wait' = 0, sb_write_wait' = 0
    PROVE  SbInv'
<1>1. CASE \E e \in {BadSize, BadAddress} : Fail(e)
  <2>1. PICK e \in {BadSize, BadAddress} : Fail(e)
    BY <1>1
  <2>2. e \in SUBSET (0 .. 2) /\ e # {}
    BY DEF BadSize, BadAddress
  <2>3. sbcs' \in SbcsType /\ sbcs'.error = e
    BY <2>1, <2>2 DEF SbInv, SbTypes, Fail, SbcsType
  <2>4. SbTypes'
    BY <2>1, <2>3, SystemBusAssumption DEF SbInv, SbTypes, Fail
  <2>5. NoSilentLoss' /\ InFlightIntact'
    BY <2>2, <2>3 DEF NoSilentLoss, NoError, InFlightIntact, sb_busy
  <2> QED BY <2>4, <2>5 DEF SbInv
<1>2. CASE Succeed /\ sbdata' \in [0 .. 1 -> Words]
  <2>1. AccessBytes \in Nat
    BY DEF SbInv, SbTypes, SbcsType, AccessBytes
  <2>2. sbaddress' \in [0 .. 3 -> Words]
    <3>1. sbaddress[0] \in Words
      BY DEF SbInv, SbTypes
    <3>2. (sbaddress[0] + AccessBytes) % Word \in Words
      BY <2>1, <3>1, SystemBusAssumption DEF Words
    <3> QED BY <1>2, <3>2 DEF SbInv, SbTypes, Succeed, Incremented
  <2>3. SbTypes'
    BY <1>2, <2>2, SystemBusAssumption DEF SbInv, SbTypes, Succeed
  <2>4. NoSilentLoss' /\ InFlightIntact'
    BY <1>2 DEF SbInv, NoSilentLoss, InFlightIntact, sb_busy, Succeed
  <2> QED BY <2>3, <2>4 DEF SbInv
<1>3. \/ \E e \in {BadSize, BadAddress} : Fail(e)
      \/ Succeed /\ sbdata' \in [0 .. 1 -> Words]
  <2>1. CASE sb_read
    <3>1. ASSUME Succeed, NEW v \in DataValues, NEW w \in DataValues,
                 sbdata' = [sbdata EXCEPT ![0] = v, ![1] = IF sbcs.sbaccess = 3 THEN w ELSE @]
          PROVE  sbdata' \in [0 .. 1 -> Words]
      <4>1. v \in Words /\ w \in Words
        BY SystemBusAssumption
      <4> QED BY <3>1, <4>1 DEF SbInv, SbTypes
    <3> QED BY <2>1, <3>1 DEF sb_read
  <2>2. CASE sb_write
    BY <2>2 DEF sb_write, SbInv, SbTypes
  <2> QED BY <2>1, <2>2
<1> QED BY <1>1, <1>2, <1>3

\* An idle cycle brings the access in flight nearer, or performs it.
LEMMA IdleInv == SbInv /\ sb_idle => SbInv'
<1> SUFFICES ASSUME SbInv, sb_idle PROVE SbInv'
  OBVIOUS
<1>0. sb_read_wait \in Nat /\ sb_write_wait \in Nat
  BY SystemBusAssumption DEF SbInv, SbTypes
<1>1. CASE UNCHANGED sbVars
  <2>1. UNCHANGED <<dmactive, sbcs, sbaddress, sbdata, sb_read_wait, sb_write_wait, asked, lost>>
    BY <1>1 DEF sbVars, sbRegs
  <2> QED BY <2>1 DEF SbInv, SbTypes, InFlightIntact, NoSilentLoss, sb_busy, Access
<1>2. CASE /\ sb_read_wait > 1 \/ sb_write_wait > 1
           /\ sb_read_wait' = IF sb_read_wait > 0 THEN sb_read_wait - 1 ELSE 0
           /\ sb_write_wait' = IF sb_write_wait > 0 THEN sb_write_wait - 1 ELSE 0
           /\ UNCHANGED <<dmactive, sbcs, sbaddress, sbdata, asked, lost>>
  <2>1. SbTypes'
    BY <1>2, SystemBusAssumption DEF SbInv, SbTypes
  <2>2. InFlightIntact'
    <3>1. sb_read_wait = 0 \/ sb_write_wait = 0
      BY <1>0, <1>2 DEF SbInv, InFlightIntact, sb_busy
    <3>2. sb_read_wait' > 0 <=> sb_read_wait > 0
      BY <1>0, <1>2, <3>1
    <3>3. sb_write_wait' > 0 <=> sb_write_wait > 0
      BY <1>0, <1>2, <3>1
    <3>4. sb_read_wait' = 0 \/ sb_write_wait' = 0
      BY <1>0, <1>2, <3>1
    <3> QED BY <1>2, <3>2, <3>3, <3>4 DEF SbInv, InFlightIntact, sb_busy, Access
  <2>3. NoSilentLoss'
    BY <1>2 DEF SbInv, NoSilentLoss
  <2> QED BY <2>1, <2>2, <2>3 DEF SbInv
<1>3. CASE /\ sb_read_wait = 1
           /\ sb_read
           /\ sb_read_wait' = 0
           /\ UNCHANGED <<dmactive, sb_write_wait>>
  <2>1. sb_write_wait' = 0
    BY <1>0, <1>3 DEF SbInv, InFlightIntact, sb_busy
  <2> QED BY <1>3, <2>1, AccessDone
<1>4. CASE /\ sb_write_wait = 1
           /\ sb_write
           /\ sb_write_wait' = 0
           /\ UNCHANGED <<dmactive, sb_read_wait>>
  <2>1. sb_read_wait' = 0
    BY <1>0, <1>4 DEF SbInv, InFlightIntact, sb_busy
  <2> QED BY <1>4, <2>1, AccessDone
<1> QED BY <1>1, <1>2, <1>3, <1>4 DEF sb_idle

\* Nothing of the registers changes when none of their variables does.
LEMMA SbUnchanged == SbInv /\ UNCHANGED sbVars => SbInv'
BY DEF SbInv, SbTypes, InFlightIntact, NoSilentLoss, sb_busy, Access, sbVars, sbRegs
-----------------------------------------------------------------------------
(***************************************************************************)
(* The TAP controller.                                                     *)
(***************************************************************************)

TapTypes ==
    /\ state \in JtagStates
    /\ ir \in IrType
    /\ dr \in ScanType
    /\ dmi \in ScanType
    /\ dmi.op \in {DMI_OP_STATUS_SUCCESS, DMI_OP_STATUS_FAILED}
    /\ rti_remaining \in 0 .. required_rti_cycles
    /\ dropped \in BOOLEAN
    /\ busy_stuck \in BOOLEAN
    /\ tck \in BOOLEAN
    /\ tms \in BOOLEAN
    /\ times \in Nat

\* The states of a DR scan between the action of Capture-DR and that of Update-DR.
Scanning ==
    \/ state = "capture_dr" /\ ~tck
    \/ state \in {"shift_dr", "exit1_dr", "pause_dr", "exit2_dr"}
    \/ state = "update_dr" /\ tck

\* A scan of DBUS carries what it captured, and is applied on the falling edge
\* in Update-DR, once.
ScanOnce ==
    ir = "dbus" =>
        /\ Scanning => times = 0 /\ (seen = DMI_OP_STATUS_BUSY <=> busy_stuck)
        /\ state = "update_dr" /\ ~tck => times = IF seen = DMI_OP_STATUS_BUSY THEN 0 ELSE 1

TapInv  == TapTypes /\ DroppedSticks /\ ScanOnce
DtmIInv == SbInv /\ TapInv

\* The TAP's state diagram: a scan is entered through Capture-DR, and that from
\* Select-DR-Scan.
LEMMA TapDiagram ==
    ASSUME NEW s \in JtagStates, NEW i \in {1, 2}
    PROVE  /\ Next2[s][i] \in JtagStates
           /\ Next2[s][i] \in {"shift_dr", "exit1_dr", "pause_dr", "exit2_dr", "update_dr"}
                => s \in {"capture_dr", "shift_dr", "exit1_dr", "pause_dr", "exit2_dr"}
           /\ s = "shift_ir" => Next2[s][i] \in {"shift_ir", "exit1_ir"}
           /\ Next2[s][i] = "capture_dr" => s = "select_dr_scan"
BY DEF JtagStates, Next2

\* Every value a clock may leave in the DR is one of its type.
LEMMA ScanTypes ==
    /\ Nothing \in ScanType
    /\ Scan(DMI_OP_STATUS_BUSY, "none", 0) \in ScanType
    /\ \A r \in Dtmcs : Scan(DMI_OP_NOP, r, 0) \in ScanType
    /\ \A o \in ScanType, op \in 0 .. 3 :
           [o EXCEPT !.op = op] \in ScanType /\ [o EXCEPT !.op = op].op = op
    /\ \A o \in ScanType :
           /\ o.op \in 0 .. 3
           /\ o.reg = "sbcs" => o.value \in SbcsType
           /\ o.reg # "sbcs" => o.value \in Words
<1>1. 0 \in Words
  BY SystemBusAssumption DEF Words
<1> HIDE DEF Words, SbcsType
<1>2. Nothing \in ScanType
  BY <1>1 DEF Nothing, Scan, ScanType, DMI_OP_NOP, DmiRegs, Dtmcs
<1>3. Scan(DMI_OP_STATUS_BUSY, "none", 0) \in ScanType
  BY <1>1 DEF Scan, ScanType, DMI_OP_STATUS_BUSY, DmiRegs, Dtmcs
<1>4. ASSUME NEW r \in Dtmcs PROVE Scan(DMI_OP_NOP, r, 0) \in ScanType
  BY <1>1 DEF Scan, ScanType, DMI_OP_NOP, DmiRegs, Dtmcs
<1>5. ASSUME NEW o \in ScanType
      PROVE  /\ o.op \in 0 .. 3
             /\ o.reg = "sbcs" => o.value \in SbcsType
             /\ o.reg # "sbcs" => o.value \in Words
             /\ \A op \in 0 .. 3 :
                    [o EXCEPT !.op = op] \in ScanType /\ [o EXCEPT !.op = op].op = op
  <2>1. CASE o \in [op : 0 .. 3, reg : (DmiRegs \ {"sbcs"}) \cup Dtmcs, value : Words]
    BY <2>1 DEF ScanType, Dtmcs
  <2>2. CASE o \in [op : 0 .. 3, reg : {"sbcs"}, value : SbcsType]
    BY <2>2 DEF ScanType
  <2> QED BY <2>1, <2>2 DEF ScanType
<1> QED BY <1>2, <1>3, <1>4, <1>5

\* The transport starts idle with nothing applied.
LEMMA TapInitInv == Init => DtmIInv
<1> SUFFICES ASSUME Init PROVE DtmIInv
  OBVIOUS
<1>1. SbInv
  BY SbInitInv DEF Init
<1>2. TapTypes
  <2>1. "test_logic_reset" \in JtagStates
    BY DEF JtagStates, Next2
  <2>2. Nothing.op = 0
    BY DEF Nothing, Scan, DMI_OP_NOP
  <2> QED BY <2>1, <2>2, ScanTypes DEF Init, TapTypes, DMI_OP_STATUS_SUCCESS
<1>3. DroppedSticks /\ ScanOnce
  BY DEF Init, DroppedSticks, ScanOnce, Scanning
<1> QED BY <1>1, <1>2, <1>3 DEF DtmIInv, TapInv

\* An operation applied to the registers keeps what they promise.
LEMMA ApplyInv ==
    ASSUME SbInv, NEW o \in ScanType, DmiApply(o), Careful
    PROVE  /\ SbInv'
           /\ dmi' \in ScanType
           /\ dmi'.op \in {DMI_OP_STATUS_SUCCESS, DMI_OP_STATUS_FAILED}
           /\ rti_remaining' = required_rti_cycles
<1>1. SbInv'
  <2>1. ASSUME DmiRead(o) PROVE SbInv'
    BY <2>1, ReadDataInv, SbUnchanged DEF DmiRead
  <2>2. ASSUME DmiWrite(o) PROVE SbInv'
    <3>0. /\ o.reg = "sbcs" => o.value \in SbcsType
          /\ o.reg # "sbcs" => o.value \in Words
      BY ScanTypes
    <3>1. CASE o.reg = "sbcs" /\ dmi_write_sbcs(o.value)
      BY <3>0, <3>1, WriteSbcsInv
    <3>2. CASE o.reg = "sbaddress0" /\ dmi_write_sbaddress(0, o.value)
      BY <3>0, <3>2, WriteAddressInv
    <3>3. CASE o.reg = "sbaddress1" /\ dmi_write_sbaddress(1, o.value)
      BY <3>0, <3>3, WriteAddressInv
    <3>4. CASE o.reg = "sbdata0" /\ dmi_write_sbdata(0, o.value)
      BY <3>0, <3>4, WriteDataInv
    <3>5. CASE o.reg = "sbdata1" /\ dmi_write_sbdata(1, o.value)
      BY <3>0, <3>5, WriteDataInv
    <3>6. CASE o.reg = "dmcontrol" /\ dmi_write_dmcontrol(o.value = 1)
      <4>1. (o.value = 1) \in BOOLEAN
        OBVIOUS
      <4> QED BY <3>6, <4>1, WriteDmcontrolInv
    <3>7. CASE UNCHANGED sbVars
      BY <3>7, SbUnchanged
    <3> QED BY <2>2, <3>1, <3>2, <3>3, <3>4, <3>5, <3>6, <3>7 DEF DmiWrite
  <2> QED BY <2>1, <2>2, SbUnchanged DEF DmiApply
<1>2. PICK op \in {DMI_OP_STATUS_SUCCESS, DMI_OP_STATUS_FAILED} : dmi' = [o EXCEPT !.op = op]
  BY DEF DmiApply
<1>3. op \in 0 .. 3
  BY DEF DMI_OP_STATUS_SUCCESS, DMI_OP_STATUS_FAILED
<1>4. [o EXCEPT !.op = op] \in ScanType /\ [o EXCEPT !.op = op].op = op
  BY <1>3, ScanTypes
<1> QED BY <1>1, <1>2, <1>4 DEF DmiApply

\* The rising edge moves the TAP and shifts; what was captured stays.
LEMMA RiseInv ==
    ASSUME DtmIInv, Rise, ~tck, tck' = TRUE, tms' \in BOOLEAN
    PROVE  DtmIInv'
<1> DEFINE i == IF tms THEN 2 ELSE 1
<1>1. SbInv'
  BY SbUnchanged DEF DtmIInv, Rise
<1>2. i \in {1, 2} /\ state \in JtagStates /\ state' = Next2[state][i]
  BY DEF Rise, DtmIInv, TapInv, TapTypes
<1> HIDE DEF i
<1>3. /\ state' \in JtagStates
      /\ state' \in {"shift_dr", "exit1_dr", "pause_dr", "exit2_dr", "update_dr"}
           => state \in {"capture_dr", "shift_dr", "exit1_dr", "pause_dr", "exit2_dr"}
      /\ state = "shift_ir" => state' \in {"shift_ir", "exit1_ir"}
  BY <1>2, TapDiagram
<1>4. TapTypes'
  <2>1. dr' \in ScanType
    BY ScanTypes, JtagAssumption DEF Rise, DtmIInv, TapInv, TapTypes
  <2>2. ir' \in IrType
    BY DEF Rise, DtmIInv, TapInv, TapTypes
  <2> QED BY <1>3, <2>1, <2>2 DEF Rise, DtmIInv, TapInv, TapTypes
<1>5. DroppedSticks'
  BY DEF Rise, DtmIInv, TapInv, DroppedSticks
<1>6. ScanOnce'
  <2>1. CASE state = "shift_ir"
    BY <1>3, <2>1 DEF ScanOnce, Scanning
  <2>2. CASE state # "shift_ir"
    <3>1. UNCHANGED <<ir, seen, times, busy_stuck>>
      BY <2>2 DEF Rise
    <3>2. Scanning' => Scanning
      BY <1>3 DEF Scanning
    <3>3. tck' /\ (state' = "update_dr" => Scanning')
      BY DEF Scanning
    <3> QED BY <3>1, <3>2, <3>3 DEF DtmIInv, TapInv, ScanOnce
  <2> QED BY <2>1, <2>2
<1> QED BY <1>1, <1>4, <1>5, <1>6 DEF DtmIInv, TapInv

\* A reset leaves no scan behind.
LEMMA ResetInv ==
    ASSUME DtmIInv, TapReset, UNCHANGED <<ir, dr, times, sbVars>>, tck' \in BOOLEAN, tms' \in BOOLEAN
    PROVE  DtmIInv'
<1>1. SbInv'
  BY SbUnchanged DEF DtmIInv
<1>2. TapTypes'
  <2>1. "test_logic_reset" \in JtagStates
    BY DEF JtagStates, Next2
  <2>2. Nothing.op = 0
    BY DEF Nothing, Scan, DMI_OP_NOP
  <2>3. 0 \in 0 .. required_rti_cycles
    BY JtagAssumption
  <2> QED BY <2>1, <2>2, <2>3, ScanTypes DEF TapReset, DtmIInv, TapInv, TapTypes, DMI_OP_STATUS_SUCCESS
<1>3. DroppedSticks' /\ ScanOnce'
  BY DEF TapReset, DroppedSticks, ScanOnce, Scanning
<1> QED BY <1>1, <1>2, <1>3 DEF DtmIInv, TapInv

\* Capture-DR begins a scan: nothing of it is applied yet, and it is busy exactly
\* when busy sticks.
LEMMA CaptureInv ==
    ASSUME DtmIInv, state = "capture_dr", capture_dr, tck' = FALSE, tms' \in BOOLEAN
    PROVE  DtmIInv'
<1>1. SbInv'
  BY SbUnchanged DEF DtmIInv, capture_dr
<1>2. dr' \in ScanType
  BY ScanTypes DEF DtmIInv, TapInv, TapTypes, capture_dr
<1>3. busy_stuck' \in BOOLEAN /\ (busy_stuck => busy_stuck')
  BY DEF DtmIInv, TapInv, TapTypes, capture_dr
<1>4. TapTypes'
  BY <1>2, <1>3 DEF DtmIInv, TapInv, TapTypes, capture_dr
<1>5. DroppedSticks'
  BY <1>3 DEF DtmIInv, TapInv, DroppedSticks, capture_dr
<1>6. ScanOnce'
  <2>1. state' = "capture_dr" /\ times' = 0
    BY DEF capture_dr
  <2>2. ASSUME ir' = "dbus" PROVE seen' = DMI_OP_STATUS_BUSY <=> busy_stuck'
    <3>1. ir = "dbus"
      BY <2>2 DEF capture_dr
    <3>2. dmi.op # DMI_OP_STATUS_BUSY
      BY DEF DtmIInv, TapInv, TapTypes, DMI_OP_STATUS_BUSY, DMI_OP_STATUS_SUCCESS, DMI_OP_STATUS_FAILED
    <3> QED BY <3>1, <3>2 DEF capture_dr
  <2> QED BY <2>1, <2>2 DEF ScanOnce
<1> QED BY <1>1, <1>4, <1>5, <1>6 DEF DtmIInv, TapInv

\* Update-DR applies the scan, or refuses it because busy sticks.
LEMMA UpdateInv ==
    ASSUME DtmIInv, state = "update_dr", update_dr, tck, tck' = FALSE, tms' \in BOOLEAN, Careful
    PROVE  DtmIInv'
<1>0. Scanning
  BY DEF Scanning
<1>1. CASE ir = "dtmcontrol"
  <2>1. UNCHANGED <<ir, dr, seen, times, sbVars>>
    BY <1>1 DEF update_dr
  <2>2. CASE dr.reg = "dmihardreset" /\ TapReset
    BY <2>1, <2>2, ResetInv
  <2>3. CASE /\ busy_stuck' = (busy_stuck /\ dr.reg # "dmireset")
             /\ dropped' = (dropped /\ dr.reg # "dmireset")
             /\ UNCHANGED <<state, dmi, rti_remaining>>
    <3>1. SbInv'
      BY <2>1, SbUnchanged DEF DtmIInv
    <3>2. TapTypes'
      BY <2>1, <2>3 DEF DtmIInv, TapInv, TapTypes
    <3>3. DroppedSticks'
      BY <2>3 DEF DtmIInv, TapInv, DroppedSticks
    <3>4. ScanOnce'
      BY <1>1, <2>1 DEF ScanOnce
    <3> QED BY <3>1, <3>2, <3>3, <3>4 DEF DtmIInv, TapInv
  <2> QED BY <1>1, <2>2, <2>3 DEF update_dr
<1>2. CASE ir = "dbus" /\ ~busy_stuck
  <2>1. /\ DmiApply(dr)
        /\ times' = times + 1
        /\ UNCHANGED <<state, ir, dr, busy_stuck, seen, dropped>>
    BY <1>2 DEF update_dr
  <2>2. /\ SbInv'
        /\ dmi' \in ScanType
        /\ dmi'.op \in {DMI_OP_STATUS_SUCCESS, DMI_OP_STATUS_FAILED}
        /\ rti_remaining' = required_rti_cycles
    BY <2>1, ApplyInv DEF DtmIInv, TapInv, TapTypes
  <2>3. TapTypes'
    <3>1. rti_remaining' \in 0 .. required_rti_cycles /\ times' \in Nat
      BY <2>1, <2>2, JtagAssumption DEF DtmIInv, TapInv, TapTypes
    <3> QED BY <2>1, <2>2, <3>1 DEF DtmIInv, TapInv, TapTypes
  <2>4. DroppedSticks'
    BY <2>1 DEF DtmIInv, TapInv, DroppedSticks
  <2>5. ScanOnce'
    <3>1. times = 0 /\ seen # DMI_OP_STATUS_BUSY
      BY <1>0, <1>2 DEF DtmIInv, TapInv, ScanOnce
    <3> QED BY <2>1, <3>1 DEF ScanOnce, Scanning
  <2> QED BY <2>2, <2>3, <2>4, <2>5 DEF DtmIInv, TapInv
<1>3. CASE ir = "dbus" /\ busy_stuck
  <2>1. /\ dropped' \in BOOLEAN
        /\ UNCHANGED <<state, ir, dr, dmi, rti_remaining, busy_stuck, seen, times, sbVars>>
    BY <1>3 DEF update_dr, DtmIInv, TapInv, TapTypes
  <2>2. SbInv'
    BY <2>1, SbUnchanged DEF DtmIInv
  <2>3. TapTypes'
    BY <2>1 DEF DtmIInv, TapInv, TapTypes
  <2>4. DroppedSticks'
    BY <1>3, <2>1 DEF DroppedSticks
  <2>5. ScanOnce'
    <3>1. times = 0 /\ seen = DMI_OP_STATUS_BUSY
      BY <1>0, <1>3 DEF DtmIInv, TapInv, ScanOnce
    <3> QED BY <2>1, <3>1 DEF ScanOnce, Scanning
  <2> QED BY <2>2, <2>3, <2>4, <2>5 DEF DtmIInv, TapInv
<1>4. CASE ir \notin {"dtmcontrol", "dbus"}
  <2>1. UNCHANGED <<state, ir, dr, dmi, rti_remaining, busy_stuck, seen, times, dropped, sbVars>>
    BY <1>4 DEF update_dr, tapVars
  <2>2. SbInv'
    BY <2>1, SbUnchanged DEF DtmIInv
  <2>3. TapTypes' /\ DroppedSticks' /\ ScanOnce'
    BY <1>4, <2>1 DEF DtmIInv, TapInv, TapTypes, DroppedSticks, ScanOnce
  <2> QED BY <2>2, <2>3 DEF DtmIInv, TapInv
<1> QED BY <1>1, <1>2, <1>3, <1>4

\* The falling edge runs the action of the state the rising edge entered.
LEMMA FallInv ==
    ASSUME DtmIInv, Fall, tck, tck' = FALSE, tms' \in BOOLEAN, Careful
    PROVE  DtmIInv'
<1>1. CASE state = "run_test_idle"
  <2>1. /\ rti_remaining' = IF rti_remaining > 0 THEN rti_remaining - 1 ELSE 0
        /\ sb_idle
        /\ UNCHANGED <<state, ir, dr, dmi, busy_stuck, seen, times, dropped>>
    BY <1>1 DEF Fall
  <2>2. SbInv'
    BY <2>1, IdleInv DEF DtmIInv
  <2>3. TapTypes'
    <3>1. rti_remaining' \in 0 .. required_rti_cycles
      BY <2>1, JtagAssumption DEF DtmIInv, TapInv, TapTypes
    <3> QED BY <2>1, <3>1 DEF DtmIInv, TapInv, TapTypes
  <2>4. DroppedSticks' /\ ScanOnce'
    BY <1>1, <2>1 DEF DtmIInv, TapInv, DroppedSticks, ScanOnce, Scanning
  <2> QED BY <2>2, <2>3, <2>4 DEF DtmIInv, TapInv
<1>2. CASE state = "test_logic_reset"
  <2>1. /\ ir' = "idcode"
        /\ UNCHANGED <<state, dr, dmi, rti_remaining, busy_stuck, seen, times, dropped, sbVars>>
    BY <1>2 DEF Fall
  <2>2. SbInv'
    BY <2>1, SbUnchanged DEF DtmIInv
  <2>3. TapTypes' /\ DroppedSticks' /\ ScanOnce'
    BY <2>1 DEF DtmIInv, TapInv, TapTypes, DroppedSticks, ScanOnce, IrType
  <2> QED BY <2>2, <2>3 DEF DtmIInv, TapInv
<1>3. CASE state = "capture_dr"
  BY <1>3, CaptureInv DEF Fall
<1>4. CASE state = "update_dr"
  BY <1>4, UpdateInv DEF Fall
<1>5. CASE state \notin {"run_test_idle", "test_logic_reset", "capture_dr", "update_dr"}
  <2>1. UNCHANGED <<state, ir, dr, dmi, rti_remaining, busy_stuck, seen, times, dropped, sbVars>>
    BY <1>5 DEF Fall, tapVars
  <2>2. SbInv'
    BY <2>1, SbUnchanged DEF DtmIInv
  <2>3. TapTypes' /\ DroppedSticks'
    BY <2>1 DEF DtmIInv, TapInv, TapTypes, DroppedSticks
  <2>4. ScanOnce'
    BY <1>5, <2>1 DEF DtmIInv, TapInv, ScanOnce, Scanning
  <2> QED BY <2>2, <2>3, <2>4 DEF DtmIInv, TapInv
<1> QED BY <1>1, <1>2, <1>3, <1>4, <1>5

\* Every step keeps the invariant.
LEMMA StepInv == DtmIInv /\ [Next]_vars => DtmIInv'
<1> SUFFICES ASSUME DtmIInv, [Next]_vars PROVE DtmIInv'
  OBVIOUS
<1>1. ASSUME NEW m \in BOOLEAN, command_pins(~tck, m), Careful PROVE DtmIInv'
  <2>0. tck \in BOOLEAN
    BY DEF DtmIInv, TapInv, TapTypes
  <2>1. CASE tck
    <3>1. Fall /\ tck' = FALSE /\ tms' \in BOOLEAN
      BY <1>1, <2>1 DEF command_pins, set_pins
    <3> QED BY <1>1, <2>1, <3>1, FallInv
  <2>2. CASE ~tck
    <3>1. Rise /\ tck' = TRUE /\ tms' \in BOOLEAN
      BY <1>1, <2>0, <2>2 DEF command_pins, set_pins
    <3> QED BY <2>2, <3>1, RiseInv
  <2> QED BY <2>1, <2>2
<1>2. CASE command_reset
  <2>1. tck' \in BOOLEAN /\ tms' \in BOOLEAN
    BY <1>2 DEF command_reset, DtmIInv, TapInv, TapTypes
  <2> QED BY <1>2, <2>1, ResetInv DEF command_reset
<1>3. CASE UNCHANGED vars
  <2>1. SbInv'
    BY <1>3, SbUnchanged DEF DtmIInv, vars
  <2>2. UNCHANGED <<state, ir, dr, dmi, rti_remaining, busy_stuck, seen, times, dropped, tck, tms>>
    BY <1>3 DEF vars, tapVars
  <2>3. TapInv'
    BY <2>2 DEF DtmIInv, TapInv, TapTypes, DroppedSticks, ScanOnce, Scanning
  <2> QED BY <2>1, <2>3 DEF DtmIInv
<1> QED BY <1>1, <1>2, <1>3 DEF Next
-----------------------------------------------------------------------------
\* DtmIInv is an invariant of the transport.
THEOREM DtmInvariant == Spec => []DtmIInv
BY TapInitInv, StepInv, PTL DEF Spec

\* The registers of jtag_dtm_t and of the system bus keep their widths, and an
\* operation that update_dr refused keeps the busy status up until it is reset.
THEOREM DtmSafe == Spec => []DtmInv
<1>1. DtmIInv => DtmInv
  BY ScanTypes
     DEF DtmIInv, SbInv, SbTypes, TapInv, TapTypes, DtmInv, TypeOK
<1> QED BY <1>1, DtmInvariant, PTL

\* The access sb_read and sb_write perform is the one that was asked for.
THEOREM AccessIntact == Spec => []InFlightIntact
<1>1. DtmIInv => InFlightIntact
  BY DEF DtmIInv, SbInv
<1> QED BY <1>1, DtmInvariant, PTL

\* A request that was refused or failed is never without an error bit of sbcs.
THEOREM LossTraced == Spec => []NoSilentLoss
<1>1. DtmIInv => NoSilentLoss
  BY DEF DtmIInv, SbInv
<1> QED BY <1>1, DtmInvariant, PTL

\* update_dr performs the operation of a scan once, or not at all if capture_dr
\* said busy.
THEOREM ScannedOnce == Spec => OncePerScan
<1> DEFINE Once == state = "update_dr" /\ state' \in {"run_test_idle", "select_dr_scan"} /\ ir = "dbus"
                     => times = (IF seen = DMI_OP_STATUS_BUSY THEN 0 ELSE 1)
<1>1. DtmIInv /\ [Next]_vars => [Once]_vars
  <2> SUFFICES ASSUME DtmIInv, Next, state = "update_dr", ir = "dbus",
                      state' \in {"run_test_idle", "select_dr_scan"}
               PROVE  times = (IF seen = DMI_OP_STATUS_BUSY THEN 0 ELSE 1)
    OBVIOUS
  <2>1. ~tck
    <3>1. SUFFICES ASSUME tck PROVE FALSE
      OBVIOUS
    <3>2. Fall \/ command_reset
      BY <3>1 DEF Next, command_pins, set_pins
    <3>3. state' \in {"update_dr", "test_logic_reset"}
      BY <3>2 DEF Fall, update_dr, command_reset, TapReset, tapVars
    <3> QED BY <3>3
  <2> QED BY <2>1 DEF DtmIInv, TapInv, ScanOnce
<1> QED BY <1>1, DtmInvariant, PTL DEF Spec, OncePerScan
=============================================================================
