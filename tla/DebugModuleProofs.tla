-------------------------- MODULE DebugModuleProofs --------------------------
(***************************************************************************)
(* Theorems about DebugModule, for every number of harts and every set of  *)
(* debugger inputs.                                                        *)
(***************************************************************************)
EXTENDS DebugModule, TLAPS

USE DebugAssumption

\* hartsel indexes hartids.
LEMMA SelectedIsHart == ASSUME TypeOK PROVE selected_hart_id \in Harts
BY DEF TypeOK, selected_hart_id, Harts

\* The module never selects a hart it does not have.
LEMMA SelectedAreHarts ==
    ASSUME TypeOK, NEW s \in Sels, NEW m \in BOOLEAN
    PROVE  Selected(s, m) \subseteq Harts
BY DEF TypeOK, Selected, Harts

\* 0 is a hart index.
LEMMA ZeroSel == 0 \in Sels
BY DEF Sels

\* perform_abstract_command keeps the types of what it may change.
LEMMA PerformTypes ==
    ASSUME TypeOK, NEW cmd \in CommandType, NEW data \in Values, perform_abstract_command(cmd, data)
    PROVE  /\ busy' \in BOOLEAN /\ cmderr' \subseteq {0, 1, 2} /\ abstract' \in Transfers
           /\ dmdata' \in Values /\ custom_base' \in Values
           /\ completed' \in BOOLEAN /\ rti_remaining' \in Nat /\ go' \subseteq Harts
BY SelectedIsHart DEF TypeOK, perform_abstract_command, Refuse, CMDERR_NONE, CMDERR_BUSY,
   CMDERR_HALTRESUME, CMDERR_NOTSUP

\* Every dmcontrol write keeps the types.
LEMMA ControlTypes == ASSUME TypeOK, Control PROVE TypeOK'
<1>1. ASSUME dmcontrol_off PROVE TypeOK'
  BY <1>1 DEF TypeOK, dmcontrol_off, stateVars, cmdVars, hartVars
<1>2. ASSUME dmcontrol_locked PROVE TypeOK'
  BY <1>2, ZeroSel DEF TypeOK, dmcontrol_locked, ResetAbstract, CMDERR_NONE, stateVars
<1>3. ASSUME NEW v \in DmcontrolValues, dmi_write_dmcontrol(v) PROVE TypeOK'
  <2> DEFINE sel   == IF v.hartsel < NumHarts THEN v.hartsel ELSE NumHarts - 1
             multi == support_hasel /\ v.hasel
             avail == {h \in Selected(sel, multi) : hart_available(h)}
             R     == (IF v.hartreset THEN avail ELSE {}) \cup (IF v.ndmreset THEN Harts ELSE {})
             wake  == IF v.resumereq THEN avail ELSE {}
             hold  == IF v.haltreq THEN avail ELSE {}
  <2>1. sel \in Sels /\ multi \in BOOLEAN
    BY DEF DmcontrolType, Sels
  <2>2. Selected(sel, multi) \subseteq Harts
    BY <2>1, SelectedAreHarts
  <2>3. R \subseteq Harts /\ wake \subseteq Harts
    BY <2>2
  <2>4. /\ dmactive' = TRUE /\ authenticated' = TRUE /\ hartsel' = sel /\ hasel' = multi
        /\ resume' = resume \cup wake
        /\ resumeack' = resumeack \ wake
        /\ havereset' = (IF v.ackhavereset THEN havereset \ Selected(sel, multi) ELSE havereset) \cup R
        /\ late' = (late \ wake) \cup (wake \ halted)
        /\ ResetHarts(R)
        /\ ResetAbstract(~dmactive)
        /\ UNCHANGED <<mask, unavailable>>
    BY <1>3 DEF dmi_write_dmcontrol
  <2>5. halt_request' \in [Harts -> {"none", "regular", "group"}]
    <3> DEFINE F == [h \in Harts |-> IF h \in hold THEN "regular"
                                     ELSE IF h \in Selected(sel, multi) \/ ~dmactive THEN "none"
                                     ELSE halt_request[h]]
    <3>1. halt_request' = F
      BY <1>3 DEF dmi_write_dmcontrol
    <3>2. \A h \in Harts : halt_request[h] \in {"none", "regular", "group"}
      BY DEF TypeOK
    <3> QED BY <3>1, <3>2
  <2>6. /\ pc' \in [Harts -> Places] /\ xpr' \in [Harts -> Values]
        /\ halted' \subseteq Harts /\ haltgroup' \in [Harts -> Nat]
    BY <2>4 DEF TypeOK, ResetHarts, Places
  <2>7. /\ busy' \in BOOLEAN /\ cmderr' \subseteq {0, 1, 2} /\ autoexec' \subseteq {"data", "progbuf"}
        /\ UNCHANGED <<abstract, dmdata, custom_base, completed, rti_remaining, go, command, progbuf>>
    BY <2>4 DEF TypeOK, ResetAbstract, CMDERR_NONE
  <2>8. /\ resume' \subseteq Harts /\ resumeack' \subseteq Harts /\ havereset' \subseteq Harts
        /\ late' \subseteq Harts
    BY <2>3, <2>4 DEF TypeOK
  <2> QED BY <2>1, <2>4, <2>5, <2>6, <2>7, <2>8 DEF TypeOK
<1> QED BY <1>1, <1>2, <1>3 DEF Control

\* Every other access of the debugger keeps the types.
LEMMA AccessTypes == ASSUME TypeOK, Access PROVE TypeOK'
<1> USE DEF selVars, stateVars, hartVars, cmdVars, noCmdVars
<1>1. ASSUME NEW cmd \in Commands, dmi_write_command(cmd) PROVE TypeOK'
  <2>1. cmd \in CommandType
    OBVIOUS
  <2>2. dmdata \in Values /\ perform_abstract_command(cmd, dmdata)
    BY <1>1 DEF dmi_write_command, TypeOK
  <2> QED BY <1>1, <2>1, <2>2, PerformTypes DEF dmi_write_command, TypeOK
<1>2. ASSUME NEW d \in Values, AccessData(d) PROVE TypeOK'
  <2>1. CASE busy
    BY <1>2, <2>1 DEF AccessData, TypeOK, CMDERR_BUSY, CMDERR_NONE
  <2>2. CASE ~busy /\ "data" \in autoexec
    <3>1. perform_abstract_command(command, d) /\ command \in CommandType
      BY <1>2, <2>2 DEF AccessData, TypeOK
    <3> QED BY <1>2, <3>1, PerformTypes DEF AccessData, TypeOK
  <2>3. CASE ~busy /\ "data" \notin autoexec
    BY <1>2, <2>3 DEF AccessData, TypeOK
  <2> QED BY <2>1, <2>2, <2>3
<1>3. ASSUME NEW p \in ProgramType, AccessProgbuf(p) PROVE TypeOK'
  <2>1. CASE "progbuf" \in autoexec
    <3>1. perform_abstract_command(command, dmdata) /\ command \in CommandType /\ dmdata \in Values
      BY <1>3, <2>1 DEF AccessProgbuf, TypeOK
    <3> QED BY <1>3, <3>1, PerformTypes DEF AccessProgbuf, TypeOK
  <2>2. CASE "progbuf" \notin autoexec
    BY <1>3, <2>2 DEF AccessProgbuf, TypeOK
  <2> QED BY <2>1, <2>2
<1>4. ASSUME NEW bits \in SUBSET {0, 1, 2}, dmi_write_abstractcs(bits) PROVE TypeOK'
  BY <1>4 DEF dmi_write_abstractcs, TypeOK
<1>5. ASSUME NEW a \in AutoValues, dmi_write_abstractauto(a) PROVE TypeOK'
  BY <1>5 DEF dmi_write_abstractauto, TypeOK
<1>6. ASSUME NEW m \in MaskValues, dmi_write_hawindow(m) PROVE TypeOK'
  BY <1>6 DEF dmi_write_hawindow, TypeOK
<1>7. ASSUME NEW right \in BOOLEAN, dmi_write_authdata(right) PROVE TypeOK'
  BY <1>7 DEF dmi_write_authdata, TypeOK
<1>8. ASSUME NEW g \in GroupValues, dmi_write_dmcs2(g) PROVE TypeOK'
  BY <1>8 DEF dmi_write_dmcs2, TypeOK
<1>9. ASSUME NEW u \in CustomValues, dmi_write_custom(u) PROVE TypeOK'
  BY <1>9 DEF dmi_write_custom, TypeOK
<1>10. dmi_read_data => TypeOK'
  BY <1>2 DEF dmi_read_data, TypeOK
<1>11. dmi_read_progbuf => TypeOK'
  BY <1>3 DEF dmi_read_progbuf, TypeOK
<1>12. \A d \in Values : dmi_write_data(d) => TypeOK'
  BY <1>2 DEF dmi_write_data
<1>13. \A p \in Programs : dmi_write_progbuf(p) => TypeOK'
  BY <1>3 DEF dmi_write_progbuf
<1> QED BY <1>1, <1>4, <1>5, <1>6, <1>7, <1>8, <1>9, <1>10, <1>11, <1>12, <1>13 DEF Access
\* Every step of a hart keeps the types.
LEMMA HartTypes == ASSUME TypeOK, NEW h \in Harts, Hart(h) PROVE TypeOK'
<1> USE DEF selVars, stateVars, cmdVars, noHartVars, Goto, Places
<1>1. CASE step_halt(h) \/ step_break(h)
  BY <1>1 DEF step_halt, step_break, TypeOK
<1>2. CASE \E val \in Values : step_run(h, val)
  BY <1>2 DEF step_run, TypeOK
<1>3. CASE rom_halted(h)
  <2>1. halt_request' \in [Harts -> {"none", "regular", "group"}]
    BY <1>3 DEF rom_halted, TypeOK
  <2>2. completed' \in BOOLEAN
    BY <1>3 DEF rom_halted
  <2> QED BY <1>3, <2>1, <2>2 DEF rom_halted, TypeOK
<1>4. CASE rom_poll_go(h) \/ rom_poll_resume(h)
  BY <1>4 DEF rom_poll_go, rom_poll_resume, TypeOK
<1>5. CASE rom_going(h)
  BY <1>5 DEF rom_going, TypeOK
<1>6. CASE rom_abstract(h)
  <2>1. dmdata' \in Values /\ xpr' \in [Harts -> Values]
    BY <1>6 DEF rom_abstract, TypeOK
  <2> QED BY <1>6, <2>1 DEF rom_abstract, TypeOK
<1>7. CASE rom_abstract_trap(h)
  BY <1>7 DEF rom_abstract_trap, TypeOK
<1>10. CASE rom_progbuf(h)
  <2>1. dmdata' \in Values /\ xpr' \in [Harts -> Values]
    BY <1>10 DEF rom_progbuf, TypeOK
  <2> QED BY <1>10, <2>1 DEF rom_progbuf, TypeOK
<1>8. CASE rom_exception(h)
  BY <1>8 DEF rom_exception, TypeOK, CMDERR_NONE, CMDERR_EXCEPTION
<1>9. CASE rom_resuming(h) \/ rom_dret(h)
  BY <1>9 DEF rom_resuming, rom_dret, TypeOK
<1> QED BY <1>1, <1>2, <1>3, <1>4, <1>5, <1>6, <1>7, <1>8, <1>9, <1>10 DEF Hart, Rom

\* An idle cycle keeps the types.
LEMMA IdleTypes == ASSUME TypeOK, run_test_idle PROVE TypeOK'
BY DEF run_test_idle, TypeOK, noCmdVars, selVars, stateVars, hartVars

\* The constructor establishes the types.
LEMMA InitTypes == Init => TypeOK
<1> SUFFICES ASSUME Init PROVE TypeOK
  OBVIOUS
<1>1. "nop" \in CommandType /\ "nop" \in Transfers
  BY DEF CommandType, Transfers
<1>2. command \in CommandType /\ abstract \in Transfers
  BY <1>1 DEF Init
<1>3. progbuf \in ProgramType
  BY DEF Init, ProgramType
<1>4. /\ halt_request \in [Harts -> {"none", "regular", "group"}] /\ pc \in [Harts -> Places]
      /\ xpr \in [Harts -> Values] /\ haltgroup \in [Harts -> Nat]
  BY DEF Init, Places
<1>5. dmdata \in Values /\ custom_base \in Values /\ rti_remaining \in Nat
  BY DEF Init
<1>6. dmactive \in BOOLEAN /\ hasel \in BOOLEAN /\ authenticated \in BOOLEAN /\ busy \in BOOLEAN
      /\ completed \in BOOLEAN /\ cmderr \subseteq {0, 1, 2}
  BY DEF Init, CMDERR_NONE
<1>7. hartsel \in Sels
  BY ZeroSel DEF Init
<1> QED BY <1>2, <1>3, <1>4, <1>5, <1>6, <1>7 DEF Init, TypeOK

\* Every step of the debugger and of the harts keeps the types.
LEMMA TypeStep == TypeOK /\ [Next]_vars => TypeOK'
<1> SUFFICES ASSUME TypeOK, [Next]_vars PROVE TypeOK'
  OBVIOUS
<1>1. CASE UNCHANGED vars
  BY <1>1 DEF vars, selVars, stateVars, cmdVars, hartVars, TypeOK
<1> QED BY <1>1, ControlTypes, AccessTypes, IdleTypes, HartTypes DEF Next

\* Every register of the debug module and every hart's place in the debug ROM
\* keeps its range, whatever the debugger writes.
THEOREM DebugTypeCorrect == Spec => []TypeOK
BY InitTypes, TypeStep, PTL DEF Spec

-----------------------------------------------------------------------------
\* HaltedIsTrue and AckIsFresh survive a step of the debugger.
LEMMA DebuggerViewStep ==
    ASSUME TypeOK, HaltedIsTrue, AckIsFresh, Control \/ Access \/ run_test_idle
    PROVE  HaltedIsTrue' /\ AckIsFresh'
<1> USE DEF HaltedIsTrue, AckIsFresh, Polling, Executing
<1>1. CASE UNCHANGED <<halted, pc, resume, resumeack>>
  BY <1>1
<1>2. ASSUME NEW v \in DmcontrolValues, dmi_write_dmcontrol(v) PROVE HaltedIsTrue' /\ AckIsFresh'
  <2>1. PICK R, wake : /\ ResetHarts(R)
                       /\ resume' = resume \cup wake
                       /\ resumeack' = resumeack \ wake
    BY <1>2 DEF dmi_write_dmcontrol
  <2>2. HaltedIsTrue'
    BY <2>1 DEF ResetHarts, TypeOK
  <2>3. AckIsFresh'
    BY <2>1
  <2> QED BY <2>2, <2>3
<1>3. CASE Access
  BY <1>1, <1>3 DEF Access, dmi_write_command, dmi_read_data, dmi_write_data, AccessData,
     dmi_read_progbuf, dmi_write_progbuf, AccessProgbuf, dmi_write_abstractcs,
     dmi_write_abstractauto, dmi_write_hawindow, dmi_write_authdata, dmi_write_dmcs2,
     dmi_write_custom, noCmdVars, stateVars, hartVars
<1>4. CASE run_test_idle
  BY <1>1, <1>4 DEF run_test_idle, noCmdVars, stateVars, hartVars
<1> QED BY <1>1, <1>2, <1>3, <1>4 DEF Control, dmcontrol_off, dmcontrol_locked, stateVars, hartVars

\* HaltedIsTrue and AckIsFresh survive a step of a hart.
LEMMA HartViewStep ==
    ASSUME TypeOK, HaltedIsTrue, AckIsFresh, NEW h \in Harts, Hart(h)
    PROVE  HaltedIsTrue' /\ AckIsFresh'
<1> USE DEF HaltedIsTrue, AckIsFresh, Polling, Executing, TypeOK, Goto, noHartVars, stateVars
<1>1. CASE step_halt(h) \/ step_break(h)
  BY <1>1 DEF step_halt, step_break
<1>2. CASE \E val \in Values : step_run(h, val)
  BY <1>2 DEF step_run
<1>3. CASE rom_halted(h)
  BY <1>3 DEF rom_halted
<1>4. CASE rom_poll_go(h) \/ rom_poll_resume(h)
  BY <1>4 DEF rom_poll_go, rom_poll_resume
<1>5. CASE rom_going(h) \/ rom_abstract(h) \/ rom_exception(h)
  BY <1>5 DEF rom_going, rom_abstract, rom_exception
<1>6. CASE rom_abstract_trap(h) \/ rom_progbuf(h)
  BY <1>6 DEF rom_abstract_trap, rom_progbuf
<1>7. CASE rom_resuming(h) \/ rom_dret(h)
  BY <1>7 DEF rom_resuming, rom_dret
<1> QED BY <1>1, <1>2, <1>3, <1>4, <1>5, <1>6, <1>7 DEF Hart, Rom

\* The two together with the types are inductive.
LEMMA ViewInvariant == Spec => [](TypeOK /\ HaltedIsTrue /\ AckIsFresh)
<1> DEFINE Inv == TypeOK /\ HaltedIsTrue /\ AckIsFresh
<1>1. Init => Inv
  BY InitTypes DEF Init, HaltedIsTrue, AckIsFresh, Polling, Executing
<1>2. Inv /\ [Next]_vars => Inv'
  <2> SUFFICES ASSUME Inv, [Next]_vars PROVE Inv'
    OBVIOUS
  <2>1. CASE UNCHANGED vars
    BY <2>1, TypeStep DEF vars, selVars, stateVars, cmdVars, hartVars, HaltedIsTrue, AckIsFresh
  <2> QED BY <2>1, TypeStep, DebuggerViewStep, HartViewStep DEF Next
<1> QED BY <1>1, <1>2, PTL DEF Spec

\* What the module believes of every hart is true of it, whatever the debugger
\* does: resets in the middle of a command, resume requests for running harts
\* and halt groups included.
THEOREM DebugHaltedIsTrue == Spec => []HaltedIsTrue
BY ViewInvariant, PTL

\* A resume acknowledgement belongs to the last request.
THEOREM DebugAckIsFresh == Spec => []AckIsFresh
BY ViewInvariant, PTL

-----------------------------------------------------------------------------
(***************************************************************************)
(* Commands, under a debugger that waits.  BusyUntilDone is inductive with *)
(* the types; what a command has done needs four more facts: a hart about  *)
(* to resume still has its flag up, the selected hart stays in the ROM and *)
(* is not asked to resume while busy is up, only a command with postexec   *)
(* brings a hart to the program buffer, and once the hart is past its      *)
(* transfer the register and data0 agree, until the program buffer runs.   *)
(***************************************************************************)
FlagUp  == \A h \in Harts : pc[h] = "resuming" => h \in resume
Stays   == busy => /\ selected_hart_id \notin resume
                   /\ pc[selected_hart_id] \notin {"run", "resuming", "dret"}
PastIt  == /\ selected_hart_id \notin go
           /\ pc[selected_hart_id] \notin {"going", "abstract", "exception"}
AtProgram == pc[selected_hart_id] = "progbuf"
InHand  == /\ busy /\ cmderr = CMDERR_NONE
           /\ AtProgram \/ (PastIt /\ abstract \notin Postexec)
           => Transferred
AsksIt  == \A h \in Harts : pc[h] = "progbuf" => abstract \in Postexec
Careful == TypeOK /\ HaltedIsTrue /\ AckIsFresh /\ BusyUntilDone /\ FlagUp /\ Stays /\ InHand /\ AsksIt

\* A waiting debugger's steps are steps of the specification.
LEMMA CarefulIsNext == CarefulNext => Next
BY DEF CarefulNext, Next

\* The facts about commands survive a dmcontrol write: no command is in flight.
LEMMA ControlCareful ==
    ASSUME Careful, ~busy, Control PROVE BusyUntilDone' /\ FlagUp' /\ Stays' /\ InHand' /\ AsksIt'
<1>1. busy' = FALSE /\ go' = go
  BY DEF Control, dmcontrol_off, dmcontrol_locked, dmi_write_dmcontrol, ResetAbstract, cmdVars,
     Careful, TypeOK
<1>2. \A h \in Harts : h \notin go /\ pc[h] \notin Executing
  BY DEF Careful, BusyUntilDone
<1>3. /\ \A h \in Harts : pc'[h] = pc[h] \/ pc'[h] = "run"
      /\ resume \subseteq resume'
  <2>1. ASSUME NEW v \in DmcontrolValues, dmi_write_dmcontrol(v)
        PROVE  /\ \A h \in Harts : pc'[h] = pc[h] \/ pc'[h] = "run"
               /\ resume \subseteq resume'
    <3>1. PICK R, wake : ResetHarts(R) /\ resume' = resume \cup wake
      BY <2>1 DEF dmi_write_dmcontrol
    <3> QED BY <3>1 DEF ResetHarts
  <2> QED BY <2>1 DEF Control, dmcontrol_off, dmcontrol_locked, hartVars
<1>4. BusyUntilDone'
  BY <1>1, <1>2, <1>3 DEF BusyUntilDone, Executing
<1>5. FlagUp'
  BY <1>3 DEF FlagUp, Careful
<1>6. AsksIt'
  BY <1>2, <1>3 DEF AsksIt, Executing
<1> QED BY <1>1, <1>4, <1>5, <1>6 DEF Stays, InHand

\* The facts about commands survive the start of a command.
LEMMA PerformCareful ==
    ASSUME Careful, Polite, NEW cmd \in CommandType, NEW data \in Values,
           perform_abstract_command(cmd, data), busy => data = dmdata,
           UNCHANGED <<hartsel, pc, xpr, resume>>
    PROVE  BusyUntilDone' /\ FlagUp' /\ Stays' /\ InHand' /\ AsksIt'
<1> USE DEF Careful
<1>1. selected_hart_id \in Harts /\ selected_hart_id' = selected_hart_id
  BY SelectedIsHart DEF selected_hart_id
<1>2. FlagUp'
  BY DEF FlagUp
<1>3. CASE UNCHANGED <<busy, abstract, completed, go>>
  <2>1. BusyUntilDone'
    BY <1>1, <1>3 DEF BusyUntilDone
  <2>2. Stays'
    BY <1>1, <1>3 DEF Stays
  <2>3. InHand'
    <3>1. CASE busy
      <4>1. dmdata' = dmdata /\ (cmderr # CMDERR_NONE => cmderr' # CMDERR_NONE)
        BY <1>3, <3>1 DEF perform_abstract_command, Refuse
      <4> QED BY <1>1, <1>3, <4>1 DEF InHand, AtProgram, PastIt, Transferred
    <3>2. CASE ~busy
      BY <1>3, <3>2 DEF InHand
    <3> QED BY <3>1, <3>2
  <2>4. AsksIt'
    BY <1>3 DEF AsksIt
  <2> QED BY <1>2, <2>1, <2>2, <2>3, <2>4
<1>4. CASE /\ ~busy /\ busy' = TRUE /\ completed' = FALSE
           /\ selected_hart_id \in halted
           /\ go' = go \cup {selected_hart_id}
  <2>1. \A h \in Harts : h \notin go /\ pc[h] \notin Executing
    BY <1>4 DEF BusyUntilDone
  <2>2. BusyUntilDone'
    BY <1>1, <1>4, <2>1 DEF BusyUntilDone
  <2>3. selected_hart_id \notin resume
    BY <1>1, <1>4, <2>1 DEF Polite
  <2>4. pc[selected_hart_id] \notin {"run", "resuming", "dret"}
    BY <1>1, <1>4, <2>3 DEF HaltedIsTrue, FlagUp
  <2>5. Stays'
    BY <1>1, <2>3, <2>4 DEF Stays
  <2>6. InHand'
    BY <1>1, <1>4, <2>1 DEF InHand, PastIt, AtProgram, Executing
  <2>7. AsksIt'
    BY <2>1 DEF AsksIt, Executing
  <2> QED BY <1>2, <2>2, <2>5, <2>6, <2>7
<1> QED BY <1>3, <1>4 DEF perform_abstract_command, Refuse

\* The facts about commands survive every other access.
LEMMA AccessCareful ==
    ASSUME Careful, Access, Polite PROVE BusyUntilDone' /\ FlagUp' /\ Stays' /\ InHand' /\ AsksIt'
<1> USE DEF Careful, selVars, stateVars, hartVars, cmdVars, noCmdVars
<1>1. UNCHANGED <<hartsel, pc, xpr, resume>>
  BY DEF Access, dmi_write_command, dmi_read_data, dmi_write_data, AccessData,
     dmi_read_progbuf, dmi_write_progbuf, AccessProgbuf, dmi_write_abstractcs,
     dmi_write_abstractauto, dmi_write_hawindow, dmi_write_authdata, dmi_write_dmcs2,
     dmi_write_custom
<1>2. CASE UNCHANGED <<busy, abstract, completed, go>> /\ (busy => dmdata' = dmdata)
  BY <1>1, <1>2 DEF BusyUntilDone, FlagUp, Stays, InHand, AsksIt, AtProgram, PastIt, Transferred, selected_hart_id,
     Polite, CMDERR_NONE
<1>3. ASSUME NEW cmd \in Commands, dmi_write_command(cmd)
      PROVE  BusyUntilDone' /\ FlagUp' /\ Stays' /\ InHand' /\ AsksIt'
  <2>1. perform_abstract_command(cmd, dmdata) /\ dmdata \in Values /\ cmd \in CommandType
    BY <1>3 DEF dmi_write_command, TypeOK
  <2> QED BY <1>1, <2>1, PerformCareful
<1>4. ASSUME NEW d \in Values, AccessData(d)
      PROVE  BusyUntilDone' /\ FlagUp' /\ Stays' /\ InHand' /\ AsksIt'
  <2>1. CASE ~busy /\ "data" \in autoexec
    <3>1. perform_abstract_command(command, d) /\ command \in CommandType
      BY <1>4, <2>1 DEF AccessData, TypeOK
    <3> QED BY <1>1, <2>1, <3>1, PerformCareful
  <2>2. CASE busy \/ "data" \notin autoexec
    BY <1>2, <1>4, <2>2 DEF AccessData
  <2> QED BY <2>1, <2>2
<1>5. ASSUME NEW p, AccessProgbuf(p)
      PROVE  BusyUntilDone' /\ FlagUp' /\ Stays' /\ InHand' /\ AsksIt'
  <2>1. CASE "progbuf" \in autoexec
    <3>1. perform_abstract_command(command, dmdata) /\ command \in CommandType /\ dmdata \in Values
      BY <1>5, <2>1 DEF AccessProgbuf, TypeOK
    <3> QED BY <1>1, <3>1, PerformCareful
  <2>2. CASE "progbuf" \notin autoexec
    BY <1>2, <1>5, <2>2 DEF AccessProgbuf
  <2> QED BY <2>1, <2>2
<1>6. dmdata \in Values
  BY DEF TypeOK
<1> QED BY <1>2, <1>3, <1>4, <1>5, <1>6 DEF Access, dmi_read_data, dmi_write_data,
     dmi_read_progbuf, dmi_write_progbuf, dmi_write_abstractcs, dmi_write_abstractauto,
     dmi_write_hawindow, dmi_write_authdata, dmi_write_dmcs2, dmi_write_custom

\* The facts about commands survive an idle cycle.
LEMMA IdleCareful ==
    ASSUME Careful, run_test_idle PROVE BusyUntilDone' /\ FlagUp' /\ Stays' /\ InHand' /\ AsksIt'
<1> USE DEF Careful, selVars, stateVars, hartVars, noCmdVars
<1>1. /\ UNCHANGED <<hartsel, pc, xpr, resume, go, completed, abstract, dmdata, cmderr>>
      /\ busy' => busy
      /\ busy /\ ~busy' => completed
  BY DEF run_test_idle, TypeOK
<1>2. BusyUntilDone'
  <2> SUFFICES ASSUME NEW h \in Harts, h \in go \/ pc[h] \in Executing
               PROVE  busy' /\ ~completed /\ h = selected_hart_id
    BY <1>1 DEF BusyUntilDone, selected_hart_id
  <2> QED BY <1>1 DEF BusyUntilDone
<1> QED BY <1>1, <1>2 DEF FlagUp, Stays, InHand, AsksIt, AtProgram, PastIt, Transferred, selected_hart_id

\* The facts about commands survive a step of a hart.
LEMMA HartCareful ==
    ASSUME Careful, NEW h \in Harts, Hart(h)
    PROVE  BusyUntilDone' /\ FlagUp' /\ Stays' /\ InHand' /\ AsksIt'
<1> USE DEF Careful, selVars, stateVars, hartVars, cmdVars, noHartVars, Goto, TypeOK
<1>0. selected_hart_id \in Harts
  BY SelectedIsHart
<1>1. selected_hart_id' = selected_hart_id
  BY DEF Hart, Rom, step_halt, step_break, step_run, rom_halted, rom_poll_go, rom_poll_resume,
     rom_going, rom_abstract, rom_abstract_trap, rom_progbuf, rom_exception, rom_resuming,
     rom_dret, selected_hart_id
<1> USE <1>0, <1>1 DEF BusyUntilDone, FlagUp, Stays, InHand, AsksIt, AtProgram, PastIt, Transferred, Executing
<1> HIDE DEF selected_hart_id
<1>2. CASE step_halt(h) \/ step_break(h)
  BY <1>2 DEF step_halt, step_break
<1>3. CASE \E val \in Values : step_run(h, val)
  BY <1>3 DEF step_run
<1>4. CASE rom_halted(h)
  BY <1>4 DEF rom_halted
<1>5. CASE rom_poll_go(h)
  BY <1>5 DEF rom_poll_go
<1>6. CASE rom_poll_resume(h)
  BY <1>6 DEF rom_poll_resume
<1>7. CASE rom_going(h)
  BY <1>7 DEF rom_going
<1>8. CASE rom_abstract(h)
  BY <1>8 DEF rom_abstract, Reads, Writes, Postexec
<1>9. CASE rom_abstract_trap(h)
  BY <1>9 DEF rom_abstract_trap
<1>13. CASE rom_progbuf(h)
  BY <1>13 DEF rom_progbuf
<1>10. CASE rom_exception(h)
  BY <1>10 DEF rom_exception, CMDERR_NONE, CMDERR_EXCEPTION
<1>11. CASE rom_resuming(h)
  BY <1>11 DEF rom_resuming, HaltedIsTrue
<1>12. CASE rom_dret(h)
  BY <1>12 DEF rom_dret
<1> QED BY <1>2, <1>3, <1>4, <1>5, <1>6, <1>7, <1>8, <1>9, <1>10, <1>11, <1>12, <1>13 DEF Hart, Rom

\* All of it together is inductive.
LEMMA CarefulInvariant == CarefulSpec => []Careful
<1>1. Init => Careful
  BY InitTypes DEF Init, Careful, HaltedIsTrue, AckIsFresh, Polling, Executing, BusyUntilDone,
     FlagUp, Stays, InHand, AsksIt
<1>2. Careful /\ [CarefulNext]_vars => Careful'
  <2> SUFFICES ASSUME Careful, [CarefulNext]_vars PROVE Careful'
    OBVIOUS
  <2>1. CASE UNCHANGED vars
    BY <2>1, TypeStep DEF vars, selVars, stateVars, cmdVars, hartVars, Careful, HaltedIsTrue,
       AckIsFresh, BusyUntilDone, FlagUp, Stays, InHand, AsksIt, AtProgram, PastIt, Transferred, selected_hart_id
  <2>2. CASE CarefulNext
    <3>1. TypeOK'
      BY <2>2, CarefulIsNext, TypeStep DEF Careful
    <3>2. HaltedIsTrue' /\ AckIsFresh'
      BY <2>2, DebuggerViewStep, HartViewStep DEF Careful, CarefulNext
    <3>3. BusyUntilDone' /\ FlagUp' /\ Stays' /\ InHand' /\ AsksIt'
      BY <2>2, ControlCareful, AccessCareful, IdleCareful, HartCareful DEF CarefulNext
    <3> QED BY <3>1, <3>2, <3>3 DEF Careful
  <2> QED BY <2>1, <2>2
<1> QED BY <1>1, <1>2, PTL DEF CarefulSpec

\* With a debugger that waits, only the selected hart runs the code in
\* debug_abstract, and busy stays up until it is back at the entry.
THEOREM DebugBusyUntilDone == CarefulSpec => []BusyUntilDone
<1>1. Careful => BusyUntilDone
  BY DEF Careful
<1> QED BY <1>1, CarefulInvariant, PTL

\* With a debugger that waits, the transfer of a command without error has
\* taken place when busy falls, or when the program buffer that follows it
\* starts, for every number of harts and every interleaving.
THEOREM DebugCommandEffect == CarefulSpec => CommandEffect
<1>1. Careful /\ [CarefulNext]_vars
        => [/\ cmderr = CMDERR_NONE
            /\ (busy /\ ~busy' /\ abstract \notin Postexec) \/ RunsProgram
            => Transferred]_vars
  <2> SUFFICES ASSUME Careful, CarefulNext, cmderr = CMDERR_NONE,
                      (busy /\ ~busy' /\ abstract \notin Postexec) \/ RunsProgram
               PROVE  Transferred
    OBVIOUS
  <2>1. CASE busy /\ ~busy' /\ abstract \notin Postexec
    <3>1. run_test_idle
      <4>1. ASSUME NEW h \in Harts, Hart(h) PROVE FALSE
        BY <2>1, <4>1 DEF Hart, Rom, step_halt, step_break, step_run, rom_halted, rom_poll_go,
           rom_poll_resume, rom_going, rom_abstract, rom_abstract_trap, rom_progbuf,
           rom_exception, rom_resuming, rom_dret, noHartVars, cmdVars
      <4>2. ASSUME Access PROVE FALSE
        <5>1. ASSUME NEW cmd, NEW d, perform_abstract_command(cmd, d) PROVE FALSE
          BY <2>1, <5>1 DEF perform_abstract_command, Refuse
        <5> QED BY <2>1, <4>2, <5>1 DEF Access, dmi_write_command, dmi_read_data, dmi_write_data,
           AccessData, dmi_read_progbuf, dmi_write_progbuf, AccessProgbuf, dmi_write_abstractcs,
           dmi_write_abstractauto, dmi_write_hawindow, dmi_write_authdata, dmi_write_dmcs2,
           dmi_write_custom, cmdVars
      <4> QED BY <2>1, <4>1, <4>2 DEF CarefulNext
    <3>2. completed
      BY <2>1, <3>1 DEF run_test_idle, Careful, TypeOK
    <3>3. PastIt
      BY <3>2, SelectedIsHart DEF Careful, BusyUntilDone, PastIt, Executing
    <3> QED BY <2>1, <3>3 DEF Careful, InHand
  <2>2. CASE RunsProgram
    <3>1. PICK h \in Harts : pc[h] = "progbuf"
      BY <2>2 DEF RunsProgram
    <3>2. busy /\ h = selected_hart_id
      BY <3>1 DEF Careful, BusyUntilDone, Executing
    <3> QED BY <3>1, <3>2 DEF Careful, InHand, AtProgram
  <2> QED BY <2>1, <2>2
<1> QED BY <1>1, CarefulInvariant, PTL DEF CarefulSpec, CommandEffect
-----------------------------------------------------------------------------
\* What a step may do to the requests of an unavailable hart.
LeftAlone ==
    \A h \in Harts \cap unavailable :
        /\ halt_request'[h] \in {halt_request[h], "none"}
        /\ h \in resume' => h \in resume

\* The debugger's steps respect it: a dmcontrol write asks available harts only.
LEMMA DebuggerLeavesAlone ==
    ASSUME TypeOK, Control \/ Access \/ run_test_idle
    PROVE  LeftAlone
<1>1. ASSUME halt_request' = halt_request, resume' = resume PROVE LeftAlone
  BY <1>1 DEF LeftAlone
<1>2. CASE dmcontrol_locked
  <2>1. resume' = resume /\ (halt_request' = halt_request
                             \/ halt_request' = [h \in Harts |-> "none"])
    BY <1>2 DEF dmcontrol_locked
  <2> QED BY <2>1 DEF LeftAlone
<1>3. ASSUME NEW v \in DmcontrolValues, dmi_write_dmcontrol(v) PROVE LeftAlone
  <2> DEFINE fresh == ~dmactive
             sel   == IF v.hartsel < NumHarts THEN v.hartsel ELSE NumHarts - 1
             multi == support_hasel /\ v.hasel
             S     == Selected(sel, multi)
             avail == {h \in S : hart_available(h)}
             hold  == IF v.haltreq THEN avail ELSE {}
             wake  == IF v.resumereq THEN avail ELSE {}
  <2>1. /\ halt_request' = [h \in Harts |-> IF h \in hold THEN "regular"
                                            ELSE IF h \in S \/ fresh THEN "none"
                                            ELSE halt_request[h]]
        /\ resume' = resume \cup wake
    BY <1>3, Zenon DEF dmi_write_dmcontrol
  <2>2. avail \cap unavailable = {}
    BY DEF hart_available
  <2>3. hold \cap unavailable = {} /\ wake \cap unavailable = {}
    BY <2>2
  <2> HIDE DEF hold, wake, S, fresh
  <2> QED BY <2>1, <2>3 DEF LeftAlone
<1>4. CASE Access
  BY <1>1, <1>4 DEF Access, dmi_write_command, dmi_read_data, dmi_write_data, AccessData,
     dmi_read_progbuf, dmi_write_progbuf, AccessProgbuf, dmi_write_abstractcs,
     dmi_write_abstractauto, dmi_write_hawindow, dmi_write_authdata, dmi_write_dmcs2,
     dmi_write_custom, noCmdVars, hartVars
<1>5. CASE run_test_idle
  BY <1>1, <1>5 DEF run_test_idle, noCmdVars, hartVars
<1>6. CASE dmcontrol_off
  BY <1>1, <1>6 DEF dmcontrol_off, hartVars
<1> QED BY <1>2, <1>3, <1>4, <1>5, <1>6 DEF Control

\* A hart's steps respect it: the halt group asks available harts only.
LEMMA HartLeavesAlone ==
    ASSUME TypeOK, NEW h \in Harts, Hart(h)
    PROVE  LeftAlone
<1>1. CASE rom_halted(h)
  <2>1. PICK mates : /\ mates \cap unavailable = {} /\ resume' = resume
                     /\ halt_request' = [k \in Harts |-> IF k \in mates THEN "group"
                                                         ELSE halt_request[k]]
    <3> DEFINE mates == IF h \notin halted /\ haltgroup[h] # 0
                        THEN {k \in Harts \ (halted \cup {h}) :
                                 haltgroup[k] = haltgroup[h] /\ hart_available(k)}
                        ELSE {}
    <3>1. /\ resume' = resume
          /\ halt_request' = [k \in Harts |-> IF k \in mates THEN "group" ELSE halt_request[k]]
      BY <1>1 DEF rom_halted
    <3>2. mates \cap unavailable = {}
      BY DEF hart_available
    <3> HIDE DEF mates
    <3> QED BY <3>1, <3>2, Zenon
  <2> QED BY <2>1 DEF LeftAlone
<1>2. CASE rom_resuming(h)
  BY <1>2 DEF rom_resuming, LeftAlone
<1>3. CASE /\ ~rom_halted(h) /\ ~rom_resuming(h)
  <2>1. halt_request' = halt_request /\ resume' = resume
    BY <1>3 DEF Hart, Rom, step_halt, step_break, step_run, rom_poll_go, rom_poll_resume,
       rom_going, rom_abstract, rom_abstract_trap, rom_progbuf, rom_exception, rom_dret,
       noHartVars
  <2> QED BY <2>1 DEF LeftAlone
<1> QED BY <1>1, <1>2, <1>3

\* No step asks an unavailable hart to halt or to resume, for any number of harts,
\* selections and halt groups.
THEOREM DebugUnavailableLeftAlone == Spec => UnavailableLeftAlone
<1>1. TypeOK /\ [Next]_vars => [LeftAlone]_vars
  BY DebuggerLeavesAlone, HartLeavesAlone DEF Next
<1>2. Spec => [][LeftAlone]_vars
  BY <1>1, DebugTypeCorrect, PTL DEF Spec
<1> QED BY <1>2 DEF UnavailableLeftAlone, LeftAlone

=============================================================================
