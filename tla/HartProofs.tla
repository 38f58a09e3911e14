----------------------------- MODULE HartProofs -----------------------------
(***************************************************************************)
(* Proofs about Hart, for any slice, delegation, pending interrupts and    *)
(* debugger.                                                               *)
(***************************************************************************)
EXTENDS Hart, TLAPS

MType == [mie : BOOLEAN, mpie : BOOLEAN, mpp : Prv, mpv : BOOLEAN, mdt : BOOLEAN,
          sie : BOOLEAN, spie : BOOLEAN, spp : {U, S}, sdt : BOOLEAN]

SType == [sie : BOOLEAN, spie : BOOLEAN, spp : {U, S}, sdt : BOOLEAN]

CfgType == [medeleg : SUBSET {"fault", "break"}, hedeleg : SUBSET {"fault", "break"},
            mideleg : SUBSET {"SSI"}, hideleg : SUBSET {"VSSI"},
            mdte : BOOLEAN, hdte : BOOLEAN]

DcsrType == [prv : Prv, v : BOOLEAN, step : BOOLEAN]

StateType ==
    [prv : Prv, v : BOOLEAN, debug_mode : BOOLEAN, in_wfi : BOOLEAN,
     critical_error : BOOLEAN, serialized : BOOLEAN,
     single_step : {"none", "stepping", "stepped"},
     pc : {"guest", "rom"}, dpc : {"guest", "rom"}, m : MType, vs : SType,
     spv : BOOLEAN, cfg : CfgType, dcsr : DcsrType,
     saved : [Levels -> Frame], lost : SUBSET Levels]

LoopType == [at : {"slice", "outer", "inner"}, left : 0 .. Slice,
             pc : {"guest", "rom"}, path : {"fast", "slow"},
             csr : BOOLEAN, checked : BOOLEAN]

\* What the registers say of the modes: M is never virtualised, MDT is of M
\* only, and a double-trap bit is up only where it is in use.
ModesAgree(st) ==
    /\ st.v => st.prv # M
    /\ st.m.mpv => st.m.mpp # M
    /\ st.dcsr.v => st.dcsr.prv # M
    /\ st.m.mdt => st.prv = M
    /\ st.m.sdt => st.cfg.mdte
    /\ st.vs.sdt => HDTE(st)

\* A context that its handler has not copied is in the registers of its level,
\* behind the double-trap bit, and the hart is where that handler can run.
FrameM(st) ==
    LET f == st.saved["M"]
    IN  f.live => /\ st.m.mdt
                  /\ st.m.mpp = f.prv /\ st.m.mpv = f.v /\ st.m.mpie = f.ie

FrameS(st) ==
    LET f == st.saved["S"]
    IN  f.live => /\ st.prv = M \/ (st.prv = S /\ ~st.v)
                  /\ st.cfg.mdte => st.m.sdt
                  /\ st.m.spp = f.prv /\ st.spv = f.v /\ st.m.spie = f.ie

FrameVS(st) ==
    LET f == st.saved["VS"]
    IN  f.live => /\ ~(st.v /\ st.prv = U)
                  /\ HDTE(st) => st.vs.sdt
                  /\ st.vs.spp = f.prv /\ f.v /\ st.vs.spie = f.ie

NoneLost(st) ==
    /\ "M" \notin st.lost
    /\ "S" \in st.lost => ~st.cfg.mdte
    /\ "VS" \in st.lost => ~HDTE(st)

Good(st) == /\ st \in StateType /\ ModesAgree(st)
            /\ FrameM(st) /\ FrameS(st) /\ FrameVS(st) /\ NoneLost(st)

\* Between two instructions the loop is where a single step can be ended.
StepInv(st, lp, n) ==
    /\ lp \in LoopType
    /\ lp.at = "slice" => ~lp.csr
    /\ lp.at # "slice" => lp.left # 0
    /\ lp.csr => ~st.in_wfi
    /\ st.dcsr.step /\ st.serialized => lp.csr
    /\ st.dcsr.step /\ ~st.debug_mode =>
           /\ st.single_step # "none"
           /\ lp.csr => lp.checked
           /\ lp.at = "inner" =>
                 /\ lp.path = "slow"
                 /\ lp.checked \/ (st.single_step = "stepped" /\ ~st.serialized)
    /\ n \in {0, 1, Off}
    /\ n # Off => ~st.debug_mode /\ st.dcsr.step
    /\ n = 1 => st.single_step = "stepped" /\ ~st.serialized

HartIInv == Good(state) /\ StepInv(state, loop, stepped) /\ writes \in 0 .. Writes

-----------------------------------------------------------------------------
\* Two records of the hart that differ in other fields only.
SameMode(r, st) == r.prv = st.prv /\ r.v = st.v
SameFrames(r, st) == r.saved = st.saved /\ r.lost = st.lost
SameStep(r, st) == /\ r.debug_mode = st.debug_mode /\ r.in_wfi = st.in_wfi
                   /\ r.serialized = st.serialized
                   /\ r.single_step = st.single_step /\ r.dcsr = st.dcsr
SameRest(r, st) == SameStep(r, st) /\ r.cfg = st.cfg
                   /\ r.critical_error = st.critical_error

-----------------------------------------------------------------------------
(***************************************************************************)
(* What the operators that write a part of the hart leave of it.           *)
(***************************************************************************)

\* set_privilege changes the mode only.
PrivilegeSet(r, st, prv, virt) ==
    /\ r \in StateType /\ r.prv = prv
    /\ r.v \in BOOLEAN /\ (r.v <=> virt /\ prv # M)
    /\ r.m = st.m /\ r.vs = st.vs /\ r.spv = st.spv
    /\ SameFrames(r, st) /\ SameRest(r, st)

\* set_privilege changes the mode and no other field.
LEMMA SetPrivilege ==
    ASSUME NEW st \in StateType, NEW prv \in Prv, NEW virt \in BOOLEAN,
           NEW r, r = set_privilege(st, prv, virt)
    PROVE  PrivilegeSet(r, st, prv, virt)
<1>1. r \in StateType
  BY DEF StateType, set_privilege
<1>2. r.prv = prv /\ r.v \in BOOLEAN /\ (r.v <=> virt /\ prv # M)
  BY DEF StateType, set_privilege
<1>3. r.m = st.m /\ r.vs = st.vs /\ r.spv = st.spv /\ SameFrames(r, st)
  BY DEF StateType, set_privilege, SameFrames
<1>4. SameRest(r, st)
  BY DEF StateType, set_privilege, SameRest, SameStep
<1> QED
  BY <1>1, <1>2, <1>3, <1>4 DEF PrivilegeSet

\* mstatus.write changes mstatus only, and keeps what it was given but MIE.
MstatusWritten(r, st, m) ==
    /\ r \in StateType
    /\ r.m.mie = (m.mie /\ ~m.mdt) /\ r.m.mpie = m.mpie /\ r.m.mpp = m.mpp
    /\ r.m.mpv = m.mpv /\ r.m.mdt = m.mdt /\ r.m.sie = m.sie
    /\ r.m.spie = m.spie /\ r.m.spp = m.spp /\ r.m.sdt = m.sdt
    /\ r.vs = st.vs /\ r.spv = st.spv
    /\ SameMode(r, st) /\ SameFrames(r, st) /\ SameRest(r, st)

\* A write of mstatus changes the status fields and no others.
LEMMA MstatusWrite ==
    ASSUME NEW st \in StateType, NEW m \in MType,
           NEW r, r = mstatus_write(st, m)
    PROVE  MstatusWritten(r, st, m)
<1> DEFINE w == [m EXCEPT !.mie = @ /\ ~m.mdt]
<1>1. w \in MType
  BY DEF MType
<1>2. /\ w.mie = (m.mie /\ ~m.mdt) /\ w.mpie = m.mpie /\ w.mpp = m.mpp
      /\ w.mpv = m.mpv /\ w.mdt = m.mdt /\ w.sie = m.sie
      /\ w.spie = m.spie /\ w.spp = m.spp /\ w.sdt = m.sdt
  BY DEF MType
<1>3. r = [st EXCEPT !.m = w]
  BY DEF mstatus_write
<1> HIDE DEF w
<1>4. r \in StateType /\ r.m = w
  BY <1>1, <1>3 DEF StateType
<1>5. r.vs = st.vs /\ r.spv = st.spv /\ SameMode(r, st) /\ SameFrames(r, st)
  BY <1>3 DEF StateType, SameMode, SameFrames
<1>6. SameRest(r, st)
  BY <1>3 DEF StateType, SameRest, SameStep
<1> QED
  BY <1>2, <1>4, <1>5, <1>6 DEF MstatusWritten

\* A write of sstatus outside the guest changes the S fields of mstatus.
ProxyWritten(r, st, s) ==
    /\ r \in StateType
    /\ r.m.mpie = st.m.mpie /\ r.m.mpp = st.m.mpp
    /\ r.m.mpv = st.m.mpv /\ r.m.mdt = st.m.mdt
    /\ r.m.sdt = (IF st.cfg.mdte THEN s.sdt ELSE st.m.sdt)
    /\ r.m.sie = (s.sie /\ ~r.m.sdt)
    /\ r.m.spie = s.spie /\ r.m.spp = s.spp
    /\ r.vs = st.vs /\ r.spv = st.spv
    /\ SameMode(r, st) /\ SameFrames(r, st) /\ SameRest(r, st)

\* A write through sstatus reaches only the fields of S.
LEMMA ProxyWrite ==
    ASSUME NEW st \in StateType, NEW s \in SType,
           NEW r, r = sstatus_proxy_write(st, s)
    PROVE  ProxyWritten(r, st, s)
<1> DEFINE sdt == IF st.cfg.mdte THEN s.sdt ELSE st.m.sdt
           w == [st.m EXCEPT !.sie = s.sie /\ ~sdt, !.spie = s.spie,
                             !.spp = s.spp, !.sdt = sdt]
<1>1. st.m \in MType /\ st.cfg \in CfgType
  BY DEF StateType
<1>2. sdt \in BOOLEAN
  BY <1>1 DEF MType, SType, CfgType
<1>3. r = mstatus_write(st, w)
  BY DEF sstatus_proxy_write
<1>4. sdt = (IF st.cfg.mdte THEN s.sdt ELSE st.m.sdt)
  OBVIOUS
<1> HIDE DEF sdt
<1>5. w \in MType
  BY <1>1, <1>2 DEF MType, SType
<1>6. /\ w.mpie = st.m.mpie /\ w.mpp = st.m.mpp /\ w.mpv = st.m.mpv
      /\ w.mdt = st.m.mdt /\ w.sie = (s.sie /\ ~sdt) /\ w.spie = s.spie
      /\ w.spp = s.spp /\ w.sdt = sdt
  BY <1>1 DEF MType
<1> HIDE DEF w
<1> QED
  <2>1. MstatusWritten(r, st, w)
    BY <1>3, <1>5, MstatusWrite
  <2> QED
    BY <1>4, <1>6, <2>1 DEF ProxyWritten, MstatusWritten

\* A write of vsstatus changes vsstatus only.
VsWritten(r, st, s) ==
    /\ r \in StateType
    /\ r.vs.sdt = (IF HDTE(st) THEN s.sdt ELSE st.vs.sdt)
    /\ r.vs.sie = (s.sie /\ ~r.vs.sdt)
    /\ r.vs.spie = s.spie /\ r.vs.spp = s.spp
    /\ r.m = st.m /\ r.spv = st.spv
    /\ SameMode(r, st) /\ SameFrames(r, st) /\ SameRest(r, st)

\* A write of vsstatus reaches only the fields of VS.
LEMMA VsWrite ==
    ASSUME NEW st \in StateType, NEW s \in SType,
           NEW r, r = vsstatus_write(st, s)
    PROVE  VsWritten(r, st, s)
<1> DEFINE sdt == IF HDTE(st) THEN s.sdt ELSE st.vs.sdt
           w == [s EXCEPT !.sie = @ /\ ~sdt, !.sdt = sdt]
<1>1. st.vs \in SType /\ st.cfg \in CfgType
  BY DEF StateType
<1>2. sdt \in BOOLEAN /\ sdt = (IF HDTE(st) THEN s.sdt ELSE st.vs.sdt)
  BY <1>1 DEF SType, CfgType, HDTE
<1>3. r = [st EXCEPT !.vs = w]
  BY DEF vsstatus_write
<1> HIDE DEF sdt
<1>4. w \in SType
  BY <1>2 DEF SType
<1>5. w.sie = (s.sie /\ ~sdt) /\ w.spie = s.spie /\ w.spp = s.spp /\ w.sdt = sdt
  BY DEF SType
<1> HIDE DEF w
<1>6. r \in StateType /\ r.vs = w
  BY <1>3, <1>4 DEF StateType
<1>7. r.m = st.m /\ r.spv = st.spv /\ SameMode(r, st) /\ SameFrames(r, st)
  BY <1>3 DEF StateType, SameMode, SameFrames
<1>8. SameRest(r, st)
  BY <1>3 DEF StateType, SameRest, SameStep
<1> QED
  BY <1>2, <1>5, <1>6, <1>7, <1>8 DEF VsWritten

\* sstatus reads the fields of the level that runs.
ReadAs(r, st) ==
    /\ r \in SType
    /\ st.v => /\ r.sie = st.vs.sie /\ r.spie = st.vs.spie
               /\ r.spp = st.vs.spp /\ r.sdt = st.vs.sdt
    /\ ~st.v => /\ r.sie = st.m.sie /\ r.spie = st.m.spie
                /\ r.spp = st.m.spp /\ r.sdt = st.m.sdt

\* What sstatus reads is the fields of the level it is a view of.
LEMMA SstatusRead ==
    ASSUME NEW st \in StateType, ModesAgree(st),
           NEW r, r = sstatus_read(st)
    PROVE  ReadAs(r, st)
<1>1. /\ st.vs \in SType /\ st.m \in MType /\ st.cfg \in CfgType /\ st.v \in BOOLEAN
      /\ st.m.sdt \in BOOLEAN /\ st.vs.sdt \in BOOLEAN /\ HDTE(st) \in BOOLEAN
      /\ st.cfg.mdte \in BOOLEAN
  BY DEF StateType, SType, MType, CfgType, HDTE
<1>2. (st.m.sdt /\ st.cfg.mdte) = st.m.sdt /\ (st.vs.sdt /\ HDTE(st)) = st.vs.sdt
  BY <1>1 DEF ModesAgree
<1>3. CASE st.v
  <2>1. r = [st.vs EXCEPT !.sdt = @ /\ HDTE(st)]
    BY <1>3 DEF sstatus_read
  <2> QED
    BY <1>1, <1>2, <1>3, <2>1 DEF SType, ReadAs
<1>4. CASE ~st.v
  <2>1. r = [sie |-> st.m.sie, spie |-> st.m.spie, spp |-> st.m.spp,
             sdt |-> st.m.sdt /\ st.cfg.mdte]
    BY <1>4 DEF sstatus_read
  <2> QED
    BY <1>1, <1>2, <1>4, <2>1 DEF SType, MType, ReadAs
<1> QED
  BY <1>1, <1>3, <1>4

\* clear_vs_sdt takes the double-trap bit of the guest away.
VsSdtCleared(r, st, c) ==
    /\ r \in StateType /\ r.vs.spie = st.vs.spie /\ r.vs.spp = st.vs.spp
    /\ r.vs.sdt = (st.vs.sdt /\ ~c)
    /\ r.m = st.m /\ r.spv = st.spv
    /\ SameMode(r, st) /\ SameFrames(r, st) /\ SameRest(r, st)

\* A return to VU drops the guest's SDT and changes nothing else.
LEMMA ClearVsSdt ==
    ASSUME NEW st \in StateType, ModesAgree(st), NEW c \in BOOLEAN,
           NEW r, r = IF c THEN clear_vs_sdt(st) ELSE st
    PROVE  VsSdtCleared(r, st, c)
<1> DEFINE s == [st.vs EXCEPT !.sdt = FALSE]
<1>1. st.vs \in SType /\ st.vs.sdt \in BOOLEAN /\ HDTE(st) \in BOOLEAN
  BY DEF StateType, SType, CfgType, HDTE
<1>2. s \in SType /\ s.spie = st.vs.spie /\ s.spp = st.vs.spp /\ s.sdt = FALSE
  BY <1>1 DEF SType
<1>3. CASE c
  <2>1. r = vsstatus_write(st, s)
    BY <1>3 DEF clear_vs_sdt
  <2> HIDE DEF s
  <2>0. VsWritten(r, st, s)
    BY <1>2, <2>1, VsWrite
  <2>2. r.vs.sdt = (IF HDTE(st) THEN FALSE ELSE st.vs.sdt)
    BY <1>2, <2>0 DEF VsWritten
  <2>3. r.vs.sdt = FALSE
    BY <1>1, <2>2 DEF ModesAgree
  <2> QED
    BY <1>2, <1>3, <2>0, <2>3 DEF VsWritten, VsSdtCleared
<1>4. CASE ~c
  BY <1>1, <1>4 DEF SameMode, SameFrames, SameRest, SameStep, VsSdtCleared
<1> QED
  BY <1>3, <1>4

\* A new context in the registers of a level.
SavedAs(r, st, level, ie) ==
    /\ r \in StateType
    /\ r.saved[level].live /\ r.saved[level].prv = st.prv
    /\ r.saved[level].v = st.v /\ r.saved[level].ie = ie
    /\ \A l \in Levels \ {level} : r.saved[l] = st.saved[l]
    /\ r.lost = (IF st.saved[level].live THEN st.lost \cup {level} ELSE st.lost)
    /\ r.m = st.m /\ r.vs = st.vs /\ r.spv = st.spv
    /\ SameMode(r, st) /\ SameRest(r, st)

\* Saves puts the context of one level in place and records the one it overwrites.
LEMMA SavesFields ==
    ASSUME NEW st \in StateType, NEW level \in Levels, NEW ie \in BOOLEAN,
           NEW r, r = Saves(st, level, ie)
    PROVE  SavedAs(r, st, level, ie)
<1> DEFINE f == [live |-> TRUE, prv |-> st.prv, v |-> st.v, ie |-> ie]
           fs == [st.saved EXCEPT ![level] = f]
           l == IF st.saved[level].live THEN st.lost \cup {level} ELSE st.lost
<1>1. /\ st.saved \in [Levels -> Frame] /\ st.lost \in SUBSET Levels
      /\ st.prv \in Prv /\ st.v \in BOOLEAN
  BY DEF StateType
<1>2. f \in Frame /\ f.live /\ f.prv = st.prv /\ f.v = st.v /\ f.ie = ie
  BY <1>1 DEF Frame
<1>3. r = [st EXCEPT !.saved = fs, !.lost = l, !.pc = "guest"]
  BY DEF Saves
<1>4. l \in SUBSET Levels
  BY <1>1
<1> HIDE DEF f
<1>5. /\ fs \in [Levels -> Frame] /\ fs[level] = f
      /\ \A x \in Levels \ {level} : fs[x] = st.saved[x]
  BY <1>1, <1>2
<1> HIDE DEF fs
<1>6. r.saved = fs /\ r.lost = l
  BY <1>3 DEF StateType
<1>7. r \in StateType
  <2> HIDE DEF l
  <2> QED
    BY <1>3, <1>4, <1>5 DEF StateType
<1>8. r.m = st.m /\ r.vs = st.vs /\ r.spv = st.spv /\ SameMode(r, st)
  BY <1>3 DEF StateType, SameMode
<1>9. SameRest(r, st)
  BY <1>3 DEF StateType, SameRest, SameStep
<1> QED
  BY <1>2, <1>5, <1>6, <1>7, <1>8, <1>9 DEF SavedAs

\* The context of a level has been copied, or is given up.
EndedAs(r, st, level) ==
    /\ r \in StateType /\ ~r.saved[level].live
    /\ \A l \in Levels \ {level} : r.saved[l] = st.saved[l]
    /\ r.lost = st.lost
    /\ r.m = st.m /\ r.vs = st.vs /\ r.spv = st.spv
    /\ SameMode(r, st) /\ SameRest(r, st)

\* Ends gives up the context of one level and changes nothing else.
LEMMA EndsFields ==
    ASSUME NEW st \in StateType, NEW level \in Levels,
           NEW r, r = Ends(st, level)
    PROVE  EndedAs(r, st, level)
<1> DEFINE fs == [st.saved EXCEPT ![level] = NoFrame]
<1>1. st.saved \in [Levels -> Frame] /\ NoFrame \in Frame /\ ~NoFrame.live
  BY DEF StateType, NoFrame, Frame, Prv
<1>2. r = [st EXCEPT !.saved = fs]
  BY DEF Ends
<1>3. /\ fs \in [Levels -> Frame] /\ fs[level] = NoFrame
      /\ \A l \in Levels \ {level} : fs[l] = st.saved[l]
  BY <1>1
<1> HIDE DEF fs
<1>4. r \in StateType /\ r.saved = fs
  BY <1>2, <1>3 DEF StateType
<1>5. r.m = st.m /\ r.vs = st.vs /\ r.spv = st.spv /\ SameMode(r, st) /\ r.lost = st.lost
  BY <1>2 DEF StateType, SameMode
<1>6. SameRest(r, st)
  BY <1>2 DEF StateType, SameRest, SameStep
<1> QED
  BY <1>1, <1>3, <1>4, <1>5, <1>6 DEF EndedAs

\* A return to (prv, v) keeps the contexts of the handlers that can run there.
LeftAs(r, st, prv, v) ==
    /\ r \in StateType /\ r.lost = st.lost
    /\ \A l \in Levels : r.saved[l].live => r.saved[l] = st.saved[l]
    /\ r.saved["M"].live => prv = M
    /\ r.saved["S"].live => prv = M \/ (prv = S /\ ~v)
    /\ r.saved["VS"].live => ~(v /\ prv = U)
    /\ r.m = st.m /\ r.vs = st.vs /\ r.spv = st.spv
    /\ SameMode(r, st) /\ SameRest(r, st)

\* Leaves keeps the contexts of the handlers that can run in the new mode, no others.
LEMMA LeavesFields ==
    ASSUME NEW st \in StateType, NEW prv \in Prv, NEW v \in BOOLEAN,
           NEW r, r = Leaves(st, prv, v)
    PROVE  LeftAs(r, st, prv, v)
<1> DEFINE keep(l) == CASE l = "M"  -> prv = M
                        [] l = "S"  -> prv = M \/ (prv = S /\ ~v)
                        [] l = "VS" -> ~(v /\ prv = U)
           fs == [l \in Levels |-> IF keep(l) THEN st.saved[l] ELSE NoFrame]
<1>1. st.saved \in [Levels -> Frame] /\ NoFrame \in Frame /\ ~NoFrame.live
  BY DEF StateType, NoFrame, Frame, Prv
<1>2. r = [st EXCEPT !.saved = fs]
  BY DEF Leaves
<1>3. /\ keep("M") <=> prv = M
      /\ keep("S") <=> prv = M \/ (prv = S /\ ~v)
      /\ keep("VS") <=> ~(v /\ prv = U)
  OBVIOUS
<1> HIDE DEF keep
<1>4. /\ fs \in [Levels -> Frame]
      /\ \A l \in Levels : fs[l] = IF keep(l) THEN st.saved[l] ELSE NoFrame
  BY <1>1
<1> HIDE DEF fs
<1>5. r \in StateType /\ r.saved = fs
  BY <1>2, <1>4 DEF StateType
<1>6. r.m = st.m /\ r.vs = st.vs /\ r.spv = st.spv /\ SameMode(r, st) /\ r.lost = st.lost
  BY <1>2 DEF StateType, SameMode
<1>7. SameRest(r, st)
  BY <1>2 DEF StateType, SameRest, SameStep
<1>8. \A l \in Levels : r.saved[l].live => keep(l) /\ r.saved[l] = st.saved[l]
  BY <1>1, <1>4, <1>5
<1>9. "M" \in Levels /\ "S" \in Levels /\ "VS" \in Levels
  BY DEF Levels
<1> QED
  BY <1>3, <1>5, <1>6, <1>7, <1>8, <1>9 DEF LeftAs

\* Debug mode leaves the status registers and the contexts alone.
LEMMA EnterDebug ==
    ASSUME NEW st, Good(st), NEW r, r = enter_debug_mode(st)
    PROVE  /\ Good(r) /\ r.debug_mode /\ ~r.in_wfi
           /\ r.serialized = st.serialized /\ r.single_step = st.single_step
           /\ r.dcsr.step = st.dcsr.step /\ r.cfg = st.cfg
<1>0. st \in StateType
  BY DEF Good
<1>1. r \in StateType
  BY <1>0 DEF StateType, enter_debug_mode, set_privilege, DcsrType, Prv, U, S, M
<1>2. /\ r.prv = M /\ r.v = FALSE /\ r.debug_mode /\ ~r.in_wfi
      /\ r.dcsr = [st.dcsr EXCEPT !.prv = st.prv, !.v = st.v]
  BY <1>0 DEF StateType, enter_debug_mode, set_privilege, M
<1>3. /\ r.m = st.m /\ r.vs = st.vs /\ r.spv = st.spv /\ r.cfg = st.cfg
      /\ r.saved = st.saved /\ r.lost = st.lost /\ r.serialized = st.serialized
      /\ r.single_step = st.single_step
  BY <1>0 DEF StateType, enter_debug_mode, set_privilege
<1>4. r.dcsr.prv = st.prv /\ r.dcsr.v = st.v /\ r.dcsr.step = st.dcsr.step
  BY <1>0, <1>2 DEF StateType, DcsrType
<1>5. ModesAgree(r) /\ FrameM(r) /\ FrameS(r) /\ FrameVS(r) /\ NoneLost(r)
  BY <1>2, <1>3, <1>4
  DEF Good, ModesAgree, FrameM, FrameS, FrameVS, NoneLost, HDTE, U, M, S
<1> QED
  BY <1>1, <1>2, <1>3, <1>4, <1>5 DEF Good

-----------------------------------------------------------------------------
(***************************************************************************)
(* Traps.                                                                  *)
(***************************************************************************)
TrapType == [int : BOOLEAN, bit : {"fault", "break", "MSI", "SSI", "VSSI"}]

\* A trap into the guest saves a context only where none is waiting to be copied.
LEMMA TrapToVS ==
    ASSUME NEW st, Good(st), st.v, ~sstatus_read(st).sdt,
           NEW r, r = trap_to_vs(st)
    PROVE  Good(r) /\ SameRest(r, st) /\ r.prv = S /\ r.v
<1> DEFINE s == sstatus_read(st)
           set == [sie |-> FALSE, spie |-> s.sie, spp |-> st.prv,
                   sdt |-> s.sdt \/ HDTE(st)]
           a == Saves(st, "VS", s.sie)
           b == sstatus_write(a, set)
<1>1. /\ st \in StateType /\ ModesAgree(st) /\ st.prv \in {U, S}
      /\ st.cfg \in CfgType /\ HDTE(st) \in BOOLEAN /\ st.v = TRUE
  BY DEF Good, StateType, ModesAgree, Prv, HDTE, CfgType
<1>2. ReadAs(s, st)
  BY <1>1, SstatusRead
<1>3. /\ s \in SType /\ s.sie = st.vs.sie /\ s.sdt = FALSE /\ st.vs.sdt = FALSE
  BY <1>1, <1>2 DEF SType, ReadAs
<1>4. r = set_privilege(b, S, TRUE)
  BY DEF trap_to_vs
<1> HIDE DEF s
<1>5. /\ set \in SType /\ set.spie = s.sie /\ set.spp = st.prv /\ set.sdt = HDTE(st)
  BY <1>1, <1>3 DEF SType
<1>6. s.sie \in BOOLEAN /\ "VS" \in Levels /\ S \in Prv
  BY <1>3 DEF SType, Levels, Prv
<1> HIDE DEF set
<1>7. SavedAs(a, st, "VS", s.sie)
  BY <1>1, <1>6, SavesFields
<1>8. /\ a \in StateType /\ a.v = TRUE /\ HDTE(a) = HDTE(st)
      /\ a.saved["VS"].live /\ a.saved["VS"].prv = st.prv
      /\ a.saved["VS"].v = TRUE /\ a.saved["VS"].ie = s.sie
      /\ a.saved["M"] = st.saved["M"] /\ a.saved["S"] = st.saved["S"]
  BY <1>1, <1>7 DEF SavedAs, SameMode, SameRest, HDTE, Levels
<1>9. b = vsstatus_write(a, set)
  BY <1>8 DEF sstatus_write
<1> HIDE DEF a, b
<1>10. VsWritten(b, a, set)
  BY <1>5, <1>8, <1>9, VsWrite
<1>11. b \in StateType
  BY <1>10 DEF VsWritten
<1>12. PrivilegeSet(r, b, S, TRUE)
  BY <1>4, <1>6, <1>11, SetPrivilege
<1>13. /\ r \in StateType /\ r.prv = S /\ r.v = TRUE
       /\ r.m = st.m /\ r.spv = st.spv /\ HDTE(r) = HDTE(st)
       /\ r.vs.sdt = HDTE(st) /\ r.vs.spie = s.sie /\ r.vs.spp = st.prv
       /\ r.saved = a.saved
       /\ r.lost = (IF st.saved["VS"].live THEN st.lost \cup {"VS"} ELSE st.lost)
  <2>1. /\ r \in StateType /\ r.prv = S /\ r.v = TRUE
        /\ r.m = b.m /\ r.spv = b.spv /\ r.vs = b.vs /\ r.cfg = b.cfg
        /\ r.saved = b.saved /\ r.lost = b.lost
    BY <1>12 DEF PrivilegeSet, SameRest, SameFrames, S, M
  <2>2. /\ b.m = a.m /\ b.spv = a.spv /\ b.cfg = a.cfg
        /\ b.saved = a.saved /\ b.lost = a.lost
        /\ b.vs.sdt = (IF HDTE(a) THEN set.sdt ELSE a.vs.sdt)
        /\ b.vs.spie = set.spie /\ b.vs.spp = set.spp
    BY <1>10 DEF VsWritten, SameRest, SameFrames
  <2>3. /\ a.m = st.m /\ a.spv = st.spv /\ a.cfg = st.cfg /\ a.vs = st.vs
        /\ a.lost = (IF st.saved["VS"].live THEN st.lost \cup {"VS"} ELSE st.lost)
    BY <1>7 DEF SavedAs, SameRest
  <2>4. r.vs.sdt = HDTE(st)
    BY <1>1, <1>3, <1>5, <1>8, <2>1, <2>2, <2>3
  <2> QED
    BY <1>5, <2>1, <2>2, <2>3, <2>4 DEF HDTE
<1>14. SameRest(r, st)
  BY <1>7, <1>10, <1>12 DEF SavedAs, VsWritten, PrivilegeSet, SameRest, SameStep
<1>15. ModesAgree(r)
  BY <1>1, <1>3, <1>13, <1>14 DEF ModesAgree, S, M, SameRest, SameStep
<1>16. FrameM(r) /\ FrameS(r)
  <2>1. FrameM(st) /\ FrameS(st) /\ st.prv # M
    BY <1>1 DEF Good, U, S, M
  <2> QED
    BY <1>1, <1>8, <1>13, <2>1 DEF FrameM, FrameS, U, S, M
<1>17. FrameVS(r)
  <2>1. r.saved["VS"].v = TRUE /\ r.prv # U
    BY <1>8, <1>13 DEF S, U
  <2> QED
    BY <1>1, <1>3, <1>8, <1>13, <2>1 DEF FrameVS
<1>18. NoneLost(r)
  <2>1. st.saved["VS"].live => ~HDTE(st)
    BY <1>3 DEF Good, FrameVS
  <2>2. NoneLost(st)
    BY DEF Good
  <2> QED
    BY <1>13, <1>14, <2>1, <2>2 DEF NoneLost, SameRest
<1> QED
  BY <1>13, <1>14, <1>15, <1>16, <1>17, <1>18 DEF Good

\* A trap into HS: from the guest no context of HS is waiting, and outside the
\* guest its double-trap bit has been looked at.
LEMMA TrapToHS ==
    ASSUME NEW st, Good(st), st.prv # M, ~sstatus_read(st).sdt,
           NEW r, r = trap_to_hs(st)
    PROVE  Good(r) /\ SameRest(r, st) /\ r.prv = S /\ ~r.v
<1> DEFINE n == [st EXCEPT !.v = FALSE]
           s == sstatus_read(n)
           set == [sie |-> FALSE, spie |-> s.sie, spp |-> st.prv,
                   sdt |-> s.sdt \/ st.cfg.mdte]
           a == Saves(st, "S", s.sie)
           b == sstatus_proxy_write(a, set)
           c == [b EXCEPT !.spv = st.v]
<1>1. /\ st \in StateType /\ ModesAgree(st) /\ st.prv \in {U, S} /\ st.m.mdt = FALSE
      /\ st.cfg \in CfgType /\ st.cfg.mdte \in BOOLEAN /\ st.v \in BOOLEAN
  BY DEF Good, StateType, ModesAgree, Prv, CfgType, MType
<1>2. /\ n \in StateType /\ ~n.v /\ n.m = st.m /\ n.cfg = st.cfg
  BY <1>1 DEF StateType
<1>3. n.prv = st.prv /\ n.dcsr = st.dcsr /\ n.vs = st.vs
  BY <1>1 DEF StateType
<1>4. ModesAgree(n)
  BY <1>1, <1>2, <1>3 DEF ModesAgree, HDTE
<1> HIDE DEF n
<1>5. ReadAs(s, n)
  BY <1>2, <1>4, SstatusRead
<1>6. /\ s \in SType /\ s.sie = st.m.sie /\ s.sdt = st.m.sdt
      /\ s.sie \in BOOLEAN /\ s.sdt \in BOOLEAN
  BY <1>2, <1>5 DEF ReadAs, SType
<1>7. r = set_privilege(c, S, FALSE)
  BY DEF trap_to_hs, n
<1> HIDE DEF s
<1>8. /\ set \in SType /\ set.spie = s.sie /\ set.spp = st.prv
      /\ st.cfg.mdte => set.sdt = TRUE
  BY <1>1, <1>6 DEF SType
<1>9. "S" \in Levels /\ S \in Prv
  BY DEF Levels, Prv
<1> HIDE DEF set
<1>10. SavedAs(a, st, "S", s.sie)
  BY <1>1, <1>6, <1>9, SavesFields
<1>11. /\ a \in StateType
       /\ a.saved["S"].live /\ a.saved["S"].prv = st.prv
       /\ a.saved["S"].v = st.v /\ a.saved["S"].ie = s.sie
       /\ a.saved["M"] = st.saved["M"] /\ a.saved["VS"] = st.saved["VS"]
       /\ a.m = st.m /\ a.spv = st.spv /\ a.cfg = st.cfg /\ a.vs = st.vs
       /\ a.lost = (IF st.saved["S"].live THEN st.lost \cup {"S"} ELSE st.lost)
  BY <1>10 DEF SavedAs, SameMode, SameRest, Levels
<1> HIDE DEF a
<1>12. ProxyWritten(b, a, set)
  BY <1>8, <1>11, ProxyWrite
<1>13. b \in StateType
  BY <1>12 DEF ProxyWritten
<1>14. /\ c \in StateType /\ c.spv = st.v /\ c.m = b.m /\ c.vs = b.vs
       /\ SameFrames(c, b)
  <2> HIDE DEF b
  <2> QED
    BY <1>1, <1>13 DEF StateType, SameFrames
<1>15. SameRest(c, b)
  <2> HIDE DEF b
  <2> QED
    BY <1>13 DEF StateType, SameRest, SameStep
<1> HIDE DEF b, c
<1>16. PrivilegeSet(r, c, S, FALSE)
  BY <1>7, <1>9, <1>14, SetPrivilege
<1>17. /\ r \in StateType /\ r.prv = S /\ r.v = FALSE
       /\ r.m = b.m /\ r.spv = st.v /\ r.vs = st.vs /\ r.cfg = st.cfg
       /\ r.saved = a.saved /\ r.lost = a.lost
  <2>1. /\ r \in StateType /\ r.prv = S /\ r.v = FALSE
        /\ r.m = c.m /\ r.spv = c.spv /\ r.vs = c.vs /\ r.cfg = c.cfg
        /\ r.saved = c.saved /\ r.lost = c.lost
    BY <1>16 DEF PrivilegeSet, SameRest, SameFrames
  <2>2. /\ b.cfg = a.cfg /\ b.saved = a.saved /\ b.lost = a.lost /\ b.vs = a.vs
    BY <1>12 DEF ProxyWritten, SameRest, SameFrames
  <2> QED
    BY <1>11, <1>14, <1>15, <2>1, <2>2 DEF SameRest, SameFrames
<1>18. SameRest(r, st)
  BY <1>10, <1>12, <1>15, <1>16 DEF SavedAs, ProxyWritten, PrivilegeSet, SameRest, SameStep
<1>19. /\ r.m.mdt = FALSE /\ r.m.mpv = st.m.mpv /\ r.m.mpp = st.m.mpp
       /\ r.m.spie = s.sie /\ r.m.spp = st.prv
       /\ IF st.cfg.mdte THEN r.m.sdt = TRUE ELSE r.m.sdt = st.m.sdt
  BY <1>1, <1>8, <1>11, <1>12, <1>17 DEF ProxyWritten
<1>20. ModesAgree(r)
  BY <1>1, <1>17, <1>18, <1>19 DEF ModesAgree, HDTE, S, M, SameRest, SameStep
<1>21. FrameM(r)
  BY <1>1, <1>11, <1>17 DEF Good, FrameM
<1>22. FrameS(r)
  BY <1>11, <1>17, <1>19 DEF FrameS
<1>23. FrameVS(r)
  BY <1>11, <1>17 DEF Good, FrameVS, HDTE
<1>24. NoneLost(r)
  <2>1. st.saved["S"].live => ~st.cfg.mdte
    <3>1. ReadAs(sstatus_read(st), st)
      BY <1>1, SstatusRead
    <3>2. ~st.v => ~st.m.sdt
      BY <3>1 DEF ReadAs
    <3> QED
      BY <1>1, <3>2 DEF Good, FrameS
  <2>2. NoneLost(st)
    BY DEF Good
  <2> QED
    BY <1>11, <1>17, <2>1, <2>2 DEF NoneLost, HDTE
<1> QED
  BY <1>17, <1>18, <1>20, <1>21, <1>22, <1>23, <1>24 DEF Good

\* A trap into M: MDT stops the hart before a context is lost.
LEMMA TrapToM ==
    ASSUME NEW st, Good(st), NEW r, r = trap_to_m(st)
    PROVE  /\ Good(r) /\ SameStep(r, st) /\ r.cfg = st.cfg
           /\ IF st.m.mdt THEN r.critical_error /\ SameMode(r, st)
              ELSE r.critical_error = st.critical_error /\ r.prv = M
<1>1. /\ st \in StateType /\ ModesAgree(st) /\ st.m \in MType
      /\ st.prv \in Prv /\ st.v \in BOOLEAN
  BY DEF Good, StateType
<1>2. CASE st.m.mdt
  <2>1. r = [st EXCEPT !.critical_error = TRUE]
    BY <1>2 DEF trap_to_m
  <2>2. r \in StateType /\ r.critical_error /\ SameStep(r, st) /\ r.cfg = st.cfg
    BY <1>1, <2>1 DEF StateType, SameStep
  <2>3. /\ r.m = st.m /\ r.vs = st.vs /\ r.spv = st.spv
        /\ r.saved = st.saved /\ r.lost = st.lost /\ SameMode(r, st)
    BY <1>1, <2>1 DEF StateType, SameMode
  <2>4. ModesAgree(r) /\ FrameM(r) /\ FrameS(r) /\ FrameVS(r) /\ NoneLost(r)
    BY <2>2, <2>3 DEF Good, ModesAgree, FrameM, FrameS, FrameVS, NoneLost, HDTE,
                      SameMode, SameStep
  <2> QED
    BY <1>2, <2>2, <2>3, <2>4 DEF Good
<1>3. CASE ~st.m.mdt
  <2> DEFINE w == [st.m EXCEPT !.mdt = TRUE, !.mpie = st.m.mie, !.mpp = st.prv,
                               !.mie = FALSE, !.mpv = st.v]
             a == Saves(st, "M", st.m.mie)
             b == mstatus_write(a, w)
  <2>1. r = set_privilege(b, M, FALSE)
    BY <1>3 DEF trap_to_m
  <2>2. /\ w \in MType /\ w.mdt = TRUE /\ w.mpie = st.m.mie /\ w.mpp = st.prv
        /\ w.mpv = st.v /\ w.spie = st.m.spie /\ w.spp = st.m.spp
        /\ w.sdt = st.m.sdt
    BY <1>1 DEF MType
  <2>3. st.m.mie \in BOOLEAN /\ "M" \in Levels /\ M \in Prv
    BY <1>1 DEF MType, Levels, Prv
  <2> HIDE DEF w
  <2>4. SavedAs(a, st, "M", st.m.mie)
    BY <1>1, <2>3, SavesFields
  <2>5. /\ a \in StateType
        /\ a.saved["M"].live /\ a.saved["M"].prv = st.prv
        /\ a.saved["M"].v = st.v /\ a.saved["M"].ie = st.m.mie
        /\ a.saved["S"] = st.saved["S"] /\ a.saved["VS"] = st.saved["VS"]
        /\ a.m = st.m /\ a.spv = st.spv /\ a.cfg = st.cfg /\ a.vs = st.vs
        /\ a.lost = (IF st.saved["M"].live THEN st.lost \cup {"M"} ELSE st.lost)
    BY <2>4 DEF SavedAs, SameMode, SameRest, Levels
  <2> HIDE DEF a
  <2>6. MstatusWritten(b, a, w)
    BY <2>2, <2>5, MstatusWrite
  <2>7. b \in StateType
    BY <2>6 DEF MstatusWritten
  <2> HIDE DEF b
  <2>8. PrivilegeSet(r, b, M, FALSE)
    BY <2>1, <2>3, <2>7, SetPrivilege
  <2>9. /\ r \in StateType /\ r.prv = M /\ r.v = FALSE
        /\ r.m = b.m /\ r.spv = st.spv /\ r.vs = st.vs /\ r.cfg = st.cfg
        /\ r.saved = a.saved /\ r.lost = a.lost
    <3>1. /\ r \in StateType /\ r.prv = M /\ r.v = FALSE
          /\ r.m = b.m /\ r.spv = b.spv /\ r.vs = b.vs /\ r.cfg = b.cfg
          /\ r.saved = b.saved /\ r.lost = b.lost
      BY <2>8 DEF PrivilegeSet, SameRest, SameFrames
    <3>2. /\ b.cfg = a.cfg /\ b.saved = a.saved /\ b.lost = a.lost /\ b.vs = a.vs
          /\ b.spv = a.spv
      BY <2>6 DEF MstatusWritten, SameRest, SameFrames
    <3> QED
      BY <2>5, <3>1, <3>2
  <2>10. SameRest(r, st)
    BY <2>4, <2>6, <2>8 DEF SavedAs, MstatusWritten, PrivilegeSet, SameRest, SameStep
  <2>11. /\ r.m.mdt = TRUE /\ r.m.mpie = st.m.mie /\ r.m.mpp = st.prv
         /\ r.m.mpv = st.v /\ r.m.spie = st.m.spie /\ r.m.spp = st.m.spp
         /\ r.m.sdt = st.m.sdt
    BY <2>2, <2>6, <2>9 DEF MstatusWritten
  <2>12. ModesAgree(r)
    BY <1>1, <2>9, <2>10, <2>11 DEF ModesAgree, HDTE, SameRest, SameStep
  <2>13. FrameM(r)
    BY <2>5, <2>9, <2>11 DEF FrameM
  <2>14. FrameS(r)
    BY <2>5, <2>9, <2>11 DEF Good, FrameS
  <2>15. FrameVS(r)
    BY <2>5, <2>9 DEF Good, FrameVS, HDTE
  <2>16. NoneLost(r)
    BY <1>3, <2>5, <2>9 DEF Good, FrameM, NoneLost, HDTE
  <2> QED
    BY <1>3, <2>9, <2>10, <2>12, <2>13, <2>14, <2>15, <2>16 DEF Good, SameRest
<1> QED
  BY <1>2, <1>3

\* Where a trap may lead.
Delivered(r, st, t) ==
    \/ r.prv = M
    \/ r.prv = S /\ r.v /\ vsdeleg(st, t)
    \/ r.prv = S /\ ~r.v /\ hsdeleg(st, t) /\ ~vsdeleg(st, t)

\* A trap keeps the contexts, and what the loop looks at.
LEMMA TakeTrap ==
    ASSUME NEW st, Good(st), NEW t, NEW r, r = take_trap(st, t)
    PROVE  /\ Good(r) /\ SameStep(r, st) /\ r.cfg = st.cfg
           /\ IF st.debug_mode THEN SameMode(r, st) ELSE Delivered(r, st, t)
<1>1. st \in StateType /\ ModesAgree(st)
  BY DEF Good
<1>2. CASE st.debug_mode
  <2>1. r = [st EXCEPT !.pc = "rom"]
    BY <1>2 DEF take_trap
  <2>2. r \in StateType /\ SameStep(r, st) /\ r.cfg = st.cfg
    BY <1>1, <2>1 DEF StateType, SameStep
  <2>3. /\ r.m = st.m /\ r.vs = st.vs /\ r.spv = st.spv
        /\ r.saved = st.saved /\ r.lost = st.lost /\ SameMode(r, st)
    BY <1>1, <2>1 DEF StateType, SameMode
  <2>4. ModesAgree(r) /\ FrameM(r) /\ FrameS(r) /\ FrameVS(r) /\ NoneLost(r)
    BY <2>2, <2>3 DEF Good, ModesAgree, FrameM, FrameS, FrameVS, NoneLost, HDTE,
                      SameMode, SameStep
  <2> QED
    BY <1>2, <2>2, <2>3, <2>4 DEF Good
<1>3. CASE ~st.debug_mode /\ vsdeleg(st, t) /\ ~supv_double_trap(st, t)
  <2>1. r = trap_to_vs(st)
    BY <1>3 DEF take_trap
  <2>2. st.v /\ ~sstatus_read(st).sdt
    BY <1>3 DEF vsdeleg, supv_double_trap
  <2> QED
    BY <1>3, <2>1, <2>2, TrapToVS DEF Delivered, SameRest
<1>4. CASE ~st.debug_mode /\ ~vsdeleg(st, t) /\ hsdeleg(st, t)
              /\ ~supv_double_trap(st, t)
  <2>1. r = trap_to_hs(st)
    BY <1>4 DEF take_trap
  <2>2. st.prv # M /\ ~sstatus_read(st).sdt
    BY <1>4 DEF hsdeleg, supv_double_trap
  <2> QED
    BY <1>4, <2>1, <2>2, TrapToHS DEF Delivered, SameRest
<1>5. CASE /\ ~st.debug_mode
           /\ supv_double_trap(st, t) \/ (~vsdeleg(st, t) /\ ~hsdeleg(st, t))
  <2>1. r = trap_to_m(st)
    BY <1>5 DEF take_trap
  <2>2. /\ Good(r) /\ SameStep(r, st) /\ r.cfg = st.cfg
        /\ IF st.m.mdt THEN SameMode(r, st) ELSE r.prv = M
    BY <2>1, TrapToM
  <2>3. r.prv = M
    BY <1>1, <2>2 DEF ModesAgree, SameMode
  <2> QED
    BY <1>5, <2>2, <2>3 DEF Delivered
<1> QED
  BY <1>2, <1>3, <1>4, <1>5

\* What step() makes of a trap it catches: the contexts are kept, and a hart
\* that is stepping stays so unless it enters debug mode.
Caught(r, st) ==
    /\ Good(r) /\ r.serialized = st.serialized /\ r.dcsr.step = st.dcsr.step
    /\ st.debug_mode => r.debug_mode
    /\ r.in_wfi => st.in_wfi
    /\ ~r.debug_mode => r.single_step = st.single_step

\* A trap of the trigger's own, or debug mode.
LEMMA TakeTriggerAction ==
    ASSUME NEW st, Good(st), NEW action \in {"debug", "exception"},
           NEW r, r = take_trigger_action(st, action)
    PROVE  Caught(r, st)
<1>1. CASE action = "debug"
  BY <1>1, EnterDebug DEF take_trigger_action, Caught
<1>2. CASE action = "exception"
  <2>1. r = take_trap(st, Breakpoint)
    BY <1>2 DEF take_trigger_action
  <2>2. Good(r) /\ SameStep(r, st)
    BY <2>1, TakeTrap
  <2> QED
    BY <2>2 DEF Caught, SameStep
<1> QED
  BY <1>1, <1>2

\* The field single_step decides what the loop does and nothing else.
LEMMA SetSingleStep ==
    ASSUME NEW st, Good(st), NEW ss \in {"none", "stepping", "stepped"},
           NEW r, r = [st EXCEPT !.single_step = ss]
    PROVE  /\ Good(r) /\ r.single_step = ss /\ r.debug_mode = st.debug_mode
           /\ r.in_wfi = st.in_wfi /\ r.serialized = st.serialized
           /\ r.dcsr = st.dcsr /\ r.m = st.m /\ SameMode(r, st)
<1>1. st \in StateType
  BY DEF Good
<1>2. /\ r \in StateType /\ r.single_step = ss /\ r.debug_mode = st.debug_mode
      /\ r.in_wfi = st.in_wfi /\ r.serialized = st.serialized /\ r.dcsr = st.dcsr
  BY <1>1 DEF StateType
<1>3. /\ r.m = st.m /\ r.vs = st.vs /\ r.spv = st.spv /\ r.cfg = st.cfg
      /\ r.saved = st.saved /\ r.lost = st.lost /\ SameMode(r, st)
  BY <1>1 DEF StateType, SameMode
<1>4. ModesAgree(r) /\ FrameM(r) /\ FrameS(r) /\ FrameVS(r) /\ NoneLost(r)
  BY <1>2, <1>3 DEF Good, ModesAgree, FrameM, FrameS, FrameVS, NoneLost, HDTE, SameMode
<1> QED
  BY <1>2, <1>3, <1>4 DEF Good

\* A trap that step() catches keeps the contexts.
LEMMA CatchTrap ==
    ASSUME NEW st, Good(st), NEW t, NEW trig \in {"none", "debug", "exception"},
           NEW r, r = catch_trap(st, t, trig)
    PROVE  Caught(r, st)
<1> DEFINE taken == take_trap(st, t)
           halted == IF taken.critical_error THEN enter_debug_mode(taken) ELSE taken
<1>1. Good(taken) /\ SameStep(taken, st)
  BY TakeTrap
<1> HIDE DEF taken
<1>2. Caught(halted, st)
  BY <1>1, EnterDebug DEF Caught, SameStep
<1>3. r = IF trig # "none" THEN take_trigger_action(halted, trig)
          ELSE IF halted.single_step = "stepped"
          THEN enter_debug_mode([halted EXCEPT !.single_step = "none"])
          ELSE halted
  BY DEF catch_trap, taken
<1> HIDE DEF halted
<1>4. CASE trig # "none"
  <2>1. Caught(r, halted)
    BY <1>2, <1>3, <1>4, TakeTriggerAction DEF Caught
  <2> QED
    BY <1>2, <2>1 DEF Caught
<1>5. CASE trig = "none" /\ halted.single_step = "stepped"
  <2> DEFINE q == [halted EXCEPT !.single_step = "none"]
  <2>1. Good(q) /\ q.serialized = halted.serialized /\ q.dcsr = halted.dcsr
    BY <1>2, SetSingleStep DEF Caught
  <2>2. r = enter_debug_mode(q)
    BY <1>3, <1>5
  <2> HIDE DEF q
  <2>3. Caught(r, halted)
    BY <2>1, <2>2, EnterDebug DEF Caught
  <2> QED
    BY <1>2, <2>3 DEF Caught
<1>6. CASE trig = "none" /\ halted.single_step # "stepped"
  BY <1>2, <1>3, <1>6
<1> QED
  BY <1>4, <1>5, <1>6

-----------------------------------------------------------------------------
(***************************************************************************)
(* The loop.                                                               *)
(***************************************************************************)
\* Fields that no conjunct of Good reads.
LEMMA GoodElsewhere ==
    ASSUME NEW st, Good(st), NEW r \in StateType, SameMode(r, st), SameFrames(r, st),
           r.m = st.m, r.vs = st.vs, r.spv = st.spv, r.cfg = st.cfg,
           r.dcsr.v => r.dcsr.prv # M
    PROVE  Good(r)
BY DEF Good, ModesAgree, FrameM, FrameS, FrameVS, NoneLost, HDTE, SameMode, SameFrames

\* The hart before an instruction: nothing of it is disturbed, a single step is
\* counted as taken, and it has not been taken before.
FetchedAs(r) ==
    /\ Good(r) /\ ~r.in_wfi /\ r.debug_mode = state.debug_mode
    /\ r.serialized = state.serialized /\ r.dcsr = state.dcsr
    /\ r.m = state.m /\ r.vs = state.vs /\ r.spv = state.spv /\ r.cfg = state.cfg
    /\ SameMode(r, state) /\ SameFrames(r, state)
    /\ state.dcsr.step /\ ~state.debug_mode => r.single_step = "stepped"

\* What Ready says of the loop.
AtInsn == /\ loop.at = "inner" /\ stepped \in {0, Off} /\ loop.left \in 1 .. Slice
          /\ ~loop.csr /\ state.dcsr.step => ~state.serialized
          /\ stepped = 0 => ~state.debug_mode /\ state.dcsr.step
          /\ state.dcsr.step /\ ~state.debug_mode =>
                loop.path = "slow" /\ (loop.checked \/ ~state.serialized)

\* The fetch of an instruction leaves the contexts alone.
LEMMA FetchedKeeps ==
    ASSUME HartIInv, Ready, NEW r, r = Fetched
    PROVE  FetchedAs(r) /\ AtInsn
<1> DEFINE ss == IF stepping_over THEN "none" ELSE state.single_step
           tt == IF ss = "stepping" THEN "stepped" ELSE ss
<1>1. /\ Good(state) /\ StepInv(state, loop, stepped) /\ state \in StateType
      /\ loop \in LoopType
  BY DEF HartIInv, Good, StepInv
<1>2. /\ r = [state EXCEPT !.in_wfi = FALSE, !.single_step = tt]
  BY DEF Fetched
<1>3. /\ tt \in {"none", "stepping", "stepped"}
      /\ state.dcsr.step /\ ~state.debug_mode => tt = "stepped"
  <2>1. state.single_step \in {"none", "stepping", "stepped"}
    BY <1>1 DEF StateType
  <2>2. tt \in {"none", "stepping", "stepped"}
    BY <2>1
  <2>3. state.dcsr.step /\ ~state.debug_mode => tt = "stepped"
    BY <1>1, <2>1 DEF StepInv, Ready, stepping_over
  <2> QED
    BY <2>2, <2>3
<1> HIDE DEF tt
<1>4. /\ r \in StateType /\ ~r.in_wfi /\ r.debug_mode = state.debug_mode
      /\ r.serialized = state.serialized /\ r.dcsr = state.dcsr /\ r.single_step = tt
  BY <1>1, <1>2, <1>3 DEF StateType
<1>5. /\ r.m = state.m /\ r.vs = state.vs /\ r.spv = state.spv /\ r.cfg = state.cfg
      /\ SameMode(r, state) /\ SameFrames(r, state)
  BY <1>1, <1>2 DEF StateType, SameMode, SameFrames
<1>6. Good(r)
  <2>1. r.dcsr.v => r.dcsr.prv # M
    BY <1>1, <1>4 DEF Good, ModesAgree
  <2> QED
    BY <1>1, <1>4, <1>5, <2>1, GoodElsewhere
<1>7. AtInsn
  <2>1. loop.left \in 1 .. Slice
    BY <1>1, SliceAssumption DEF StepInv, Ready, LoopType
  <2> QED
    BY <1>1, <2>1 DEF AtInsn, StepInv, Ready, stepping_over, Off
<1> QED
  BY <1>3, <1>4, <1>5, <1>6, <1>7 DEF FetchedAs

\* The hart after an instruction's own effect: still the one that was fetched for.
Executed(st, f) ==
    /\ Good(st) /\ ~st.in_wfi /\ st.debug_mode = f.debug_mode
    /\ st.single_step = f.single_step
    /\ st.debug_mode \/ st.dcsr.step = f.dcsr.step

\* Where Outer goes.
LEMMA OuterLoop ==
    ASSUME NEW left \in 0 .. Slice, NEW r, r = Outer(left)
    PROVE  /\ r \in LoopType /\ ~r.csr /\ ~r.checked /\ r.at \in {"slice", "outer"}
           /\ r.at # "slice" => r.left # 0
BY SliceAssumption DEF Outer, AtSlice, LoopType

\* The start of a slice is outside every instruction.
LEMMA SliceLoop == AtSlice \in LoopType /\ ~AtSlice.csr /\ AtSlice.at = "slice"
BY SliceAssumption DEF AtSlice, LoopType

\* A step of the loop that is not inside an instruction keeps the stepping facts
\* when nothing is left over from a CSR instruction.
LEMMA OutsideKeeps ==
    ASSUME NEW st, NEW lp \in LoopType, NEW n,
           ~lp.csr, lp.at \in {"slice", "outer"}, lp.at # "slice" => lp.left # 0,
           st.dcsr.step => ~st.serialized,
           st.dcsr.step /\ ~st.debug_mode => st.single_step # "none",
           n \in {0, 1, Off}, n # Off => ~st.debug_mode /\ st.dcsr.step,
           n = 1 => st.single_step = "stepped" /\ ~st.serialized
    PROVE  StepInv(st, lp, n)
BY DEF StepInv, Off

\* A retired instruction keeps the contexts and the stepping facts.
LEMMA RetireKeeps ==
    ASSUME HartIInv, CanExecute, NEW f, FetchedAs(f), AtInsn,
           NEW st, Executed(st, f), st.serialized = state.serialized,
           st.dcsr.step = f.dcsr.step, Retire(st)
    PROVE  Good(state') /\ StepInv(state', loop', stepped')
<1> DEFINE done == [st EXCEPT !.pc = loop.pc]
<1>1. st \in StateType /\ loop \in LoopType /\ loop.pc \in {"guest", "rom"} /\ ~loop.csr
  BY DEF HartIInv, StepInv, Executed, Good, LoopType, CanExecute
<1>2. /\ done \in StateType /\ done.in_wfi = st.in_wfi /\ done.debug_mode = st.debug_mode
      /\ done.serialized = st.serialized /\ done.dcsr = st.dcsr
      /\ done.single_step = st.single_step
  BY <1>1 DEF StateType
<1>3. /\ done.m = st.m /\ done.vs = st.vs /\ done.spv = st.spv /\ done.cfg = st.cfg
      /\ SameMode(done, st) /\ SameFrames(done, st)
  BY <1>1 DEF StateType, SameMode, SameFrames
<1>4. Good(done)
  <2>1. done.dcsr.v => done.dcsr.prv # M
    BY <1>2 DEF Executed, Good, ModesAgree
  <2> HIDE DEF done
  <2> QED
    BY <1>2, <1>3, <2>1, GoodElsewhere DEF Executed
<1>5. state' = IF loop.path = "slow" /\ done.critical_error /\ ~done.debug_mode
               THEN enter_debug_mode(done) ELSE done
  BY DEF Retire
<1> HIDE DEF done
<1>6. /\ Good(state') /\ ~state'.in_wfi /\ state'.serialized = state.serialized
      /\ state'.dcsr.step = st.dcsr.step
      /\ ~state'.debug_mode => ~st.debug_mode /\ state'.single_step = st.single_step
  BY <1>2, <1>4, <1>5, EnterDebug DEF Executed
<1>7. /\ loop' = Inner(loop.left - 1, loop.pc)
      /\ stepped' = Counted(state')
  BY DEF Retire
<1>8. /\ loop' \in LoopType /\ ~loop'.csr
      /\ loop'.at = "slice" \/ (/\ loop'.at = "inner" /\ loop'.left # 0
                                /\ loop'.path = loop.path)
  <2>1. CASE loop.left - 1 = 0
    BY <1>7, <2>1, SliceLoop DEF Inner
  <2>2. CASE loop.left - 1 # 0
    <3>1. loop' = [loop EXCEPT !.left = loop.left - 1, !.pc = loop.pc, !.checked = FALSE]
      BY <1>7, <2>2 DEF Inner
    <3>2. loop.left - 1 \in 0 .. Slice
      BY SliceAssumption DEF AtInsn
    <3> QED
      BY <1>1, <2>2, <3>1, <3>2 DEF LoopType, AtInsn
  <2> QED
    BY <2>1, <2>2
<1>9. /\ state'.dcsr.step /\ ~state'.debug_mode =>
             state.dcsr.step /\ ~state.debug_mode /\ state'.single_step = "stepped"
      /\ state'.dcsr.step => ~state'.serialized
  BY <1>1, <1>6 DEF Executed, FetchedAs, AtInsn
<1>10. /\ stepped' \in {0, 1, Off}
       /\ stepped' # Off => ~state'.debug_mode /\ state'.dcsr.step
  BY <1>6, <1>7 DEF Counted, AtInsn, Off, Executed, FetchedAs
<1> QED
  BY <1>6, <1>8, <1>9, <1>10 DEF StepInv, AtInsn, Off

\* An instruction that serializes leaves nothing for the next one.
LEMMA SerializeKeeps ==
    ASSUME HartIInv, NEW f, FetchedAs(f), AtInsn,
           NEW st, Executed(st, f), st.dcsr.step => ~st.serialized, Serialize(st)
    PROVE  Good(state') /\ StepInv(state', loop', stepped')
<1>1. state' = st /\ loop' = Outer(loop.left - 1) /\ stepped' = Counted(st)
  BY DEF Serialize
<1>2. loop.left - 1 \in 0 .. Slice
  BY SliceAssumption DEF AtInsn
<1>3. /\ loop' \in LoopType /\ ~loop'.csr /\ loop'.at \in {"slice", "outer"}
      /\ loop'.at # "slice" => loop'.left # 0
  BY <1>1, <1>2, OuterLoop
<1>4. st.dcsr.step /\ ~st.debug_mode => st.single_step = "stepped"
  BY DEF Executed, FetchedAs
<1>5. /\ stepped' \in {0, 1, Off}
      /\ stepped' # Off => ~st.debug_mode /\ st.dcsr.step
  BY <1>1 DEF Counted, AtInsn, Off, Executed, FetchedAs
<1>6. StepInv(st, loop', stepped')
  BY <1>3, <1>4, <1>5, OutsideKeeps DEF Off
<1> QED
  BY <1>1, <1>6 DEF Executed

\* A thrown trap ends the slice.
LEMMA ThrowKeeps ==
    ASSUME HartIInv, NEW f, FetchedAs(f), AtInsn, NEW t,
           NEW st, Executed(st, f), st.dcsr.step => ~st.serialized,
           st.dcsr.step = f.dcsr.step, Throw(st, t)
    PROVE  Good(state') /\ StepInv(state', loop', stepped')
<1>1. PICK trig \in trap_match(st, t) : state' = catch_trap(st, t, trig)
  BY DEF Throw
<1>2. trig \in {"none", "debug", "exception"}
  BY DEF trap_match
<1>3. Caught(state', st)
  BY <1>1, <1>2, CatchTrap DEF Executed
<1>4. loop' = AtSlice /\ stepped' = Ghost(state')
  BY DEF Throw
<1>5. /\ state'.dcsr.step /\ ~state'.debug_mode => state'.single_step = "stepped"
      /\ state'.dcsr.step => ~state'.serialized
  BY <1>3 DEF Caught, Executed, FetchedAs
<1>6. /\ stepped' \in {0, Off}
      /\ stepped' # Off => ~state'.debug_mode /\ state'.dcsr.step
  BY <1>3, <1>4 DEF Ghost, Off, AtInsn, Caught, Executed, FetchedAs
<1>7. StepInv(state', loop', stepped')
  BY <1>4, <1>5, <1>6, SliceLoop, OutsideKeeps DEF Off
<1> QED
  BY <1>3, <1>7 DEF Caught

-----------------------------------------------------------------------------
(***************************************************************************)
(* One lemma per action.                                                   *)
(***************************************************************************)
Kept == Good(state') /\ StepInv(state', loop', stepped')

\* A hart out of reset saves nothing.
LEMMA ResetGood ==
    ASSUME NEW cfg \in CfgType, NEW r, r = Reset(cfg)
    PROVE  /\ Good(r) /\ ~r.dcsr.step /\ ~r.debug_mode /\ ~r.in_wfi /\ ~r.serialized
<1> DEFINE m0 == [mie |-> FALSE, mpie |-> FALSE, mpp |-> U, mpv |-> FALSE, mdt |-> TRUE,
                  sie |-> FALSE, spie |-> FALSE, spp |-> U, sdt |-> FALSE]
           s0 == [sie |-> FALSE, spie |-> FALSE, spp |-> U, sdt |-> FALSE]
           d0 == [prv |-> U, v |-> FALSE, step |-> FALSE]
           f0 == [l \in Levels |-> NoFrame]
<1>1. m0 \in MType /\ ~m0.mpv /\ ~m0.sdt
  BY DEF MType, Prv
<1>2. s0 \in SType /\ ~s0.sdt
  BY DEF SType
<1>3. d0 \in DcsrType /\ ~d0.v /\ ~d0.step
  BY DEF DcsrType, Prv
<1>4. f0 \in [Levels -> Frame] /\ \A l \in Levels : ~f0[l].live
  BY DEF NoFrame, Frame, Prv
<1> HIDE DEF m0, s0, d0, f0
<1>5. r = [prv |-> M, v |-> FALSE, debug_mode |-> FALSE, in_wfi |-> FALSE,
           critical_error |-> FALSE, serialized |-> FALSE, single_step |-> "none",
           pc |-> "guest", dpc |-> "guest", m |-> m0, vs |-> s0,
           spv |-> FALSE, cfg |-> cfg, dcsr |-> d0, saved |-> f0, lost |-> {}]
  BY DEF Reset, m0, s0, d0, f0
<1>6. /\ r.prv = M /\ r.v = FALSE /\ r.debug_mode = FALSE /\ r.in_wfi = FALSE
      /\ r.serialized = FALSE /\ r.m = m0 /\ r.vs = s0 /\ r.spv = FALSE
      /\ r.dcsr = d0 /\ r.saved = f0 /\ r.lost = {}
  BY <1>5
<1>7. r \in StateType
  BY <1>1, <1>2, <1>3, <1>4, <1>5 DEF StateType, Prv
<1>8. ModesAgree(r)
  BY <1>1, <1>2, <1>3, <1>6 DEF ModesAgree
<1>9. FrameM(r) /\ FrameS(r) /\ FrameVS(r) /\ NoneLost(r)
  BY <1>4, <1>6 DEF FrameM, FrameS, FrameVS, NoneLost, Levels
<1> QED
  BY <1>3, <1>6, <1>7, <1>8, <1>9 DEF Good

\* A reset of the hart keeps the invariant.
LEMMA ResetKeeps == HartIInv /\ reset => Kept
<1> SUFFICES ASSUME HartIInv, reset PROVE Kept
  OBVIOUS
<1>1. /\ state.cfg \in CfgType /\ loop \in LoopType /\ loop.at = "slice" /\ ~loop.csr
  BY DEF HartIInv, Good, StateType, StepInv, reset
<1>2. state' = Reset(state.cfg) /\ loop' = loop /\ stepped' = Off
  BY DEF reset
<1>3. Good(state') /\ ~state'.dcsr.step
  BY <1>1, <1>2, ResetGood
<1>4. StepInv(state', loop', stepped')
  BY <1>1, <1>2, <1>3, OutsideKeeps DEF Off
<1> QED
  BY <1>3, <1>4 DEF Kept

\* A slice starts, with or without a halt request.
LEMMA StepKeeps ==
    ASSUME HartIInv, NEW request, step(request)
    PROVE  Kept
<1>1. Good(state) /\ StepInv(state, loop, stepped) /\ loop.at = "slice"
  BY DEF HartIInv, step
<1>2. /\ state' = IF request /\ ~state.debug_mode THEN enter_debug_mode(state) ELSE state
      /\ loop' = Outer(Slice) /\ stepped' = Ghost(state')
  BY DEF step
<1>3. Slice \in 0 .. Slice
  BY SliceAssumption
<1>4. /\ loop' \in LoopType /\ ~loop'.csr /\ loop'.at \in {"slice", "outer"}
      /\ loop'.at # "slice" => loop'.left # 0
  BY <1>2, <1>3, OuterLoop
<1>5. /\ Good(state') /\ state'.serialized = state.serialized
      /\ state'.dcsr.step = state.dcsr.step
      /\ ~state'.debug_mode => state' = state
  BY <1>1, <1>2, EnterDebug
<1>6. StepInv(state', loop', stepped')
  <2>1. state'.dcsr.step => ~state'.serialized
    BY <1>1, <1>5 DEF StepInv
  <2>2. state'.dcsr.step /\ ~state'.debug_mode => state'.single_step # "none"
    BY <1>1, <1>5 DEF StepInv
  <2>3. /\ stepped' \in {0, 1, Off}
        /\ stepped' # Off => ~state'.debug_mode /\ state'.dcsr.step
        /\ stepped' = 1 => state'.single_step = "stepped" /\ ~state'.serialized
    BY <1>1, <1>2, <1>5 DEF StepInv, Ghost, Off
  <2> QED
    BY <1>4, <2>1, <2>2, <2>3, OutsideKeeps
<1> QED
  BY <1>5, <1>6 DEF Kept

\* A pending interrupt wakes the hart and changes nothing else.
LEMMA AwakeGood ==
    ASSUME Good(state), NEW mip, NEW r, r = awake(mip)
    PROVE  /\ Good(r) /\ (r.in_wfi => state.in_wfi) /\ r.debug_mode = state.debug_mode
           /\ r.serialized = state.serialized /\ r.dcsr = state.dcsr
           /\ r.single_step = state.single_step /\ r.m = state.m /\ r.vs = state.vs
           /\ r.cfg = state.cfg /\ SameMode(r, state)
<1>1. state \in StateType /\ (state.in_wfi /\ mip = {}) \in BOOLEAN
  BY DEF Good, StateType
<1>2. r = [state EXCEPT !.in_wfi = state.in_wfi /\ mip = {}]
  BY DEF awake
<1>3. /\ r \in StateType /\ (r.in_wfi => state.in_wfi) /\ r.debug_mode = state.debug_mode
      /\ r.serialized = state.serialized /\ r.dcsr = state.dcsr
      /\ r.single_step = state.single_step
  BY <1>1, <1>2 DEF StateType
<1>4. /\ r.m = state.m /\ r.vs = state.vs /\ r.spv = state.spv /\ r.cfg = state.cfg
      /\ SameMode(r, state) /\ SameFrames(r, state)
  BY <1>1, <1>2 DEF StateType, SameMode, SameFrames
<1>5. r.dcsr.v => r.dcsr.prv # M
  BY <1>3 DEF Good, ModesAgree
<1> QED
  BY <1>3, <1>4, <1>5, GoodElsewhere

\* An interrupt is taken only where no CSR instruction is half done under a
\* single step.
LEMMA TakeInterruptKeeps ==
    ASSUME HartIInv, NEW mip, take_interrupt(mip)
    PROVE  Kept
<1> DEFINE st == awake(mip)
           t == [int |-> TRUE, bit |-> interrupt(enabled_interrupts(mip))]
<1>1. PICK trig \in trap_match(st, t) : state' = catch_trap(st, t, trig)
  BY DEF take_interrupt
<1>2. /\ Good(state) /\ StepInv(state, loop, stepped) /\ loop.at = "outer"
      /\ ~loop.checked /\ ~state.debug_mode /\ loop' = AtSlice
      /\ stepped' = Ghost(state')
  BY DEF HartIInv, take_interrupt
<1>3. trig \in {"none", "debug", "exception"}
  BY DEF trap_match
<1> HIDE DEF t
<1>4. /\ Good(st) /\ st.debug_mode = state.debug_mode
      /\ st.serialized = state.serialized /\ st.dcsr = state.dcsr
      /\ st.single_step = state.single_step
  BY <1>2, AwakeGood
<1> HIDE DEF st
<1>5. Caught(state', st)
  BY <1>1, <1>3, <1>4, CatchTrap
<1>6. /\ state'.serialized = state.serialized /\ state'.dcsr.step = state.dcsr.step
      /\ ~state'.debug_mode => state'.single_step = state.single_step
  BY <1>4, <1>5 DEF Caught
<1>7. state'.dcsr.step => ~state'.serialized
  BY <1>2, <1>6 DEF StepInv
<1>8. state'.dcsr.step /\ ~state'.debug_mode => state'.single_step # "none"
  BY <1>2, <1>6 DEF StepInv
<1>9. /\ stepped' \in {0, 1, Off}
      /\ stepped' # Off => ~state'.debug_mode /\ state'.dcsr.step
      /\ stepped' = 1 => state'.single_step = "stepped" /\ ~state'.serialized
  BY <1>2, <1>6 DEF StepInv, Ghost, Off
<1>10. StepInv(state', loop', stepped')
  BY <1>2, <1>7, <1>8, <1>9, SliceLoop, OutsideKeeps
<1> QED
  BY <1>5, <1>10 DEF Kept, Caught

\* The inner loop is entered on the slow path when the hart is stepping.
LEMMA EnterInnerKeeps ==
    ASSUME HartIInv, NEW mip, enter_inner(mip)
    PROVE  Kept
<1>1. /\ Good(state) /\ StepInv(state, loop, stepped) /\ loop.at = "outer"
      /\ loop \in LoopType /\ state \in StateType
  BY DEF HartIInv, StepInv, Good, enter_inner
<1>2. state' = awake(mip) /\ stepped' = stepped
  BY DEF enter_inner
<1>3. PICK p \in {"fast", "slow"} :
         /\ loop' = [loop EXCEPT !.at = "inner", !.pc = state.pc, !.checked = TRUE,
                                 !.path = p]
         /\ state'.single_step # "none" => p = "slow"
  BY DEF enter_inner, slow_path
<1>4. /\ Good(state') /\ (state'.in_wfi => state.in_wfi)
      /\ state'.debug_mode = state.debug_mode
      /\ state'.serialized = state.serialized /\ state'.dcsr = state.dcsr
      /\ state'.single_step = state.single_step
  BY <1>1, <1>2, AwakeGood
<1>5. /\ loop' \in LoopType /\ loop'.at = "inner" /\ loop'.csr = loop.csr
      /\ loop'.checked /\ loop'.path = p /\ loop'.left = loop.left
  BY <1>1, <1>3 DEF LoopType, StateType
<1>6. StepInv(state', loop', stepped')
  BY <1>1, <1>2, <1>3, <1>4, <1>5 DEF StepInv
<1> QED
  BY <1>4, <1>6 DEF Kept

\* The end of a single step enters debug mode.
LEMMA StepDoneKeeps == HartIInv /\ step_done => Kept
<1> SUFFICES ASSUME HartIInv, step_done PROVE Kept
  OBVIOUS
<1> DEFINE q == [state EXCEPT !.single_step = "none"]
<1>1. /\ Good(state) /\ StepInv(state, loop, stepped) /\ loop.at = "inner"
      /\ loop \in LoopType /\ ~state.serialized
  BY DEF HartIInv, StepInv, step_done, stepping_over
<1>2. state' = enter_debug_mode(q) /\ loop' = Outer(loop.left) /\ stepped' = Off
  BY DEF step_done
<1>3. Good(q) /\ q.serialized = state.serialized
  BY <1>1, SetSingleStep
<1> HIDE DEF q
<1>4. Good(state') /\ state'.debug_mode /\ ~state'.serialized
  BY <1>1, <1>2, <1>3, EnterDebug
<1>5. loop.left \in 0 .. Slice
  BY <1>1 DEF LoopType
<1>6. StepInv(state', loop', stepped')
  BY <1>2, <1>4, <1>5, OuterLoop, OutsideKeeps DEF Off
<1> QED
  BY <1>4, <1>6 DEF Kept

\* A hart in WFI gives its slice up.
LEMMA WaitKeeps == HartIInv /\ wait => Kept
<1> SUFFICES ASSUME HartIInv, wait PROVE Kept
  OBVIOUS
<1> DEFINE tt == IF state.single_step = "stepping" THEN "stepped" ELSE state.single_step
           f == [state EXCEPT !.in_wfi = FALSE, !.single_step = tt]
<1>1. /\ Good(state) /\ StepInv(state, loop, stepped) /\ state \in StateType
      /\ state.in_wfi /\ ~stepping_over /\ loop' = AtSlice /\ stepped' = stepped
      /\ ~state.debug_mode
  BY DEF HartIInv, Good, wait
<1>2. Fetched = f /\ state' = [Fetched EXCEPT !.in_wfi = TRUE]
  BY <1>1 DEF Fetched, wait
<1>3. /\ tt \in {"none", "stepping", "stepped"} /\ (state.single_step # "none" => tt = "stepped")
  BY <1>1 DEF StateType
<1> HIDE DEF tt
<1>4. f \in StateType /\ f.single_step = tt /\ f.debug_mode = state.debug_mode
      /\ f.serialized = state.serialized /\ f.dcsr = state.dcsr
  BY <1>1, <1>3 DEF StateType
<1>5. /\ f.m = state.m /\ f.vs = state.vs /\ f.spv = state.spv /\ f.cfg = state.cfg
      /\ SameMode(f, state) /\ SameFrames(f, state)
  BY <1>1 DEF StateType, SameMode, SameFrames
<1> HIDE DEF f
<1>6. /\ state' \in StateType /\ state'.single_step = tt /\ state'.debug_mode = state.debug_mode
      /\ state'.serialized = state.serialized /\ state'.dcsr = state.dcsr
  BY <1>2, <1>4 DEF StateType
<1>7. /\ state'.m = state.m /\ state'.vs = state.vs /\ state'.spv = state.spv
      /\ state'.cfg = state.cfg /\ SameMode(state', state) /\ SameFrames(state', state)
  BY <1>2, <1>4, <1>5 DEF StateType, SameMode, SameFrames
<1>8. Good(state')
  <2>1. state'.dcsr.v => state'.dcsr.prv # M
    BY <1>1, <1>6 DEF Good, ModesAgree
  <2> QED
    BY <1>1, <1>6, <1>7, <2>1, GoodElsewhere
<1>9. StepInv(state', loop', stepped')
  <2>1. state'.dcsr.step => ~state'.serialized /\ state'.single_step # "none"
    BY <1>1, <1>3, <1>6 DEF StepInv
  <2>2. /\ stepped' \in {0, 1, Off}
        /\ stepped' # Off => ~state'.debug_mode /\ state'.dcsr.step
        /\ stepped' = 1 => state'.single_step = "stepped" /\ ~state'.serialized
    BY <1>1, <1>3, <1>6 DEF StepInv
  <2> QED
    BY <1>1, <2>1, <2>2, SliceLoop, OutsideKeeps
<1> QED
  BY <1>8, <1>9 DEF Kept

\* The hart as it was fetched for is one that may be executed on.
LEMMA FetchedExecutes ==
    ASSUME NEW f, FetchedAs(f)
    PROVE  Executed(f, f)
BY DEF FetchedAs, Executed

\* An instruction that touches no status register keeps the invariant.
LEMMA PlainKeeps == HartIInv /\ plain_insn => Kept
<1> SUFFICES ASSUME HartIInv, plain_insn PROVE Kept
  OBVIOUS
<1>1. CanExecute /\ Ready /\ Retire(Fetched)
  BY DEF plain_insn, CanExecute
<1>2. FetchedAs(Fetched) /\ AtInsn
  BY <1>1, FetchedKeeps
<1>3. Executed(Fetched, Fetched)
  BY <1>2, FetchedExecutes
<1>4. Fetched.serialized = state.serialized
  BY <1>2 DEF FetchedAs
<1> QED
  BY <1>1, <1>2, <1>3, <1>4, RetireKeeps DEF Kept

\* An exception, or an ebreak that is not for the debugger.
LEMMA ThrownKeeps ==
    ASSUME HartIInv, CanExecute, NEW t, Throw(Fetched, t)
    PROVE  Kept
<1>1. Ready /\ ~loop.csr
  BY DEF CanExecute
<1>2. FetchedAs(Fetched) /\ AtInsn
  BY <1>1, FetchedKeeps
<1>3. Executed(Fetched, Fetched)
  BY <1>2, FetchedExecutes
<1>4. Fetched.dcsr.step => ~Fetched.serialized
  BY <1>1, <1>2 DEF FetchedAs, AtInsn
<1> QED
  BY <1>2, <1>3, <1>4, ThrowKeeps DEF Kept

\* A trigger that matches before the instruction keeps the invariant.
LEMMA TriggerKeeps ==
    ASSUME HartIInv, NEW action \in {"debug", "exception"}, trigger_insn(action)
    PROVE  Kept
<1> DEFINE f == Fetched
<1>1. /\ Ready /\ ~loop.csr /\ state' = take_trigger_action(f, action)
      /\ loop' = Outer(loop.left) /\ stepped' = Ghost(state')
  BY DEF trigger_insn, CanExecute
<1>2. FetchedAs(f) /\ AtInsn
  BY <1>1, FetchedKeeps
<1> HIDE DEF f
<1>3. Caught(state', f)
  BY <1>1, <1>2, TakeTriggerAction DEF FetchedAs
<1>4. /\ state'.dcsr.step => ~state'.serialized
      /\ state'.dcsr.step /\ ~state'.debug_mode => state'.single_step = "stepped"
  BY <1>1, <1>2, <1>3 DEF Caught, FetchedAs, AtInsn
<1>5. /\ stepped' \in {0, Off}
      /\ stepped' # Off => ~state'.debug_mode /\ state'.dcsr.step
  BY <1>1, <1>2, <1>3 DEF Caught, FetchedAs, AtInsn, Ghost, Off
<1>6. loop.left \in 0 .. Slice
  BY <1>2, SliceAssumption DEF AtInsn
<1>7. StepInv(state', loop', stepped')
  BY <1>1, <1>4, <1>5, <1>6, OuterLoop, OutsideKeeps DEF Off
<1> QED
  BY <1>3, <1>7 DEF Kept, Caught

\* An ebreak, for the debugger or for a handler, keeps the invariant.
LEMMA EbreakKeeps ==
    ASSUME HartIInv, NEW x, ebreak(x)
    PROVE  Kept
<1> DEFINE f == Fetched
<1>1. CanExecute /\ Ready /\ ~loop.csr
  BY DEF ebreak, CanExecute
<1>2. CASE ~state.debug_mode /\ x
  <2>1. state' = enter_debug_mode(f) /\ loop' = Outer(loop.left) /\ stepped' = Off
    BY <1>2 DEF ebreak
  <2>2. FetchedAs(f) /\ AtInsn
    BY <1>1, FetchedKeeps
  <2> HIDE DEF f
  <2>3. /\ Good(state') /\ state'.debug_mode
        /\ state'.dcsr.step => ~state'.serialized
    BY <1>1, <2>1, <2>2, EnterDebug DEF FetchedAs, AtInsn
  <2>4. loop.left \in 0 .. Slice
    BY <2>2, SliceAssumption DEF AtInsn
  <2>5. StepInv(state', loop', stepped')
    BY <2>1, <2>3, <2>4, OuterLoop, OutsideKeeps DEF Off
  <2> QED
    BY <2>3, <2>5 DEF Kept
<1>3. CASE ~(~state.debug_mode /\ x)
  <2>1. Throw(f, Breakpoint)
    BY <1>3 DEF ebreak
  <2> QED
    BY <1>1, <2>1, ThrownKeeps
<1> QED
  BY <1>2, <1>3

\* WFI, whether it waits or traps, keeps the invariant.
LEMMA WfiKeeps == HartIInv /\ wfi => Kept
<1> SUFFICES ASSUME HartIInv, wfi PROVE Kept
  OBVIOUS
<1> DEFINE f == Fetched
<1>1. /\ Ready /\ ~loop.csr /\ state' = [f EXCEPT !.in_wfi = TRUE, !.pc = loop.pc]
      /\ loop' = AtSlice /\ stepped' = Counted(state')
  BY DEF wfi, CanExecute
<1>2. FetchedAs(f) /\ AtInsn
  BY <1>1, FetchedKeeps
<1>3. f \in StateType /\ loop.pc \in {"guest", "rom"}
  BY <1>2 DEF FetchedAs, Good, HartIInv, StepInv, LoopType
<1> HIDE DEF f
<1>4. /\ state' \in StateType /\ state'.single_step = f.single_step
      /\ state'.debug_mode = f.debug_mode
      /\ state'.serialized = f.serialized /\ state'.dcsr = f.dcsr
  BY <1>1, <1>3 DEF StateType
<1>5. /\ state'.m = f.m /\ state'.vs = f.vs /\ state'.spv = f.spv
      /\ state'.cfg = f.cfg /\ SameMode(state', f) /\ SameFrames(state', f)
  BY <1>1, <1>3 DEF StateType, SameMode, SameFrames
<1>6. Good(state')
  <2>1. state'.dcsr.v => state'.dcsr.prv # M
    BY <1>2, <1>4 DEF FetchedAs, Good, ModesAgree
  <2> QED
    BY <1>2, <1>4, <1>5, <2>1, GoodElsewhere DEF FetchedAs
<1>7. /\ state'.dcsr.step => ~state'.serialized
      /\ state'.dcsr.step /\ ~state'.debug_mode => state'.single_step = "stepped"
  BY <1>1, <1>2, <1>4 DEF FetchedAs, AtInsn
<1>8. /\ stepped' \in {0, 1, Off}
      /\ stepped' # Off => ~state'.debug_mode /\ state'.dcsr.step
  BY <1>1, <1>2, <1>4 DEF Counted, AtInsn, Off, FetchedAs
<1>9. StepInv(state', loop', stepped')
  <2>1. stepped' = 1 => state'.single_step = "stepped" /\ ~state'.serialized
    BY <1>7, <1>8 DEF Off
  <2>2. state'.dcsr.step /\ ~state'.debug_mode => state'.single_step # "none"
    BY <1>7
  <2> QED
    BY <1>1, <1>7, <1>8, <2>1, <2>2, SliceLoop, OutsideKeeps
<1> QED
  BY <1>6, <1>9 DEF Kept

\* The field serialized decides what the loop does and nothing else.
LEMMA SetSerialized ==
    ASSUME NEW st, Good(st), NEW b \in BOOLEAN, NEW r, r = [st EXCEPT !.serialized = b]
    PROVE  /\ Good(r) /\ r.serialized = b /\ r.single_step = st.single_step
           /\ r.debug_mode = st.debug_mode /\ r.in_wfi = st.in_wfi
           /\ r.dcsr = st.dcsr
<1>1. st \in StateType
  BY DEF Good
<1>2. /\ r \in StateType /\ r.single_step = st.single_step /\ r.debug_mode = st.debug_mode
      /\ r.in_wfi = st.in_wfi /\ r.serialized = b /\ r.dcsr = st.dcsr
  BY <1>1 DEF StateType
<1>3. /\ r.m = st.m /\ r.vs = st.vs /\ r.spv = st.spv /\ r.cfg = st.cfg
      /\ SameFrames(r, st) /\ SameMode(r, st)
  BY <1>1 DEF StateType, SameMode, SameFrames
<1>4. r.dcsr.v => r.dcsr.prv # M
  BY <1>2 DEF Good, ModesAgree
<1> QED
  BY <1>2, <1>3, <1>4, GoodElsewhere

\* The first run of a CSR instruction: under a single step the interrupts have
\* been looked at and will not be again before the second.
LEMMA ValidateKeeps == HartIInv /\ validate_csr => Kept
<1> SUFFICES ASSUME HartIInv, validate_csr PROVE Kept
  OBVIOUS
<1> DEFINE f == Fetched
           o == Outer(loop.left)
<1>1. /\ Ready /\ ~loop.csr /\ state' = [f EXCEPT !.serialized = TRUE]
      /\ loop' = [o EXCEPT !.csr = TRUE, !.checked = loop.checked]
      /\ stepped' = stepped
  BY DEF validate_csr, CanExecute
<1>2. FetchedAs(f) /\ AtInsn
  BY <1>1, FetchedKeeps
<1> HIDE DEF f
<1>3. /\ Good(state') /\ state'.serialized = TRUE /\ state'.single_step = f.single_step
      /\ state'.debug_mode = f.debug_mode /\ ~state'.in_wfi /\ state'.dcsr = f.dcsr
  <2>1. PICK b \in BOOLEAN : b = TRUE /\ state' = [f EXCEPT !.serialized = b]
    BY <1>1
  <2>2. Good(f) /\ ~f.in_wfi
    BY <1>2 DEF FetchedAs
  <2>3. /\ Good(state') /\ state'.serialized = b /\ state'.single_step = f.single_step
        /\ state'.debug_mode = f.debug_mode /\ state'.in_wfi = f.in_wfi
        /\ state'.dcsr = f.dcsr
    BY <2>1, <2>2, SetSerialized
  <2> QED
    BY <2>1, <2>2, <2>3
<1>4. loop.left \in 1 .. Slice /\ loop.checked \in BOOLEAN
  BY <1>2 DEF AtInsn, HartIInv, StepInv, LoopType
<1>5. o \in LoopType /\ o.at = "outer" /\ o.left # 0
  <2>1. loop.left \in 0 .. Slice /\ loop.left # 0
    BY <1>4, SliceAssumption
  <2>2. o = [AtSlice EXCEPT !.at = "outer", !.left = loop.left]
    BY <2>1 DEF Outer
  <2> HIDE DEF o
  <2> QED
    BY <2>1, <2>2, SliceLoop DEF LoopType
<1> HIDE DEF o
<1>6. /\ loop' \in LoopType /\ loop'.at = "outer" /\ loop'.left # 0
      /\ loop'.csr /\ loop'.checked = loop.checked
  BY <1>1, <1>4, <1>5 DEF LoopType
<1>7. state.dcsr.step /\ ~state.debug_mode => loop.checked
  BY <1>1, <1>2 DEF HartIInv, StepInv, AtInsn, Ready, stepping_over
<1>8. /\ state'.dcsr.step /\ ~state'.debug_mode =>
            state'.single_step # "none" /\ loop'.checked
  BY <1>2, <1>3, <1>6, <1>7 DEF FetchedAs
<1>9. /\ stepped' \in {0, Off}
      /\ stepped' # Off => ~state'.debug_mode /\ state'.dcsr.step
  BY <1>1, <1>2, <1>3 DEF AtInsn, FetchedAs
<1>10. StepInv(state', loop', stepped')
  BY <1>3, <1>6, <1>8, <1>9 DEF StepInv, Off
<1> QED
  BY <1>3, <1>10 DEF Kept

\* A write of sstatus changes the S fields of the level that runs.
SstatusWritten(r, st, s) ==
    /\ r \in StateType /\ r.spv = st.spv
    /\ SameMode(r, st) /\ SameFrames(r, st) /\ SameRest(r, st)
    /\ IF st.v
       THEN /\ r.m = st.m
            /\ r.vs.spie = s.spie /\ r.vs.spp = s.spp
            /\ r.vs.sdt \in BOOLEAN /\ (r.vs.sdt <=> s.sdt /\ HDTE(st))
            /\ (r.vs.sie <=> s.sie /\ ~r.vs.sdt)
       ELSE /\ r.vs = st.vs
            /\ r.m.mpie = st.m.mpie /\ r.m.mpp = st.m.mpp
            /\ r.m.mpv = st.m.mpv /\ r.m.mdt = st.m.mdt
            /\ r.m.spie = s.spie /\ r.m.spp = s.spp
            /\ r.m.sdt \in BOOLEAN /\ (r.m.sdt <=> s.sdt /\ st.cfg.mdte)
            /\ (r.m.sie <=> s.sie /\ ~r.m.sdt)

\* A write of sstatus reaches the fields of the level it is a view of, and no others.
LEMMA SstatusWrite ==
    ASSUME NEW st \in StateType, NEW s \in SType, ModesAgree(st),
           NEW r, r = sstatus_write(st, s)
    PROVE  SstatusWritten(r, st, s)
<1>1. s.sdt \in BOOLEAN /\ st.m.sdt \in BOOLEAN /\ st.vs.sdt \in BOOLEAN
      /\ HDTE(st) \in BOOLEAN /\ st.cfg.mdte \in BOOLEAN /\ st.v \in BOOLEAN
  BY DEF StateType, SType, MType, CfgType, HDTE
<1>2. CASE st.v
  <2>1. VsWritten(r, st, s)
    BY <1>2, VsWrite DEF sstatus_write
  <2> QED
    BY <1>1, <1>2, <2>1 DEF VsWritten, SstatusWritten, ModesAgree
<1>3. CASE ~st.v
  <2>1. ProxyWritten(r, st, s)
    BY <1>3, ProxyWrite DEF sstatus_write
  <2> QED
    BY <1>1, <1>3, <2>1 DEF ProxyWritten, SstatusWritten, ModesAgree
<1> QED
  BY <1>2, <1>3

\* The second run of a CSR instruction.
LEMMA WriteCsrKeeps ==
    ASSUME HartIInv, NEW f, FetchedAs(f), AtInsn, NEW st, Executed(st, f), WriteCsr(st)
    PROVE  Kept
<1> DEFINE q == [st EXCEPT !.serialized = FALSE]
<1>1. Serialize(q)
  BY DEF WriteCsr
<1>2. PICK b \in BOOLEAN : b = FALSE
  OBVIOUS
<1>3. Good(st)
  BY DEF Executed
<1>4. q = [st EXCEPT !.serialized = b]
  BY <1>2
<1> HIDE DEF q
<1>5. /\ Good(q) /\ q.serialized = b /\ q.single_step = st.single_step
      /\ q.debug_mode = st.debug_mode /\ q.in_wfi = st.in_wfi /\ q.dcsr = st.dcsr
  BY <1>3, <1>4, SetSerialized
<1>6. Executed(q, f) /\ ~q.serialized
  BY <1>2, <1>5 DEF Executed
<1> QED
  BY <1>1, <1>6, SerializeKeeps DEF Kept

\* Either run of a CSR instruction keeps the invariant.
LEMMA CsrKeeps == HartIInv /\ csr_insn => Kept
<1> SUFFICES ASSUME HartIInv, csr_insn PROVE Kept
  OBVIOUS
<1> DEFINE f == Fetched
           q == [f EXCEPT !.serialized = FALSE]
           t == [int |-> FALSE, bit |-> "fault"]
<1>1. Ready /\ (Throw(q, t) \/ WriteCsr(f))
  BY DEF csr_insn
<1>2. FetchedAs(f) /\ AtInsn
  BY <1>1, FetchedKeeps
<1>3. Executed(f, f) /\ Good(f)
  BY <1>2, FetchedExecutes DEF Executed
<1>4. PICK b \in BOOLEAN : b = FALSE
  OBVIOUS
<1>5. q = [f EXCEPT !.serialized = b]
  BY <1>4
<1> HIDE DEF f, q, t
<1>6. /\ Good(q) /\ q.serialized = b /\ q.single_step = f.single_step
      /\ q.debug_mode = f.debug_mode /\ q.in_wfi = f.in_wfi /\ q.dcsr = f.dcsr
  BY <1>3, <1>5, SetSerialized
<1>7. Executed(q, f) /\ ~q.serialized /\ q.dcsr.step = f.dcsr.step
  BY <1>3, <1>4, <1>6 DEF Executed
<1>8. CASE Throw(q, t)
  BY <1>2, <1>7, <1>8, ThrowKeeps DEF Kept
<1>9. CASE WriteCsr(f)
  BY <1>2, <1>3, <1>9, WriteCsrKeeps
<1> QED
  BY <1>1, <1>8, <1>9

\* What a write of the status registers has to respect.
LEMMA ExecutedGood ==
    ASSUME NEW f, FetchedAs(f), NEW r \in StateType, SameMode(r, f), SameRest(r, f),
           ModesAgree(r), FrameM(r), FrameS(r), FrameVS(r), r.lost = f.lost
    PROVE  Executed(r, f)
<1>1. NoneLost(r)
  BY DEF FetchedAs, Good, NoneLost, SameRest, HDTE
<1> QED
  BY <1>1 DEF Executed, Good, FetchedAs, SameRest, SameStep

\* A write of MIE keeps the invariant: it is refused while MDT is set.
LEMMA SoftwareMie ==
    ASSUME HartIInv, NEW on \in BOOLEAN, software_mie(on)
    PROVE  Kept
<1> DEFINE f == Fetched
           w == [state.m EXCEPT !.mie = on]
           st == mstatus_write(f, w)
<1>1. Ready /\ WriteCsr(st)
  BY DEF software_mie, CanWriteCsr
<1>2. FetchedAs(f) /\ AtInsn
  BY <1>1, FetchedKeeps
<1> HIDE DEF f
<1>3. f \in StateType /\ Good(f) /\ f.m \in MType /\ f.m = state.m
  BY <1>2 DEF FetchedAs, Good, StateType
<1>4. /\ w \in MType /\ w.mpie = f.m.mpie /\ w.mpp = f.m.mpp /\ w.mpv = f.m.mpv
      /\ w.mdt = f.m.mdt /\ w.spie = f.m.spie /\ w.spp = f.m.spp /\ w.sdt = f.m.sdt
  BY <1>3 DEF MType
<1> HIDE DEF w
<1>5. MstatusWritten(st, f, w)
  BY <1>3, <1>4, MstatusWrite
<1> HIDE DEF st
<1>6. /\ st \in StateType /\ SameMode(st, f) /\ SameFrames(st, f) /\ SameRest(st, f)
      /\ st.vs = f.vs /\ st.spv = f.spv
      /\ st.m.mpie = f.m.mpie /\ st.m.mpp = f.m.mpp /\ st.m.mpv = f.m.mpv
      /\ st.m.mdt = f.m.mdt /\ st.m.spie = f.m.spie /\ st.m.spp = f.m.spp
      /\ st.m.sdt = f.m.sdt
  BY <1>4, <1>5 DEF MstatusWritten
<1>7. ModesAgree(st)
  BY <1>3, <1>6 DEF Good, ModesAgree, HDTE, SameMode, SameRest, SameStep
<1>8. FrameM(st) /\ FrameS(st) /\ FrameVS(st)
  BY <1>3, <1>6 DEF Good, FrameM, FrameS, FrameVS, HDTE, SameMode, SameFrames, SameRest
<1>9. Executed(st, f)
  BY <1>2, <1>6, <1>7, <1>8, ExecutedGood DEF SameFrames
<1> QED
  BY <1>1, <1>2, <1>9, WriteCsrKeeps

\* A handler of M that clears MDT has copied its context.
LEMMA SoftwareClearsMdt == HartIInv /\ software_clears_mdt => Kept
<1> SUFFICES ASSUME HartIInv, software_clears_mdt PROVE Kept
  OBVIOUS
<1> DEFINE f == Fetched
           w == [state.m EXCEPT !.mdt = FALSE]
           a == mstatus_write(f, w)
           st == Ends(a, "M")
<1>1. Ready /\ WriteCsr(st)
  BY DEF software_clears_mdt, CanWriteCsr
<1>2. FetchedAs(f) /\ AtInsn
  BY <1>1, FetchedKeeps
<1> HIDE DEF f
<1>3. f \in StateType /\ Good(f) /\ f.m \in MType /\ f.m = state.m
  BY <1>2 DEF FetchedAs, Good, StateType
<1>4. /\ w \in MType /\ w.mpie = f.m.mpie /\ w.mpp = f.m.mpp /\ w.mpv = f.m.mpv
      /\ w.mdt = FALSE /\ w.spie = f.m.spie /\ w.spp = f.m.spp /\ w.sdt = f.m.sdt
  BY <1>3 DEF MType
<1> HIDE DEF w
<1>5. MstatusWritten(a, f, w)
  BY <1>3, <1>4, MstatusWrite
<1> HIDE DEF a
<1>6. EndedAs(st, a, "M")
  BY <1>5, EndsFields DEF MstatusWritten, Levels
<1> HIDE DEF st
<1>7. /\ a.lost = f.lost /\ a.saved = f.saved /\ SameMode(a, f) /\ SameRest(a, f)
      /\ a.vs = f.vs /\ a.spv = f.spv
  BY <1>5 DEF MstatusWritten, SameFrames
<1>8. /\ st \in StateType /\ st.lost = f.lost /\ st.vs = f.vs /\ st.spv = f.spv
      /\ ~st.saved["M"].live /\ st.saved["S"] = f.saved["S"]
      /\ st.saved["VS"] = f.saved["VS"]
      /\ SameMode(st, f) /\ SameRest(st, f)
  BY <1>6, <1>7 DEF EndedAs, Levels, SameMode, SameRest, SameStep
<1>9. /\ st.m.mpp = f.m.mpp /\ st.m.mpv = f.m.mpv /\ st.m.mdt = FALSE
      /\ st.m.spie = f.m.spie /\ st.m.spp = f.m.spp /\ st.m.sdt = f.m.sdt
  BY <1>4, <1>5, <1>6 DEF MstatusWritten, EndedAs
<1>10. ModesAgree(st)
  BY <1>3, <1>8, <1>9 DEF Good, ModesAgree, HDTE, SameMode, SameRest, SameStep
<1>11. FrameM(st) /\ FrameS(st) /\ FrameVS(st)
  BY <1>3, <1>8, <1>9 DEF Good, FrameM, FrameS, FrameVS, HDTE, SameMode, SameRest
<1>12. Executed(st, f)
  BY <1>2, <1>8, <1>10, <1>11, ExecutedGood
<1> QED
  BY <1>1, <1>2, <1>12, WriteCsrKeeps

\* A write of MPP by a handler that has copied its context.
LEMMA SoftwareMpp ==
    ASSUME HartIInv, NEW prv \in {U, S}, NEW v \in BOOLEAN, software_mpp(prv, v)
    PROVE  Kept
<1> DEFINE f == Fetched
           w == [state.m EXCEPT !.mpp = prv, !.mpv = v]
           st == mstatus_write(f, w)
<1>1. Ready /\ WriteCsr(st) /\ ~state.saved["M"].live
  BY DEF software_mpp, CanWriteCsr
<1>2. FetchedAs(f) /\ AtInsn
  BY <1>1, FetchedKeeps
<1> HIDE DEF f
<1>3. /\ f \in StateType /\ Good(f) /\ f.m \in MType /\ f.m = state.m
      /\ ~f.saved["M"].live
  BY <1>1, <1>2 DEF FetchedAs, Good, StateType, SameFrames
<1>4. /\ w \in MType /\ w.mpp = prv /\ w.mpv = v
      /\ w.mdt = f.m.mdt /\ w.spie = f.m.spie /\ w.spp = f.m.spp /\ w.sdt = f.m.sdt
  BY <1>3 DEF MType, Prv
<1> HIDE DEF w
<1>5. MstatusWritten(st, f, w)
  BY <1>3, <1>4, MstatusWrite
<1> HIDE DEF st
<1>6. /\ st \in StateType /\ SameMode(st, f) /\ SameFrames(st, f) /\ SameRest(st, f)
      /\ st.vs = f.vs /\ st.spv = f.spv /\ st.m.mpp = prv
      /\ st.m.mdt = f.m.mdt /\ st.m.spie = f.m.spie /\ st.m.spp = f.m.spp
      /\ st.m.sdt = f.m.sdt
  BY <1>4, <1>5 DEF MstatusWritten
<1>7. ModesAgree(st)
  BY <1>3, <1>6 DEF Good, ModesAgree, HDTE, SameMode, SameRest, SameStep, U, S, M
<1>8. FrameM(st) /\ FrameS(st) /\ FrameVS(st)
  BY <1>3, <1>6 DEF Good, FrameM, FrameS, FrameVS, HDTE, SameMode, SameFrames, SameRest
<1>9. Executed(st, f)
  BY <1>2, <1>6, <1>7, <1>8, ExecutedGood DEF SameFrames
<1> QED
  BY <1>1, <1>2, <1>9, WriteCsrKeeps

\* sstatus as the software reads it is sstatus as it will be written.
LEMMA ReadFetched ==
    ASSUME HartIInv, NEW f, FetchedAs(f), NEW s, s = sstatus_read(state)
    PROVE  /\ s \in SType /\ f \in StateType /\ Good(f) /\ ModesAgree(f)
           /\ ReadAs(s, f) /\ f.v = state.v /\ f.v \in BOOLEAN
<1>1. f \in StateType /\ Good(f) /\ ModesAgree(f) /\ f.v \in BOOLEAN /\ f.v = state.v
      /\ f.m = state.m /\ f.vs = state.vs
  BY DEF FetchedAs, Good, StateType, SameMode
<1>2. ReadAs(s, state)
  BY SstatusRead DEF HartIInv, Good
<1> QED
  BY <1>1, <1>2 DEF ReadAs

\* A write of SIE keeps the invariant: it is refused while SDT is set.
LEMMA SoftwareSie ==
    ASSUME HartIInv, NEW on \in BOOLEAN, software_sie(on)
    PROVE  Kept
<1> DEFINE f == Fetched
           s == sstatus_read(state)
           w == [s EXCEPT !.sie = on]
           st == sstatus_write(f, w)
<1>1. Ready /\ WriteCsr(st)
  BY DEF software_sie, CanWriteCsr
<1>2. FetchedAs(f) /\ AtInsn
  BY <1>1, FetchedKeeps
<1> HIDE DEF f
<1>3. /\ s \in SType /\ f \in StateType /\ Good(f) /\ ModesAgree(f)
      /\ ReadAs(s, f) /\ f.v \in BOOLEAN
  BY <1>2, ReadFetched
<1> HIDE DEF s
<1>4. w \in SType /\ w.spie = s.spie /\ w.spp = s.spp /\ w.sdt = s.sdt
  BY <1>3 DEF SType
<1> HIDE DEF w
<1>5. SstatusWritten(st, f, w)
  BY <1>3, <1>4, SstatusWrite
<1> HIDE DEF st
<1>6. /\ st \in StateType /\ SameMode(st, f) /\ SameFrames(st, f) /\ SameRest(st, f)
      /\ st.spv = f.spv
  BY <1>5 DEF SstatusWritten
<1>7. /\ st.m.mpie = f.m.mpie /\ st.m.mpp = f.m.mpp /\ st.m.mpv = f.m.mpv
      /\ st.m.mdt = f.m.mdt /\ st.m.spie = f.m.spie /\ st.m.spp = f.m.spp
      /\ st.m.sdt <=> f.m.sdt
  BY <1>3, <1>4, <1>5 DEF SstatusWritten, ReadAs, ModesAgree
<1>8. st.vs.spie = f.vs.spie /\ st.vs.spp = f.vs.spp /\ (st.vs.sdt <=> f.vs.sdt)
  BY <1>3, <1>4, <1>5 DEF SstatusWritten, ReadAs, ModesAgree
<1>9. ModesAgree(st)
  BY <1>3, <1>6, <1>7, <1>8 DEF ModesAgree, HDTE, SameMode, SameRest, SameStep
<1>10. FrameM(st) /\ FrameS(st) /\ FrameVS(st)
  BY <1>3, <1>6, <1>7, <1>8
  DEF Good, FrameM, FrameS, FrameVS, HDTE, SameMode, SameFrames, SameRest
<1>11. Executed(st, f)
  BY <1>2, <1>6, <1>9, <1>10, ExecutedGood DEF SameFrames
<1> QED
  BY <1>1, <1>2, <1>11, WriteCsrKeeps

\* A handler of S or VS that clears SDT has copied its context.
LEMMA SoftwareClearsSdt == HartIInv /\ software_clears_sdt => Kept
<1> SUFFICES ASSUME HartIInv, software_clears_sdt PROVE Kept
  OBVIOUS
<1> DEFINE f == Fetched
           s == sstatus_read(state)
           w == [s EXCEPT !.sdt = FALSE]
           a == sstatus_write(f, w)
           st == Ends(a, Level(state))
<1>1. Ready /\ WriteCsr(st)
  BY DEF software_clears_sdt, CanWriteCsr
<1>2. FetchedAs(f) /\ AtInsn
  BY <1>1, FetchedKeeps
<1> HIDE DEF f
<1>3. /\ s \in SType /\ f \in StateType /\ Good(f) /\ ModesAgree(f)
      /\ ReadAs(s, f) /\ f.v \in BOOLEAN /\ f.v = state.v
  BY <1>2, ReadFetched
<1> HIDE DEF s
<1>4. w \in SType /\ w.spie = s.spie /\ w.spp = s.spp /\ w.sdt = FALSE
  BY <1>3 DEF SType
<1> HIDE DEF w
<1>5. SstatusWritten(a, f, w)
  BY <1>3, <1>4, SstatusWrite
<1> HIDE DEF a
<1>6. /\ a \in StateType /\ SameMode(a, f) /\ SameFrames(a, f) /\ SameRest(a, f)
      /\ a.spv = f.spv
  BY <1>5 DEF SstatusWritten
<1>7. Level(state) = (IF f.v THEN "VS" ELSE "S") /\ Level(state) \in Levels
  BY <1>3 DEF Level, Levels
<1>8. EndedAs(st, a, Level(state))
  BY <1>6, <1>7, EndsFields
<1> HIDE DEF st
<1>9. /\ st \in StateType /\ st.spv = f.spv /\ st.lost = f.lost
      /\ SameMode(st, f) /\ SameRest(st, f) /\ st.m = a.m /\ st.vs = a.vs
  BY <1>6, <1>8 DEF EndedAs, SameMode, SameFrames, SameRest, SameStep
<1>10. CASE f.v
  <2>1. ~st.saved["VS"].live /\ st.saved["M"] = f.saved["M"] /\ st.saved["S"] = f.saved["S"]
    BY <1>6, <1>7, <1>8, <1>10 DEF EndedAs, SameFrames, Levels
  <2>2. st.m = f.m /\ ~st.vs.sdt
    BY <1>4, <1>5, <1>9, <1>10 DEF SstatusWritten
  <2>3. ModesAgree(st)
    BY <1>3, <1>9, <2>2 DEF ModesAgree, HDTE, SameMode, SameRest, SameStep
  <2>4. FrameM(st) /\ FrameS(st) /\ FrameVS(st)
    BY <1>3, <1>9, <2>1, <2>2 DEF Good, FrameM, FrameS, FrameVS, HDTE, SameMode, SameRest
  <2> QED
    BY <1>2, <1>9, <2>3, <2>4, ExecutedGood, <1>1, WriteCsrKeeps
<1>11. CASE ~f.v
  <2>1. ~st.saved["S"].live /\ st.saved["M"] = f.saved["M"] /\ st.saved["VS"] = f.saved["VS"]
    BY <1>6, <1>7, <1>8, <1>11 DEF EndedAs, SameFrames, Levels
  <2>2. /\ st.vs = f.vs /\ ~st.m.sdt /\ st.m.mpie = f.m.mpie /\ st.m.mpp = f.m.mpp
        /\ st.m.mpv = f.m.mpv /\ st.m.mdt = f.m.mdt
    BY <1>4, <1>5, <1>9, <1>11 DEF SstatusWritten
  <2>3. ModesAgree(st)
    BY <1>3, <1>9, <2>2 DEF ModesAgree, HDTE, SameMode, SameRest, SameStep
  <2>4. FrameM(st) /\ FrameS(st) /\ FrameVS(st)
    BY <1>3, <1>9, <2>1, <2>2 DEF Good, FrameM, FrameS, FrameVS, HDTE, SameMode, SameRest
  <2> QED
    BY <1>2, <1>9, <2>3, <2>4, ExecutedGood, <1>1, WriteCsrKeeps
<1> QED
  BY <1>3, <1>10, <1>11

\* A write of SPP by a handler that has copied its context.
LEMMA SoftwareSpp ==
    ASSUME HartIInv, NEW prv \in {U, S}, NEW v \in BOOLEAN, software_spp(prv, v)
    PROVE  Kept
<1> DEFINE f == Fetched
           s == sstatus_read(state)
           w == [s EXCEPT !.spp = prv]
           a == sstatus_write(f, w)
           st == IF state.v THEN a ELSE [a EXCEPT !.spv = v]
<1>1. Ready /\ WriteCsr(st) /\ ~state.saved[Level(state)].live
  BY DEF software_spp, CanWriteCsr
<1>2. FetchedAs(f) /\ AtInsn
  BY <1>1, FetchedKeeps
<1> HIDE DEF f
<1>3. /\ s \in SType /\ f \in StateType /\ Good(f) /\ ModesAgree(f)
      /\ ReadAs(s, f) /\ f.v \in BOOLEAN /\ f.v = state.v
  BY <1>2, ReadFetched
<1> HIDE DEF s
<1>4. w \in SType /\ w.spie = s.spie /\ w.sdt = s.sdt
  BY <1>3 DEF SType
<1> HIDE DEF w
<1>5. SstatusWritten(a, f, w)
  BY <1>3, <1>4, SstatusWrite
<1> HIDE DEF a
<1>6. /\ a \in StateType /\ SameMode(a, f) /\ SameFrames(a, f) /\ SameRest(a, f)
      /\ a.spv = f.spv
  BY <1>5 DEF SstatusWritten
<1>7. /\ st \in StateType /\ st.m = a.m /\ st.vs = a.vs
      /\ SameMode(st, f) /\ SameFrames(st, f) /\ (f.v => st.spv = f.spv)
  BY <1>3, <1>6 DEF StateType, SameMode, SameFrames
<1>8. SameRest(st, f)
  BY <1>6 DEF StateType, SameRest, SameStep
<1> HIDE DEF st
<1>9. /\ st.m.mpie = f.m.mpie /\ st.m.mpp = f.m.mpp /\ st.m.mpv = f.m.mpv
      /\ st.m.mdt = f.m.mdt /\ st.m.spie = f.m.spie
      /\ st.m.sdt <=> f.m.sdt
      /\ f.v => st.m = f.m
  BY <1>3, <1>4, <1>5, <1>7 DEF SstatusWritten, ReadAs, ModesAgree
<1>10. /\ st.vs.spie = f.vs.spie /\ (st.vs.sdt <=> f.vs.sdt)
       /\ ~f.v => st.vs = f.vs
  BY <1>3, <1>4, <1>5, <1>7 DEF SstatusWritten, ReadAs, ModesAgree
<1>11. ModesAgree(st)
  BY <1>3, <1>7, <1>8, <1>9, <1>10 DEF ModesAgree, HDTE, SameMode, SameRest, SameStep
<1>12. f.v => ~f.saved["VS"].live
  BY <1>1, <1>2, <1>3 DEF Level, FetchedAs, SameFrames
<1>13. ~f.v => ~f.saved["S"].live
  BY <1>1, <1>2, <1>3 DEF Level, FetchedAs, SameFrames
<1>14. FrameM(st) /\ FrameS(st) /\ FrameVS(st)
  BY <1>3, <1>7, <1>8, <1>9, <1>10, <1>12, <1>13
  DEF Good, FrameM, FrameS, FrameVS, HDTE, SameMode, SameFrames, SameRest
<1>15. Executed(st, f)
  BY <1>2, <1>7, <1>8, <1>11, <1>14, ExecutedGood DEF SameFrames
<1> QED
  BY <1>1, <1>2, <1>15, WriteCsrKeeps

\* The debugger's write of dcsr happens in debug mode.
LEMMA DcsrWriteKeeps ==
    ASSUME HartIInv, NEW d \in DcsrType, d.v => d.prv # M, dcsr_write(d)
    PROVE  Kept
<1> DEFINE f == Fetched
           st == [f EXCEPT !.dcsr = d]
<1>1. Ready /\ WriteCsr(st) /\ state.debug_mode
  BY DEF dcsr_write
<1>2. FetchedAs(f) /\ AtInsn
  BY <1>1, FetchedKeeps
<1> HIDE DEF f
<1>3. f \in StateType /\ Good(f) /\ f.debug_mode /\ ~f.in_wfi
  BY <1>1, <1>2 DEF FetchedAs, Good
<1>4. /\ st \in StateType /\ st.single_step = f.single_step /\ st.debug_mode = f.debug_mode
      /\ st.in_wfi = f.in_wfi /\ st.dcsr = d
  BY <1>3 DEF StateType
<1>5. /\ st.m = f.m /\ st.vs = f.vs /\ st.spv = f.spv /\ st.cfg = f.cfg
      /\ SameMode(st, f) /\ SameFrames(st, f)
  BY <1>3 DEF StateType, SameMode, SameFrames
<1> HIDE DEF st
<1>6. Good(st)
  BY <1>3, <1>4, <1>5, GoodElsewhere
<1>7. Executed(st, f)
  BY <1>3, <1>4, <1>6 DEF Executed
<1> QED
  BY <1>1, <1>2, <1>7, WriteCsrKeeps

\* mret gives back what the trap into M saved.
MretReturns == /\ state'.prv = state.m.mpp /\ state'.v = state.m.mpv
               /\ state'.m.mie = state.m.mpie

\* mret keeps the invariant and returns to the saved mode.
LEMMA MretKeeps == HartIInv /\ mret => Kept /\ MretReturns
<1> SUFFICES ASSUME HartIInv, mret PROVE Kept /\ MretReturns
  OBVIOUS
<1> DEFINE f == Fetched
           prv == f.m.mpp
           v == f.m.mpv
           k == v /\ prv # M
           c == v /\ prv = U
           vs_ok == IF c THEN clear_vs_sdt(f) ELSE f
           set == [f.m EXCEPT !.mie = f.m.mpie, !.mpie = TRUE, !.mpp = U,
                       !.mpv = FALSE, !.mdt = FALSE, !.sdt = @ /\ ~(prv = U \/ v)]
           b == mstatus_write(vs_ok, set)
           e == Ends(b, "M")
           l == Leaves(e, prv, k)
           r == set_privilege(l, prv, v)
<1>1. Ready /\ ~loop.csr /\ Serialize(r)
  BY DEF mret, GuestCode, CanExecute
<1>2. FetchedAs(f) /\ AtInsn
  BY <1>1, FetchedKeeps
<1> HIDE DEF f
<1>3. /\ f \in StateType /\ Good(f) /\ ModesAgree(f) /\ f.m \in MType /\ f.m = state.m
      /\ f.m.sdt \in BOOLEAN /\ f.m.mpie \in BOOLEAN
  BY <1>2 DEF FetchedAs, Good, StateType, MType
<1>4. prv \in Prv /\ v \in BOOLEAN /\ c \in BOOLEAN /\ k \in BOOLEAN /\ k = v
  BY <1>3 DEF MType, ModesAgree
<1>5. VsSdtCleared(vs_ok, f, c)
  <2> HIDE DEF c
  <2> QED
    BY <1>3, <1>4, ClearVsSdt
<1>6. /\ set \in MType /\ set.mie = f.m.mpie /\ set.mdt = FALSE /\ set.mpv = FALSE
      /\ set.spie = f.m.spie /\ set.spp = f.m.spp
  BY <1>3 DEF MType, Prv
<1>7. set.sdt = (f.m.sdt /\ ~(prv = U \/ v))
  BY <1>3 DEF MType
<1>8. vs_ok \in StateType
  BY <1>5 DEF VsSdtCleared
<1> HIDE DEF set, vs_ok
<1>9. MstatusWritten(b, vs_ok, set)
  BY <1>6, <1>8, MstatusWrite
<1>10. b \in StateType
  BY <1>9 DEF MstatusWritten
<1> HIDE DEF b
<1>11. EndedAs(e, b, "M")
  BY <1>10, EndsFields DEF Levels
<1>12. e \in StateType
  BY <1>11 DEF EndedAs
<1> HIDE DEF e
<1>13. LeftAs(l, e, prv, k)
  <2> HIDE DEF k, prv
  <2> QED
    BY <1>4, <1>12, LeavesFields
<1>14. l \in StateType
  BY <1>13 DEF LeftAs
<1> HIDE DEF l
<1>15. PrivilegeSet(r, l, prv, v)
  <2> HIDE DEF prv, v
  <2> QED
    BY <1>4, <1>14, SetPrivilege
<1> HIDE DEF r
<1>16. /\ r \in StateType /\ r.prv = prv /\ r.v = v
       /\ r.m = b.m /\ r.vs = vs_ok.vs /\ r.spv = f.spv /\ r.lost = f.lost
  <2>1. r \in StateType /\ r.prv = prv /\ r.v = v
    BY <1>3, <1>4, <1>15 DEF PrivilegeSet
  <2>2. r.m = l.m /\ r.vs = l.vs /\ r.spv = l.spv /\ r.lost = l.lost
    BY <1>15 DEF PrivilegeSet, SameFrames
  <2>3. l.m = b.m /\ l.vs = b.vs /\ l.spv = b.spv /\ l.lost = b.lost
    BY <1>11, <1>13 DEF LeftAs, EndedAs
  <2>4. b.vs = vs_ok.vs /\ b.spv = f.spv /\ b.lost = f.lost
    BY <1>5, <1>9 DEF MstatusWritten, VsSdtCleared, SameFrames
  <2> QED
    BY <2>1, <2>2, <2>3, <2>4
<1>17. SameRest(r, f)
  BY <1>5, <1>9, <1>11, <1>13, <1>15
  DEF VsSdtCleared, MstatusWritten, EndedAs, LeftAs, PrivilegeSet, SameRest, SameStep
<1>18. /\ ~r.saved["M"].live
       /\ r.saved["S"].live => /\ prv = M \/ (prv = S /\ ~v)
                               /\ r.saved["S"] = f.saved["S"]
       /\ r.saved["VS"].live => /\ ~(v /\ prv = U) /\ r.saved["VS"] = f.saved["VS"]
  <2>1. r.saved = l.saved /\ b.saved = f.saved
    BY <1>5, <1>9, <1>15 DEF PrivilegeSet, MstatusWritten, VsSdtCleared, SameFrames
  <2>2. /\ ~e.saved["M"].live /\ e.saved["S"] = b.saved["S"] /\ e.saved["VS"] = b.saved["VS"]
    BY <1>11 DEF EndedAs, Levels
  <2>3. /\ \A x \in Levels : l.saved[x].live => l.saved[x] = e.saved[x]
        /\ l.saved["S"].live => prv = M \/ (prv = S /\ ~v)
        /\ l.saved["VS"].live => ~(v /\ prv = U)
    BY <1>4, <1>13 DEF LeftAs
  <2>4. "M" \in Levels /\ "S" \in Levels /\ "VS" \in Levels
    BY DEF Levels
  <2> QED
    BY <2>1, <2>2, <2>3, <2>4
<1>19. /\ r.m.mdt = FALSE /\ r.m.mpv = FALSE /\ r.m.mie = f.m.mpie
       /\ r.m.spie = f.m.spie /\ r.m.spp = f.m.spp
       /\ r.m.sdt = (f.m.sdt /\ ~(prv = U \/ v))
  BY <1>3, <1>6, <1>7, <1>9, <1>16 DEF MstatusWritten
<1>20. /\ r.vs.spie = f.vs.spie /\ r.vs.spp = f.vs.spp /\ r.vs.sdt = (f.vs.sdt /\ ~c)
  BY <1>5, <1>16 DEF VsSdtCleared
<1>21. ModesAgree(r)
  BY <1>3, <1>4, <1>16, <1>17, <1>19, <1>20 DEF ModesAgree, HDTE, SameRest, SameStep
<1>22. FrameM(r)
  BY <1>18 DEF FrameM
<1>23. FrameS(r)
  BY <1>3, <1>16, <1>17, <1>18, <1>19 DEF Good, FrameS, SameRest, U, S, M, ModesAgree
<1>24. FrameVS(r)
  BY <1>3, <1>16, <1>17, <1>18, <1>20 DEF Good, FrameVS, SameRest, HDTE
<1>25. NoneLost(r)
  BY <1>3, <1>16, <1>17 DEF Good, NoneLost, SameRest, HDTE
<1>26. Executed(r, f) /\ (r.dcsr.step => ~r.serialized)
  BY <1>1, <1>2, <1>16, <1>17, <1>21, <1>22, <1>23, <1>24, <1>25
  DEF Executed, Good, SameRest, SameStep, FetchedAs, AtInsn
<1>27. Kept
  BY <1>1, <1>2, <1>26, SerializeKeeps DEF Kept
<1>28. MretReturns
  BY <1>1, <1>3, <1>16, <1>19 DEF MretReturns, Serialize
<1> QED
  BY <1>27, <1>28

\* sret gives back what the trap into the running level saved.
SretReturns ==
    state.prv = S =>
        IF state.v
        THEN /\ state'.prv = state.vs.spp /\ state'.v = TRUE
             /\ state'.vs.sie = state.vs.spie
        ELSE /\ state'.prv = state.m.spp /\ state'.v = state.spv
             /\ state'.m.sie = state.m.spie

\* sret keeps the invariant and returns to the saved mode.
LEMMA SretKeeps == HartIInv /\ sret => Kept /\ SretReturns
<1> SUFFICES ASSUME HartIInv, sret PROVE Kept /\ SretReturns
  OBVIOUS
<1> DEFINE f == Fetched
           s == sstatus_read(f)
           prv == s.spp
           v == f.v \/ f.spv
           level == IF f.v THEN "VS" ELSE "S"
           no_spv == IF f.v THEN f ELSE [f EXCEPT !.spv = FALSE]
           w == [no_spv.m EXCEPT !.mdt = FALSE, !.sdt = @ /\ ~(prv = U \/ v)]
           in_m == mstatus_write(no_spv, w)
           cleared == IF f.prv = M THEN in_m ELSE no_spv
           c == ~f.v /\ v /\ prv = U
           vs_ok == IF c THEN clear_vs_sdt(cleared) ELSE cleared
           set == [sie |-> s.spie, spie |-> TRUE, spp |-> U,
                   sdt |-> s.sdt /\ f.prv # S]
           b == sstatus_write(vs_ok, set)
           e == Ends(b, level)
           l == Leaves(e, prv, v)
           r == set_privilege(l, prv, v)
<1>1. Ready /\ ~loop.csr /\ Serialize(r)
  BY DEF sret, GuestCode, CanExecute
<1>2. FetchedAs(f) /\ AtInsn
  BY <1>1, FetchedKeeps
<1> HIDE DEF f
<1>3. /\ f \in StateType /\ Good(f) /\ ModesAgree(f) /\ f.m \in MType /\ f.vs \in SType
      /\ f.v \in BOOLEAN /\ f.spv \in BOOLEAN /\ f.m.sdt \in BOOLEAN
  BY <1>2 DEF FetchedAs, Good, StateType, MType
<1>4. ReadAs(s, f)
  BY <1>3, SstatusRead
<1>5. /\ s \in SType /\ prv \in {U, S} /\ prv \in Prv /\ prv # M /\ v \in BOOLEAN
      /\ c \in BOOLEAN /\ level \in Levels /\ s.spie \in BOOLEAN /\ s.sdt \in BOOLEAN
  BY <1>3, <1>4 DEF ReadAs, SType, Prv, Levels, U, S, M
<1> HIDE DEF s
<1>6. /\ no_spv \in StateType /\ no_spv.m = f.m /\ no_spv.vs = f.vs
      /\ SameMode(no_spv, f) /\ SameFrames(no_spv, f)
      /\ f.v => no_spv.spv = f.spv
  BY <1>3 DEF StateType, SameMode, SameFrames
<1>7. SameRest(no_spv, f)
  BY <1>3 DEF StateType, SameRest, SameStep
<1> HIDE DEF no_spv
<1>8. /\ w \in MType /\ w.mdt = FALSE /\ w.mpp = f.m.mpp /\ w.mpv = f.m.mpv
      /\ w.mpie = f.m.mpie /\ w.spie = f.m.spie /\ w.spp = f.m.spp
      /\ (w.sdt => f.m.sdt)
  <2> HIDE DEF prv, v
  <2> QED
    BY <1>3, <1>6 DEF MType
<1> HIDE DEF w
<1>9. MstatusWritten(in_m, no_spv, w)
  BY <1>6, <1>8, MstatusWrite
<1> HIDE DEF in_m
<1>10. /\ cleared \in StateType /\ cleared.vs = f.vs /\ cleared.spv = no_spv.spv
       /\ cleared.m.mdt = FALSE /\ cleared.m.mpp = f.m.mpp /\ cleared.m.mpv = f.m.mpv
       /\ (cleared.m.sdt => f.m.sdt)
       /\ f.v => cleared.m = f.m
  <2>1. CASE f.prv = M
    BY <1>3, <1>6, <1>8, <1>9, <2>1 DEF MstatusWritten, ModesAgree
  <2>2. CASE f.prv # M
    BY <1>3, <1>6, <2>2 DEF ModesAgree, MType
  <2> QED
    BY <2>1, <2>2
<1>11. SameMode(cleared, f) /\ SameFrames(cleared, f) /\ SameRest(cleared, f)
  BY <1>6, <1>7, <1>9 DEF MstatusWritten, SameMode, SameFrames, SameRest, SameStep
<1> HIDE DEF cleared
<1>12. ModesAgree(cleared)
  BY <1>3, <1>10, <1>11 DEF ModesAgree, HDTE, SameMode, SameRest, SameStep
<1>13. VsSdtCleared(vs_ok, cleared, c)
  <2> HIDE DEF c
  <2> QED
    BY <1>5, <1>10, <1>12, ClearVsSdt
<1>14. /\ vs_ok \in StateType /\ vs_ok.m = cleared.m /\ vs_ok.spv = no_spv.spv
       /\ vs_ok.vs.spie = f.vs.spie /\ vs_ok.vs.spp = f.vs.spp
       /\ vs_ok.vs.sdt = (f.vs.sdt /\ ~c)
  BY <1>10, <1>13 DEF VsSdtCleared
<1>15. SameMode(vs_ok, f) /\ SameFrames(vs_ok, f) /\ SameRest(vs_ok, f)
  BY <1>11, <1>13 DEF VsSdtCleared, SameMode, SameFrames, SameRest, SameStep
<1> HIDE DEF vs_ok
<1>16. ModesAgree(vs_ok)
  BY <1>3, <1>10, <1>12, <1>14, <1>15 DEF ModesAgree, HDTE, SameMode, SameRest, SameStep
<1>17. /\ set \in SType /\ set.sie = s.spie
       /\ (f.prv = S => set.sdt = FALSE)
  BY <1>5 DEF SType
<1> HIDE DEF set
<1>18. SstatusWritten(b, vs_ok, set)
  BY <1>14, <1>16, <1>17, SstatusWrite
<1>19. b \in StateType
  BY <1>18 DEF SstatusWritten
<1> HIDE DEF b
<1>20. EndedAs(e, b, level)
  <2> HIDE DEF level
  <2> QED
    BY <1>5, <1>19, EndsFields
<1>21. e \in StateType
  BY <1>20 DEF EndedAs
<1> HIDE DEF e
<1>22. LeftAs(l, e, prv, v)
  <2> HIDE DEF prv, v
  <2> QED
    BY <1>5, <1>21, LeavesFields
<1>23. l \in StateType
  BY <1>22 DEF LeftAs
<1> HIDE DEF l
<1>24. PrivilegeSet(r, l, prv, v)
  <2> HIDE DEF prv, v
  <2> QED
    BY <1>5, <1>23, SetPrivilege
<1> HIDE DEF r
<1>25. /\ r \in StateType /\ r.prv = prv /\ r.v = v
       /\ r.m = b.m /\ r.vs = b.vs /\ r.spv = no_spv.spv /\ r.lost = f.lost
  <2>1. r \in StateType /\ r.prv = prv /\ r.v = v
    <3> HIDE DEF prv, v
    <3> QED
      BY <1>5, <1>24 DEF PrivilegeSet
  <2>2. r.m = l.m /\ r.vs = l.vs /\ r.spv = l.spv /\ r.lost = l.lost
    BY <1>24 DEF PrivilegeSet, SameFrames
  <2>3. l.m = b.m /\ l.vs = b.vs /\ l.spv = b.spv /\ l.lost = b.lost
    BY <1>20, <1>22 DEF LeftAs, EndedAs
  <2>4. b.spv = no_spv.spv /\ b.lost = f.lost
    BY <1>14, <1>15, <1>18 DEF SstatusWritten, SameFrames
  <2> QED
    BY <2>1, <2>2, <2>3, <2>4
<1>26. SameRest(r, f)
  BY <1>15, <1>18, <1>20, <1>22, <1>24
  DEF SstatusWritten, EndedAs, LeftAs, PrivilegeSet, SameRest, SameStep
<1>27. /\ ~r.saved["M"].live /\ ~r.saved[level].live
       /\ r.saved["S"].live => r.saved["S"] = f.saved["S"]
       /\ r.saved["VS"].live => ~(v /\ prv = U) /\ r.saved["VS"] = f.saved["VS"]
  <2>1. r.saved = l.saved /\ b.saved = f.saved
    BY <1>15, <1>18, <1>24 DEF PrivilegeSet, SstatusWritten, SameFrames
  <2>2. ~e.saved[level].live /\ \A x \in Levels : e.saved[x].live => e.saved[x] = b.saved[x]
    BY <1>20 DEF EndedAs
  <2>3. /\ \A x \in Levels : l.saved[x].live => l.saved[x] = e.saved[x]
        /\ ~l.saved["M"].live
        /\ l.saved["VS"].live => ~(v /\ prv = U)
    BY <1>5, <1>22 DEF LeftAs
  <2>4. "M" \in Levels /\ "S" \in Levels /\ "VS" \in Levels
    BY DEF Levels
  <2> QED
    BY <1>5, <2>1, <2>2, <2>3, <2>4
<1>28. vs_ok.v = f.v /\ vs_ok.cfg = f.cfg /\ HDTE(vs_ok) = HDTE(f)
  BY <1>15 DEF SameMode, SameRest, HDTE
<1>29. /\ r.m.mdt = FALSE /\ r.m.mpp = f.m.mpp /\ r.m.mpv = f.m.mpv
       /\ (r.m.sdt => f.cfg.mdte) /\ (r.vs.sdt => HDTE(f))
  BY <1>3, <1>10, <1>14, <1>18, <1>25, <1>28 DEF SstatusWritten, ModesAgree
<1>30. ModesAgree(r)
  BY <1>3, <1>5, <1>25, <1>26, <1>29 DEF ModesAgree, HDTE, SameRest, SameStep
<1>31. FrameM(r) /\ FrameS(r)
  <2>1. ~r.saved["S"].live
    BY <1>3, <1>27 DEF Good, FrameS, ModesAgree
  <2> QED
    BY <1>27, <2>1 DEF FrameM, FrameS
<1>32. FrameVS(r)
  <2>1. CASE f.v
    BY <1>27, <2>1 DEF FrameVS
  <2>2. CASE ~f.v
    <3>1. r.vs = vs_ok.vs
      BY <1>18, <1>25, <1>28, <2>2 DEF SstatusWritten
    <3> QED
      BY <1>3, <1>14, <1>25, <1>26, <1>27, <3>1 DEF Good, FrameVS, SameRest, HDTE
  <2> QED
    BY <2>1, <2>2
<1>33. NoneLost(r)
  BY <1>3, <1>25, <1>26 DEF Good, NoneLost, SameRest, HDTE
<1>34. Executed(r, f) /\ (r.dcsr.step => ~r.serialized)
  BY <1>1, <1>2, <1>25, <1>26, <1>30, <1>31, <1>32, <1>33
  DEF Executed, Good, SameRest, SameStep, FetchedAs, AtInsn
<1>35. Kept
  BY <1>1, <1>2, <1>34, SerializeKeeps DEF Kept
<1>36. SretReturns
  <2> SUFFICES ASSUME state.prv = S PROVE SretReturns
    BY DEF SretReturns
  <2>1. state' = r /\ f.prv = S /\ f.v = state.v /\ f.m = state.m /\ f.vs = state.vs
        /\ f.spv = state.spv
    BY <1>1, <1>2 DEF Serialize, FetchedAs, SameMode
  <2>2. CASE f.v
    <3>1. prv = f.vs.spp /\ v = TRUE /\ set.sie = f.vs.spie /\ set.sdt = FALSE
      BY <1>4, <1>17, <2>1, <2>2 DEF ReadAs
    <3>2. (r.vs.sie <=> set.sie) /\ r.vs.sie \in BOOLEAN /\ f.vs.spie \in BOOLEAN
      BY <1>3, <1>18, <1>25, <1>28, <2>2, <3>1 DEF SstatusWritten, StateType, SType
    <3> QED
      BY <1>25, <2>1, <2>2, <3>1, <3>2 DEF SretReturns
  <2>3. CASE ~f.v
    <3>1. prv = f.m.spp /\ v = f.spv /\ set.sie = f.m.spie /\ set.sdt = FALSE
      BY <1>3, <1>4, <1>17, <2>1, <2>3 DEF ReadAs
    <3>2. (r.m.sie <=> set.sie) /\ r.m.sie \in BOOLEAN /\ f.m.spie \in BOOLEAN
      BY <1>3, <1>18, <1>25, <1>28, <2>3, <3>1 DEF SstatusWritten, StateType, MType
    <3> QED
      BY <1>25, <2>1, <2>3, <3>1, <3>2 DEF SretReturns
  <2> QED
    BY <1>3, <2>2, <2>3
<1> QED
  BY <1>35, <1>36

\* dret leaves debug mode for the mode in dcsr, and starts a step when asked to.
LEMMA DretKeeps == HartIInv /\ dret => Kept
<1> SUFFICES ASSUME HartIInv, dret PROVE Kept
  OBVIOUS
<1> DEFINE f == Fetched
           d == f.dcsr
           v == d.v /\ d.prv # M
           w == [f.m EXCEPT !.mdt = @ /\ d.prv = M, !.sdt = @ /\ ~(d.prv = U \/ d.v)]
           m == mstatus_write(f, w)
           c == d.v /\ d.prv = U
           vs_ok == IF c THEN clear_vs_sdt(m) ELSE m
           l == Leaves(vs_ok, d.prv, v)
           out == set_privilege(l, d.prv, d.v)
<1>1. /\ Ready /\ ~loop.csr
      /\ state' = [out EXCEPT !.debug_mode = FALSE, !.pc = f.dpc,
                      !.dpc = "guest", !.dcsr.prv = U, !.dcsr.v = FALSE,
                      !.single_step = IF d.step THEN "stepping" ELSE @]
      /\ loop' = Outer(loop.left - 1)
      /\ stepped' = IF d.step THEN 0 ELSE Off
  BY DEF dret, CanExecute
<1>2. FetchedAs(f) /\ AtInsn
  BY <1>1, FetchedKeeps
<1> HIDE DEF f
<1>3. /\ f \in StateType /\ Good(f) /\ ModesAgree(f) /\ f.m \in MType
      /\ d \in DcsrType /\ f.dpc \in {"guest", "rom"}
      /\ f.m.sdt \in BOOLEAN /\ f.m.mdt \in BOOLEAN
  BY <1>2 DEF FetchedAs, Good, StateType, MType
<1>4. /\ d.prv \in Prv /\ d.v \in BOOLEAN /\ d.step \in BOOLEAN
      /\ v \in BOOLEAN /\ c \in BOOLEAN /\ v = d.v
  BY <1>3 DEF DcsrType, ModesAgree
<1>5. /\ w \in MType /\ w.mpie = f.m.mpie /\ w.mpp = f.m.mpp /\ w.mpv = f.m.mpv
      /\ w.spie = f.m.spie /\ w.spp = f.m.spp
      /\ w.mdt = (f.m.mdt /\ d.prv = M)
      /\ w.sdt = (f.m.sdt /\ ~(d.prv = U \/ d.v))
  <2> HIDE DEF d
  <2> QED
    BY <1>3 DEF MType
<1> HIDE DEF w
<1>6. MstatusWritten(m, f, w)
  BY <1>3, <1>5, MstatusWrite
<1> HIDE DEF m
<1>7. /\ m \in StateType /\ m.m.mpie = f.m.mpie /\ m.m.mpp = f.m.mpp
      /\ m.m.mpv = f.m.mpv /\ m.m.spie = f.m.spie /\ m.m.spp = f.m.spp
      /\ m.m.mdt = (f.m.mdt /\ d.prv = M)
      /\ m.m.sdt = (f.m.sdt /\ ~(d.prv = U \/ d.v))
      /\ m.vs = f.vs /\ m.spv = f.spv
      /\ SameMode(m, f) /\ SameFrames(m, f) /\ SameRest(m, f)
  BY <1>5, <1>6 DEF MstatusWritten
<1>8. ModesAgree(m)
  BY <1>3, <1>7 DEF ModesAgree, HDTE, SameMode, SameRest, SameStep
<1>9. VsSdtCleared(vs_ok, m, c)
  <2> HIDE DEF c
  <2> QED
    BY <1>4, <1>7, <1>8, ClearVsSdt
<1>10. vs_ok \in StateType
  BY <1>9 DEF VsSdtCleared
<1> HIDE DEF vs_ok
<1>11. LeftAs(l, vs_ok, d.prv, v)
  <2> HIDE DEF v, d
  <2> QED
    BY <1>4, <1>10, LeavesFields
<1>12. l \in StateType
  BY <1>11 DEF LeftAs
<1> HIDE DEF l
<1>13. PrivilegeSet(out, l, d.prv, d.v)
  <2> HIDE DEF d
  <2> QED
    BY <1>4, <1>12, SetPrivilege
<1>14. out \in StateType
  BY <1>13 DEF PrivilegeSet
<1> HIDE DEF out
<1>15. /\ out.prv = d.prv /\ out.v = d.v /\ out.m = m.m /\ out.spv = f.spv
       /\ out.lost = f.lost /\ out.vs.spie = f.vs.spie /\ out.vs.spp = f.vs.spp
       /\ out.vs.sdt = (f.vs.sdt /\ ~c)
  <2>1. out.prv = d.prv /\ out.v = d.v
    <3> HIDE DEF d
    <3> QED
      BY <1>4, <1>13 DEF PrivilegeSet
  <2>2. out.m = l.m /\ out.spv = l.spv /\ out.lost = l.lost /\ out.vs = l.vs
    BY <1>13 DEF PrivilegeSet, SameFrames
  <2>3. l.m = vs_ok.m /\ l.spv = vs_ok.spv /\ l.lost = vs_ok.lost /\ l.vs = vs_ok.vs
    BY <1>11 DEF LeftAs
  <2>4. /\ vs_ok.m = m.m /\ vs_ok.spv = m.spv /\ vs_ok.lost = m.lost
        /\ vs_ok.vs.spie = m.vs.spie /\ vs_ok.vs.spp = m.vs.spp
        /\ vs_ok.vs.sdt = (m.vs.sdt /\ ~c)
    BY <1>9 DEF VsSdtCleared, SameFrames
  <2> QED
    BY <1>7, <2>1, <2>2, <2>3, <2>4 DEF SameFrames
<1>16. SameRest(out, f)
  BY <1>7, <1>9, <1>11, <1>13 DEF VsSdtCleared, LeftAs, PrivilegeSet, SameRest, SameStep
<1>17. /\ out.saved["M"].live => d.prv = M /\ out.saved["M"] = f.saved["M"]
       /\ out.saved["S"].live => /\ d.prv = M \/ (d.prv = S /\ ~d.v)
                                 /\ out.saved["S"] = f.saved["S"]
       /\ out.saved["VS"].live => ~(d.v /\ d.prv = U) /\ out.saved["VS"] = f.saved["VS"]
  <2>1. out.saved = l.saved /\ vs_ok.saved = f.saved
    BY <1>7, <1>9, <1>13 DEF PrivilegeSet, VsSdtCleared, SameFrames
  <2>2. "M" \in Levels /\ "S" \in Levels /\ "VS" \in Levels
    BY DEF Levels
  <2> QED
    BY <1>4, <1>11, <2>1, <2>2 DEF LeftAs
<1>18. /\ state' \in StateType /\ state'.debug_mode = FALSE
       /\ state'.dcsr.v = FALSE /\ state'.dcsr.step = d.step
       /\ state'.serialized = out.serialized
       /\ state'.single_step = IF d.step THEN "stepping" ELSE out.single_step
  <2>1. out.dcsr = d
    BY <1>16 DEF SameRest, SameStep
  <2> DEFINE dd == [d EXCEPT !.prv = U, !.v = FALSE]
             ss == IF d.step THEN "stepping" ELSE out.single_step
  <2>2. dd \in DcsrType /\ dd.v = FALSE /\ dd.step = d.step
    BY <1>3 DEF DcsrType, Prv
  <2>3. ss \in {"none", "stepping", "stepped"}
    BY <1>14 DEF StateType
  <2>4. state' = [out EXCEPT !.debug_mode = FALSE, !.pc = f.dpc, !.dpc = "guest",
                             !.dcsr = dd, !.single_step = ss]
    BY <1>1, <1>14, <2>1 DEF StateType
  <2> HIDE DEF dd, ss
  <2>5. state' \in StateType
    BY <1>3, <1>14, <2>2, <2>3, <2>4 DEF StateType
  <2>6. /\ state'.debug_mode = FALSE /\ state'.dcsr = dd
        /\ state'.serialized = out.serialized /\ state'.single_step = ss
    BY <1>14, <2>4 DEF StateType
  <2> QED
    BY <2>2, <2>5, <2>6 DEF ss
<1>19. /\ state'.m = out.m /\ state'.vs = out.vs /\ state'.spv = out.spv
       /\ state'.cfg = out.cfg /\ SameMode(state', out) /\ SameFrames(state', out)
       /\ state'.in_wfi = out.in_wfi
  BY <1>1, <1>14 DEF StateType, SameMode, SameFrames
<1>20. Good(out)
  <2>1. ModesAgree(out)
    BY <1>3, <1>4, <1>7, <1>15, <1>16 DEF ModesAgree, HDTE, SameRest, SameStep
  <2>2. FrameM(out)
    BY <1>3, <1>7, <1>15, <1>17 DEF Good, FrameM
  <2>3. FrameS(out)
    BY <1>3, <1>4, <1>7, <1>15, <1>16, <1>17 DEF Good, FrameS, SameRest, ModesAgree, U, S, M
  <2>4. FrameVS(out)
    BY <1>3, <1>15, <1>16, <1>17 DEF Good, FrameVS, SameRest, HDTE
  <2>5. NoneLost(out)
    BY <1>3, <1>15, <1>16 DEF Good, NoneLost, SameRest, HDTE
  <2> QED
    BY <1>14, <2>1, <2>2, <2>3, <2>4, <2>5 DEF Good
<1>21. Good(state')
  BY <1>18, <1>19, <1>20, GoodElsewhere
<1>22. state'.dcsr.step => ~state'.serialized
  BY <1>1, <1>2, <1>16, <1>18 DEF FetchedAs, AtInsn, SameRest, SameStep
<1>23. loop.left - 1 \in 0 .. Slice
  BY <1>2, SliceAssumption DEF AtInsn
<1>24. /\ loop' \in LoopType /\ ~loop'.csr /\ loop'.at \in {"slice", "outer"}
       /\ loop'.at # "slice" => loop'.left # 0
  BY <1>1, <1>23, OuterLoop
<1>25. /\ stepped' \in {0, 1, Off} /\ stepped' # 1
       /\ stepped' # Off => state'.dcsr.step
  BY <1>1, <1>18 DEF Off
<1>26. StepInv(state', loop', stepped')
  BY <1>18, <1>22, <1>24, <1>25, OutsideKeeps
<1> QED
  BY <1>21, <1>26 DEF Kept

-----------------------------------------------------------------------------
(***************************************************************************)
(* The theorems.                                                           *)
(***************************************************************************)
\* The hart comes up in the invariant.
LEMMA InitInv == Init => HartIInv
<1> SUFFICES ASSUME Init PROVE HartIInv
  OBVIOUS
<1>1. PICK cfg \in Cfgs : state = Reset(cfg)
  BY DEF Init
<1>2. cfg \in CfgType
  BY CfgsAssumption DEF CfgType
<1>3. Good(state) /\ ~state.dcsr.step
  BY <1>1, <1>2, ResetGood
<1>4. StepInv(state, loop, stepped)
  BY <1>3, SliceLoop, OutsideKeeps DEF Init, Off
<1> QED
  BY <1>3, <1>4, BoundAssumption DEF Init, HartIInv

\* What the software and the debugger write keeps the invariant.
LEMMA SoftwareKeeps == HartIInv /\ Software => Kept
<1> SUFFICES ASSUME HartIInv, Software PROVE Kept
  OBVIOUS
<1>1. CASE \E on \in BOOLEAN : software_mie(on) \/ software_sie(on)
  BY <1>1, SoftwareMie, SoftwareSie
<1>2. CASE software_clears_mdt \/ software_clears_sdt
  BY <1>2, SoftwareClearsMdt, SoftwareClearsSdt
<1>3. CASE \E d \in Modes : software_mpp(d.prv, d.v) \/ software_spp(d.prv, d.v)
  BY <1>3, SoftwareMpp, SoftwareSpp DEF Modes
<1>4. CASE \E d \in DcsrWrites : dcsr_write(d)
  <2>1. PICK d \in DcsrWrites : dcsr_write(d)
    BY <1>4
  <2>2. d \in DcsrType /\ (d.v => d.prv # M)
    BY DcsrAssumption DEF DcsrType, Prv, U, S, M
  <2> QED
    BY <2>1, <2>2, DcsrWriteKeeps
<1>5. CASE dcsr_write([state.dcsr EXCEPT !.step = TRUE])
  <2> DEFINE d == [state.dcsr EXCEPT !.step = TRUE]
  <2>1. state.dcsr \in DcsrType /\ (state.dcsr.v => state.dcsr.prv # M)
    BY DEF HartIInv, Good, StateType, ModesAgree
  <2>2. d \in DcsrType /\ (d.v => d.prv # M)
    BY <2>1 DEF DcsrType
  <2> HIDE DEF d
  <2>3. dcsr_write(d)
    BY <1>5 DEF d
  <2> QED
    BY <2>2, <2>3, DcsrWriteKeeps
<1> QED
  BY <1>1, <1>2, <1>3, <1>4, <1>5 DEF Software

\* The steps of the loop outside an instruction keep the invariant.
LEMMA LoopKeeps == HartIInv /\ Loop => Kept
BY StepKeeps, TakeInterruptKeeps, EnterInnerKeeps, StepDoneKeeps, WaitKeeps DEF Loop

\* Every instruction keeps the invariant.
LEMMA InsnKeeps == HartIInv /\ Insn => Kept
<1> SUFFICES ASSUME HartIInv, Insn PROVE Kept
  OBVIOUS
<1>1. CASE plain_insn
  BY <1>1, PlainKeeps
<1>2. CASE exception_insn("fault")
  BY <1>2, ThrownKeeps DEF exception_insn
<1>3. CASE \E a \in {"debug", "exception"} : trigger_insn(a)
  BY <1>3, TriggerKeeps
<1>4. CASE \E x \in BOOLEAN : ebreak(x)
  BY <1>4, EbreakKeeps
<1>5. CASE wfi \/ mret \/ sret \/ dret \/ validate_csr \/ csr_insn
  BY <1>5, WfiKeeps, MretKeeps, SretKeeps, DretKeeps, ValidateKeeps, CsrKeeps
<1> QED
  BY <1>1, <1>2, <1>3, <1>4, <1>5 DEF Insn

\* HartIInv is inductive.
LEMMA NextInv == HartIInv /\ [Next]_vars => HartIInv'
<1> SUFFICES ASSUME HartIInv, [Next]_vars PROVE HartIInv'
  OBVIOUS
<1>1. CASE (reset \/ Loop \/ Insn) /\ UNCHANGED writes
  BY <1>1, ResetKeeps, LoopKeeps, InsnKeeps DEF HartIInv, Kept
<1>2. CASE writes > 0 /\ Software /\ writes' = writes - 1
  <2>1. writes' \in 0 .. Writes
    BY <1>2, BoundAssumption DEF HartIInv
  <2> QED
    BY <1>2, <2>1, SoftwareKeeps DEF HartIInv, Kept
<1>3. CASE UNCHANGED vars
  BY <1>3 DEF HartIInv, vars
<1> QED
  BY <1>1, <1>2, <1>3 DEF Next

\* The inductive invariant of the hart (processor_t::step and the operations it
\* calls): every context that is waiting to be copied is in its registers behind
\* its double-trap bit, and a single step is under the loop's control.
THEOREM HartInvariant == Spec => []HartIInv
BY InitInv, NextInv, PTL DEF Spec

\* The registers keep their ranges, no trap overwrites a context that its handler
\* has not copied while the double-trap bits are in use, and MDT is of M only.
THEOREM HartSafe == Spec => []HartInv
<1>1. HartIInv => HartInv
  <2> SUFFICES ASSUME HartIInv PROVE HartInv
    OBVIOUS
  <2>1. Good(state) /\ state \in StateType /\ StepInv(state, loop, stepped)
    BY DEF HartIInv, Good
  <2>2. state.m \in MType /\ state.vs \in SType /\ loop \in LoopType
    BY <2>1 DEF StateType, StepInv
  <2>3. /\ state.prv \in Prv /\ state.v \in BOOLEAN /\ (state.v => state.prv # M)
        /\ state.single_step \in {"none", "stepping", "stepped"}
        /\ state.saved \in [Levels -> Frame] /\ state.lost \subseteq Levels
    BY <2>1 DEF StateType, Good, ModesAgree
  <2>4. /\ state.m.mpp \in Prv /\ state.m.spp \in {U, S} /\ state.vs.spp \in {U, S}
        /\ loop.at \in {"slice", "outer", "inner"} /\ loop.left \in 0 .. Slice
    BY <2>2 DEF MType, SType, LoopType
  <2>5. stepped \in 0 .. Off /\ writes \in 0 .. Writes
    BY <2>1 DEF StepInv, HartIInv, Off
  <2>6. NoContextLost /\ MdtOnlyInM
    BY <2>1 DEF Good, NoneLost, ModesAgree, NoContextLost, MdtOnlyInM
  <2> QED
    BY <2>3, <2>4, <2>5, <2>6 DEF HartInv, HartType
<1> QED
  BY <1>1, HartInvariant, PTL

\* Between a dret with dcsr.step and the next entry into debug mode the loop of
\* step() retires at most one instruction, for any slice and any interrupts.
THEOREM SingleStep == Spec => []StepsOne
<1>1. HartIInv => StepsOne
  BY DEF HartIInv, StepInv, StepsOne, Off
<1> QED
  BY <1>1, HartInvariant, PTL

\* mret and sret lead back to the mode the trap came from, with that level's
\* interrupt enable as it was.
THEOREM HandlersReturn == Spec => ReturnsWhereItCame
<1> DEFINE Comes ==
        LET f == state.saved
        IN  /\ f["M"].live /\ state.prv = M /\ mret =>
                 Returned(f["M"]) /\ state'.m.mie = f["M"].ie
            /\ f["VS"].live /\ state.prv = S /\ state.v /\ sret =>
                 Returned(f["VS"]) /\ state'.vs.sie = f["VS"].ie
            /\ f["S"].live /\ state.prv = S /\ ~state.v /\ sret =>
                 Returned(f["S"]) /\ state'.m.sie = f["S"].ie
<1>1. HartIInv /\ [Next]_vars => [Comes]_vars
  <2> SUFFICES ASSUME HartIInv PROVE Comes
    OBVIOUS
  <2>1. FrameM(state) /\ FrameS(state) /\ FrameVS(state) /\ state.saved["VS"].v \in BOOLEAN
    BY DEF HartIInv, Good, StateType, Frame, Levels
  <2>2. ASSUME state.saved["M"].live, mret
        PROVE  Returned(state.saved["M"]) /\ state'.m.mie = state.saved["M"].ie
    BY <2>1, <2>2, MretKeeps DEF FrameM, MretReturns, Returned
  <2>3. ASSUME state.saved["VS"].live, state.prv = S, state.v, sret
        PROVE  Returned(state.saved["VS"]) /\ state'.vs.sie = state.saved["VS"].ie
    <3>1. SretReturns /\ state.saved["VS"].v = TRUE
      BY <2>1, <2>3, SretKeeps DEF FrameVS
    <3> QED
      BY <2>1, <2>3, <3>1 DEF FrameVS, SretReturns, Returned
  <2>4. ASSUME state.saved["S"].live, state.prv = S, ~state.v, sret
        PROVE  Returned(state.saved["S"]) /\ state'.m.sie = state.saved["S"].ie
    <3>1. SretReturns
      BY <2>4, SretKeeps
    <3> QED
      BY <2>1, <2>4, <3>1 DEF FrameS, SretReturns, Returned
  <2> QED
    BY <2>2, <2>3, <2>4
<1> QED
  BY <1>1, HartInvariant, PTL DEF Spec, ReturnsWhereItCame

\* Only an enabled interrupt is chosen, and what enables it depends on where it
\* will be delivered.
LEMMA ChosenInterrupt ==
    ASSUME HartIInv, NEW mip \in Pendings, enabled_interrupts(mip) # {},
           NEW t, t = [int |-> TRUE, bit |-> interrupt(enabled_interrupts(mip))]
    PROVE  /\ state.prv = M => state.m.mie
           /\ hsdeleg(state, t) /\ ~vsdeleg(state, t) /\ state.prv = S /\ ~state.v
                 => sstatus_read(state).sie
           /\ vsdeleg(state, t) /\ state.prv = S => sstatus_read(state).sie
<1> DEFINE sie == sstatus_read(state).sie
           md == mideleg_read(state)
           hd == hideleg_read(state)
           to_m == IF state.prv # M \/ state.m.mie THEN mip \ md ELSE {}
           to_hs == IF state.v \/ state.prv = U \/ (state.prv = S /\ sie)
                    THEN mip \cap (md \ hd) ELSE {}
           to_vs == IF state.v /\ (state.prv = U \/ sie) THEN mip \cap hd ELSE {}
           e == IF to_m # {} THEN to_m ELSE IF to_hs # {} THEN to_hs ELSE to_vs
<1>1. enabled_interrupts(mip) = e
  BY DEF enabled_interrupts
<1>2. mip \subseteq {"MSI", "SSI", "VSSI"} /\ (state.v => state.prv # M)
  BY BoundAssumption DEF HartIInv, Good, ModesAgree
<1>3. t.int = TRUE /\ t.bit \in e
  BY <1>1, <1>2 DEF interrupt
<1>4. /\ vsdeleg(state, t) => state.v /\ t.bit \in hd
      /\ hsdeleg(state, t) => state.prv # M /\ t.bit \in md
      /\ state.prv # M /\ state.v /\ t.bit \in hd => vsdeleg(state, t)
      /\ hd \subseteq md
  BY <1>3 DEF vsdeleg, hsdeleg, hideleg_read
<1>5. U # M /\ S # M /\ U # S
  BY DEF U, S, M
<1> HIDE DEF md, hd, sie
<1>6. state.prv = M => state.m.mie
  BY <1>2, <1>3, <1>5
<1>7. hsdeleg(state, t) /\ ~vsdeleg(state, t) /\ state.prv = S /\ ~state.v => sie
  BY <1>3, <1>4, <1>5
<1>8. vsdeleg(state, t) /\ state.prv = S => sie
  BY <1>3, <1>4, <1>5
<1> QED
  BY <1>6, <1>7, <1>8 DEF sie

\* What the mode is once the interrupt, and perhaps a trigger's breakpoint on it,
\* has been taken.
LEMMA InterruptMode ==
    ASSUME HartIInv, NEW mip \in Pendings, take_interrupt(mip), ~state'.debug_mode
    PROVE  /\ Rank(state'.prv, state'.v) >= Rank(state.prv, state.v)
           /\ state'.v => state.v
           /\ (state'.prv = M /\ state.prv = M) => state.m.mie
           /\ (state'.prv = S /\ state.prv = S /\ state'.v = state.v)
                => sstatus_read(state).sie
<1> DEFINE st == awake(mip)
           t == [int |-> TRUE, bit |-> interrupt(enabled_interrupts(mip))]
           taken == take_trap(st, t)
           halted == IF taken.critical_error THEN enter_debug_mode(taken) ELSE taken
<1>1. /\ Good(state) /\ ~state.debug_mode /\ enabled_interrupts(mip) # {}
  BY DEF HartIInv, take_interrupt
<1>2. PICK trig \in trap_match(st, t) : state' = catch_trap(st, t, trig)
  BY DEF take_interrupt
<1>3. trig \in {"none", "debug", "exception"}
  BY DEF trap_match
<1>4. /\ state.prv = M => state.m.mie
      /\ hsdeleg(state, t) /\ ~vsdeleg(state, t) /\ state.prv = S /\ ~state.v
            => sstatus_read(state).sie
      /\ vsdeleg(state, t) /\ state.prv = S => sstatus_read(state).sie
  BY <1>1, ChosenInterrupt
<1> HIDE DEF t
<1>5. /\ Good(st) /\ ~st.debug_mode /\ st.cfg = state.cfg /\ SameMode(st, state)
  BY <1>1, AwakeGood
<1>6. (vsdeleg(st, t) <=> vsdeleg(state, t)) /\ (hsdeleg(st, t) <=> hsdeleg(state, t))
  <2> HIDE DEF st
  <2> QED
    BY <1>5 DEF vsdeleg, hsdeleg, SameMode, mideleg_read, hideleg_read
<1>7. state' = IF trig # "none" THEN take_trigger_action(halted, trig)
               ELSE IF halted.single_step = "stepped"
               THEN enter_debug_mode([halted EXCEPT !.single_step = "none"])
               ELSE halted
  BY <1>2 DEF catch_trap
<1> HIDE DEF st
<1>8. /\ Good(taken) /\ Delivered(taken, st, t) /\ ~taken.debug_mode
  BY <1>5, TakeTrap DEF SameStep
<1> HIDE DEF taken
<1>9. halted = taken \/ (Good(halted) /\ halted.debug_mode)
  BY <1>8, EnterDebug
<1> HIDE DEF halted
<1>10. Good(halted)
  BY <1>8, <1>9
<1>11. SameMode(state', taken) \/ Delivered(state', taken, Breakpoint)
  <2>1. CASE trig = "exception"
    <3>1. state' = take_trap(halted, Breakpoint)
      BY <1>7, <2>1 DEF take_trigger_action
    <3>2. /\ SameStep(state', halted)
          /\ ~halted.debug_mode => Delivered(state', halted, Breakpoint)
      BY <1>10, <3>1, TakeTrap
    <3> QED
      BY <1>9, <3>2 DEF SameStep
  <2>2. CASE trig = "debug"
    <3>1. state' = enter_debug_mode(halted)
      BY <1>7, <2>2 DEF take_trigger_action
    <3> QED
      BY <1>10, <3>1, EnterDebug
  <2>3. CASE trig = "none" /\ halted.single_step = "stepped"
    <3> DEFINE q == [halted EXCEPT !.single_step = "none"]
    <3>1. Good(q)
      BY <1>10, SetSingleStep
    <3>2. state' = enter_debug_mode(q)
      BY <1>7, <2>3
    <3> HIDE DEF q
    <3> QED
      BY <3>1, <3>2, EnterDebug
  <2>4. CASE trig = "none" /\ halted.single_step # "stepped"
    BY <1>7, <1>9, <2>4 DEF SameMode
  <2> QED
    BY <1>3, <2>1, <2>2, <2>3, <2>4
<1>12. Good(state')
  BY <1>2, <1>3, <1>5, CatchTrap DEF Caught
<1>13. \/ state'.prv = M
       \/ state'.prv = S /\ state'.v /\ vsdeleg(state, t)
       \/ /\ state'.prv = S /\ ~state'.v /\ state.prv # M
          /\ hsdeleg(state, t) \/ vsdeleg(state, t)
  BY <1>5, <1>6, <1>8, <1>11 DEF Delivered, SameMode, vsdeleg, hsdeleg, S, M
<1>14. /\ vsdeleg(state, t) => state.v /\ state.prv # M
       /\ state'.v => state'.prv # M
       /\ state.v => state.prv # M
       /\ state.prv \in Prv /\ state.v \in BOOLEAN /\ state'.v \in BOOLEAN
  BY <1>1, <1>12 DEF vsdeleg, Good, ModesAgree, StateType
<1>15. Rank(state'.prv, state'.v) >= Rank(state.prv, state.v)
  BY <1>13, <1>14 DEF Rank, Prv, U, S, M
<1>16. state'.v => state.v
  BY <1>13, <1>14
<1>17. (state'.prv = S /\ state.prv = S /\ state'.v = state.v) => sstatus_read(state).sie
  <2>1. S # M
    BY DEF S, M
  <2> QED
    BY <1>4, <1>13, <1>14, <2>1
<1> QED
  BY <1>4, <1>15, <1>16, <1>17

\* What take_interrupt enables is what take_trap delivers: an interrupt never
\* lowers the privilege and never enters a mode that has interrupts off.
THEOREM MasksRespected == Spec => InterruptsRespectMasks
<1> DEFINE Respects ==
        loop.at = "outer" /\ loop'.at = "slice" /\ ~state'.debug_mode =>
          /\ Rank(state'.prv, state'.v) >= Rank(state.prv, state.v)
          /\ state'.v => state.v
          /\ (state'.prv = M /\ state.prv = M) => state.m.mie
          /\ (state'.prv = S /\ state.prv = S /\ state'.v = state.v)
                => sstatus_read(state).sie
<1>1. HartIInv /\ [Next]_vars => [Respects]_vars
  <2> SUFFICES ASSUME HartIInv, Next, loop.at = "outer", loop'.at = "slice",
                      ~state'.debug_mode
               PROVE  \E mip \in Pendings : take_interrupt(mip)
    BY InterruptMode
  <2>1. ~Ready /\ ~step_done /\ ~wait /\ ~reset /\ \A x \in BOOLEAN : ~step(x)
    BY DEF Ready, step_done, wait, reset, step
  <2>2. ~CanExecute /\ ~GuestCode /\ ~CanWriteCsr
    BY <2>1 DEF CanExecute, GuestCode, CanWriteCsr
  <2>3. ASSUME NEW mip \in Pendings, enter_inner(mip) PROVE FALSE
    <3>1. loop' = [loop EXCEPT !.at = "inner", !.pc = state.pc, !.checked = TRUE,
                               !.path = IF slow_path' THEN "slow" ELSE "fast"]
      BY <2>3 DEF enter_inner
    <3>2. loop \in LoopType
      BY DEF HartIInv, StepInv
    <3>3. loop'.at = "inner"
      BY <3>1, <3>2 DEF LoopType
    <3> QED
      BY <3>3
  <2>4. ~Insn
    BY <2>1, <2>2 DEF Insn, plain_insn, exception_insn, trigger_insn, ebreak, wfi,
                      mret, sret, dret, validate_csr, csr_insn
  <2>5. ~Software
    BY <2>1, <2>2 DEF Software, software_mie, software_sie, software_clears_mdt,
         software_clears_sdt, software_mpp, software_spp, dcsr_write
  <2> QED
    BY <2>1, <2>3, <2>4, <2>5 DEF Next, Loop
<1> QED
  BY <1>1, HartInvariant, PTL DEF Spec, InterruptsRespectMasks
=============================================================================
