--------------------------- MODULE PlatformProofs ---------------------------
(***************************************************************************)
(* Proofs about Plic for every number of contexts, sources, priorities and *)
(* word width; and about Platform: the board is a PLIC whose sources are   *)
(* each routed to one hart at a time, the UART's wire and the timers agree *)
(* with their registers, a timer set by halves is never early, and the     *)
(* input is kept in order; for any number of harts and sources, any turn,  *)
(* queue, back-off and boot code.                                          *)
(***************************************************************************)
EXTENDS Platform, TLAPS, WellFoundedInduction, SequenceTheorems

-----------------------------------------------------------------------------
(***************************************************************************)
(* The interrupt controller.                                               *)
(***************************************************************************)

\* What a claim can return: 0 or a candidate whose latched priority exceeds
\* the threshold (the early "return 0" of plic_t::context_best_pending).
LEMMA BestIsCandidate ==
    ASSUME NEW c \in Contexts, Interrupting(c)
    PROVE  /\ context_best_pending(c) \in Candidates(c)
           /\ pending_priority[c][context_best_pending(c)] > threshold[c]
  BY DEF Interrupting, context_best_pending

\* Reducing a register write to the field's width gives a priority.
LEMMA MaskedIsPrio == \A v \in Vals : v % (MaxPrio + 1) \in Prios
  BY PlicAssumption DEF Vals, Prios

\* The value of the mip bit depends on the context's own registers only, so an
\* operation on another context leaves it right.
LEMMA InterruptingFrame ==
    ASSUME NEW c \in Contexts,
           pending'[c] = pending[c], claimed'[c] = claimed[c],
           pending_priority'[c] = pending_priority[c], threshold'[c] = threshold[c]
    PROVE  Interrupting(c)' = Interrupting(c)
  BY DEF Interrupting, context_best_pending, Candidates, Beats

-----------------------------------------------------------------------------
\* Every step of the PLIC, of a device driving a wire, of software writing mip
\* and of a hart reset keeps the registers within their types.
LEMMA TypeStep == TypeOK /\ [Next]_vars => TypeOK'
  <1> SUFFICES ASSUME TypeOK, [Next]_vars PROVE TypeOK'
    OBVIOUS
  <1>m. \A c \in Contexts : Interrupting(c)' \in BOOLEAN
    BY DEF Interrupting
  <1>1. ASSUME NEW id \in Ids, NEW val \in Vals, priority_write(id, val) PROVE TypeOK'
    BY <1>1, MaskedIsPrio DEF TypeOK, priority_write, ctxVars
  <1>2. ASSUME NEW c \in Contexts, context_claim(c) PROVE TypeOK'
    <2>1. Interrupting(c) => context_best_pending(c) \in Ids
      BY BestIsCandidate DEF TypeOK, Candidates
    <2>2. claimed' \in [Contexts -> SUBSET Ids]
      BY <1>2, <2>1 DEF TypeOK, context_claim
    <2> QED
      BY <1>2, <2>2, <1>m DEF TypeOK, context_claim, context_update
  <1>3. ASSUME NEW c \in Contexts, NEW w \in Words, NEW on \in SUBSET Word(w),
               context_enable_write(c, w, on)
        PROVE TypeOK'
    <2> DEFINE new  == (enable[c] \ Word(w)) \cup (on \cap Word(w))
               rise == (new \ enable[c]) \cap level
               fall == enable[c] \ new
               pp   == [id \in Ids |-> IF id \in rise THEN priority[id]
                                      ELSE IF id \in fall THEN 0
                                      ELSE pending_priority[c][id]]
    <2>1. new \subseteq Ids /\ rise \subseteq Ids /\ fall \subseteq Ids
      BY DEF TypeOK, Word
    <2>2. enable' = [enable EXCEPT ![c] = new]
          /\ pending' = [pending EXCEPT ![c] = (pending[c] \cup rise) \ fall]
          /\ claimed' = [claimed EXCEPT ![c] = claimed[c] \ fall]
          /\ pending_priority' = [pending_priority EXCEPT ![c] = pp]
      BY <1>3 DEF context_enable_write
    <2>3. 0 \in Prios
      BY PlicAssumption DEF Prios
    <2>4. \A id \in Ids : priority[id] \in Prios /\ pending_priority[c][id] \in Prios
      BY DEF TypeOK
    <2>5. pp \in [Ids -> Prios]
      <3> HIDE DEF rise, fall
      <3> QED BY <2>3, <2>4
    <2>6. pending_priority' \in [Contexts -> [Ids -> Prios]]
      <3> HIDE DEF pp
      <3> QED BY <2>2, <2>5 DEF TypeOK
    <2>7. enable' \in [Contexts -> SUBSET Ids] /\ pending' \in [Contexts -> SUBSET Ids]
          /\ claimed' \in [Contexts -> SUBSET Ids]
      <3> HIDE DEF new, rise, fall
      <3> QED BY <2>1, <2>2 DEF TypeOK
    <2> QED
      BY <1>3, <2>6, <2>7, <1>m DEF TypeOK, context_enable_write, context_update
  <1>4. ASSUME NEW c \in Contexts, NEW val \in Vals, context_write_threshold(c, val)
        PROVE TypeOK'
    BY <1>4, <1>m, MaskedIsPrio DEF TypeOK, context_write_threshold, context_update
  <1>5. ASSUME NEW c \in Contexts, NEW id \in Ids, context_write_claim(c, id) PROVE TypeOK'
    BY <1>5, <1>m DEF TypeOK, context_write_claim, context_update
  <1>6. ASSUME NEW id \in Ids, NEW lvl \in BOOLEAN, set_interrupt_level(id, lvl)
        PROVE TypeOK'
    <2>1. ASSUME NEW c \in Contexts,
                 pending' = [pending EXCEPT ![c] = IF lvl THEN @ \cup {id} ELSE @ \ {id}],
                 pending_priority' =
                    [pending_priority EXCEPT ![c][id] = IF lvl THEN priority[id] ELSE 0],
                 claimed' = [claimed EXCEPT ![c] = IF lvl THEN @ ELSE @ \ {id}],
                 context_update(c)
          PROVE TypeOK'
      <3>1. (IF lvl THEN priority[id] ELSE 0) \in Prios
        BY PlicAssumption DEF TypeOK, Prios
      <3>2. pending_priority' \in [Contexts -> [Ids -> Prios]]
        BY <2>1, <3>1 DEF TypeOK
      <3>3. pending' \in [Contexts -> SUBSET Ids] /\ claimed' \in [Contexts -> SUBSET Ids]
        BY <2>1 DEF TypeOK
      <3>4. level' \subseteq Ids
        BY <1>6 DEF TypeOK, set_interrupt_level
      <3> QED
        BY <1>6, <2>1, <3>2, <3>3, <3>4, <1>m DEF TypeOK, set_interrupt_level, context_update
    <2>2. CASE UNCHANGED <<pending, pending_priority, claimed, mip, overwritten>>
      BY <1>6, <2>2 DEF TypeOK, set_interrupt_level
    <2> QED
      BY <1>6, <2>1, <2>2 DEF set_interrupt_level
  <1>7. ASSUME NEW c \in Contexts, NEW b \in BOOLEAN, csr_write_seip(c, b) PROVE TypeOK'
    BY <1>7 DEF TypeOK, csr_write_seip, ctxVars
  <1>8. ASSUME NEW h, hart_reset(h) PROVE TypeOK'
    BY <1>8 DEF TypeOK, hart_reset, ctxVars
  <1>9. CASE UNCHANGED vars
    BY <1>9 DEF TypeOK, vars, ctxVars
  <1> QED
    BY <1>1, <1>2, <1>3, <1>4, <1>5, <1>6, <1>7, <1>8, <1>9 DEF Next

\* Type correctness of the PLIC's registers.
THEOREM PlicTypeCorrect == Spec => []TypeOK
  <1>1. Init => TypeOK
    BY PlicAssumption DEF Init, TypeOK, Prios
  <1> QED
    BY <1>1, TypeStep, PTL DEF Spec
-----------------------------------------------------------------------------
\* Every step of the registers, the wires and the harts keeps claimed within
\* pending and pending within enable, in every context.
LEMMA ServiceStep == TypeOK /\ ServiceNesting /\ [Next]_vars => ServiceNesting'
  <1> SUFFICES ASSUME TypeOK, ServiceNesting, [Next]_vars PROVE ServiceNesting'
    OBVIOUS
  <1> USE DEF ServiceNesting
  <1>1. ASSUME NEW id \in Ids, NEW val \in Vals, priority_write(id, val)
        PROVE ServiceNesting'
    BY <1>1 DEF priority_write, ctxVars
  <1>2. ASSUME NEW c \in Contexts, context_claim(c) PROVE ServiceNesting'
    <2>1. Interrupting(c) => context_best_pending(c) \in pending[c]
      BY BestIsCandidate DEF Candidates
    <2> QED
      BY <1>2, <2>1 DEF TypeOK, context_claim
  <1>3. ASSUME NEW c \in Contexts, NEW w \in Words, NEW on \in SUBSET Word(w),
               context_enable_write(c, w, on)
        PROVE ServiceNesting'
    <2> SUFFICES ASSUME NEW d \in Contexts
                 PROVE  claimed'[d] \subseteq pending'[d] /\ pending'[d] \subseteq enable'[d]
      OBVIOUS
    <2>1. CASE d = c
      BY <1>3, <2>1 DEF TypeOK, context_enable_write
    <2>2. CASE d # c
      BY <1>3, <2>2 DEF TypeOK, context_enable_write
    <2> QED BY <2>1, <2>2
  <1>4. ASSUME NEW c \in Contexts, NEW val \in Vals, context_write_threshold(c, val)
        PROVE ServiceNesting'
    BY <1>4 DEF context_write_threshold
  <1>5. ASSUME NEW c \in Contexts, NEW id \in Ids, context_write_claim(c, id)
        PROVE ServiceNesting'
    BY <1>5 DEF TypeOK, context_write_claim
  <1>6. ASSUME NEW id \in Ids, NEW lvl \in BOOLEAN, set_interrupt_level(id, lvl)
        PROVE ServiceNesting'
    BY <1>6 DEF TypeOK, set_interrupt_level, FirstEnabled
  <1>7. ASSUME NEW c \in Contexts, NEW b \in BOOLEAN, csr_write_seip(c, b)
        PROVE ServiceNesting'
    BY <1>7 DEF csr_write_seip, ctxVars
  <1>8. ASSUME NEW h, hart_reset(h) PROVE ServiceNesting'
    BY <1>8 DEF hart_reset, ctxVars
  <1>9. CASE UNCHANGED vars
    BY <1>9 DEF vars, ctxVars
  <1> QED
    BY <1>1, <1>2, <1>3, <1>4, <1>5, <1>6, <1>7, <1>8, <1>9 DEF Next

\* A source in service in a context is pending and enabled there, whatever the
\* order of claims, completions, enable writes and wire changes.
THEOREM PlicServiceNesting == Spec => []ServiceNesting
  <1>1. Init => ServiceNesting
    BY DEF Init, ServiceNesting
  <1> QED
    BY <1>1, ServiceStep, PlicTypeCorrect, PTL DEF Spec

-----------------------------------------------------------------------------
\* One operation of the PLIC on context c: it may change c's registers, ends in
\* context_update(c), and so leaves every bit that was right, right.
LEMMA UpdateIsCoherent ==
    ASSUME TypeOK, MipCoherent, NEW c \in Contexts, context_update(c),
           \A d \in Contexts \ {c} :
               /\ pending'[d] = pending[d] /\ claimed'[d] = claimed[d]
               /\ pending_priority'[d] = pending_priority[d] /\ threshold'[d] = threshold[d]
    PROVE  MipCoherent'
  <1> SUFFICES ASSUME NEW d \in Contexts, d \notin overwritten'
               PROVE  mip'[d] = Interrupting(d)'
    BY DEF MipCoherent
  <1>1. CASE d = c
    BY <1>1 DEF TypeOK, context_update
  <1>2. CASE d # c
    <2>1. Interrupting(d)' = Interrupting(d)
      BY <1>2, InterruptingFrame
    <2>2. d \notin overwritten /\ mip'[d] = mip[d]
      BY <1>2 DEF TypeOK, context_update
    <2> QED
      BY <2>1, <2>2 DEF MipCoherent
  <1> QED BY <1>1, <1>2

\* No step leaves a mip bit wrong unless it marks the context overwritten.
LEMMA CoherentStep == TypeOK /\ MipCoherent /\ [Next]_vars => MipCoherent'
  <1> SUFFICES ASSUME TypeOK, MipCoherent, [Next]_vars PROVE MipCoherent'
    OBVIOUS
  <1>f. ASSUME UNCHANGED ctxVars, overwritten \subseteq overwritten',
               \A c \in Contexts \ overwritten' : mip'[c] = mip[c]
        PROVE MipCoherent'
    <2>1. \A c \in Contexts : Interrupting(c)' = Interrupting(c)
      BY <1>f, InterruptingFrame DEF ctxVars
    <2> QED
      BY <1>f, <2>1 DEF MipCoherent
  <1>1. ASSUME NEW id \in Ids, NEW val \in Vals, priority_write(id, val) PROVE MipCoherent'
    BY <1>1, <1>f DEF priority_write
  <1>2. ASSUME NEW c \in Contexts, context_claim(c) PROVE MipCoherent'
    BY <1>2, UpdateIsCoherent DEF TypeOK, context_claim
  <1>3. ASSUME NEW c \in Contexts, NEW w \in Words, NEW on \in SUBSET Word(w),
               context_enable_write(c, w, on)
        PROVE MipCoherent'
    <2>1. \A d \in Contexts \ {c} :
               /\ pending'[d] = pending[d] /\ claimed'[d] = claimed[d]
               /\ pending_priority'[d] = pending_priority[d] /\ threshold'[d] = threshold[d]
      BY <1>3 DEF TypeOK, context_enable_write
    <2>2. context_update(c)
      BY <1>3 DEF context_enable_write
    <2> QED BY <2>1, <2>2, UpdateIsCoherent
  <1>4. ASSUME NEW c \in Contexts, NEW val \in Vals, context_write_threshold(c, val)
        PROVE MipCoherent'
    BY <1>4, UpdateIsCoherent DEF TypeOK, context_write_threshold
  <1>5. ASSUME NEW c \in Contexts, NEW id \in Ids, context_write_claim(c, id)
        PROVE MipCoherent'
    BY <1>5, UpdateIsCoherent DEF TypeOK, context_write_claim
  <1>6. ASSUME NEW id \in Ids, NEW lvl \in BOOLEAN, set_interrupt_level(id, lvl)
        PROVE MipCoherent'
    <2>1. CASE UNCHANGED <<pending, pending_priority, claimed, mip, overwritten>>
      BY <1>6, <2>1, <1>f DEF set_interrupt_level, ctxVars
    <2>2. ASSUME NEW c \in Contexts,
                 pending' = [pending EXCEPT ![c] = IF lvl THEN @ \cup {id} ELSE @ \ {id}],
                 pending_priority' =
                    [pending_priority EXCEPT ![c][id] = IF lvl THEN priority[id] ELSE 0],
                 claimed' = [claimed EXCEPT ![c] = IF lvl THEN @ ELSE @ \ {id}],
                 context_update(c)
          PROVE MipCoherent'
      BY <1>6, <2>2, UpdateIsCoherent DEF TypeOK, set_interrupt_level
    <2> QED
      BY <1>6, <2>1, <2>2 DEF set_interrupt_level
  <1>7. ASSUME NEW c \in Contexts, NEW b \in BOOLEAN, csr_write_seip(c, b) PROVE MipCoherent'
    BY <1>7, <1>f DEF TypeOK, csr_write_seip
  <1>8. ASSUME NEW h, hart_reset(h) PROVE MipCoherent'
    BY <1>8, <1>f DEF TypeOK, hart_reset
  <1>9. CASE UNCHANGED vars
    BY <1>9, <1>f DEF vars
  <1> QED
    BY <1>1, <1>2, <1>3, <1>4, <1>5, <1>6, <1>7, <1>8, <1>9 DEF Next

\* The external-interrupt bit of every hart agrees with what its context can
\* claim, except where software or a reset wrote the bit after the PLIC did.
THEOREM PlicMipCoherent == Spec => []MipCoherent
  <1>1. Init => MipCoherent
    BY DEF Init, MipCoherent, Interrupting, context_best_pending, Candidates
  <1> QED
    BY <1>1, CoherentStep, PlicTypeCorrect, PTL DEF Spec

-----------------------------------------------------------------------------
\* MEIP is set only by context_update, and whatever changes what the context
\* can claim ends in context_update: no order of steps, hart resets included,
\* leaves it set with nothing to claim.
THEOREM PlicNoSpuriousMeip == Spec => []NoSpuriousMeip
  <1> DEFINE OnlyLost == \A c \in Contexts \ SMode : mip[c] => Interrupting(c)
  <1>1. Init => OnlyLost
    BY DEF Init
  <1>2. TypeOK /\ OnlyLost /\ [Next]_vars => OnlyLost'
    <2> SUFFICES ASSUME TypeOK, OnlyLost, [Next]_vars PROVE OnlyLost'
      OBVIOUS
    <2>u. ASSUME NEW c \in Contexts, context_update(c),
                 \A d \in Contexts \ {c} :
                    /\ pending'[d] = pending[d] /\ claimed'[d] = claimed[d]
                    /\ pending_priority'[d] = pending_priority[d]
                    /\ threshold'[d] = threshold[d]
          PROVE OnlyLost'
      <3> SUFFICES ASSUME NEW d \in Contexts \ SMode, mip'[d] PROVE Interrupting(d)'
        OBVIOUS
      <3>1. CASE d = c
        BY <2>u, <3>1 DEF TypeOK, context_update
      <3>2. CASE d # c
        BY <2>u, <3>2, InterruptingFrame DEF TypeOK, context_update
      <3> QED BY <3>1, <3>2
    <2>f. ASSUME UNCHANGED ctxVars, \A c \in Contexts \ SMode : mip'[c] => mip[c]
          PROVE OnlyLost'
      <3>1. \A c \in Contexts : Interrupting(c)' = Interrupting(c)
        BY <2>f, InterruptingFrame DEF ctxVars
      <3> QED BY <2>f, <3>1
    <2> HIDE DEF OnlyLost
    <2>1. ASSUME NEW id \in Ids, NEW val \in Vals, priority_write(id, val) PROVE OnlyLost'
      BY <2>1, <2>f DEF priority_write
    <2>2. ASSUME NEW c \in Contexts, context_claim(c) PROVE OnlyLost'
      BY <2>2, <2>u DEF TypeOK, context_claim
    <2>3. ASSUME NEW c \in Contexts, NEW w \in Words, NEW on \in SUBSET Word(w),
                 context_enable_write(c, w, on)
          PROVE OnlyLost'
      BY <2>3, <2>u DEF TypeOK, context_enable_write
    <2>4. ASSUME NEW c \in Contexts, NEW val \in Vals, context_write_threshold(c, val)
          PROVE OnlyLost'
      BY <2>4, <2>u DEF TypeOK, context_write_threshold
    <2>5. ASSUME NEW c \in Contexts, NEW id \in Ids, context_write_claim(c, id)
          PROVE OnlyLost'
      BY <2>5, <2>u DEF TypeOK, context_write_claim
    <2>6. ASSUME NEW id \in Ids, NEW lvl \in BOOLEAN, set_interrupt_level(id, lvl)
          PROVE OnlyLost'
      <3>1. CASE UNCHANGED <<pending, pending_priority, claimed, mip, overwritten>>
        BY <2>6, <3>1, <2>f DEF set_interrupt_level, ctxVars
      <3>2. ASSUME NEW c \in Contexts,
                   pending' = [pending EXCEPT ![c] = IF lvl THEN @ \cup {id} ELSE @ \ {id}],
                   pending_priority' =
                      [pending_priority EXCEPT ![c][id] = IF lvl THEN priority[id] ELSE 0],
                   claimed' = [claimed EXCEPT ![c] = IF lvl THEN @ ELSE @ \ {id}],
                   context_update(c)
            PROVE OnlyLost'
        BY <2>6, <3>2, <2>u DEF TypeOK, set_interrupt_level
      <3> QED
        BY <2>6, <3>1, <3>2 DEF set_interrupt_level
    <2>7. ASSUME NEW c \in Contexts, NEW b \in BOOLEAN, csr_write_seip(c, b) PROVE OnlyLost'
      BY <2>7, <2>f DEF TypeOK, csr_write_seip
    <2>8. ASSUME NEW h, hart_reset(h) PROVE OnlyLost'
      BY <2>8, <2>f DEF TypeOK, hart_reset
    <2>9. CASE UNCHANGED vars
      BY <2>9, <2>f DEF vars, ctxVars
    <2> QED
      BY <2>1, <2>2, <2>3, <2>4, <2>5, <2>6, <2>7, <2>8, <2>9 DEF Next
  <1>3. OnlyLost <=> NoSpuriousMeip
    BY DEF NoSpuriousMeip
  <1> QED
    BY <1>1, <1>2, <1>3, PlicTypeCorrect, PTL DEF Spec

-----------------------------------------------------------------------------
\* The invariant of the system whose software routes each source to one
\* context at a time.
ExclusiveInv == TypeOK /\ Exclusive /\ ServiceNesting /\ LevelTriggered

\* The inductive step: set_interrupt_level stops at the first context that has
\* the source enabled, which under Exclusive is the only one.
LEMMA ExclusiveStep == ExclusiveInv /\ [Next /\ Exclusive']_vars => ExclusiveInv'
  <1> SUFFICES ASSUME ExclusiveInv, [Next /\ Exclusive']_vars PROVE ExclusiveInv'
    OBVIOUS
  <1> USE DEF ExclusiveInv
  <1>1. [Next]_vars
    OBVIOUS
  <1>2. TypeOK' /\ ServiceNesting'
    BY <1>1, TypeStep, ServiceStep
  <1>3. Exclusive'
    BY DEF Exclusive, vars, ctxVars
  <1>4. LevelTriggered'
    <2> USE DEF LevelTriggered
    <2>1. ASSUME NEW id \in Ids, NEW val \in Vals, priority_write(id, val)
          PROVE LevelTriggered'
      BY <2>1 DEF priority_write, ctxVars
    <2>2. ASSUME NEW c \in Contexts, context_claim(c) PROVE LevelTriggered'
      BY <2>2 DEF context_claim
    <2>3. ASSUME NEW c \in Contexts, NEW w \in Words, NEW on \in SUBSET Word(w),
                 context_enable_write(c, w, on)
          PROVE LevelTriggered'
      <3> SUFFICES ASSUME NEW d \in Contexts PROVE pending'[d] = level' \cap enable'[d]
        OBVIOUS
      <3>1. CASE d = c
        BY <2>3, <3>1 DEF TypeOK, context_enable_write
      <3>2. CASE d # c
        BY <2>3, <3>2 DEF TypeOK, context_enable_write
      <3> QED BY <3>1, <3>2
    <2>4. ASSUME NEW c \in Contexts, NEW val \in Vals, context_write_threshold(c, val)
          PROVE LevelTriggered'
      BY <2>4 DEF context_write_threshold
    <2>5. ASSUME NEW c \in Contexts, NEW id \in Ids, context_write_claim(c, id)
          PROVE LevelTriggered'
      BY <2>5 DEF context_write_claim
    <2>6. ASSUME NEW id \in Ids, NEW lvl \in BOOLEAN, set_interrupt_level(id, lvl)
          PROVE LevelTriggered'
      <3>1. CASE \A c \in Contexts : id \notin enable[c]
        BY <2>6, <3>1 DEF TypeOK, set_interrupt_level, FirstEnabled
      <3>2. ASSUME NEW c \in Contexts, FirstEnabled(c, id),
                   pending' = [pending EXCEPT ![c] = IF lvl THEN @ \cup {id} ELSE @ \ {id}]
            PROVE LevelTriggered'
        <4> SUFFICES ASSUME NEW d \in Contexts PROVE pending'[d] = level' \cap enable'[d]
          OBVIOUS
        <4>1. CASE d = c
          BY <2>6, <3>2, <4>1 DEF TypeOK, set_interrupt_level, FirstEnabled
        <4>2. CASE d # c
          <5>1. id \notin enable[d]
            BY <3>2, <4>2 DEF Exclusive, FirstEnabled
          <5> QED
            BY <2>6, <3>2, <4>2, <5>1 DEF TypeOK, set_interrupt_level
        <4> QED BY <4>1, <4>2
      <3> QED
        BY <2>6, <3>1, <3>2 DEF set_interrupt_level
    <2>7. ASSUME NEW c \in Contexts, NEW b \in BOOLEAN, csr_write_seip(c, b)
          PROVE LevelTriggered'
      BY <2>7 DEF csr_write_seip, ctxVars
    <2>8. ASSUME NEW h, hart_reset(h) PROVE LevelTriggered'
      BY <2>8 DEF hart_reset, ctxVars
    <2>9. CASE UNCHANGED vars
      BY <2>9 DEF vars, ctxVars
    <2> QED
      BY <1>1, <2>1, <2>2, <2>3, <2>4, <2>5, <2>6, <2>7, <2>8, <2>9 DEF Next
  <1> QED BY <1>2, <1>3, <1>4

\* The invariant holds of every behaviour of such software.
LEMMA ExclusiveInvariant == ExclusiveSpec => []ExclusiveInv
  <1>1. Init => ExclusiveInv
    BY PlicAssumption
       DEF Init, ExclusiveInv, TypeOK, Exclusive, ServiceNesting, LevelTriggered, Prios
  <1> QED
    BY <1>1, ExclusiveStep, PTL DEF ExclusiveSpec

\* If no source is enabled in two contexts at once, a context's pending sources
\* are exactly its enabled ones whose wire is high: no interrupt is lost and
\* none is stale, in particular when a source moves to another context.
THEOREM PlicLevelTriggered == ExclusiveSpec => []LevelTriggered
  <1>1. ExclusiveInv => LevelTriggered
    BY DEF ExclusiveInv
  <1> QED BY <1>1, ExclusiveInvariant, PTL

\* If no source is enabled in two contexts at once, no source is in service in
\* two contexts.
THEOREM PlicOneServer == ExclusiveSpec => []OneServer
  <1>1. ExclusiveInv => OneServer
    BY DEF ExclusiveInv, Exclusive, ServiceNesting, OneServer
  <1> QED BY <1>1, ExclusiveInvariant, PTL
-----------------------------------------------------------------------------
(***************************************************************************)
(* The scan of context_best_pending.  It is a recursive function on the    *)
(* source numbers: what holds of it is shown by a least number for which   *)
(* it would not hold.                                                      *)
(***************************************************************************)

\* A property of numbers that fails somewhere fails somewhere first.
LEMMA FirstOf ==
    ASSUME NEW T, T \subseteq Nat, T # {}
    PROVE  \E m \in T : \A n \in T : m <= n
<1> DEFINE R == OpToRel(<, Nat)
<1>1. \A x, y \in Nat : y < x => <<y, x>> \in R
  BY Zenon DEF OpToRel
<1>2. IsWellFoundedOn(R, Nat)
  BY NatLessThanWellFounded
<1> HIDE DEF R
<1>3. PICK x \in T : \A y \in T : ~ (<<y, x>> \in R)
  BY <1>2, WFMin
<1>4. ASSUME NEW y \in T PROVE x <= y
  <2>1. x \in Nat /\ y \in Nat
    OBVIOUS
  <2>2. ~(y < x)
    BY <1>1, <1>3, <2>1, Zenon
  <2> QED BY <2>1, <2>2
<1> QED BY <1>3, <1>4

\* One turn of the loop: pp are the latched priorities, C the candidates and b the
\* best of the sources before i.
Turn(pp, C, b, i) == IF i \in C /\ (b = 0 \/ pp[b] < pp[i]) THEN i ELSE b

Bits == NumWords * WordBits

Scans(pp, C, f) ==
    f = [n \in 0 .. Bits |-> IF n = 0 THEN 0 ELSE Turn(pp, C, f[n - 1], n - 1)]

Scan(pp, C) == (CHOOSE f : Scans(pp, C, f))[Bits]

\* The words have room for every source.
LEMMA BitsCover == NumWords \in Nat /\ Bits \in Nat /\ NumIds <= Bits
<1> DEFINE n == NumIds + WordBits - 1
<1>1. NumIds \in Nat /\ WordBits \in Nat \ {0} /\ n \in Nat
  BY PlicAssumption
<1> HIDE DEF n
<1>2. n \div WordBits \in Nat /\ n = WordBits * (n \div WordBits) + (n % WordBits) /\ n % WordBits < WordBits
      /\ n % WordBits \in Nat
  BY <1>1
<1>3. PICK q, m \in Nat : q = n \div WordBits /\ n = WordBits * q + m /\ m < WordBits
  BY <1>2
<1>4. NumWords = q
  BY <1>3 DEF NumWords, n
<1>5. n + 1 = NumIds + WordBits
  BY <1>1 DEF n
<1>6. WordBits * q \in Nat /\ WordBits * q = q * WordBits
  BY <1>1, <1>2, <1>3
<1>7. PICK t \in Nat : t = WordBits * q
  BY <1>6
<1>8. NumIds <= t
  BY <1>1, <1>3, <1>5, <1>7
<1> QED BY <1>2, <1>3, <1>4, <1>6, <1>7, <1>8 DEF Bits

\* The two loops skip no candidate: a pending source is below num_ids, and its word
\* has a bit set.
LEMMA VisitedAreCandidates ==
    ASSUME TypeOK, NEW c \in Contexts PROVE Visited(c) = Candidates(c)
<1>1. pending[c] \subseteq Ids
  BY DEF TypeOK
<1>2. ASSUME NEW id \in Candidates(c) PROVE id \in Visited(c)
  <2>1. id \in Ids /\ id \in pending[c] /\ id \notin claimed[c]
    BY <1>1, <1>2 DEF Candidates
  <2>2. id \in Word(id \div WordBits)
    BY <2>1 DEF Word
  <2>3. id \in 0 .. NumWords * WordBits - 1 /\ id < NumIds
    BY <2>1, BitsCover, PlicAssumption DEF Ids, Bits
  <2> QED BY <2>1, <2>2, <2>3 DEF Visited
<1>3. ASSUME NEW id \in Visited(c) PROVE id \in Candidates(c)
  BY <1>3 DEF Visited, Candidates
<1> QED BY <1>2, <1>3

\* ScanBest is that scan and the test of the threshold after the loop.
LEMMA ScanBestIsScan ==
    ASSUME NEW c \in Contexts
    PROVE  LET best == Scan(pending_priority[c], Visited(c))
           IN  ScanBest(c) = IF best = 0 THEN 0
                             ELSE IF pending_priority[c][best] <= threshold[c] THEN 0 ELSE best
BY Zenon DEF ScanBest, Scan, Scans, Turn, Bits

\* The recursion has a solution: one that is right up to n is made right for n + 1.
LEMMA ScansExists ==
    ASSUME NEW pp, NEW C
    PROVE  \E f : Scans(pp, C, f)
<1> DEFINE I == 0 .. Bits
           Value(f, i) == IF i = 0 THEN 0 ELSE Turn(pp, C, f[i - 1], i - 1)
           Right(f, n) == DOMAIN f = I /\ f = [i \in I |-> f[i]] /\ \A i \in I : i <= n => f[i] = Value(f, i)
           T == {n \in Nat : ~ \E f : Right(f, n)}
<1>1. Bits \in Nat /\ I \subseteq Nat
  BY BitsCover
<1>2. ASSUME T # {} PROVE FALSE
  <2>1. T \subseteq Nat
    OBVIOUS
  <2>2. PICK m \in T : \A n \in T : m <= n
    <3> HIDE DEF T
    <3> QED BY <1>2, <2>1, FirstOf
  <2>3. m \in Nat /\ \A n \in Nat : n < m => n \notin T
    <3> HIDE DEF T
    <3> QED BY <2>1, <2>2
  <2>4. m # 0
    <3> DEFINE z == [i \in I |-> 0]
    <3>1. Right(z, 0)
      BY <1>1
    <3>2. 0 \notin T
      <4> HIDE DEF z, Right
      <4> QED BY <3>1
    <3> QED BY <2>2, <3>2
  <2>5. m - 1 \in Nat /\ m - 1 < m
    BY <2>3, <2>4
  <2>6. PICK f : Right(f, m - 1)
    <3>1. m - 1 \notin T
      BY <2>3, <2>5
    <3> HIDE DEF Right
    <3> QED BY <2>5, <3>1
  <2> DEFINE h == [i \in I |-> IF i = m THEN Value(f, i) ELSE f[i]]
  <2>7. Right(h, m)
    <3>1. DOMAIN h = I /\ h = [i \in I |-> h[i]]
      OBVIOUS
    <3>2. ASSUME NEW i \in I, i <= m PROVE h[i] = Value(h, i)
      <4>1. i \in Nat /\ (i # 0 => i - 1 \in I /\ i - 1 # m)
        BY <1>1, <2>3, <3>2
      <4>2. i # 0 => h[i - 1] = f[i - 1]
        BY <4>1
      <4>3. Value(h, i) = Value(f, i)
        BY <4>2
      <4>4. i # m => f[i] = Value(f, i)
        <5>1. i # m => i <= m - 1
          BY <2>3, <3>2, <4>1
        <5> QED BY <2>6, <5>1
      <4>5. h[i] = IF i = m THEN Value(f, i) ELSE f[i]
        OBVIOUS
      <4> HIDE DEF h, Value
      <4> QED BY <4>3, <4>4, <4>5
    <3> HIDE DEF h, Value
    <3> QED BY <3>1, <3>2
  <2>8. m \notin T
    <3> HIDE DEF h, Right
    <3> QED BY <2>7
  <2> QED BY <2>2, <2>8
<1>3. PICK f : Right(f, Bits)
  <2>1. Bits \in Nat
    BY <1>1
  <2>2. Bits \notin T
    BY <1>2
  <2> HIDE DEF Right
  <2> QED BY <2>1, <2>2
<1>4. f = [i \in I |-> Value(f, i)]
  <2>1. \A i \in I : f[i] = Value(f, i)
    <3>1. \A i \in I : i <= Bits
      BY <1>1
    <3> HIDE DEF I, Value
    <3> QED BY <1>3, <3>1
  <2>2. f = [i \in I |-> f[i]]
    BY <1>3
  <2> HIDE DEF Value, I
  <2> QED BY <2>1, <2>2
<1> QED BY <1>4 DEF Scans

\* b is the best of the candidates up to i, 0 if there is none: the highest priority
\* and, among equals, the lowest number.
IsBest(pp, C, b, i) ==
    \/ /\ b = 0
       /\ \A j \in C : i < j
    \/ /\ b \in C /\ b <= i
       /\ \A j \in C : j <= i => pp[b] > pp[j] \/ (pp[b] = pp[j] /\ b <= j)

\* After n bits the scan holds the best of the sources among them.
LEMMA ScanKeepsBest ==
    ASSUME NEW pp \in [Ids -> Prios], NEW C \in SUBSET Ids, NEW f, Scans(pp, C, f),
           NEW i \in 0 .. Bits
    PROVE  IsBest(pp, C, f[i], i - 1)
<1> DEFINE I == 0 .. Bits
           T == {n \in I : ~IsBest(pp, C, f[n], n - 1)}
<1>1. Bits \in Nat /\ I \subseteq Nat /\ C \subseteq Nat \ {0}
      /\ \A j \in C : j \in Ids /\ pp[j] \in Nat
  BY BitsCover, PlicAssumption DEF Ids, Prios
<1>2. \A n \in I : f[n] = IF n = 0 THEN 0 ELSE Turn(pp, C, f[n - 1], n - 1)
  BY DEF Scans
<1>3. ASSUME T # {} PROVE FALSE
  <2>1. T \subseteq Nat
    BY <1>1
  <2>2. PICK m \in T : \A n \in T : m <= n
    <3> HIDE DEF T
    <3> QED BY <1>3, <2>1, FirstOf
  <2>3. m # 0
    <3>1. IsBest(pp, C, 0, 0 - 1)
      BY <1>1 DEF IsBest
    <3>2. f[0] = 0
      BY <1>1, <1>2
    <3> QED BY <2>2, <3>1, <3>2
  <2> DEFINE b == f[m - 1]
             k == m - 1
  <2>4. m \in Nat /\ k \in Nat /\ k \in I /\ k < m
    BY <1>1, <2>2, <2>3
  <2>5. IsBest(pp, C, f[k], k - 1)
    BY <2>2, <2>4
  <2>6. f[m] = Turn(pp, C, b, k)
    BY <1>2, <2>2, <2>3
  <2>7. IsBest(pp, C, b, k - 1)
    BY <2>5
  <2>11. IsBest(pp, C, f[m], k) => FALSE
    BY <2>2
  <2> HIDE DEF b, k
  <2>8. b = 0 \/ b \in C
    BY <2>7 DEF IsBest
  <2>9. CASE k \in C /\ (b = 0 \/ pp[b] < pp[k])
    <3>1. f[m] = k
      BY <2>6, <2>9 DEF Turn
    <3>2. IsBest(pp, C, k, k)
      <4>1. ASSUME NEW j \in C, j <= k PROVE pp[k] > pp[j] \/ (pp[k] = pp[j] /\ k <= j)
        <5>1. j \in Nat /\ (j = k \/ j <= k - 1) /\ pp[j] \in Nat /\ pp[k] \in Nat
          BY <1>1, <2>4, <2>9, <4>1
        <5>2. CASE b = 0
          <6>1. b \notin C
            BY <1>1, <5>2
          <6>2. k - 1 < j
            BY <2>7, <6>1 DEF IsBest
          <6> QED BY <2>4, <5>1, <6>2
        <5>3. CASE b # 0
          <6>1. b \in C /\ (j <= k - 1 => pp[b] > pp[j] \/ pp[b] = pp[j])
            BY <2>7, <5>3 DEF IsBest
          <6>2. pp[b] \in Nat /\ pp[b] < pp[k]
            BY <1>1, <2>9, <5>3, <6>1
          <6> QED BY <2>4, <5>1, <6>1, <6>2
        <5> QED BY <5>2, <5>3
      <4>2. k \in C /\ k <= k
        BY <2>4, <2>9
      <4> QED BY <4>1, <4>2 DEF IsBest
    <3> QED BY <2>11, <3>1, <3>2
  <2>10. CASE ~(k \in C /\ (b = 0 \/ pp[b] < pp[k]))
    <3>1. f[m] = b
      BY <2>6, <2>10 DEF Turn
    <3>2. IsBest(pp, C, b, k)
      <4>1. CASE b = 0
        BY <1>1, <2>4, <2>7, <2>10, <4>1 DEF IsBest
      <4>2. CASE b # 0
        <5>1. b \in C /\ b <= k - 1
              /\ \A j \in C : j <= k - 1 => pp[b] > pp[j] \/ (pp[b] = pp[j] /\ b <= j)
          BY <2>7, <4>2 DEF IsBest
        <5>2. b \in Nat /\ pp[b] \in Nat /\ b <= k
          BY <1>1, <2>4, <5>1
        <5>3. ASSUME NEW j \in C, j <= k PROVE pp[b] > pp[j] \/ (pp[b] = pp[j] /\ b <= j)
          <6>1. j \in Nat /\ pp[j] \in Nat /\ (j = k \/ j <= k - 1)
            BY <1>1, <2>4, <5>3
          <6>2. j = k => ~(pp[b] < pp[j])
            BY <2>10, <4>2, <5>3
          <6> QED BY <5>1, <5>2, <6>1, <6>2
        <5> QED BY <5>1, <5>2, <5>3 DEF IsBest
      <4> QED BY <4>1, <4>2
    <3> QED BY <2>11, <3>1, <3>2
  <2> QED BY <2>9, <2>10
<1>4. i \notin T
  BY <1>3
<1> QED BY <1>4

\* The scan of the loop finds what context_best_pending says, for any number of
\* sources, any latched priorities and any threshold.
LEMMA ScanFindsBest == TypeOK => ScanAgrees
<1> SUFFICES ASSUME TypeOK, NEW c \in Contexts PROVE ScanBest(c) = context_best_pending(c)
  BY DEF ScanAgrees
<1> DEFINE pp == pending_priority[c]
           C == Candidates(c)
           f == CHOOSE f : Scans(pp, C, f)
           b == f[Bits]
<1>1. pp \in [Ids -> Prios] /\ C \in SUBSET Ids /\ threshold[c] \in Nat
      /\ Bits \in 0 .. Bits
  BY BitsCover DEF TypeOK, Candidates, Prios
<1>2. Scans(pp, C, f)
  BY ScansExists
<1>3. ScanBest(c) = IF b = 0 THEN 0 ELSE IF pp[b] <= threshold[c] THEN 0 ELSE b
  BY ScanBestIsScan, VisitedAreCandidates DEF Scan
<1>4. context_best_pending(c) =
        LET best == {i \in C : /\ \A j \in C : pp[i] > pp[j] \/ (pp[i] = pp[j] /\ i <= j)
                               /\ pp[i] > threshold[c]}
        IN  IF best = {} THEN 0 ELSE CHOOSE i \in best : TRUE
  BY DEF context_best_pending, Beats
<1> HIDE DEF pp, C, f
<1>5. IsBest(pp, C, b, Bits - 1)
  BY <1>1, <1>2, ScanKeepsBest
<1>6. \A j \in C : j \in Nat \ {0} /\ j <= Bits - 1 /\ pp[j] \in Nat
  BY <1>1, BitsCover, PlicAssumption DEF Ids, Prios
<1> HIDE DEF b
<1> DEFINE best == {i \in C : /\ \A j \in C : pp[i] > pp[j] \/ (pp[i] = pp[j] /\ i <= j)
                              /\ pp[i] > threshold[c]}
<1>7. CASE b = 0
  <2>1. C = {}
    BY <1>1, <1>5, <1>6, <1>7, BitsCover DEF IsBest
  <2> QED BY <1>3, <1>4, <1>7, <2>1
<1>8. CASE b # 0
  <2>1. b \in C /\ \A j \in C : pp[b] > pp[j] \/ (pp[b] = pp[j] /\ b <= j)
    BY <1>5, <1>6, <1>8 DEF IsBest
  <2>2. \A i \in best : i = b
    BY <1>6, <2>1
  <2>3. CASE pp[b] <= threshold[c]
    <3>1. best = {}
      BY <1>1, <1>6, <2>1, <2>2, <2>3
    <3>2. ScanBest(c) = 0
      BY <1>3, <1>8, <2>3
    <3> QED BY <1>4, <3>1, <3>2
  <2>4. CASE ~(pp[b] <= threshold[c])
    <3>1. b \in best
      BY <1>1, <1>6, <2>1, <2>4
    <3>2. context_best_pending(c) = CHOOSE i \in best : TRUE
      BY <1>4, <3>1
    <3>3. (CHOOSE i \in best : TRUE) = b
      <4> HIDE DEF best
      <4> QED BY <2>2, <3>1
    <3>4. ScanBest(c) = b
      BY <1>3, <1>8, <2>4
    <3> QED BY <3>2, <3>3, <3>4
  <2> QED BY <2>3, <2>4
<1> QED BY <1>7, <1>8

\* The loops of plic_t::context_best_pending are right: the skips and the two comparisons
\* return the highest latched priority above the threshold and, among equals, the
\* lowest source number, for any number of sources.
THEOREM PlicScanAgrees == Spec => []ScanAgrees
BY PlicTypeCorrect, ScanFindsBest, PTL

-----------------------------------------------------------------------------
(***************************************************************************)
(* The board.                                                              *)
(***************************************************************************)

\* Where the loop and the guest are.
LoopInv ==
    /\ current_proc \in Contexts
    /\ current_step \in 0 .. INTERLEAVE
    /\ pc \in [Contexts -> Places]
    /\ booted \in 0 .. Len(Boot)
    /\ \A h \in Contexts : pc[h] = "boot" => h = 0 /\ booted < Len(Boot)
    /\ typed \in 0 .. MaxTyped

\* The UART interrupt is enabled in one context at most, and nowhere while a hart is
\* about to enable it: one that moves it, or hart 0 before its store of ENABLE.
Routed ==
    /\ \A c \in Contexts : enable[c] \subseteq {UartId}
    /\ \A c, d \in Contexts : UartId \in enable[c] /\ UartId \in enable[d] => c = d
    /\ \A h \in Contexts : pc[h] = "route" =>
           /\ \A c \in Contexts : UartId \notin enable[c]
           /\ \A g \in Contexts : pc[g] = "route" => g = h
    /\ \A i \in 1 .. Len(Boot) : booted < i /\ Boot[i].reg = "ENABLE" =>
           \A c \in Contexts : UartId \notin enable[c] /\ pc[c] # "route"

\* The registers of the UART, and its queue within the limit.
UartType ==
    [ier : SUBSET IerBits, fcr : SUBSET FcrBits, lcr : SUBSET LcrBits, mcr : SUBSET McrBits,
     lsr : SUBSET {"DR", "TEMT", "THRE"}, iir : SUBSET IerBits, rx : Seq(0 .. MaxTyped)]

\* What every operation hands to update_interrupt.
UartReady(u) ==
    /\ u \in UartType
    /\ Len(u.rx) <= UART_QUEUE_SIZE
    /\ "DR" \in u.lsr <=> u.rx # <<>>

UartInv ==
    /\ UartReady(uart)
    /\ uart.iir = Interrupts(uart)
    /\ UartId \in level <=> Interrupts(uart) # {}
    /\ backoff \in 0 .. MAX_BACKOFF
    /\ terminal \in Seq(0 .. MaxTyped)

ClintInv ==
    /\ mtime \in Times
    /\ mtimecmp \in [Contexts -> Times]
    /\ mtip = [h \in Contexts |-> mtime >= mtimecmp[h]]

\* A timer that is being set is at its largest high half until the last store.
Top == (Half - 1) * Half

TimerInv ==
    /\ deadline \in [Contexts -> Times]
    /\ \A h \in Contexts :
        /\ pc[h] = "timer_low" => mtimecmp[h] >= Top
        /\ pc[h] = "timer_done" => mtimecmp[h] >= Top /\ mtimecmp[h] % Half = deadline[h] % Half
        /\ pc[h] \notin {"timer_low", "timer_done"} => mtimecmp[h] = deadline[h]

\* Deadlines that are not in the last half of the time there is.
BelowTop == \A d \in Deadlines : d <= Top

DeadlinesBelow == \A h \in Contexts : deadline[h] <= Top

\* The inductive invariant.
BoardInv == TypeOK /\ LoopInv /\ Routed /\ UartInv /\ ClintInv /\ TimerInv

-----------------------------------------------------------------------------
(***************************************************************************)
(* Arithmetic.                                                             *)
(***************************************************************************)

\* Division with remainder.
LEMMA Divided ==
    ASSUME NEW x \in Nat, NEW n \in Nat \ {0}
    PROVE  \E d \in Nat, e \in 0 .. n - 1 : d = x \div n /\ e = x % n /\ x = n * d + e
OBVIOUS

\* A quotient and a remainder determine each other.
LEMMA DividedOnce ==
    ASSUME NEW n \in Nat \ {0}, NEW q \in Nat, NEW r \in 0 .. n - 1, NEW x, x = n * q + r
    PROVE  x \in Nat /\ x \div n = q /\ x % n = r
<1>0. n * q \in Nat /\ x \in Nat
  OBVIOUS
<1>1. PICK d \in Nat, e \in 0 .. n - 1 : d = x \div n /\ e = x % n /\ x = n * d + e
  BY <1>0, Divided
<1>2. ASSUME NEW a \in Nat, NEW b \in Nat, a < b PROVE n * a + n <= n * b
  <2>1. PICK k \in Nat : b = a + 1 + k
    <3>1. b - a - 1 \in Nat /\ b = a + 1 + (b - a - 1)
      BY <1>2
    <3> QED BY <3>1
  <2>2. n * b = n * a + n + n * k /\ n * k \in Nat
    BY <2>1
  <2> QED BY <2>2
<1>3. d = q
  <2>1. ~(d < q)
    BY <1>1, <1>2
  <2>2. ~(q < d)
    BY <1>1, <1>2
  <2> QED BY <2>1, <2>2
<1> QED BY <1>0, <1>1, <1>3

\* A time is a high and a low half.
LEMMA TimeHalves ==
    ASSUME NEW t \in Times
    PROVE  \E d \in 0 .. Half - 1, e \in 0 .. Half - 1 :
              d = t \div Half /\ e = t % Half /\ t = Half * d + e
<1>1. Half \in Nat \ {0} /\ Half * Half \in Nat /\ t \in Nat /\ t < Half * Half
  BY ClintAssumption DEF Times
<1>2. PICK d \in Nat, e \in 0 .. Half - 1 : d = t \div Half /\ e = t % Half /\ t = Half * d + e
  BY <1>1, Divided
<1>3. d < Half
  <2>1. SUFFICES ASSUME d >= Half PROVE FALSE
    BY <1>1
  <2>2. PICK k \in Nat : d = Half + k
    <3>1. d - Half \in Nat /\ d = Half + (d - Half)
      BY <1>1, <2>1
    <3> QED BY <3>1
  <2>3. Half * d = Half * Half + Half * k /\ Half * k \in Nat
    BY <1>1, <2>2
  <2> QED BY <1>1, <1>2, <2>3
<1> QED BY <1>1, <1>2, <1>3

\* Two halves are a time, the larger the larger its high half.
LEMMA HalvesTime ==
    ASSUME NEW d \in 0 .. Half - 1, NEW e \in 0 .. Half - 1, NEW t, t = d * Half + e
    PROVE  /\ t \in Times /\ t \div Half = d /\ t % Half = e
           /\ d = Half - 1 => t >= Top
<1>1. Half \in Nat \ {0} /\ d \in Nat /\ e \in Nat /\ e < Half
  BY ClintAssumption
<1>2. d * Half = Half * d /\ d * Half \in Nat
  BY <1>1
<1>3. t \in Nat /\ t \div Half = d /\ t % Half = e
  BY <1>1, <1>2, DividedOnce
<1>4. d * Half + Half <= Half * Half
  <2>1. PICK k \in Nat : Half = d + 1 + k
    <3>1. Half - d - 1 \in Nat /\ Half = d + 1 + (Half - d - 1)
      BY <1>1
    <3> QED BY <3>1
  <2>2. Half * Half = d * Half + Half + k * Half /\ k * Half \in Nat
    BY <1>1, <2>1
  <2> QED BY <1>1, <1>2, <2>2
<1>5. t \in Times
  BY <1>1, <1>2, <1>3, <1>4 DEF Times
<1> QED BY <1>1, <1>2, <1>3, <1>5 DEF Top

\* The top of time is where the largest high half begins.
LEMMA AboveTop ==
    ASSUME NEW t \in Times, t >= Top
    PROVE  t \div Half = Half - 1
<1>1. PICK d \in 0 .. Half - 1, e \in 0 .. Half - 1 :
          d = t \div Half /\ e = t % Half /\ t = Half * d + e
  BY TimeHalves
<1>2. Half \in Nat \ {0}
  BY ClintAssumption
<1>3. SUFFICES ASSUME d < Half - 1 PROVE FALSE
  BY <1>1, <1>2
<1>4. PICK k \in Nat : Half - 1 = d + 1 + k
  <2>1. Half - 1 - d - 1 \in Nat /\ Half - 1 = d + 1 + (Half - 1 - d - 1)
    BY <1>2, <1>3
  <2> QED BY <2>1
<1>5. Top = Half * d + Half + Half * k /\ Half * k \in Nat
  BY <1>2, <1>4 DEF Top
<1> QED BY <1>1, <1>2, <1>5

\* A store to the low half.
LEMMA LowStored ==
    ASSUME NEW r \in Times, NEW v \in 0 .. Half - 1
    PROVE  /\ WithLow(r, v) \in Times /\ WithLow(r, v) % Half = v
           /\ r >= Top => WithLow(r, v) >= Top
<1>1. PICK d \in 0 .. Half - 1, e \in 0 .. Half - 1 :
          d = r \div Half /\ e = r % Half /\ r = Half * d + e
  BY TimeHalves
<1>2. WithLow(r, v) = d * Half + v
  BY <1>1 DEF WithLow
<1>3. r >= Top => d = Half - 1
  BY <1>1, AboveTop
<1> QED BY <1>2, <1>3, HalvesTime

\* A store to the high half.
LEMMA HighStored ==
    ASSUME NEW r \in Times, NEW v \in 0 .. Half - 1
    PROVE  /\ WithHigh(r, v) \in Times
           /\ v = Half - 1 => WithHigh(r, v) >= Top
           /\ \A t \in Times : v = t \div Half /\ r % Half = t % Half => WithHigh(r, v) = t
<1>1. PICK d \in 0 .. Half - 1, e \in 0 .. Half - 1 :
          d = r \div Half /\ e = r % Half /\ r = Half * d + e
  BY TimeHalves
<1>2. WithHigh(r, v) = v * Half + e
  BY <1>1 DEF WithHigh
<1>3. WithHigh(r, v) \in Times /\ (v = Half - 1 => WithHigh(r, v) >= Top)
  BY <1>2, HalvesTime
<1>4. ASSUME NEW t \in Times, v = t \div Half, r % Half = t % Half
      PROVE  WithHigh(r, v) = t
  <2>1. PICK f \in 0 .. Half - 1, g \in 0 .. Half - 1 :
            f = t \div Half /\ g = t % Half /\ t = Half * f + g
    BY TimeHalves
  <2>2. f = v /\ g = e
    BY <1>1, <1>4, <2>1
  <2> QED BY <1>2, <2>1, <2>2, ClintAssumption
<1> QED BY <1>3, <1>4

\* The UART's source is in the word that its number says.
LEMMA UartWord == /\ UartId \div WordBits \in Words
                  /\ UartId \in Word(UartId \div WordBits)
<1> DEFINE n == NumIds + WordBits - 1
<1>1. /\ UartId \in Nat /\ UartId + WordBits <= n /\ n \in Nat /\ WordBits \in Nat \ {0}
      /\ UartId \in Ids
  BY PlicAssumption, UartAssumption DEF Ids
<1>2. PICK q \in Nat, r \in 0 .. WordBits - 1 :
          q = UartId \div WordBits /\ UartId = WordBits * q + r
  BY <1>1, Divided
<1>3. PICK a \in Nat, b \in 0 .. WordBits - 1 : a = n \div WordBits /\ n = WordBits * a + b
  <2> HIDE DEF n
  <2> QED BY <1>1, Divided
<1>4. q < a
  <2>1. SUFFICES ASSUME a <= q PROVE FALSE
    OBVIOUS
  <2>2. PICK k \in Nat : q = a + k
    <3>1. q - a \in Nat /\ q = a + (q - a)
      BY <2>1
    <3> QED BY <3>1
  <2>3. WordBits * q = WordBits * a + WordBits * k /\ WordBits * k \in Nat
    BY <1>1, <2>2
  <2>4. WordBits * a \in Nat
    BY <1>1
  <2> HIDE DEF n
  <2> QED BY <1>1, <1>2, <1>3, <2>3, <2>4
<1>5. UartId \div WordBits \in 0 .. a - 1
  BY <1>2, <1>4
<1> QED BY <1>1, <1>3, <1>5 DEF Words, NumWords, Word

-----------------------------------------------------------------------------
(***************************************************************************)
(* The UART.                                                               *)
(***************************************************************************)

\* A step of the PLIC that routes nothing anew.
PlicKept == [Next]_vars /\ enable' = enable

\* The clear bits empty the queue together with the data-ready bit.
LEMMA ClearedReady ==
    ASSUME NEW u, UartReady(u), NEW c, c = Cleared(u)
    PROVE  UartReady(c)
<1> DEFINE rcvr == "CLEAR_RCVR" \in u.lcr
           xmit == "CLEAR_XMIT" \in u.lcr
           lcr == u.lcr \ {"CLEAR_RCVR", "CLEAR_XMIT"}
           rx == IF rcvr THEN <<>> ELSE u.rx
           lsr == (IF rcvr THEN u.lsr \ {"DR"} ELSE u.lsr) \cup (IF xmit THEN Empty ELSE {})
<1>1. c = [u EXCEPT !.lcr = lcr, !.rx = rx, !.lsr = lsr]
  BY DEF Cleared
<1>2. /\ u \in UartType /\ u.rx \in Seq(0 .. MaxTyped) /\ Len(u.rx) <= UART_QUEUE_SIZE
      /\ u.lsr \subseteq {"DR", "TEMT", "THRE"} /\ u.lcr \subseteq LcrBits
      /\ ("DR" \in u.lsr <=> u.rx # <<>>)
  BY DEF UartReady, UartType
<1>3. <<>> \in Seq(0 .. MaxTyped) /\ Len(<<>>) = 0 /\ UART_QUEUE_SIZE \in Nat
  BY UartAssumption
<1>4. rx \in Seq(0 .. MaxTyped) /\ Len(rx) <= UART_QUEUE_SIZE
  <2>1. CASE rcvr
    BY <1>3, <2>1
  <2>2. CASE ~rcvr
    BY <1>2, <2>2
  <2> QED BY <2>1, <2>2
<1>5. lsr \subseteq {"DR", "TEMT", "THRE"} /\ ("DR" \in lsr <=> rx # <<>>)
  BY <1>2 DEF Empty
<1>6. lcr \subseteq LcrBits
  BY <1>2
<1> HIDE DEF rx, lsr, lcr
<1>7. c \in UartType /\ c.rx = rx /\ c.lsr = lsr
  BY <1>1, <1>2, <1>4, <1>5, <1>6 DEF UartType
<1> QED BY <1>4, <1>5, <1>7 DEF UartReady

\* update_interrupt leaves the registers, the identification and the wire in agreement.
LEMMA UpdateAgrees ==
    ASSUME TypeOK, NEW u, UartReady(u), update_interrupt(u)
    PROVE  /\ UartReady(uart') /\ uart'.iir = Interrupts(uart')
           /\ (UartId \in level' <=> Interrupts(uart') # {})
           /\ PlicKept
<1> DEFINE c == Cleared(u)
           i == Interrupts(c)
           lsr == IF "THRI" \in c.ier THEN c.lsr ELSE c.lsr \cup Empty
<1>1. uart' = [c EXCEPT !.iir = i, !.lsr = lsr] /\ set_interrupt_level(UartId, i # {})
  BY DEF update_interrupt
<1>2. UartReady(c)
  BY ClearedReady
<1> HIDE DEF c
<1>3. c \in UartType /\ c.lsr \subseteq {"DR", "TEMT", "THRE"}
  BY <1>2 DEF UartReady, UartType
<1>4. i \subseteq IerBits
  BY DEF Interrupts, IerBits
<1>5. lsr \subseteq {"DR", "TEMT", "THRE"} /\ ("DR" \in lsr <=> "DR" \in c.lsr)
  BY <1>3 DEF Empty
<1>6. "THRI" \in c.ier => lsr = c.lsr
  OBVIOUS
<1> HIDE DEF lsr
<1>7. i = {k \in {"RDI", "THRI"} : /\ k \in c.ier
                                   /\ k = "RDI" => "DR" \in c.lsr
                                   /\ k = "THRI" => "TEMT" \in c.lsr}
  BY DEF Interrupts
<1> HIDE DEF i
<1>8. uart' \in UartType /\ uart'.ier = c.ier /\ uart'.rx = c.rx
      /\ uart'.lsr = lsr /\ uart'.iir = i
  BY <1>1, <1>3, <1>4, <1>5 DEF UartType
<1>9. Interrupts(uart') = i
  BY <1>5, <1>6, <1>7, <1>8 DEF Interrupts
<1>10. UartReady(uart')
  BY <1>2, <1>5, <1>8 DEF UartReady
<1>11. UartId \in Ids /\ (i # {}) \in BOOLEAN
  BY UartAssumption
<1>12. UartId \in level' <=> i # {}
  BY <1>1 DEF set_interrupt_level
<1>13. PlicKept
  BY <1>1, <1>11 DEF PlicKept, Next, set_interrupt_level
<1> QED BY <1>8, <1>9, <1>10, <1>12, <1>13

\* A byte for a queue with room.
LEMMA ReceivedReady ==
    ASSUME UartReady(uart), Len(uart.rx) < UART_QUEUE_SIZE, NEW b \in 0 .. MaxTyped,
           NEW u, u = Received(uart, b)
    PROVE  UartReady(u)
<1> DEFINE rx == Append(uart.rx, b)
           lsr == uart.lsr \cup {"DR"}
<1>1. /\ uart \in UartType /\ uart.rx \in Seq(0 .. MaxTyped)
      /\ uart.lsr \subseteq {"DR", "TEMT", "THRE"} /\ Len(uart.rx) \in Nat
  BY LenProperties DEF UartReady, UartType
<1>2. /\ rx \in Seq(0 .. MaxTyped) /\ Len(rx) = Len(uart.rx) + 1 /\ rx # <<>>
  <2>1. rx \in Seq(0 .. MaxTyped) /\ Len(rx) = Len(uart.rx) + 1
    BY <1>1, AppendProperties
  <2> QED BY <1>1, <2>1
<1>3. u = [uart EXCEPT !.rx = rx, !.lsr = lsr]
  BY DEF Received
<1>4. lsr \subseteq {"DR", "TEMT", "THRE"} /\ "DR" \in lsr
  BY <1>1
<1> HIDE DEF rx, lsr
<1>5. u \in UartType /\ u.rx = rx /\ u.lsr = lsr
  BY <1>1, <1>2, <1>3, <1>4 DEF UartType
<1> QED BY <1>1, <1>2, <1>4, <1>5, UartAssumption DEF UartReady

\* A load takes the oldest byte, and data ready with the last one.
LEMMA RxReady ==
    ASSUME UartReady(uart), NEW u, u = rx_byte
    PROVE  UartReady(u)
<1>1. /\ uart \in UartType /\ uart.rx \in Seq(0 .. MaxTyped)
      /\ uart.lsr \subseteq {"DR", "TEMT", "THRE"} /\ Len(uart.rx) \in Nat
      /\ Len(uart.rx) <= UART_QUEUE_SIZE
  BY LenProperties DEF UartReady, UartType
<1>2. CASE uart.rx = <<>>
  <2> DEFINE lsr == uart.lsr \ {"DR"}
  <2>1. u = [uart EXCEPT !.lsr = lsr]
    BY <1>2 DEF rx_byte
  <2>2. lsr \subseteq {"DR", "TEMT", "THRE"} /\ "DR" \notin lsr
    BY <1>1
  <2> HIDE DEF lsr
  <2>3. u \in UartType /\ u.rx = uart.rx /\ u.lsr = lsr
    BY <1>1, <2>1, <2>2 DEF UartType
  <2> QED BY <1>1, <1>2, <2>2, <2>3 DEF UartReady
<1>3. CASE uart.rx # <<>>
  <2> DEFINE rx == Tail(uart.rx)
             lsr == IF Len(uart.rx) = 1 THEN uart.lsr \ {"DR"} ELSE uart.lsr
  <2>1. u = [uart EXCEPT !.rx = rx, !.lsr = lsr]
    BY <1>3 DEF rx_byte
  <2>2. rx \in Seq(0 .. MaxTyped) /\ Len(rx) = Len(uart.rx) - 1
    BY <1>1, <1>3, HeadTailProperties
  <2>3. rx = <<>> <=> Len(uart.rx) = 1
    <3> HIDE DEF rx
    <3>1. rx = <<>> <=> Len(rx) = 0
      BY <2>2, EmptySeq
    <3> QED BY <1>1, <2>2, <3>1
  <2>4. lsr \subseteq {"DR", "TEMT", "THRE"} /\ ("DR" \in lsr <=> rx # <<>>)
    <3>1. "DR" \in uart.lsr
      BY <1>3 DEF UartReady
    <3> QED BY <1>1, <2>3, <3>1
  <2> HIDE DEF rx, lsr
  <2>5. u \in UartType /\ u.rx = rx /\ u.lsr = lsr
    BY <1>1, <2>1, <2>2, <2>4 DEF UartType
  <2>6. Len(rx) <= UART_QUEUE_SIZE
    BY <1>1, <2>2, UartAssumption
  <2> QED BY <2>4, <2>5, <2>6 DEF UartReady
<1> QED BY <1>2, <1>3

\* An access to a register keeps the agreement.
LEMMA LoadKeeps ==
    ASSUME TypeOK, UartInv, uart_load_rx
    PROVE  UartInv' /\ PlicKept
<1>1. UartReady(IF "DLAB" \in uart.lcr THEN uart ELSE rx_byte)
  BY RxReady DEF UartInv
<1>2. /\ update_interrupt(IF "DLAB" \in uart.lcr THEN uart ELSE rx_byte)
      /\ backoff' = backoff /\ terminal' = terminal
  BY DEF uart_load_rx
<1>3. /\ UartReady(uart') /\ uart'.iir = Interrupts(uart')
      /\ (UartId \in level' <=> Interrupts(uart') # {}) /\ PlicKept
  BY <1>1, <1>2, UpdateAgrees
<1> QED BY <1>2, <1>3 DEF UartInv

\* What a register may be given.
Storable(reg, v) ==
    \/ reg = "TX" /\ v = 0
    \/ reg = "IER" /\ v \subseteq IerBits
    \/ reg = "FCR" /\ v \subseteq FcrBits
    \/ reg = "LCR" /\ v \subseteq LcrBits
    \/ reg = "MCR" /\ v \subseteq McrBits

\* A store ends in update_interrupt, with one byte more in the queue or as many.
LEMMA StoreUpdates ==
    ASSUME UartInv, NEW reg, NEW v, Storable(reg, v), uart_store(reg, v)
    PROVE  \E u : /\ UartReady(u) /\ update_interrupt(u)
                  /\ u.rx = uart.rx \/ u.rx = Append(uart.rx, 0)
<1>1. UartReady(uart) /\ uart \in UartType /\ uart.lsr \subseteq {"DR", "TEMT", "THRE"}
  BY DEF UartInv, UartReady, UartType
<1>2. 0 \in 0 .. MaxTyped
  BY PlatformAssumption
<1>3. CASE reg = "TX"
  <2> DEFINE x == CASE "DLAB" \in uart.lcr -> uart
                    [] "DLAB" \notin uart.lcr /\ "LOOP" \in uart.mcr ->
                          IF Len(uart.rx) < UART_QUEUE_SIZE THEN Received(uart, v) ELSE uart
                    [] OTHER -> [uart EXCEPT !.lsr = @ \cup Empty]
  <2>1. update_interrupt(x) /\ v = 0
    BY <1>3 DEF uart_store, Storable
  <2>2. \/ x = uart
        \/ Len(uart.rx) < UART_QUEUE_SIZE /\ x = Received(uart, v)
        \/ x = [uart EXCEPT !.lsr = @ \cup Empty]
    OBVIOUS
  <2> HIDE DEF x
  <2>3. CASE x = uart
    BY <1>1, <2>1, <2>3
  <2>4. CASE Len(uart.rx) < UART_QUEUE_SIZE /\ x = Received(uart, v)
    <3>1. UartReady(x)
      BY <1>1, <1>2, <2>1, <2>4, ReceivedReady
    <3>2. x.rx = Append(uart.rx, 0)
      BY <1>1, <2>1, <2>4 DEF Received, UartType
    <3> QED BY <2>1, <3>1, <3>2
  <2>5. CASE x = [uart EXCEPT !.lsr = @ \cup Empty]
    <3> DEFINE lsr == uart.lsr \cup Empty
    <3>1. lsr \subseteq {"DR", "TEMT", "THRE"} /\ ("DR" \in lsr <=> "DR" \in uart.lsr)
      BY <1>1 DEF Empty
    <3>2. x = [uart EXCEPT !.lsr = lsr]
      BY <2>5
    <3> HIDE DEF lsr
    <3>3. x \in UartType /\ x.rx = uart.rx /\ x.lsr = lsr
      BY <1>1, <3>1, <3>2 DEF UartType
    <3>4. UartReady(x)
      BY <1>1, <3>1, <3>3 DEF UartReady
    <3> QED BY <2>1, <3>3, <3>4
  <2> QED BY <2>2, <2>3, <2>4, <2>5
<1>4. CASE reg = "IER"
  <2> DEFINE x == IF "DLAB" \in uart.lcr THEN uart ELSE [uart EXCEPT !.ier = v]
  <2>1. update_interrupt(x)
    BY <1>4 DEF uart_store
  <2>2. x \in UartType /\ x.rx = uart.rx /\ x.lsr = uart.lsr
    BY <1>1, <1>4 DEF UartType, Storable
  <2> QED BY <1>1, <2>1, <2>2 DEF UartReady
<1>5. CASE reg = "FCR"
  <2> DEFINE x == [uart EXCEPT !.fcr = v]
  <2>1. update_interrupt(x)
    BY <1>5 DEF uart_store
  <2>2. x \in UartType /\ x.rx = uart.rx /\ x.lsr = uart.lsr
    BY <1>1, <1>5 DEF UartType, Storable
  <2> QED BY <1>1, <2>1, <2>2 DEF UartReady
<1>6. CASE reg = "LCR"
  <2> DEFINE x == [uart EXCEPT !.lcr = v]
  <2>1. update_interrupt(x)
    BY <1>6 DEF uart_store
  <2>2. x \in UartType /\ x.rx = uart.rx /\ x.lsr = uart.lsr
    BY <1>1, <1>6 DEF UartType, Storable
  <2> QED BY <1>1, <2>1, <2>2 DEF UartReady
<1>7. CASE reg = "MCR"
  <2> DEFINE x == [uart EXCEPT !.mcr = v]
  <2>1. update_interrupt(x)
    BY <1>7 DEF uart_store
  <2>2. x \in UartType /\ x.rx = uart.rx /\ x.lsr = uart.lsr
    BY <1>1, <1>7 DEF UartType, Storable
  <2> QED BY <1>1, <2>1, <2>2 DEF UartReady
<1> QED BY <1>3, <1>4, <1>5, <1>6, <1>7 DEF Storable

\* A store of what the register holds keeps the agreement.
LEMMA StoreKeeps ==
    ASSUME TypeOK, UartInv, NEW reg, NEW v, Storable(reg, v), uart_store(reg, v)
    PROVE  UartInv' /\ PlicKept
<1>1. PICK u : UartReady(u) /\ update_interrupt(u)
  BY StoreUpdates
<1>2. /\ UartReady(uart') /\ uart'.iir = Interrupts(uart')
      /\ (UartId \in level' <=> Interrupts(uart') # {}) /\ PlicKept
  BY <1>1, UpdateAgrees
<1>3. backoff' = backoff /\ terminal' = terminal
  BY DEF uart_store
<1> QED BY <1>2, <1>3 DEF UartInv

\* A tick takes a byte only when the queue has room for it.
LEMMA TickKeeps ==
    ASSUME TypeOK, UartInv, uart_tick
    PROVE  UartInv' /\ PlicKept
<1>1. /\ backoff \in 0 .. MAX_BACKOFF /\ MAX_BACKOFF \in Nat \ {0} /\ UART_QUEUE_SIZE \in Nat
      /\ terminal \in Seq(0 .. MaxTyped)
  BY UartAssumption DEF UartInv
<1>2. Len(uart.rx) \in Nat
  BY LenProperties DEF UartInv, UartReady, UartType
<1>3. CASE /\ UNCHANGED <<uart, terminal, cleared, vars>>
           /\ backoff' \in 0 .. MAX_BACKOFF
  <2>1. uart' = uart /\ terminal' = terminal /\ level' = level /\ enable' = enable
        /\ UNCHANGED vars
    BY <1>3 DEF vars, ctxVars
  <2>2. UartInv'
    BY <1>1, <1>3, <2>1 DEF UartInv
  <2> QED BY <2>1, <2>2 DEF PlicKept
<1>4. CASE /\ Len(uart.rx) < UART_QUEUE_SIZE /\ terminal # <<>>
           /\ backoff' = 0 /\ terminal' = Tail(terminal)
           /\ update_interrupt(Received(uart, Head(terminal)))
  <2>1. Head(terminal) \in 0 .. MaxTyped /\ Tail(terminal) \in Seq(0 .. MaxTyped)
    BY <1>1, <1>4, HeadTailProperties
  <2>2. UartReady(Received(uart, Head(terminal)))
    BY <1>4, <2>1, ReceivedReady DEF UartInv
  <2>3. /\ UartReady(uart') /\ uart'.iir = Interrupts(uart')
        /\ (UartId \in level' <=> Interrupts(uart') # {}) /\ PlicKept
    BY <1>4, <2>2, UpdateAgrees
  <2> QED BY <1>1, <1>4, <2>1, <2>3 DEF UartInv
<1> QED BY <1>1, <1>2, <1>3, <1>4 DEF uart_tick, uartVars

-----------------------------------------------------------------------------
(***************************************************************************)
(* The CLINT.                                                              *)
(***************************************************************************)

\* clint_t::tick recomputes every MTIP from the two times.
LEMMA ClintTick ==
    ASSUME NEW t \in Times, NEW cmp \in [Contexts -> Times], clint_tick(t, cmp)
    PROVE  ClintInv' /\ mtimecmp' = cmp
<1>1. ClintHarts = Contexts
  BY PlatformAssumption
<1>2. mtime' = t /\ mtimecmp' = cmp /\ mtip' = [h \in Contexts |-> t >= cmp[h]]
  BY <1>1 DEF clint_tick, Reached
<1> QED BY <1>2, Zenon DEF ClintInv

\* Time goes on, and wraps.
LEMMA AdvanceKeeps ==
    ASSUME ClintInv, NEW n \in Nat, clint_advance(n)
    PROVE  ClintInv' /\ mtimecmp' = mtimecmp
<1> DEFINE all == Half * Half
<1>1. all \in Nat \ {0}
  BY ClintAssumption
<1>2. mtime \in Nat /\ mtime < all /\ Times = 0 .. all - 1
  BY <1>1 DEF ClintInv, Times
<1>3. clint_tick((mtime + n) % all, mtimecmp)
  BY DEF clint_advance
<1> HIDE DEF all
<1>4. (mtime + n) % all \in Times
  BY <1>1, <1>2
<1> QED BY <1>3, <1>4, ClintTick DEF ClintInv

\* A store to a hart's mtimecmp.
LEMMA CompareKeeps ==
    ASSUME ClintInv, NEW h \in Contexts, NEW v \in Times, clint_store_mtimecmp(h, v)
    PROVE  ClintInv' /\ mtimecmp' = [mtimecmp EXCEPT ![h] = v]
<1>1. [mtimecmp EXCEPT ![h] = v] \in [Contexts -> Times] /\ mtime \in Times
  BY DEF ClintInv
<1> QED BY <1>1, ClintTick DEF clint_store_mtimecmp

-----------------------------------------------------------------------------
(***************************************************************************)
(* Where the guest is.                                                     *)
(***************************************************************************)

\* Places that are in the middle of something.
Midway == {"boot", "route", "timer_low", "timer_done"}

\* A step of the loop, or of a hart that is not in the middle of something and does
\* not start anything of the kind.
Ordinary ==
    /\ \/ pc' = pc
       \/ /\ pc[current_proc] \notin Midway
          /\ \E p \in Places \ Midway : pc' = [pc EXCEPT ![current_proc] = p]
    /\ current_proc' \in Contexts
    /\ current_step' \in 0 .. INTERLEAVE
    /\ booted' = booted
    /\ typed' \in 0 .. MaxTyped
    /\ deadline' = deadline
    /\ mtimecmp' = mtimecmp
    /\ enable' = enable

\* Such a step leaves the routing and the timers as they are.
LEMMA OrdinaryKeeps ==
    ASSUME LoopInv, Routed, TimerInv, Ordinary
    PROVE  LoopInv' /\ Routed' /\ TimerInv'
<1>1. /\ pc \in [Contexts -> Places] /\ current_proc \in Contexts
      /\ pc' \in [Contexts -> Places]
      /\ \A h \in Contexts : pc'[h] = pc[h] \/ (pc[h] \notin Midway /\ pc'[h] \notin Midway)
  BY DEF LoopInv, Ordinary
<1>2. \A h \in Contexts :
        /\ pc'[h] = "boot" => pc[h] = "boot"
        /\ pc'[h] = "route" => pc[h] = "route"
        /\ pc'[h] = "timer_low" => pc[h] = "timer_low"
        /\ pc'[h] = "timer_done" => pc[h] = "timer_done"
        /\ pc'[h] \notin {"timer_low", "timer_done"} => pc[h] \notin {"timer_low", "timer_done"}
  BY <1>1 DEF Midway
<1>3. LoopInv'
  BY <1>1, <1>2 DEF LoopInv, Ordinary
<1>4. Routed'
  <2>1. enable' = enable /\ booted' = booted
    BY DEF Ordinary
  <2>2. /\ \A c \in Contexts : enable[c] \subseteq {UartId}
        /\ \A c, d \in Contexts : UartId \in enable[c] /\ UartId \in enable[d] => c = d
    BY DEF Routed
  <2>3. \A h \in Contexts : pc'[h] = "route" =>
           /\ \A c \in Contexts : UartId \notin enable[c]
           /\ \A g \in Contexts : pc'[g] = "route" => g = h
    BY <1>2 DEF Routed
  <2>4. \A i \in 1 .. Len(Boot) : booted < i /\ Boot[i].reg = "ENABLE" =>
           \A c \in Contexts : UartId \notin enable[c] /\ pc'[c] # "route"
    BY <1>2 DEF Routed
  <2> QED BY <2>1, <2>2, <2>3, <2>4 DEF Routed
<1>5. TimerInv'
  <2>1. deadline' = deadline /\ mtimecmp' = mtimecmp
    BY DEF Ordinary
  <2>2. deadline \in [Contexts -> Times]
    BY DEF TimerInv
  <2>3. \A h \in Contexts :
          /\ pc'[h] = "timer_low" => mtimecmp[h] >= Top
          /\ pc'[h] = "timer_done" =>
                mtimecmp[h] >= Top /\ mtimecmp[h] % Half = deadline[h] % Half
          /\ pc'[h] \notin {"timer_low", "timer_done"} => mtimecmp[h] = deadline[h]
    BY <1>2 DEF TimerInv
  <2> QED BY <2>1, <2>2, <2>3 DEF TimerInv
<1> QED BY <1>3, <1>4, <1>5

\* What every step has to keep.
BoardKept == BoardInv' /\ [Next]_vars

\* An ordinary step that keeps the devices keeps the invariant.
LEMMA OrdinaryBoard ==
    ASSUME BoardInv, Ordinary, UartInv', ClintInv', PlicKept
    PROVE  BoardKept
<1>1. TypeOK'
  BY TypeStep DEF BoardInv, PlicKept
<1>2. LoopInv' /\ Routed' /\ TimerInv'
  BY OrdinaryKeeps DEF BoardInv
<1> QED BY <1>1, <1>2 DEF BoardKept, BoardInv, PlicKept

\* A step that no device takes part in.
LEMMA QuietDevices ==
    ASSUME BoardInv, UNCHANGED vars
    PROVE  /\ PlicKept /\ enable' = enable /\ level' = level
           /\ UNCHANGED uartVars => UartInv'
           /\ UNCHANGED clintVars => ClintInv' /\ mtimecmp' = mtimecmp
<1>1. enable' = enable /\ level' = level /\ PlicKept
  BY DEF vars, ctxVars, PlicKept
<1>2. ASSUME UNCHANGED uartVars PROVE UartInv'
  BY <1>1, <1>2 DEF BoardInv, UartInv, uartVars
<1>3. ASSUME UNCHANGED clintVars PROVE ClintInv' /\ mtimecmp' = mtimecmp
  BY <1>3 DEF BoardInv, ClintInv, clintVars
<1> QED BY <1>1, <1>2, <1>3

\* The PLIC alone: its operations leave the wires alone.
LEMMA QuietUart ==
    ASSUME BoardInv, PlicOnly, level' = level
    PROVE  UartInv' /\ ClintInv' /\ mtimecmp' = mtimecmp
BY DEF BoardInv, UartInv, ClintInv, PlicOnly, uartVars, clintVars

\* One instruction, to an ordinary place from one.
LEMMA InstructionOrdinary ==
    ASSUME BoardInv, NEW p \in Places \ Midway, Instruction(p), pc[current_proc] \notin Midway,
           booted' = booted, typed' = typed, deadline' = deadline, mtimecmp' = mtimecmp,
           enable' = enable
    PROVE  Ordinary
<1>1. current_step + 1 \in 0 .. INTERLEAVE
  BY PlatformAssumption DEF BoardInv, LoopInv, Instruction, InTurn
<1> QED BY <1>1 DEF BoardInv, LoopInv, Instruction, Ordinary, h0

-----------------------------------------------------------------------------
(***************************************************************************)
(* The loop.                                                               *)
(***************************************************************************)

\* NoDevice is what its name says.
LEMMA NoDeviceKeeps ==
    ASSUME BoardInv, NoDevice
    PROVE  PlicKept /\ UartInv' /\ ClintInv' /\ mtimecmp' = mtimecmp /\ enable' = enable
BY QuietDevices DEF NoDevice

\* An interrupt that is taken leads to its handler and uses the turn up.
LEMMA TakeKeeps == BoardInv /\ take_pending_interrupt => BoardKept
<1> SUFFICES ASSUME BoardInv, take_pending_interrupt PROVE BoardKept
  OBVIOUS
<1>1. PlicKept /\ UartInv' /\ ClintInv' /\ mtimecmp' = mtimecmp /\ enable' = enable
  BY NoDeviceKeeps DEF take_pending_interrupt
<1>2. \A i \in Pending(h0) : Handler(i) \in Places \ Midway
  BY DEF Pending, Handler, Places, Midway
<1>3. \/ pc' = pc /\ current_step' = current_step
      \/ /\ pc[current_proc] = "main" /\ current_step' = INTERLEAVE
         /\ \E i \in Pending(h0) : pc' = [pc EXCEPT ![current_proc] = Handler(i)]
  BY DEF take_pending_interrupt, h0
<1>4. /\ current_proc' = current_proc /\ booted' = booted /\ typed' = typed
      /\ deadline' = deadline
  BY DEF take_pending_interrupt
<1>5. /\ current_proc \in Contexts /\ current_step \in 0 .. INTERLEAVE /\ INTERLEAVE \in Nat
      /\ typed \in 0 .. MaxTyped
  BY PlatformAssumption DEF BoardInv, LoopInv
<1>6. Ordinary
  BY <1>1, <1>2, <1>3, <1>4, <1>5 DEF Ordinary, Midway
<1> QED BY <1>1, <1>6, OrdinaryBoard

\* A waiting hart gives its turn up; one that starts to wait does too.
LEMMA WaitKeeps == BoardInv /\ (wait_for_interrupt \/ main_wfi) => BoardKept
<1> SUFFICES ASSUME BoardInv, wait_for_interrupt \/ main_wfi PROVE BoardKept
  OBVIOUS
<1>1. PlicKept /\ UartInv' /\ ClintInv' /\ mtimecmp' = mtimecmp /\ enable' = enable
  BY NoDeviceKeeps DEF wait_for_interrupt, main_wfi
<1>2. /\ current_proc' = current_proc /\ booted' = booted /\ typed' = typed
      /\ deadline' = deadline /\ pc' = pc /\ current_step' = INTERLEAVE
  BY DEF wait_for_interrupt, main_wfi
<1>3. Ordinary
  BY <1>1, <1>2, PlatformAssumption DEF Ordinary, BoardInv, LoopInv
<1> QED BY <1>1, <1>3, OrdinaryBoard

\* The next hart's turn; after the last one the devices tick.
LEMMA EndKeeps == BoardInv /\ end_of_turn => BoardKept
<1> SUFFICES ASSUME BoardInv, end_of_turn PROVE BoardKept
  OBVIOUS
<1>1. PlicKept /\ UartInv' /\ ClintInv' /\ mtimecmp' = mtimecmp
  <2>1. CASE current_proc' = 0
    <3>1. clint_advance(rtc_ticks) /\ uart_tick
      BY <2>1 DEF end_of_turn
    <3>2. UartInv' /\ PlicKept
      BY <3>1, TickKeeps DEF BoardInv
    <3>3. ClintInv' /\ mtimecmp' = mtimecmp
      BY <3>1, AdvanceKeeps, PlatformAssumption DEF BoardInv
    <3> QED BY <3>2, <3>3
  <2>2. CASE current_proc' # 0
    BY <2>2, NoDeviceKeeps DEF end_of_turn
  <2> QED BY <2>1, <2>2
<1>2. /\ current_step' = 0 /\ current_proc' = (current_proc + 1) % NumContexts
      /\ booted' = booted /\ typed' = typed /\ deadline' = deadline /\ pc' = pc
  BY DEF end_of_turn, guestVars
<1>3. current_proc' \in Contexts
  BY <1>2, PlicAssumption DEF BoardInv, LoopInv, Contexts
<1>4. Ordinary
  BY <1>1, <1>2, <1>3, PlatformAssumption DEF Ordinary, BoardInv, LoopInv, PlicKept
<1> QED BY <1>1, <1>4, OrdinaryBoard

\* A character for the terminal.
LEMMA TypeKeeps == BoardInv /\ type => BoardKept
<1> SUFFICES ASSUME BoardInv, type PROVE BoardKept
  OBVIOUS
<1>1. /\ typed < MaxTyped /\ typed' = typed + 1 /\ terminal' = Append(terminal, typed + 1)
      /\ UNCHANGED vars /\ uart' = uart /\ backoff' = backoff /\ UNCHANGED clintVars
      /\ current_proc' = current_proc /\ current_step' = current_step
      /\ pc' = pc /\ booted' = booted /\ deadline' = deadline
  BY DEF type, loopVars, guestVars
<1>2. PlicKept /\ enable' = enable /\ level' = level /\ ClintInv' /\ mtimecmp' = mtimecmp
  BY <1>1, QuietDevices
<1>3. typed + 1 \in 0 .. MaxTyped
  BY <1>1, PlatformAssumption DEF BoardInv, LoopInv
<1>4. terminal' \in Seq(0 .. MaxTyped)
  BY <1>1, <1>3, AppendProperties DEF BoardInv, UartInv
<1>5. UartInv'
  BY <1>1, <1>2, <1>4 DEF BoardInv, UartInv
<1>6. Ordinary
  BY <1>1, <1>2, <1>3 DEF Ordinary, BoardInv, LoopInv
<1> QED BY <1>2, <1>5, <1>6, OrdinaryBoard

-----------------------------------------------------------------------------
(***************************************************************************)
(* The guest.                                                              *)
(***************************************************************************)

\* Loads and stores of the CLINT that leave mtimecmp alone.
LEMMA ClintAccessKeeps ==
    BoardInv /\ (main_work \/ main_set_time \/ main_kick \/ handle_kick) => BoardKept
<1> SUFFICES ASSUME BoardInv, main_work \/ main_set_time \/ main_kick \/ handle_kick
             PROVE  BoardKept
  OBVIOUS
<1>1. ClintOnly
  BY DEF main_work, main_set_time, main_kick, handle_kick
<1>2. PlicKept /\ enable' = enable /\ UartInv'
  BY <1>1, QuietDevices DEF ClintOnly
<1>3. mtime \in Times /\ mtimecmp \in [Contexts -> Times]
  BY DEF BoardInv, ClintInv
<1>4. ClintInv' /\ mtimecmp' = mtimecmp
  <2>1. CASE main_work
    BY <2>1, AdvanceKeeps DEF main_work, clint_load, BoardInv
  <2>2. CASE main_set_time
    <3>1. 0 \in 0 .. Half - 1
      BY ClintAssumption
    <3>2. WithLow(mtime, 0) \in Times
      BY <1>3, <3>1, LowStored
    <3>3. clint_tick(WithLow(mtime, 0), mtimecmp)
      BY <2>2 DEF main_set_time, clint_store_mtime
    <3> QED BY <1>3, <3>2, <3>3, ClintTick
  <2>3. CASE main_kick \/ handle_kick
    <3>1. clint_tick(mtime, mtimecmp)
      BY <2>3 DEF main_kick, handle_kick, clint_store_msip
    <3> QED BY <1>3, <3>1, ClintTick
  <2> QED BY <2>1, <2>2, <2>3
<1>5. /\ \E p \in {"main", "mret"} : Instruction(p)
      /\ pc[current_proc] \in {"main", "kicked"}
      /\ booted' = booted /\ typed' = typed /\ deadline' = deadline
  BY DEF main_work, main_set_time, main_kick, handle_kick, Plain, At, h0, Others
<1>6. Ordinary
  BY <1>2, <1>4, <1>5, InstructionOrdinary DEF Places, Midway
<1> QED BY <1>2, <1>4, <1>6, OrdinaryBoard

\* Accesses to the UART.
LEMMA UartAccessKeeps == BoardInv /\ (main_send \/ handle_rx \/ handle_tx) => BoardKept
<1> SUFFICES ASSUME BoardInv, main_send \/ handle_rx \/ handle_tx PROVE BoardKept
  OBVIOUS
<1>1. TypeOK /\ UartInv
  BY DEF BoardInv
<1>2. UartInv' /\ PlicKept
  <2>1. CASE main_send
    <3>1. Storable("IER", {"RDI", "THRI"}) /\ uart_store("IER", {"RDI", "THRI"})
      BY <2>1 DEF main_send, Storable, IerBits
    <3> QED BY <1>1, <3>1, StoreKeeps
  <2>2. CASE handle_tx
    <3>1. Storable("IER", {"RDI"}) /\ uart_store("IER", {"RDI"})
      BY <2>2 DEF handle_tx, Storable, IerBits
    <3> QED BY <1>1, <3>1, StoreKeeps
  <2>3. CASE handle_rx
    BY <1>1, <2>3, LoadKeeps DEF handle_rx
  <2> QED BY <2>1, <2>2, <2>3
<1>3. UNCHANGED clintVars
  BY DEF main_send, handle_rx, handle_tx, UartOnly
<1>4. ClintInv' /\ mtimecmp' = mtimecmp
  BY <1>3 DEF BoardInv, ClintInv, clintVars
<1>5. /\ \E p \in {"main", "poll"} : Instruction(p)
      /\ pc[current_proc] \in {"main", "rx", "tx"}
      /\ booted' = booted /\ typed' = typed /\ deadline' = deadline
  BY DEF main_send, handle_rx, handle_tx, Plain, At, h0, Others
<1>6. Ordinary
  BY <1>2, <1>4, <1>5, InstructionOrdinary DEF Places, Midway, PlicKept
<1> QED BY <1>2, <1>4, <1>6, OrdinaryBoard

\* The handler's steps that change the PLIC or nothing.
LEMMA HandlerKeeps ==
    BoardInv /\ (handle_claim \/ handle_poll \/ handle_complete \/ handle_mret) => BoardKept
<1> SUFFICES ASSUME BoardInv, handle_claim \/ handle_poll \/ handle_complete \/ handle_mret
             PROVE  BoardKept
  OBVIOUS
<1>1. current_proc \in Contexts /\ UartId \in Ids
  BY UartAssumption DEF BoardInv, LoopInv
<1>2. PlicKept /\ UartInv' /\ ClintInv' /\ mtimecmp' = mtimecmp
  <2>1. CASE handle_claim
    <3>1. context_claim(current_proc) /\ PlicOnly
      BY <2>1 DEF handle_claim, h0
    <3>2. PlicKept /\ level' = level
      BY <1>1, <3>1 DEF PlicKept, Next, context_claim
    <3> QED BY <3>1, <3>2, QuietUart
  <2>2. CASE handle_complete
    <3>1. PlicOnly /\ (context_write_claim(current_proc, UartId) \/ UNCHANGED vars)
      BY <2>2 DEF handle_complete, h0
    <3>2. PlicKept /\ level' = level
      <4>1. CASE context_write_claim(current_proc, UartId)
        BY <1>1, <4>1 DEF PlicKept, Next, context_write_claim
      <4>2. CASE UNCHANGED vars
        BY <4>2, QuietDevices
      <4> QED BY <3>1, <4>1, <4>2
    <3> QED BY <3>1, <3>2, QuietUart
  <2>3. CASE handle_poll \/ handle_mret
    BY <2>3, NoDeviceKeeps DEF handle_poll, handle_mret
  <2> QED BY <2>1, <2>2, <2>3
<1>3. /\ \E p \in {"main", "poll", "mret", "rx", "tx", "complete"} : Instruction(p)
      /\ pc[current_proc] \in {"claim", "poll", "complete", "mret"}
      /\ booted' = booted /\ typed' = typed /\ deadline' = deadline
  BY DEF handle_claim, handle_poll, handle_complete, handle_mret, Plain, At, h0, Others
<1>4. Ordinary
  BY <1>2, <1>3, InstructionOrdinary DEF Places, Midway, PlicKept
<1> QED BY <1>2, <1>4, OrdinaryBoard

\* A store to the enable register of a context that has the UART in it, or nothing.
LEMMA EnableWritten ==
    ASSUME BoardInv, NEW c \in Contexts, NEW on \in SUBSET {UartId},
           context_enable_write(c, UartId \div WordBits, on)
    PROVE  /\ enable' = [enable EXCEPT ![c] = on] /\ level' = level
           /\ [Next]_vars /\ TypeOK'
<1> DEFINE w == UartId \div WordBits
           new == (enable[c] \ Word(w)) \cup (on \cap Word(w))
<1>1. w \in Words /\ UartId \in Word(w)
  BY UartWord
<1>2. enable' = [enable EXCEPT ![c] = new] /\ level' = level
  BY DEF context_enable_write
<1>3. enable[c] \subseteq {UartId}
  BY DEF BoardInv, Routed
<1>4. new = on
  BY <1>1, <1>3
<1>5. on \in SUBSET Word(w)
  BY <1>1
<1> HIDE DEF w
<1>6. context_enable_write(c, w, on)
  BY DEF w
<1>7. [Next]_vars
  BY <1>1, <1>5, <1>6 DEF Next
<1>8. TypeOK'
  BY <1>7, TypeStep DEF BoardInv
<1> QED BY <1>2, <1>4, <1>7, <1>8

\* One instruction that leaves the timers alone.
LEMMA TimersElsewhere ==
    ASSUME BoardInv, NEW p, p \notin {"timer_low", "timer_done"}, Instruction(p),
           pc[current_proc] \notin {"timer_low", "timer_done"},
           mtimecmp' = mtimecmp, deadline' = deadline
    PROVE  TimerInv'
<1>1. pc' = [pc EXCEPT ![current_proc] = p] /\ pc \in [Contexts -> Places]
  BY DEF Instruction, h0, BoardInv, LoopInv
<1>2. /\ deadline \in [Contexts -> Times]
      /\ \A h \in Contexts :
          /\ pc'[h] = "timer_low" => mtimecmp[h] >= Top
          /\ pc'[h] = "timer_done" =>
                mtimecmp[h] >= Top /\ mtimecmp[h] % Half = deadline[h] % Half
          /\ pc'[h] \notin {"timer_low", "timer_done"} => mtimecmp[h] = deadline[h]
  BY <1>1 DEF BoardInv, TimerInv
<1> QED BY <1>2 DEF TimerInv

\* One instruction after the boot code, wherever it goes.
LEMMA LoopElsewhere ==
    ASSUME BoardInv, NEW p \in Places \ {"boot"}, Instruction(p),
           booted' = booted, typed' = typed
    PROVE  LoopInv'
<1>1. /\ pc \in [Contexts -> Places] /\ current_proc \in Contexts
      /\ pc' = [pc EXCEPT ![current_proc] = p]
      /\ current_proc' = current_proc /\ current_step' = current_step + 1
      /\ current_step < INTERLEAVE /\ current_step \in 0 .. INTERLEAVE
  BY DEF Instruction, InTurn, h0, BoardInv, LoopInv
<1>2. current_step' \in 0 .. INTERLEAVE
  BY <1>1, PlatformAssumption
<1>3. pc' \in [Contexts -> Places] /\ \A h \in Contexts : pc'[h] = "boot" => pc[h] = "boot"
  BY <1>1
<1> QED BY <1>1, <1>2, <1>3 DEF BoardInv, LoopInv

\* The UART interrupt is taken off the hart that has it.
LEMMA UnrouteKeeps == BoardInv /\ main_unroute => BoardKept
<1> SUFFICES ASSUME BoardInv, main_unroute PROVE BoardKept
  OBVIOUS
<1>1. PICK h \in Contexts : /\ UartId \in enable[h]
                            /\ context_enable_write(h, UartId \div WordBits, {})
  BY DEF main_unroute
<1>2. /\ enable' = [enable EXCEPT ![h] = {}] /\ level' = level /\ [Next]_vars /\ TypeOK'
  BY <1>1, EnableWritten
<1>3. UartInv' /\ ClintInv' /\ mtimecmp' = mtimecmp
  BY <1>2, QuietUart DEF main_unroute
<1>4. /\ Instruction("route") /\ pc[current_proc] = "main"
      /\ booted' = booted /\ typed' = typed /\ deadline' = deadline
  BY DEF main_unroute, Plain, At, h0
<1>5. LoopInv' /\ TimerInv'
  <2>1. "route" \in Places \ {"boot"}
    BY DEF Places
  <2> QED BY <1>3, <1>4, <2>1, LoopElsewhere, TimersElsewhere
<1>6. /\ pc' = [pc EXCEPT ![current_proc] = "route"] /\ pc \in [Contexts -> Places]
      /\ enable \in [Contexts -> SUBSET Ids]
  BY <1>4 DEF Instruction, h0, BoardInv, LoopInv, TypeOK
<1>7. \A c \in Contexts : enable'[c] = {}
  <2>1. \A c \in Contexts : c # h => UartId \notin enable[c]
    BY <1>1 DEF BoardInv, Routed
  <2>2. \A c \in Contexts : enable[c] \subseteq {UartId}
    BY DEF BoardInv, Routed
  <2> QED BY <1>2, <1>6, <2>1, <2>2
<1>8. \A g \in Contexts : pc'[g] = "route" => g = current_proc
  BY <1>1, <1>6 DEF BoardInv, Routed
<1>9. \A i \in 1 .. Len(Boot) : ~(booted < i /\ Boot[i].reg = "ENABLE")
  BY <1>1 DEF BoardInv, Routed
<1>10. Routed'
  BY <1>4, <1>7, <1>8, <1>9 DEF Routed
<1> QED BY <1>2, <1>3, <1>5, <1>10 DEF BoardKept, BoardInv

\* ... and given to another, or to the same one.
LEMMA RouteKeeps == BoardInv /\ main_route => BoardKept
<1> SUFFICES ASSUME BoardInv, main_route PROVE BoardKept
  OBVIOUS
<1>1. PICK h \in Contexts : context_enable_write(h, UartId \div WordBits, {UartId})
  BY DEF main_route
<1>2. /\ enable' = [enable EXCEPT ![h] = {UartId}] /\ level' = level
      /\ [Next]_vars /\ TypeOK'
  BY <1>1, EnableWritten
<1>3. UartInv' /\ ClintInv' /\ mtimecmp' = mtimecmp
  BY <1>2, QuietUart DEF main_route
<1>4. /\ Instruction("main") /\ pc[current_proc] = "route"
      /\ booted' = booted /\ typed' = typed /\ deadline' = deadline
  BY DEF main_route, Plain, At, h0, Others
<1>5. LoopInv' /\ TimerInv'
  <2>1. "main" \in Places \ {"boot"}
    BY DEF Places
  <2> QED BY <1>3, <1>4, <2>1, LoopElsewhere, TimersElsewhere
<1>6. /\ pc' = [pc EXCEPT ![current_proc] = "main"] /\ pc \in [Contexts -> Places]
      /\ enable \in [Contexts -> SUBSET Ids] /\ current_proc \in Contexts
  BY <1>4 DEF Instruction, h0, BoardInv, LoopInv, TypeOK
<1>7. /\ \A c \in Contexts : enable'[c] \subseteq {UartId}
      /\ \A c \in Contexts : UartId \in enable'[c] => c = h
  <2>1. \A c \in Contexts : UartId \notin enable[c] /\ enable[c] \subseteq {UartId}
    BY <1>4, <1>6 DEF BoardInv, Routed
  <2> QED BY <1>2, <1>6, <2>1
<1>8. \A g \in Contexts : pc'[g] # "route"
  <2>1. \A g \in Contexts : pc[g] = "route" => g = current_proc
    BY <1>4, <1>6 DEF BoardInv, Routed
  <2> QED BY <1>6, <2>1
<1>9. \A i \in 1 .. Len(Boot) : ~(booted < i /\ Boot[i].reg = "ENABLE")
  BY <1>4, <1>6 DEF BoardInv, Routed
<1>10. Routed'
  BY <1>4, <1>7, <1>8, <1>9 DEF Routed
<1> QED BY <1>2, <1>3, <1>5, <1>10 DEF BoardKept, BoardInv

\* A store of the boot code: its registers one by one.
LEMMA BootKeeps == BoardInv /\ boot_store => BoardKept
<1> SUFFICES ASSUME BoardInv, boot_store PROVE BoardKept
  OBVIOUS
<1> DEFINE s == Boot[booted + 1]
           p == IF booted' = Len(Boot) THEN "main" ELSE "boot"
<1>1. /\ pc[current_proc] = "boot" /\ booted' = booted + 1 /\ Instruction(p)
      /\ typed' = typed /\ deadline' = deadline
  BY DEF boot_store, Plain, At, h0
<1>2. /\ pc \in [Contexts -> Places] /\ current_proc \in Contexts
      /\ current_proc = 0 /\ booted < Len(Boot) /\ booted \in 0 .. Len(Boot)
      /\ Len(Boot) \in Nat
  BY <1>1, BootAssumption DEF BoardInv, LoopInv
<1>3. booted + 1 \in 1 .. Len(Boot)
  BY <1>2
<1>4. /\ pc' = [pc EXCEPT ![0] = p] /\ current_proc' = 0 /\ current_step' = current_step + 1
      /\ current_step < INTERLEAVE
  BY <1>1, <1>2 DEF Instruction, InTurn, h0
<1>5. p \in {"boot", "main"} /\ (p = "boot" => booted' < Len(Boot)) /\ booted' \in 0 .. Len(Boot)
  BY <1>1, <1>2
<1> HIDE DEF p
<1>6. LoopInv'
  <2>1. pc' \in [Contexts -> Places]
    BY <1>2, <1>4, <1>5 DEF Places
  <2>2. \A h \in Contexts : pc'[h] = "boot" => h = 0 /\ booted' < Len(Boot)
    <3>1. SUFFICES ASSUME NEW h \in Contexts, pc'[h] = "boot"
                   PROVE  h = 0 /\ booted' < Len(Boot)
      OBVIOUS
    <3>2. h # 0 => pc[h] = "boot"
      BY <1>2, <1>4, <3>1
    <3>3. h = 0
      BY <3>2 DEF BoardInv, LoopInv
    <3> QED BY <1>2, <1>4, <1>5, <3>1, <3>3
  <2>3. current_step' \in 0 .. INTERLEAVE /\ typed' \in 0 .. MaxTyped
    BY <1>1, <1>4, PlatformAssumption DEF BoardInv, LoopInv
  <2> QED BY <1>2, <1>4, <1>5, <2>1, <2>2, <2>3 DEF LoopInv
<1>7. \A c \in Contexts : pc'[c] = "route" => pc[c] = "route"
  BY <1>2, <1>4, <1>5
<1>8. CASE s.reg = "ENABLE"
  <2>1. context_enable_write(0, UartId \div WordBits, {UartId}) /\ PlicOnly
    <3>1. ~uart_store("ENABLE", s.value)
      BY DEF uart_store
    <3> QED BY <1>2, <1>8 DEF boot_store, h0
  <2>2. /\ enable' = [enable EXCEPT ![0] = {UartId}] /\ level' = level
        /\ [Next]_vars /\ TypeOK'
    BY <1>2, <2>1, EnableWritten
  <2>3. UartInv' /\ ClintInv' /\ mtimecmp' = mtimecmp
    BY <2>1, <2>2, QuietUart
  <2>4. \A c \in Contexts : UartId \notin enable[c] /\ pc[c] # "route"
    BY <1>2, <1>3, <1>8 DEF BoardInv, Routed
  <2>5. /\ \A c \in Contexts : enable'[c] \subseteq {UartId}
        /\ \A c \in Contexts : UartId \in enable'[c] => c = 0
    <3>1. enable \in [Contexts -> SUBSET Ids] /\ \A c \in Contexts : enable[c] \subseteq {UartId}
      BY DEF BoardInv, TypeOK, Routed
    <3> QED BY <1>2, <2>2, <2>4, <3>1
  <2>6. \A i \in 1 .. Len(Boot) : ~(booted' < i /\ Boot[i].reg = "ENABLE")
    <3>1. SUFFICES ASSUME NEW i \in 1 .. Len(Boot), booted' < i, Boot[i].reg = "ENABLE"
                   PROVE  FALSE
      OBVIOUS
    <3>2. i = booted + 1
      BY <1>3, <1>8, <3>1, BootAssumption
    <3> QED BY <1>1, <1>2, <3>1, <3>2
  <2>7. Routed'
    BY <1>7, <2>4, <2>5, <2>6 DEF Routed
  <2>8. TimerInv'
    BY <1>1, <1>5, <2>3, TimersElsewhere
  <2> QED BY <1>6, <2>2, <2>3, <2>7, <2>8 DEF BoardKept, BoardInv
<1>9. CASE s.reg # "ENABLE"
  <2>1. PlicKept /\ UartInv' /\ ClintInv' /\ mtimecmp' = mtimecmp
    <3>0. TypeOK /\ UartInv
      BY DEF BoardInv
    <3>1. CASE s.reg = "PRIORITY"
      <4>1. priority_write(UartId, s.value) /\ PlicOnly
        BY <3>1 DEF boot_store
      <4>2. s.value \in Vals /\ UartId \in Ids
        BY <1>3, <3>1, BootAssumption, UartAssumption
      <4>3. PlicKept /\ level' = level
        BY <4>1, <4>2 DEF PlicKept, Next, priority_write, ctxVars
      <4> QED BY <4>1, <4>3, QuietUart
    <3>2. CASE s.reg # "PRIORITY"
      <4>1. \/ s.reg = "RX" /\ uart_load_rx
            \/ s.reg # "RX" /\ uart_store(s.reg, s.value)
        BY <1>9, <3>2 DEF boot_store
      <4>2. UNCHANGED clintVars
        BY <1>9, <3>2 DEF boot_store, UartOnly
      <4>3. ClintInv' /\ mtimecmp' = mtimecmp
        BY <4>2 DEF BoardInv, ClintInv, clintVars
      <4>4. s.reg # "RX" => Storable(s.reg, s.value)
        BY <1>3, <1>9, <3>2, BootAssumption, PlatformAssumption DEF Storable
      <4>5. UartInv' /\ PlicKept
        BY <3>0, <4>1, <4>4, LoadKeeps, StoreKeeps
      <4> QED BY <4>3, <4>5
    <3> QED BY <3>1, <3>2
  <2>2. TypeOK' /\ [Next]_vars /\ enable' = enable
    BY <2>1, TypeStep DEF PlicKept, BoardInv
  <2>3. Routed'
    <3>1. \A i \in 1 .. Len(Boot) : booted' < i => booted < i
      BY <1>1, <1>2
    <3>2. /\ \A c \in Contexts : enable[c] \subseteq {UartId}
          /\ \A c, d \in Contexts : UartId \in enable[c] /\ UartId \in enable[d] => c = d
          /\ \A h \in Contexts : pc'[h] = "route" =>
               /\ \A c \in Contexts : UartId \notin enable[c]
               /\ \A g \in Contexts : pc'[g] = "route" => g = h
      BY <1>7 DEF BoardInv, Routed
    <3>3. \A i \in 1 .. Len(Boot) : booted' < i /\ Boot[i].reg = "ENABLE" =>
               \A c \in Contexts : UartId \notin enable[c] /\ pc'[c] # "route"
      BY <1>7, <3>1 DEF BoardInv, Routed
    <3> QED BY <2>2, <3>2, <3>3 DEF Routed
  <2>4. TimerInv'
    BY <1>1, <1>5, <2>1, TimersElsewhere
  <2> QED BY <1>6, <2>1, <2>2, <2>3, <2>4 DEF BoardKept, BoardInv
<1> QED BY <1>8, <1>9

\* One instruction with the routing as it is, from and to a place other than "route".
LEMMA RoutesElsewhere ==
    ASSUME BoardInv, NEW p, p # "route", Instruction(p), booted' = booted, enable' = enable
    PROVE  Routed'
<1>1. pc' = [pc EXCEPT ![current_proc] = p] /\ pc \in [Contexts -> Places]
  BY DEF Instruction, h0, BoardInv, LoopInv
<1>2. \A c \in Contexts : pc'[c] = "route" => pc[c] = "route"
  BY <1>1
<1>3. /\ \A c \in Contexts : enable[c] \subseteq {UartId}
      /\ \A c, d \in Contexts : UartId \in enable[c] /\ UartId \in enable[d] => c = d
      /\ \A h \in Contexts : pc'[h] = "route" =>
           /\ \A c \in Contexts : UartId \notin enable[c]
           /\ \A g \in Contexts : pc'[g] = "route" => g = h
  BY <1>2 DEF BoardInv, Routed
<1>4. \A i \in 1 .. Len(Boot) : booted < i /\ Boot[i].reg = "ENABLE" =>
           \A c \in Contexts : UartId \notin enable[c] /\ pc'[c] # "route"
  BY <1>2 DEF BoardInv, Routed
<1> QED BY <1>3, <1>4 DEF Routed

\* A store to one half of the running hart's mtimecmp.
LEMMA HalfStored ==
    ASSUME BoardInv, NEW p \in {"timer_low", "timer_done", "mret"}, Instruction(p), ClintOnly,
           NEW v \in Times, clint_store_mtimecmp(current_proc, v),
           booted' = booted, typed' = typed,
           deadline' \in [Contexts -> Times],
           \A h \in Contexts \ {current_proc} : deadline'[h] = deadline[h],
           p = "timer_low" => v >= Top,
           p = "timer_done" => v >= Top /\ v % Half = deadline'[current_proc] % Half,
           p = "mret" => v = deadline'[current_proc]
    PROVE  BoardKept
<1>1. PlicKept /\ enable' = enable /\ UartInv' /\ current_proc \in Contexts
  BY QuietDevices DEF ClintOnly, BoardInv, LoopInv
<1>2. ClintInv' /\ mtimecmp' = [mtimecmp EXCEPT ![current_proc] = v]
  BY <1>1, CompareKeeps DEF BoardInv
<1>3. TypeOK' /\ [Next]_vars
  BY <1>1, TypeStep DEF BoardInv, PlicKept
<1>4. LoopInv' /\ Routed'
  BY <1>1, LoopElsewhere, RoutesElsewhere DEF Places
<1>5. /\ pc' = [pc EXCEPT ![current_proc] = p] /\ pc \in [Contexts -> Places]
      /\ mtimecmp \in [Contexts -> Times]
  BY DEF Instruction, h0, BoardInv, LoopInv, ClintInv
<1>6. ASSUME NEW h \in Contexts
      PROVE  /\ pc'[h] = "timer_low" => mtimecmp'[h] >= Top
             /\ pc'[h] = "timer_done" =>
                  mtimecmp'[h] >= Top /\ mtimecmp'[h] % Half = deadline'[h] % Half
             /\ pc'[h] \notin {"timer_low", "timer_done"} => mtimecmp'[h] = deadline'[h]
  <2>1. CASE h = current_proc
    BY <1>1, <1>2, <1>5, <2>1
  <2>2. CASE h # current_proc
    <3>1. pc'[h] = pc[h] /\ mtimecmp'[h] = mtimecmp[h] /\ deadline'[h] = deadline[h]
      BY <1>2, <1>5, <2>2
    <3> QED BY <3>1 DEF BoardInv, TimerInv
  <2> QED BY <2>1, <2>2
<1>7. TimerInv'
  BY <1>6 DEF TimerInv
<1> QED BY <1>1, <1>2, <1>3, <1>4, <1>7 DEF BoardKept, BoardInv

\* The timer's three stores.
LEMMA TimerKeeps == BoardInv /\ (timer_high \/ timer_low \/ timer_done) => BoardKept
<1> SUFFICES ASSUME BoardInv, timer_high \/ timer_low \/ timer_done PROVE BoardKept
  OBVIOUS
<1> DEFINE c == current_proc
           r == mtimecmp[c]
           d == deadline[c]
<1>1. /\ c \in Contexts /\ r \in Times /\ d \in Times /\ deadline \in [Contexts -> Times]
      /\ Half - 1 \in 0 .. Half - 1
  BY ClintAssumption DEF BoardInv, LoopInv, ClintInv, TimerInv
<1>2. d \div Half \in 0 .. Half - 1 /\ d % Half \in 0 .. Half - 1
  BY <1>1, TimeHalves
<1>3. ClintOnly /\ booted' = booted /\ typed' = typed
  BY DEF timer_high, timer_low, timer_done, Others
<1>4. CASE timer_high
  <2>1. Instruction("timer_low") /\ clint_store_mtimecmp(c, WithHigh(r, Half - 1))
    BY <1>4 DEF timer_high, Plain, h0
  <2>2. PICK e \in Deadlines : deadline' = [deadline EXCEPT ![c] = e]
    BY <1>4 DEF timer_high, h0
  <2>3. e \in Times
    BY PlatformAssumption
  <2>4. deadline' \in [Contexts -> Times] /\ \A h \in Contexts \ {c} : deadline'[h] = deadline[h]
    BY <1>1, <2>2, <2>3
  <2>5. WithHigh(r, Half - 1) \in Times /\ WithHigh(r, Half - 1) >= Top
    BY <1>1, HighStored
  <2> DEFINE v == WithHigh(r, Half - 1)
  <2> HIDE DEF v
  <2>6. v \in Times /\ v >= Top /\ clint_store_mtimecmp(c, v)
    BY <2>1, <2>5 DEF v
  <2> QED BY <1>3, <2>1, <2>4, <2>6, HalfStored
<1>5. CASE timer_low
  <2> DEFINE v == WithLow(r, d % Half)
  <2>1. /\ Instruction("timer_done") /\ clint_store_mtimecmp(c, v)
        /\ deadline' = deadline /\ pc[c] = "timer_low"
    BY <1>5 DEF timer_low, Plain, h0, At, Others
  <2>2. r >= Top
    BY <1>1, <2>1 DEF BoardInv, TimerInv
  <2>3. v \in Times /\ v >= Top /\ v % Half = d % Half
    BY <1>1, <1>2, <2>2, LowStored
  <2> HIDE DEF v
  <2>4. /\ deadline' \in [Contexts -> Times] /\ v % Half = deadline'[c] % Half
        /\ \A h \in Contexts \ {c} : deadline'[h] = deadline[h]
    BY <1>1, <2>1, <2>3
  <2> QED BY <1>3, <2>1, <2>3, <2>4, HalfStored
<1>6. CASE timer_done
  <2> DEFINE v == WithHigh(r, d \div Half)
  <2>1. /\ Instruction("mret") /\ clint_store_mtimecmp(c, v)
        /\ deadline' = deadline /\ pc[c] = "timer_done"
    BY <1>6 DEF timer_done, Plain, h0, At, Others
  <2>2. r % Half = d % Half
    BY <1>1, <2>1 DEF BoardInv, TimerInv
  <2>3. v = d
    BY <1>1, <1>2, <2>2, HighStored
  <2> HIDE DEF v
  <2>4. /\ deadline' \in [Contexts -> Times] /\ v = deadline'[c] /\ v \in Times
        /\ \A h \in Contexts \ {c} : deadline'[h] = deadline[h]
    BY <1>1, <2>1, <2>3
  <2> QED BY <1>3, <2>1, <2>4, HalfStored
<1> QED BY <1>4, <1>5, <1>6

-----------------------------------------------------------------------------
(***************************************************************************)
(* The theorems.                                                           *)
(***************************************************************************)

\* The board comes out of reset in the invariant.
LEMMA InitBoard == PlatformInit => BoardInv
<1> SUFFICES ASSUME PlatformInit PROVE BoardInv
  OBVIOUS
<1>1. /\ INTERLEAVE \in Nat /\ MaxTyped \in Nat /\ ClintHarts = Contexts
      /\ UART_QUEUE_SIZE \in Nat /\ MAX_BACKOFF \in Nat /\ Len(Boot) \in Nat \ {0}
      /\ 0 \in Contexts /\ 0 \in Times
  <2>1. 0 \in Times
    <3>1. Half * Half \in Nat \ {0}
      BY ClintAssumption
    <3> QED BY <3>1 DEF Times
  <2> QED BY <2>1, PlatformAssumption, UartAssumption, BootAssumption, PlicAssumption
          DEF Contexts
<1>2. TypeOK
  BY PlicAssumption DEF PlatformInit, Init, TypeOK, Prios
<1>3. LoopInv
  BY <1>1 DEF PlatformInit, LoopInv, Places
<1>4. Routed
  BY DEF PlatformInit, Init, Routed
<1>5. UartInv
  <2>1. uart = [ier |-> {}, fcr |-> {}, lcr |-> {}, mcr |-> {"OUT2"}, lsr |-> Empty,
                iir |-> {}, rx |-> <<>>]
    BY DEF PlatformInit, UartInit
  <2>2. uart.rx = <<>> /\ uart.lsr = Empty /\ uart.iir = {} /\ uart.ier = {}
    BY <2>1
  <2>3. uart \in UartType
    BY <2>1 DEF UartType, Empty, McrBits
  <2>4. UartReady(uart)
    BY <1>1, <2>2, <2>3 DEF UartReady, Empty
  <2>5. Interrupts(uart) = {}
    BY <2>2 DEF Interrupts
  <2>6. level = {} /\ backoff = 0 /\ terminal = <<>>
    BY DEF PlatformInit, Init, UartInit
  <2>7. backoff \in 0 .. MAX_BACKOFF /\ terminal \in Seq(0 .. MaxTyped)
    BY <1>1, <2>6
  <2> QED BY <2>2, <2>4, <2>5, <2>6, <2>7 DEF UartInv
<1>6. ClintInv
  <2>1. mtime = 0 /\ mtimecmp = [h \in Contexts |-> 0] /\ mtip = [h \in Contexts |-> TRUE]
    BY <1>1 DEF PlatformInit, ClintInit
  <2>2. \A h \in Contexts : (0 >= mtimecmp[h]) = TRUE
    BY <2>1
  <2>3. mtip = [h \in Contexts |-> 0 >= mtimecmp[h]]
    BY <2>1, <2>2, Zenon
  <2> QED BY <1>1, <2>1, <2>3 DEF ClintInv
<1>7. TimerInv
  BY <1>1 DEF PlatformInit, ClintInit, TimerInv
<1> QED BY <1>2, <1>3, <1>4, <1>5, <1>6, <1>7 DEF BoardInv

\* BoardInv is inductive, and a step of the board is a step of the PLIC or none.
LEMMA NextBoard == BoardInv /\ [PlatformNext]_allVars => BoardKept
<1> SUFFICES ASSUME BoardInv, [PlatformNext]_allVars PROVE BoardKept
  OBVIOUS
<1>1. CASE UNCHANGED allVars
  <2>1. /\ UNCHANGED <<vars, uartVars, clintVars>> /\ pc' = pc /\ current_proc' = current_proc
        /\ current_step' = current_step /\ booted' = booted /\ typed' = typed
        /\ deadline' = deadline
    BY <1>1 DEF allVars, loopVars, guestVars
  <2>2. PlicKept /\ UartInv' /\ ClintInv' /\ mtimecmp' = mtimecmp /\ enable' = enable
    BY <2>1, QuietDevices
  <2>3. Ordinary
    BY <2>1, <2>2 DEF Ordinary, BoardInv, LoopInv
  <2> QED BY <2>2, <2>3, OrdinaryBoard
<1>2. CASE Guest
  BY <1>2, BootKeeps, ClintAccessKeeps, WaitKeeps, UartAccessKeeps, HandlerKeeps,
     UnrouteKeeps, RouteKeeps, TimerKeeps DEF Guest
<1>3. CASE take_pending_interrupt \/ wait_for_interrupt \/ end_of_turn \/ type
  BY <1>3, TakeKeeps, WaitKeeps, EndKeeps, TypeKeeps
<1> QED BY <1>1, <1>2, <1>3 DEF PlatformNext, Simulate

\* The invariant of the board holds in every state.
THEOREM BoardInvariant == PlatformSpec => []BoardInv
<1>1. BoardInv /\ [PlatformNext]_allVars => BoardInv'
  BY NextBoard DEF BoardKept
<1> QED BY <1>1, InitBoard, PTL DEF PlatformSpec

\* The board implements the PLIC of Plic.tla whose software routes each source to one
\* context at a time: the UART, the guest's driver and the moves of the interrupt from
\* hart to hart never do to the PLIC what Plic.tla does not have.
THEOREM BoardIsPlic == PlatformSpec => ExclusiveSpec
<1>1. PlatformInit => Init
  BY DEF PlatformInit
<1>2. BoardInv /\ BoardInv' /\ [PlatformNext]_allVars => [Next /\ Exclusive']_vars
  <2> SUFFICES ASSUME BoardInv, BoardInv', [PlatformNext]_allVars
               PROVE  [Next /\ Exclusive']_vars
    OBVIOUS
  <2>1. [Next]_vars
    BY NextBoard DEF BoardKept
  <2>2. Exclusive'
    BY DEF BoardInv, Routed, Exclusive
  <2> QED BY <2>1, <2>2
<1> QED BY <1>1, <1>2, BoardInvariant, PTL DEF PlatformSpec, ExclusiveSpec

\* On the board as a whole the UART's interrupt is level-triggered in whichever hart it
\* is routed to, hand-overs while its wire is high included.
THEOREM BoardLevelTriggered == PlatformSpec => []LevelTriggered
BY BoardIsPlic, PlicLevelTriggered, PTL

\* On the board as a whole no interrupt is served by two harts.
THEOREM BoardOneServer == PlatformSpec => []OneServer
BY BoardIsPlic, PlicOneServer, PTL

\* ns16550_t and clint_t: the registers keep their ranges, the queue its limit, the wire
\* and the identification register agree with the queue and the enables, and MTIP with
\* the two times, after every store, tick and claim.
THEOREM BoardSafe == PlatformSpec => []PlatformInv
<1>1. BoardInv => PlatformInv
  <2> SUFFICES ASSUME BoardInv PROVE PlatformInv
    OBVIOUS
  <2>1. TypeOK /\ LoopInv /\ UartInv /\ ClintInv
    BY DEF BoardInv
  <2>2. uart \in UartType /\ Len(uart.rx) \in 0 .. UART_QUEUE_SIZE
    BY <2>1, LenProperties, UartAssumption DEF UartInv, UartReady, UartType
  <2>3. uart.rx \in UNION {[1 .. n -> 0 .. MaxTyped] : n \in 0 .. UART_QUEUE_SIZE}
    <3>1. uart.rx \in [1 .. Len(uart.rx) -> 0 .. MaxTyped]
      BY <2>2, LenProperties DEF UartType
    <3> QED BY <2>2, <3>1
  <2>4. uart \in [ier : SUBSET IerBits, fcr : SUBSET FcrBits, lcr : SUBSET LcrBits,
                  mcr : SUBSET McrBits, lsr : SUBSET {"DR", "TEMT", "THRE"},
                  iir : SUBSET IerBits,
                  rx : UNION {[1 .. n -> 0 .. MaxTyped] : n \in 0 .. UART_QUEUE_SIZE}]
    <3> DEFINE Q == UNION {[1 .. n -> 0 .. MaxTyped] : n \in 0 .. UART_QUEUE_SIZE}
    <3>1. uart.rx \in Q
      BY <2>3
    <3> HIDE DEF Q
    <3>2. uart \in [ier : SUBSET IerBits, fcr : SUBSET FcrBits, lcr : SUBSET LcrBits,
                    mcr : SUBSET McrBits, lsr : SUBSET {"DR", "TEMT", "THRE"},
                    iir : SUBSET IerBits, rx : Q]
      BY <2>2, <3>1 DEF UartType
    <3> QED BY <3>2 DEF Q
  <2>5. PlatformType
    BY <2>1, <2>4, PlatformAssumption DEF PlatformType, LoopInv, UartInv, ClintInv
  <2>6. WireAgrees
    BY <2>1 DEF WireAgrees, UartInv, UartReady
  <2>7. MtipCoherent
    BY <2>1, PlatformAssumption, Zenon DEF MtipCoherent, ClintInv
  <2> QED BY <2>5, <2>6, <2>7 DEF PlatformInv
<1> QED BY <1>1, BoardInvariant, PTL

\* The deadlines the guest sets stay below the top of time when all of them are.
LEMMA DeadlinesKept ==
    ASSUME BelowTop, BoardInv, DeadlinesBelow, [PlatformNext]_allVars
    PROVE  DeadlinesBelow'
<1>1. deadline \in [Contexts -> Times]
  BY DEF BoardInv, TimerInv
<1>2. \/ deadline' = deadline
      \/ \E d \in Deadlines : deadline' = [deadline EXCEPT ![current_proc] = d]
  BY DEF PlatformNext, Simulate, Guest, allVars, guestVars, Others, h0,
         take_pending_interrupt, wait_for_interrupt, end_of_turn, type, boot_store,
         main_work, main_set_time, main_wfi, main_send, main_kick, main_unroute, main_route,
         handle_claim, handle_poll, handle_rx, handle_tx, handle_complete, handle_kick,
         timer_high, timer_low, timer_done, handle_mret
<1> QED BY <1>1, <1>2 DEF BelowTop, DeadlinesBelow

\* A deadline is never past what the hart's mtimecmp holds meanwhile.
LEMMA CompareLate ==
    ASSUME BoardInv, DeadlinesBelow, NEW h \in Contexts
    PROVE  mtimecmp[h] >= deadline[h]
<1>1. mtimecmp[h] \in Int /\ deadline[h] \in Int /\ Top \in Int
  BY ClintAssumption DEF BoardInv, ClintInv, TimerInv, Times, Top
<1>2. mtimecmp[h] >= Top \/ mtimecmp[h] = deadline[h]
  BY DEF BoardInv, TimerInv
<1>3. deadline[h] <= Top
  BY DEF DeadlinesBelow
<1> QED BY <1>1, <1>2, <1>3

\* clint_t: MTIP is recomputed after every store of half a register, and a guest that
\* sets the high half to its largest value first is never interrupted early, whatever
\* the turns of the harts and whoever sets the time back, as long as no deadline lies
\* in the last half of the time there is.
THEOREM TimersNeverEarly == BelowTop => (PlatformSpec => NeverEarly)
<1> SUFFICES ASSUME BelowTop PROVE PlatformSpec => NeverEarly
  OBVIOUS
<1>1. PlatformInit => DeadlinesBelow
  <2>1. 0 <= Top
    BY ClintAssumption DEF Top
  <2> QED BY <2>1 DEF PlatformInit, DeadlinesBelow
<1>2. BoardInv /\ DeadlinesBelow /\ [PlatformNext]_allVars => DeadlinesBelow'
  BY DeadlinesKept
<1>3. BoardInv /\ DeadlinesBelow =>
        \A h \in TimerHarts : mtip[h] => mtime >= deadline[h]
  <2> SUFFICES ASSUME BoardInv, DeadlinesBelow, NEW h \in TimerHarts, mtip[h]
               PROVE  mtime >= deadline[h]
    OBVIOUS
  <2>1. h \in Contexts
    BY PlatformAssumption
  <2>2. mtimecmp[h] >= deadline[h]
    BY <2>1, CompareLate
  <2>3. mtime >= mtimecmp[h]
    BY <2>1 DEF BoardInv, ClintInv
  <2>4. mtimecmp[h] \in Int /\ deadline[h] \in Int /\ mtime \in Int
    BY <2>1, ClintAssumption DEF BoardInv, ClintInv, TimerInv, Times
  <2> QED BY <2>2, <2>3, <2>4
<1>4. PlatformSpec => []DeadlinesBelow
  BY <1>1, <1>2, BoardInvariant, PTL DEF PlatformSpec
<1>5. (\A h \in TimerHarts : mtip[h] => mtime >= deadline[h])' =>
        [\A h \in TimerHarts : ~mtip[h] /\ mtip'[h] => mtime' >= deadline'[h]]_allVars
  OBVIOUS
<1> QED BY <1>3, <1>4, <1>5, BoardInvariant, PTL DEF NeverEarly

-----------------------------------------------------------------------------
(***************************************************************************)
(* The input: what is typed keeps its order on its way to the guest.       *)
(***************************************************************************)

Bytes == 0 .. MaxTyped

Members(s) == {s[i] : i \in DOMAIN s}

\* The typed characters of s are in the order they were typed.
Rising(s) == \A i, j \in DOMAIN s : i < j /\ s[i] # 0 /\ s[j] # 0 => s[i] < s[j]

\* t is s with a 0 put in at position k.
Zeroed(s, t, k) ==
    /\ s \in Seq(Bytes) /\ t \in Seq(Bytes)
    /\ k \in 1 .. Len(s) + 1
    /\ Len(t) = Len(s) + 1
    /\ \A i \in 1 .. k - 1 : t[i] = s[i]
    /\ t[k] = 0
    /\ \A i \in k .. Len(s) : t[i + 1] = s[i]

\* The inductive invariant: only what was typed is thrown away.
InputInv ==
    /\ received \in Seq(Bytes)
    /\ cleared \subseteq 0 .. typed
    /\ InputIntact

\* A byte moved from the head of one sequence to the end of the one before it.
LEMMA Moved ==
    ASSUME NEW a \in Seq(Bytes), NEW b \in Seq(Bytes), b # <<>>
    PROVE  /\ Head(b) \in Bytes /\ Tail(b) \in Seq(Bytes) /\ Append(a, Head(b)) \in Seq(Bytes)
           /\ Append(a, Head(b)) \o Tail(b) = a \o b
<1> DEFINE c == Append(a, Head(b))
           d == Tail(b)
           x == c \o d
           y == a \o b
           m == Len(a)
           n == Len(b)
<1>1. /\ Head(b) \in Bytes /\ d \in Seq(Bytes) /\ Len(d) = n - 1
      /\ \A i \in 1 .. Len(d) : d[i] = b[i + 1]
  BY HeadTailProperties
<1>2. m \in Nat /\ n \in Nat /\ n > 0 /\ Head(b) = b[1]
  <2>1. n \in Nat /\ m \in Nat /\ n # 0
    BY LenProperties, EmptySeq
  <2> QED BY <2>1
<1>3. /\ c \in Seq(Bytes) /\ Len(c) = m + 1
      /\ \A i \in 1 .. m : c[i] = a[i]
      /\ c[m + 1] = b[1]
  BY <1>1, <1>2, AppendProperties
<1>4. /\ x \in Seq(Bytes) /\ Len(x) = Len(c) + Len(d)
      /\ \A i \in 1 .. Len(c) + Len(d) : x[i] = IF i <= Len(c) THEN c[i] ELSE d[i - Len(c)]
  BY <1>1, <1>3, ConcatProperties
<1>5. /\ y \in Seq(Bytes) /\ Len(y) = m + n
      /\ \A i \in 1 .. m + n : y[i] = IF i <= m THEN a[i] ELSE b[i - m]
  BY ConcatProperties
<1> HIDE DEF c, d, x, y, m, n
<1>6. Len(x) = m + n
  BY <1>1, <1>2, <1>3, <1>4
<1>7. ASSUME NEW i \in 1 .. m + n PROVE x[i] = y[i]
  <2>0. i \in 1 .. Len(c) + Len(d)
    BY <1>1, <1>2, <1>3
  <2>1. CASE i <= m
    <3>1. i <= Len(c) /\ i \in 1 .. m
      BY <1>2, <1>3, <2>1
    <3> QED BY <1>3, <1>4, <1>5, <2>0, <2>1, <3>1
  <2>2. CASE i = m + 1
    <3>1. i <= Len(c) /\ ~(i <= m) /\ i - m = 1
      BY <1>2, <1>3, <2>2
    <3>2. x[i] = b[1]
      BY <1>3, <1>4, <2>0, <2>2, <3>1
    <3>3. y[i] = b[i - m]
      BY <1>5, <3>1
    <3> QED BY <3>1, <3>2, <3>3
  <2>3. CASE i > m + 1
    <3>1. /\ ~(i <= Len(c)) /\ ~(i <= m) /\ i - Len(c) \in 1 .. Len(d)
          /\ (i - Len(c)) + 1 = i - m
      BY <1>1, <1>2, <1>3, <2>3
    <3>2. x[i] = d[i - Len(c)]
      BY <1>4, <2>0, <3>1
    <3>3. d[i - Len(c)] = b[(i - Len(c)) + 1]
      BY <1>1, <3>1
    <3>4. y[i] = b[i - m]
      BY <1>5, <3>1
    <3> QED BY <3>1, <3>2, <3>3, <3>4
  <2> QED BY <1>2, <2>1, <2>2, <2>3
<1>8. x = y
  BY <1>4, <1>5, <1>6, <1>7, SeqEqual
<1> QED BY <1>1, <1>3, <1>8 DEF x, y, c, d

\* Appending to the second of two sequences appends to both.
LEMMA AppendedLast ==
    ASSUME NEW a \in Seq(Bytes), NEW b \in Seq(Bytes), NEW v \in Bytes
    PROVE  a \o Append(b, v) = Append(a \o b, v) /\ a \o b \in Seq(Bytes)
<1> DEFINE c == Append(b, v)
           y == a \o b
           x == a \o c
           z == Append(y, v)
           m == Len(a)
           n == Len(b)
<1>1. m \in Nat /\ n \in Nat
  BY LenProperties
<1>2. /\ c \in Seq(Bytes) /\ Len(c) = n + 1
      /\ \A i \in 1 .. n : c[i] = b[i]
      /\ c[n + 1] = v
  BY AppendProperties
<1>3. /\ y \in Seq(Bytes) /\ Len(y) = m + n
      /\ \A i \in 1 .. m + n : y[i] = IF i <= m THEN a[i] ELSE b[i - m]
  BY ConcatProperties
<1>4. /\ x \in Seq(Bytes) /\ Len(x) = m + Len(c)
      /\ \A i \in 1 .. m + Len(c) : x[i] = IF i <= m THEN a[i] ELSE c[i - m]
  BY <1>2, ConcatProperties
<1>5. /\ z \in Seq(Bytes) /\ Len(z) = Len(y) + 1
      /\ \A i \in 1 .. Len(y) : z[i] = y[i]
      /\ z[Len(y) + 1] = v
  BY <1>3, AppendProperties
<1> HIDE DEF c, x, y, z, m, n
<1>6. Len(x) = m + n + 1 /\ Len(z) = Len(x)
  <2>1. /\ m \in Nat /\ n \in Nat /\ Len(c) = n + 1 /\ Len(y) = m + n
        /\ Len(x) = m + Len(c) /\ Len(z) = Len(y) + 1
    BY <1>1, <1>2, <1>3, <1>4, <1>5, Zenon
  <2> QED BY <2>1
<1>7. ASSUME NEW i \in 1 .. Len(x) PROVE x[i] = z[i]
  <2>0. i \in 1 .. m + Len(c) /\ i \in 1 .. m + n + 1
    BY <1>4, <1>6
  <2>1. CASE i <= m
    <3>1. i \in 1 .. m + n /\ i \in 1 .. Len(y)
      BY <1>1, <1>3, <2>0, <2>1
    <3> QED BY <1>3, <1>4, <1>5, <2>0, <2>1, <3>1
  <2>2. CASE i > m /\ i <= m + n
    <3>1. i \in 1 .. m + n /\ i \in 1 .. Len(y) /\ ~(i <= m) /\ i - m \in 1 .. n
      BY <1>1, <1>3, <2>0, <2>2
    <3>2. x[i] = c[i - m] /\ c[i - m] = b[i - m]
      BY <1>2, <1>4, <2>0, <3>1
    <3>3. z[i] = y[i] /\ y[i] = b[i - m]
      BY <1>3, <1>5, <3>1
    <3> QED BY <3>2, <3>3
  <2>3. CASE i = m + n + 1
    <3>1. i = Len(y) + 1 /\ ~(i <= m) /\ i - m = n + 1
      BY <1>1, <1>3, <2>3
    <3>2. x[i] = c[i - m]
      BY <1>4, <2>0, <3>1
    <3> QED BY <1>2, <1>5, <3>1, <3>2
  <2> QED BY <1>1, <2>0, <2>1, <2>2, <2>3
<1>8. x = z
  BY <1>4, <1>5, <1>6, <1>7, SeqEqual
<1> QED BY <1>3, <1>8 DEF x, z, y, c

\* A 0 read from an empty queue.
LEMMA ZeroAppended ==
    ASSUME NEW s \in Seq(Bytes)
    PROVE  Zeroed(s, Append(s, 0), Len(s) + 1)
<1>1. 0 \in Bytes
  BY PlatformAssumption DEF Bytes
<1> DEFINE t == Append(s, 0)
<1>2. /\ t \in Seq(Bytes) /\ Len(t) = Len(s) + 1
      /\ \A i \in 1 .. Len(s) : t[i] = s[i]
      /\ t[Len(s) + 1] = 0
  BY <1>1, AppendProperties
<1>3. Len(s) \in Nat
  BY LenProperties
<1> HIDE DEF t
<1>4. Zeroed(s, t, Len(s) + 1)
  BY <1>2, <1>3 DEF Zeroed
<1> QED BY <1>4 DEF t

\* What follows stays as it is.
LEMMA ZeroedBefore ==
    ASSUME NEW s, NEW t, NEW k, Zeroed(s, t, k), NEW u \in Seq(Bytes)
    PROVE  Zeroed(s \o u, t \o u, k)
<1> DEFINE x == s \o u
           y == t \o u
           m == Len(s)
           n == Len(u)
<1>1. /\ s \in Seq(Bytes) /\ t \in Seq(Bytes) /\ k \in 1 .. m + 1 /\ Len(t) = m + 1
      /\ \A i \in 1 .. k - 1 : t[i] = s[i]
      /\ t[k] = 0
      /\ \A i \in k .. m : t[i + 1] = s[i]
  BY DEF Zeroed
<1>2. m \in Nat /\ n \in Nat
  BY <1>1, LenProperties
<1>3. /\ x \in Seq(Bytes) /\ Len(x) = m + n
      /\ \A i \in 1 .. m + n : x[i] = IF i <= m THEN s[i] ELSE u[i - m]
  BY <1>1, ConcatProperties
<1>4. /\ y \in Seq(Bytes) /\ Len(y) = Len(t) + n
      /\ \A i \in 1 .. Len(t) + n : y[i] = IF i <= Len(t) THEN t[i] ELSE u[i - Len(t)]
  BY <1>1, ConcatProperties
<1> HIDE DEF x, y, m, n
<1>5. Len(y) = Len(x) + 1 /\ k \in 1 .. Len(x) + 1
  BY <1>1, <1>2, <1>3, <1>4
<1>6. ASSUME NEW i \in 1 .. k - 1 PROVE y[i] = x[i]
  <2>1. i \in 1 .. m + n /\ i <= m /\ i \in 1 .. Len(t) + n /\ i <= Len(t)
    BY <1>1, <1>2
  <2> QED BY <1>1, <1>3, <1>4, <2>1
<1>7. y[k] = 0
  <2>1. k \in 1 .. Len(t) + n /\ k <= Len(t)
    BY <1>1, <1>2
  <2> QED BY <1>1, <1>4, <2>1
<1>8. ASSUME NEW i \in k .. Len(x) PROVE y[i + 1] = x[i]
  <2>1. CASE i <= m
    <3>1. i \in k .. m /\ i \in 1 .. m + n /\ i + 1 \in 1 .. Len(t) + n /\ i + 1 <= Len(t)
      BY <1>1, <1>2, <1>3, <2>1
    <3>2. y[i + 1] = t[i + 1] /\ x[i] = s[i]
      BY <1>3, <1>4, <2>1, <3>1
    <3> QED BY <1>1, <3>1, <3>2
  <2>2. CASE i > m
    <3>1. /\ i \in 1 .. m + n /\ ~(i <= m) /\ i + 1 \in 1 .. Len(t) + n /\ ~(i + 1 <= Len(t))
          /\ (i + 1) - Len(t) = i - m
      BY <1>1, <1>2, <1>3, <2>2
    <3>2. y[i + 1] = u[(i + 1) - Len(t)] /\ x[i] = u[i - m]
      BY <1>3, <1>4, <3>1
    <3> QED BY <3>1, <3>2
  <2> QED BY <1>1, <1>2, <1>3, <2>1, <2>2
<1>9. Zeroed(x, y, k)
  BY <1>3, <1>4, <1>5, <1>6, <1>7, <1>8 DEF Zeroed
<1> QED BY <1>9 DEF x, y

\* A 0 put in changes neither what was typed nor its order.
LEMMA ZeroedKeeps ==
    ASSUME NEW s, NEW t, NEW k, Zeroed(s, t, k), Rising(s)
    PROVE  Rising(t) /\ Members(t) \ {0} = Members(s) \ {0}
<1> DEFINE m == Len(s)
<1>1. /\ s \in Seq(Bytes) /\ t \in Seq(Bytes) /\ k \in 1 .. m + 1 /\ Len(t) = m + 1
      /\ \A i \in 1 .. k - 1 : t[i] = s[i]
      /\ t[k] = 0
      /\ \A i \in k .. m : t[i + 1] = s[i]
  BY DEF Zeroed
<1>2. m \in Nat /\ DOMAIN s = 1 .. m /\ DOMAIN t = 1 .. m + 1
  BY <1>1, LenProperties
<1> HIDE DEF m
<1> DEFINE g(i) == IF i < k THEN i ELSE i - 1
<1>3. ASSUME NEW i \in DOMAIN t, t[i] # 0 PROVE g(i) \in DOMAIN s /\ t[i] = s[g(i)] /\ i # k
  <2>1. i # k
    BY <1>1, <1>3
  <2>2. CASE i < k
    BY <1>1, <1>2, <2>2
  <2>3. CASE i > k
    <3>1. i - 1 \in k .. m /\ i - 1 \in DOMAIN s /\ (i - 1) + 1 = i /\ ~(i < k)
      BY <1>1, <1>2, <2>3
    <3>2. t[(i - 1) + 1] = s[i - 1]
      BY <1>1, <3>1
    <3> QED BY <2>1, <3>1, <3>2
  <2> QED BY <1>1, <1>2, <2>1, <2>2, <2>3
<1>4. ASSUME NEW i \in DOMAIN t, NEW j \in DOMAIN t, i < j, t[i] # 0, t[j] # 0
      PROVE  t[i] < t[j]
  <2>1. g(i) < g(j)
    <3>1. i # k /\ j # k
      BY <1>3, <1>4
    <3> QED BY <1>1, <1>2, <1>4, <3>1
  <2>2. g(i) \in DOMAIN s /\ g(j) \in DOMAIN s /\ t[i] = s[g(i)] /\ t[j] = s[g(j)]
    BY <1>3, <1>4
  <2> HIDE DEF g
  <2> QED BY <1>4, <2>1, <2>2 DEF Rising
<1>5. ASSUME NEW i \in DOMAIN s PROVE s[i] \in Members(t)
  <2>1. CASE i < k
    <3>1. i \in DOMAIN t /\ i \in 1 .. k - 1
      BY <1>1, <1>2, <2>1
    <3> QED BY <1>1, <3>1 DEF Members
  <2>2. CASE i >= k
    <3>1. i + 1 \in DOMAIN t /\ i \in k .. m
      BY <1>1, <1>2, <2>2
    <3> QED BY <1>1, <3>1 DEF Members
  <2> QED BY <1>1, <1>2, <2>1, <2>2
<1>6. Members(s) \subseteq Members(t)
  BY <1>5 DEF Members
<1>7. Members(t) \ {0} \subseteq Members(s)
  <2> HIDE DEF g
  <2> QED BY <1>3 DEF Members
<1> QED BY <1>4, <1>6, <1>7 DEF Rising

\* The positions of a sequence made of three.
LEMMA ThreeParts ==
    ASSUME NEW a \in Seq(Bytes), NEW q \in Seq(Bytes), NEW t \in Seq(Bytes)
    PROVE  /\ (a \o q) \o t \in Seq(Bytes)
           /\ DOMAIN ((a \o q) \o t) = 1 .. Len(a) + Len(q) + Len(t)
           /\ Len(a) \in Nat /\ Len(q) \in Nat /\ Len(t) \in Nat
           /\ \A i \in 1 .. Len(a) : ((a \o q) \o t)[i] = a[i]
           /\ \A i \in 1 .. Len(q) : ((a \o q) \o t)[Len(a) + i] = q[i]
           /\ \A i \in 1 .. Len(t) : ((a \o q) \o t)[Len(a) + Len(q) + i] = t[i]
<1> DEFINE l == Len(a)
           m == Len(q)
           n == Len(t)
           b == a \o q
           x == b \o t
<1>1. l \in Nat /\ m \in Nat /\ n \in Nat
  BY LenProperties
<1>2. /\ b \in Seq(Bytes) /\ Len(b) = l + m
      /\ \A i \in 1 .. l + m : b[i] = IF i <= l THEN a[i] ELSE q[i - l]
  BY ConcatProperties
<1>3. /\ x \in Seq(Bytes) /\ Len(x) = Len(b) + n
      /\ \A i \in 1 .. Len(b) + n : x[i] = IF i <= Len(b) THEN b[i] ELSE t[i - Len(b)]
  BY <1>2, ConcatProperties
<1> HIDE DEF l, m, n, b, x
<1>4. DOMAIN x = 1 .. l + m + n
  BY <1>1, <1>2, <1>3, LenProperties
<1>5. ASSUME NEW i \in 1 .. l PROVE x[i] = a[i]
  <2>1. i \in 1 .. l + m /\ i \in 1 .. Len(b) + n /\ i <= l /\ i <= Len(b)
    BY <1>1, <1>2
  <2> QED BY <1>2, <1>3, <2>1
<1>6. ASSUME NEW i \in 1 .. m PROVE x[l + i] = q[i]
  <2>1. /\ l + i \in 1 .. l + m /\ l + i \in 1 .. Len(b) + n /\ ~(l + i <= l) /\ l + i <= Len(b)
        /\ (l + i) - l = i
    BY <1>1, <1>2
  <2>2. x[l + i] = b[l + i] /\ b[l + i] = q[(l + i) - l]
    BY <1>2, <1>3, <2>1
  <2> QED BY <2>1, <2>2
<1>7. ASSUME NEW i \in 1 .. n PROVE x[l + m + i] = t[i]
  <2>1. /\ l + m + i \in 1 .. Len(b) + n /\ ~(l + m + i <= Len(b))
        /\ (l + m + i) - Len(b) = i
    BY <1>1, <1>2
  <2>2. x[l + m + i] = t[(l + m + i) - Len(b)]
    BY <1>3, <2>1
  <2> QED BY <2>1, <2>2
<1> QED BY <1>1, <1>3, <1>4, <1>5, <1>6, <1>7 DEF x, b, l, m, n

\* What a sequence of bytes holds.
LEMMA BytesOf == \A s \in Seq(Bytes) : \A i \in DOMAIN s : s[i] \in Bytes
OBVIOUS

\* A queue thrown away takes exactly its own characters with it.
LEMMA Dropped ==
    ASSUME NEW a \in Seq(Bytes), NEW q \in Seq(Bytes), NEW t \in Seq(Bytes),
           NEW x, x = (a \o q) \o t, NEW y, y = (a \o <<>>) \o t, Rising(x)
    PROVE  Rising(y) /\ Members(y) \ {0} = (Members(x) \ {0}) \ Members(q)
<1> DEFINE l == Len(a)
           m == Len(q)
           n == Len(t)
           e == <<>>
<1>0. e \in Seq(Bytes) /\ Len(e) = 0 /\ y = (a \o e) \o t
  OBVIOUS
<1>1. /\ DOMAIN x = 1 .. l + m + n /\ l \in Nat /\ m \in Nat /\ n \in Nat
      /\ \A i \in 1 .. l : x[i] = a[i]
      /\ \A i \in 1 .. m : x[l + i] = q[i]
      /\ \A i \in 1 .. n : x[l + m + i] = t[i]
  BY ThreeParts
<1> HIDE DEF e
<1>2. /\ DOMAIN y = 1 .. l + Len(e) + n
      /\ \A i \in 1 .. l : y[i] = a[i]
      /\ \A i \in 1 .. n : y[l + Len(e) + i] = t[i]
  BY <1>0, ThreeParts
<1>3. DOMAIN q = 1 .. m
  BY LenProperties
<1> HIDE DEF l, m, n
<1>4. /\ DOMAIN y = 1 .. l + n
      /\ \A i \in 1 .. n : y[l + i] = t[i]
  <2>1. l + Len(e) = l
    BY <1>0, <1>1
  <2> QED BY <1>2, <2>1
<1> DEFINE g(i) == IF i <= l THEN i ELSE m + i
<1>5. ASSUME NEW i \in DOMAIN y
      PROVE  g(i) \in DOMAIN x /\ y[i] = x[g(i)] /\ ~(l < g(i) /\ g(i) <= l + m)
  <2>1. CASE i <= l
    <3>1. i \in 1 .. l /\ g(i) = i /\ g(i) \in DOMAIN x /\ ~(l < g(i))
      BY <1>1, <1>4, <2>1
    <3>2. x[i] = a[i] /\ y[i] = a[i]
      BY <1>1, <1>2, <3>1
    <3> HIDE DEF g
    <3> QED BY <3>1, <3>2
  <2>2. CASE i > l
    <3>1. /\ i - l \in 1 .. n /\ g(i) = l + m + (i - l) /\ g(i) \in DOMAIN x
          /\ l + (i - l) = i /\ ~(g(i) <= l + m)
      BY <1>1, <1>4, <2>2
    <3>2. y[l + (i - l)] = t[i - l] /\ x[l + m + (i - l)] = t[i - l]
      BY <1>1, <1>4, <3>1
    <3> HIDE DEF g
    <3> QED BY <3>1, <3>2
  <2>3. i <= l \/ i > l
    BY <1>1, <1>4
  <2> QED BY <2>1, <2>2, <2>3
<1>6. ASSUME NEW i \in DOMAIN x, ~(l < i /\ i <= l + m)
      PROVE  \E j \in DOMAIN y : y[j] = x[i]
  <2>1. CASE i <= l
    <3>1. i \in 1 .. l /\ i \in DOMAIN y
      BY <1>1, <1>4, <2>1
    <3> QED BY <1>1, <1>2, <3>1
  <2>2. CASE i > l + m
    <3>1. /\ i - (l + m) \in 1 .. n /\ l + m + (i - (l + m)) = i
          /\ l + (i - (l + m)) \in DOMAIN y
      BY <1>1, <1>4, <2>2
    <3>2. x[l + m + (i - (l + m))] = t[i - (l + m)] /\ y[l + (i - (l + m))] = t[i - (l + m)]
      BY <1>1, <1>4, <3>1
    <3> QED BY <3>1, <3>2
  <2>3. i <= l \/ i > l + m
    BY <1>1, <1>6
  <2> QED BY <2>1, <2>2, <2>3
<1>7. ASSUME NEW i \in DOMAIN y, NEW j \in DOMAIN y, i < j, y[i] # 0, y[j] # 0
      PROVE  y[i] < y[j]
  <2>1. g(i) < g(j)
    BY <1>1, <1>4, <1>7
  <2>2. g(i) \in DOMAIN x /\ g(j) \in DOMAIN x /\ y[i] = x[g(i)] /\ y[j] = x[g(j)]
    BY <1>5
  <2> HIDE DEF g
  <2> QED BY <1>7, <2>1, <2>2 DEF Rising
<1> HIDE DEF g
<1>8. ASSUME NEW i \in DOMAIN x, NEW j \in DOMAIN x, i # j, x[i] # 0 PROVE x[i] # x[j]
  <2>0. x \in Seq(Bytes)
    BY ThreeParts
  <2>1. SUFFICES ASSUME x[i] = x[j] PROVE FALSE
    OBVIOUS
  <2>2. x[i] \in Int /\ x[j] \in Int
    <3>1. x[i] \in Bytes /\ x[j] \in Bytes
      BY <2>0, <1>8, BytesOf, Zenon
    <3>2. Bytes \subseteq Int
      BY PlatformAssumption DEF Bytes
    <3> QED BY <3>1, <3>2, Zenon
  <2>3. CASE i < j
    <3>1. x[i] < x[j]
      BY <1>8, <2>1, <2>3 DEF Rising
    <3> QED BY <2>1, <2>2, <3>1
  <2>4. CASE j < i
    <3>1. x[j] < x[i]
      BY <1>8, <2>1, <2>4 DEF Rising
    <3> QED BY <2>1, <2>2, <3>1
  <2> QED BY <1>1, <1>8, <2>3, <2>4
<1>9. ASSUME NEW v, v # 0 PROVE v \in Members(y) <=> v \in Members(x) /\ v \notin Members(q)
  <2>1. ASSUME v \in Members(y) PROVE v \in Members(x) /\ v \notin Members(q)
    <3>1. PICK i \in DOMAIN y : v = y[i]
      BY <2>1 DEF Members
    <3>2. g(i) \in DOMAIN x /\ v = x[g(i)] /\ ~(l < g(i) /\ g(i) <= l + m)
      BY <1>5, <3>1
    <3>3. v \in Members(x)
      BY <3>2 DEF Members
    <3>4. ASSUME v \in Members(q) PROVE FALSE
      <4>1. PICK k \in 1 .. m : v = q[k]
        BY <1>3, <3>4 DEF Members
      <4>2. l + k \in DOMAIN x /\ v = x[l + k] /\ l < l + k /\ l + k <= l + m
        BY <1>1, <4>1
      <4>3. g(i) # l + k
        BY <3>2, <4>2
      <4> QED BY <1>8, <1>9, <3>2, <4>2, <4>3
    <3> QED BY <3>3, <3>4
  <2>2. ASSUME v \in Members(x), v \notin Members(q) PROVE v \in Members(y)
    <3>1. PICK i \in DOMAIN x : v = x[i]
      BY <2>2 DEF Members
    <3>2. ~(l < i /\ i <= l + m)
      <4>1. SUFFICES ASSUME l < i, i <= l + m PROVE FALSE
        OBVIOUS
      <4>2. i - l \in 1 .. m /\ l + (i - l) = i
        BY <1>1, <4>1
      <4>3. x[l + (i - l)] = q[i - l]
        BY <1>1, <4>2
      <4> QED BY <1>3, <2>2, <3>1, <4>2, <4>3 DEF Members
    <3> QED BY <1>6, <3>1, <3>2 DEF Members
  <2> QED BY <2>1, <2>2
<1>10. Members(y) \ {0} = (Members(x) \ {0}) \ Members(q)
  BY <1>9
<1> QED BY <1>7, <1>10 DEF Rising

\* A character typed is the last of all.
LEMMA TypedLast ==
    ASSUME NEW x \in Seq(Bytes), Rising(x), NEW v \in Bytes, \A d \in Members(x) : d < v
    PROVE  Rising(Append(x, v)) /\ Members(Append(x, v)) = Members(x) \cup {v}
<1> DEFINE y == Append(x, v)
           n == Len(x)
<1>1. /\ y \in Seq(Bytes) /\ Len(y) = n + 1
      /\ \A i \in 1 .. n : y[i] = x[i]
      /\ y[n + 1] = v
  BY AppendProperties
<1>2. n \in Nat /\ DOMAIN x = 1 .. n /\ DOMAIN y = 1 .. n + 1
  BY <1>1, LenProperties
<1> HIDE DEF y, n
<1>3. \A i \in 1 .. n : x[i] < v
  BY <1>2 DEF Members
<1>4. ASSUME NEW i \in DOMAIN y, NEW j \in DOMAIN y, i < j, y[i] # 0, y[j] # 0
      PROVE  y[i] < y[j]
  <2>1. i \in 1 .. n
    BY <1>2, <1>4
  <2>2. CASE j = n + 1
    BY <1>1, <1>3, <2>1, <2>2
  <2>3. CASE j # n + 1
    <3>1. j \in 1 .. n
      BY <1>2, <2>3
    <3> QED BY <1>1, <1>2, <1>4, <2>1, <3>1 DEF Rising
  <2> QED BY <2>2, <2>3
<1>5. Members(y) = Members(x) \cup {v}
  <2>1. ASSUME NEW i \in DOMAIN y PROVE y[i] \in Members(x) \cup {v}
    <3>1. i \in 1 .. n \/ i = n + 1
      BY <1>2
    <3> QED BY <1>1, <1>2, <3>1 DEF Members
  <2>2. ASSUME NEW i \in DOMAIN x PROVE x[i] \in Members(y)
    <3>1. i \in 1 .. n /\ i \in DOMAIN y
      BY <1>2
    <3>2. y[i] = x[i]
      BY <1>1, <3>1
    <3> QED BY <3>1, <3>2 DEF Members
  <2>3. v \in Members(y)
    BY <1>1, <1>2 DEF Members
  <2>4. Members(y) \subseteq Members(x) \cup {v}
    BY <2>1 DEF Members
  <2>5. Members(x) \subseteq Members(y)
    BY <2>2 DEF Members
  <2> QED BY <2>3, <2>4, <2>5
<1> QED BY <1>4, <1>5 DEF Rising, y

\* x holds, in order, the n characters typed except those in c.
Holds(x, n, c) == Rising(x) /\ Members(x) \ {0} = (1 .. n) \ c

\* What update_interrupt throws away is what it takes from the queue it is given.
LEMMA UpdateKeepsInput ==
    ASSUME NEW u, UartReady(u), update_interrupt(u),
           NEW r \in Seq(Bytes), NEW t \in Seq(Bytes),
           cleared \subseteq 0 .. typed, typed \in Nat,
           Holds((r \o u.rx) \o t, typed, cleared)
    PROVE  Holds((r \o uart'.rx) \o t, typed, cleared') /\ cleared' \subseteq 0 .. typed
<1> DEFINE c == Cleared(u)
           q == u.rx
           x == (r \o q) \o t
           y == (r \o <<>>) \o t
<1>1. u \in UartType /\ q \in Seq(Bytes)
  BY DEF UartReady, UartType, Bytes
<1>2. UartReady(c)
  BY ClearedReady
<1>3. c.rx = q \/ c.rx = <<>>
  BY <1>1 DEF Cleared, UartType
<1>4. /\ uart' = [c EXCEPT !.iir = Interrupts(c),
                           !.lsr = IF "THRI" \in c.ier THEN c.lsr ELSE c.lsr \cup Empty]
      /\ cleared' = IF c.rx # q THEN cleared \cup Range(q) ELSE cleared
  BY DEF update_interrupt
<1> HIDE DEF c
<1>5. c \in UartType
  BY <1>2 DEF UartReady
<1>6. uart'.rx = c.rx
  BY <1>4, <1>5 DEF UartType
<1>7. CASE c.rx = q
  BY <1>4, <1>6, <1>7
<1>8. CASE c.rx # q
  <2>1. uart'.rx = <<>> /\ cleared' = cleared \cup Members(q)
    BY <1>3, <1>4, <1>6, <1>8 DEF Range, Members
  <2>2. Rising(x) /\ Members(x) \ {0} = (1 .. typed) \ cleared
    BY DEF Holds
  <2>3. Rising(y) /\ Members(y) \ {0} = (Members(x) \ {0}) \ Members(q)
    <3> HIDE DEF q
    <3> QED BY <1>1, <2>2, Dropped
  <2>4. Members(y) \ {0} = (1 .. typed) \ cleared'
    BY <2>1, <2>2, <2>3
  <2>5. Members(q) \subseteq Members(x)
    <3> HIDE DEF q
    <3>1. /\ DOMAIN x = 1 .. Len(r) + Len(q) + Len(t)
          /\ Len(r) \in Nat /\ Len(q) \in Nat /\ Len(t) \in Nat
          /\ \A i \in 1 .. Len(q) : x[Len(r) + i] = q[i]
      BY <1>1, ThreeParts
    <3>2. DOMAIN q = 1 .. Len(q)
      BY <1>1, LenProperties
    <3> HIDE DEF x
    <3>3. ASSUME NEW i \in DOMAIN q PROVE q[i] \in Members(x)
      <4>1. Len(r) + i \in DOMAIN x /\ x[Len(r) + i] = q[i]
        BY <3>1, <3>2
      <4> QED BY <4>1 DEF Members
    <3> QED BY <3>3 DEF Members
  <2>6. cleared' \subseteq 0 .. typed
    <3>1. ASSUME NEW d \in Members(q) PROVE d \in 0 .. typed
      <4>1. d \in Members(x)
        BY <2>5
      <4> HIDE DEF x
      <4>2. d = 0 \/ d \in 1 .. typed
        BY <2>2, <4>1
      <4> QED BY <4>2
    <3> HIDE DEF q
    <3> QED BY <2>1, <3>1
  <2> QED BY <2>1, <2>3, <2>4, <2>6 DEF Holds
<1> QED BY <1>7, <1>8

\* InputInv in terms of the parts of the input.
LEMMA InputParts ==
    ASSUME BoardInv, InputInv
    PROVE  /\ Holds((received \o uart.rx) \o terminal, typed, cleared)
           /\ received \in Seq(Bytes) /\ uart.rx \in Seq(Bytes) /\ terminal \in Seq(Bytes)
           /\ cleared \subseteq 0 .. typed /\ typed \in Nat /\ UartReady(uart) /\ uart \in UartType
<1>1. Holds((received \o uart.rx) \o terminal, typed, cleared)
  BY DEF InputInv, InputIntact, Input, Holds, Rising, Members
<1> QED BY <1>1, PlatformAssumption
        DEF InputInv, BoardInv, LoopInv, UartInv, UartReady, UartType, Bytes

\* A load hands the oldest byte to the guest, or a 0.
LEMMA LoadKeepsInput ==
    ASSUME BoardInv, InputInv, uart_load_rx, received' = Append(received, rx_value),
           typed' = typed
    PROVE  InputInv'
<1> DEFINE u == IF "DLAB" \in uart.lcr THEN uart ELSE rx_byte
           v == rx_value
           r == Append(received, v)
           q == uart.rx
           t == terminal
<1>1. /\ Holds((received \o q) \o t, typed, cleared)
      /\ received \in Seq(Bytes) /\ q \in Seq(Bytes) /\ t \in Seq(Bytes)
      /\ cleared \subseteq 0 .. typed /\ typed \in Nat /\ UartReady(uart) /\ uart \in UartType
  BY InputParts
<1>2. update_interrupt(u) /\ terminal' = t
  BY DEF uart_load_rx
<1>3. UartReady(u)
  BY <1>1, RxReady
<1>4. r \in Seq(Bytes) /\ Holds((r \o u.rx) \o t, typed, cleared)
  <2>1. CASE "DLAB" \in uart.lcr \/ q = <<>>
    <3>1. v = 0 /\ u.rx = q
      BY <1>1, <2>1 DEF rx_value, rx_byte, UartType
    <3> HIDE DEF v, q, t, u
    <3>2. Zeroed(received, r, Len(received) + 1)
      BY <1>1, <3>1, ZeroAppended
    <3> HIDE DEF r
    <3>3. Zeroed(received \o q, r \o q, Len(received) + 1)
      BY <1>1, <3>2, ZeroedBefore
    <3>4. Zeroed((received \o q) \o t, (r \o q) \o t, Len(received) + 1)
      BY <1>1, <3>3, ZeroedBefore
    <3>5. /\ Rising((r \o q) \o t)
          /\ Members((r \o q) \o t) \ {0} = Members((received \o q) \o t) \ {0}
      BY <1>1, <3>4, ZeroedKeeps DEF Holds
    <3> QED BY <1>1, <3>1, <3>2, <3>5 DEF Holds, Zeroed
  <2>2. CASE ~("DLAB" \in uart.lcr \/ q = <<>>)
    <3>1. v = Head(q) /\ u.rx = Tail(q) /\ q # <<>>
      BY <1>1, <2>2 DEF rx_value, rx_byte, UartType
    <3> HIDE DEF v, q, t, u
    <3>2. r \in Seq(Bytes) /\ r \o Tail(q) = received \o q
      BY <1>1, <3>1, Moved
    <3> QED BY <1>1, <3>1, <3>2
  <2> QED BY <2>1, <2>2
<1> HIDE DEF r, u, t
<1>5. Holds((r \o uart'.rx) \o t, typed, cleared') /\ cleared' \subseteq 0 .. typed
  BY <1>1, <1>2, <1>3, <1>4, UpdateKeepsInput
<1>6. received' = r
  BY DEF r
<1> QED BY <1>2, <1>4, <1>5, <1>6
        DEF InputInv, InputIntact, Input, Holds, Rising, Members

\* A store puts at most a byte of the guest's own into the queue.
LEMMA StoreKeepsInput ==
    ASSUME BoardInv, InputInv, NEW reg, NEW v, Storable(reg, v), uart_store(reg, v),
           received' = received, typed' = typed
    PROVE  InputInv'
<1> DEFINE q == uart.rx
           t == terminal
           r == received
<1>1. /\ Holds((r \o q) \o t, typed, cleared)
      /\ r \in Seq(Bytes) /\ q \in Seq(Bytes) /\ t \in Seq(Bytes)
      /\ cleared \subseteq 0 .. typed /\ typed \in Nat
  BY InputParts
<1>2. PICK u : /\ UartReady(u) /\ update_interrupt(u)
               /\ u.rx = q \/ u.rx = Append(q, 0)
  BY StoreUpdates DEF BoardInv
<1>3. terminal' = t
  BY DEF uart_store
<1> HIDE DEF q, t, r
<1>4. Holds((r \o u.rx) \o t, typed, cleared)
  <2>1. CASE u.rx = q
    BY <1>1, <2>1
  <2>2. CASE u.rx = Append(q, 0)
    <3> DEFINE b == r \o q
    <3>1. 0 \in Bytes
      BY PlatformAssumption DEF Bytes
    <3>2. r \o Append(q, 0) = Append(b, 0) /\ b \in Seq(Bytes)
      BY <1>1, <3>1, AppendedLast
    <3>3. Holds(b \o t, typed, cleared)
      BY <1>1
    <3> HIDE DEF b
    <3>4. Zeroed(b, Append(b, 0), Len(b) + 1)
      BY <3>2, ZeroAppended
    <3>5. Zeroed(b \o t, Append(b, 0) \o t, Len(b) + 1)
      BY <1>1, <3>4, ZeroedBefore
    <3>6. /\ Rising(Append(b, 0) \o t)
          /\ Members(Append(b, 0) \o t) \ {0} = Members(b \o t) \ {0}
      BY <3>3, <3>5, ZeroedKeeps DEF Holds
    <3> QED BY <2>2, <3>2, <3>3, <3>6 DEF Holds
  <2> QED BY <1>2, <2>1, <2>2
<1>5. Holds((r \o uart'.rx) \o t, typed, cleared') /\ cleared' \subseteq 0 .. typed
  BY <1>1, <1>2, <1>4, UpdateKeepsInput
<1> QED BY <1>1, <1>3, <1>5
        DEF InputInv, InputIntact, Input, Holds, Rising, Members, r

\* A tick moves a character from the terminal to the queue.
LEMMA TickKeepsInput ==
    ASSUME BoardInv, InputInv, uart_tick, received' = received, typed' = typed
    PROVE  InputInv'
<1> DEFINE q == uart.rx
           t == terminal
           r == received
<1>1. /\ Holds((r \o q) \o t, typed, cleared)
      /\ r \in Seq(Bytes) /\ q \in Seq(Bytes) /\ t \in Seq(Bytes)
      /\ cleared \subseteq 0 .. typed /\ typed \in Nat /\ UartReady(uart) /\ uart \in UartType
  BY InputParts
<1>2. CASE UNCHANGED <<uart, terminal, cleared>>
  BY <1>2 DEF InputInv, InputIntact, Input
<1>3. CASE /\ Len(q) < UART_QUEUE_SIZE /\ t # <<>>
           /\ terminal' = Tail(t) /\ update_interrupt(Received(uart, Head(t)))
  <2> DEFINE u == Received(uart, Head(t))
             b == r \o q
  <2>1. Head(t) \in Bytes /\ Tail(t) \in Seq(Bytes)
    BY <1>1, <1>3, Moved
  <2>2. UartReady(u)
    BY <1>1, <1>3, <2>1, ReceivedReady DEF Bytes
  <2>3. u.rx = Append(q, Head(t))
    BY <1>1 DEF Received, UartType
  <2> HIDE DEF q, t, r
  <2>4. r \o Append(q, Head(t)) = Append(b, Head(t)) /\ b \in Seq(Bytes)
    BY <1>1, <2>1, AppendedLast
  <2> HIDE DEF b
  <2>5. Append(b, Head(t)) \o Tail(t) = b \o t
    BY <1>1, <1>3, <2>4, Moved
  <2>6. Holds((r \o u.rx) \o Tail(t), typed, cleared)
    BY <1>1, <2>3, <2>4, <2>5 DEF b
  <2> HIDE DEF u
  <2>7. update_interrupt(u)
    BY <1>3 DEF u
  <2>8. Holds((r \o uart'.rx) \o Tail(t), typed, cleared') /\ cleared' \subseteq 0 .. typed
    BY <1>1, <2>1, <2>2, <2>6, <2>7, UpdateKeepsInput
  <2> QED BY <1>1, <1>3, <2>8
          DEF InputInv, InputIntact, Input, Holds, Rising, Members, r
<1>4. Len(q) \in Nat /\ UART_QUEUE_SIZE \in Nat
  BY <1>1, LenProperties, UartAssumption
<1> QED BY <1>2, <1>3, <1>4 DEF uart_tick, uartVars

\* A character typed joins the end.
LEMMA TypeKeepsInput ==
    ASSUME BoardInv, InputInv, type
    PROVE  InputInv'
<1> DEFINE x == (received \o uart.rx) \o terminal
           v == typed + 1
<1>1. /\ Holds(x, typed, cleared)
      /\ received \in Seq(Bytes) /\ uart.rx \in Seq(Bytes) /\ terminal \in Seq(Bytes)
      /\ cleared \subseteq 0 .. typed /\ typed \in Nat
  BY InputParts
<1>2. /\ typed < MaxTyped /\ typed' = v /\ terminal' = Append(terminal, v)
      /\ uart' = uart /\ cleared' = cleared /\ received' = received
  BY DEF type
<1>3. v \in Bytes /\ v \in Nat
  BY <1>1, <1>2, PlatformAssumption DEF Bytes
<1> DEFINE b == received \o uart.rx
<1>4. b \in Seq(Bytes)
  BY <1>1, ConcatProperties
<1>5. b \o Append(terminal, v) = Append(x, v) /\ x \in Seq(Bytes)
  <2>1. x = b \o terminal
    OBVIOUS
  <2> HIDE DEF b, x, v
  <2> QED BY <1>1, <1>3, <1>4, <2>1, AppendedLast
<1> HIDE DEF x
<1>6. \A d \in Members(x) : d < v
  BY <1>1 DEF Holds
<1> HIDE DEF v
<1>7. Rising(Append(x, v)) /\ Members(Append(x, v)) = Members(x) \cup {v}
  BY <1>1, <1>3, <1>5, <1>6, TypedLast DEF Holds
<1>8. Members(Append(x, v)) \ {0} = (1 .. v) \ cleared
  <2>1. (1 .. v) \ cleared = ((1 .. typed) \ cleared) \cup {v}
    BY <1>1 DEF v
  <2>2. v # 0
    BY <1>1 DEF v
  <2> QED BY <1>1, <1>7, <2>1, <2>2 DEF Holds
<1>9. Holds(Append(x, v), v, cleared)
  BY <1>7, <1>8 DEF Holds
<1>10. Input' = Append(x, v)
  BY <1>2, <1>5 DEF Input
<1>11. cleared' \subseteq 0 .. typed'
  BY <1>1, <1>2 DEF v
<1> QED BY <1>1, <1>2, <1>9, <1>10, <1>11 DEF InputInv, InputIntact, Holds, Rising, Members

\* Nothing has been typed at the start.
LEMMA InitInput == PlatformInit => InputInv
<1> SUFFICES ASSUME PlatformInit PROVE InputInv
  OBVIOUS
<1>1. /\ received = <<>> /\ uart.rx = <<>> /\ terminal = <<>> /\ cleared = {} /\ typed = 0
  BY DEF PlatformInit, UartInit
<1>2. Input = <<>>
  BY <1>1 DEF Input
<1> QED BY <1>1, <1>2 DEF InputInv, InputIntact

\* Every step of the board keeps the input.
LEMMA NextInput == BoardInv /\ InputInv /\ [PlatformNext]_allVars => InputInv'
<1> SUFFICES ASSUME BoardInv, InputInv, [PlatformNext]_allVars PROVE InputInv'
  OBVIOUS
<1>1. CASE type
  BY <1>1, TypeKeepsInput
<1>2. CASE end_of_turn
  <2>1. received' = received /\ typed' = typed
    BY <1>2 DEF end_of_turn
  <2>2. CASE current_proc' = 0
    BY <1>2, <2>1, <2>2, TickKeepsInput DEF end_of_turn
  <2>3. CASE current_proc' # 0
    <3>1. uart' = uart /\ terminal' = terminal /\ cleared' = cleared
      BY <1>2, <2>3 DEF end_of_turn, NoDevice, uartVars
    <3> QED BY <2>1, <3>1 DEF InputInv, InputIntact, Input
  <2> QED BY <2>2, <2>3
<1>3. CASE handle_rx
  BY <1>3, LoadKeepsInput DEF handle_rx
<1>4. CASE main_send
  <2>1. /\ uart_store("IER", {"RDI", "THRI"}) /\ Storable("IER", {"RDI", "THRI"})
        /\ received' = received /\ typed' = typed
    BY <1>4 DEF main_send, Storable, IerBits, Others
  <2> QED BY <2>1, StoreKeepsInput
<1>5. CASE handle_tx
  <2>1. /\ uart_store("IER", {"RDI"}) /\ Storable("IER", {"RDI"})
        /\ received' = received /\ typed' = typed
    BY <1>5 DEF handle_tx, Storable, IerBits, Others
  <2> QED BY <2>1, StoreKeepsInput
<1>6. CASE boot_store
  <2> DEFINE s == Boot[booted + 1]
  <2>1. booted + 1 \in 1 .. Len(Boot) /\ typed' = typed
        /\ received' = IF s.reg = "RX" THEN Append(received, rx_value) ELSE received
    <3>1. pc[current_proc] = "boot" /\ current_proc \in Contexts
      BY <1>6 DEF boot_store, At, h0, BoardInv, LoopInv
    <3>2. booted < Len(Boot) /\ booted \in 0 .. Len(Boot) /\ Len(Boot) \in Nat
      BY <3>1, BootAssumption DEF BoardInv, LoopInv
    <3> QED BY <1>6, <3>2 DEF boot_store
  <2>2. CASE s.reg \in {"PRIORITY", "ENABLE"}
    <3>1. ~uart_store("PRIORITY", s.value) /\ ~uart_store("ENABLE", s.value)
      BY DEF uart_store
    <3>2. PlicOnly
      BY <1>6, <2>2, <3>1 DEF boot_store
    <3>3. uart' = uart /\ terminal' = terminal /\ cleared' = cleared
      BY <3>2 DEF PlicOnly, uartVars
    <3>4. received' = received
      BY <2>1, <2>2
    <3> QED BY <2>1, <3>3, <3>4 DEF InputInv, InputIntact, Input
  <2>3. CASE s.reg = "RX"
    <3>1. uart_load_rx
      BY <1>6, <2>3 DEF boot_store
    <3> QED BY <2>1, <2>3, <3>1, LoadKeepsInput
  <2>4. CASE s.reg \notin {"PRIORITY", "ENABLE", "RX"}
    <3>1. uart_store(s.reg, s.value)
      BY <1>6, <2>4 DEF boot_store
    <3>2. Storable(s.reg, s.value)
      BY <2>1, <2>4, BootAssumption DEF Storable
    <3>3. received' = received
      BY <2>1, <2>4
    <3> HIDE DEF s
    <3> QED BY <2>1, <3>1, <3>2, <3>3, StoreKeepsInput
  <2> QED BY <2>2, <2>3, <2>4
<1>7. CASE \/ take_pending_interrupt \/ wait_for_interrupt \/ main_work \/ main_set_time
           \/ main_wfi \/ main_kick \/ main_unroute \/ main_route \/ handle_claim
           \/ handle_poll \/ handle_complete \/ handle_kick \/ timer_high \/ timer_low
           \/ timer_done \/ handle_mret \/ UNCHANGED allVars
  <2>1. received' = received /\ typed' = typed
    BY <1>7 DEF take_pending_interrupt, wait_for_interrupt, main_work, main_set_time, main_wfi,
        main_kick, main_unroute, main_route, handle_claim, handle_poll, handle_complete,
        handle_kick, timer_high, timer_low, timer_done, handle_mret, Others, allVars
  <2>2. UNCHANGED uartVars
    BY <1>7 DEF take_pending_interrupt, wait_for_interrupt, main_work, main_set_time, main_wfi,
        main_kick, main_unroute, main_route, handle_claim, handle_poll, handle_complete,
        handle_kick, timer_high, timer_low, timer_done, handle_mret, NoDevice, PlicOnly,
        ClintOnly, allVars
  <2>3. uart' = uart /\ terminal' = terminal /\ cleared' = cleared
    BY <2>2 DEF uartVars
  <2> QED BY <2>1, <2>3 DEF InputInv, InputIntact, Input
<1> QED BY <1>1, <1>2, <1>3, <1>4, <1>5, <1>6, <1>7 DEF PlatformNext, Simulate, Guest

\* ns16550_t: whatever the guest boots with and does, and whenever someone types, each
\* character is in one place and none overtakes another; only a register write that
\* clears the queue loses any.
THEOREM InputKept == PlatformSpec => []InputIntact
<1>1. PlatformInit => InputInv
  BY InitInput
<1>2. BoardInv /\ InputInv /\ [PlatformNext]_allVars => InputInv'
  BY NextInput
<1>3. InputInv => InputIntact
  BY DEF InputInv
<1> QED BY <1>1, <1>2, <1>3, BoardInvariant, PTL DEF PlatformSpec
=============================================================================
