-------------------------------- MODULE Plic --------------------------------
(***************************************************************************)
(* The platform-level interrupt controller of the simulator                *)
(* (riscv/plic.cc, class plic_t) together with the one bit of each hart's  *)
(* mip register that it drives: MEIP for an M-mode context, SEIP for an    *)
(* S-mode context.                                                         *)
(*                                                                         *)
(* A bit vector of the code (enable, pending, claimed, level) is the set   *)
(* of the source numbers whose bit is one.  Registers are written one word *)
(* of WordBits sources at a time (32 in the code).  A double-word access   *)
(* is two word accesses in sequence, and the loads that only read state    *)
(* (priority, pending, enable, threshold) are left out: they change        *)
(* nothing.  A load of the claim register does, and is context_claim.      *)
(***************************************************************************)
EXTENDS Naturals

CONSTANTS
    NumContexts,  \* contexts.size(): one M-mode context per hart, one S-mode if it has S
    NumIds,       \* num_ids = ndev + 1; source 0 does not exist
    MaxPrio,      \* max_prio = 2^PLIC_PRIO_BITS - 1
    WordBits,     \* sources per enable register, 32 in the code
    SMode,        \* the contexts whose bit is SEIP, which M-mode software can write
    HartOf        \* the hart of each context

Contexts == 0 .. NumContexts - 1
Ids      == 1 .. NumIds - 1
Prios    == 0 .. MaxPrio
NumWords == (NumIds + WordBits - 1) \div WordBits    \* num_ids_word
Words    == 0 .. NumWords - 1
Vals     == 0 .. MaxPrio + 1    \* register writes; the largest one overflows the field
Word(w)  == {id \in Ids : id \div WordBits = w}

ASSUME PlicAssumption ==
    /\ NumContexts \in Nat \ {0}
    /\ NumIds \in Nat \ {0}
    /\ MaxPrio \in Nat
    /\ WordBits \in Nat \ {0}
    /\ SMode \subseteq Contexts
    /\ DOMAIN HartOf = Contexts

VARIABLES
    priority,          \* priority[id], as software last wrote it
    level,             \* the sources whose wire is high
    threshold,         \* c->priority_threshold
    enable,            \* c->enable
    pending,           \* c->pending
    pending_priority,  \* c->pending_priority, latched when pending is set
    claimed,           \* c->claimed
    mip,               \* the MEIP or SEIP bit of the context's hart
    overwritten        \* history: contexts whose mip bit someone else wrote since the last context_update

ctxVars == <<threshold, enable, pending, pending_priority, claimed>>
vars    == <<priority, level, ctxVars, mip, overwritten>>

\* The registers of plic_t keep the widths plic_t::store gives them.
TypeOK ==
    /\ priority \in [Ids -> Prios]
    /\ level \subseteq Ids
    /\ threshold \in [Contexts -> Prios]
    /\ enable \in [Contexts -> SUBSET Ids]
    /\ pending \in [Contexts -> SUBSET Ids]
    /\ pending_priority \in [Contexts -> [Ids -> Prios]]
    /\ claimed \in [Contexts -> SUBSET Ids]
    /\ mip \in [Contexts -> BOOLEAN]
    /\ overwritten \subseteq Contexts

Init ==
    /\ priority = [id \in Ids |-> 0]
    /\ level = {}
    /\ threshold = [c \in Contexts |-> 0]
    /\ enable = [c \in Contexts |-> {}]
    /\ pending = [c \in Contexts |-> {}]
    /\ pending_priority = [c \in Contexts |-> [id \in Ids |-> 0]]
    /\ claimed = [c \in Contexts |-> {}]
    /\ mip = [c \in Contexts |-> FALSE]
    /\ overwritten = {}

-----------------------------------------------------------------------------
(***************************************************************************)
(* The source context c would claim now: among its pending, unclaimed      *)
(* sources the one of highest latched priority, the lowest-numbered one on *)
(* a tie, and 0 unless that priority exceeds the threshold.                *)
(***************************************************************************)
Candidates(c) == pending[c] \ claimed[c]

Beats(c, i, j) ==
    \/ pending_priority[c][i] > pending_priority[c][j]
    \/ pending_priority[c][i] = pending_priority[c][j] /\ i <= j

context_best_pending(c) ==
    LET best == {i \in Candidates(c) :
                    /\ \A j \in Candidates(c) : Beats(c, i, j)
                    /\ pending_priority[c][i] > threshold[c]}
    IN  IF best = {} THEN 0 ELSE CHOOSE i \in best : TRUE

\* Mutant: the last source is taken for a bit beyond the sources.
visited_short(c) ==
    {id \in 0 .. NumWords * WordBits - 1 :
        /\ Word(id \div WordBits) \cap pending[c] # {}
        /\ id + 1 < NumIds
        /\ id \in pending[c]
        /\ id \notin claimed[c]}

\* The same choice as the code makes it.  The loop over the words skips a word
\* without pending bits; the loop over the bits of a word skips those beyond the
\* sources (the last word may be partial), those not pending and those in service.
Visited(c) ==
    {id \in 0 .. NumWords * WordBits - 1 :
        /\ Word(id \div WordBits) \cap pending[c] # {}
        /\ id < NumIds
        /\ id \in pending[c]
        /\ id \notin claimed[c]}

\* The best source after the first n bits of all the words, one after the other.
ScanBest(c) ==
    LET prio(id) == pending_priority[c][id]
        scan[n \in 0 .. NumWords * WordBits] ==
            IF n = 0 THEN 0
            ELSE IF n - 1 \in Visited(c) /\ (scan[n - 1] = 0 \/ prio(scan[n - 1]) < prio(n - 1))
                 THEN n - 1 ELSE scan[n - 1]
        best == scan[NumWords * WordBits]
    IN  IF best = 0 THEN 0 ELSE IF prio(best) <= threshold[c] THEN 0 ELSE best

Interrupting(c) == context_best_pending(c) # 0

\* The last thing every operation on a context does.
context_update(c) ==
    /\ mip' = [mip EXCEPT ![c] = Interrupting(c)']
    /\ overwritten' = overwritten \ {c}

-----------------------------------------------------------------------------
\* Mutant: the field mask is off by one.
priority_write_unmasked(id, val) ==
    /\ priority' = [priority EXCEPT ![id] = val % (MaxPrio + 2)]
    /\ UNCHANGED <<level, ctxVars, mip, overwritten>>

\* Store to a priority register.  The latched priorities stay as they are.
priority_write(id, val) ==
    /\ priority' = [priority EXCEPT ![id] = val % (MaxPrio + 1)]
    /\ UNCHANGED <<level, ctxVars, mip, overwritten>>

\* Load of the claim register.
context_claim(c) ==
    /\ claimed' = IF Interrupting(c)
                  THEN [claimed EXCEPT ![c] = @ \cup {context_best_pending(c)}]
                  ELSE claimed
    /\ UNCHANGED <<priority, level, threshold, enable, pending, pending_priority>>
    /\ context_update(c)

\* Mutant: disabling a source forgets to drop its claim.
enable_write_keeps_claim(c, w, on) ==
    LET new  == (enable[c] \ Word(w)) \cup (on \cap Word(w))
        rise == (new \ enable[c]) \cap level
        fall == enable[c] \ new
    IN  /\ enable' = [enable EXCEPT ![c] = new]
        /\ pending' = [pending EXCEPT ![c] = (@ \cup rise) \ fall]
        /\ pending_priority' =
              [pending_priority EXCEPT ![c] =
                  [id \in Ids |-> IF id \in rise THEN priority[id]
                                  ELSE IF id \in fall THEN 0 ELSE @[id]]]
        /\ UNCHANGED <<priority, level, threshold, claimed>>
        /\ context_update(c)

\* Mutant: a source enabled while its wire is high is not made pending.
enable_write_ignores_level(c, w, on) ==
    LET new  == (enable[c] \ Word(w)) \cup (on \cap Word(w))
        fall == enable[c] \ new
    IN  /\ enable' = [enable EXCEPT ![c] = new]
        /\ pending' = [pending EXCEPT ![c] = @ \ fall]
        /\ pending_priority' = [pending_priority EXCEPT ![c] =
                                   [id \in Ids |-> IF id \in fall THEN 0 ELSE @[id]]]
        /\ claimed' = [claimed EXCEPT ![c] = @ \ fall]
        /\ UNCHANGED <<priority, level, threshold>>
        /\ context_update(c)

\* Store to enable word w: a source newly enabled becomes pending if its wire
\* is high, one newly disabled loses its pending and claimed bits.
context_enable_write(c, w, on) ==
    LET new  == (enable[c] \ Word(w)) \cup (on \cap Word(w))
        rise == (new \ enable[c]) \cap level
        fall == enable[c] \ new
    IN  /\ enable' = [enable EXCEPT ![c] = new]
        /\ pending' = [pending EXCEPT ![c] = (@ \cup rise) \ fall]
        /\ pending_priority' =
              [pending_priority EXCEPT ![c] =
                  [id \in Ids |-> IF id \in rise THEN priority[id]
                                  ELSE IF id \in fall THEN 0 ELSE @[id]]]
        /\ claimed' = [claimed EXCEPT ![c] = @ \ fall]
        /\ UNCHANGED <<priority, level, threshold>>
        /\ context_update(c)

\* Mutant: a new threshold forgets the trailing context_update.
threshold_without_update(c, val) ==
    /\ threshold' = [threshold EXCEPT ![c] = val % (MaxPrio + 1)]
    /\ UNCHANGED <<priority, level, enable, pending, pending_priority, claimed, mip, overwritten>>

\* Store to the threshold register.
context_write_threshold(c, val) ==
    /\ threshold' = [threshold EXCEPT ![c] = val % (MaxPrio + 1)]
    /\ UNCHANGED <<priority, level, enable, pending, pending_priority, claimed>>
    /\ context_update(c)

\* Mutant: completion forgets the trailing context_update.
complete_without_update(c, id) ==
    /\ id \in enable[c]
    /\ claimed' = [claimed EXCEPT ![c] = @ \ {id}]
    /\ UNCHANGED <<priority, level, threshold, enable, pending, pending_priority, mip>>
    /\ overwritten' = overwritten \ {c}

\* Store to the claim register: completion, ignored for a source that context
\* c does not have enabled.
context_write_claim(c, id) ==
    /\ id \in enable[c]
    /\ claimed' = [claimed EXCEPT ![c] = @ \ {id}]
    /\ UNCHANGED <<priority, level, threshold, enable, pending, pending_priority>>
    /\ context_update(c)

FirstEnabled(c, id) ==
    /\ id \in enable[c]
    /\ \A d \in Contexts : d < c => id \notin enable[d]

\* A device drives its wire.  The loop over the contexts stops at the first
\* one that has the source enabled.
set_interrupt_level(id, lvl) ==
    /\ level' = IF lvl THEN level \cup {id} ELSE level \ {id}
    /\ UNCHANGED <<priority, threshold, enable>>
    /\ \/ \E c \in Contexts :
            /\ FirstEnabled(c, id)
            /\ pending' = [pending EXCEPT ![c] = IF lvl THEN @ \cup {id} ELSE @ \ {id}]
            /\ pending_priority' =
                  [pending_priority EXCEPT ![c][id] = IF lvl THEN priority[id] ELSE 0]
            /\ claimed' = [claimed EXCEPT ![c] = IF lvl THEN @ ELSE @ \ {id}]
            /\ context_update(c)
       \/ /\ \A c \in Contexts : id \notin enable[c]
          /\ UNCHANGED <<pending, pending_priority, claimed, mip, overwritten>>

\* M-mode software writes mip: SEIP is writable and shares its storage with
\* the bit the PLIC drives (mip_csr_t::write_mask).
csr_write_seip(c, b) ==
    /\ c \in SMode
    /\ mip' = [mip EXCEPT ![c] = b]
    /\ overwritten' = overwritten \cup {c}
    /\ UNCHANGED <<priority, level, ctxVars>>

\* processor_t::reset, at the debugger's request: csr_init gives the hart a
\* fresh mip; the PLIC is not told.
hart_reset(h) ==
    LET own == {c \in Contexts : HartOf[c] = h}
    IN  /\ mip' = [c \in Contexts |-> mip[c] /\ c \notin own]
        /\ overwritten' = overwritten \cup own
        /\ UNCHANGED <<priority, level, ctxVars>>

Next ==
    \/ \E id \in Ids, val \in Vals : priority_write(id, val)
    \/ \E c \in Contexts : context_claim(c)
    \/ \E c \in Contexts, w \in Words : \E on \in SUBSET Word(w) : context_enable_write(c, w, on)
    \/ \E c \in Contexts, val \in Vals : context_write_threshold(c, val)
    \/ \E c \in Contexts, id \in Ids : context_write_claim(c, id)
    \/ \E id \in Ids, lvl \in BOOLEAN : set_interrupt_level(id, lvl)
    \/ \E c \in Contexts, b \in BOOLEAN : csr_write_seip(c, b)
    \/ \E h \in {HartOf[c] : c \in Contexts} : hart_reset(h)

Spec == Init /\ [][Next]_vars

-----------------------------------------------------------------------------
(***************************************************************************)
(* Properties of every behaviour.                                          *)
(***************************************************************************)

\* The external-interrupt bit of a context's hart says whether the context
\* has something to claim, unless software or a hart reset wrote the bit
\* after the last context_update: every path of plic_t that changes what
\* context_best_pending returns ends in context_update.
MipCoherent == \A c \in Contexts \ overwritten : mip[c] = Interrupting(c)

\* MEIP, which software cannot write, is never set without a source to claim:
\* a reset may lose an interrupt but nothing invents one.
NoSpuriousMeip == \A c \in Contexts \ SMode : mip[c] => Interrupting(c)

\* A source in service is pending and a pending source is enabled, in the same
\* context: disabling a source or dropping its wire also ends its service.
ServiceNesting == \A c \in Contexts : claimed[c] \subseteq pending[c] /\ pending[c] \subseteq enable[c]

\* The loops of context_best_pending over words and bits, a partial last word
\* included, return the highest latched priority above the threshold and, among
\* equals, the lowest source number.
ScanAgrees == \A c \in Contexts : ScanBest(c) = context_best_pending(c)

\* "PLIC interrupts are level-triggered" (plic.cc:307): a source stays pending
\* only as long as its wire is high.
PendingFollowsWire == \A c \in Contexts : pending[c] \subseteq level

-----------------------------------------------------------------------------
(***************************************************************************)
(* Software that never enables one source in two contexts at a time, the   *)
(* way an operating system routes an interrupt to one hart.                *)
(***************************************************************************)
Exclusive == \A c, d \in Contexts : c # d => enable[c] \cap enable[d] = {}

ExclusiveSpec == Init /\ [][Next /\ Exclusive']_vars

\* With each source routed to one context at a time the gateway is
\* level-triggered in both directions, hand-overs of a source from one
\* context to another while its wire is high included.
LevelTriggered == \A c \in Contexts : pending[c] = level \cap enable[c]

\* With each source routed to one context at a time no source is in service
\* in two contexts.
OneServer == \A c, d \in Contexts : c # d => claimed[c] \cap claimed[d] = {}
=============================================================================
