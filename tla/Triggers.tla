------------------------------- MODULE Triggers -------------------------------
(***************************************************************************)
(* The address triggers of one hart (riscv/triggers.cc): the writes of the  *)
(* trigger CSRs by native software and by the debugger, who share the       *)
(* registers under the dmode and chain rules, and the match of an access.   *)
(*                                                                         *)
(* A trigger is of type mcontrol (the rules are the same for mcontrol6, but *)
(* for a timing that cannot be requested) or disabled, and compares the     *)
(* address for equality.  The hit bits, which only a read of tdata1 shows,  *)
(* the textra conditions and the trace actions are not kept.                *)
(***************************************************************************)
EXTENDS Integers, FiniteSets, FiniteSetsExt

CONSTANTS Triggers,     \* number of triggers
          TriggerVals   \* the values software and debuggers write to tdata1

ASSUME TriggersAssumption == Triggers \in Nat \ {0}

VARIABLE triggers       \* [index -> trigger]

Operations == {"fetch", "load", "store"}
TIndex == 1 .. Triggers
Disabled == [type |-> "disabled", dmode |-> FALSE, chain |-> FALSE,
             ops |-> {}, after |-> FALSE, action |-> "exception", modes |-> {},
             tdata2 |-> 0]

TriggersReset == [i \in TIndex |-> Disabled]

-----------------------------------------------------------------------------
(* Matching.                                                               *)

(* An action-0 trigger is held back in M-mode while interrupts are off:     *)
(* here M-mode software runs with mstatus.MIE clear.  In S-mode it would be *)
(* held back while SIE is clear and medeleg has breakpoints: here it has    *)
(* not, and breakpoints go to M-mode.                                       *)
common_match(t, prv) == prv \in t.modes /\ (t.action = "exception" => prv # 3)

matches(t, operation, address, prv) ==
    /\ operation \in t.ops
    /\ common_match(t, prv)
    /\ address = t.tdata2

(* A trigger is looked at only if the chain that leads to it held so far;   *)
(* of those that end a chain the first with the strongest action counts.    *)
detect_memory_access_match(operation, address, prv) ==
    LET Hit(i) == matches(triggers[i], operation, address, prv)
        chain_ok[i \in TIndex] ==
            i = 1 \/ ~triggers[i - 1].chain \/ (chain_ok[i - 1] /\ Hit(i - 1))
        firing == {i \in TIndex : chain_ok[i] /\ Hit(i) /\ ~triggers[i].chain}
        strong == {i \in firing : triggers[i].action = "debug"}
    IN  IF firing = {} THEN {}
        ELSE {triggers[Min(IF strong # {} THEN strong ELSE firing)]}

-----------------------------------------------------------------------------
(* Writes.                                                                 *)

allow_chain(i, val) ==
    ~(i < Triggers /\ triggers[i + 1].dmode /\ ~val.dmode)

legalize_timing(val) == val.after /\ "fetch" \notin val.ops
legalize_action(val) ==
    IF val.action = "debug" /\ ~val.dmode THEN "exception" ELSE val.action

tdata1_refused(i, val, debug_mode) ==
    \/ triggers[i].dmode /\ ~debug_mode
    \/ /\ i > 1 /\ ~triggers[i - 1].dmode /\ triggers[i - 1].chain
       /\ val.dmode /\ debug_mode

\* dmode is writable from debug mode only
tdata1_written(i, val, debug_mode) ==
    LET tdata1 == [val EXCEPT !.dmode = @ /\ debug_mode]
    IN  IF val.type = "disabled"
        THEN [Disabled EXCEPT !.dmode = tdata1.dmode, !.tdata2 = triggers[i].tdata2]
        ELSE [tdata1 EXCEPT !.after = legalize_timing(tdata1),
                            !.action = legalize_action(tdata1),
                            !.chain = @ /\ allow_chain(i, val),
                            !.tdata2 = triggers[i].tdata2]

tdata1_write(i, val, debug_mode) ==
    /\ ~tdata1_refused(i, val, debug_mode)
    /\ triggers' = [triggers EXCEPT ![i] = tdata1_written(i, val, debug_mode)]

tdata2_write(i, address, debug_mode) ==
    /\ triggers[i].dmode => debug_mode
    /\ triggers' = [triggers EXCEPT ![i].tdata2 = address]
=============================================================================
