------------------------------- MODULE MCHart -------------------------------
(***************************************************************************)
(* Instances of Hart for TLC: firmware that delegates everything to the     *)
(* guest with the double-trap bits in use, and firmware that delegates the *)
(* exceptions to HS only with the guest's double-trap bit off.             *)
(***************************************************************************)
EXTENDS Hart

Exc == {"fault", "break"}
Cfg(me, he, mi, hi, md, hd) ==
    [medeleg |-> me, hedeleg |-> he, mideleg |-> mi, hideleg |-> hi,
     mdte |-> md, hdte |-> hd]

MCCfgs == {Cfg(Exc, Exc, {"SSI"}, {"VSSI"}, TRUE, TRUE),
           Cfg(Exc, {}, {"SSI"}, {"VSSI"}, TRUE, FALSE)}

MCPendings == {{}, {"MSI"}, {"SSI"}, {"VSSI"}, {"MSI", "SSI", "VSSI"}}

MCDcsrWrites == {[prv |-> 0, v |-> TRUE, step |-> FALSE]}
=============================================================================
