-------------------------------- MODULE MCMmu --------------------------------
(***************************************************************************)
(* An instance of Mmu for TLC: two virtual pages that share one TLB entry,  *)
(* three physical pages of two sectors, two PMP entries, two triggers.      *)
(***************************************************************************)
EXTENDS Mmu, TLC

T == TRUE
F == FALSE

Pte(ppn, r, w, x, u, d) ==
    [v |-> TRUE, ppn |-> ppn, r |-> r, w |-> w, x |-> x, u |-> u,
     a |-> T, d |-> d]

Kernel == Pte(1, T, T, T, F, T)
User == Pte(0, T, T, T, T, F)
MCPtes == {Pte(0, T, F, T, F, T)}
MCBootPt == [v \in Vpn |-> IF v = 0 THEN Kernel ELSE User]

C(a, r, w, x, l) == [a |-> a, r |-> r, w |-> w, x |-> x, l |-> l]
MCPmpCfgs == {C("tor", T, F, T, T), C("na4", F, F, F, T), C("napot", T, T, T, F)}
MCPmpAddrs == {3}
MCMsecVals == {[mml |-> F, mmwp |-> F, rlb |-> T], [mml |-> T, mmwp |-> F, rlb |-> F]}

MCStatusVals ==
    {[mprv |-> F, mpp |-> PRV_S, sum |-> F, mxr |-> F],
     [mprv |-> T, mpp |-> PRV_S, sum |-> T, mxr |-> F]}

Tr(d, c, ops, after, act) ==
    [type |-> "mcontrol", dmode |-> d, chain |-> c, ops |-> ops,
     after |-> after, action |-> act, modes |-> Modes, tdata2 |-> 2]
MCTriggerVals ==
    {Tr(T, F, {"load"}, T, "debug"), Tr(F, F, {"fetch", "store"}, F, "exception"),
     Tr(T, T, {"fetch", "store"}, F, "debug")}

\* the second kind of firmware locks all but the first sector read-only,
\* itself included, and stops S-mode after loads from address 1
MCBoots ==
    {[pmp |-> PmpReset, triggers |-> TriggersReset],
     [pmp |-> [addr |-> 0 :> 1 @@ 1 :> 5,
               cfg |-> 0 :> Unused @@ 1 :> C("tor", T, F, T, T)],
      triggers |-> 1 :> [Tr(F, F, {"load"}, T, "exception") EXCEPT !.tdata2 = 1]
                   @@ 2 :> Disabled]}
=============================================================================
