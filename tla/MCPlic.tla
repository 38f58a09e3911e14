------------------------------- MODULE MCPlic -------------------------------
(***************************************************************************)
(* Instances of Plic for TLC.                                              *)
(***************************************************************************)
EXTENDS Plic

\* One hart with M and S mode: context 0 drives MEIP, context 1 SEIP.
OneHart == [c \in Contexts |-> 0]
SecondIsSMode == {1}

\* Two harts without S mode.
HartPerContext == [c \in Contexts |-> c]
NoSMode == {}

\* Bound: the S-mode context serves one source only, at threshold 0.
SmallSMode == enable[1] \subseteq {1} /\ threshold[1] = 0
=============================================================================
