---------------------------- MODULE MCDebugModule ----------------------------
(***************************************************************************)
(* Instances of DebugModule for TLC.                                       *)
(***************************************************************************)
EXTENDS DebugModule

\* The default hart ids.
Plain == [s \in Sels |-> s]

\* Hart ids that are not the indices.
Shifted == [s \in Sels |-> s + 1]

\* dmcontrol values.  Idle selects a hart; the others also ask it for something.
Idle(s) == [dmactive |-> TRUE, haltreq |-> FALSE, resumereq |-> FALSE, hartreset |-> FALSE,
            ackhavereset |-> FALSE, hasel |-> FALSE, ndmreset |-> FALSE, hartsel |-> s]
Off == [Idle(0) EXCEPT !.dmactive = FALSE]

Halts   == {[Idle(s) EXCEPT !.haltreq = TRUE] : s \in Sels}
Resumes == {[Idle(s) EXCEPT !.resumereq = TRUE] : s \in Sels}
Resets  == {[Idle(0) EXCEPT !.hartreset = TRUE], [Idle(1) EXCEPT !.ndmreset = TRUE]}
Many    == {[v EXCEPT !.hasel = TRUE] : v \in Halts \cup Resumes}

HaltResume        == Halts \cup Resumes
HaltBothResumeOne == Halts \cup {[Idle(0) EXCEPT !.resumereq = TRUE]}
WithArray         == {Off, Idle(NumHarts)} \cup Resets \cup Many

Nothing  == {}
Zero     == {0}
Bits     == {0, 1}
BothMask == {{}, Harts}
GroupOne == {1}
OneGone  == {{}, {1}}
AllAuto  == {{}, {"data", "progbuf"}}

EveryKind   == {"read", "write_exec", "custom_read", "badreg"}
ReadThenRun == {"read_exec"}
JustExec    == {"exec"}
Fine        == {"ok"}
JustFault   == {"fault"}
=============================================================================
