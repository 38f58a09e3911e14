----------------------------- MODULE MCJtagDtm -----------------------------
(* Instances of JtagDtm for TLC. *)
EXTENDS JtagDtm

Sbcs(onaddr, access, ondata, inc, clear) ==
    [readonaddr |-> onaddr, sbaccess |-> access, autoincrement |-> inc, readondata |-> ondata,
     error |-> IF clear THEN {0, 1, 2} ELSE {}, sbbusyerror |-> clear]

TwoSbcs == {Sbcs(TRUE, 0, FALSE, TRUE, TRUE), Sbcs(FALSE, 1, TRUE, TRUE, FALSE)}

SomeScans ==
    {Scan(DMI_OP_WRITE, "sbcs", v) : v \in TwoSbcs} \cup
    {Scan(DMI_OP_WRITE, "sbaddress0", 2),
     Scan(DMI_OP_WRITE, "sbdata0", 1),
     Scan(DMI_OP_WRITE, "dmcontrol", 0),
     Scan(DMI_OP_WRITE, "dmcontrol", 1),
     Scan(DMI_OP_READ, "sbdata0", 0),
     Scan(DMI_OP_READ, "none", 0)}

EndsMapped == {0, 2}
Zero       == {0}
Last       == {2}
=============================================================================
