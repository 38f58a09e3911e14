------------------------------- MODULE LruCache -------------------------------
(***************************************************************************)
(* What a write-back LRU cache promises, without ways or counters: in each *)
(* set the resident tags, which of them are dirty, which was used before   *)
(* which, and how much room is left.  An access brings its tag in as the   *)
(* newest; when there is no room the oldest leaves.                        *)
(***************************************************************************)
EXTENDS Naturals

CONSTANTS
    Slots,    \* the sets of the cache
    ways,     \* how many tags a set holds
    Tags

VARIABLES
    resident, dirty,   \* per set
    older,             \* per set: pairs, the first used longer ago than the second
    free               \* per set

vars == <<resident, dirty, older, free>>

Init ==
    /\ resident = [i \in Slots |-> {}]
    /\ dirty = [i \in Slots |-> {}]
    /\ older = [i \in Slots |-> {}]
    /\ free = [i \in Slots |-> ways]

\* Set i holds the tags of keep and, as its newest, t.
Refill(i, keep, t, wr) ==
    /\ resident' = [resident EXCEPT ![i] = keep \cup {t}]
    /\ dirty' = [dirty EXCEPT ![i] = (dirty[i] \cap (keep \cup {t})) \cup (IF wr THEN {t} ELSE {})]
    /\ older' = [older EXCEPT ![i] = (older[i] \cap (keep \X keep)) \cup (keep \X {t})]

Hit(i, t, wr) ==
    /\ t \in resident[i]
    /\ Refill(i, resident[i] \ {t}, t, wr)
    /\ UNCHANGED free

Fill(i, t, wr) ==
    /\ t \notin resident[i]
    /\ free[i] > 0
    /\ Refill(i, resident[i], t, wr)
    /\ free' = [free EXCEPT ![i] = free[i] - 1]

Replace(i, t, wr) ==
    /\ t \notin resident[i]
    /\ free[i] = 0
    /\ \E v \in resident[i] :
          /\ \A u \in resident[i] : <<u, v>> \notin older[i]
          /\ Refill(i, resident[i] \ {v}, t, wr)
    /\ UNCHANGED free

Access(i, t, wr) == Hit(i, t, wr) \/ Fill(i, t, wr) \/ Replace(i, t, wr)

Next == \E i \in Slots, t \in Tags, wr \in BOOLEAN : Access(i, t, wr)

Spec == Init /\ [][Next]_vars
=============================================================================
