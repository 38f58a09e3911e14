----------------------------- MODULE HostProofs -----------------------------
(***************************************************************************)
(* Proofs about Host: the table of file descriptors, for any program that  *)
(* does not duplicate a descriptor, and the line of answers, for any       *)
(* program at all; for any set of files, any limit on host descriptors,    *)
(* and whatever is typed or signalled meanwhile.                           *)
(***************************************************************************)
EXTENDS Host, TLAPS, FiniteSetTheorems, WellFoundedInduction, SequenceTheorems

\* fcntl(F_DUPFD) hands the host's number to the program as if it were one of the
\* table: without it the table is all there is.
NoDupFd == \A c \in Commands : c.op # "dupfd"

\* The simulator's record has its fields and their ranges.
HostRecord(h) ==
    /\ h = [exitcode |-> h.exitcode, fds |-> h.fds, open |-> h.open, ret |-> h.ret,
            fromhost_queue |-> h.fromhost_queue, pending_reads |-> h.pending_reads,
            typed |-> h.typed]
    /\ h.exitcode \in Nat
    /\ h.typed \in 0 .. MaxTyped

\* The kernel's side: its descriptors have numbers within the limit, and the
\* simulator's own three are never closed.
KernelOk(open) == DOMAIN open \subseteq 0 .. MaxHostFds - 1 /\ 0 .. 2 \subseteq DOMAIN open

\* The table's side: what the program holds is what is not free, it leads to the file
\* opened under it, to each by one descriptor, and to every file but the simulator's.
TableOk(fds, open, view) ==
    /\ fds \in Seq((0 .. MaxHostFds - 1) \cup {Free})
    /\ DOMAIN view = {fd \in 0 .. Len(fds) - 1 : fds[fd + 1] # Free}
    /\ \A fd \in DOMAIN view : /\ fds[fd + 1] \in DOMAIN open \ (0 .. 2)
                               /\ open[fds[fd + 1]] = view[fd]
    /\ \A fd, fe \in DOMAIN view : fd # fe => fds[fd + 1] # fds[fe + 1]
    /\ \A n \in DOMAIN open \ (0 .. 2) : \E fd \in DOMAIN view : fds[fd + 1] = n

Intact(h, view) == HostRecord(h) /\ KernelOk(h.open) /\ TableOk(h.fds, h.open, view)

\* A command of the program, or none.
CommandOk(c) ==
    c = None \/ \E d \in Commands : c.dev = d.dev /\ c.op = d.op /\ c.arg = d.arg

\* The inductive invariant.
HostIInv ==
    /\ Intact(host, held)
    /\ mem = [tohost |-> mem.tohost, fromhost |-> mem.fromhost]
    /\ CommandOk(mem.tohost)
    /\ phase \in {"poll", "idle", "stopped", "dead"}

-----------------------------------------------------------------------------
(***************************************************************************)
(* The first free slot and the lowest free number exist.                   *)
(***************************************************************************)

\* A nonempty set of numbers has a least element.
LEMMA LeastNumber ==
    ASSUME NEW T, T \subseteq Nat, T # {}
    PROVE  \E n \in T : \A k \in 0 .. n - 1 : k \notin T
<1> DEFINE R == OpToRel(<, Nat)
<1>1. \A x, y \in Nat : y < x => <<y, x>> \in R
  BY Zenon DEF OpToRel
<1>2. IsWellFoundedOn(R, Nat)
  BY NatLessThanWellFounded
<1> HIDE DEF R
<1>3. PICK n \in T : \A k \in T : ~ (<<k, n>> \in R)
  BY <1>2, WFMin
<1>4. \A k \in T : ~ (k < n)
  BY <1>1, <1>3, Zenon
<1>5. ASSUME NEW k \in 0 .. n - 1 PROVE k \notin T
  <2>1. n \in Nat /\ k \in Nat /\ k < n
    OBVIOUS
  <2> QED BY <1>4, <2>1
<1> QED BY <1>5

\* fds_t::alloc finds a slot that is free, or makes one.
LEMMA SlotFound ==
    ASSUME NEW h, h.fds \in Seq((0 .. MaxHostFds - 1) \cup {Free})
    PROVE  /\ FreeSlot(h) \in 0 .. Len(h.fds)
           /\ FreeSlot(h) < Len(h.fds) => h.fds[FreeSlot(h) + 1] = Free
<1> DEFINE T == {i \in 0 .. Len(h.fds) : lookup(h, i) = Free}
<1>1. Len(h.fds) \in Nat
  BY LenProperties
<1>2. Len(h.fds) \in T
  BY <1>1 DEF lookup
<1>a. T \subseteq Nat /\ T # {}
  BY <1>1, <1>2
<1>3. PICK n \in T : \A k \in 0 .. n - 1 : k \notin T
  <2> HIDE DEF T
  <2> QED BY <1>a, LeastNumber
<1>4. \A j \in 0 .. n - 1 : lookup(h, j) # Free
  BY <1>1, <1>3
<1>5. /\ FreeSlot(h) \in 0 .. Len(h.fds)
      /\ lookup(h, FreeSlot(h)) = Free
  BY <1>3, <1>4 DEF FreeSlot
<1> QED BY <1>1, <1>5 DEF lookup

\* While the process has fewer descriptors than it may, the kernel has a number.
LEMMA NumberFound ==
    ASSUME NEW h, KernelOk(h.open), Cardinality(DOMAIN h.open) < MaxHostFds
    PROVE  LowestFree(h) \in 0 .. MaxHostFds - 1 /\ LowestFree(h) \notin DOMAIN h.open
<1> DEFINE All == 0 .. MaxHostFds - 1
           T == All \ DOMAIN h.open
<1>1. MaxHostFds \in Nat /\ MaxHostFds > 0
  BY HostAssumption
<1>2. IsFiniteSet(All) /\ Cardinality(All) = MaxHostFds
  BY <1>1, FS_Interval
<1>3. T # {}
  <2>1. SUFFICES ASSUME T = {} PROVE FALSE
    OBVIOUS
  <2>2. DOMAIN h.open = All
    BY <2>1 DEF KernelOk
  <2>3. Cardinality(DOMAIN h.open) = MaxHostFds
    BY <1>2, <2>2, Zenon
  <2> QED BY <1>1, <2>3
<1>4. T \subseteq Nat
  BY <1>1
<1> HIDE DEF T
<1>5. PICK n \in T : \A k \in 0 .. n - 1 : k \notin T
  BY <1>3, <1>4, LeastNumber
<1>6. /\ n \in 0 .. MaxHostFds /\ n \notin DOMAIN h.open
      /\ \A k \in 0 .. n - 1 : k \in DOMAIN h.open
  BY <1>1, <1>5 DEF T
<1>7. /\ LowestFree(h) \in 0 .. MaxHostFds /\ LowestFree(h) \notin DOMAIN h.open
      /\ \A k \in 0 .. LowestFree(h) - 1 : k \in DOMAIN h.open
  BY <1>6 DEF LowestFree
<1>8. n \in 0 .. MaxHostFds - 1
  BY <1>5 DEF T
<1>9. LowestFree(h) <= n
  BY <1>1, <1>6, <1>7, <1>8
<1> QED BY <1>1, <1>7, <1>8, <1>9

-----------------------------------------------------------------------------
(***************************************************************************)
(* The table through a call.                                               *)
(***************************************************************************)

\* A file opened under a free slot i and a new host number n.
Opened(fds, open, view, n, i, file, fds2, open2, view2) ==
    /\ n \in 0 .. MaxHostFds - 1 /\ n \notin DOMAIN open
    /\ i \in 0 .. Len(fds) /\ (i < Len(fds) => fds[i + 1] = Free)
    /\ fds2 = IF i = Len(fds) THEN Append(fds, n) ELSE [fds EXCEPT ![i + 1] = n]
    /\ open2 = [k \in DOMAIN open \cup {n} |-> IF k \in DOMAIN open THEN open[k] ELSE file]
    /\ view2 = [fd \in DOMAIN view \cup {i} |-> IF fd = i THEN file ELSE view[fd]]

\* The table is then as intact as before.
LEMMA OpenedIntact ==
    ASSUME NEW fds, NEW open, NEW view, KernelOk(open), TableOk(fds, open, view),
           NEW n, NEW i, NEW file, NEW fds2, NEW open2, NEW view2,
           Opened(fds, open, view, n, i, file, fds2, open2, view2)
    PROVE  KernelOk(open2) /\ TableOk(fds2, open2, view2)
<1>0. /\ n \in 0 .. MaxHostFds - 1 /\ n \notin DOMAIN open
      /\ i \in 0 .. Len(fds) /\ (i < Len(fds) => fds[i + 1] = Free)
      /\ fds2 = IF i = Len(fds) THEN Append(fds, n) ELSE [fds EXCEPT ![i + 1] = n]
      /\ open2 = [k \in DOMAIN open \cup {n} |-> IF k \in DOMAIN open THEN open[k] ELSE file]
      /\ view2 = [fd \in DOMAIN view \cup {i} |-> IF fd = i THEN file ELSE view[fd]]
  BY DEF Opened
<1> DEFINE Slots == (0 .. MaxHostFds - 1) \cup {Free}
<1>1. MaxHostFds \in Nat /\ Free \notin 0 .. MaxHostFds - 1 /\ n # Free /\ n \in Slots
  BY <1>0, HostAssumption DEF Free
<1>2. fds \in Seq(Slots) /\ Len(fds) \in Nat
  BY <1>0, LenProperties DEF TableOk
<1>3. /\ fds2 \in Seq(Slots)
      /\ Len(fds2) = IF i = Len(fds) THEN Len(fds) + 1 ELSE Len(fds)
      /\ fds2[i + 1] = n
      /\ \A fd \in 0 .. Len(fds) - 1 : fd # i => fds2[fd + 1] = fds[fd + 1]
  <2>1. CASE i = Len(fds)
    <3>1. fds2 = Append(fds, n)
      BY <1>0, <2>1
    <3> HIDE DEF Slots
    <3>2. /\ fds2 \in Seq(Slots) /\ Len(fds2) = Len(fds) + 1 /\ fds2[Len(fds) + 1] = n
          /\ \A k \in 1 .. Len(fds) : fds2[k] = fds[k]
      BY <1>0, <1>1, <1>2, <3>1, AppendProperties
    <3> QED BY <1>0, <1>2, <2>1, <3>2
  <2>2. CASE i # Len(fds)
    <3>1. i + 1 \in 1 .. Len(fds) /\ fds2 = [fds EXCEPT ![i + 1] = n]
      BY <1>0, <1>2, <2>2
    <3> HIDE DEF Slots
    <3>2. fds2 \in Seq(Slots) /\ Len(fds2) = Len(fds)
      BY <1>0, <1>1, <1>2, <3>1, ExceptSeq
    <3>3. fds2[i + 1] = n /\ \A fd \in 0 .. Len(fds) - 1 : fd # i => fds2[fd + 1] = fds[fd + 1]
      BY <1>0, <1>2, <3>1
    <3> QED BY <1>0, <2>2, <3>2, <3>3
  <2> QED BY <1>0, <2>1, <2>2
<1>4. KernelOk(open2)
  BY <1>0 DEF KernelOk
<1>5. n \notin 0 .. 2
  BY <1>0 DEF KernelOk
<1>6. i \notin DOMAIN view
  BY <1>0, <1>2 DEF TableOk
<1>7. /\ DOMAIN view2 = DOMAIN view \cup {i} /\ view2[i] = file
      /\ \A fd \in DOMAIN view : view2[fd] = view[fd] /\ fd \in 0 .. Len(fds) - 1
                                 /\ fds2[fd + 1] = fds[fd + 1]
  BY <1>0, <1>3, <1>6 DEF TableOk
<1>8. /\ DOMAIN open2 = DOMAIN open \cup {n} /\ open2[n] = file
      /\ \A k \in DOMAIN open : open2[k] = open[k]
  BY <1>0
<1>9. DOMAIN view2 = {fd \in 0 .. Len(fds2) - 1 : fds2[fd + 1] # Free}
  <2>1. ASSUME NEW fd \in DOMAIN view2
        PROVE  fd \in 0 .. Len(fds2) - 1 /\ fds2[fd + 1] # Free
    <3>1. CASE fd = i
      BY <1>0, <1>1, <1>2, <1>3, <3>1
    <3>2. CASE fd # i
      BY <1>2, <1>3, <1>7, <3>2 DEF TableOk
    <3> QED BY <3>1, <3>2
  <2>2. ASSUME NEW fd \in 0 .. Len(fds2) - 1, fds2[fd + 1] # Free
        PROVE  fd \in DOMAIN view2
    <3>1. CASE fd = i
      BY <1>7, <3>1
    <3>2. CASE fd # i
      <4>1. fd \in 0 .. Len(fds) - 1
        BY <1>2, <1>3, <3>2
      <4> QED BY <1>3, <1>7, <2>2, <3>2, <4>1 DEF TableOk
    <3> QED BY <3>1, <3>2
  <2> QED BY <2>1, <2>2
<1>10. \A fd \in DOMAIN view2 : /\ fds2[fd + 1] \in DOMAIN open2 \ (0 .. 2)
                                /\ open2[fds2[fd + 1]] = view2[fd]
  BY <1>3, <1>5, <1>7, <1>8 DEF TableOk
<1>11. \A fd, fe \in DOMAIN view2 : fd # fe => fds2[fd + 1] # fds2[fe + 1]
  <2>1. \A fd \in DOMAIN view : fds2[fd + 1] # n
    BY <1>0, <1>7 DEF TableOk
  <2>2. ASSUME NEW fd \in DOMAIN view, NEW fe \in DOMAIN view, fd # fe
        PROVE  fds2[fd + 1] # fds2[fe + 1]
    <3>1. fds2[fd + 1] = fds[fd + 1] /\ fds2[fe + 1] = fds[fe + 1]
      BY <1>7
    <3>2. fds[fd + 1] # fds[fe + 1]
      BY <2>2 DEF TableOk
    <3> QED BY <3>1, <3>2
  <2> QED BY <1>3, <1>7, <2>1, <2>2
<1>12. \A k \in DOMAIN open2 \ (0 .. 2) : \E fd \in DOMAIN view2 : fds2[fd + 1] = k
  <2>1. \A k \in DOMAIN open \ (0 .. 2) : \E fd \in DOMAIN view : fds2[fd + 1] = k
    BY <1>7 DEF TableOk
  <2> QED BY <1>3, <1>7, <1>8, <2>1
<1> QED BY <1>3, <1>4, <1>9, <1>10, <1>11, <1>12 DEF TableOk

\* A descriptor closed, in the table and in the kernel.
LEMMA ClosedIntact ==
    ASSUME NEW fds, NEW open, NEW view, KernelOk(open), TableOk(fds, open, view),
           NEW i \in DOMAIN view,
           NEW fds2, fds2 = [fds EXCEPT ![i + 1] = Free],
           NEW open2, open2 = [k \in DOMAIN open \ {fds[i + 1]} |-> open[k]],
           NEW view2, view2 = [fd \in DOMAIN view \ {i} |-> view[fd]]
    PROVE  KernelOk(open2) /\ TableOk(fds2, open2, view2)
<1> DEFINE Slots == (0 .. MaxHostFds - 1) \cup {Free}
<1>1. /\ fds \in Seq(Slots) /\ Len(fds) \in Nat
      /\ i \in 0 .. Len(fds) - 1 /\ Free \in Slots
  BY LenProperties DEF TableOk
<1>2. /\ fds2 \in Seq(Slots) /\ Len(fds2) = Len(fds)
      /\ fds2[i + 1] = Free
      /\ \A fd \in 0 .. Len(fds) - 1 : fd # i => fds2[fd + 1] = fds[fd + 1]
  <2> HIDE DEF Slots
  <2>1. i + 1 \in 1 .. Len(fds)
    BY <1>1
  <2>2. fds2 \in Seq(Slots) /\ Len(fds2) = Len(fds)
    BY <1>1, <2>1, ExceptSeq
  <2> QED BY <1>1, <2>1, <2>2
<1>3. KernelOk(open2)
  BY DEF KernelOk, TableOk
<1>4. \A fd \in DOMAIN view2 : /\ fd \in DOMAIN view /\ fd # i /\ view2[fd] = view[fd]
                               /\ fds2[fd + 1] = fds[fd + 1]
  BY <1>2 DEF TableOk
<1>5. DOMAIN view2 = {fd \in 0 .. Len(fds2) - 1 : fds2[fd + 1] # Free}
  BY <1>1, <1>2 DEF TableOk
<1>t. /\ \A fd \in DOMAIN view : /\ fds[fd + 1] \in DOMAIN open \ (0 .. 2)
                                 /\ open[fds[fd + 1]] = view[fd]
      /\ \A fd, fe \in DOMAIN view : fd # fe => fds[fd + 1] # fds[fe + 1]
  BY DEF TableOk
<1>6. ASSUME NEW fd \in DOMAIN view2
      PROVE  /\ fds2[fd + 1] \in DOMAIN open2 \ (0 .. 2)
             /\ open2[fds2[fd + 1]] = view2[fd]
  <2>1. /\ fds2[fd + 1] = fds[fd + 1] /\ view2[fd] = view[fd]
        /\ fd \in DOMAIN view /\ fd # i
    BY <1>4
  <2>2. /\ fds[fd + 1] \in DOMAIN open \ (0 .. 2) /\ fds[fd + 1] # fds[i + 1]
        /\ open[fds[fd + 1]] = view[fd]
    BY <1>t, <2>1, Zenon
  <2>3. fds[fd + 1] \in DOMAIN open2 /\ open2[fds[fd + 1]] = open[fds[fd + 1]]
    BY <2>2
  <2> QED BY <2>1, <2>2, <2>3
<1>7. ASSUME NEW fd \in DOMAIN view2, NEW fe \in DOMAIN view2, fd # fe
      PROVE  fds2[fd + 1] # fds2[fe + 1]
  <2>1. /\ fds2[fd + 1] = fds[fd + 1] /\ fds2[fe + 1] = fds[fe + 1]
        /\ fd \in DOMAIN view /\ fe \in DOMAIN view
    BY <1>4
  <2>2. fds[fd + 1] # fds[fe + 1]
    BY <1>t, <1>7, <2>1, Zenon
  <2> QED BY <2>1, <2>2, Zenon
<1>8. \A k \in DOMAIN open2 \ (0 .. 2) : \E fd \in DOMAIN view2 : fds2[fd + 1] = k
  <2>1. SUFFICES ASSUME NEW k \in DOMAIN open2 \ (0 .. 2)
                 PROVE  \E fd \in DOMAIN view2 : fds2[fd + 1] = k
    OBVIOUS
  <2>2. PICK fd \in DOMAIN view : fds[fd + 1] = k
    BY <2>1 DEF TableOk
  <2>3. fd # i /\ fd \in DOMAIN view2
    BY <2>1, <2>2
  <2> QED BY <1>4, <2>2, <2>3
<1> QED BY <1>2, <1>3, <1>5, <1>6, <1>7, <1>8 DEF TableOk

\* A descriptor that is not bad is one the program holds.
LEMMA GoodFdHeld ==
    ASSUME NEW h, NEW view, Intact(h, view), NEW fd, ~BadFd(h, fd)
    PROVE  fd \in DOMAIN view /\ lookup(h, fd) = h.fds[fd + 1]
<1>1. Free \notin DOMAIN h.open
  BY HostAssumption DEF Intact, KernelOk, Free
<1>2. lookup(h, fd) # Free
  BY <1>1 DEF BadFd
<1>3. fd \in 0 .. Len(h.fds) - 1 /\ lookup(h, fd) = h.fds[fd + 1]
  BY <1>2 DEF lookup
<1> QED BY <1>2, <1>3 DEF Intact, TableOk

-----------------------------------------------------------------------------
(***************************************************************************)
(* The system calls.                                                       *)
(***************************************************************************)

\* What the program makes of the answer to c: View for a table and a result.
Concluded(view, c, ret) ==
    CASE c.dev = "syscall" /\ c.op = "openat" /\ ret # Error ->
            [fd \in DOMAIN view \cup {ret} |-> IF fd = ret THEN c.arg ELSE view[fd]]
      [] c.dev = "syscall" /\ c.op = "close" /\ ret # Error ->
            [fd \in DOMAIN view \ {c.arg} |-> view[fd]]
      [] OTHER -> view

\* Two records with the same table and a terminal no fuller.
SameTable(r, h) ==
    HostRecord(r) /\ r.fds = h.fds /\ r.open = h.open

\* A record with the same table is as intact.
LEMMA SameTableIntact ==
    ASSUME NEW h, NEW view, Intact(h, view), NEW r, SameTable(r, h)
    PROVE  Intact(r, view)
BY DEF Intact, SameTable

\* openat keeps the table, and a file it opened is the program's.
LEMMA OpenatKeeps ==
    ASSUME NEW h, NEW view, Intact(h, view), NEW c, c.dev = "syscall", c.op = "openat",
           NEW r, r = sys_openat(h, c.arg)
    PROVE  Intact(r, Concluded(view, c, r.ret))
<1>1. HostRecord(h) /\ KernelOk(h.open) /\ TableOk(h.fds, h.open, view)
  BY DEF Intact
<1>2. CASE c.arg \in Files /\ Cardinality(DOMAIN h.open) < MaxHostFds
  <2> DEFINE n == LowestFree(h)
             k == KernelOpen(h, c.arg)
             i == FreeSlot(k)
             open2 == [m \in DOMAIN h.open \cup {n} |->
                          IF m \in DOMAIN h.open THEN h.open[m] ELSE c.arg]
             fds2 == IF i = Len(h.fds) THEN Append(h.fds, n) ELSE [h.fds EXCEPT ![i + 1] = n]
             view2 == [fd \in DOMAIN view \cup {i} |-> IF fd = i THEN c.arg ELSE view[fd]]
  <2>1. n \in 0 .. MaxHostFds - 1 /\ n \notin DOMAIN h.open
    BY <1>1, <1>2, NumberFound
  <2>2. k = [h EXCEPT !.open = open2]
    BY DEF KernelOpen
  <2> HIDE DEF n, open2
  <2>3. HostRecord(k) /\ k.fds = h.fds /\ k.open = open2
    BY <1>1, <2>2 DEF HostRecord
  <2> HIDE DEF k
  <2>4. i \in 0 .. Len(h.fds) /\ (i < Len(h.fds) => h.fds[i + 1] = Free)
    BY <1>1, <2>3, SlotFound DEF TableOk
  <2>5. r = [k EXCEPT !.fds = fds2, !.ret = i]
    BY <1>2, <2>3 DEF sys_openat, alloc, n, k
  <2> HIDE DEF i, fds2, view2
  <2>6. KernelOk(open2) /\ TableOk(fds2, open2, view2)
    <3>1. Opened(h.fds, h.open, view, n, i, c.arg, fds2, open2, view2)
      BY <2>1, <2>4 DEF Opened, fds2, open2, view2
    <3> QED BY <1>1, <3>1, OpenedIntact
  <2>7. HostRecord(r) /\ r.fds = fds2 /\ r.open = open2 /\ r.ret = i
    BY <2>3, <2>5 DEF HostRecord
  <2>8. Len(h.fds) \in Nat /\ i # Error
    BY <1>1, <2>4, LenProperties DEF TableOk, Error
  <2>9. Concluded(view, c, r.ret) = view2
    BY <2>7, <2>8 DEF Concluded, view2
  <2> QED BY <2>6, <2>7, <2>9 DEF Intact
<1>3. CASE ~(c.arg \in Files /\ Cardinality(DOMAIN h.open) < MaxHostFds)
  <2>1. r = [h EXCEPT !.ret = Error]
    BY <1>3 DEF sys_openat, fail
  <2>2. SameTable(r, h) /\ r.ret = Error
    BY <1>1, <2>1 DEF HostRecord, SameTable
  <2>3. Concluded(view, c, r.ret) = view
    BY <2>2 DEF Concluded
  <2> QED BY <2>2, <2>3, SameTableIntact
<1> QED BY <1>2, <1>3

\* close keeps the table: the slot and the kernel's descriptor go together.
LEMMA CloseKeeps ==
    ASSUME NEW h, NEW view, Intact(h, view), NEW c, c.dev = "syscall", c.op = "close",
           NEW r, r = sys_close(h, c.arg)
    PROVE  Intact(r, Concluded(view, c, r.ret))
<1>1. HostRecord(h) /\ KernelOk(h.open) /\ TableOk(h.fds, h.open, view)
  BY DEF Intact
<1>2. CASE ~BadFd(h, c.arg)
  <2> DEFINE i == c.arg
             m == h.fds[i + 1]
             open2 == [k \in DOMAIN h.open \ {m} |-> h.open[k]]
             fds2 == [h.fds EXCEPT ![i + 1] = Free]
             view2 == [fd \in DOMAIN view \ {i} |-> view[fd]]
  <2>1. i \in DOMAIN view /\ lookup(h, i) = m
    BY <1>2, GoodFdHeld
  <2>2. KernelOk(open2) /\ TableOk(fds2, open2, view2)
    BY <1>1, <2>1, ClosedIntact
  <2>3. KernelClose(h, m) = [h EXCEPT !.open = open2]
    BY DEF KernelClose
  <2> HIDE DEF open2, m
  <2>4. /\ HostRecord(KernelClose(h, m)) /\ KernelClose(h, m).fds = h.fds
        /\ KernelClose(h, m).open = open2
    BY <1>1, <2>3 DEF HostRecord
  <2>5. dealloc(KernelClose(h, m), i) = [KernelClose(h, m) EXCEPT !.fds = fds2]
    BY <2>4 DEF dealloc
  <2>6. r = [dealloc(KernelClose(h, m), i) EXCEPT !.ret = 0]
    BY <1>2, <2>1 DEF sys_close
  <2> HIDE DEF fds2
  <2>7. HostRecord(r) /\ r.fds = fds2 /\ r.open = open2 /\ r.ret = 0
    BY <2>4, <2>5, <2>6 DEF HostRecord
  <2>8. Concluded(view, c, r.ret) = view2
    BY <2>7 DEF Concluded, Error
  <2> QED BY <2>2, <2>7, <2>8 DEF Intact
<1>3. CASE BadFd(h, c.arg)
  <2>1. r = [h EXCEPT !.ret = Error]
    BY <1>3 DEF sys_close, fail
  <2>2. SameTable(r, h) /\ r.ret = Error
    BY <1>1, <2>1 DEF HostRecord, SameTable
  <2>3. Concluded(view, c, r.ret) = view
    BY <2>2 DEF Concluded
  <2> QED BY <2>2, <2>3, SameTableIntact
<1> QED BY <1>2, <1>3

\* The calls that open and close nothing.
LEMMA OtherKeeps ==
    ASSUME NEW h, NEW view, Intact(h, view), NEW c,
           c.op \in {"read", "write", "exit"}, c.op = "exit" => c.arg \in Nat,
           c.op = "read" /\ ~BadFd(h, c.arg) /\ h.open[lookup(h, c.arg)] = "stdin"
               => h.typed > 0,
           NEW r, r = dispatch(h, c)
    PROVE  SameTable(r, h)
<1>1. HostRecord(h) /\ h.typed \in Nat /\ MaxTyped \in Nat
  BY HostAssumption DEF Intact, HostRecord
<1>2. CASE c.op = "read"
  <2>1. r = sys_read(h, c.arg)
    BY <1>2 DEF dispatch
  <2>2. CASE BadFd(h, c.arg)
    BY <1>1, <2>1, <2>2 DEF sys_read, fail, HostRecord, SameTable
  <2>3. CASE ~BadFd(h, c.arg) /\ h.open[lookup(h, c.arg)] = "stdin"
    <3>1. r = [h EXCEPT !.ret = 1, !.typed = @ - 1] /\ h.typed - 1 \in 0 .. MaxTyped
      BY <1>1, <1>2, <2>1, <2>3 DEF sys_read, HostRecord
    <3> QED BY <1>1, <3>1 DEF HostRecord, SameTable
  <2>4. CASE ~BadFd(h, c.arg) /\ h.open[lookup(h, c.arg)] # "stdin"
    <3>1. r = [h EXCEPT !.ret = 1]
      BY <2>1, <2>4 DEF sys_read
    <3> QED BY <1>1, <3>1 DEF HostRecord, SameTable
  <2> QED BY <2>2, <2>3, <2>4
<1>3. CASE c.op = "write"
  <2>1. r = [h EXCEPT !.ret = Error] \/ r = [h EXCEPT !.ret = 1]
    BY <1>3 DEF dispatch, sys_write, fail
  <2> QED BY <1>1, <2>1 DEF HostRecord, SameTable
<1>4. CASE c.op = "exit"
  <2>1. r = [h EXCEPT !.exitcode = 2 * c.arg + 1, !.ret = 0] /\ 2 * c.arg + 1 \in Nat
    BY <1>4 DEF dispatch, sys_exit
  <2> QED BY <1>1, <2>1 DEF HostRecord, SameTable
<1> QED BY <1>2, <1>3, <1>4

\* A command the loop may serve: a known one, and no read that would wait.
Served(h, c) ==
    /\ c.dev \in {"syscall", "bcd", "none"}
    /\ c.dev = "syscall" => c.op \in Calls \ {"dupfd", "bad"}
    /\ c.op \in {"exit", "result"} => c.arg \in Nat
    /\ c.dev = "syscall" /\ c.op = "read" /\ ~BadFd(h, c.arg)
         /\ h.open[lookup(h, c.arg)] = "stdin" => h.typed > 0

\* A call, answered.
LEMMA RespondKeeps ==
    ASSUME NEW h, HostRecord(h), NEW c, NEW r, r = respond(h, c)
    PROVE  SameTable(r, h) /\ r.ret = h.ret /\ r.typed = h.typed
BY DEF respond, HostRecord, SameTable

\* Whatever the command, the table stays intact under what the program concludes.
LEMMA CommandKeeps ==
    ASSUME NEW h, NEW view, Intact(h, view), NEW c, Served(h, c),
           NEW r, r = handle_command(h, c)
    PROVE  Intact(r, Concluded(view, c, r.ret))
<1>1. HostRecord(h)
  BY DEF Intact
<1>2. CASE c.op = "identify"
  <2>1. r = respond(h, c)
    BY <1>2 DEF handle_command
  <2>2. SameTable(r, h)
    BY <1>1, <2>1, RespondKeeps
  <2>3. Concluded(view, c, r.ret) = view
    BY <1>2 DEF Concluded
  <2> QED BY <2>2, <2>3, SameTableIntact
<1>3. CASE c.op # "identify" /\ c.dev = "syscall"
  <2>1. r = handle_syscall(h, c)
    BY <1>3 DEF handle_command
  <2>2. CASE c.op = "result"
    <3>1. r = [h EXCEPT !.exitcode = 2 * c.arg + 1] /\ 2 * c.arg + 1 \in Nat
      BY <2>1, <2>2 DEF handle_syscall, Served
    <3>2. SameTable(r, h)
      BY <1>1, <3>1 DEF HostRecord, SameTable
    <3>3. Concluded(view, c, r.ret) = view
      BY <2>2 DEF Concluded
    <3> QED BY <3>2, <3>3, SameTableIntact
  <2>3. CASE c.op # "result"
    <3> DEFINE d == dispatch(h, c)
    <3>1. r = respond(d, c)
      BY <2>1, <2>3 DEF handle_syscall
    <3>2. Intact(d, Concluded(view, c, d.ret))
      <4>1. CASE c.op = "openat"
        BY <1>3, <4>1, OpenatKeeps DEF dispatch
      <4>2. CASE c.op = "close"
        <5>1. d = sys_close(h, c.arg)
          BY <4>2 DEF dispatch
        <5> QED BY <1>3, <4>2, <5>1, CloseKeeps
      <4>3. CASE c.op \in {"read", "write", "exit"}
        <5>1. SameTable(d, h)
          BY <1>3, <4>3, OtherKeeps DEF Served
        <5>2. Concluded(view, c, d.ret) = view
          BY <4>3 DEF Concluded
        <5> QED BY <5>1, <5>2, SameTableIntact
      <4> QED BY <1>3, <2>3, <4>1, <4>2, <4>3 DEF Served, Calls
    <3> HIDE DEF d
    <3>3. SameTable(r, d) /\ r.ret = d.ret
      BY <3>1, <3>2, RespondKeeps DEF Intact
    <3> QED BY <3>2, <3>3, SameTableIntact
  <2> QED BY <2>2, <2>3
<1>4. CASE c.op # "identify" /\ c.dev # "syscall"
  <2>1. r = h \/ \E q : r = [h EXCEPT !.pending_reads = q]
    BY <1>4 DEF handle_command, handle_bcd, Served
  <2>2. SameTable(r, h)
    BY <1>1, <2>1 DEF HostRecord, SameTable
  <2>3. Concluded(view, c, r.ret) = view
    BY <1>4 DEF Concluded
  <2> QED BY <2>2, <2>3, SameTableIntact
<1> QED BY <1>2, <1>3, <1>4

\* The console takes a character only when there is one.
LEMMA TickKeeps ==
    ASSUME NEW h, HostRecord(h), NEW r, r = tick(h)
    PROVE  SameTable(r, h)
<1>1. CASE h.pending_reads # <<>> /\ h.typed > 0
  <2> DEFINE a == respond(h, Head(h.pending_reads))
  <2>1. SameTable(a, h) /\ a.typed = h.typed
    BY RespondKeeps
  <2>2. r = [a EXCEPT !.pending_reads = Tail(@), !.typed = @ - 1]
    BY <1>1 DEF tick
  <2> HIDE DEF a
  <2>3. a.typed - 1 \in 0 .. MaxTyped
    BY <1>1, <2>1, HostAssumption DEF HostRecord
  <2> QED BY <2>1, <2>2, <2>3 DEF HostRecord, SameTable
<1>2. CASE ~(h.pending_reads # <<>> /\ h.typed > 0)
  BY <1>2 DEF tick, SameTable
<1> QED BY <1>1, <1>2

\* A delivery changes the words of memory and the queue.
LEMMA DeliverKeeps ==
    ASSUME NEW h, HostRecord(h), NEW w, deliver(h, w),
           mem = [tohost |-> mem.tohost, fromhost |-> mem.fromhost]
    PROVE  /\ SameTable(host', h) /\ mem'.tohost = w
           /\ mem' = [tohost |-> mem'.tohost, fromhost |-> mem'.fromhost]
<1>1. SameTable(host', h)
  <2>1. host' = h \/ \E q : host' = [h EXCEPT !.fromhost_queue = q]
    BY DEF deliver
  <2> QED BY <2>1 DEF HostRecord, SameTable
<1>2. mem' = [mem EXCEPT !.tohost = w] \/ \E a : mem' = [tohost |-> w, fromhost |-> a]
  BY DEF deliver
<1> QED BY <1>1, <1>2

-----------------------------------------------------------------------------
(***************************************************************************)
(* The theorems.                                                           *)
(***************************************************************************)

\* The simulator starts with the standard three, duplicated.
LEMMA InitIntact == Init => HostIInv
<1> SUFFICES ASSUME Init PROVE HostIInv
  OBVIOUS
<1>1. MaxTyped \in Nat /\ MaxHostFds \in Nat /\ MaxHostFds > 5
  BY HostAssumption
<1>2. HostRecord(host) /\ host.fds = <<3, 4, 5>> /\ host.open = Stdio
  BY <1>1 DEF Init, HostRecord
<1>3. DOMAIN Stdio = 0 .. 5 /\ KernelOk(Stdio)
  BY <1>1 DEF KernelOk, Stdio
<1>4. DOMAIN held = 0 .. 2 /\ \A fd \in 0 .. 2 : held[fd] = Stdio[fd + 3]
  BY DEF Init
<1>5. /\ <<3, 4, 5>> \in Seq((0 .. MaxHostFds - 1) \cup {Free}) /\ Len(<<3, 4, 5>>) = 3
      /\ \A fd \in 0 .. 2 : <<3, 4, 5>>[fd + 1] = fd + 3
  BY <1>1
<1>6. TableOk(<<3, 4, 5>>, Stdio, held)
  <2> DEFINE t == <<3, 4, 5>>
  <2>1. /\ t \in Seq((0 .. MaxHostFds - 1) \cup {Free}) /\ Len(t) = 3
        /\ \A fd \in 0 .. 2 : t[fd + 1] = fd + 3
    BY <1>5
  <2> HIDE DEF t
  <2>2. DOMAIN held = {fd \in 0 .. Len(t) - 1 : t[fd + 1] # Free}
    BY <1>4, <2>1 DEF Free
  <2>3. /\ \A fd \in DOMAIN held : t[fd + 1] \in DOMAIN Stdio \ (0 .. 2)
                                   /\ Stdio[t[fd + 1]] = held[fd]
        /\ \A fd, fe \in DOMAIN held : fd # fe => t[fd + 1] # t[fe + 1]
    BY <1>3, <1>4, <2>1
  <2>4. \A n \in DOMAIN Stdio \ (0 .. 2) : \E fd \in DOMAIN held : t[fd + 1] = n
    <3>1. SUFFICES ASSUME NEW n \in 3 .. 5 PROVE \E fd \in DOMAIN held : t[fd + 1] = n
      BY <1>3
    <3>2. n - 3 \in DOMAIN held /\ t[(n - 3) + 1] = n
      BY <1>4, <2>1
    <3> QED BY <3>2
  <2>5. TableOk(t, Stdio, held)
    BY <2>1, <2>2, <2>3, <2>4 DEF TableOk
  <2> QED BY <2>5 DEF t
<1>7. /\ mem = [tohost |-> mem.tohost, fromhost |-> mem.fromhost]
      /\ CommandOk(mem.tohost) /\ phase \in {"poll", "idle", "stopped", "dead"}
  BY DEF Init, CommandOk
<1> QED BY <1>2, <1>3, <1>6, <1>7 DEF HostIInv, Intact

\* A command served, its answer queued, a character for the console, one delivery.
LEMMA ServeKeeps == NoDupFd /\ HostIInv /\ serve => HostIInv'
<1> SUFFICES ASSUME NoDupFd, HostIInv, serve PROVE HostIInv'
  OBVIOUS
<1> DEFINE c == mem.tohost
           h == handle_command(host, c)
<1>1. Intact(host, held)
  BY DEF HostIInv
<1>2. c # None /\ ~BadSyscall(c) /\ ~Blocked
  BY DEF serve
<1>3. PICK d \in Commands : c.dev = d.dev /\ c.op = d.op /\ c.arg = d.arg
  BY <1>2 DEF HostIInv, CommandOk
<1>4. Served(host, c)
  <2>1. /\ c.dev \in {"syscall", "bcd", "none"}
        /\ c.dev = "syscall" => c.op \in Calls \ {"dupfd", "bad"}
        /\ c.op \in {"exit", "result"} => c.arg \in Nat
    BY <1>2, <1>3, HostAssumption DEF BadSyscall, NoDupFd
  <2>2. c.dev = "syscall" /\ c.op = "read" /\ ~BadFd(host, c.arg)
           /\ host.open[lookup(host, c.arg)] = "stdin" => host.typed > 0
    BY <1>1, <1>2, HostAssumption DEF Blocked, Intact, HostRecord
  <2> QED BY <2>1, <2>2 DEF Served
<1>5. Intact(h, Concluded(held, c, h.ret))
  BY <1>1, <1>4, CommandKeeps
<1>6. held' = Concluded(held, c, h.ret)
  <2>1. held' = View(h, c)
    BY DEF serve
  <2>2. ~(c.dev = "syscall" /\ c.op = "dupfd")
    BY <1>3 DEF NoDupFd
  <2> QED BY <2>1, <2>2 DEF View, Concluded
<1>7. deliver(tick(h), None) /\ phase' = phase
  BY DEF serve
<1>8. mem = [tohost |-> mem.tohost, fromhost |-> mem.fromhost]
  BY DEF HostIInv
<1> HIDE DEF h, c
<1>9. SameTable(tick(h), h)
  BY <1>5, TickKeeps DEF Intact
<1>10. /\ SameTable(host', tick(h)) /\ mem'.tohost = None
       /\ mem' = [tohost |-> mem'.tohost, fromhost |-> mem'.fromhost]
  BY <1>7, <1>8, <1>9, DeliverKeeps DEF SameTable
<1>11. Intact(tick(h), held')
  BY <1>5, <1>6, <1>9, SameTableIntact
<1>12. Intact(host', held')
  BY <1>10, <1>11, SameTableIntact
<1> QED BY <1>7, <1>10, <1>12 DEF HostIInv, CommandOk

\* HostIInv is inductive.
LEMMA NextIntact == NoDupFd /\ HostIInv /\ [Next]_vars => HostIInv'
<1> SUFFICES ASSUME NoDupFd, HostIInv, [Next]_vars PROVE HostIInv'
  OBVIOUS
<1>1. /\ Intact(host, held) /\ CommandOk(mem.tohost)
      /\ mem = [tohost |-> mem.tohost, fromhost |-> mem.fromhost]
      /\ phase \in {"poll", "idle", "stopped", "dead"}
  BY DEF HostIInv
<1>2. CASE serve
  BY <1>2, ServeKeeps
<1>3. CASE bad_syscall
  <2>1. mem' = [mem EXCEPT !.tohost = None] /\ phase' = "dead" /\ host' = host /\ held' = held
    BY <1>3 DEF bad_syscall
  <2>2. mem'.tohost = None /\ mem' = [tohost |-> mem'.tohost, fromhost |-> mem'.fromhost]
    BY <1>1, <2>1
  <2> QED BY <1>1, <2>1, <2>2 DEF HostIInv, CommandOk
<1>4. CASE idle \/ stop \/ handle_signal \/ Over \/ UNCHANGED vars
  <2>1. /\ phase' \in {"poll", "idle", "stopped", "dead"}
        /\ host' = host /\ held' = held /\ mem' = mem
    BY <1>1, <1>4 DEF idle, stop, handle_signal, Over, vars
  <2> QED BY <1>1, <2>1 DEF HostIInv
<1>5. CASE idle_ends
  <2>1. deliver(tick(host), mem.tohost) /\ phase' = "poll" /\ held' = held
    BY <1>5 DEF idle_ends
  <2>2. SameTable(tick(host), host)
    BY <1>1, TickKeeps DEF Intact
  <2>3. /\ SameTable(host', tick(host)) /\ mem'.tohost = mem.tohost
        /\ mem' = [tohost |-> mem'.tohost, fromhost |-> mem'.fromhost]
    BY <1>1, <2>1, <2>2, DeliverKeeps DEF SameTable
  <2>4. Intact(tick(host), held)
    BY <1>1, <2>2, SameTableIntact
  <2>5. Intact(host', held)
    BY <2>3, <2>4, SameTableIntact
  <2> QED BY <1>1, <2>1, <2>3, <2>5 DEF HostIInv
<1>6. CASE program_issues
  <2>1. PICK c \in Commands :
           mem' = [mem EXCEPT !.tohost = [dev |-> c.dev, op |-> c.op, arg |-> c.arg,
                                          id |-> issued + 1]]
    BY <1>6 DEF program_issues
  <2>2. /\ mem' = [tohost |-> mem'.tohost, fromhost |-> mem'.fromhost]
        /\ mem'.tohost.dev = c.dev /\ mem'.tohost.op = c.op /\ mem'.tohost.arg = c.arg
    BY <1>1, <2>1
  <2>3. host' = host /\ held' = held /\ phase' = phase
    BY <1>6 DEF program_issues
  <2> QED BY <1>1, <2>2, <2>3 DEF HostIInv, CommandOk
<1>7. CASE program_takes
  <2>1. /\ mem' = [mem EXCEPT !.fromhost = None]
        /\ host' = host /\ held' = held /\ phase' = phase
    BY <1>7 DEF program_takes
  <2>2. /\ mem' = [tohost |-> mem'.tohost, fromhost |-> mem'.fromhost]
        /\ mem'.tohost = mem.tohost
    BY <1>1, <2>1
  <2> QED BY <1>1, <2>1, <2>2 DEF HostIInv
<1>8. CASE type
  <2>1. /\ host' = [host EXCEPT !.typed = @ + 1] /\ host.typed < MaxTyped
        /\ mem' = mem /\ held' = held /\ phase' = phase
    BY <1>8 DEF type
  <2>2. host.typed + 1 \in 0 .. MaxTyped /\ HostRecord(host)
    BY <1>1, <2>1, HostAssumption DEF Intact, HostRecord
  <2>3. SameTable(host', host)
    BY <2>1, <2>2 DEF HostRecord, SameTable
  <2>4. Intact(host', held)
    BY <1>1, <2>3, SameTableIntact
  <2> QED BY <1>1, <2>1, <2>4 DEF HostIInv
<1> QED BY <1>2, <1>3, <1>4, <1>5, <1>6, <1>7, <1>8 DEF Next

\* fds_t is intact in every state, for any program that does not duplicate descriptors.
THEOREM HostInvariant == NoDupFd => (Spec => []HostIInv)
<1> SUFFICES ASSUME NoDupFd PROVE Spec => []HostIInv
  OBVIOUS
<1>1. Init => HostIInv
  BY InitIntact
<1>2. HostIInv /\ [Next]_vars => HostIInv'
  BY NextIntact
<1> QED BY <1>1, <1>2, PTL DEF Spec

\* fds_t: what a program that does not duplicate descriptors holds leads to the files
\* it opened, to each by one descriptor, and no host descriptor is left behind,
\* whatever the order in which slots and host numbers are closed and used again.
THEOREM HostSafe == NoDupFd => (Spec => []HostInv)
<1> SUFFICES ASSUME NoDupFd PROVE Spec => []HostInv
  OBVIOUS
<1>1. HostIInv => HostInv
  <2> SUFFICES ASSUME HostIInv PROVE HostInv
    OBVIOUS
  <2>1. /\ HostRecord(host) /\ KernelOk(host.open) /\ TableOk(host.fds, host.open, held)
        /\ phase \in {"poll", "idle", "stopped", "dead"}
    BY DEF HostIInv, Intact
  <2>2. host.fds \in Seq((0 .. MaxHostFds - 1) \cup {Free}) /\ Len(host.fds) \in Nat
    BY <2>1, LenProperties DEF TableOk
  <2>3. HostType
    BY <2>1, <2>2 DEF HostType, HostRecord
  <2>4. \A fd \in DOMAIN held : lookup(host, fd) = host.fds[fd + 1]
    BY <2>1 DEF lookup, TableOk
  <2>5. \A fd \in DOMAIN held : /\ lookup(host, fd) \in DOMAIN host.open \ (0 .. 2)
                                /\ host.open[lookup(host, fd)] = held[fd]
    BY <2>1, <2>4 DEF TableOk
  <2>6. ASSUME NEW fd \in DOMAIN held, NEW fe \in DOMAIN held, fd # fe
        PROVE  lookup(host, fd) # lookup(host, fe)
    <3>1. host.fds[fd + 1] # host.fds[fe + 1]
      BY <2>1, <2>6 DEF TableOk
    <3> QED BY <2>4, <3>1
  <2>7. \A n \in DOMAIN host.open \ (0 .. 2) : \E fd \in DOMAIN held : lookup(host, fd) = n
    <3>1. \A n \in DOMAIN host.open \ (0 .. 2) : \E fd \in DOMAIN held : host.fds[fd + 1] = n
      BY <2>1 DEF TableOk
    <3> QED BY <2>4, <3>1
  <2>8. DOMAIN host.open \ (0 .. 2) = {lookup(host, fd) : fd \in DOMAIN held}
    BY <2>5, <2>7
  <2> QED BY <2>3, <2>5, <2>6, <2>8 DEF HostInv, FilesIntact
<1> QED BY <1>1, HostInvariant, PTL

-----------------------------------------------------------------------------
(***************************************************************************)
(* The answers, for every program, one that duplicates descriptors too.    *)
(***************************************************************************)

\* What a program can have written to tohost: its command and a number of its own.
Sent == {[dev |-> d.dev, op |-> d.op, arg |-> d.arg, id |-> i] : d \in Commands, i \in Nat \ {0}}

\* Answers, with its parts as parameters.
Line(r, f, q, p) == r \o ((IF f = None THEN <<>> ELSE <<f>>) \o q) \o p

Members(s) == {s[i] : i \in DOMAIN s}

Shape(h) == h = [exitcode |-> h.exitcode, fds |-> h.fds, open |-> h.open, ret |-> h.ret,
                 fromhost_queue |-> h.fromhost_queue, pending_reads |-> h.pending_reads,
                 typed |-> h.typed]

\* The simulator's record h and the words t and f of memory hold commands, and only
\* reads of the console wait.
QueuesOk(h, t, f) ==
    /\ Shape(h)
    /\ h.fromhost_queue \in Seq(Sent)
    /\ h.pending_reads \in Seq(Sent)
    /\ \A i \in DOMAIN h.pending_reads : Waits(h.pending_reads[i])
    /\ t \in Sent \cup {None}
    /\ f \in Sent \cup {None}

\* The inductive invariant: the command in tohost is the last one given, and newer than
\* all that were accepted.
AnswersIInv ==
    /\ QueuesOk(host, mem.tohost, mem.fromhost)
    /\ mem = [tohost |-> mem.tohost, fromhost |-> mem.fromhost]
    /\ received \in Seq(Sent)
    /\ issued \in Nat
    /\ \A c \in accepted : c \in Sent /\ c.id <= issued
    /\ mem.tohost # None => mem.tohost.id = issued /\ \A c \in accepted : c.id < issued
    /\ AnsweredOnceInOrder

\* A command that was sent is one of the program's, and is not the empty word.
LEMMA SentProperties ==
    ASSUME NEW c \in Sent
    PROVE  /\ c.id \in Nat /\ c.id > 0
           /\ c # None
           /\ \E d \in Commands : c.dev = d.dev /\ c.op = d.op /\ c.arg = d.arg
<1>1. PICK d \in Commands, i \in Nat \ {0} :
          c = [dev |-> d.dev, op |-> d.op, arg |-> d.arg, id |-> i]
  BY DEF Sent
<1>2. c.id = i /\ c.dev = d.dev /\ c.op = d.op /\ c.arg = d.arg
  BY <1>1
<1> QED BY <1>2 DEF None

\* The word in fromhost as a sequence.
LEMMA WordIsSeq ==
    ASSUME NEW f \in Sent \cup {None}
    PROVE  (IF f = None THEN <<>> ELSE <<f>>) \in Seq(Sent)
<1>1. CASE f = None
  BY <1>1
<1>2. CASE f # None
  BY <1>2
<1> QED BY <1>1, <1>2

\* A nonempty sequence is its head before its tail.
LEMMA HeadThenTail ==
    ASSUME NEW S, NEW s \in Seq(S), s # <<>>
    PROVE  <<Head(s)>> \o Tail(s) = s /\ Head(s) \in S /\ Tail(s) \in Seq(S)
<1>1. /\ Head(s) \in S /\ Tail(s) \in Seq(S) /\ Len(Tail(s)) = Len(s) - 1
      /\ \A i \in 1 .. Len(Tail(s)) : Tail(s)[i] = s[i + 1]
  BY HeadTailProperties
<1>2. <<Head(s)>> \in Seq(S) /\ Len(<<Head(s)>>) = 1 /\ <<Head(s)>>[1] = s[1] /\ Len(s) \in Nat
  BY <1>1
<1> DEFINE t == <<Head(s)>> \o Tail(s)
<1>3. /\ t \in Seq(S) /\ Len(t) = Len(s)
      /\ \A i \in 1 .. Len(s) : t[i] = IF i <= 1 THEN s[1] ELSE Tail(s)[i - 1]
  BY <1>1, <1>2, ConcatProperties
<1>4. ASSUME NEW i \in 1 .. Len(s) PROVE t[i] = s[i]
  <2>1. CASE i = 1
    BY <1>3, <2>1
  <2>2. CASE i # 1
    <3>1. i - 1 \in 1 .. Len(Tail(s)) /\ ~(i <= 1)
      BY <1>1, <1>2, <2>2
    <3>2. Tail(s)[i - 1] = s[(i - 1) + 1]
      BY <1>1, <3>1
    <3> QED BY <1>3, <3>1, <3>2
  <2> QED BY <2>1, <2>2
<1> HIDE DEF t
<1>5. t = s
  BY <1>3, <1>4, SeqEqual
<1> QED BY <1>1, <1>5 DEF t

\* How concatenations are grouped does not matter.  The name lets the provers find
\* the instance that is asked for.
Grouped(s, t, u) == (s \o t) \o u = s \o (t \o u)

LEMMA IsGrouped ==
    ASSUME NEW s \in Seq(Sent), NEW t \in Seq(Sent), NEW u \in Seq(Sent)
    PROVE  Grouped(s, t, u)
<1> DEFINE st == s \o t
           tu == t \o u
           x == st \o u
           y == s \o tu
<1>1. /\ st \in Seq(Sent) /\ Len(st) = Len(s) + Len(t)
      /\ \A i \in 1 .. Len(s) + Len(t) : st[i] = IF i <= Len(s) THEN s[i] ELSE t[i - Len(s)]
  BY ConcatProperties
<1>2. /\ tu \in Seq(Sent) /\ Len(tu) = Len(t) + Len(u)
      /\ \A i \in 1 .. Len(t) + Len(u) : tu[i] = IF i <= Len(t) THEN t[i] ELSE u[i - Len(t)]
  BY ConcatProperties
<1>3. /\ x \in Seq(Sent) /\ Len(x) = Len(st) + Len(u)
      /\ \A i \in 1 .. Len(st) + Len(u) : x[i] = IF i <= Len(st) THEN st[i] ELSE u[i - Len(st)]
  BY <1>1, ConcatProperties
<1>4. /\ y \in Seq(Sent) /\ Len(y) = Len(s) + Len(tu)
      /\ \A i \in 1 .. Len(s) + Len(tu) : y[i] = IF i <= Len(s) THEN s[i] ELSE tu[i - Len(s)]
  BY <1>2, ConcatProperties
<1>5. Len(s) \in Nat /\ Len(t) \in Nat /\ Len(u) \in Nat
  BY LenProperties
<1> HIDE DEF st, tu, x, y
<1>6. Len(x) = Len(s) + Len(t) + Len(u) /\ Len(y) = Len(x)
  BY <1>1, <1>2, <1>3, <1>4, <1>5
<1>7. ASSUME NEW i \in 1 .. Len(x) PROVE x[i] = y[i]
  <2>1. /\ i \in 1 .. Len(st) + Len(u) /\ i \in 1 .. Len(s) + Len(tu)
        /\ i \in 1 .. Len(s) + Len(t) + Len(u)
    BY <1>3, <1>4, <1>6
  <2>2. CASE i <= Len(s)
    <3>1. i <= Len(st) /\ i \in 1 .. Len(s) + Len(t)
      BY <1>1, <1>5, <2>1, <2>2
    <3>2. x[i] = st[i] /\ st[i] = s[i]
      BY <1>1, <1>3, <2>1, <2>2, <3>1
    <3>3. y[i] = s[i]
      BY <1>4, <2>1, <2>2
    <3> QED BY <3>2, <3>3
  <2>3. CASE i > Len(s) /\ i <= Len(s) + Len(t)
    <3>1. /\ i <= Len(st) /\ i \in 1 .. Len(s) + Len(t) /\ ~(i <= Len(s))
          /\ i - Len(s) \in 1 .. Len(t) + Len(u) /\ i - Len(s) <= Len(t)
      BY <1>1, <1>5, <2>1, <2>3
    <3>2. x[i] = st[i] /\ st[i] = t[i - Len(s)]
      BY <1>1, <1>3, <2>1, <3>1
    <3>3. y[i] = tu[i - Len(s)] /\ tu[i - Len(s)] = t[i - Len(s)]
      BY <1>2, <1>4, <2>1, <3>1
    <3> QED BY <3>2, <3>3
  <2>4. CASE i > Len(s) + Len(t)
    <3>1. /\ ~(i <= Len(st)) /\ ~(i <= Len(s))
          /\ i - Len(s) \in 1 .. Len(t) + Len(u) /\ ~(i - Len(s) <= Len(t))
          /\ (i - Len(s)) - Len(t) = i - Len(st)
      BY <1>1, <1>5, <2>1, <2>4
    <3>2. x[i] = u[i - Len(st)]
      BY <1>3, <2>1, <3>1
    <3>3. y[i] = tu[i - Len(s)] /\ tu[i - Len(s)] = u[(i - Len(s)) - Len(t)]
      BY <1>2, <1>4, <2>1, <3>1
    <3> QED BY <3>1, <3>2, <3>3
  <2> QED BY <1>5, <2>1, <2>2, <2>3, <2>4
<1>8. x = y
  BY <1>3, <1>4, <1>6, <1>7, SeqEqual
<1> QED BY <1>8 DEF x, y, st, tu, Grouped

\* A read answered moves from the head of the waiting ones to the end of the queue.
LEMMA TickKeepsLine ==
    ASSUME NEW r \in Seq(Sent), NEW f \in Sent \cup {None}, NEW q \in Seq(Sent),
           NEW p \in Seq(Sent), p # <<>>
    PROVE  Line(r, f, Append(q, Head(p)), Tail(p)) = Line(r, f, q, p)
<1> DEFINE w == IF f = None THEN <<>> ELSE <<f>>
           hd == <<Head(p)>>
<1>1. w \in Seq(Sent)
  BY WordIsSeq
<1>2. hd \in Seq(Sent) /\ Tail(p) \in Seq(Sent) /\ hd \o Tail(p) = p /\ Head(p) \in Sent
  BY HeadThenTail
<1>3. Append(q, Head(p)) = q \o hd
  BY <1>2, AppendIsConcat
<1>4. Line(r, f, Append(q, Head(p)), Tail(p)) = (r \o (w \o (q \o hd))) \o Tail(p)
  BY <1>3 DEF Line
<1>5. Line(r, f, q, p) = (r \o (w \o q)) \o p
  BY DEF Line
<1> HIDE DEF w, hd
<1>6. w \o (q \o hd) = (w \o q) \o hd /\ w \o q \in Seq(Sent)
  <2>1. Grouped(w, q, hd)
    BY <1>1, <1>2, IsGrouped
  <2>2. w \o q \in Seq(Sent)
    BY <1>1, ConcatProperties
  <2> QED BY <2>1, <2>2, Zenon DEF Grouped
<1> DEFINE wq == w \o q
           rwq == r \o wq
<1>7. wq \in Seq(Sent)
  BY <1>6
<1> HIDE DEF wq
<1>8. rwq \o hd = r \o (wq \o hd) /\ rwq \in Seq(Sent)
  <2>1. hd \in Seq(Sent) /\ r \in Seq(Sent) /\ wq \in Seq(Sent)
    BY <1>1, <1>2, <1>7
  <2>2. Grouped(r, wq, hd)
    BY <2>1, IsGrouped
  <2>3. r \o wq \in Seq(Sent)
    BY <2>1, ConcatProperties
  <2> QED BY <2>2, <2>3, Zenon DEF Grouped
<1> HIDE DEF rwq
<1>9. (rwq \o hd) \o Tail(p) = rwq \o (hd \o Tail(p))
  <2>1. Grouped(rwq, hd, Tail(p))
    BY <1>2, <1>8, IsGrouped
  <2> QED BY <2>1, Zenon DEF Grouped
<1> QED BY <1>2, <1>4, <1>5, <1>6, <1>8, <1>9 DEF wq, rwq

\* An answer delivered moves from the head of the queue into the empty word.
LEMMA DeliverKeepsLine ==
    ASSUME NEW r \in Seq(Sent), NEW q \in Seq(Sent), NEW p \in Seq(Sent), q # <<>>
    PROVE  Line(r, Head(q), Tail(q), p) = Line(r, None, q, p)
<1>1. /\ Head(q) \in Sent /\ <<Head(q)>> \o Tail(q) = q
  BY HeadThenTail
<1>2. Head(q) # None
  BY <1>1, SentProperties
<1>3. <<>> \o q = q
  BY ConcatEmptySeq
<1> QED BY <1>1, <1>2, <1>3 DEF Line

\* An answer taken moves from the word to the end of the ones received.
LEMMA TakeKeepsLine ==
    ASSUME NEW r \in Seq(Sent), NEW f \in Sent, NEW q \in Seq(Sent), NEW p \in Seq(Sent)
    PROVE  Line(Append(r, f), None, q, p) = Line(r, f, q, p)
<1>1. f # None
  BY SentProperties
<1>2. Append(r, f) = r \o <<f>> /\ <<f>> \in Seq(Sent)
  BY AppendIsConcat
<1>3. <<>> \o q = q
  BY ConcatEmptySeq
<1>4. Line(Append(r, f), None, q, p) = ((r \o <<f>>) \o q) \o p
  BY <1>2, <1>3 DEF Line
<1>5. Line(r, f, q, p) = (r \o (<<f>> \o q)) \o p
  BY <1>1 DEF Line
<1>6. (r \o <<f>>) \o q = r \o (<<f>> \o q)
  BY <1>2, ConcatAssociative
<1> QED BY <1>4, <1>5, <1>6

\* A command goes behind all of its kind, before others of the other kind.
LEMMA AnswerInserted ==
    ASSUME NEW a \in Seq(Sent), NEW p \in Seq(Sent), NEW c \in Sent,
           \A i \in DOMAIN p : Waits(p[i]) # Waits(c),
           InOrder(a \o p), \A d \in Members(a \o p) : d.id < c.id
    PROVE  /\ Members((a \o <<c>>) \o p) = Members(a \o p) \cup {c}
           /\ InOrder((a \o <<c>>) \o p)
<1> DEFINE A == Members(a \o p)
           s == a \o p
           b == a \o <<c>>
           t == b \o p
           m == Len(a)
           n == Len(p)
<1>1. m \in Nat /\ n \in Nat /\ DOMAIN p = 1 .. n /\ <<c>> \in Seq(Sent) /\ Len(<<c>>) = 1
      /\ <<c>>[1] = c
  <2>1. <<c>> \in Seq(Sent) /\ Len(<<c>>) = 1 /\ <<c>>[1] = c
    OBVIOUS
  <2> QED BY <2>1, LenProperties
<1>2. /\ s \in Seq(Sent) /\ Len(s) = m + n
      /\ \A i \in 1 .. m + n : s[i] = IF i <= m THEN a[i] ELSE p[i - m]
  BY ConcatProperties
<1>3. /\ b \in Seq(Sent) /\ Len(b) = m + 1
      /\ \A i \in 1 .. m + 1 : b[i] = IF i <= m THEN a[i] ELSE <<c>>[i - m]
  BY <1>1, ConcatProperties
<1>4. /\ t \in Seq(Sent) /\ Len(t) = (m + 1) + n
      /\ \A i \in 1 .. (m + 1) + n : t[i] = IF i <= m + 1 THEN b[i] ELSE p[i - (m + 1)]
  BY <1>3, ConcatProperties
<1>5. DOMAIN s = 1 .. m + n /\ DOMAIN t = 1 .. m + n + 1
  BY <1>1, <1>2, <1>4, LenProperties
<1> HIDE DEF s, b, t, m, n, A
<1>6. ASSUME NEW i \in 1 .. m PROVE t[i] = s[i]
  <2>1. /\ i <= m /\ i <= m + 1 /\ i \in 1 .. m + n /\ i \in 1 .. m + 1
        /\ i \in 1 .. (m + 1) + n
    BY <1>1
  <2>2. t[i] = b[i]
    BY <1>4, <2>1
  <2>3. b[i] = a[i]
    BY <1>3, <2>1
  <2>4. s[i] = a[i]
    BY <1>2, <2>1
  <2> QED BY <2>2, <2>3, <2>4
<1>7. t[m + 1] = c
  <2>1. m + 1 \in 1 .. m + 1 /\ m + 1 \in 1 .. (m + 1) + n /\ (m + 1) - m = 1
    BY <1>1
  <2>2. t[m + 1] = b[m + 1]
    BY <1>4, <2>1
  <2>3. b[m + 1] = <<c>>[(m + 1) - m]
    BY <1>1, <1>3, <2>1
  <2> QED BY <1>1, <2>1, <2>2, <2>3
<1>8. ASSUME NEW i \in m + 2 .. m + n + 1 PROVE t[i] = s[i - 1] /\ Waits(t[i]) # Waits(c)
  <2>1. /\ i \in 1 .. (m + 1) + n /\ ~(i <= m + 1)
        /\ i - 1 \in 1 .. m + n /\ ~(i - 1 <= m)
        /\ i - (m + 1) = (i - 1) - m /\ (i - 1) - m \in 1 .. n
    BY <1>1
  <2>2. t[i] = p[i - (m + 1)]
    BY <1>4, <2>1
  <2>3. s[i - 1] = p[(i - 1) - m]
    BY <1>2, <2>1
  <2> QED BY <1>1, <2>1, <2>2, <2>3
<1>9. Members(s) = A /\ InOrder(s) /\ \A d \in A : d.id < c.id
  BY DEF s, A
<1>10. Members(t) = A \cup {c}
  <2>1. ASSUME NEW i \in DOMAIN t PROVE t[i] \in A \cup {c}
    <3>1. CASE i \in 1 .. m
      <4>1. i \in DOMAIN s /\ t[i] = s[i]
        BY <1>1, <1>5, <1>6, <3>1
      <4> QED BY <1>9, <4>1 DEF Members
    <3>2. CASE i = m + 1
      BY <1>7, <3>2
    <3>3. CASE i \in m + 2 .. m + n + 1
      <4>1. i - 1 \in DOMAIN s /\ t[i] = s[i - 1]
        BY <1>1, <1>5, <1>8, <3>3
      <4> QED BY <1>9, <4>1 DEF Members
    <3> QED BY <1>1, <1>5, <2>1, <3>1, <3>2, <3>3
  <2>2. ASSUME NEW i \in DOMAIN s PROVE s[i] \in Members(t)
    <3>1. CASE i \in 1 .. m
      <4>1. i \in DOMAIN t /\ t[i] = s[i]
        BY <1>1, <1>5, <1>6, <3>1
      <4> QED BY <4>1 DEF Members
    <3>2. CASE i \in m + 1 .. m + n
      <4>1. i + 1 \in m + 2 .. m + n + 1 /\ i + 1 \in DOMAIN t /\ (i + 1) - 1 = i
        BY <1>1, <1>5, <3>2
      <4>2. t[i + 1] = s[i]
        BY <1>8, <4>1
      <4> QED BY <4>1, <4>2 DEF Members
    <3> QED BY <1>1, <1>5, <2>2, <3>1, <3>2
  <2>3. c \in Members(t)
    BY <1>1, <1>5, <1>7 DEF Members
  <2>4. A \subseteq Members(t)
    BY <1>9, <2>2 DEF Members
  <2>5. Members(t) \subseteq A \cup {c}
    BY <2>1 DEF Members
  <2> QED BY <2>3, <2>4, <2>5
<1>11. \A i \in DOMAIN s : s[i].id < c.id
  BY <1>9 DEF Members
<1>12. ASSUME NEW i \in DOMAIN t, NEW j \in DOMAIN t, i < j, Waits(t[i]) = Waits(t[j])
       PROVE  t[i].id < t[j].id
  <2>1. CASE j \in 1 .. m
    <3>1. i \in DOMAIN s /\ j \in DOMAIN s /\ t[i] = s[i] /\ t[j] = s[j]
      BY <1>1, <1>5, <1>6, <1>12, <2>1
    <3> QED BY <1>9, <1>12, <3>1 DEF InOrder
  <2>2. CASE j = m + 1
    <3>1. i \in DOMAIN s /\ t[i] = s[i]
      BY <1>1, <1>5, <1>6, <1>12, <2>2
    <3> QED BY <1>7, <1>11, <2>2, <3>1
  <2>3. CASE j \in m + 2 .. m + n + 1
    <3>1. j - 1 \in DOMAIN s /\ t[j] = s[j - 1] /\ Waits(t[j]) # Waits(c)
      BY <1>1, <1>5, <1>8, <2>3
    <3>2. i # m + 1
      BY <1>7, <1>12, <3>1
    <3>3. CASE i \in 1 .. m
      <4>1. i \in DOMAIN s /\ t[i] = s[i] /\ i < j - 1
        BY <1>1, <1>5, <1>6, <2>3, <3>3
      <4> QED BY <1>9, <1>12, <3>1, <4>1 DEF InOrder
    <3>4. CASE i \in m + 2 .. m + n + 1
      <4>1. i - 1 \in DOMAIN s /\ t[i] = s[i - 1] /\ i - 1 < j - 1
        BY <1>1, <1>5, <1>8, <1>12, <2>3, <3>4
      <4> QED BY <1>9, <1>12, <3>1, <4>1 DEF InOrder
    <3> QED BY <1>1, <1>5, <1>12, <3>2, <3>3, <3>4
  <2> QED BY <1>1, <1>5, <1>12, <2>1, <2>2, <2>3
<1>13. InOrder(t)
  BY <1>12 DEF InOrder
<1> QED BY <1>10, <1>13 DEF t, b, A

\* No call touches the queues.
LEMMA DispatchQuiet ==
    ASSUME NEW h, Shape(h), NEW c, NEW r, r = dispatch(h, c),
           c.op \in {"openat", "close", "read", "write", "dupfd", "exit"}
    PROVE  /\ Shape(r) /\ r.fromhost_queue = h.fromhost_queue
           /\ r.pending_reads = h.pending_reads
<1> DEFINE Quiet(g) == /\ Shape(g) /\ g.fromhost_queue = h.fromhost_queue
                       /\ g.pending_reads = h.pending_reads
<1> SUFFICES Quiet(r)
  OBVIOUS
<1>1. ASSUME NEW g, Quiet(g), NEW k, NEW v, NEW w,
             \/ k = [g EXCEPT !.ret = v]
             \/ k = [g EXCEPT !.open = v]
             \/ k = [g EXCEPT !.fds = v]
             \/ k = [g EXCEPT !.fds = v, !.ret = w]
             \/ k = [g EXCEPT !.ret = v, !.typed = w]
             \/ k = [g EXCEPT !.exitcode = v, !.ret = w]
      PROVE  Quiet(k)
  <2>1. CASE k = [g EXCEPT !.ret = v]
    BY <1>1, <2>1 DEF Shape
  <2>2. CASE k = [g EXCEPT !.open = v]
    BY <1>1, <2>2 DEF Shape
  <2>3. CASE k = [g EXCEPT !.fds = v]
    BY <1>1, <2>3 DEF Shape
  <2>4. CASE k = [g EXCEPT !.fds = v, !.ret = w]
    BY <1>1, <2>4 DEF Shape
  <2>5. CASE k = [g EXCEPT !.ret = v, !.typed = w]
    BY <1>1, <2>5 DEF Shape
  <2>6. CASE k = [g EXCEPT !.exitcode = v, !.ret = w]
    BY <1>1, <2>6 DEF Shape
  <2> QED BY <1>1, <2>1, <2>2, <2>3, <2>4, <2>5, <2>6
<1>2. Quiet(h)
  OBVIOUS
<1> HIDE DEF Quiet
<1>3. ASSUME NEW file PROVE Quiet(KernelOpen(h, file))
  BY <1>1, <1>2, Zenon DEF KernelOpen
<1>4. ASSUME NEW n PROVE Quiet(KernelClose(h, n))
  BY <1>1, <1>2, Zenon DEF KernelClose
<1>5. ASSUME NEW g, Quiet(g), NEW n PROVE Quiet(alloc(g, n)) /\ Quiet(dealloc(g, n))
  <2>1. Quiet(alloc(g, n))
    BY <1>1, <1>5, Zenon DEF alloc
  <2>2. dealloc(g, n) = [g EXCEPT !.fds = [g.fds EXCEPT ![n + 1] = Free]]
    BY DEF dealloc
  <2>3. Quiet(dealloc(g, n))
    BY <1>1, <1>5, <2>2, Zenon
  <2> QED BY <2>1, <2>3
<1>6. Quiet(fail(h))
  BY <1>1, <1>2, Zenon DEF fail
<1>7. CASE c.op = "openat"
  <2>1. r = fail(h) \/ r = alloc(KernelOpen(h, c.arg), LowestFree(h))
    BY <1>7 DEF dispatch, sys_openat
  <2> QED BY <1>3, <1>5, <1>6, <2>1, Zenon
<1>8. CASE c.op = "close"
  <2>1. r = sys_close(h, c.arg)
    BY <1>8 DEF dispatch
  <2> DEFINE g == dealloc(KernelClose(h, lookup(h, c.arg)), c.arg)
  <2>2. Quiet(g)
    BY <1>4, <1>5
  <2>3. r = fail(h) \/ r = [g EXCEPT !.ret = 0]
    BY <2>1 DEF sys_close
  <2> HIDE DEF g
  <2> QED BY <1>1, <1>6, <2>2, <2>3, Zenon
<1>9. CASE c.op = "read"
  <2>1. \/ r = fail(h) \/ r = [h EXCEPT !.ret = 1]
        \/ r = [h EXCEPT !.ret = 1, !.typed = h.typed - 1]
    BY <1>9 DEF dispatch, sys_read
  <2> QED BY <1>1, <1>2, <1>6, <2>1, Zenon
<1>10. CASE c.op = "write"
  <2>1. r = fail(h) \/ r = [h EXCEPT !.ret = 1]
    BY <1>10 DEF dispatch, sys_write
  <2> QED BY <1>1, <1>2, <1>6, <2>1, Zenon
<1>11. CASE c.op = "dupfd"
  <2>1. r = sys_fcntl_dupfd(h, c.arg)
    BY <1>11 DEF dispatch
  <2> DEFINE g == KernelOpen(h, h.open[lookup(h, c.arg)])
  <2>2. Quiet(g)
    BY <1>3
  <2>3. r = fail(h) \/ r = [g EXCEPT !.ret = LowestFree(h)]
    BY <2>1 DEF sys_fcntl_dupfd
  <2> HIDE DEF g
  <2> QED BY <1>1, <1>6, <2>2, <2>3, Zenon
<1>12. CASE c.op = "exit"
  <2>1. r = [h EXCEPT !.exitcode = 2 * c.arg + 1, !.ret = 0]
    BY <1>12 DEF dispatch, sys_exit
  <2> QED BY <1>1, <1>2, <2>1, Zenon
<1> QED BY <1>7, <1>8, <1>9, <1>10, <1>11, <1>12

\* A command is queued for its answer, or waits, or is due none.
LEMMA CommandQueued ==
    ASSUME NEW h, Shape(h), NEW c \in Sent, ~BadSyscall(c), NEW r, r = handle_command(h, c)
    PROVE  /\ Shape(r)
           /\ \/ /\ Answered(c) /\ ~Waits(c)
                 /\ r.fromhost_queue = Append(h.fromhost_queue, c)
                 /\ r.pending_reads = h.pending_reads
              \/ /\ Answered(c) /\ Waits(c)
                 /\ r.fromhost_queue = h.fromhost_queue
                 /\ r.pending_reads = Append(h.pending_reads, c)
              \/ /\ ~Answered(c)
                 /\ r.fromhost_queue = h.fromhost_queue
                 /\ r.pending_reads = h.pending_reads
<1>1. /\ c.dev \in {"syscall", "bcd", "none"}
      /\ c.dev = "syscall" => c.op \in Calls
      /\ c.dev = "bcd" => c.op \in {"getc", "putc", "unknown", "identify"}
      /\ c.dev = "none" => c.op \in {"unknown", "identify"}
  BY SentProperties, HostAssumption
<1>2. ASSUME NEW g, Shape(g)
      PROVE  /\ Shape(respond(g, c))
             /\ respond(g, c).fromhost_queue = Append(g.fromhost_queue, c)
             /\ respond(g, c).pending_reads = g.pending_reads
  BY <1>2 DEF respond, Shape
<1>3. CASE c.op = "identify"
  <2>1. r = respond(h, c) /\ Answered(c) /\ ~Waits(c)
    BY <1>3 DEF handle_command, Answered, Waits
  <2> QED BY <1>2, <2>1
<1>4. CASE c.op # "identify" /\ c.dev = "syscall"
  <2>1. r = handle_syscall(h, c) /\ ~Waits(c)
    BY <1>4 DEF handle_command, Waits
  <2>2. CASE c.op = "result"
    <3>1. r = [h EXCEPT !.exitcode = 2 * c.arg + 1] /\ ~Answered(c)
      BY <2>1, <2>2 DEF handle_syscall, Answered
    <3> QED BY <3>1 DEF Shape
  <2>3. CASE c.op # "result"
    <3>1. /\ c.op \in {"openat", "close", "read", "write", "dupfd", "exit"}
          /\ Answered(c) /\ r = respond(dispatch(h, c), c)
      BY <1>1, <1>4, <2>1, <2>3 DEF Calls, BadSyscall, Answered, handle_syscall
    <3>2. /\ Shape(dispatch(h, c)) /\ dispatch(h, c).fromhost_queue = h.fromhost_queue
          /\ dispatch(h, c).pending_reads = h.pending_reads
      BY <3>1, DispatchQuiet
    <3> QED BY <1>2, <2>1, <3>1, <3>2
  <2> QED BY <2>2, <2>3
<1>5. CASE c.op # "identify" /\ c.dev = "bcd"
  <2>1. r = handle_bcd(h, c) /\ c.op \in {"getc", "putc", "unknown"}
    BY <1>1, <1>5 DEF handle_command
  <2>2. CASE c.op = "getc"
    <3>1. /\ r = [h EXCEPT !.pending_reads = Append(h.pending_reads, c)]
          /\ Waits(c) /\ Answered(c)
      BY <1>5, <2>1, <2>2 DEF handle_bcd, Waits, Answered
    <3> QED BY <3>1 DEF Shape
  <2>3. CASE c.op # "getc"
    <3>1. r = h /\ ~Answered(c)
      BY <2>1, <2>3 DEF handle_bcd, Answered
    <3> QED BY <3>1
  <2> QED BY <2>2, <2>3
<1>6. CASE c.op # "identify" /\ c.dev = "none"
  <2>1. r = h /\ ~Answered(c)
    BY <1>1, <1>6 DEF handle_command, Answered
  <2> QED BY <2>1
<1> QED BY <1>1, <1>3, <1>4, <1>5, <1>6

\* The end of a pass, tick and delivery, moves the answers on and keeps their line.
LEMMA PassKeepsLine ==
    ASSUME NEW h, NEW w, QueuesOk(h, w, mem.fromhost), received \in Seq(Sent),
           mem = [tohost |-> mem.tohost, fromhost |-> mem.fromhost],
           deliver(tick(h), w)
    PROVE  /\ QueuesOk(host', w, mem'.fromhost)
           /\ mem'.tohost = w /\ mem' = [tohost |-> mem'.tohost, fromhost |-> mem'.fromhost]
           /\ Line(received, mem'.fromhost, host'.fromhost_queue, host'.pending_reads)
              = Line(received, mem.fromhost, h.fromhost_queue, h.pending_reads)
<1> DEFINE f == mem.fromhost
           q == h.fromhost_queue
           p == h.pending_reads
           k == tick(h)
<1>1. /\ Shape(h) /\ q \in Seq(Sent) /\ p \in Seq(Sent) /\ f \in Sent \cup {None}
      /\ \A i \in DOMAIN p : Waits(p[i])
      /\ w \in Sent \cup {None}
  BY DEF QueuesOk
<1>2. /\ QueuesOk(k, w, f)
      /\ Line(received, f, k.fromhost_queue, k.pending_reads) = Line(received, f, q, p)
  <2>1. CASE p # <<>> /\ h.typed > 0
    <3> DEFINE a == respond(h, Head(p))
    <3>1. a = [h EXCEPT !.fromhost_queue = Append(q, Head(p))]
      BY DEF respond
    <3>2. k = [a EXCEPT !.pending_reads = Tail(a.pending_reads), !.typed = a.typed - 1]
      BY <2>1 DEF tick
    <3> HIDE DEF a, k
    <3>3. Shape(a) /\ a.fromhost_queue = Append(q, Head(p)) /\ a.pending_reads = p
      BY <1>1, <3>1 DEF Shape
    <3>4. Shape(k) /\ k.fromhost_queue = Append(q, Head(p)) /\ k.pending_reads = Tail(p)
      BY <3>2, <3>3 DEF Shape
    <3>5. /\ Head(p) \in Sent /\ Tail(p) \in Seq(Sent) /\ Len(Tail(p)) = Len(p) - 1
          /\ \A i \in 1 .. Len(Tail(p)) : Tail(p)[i] = p[i + 1]
      BY <1>1, <2>1, HeadTailProperties
    <3>6. Append(q, Head(p)) \in Seq(Sent)
      BY <1>1, <3>5, AppendProperties
    <3>7. ASSUME NEW i \in DOMAIN Tail(p) PROVE Waits(Tail(p)[i])
      <4>1. Len(p) \in Nat /\ DOMAIN p = 1 .. Len(p) /\ DOMAIN Tail(p) = 1 .. Len(Tail(p))
        BY <1>1, <3>5, LenProperties
      <4>2. i \in 1 .. Len(Tail(p)) /\ i + 1 \in DOMAIN p
        BY <3>5, <4>1
      <4> QED BY <1>1, <3>5, <4>2
    <3>8. Line(received, f, Append(q, Head(p)), Tail(p)) = Line(received, f, q, p)
      BY <1>1, <2>1, TickKeepsLine
    <3> QED BY <1>1, <3>4, <3>5, <3>6, <3>7, <3>8 DEF QueuesOk
  <2>2. CASE ~(p # <<>> /\ h.typed > 0)
    <3>1. k = h
      BY <2>2 DEF tick
    <3> QED BY <3>1
  <2> QED BY <2>1, <2>2
<1> DEFINE kq == k.fromhost_queue
           kp == k.pending_reads
<1>3. Shape(k) /\ kq \in Seq(Sent) /\ kp \in Seq(Sent) /\ \A i \in DOMAIN kp : Waits(kp[i])
  BY <1>2 DEF QueuesOk
<1>4. CASE kq # <<>> /\ f = None
  <2>1. mem' = [tohost |-> w, fromhost |-> Head(kq)] /\ host' = [k EXCEPT !.fromhost_queue = Tail(kq)]
    BY <1>4 DEF deliver
  <2> HIDE DEF k
  <2>2. Shape(host') /\ host'.fromhost_queue = Tail(kq) /\ host'.pending_reads = kp
    BY <1>3, <2>1 DEF Shape
  <2>3. Head(kq) \in Sent /\ Tail(kq) \in Seq(Sent)
    BY <1>3, <1>4, HeadTailProperties
  <2>4. Line(received, Head(kq), Tail(kq), kp) = Line(received, None, kq, kp)
    BY <1>3, <1>4, DeliverKeepsLine
  <2>5. mem'.tohost = w /\ mem'.fromhost = Head(kq)
    BY <2>1
  <2>6. QueuesOk(host', w, mem'.fromhost)
    BY <1>1, <1>3, <2>2, <2>3, <2>5 DEF QueuesOk
  <2> QED BY <1>2, <1>4, <2>1, <2>2, <2>4, <2>5, <2>6
<1>5. CASE ~(kq # <<>> /\ f = None)
  <2>1. mem' = [mem EXCEPT !.tohost = w] /\ host' = k
    BY <1>5 DEF deliver
  <2> HIDE DEF k
  <2>2. mem' = [tohost |-> w, fromhost |-> f]
    BY <2>1
  <2> QED BY <1>2, <2>1, <2>2
<1> QED BY <1>4, <1>5

\* A command served stands in the line behind all of its kind.
LEMMA ServeKeepsLine == AnswersIInv /\ serve => AnswersIInv'
<1> SUFFICES ASSUME AnswersIInv, serve PROVE AnswersIInv'
  OBVIOUS
<1> DEFINE c == mem.tohost
           f == mem.fromhost
           h == handle_command(host, c)
           q == host.fromhost_queue
           p == host.pending_reads
           F == IF f = None THEN <<>> ELSE <<f>>
<1>1. /\ c \in Sent /\ c.id = issued /\ \A d \in accepted : d \in Sent /\ d.id < c.id
      /\ issued \in Nat /\ ~BadSyscall(c) /\ received \in Seq(Sent)
      /\ f \in Sent \cup {None} /\ q \in Seq(Sent) /\ p \in Seq(Sent)
      /\ \A i \in DOMAIN p : Waits(p[i])
      /\ Shape(host)
  BY DEF AnswersIInv, QueuesOk, serve
<1>2. Members(Line(received, f, q, p)) = accepted /\ InOrder(Line(received, f, q, p))
  BY DEF AnswersIInv, AnsweredOnceInOrder, Answers, Outgoing, Line, Members
<1>3. /\ deliver(tick(h), None) /\ received' = received /\ issued' = issued
      /\ accepted' = IF Answered(c) THEN accepted \cup {c} ELSE accepted
  BY DEF serve
<1>4. /\ Shape(h)
      /\ \/ /\ Answered(c) /\ ~Waits(c) /\ h.fromhost_queue = Append(q, c) /\ h.pending_reads = p
         \/ /\ Answered(c) /\ Waits(c) /\ h.fromhost_queue = q /\ h.pending_reads = Append(p, c)
         \/ ~Answered(c) /\ h.fromhost_queue = q /\ h.pending_reads = p
  BY <1>1, CommandQueued
<1> HIDE DEF h, c, f, q, p
<1>5. F \in Seq(Sent) /\ <<c>> \in Seq(Sent)
  BY <1>1, WordIsSeq
<1> HIDE DEF F
<1>6. F \o q \in Seq(Sent)
  BY <1>1, <1>5, ConcatProperties
<1> DEFINE Fq == F \o q
           a == received \o Fq
<1>7. Line(received, f, q, p) = a \o p
  BY DEF Line, F
<1>8. a \in Seq(Sent)
  <2>1. Fq \in Seq(Sent)
    BY <1>6
  <2> HIDE DEF Fq
  <2> QED BY <1>1, <2>1, ConcatProperties
<1>9. /\ QueuesOk(h, None, f)
      /\ Members(Line(received, f, h.fromhost_queue, h.pending_reads)) = accepted'
      /\ InOrder(Line(received, f, h.fromhost_queue, h.pending_reads))
  <2>1. CASE Answered(c) /\ ~Waits(c) /\ h.fromhost_queue = Append(q, c) /\ h.pending_reads = p
    <3>1. Append(q, c) = q \o <<c>> /\ Append(q, c) \in Seq(Sent)
      BY <1>1, AppendIsConcat, AppendProperties
    <3>2. F \o (q \o <<c>>) = Fq \o <<c>>
      <4>1. Grouped(F, q, <<c>>)
        BY <1>1, <1>5, IsGrouped
      <4> QED BY <4>1, Zenon DEF Grouped
    <3>3. received \o (Fq \o <<c>>) = a \o <<c>>
      <4>1. Fq \in Seq(Sent)
        BY <1>6
      <4> HIDE DEF Fq
      <4>2. Grouped(received, Fq, <<c>>)
        BY <1>1, <1>5, <4>1, IsGrouped
      <4> QED BY <4>2, Zenon DEF Grouped
    <3>4. Line(received, f, Append(q, c), p) = (a \o <<c>>) \o p
      <4>1. Line(received, f, Append(q, c), p) = (received \o (F \o Append(q, c))) \o p
        BY DEF Line, F
      <4> QED BY <3>1, <3>2, <3>3, <4>1
    <3> HIDE DEF a
    <3>a. \A i \in DOMAIN p : Waits(p[i]) # Waits(c)
      BY <1>1, <2>1
    <3>b. /\ Members(a \o p) = accepted /\ InOrder(a \o p)
          /\ \A d \in Members(a \o p) : d.id < c.id
      BY <1>1, <1>2, <1>7 DEF a
    <3>5. Members((a \o <<c>>) \o p) = accepted \cup {c} /\ InOrder((a \o <<c>>) \o p)
      <4>1. c \in Sent /\ p \in Seq(Sent) /\ a \in Seq(Sent)
        BY <1>1, <1>8
      <4>2. /\ Members((a \o <<c>>) \o p) = Members(a \o p) \cup {c}
            /\ InOrder((a \o <<c>>) \o p)
        BY <3>a, <3>b, <4>1, AnswerInserted, Zenon
      <4> QED BY <3>b, <4>2, Zenon
    <3> QED BY <1>1, <1>3, <1>4, <2>1, <3>1, <3>4, <3>5 DEF QueuesOk
  <2>2. CASE Answered(c) /\ Waits(c) /\ h.fromhost_queue = q /\ h.pending_reads = Append(p, c)
    <3>1. /\ Append(p, c) = p \o <<c>> /\ Append(p, c) \in Seq(Sent)
          /\ Len(Append(p, c)) = Len(p) + 1
          /\ \A i \in 1 .. Len(p) : Append(p, c)[i] = p[i]
          /\ Append(p, c)[Len(p) + 1] = c
      BY <1>1, AppendIsConcat, AppendProperties
    <3>2. ASSUME NEW i \in DOMAIN Append(p, c) PROVE Waits(Append(p, c)[i])
      <4>1. /\ Len(p) \in Nat /\ DOMAIN p = 1 .. Len(p)
            /\ DOMAIN Append(p, c) = 1 .. Len(Append(p, c))
        BY <1>1, <3>1, LenProperties
      <4>2. i \in 1 .. Len(p) \/ i = Len(p) + 1
        BY <3>1, <4>1
      <4> QED BY <1>1, <2>2, <3>1, <4>1, <4>2
    <3> HIDE DEF a
    <3> DEFINE s == a \o p
    <3>3. a \o (p \o <<c>>) = s \o <<c>> /\ s \in Seq(Sent)
      <4>1. a \in Seq(Sent) /\ p \in Seq(Sent) /\ <<c>> \in Seq(Sent)
        BY <1>1, <1>5, <1>8
      <4>2. Grouped(a, p, <<c>>)
        BY <4>1, IsGrouped
      <4>3. s \in Seq(Sent)
        BY <4>1, ConcatProperties
      <4> QED BY <4>2, <4>3, Zenon DEF Grouped
    <3>4. Line(received, f, q, Append(p, c)) = s \o <<c>>
      BY <3>1, <3>3 DEF Line, F, a
    <3>5. Members(s) = accepted /\ InOrder(s)
      BY <1>2, <1>7
    <3> HIDE DEF s
    <3>6. s \o <<>> = s /\ s \o <<c>> \in Seq(Sent) /\ <<>> \in Seq(Sent)
      BY <1>5, <3>3, ConcatEmptySeq, ConcatProperties
    <3>7. (s \o <<c>>) \o <<>> = s \o <<c>>
      BY <3>6, ConcatEmptySeq
    <3> DEFINE e == <<>>
    <3>8. e \in Seq(Sent) /\ \A i \in DOMAIN e : Waits(e[i]) # Waits(c)
      OBVIOUS
    <3>9. s \o e = s /\ (s \o <<c>>) \o e = s \o <<c>>
      BY <3>6, <3>7
    <3> HIDE DEF e
    <3>10. Members((s \o <<c>>) \o e) = accepted \cup {c} /\ InOrder((s \o <<c>>) \o e)
      <4>1. /\ Members(s \o e) = accepted /\ InOrder(s \o e)
            /\ \A d \in Members(s \o e) : d.id < c.id
        BY <1>1, <3>5, <3>9
      <4>2. c \in Sent /\ s \in Seq(Sent)
        BY <1>1, <3>3
      <4>3. /\ Members((s \o <<c>>) \o e) = Members(s \o e) \cup {c}
            /\ InOrder((s \o <<c>>) \o e)
        BY <3>8, <4>1, <4>2, AnswerInserted
      <4> QED BY <4>1, <4>3
    <3> QED BY <1>1, <1>3, <1>4, <2>2, <3>1, <3>2, <3>4, <3>9, <3>10 DEF QueuesOk
  <2>3. CASE ~Answered(c) /\ h.fromhost_queue = q /\ h.pending_reads = p
    BY <1>1, <1>2, <1>3, <1>4, <2>3 DEF QueuesOk
  <2> QED BY <1>4, <2>1, <2>2, <2>3
<1>10. mem = [tohost |-> mem.tohost, fromhost |-> mem.fromhost]
  BY DEF AnswersIInv
<1>11. /\ QueuesOk(host', None, mem'.fromhost) /\ mem'.tohost = None
       /\ mem' = [tohost |-> mem'.tohost, fromhost |-> mem'.fromhost]
       /\ Line(received, mem'.fromhost, host'.fromhost_queue, host'.pending_reads)
          = Line(received, f, h.fromhost_queue, h.pending_reads)
  BY <1>1, <1>3, <1>9, <1>10, PassKeepsLine DEF f
<1>12. Answers' = Line(received, mem'.fromhost, host'.fromhost_queue, host'.pending_reads)
  BY <1>3 DEF Answers, Outgoing, Line
<1>13. AnsweredOnceInOrder'
  <2>1. Members(Answers') = accepted' /\ InOrder(Answers')
    BY <1>9, <1>11, <1>12
  <2> QED BY <2>1 DEF AnsweredOnceInOrder, InOrder, Members
<1>14. \A d \in accepted' : d \in Sent /\ d.id <= issued'
  BY <1>1, <1>3, SentProperties
<1> QED BY <1>1, <1>3, <1>11, <1>13, <1>14 DEF AnswersIInv

\* Nothing has been sent at the start.
LEMMA AnswersInit == Init => AnswersIInv
<1> SUFFICES ASSUME Init PROVE AnswersIInv
  OBVIOUS
<1>1. /\ host.fromhost_queue = <<>> /\ host.pending_reads = <<>> /\ Shape(host)
      /\ mem.tohost = None /\ mem.fromhost = None
      /\ mem = [tohost |-> mem.tohost, fromhost |-> mem.fromhost]
      /\ issued = 0 /\ accepted = {} /\ received = <<>>
  BY DEF Init, Shape
<1>2. QueuesOk(host, mem.tohost, mem.fromhost)
  BY <1>1 DEF QueuesOk
<1>3. Answers = <<>>
  BY <1>1 DEF Answers, Outgoing
<1>4. AnsweredOnceInOrder
  BY <1>1, <1>3 DEF AnsweredOnceInOrder, InOrder
<1> QED BY <1>1, <1>2, <1>4 DEF AnswersIInv

\* Every step of the loop, the program and the terminal keeps the line.
LEMMA AnswersNext == AnswersIInv /\ [Next]_vars => AnswersIInv'
<1> SUFFICES ASSUME AnswersIInv, [Next]_vars PROVE AnswersIInv'
  OBVIOUS
<1>1. CASE serve
  BY <1>1, ServeKeepsLine
<1>2. CASE idle_ends
  <2>1. /\ deliver(tick(host), mem.tohost) /\ received' = received /\ issued' = issued
        /\ accepted' = accepted
    BY <1>2 DEF idle_ends
  <2>2. /\ QueuesOk(host', mem.tohost, mem'.fromhost) /\ mem'.tohost = mem.tohost
        /\ mem' = [tohost |-> mem'.tohost, fromhost |-> mem'.fromhost]
        /\ Line(received, mem'.fromhost, host'.fromhost_queue, host'.pending_reads)
           = Line(received, mem.fromhost, host.fromhost_queue, host.pending_reads)
    BY <2>1, PassKeepsLine DEF AnswersIInv
  <2>3. Answers' = Answers
    BY <2>1, <2>2 DEF Answers, Outgoing, Line
  <2>4. AnsweredOnceInOrder'
    BY <2>1, <2>3 DEF AnswersIInv, AnsweredOnceInOrder, InOrder
  <2> QED BY <2>1, <2>2, <2>4 DEF AnswersIInv
<1>3. CASE program_issues
  <2>1. PICK c \in Commands :
            mem' = [mem EXCEPT !.tohost = [dev |-> c.dev, op |-> c.op, arg |-> c.arg,
                                           id |-> issued + 1]]
    BY <1>3 DEF program_issues
  <2>2. /\ issued' = issued + 1 /\ issued \in Nat
        /\ host' = host /\ accepted' = accepted /\ received' = received
    BY <1>3 DEF program_issues, AnswersIInv
  <2> DEFINE t == [dev |-> c.dev, op |-> c.op, arg |-> c.arg, id |-> issued + 1]
  <2>3. t \in Sent /\ t.id = issued'
    BY <2>2 DEF Sent
  <2>4. /\ mem'.tohost = t /\ mem'.fromhost = mem.fromhost
        /\ mem' = [tohost |-> mem'.tohost, fromhost |-> mem'.fromhost]
    BY <2>1 DEF AnswersIInv
  <2> HIDE DEF t
  <2>5. QueuesOk(host', mem'.tohost, mem'.fromhost)
    BY <2>2, <2>3, <2>4 DEF AnswersIInv, QueuesOk
  <2>6. \A d \in accepted' : d \in Sent /\ d.id < issued' /\ d.id <= issued'
    BY <2>2, SentProperties DEF AnswersIInv
  <2>7. Answers' = Answers
    BY <2>2, <2>4 DEF Answers, Outgoing
  <2>8. AnsweredOnceInOrder'
    BY <2>2, <2>7 DEF AnswersIInv, AnsweredOnceInOrder, InOrder
  <2> QED BY <2>2, <2>3, <2>4, <2>5, <2>6, <2>8 DEF AnswersIInv
<1>4. CASE program_takes
  <2>1. /\ mem.fromhost # None /\ mem' = [mem EXCEPT !.fromhost = None]
        /\ received' = Append(received, mem.fromhost)
        /\ host' = host /\ issued' = issued /\ accepted' = accepted
    BY <1>4 DEF program_takes
  <2>2. /\ mem'.tohost = mem.tohost /\ mem'.fromhost = None
        /\ mem' = [tohost |-> mem'.tohost, fromhost |-> mem'.fromhost]
        /\ mem.fromhost \in Sent /\ received \in Seq(Sent)
        /\ host.fromhost_queue \in Seq(Sent) /\ host.pending_reads \in Seq(Sent)
    BY <2>1 DEF AnswersIInv, QueuesOk
  <2>3. received' \in Seq(Sent)
    BY <2>1, <2>2, AppendProperties
  <2>4. Line(received', None, host.fromhost_queue, host.pending_reads)
        = Line(received, mem.fromhost, host.fromhost_queue, host.pending_reads)
    BY <2>1, <2>2, TakeKeepsLine
  <2>5. Answers' = Answers
    BY <2>1, <2>2, <2>4 DEF Answers, Outgoing, Line
  <2>6. AnsweredOnceInOrder'
    BY <2>1, <2>5 DEF AnswersIInv, AnsweredOnceInOrder, InOrder
  <2>7. QueuesOk(host', mem'.tohost, mem'.fromhost)
    BY <2>1, <2>2 DEF AnswersIInv, QueuesOk
  <2> QED BY <2>1, <2>2, <2>3, <2>6, <2>7 DEF AnswersIInv
<1>5. CASE type
  <2>1. /\ host' = [host EXCEPT !.typed = host.typed + 1]
        /\ mem' = mem /\ issued' = issued /\ accepted' = accepted /\ received' = received
    BY <1>5 DEF type
  <2>2. /\ Shape(host') /\ host'.fromhost_queue = host.fromhost_queue
        /\ host'.pending_reads = host.pending_reads
    BY <2>1 DEF AnswersIInv, QueuesOk, Shape
  <2>3. Answers' = Answers
    BY <2>1, <2>2 DEF Answers, Outgoing
  <2>4. AnsweredOnceInOrder'
    BY <2>1, <2>3 DEF AnswersIInv, AnsweredOnceInOrder, InOrder
  <2>5. QueuesOk(host', mem'.tohost, mem'.fromhost)
    BY <2>1, <2>2 DEF AnswersIInv, QueuesOk
  <2> QED BY <2>1, <2>4, <2>5 DEF AnswersIInv
<1>6. CASE bad_syscall
  <2>1. /\ mem' = [mem EXCEPT !.tohost = None] /\ host' = host
        /\ issued' = issued /\ accepted' = accepted /\ received' = received
    BY <1>6 DEF bad_syscall
  <2>2. /\ mem'.tohost = None /\ mem'.fromhost = mem.fromhost
        /\ mem' = [tohost |-> mem'.tohost, fromhost |-> mem'.fromhost]
    BY <2>1 DEF AnswersIInv
  <2>3. Answers' = Answers
    BY <2>1, <2>2 DEF Answers, Outgoing
  <2>4. AnsweredOnceInOrder'
    BY <2>1, <2>3 DEF AnswersIInv, AnsweredOnceInOrder, InOrder
  <2>5. QueuesOk(host', mem'.tohost, mem'.fromhost)
    BY <2>1, <2>2 DEF AnswersIInv, QueuesOk
  <2> QED BY <2>1, <2>2, <2>4, <2>5 DEF AnswersIInv
<1>7. CASE idle \/ stop \/ handle_signal \/ Over \/ UNCHANGED vars
  <2>1. /\ host' = host /\ mem' = mem /\ issued' = issued
        /\ accepted' = accepted /\ received' = received
    BY <1>7 DEF idle, stop, handle_signal, Over, vars
  <2>2. Answers' = Answers
    BY <2>1 DEF Answers, Outgoing
  <2>3. AnsweredOnceInOrder'
    BY <2>1, <2>2 DEF AnswersIInv, AnsweredOnceInOrder, InOrder
  <2> QED BY <2>1, <2>3 DEF AnswersIInv, QueuesOk, Shape
<1> QED BY <1>1, <1>2, <1>3, <1>4, <1>5, <1>6, <1>7 DEF Next

\* htif_t::run: whatever the program asks and in whatever order passes, slices, signals
\* and typing come, no answer is lost or doubled, and the commands that
\* wait for the terminal keep their order, as do the others.
THEOREM AnswersInLine == Spec => []AnsweredOnceInOrder
<1>1. Init => AnswersIInv
  BY AnswersInit
<1>2. AnswersIInv /\ [Next]_vars => AnswersIInv'
  BY AnswersNext
<1>3. AnswersIInv => AnsweredOnceInOrder
  BY DEF AnswersIInv
<1> QED BY <1>1, <1>2, <1>3, PTL DEF Spec
=============================================================================
