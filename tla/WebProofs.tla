------------------------------ MODULE WebProofs ------------------------------
(***************************************************************************)
(* Proofs about Web: the session's flags, what the page offers, that a     *)
(* continuous run neither stalls nor gets ahead of the page, and when a    *)
(* session lets go of a process; for any number of connections, processes  *)
(* and clicks.                                                             *)
(***************************************************************************)
EXTENDS Web, TLAPS, FiniteSetTheorems, SequenceTheorems, WellFoundedInduction

-----------------------------------------------------------------------------
(***************************************************************************)
(* Counting the members of a sequence.                                     *)
(***************************************************************************)

\* The positions that Count counts are finitely many.
LEMMA CountType ==
    ASSUME NEW A, NEW s \in Seq(A), NEW K
    PROVE  /\ IsFiniteSet({i \in DOMAIN s : s[i] \in K})
           /\ Count(s, K) \in Nat
<1> DEFINE P == {i \in DOMAIN s : s[i] \in K}
<1>1. DOMAIN s = 1 .. Len(s) /\ Len(s) \in Nat
  BY LenProperties
<1>2. P \in SUBSET (1 .. Len(s))
  BY <1>1
<1>3. IsFiniteSet(1 .. Len(s))
  BY <1>1, FS_Interval
<1>4. IsFiniteSet(P)
  <2> HIDE DEF P
  <2> QED BY <1>2, <1>3, FS_Subset
<1>5. Cardinality(P) \in Nat
  <2> HIDE DEF P
  <2> QED BY <1>4, FS_CardinalityType
<1> QED BY <1>4, <1>5 DEF Count

\* Something counts exactly if it is there.
LEMMA CountPositive ==
    ASSUME NEW A, NEW s \in Seq(A), NEW K
    PROVE  Count(s, K) > 0 <=> \E i \in DOMAIN s : s[i] \in K
<1> DEFINE P == {i \in DOMAIN s : s[i] \in K}
<1>1. IsFiniteSet(P) /\ Count(s, K) \in Nat /\ Count(s, K) = Cardinality(P)
  BY CountType DEF Count
<1>2. Cardinality(P) = 0 <=> P = {}
  <2> HIDE DEF P
  <2> QED BY <1>1, FS_EmptySet
<1>3. P # {} <=> \E i \in DOMAIN s : s[i] \in K
  OBVIOUS
<1> HIDE DEF P
<1> QED BY <1>1, <1>2, <1>3

\* The count of a concatenation.
LEMMA CountConcat ==
    ASSUME NEW A, NEW s \in Seq(A), NEW t \in Seq(A), NEW K
    PROVE  Count(s \o t, K) = Count(s, K) + Count(t, K)
<1> DEFINE m == Len(s)
           n == Len(t)
           u == s \o t
           P == {i \in DOMAIN s : s[i] \in K}
           Q == {i \in DOMAIN t : t[i] \in K}
           R == {i \in DOMAIN u : u[i] \in K}
           T == {i \in (m + 1) .. (m + n) : t[i - m] \in K}
<1>1. m \in Nat /\ n \in Nat /\ DOMAIN s = 1 .. m /\ DOMAIN t = 1 .. n
  BY LenProperties
<1>2. /\ u \in Seq(A) /\ Len(u) = m + n
      /\ \A i \in 1 .. m + n : u[i] = IF i <= m THEN s[i] ELSE t[i - m]
  BY ConcatProperties
<1>3. DOMAIN u = 1 .. m + n
  <2> HIDE DEF u
  <2> QED BY <1>2, LenProperties
<1> HIDE DEF m, n, u
<1>4. R = P \cup T
  <2>1. ASSUME NEW i \in R PROVE i \in P \cup T
    <3>1. i \in 1 .. m + n /\ u[i] \in K
      BY <1>3
    <3>2. CASE i <= m
      <4>1. i \in 1 .. m /\ u[i] = s[i]
        BY <1>1, <1>2, <3>1, <3>2
      <4> QED BY <1>1, <3>1, <4>1
    <3>3. CASE ~(i <= m)
      <4>1. i \in (m + 1) .. (m + n) /\ u[i] = t[i - m]
        BY <1>1, <1>2, <3>1, <3>3
      <4> QED BY <3>1, <4>1
    <3> QED BY <3>2, <3>3
  <2>2. ASSUME NEW i \in P PROVE i \in R
    <3>1. i \in 1 .. m + n /\ i <= m
      BY <1>1
    <3>2. u[i] = s[i]
      BY <1>2, <3>1
    <3> QED BY <1>3, <3>1, <3>2
  <2>3. ASSUME NEW i \in T PROVE i \in R
    <3>1. i \in 1 .. m + n /\ ~(i <= m)
      BY <1>1
    <3>2. u[i] = t[i - m]
      BY <1>2, <3>1
    <3> QED BY <1>3, <3>1, <3>2
  <2> QED BY <2>1, <2>2, <2>3
<1>5. P \cap T = {}
  BY <1>1
<1>6. ExistsBijection(Q, T)
  <2> DEFINE f == [i \in Q |-> i + m]
  <2>1. ASSUME NEW i \in Q PROVE i + m \in T
    <3>1. i \in 1 .. n /\ t[i] \in K
      BY <1>1
    <3>2. i + m \in (m + 1) .. (m + n) /\ (i + m) - m = i
      BY <1>1, <3>1
    <3> QED BY <3>1, <3>2
  <2>2. ASSUME NEW j \in T PROVE j - m \in Q /\ (j - m) + m = j
    <3>1. j - m \in 1 .. n /\ (j - m) + m = j /\ t[j - m] \in K
      BY <1>1
    <3> QED BY <1>1, <3>1
  <2>3. \A i, j \in Q : i + m = j + m => i = j
    BY <1>1
  <2> HIDE DEF Q, T
  <2>4. f \in [Q -> T]
    BY <2>1
  <2>5. f \in Injection(Q, T)
    BY <2>3, <2>4 DEF Injection, IsInjective
  <2>6. f \in Surjection(Q, T)
    BY <2>2, <2>4 DEF Surjection
  <2> QED BY <2>5, <2>6, Zenon DEF ExistsBijection, Bijection
<1>7. IsFiniteSet(P) /\ IsFiniteSet(Q) /\ Count(s, K) \in Nat /\ Count(t, K) \in Nat
  BY CountType
<1>8. Count(s, K) = Cardinality(P) /\ Count(t, K) = Cardinality(Q) /\ Count(u, K) = Cardinality(R)
  BY DEF Count
<1> HIDE DEF P, Q, R, T
<1>9. IsFiniteSet(T) /\ Cardinality(T) = Cardinality(Q)
  BY <1>6, <1>7, FS_Bijection
<1>10. Cardinality(P \cup T) = Cardinality(P) + Cardinality(T) - Cardinality(P \cap T)
  BY <1>7, <1>9, FS_Union
<1>11. Cardinality(P \cap T) = 0
  BY <1>5, FS_EmptySet
<1> QED BY <1>4, <1>7, <1>8, <1>9, <1>10, <1>11 DEF u

\* One message counts one or nothing, no message nothing.
LEMMA CountFew ==
    ASSUME NEW K
    PROVE  /\ Count(<<>>, K) = 0
           /\ \A x : Count(<<x>>, K) = IF x \in K THEN 1 ELSE 0
<1>1. {i \in DOMAIN <<>> : <<>>[i] \in K} = {}
  OBVIOUS
<1>2. ASSUME NEW x PROVE Count(<<x>>, K) = IF x \in K THEN 1 ELSE 0
  <2> DEFINE P == {i \in DOMAIN <<x>> : <<x>>[i] \in K}
  <2>1. P = IF x \in K THEN {1} ELSE {}
    OBVIOUS
  <2>2. Count(<<x>>, K) = Cardinality(P)
    BY DEF Count
  <2> HIDE DEF P
  <2> QED BY <2>1, <2>2, FS_EmptySet, FS_Singleton
<1> QED BY <1>1, <1>2, FS_EmptySet DEF Count

\* A message appended, and one taken from the head.
LEMMA CountAppend ==
    ASSUME NEW A, NEW s \in Seq(A), NEW x \in A, NEW K
    PROVE  Count(Append(s, x), K) = Count(s, K) + (IF x \in K THEN 1 ELSE 0)
<1>1. Append(s, x) = s \o <<x>> /\ <<x>> \in Seq(A)
  BY AppendIsConcat
<1>2. Count(s \o <<x>>, K) = Count(s, K) + Count(<<x>>, K)
  BY <1>1, CountConcat
<1> QED BY <1>1, <1>2, CountFew

LEMMA HeadThenTail ==
    ASSUME NEW A, NEW s \in Seq(A), s # <<>>
    PROVE  <<Head(s)>> \o Tail(s) = s /\ Head(s) \in A /\ Tail(s) \in Seq(A)
<1>1. /\ Head(s) \in A /\ Tail(s) \in Seq(A) /\ Len(Tail(s)) = Len(s) - 1
      /\ \A i \in 1 .. Len(Tail(s)) : Tail(s)[i] = s[i + 1]
  BY HeadTailProperties
<1>2. <<Head(s)>> \in Seq(A) /\ Len(<<Head(s)>>) = 1 /\ <<Head(s)>>[1] = s[1] /\ Len(s) \in Nat
  BY <1>1
<1> DEFINE t == <<Head(s)>> \o Tail(s)
<1>3. /\ t \in Seq(A) /\ Len(t) = Len(s)
      /\ \A i \in 1 .. Len(s) : t[i] = IF i <= 1 THEN s[1] ELSE Tail(s)[i - 1]
  BY <1>1, <1>2, ConcatProperties
<1>4. ASSUME NEW i \in 1 .. Len(s) PROVE t[i] = s[i]
  <2>1. CASE i = 1
    BY <1>3, <2>1
  <2>2. CASE i # 1
    <3>1. i - 1 \in 1 .. Len(Tail(s)) /\ ~(i <= 1)
      BY <1>1, <1>2, <2>2
    <3>2. Tail(s)[i - 1] = s[(i - 1) + 1]
      BY <1>1, <3>1
    <3> QED BY <1>3, <3>1, <3>2
  <2> QED BY <2>1, <2>2
<1> HIDE DEF t
<1>5. t = s
  BY <1>3, <1>4, SeqEqual
<1> QED BY <1>1, <1>5 DEF t

LEMMA CountTail ==
    ASSUME NEW A, NEW s \in Seq(A), s # <<>>, NEW K
    PROVE  Count(s, K) = (IF Head(s) \in K THEN 1 ELSE 0) + Count(Tail(s), K)
<1>1. <<Head(s)>> \o Tail(s) = s /\ Head(s) \in A /\ Tail(s) \in Seq(A)
  BY HeadThenTail
<1>2. <<Head(s)>> \in Seq(A)
  BY <1>1
<1> DEFINE h == <<Head(s)>>
           t == Tail(s)
<1>3. h \in Seq(A) /\ t \in Seq(A) /\ h \o t = s
  BY <1>1, <1>2
<1>4. Count(h, K) = IF Head(s) \in K THEN 1 ELSE 0
  BY CountFew
<1> HIDE DEF h, t
<1>5. Count(h \o t, K) = Count(h, K) + Count(t, K)
  BY <1>3, CountConcat
<1> QED BY <1>3, <1>4, <1>5 DEF t

\* A piece taken from the front, the item it ends in, and what is left.
LEMMA CountPiece ==
    ASSUME NEW A, NEW s \in Seq(A), NEW n \in DOMAIN s, NEW K
    PROVE  /\ SubSeq(s, 1, n - 1) \in Seq(A) /\ SubSeq(s, n + 1, Len(s)) \in Seq(A)
           /\ Len(SubSeq(s, 1, n - 1)) = n - 1 /\ Len(SubSeq(s, n + 1, Len(s))) = Len(s) - n
           /\ \A i \in 1 .. n - 1 : SubSeq(s, 1, n - 1)[i] = s[i]
           /\ \A i \in 1 .. Len(s) - n : SubSeq(s, n + 1, Len(s))[i] = s[n + i]
           /\ Count(s, K) = Count(SubSeq(s, 1, n - 1), K) + (IF s[n] \in K THEN 1 ELSE 0)
                            + Count(SubSeq(s, n + 1, Len(s)), K)
<1>1. /\ Len(s) \in Nat /\ DOMAIN s = 1 .. Len(s) /\ \A i \in 1 .. Len(s) : s[i] \in A
      /\ n \in 1 .. Len(s)
  BY LenProperties
<1> DEFINE a == SubSeq(s, 1, n - 1)
           m == SubSeq(s, n, n)
           b == SubSeq(s, n + 1, Len(s))
<1>2. /\ a \in Seq(A) /\ Len(a) = n - 1 /\ \A i \in 1 .. n - 1 : a[i] = s[i]
  <2>1. /\ \A i \in 1 .. n - 1 : s[i] \in A
        /\ 1 \in Int /\ n - 1 \in Int
    BY <1>1
  <2>2. /\ a \in Seq(A) /\ Len(a) = IF 1 <= n - 1 THEN (n - 1) - 1 + 1 ELSE 0
        /\ \A i \in 1 .. (n - 1) - 1 + 1 : a[i] = s[1 + i - 1]
    BY <2>1, SubSeqProperties
  <2> HIDE DEF a
  <2> QED BY <1>1, <2>2
<1>3. m \in Seq(A) /\ Len(m) = 1 /\ m[1] = s[n]
  <2>1. (\A i \in n .. n : s[i] \in A) /\ n \in Int
    BY <1>1
  <2>2. ASSUME NEW e \in Int, e = n
        PROVE  /\ SubSeq(s, n, e) \in Seq(A)
               /\ Len(SubSeq(s, n, e)) = IF n <= e THEN e - n + 1 ELSE 0
               /\ \A i \in 1 .. e - n + 1 : SubSeq(s, n, e)[i] = s[n + i - 1]
    <3>1. \A i \in n .. e : s[i] \in A
      BY <2>1, <2>2
    <3> QED BY <2>1, <3>1, SubSeqProperties
  <2>3. /\ m \in Seq(A) /\ Len(m) = IF n <= n THEN n - n + 1 ELSE 0
        /\ \A i \in 1 .. n - n + 1 : m[i] = s[n + i - 1]
    BY <2>1, <2>2
  <2>4. n <= n /\ n - n + 1 = 1 /\ n + 1 - 1 = n /\ 1 \in 1 .. n - n + 1
    BY <1>1
  <2> HIDE DEF m
  <2> QED BY <2>3, <2>4
<1>4. /\ b \in Seq(A) /\ Len(b) = Len(s) - n /\ \A i \in 1 .. Len(s) - n : b[i] = s[n + i]
  <2>1. (\A i \in n + 1 .. Len(s) : s[i] \in A) /\ n + 1 \in Int /\ Len(s) \in Int
    BY <1>1
  <2>2. /\ b \in Seq(A) /\ Len(b) = IF n + 1 <= Len(s) THEN Len(s) - (n + 1) + 1 ELSE 0
        /\ \A i \in 1 .. Len(s) - (n + 1) + 1 : b[i] = s[(n + 1) + i - 1]
    BY <2>1, SubSeqProperties
  <2> HIDE DEF b
  <2>3. ASSUME NEW i \in 1 .. Len(s) - n PROVE b[i] = s[n + i]
    <3>1. i \in 1 .. Len(s) - (n + 1) + 1 /\ (n + 1) + i - 1 = n + i
      BY <1>1
    <3> QED BY <2>2, <3>1
  <2> QED BY <1>1, <2>2, <2>3
<1>5. (a \o m) \o b = s
  <2>1. /\ 1 \in 1 .. Len(s) + 1 /\ n - 1 \in 1 - 1 .. Len(s) /\ n \in n - 1 .. Len(s)
        /\ n \in 1 - 1 .. Len(s) /\ Len(s) \in n .. Len(s) /\ n = (n - 1) + 1
    BY <1>1
  <2>2. SubSeq(s, 1, n - 1) \o SubSeq(s, (n - 1) + 1, n) = SubSeq(s, 1, n)
    BY <2>1, ConcatAdjacentSubSeq
  <2>3. SubSeq(s, 1, n) \o b = SubSeq(s, 1, Len(s))
    BY <2>1, ConcatAdjacentSubSeq
  <2>4. SubSeq(s, 1, Len(s)) = s
    BY SubSeqFull
  <2>5. a \o m = SubSeq(s, 1, n)
    BY <2>1, <2>2
  <2> QED BY <2>3, <2>4, <2>5, Zenon
<1> HIDE DEF a, m, b
<1>6. Count(m, K) = IF s[n] \in K THEN 1 ELSE 0
  <2>1. m = <<s[n]>>
    BY <1>3
  <2> QED BY <2>1, CountFew
<1>7. Count(s, K) = Count(a, K) + Count(m, K) + Count(b, K)
  <2>1. a \o m \in Seq(A)
    BY <1>2, <1>3, ConcatProperties
  <2>2. Count(s, K) = Count(a \o m, K) + Count(b, K)
    BY <1>4, <1>5, <2>1, CountConcat
  <2>3. Count(a \o m, K) = Count(a, K) + Count(m, K)
    BY <1>2, <1>3, CountConcat
  <2> QED BY <2>2, <2>3
<1> QED BY <1>2, <1>4, <1>6, <1>7 DEF a, b

\* The instructions and the requests among messages or items.
LEMMA LinesType ==
    ASSUME NEW A, NEW s \in Seq(A)
    PROVE  Lines(s) \in Nat /\ Requests(s) \in Nat
BY CountType DEF Lines, Requests

LEMMA LinesFew == Lines(<<>>) = 0 /\ Requests(<<>>) = 0 /\ Lines(<<"prompt">>) = 0
                  /\ Lines(<<"debug-stopped">>) = 0 /\ Lines(<<"debug-started">>) = 0
BY CountFew DEF Lines, Requests

LEMMA LinesConcat ==
    ASSUME NEW A, NEW s \in Seq(A), NEW t \in Seq(A)
    PROVE  Lines(s \o t) = Lines(s) + Lines(t)
BY CountConcat DEF Lines

LEMMA LinesAppend ==
    ASSUME NEW A, NEW s \in Seq(A), NEW x \in A
    PROVE  /\ Lines(Append(s, x)) = Lines(s) + (IF x \in {"line", "stop", "execution-update",
                                                          "frontend-ready"} THEN 1 ELSE 0)
           /\ Requests(Append(s, x)) = Requests(s) + (IF x \in {"step-debug", "continue-debug"}
                                                      THEN 1 ELSE 0)
<1> DEFINE K == {"line", "stop", "execution-update", "frontend-ready"}
           L == {"step-debug", "continue-debug"}
<1> HIDE DEF K, L
<1>1. Count(Append(s, x), K) = Count(s, K) + (IF x \in K THEN 1 ELSE 0)
  BY CountAppend
<1>2. Count(Append(s, x), L) = Count(s, L) + (IF x \in L THEN 1 ELSE 0)
  BY CountAppend
<1> QED BY <1>1, <1>2 DEF Lines, Requests, K, L

LEMMA LinesTail ==
    ASSUME NEW A, NEW s \in Seq(A), s # <<>>
    PROVE  /\ Tail(s) \in Seq(A) /\ Head(s) \in A
           /\ Lines(s) = (IF Head(s) \in {"line", "stop", "execution-update", "frontend-ready"}
                          THEN 1 ELSE 0) + Lines(Tail(s))
           /\ Requests(s) = (IF Head(s) \in {"step-debug", "continue-debug"} THEN 1 ELSE 0)
                            + Requests(Tail(s))
<1> DEFINE K == {"line", "stop", "execution-update", "frontend-ready"}
           L == {"step-debug", "continue-debug"}
<1>0. Tail(s) \in Seq(A) /\ Head(s) \in A
  BY HeadThenTail
<1> HIDE DEF K, L
<1>1. Count(s, K) = (IF Head(s) \in K THEN 1 ELSE 0) + Count(Tail(s), K)
  BY CountTail
<1>2. Count(s, L) = (IF Head(s) \in L THEN 1 ELSE 0) + Count(Tail(s), L)
  BY CountTail
<1> QED BY <1>0, <1>1, <1>2 DEF Lines, Requests, K, L

-----------------------------------------------------------------------------
(***************************************************************************)
(* The inductive invariant.                                                *)
(***************************************************************************)

Items == {"prompt", "echo", "line", "stop"}
News == {"execution-update", "debug-started", "debug-stopped", "debug-reset"}
Orders == {"continue-debug", "step-debug", "pause-debug", "reset-debug", "frontend-ready",
           "start-debug"}
Sessions == [spikeProcess : Spikes \cup {NoSpike}, isRunning : BOOLEAN, isInitialized : BOOLEAN,
             isContinuousMode : BOOLEAN, waitingForOutput : BOOLEAN, waitingForFrontend : BOOLEAN,
             starting : Nat, announcing : Nat, gone : BOOLEAN, late : BOOLEAN]
Processes == [status : {"none", "alive", "exiting", "dead"}, owner : Conns \cup {0}, input : Nat,
              out : Seq(Items)]

Typed ==
    /\ session \in [Conns -> Sessions]
    /\ spike \in [Spikes -> Processes]
    /\ page \in [connected : BOOLEAN, debugging : BOOLEAN, file : BOOLEAN]
    /\ conn \in Conns
    /\ toPage \in Seq(News)
    /\ toServer \in Seq(Orders)
    /\ clicks \in Nat
    /\ excused \in [Conns -> BOOLEAN]

\* A session waits for one thing, and only in a continuous run of a process.
Flags(s) ==
    /\ s.isRunning <=> s.spikeProcess # NoSpike
    /\ ~(s.waitingForOutput /\ s.waitingForFrontend)
    /\ s.waitingForOutput \/ s.waitingForFrontend => s.isContinuousMode /\ s.isRunning

\* A session's process is its own, and has not been heard to exit.
Owns(s, sp, c) ==
    s.spikeProcess # NoSpike => /\ sp[s.spikeProcess].owner = c
                                /\ sp[s.spikeProcess].status \in {"alive", "exiting"}

SessionsSound == \A c \in Conns : Flags(session[c]) /\ Owns(session[c], spike, c)

\* A process that runs belongs to a connection there has been; one that does not, is empty.
Lives(x, n) ==
    /\ x.status = "none" => x = NoProcess
    /\ x.status \in {"alive", "exiting"} => x.owner \in 1 .. n

ProcessesSound == \A p \in Spikes : Lives(spike[p], conn)

\* The start requests under way find a process to start.
RoomToStart == Started + Starts <= MaxSpikes

\* Without a connection nothing is under way; a connection to come is new.
NotConnected ==
    /\ ~page.connected => toPage = <<>> /\ toServer = <<>> /\ ~page.debugging
    /\ \A c \in Conns : c > conn => session[c] = NewSession

\* A process is asked for an instruction, or its echo comes before the instruction: the
\* prompt that ends the wait for output is seen no later than the instruction.
Answers(x) ==
    \/ x.input > 0
    \/ \E i, j \in DOMAIN x.out : i < j /\ x.out[i] = "echo" /\ x.out[j] \in {"line", "stop"}

EchoFirst ==
    page.connected /\ ~excused[conn] /\ session[conn].waitingForOutput
        => \E p \in Of(conn) : Answers(spike[p])

WebIInv == /\ Typed /\ SessionsSound /\ ProcessesSound /\ RoomToStart /\ NotConnected
           /\ PageAgrees /\ NotStalled /\ EchoFirst

-----------------------------------------------------------------------------
(***************************************************************************)
(* Cutting the terminal's output.                                          *)
(***************************************************************************)

\* What a cut leaves of an item: nothing, or as much of an instruction as it was.
LEMMA CutOne ==
    ASSUME NEW item \in Items, NEW cut \in Cuts(item)
    PROVE  /\ cut[1] \in Seq(Items) /\ cut[2] \in Seq(Items)
           /\ cut[1] = <<>> \/ \E y \in Items :
                    /\ cut[1] = <<y>> /\ (y \in {"line", "stop"} <=> item \in {"line", "stop"})
                    /\ item = "echo" => y = "echo"
           /\ cut[2] = <<>> \/ (cut[2] = <<"echo">> /\ item = "echo")
<1>1. <<>> \in Seq(Items) /\ \A y \in Items : <<y>> \in Seq(Items)
  OBVIOUS
<1>2. CASE item = "echo"
  <2>1. cut[1] \in {<<>>, <<"echo">>} /\ cut[2] \in {<<>>, <<"echo">>}
    BY <1>2 DEF Cuts
  <2> QED BY <1>1, <1>2, <2>1 DEF Items
<1>3. CASE item = "stop"
  <2>1. cut[1] \in {<<>>, <<"line">>, <<"stop">>} /\ cut[2] = <<>>
    BY <1>3 DEF Cuts
  <2> QED BY <1>1, <1>3, <2>1 DEF Items
<1>4. CASE item \notin {"echo", "stop"}
  <2>1. cut[1] \in {<<>>, <<item>>} /\ cut[2] = <<>>
    BY <1>4 DEF Cuts
  <2> QED BY <1>1, <1>4, <2>1
<1> QED BY <1>2, <1>3, <1>4

\* Positions before and after the cut.
LEMMA Before ==
    ASSUME NEW N \in Nat, NEW n \in 1 .. N, NEW d \in Nat, NEW i \in 1 .. N
    PROVE  /\ i < n => i \in 1 .. n - 1 /\ i \in 1 .. (n - 1) + d /\ i <= n - 1
           /\ i < n \/ i = n \/ i > n
OBVIOUS

LEMMA After ==
    ASSUME NEW N \in Nat, NEW n \in 1 .. N, NEW d \in Nat, NEW k \in n + 1 .. N
    PROVE  /\ k - n \in 1 .. N - n /\ n + (k - n) = k
           /\ d + (k - n) \in 1 .. d + (N - n) /\ ~(d + (k - n) <= d)
           /\ (d + (k - n)) - d = k - n
OBVIOUS

\* No instruction is added, none is missing unless it is lost, and the echo before an
\* instruction is in the piece, or still before it, or lost.
EchoThenLine(o) == \E i, j \in DOMAIN o : i < j /\ o[i] = "echo" /\ o[j] \in {"line", "stop"}

CutDoes(o, lost, chunk, rest) ==
    /\ chunk \in Seq(Items) /\ rest \in Seq(Items)
    /\ Lines(chunk) \in Nat /\ Lines(rest) \in Nat /\ Lines(o) \in Nat
    /\ Lines(chunk) + Lines(rest) <= Lines(o)
    /\ ~lost => Lines(chunk) + Lines(rest) = Lines(o)
    /\ ~lost /\ (\A i \in DOMAIN chunk : chunk[i] # "echo") /\ EchoThenLine(o) => EchoThenLine(rest)

LEMMA CutEffect ==
    ASSUME NEW o \in Seq(Items), NEW n \in DOMAIN o, NEW cut \in Cuts(o[n]),
           NEW chunk, chunk = SubSeq(o, 1, n - 1) \o cut[1],
           NEW rest, rest = cut[2] \o SubSeq(o, n + 1, Len(o))
    PROVE  CutDoes(o, Lost(o[n], cut), chunk, rest)
<1> DEFINE a == SubSeq(o, 1, n - 1)
           b == SubSeq(o, n + 1, Len(o))
           h == cut[1]
           g == cut[2]
           K == {"line", "stop", "execution-update", "frontend-ready"}
<1>1. Len(o) \in Nat /\ DOMAIN o = 1 .. Len(o) /\ n \in 1 .. Len(o) /\ o[n] \in Items
  BY LenProperties
<1>2. /\ a \in Seq(Items) /\ b \in Seq(Items) /\ Len(a) = n - 1 /\ Len(b) = Len(o) - n
      /\ \A i \in 1 .. n - 1 : a[i] = o[i]
      /\ \A i \in 1 .. Len(o) - n : b[i] = o[n + i]
      /\ Count(o, K) = Count(a, K) + (IF o[n] \in K THEN 1 ELSE 0) + Count(b, K)
  <2> HIDE DEF K
  <2> QED BY CountPiece
<1>3. /\ h \in Seq(Items) /\ g \in Seq(Items)
      /\ h = <<>> \/ \E y \in Items : /\ h = <<y>> /\ (y \in {"line", "stop"} <=> o[n] \in {"line", "stop"})
                                      /\ o[n] = "echo" => y = "echo"
      /\ g = <<>> \/ (g = <<"echo">> /\ o[n] = "echo")
  BY <1>1, CutOne
<1>4. chunk = a \o h /\ rest = g \o b
  OBVIOUS
<1>5. Lost(o[n], cut) <=> o[n] # "prompt" /\ h = <<>> /\ g = <<>>
  BY DEF Lost
<1> HIDE DEF a, b, h, g
<1>0. /\ a \in Seq(Items) /\ b \in Seq(Items) /\ h \in Seq(Items) /\ g \in Seq(Items)
      /\ Len(a) = n - 1 /\ Len(b) = Len(o) - n /\ Len(g) \in Nat /\ Len(h) \in Nat
  <2>1. Len(g) \in Nat /\ Len(h) \in Nat
    BY <1>3, LenProperties
  <2> QED BY <1>2, <1>3, <2>1, Zenon
<1>6. /\ chunk \in Seq(Items) /\ rest \in Seq(Items)
      /\ Len(chunk) = Len(a) + Len(h) /\ Len(rest) = Len(g) + Len(b)
      /\ \A i \in 1 .. Len(a) + Len(h) : chunk[i] = IF i <= Len(a) THEN a[i] ELSE h[i - Len(a)]
      /\ \A i \in 1 .. Len(g) + Len(b) : rest[i] = IF i <= Len(g) THEN g[i] ELSE b[i - Len(g)]
  <2>1. /\ a \o h \in Seq(Items) /\ Len(a \o h) = Len(a) + Len(h)
        /\ \A i \in 1 .. Len(a) + Len(h) : (a \o h)[i] = IF i <= Len(a) THEN a[i] ELSE h[i - Len(a)]
    BY <1>0, ConcatProperties
  <2>2. /\ g \o b \in Seq(Items) /\ Len(g \o b) = Len(g) + Len(b)
        /\ \A i \in 1 .. Len(g) + Len(b) : (g \o b)[i] = IF i <= Len(g) THEN g[i] ELSE b[i - Len(g)]
    BY <1>0, ConcatProperties
  <2> QED BY <1>4, <2>1, <2>2, Zenon
<1>7. DOMAIN chunk = 1 .. Len(chunk) /\ DOMAIN rest = 1 .. Len(rest)
  BY <1>6, LenProperties
<1>8. /\ Lines(chunk) = Lines(a) + Lines(h) /\ Lines(rest) = Lines(g) + Lines(b)
      /\ Lines(a) \in Nat /\ Lines(b) \in Nat /\ Lines(o) \in Nat
      /\ Lines(chunk) \in Nat /\ Lines(rest) \in Nat
  <2>1. Lines(a \o h) = Lines(a) + Lines(h) /\ Lines(g \o b) = Lines(g) + Lines(b)
    BY <1>0, LinesConcat
  <2>2. chunk \in Seq(Items) /\ rest \in Seq(Items)
    BY <1>6
  <2>3. /\ Lines(a) \in Nat /\ Lines(b) \in Nat /\ Lines(o) \in Nat
        /\ Lines(chunk) \in Nat /\ Lines(rest) \in Nat
    BY <1>0, <2>2, LinesType
  <2> QED BY <1>4, <2>1, <2>3
<1>9. Lines(o) = Lines(a) + (IF o[n] \in {"line", "stop"} THEN 1 ELSE 0) + Lines(b)
  <2>1. o[n] \in K <=> o[n] \in {"line", "stop"}
    BY <1>1 DEF Items
  <2>2. Lines(o) = Count(o, K) /\ Lines(a) = Count(a, K) /\ Lines(b) = Count(b, K)
    BY DEF Lines
  <2> HIDE DEF K
  <2> QED BY <1>2, <2>1, <2>2
<1>10. Lines(g) = 0
  <2>1. Lines(<<>>) = 0 /\ Lines(<<"echo">>) = 0
    BY CountFew DEF Lines
  <2> QED BY <1>3, <2>1
<1>11. Lines(h) = IF h # <<>> /\ o[n] \in {"line", "stop"} THEN 1 ELSE 0
  <2>1. CASE h = <<>>
    BY <2>1, LinesFew
  <2>2. CASE h # <<>>
    <3>1. PICK y \in Items : h = <<y>> /\ (y \in {"line", "stop"} <=> o[n] \in {"line", "stop"})
      BY <1>3, <2>2
    <3>2. Count(<<y>>, K) = IF y \in K THEN 1 ELSE 0
      <4> HIDE DEF K
      <4> QED BY CountFew
    <3>3. y \in K <=> y \in {"line", "stop"}
      BY DEF Items
    <3>4. Lines(h) = Count(<<y>>, K)
      BY <3>1 DEF Lines
    <3> HIDE DEF K
    <3> QED BY <2>2, <3>1, <3>2, <3>3, <3>4
  <2> QED BY <2>1, <2>2
<1>12. Lines(chunk) + Lines(rest) <= Lines(o)
  BY <1>8, <1>9, <1>10, <1>11
<1>13. ASSUME ~Lost(o[n], cut) PROVE Lines(chunk) + Lines(rest) = Lines(o)
  <2>1. o[n] \in {"line", "stop"} => h # <<>>
    BY <1>3, <1>5, <1>13
  <2> QED BY <1>8, <1>9, <1>10, <1>11, <2>1
<1>14. ASSUME ~Lost(o[n], cut), \A i \in DOMAIN chunk : chunk[i] # "echo",
              NEW i \in DOMAIN o, NEW j \in DOMAIN o, i < j, o[i] = "echo", o[j] \in {"line", "stop"}
       PROVE  \E k, l \in DOMAIN rest : k < l /\ rest[k] = "echo" /\ rest[l] \in {"line", "stop"}
  <2>1. i \in 1 .. Len(o) /\ j \in 1 .. Len(o) /\ Len(g) \in Nat /\ Len(h) \in Nat
    BY <1>1, <1>3, <1>14, LenProperties
  <2>2. ~(i < n)
    <3> SUFFICES ASSUME i < n PROVE FALSE
      OBVIOUS
    <3>1. i \in 1 .. n - 1 /\ i \in 1 .. Len(a) + Len(h) /\ i <= Len(a)
      BY <1>0, <1>1, <2>1, Before
    <3>2. chunk[i] = o[i] /\ i \in DOMAIN chunk
      BY <1>2, <1>6, <1>7, <3>1
    <3> QED BY <1>14, <3>2
  <2>3. ASSUME NEW k \in n + 1 .. Len(o)
        PROVE  Len(g) + (k - n) \in DOMAIN rest /\ rest[Len(g) + (k - n)] = o[k]
    <3>1. /\ k - n \in 1 .. Len(o) - n /\ n + (k - n) = k
          /\ Len(g) + (k - n) \in 1 .. Len(g) + (Len(o) - n) /\ ~(Len(g) + (k - n) <= Len(g))
          /\ (Len(g) + (k - n)) - Len(g) = k - n
      <4>1. Len(o) \in Nat /\ n \in 1 .. Len(o) /\ Len(g) \in Nat
        BY <1>0, <1>1
      <4> QED BY <4>1, After
    <3>2. Len(g) + (k - n) \in 1 .. Len(g) + Len(b)
      BY <1>0, <3>1
    <3> QED BY <3>2, <1>2, <1>6, <1>7, <3>1
  <2>4. j \in n + 1 .. Len(o)
    BY <1>1, <1>14, <2>1, <2>2
  <2>5. CASE i > n
    <3>1. i \in n + 1 .. Len(o) /\ Len(g) + (i - n) < Len(g) + (j - n)
      BY <1>1, <1>14, <2>1, <2>5
    <3> QED BY <1>14, <2>3, <2>4, <3>1
  <2>6. CASE i = n
    <3>1. h = <<>>
      <4> SUFFICES ASSUME h # <<>> PROVE FALSE
        OBVIOUS
      <4>1. h = <<"echo">>
        BY <1>3, <1>14, <2>6
      <4>2. Len(h) = 1 /\ h[1] = "echo"
        BY <4>1
      <4>3. n \in 1 .. Len(a) + Len(h) /\ ~(n <= Len(a)) /\ n - Len(a) = 1
        BY <1>1, <1>2, <4>2
      <4>4. chunk[n] = "echo" /\ n \in DOMAIN chunk
        BY <1>6, <1>7, <4>2, <4>3
      <4> QED BY <1>14, <4>4
    <3>2. g = <<"echo">>
      BY <1>3, <1>5, <1>14, <2>6, <3>1
    <3>3. Len(g) = 1 /\ g[1] = "echo"
      BY <3>2
    <3>4. 1 \in 1 .. Len(g) + Len(b) /\ 1 <= Len(g) /\ 1 < Len(g) + (j - n)
      BY <1>1, <1>2, <2>4, <3>3
    <3>5. 1 \in DOMAIN rest /\ rest[1] = "echo"
      BY <1>6, <1>7, <3>3, <3>4
    <3> DEFINE l == Len(g) + (j - n)
    <3>6. l \in DOMAIN rest /\ rest[l] \in {"line", "stop"} /\ 1 < l
      BY <1>14, <2>3, <2>4, <3>4
    <3> HIDE DEF l
    <3> QED BY <3>5, <3>6
  <2>7. i < n \/ i = n \/ i > n
    BY <1>1, <2>1, Before
  <2> QED BY <2>2, <2>5, <2>6, <2>7
<1> QED BY <1>6, <1>8, <1>12, <1>13, <1>14 DEF CutDoes, EchoThenLine

-----------------------------------------------------------------------------
(***************************************************************************)
(* Reading a piece of the terminal's output.                               *)
(***************************************************************************)

Turns == [s : Sessions, spike : [Spikes -> Processes], sent : Seq(News)]

\* What handleSpikeOutput does with one item.
Line(u, item) ==
    IF containsSpikePrompt(item) THEN PromptSeen(u) ELSE parseExecutionLog(u, item)

\* The fold of handleSpikeOutput: the items at the positions s have been read.
ReadAt(t, chunk, f, s) == IF s = {} THEN t ELSE Line(f[s \ {Max(s)}], chunk[Max(s)])

Reading(t, chunk, f) == f = [s \in SUBSET DOMAIN chunk |-> ReadAt(t, chunk, f, s)]

LEMMA HandlesByReading ==
    ASSUME NEW t, NEW chunk
    PROVE  handleSpikeOutput(t, chunk) = (CHOOSE f : Reading(t, chunk, f))[DOMAIN chunk]
BY Zenon DEF handleSpikeOutput, FoldLeft, MapThenFoldSet, Reading, ReadAt, Line

\* What one item does to a turn.
LineDoes(t, u, item) ==
    /\ u \in Turns
    /\ u.spike = t.spike
    /\ u.s = [t.s EXCEPT !.isContinuousMode = u.s.isContinuousMode,
                         !.waitingForOutput = u.s.waitingForOutput,
                         !.waitingForFrontend = u.s.waitingForFrontend]
    /\ Flags(u.s)
    /\ u.s.waitingForOutput => t.s.waitingForOutput /\ item \notin {"prompt", "echo"}
    /\ u.s.waitingForFrontend => t.s.waitingForOutput \/ t.s.waitingForFrontend
    /\ u.sent = IF t.s.isInitialized /\ item \in {"line", "stop"}
                THEN Append(t.sent, "execution-update") ELSE t.sent

LEMMA LineEffect ==
    ASSUME NEW t \in Turns, Flags(t.s), NEW item \in Items
    PROVE  LineDoes(t, Line(t, item), item)
<1>1. CASE item \in {"prompt", "echo"}
  <2>1. Line(t, item) = PromptSeen(t)
    BY <1>1 DEF Line, containsSpikePrompt
  <2>2. LineDoes(t, PromptSeen(t), item)
    <3> DEFINE v == [t EXCEPT !.s.waitingForFrontend = TRUE, !.s.waitingForOutput = FALSE]
    <3>1. CASE t.s.isContinuousMode /\ t.s.waitingForOutput /\ t.s.isRunning
      <4>1. PromptSeen(t) = v
        BY <3>1 DEF PromptSeen
      <4>2. /\ v \in Turns /\ v.spike = t.spike /\ v.sent = t.sent
            /\ v.s = [t.s EXCEPT !.waitingForFrontend = TRUE, !.waitingForOutput = FALSE]
        BY DEF Turns, Sessions
      <4> HIDE DEF v
      <4> QED BY <1>1, <3>1, <4>1, <4>2 DEF LineDoes, Turns, Sessions, Flags
    <3>2. CASE ~(t.s.isContinuousMode /\ t.s.waitingForOutput /\ t.s.isRunning)
      <4>1. PromptSeen(t) = t
        BY <3>2 DEF PromptSeen
      <4>2. ~t.s.waitingForOutput
        BY <3>2 DEF Flags, Turns, Sessions
      <4> QED BY <1>1, <4>1, <4>2 DEF LineDoes, Turns, Sessions
    <3> QED BY <3>1, <3>2
  <2> QED BY <2>1, <2>2
<1>2. CASE item \in {"line", "stop"} /\ ~t.s.isInitialized
  <2>1. Line(t, item) = t
    BY <1>2 DEF Line, containsSpikePrompt, parseExecutionLog
  <2>2. LineDoes(t, t, item)
    BY <1>2 DEF LineDoes, Turns, Sessions, Flags
  <2> QED BY <2>1, <2>2
<1>3. CASE item \in {"line", "stop"} /\ t.s.isInitialized
  <2> DEFINE u == [t EXCEPT !.sent = Append(@, "execution-update")]
  <2>1. Line(t, item) = IF item = "stop" THEN [u EXCEPT !.s = StopContinuous(@)] ELSE u
    BY <1>3 DEF Line, containsSpikePrompt, parseExecutionLog, IsInstruction, checkForExitPatterns, emit
  <2>2. Append(t.sent, "execution-update") \in Seq(News)
    BY DEF Turns, News
  <2>3. LineDoes(t, u, item)
    BY <1>3, <2>2 DEF LineDoes, Turns, Sessions, Flags
  <2>4. LineDoes(t, [u EXCEPT !.s = StopContinuous(@)], item)
    BY <1>3, <2>2 DEF LineDoes, Turns, Sessions, Flags, StopContinuous
  <2> QED BY <2>1, <2>3, <2>4
<1> QED BY <1>1, <1>2, <1>3 DEF Items

-----------------------------------------------------------------------------
(***************************************************************************)
(* Recursion over the subsets of a finite set, as the folds do it.         *)
(***************************************************************************)

\* A nonempty set of numbers has a least element.
LEMMA LeastNumber ==
    ASSUME NEW S, S \subseteq Nat, S # {}
    PROVE  \E m \in S : \A n \in S : m <= n
<1> DEFINE R == OpToRel(<, Nat)
<1>1. \A x, y \in Nat : y < x => <<y, x>> \in R
  BY Zenon DEF OpToRel
<1>2. IsWellFoundedOn(R, Nat)
  BY NatLessThanWellFounded
<1> HIDE DEF R
<1>3. PICK x \in S : \A y \in S : ~ (<<y, x>> \in R)
  BY <1>2, WFMin
<1>4. ASSUME NEW y \in S PROVE x <= y
  <2>1. x \in Nat /\ y \in Nat
    OBVIOUS
  <2>2. ~(y < x)
    BY <1>1, <1>3, <2>1, Zenon
  <2> QED BY <2>1, <2>2
<1> QED BY <1>4

\* Among sets of positions or processes there is one none of whose members can be left out.
LEMMA LeastSet ==
    ASSUME NEW D, IsFiniteSet(D), NEW T, T \subseteq SUBSET D, T # {}
    PROVE  \E s \in T : \A x \in s : s \ {x} \notin T
<1> DEFINE C == {Cardinality(s) : s \in T}
<1>1. \A s \in SUBSET D : IsFiniteSet(s) /\ Cardinality(s) \in Nat
  BY FS_Subset, FS_CardinalityType
<1>2. C \subseteq Nat /\ C # {}
  BY <1>1
<1>3. PICK m \in C : \A n \in C : m <= n
  <2> HIDE DEF C
  <2> QED BY <1>2, LeastNumber
<1>4. PICK s \in T : Cardinality(s) = m
  BY <1>3
<1>5. ASSUME NEW x \in s, s \ {x} \in T PROVE FALSE
  <2>1. Cardinality(s \ {x}) = Cardinality(s) - 1
    BY <1>1, <1>5, FS_RemoveElement
  <2>2. Cardinality(s) <= Cardinality(s \ {x})
    BY <1>3, <1>4, <1>5
  <2>3. Cardinality(s) \in Nat
    BY <1>1
  <2> QED BY <2>1, <2>2, <2>3
<1> QED BY <1>5

\* pick[s] is the member of s taken last, g the step.
Picks(D, pick) == \A s \in SUBSET D : s # {} => pick[s] \in s
Solves(f, D, base, pick, g) ==
    \A s \in SUBSET D : f[s] = IF s = {} THEN base ELSE g[<<pick[s], f[s \ {pick[s]}]>>]

\* The recursion has a solution: one that is right for the sets of up to n members is
\* made right for those of n + 1.
LEMMA SetRecursion ==
    ASSUME NEW D, IsFiniteSet(D), NEW V, NEW base \in V,
           NEW pick, Picks(D, pick), NEW g \in [D \X V -> V]
    PROVE  \E f \in [SUBSET D -> V] : Solves(f, D, base, pick, g)
<1> USE DEF Picks
<1> DEFINE Step(f, s) == IF s = {} THEN base ELSE g[<<pick[s], f[s \ {pick[s]}]>>]
           Right(f, n) == \A s \in SUBSET D : Cardinality(s) <= n => f[s] = Step(f, s)
           Fs == [SUBSET D -> V]
           T == {n \in Nat : ~ \E f \in Fs : Right(f, n)}
<1>1. \A s \in SUBSET D : IsFiniteSet(s) /\ Cardinality(s) \in Nat
  BY FS_Subset, FS_CardinalityType
<1>2. \A s \in SUBSET D : Cardinality(s) <= 0 => s = {}
  BY <1>1, FS_EmptySet
<1>3. ASSUME T # {} PROVE FALSE
  <2>1. PICK m \in T : \A n \in T : m <= n
    <3>1. T \subseteq Nat
      OBVIOUS
    <3> HIDE DEF T
    <3> QED BY <1>3, <3>1, LeastNumber
  <2>2. m \in Nat /\ m \in T /\ \A n \in Nat : n < m => n \notin T
    <3>1. T \subseteq Nat
      OBVIOUS
    <3> HIDE DEF T
    <3> QED BY <2>1, <3>1
  <2>3. m # 0
    <3> DEFINE z == [s \in SUBSET D |-> base]
    <3>1. z \in Fs
      OBVIOUS
    <3>2. Right(z, 0)
      BY <1>2
    <3>3. 0 \notin T
      <4> HIDE DEF z, Right
      <4> QED BY <3>1, <3>2
    <3> QED BY <2>2, <3>3
  <2>4. m - 1 \in Nat /\ m - 1 < m
    BY <2>2, <2>3
  <2>5. PICK f \in Fs : Right(f, m - 1)
    <3>1. m - 1 \notin T
      BY <2>2, <2>4
    <3> HIDE DEF Right
    <3> QED BY <2>4, <3>1
  <2> DEFINE h == [s \in SUBSET D |-> IF Cardinality(s) = m THEN Step(f, s) ELSE f[s]]
  <2>6. \A s \in SUBSET D : Step(f, s) \in V
    <3> SUFFICES ASSUME NEW s \in SUBSET D, s # {} PROVE g[<<pick[s], f[s \ {pick[s]}]>>] \in V
      OBVIOUS
    <3>1. pick[s] \in D /\ f[s \ {pick[s]}] \in V
      OBVIOUS
    <3> QED BY <3>1
  <2>7. h \in Fs
    BY <2>6
  <2>8. Right(h, m)
    <3> SUFFICES ASSUME NEW s \in SUBSET D, Cardinality(s) <= m
                 PROVE  h[s] = Step(h, s)
      OBVIOUS
    <3>1. Step(h, s) = Step(f, s)
      <4>1. CASE s = {}
        BY <4>1
      <4>2. CASE s # {}
        <5>1. pick[s] \in s
          BY <4>2
        <5>2. s \ {pick[s]} \in SUBSET D /\ Cardinality(s \ {pick[s]}) = Cardinality(s) - 1
          <6> DEFINE x == pick[s]
          <6>1. IsFiniteSet(s) /\ x \in s
            BY <1>1, <5>1
          <6> HIDE DEF x, h, Step, Right, T
          <6>2. Cardinality(s \ {x}) = Cardinality(s) - 1
            BY <6>1, FS_RemoveElement
          <6> QED BY <6>2 DEF x
        <5>3. Cardinality(s \ {pick[s]}) # m
          BY <1>1, <2>2, <5>2
        <5>4. h[s \ {pick[s]}] = f[s \ {pick[s]}]
          BY <5>2, <5>3
        <5> QED BY <4>2, <5>4
      <4> QED BY <4>1, <4>2
    <3>2. CASE Cardinality(s) = m
      <4>1. h[s] = Step(f, s)
        <5> HIDE DEF Step
        <5> QED BY <3>2
      <4> QED BY <3>1, <4>1
    <3>3. CASE Cardinality(s) # m
      <4>1. Cardinality(s) <= m - 1
        <5> HIDE DEF Step, h, T
        <5>1. Cardinality(s) \in Nat /\ m \in Nat /\ Cardinality(s) <= m
          BY <1>1, <2>2
        <5> QED BY <3>3, <5>1
      <4>2. f[s] = Step(f, s)
        BY <2>5, <4>1
      <4>3. h[s] = f[s]
        <5> HIDE DEF Step
        <5> QED BY <3>3
      <4> QED BY <3>1, <4>2, <4>3
    <3> QED BY <3>2, <3>3
  <2>9. m \notin T
    <3> HIDE DEF h, Right
    <3> QED BY <2>7, <2>8
  <2> QED BY <2>2, <2>9
<1>4. PICK f \in Fs : Right(f, Cardinality(D))
  <2>1. Cardinality(D) \in Nat
    BY <1>1
  <2>2. Cardinality(D) \notin T
    BY <1>3
  <2> HIDE DEF Right
  <2> QED BY <2>1, <2>2
<1>5. \A s \in SUBSET D : Cardinality(s) <= Cardinality(D)
  BY FS_Subset
<1>6. \A s \in SUBSET D : f[s] = Step(f, s)
  <2> HIDE DEF Step
  <2> QED BY <1>4, <1>5
<1> QED BY <1>6 DEF Solves

\* The largest of some positions is one of them.
LEMMA MaxIn ==
    ASSUME NEW n \in Nat, NEW s \in SUBSET (1 .. n), s # {}
    PROVE  Max(s) \in s /\ \A y \in s : y <= Max(s)
<1> DEFINE U == {m \in Nat : \A y \in s : y <= m}
<1>1. n \in U /\ U \subseteq Nat
  OBVIOUS
<1>2. PICK m \in U : \A k \in U : m <= k
  <2> HIDE DEF U
  <2> QED BY <1>1, LeastNumber
<1>3. m \in s
  <2> SUFFICES ASSUME m \notin s PROVE FALSE
    OBVIOUS
  <2>1. m \in Nat /\ \A y \in s : y <= m
    BY <1>2
  <2>2. m # 0
    <3>1. PICK y \in s : TRUE
      OBVIOUS
    <3> QED BY <2>1, <3>1
  <2>3. m - 1 \in Nat /\ \A y \in s : y <= m - 1
    BY <2>1, <2>2
  <2>4. m <= m - 1
    BY <1>2, <2>3
  <2> QED BY <2>1, <2>4
<1>4. \A y \in s : m >= y
  BY <1>2
<1>5. Max(s) \in s /\ \A y \in s : Max(s) >= y
  BY <1>3, <1>4, Zenon DEF Max
<1> QED BY <1>5

\* handleSpikeOutput reads the items one after the other.
LEMMA ReadInOrder ==
    ASSUME NEW t \in Turns, Flags(t.s), NEW chunk \in Seq(Items)
    PROVE  \E r : /\ r[0] = t
                  /\ \A k \in 1 .. Len(chunk) : r[k] = Line(r[k - 1], chunk[k])
                  /\ handleSpikeOutput(t, chunk) = r[Len(chunk)]
<1> DEFINE n == Len(chunk)
           D == DOMAIN chunk
           V == {u \in Turns : Flags(u.s)}
           pick == [s \in SUBSET D |-> Max(s)]
           g == [x \in D \X V |-> Line(x[2], chunk[x[1]])]
<1>1. n \in Nat /\ D = 1 .. n /\ \A i \in D : chunk[i] \in Items
  BY LenProperties
<1>2. IsFiniteSet(D)
  BY <1>1, FS_Interval
<1>3. \A s \in SUBSET D : s # {} => Max(s) \in s
  <2> HIDE DEF D, n
  <2> QED BY <1>1, MaxIn
<1>4. \A i \in D : \A u \in V : Line(u, chunk[i]) \in V
  <2> SUFFICES ASSUME NEW i \in D, NEW u \in V PROVE Line(u, chunk[i]) \in V
    OBVIOUS
  <2>1. LineDoes(u, Line(u, chunk[i]), chunk[i])
    BY <1>1, LineEffect
  <2> QED BY <2>1 DEF LineDoes
<1>5. g \in [D \X V -> V]
  BY <1>4
<1>6. t \in V
  OBVIOUS
<1>7. Picks(D, pick)
  BY <1>3 DEF Picks
<1>8. PICK f \in [SUBSET D -> V] : Solves(f, D, t, pick, g)
  <2> HIDE DEF D, V, g, pick
  <2> QED BY <1>2, <1>5, <1>6, <1>7, SetRecursion, Zenon
<1>9. ASSUME NEW s \in SUBSET D PROVE f[s] = ReadAt(t, chunk, f, s)
  <2>1. CASE s = {}
    BY <1>8, <2>1 DEF ReadAt, Solves
  <2>2. CASE s # {}
    <3>1. Max(s) \in D /\ f[s \ {Max(s)}] \in V /\ pick[s] = Max(s)
      BY <1>3, <2>2
    <3>2. f[s] = g[<<Max(s), f[s \ {Max(s)}]>>]
      BY <1>8, <2>2, <3>1 DEF Solves
    <3>3. g[<<Max(s), f[s \ {Max(s)}]>>] = Line(f[s \ {Max(s)}], chunk[Max(s)])
      <4> DEFINE i == Max(s)
                 u == f[s \ {Max(s)}]
      <4>1. i \in D /\ u \in V
        BY <3>1
      <4> HIDE DEF i, u, D, V
      <4>2. g[<<i, u>>] = Line(u, chunk[i])
        BY <4>1
      <4> QED BY <4>2 DEF i, u
    <3> QED BY <2>2, <3>2, <3>3 DEF ReadAt
  <2> QED BY <2>1, <2>2
<1>10. Reading(t, chunk, f)
  <2>1. f = [s \in SUBSET D |-> f[s]]
    <3> HIDE DEF D, V
    <3> QED BY <1>8
  <2>2. [s \in SUBSET D |-> f[s]] = [s \in SUBSET D |-> ReadAt(t, chunk, f, s)]
    <3> HIDE DEF D
    <3> QED BY <1>9, Zenon
  <2> QED BY <2>1, <2>2, Zenon DEF Reading
<1> DEFINE F == CHOOSE h : Reading(t, chunk, h)
<1>11. Reading(t, chunk, F)
  BY <1>10, Zenon
<1>12. handleSpikeOutput(t, chunk) = F[D]
  BY HandlesByReading, Zenon
<1> HIDE DEF F
<1>13. \A s \in SUBSET D : F[s] = ReadAt(t, chunk, F, s)
  <2>1. F = [s \in SUBSET D |-> ReadAt(t, chunk, F, s)]
    BY <1>11, Zenon DEF Reading
  <2> DEFINE R(s) == ReadAt(t, chunk, F, s)
  <2>2. F = [s \in SUBSET D |-> R(s)]
    BY <2>1, Zenon
  <2> HIDE DEF D, R
  <2>3. \A s \in SUBSET D : F[s] = R(s)
    BY <2>2
  <2> QED BY <2>3 DEF R
<1> DEFINE r == [k \in 0 .. n |-> F[1 .. k]]
<1>14. r[0] = t
  <2>1. 1 .. 0 = {} /\ {} \in SUBSET D /\ 0 \in 0 .. n
    BY <1>1
  <2>2. F[{}] = t
    BY <1>13, <2>1 DEF ReadAt
  <2> QED BY <2>1, <2>2
<1>15. ASSUME NEW k \in 1 .. n PROVE r[k] = Line(r[k - 1], chunk[k])
  <2>1. /\ k \in 0 .. n /\ k - 1 \in 0 .. n /\ 1 .. k \in SUBSET D /\ 1 .. k # {}
        /\ (1 .. k) \ {k} = 1 .. k - 1
    <3>1. k \in 0 .. n /\ k - 1 \in 0 .. n /\ k \in Nat \ {0} /\ k \in 1 .. k
      BY <1>1
    <3>2. ASSUME NEW i \in 1 .. k PROVE i \in D
      BY <1>1
    <3>3. ASSUME NEW i PROVE i \in (1 .. k) \ {k} <=> i \in 1 .. k - 1
      BY <3>1
    <3> QED BY <3>1, <3>2, <3>3
  <2>2. Max(1 .. k) = k
    <3> DEFINE s == 1 .. k
    <3>1. s \in SUBSET (1 .. n) /\ s # {} /\ k \in s /\ \A y \in s : y \in Nat /\ y <= k
      BY <1>1, <2>1
    <3> HIDE DEF s
    <3>2. Max(s) \in s /\ \A y \in s : y <= Max(s)
      BY <1>1, <3>1, MaxIn
    <3>3. k <= Max(s) /\ Max(s) <= k /\ Max(s) \in Nat /\ k \in Nat
      BY <3>1, <3>2
    <3>4. Max(s) = k
      BY <3>3
    <3> QED BY <3>4 DEF s
  <2>3. F[1 .. k] = Line(F[(1 .. k) \ {k}], chunk[k])
    BY <1>13, <2>1, <2>2 DEF ReadAt
  <2> QED BY <2>1, <2>3
<1>16. r[n] = F[D]
  BY <1>1
<1> QED BY <1>12, <1>14, <1>15, <1>16

\* The instructions among the first k items of a piece.
Upto(chunk, k) == Cardinality({i \in 1 .. k : chunk[i] \in {"line", "stop"}})

\* What the first k items do to a turn in which nothing was sent.
ChunkDoes(t, u, chunk, k) ==
    /\ u \in Turns
    /\ u.spike = t.spike
    /\ u.s = [t.s EXCEPT !.isContinuousMode = u.s.isContinuousMode,
                         !.waitingForOutput = u.s.waitingForOutput,
                         !.waitingForFrontend = u.s.waitingForFrontend]
    /\ Flags(u.s)
    /\ u.s.waitingForOutput =>
            t.s.waitingForOutput /\ \A i \in 1 .. k : chunk[i] \notin {"prompt", "echo"}
    /\ u.s.waitingForFrontend => t.s.waitingForOutput \/ t.s.waitingForFrontend
    /\ u.sent \in Seq({"execution-update"})
    /\ Lines(u.sent) <= Upto(chunk, k)
    /\ t.s.isInitialized /\ (\E i \in 1 .. k : chunk[i] \in {"line", "stop"}) => Lines(u.sent) > 0

LEMMA UptoStep ==
    ASSUME NEW chunk, NEW k \in Nat \ {0}
    PROVE  /\ Upto(chunk, k - 1) \in Nat
           /\ Upto(chunk, k) = Upto(chunk, k - 1) + (IF chunk[k] \in {"line", "stop"} THEN 1 ELSE 0)
<1> DEFINE P == {i \in 1 .. k - 1 : chunk[i] \in {"line", "stop"}}
           Q == {i \in 1 .. k : chunk[i] \in {"line", "stop"}}
<1>1. Q = (IF chunk[k] \in {"line", "stop"} THEN P \cup {k} ELSE P) /\ k \notin P
  <2>1. ASSUME NEW i \in Q, i # k PROVE i \in P
    BY <2>1
  <2>2. P \subseteq Q /\ k \notin P
    OBVIOUS
  <2>3. k \in Q <=> chunk[k] \in {"line", "stop"}
    OBVIOUS
  <2> HIDE DEF P, Q
  <2> QED BY <2>1, <2>2, <2>3
<1>2. P \in SUBSET (1 .. k - 1) /\ IsFiniteSet(1 .. k - 1)
  BY FS_Interval
<1>3. Upto(chunk, k - 1) = Cardinality(P) /\ Upto(chunk, k) = Cardinality(Q)
  BY DEF Upto
<1> HIDE DEF P, Q
<1>4. IsFiniteSet(P) /\ Cardinality(P) \in Nat
  BY <1>2, FS_Subset, FS_CardinalityType
<1>5. Cardinality(P \cup {k}) = Cardinality(P) + 1
  BY <1>1, <1>4, FS_AddElement
<1> QED BY <1>1, <1>3, <1>4, <1>5

LEMMA ChunkEffect ==
    ASSUME NEW t \in Turns, Flags(t.s), t.sent = <<>>, NEW chunk \in Seq(Items)
    PROVE  ChunkDoes(t, handleSpikeOutput(t, chunk), chunk, Len(chunk))
<1>1. PICK r : /\ r[0] = t
               /\ \A k \in 1 .. Len(chunk) : r[k] = Line(r[k - 1], chunk[k])
               /\ handleSpikeOutput(t, chunk) = r[Len(chunk)]
  BY ReadInOrder
<1>2. Len(chunk) \in Nat /\ DOMAIN chunk = 1 .. Len(chunk)
      /\ \A i \in 1 .. Len(chunk) : chunk[i] \in Items
  BY LenProperties
<1> DEFINE T == {k \in 0 .. Len(chunk) : ~ChunkDoes(t, r[k], chunk, k)}
<1>3. ASSUME T # {} PROVE FALSE
  <2>1. T \subseteq Nat
    BY <1>2
  <2>2. PICK m \in T : \A k \in T : m <= k
    <3> HIDE DEF T
    <3> QED BY <1>3, <2>1, LeastNumber
  <2>3. m \in 0 .. Len(chunk) /\ ~ChunkDoes(t, r[m], chunk, m)
    BY <2>2
  <2>4. m # 0
    <3>1. {i \in 1 .. 0 : chunk[i] \in {"line", "stop"}} = {} /\ 1 .. 0 = {}
      OBVIOUS
    <3>2. Upto(chunk, 0) = 0
      BY <3>1, FS_EmptySet DEF Upto
    <3>3. Lines(<<>>) = 0
      BY CountFew DEF Lines
    <3>4. <<>> \in Seq({"execution-update"})
      OBVIOUS
    <3>5. t.s = [t.s EXCEPT !.isContinuousMode = t.s.isContinuousMode,
                            !.waitingForOutput = t.s.waitingForOutput,
                            !.waitingForFrontend = t.s.waitingForFrontend]
      BY DEF Turns, Sessions
    <3>6. ChunkDoes(t, t, chunk, 0)
      BY <3>1, <3>2, <3>3, <3>4, <3>5 DEF ChunkDoes
    <3> QED BY <1>1, <2>3, <3>6
  <2>5. m \in 1 .. Len(chunk) /\ m - 1 \in 0 .. Len(chunk) /\ m - 1 \notin T /\ m \in Nat \ {0}
    BY <1>2, <2>2, <2>3, <2>4
  <2> DEFINE u == r[m - 1]
             v == r[m]
             x == chunk[m]
  <2>6. ChunkDoes(t, u, chunk, m - 1)
    BY <2>5
  <2>7. v = Line(u, x) /\ x \in Items
    BY <1>1, <1>2, <2>5
  <2> HIDE DEF u, v, T
  <2>8. LineDoes(u, v, x)
    BY <2>6, <2>7, LineEffect DEF ChunkDoes
  <2>9. /\ u \in Turns /\ v \in Turns /\ v.spike = t.spike /\ Flags(v.s)
        /\ v.s = [t.s EXCEPT !.isContinuousMode = v.s.isContinuousMode,
                             !.waitingForOutput = v.s.waitingForOutput,
                             !.waitingForFrontend = v.s.waitingForFrontend]
        /\ u.s.isInitialized = t.s.isInitialized
    <3>1. u \in Turns /\ v \in Turns /\ v.spike = t.spike /\ Flags(v.s)
      BY <2>6, <2>8 DEF ChunkDoes, LineDoes
    <3>2. u.s = [t.s EXCEPT !.isContinuousMode = u.s.isContinuousMode,
                            !.waitingForOutput = u.s.waitingForOutput,
                            !.waitingForFrontend = u.s.waitingForFrontend]
      BY <2>6 DEF ChunkDoes
    <3>3. v.s = [u.s EXCEPT !.isContinuousMode = v.s.isContinuousMode,
                            !.waitingForOutput = v.s.waitingForOutput,
                            !.waitingForFrontend = v.s.waitingForFrontend]
      BY <2>8 DEF LineDoes
    <3>4. t.s \in Sessions /\ u.s \in Sessions /\ v.s \in Sessions
      BY <3>1 DEF Turns
    <3> QED BY <3>1, <3>2, <3>3, <3>4 DEF Sessions
  <2>10. \A i \in 1 .. m : i \in 1 .. m - 1 \/ i = m
    BY <2>5
  <2>11. v.s.waitingForOutput =>
            t.s.waitingForOutput /\ \A i \in 1 .. m : chunk[i] \notin {"prompt", "echo"}
    BY <2>6, <2>8, <2>10 DEF ChunkDoes, LineDoes
  <2>12. v.s.waitingForFrontend => t.s.waitingForOutput \/ t.s.waitingForFrontend
    BY <2>6, <2>8 DEF ChunkDoes, LineDoes
  <2>13. /\ v.sent \in Seq({"execution-update"})
         /\ Lines(v.sent) <= Upto(chunk, m)
         /\ t.s.isInitialized /\ (\E i \in 1 .. m : chunk[i] \in {"line", "stop"})
                => Lines(v.sent) > 0
    <3>1. /\ u.sent \in Seq({"execution-update"}) /\ Lines(u.sent) <= Upto(chunk, m - 1)
          /\ t.s.isInitialized /\ (\E i \in 1 .. m - 1 : chunk[i] \in {"line", "stop"})
                => Lines(u.sent) > 0
      BY <2>6 DEF ChunkDoes
    <3>2. Lines(u.sent) \in Nat
      BY <3>1, CountType DEF Lines
    <3>3. /\ Append(u.sent, "execution-update") \in Seq({"execution-update"})
          /\ Lines(Append(u.sent, "execution-update")) = Lines(u.sent) + 1
      <4>1. /\ u.sent \in Seq({"execution-update"}) /\ "execution-update" \in {"execution-update"}
        BY <3>1
      <4>2. Append(u.sent, "execution-update") \in Seq({"execution-update"})
        BY <4>1
      <4> QED BY <4>1, <4>2, CountAppend DEF Lines
    <3>4. v.sent = IF t.s.isInitialized /\ x \in {"line", "stop"}
                   THEN Append(u.sent, "execution-update") ELSE u.sent
      BY <2>8, <2>9 DEF LineDoes
    <3>5. /\ Upto(chunk, m - 1) \in Nat
          /\ Upto(chunk, m) = Upto(chunk, m - 1) + (IF x \in {"line", "stop"} THEN 1 ELSE 0)
      BY <2>5, UptoStep
    <3>6. CASE t.s.isInitialized /\ x \in {"line", "stop"}
      BY <3>1, <3>2, <3>3, <3>4, <3>5, <3>6
    <3>7. CASE ~(t.s.isInitialized /\ x \in {"line", "stop"})
      <4>1. v.sent = u.sent
        BY <3>4, <3>7
      <4>2. Lines(v.sent) <= Upto(chunk, m)
        BY <3>1, <3>2, <3>5, <4>1
      <4>3. t.s.isInitialized /\ (\E i \in 1 .. m : chunk[i] \in {"line", "stop"})
                => \E i \in 1 .. m - 1 : chunk[i] \in {"line", "stop"}
        BY <2>10, <3>7
      <4> QED BY <3>1, <4>1, <4>2, <4>3
    <3> QED BY <3>6, <3>7
  <2>14. ChunkDoes(t, v, chunk, m)
    BY <2>9, <2>11, <2>12, <2>13 DEF ChunkDoes
  <2> QED BY <2>3, <2>14 DEF v
<1>4. ChunkDoes(t, r[Len(chunk)], chunk, Len(chunk))
  BY <1>2, <1>3
<1> QED BY <1>1, <1>4

-----------------------------------------------------------------------------
(***************************************************************************)
(* The instructions of all processes.                                      *)
(***************************************************************************)

Weight(x) == x.input + Lines(x.out)

LEMMA WeightType ==
    ASSUME NEW x \in Processes
    PROVE  x.input \in Nat /\ Lines(x.out) \in Nat /\ Weight(x) \in Nat
<1>1. x.input \in Nat /\ x.out \in Seq(Items)
  BY DEF Processes
<1>2. Lines(x.out) \in Nat
  BY <1>1, CountType DEF Lines
<1> QED BY <1>1, <1>2 DEF Weight

\* The fold of Everything's sum.
Pick(s) == CHOOSE x \in s : TRUE

Added(sp, f, s) == IF s = {} THEN 0 ELSE Weight(sp[Pick(s)]) + f[s \ {Pick(s)}]

Summed(sp, f) == f = [s \in SUBSET Spikes |-> Added(sp, f, s)]

Total(sp) == (CHOOSE f : Summed(sp, f))[Spikes]

\* The sum of Everything is that fold, before and after a step.
LEMMA SumIsTotal ==
    /\ MapThenSumSet(Instructions, Spikes) = Total(spike)
    /\ MapThenSumSet(Instructions, Spikes)' = Total(spike')
BY Zenon DEF MapThenSumSet, MapThenFoldSet, Instructions, Total, Summed, Added, Pick, Weight

LEMMA SpikesFinite == IsFiniteSet(Spikes)
BY WebAssumption, FS_Interval DEF Spikes

LEMMA SummedExists ==
    ASSUME NEW sp \in [Spikes -> Processes]
    PROVE  \E f \in [SUBSET Spikes -> Nat] : Summed(sp, f)
<1> DEFINE pick == [s \in SUBSET Spikes |-> Pick(s)]
           g == [x \in Spikes \X Nat |-> Weight(sp[x[1]]) + x[2]]
<1>1. \A s \in SUBSET Spikes : s # {} => Pick(s) \in s
  BY DEF Pick
<1>2. \A p \in Spikes : Weight(sp[p]) \in Nat
  BY WeightType
<1>3. g \in [Spikes \X Nat -> Nat]
  BY <1>2
<1>4. Picks(Spikes, pick)
  BY <1>1 DEF Picks
<1>5. PICK f \in [SUBSET Spikes -> Nat] : Solves(f, Spikes, 0, pick, g)
  <2>1. 0 \in Nat
    OBVIOUS
  <2> HIDE DEF g, pick
  <2> QED BY <1>3, <1>4, <2>1, SpikesFinite, SetRecursion, Zenon
<1>6. ASSUME NEW s \in SUBSET Spikes PROVE f[s] = Added(sp, f, s)
  <2>1. CASE s = {}
    BY <1>5, <2>1 DEF Added, Solves
  <2>2. CASE s # {}
    <3> DEFINE i == Pick(s)
               v == f[s \ {Pick(s)}]
    <3>1. i \in Spikes /\ v \in Nat /\ pick[s] = i
      BY <1>1, <2>2
    <3>2. f[s] = g[<<pick[s], f[s \ {pick[s]}]>>]
      BY <1>5, <2>2 DEF Solves
    <3>3. f[s] = g[<<i, v>>]
      BY <3>1, <3>2
    <3>4. g[<<i, v>>] = Weight(sp[i]) + v
      <4> HIDE DEF i, v
      <4> QED BY <3>1
    <3> QED BY <2>2, <3>3, <3>4 DEF Added
  <2> QED BY <2>1, <2>2
<1>7. f = [s \in SUBSET Spikes |-> f[s]]
  BY <1>5
<1>8. [s \in SUBSET Spikes |-> f[s]] = [s \in SUBSET Spikes |-> Added(sp, f, s)]
  BY <1>6, Zenon
<1>9. Summed(sp, f)
  BY <1>7, <1>8, Zenon DEF Summed
<1> QED BY <1>9

\* Whatever the fold picks first, it adds up: what one process gains the sum gains.
LEMMA TotalMoves ==
    ASSUME NEW sp \in [Spikes -> Processes], NEW sq \in [Spikes -> Processes], NEW p \in Spikes,
           \A q \in Spikes \ {p} : Weight(sq[q]) = Weight(sp[q])
    PROVE  /\ Total(sp) \in Nat /\ Total(sq) \in Nat
           /\ Total(sq) = Total(sp) + Weight(sq[p]) - Weight(sp[p])
<1> DEFINE f == CHOOSE f : Summed(sp, f)
           g == CHOOSE g : Summed(sq, g)
           d == Weight(sq[p]) - Weight(sp[p])
           Right(s) == /\ f[s] \in Nat /\ g[s] \in Nat
                       /\ g[s] = f[s] + (IF p \in s THEN d ELSE 0)
           T == {s \in SUBSET Spikes : ~Right(s)}
<1>1. Summed(sp, f) /\ Summed(sq, g)
  BY SummedExists, Zenon
<1>2. Total(sp) = f[Spikes] /\ Total(sq) = g[Spikes]
  BY DEF Total
<1> HIDE DEF f, g
<1>3. \A s \in SUBSET Spikes : f[s] = Added(sp, f, s) /\ g[s] = Added(sq, g, s)
  <2> DEFINE A(s) == Added(sp, f, s)
             B(s) == Added(sq, g, s)
  <2>1. f = [s \in SUBSET Spikes |-> A(s)] /\ g = [s \in SUBSET Spikes |-> B(s)]
    BY <1>1, Zenon DEF Summed
  <2> HIDE DEF A, B
  <2>2. \A s \in SUBSET Spikes : f[s] = A(s) /\ g[s] = B(s)
    BY <2>1
  <2> QED BY <2>2 DEF A, B
<1>4. \A q \in Spikes : Weight(sp[q]) \in Nat /\ Weight(sq[q]) \in Nat
  BY WeightType
<1>5. d \in Int /\ d = Weight(sq[p]) - Weight(sp[p])
  BY <1>4
<1> HIDE DEF d
<1>6. ASSUME T # {} PROVE FALSE
  <2>1. T \subseteq SUBSET Spikes
    OBVIOUS
  <2>2. PICK s \in T : \A x \in s : s \ {x} \notin T
    <3> HIDE DEF T
    <3> QED BY <1>6, <2>1, SpikesFinite, LeastSet
  <2>3. s # {}
    <3> DEFINE e == {}
    <3>1. e \in SUBSET Spikes /\ e = {} /\ p \notin e
      OBVIOUS
    <3> HIDE DEF e
    <3>2. f[e] = 0 /\ g[e] = 0
      BY <1>3, <3>1 DEF Added
    <3>3. Right(e)
      BY <3>1, <3>2
    <3> QED BY <2>2, <3>1, <3>3
  <2> DEFINE x == Pick(s)
  <2>4. x \in s /\ x \in Spikes /\ s \ {x} \in SUBSET Spikes
    <3>1. x \in s
      BY <2>3 DEF Pick
    <3> QED BY <2>2, <3>1
  <2>5. f[s] = Weight(sp[x]) + f[s \ {x}] /\ g[s] = Weight(sq[x]) + g[s \ {x}]
    BY <1>3, <2>2, <2>3 DEF Added
  <2>6. Right(s \ {x})
    BY <2>2, <2>4
  <2> HIDE DEF x
  <2>7. CASE x = p
    <3>1. p \in s /\ p \notin s \ {x}
      BY <2>4, <2>7
    <3>2. g[s \ {x}] = f[s \ {x}] /\ f[s \ {x}] \in Nat
      BY <2>6, <3>1
    <3>3. Weight(sq[p]) = Weight(sp[p]) + d
      BY <1>4, <1>5
    <3>4. f[s] \in Nat /\ g[s] \in Nat /\ g[s] = f[s] + d
      BY <1>4, <1>5, <2>4, <2>5, <2>7, <3>2, <3>3
    <3>5. Right(s)
      BY <3>1, <3>4
    <3> QED BY <2>2, <3>5
  <2>8. CASE x # p
    <3>1. Weight(sq[x]) = Weight(sp[x]) /\ (p \in s <=> p \in s \ {x})
      BY <2>4, <2>8
    <3>2. Right(s)
      BY <1>4, <1>5, <2>4, <2>5, <2>6, <3>1
    <3> QED BY <2>2, <3>2
  <2> QED BY <2>7, <2>8
<1>7. Right(Spikes)
  BY <1>6
<1> QED BY <1>2, <1>4, <1>5, <1>7

-----------------------------------------------------------------------------
(***************************************************************************)
(* The session's methods.                                                  *)
(***************************************************************************)

\* A turn of connection c whose session and processes are sound; n is the page's connection.
Ready(c, n, t) ==
    /\ t \in Turns
    /\ Flags(t.s)
    /\ Owns(t.s, t.spike, c)
    /\ \A q \in Spikes : Lives(t.spike[q], n)

\* A turn of c touches the processes of c, and those not started.
OnlyOwn(c, sp, sq) ==
    \A q \in Spikes : sp[q].status # "none" /\ sp[q].owner # c => sq[q] = sp[q]

SameNones(sp, sq) == \A q \in Spikes : sq[q].status = "none" <=> sp[q].status = "none"

SameWork(sp, sq) == \A q \in Spikes : sq[q].input = sp[q].input /\ sq[q].out = sp[q].out

\* The session keeps its process, or that process does not run on.
Releases(t, u) ==
    LET p == t.s.spikeProcess
    IN  u.s.spikeProcess = p \/ p = NoSpike \/ u.spike[p].status # "alive"

Does(c, n, t, u) == Ready(c, n, u) /\ OnlyOwn(c, t.spike, u.spike) /\ Releases(t, u)

\* The session's process is asked for one instruction more.
Asked(t, u) ==
    /\ t.s.spikeProcess \in Spikes
    /\ u.spike = [t.spike EXCEPT ![t.s.spikeProcess] =
                        [t.spike[t.s.spikeProcess] EXCEPT !.input = @ + 1]]

LEMMA Separate == NoSpike \notin Spikes
BY WebAssumption DEF NoSpike, Spikes

LEMMA SendCommandEffect ==
    ASSUME NEW c \in Conns, NEW n \in Conns, NEW t, Ready(c, n, t)
    PROVE  LET u == sendCommand(t)
           IN  /\ Does(c, n, t, u) /\ SameNones(t.spike, u.spike)
               /\ u.s = t.s /\ u.sent = t.sent
               /\ IF t.s.isRunning THEN Asked(t, u) ELSE u = t
<1> DEFINE p == t.s.spikeProcess
           x == t.spike[p]
           y == [x EXCEPT !.input = @ + 1]
           u == sendCommand(t)
<1>1. t \in Turns /\ Flags(t.s) /\ Owns(t.s, t.spike, c) /\ \A q \in Spikes : Lives(t.spike[q], n)
  BY DEF Ready
<1>2. t.s \in Sessions /\ t.spike \in [Spikes -> Processes] /\ t.sent \in Seq(News)
  BY <1>1 DEF Turns
<1>3. CASE ~t.s.isRunning
  <2>1. u = t
    BY <1>3 DEF sendCommand
  <2> QED BY <1>3, <2>1 DEF Does, OnlyOwn, Releases, SameNones
<1>4. CASE t.s.isRunning
  <2>1. p # NoSpike /\ p \in Spikes
    BY <1>1, <1>2, <1>4 DEF Flags, Sessions
  <2>2. x.owner = c /\ x.status \in {"alive", "exiting"} /\ x \in Processes
    BY <1>1, <1>2, <2>1 DEF Owns
  <2>3. y \in Processes /\ y.owner = x.owner /\ y.status = x.status
    BY <2>2 DEF Processes
  <2> DEFINE sp == [t.spike EXCEPT ![p] = y]
  <2>4. u = [t EXCEPT !.spike = sp]
    <3>1. u = [t EXCEPT !.spike[p].input = @ + 1]
      BY <1>4, <2>1 DEF sendCommand
    <3> QED BY <1>1, <1>2, <2>1, <2>2, <3>1 DEF Turns, Processes
  <2>5. u.s = t.s /\ u.spike = sp /\ u.sent = t.sent
    BY <1>1, <2>4 DEF Turns
  <2>6. /\ sp \in [Spikes -> Processes] /\ sp[p] = y
        /\ \A q \in Spikes : q # p => sp[q] = t.spike[q]
    BY <1>2, <2>1, <2>3
  <2>7. u \in Turns
    BY <1>1, <2>4, <2>6 DEF Turns
  <2> HIDE DEF sp, u, y
  <2>8. Owns(t.s, sp, c)
    BY <1>1, <2>1, <2>2, <2>3, <2>6 DEF Owns
  <2>9. Lives(y, n)
    <3>1. Lives(x, n)
      BY <1>1, <2>1
    <3> QED BY <2>2, <2>3, <3>1 DEF Lives
  <2>10. \A q \in Spikes : Lives(sp[q], n)
    BY <1>1, <2>6, <2>9
  <2>11. OnlyOwn(c, t.spike, sp) /\ SameNones(t.spike, sp)
    <3>1. t.spike[p].owner = c /\ t.spike[p].status # "none" /\ sp[p].status # "none"
      BY <2>2, <2>3, <2>6
    <3>2. \A q \in Spikes : q = p \/ sp[q] = t.spike[q]
      BY <2>6
    <3> QED BY <3>1, <3>2 DEF OnlyOwn, SameNones
  <2>12. Asked(t, u)
    BY <2>1, <2>5, Zenon DEF Asked, sp, y
  <2>13. Does(c, n, t, u)
    BY <1>1, <2>5, <2>7, <2>8, <2>10, <2>11 DEF Does, Ready, Releases
  <2> QED BY <1>4, <2>5, <2>11, <2>12, <2>13 DEF u
<1> QED BY <1>3, <1>4

\* A turn ready in all but the session, whose flags a method has set.
LEMMA FlagsSet ==
    ASSUME NEW c \in Conns, NEW n \in Conns, NEW t, Ready(c, n, t), NEW s \in Sessions,
           Flags(s), s.spikeProcess = t.s.spikeProcess
    PROVE  LET v == [t EXCEPT !.s = s]
           IN  /\ Ready(c, n, v) /\ Does(c, n, t, v)
               /\ v.s = s /\ v.spike = t.spike /\ v.sent = t.sent
<1> DEFINE v == [t EXCEPT !.s = s]
<1>1. t \in Turns /\ Owns(t.s, t.spike, c) /\ \A q \in Spikes : Lives(t.spike[q], n)
  BY DEF Ready
<1>2. v \in Turns /\ v.s = s /\ v.spike = t.spike /\ v.sent = t.sent
  BY <1>1 DEF Turns
<1> HIDE DEF v
<1>3. Owns(s, t.spike, c)
  BY <1>1 DEF Owns
<1>4. Ready(c, n, v) /\ OnlyOwn(c, t.spike, v.spike) /\ Releases(t, v)
  BY <1>1, <1>2, <1>3 DEF Ready, OnlyOwn, Releases
<1> QED BY <1>2, <1>4 DEF Does, v

\* executeNextInstruction: nothing, or one instruction asked for and waited for.
LEMMA ExecuteNextEffect ==
    ASSUME NEW c \in Conns, NEW n \in Conns, NEW t, Ready(c, n, t)
    PROVE  LET u == executeNextInstruction(t)
           IN  /\ Does(c, n, t, u) /\ SameNones(t.spike, u.spike)
               /\ u.sent = t.sent /\ (Serving(t.s) => Serving(u.s))
               /\ \/ /\ Asked(t, u) /\ u.s.waitingForOutput /\ ~u.s.waitingForFrontend
                  \/ /\ u = t
                     /\ t.s.waitingForOutput \/ t.s.waitingForFrontend
                            \/ ~t.s.isContinuousMode \/ ~t.s.isRunning
<1> DEFINE s == [t.s EXCEPT !.waitingForOutput = TRUE]
           v == [t EXCEPT !.s = s]
           u == executeNextInstruction(t)
           Goes == /\ t.s.isContinuousMode /\ t.s.isRunning /\ t.s.spikeProcess # NoSpike
                   /\ ~t.s.waitingForOutput /\ ~t.s.waitingForFrontend
<1>1. t \in Turns /\ Flags(t.s) /\ t.s \in Sessions
  BY DEF Ready, Turns
<1>2. CASE Goes
  <2>1. s \in Sessions /\ Flags(s) /\ s.spikeProcess = t.s.spikeProcess
        /\ s.waitingForOutput /\ ~s.waitingForFrontend /\ s.isRunning
        /\ (Serving(t.s) => Serving(s))
    BY <1>1, <1>2 DEF Sessions, Flags, Serving
  <2>2. u = sendCommand(v)
    <3>1. v = [t EXCEPT !.s.waitingForOutput = TRUE]
      BY <1>1 DEF Turns
    <3> QED BY <1>2, <3>1 DEF executeNextInstruction
  <2> HIDE DEF s
  <2>3. Ready(c, n, v) /\ v.s = s /\ v.spike = t.spike /\ v.sent = t.sent
    BY <2>1, FlagsSet
  <2> HIDE DEF v, u
  <2>4. Does(c, n, v, u) /\ SameNones(v.spike, u.spike) /\ u.s = v.s /\ u.sent = v.sent /\ Asked(v, u)
    BY <2>1, <2>2, <2>3, SendCommandEffect
  <2>5. Does(c, n, t, u) /\ Asked(t, u)
    BY <2>1, <2>3, <2>4 DEF Does, Releases, Asked
  <2> QED BY <2>1, <2>3, <2>4, <2>5 DEF u
<1>3. CASE ~Goes
  <2>1. u = t
    BY <1>3 DEF executeNextInstruction
  <2>2. t.s.waitingForOutput \/ t.s.waitingForFrontend \/ ~t.s.isContinuousMode \/ ~t.s.isRunning
    BY <1>1, <1>3 DEF Flags
  <2> QED BY <2>1, <2>2 DEF Does, OnlyOwn, Releases, SameNones
<1> QED BY <1>2, <1>3

\* stopDebug: the process is killed and let go, nothing is waited for, the page is told.
LEMMA StopDebugEffect ==
    ASSUME NEW c \in Conns, NEW n \in Conns, NEW t, Ready(c, n, t)
    PROVE  LET u == stopDebug(t)
           IN  /\ Does(c, n, t, u) /\ SameNones(t.spike, u.spike) /\ SameWork(t.spike, u.spike)
               /\ u.s.spikeProcess = NoSpike /\ ~u.s.isInitialized
               /\ ~u.s.waitingForOutput /\ ~u.s.waitingForFrontend
               /\ u.sent = Append(t.sent, "debug-stopped")
<1> DEFINE p == t.s.spikeProcess
           x == t.spike[p]
           y == [x EXCEPT !.status = IF @ = "alive" THEN "exiting" ELSE @]
           s == [StopContinuous(t.s) EXCEPT !.spikeProcess = NoSpike,
                                            !.isRunning = FALSE, !.isInitialized = FALSE,
                                            !.late = FALSE]
           sp == IF p = NoSpike THEN t.spike ELSE [t.spike EXCEPT ![p] = y]
           u == stopDebug(t)
<1>1. t \in Turns /\ Owns(t.s, t.spike, c) /\ \A q \in Spikes : Lives(t.spike[q], n)
  BY DEF Ready
<1>2. t.s \in Sessions /\ t.spike \in [Spikes -> Processes] /\ t.sent \in Seq(News)
  BY <1>1 DEF Turns
<1>3. /\ s \in Sessions /\ s.spikeProcess = NoSpike /\ ~s.isRunning /\ ~s.isInitialized
      /\ ~s.waitingForOutput /\ ~s.waitingForFrontend
  BY <1>2 DEF Sessions, StopContinuous
<1>4. p = NoSpike \/ p \in Spikes
  BY <1>2 DEF Sessions
<1>5. p # NoSpike => /\ x.owner = c /\ x.status \in {"alive", "exiting"} /\ x \in Processes
                     /\ y \in Processes /\ y.owner = c /\ y.status = "exiting"
                     /\ y.input = x.input /\ y.out = x.out
  <2> SUFFICES ASSUME p # NoSpike PROVE /\ x.owner = c /\ x.status \in {"alive", "exiting"}
                                        /\ x \in Processes /\ y \in Processes /\ y.owner = c
                                        /\ y.status = "exiting" /\ y.input = x.input /\ y.out = x.out
    OBVIOUS
  <2>1. x.owner = c /\ x.status \in {"alive", "exiting"} /\ x \in Processes
    BY <1>1, <1>2, <1>4 DEF Owns
  <2> HIDE DEF x
  <2>2. y \in Processes /\ y.owner = c /\ y.status = "exiting" /\ y.input = x.input /\ y.out = x.out
    BY <2>1 DEF Processes
  <2> QED BY <2>1, <2>2
<1>6. u = [t EXCEPT !.spike = sp, !.s = s, !.sent = Append(@, "debug-stopped")]
  <2>1. u = [[t EXCEPT !.spike = sp, !.s = s] EXCEPT !.sent = Append(@, "debug-stopped")]
    <3>1. p # NoSpike => [t.spike EXCEPT ![p].status = IF @ = "alive" THEN "exiting" ELSE @]
                            = [t.spike EXCEPT ![p] = y]
      OBVIOUS
    <3>2. u = emit([t EXCEPT !.spike = IF p = NoSpike THEN t.spike ELSE
                            [t.spike EXCEPT ![p].status = IF @ = "alive" THEN "exiting" ELSE @],
                             !.s = [StopContinuous(@) EXCEPT !.spikeProcess = NoSpike,
                                            !.isRunning = FALSE, !.isInitialized = FALSE,
                                            !.late = FALSE]],
                   "debug-stopped")
      BY Zenon DEF stopDebug
    <3> QED BY <1>1, <3>1, <3>2 DEF emit, Turns
  <2> QED BY <1>1, <2>1 DEF Turns
<1>7. u.s = s /\ u.spike = sp /\ u.sent = Append(t.sent, "debug-stopped")
  BY <1>1, <1>6 DEF Turns
<1>8. \A q \in Spikes : sp[q] = IF q = p THEN y ELSE t.spike[q]
  BY <1>2, <1>4, Separate
<1>9. sp \in [Spikes -> Processes]
  BY <1>2, <1>4, <1>5
<1>10. u \in Turns
  <2>1. Append(t.sent, "debug-stopped") \in Seq(News)
    BY <1>2 DEF News
  <2> HIDE DEF s, sp, u
  <2> QED BY <1>1, <1>3, <1>6, <1>9, <2>1 DEF Turns
<1> HIDE DEF s, sp, u, y
<1>11. Flags(s) /\ Owns(s, sp, c)
  BY <1>3 DEF Flags, Owns
<1>12. \A q \in Spikes : Lives(sp[q], n)
  <2> SUFFICES ASSUME NEW q \in Spikes PROVE Lives(sp[q], n)
    OBVIOUS
  <2>1. CASE q # p
    BY <1>1, <1>8, <2>1
  <2>2. CASE q = p
    <3>1. Lives(x, n) /\ p # NoSpike
      BY <1>1, <2>2, Separate
    <3>2. Lives(y, n)
      BY <1>5, <3>1 DEF Lives
    <3> QED BY <1>8, <2>2, <3>2
  <2> QED BY <2>1, <2>2
<1>13. OnlyOwn(c, t.spike, sp) /\ SameNones(t.spike, sp) /\ SameWork(t.spike, sp)
  <2>1. ASSUME NEW q \in Spikes, q = p
        PROVE  /\ t.spike[q].owner = c /\ sp[q].status # "none" /\ t.spike[q].status # "none"
               /\ sp[q].input = t.spike[q].input /\ sp[q].out = t.spike[q].out
    BY <1>5, <1>8, <2>1, Separate
  <2>2. ASSUME NEW q \in Spikes, q # p PROVE sp[q] = t.spike[q]
    BY <1>8, <2>2
  <2> QED BY <2>1, <2>2 DEF OnlyOwn, SameNones, SameWork
<1>14. p = NoSpike \/ sp[p].status # "alive"
  BY <1>4, <1>5, <1>8
<1>15. Does(c, n, t, u)
  BY <1>7, <1>10, <1>11, <1>12, <1>13, <1>14 DEF Does, Ready, Releases
<1> QED BY <1>3, <1>7, <1>13, <1>15 DEF u

SameWeight(sp, sq) == \A q \in Spikes : Weight(sq[q]) = Weight(sp[q])

StartsOne(sp, sq) ==
    \E p \in Spikes : /\ sp[p].status = "none"
                      /\ \A q \in Spikes \ {p} : sq[q].status = "none" <=> sp[q].status = "none"

\* The news of a turn in which nothing was sent before: none, and the session serves the
\* page if it did, or last that it has stopped.
Tells(t, u) ==
    \/ u.sent = <<>> /\ (Serving(t.s) => Serving(u.s))
    \/ u.sent # <<>> /\ u.sent[Len(u.sent)] \in {"debug-stopped", "debug-reset"}

\* startDebug: the session waits for nothing, and has a new process of its own or none.
LEMMA StartDebugEffect ==
    ASSUME NEW c \in Conns, NEW n \in Conns, c <= n, NEW t, Ready(c, n, t), t.sent = <<>>,
           NEW p \in Spikes, t.spike[p].status = "none", NEW found \in BOOLEAN
    PROVE  LET u == startDebug(t, c, p, found)
           IN  /\ Does(c, n, t, u) /\ StartsOne(t.spike, u.spike) /\ SameWeight(t.spike, u.spike)
               /\ ~u.s.waitingForOutput /\ ~u.s.waitingForFrontend /\ Tells(t, u)
               /\ Lines(u.sent) = 0
<1> DEFINE t1 == IF t.s.spikeProcess # NoSpike THEN stopDebug(t) ELSE t
           u == startDebug(t, c, p, found)
<1>1. t \in Turns /\ Flags(t.s) /\ Owns(t.s, t.spike, c) /\ t.s \in Sessions
  BY DEF Ready, Turns
<1>2. /\ Does(c, n, t, t1) /\ SameNones(t.spike, t1.spike) /\ SameWork(t.spike, t1.spike)
      /\ t1.s.spikeProcess = NoSpike /\ ~t1.s.waitingForOutput /\ ~t1.s.waitingForFrontend
      /\ Tells(t, t1) /\ Lines(t1.sent) = 0
  <2>1. CASE t.s.spikeProcess # NoSpike
    <3> DEFINE v == stopDebug(t)
    <3>1. /\ Does(c, n, t, v) /\ SameNones(t.spike, v.spike) /\ SameWork(t.spike, v.spike)
          /\ v.s.spikeProcess = NoSpike /\ ~v.s.waitingForOutput /\ ~v.s.waitingForFrontend
          /\ v.sent = Append(t.sent, "debug-stopped")
      BY StopDebugEffect
    <3>2. t1 = v
      BY <2>1
    <3> HIDE DEF v, t1
    <3>3. v.sent = <<"debug-stopped">>
      BY <3>1
    <3>4. Tells(t, v)
      BY <3>3 DEF Tells
    <3>5. Lines(v.sent) = 0
      BY <3>3, CountFew DEF Lines
    <3> QED BY <3>1, <3>2, <3>4, <3>5
  <2>2. CASE t.s.spikeProcess = NoSpike
    <3>1. t1 = t
      BY <2>2
    <3>2. ~t.s.waitingForOutput /\ ~t.s.waitingForFrontend
      BY <1>1, <2>2 DEF Flags, Sessions
    <3>3. Lines(t.sent) = 0
      BY CountFew DEF Lines
    <3> HIDE DEF t1
    <3> QED BY <2>2, <3>1, <3>2, <3>3 DEF Does, OnlyOwn, Releases, SameNones, SameWork, Tells
  <2> QED BY <2>1, <2>2
<1> DEFINE x == [status |-> "alive", owner |-> c, input |-> 0, out |-> <<"prompt">>]
           s == [t1.s EXCEPT !.spikeProcess = p, !.isRunning = TRUE, !.late = FALSE,
                            !.starting = @ + 1]
           sp == [t1.spike EXCEPT ![p] = x]
<1>3. u = IF ~found THEN t1
          ELSE [t1 EXCEPT !.spike[p] = x, !.s.spikeProcess = p, !.s.isRunning = TRUE,
                          !.s.late = FALSE, !.s.starting = @ + 1]
  BY Zenon DEF startDebug
<1> HIDE DEF t1
<1>4. /\ t1 \in Turns /\ t1.s \in Sessions /\ t1.spike \in [Spikes -> Processes]
      /\ \A q \in Spikes : Lives(t1.spike[q], n)
  BY <1>2 DEF Does, Ready, Turns
<1>5. SameWeight(t.spike, t1.spike)
  BY <1>2 DEF SameWork, SameWeight, Weight
<1>6. t1.spike[p].status = "none" /\ t1.spike[p] = NoProcess
  BY <1>2, <1>4 DEF SameNones, Lives
<1>7. CASE ~found
  <2>1. u = t1
    BY <1>3, <1>7
  <2>2. StartsOne(t.spike, t1.spike)
    BY <1>2 DEF StartsOne, SameNones
  <2> QED BY <1>2, <1>5, <2>1, <2>2
<1>8. CASE found
  <2>1. x \in Processes /\ Weight(x) = Weight(NoProcess) /\ Lives(x, n)
    <3>1. <<"prompt">> \in Seq(Items) /\ c \in 1 .. n
      BY DEF Items, Conns
    <3>2. x \in Processes /\ Lives(x, n)
      BY <3>1 DEF Processes, Lives
    <3>3. Lines(<<"prompt">>) = 0 /\ Lines(<<>>) = 0
      BY CountFew DEF Lines
    <3> QED BY <3>2, <3>3 DEF Weight, NoProcess
  <2>2. u = [t1 EXCEPT !.spike = sp, !.s = s]
    <3> HIDE DEF x
    <3> QED BY <1>3, <1>4, <1>8 DEF Turns, Sessions
  <2>3. /\ s \in Sessions /\ s.spikeProcess = p /\ s.isRunning
        /\ ~s.waitingForOutput /\ ~s.waitingForFrontend /\ (Serving(t1.s) => Serving(s))
    <3>1. t1.s \in Sessions /\ ~t1.s.waitingForOutput /\ ~t1.s.waitingForFrontend
      BY <1>2, <1>4
    <3>2. t1.s.starting + 1 \in Nat
      BY <3>1 DEF Sessions
    <3> QED BY <3>1, <3>2 DEF Sessions, Serving
  <2>4. sp \in [Spikes -> Processes] /\ sp[p] = x /\ \A q \in Spikes : q # p => sp[q] = t1.spike[q]
    <3> HIDE DEF x
    <3> QED BY <1>4, <2>1
  <2>5. x.owner = c /\ x.status = "alive"
    OBVIOUS
  <2> HIDE DEF x, s, sp, u
  <2>6. u \in Turns /\ u.s = s /\ u.spike = sp /\ u.sent = t1.sent
    BY <1>4, <2>2, <2>3, <2>4 DEF Turns
  <2>7. Flags(s) /\ Owns(s, sp, c) /\ \A q \in Spikes : Lives(sp[q], n)
    <3>1. Flags(s)
      BY <2>3, Separate DEF Flags
    <3>2. Owns(s, sp, c)
      BY <2>3, <2>4, <2>5 DEF Owns
    <3>3. \A q \in Spikes : Lives(sp[q], n)
      BY <1>4, <2>1, <2>4
    <3> QED BY <3>1, <3>2, <3>3
  <2>8. OnlyOwn(c, t.spike, sp)
    <3>1. OnlyOwn(c, t.spike, t1.spike)
      BY <1>2 DEF Does
    <3> QED BY <2>4, <3>1 DEF OnlyOwn
  <2>9. t.s.spikeProcess = NoSpike \/ sp[t.s.spikeProcess].status # "alive"
    <3> SUFFICES ASSUME t.s.spikeProcess # NoSpike PROVE sp[t.s.spikeProcess].status # "alive"
      OBVIOUS
    <3>1. t.s.spikeProcess \in Spikes /\ t.s.spikeProcess # p
      BY <1>1 DEF Sessions, Owns
    <3>2. t1.spike[t.s.spikeProcess].status # "alive"
      BY <1>2 DEF Does, Releases
    <3> QED BY <2>4, <3>1, <3>2
  <2>10. Does(c, n, t, u)
    BY <2>6, <2>7, <2>8, <2>9 DEF Does, Ready, Releases
  <2>11. StartsOne(t.spike, sp)
    <3>1. \A q \in Spikes \ {p} : sp[q].status = "none" <=> t.spike[q].status = "none"
      BY <1>2, <2>4 DEF SameNones
    <3> QED BY <3>1 DEF StartsOne
  <2>12. SameWeight(t.spike, sp)
    <3> SUFFICES ASSUME NEW q \in Spikes PROVE Weight(sp[q]) = Weight(t.spike[q])
      BY DEF SameWeight
    <3>1. Weight(t1.spike[q]) = Weight(t.spike[q])
      BY <1>5 DEF SameWeight
    <3>2. CASE q = p
      BY <1>6, <2>1, <2>4, <3>1, <3>2
    <3>3. CASE q # p
      BY <2>4, <3>1, <3>3
    <3> QED BY <3>2, <3>3
  <2>13. Tells(t, u)
    BY <1>2, <2>3, <2>6 DEF Tells
  <2> QED BY <1>2, <2>3, <2>6, <2>10, <2>11, <2>12, <2>13 DEF u
<1> QED BY <1>7, <1>8

\* What a message from the page does.
Serves(c, n, t, u, m) ==
    /\ Does(c, n, t, u)
    /\ u.s.waitingForOutput => Asked(t, u) \/ (t.s.waitingForOutput /\ u.spike = t.spike)
    /\ u.s.waitingForFrontend =>
            t.s.waitingForFrontend /\ m # "frontend-ready" /\ (Asked(t, u) \/ u.spike = t.spike)
    /\ Tells(t, u) /\ Lines(u.sent) = 0
    /\ \/ SameWeight(t.spike, u.spike)
       \/ m \in {"continue-debug", "step-debug", "frontend-ready"} /\ Asked(t, u)
    /\ SameNones(t.spike, u.spike) \/ (m = "start-debug" /\ StartsOne(t.spike, u.spike))

LEMMA ContinueServes ==
    ASSUME NEW c \in Conns, NEW n \in Conns, NEW t, Ready(c, n, t), t.sent = <<>>
    PROVE  Serves(c, n, t, continueDebug(t), "continue-debug")
<1> DEFINE s == [t.s EXCEPT !.isContinuousMode = TRUE]
           v == [t EXCEPT !.s = s]
           u == continueDebug(t)
<1>1. t \in Turns /\ Flags(t.s) /\ t.s \in Sessions
  BY DEF Ready, Turns
<1>2. /\ s \in Sessions /\ Flags(s) /\ s.spikeProcess = t.s.spikeProcess
      /\ s.waitingForOutput = t.s.waitingForOutput /\ s.waitingForFrontend = t.s.waitingForFrontend
      /\ (Serving(t.s) => Serving(s))
  BY <1>1 DEF Sessions, Flags, Serving
<1>3. u = executeNextInstruction(v)
  <2>1. v = [t EXCEPT !.s.isContinuousMode = TRUE]
    BY <1>1 DEF Turns
  <2> QED BY <2>1 DEF continueDebug
<1> HIDE DEF s
<1>4. Ready(c, n, v) /\ v.s = s /\ v.spike = t.spike /\ v.sent = t.sent
  BY <1>2, FlagsSet
<1> HIDE DEF v, u
<1>5. /\ Does(c, n, v, u) /\ SameNones(v.spike, u.spike)
      /\ u.sent = v.sent /\ (Serving(v.s) => Serving(u.s))
      /\ \/ Asked(v, u) /\ u.s.waitingForOutput /\ ~u.s.waitingForFrontend
         \/ u = v
  BY <1>3, <1>4, ExecuteNextEffect
<1>6. Does(c, n, t, u) /\ SameNones(t.spike, u.spike) /\ u.sent = <<>>
  BY <1>2, <1>4, <1>5 DEF Does, Releases
<1>7. Tells(t, u) /\ Lines(u.sent) = 0
  BY <1>2, <1>4, <1>5, <1>6, CountFew DEF Tells, Lines
<1>8. Asked(v, u) => Asked(t, u)
  BY <1>2, <1>4 DEF Asked
<1>9. SameWeight(t.spike, t.spike)
  BY DEF SameWeight
<1> QED BY <1>2, <1>4, <1>5, <1>6, <1>7, <1>8, <1>9 DEF Serves, u

LEMMA StepServes ==
    ASSUME NEW c \in Conns, NEW n \in Conns, NEW t, Ready(c, n, t), t.sent = <<>>
    PROVE  Serves(c, n, t, stepDebug(t), "step-debug")
<1> DEFINE u == stepDebug(t)
<1>1. /\ Does(c, n, t, u) /\ SameNones(t.spike, u.spike) /\ u.s = t.s /\ u.sent = t.sent
      /\ IF t.s.isRunning THEN Asked(t, u) ELSE u = t
  BY SendCommandEffect DEF stepDebug
<1> HIDE DEF u
<1>2. Tells(t, u) /\ Lines(u.sent) = 0
  BY <1>1, CountFew DEF Tells, Lines
<1>3. SameWeight(t.spike, t.spike)
  BY DEF SameWeight
<1> QED BY <1>1, <1>2, <1>3 DEF Serves, u

LEMMA PauseServes ==
    ASSUME NEW c \in Conns, NEW n \in Conns, NEW t, Ready(c, n, t), t.sent = <<>>
    PROVE  Serves(c, n, t, pauseDebug(t), "pause-debug")
<1> DEFINE s == StopContinuous(t.s)
           u == pauseDebug(t)
<1>1. t \in Turns /\ Flags(t.s) /\ t.s \in Sessions
  BY DEF Ready, Turns
<1>2. /\ s \in Sessions /\ Flags(s) /\ s.spikeProcess = t.s.spikeProcess
      /\ ~s.waitingForOutput /\ ~s.waitingForFrontend /\ (Serving(t.s) => Serving(s))
  BY <1>1 DEF Sessions, Flags, StopContinuous, Serving
<1>3. u = [t EXCEPT !.s = s]
  BY DEF pauseDebug
<1> HIDE DEF s
<1>4. Does(c, n, t, u) /\ u.s = s /\ u.spike = t.spike /\ u.sent = t.sent
  BY <1>2, <1>3, FlagsSet
<1> HIDE DEF u
<1>5. Tells(t, u) /\ Lines(u.sent) = 0
  BY <1>2, <1>4, CountFew DEF Tells, Lines
<1>6. SameWeight(t.spike, u.spike) /\ SameNones(t.spike, u.spike)
  BY <1>4 DEF SameWeight, SameNones
<1> QED BY <1>2, <1>4, <1>5, <1>6 DEF Serves, u

LEMMA ResetServes ==
    ASSUME NEW c \in Conns, NEW n \in Conns, NEW t, Ready(c, n, t), t.sent = <<>>
    PROVE  Serves(c, n, t, resetDebug(t), "reset-debug")
<1> DEFINE v == stopDebug(t)
           u == resetDebug(t)
<1>1. /\ Does(c, n, t, v) /\ SameNones(t.spike, v.spike) /\ SameWork(t.spike, v.spike)
      /\ ~v.s.waitingForOutput /\ ~v.s.waitingForFrontend
      /\ v.sent = Append(t.sent, "debug-stopped")
  BY StopDebugEffect
<1>2. u = [v EXCEPT !.sent = Append(@, "debug-reset")]
  BY DEF resetDebug, emit
<1> HIDE DEF v
<1>3. v.sent = <<"debug-stopped">>
  BY <1>1
<1>4. v \in Turns
  BY <1>1 DEF Does, Ready
<1>5. v.sent \in Seq(News) /\ "debug-reset" \in News
  BY <1>4 DEF Turns, News
<1>6. u \in Turns /\ u.s = v.s /\ u.spike = v.spike /\ u.sent = Append(v.sent, "debug-reset")
  <2>1. Append(v.sent, "debug-reset") \in Seq(News)
    BY <1>5
  <2> QED BY <1>2, <1>4, <2>1 DEF Turns
<1> HIDE DEF u
<1>7. Does(c, n, t, u)
  BY <1>1, <1>6 DEF Does, Ready, Releases
<1>8. Tells(t, u)
  <2>1. u.sent # <<>> /\ u.sent[Len(u.sent)] = "debug-reset"
    BY <1>5, <1>6, AppendProperties
  <2> QED BY <2>1 DEF Tells
<1>9. Lines(u.sent) = 0
  <2>2. Lines(Append(v.sent, "debug-reset")) = Lines(v.sent)
    <3>1. Lines(v.sent) \in Nat
      BY <1>5, CountType DEF Lines
    <3> QED BY <1>5, <3>1, CountAppend DEF Lines
  <2>3. Lines(v.sent) = 0
    BY <1>3, CountFew DEF Lines
  <2> QED BY <1>6, <2>2, <2>3
<1>10. SameWeight(t.spike, u.spike) /\ SameNones(t.spike, u.spike)
  BY <1>1, <1>6 DEF SameWork, SameWeight, Weight, SameNones
<1>11. ~u.s.waitingForOutput /\ ~u.s.waitingForFrontend
  BY <1>1, <1>6
<1> QED BY <1>7, <1>8, <1>9, <1>10, <1>11 DEF Serves, u

LEMMA FrontendServes ==
    ASSUME NEW c \in Conns, NEW n \in Conns, NEW t, Ready(c, n, t), t.sent = <<>>
    PROVE  Serves(c, n, t, onFrontendReady(t), "frontend-ready")
<1> DEFINE s == [t.s EXCEPT !.waitingForFrontend = FALSE]
           v == [t EXCEPT !.s = s]
           u == onFrontendReady(t)
<1>1. t \in Turns /\ Flags(t.s) /\ t.s \in Sessions
  BY DEF Ready, Turns
<1>2. CASE t.s.waitingForFrontend
  <2>1. t.s.isContinuousMode /\ t.s.isRunning /\ ~t.s.waitingForOutput
    BY <1>1, <1>2 DEF Flags
  <2>2. /\ s \in Sessions /\ Flags(s) /\ s.spikeProcess = t.s.spikeProcess
        /\ ~s.waitingForOutput /\ ~s.waitingForFrontend /\ s.isContinuousMode /\ s.isRunning
        /\ (Serving(t.s) => Serving(s))
    BY <1>1, <2>1 DEF Sessions, Flags, Serving
  <2>3. u = executeNextInstruction(v)
    <3>1. v = [t EXCEPT !.s.waitingForFrontend = FALSE]
      BY <1>1 DEF Turns
    <3> QED BY <1>2, <2>1, <3>1 DEF onFrontendReady
  <2> HIDE DEF s
  <2>4. Ready(c, n, v) /\ v.s = s /\ v.spike = t.spike /\ v.sent = t.sent
    BY <2>2, FlagsSet
  <2> HIDE DEF v, u
  <2>5. /\ Does(c, n, v, u) /\ SameNones(v.spike, u.spike)
        /\ u.sent = v.sent /\ (Serving(v.s) => Serving(u.s))
        /\ \/ Asked(v, u) /\ u.s.waitingForOutput /\ ~u.s.waitingForFrontend
           \/ /\ u = v
              /\ v.s.waitingForOutput \/ v.s.waitingForFrontend
                    \/ ~v.s.isContinuousMode \/ ~v.s.isRunning
    BY <2>3, <2>4, ExecuteNextEffect
  <2>6. Asked(v, u) /\ u.s.waitingForOutput /\ ~u.s.waitingForFrontend
    BY <2>2, <2>4, <2>5
  <2>7. Does(c, n, t, u) /\ SameNones(t.spike, u.spike) /\ u.sent = <<>> /\ Asked(t, u)
    BY <2>2, <2>4, <2>5, <2>6 DEF Does, Releases, Asked
  <2>8. Tells(t, u) /\ Lines(u.sent) = 0
    BY <2>2, <2>4, <2>5, <2>7, CountFew DEF Tells, Lines
  <2> QED BY <2>6, <2>7, <2>8 DEF Serves, u
<1>3. CASE ~t.s.waitingForFrontend
  <2>1. u = t
    BY <1>3 DEF onFrontendReady
  <2>2. Tells(t, t) /\ Lines(t.sent) = 0
    BY CountFew DEF Tells, Lines
  <2>3. Does(c, n, t, t) /\ SameNones(t.spike, t.spike) /\ SameWeight(t.spike, t.spike)
    BY DEF Does, OnlyOwn, Releases, SameNones, SameWeight
  <2> QED BY <1>3, <2>1, <2>2, <2>3 DEF Serves
<1> QED BY <1>2, <1>3

LEMMA StartServes ==
    ASSUME NEW c \in Conns, NEW n \in Conns, c <= n, NEW t, Ready(c, n, t), t.sent = <<>>,
           NEW p \in Spikes, t.spike[p].status = "none", NEW found \in BOOLEAN
    PROVE  Serves(c, n, t, startDebug(t, c, p, found), "start-debug")
<1> DEFINE u == startDebug(t, c, p, found)
<1>1. /\ Does(c, n, t, u) /\ StartsOne(t.spike, u.spike) /\ SameWeight(t.spike, u.spike)
      /\ ~u.s.waitingForOutput /\ ~u.s.waitingForFrontend /\ Tells(t, u) /\ Lines(u.sent) = 0
  BY StartDebugEffect
<1> HIDE DEF u
<1> QED BY <1>1 DEF Serves, u

-----------------------------------------------------------------------------
(***************************************************************************)
(* What the page will think of debugging.                                  *)
(***************************************************************************)

Hush(s, n) == \A i \in n .. Len(s) : s[i] \in {"debug-started", "execution-update"}

Will(d, s) ==
    \/ d /\ Hush(s, 1)
    \/ \E n \in DOMAIN s : s[n] = "debug-started" /\ Hush(s, n)

LEMMA WillDebugIsWill ==
    /\ WillDebug <=> Will(page.debugging, toPage)
    /\ WillDebug' <=> Will(page'.debugging, toPage')
BY DEF WillDebug, Will, Hush

\* News of instructions changes nothing.
LEMMA WillMore ==
    ASSUME NEW d, NEW s \in Seq(News), NEW e \in Seq({"execution-update"})
    PROVE  Will(d, s \o e) => Will(d, s)
<1> DEFINE u == s \o e
           m == Len(s)
           k == Len(e)
<1>1. /\ m \in Nat /\ k \in Nat /\ DOMAIN s = 1 .. m
      /\ e \in Seq(News) /\ \A i \in 1 .. k : e[i] = "execution-update"
  <2>1. \A i \in 1 .. k : e[i] \in {"execution-update"}
    BY LenProperties
  <2>2. e \in Seq(News)
    BY DEF News
  <2> QED BY <2>1, <2>2, LenProperties
<1>2. /\ u \in Seq(News) /\ Len(u) = m + k
      /\ \A i \in 1 .. m + k : u[i] = IF i <= m THEN s[i] ELSE e[i - m]
  BY <1>1, ConcatProperties
<1>3. DOMAIN u = 1 .. m + k
  <2> HIDE DEF u
  <2> QED BY <1>2, LenProperties
<1> HIDE DEF u, m, k
<1>4. \A i \in 1 .. m : i \in 1 .. m + k /\ u[i] = s[i]
  BY <1>1, <1>2
<1>5. \A i \in 1 .. m + k : i > m => u[i] = "execution-update"
  <2> SUFFICES ASSUME NEW i \in 1 .. m + k, i > m PROVE u[i] = "execution-update"
    OBVIOUS
  <2>1. i - m \in 1 .. k /\ ~(i <= m)
    BY <1>1
  <2> QED BY <1>1, <1>2, <2>1
<1>6. ASSUME NEW n \in Nat \ {0}, Hush(u, n) PROVE Hush(s, n)
  <2> SUFFICES ASSUME NEW i \in n .. m PROVE s[i] \in {"debug-started", "execution-update"}
    BY DEF Hush, m
  <2>1. i \in 1 .. m /\ i \in n .. Len(u)
    BY <1>1, <1>2
  <2> QED BY <1>4, <1>6, <2>1 DEF Hush
<1>7. CASE d /\ Hush(u, 1)
  <2>1. Hush(s, 1)
    BY <1>6, <1>7
  <2> QED BY <1>7, <2>1 DEF Will
<1>8. ASSUME NEW n \in DOMAIN u, u[n] = "debug-started", Hush(u, n) PROVE Will(d, s)
  <2>1. n \in 1 .. m
    BY <1>1, <1>3, <1>5, <1>8
  <2>2. s[n] = "debug-started" /\ Hush(s, n) /\ n \in DOMAIN s
    BY <1>1, <1>4, <1>6, <1>8, <2>1
  <2> QED BY <2>2 DEF Will
<1> QED BY <1>7, <1>8 DEF Will, u

\* After news that it stopped, the page does not.
LEMMA WillStop ==
    ASSUME NEW d, NEW s \in Seq(News), NEW e \in Seq(News), e # <<>>,
           e[Len(e)] \in {"debug-stopped", "debug-reset"}
    PROVE  ~Will(d, s \o e)
<1> DEFINE u == s \o e
           m == Len(s)
           k == Len(e)
<1>1. m \in Nat /\ k \in Nat /\ k # 0
  BY LenProperties, EmptySeq
<1>2. /\ u \in Seq(News) /\ Len(u) = m + k
      /\ \A i \in 1 .. m + k : u[i] = IF i <= m THEN s[i] ELSE e[i - m]
  BY ConcatProperties
<1>3. DOMAIN u = 1 .. m + k
  <2> HIDE DEF u
  <2> QED BY <1>2, LenProperties
<1>4. u[m + k] \in {"debug-stopped", "debug-reset"}
  <2> HIDE DEF u, m
  <2>1. m + k \in 1 .. m + k /\ ~(m + k <= m) /\ (m + k) - m = k
    BY <1>1
  <2> QED BY <1>2, <2>1
<1> HIDE DEF u, m, k
<1>5. \A n \in 1 .. m + k : ~Hush(u, n)
  <2> SUFFICES ASSUME NEW n \in 1 .. m + k, Hush(u, n) PROVE FALSE
    OBVIOUS
  <2>1. m + k \in n .. Len(u)
    BY <1>1, <1>2
  <2> QED BY <1>4, <2>1 DEF Hush
<1>6. 1 \in 1 .. m + k
  BY <1>1
<1> QED BY <1>3, <1>5, <1>6 DEF Will, u

\* What the page thinks when it has read one message.
LEMMA WillTail ==
    ASSUME NEW d, NEW d1, NEW s \in Seq(News), s # <<>>,
           d1 => (Head(s) = "debug-started" \/ (d /\ Head(s) = "execution-update"))
    PROVE  Will(d1, Tail(s)) => Will(d, s)
<1> DEFINE t == Tail(s)
           m == Len(s)
<1>1. /\ m \in Nat /\ m >= 1 /\ DOMAIN s = 1 .. m /\ Head(s) = s[1]
  <2>1. m \in Nat \ {0}
    BY EmptySeq, LenProperties
  <2> QED BY <2>1, LenProperties
<1>2. t \in Seq(News) /\ Len(t) = m - 1 /\ \A i \in 1 .. m - 1 : t[i] = s[i + 1]
  <2>1. t \in Seq(News) /\ Len(t) = m - 1 /\ \A i \in 1 .. Len(t) : t[i] = s[i + 1]
    BY HeadTailProperties
  <2> HIDE DEF t, m
  <2> QED BY <2>1
<1>3. DOMAIN t = 1 .. m - 1
  <2> HIDE DEF t
  <2> QED BY <1>2, LenProperties
<1> HIDE DEF t, m
<1>4. ASSUME NEW n \in Nat \ {0}, Hush(t, n) PROVE Hush(s, n + 1)
  <2> SUFFICES ASSUME NEW i \in n + 1 .. m PROVE s[i] \in {"debug-started", "execution-update"}
    BY DEF Hush, m
  <2>1. i - 1 \in n .. Len(t) /\ i - 1 \in 1 .. m - 1 /\ (i - 1) + 1 = i
    BY <1>1, <1>2
  <2>2. t[i - 1] = s[i]
    BY <1>2, <2>1
  <2> QED BY <1>4, <2>1, <2>2 DEF Hush
<1>5. ASSUME d1, Hush(t, 1) PROVE Will(d, s)
  <2>1. Hush(s, 1 + 1)
    BY <1>4, <1>5
  <2>2. s[1] \in {"debug-started", "execution-update"}
    BY <1>1, <1>5
  <2>3. Hush(s, 1)
    <3> SUFFICES ASSUME NEW i \in 1 .. m PROVE s[i] \in {"debug-started", "execution-update"}
      BY DEF Hush, m
    <3>1. i = 1 \/ i \in 1 + 1 .. Len(s)
      BY <1>1 DEF m
    <3> QED BY <2>1, <2>2, <3>1 DEF Hush
  <2>4. 1 \in DOMAIN s
    BY <1>1
  <2> QED BY <1>1, <1>5, <2>3, <2>4 DEF Will
<1>6. ASSUME NEW n \in DOMAIN t, t[n] = "debug-started", Hush(t, n) PROVE Will(d, s)
  <2>1. n \in 1 .. m - 1 /\ n \in Nat \ {0} /\ n + 1 \in 1 .. m
    BY <1>1, <1>3
  <2>2. s[n + 1] = "debug-started" /\ Hush(s, n + 1) /\ n + 1 \in DOMAIN s
    BY <1>1, <1>2, <1>4, <1>6, <2>1
  <2> QED BY <2>2 DEF Will
<1> QED BY <1>5, <1>6 DEF Will, t

-----------------------------------------------------------------------------
(***************************************************************************)
(* The events of the server, in common.                                    *)
(***************************************************************************)

LEMMA TurnReady ==
    ASSUME WebIInv, NEW c \in Conns
    PROVE  /\ Ready(c, conn, Turn(c)) /\ Turn(c).s = session[c] /\ Turn(c).spike = spike
           /\ Turn(c).sent = <<>>
<1>1. session[c] \in Sessions /\ spike \in [Spikes -> Processes] /\ <<>> \in Seq(News)
  BY DEF WebIInv, Typed
<1>2. Turn(c) \in Turns
  BY <1>1 DEF Turn, Turns
<1>3. Turn(c).s = session[c] /\ Turn(c).spike = spike /\ Turn(c).sent = <<>>
  BY DEF Turn
<1>4. Flags(session[c]) /\ Owns(session[c], spike, c) /\ \A q \in Spikes : Lives(spike[q], conn)
  BY DEF WebIInv, SessionsSound, ProcessesSound
<1> QED BY <1>2, <1>3, <1>4 DEF Ready

\* A sound turn of a connection there has been leaves sessions and processes sound.
LEMMA EndSound ==
    ASSUME WebIInv, NEW c \in Conns, c <= conn, NEW u, Ready(c, conn, u),
           OnlyOwn(c, spike, u.spike), EndTurn(c, u), conn' = conn
    PROVE  /\ session' \in [Conns -> Sessions] /\ spike' \in [Spikes -> Processes]
           /\ toPage' \in Seq(News) /\ SessionsSound' /\ ProcessesSound'
           /\ (~page.connected => toPage' = toPage)
           /\ \A d \in Conns : d > conn' => session'[d] = NewSession
<1>1. /\ u \in Turns /\ u.s \in Sessions /\ u.spike \in [Spikes -> Processes] /\ u.sent \in Seq(News)
      /\ Flags(u.s) /\ Owns(u.s, u.spike, c) /\ \A q \in Spikes : Lives(u.spike[q], conn)
  BY DEF Ready, Turns
<1>2. /\ session \in [Conns -> Sessions] /\ spike \in [Spikes -> Processes] /\ toPage \in Seq(News)
      /\ conn \in Conns
  BY DEF WebIInv, Typed
<1>3. /\ session' = [session EXCEPT ![c] = u.s] /\ spike' = u.spike
      /\ toPage' = IF c = conn /\ page.connected THEN toPage \o u.sent ELSE toPage
  BY DEF EndTurn
<1>4. session' \in [Conns -> Sessions] /\ spike' \in [Spikes -> Processes]
  BY <1>1, <1>2, <1>3
<1>5. toPage' \in Seq(News) /\ (~page.connected => toPage' = toPage)
  <2>1. toPage \o u.sent \in Seq(News)
    BY <1>1, <1>2, ConcatProperties
  <2> QED BY <1>2, <1>3, <2>1
<1>6. session'[c] = u.s /\ \A d \in Conns : d # c => session'[d] = session[d]
  BY <1>2, <1>3
<1>7. ASSUME NEW d \in Conns PROVE Flags(session'[d]) /\ Owns(session'[d], spike', d)
  <2>1. CASE d = c
    BY <1>1, <1>3, <1>6, <2>1
  <2>2. CASE d # c
    <3>1. Flags(session[d]) /\ Owns(session[d], spike, d) /\ session[d] \in Sessions
      BY <1>2 DEF WebIInv, SessionsSound
    <3> DEFINE p == session[d].spikeProcess
    <3>2. p \in Spikes \/ p = NoSpike
      BY <3>1 DEF Sessions
    <3>3. CASE p = NoSpike
      BY <1>6, <2>2, <3>1, <3>3 DEF Owns
    <3>4. CASE p # NoSpike
      <4>1. spike[p].owner = d /\ spike[p].status \in {"alive", "exiting"} /\ p \in Spikes
        BY <3>1, <3>2, <3>4 DEF Owns
      <4>2. u.spike[p] = spike[p]
        BY <2>2, <4>1 DEF OnlyOwn
      <4>3. Owns(session[d], u.spike, d)
        BY <4>1, <4>2 DEF Owns
      <4> QED BY <1>3, <1>6, <2>2, <3>1, <4>3
    <3> QED BY <3>3, <3>4
  <2> QED BY <2>1, <2>2
<1>8. SessionsSound'
  BY <1>7 DEF SessionsSound
<1>9. ProcessesSound'
  BY <1>1, <1>3 DEF ProcessesSound
<1>10. \A d \in Conns : d > conn' => session'[d] = NewSession
  <2>1. \A d \in Conns : d > conn => session[d] = NewSession
    BY DEF WebIInv, NotConnected
  <2>2. \A d \in Conns : d > conn => d # c
    BY <1>2 DEF Conns
  <2> QED BY <1>6, <2>1, <2>2
<1> QED BY <1>4, <1>5, <1>8, <1>9, <1>10

\* What the page offers still agrees with its session.
LEMMA AgreesAfter ==
    ASSUME WebIInv, NEW c \in Conns, NEW u \in Turns, EndTurn(c, u), page' = page, conn' = conn,
           \/ (Serving(session[c]) => Serving(u.s)) /\ u.sent \in Seq({"execution-update"})
           \/ u.sent # <<>> /\ u.sent[Len(u.sent)] \in {"debug-stopped", "debug-reset"}
           \/ Serving(u.s)
    PROVE  PageAgrees'
<1> SUFFICES ASSUME page.connected, WillDebug' PROVE Serving(session'[conn])
  BY DEF PageAgrees
<1>1. /\ session \in [Conns -> Sessions] /\ toPage \in Seq(News) /\ conn \in Conns
      /\ u.sent \in Seq(News)
  BY DEF WebIInv, Typed, Turns
<1>2. /\ session' = [session EXCEPT ![c] = u.s]
      /\ toPage' = IF c = conn /\ page.connected THEN toPage \o u.sent ELSE toPage
  BY DEF EndTurn
<1>3. WillDebug => Serving(session[conn])
  BY DEF WebIInv, PageAgrees
<1>4. Will(page.debugging, toPage')
  BY WillDebugIsWill
<1>5. Will(page.debugging, toPage) => Serving(session[conn])
  BY <1>3, WillDebugIsWill
<1>6. CASE c # conn
  <2>1. toPage' = toPage /\ session'[conn] = session[conn]
    BY <1>1, <1>2, <1>6
  <2> QED BY <1>4, <1>5, <2>1
<1>7. CASE c = conn
  <2>1. toPage' = toPage \o u.sent /\ session'[conn] = u.s
    BY <1>1, <1>2, <1>7
  <2>2. CASE (Serving(session[c]) => Serving(u.s)) /\ u.sent \in Seq({"execution-update"})
    <3>1. Will(page.debugging, toPage)
      BY <1>1, <1>4, <2>1, <2>2, WillMore
    <3> QED BY <1>5, <1>7, <2>1, <2>2, <3>1
  <2>3. CASE u.sent # <<>> /\ u.sent[Len(u.sent)] \in {"debug-stopped", "debug-reset"}
    <3>1. ~Will(page.debugging, toPage')
      BY <1>1, <2>1, <2>3, WillStop
    <3> QED BY <1>4, <3>1
  <2> QED BY <2>1, <2>2, <2>3
<1> QED BY <1>6, <1>7

\* Instructions under way to connection n, in processes, and on the socket.
Runs(sp, n, p) == p \in Spikes /\ sp[p].owner = n /\ sp[p].status \in {"alive", "exiting"}

Busy(sp, n, tp, ts) ==
    (\E p \in Spikes : Runs(sp, n, p) /\ Weight(sp[p]) > 0) \/ Lines(tp) + Lines(ts) > 0

Echoes(sp, n) == \E p \in Spikes : Runs(sp, n, p) /\ Answers(sp[p])

LEMMA UnderWayIsBusy ==
    /\ UnderWay <=> Busy(spike, conn, toPage, toServer)
    /\ UnderWay' <=> Busy(spike', conn', toPage', toServer')
BY DEF UnderWay, Busy, Of, Runs, Instructions, Weight

\* EchoFirst and NotStalled in these words: a wait for output has an answer coming,
\* a wait for the page an instruction.
Waits ==
    page.connected /\ ~excused[conn] =>
        /\ session[conn].waitingForOutput => Echoes(spike, conn)
        /\ session[conn].waitingForFrontend => Busy(spike, conn, toPage, toServer)

LEMMA AnswerWeighs ==
    ASSUME NEW x \in Processes, Answers(x)
    PROVE  Weight(x) > 0
<1>1. x.input \in Nat /\ Lines(x.out) \in Nat /\ x.out \in Seq(Items)
  BY WeightType DEF Processes
<1>2. CASE x.input > 0
  BY <1>1, <1>2 DEF Weight
<1>3. CASE \E i, j \in DOMAIN x.out : i < j /\ x.out[i] = "echo" /\ x.out[j] \in {"line", "stop"}
  <2>1. \E j \in DOMAIN x.out : x.out[j] \in {"line", "stop", "execution-update", "frontend-ready"}
    BY <1>3
  <2>2. Lines(x.out) > 0
    BY <1>1, <2>1, CountPositive DEF Lines
  <2> QED BY <1>1, <2>2 DEF Weight
<1> QED BY <1>2, <1>3 DEF Answers

LEMMA WaitsAre ==
    ASSUME Typed, SessionsSound
    PROVE  NotStalled /\ EchoFirst <=> Waits
<1>1. session[conn] \in Sessions /\ Flags(session[conn]) /\ spike \in [Spikes -> Processes]
  BY DEF Typed, SessionsSound
<1>2. UnderWay <=> Busy(spike, conn, toPage, toServer)
  BY UnderWayIsBusy
<1>3. (\E p \in Of(conn) : Answers(spike[p])) <=> Echoes(spike, conn)
  BY DEF Of, Echoes, Runs
<1>4. Echoes(spike, conn) => Busy(spike, conn, toPage, toServer)
  <2> SUFFICES ASSUME NEW p \in Spikes, Runs(spike, conn, p), Answers(spike[p])
               PROVE  Weight(spike[p]) > 0
    BY DEF Echoes, Busy
  <2> QED BY <1>1, AnswerWeighs
<1>5. session[conn].waitingForOutput \/ session[conn].waitingForFrontend => session[conn].isRunning
  BY <1>1 DEF Flags
<1> QED BY <1>2, <1>3, <1>4, <1>5, Zenon DEF NotStalled, EchoFirst, Waits

LEMMA WaitsAreNext ==
    ASSUME Typed', SessionsSound'
    PROVE  NotStalled' /\ EchoFirst' <=> Waits'
<1>1. session'[conn'] \in Sessions /\ Flags(session'[conn']) /\ spike' \in [Spikes -> Processes]
  BY DEF Typed, SessionsSound
<1>2. UnderWay' <=> Busy(spike', conn', toPage', toServer')
  BY UnderWayIsBusy
<1>3. (\E p \in Of(conn)' : Answers(spike'[p])) <=> Echoes(spike', conn')
  BY DEF Of, Echoes, Runs
<1>4. Echoes(spike', conn') => Busy(spike', conn', toPage', toServer')
  <2> SUFFICES ASSUME NEW p \in Spikes, Runs(spike', conn', p), Answers(spike'[p])
               PROVE  Weight(spike'[p]) > 0
    BY DEF Echoes, Busy
  <2> QED BY <1>1, AnswerWeighs
<1>5. session'[conn'].waitingForOutput \/ session'[conn'].waitingForFrontend => session'[conn'].isRunning
  BY <1>1 DEF Flags
<1> QED BY <1>2, <1>3, <1>4, <1>5, Zenon DEF NotStalled, EchoFirst, Waits

-----------------------------------------------------------------------------
(***************************************************************************)
(* What every step has to show.                                            *)
(***************************************************************************)

LEMMA Close ==
    ASSUME Typed', SessionsSound', ProcessesSound', RoomToStart', NotConnected', PageAgrees', Waits'
    PROVE  WebIInv'
BY WaitsAreNext DEF WebIInv

LEMMA HasWaits == WebIInv => Waits
BY WaitsAre DEF WebIInv

\* OnlyClicksAdd and LetGo, of one step.
Grows == Everything' > Everything => clicks' > clicks

Released ==
    \A p \in Spikes :
        Held(p) /\ ~Held(p)' /\ spike[p]'.status = "alive"
            => \E q \in Spikes \ {p} : /\ spike[q].owner = spike[p].owner
                                       /\ spike[q].status = "exiting"
                                       /\ spike[q]'.status = "dead"

LEMMA EverythingIs ==
    /\ Everything = Total(spike) + Lines(toPage) + Lines(toServer) + Requests(toServer)
    /\ Everything' = Total(spike') + Lines(toPage') + Lines(toServer') + Requests(toServer')
BY SumIsTotal DEF Everything

\* A step by which one process gains d, and the socket no more than it loses.
LEMMA GrowsNot ==
    ASSUME Typed, Typed', NEW p \in Spikes,
           \A q \in Spikes \ {p} : Weight(spike'[q]) = Weight(spike[q]),
           Weight(spike'[p]) + Lines(toPage') + Lines(toServer') + Requests(toServer')
                <= Weight(spike[p]) + Lines(toPage) + Lines(toServer) + Requests(toServer)
    PROVE  Grows
<1>1. /\ spike \in [Spikes -> Processes] /\ spike' \in [Spikes -> Processes]
      /\ toPage \in Seq(News) /\ toPage' \in Seq(News)
      /\ toServer \in Seq(Orders) /\ toServer' \in Seq(Orders)
  BY DEF Typed
<1> DEFINE t == Total(spike)
           t1 == Total(spike')
           w == Weight(spike[p])
           w1 == Weight(spike'[p])
           a == Lines(toPage) + Lines(toServer) + Requests(toServer)
           a1 == Lines(toPage') + Lines(toServer') + Requests(toServer')
<1>2. t \in Nat /\ t1 \in Nat /\ t1 = t + w1 - w
  BY <1>1, TotalMoves
<1>3. w \in Nat /\ w1 \in Nat
  BY <1>1, WeightType
<1>4. /\ Lines(toPage) \in Nat /\ Lines(toServer) \in Nat /\ Requests(toServer) \in Nat
      /\ Lines(toPage') \in Nat /\ Lines(toServer') \in Nat /\ Requests(toServer') \in Nat
  BY <1>1, LinesType
<1>5. Everything = t + a /\ Everything' = t1 + a1 /\ w1 + a1 <= w + a /\ a \in Nat /\ a1 \in Nat
  BY <1>2, <1>3, <1>4, EverythingIs
<1> HIDE DEF t, t1, w, w1, a, a1
<1>6. ~(Everything' > Everything)
  BY <1>2, <1>3, <1>5
<1> QED BY <1>6 DEF Grows

LEMMA OneSpike == 1 \in Spikes
BY WebAssumption DEF Spikes

\* The same when every process weighs what it did.
LEMMA GrowsNotAtAll ==
    ASSUME Typed, Typed', SameWeight(spike, spike'),
           Lines(toPage') + Lines(toServer') + Requests(toServer')
                <= Lines(toPage) + Lines(toServer) + Requests(toServer)
    PROVE  Grows
<1>1. /\ spike \in [Spikes -> Processes] /\ spike' \in [Spikes -> Processes]
      /\ toPage \in Seq(News) /\ toPage' \in Seq(News)
      /\ toServer \in Seq(Orders) /\ toServer' \in Seq(Orders)
  BY DEF Typed
<1>2. /\ Lines(toPage) \in Nat /\ Lines(toServer) \in Nat /\ Requests(toServer) \in Nat
      /\ Lines(toPage') \in Nat /\ Lines(toServer') \in Nat /\ Requests(toServer') \in Nat
  BY <1>1, LinesType
<1>3. Weight(spike'[1]) = Weight(spike[1]) /\ Weight(spike[1]) \in Nat
  BY <1>1, OneSpike, WeightType DEF SameWeight
<1>4. Weight(spike'[1]) + Lines(toPage') + Lines(toServer') + Requests(toServer')
        <= Weight(spike[1]) + Lines(toPage) + Lines(toServer) + Requests(toServer)
  BY <1>2, <1>3
<1>5. \A q \in Spikes \ {1} : Weight(spike'[q]) = Weight(spike[q])
  BY DEF SameWeight
<1> QED BY <1>4, <1>5, OneSpike, GrowsNot

\* A session that holds the process it held lets nothing go.
LEMMA NothingReleased ==
    ASSUME \A c \in Conns : session'[c].spikeProcess = session[c].spikeProcess
    PROVE  Released
BY DEF Released, Held

LEMMA TurnReleases ==
    ASSUME WebIInv, NEW c \in Conns, NEW u, EndTurn(c, u), Releases(Turn(c), u)
    PROVE  Released
<1> SUFFICES ASSUME NEW p \in Spikes, Held(p), ~Held(p)', spike'[p].status = "alive" PROVE FALSE
  BY DEF Released
<1>1. session' = [session EXCEPT ![c] = u.s] /\ spike' = u.spike /\ Turn(c).s = session[c]
      /\ session \in [Conns -> Sessions]
  BY TurnReady DEF EndTurn, WebIInv, Typed
<1>2. PICK d \in Conns : session[d].spikeProcess = p
  BY DEF Held
<1>3. session'[d].spikeProcess # p
  BY <1>2 DEF Held
<1>4. d = c
  BY <1>1, <1>2, <1>3
<1>5. u.s.spikeProcess # p
  BY <1>1, <1>3, <1>4
<1>6. Turn(c).s.spikeProcess = p /\ p # NoSpike /\ u.spike[p].status = "alive"
  BY <1>1, <1>2, <1>4, Separate
<1> QED BY <1>5, <1>6 DEF Releases

\* The start requests keep their room.
LEMMA RoomKept ==
    ASSUME WebIInv, SameNones(spike, spike'), toServer' \in Seq(Orders), Starts' <= Starts
    PROVE  RoomToStart'
<1>1. {p \in Spikes : spike'[p].status # "none"} = {p \in Spikes : spike[p].status # "none"}
  BY DEF SameNones
<1>2. Started' = Started
  BY <1>1 DEF Started
<1>3. IsFiniteSet({p \in Spikes : spike[p].status # "none"})
  BY SpikesFinite, FS_Subset
<1>4. Started \in Nat
  BY <1>3, FS_CardinalityType DEF Started
<1>5. Starts \in Nat /\ Starts' \in Nat
  BY CountType DEF Starts, WebIInv, Typed
<1>6. Started + Starts <= MaxSpikes /\ MaxSpikes \in Nat
  BY WebAssumption DEF WebIInv, RoomToStart
<1>7. Started' + Starts' <= MaxSpikes
  <2> DEFINE a == Started
             b == Starts
             a1 == Started'
             b1 == Starts'
  <2>1. a1 = a /\ a \in Nat /\ b \in Nat /\ b1 \in Nat /\ b1 <= b /\ a + b <= MaxSpikes
    BY <1>2, <1>4, <1>5, <1>6
  <2> HIDE DEF a, b, a1, b1
  <2>2. a1 + b1 <= MaxSpikes
    BY <1>6, <2>1
  <2> QED BY <2>2 DEF a1, b1
<1> QED BY <1>7 DEF RoomToStart

LEMMA StartsKept == toServer' = toServer => Starts' = Starts
BY DEF Starts

LEMMA StartsType == Typed => Starts \in Nat /\ Starts <= Starts
<1> SUFFICES ASSUME Typed PROVE Starts \in Nat /\ Starts <= Starts
  OBVIOUS
<1>1. Starts \in Nat
  BY CountType DEF Starts, Typed
<1> QED BY <1>1

-----------------------------------------------------------------------------
(***************************************************************************)
(* The steps of Spike.                                                     *)
(***************************************************************************)

\* What a command prints: its echo first, then at most one instruction.
LEMMA RunPrints ==
    ASSUME NEW o \in Seq(Items), NEW shown \in Shown
    PROVE  LET r == o \o <<"echo">> \o shown \o <<"prompt">>
           IN  /\ r \in Seq(Items)
               /\ Lines(r) = Lines(o) + (IF shown = <<>> THEN 0 ELSE 1)
               /\ shown # <<>> => \E i, j \in DOMAIN r :
                        i < j /\ r[i] = "echo" /\ r[j] \in {"line", "stop"}
<1> DEFINE a == Append(o, "echo")
           n == Len(o)
<1>0. n \in Nat /\ Lines(o) \in Nat
  BY LenProperties, LinesType
<1>1. "echo" \in Items /\ "prompt" \in Items /\ "line" \in Items /\ "stop" \in Items
  BY DEF Items
<1>2. /\ a \in Seq(Items) /\ a = o \o <<"echo">> /\ Lines(a) = Lines(o)
      /\ Len(a) = n + 1 /\ a[n + 1] = "echo"
  <2>1. a \in Seq(Items) /\ a = o \o <<"echo">> /\ Len(a) = n + 1 /\ a[n + 1] = "echo"
    BY <1>1, AppendProperties, AppendIsConcat
  <2>2. Lines(a) = Lines(o) + 0
    BY <1>1, LinesAppend
  <2> QED BY <1>0, <2>1, <2>2
<1> HIDE DEF a
<1>3. CASE shown = <<>>
  <2> DEFINE r == Append(a, "prompt")
  <2>1. r \in Seq(Items) /\ r = a \o <<"prompt">>
    BY <1>1, <1>2, AppendProperties, AppendIsConcat
  <2>2. Lines(r) = Lines(a) + 0
    BY <1>1, <1>2, LinesAppend
  <2>3. a \o shown = a
    BY <1>2, <1>3, ConcatEmptySeq
  <2> HIDE DEF r
  <2>4. o \o <<"echo">> \o shown \o <<"prompt">> = r
    BY <1>2, <2>1, <2>3
  <2>5. Lines(r) = Lines(o) + 0
    BY <1>0, <1>2, <2>2
  <2> QED BY <1>0, <1>3, <2>1, <2>4, <2>5
<1>4. ASSUME NEW x \in {"line", "stop"}, shown = <<x>>
      PROVE  LET r == o \o <<"echo">> \o shown \o <<"prompt">>
             IN  /\ r \in Seq(Items)
                 /\ Lines(r) = Lines(o) + 1
                 /\ \E i, j \in DOMAIN r : i < j /\ r[i] = "echo" /\ r[j] \in {"line", "stop"}
  <2> DEFINE b == Append(a, x)
             r == Append(b, "prompt")
  <2>1. x \in Items
    BY DEF Items
  <2>2. /\ b \in Seq(Items) /\ b = a \o <<x>> /\ Len(b) = n + 2
        /\ b[n + 2] = x /\ b[n + 1] = "echo"
    <3>1. /\ b \in Seq(Items) /\ b = a \o <<x>> /\ Len(b) = Len(a) + 1 /\ b[Len(a) + 1] = x
          /\ \A i \in 1 .. Len(a) : b[i] = a[i]
      BY <1>2, <2>1, AppendProperties, AppendIsConcat
    <3> HIDE DEF b
    <3>2. n + 1 \in 1 .. Len(a) /\ Len(a) + 1 = n + 2
      BY <1>0, <1>2
    <3> QED BY <1>2, <3>1, <3>2
  <2>3. Lines(b) = Lines(a) + 1
    BY <1>2, <2>1, LinesAppend
  <2> HIDE DEF b
  <2>4. /\ r \in Seq(Items) /\ r = b \o <<"prompt">> /\ Len(r) = n + 3
        /\ r[n + 2] = x /\ r[n + 1] = "echo"
    <3>1. /\ r \in Seq(Items) /\ r = b \o <<"prompt">> /\ Len(r) = Len(b) + 1
          /\ \A i \in 1 .. Len(b) : r[i] = b[i]
      BY <1>1, <2>2, AppendProperties, AppendIsConcat
    <3> HIDE DEF r
    <3>2. n + 1 \in 1 .. Len(b) /\ n + 2 \in 1 .. Len(b) /\ Len(b) + 1 = n + 3
      BY <1>0, <2>2
    <3> QED BY <2>2, <3>1, <3>2
  <2>5. Lines(r) = Lines(b) + 0
    <3>1. b \in Seq(Items) /\ "prompt" \in Items
      BY <1>1, <2>2
    <3> QED BY <3>1, LinesAppend
  <2> HIDE DEF r
  <2>6. o \o <<"echo">> \o shown \o <<"prompt">> = r
    BY <1>2, <1>4, <2>2, <2>4
  <2>7. Lines(r) = Lines(o) + 1
    BY <1>0, <1>2, <2>3, <2>5
  <2>8. DOMAIN r = 1 .. n + 3
    BY <2>4, LenProperties
  <2>9. n + 1 \in DOMAIN r /\ n + 2 \in DOMAIN r /\ n + 1 < n + 2
    BY <1>0, <2>8
  <2>10. \E i, j \in DOMAIN r : i < j /\ r[i] = "echo" /\ r[j] \in {"line", "stop"}
    BY <2>4, <2>9
  <2> QED BY <2>4, <2>6, <2>7, <2>10
<1>5. shown = <<>> \/ (\E x \in {"line", "stop"} : shown = <<x>>)
  BY DEF Shown
<1>6. \A x : <<x>> # <<>>
  OBVIOUS
<1>7. CASE shown # <<>>
  <2>1. PICK x \in {"line", "stop"} : shown = <<x>>
    BY <1>5, <1>7
  <2> QED BY <1>4, <1>7, <2>1
<1> QED BY <1>3, <1>7

LEMMA RunStep ==
    ASSUME WebIInv, NEW p \in Spikes, spike_runs(p)
    PROVE  WebIInv' /\ Grows /\ Released
<1>1. PICK shown \in Shown :
        /\ spike' = [spike EXCEPT ![p].input = @ - 1,
                                  ![p].out = @ \o <<"echo">> \o shown \o <<"prompt">>]
        /\ excused' = IF shown = <<>> THEN [excused EXCEPT ![spike[p].owner] = TRUE] ELSE excused
  BY DEF spike_runs
<1>2. /\ spike[p].status = "alive" /\ spike[p].input > 0
      /\ session' = session /\ page' = page /\ conn' = conn /\ toPage' = toPage
      /\ toServer' = toServer /\ clicks' = clicks
  BY DEF spike_runs
<1>3. Typed /\ SessionsSound /\ ProcessesSound /\ NotConnected /\ PageAgrees /\ Waits
  BY HasWaits DEF WebIInv
<1>4. spike \in [Spikes -> Processes] /\ excused \in [Conns -> BOOLEAN] /\ conn \in Conns
  BY <1>3 DEF Typed
<1> DEFINE x == spike[p]
           r == x.out \o <<"echo">> \o shown \o <<"prompt">>
           y == [x EXCEPT !.input = @ - 1, !.out = r]
<1>5. x \in Processes /\ x.input \in Nat /\ x.out \in Seq(Items) /\ x.owner \in 1 .. conn
  BY <1>2, <1>3, <1>4 DEF Processes, ProcessesSound, Lives
<1>6. /\ r \in Seq(Items) /\ Lines(r) = Lines(x.out) + (IF shown = <<>> THEN 0 ELSE 1)
      /\ shown # <<>> => \E i, j \in DOMAIN r : i < j /\ r[i] = "echo" /\ r[j] \in {"line", "stop"}
  BY <1>5, RunPrints
<1>7. spike' = [spike EXCEPT ![p] = y]
  BY <1>1, <1>4
<1> HIDE DEF r
<1>8. y \in Processes /\ y.owner = x.owner /\ y.status = "alive" /\ y.input = x.input - 1 /\ y.out = r
  <2>1. x.input - 1 \in Nat /\ r \in Seq(Items) /\ x \in Processes /\ x.status = "alive"
    BY <1>2, <1>5, <1>6
  <2> HIDE DEF x
  <2> QED BY <2>1 DEF Processes
<1> HIDE DEF y
<1>9. /\ spike' \in [Spikes -> Processes] /\ spike'[p] = y
      /\ \A q \in Spikes : q # p => spike'[q] = spike[q]
  BY <1>4, <1>7, <1>8
<1>10. excused' \in [Conns -> BOOLEAN]
  BY <1>1, <1>4
<1>11. Typed'
  BY <1>2, <1>3, <1>9, <1>10 DEF Typed
<1>12. Weight(y) <= Weight(x)
  <2>1. Lines(x.out) \in Nat
    BY <1>5, LinesType
  <2> QED BY <1>5, <1>6, <1>8, <2>1 DEF Weight
<1>13. \A q \in Spikes : spike'[q].owner = spike[q].owner /\ spike'[q].status = spike[q].status
  BY <1>2, <1>8, <1>9
<1>14. SessionsSound'
  <2> SUFFICES ASSUME NEW c \in Conns PROVE Flags(session[c]) /\ Owns(session[c], spike', c)
    BY <1>2 DEF SessionsSound
  <2>1. Flags(session[c]) /\ Owns(session[c], spike, c) /\ session[c] \in Sessions
    BY <1>3 DEF SessionsSound, Typed
  <2>2. session[c].spikeProcess # NoSpike => session[c].spikeProcess \in Spikes
    BY <2>1 DEF Sessions
  <2> QED BY <1>13, <2>1, <2>2 DEF Owns
<1>15. ProcessesSound'
  <2>1. Lives(y, conn)
    BY <1>5, <1>8 DEF Lives
  <2> QED BY <1>2, <1>3, <1>9, <2>1 DEF ProcessesSound
<1>16. RoomToStart'
  <2>1. SameNones(spike, spike')
    BY <1>13 DEF SameNones
  <2>2. Starts' <= Starts
    BY <1>2, <1>3, StartsKept, StartsType
  <2> QED BY <1>2, <1>3, <2>1, <2>2, RoomKept DEF Typed
<1>17. NotConnected' /\ PageAgrees'
  BY <1>2, <1>3 DEF NotConnected, PageAgrees, WillDebug
<1>18. Waits'
  <2> SUFFICES ASSUME page.connected, ~excused'[conn]
               PROVE  /\ session[conn].waitingForOutput => Echoes(spike', conn)
                      /\ session[conn].waitingForFrontend => Busy(spike', conn, toPage, toServer)
    BY <1>2 DEF Waits
  <2>1. x.owner \in Conns
    BY <1>4, <1>5, WebAssumption DEF Conns
  <2>2. ~excused[conn] /\ (x.owner = conn => shown # <<>>)
    BY <1>1, <1>4, <2>1
  <2>3. /\ session[conn].waitingForOutput => Echoes(spike, conn)
        /\ session[conn].waitingForFrontend => Busy(spike, conn, toPage, toServer)
    BY <1>3, <2>2 DEF Waits
  <2>4. CASE x.owner = conn
    <3>1. Answers(y)
      BY <1>6, <1>8, <2>2, <2>4 DEF Answers
    <3>2. Weight(y) > 0 /\ Runs(spike', conn, p)
      BY <1>8, <1>9, <2>4, <3>1, AnswerWeighs DEF Runs
    <3>3. Echoes(spike', conn) /\ Busy(spike', conn, toPage, toServer)
      BY <1>9, <3>1, <3>2 DEF Echoes, Busy
    <3> QED BY <3>3
  <2>5. CASE x.owner # conn
    <3>1. \A q \in Spikes : Runs(spike, conn, q) => Runs(spike', conn, q) /\ spike'[q] = spike[q]
      BY <1>9, <2>5 DEF Runs
    <3>2. Echoes(spike, conn) => Echoes(spike', conn)
      BY <3>1 DEF Echoes
    <3>3. Busy(spike, conn, toPage, toServer) => Busy(spike', conn, toPage, toServer)
      BY <3>1 DEF Busy
    <3> QED BY <2>3, <3>2, <3>3
  <2> QED BY <2>4, <2>5
<1>19. Grows
  <2>1. \A q \in Spikes \ {p} : Weight(spike'[q]) = Weight(spike[q])
    BY <1>9
  <2>2. /\ Lines(toPage) \in Nat /\ Lines(toServer) \in Nat /\ Requests(toServer) \in Nat
        /\ Weight(y) \in Nat /\ Weight(x) \in Nat
    BY <1>3, <1>5, <1>8, LinesType, WeightType DEF Typed
  <2>3. Weight(spike'[p]) + Lines(toPage') + Lines(toServer') + Requests(toServer')
            <= Weight(spike[p]) + Lines(toPage) + Lines(toServer) + Requests(toServer)
    BY <1>2, <1>9, <1>12, <2>2
  <2> QED BY <1>3, <1>11, <2>1, <2>3, GrowsNot
<1>20. Released
  BY <1>2, NothingReleased
<1> QED BY <1>11, <1>14, <1>15, <1>16, <1>17, <1>18, <1>19, <1>20, Close

LEMMA EndsStep ==
    ASSUME WebIInv, NEW p \in Spikes, spike_ends(p)
    PROVE  WebIInv' /\ Grows /\ Released
<1>1. /\ spike[p].status = "alive" /\ spike' = [spike EXCEPT ![p].status = "exiting"]
      /\ session' = session /\ page' = page /\ conn' = conn /\ toPage' = toPage
      /\ toServer' = toServer /\ clicks' = clicks /\ excused' = excused
  BY DEF spike_ends
<1>2. Typed /\ SessionsSound /\ ProcessesSound /\ NotConnected /\ PageAgrees /\ Waits
  BY HasWaits DEF WebIInv
<1>3. spike \in [Spikes -> Processes]
  BY <1>2 DEF Typed
<1> DEFINE x == spike[p]
           y == [x EXCEPT !.status = "exiting"]
<1>4. x \in Processes /\ spike' = [spike EXCEPT ![p] = y]
  BY <1>1, <1>3
<1>5. /\ y \in Processes /\ y.owner = x.owner /\ y.status = "exiting" /\ y.input = x.input
      /\ y.out = x.out
  BY <1>4 DEF Processes
<1> HIDE DEF y
<1>6. /\ spike' \in [Spikes -> Processes] /\ spike'[p] = y
      /\ \A q \in Spikes : q # p => spike'[q] = spike[q]
  BY <1>3, <1>4, <1>5
<1>7. Typed'
  BY <1>1, <1>2, <1>6 DEF Typed
<1>8. /\ SameWork(spike, spike') /\ SameNones(spike, spike')
      /\ \A q \in Spikes : /\ spike'[q].owner = spike[q].owner
                           /\ spike[q].status \in {"alive", "exiting"}
                                => spike'[q].status \in {"alive", "exiting"}
  BY <1>1, <1>5, <1>6 DEF SameWork, SameNones
<1>9. SessionsSound'
  <2> SUFFICES ASSUME NEW c \in Conns PROVE Flags(session[c]) /\ Owns(session[c], spike', c)
    BY <1>1 DEF SessionsSound
  <2>1. Flags(session[c]) /\ Owns(session[c], spike, c) /\ session[c] \in Sessions
    BY <1>2 DEF SessionsSound, Typed
  <2>2. session[c].spikeProcess # NoSpike => session[c].spikeProcess \in Spikes
    BY <2>1 DEF Sessions
  <2> QED BY <1>8, <2>1, <2>2 DEF Owns
<1>10. ProcessesSound'
  <2>1. Lives(y, conn)
    <3>1. Lives(x, conn)
      BY <1>2 DEF ProcessesSound
    <3> QED BY <1>1, <1>5, <3>1 DEF Lives
  <2> QED BY <1>1, <1>2, <1>6, <2>1 DEF ProcessesSound
<1>11. RoomToStart'
  <2>1. Starts' <= Starts
    BY <1>1, <1>2, StartsKept, StartsType
  <2> QED BY <1>1, <1>2, <1>8, <2>1, RoomKept DEF Typed
<1>12. NotConnected' /\ PageAgrees'
  BY <1>1, <1>2 DEF NotConnected, PageAgrees, WillDebug
<1>13. Waits'
  <2>1. \A q \in Spikes : /\ Runs(spike, conn, q) => Runs(spike', conn, q)
                          /\ Answers(spike[q]) => Answers(spike'[q])
                          /\ Weight(spike'[q]) = Weight(spike[q])
    BY <1>8 DEF Runs, Answers, Weight, SameWork
  <2>2. Echoes(spike, conn) => Echoes(spike', conn)
    BY <2>1 DEF Echoes
  <2>3. Busy(spike, conn, toPage, toServer) => Busy(spike', conn, toPage, toServer)
    BY <2>1 DEF Busy
  <2> QED BY <1>1, <1>2, <2>2, <2>3 DEF Waits
<1>14. Grows
  <2>1. SameWeight(spike, spike')
    BY <1>8 DEF SameWeight, SameWork, Weight
  <2>2. Lines(toPage) \in Nat /\ Lines(toServer) \in Nat /\ Requests(toServer) \in Nat
    BY <1>2, LinesType DEF Typed
  <2>3. Lines(toPage') + Lines(toServer') + Requests(toServer')
            <= Lines(toPage) + Lines(toServer) + Requests(toServer)
    BY <1>1, <2>2
  <2> QED BY <1>2, <1>7, <2>1, <2>3, GrowsNotAtAll
<1>15. Released
  BY <1>1, NothingReleased
<1> QED BY <1>7, <1>9, <1>10, <1>11, <1>12, <1>13, <1>14, <1>15, Close

-----------------------------------------------------------------------------
(***************************************************************************)
(* The events of the server.                                               *)
(***************************************************************************)

\* A turn of another connection is nothing to the page's.
LEMMA ElsewhereWaits ==
    ASSUME WebIInv, NEW c \in Conns, c # conn, NEW u, EndTurn(c, u), OnlyOwn(c, spike, u.spike),
           page' = page, conn' = conn, toServer' = toServer, excused[conn] => excused'[conn]
    PROVE  Waits'
<1>1. Waits /\ session \in [Conns -> Sessions] /\ conn \in Conns
  BY HasWaits DEF WebIInv, Typed
<1>2. session'[conn] = session[conn] /\ spike' = u.spike /\ toPage' = toPage
  BY <1>1 DEF EndTurn
<1>3. \A q \in Spikes : Runs(spike, conn, q) => Runs(spike', conn, q) /\ spike'[q] = spike[q]
  BY <1>2 DEF Runs, OnlyOwn
<1>4. Echoes(spike, conn) => Echoes(spike', conn)
  BY <1>3 DEF Echoes
<1>5. Busy(spike, conn, toPage, toServer) => Busy(spike', conn, toPage, toServer)
  BY <1>3 DEF Busy
<1> QED BY <1>1, <1>2, <1>4, <1>5 DEF Waits

\* A session that waits for nothing does not stall.
LEMMA QuietWaits ==
    ASSUME WebIInv, NEW u, EndTurn(conn, u), conn' = conn,
           ~u.s.waitingForOutput, ~u.s.waitingForFrontend
    PROVE  Waits'
<1>1. session'[conn] = u.s
  BY DEF EndTurn, WebIInv, Typed
<1> QED BY <1>1 DEF Waits

\* What the turn sends, if it reaches the page.
LEMMA EndLines ==
    ASSUME WebIInv, NEW c \in Conns, NEW u \in Turns, EndTurn(c, u)
    PROVE  /\ Lines(toPage) \in Nat /\ Lines(toPage') \in Nat /\ Lines(u.sent) \in Nat
           /\ Lines(toPage) <= Lines(toPage')
           /\ Lines(toPage') <= Lines(toPage) + Lines(u.sent)
           /\ c = conn /\ page.connected => Lines(toPage') = Lines(toPage) + Lines(u.sent)
<1>1. toPage \in Seq(News) /\ u.sent \in Seq(News)
  BY DEF WebIInv, Typed, Turns
<1>2. Lines(toPage) \in Nat /\ Lines(u.sent) \in Nat /\ Lines(toPage \o u.sent) = Lines(toPage) + Lines(u.sent)
  BY <1>1, LinesType, LinesConcat
<1>3. toPage' = IF c = conn /\ page.connected THEN toPage \o u.sent ELSE toPage
  BY DEF EndTurn
<1>4. CASE c = conn /\ page.connected
  BY <1>2, <1>3, <1>4
<1>5. CASE ~(c = conn /\ page.connected)
  BY <1>2, <1>3, <1>5
<1> QED BY <1>4, <1>5

\* The end of a sound turn of c that leaves the page and the messages to the server alone.
LEMMA EndCloses ==
    ASSUME WebIInv, NEW c \in Conns, c <= conn, NEW u, Ready(c, conn, u),
           OnlyOwn(c, spike, u.spike), SameNones(spike, u.spike), EndTurn(c, u),
           page' = page, conn' = conn, toServer' = toServer, clicks' = clicks,
           excused' \in [Conns -> BOOLEAN], PageAgrees', Waits'
    PROVE  WebIInv' /\ Typed'
<1>1. /\ session' \in [Conns -> Sessions] /\ spike' \in [Spikes -> Processes]
      /\ toPage' \in Seq(News) /\ SessionsSound' /\ ProcessesSound'
      /\ (~page.connected => toPage' = toPage)
      /\ \A d \in Conns : d > conn' => session'[d] = NewSession
  BY EndSound
<1>2. Typed /\ NotConnected
  BY DEF WebIInv
<1>3. Typed'
  BY <1>1, <1>2 DEF Typed
<1>4. NotConnected'
  BY <1>1, <1>2 DEF NotConnected
<1>5. RoomToStart'
  <2>1. Starts' <= Starts
    BY <1>2, StartsKept, StartsType
  <2>2. SameNones(spike, spike')
    BY DEF EndTurn
  <2> QED BY <1>2, <2>1, <2>2, RoomKept DEF Typed
<1> QED BY <1>1, <1>3, <1>4, <1>5, Close

LEMMA DataStep ==
    ASSUME WebIInv, NEW p \in Spikes, spike_data(p)
    PROVE  WebIInv' /\ Grows /\ Released
<1> DEFINE c == spike[p].owner
           x == spike[p]
<1>1. PICK n \in DOMAIN x.out : \E cut \in Cuts(x.out[n]) :
        LET h == SubSeq(x.out, 1, n - 1) \o cut[1]
            g == cut[2] \o SubSeq(x.out, n + 1, Len(x.out))
        IN  /\ EndTurn(c, handleSpikeOutput([Turn(c) EXCEPT !.spike[p].out = g], h))
            /\ excused' = [excused EXCEPT ![c] = \/ @
                                                 \/ Lost(x.out[n], cut)
                                                 \/ /\ ~session[c].isInitialized
                                                    /\ \E i \in DOMAIN h : IsInstruction(h[i])]
  BY DEF spike_data
<1>27. PICK cut \in Cuts(x.out[n]) :
        LET h == SubSeq(x.out, 1, n - 1) \o cut[1]
            g == cut[2] \o SubSeq(x.out, n + 1, Len(x.out))
        IN  /\ EndTurn(c, handleSpikeOutput([Turn(c) EXCEPT !.spike[p].out = g], h))
            /\ excused' = [excused EXCEPT ![c] = \/ @
                                                 \/ Lost(x.out[n], cut)
                                                 \/ /\ ~session[c].isInitialized
                                                    /\ \E i \in DOMAIN h : IsInstruction(h[i])]
  BY <1>1
<1>2. /\ x.status \in {"alive", "exiting"} /\ page' = page /\ conn' = conn /\ toServer' = toServer
      /\ clicks' = clicks
  BY DEF spike_data
<1>3. /\ Typed /\ ProcessesSound /\ Waits /\ spike \in [Spikes -> Processes] /\ conn \in Conns
      /\ session \in [Conns -> Sessions] /\ excused \in [Conns -> BOOLEAN]
      /\ toPage \in Seq(News) /\ toServer \in Seq(Orders)
  BY HasWaits DEF WebIInv, Typed
<1>4. x \in Processes /\ x.out \in Seq(Items) /\ c \in 1 .. conn /\ x.input \in Nat
  BY <1>2, <1>3 DEF Processes, ProcessesSound, Lives
<1>5. c \in Conns /\ c <= conn
  BY <1>3, <1>4, WebAssumption DEF Conns
<1> DEFINE chunk == SubSeq(x.out, 1, n - 1) \o cut[1]
           rest == cut[2] \o SubSeq(x.out, n + 1, Len(x.out))
           k == Len(chunk)
           y == [x EXCEPT !.out = rest]
           t == Turn(c)
           t0 == [t EXCEPT !.spike = [spike EXCEPT ![p] = y]]
           u == handleSpikeOutput(t0, chunk)
<1>6. CutDoes(x.out, Lost(x.out[n], cut), chunk, rest)
  <2> DEFINE o == x.out
  <2>1. o \in Seq(Items) /\ n \in DOMAIN o /\ cut \in Cuts(o[n])
    BY <1>1, <1>4, <1>27
  <2>2. chunk = SubSeq(o, 1, n - 1) \o cut[1] /\ rest = cut[2] \o SubSeq(o, n + 1, Len(o))
    OBVIOUS
  <2> HIDE DEF o, chunk, rest
  <2>3. CutDoes(o, Lost(o[n], cut), chunk, rest)
    BY <2>1, <2>2, CutEffect, Zenon
  <2> QED BY <2>3 DEF o
<1>28. /\ chunk \in Seq(Items) /\ rest \in Seq(Items)
       /\ Lines(chunk) \in Nat /\ Lines(rest) \in Nat /\ Lines(x.out) \in Nat
       /\ Lines(chunk) + Lines(rest) <= Lines(x.out)
  BY <1>6, Zenon DEF CutDoes
<1>8. DOMAIN chunk = 1 .. k /\ k \in Nat
  <2> HIDE DEF chunk
  <2> QED BY <1>28, LenProperties
<1> DEFINE lost == Lost(x.out[n], cut)
<1>9. Ready(c, conn, t) /\ t.s = session[c] /\ t.spike = spike /\ t.sent = <<>>
  BY <1>5, TurnReady
<1>10. t0 = [Turn(c) EXCEPT !.spike[p].out = rest]
  <2>1. t \in Turns
    BY <1>9 DEF Ready
  <2> QED BY <1>3, <1>4, <1>9, <2>1 DEF Turns
<1>11. EndTurn(c, u) /\ excused' = [excused EXCEPT ![c] = \/ @
                                                            \/ lost
                                                            \/ /\ ~session[c].isInitialized
                                                               /\ \E i \in DOMAIN chunk : IsInstruction(chunk[i])]
  BY <1>10, <1>27
<1> HIDE DEF chunk, rest, t, k, lost
<1>12. /\ y \in Processes /\ y.owner = c /\ y.status = x.status /\ y.input = x.input /\ y.out = rest
  BY <1>4, <1>28 DEF Processes
<1> DEFINE sp == [spike EXCEPT ![p] = y]
<1> HIDE DEF y
<1>13. sp \in [Spikes -> Processes] /\ sp[p] = y /\ \A q \in Spikes : q # p => sp[q] = spike[q]
  BY <1>3, <1>12
<1> HIDE DEF sp
<1>14. t0 \in Turns /\ t0.s = session[c] /\ t0.spike = sp /\ t0.sent = <<>> /\ Flags(t0.s)
  <2>1. t \in Turns /\ Flags(t.s)
    BY <1>9 DEF Ready
  <2>2. t0 = [t EXCEPT !.spike = sp]
    BY DEF sp
  <2> QED BY <1>9, <1>13, <2>1, <2>2 DEF Turns
<1> HIDE DEF t0
<1>15. ChunkDoes(t0, u, chunk, k)
  <2>1. ChunkDoes(t0, handleSpikeOutput(t0, chunk), chunk, Len(chunk))
    BY <1>28, <1>14, ChunkEffect
  <2> QED BY <2>1 DEF k
<1> HIDE DEF u
<1>16. /\ u \in Turns /\ u.spike = sp /\ Flags(u.s)
       /\ u.s = [session[c] EXCEPT !.isContinuousMode = u.s.isContinuousMode,
                                   !.waitingForOutput = u.s.waitingForOutput,
                                   !.waitingForFrontend = u.s.waitingForFrontend]
       /\ u.s.waitingForOutput => session[c].waitingForOutput
                                    /\ \A i \in 1 .. k : chunk[i] \notin {"prompt", "echo"}
       /\ u.s.waitingForFrontend => session[c].waitingForOutput \/ session[c].waitingForFrontend
       /\ u.sent \in Seq({"execution-update"}) /\ Lines(u.sent) <= Upto(chunk, k)
       /\ session[c].isInitialized /\ (\E i \in 1 .. k : chunk[i] \in {"line", "stop"})
            => Lines(u.sent) > 0
  BY <1>14, <1>15 DEF ChunkDoes
<1>17. u.s.spikeProcess = session[c].spikeProcess /\ (Serving(session[c]) => Serving(u.s))
  <2>1. session[c] \in Sessions
    BY <1>3, <1>5
  <2> QED BY <1>16, <2>1 DEF Sessions, Serving
<1>18. /\ OnlyOwn(c, spike, sp) /\ SameNones(spike, sp)
       /\ \A q \in Spikes : sp[q].owner = spike[q].owner /\ sp[q].status = spike[q].status
  BY <1>12, <1>13 DEF OnlyOwn, SameNones
<1>19. Ready(c, conn, u)
  <2>1. Owns(session[c], spike, c) /\ session[c] \in Sessions /\ \A q \in Spikes : Lives(spike[q], conn)
    BY <1>3, <1>5 DEF WebIInv, SessionsSound, ProcessesSound
  <2>2. session[c].spikeProcess # NoSpike => session[c].spikeProcess \in Spikes
    BY <2>1 DEF Sessions
  <2>3. Owns(u.s, sp, c)
    BY <1>17, <1>18, <2>1, <2>2 DEF Owns
  <2>4. Lives(y, conn)
    BY <1>2, <1>4, <1>12 DEF Lives
  <2>5. \A q \in Spikes : Lives(sp[q], conn)
    BY <1>13, <2>1, <2>4
  <2> QED BY <1>16, <2>3, <2>5 DEF Ready
<1>20. excused' \in [Conns -> BOOLEAN] /\ (excused[conn] => excused'[conn])
       /\ (excused'[c] <=> \/ excused[c] \/ lost
                            \/ /\ ~session[c].isInitialized
                               /\ \E i \in DOMAIN chunk : IsInstruction(chunk[i]))
  <2>1. lost \in BOOLEAN
    BY DEF lost, Lost
  <2> QED BY <1>3, <1>5, <1>11, <2>1
<1>21. PageAgrees'
  BY <1>2, <1>5, <1>11, <1>16, <1>17, AgreesAfter
<1>22. /\ Lines(toPage) \in Nat /\ Lines(toPage') \in Nat /\ Lines(u.sent) \in Nat
       /\ Lines(toPage) <= Lines(toPage') /\ Lines(toPage') <= Lines(toPage) + Lines(u.sent)
       /\ c = conn /\ page.connected => Lines(toPage') = Lines(toPage) + Lines(u.sent)
       /\ Lines(toServer) \in Nat /\ Requests(toServer) \in Nat
  BY <1>3, <1>5, <1>11, <1>16, EndLines, LinesType
<1>23. Waits'
  <2>1. CASE c # conn
    BY <1>2, <1>5, <1>11, <1>16, <1>18, <1>20, <2>1, ElsewhereWaits
  <2>2. CASE c = conn
    <3> SUFFICES ASSUME page.connected, ~excused'[conn]
                 PROVE  /\ u.s.waitingForOutput => Echoes(sp, conn)
                        /\ u.s.waitingForFrontend => Busy(sp, conn, toPage', toServer)
      <4>1. session'[conn] = u.s /\ spike' = sp
        BY <1>3, <1>11, <1>16, <2>2 DEF EndTurn
      <4> QED BY <1>2, <4>1 DEF Waits
    <3>1. ~excused[conn] /\ ~lost
      BY <1>20, <2>2
    <3>2. /\ session[c].waitingForOutput => Echoes(spike, conn)
          /\ session[c].waitingForFrontend => Busy(spike, conn, toPage, toServer)
      BY <1>3, <2>2, <3>1 DEF Waits
    <3>3. \A q \in Spikes : Runs(spike, conn, q) => Runs(sp, conn, q)
      BY <1>18 DEF Runs
    <3>4. u.s.waitingForOutput => Echoes(sp, conn)
      <4> SUFFICES ASSUME u.s.waitingForOutput PROVE Echoes(sp, conn)
        OBVIOUS
      <4>1. PICK q \in Spikes : Runs(spike, conn, q) /\ Answers(spike[q])
        BY <1>16, <3>2 DEF Echoes
      <4>2. CASE q # p
        BY <1>13, <3>3, <4>1, <4>2 DEF Echoes
      <4>3. CASE q = p /\ x.input > 0
        <5>1. Answers(y)
          BY <1>12, <4>3 DEF Answers
        <5> QED BY <1>13, <3>3, <4>1, <4>3, <5>1 DEF Echoes
      <4>4. CASE q = p /\ ~(x.input > 0)
        <5>1. \E i, j \in DOMAIN x.out : i < j /\ x.out[i] = "echo" /\ x.out[j] \in {"line", "stop"}
          BY <4>1, <4>4 DEF Answers
        <5>2. \A i \in DOMAIN chunk : chunk[i] # "echo"
          BY <1>8, <1>16
        <5>3. \E i, j \in DOMAIN rest : i < j /\ rest[i] = "echo" /\ rest[j] \in {"line", "stop"}
          BY <1>6, <3>1, <5>1, <5>2 DEF lost, CutDoes, EchoThenLine
        <5>6. Answers(y)
          BY <1>12, <5>3 DEF Answers
        <5> QED BY <1>13, <3>3, <4>1, <4>4, <5>6 DEF Echoes
      <4> QED BY <4>2, <4>3, <4>4
    <3>5. u.s.waitingForFrontend => Busy(sp, conn, toPage', toServer)
      <4> SUFFICES ASSUME u.s.waitingForFrontend PROVE Busy(sp, conn, toPage', toServer)
        OBVIOUS
      <4>1. Busy(spike, conn, toPage, toServer)
        <5>1. CASE session[c].waitingForFrontend
          BY <3>2, <5>1
        <5>2. CASE session[c].waitingForOutput
          <6>1. PICK q \in Spikes : Runs(spike, conn, q) /\ Answers(spike[q])
            BY <3>2, <5>2 DEF Echoes
          <6>2. Weight(spike[q]) > 0
            BY <1>3, <6>1, AnswerWeighs
          <6> QED BY <6>1, <6>2 DEF Busy
        <5> QED BY <1>16, <5>1, <5>2
      <4>2. CASE Lines(toPage) + Lines(toServer) > 0
        <5>1. Lines(toPage') + Lines(toServer) > 0
          BY <1>22, <4>2
        <5> QED BY <5>1 DEF Busy
      <4>3. CASE \E q \in Spikes : Runs(spike, conn, q) /\ Weight(spike[q]) > 0
        <5>1. PICK q \in Spikes : Runs(spike, conn, q) /\ Weight(spike[q]) > 0
          BY <4>3
        <5>2. CASE q # p
          BY <1>13, <3>3, <5>1, <5>2 DEF Busy
        <5>3. CASE q = p
          <6>1. Lines(chunk) \in Nat /\ Lines(rest) \in Nat
            BY <1>28, LinesType
          <6>2. CASE Weight(y) > 0
            BY <1>13, <3>3, <5>1, <5>3, <6>2 DEF Busy
          <6>3. CASE Lines(chunk) > 0
            <7>1. PICK i \in DOMAIN chunk :
                    chunk[i] \in {"line", "stop", "execution-update", "frontend-ready"}
              BY <1>28, <6>3, CountPositive DEF Lines
            <7>2. i \in 1 .. k /\ chunk[i] \in Items
              BY <1>28, <1>8, <7>1, LenProperties
            <7>3. chunk[i] \in {"line", "stop"}
              BY <7>1, <7>2 DEF Items
            <7>4. session[c].isInitialized
              BY <1>20, <2>2, <7>2, <7>3 DEF IsInstruction
            <7>5. Lines(u.sent) > 0
              BY <1>16, <7>2, <7>3, <7>4
            <7>6. Lines(toPage') + Lines(toServer) > 0
              BY <1>22, <2>2, <7>5
            <7> QED BY <7>6 DEF Busy
          <6>4. Weight(y) > 0 \/ Lines(chunk) > 0
            <7>1. Lines(chunk) + Lines(rest) = Lines(x.out)
              BY <1>6, <3>1 DEF lost, CutDoes
            <7> QED BY <1>4, <1>12, <5>1, <5>3, <6>1, <7>1 DEF Weight
          <6> QED BY <6>2, <6>3, <6>4
        <5> QED BY <5>2, <5>3
      <4> QED BY <4>1, <4>2, <4>3 DEF Busy
    <3> QED BY <3>4, <3>5
  <2> QED BY <2>1, <2>2
<1>24. WebIInv' /\ Typed'
  BY <1>2, <1>5, <1>11, <1>16, <1>18, <1>19, <1>20, <1>21, <1>23, EndCloses
<1>25. Grows
  <2>1. spike' = sp
    BY <1>11, <1>16 DEF EndTurn
  <2>2. \A q \in Spikes \ {p} : Weight(spike'[q]) = Weight(spike[q])
    BY <1>13, <2>1
  <2>3. Upto(chunk, k) = Lines(chunk)
    <3>1. \A i \in 1 .. k : chunk[i] \in Items
      BY <1>28, <1>8, LenProperties
    <3>2. {i \in 1 .. k : chunk[i] \in {"line", "stop"}}
            = {i \in DOMAIN chunk : chunk[i] \in {"line", "stop", "execution-update", "frontend-ready"}}
      BY <1>8, <3>1 DEF Items
    <3> QED BY <3>2 DEF Upto, Lines, Count
  <2>4. Lines(chunk) \in Nat /\ Lines(rest) \in Nat
    BY <1>28, LinesType
  <2>5. Lines(u.sent) <= Lines(chunk)
    BY <1>16, <2>3
  <2>6. Weight(spike'[p]) = x.input + Lines(rest) /\ Weight(spike[p]) >= x.input + Lines(chunk) + Lines(rest)
    <3>1. Weight(spike[p]) = x.input + Lines(x.out)
      BY DEF Weight
    <3>2. Weight(spike'[p]) = x.input + Lines(rest)
      BY <1>12, <1>13, <2>1 DEF Weight
    <3>3. Lines(chunk) + Lines(rest) <= Lines(x.out) /\ Lines(x.out) \in Nat
      BY <1>28
    <3> QED BY <1>4, <2>4, <3>1, <3>2, <3>3
  <2>7. Weight(spike'[p]) + Lines(toPage') + Lines(toServer') + Requests(toServer')
            <= Weight(spike[p]) + Lines(toPage) + Lines(toServer) + Requests(toServer)
    <3>1. Lines(toServer') = Lines(toServer) /\ Requests(toServer') = Requests(toServer)
      BY <1>2
    <3>2. Lines(toPage') <= Lines(toPage) + Lines(chunk)
      BY <1>22, <2>4, <2>5
    <3> DEFINE a == Lines(toPage)
               a1 == Lines(toPage')
               b == Lines(toServer)
               d == Requests(toServer)
               w == Weight(spike[p])
               w1 == Weight(spike'[p])
               e == Lines(chunk)
               l == Lines(rest)
               m == x.input
    <3>3. /\ a \in Nat /\ a1 \in Nat /\ b \in Nat /\ d \in Nat /\ e \in Nat /\ l \in Nat /\ m \in Nat
          /\ a1 <= a + e /\ w1 = m + l /\ w >= m + e + l /\ w \in Nat
      BY <1>3, <1>4, <1>22, <2>4, <2>6, <3>2, WeightType
    <3> HIDE DEF a, a1, b, d, w, w1, e, l, m
    <3>4. w1 + a1 + b + d <= w + a + b + d
      BY <3>3
    <3> QED BY <3>1, <3>4 DEF a, a1, b, d, w, w1
  <2> QED BY <1>3, <1>24, <2>2, <2>7, GrowsNot
<1>26. Released
  <2>1. Releases(Turn(c), u)
    BY <1>9, <1>17 DEF Releases, t
  <2> QED BY <1>5, <1>11, <2>1, TurnReleases
<1> QED BY <1>24, <1>25, <1>26

LEMMA ExitStep ==
    ASSUME WebIInv, NEW p \in Spikes, spike_exit(p)
    PROVE  WebIInv' /\ Grows /\ Released
<1> DEFINE c == spike[p].owner
           x == spike[p]
           y == [x EXCEPT !.status = "dead", !.input = 0, !.out = <<>>]
           sp == [spike EXCEPT ![p] = y]
           s == [StopContinuous(session[c]) EXCEPT !.isRunning = FALSE, !.spikeProcess = NoSpike]
           u == [s |-> s, spike |-> sp, sent |-> <<"debug-stopped">>]
<1>1. /\ x.status = "exiting" /\ page' = page /\ conn' = conn /\ toServer' = toServer
      /\ clicks' = clicks /\ excused' = excused
  BY DEF spike_exit
<1>2. /\ Typed /\ ProcessesSound /\ spike \in [Spikes -> Processes] /\ conn \in Conns
      /\ session \in [Conns -> Sessions] /\ excused \in [Conns -> BOOLEAN]
      /\ toPage \in Seq(News) /\ toServer \in Seq(Orders)
  BY DEF WebIInv, Typed
<1>3. x \in Processes /\ c \in 1 .. conn
  BY <1>1, <1>2 DEF ProcessesSound, Lives
<1>4. c \in Conns /\ c <= conn
  BY <1>2, <1>3, WebAssumption DEF Conns
<1>5. EndTurn(c, u)
  <2> DEFINE t == [Turn(c) EXCEPT !.spike[p] = [@ EXCEPT !.status = "dead", !.input = 0, !.out = <<>>]]
             v == [t EXCEPT !.s = [StopContinuous(@) EXCEPT !.isRunning = FALSE,
                                                            !.spikeProcess = NoSpike]]
  <2>1. EndTurn(c, emit(v, "debug-stopped"))
    BY DEF spike_exit
  <2>2. t = [s |-> session[c], spike |-> sp, sent |-> <<>>]
    BY DEF Turn
  <2>3. v = [s |-> s, spike |-> sp, sent |-> <<>>]
    <3>1. t.s = session[c]
      BY <2>2
    <3>2. v = [t EXCEPT !.s = s]
      <4> HIDE DEF t
      <4> QED BY <3>1
    <3> HIDE DEF t, s, sp
    <3> QED BY <2>2, <3>2
  <2>4. Append(<<>>, "debug-stopped") = <<"debug-stopped">>
    OBVIOUS
  <2> HIDE DEF s, sp, v
  <2>5. emit(v, "debug-stopped") = u
    BY <2>3, <2>4 DEF emit
  <2> QED BY <2>1, <2>5
<1>6. /\ y \in Processes /\ y.status = "dead" /\ y.input = 0 /\ y.out = <<>> /\ y.owner = c
  <2>1. <<>> \in Seq(Items)
    OBVIOUS
  <2> QED BY <1>3, <2>1 DEF Processes
<1>7. /\ s \in Sessions /\ s.spikeProcess = NoSpike /\ ~s.isRunning
      /\ ~s.waitingForOutput /\ ~s.waitingForFrontend
  <2>1. session[c] \in Sessions
    BY <1>2, <1>4
  <2> QED BY <2>1 DEF Sessions, StopContinuous
<1> HIDE DEF y, s
<1>8. sp \in [Spikes -> Processes] /\ sp[p] = y /\ \A q \in Spikes : q # p => sp[q] = spike[q]
  BY <1>2, <1>6
<1> HIDE DEF sp
<1>9. u \in Turns /\ u.s = s /\ u.spike = sp /\ u.sent = <<"debug-stopped">>
  <2>1. <<"debug-stopped">> \in Seq(News)
    BY DEF News
  <2> QED BY <1>7, <1>8, <2>1 DEF Turns
<1> HIDE DEF u
<1>10. Ready(c, conn, u)
  <2>1. Flags(s) /\ Owns(s, sp, c)
    BY <1>7 DEF Flags, Owns
  <2>2. Lives(y, conn)
    BY <1>6 DEF Lives
  <2>3. \A q \in Spikes : Lives(sp[q], conn)
    BY <1>2, <1>8, <2>2 DEF ProcessesSound
  <2> QED BY <1>9, <2>1, <2>3 DEF Ready
<1>11. OnlyOwn(c, spike, sp) /\ SameNones(spike, sp)
  BY <1>1, <1>6, <1>8 DEF OnlyOwn, SameNones
<1>12. PageAgrees'
  <2>1. u.sent # <<>> /\ u.sent[Len(u.sent)] = "debug-stopped"
    BY <1>9
  <2> QED BY <1>1, <1>4, <1>5, <1>9, <2>1, AgreesAfter
<1>13. Waits'
  <2>1. CASE c # conn
    BY <1>1, <1>4, <1>5, <1>9, <1>11, <2>1, ElsewhereWaits
  <2>2. CASE c = conn
    BY <1>1, <1>5, <1>7, <1>9, <2>2, QuietWaits
  <2> QED BY <2>1, <2>2
<1>14. WebIInv' /\ Typed'
  BY <1>1, <1>2, <1>4, <1>5, <1>9, <1>10, <1>11, <1>12, <1>13, EndCloses
<1>15. spike' = sp /\ session' = [session EXCEPT ![c] = s]
  BY <1>5, <1>9 DEF EndTurn
<1>16. Grows
  <2>1. \A q \in Spikes \ {p} : Weight(spike'[q]) = Weight(spike[q])
    BY <1>8, <1>15
  <2>2. Lines(<<"debug-stopped">>) = 0 /\ Lines(<<>>) = 0
    BY LinesFew
  <2>3. Weight(spike'[p]) = 0 /\ Weight(spike[p]) \in Nat
    BY <1>3, <1>6, <1>8, <1>15, <2>2, WeightType DEF Weight
  <2>4. Lines(toPage) \in Nat /\ Lines(toPage') \in Nat /\ Lines(toPage') <= Lines(toPage) + Lines(u.sent)
    BY <1>4, <1>5, <1>9, EndLines
  <2>5. Lines(toPage') <= Lines(toPage) /\ Lines(toServer) \in Nat /\ Requests(toServer) \in Nat
    BY <1>2, <1>9, <2>2, <2>4, LinesType
  <2>6. Weight(spike'[p]) + Lines(toPage') + Lines(toServer') + Requests(toServer')
            <= Weight(spike[p]) + Lines(toPage) + Lines(toServer) + Requests(toServer)
    BY <1>1, <2>3, <2>4, <2>5
  <2> QED BY <1>2, <1>14, <2>1, <2>6, GrowsNot
<1>17. Released
  <2> SUFFICES ASSUME NEW q \in Spikes, Held(q), ~Held(q)', spike'[q].status = "alive"
               PROVE  \E r \in Spikes \ {q} : /\ spike[r].owner = spike[q].owner
                                              /\ spike[r].status = "exiting"
                                              /\ spike'[r].status = "dead"
    BY DEF Released
  <2>1. PICK d \in Conns : session[d].spikeProcess = q
    BY DEF Held
  <2>2. d = c
    <3>1. session'[d].spikeProcess # q
      BY <2>1 DEF Held
    <3> QED BY <1>2, <1>15, <2>1, <3>1
  <2>3. spike[q].owner = c
    BY <1>4, <2>1, <2>2, Separate DEF WebIInv, SessionsSound, Owns
  <2>4. q # p /\ spike'[p].status = "dead"
    BY <1>6, <1>8, <1>15
  <2> QED BY <1>1, <2>3, <2>4
<1> QED BY <1>14, <1>16, <1>17

\* A turn that touches neither processes nor what the session waits for.
LEMMA SameWaits ==
    ASSUME WebIInv, NEW u \in Turns, EndTurn(conn, u), u.spike = spike,
           u.s.waitingForOutput = session[conn].waitingForOutput,
           u.s.waitingForFrontend = session[conn].waitingForFrontend,
           page' = page, conn' = conn, toServer' = toServer, excused' = excused
    PROVE  Waits'
<1>1. /\ Waits /\ conn \in Conns /\ session \in [Conns -> Sessions]
      /\ toPage \in Seq(News) /\ toServer \in Seq(Orders)
  BY HasWaits DEF WebIInv, Typed
<1>2. session'[conn] = u.s /\ spike' = spike
  BY <1>1 DEF EndTurn
<1>3. Lines(toPage) <= Lines(toPage') /\ Lines(toPage) \in Nat /\ Lines(toPage') \in Nat
      /\ Lines(toServer) \in Nat
  BY <1>1, EndLines, LinesType
<1>4. Lines(toPage) + Lines(toServer) > 0 => Lines(toPage') + Lines(toServer) > 0
  BY <1>3
<1>5. Busy(spike, conn, toPage, toServer) => Busy(spike, conn, toPage', toServer)
  BY <1>4 DEF Busy
<1> QED BY <1>1, <1>2, <1>5 DEF Waits

\* A session with a timer under way has been connected.
LEMMA TimerConnected ==
    ASSUME WebIInv, NEW c \in Conns, session[c].starting > 0 \/ session[c].announcing > 0
    PROVE  c <= conn
<1>1. ~(c > conn)
  BY DEF WebIInv, NotConnected, NewSession
<1>2. c \in Nat /\ conn \in Nat
  BY DEF WebIInv, Typed, Conns
<1> QED BY <1>1, <1>2

\* A turn of c that leaves the processes as they are, with news that counts nothing.
LEMMA TimerStep ==
    ASSUME WebIInv, NEW c \in Conns, c <= conn, NEW s \in Sessions, NEW e \in Seq(News),
           Flags(s), s.spikeProcess = session[c].spikeProcess,
           s.waitingForOutput = session[c].waitingForOutput,
           s.waitingForFrontend = session[c].waitingForFrontend,
           \/ (Serving(session[c]) => Serving(s)) /\ e = <<>>
           \/ Serving(s),
           Lines(e) = 0,
           EndTurn(c, [s |-> s, spike |-> spike, sent |-> e]),
           UNCHANGED <<page, conn, toServer, clicks, excused>>
    PROVE  WebIInv' /\ Grows /\ Released
<1> DEFINE u == [s |-> s, spike |-> spike, sent |-> e]
<1>1. Typed /\ spike \in [Spikes -> Processes] /\ conn \in Conns /\ toServer \in Seq(Orders)
      /\ excused' \in [Conns -> BOOLEAN]
  BY DEF WebIInv, Typed
<1>2. /\ EndTurn(c, u) /\ page' = page /\ conn' = conn /\ toServer' = toServer /\ clicks' = clicks
      /\ excused' = excused
  OBVIOUS
<1>3. u \in Turns /\ u.s = s /\ u.spike = spike /\ u.sent = e
  BY <1>1 DEF Turns
<1> HIDE DEF u
<1>4. Ready(c, conn, u)
  <2>1. Owns(session[c], spike, c) /\ \A q \in Spikes : Lives(spike[q], conn)
    BY DEF WebIInv, SessionsSound, ProcessesSound
  <2> QED BY <1>3, <2>1 DEF Ready, Owns
<1>5. OnlyOwn(c, spike, u.spike) /\ SameNones(spike, u.spike)
  BY <1>3 DEF OnlyOwn, SameNones
<1>6. <<>> \in Seq({"execution-update"})
  OBVIOUS
<1>7. PageAgrees'
  BY <1>2, <1>3, <1>6, AgreesAfter
<1>8. Waits'
  <2>1. CASE c # conn
    BY <1>2, <1>5, <2>1, ElsewhereWaits
  <2>2. CASE c = conn
    BY <1>2, <1>3, <2>2, SameWaits
  <2> QED BY <2>1, <2>2
<1>9. WebIInv' /\ Typed'
  BY <1>1, <1>2, <1>4, <1>5, <1>7, <1>8, EndCloses
<1>10. spike' = spike
  BY <1>2, <1>3 DEF EndTurn
<1>11. Grows
  <2>1. Lines(toPage) \in Nat /\ Lines(toPage') \in Nat /\ Lines(toPage') <= Lines(toPage) + Lines(u.sent)
    BY <1>2, <1>3, EndLines
  <2>2. Lines(toPage') <= Lines(toPage) /\ Lines(toServer) \in Nat /\ Requests(toServer) \in Nat
    BY <1>1, <1>3, <2>1, LinesType
  <2>3. Lines(toPage') + Lines(toServer') + Requests(toServer')
            <= Lines(toPage) + Lines(toServer) + Requests(toServer)
    BY <1>2, <2>1, <2>2
  <2>4. SameWeight(spike, spike')
    BY <1>10 DEF SameWeight
  <2> QED BY <1>1, <1>9, <2>3, <2>4, GrowsNotAtAll
<1>12. Released
  <2>1. Releases(Turn(c), u)
    BY <1>3, TurnReady DEF Releases
  <2> QED BY <1>2, <2>1, TurnReleases
<1> QED BY <1>9, <1>11, <1>12

LEMMA StartingStep ==
    ASSUME WebIInv, NEW c \in Conns, starting_timer(c)
    PROVE  WebIInv' /\ Grows /\ Released
<1> DEFINE s == [session[c] EXCEPT !.starting = @ - 1,
                                   !.announcing = IF session[c].isRunning THEN @ + 1 ELSE @]
           e == <<>>
<1>1. /\ session[c].starting > 0
      /\ session' = [session EXCEPT ![c].starting = @ - 1,
                                    ![c].announcing = IF session[c].isRunning THEN @ + 1 ELSE @]
      /\ UNCHANGED <<spike, page, conn, toPage, toServer, clicks, excused>>
  BY DEF starting_timer
<1>2. session \in [Conns -> Sessions] /\ session[c] \in Sessions /\ Flags(session[c]) /\ toPage \in Seq(News)
  BY DEF WebIInv, Typed, SessionsSound
<1>3. session' = [session EXCEPT ![c] = s]
  BY <1>1, <1>2
<1>4. /\ s \in Sessions /\ Flags(s) /\ s.spikeProcess = session[c].spikeProcess
      /\ s.waitingForOutput = session[c].waitingForOutput
      /\ s.waitingForFrontend = session[c].waitingForFrontend
      /\ (Serving(session[c]) => Serving(s))
  <2> DEFINE r == session[c]
  <2>1. r.starting - 1 \in Nat /\ r.announcing \in Nat /\ r.announcing + 1 \in Nat /\ r \in Sessions
        /\ Flags(r) /\ s = [r EXCEPT !.starting = @ - 1,
                                     !.announcing = IF r.isRunning THEN @ + 1 ELSE @]
    BY <1>1, <1>2 DEF Sessions
  <2> HIDE DEF r, s
  <2>2. /\ s \in Sessions /\ s.spikeProcess = r.spikeProcess /\ s.isRunning = r.isRunning
        /\ s.waitingForOutput = r.waitingForOutput /\ s.isContinuousMode = r.isContinuousMode
        /\ s.waitingForFrontend = r.waitingForFrontend /\ (Serving(r) => Serving(s))
    BY <2>1 DEF Sessions, Serving
  <2>3. Flags(s)
    BY <2>1, <2>2 DEF Flags
  <2> QED BY <2>2, <2>3 DEF r
<1> HIDE DEF s
<1>5. toPage \o e = toPage /\ e \in Seq(News) /\ Lines(e) = 0
  BY <1>2, ConcatEmptySeq, LinesFew
<1>6. EndTurn(c, [s |-> s, spike |-> spike, sent |-> e])
  <2> DEFINE u == [s |-> s, spike |-> spike, sent |-> e]
  <2>1. u.s = s /\ u.spike = spike /\ u.sent = e
    OBVIOUS
  <2> HIDE DEF u, e
  <2>2. EndTurn(c, u)
    BY <1>1, <1>3, <1>5, <2>1 DEF EndTurn
  <2> QED BY <2>2 DEF u
<1>7. c <= conn
  BY <1>1, TimerConnected
<1> QED BY <1>1, <1>4, <1>5, <1>6, <1>7, TimerStep

LEMMA AnnouncingStep ==
    ASSUME WebIInv, NEW c \in Conns, announcing_timer(c)
    PROVE  WebIInv' /\ Grows /\ Released
<1> DEFINE s == [session[c] EXCEPT !.announcing = @ - 1, !.isInitialized = TRUE,
                                   !.late = ~session[c].isRunning]
           e == <<"debug-started">>
<1>1. /\ session[c].announcing > 0
      /\ EndTurn(c, emit([Turn(c) EXCEPT !.s.announcing = @ - 1, !.s.isInitialized = TRUE,
                                           !.s.late = ~session[c].isRunning],
                         "debug-started"))
      /\ UNCHANGED <<page, conn, toServer, clicks, excused>>
  BY DEF announcing_timer
<1>2. session[c] \in Sessions /\ Flags(session[c])
  BY DEF WebIInv, Typed, SessionsSound
<1>3. emit([Turn(c) EXCEPT !.s.announcing = @ - 1, !.s.isInitialized = TRUE,
                          !.s.late = ~session[c].isRunning], "debug-started")
        = [s |-> s, spike |-> spike, sent |-> e]
  <2> DEFINE t == Turn(c)
             v == [Turn(c) EXCEPT !.s.announcing = @ - 1, !.s.isInitialized = TRUE,
                                  !.s.late = ~session[c].isRunning]
  <2>1. t = [s |-> session[c], spike |-> spike, sent |-> <<>>] /\ t.s = session[c]
    BY DEF Turn
  <2>2. v = [t EXCEPT !.s = s]
    <3> HIDE DEF t
    <3>1. v = [t EXCEPT !.s = [[[t.s EXCEPT !.announcing = @ - 1] EXCEPT !.isInitialized = TRUE]
                                    EXCEPT !.late = ~session[c].isRunning]]
      BY <2>1 DEF t
    <3> QED BY <2>1, <3>1
  <2> HIDE DEF t, v, s
  <2>3. v = [s |-> s, spike |-> spike, sent |-> <<>>]
    BY <2>1, <2>2
  <2>4. Append(<<>>, "debug-started") = e
    OBVIOUS
  <2> HIDE DEF e
  <2>5. emit(v, "debug-started") = [s |-> s, spike |-> spike, sent |-> e]
    BY <2>3, <2>4 DEF emit
  <2> QED BY <2>5 DEF v
<1>4. /\ s \in Sessions /\ Flags(s) /\ s.spikeProcess = session[c].spikeProcess
      /\ s.waitingForOutput = session[c].waitingForOutput
      /\ s.waitingForFrontend = session[c].waitingForFrontend /\ Serving(s)
  <2>1. session[c].announcing - 1 \in Nat
    BY <1>1, <1>2 DEF Sessions
  <2> QED BY <1>2, <2>1 DEF Sessions, Flags, Serving
<1> HIDE DEF s
<1>5. e \in Seq(News) /\ Lines(e) = 0
  BY LinesFew DEF News
<1>6. EndTurn(c, [s |-> s, spike |-> spike, sent |-> e])
  BY <1>1, <1>3
<1>7. c <= conn
  BY <1>1, TimerConnected
<1> QED BY <1>1, <1>4, <1>5, <1>6, <1>7, TimerStep

LEMMA CleanupStep ==
    ASSUME WebIInv, NEW c \in Conns, server_disconnect(c)
    PROVE  WebIInv' /\ Grows /\ Released
<1> DEFINE t == Turn(c)
           v == stopDebug(t)
           s == [v.s EXCEPT !.gone = TRUE]
           u == [v EXCEPT !.s = s]
<1>1. /\ c < conn \/ c = conn
      /\ EndTurn(c, [stopDebug(Turn(c)) EXCEPT !.s.gone = TRUE])
      /\ page' = page /\ conn' = conn /\ toServer' = toServer /\ clicks' = clicks
      /\ excused' = excused
  BY DEF server_disconnect
<1>2. /\ Typed /\ spike \in [Spikes -> Processes] /\ conn \in Conns /\ toServer \in Seq(Orders)
      /\ excused' \in [Conns -> BOOLEAN]
  BY <1>1 DEF WebIInv, Typed
<1>3. c <= conn
  BY <1>1, <1>2 DEF Conns
<1>4. Ready(c, conn, t) /\ t.s = session[c] /\ t.spike = spike /\ t.sent = <<>>
  BY TurnReady
<1> HIDE DEF t
<1>5. /\ Does(c, conn, t, v) /\ SameNones(t.spike, v.spike) /\ SameWork(t.spike, v.spike)
      /\ v.s.spikeProcess = NoSpike /\ ~v.s.waitingForOutput /\ ~v.s.waitingForFrontend
      /\ v.sent = Append(t.sent, "debug-stopped")
  BY <1>2, <1>4, StopDebugEffect
<1>6. EndTurn(c, u)
  <2>1. v \in Turns
    BY <1>5 DEF Does, Ready
  <2>2. u = [v EXCEPT !.s.gone = TRUE]
    <3> HIDE DEF v
    <3> QED BY <2>1 DEF Turns
  <2> QED BY <1>1, <2>2 DEF t
<1> HIDE DEF v
<1>7. /\ s \in Sessions /\ Flags(s) /\ s.spikeProcess = v.s.spikeProcess
      /\ ~s.waitingForOutput /\ ~s.waitingForFrontend
  <2>1. v.s \in Sessions /\ Flags(v.s)
    BY <1>5 DEF Does, Ready, Turns
  <2> QED BY <1>5, <2>1 DEF Sessions, Flags
<1> HIDE DEF s
<1>8. Ready(c, conn, u) /\ u.s = s /\ u.spike = v.spike /\ u.sent = v.sent
  BY <1>2, <1>5, <1>7, FlagsSet DEF Does
<1> HIDE DEF u
<1>9. OnlyOwn(c, spike, u.spike) /\ SameNones(spike, u.spike) /\ SameWork(spike, u.spike)
  BY <1>4, <1>5, <1>8 DEF Does
<1>10. u.sent = <<"debug-stopped">> /\ u \in Turns
  BY <1>4, <1>5, <1>8 DEF Ready
<1>11. PageAgrees'
  <2>1. u.sent # <<>> /\ u.sent[Len(u.sent)] = "debug-stopped"
    BY <1>10
  <2> QED BY <1>1, <1>6, <1>10, <2>1, AgreesAfter
<1>12. Waits'
  <2>1. CASE c # conn
    BY <1>1, <1>6, <1>9, <2>1, ElsewhereWaits
  <2>2. CASE c = conn
    BY <1>1, <1>6, <1>7, <1>8, <2>2, QuietWaits
  <2> QED BY <2>1, <2>2
<1>13. WebIInv' /\ Typed'
  BY <1>1, <1>2, <1>3, <1>6, <1>8, <1>9, <1>11, <1>12, EndCloses
<1>14. Grows
  <2>1. SameWeight(spike, spike')
    BY <1>6, <1>9 DEF EndTurn, SameWeight, SameWork, Weight
  <2>2. Lines(toPage) \in Nat /\ Lines(toPage') \in Nat /\ Lines(toPage') <= Lines(toPage) + Lines(u.sent)
    BY <1>6, <1>10, EndLines
  <2>3. Lines(toPage') <= Lines(toPage) /\ Lines(toServer) \in Nat /\ Requests(toServer) \in Nat
    BY <1>2, <1>10, <2>2, LinesFew, LinesType
  <2>4. Lines(toPage') + Lines(toServer') + Requests(toServer')
            <= Lines(toPage) + Lines(toServer) + Requests(toServer)
    BY <1>1, <2>2, <2>3
  <2> QED BY <1>2, <1>13, <2>1, <2>4, GrowsNotAtAll
<1>15. Released
  <2>1. Releases(Turn(c), u)
    BY <1>5, <1>7, <1>8 DEF Does, Releases, t
  <2> QED BY <1>6, <2>1, TurnReleases
<1> QED BY <1>13, <1>14, <1>15

\* A start request under way finds a process that has not been started.
LEMMA RoomForStart ==
    ASSUME WebIInv, toServer # <<>>, Head(toServer) = "start-debug"
    PROVE  \E p \in Spikes : spike[p].status = "none"
<1> DEFINE B == {p \in Spikes : spike[p].status # "none"}
<1> SUFFICES ASSUME \A p \in Spikes : spike[p].status # "none" PROVE FALSE
  OBVIOUS
<1>1. B = Spikes
  OBVIOUS
<1>2. Cardinality(Spikes) = MaxSpikes /\ MaxSpikes \in Nat
  BY WebAssumption, FS_Interval DEF Spikes
<1>3. Started = MaxSpikes
  BY <1>1, <1>2 DEF Started
<1>4. Starts \in Nat /\ Starts > 0
  <2>1. toServer \in Seq(Orders)
    BY DEF WebIInv, Typed
  <2>2. Count(toServer, {"start-debug"}) = (IF Head(toServer) \in {"start-debug"} THEN 1 ELSE 0)
            + Count(Tail(toServer), {"start-debug"})
    BY <2>1, CountTail
  <2>3. Tail(toServer) \in Seq(Orders)
    BY <2>1, HeadThenTail
  <2>4. Count(Tail(toServer), {"start-debug"}) \in Nat
    BY <2>3, CountType
  <2> QED BY <2>2, <2>4 DEF Starts
<1> QED BY <1>2, <1>3, <1>4 DEF WebIInv, RoomToStart

LEMMA HandledServes ==
    ASSUME WebIInv, toServer # <<>>, NEW u \in Handled(Turn(conn), Head(toServer), conn)
    PROVE  Serves(conn, conn, Turn(conn), u, Head(toServer))
<1> DEFINE t == Turn(conn)
           m == Head(toServer)
<1>1. conn \in Conns /\ conn <= conn /\ m \in Orders
  <2>1. conn \in Conns /\ toServer \in Seq(Orders)
    BY DEF WebIInv, Typed
  <2> QED BY <2>1, HeadThenTail DEF Conns
<1>2. Ready(conn, conn, t) /\ t.spike = spike /\ t.sent = <<>>
  BY <1>1, TurnReady
<1>3. u \in Handled(t, m, conn)
  OBVIOUS
<1>4. m = "start-debug" => \E p \in Spikes : spike[p].status = "none"
  BY RoomForStart
<1> HIDE DEF t, m
<1>5. CASE m = "continue-debug"
  <2>1. u = continueDebug(t)
    BY <1>3, <1>5 DEF Handled
  <2> QED BY <1>1, <1>2, <1>5, <2>1, ContinueServes DEF t, m
<1>6. CASE m = "step-debug"
  <2>1. u = stepDebug(t)
    BY <1>3, <1>6 DEF Handled
  <2> QED BY <1>1, <1>2, <1>6, <2>1, StepServes DEF t, m
<1>7. CASE m = "pause-debug"
  <2>1. u = pauseDebug(t)
    BY <1>3, <1>7 DEF Handled
  <2> QED BY <1>1, <1>2, <1>7, <2>1, PauseServes DEF t, m
<1>8. CASE m = "reset-debug"
  <2>1. u = resetDebug(t)
    BY <1>3, <1>8 DEF Handled
  <2> QED BY <1>1, <1>2, <1>8, <2>1, ResetServes DEF t, m
<1>9. CASE m = "frontend-ready"
  <2>1. u = onFrontendReady(t)
    BY <1>3, <1>9 DEF Handled
  <2> QED BY <1>1, <1>2, <1>9, <2>1, FrontendServes DEF t, m
<1>10. CASE m = "start-debug"
  <2> DEFINE p == CHOOSE p \in Spikes : spike[p].status = "none"
  <2>1. p \in Spikes /\ spike[p].status = "none"
    BY <1>4, <1>10
  <2>2. Handled(t, m, conn) = {startDebug(t, conn, p, found) : found \in BOOLEAN}
    BY <1>10 DEF Handled
  <2> HIDE DEF p
  <2>3. PICK found \in BOOLEAN : u = startDebug(t, conn, p, found)
    BY <1>3, <2>2
  <2> QED BY <1>1, <1>2, <1>10, <2>1, <2>3, StartServes DEF t, m
<1> QED BY <1>1, <1>5, <1>6, <1>7, <1>8, <1>9, <1>10 DEF Orders

\* The process that is asked for an instruction answers.
LEMMA AskedEffect ==
    ASSUME NEW c \in Conns, NEW n \in Conns, NEW t, Ready(c, n, t), NEW u, Asked(t, u)
    PROVE  LET p == t.s.spikeProcess
           IN  /\ p \in Spikes /\ Runs(u.spike, c, p) /\ Answers(u.spike[p])
               /\ Weight(u.spike[p]) = Weight(t.spike[p]) + 1 /\ Weight(t.spike[p]) \in Nat
               /\ \A q \in Spikes : q # p => u.spike[q] = t.spike[q]
               /\ \A q \in Spikes : Runs(t.spike, c, q) => Runs(u.spike, c, q)
<1> DEFINE p == t.s.spikeProcess
           x == t.spike[p]
           y == [x EXCEPT !.input = @ + 1]
<1>1. /\ p \in Spikes /\ t.spike \in [Spikes -> Processes] /\ Owns(t.s, t.spike, c)
      /\ u.spike = [t.spike EXCEPT ![p] = y]
  BY DEF Ready, Turns, Asked
<1>2. x.owner = c /\ x.status \in {"alive", "exiting"} /\ x \in Processes
  BY <1>1, Separate DEF Owns
<1>3. x.input \in Nat /\ Lines(x.out) \in Nat /\ Weight(x) \in Nat
  BY <1>2, WeightType
<1> HIDE DEF x
<1>4. y.owner = c /\ y.status = x.status /\ y.input = x.input + 1 /\ y.out = x.out
  BY <1>2 DEF Processes
<1> HIDE DEF y, p
<1>5. u.spike[p] = y /\ \A q \in Spikes : q # p => u.spike[q] = t.spike[q]
  BY <1>1
<1>6. Answers(y)
  BY <1>3, <1>4 DEF Answers
<1>7. Weight(y) = Weight(x) + 1
  BY <1>3, <1>4 DEF Weight
<1>8. Runs(u.spike, c, p) /\ \A q \in Spikes : Runs(t.spike, c, q) => Runs(u.spike, c, q)
  BY <1>1, <1>2, <1>4, <1>5 DEF Runs
<1> QED BY <1>1, <1>3, <1>5, <1>6, <1>7, <1>8 DEF p, x

LEMMA ReceiveStep ==
    ASSUME WebIInv, server_receives
    PROVE  WebIInv' /\ Grows /\ Released
<1> DEFINE t == Turn(conn)
           m == Head(toServer)
           p == session[conn].spikeProcess
<1>1. PICK u \in Handled(Turn(conn), Head(toServer), conn) : EndTurn(conn, u)
  BY DEF server_receives
<1>2. /\ toServer # <<>> /\ toServer' = Tail(toServer) /\ page' = page /\ conn' = conn
      /\ clicks' = clicks /\ excused' = excused
  BY DEF server_receives
<1>3. /\ Typed /\ Waits /\ NotConnected /\ conn \in Conns /\ toServer \in Seq(Orders)
      /\ toPage \in Seq(News) /\ session \in [Conns -> Sessions] /\ spike \in [Spikes -> Processes]
  BY HasWaits DEF WebIInv, Typed
<1>4. Serves(conn, conn, t, u, m)
  BY <1>2, HandledServes
<1>5. Ready(conn, conn, t) /\ t.s = session[conn] /\ t.spike = spike /\ t.sent = <<>>
  BY <1>3, TurnReady
<1>6. page.connected
  BY <1>2, <1>3 DEF NotConnected
<1> HIDE DEF t
<1>7. /\ Does(conn, conn, t, u) /\ Ready(conn, conn, u) /\ OnlyOwn(conn, spike, u.spike) /\ u \in Turns
      /\ Tells(t, u) /\ Lines(u.sent) = 0
  BY <1>4, <1>5 DEF Serves, Does, Ready
<1>8. conn <= conn
  BY <1>3 DEF Conns
<1>9. /\ session' \in [Conns -> Sessions] /\ spike' \in [Spikes -> Processes]
      /\ toPage' \in Seq(News) /\ SessionsSound' /\ ProcessesSound'
      /\ \A d \in Conns : d > conn' => session'[d] = NewSession
  BY <1>1, <1>2, <1>3, <1>7, <1>8, EndSound
<1>10. session'[conn] = u.s /\ spike' = u.spike
  BY <1>1, <1>3 DEF EndTurn
<1>11. /\ toServer' \in Seq(Orders) /\ m \in Orders
       /\ Lines(toServer) = (IF m = "frontend-ready" THEN 1 ELSE 0) + Lines(toServer')
       /\ Requests(toServer) = (IF m \in {"step-debug", "continue-debug"} THEN 1 ELSE 0)
                               + Requests(toServer')
       /\ Starts = (IF m = "start-debug" THEN 1 ELSE 0) + Starts'
  <2>1. /\ Tail(toServer) \in Seq(Orders) /\ m \in Orders
        /\ Lines(toServer) = (IF m \in {"line", "stop", "execution-update", "frontend-ready"}
                              THEN 1 ELSE 0) + Lines(Tail(toServer))
        /\ Requests(toServer) = (IF m \in {"step-debug", "continue-debug"} THEN 1 ELSE 0)
                                + Requests(Tail(toServer))
    BY <1>2, <1>3, LinesTail
  <2>2. Count(toServer, {"start-debug"}) = (IF m \in {"start-debug"} THEN 1 ELSE 0)
                                           + Count(Tail(toServer), {"start-debug"})
    BY <1>2, <1>3, CountTail
  <2>3. m \in {"line", "stop", "execution-update", "frontend-ready"} <=> m = "frontend-ready"
    BY <2>1 DEF Orders
  <2>4. m \in {"start-debug"} <=> m = "start-debug"
    OBVIOUS
  <2> QED BY <1>2, <2>1, <2>2, <2>3, <2>4 DEF Starts
<1> HIDE DEF m
<1>12. Typed'
  BY <1>2, <1>3, <1>9, <1>11 DEF Typed
<1>13. NotConnected'
  BY <1>2, <1>6, <1>9 DEF NotConnected
<1>14. RoomToStart'
  <2>1. Starts \in Nat /\ Starts' \in Nat
    BY <1>3, <1>11, CountType DEF Starts
  <2>2. CASE SameNones(t.spike, u.spike)
    <3> DEFINE a == Starts
               b == Starts'
    <3>0. a \in Nat /\ b \in Nat /\ a = (IF m = "start-debug" THEN 1 ELSE 0) + b
      BY <1>11, <2>1
    <3> HIDE DEF a, b
    <3>1. b <= a
      BY <3>0
    <3>2. SameNones(spike, spike')
      BY <1>5, <1>10, <2>2
    <3> QED BY <1>11, <3>1, <3>2, RoomKept DEF a, b
  <2>3. CASE m = "start-debug" /\ StartsOne(t.spike, u.spike)
    <3> DEFINE B == {q \in Spikes : spike[q].status # "none"}
               C == {q \in Spikes : spike'[q].status # "none"}
    <3>1. PICK r \in Spikes : /\ spike[r].status = "none"
                              /\ \A q \in Spikes \ {r} : spike'[q].status = "none" <=> spike[q].status = "none"
      BY <1>5, <1>10, <2>3 DEF StartsOne
    <3>2. C \in SUBSET (B \cup {r}) /\ r \notin B
      BY <3>1
    <3>3. IsFiniteSet(B)
      BY SpikesFinite, FS_Subset
    <3>4. Started = Cardinality(B) /\ Started' = Cardinality(C)
      BY DEF Started
    <3> HIDE DEF B, C
    <3>5. /\ IsFiniteSet(B \cup {r}) /\ Cardinality(B \cup {r}) = Cardinality(B) + 1
          /\ Cardinality(B) \in Nat
      BY <3>2, <3>3, FS_AddElement, FS_CardinalityType
    <3>6. IsFiniteSet(C) /\ Cardinality(C) <= Cardinality(B) + 1
      BY <3>2, <3>5, FS_Subset
    <3>7. Cardinality(C) \in Nat
      BY <3>6, FS_CardinalityType
    <3>8. Started + Starts <= MaxSpikes /\ MaxSpikes \in Nat
      BY WebAssumption DEF WebIInv, RoomToStart
    <3> DEFINE k == Cardinality(B)
               l == Cardinality(C)
               a == Starts
               b == Starts'
    <3>9. k \in Nat /\ l \in Nat /\ l <= k + 1 /\ a = 1 + b /\ b \in Nat /\ k + a <= MaxSpikes
      BY <1>11, <2>1, <2>3, <3>4, <3>5, <3>6, <3>7, <3>8
    <3> HIDE DEF k, l, a, b
    <3>10. l + b <= MaxSpikes
      BY <3>8, <3>9
    <3>11. Started' + Starts' <= MaxSpikes
      BY <3>4, <3>10 DEF l, b
    <3> QED BY <3>11 DEF RoomToStart
  <2> QED BY <1>4, <2>2, <2>3 DEF Serves
<1>15. PageAgrees'
  <2>1. <<>> \in Seq({"execution-update"})
    OBVIOUS
  <2> QED BY <1>1, <1>2, <1>3, <1>5, <1>7, <2>1, AgreesAfter DEF Tells
<1>16. /\ Lines(toPage) \in Nat /\ Lines(toPage') \in Nat /\ Lines(toPage') = Lines(toPage)
       /\ Lines(toServer) \in Nat /\ Lines(toServer') \in Nat
       /\ Requests(toServer) \in Nat /\ Requests(toServer') \in Nat
  <2>1. /\ Lines(toPage) \in Nat /\ Lines(toPage') \in Nat /\ Lines(u.sent) \in Nat
        /\ Lines(toPage) <= Lines(toPage') /\ Lines(toPage') <= Lines(toPage) + Lines(u.sent)
    BY <1>1, <1>3, <1>7, EndLines
  <2>2. Lines(toPage') = Lines(toPage)
    BY <1>7, <2>1
  <2> QED BY <1>3, <1>11, <2>1, <2>2, LinesType
<1>17. Asked(t, u) => /\ p \in Spikes /\ Runs(u.spike, conn, p) /\ Answers(u.spike[p])
                      /\ Weight(u.spike[p]) = Weight(spike[p]) + 1 /\ Weight(spike[p]) \in Nat
                      /\ \A q \in Spikes : q # p => u.spike[q] = spike[q]
                      /\ \A q \in Spikes : Runs(spike, conn, q) => Runs(u.spike, conn, q)
  BY <1>3, <1>5, AskedEffect
<1> HIDE DEF p
<1>18. Waits'
  <2> SUFFICES ASSUME ~excused[conn]
               PROVE  /\ u.s.waitingForOutput => Echoes(u.spike, conn)
                      /\ u.s.waitingForFrontend => Busy(u.spike, conn, toPage', toServer')
    BY <1>2, <1>10 DEF Waits
  <2>1. /\ session[conn].waitingForOutput => Echoes(spike, conn)
        /\ session[conn].waitingForFrontend => Busy(spike, conn, toPage, toServer)
    BY <1>3, <1>6 DEF Waits
  <2>2. u.s.waitingForOutput => Echoes(u.spike, conn)
    <3> SUFFICES ASSUME u.s.waitingForOutput PROVE Echoes(u.spike, conn)
      OBVIOUS
    <3>1. CASE Asked(t, u)
      BY <1>17, <3>1 DEF Echoes
    <3>2. CASE session[conn].waitingForOutput /\ u.spike = spike
      BY <2>1, <3>2
    <3> QED BY <1>4, <1>5, <3>1, <3>2 DEF Serves
  <2>3. u.s.waitingForFrontend => Busy(u.spike, conn, toPage', toServer')
    <3> SUFFICES ASSUME u.s.waitingForFrontend PROVE Busy(u.spike, conn, toPage', toServer')
      OBVIOUS
    <3>1. session[conn].waitingForFrontend /\ m # "frontend-ready" /\ (Asked(t, u) \/ u.spike = spike)
      BY <1>4, <1>5 DEF Serves
    <3>2. CASE Asked(t, u)
      <4>1. Weight(u.spike[p]) > 0
        BY <1>17, <3>2
      <4> QED BY <1>17, <3>2, <4>1 DEF Busy
    <3>3. CASE u.spike = spike
      <4>1. Lines(toServer') = Lines(toServer)
        BY <1>11, <1>16, <3>1
      <4>2. Busy(spike, conn, toPage, toServer)
        BY <2>1, <3>1
      <4> QED BY <1>16, <3>3, <4>1, <4>2 DEF Busy
    <3> QED BY <3>1, <3>2, <3>3
  <2> QED BY <2>2, <2>3
<1>19. Grows
  <2>1. CASE SameWeight(t.spike, u.spike)
    <3>1. Lines(toPage') + Lines(toServer') + Requests(toServer')
            <= Lines(toPage) + Lines(toServer) + Requests(toServer)
      BY <1>11, <1>16
    <3> QED BY <1>3, <1>5, <1>10, <1>12, <2>1, <3>1, GrowsNotAtAll
  <2>2. CASE m \in {"continue-debug", "step-debug", "frontend-ready"} /\ Asked(t, u)
    <3>1. Lines(toServer') + Requests(toServer') + 1 = Lines(toServer) + Requests(toServer)
      BY <1>11, <1>16, <2>2
    <3>2. /\ p \in Spikes /\ Weight(spike'[p]) = Weight(spike[p]) + 1 /\ Weight(spike[p]) \in Nat
          /\ \A q \in Spikes \ {p} : Weight(spike'[q]) = Weight(spike[q])
      BY <1>10, <1>17, <2>2
    <3>3. Weight(spike'[p]) + Lines(toPage') + Lines(toServer') + Requests(toServer')
            <= Weight(spike[p]) + Lines(toPage) + Lines(toServer) + Requests(toServer)
      BY <1>16, <3>1, <3>2
    <3> QED BY <1>3, <1>12, <3>2, <3>3, GrowsNot
  <2> QED BY <1>4, <2>1, <2>2 DEF Serves
<1>20. Released
  <2>1. Releases(Turn(conn), u)
    BY <1>7 DEF Does, t
  <2> QED BY <1>1, <1>3, <2>1, TurnReleases
<1> QED BY <1>9, <1>12, <1>13, <1>14, <1>15, <1>18, <1>19, <1>20, Close

-----------------------------------------------------------------------------
(***************************************************************************)
(* The steps of the page.                                                  *)
(***************************************************************************)

\* The page changes no session and no process.
LEMMA PageSide ==
    ASSUME WebIInv, UNCHANGED <<session, spike, excused>>,
           conn' \in Conns, conn' >= conn, clicks' \in Nat,
           page' \in [connected : BOOLEAN, debugging : BOOLEAN, file : BOOLEAN],
           toPage' \in Seq(News), toServer' \in Seq(Orders)
    PROVE  /\ Typed' /\ SessionsSound' /\ ProcessesSound' /\ Released
           /\ SameNones(spike, spike') /\ SameWeight(spike, spike')
           /\ \A c \in Conns : c > conn' => session'[c] = NewSession
<1>1. Typed /\ SessionsSound /\ ProcessesSound /\ NotConnected
  BY DEF WebIInv
<1>2. Typed'
  BY <1>1 DEF Typed
<1>3. SessionsSound'
  BY <1>1 DEF SessionsSound
<1>4. conn \in Int /\ conn' \in Int
  BY <1>1 DEF Typed, Conns
<1>5. ProcessesSound'
  <2> SUFFICES ASSUME NEW p \in Spikes PROVE Lives(spike[p], conn')
    BY DEF ProcessesSound
  <2>1. Lives(spike[p], conn)
    BY <1>1 DEF ProcessesSound
  <2>2. \A n : n \in 1 .. conn => n \in 1 .. conn'
    BY <1>4
  <2> QED BY <2>1, <2>2 DEF Lives
<1>6. Released
  BY NothingReleased
<1>7. SameNones(spike, spike') /\ SameWeight(spike, spike')
  BY DEF SameNones, SameWeight
<1>8. ASSUME NEW c \in Conns, c > conn' PROVE session'[c] = NewSession
  <2>1. c > conn
    BY <1>4, <1>8 DEF Conns
  <2> QED BY <1>1, <2>1 DEF NotConnected
<1> QED BY <1>2, <1>3, <1>5, <1>6, <1>7, <1>8

LEMMA PageStep ==
    ASSUME WebIInv, page_receives
    PROVE  WebIInv' /\ Grows /\ Released
<1> DEFINE h == Head(toPage)
           K == {"line", "stop", "execution-update", "frontend-ready"}
<1>1. /\ toPage # <<>> /\ toPage' = Tail(toPage)
      /\ toServer' = (IF h = "execution-update" THEN Append(toServer, "frontend-ready") ELSE toServer)
      /\ UNCHANGED <<session, spike, conn, clicks, excused>>
  BY DEF page_receives
<1>2. page' = CASE h = "debug-started" -> [page EXCEPT !.debugging = TRUE]
                [] h \in {"debug-stopped", "debug-reset"} -> [page EXCEPT !.debugging = FALSE]
                [] OTHER -> page
  BY DEF page_receives
<1>3. /\ Typed /\ NotConnected /\ Waits /\ PageAgrees /\ toPage \in Seq(News) /\ toServer \in Seq(Orders)
      /\ page \in [connected : BOOLEAN, debugging : BOOLEAN, file : BOOLEAN]
      /\ conn \in Conns /\ clicks \in Nat
  BY HasWaits DEF WebIInv, Typed
<1>4. /\ toPage' \in Seq(News) /\ h \in News
      /\ Lines(toPage) = (IF h \in K THEN 1 ELSE 0) + Lines(toPage')
  BY <1>1, <1>3, LinesTail
<1>5. h \in K <=> h = "execution-update"
  BY <1>4 DEF News
<1> HIDE DEF h, K
<1>6. page' \in [connected : BOOLEAN, debugging : BOOLEAN, file : BOOLEAN]
  BY <1>2, <1>3
<1>7. /\ page'.connected = page.connected
      /\ page'.debugging => h = "debug-started" \/ (page.debugging /\ h = "execution-update")
  BY <1>2, <1>3, <1>4 DEF News
<1>8. page.connected
  BY <1>1, <1>3 DEF NotConnected
<1>9. /\ toServer' \in Seq(Orders) /\ Starts' = Starts
      /\ Lines(toServer') = Lines(toServer) + (IF h = "execution-update" THEN 1 ELSE 0)
      /\ Requests(toServer') = Requests(toServer)
  <2>0. Lines(toServer) \in Nat /\ Requests(toServer) \in Nat /\ Starts \in Nat
    BY <1>3, LinesType, StartsType
  <2>1. CASE h # "execution-update"
    <3>1. toServer' = toServer
      BY <1>1, <2>1
    <3> QED BY <1>3, <2>0, <2>1, <3>1, StartsKept
  <2>2. CASE h = "execution-update"
    <3>1. "frontend-ready" \in Orders /\ toServer' = Append(toServer, "frontend-ready")
      BY <1>1, <2>2 DEF Orders
    <3>2. toServer' \in Seq(Orders)
      BY <1>3, <3>1
    <3>3. /\ Lines(Append(toServer, "frontend-ready")) = Lines(toServer) + 1
          /\ Requests(Append(toServer, "frontend-ready")) = Requests(toServer) + 0
      BY <1>3, <3>1, LinesAppend
    <3>4. Count(Append(toServer, "frontend-ready"), {"start-debug"}) = Count(toServer, {"start-debug"}) + 0
      BY <1>3, <3>1, CountAppend
    <3>5. Starts' = Starts + 0
      BY <3>1, <3>4 DEF Starts
    <3> DEFINE a == Starts
               b == Starts'
               r == Requests(toServer)
               r1 == Requests(toServer')
    <3>6. a \in Nat /\ b = a + 0 /\ r \in Nat /\ r1 = r + 0
      BY <2>0, <3>1, <3>3, <3>5
    <3> HIDE DEF a, b, r, r1
    <3>7. b = a /\ r1 = r
      BY <3>6
    <3> QED BY <2>2, <3>1, <3>2, <3>3, <3>7 DEF a, b, r, r1
  <2> QED BY <2>1, <2>2
<1>10. conn' \in Conns /\ conn' >= conn /\ clicks' \in Nat
  BY <1>1, <1>3 DEF Conns
<1>11. /\ Typed' /\ SessionsSound' /\ ProcessesSound' /\ Released
       /\ SameNones(spike, spike') /\ SameWeight(spike, spike')
       /\ \A c \in Conns : c > conn' => session'[c] = NewSession
  BY <1>1, <1>4, <1>6, <1>9, <1>10, PageSide
<1>12. RoomToStart'
  <2>1. Starts \in Nat /\ Starts <= Starts
    BY <1>3, StartsType
  <2>2. Starts' <= Starts
    BY <1>9, <2>1
  <2> QED BY <1>9, <1>11, <2>2, RoomKept
<1>13. NotConnected'
  BY <1>7, <1>8, <1>11 DEF NotConnected
<1>14. PageAgrees'
  <2>1. Will(page'.debugging, Tail(toPage)) => Will(page.debugging, toPage)
    BY <1>1, <1>3, <1>7, WillTail DEF h
  <2>2. WillDebug' => WillDebug
    BY <1>1, <2>1, WillDebugIsWill
  <2> QED BY <1>1, <1>3, <1>8, <2>2 DEF PageAgrees
<1>15. /\ Lines(toPage) \in Nat /\ Lines(toPage') \in Nat /\ Lines(toServer) \in Nat
       /\ Lines(toServer') \in Nat /\ Requests(toServer) \in Nat
  BY <1>3, <1>4, <1>9, LinesType
<1>16. Lines(toPage') + Lines(toServer') = Lines(toPage) + Lines(toServer)
  BY <1>4, <1>5, <1>9, <1>15
<1>17. Waits'
  BY <1>1, <1>3, <1>7, <1>8, <1>16 DEF Waits, Busy
<1>18. Grows
  <2>1. Lines(toPage') + Lines(toServer') + Requests(toServer')
          <= Lines(toPage) + Lines(toServer) + Requests(toServer)
    BY <1>9, <1>15, <1>16
  <2> QED BY <1>3, <1>11, <2>1, GrowsNotAtAll
<1> QED BY <1>11, <1>12, <1>13, <1>14, <1>17, <1>18, Close

\* A click leaves room for what it may start.
LEMMA RoomForClick ==
    ASSUME WebIInv, NEW m \in Orders, toServer' = Append(toServer, m), spike' = spike,
           m = "start-debug" => Started + Starts < MaxSpikes
    PROVE  RoomToStart'
<1> DEFINE k == Started
           a == Starts
           b == Starts'
           d == IF m = "start-debug" THEN 1 ELSE 0
<1>1. toServer \in Seq(Orders) /\ k + a <= MaxSpikes /\ MaxSpikes \in Nat
  BY WebAssumption DEF WebIInv, Typed, RoomToStart
<1>2. b = a + (IF m \in {"start-debug"} THEN 1 ELSE 0)
  BY <1>1, CountAppend DEF Starts
<1>3. (IF m \in {"start-debug"} THEN 1 ELSE 0) = d
  OBVIOUS
<1>4. a \in Nat
  BY <1>1, CountType DEF Starts
<1>5. k \in Nat
  BY SpikesFinite, FS_Subset, FS_CardinalityType DEF Started
<1>6. Started' = k
  BY DEF Started
<1>7. m = "start-debug" => k + a < MaxSpikes
  OBVIOUS
<1>8. b = a + d
  BY <1>2, <1>3
<1> HIDE DEF k, a, b
<1>9. k + b <= MaxSpikes
  BY <1>1, <1>4, <1>5, <1>7, <1>8
<1> QED BY <1>6, <1>9 DEF RoomToStart, b

LEMMA ClickStep ==
    ASSUME WebIInv, NEW m \in Orders, Click(m), m = "start-debug" => Started + Starts < MaxSpikes
    PROVE  WebIInv' /\ Grows /\ Released
<1>1. /\ page.connected /\ clicks' = clicks + 1 /\ toServer' = Append(toServer, m)
      /\ UNCHANGED <<session, spike, page, conn, toPage, excused>>
  BY DEF Click
<1>2. /\ Typed /\ Waits /\ PageAgrees /\ toPage \in Seq(News) /\ toServer \in Seq(Orders)
      /\ page \in [connected : BOOLEAN, debugging : BOOLEAN, file : BOOLEAN]
      /\ conn \in Conns /\ clicks \in Nat
  BY HasWaits DEF WebIInv, Typed
<1>3. /\ toServer' \in Seq(Orders) /\ clicks' \in Nat /\ clicks' > clicks
      /\ conn' \in Conns /\ conn' >= conn
  BY <1>1, <1>2 DEF Conns
<1>4. /\ Typed' /\ SessionsSound' /\ ProcessesSound' /\ Released
      /\ \A c \in Conns : c > conn' => session'[c] = NewSession
  BY <1>1, <1>2, <1>3, PageSide
<1>5. RoomToStart'
  BY <1>1, RoomForClick
<1>6. NotConnected'
  BY <1>1, <1>4 DEF NotConnected
<1>7. PageAgrees'
  <2>1. WillDebug' <=> WillDebug
    BY <1>1, WillDebugIsWill
  <2> QED BY <1>1, <1>2, <2>1 DEF PageAgrees
<1>8. Waits'
  <2>1. /\ Lines(toPage) \in Nat /\ Lines(toServer) \in Nat /\ Lines(toServer') \in Nat
        /\ Lines(toServer') >= Lines(toServer)
    <3>1. Lines(toServer') = Lines(toServer)
             + (IF m \in {"line", "stop", "execution-update", "frontend-ready"} THEN 1 ELSE 0)
      BY <1>1, <1>2, LinesAppend
    <3>2. Lines(toPage) \in Nat /\ Lines(toServer) \in Nat /\ Lines(toServer') \in Nat
      BY <1>2, <1>3, LinesType
    <3> QED BY <3>1, <3>2
  <2>2. Lines(toPage) + Lines(toServer) > 0 => Lines(toPage) + Lines(toServer') > 0
    BY <2>1
  <2>3. Busy(spike, conn, toPage, toServer) => Busy(spike, conn, toPage, toServer')
    BY <2>2 DEF Busy
  <2> QED BY <1>1, <1>2, <2>3 DEF Waits
<1>9. Grows
  BY <1>3 DEF Grows
<1> QED BY <1>4, <1>5, <1>6, <1>7, <1>8, <1>9, Close

LEMMA ClicksStep ==
    ASSUME WebIInv, click_start \/ click_pause \/ click_step \/ click_reset
    PROVE  WebIInv' /\ Grows /\ Released
<1>1. CASE page.debugging /\ Click("continue-debug")
  BY <1>1, ClickStep DEF Orders
<1>2. CASE Started + Starts < MaxSpikes /\ Click("start-debug")
  BY <1>2, ClickStep DEF Orders
<1>3. CASE click_pause
  BY <1>3, ClickStep DEF Orders, click_pause
<1>4. CASE click_step
  BY <1>4, ClickStep DEF Orders, click_step
<1>5. CASE click_reset
  BY <1>5, ClickStep DEF Orders, click_reset
<1> QED BY <1>1, <1>2, <1>3, <1>4, <1>5 DEF click_start

LEMMA UploadStep ==
    ASSUME WebIInv, upload
    PROVE  WebIInv' /\ Grows /\ Released
<1>1. PICK accepted \in BOOLEAN : page' = [page EXCEPT !.file = accepted]
  BY DEF upload
<1>2. UNCHANGED <<session, spike, conn, toPage, toServer, clicks, excused>>
  BY DEF upload
<1>3. /\ Typed /\ Waits /\ PageAgrees /\ NotConnected /\ toPage \in Seq(News) /\ toServer \in Seq(Orders)
      /\ page \in [connected : BOOLEAN, debugging : BOOLEAN, file : BOOLEAN]
      /\ conn \in Conns /\ clicks \in Nat
  BY HasWaits DEF WebIInv, Typed
<1>4. /\ page' \in [connected : BOOLEAN, debugging : BOOLEAN, file : BOOLEAN]
      /\ page'.connected = page.connected /\ page'.debugging = page.debugging
  BY <1>1, <1>3
<1>5. conn' \in Conns /\ conn' >= conn
  BY <1>2, <1>3 DEF Conns
<1>6. /\ Typed' /\ SessionsSound' /\ ProcessesSound' /\ Released
      /\ SameNones(spike, spike') /\ SameWeight(spike, spike')
      /\ \A c \in Conns : c > conn' => session'[c] = NewSession
  BY <1>2, <1>3, <1>4, <1>5, PageSide
<1>7. RoomToStart'
  <2>1. Starts' <= Starts
    BY <1>2, <1>3, StartsKept, StartsType
  <2> QED BY <1>2, <1>3, <1>6, <2>1, RoomKept
<1>8. NotConnected'
  BY <1>2, <1>3, <1>4, <1>6 DEF NotConnected
<1>9. PageAgrees'
  <2>1. WillDebug' <=> WillDebug
    BY <1>2, <1>4, WillDebugIsWill
  <2> QED BY <1>2, <1>3, <1>4, <2>1 DEF PageAgrees
<1>10. Waits'
  BY <1>2, <1>3, <1>4 DEF Waits
<1>11. Grows
  <2>1. Lines(toPage) \in Nat /\ Lines(toServer) \in Nat /\ Requests(toServer) \in Nat
    BY <1>3, LinesType
  <2>2. Lines(toPage') + Lines(toServer') + Requests(toServer')
          <= Lines(toPage) + Lines(toServer) + Requests(toServer)
    BY <1>2, <2>1
  <2> QED BY <1>3, <1>6, <2>2, GrowsNotAtAll
<1> QED BY <1>6, <1>7, <1>8, <1>9, <1>10, <1>11, Close

LEMMA DisconnectStep ==
    ASSUME WebIInv, disconnect
    PROVE  WebIInv' /\ Grows /\ Released
<1>1. /\ page' = [page EXCEPT !.connected = FALSE, !.debugging = FALSE]
      /\ toPage' = <<>> /\ toServer' = <<>>
      /\ UNCHANGED <<session, spike, conn, clicks, excused>>
  BY DEF disconnect
<1>2. /\ Typed /\ toPage \in Seq(News) /\ toServer \in Seq(Orders)
      /\ page \in [connected : BOOLEAN, debugging : BOOLEAN, file : BOOLEAN]
      /\ conn \in Conns /\ clicks \in Nat
  BY DEF WebIInv, Typed
<1>3. /\ page' \in [connected : BOOLEAN, debugging : BOOLEAN, file : BOOLEAN]
      /\ ~page'.connected /\ ~page'.debugging
  BY <1>1, <1>2
<1>4. conn' \in Conns /\ conn' >= conn /\ toPage' \in Seq(News) /\ toServer' \in Seq(Orders)
  BY <1>1, <1>2 DEF Conns
<1>5. /\ Typed' /\ SessionsSound' /\ ProcessesSound' /\ Released
      /\ SameNones(spike, spike') /\ SameWeight(spike, spike')
      /\ \A c \in Conns : c > conn' => session'[c] = NewSession
  BY <1>1, <1>2, <1>3, <1>4, PageSide
<1>6. RoomToStart'
  <2>1. Starts' = 0
    BY <1>1, CountFew DEF Starts
  <2>2. Starts' <= Starts
    BY <1>2, <2>1, StartsType
  <2> QED BY <1>4, <1>5, <2>2, RoomKept
<1>7. NotConnected' /\ PageAgrees' /\ Waits'
  BY <1>1, <1>3, <1>5 DEF NotConnected, PageAgrees, Waits
<1>8. Grows
  <2>1. Lines(toPage) \in Nat /\ Lines(toServer) \in Nat /\ Requests(toServer) \in Nat
    BY <1>2, LinesType
  <2>2. Lines(toPage') + Lines(toServer') + Requests(toServer')
          <= Lines(toPage) + Lines(toServer) + Requests(toServer)
    BY <1>1, <2>1, LinesFew
  <2> QED BY <1>2, <1>5, <2>2, GrowsNotAtAll
<1> QED BY <1>5, <1>6, <1>7, <1>8, Close

\* A connection begins with a session that waits for nothing.
LEMMA ConnectStep ==
    ASSUME WebIInv, connect
    PROVE  WebIInv' /\ Grows /\ Released
<1>1. /\ ~page.connected /\ conn < MaxConns /\ conn' = conn + 1
      /\ page' = [page EXCEPT !.connected = TRUE]
      /\ UNCHANGED <<session, spike, toPage, toServer, clicks, excused>>
  BY DEF connect
<1>2. /\ Typed /\ NotConnected /\ toPage \in Seq(News) /\ toServer \in Seq(Orders)
      /\ page \in [connected : BOOLEAN, debugging : BOOLEAN, file : BOOLEAN]
      /\ conn \in Conns /\ clicks \in Nat
  BY DEF WebIInv, Typed
<1>3. /\ page' \in [connected : BOOLEAN, debugging : BOOLEAN, file : BOOLEAN]
      /\ page'.connected /\ page'.debugging = page.debugging
  BY <1>1, <1>2
<1>4. conn' \in Conns /\ conn' > conn /\ conn' >= conn
  BY <1>1, <1>2, WebAssumption DEF Conns
<1>5. toPage = <<>> /\ ~page.debugging
  BY <1>1, <1>2 DEF NotConnected
<1>6. /\ Typed' /\ SessionsSound' /\ ProcessesSound' /\ Released
      /\ SameNones(spike, spike') /\ SameWeight(spike, spike')
      /\ \A c \in Conns : c > conn' => session'[c] = NewSession
  BY <1>1, <1>2, <1>3, <1>4, PageSide
<1>7. RoomToStart'
  <2>1. Starts' <= Starts
    BY <1>1, <1>2, StartsKept, StartsType
  <2> QED BY <1>1, <1>2, <1>6, <2>1, RoomKept
<1>8. NotConnected'
  BY <1>3, <1>6 DEF NotConnected
<1>9. PageAgrees'
  <2>1. DOMAIN <<>> = {}
    OBVIOUS
  <2>2. ~Will(page'.debugging, toPage')
    BY <1>1, <1>3, <1>5, <2>1 DEF Will
  <2>3. ~WillDebug'
    BY <2>2, WillDebugIsWill
  <2> QED BY <2>3 DEF PageAgrees
<1>10. Waits'
  <2>1. session'[conn'] = NewSession
    BY <1>1, <1>2, <1>4 DEF NotConnected
  <2>2. ~session'[conn'].waitingForOutput /\ ~session'[conn'].waitingForFrontend
    BY <2>1 DEF NewSession
  <2> QED BY <2>2 DEF Waits
<1>11. Grows
  <2>1. Lines(toPage) \in Nat /\ Lines(toServer) \in Nat /\ Requests(toServer) \in Nat
    BY <1>2, LinesType
  <2>2. Lines(toPage') + Lines(toServer') + Requests(toServer')
          <= Lines(toPage) + Lines(toServer) + Requests(toServer)
    BY <1>1, <2>1
  <2> QED BY <1>2, <1>6, <2>2, GrowsNotAtAll
<1> QED BY <1>6, <1>7, <1>8, <1>9, <1>10, <1>11, Close

-----------------------------------------------------------------------------
(***************************************************************************)
(* The theorems.                                                           *)
(***************************************************************************)

LEMMA InitWeb == Init => WebIInv
<1> SUFFICES ASSUME Init PROVE WebIInv
  OBVIOUS
<1>1. /\ session = [c \in Conns |-> NewSession] /\ spike = [p \in Spikes |-> NoProcess]
      /\ page = [connected |-> TRUE, debugging |-> FALSE, file |-> FALSE] /\ conn = 1
      /\ toPage = <<>> /\ toServer = <<>> /\ clicks = 0 /\ excused = [c \in Conns |-> FALSE]
  BY DEF Init
<1>2. 1 \in Conns
  BY WebAssumption DEF Conns
<1>3. NewSession \in Sessions /\ Flags(NewSession) /\ \A c \in Conns : Owns(NewSession, spike, c)
  BY DEF NewSession, Sessions, Flags, Owns
<1>4. NoProcess \in Processes /\ Lives(NoProcess, conn)
  BY DEF NoProcess, Processes, Lives
<1>5. Typed
  BY <1>1, <1>2, <1>3, <1>4 DEF Typed
<1>6. SessionsSound /\ ProcessesSound
  BY <1>1, <1>3, <1>4 DEF SessionsSound, ProcessesSound
<1>7. RoomToStart
  <2>1. {p \in Spikes : spike[p].status # "none"} = {}
    BY <1>1 DEF NoProcess
  <2>2. Started = 0
    BY <2>1, FS_EmptySet DEF Started
  <2>3. Starts = 0
    BY <1>1, CountFew DEF Starts
  <2> QED BY <2>2, <2>3, WebAssumption DEF RoomToStart
<1>8. NotConnected
  BY <1>1 DEF NotConnected
<1>9. PageAgrees
  <2>1. DOMAIN <<>> = {} /\ ~page.debugging
    BY <1>1
  <2>2. ~Will(page.debugging, toPage)
    BY <1>1, <2>1 DEF Will
  <2>3. ~WillDebug
    BY <2>2, WillDebugIsWill
  <2> QED BY <2>3 DEF PageAgrees
<1>10. NotStalled /\ EchoFirst
  <2>1. ~session[conn].waitingForOutput /\ ~session[conn].waitingForFrontend
    BY <1>1, <1>2 DEF NewSession
  <2> QED BY <2>1 DEF NotStalled, EchoFirst
<1> QED BY <1>5, <1>6, <1>7, <1>8, <1>9, <1>10 DEF WebIInv

\* Every step of the page, the server and Spike.
LEMMA StepWeb == WebIInv /\ Next => WebIInv' /\ Grows /\ Released
<1> SUFFICES ASSUME WebIInv, Next PROVE WebIInv' /\ Grows /\ Released
  OBVIOUS
<1>1. CASE \E p \in Spikes : spike_runs(p)
  BY <1>1, RunStep
<1>2. CASE \E p \in Spikes : spike_ends(p)
  BY <1>2, EndsStep
<1>3. CASE \E p \in Spikes : spike_data(p)
  BY <1>3, DataStep
<1>4. CASE \E p \in Spikes : spike_exit(p)
  BY <1>4, ExitStep
<1>5. CASE \E c \in Conns : starting_timer(c)
  BY <1>5, StartingStep
<1>6. CASE \E c \in Conns : announcing_timer(c)
  BY <1>6, AnnouncingStep
<1>7. CASE \E c \in Conns : server_disconnect(c)
  BY <1>7, CleanupStep
<1>8. CASE server_receives
  BY <1>8, ReceiveStep
<1>9. CASE page_receives
  BY <1>9, PageStep
<1>10. CASE click_start \/ click_pause \/ click_step \/ click_reset
  BY <1>10, ClicksStep
<1>11. CASE upload
  BY <1>11, UploadStep
<1>12. CASE disconnect
  BY <1>12, DisconnectStep
<1>13. CASE connect
  BY <1>13, ConnectStep
<1> QED BY <1>1, <1>2, <1>3, <1>4, <1>5, <1>6, <1>7, <1>8, <1>9, <1>10, <1>11, <1>12, <1>13 DEF Next

\* A step that changes nothing.
LEMMA StutterWeb == WebIInv /\ UNCHANGED vars => WebIInv'
<1> SUFFICES ASSUME WebIInv, UNCHANGED vars PROVE WebIInv'
  OBVIOUS
<1>1. /\ session' = session /\ spike' = spike /\ page' = page /\ conn' = conn
      /\ toPage' = toPage /\ toServer' = toServer /\ excused' = excused /\ clicks' = clicks
  BY DEF vars
<1>2. /\ Typed /\ SessionsSound /\ ProcessesSound /\ RoomToStart /\ NotConnected /\ PageAgrees /\ Waits
  BY HasWaits DEF WebIInv
<1>3. Typed' /\ SessionsSound' /\ ProcessesSound'
  BY <1>1, <1>2 DEF Typed, SessionsSound, ProcessesSound
<1>4. RoomToStart' /\ NotConnected'
  BY <1>1, <1>2 DEF RoomToStart, Started, Starts, NotConnected
<1>5. PageAgrees'
  BY <1>1, <1>2, WillDebugIsWill DEF PageAgrees
<1>6. Waits'
  BY <1>1, <1>2 DEF Waits
<1> QED BY <1>3, <1>4, <1>5, <1>6, Close

\* The inductive invariant of the page, the server and the processes: what each variable
\* holds, whose a process is, that a start request finds a process to start, that
\* nothing is under way without a connection, and that a session waiting for output has
\* an instruction coming whose echo comes first.
THEOREM WebInvariant == Spec => []WebIInv
<1>1. WebIInv /\ [Next]_vars => WebIInv'
  BY StepWeb, StutterWeb
<1> QED BY InitWeb, <1>1, PTL DEF Spec

\* The debug session and the page, for any number of connections, processes and clicks:
\* the session waits for one thing at a time and only in continuous mode
\* (executeNextInstruction, handleSpikeOutput, stopContinuous); a page that goes on
\* offering its buttons has an initialised session with a process, unless the second
\* start-up timer announced it after its exit (debug-started, debug-stopped); a continuous
\* run of which the terminal's pieces cut no instruction away, and every step of which
\* showed one, never waits for what no longer comes.
THEOREM WebSafe == Spec => []WebInv
<1>1. WebIInv => WebInv
  <2> SUFFICES ASSUME WebIInv PROVE WebInv
    OBVIOUS
  <2>1. WebType
    <3> SUFFICES ASSUME NEW c \in Conns
                 PROVE  /\ session[c].spikeProcess \in Spikes \cup {NoSpike}
                        /\ ~(session[c].waitingForOutput /\ session[c].waitingForFrontend)
                        /\ session[c].waitingForOutput \/ session[c].waitingForFrontend
                             => session[c].isContinuousMode
      BY DEF WebType
    <3>1. session[c] \in Sessions /\ Flags(session[c])
      BY DEF WebIInv, Typed, SessionsSound
    <3> QED BY <3>1 DEF Sessions, Flags
  <2> QED BY <2>1 DEF WebInv, WebIInv
<1> QED BY WebInvariant, <1>1, PTL

\* Continuous mode never gets ahead of the page: the instructions asked for, printed,
\* shown and acknowledged, of all processes together, grow by clicks alone.
THEOREM OnlyClicks == Spec => OnlyClicksAdd
<1>1. WebIInv /\ [Next]_vars => [Grows]_vars
  BY StepWeb
<1>2. Spec => [][Grows]_vars
  BY WebInvariant, <1>1, PTL DEF Spec
<1> QED BY <1>2 DEF OnlyClicksAdd, Grows

\* stopDebug, startDebug and cleanup kill the process they let go of; the one other way
\* to lose a process that runs is the exit of an earlier process of the same session.
THEOREM LetsGo == Spec => LetGo
<1>1. WebIInv /\ [Next]_vars => [Released]_vars
  BY StepWeb
<1>2. Spec => [][Released]_vars
  BY WebInvariant, <1>1, PTL DEF Spec
<1> QED BY <1>2 DEF LetGo, Released

=============================================================================
