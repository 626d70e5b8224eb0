----------------------- MODULE KeyboardControllerProofs ---------------------
(***************************************************************************)
(* Safety of the keyboard and its controller, for any keys, buffer sizes   *)
(* and repetition rates.                                                   *)
(***************************************************************************)
EXTENDS KeyboardController, Integers, WellFoundedInduction, FiniteSetTheorems, TLAPS

-----------------------------------------------------------------------------
(* Induction and recursion over an interval, stated with sets.             *)

\* A set of natural numbers that is not empty has a least element.
LEMMA LeastNat ==
    ASSUME NEW T \in SUBSET Nat, T # {}
    PROVE  \E x \in T : \A y \in T : x <= y
<1> DEFINE R == OpToRel(<, Nat)
<1>1. IsWellFoundedOn(R, Nat)
  BY NatLessThanWellFounded, Zenon
<1>2. \A x, y \in Nat : x < y => <<x, y>> \in R
  BY DEF OpToRel
<1> HIDE DEF R
<1>3. PICK x \in T : \A y \in T : ~(<<y, x>> \in R)
  BY <1>1, WFMin
<1>4. ASSUME NEW y \in T PROVE x <= y
  <2>1. x \in Nat /\ y \in Nat
    OBVIOUS
  <2>2. ~(y < x)
    BY <1>2, <1>3, <2>1, Zenon
  <2> QED  BY <2>1, <2>2
<1> QED  BY <1>4

\* What holds at 0 and is inherited from a number by the next holds up to n.
LEMMA IntervalInduction ==
    ASSUME NEW n \in Nat, NEW P \in SUBSET (0 .. n), 0 \in P,
           \A i \in 1 .. n : i - 1 \in P => i \in P
    PROVE  P = 0 .. n
<1> DEFINE T == (0 .. n) \ P
<1>1. SUFFICES ASSUME T # {} PROVE FALSE
  OBVIOUS
<1>2. T \in SUBSET Nat
  OBVIOUS
<1>3. PICK x \in T : \A y \in T : x <= y
  <2> HIDE DEF T
  <2> QED  BY <1>1, <1>2, LeastNat
<1>4. x # 0 /\ x - 1 \in 0 .. n /\ x \in 1 .. n
  OBVIOUS
<1> QED  BY <1>3, <1>4

\* f is the iteration that begins with c and goes on with the steps G.
Iterates(f, n, D, c, G) ==
    f \in [0 .. n -> D] /\ f[0] = c /\ \A i \in 1 .. n : f[i] = G[i][f[i - 1]]

\* There is one if the steps stay in D.
LEMMA IterationExists ==
    ASSUME NEW n \in Nat, NEW D, NEW c \in D, NEW G \in [1 .. n -> [D -> D]]
    PROVE  \E f : Iterates(f, n, D, c, G)
<1> DEFINE P == {k \in 0 .. n : \E f : Iterates(f, k, D, c, G)}
<1>1. 0 \in P
  <2> DEFINE f == [i \in 0 .. 0 |-> c]
  <2>1. Iterates(f, 0, D, c, G)
    BY DEF Iterates
  <2> HIDE DEF f
  <2> QED  BY <2>1
<1>2. ASSUME NEW k \in 1 .. n, k - 1 \in P PROVE k \in P
  <2>1. PICK f : Iterates(f, k - 1, D, c, G)
    BY <1>2
  <2> DEFINE g == [i \in 0 .. k |-> IF i = k THEN G[k][f[k - 1]] ELSE f[i]]
  <2>2. Iterates(g, k, D, c, G)
    BY <2>1 DEF Iterates
  <2>3. k \in 0 .. n
    OBVIOUS
  <2> HIDE DEF g
  <2> QED  BY <2>2, <2>3
<1>3. P = 0 .. n
  <2>1. P \in SUBSET (0 .. n)
    OBVIOUS
  <2> HIDE DEF P
  <2> QED  BY <1>1, <1>2, <2>1, IntervalInduction
<1>4. n \in P
  <2> HIDE DEF P
  <2> QED  BY <1>3
<1> QED  BY <1>4, Zenon

-----------------------------------------------------------------------------
(* The hardware's type.                                                    *)

Origins == {"ctl", "kbd", "aux"}
Bytes == [src : Origins, skip : BOOLEAN]
KbdWaits == {"none", "SetLeds", "CodeSet", "Set3Key"}

\* The lengths of scancodes that find room beside the longest answers of the
\* mouse, of the keyboard and of the controller.
Frames == {n \in Nat \ {0} : n + AuxLength + CopyrightLength + 4 <= BufferSize}

Hardware ==
    [buf : Seq(Bytes), new : BOOLEAN, src : Origins, waitK : Int, waitA : Int,
     offK : BOOLEAN, offA : BOOLEAN, dump : BOOLEAN, cmd : Commands \cup {"none"},
     ready : BOOLEAN, quiet : BOOLEAN,
     q : Seq(Frames), over : BOOLEAN, scan : BOOLEAN, kcmd : KbdWaits,
     rep : Keys \cup {NoKey}, wait : Nat,
     moved : BOOLEAN, mready : BOOLEAN, rpt : BOOLEAN]

\* A byte in the buffer waits for a read or for the timer.
Moving(s) == s.buf # <<>> => s.new \/ ~s.ready

LEMMA MaybeTyped ==
    ASSUME NEW s \in Hardware
    PROVE  MaybeTransferBuffer(s) \in Hardware /\ Moving(MaybeTransferBuffer(s))
<1>1. CASE s.new \/ s.buf = <<>> \/ ~(s.ready \/ Head(s.buf).skip)
  BY <1>1 DEF MaybeTransferBuffer, Moving
<1>2. CASE ~(s.new \/ s.buf = <<>> \/ ~(s.ready \/ Head(s.buf).skip))
  <2>1. s.buf \in Seq(Bytes) /\ s.buf # <<>>
    BY <1>2 DEF Hardware
  <2>2. Head(s.buf) \in Bytes /\ Tail(s.buf) \in Seq(Bytes)
    BY <2>1
  <2>3. Head(s.buf).src \in Origins
    BY <2>2 DEF Bytes
  <2> QED  BY <1>2, <2>1, <2>2, <2>3 DEF MaybeTransferBuffer, Moving, Hardware
<1> QED  BY <1>1, <1>2

LEMMA PutTyped ==
    ASSUME NEW s \in Hardware, NEW b \in Bytes
    PROVE  BufferPut(s, b) \in Hardware /\ (Moving(s) => Moving(BufferPut(s, b)))
<1>1. CASE IsDisabled(s, b.src)
  BY <1>1 DEF BufferPut
<1>2. CASE ~IsDisabled(s, b.src)
  <2> DEFINE k == s.waitK + (IF b.src = "kbd" THEN 1 ELSE 0)
             a == s.waitA + (IF b.src = "aux" THEN 1 ELSE 0)
             t == [s EXCEPT !.buf = Append(@, b), !.waitK = k, !.waitA = a]
  <2>1. s.buf \in Seq(Bytes) /\ s.waitK \in Int /\ s.waitA \in Int
    BY DEF Hardware
  <2>2. Append(s.buf, b) \in Seq(Bytes) /\ k \in Int /\ a \in Int
    BY <2>1
  <2>3. BufferPut(s, b) = MaybeTransferBuffer(t)
    BY <1>2 DEF BufferPut
  <2> HIDE DEF k, a
  <2>4. t \in Hardware
    BY <2>2 DEF Hardware
  <2> QED  BY <2>3, <2>4, MaybeTyped
<1> QED  BY <1>1, <1>2

LEMMA FramesTyped ==
    ASSUME NEW n \in Nat
    PROVE  /\ Reply(n) \in Seq(Bytes) /\ KbdBytes(n) \in Seq(Bytes) /\ AuxBytes(n) \in Seq(Bytes)
           /\ Len(Reply(n)) = n /\ Len(KbdBytes(n)) = n /\ Len(AuxBytes(n)) = n
           /\ \A i \in 1 .. n : /\ Reply(n)[i].src = "ctl" /\ KbdBytes(n)[i].src = "kbd"
                                /\ AuxBytes(n)[i].src = "aux"
<1>1. \A skip \in BOOLEAN, src \in Origins : Byte(src, skip) \in Bytes /\ Byte(src, skip).src = src
  BY DEF Byte, Bytes
<1>2. "ctl" \in Origins /\ "kbd" \in Origins /\ "aux" \in Origins
  BY DEF Origins
<1>3. Byte("ctl", TRUE) \in Bytes /\ Byte("ctl", TRUE).src = "ctl"
  BY <1>1, <1>2, Zenon
<1>4. Byte("kbd", FALSE) \in Bytes /\ Byte("kbd", FALSE).src = "kbd"
  BY <1>1, <1>2, Zenon
<1>5. ASSUME NEW i \in Nat PROVE Byte("aux", i > 1) \in Bytes /\ Byte("aux", i > 1).src = "aux"
  <2>1. (i > 1) \in BOOLEAN
    BY SMT
  <2> QED  BY <1>1, <1>2, <2>1, Zenon
<1> DEFINE c == Byte("ctl", TRUE)
           k == Byte("kbd", FALSE)
           a(i) == Byte("aux", i > 1)
<1>6. Reply(n) = [i \in 1 .. n |-> c] /\ KbdBytes(n) = [i \in 1 .. n |-> k]
  BY DEF Reply, KbdBytes
<1>7. AuxBytes(n) = [i \in 1 .. n |-> a(i)]
  BY DEF AuxBytes
<1>8. \A i \in Nat : a(i) \in Bytes /\ a(i).src = "aux"
  BY <1>5, Zenon
<1>9. c \in Bytes /\ k \in Bytes
  BY <1>3, <1>4, Zenon
<1> HIDE DEF c, k, a
<1>10. /\ [i \in 1 .. n |-> c] \in Seq(Bytes) /\ Len([i \in 1 .. n |-> c]) = n
      /\ [i \in 1 .. n |-> k] \in Seq(Bytes) /\ Len([i \in 1 .. n |-> k]) = n
  BY <1>9
<1>11. [i \in 1 .. n |-> a(i)] \in Seq(Bytes) /\ Len([i \in 1 .. n |-> a(i)]) = n
  BY <1>8
<1>12. \A i \in 1 .. n : Reply(n)[i].src = "ctl" /\ KbdBytes(n)[i].src = "kbd"
  BY <1>3, <1>4, <1>6 DEF c, k
<1>13. \A i \in 1 .. n : AuxBytes(n)[i].src = "aux"
  BY <1>7, <1>8
<1> QED  BY <1>6, <1>7, <1>10, <1>11, <1>12, <1>13

-----------------------------------------------------------------------------
(* Loops over the bytes of a frame.                                        *)

\* What BufferPut brings from D[i - 1] to D[i] brings PutAll to the last D.
LEMMA PutAllLeads ==
    ASSUME NEW s \in Hardware, NEW bytes \in Seq(Bytes), NEW D, s \in D[0],
           \A i \in 1 .. Len(bytes) : \A x \in Hardware :
              x \in D[i - 1] => BufferPut(x, bytes[i]) \in D[i]
    PROVE  PutAll(s, bytes) \in Hardware /\ PutAll(s, bytes) \in D[Len(bytes)]
<1> DEFINE n == Len(bytes)
           Turn(x, i) == BufferPut(x, bytes[i])
           A == CHOOSE g : g = [i \in 0 .. n |-> IF i = 0 THEN s ELSE Turn(g[i - 1], i)]
           G == [i \in 1 .. n |-> [x \in Hardware |-> Turn(x, i)]]
<1>1. PutAll(s, bytes) = A[n]
  BY DEF PutAll
<1>2. n \in Nat
  OBVIOUS
<1>3. \A i \in 1 .. n : \A x \in Hardware : Turn(x, i) \in Hardware
  BY PutTyped
<1>4. G \in [1 .. n -> [Hardware -> Hardware]]
  BY <1>3
<1>5. PICK g : Iterates(g, n, Hardware, s, G)
  <2> HIDE DEF G, n
  <2> QED  BY <1>2, <1>4, IterationExists
<1>6. g = [i \in 0 .. n |-> IF i = 0 THEN s ELSE Turn(g[i - 1], i)]
  <2> HIDE DEF Turn, n
  <2>1. \A i \in 1 .. n : g[i - 1] \in Hardware
    BY <1>2, <1>5 DEF Iterates
  <2>2. \A i \in 1 .. n : g[i] = Turn(g[i - 1], i)
    BY <1>5, <2>1 DEF Iterates
  <2>3. \A i \in 0 .. n : i # 0 => i \in 1 .. n
    BY <1>2
  <2>4. \A i \in 0 .. n : g[i] = IF i = 0 THEN s ELSE Turn(g[i - 1], i)
    BY <1>5, <2>2, <2>3 DEF Iterates
  <2>5. g = [i \in 0 .. n |-> g[i]]
    BY <1>5 DEF Iterates
  <2> QED  BY <2>4, <2>5
<1>7. A = [i \in 0 .. n |-> IF i = 0 THEN s ELSE Turn(A[i - 1], i)]
  <2> HIDE DEF Turn, n
  <2> QED  BY <1>6, Zenon
<1> DEFINE P == {i \in 0 .. n : A[i] \in Hardware /\ A[i] \in D[i]}
<1>8. 0 \in P
  <2>1. A[0] = s
    <3> HIDE DEF A, Turn, n
    <3> QED  BY <1>2, <1>7
  <2> HIDE DEF A
  <2> QED  BY <1>2, <2>1
<1>9. ASSUME NEW i \in 1 .. n, i - 1 \in P PROVE i \in P
  <2>1. i \in 0 .. n /\ i # 0
    BY <1>2
  <2>2. A[i] = Turn(A[i - 1], i)
    <3> HIDE DEF A, Turn
    <3> QED  BY <1>7, <2>1
  <2>3. A[i - 1] \in Hardware /\ A[i - 1] \in D[i - 1]
    BY <1>9
  <2> HIDE DEF A
  <2>4. A[i] \in Hardware /\ A[i] \in D[i]
    BY <1>3, <2>2, <2>3
  <2> QED  BY <2>1, <2>4
<1>10. P = 0 .. n
  <2>1. P \in SUBSET (0 .. n)
    OBVIOUS
  <2> HIDE DEF P, n
  <2> QED  BY <1>2, <1>8, <1>9, <2>1, IntervalInduction
<1>11. n \in P
  <2> HIDE DEF P, n
  <2> QED  BY <1>2, <1>10
<1> HIDE DEF A
<1> QED  BY <1>1, <1>11

-----------------------------------------------------------------------------
(* What buffering leaves alone, whatever the guest does.                   *)

Kept(s, t) ==
    /\ t \in Hardware /\ (Moving(s) => Moving(t))
    /\ t.rep = s.rep /\ (t.scan <=> s.scan)

LEMMA KeptTrans ==
    ASSUME NEW s, NEW t, NEW u, Kept(s, t), Kept(t, u) PROVE Kept(s, u)
BY DEF Kept

LEMMA PutKept ==
    ASSUME NEW s \in Hardware, NEW b \in Bytes
    PROVE  Kept(s, BufferPut(s, b))
<1>1. /\ BufferPut(s, b).rep = s.rep
      /\ BufferPut(s, b).scan <=> s.scan
  BY DEF BufferPut, MaybeTransferBuffer, Hardware
<1> QED  BY <1>1, PutTyped DEF Kept

LEMMA PutAllKept ==
    ASSUME NEW s \in Hardware, NEW bytes \in Seq(Bytes)
    PROVE  Kept(s, PutAll(s, bytes))
<1> DEFINE S == {x \in Hardware : Kept(s, x)}
           D == [i \in 0 .. Len(bytes) |-> S]
<1>1. Len(bytes) \in Nat /\ \A i \in 1 .. Len(bytes) : bytes[i] \in Bytes
  OBVIOUS
<1>2. \A i \in 0 .. Len(bytes) : D[i] = S
  OBVIOUS
<1>3. s \in D[0]
  BY <1>1, <1>2 DEF Kept
<1>4. ASSUME NEW i \in 1 .. Len(bytes), NEW x \in Hardware, x \in D[i - 1]
      PROVE  BufferPut(x, bytes[i]) \in D[i]
  <2>1. i \in 0 .. Len(bytes) /\ i - 1 \in 0 .. Len(bytes)
    BY <1>1
  <2>2. Kept(s, x)
    BY <1>2, <1>4, <2>1
  <2>3. Kept(x, BufferPut(x, bytes[i]))
    BY <1>1, PutKept
  <2>4. Kept(s, BufferPut(x, bytes[i]))
    BY <2>2, <2>3, KeptTrans
  <2>5. BufferPut(x, bytes[i]) \in S
    BY <2>4 DEF Kept
  <2> QED  BY <1>2, <2>1, <2>5
<1> HIDE DEF D
<1>5. PutAll(s, bytes) \in D[Len(bytes)]
  BY <1>3, <1>4, PutAllLeads
<1>6. PutAll(s, bytes) \in S
  BY <1>1, <1>2, <1>5
<1> QED  BY <1>6

LEMMA PushedKept ==
    ASSUME NEW s \in Hardware
    PROVE  /\ Kept(s, MousePushed(s)) /\ Kept(s, KbdPushed(s))
           /\ MouseFrame(s) \in Seq(Bytes) /\ KbdFrame(s) \in Seq(Bytes)
           /\ Kept(s, [s EXCEPT !.over = FALSE])
<1>1. Kept(s, MousePushed(s))
  <2>1. CASE MouseMayPush(s)
    <3> DEFINE t == [s EXCEPT !.moved = FALSE, !.mready = FALSE]
    <3>1. t \in Hardware
      BY DEF Hardware
    <3>2. t.rep = s.rep /\ (t.scan <=> s.scan) /\ (Moving(s) => Moving(t))
      BY DEF Hardware, Moving
    <3> QED  BY <2>1, <3>1, <3>2 DEF MousePushed, Kept
  <2>2. CASE ~MouseMayPush(s)
    BY <2>2 DEF Kept, MousePushed
  <2> QED  BY <2>1, <2>2
<1>2. Kept(s, KbdPushed(s))
  <2>1. CASE KbdMayPush(s)
    <3>1. Tail(s.q) \in Seq(Frames)
      BY <2>1 DEF Hardware, KbdMayPush
    <3> QED  BY <2>1, <3>1 DEF Kept, KbdPushed, Hardware, Moving
  <2>2. CASE ~KbdMayPush(s)
    BY <2>2 DEF Kept, KbdPushed
  <2> QED  BY <2>1, <2>2
<1>3. MouseFrame(s) \in Seq(Bytes)
  BY FramesTyped, BufferAssumption DEF MouseFrame
<1>4. KbdFrame(s) \in Seq(Bytes)
  <2>1. CASE KbdMayPush(s)
    <3>1. Head(s.q) \in Nat
      BY <2>1 DEF Hardware, KbdMayPush, Frames
    <3> QED  BY <2>1, <3>1, FramesTyped DEF KbdFrame
  <2>2. CASE ~KbdMayPush(s)
    BY <2>2 DEF KbdFrame
  <2> QED  BY <2>1, <2>2
<1>5. Kept(s, [s EXCEPT !.over = FALSE])
  BY DEF Kept, Hardware, Moving
<1> QED  BY <1>1, <1>2, <1>3, <1>4, <1>5

LEMMA FlushKept ==
    ASSUME NEW s \in Hardware
    PROVE  Kept(s, FlushBuffer(s))
<1> DEFINE e == Emptied(s)
           m == PutAll(MousePushed(e), MouseFrame(e))
           a == IF ~s.quiet /\ FreedAux(s, e) THEN m ELSE e
           o == [KbdPushed(a) EXCEPT !.over = FALSE]
           k == PutAll(o, KbdFrame(a))
<1>1. e \in Hardware /\ Kept(s, e)
  <2>1. e \in Hardware
    <3>1. <<>> \in Seq(Bytes) /\ "ctl" \in Origins /\ 0 \in Int
      BY DEF Origins
    <3> QED  BY <3>1 DEF Emptied, Hardware
  <2>2. e.rep = s.rep /\ (e.scan <=> s.scan) /\ Moving(e)
    BY DEF Emptied, Hardware, Moving
  <2> QED  BY <2>1, <2>2 DEF Kept
<1> HIDE DEF e
<1>2. Kept(s, m) /\ m \in Hardware
  <2>1. MousePushed(e) \in Hardware /\ Kept(e, MousePushed(e)) /\ MouseFrame(e) \in Seq(Bytes)
    BY <1>1, PushedKept DEF Kept
  <2>2. Kept(MousePushed(e), m)
    BY <2>1, PutAllKept
  <2>3. Kept(s, MousePushed(e))
    BY <1>1, <2>1, KeptTrans
  <2>4. Kept(s, m)
    BY <2>2, <2>3, KeptTrans
  <2> QED  BY <2>4 DEF Kept
<1>3. Kept(s, a) /\ a \in Hardware
  BY <1>1, <1>2
<1> HIDE DEF a
<1>4. Kept(s, k) /\ k \in Hardware
  <2>1. KbdPushed(a) \in Hardware /\ Kept(a, KbdPushed(a)) /\ KbdFrame(a) \in Seq(Bytes)
    BY <1>3, PushedKept DEF Kept
  <2>2. o \in Hardware /\ Kept(KbdPushed(a), o)
    BY <2>1, PushedKept DEF Kept
  <2>3. Kept(s, o)
    BY <1>3, <2>1, <2>2, KeptTrans
  <2>4. Kept(o, k)
    BY <2>1, <2>2, PutAllKept
  <2>5. Kept(s, k)
    BY <2>3, <2>4, KeptTrans
  <2> QED  BY <2>5 DEF Kept
<1>5. FlushBuffer(s) = IF ~s.quiet /\ FreedKbd(s, a) THEN k ELSE a
  BY DEF FlushBuffer, a, e
<1> QED  BY <1>3, <1>4, <1>5

LEMMA AddKept ==
    ASSUME NEW s \in Hardware, NEW b \in Bytes
    PROVE  Kept(s, BufferAdd(s, b))
BY FlushKept, PutKept DEF BufferAdd

\* What BufferAdd brings from D[i - 1] to D[i] brings BufferAddAll to the last D.
LEMMA AddAllLeads ==
    ASSUME NEW s \in Hardware, NEW bytes \in Seq(Bytes), NEW D, s \in D[0],
           \A i \in 1 .. Len(bytes) : \A x \in Hardware :
              x \in D[i - 1] => BufferAdd(x, bytes[i]) \in D[i]
    PROVE  BufferAddAll(s, bytes) \in Hardware /\ BufferAddAll(s, bytes) \in D[Len(bytes)]
<1> DEFINE n == Len(bytes)
           Turn(x, i) == BufferAdd(x, bytes[i])
           A == CHOOSE g : g = [i \in 0 .. n |-> IF i = 0 THEN s ELSE Turn(g[i - 1], i)]
           G == [i \in 1 .. n |-> [x \in Hardware |-> Turn(x, i)]]
<1>1. BufferAddAll(s, bytes) = A[n]
  BY DEF BufferAddAll
<1>2. n \in Nat
  OBVIOUS
<1>3. \A i \in 1 .. n : \A x \in Hardware : Turn(x, i) \in Hardware
  BY AddKept DEF Kept
<1>4. G \in [1 .. n -> [Hardware -> Hardware]]
  BY <1>3
<1>5. PICK g : Iterates(g, n, Hardware, s, G)
  <2> HIDE DEF G, n
  <2> QED  BY <1>2, <1>4, IterationExists
<1>6. g = [i \in 0 .. n |-> IF i = 0 THEN s ELSE Turn(g[i - 1], i)]
  <2> HIDE DEF Turn, n
  <2>1. \A i \in 1 .. n : g[i - 1] \in Hardware
    BY <1>2, <1>5 DEF Iterates
  <2>2. \A i \in 1 .. n : g[i] = Turn(g[i - 1], i)
    BY <1>5, <2>1 DEF Iterates
  <2>3. \A i \in 0 .. n : i # 0 => i \in 1 .. n
    BY <1>2
  <2>4. \A i \in 0 .. n : g[i] = IF i = 0 THEN s ELSE Turn(g[i - 1], i)
    BY <1>5, <2>2, <2>3 DEF Iterates
  <2>5. g = [i \in 0 .. n |-> g[i]]
    BY <1>5 DEF Iterates
  <2> QED  BY <2>4, <2>5
<1>7. A = [i \in 0 .. n |-> IF i = 0 THEN s ELSE Turn(A[i - 1], i)]
  <2> HIDE DEF Turn, n
  <2> QED  BY <1>6, Zenon
<1> DEFINE P == {i \in 0 .. n : A[i] \in Hardware /\ A[i] \in D[i]}
<1>8. 0 \in P
  <2>1. A[0] = s
    <3> HIDE DEF A, Turn, n
    <3> QED  BY <1>2, <1>7
  <2> HIDE DEF A
  <2> QED  BY <1>2, <2>1
<1>9. ASSUME NEW i \in 1 .. n, i - 1 \in P PROVE i \in P
  <2>1. i \in 0 .. n /\ i # 0
    BY <1>2
  <2>2. A[i] = Turn(A[i - 1], i)
    <3> HIDE DEF A, Turn
    <3> QED  BY <1>7, <2>1
  <2>3. A[i - 1] \in Hardware /\ A[i - 1] \in D[i - 1]
    BY <1>9
  <2> HIDE DEF A
  <2>4. A[i] \in Hardware /\ A[i] \in D[i]
    BY <1>3, <2>2, <2>3
  <2> QED  BY <2>1, <2>4
<1>10. P = 0 .. n
  <2>1. P \in SUBSET (0 .. n)
    OBVIOUS
  <2> HIDE DEF P, n
  <2> QED  BY <1>2, <1>8, <1>9, <2>1, IntervalInduction
<1>11. n \in P
  <2> HIDE DEF P, n
  <2> QED  BY <1>2, <1>10
<1> HIDE DEF A
<1> QED  BY <1>1, <1>11

LEMMA AddAllKept ==
    ASSUME NEW s \in Hardware, NEW bytes \in Seq(Bytes)
    PROVE  Kept(s, BufferAddAll(s, bytes))
<1> DEFINE S == {x \in Hardware : Kept(s, x)}
           D == [i \in 0 .. Len(bytes) |-> S]
<1>1. Len(bytes) \in Nat /\ \A i \in 1 .. Len(bytes) : bytes[i] \in Bytes
  OBVIOUS
<1>2. \A i \in 0 .. Len(bytes) : D[i] = S
  OBVIOUS
<1>3. s \in D[0]
  BY <1>1, <1>2 DEF Kept
<1>4. ASSUME NEW i \in 1 .. Len(bytes), NEW x \in Hardware, x \in D[i - 1]
      PROVE  BufferAdd(x, bytes[i]) \in D[i]
  <2>1. i \in 0 .. Len(bytes) /\ i - 1 \in 0 .. Len(bytes)
    BY <1>1
  <2>2. Kept(s, x)
    BY <1>2, <1>4, <2>1
  <2>3. Kept(x, BufferAdd(x, bytes[i]))
    BY <1>1, AddKept
  <2>4. Kept(s, BufferAdd(x, bytes[i]))
    BY <2>2, <2>3, KeptTrans
  <2>5. BufferAdd(x, bytes[i]) \in S
    BY <2>4 DEF Kept
  <2> QED  BY <1>2, <2>1, <2>5
<1> HIDE DEF D
<1>5. BufferAddAll(s, bytes) \in D[Len(bytes)]
  BY <1>3, <1>4, AddAllLeads
<1>6. BufferAddAll(s, bytes) \in S
  BY <1>1, <1>2, <1>5
<1> QED  BY <1>6

LEMMA FrameKept ==
    ASSUME NEW s \in Hardware, NEW frame \in Seq(Bytes)
    PROVE  Kept(s, AddFrame(s, frame))
<1> DEFINE t == EnforceBufferSpace(s, Len(frame))
<1>1. Kept(s, t) /\ t \in Hardware
  <2>1. Kept(s, s)
    BY DEF Kept
  <2> QED  BY <2>1, FlushKept DEF EnforceBufferSpace, Kept
<1>2. Kept(t, BufferAddAll(t, frame))
  BY <1>1, AddAllKept
<1>3. Kept(s, BufferAddAll(t, frame))
  BY <1>1, <1>2, KeptTrans
<1>4. Kept(s, s)
  BY DEF Kept
<1> QED  BY <1>3, <1>4 DEF AddFrame

LEMMA TransfersKept ==
    ASSUME NEW s \in Hardware
    PROVE  /\ Kept(s, MouseTransferFrame(s)) /\ Kept(s, KbdTransferBuffer(s))
           /\ Kept(s, NotifyKbd(s)) /\ Kept(s, Ack(s))
<1>1. ASSUME NEW t \in Hardware PROVE Kept(t, MouseTransferFrame(t))
  <2>1. MousePushed(t) \in Hardware /\ Kept(t, MousePushed(t)) /\ MouseFrame(t) \in Seq(Bytes)
    BY PushedKept DEF Kept
  <2>2. Kept(MousePushed(t), MouseTransferFrame(t))
    BY <2>1, FrameKept DEF MouseTransferFrame
  <2> QED  BY <2>1, <2>2, KeptTrans
<1>2. ASSUME NEW t \in Hardware PROVE Kept(t, KbdTransferBuffer(t))
  <2>1. KbdPushed(t) \in Hardware /\ Kept(t, KbdPushed(t)) /\ KbdFrame(t) \in Seq(Bytes)
    BY PushedKept DEF Kept
  <2>2. Kept(KbdPushed(t), KbdTransferBuffer(t))
    BY <2>1, FrameKept DEF KbdTransferBuffer
  <2> QED  BY <2>1, <2>2, KeptTrans
<1>3. Kept(s, NotifyKbd(s))
  <2> DEFINE o == [s EXCEPT !.over = FALSE]
  <2>1. o \in Hardware /\ Kept(s, o)
    BY PushedKept DEF Kept
  <2>2. NotifyKbd(s) = KbdTransferBuffer(o)
    BY DEF NotifyKbd
  <2> HIDE DEF o
  <2> QED  BY <1>2, <2>1, <2>2, KeptTrans
<1>4. Kept(s, Ack(s))
  BY FramesTyped, FrameKept DEF Ack
<1> QED  BY <1>1, <1>2, <1>3, <1>4

LEMMA NotifyFreedKept ==
    ASSUME NEW before, NEW s \in Hardware
    PROVE  Kept(s, NotifyFreed(before, s))
<1> DEFINE a == IF FreedAux(before, s) THEN MouseTransferFrame(s) ELSE s
<1>1. Kept(s, a) /\ a \in Hardware
  <2>1. Kept(s, s)
    BY DEF Kept
  <2> QED  BY <2>1, TransfersKept DEF Kept
<1>2. NotifyFreed(before, s) = IF FreedKbd(before, a) THEN NotifyKbd(a) ELSE a
  BY DEF NotifyFreed
<1> HIDE DEF a
<1>3. Kept(s, NotifyKbd(a))
  BY <1>1, TransfersKept, KeptTrans
<1> QED  BY <1>1, <1>2, <1>3

LEMMA FieldsKept ==
    ASSUME NEW s \in Hardware
    PROVE  /\ Kept(s, s)
           /\ Kept(s, [s EXCEPT !.moved = TRUE]) /\ Kept(s, [s EXCEPT !.mready = TRUE])
           /\ Kept(s, [s EXCEPT !.dump = TRUE]) /\ Kept(s, [s EXCEPT !.dump = FALSE])
           /\ Kept(s, [s EXCEPT !.quiet = TRUE]) /\ Kept(s, [s EXCEPT !.quiet = FALSE])
           /\ Kept(s, [s EXCEPT !.offA = TRUE]) /\ Kept(s, [s EXCEPT !.offA = FALSE])
           /\ Kept(s, [s EXCEPT !.offK = TRUE]) /\ Kept(s, [s EXCEPT !.offK = FALSE])
           /\ Kept(s, [s EXCEPT !.offA = TRUE, !.offK = TRUE])
           /\ Kept(s, [s EXCEPT !.ready = FALSE])
           /\ Kept(s, [s EXCEPT !.waitA = @ - 1]) /\ Kept(s, [s EXCEPT !.waitK = @ - 1])
           /\ Kept(s, [s EXCEPT !.cmd = "none", !.quiet = TRUE])
           /\ Kept(s, [s EXCEPT !.new = FALSE, !.src = "ctl", !.ready = FALSE])
           /\ Kept(s, [s EXCEPT !.q = <<>>, !.over = TRUE])
           /\ \A b, c \in BOOLEAN : /\ Kept(s, [s EXCEPT !.offA = b, !.offK = c])
                                    /\ Kept(s, [s EXCEPT !.ready = FALSE, !.rpt = b])
           /\ \A c \in Commands \cup {"none"} : Kept(s, [s EXCEPT !.cmd = c])
           /\ \A c \in KbdWaits : Kept(s, [s EXCEPT !.kcmd = c])
           /\ \A n \in Nat : Kept(s, [s EXCEPT !.wait = n])
           /\ \A n \in Frames : Kept(s, [s EXCEPT !.q = Append(@, n)])
<1>1. s.waitA - 1 \in Int /\ s.waitK - 1 \in Int /\ <<>> \in Seq(Frames) /\ "ctl" \in Origins
  BY DEF Hardware, Origins
<1>2. \A n \in Frames : Append(s.q, n) \in Seq(Frames)
  BY DEF Hardware
<1>3. Kept(s, s)
  BY DEF Kept
<1>4. Kept(s, [s EXCEPT !.moved = TRUE]) /\ Kept(s, [s EXCEPT !.mready = TRUE])
  BY DEF Kept, Hardware, Moving
<1>5. Kept(s, [s EXCEPT !.dump = TRUE]) /\ Kept(s, [s EXCEPT !.dump = FALSE])
  BY DEF Kept, Hardware, Moving
<1>6. Kept(s, [s EXCEPT !.quiet = TRUE]) /\ Kept(s, [s EXCEPT !.quiet = FALSE])
  BY DEF Kept, Hardware, Moving
<1>7. Kept(s, [s EXCEPT !.offA = TRUE]) /\ Kept(s, [s EXCEPT !.offA = FALSE])
  BY DEF Kept, Hardware, Moving
<1>8. Kept(s, [s EXCEPT !.offK = TRUE]) /\ Kept(s, [s EXCEPT !.offK = FALSE])
  BY DEF Kept, Hardware, Moving
<1>9. Kept(s, [s EXCEPT !.offA = TRUE, !.offK = TRUE]) /\ Kept(s, [s EXCEPT !.ready = FALSE])
  BY DEF Kept, Hardware, Moving
<1>10. Kept(s, [s EXCEPT !.waitA = @ - 1]) /\ Kept(s, [s EXCEPT !.waitK = @ - 1])
  BY <1>1 DEF Kept, Hardware, Moving
<1>11. Kept(s, [s EXCEPT !.cmd = "none", !.quiet = TRUE])
  BY DEF Kept, Hardware, Moving
<1>12. Kept(s, [s EXCEPT !.new = FALSE, !.src = "ctl", !.ready = FALSE])
  BY <1>1 DEF Kept, Hardware, Moving
<1>13. Kept(s, [s EXCEPT !.q = <<>>, !.over = TRUE])
  BY <1>1 DEF Kept, Hardware, Moving
<1>14. ASSUME NEW b \in BOOLEAN, NEW c \in BOOLEAN
       PROVE  /\ Kept(s, [s EXCEPT !.offA = b, !.offK = c])
              /\ Kept(s, [s EXCEPT !.ready = FALSE, !.rpt = b])
  <2>1. Kept(s, [s EXCEPT !.offA = TRUE, !.offK = TRUE])
    BY DEF Kept, Hardware, Moving
  <2>2. Kept(s, [s EXCEPT !.offA = TRUE, !.offK = FALSE])
    BY DEF Kept, Hardware, Moving
  <2>3. Kept(s, [s EXCEPT !.offA = FALSE, !.offK = TRUE])
    BY DEF Kept, Hardware, Moving
  <2>4. Kept(s, [s EXCEPT !.offA = FALSE, !.offK = FALSE])
    BY DEF Kept, Hardware, Moving
  <2>5. Kept(s, [s EXCEPT !.ready = FALSE, !.rpt = TRUE])
    BY DEF Kept, Hardware, Moving
  <2>6. Kept(s, [s EXCEPT !.ready = FALSE, !.rpt = FALSE])
    BY DEF Kept, Hardware, Moving
  <2>7. (b = TRUE \/ b = FALSE) /\ (c = TRUE \/ c = FALSE)
    BY Zenon
  <2> QED  BY <2>1, <2>2, <2>3, <2>4, <2>5, <2>6, <2>7, Zenon
<1>15. ASSUME NEW c \in Commands \cup {"none"} PROVE Kept(s, [s EXCEPT !.cmd = c])
  BY DEF Kept, Hardware, Moving
<1>16. ASSUME NEW c \in KbdWaits PROVE Kept(s, [s EXCEPT !.kcmd = c])
  BY DEF Kept, Hardware, Moving
<1>17. ASSUME NEW n \in Nat PROVE Kept(s, [s EXCEPT !.wait = n])
  BY DEF Kept, Hardware, Moving
<1>18. ASSUME NEW n \in Frames PROVE Kept(s, [s EXCEPT !.q = Append(@, n)])
  BY <1>2 DEF Kept, Hardware, Moving
<1> QED  BY <1>3, <1>4, <1>5, <1>6, <1>7, <1>8, <1>9, <1>10, <1>11, <1>12, <1>13, <1>14, <1>15,
            <1>16, <1>17, <1>18, Zenon

\* The answer to a command that flushes first.
LEMMA AnswerKept ==
    ASSUME NEW s \in Hardware, NEW t \in Hardware, Kept(s, t), NEW n \in Nat
    PROVE  /\ Kept(s, BufferAddAll(FlushBuffer(t), Reply(n)))
           /\ Kept(s, BufferAddAll(FlushBuffer(t), KbdBytes(n)))
           /\ Kept(s, BufferAddAll(FlushBuffer(t), AuxBytes(n)))
<1>1. Kept(s, FlushBuffer(t)) /\ FlushBuffer(t) \in Hardware
  <2>1. Kept(t, FlushBuffer(t))
    BY FlushKept
  <2> QED  BY <2>1, KeptTrans DEF Kept
<1>2. ASSUME NEW bytes \in Seq(Bytes) PROVE Kept(s, BufferAddAll(FlushBuffer(t), bytes))
  BY <1>1, AddAllKept, KeptTrans
<1> QED  BY <1>2, FramesTyped

LEMMA CommandKept ==
    ASSUME NEW s \in Hardware, NEW c \in Commands
    PROVE  Kept(s, ExecuteCommand(s, c))
<1>1. CASE c \in {"WriteByteConfig", "SimulateInputKbd", "SimulateInputAux", "WriteAux",
                  "OtherParameter"}
  BY <1>1, FieldsKept DEF ExecuteCommand
<1>2. CASE c \in {"Query", "ReadFwCopyright"}
  BY <1>2, FieldsKept, AnswerKept, BufferAssumption DEF ExecuteCommand
<1>3. CASE c = "ReadRam"
  BY <1>3, FramesTyped, AddAllKept DEF ExecuteCommand
<1>4. CASE c \in {"DisablePortAux", "EnablePortAux", "DisablePortKbd", "EnablePortKbd", "Ignored"}
  BY <1>4, FieldsKept DEF ExecuteCommand
<1>5. CASE c \in {"TestPortAux", "TestPortKbd", "TestController"}
  <2>1. ASSUME NEW t, Kept(s, t) PROVE Kept(s, BufferAddAll(FlushBuffer(t), Reply(1)))
    BY <2>1, AnswerKept DEF Kept
  <2>2. CASE c = "TestPortAux"
    BY <2>1, <2>2, FieldsKept DEF ExecuteCommand
  <2>3. CASE c = "TestPortKbd"
    BY <2>1, <2>3, FieldsKept DEF ExecuteCommand
  <2>4. CASE c = "TestController"
    BY <2>1, <2>4, FieldsKept DEF ExecuteCommand
  <2> QED  BY <1>5, <2>2, <2>3, <2>4
<1>6. CASE c = "DiagnosticDump"
  <2> DEFINE t == [FlushBuffer(s) EXCEPT !.dump = TRUE]
  <2>1. FlushBuffer(s) \in Hardware /\ Kept(s, FlushBuffer(s))
    BY FlushKept DEF Kept
  <2>2. t \in Hardware /\ Kept(FlushBuffer(s), t)
    BY <2>1, FieldsKept DEF Kept
  <2>3. Kept(t, BufferAddAll(t, Reply(DumpLength)))
    BY <2>2, FramesTyped, AddAllKept, BufferAssumption
  <2>4. ExecuteCommand(s, c) = BufferAddAll(t, Reply(DumpLength))
    BY <1>6 DEF ExecuteCommand
  <2> HIDE DEF t
  <2> QED  BY <2>1, <2>2, <2>3, <2>4, KeptTrans
<1> QED  BY <1>1, <1>2, <1>3, <1>4, <1>5, <1>6 DEF Commands

\* The parameters that fit a command of the controller.
Fits(c, p) ==
    /\ c = "WriteByteConfig" => p \in [offA : BOOLEAN, offK : BOOLEAN]
    /\ c = "WriteAux" => p \in [answer : MouseAnswers, report : BOOLEAN]

\* The lengths of the mouse's frames and of its whole answer.
LEMMA AnswerLengths ==
    ASSUME NEW a \in MouseAnswers
    PROVE  /\ a[1] \in Nat /\ a[2] \in Nat /\ a[3] \in Nat /\ a[4] \in Nat
           /\ a[1] + a[2] + a[3] + a[4] <= AuxLength + 1
<1>1. AuxLength \in Nat /\ 3 <= AuxLength
  BY BufferAssumption
<1>2. CASE a = <<0, 0, 0, 0>>
  BY <1>1, <1>2
<1>3. CASE a = <<1, 0, 0, 0>>
  BY <1>1, <1>3
<1>4. CASE a = <<1, 1, 0, 0>>
  BY <1>1, <1>4
<1>5. CASE a = <<1, 1, 1, 0>>
  BY <1>1, <1>5
<1>6. CASE a = <<1, 1, 1, 1>>
  BY <1>1, <1>6
<1>7. CASE a = <<1, AuxLength, 0, 0>>
  BY <1>1, <1>7
<1> QED  BY <1>2, <1>3, <1>4, <1>5, <1>6, <1>7 DEF MouseAnswers, PolledFrame

\* The mouse before it answers.
LEMMA MouseSet ==
    ASSUME NEW s \in Hardware, NEW p \in [answer : MouseAnswers, report : BOOLEAN],
           NEW r, r = MouseTold(s, p)
    PROVE  /\ r \in Hardware /\ r.buf = s.buf /\ (r.new <=> s.new) /\ r.src = s.src
           /\ r.waitK = s.waitK /\ r.waitA = s.waitA
           /\ r.q = s.q /\ r.cmd = s.cmd /\ r.kcmd = s.kcmd
           /\ (r.over <=> s.over) /\ (r.offK <=> s.offK) /\ (r.offA <=> s.offA)
           /\ (r.dump <=> s.dump) /\ (r.quiet <=> s.quiet)
           /\ r.rep = s.rep /\ (r.scan <=> s.scan) /\ r.wait = s.wait /\ ~r.ready
<1> PICK b : b = p.report
  OBVIOUS
<1> PICK m \in BOOLEAN : m = (s.moved /\ p.answer # PolledFrame)
  OBVIOUS
<1>1. b \in BOOLEAN
  OBVIOUS
<1>2. r = [s EXCEPT !.ready = FALSE, !.rpt = b, !.moved = m]
  BY DEF MouseTold
<1>3. r \in Hardware
  BY <1>1, <1>2 DEF Hardware
<1> QED  BY <1>2, <1>3 DEF Hardware

LEMMA ParameterKept ==
    ASSUME NEW s \in Hardware, NEW c \in Commands, NEW p, Fits(c, p)
    PROVE  Kept(s, ExecuteParameter(s, c, p))
<1>1. CASE c = "WriteByteConfig"
  <2>1. p.offA \in BOOLEAN /\ p.offK \in BOOLEAN
    BY <1>1, Zenon DEF Fits
  <2>2. Kept(s, [s EXCEPT !.offA = p.offA, !.offK = p.offK])
    BY <2>1, FieldsKept, Zenon
  <2> QED  BY <1>1, <2>2 DEF ExecuteParameter
<1>2. CASE c \in {"SimulateInputKbd", "SimulateInputAux"}
  BY <1>2, FieldsKept, AnswerKept DEF ExecuteParameter
<1>3. CASE c = "WriteAux"
  <2>1. p \in [answer : MouseAnswers, report : BOOLEAN]
    BY <1>3 DEF Fits
  <2> DEFINE r == MouseTold(s, p)
             a == p.answer
             t1 == AddFrame(r, AuxBytes(a[1]))
             t2 == AddFrame(t1, AuxBytes(a[2]))
             t3 == AddFrame(t2, AuxBytes(a[3]))
             t4 == AddFrame(t3, AuxBytes(a[4]))
  <2>2. ExecuteParameter(s, c, p) = t4
    BY <1>3 DEF ExecuteParameter, MouseAnswered
  <2>3. a \in MouseAnswers
    BY <2>1
  <2>4. Kept(s, r)
    BY <2>1, MouseSet DEF Kept, Moving
  <2> HIDE DEF a, r
  <2>5. a[1] \in Nat /\ a[2] \in Nat /\ a[3] \in Nat /\ a[4] \in Nat
    BY <2>3, AnswerLengths
  <2>6. ASSUME NEW v, Kept(s, v), NEW n \in Nat PROVE Kept(s, AddFrame(v, AuxBytes(n)))
    BY <2>6, FramesTyped, FrameKept, KeptTrans DEF Kept
  <2>7. Kept(s, t1)
    BY <2>4, <2>5, <2>6
  <2> HIDE DEF t1
  <2>8. Kept(s, t2)
    BY <2>5, <2>6, <2>7
  <2> HIDE DEF t2
  <2>9. Kept(s, t3)
    BY <2>5, <2>6, <2>8
  <2> HIDE DEF t3
  <2>10. Kept(s, t4)
    BY <2>5, <2>6, <2>9
  <2> QED  BY <2>2, <2>10
<1>4. CASE c \notin {"WriteByteConfig", "SimulateInputKbd", "SimulateInputAux", "WriteAux"}
  BY <1>4, FieldsKept DEF ExecuteParameter
<1> QED  BY <1>1, <1>2, <1>3, <1>4

LEMMA ReadKept ==
    ASSUME NEW s \in Hardware PROVE Kept(s, DataRead(s))
<1>1. ASSUME NEW t \in Hardware PROVE Kept(t, FinishDump(t))
  <2> DEFINE d == [t EXCEPT !.dump = FALSE]
             a == IF IsReadyForAuxFrame(d) THEN MouseTransferFrame(d) ELSE d
  <2>1. Kept(t, d) /\ d \in Hardware
    BY FieldsKept DEF Kept
  <2>2. FinishDump(t) = IF ~(t.dump /\ t.buf = <<>>) THEN t
                        ELSE IF IsReadyForKbdFrame(a) THEN NotifyKbd(a) ELSE a
    BY DEF FinishDump
  <2> HIDE DEF d
  <2>3. Kept(t, a) /\ a \in Hardware
    BY <2>1, TransfersKept, KeptTrans DEF Kept
  <2> HIDE DEF a
  <2>4. Kept(t, NotifyKbd(a))
    BY <2>3, TransfersKept, KeptTrans
  <2> QED  BY <2>2, <2>3, <2>4, FieldsKept
<1>2. ASSUME NEW t \in Hardware PROVE Kept(t, CountAuxRead(t))
  <2> DEFINE d == [t EXCEPT !.waitA = @ - 1]
  <2>1. Kept(t, d) /\ d \in Hardware
    BY FieldsKept DEF Kept
  <2>2. CountAuxRead(t) = IF t.src # "aux" THEN t
                          ELSE IF IsReadyForAuxFrame(d) THEN MouseTransferFrame(d) ELSE d
    BY DEF CountAuxRead
  <2> HIDE DEF d
  <2>3. Kept(t, MouseTransferFrame(d))
    BY <2>1, TransfersKept, KeptTrans
  <2> QED  BY <2>1, <2>2, <2>3, FieldsKept
<1>3. ASSUME NEW t \in Hardware PROVE Kept(t, CountKbdRead(t))
  <2> DEFINE d == [t EXCEPT !.waitK = @ - 1]
  <2>1. Kept(t, d) /\ d \in Hardware
    BY FieldsKept DEF Kept
  <2>2. CountKbdRead(t) = IF t.src # "kbd" THEN t
                          ELSE IF IsReadyForKbdFrame(d) THEN NotifyKbd(d) ELSE d
    BY DEF CountKbdRead
  <2> HIDE DEF d
  <2>3. Kept(t, NotifyKbd(d))
    BY <2>1, TransfersKept, KeptTrans
  <2> QED  BY <2>1, <2>2, <2>3, FieldsKept
<1> DEFINE f == FinishDump(s)
           a == CountAuxRead(f)
           k == CountKbdRead(a)
           r == [k EXCEPT !.new = FALSE, !.src = "ctl", !.ready = FALSE]
<1>4. DataRead(s) = IF ~s.new THEN s ELSE r
  BY DEF DataRead
<1>5. f \in Hardware /\ Kept(s, f)
  BY <1>1 DEF Kept
<1> HIDE DEF f
<1>6. a \in Hardware /\ Kept(s, a)
  BY <1>2, <1>5, KeptTrans DEF Kept
<1> HIDE DEF a
<1>7. k \in Hardware /\ Kept(s, k)
  BY <1>3, <1>6, KeptTrans DEF Kept
<1> HIDE DEF k
<1>8. Kept(s, r)
  BY <1>7, FieldsKept, KeptTrans
<1> QED  BY <1>4, <1>8, FieldsKept

LEMMA ControllerKept ==
    ASSUME NEW s \in Hardware, s.cmd \in Commands, NEW p, Fits(s.cmd, p)
    PROVE  Kept(s, ToController(s, p))
<1> DEFINE z == [s EXCEPT !.cmd = "none", !.quiet = TRUE]
           e == FlushBuffer(z)
           x == ExecuteParameter(e, s.cmd, p)
           t == NotifyAgain(x)
<1>1. ToController(s, p) = NotifyFreed(s, t)
  BY DEF ToController
<1>2. Kept(s, z) /\ z \in Hardware
  BY FieldsKept DEF Kept
<1> HIDE DEF z
<1>3. Kept(s, e) /\ e \in Hardware
  BY <1>2, FlushKept, KeptTrans DEF Kept
<1> HIDE DEF e
<1>4. Kept(s, x) /\ x \in Hardware
  BY <1>3, ParameterKept, KeptTrans DEF Kept
<1> HIDE DEF x
<1>5. Kept(s, t) /\ t \in Hardware
  BY <1>4, FieldsKept, KeptTrans DEF Kept, NotifyAgain
<1> HIDE DEF t
<1>6. Kept(s, NotifyFreed(s, t))
  BY <1>5, NotifyFreedKept, KeptTrans
<1> QED  BY <1>1, <1>6

LEMMA WrittenKept ==
    ASSUME NEW s \in Hardware, NEW c \in Commands
    PROVE  Kept(s, CommandWritten(s, c))
<1> DEFINE z == [s EXCEPT !.quiet = TRUE]
           d == [z EXCEPT !.dump = FALSE]
           e == IF s.dump THEN FlushBuffer(d) ELSE z
           n == [e EXCEPT !.cmd = "none"]
           x == ExecuteCommand(n, c)
           t == NotifyAgain(x)
<1>1. CommandWritten(s, c) = NotifyFreed(s, t)
  BY DEF CommandWritten
<1>2. Kept(s, z) /\ z \in Hardware
  BY FieldsKept DEF Kept
<1> HIDE DEF z
<1>3. Kept(s, d) /\ d \in Hardware
  BY <1>2, FieldsKept, KeptTrans DEF Kept
<1> HIDE DEF d
<1>4. Kept(s, e) /\ e \in Hardware
  BY <1>2, <1>3, FlushKept, KeptTrans DEF Kept
<1> HIDE DEF e
<1>5. Kept(s, n) /\ n \in Hardware
  <2>1. "none" \in Commands \cup {"none"}
    OBVIOUS
  <2>2. Kept(e, n)
    BY <1>4, <2>1, FieldsKept, Zenon
  <2> QED  BY <1>4, <2>2, KeptTrans DEF Kept
<1> HIDE DEF n
<1>6. Kept(s, x) /\ x \in Hardware
  BY <1>5, CommandKept, KeptTrans DEF Kept
<1> HIDE DEF x
<1>7. Kept(s, t) /\ t \in Hardware
  BY <1>6, FieldsKept, KeptTrans DEF Kept, NotifyAgain
<1> HIDE DEF t
<1>8. Kept(s, NotifyFreed(s, t))
  BY <1>7, NotifyFreedKept, KeptTrans
<1> QED  BY <1>1, <1>8

-----------------------------------------------------------------------------
(* The repeated key.                                                       *)

\* It is held down and may be repeated, and there is none while the keyboard
\* does not scan.
RepeatGood(s, hs) ==
    /\ s.rep = NoKey \/ s.rep \in hs
    /\ s.rep # NoKey => s.scan /\ s.rep \notin NoRepeat

Sound(s, hs) == s \in Hardware /\ Moving(s) /\ RepeatGood(s, hs)

LEMMA KeptSound ==
    ASSUME NEW s, NEW t, NEW hs, Sound(s, hs), Kept(s, t)
    PROVE  Sound(t, hs)
BY DEF Sound, Kept, RepeatGood

LEMMA ClearSound ==
    ASSUME NEW s \in Hardware, Moving(s), NEW hs
    PROVE  /\ Sound(ClearBuffer(s), hs)
           /\ Sound([ClearBuffer(s) EXCEPT !.scan = TRUE], hs)
           /\ Sound([ClearBuffer(s) EXCEPT !.scan = FALSE], hs)
<1>1. <<>> \in Seq(Frames) /\ 0 \in Nat /\ NoKey \in Keys \cup {NoKey}
  OBVIOUS
<1>2. ClearBuffer(s) \in Hardware
  BY <1>1 DEF ClearBuffer, Hardware
<1>3. /\ ClearBuffer(s).rep = NoKey /\ ClearBuffer(s).buf = s.buf
      /\ ClearBuffer(s).new <=> s.new
      /\ ClearBuffer(s).ready <=> s.ready
  BY DEF ClearBuffer, Hardware
<1> DEFINE c == ClearBuffer(s)
<1> HIDE DEF c
<1>4. Moving(c)
  BY <1>3 DEF Moving, c
<1>5. c \in Hardware /\ c.rep = NoKey
  BY <1>2, <1>3 DEF c
<1>6. Sound(c, hs)
  BY <1>4, <1>5 DEF Sound, RepeatGood
<1>7. Sound([c EXCEPT !.scan = TRUE], hs)
  <2> DEFINE d == [c EXCEPT !.scan = TRUE]
  <2>1. d \in Hardware
    BY <1>5 DEF Hardware
  <2>2. Moving(d) /\ d.rep = NoKey
    BY <1>4, <1>5 DEF Hardware, Moving
  <2> QED  BY <2>1, <2>2 DEF Sound, RepeatGood
<1>8. Sound([c EXCEPT !.scan = FALSE], hs)
  <2> DEFINE d == [c EXCEPT !.scan = FALSE]
  <2>1. d \in Hardware
    BY <1>5 DEF Hardware
  <2>2. Moving(d) /\ d.rep = NoKey
    BY <1>4, <1>5 DEF Hardware, Moving
  <2> QED  BY <2>1, <2>2 DEF Sound, RepeatGood
<1> QED  BY <1>6, <1>7, <1>8 DEF c

LEMMA LengthsFit == \A k \in Keys : Length[k] \in Frames \cup {0}
BY BufferAssumption DEF Frames

LEMMA KbdAddKept ==
    ASSUME NEW s \in Hardware, NEW n \in Frames \cup {0}
    PROVE  Kept(s, KbdBufferAdd(s, n))
<1> DEFINE a == [s EXCEPT !.q = Append(@, n)]
           o == [s EXCEPT !.q = <<>>, !.over = TRUE]
<1>0. Kept(s, s) /\ Kept(s, o)
  BY FieldsKept
<1>1. n # 0 => Kept(s, a) /\ a \in Hardware
  BY FieldsKept DEF Kept
<1>2. KbdBufferAdd(s, n) = IF s.over \/ n = 0 THEN s
                           ELSE IF Len(s.q) = KbdBufferSize THEN o ELSE KbdTransferBuffer(a)
  BY DEF KbdBufferAdd
<1> HIDE DEF a, o
<1>3. n # 0 => Kept(s, KbdTransferBuffer(a))
  BY <1>1, TransfersKept, KeptTrans
<1> QED  BY <1>0, <1>2, <1>3

LEMMA UpdateSound ==
    ASSUME NEW s, NEW hs, Sound(s, hs), s.scan, NEW k \in Keys, NEW pressed \in BOOLEAN,
           NEW after, after = IF pressed THEN hs \cup {k} ELSE hs \ {k}
    PROVE  Sound(TypematicUpdate(s, k, pressed), after)
<1>1. s \in Hardware /\ Moving(s) /\ RepeatGood(s, hs) /\ k # NoKey
  BY BufferAssumption DEF Sound
<1>2. CASE k \in NoRepeat
  BY <1>1, <1>2 DEF TypematicUpdate, Sound, RepeatGood
<1>3. CASE k \notin NoRepeat /\ pressed
  <2> DEFINE w == IF s.rep = k THEN Rate ELSE Pause
             t == [s EXCEPT !.rep = k, !.wait = w]
  <2>1. w \in Nat
    BY BufferAssumption
  <2>2. TypematicUpdate(s, k, pressed) = t
    BY <1>3 DEF TypematicUpdate
  <2> HIDE DEF w
  <2>3. t \in Hardware
    BY <1>1, <2>1 DEF Hardware
  <2>4. t.rep = k /\ t.scan /\ Moving(t)
    BY <1>1 DEF Hardware, Moving
  <2> HIDE DEF t
  <2> QED  BY <1>3, <2>2, <2>3, <2>4 DEF Sound, RepeatGood
<1>4. CASE k \notin NoRepeat /\ ~pressed
  <2> DEFINE t == [s EXCEPT !.rep = NoKey, !.wait = 0]
  <2>1. TypematicUpdate(s, k, pressed) = IF s.rep = k THEN t ELSE s
    BY <1>4 DEF TypematicUpdate
  <2>2. t \in Hardware
    BY <1>1 DEF Hardware
  <2>3. t.rep = NoKey /\ Moving(t)
    BY <1>1 DEF Hardware, Moving
  <2> HIDE DEF t
  <2> QED  BY <1>1, <1>4, <2>1, <2>2, <2>3 DEF Sound, RepeatGood
<1> QED  BY <1>2, <1>3, <1>4

LEMMA KeySound ==
    ASSUME NEW s, NEW hs, Sound(s, hs), NEW k \in Keys, NEW pressed \in BOOLEAN,
           NEW after, after = IF pressed THEN hs \cup {k} ELSE hs \ {k}
    PROVE  Sound(KeyAdded(s, k, pressed), after)
<1>1. CASE ~s.scan
  BY <1>1 DEF KeyAdded, Sound, RepeatGood
<1>2. CASE s.scan
  <2> DEFINE u == TypematicUpdate(s, k, pressed)
  <2>1. Sound(u, after)
    BY <1>2, UpdateSound
  <2>2. KeyAdded(s, k, pressed) = KbdBufferAdd(u, Length[k])
    BY <1>2 DEF KeyAdded
  <2> HIDE DEF u
  <2>3. Kept(u, KbdBufferAdd(u, Length[k]))
    BY <2>1, LengthsFit, KbdAddKept DEF Sound
  <2> QED  BY <2>1, <2>2, <2>3, KeptSound
<1> QED  BY <1>1, <1>2

LEMMA TickSound ==
    ASSUME NEW s, NEW hs, Sound(s, hs), s.rep # NoKey \/ s.wait > 0
    PROVE  Sound(TypematicTick(s), hs)
<1> DEFINE w == IF s.wait > 0 THEN s.wait - 1 ELSE 0
           t == [s EXCEPT !.wait = w]
           o == [t EXCEPT !.wait = 1]
<1>1. s \in Hardware /\ s.wait \in Nat /\ s.rep \in Keys \cup {NoKey}
  BY DEF Sound, Hardware
<1>2. w \in Nat
  BY <1>1
<1>3. TypematicTick(s) = IF w > 0 \/ s.rep = NoKey THEN t
                         ELSE IF s.q # <<>> \/ ~IsReadyForKbdFrame(s) THEN o
                         ELSE KeyAdded(t, s.rep, TRUE)
  BY DEF TypematicTick
<1> HIDE DEF w
<1>4. Kept(s, t) /\ t \in Hardware
  BY <1>1, <1>2, FieldsKept DEF Kept
<1> HIDE DEF t
<1>5. Kept(t, o)
  BY <1>4, FieldsKept
<1>6. Sound(t, hs) /\ Sound(o, hs)
  BY <1>4, <1>5, KeptSound
<1>7. CASE s.rep # NoKey
  <2>1. s.rep \in Keys /\ s.rep \in hs /\ hs = hs \cup {s.rep}
    BY <1>1, <1>7 DEF Sound, RepeatGood
  <2>2. Sound(KeyAdded(t, s.rep, TRUE), hs)
    BY <1>6, <2>1, KeySound
  <2> QED  BY <1>3, <1>6, <2>2
<1>8. CASE s.rep = NoKey
  BY <1>3, <1>6, <1>8
<1> QED  BY <1>7, <1>8

LEMMA AckSound ==
    ASSUME NEW s, NEW hs, Sound(s, hs)
    PROVE  Sound(Ack(s), hs) /\ Ack(s) \in Hardware /\ Moving(Ack(s))
<1>1. KbdBytes(1) \in Seq(Bytes) /\ s \in Hardware
  BY FramesTyped DEF Sound
<1>2. Kept(s, Ack(s))
  BY <1>1, FrameKept DEF Ack
<1>3. Sound(Ack(s), hs)
  BY <1>2, KeptSound
<1> QED  BY <1>3 DEF Sound

\* A command of the keyboard clears the buffer before it changes whether the
\* keyboard scans.
LEMMA KbdExecuteSound ==
    ASSUME NEW s, NEW hs, Sound(s, hs), NEW c \in KbdCommands
    PROVE  Sound(KbdExecute(s, c), hs)
<1> DEFINE a == Ack(s)
           b == ClearBuffer(a)
           r == [b EXCEPT !.scan = TRUE]
           d == [b EXCEPT !.scan = FALSE]
<1>1. Sound(a, hs) /\ a \in Hardware /\ Moving(a)
  BY AckSound
<1>2. /\ c = "SetLeds" => KbdExecute(s, c) = [a EXCEPT !.kcmd = c]
      /\ c \in {"CodeSet", "Set3Key"} => KbdExecute(s, c) = [b EXCEPT !.kcmd = c]
      /\ c = "Echo" => KbdExecute(s, c) = a
      /\ c = "Identify" => KbdExecute(s, c) = Ack(Ack(a))
      /\ c = "ClearEnable" => KbdExecute(s, c) = r
      /\ c = "DefaultDisable" => KbdExecute(s, c) = d
      /\ c = "Set3All" => KbdExecute(s, c) = b
      /\ c = "Reset" => KbdExecute(s, c) = Ack(r)
  BY DEF KbdExecute
<1> HIDE DEF a
<1>3. Sound(b, hs) /\ Sound(r, hs) /\ Sound(d, hs) /\ b \in Hardware
  BY <1>1, ClearSound DEF Sound
<1> HIDE DEF b, d, r
<1>4. c = "SetLeds" => Sound([a EXCEPT !.kcmd = c], hs)
  <2>1. c = "SetLeds" => c \in KbdWaits
    BY DEF KbdWaits
  <2> QED  BY <1>1, <2>1, FieldsKept, KeptSound
<1>5. c \in {"CodeSet", "Set3Key"} => Sound([b EXCEPT !.kcmd = c], hs)
  <2>1. c \in {"CodeSet", "Set3Key"} => c \in KbdWaits
    BY DEF KbdWaits
  <2>2. c \in KbdWaits => Kept(b, [b EXCEPT !.kcmd = c])
    BY <1>3, FieldsKept
  <2> QED  BY <1>3, <2>1, <2>2, KeptSound
<1>6. Sound(Ack(Ack(a)), hs) /\ Sound(Ack(r), hs)
  BY <1>1, <1>3, AckSound
<1> QED  BY <1>1, <1>2, <1>3, <1>4, <1>5, <1>6 DEF KbdCommands

LEMMA KbdParameterSound ==
    ASSUME NEW s, NEW hs, Sound(s, hs), NEW c \in KbdWaits \ {"none"}, NEW b,
           c = "CodeSet" => b \in DataBytes
    PROVE  Sound(KbdParameter(s, c, b), hs)
<1> DEFINE a == Ack(s)
           e == ClearBuffer(s)
<1>1. Sound(a, hs) /\ a \in Hardware /\ Moving(a)
  BY AckSound
<1>2. Sound(e, hs)
  BY ClearSound DEF Sound
<1>3. /\ c = "SetLeds" => KbdParameter(s, c, b) = a
      /\ c = "Set3Key" => KbdParameter(s, c, b) = ClearBuffer(a)
      /\ c = "CodeSet" /\ b = "set1" => KbdParameter(s, c, b) = Ack(e)
      /\ c = "CodeSet" /\ b = "zero" => KbdParameter(s, c, b) = Ack(a)
      /\ c = "CodeSet" /\ b = "other" => KbdParameter(s, c, b) = [a EXCEPT !.kcmd = c]
  BY DEF KbdParameter
<1> HIDE DEF a, e
<1>4. Sound(ClearBuffer(a), hs) /\ Sound(Ack(e), hs) /\ Sound(Ack(a), hs)
  BY <1>1, <1>2, ClearSound, AckSound
<1>5. Sound([a EXCEPT !.kcmd = c], hs)
  BY <1>1, FieldsKept, KeptSound
<1> QED  BY <1>1, <1>3, <1>4, <1>5 DEF KbdWaits, DataBytes

LEMMA ToKeyboardSound ==
    ASSUME NEW s, NEW hs, Sound(s, hs), NEW b \in DataBytes \cup KbdCommands
    PROVE  Sound(ToKeyboard(s, b), hs)
<1> DEFINE o == [s EXCEPT !.offK = FALSE]
           f == FlushBuffer(o)
           r == [f EXCEPT !.ready = FALSE]
           t == [r EXCEPT !.kcmd = "none"]
           isCommand == b \notin DataBytes /\ r.kcmd # "Set3Key"
           c == IF isCommand THEN "none" ELSE r.kcmd
<1>1. ToKeyboard(s, b) = IF c # "none" THEN KbdParameter(t, c, b)
                         ELSE IF isCommand THEN KbdExecute(t, b) ELSE t
  BY DEF ToKeyboard, KbdPortWrite
<1>2. s \in Hardware /\ "none" \in KbdWaits
  BY DEF Sound, KbdWaits
<1>3. Kept(s, o) /\ o \in Hardware
  BY <1>2, FieldsKept DEF Kept
<1> HIDE DEF o
<1>4. Kept(s, f) /\ f \in Hardware
  BY <1>3, FlushKept, KeptTrans DEF Kept
<1> HIDE DEF f
<1>5. Kept(s, r) /\ r \in Hardware
  BY <1>4, FieldsKept, KeptTrans DEF Kept
<1>6. r.kcmd \in KbdWaits
  BY <1>5 DEF Hardware
<1> HIDE DEF r
<1>7. Kept(s, t)
  BY <1>2, <1>5, FieldsKept, KeptTrans
<1>8. Sound(t, hs)
  BY <1>7, KeptSound
<1> HIDE DEF t
<1>9. CASE c # "none"
  <2>1. c \in KbdWaits \ {"none"} /\ (c = "CodeSet" => b \in DataBytes)
    BY <1>6, <1>9
  <2> QED  BY <1>1, <1>8, <1>9, <2>1, KbdParameterSound
<1>10. CASE c = "none" /\ isCommand
  BY <1>1, <1>8, <1>10, KbdExecuteSound
<1>11. CASE c = "none" /\ ~isCommand
  BY <1>1, <1>8, <1>11
<1> QED  BY <1>9, <1>10, <1>11

LEMMA ExpiredSound ==
    ASSUME NEW s, NEW hs, Sound(s, hs) PROVE Sound(Expired(s), hs)
<1> DEFINE r == [s EXCEPT !.ready = TRUE]
           t == MaybeTransferBuffer(r)
<1>1. s \in Hardware /\ RepeatGood(s, hs)
  BY DEF Sound
<1>2. r \in Hardware /\ r.rep = s.rep /\ (r.scan <=> s.scan)
  BY <1>1 DEF Hardware
<1> HIDE DEF r
<1>3. t.rep = r.rep /\ (t.scan <=> r.scan)
  BY <1>2 DEF MaybeTransferBuffer, Hardware
<1>4. t \in Hardware /\ Moving(t)
  BY <1>2, MaybeTyped
<1>5. Expired(s) = t
  BY DEF Expired, r
<1> HIDE DEF t
<1> QED  BY <1>1, <1>2, <1>3, <1>4, <1>5 DEF Sound, RepeatGood

-----------------------------------------------------------------------------
(* The invariant of every step.                                            *)

KbdInv == Sound(hw, held) /\ held \subseteq Keys

LEMMA InitSound == ASSUME Init PROVE KbdInv
<1>1. <<>> \in Seq(Bytes) /\ <<>> \in Seq(Frames) /\ "ctl" \in Origins /\ "none" \in KbdWaits
  BY DEF Origins, KbdWaits
<1>2. InitialHardware \in Hardware
  BY <1>1 DEF InitialHardware, Hardware
<1>3. InitialHardware.buf = <<>> /\ InitialHardware.rep = NoKey
  BY DEF InitialHardware
<1> QED  BY <1>2, <1>3 DEF Init, KbdInv, Sound, Moving, RepeatGood

LEMMA NextSound == ASSUME KbdInv, [Next]_vars PROVE KbdInv'
<1>1. hw \in Hardware /\ Sound(hw, held) /\ held \subseteq Keys
  BY DEF KbdInv, Sound
<1>2. ASSUME NEW t, Kept(hw, t), hw' = t, held' = held PROVE KbdInv'
  BY <1>1, <1>2, KeptSound DEF KbdInv
<1>3. ASSUME NEW k \in Keys, HostKey(k) PROVE KbdInv'
  <2>1. held' = IF k \notin held THEN held \cup {k} ELSE held \ {k}
    BY <1>3 DEF HostKey
  <2>2. hw' = KeyAdded(hw, k, k \notin held)
    BY <1>3 DEF HostKey
  <2>3. CASE k \notin held
    <3>1. Sound(KeyAdded(hw, k, TRUE), held \cup {k})
      BY <1>1, KeySound
    <3>2. KeyAdded(hw, k, k \notin held) = KeyAdded(hw, k, TRUE)
      BY <2>3
    <3> QED  BY <1>1, <2>1, <2>2, <2>3, <3>1, <3>2 DEF KbdInv
  <2>4. CASE k \in held
    <3>1. Sound(KeyAdded(hw, k, FALSE), held \ {k})
      BY <1>1, KeySound
    <3>2. KeyAdded(hw, k, k \notin held) = KeyAdded(hw, k, FALSE)
      BY <2>4
    <3> QED  BY <1>1, <2>1, <2>2, <2>4, <3>1, <3>2 DEF KbdInv
  <2> QED  BY <2>3, <2>4
<1>4. CASE ClrBuffer
  BY <1>1, <1>4, ClearSound DEF ClrBuffer, KbdInv, Sound
<1>5. CASE MouseMoved
  <2> DEFINE m == [hw EXCEPT !.moved = TRUE]
  <2>1. Kept(hw, m) /\ m \in Hardware
    BY <1>1, FieldsKept DEF Kept
  <2>2. hw' = MouseTransferFrame(m) /\ held' = held
    BY <1>5 DEF MouseMoved
  <2> HIDE DEF m
  <2>3. Kept(hw, MouseTransferFrame(m))
    BY <2>1, TransfersKept, KeptTrans
  <2> QED  BY <1>2, <2>2, <2>3
<1>6. CASE MouseDelayHandler
  <2> DEFINE m == [hw EXCEPT !.mready = TRUE]
  <2>1. Kept(hw, m) /\ m \in Hardware
    BY <1>1, FieldsKept DEF Kept
  <2>2. hw' = MouseTransferFrame(m) /\ held' = held
    BY <1>6 DEF MouseDelayHandler
  <2> HIDE DEF m
  <2>3. Kept(hw, MouseTransferFrame(m))
    BY <2>1, TransfersKept, KeptTrans
  <2> QED  BY <1>2, <2>2, <2>3
<1>7. CASE DelayHandler
  BY <1>1, <1>7, ExpiredSound DEF DelayHandler, KbdInv
<1>8. CASE Tick
  BY <1>1, <1>8, TickSound DEF Tick, KbdInv
<1>9. CASE ReadDataPort
  BY <1>1, <1>2, <1>9, ReadKept DEF ReadDataPort
<1>10. CASE WriteDataPort
  <2>1. CASE hw.cmd # "none" /\ \E p \in Parameters : hw' = ToController(hw, p)
    <3>1. PICK p \in Parameters : hw' = ToController(hw, p)
      BY <2>1
    <3>2. hw.cmd \in Commands
      BY <1>1, <2>1 DEF Hardware
    <3>3. Fits(hw.cmd, p)
      <4>1. hw.cmd = "WriteByteConfig" => Parameters = [offA : BOOLEAN, offK : BOOLEAN]
        BY DEF Parameters
      <4>2. hw.cmd = "WriteAux" => Parameters = [answer : MouseAnswers, report : BOOLEAN]
        BY DEF Parameters
      <4> QED  BY <3>1, <4>1, <4>2, Zenon DEF Fits
    <3>4. Kept(hw, ToController(hw, p))
      BY <1>1, <3>2, <3>3, ControllerKept
    <3> QED  BY <1>2, <1>10, <3>1, <3>4 DEF WriteDataPort
  <2>2. CASE \E b \in GuestBytes : hw' = ToKeyboard(hw, b)
    <3>1. PICK b \in GuestBytes : hw' = ToKeyboard(hw, b)
      BY <2>2
    <3>2. Sound(ToKeyboard(hw, b), held)
      BY <1>1, ToKeyboardSound, GuestAssumption
    <3> QED  BY <1>1, <1>10, <3>1, <3>2 DEF WriteDataPort, KbdInv
  <2> QED  BY <1>10, <2>1, <2>2 DEF WriteDataPort
<1>11. CASE WriteCommandPort
  <2>1. PICK c \in GuestCommands : hw' = CommandWritten(hw, c)
    BY <1>11 DEF WriteCommandPort
  <2>2. Kept(hw, CommandWritten(hw, c))
    BY <1>1, WrittenKept, GuestAssumption
  <2> QED  BY <1>2, <1>11, <2>1, <2>2 DEF WriteCommandPort
<1>12. CASE UNCHANGED vars
  BY <1>12 DEF vars, KbdInv
<1> QED  BY <1>3, <1>4, <1>5, <1>6, <1>7, <1>8, <1>9, <1>10, <1>11, <1>12 DEF Next

LEMMA KbdInvHolds == Spec => []KbdInv
BY InitSound, NextSound, PTL DEF Spec

\* A byte in the controller's buffer always waits for a read of the data port
\* or for the delay timer that delay_handler answers, whatever the guest writes
\* to the ports and however the devices call each other back.
THEOREM NothingStranded == Spec => []NoByteStranded
<1>1. KbdInv => NoByteStranded
  BY DEF KbdInv, Sound, Moving, NoByteStranded
<1> QED  BY <1>1, KbdInvHolds, PTL

\* The key that typematic_tick repeats is one the host holds down, whatever
\* resets, clears and scanning commands the guest sends: a release that the
\* keyboard drops finds no key repeating.
THEOREM NoKeyRepeatsAlone == Spec => []NoGhostRepeat
<1>1. KbdInv => NoGhostRepeat
  BY DEF KbdInv, Sound, RepeatGood, NoGhostRepeat
<1> QED  BY <1>1, KbdInvHolds, PTL

-----------------------------------------------------------------------------
(* Counting the bytes of an origin.                                        *)

Places(b, x) == {i \in DOMAIN b : b[i].src = x}

NumOf(b, x) == Cardinality(Places(b, x))

One(p) == IF p THEN 1 ELSE 0

LEMMA PlacesFinite ==
    ASSUME NEW b \in Seq(Bytes), NEW x
    PROVE  IsFiniteSet(Places(b, x)) /\ NumOf(b, x) \in Nat
<1>1. Len(b) \in Nat /\ DOMAIN b = 1 .. Len(b)
  OBVIOUS
<1>2. IsFiniteSet(1 .. Len(b))
  BY <1>1, FS_Interval
<1>3. Places(b, x) \in SUBSET (1 .. Len(b))
  BY <1>1 DEF Places
<1>4. IsFiniteSet(Places(b, x))
  BY <1>2, <1>3, FS_Subset
<1> QED  BY <1>4, FS_CardinalityType DEF NumOf

LEMMA NumEmpty == ASSUME NEW x PROVE NumOf(<<>>, x) = 0
<1>1. Places(<<>>, x) = {}
  BY DEF Places
<1> QED  BY <1>1, FS_EmptySet DEF NumOf

LEMMA NumAppend ==
    ASSUME NEW b \in Seq(Bytes), NEW y \in Bytes, NEW x
    PROVE  NumOf(Append(b, y), x) = NumOf(b, x) + One(y.src = x)
<1> DEFINE n == Len(b) + 1
<1>1. Len(b) \in Nat /\ DOMAIN b = 1 .. Len(b) /\ DOMAIN Append(b, y) = 1 .. n
  OBVIOUS
<1>2. (\A i \in 1 .. Len(b) : Append(b, y)[i] = b[i]) /\ Append(b, y)[n] = y
  OBVIOUS
<1>3. CASE y.src = x
  <2>1. Places(Append(b, y), x) = Places(b, x) \cup {n} /\ n \notin Places(b, x)
    BY <1>1, <1>2, <1>3 DEF Places
  <2>2. NumOf(Append(b, y), x) = NumOf(b, x) + 1
    BY <2>1, PlacesFinite, FS_AddElement DEF NumOf
  <2> QED  BY <1>3, <2>2 DEF One
<1>4. CASE y.src # x
  <2>1. Places(Append(b, y), x) = Places(b, x)
    BY <1>1, <1>2, <1>4 DEF Places
  <2>2. NumOf(Append(b, y), x) = NumOf(b, x) /\ NumOf(b, x) \in Nat
    BY <2>1, PlacesFinite DEF NumOf
  <2> QED  BY <1>4, <2>2 DEF One
<1> QED  BY <1>3, <1>4

LEMMA NumTail ==
    ASSUME NEW b \in Seq(Bytes), b # <<>>, NEW x
    PROVE  NumOf(b, x) = NumOf(Tail(b), x) + One(Head(b).src = x)
<1> DEFINE t == Tail(b)
           R == Places(b, x) \ {1}
           f == [i \in Places(t, x) |-> i + 1]
<1>1. /\ t \in Seq(Bytes) /\ Len(t) = Len(b) - 1 /\ Len(b) \in Nat \ {0}
      /\ DOMAIN b = 1 .. Len(b) /\ DOMAIN t = 1 .. Len(t)
      /\ Head(b) = b[1]
  OBVIOUS
<1>2. \A i \in 1 .. Len(t) : t[i] = b[i + 1]
  OBVIOUS
<1> HIDE DEF t
<1>3. \A i \in Places(t, x) : i \in Nat /\ i + 1 \in R
  BY <1>1, <1>2 DEF Places
<1>4. \A j \in R : j \in Nat /\ j - 1 \in Places(t, x) /\ j = (j - 1) + 1
  <2> SUFFICES ASSUME NEW j \in R PROVE j \in Nat /\ j - 1 \in Places(t, x) /\ j = (j - 1) + 1
    OBVIOUS
  <2>1. j \in 2 .. Len(b) /\ b[j].src = x
    BY <1>1 DEF Places
  <2>2. j - 1 \in 1 .. Len(t) /\ j = (j - 1) + 1 /\ j \in Nat
    BY <1>1, <2>1
  <2>3. t[j - 1] = b[j]
    BY <1>2, <2>2
  <2> QED  BY <1>1, <2>1, <2>2, <2>3 DEF Places
<1>5. f \in Bijection(Places(t, x), R)
  <2>1. f \in [Places(t, x) -> R]
    BY <1>3
  <2>2. \A i, j \in Places(t, x) : f[i] = f[j] => i = j
    BY <1>3
  <2>3. \A j \in R : \E i \in Places(t, x) : f[i] = j
    BY <1>4
  <2> HIDE DEF f, R
  <2>4. f \in Injection(Places(t, x), R)
    BY <2>1, <2>2 DEF Injection, IsInjective
  <2>5. f \in Surjection(Places(t, x), R)
    BY <2>1, <2>3 DEF Surjection
  <2> QED  BY <2>4, <2>5 DEF Bijection
<1>6. IsFiniteSet(Places(t, x)) /\ NumOf(t, x) \in Nat
  BY <1>1, PlacesFinite
<1>7. Cardinality(R) = NumOf(t, x)
  BY <1>5, <1>6, FS_Bijection DEF ExistsBijection, NumOf
<1>8. Cardinality(R) = IF 1 \in Places(b, x) THEN NumOf(b, x) - 1 ELSE NumOf(b, x)
  BY PlacesFinite, FS_RemoveElement DEF NumOf
<1>9. 1 \in Places(b, x) <=> Head(b).src = x
  BY <1>1 DEF Places
<1>10. NumOf(b, x) \in Nat
  BY PlacesFinite
<1> QED  BY <1>6, <1>7, <1>8, <1>9, <1>10 DEF One, t

LEMMA NumSum ==
    ASSUME NEW b \in Seq(Bytes)
    PROVE  NumOf(b, "kbd") + NumOf(b, "aux") + NumOf(b, "ctl") = Len(b)
<1> DEFINE K == Places(b, "kbd")
           A == Places(b, "aux")
           C == Places(b, "ctl")
<1>1. Len(b) \in Nat /\ DOMAIN b = 1 .. Len(b) /\ \A i \in 1 .. Len(b) : b[i] \in Bytes
  OBVIOUS
<1>2. \A i \in 1 .. Len(b) : b[i].src \in {"ctl", "kbd", "aux"}
  BY <1>1 DEF Bytes, Origins
<1>3. (K \cup A) \cup C = 1 .. Len(b)
  BY <1>1, <1>2 DEF Places
<1>4. K \cap A = {} /\ (K \cup A) \cap C = {}
  BY DEF Places
<1>5. /\ IsFiniteSet(K) /\ Cardinality(K) \in Nat /\ IsFiniteSet(A) /\ Cardinality(A) \in Nat
      /\ IsFiniteSet(C) /\ Cardinality(C) \in Nat
  BY PlacesFinite DEF NumOf
<1> HIDE DEF K, A, C
<1>6. IsFiniteSet(K \cup A) /\ Cardinality(K \cup A) = Cardinality(K) + Cardinality(A)
  <2>1. /\ IsFiniteSet(K \cup A)
        /\ Cardinality(K \cup A) = Cardinality(K) + Cardinality(A) - Cardinality(K \cap A)
    BY <1>5, FS_Union
  <2>2. Cardinality(K \cap A) = 0
    BY <1>4, FS_EmptySet, Zenon
  <2> QED  BY <1>5, <2>1, <2>2
<1>7. Cardinality((K \cup A) \cup C) = Cardinality(K) + Cardinality(A) + Cardinality(C)
  <2> DEFINE U == K \cup A
  <2>1. IsFiniteSet(U) /\ U \cap C = {} /\ Cardinality(U) = Cardinality(K) + Cardinality(A)
    BY <1>4, <1>6
  <2> HIDE DEF U
  <2>2. Cardinality(U \cup C) = Cardinality(U) + Cardinality(C) - Cardinality(U \cap C)
    BY <1>5, <2>1, FS_Union
  <2>3. Cardinality(U \cap C) = 0
    BY <2>1, FS_EmptySet, Zenon
  <2>4. Cardinality(U \cup C) = Cardinality(K) + Cardinality(A) + Cardinality(C)
    BY <1>5, <2>1, <2>2, <2>3
  <2> QED  BY <2>4 DEF U
<1>8. Cardinality(1 .. Len(b)) = Len(b)
  <2>1. Cardinality(1 .. Len(b)) = IF 1 > Len(b) THEN 0 ELSE Len(b) - 1 + 1
    BY <1>1, FS_Interval
  <2> QED  BY <1>1, <2>1
<1> QED  BY <1>3, <1>7, <1>8 DEF NumOf, K, A, C

-----------------------------------------------------------------------------
(* What the controller holds, and how it grows.                            *)

\* The bytes of an origin in the buffer and in the output port.
Held(s, x) == NumOf(s.buf, x) + One(s.new /\ s.src = x)

Total(s) == Held(s, "kbd") + Held(s, "aux") + Held(s, "ctl")

Same(s, t) ==
    /\ t.q = s.q /\ t.cmd = s.cmd /\ t.kcmd = s.kcmd
    /\ (t.over <=> s.over) /\ (t.offK <=> s.offK) /\ (t.offA <=> s.offA)
    /\ (t.dump <=> s.dump) /\ (t.quiet <=> s.quiet)

\* n bytes of origin x were added behind what was there.
Part(x, y, n) == IF x = y THEN n ELSE 0

Grown(s, t, x, n) ==
    /\ t \in Hardware /\ Same(s, t)
    /\ s.new => t.new /\ t.src = s.src
    /\ Held(t, "kbd") = Held(s, "kbd") + Part(x, "kbd", n)
    /\ Held(t, "aux") = Held(s, "aux") + Part(x, "aux", n)
    /\ Held(t, "ctl") = Held(s, "ctl") + Part(x, "ctl", n)
    /\ t.waitK = s.waitK + Part(x, "kbd", n) /\ t.waitA = s.waitA + Part(x, "aux", n)

LEMMA HeldNat ==
    ASSUME NEW s \in Hardware
    PROVE  /\ \A x : Held(s, x) \in Nat
           /\ Total(s) \in Nat
           /\ Len(s.buf) \in Nat /\ Len(s.buf) + One(s.new) = Total(s)
<1>1. s.buf \in Seq(Bytes) /\ s.src \in {"ctl", "kbd", "aux"} /\ Len(s.buf) \in Nat
  BY DEF Hardware, Origins
<1>2. ASSUME NEW x PROVE Held(s, x) \in Nat /\ NumOf(s.buf, x) \in Nat
  BY <1>1, PlacesFinite DEF Held, One
<1>3. NumOf(s.buf, "kbd") + NumOf(s.buf, "aux") + NumOf(s.buf, "ctl") = Len(s.buf)
  BY <1>1, NumSum
<1>4. /\ NumOf(s.buf, "kbd") \in Nat /\ NumOf(s.buf, "aux") \in Nat /\ NumOf(s.buf, "ctl") \in Nat
      /\ Held(s, "kbd") \in Nat /\ Held(s, "aux") \in Nat /\ Held(s, "ctl") \in Nat
  BY <1>2
<1>5. Len(s.buf) + One(s.new) = Total(s)
  <2> DEFINE k == One(s.new /\ s.src = "kbd")
             a == One(s.new /\ s.src = "aux")
             c == One(s.new /\ s.src = "ctl")
             o == One(s.new)
  <2>1. k + a + c = o /\ k \in Nat /\ a \in Nat /\ c \in Nat /\ o \in Nat
    BY <1>1 DEF One
  <2>2. Total(s) = (NumOf(s.buf, "kbd") + k) + (NumOf(s.buf, "aux") + a) + (NumOf(s.buf, "ctl") + c)
    BY DEF Total, Held
  <2> HIDE DEF k, a, c, o
  <2> DEFINE u == NumOf(s.buf, "kbd")
             v == NumOf(s.buf, "aux")
             w == NumOf(s.buf, "ctl")
             l == Len(s.buf)
  <2>4. u \in Nat /\ v \in Nat /\ w \in Nat /\ l \in Nat /\ u + v + w = l
    BY <1>1, <1>3, <1>4
  <2>5. Total(s) = (u + k) + (v + a) + (w + c)
    BY <2>2
  <2> HIDE DEF u, v, w, l
  <2>6. l + o = (u + k) + (v + a) + (w + c)
    BY <2>1, <2>4
  <2> QED  BY <2>5, <2>6 DEF o, l
<1>6. Total(s) \in Nat
  BY <1>4 DEF Total
<1> QED  BY <1>1, <1>2, <1>5, <1>6

LEMMA MaybeHeld ==
    ASSUME NEW s \in Hardware, NEW t, t = MaybeTransferBuffer(s)
    PROVE  /\ \A x : Held(t, x) = Held(s, x)
           /\ Same(s, t) /\ t.waitK = s.waitK /\ t.waitA = s.waitA
           /\ s.new => t.new /\ t.src = s.src
<1>1. CASE s.new \/ s.buf = <<>> \/ ~(s.ready \/ Head(s.buf).skip)
  BY <1>1 DEF MaybeTransferBuffer, Same
<1>2. CASE ~(s.new \/ s.buf = <<>> \/ ~(s.ready \/ Head(s.buf).skip))
  <2>1. s.buf \in Seq(Bytes) /\ s.buf # <<>> /\ ~s.new
    BY <1>2 DEF Hardware
  <2>2. /\ t.buf = Tail(s.buf) /\ t.new /\ t.src = Head(s.buf).src
        /\ t.waitK = s.waitK /\ t.waitA = s.waitA
    BY <1>2 DEF MaybeTransferBuffer, Hardware
  <2>3. Same(s, t)
    BY <1>2 DEF MaybeTransferBuffer, Hardware, Same
  <2>4. ASSUME NEW x PROVE Held(t, x) = Held(s, x)
    <3>1. NumOf(s.buf, x) = NumOf(Tail(s.buf), x) + One(Head(s.buf).src = x)
      BY <2>1, NumTail
    <3>2. NumOf(s.buf, x) \in Nat
      BY <2>1, PlacesFinite
    <3>3. Held(s, x) = NumOf(s.buf, x)
      BY <2>1, <3>2 DEF Held, One
    <3>4. Held(t, x) = NumOf(Tail(s.buf), x) + One(Head(s.buf).src = x)
      BY <2>2 DEF Held, One
    <3> QED  BY <3>1, <3>3, <3>4
  <2> QED  BY <2>1, <2>2, <2>3, <2>4
<1> QED  BY <1>1, <1>2

LEMMA PutGrown ==
    ASSUME NEW s \in Hardware, NEW b \in Bytes, ~IsDisabled(s, b.src)
    PROVE  Grown(s, BufferPut(s, b), b.src, 1)
<1> DEFINE k == s.waitK + (IF b.src = "kbd" THEN 1 ELSE 0)
           a == s.waitA + (IF b.src = "aux" THEN 1 ELSE 0)
           t == [s EXCEPT !.buf = Append(@, b), !.waitK = k, !.waitA = a]
           u == MaybeTransferBuffer(t)
<1>1. s.buf \in Seq(Bytes) /\ s.waitK \in Int /\ s.waitA \in Int
  BY DEF Hardware
<1>2. Append(s.buf, b) \in Seq(Bytes) /\ k \in Int /\ a \in Int
  BY <1>1
<1>3. BufferPut(s, b) = u
  BY DEF BufferPut
<1>4. k = s.waitK + Part(b.src, "kbd", 1) /\ a = s.waitA + Part(b.src, "aux", 1)
  BY DEF Part
<1> HIDE DEF k, a
<1>5. t \in Hardware
  BY <1>2 DEF Hardware
<1>6. t.buf = Append(s.buf, b) /\ t.waitK = k /\ t.waitA = a /\ (t.new <=> s.new) /\ t.src = s.src
  BY DEF Hardware
<1>7. Same(s, t)
  BY DEF Hardware, Same
<1> HIDE DEF t
<1>8. u \in Hardware
  BY <1>5, MaybeTyped
<1>9. /\ \A x : Held(u, x) = Held(t, x)
      /\ Same(t, u) /\ u.waitK = t.waitK /\ u.waitA = t.waitA
      /\ t.new => u.new /\ u.src = t.src
  BY <1>5, MaybeHeld
<1> HIDE DEF u
<1>10. ASSUME NEW x PROVE Held(u, x) = Held(s, x) + Part(b.src, x, 1)
  <2>1. NumOf(t.buf, x) = NumOf(s.buf, x) + One(b.src = x) /\ NumOf(s.buf, x) \in Nat
    BY <1>1, <1>6, NumAppend, PlacesFinite
  <2>2. One(t.new /\ t.src = x) = One(s.new /\ s.src = x)
    BY <1>6 DEF One
  <2>3. One(b.src = x) = Part(b.src, x, 1) /\ One(b.src = x) \in Nat
    BY DEF One, Part
  <2>4. One(s.new /\ s.src = x) \in Nat
    BY DEF One
  <2>5. Held(t, x) = Held(s, x) + Part(b.src, x, 1)
    BY <2>1, <2>2, <2>3, <2>4 DEF Held
  <2> QED  BY <1>9, <2>5
<1>11. Same(s, u)
  BY <1>7, <1>9 DEF Same
<1>12. u.waitK = s.waitK + Part(b.src, "kbd", 1) /\ u.waitA = s.waitA + Part(b.src, "aux", 1)
  BY <1>4, <1>6, <1>9
<1>13. s.new => u.new /\ u.src = s.src
  BY <1>6, <1>9
<1> QED  BY <1>3, <1>8, <1>10, <1>11, <1>12, <1>13 DEF Grown

LEMMA GrownNone ==
    ASSUME NEW s \in Hardware, NEW x PROVE Grown(s, s, x, 0)
<1>1. Part(x, "kbd", 0) = 0 /\ Part(x, "aux", 0) = 0 /\ Part(x, "ctl", 0) = 0
  BY DEF Part
<1>2. Held(s, "kbd") \in Nat /\ Held(s, "aux") \in Nat /\ Held(s, "ctl") \in Nat
  BY HeldNat
<1>3. s.waitK \in Int /\ s.waitA \in Int
  BY DEF Hardware
<1>4. Same(s, s)
  BY DEF Same
<1> QED  BY <1>1, <1>2, <1>3, <1>4 DEF Grown

LEMMA GrownTrans ==
    ASSUME NEW s \in Hardware, NEW t, NEW u, NEW x, NEW m \in Nat, NEW n \in Nat,
           Grown(s, t, x, m), Grown(t, u, x, n)
    PROVE  Grown(s, u, x, m + n)
<1>1. Same(s, u)
  BY DEF Same, Grown
<1>2. \A y : /\ Part(x, y, m + n) = Part(x, y, m) + Part(x, y, n)
             /\ Part(x, y, m) \in Nat /\ Part(x, y, n) \in Nat
  BY DEF Part
<1>3. s.waitK \in Int /\ s.waitA \in Int
  BY DEF Hardware
<1>4. Held(s, "kbd") \in Nat /\ Held(s, "aux") \in Nat /\ Held(s, "ctl") \in Nat
  BY HeldNat
<1> QED  BY <1>1, <1>2, <1>3, <1>4 DEF Grown

LEMMA GrownLoop ==
    ASSUME NEW s \in Hardware, NEW y \in Hardware, NEW x, NEW n \in Nat, Grown(s, y, x, n)
    PROVE  /\ IsDisabled(y, x) <=> IsDisabled(s, x)
           /\ x \in Origins => Total(y) = Total(s) + n /\ Len(y.buf) <= Len(s.buf) + n
<1>1. IsDisabled(y, x) <=> IsDisabled(s, x)
  BY DEF Grown, Same, IsDisabled
<1>2. Held(s, "kbd") \in Nat /\ Held(s, "aux") \in Nat /\ Held(s, "ctl") \in Nat
  BY HeldNat
<1>3. x \in Origins => Part(x, "kbd", n) + Part(x, "aux", n) + Part(x, "ctl", n) = n
  BY DEF Origins, Part
<1>4. Part(x, "kbd", n) \in Nat /\ Part(x, "aux", n) \in Nat /\ Part(x, "ctl", n) \in Nat
  BY DEF Part
<1>5. Total(y) = (Held(s, "kbd") + Part(x, "kbd", n)) + (Held(s, "aux") + Part(x, "aux", n))
                 + (Held(s, "ctl") + Part(x, "ctl", n))
  BY DEF Grown, Total
<1>6. x \in Origins => Total(y) = Total(s) + n
  BY <1>2, <1>3, <1>4, <1>5 DEF Total
<1>7. /\ Len(y.buf) \in Nat /\ Len(y.buf) + One(y.new) = Total(y)
      /\ Len(s.buf) \in Nat /\ Len(s.buf) + One(s.new) = Total(s)
      /\ Total(s) \in Nat /\ Total(y) \in Nat
  BY HeldNat
<1>8. One(s.new) <= One(y.new) /\ One(s.new) \in Nat /\ One(y.new) \in Nat
  BY DEF Grown, One
<1> QED  BY <1>1, <1>6, <1>7, <1>8

LEMMA PutAllGrown ==
    ASSUME NEW s \in Hardware, NEW bytes \in Seq(Bytes), NEW x, ~IsDisabled(s, x),
           \A i \in 1 .. Len(bytes) : bytes[i].src = x
    PROVE  Grown(s, PutAll(s, bytes), x, Len(bytes))
<1> DEFINE S(i) == {y \in Hardware : Grown(s, y, x, i)}
           D == [i \in 0 .. Len(bytes) |-> S(i)]
<1>1. Len(bytes) \in Nat /\ \A i \in 1 .. Len(bytes) : bytes[i] \in Bytes
  OBVIOUS
<1>2. \A i \in 0 .. Len(bytes) : D[i] = S(i)
  OBVIOUS
<1>3. s \in D[0]
  BY <1>1, <1>2, GrownNone
<1>4. ASSUME NEW i \in 1 .. Len(bytes), NEW y \in Hardware, y \in D[i - 1]
      PROVE  BufferPut(y, bytes[i]) \in D[i]
  <2>1. i \in 0 .. Len(bytes) /\ i - 1 \in 0 .. Len(bytes) /\ i - 1 \in Nat /\ (i - 1) + 1 = i
    BY <1>1
  <2>2. Grown(s, y, x, i - 1)
    BY <1>2, <1>4, <2>1
  <2>3. ~IsDisabled(y, x)
    BY <2>1, <2>2, GrownLoop
  <2>4. Grown(y, BufferPut(y, bytes[i]), x, 1)
    BY <1>1, <2>3, PutGrown
  <2>5. Grown(s, BufferPut(y, bytes[i]), x, (i - 1) + 1)
    BY <2>1, <2>2, <2>4, GrownTrans
  <2>6. BufferPut(y, bytes[i]) \in S(i)
    BY <2>1, <2>5 DEF Grown
  <2> QED  BY <1>2, <2>1, <2>6
<1> HIDE DEF D
<1>5. PutAll(s, bytes) \in D[Len(bytes)]
  BY <1>3, <1>4, PutAllLeads
<1>6. PutAll(s, bytes) \in S(Len(bytes))
  BY <1>1, <1>2, <1>5
<1> QED  BY <1>6

\* When there is room, no byte flushes the buffer.
LEMMA AddAllGrown ==
    ASSUME NEW s \in Hardware, NEW bytes \in Seq(Bytes), NEW x \in Origins, ~IsDisabled(s, x),
           \A i \in 1 .. Len(bytes) : bytes[i].src = x,
           Len(s.buf) + Len(bytes) <= BufferSize
    PROVE  Grown(s, BufferAddAll(s, bytes), x, Len(bytes))
<1> DEFINE S(i) == {y \in Hardware : Grown(s, y, x, i)}
           D == [i \in 0 .. Len(bytes) |-> S(i)]
<1>1. Len(bytes) \in Nat /\ \A i \in 1 .. Len(bytes) : bytes[i] \in Bytes
  OBVIOUS
<1>2. \A i \in 0 .. Len(bytes) : D[i] = S(i)
  OBVIOUS
<1>3. s \in D[0]
  BY <1>1, <1>2, GrownNone
<1>4. ASSUME NEW i \in 1 .. Len(bytes), NEW y \in Hardware, y \in D[i - 1]
      PROVE  BufferAdd(y, bytes[i]) \in D[i]
  <2>1. i \in 0 .. Len(bytes) /\ i - 1 \in 0 .. Len(bytes) /\ i - 1 \in Nat /\ (i - 1) + 1 = i
    BY <1>1
  <2>2. Grown(s, y, x, i - 1)
    BY <1>2, <1>4, <2>1
  <2>3. ~IsDisabled(y, x) /\ Len(y.buf) <= Len(s.buf) + (i - 1)
    BY <2>1, <2>2, GrownLoop
  <2>4. Len(y.buf) < BufferSize
    <3>1. Len(s.buf) \in Nat /\ Len(y.buf) \in Nat
      BY HeldNat
    <3> QED  BY <1>1, <2>3, <3>1, BufferAssumption
  <2>5. BufferAdd(y, bytes[i]) = BufferPut(y, bytes[i])
    BY <2>4, HeldNat, BufferAssumption DEF BufferAdd
  <2>6. Grown(y, BufferPut(y, bytes[i]), x, 1)
    BY <1>1, <2>3, PutGrown
  <2>7. Grown(s, BufferAdd(y, bytes[i]), x, (i - 1) + 1)
    BY <2>1, <2>2, <2>5, <2>6, GrownTrans
  <2>8. BufferAdd(y, bytes[i]) \in S(i)
    BY <2>1, <2>7 DEF Grown
  <2> QED  BY <1>2, <2>1, <2>8
<1> HIDE DEF D
<1>5. BufferAddAll(s, bytes) \in D[Len(bytes)]
  BY <1>3, <1>4, AddAllLeads
<1>6. BufferAddAll(s, bytes) \in S(Len(bytes))
  BY <1>1, <1>2, <1>5
<1> QED  BY <1>6

LEMMA FrameGrown ==
    ASSUME NEW s \in Hardware, NEW frame \in Seq(Bytes), frame # <<>>, NEW x \in Origins,
           ~IsDisabled(s, x), \A i \in 1 .. Len(frame) : frame[i].src = x,
           Len(s.buf) + Len(frame) <= BufferSize
    PROVE  Grown(s, AddFrame(s, frame), x, Len(frame))
<1>1. Len(frame) \in Nat /\ frame[1].src = x
  OBVIOUS
<1>2. Len(s.buf) \in Nat
  BY HeldNat
<1>3. EnforceBufferSpace(s, Len(frame)) = s
  BY <1>1, <1>2, BufferAssumption DEF EnforceBufferSpace
<1>4. AddFrame(s, frame) = BufferAddAll(s, frame)
  BY <1>1, <1>3 DEF AddFrame
<1> QED  BY <1>4, AddAllGrown

-----------------------------------------------------------------------------
(* The counters and their bounds.                                          *)

\* The counters agree with the bytes held, but for the byte in the port that
\* is being read: "port" when it is still counted, its origin when it is not
\* any more; and they are bounded.
Reads == {"none", "port", "kbd", "aux"}

Within(s, r, k, a, c) ==
    /\ s \in Hardware
    /\ s.waitK + One(r = "kbd") = Held(s, "kbd") /\ s.waitA + One(r = "aux") = Held(s, "aux")
    /\ s.waitK <= k /\ s.waitA <= a /\ Held(s, "ctl") <= c
    /\ r # "none" => s.new
    /\ r \in {"kbd", "aux"} => s.src = r

LEMMA WithinRoom ==
    ASSUME NEW s, NEW r \in Reads, NEW k \in Nat, NEW a \in Nat, NEW c \in Nat,
           Within(s, r, k, a, c)
    PROVE  Len(s.buf) <= k + a + c
<1> DEFINE l == Len(s.buf)
           hk == Held(s, "kbd")
           ha == Held(s, "aux")
           hc == Held(s, "ctl")
           o == One(s.new)
           rk == One(r = "kbd")
           ra == One(r = "aux")
<1>1. /\ l \in Nat /\ hk \in Nat /\ ha \in Nat /\ hc \in Nat
      /\ l + o = hk + ha + hc
  BY HeldNat DEF Within, Total
<1>2. o \in Nat /\ rk \in Nat /\ ra \in Nat /\ rk + ra <= o
  BY DEF One, Within, Reads
<1>3. /\ s.waitK \in Int /\ s.waitA \in Int /\ s.waitK + rk = hk /\ s.waitA + ra = ha
      /\ s.waitK <= k /\ s.waitA <= a /\ hc <= c
  BY DEF Within, Hardware
<1> HIDE DEF l, hk, ha, hc, o, rk, ra
<1>4. l <= k + a + c
  BY <1>1, <1>2, <1>3
<1> QED  BY <1>4 DEF l

LEMMA WithinWeaker ==
    ASSUME NEW s, NEW r, NEW k \in Int, NEW a \in Int, NEW c \in Int,
           NEW kk \in Int, NEW aa \in Int, NEW cc \in Int,
           Within(s, r, k, a, c), k <= kk, a <= aa, c <= cc
    PROVE  Within(s, r, kk, aa, cc)
<1>1. s.waitK \in Int /\ s.waitA \in Int /\ Held(s, "ctl") \in Nat
  BY HeldNat DEF Within, Hardware
<1>2. s.waitK <= kk /\ s.waitA <= aa /\ Held(s, "ctl") <= cc
  BY <1>1 DEF Within
<1> QED  BY <1>2 DEF Within

LEMMA WithinGrown ==
    ASSUME NEW s, NEW t, NEW r, NEW k \in Int, NEW a \in Int, NEW c \in Int, NEW x, NEW n \in Nat,
           Within(s, r, k, a, c), Grown(s, t, x, n)
    PROVE  Within(t, r, k + Part(x, "kbd", n), a + Part(x, "aux", n), c + Part(x, "ctl", n))
<1> DEFINE pk == Part(x, "kbd", n)
           pa == Part(x, "aux", n)
           pc == Part(x, "ctl", n)
           rk == One(r = "kbd")
           ra == One(r = "aux")
<1>1. pk \in Nat /\ pa \in Nat /\ pc \in Nat /\ rk \in Nat /\ ra \in Nat
  BY DEF Part, One
<1>2. /\ s.waitK \in Int /\ s.waitA \in Int /\ Held(s, "ctl") \in Nat
      /\ Held(s, "kbd") \in Nat /\ Held(s, "aux") \in Nat
  BY HeldNat DEF Within, Hardware
<1>3. /\ s.waitK + rk = Held(s, "kbd") /\ s.waitA + ra = Held(s, "aux")
      /\ s.waitK <= k /\ s.waitA <= a /\ Held(s, "ctl") <= c
  BY DEF Within
<1>4. /\ Held(t, "kbd") = Held(s, "kbd") + pk /\ Held(t, "aux") = Held(s, "aux") + pa
      /\ Held(t, "ctl") = Held(s, "ctl") + pc
      /\ t.waitK = s.waitK + pk /\ t.waitA = s.waitA + pa
  BY DEF Grown
<1> HIDE DEF pk, pa, pc, rk, ra
<1>5. t.waitK + rk = Held(t, "kbd")
  BY <1>1, <1>2, <1>3, <1>4
<1>6. t.waitA + ra = Held(t, "aux")
  BY <1>1, <1>2, <1>3, <1>4
<1>7. t.waitK <= k + pk /\ t.waitA <= a + pa /\ Held(t, "ctl") <= c + pc
  BY <1>1, <1>2, <1>3, <1>4
<1>8. t \in Hardware /\ (r # "none" => t.new) /\ (r \in {"kbd", "aux"} => t.src = r)
  BY DEF Within, Grown
<1>9. Within(t, r, k + pk, a + pa, c + pc)
  BY <1>5, <1>6, <1>7, <1>8 DEF Within, rk, ra
<1> QED  BY <1>9 DEF pk, pa, pc

\* Fields that are not about the bytes do not matter.
Alike(s, t) ==
    /\ t \in Hardware
    /\ t.buf = s.buf /\ (t.new <=> s.new) /\ t.src = s.src
    /\ t.waitK = s.waitK /\ t.waitA = s.waitA

LEMMA AlikeHeld ==
    ASSUME NEW s, NEW t, Alike(s, t)
    PROVE  /\ \A x : Held(t, x) = Held(s, x)
           /\ Total(t) = Total(s)
           /\ \A r, k, a, c : Within(s, r, k, a, c) => Within(t, r, k, a, c)
<1>1. ASSUME NEW x PROVE Held(t, x) = Held(s, x)
  <2>1. One(t.new /\ t.src = x) = One(s.new /\ s.src = x)
    BY DEF Alike, One
  <2> QED  BY <2>1 DEF Alike, Held
<1>2. Total(t) = Total(s)
  BY <1>1 DEF Total
<1>3. ASSUME NEW r, NEW k, NEW a, NEW c, Within(s, r, k, a, c) PROVE Within(t, r, k, a, c)
  BY <1>1, <1>3 DEF Within, Alike
<1> QED  BY <1>1, <1>2, <1>3

AMax == AuxLength + 1

KMax == BufferSize - AMax - CopyrightLength

CMax(s) == IF s.dump THEN BufferSize ELSE CopyrightLength

\* What the controller holds between two operations, or in a read of the port.
Bounded(s, r) == Within(s, r, KMax, AMax, CMax(s))

LEMMA Sizes ==
    /\ KMax \in Nat /\ 3 <= KMax /\ AMax \in Nat /\ 4 <= AMax
    /\ AuxLength \in Nat /\ AuxLength + 1 = AMax
    /\ CopyrightLength \in Nat /\ 1 <= CopyrightLength
    /\ BufferSize \in Nat /\ KMax + AMax + CopyrightLength = BufferSize
    /\ \A n \in Frames : n \in Nat /\ 1 <= n /\ n + 3 <= KMax
    /\ \A s : CMax(s) \in Nat /\ 1 <= CMax(s)
    /\ DumpLength \in Nat /\ 1 <= DumpLength /\ DumpLength <= BufferSize
BY BufferAssumption DEF AMax, KMax, Frames, CMax

\* What a frame of the mouse does not change.
Onward(s, t) ==
    /\ Same(s, t) /\ t.waitK = s.waitK /\ Total(s) <= Total(t)
    /\ s.new => t.new /\ t.src = s.src

LEMMA MouseHeld ==
    ASSUME NEW s, NEW r \in Reads, Bounded(s, r)
    PROVE  Bounded(MouseTransferFrame(s), r) /\ Onward(s, MouseTransferFrame(s))
<1> DEFINE u == MousePushed(s)
           f == MouseFrame(s)
           t == AddFrame(u, f)
<1>1. MouseTransferFrame(s) = t
  BY DEF MouseTransferFrame
<1>2. s \in Hardware
  BY DEF Bounded, Within
<1>3. Alike(s, u) /\ Same(s, u)
  <2>1. u \in Hardware
    BY <1>2, PushedKept DEF Kept
  <2>2. /\ u.buf = s.buf /\ (u.new <=> s.new) /\ u.src = s.src
        /\ u.waitK = s.waitK /\ u.waitA = s.waitA /\ Same(s, u)
    BY <1>2 DEF MousePushed, Hardware, Same
  <2> QED  BY <2>1, <2>2 DEF Alike
<1> HIDE DEF u
<1>4. u \in Hardware /\ (\A x : Held(u, x) = Held(s, x)) /\ Total(u) = Total(s) /\ Total(s) \in Nat
  BY <1>2, <1>3, AlikeHeld, HeldNat DEF Alike
<1>5. Bounded(u, r)
  BY <1>3, AlikeHeld DEF Bounded, CMax, Same
<1>6. Onward(s, u)
  BY <1>3, <1>4 DEF Onward, Alike
<1>7. CASE f = <<>>
  <2>1. t = u
    BY <1>7 DEF AddFrame
  <2> HIDE DEF t, f
  <2> QED  BY <1>1, <1>5, <1>6, <2>1
<1>8. CASE f # <<>>
  <2>1. f = AuxBytes(AuxLength) /\ MouseMayPush(s)
    BY <1>8 DEF MouseFrame
  <2>2. s.waitA = 0 /\ ~s.offA /\ ~s.dump
    BY <2>1 DEF MouseMayPush, IsReadyForAuxFrame
  <2> HIDE DEF f
  <2>3. f \in Seq(Bytes) /\ Len(f) = AuxLength /\ \A i \in 1 .. Len(f) : f[i].src = "aux"
    BY <2>1, FramesTyped, Sizes
  <2>4. "aux" \in Origins /\ ~IsDisabled(u, "aux")
    BY <1>3, <2>2 DEF Origins, IsDisabled, Same
  <2>5. Within(u, r, KMax, 0, CopyrightLength)
    BY <1>3, <1>5, <2>2 DEF Bounded, CMax, Within, Alike, Same
  <2>6. Len(u.buf) <= KMax + 0 + CopyrightLength
    BY <2>5, Sizes, WithinRoom
  <2>7. Len(u.buf) + Len(f) <= BufferSize
    BY <1>4, <2>3, <2>6, Sizes, HeldNat
  <2>8. Grown(u, t, "aux", AuxLength)
    BY <1>4, <1>8, <2>3, <2>4, <2>7, FrameGrown
  <2> HIDE DEF t
  <2>9. Within(t, r, KMax + Part("aux", "kbd", AuxLength), 0 + Part("aux", "aux", AuxLength),
               CopyrightLength + Part("aux", "ctl", AuxLength))
    BY <2>5, <2>8, Sizes, WithinGrown
  <2>10. /\ KMax + Part("aux", "kbd", AuxLength) = KMax /\ 0 + Part("aux", "aux", AuxLength) = AuxLength
         /\ CopyrightLength + Part("aux", "ctl", AuxLength) = CopyrightLength
         /\ u.waitK + Part("aux", "kbd", AuxLength) = u.waitK
    BY <1>4, Sizes DEF Part, Hardware
  <2>11. Within(t, r, KMax, AMax, CopyrightLength)
    <3>1. Within(t, r, KMax, AuxLength, CopyrightLength)
      BY <2>9, <2>10
    <3> QED  BY <3>1, Sizes, WithinWeaker
  <2>12. Same(s, t) /\ t.waitK = s.waitK
    BY <1>3, <2>8, <2>10 DEF Grown, Same, Alike
  <2>13. Bounded(t, r)
    BY <2>2, <2>11, <2>12 DEF Bounded, CMax, Same
  <2>14. Total(t) = Total(u) + AuxLength
    BY <1>4, <2>4, <2>8, GrownLoop, Sizes DEF Grown
  <2>15. Total(s) <= Total(t)
    BY <1>4, <2>14, Sizes
  <2>16. s.new => t.new /\ t.src = s.src
    BY <1>3, <2>8 DEF Grown, Alike
  <2> QED  BY <1>1, <2>12, <2>13, <2>15, <2>16 DEF Onward
<1> QED  BY <1>7, <1>8

\* What a frame of the keyboard does not change.
Ports(s, t) ==
    /\ t.cmd = s.cmd /\ (t.offK <=> s.offK) /\ (t.offA <=> s.offA) /\ (t.dump <=> s.dump)

Later(s, t) ==
    Ports(s, t) /\ Total(s) <= Total(t) /\ (s.new => t.new /\ t.src = s.src)

LEMMA KbdHeld ==
    ASSUME NEW s, NEW r \in Reads, Bounded(s, r), NEW t, t = KbdTransferBuffer(s)
    PROVE  /\ Bounded(t, r) /\ Later(s, t) /\ (t.over <=> s.over) /\ t.kcmd = s.kcmd
           /\ KbdMayPush(s) => t.waitK >= 1
           /\ ~KbdMayPush(s) => t = s
<1> DEFINE u == KbdPushed(s)
           f == KbdFrame(s)
           n == Head(s.q)
<1>1. t = AddFrame(u, f)
  BY DEF KbdTransferBuffer
<1>2. s \in Hardware
  BY DEF Bounded, Within
<1>3. CASE ~KbdMayPush(s)
  <2>1. t = s
    BY <1>1, <1>3 DEF KbdPushed, KbdFrame, AddFrame
  <2>2. Total(s) \in Nat
    BY <1>2, HeldNat
  <2> QED  BY <1>3, <2>1, <2>2 DEF Later, Ports
<1>4. CASE KbdMayPush(s)
  <2>1. s.waitK = 0 /\ ~s.offK /\ ~s.dump /\ s.q \in Seq(Frames) /\ s.q # <<>>
    BY <1>2, <1>4 DEF KbdMayPush, IsReadyForKbdFrame, Hardware
  <2>2. n \in Frames /\ Tail(s.q) \in Seq(Frames)
    BY <2>1
  <2>3. n \in Nat /\ 1 <= n /\ n + 3 <= KMax
    BY <2>2, Sizes
  <2>4. f = KbdBytes(n)
    BY <1>4 DEF KbdFrame
  <2>5. u = [s EXCEPT !.q = Tail(@)]
    BY <1>4 DEF KbdPushed
  <2>6. Alike(s, u) /\ Ports(s, u) /\ (u.over <=> s.over) /\ u.kcmd = s.kcmd
    <3>1. u \in Hardware
      BY <1>2, PushedKept DEF Kept
    <3>2. /\ u.buf = s.buf /\ (u.new <=> s.new) /\ u.src = s.src
          /\ u.waitK = s.waitK /\ u.waitA = s.waitA
      BY <1>2, <2>5 DEF Hardware
    <3>3. Ports(s, u) /\ (u.over <=> s.over) /\ u.kcmd = s.kcmd
      BY <1>2, <2>5 DEF Hardware, Ports
    <3> QED  BY <3>1, <3>2, <3>3 DEF Alike
  <2> HIDE DEF u, n
  <2>7. u \in Hardware /\ Total(u) = Total(s) /\ Total(s) \in Nat
    BY <1>2, <2>6, AlikeHeld, HeldNat DEF Alike
  <2>8. Within(u, r, 0, AMax, CopyrightLength)
    <3>1. Within(s, r, 0, AMax, CopyrightLength)
      BY <2>1 DEF Bounded, CMax, Within
    <3> QED  BY <2>6, <3>1, AlikeHeld
  <2>9. f \in Seq(Bytes) /\ Len(f) = n /\ \A i \in 1 .. Len(f) : f[i].src = "kbd"
    BY <2>3, <2>4, FramesTyped
  <2>10. "kbd" \in Origins /\ ~IsDisabled(u, "kbd")
    BY <2>1, <2>6 DEF Origins, IsDisabled, Ports
  <2> HIDE DEF f
  <2>11. Len(u.buf) <= 0 + AMax + CopyrightLength
    BY <2>8, Sizes, WithinRoom
  <2>12. Len(u.buf) + Len(f) <= BufferSize /\ f # <<>>
    BY <2>3, <2>7, <2>9, <2>11, Sizes, HeldNat
  <2>13. Grown(u, t, "kbd", n)
    BY <1>1, <2>7, <2>9, <2>10, <2>12, FrameGrown
  <2>14. Within(t, r, 0 + Part("kbd", "kbd", n), AMax + Part("kbd", "aux", n),
                CopyrightLength + Part("kbd", "ctl", n))
    BY <2>3, <2>8, <2>13, Sizes, WithinGrown
  <2>15. /\ 0 + Part("kbd", "kbd", n) = n /\ AMax + Part("kbd", "aux", n) = AMax
         /\ CopyrightLength + Part("kbd", "ctl", n) = CopyrightLength
    BY <2>3, Sizes DEF Part
  <2>16. Within(t, r, n, AMax, CopyrightLength)
    BY <2>14, <2>15
  <2>17. Ports(s, t) /\ (t.over <=> s.over) /\ t.kcmd = s.kcmd
    BY <2>6, <2>13 DEF Grown, Same, Ports
  <2>18. Bounded(t, r)
    <3>1. CMax(t) = CopyrightLength
      BY <2>1, <2>17 DEF CMax, Ports
    <3> QED  BY <2>3, <2>16, <3>1, Sizes, WithinWeaker DEF Bounded
  <2>19. t.waitK = n
    BY <2>1, <2>3, <2>6, <2>13, <2>15 DEF Grown, Alike
  <2>20. Total(t) = Total(u) + n
    BY <2>3, <2>7, <2>10, <2>13, GrownLoop DEF Grown
  <2>21. Later(s, t)
    <3>1. s.new => t.new /\ t.src = s.src
      BY <2>6, <2>13 DEF Grown, Alike
    <3> QED  BY <2>3, <2>7, <2>17, <2>20, <3>1 DEF Later
  <2> QED  BY <1>4, <2>3, <2>17, <2>18, <2>19, <2>21
<1> QED  BY <1>3, <1>4

\* A keyboard that may send holds nothing back and drops nothing.
Served(s) == IsReadyForKbdFrame(s) => s.q = <<>> /\ ~s.over

\* What is left of a diagnostic dump keeps the devices from sending, and no
\* command waits for its parameter meanwhile.
DumpLeft(s) == s.dump => Total(s) >= 1 /\ s.cmd = "none"

LEMMA NotifyHeld ==
    ASSUME NEW s, NEW r \in Reads, Bounded(s, r), NEW t, t = NotifyKbd(s)
    PROVE  /\ Bounded(t, r) /\ Later(s, t)
           /\ IsReadyForKbdFrame(s) => Served(t)
<1> DEFINE o == [s EXCEPT !.over = FALSE]
<1>1. s \in Hardware
  BY DEF Bounded, Within
<1>2. Alike(s, o) /\ Ports(s, o) /\ ~o.over /\ o.q = s.q
  <2>1. o \in Hardware
    BY <1>1, PushedKept DEF Kept
  <2>2. /\ o.buf = s.buf /\ (o.new <=> s.new) /\ o.src = s.src
        /\ o.waitK = s.waitK /\ o.waitA = s.waitA
    BY <1>1 DEF Hardware
  <2>3. Ports(s, o) /\ ~o.over /\ o.q = s.q
    BY <1>1 DEF Hardware, Ports
  <2> QED  BY <2>1, <2>2, <2>3 DEF Alike
<1>3. t = KbdTransferBuffer(o)
  BY DEF NotifyKbd
<1> HIDE DEF o
<1>4. Bounded(o, r) /\ Total(o) = Total(s)
  BY <1>2, AlikeHeld DEF Bounded, CMax, Ports
<1>5. /\ Bounded(t, r) /\ Later(o, t) /\ (t.over <=> o.over)
      /\ KbdMayPush(o) => t.waitK >= 1
      /\ ~KbdMayPush(o) => t = o
  BY <1>3, <1>4, KbdHeld
<1>6. Later(s, t)
  BY <1>2, <1>4, <1>5 DEF Later, Ports, Alike
<1>7. IsReadyForKbdFrame(s) => IsReadyForKbdFrame(o)
  BY <1>2 DEF IsReadyForKbdFrame, Ports, Alike
<1>8. IsReadyForKbdFrame(s) => Served(t)
  <2>1. CASE KbdMayPush(o)
    BY <1>5, <2>1 DEF Served, IsReadyForKbdFrame
  <2>2. CASE ~KbdMayPush(o)
    BY <1>2, <1>5, <1>7, <2>2 DEF Served, KbdMayPush
  <2> QED  BY <2>1, <2>2
<1> QED  BY <1>5, <1>6, <1>8

\* The end of a command or of its parameter tells the devices that may send
\* and could not before.
LEMMA NotifyFreedHeld ==
    ASSUME NEW b, NEW s, Bounded(s, "none"), NEW t, t = NotifyFreed(b, s)
    PROVE  /\ Bounded(t, "none") /\ Later(s, t)
           /\ Served(b) /\ s.q = b.q /\ (s.over <=> b.over) => Served(t)
<1> DEFINE a == IF FreedAux(b, s) THEN MouseTransferFrame(s) ELSE s
<1>1. t = IF FreedKbd(b, a) THEN NotifyKbd(a) ELSE a
  BY DEF NotifyFreed
<1>2. "none" \in Reads /\ s \in Hardware /\ Total(s) \in Nat
  BY HeldNat DEF Reads, Bounded, Within
<1>3. Bounded(a, "none") /\ Onward(s, a)
  <2>1. Onward(s, s)
    BY <1>2 DEF Onward, Same
  <2> QED  BY <1>2, <2>1, MouseHeld
<1> HIDE DEF a
<1>4. Later(s, a) /\ a.q = s.q /\ (a.over <=> s.over)
  BY <1>3 DEF Later, Onward, Ports, Same
<1>5. CASE FreedKbd(b, a)
  <2>1. Bounded(t, "none") /\ Later(a, t) /\ Served(t)
    BY <1>1, <1>2, <1>3, <1>5, NotifyHeld DEF FreedKbd
  <2>2. Later(s, t)
    <3>1. Total(a) \in Nat /\ Total(t) \in Nat
      BY <1>3, <2>1, HeldNat DEF Bounded, Within
    <3>2. Total(s) <= Total(t)
      BY <1>2, <1>4, <2>1, <3>1 DEF Later
    <3> QED  BY <1>4, <2>1, <3>2 DEF Later, Ports
  <2> QED  BY <2>1, <2>2
<1>6. CASE ~FreedKbd(b, a)
  BY <1>1, <1>3, <1>4, <1>6 DEF FreedKbd, Served
<1> QED  BY <1>5, <1>6

\* A flush leaves room for the answers of the keyboard.
LEMMA FlushHeld ==
    ASSUME NEW s \in Hardware, NEW t, t = FlushBuffer(s)
    PROVE  /\ Within(t, "none", KMax - 3, AMax, 0) /\ Ports(s, t) /\ t.kcmd = s.kcmd
           /\ s.quiet => Within(t, "none", 0, 0, 0) /\ Same(s, t)
<1> DEFINE e == Emptied(s)
           u == MousePushed(e)
           m == PutAll(u, MouseFrame(e))
           a == IF ~s.quiet /\ FreedAux(s, e) THEN m ELSE e
           o == [KbdPushed(a) EXCEPT !.over = FALSE]
           k == PutAll(o, KbdFrame(a))
<1>1. t = IF ~s.quiet /\ FreedKbd(s, a) THEN k ELSE a
  BY DEF FlushBuffer
<1>2. /\ e \in Hardware /\ e.buf = <<>> /\ ~e.new /\ e.waitK = 0 /\ e.waitA = 0
      /\ Same(s, e)
  <2>1. e \in Hardware
    <3>1. <<>> \in Seq(Bytes) /\ "ctl" \in Origins /\ 0 \in Int
      BY DEF Origins
    <3> QED  BY <3>1 DEF Emptied, Hardware
  <2>2. e.buf = <<>> /\ ~e.new /\ e.waitK = 0 /\ e.waitA = 0
    BY DEF Emptied, Hardware
  <2>3. Same(s, e)
    BY DEF Emptied, Hardware, Same
  <2> QED  BY <2>1, <2>2, <2>3
<1> HIDE DEF e
<1>3. Within(e, "none", 0, 0, 0)
  <2>1. \A x : Held(e, x) = 0
    BY <1>2, NumEmpty DEF Held, One
  <2> QED  BY <1>2, <2>1 DEF Within, One
<1>4. Within(e, "none", 0, AMax, 0)
  BY <1>3, Sizes, WithinWeaker
<1>5. Within(u, "none", 0, 0, 0) /\ Same(s, u) /\ u \in Hardware
  <2>1. u \in Hardware
    BY <1>2, PushedKept DEF Kept
  <2>2. /\ u.buf = e.buf /\ (u.new <=> e.new) /\ u.src = e.src
        /\ u.waitK = e.waitK /\ u.waitA = e.waitA /\ Same(e, u)
    BY <1>2 DEF MousePushed, Hardware, Same
  <2>3. Alike(e, u)
    BY <2>1, <2>2 DEF Alike
  <2>4. Same(s, u)
    BY <1>2, <2>2 DEF Same
  <2> QED  BY <1>3, <2>1, <2>3, <2>4, AlikeHeld
<1>6. Within(m, "none", 0, AMax, 0) /\ Same(s, m)
  <2> DEFINE f == MouseFrame(e)
  <2>1. CASE f = <<>>
    <3> HIDE DEF f
    <3>1. Len(f) = 0 /\ f \in Seq(Bytes) /\ \A i \in 1 .. Len(f) : f[i].src = "ctl"
      BY <2>1
    <3>2. m = PutAll(u, f)
      BY DEF f
    <3>3. ~IsDisabled(u, "ctl")
      BY DEF IsDisabled
    <3> HIDE DEF m, u
    <3>4. Grown(u, m, "ctl", 0)
      BY <1>5, <3>1, <3>2, <3>3, PutAllGrown
    <3>5. Within(m, "none", 0 + Part("ctl", "kbd", 0), 0 + Part("ctl", "aux", 0), 0 + Part("ctl", "ctl", 0))
      BY <1>5, <3>4, WithinGrown
    <3>6. Within(m, "none", 0, 0, 0)
      BY <3>5 DEF Part
    <3> QED  BY <1>5, <3>4, <3>6, Sizes, WithinWeaker DEF Grown, Same
  <2>2. CASE f # <<>>
    <3>1. f = AuxBytes(AuxLength) /\ ~e.offA
      BY <2>2 DEF MouseFrame, MouseMayPush, IsReadyForAuxFrame
    <3> HIDE DEF f
    <3>2. f \in Seq(Bytes) /\ Len(f) = AuxLength /\ \A i \in 1 .. Len(f) : f[i].src = "aux"
      BY <3>1, FramesTyped, Sizes
    <3>3. ~IsDisabled(u, "aux")
      BY <1>2, <1>5, <3>1 DEF IsDisabled, Same
    <3>4. m = PutAll(u, f)
      BY DEF f
    <3> HIDE DEF m, u
    <3>5. Grown(u, m, "aux", AuxLength)
      BY <1>5, <3>2, <3>3, <3>4, PutAllGrown
    <3>6. Within(m, "none", 0 + Part("aux", "kbd", AuxLength), 0 + Part("aux", "aux", AuxLength),
                 0 + Part("aux", "ctl", AuxLength))
      BY <1>5, <3>5, Sizes, WithinGrown
    <3>7. Within(m, "none", 0, AuxLength, 0)
      BY <3>6, Sizes DEF Part
    <3>8. Within(m, "none", 0, AMax, 0)
      BY <3>7, Sizes, WithinWeaker
    <3> QED  BY <1>5, <3>5, <3>8 DEF Grown, Same
  <2> QED  BY <2>1, <2>2
<1> HIDE DEF u, m
<1>7. Within(a, "none", 0, AMax, 0) /\ Same(s, a)
  BY <1>2, <1>4, <1>6
<1>8. s.quiet => t = e
  BY <1>1
<1> HIDE DEF a
<1>9. Within(k, "none", KMax - 3, AMax, 0) /\ Ports(a, k) /\ k.kcmd = a.kcmd
  <2> DEFINE f == KbdFrame(a)
             n == Head(a.q)
  <2>1. a \in Hardware
    BY <1>7 DEF Within
  <2>2. o \in Hardware
    <3>1. KbdPushed(a) \in Hardware
      BY <2>1, PushedKept DEF Kept
    <3> QED  BY <3>1, PushedKept DEF Kept
  <2>3. Alike(a, o) /\ Ports(a, o) /\ o.kcmd = a.kcmd
    <3>1. /\ o.buf = a.buf /\ (o.new <=> a.new) /\ o.src = a.src
          /\ o.waitK = a.waitK /\ o.waitA = a.waitA
      BY <2>1 DEF KbdPushed, Hardware
    <3>2. Ports(a, o) /\ o.kcmd = a.kcmd
      BY <2>1 DEF KbdPushed, Hardware, Ports
    <3> QED  BY <2>2, <3>1, <3>2 DEF Alike
  <2> HIDE DEF o
  <2>4. Within(o, "none", 0, AMax, 0)
    BY <1>7, <2>3, AlikeHeld
  <2>5. CASE f = <<>>
    <3> HIDE DEF f
    <3>1. Len(f) = 0 /\ f \in Seq(Bytes) /\ \A i \in 1 .. Len(f) : f[i].src = "ctl"
      BY <2>5
    <3>2. ~IsDisabled(o, "ctl") /\ k = PutAll(o, f)
      BY DEF IsDisabled, f
    <3> HIDE DEF k
    <3>3. Grown(o, k, "ctl", 0)
      BY <2>2, <3>1, <3>2, PutAllGrown
    <3>4. Within(k, "none", 0 + Part("ctl", "kbd", 0), AMax + Part("ctl", "aux", 0),
                 0 + Part("ctl", "ctl", 0))
      BY <2>4, <3>3, Sizes, WithinGrown
    <3>5. Within(k, "none", 0, AMax, 0)
      BY <3>4, Sizes DEF Part
    <3>6. Within(k, "none", KMax - 3, AMax, 0)
      BY <3>5, Sizes, WithinWeaker
    <3> QED  BY <2>3, <3>3, <3>6 DEF Grown, Same, Ports
  <2>6. CASE f # <<>>
    <3>1. f = KbdBytes(n) /\ ~a.offK /\ a.q \in Seq(Frames) /\ a.q # <<>>
      BY <2>1, <2>6 DEF KbdFrame, KbdMayPush, IsReadyForKbdFrame, Hardware
    <3>2. n \in Frames
      BY <3>1
    <3> HIDE DEF f, n
    <3>3. n \in Nat /\ n + 3 <= KMax
      BY <3>2, Sizes
    <3>4. f \in Seq(Bytes) /\ Len(f) = n /\ \A i \in 1 .. Len(f) : f[i].src = "kbd"
      BY <3>1, <3>3, FramesTyped
    <3>5. ~IsDisabled(o, "kbd")
      BY <2>3, <3>1 DEF IsDisabled, Ports
    <3>6. k = PutAll(o, f)
      BY DEF f
    <3> HIDE DEF k
    <3>7. Grown(o, k, "kbd", n)
      BY <2>2, <3>4, <3>5, <3>6, PutAllGrown
    <3>8. Within(k, "none", 0 + Part("kbd", "kbd", n), AMax + Part("kbd", "aux", n),
                 0 + Part("kbd", "ctl", n))
      BY <2>4, <3>3, <3>7, Sizes, WithinGrown
    <3>9. Within(k, "none", n, AMax, 0)
      BY <3>3, <3>8, Sizes DEF Part
    <3>10. Within(k, "none", KMax - 3, AMax, 0)
      BY <3>3, <3>9, Sizes, WithinWeaker
    <3> QED  BY <2>3, <3>7, <3>10 DEF Grown, Same, Ports
  <2> QED  BY <2>5, <2>6
<1> HIDE DEF k
<1>10. Within(a, "none", KMax - 3, AMax, 0)
  BY <1>7, Sizes, WithinWeaker
<1>11. Within(t, "none", KMax - 3, AMax, 0) /\ Ports(s, t) /\ t.kcmd = s.kcmd
  BY <1>1, <1>7, <1>9, <1>10 DEF Same, Ports
<1> QED  BY <1>2, <1>3, <1>8, <1>11

-----------------------------------------------------------------------------
(* The operations keep the counters, serve the keyboard and end dumps.     *)

LEMMA DumpLater ==
    ASSUME NEW s, NEW t, Bounded(s, "none"), Bounded(t, "none"), Later(s, t), DumpLeft(s)
    PROVE  DumpLeft(t)
<1>1. Total(s) \in Nat /\ Total(t) \in Nat
  BY HeldNat DEF Bounded, Within
<1> QED  BY <1>1 DEF DumpLeft, Later, Ports

LEMMA ServedSame ==
    ASSUME NEW s, NEW t, Same(s, t), t.waitK = s.waitK, Served(s)
    PROVE  Served(t)
BY DEF Served, IsReadyForKbdFrame, Same

\* What an operation that adds no bytes of its own achieves.
Good(s, t) == Bounded(t, "none") /\ Later(s, t) /\ (Served(s) => Served(t))

LEMMA AlikeGood ==
    ASSUME NEW s, NEW t, NEW r, Bounded(s, r), Alike(s, t), Ports(s, t)
    PROVE  Bounded(t, r) /\ Later(s, t)
<1>1. s \in Hardware /\ Total(s) \in Nat
  BY HeldNat DEF Bounded, Within
<1>2. Total(t) = Total(s) /\ Within(t, r, KMax, AMax, CMax(s))
  BY AlikeHeld DEF Bounded
<1>3. CMax(t) = CMax(s)
  BY DEF CMax, Ports
<1> QED  BY <1>1, <1>2, <1>3 DEF Bounded, Later, Alike

LEMMA KbdAddGood ==
    ASSUME NEW s, Bounded(s, "none"), NEW n \in Frames \cup {0}, NEW t, t = KbdBufferAdd(s, n)
    PROVE  Good(s, t)
<1> DEFINE o == [s EXCEPT !.q = <<>>, !.over = TRUE]
           a == [s EXCEPT !.q = Append(@, n)]
<1>1. s \in Hardware /\ Total(s) \in Nat /\ "none" \in Reads
  BY HeldNat DEF Bounded, Within, Reads
<1>2. t = IF s.over \/ n = 0 THEN s
          ELSE IF Len(s.q) = KbdBufferSize THEN o ELSE KbdTransferBuffer(a)
  BY DEF KbdBufferAdd
<1>3. CASE s.over \/ n = 0
  BY <1>1, <1>2, <1>3 DEF Good, Later, Ports
<1>4. CASE ~(s.over \/ n = 0) /\ Len(s.q) = KbdBufferSize
  <2>1. o \in Hardware
    BY <1>1, FieldsKept DEF Kept
  <2>2. /\ o.buf = s.buf /\ (o.new <=> s.new) /\ o.src = s.src
        /\ o.waitK = s.waitK /\ o.waitA = s.waitA
    BY <1>1 DEF Hardware
  <2>3. Ports(s, o)
    BY <1>1 DEF Hardware, Ports
  <2> HIDE DEF o
  <2>4. Bounded(o, "none") /\ Later(s, o)
    BY <2>1, <2>2, <2>3, AlikeGood DEF Alike
  <2>5. s.q # <<>>
    BY <1>4, BufferAssumption
  <2>6. Served(s) => Served(o)
    BY <2>2, <2>3, <2>5 DEF Served, IsReadyForKbdFrame, Ports
  <2> QED  BY <1>2, <1>4, <2>4, <2>6 DEF Good
<1>5. CASE ~(s.over \/ n = 0) /\ Len(s.q) # KbdBufferSize
  <2>1. a \in Hardware
    BY <1>1, <1>5, FieldsKept DEF Kept
  <2>2. /\ a.buf = s.buf /\ (a.new <=> s.new) /\ a.src = s.src
        /\ a.waitK = s.waitK /\ a.waitA = s.waitA
    BY <1>1 DEF Hardware
  <2>3. Ports(s, a) /\ a.q # <<>>
    <3>1. Ports(s, a) /\ a.q = Append(s.q, n) /\ s.q \in Seq(Frames)
      BY <1>1 DEF Hardware, Ports
    <3>2. n \in Frames /\ Len(s.q) \in Nat
      BY <1>5, <3>1
    <3>3. Len(Append(s.q, n)) = Len(s.q) + 1
      BY <3>1, <3>2
    <3>4. Append(s.q, n) # <<>>
      BY <3>2, <3>3
    <3> QED  BY <3>1, <3>4
  <2>4. t = KbdTransferBuffer(a)
    BY <1>2, <1>5
  <2> HIDE DEF a
  <2>5. Bounded(a, "none") /\ Later(s, a)
    BY <2>1, <2>2, <2>3, AlikeGood DEF Alike
  <2>6. /\ Bounded(t, "none") /\ Later(a, t)
        /\ KbdMayPush(a) => t.waitK >= 1
        /\ ~KbdMayPush(a) => t = a
    BY <1>1, <2>4, <2>5, KbdHeld
  <2>7. Served(t)
    BY <2>3, <2>6 DEF Served, KbdMayPush, IsReadyForKbdFrame
  <2>8. Later(s, t)
    <3>1. Total(a) \in Nat /\ Total(t) \in Nat
      BY <2>5, <2>6, HeldNat DEF Bounded, Within
    <3>2. Total(s) <= Total(t)
      BY <1>1, <2>5, <2>6, <3>1 DEF Later
    <3> QED  BY <2>5, <2>6, <3>2 DEF Later, Ports
  <2> QED  BY <2>6, <2>7, <2>8 DEF Good
<1> QED  BY <1>3, <1>4, <1>5

LEMMA GoodTrans ==
    ASSUME NEW s, NEW t, NEW u, Bounded(s, "none"), Good(s, t), Good(t, u)
    PROVE  Good(s, u)
<1>1. Total(s) \in Nat /\ Total(t) \in Nat /\ Total(u) \in Nat
  BY HeldNat DEF Bounded, Within, Good
<1>2. Total(s) <= Total(u)
  BY <1>1 DEF Good, Later
<1> QED  BY <1>2 DEF Good, Later, Ports

LEMMA KeyGood ==
    ASSUME NEW s, Bounded(s, "none"), NEW k \in Keys, NEW pressed \in BOOLEAN
    PROVE  Good(s, KeyAdded(s, k, pressed))
<1> DEFINE u == TypematicUpdate(s, k, pressed)
<1>1. s \in Hardware /\ Total(s) \in Nat
  BY HeldNat DEF Bounded, Within
<1>2. CASE ~s.scan
  BY <1>1, <1>2 DEF KeyAdded, Good, Later, Ports
<1>3. CASE s.scan
  <2>1. u \in Hardware
    <3> DEFINE w == IF s.rep = k THEN Rate ELSE Pause
    <3>1. w \in Nat
      BY BufferAssumption
    <3>2. u \in {s, [s EXCEPT !.rep = k, !.wait = w], [s EXCEPT !.rep = NoKey, !.wait = 0]}
      BY DEF TypematicUpdate
    <3> HIDE DEF w, u
    <3>3. /\ [s EXCEPT !.rep = k, !.wait = w] \in Hardware
          /\ [s EXCEPT !.rep = NoKey, !.wait = 0] \in Hardware
      BY <1>1, <3>1 DEF Hardware
    <3> QED  BY <1>1, <3>2, <3>3
  <2>2. /\ u.buf = s.buf /\ (u.new <=> s.new) /\ u.src = s.src
        /\ u.waitK = s.waitK /\ u.waitA = s.waitA
    BY <1>1 DEF TypematicUpdate, Hardware
  <2>3. Same(s, u)
    BY <1>1 DEF TypematicUpdate, Hardware, Same
  <2>4. KeyAdded(s, k, pressed) = KbdBufferAdd(u, Length[k])
    BY <1>3 DEF KeyAdded
  <2> HIDE DEF u
  <2>5. Good(s, u)
    <3>1. Bounded(u, "none") /\ Later(s, u)
      BY <2>1, <2>2, <2>3, AlikeGood DEF Alike, Same, Ports
    <3> QED  BY <2>2, <2>3, <3>1, ServedSame DEF Good
  <2>6. Good(u, KbdBufferAdd(u, Length[k]))
    BY <2>5, LengthsFit, KbdAddGood DEF Good
  <2> QED  BY <2>4, <2>5, <2>6, GoodTrans
<1> QED  BY <1>2, <1>3

LEMMA TickGood ==
    ASSUME NEW s, Bounded(s, "none") PROVE Good(s, TypematicTick(s))
<1> DEFINE w == IF s.wait > 0 THEN s.wait - 1 ELSE 0
           t == [s EXCEPT !.wait = w]
           o == [t EXCEPT !.wait = 1]
<1>1. s \in Hardware /\ s.wait \in Nat /\ s.rep \in Keys \cup {NoKey}
  BY DEF Bounded, Within, Hardware
<1>2. w \in Nat
  BY <1>1
<1>3. TypematicTick(s) = IF w > 0 \/ s.rep = NoKey THEN t
                         ELSE IF s.q # <<>> \/ ~IsReadyForKbdFrame(s) THEN o
                         ELSE KeyAdded(t, s.rep, TRUE)
  BY DEF TypematicTick
<1> HIDE DEF w
<1>4. ASSUME NEW v \in Hardware, Bounded(v, "none"), NEW n \in Nat
      PROVE  Good(v, [v EXCEPT !.wait = n])
  <2> DEFINE x == [v EXCEPT !.wait = n]
  <2>1. x \in Hardware
    BY <1>4, FieldsKept DEF Kept
  <2>2. /\ x.buf = v.buf /\ (x.new <=> v.new) /\ x.src = v.src
        /\ x.waitK = v.waitK /\ x.waitA = v.waitA
    BY <1>4 DEF Hardware
  <2>3. Same(v, x)
    BY <1>4 DEF Hardware, Same
  <2> HIDE DEF x
  <2>4. Bounded(x, "none") /\ Later(v, x)
    BY <1>4, <2>1, <2>2, <2>3, AlikeGood DEF Alike, Same, Ports
  <2>5. Good(v, x)
    BY <2>2, <2>3, <2>4, ServedSame DEF Good
  <2> QED  BY <2>5 DEF x
<1>5. Good(s, t) /\ t \in Hardware /\ Bounded(t, "none")
  <2>1. Good(s, t)
    BY <1>1, <1>2, <1>4
  <2> QED  BY <2>1 DEF Good, Bounded, Within
<1> HIDE DEF t
<1>6. Good(s, o)
  <2>1. Good(t, o)
    BY <1>4, <1>5
  <2> QED  BY <1>5, <2>1, GoodTrans
<1> HIDE DEF o
<1>7. s.rep # NoKey => Good(s, KeyAdded(t, s.rep, TRUE))
  BY <1>1, <1>5, KeyGood, GoodTrans
<1> QED  BY <1>3, <1>5, <1>6, <1>7

LEMMA ClearGood ==
    ASSUME NEW s, Bounded(s, "none")
    PROVE  Good(s, ClearBuffer(s)) /\ ClearBuffer(s).waitK = s.waitK /\ ClearBuffer(s).kcmd = s.kcmd
<1> DEFINE c == ClearBuffer(s)
<1>1. s \in Hardware /\ <<>> \in Seq(Frames) /\ 0 \in Nat /\ NoKey \in Keys \cup {NoKey}
  BY DEF Bounded, Within
<1>2. c \in Hardware
  BY <1>1 DEF ClearBuffer, Hardware
<1>3. /\ c.buf = s.buf /\ (c.new <=> s.new) /\ c.src = s.src
      /\ c.waitK = s.waitK /\ c.waitA = s.waitA /\ c.q = <<>> /\ ~c.over
  BY <1>1 DEF ClearBuffer, Hardware
<1>4. Ports(s, c) /\ c.kcmd = s.kcmd
  BY <1>1 DEF ClearBuffer, Hardware, Ports
<1> HIDE DEF c
<1>5. Bounded(c, "none") /\ Later(s, c)
  BY <1>2, <1>3, <1>4, AlikeGood DEF Alike
<1>6. Good(s, c) /\ c.waitK = s.waitK /\ c.kcmd = s.kcmd
  BY <1>3, <1>4, <1>5 DEF Good, Served
<1> QED  BY <1>6 DEF c

LEMMA MouseGood ==
    ASSUME NEW s, Bounded(s, "none")
    PROVE  /\ Good(s, MouseTransferFrame([s EXCEPT !.moved = TRUE]))
           /\ Good(s, MouseTransferFrame([s EXCEPT !.mready = TRUE]))
<1>1. s \in Hardware /\ "none" \in Reads
  BY DEF Bounded, Within, Reads
<1>2. ASSUME NEW m \in Hardware, Alike(s, m), Same(s, m) PROVE Good(s, MouseTransferFrame(m))
  <2> DEFINE t == MouseTransferFrame(m)
  <2>1. Bounded(m, "none") /\ Later(s, m)
    BY <1>2, AlikeGood DEF Same, Ports
  <2>2. Good(s, m)
    BY <1>2, <2>1, ServedSame DEF Good, Alike
  <2>3. Bounded(t, "none") /\ Onward(m, t)
    BY <1>1, <2>1, MouseHeld
  <2> HIDE DEF t
  <2>4. Good(m, t)
    BY <2>3, ServedSame DEF Good, Onward, Later, Same, Ports
  <2>5. Good(s, t)
    BY <2>2, <2>4, GoodTrans
  <2> QED  BY <2>5 DEF t
<1>3. /\ [s EXCEPT !.moved = TRUE] \in Hardware /\ Alike(s, [s EXCEPT !.moved = TRUE])
      /\ Same(s, [s EXCEPT !.moved = TRUE])
  <2> DEFINE m == [s EXCEPT !.moved = TRUE]
  <2>1. m \in Hardware
    BY <1>1, FieldsKept DEF Kept
  <2>2. /\ m.buf = s.buf /\ (m.new <=> s.new) /\ m.src = s.src
        /\ m.waitK = s.waitK /\ m.waitA = s.waitA
    BY <1>1 DEF Hardware
  <2>3. Same(s, m)
    BY <1>1 DEF Hardware, Same
  <2> QED  BY <2>1, <2>2, <2>3 DEF Alike
<1>4. /\ [s EXCEPT !.mready = TRUE] \in Hardware /\ Alike(s, [s EXCEPT !.mready = TRUE])
      /\ Same(s, [s EXCEPT !.mready = TRUE])
  <2> DEFINE m == [s EXCEPT !.mready = TRUE]
  <2>1. m \in Hardware
    BY <1>1, FieldsKept DEF Kept
  <2>2. /\ m.buf = s.buf /\ (m.new <=> s.new) /\ m.src = s.src
        /\ m.waitK = s.waitK /\ m.waitA = s.waitA
    BY <1>1 DEF Hardware
  <2>3. Same(s, m)
    BY <1>1 DEF Hardware, Same
  <2> QED  BY <2>1, <2>2, <2>3 DEF Alike
<1> QED  BY <1>2, <1>3, <1>4

LEMMA ExpiredGood ==
    ASSUME NEW s, Bounded(s, "none") PROVE Good(s, Expired(s))
<1> DEFINE m == [s EXCEPT !.ready = TRUE]
           t == MaybeTransferBuffer(m)
<1>1. s \in Hardware
  BY DEF Bounded, Within
<1>2. m \in Hardware
  BY <1>1 DEF Hardware
<1>3. /\ m.buf = s.buf /\ (m.new <=> s.new) /\ m.src = s.src
      /\ m.waitK = s.waitK /\ m.waitA = s.waitA
  BY <1>1 DEF Hardware
<1>4. Same(s, m)
  BY <1>1 DEF Hardware, Same
<1>5. Expired(s) = t
  BY DEF Expired
<1> HIDE DEF m
<1>6. Good(s, m)
  <2>1. Bounded(m, "none") /\ Later(s, m)
    BY <1>2, <1>3, <1>4, AlikeGood DEF Alike, Same, Ports
  <2> QED  BY <1>3, <1>4, <2>1, ServedSame DEF Good
<1>7. /\ t \in Hardware /\ (\A x : Held(t, x) = Held(m, x))
      /\ Same(m, t) /\ t.waitK = m.waitK /\ t.waitA = m.waitA
      /\ m.new => t.new /\ t.src = m.src
  BY <1>2, MaybeTyped, MaybeHeld
<1> HIDE DEF t
<1>8. Total(t) = Total(m) /\ Total(m) \in Nat
  BY <1>2, <1>7, HeldNat DEF Total
<1>9. Bounded(t, "none")
  <2>1. CMax(t) = CMax(m)
    BY <1>7 DEF CMax, Same
  <2> QED  BY <1>6, <1>7, <2>1 DEF Good, Bounded, Within
<1>10. Good(m, t)
  BY <1>7, <1>8, <1>9, ServedSame DEF Good, Later, Same, Ports
<1> QED  BY <1>5, <1>6, <1>10, GoodTrans

\* The end of a read takes the byte out of the port.
LEMMA TakenHeld ==
    ASSUME NEW s, NEW r \in {"port", "kbd", "aux"}, Bounded(s, r), r = "port" => s.src = "ctl",
           NEW t, t = [s EXCEPT !.new = FALSE, !.src = "ctl", !.ready = FALSE]
    PROVE  /\ Bounded(t, "none") /\ Ports(s, t) /\ Total(s) = Total(t) + 1
           /\ Served(s) => Served(t)
<1>1. s \in Hardware /\ s.new /\ s.buf \in Seq(Bytes) /\ s.waitK \in Int /\ s.waitA \in Int
  BY DEF Bounded, Within, Hardware
<1>2. t \in Hardware
  BY <1>1, FieldsKept DEF Kept
<1>3. t.buf = s.buf /\ ~t.new /\ t.waitK = s.waitK /\ t.waitA = s.waitA
  BY <1>1 DEF Hardware
<1>4. Same(s, t)
  BY <1>1 DEF Hardware, Same
<1>5. ASSUME NEW x PROVE Held(s, x) = Held(t, x) + One(s.src = x) /\ Held(t, x) \in Nat
  <2>1. NumOf(s.buf, x) \in Nat
    BY <1>1, PlacesFinite
  <2> QED  BY <1>1, <1>3, <2>1 DEF Held, One
<1> DEFINE rk == One(r = "kbd")
           ra == One(r = "aux")
<1>6. /\ s.waitK + rk = Held(s, "kbd") /\ s.waitA + ra = Held(s, "aux")
      /\ s.waitK <= KMax /\ s.waitA <= AMax /\ Held(s, "ctl") <= CMax(s)
  BY DEF Bounded, Within
<1>7. rk = One(s.src = "kbd") /\ ra = One(s.src = "aux") /\ rk \in Nat /\ ra \in Nat
  BY DEF Bounded, Within, One
<1> HIDE DEF rk, ra
<1>8. /\ Held(s, "kbd") = Held(t, "kbd") + rk /\ Held(s, "aux") = Held(t, "aux") + ra
      /\ Held(t, "kbd") \in Nat /\ Held(t, "aux") \in Nat
  BY <1>5, <1>7
<1>9. t.waitK = Held(t, "kbd") /\ t.waitA = Held(t, "aux")
  BY <1>1, <1>3, <1>6, <1>7, <1>8
<1>10. Held(t, "ctl") <= CMax(t)
  <2>1. CMax(t) = CMax(s) /\ CMax(s) \in Nat
    BY <1>4, Sizes DEF CMax, Same
  <2>2. /\ Held(s, "ctl") = Held(t, "ctl") + One(s.src = "ctl") /\ Held(t, "ctl") \in Nat
        /\ One(s.src = "ctl") \in Nat
    BY <1>5 DEF One
  <2> QED  BY <1>6, <2>1, <2>2
<1>11. Bounded(t, "none")
  <2>1. One("none" = "kbd") = 0 /\ One("none" = "aux") = 0
    BY DEF One
  <2>2. t.waitK + 0 = Held(t, "kbd") /\ t.waitA + 0 = Held(t, "aux")
    BY <1>8, <1>9
  <2> QED  BY <1>2, <1>3, <1>6, <1>10, <2>1, <2>2 DEF Bounded, Within
<1>12. Total(s) = Total(t) + 1
  <2>1. /\ Total(s) \in Nat /\ Len(s.buf) \in Nat /\ Len(s.buf) + One(s.new) = Total(s)
        /\ Total(t) \in Nat /\ Len(t.buf) \in Nat /\ Len(t.buf) + One(t.new) = Total(t)
    BY <1>1, <1>2, HeldNat
  <2>2. One(s.new) = 1 /\ One(t.new) = 0
    BY <1>1, <1>3 DEF One
  <2> DEFINE l == Len(s.buf)
             T == Total(s)
             U == Total(t)
  <2>3. l \in Nat /\ T \in Nat /\ U \in Nat /\ l + 1 = T /\ l + 0 = U
    BY <1>3, <2>1, <2>2
  <2> HIDE DEF l, T, U
  <2>4. T = U + 1
    BY <2>3
  <2> QED  BY <2>4 DEF T, U
<1>13. Ports(s, t)
  BY <1>4 DEF Same, Ports
<1>14. Served(s) => Served(t)
  BY <1>3, <1>4, ServedSame
<1> QED  BY <1>11, <1>12, <1>13, <1>14

\* The end of a dump tells both devices.
LEMMA FinishDumpHeld ==
    ASSUME NEW s, Bounded(s, "none"), s.new, NEW t, t = FinishDump(s)
    PROVE  /\ Bounded(t, "port") /\ t.cmd = s.cmd
           /\ t.dump => s.dump /\ Total(t) >= 2
           /\ Served(s) => Served(t)
<1> DEFINE d == [s EXCEPT !.dump = FALSE]
           a == IF IsReadyForAuxFrame(d) THEN MouseTransferFrame(d) ELSE d
<1>1. /\ s \in Hardware /\ Total(s) \in Nat /\ "port" \in Reads
      /\ Len(s.buf) \in Nat /\ Len(s.buf) + One(s.new) = Total(s) /\ One(s.new) = 1
  BY HeldNat DEF Bounded, Within, Reads, One
<1>2. t = IF ~(s.dump /\ s.buf = <<>>) THEN s
          ELSE IF IsReadyForKbdFrame(a) THEN NotifyKbd(a) ELSE a
  BY DEF FinishDump
<1>3. Bounded(s, "port")
  BY DEF Bounded, Within, One
<1>4. CASE ~(s.dump /\ s.buf = <<>>)
  <2>1. s.dump => Len(s.buf) >= 1
    BY <1>1, <1>4 DEF Hardware
  <2> DEFINE l == Len(s.buf)
             T == Total(s)
  <2>3. l \in Nat /\ T \in Nat /\ l + 1 = T /\ (s.dump => l >= 1)
    BY <1>1, <2>1
  <2> HIDE DEF l, T
  <2>4. s.dump => T >= 2
    BY <2>3
  <2>2. s.dump => Total(s) >= 2
    BY <2>4 DEF T
  <2> HIDE DEF a
  <2> QED  BY <1>2, <1>3, <1>4, <2>2
<1>5. CASE s.dump /\ s.buf = <<>>
  <2>1. d \in Hardware
    BY <1>1, FieldsKept DEF Kept
  <2>2. /\ d.buf = s.buf /\ (d.new <=> s.new) /\ d.src = s.src
        /\ d.waitK = s.waitK /\ d.waitA = s.waitA /\ ~d.dump /\ d.cmd = s.cmd
    BY <1>1 DEF Hardware
  <2> HIDE DEF d
  <2>3. Alike(s, d)
    BY <2>1, <2>2 DEF Alike
  <2>4. Held(d, "ctl") <= 1
    <3>1. Len(d.buf) = 0 /\ NumOf(d.buf, "ctl") = 0
      BY <1>5, <2>2, NumEmpty
    <3> QED  BY <3>1 DEF Held, One
  <2>5. Bounded(d, "port")
    <3>1. Within(d, "port", KMax, AMax, CMax(s))
      BY <1>3, <2>3, AlikeHeld DEF Bounded
    <3>2. Held(d, "ctl") \in Nat
      BY <2>1, HeldNat
    <3>3. CMax(d) = CopyrightLength
      BY <2>2 DEF CMax
    <3>4. Held(d, "ctl") <= CMax(d)
      BY <2>4, <3>2, <3>3, Sizes
    <3> QED  BY <3>1, <3>4 DEF Bounded, Within
  <2>6. Bounded(a, "port") /\ ~a.dump /\ a.cmd = s.cmd
    <3>1. Bounded(MouseTransferFrame(d), "port") /\ Onward(d, MouseTransferFrame(d))
      BY <1>1, <2>5, MouseHeld
    <3>2. ~MouseTransferFrame(d).dump /\ MouseTransferFrame(d).cmd = s.cmd
      BY <2>2, <3>1 DEF Onward, Same
    <3> QED  BY <2>2, <2>5, <3>1, <3>2
  <2> HIDE DEF a
  <2>7. CASE IsReadyForKbdFrame(a)
    <3>1. Bounded(t, "port") /\ Later(a, t) /\ Served(t)
      BY <1>1, <1>2, <1>5, <2>6, <2>7, NotifyHeld
    <3> QED  BY <2>6, <3>1 DEF Later, Ports
  <2>8. CASE ~IsReadyForKbdFrame(a)
    BY <1>2, <1>5, <2>6, <2>8 DEF Served
  <2> QED  BY <2>7, <2>8
<1> QED  BY <1>4, <1>5

LEMMA CountAuxHeld ==
    ASSUME NEW s, Bounded(s, "port"), s.src = "aux", NEW t, t = CountAuxRead(s)
    PROVE  Bounded(t, "aux") /\ Later(s, t) /\ (Served(s) => Served(t))
<1> DEFINE d == [s EXCEPT !.waitA = @ - 1]
<1>1. s \in Hardware /\ s.waitA \in Int /\ Total(s) \in Nat /\ "aux" \in Reads
  BY HeldNat DEF Bounded, Within, Hardware, Reads
<1>2. t = IF IsReadyForAuxFrame(d) THEN MouseTransferFrame(d) ELSE d
  BY DEF CountAuxRead
<1>3. d \in Hardware
  BY <1>1, FieldsKept DEF Kept
<1>4. /\ d.buf = s.buf /\ (d.new <=> s.new) /\ d.src = s.src
      /\ d.waitK = s.waitK /\ d.waitA = s.waitA - 1
  BY <1>1 DEF Hardware
<1>5. Same(s, d)
  BY <1>1 DEF Hardware, Same
<1> HIDE DEF d
<1>6. \A x : Held(d, x) = Held(s, x)
  BY <1>4 DEF Held
<1>7. Total(d) = Total(s)
  BY <1>6 DEF Total
<1>8. Bounded(d, "aux")
  <2>1. /\ s.waitK + One("port" = "kbd") = Held(s, "kbd") /\ s.waitA + One("port" = "aux") = Held(s, "aux")
        /\ s.waitK <= KMax /\ s.waitA <= AMax /\ Held(s, "ctl") <= CMax(s) /\ s.new
    BY DEF Bounded, Within
  <2>2. One("port" = "kbd") = 0 /\ One("port" = "aux") = 0 /\ One("aux" = "kbd") = 0 /\ One("aux" = "aux") = 1
    BY DEF One
  <2>3. CMax(d) = CMax(s)
    BY <1>5 DEF CMax, Same
  <2>4. d.waitA + 1 = s.waitA + 0 /\ d.waitA <= AMax
    BY <1>1, <1>4, <2>1, Sizes
  <2> QED  BY <1>3, <1>4, <1>6, <2>1, <2>2, <2>3, <2>4 DEF Bounded, Within
<1>9. Onward(s, d)
  BY <1>1, <1>4, <1>5, <1>7 DEF Onward
<1>10. Bounded(t, "aux") /\ Onward(d, t)
  <2>1. Onward(d, d)
    BY <1>1, <1>7 DEF Onward, Same
  <2> QED  BY <1>1, <1>2, <1>8, <2>1, MouseHeld
<1>11. Onward(s, t)
  <2>1. Total(t) \in Nat
    BY <1>10, HeldNat DEF Bounded, Within
  <2>2. Total(s) <= Total(t)
    BY <1>7, <1>10 DEF Onward
  <2> QED  BY <1>9, <1>10, <2>2 DEF Onward, Same
<1> QED  BY <1>10, <1>11, ServedSame DEF Onward, Later, Same, Ports

LEMMA CountKbdHeld ==
    ASSUME NEW s, Bounded(s, "port"), s.src = "kbd", NEW t, t = CountKbdRead(s)
    PROVE  Bounded(t, "kbd") /\ Later(s, t) /\ Served(t)
<1> DEFINE d == [s EXCEPT !.waitK = @ - 1]
<1>1. s \in Hardware /\ s.waitK \in Int /\ Total(s) \in Nat /\ "kbd" \in Reads
  BY HeldNat DEF Bounded, Within, Hardware, Reads
<1>2. t = IF IsReadyForKbdFrame(d) THEN NotifyKbd(d) ELSE d
  BY DEF CountKbdRead
<1>3. d \in Hardware
  BY <1>1, FieldsKept DEF Kept
<1>4. /\ d.buf = s.buf /\ (d.new <=> s.new) /\ d.src = s.src
      /\ d.waitA = s.waitA /\ d.waitK = s.waitK - 1
  BY <1>1 DEF Hardware
<1>5. Same(s, d)
  BY <1>1 DEF Hardware, Same
<1> HIDE DEF d
<1>6. \A x : Held(d, x) = Held(s, x)
  BY <1>4 DEF Held
<1>7. Total(d) = Total(s)
  BY <1>6 DEF Total
<1>8. Bounded(d, "kbd")
  <2>1. /\ s.waitK + One("port" = "kbd") = Held(s, "kbd") /\ s.waitA + One("port" = "aux") = Held(s, "aux")
        /\ s.waitK <= KMax /\ s.waitA <= AMax /\ Held(s, "ctl") <= CMax(s) /\ s.new
    BY DEF Bounded, Within
  <2>2. One("port" = "kbd") = 0 /\ One("port" = "aux") = 0 /\ One("kbd" = "kbd") = 1 /\ One("kbd" = "aux") = 0
    BY DEF One
  <2>3. CMax(d) = CMax(s)
    BY <1>5 DEF CMax, Same
  <2>4. d.waitK + 1 = s.waitK + 0 /\ d.waitK <= KMax
    BY <1>1, <1>4, <2>1, Sizes
  <2> QED  BY <1>3, <1>4, <1>6, <2>1, <2>2, <2>3, <2>4 DEF Bounded, Within
<1>9. Later(s, d)
  BY <1>1, <1>4, <1>5, <1>7 DEF Later, Same, Ports
<1>10. CASE IsReadyForKbdFrame(d)
  <2>1. Bounded(t, "kbd") /\ Later(d, t) /\ Served(t)
    BY <1>1, <1>2, <1>8, <1>10, NotifyHeld
  <2>2. Total(s) <= Total(t)
    BY <1>7, <2>1 DEF Later
  <2> QED  BY <1>9, <2>1, <2>2 DEF Later, Ports
<1>11. CASE ~IsReadyForKbdFrame(d)
  BY <1>2, <1>8, <1>9, <1>11 DEF Served
<1> QED  BY <1>10, <1>11

LEMMA ReadGood ==
    ASSUME NEW s, Bounded(s, "none"), s.new, NEW t, t = DataRead(s)
    PROVE  /\ Bounded(t, "none")
           /\ Served(s) => Served(t)
           /\ DumpLeft(s) => DumpLeft(t)
<1> DEFINE f == FinishDump(s)
           a == CountAuxRead(f)
           k == CountKbdRead(a)
<1>1. t = [k EXCEPT !.new = FALSE, !.src = "ctl", !.ready = FALSE]
  BY DEF DataRead
<1>2. /\ Bounded(f, "port") /\ f.cmd = s.cmd
      /\ f.dump => s.dump /\ Total(f) >= 2
      /\ Served(s) => Served(f)
  BY FinishDumpHeld
<1> HIDE DEF f
<1>3. f \in Hardware /\ f.src \in {"ctl", "kbd", "aux"} /\ Total(f) \in Nat
  BY <1>2, HeldNat DEF Bounded, Within, Hardware, Origins
<1>4. \E r \in {"port", "kbd", "aux"} :
        /\ Bounded(k, r) /\ (r = "port" => k.src = "ctl")
        /\ Later(f, k) /\ (Served(f) => Served(k))
  <2>1. CASE f.src = "aux"
    <3>1. Bounded(a, "aux") /\ Later(f, a) /\ (Served(f) => Served(a))
      BY <1>2, <2>1, CountAuxHeld
    <3> HIDE DEF a
    <3>2. a.src = "aux"
      BY <3>1 DEF Bounded, Within
    <3>3. k = a
      BY <3>2 DEF CountKbdRead
    <3> HIDE DEF k
    <3> QED  BY <3>1, <3>3
  <2>2. CASE f.src = "kbd"
    <3>1. a = f
      BY <2>2 DEF CountAuxRead
    <3> HIDE DEF a
    <3>2. Bounded(k, "kbd") /\ Later(f, k) /\ Served(k)
      BY <1>2, <2>2, <3>1, CountKbdHeld
    <3> HIDE DEF k
    <3> QED  BY <3>2
  <2>3. CASE f.src = "ctl"
    <3>1. a = f
      BY <2>3 DEF CountAuxRead
    <3> HIDE DEF a
    <3>2. k = f
      BY <2>3, <3>1 DEF CountKbdRead
    <3> HIDE DEF k
    <3>3. Later(f, f)
      BY <1>3 DEF Later, Ports
    <3> QED  BY <1>2, <2>3, <3>2, <3>3
  <2> HIDE DEF k
  <2> QED  BY <1>3, <2>1, <2>2, <2>3
<1> HIDE DEF k
<1>5. PICK r \in {"port", "kbd", "aux"} :
        /\ Bounded(k, r) /\ (r = "port" => k.src = "ctl")
        /\ Later(f, k) /\ (Served(f) => Served(k))
  BY <1>4
<1>6. /\ Bounded(t, "none") /\ Ports(k, t) /\ Total(k) = Total(t) + 1
      /\ Served(k) => Served(t)
  BY <1>1, <1>5, TakenHeld
<1>7. DumpLeft(s) => DumpLeft(t)
  <2>1. Total(k) \in Nat /\ Total(t) \in Nat
    BY <1>5, <1>6, HeldNat DEF Bounded, Within
  <2>2. (t.dump <=> f.dump) /\ t.cmd = f.cmd /\ Total(f) <= Total(k)
    BY <1>5, <1>6 DEF Later, Ports
  <2>3. f.dump => Total(t) >= 1
    BY <1>2, <1>3, <1>6, <2>1, <2>2
  <2> QED  BY <1>2, <2>2, <2>3 DEF DumpLeft
<1> QED  BY <1>2, <1>5, <1>6, <1>7

-----------------------------------------------------------------------------
(* The answers of the keyboard.                                            *)

\* After a flush the keyboard has answered i bytes.
Answered(s, i) ==
    /\ Within(s, "none", KMax - 3 + i, AMax, 0) /\ ~s.offK /\ s.cmd = "none"
    /\ i > 0 => s.waitK >= 1

LEMMA AlikeAnswered ==
    ASSUME NEW s, NEW t, NEW i, Answered(s, i), Alike(s, t), Ports(s, t)
    PROVE  Answered(t, i)
<1>1. Within(t, "none", KMax - 3 + i, AMax, 0)
  BY AlikeHeld DEF Answered
<1> QED  BY <1>1 DEF Answered, Alike, Ports

LEMMA AckAnswered ==
    ASSUME NEW s, NEW i \in 0 .. 2, Answered(s, i), NEW t, t = Ack(s)
    PROVE  Answered(t, i + 1)
<1> DEFINE f == KbdBytes(1)
           k == KMax - 3 + i
<1>1. s \in Hardware /\ ~s.offK /\ s.cmd = "none" /\ Within(s, "none", k, AMax, 0)
  BY DEF Answered, Within
<1>2. k \in Nat /\ k + 1 = KMax - 3 + (i + 1) /\ k + AMax + 0 + 1 <= BufferSize
  BY Sizes
<1>3. f \in Seq(Bytes) /\ Len(f) = 1 /\ \A j \in 1 .. Len(f) : f[j].src = "kbd"
  BY FramesTyped
<1>4. "kbd" \in Origins /\ ~IsDisabled(s, "kbd") /\ "none" \in Reads
  BY <1>1 DEF Origins, IsDisabled, Reads
<1>5. t = AddFrame(s, f)
  BY DEF Ack
<1> HIDE DEF f, k
<1>6. Len(s.buf) <= k + AMax + 0
  BY <1>1, <1>2, <1>4, Sizes, WithinRoom
<1>7. Len(s.buf) + Len(f) <= BufferSize /\ f # <<>>
  <2>1. Len(s.buf) \in Nat
    BY <1>1, HeldNat
  <2> DEFINE l == Len(s.buf)
  <2>2. l \in Nat /\ l <= k + AMax + 0
    BY <1>6, <2>1
  <2> HIDE DEF l
  <2>3. l + 1 <= BufferSize
    BY <1>2, <2>2, Sizes
  <2>4. f # <<>>
    <3>1. Len(f) = 1
      BY <1>3
    <3> QED  BY <3>1
  <2> QED  BY <1>3, <2>3, <2>4 DEF l
<1>8. Grown(s, t, "kbd", 1)
  BY <1>1, <1>3, <1>4, <1>5, <1>7, FrameGrown
<1>9. Within(t, "none", k + Part("kbd", "kbd", 1), AMax + Part("kbd", "aux", 1),
             0 + Part("kbd", "ctl", 1))
  BY <1>1, <1>2, <1>8, Sizes, WithinGrown
<1>10. Within(t, "none", k + 1, AMax, 0)
  BY <1>9, Sizes DEF Part
<1>11. t.waitK >= 1
  <2>1. s.waitK + One("none" = "kbd") = Held(s, "kbd") /\ Held(s, "kbd") \in Nat /\ s.waitK \in Int
    BY <1>1, HeldNat DEF Within, Hardware
  <2>2. s.waitK \in Nat
    BY <2>1 DEF One
  <2>3. t.waitK = s.waitK + 1
    BY <1>8 DEF Grown, Part
  <2> QED  BY <2>2, <2>3
<1>12. ~t.offK /\ t.cmd = "none"
  BY <1>1, <1>8 DEF Grown, Same
<1> QED  BY <1>2, <1>10, <1>11, <1>12 DEF Answered

LEMMA FieldsAnswered ==
    ASSUME NEW s, NEW i, Answered(s, i)
    PROVE  /\ Answered(ClearBuffer(s), i)
           /\ Answered([s EXCEPT !.scan = TRUE], i) /\ Answered([s EXCEPT !.scan = FALSE], i)
           /\ \A c \in KbdWaits : Answered([s EXCEPT !.kcmd = c], i)
<1>1. s \in Hardware /\ <<>> \in Seq(Frames) /\ 0 \in Nat /\ NoKey \in Keys \cup {NoKey}
  BY DEF Answered, Within
<1>2. Answered(ClearBuffer(s), i)
  <2> DEFINE t == ClearBuffer(s)
  <2>1. t \in Hardware
    BY <1>1 DEF ClearBuffer, Hardware
  <2>2. /\ t.buf = s.buf /\ (t.new <=> s.new) /\ t.src = s.src
        /\ t.waitK = s.waitK /\ t.waitA = s.waitA
    BY <1>1 DEF ClearBuffer, Hardware
  <2>3. Ports(s, t)
    BY <1>1 DEF ClearBuffer, Hardware, Ports
  <2> QED  BY <2>1, <2>2, <2>3, AlikeAnswered DEF Alike
<1>3. ASSUME NEW b \in BOOLEAN PROVE Answered([s EXCEPT !.scan = b], i)
  <2> DEFINE t == [s EXCEPT !.scan = b]
  <2>1. t \in Hardware
    BY <1>1 DEF Hardware
  <2>2. /\ t.buf = s.buf /\ (t.new <=> s.new) /\ t.src = s.src
        /\ t.waitK = s.waitK /\ t.waitA = s.waitA
    BY <1>1 DEF Hardware
  <2>3. Ports(s, t)
    BY <1>1 DEF Hardware, Ports
  <2> QED  BY <2>1, <2>2, <2>3, AlikeAnswered DEF Alike
<1>4. ASSUME NEW c \in KbdWaits PROVE Answered([s EXCEPT !.kcmd = c], i)
  <2> DEFINE t == [s EXCEPT !.kcmd = c]
  <2>1. t \in Hardware
    BY <1>1 DEF Hardware
  <2>2. /\ t.buf = s.buf /\ (t.new <=> s.new) /\ t.src = s.src
        /\ t.waitK = s.waitK /\ t.waitA = s.waitA
    BY <1>1 DEF Hardware
  <2>3. Ports(s, t)
    BY <1>1 DEF Hardware, Ports
  <2> QED  BY <2>1, <2>2, <2>3, AlikeAnswered DEF Alike
<1> QED  BY <1>2, <1>3, <1>4

\* Every command and every parameter is answered.
Replied(s) == \E i \in 1 .. 3 : Answered(s, i)

LEMMA KbdExecuteReplied ==
    ASSUME NEW s, Answered(s, 0), NEW c \in KbdCommands
    PROVE  Replied(KbdExecute(s, c))
<1> DEFINE a == Ack(s)
           b == ClearBuffer(a)
           r == [b EXCEPT !.scan = TRUE]
           d == [b EXCEPT !.scan = FALSE]
<1>0. 0 \in 0 .. 2 /\ 1 \in 0 .. 2 /\ 2 \in 0 .. 2 /\ 0 + 1 = 1 /\ 1 + 1 = 2 /\ 2 + 1 = 3
  OBVIOUS
<1>1. Answered(a, 1)
  BY <1>0, AckAnswered
<1>2. /\ c = "SetLeds" => KbdExecute(s, c) = [a EXCEPT !.kcmd = c]
      /\ c \in {"CodeSet", "Set3Key"} => KbdExecute(s, c) = [b EXCEPT !.kcmd = c]
      /\ c = "Echo" => KbdExecute(s, c) = a
      /\ c = "Identify" => KbdExecute(s, c) = Ack(Ack(a))
      /\ c = "ClearEnable" => KbdExecute(s, c) = r
      /\ c = "DefaultDisable" => KbdExecute(s, c) = d
      /\ c = "Set3All" => KbdExecute(s, c) = b
      /\ c = "Reset" => KbdExecute(s, c) = Ack(r)
  BY DEF KbdExecute
<1> HIDE DEF a
<1>3. Answered(b, 1)
  BY <1>1, FieldsAnswered
<1> HIDE DEF b
<1>4. Answered(r, 1) /\ Answered(d, 1)
  BY <1>3, FieldsAnswered
<1> HIDE DEF d, r
<1>5. c = "SetLeds" => Answered([a EXCEPT !.kcmd = c], 1)
  <2>1. c = "SetLeds" => c \in KbdWaits
    BY DEF KbdWaits
  <2> QED  BY <1>1, <2>1, FieldsAnswered
<1>6. c \in {"CodeSet", "Set3Key"} => Answered([b EXCEPT !.kcmd = c], 1)
  <2>1. c \in {"CodeSet", "Set3Key"} => c \in KbdWaits
    BY DEF KbdWaits
  <2> QED  BY <1>3, <2>1, FieldsAnswered
<1>7. Answered(Ack(a), 2) /\ Answered(Ack(r), 2)
  BY <1>0, <1>1, <1>4, AckAnswered
<1>8. Answered(Ack(Ack(a)), 3)
  BY <1>0, <1>7, AckAnswered
<1>9. ASSUME NEW t, NEW i \in 1 .. 3, Answered(t, i) PROVE Replied(t)
  BY <1>9 DEF Replied
<1> QED  BY <1>1, <1>2, <1>3, <1>4, <1>5, <1>6, <1>7, <1>8, <1>9 DEF KbdCommands

LEMMA KbdParameterReplied ==
    ASSUME NEW s, Answered(s, 0), NEW c \in KbdWaits \ {"none"}, NEW b,
           c = "CodeSet" => b \in DataBytes
    PROVE  Replied(KbdParameter(s, c, b))
<1> DEFINE a == Ack(s)
           e == ClearBuffer(s)
<1>0. 0 \in 0 .. 2 /\ 1 \in 0 .. 2 /\ 0 + 1 = 1 /\ 1 + 1 = 2
  OBVIOUS
<1>1. Answered(a, 1)
  BY <1>0, AckAnswered
<1>2. Answered(e, 0)
  BY FieldsAnswered
<1>3. /\ c = "SetLeds" => KbdParameter(s, c, b) = a
      /\ c = "Set3Key" => KbdParameter(s, c, b) = ClearBuffer(a)
      /\ c = "CodeSet" /\ b = "set1" => KbdParameter(s, c, b) = Ack(e)
      /\ c = "CodeSet" /\ b = "zero" => KbdParameter(s, c, b) = Ack(a)
      /\ c = "CodeSet" /\ b = "other" => KbdParameter(s, c, b) = [a EXCEPT !.kcmd = c]
  BY DEF KbdParameter
<1> HIDE DEF a, e
<1>4. Answered(ClearBuffer(a), 1) /\ Answered([a EXCEPT !.kcmd = c], 1)
  BY <1>1, FieldsAnswered
<1>5. Answered(Ack(e), 1) /\ Answered(Ack(a), 2)
  BY <1>0, <1>1, <1>2, AckAnswered
<1>6. ASSUME NEW t, NEW i \in 1 .. 3, Answered(t, i) PROVE Replied(t)
  BY <1>6 DEF Replied
<1> QED  BY <1>1, <1>3, <1>4, <1>5, <1>6 DEF KbdWaits, DataBytes

LEMMA AnsweredBounded ==
    ASSUME NEW s, NEW i \in 0 .. 3, Answered(s, i)
    PROVE  Bounded(s, "none") /\ (i > 0 => Served(s) /\ DumpLeft(s))
<1>1. s \in Hardware /\ s.waitK \in Int
  BY DEF Answered, Within, Hardware
<1>2. Bounded(s, "none")
  <2>1. /\ KMax - 3 + i \in Int /\ KMax - 3 + i <= KMax /\ KMax \in Int /\ AMax \in Int
        /\ CMax(s) \in Int /\ 0 <= CMax(s) /\ AMax <= AMax
    BY Sizes
  <2> QED  BY <2>1, WithinWeaker DEF Bounded, Answered
<1>3. i > 0 => Served(s)
  BY <1>1 DEF Answered, Served, IsReadyForKbdFrame
<1>4. i > 0 => DumpLeft(s)
  <2> DEFINE hk == Held(s, "kbd")
             ha == Held(s, "aux")
             hc == Held(s, "ctl")
  <2>1. hk \in Nat /\ ha \in Nat /\ hc \in Nat
    BY <1>1, HeldNat
  <2>2. Total(s) = hk + ha + hc
    BY DEF Total
  <2>3. s.waitK = hk
    BY <1>1, <2>1 DEF Answered, Within, One
  <2> HIDE DEF hk, ha, hc
  <2>4. i > 0 => hk + ha + hc >= 1
    BY <2>1, <2>3 DEF Answered
  <2> QED  BY <2>2, <2>4 DEF DumpLeft, Answered
<1> QED  BY <1>2, <1>3, <1>4

\* A byte for the keyboard; one that it does not answer only keeps the counters.
LEMMA ToKeyboardGood ==
    ASSUME NEW s, Bounded(s, "none"), s.cmd = "none", NEW b \in DataBytes \cup KbdCommands,
           NEW t, t = ToKeyboard(s, b)
    PROVE  /\ Bounded(t, "none")
           /\ ~(b \in DataBytes /\ s.kcmd = "none") => Served(t) /\ DumpLeft(t)
<1> DEFINE o == [s EXCEPT !.offK = FALSE]
           f == FlushBuffer(o)
           r == [f EXCEPT !.ready = FALSE]
           u == [r EXCEPT !.kcmd = "none"]
           isCommand == b \notin DataBytes /\ r.kcmd # "Set3Key"
           c == IF isCommand THEN "none" ELSE r.kcmd
<1>1. t = IF c # "none" THEN KbdParameter(u, c, b)
          ELSE IF isCommand THEN KbdExecute(u, b) ELSE u
  BY DEF ToKeyboard, KbdPortWrite
<1>2. s \in Hardware /\ "none" \in KbdWaits
  BY DEF Bounded, Within, KbdWaits
<1>3. o \in Hardware
  BY <1>2, FieldsKept DEF Kept
<1>4. ~o.offK /\ o.cmd = "none" /\ o.kcmd = s.kcmd
  BY <1>2 DEF Hardware
<1> HIDE DEF o
<1>5. Answered(f, 0) /\ f.kcmd = s.kcmd /\ f \in Hardware
  <2>1. Within(f, "none", KMax - 3, AMax, 0) /\ Ports(o, f) /\ f.kcmd = o.kcmd
    BY <1>3, FlushHeld
  <2> HIDE DEF f
  <2>2. KMax - 3 + 0 = KMax - 3
    BY Sizes
  <2> QED  BY <1>4, <2>1, <2>2 DEF Answered, Ports, Within
<1> HIDE DEF f
<1>6. Answered(r, 0) /\ r.kcmd = s.kcmd /\ r \in Hardware
  <2>1. r \in Hardware
    BY <1>5, FieldsKept DEF Kept
  <2>2. /\ r.buf = f.buf /\ (r.new <=> f.new) /\ r.src = f.src
        /\ r.waitK = f.waitK /\ r.waitA = f.waitA /\ r.kcmd = f.kcmd
    BY <1>5 DEF Hardware
  <2>3. Ports(f, r)
    BY <1>5 DEF Hardware, Ports
  <2> HIDE DEF r
  <2>4. Answered(r, 0)
    BY <1>5, <2>1, <2>2, <2>3, AlikeAnswered DEF Alike
  <2> QED  BY <1>5, <2>1, <2>2, <2>4
<1>7. r.kcmd \in KbdWaits
  BY <1>6 DEF Hardware
<1> HIDE DEF r
<1>8. Answered(u, 0)
  BY <1>2, <1>6, FieldsAnswered
<1> HIDE DEF u
<1>9. ASSUME Replied(t) PROVE Bounded(t, "none") /\ Served(t) /\ DumpLeft(t)
  <2>1. PICK i \in 1 .. 3 : Answered(t, i)
    BY <1>9 DEF Replied
  <2> QED  BY <2>1, AnsweredBounded
<1>10. CASE c # "none"
  <2>1. c \in KbdWaits \ {"none"} /\ (c = "CodeSet" => b \in DataBytes)
    BY <1>7, <1>10
  <2> HIDE DEF c
  <2> QED  BY <1>1, <1>8, <1>9, <1>10, <2>1, KbdParameterReplied
<1>11. CASE c = "none" /\ isCommand
  BY <1>1, <1>8, <1>9, <1>11, KbdExecuteReplied
<1>12. CASE c = "none" /\ ~isCommand
  <2>1. t = u /\ b \in DataBytes /\ s.kcmd = "none"
    BY <1>1, <1>6, <1>12
  <2>2. Bounded(u, "none")
    BY <1>8, AnsweredBounded
  <2> QED  BY <2>1, <2>2
<1> QED  BY <1>10, <1>11, <1>12

-----------------------------------------------------------------------------
(* The commands of the controller.                                         *)

LEMMA AddAllDisabled ==
    ASSUME NEW s \in Hardware, NEW bytes \in Seq(Bytes), NEW x, IsDisabled(s, x),
           \A i \in 1 .. Len(bytes) : bytes[i].src = x
    PROVE  BufferAddAll(s, bytes) = s
<1> DEFINE D == [i \in 0 .. Len(bytes) |-> {s}]
<1>1. Len(bytes) \in Nat /\ \A i \in 1 .. Len(bytes) : bytes[i] \in Bytes
  OBVIOUS
<1>2. \A i \in 0 .. Len(bytes) : D[i] = {s}
  OBVIOUS
<1>3. s \in D[0]
  BY <1>1, <1>2
<1>4. ASSUME NEW i \in 1 .. Len(bytes), NEW y \in Hardware, y \in D[i - 1]
      PROVE  BufferAdd(y, bytes[i]) \in D[i]
  <2>1. i \in 0 .. Len(bytes) /\ i - 1 \in 0 .. Len(bytes)
    BY <1>1
  <2>2. y = s
    BY <1>2, <1>4, <2>1
  <2>3. IsDisabled(y, bytes[i].src)
    BY <2>2
  <2>4. BufferAdd(y, bytes[i]) = y
    BY <2>3 DEF BufferAdd, BufferPut
  <2> QED  BY <1>2, <2>1, <2>2, <2>4
<1> HIDE DEF D
<1>5. BufferAddAll(s, bytes) \in D[Len(bytes)]
  BY <1>3, <1>4, AddAllLeads
<1> QED  BY <1>1, <1>2, <1>5

\* What a command adds to a buffer that is empty.
LEMMA AddedHeld ==
    ASSUME NEW s, Within(s, "none", 0, 0, 0), NEW bytes \in Seq(Bytes), NEW x \in Origins,
           NEW n \in Nat, Len(bytes) = n, n <= BufferSize,
           \A i \in 1 .. n : bytes[i].src = x,
           NEW t, t = BufferAddAll(s, bytes)
    PROVE  /\ Within(t, "none", Part(x, "kbd", n), Part(x, "aux", n), Part(x, "ctl", n))
           /\ Same(s, t)
           /\ ~IsDisabled(s, x) => Total(t) >= n
<1>1. s \in Hardware /\ "none" \in Reads /\ Part(x, "kbd", n) \in Nat /\ Part(x, "aux", n) \in Nat
      /\ Part(x, "ctl", n) \in Nat
  BY DEF Within, Reads, Part
<1>2. CASE IsDisabled(s, x)
  <2>1. t = s
    BY <1>1, <1>2, AddAllDisabled
  <2>2. Within(s, "none", Part(x, "kbd", n), Part(x, "aux", n), Part(x, "ctl", n))
    BY <1>1, WithinWeaker
  <2> QED  BY <1>2, <2>1, <2>2 DEF Same
<1>3. CASE ~IsDisabled(s, x)
  <2>1. Len(s.buf) <= 0 + 0 + 0 /\ Len(s.buf) \in Nat /\ Total(s) \in Nat
    BY <1>1, WithinRoom, HeldNat
  <2>2. Len(s.buf) + Len(bytes) <= BufferSize
    BY <2>1, Sizes
  <2>3. Grown(s, t, x, n)
    BY <1>1, <1>3, <2>2, AddAllGrown
  <2>4. Within(t, "none", 0 + Part(x, "kbd", n), 0 + Part(x, "aux", n), 0 + Part(x, "ctl", n))
    BY <1>1, <2>3, WithinGrown
  <2>5. Total(t) = Total(s) + n
    BY <1>1, <2>3, GrownLoop DEF Grown
  <2>6. Total(t) >= n
    BY <2>1, <2>5
  <2> QED  BY <1>1, <2>3, <2>4, <2>6 DEF Grown
<1> QED  BY <1>2, <1>3

\* A command of the controller leaves the keyboard's buffer alone.
Obeyed(s, t) == Bounded(t, "none") /\ t.q = s.q /\ (t.over <=> s.over)

LEMMA AnsweredObeyed ==
    ASSUME NEW z \in Hardware, z.quiet
    PROVE  /\ Obeyed(z, BufferAddAll(FlushBuffer(z), Reply(1)))
           /\ Obeyed(z, BufferAddAll(FlushBuffer(z), Reply(CopyrightLength)))
           /\ Obeyed(z, BufferAddAll(FlushBuffer(z), KbdBytes(1)))
           /\ Obeyed(z, BufferAddAll(FlushBuffer(z), AuxBytes(1)))
           /\ BufferAddAll(FlushBuffer(z), Reply(1)).dump <=> z.dump
           /\ BufferAddAll(FlushBuffer(z), Reply(CopyrightLength)).dump <=> z.dump
           /\ BufferAddAll(FlushBuffer(z), KbdBytes(1)).dump <=> z.dump
           /\ BufferAddAll(FlushBuffer(z), AuxBytes(1)).dump <=> z.dump
<1> DEFINE e == FlushBuffer(z)
<1>1. Within(e, "none", 0, 0, 0) /\ Same(z, e)
  BY FlushHeld
<1> HIDE DEF e
<1>2. ASSUME NEW bytes \in Seq(Bytes), NEW x \in Origins, NEW n \in Nat, Len(bytes) = n,
             1 <= n, n <= CopyrightLength, x # "ctl" => n = 1,
             \A i \in 1 .. n : bytes[i].src = x
      PROVE  Obeyed(z, BufferAddAll(e, bytes)) /\ (BufferAddAll(e, bytes).dump <=> z.dump)
  <2> DEFINE t == BufferAddAll(e, bytes)
  <2>1. Within(t, "none", Part(x, "kbd", n), Part(x, "aux", n), Part(x, "ctl", n)) /\ Same(e, t)
    <3>1. n <= BufferSize
      BY <1>2, Sizes
    <3> QED  BY <1>1, <1>2, <3>1, AddedHeld
  <2> HIDE DEF t
  <2>2. /\ Part(x, "kbd", n) <= KMax /\ Part(x, "aux", n) <= AMax /\ Part(x, "ctl", n) <= CMax(t)
        /\ Part(x, "kbd", n) \in Int /\ Part(x, "aux", n) \in Int /\ Part(x, "ctl", n) \in Int
        /\ CMax(t) \in Int /\ KMax \in Int /\ AMax \in Int
    <3>1. n \in Nat /\ n <= CopyrightLength /\ CopyrightLength <= CMax(t) /\ (x # "ctl" => n = 1)
      BY <1>2, Sizes DEF CMax
    <3>2. CMax(t) \in Nat /\ 1 <= CMax(t) /\ KMax \in Nat /\ AMax \in Nat /\ 1 <= KMax /\ 1 <= AMax
      BY Sizes
    <3>3. CASE x = "ctl"
      BY <3>1, <3>2, <3>3, Sizes DEF Part
    <3>4. CASE x # "ctl"
      <4>1. Part(x, "ctl", n) = 0 /\ Part(x, "kbd", n) \in {0, 1} /\ Part(x, "aux", n) \in {0, 1}
        BY <3>1, <3>4 DEF Part
      <4> QED  BY <3>2, <4>1
    <3> QED  BY <3>3, <3>4
  <2>3. Bounded(t, "none")
    BY <2>1, <2>2, WithinWeaker DEF Bounded
  <2>4. Obeyed(z, t) /\ (t.dump <=> z.dump)
    BY <1>1, <2>1, <2>3 DEF Obeyed, Same
  <2> QED  BY <2>4 DEF t
<1>3. "ctl" \in Origins /\ "kbd" \in Origins /\ "aux" \in Origins
  BY DEF Origins
<1>4. ASSUME NEW n \in Nat
      PROVE  /\ Reply(n) \in Seq(Bytes) /\ Len(Reply(n)) = n
             /\ KbdBytes(n) \in Seq(Bytes) /\ Len(KbdBytes(n)) = n
             /\ AuxBytes(n) \in Seq(Bytes) /\ Len(AuxBytes(n)) = n
             /\ \A i \in 1 .. n : /\ Reply(n)[i].src = "ctl" /\ KbdBytes(n)[i].src = "kbd"
                                  /\ AuxBytes(n)[i].src = "aux"
  BY FramesTyped
<1>5. 1 \in Nat /\ CopyrightLength \in Nat /\ 1 <= CopyrightLength
  BY Sizes
<1>6. ASSUME NEW n \in {1, CopyrightLength}
      PROVE  /\ Obeyed(z, BufferAddAll(e, Reply(n)))
             /\ BufferAddAll(e, Reply(n)).dump <=> z.dump
  <2>1. n \in Nat /\ 1 <= n /\ n <= CopyrightLength
    BY <1>5
  <2> QED  BY <1>2, <1>3, <1>4, <2>1
<1>7. /\ Obeyed(z, BufferAddAll(e, KbdBytes(1))) /\ Obeyed(z, BufferAddAll(e, AuxBytes(1)))
      /\ BufferAddAll(e, KbdBytes(1)).dump <=> z.dump
      /\ BufferAddAll(e, AuxBytes(1)).dump <=> z.dump
  BY <1>2, <1>3, <1>4, <1>5
<1> QED  BY <1>6, <1>7 DEF e

\* The fields a command may change.
LEMMA AlikeObeyed ==
    ASSUME NEW s, NEW t, Bounded(s, "none"), Alike(s, t), t.q = s.q, t.over <=> s.over,
           t.dump <=> s.dump
    PROVE  Obeyed(s, t)
<1>1. Within(t, "none", KMax, AMax, CMax(s))
  BY AlikeHeld DEF Bounded
<1>2. CMax(t) = CMax(s)
  BY DEF CMax
<1> QED  BY <1>1, <1>2 DEF Bounded, Obeyed

LEMMA PortsObeyed ==
    ASSUME NEW s, Bounded(s, "none"), NEW b \in BOOLEAN, NEW c \in BOOLEAN,
           NEW t, t = [s EXCEPT !.offA = b, !.offK = c]
    PROVE  Obeyed(s, t) /\ (t.dump <=> s.dump) /\ t.cmd = s.cmd
<1>1. s \in Hardware
  BY DEF Bounded, Within
<1>2. t \in Hardware
  BY <1>1 DEF Hardware
<1>3. /\ t.buf = s.buf /\ (t.new <=> s.new) /\ t.src = s.src
      /\ t.waitK = s.waitK /\ t.waitA = s.waitA
  BY <1>1 DEF Hardware
<1>4. t.q = s.q /\ (t.over <=> s.over) /\ (t.dump <=> s.dump) /\ t.cmd = s.cmd
  BY <1>1 DEF Hardware
<1> QED  BY <1>2, <1>3, <1>4, AlikeObeyed DEF Alike

\* The frames of the mouse's answer find room behind a flush.
LEMMA WriteAuxHeld ==
    ASSUME NEW s, Within(s, "none", 0, 0, 0),
           NEW p \in [answer : MouseAnswers, report : BOOLEAN], NEW t, t = MouseAnswered(s, p)
    PROVE  Within(t, "none", 0, AMax, 0) /\ Same(s, t)
<1> DEFINE a == p.answer
           r == MouseTold(s, p)
           t1 == AddFrame(r, AuxBytes(a[1]))
           t2 == AddFrame(t1, AuxBytes(a[2]))
           t3 == AddFrame(t2, AuxBytes(a[3]))
           t4 == AddFrame(t3, AuxBytes(a[4]))
<1>1. s \in Hardware /\ "none" \in Reads /\ "aux" \in Origins
  BY DEF Within, Reads, Origins
<1>2. Alike(s, r) /\ Same(s, r)
  BY <1>1, MouseSet DEF Alike, Same
<1>3. t = t4
  BY DEF MouseAnswered
<1>4. a \in MouseAnswers
  OBVIOUS
<1> HIDE DEF r, a
<1>5. Within(r, "none", 0, 0, 0)
  BY <1>2, AlikeHeld
<1>6. /\ a[1] \in Nat /\ a[2] \in Nat /\ a[3] \in Nat /\ a[4] \in Nat
      /\ a[1] + a[2] + a[3] + a[4] <= AMax /\ AMax <= BufferSize
  BY <1>4, AnswerLengths, Sizes DEF AMax
<1>7. ASSUME NEW v, NEW n \in Nat, NEW l \in Nat, n + l <= AMax, Within(v, "none", 0, n, 0)
      PROVE  Within(AddFrame(v, AuxBytes(l)), "none", 0, n + l, 0) /\ Same(v, AddFrame(v, AuxBytes(l)))
  <2> DEFINE f == AuxBytes(l)
             w == AddFrame(v, f)
  <2>1. v \in Hardware /\ n + l \in Nat /\ n <= n + l
    BY <1>7 DEF Within
  <2>2. f \in Seq(Bytes) /\ Len(f) = l /\ \A i \in 1 .. Len(f) : f[i].src = "aux"
    BY FramesTyped
  <2> HIDE DEF f
  <2>3. f # <<>> => f[1].src = "aux"
    BY <2>2
  <2>4. CASE f = <<>> \/ IsDisabled(v, "aux")
    <3>1. w = v
      BY <2>3, <2>4 DEF AddFrame
    <3> HIDE DEF w
    <3>2. Within(v, "none", 0, n + l, 0)
      BY <1>7, <2>1, WithinWeaker
    <3> QED  BY <3>1, <3>2 DEF Same, w, f
  <2>5. CASE f # <<>> /\ ~IsDisabled(v, "aux")
    <3>1. Len(v.buf) <= 0 + n + 0 /\ Len(v.buf) \in Nat
      BY <1>1, <1>7, <2>1, WithinRoom, HeldNat
    <3>2. Len(v.buf) + Len(f) <= BufferSize
      BY <1>6, <1>7, <2>2, <3>1, Sizes
    <3>3. Grown(v, w, "aux", l)
      BY <1>1, <2>1, <2>2, <2>5, <3>2, FrameGrown
    <3> HIDE DEF w
    <3>4. Within(w, "none", 0 + Part("aux", "kbd", l), n + Part("aux", "aux", l), 0 + Part("aux", "ctl", l))
      BY <1>7, <3>3, WithinGrown
    <3>5. Within(w, "none", 0, n + l, 0)
      BY <3>4 DEF Part
    <3> QED  BY <3>3, <3>5 DEF Grown, w, f
  <2> QED  BY <2>4, <2>5
<1> DEFINE n1 == a[1]
           n2 == n1 + a[2]
           n3 == n2 + a[3]
           n4 == n3 + a[4]
<1>8. /\ n1 \in Nat /\ n2 \in Nat /\ n3 \in Nat /\ n4 \in Nat
      /\ n1 <= AMax /\ n2 <= AMax /\ n3 <= AMax /\ n4 <= AMax /\ 0 + a[1] = n1
  BY <1>6, Sizes
<1>9. Within(t1, "none", 0, n1, 0) /\ Same(r, t1)
  BY <1>5, <1>6, <1>7, <1>8
<1> HIDE DEF t1, n1
<1>10. Within(t2, "none", 0, n2, 0) /\ Same(t1, t2)
  BY <1>6, <1>7, <1>8, <1>9
<1> HIDE DEF t2, n2
<1>11. Within(t3, "none", 0, n3, 0) /\ Same(t2, t3)
  BY <1>6, <1>7, <1>8, <1>10
<1> HIDE DEF t3, n3
<1>12. Within(t4, "none", 0, n4, 0) /\ Same(t3, t4)
  BY <1>6, <1>7, <1>8, <1>11
<1> HIDE DEF t4, n4
<1>13. Within(t4, "none", 0, AMax, 0)
  BY <1>8, <1>12, Sizes, WithinWeaker
<1> QED  BY <1>2, <1>3, <1>9, <1>10, <1>11, <1>12, <1>13 DEF Same

LEMMA WithinObeyed ==
    ASSUME NEW s, NEW t, Same(s, t), Within(t, "none", 0, AMax, 0)
    PROVE  Obeyed(s, t) /\ (t.dump <=> s.dump)
<1>1. /\ 0 <= KMax /\ 0 <= CMax(t) /\ AMax <= AMax
      /\ KMax \in Int /\ CMax(t) \in Int /\ AMax \in Int
  BY Sizes
<1>2. Bounded(t, "none")
  BY <1>1, WithinWeaker DEF Bounded
<1> QED  BY <1>2 DEF Obeyed, Same

LEMMA ParameterObeyed ==
    ASSUME NEW s, Within(s, "none", 0, 0, 0), s.quiet, NEW c \in Commands, NEW p, Fits(c, p),
           NEW t, t = ExecuteParameter(s, c, p)
    PROVE  Obeyed(s, t) /\ (t.dump <=> s.dump)
<1>1. s \in Hardware
  BY DEF Within
<1>2. Bounded(s, "none") /\ Within(s, "none", 0, AMax, 0)
  <2>1. /\ 0 <= KMax /\ 0 <= CMax(s) /\ 0 <= AMax
        /\ KMax \in Int /\ CMax(s) \in Int /\ AMax \in Int
    BY Sizes
  <2> QED  BY <2>1, WithinWeaker DEF Bounded
<1>3. CASE c = "WriteByteConfig"
  <2>1. p.offA \in BOOLEAN /\ p.offK \in BOOLEAN
    BY <1>3, Zenon DEF Fits
  <2>2. t = [s EXCEPT !.offA = p.offA, !.offK = p.offK]
    BY <1>3 DEF ExecuteParameter
  <2> QED  BY <1>2, <2>1, <2>2, PortsObeyed, Zenon
<1>4. CASE c = "SimulateInputKbd"
  BY <1>1, <1>4, AnsweredObeyed DEF ExecuteParameter
<1>5. CASE c = "SimulateInputAux"
  BY <1>1, <1>5, AnsweredObeyed DEF ExecuteParameter
<1>6. CASE c = "WriteAux"
  <2>1. p \in [answer : MouseAnswers, report : BOOLEAN]
    BY <1>6 DEF Fits
  <2>2. t = MouseAnswered(s, p)
    BY <1>6 DEF ExecuteParameter
  <2>3. Within(t, "none", 0, AMax, 0) /\ Same(s, t)
    BY <2>1, <2>2, WriteAuxHeld
  <2> QED  BY <2>3, WithinObeyed
<1>7. CASE c \notin {"WriteByteConfig", "SimulateInputKbd", "SimulateInputAux", "WriteAux"}
  <2>1. t = s
    BY <1>7 DEF ExecuteParameter
  <2> QED  BY <1>2, <2>1 DEF Obeyed
<1> QED  BY <1>3, <1>4, <1>5, <1>6, <1>7

\* The end of an operation of the controller.
LEMMA NotifyFreedGood ==
    ASSUME NEW b, NEW s, Obeyed(b, s), NEW z, z = NotifyAgain(s), NEW t, t = NotifyFreed(b, z)
    PROVE  /\ Bounded(t, "none")
           /\ Served(b) => Served(t)
           /\ DumpLeft(s) => DumpLeft(t)
<1>1. s \in Hardware /\ Bounded(s, "none")
  BY DEF Obeyed, Bounded, Within
<1>2. z \in Hardware
  BY <1>1, FieldsKept DEF NotifyAgain, Kept
<1>3. /\ z.buf = s.buf /\ (z.new <=> s.new) /\ z.src = s.src
      /\ z.waitK = s.waitK /\ z.waitA = s.waitA
  BY <1>1 DEF NotifyAgain, Hardware
<1>4. z.q = s.q /\ (z.over <=> s.over) /\ Ports(s, z)
  BY <1>1 DEF NotifyAgain, Hardware, Ports
<1>5. Bounded(z, "none") /\ Later(s, z)
  BY <1>1, <1>2, <1>3, <1>4, AlikeGood DEF Alike
<1>6. z.q = b.q /\ (z.over <=> b.over)
  BY <1>4 DEF Obeyed
<1>7. /\ Bounded(t, "none") /\ Later(z, t)
      /\ Served(b) => Served(t)
  BY <1>5, <1>6, NotifyFreedHeld
<1>8. DumpLeft(s) => DumpLeft(z)
  BY <1>1, <1>5, DumpLater
<1>9. DumpLeft(z) => DumpLeft(t)
  BY <1>5, <1>7, DumpLater
<1> QED  BY <1>7, <1>8, <1>9

LEMMA ToControllerGood ==
    ASSUME NEW s, Bounded(s, "none"), s.cmd \in Commands, s.cmd # "none",
           NEW p, Fits(s.cmd, p), NEW t, t = ToController(s, p)
    PROVE  /\ Bounded(t, "none")
           /\ Served(s) => Served(t)
           /\ DumpLeft(s) => DumpLeft(t)
<1> DEFINE z == [s EXCEPT !.cmd = "none", !.quiet = TRUE]
           e == FlushBuffer(z)
           x == ExecuteParameter(e, s.cmd, p)
<1>1. t = NotifyFreed(s, NotifyAgain(x))
  BY DEF ToController
<1>2. s \in Hardware
  BY DEF Bounded, Within
<1>3. z \in Hardware
  BY <1>2, FieldsKept DEF Kept
<1>4. z.quiet /\ z.q = s.q /\ (z.over <=> s.over) /\ (z.dump <=> s.dump)
  BY <1>2 DEF Hardware
<1> HIDE DEF z
<1>5. Within(e, "none", 0, 0, 0) /\ Same(z, e)
  BY <1>3, <1>4, FlushHeld
<1> HIDE DEF e
<1>6. Obeyed(e, x) /\ (x.dump <=> e.dump)
  BY <1>4, <1>5, ParameterObeyed DEF Same
<1> HIDE DEF x
<1>7. Obeyed(s, x) /\ (x.dump <=> s.dump)
  BY <1>4, <1>5, <1>6 DEF Obeyed, Same
<1>8. DumpLeft(s) => DumpLeft(x)
  BY <1>7 DEF DumpLeft
<1> QED  BY <1>1, <1>7, <1>8, NotifyFreedGood

\* The dump fills the buffer, and keeps the devices from sending until it is read.
LEMMA DumpObeyed ==
    ASSUME NEW s \in Hardware, s.quiet, s.cmd = "none",
           NEW t, t = BufferAddAll([FlushBuffer(s) EXCEPT !.dump = TRUE], Reply(DumpLength))
    PROVE  Obeyed(s, t) /\ DumpLeft(t)
<1> DEFINE e == FlushBuffer(s)
           d == [e EXCEPT !.dump = TRUE]
           f == Reply(DumpLength)
<1>1. Within(e, "none", 0, 0, 0) /\ Same(s, e)
  BY FlushHeld
<1> HIDE DEF e
<1>2. e \in Hardware
  BY <1>1 DEF Within
<1>3. d \in Hardware
  BY <1>2, FieldsKept DEF Kept
<1>4. /\ d.buf = e.buf /\ (d.new <=> e.new) /\ d.src = e.src
      /\ d.waitK = e.waitK /\ d.waitA = e.waitA
  BY <1>2 DEF Hardware
<1>5. d.q = e.q /\ (d.over <=> e.over) /\ d.dump /\ d.cmd = e.cmd
  BY <1>2 DEF Hardware
<1> HIDE DEF d
<1>6. Within(d, "none", 0, 0, 0)
  BY <1>1, <1>3, <1>4, AlikeHeld DEF Alike
<1>7. f \in Seq(Bytes) /\ Len(f) = DumpLength /\ \A i \in 1 .. DumpLength : f[i].src = "ctl"
  BY FramesTyped, Sizes
<1>8. "ctl" \in Origins /\ ~IsDisabled(d, "ctl")
  BY DEF Origins, IsDisabled
<1>9. t = BufferAddAll(d, f)
  BY DEF d, e
<1> HIDE DEF f
<1>10. /\ Within(t, "none", Part("ctl", "kbd", DumpLength), Part("ctl", "aux", DumpLength),
                 Part("ctl", "ctl", DumpLength))
       /\ Same(d, t) /\ Total(t) >= DumpLength
  BY <1>6, <1>7, <1>8, <1>9, Sizes, AddedHeld
<1>11. Within(t, "none", 0, 0, DumpLength)
  BY <1>10 DEF Part
<1>12. t.dump /\ t.cmd = "none" /\ t.q = s.q /\ (t.over <=> s.over)
  BY <1>1, <1>5, <1>10 DEF Same
<1>13. Bounded(t, "none")
  <2>1. CMax(t) = BufferSize
    BY <1>12 DEF CMax
  <2>2. 0 <= KMax /\ 0 <= AMax /\ DumpLength <= BufferSize /\ KMax \in Int /\ AMax \in Int
        /\ DumpLength \in Int /\ BufferSize \in Int
    BY Sizes
  <2> QED  BY <1>11, <2>1, <2>2, WithinWeaker DEF Bounded
<1>14. Total(t) >= 1
  <2>1. Total(t) \in Nat
    BY <1>13, HeldNat DEF Bounded, Within
  <2> QED  BY <1>10, <2>1, Sizes
<1> QED  BY <1>12, <1>13, <1>14 DEF Obeyed, DumpLeft

LEMMA CommandObeyed ==
    ASSUME NEW s, Bounded(s, "none"), s.quiet, ~s.dump, s.cmd = "none",
           NEW c \in Commands, c # "ReadRam", NEW t, t = ExecuteCommand(s, c)
    PROVE  Obeyed(s, t) /\ DumpLeft(t)
<1>1. s \in Hardware /\ s.offA \in BOOLEAN /\ s.offK \in BOOLEAN
  BY DEF Bounded, Within, Hardware
<1>2. ASSUME NEW v \in Hardware, Obeyed(v, t), t.dump <=> v.dump,
             v.q = s.q, v.over <=> s.over, ~v.dump
      PROVE  Obeyed(s, t) /\ DumpLeft(t)
  BY <1>2 DEF Obeyed, DumpLeft
<1>3. CASE c \in {"WriteByteConfig", "SimulateInputKbd", "SimulateInputAux", "WriteAux",
                  "OtherParameter"}
  <2>1. t = [s EXCEPT !.cmd = c]
    BY <1>3 DEF ExecuteCommand
  <2>2. t \in Hardware
    BY <1>1, <2>1 DEF Hardware
  <2>3. /\ t.buf = s.buf /\ (t.new <=> s.new) /\ t.src = s.src
        /\ t.waitK = s.waitK /\ t.waitA = s.waitA
    BY <1>1, <2>1 DEF Hardware
  <2>4. t.q = s.q /\ (t.over <=> s.over) /\ (t.dump <=> s.dump)
    BY <1>1, <2>1 DEF Hardware
  <2>5. Obeyed(s, t)
    BY <2>2, <2>3, <2>4, AlikeObeyed DEF Alike
  <2> QED  BY <1>1, <1>2, <2>4, <2>5
<1>4. CASE c \in {"Query", "ReadFwCopyright"}
  <2>1. \/ t = BufferAddAll(FlushBuffer(s), Reply(1))
        \/ t = BufferAddAll(FlushBuffer(s), Reply(CopyrightLength))
    BY <1>4 DEF ExecuteCommand
  <2>2. Obeyed(s, t) /\ (t.dump <=> s.dump)
    BY <1>1, <2>1, AnsweredObeyed
  <2> QED  BY <1>1, <1>2, <2>2
<1>5. ASSUME NEW b \in BOOLEAN, NEW d \in BOOLEAN, t = [s EXCEPT !.offA = b, !.offK = d]
      PROVE  Obeyed(s, t) /\ DumpLeft(t)
  <2>1. Obeyed(s, t) /\ (t.dump <=> s.dump)
    BY <1>5, PortsObeyed
  <2> QED  BY <1>1, <1>2, <2>1
<1>6. CASE c \in {"DisablePortAux", "EnablePortAux"}
  <2>1. c = "DisablePortAux" => t = [s EXCEPT !.offA = TRUE, !.offK = s.offK]
    BY <1>1 DEF ExecuteCommand, Hardware
  <2>2. c = "EnablePortAux" => t = [s EXCEPT !.offA = FALSE, !.offK = s.offK]
    BY <1>1 DEF ExecuteCommand, Hardware
  <2> QED  BY <1>1, <1>5, <1>6, <2>1, <2>2
<1>7. CASE c \in {"DisablePortKbd", "EnablePortKbd"}
  <2>1. c = "DisablePortKbd" => t = [s EXCEPT !.offA = s.offA, !.offK = TRUE]
    BY <1>1 DEF ExecuteCommand, Hardware
  <2>2. c = "EnablePortKbd" => t = [s EXCEPT !.offA = s.offA, !.offK = FALSE]
    BY <1>1 DEF ExecuteCommand, Hardware
  <2> QED  BY <1>1, <1>5, <1>7, <2>1, <2>2
<1>8. ASSUME NEW v \in Hardware, v.quiet, v.q = s.q, v.over <=> s.over, ~v.dump,
             t = BufferAddAll(FlushBuffer(v), Reply(1))
      PROVE  Obeyed(s, t) /\ DumpLeft(t)
  <2>1. Obeyed(v, t) /\ (t.dump <=> v.dump)
    BY <1>8, AnsweredObeyed
  <2> QED  BY <1>2, <1>8, <2>1
<1>9. CASE c = "TestPortAux"
  <2> DEFINE v == [s EXCEPT !.offA = TRUE]
  <2>1. v \in Hardware
    BY <1>1, FieldsKept DEF Kept
  <2>2. v.quiet /\ v.q = s.q /\ (v.over <=> s.over) /\ ~v.dump
    BY <1>1 DEF Hardware
  <2>3. t = BufferAddAll(FlushBuffer(v), Reply(1))
    BY <1>9 DEF ExecuteCommand
  <2> HIDE DEF v
  <2> QED  BY <1>8, <2>1, <2>2, <2>3
<1>10. CASE c = "TestPortKbd"
  <2> DEFINE v == [s EXCEPT !.offK = TRUE]
  <2>1. v \in Hardware
    BY <1>1, FieldsKept DEF Kept
  <2>2. v.quiet /\ v.q = s.q /\ (v.over <=> s.over) /\ ~v.dump
    BY <1>1 DEF Hardware
  <2>3. t = BufferAddAll(FlushBuffer(v), Reply(1))
    BY <1>10 DEF ExecuteCommand
  <2> HIDE DEF v
  <2> QED  BY <1>8, <2>1, <2>2, <2>3
<1>11. CASE c = "TestController"
  <2> DEFINE v == [s EXCEPT !.offA = TRUE, !.offK = TRUE]
  <2>1. v \in Hardware
    BY <1>1, FieldsKept DEF Kept
  <2>2. v.quiet /\ v.q = s.q /\ (v.over <=> s.over) /\ ~v.dump
    BY <1>1 DEF Hardware
  <2>3. t = BufferAddAll(FlushBuffer(v), Reply(1))
    BY <1>11 DEF ExecuteCommand
  <2> HIDE DEF v
  <2> QED  BY <1>8, <2>1, <2>2, <2>3
<1>12. CASE c = "DiagnosticDump"
  <2>1. t = BufferAddAll([FlushBuffer(s) EXCEPT !.dump = TRUE], Reply(DumpLength))
    BY <1>12 DEF ExecuteCommand
  <2> QED  BY <1>1, <2>1, DumpObeyed
<1>13. CASE c = "Ignored"
  <2>1. t = s
    BY <1>13 DEF ExecuteCommand
  <2> QED  BY <2>1 DEF Obeyed, DumpLeft
<1> QED  BY <1>3, <1>4, <1>6, <1>7, <1>9, <1>10, <1>11, <1>12, <1>13 DEF Commands

LEMMA CommandGood ==
    ASSUME NEW s, Bounded(s, "none"), NEW c \in Commands, c # "ReadRam",
           NEW t, t = CommandWritten(s, c)
    PROVE  Bounded(t, "none") /\ (Served(s) => Served(t)) /\ DumpLeft(t)
<1> DEFINE z == [s EXCEPT !.quiet = TRUE]
           d == [z EXCEPT !.dump = FALSE]
           e == IF s.dump THEN FlushBuffer(d) ELSE z
           n == [e EXCEPT !.cmd = "none"]
           x == ExecuteCommand(n, c)
<1>1. t = NotifyFreed(s, NotifyAgain(x))
  BY DEF CommandWritten
<1>2. s \in Hardware
  BY DEF Bounded, Within
<1>3. z \in Hardware
  BY <1>2, FieldsKept DEF Kept
<1>4. /\ z.buf = s.buf /\ (z.new <=> s.new) /\ z.src = s.src
      /\ z.waitK = s.waitK /\ z.waitA = s.waitA
  BY <1>2 DEF Hardware
<1>5. z.quiet /\ z.q = s.q /\ (z.over <=> s.over) /\ (z.dump <=> s.dump)
  BY <1>2 DEF Hardware
<1> HIDE DEF z
<1>6. Obeyed(s, z)
  BY <1>3, <1>4, <1>5, AlikeObeyed DEF Alike
<1>7. d \in Hardware
  BY <1>3, FieldsKept DEF Kept
<1>8. d.quiet /\ d.q = s.q /\ (d.over <=> s.over) /\ ~d.dump
  BY <1>3, <1>5 DEF Hardware
<1> HIDE DEF d
<1>9. Obeyed(s, e) /\ e.quiet /\ ~e.dump
  <2>1. CASE s.dump
    <3>1. e = FlushBuffer(d)
      BY <2>1
    <3> HIDE DEF e
    <3>2. Within(e, "none", 0, 0, 0) /\ Same(d, e)
      BY <1>7, <1>8, <3>1, FlushHeld
    <3>3. Bounded(e, "none")
      <4>1. /\ 0 <= KMax /\ 0 <= CMax(e) /\ 0 <= AMax
            /\ KMax \in Int /\ CMax(e) \in Int /\ AMax \in Int
        BY Sizes
      <4> QED  BY <3>2, <4>1, WithinWeaker DEF Bounded
    <3> QED  BY <1>8, <3>2, <3>3 DEF Obeyed, Same
  <2>2. CASE ~s.dump
    <3>1. e = z
      BY <2>2
    <3> HIDE DEF e
    <3> QED  BY <1>5, <1>6, <2>2, <3>1
  <2> QED  BY <2>1, <2>2
<1> HIDE DEF e
<1>10. e \in Hardware /\ Bounded(e, "none")
  BY <1>9 DEF Obeyed, Bounded, Within
<1>11. n \in Hardware
  BY <1>10 DEF Hardware
<1>12. /\ n.buf = e.buf /\ (n.new <=> e.new) /\ n.src = e.src
       /\ n.waitK = e.waitK /\ n.waitA = e.waitA
  BY <1>10 DEF Hardware
<1>13. n.quiet /\ n.q = e.q /\ (n.over <=> e.over) /\ ~n.dump /\ n.cmd = "none"
  BY <1>9, <1>10 DEF Hardware
<1> HIDE DEF n
<1>14. Obeyed(e, n)
  BY <1>9, <1>10, <1>11, <1>12, <1>13, AlikeObeyed DEF Alike
<1>15. Obeyed(n, x) /\ DumpLeft(x)
  BY <1>13, <1>14, CommandObeyed DEF Obeyed
<1> HIDE DEF x
<1>16. Obeyed(s, x)
  BY <1>9, <1>14, <1>15 DEF Obeyed
<1> QED  BY <1>1, <1>15, <1>16, NotifyFreedGood

-----------------------------------------------------------------------------
(* The counters and the service of the keyboard as invariants.             *)

CountInv == Bounded(hw, "none")

ServeInv == CountInv /\ Served(hw) /\ DumpLeft(hw)

LEMMA InitServed == ASSUME Init PROVE ServeInv
<1>1. <<>> \in Seq(Bytes) /\ <<>> \in Seq(Frames) /\ "ctl" \in Origins /\ "none" \in KbdWaits
  BY DEF Origins, KbdWaits
<1>2. hw \in Hardware
  BY <1>1 DEF Init, InitialHardware, Hardware
<1>3. /\ hw.buf = <<>> /\ ~hw.new /\ hw.waitK = 0 /\ hw.waitA = 0
      /\ hw.q = <<>> /\ ~hw.over /\ ~hw.dump
  BY DEF Init, InitialHardware
<1>4. \A x : Held(hw, x) = 0
  BY <1>3, NumEmpty DEF Held, One
<1>5. Within(hw, "none", 0, 0, 0)
  BY <1>2, <1>3, <1>4 DEF Within, One
<1>6. CountInv
  <2>1. /\ 0 <= KMax /\ 0 <= CMax(hw) /\ 0 <= AMax
        /\ KMax \in Int /\ CMax(hw) \in Int /\ AMax \in Int
    BY Sizes
  <2> QED  BY <1>5, <2>1, WithinWeaker DEF CountInv, Bounded
<1> QED  BY <1>3, <1>6 DEF ServeInv, Served, DumpLeft

\* What a step of the guest, of the host or of a timer keeps.
Serves(s, t) ==
    /\ Bounded(t, "none")
    /\ ~StrayBytes => (Served(s) => Served(t)) /\ (DumpLeft(s) => DumpLeft(t))

LEMMA GoodServes ==
    ASSUME NEW s, NEW t, Bounded(s, "none"), Good(s, t) PROVE Serves(s, t)
<1>1. Bounded(t, "none") /\ Later(s, t) /\ (Served(s) => Served(t))
  BY DEF Good
<1>2. DumpLeft(s) => DumpLeft(t)
  BY <1>1, DumpLater
<1> QED  BY <1>1, <1>2 DEF Serves

LEMMA NextServes ==
    ASSUME "ReadRam" \notin GuestCommands, CountInv, [Next]_vars
    PROVE  Serves(hw, hw')
<1>1. hw \in Hardware /\ Bounded(hw, "none")
  BY DEF CountInv, Bounded, Within
<1>2. ASSUME Good(hw, hw') PROVE Serves(hw, hw')
  BY <1>1, <1>2, GoodServes
<1>3. ASSUME NEW k \in Keys, HostKey(k) PROVE Serves(hw, hw')
  <2> DEFINE b == k \notin held
  <2>1. hw' = KeyAdded(hw, k, b) /\ b \in BOOLEAN
    BY <1>3 DEF HostKey
  <2> HIDE DEF b
  <2>2. Good(hw, KeyAdded(hw, k, b))
    BY <1>1, <2>1, KeyGood
  <2> QED  BY <1>2, <2>1, <2>2
<1>4. CASE ClrBuffer
  BY <1>1, <1>2, <1>4, ClearGood DEF ClrBuffer
<1>5. CASE MouseMoved
  BY <1>1, <1>2, <1>5, MouseGood DEF MouseMoved
<1>6. CASE MouseDelayHandler
  BY <1>1, <1>2, <1>6, MouseGood DEF MouseDelayHandler
<1>7. CASE DelayHandler
  BY <1>1, <1>2, <1>7, ExpiredGood DEF DelayHandler
<1>8. CASE Tick
  BY <1>1, <1>2, <1>8, TickGood DEF Tick
<1>9. CASE ReadDataPort
  BY <1>1, <1>9, ReadGood DEF ReadDataPort, Serves
<1>10. CASE WriteDataPort
  <2>1. CASE hw.cmd # "none" /\ \E p \in Parameters : hw' = ToController(hw, p)
    <3>1. PICK p \in Parameters : hw' = ToController(hw, p)
      BY <2>1
    <3>2. hw.cmd \in Commands
      BY <1>1, <2>1 DEF Hardware
    <3>3. Fits(hw.cmd, p)
      <4>1. hw.cmd = "WriteByteConfig" => Parameters = [offA : BOOLEAN, offK : BOOLEAN]
        BY DEF Parameters
      <4>2. hw.cmd = "WriteAux" => Parameters = [answer : MouseAnswers, report : BOOLEAN]
        BY DEF Parameters
      <4> QED  BY <3>1, <4>1, <4>2, Zenon DEF Fits
    <3> QED  BY <1>1, <2>1, <3>1, <3>2, <3>3, ToControllerGood DEF Serves
  <2>2. CASE /\ hw.cmd = "none"
             /\ \E b \in GuestBytes : /\ b \in DataBytes /\ hw.kcmd = "none" => StrayBytes
                                      /\ hw' = ToKeyboard(hw, b)
    <3>1. PICK b \in GuestBytes : /\ b \in DataBytes /\ hw.kcmd = "none" => StrayBytes
                                  /\ hw' = ToKeyboard(hw, b)
      BY <2>2
    <3>2. b \in DataBytes \cup KbdCommands
      BY GuestAssumption
    <3>3. /\ Bounded(hw', "none")
          /\ ~(b \in DataBytes /\ hw.kcmd = "none") => Served(hw') /\ DumpLeft(hw')
      BY <1>1, <2>2, <3>1, <3>2, ToKeyboardGood
    <3> QED  BY <3>1, <3>3 DEF Serves
  <2> QED  BY <1>10, <2>1, <2>2 DEF WriteDataPort
<1>11. CASE WriteCommandPort
  <2>1. PICK c \in GuestCommands : hw' = CommandWritten(hw, c)
    BY <1>11 DEF WriteCommandPort
  <2>2. c \in Commands /\ c # "ReadRam"
    BY GuestAssumption
  <2> QED  BY <1>1, <2>1, <2>2, CommandGood DEF Serves
<1>12. CASE UNCHANGED vars
  <2>1. hw' = hw
    BY <1>12 DEF vars
  <2> QED  BY <1>1, <2>1 DEF Serves
<1> QED  BY <1>3, <1>4, <1>5, <1>6, <1>7, <1>8, <1>9, <1>10, <1>11, <1>12 DEF Next

LEMMA CountHeld == ASSUME NEW x PROVE Count(x) = Held(hw, x)
BY DEF Count, Held, NumOf, Places, One

\* Unless the guest sends the memory reads that answer without flushing first,
\* the counters by which is_ready_for_kbd_frame and is_ready_for_aux_frame
\* decide agree with the bytes that wait, for any sizes of frames and buffers:
\* no frame pushed from within a read or a flush is lost or counted twice.
THEOREM CountersAlwaysExact ==
    ASSUME "ReadRam" \notin GuestCommands PROVE Spec => []CountersExact
<1>1. Init => CountInv
  BY InitServed DEF ServeInv
<1>2. CountInv /\ [Next]_vars => CountInv'
  BY NextServes DEF Serves, CountInv
<1>3. CountInv => CountersExact
  <2> SUFFICES ASSUME CountInv PROVE CountersExact
    OBVIOUS
  <2>1. /\ hw.waitK + One("none" = "kbd") = Held(hw, "kbd")
        /\ hw.waitA + One("none" = "aux") = Held(hw, "aux")
        /\ hw.waitK \in Int /\ hw.waitA \in Int
    BY DEF CountInv, Bounded, Within, Hardware
  <2>2. hw.waitK = Held(hw, "kbd") /\ hw.waitA = Held(hw, "aux")
    BY <2>1 DEF One
  <2> QED  BY <2>2, CountHeld DEF CountersExact
<1> QED  BY <1>1, <1>2, <1>3, PTL DEF Spec

\* If the guest moreover writes data to the keyboard only where a command waits
\* for it, then whoever frees the controller tells the keyboard: with the port
\* open and no keyboard byte waiting, the keyboard holds no scancode back and
\* its overflow latch is clear.
THEOREM KeyboardAlwaysServed ==
    ASSUME "ReadRam" \notin GuestCommands, ~StrayBytes
    PROVE  Spec => []FreeControllerServesKeyboard
<1>1. Init => ServeInv
  BY InitServed
<1>2. ServeInv /\ [Next]_vars => ServeInv'
  BY NextServes DEF Serves, ServeInv, CountInv
<1>3. ServeInv => FreeControllerServesKeyboard
  <2> SUFFICES ASSUME ServeInv, PortOpen, Count("kbd") = 0 PROVE hw.q = <<>> /\ ~hw.over
    BY DEF FreeControllerServesKeyboard
  <2>1. hw \in Hardware /\ Served(hw) /\ DumpLeft(hw) /\ Bounded(hw, "none")
    BY DEF ServeInv, CountInv, Bounded, Within
  <2>2. hw.waitK = 0
    <3>1. hw.waitK + One("none" = "kbd") = Held(hw, "kbd") /\ hw.waitK \in Int
      BY <2>1 DEF Bounded, Within, Hardware
    <3>2. Held(hw, "kbd") = 0
      BY CountHeld
    <3> QED  BY <3>1, <3>2 DEF One
  <2>3. ~hw.dump
    <3>1. SUFFICES ASSUME hw.dump PROVE FALSE
      OBVIOUS
    <3>2. ~hw.new /\ hw.buf = <<>>
      BY <3>1 DEF PortOpen
    <3>3. Total(hw) = 0
      <4>1. \A x : Held(hw, x) = 0
        BY <3>2, NumEmpty DEF Held, One
      <4> QED  BY <4>1 DEF Total
    <3> QED  BY <2>1, <3>1, <3>3 DEF DumpLeft
  <2> QED  BY <2>1, <2>2, <2>3 DEF Served, IsReadyForKbdFrame, PortOpen
<1> QED  BY <1>1, <1>2, <1>3, PTL DEF Spec
=============================================================================
