--------------------------- MODULE PicQueueProofs ---------------------------
(***************************************************************************)
(* Safety of the queue of timed events, for any pool of entries, handlers, *)
(* delays and number of cycles.                                            *)
(***************************************************************************)
EXTENDS PicQueue, WellFoundedInduction, FiniteSetTheorems, TLAPS

-----------------------------------------------------------------------------
(* Induction and recursion over an interval, stated with sets.             *)

\* A set of natural numbers that is not empty has a least element.
LEMMA LeastNat ==
    ASSUME NEW T \in SUBSET Nat, T # {}
    PROVE  \E x \in T : \A y \in T : x <= y
<1> DEFINE R == OpToRel(<, Nat)
<1>1. IsWellFoundedOn(R, Nat)
  BY NatLessThanWellFounded, Zenon
<1>2. \A x, y \in Nat : x < y => <<x, y>> \in R
  BY DEF OpToRel
<1> HIDE DEF R
<1>3. PICK x \in T : \A y \in T : ~(<<y, x>> \in R)
  BY <1>1, WFMin
<1>4. ASSUME NEW y \in T PROVE x <= y
  <2>1. x \in Nat /\ y \in Nat
    OBVIOUS
  <2>2. ~(y < x)
    BY <1>2, <1>3, <2>1, Zenon
  <2> QED  BY <2>1, <2>2
<1> QED  BY <1>4

\* What holds at 0 and is inherited from a number by the next holds up to n.
LEMMA IntervalInduction ==
    ASSUME NEW n \in Nat, NEW P \in SUBSET (0 .. n), 0 \in P,
           \A i \in 1 .. n : i - 1 \in P => i \in P
    PROVE  P = 0 .. n
<1> DEFINE T == (0 .. n) \ P
<1>1. SUFFICES ASSUME T # {} PROVE FALSE
  OBVIOUS
<1>2. T \in SUBSET Nat
  OBVIOUS
<1>3. PICK x \in T : \A y \in T : x <= y
  <2> HIDE DEF T
  <2> QED  BY <1>1, <1>2, LeastNat
<1>4. x # 0 /\ x - 1 \in 0 .. n /\ x \in 1 .. n
  OBVIOUS
<1> QED  BY <1>3, <1>4

\* f is the iteration that begins with c and goes on with the steps G.
Iterates(f, n, D, c, G) ==
    f \in [0 .. n -> D] /\ f[0] = c /\ \A i \in 1 .. n : f[i] = G[i][f[i - 1]]

\* There is one if the steps stay in D.
LEMMA IterationExists ==
    ASSUME NEW n \in Nat, NEW D, NEW c \in D, NEW G \in [1 .. n -> [D -> D]]
    PROVE  \E f : Iterates(f, n, D, c, G)
<1> DEFINE P == {k \in 0 .. n : \E f : Iterates(f, k, D, c, G)}
<1>1. 0 \in P
  <2> DEFINE f == [i \in 0 .. 0 |-> c]
  <2>1. Iterates(f, 0, D, c, G)
    BY DEF Iterates
  <2> HIDE DEF f
  <2> QED  BY <2>1
<1>2. ASSUME NEW k \in 1 .. n, k - 1 \in P PROVE k \in P
  <2>1. PICK f : Iterates(f, k - 1, D, c, G)
    BY <1>2
  <2> DEFINE g == [i \in 0 .. k |-> IF i = k THEN G[k][f[k - 1]] ELSE f[i]]
  <2>2. Iterates(g, k, D, c, G)
    BY <2>1 DEF Iterates
  <2>3. k \in 0 .. n
    OBVIOUS
  <2> HIDE DEF g
  <2> QED  BY <2>2, <2>3
<1>3. P = 0 .. n
  <2>1. P \in SUBSET (0 .. n)
    OBVIOUS
  <2> HIDE DEF P
  <2> QED  BY <1>1, <1>2, <2>1, IntervalInduction
<1>4. n \in P
  <2> HIDE DEF P
  <2> QED  BY <1>3
<1> QED  BY <1>4, Zenon

-----------------------------------------------------------------------------
(* Lists without repetitions.                                              *)

Distinct(s) == \A i, j \in 1 .. Len(s) : s[i] = s[j] => i = j
In(x, s) == \E i \in 1 .. Len(s) : s[i] = x
Before(s, x, y) == \E i, j \in 1 .. Len(s) : i < j /\ s[i] = x /\ s[j] = y

\* The first element and the others.
LEMMA HeadProps ==
    ASSUME NEW s \in Seq(Entries), s # <<>>
    PROVE  /\ Head(s) \in Entries /\ In(Head(s), s)
           /\ \A x : In(x, s) => x = Head(s) \/ Before(s, Head(s), x)
<1>1. Len(s) \in Nat /\ Len(s) >= 1 /\ Head(s) = s[1] /\ s[1] \in Entries
  OBVIOUS
<1>2. In(s[1], s)
  BY <1>1 DEF In
<1>3. ASSUME NEW x, In(x, s) PROVE x = s[1] \/ Before(s, s[1], x)
  BY <1>1, <1>3 DEF In, Before
<1> QED  BY <1>1, <1>2, <1>3, Zenon

\* Taking the first element away.
LEMMA TailProps ==
    ASSUME NEW s \in Seq(Entries), s # <<>>, Distinct(s)
    PROVE  /\ Tail(s) \in Seq(Entries) /\ Distinct(Tail(s))
           /\ \A x : In(x, Tail(s)) <=> In(x, s) /\ x # Head(s)
           /\ \A x, y : Before(Tail(s), x, y) => Before(s, x, y)
<1> DEFINE t == Tail(s)
<1>1. /\ Len(s) \in Nat /\ Len(s) >= 1 /\ Head(s) = s[1] /\ t \in Seq(Entries)
      /\ Len(t) = Len(s) - 1 /\ \A i \in 1 .. Len(t) : t[i] = s[i + 1]
  OBVIOUS
<1> HIDE DEF t
<1>2. Distinct(t)
  BY <1>1 DEF Distinct
<1>3. ASSUME NEW x, In(x, t) PROVE In(x, s) /\ x # s[1]
  BY <1>1, <1>3 DEF In, Distinct
<1>4. ASSUME NEW x, In(x, s), x # s[1] PROVE In(x, t)
  <2>1. PICK i \in 1 .. Len(s) : s[i] = x
    BY <1>4 DEF In
  <2>2. i # 1 /\ i - 1 \in 1 .. Len(t) /\ t[i - 1] = x
    BY <1>1, <1>4, <2>1
  <2> QED  BY <2>2 DEF In
<1>5. ASSUME NEW x, NEW y, Before(t, x, y) PROVE Before(s, x, y)
  BY <1>1, <1>5 DEF Before
<1> QED  BY <1>1, <1>2, <1>3, <1>4, <1>5, Zenon DEF t

\* Putting an element in front.
LEMMA ConsProps ==
    ASSUME NEW s \in Seq(Entries), Distinct(s), NEW e \in Entries, ~In(e, s)
    PROVE  /\ <<e>> \o s \in Seq(Entries) /\ Distinct(<<e>> \o s)
           /\ \A x : In(x, <<e>> \o s) <=> x = e \/ In(x, s)
<1> DEFINE t == <<e>> \o s
<1>1. /\ Len(s) \in Nat /\ t \in Seq(Entries) /\ Len(t) = Len(s) + 1
      /\ t[1] = e /\ \A i \in 2 .. Len(t) : t[i] = s[i - 1]
  OBVIOUS
<1> HIDE DEF t
<1>2. ASSUME NEW i \in 1 .. Len(t), NEW j \in 1 .. Len(t), t[i] = t[j] PROVE i = j
  <2>1. \A k \in 1 .. Len(s) : s[k] # e
    BY DEF In
  <2>2. \A k \in 2 .. Len(t) : k - 1 \in 1 .. Len(s) /\ t[k] = s[k - 1] /\ t[k] # e
    BY <1>1, <2>1
  <2>3. CASE i = 1 \/ j = 1
    BY <1>1, <1>2, <2>2, <2>3
  <2>4. CASE i # 1 /\ j # 1
    <3>1. i - 1 \in 1 .. Len(s) /\ j - 1 \in 1 .. Len(s) /\ s[i - 1] = s[j - 1]
      BY <1>1, <1>2, <2>2, <2>4
    <3>2. i - 1 = j - 1
      BY <3>1, Zenon DEF Distinct
    <3> QED  BY <1>1, <3>2
  <2> QED  BY <2>3, <2>4
<1>3. ASSUME NEW x, In(x, t) PROVE x = e \/ In(x, s)
  BY <1>1, <1>3 DEF In
<1>4. In(e, t)
  BY <1>1 DEF In
<1>5. ASSUME NEW x, In(x, s) PROVE In(x, t)
  <2>1. PICK i \in 1 .. Len(s) : s[i] = x
    BY <1>5 DEF In
  <2>2. i + 1 \in 1 .. Len(t) /\ t[i + 1] = x
    BY <1>1, <2>1
  <2> QED  BY <2>2 DEF In
<1>6. Distinct(t)
  BY <1>2, Zenon DEF Distinct
<1> QED  BY <1>1, <1>3, <1>4, <1>5, <1>6, Zenon DEF t

\* Adding an element at the end.
LEMMA AppendProps ==
    ASSUME NEW s \in Seq(Entries), NEW e \in Entries
    PROVE  /\ Append(s, e) \in Seq(Entries)
           /\ \A x : In(x, Append(s, e)) <=> x = e \/ In(x, s)
           /\ \A x, y : Before(Append(s, e), x, y) => Before(s, x, y) \/ (In(x, s) /\ y = e)
<1> DEFINE t == Append(s, e)
<1>1. /\ Len(s) \in Nat /\ t \in Seq(Entries) /\ Len(t) = Len(s) + 1
      /\ t[Len(t)] = e /\ \A i \in 1 .. Len(s) : t[i] = s[i]
  OBVIOUS
<1> HIDE DEF t
<1>2. ASSUME NEW x, In(x, t) PROVE x = e \/ In(x, s)
  BY <1>1, <1>2 DEF In
<1>3. In(e, t)
  BY <1>1 DEF In
<1>4. ASSUME NEW x, In(x, s) PROVE In(x, t)
  BY <1>1, <1>4 DEF In
<1>5. ASSUME NEW x, NEW y, Before(t, x, y) PROVE Before(s, x, y) \/ (In(x, s) /\ y = e)
  BY <1>1, <1>5 DEF Before, In
<1> QED  BY <1>1, <1>2, <1>3, <1>4, <1>5, Zenon DEF t

\* The list t is q with e after those that are not later and before the first
\* that is later.
Inserted(t, q, e, f) ==
    /\ t \in Seq(Entries) /\ t # <<>> /\ Distinct(t)
    /\ \A x : In(x, t) <=> x = e \/ In(x, q)
    /\ \A x, y : Before(t, x, y) =>
         \/ Before(q, x, y)
         \/ y = e /\ In(x, q) /\ f[x].index <= f[e].index
         \/ x = e /\ \E z : /\ In(z, q) /\ f[z].index > f[e].index
                            /\ y = z \/ Before(q, z, y)

LEMMA InsertProps ==
    ASSUME NEW q \in Seq(Entries), Distinct(q), NEW e \in Entries, ~In(e, q),
           NEW f, \A x \in Entries : f[x].index \in Int
    PROVE  Inserted(Insert(q, e, f), q, e, f)
<1> DEFINE I == {i \in 1 .. Len(q) : ComesLater(f[q[i]].index, f[e].index)}
           p == IF I # {} THEN Min(I) ELSE Len(q) + 1
           t == InsertAt(q, p, e)
<1>1. /\ p \in 1 .. Len(q) + 1
      /\ \A i \in 1 .. Len(q) : i < p => f[q[i]].index <= f[e].index
      /\ p # Len(q) + 1 => f[q[p]].index > f[e].index
  <2>1. Len(q) \in Nat /\ \A i \in 1 .. Len(q) : f[q[i]].index \in Int
    OBVIOUS
  <2>2. CASE I = {}
    BY <2>1, <2>2 DEF ComesLater
  <2>3. CASE I # {}
    <3>1. I \in SUBSET Nat
      BY <2>1
    <3>2. \E x \in I : \A y \in I : x <= y
      <4> HIDE DEF I
      <4> QED  BY <2>3, <3>1, LeastNat
    <3>3. Min(I) \in I /\ \A y \in I : Min(I) <= y
      <4> HIDE DEF I
      <4> QED  BY <3>2 DEF Min
    <3>4. p = Min(I)
      BY <2>3
    <3> HIDE DEF p
    <3>5. p \in I /\ \A y \in I : p <= y
      BY <3>3, <3>4
    <3>6. p \in 1 .. Len(q) /\ ComesLater(f[q[p]].index, f[e].index)
      BY <3>5
    <3>7. \A i \in 1 .. Len(q) : i < p => ~ComesLater(f[q[i]].index, f[e].index)
      BY <2>1, <3>5, <3>6
    <3> QED  BY <2>1, <3>6, <3>7 DEF ComesLater
  <2> QED  BY <2>2, <2>3
<1>2. Insert(q, e, f) = t
  <2>1. I # {} => Min(I) # 0
    BY <1>1
  <2> QED  BY <2>1 DEF Insert, SelectInSeq
<1> HIDE DEF p, I
<1>3. /\ t \in Seq(Entries) /\ Len(t) = Len(q) + 1 /\ Len(q) \in Nat /\ t[p] = e
      /\ \A i \in 1 .. Len(q) : IF i < p THEN t[i] = q[i] ELSE t[i + 1] = q[i]
      /\ \A i \in 1 .. Len(t) : \/ i < p /\ i \in 1 .. Len(q) /\ t[i] = q[i]
                                \/ i = p /\ t[i] = e
                                \/ i > p /\ i - 1 \in 1 .. Len(q) /\ t[i] = q[i - 1]
  <2> DEFINE a == SubSeq(q, 1, p - 1)
             b == a \o <<e>>
             c == SubSeq(q, p, Len(q))
  <2>1. /\ a \in Seq(Entries) /\ Len(a) = p - 1
        /\ \A i \in 1 .. p - 1 : a[i] = q[i]
    BY <1>1
  <2>2. /\ c \in Seq(Entries) /\ Len(c) = Len(q) - p + 1
        /\ \A i \in 1 .. Len(q) - p + 1 : c[i] = q[p + i - 1]
    BY <1>1
  <2>3. t = b \o c
    BY DEF InsertAt
  <2> HIDE DEF a, c, t
  <2>4. /\ b \in Seq(Entries) /\ Len(b) = p /\ b[p] = e
        /\ \A i \in 1 .. p - 1 : b[i] = q[i]
    BY <1>1, <2>1
  <2> HIDE DEF b
  <2>5. /\ t \in Seq(Entries) /\ Len(t) = Len(q) + 1
        /\ \A i \in 1 .. p : t[i] = b[i]
        /\ \A i \in p + 1 .. Len(q) + 1 : t[i] = c[i - p]
    <3>1. /\ t \in Seq(Entries) /\ Len(t) = Len(b) + Len(c)
          /\ \A i \in 1 .. Len(b) + Len(c) :
                t[i] = IF i <= Len(b) THEN b[i] ELSE c[i - Len(b)]
      <4>1. b \in Seq(Entries) /\ c \in Seq(Entries)
        BY <2>2, <2>4
      <4> QED  BY <2>3, <4>1
    <3>2. Len(b) = p /\ Len(b) + Len(c) = Len(q) + 1
      BY <1>1, <2>2, <2>4
    <3> QED  BY <1>1, <3>1, <3>2
  <2>6. t[p] = e /\ Len(q) \in Nat /\ \A i \in 1 .. p - 1 : t[i] = q[i]
    BY <1>1, <2>4, <2>5
  <2>7. ASSUME NEW i \in p + 1 .. Len(q) + 1 PROVE t[i] = q[i - 1]
    <3>1. i - p \in 1 .. Len(q) - p + 1 /\ p + (i - p) - 1 = i - 1
      BY <1>1
    <3> QED  BY <2>2, <2>5, <3>1
  <2>8. ASSUME NEW i \in 1 .. Len(q) PROVE IF i < p THEN t[i] = q[i] ELSE t[i + 1] = q[i]
    <3>1. CASE i < p
      BY <1>1, <2>6, <3>1
    <3>2. CASE ~(i < p)
      <4>1. i + 1 \in p + 1 .. Len(q) + 1 /\ i + 1 - 1 = i
        BY <1>1, <3>2
      <4> QED  BY <2>7, <3>2, <4>1
    <3> QED  BY <3>1, <3>2
  <2>9. ASSUME NEW i \in 1 .. Len(t)
        PROVE  \/ i < p /\ i \in 1 .. Len(q) /\ t[i] = q[i]
               \/ i = p /\ t[i] = e
               \/ i > p /\ i - 1 \in 1 .. Len(q) /\ t[i] = q[i - 1]
    BY <1>1, <2>5, <2>6, <2>7
  <2> QED  BY <2>5, <2>6, <2>8, <2>9, Zenon
<1> HIDE DEF t
<1>4. Distinct(t)
  <2>1. \A k \in 1 .. Len(q) : q[k] # e
    BY DEF In
  <2>2. ASSUME NEW i \in 1 .. Len(t), NEW j \in 1 .. Len(t), t[i] = t[j] PROVE i = j
    <3>1. CASE i = p \/ j = p
      BY <1>1, <1>3, <2>1, <2>2, <3>1
    <3>2. CASE i # p /\ j # p
      <4>1. PICK k \in 1 .. Len(q) : t[i] = q[k] /\ k = IF i < p THEN i ELSE i - 1
        BY <1>1, <1>3, <3>2
      <4>2. PICK l \in 1 .. Len(q) : t[j] = q[l] /\ l = IF j < p THEN j ELSE j - 1
        BY <1>1, <1>3, <3>2
      <4>3. k = l
        BY <2>2, <4>1, <4>2, Zenon DEF Distinct
      <4> QED  BY <1>1, <1>3, <3>2, <4>1, <4>2, <4>3
    <3> QED  BY <3>1, <3>2
  <2> QED  BY <2>2, Zenon DEF Distinct
<1>5. ASSUME NEW x, In(x, t) PROVE x = e \/ In(x, q)
  BY <1>3, <1>5 DEF In
<1>6. In(e, t)
  BY <1>1, <1>3 DEF In
<1>7. ASSUME NEW x, In(x, q) PROVE In(x, t)
  <2>1. PICK i \in 1 .. Len(q) : q[i] = x
    BY <1>7 DEF In
  <2>2. /\ i \in 1 .. Len(t) /\ i + 1 \in 1 .. Len(t)
        /\ t[i] = x \/ t[i + 1] = x
    BY <1>1, <1>3, <2>1
  <2> QED  BY <2>2 DEF In
<1>8. ASSUME NEW x, NEW y, Before(t, x, y)
      PROVE  \/ Before(q, x, y)
             \/ y = e /\ In(x, q) /\ f[x].index <= f[e].index
             \/ x = e /\ \E z : /\ In(z, q) /\ f[z].index > f[e].index
                                /\ y = z \/ Before(q, z, y)
  <2>1. PICK i \in 1 .. Len(t), j \in 1 .. Len(t) : i < j /\ t[i] = x /\ t[j] = y
    BY <1>8 DEF Before
  <2>2. CASE i < p /\ j = p
    <3>1. i \in 1 .. Len(q) /\ x = q[i] /\ y = e /\ f[x].index <= f[e].index
      BY <1>1, <1>3, <2>1, <2>2
    <3> QED  BY <3>1 DEF In
  <2>3. CASE i = p
    <3>1. /\ x = e /\ p \in 1 .. Len(q) /\ j - 1 \in 1 .. Len(q) /\ y = q[j - 1]
          /\ f[q[p]].index > f[e].index
      BY <1>1, <1>3, <2>1, <2>3
    <3>2. In(q[p], q)
      BY <3>1 DEF In
    <3>3. y = q[p] \/ Before(q, q[p], y)
      BY <1>1, <2>1, <2>3, <3>1 DEF Before
    <3> QED  BY <3>1, <3>2, <3>3
  <2>4. CASE i # p /\ ~(i < p /\ j = p)
    <3>1. /\ i < p => i \in 1 .. Len(q) /\ x = q[i]
          /\ i > p => i - 1 \in 1 .. Len(q) /\ x = q[i - 1]
          /\ j < p => j \in 1 .. Len(q) /\ y = q[j]
          /\ j > p => j - 1 \in 1 .. Len(q) /\ y = q[j - 1]
          /\ j # p
      BY <1>1, <1>3, <2>1, <2>4
    <3>2. CASE j < p
      BY <1>1, <2>1, <3>1, <3>2 DEF Before
    <3>3. CASE i < p /\ j > p
      BY <1>1, <2>1, <3>1, <3>3 DEF Before
    <3>4. CASE i > p
      <4>1. /\ i - 1 \in 1 .. Len(q) /\ x = q[i - 1] /\ j - 1 \in 1 .. Len(q) /\ y = q[j - 1]
            /\ i - 1 < j - 1
        BY <1>1, <2>1, <3>1, <3>4
      <4> QED  BY <4>1 DEF Before
    <3> QED  BY <1>1, <2>4, <3>1, <3>2, <3>3, <3>4
  <2> QED  BY <1>1, <2>2, <2>3, <2>4
<1>9. t # <<>>
  BY <1>3
<1> QED  BY <1>2, <1>3, <1>4, <1>5, <1>6, <1>7, <1>8, <1>9, Zenon DEF Inserted

-----------------------------------------------------------------------------
(* The walk of PIC_RemoveEvents and PIC_RemoveSpecificEvents.              *)

Lists == [queue : Seq(Entries), free : Seq(Entries)]

\* x, and x before y, among the first i of q.
InUpTo(x, q, i) == \E k \in 1 .. i : q[k] = x
BeforeUpTo(q, i, x, y) == \E k, l \in 1 .. i : k < l /\ q[k] = x /\ q[l] = y

\* The lists when i entries of the queue q were visited.
WalkedTo(w, q, f, gone, i) ==
    /\ w \in Lists /\ Distinct(w.free)
    /\ \A x : In(x, w.queue) <=> InUpTo(x, q, i) /\ x \notin gone
    /\ \A x : In(x, w.free) <=> In(x, f) \/ (InUpTo(x, q, i) /\ x \in gone)
    /\ \A x, y : Before(w.queue, x, y) => BeforeUpTo(q, i, x, y)

\* Visiting one more entry.
LEMMA VisitedProps ==
    ASSUME NEW q \in Seq(Entries), NEW f \in Seq(Entries), NEW gone,
           Distinct(q), \A x : ~(In(x, q) /\ In(x, f)),
           NEW i \in 1 .. Len(q), NEW w, WalkedTo(w, q, f, gone, i - 1)
    PROVE  WalkedTo(Visited(w, q[i], gone), q, f, gone, i)
<1> DEFINE e == q[i]
           u == Visited(w, e, gone)
<1>1. e \in Entries /\ In(e, q) /\ i \in Nat /\ Len(q) \in Nat
  BY DEF In
<1>2. ~InUpTo(e, q, i - 1)
  BY DEF InUpTo, Distinct
<1>3. \A x : InUpTo(x, q, i) <=> x = e \/ InUpTo(x, q, i - 1)
  BY <1>1 DEF InUpTo
<1>4. \A x, y : BeforeUpTo(q, i - 1, x, y) => BeforeUpTo(q, i, x, y)
  BY <1>1 DEF BeforeUpTo
<1>5. \A x : InUpTo(x, q, i - 1) => BeforeUpTo(q, i, x, e)
  BY <1>1 DEF BeforeUpTo, InUpTo
<1>6. /\ w \in Lists /\ w.queue \in Seq(Entries) /\ w.free \in Seq(Entries)
      /\ Distinct(w.free) /\ ~In(e, w.free)
      /\ \A x : In(x, w.queue) <=> InUpTo(x, q, i - 1) /\ x \notin gone
      /\ \A x : In(x, w.free) <=> In(x, f) \/ (InUpTo(x, q, i - 1) /\ x \in gone)
      /\ \A x, y : Before(w.queue, x, y) => BeforeUpTo(q, i - 1, x, y)
  BY <1>1, <1>2 DEF WalkedTo, Lists
<1>7. ASSUME e \in gone PROVE WalkedTo(u, q, f, gone, i)
  <2> DEFINE t == <<e>> \o w.free
  <2>1. /\ t \in Seq(Entries) /\ Distinct(t)
        /\ \A x : In(x, t) <=> x = e \/ In(x, w.free)
    BY <1>1, <1>6, ConsProps
  <2>2. u = [w EXCEPT !.free = t]
    BY <1>7 DEF Visited
  <2> HIDE DEF t
  <2>3. u \in Lists /\ u.queue = w.queue /\ u.free = t
    BY <1>6, <2>1, <2>2 DEF Lists
  <2> HIDE DEF u, e
  <2> QED  BY <1>3, <1>4, <1>6, <1>7, <2>1, <2>3, Zenon DEF WalkedTo
<1>8. ASSUME e \notin gone PROVE WalkedTo(u, q, f, gone, i)
  <2> DEFINE t == Append(w.queue, e)
  <2>1. /\ t \in Seq(Entries)
        /\ \A x : In(x, t) <=> x = e \/ In(x, w.queue)
        /\ \A x, y : Before(t, x, y) => Before(w.queue, x, y) \/ (In(x, w.queue) /\ y = e)
    BY <1>1, <1>6, AppendProps
  <2>2. u = [w EXCEPT !.queue = t]
    BY <1>8 DEF Visited
  <2> HIDE DEF t
  <2>3. u \in Lists /\ u.queue = t /\ u.free = w.free
    BY <1>6, <2>1, <2>2 DEF Lists
  <2> HIDE DEF u, e
  <2>4. \A x : In(x, u.queue) <=> InUpTo(x, q, i) /\ x \notin gone
    BY <1>3, <1>6, <1>8, <2>1, <2>3, Zenon
  <2>5. \A x : In(x, u.free) <=> In(x, f) \/ (InUpTo(x, q, i) /\ x \in gone)
    BY <1>3, <1>6, <1>8, <2>3, Zenon
  <2>6. \A x, y : Before(u.queue, x, y) => BeforeUpTo(q, i, x, y)
    <3> SUFFICES ASSUME NEW x, NEW y, Before(t, x, y) PROVE BeforeUpTo(q, i, x, y)
      BY <2>3, Zenon
    <3>1. CASE Before(w.queue, x, y)
      BY <1>4, <1>6, <3>1, Zenon
    <3>2. CASE In(x, w.queue) /\ y = e
      BY <1>5, <1>6, <3>2, Zenon
    <3> QED  BY <2>1, <3>1, <3>2
  <2> QED  BY <1>6, <2>3, <2>4, <2>5, <2>6, Zenon DEF WalkedTo
<1> QED  BY <1>7, <1>8, Zenon

\* The walk takes exactly the entries to go out of the queue, keeps the others
\* in their order, and puts those it took in front of the free ones.
LEMMA WalkedProps ==
    ASSUME NEW q \in Seq(Entries), NEW f \in Seq(Entries), NEW gone,
           Distinct(q), Distinct(f), \A x : ~(In(x, q) /\ In(x, f))
    PROVE  LET w == Walked(q, f, gone) IN
           /\ w \in Lists /\ Distinct(w.queue) /\ Distinct(w.free)
           /\ \A x : In(x, w.queue) <=> In(x, q) /\ x \notin gone
           /\ \A x : In(x, w.free) <=> In(x, f) \/ (In(x, q) /\ x \in gone)
           /\ \A x, y : Before(w.queue, x, y) => Before(q, x, y)
<1> DEFINE n == Len(q)
           start == [queue |-> <<>>, free |-> f]
           Turn(w, k) == Visited(w, q[k], gone)
           A == CHOOSE g : g = [k \in 0 .. n |-> IF k = 0 THEN start ELSE Turn(g[k - 1], k)]
           G == [k \in 1 .. n |-> [w \in Lists |-> Turn(w, k)]]
<1>1. Walked(q, f, gone) = A[n]
  BY DEF Walked
<1>2. n \in Nat /\ start \in Lists
  BY DEF Lists
<1>3. ASSUME NEW k \in 1 .. n, NEW w \in Lists PROVE Turn(w, k) \in Lists
  <2>1. q[k] \in Entries /\ w.queue \in Seq(Entries) /\ w.free \in Seq(Entries)
    BY DEF Lists
  <2>2. <<q[k]>> \o w.free \in Seq(Entries) /\ Append(w.queue, q[k]) \in Seq(Entries)
    BY <2>1
  <2> QED  BY <2>1, <2>2 DEF Visited, Lists
<1>4. G \in [1 .. n -> [Lists -> Lists]]
  BY <1>3
<1>5. PICK g : Iterates(g, n, Lists, start, G)
  <2> HIDE DEF G, n, start
  <2> QED  BY <1>2, <1>4, IterationExists
<1>6. g = [k \in 0 .. n |-> IF k = 0 THEN start ELSE Turn(g[k - 1], k)]
  <2> HIDE DEF Turn, n, start
  <2>1. \A k \in 1 .. n : g[k - 1] \in Lists
    BY <1>2, <1>5 DEF Iterates
  <2>2. \A k \in 1 .. n : g[k] = Turn(g[k - 1], k)
    BY <1>5, <2>1 DEF Iterates
  <2>3. \A k \in 0 .. n : k # 0 => k \in 1 .. n
    BY <1>2
  <2>4. \A k \in 0 .. n : g[k] = IF k = 0 THEN start ELSE Turn(g[k - 1], k)
    BY <1>5, <2>2, <2>3 DEF Iterates
  <2>5. g = [k \in 0 .. n |-> g[k]]
    BY <1>5 DEF Iterates
  <2> QED  BY <2>4, <2>5
<1>7. A = [k \in 0 .. n |-> IF k = 0 THEN start ELSE Turn(A[k - 1], k)]
  <2> HIDE DEF Turn, n, start
  <2> QED  BY <1>6, Zenon
<1> DEFINE P == {k \in 0 .. n : WalkedTo(A[k], q, f, gone, k)}
<1>8. 0 \in P
  <2>1. A[0] = start
    <3> HIDE DEF A, Turn, start, n
    <3> QED  BY <1>2, <1>7
  <2>2. \A x, y : ~InUpTo(x, q, 0) /\ ~In(x, <<>>) /\ ~Before(<<>>, x, y)
    BY DEF InUpTo, In, Before
  <2>3. start.queue = <<>> /\ start.free = f
    OBVIOUS
  <2> HIDE DEF start
  <2>4. WalkedTo(start, q, f, gone, 0)
    BY <1>2, <2>2, <2>3, Zenon DEF WalkedTo
  <2> HIDE DEF A
  <2> QED  BY <1>2, <2>1, <2>4
<1>9. ASSUME NEW k \in 1 .. n, k - 1 \in P PROVE k \in P
  <2>1. A[k] = Turn(A[k - 1], k)
    <3>1. k \in 0 .. n /\ k # 0
      BY <1>2
    <3> HIDE DEF A, Turn
    <3> QED  BY <1>7, <3>1
  <2>2. WalkedTo(A[k - 1], q, f, gone, k - 1)
    BY <1>9
  <2> HIDE DEF A
  <2>3. WalkedTo(A[k], q, f, gone, k)
    BY <2>1, <2>2, VisitedProps
  <2> QED  BY <2>3
<1>10. P = 0 .. n
  <2>1. P \in SUBSET (0 .. n)
    OBVIOUS
  <2> HIDE DEF P, n
  <2> QED  BY <1>2, <1>8, <1>9, <2>1, IntervalInduction
<1>11. WalkedTo(A[n], q, f, gone, n)
  <2>1. n \in P
    <3> HIDE DEF P, n
    <3> QED  BY <1>2, <1>10
  <2> QED  BY <2>1
<1> DEFINE w == Walked(q, f, gone)
<1>12. WalkedTo(w, q, f, gone, n)
  <2> HIDE DEF A
  <2> QED  BY <1>1, <1>11
<1> HIDE DEF w, A
<1>13. \A x, y : (InUpTo(x, q, n) <=> In(x, q)) /\ (BeforeUpTo(q, n, x, y) <=> Before(q, x, y))
  BY DEF InUpTo, In, BeforeUpTo, Before
<1>14. Distinct(w.queue)
  <2>1. \A x : ~Before(w.queue, x, x)
    BY <1>12 DEF WalkedTo, BeforeUpTo, Distinct
  <2>2. w.queue \in Seq(Entries)
    BY <1>12 DEF WalkedTo, Lists
  <2>3. ASSUME NEW i \in 1 .. Len(w.queue), NEW j \in 1 .. Len(w.queue), w.queue[i] = w.queue[j],
               i < j
        PROVE  FALSE
    <3>1. Before(w.queue, w.queue[i], w.queue[i])
      BY <2>3, Zenon DEF Before
    <3> QED  BY <2>1, <3>1
  <2> QED  BY <2>2, <2>3 DEF Distinct
<1> HIDE DEF n
<1> QED  BY <1>12, <1>13, <1>14, Zenon DEF WalkedTo, w

-----------------------------------------------------------------------------
(* Arithmetic.                                                             *)

LEMMA Multiples ==
    ASSUME NEW a \in Int, NEW b \in Int, NEW n \in Nat \ {0}
    PROVE  /\ a * n \in Int /\ b * n \in Int /\ (a + b) * n = a * n + b * n
           /\ a <= b => a * n <= b * n
           /\ a < b => a * n + n <= b * n
           /\ 0 <= a => 0 <= a * n
<1> DEFINE c == b - a
<1>1. c \in Int /\ b = a + c /\ b * n = a * n + c * n
  OBVIOUS
<1>2. c >= 0 => c * n >= 0
  OBVIOUS
<1>3. c >= 1 => c * n >= n
  <2>1. (c - 1) * n = c * n - n /\ (c >= 1 => (c - 1) * n >= 0)
    OBVIOUS
  <2> QED  BY <2>1
<1> QED  BY <1>1, <1>2, <1>3

LEMMA Quotient ==
    ASSUME NEW a \in Int, NEW n \in Nat \ {0}
    PROVE  a \div n \in Int /\ (a \div n) * n <= a
OBVIOUS

\* The length of a tick and the start of the current one, in parts of a cycle.
Tick == CycleMax * Sub
Start == ticks * Tick

LEMMA NowIs ==
    ASSUME left \in Int, cycles \in Int, ticks \in Nat
    PROVE  /\ Tick \in Nat /\ Start \in Nat /\ TickIndexND \in Int /\ TickIndexND * Sub \in Int
           /\ Now = Start + TickIndexND * Sub
           /\ (ticks + 1) * Tick = Start + Tick
<1>1. CycleMax \in Nat /\ Sub \in Nat
  BY PicAssumption
<1>2. Tick \in Nat
  BY <1>1 DEF Tick
<1>3. Start \in Nat /\ (ticks + 1) * Tick = Start + Tick
  BY <1>2 DEF Start
<1>4. TickIndexND \in Int /\ TickIndexND * Sub \in Int
  BY <1>1 DEF TickIndexND
<1>5. (ticks * CycleMax + TickIndexND) * Sub = (ticks * CycleMax) * Sub + TickIndexND * Sub
  BY <1>1, <1>4
<1>6. (ticks * CycleMax) * Sub = Start
  BY <1>1 DEF Start, Tick
<1> QED  BY <1>2, <1>3, <1>4, <1>5, <1>6 DEF Now

-----------------------------------------------------------------------------
(* The inductive invariant.                                                *)

Fields == [index : Int, handler : Handlers, val : Vals, due : Nat, order : Nat]

Typed ==
    /\ entry \in [Entries -> Fields]
    /\ serving \in Entries \cup {NoEntry} /\ (serving # NoEntry <=> mode = "handler")
    /\ ticks \in 0 .. MaxTicks
    /\ mode \in {"loop", "service", "handler", "cpu", "tick"}
    /\ adds \in 0 .. MaxAdds
    /\ armed \in [Handlers \X Vals -> Nat]
    /\ lastDue \in Nat

\* Queued, free and served entries are the pool, and no entry is two of these.
Partition ==
    /\ queue \in Seq(Entries) /\ free \in Seq(Entries)
    /\ Distinct(queue) /\ Distinct(free)
    /\ \A x : ~(In(x, queue) /\ In(x, free))
    /\ ~In(serving, queue) /\ ~In(serving, free)
    /\ \A x \in Entries : In(x, queue) \/ In(x, free) \/ x = serving

\* What is left of the tick, of which no more than the overshoot of the last
\* instruction is ever used beyond its end.
ClockGood ==
    /\ left \in Int /\ cycles \in Int
    /\ cycles >= -Overshoot /\ left <= CycleMax
    /\ left >= 0 \/ cycles = 0
    /\ left + cycles >= -Overshoot /\ left + cycles <= CycleMax
    /\ InEventService => cycles = 0 /\ left > 0
    /\ mode = "tick" => left <= 0 /\ cycles = 0 /\ ticks < MaxTicks

\* The index of an event is its due time seen from the start of the tick, and
\* nothing in the queue was due before the event that fired last.
TimesGood ==
    /\ \A x \in Entries : In(x, queue) =>
          /\ entry[x].due = Start + entry[x].index
          /\ entry[x].due >= lastDue /\ entry[x].order < adds
    /\ mode = "handler" => /\ entry[serving].due = Start + entry[serving].index
                           /\ entry[serving].due = lastDue
    /\ lastDue <= Start + TickIndexND * Sub /\ lastDue <= Start + Tick

Earlier(f, x, y) ==
    f[x].index < f[y].index \/ (f[x].index = f[y].index /\ f[x].order < f[y].order)

Ordered == \A x, y : Before(queue, x, y) => Earlier(entry, x, y)

\* The entries queued for the handler and value k.
Pending(q, f, k) == {x \in Entries : In(x, q) /\ <<f[x].handler, f[x].val>> = k}

Counted == \A k \in Handlers \X Vals : armed[k] = Cardinality(Pending(queue, entry, k))

QueueInv == Typed /\ Partition /\ ClockGood /\ TimesGood /\ Ordered /\ Counted /\ SliceEndsAtEvent

\* What is before something is in the list, and the fields of an entry in the
\* list have their types.
LEMMA BeforeIn ==
    ASSUME NEW s \in Seq(Entries), NEW x, NEW y
    PROVE  /\ Before(s, x, y) => In(x, s) /\ In(y, s)
           /\ In(x, s) => x \in Entries
           /\ Before(s, x, y) => s # <<>>
BY DEF Before, In

LEMMA PendingFinite ==
    ASSUME NEW q, NEW f, NEW k
    PROVE  IsFiniteSet(Pending(q, f, k)) /\ Cardinality(Pending(q, f, k)) \in Nat
<1>1. Pending(q, f, k) \in SUBSET Entries
  BY DEF Pending
<1>2. IsFiniteSet(Pending(q, f, k))
  BY <1>1, PicAssumption, FS_Subset
<1> QED  BY <1>2, FS_CardinalityType

\* The pool as a list.
LEMMA PoolIsListed ==
    /\ SetToSeq(Entries) \in Seq(Entries) /\ Distinct(SetToSeq(Entries))
    /\ \A x \in Entries : In(x, SetToSeq(Entries))
<1> DEFINE n == Cardinality(Entries)
           s == SetToSeq(Entries)
<1>1. IsFiniteSet(Entries) /\ n \in Nat /\ ExistsBijection(1 .. n, Entries)
  BY PicAssumption, FS_CardinalityType
<1>2. \E f \in [1 .. n -> Entries] : IsInjective(f)
  BY <1>1 DEF ExistsBijection, Bijection, Injection
<1>3. s \in [1 .. n -> Entries] /\ IsInjective(s)
  BY <1>2 DEF SetToSeq
<1>4. IsFiniteSet(1 .. n) /\ Cardinality(1 .. n) = n
  BY <1>1, FS_Interval
<1> HIDE DEF s
<1>5. s \in Injection(1 .. n, Entries)
  BY <1>3 DEF Injection
<1>6. s \in Surjection(1 .. n, Entries)
  BY <1>1, <1>4, <1>5, FS_Injection
<1> HIDE DEF n
<1>7. s \in Seq(Entries) /\ Len(s) = n
  BY <1>1, <1>3
<1>8. Distinct(s)
  BY <1>3, <1>7 DEF Distinct, IsInjective
<1>9. \A x \in Entries : In(x, s)
  BY <1>6, <1>7 DEF Surjection, In
<1> QED  BY <1>7, <1>8, <1>9 DEF s

LEMMA InitInv == Init => QueueInv
<1> SUFFICES ASSUME Init PROVE QueueInv
  OBVIOUS
<1>1. /\ queue = <<>> /\ free = SetToSeq(Entries) /\ entry = [e \in Entries |-> Blank]
      /\ serving = NoEntry /\ left = CycleMax /\ cycles = 0 /\ ticks = 0 /\ mode = "loop"
      /\ adds = 0 /\ armed = [k \in Handlers \X Vals |-> 0] /\ lastDue = 0
  BY DEF Init
<1>2. \A x, y : ~In(x, queue) /\ ~Before(queue, x, y)
  BY <1>1 DEF In, Before
<1>3. Blank \in Fields
  BY PicAssumption DEF Blank, Fields
<1>4. Typed
  <2>1. entry \in [Entries -> Fields]
    BY <1>1, <1>3
  <2>2. armed \in [Handlers \X Vals -> Nat]
    BY <1>1
  <2> QED  BY <1>1, <2>1, <2>2, PicAssumption DEF Typed
<1>5. Partition
  <2>1. queue \in Seq(Entries) /\ Distinct(queue)
    BY <1>1 DEF Distinct
  <2>2. ~In(NoEntry, free)
    BY <1>1, PoolIsListed, PicAssumption DEF In
  <2> QED  BY <1>1, <1>2, <2>1, <2>2, PoolIsListed, Zenon DEF Partition
<1>6. ClockGood
  BY <1>1, PicAssumption DEF ClockGood, InEventService
<1>7. TimesGood
  <2>1. /\ Tick \in Nat /\ Start \in Nat
    BY <1>1, <1>6, NowIs DEF ClockGood
  <2>2. TickIndexND = 0 /\ TickIndexND * Sub = 0
    BY <1>1, PicAssumption DEF TickIndexND
  <2> QED  BY <1>1, <1>2, <2>1, <2>2 DEF TimesGood
<1>8. Ordered
  BY <1>2, Zenon DEF Ordered
<1>9. Counted
  <2>1. \A k : Pending(queue, entry, k) = {}
    BY <1>2, Zenon DEF Pending
  <2>2. \A k \in Handlers \X Vals : armed[k] = 0
    BY <1>1
  <2> QED  BY <2>1, <2>2, FS_EmptySet DEF Counted
<1>10. SliceEndsAtEvent
  BY <1>1 DEF SliceEndsAtEvent
<1> QED  BY <1>4, <1>5, <1>6, <1>7, <1>8, <1>9, <1>10 DEF QueueInv

-----------------------------------------------------------------------------
(* Steps that leave the lists alone and let time pass.                     *)

\* The facts about numbers that the steps need.
LEMMA Numbers ==
    ASSUME Typed, ClockGood
    PROVE  /\ ticks \in Nat /\ CycleMax \in Nat \ {0} /\ Sub \in Nat \ {0} /\ Overshoot \in Nat
           /\ left \in Int /\ cycles \in Int /\ Tick \in Nat /\ Start \in Nat
           /\ TickIndexND \in Int /\ TickIndexND >= 0
           /\ TickIndexND * Sub \in Int /\ TickIndexND * Sub >= 0
           /\ Now = Start + TickIndexND * Sub
           /\ (ticks + 1) * Tick = Start + Tick
<1>1. ticks \in Nat /\ CycleMax \in Nat \ {0} /\ Sub \in Nat \ {0} /\ Overshoot \in Nat
  BY PicAssumption DEF Typed
<1>2. left \in Int /\ cycles \in Int
  BY DEF ClockGood
<1>3. TickIndexND \in Int /\ TickIndexND >= 0
  BY <1>1, <1>2 DEF TickIndexND, ClockGood
<1>4. TickIndexND * Sub >= 0
  BY <1>1, <1>3, Multiples
<1> QED  BY <1>1, <1>2, <1>3, <1>4, NowIs

Data == <<queue, free, entry, serving, ticks, adds, armed, lastDue>>

\* Time passes: the data stay and the cycles that are left do not grow.
LEMMA TimePasses ==
    ASSUME QueueInv, UNCHANGED Data, ClockGood', SliceEndsAtEvent',
           left' + cycles' <= left + cycles, mode # "handler", mode' # "handler",
           mode' \in {"loop", "service", "cpu", "tick"}
    PROVE  QueueInv'
<1>1. /\ queue' = queue /\ free' = free /\ entry' = entry /\ serving' = serving
      /\ ticks' = ticks /\ adds' = adds /\ armed' = armed /\ lastDue' = lastDue
  BY DEF Data
<1>2. Typed'
  BY <1>1 DEF QueueInv, Typed
<1>3. Partition'
  BY <1>1 DEF QueueInv, Partition
<1>4. Ordered' /\ Counted'
  BY <1>1 DEF QueueInv, Ordered, Counted
<1>5. TimesGood'
  <2>1. Start' = Start /\ Tick' = Tick
    BY <1>1 DEF Start, Tick
  <2>2. /\ TickIndexND \in Int /\ TickIndexND' \in Int /\ TickIndexND <= TickIndexND'
        /\ Start \in Nat /\ Sub \in Nat \ {0} /\ lastDue \in Nat
    <3>1. Typed /\ ClockGood /\ CycleMax \in Int
      BY PicAssumption DEF QueueInv
    <3>2. left \in Int /\ cycles \in Int /\ left' \in Int /\ cycles' \in Int
      BY <3>1 DEF ClockGood
    <3>3. TickIndexND = CycleMax - left - cycles /\ TickIndexND' = CycleMax - left' - cycles'
      BY DEF TickIndexND
    <3>4. TickIndexND \in Int /\ TickIndexND' \in Int
      BY <3>1, <3>2, <3>3
    <3>5. TickIndexND <= TickIndexND'
      <4>1. \A a, b, c, d, e \in Int : a + b <= c + d => e - c - d <= e - a - b
        OBVIOUS
      <4>2. CycleMax - left - cycles <= CycleMax - left' - cycles'
        BY <3>1, <3>2, <4>1
      <4> QED  BY <3>3, <4>2
    <3> QED  BY <3>1, <3>4, <3>5, Numbers DEF Typed
  <2>3. /\ TickIndexND * Sub \in Int /\ TickIndexND' * Sub \in Int
        /\ TickIndexND * Sub <= TickIndexND' * Sub
    BY <2>2, Multiples
  <2>4. lastDue <= Start + TickIndexND * Sub
    BY DEF QueueInv, TimesGood
  <2>5. lastDue <= Start + TickIndexND' * Sub
    <3> DEFINE a == TickIndexND * Sub
               b == TickIndexND' * Sub
    <3>1. a \in Int /\ b \in Int /\ a <= b /\ lastDue <= Start + a
      BY <2>3, <2>4
    <3> HIDE DEF a, b
    <3>2. lastDue <= Start + b
      BY <2>2, <3>1
    <3> QED  BY <3>2 DEF b
  <2>6. lastDue' <= Start' + TickIndexND' * Sub
    BY <1>1, <2>1, <2>5
  <2> QED  BY <1>1, <2>1, <2>6 DEF QueueInv, TimesGood
<1> QED  BY <1>2, <1>3, <1>4, <1>5 DEF QueueInv

LEMMA RunQueueInv ==
    ASSUME QueueInv, RunQueue PROVE QueueInv'
<1>1. /\ mode = "loop" /\ left' = left + cycles /\ cycles' = 0 /\ ticks' = ticks
      /\ left' <= 0 => ticks < MaxTicks
      /\ mode' = IF left' <= 0 THEN "tick" ELSE "service"
  BY DEF RunQueue
<1>2. ClockGood
  BY DEF QueueInv
<1>3. ClockGood'
  BY <1>1, <1>2, PicAssumption DEF ClockGood, InEventService
<1>4. SliceEndsAtEvent'
  BY <1>1 DEF SliceEndsAtEvent
<1>5. UNCHANGED Data
  BY DEF RunQueue, Data
<1> QED  BY <1>1, <1>2, <1>3, <1>4, <1>5, TimePasses DEF ClockGood

LEMMA CpuExecutesInv ==
    ASSUME QueueInv, CpuExecutes PROVE QueueInv'
<1>1. /\ mode = "cpu" /\ mode' = "cpu" /\ left' = left /\ cycles > 0 /\ queue' = queue
      /\ entry' = entry /\ ticks' = ticks
  BY DEF CpuExecutes
<1>2. PICK n \in 1 .. 1 + Overshoot : cycles' = cycles - n
  BY DEF CpuExecutes
<1>3. ClockGood /\ Overshoot \in Nat /\ CycleMax \in Nat
  BY PicAssumption DEF QueueInv
<1>4. ClockGood'
  BY <1>1, <1>2, <1>3 DEF ClockGood, InEventService
<1>5. SliceEndsAtEvent'
  <2>1. TickIndexND' + cycles' = TickIndexND + cycles
    BY <1>1, <1>2, <1>3 DEF TickIndexND, ClockGood
  <2> QED  BY <1>1, <2>1 DEF SliceEndsAtEvent, QueueInv
<1>6. UNCHANGED Data
  BY DEF CpuExecutes, Data
<1> QED  BY <1>1, <1>2, <1>3, <1>4, <1>5, <1>6, TimePasses DEF ClockGood

LEMMA CpuReturnsInv ==
    ASSUME QueueInv, CpuReturns PROVE QueueInv'
<1>1. /\ mode = "cpu" /\ mode' = "loop" /\ left' = left /\ cycles' = cycles
      /\ ticks' = ticks
  BY DEF CpuReturns, clock
<1>2. ClockGood
  BY DEF QueueInv
<1>3. ClockGood'
  BY <1>1, <1>2 DEF ClockGood, InEventService
<1>4. SliceEndsAtEvent'
  BY <1>1 DEF SliceEndsAtEvent
<1>5. UNCHANGED Data
  BY DEF CpuReturns, Data, clock
<1> QED  BY <1>1, <1>2, <1>3, <1>4, <1>5, TimePasses DEF ClockGood

\* The slice is one cycle at least, and ends before the first event is a cycle
\* overdue.
LEMMA SliceBounds ==
    ASSUME QueueInv, mode = "service", ~Due
    PROVE  /\ Slice \in 1 .. left
           /\ queue # <<>> => (TickIndexND + Slice) * Sub < entry[Head(queue)].index + Sub
<1>1. left \in Int /\ left >= 1 /\ TickIndexND \in Int /\ Sub \in Nat \ {0}
  BY Numbers DEF QueueInv, ClockGood, InEventService
<1>2. CASE queue = <<>>
  BY <1>1, <1>2 DEF Slice
<1>3. CASE queue # <<>>
  <2> DEFINE i == entry[Head(queue)].index
             T == TickIndexND
             d == i \div Sub - T
             m == Max({1, d})
  <2>1. i \in Int
    <3>1. Head(queue) \in Entries
      BY <1>3, HeadProps DEF QueueInv, Partition
    <3> QED  BY <3>1 DEF QueueInv, Typed, Fields
  <2>2. i > T * Sub /\ T * Sub \in Int
    BY <1>1, <1>3, <2>1 DEF Due
  <2>3. Slice = Min({left, m})
    BY <1>3 DEF Slice
  <2> HIDE DEF i, T
  <2>4. i \div Sub \in Int /\ (i \div Sub) * Sub <= i
    BY <1>1, <2>1, Quotient
  <2>5. T \in Int /\ d \in Int
    BY <1>1, <2>4 DEF T
  <2> HIDE DEF d
  <2>6. m = IF d > 1 THEN d ELSE 1
    BY <2>5 DEF Max
  <2> HIDE DEF m
  <2>7. Slice = IF left <= m THEN left ELSE m
    BY <1>1, <2>3, <2>5, <2>6 DEF Min
  <2>8. Slice \in 1 .. left /\ Slice <= m
    BY <1>1, <2>5, <2>6, <2>7
  <2>9. (T + Slice) * Sub <= (T + m) * Sub /\ (T + m) * Sub \in Int /\ (T + Slice) * Sub \in Int
    <3>1. T + Slice \in Int /\ T + m \in Int /\ T + Slice <= T + m
      BY <1>1, <2>5, <2>6, <2>8
    <3> QED  BY <1>1, <3>1, Multiples
  <2>10. (T + m) * Sub < i + Sub
    <3>1. CASE d > 1
      <4>1. T + m = i \div Sub
        BY <2>4, <2>5, <2>6, <3>1 DEF d
      <4> QED  BY <1>1, <2>1, <2>4, <4>1
    <3>2. CASE ~(d > 1)
      <4>1. (T + m) * Sub = T * Sub + Sub
        BY <1>1, <2>5, <2>6, <3>2
      <4> QED  BY <1>1, <2>1, <2>2, <4>1
    <3> QED  BY <3>1, <3>2
  <2>11. (T + Slice) * Sub < i + Sub
    BY <1>1, <2>1, <2>9, <2>10
  <2> QED  BY <2>8, <2>11 DEF T, i
<1> QED  BY <1>2, <1>3

LEMMA RunQueueReturnsInv ==
    ASSUME QueueInv, RunQueueReturns PROVE QueueInv'
<1>1. /\ mode = "service" /\ ~Due /\ mode' = "cpu" /\ cycles' = Slice /\ left' = left - Slice
      /\ queue' = queue /\ entry' = entry /\ ticks' = ticks
  BY DEF RunQueueReturns
<1>2. Slice \in 1 .. left /\ left \in Int
  BY <1>1, SliceBounds DEF QueueInv, ClockGood
<1>3. ClockGood /\ Overshoot \in Nat /\ CycleMax \in Nat /\ cycles = 0
  BY <1>1, PicAssumption DEF QueueInv, ClockGood, InEventService
<1>4. ClockGood'
  BY <1>1, <1>2, <1>3 DEF ClockGood, InEventService
<1>5. SliceEndsAtEvent'
  <2>1. TickIndexND' + cycles' = TickIndexND + Slice
    BY <1>1, <1>2, <1>3, PicAssumption DEF TickIndexND, ClockGood
  <2> QED  BY <1>1, <2>1, SliceBounds DEF SliceEndsAtEvent
<1>6. UNCHANGED Data
  BY DEF RunQueueReturns, Data
<1> QED  BY <1>1, <1>2, <1>3, <1>4, <1>5, <1>6, TimePasses DEF ClockGood

-----------------------------------------------------------------------------
(* Firing, and the end of a tick.                                          *)

\* The first event is due no later than any other.
LEMMA HeadEarliest ==
    ASSUME QueueInv, NEW x, In(x, queue)
    PROVE  /\ queue # <<>> /\ Head(queue) \in Entries /\ In(Head(queue), queue) /\ x \in Entries
           /\ entry[Head(queue)].index \in Int /\ entry[x].index \in Int
           /\ entry[Head(queue)].index <= entry[x].index
<1>1. queue \in Seq(Entries) /\ entry \in [Entries -> Fields]
  BY DEF QueueInv, Partition, Typed
<1>2. x \in Entries
  BY <1>1, BeforeIn
<1>3. queue # <<>>
  BY DEF In
<1>4. /\ Head(queue) \in Entries /\ In(Head(queue), queue)
      /\ x = Head(queue) \/ Before(queue, Head(queue), x)
  BY <1>1, <1>3, HeadProps
<1>5. entry[Head(queue)].index \in Int /\ entry[x].index \in Int
  BY <1>1, <1>2, <1>4 DEF Fields
<1>6. Before(queue, Head(queue), x) => Earlier(entry, Head(queue), x)
  BY DEF QueueInv, Ordered
<1> QED  BY <1>2, <1>3, <1>4, <1>5, <1>6 DEF Earlier

LEMMA FireInv ==
    ASSUME QueueInv, Fire PROVE QueueInv'
<1> DEFINE e == Head(queue)
           key == <<entry[e].handler, entry[e].val>>
<1>1. /\ mode = "service" /\ mode' = "handler" /\ queue # <<>>
      /\ entry[e].index <= TickIndexND * Sub
      /\ serving' = e /\ lastDue' = entry[e].due /\ armed' = [armed EXCEPT ![key] = @ - 1]
      /\ queue' = Tail(queue) /\ free' = free /\ entry' = entry /\ adds' = adds
      /\ left' = left /\ cycles' = cycles /\ ticks' = ticks
  BY DEF Fire, Due, clock
<1>2. Typed /\ Partition /\ ClockGood /\ TimesGood /\ Ordered /\ Counted
  BY DEF QueueInv
<1>3. serving = NoEntry
  BY <1>1, <1>2 DEF Typed
<1>4. e \in Entries /\ In(e, queue)
  BY <1>1, <1>2, HeadProps DEF Partition
<1>5. /\ queue' \in Seq(Entries) /\ Distinct(queue')
      /\ \A x : In(x, queue') <=> In(x, queue) /\ x # e
      /\ \A x, y : Before(queue', x, y) => Before(queue, x, y)
  BY <1>1, <1>2, TailProps DEF Partition
<1>6. key \in Handlers \X Vals
  BY <1>2, <1>4 DEF Typed, Fields
<1> HIDE DEF e
<1>7. Counted' /\ armed' \in [Handlers \X Vals -> Nat]
  <2>1. \A k : Pending(queue', entry', k) = Pending(queue, entry, k) \ {e}
    BY <1>1, <1>5 DEF Pending
  <2>2. \A k : e \in Pending(queue, entry, k) <=> k = key
    BY <1>4 DEF Pending
  <2>3. \A k \in Handlers \X Vals : armed[k] = Cardinality(Pending(queue, entry, k))
    BY <1>2 DEF Counted
  <2> HIDE DEF key
  <2>4. ASSUME NEW k \in Handlers \X Vals
        PROVE  armed'[k] = Cardinality(Pending(queue', entry', k)) /\ armed'[k] \in Nat
    <3>1. IsFiniteSet(Pending(queue, entry, k)) /\ Cardinality(Pending(queue, entry, k)) \in Nat
      BY PendingFinite
    <3>2. Cardinality(Pending(queue, entry, k) \ {e}) =
             IF k = key THEN Cardinality(Pending(queue, entry, k)) - 1
             ELSE Cardinality(Pending(queue, entry, k))
      BY <2>2, <3>1, FS_RemoveElement
    <3>3. armed'[k] = IF k = key THEN armed[k] - 1 ELSE armed[k]
      BY <1>1, <1>2 DEF Typed
    <3>4. armed'[k] = Cardinality(Pending(queue', entry', k))
      BY <2>1, <2>3, <3>2, <3>3
    <3>5. Cardinality(Pending(queue', entry', k)) \in Nat
      BY PendingFinite
    <3> QED  BY <3>4, <3>5
  <2>5. armed' \in [Handlers \X Vals -> Nat]
    <3>1. armed' = [k \in Handlers \X Vals |-> armed'[k]]
      BY <1>1, <1>2 DEF Typed
    <3> QED  BY <2>4, <3>1
  <2> QED  BY <2>4, <2>5 DEF Counted
<1>8. e # NoEntry
  BY <1>4, PicAssumption
<1>9. Typed'
  <2>1. lastDue' \in Nat
    BY <1>1, <1>2, <1>4 DEF Typed, Fields
  <2> QED  BY <1>1, <1>2, <1>4, <1>7, <1>8, <2>1 DEF Typed
<1>10. Partition'
  BY <1>1, <1>2, <1>3, <1>4, <1>5, <1>8, PicAssumption, Zenon DEF Partition
<1>11. ClockGood'
  BY <1>1, <1>2 DEF ClockGood, InEventService
<1>12. TimesGood'
  <2>1. Start' = Start /\ Tick' = Tick /\ TickIndexND' = TickIndexND
    BY <1>1 DEF Start, Tick, TickIndexND
  <2>2. entry[e].due = Start + entry[e].index
    BY <1>2, <1>4 DEF TimesGood
  <2>3. ASSUME NEW x \in Entries, In(x, queue')
        PROVE  /\ entry'[x].due = Start' + entry'[x].index
               /\ entry'[x].due >= lastDue' /\ entry'[x].order < adds'
    <3>1. In(x, queue)
      BY <1>5, <2>3
    <3>2. entry[x].due = Start + entry[x].index /\ entry[x].order < adds
      BY <1>2, <3>1 DEF TimesGood
    <3>3. /\ entry[e].index \in Int /\ entry[x].index \in Int
          /\ entry[e].index <= entry[x].index
      BY <3>1, HeadEarliest DEF e
    <3>4. Start \in Nat
      BY <1>2, Numbers
    <3>5. entry[x].due >= entry[e].due
      BY <2>2, <3>2, <3>3, <3>4
    <3> QED  BY <1>1, <2>1, <3>2, <3>5
  <2>4. lastDue' <= Start + TickIndexND * Sub /\ lastDue' <= Start + Tick
    <3> DEFINE a == TickIndexND * Sub
    <3>1. a \in Int /\ Start \in Nat /\ Tick \in Nat
      BY <1>2, Numbers
    <3>2. a <= Tick
      <4>1. TickIndexND <= CycleMax /\ TickIndexND \in Int /\ CycleMax \in Int /\ Sub \in Nat \ {0}
        BY <1>1, <1>2, Numbers DEF ClockGood, InEventService, TickIndexND
      <4> QED  BY <4>1, Multiples DEF Tick
    <3>3. entry[e].index \in Int /\ entry[e].index <= a
      BY <1>1, <1>2, <1>4 DEF Typed, Fields
    <3> HIDE DEF a
    <3>4. lastDue' <= Start + a /\ lastDue' <= Start + Tick
      BY <1>1, <2>2, <3>1, <3>2, <3>3
    <3> QED  BY <3>4 DEF a
  <2>5. entry'[serving'].due = Start' + entry'[serving'].index /\ entry'[serving'].due = lastDue'
    BY <1>1, <2>1, <2>2
  <2> QED  BY <1>1, <2>1, <2>3, <2>4, <2>5 DEF TimesGood
<1>13. Ordered'
  BY <1>1, <1>2, <1>5 DEF Ordered
<1>14. SliceEndsAtEvent'
  BY <1>1 DEF SliceEndsAtEvent
<1> QED  BY <1>7, <1>9, <1>10, <1>11, <1>12, <1>13, <1>14 DEF QueueInv

LEMMA HandlerReturnsInv ==
    ASSUME QueueInv, HandlerReturns PROVE QueueInv'
<1>1. /\ mode = "handler" /\ mode' = "service" /\ free' = <<serving>> \o free
      /\ serving' = NoEntry /\ entry' = Blanked({serving}) /\ queue' = queue /\ adds' = adds
      /\ armed' = armed /\ lastDue' = lastDue /\ left' = left /\ cycles' = cycles
      /\ ticks' = ticks
  BY DEF HandlerReturns, clock, PutBack
<1>2. Typed /\ Partition /\ ClockGood /\ TimesGood /\ Ordered /\ Counted
  BY DEF QueueInv
<1>3. serving \in Entries /\ ~In(serving, queue) /\ ~In(serving, free)
  BY <1>1, <1>2 DEF Typed, Partition
<1>4. \A x \in Entries : x # serving => entry'[x] = entry[x]
  BY <1>1 DEF Blanked
<1>5. \A x \in Entries : In(x, queue) => entry'[x] = entry[x]
  BY <1>3, <1>4
<1>6. Typed'
  <2>1. Blank \in Fields
    BY PicAssumption DEF Blank, Fields
  <2>2. entry' \in [Entries -> Fields]
    BY <1>1, <1>2, <2>1 DEF Blanked, Typed
  <2> QED  BY <1>1, <1>2, <2>2 DEF Typed
<1>7. Partition'
  <2>1. /\ free' \in Seq(Entries) /\ Distinct(free')
        /\ \A x : In(x, free') <=> x = serving \/ In(x, free)
    BY <1>1, <1>2, <1>3, ConsProps DEF Partition
  <2>2. \A x : In(x, queue) \/ In(x, free) => x \in Entries
    BY <1>2 DEF Partition, In
  <2>3. ~In(NoEntry, queue) /\ ~In(NoEntry, free')
    BY <1>3, <2>1, <2>2, PicAssumption
  <2> QED  BY <1>1, <1>2, <1>3, <2>1, <2>3, Zenon DEF Partition
<1>8. ClockGood'
  BY <1>1, <1>2 DEF ClockGood, InEventService
<1>9. TimesGood'
  <2>1. Start' = Start /\ Tick' = Tick /\ TickIndexND' = TickIndexND
    BY <1>1 DEF Start, Tick, TickIndexND
  <2> QED  BY <1>1, <1>2, <1>5, <2>1 DEF TimesGood
<1>10. Ordered'
  <2>1. ASSUME NEW x, NEW y, Before(queue, x, y) PROVE Earlier(entry', x, y)
    <3>1. x \in Entries /\ y \in Entries /\ In(x, queue) /\ In(y, queue)
      BY <1>2, <2>1, BeforeIn DEF Partition
    <3>2. Earlier(entry, x, y)
      BY <1>2, <2>1 DEF Ordered
    <3> QED  BY <1>5, <3>1, <3>2 DEF Earlier
  <2> QED  BY <1>1, <2>1 DEF Ordered
<1>11. Counted'
  <2>1. \A k : Pending(queue, entry', k) = Pending(queue, entry, k)
    BY <1>5 DEF Pending
  <2> QED  BY <1>1, <1>2, <2>1 DEF Counted
<1>12. SliceEndsAtEvent'
  BY <1>1 DEF SliceEndsAtEvent
<1> QED  BY <1>6, <1>7, <1>8, <1>9, <1>10, <1>11, <1>12 DEF QueueInv

LEMMA TickInv ==
    ASSUME QueueInv, TIMER_AddTick PROVE QueueInv'
<1>1. /\ mode = "tick" /\ mode' = "loop" /\ left' = CycleMax /\ cycles' = 0 /\ ticks' = ticks + 1
      /\ entry' = [e \in Entries |-> IF e \in Range(queue)
                                     THEN [entry[e] EXCEPT !.index = @ - CycleMax * Sub]
                                     ELSE entry[e]]
      /\ queue' = queue /\ free' = free /\ serving' = serving /\ adds' = adds
      /\ armed' = armed /\ lastDue' = lastDue
  BY DEF TIMER_AddTick
<1>2. Typed /\ Partition /\ ClockGood /\ TimesGood /\ Ordered /\ Counted
  BY DEF QueueInv
<1>3. /\ ticks \in Nat /\ Tick \in Nat /\ Start \in Nat /\ CycleMax \in Nat /\ Overshoot \in Nat
      /\ (ticks + 1) * Tick = Start + Tick
  BY <1>2, Numbers
<1>4. ASSUME NEW x \in Entries, In(x, queue)
      PROVE  entry'[x] = [entry[x] EXCEPT !.index = @ - Tick] /\ entry[x] \in Fields
  <2>1. x \in Range(queue)
    BY <1>2, <1>4 DEF In, Range, Partition
  <2> QED  BY <1>1, <1>2, <2>1 DEF Tick, Typed
<1>5. ASSUME NEW x \in Entries, In(x, queue)
      PROVE  /\ entry[x].index \in Int /\ entry'[x].index = entry[x].index - Tick
             /\ entry'[x].due = entry[x].due /\ entry'[x].order = entry[x].order
             /\ entry'[x].handler = entry[x].handler /\ entry'[x].val = entry[x].val
  BY <1>4, <1>5 DEF Fields
<1>6. Typed'
  <2>1. ASSUME NEW x \in Entries PROVE entry'[x] \in Fields
    <3>1. entry[x] \in Fields /\ CycleMax * Sub \in Int
      BY <1>2, <1>3 DEF Typed, Tick
    <3>2. entry[x].index - CycleMax * Sub \in Int
      BY <3>1 DEF Fields
    <3>3. [entry[x] EXCEPT !.index = @ - CycleMax * Sub] \in Fields
      BY <3>1, <3>2 DEF Fields
    <3> QED  BY <1>1, <3>1, <3>3
  <2>2. entry' \in [Entries -> Fields]
    BY <1>1, <2>1
  <2>3. ticks' \in 0 .. MaxTicks
    BY <1>1, <1>2, <1>3, PicAssumption DEF ClockGood
  <2> QED  BY <1>1, <1>2, <2>2, <2>3 DEF Typed
<1>7. Partition'
  BY <1>1, <1>2 DEF Partition
<1>8. ClockGood'
  BY <1>1, <1>2, <1>3 DEF ClockGood, InEventService
<1>9. TimesGood'
  <2>1. Start' = Start + Tick /\ Tick' = Tick
    BY <1>1, <1>3 DEF Start, Tick
  <2>2. TickIndexND' = 0 /\ TickIndexND' * Sub = 0
    BY <1>1, <1>3, PicAssumption DEF TickIndexND
  <2>3. ASSUME NEW x \in Entries, In(x, queue)
        PROVE  /\ entry'[x].due = Start' + entry'[x].index
               /\ entry'[x].due >= lastDue /\ entry'[x].order < adds
    <3>1. /\ entry[x].due = Start + entry[x].index
          /\ entry[x].due >= lastDue /\ entry[x].order < adds
      BY <1>2, <2>3 DEF TimesGood
    <3> QED  BY <1>3, <1>5, <2>1, <2>3, <3>1
  <2>4. lastDue <= Start' + TickIndexND' * Sub /\ lastDue <= Start' + Tick
    <3>1. lastDue \in Nat /\ lastDue <= Start + Tick
      BY <1>2 DEF TimesGood, Typed
    <3> QED  BY <1>3, <2>1, <2>2, <3>1
  <2> QED  BY <1>1, <2>1, <2>3, <2>4 DEF TimesGood
<1>10. Ordered'
  <2>1. ASSUME NEW x, NEW y, Before(queue, x, y) PROVE Earlier(entry', x, y)
    <3>1. x \in Entries /\ y \in Entries /\ In(x, queue) /\ In(y, queue)
      BY <1>2, <2>1, BeforeIn DEF Partition
    <3>2. Earlier(entry, x, y)
      BY <1>2, <2>1 DEF Ordered
    <3> QED  BY <1>3, <1>5, <3>1, <3>2 DEF Earlier
  <2> QED  BY <1>1, <2>1 DEF Ordered
<1>11. Counted'
  <2>1. \A k : Pending(queue, entry', k) = Pending(queue, entry, k)
    BY <1>5 DEF Pending
  <2> QED  BY <1>1, <1>2, <2>1 DEF Counted
<1>12. SliceEndsAtEvent'
  BY <1>1 DEF SliceEndsAtEvent
<1> QED  BY <1>6, <1>7, <1>8, <1>9, <1>10, <1>11, <1>12 DEF QueueInv

-----------------------------------------------------------------------------
(* Removing.                                                               *)

\* Unlinking entries that are all those queued under some of the keys, whose
\* counts are set to zero.
LEMMA UnlinkInv ==
    ASSUME QueueInv, DevicesAct, NEW gone, NEW keys, Unlink(gone),
           UNCHANGED <<serving, clock, mode, adds, lastDue>>,
           \A x \in Entries : In(x, queue) =>
              (x \in gone <=> <<entry[x].handler, entry[x].val>> \in keys),
           \A x \in gone : In(x, queue),
           armed' \in [Handlers \X Vals -> Nat],
           \A k \in Handlers \X Vals : armed'[k] = IF k \in keys THEN 0 ELSE armed[k]
    PROVE  QueueInv'
<1> DEFINE w == Walked(queue, free, gone)
<1>1. /\ queue' = w.queue /\ free' = w.free /\ entry' = Blanked(gone) /\ mode' = mode
      /\ serving' = serving /\ adds' = adds /\ lastDue' = lastDue
      /\ left' = left /\ cycles' = cycles /\ ticks' = ticks
  BY DEF Unlink, clock
<1>2. Typed /\ Partition /\ ClockGood /\ TimesGood /\ Ordered /\ Counted /\ SliceEndsAtEvent
  BY DEF QueueInv
<1>3. /\ w \in Lists /\ Distinct(queue') /\ Distinct(free')
      /\ \A x : In(x, queue') <=> In(x, queue) /\ x \notin gone
      /\ \A x : In(x, free') <=> In(x, free) \/ (In(x, queue) /\ x \in gone)
      /\ \A x, y : Before(queue', x, y) => Before(queue, x, y)
  BY <1>1, <1>2, WalkedProps DEF Partition
<1>4. queue' \in Seq(Entries) /\ free' \in Seq(Entries)
  BY <1>1, <1>3 DEF Lists
<1> HIDE DEF w
<1>5. \A x \in Entries : x \notin gone => entry'[x] = entry[x]
  BY <1>1 DEF Blanked
<1>6. serving \notin gone
  BY <1>2 DEF Partition
<1>7. Typed'
  <2>1. Blank \in Fields
    BY PicAssumption DEF Blank, Fields
  <2>2. entry' \in [Entries -> Fields]
    BY <1>1, <1>2, <2>1 DEF Blanked, Typed
  <2> QED  BY <1>1, <1>2, <2>2 DEF Typed
<1>8. Partition'
  <2>1. \A x : ~(In(x, queue') /\ In(x, free'))
    BY <1>2, <1>3, Zenon DEF Partition
  <2>2. ~In(serving, queue') /\ ~In(serving, free')
    BY <1>2, <1>3, <1>6, Zenon DEF Partition
  <2>3. \A x \in Entries : In(x, queue') \/ In(x, free') \/ x = serving
    BY <1>2, <1>3, Zenon DEF Partition
  <2> QED  BY <1>1, <1>3, <1>4, <2>1, <2>2, <2>3, Zenon DEF Partition
<1>9. ClockGood'
  BY <1>1, <1>2 DEF ClockGood, InEventService
<1>10. TimesGood'
  <2>1. Start' = Start /\ Tick' = Tick /\ TickIndexND' = TickIndexND
    BY <1>1 DEF Start, Tick, TickIndexND
  <2>2. mode = "handler" => serving \in Entries /\ entry'[serving] = entry[serving]
    BY <1>2, <1>5, <1>6 DEF Typed
  <2> QED  BY <1>1, <1>2, <1>3, <1>5, <2>1, <2>2 DEF TimesGood
<1>11. Ordered'
  <2>1. ASSUME NEW x, NEW y, Before(queue', x, y) PROVE Earlier(entry', x, y)
    <3>1. x \in Entries /\ y \in Entries /\ In(x, queue') /\ In(y, queue')
      BY <1>4, <2>1, BeforeIn
    <3>2. Earlier(entry, x, y)
      BY <1>2, <1>3, <2>1 DEF Ordered
    <3> QED  BY <1>3, <1>5, <3>1, <3>2 DEF Earlier
  <2> QED  BY <2>1 DEF Ordered
<1>12. Counted'
  <2>1. ASSUME NEW k \in Handlers \X Vals
        PROVE  armed'[k] = Cardinality(Pending(queue', entry', k))
    <3>1. CASE k \in keys
      <4>1. Pending(queue', entry', k) = {}
        BY <1>3, <1>5, <3>1 DEF Pending
      <4> QED  BY <3>1, <4>1, FS_EmptySet
    <3>2. CASE k \notin keys
      <4>1. Pending(queue', entry', k) = Pending(queue, entry, k)
        BY <1>3, <1>5, <3>2 DEF Pending
      <4> QED  BY <1>2, <3>2, <4>1 DEF Counted
    <3> QED  BY <3>1, <3>2
  <2> QED  BY <2>1 DEF Counted
<1>13. SliceEndsAtEvent'
  <2> DEFINE a == (TickIndexND + cycles) * Sub
  <2>1. SUFFICES ASSUME mode = "cpu", queue' # <<>>, cycles > 0
                 PROVE  a < entry'[Head(queue')].index + Sub
    BY <1>1 DEF SliceEndsAtEvent, TickIndexND
  <2> DEFINE x == Head(queue')
  <2>2. x \in Entries /\ In(x, queue')
    BY <1>4, <2>1, HeadProps
  <2> HIDE DEF x
  <2>3. In(x, queue) /\ entry'[x] = entry[x]
    BY <1>3, <1>5, <2>2
  <2>4. /\ queue # <<>> /\ entry[Head(queue)].index \in Int /\ entry[x].index \in Int
        /\ entry[Head(queue)].index <= entry[x].index
    BY <2>3, HeadEarliest
  <2>5. a < entry[Head(queue)].index + Sub
    BY <1>2, <2>1, <2>4 DEF SliceEndsAtEvent
  <2>6. a \in Int /\ Sub \in Int
    <3>1. TickIndexND + cycles \in Int /\ Sub \in Int
      BY <1>2, Numbers
    <3> QED  BY <3>1
  <2> HIDE DEF a
  <2>7. a < entry'[x].index + Sub
    BY <2>3, <2>4, <2>5, <2>6
  <2> QED  BY <2>7 DEF x
<1> QED  BY <1>7, <1>8, <1>9, <1>10, <1>11, <1>12, <1>13 DEF QueueInv

\* The queued entries, as a set.
LEMMA QueuedSet ==
    ASSUME Partition
    PROVE  \A x : x \in Range(queue) <=> In(x, queue)
BY DEF Partition, Range, In

LEMMA RemoveSpecificInv ==
    ASSUME QueueInv, NEW h \in Handlers, NEW v \in Vals, PIC_RemoveSpecificEvents(h, v)
    PROVE  QueueInv'
<1> DEFINE gone == {e \in Range(queue) : entry[e].handler = h /\ entry[e].val = v}
           keys == {<<h, v>>}
<1>1. /\ DevicesAct /\ Unlink(gone) /\ UNCHANGED <<serving, clock, mode, adds, lastDue>>
      /\ armed' = [armed EXCEPT ![<<h, v>>] = 0]
  BY DEF PIC_RemoveSpecificEvents
<1>2. \A x : x \in Range(queue) <=> In(x, queue)
  BY QueuedSet DEF QueueInv
<1>3. /\ \A x \in Entries : In(x, queue) =>
            (x \in gone <=> <<entry[x].handler, entry[x].val>> \in keys)
      /\ \A x \in gone : In(x, queue)
  BY <1>2
<1>4. armed \in [Handlers \X Vals -> Nat]
  BY DEF QueueInv, Typed
<1>5. /\ armed' \in [Handlers \X Vals -> Nat]
      /\ \A k \in Handlers \X Vals : armed'[k] = IF k \in keys THEN 0 ELSE armed[k]
  BY <1>1, <1>4
<1> HIDE DEF gone, keys
<1> QED  BY <1>1, <1>3, <1>5, UnlinkInv

LEMMA RemoveInv ==
    ASSUME QueueInv, NEW h \in Handlers, PIC_RemoveEvents(h)
    PROVE  QueueInv'
<1> DEFINE gone == {e \in Range(queue) : entry[e].handler = h}
           keys == {k \in Handlers \X Vals : k[1] = h}
<1>1. /\ DevicesAct /\ Unlink(gone) /\ UNCHANGED <<serving, clock, mode, adds, lastDue>>
      /\ armed' = [k \in DOMAIN armed |-> IF k[1] = h THEN 0 ELSE armed[k]]
  BY DEF PIC_RemoveEvents
<1>2. \A x : x \in Range(queue) <=> In(x, queue)
  BY QueuedSet DEF QueueInv
<1>3. /\ \A x \in Entries : In(x, queue) =>
            (x \in gone <=> <<entry[x].handler, entry[x].val>> \in keys)
      /\ \A x \in gone : In(x, queue)
  <2>1. \A x \in Entries : entry[x].handler \in Handlers /\ entry[x].val \in Vals
    BY DEF QueueInv, Typed, Fields
  <2> QED  BY <1>2, <2>1
<1>4. armed \in [Handlers \X Vals -> Nat]
  BY DEF QueueInv, Typed
<1>5. /\ armed' \in [Handlers \X Vals -> Nat]
      /\ \A k \in Handlers \X Vals : armed'[k] = IF k \in keys THEN 0 ELSE armed[k]
  BY <1>1, <1>4
<1> HIDE DEF gone, keys
<1> QED  BY <1>1, <1>3, <1>5, UnlinkInv

-----------------------------------------------------------------------------
(* Adding.                                                                 *)

LEMMA AddInv ==
    ASSUME QueueInv, NEW h \in Handlers, NEW v \in Vals, NEW d \in Delays, PIC_AddEvent(h, v, d)
    PROVE  QueueInv'
<1> DEFINE e == Head(free)
           origin == IF InEventService THEN entry[serving].due ELSE Now
           new == [index |-> Base + d, handler |-> h, val |-> v,
                   due |-> origin + d, order |-> adds]
           head == entry'[Head(queue')].index
           cut == CutsSlice((head - TickIndexND * Sub) \div Sub)
<1>1. /\ DevicesAct /\ adds < MaxAdds /\ free # <<>>
      /\ entry' = [entry EXCEPT ![e] = new]
      /\ queue' = Insert(queue, e, entry') /\ free' = Tail(free)
      /\ IF cut THEN left' = left + cycles /\ cycles' = 0 ELSE left' = left /\ cycles' = cycles
      /\ adds' = adds + 1 /\ armed' = [armed EXCEPT ![<<h, v>>] = @ + 1]
      /\ serving' = serving /\ ticks' = ticks /\ mode' = mode /\ lastDue' = lastDue
  BY DEF PIC_AddEvent
<1>2. Typed /\ Partition /\ ClockGood /\ TimesGood /\ Ordered /\ Counted
  BY DEF QueueInv
<1>3. /\ TickIndexND \in Int /\ TickIndexND * Sub \in Int /\ TickIndexND * Sub >= 0
      /\ Start \in Nat /\ Tick \in Nat /\ Now = Start + TickIndexND * Sub /\ Sub \in Nat \ {0}
      /\ left \in Int /\ cycles \in Int /\ CycleMax \in Nat /\ Overshoot \in Nat
  BY <1>2, Numbers
<1>4. d \in Nat /\ adds \in Nat /\ adds + 1 \in 0 .. MaxAdds /\ lastDue \in Nat
  BY <1>1, <1>2, PicAssumption DEF Typed
<1>5. mode # "tick" /\ (InEventService <=> mode = "handler")
  BY <1>1 DEF DevicesAct, InEventService
<1>6. /\ Base \in Int /\ origin \in Nat /\ origin = Start + Base /\ origin >= lastDue
  <2>1. CASE mode = "handler"
    <3>1. serving \in Entries /\ Base = entry[serving].index /\ origin = entry[serving].due
      BY <1>2, <1>5, <2>1 DEF Typed, Base
    <3>2. entry[serving].index \in Int /\ entry[serving].due \in Nat
      BY <1>2, <3>1 DEF Typed, Fields
    <3>3. entry[serving].due = Start + entry[serving].index /\ entry[serving].due = lastDue
      BY <1>2, <2>1 DEF TimesGood
    <3> QED  BY <1>3, <1>4, <3>1, <3>2, <3>3
  <2>2. CASE mode # "handler"
    <3>1. Base = TickIndexND * Sub /\ origin = Start + TickIndexND * Sub
      BY <1>3, <1>5, <2>2 DEF Base
    <3>2. lastDue <= Start + TickIndexND * Sub
      BY <1>2 DEF TimesGood
    <3> DEFINE a == TickIndexND * Sub
    <3>3. a \in Int /\ a >= 0 /\ Base = a /\ origin = Start + a /\ lastDue <= Start + a
      BY <1>3, <3>1, <3>2
    <3> HIDE DEF a, origin
    <3> QED  BY <1>3, <1>4, <3>3
  <2> QED  BY <2>1, <2>2
<1> HIDE DEF origin
<1>7. /\ new \in Fields /\ new.index \in Int /\ new.due = Start + new.index
      /\ new.due >= lastDue /\ new.order = adds /\ new.handler = h /\ new.val = v
  <2>1. Base + d \in Int /\ origin + d \in Nat /\ origin + d = Start + (Base + d)
        /\ origin + d >= lastDue
    BY <1>3, <1>4, <1>6
  <2> QED  BY <1>4, <2>1 DEF Fields
<1> HIDE DEF new
<1>8. e \in Entries /\ In(e, free) /\ ~In(e, queue) /\ e # serving
  <2>1. e \in Entries /\ In(e, free)
    BY <1>1, <1>2, HeadProps DEF Partition
  <2> HIDE DEF e
  <2> QED  BY <1>2, <2>1, Zenon DEF Partition
<1>9. /\ free' \in Seq(Entries) /\ Distinct(free')
      /\ \A x : In(x, free') <=> In(x, free) /\ x # e
  BY <1>1, <1>2, TailProps DEF Partition
<1> HIDE DEF e
<1>10. /\ entry' \in [Entries -> Fields] /\ entry'[e] = new
       /\ \A x \in Entries : x # e => entry'[x] = entry[x]
       /\ \A x \in Entries : entry'[x].index \in Int
  <2>1. entry' \in [Entries -> Fields]
    BY <1>1, <1>2, <1>7, <1>8 DEF Typed
  <2>2. entry'[e] = new /\ \A x \in Entries : x # e => entry'[x] = entry[x]
    BY <1>1, <1>2, <1>8 DEF Typed
  <2> QED  BY <2>1, <2>2 DEF Fields
<1>11. /\ queue' \in Seq(Entries) /\ queue' # <<>> /\ Distinct(queue')
       /\ \A x : In(x, queue') <=> x = e \/ In(x, queue)
       /\ \A x, y : Before(queue', x, y) =>
            \/ Before(queue, x, y)
            \/ y = e /\ In(x, queue) /\ entry'[x].index <= entry'[e].index
            \/ x = e /\ \E z : /\ In(z, queue) /\ entry'[z].index > entry'[e].index
                               /\ y = z \/ Before(queue, z, y)
  <2>1. Inserted(queue', queue, e, entry')
    BY <1>1, <1>2, <1>8, <1>10, InsertProps DEF Partition
  <2> QED  BY <2>1, Zenon DEF Inserted
<1>12. head \in Int
  BY <1>10, <1>11, HeadProps
<1> HIDE DEF head
<1>13. \/ left' = left /\ cycles' = cycles /\ ~cut
       \/ left' = left + cycles /\ cycles' = 0
  BY <1>1
<1>14. Typed'
  <2>1. <<h, v>> \in Handlers \X Vals /\ armed \in [Handlers \X Vals -> Nat]
    BY <1>2 DEF Typed
  <2>2. armed' \in [Handlers \X Vals -> Nat]
    BY <1>1, <2>1
  <2> QED  BY <1>1, <1>2, <1>4, <1>10, <2>2 DEF Typed
<1>15. Partition'
  <2>1. \A x : ~(In(x, queue') /\ In(x, free'))
    BY <1>2, <1>9, <1>11, Zenon DEF Partition
  <2>2. ~In(serving, queue') /\ ~In(serving, free')
    BY <1>2, <1>8, <1>9, <1>11, Zenon DEF Partition
  <2>3. \A x \in Entries : In(x, queue') \/ In(x, free') \/ x = serving
    BY <1>2, <1>9, <1>11, Zenon DEF Partition
  <2> QED  BY <1>1, <1>9, <1>11, <2>1, <2>2, <2>3, Zenon DEF Partition
<1>16. ClockGood'
  BY <1>1, <1>2, <1>3, <1>5, <1>13 DEF ClockGood, InEventService
<1>17. TimesGood'
  <2>1. Start' = Start /\ Tick' = Tick /\ TickIndexND' = TickIndexND
    <3>1. TickIndexND' = CycleMax - left' - cycles' /\ TickIndexND = CycleMax - left - cycles
      BY DEF TickIndexND
    <3>2. \A a, b, c \in Int : a - b - c = a - (b + c) - 0
      OBVIOUS
    <3>3. TickIndexND' = TickIndexND
      BY <1>3, <1>13, <3>1, <3>2
    <3> QED  BY <1>1, <3>3 DEF Start, Tick
  <2>2. ASSUME NEW x \in Entries, In(x, queue')
        PROVE  /\ entry'[x].due = Start + entry'[x].index
               /\ entry'[x].due >= lastDue /\ entry'[x].order < adds + 1
    <3>1. CASE x = e
      BY <1>4, <1>7, <1>10, <3>1
    <3>2. CASE x # e
      <4>1. In(x, queue) /\ entry'[x] = entry[x]
        BY <1>10, <1>11, <2>2, <3>2
      <4>2. /\ entry[x].due = Start + entry[x].index
            /\ entry[x].due >= lastDue /\ entry[x].order < adds
        BY <1>2, <4>1 DEF TimesGood
      <4>3. entry[x].order \in Nat
        BY <1>2 DEF Typed, Fields
      <4> QED  BY <1>4, <4>1, <4>2, <4>3
    <3> QED  BY <3>1, <3>2
  <2>3. mode = "handler" => entry'[serving] = entry[serving]
    BY <1>2, <1>8, <1>10 DEF Typed
  <2> QED  BY <1>1, <1>2, <2>1, <2>2, <2>3 DEF TimesGood
<1>18. Ordered'
  <2>1. ASSUME NEW x, NEW y, Before(queue', x, y) PROVE Earlier(entry', x, y)
    <3>1. \A z : In(z, queue) => /\ z \in Entries /\ z # e /\ entry'[z] = entry[z]
                                 /\ entry[z] \in Fields /\ entry[z].order < adds
      <4>1. \A z : In(z, queue) => z \in Entries /\ z # e
        BY <1>2, <1>8, BeforeIn DEF Partition
      <4> QED  BY <1>2, <1>10, <4>1 DEF TimesGood, Typed
    <3>2. \A z : In(z, queue) => entry[z].index \in Int
      BY <3>1 DEF Fields
    <3>3. \A z, u : Before(queue, z, u) => In(z, queue) /\ In(u, queue) /\ Earlier(entry, z, u)
      BY <1>2, BeforeIn DEF Partition, Ordered
    <3>4. CASE Before(queue, x, y)
      BY <3>1, <3>3, <3>4 DEF Earlier
    <3>5. CASE y = e /\ In(x, queue) /\ entry'[x].index <= entry'[e].index
      <4>1. entry'[x].order < entry'[e].order
        BY <1>7, <1>10, <3>1, <3>5
      <4>2. entry'[x].index \in Int /\ entry'[e].index \in Int
        BY <1>7, <1>10, <3>1, <3>2, <3>5
      <4> QED  BY <3>5, <4>1, <4>2 DEF Earlier
    <3>6. CASE x = e /\ \E z : /\ In(z, queue) /\ entry'[z].index > entry'[e].index
                               /\ y = z \/ Before(queue, z, y)
      <4>1. PICK z : /\ In(z, queue) /\ entry'[z].index > entry'[e].index
                     /\ y = z \/ Before(queue, z, y)
        BY <3>6
      <4>2. In(y, queue) /\ entry[z].index <= entry[y].index
        BY <3>2, <3>3, <4>1 DEF Earlier
      <4>3. /\ entry'[e].index \in Int /\ entry'[z].index = entry[z].index
            /\ entry'[y].index = entry[y].index
        BY <1>7, <1>10, <3>1, <4>1, <4>2
      <4> QED  BY <3>2, <3>6, <4>1, <4>2, <4>3 DEF Earlier
    <3> QED  BY <1>11, <2>1, <3>4, <3>5, <3>6
  <2> QED  BY <2>1 DEF Ordered
<1>19. Counted'
  <2>1. ASSUME NEW k \in Handlers \X Vals
        PROVE  armed'[k] = Cardinality(Pending(queue', entry', k))
    <3>1. IsFiniteSet(Pending(queue, entry, k)) /\ e \notin Pending(queue, entry, k)
      <4>1. e \notin Pending(queue, entry, k)
        BY <1>8 DEF Pending
      <4> QED  BY <4>1, PendingFinite
    <3>2. armed[k] = Cardinality(Pending(queue, entry, k))
      BY <1>2 DEF Counted
    <3>3. CASE k = <<h, v>>
      <4>1. Pending(queue', entry', k) = Pending(queue, entry, k) \cup {e}
        BY <1>7, <1>8, <1>10, <1>11, <3>3 DEF Pending
      <4>2. armed'[k] = armed[k] + 1
        BY <1>1, <1>2, <3>3 DEF Typed
      <4> QED  BY <3>1, <3>2, <4>1, <4>2, FS_AddElement
    <3>4. CASE k # <<h, v>>
      <4>1. Pending(queue', entry', k) = Pending(queue, entry, k)
        BY <1>7, <1>8, <1>10, <1>11, <3>4 DEF Pending
      <4>2. armed'[k] = armed[k]
        BY <1>1, <1>2, <3>4 DEF Typed
      <4> QED  BY <3>2, <4>1, <4>2
    <3> QED  BY <3>3, <3>4
  <2> QED  BY <2>1 DEF Counted
<1>20. SliceEndsAtEvent'
  <2>1. CASE cycles' = 0
    BY <2>1 DEF SliceEndsAtEvent
  <2>2. CASE cycles' # 0
    <3> DEFINE T == TickIndexND
               c == (head - T * Sub) \div Sub
    <3>1. cycles' = cycles /\ left' = left /\ ~(c < cycles)
      BY <1>13, <2>2 DEF CutsSlice
    <3>2. T' = T
      BY <3>1 DEF TickIndexND
    <3>3. T \in Int /\ T * Sub \in Int
      BY <1>3
    <3> HIDE DEF T
    <3>4. head - T * Sub \in Int
      BY <1>12, <3>3
    <3>5. c \in Int /\ c * Sub <= head - T * Sub
      BY <1>3, <3>4, Quotient
    <3> HIDE DEF c
    <3>6. cycles * Sub <= c * Sub /\ cycles * Sub \in Int /\ c * Sub \in Int
          /\ (T + cycles) * Sub = T * Sub + cycles * Sub
      BY <1>3, <3>1, <3>3, <3>5, Multiples
    <3>7. (T + cycles) * Sub < head + Sub
      <4> DEFINE a == T * Sub
                 b == c * Sub
                 r == cycles * Sub
      <4>1. /\ a \in Int /\ b \in Int /\ r \in Int /\ r <= b /\ b <= head - a
            /\ (T + cycles) * Sub = a + r
        BY <3>3, <3>5, <3>6
      <4> HIDE DEF a, b, r
      <4>2. a + r < head + Sub
        BY <1>3, <1>12, <4>1
      <4> QED  BY <4>1, <4>2
    <3> QED  BY <3>1, <3>2, <3>7 DEF SliceEndsAtEvent, head, T
  <2> QED  BY <2>1, <2>2
<1> QED  BY <1>14, <1>15, <1>16, <1>17, <1>18, <1>19, <1>20 DEF QueueInv

-----------------------------------------------------------------------------
(* The theorems.                                                           *)

LEMMA InvNext ==
    ASSUME QueueInv, [Next]_vars PROVE QueueInv'
<1>1. CASE UNCHANGED vars
  <2>1. /\ queue' = queue /\ free' = free /\ entry' = entry /\ serving' = serving
        /\ left' = left /\ cycles' = cycles /\ ticks' = ticks /\ mode' = mode /\ adds' = adds
        /\ armed' = armed /\ lastDue' = lastDue
    BY <1>1 DEF vars
  <2> QED  BY <2>1 DEF QueueInv, Typed, Partition, ClockGood, TimesGood, Ordered, Counted,
                       SliceEndsAtEvent, InEventService, Start, TickIndexND
<1>2. ASSUME NEW h \in Handlers, NEW v \in Vals, NEW d \in Delays, PIC_AddEvent(h, v, d)
      PROVE  QueueInv'
  BY <1>2, AddInv
<1>3. ASSUME NEW h \in Handlers, NEW v \in Vals, PIC_RemoveSpecificEvents(h, v) PROVE QueueInv'
  BY <1>3, RemoveSpecificInv
<1>4. ASSUME NEW h \in Handlers, PIC_RemoveEvents(h) PROVE QueueInv'
  BY <1>4, RemoveInv
<1>5. CASE RunQueue
  BY <1>5, RunQueueInv
<1>6. CASE Fire
  BY <1>6, FireInv
<1>7. CASE HandlerReturns
  BY <1>7, HandlerReturnsInv
<1>8. CASE RunQueueReturns
  BY <1>8, RunQueueReturnsInv
<1>9. CASE CpuExecutes
  BY <1>9, CpuExecutesInv
<1>10. CASE CpuReturns
  BY <1>10, CpuReturnsInv
<1>11. CASE TIMER_AddTick
  BY <1>11, TickInv
<1> QED  BY <1>1, <1>2, <1>3, <1>4, <1>5, <1>6, <1>7, <1>8, <1>9, <1>10, <1>11, Zenon DEF Next

LEMMA QueueAlwaysGood == Spec => []QueueInv
<1>1. Init => QueueInv
  BY InitInv
<1>2. QueueInv /\ [Next]_vars => QueueInv'
  BY InvNext
<1> QED  BY <1>1, <1>2, PTL DEF Spec

\* The lists, the entries and the cycle counters have their types: the CPU
\* takes back no more cycles than its last instruction overran (pic.cpp,
\* PIC_RunQueue and TIMER_AddTick).
THEOREM QueueTyped == Spec => []TypeOK
<1>1. QueueInv => TypeOK
  <2> SUFFICES ASSUME QueueInv PROVE TypeOK
    OBVIOUS
  <2>1. left \in -Overshoot .. CycleMax /\ cycles \in -Overshoot .. CycleMax
    BY PicAssumption DEF QueueInv, ClockGood
  <2> QED  BY <2>1 DEF QueueInv, Typed, Partition, TypeOK, Fields
<1> QED  BY <1>1, QueueAlwaysGood, PTL

\* Every entry of the pool is queued, free or served, and once only, whatever
\* handlers add and remove while their own entry is in neither list.
THEOREM EntriesAlwaysConserved == Spec => []EntriesConserved
<1>1. QueueInv => EntriesConserved
  <2> SUFFICES ASSUME QueueInv PROVE EntriesConserved
    OBVIOUS
  <2> DEFINE last == IF serving = NoEntry THEN <<>> ELSE <<serving>>
             lists == queue \o free
             all == lists \o last
  <2>1. Partition /\ serving \in Entries \cup {NoEntry} /\ queue \in Seq(Entries)
        /\ free \in Seq(Entries)
    BY DEF QueueInv, Typed, Partition
  <2>2. /\ lists \in Seq(Entries) /\ Len(lists) = Len(queue) + Len(free)
        /\ Len(queue) \in Nat /\ Len(free) \in Nat
        /\ \A i \in 1 .. Len(lists) :
             lists[i] = IF i <= Len(queue) THEN queue[i] ELSE free[i - Len(queue)]
    BY <2>1
  <2> HIDE DEF lists
  <2>3. \A x : In(x, lists) <=> In(x, queue) \/ In(x, free)
    <3>1. ASSUME NEW x, In(x, lists) PROVE In(x, queue) \/ In(x, free)
      <4>1. PICK i \in 1 .. Len(lists) : lists[i] = x
        BY <3>1 DEF In
      <4>2. CASE i <= Len(queue)
        BY <2>2, <4>1, <4>2 DEF In
      <4>3. CASE ~(i <= Len(queue))
        <5>1. i - Len(queue) \in 1 .. Len(free) /\ free[i - Len(queue)] = x
          BY <2>2, <4>1, <4>3
        <5> QED  BY <5>1 DEF In
      <4> QED  BY <4>2, <4>3
    <3>2. ASSUME NEW x, In(x, queue) PROVE In(x, lists)
      <4>1. PICK i \in 1 .. Len(queue) : queue[i] = x
        BY <3>2 DEF In
      <4>2. i \in 1 .. Len(lists) /\ lists[i] = x
        BY <2>2, <4>1
      <4> QED  BY <4>2 DEF In
    <3>3. ASSUME NEW x, In(x, free) PROVE In(x, lists)
      <4>1. PICK i \in 1 .. Len(free) : free[i] = x
        BY <3>3 DEF In
      <4>2. /\ i + Len(queue) \in 1 .. Len(lists) /\ ~(i + Len(queue) <= Len(queue))
            /\ i + Len(queue) - Len(queue) = i
        BY <2>2
      <4>3. lists[i + Len(queue)] = x
        BY <2>2, <4>1, <4>2
      <4> QED  BY <4>2, <4>3 DEF In
    <3> QED  BY <3>1, <3>2, <3>3, Zenon
  <2>4. Distinct(lists)
    <3>1. ASSUME NEW i \in 1 .. Len(lists), NEW j \in 1 .. Len(lists), lists[i] = lists[j]
          PROVE  i = j
      <4>1. CASE i <= Len(queue) /\ j <= Len(queue)
        BY <2>1, <2>2, <3>1, <4>1 DEF Partition, Distinct
      <4>2. CASE i > Len(queue) /\ j > Len(queue)
        <5>1. /\ i - Len(queue) \in 1 .. Len(free) /\ j - Len(queue) \in 1 .. Len(free)
              /\ free[i - Len(queue)] = free[j - Len(queue)]
          BY <2>2, <3>1, <4>2
        <5>2. i - Len(queue) = j - Len(queue)
          BY <2>1, <5>1, Zenon DEF Partition, Distinct
        <5> QED  BY <2>2, <5>2
      <4>3. CASE i <= Len(queue) /\ j > Len(queue)
        <5>1. In(lists[i], queue) /\ In(lists[j], free)
          BY <2>2, <4>3 DEF In
        <5> QED  BY <2>1, <3>1, <5>1 DEF Partition
      <4>4. CASE i > Len(queue) /\ j <= Len(queue)
        <5>1. In(lists[j], queue) /\ In(lists[i], free)
          BY <2>2, <4>4 DEF In
        <5> QED  BY <2>1, <3>1, <5>1 DEF Partition
      <4> QED  BY <2>2, <4>1, <4>2, <4>3, <4>4
    <3> QED  BY <3>1, Zenon DEF Distinct
  <2>5. ~In(serving, lists)
    BY <2>1, <2>3, Zenon DEF Partition
  <2>6. /\ all \in Seq(Entries) /\ Distinct(all)
        /\ \A x : In(x, all) <=> In(x, lists) \/ (x = serving /\ serving # NoEntry)
    <3>1. CASE serving = NoEntry
      <4>1. all = lists
        BY <2>2, <3>1
      <4> QED  BY <2>2, <2>4, <3>1, <4>1
    <3>2. CASE serving # NoEntry
      <4>1. serving \in Entries /\ all = lists \o <<serving>>
        BY <2>1, <3>2
      <4>2. /\ all \in Seq(Entries) /\ Len(all) = Len(lists) + 1 /\ Len(lists) \in Nat
            /\ all[Len(all)] = serving /\ \A i \in 1 .. Len(lists) : all[i] = lists[i]
        <5>1. lists \in Seq(Entries) /\ serving \in Entries
          BY <2>2, <4>1
        <5> HIDE DEF all
        <5> QED  BY <4>1, <5>1
      <4> HIDE DEF all
      <4>3. \A i \in 1 .. Len(lists) : lists[i] # serving
        BY <2>5 DEF In
      <4>4. Distinct(all)
        BY <2>4, <4>2, <4>3 DEF Distinct
      <4>5. \A x : In(x, all) => In(x, lists) \/ x = serving
        BY <4>2 DEF In
      <4>6. In(serving, all) /\ \A x : In(x, lists) => In(x, all)
        BY <4>2 DEF In
      <4> QED  BY <3>2, <4>2, <4>4, <4>5, <4>6, Zenon
    <3> QED  BY <3>1, <3>2
  <2> HIDE DEF all
  <2>7. \A x : In(x, all) <=> x \in Entries
    <3>1. \A x : In(x, all) => x \in Entries
      BY <2>6, BeforeIn
    <3>2. \A x \in Entries : In(x, all)
      BY <2>1, <2>3, <2>6, PicAssumption, Zenon DEF Partition
    <3> QED  BY <3>1, <3>2, Zenon
  <2>8. Range(all) = Entries
    <3>1. \A x : x \in Range(all) <=> In(x, all)
      BY <2>6 DEF Range, In
    <3> QED  BY <2>7, <3>1
  <2>9. \A i, j \in DOMAIN all : all[i] = all[j] => i = j
    BY <2>6 DEF Distinct
  <2> QED  BY <2>8, <2>9 DEF EntriesConserved, all, lists
<1> QED  BY <1>1, QueueAlwaysGood, PTL

\* The queue is in the order of time, and first come first served within the
\* same time: AddEntry and the walks of removal keep it (pic.cpp, AddEntry,
\* PIC_RemoveEvents, PIC_RemoveSpecificEvents, TIMER_AddTick).
THEOREM QueueAlwaysInOrder == Spec => []QueueInOrder
<1>1. QueueInv => QueueInOrder
  <2> SUFFICES ASSUME QueueInv, NEW i \in DOMAIN queue, NEW j \in DOMAIN queue, i < j
               PROVE  Earlier(entry, queue[i], queue[j])
    BY DEF QueueInOrder, Earlier
  <2>1. Before(queue, queue[i], queue[j])
    BY DEF QueueInv, Partition, Before
  <2> QED  BY <2>1 DEF QueueInv, Ordered
<1> QED  BY <1>1, QueueAlwaysGood, PTL

\* Removing events leaves none behind and takes no other: what is queued is
\* what was added and neither fired nor removed.
THEOREM QueueAlwaysArmed == Spec => []QueueIsArmed
<1>1. QueueInv => QueueIsArmed
  <2> SUFFICES ASSUME QueueInv, NEW k \in DOMAIN armed
               PROVE  armed[k] = Cardinality({e \in Range(queue) :
                                                <<entry[e].handler, entry[e].val>> = k})
    BY DEF QueueIsArmed
  <2>1. k \in Handlers \X Vals
    BY DEF QueueInv, Typed
  <2>2. \A x : x \in Range(queue) <=> In(x, queue) /\ x \in Entries
    BY QueuedSet, BeforeIn DEF QueueInv, Partition
  <2>3. {e \in Range(queue) : <<entry[e].handler, entry[e].val>> = k} = Pending(queue, entry, k)
    BY <2>2 DEF Pending
  <2> QED  BY <2>1, <2>3 DEF QueueInv, Counted
<1> QED  BY <1>1, QueueAlwaysGood, PTL

\* The CPU's slice ends less than a cycle after the first event is due, also
\* when PIC_AddEvent puts an event into the middle of it (pic.cpp, AddEntry
\* and PIC_RunQueue).
THEOREM SlicesEndAtEvents == Spec => []SliceEndsAtEvent
<1>1. QueueInv => SliceEndsAtEvent
  BY DEF QueueInv
<1> QED  BY <1>1, QueueAlwaysGood, PTL

\* No event fires before its delay is over, and none after one that was due
\* later (pic.cpp, PIC_RunQueue and the base of delays in PIC_AddEvent).
THEOREM EventsFireOnTime == Spec => FiresOnTime
<1>1. QueueInv /\ [Next]_vars =>
        [Fire => /\ Now >= entry[Head(queue)].due
                 /\ entry[Head(queue)].due >= lastDue]_vars
  <2> SUFFICES ASSUME QueueInv, Fire
               PROVE  Now >= entry[Head(queue)].due /\ entry[Head(queue)].due >= lastDue
    OBVIOUS
  <2> DEFINE e == Head(queue)
  <2>1. queue # <<>> /\ entry[e].index <= TickIndexND * Sub
    BY DEF Fire, Due
  <2>2. e \in Entries /\ In(e, queue)
    BY <2>1, HeadProps DEF QueueInv, Partition
  <2> HIDE DEF e
  <2>3. entry[e].due = Start + entry[e].index /\ entry[e].due >= lastDue
    BY <2>2 DEF QueueInv, TimesGood
  <2>4. entry[e].index \in Int
    BY <2>2 DEF QueueInv, Typed, Fields
  <2>5. /\ TickIndexND * Sub \in Int /\ Start \in Nat
        /\ Now = Start + TickIndexND * Sub
    BY Numbers DEF QueueInv
  <2>6. Now >= entry[e].due
    BY <2>1, <2>3, <2>4, <2>5
  <2> QED  BY <2>3, <2>6 DEF e
<1> QED  BY <1>1, QueueAlwaysGood, PTL DEF Spec, FiresOnTime

=============================================================================
