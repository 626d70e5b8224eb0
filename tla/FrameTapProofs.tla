--------------------------- MODULE FrameTapProofs ---------------------------
(***************************************************************************)
(* The ownership of the copies of a frame, for any number of clients and   *)
(* of copies.  The invariant is strengthened by what the two locks give:   *)
(* the one handler that waits is the holder of request_serializer, the     *)
(* flag is up exactly while there is one, and the tap has a frame only     *)
(* while it is; and by the freshness of the copy a delivery makes.         *)
(*                                                                         *)
(* Then the other thing that the end of a frame does for web clients: the  *)
(* freezes, for any registry and any size of memory.                       *)
(***************************************************************************)
EXTENDS FrameTap, FreezeRegistry, Integers, WellFoundedInduction, TLAPS

WaiterHolds ==
    /\ \A c \in Clients : pc[c] \in {"waiting", "expired"} <=> serializer = c
    /\ requested <=> serializer # Nobody
    /\ has_frame => requested

EncoderOwns == \A c \in Clients : pc[c] = "encoding" <=> owned[c] # NoCopy

CopiesFresh ==
    /\ present # "idle" => copies < MaxCopies
    /\ live \subseteq 1 .. copies /\ lost \subseteq 1 .. copies

TapInv == TypeOK /\ WaiterHolds /\ EncoderOwns /\ CopiesFresh /\ OneOwner

LEMMA InitTap == Init => TapInv
<1> SUFFICES ASSUME Init PROVE TapInv
    OBVIOUS
<1>1. TypeOK
  <2>1. 0 \in 0 .. MaxCopies
    BY TapAssumption
  <2> QED BY <2>1 DEF Init, TypeOK, NoCopy
<1>2. WaiterHolds
    BY TapAssumption DEF Init, WaiterHolds
<1>3. EncoderOwns
    BY DEF Init, EncoderOwns
<1>4. CopiesFresh /\ OneOwner
    BY DEF Init, CopiesFresh, OneOwner
<1> QED BY <1>1, <1>2, <1>3, <1>4 DEF TapInv

LEMMA RequestTap == ASSUME TapInv, NEW c \in Clients, Request(c) PROVE TapInv'
<1> USE TapAssumption DEF TapInv, Request, Goto
<1>1. TypeOK' BY DEF TypeOK, WaiterHolds
<1>2. WaiterHolds' BY DEF TypeOK, WaiterHolds
<1>3. EncoderOwns' BY DEF TypeOK, EncoderOwns
<1>4. CopiesFresh' BY DEF CopiesFresh
<1>5. OneOwner' BY DEF OneOwner, WaiterHolds
<1> QED BY <1>1, <1>2, <1>3, <1>4, <1>5

LEMMA TimeoutTap == ASSUME TapInv, NEW c \in Clients, TimeoutElapses(c) PROVE TapInv'
<1> USE TapAssumption DEF TapInv, TimeoutElapses, Goto, tap
<1>1. TypeOK' BY DEF TypeOK
<1>2. WaiterHolds' BY DEF TypeOK, WaiterHolds
<1>3. EncoderOwns' BY DEF TypeOK, EncoderOwns
<1>4. CopiesFresh' BY DEF CopiesFresh
<1>5. OneOwner' BY DEF OneOwner
<1> QED BY <1>1, <1>2, <1>3, <1>4, <1>5

LEMMA TakeTap == ASSUME TapInv, NEW c \in Clients, TakeFrame(c) PROVE TapInv'
<1> USE DEF TapInv
<1>1. /\ pc[c] \in {"waiting", "expired"} /\ has_frame
      /\ requested' = FALSE /\ has_frame' = FALSE /\ frame' = NoCopy
      /\ owned' = [owned EXCEPT ![c] = frame]
      /\ serializer' = Nobody
      /\ pc' = [pc EXCEPT ![c] = "encoding"]
      /\ UNCHANGED <<present, copies, live, lost>>
    BY DEF TakeFrame, AskedAfterWait, FrameAfterTake
<1>2. frame \in 0 .. MaxCopies /\ frame # NoCopy
    BY <1>1, TapAssumption DEF TypeOK, NoCopy
<1>3. TypeOK'
    BY <1>1, <1>2 DEF TypeOK
<1>4. WaiterHolds'
    BY <1>1, TapAssumption DEF TypeOK, WaiterHolds
<1>5. EncoderOwns'
    BY <1>1, <1>2 DEF TypeOK, EncoderOwns
<1>6. CopiesFresh'
    BY <1>1 DEF CopiesFresh
<1>7. owned[c] = NoCopy
    BY <1>1 DEF EncoderOwns
<1>8. \A d \in Clients : owned'[d] = IF d = c THEN frame ELSE owned[d]
    BY <1>1 DEF TypeOK
<1>9. OneOwner'
  <2>1. NoCopy \notin live
    BY DEF TypeOK, NoCopy
  <2>2. ASSUME NEW x \in live \ lost
        PROVE  \E d \in Clients : owned'[d] = x
    BY <1>7, <1>8, <2>1 DEF OneOwner
  <2>3. ASSUME NEW d \in Clients, owned'[d] # NoCopy
        PROVE  /\ owned'[d] \in live \ lost
               /\ \A b \in Clients : b # d => owned'[b] # owned'[d]
    BY <1>1, <1>8, <2>3 DEF OneOwner
  <2> QED BY <1>1, <2>2, <2>3 DEF OneOwner
<1> QED BY <1>3, <1>4, <1>5, <1>6, <1>9

LEMMA GiveUpTap == ASSUME TapInv, NEW c \in Clients, GiveUp(c) PROVE TapInv'
<1> USE TapAssumption DEF TapInv, GiveUp, Goto, Got, AskedAfterWait
<1>1. TypeOK' BY DEF TypeOK
<1>2. WaiterHolds' BY DEF TypeOK, WaiterHolds
<1>3. EncoderOwns' BY DEF TypeOK, EncoderOwns
<1>4. CopiesFresh' BY DEF CopiesFresh
<1>5. OneOwner' BY DEF OneOwner
<1> QED BY <1>1, <1>2, <1>3, <1>4, <1>5

LEMMA EncodeTap == ASSUME TapInv, NEW c \in Clients, Encode(c) \/ EncodeThrows(c) PROVE TapInv'
<1> DEFINE o == owned[c]
<1> USE DEF TapInv
<1>1. /\ pc[c] = "encoding" /\ pc' = [pc EXCEPT ![c] = "idle"]
      /\ owned' = [owned EXCEPT ![c] = NoCopy]
      /\ UNCHANGED <<serializer, requested, has_frame, frame, present, copies>>
      /\ \/ live' = live \ {o} /\ lost' = lost
         \/ live' = live /\ lost' = lost \cup {o}
    BY DEF Encode, EncodeThrows, Goto, tap
<1>2. o \in live \ lost
    BY <1>1 DEF EncoderOwns, OneOwner
<1>3. /\ live' \subseteq live /\ lost' \subseteq lost \cup {o}
      /\ live' \ lost' = (live \ lost) \ {o}
    BY <1>1
<1>4. NoCopy \in 0 .. MaxCopies
    BY TapAssumption DEF NoCopy
<1>5. TypeOK'
  <2>1. live' \subseteq 1 .. MaxCopies /\ lost' \subseteq 1 .. MaxCopies
    BY <1>2, <1>3 DEF TypeOK
  <2> QED BY <1>1, <1>4, <2>1 DEF TypeOK
<1>6. WaiterHolds'
    BY <1>1 DEF TypeOK, WaiterHolds
<1>7. EncoderOwns'
    BY <1>1 DEF TypeOK, EncoderOwns
<1>8. CopiesFresh'
    BY <1>1, <1>2, <1>3 DEF CopiesFresh
<1>9. \A d \in Clients : owned'[d] = IF d = c THEN NoCopy ELSE owned[d]
    BY <1>1 DEF TypeOK
<1>10. OneOwner'
  <2>1. ASSUME NEW x \in live' \ lost'
        PROVE  (has_frame' /\ frame' = x) \/ \E d \in Clients : owned'[d] = x
    BY <1>1, <1>3, <1>9 DEF OneOwner
  <2>2. ASSUME NEW d \in Clients, owned'[d] # NoCopy
        PROVE  /\ owned'[d] \in live' \ lost'
               /\ \A b \in Clients : b # d => owned'[b] # owned'[d]
    BY <1>2, <1>3, <1>9, <2>2 DEF OneOwner
  <2>3. has_frame' => frame' \in live' \ lost' /\ \A d \in Clients : owned'[d] # frame'
    <3>1. NoCopy \notin live
      BY DEF TypeOK, NoCopy
    <3> QED BY <1>1, <1>3, <1>9, <3>1 DEF OneOwner
  <2> QED BY <2>1, <2>2, <2>3 DEF OneOwner
<1> QED BY <1>5, <1>6, <1>7, <1>8, <1>10

LEMMA PresentTap == ASSUME TapInv, Capture \/ SeesRequest PROVE TapInv'
<1> USE TapAssumption DEF TapInv, Capture, SeesRequest, tap
<1>0. /\ present' \in {"idle", "captured", "delivering"}
      /\ UNCHANGED <<serializer, requested, has_frame, frame, pc, owned, copies, live, lost>>
    OBVIOUS
<1>1. TypeOK'
  <2> HIDE DEF Capture, SeesRequest
  <2> QED BY <1>0 DEF TypeOK
<1>2. WaiterHolds' BY DEF WaiterHolds
<1>3. EncoderOwns' BY DEF EncoderOwns
<1>4. CopiesFresh' BY DEF CopiesFresh
<1>5. OneOwner' BY DEF OneOwner
<1> QED BY <1>1, <1>2, <1>3, <1>4, <1>5

LEMMA DeliverTap == ASSUME TapInv, Deliver PROVE TapInv'
<1> USE TapAssumption DEF TapInv, Deliver
<1>1. CASE ~Wanted
  <2>1. TypeOK' BY <1>1 DEF TypeOK
  <2>2. WaiterHolds' BY <1>1 DEF WaiterHolds
  <2>3. EncoderOwns' BY <1>1 DEF EncoderOwns
  <2>4. CopiesFresh' BY <1>1 DEF CopiesFresh
  <2>5. OneOwner' BY <1>1 DEF OneOwner
  <2> QED BY <2>1, <2>2, <2>3, <2>4, <2>5
<1>2. CASE Wanted
  <2>0. /\ copies \in 0 .. MaxCopies /\ copies < MaxCopies
        /\ copies' = copies + 1 /\ copies' # NoCopy
        /\ copies' \notin live /\ copies' \notin lost
        /\ 1 .. copies \subseteq 1 .. copies' /\ copies' \in 1 .. copies'
        /\ copies' \in 0 .. MaxCopies /\ copies' \in 1 .. MaxCopies
    <3>1. /\ copies \in 0 .. MaxCopies /\ copies < MaxCopies
          /\ copies' = copies + 1
          /\ live \subseteq 1 .. copies /\ lost \subseteq 1 .. copies
      BY <1>2 DEF TypeOK, CopiesFresh
    <3>2. copies + 1 \notin 1 .. copies /\ copies + 1 # 0
      BY <3>1
    <3> QED BY <3>1, <3>2 DEF NoCopy
  <2>1. TypeOK' BY <1>2, <2>0 DEF TypeOK
  <2>2. WaiterHolds' BY <1>2 DEF WaiterHolds, Wanted
  <2>3. EncoderOwns' BY <1>2 DEF EncoderOwns
  <2>4. CopiesFresh' BY <1>2, <2>0, Zenon DEF CopiesFresh
  <2>5. \A c \in Clients : owned[c] # copies'
    BY <2>0 DEF OneOwner
  <2>6. OneOwner' BY <1>2, <2>0, <2>5 DEF OneOwner, Wanted
  <2> QED BY <2>1, <2>2, <2>3, <2>4, <2>6
<1> QED BY <1>1, <1>2

LEMMA NextTap == TapInv /\ [Next]_vars => TapInv'
<1> SUFFICES ASSUME TapInv, [Next]_vars PROVE TapInv'
    OBVIOUS
<1>1. ASSUME NEW c \in Clients, Handler(c) PROVE TapInv'
    BY <1>1, RequestTap, TimeoutTap, TakeTap, GiveUpTap, EncodeTap DEF Handler
<1>2. CASE Capture \/ SeesRequest
    BY <1>2, PresentTap
<1>3. CASE Deliver
    BY <1>3, DeliverTap
<1>4. CASE UNCHANGED vars
    BY <1>4 DEF vars, TapInv, TypeOK, WaiterHolds, EncoderOwns, CopiesFresh, OneOwner
<1> QED BY <1>1, <1>2, <1>3, <1>4 DEF Next

\* The handoff keeps its types: the tap never holds the pointer of a copy it
\* has handed over.
THEOREM TapTyped == Spec => []TypeOK
<1>1. TapInv => TypeOK BY DEF TapInv
<1> QED BY InitTap, NextTap, <1>1, PTL DEF Spec

\* No interleaving of requests, timeouts and deliveries leaks a copy, frees it
\* twice or gives it to two handlers; only a handler that throws loses one.
THEOREM CopiesOwnedOnce == Spec => []OneOwner
<1>1. TapInv => OneOwner BY DEF TapInv
<1> QED BY InitTap, NextTap, <1>1, PTL DEF Spec

\* The present thread copies frames exactly while some handler waits.
THEOREM AskedOnlyWhileWaiting == Spec => []AskedWhileWaiting
<1>1. TapInv => AskedWhileWaiting
    BY TapAssumption DEF TapInv, TypeOK, WaiterHolds, AskedWhileWaiting
<1> QED BY InitTap, NextTap, <1>1, PTL DEF Spec

-----------------------------------------------------------------------------
(* The numbers of the registry's entries: a set of them has a least one.   *)

LEMMA LeastNat ==
    ASSUME NEW T \in SUBSET Nat, T # {}
    PROVE  \E x \in T : \A y \in T : x <= y
<1> DEFINE R == OpToRel(<, Nat)
<1>1. IsWellFoundedOn(R, Nat)
  BY NatLessThanWellFounded, Zenon
<1>2. \A x, y \in Nat : x < y => <<x, y>> \in R
  BY DEF OpToRel
<1> HIDE DEF R
<1>3. PICK x \in T : \A y \in T : ~(<<y, x>> \in R)
  BY <1>1, WFMin
<1>4. ASSUME NEW y \in T PROVE x <= y
  <2>1. x \in Nat /\ y \in Nat
    OBVIOUS
  <2>2. ~(y < x)
    BY <1>2, <1>3, <2>1, Zenon
  <2> QED  BY <2>1, <2>2
<1> QED  BY <1>4

-----------------------------------------------------------------------------
(* The bytes of a value.                                                   *)

LEMMA Divided ==
    ASSUME NEW v \in Nat, NEW n \in Nat \ {0}
    PROVE  /\ v \div n \in Nat /\ v % n \in 0 .. n - 1
           /\ v = (v \div n) * n + (v % n) /\ v \div n <= v
<1> DEFINE q == v \div n
           r == v % n
<1>1. q \in Nat /\ r \in 0 .. n - 1 /\ v = q * n + r
  OBVIOUS
<1> HIDE DEF q, r
<1>2. q * (n - 1) \in Nat /\ q * n = q * (n - 1) + q
  BY <1>1
<1>3. q <= v
  BY <1>1, <1>2
<1> QED  BY <1>1, <1>3 DEF q, r

LEMMA WeightPositive ==
    ASSUME NEW k \in 0 .. 3 PROVE Weight(k) \in Nat \ {0}
<1>1. ByteBase \in Nat \ {0}
  BY FreezeAssumption
<1>2. \A x, y \in Nat \ {0} : x * y \in Nat \ {0}
  OBVIOUS
<1>3. ByteBase * ByteBase \in Nat \ {0}
  BY <1>1, <1>2
<1>4. ByteBase * ByteBase * ByteBase \in Nat \ {0}
  BY <1>1, <1>2, <1>3
<1> DEFINE b == ByteBase * ByteBase
           c == ByteBase * ByteBase * ByteBase
<1>5. Weight(k) = <<1, ByteBase, b, c>>[k + 1]
  BY DEF Weight
<1>6. b \in Nat \ {0} /\ c \in Nat \ {0}
  BY <1>3, <1>4
<1> HIDE DEF b, c
<1>7. k = 0 \/ k = 1 \/ k = 2 \/ k = 3
  OBVIOUS
<1> QED  BY <1>1, <1>5, <1>6, <1>7

\* A byte of a value, with what is above and below it, makes up the value.
ByteOf(v, B, p, part) ==
    \E high \in 0 .. v, low \in 0 .. p - 1 : v = (high * B + part) * p + low

LEMMA ByteInValue ==
    ASSUME NEW v \in Nat, NEW B \in Nat \ {0}, NEW p \in Nat \ {0}
    PROVE  ByteOf(v, B, p, (v \div p) % B)
<1> DEFINE q == v \div p
           high == q \div B
           low == v % p
<1>1. q \in Nat /\ q <= v /\ low \in 0 .. p - 1 /\ v = q * p + low
  BY Divided
<1>2. high \in Nat /\ high <= q /\ q = high * B + (q % B)
  <2> HIDE DEF q
  <2> QED  BY <1>1, Divided
<1>3. high \in 0 .. v
  <2> HIDE DEF q, high
  <2> QED  BY <1>1, <1>2
<1>4. v = (high * B + (q % B)) * p + low
  <2> HIDE DEF high, low, q
  <2> QED  BY <1>1, <1>2
<1>5. (high * B + ((v \div p) % B)) * p + low = (high * B + (q % B)) * p + low
  OBVIOUS
<1> HIDE DEF high, low
<1> QED  BY <1>1, <1>3, <1>4, <1>5 DEF ByteOf

LEMMA ByteTyped ==
    ASSUME NEW e \in Entry, NEW k \in 0 .. 3
    PROVE  Byte(e, k) \in 0 .. ByteBase - 1
<1>1. e.value \in Nat /\ ByteBase \in Nat \ {0}
  BY FreezeAssumption DEF Entry
<1>2. Weight(k) \in Nat \ {0}
  BY WeightPositive
<1>3. e.value \div Weight(k) \in Nat
  BY <1>1, <1>2, Divided
<1> QED  BY <1>1, <1>3, Divided DEF Byte

-----------------------------------------------------------------------------
(* The registry.                                                           *)

LEMMA FindIs ==
    ASSUME NEW s \in Seq(Entry), NEW a
    PROVE  /\ Find(s, a) \in 0 .. Len(s)
           /\ Find(s, a) = 0 => \A i \in 1 .. Len(s) : s[i].address # a
           /\ Find(s, a) # 0 => s[Find(s, a)].address = a
<1> DEFINE I == {i \in 1 .. Len(s) : s[i].address = a}
<1>1. Find(s, a) = IF I # {} THEN Min(I) ELSE 0
  BY DEF Find, SelectInSeq
<1>2. CASE I = {}
  BY <1>1, <1>2
<1>3. CASE I # {}
  <2>1. I \in SUBSET Nat
    OBVIOUS
  <2>2. Min(I) \in I
    <3> HIDE DEF I
    <3>1. \E x \in I : \A y \in I : x <= y
      BY <1>3, <2>1, LeastNat
    <3> QED  BY <3>1 DEF Min
  <2>3. Find(s, a) = Min(I)
    BY <1>1, <1>3
  <2> DEFINE m == Min(I)
  <2>4. m \in 1 .. Len(s) /\ s[m].address = a /\ Find(s, a) = m
    BY <2>2, <2>3
  <2> HIDE DEF m, I
  <2> QED  BY <2>4
<1> QED  BY <1>2, <1>3

LEMMA SecondPart ==
    ASSUME NEW S, NEW t \in Seq(S), NEW u \in Seq(S),
           NEW j \in 1 .. Len(t) + Len(u), j > Len(t)
    PROVE  (t \o u)[j] = u[j - Len(t)]
OBVIOUS

LEMMA RemovedIs ==
    ASSUME NEW s \in Seq(Entry), NEW i \in DOMAIN s
    PROVE  /\ RemoveAt(s, i) \in Seq(Entry)
           /\ Len(RemoveAt(s, i)) = Len(s) - 1
           /\ \A j \in DOMAIN RemoveAt(s, i) :
                 RemoveAt(s, i)[j] = s[IF j < i THEN j ELSE j + 1]
<1> DEFINE t == SubSeq(s, 1, i - 1)
           u == SubSeq(s, i + 1, Len(s))
<1>1. /\ t \in Seq(Entry) /\ Len(t) = i - 1
      /\ \A j \in 1 .. i - 1 : t[j] = s[j]
  OBVIOUS
<1>2. /\ u \in Seq(Entry) /\ Len(u) = Len(s) - i
      /\ \A j \in 1 .. Len(s) - i : u[j] = s[i + j]
  OBVIOUS
<1>3. RemoveAt(s, i) = t \o u
  BY DEF RemoveAt
<1>4. i \in Nat /\ Len(s) \in Nat /\ i >= 1
  OBVIOUS
<1> HIDE DEF t, u
<1>5. /\ t \o u \in Seq(Entry) /\ Len(t \o u) = Len(s) - 1
      /\ DOMAIN (t \o u) = 1 .. Len(s) - 1
  BY <1>1, <1>2, <1>4
<1>6. ASSUME NEW j \in 1 .. Len(s) - 1
      PROVE  (t \o u)[j] = s[IF j < i THEN j ELSE j + 1]
  <2>1. CASE j < i
    BY <1>1, <1>2, <1>4, <2>1
  <2>2. CASE ~(j < i)
    <3>1. j - (i - 1) \in 1 .. Len(s) - i /\ i + (j - (i - 1)) = j + 1
      BY <1>4, <2>2
    <3>2. j \in 1 .. Len(t) + Len(u) /\ j > Len(t)
      BY <1>1, <1>2, <1>4, <2>2
    <3>3. (t \o u)[j] = u[j - Len(t)]
      BY <1>1, <1>2, <3>2, SecondPart
    <3> QED  BY <1>1, <1>2, <2>2, <3>1, <3>3
  <2> QED  BY <2>1, <2>2
<1> QED  BY <1>3, <1>5, <1>6

\* No address is frozen twice.
FrozenOnce ==
    \A i, j \in DOMAIN entries : entries[i].address = entries[j].address => i = j

RegistryGood(s) == s \in Seq(Entry) /\ Len(s) <= MaxEntries

LEMMA RegistryKept ==
    ASSUME RegistryGood(entries), FrozenOnce, [FreezeNext]_freezeVars
    PROVE  RegistryGood(entries)' /\ FrozenOnce'
<1> USE DEF RegistryGood, FrozenOnce
<1>0. MaxEntries \in Nat
  BY FreezeAssumption
<1>1. ASSUME NEW a \in Addresses, NEW v \in Values, NEW w \in Widths, Post(a, v, w)
      PROVE  RegistryGood(entries)' /\ FrozenOnce'
  <2> DEFINE e == [address |-> a, value |-> v, width |-> w]
             i == Find(entries, a)
  <2>1. e \in Entry /\ e.address = a
    BY DEF Entry
  <2>2. /\ i \in 0 .. Len(entries)
        /\ i = 0 => \A k \in 1 .. Len(entries) : entries[k].address # a
        /\ i # 0 => entries[i].address = a
    BY FindIs
  <2>3. \/ i # 0 /\ entries' = [entries EXCEPT ![i] = e]
        \/ i = 0 /\ Room(entries) /\ entries' = Append(entries, e)
    BY <1>1, <2>1 DEF Post, Add
  <2> HIDE DEF e, i
  <2>4. CASE i # 0 /\ entries' = [entries EXCEPT ![i] = e]
    <3>1. i \in 1 .. Len(entries)
      BY <2>2, <2>4
    <3>2. entries' \in Seq(Entry) /\ Len(entries') = Len(entries)
          /\ DOMAIN entries' = DOMAIN entries
      BY <2>1, <2>4, <3>1
    <3>3. \A k \in DOMAIN entries : entries'[k].address = entries[k].address
      BY <2>1, <2>2, <2>4, <3>1
    <3> QED  BY <3>2, <3>3
  <2>5. CASE i = 0 /\ Room(entries) /\ entries' = Append(entries, e)
    <3>1. Len(entries) < MaxEntries
      BY <2>5 DEF Room
    <3>2. entries' \in Seq(Entry) /\ Len(entries') = Len(entries) + 1
      BY <2>1, <2>5
    <3>3. \A k \in 1 .. Len(entries) : entries'[k] = entries[k]
      BY <2>1, <2>5
    <3>4. entries'[Len(entries) + 1] = e
      BY <2>1, <2>5
    <3>5. DOMAIN entries' = 1 .. Len(entries) + 1 /\ DOMAIN entries = 1 .. Len(entries)
      BY <3>2
    <3>6. ASSUME NEW j \in DOMAIN entries', NEW k \in DOMAIN entries',
                 entries'[j].address = entries'[k].address
          PROVE  j = k
      <4>1. \A l \in 1 .. Len(entries) : entries'[l].address # a
        BY <2>2, <2>5, <3>3
      <4>2. entries'[Len(entries) + 1].address = a
        BY <2>1, <3>4
      <4>3. (j \in 1 .. Len(entries) \/ j = Len(entries) + 1)
            /\ (k \in 1 .. Len(entries) \/ k = Len(entries) + 1)
        BY <3>5
      <4>4. CASE j \in 1 .. Len(entries) /\ k \in 1 .. Len(entries)
        <5>1. entries[j].address = entries[k].address
          BY <3>3, <3>6, <4>4
        <5> QED  BY <3>5, <4>4, <5>1
      <4> QED  BY <3>6, <4>1, <4>2, <4>3, <4>4
    <3>7. Len(entries') <= MaxEntries
      BY <1>0, <3>1, <3>2
    <3> QED  BY <3>2, <3>6, <3>7
  <2> QED  BY <2>3, <2>4, <2>5
<1>2. ASSUME NEW a \in Addresses, Delete(a)
      PROVE  RegistryGood(entries)' /\ FrozenOnce'
  <2>1. PICK i \in DOMAIN entries : entries' = RemoveAt(entries, i)
    BY <1>2 DEF Delete, RemoveFreeze
  <2>2. /\ entries' \in Seq(Entry) /\ Len(entries') = Len(entries) - 1
        /\ \A j \in DOMAIN entries' : entries'[j] = entries[IF j < i THEN j ELSE j + 1]
    BY <2>1, RemovedIs
  <2>3. DOMAIN entries' = 1 .. Len(entries) - 1 /\ DOMAIN entries = 1 .. Len(entries)
    BY <2>2
  <2>4. ASSUME NEW j \in DOMAIN entries', NEW k \in DOMAIN entries',
               entries'[j].address = entries'[k].address
        PROVE  j = k
    <3> DEFINE at(l) == IF l < i THEN l ELSE l + 1
    <3>1. \A l \in DOMAIN entries' : at(l) \in DOMAIN entries /\ entries'[l] = entries[at(l)]
      BY <2>2, <2>3
    <3>2. at(j) = at(k)
      <4> HIDE DEF at
      <4> QED  BY <2>4, <3>1
    <3> QED  BY <2>3, <3>2
  <2> QED  BY <1>0, <2>2, <2>4
<1>3. CASE Clear
  <2>1. entries' = <<>>
    BY <1>3 DEF Clear
  <2> QED  BY <1>0, <2>1
<1>4. CASE entries' = entries
  BY <1>4
<1> QED  BY <1>1, <1>2, <1>3, <1>4
            DEF FreezeNext, GuestWrites, GuestRemaps, GuestRuns, FrameEnds, WriteByte, PageFault,
                ApplyReturns, freezeVars

-----------------------------------------------------------------------------
(* Memory.                                                                 *)

\* Byte k of the copy's entry i has been written.
Done(i, k) == i < next \/ (i = next /\ k < byte)

Bytes(i) == 0 .. snapshot[i].width - 1

\* Unless the guest ran meanwhile, the last byte of the copy that was written
\* to an address is there.
Written ==
    ~faulted =>
        \A i \in DOMAIN snapshot : \A k \in Bytes(i) :
            /\ Done(i, k) /\ At(i, k) \in Stored
            /\ \A j \in DOMAIN snapshot : \A l \in Bytes(j) :
                  Done(j, l) /\ Later(j, l, i, k) => At(j, l) # At(i, k)
            => mem[At(i, k)] = Byte(snapshot[i], k)

CopyGood ==
    /\ RegistryGood(snapshot)
    /\ next \in 1 .. Len(snapshot) + 1
    /\ byte \in 0 .. 3
    /\ next <= Len(snapshot) => byte < snapshot[next].width
    /\ phase \in {"guest", "apply", "applied"}
    /\ phase = "applied" => next = Len(snapshot) + 1
    /\ faulted \in BOOLEAN /\ map \in Mappings
    /\ mem \in [0 .. MemTotal - 1 -> 0 .. ByteBase - 1]

FreezeInv == RegistryGood(entries) /\ FrozenOnce /\ CopyGood /\ Written

LEMMA EmptyGood == RegistryGood(<<>>)
BY FreezeAssumption DEF RegistryGood

LEMMA InitFreeze == FreezeInit => FreezeInv
<1> SUFFICES ASSUME FreezeInit PROVE FreezeInv
  OBVIOUS
<1>1. RegistryGood(entries) /\ RegistryGood(snapshot)
  BY EmptyGood DEF FreezeInit
<1>2. FrozenOnce /\ Written
  BY DEF FreezeInit, FrozenOnce, Written
<1>3. 0 \in 0 .. ByteBase - 1
  BY FreezeAssumption
<1>4. CopyGood
  <2>1. Len(snapshot) = 0
    BY DEF FreezeInit
  <2>2. next \in 1 .. Len(snapshot) + 1 /\ ~(next <= Len(snapshot)) /\ byte \in 0 .. 3
    BY <2>1 DEF FreezeInit
  <2>3. mem \in [0 .. MemTotal - 1 -> 0 .. ByteBase - 1]
    BY <1>3 DEF FreezeInit
  <2> QED  BY <1>1, <2>2, <2>3 DEF FreezeInit, CopyGood
<1> QED  BY <1>1, <1>2, <1>4 DEF FreezeInv

LEMMA EntryWidth ==
    ASSUME NEW s \in Seq(Entry), NEW i \in 1 .. Len(s)
    PROVE  s[i] \in Entry /\ s[i].width \in 1 .. 4
<1>1. s[i] \in Entry
  OBVIOUS
<1> QED  BY <1>1 DEF Entry, Widths

\* The call begins, or is over and the guest runs: nothing is written yet.
LEMMA CallBegins ==
    ASSUME FreezeInv, RegistryGood(snapshot'), next' = 1, byte' = 0, faulted' = FALSE,
           phase' \in {"guest", "apply"}, map' \in Mappings,
           mem' \in [0 .. MemTotal - 1 -> 0 .. ByteBase - 1]
    PROVE  CopyGood' /\ Written'
<1>1. Len(snapshot') \in Nat
  BY DEF RegistryGood
<1>2. Len(snapshot') >= 1 => 0 < snapshot'[1].width
  <2>1. ASSUME Len(snapshot') >= 1 PROVE 0 < snapshot'[1].width
    <3>1. 1 \in 1 .. Len(snapshot')
      BY <1>1, <2>1
    <3>2. snapshot'[1].width \in 1 .. 4
      BY <3>1, EntryWidth DEF RegistryGood
    <3> QED  BY <3>2
  <2> QED  BY <2>1
<1>3. CopyGood'
  <2>1. 1 \in 1 .. Len(snapshot') + 1
    BY <1>1
  <2>2. next' <= Len(snapshot') => byte' < snapshot'[next'].width
    BY <1>1, <1>2
  <2>3. byte' \in 0 .. 3 /\ next' \in 1 .. Len(snapshot') + 1
    BY <2>1
  <2> QED  BY <2>2, <2>3 DEF CopyGood, RegistryGood
<1>4. ASSUME NEW i \in DOMAIN snapshot', NEW k \in Bytes(i)' PROVE ~Done(i, k)'
  <2>1. i \in 1 .. Len(snapshot')
    BY DEF RegistryGood
  <2>2. k >= 0
    BY DEF Bytes
  <2> QED  BY <2>1, <2>2 DEF Done, Bytes
<1>5. Written'
  BY <1>4 DEF Written
<1> QED  BY <1>3, <1>5

LEMMA ByteWritten ==
    ASSUME FreezeInv, WriteByte PROVE CopyGood' /\ Written'
<1> DEFINE e == snapshot[next]
           here == At(next, byte)
           last == byte + 1 >= e.width
<1> USE DEF FreezeInv
<1>1. /\ phase = "apply" /\ phase' = "apply" /\ next \in 1 .. Len(snapshot)
      /\ UNCHANGED <<map, snapshot, faulted>>
      /\ snapshot \in Seq(Entry) /\ Len(snapshot) <= MaxEntries
      /\ byte \in 0 .. 3 /\ byte < e.width /\ map \in Mappings /\ faulted \in BOOLEAN
  BY DEF WriteByte, Applied, CopyGood, RegistryGood
<1>2. /\ mem' = [p \in DOMAIN mem |->
                    IF p \in Stored /\ p = here THEN Byte(e, byte) ELSE mem[p]]
      /\ next' = IF last THEN next + 1 ELSE next
      /\ byte' = IF last THEN 0 ELSE byte + 1
  BY DEF WriteByte, Applied, At
<1>3. e \in Entry /\ e.width \in 1 .. 4 /\ next \in Nat
  BY <1>1, EntryWidth
<1>4. DOMAIN mem = 0 .. MemTotal - 1 /\ mem \in [0 .. MemTotal - 1 -> 0 .. ByteBase - 1]
  BY DEF CopyGood
<1>5. \A i, k : At(i, k)' = At(i, k)
  BY <1>1 DEF At, Physical
<1> HIDE DEF e, here
<1>6. CopyGood'
  <2>1. Byte(e, byte) \in 0 .. ByteBase - 1
    BY <1>1, <1>3, ByteTyped
  <2>2. mem' \in [0 .. MemTotal - 1 -> 0 .. ByteBase - 1]
    BY <1>2, <1>4, <2>1
  <2>3. next' \in 1 .. Len(snapshot) + 1 /\ byte' \in 0 .. 3
    BY <1>1, <1>2, <1>3
  <2>4. next' <= Len(snapshot) => byte' < snapshot[next'].width
    <3>1. CASE last
      <4>1. ASSUME next' <= Len(snapshot) PROVE byte' < snapshot[next'].width
        <5>1. next' \in 1 .. Len(snapshot)
          BY <2>3, <4>1
        <5>2. snapshot[next'].width \in 1 .. 4
          BY <1>1, <5>1, EntryWidth
        <5> QED  BY <1>2, <3>1, <5>2
      <4> QED  BY <4>1
    <3>2. CASE ~last
      <4>1. byte' = byte + 1 /\ next' = next
        BY <1>2, <3>2
      <4>2. byte + 1 < e.width
        BY <1>1, <1>3, <3>2
      <4> QED  BY <4>1, <4>2 DEF e
    <3> QED  BY <3>1, <3>2
  <2> QED  BY <1>1, <2>2, <2>3, <2>4 DEF CopyGood, RegistryGood
<1>7. \A i \in DOMAIN snapshot : \A k \in Bytes(i) :
          Done(i, k)' <=> Done(i, k) \/ (i = next /\ k = byte)
  <2> SUFFICES ASSUME NEW i \in DOMAIN snapshot, NEW k \in Bytes(i)
               PROVE  Done(i, k)' <=> Done(i, k) \/ (i = next /\ k = byte)
    OBVIOUS
  <2>1. i \in 1 .. Len(snapshot) /\ k \in Nat /\ k < snapshot[i].width
        /\ snapshot[i].width \in 1 .. 4 /\ Len(snapshot) \in Nat
    <3>1. i \in 1 .. Len(snapshot) /\ Len(snapshot) \in Nat
      BY <1>1
    <3>2. snapshot[i].width \in 1 .. 4
      BY <1>1, <3>1, EntryWidth
    <3> QED  BY <3>1, <3>2 DEF Bytes
  <2>2. i = next => k < e.width
    BY <2>1 DEF e
  <2>3. i \in Nat /\ byte \in Nat
    BY <1>1, <2>1
  <2> HIDE DEF e
  <2>4. CASE last
    <3>1. next' = next + 1 /\ byte' = 0 /\ byte + 1 >= e.width
      BY <1>2, <2>4
    <3> QED  BY <1>1, <1>3, <2>1, <2>2, <2>3, <3>1 DEF Done
  <2>5. CASE ~last
    <3>1. next' = next /\ byte' = byte + 1
      BY <1>2, <2>5
    <3> QED  BY <1>1, <1>3, <2>1, <2>2, <2>3, <3>1 DEF Done
  <2> QED  BY <2>4, <2>5
<1>8. \A i \in DOMAIN snapshot : \A k \in Bytes(i) :
          Done(i, k) => Later(next, byte, i, k)
  <2> SUFFICES ASSUME NEW i \in DOMAIN snapshot, NEW k \in Bytes(i), Done(i, k)
               PROVE  Later(next, byte, i, k)
    OBVIOUS
  <2>1. i \in Nat /\ k \in Int /\ byte \in Nat
    BY <1>1 DEF Bytes
  <2> QED  BY <1>3, <2>1 DEF Done, Later
<1>9. next \in DOMAIN snapshot /\ byte \in Bytes(next)
  BY <1>1, <1>3 DEF Bytes, e
<1>10. ASSUME ~faulted, NEW i \in DOMAIN snapshot, NEW k \in Bytes(i),
              Done(i, k)', At(i, k) \in Stored,
              \A j \in DOMAIN snapshot : \A l \in Bytes(j) :
                  Done(j, l)' /\ Later(j, l, i, k) => At(j, l) # At(i, k)
       PROVE  mem'[At(i, k)] = Byte(snapshot[i], k)
  <2>1. At(i, k) \in DOMAIN mem
    BY <1>4, <1>10 DEF Stored
  <2>2. CASE i = next /\ k = byte
    <3>1. At(i, k) = here
      BY <2>2 DEF here
    <3> QED  BY <1>2, <1>10, <2>1, <2>2, <3>1 DEF e
  <2>3. CASE ~(i = next /\ k = byte)
    <3>1. Done(i, k)
      BY <1>7, <1>10, <2>3
    <3>2. PICK n \in DOMAIN snapshot : n = next
      BY <1>9
    <3>3. PICK b \in Bytes(n) : b = byte
      BY <1>9, <3>2
    <3>4. Done(n, b)'
      BY <1>7, <3>2, <3>3, Zenon
    <3>5. Later(n, b, i, k)
      BY <1>8, <3>1, <3>2, <3>3
    <3>6. At(n, b) # At(i, k)
      BY <1>10, <3>4, <3>5, Zenon
    <3>7. At(i, k) # here
      BY <3>2, <3>3, <3>6 DEF here
    <3>8. mem'[At(i, k)] = mem[At(i, k)]
      BY <1>2, <2>1, <3>7
    <3>9. \A j \in DOMAIN snapshot : \A l \in Bytes(j) :
              Done(j, l) /\ Later(j, l, i, k) => At(j, l) # At(i, k)
      BY <1>7, <1>10
    <3> QED  BY <1>10, <3>1, <3>8, <3>9 DEF Written
  <2> QED  BY <2>2, <2>3
<1>11. Written'
  <2>1. \A i : Bytes(i)' = Bytes(i)
    BY <1>1 DEF Bytes
  <2>2. snapshot' = snapshot /\ faulted' = faulted
    BY <1>1
  <2>3. \A i, k : Byte(snapshot'[i], k) = Byte(snapshot[i], k)
    BY <2>2
  <2> QED  BY <1>5, <1>10, <2>1, <2>2, <2>3 DEF Written
<1> QED  BY <1>6, <1>11

LEMMA NextFreeze == FreezeInv /\ [FreezeNext]_freezeVars => FreezeInv'
<1> SUFFICES ASSUME FreezeInv, [FreezeNext]_freezeVars PROVE CopyGood' /\ Written'
  BY RegistryKept DEF FreezeInv
<1> USE DEF FreezeInv
<1>1. CASE UNCHANGED <<mem, map, call>>
  BY <1>1 DEF CopyGood, Written, RegistryGood, call, Done, Bytes, At, Physical
<1>2. ASSUME NEW a \in Stored, NEW b \in 0 .. ByteBase - 1, GuestWrites(a, b)
      PROVE  CopyGood' /\ Written'
  <2>1. mem' \in [0 .. MemTotal - 1 -> 0 .. ByteBase - 1] /\ map' \in Mappings
    BY <1>2 DEF GuestWrites, CopyGood
  <2> QED  BY <1>2, <2>1, EmptyGood, CallBegins DEF GuestWrites, GuestRuns
<1>3. ASSUME NEW m \in Mappings, GuestRemaps(m)
      PROVE  CopyGood' /\ Written'
  <2>1. mem' \in [0 .. MemTotal - 1 -> 0 .. ByteBase - 1] /\ map' \in Mappings
    BY <1>3 DEF GuestRemaps, CopyGood
  <2> QED  BY <1>3, <2>1, EmptyGood, CallBegins DEF GuestRemaps, GuestRuns
<1>4. CASE FrameEnds
  <2>1. mem' \in [0 .. MemTotal - 1 -> 0 .. ByteBase - 1] /\ map' \in Mappings
    BY <1>4 DEF FrameEnds, CopyGood
  <2> QED  BY <1>4, <2>1, CallBegins DEF FrameEnds
<1>5. CASE WriteByte
  BY <1>5, ByteWritten
<1>6. CASE PageFault
  <2>1. /\ UNCHANGED <<phase, snapshot, next, byte>> /\ map' \in Mappings /\ faulted' = TRUE
    BY <1>6 DEF PageFault
  <2>2. PICK ram \in [Stored -> 0 .. ByteBase - 1] :
            mem' = [p \in DOMAIN mem |-> IF p \in Stored THEN ram[p] ELSE mem[p]]
    BY <1>6 DEF PageFault
  <2>3. mem' \in [0 .. MemTotal - 1 -> 0 .. ByteBase - 1]
    BY <2>2 DEF CopyGood
  <2> QED  BY <2>1, <2>3 DEF CopyGood, Written, RegistryGood
<1>7. CASE ApplyReturns
  <2>0. next \in 1 .. Len(snapshot) + 1 /\ next > Len(snapshot) /\ Len(snapshot) \in Nat
    BY <1>7 DEF ApplyReturns, Applied, CopyGood, RegistryGood
  <2>1. next = Len(snapshot) + 1
    BY <2>0
  <2>2. CopyGood'
    BY <1>7, <2>1 DEF ApplyReturns, CopyGood, RegistryGood
  <2>3. Written'
    BY <1>7 DEF ApplyReturns, Written, Done, Bytes, At, Physical
  <2> QED  BY <2>2, <2>3
<1> QED  BY <1>1, <1>2, <1>3, <1>4, <1>5, <1>6, <1>7
            DEF FreezeNext, Post, Delete, Clear, freezeVars

LEMMA InvIsFrozen == FreezeInv => FrozenHolds
<1> SUFFICES ASSUME FreezeInv, phase = "applied", ~faulted,
                    NEW i \in DOMAIN snapshot, NEW k \in 0 .. snapshot[i].width - 1,
                    At(i, k) \in Stored, ~Overwritten(i, k)
             PROVE  \E high \in 0 .. snapshot[i].value, low \in 0 .. Weight(k) - 1 :
                        snapshot[i].value
                            = (high * ByteBase + mem[At(i, k)]) * Weight(k) + low
  BY DEF FrozenHolds
<1> DEFINE e == snapshot[i]
           here == mem[At(i, k)]
<1>1. snapshot \in Seq(Entry) /\ i \in 1 .. Len(snapshot) /\ next = Len(snapshot) + 1
  BY DEF FreezeInv, CopyGood, RegistryGood
<1>2. e \in Entry /\ e.width \in 1 .. 4
  BY <1>1, EntryWidth
<1>3. \A j \in DOMAIN snapshot : \A l : Done(j, l)
  BY <1>1 DEF Done
<1>4. here = Byte(e, k)
  BY <1>3 DEF FreezeInv, Written, Overwritten, Bytes
<1> HIDE DEF e, here
<1>5. k \in 0 .. 3
  BY <1>2 DEF e
<1>6. e.value \in Nat /\ ByteBase \in Nat \ {0}
  BY <1>2, FreezeAssumption DEF Entry
<1>7. Weight(k) \in Nat \ {0}
  BY <1>5, WeightPositive
<1>8. here = (e.value \div Weight(k)) % ByteBase
  BY <1>4 DEF Byte
<1> DEFINE v == e.value
           w == Weight(k)
<1>9. v \in Nat /\ w \in Nat \ {0} /\ here = (v \div w) % ByteBase
  BY <1>6, <1>7, <1>8
<1> HIDE DEF v, w
<1>10. ByteOf(v, ByteBase, w, here)
  BY <1>6, <1>9, ByteInValue
<1> QED  BY <1>10, Zenon DEF e, here, v, w, ByteOf

\* Whenever ApplyFreezes returns without a page fault on the way, the guest
\* finds the bytes of every entry of the registry as it was at the end of the
\* frame, except where a later one went to the same memory or the page does
\* not store: whatever clients did to the registry meanwhile, for any mapping
\* of the pages and every number and width of entries, also those that overlap
\* or reach beyond the end of memory or of the address space.
THEOREM FreezesAlwaysHold == FreezeSpec => []FrozenHolds
BY InitFreeze, NextFreeze, InvIsFrozen, PTL DEF FreezeSpec

\* No sequence of requests freezes an address twice: a POST changes the entry
\* that is there, so one DELETE is enough to end a freeze.
THEOREM AddressFrozenOnce == FreezeSpec => []FrozenOnce
<1>1. FreezeInv => FrozenOnce
  BY DEF FreezeInv
<1> QED  BY InitFreeze, NextFreeze, <1>1, PTL DEF FreezeSpec
=============================================================================
