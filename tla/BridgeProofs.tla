---------------------------- MODULE BridgeProofs ----------------------------
(***************************************************************************)
(* Safety of the webserver bridge for any number of handler threads.       *)
(***************************************************************************)
EXTENDS Bridge, SequenceTheorems, TLAPS

\* Erasing the first occurrence of an element leaves a sequence one shorter
\* whose entries are the other entries, in their old order.
LEMMA RemoveFirstProperties ==
  ASSUME NEW S, NEW q \in Seq(S), NEW e \in S,
         NEW k \in 1 .. Len(q), q[k] = e,
         \A i, j \in 1 .. Len(q) : q[i] = q[j] => i = j
  PROVE  /\ RemoveFirst(q, e) \in Seq(S)
         /\ Len(RemoveFirst(q, e)) = Len(q) - 1
         /\ \A i \in 1 .. Len(q) - 1 :
              RemoveFirst(q, e)[i] = IF i < k THEN q[i] ELSE q[i + 1]
<1>1. SelectInSeq(q, LAMBDA v : v = e) = k
  <2> DEFINE I == {i \in 1 .. Len(q) : q[i] = e}
  <2>1. I = {k}
    OBVIOUS
  <2>2. Max(I) = k /\ Min(I) = k
    BY <2>1 DEF Max, Min
  <2> QED  BY <2>1, <2>2 DEF SelectInSeq
<1>2. RemoveFirst(q, e) = RemoveAt(q, k)
  BY <1>1 DEF RemoveFirst
<1> DEFINE a == SubSeq(q, 1, k - 1)
           b == SubSeq(q, k + 1, Len(q))
<1>3. /\ a \in Seq(S) /\ Len(a) = k - 1
      /\ \A i \in 1 .. k - 1 : a[i] = q[i]
  BY SubSeqProperties
<1>4. /\ b \in Seq(S) /\ Len(b) = Len(q) - k
      /\ \A i \in 1 .. Len(q) - k : b[i] = q[k + i]
  BY SubSeqProperties
<1>5. RemoveFirst(q, e) = a \o b
  BY <1>2 DEF RemoveAt
<1> HIDE DEF a, b
<1>6. /\ a \o b \in Seq(S)
      /\ Len(a \o b) = Len(a) + Len(b)
      /\ \A i \in 1 .. Len(a) + Len(b) :
           (a \o b)[i] = IF i <= Len(a) THEN a[i] ELSE b[i - Len(a)]
  <2>1. a \in Seq(S) /\ b \in Seq(S)
    BY <1>3, <1>4
  <2> QED  BY ONLY <2>1, ConcatProperties
<1>7. ASSUME NEW i \in 1 .. Len(q) - 1
      PROVE  (a \o b)[i] = IF i < k THEN q[i] ELSE q[i + 1]
  <2>1. CASE i < k
    BY <2>1, <1>3, <1>4, <1>6
  <2>2. CASE ~(i < k)
    <3>1. i - Len(a) \in 1 .. Len(q) - k /\ k + (i - Len(a)) = i + 1
      BY <2>2, <1>3
    <3>2. b[i - Len(a)] = q[i + 1]
      BY <3>1, <1>4
    <3>3. (a \o b)[i] = b[i - Len(a)]
      BY <2>2, <1>3, <1>4, <1>6
    <3> QED  BY <2>2, <3>2, <3>3
  <2> QED  BY <2>1, <2>2
<1> QED  BY <1>3, <1>4, <1>5, <1>6, <1>7

\* So no entry is lost but the erased one, and none appears twice.
LEMMA RemoveFirstKeeps ==
  ASSUME NEW S, NEW q \in Seq(S), NEW e \in S,
         NEW k \in 1 .. Len(q), q[k] = e,
         \A i, j \in 1 .. Len(q) : q[i] = q[j] => i = j
  PROVE  LET r == RemoveFirst(q, e) IN
         /\ r \in Seq(S)
         /\ Len(r) = Len(q) - 1
         /\ \A i, j \in 1 .. Len(r) : r[i] = r[j] => i = j
         /\ \A i \in 1 .. Len(r) :
              r[i] # e /\ \E j \in 1 .. Len(q) : r[i] = q[j]
         /\ \A j \in 1 .. Len(q) :
              q[j] # e => \E i \in 1 .. Len(r) : r[i] = q[j]
<1> DEFINE r == RemoveFirst(q, e)
           n == Len(q)
           old(i) == IF i < k THEN i ELSE i + 1
<1>1. n \in Nat /\ k \in 1 .. n
  OBVIOUS
<1>2. r \in Seq(S) /\ Len(r) = n - 1 /\ \A i \in 1 .. n - 1 : r[i] = q[old(i)]
  <2>1. r \in Seq(S) /\ Len(r) = n - 1
    BY RemoveFirstProperties
  <2>2. \A i \in 1 .. n - 1 : r[i] = IF i < k THEN q[i] ELSE q[i + 1]
    BY RemoveFirstProperties
  <2> HIDE DEF n, r
  <2> QED  BY <2>1, <2>2
<1> HIDE DEF n, r
<1>3. \A i \in 1 .. n - 1 : old(i) \in 1 .. n /\ old(i) # k
  BY <1>1
<1>4. \A i, j \in 1 .. n - 1 : old(i) = old(j) => i = j
  BY <1>1
<1>5. \A j \in 1 .. n : j # k => \E i \in 1 .. n - 1 : old(i) = j
  <2> SUFFICES ASSUME NEW j \in 1 .. n, j # k
               PROVE  \E i \in 1 .. n - 1 : old(i) = j
    OBVIOUS
  <2>1. CASE j < k
    <3>1. j \in 1 .. n - 1 /\ old(j) = j
      BY <1>1, <2>1
    <3> QED  BY <3>1
  <2>2. CASE j > k
    <3>1. j - 1 \in 1 .. n - 1 /\ old(j - 1) = j
      BY <1>1, <2>2
    <3> QED  BY <3>1
  <2> QED  BY <1>1, <2>1, <2>2
<1> HIDE DEF old
<1>6. \A i, j \in 1 .. n : q[i] = q[j] => i = j
  BY DEF n
<1>7. \A i, j \in 1 .. n - 1 : r[i] = r[j] => i = j
  BY <1>2, <1>3, <1>4, <1>6
<1>8. \A i \in 1 .. n - 1 : r[i] # e /\ \E j \in 1 .. n : r[i] = q[j]
  BY <1>1, <1>2, <1>3, <1>6
<1>9. \A j \in 1 .. n : q[j] # e => \E i \in 1 .. n - 1 : r[i] = q[j]
  BY <1>2, <1>5
<1> QED  BY <1>2, <1>7, <1>8, <1>9 DEF n, r

-----------------------------------------------------------------------------
(* The inductive invariant.  NoDanglingCommand alone is not inductive: the *)
(* erase of a timed out command removes every pointer to it only because   *)
(* no pointer is queued twice, and the answer is the truth only because    *)
(* done, runs and the progress of the drain agree.                         *)

\* No command is queued twice.
QueuedOnce ==
    \A i, j \in 1 .. Len(queue) : queue[i] = queue[j] => i = j

\* During a drain exactly the commands before the drain index are done;
\* outside a drain no queued command is.
DoneIsDrained ==
    \A i \in 1 .. Len(queue) : done[queue[i]] <=> i < drain

\* A waiting command that is not done is still on the queue.
UndoneIsQueued ==
    \A h \in Handlers : InCall(h) /\ ~done[h] =>
        \E i \in 1 .. Len(queue) : queue[i] = h

\* The done flag counts the executions of the command of a waiting thread.
DoneCountsRuns ==
    \A h \in Handlers :
        /\ pc[h] = "called" => runs[h] = 0
        /\ InCall(h) => runs[h] = IF done[h] THEN 1 ELSE 0

IInv ==
    /\ TypeOK
    /\ QueuedOnce
    /\ NoDanglingCommand
    /\ DoneIsDrained
    /\ UndoneIsQueued
    /\ DoneCountsRuns
    /\ AnswerIsTruth

USE DEF PCs, MutexFree, InCall

\* Initially nothing is queued and no command exists.
LEMMA InitIInv == Init => IInv
BY DEF Init, IInv, TypeOK, QueuedOnce, NoDanglingCommand, DoneIsDrained,
       UndoneIsQueued, DoneCountsRuns, AnswerIsTruth

\* Every step of the handlers and of the emulation thread keeps it.
LEMMA NextIInv == IInv /\ [Next]_vars => IInv'
<1> SUFFICES ASSUME IInv, [Next]_vars
             PROVE  IInv'
  OBVIOUS
<1> USE DEF IInv
<1>1. ASSUME NEW h \in Handlers, WaitForCompletion(h)
      PROVE  IInv'
  BY <1>1 DEF WaitForCompletion, TypeOK, QueuedOnce, NoDanglingCommand,
     DoneIsDrained, UndoneIsQueued, DoneCountsRuns, AnswerIsTruth
<1>2. ASSUME NEW h \in Handlers, ExecuteCommand(h)
      PROVE  IInv'
  <2>1. /\ queue' \in Seq(Handlers) /\ Len(queue') = Len(queue) + 1
        /\ queue'[Len(queue) + 1] = h
        /\ \A i \in 1 .. Len(queue) : queue'[i] = queue[i]
    BY <1>2, AppendProperties DEF ExecuteCommand, TypeOK
  <2>2. TypeOK'
    BY <1>2, <2>1 DEF ExecuteCommand, TypeOK
  <2>3. QueuedOnce'
    <3>1. \A i \in 1 .. Len(queue) : queue[i] # h
      BY <1>2 DEF ExecuteCommand, NoDanglingCommand
    <3> DEFINE n == Len(queue)
    <3>2. n \in Nat /\ Len(queue') = n + 1
      BY <2>1 DEF TypeOK
    <3>3. \A i, j \in 1 .. n : queue[i] = queue[j] => i = j
      BY DEF QueuedOnce
    <3>4. \A i, j \in 1 .. n + 1 : queue'[i] = queue'[j] => i = j
      <4> HIDE DEF n
      <4>1. \A i \in 1 .. n + 1 : i \in 1 .. n \/ i = n + 1
        BY <3>2
      <4>2. /\ queue'[n + 1] = h
            /\ \A i \in 1 .. n : queue'[i] = queue[i] /\ queue[i] # h
        BY <2>1, <3>1 DEF n
      <4> QED  BY <3>3, <4>1, <4>2
    <3> QED  BY <3>2, <3>4 DEF QueuedOnce
  <2>4. NoDanglingCommand'
    BY <1>2, <2>1 DEF ExecuteCommand, TypeOK, NoDanglingCommand
  <2>5. DoneIsDrained'
    BY <1>2, <2>1 DEF ExecuteCommand, TypeOK, DoneIsDrained, NoDanglingCommand
  <2>6. UndoneIsQueued'
    BY <1>2, <2>1 DEF ExecuteCommand, TypeOK, UndoneIsQueued
  <2>7. DoneCountsRuns' /\ AnswerIsTruth'
    BY <1>2 DEF ExecuteCommand, TypeOK, DoneCountsRuns, AnswerIsTruth
  <2> QED  BY <2>2, <2>3, <2>4, <2>5, <2>6, <2>7
<1>3. ASSUME NEW h \in Handlers, Expire(h)
      PROVE  IInv'
  BY <1>3 DEF Expire, TypeOK, QueuedOnce, NoDanglingCommand,
     DoneIsDrained, UndoneIsQueued, DoneCountsRuns, AnswerIsTruth
<1>4. ASSUME NEW h \in Handlers, SpuriousWakeup(h)
      PROVE  IInv'
  BY <1>4 DEF SpuriousWakeup, TypeOK, QueuedOnce, NoDanglingCommand,
     DoneIsDrained, UndoneIsQueued, DoneCountsRuns, AnswerIsTruth
<1>5. ASSUME NEW h \in Handlers, Reacquire(h)
      PROVE  IInv'
  <2>1. CASE Completed(h) \/ pc[h] = "notified"
    <3>1. UNCHANGED <<queue, done, drain, runs>> /\ InCall(h)
      BY <1>5, <2>1 DEF Reacquire
    <3>2. PICK x \in {"ok", "waiting"} :
            pc' = [pc EXCEPT ![h] = x] /\ (x = "ok" <=> done[h])
      BY <1>5, <2>1 DEF Reacquire, Completed
    <3>3. TypeOK' /\ QueuedOnce' /\ DoneIsDrained' /\ UndoneIsQueued'
      BY <3>1, <3>2 DEF TypeOK, QueuedOnce, DoneIsDrained, UndoneIsQueued
    <3>4. NoDanglingCommand'
      <4>1. done[h] => \A i \in 1 .. Len(queue) : queue[i] # h
        BY <1>5 DEF Reacquire, DoneIsDrained
      <4> QED  BY <3>1, <3>2, <4>1 DEF TypeOK, NoDanglingCommand
    <3>5. DoneCountsRuns' /\ AnswerIsTruth'
      BY <3>1, <3>2 DEF TypeOK, DoneCountsRuns, AnswerIsTruth
    <3> QED  BY <3>3, <3>4, <3>5
  <2>2. CASE ~Completed(h) /\ pc[h] = "expired"
    <3>1. PICK k \in 1 .. Len(queue) : queue[k] = h
      BY <2>2 DEF UndoneIsQueued, Completed
    <3>2. /\ pc' = [pc EXCEPT ![h] = "failed"]
          /\ queue' = RemoveFirst(queue, h)
          /\ UNCHANGED <<done, drain, runs>>
          /\ drain = 0
      BY <1>5, <2>2 DEF Reacquire, Withdraw
    <3>3. /\ queue' \in Seq(Handlers)
          /\ QueuedOnce'
          /\ \A i \in 1 .. Len(queue') :
               /\ queue'[i] # h
               /\ \E j \in 1 .. Len(queue) : queue'[i] = queue[j]
          /\ \A j \in 1 .. Len(queue) :
               queue[j] # h => \E i \in 1 .. Len(queue') : queue'[i] = queue[j]
      <4>1. /\ queue \in Seq(Handlers)
            /\ \A i, j \in 1 .. Len(queue) : queue[i] = queue[j] => i = j
        BY DEF TypeOK, QueuedOnce
      <4> DEFINE r == RemoveFirst(queue, h)
      <4>2. /\ r \in Seq(Handlers)
            /\ \A i, j \in 1 .. Len(r) : r[i] = r[j] => i = j
            /\ \A i \in 1 .. Len(r) :
                 r[i] # h /\ \E j \in 1 .. Len(queue) : r[i] = queue[j]
            /\ \A j \in 1 .. Len(queue) :
                 queue[j] # h => \E i \in 1 .. Len(r) : r[i] = queue[j]
        BY <3>1, <4>1, RemoveFirstKeeps
      <4>3. queue' = r
        BY <3>2
      <4> HIDE DEF r
      <4> QED  BY <4>2, <4>3 DEF QueuedOnce
    <3>4. \A i \in 1 .. Len(queue') :
            /\ queue'[i] \in Handlers /\ queue'[i] # h
            /\ InCall(queue'[i]) /\ ~done[queue'[i]]
      <4> SUFFICES ASSUME NEW i \in 1 .. Len(queue')
                   PROVE  /\ queue'[i] \in Handlers /\ queue'[i] # h
                          /\ InCall(queue'[i]) /\ ~done[queue'[i]]
        OBVIOUS
      <4>1. PICK j \in 1 .. Len(queue) : queue'[i] = queue[j]
        BY <3>3
      <4>2. InCall(queue[j]) /\ ~done[queue[j]] /\ queue[j] \in Handlers
        BY <3>2 DEF TypeOK, NoDanglingCommand, DoneIsDrained
      <4> QED  BY <3>3, <4>1, <4>2
    <3>5. TypeOK'
      BY <3>2, <3>3 DEF TypeOK
    <3>6. NoDanglingCommand'
      BY <3>2, <3>4 DEF TypeOK, NoDanglingCommand
    <3>7. DoneIsDrained'
      BY <3>2, <3>4 DEF DoneIsDrained
    <3>8. UndoneIsQueued'
      <4> SUFFICES ASSUME NEW g \in Handlers, InCall(g)', ~done[g]
                   PROVE  \E i \in 1 .. Len(queue') : queue'[i] = g
        BY <3>2 DEF UndoneIsQueued
      <4>1. g # h /\ InCall(g)
        BY <3>2 DEF TypeOK
      <4>2. PICK j \in 1 .. Len(queue) : queue[j] = g
        BY <4>1 DEF UndoneIsQueued
      <4> QED  BY <3>3, <4>1, <4>2
    <3>9. DoneCountsRuns' /\ AnswerIsTruth'
      BY <2>2, <3>2 DEF Completed, TypeOK, DoneCountsRuns, AnswerIsTruth
    <3> QED  BY <3>3, <3>5, <3>6, <3>7, <3>8, <3>9
  <2> QED  BY <1>5, <2>1, <2>2 DEF Reacquire
<1>6. ASSUME NEW h \in Handlers, Destroy(h)
      PROVE  IInv'
  BY <1>6 DEF Destroy, TypeOK, QueuedOnce, NoDanglingCommand,
     DoneIsDrained, UndoneIsQueued, DoneCountsRuns, AnswerIsTruth
<1>7. CASE ProcessRequests
  BY <1>7 DEF ProcessRequests, TypeOK, QueuedOnce, NoDanglingCommand,
     DoneIsDrained, UndoneIsQueued, DoneCountsRuns, AnswerIsTruth
<1>8. CASE ExecuteNext
  <2> DEFINE c == queue[drain]
  <2>1. /\ c \in Handlers /\ drain \in 1 .. Len(queue)
        /\ done' = [done EXCEPT ![c] = TRUE]
        /\ runs' = [runs EXCEPT ![c] = @ + 1]
        /\ drain' = drain + 1
        /\ UNCHANGED <<pc, queue>>
    BY <1>8 DEF ExecuteNext, TypeOK
  <2>2. InCall(c) /\ ~done[c] /\ runs[c] = 0
    BY <2>1 DEF TypeOK, NoDanglingCommand, DoneIsDrained, DoneCountsRuns
  <2>3. \A i \in 1 .. Len(queue) : queue[i] = c => i = drain
    BY <2>1 DEF QueuedOnce
  <2> HIDE DEF c
  <2>4. TypeOK' /\ QueuedOnce' /\ NoDanglingCommand'
    BY <2>1 DEF TypeOK, QueuedOnce, NoDanglingCommand
  <2>5. DoneIsDrained'
    <3> SUFFICES ASSUME NEW i \in 1 .. Len(queue)
                 PROVE  done'[queue[i]] <=> i < drain + 1
      BY <2>1 DEF DoneIsDrained
    <3>1. CASE i = drain
      BY <2>1, <3>1 DEF TypeOK, c
    <3>2. CASE i # drain
      BY <2>1, <2>3, <3>2 DEF TypeOK, DoneIsDrained
    <3> QED  BY <3>1, <3>2
  <2>6. UndoneIsQueued' /\ DoneCountsRuns' /\ AnswerIsTruth'
    BY <2>1, <2>2 DEF TypeOK, UndoneIsQueued, DoneCountsRuns, AnswerIsTruth
  <2> QED  BY <2>4, <2>5, <2>6
<1>9. CASE FinishDrain
  <2>1. /\ queue' = <<>> /\ drain' = 0 /\ UNCHANGED <<done, runs>>
        /\ pc' = [h \in Handlers |->
                    IF pc[h] = "waiting" THEN "notified" ELSE pc[h]]
    BY <1>9 DEF FinishDrain, Unlocked
  <2>2. TypeOK' /\ QueuedOnce' /\ NoDanglingCommand' /\ DoneIsDrained'
    BY <2>1 DEF TypeOK, QueuedOnce, NoDanglingCommand, DoneIsDrained
  <2>3. \A i \in 1 .. Len(queue) : done[queue[i]]
    BY <1>9 DEF FinishDrain, DoneIsDrained, TypeOK
  <2>4. \A h \in Handlers : InCall(h) => done[h]
    BY <2>3 DEF UndoneIsQueued
  <2>5. UndoneIsQueued' /\ DoneCountsRuns' /\ AnswerIsTruth'
    BY <2>1, <2>4 DEF TypeOK, UndoneIsQueued, DoneCountsRuns, AnswerIsTruth
  <2> QED  BY <2>2, <2>5
<1>10. CASE UNCHANGED vars
  BY <1>10 DEF vars, TypeOK, QueuedOnce, NoDanglingCommand,
     DoneIsDrained, UndoneIsQueued, DoneCountsRuns, AnswerIsTruth
<1> QED  BY <1>1, <1>2, <1>3, <1>4, <1>5, <1>6, <1>7, <1>8, <1>9, <1>10
         DEF Next, EmulationThread, HandlerThread

\* For any set of handler threads, whatever the interleaving of calls,
\* timeouts, spurious wakeups and drains, the bridge's variables keep their
\* types and the drain never runs past the queue (bridge.cpp 45-59).
THEOREM TypeCorrect == Spec => []TypeOK
<1>1. IInv => TypeOK
  BY DEF IInv
<1> QED  BY InitIInv, NextIInv, <1>1, PTL DEF Spec

\* ProcessRequests never follows a pointer to a command whose handler has
\* left ExecuteCommand (bridge.cpp 36-42 against 52-55).
THEOREM NeverDangling == Spec => []NoDanglingCommand
<1>1. IInv => NoDanglingCommand
  BY DEF IInv
<1> QED  BY InitIInv, NextIInv, <1>1, PTL DEF Spec

\* ExecuteCommand returns only for a command executed exactly once and
\* throws only for a command never executed (bridge.cpp 25-43).
THEOREM AnswersTrue == Spec => []AnswerIsTruth
<1>1. IInv => AnswerIsTruth
  BY DEF IInv
<1> QED  BY InitIInv, NextIInv, <1>1, PTL DEF Spec

-----------------------------------------------------------------------------
(***************************************************************************)
(* The bridge implements the command service: a step of the bridge is a    *)
(* step of the service or changes nothing that the service knows.  The     *)
(* proof is one case per action; the inductive invariant above says what   *)
(* the flags and counters are that the mapping reads.                      *)
(***************************************************************************)

\* The service's sequence operators are the bridge's.
LEMMA SameRemoveFirst ==
    ASSUME NEW q, NEW e
    PROVE  Service!RemoveFirst(q, e) = RemoveFirst(q, e)
BY DEF Service!RemoveFirst, RemoveFirst, Service!RemoveAt, RemoveAt,
       Service!SelectInSeq, SelectInSeq, Service!Min, Min

\* Outside of a drain the whole queue is pending.
LEMMA AllPending == ASSUME NEW S, NEW q \in Seq(S) PROVE SubSeq(q, 1, Len(q)) = q
BY SubSeqProperties

LEMMA NonePending == ASSUME NEW S, NEW q \in Seq(S) PROVE SubSeq(q, Len(q) + 1, Len(q)) = <<>>
BY SubSeqProperties

\* Performing a command takes it off the front of what is pending.
LEMMA DrainPending ==
    ASSUME NEW S, NEW q \in Seq(S), NEW d \in 1 .. Len(q)
    PROVE  /\ SubSeq(q, d, Len(q)) # <<>>
           /\ Head(SubSeq(q, d, Len(q))) = q[d]
           /\ Tail(SubSeq(q, d, Len(q))) = SubSeq(q, d + 1, Len(q))
<1>1. Len(q) \in d .. Len(q) /\ d \in Nat
  OBVIOUS
<1>2. SubSeq(q, d, Len(q)) # <<>>
  <2> DEFINE p == SubSeq(q, d, Len(q))
  <2>1. p \in Seq(S) /\ Len(p) = Len(q) - d + 1
    BY <1>1, SubSeqProperties
  <2> HIDE DEF p
  <2>2. Len(p) >= 1
    BY <1>1, <2>1
  <2>3. p # <<>>
    BY <2>2
  <2> QED  BY <2>3 DEF p
<1> QED  BY <1>1, <1>2, HeadTailOfSubSeq

-----------------------------------------------------------------------------

USE DEF InCall

LEMMA InitRefines == Init => Service!SInit
<1> SUFFICES ASSUME Init PROVE Service!SInit
  OBVIOUS
<1>1. Pending = <<>>
  BY DEF Init, Pending
<1>2. \A h \in Handlers : pc[h] = "idle"
  BY DEF Init
<1>3. Status = [h \in Handlers |-> "none"]
  BY <1>2 DEF Status
<1> QED  BY <1>1, <1>3 DEF Service!SInit

\* What the mapping makes of a call, and of a step that moves one handler.
StatusAt(p, r) ==
    CASE p \in {"waiting", "notified", "expired"} -> IF r = 0 THEN "submitted" ELSE "performed"
      [] p = "ok"     -> "ok"
      [] p = "failed" -> "timeout"
      [] OTHER        -> "none"

LEMMA StatusPointwise ==
    /\ Status = [h \in Handlers |-> StatusAt(pc[h], runs[h])]
    /\ Status' = [h \in Handlers |-> StatusAt(pc'[h], runs'[h])]
BY DEF Status, StatusAt

LEMMA OneMoves ==
    ASSUME TypeOK, NEW h \in Handlers, NEW x, pc' = [pc EXCEPT ![h] = x], runs' = runs
    PROVE  Status' = [Status EXCEPT ![h] = StatusAt(x, runs[h])]
<1>1. \A g \in Handlers : pc'[g] = IF g = h THEN x ELSE pc[g]
  BY DEF TypeOK
<1> QED  BY <1>1, StatusPointwise

LEMMA NextRefines == IInv /\ [Next]_vars => [Service!SNext]_(Service!svars)
<1> SUFFICES ASSUME IInv, [Next]_vars
             PROVE  Service!SNext \/ UNCHANGED <<Pending, Status>>
  BY DEF Service!svars
<1> USE DEF IInv
<1>0. drain = 0 => Pending = queue
  BY AllPending DEF Pending, TypeOK
<1>1. ASSUME NEW h \in Handlers, WaitForCompletion(h)
      PROVE  UNCHANGED <<Pending, Status>>
  <2>1. UNCHANGED Pending
    BY <1>1 DEF WaitForCompletion, Pending
  <2>2. \A g \in Handlers : StatusAt(pc'[g], runs'[g]) = StatusAt(pc[g], runs[g])
    BY <1>1 DEF WaitForCompletion, TypeOK, StatusAt
  <2>3. UNCHANGED Status
    BY <2>2, StatusPointwise
  <2> QED  BY <2>1, <2>3
<1>2. ASSUME NEW h \in Handlers, ExecuteCommand(h)
      PROVE  Service!Submit(h)
  <2>1. /\ drain = 0 /\ drain' = 0 /\ queue' = Append(queue, h)
        /\ pc[h] = "called" /\ pc' = [pc EXCEPT ![h] = "waiting"] /\ runs' = runs
    BY <1>2 DEF ExecuteCommand, MutexFree
  <2>2. Pending = queue /\ queue' \in Seq(Handlers)
    BY <1>0, <2>1 DEF TypeOK
  <2>3. Pending' = queue'
    BY <2>1, <2>2, AllPending DEF Pending
  <2>4. runs[h] = 0
    BY <2>1 DEF DoneCountsRuns
  <2>5. Status' = [Status EXCEPT ![h] = "submitted"]
    BY <2>1, <2>4, OneMoves DEF StatusAt
  <2>6. Status[h] = "none"
    BY <2>1, StatusPointwise DEF StatusAt
  <2> QED  BY <2>1, <2>2, <2>3, <2>5, <2>6 DEF Service!Submit
<1>3. ASSUME NEW h \in Handlers, Expire(h) \/ SpuriousWakeup(h)
      PROVE  UNCHANGED <<Pending, Status>>
  <2>1. UNCHANGED Pending
    BY <1>3 DEF Expire, SpuriousWakeup, Pending
  <2>2. PICK x \in {"expired", "notified"} :
            pc[h] = "waiting" /\ pc' = [pc EXCEPT ![h] = x] /\ runs' = runs
    BY <1>3 DEF Expire, SpuriousWakeup
  <2>3. StatusAt(x, runs[h]) = Status[h]
    BY <2>2, StatusPointwise DEF StatusAt
  <2>4. UNCHANGED Status
    BY <2>2, <2>3, OneMoves DEF Status
  <2> QED  BY <2>1, <2>4
<1>4. ASSUME NEW h \in Handlers, Reacquire(h)
      PROVE  Service!SNext \/ UNCHANGED <<Pending, Status>>
  <2>1. /\ pc[h] \in {"notified", "expired"} /\ drain = 0 /\ drain' = 0 /\ runs' = runs
        /\ runs[h] = IF done[h] THEN 1 ELSE 0
    BY <1>4 DEF Reacquire, MutexFree, DoneCountsRuns
  <2>2. Status[h] = IF done[h] THEN "performed" ELSE "submitted"
    BY <2>1, StatusPointwise DEF StatusAt
  <2>3. CASE done[h] /\ pc' = [pc EXCEPT ![h] = "ok"] /\ queue' = queue
    <3>1. UNCHANGED Pending
      BY <2>1, <2>3 DEF Pending
    <3>2. Status' = [Status EXCEPT ![h] = "ok"]
      BY <2>1, <2>3, OneMoves DEF StatusAt
    <3> QED  BY <2>2, <2>3, <3>1, <3>2 DEF Service!SNext, Service!AnswerOk
  <2>4. CASE ~done[h] /\ pc' = [pc EXCEPT ![h] = "waiting"] /\ queue' = queue
    <3>1. UNCHANGED Pending
      BY <2>1, <2>4 DEF Pending
    <3>2. StatusAt("waiting", runs[h]) = Status[h]
      BY <2>1, <2>2, <2>4 DEF StatusAt
    <3>3. UNCHANGED Status
      BY <2>1, <2>4, <3>2, OneMoves DEF Status
    <3> QED  BY <3>1, <3>3
  <2>5. CASE /\ ~done[h] /\ pc' = [pc EXCEPT ![h] = "failed"]
             /\ queue' = RemoveFirst(queue, h)
    <3>1. PICK k \in 1 .. Len(queue) : queue[k] = h
      BY <2>1, <2>5 DEF UndoneIsQueued
    <3>2. RemoveFirst(queue, h) \in Seq(Handlers)
      BY <3>1, RemoveFirstProperties DEF TypeOK, QueuedOnce
    <3>3. Pending' = RemoveFirst(queue, h)
      BY <2>1, <2>5, <3>2, AllPending DEF Pending
    <3>4. Pending' = Service!RemoveFirst(Pending, h)
      BY <1>0, <2>1, <3>3, SameRemoveFirst
    <3>5. Status' = [Status EXCEPT ![h] = "timeout"]
      BY <2>1, <2>5, OneMoves DEF StatusAt
    <3> QED  BY <2>2, <2>5, <3>4, <3>5 DEF Service!SNext, Service!AnswerTimeout
  <2> QED  BY <1>4, <2>3, <2>4, <2>5 DEF Reacquire, Completed, Withdraw
<1>5. ASSUME NEW h \in Handlers, Destroy(h)
      PROVE  Service!Forget(h)
  <2>1. /\ pc[h] \in {"ok", "failed"} /\ pc' = [pc EXCEPT ![h] = "idle"]
        /\ UNCHANGED <<queue, drain, runs>>
    BY <1>5 DEF Destroy
  <2>2. UNCHANGED Pending
    BY <2>1 DEF Pending
  <2>3. Status[h] \in {"ok", "timeout"}
    BY <2>1, StatusPointwise DEF StatusAt
  <2>4. StatusAt("idle", runs[h]) = "none"
    BY DEF StatusAt
  <2>5. Status' = [Status EXCEPT ![h] = "none"]
    BY <2>1, <2>4, OneMoves
  <2> QED  BY <2>2, <2>3, <2>5 DEF Service!Forget
<1>6. ASSUME ProcessRequests
      PROVE  UNCHANGED <<Pending, Status>>
  BY <1>6 DEF ProcessRequests, MutexFree, Pending, Status
<1>7. ASSUME ExecuteNext
      PROVE  Service!Perform
  <2> DEFINE c == queue[drain]
  <2>1. /\ drain \in 1 .. Len(queue) /\ queue \in Seq(Handlers) /\ c \in Handlers
        /\ drain' = drain + 1 /\ runs' = [runs EXCEPT ![c] = @ + 1]
        /\ UNCHANGED <<pc, queue>>
    BY <1>7 DEF ExecuteNext, TypeOK
  <2>2. InCall(c) /\ runs[c] = 0
    BY <2>1 DEF TypeOK, NoDanglingCommand, DoneIsDrained, DoneCountsRuns
  <2>3. /\ drain # 0 /\ drain + 1 # 0
        /\ Pending = SubSeq(queue, drain, Len(queue))
        /\ Pending' = SubSeq(queue, drain + 1, Len(queue))
    BY <2>1 DEF Pending
  <2>4. Pending # <<>> /\ Head(Pending) = c /\ Pending' = Tail(Pending)
    BY <2>1, <2>3, DrainPending
  <2> HIDE DEF c
  <2>5. Status[c] = "submitted"
    BY <2>1, <2>2, StatusPointwise DEF StatusAt
  <2>6. \A g \in Handlers :
            StatusAt(pc'[g], runs'[g]) = IF g = c THEN "performed" ELSE StatusAt(pc[g], runs[g])
    BY <2>1, <2>2 DEF StatusAt, TypeOK
  <2>7. Status' = [Status EXCEPT ![c] = "performed"]
    BY <2>1, <2>6, StatusPointwise
  <2> QED  BY <2>4, <2>5, <2>7 DEF Service!Perform
<1>8. ASSUME FinishDrain
      PROVE  UNCHANGED <<Pending, Status>>
  <2>1. /\ queue \in Seq(Handlers) /\ drain = Len(queue) + 1 /\ drain # 0
        /\ queue' = <<>> /\ drain' = 0 /\ runs' = runs
        /\ pc' = [h \in Handlers |-> IF pc[h] = "waiting" THEN "notified" ELSE pc[h]]
    BY <1>8 DEF FinishDrain, Unlocked, TypeOK
  <2>2. Pending = <<>>
    BY <2>1, NonePending DEF Pending
  <2>3. Pending' = <<>>
    BY <2>1 DEF Pending
  <2>4. \A g \in Handlers : StatusAt(pc'[g], runs'[g]) = StatusAt(pc[g], runs[g])
    BY <2>1 DEF StatusAt
  <2>5. UNCHANGED Status
    BY <2>4, StatusPointwise
  <2> QED  BY <2>2, <2>3, <2>5
<1>9. CASE UNCHANGED vars
  BY <1>9 DEF vars, Pending, Status
<1> QED  BY <1>1, <1>2, <1>3, <1>4, <1>5, <1>6, <1>7, <1>8, <1>9
         DEF Next, EmulationThread, HandlerThread, Service!SNext

\* The bridge implements the command service (bridge.cpp 25-59): commands are
\* performed one at a time in the order of their submission, each before its
\* caller is told "ok", and one that timed out is never performed later.
THEOREM BridgeImplementsService == Spec => ImplementsService
<1> QED  BY InitRefines, InitIInv, NextIInv, NextRefines, PTL
         DEF Spec, ImplementsService, Service!SSpec
=============================================================================
