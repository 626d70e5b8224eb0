--------------------------- MODULE LuaScriptProofs --------------------------
(***************************************************************************)
(* Invariants and action properties of the script's life cycle, for any    *)
(* scripts, texts and waits, any size of the keyboard's buffer and any     *)
(* number of frames.                                                       *)
(***************************************************************************)
EXTENDS LuaScript, Integers, WellFoundedInduction, TLAPS

(* While the script executes, its state is "running": this is what makes   *)
(* the commands, which look at the state only, keep away from it.          *)
ThreadInv ==
    /\ NoResumeOfDeadThread
    /\ exec => st = "running"

LEMMA InitThread == Init => ThreadInv
BY DEF Init, ThreadInv, NoResumeOfDeadThread, Active

LEMMA NextThread == ThreadInv /\ [Next]_vars => ThreadInv'
<1> USE DEF ThreadInv, NoResumeOfDeadThread, Active, engine, ghosts
<1> SUFFICES ASSUME ThreadInv, [Next]_vars PROVE ThreadInv'
    OBVIOUS
<1>1. CASE GuestReads \/ HostKey \/ GuestSetsScanning
    BY <1>1 DEF GuestReads, HostKey, GuestSetsScanning
<1>2. ASSUME NEW n \in Scripts, LuaLoad(n) PROVE ThreadInv'
    BY <1>2 DEF LuaLoad, MayLoad
<1>3. CASE LuaStart \/ LuaStop
    BY <1>3 DEF LuaStart, LuaStop
<1>4. CASE DispatchFrame
    BY <1>4 DEF DispatchFrame, NewFrame, Resume
<1>5. CASE DispatchTextWait
    BY <1>5 DEF DispatchTextWait, NewFrame, Resume
<1>6. CASE DispatchType
    BY <1>6 DEF DispatchType, NewFrame, Resume
<1>7. CASE DispatchFrameWait
    BY <1>7 DEF DispatchFrameWait, NewFrame, Resume
<1>8. CASE TextCeiling \/ TypeCeiling
    BY <1>8 DEF TextCeiling, TypeCeiling
<1>9. CASE ReapStalledWaits
    BY <1>9 DEF ReapStalledWaits, Resume
<1>10. CASE Script
    BY <1>10 DEF Script, LuaKey, LuaWaitFrames, LuaWaitForText, LuaType,
                 PlainYield, ScriptEnds, Yield
<1>11. CASE UNCHANGED vars
    BY <1>11 DEF vars
<1> QED BY <1>1, <1>2, <1>3, <1>4, <1>5, <1>6, <1>7, <1>8, <1>9, <1>10, <1>11
        DEF Next, Commands, Dispatch

\* No order of loads, starts, stops, frames and script errors leaves a
\* resumable coroutine that points into a destroyed Lua state.
THEOREM NeverDeadThread == Spec => []NoResumeOfDeadThread
<1>1. ThreadInv => NoResumeOfDeadThread
    BY DEF ThreadInv
<1> QED BY InitThread, NextThread, <1>1, PTL DEF Spec

-----------------------------------------------------------------------------
(* A script that executes or was just started waits for nothing: each way  *)
(* of resuming it clears the flag it was polled for, and no script that    *)
(* waits in one call can have set the flag of another.                     *)
IsWait(w) ==
    /\ {"text", "typing"} \subseteq DOMAIN w
    /\ w.text \in BOOLEAN /\ w.typing \in BOOLEAN

CallInv ==
    /\ IsWait(wait)
    /\ exec \in BOOLEAN
    /\ exec => st = "running"
    /\ st = "running" => ~wait.text /\ ~wait.typing
    /\ PolledForItsCall

LEMMA NothingAwaited == IsWait(NoWait) /\ ~NoWait.text /\ ~NoWait.typing
<1>1. "text" \in DOMAIN NoWait /\ "typing" \in DOMAIN NoWait
    BY DEF NoWait
<1>2. NoWait.text = FALSE /\ NoWait.typing = FALSE
    BY DEF NoWait
<1> QED BY <1>1, <1>2 DEF IsWait

LEMMA InjectionStopped ==
    ASSUME NEW w, IsWait(w)
    PROVE  /\ IsWait(StopInjecting(w))
           /\ StopInjecting(w).text = w.text
           /\ ~StopInjecting(w).typing
BY DEF IsWait, StopInjecting

LEMMA InitCall == Init => CallInv
BY NothingAwaited DEF Init, CallInv, PolledForItsCall

LEMMA NextCall == ASSUME ~Nested PROVE CallInv /\ [Next]_vars => CallInv'
<1> USE DEF CallInv, PolledForItsCall, engine, ghosts
<1> SUFFICES ASSUME CallInv, [Next]_vars PROVE CallInv'
    OBVIOUS
<1>1. CASE GuestReads \/ HostKey \/ GuestSetsScanning
    BY <1>1 DEF GuestReads, HostKey, GuestSetsScanning
<1>2. ASSUME NEW n \in Scripts, LuaLoad(n) PROVE CallInv'
    BY <1>2 DEF LuaLoad
<1>3. CASE LuaStart
    BY <1>3, NothingAwaited DEF LuaStart
<1>4. CASE LuaStop
    BY <1>4, NothingAwaited DEF LuaStop, Active
<1>5. CASE DispatchFrame
  <2>1. wait' = wait /\ IsWait(wait')
    BY <1>5 DEF DispatchFrame
  <2>2. CASE UNCHANGED <<st, exec, call>>
    BY <2>1, <2>2
  <2>3. CASE st = "running" /\ Resume
    BY <2>1, <2>3 DEF Resume
  <2> QED BY <1>5, <2>2, <2>3 DEF DispatchFrame
<1>6. CASE DispatchTextWait
    BY <1>6 DEF DispatchTextWait, NewFrame, Resume, IsWait
<1>7. CASE DispatchType
  <2>1. CASE wait' = StopInjecting(wait) /\ Resume
    <3>1. IsWait(wait') /\ ~wait'.text /\ ~wait'.typing
        BY <1>7, <2>1, InjectionStopped DEF DispatchType
    <3> QED BY <2>1, <3>1 DEF Resume
  <2>2. CASE /\ \E left : wait' = [wait EXCEPT !.pending = left]
             /\ UNCHANGED <<st, exec, call>>
    <3>1. IsWait(wait') /\ wait'.text = wait.text /\ wait'.typing = wait.typing
        BY <2>2 DEF IsWait
    <3> QED BY <2>2, <3>1
  <2> QED BY <1>7, <2>1, <2>2 DEF DispatchType
<1>8. CASE DispatchFrameWait
  <2>1. wait' = wait /\ IsWait(wait')
    BY <1>8 DEF DispatchFrameWait
  <2>2. CASE UNCHANGED <<st, exec, call>>
    BY <2>1, <2>2
  <2>3. CASE ~wait.text /\ ~wait.typing /\ Resume
    BY <2>1, <2>3 DEF Resume
  <2> QED BY <1>8, <2>2, <2>3 DEF DispatchFrameWait
<1>9. CASE TextCeiling \/ TypeCeiling
    BY <1>9 DEF TextCeiling, TypeCeiling, IsWait
<1>10. CASE ReapStalledWaits
  <2>1. CASE wait.text
    BY <1>10, <2>1 DEF ReapStalledWaits, Resume, IsWait
  <2>2. CASE ~wait.text
    <3>1. IsWait(wait') /\ ~wait'.text /\ ~wait'.typing
        BY <1>10, <2>2, InjectionStopped DEF ReapStalledWaits
    <3> QED BY <1>10, <3>1 DEF ReapStalledWaits, Resume
  <2> QED BY <2>1, <2>2
<1>11. CASE LuaKey \/ PlainYield \/ ScriptEnds
    BY <1>11 DEF LuaKey, PlainYield, ScriptEnds
<1>12. CASE LuaWaitFrames
    BY <1>12, ~Nested DEF LuaWaitFrames, Yield, IsWait
<1>13. CASE LuaWaitForText
    BY <1>13, ~Nested DEF LuaWaitForText, Yield, IsWait
<1>14. CASE LuaType
    BY <1>14, ~Nested DEF LuaType, Yield, IsWait
<1>15. CASE UNCHANGED vars
    BY <1>15 DEF vars
<1> QED BY <1>1, <1>2, <1>3, <1>4, <1>5, <1>6, <1>7, <1>8, <1>9, <1>10, <1>11,
           <1>12, <1>13, <1>14, <1>15 DEF Next, Commands, Dispatch, Script

\* Unless scripts wait inside coroutines of their own, a suspended script is
\* polled for exactly the call it is suspended in.
THEOREM PolledRightly == ASSUME ~Nested PROVE Spec => []PolledForItsCall
<1>1. CallInv => PolledForItsCall
    BY DEF CallInv
<1> QED BY ~Nested, InitCall, NextCall, <1>1, PTL DEF Spec
-----------------------------------------------------------------------------
(* A script is resumed by the handler of the call it is suspended in: a    *)
(* script that has been started or executes is in no call.                 *)
ResumeInv ==
    /\ CallInv
    /\ st = "running" => call = "none"

LEMMA NextResume == ASSUME ~Nested PROVE ResumeInv /\ [Next]_vars => ResumeInv'
<1> SUFFICES ASSUME ResumeInv, [Next]_vars PROVE st' = "running" => call' = "none"
    BY NextCall, ~Nested DEF ResumeInv
<1> USE DEF ResumeInv, engine, ghosts
<1>1. CASE GuestReads \/ HostKey \/ GuestSetsScanning
    BY <1>1 DEF GuestReads, HostKey, GuestSetsScanning
<1>2. ASSUME NEW n \in Scripts, LuaLoad(n) PROVE st' = "running" => call' = "none"
    BY <1>2 DEF LuaLoad
<1>3. CASE LuaStart \/ LuaStop
    BY <1>3 DEF LuaStart, LuaStop
<1>4. CASE Dispatch
    BY <1>4 DEF Dispatch, DispatchFrame, DispatchTextWait, DispatchType,
                DispatchFrameWait, Resume
<1>5. CASE TextCeiling \/ TypeCeiling \/ ReapStalledWaits
    BY <1>5 DEF TextCeiling, TypeCeiling, ReapStalledWaits, Resume
<1>6. CASE LuaKey \/ PlainYield \/ ScriptEnds
    BY <1>6 DEF LuaKey, PlainYield, ScriptEnds
<1>7. CASE LuaWaitFrames \/ LuaWaitForText \/ LuaType
    BY <1>7, ~Nested DEF LuaWaitFrames, LuaWaitForText, LuaType, Yield
<1>8. CASE UNCHANGED vars
    BY <1>8 DEF vars
<1> QED BY <1>1, <1>2, <1>3, <1>4, <1>5, <1>6, <1>7, <1>8
           DEF Next, Commands, Script

\* What holds of a step that resumes a script.
HonouredStep ==
    exec' /\ ~exec =>
        /\ call = "frames" => frame' >= wait.until
        /\ call = "text" /\ answer' = "timeout" =>
              frame' >= wait.due \/ wait.textWall
        /\ call = "type" =>
              wait.typeWall \/ (owed' = 0 /\ IsBufferEmpty(kbd'))

LEMMA StepHonoured == ResumeInv /\ [Next]_vars => HonouredStep
<1> SUFFICES ASSUME ResumeInv, [Next]_vars, exec', ~exec PROVE HonouredStep
    BY DEF HonouredStep
<1> USE DEF ResumeInv, CallInv, PolledForItsCall
<1>1. CASE DispatchFrame
  <2>1. st = "running"
    BY <1>1 DEF DispatchFrame
  <2> QED BY <2>1 DEF HonouredStep
<1>2. CASE DispatchTextWait
  <2>1. call = "text"
    BY <1>2 DEF DispatchTextWait
  <2>2. answer' = "timeout" => frame' >= wait.due \/ wait.textWall
    BY <1>2 DEF DispatchTextWait
  <2> QED BY <2>1, <2>2 DEF HonouredStep
<1>3. CASE DispatchType
  <2>1. call = "type"
    BY <1>3 DEF DispatchType
  <2>2. wait.typeWall \/ Typed(DrainPendingKeys)
    BY <1>3 DEF DispatchType
  <2>3. kbd' = DrainPendingKeys.kbd /\ owed' = Len(DrainPendingKeys.left)
    BY <1>3 DEF DispatchType
  <2>4. Typed(DrainPendingKeys) => owed' = 0 /\ IsBufferEmpty(kbd')
    BY <2>3 DEF Typed
  <2> QED BY <2>1, <2>2, <2>4 DEF HonouredStep
<1>4. CASE DispatchFrameWait
  <2>1. call # "text" /\ call # "type"
    BY <1>4 DEF DispatchFrameWait
  <2>2. frame' >= wait.until
    BY <1>4 DEF DispatchFrameWait, FrameReached
  <2> QED BY <2>1, <2>2 DEF HonouredStep
<1>5. CASE ReapStalledWaits
  <2>1. CASE wait.text
    BY <1>5, <2>1 DEF ReapStalledWaits, Overdue, HonouredStep
  <2>2. CASE ~wait.text
    BY <1>5, <2>2 DEF ReapStalledWaits, Overdue, HonouredStep
  <2> QED BY <2>1, <2>2
<1>6. CASE GuestReads \/ HostKey \/ GuestSetsScanning
    BY <1>6 DEF GuestReads, HostKey, GuestSetsScanning
<1>7. CASE Commands
    BY <1>7 DEF Commands, LuaLoad, LuaStart, LuaStop
<1>8. CASE TextCeiling \/ TypeCeiling \/ Script
    BY <1>8 DEF TextCeiling, TypeCeiling, Script, LuaKey, LuaWaitFrames,
                LuaWaitForText, LuaType, PlainYield, ScriptEnds
<1>9. CASE UNCHANGED vars
    BY <1>9 DEF vars
<1> QED BY <1>1, <1>2, <1>3, <1>4, <1>5, <1>6, <1>7, <1>8, <1>9 DEF Next, Dispatch

\* Unless scripts wait inside coroutines of their own, no order of frames,
\* reaping, ceilings and keys makes a call return before its own reason holds.
THEOREM CallsReturnForTheirReason == ASSUME ~Nested PROVE Spec => CallsHonoured
<1>1. Init => ResumeInv
    BY InitCall DEF Init, ResumeInv
<1>2. Spec => []ResumeInv
    BY ~Nested, <1>1, NextResume, PTL DEF Spec
<1>3. ResumeInv /\ [Next]_vars => [HonouredStep]_vars
    BY StepHonoured
<1>4. Spec => [][HonouredStep]_vars
    BY <1>2, <1>3, PTL DEF Spec
<1>5. [HonouredStep]_vars =>
        /\ [exec' /\ ~exec =>
              /\ call = "frames" => frame' >= wait.until
              /\ call = "text" /\ answer' = "timeout" =>
                    frame' >= wait.due \/ wait.textWall]_vars
        /\ [exec' /\ ~exec /\ call = "type" =>
              wait.typeWall \/ (owed' = 0 /\ IsBufferEmpty(kbd'))]_vars
    BY DEF HonouredStep
<1> QED BY <1>4, <1>5, PTL DEF CallsHonoured, WaitsHonoured, TypeHonoured
-----------------------------------------------------------------------------
(* Induction and recursion over an interval, stated with sets.             *)

\* A set of natural numbers that is not empty has a least element.
LEMMA LeastNat ==
    ASSUME NEW T \in SUBSET Nat, T # {}
    PROVE  \E x \in T : \A y \in T : x <= y
<1> DEFINE R == OpToRel(<, Nat)
<1>1. IsWellFoundedOn(R, Nat)
  BY NatLessThanWellFounded, Zenon
<1>2. \A x, y \in Nat : x < y => <<x, y>> \in R
  BY DEF OpToRel
<1> HIDE DEF R
<1>3. PICK x \in T : \A y \in T : ~(<<y, x>> \in R)
  BY <1>1, WFMin
<1>4. ASSUME NEW y \in T PROVE x <= y
  <2>1. x \in Nat /\ y \in Nat
    OBVIOUS
  <2>2. ~(y < x)
    BY <1>2, <1>3, <2>1, Zenon
  <2> QED  BY <2>1, <2>2
<1> QED  BY <1>4

\* What holds at 0 and is inherited from a number by the next holds up to n.
LEMMA IntervalInduction ==
    ASSUME NEW n \in Nat, NEW P \in SUBSET (0 .. n), 0 \in P,
           \A i \in 1 .. n : i - 1 \in P => i \in P
    PROVE  P = 0 .. n
<1> DEFINE T == (0 .. n) \ P
<1>1. SUFFICES ASSUME T # {} PROVE FALSE
  OBVIOUS
<1>2. T \in SUBSET Nat
  OBVIOUS
<1>3. PICK x \in T : \A y \in T : x <= y
  <2> HIDE DEF T
  <2> QED  BY <1>1, <1>2, LeastNat
<1>4. x # 0 /\ x - 1 \in 0 .. n /\ x \in 1 .. n
  OBVIOUS
<1> QED  BY <1>3, <1>4

\* f is the iteration that begins with c and goes on with the steps G.
Iterates(f, n, D, c, G) ==
    f \in [0 .. n -> D] /\ f[0] = c /\ \A i \in 1 .. n : f[i] = G[i][f[i - 1]]

\* There is one if the steps stay in D.
LEMMA IterationExists ==
    ASSUME NEW n \in Nat, NEW D, NEW c \in D, NEW G \in [1 .. n -> [D -> D]]
    PROVE  \E f : Iterates(f, n, D, c, G)
<1> DEFINE P == {k \in 0 .. n : \E f : Iterates(f, k, D, c, G)}
<1>1. 0 \in P
  <2> DEFINE f == [i \in 0 .. 0 |-> c]
  <2>1. Iterates(f, 0, D, c, G)
    BY DEF Iterates
  <2> HIDE DEF f
  <2> QED  BY <2>1
<1>2. ASSUME NEW k \in 1 .. n, k - 1 \in P PROVE k \in P
  <2>1. PICK f : Iterates(f, k - 1, D, c, G)
    BY <1>2
  <2> DEFINE g == [i \in 0 .. k |-> IF i = k THEN G[k][f[k - 1]] ELSE f[i]]
  <2>2. Iterates(g, k, D, c, G)
    BY <2>1 DEF Iterates
  <2>3. k \in 0 .. n
    OBVIOUS
  <2> HIDE DEF g
  <2> QED  BY <2>2, <2>3
<1>3. P = 0 .. n
  <2>1. P \in SUBSET (0 .. n)
    OBVIOUS
  <2> HIDE DEF P
  <2> QED  BY <1>1, <1>2, <2>1, IntervalInduction
<1>4. n \in P
  <2> HIDE DEF P
  <2> QED  BY <1>3
<1> QED  BY <1>4, Zenon

-----------------------------------------------------------------------------
(* The keyboard's buffer and the strokes given to it.                      *)

Keyboards == [used : 0 .. Slots, over : BOOLEAN, ready : BOOLEAN, scan : BOOLEAN]

Strokes == Seq(1 .. Slots)

WaitRecords == [text : BOOLEAN, due : Nat, textWall : BOOLEAN,
                typing : BOOLEAN, pending : Strokes,
                typeWall : BOOLEAN, until : Nat]

\* Adding scancodes overflows the buffer only if they do not fit.
LEMMA KeysAdded ==
    ASSUME NEW k \in Keyboards, NEW n \in Nat \ {0}
    PROVE  /\ AddKeys(k, n) \in Keyboards
           /\ n <= FreeSlots(k) => ~AddKeys(k, n).over
<1>1. Slots \in Nat
  BY ScriptAssumption
<1>2. k.used \in 0 .. Slots /\ k.over \in BOOLEAN /\ k.ready \in BOOLEAN /\ k.scan \in BOOLEAN
  BY DEF Keyboards
<1> DEFINE filled == k.used + n - (IF k.ready THEN 1 ELSE 0)
<1>3. filled \in Nat /\ filled <= k.used + n
  BY <1>1, <1>2
<1>4. CASE ~k.scan \/ k.over
  <2>1. AddKeys(k, n) = k
    BY <1>4 DEF AddKeys
  <2>2. n <= FreeSlots(k) => ~k.over
    BY <1>1 DEF FreeSlots
  <2> QED  BY <2>1, <2>2
<1>5. CASE k.scan /\ ~k.over /\ Fits(filled)
  <2>1. AddKeys(k, n) = [k EXCEPT !.used = filled, !.ready = FALSE]
    BY <1>5 DEF AddKeys
  <2>2. filled \in 0 .. Slots
    BY <1>1, <1>3, <1>5 DEF Fits
  <2> HIDE DEF filled
  <2> QED  BY <1>5, <2>1, <2>2 DEF Keyboards
<1>6. CASE k.scan /\ ~k.over /\ ~Fits(filled)
  <2>1. AddKeys(k, n) = [k EXCEPT !.used = 0, !.over = TRUE, !.ready = FALSE]
    BY <1>6 DEF AddKeys
  <2>2. ~(n <= FreeSlots(k))
    BY <1>1, <1>2, <1>3, <1>6 DEF Fits, FreeSlots
  <2>3. 0 \in 0 .. Slots
    BY <1>1
  <2> QED  BY <2>1, <2>2, <2>3 DEF Keyboards
<1> QED  BY <1>2, <1>4, <1>5, <1>6

\* Where the loop of DrainPendingKeys may be: it has overflowed nothing.
Rounds == {d \in [kbd : Keyboards, left : Strokes] : d.kbd.over => kbd.over}

LEMMA StrokeInjected ==
    ASSUME NEW d \in Rounds, NEW need \in 1 .. Slots
    PROVE  InjectStroke(d, need) \in Rounds
<1>1. d.kbd \in Keyboards /\ d.left \in Strokes /\ need \in Nat \ {0}
  BY ScriptAssumption DEF Rounds
<1>2. CASE d.left # <<>> \/ FreeSlots(d.kbd) < Needed(need)
  <2>1. InjectStroke(d, need) = [d EXCEPT !.left = Append(d.left, need)]
    BY <1>2 DEF InjectStroke
  <2>2. Append(d.left, need) \in Strokes
    BY <1>1 DEF Strokes
  <2> QED  BY <2>1, <2>2 DEF Rounds
<1>3. CASE ~(d.left # <<>> \/ FreeSlots(d.kbd) < Needed(need))
  <2>1. InjectStroke(d, need) = [d EXCEPT !.kbd = AddKeys(d.kbd, need)]
    BY <1>3 DEF InjectStroke
  <2>2. FreeSlots(d.kbd) \in Int
    BY <1>1, ScriptAssumption DEF FreeSlots, Keyboards
  <2>3. need <= FreeSlots(d.kbd)
    BY <1>1, <1>3, <2>2 DEF Needed
  <2>4. AddKeys(d.kbd, need) \in Keyboards /\ ~AddKeys(d.kbd, need).over
    BY <1>1, <2>3, KeysAdded
  <2> QED  BY <2>1, <2>4 DEF Rounds
<1> QED  BY <1>2, <1>3

LEMMA StrokesNeedSlots ==
    ASSUME NEW s \in Strokes, NEW j \in 1 .. Len(s) PROVE s[j] \in 1 .. Slots
<1>1. \A S : \A t \in Seq(S) : \A i \in 1 .. Len(t) : t[i] \in S
  OBVIOUS
<1> QED  BY <1>1, Zenon DEF Strokes

\* The whole loop: what it leaves is well typed and it overflows nothing.
LEMMA KeysDrained ==
    ASSUME kbd \in Keyboards, wait.pending \in Strokes
    PROVE  DrainPendingKeys \in Rounds
<1> DEFINE n == Len(wait.pending)
           start == [kbd |-> kbd, left |-> <<>>]
           Turn(d, k) == InjectStroke(d, wait.pending[k])
           A == CHOOSE g : g = [k \in 0 .. n |-> IF k = 0 THEN start ELSE Turn(g[k - 1], k)]
           G == [k \in 1 .. n |-> [d \in Rounds |-> Turn(d, k)]]
<1>1. DrainPendingKeys = A[n]
  BY DEF DrainPendingKeys
<1>2. n \in Nat /\ start \in Rounds
  <2>1. <<>> \in Strokes /\ n \in Nat
    BY DEF Strokes
  <2> QED  BY <2>1 DEF Rounds
<1>3. ASSUME NEW k \in 1 .. n, NEW d \in Rounds PROVE Turn(d, k) \in Rounds
  <2>1. wait.pending[k] \in 1 .. Slots
    BY StrokesNeedSlots, Zenon
  <2> QED  BY <2>1, StrokeInjected
<1>4. G \in [1 .. n -> [Rounds -> Rounds]]
  BY <1>3
<1>5. PICK g : Iterates(g, n, Rounds, start, G)
  <2> HIDE DEF G, n, start
  <2> QED  BY <1>2, <1>4, IterationExists
<1>6. g = [k \in 0 .. n |-> IF k = 0 THEN start ELSE Turn(g[k - 1], k)]
  <2> HIDE DEF Turn, n, start
  <2>1. \A k \in 1 .. n : g[k - 1] \in Rounds
    BY <1>2, <1>5 DEF Iterates
  <2>2. \A k \in 1 .. n : g[k] = Turn(g[k - 1], k)
    BY <1>5, <2>1 DEF Iterates
  <2>3. \A k \in 0 .. n : k # 0 => k \in 1 .. n
    BY <1>2
  <2>4. \A k \in 0 .. n : g[k] = IF k = 0 THEN start ELSE Turn(g[k - 1], k)
    BY <1>5, <2>2, <2>3 DEF Iterates
  <2>5. g = [k \in 0 .. n |-> g[k]]
    BY <1>5 DEF Iterates
  <2> QED  BY <2>4, <2>5
<1>7. A = [k \in 0 .. n |-> IF k = 0 THEN start ELSE Turn(A[k - 1], k)]
  <2> HIDE DEF Turn, n, start
  <2> QED  BY <1>6, Zenon
<1> DEFINE P == {k \in 0 .. n : A[k] \in Rounds}
<1>8. 0 \in P
  <2> HIDE DEF A, Turn, start, n
  <2>1. A[0] = start
    BY <1>2, <1>7
  <2> QED  BY <1>2, <2>1
<1>9. ASSUME NEW k \in 1 .. n, k - 1 \in P PROVE k \in P
  <2> HIDE DEF A, Turn, start, n
  <2>1. k \in 0 .. n /\ k # 0
    BY <1>2
  <2>2. A[k] = Turn(A[k - 1], k)
    BY <1>7, <2>1
  <2>3. A[k - 1] \in Rounds
    BY <1>9
  <2> QED  BY <1>3, <2>1, <2>2, <2>3
<1>10. P = 0 .. n
  <2>1. P \in SUBSET (0 .. n)
    OBVIOUS
  <2> HIDE DEF P, n
  <2> QED  BY <1>2, <1>8, <1>9, <2>1, IntervalInduction
<1>11. n \in P
  <2> HIDE DEF P, n
  <2> QED  BY <1>2, <1>10
<1> HIDE DEF A, n
<1> QED  BY <1>1, <1>11
-----------------------------------------------------------------------------
(* Types, and what they give for type().                                   *)

LEMMA NothingAwaitedTyped == NoWait \in WaitRecords
<1>1. <<>> \in Strokes
  BY DEF Strokes
<1> QED  BY <1>1 DEF NoWait, WaitRecords

LEMMA InjectionStoppedTyped ==
    ASSUME NEW w \in WaitRecords PROVE StopInjecting(w) \in WaitRecords
<1>1. <<>> \in Strokes
  BY DEF Strokes
<1> QED  BY <1>1 DEF StopInjecting, WaitRecords

\* The type invariant in parts, each disturbed by other actions.
EngineTyped ==
    /\ loaded \in BOOLEAN /\ name \in Scripts \union {NoScript} /\ log \in BOOLEAN
    /\ st \in States /\ co \in {"none", "live", "dead"} /\ exec \in BOOLEAN
    /\ call \in {"none", "frames", "text", "type", "plain"}
    /\ answer \in {"none", "found", "timeout"}

CountsTyped == frame \in Nat /\ frames \in 0 .. MaxFrame

LEMMA TypeParts ==
    TypeOK <=> /\ EngineTyped /\ CountsTyped
               /\ kbd \in Keyboards /\ wait \in WaitRecords /\ owed \in Nat
BY DEF TypeOK, EngineTyped, CountsTyped, Keyboards, WaitRecords, Strokes

LEMMA EngineStaysTyped == EngineTyped /\ [Next]_vars => EngineTyped'
<1> SUFFICES ASSUME EngineTyped, [Next]_vars PROVE EngineTyped'
  OBVIOUS
<1> USE DEF EngineTyped, States, engine, ghosts
<1>1. CASE GuestReads \/ HostKey \/ GuestSetsScanning
  BY <1>1 DEF GuestReads, HostKey, GuestSetsScanning
<1>2. ASSUME NEW n \in Scripts, LuaLoad(n) PROVE EngineTyped'
  BY <1>2 DEF LuaLoad
<1>3. CASE LuaStart \/ LuaStop
  BY <1>3 DEF LuaStart, LuaStop
<1>4. CASE DispatchFrame
  BY <1>4 DEF DispatchFrame, NewFrame, Resume
<1>5. CASE DispatchTextWait
  BY <1>5 DEF DispatchTextWait, NewFrame, Resume
<1>6. CASE DispatchType
  BY <1>6 DEF DispatchType, NewFrame, Resume
<1>7. CASE DispatchFrameWait
  BY <1>7 DEF DispatchFrameWait, NewFrame, Resume
<1>8. CASE TextCeiling \/ TypeCeiling
  BY <1>8 DEF TextCeiling, TypeCeiling
<1>9. CASE ReapStalledWaits
  BY <1>9 DEF ReapStalledWaits, Resume
<1>10. CASE LuaKey \/ PlainYield \/ ScriptEnds
  BY <1>10 DEF LuaKey, PlainYield, ScriptEnds
<1>11. CASE LuaWaitFrames \/ LuaWaitForText \/ LuaType
  <2>1. CASE LuaWaitFrames
    BY <2>1 DEF LuaWaitFrames, Yield
  <2>2. CASE LuaWaitForText
    BY <2>2 DEF LuaWaitForText, Yield
  <2>3. CASE LuaType
    BY <2>3 DEF LuaType, Yield
  <2> QED  BY <1>11, <2>1, <2>2, <2>3
<1>12. CASE UNCHANGED vars
  BY <1>12 DEF vars
<1> QED  BY <1>1, <1>2, <1>3, <1>4, <1>5, <1>6, <1>7, <1>8, <1>9, <1>10, <1>11, <1>12
            DEF Next, Commands, Dispatch, Script

LEMMA CountsStayTyped == CountsTyped /\ [Next]_vars => CountsTyped'
<1> SUFFICES ASSUME CountsTyped, [Next]_vars PROVE CountsTyped'
  OBVIOUS
<1> USE ScriptAssumption DEF CountsTyped
<1>1. CASE Dispatch
  <2>1. frames' \in 0 .. MaxFrame /\ frames' \in Nat
    BY <1>1 DEF Dispatch, DispatchFrame, DispatchTextWait, DispatchType,
                DispatchFrameWait, NewFrame
  <2>2. frame' = frames' \/ frame' = frame
    BY <1>1 DEF Dispatch, DispatchFrame, DispatchTextWait, DispatchType,
                DispatchFrameWait
  <2> QED  BY <2>1, <2>2
<1>2. CASE ~Dispatch
  <2>1. frames' = frames /\ (frame' = frame \/ frame' = 0)
    BY <1>2 DEF Next, Commands, Script, vars, GuestReads, HostKey, GuestSetsScanning,
                LuaLoad, LuaStart, LuaStop, TextCeiling, TypeCeiling, ReapStalledWaits,
                LuaKey, LuaWaitFrames, LuaWaitForText, LuaType, PlainYield, ScriptEnds
  <2> QED  BY <2>1
<1> QED  BY <1>1, <1>2

\* A frame in which the keyboard changes is one of type(): what it does to the
\* keyboard is the loop of DrainPendingKeys.
LEMMA FrameDrains ==
    ASSUME [Next]_vars, frames' # frames, frames \in Nat
    PROVE  kbd' = kbd \/ kbd' = DrainPendingKeys.kbd
<1>1. Dispatch
  BY DEF Next, Commands, Script, vars, GuestReads, HostKey, GuestSetsScanning,
         LuaLoad, LuaStart, LuaStop, TextCeiling, TypeCeiling, ReapStalledWaits,
         LuaKey, LuaWaitFrames, LuaWaitForText, LuaType, PlainYield, ScriptEnds
<1> QED  BY <1>1 DEF Dispatch, DispatchFrame, DispatchTextWait, DispatchType,
                     DispatchFrameWait

LEMMA KeyboardStaysTyped ==
    kbd \in Keyboards /\ wait \in WaitRecords /\ [Next]_vars => kbd' \in Keyboards
<1> SUFFICES ASSUME kbd \in Keyboards, wait \in WaitRecords, [Next]_vars
             PROVE  kbd' \in Keyboards
  OBVIOUS
<1>1. Slots \in Nat
  BY ScriptAssumption
<1> DEFINE freed == [kbd EXCEPT !.over = FALSE, !.used = kbd.used - 1]
           emptied == [kbd EXCEPT !.over = FALSE, !.ready = TRUE]
           switched == [kbd EXCEPT !.used = 0, !.over = FALSE, !.scan = ~kbd.scan]
<1>2. kbd.used \in 0 .. Slots
  BY DEF Keyboards
<1>3. kbd.used > 0 => kbd.used - 1 \in 0 .. Slots
  BY <1>1, <1>2
<1>4. kbd.used > 0 => freed \in Keyboards
  BY <1>3 DEF Keyboards
<1>5. emptied \in Keyboards
  BY DEF Keyboards
<1>6. CASE GuestReads
  <2>1. kbd' = IF kbd.used > 0 THEN freed ELSE emptied
    BY <1>6 DEF GuestReads
  <2> HIDE DEF freed, emptied
  <2> QED  BY <1>4, <1>5, <2>1
<1>7. CASE HostKey \/ LuaKey
  BY <1>7, KeysAdded DEF HostKey, LuaKey
<1>8. CASE GuestSetsScanning
  <2>1. kbd' = switched
    BY <1>8 DEF GuestSetsScanning
  <2>2. 0 \in 0 .. Slots /\ (~kbd.scan) \in BOOLEAN
    BY <1>1
  <2>3. switched \in Keyboards
    BY <2>2 DEF Keyboards
  <2> HIDE DEF switched
  <2> QED  BY <2>1, <2>3
<1>9. CASE DispatchType
  <2>1. DrainPendingKeys \in Rounds
    BY KeysDrained DEF WaitRecords
  <2>2. kbd' = DrainPendingKeys.kbd
    BY <1>9 DEF DispatchType
  <2> QED  BY <2>1, <2>2 DEF Rounds
<1>10. CASE kbd' = kbd
  BY <1>10
<1>11. GuestReads \/ HostKey \/ LuaKey \/ GuestSetsScanning \/ DispatchType \/ kbd' = kbd
  BY DEF Next, Commands, Script, Dispatch, vars, LuaLoad, LuaStart, LuaStop,
         TextCeiling, TypeCeiling, ReapStalledWaits, LuaWaitFrames, LuaWaitForText,
         LuaType, PlainYield, ScriptEnds, DispatchFrame, DispatchTextWait,
         DispatchFrameWait
<1> QED  BY <1>6, <1>7, <1>8, <1>9, <1>10, <1>11

LEMMA WaitsStayTyped ==
    /\ kbd \in Keyboards /\ wait \in WaitRecords /\ owed \in Nat /\ frame \in Nat
    /\ [Next]_vars
    => wait' \in WaitRecords /\ owed' \in Nat
<1> SUFFICES ASSUME kbd \in Keyboards, wait \in WaitRecords, owed \in Nat, frame \in Nat,
                    [Next]_vars
             PROVE  wait' \in WaitRecords /\ owed' \in Nat
  OBVIOUS
<1> USE ScriptAssumption DEF ghosts
<1>1. CASE wait' = wait /\ owed' = owed
  BY <1>1
<1>2. CASE LuaStart \/ LuaStop
  BY <1>2, NothingAwaitedTyped DEF LuaStart, LuaStop
<1>3. CASE DispatchTextWait
  BY <1>3 DEF DispatchTextWait, WaitRecords
<1>4. CASE DispatchType
  <2>1. DrainPendingKeys \in Rounds
    BY KeysDrained DEF WaitRecords
  <2>2. DrainPendingKeys.left \in Strokes
    BY <2>1 DEF Rounds
  <2>3. owed' = Len(DrainPendingKeys.left)
    BY <1>4 DEF DispatchType
  <2>4. owed' \in Nat
    BY <2>2, <2>3 DEF Strokes
  <2>5. \/ wait' = StopInjecting(wait)
        \/ wait' = [wait EXCEPT !.pending = DrainPendingKeys.left]
    BY <1>4 DEF DispatchType
  <2>6. [wait EXCEPT !.pending = DrainPendingKeys.left] \in WaitRecords
    BY <2>2 DEF WaitRecords
  <2> QED  BY <2>4, <2>5, <2>6, InjectionStoppedTyped
<1>5. CASE TextCeiling \/ TypeCeiling
  BY <1>5 DEF TextCeiling, TypeCeiling, WaitRecords
<1>6. CASE ReapStalledWaits
  <2>1. wait' = [wait EXCEPT !.text = FALSE] \/ wait' = StopInjecting(wait)
    BY <1>6 DEF ReapStalledWaits
  <2>2. [wait EXCEPT !.text = FALSE] \in WaitRecords
    BY DEF WaitRecords
  <2> QED  BY <1>6, <2>1, <2>2, InjectionStoppedTyped DEF ReapStalledWaits
<1>7. CASE LuaWaitFrames
  <2>1. PICK n \in Waits : wait' = [wait EXCEPT !.until = frame + n]
    BY <1>7 DEF LuaWaitFrames
  <2>2. frame + n \in Nat
    OBVIOUS
  <2> QED  BY <1>7, <2>1, <2>2 DEF LuaWaitFrames, WaitRecords
<1>8. CASE LuaWaitForText
  <2>1. PICK n \in Waits :
          wait' = [wait EXCEPT !.text = TRUE, !.due = frame + n, !.textWall = FALSE]
    BY <1>8 DEF LuaWaitForText
  <2>2. frame + n \in Nat
    OBVIOUS
  <2> QED  BY <1>8, <2>1, <2>2 DEF LuaWaitForText, WaitRecords
<1>9. CASE LuaType
  <2>1. PICK t \in Texts :
          /\ wait' = [wait EXCEPT !.typing = TRUE, !.pending = t, !.typeWall = FALSE]
          /\ owed' = Len(t)
    BY <1>9 DEF LuaType
  <2>2. t \in Strokes /\ Len(t) \in Nat
    BY DEF Strokes
  <2> QED  BY <2>1, <2>2 DEF WaitRecords
<1>10. \/ wait' = wait /\ owed' = owed
       \/ LuaStart \/ LuaStop \/ DispatchTextWait \/ DispatchType
       \/ TextCeiling \/ TypeCeiling \/ ReapStalledWaits
       \/ LuaWaitFrames \/ LuaWaitForText \/ LuaType
  BY DEF Next, Commands, Script, Dispatch, vars, GuestReads, HostKey,
         GuestSetsScanning, LuaLoad, LuaKey, PlainYield, ScriptEnds,
         DispatchFrame, DispatchFrameWait
<1> QED  BY <1>1, <1>2, <1>3, <1>4, <1>5, <1>6, <1>7, <1>8, <1>9, <1>10

\* Every variable keeps its type; in particular the keyboard's buffer never
\* holds more than its slots, and the strokes of type() that wait are strokes.
THEOREM ScriptTyped == Spec => []TypeOK
<1>1. Init => TypeOK
  <2>1. Init => kbd \in Keyboards
    BY ScriptAssumption DEF Init, Keyboards
  <2>2. Init => EngineTyped
    BY DEF Init, EngineTyped, States
  <2>3. Init => CountsTyped /\ owed \in Nat
    BY ScriptAssumption DEF Init, CountsTyped
  <2>4. Init => wait \in WaitRecords
    BY NothingAwaitedTyped DEF Init
  <2> QED  BY <2>1, <2>2, <2>3, <2>4, TypeParts
<1>2. TypeOK /\ [Next]_vars => TypeOK'
  <2> SUFFICES ASSUME TypeOK, [Next]_vars PROVE TypeOK'
    OBVIOUS
  <2>1. EngineTyped' /\ CountsTyped' /\ kbd' \in Keyboards
        /\ wait' \in WaitRecords /\ owed' \in Nat
    BY TypeParts, EngineStaysTyped, CountsStayTyped, KeyboardStaysTyped, WaitsStayTyped
       DEF CountsTyped
  <2> QED
    BY <2>1 DEF TypeOK, EngineTyped, CountsTyped, Keyboards, WaitRecords, Strokes
<1> QED  BY <1>1, <1>2, PTL DEF Spec

\* The keys of type() never overflow the keyboard's buffer, however full other
\* sources keep it, whatever its size, the texts and the strokes' needs.
THEOREM TypingNeverOverflows == Spec => TypeNeverOverflows
<1>1. TypeOK /\ [Next]_vars =>
        [wait.typing /\ frames' # frames => (kbd'.over => kbd.over)]_vars
  <2> SUFFICES ASSUME TypeOK, [Next]_vars, frames' # frames, kbd'.over PROVE kbd.over
    OBVIOUS
  <2>1. kbd' = kbd \/ kbd' = DrainPendingKeys.kbd
    BY FrameDrains, TypeParts DEF CountsTyped
  <2>2. DrainPendingKeys \in Rounds
    BY TypeParts, KeysDrained DEF WaitRecords
  <2> QED  BY <2>1, <2>2 DEF Rounds
<1> QED  BY <1>1, ScriptTyped, PTL DEF Spec, TypeNeverOverflows
=============================================================================
