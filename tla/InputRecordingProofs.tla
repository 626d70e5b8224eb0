------------------------ MODULE InputRecordingProofs ------------------------
(***************************************************************************)
(* What a recording returns, for any number of clients and events and any  *)
(* time.  The invariant adds what the properties leave unsaid: no event is *)
(* left in the buffer once a recording has ended, the clock has not gone   *)
(* back behind the start, and identifiers of events are not used twice.    *)
(* Then the replay of input, for any requests and texts.                   *)
(***************************************************************************)
EXTENDS InputRecording, InputReplay, SequenceTheorems, FiniteSetTheorems,
        WellFoundedInduction, TLAPS

BufferInv ==
    /\ start <= now
    /\ ~active => buffer = <<>>
    /\ emu = "setrate" => ~active

IdsInv ==
    /\ \A i \in DOMAIN buffer : buffer[i].id <= events
    /\ \A i \in DOMAIN given : given[i].id <= events
    /\ \A i, j \in DOMAIN buffer : buffer[i].id = buffer[j].id => i = j
    /\ \A i, j \in DOMAIN given : given[i].id = given[j].id => i = j
    /\ \A i \in DOMAIN given, j \in DOMAIN buffer : given[i].id # buffer[j].id
    /\ active => {buffer[i].id : i \in DOMAIN buffer} = heard

RecInv == TypeOK /\ BufferInv /\ RecordingOrdered /\ IdsInv /\ RateKept

-----------------------------------------------------------------------------
(* Sequences of events.                                                    *)

LEMMA Appended ==
    ASSUME NEW S, NEW s \in Seq(S), NEW e \in S
    PROVE  /\ Append(s, e) \in Seq(S)
           /\ DOMAIN Append(s, e) = DOMAIN s \cup {Len(s) + 1}
           /\ Len(s) + 1 \notin DOMAIN s
           /\ \A i \in DOMAIN s : i < Len(s) + 1 /\ Append(s, e)[i] = s[i]
           /\ Append(s, e)[Len(s) + 1] = e
OBVIOUS

LEMMA Joined ==
    ASSUME NEW S, NEW s \in Seq(S), NEW r \in Seq(S)
    PROVE  /\ s \o r \in Seq(S)
           /\ \A i \in DOMAIN (s \o r) :
                 \/ i \in DOMAIN s /\ (s \o r)[i] = s[i]
                 \/ /\ i - Len(s) \in DOMAIN r /\ i \notin DOMAIN s
                    /\ (s \o r)[i] = r[i - Len(s)]
OBVIOUS

LEMMA Numbers ==
    ASSUME NEW s \in Seq(Event), NEW i \in DOMAIN s
    PROVE  i \in Nat /\ s[i].id \in Nat /\ s[i].t \in Nat
<1>1. i \in Nat /\ s[i] \in Event
    OBVIOUS
<1>2. s[i].id \in 1 .. MaxEvents /\ s[i].t \in 0 .. MaxTime
    BY <1>1 DEF Event
<1> QED BY <1>1, <1>2, RecordingAssumption

LEMMA LaterIsOlder ==
    ASSUME NEW a \in Int, NEW b \in Int, NEW s \in Int, a <= b
    PROVE  a - s <= b - s /\ a - s \in Int /\ b - s \in Int
OBVIOUS

LEMMA Empty == <<>> \in Seq(Event) /\ DOMAIN <<>> = {}
OBVIOUS

-----------------------------------------------------------------------------

LEMMA InitRec == Init => RecInv
<1> SUFFICES ASSUME Init PROVE RecInv
    OBVIOUS
<1>1. TypeOK
  <2>1. 0 \in 0 .. MaxTime /\ 0 \in 0 .. MaxEvents
    BY RecordingAssumption
  <2> QED BY <2>1, Empty DEF Init, TypeOK
<1>2. BufferInv /\ RecordingOrdered /\ IdsInv /\ RateKept
    BY Empty DEF Init, BufferInv, RecordingOrdered, IdsInv, RateKept
<1> QED BY <1>1, <1>2 DEF RecInv

LEMMA EventRec ==
    ASSUME RecInv, \E replayed \in BOOLEAN : OnEvent(replayed) PROVE RecInv'
<1> DEFINE e == [id |-> events + 1, t |-> now - start]
           b == Append(buffer, e)
           n == Len(buffer) + 1
<1> USE DEF RecInv
<1>1. /\ events \in Nat /\ events + 1 \in 1 .. MaxEvents /\ events' = events + 1
      /\ UNCHANGED <<active, paused, start, now, emu, pc, given>>
      /\ UNCHANGED rates
      /\ now \in 0 .. MaxTime /\ start \in 0 .. MaxTime /\ now - start \in 0 .. MaxTime
      /\ buffer \in Seq(Event) /\ given \in Seq(Event)
    BY RecordingAssumption DEF OnEvent, TypeOK, BufferInv
<1>r. RateKept'
    BY <1>1 DEF RateKept, rates
<1>2. events + 1 \in 0 .. MaxEvents
    BY <1>1, RecordingAssumption
<1>3. CASE UNCHANGED <<buffer, heard>>
  <2>1. TypeOK'
    BY <1>1, <1>2, <1>3 DEF TypeOK, rates
  <2>2. BufferInv' /\ RecordingOrdered'
    BY <1>1, <1>3 DEF BufferInv, RecordingOrdered
  <2>3. \A i \in DOMAIN buffer : buffer[i].id \in Nat
    BY <1>1, Numbers
  <2>4. \A i \in DOMAIN given : given[i].id \in Nat
    BY <1>1, Numbers
  <2>5. IdsInv'
    BY <1>1, <1>3, <2>3, <2>4 DEF IdsInv
  <2> QED BY <1>r, <2>1, <2>2, <2>5
<1>4. CASE active /\ buffer' = b /\ heard' = heard \cup {events + 1} /\ emu = "run"
  <2>1. e \in Event
    BY <1>1 DEF Event
  <2>2. /\ b \in Seq(Event) /\ DOMAIN b = DOMAIN buffer \cup {n}
        /\ \A i \in DOMAIN buffer : i < n /\ b[i] = buffer[i]
        /\ b[n] = e /\ n \notin DOMAIN buffer
    BY <1>1, <2>1, Appended
  <2>3. e.id = events + 1 /\ e.t = now - start
    OBVIOUS
  <2> HIDE DEF b, n, e
  <2>4. TypeOK'
    BY <1>1, <1>2, <1>4, <2>2 DEF TypeOK, rates
  <2>5. BufferInv'
    BY <1>1, <1>4 DEF BufferInv
  <2>6. \A i \in DOMAIN buffer : buffer[i].id \in Nat /\ buffer[i].t \in Nat /\ i \in Nat
    BY <1>1, Numbers
  <2>7. \A i \in DOMAIN given : given[i].id \in Nat
    BY <1>1, Numbers
  <2>8. RecordingOrdered'
    BY <1>1, <1>4, <2>2, <2>3, <2>6 DEF RecordingOrdered
  <2>9. IdsInv'
    <3>1. \A i \in DOMAIN buffer : buffer[i].id <= events /\ buffer[i].id # events + 1
      BY <1>1, <2>6 DEF IdsInv
    <3>2. \A i \in DOMAIN given : given[i].id <= events /\ given[i].id # events + 1
      BY <1>1, <2>7 DEF IdsInv
    <3>3. \A i \in DOMAIN b : b[i].id <= events + 1
      BY <1>1, <2>2, <2>3, <2>6, <3>1
    <3>4. \A i \in DOMAIN given : given[i].id <= events + 1
      BY <1>1, <2>7, <3>2
    <3>5. \A i, j \in DOMAIN b : b[i].id = b[j].id => i = j
      BY <2>2, <2>3, <3>1 DEF IdsInv
    <3>6. \A i \in DOMAIN given, j \in DOMAIN b : given[i].id # b[j].id
      BY <2>2, <2>3, <3>2 DEF IdsInv
    <3>7. {b[i].id : i \in DOMAIN b} = heard \cup {events + 1}
      BY <1>4, <2>2, <2>3 DEF IdsInv
    <3> QED BY <1>1, <1>4, <3>3, <3>4, <3>5, <3>6, <3>7 DEF IdsInv
  <2> QED BY <1>r, <2>4, <2>5, <2>8, <2>9
<1>5. \/ UNCHANGED <<buffer, heard>>
      \/ active /\ buffer' = b /\ heard' = heard \cup {events + 1} /\ emu = "run"
    BY <1>1 DEF OnEvent, Elapsed
<1> QED BY <1>3, <1>4, <1>5

LEMMA StartRec ==
    ASSUME RecInv, NEW c \in Clients, StartRecordingCommand(c) PROVE RecInv'
<1> USE DEF RecInv
<1>1. /\ emu = "run" /\ pc' = [pc EXCEPT ![c] = "idle"]
      /\ buffer' = <<>> /\ active' = TRUE /\ paused' = FALSE /\ start' = now
      /\ heard' = {} /\ startRate' = rate /\ hotkey' = FALSE
      /\ UNCHANGED <<now, emu, events, rate, given>>
    BY DEF StartRecordingCommand, OnEmulationThread, Goto, FreshBuffer
<1>2. TypeOK'
    BY <1>1, Empty DEF TypeOK
<1>3. BufferInv'
    BY <1>1 DEF BufferInv, TypeOK
<1>4. RecordingOrdered' /\ IdsInv' /\ RateKept'
    BY <1>1, Empty DEF RecordingOrdered, IdsInv, RateKept
<1> QED BY <1>2, <1>3, <1>4

LEMMA StopRec == ASSUME RecInv, NEW c \in Clients, PostStop(c) PROVE RecInv'
<1> DEFINE g == given \o buffer
<1> USE DEF RecInv
<1>1. /\ active' = FALSE /\ paused' = FALSE /\ given' = g /\ buffer' = <<>>
      /\ UNCHANGED <<start, now, emu, pc, events, heard, rate, startRate, hotkey>>
    BY DEF PostStop, EmptyBuffer, rates
<1>2. /\ g \in Seq(Event)
      /\ \A i \in DOMAIN g :
            \/ i \in DOMAIN given /\ g[i] = given[i]
            \/ i - Len(given) \in DOMAIN buffer /\ i \notin DOMAIN given
               /\ g[i] = buffer[i - Len(given)]
    BY Joined DEF TypeOK
<1>3. TypeOK'
    BY <1>1, <1>2, Empty DEF TypeOK
<1>4. BufferInv' /\ RecordingOrdered'
    BY <1>1, Empty DEF BufferInv, RecordingOrdered
<1>5. \A i \in DOMAIN g : i \in Nat
    BY <1>2
<1>6. Len(given) \in Nat
    BY DEF TypeOK
<1>7. \A i, j \in DOMAIN g : g[i].id = g[j].id => i = j
  <2> HIDE DEF g
  <2> QED BY <1>2, <1>5, <1>6 DEF IdsInv
<1>8. IdsInv' /\ RateKept'
    BY <1>1, <1>2, <1>7, Empty DEF IdsInv, RateKept
<1> QED BY <1>3, <1>4, <1>8

\* Steps that leave the recording's events alone.
LEMMA OtherRec ==
    ASSUME RecInv,
           UNCHANGED <<active, buffer, start, events, heard, given>>,
           now' \in 0 .. MaxTime, now <= now', paused' \in BOOLEAN,
           emu' \in {"run", "setrate"}, emu' = "setrate" => ~active,
           pc' \in [Clients -> {"idle", "starting", "pausing"}],
           rate' \in Rates, startRate' = startRate, hotkey' \in BOOLEAN,
           active /\ ~hotkey' => rate' = startRate
    PROVE  RecInv'
<1> USE DEF RecInv
<1>1. TypeOK' BY DEF TypeOK
<1>2. BufferInv' BY DEF BufferInv, TypeOK
<1>3. \A i \in DOMAIN buffer : buffer[i].t \in Nat
    BY Numbers DEF TypeOK
<1>4. now - start <= now' - start /\ now - start \in Int /\ now' - start \in Int
  <2>1. now \in Int /\ now' \in Int /\ start \in Int
    BY RecordingAssumption DEF TypeOK
  <2> QED BY <2>1, LaterIsOlder
<1>5. \A i \in DOMAIN buffer : buffer[i].t <= now' - start
    BY <1>3, <1>4 DEF RecordingOrdered
<1>6. RecordingOrdered' BY <1>5 DEF RecordingOrdered
<1>7. IdsInv' /\ RateKept' BY DEF IdsInv, RateKept
<1> QED BY <1>1, <1>2, <1>6, <1>7

LEMMA NextRec == RecInv /\ [Next]_vars => RecInv'
<1> SUFFICES ASSUME RecInv, [Next]_vars PROVE RecInv'
    OBVIOUS
<1>0. /\ now \in 0 .. MaxTime /\ now <= now /\ paused \in BOOLEAN
      /\ emu \in {"run", "setrate"} /\ (emu = "setrate" => ~active)
      /\ pc \in [Clients -> {"idle", "starting", "pausing"}]
      /\ rate \in Rates /\ hotkey \in BOOLEAN /\ (active /\ ~hotkey => rate = startRate)
  <2>1. now \in 0 .. MaxTime /\ now <= now
    BY RecordingAssumption DEF RecInv, TypeOK
  <2> QED BY <2>1 DEF RecInv, TypeOK, BufferInv, RateKept
<1>1. CASE \E replayed \in BOOLEAN : OnEvent(replayed)
    BY <1>1, EventRec
<1>2. CASE CheckCycles
    BY <1>0, <1>2, OtherRec DEF CheckCycles, recording, rates
<1>3. CASE SetCycles
  <2>1. ~active
    BY <1>3 DEF SetCycles, RecInv, BufferInv
  <2> QED BY <1>0, <1>3, <2>1, OtherRec DEF SetCycles, recording
<1>7. CASE CycleHotkey
    BY <1>0, <1>7, OtherRec DEF CycleHotkey, recording
<1>4. CASE Time
  <2>1. now' \in 0 .. MaxTime /\ now <= now'
    BY <1>0, <1>4, RecordingAssumption DEF Time
  <2> QED BY <1>0, <1>4, <2>1, OtherRec DEF Time, recording, rates
<1>5. ASSUME NEW c \in Clients, Handler(c) PROVE RecInv'
  <2>1. CASE StartRecordingCommand(c)
    BY <2>1, StartRec
  <2>2. CASE PostStop(c)
    BY <2>2, StopRec
  <2>3. CASE PostStart(c) \/ StartTimesOut(c) \/ PostPause(c)
    <3>1. pc' \in [Clients -> {"idle", "starting", "pausing"}]
      BY <1>0, <2>3 DEF PostStart, StartTimesOut, PostPause, Goto
    <3> QED BY <1>0, <2>3, <3>1, OtherRec
            DEF PostStart, StartTimesOut, PostPause, recording, rates
  <2>4. CASE Pause(c)
    <3>1. pc' \in [Clients -> {"idle", "starting", "pausing"}] /\ paused' \in BOOLEAN
      BY <1>0, <2>4 DEF Pause, Goto
    <3> QED BY <1>0, <2>4, <3>1, OtherRec DEF Pause, rates
  <2> QED BY <1>5, <2>1, <2>2, <2>3, <2>4 DEF Handler
<1>6. CASE UNCHANGED vars
    BY <1>0, <1>6, OtherRec DEF vars, recording, rates
<1> QED BY <1>1, <1>2, <1>3, <1>4, <1>5, <1>6, <1>7 DEF Next

-----------------------------------------------------------------------------

\* The recording keeps its types: no time of an event is negative, although
\* a start may move the origin of the times while events arrive.
THEOREM RecordingTyped == Spec => []TypeOK
<1>1. RecInv => TypeOK BY DEF RecInv
<1> QED BY InitRec, NextRec, <1>1, PTL DEF Spec

\* Whatever starts, pauses and stops the clients send, the times of a
\* recording never go back, so it can be replayed.
THEOREM RecordingsReplayable == Spec => []RecordingOrdered
<1>1. RecInv => RecordingOrdered BY DEF RecInv
<1> QED BY InitRec, NextRec, <1>1, PTL DEF Spec

\* No event is returned by two stops, and none heard since the last start is
\* missing from an active recording.
THEOREM EventsReturnedOnce == Spec => []EventsOnce
<1>1. RecInv => EventsOnce
  <2> SUFFICES ASSUME RecInv PROVE EventsOnce
    OBVIOUS
  <2> DEFINE g == given \o buffer
             f == [i \in DOMAIN g |-> g[i].id]
  <2>1. \A i \in DOMAIN g :
            \/ i \in DOMAIN given /\ g[i] = given[i]
            \/ i - Len(given) \in DOMAIN buffer /\ i \notin DOMAIN given
               /\ g[i] = buffer[i - Len(given)]
    BY Joined DEF RecInv, TypeOK
  <2>2. g \in Seq(Event) /\ Len(given) \in Nat
    BY Joined DEF RecInv, TypeOK
  <2>3. \A i \in DOMAIN g : i \in Nat
    BY <2>2
  <2>4. \A i, j \in DOMAIN g : g[i].id = g[j].id => i = j
    <3> HIDE DEF g
    <3> QED BY <2>1, <2>2, <2>3 DEF RecInv, IdsInv
  <2>5. IsInjective(f)
    <3> HIDE DEF g
    <3> QED BY <2>4 DEF IsInjective
  <2> QED BY <2>5 DEF EventsOnce, RecInv, IdsInv
<1> QED BY InitRec, NextRec, <1>1, PTL DEF Spec

\* The command of the API never changes the rate of the CPU under a
\* recording, although its check and its change are separate steps: the rate
\* is that of the start unless a cycle hotkey was pressed.
THEOREM RateAlwaysKept == Spec => []RateKept
<1>1. RecInv => RateKept BY DEF RecInv
<1> QED BY InitRec, NextRec, <1>1, PTL DEF Spec

-----------------------------------------------------------------------------
(* Replay: induction and iteration over an interval.                        *)

\* A set of natural numbers that is not empty has a least element.
LEMMA LeastNat ==
    ASSUME NEW T \in SUBSET Nat, T # {}
    PROVE  \E x \in T : \A y \in T : x <= y
<1> DEFINE W == OpToRel(<, Nat)
<1>1. IsWellFoundedOn(W, Nat)
  BY NatLessThanWellFounded, Zenon
<1>2. \A x, y \in Nat : x < y => <<x, y>> \in W
  BY DEF OpToRel
<1> HIDE DEF W
<1>3. PICK x \in T : \A y \in T : ~(<<y, x>> \in W)
  BY <1>1, WFMin
<1>4. ASSUME NEW y \in T PROVE x <= y
  <2>1. x \in Nat /\ y \in Nat
    OBVIOUS
  <2>2. ~(y < x)
    BY <1>2, <1>3, <2>1, Zenon
  <2> QED  BY <2>1, <2>2
<1> QED  BY <1>4

\* What holds at 0 and is inherited from a number by the next holds up to n.
LEMMA IntervalInduction ==
    ASSUME NEW n \in Nat, NEW P \in SUBSET (0 .. n), 0 \in P,
           \A i \in 1 .. n : i - 1 \in P => i \in P
    PROVE  P = 0 .. n
<1> DEFINE T == (0 .. n) \ P
<1>1. SUFFICES ASSUME T # {} PROVE FALSE
  OBVIOUS
<1>2. T \in SUBSET Nat
  OBVIOUS
<1>3. PICK x \in T : \A y \in T : x <= y
  <2> HIDE DEF T
  <2> QED  BY <1>1, <1>2, LeastNat
<1>4. x # 0 /\ x - 1 \in 0 .. n /\ x \in 1 .. n
  OBVIOUS
<1> QED  BY <1>3, <1>4

\* f is the iteration that begins with c and goes on with the steps G.
Iterates(f, n, D, c, G) ==
    f \in [0 .. n -> D] /\ f[0] = c /\ \A i \in 1 .. n : f[i] = G[i][f[i - 1]]

\* There is one if the steps stay in D.
LEMMA IterationExists ==
    ASSUME NEW n \in Nat, NEW D, NEW c \in D, NEW G \in [1 .. n -> [D -> D]]
    PROVE  \E f : Iterates(f, n, D, c, G)
<1> DEFINE P == {k \in 0 .. n : \E f : Iterates(f, k, D, c, G)}
<1>1. 0 \in P
  <2> DEFINE f == [i \in 0 .. 0 |-> c]
  <2>1. Iterates(f, 0, D, c, G)
    BY DEF Iterates
  <2> HIDE DEF f
  <2> QED  BY <2>1
<1>2. ASSUME NEW k \in 1 .. n, k - 1 \in P PROVE k \in P
  <2>1. PICK f : Iterates(f, k - 1, D, c, G)
    BY <1>2
  <2> DEFINE g == [i \in 0 .. k |-> IF i = k THEN G[k][f[k - 1]] ELSE f[i]]
  <2>2. Iterates(g, k, D, c, G)
    BY <2>1 DEF Iterates
  <2>3. k \in 0 .. n
    OBVIOUS
  <2> HIDE DEF g
  <2> QED  BY <2>2, <2>3
<1>3. P = 0 .. n
  <2>1. P \in SUBSET (0 .. n)
    OBVIOUS
  <2> HIDE DEF P
  <2> QED  BY <1>1, <1>2, <2>1, IntervalInduction
<1>4. n \in P
  <2> HIDE DEF P
  <2> QED  BY <1>3
<1> QED  BY <1>4, Zenon

-----------------------------------------------------------------------------
(* Replay: what is made of a request.                                      *)

Asked ==
    [kind : {"key", "mouse"}, form : {"t", "delay", "none"},
     v : Nat, frame : Nat \cup {NoFrame}]

\* Events of the chain of timers: what was asked has no frame and a time that
\* is counted, and 't' is the time of the event.
Timed(e) ==
    /\ e.asked.frame = NoFrame /\ e.asked.v <= MaxAge
    /\ e.asked.form = "t" => e.t = e.asked.v

LEMMA PositionIs ==
    ASSUME NEW t \in Nat, NEW a \in Asked
    PROVE  /\ Position(t, a) \in Nat
           /\ a.form = "t" => Position(t, a) = a.v
           /\ a.form = "delay" => Position(t, a) = t + a.v
<1>1. a.v \in Nat /\ a.form \in {"t", "delay", "none"}
  BY DEF Asked
<1>2. CASE a.form = "t"
  BY <1>1, <1>2 DEF Position
<1>3. CASE a.form = "delay"
  BY <1>1, <1>3 DEF Position
<1>4. CASE a.form = "none"
  BY <1>1, <1>4 DEF Position
<1> QED  BY <1>1, <1>2, <1>3, <1>4

LEMMA EventFields ==
    ASSUME NEW s \in Seq(InputEvent), NEW i \in 1 .. Len(s)
    PROVE  /\ s[i] \in InputEvent /\ s[i].t \in Nat /\ s[i].frame \in Nat
           /\ s[i].asked \in Asked
<1>1. s[i] \in InputEvent
  OBVIOUS
<1> QED  BY <1>1 DEF InputEvent, Asked

LEMMA ParsedIs ==
    ASSUME NEW req \in Seq(Asked)
    PROVE  /\ Parse(req) \in Seq(InputEvent) /\ Len(Parse(req)) = Len(req)
           /\ \A i \in 1 .. Len(req) :
                 /\ Parse(req)[i].asked = req[i]
                 /\ Parse(req)[i].frame = IF req[i].frame = NoFrame THEN 0 ELSE req[i].frame
                 /\ Parse(req)[i].t =
                        Position(IF i = 1 THEN 0 ELSE Parse(req)[i - 1].t, req[i])
<1> DEFINE n == Len(req)
           Turn(t, k) == Position(t, req[k])
           A == CHOOSE g : g = [k \in 0 .. n |-> IF k = 0 THEN 0 ELSE Turn(g[k - 1], k)]
           G == [k \in 1 .. n |-> [t \in Nat |-> Turn(t, k)]]
           Made(k) == [kind |-> req[k].kind, t |-> A[k], asked |-> req[k],
                       frame |-> IF req[k].frame = NoFrame THEN 0 ELSE req[k].frame]
<1>1. Parse(req) = [k \in 1 .. n |-> Made(k)]
  BY DEF Parse
<1>2. n \in Nat /\ 0 \in Nat
  OBVIOUS
<1>3. ASSUME NEW k \in 1 .. n, NEW t \in Nat PROVE Turn(t, k) \in Nat
  <2>1. req[k] \in Asked
    OBVIOUS
  <2> QED  BY <2>1, PositionIs
<1>4. G \in [1 .. n -> [Nat -> Nat]]
  <2> HIDE DEF Turn
  <2> QED  BY <1>3
<1>5. PICK g : Iterates(g, n, Nat, 0, G)
  <2> HIDE DEF G, n
  <2> QED  BY <1>2, <1>4, IterationExists
<1>6. g = [k \in 0 .. n |-> IF k = 0 THEN 0 ELSE Turn(g[k - 1], k)]
  <2> HIDE DEF Turn, n
  <2>1. \A k \in 1 .. n : g[k - 1] \in Nat
    BY <1>2, <1>5 DEF Iterates
  <2>2. \A k \in 1 .. n : g[k] = Turn(g[k - 1], k)
    BY <1>5, <2>1 DEF Iterates
  <2>3. \A k \in 0 .. n : k # 0 => k \in 1 .. n
    BY <1>2
  <2>4. \A k \in 0 .. n : g[k] = IF k = 0 THEN 0 ELSE Turn(g[k - 1], k)
    BY <1>5, <2>2, <2>3 DEF Iterates
  <2>5. g = [k \in 0 .. n |-> g[k]]
    BY <1>5 DEF Iterates
  <2> QED  BY <2>4, <2>5
<1>7. A = [k \in 0 .. n |-> IF k = 0 THEN 0 ELSE Turn(A[k - 1], k)]
  <2> HIDE DEF Turn, n
  <2> QED  BY <1>6, Zenon
<1>8. A[0] = 0 /\ \A k \in 1 .. n : A[k] = Turn(A[k - 1], k)
  <2> HIDE DEF A, Turn, n
  <2> QED  BY <1>2, <1>7
<1> DEFINE P == {k \in 0 .. n : A[k] \in Nat}
<1>9. 0 \in P
  <2> HIDE DEF A, Turn, n
  <2> QED  BY <1>2, <1>8
<1>10. ASSUME NEW k \in 1 .. n, k - 1 \in P PROVE k \in P
  <2> HIDE DEF A, Turn, n
  <2>1. k \in 0 .. n /\ A[k] = Turn(A[k - 1], k)
    BY <1>2, <1>8
  <2>2. A[k - 1] \in Nat
    BY <1>10
  <2> QED  BY <1>3, <2>1, <2>2
<1>11. P = 0 .. n
  <2>1. P \in SUBSET (0 .. n)
    OBVIOUS
  <2> HIDE DEF P, n
  <2> QED  BY <1>2, <1>9, <1>10, <2>1, IntervalInduction
<1>12. \A k \in 0 .. n : A[k] \in Nat
  <2> HIDE DEF A, n
  <2> QED  BY <1>11
<1> HIDE DEF A
<1>13. ASSUME NEW k \in 1 .. n PROVE Made(k) \in InputEvent
  <2>1. req[k] \in Asked /\ A[k] \in Nat
    BY <1>2, <1>12
  <2> QED  BY <2>1 DEF Asked, InputEvent, NoFrame
<1>14. Parse(req) \in Seq(InputEvent) /\ Len(Parse(req)) = n
  <2> HIDE DEF Made, n
  <2> QED  BY <1>1, <1>2, <1>13
<1>15. \A k \in 1 .. n : Parse(req)[k] = Made(k)
  <2> HIDE DEF Made, n
  <2> QED  BY <1>1
<1>16. ASSUME NEW k \in 1 .. n
       PROVE  Made(k).t = Position(IF k = 1 THEN 0 ELSE Parse(req)[k - 1].t, req[k])
  <2>1. CASE k = 1
    <3>1. A[k] = Position(A[k - 1], req[k]) /\ k - 1 = 0
      BY <1>8, <2>1
    <3> QED  BY <1>8, <2>1, <3>1
  <2>2. CASE k # 1
    <3>1. k - 1 \in 1 .. n
      BY <1>2, <2>2
    <3>2. Parse(req)[k - 1].t = A[k - 1]
      <4>1. Made(k - 1).t = A[k - 1]
        OBVIOUS
      <4> HIDE DEF Made
      <4> QED  BY <1>15, <3>1, <4>1
    <3> QED  BY <1>8, <2>2, <3>2
  <2> QED  BY <2>1, <2>2
<1>17. \A k \in 1 .. n : /\ Made(k).asked = req[k]
                        /\ Made(k).frame = IF req[k].frame = NoFrame THEN 0 ELSE req[k].frame
  OBVIOUS
<1> HIDE DEF Made
<1> QED  BY <1>14, <1>15, <1>16, <1>17

Typed ==
    {e \in InputEvent : Timed(e) /\ e.asked.form = "t"}

LEMMA StrokeTyped ==
    ASSUME NEW text \in Texts, NEW n \in 1 .. Len(text)
    PROVE  StrokeEvents(n - 1, text[n]) \in Seq(Typed)
<1>1. text \in Seq(BOOLEAN) /\ Step \in Nat /\ (n - 1) * Step <= MaxAge
  <2>1. text \in Seq(BOOLEAN) /\ Step \in Nat
    BY ReplayAssumption
  <2>2. n \in DOMAIN text
    BY <2>1
  <2> QED  BY <2>1, <2>2, Zenon, ReplayAssumption
<1> DEFINE t == (n - 1) * Step
<1>2. n - 1 \in Nat
  BY <1>1
<1>3. t \in Nat /\ t <= MaxAge
  BY <1>1, <1>2
<1> DEFINE e == [kind |-> "key", t |-> t, frame |-> 0,
                 asked |-> [kind |-> "key", form |-> "t", v |-> t, frame |-> NoFrame]]
           m == IF text[n] THEN 4 ELSE 2
<1>4. StrokeEvents(n - 1, text[n]) = [i \in 1 .. m |-> e]
  BY DEF StrokeEvents
<1> HIDE DEF t
<1>5. e \in Typed
  BY <1>3 DEF Typed, InputEvent, Timed, NoFrame
<1>6. m \in Nat
  OBVIOUS
<1> HIDE DEF e, m
<1>7. [i \in 1 .. m |-> e] \in Seq(Typed)
  BY <1>5, <1>6
<1> QED  BY <1>4, <1>7

LEMMA ExpandedIs ==
    ASSUME NEW text \in Texts PROVE Expand(text) \in Seq(Typed)
<1> DEFINE n == Len(text)
           D == Seq(Typed)
           Turn(s, k) == s \o StrokeEvents(k - 1, text[k])
           A == CHOOSE g : g = [k \in 0 .. n |-> IF k = 0 THEN <<>> ELSE Turn(g[k - 1], k)]
           G == [k \in 1 .. n |-> [s \in D |-> Turn(s, k)]]
<1>1. Expand(text) = A[n]
  BY DEF Expand
<1>2. n \in Nat /\ <<>> \in D
  BY ReplayAssumption
<1>3. ASSUME NEW k \in 1 .. n, NEW s \in D PROVE Turn(s, k) \in D
  <2>1. StrokeEvents(k - 1, text[k]) \in Seq(Typed)
    BY StrokeTyped
  <2> QED  BY <2>1
<1> HIDE DEF D
<1>4. G \in [1 .. n -> [D -> D]]
  <2> HIDE DEF Turn
  <2> QED  BY <1>3
<1>5. PICK g : Iterates(g, n, D, <<>>, G)
  <2> HIDE DEF G, n
  <2> QED  BY <1>2, <1>4, IterationExists
<1>6. g = [k \in 0 .. n |-> IF k = 0 THEN <<>> ELSE Turn(g[k - 1], k)]
  <2> HIDE DEF Turn, n
  <2>1. \A k \in 1 .. n : g[k - 1] \in D
    BY <1>2, <1>5 DEF Iterates
  <2>2. \A k \in 1 .. n : g[k] = Turn(g[k - 1], k)
    BY <1>5, <2>1 DEF Iterates
  <2>3. \A k \in 0 .. n : k # 0 => k \in 1 .. n
    BY <1>2
  <2>4. \A k \in 0 .. n : g[k] = IF k = 0 THEN <<>> ELSE Turn(g[k - 1], k)
    BY <1>5, <2>2, <2>3 DEF Iterates
  <2>5. g = [k \in 0 .. n |-> g[k]]
    BY <1>5 DEF Iterates
  <2> QED  BY <2>4, <2>5
<1>7. A = [k \in 0 .. n |-> IF k = 0 THEN <<>> ELSE Turn(A[k - 1], k)]
  <2> HIDE DEF Turn, n
  <2> QED  BY <1>6, Zenon
<1>8. A[0] = <<>> /\ \A k \in 1 .. n : A[k] = Turn(A[k - 1], k)
  <2> HIDE DEF A, Turn, n
  <2> QED  BY <1>2, <1>7
<1> DEFINE P == {k \in 0 .. n : A[k] \in D}
<1>9. 0 \in P
  <2> HIDE DEF A, Turn, n
  <2> QED  BY <1>2, <1>8
<1>10. ASSUME NEW k \in 1 .. n, k - 1 \in P PROVE k \in P
  <2> HIDE DEF A, Turn, n
  <2>1. k \in 0 .. n /\ A[k] = Turn(A[k - 1], k)
    BY <1>2, <1>8
  <2>2. A[k - 1] \in D
    BY <1>10
  <2> QED  BY <1>3, <2>1, <2>2
<1>11. P = 0 .. n
  <2>1. P \in SUBSET (0 .. n)
    OBVIOUS
  <2> HIDE DEF P, n
  <2> QED  BY <1>2, <1>9, <1>10, <2>1, IntervalInduction
<1>12. A[n] \in D
  <2> HIDE DEF A, n
  <2> QED  BY <1>2, <1>11
<1> QED  BY <1>1, <1>12 DEF D

-----------------------------------------------------------------------------
(* Replay: the keyboard's buffer and the events dispatched at a frame.     *)

Kbd == [used : 0 .. Slots, over : BOOLEAN, ready : BOOLEAN, scan : BOOLEAN]

LEMMA KeyTyped == ASSUME NEW k \in Kbd PROVE AddKey(k) \in Kbd
<1>1. Slots \in Nat
  BY ReplayAssumption
<1>2. k.used \in 0 .. Slots
  BY DEF Kbd
<1>3. CASE ~k.scan \/ k.over
  BY <1>3 DEF AddKey
<1>4. CASE k.scan /\ ~k.over /\ k.ready
  BY <1>4 DEF AddKey, Kbd
<1>5. CASE k.scan /\ ~k.over /\ ~k.ready /\ k.used < Slots
  <2>1. k.used + 1 \in 0 .. Slots
    BY <1>1, <1>2, <1>5
  <2>2. AddKey(k) = [k EXCEPT !.used = k.used + 1]
    BY <1>5 DEF AddKey
  <2> QED  BY <2>1, <2>2 DEF Kbd
<1>6. CASE k.scan /\ ~k.over /\ ~k.ready /\ ~(k.used < Slots)
  <2>1. 0 \in 0 .. Slots
    BY <1>1
  <2>2. AddKey(k) = [k EXCEPT !.used = 0, !.over = TRUE]
    BY <1>6 DEF AddKey
  <2> QED  BY <2>1, <2>2 DEF Kbd
<1> QED  BY <1>3, <1>4, <1>5, <1>6

LEMMA DispatchTyped ==
    ASSUME NEW k \in Kbd, NEW e \in InputEvent PROVE dispatch_input_event(k, e) \in Kbd
BY KeyTyped DEF dispatch_input_event

\* A key that is not held back adds one scancode, and nothing overflows.
LEMMA KeyEnters ==
    ASSUME NEW k \in Kbd, NEW e \in InputEvent, k.scan, ~Held(k, e)
    PROVE  LET r == dispatch_input_event(k, e) IN
           /\ Load(r) = Load(k) + (IF e.kind = "key" THEN 1 ELSE 0)
           /\ r.over = k.over /\ r.scan
<1>1. Slots \in Nat /\ k.used \in 0 .. Slots /\ k.over \in BOOLEAN
  BY ReplayAssumption DEF Kbd
<1>2. CASE e.kind # "key"
  <2>1. dispatch_input_event(k, e) = k
    BY <1>2 DEF dispatch_input_event
  <2>2. Load(k) \in Nat
    BY <1>1 DEF Load
  <2> QED  BY <1>2, <2>1, <2>2
<1>3. CASE e.kind = "key"
  <2>1. ~(FreeSlots(k) < 2)
    BY <1>3 DEF Held
  <2>2. ~k.over /\ k.used < Slots
    BY <1>1, <2>1 DEF FreeSlots
  <2>3. dispatch_input_event(k, e) = IF k.ready THEN [k EXCEPT !.ready = FALSE]
                                     ELSE [k EXCEPT !.used = k.used + 1]
    BY <1>3, <2>2 DEF dispatch_input_event, AddKey
  <2>4. CASE k.ready
    <3> DEFINE r == [k EXCEPT !.ready = FALSE]
    <3>1. r.used = k.used /\ ~r.ready /\ r.over = k.over /\ r.scan
      BY DEF Kbd
    <3>2. dispatch_input_event(k, e) = r
      BY <2>3, <2>4
    <3> HIDE DEF r
    <3>3. Load(r) = k.used + 1 /\ Load(k) = k.used + 0
      BY <2>4, <3>1 DEF Load
    <3> QED  BY <1>1, <1>3, <3>1, <3>2, <3>3
  <2>5. CASE ~k.ready
    <3> DEFINE r == [k EXCEPT !.used = k.used + 1]
    <3>1. r.used = k.used + 1 /\ ~r.ready /\ r.over = k.over /\ r.scan
      BY <2>5 DEF Kbd
    <3>2. dispatch_input_event(k, e) = r
      BY <2>3, <2>5
    <3> HIDE DEF r
    <3>3. Load(r) = (k.used + 1) + 1 /\ Load(k) = k.used + 1
      BY <2>5, <3>1 DEF Load
    <3> QED  BY <1>1, <1>3, <3>1, <3>2, <3>3
  <2> QED  BY <2>4, <2>5
<1> QED  BY <1>2, <1>3

LEMMA KeysAre ==
    ASSUME NEW s
    PROVE  Keys(s) = Cardinality({i \in DOMAIN s : s[i].ev.kind = "key"})
BY DEF Keys

LEMMA NoKeys == Keys(<<>>) = 0
<1>1. {i \in DOMAIN <<>> : <<>>[i].ev.kind = "key"} = {}
  OBVIOUS
<1> QED  BY <1>1, FS_EmptySet, KeysAre

LEMMA KeysAppended ==
    ASSUME NEW S, NEW s \in Seq(S), NEW o \in S
    PROVE  /\ Keys(s) \in Nat
           /\ Keys(Append(s, o)) = Keys(s) + (IF o.ev.kind = "key" THEN 1 ELSE 0)
<1> DEFINE n == Len(s)
           K == {i \in DOMAIN s : s[i].ev.kind = "key"}
           L == {i \in DOMAIN Append(s, o) : Append(s, o)[i].ev.kind = "key"}
<1>1. n \in Nat /\ DOMAIN s = 1 .. n
  OBVIOUS
<1>2. /\ DOMAIN Append(s, o) = 1 .. n \cup {n + 1} /\ n + 1 \notin 1 .. n
      /\ \A i \in 1 .. n : Append(s, o)[i] = s[i]
      /\ Append(s, o)[n + 1] = o
  OBVIOUS
<1>3. IsFiniteSet(K)
  <2>1. IsFiniteSet(1 .. n)
    BY <1>1, FS_Interval
  <2>2. K \subseteq 1 .. n
    BY <1>1
  <2> HIDE DEF K, n
  <2> QED  BY <2>1, <2>2, FS_Subset
<1>4. Cardinality(K) \in Nat
  BY <1>3, FS_CardinalityType
<1>5. Keys(s) = Cardinality(K) /\ Keys(Append(s, o)) = Cardinality(L)
  BY KeysAre, Zenon
<1>6. CASE o.ev.kind = "key"
  <2>1. L = K \cup {n + 1} /\ n + 1 \notin K
    BY <1>1, <1>2, <1>6
  <2> HIDE DEF K, L
  <2>2. Cardinality(L) = Cardinality(K) + 1
    BY <1>3, <2>1, FS_AddElement
  <2> QED  BY <1>4, <1>5, <1>6, <2>2
<1>7. CASE o.ev.kind # "key"
  <2>1. L = K
    BY <1>1, <1>2, <1>7
  <2> HIDE DEF K, L
  <2> QED  BY <1>4, <1>5, <1>7, <2>1
<1> QED  BY <1>6, <1>7

\* What the rounds of a frame n have dispatched and left of events of S, and
\* that every key among them entered the buffer.
Sent(S, n) == [ev : {e \in S : e.frame <= n}, by : {"frame"}, at : {n}, gap : {0}]

Entered(k, d) ==
    k.scan => /\ Load(d.kbd) = Load(k) + Keys(d.out)
              /\ d.kbd.over = k.over /\ d.kbd.scan

Rounds(S, n, k) ==
    {d \in [kbd : Kbd, left : Seq(S), out : Seq(Sent(S, n)), rel : {n}] : Entered(k, d)}

LEMMA OneDispatched ==
    ASSUME NEW S \in SUBSET InputEvent, NEW n \in Nat, NEW k \in Kbd,
           NEW d \in Rounds(S, n, k), NEW e \in S
    PROVE  DispatchOne(d, e) \in Rounds(S, n, k)
<1>1. /\ d \in [kbd : Kbd, left : Seq(S), out : Seq(Sent(S, n)), rel : {n}]
      /\ Entered(k, d)
  BY DEF Rounds
<1>2. d.kbd \in Kbd /\ d.left \in Seq(S) /\ d.out \in Seq(Sent(S, n)) /\ d.rel = n
  BY <1>1
<1> DEFINE stays == \/ d.left # <<>> \/ ~FrameDue(e.frame, d.rel)
                    \/ Len(d.out) >= FrameCap \/ Held(d.kbd, e)
<1>3. CASE stays
  <2> DEFINE l == Append(d.left, e)
             r == [d EXCEPT !.left = l]
  <2>1. DispatchOne(d, e) = r
    BY <1>3 DEF DispatchOne
  <2>2. l \in Seq(S)
    BY <1>2
  <2> HIDE DEF l
  <2>3. /\ r \in [kbd : Kbd, left : Seq(S), out : Seq(Sent(S, n)), rel : {n}]
        /\ r.kbd = d.kbd /\ r.out = d.out
    BY <1>1, <2>2
  <2> HIDE DEF r
  <2>4. Entered(k, r)
    BY <1>1, <2>3 DEF Entered
  <2> QED  BY <2>1, <2>3, <2>4 DEF Rounds
<1>4. CASE ~stays
  <2> DEFINE b == dispatch_input_event(d.kbd, e)
             x == [ev |-> e, by |-> "frame", at |-> d.rel, gap |-> 0]
             o == Append(d.out, x)
             r == [d EXCEPT !.kbd = b, !.out = o]
  <2>1. DispatchOne(d, e) = r
    BY <1>4 DEF DispatchOne
  <2>2. b \in Kbd
    BY <1>2, DispatchTyped
  <2>3. e.frame <= n /\ ~Held(d.kbd, e)
    BY <1>2, <1>4 DEF FrameDue
  <2>4. x \in Sent(S, n) /\ x.ev = e
    BY <1>2, <2>3 DEF Sent
  <2>5. o \in Seq(Sent(S, n))
    <3> HIDE DEF x
    <3> QED  BY <1>2, <2>4
  <2>6. Keys(d.out) \in Nat /\ Keys(o) = Keys(d.out) + (IF e.kind = "key" THEN 1 ELSE 0)
    <3> HIDE DEF x
    <3> QED  BY <1>2, <2>4, KeysAppended
  <2>7. k.scan => d.kbd.scan
    BY <1>1 DEF Entered
  <2>8. k.scan => /\ Load(b) = Load(d.kbd) + (IF e.kind = "key" THEN 1 ELSE 0)
                  /\ b.over = d.kbd.over /\ b.scan
    BY <1>2, <2>3, <2>7, KeyEnters
  <2> HIDE DEF b, x, o
  <2>9. /\ r \in [kbd : Kbd, left : Seq(S), out : Seq(Sent(S, n)), rel : {n}]
        /\ r.kbd = b /\ r.out = o
    BY <1>1, <2>2, <2>5
  <2> HIDE DEF r
  <2>10. Load(k) \in Nat
    BY ReplayAssumption DEF Load, Kbd
  <2>11. Entered(k, r)
    <3>1. ASSUME k.scan PROVE Load(b) = Load(k) + Keys(o) /\ b.over = k.over /\ b.scan
      <4>1. /\ Load(d.kbd) = Load(k) + Keys(d.out) /\ d.kbd.over = k.over
        BY <1>1, <3>1 DEF Entered
      <4> DEFINE one == IF e.kind = "key" THEN 1 ELSE 0
      <4>2. one \in Nat /\ Load(b) = Load(d.kbd) + one /\ Keys(o) = Keys(d.out) + one
        BY <2>6, <2>8, <3>1
      <4> HIDE DEF one
      <4> QED  BY <2>6, <2>8, <2>10, <3>1, <4>1, <4>2
    <3> QED  BY <2>9, <3>1 DEF Entered
  <2> QED  BY <2>1, <2>9, <2>11 DEF Rounds
<1> QED  BY <1>3, <1>4

\* The whole loop.
LEMMA FrameDispatched ==
    ASSUME NEW S \in SUBSET InputEvent, NEW n \in Nat, kbd \in Kbd, framePending \in Seq(S)
    PROVE  Dispatched(n) \in Rounds(S, n, kbd)
<1> DEFINE m == Len(framePending)
           D == Rounds(S, n, kbd)
           origin == [kbd |-> kbd, left |-> <<>>, out |-> <<>>, rel |-> n]
           Turn(d, k) == DispatchOne(d, framePending[k])
           A == CHOOSE g : g = [k \in 0 .. m |-> IF k = 0 THEN origin ELSE Turn(g[k - 1], k)]
           G == [k \in 1 .. m |-> [d \in D |-> Turn(d, k)]]
<1>1. Dispatched(n) = A[m]
  BY DEF Dispatched
<1>2. m \in Nat /\ origin \in D
  <2>1. <<>> \in Seq(S) /\ <<>> \in Seq(Sent(S, n)) /\ m \in Nat
    OBVIOUS
  <2>2. origin \in [kbd : Kbd, left : Seq(S), out : Seq(Sent(S, n)), rel : {n}]
    BY <2>1
  <2>3. Load(kbd) \in Nat
    BY ReplayAssumption DEF Load, Kbd
  <2>4. Load(kbd) = Load(kbd) + Keys(<<>>)
    BY <2>3, NoKeys
  <2>5. Entered(kbd, origin)
    BY <2>4 DEF Entered
  <2> QED  BY <2>1, <2>2, <2>5 DEF Rounds
<1>3. ASSUME NEW k \in 1 .. m, NEW d \in D PROVE Turn(d, k) \in D
  <2>1. framePending[k] \in S
    OBVIOUS
  <2> QED  BY <2>1, OneDispatched
<1> HIDE DEF D
<1>4. G \in [1 .. m -> [D -> D]]
  <2> HIDE DEF Turn
  <2> QED  BY <1>3
<1>5. PICK g : Iterates(g, m, D, origin, G)
  <2> HIDE DEF G, m, origin
  <2> QED  BY <1>2, <1>4, IterationExists
<1>6. g = [k \in 0 .. m |-> IF k = 0 THEN origin ELSE Turn(g[k - 1], k)]
  <2> HIDE DEF Turn, m, origin
  <2>1. \A k \in 1 .. m : g[k - 1] \in D
    BY <1>2, <1>5 DEF Iterates
  <2>2. \A k \in 1 .. m : g[k] = Turn(g[k - 1], k)
    BY <1>5, <2>1 DEF Iterates
  <2>3. \A k \in 0 .. m : k # 0 => k \in 1 .. m
    BY <1>2
  <2>4. \A k \in 0 .. m : g[k] = IF k = 0 THEN origin ELSE Turn(g[k - 1], k)
    BY <1>5, <2>2, <2>3 DEF Iterates
  <2>5. g = [k \in 0 .. m |-> g[k]]
    BY <1>5 DEF Iterates
  <2> QED  BY <2>4, <2>5
<1>7. A = [k \in 0 .. m |-> IF k = 0 THEN origin ELSE Turn(A[k - 1], k)]
  <2> HIDE DEF Turn, m, origin
  <2> QED  BY <1>6, Zenon
<1>8. A[0] = origin /\ \A k \in 1 .. m : A[k] = Turn(A[k - 1], k)
  <2> HIDE DEF A, Turn, m, origin
  <2> QED  BY <1>2, <1>7
<1> DEFINE P == {k \in 0 .. m : A[k] \in D}
<1>9. 0 \in P
  <2> HIDE DEF A, Turn, m, origin
  <2> QED  BY <1>2, <1>8
<1>10. ASSUME NEW k \in 1 .. m, k - 1 \in P PROVE k \in P
  <2> HIDE DEF A, Turn, m
  <2>1. k \in 0 .. m /\ A[k] = Turn(A[k - 1], k)
    BY <1>2, <1>8
  <2>2. A[k - 1] \in D
    BY <1>10
  <2> QED  BY <1>3, <2>1, <2>2
<1>11. P = 0 .. m
  <2>1. P \in SUBSET (0 .. m)
    OBVIOUS
  <2> HIDE DEF P, m
  <2> QED  BY <1>2, <1>9, <1>10, <2>1, IntervalInduction
<1>12. A[m] \in D
  <2> HIDE DEF A, m
  <2> QED  BY <1>2, <1>11
<1> QED  BY <1>1, <1>12 DEF D

-----------------------------------------------------------------------------
(* Replay: the chain of timers.                                            *)

LEMMA MaxIs == ASSUME NEW a \in Int PROVE Max({a, 0}) = IF a > 0 THEN a ELSE 0
<1> DEFINE x == IF a > 0 THEN a ELSE 0
<1>1. x \in {a, 0} /\ \A y \in {a, 0} : x >= y
  OBVIOUS
<1>2. \A z \in {a, 0} : (\A y \in {a, 0} : z >= y) => z = x
  OBVIOUS
<1> HIDE DEF x
<1>3. Max({a, 0}) = x
  BY <1>1, <1>2 DEF Max
<1> QED  BY <1>3 DEF x

LEMMA OlderIs ==
    ASSUME NEW a \in 0 .. MaxAge
    PROVE  /\ Older(a) \in 0 .. MaxAge
           /\ (Older(a) = a + 1 \/ (a = MaxAge /\ Older(a) = MaxAge))
BY ReplayAssumption DEF Older

\* The events of the chain: each is timed, and one with a delay comes that long
\* after the one before it.
Chained(s) ==
    /\ s \in Seq(InputEvent)
    /\ \A i \in 1 .. Len(s) : Timed(s[i])
    /\ \A i \in 2 .. Len(s) : s[i].asked.form = "delay" => s[i].t = s[i - 1].t + s[i].asked.v

\* The time left to the timer is enough for event e, as far as ages are counted.
OnTime(e, left) ==
    /\ elapsed + left >= e.t \/ elapsed = MaxAge
    /\ e.asked.form = "delay" => gap + left >= e.asked.v \/ gap = MaxAge

ChainGood ==
    /\ Chained(pending) /\ timers \in Seq(Nat)
    /\ pending = <<>> => timers = <<>>
    /\ pending # <<>> => Len(timers) = 1 /\ OnTime(pending[1], timers[1])

OutEvent == [ev : InputEvent, by : {"timer", "frame"}, at : 0 .. MaxAge, gap : 0 .. MaxAge]

RestGood ==
    /\ framePending \in Seq(InputEvent) /\ replaying \in BOOLEAN
    /\ ~replaying => framePending = <<>>
    /\ kbd \in Kbd /\ host \in 0 .. MaxHostKeys
    /\ rel \in 0 .. MaxAge /\ elapsed \in 0 .. MaxAge /\ gap \in 0 .. MaxAge
    /\ first \in Nat
    /\ out \in Seq(OutEvent)

ReplayInv == RestGood /\ ChainGood /\ TimingHonoured

LEMMA EmptyOut == ASSUME out = <<>> PROVE out \in Seq(OutEvent) /\ TimingHonoured /\ FramesKept
BY DEF TimingHonoured, FramesKept

LEMMA InitReplay == ReplayInit => ReplayInv
<1> SUFFICES ASSUME ReplayInit PROVE ReplayInv
  OBVIOUS
<1>1. ChainGood
  BY DEF ReplayInit, ChainGood, Chained
<1>2. 0 \in 0 .. MaxAge /\ 0 \in 0 .. Slots /\ 0 \in 0 .. MaxHostKeys
  BY ReplayAssumption
<1>3. kbd \in Kbd
  BY <1>2 DEF ReplayInit, Kbd
<1>4. out \in Seq(OutEvent) /\ TimingHonoured
  BY EmptyOut DEF ReplayInit
<1>5. framePending \in Seq(InputEvent) /\ framePending = <<>> /\ replaying = FALSE
  BY DEF ReplayInit
<1>6. RestGood
  BY <1>2, <1>3, <1>4, <1>5 DEF ReplayInit, RestGood
<1> QED  BY <1>1, <1>4, <1>6 DEF ReplayInv

LEMMA ChainOf ==
    ASSUME NEW req \in Requests, ~HasFrameData(req)
    PROVE  /\ Chained(Parse(req))
           /\ Parse(req) # <<>> =>
                 (Parse(req)[1].asked.form = "delay"
                    => Parse(req)[1].t = Parse(req)[1].asked.v)
<1> DEFINE s == Parse(req)
<1>1. req \in Seq(Asked)
  BY ReplayAssumption DEF Asked
<1>2. \A i \in 1 .. Len(req) : req[i].frame = NoFrame
  BY <1>1 DEF HasFrameData
<1>3. \A i \in 1 .. Len(req) : req[i].v <= MaxAge
  BY <1>1, <1>2, ReplayAssumption
<1>4. /\ s \in Seq(InputEvent) /\ Len(s) = Len(req)
      /\ \A i \in 1 .. Len(req) :
            /\ s[i].asked = req[i]
            /\ s[i].t = Position(IF i = 1 THEN 0 ELSE s[i - 1].t, req[i])
  BY <1>1, ParsedIs
<1> HIDE DEF s
<1>5. \A i \in 1 .. Len(req) : req[i] \in Asked /\ s[i].t \in Nat
  BY <1>1, <1>4, EventFields
<1>6. ASSUME NEW i \in 1 .. Len(req)
      PROVE  /\ Timed(s[i])
             /\ s[i].asked.form = "delay"
                  => s[i].t = (IF i = 1 THEN 0 ELSE s[i - 1].t) + s[i].asked.v
  <2> DEFINE b == IF i = 1 THEN 0 ELSE s[i - 1].t
  <2>1. b \in Nat
    <3>1. Len(req) \in Nat
      BY <1>1
    <3>2. i # 1 => i - 1 \in 1 .. Len(req)
      BY <3>1
    <3> QED  BY <1>5, <3>2
  <2>2. s[i].asked = req[i] /\ s[i].t = Position(b, req[i]) /\ req[i] \in Asked
    BY <1>4, <1>5
  <2> HIDE DEF b
  <2>3. /\ req[i].form = "t" => s[i].t = req[i].v
        /\ req[i].form = "delay" => s[i].t = b + req[i].v
    BY <2>1, <2>2, PositionIs
  <2> QED  BY <1>2, <1>3, <2>2, <2>3 DEF Timed, b
<1>7. Chained(s)
  <2>1. \A i \in 2 .. Len(s) : i \in 1 .. Len(req) /\ i # 1
    BY <1>1, <1>4
  <2> QED  BY <1>4, <1>6, <2>1 DEF Chained
<1>8. ASSUME s # <<>>, s[1].asked.form = "delay" PROVE s[1].t = s[1].asked.v
  <2>1. 1 \in 1 .. Len(req)
    BY <1>1, <1>4, <1>8
  <2>2. s[1].asked.v \in Nat
    BY <1>4, <1>5, <2>1 DEF Asked
  <2> QED  BY <1>6, <1>8, <2>1, <2>2
<1> QED  BY <1>7, <1>8 DEF s

LEMMA ChainOfText ==
    ASSUME NEW text \in Texts
    PROVE  /\ Chained(Expand(text))
           /\ Expand(text) # <<>> =>
                 (Expand(text)[1].asked.form = "delay"
                    => Expand(text)[1].t = Expand(text)[1].asked.v)
<1> DEFINE s == Expand(text)
<1>1. s \in Seq(Typed)
  BY ExpandedIs
<1> HIDE DEF s
<1>2. \A i \in 1 .. Len(s) : s[i] \in Typed
  BY <1>1
<1>3. s \in Seq(InputEvent)
  BY <1>1, <1>2 DEF Typed
<1>4. \A i \in 1 .. Len(s) : Timed(s[i]) /\ s[i].asked.form = "t"
  BY <1>2 DEF Typed
<1>5. \A i \in 2 .. Len(s) : i \in 1 .. Len(s)
  BY <1>1
<1>6. Chained(s)
  BY <1>3, <1>4, <1>5 DEF Chained
<1>7. s # <<>> => 1 \in 1 .. Len(s)
  BY <1>1
<1> QED  BY <1>4, <1>6, <1>7 DEF s

LEMMA EmptyJoined == ASSUME NEW S, NEW s \in Seq(S) PROVE <<>> \o s = s
OBVIOUS

LEMMA StartReplay ==
    ASSUME ReplayInv, NEW s, Chained(s),
           s # <<>> => (s[1].asked.form = "delay" => s[1].t = s[1].asked.v),
           ExecutePicBased(s)
    PROVE  ReplayInv'
<1>1. s \in Seq(InputEvent) /\ pending = <<>> /\ timers = <<>>
  BY DEF Chained, ExecutePicBased, ChainFree, ReplayInv, ChainGood
<1>2. pending' = s
  BY <1>1, EmptyJoined DEF ExecutePicBased
<1>3. 0 \in 0 .. MaxAge
  BY ReplayAssumption
<1>4. out' = <<>> /\ UNCHANGED <<framePending, replaying, rel, kbd, host, first>>
  BY DEF ExecutePicBased
<1>5. TimingHonoured' /\ out' \in Seq(OutEvent)
  BY <1>4 DEF TimingHonoured
<1>6. RestGood'
  BY <1>3, <1>4, <1>5 DEF ExecutePicBased, ReplayInv, RestGood
<1>7. CASE s = <<>>
  <2>1. timers' = timers
    BY <1>2, <1>7 DEF ExecutePicBased
  <2>2. ChainGood'
    BY <1>1, <1>2, <1>7, <2>1 DEF ChainGood, Chained
  <2> QED  BY <1>5, <1>6, <2>2 DEF ReplayInv
<1>8. CASE s # <<>>
  <2>1. /\ timers' = Append(timers, Head(s).t) /\ elapsed' = 0 /\ gap' = 0
    BY <1>2, <1>8 DEF ExecutePicBased
  <2>2. Head(s) = s[1] /\ 1 \in 1 .. Len(s)
    BY <1>1, <1>8
  <2>3. s[1].t \in Nat /\ s[1].asked \in Asked
    BY <1>1, <2>2, EventFields
  <2>4. timers' = <<s[1].t>> /\ timers' \in Seq(Nat) /\ Len(timers') = 1 /\ timers'[1] = s[1].t
    BY <1>1, <2>1, <2>2, <2>3
  <2>5. OnTime(pending[1], timers[1])'
    <3>1. 0 + s[1].t >= s[1].t
      BY <2>3
    <3>2. s[1].asked.form = "delay" => 0 + s[1].t >= s[1].asked.v
      BY <1>8, <2>3
    <3> QED  BY <1>2, <2>1, <2>4, <3>1, <3>2 DEF OnTime
  <2>6. Chained(pending)'
    BY <1>2 DEF Chained, Timed
  <2>7. ChainGood'
    BY <1>2, <1>8, <2>4, <2>5, <2>6 DEF ChainGood
  <2> QED  BY <1>5, <1>6, <2>7 DEF ReplayInv
<1> QED  BY <1>7, <1>8

\* The events left by Head are a chain too.
LEMMA TailChained ==
    ASSUME NEW s, Chained(s), s # <<>>
    PROVE  /\ Chained(Tail(s)) /\ s[1] \in InputEvent /\ Head(s) = s[1]
           /\ Tail(s) # <<>> =>
                 /\ Tail(s)[1] = s[2] /\ s[2] \in InputEvent
                 /\ s[2].asked.form = "delay" => s[2].t = s[1].t + s[2].asked.v
<1> DEFINE r == Tail(s)
<1>1. s \in Seq(InputEvent) /\ Len(s) \in Nat /\ Len(s) >= 1
  BY DEF Chained
<1>2. /\ r \in Seq(InputEvent) /\ Len(r) = Len(s) - 1 /\ s[1] \in InputEvent /\ Head(s) = s[1]
      /\ \A i \in 1 .. Len(s) - 1 : r[i] = s[i + 1]
  BY <1>1
<1>3. r # <<>> => 1 \in 1 .. Len(s) - 1
  BY <1>1, <1>2
<1> HIDE DEF r
<1>4. \A i \in 1 .. Len(r) : i + 1 \in 1 .. Len(s) /\ i \in 1 .. Len(s) - 1
  BY <1>1, <1>2
<1>5. \A i \in 2 .. Len(r) : /\ i + 1 \in 2 .. Len(s) /\ i \in 1 .. Len(s) - 1
                            /\ i - 1 \in 1 .. Len(s) - 1 /\ (i - 1) + 1 = i
                            /\ (i + 1) - 1 = i
  BY <1>1, <1>2
<1>6. \A i \in 1 .. Len(r) : Timed(r[i])
  BY <1>2, <1>4 DEF Chained
<1>7. ASSUME NEW i \in 2 .. Len(r), r[i].asked.form = "delay"
      PROVE  r[i].t = r[i - 1].t + r[i].asked.v
  <2>1. r[i] = s[i + 1] /\ r[i - 1] = s[i]
    BY <1>2, <1>5
  <2>2. s[i + 1].t = s[(i + 1) - 1].t + s[i + 1].asked.v
    BY <1>5, <1>7, <2>1 DEF Chained
  <2> QED  BY <1>5, <2>1, <2>2
<1>8. Chained(r)
  BY <1>2, <1>6, <1>7 DEF Chained
<1>9. ASSUME r # <<>>
      PROVE  /\ r[1] = s[2] /\ s[2] \in InputEvent
             /\ s[2].asked.form = "delay" => s[2].t = s[1].t + s[2].asked.v
  <2>1. r[1] = s[2] /\ 2 \in 2 .. Len(s) /\ 2 \in 1 .. Len(s)
    BY <1>1, <1>2, <1>3, <1>9
  <2>2. s[2] \in InputEvent
    BY <1>1, <2>1
  <2> QED  BY <2>1, <2>2 DEF Chained
<1> QED  BY <1>2, <1>8, <1>9 DEF r

LEMMA NoElements == ASSUME NEW S, NEW s \in Seq(S), Len(s) = 0 PROVE s = <<>>
OBVIOUS

LEMMA OneElement ==
    ASSUME NEW S, NEW s \in Seq(S), Len(s) = 1
    PROVE  s # <<>> /\ Head(s) = s[1] /\ Tail(s) = <<>> /\ <<>> \in Seq(S)
<1>1. s # <<>> /\ Head(s) = s[1] /\ <<>> \in Seq(S)
  OBVIOUS
<1>2. Tail(s) \in Seq(S) /\ Len(Tail(s)) = 0
  BY <1>1
<1>3. Tail(s) = <<>>
  BY <1>2, NoElements
<1> QED  BY <1>1, <1>3

LEMMA OneEvent ==
    ASSUME NEW o PROVE <<o>> # <<>> /\ DOMAIN <<o>> = {1} /\ <<o>>[1] = o
OBVIOUS

LEMMA HandlerReplay == ASSUME ReplayInv, pic_input_handler PROVE ReplayInv'
<1>1. pending # <<>> /\ timers # <<>> /\ Head(timers) = 0
  BY DEF pic_input_handler, ReplayInv, ChainGood
<1> DEFINE ev == Head(pending)
<1>2. /\ Chained(pending) /\ timers \in Seq(Nat) /\ Len(timers) = 1
      /\ timers[1] = 0 /\ Tail(timers) = <<>> /\ OnTime(pending[1], 0)
      /\ <<>> \in Seq(Nat)
  <2>1. Chained(pending) /\ timers \in Seq(Nat) /\ Len(timers) = 1 /\ OnTime(pending[1], timers[1])
    BY <1>1 DEF ReplayInv, ChainGood
  <2>2. timers[1] = 0 /\ Tail(timers) = <<>> /\ <<>> \in Seq(Nat)
    BY <1>1, <2>1, OneElement
  <2> QED  BY <2>1, <2>2
<1>3. /\ Chained(Tail(pending)) /\ pending[1] \in InputEvent /\ ev = pending[1]
      /\ Tail(pending) # <<>> =>
            /\ Tail(pending)[1] = pending[2] /\ pending[2] \in InputEvent
            /\ pending[2].asked.form = "delay" => pending[2].t = pending[1].t + pending[2].asked.v
  BY <1>1, <1>2, TailChained
<1>4. /\ kbd \in Kbd /\ elapsed \in 0 .. MaxAge /\ gap \in 0 .. MaxAge /\ MaxAge \in Nat
      /\ UNCHANGED <<framePending, replaying, rel, host, elapsed, first>>
  BY ReplayAssumption DEF ReplayInv, RestGood, pic_input_handler
<1>5. CASE Held(kbd, ev)
  <2>1. /\ timers' = Append(Tail(timers), 1) /\ out' = <<>>
        /\ UNCHANGED <<pending, kbd, gap>>
    BY <1>1, <1>5 DEF pic_input_handler, Retry
  <2>2. timers' \in Seq(Nat) /\ Len(timers') = 1 /\ timers'[1] = 1
    BY <1>2, <2>1
  <2>3. TimingHonoured' /\ out' \in Seq(OutEvent)
    BY <2>1 DEF TimingHonoured
  <2>4. RestGood'
    BY <1>4, <2>1, <2>3 DEF ReplayInv, RestGood
  <2>5. OnTime(pending[1], 1)
    <3>1. pending[1].t \in Nat /\ pending[1].asked.v \in Nat
      BY <1>3 DEF InputEvent
    <3> QED  BY <1>2, <1>4, <3>1 DEF OnTime
  <2>6. OnTime(pending[1], timers[1])'
    BY <1>4, <2>1, <2>2, <2>5 DEF OnTime
  <2>7. Chained(pending)'
    BY <1>2, <2>1 DEF Chained, Timed
  <2>8. ChainGood'
    BY <1>1, <2>1, <2>2, <2>6, <2>7 DEF ChainGood
  <2> QED  BY <2>3, <2>4, <2>8 DEF ReplayInv
<1>6. CASE ~Held(kbd, ev)
  <2> DEFINE o == [ev |-> ev, by |-> "timer", at |-> elapsed, gap |-> gap]
             r == Tail(pending)
  <2>1. /\ pending' = r /\ out' = <<o>> /\ gap' = 0
        /\ kbd' = dispatch_input_event(kbd, ev)
        /\ timers' = IF r = <<>> THEN Tail(timers)
                     ELSE Append(Tail(timers), NextDelay(ev, Head(r)))
    BY <1>1, <1>6 DEF pic_input_handler
  <2>2. o \in OutEvent /\ out' \in Seq(OutEvent)
    <3>1. o \in OutEvent
      BY <1>3, <1>4 DEF OutEvent
    <3> HIDE DEF o
    <3> QED  BY <2>1, <3>1
  <2>3. kbd' \in Kbd /\ 0 \in 0 .. MaxAge
    <3>1. kbd' \in Kbd
      <4> HIDE DEF ev
      <4> QED  BY <1>3, <1>4, <2>1, DispatchTyped
    <3> QED  BY <1>4, <3>1
  <2>4. RestGood'
    BY <1>4, <2>1, <2>2, <2>3 DEF ReplayInv, RestGood
  <2>5. /\ pending[1].t \in Nat /\ pending[1].asked.v \in Nat /\ pending[1].asked.v <= MaxAge
        /\ pending[1].asked.form = "t" => pending[1].t = pending[1].asked.v
    <3>1. 1 \in 1 .. Len(pending) /\ Timed(pending[1])
      BY <1>1, <1>2 DEF Chained
    <3> QED  BY <1>3, <3>1 DEF Timed, InputEvent
  <2>6. /\ pending[1].asked.form = "t" => elapsed >= pending[1].asked.v
        /\ pending[1].asked.form = "delay" => gap >= pending[1].asked.v
    BY <1>2, <1>4, <2>5 DEF OnTime
  <2>7. TimingHonoured'
    <3>1. o.ev = pending[1] /\ o.at = elapsed /\ o.gap = gap
      BY <1>3
    <3> HIDE DEF o
    <3>2. \A i \in DOMAIN out' : out'[i] = o
      BY <2>1, OneEvent
    <3> QED  BY <2>6, <3>1, <3>2 DEF TimingHonoured
  <2>8. CASE r = <<>>
    <3>1. timers' = <<>>
      BY <1>2, <2>1, <2>8
    <3>2. Chained(pending)'
      BY <1>3, <2>1 DEF Chained, Timed
    <3>3. pending' = <<>> /\ timers' \in Seq(Nat)
      BY <1>2, <2>1, <2>8, <3>1, Zenon
    <3>4. ChainGood'
      BY <3>1, <3>2, <3>3 DEF ChainGood
    <3> QED  BY <2>4, <2>7, <3>4 DEF ReplayInv
  <2>9. CASE r # <<>>
    <3> DEFINE nx == pending[2]
               dl == NextDelay(ev, nx)
    <3>1. Head(r) = nx /\ r[1] = nx /\ nx \in InputEvent /\ r \in Seq(InputEvent)
      BY <1>3, <2>9 DEF Chained
    <3>2. nx.t \in Nat /\ nx.asked.v \in Nat /\ nx.asked \in Asked
      BY <3>1 DEF InputEvent, Asked
    <3>3. dl = IF nx.t - pending[1].t > 0 THEN nx.t - pending[1].t ELSE 0
      <4>1. nx.t - pending[1].t \in Int
        BY <2>5, <3>2
      <4> QED  BY <1>3, <4>1, MaxIs DEF NextDelay
    <3>4. dl \in Nat /\ pending[1].t + dl >= nx.t
      BY <2>5, <3>2, <3>3
    <3>5. nx.asked.form = "delay" => dl >= nx.asked.v
      <4>1. nx.asked.form = "delay" => nx.t = pending[1].t + nx.asked.v
        BY <1>3, <2>9
      <4> QED  BY <2>5, <3>2, <3>3, <4>1
    <3>6. timers' = Append(<<>>, dl)
      BY <1>2, <2>1, <2>9, <3>1
    <3> HIDE DEF dl
    <3>7. timers' \in Seq(Nat) /\ Len(timers') = 1 /\ timers'[1] = dl
      BY <3>4, <3>6
    <3>8. elapsed + dl >= nx.t \/ elapsed = MaxAge
      BY <1>2, <1>4, <2>5, <3>2, <3>4 DEF OnTime
    <3>9. OnTime(pending[1], timers[1])'
      <4>1. pending'[1] = nx /\ elapsed' = elapsed /\ gap' = 0
        BY <1>4, <2>1, <3>1
      <4>2. nx.asked.form = "delay" => 0 + dl >= nx.asked.v
        BY <3>2, <3>4, <3>5
      <4> HIDE DEF nx
      <4> QED  BY <3>7, <3>8, <4>1, <4>2 DEF OnTime
    <3>10. Chained(pending)'
      BY <1>3, <2>1 DEF Chained, Timed
    <3>11. ChainGood'
      BY <2>1, <2>9, <3>7, <3>9, <3>10 DEF ChainGood
    <3> QED  BY <2>4, <2>7, <3>11 DEF ReplayInv
  <2> QED  BY <2>8, <2>9
<1> QED  BY <1>5, <1>6

LEMMA TickReplay == ASSUME ReplayInv, Tick PROVE ReplayInv'
<1>1. /\ pending # <<>> /\ Chained(pending) /\ timers \in Seq(Nat) /\ Len(timers) = 1
      /\ OnTime(pending[1], timers[1])
  BY DEF Tick, ReplayInv, ChainGood
<1>2. /\ elapsed \in 0 .. MaxAge /\ gap \in 0 .. MaxAge /\ MaxAge \in Nat
      /\ elapsed' = Older(elapsed) /\ gap' = Older(gap) /\ out' = <<>>
      /\ UNCHANGED <<pending, framePending, replaying, rel, kbd, host, first>>
  BY ReplayAssumption DEF Tick, ReplayInv, RestGood
<1>3. /\ elapsed' \in 0 .. MaxAge /\ gap' \in 0 .. MaxAge
      /\ elapsed' = elapsed + 1 \/ (elapsed = MaxAge /\ elapsed' = MaxAge)
      /\ gap' = gap + 1 \/ (gap = MaxAge /\ gap' = MaxAge)
  BY <1>2, OlderIs
<1>4. DOMAIN timers = 1 .. 1 /\ timers[1] \in Nat /\ timers[1] > 0
  <2>1. DOMAIN timers = 1 .. 1 /\ timers[1] \in Nat
    BY <1>1
  <2>2. 1 \in DOMAIN timers
    BY <2>1
  <2> QED  BY <2>1, <2>2, Zenon DEF Tick
<1>5. timers' \in Seq(Nat) /\ Len(timers') = 1 /\ timers'[1] = timers[1] - 1
  <2>1. timers' = [i \in 1 .. 1 |-> timers[i] - 1]
    BY <1>4 DEF Tick
  <2>2. \A i \in 1 .. 1 : timers[i] - 1 \in Nat
    BY <1>4
  <2> QED  BY <2>1, <2>2
<1>6. TimingHonoured' /\ out' \in Seq(OutEvent)
  BY <1>2 DEF TimingHonoured
<1>7. RestGood'
  BY <1>2, <1>3, <1>6 DEF ReplayInv, RestGood
<1>8. pending[1].t \in Nat /\ pending[1].asked.v \in Nat
  <2>1. 1 \in 1 .. Len(pending) /\ pending \in Seq(InputEvent)
    BY <1>1 DEF Chained
  <2>2. pending[1].t \in Nat /\ pending[1].asked \in Asked
    BY <2>1, EventFields
  <2> QED  BY <2>2 DEF Asked
<1>9. /\ elapsed' + timers'[1] >= pending[1].t \/ elapsed' = MaxAge
      /\ pending[1].asked.form = "delay" =>
            gap' + timers'[1] >= pending[1].asked.v \/ gap' = MaxAge
  BY <1>1, <1>2, <1>3, <1>4, <1>5, <1>8 DEF OnTime
<1>10. OnTime(pending[1], timers[1])'
  BY <1>2, <1>9 DEF OnTime
<1>11. Chained(pending)'
  BY <1>1, <1>2 DEF Chained, Timed
<1>12. ChainGood'
  BY <1>1, <1>2, <1>5, <1>10, <1>11 DEF ChainGood
<1> QED  BY <1>6, <1>7, <1>12 DEF ReplayInv

\* Steps that leave the chain alone.
LEMMA ChainLeft ==
    ASSUME ReplayInv, UNCHANGED <<pending, timers, elapsed, gap>> PROVE ChainGood'
BY DEF ReplayInv, ChainGood, Chained, Timed, OnTime

LEMMA QuietReplay ==
    ASSUME ReplayInv, kbd' \in Kbd, host' \in 0 .. MaxHostKeys, out' = <<>>,
           UNCHANGED <<pending, timers, framePending, replaying, rel, elapsed, gap, first>>
    PROVE  ReplayInv'
<1>1. ChainGood'
  BY ChainLeft
<1>2. TimingHonoured' /\ out' \in Seq(OutEvent)
  BY DEF TimingHonoured
<1>3. RestGood'
  BY <1>2 DEF ReplayInv, RestGood
<1> QED  BY <1>1, <1>2, <1>3 DEF ReplayInv

LEMMA GuestReplay ==
    ASSUME ReplayInv, GuestReads \/ HostKey \/ GuestSetsScanning PROVE ReplayInv'
<1>1. /\ Slots \in Nat /\ MaxHostKeys \in Nat /\ kbd \in Kbd /\ host \in 0 .. MaxHostKeys
      /\ kbd.used \in 0 .. Slots /\ kbd.scan \in BOOLEAN
  BY ReplayAssumption DEF ReplayInv, RestGood, Kbd
<1>2. CASE GuestReads
  <2>1. kbd' \in Kbd
    <3>1. CASE kbd.used > 0
      <4>1. kbd.used - 1 \in 0 .. Slots
        BY <1>1, <3>1
      <4>2. kbd' = [kbd EXCEPT !.over = FALSE, !.used = kbd.used - 1]
        BY <1>2, <3>1 DEF GuestReads
      <4> QED  BY <1>1, <4>1, <4>2 DEF Kbd
    <3>2. CASE ~(kbd.used > 0)
      <4>1. kbd' = [kbd EXCEPT !.over = FALSE, !.ready = TRUE]
        BY <1>2, <3>2 DEF GuestReads
      <4> QED  BY <1>1, <4>1 DEF Kbd
    <3> QED  BY <3>1, <3>2
  <2> QED  BY <1>1, <1>2, <2>1, QuietReplay DEF GuestReads, ages
<1>3. CASE HostKey
  <2>1. kbd' \in Kbd
    BY <1>1, <1>3, KeyTyped DEF HostKey
  <2>2. host' \in 0 .. MaxHostKeys
    BY <1>1, <1>3 DEF HostKey
  <2> QED  BY <1>3, <2>1, <2>2, QuietReplay DEF HostKey, ages
<1>4. CASE GuestSetsScanning
  <2>1. 0 \in 0 .. Slots /\ (~kbd.scan) \in BOOLEAN
    BY <1>1
  <2>2. kbd' \in Kbd
    BY <1>1, <1>4, <2>1 DEF GuestSetsScanning, Kbd
  <2> QED  BY <1>1, <1>4, <2>2, QuietReplay DEF GuestSetsScanning, ages
<1> QED  BY <1>2, <1>3, <1>4

-----------------------------------------------------------------------------
(* Replay: by frames.                                                      *)

\* The frame that becomes 0 is that of the first event, unless that one is at
\* frame 0 and time 0.
LEMMA BaseIs ==
    ASSUME NEW s \in Seq(InputEvent)
    PROVE  /\ FrameBase(s) \in Nat
           /\ (s # <<>> /\ (s[1].frame > 0 \/ s[1].t > 0)) => FrameBase(s) = s[1].frame
<1> DEFINE I == {i \in 1 .. Len(s) : s[i].frame > 0 \/ s[i].t > 0}
           m == IF I # {} THEN Min(I) ELSE 0
<1>1. FrameBase(s) = IF m = 0 THEN 0 ELSE s[m].frame
  BY DEF FrameBase, SelectInSeq
<1>2. I \in SUBSET (1 .. Len(s)) /\ Len(s) \in Nat
  OBVIOUS
<1>3. CASE I = {}
  <2>1. FrameBase(s) = 0
    BY <1>1, <1>3
  <2>2. s # <<>> => 1 \in 1 .. Len(s)
    OBVIOUS
  <2> QED  BY <1>3, <2>1, <2>2
<1>4. CASE I # {}
  <2>1. I \in SUBSET Nat
    BY <1>2
  <2>2. PICK x \in I : \A y \in I : x <= y
    <3> HIDE DEF I
    <3> QED  BY <1>4, <2>1, LeastNat
  <2>3. Min(I) \in I /\ \A y \in I : Min(I) <= y
    <3> HIDE DEF I
    <3> QED  BY <2>2 DEF Min
  <2>4. m = Min(I)
    BY <1>4
  <2>5. m \in 1 .. Len(s) /\ \A y \in I : m <= y
    <3> HIDE DEF I, m
    <3> QED  BY <1>2, <2>3, <2>4
  <2>6. FrameBase(s) = s[m].frame
    <3> HIDE DEF I, m
    <3> QED  BY <1>1, <1>2, <2>5
  <2>7. (s # <<>> /\ (s[1].frame > 0 \/ s[1].t > 0)) => 1 \in I
    OBVIOUS
  <2>8. 1 \in I => m = 1
    <3> HIDE DEF I, m
    <3> QED  BY <1>2, <2>5
  <2> HIDE DEF I, m
  <2>9. s[m].frame \in Nat
    BY <2>5, EventFields
  <2> QED  BY <2>6, <2>7, <2>8, <2>9
<1> QED  BY <1>3, <1>4

LEMMA NormalizedIs ==
    ASSUME NEW s \in Seq(InputEvent)
    PROVE  /\ Normalized(s) \in Seq(InputEvent) /\ Len(Normalized(s)) = Len(s)
           /\ \A i \in 1 .. Len(s) : /\ Normalized(s)[i].asked = s[i].asked
                                    /\ Normalized(s)[i].frame >= s[i].frame - FrameBase(s)
<1> DEFINE b == FrameBase(s)
           New(i) == [s[i] EXCEPT !.frame = Max({s[i].frame - b, 0})]
<1>1. b \in Nat
  BY BaseIs
<1>2. Normalized(s) = [i \in 1 .. Len(s) |-> New(i)]
  BY DEF Normalized
<1> HIDE DEF b
<1>3. ASSUME NEW i \in 1 .. Len(s)
      PROVE  /\ New(i) \in InputEvent /\ New(i).asked = s[i].asked
             /\ New(i).frame >= s[i].frame - b
  <2>1. s[i] \in InputEvent /\ s[i].frame \in Nat
    BY EventFields
  <2> DEFINE f == Max({s[i].frame - b, 0})
  <2>2. f \in Nat /\ f >= s[i].frame - b
    <3>1. s[i].frame - b \in Int
      BY <1>1, <2>1
    <3>2. f = IF s[i].frame - b > 0 THEN s[i].frame - b ELSE 0
      BY <3>1, MaxIs
    <3> HIDE DEF f
    <3> QED  BY <3>1, <3>2
  <2> HIDE DEF f
  <2>3. New(i) = [s[i] EXCEPT !.frame = f]
    BY DEF f
  <2>4. [s[i] EXCEPT !.frame = f] \in InputEvent
    BY <2>1, <2>2 DEF InputEvent
  <2>5. [s[i] EXCEPT !.frame = f].frame = f /\ [s[i] EXCEPT !.frame = f].asked = s[i].asked
    BY <2>1 DEF InputEvent
  <2> HIDE DEF New
  <2> QED  BY <2>2, <2>3, <2>4, <2>5
<1> HIDE DEF New
<1>4. Len(s) \in Nat
  OBVIOUS
<1>5. Normalized(s) \in Seq(InputEvent) /\ Len(Normalized(s)) = Len(s)
  BY <1>2, <1>3, <1>4
<1> QED  BY <1>2, <1>3, <1>5 DEF b

\* What a request with frame data queues.
LEMMA FramedIs ==
    ASSUME ReplayInv, NEW req \in Requests, HasFrameData(req), ExecuteFrameBased(Parse(req))
    PROVE  /\ Parse(req) \in Seq(InputEvent) /\ Parse(req) # <<>>
           /\ framePending' = Normalized(Parse(req)) /\ framePending' \in Seq(InputEvent)
           /\ first' = FrameBase(Parse(req)) /\ first' \in Nat
<1>1. req \in Seq(Asked)
  BY ReplayAssumption DEF Asked
<1>2. Parse(req) \in Seq(InputEvent) /\ Len(Parse(req)) = Len(req)
  BY <1>1, ParsedIs
<1>3. Len(req) # 0
  BY <1>1 DEF HasFrameData
<1> DEFINE s == Parse(req)
<1>4. /\ framePending = <<>> /\ framePending' = framePending \o Normalized(s)
      /\ first' = IF AtStart(Head(s)) THEN FrameBase(s) ELSE Head(s).frame
  BY DEF ExecuteFrameBased, CountedFrom, ReplayInv, RestGood
<1> HIDE DEF s
<1>5. s \in Seq(InputEvent) /\ s # <<>> /\ Head(s) = s[1] /\ 1 \in 1 .. Len(s)
  BY <1>1, <1>2, <1>3 DEF s
<1>6. Normalized(s) \in Seq(InputEvent)
  BY <1>5, NormalizedIs
<1>7. framePending' = Normalized(s)
  BY <1>4, <1>6, EmptyJoined
<1>8. s[1].frame \in Nat /\ s[1].t \in Nat
  BY <1>5, EventFields DEF InputEvent
<1>9. FrameBase(s) \in Nat /\ first' = FrameBase(s)
  BY <1>4, <1>5, <1>8, BaseIs DEF AtStart
<1> QED  BY <1>5, <1>6, <1>7, <1>9 DEF s

LEMMA PostFramedReplay == ASSUME ReplayInv, PostFramed PROVE ReplayInv'
<1>1. PICK req \in Requests : HasFrameData(req) /\ ExecuteFrameBased(Parse(req))
  BY DEF PostFramed
<1>2. framePending' \in Seq(InputEvent) /\ first' \in Nat
  BY <1>1, FramedIs
<1>3. /\ replaying' = TRUE /\ rel' = 0 /\ out' = <<>>
      /\ UNCHANGED <<pending, timers, kbd, host, elapsed, gap>>
  BY <1>1 DEF ExecuteFrameBased
<1>4. ChainGood'
  BY <1>3, ChainLeft
<1>5. TimingHonoured' /\ out' \in Seq(OutEvent) /\ 0 \in 0 .. MaxAge
  BY <1>3, ReplayAssumption DEF TimingHonoured
<1>6. RestGood'
  BY <1>2, <1>3, <1>5 DEF ReplayInv, RestGood
<1> QED  BY <1>4, <1>5, <1>6 DEF ReplayInv

\* The step of a frame, on events of any set S.
LEMMA FrameStep ==
    ASSUME ReplayInv, ReplayDispatchFrame, NEW S \in SUBSET InputEvent, framePending \in Seq(S)
    PROVE  /\ rel' \in 0 .. MaxAge /\ framePending' \in Seq(S) /\ kbd' \in Kbd
           /\ out' \in Seq(Sent(S, rel'))
           /\ kbd.scan => Load(kbd') = Load(kbd) + Keys(out') /\ kbd'.over = kbd.over
<1>1. rel' \in 0 .. MaxAge /\ rel' \in Nat
  <2>1. rel \in 0 .. MaxAge /\ rel' = Older(rel)
    BY DEF ReplayDispatchFrame, ReplayInv, RestGood
  <2>2. Older(rel) \in 0 .. MaxAge
    BY <2>1, OlderIs
  <2>3. MaxAge \in Nat
    BY ReplayAssumption
  <2> QED  BY <2>1, <2>2, <2>3
<1>2. kbd \in Kbd
  BY DEF ReplayInv, RestGood
<1>3. PICK n : n = rel'
  OBVIOUS
<1>4. PICK d : d = Dispatched(n)
  OBVIOUS
<1>5. framePending' = d.left /\ kbd' = d.kbd /\ out' = d.out
  BY <1>3, <1>4 DEF ReplayDispatchFrame
<1>6. d \in Rounds(S, n, kbd)
  BY <1>1, <1>2, <1>3, <1>4, FrameDispatched
<1>7. /\ d.kbd \in Kbd /\ d.left \in Seq(S) /\ d.out \in Seq(Sent(S, n)) /\ Entered(kbd, d)
  BY <1>6 DEF Rounds
<1>8. kbd.scan => Load(d.kbd) = Load(kbd) + Keys(d.out) /\ d.kbd.over = kbd.over
  BY <1>7 DEF Entered
<1> QED  BY <1>1, <1>3, <1>5, <1>7, <1>8

LEMMA FrameReplay == ASSUME ReplayInv, ReplayDispatchFrame PROVE ReplayInv'
<1>1. framePending \in Seq(InputEvent)
  BY DEF ReplayInv, RestGood
<1>2. /\ rel' \in 0 .. MaxAge /\ framePending' \in Seq(InputEvent) /\ kbd' \in Kbd
      /\ out' \in Seq(Sent(InputEvent, rel'))
  BY <1>1, FrameStep
<1>3. /\ replaying' = (framePending' # <<>>)
      /\ UNCHANGED <<pending, timers, host, elapsed, gap, first>>
  BY DEF ReplayDispatchFrame
<1>4. ChainGood'
  BY <1>3, ChainLeft
<1>5. PICK n : n = rel'
  OBVIOUS
<1>6. 0 \in 0 .. MaxAge
  BY ReplayAssumption
<1>7. \A o \in Sent(InputEvent, n) : o \in OutEvent /\ o.by = "frame"
  BY <1>2, <1>5, <1>6 DEF Sent, OutEvent
<1>8. out' \in Seq(Sent(InputEvent, n))
  BY <1>2, <1>5
<1>9. out' \in Seq(OutEvent)
  BY <1>7, <1>8
<1>10. \A i \in DOMAIN out' : out'[i].by = "frame"
  BY <1>7, <1>8
<1>11. TimingHonoured'
  BY <1>10 DEF TimingHonoured
<1>12. RestGood'
  BY <1>2, <1>3, <1>9 DEF ReplayInv, RestGood
<1> QED  BY <1>4, <1>11, <1>12 DEF ReplayInv

LEMMA NextReplay == ReplayInv /\ [ReplayNext]_replayVars => ReplayInv'
<1> SUFFICES ASSUME ReplayInv, [ReplayNext]_replayVars PROVE ReplayInv'
  OBVIOUS
<1>1. CASE PostTimed
  <2>1. PICK req \in Requests : ~HasFrameData(req) /\ ExecutePicBased(Parse(req))
    BY <1>1 DEF PostTimed
  <2> QED  BY <2>1, ChainOf, StartReplay
<1>2. CASE PostType
  <2>1. PICK text \in Texts : ExecutePicBased(Expand(text))
    BY <1>2 DEF PostType
  <2> QED  BY <2>1, ChainOfText, StartReplay
<1>3. CASE PostFramed
  BY <1>3, PostFramedReplay
<1>4. CASE pic_input_handler
  BY <1>4, HandlerReplay
<1>5. CASE Tick
  BY <1>5, TickReplay
<1>6. CASE ReplayDispatchFrame
  BY <1>6, FrameReplay
<1>7. CASE GuestReads \/ HostKey \/ GuestSetsScanning
  BY <1>7, GuestReplay
<1>8. CASE UNCHANGED replayVars
  <2>1. ChainGood'
    BY <1>8, ChainLeft DEF replayVars
  <2>2. RestGood' /\ TimingHonoured'
    BY <1>8 DEF replayVars, ReplayInv, RestGood, TimingHonoured
  <2> QED  BY <2>1, <2>2 DEF ReplayInv
<1> QED  BY <1>1, <1>2, <1>3, <1>4, <1>5, <1>6, <1>7, <1>8 DEF ReplayNext

\* An event that pic_input_handler sends is never early, for any requests and
\* texts, however often a full buffer held the events before it back: one placed
\* with 't' comes no sooner than that after the start, one with 'delay_ms' no
\* sooner than that after the event before it.
THEOREM TimingAlwaysHonoured == ReplaySpec => []TimingHonoured
<1>1. ReplayInv => TimingHonoured
  BY DEF ReplayInv
<1> QED  BY <1>1, InitReplay, NextReplay, PTL DEF ReplaySpec

\* The replay keeps its types: in particular the keyboard's buffer holds at most
\* as many scancodes as it has slots, whatever the host types meanwhile.
THEOREM ReplayTyped == ReplaySpec => []ReplayTypeOK
<1>1. ReplayInv => ReplayTypeOK
  BY DEF ReplayInv, RestGood, ChainGood, Chained, ReplayTypeOK, Kbd, OutEvent
<1> QED  BY <1>1, InitReplay, NextReplay, PTL DEF ReplaySpec

\* A step of the chain of timers sends at most one event.
LEMMA OneKey == ASSUME NEW o PROVE Keys(<<o>>) = IF o.ev.kind = "key" THEN 1 ELSE 0
<1>1. <<>> \in Seq({o}) /\ <<o>> = Append(<<>>, o)
  OBVIOUS
<1>2. Keys(Append(<<>>, o)) = Keys(<<>>) + (IF o.ev.kind = "key" THEN 1 ELSE 0)
  BY <1>1, KeysAppended
<1> QED  BY <1>1, <1>2, NoKeys

LEMMA KeysEnter ==
    ASSUME ReplayInv, ReplayNext, out' # <<>>, kbd.scan
    PROVE  Load(kbd') = Load(kbd) + Keys(out') /\ kbd'.over = kbd.over
<1>1. pic_input_handler \/ ReplayDispatchFrame
  BY DEF ReplayNext, PostTimed, PostType, ExecutePicBased, PostFramed, ExecuteFrameBased,
         Tick, GuestReads, HostKey, GuestSetsScanning
<1>2. CASE pic_input_handler
  <2> DEFINE ev == Head(pending)
             o == [ev |-> ev, by |-> "timer", at |-> elapsed, gap |-> gap]
  <2>1. pending # <<>> /\ ~Held(kbd, ev) /\ out' = <<o>> /\ kbd' = dispatch_input_event(kbd, ev)
    BY <1>2 DEF pic_input_handler
  <2>2. kbd \in Kbd /\ ev \in InputEvent
    BY <2>1, TailChained DEF ReplayInv, RestGood, ChainGood
  <2>3. o.ev = ev
    OBVIOUS
  <2> HIDE DEF o, ev
  <2>4. Keys(out') = IF ev.kind = "key" THEN 1 ELSE 0
    BY <2>1, <2>3, OneKey
  <2> QED  BY <2>1, <2>2, <2>4, KeyEnters
<1>3. CASE ReplayDispatchFrame
  <2>1. framePending \in Seq(InputEvent)
    BY DEF ReplayInv, RestGood
  <2> QED  BY <1>3, <2>1, FrameStep
<1> QED  BY <1>1, <1>2, <1>3

\* Every key that pic_input_handler or ReplayDispatchFrame sends enters the
\* keyboard's buffer while scanning is on, for any number of slots and any cap
\* of events per frame: held back until two slots are free, it overflows nothing.
THEOREM KeysAlwaysEnter == ReplaySpec => KeysEnterBuffer
<1>1. ReplayInv /\ [ReplayNext]_replayVars =>
          [(out' # <<>> /\ kbd.scan) => /\ Load(kbd') = Load(kbd) + Keys(out')
                                        /\ kbd'.over = kbd.over]_replayVars
  <2> SUFFICES ASSUME ReplayInv, ReplayNext, out' # <<>>, kbd.scan
               PROVE  Load(kbd') = Load(kbd) + Keys(out') /\ kbd'.over = kbd.over
    OBVIOUS
  <2> QED  BY KeysEnter
<1> QED  BY <1>1, InitReplay, NextReplay, PTL DEF ReplaySpec, KeysEnterBuffer

-----------------------------------------------------------------------------
(* Replay: the distance of frames.                                         *)

\* Events whose distance from frame f was kept.
Distant(f) == {e \in InputEvent : e.asked.frame # NoFrame => e.frame >= e.asked.frame - f}

FrameInv == framePending \in Seq(Distant(first)) /\ FramesKept

LEMMA PostFramedKept ==
    ASSUME ReplayInv, PostFramed PROVE FrameInv'
<1>1. PICK req \in Requests : HasFrameData(req) /\ ExecuteFrameBased(Parse(req))
  BY DEF PostFramed
<1> DEFINE s == Parse(req)
           m == Normalized(s)
<1>2. s \in Seq(InputEvent) /\ s # <<>> /\ framePending' = m /\ first' = FrameBase(s)
  BY <1>1, FramedIs
<1>4. req \in Seq(Asked)
  BY ReplayAssumption DEF Asked
<1>5. \A i \in 1 .. Len(s) : s[i].asked.frame # NoFrame => s[i].frame = s[i].asked.frame
  BY <1>4, ParsedIs
<1> HIDE DEF s
<1>6. PICK b : b = FrameBase(s)
  OBVIOUS
<1>7. /\ m \in Seq(InputEvent) /\ Len(m) = Len(s)
      /\ \A i \in 1 .. Len(s) : /\ m[i].asked = s[i].asked
                               /\ m[i].frame >= s[i].frame - b
  BY <1>2, <1>6, NormalizedIs
<1> HIDE DEF m
<1>8. \A i \in 1 .. Len(m) : m[i] \in Distant(b)
  BY <1>5, <1>7 DEF Distant
<1>9. m \in Seq(Distant(b))
  BY <1>7, <1>8
<1>10. FramesKept'
  BY <1>1 DEF ExecuteFrameBased, FramesKept
<1>11. (framePending \in Seq(Distant(first)))'
  BY <1>2, <1>6, <1>9 DEF Distant
<1> QED  BY <1>10, <1>11 DEF FrameInv

LEMMA FrameKept ==
    ASSUME ReplayInv, FrameInv, ReplayDispatchFrame PROVE FrameInv'
<1> DEFINE S == Distant(first)
<1>1. S \in SUBSET InputEvent /\ framePending \in Seq(S)
  BY DEF FrameInv, Distant
<1>2. first' = first /\ first \in Nat
  BY DEF ReplayDispatchFrame, ReplayInv, RestGood
<1> HIDE DEF S
<1>3. framePending' \in Seq(S) /\ rel' \in 0 .. MaxAge /\ out' \in Seq(Sent(S, rel'))
  BY <1>1, FrameStep
<1>4. (framePending \in Seq(Distant(first)))'
  BY <1>2, <1>3 DEF Distant, S
<1>5. PICK n \in 0 .. MaxAge : n = rel'
  BY <1>3
<1>6. out' \in Seq(Sent(S, n))
  BY <1>3, <1>5
<1>7. ASSUME NEW o \in Sent(S, n), o.ev.asked.frame # NoFrame
      PROVE  o.at >= o.ev.asked.frame - first
  <2>1. o.ev \in S /\ o.ev.frame <= n /\ o.at = n
    BY DEF Sent
  <2>2. /\ o.ev.frame \in Nat /\ o.ev.asked.frame \in Nat
        /\ o.ev.frame >= o.ev.asked.frame - first
    BY <1>7, <2>1 DEF S, Distant, InputEvent
  <2> QED  BY <1>2, <2>1, <2>2, ReplayAssumption
<1>8. \A i \in DOMAIN out' : out'[i] \in Sent(S, n)
  BY <1>6
<1>9. FramesKept'
  BY <1>2, <1>7, <1>8 DEF FramesKept
<1> QED  BY <1>4, <1>9 DEF FrameInv

LEMMA HandlerKept == ASSUME ReplayInv, FrameInv, pic_input_handler PROVE FrameInv'
<1>1. UNCHANGED <<framePending, first>>
  BY DEF pic_input_handler
<1>2. (framePending \in Seq(Distant(first)))'
  BY <1>1 DEF FrameInv, Distant
<1>3. CASE out' = <<>>
  <2>1. FramesKept'
    BY <1>3 DEF FramesKept
  <2> QED  BY <1>2, <2>1 DEF FrameInv
<1>4. CASE out' # <<>>
  <2> DEFINE ev == Head(pending)
             o == [ev |-> ev, by |-> "timer", at |-> elapsed, gap |-> gap]
  <2>1. pending # <<>> /\ out' = <<o>>
    BY <1>4 DEF pic_input_handler
  <2>2. Chained(pending)
    BY DEF ReplayInv, ChainGood
  <2>3. ev = pending[1] /\ 1 \in 1 .. Len(pending)
    BY <2>1, <2>2 DEF Chained
  <2>4. o.ev.asked.frame = NoFrame
    BY <2>2, <2>3 DEF Chained, Timed
  <2> HIDE DEF o, ev
  <2>5. \A i \in DOMAIN out' : out'[i] = o
    BY <2>1, OneEvent
  <2>6. FramesKept'
    BY <2>4, <2>5 DEF FramesKept
  <2> QED  BY <1>2, <2>6 DEF FrameInv
<1> QED  BY <1>3, <1>4

LEMMA NextKept ==
    ReplayInv /\ FrameInv /\ [ReplayNext]_replayVars => FrameInv'
<1> SUFFICES ASSUME ReplayInv, FrameInv, [ReplayNext]_replayVars PROVE FrameInv'
  OBVIOUS
<1>1. CASE PostFramed
  BY <1>1, PostFramedKept
<1>2. CASE pic_input_handler
  BY <1>2, HandlerKept
<1>3. CASE ReplayDispatchFrame
  BY <1>3, FrameKept
<1>4. CASE UNCHANGED replayVars
  BY <1>4 DEF replayVars, FrameInv, Distant, FramesKept
<1>5. CASE PostTimed \/ PostType \/ Tick \/ GuestReads \/ HostKey \/ GuestSetsScanning
  <2>1. out' = <<>> /\ UNCHANGED <<framePending, first>>
    BY <1>5 DEF PostTimed, PostType, ExecutePicBased, Tick, GuestReads, HostKey,
                GuestSetsScanning
  <2> QED  BY <2>1 DEF FrameInv, Distant, FramesKept
<1> QED  BY <1>1, <1>2, <1>3, <1>4, <1>5 DEF ReplayNext

\* ReplayDispatchFrame sends no event before as many frames have passed as lie
\* between it and the first event of the request, for all requests.  From a
\* first event at frame 0 and time 0 no distance is kept: ExecuteFrameBased
\* passes it over when it looks for the frame that becomes 0, and the frames
\* count from the event it finds.
THEOREM FramesAlwaysKept == ReplaySpec => []FramesKept
<1>1. ReplayInit => FrameInv
  BY DEF ReplayInit, FrameInv, FramesKept
<1>2. ReplayInv /\ FrameInv /\ [ReplayNext]_replayVars => FrameInv'
  BY NextKept
<1>3. FrameInv => FramesKept
  BY DEF FrameInv
<1> QED  BY <1>1, <1>2, <1>3, InitReplay, NextReplay, PTL DEF ReplaySpec
=============================================================================
