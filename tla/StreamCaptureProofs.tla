------------------------- MODULE StreamCaptureProofs ------------------------
(***************************************************************************)
(* Safety of the recordings of video, audio and MIDI, for any formats,     *)
(* levels, padding limit and number of frames; then of the image capturer, *)
(* for any number of saver threads, buffers and requests.                  *)
(***************************************************************************)
EXTENDS StreamCapture, ImageCapture, WellFoundedInduction, TLAPS

-----------------------------------------------------------------------------
(* Induction and recursion over an interval, stated with sets.             *)

\* A set of natural numbers that is not empty has a least element.
LEMMA LeastNat ==
    ASSUME NEW T \in SUBSET Nat, T # {}
    PROVE  \E x \in T : \A y \in T : x <= y
<1> DEFINE R == OpToRel(<, Nat)
<1>1. IsWellFoundedOn(R, Nat)
  BY NatLessThanWellFounded, Zenon
<1>2. \A x, y \in Nat : x < y => <<x, y>> \in R
  BY DEF OpToRel
<1> HIDE DEF R
<1>3. PICK x \in T : \A y \in T : ~(<<y, x>> \in R)
  BY <1>1, WFMin
<1>4. ASSUME NEW y \in T PROVE x <= y
  <2>1. x \in Nat /\ y \in Nat
    OBVIOUS
  <2>2. ~(y < x)
    BY <1>2, <1>3, <2>1, Zenon
  <2> QED  BY <2>1, <2>2
<1> QED  BY <1>4

\* What holds at 0 and is inherited from a number by the next holds up to n.
LEMMA IntervalInduction ==
    ASSUME NEW n \in Nat, NEW P \in SUBSET (0 .. n), 0 \in P,
           \A i \in 1 .. n : i - 1 \in P => i \in P
    PROVE  P = 0 .. n
<1> DEFINE T == (0 .. n) \ P
<1>1. SUFFICES ASSUME T # {} PROVE FALSE
  OBVIOUS
<1>2. T \in SUBSET Nat
  OBVIOUS
<1>3. PICK x \in T : \A y \in T : x <= y
  <2> HIDE DEF T
  <2> QED  BY <1>1, <1>2, LeastNat
<1>4. x # 0 /\ x - 1 \in 0 .. n /\ x \in 1 .. n
  OBVIOUS
<1> QED  BY <1>3, <1>4

\* f is the iteration that begins with c and goes on with the steps G.
Iterates(f, n, D, c, G) ==
    f \in [0 .. n -> D] /\ f[0] = c /\ \A i \in 1 .. n : f[i] = G[i][f[i - 1]]

\* There is one if the steps stay in D.
LEMMA IterationExists ==
    ASSUME NEW n \in Nat, NEW D, NEW c \in D, NEW G \in [1 .. n -> [D -> D]]
    PROVE  \E f : Iterates(f, n, D, c, G)
<1> DEFINE P == {k \in 0 .. n : \E f : Iterates(f, k, D, c, G)}
<1>1. 0 \in P
  <2> DEFINE f == [i \in 0 .. 0 |-> c]
  <2>1. Iterates(f, 0, D, c, G)
    BY DEF Iterates
  <2> HIDE DEF f
  <2> QED  BY <2>1
<1>2. ASSUME NEW k \in 1 .. n, k - 1 \in P PROVE k \in P
  <2>1. PICK f : Iterates(f, k - 1, D, c, G)
    BY <1>2
  <2> DEFINE g == [i \in 0 .. k |-> IF i = k THEN G[k][f[k - 1]] ELSE f[i]]
  <2>2. Iterates(g, k, D, c, G)
    BY <2>1 DEF Iterates
  <2>3. k \in 0 .. n
    OBVIOUS
  <2> HIDE DEF g
  <2> QED  BY <2>2, <2>3
<1>3. P = 0 .. n
  <2>1. P \in SUBSET (0 .. n)
    OBVIOUS
  <2> HIDE DEF P
  <2> QED  BY <1>1, <1>2, <2>1, IntervalInduction
<1>4. n \in P
  <2> HIDE DEF P
  <2> QED  BY <1>3
<1> QED  BY <1>4, Zenon

-----------------------------------------------------------------------------
(* The AVI file.                                                           *)

Video == [state : States, mode : Modes, last : 0..MaxFrames, handle : Handles,
          format : Formats \cup {NoFormat}, level : Levels \cup {0},
          write_error : BOOLEAN, end_reason : Reasons, opened : BOOLEAN,
          lost : BOOLEAN, low : BOOLEAN, forgotten : BOOLEAN,
          frames : Nat, first : 0..MaxFrames, uneven : BOOLEAN]

\* Clean means that nothing is lost but what is forgotten, an error that
\* something is.
ReasonTrue(v) ==
    /\ v.end_reason = "clean" => ~v.low /\ (v.lost => v.forgotten)
    /\ v.end_reason = "write_error" => v.lost
    /\ v.end_reason = "disk_space_low" => v.low
    /\ v.lost /\ v.handle = "none" => v.end_reason = "write_error" \/ v.low \/ v.forgotten

\* Low space ends the capture that finds it.
NotLow(v) == v.opened /\ v.state # "off" => ~v.low

\* A file that is open belongs to a capture in progress, has the level that
\* is set and no failure behind it but a forgotten one.
FileGood(v, ls) ==
    /\ ReasonTrue(v) /\ NotLow(v)
    /\ v.handle = "open" => /\ v.state = "inprogress" /\ v.opened
                            /\ v.level = ls[v.mode]
                            /\ v.end_reason = "none" /\ ~v.write_error
                            /\ v.lost => v.forgotten

\* What the file may be when it is closed: also one whose end was decided.
Closable(v) ==
    /\ ReasonTrue(v)
    /\ v.handle = "open" =>
           /\ v.end_reason # "clean"
           /\ v.end_reason = "none" => ~v.write_error /\ ~v.low /\ (v.lost => v.forgotten)

\* Fields that closing or stopping leave alone.
SameCount(v, w) ==
    /\ w.mode = v.mode /\ w.last = v.last /\ w.first = v.first
    /\ w.frames = v.frames /\ w.uneven = v.uneven

LEMMA FinalisedGood ==
    ASSUME NEW v \in Video, Closable(v), NEW w \in Finalised(v)
    PROVE  /\ w \in Video /\ w.handle = "none" /\ ReasonTrue(w)
           /\ SameCount(v, w) /\ w.state = v.state
           /\ w.opened = v.opened /\ w.low = v.low
<1>1. CASE v.handle = "none"
  BY <1>1 DEF Finalised, Closable, SameCount
<1>2. CASE v.handle # "none"
  <2>1. PICK fails \in BOOLEAN :
          w = Classified([v EXCEPT !.handle = "none", !.write_error = @ \/ fails,
                                   !.lost = @ \/ fails])
    BY <1>2 DEF Finalised
  <2>2. v.handle = "open"
    BY <1>2 DEF Video, Handles
  <2> DEFINE u == [v EXCEPT !.handle = "none", !.write_error = @ \/ fails,
                            !.lost = @ \/ fails]
  <2>3. /\ u \in Video /\ u.handle = "none" /\ SameCount(v, u) /\ u.state = v.state
        /\ u.opened = v.opened /\ u.low = v.low /\ u.forgotten = v.forgotten
        /\ u.end_reason = v.end_reason
        /\ u.write_error = (v.write_error \/ fails) /\ u.lost = (v.lost \/ fails)
    <3>1. PICK e \in BOOLEAN, l \in BOOLEAN : e = (v.write_error \/ fails) /\ l = (v.lost \/ fails)
      BY Zenon
    <3>2. u = [v EXCEPT !.handle = "none", !.write_error = e, !.lost = l]
      BY <3>1, Zenon
    <3> HIDE DEF u
    <3>3. /\ u \in Video /\ u.handle = "none" /\ SameCount(v, u) /\ u.state = v.state
          /\ u.opened = v.opened /\ u.low = v.low /\ u.forgotten = v.forgotten
          /\ u.end_reason = v.end_reason /\ u.write_error = e /\ u.lost = l
      BY <3>2 DEF SameCount, Video, Handles
    <3> QED  BY <3>1, <3>3, Zenon
  <2>4. w = [u EXCEPT !.end_reason = IF @ # "none" THEN @
                                     ELSE IF u.write_error THEN "write_error" ELSE "clean"]
    BY <2>1 DEF Classified
  <2> HIDE DEF u
  <2>5. /\ w \in Video /\ w.handle = "none" /\ SameCount(u, w) /\ w.state = u.state
        /\ w.opened = u.opened /\ w.low = u.low /\ w.forgotten = u.forgotten
        /\ w.lost = u.lost
        /\ w.end_reason = IF u.end_reason # "none" THEN u.end_reason
                          ELSE IF u.write_error THEN "write_error" ELSE "clean"
    BY <2>3, <2>4 DEF SameCount, Video, Reasons
  <2>6. ReasonTrue(w)
    BY <2>2, <2>3, <2>5 DEF Closable, ReasonTrue, Video, Reasons
  <2> QED  BY <2>3, <2>5, <2>6 DEF SameCount
<1> QED  BY <1>1, <1>2

LEMMA StoppedGood ==
    ASSUME NEW v \in Video, Closable(v), v.handle = "open" => v.state = "inprogress",
           NEW w \in CAPTURE_StopVideoCapture(v)
    PROVE  /\ w \in Video /\ w.handle = "none" /\ ReasonTrue(w)
           /\ SameCount(v, w) /\ w.state = "off"
<1>1. CASE v.state # "inprogress"
  BY <1>1 DEF CAPTURE_StopVideoCapture, Closable, SameCount, Video, States, Handles, ReasonTrue
<1>2. CASE v.state = "inprogress"
  <2>1. PICK u \in Finalised(v) : w = [u EXCEPT !.state = "off"]
    BY <1>2 DEF CAPTURE_StopVideoCapture
  <2>2. /\ u \in Video /\ u.handle = "none" /\ ReasonTrue(u)
        /\ SameCount(v, u) /\ u.state = v.state
    BY FinalisedGood
  <2> QED  BY <2>1, <2>2 DEF SameCount, Video, States, ReasonTrue
<1> QED  BY <1>1, <1>2

LEMMA CreatedGood ==
    ASSUME levels \in [Modes -> Levels], NEW v \in Video,
           ReasonTrue(v), NotLow(v), v.handle = "none", v.state = "inprogress",
           NEW format \in Formats, NEW w \in Created(v, format)
    PROVE  w \in Video /\ FileGood(w, levels) /\ SameCount(v, w) /\ w.state = v.state
<1> DEFINE u == OfThisCapture(v)
           clean == [u EXCEPT !.handle = "open", !.write_error = FALSE,
                              !.end_reason = "none", !.level = levels[v.mode],
                              !.opened = TRUE, !.forgotten = @ \/ u.lost]
           failed == [u EXCEPT !.end_reason = "write_error", !.lost = TRUE]
<1>1. v.mode \in Modes /\ levels[v.mode] \in Levels
  BY DEF Video
<1>2. /\ u \in Video /\ u.handle = "none" /\ ~u.low /\ SameCount(v, u)
      /\ u.state = "inprogress"
  BY DEF Video, SameCount, OfThisCapture, NotLow
<1>3. w \in {failed, clean,
             [failed EXCEPT !.write_error = TRUE, !.format = format, !.level = clean.level],
             [clean EXCEPT !.format = format]}
  BY Zenon DEF Created
<1> HIDE DEF u
<1>4. /\ clean \in Video /\ clean.handle = "open" /\ ~clean.write_error
      /\ clean.end_reason = "none" /\ clean.level = levels[clean.mode]
      /\ (clean.lost => clean.forgotten) /\ ~clean.low /\ clean.opened
      /\ SameCount(v, clean) /\ clean.state = v.state
  <2>1. PICK forgotten \in BOOLEAN : forgotten = (u.forgotten \/ u.lost)
    OBVIOUS
  <2>2. clean = [u EXCEPT !.handle = "open", !.write_error = FALSE, !.end_reason = "none",
                          !.level = levels[v.mode], !.opened = TRUE, !.forgotten = forgotten]
    BY <1>2, <2>1 DEF Video
  <2> HIDE DEF clean
  <2>3. /\ clean \in Video /\ clean.handle = "open" /\ clean.write_error = FALSE
        /\ clean.end_reason = "none" /\ clean.level = levels[v.mode] /\ clean.mode = u.mode
        /\ clean.lost = u.lost /\ clean.forgotten = forgotten /\ clean.low = u.low
        /\ clean.opened = TRUE /\ SameCount(u, clean) /\ clean.state = u.state
    BY <1>1, <1>2, <2>2 DEF Video, SameCount, Handles, Reasons
  <2> QED  BY <1>2, <2>1, <2>3 DEF SameCount
<1>5. /\ failed \in Video /\ failed.handle = "none" /\ failed.end_reason = "write_error"
      /\ failed.lost /\ ~failed.low /\ SameCount(v, failed) /\ failed.state = v.state
  BY <1>1, <1>2 DEF Video, SameCount, Handles, Reasons
<1> HIDE DEF clean, failed
<1>6. CASE w = failed
  BY <1>5, <1>6 DEF FileGood, NotLow, ReasonTrue
<1>7. CASE w = clean
  BY <1>4, <1>7 DEF FileGood, NotLow, ReasonTrue
<1>8. CASE w = [failed EXCEPT !.write_error = TRUE, !.format = format, !.level = clean.level]
  BY <1>4, <1>5, <1>8 DEF FileGood, NotLow, ReasonTrue, Video, SameCount
<1>9. CASE w = [clean EXCEPT !.format = format]
  BY <1>4, <1>9 DEF FileGood, NotLow, ReasonTrue, Video, SameCount
<1> QED  BY <1>3, <1>6, <1>7, <1>8, <1>9

\* A frame is written once, unless the recording ends or leaves one out.
OneMore(v, w) ==
    /\ w.mode = v.mode /\ w.last = v.last /\ w.first = v.first
    /\ w.state \in {"off", "inprogress"}
    /\ w.state = "inprogress" /\ ~w.uneven => ~v.uneven /\ w.frames = v.frames + 1

LEMMA FrameWrittenGood ==
    ASSUME NEW v \in Video, FileGood(v, levels), v.handle = "open", v.state = "inprogress",
           NEW w \in FrameWritten(v)
    PROVE  w \in Video /\ FileGood(w, levels) /\ OneMore(v, w)
<1> DEFINE bad == [v EXCEPT !.write_error = TRUE, !.lost = TRUE, !.end_reason = "write_error"]
           low == [Counted(v) EXCEPT !.low = TRUE, !.end_reason = "disk_space_low"]
<1>1. /\ Counted(v) \in Video /\ FileGood(Counted(v), levels) /\ OneMore(v, Counted(v))
      /\ Counted(v).state = "inprogress"
  <2>1. CASE v.uneven
    BY <2>1 DEF Counted, OneMore
  <2>2. CASE ~v.uneven
    BY <2>2 DEF Counted, Video, FileGood, NotLow, ReasonTrue, OneMore
  <2> QED  BY <2>1, <2>2
<1>2. /\ bad \in Video /\ Closable(bad) /\ bad.state = "inprogress"
      /\ bad.mode = v.mode /\ bad.last = v.last /\ bad.first = v.first
  BY DEF Video, Closable, ReasonTrue, Reasons
<1>3. /\ low \in Video /\ Closable(low) /\ low.state = "inprogress"
      /\ low.mode = v.mode /\ low.last = v.last /\ low.first = v.first
  <2>1. /\ low \in Video /\ low.state = "inprogress" /\ low.low
        /\ low.end_reason = "disk_space_low"
        /\ low.mode = v.mode /\ low.last = v.last /\ low.first = v.first
    BY <1>1 DEF Video, Reasons, OneMore
  <2> HIDE DEF low
  <2> QED  BY <2>1 DEF Closable, ReasonTrue
<1>4. \/ w = [v EXCEPT !.uneven = TRUE] \/ w = Counted(v)
      \/ w \in CAPTURE_StopVideoCapture(bad) \/ w \in CAPTURE_StopVideoCapture(low)
  BY DEF FrameWritten
<1> HIDE DEF bad, low
<1>5. CASE w = [v EXCEPT !.uneven = TRUE]
  BY <1>5 DEF Video, FileGood, NotLow, ReasonTrue, OneMore
<1>6. CASE w = Counted(v)
  BY <1>1, <1>6
<1>7. CASE w \in CAPTURE_StopVideoCapture(bad)
  BY <1>2, <1>7, StoppedGood DEF FileGood, NotLow, OneMore, SameCount
<1>8. CASE w \in CAPTURE_StopVideoCapture(low)
  BY <1>3, <1>8, StoppedGood DEF FileGood, NotLow, OneMore, SameCount
<1> QED  BY <1>4, <1>5, <1>6, <1>7, <1>8

LEMMA AddFrameGood ==
    ASSUME levels \in [Modes -> Levels], NEW v \in Video,
           FileGood(v, levels), v.state = "inprogress",
           NEW format \in Formats, NEW w \in AddFrame(v, format)
    PROVE  w \in Video /\ FileGood(w, levels) /\ OneMore(v, w)
<1> DEFINE kept == IF v.handle = "open" /\ v.format # format THEN Finalised(v) ELSE {v}
           opened == UNION {IF u.handle = "none" THEN Created(u, format) ELSE {u} : u \in kept}
<1>1. PICK x \in opened : w \in IF x.handle = "none" THEN CAPTURE_StopVideoCapture(x)
                                                    ELSE FrameWritten(x)
  BY DEF AddFrame
<1>2. PICK u \in kept : x \in IF u.handle = "none" THEN Created(u, format) ELSE {u}
  OBVIOUS
<1>3. u \in Video /\ FileGood(u, levels) /\ SameCount(v, u) /\ u.state = "inprogress"
  <2>1. CASE u \in Finalised(v)
    <3>1. Closable(v)
      BY DEF FileGood, NotLow, Closable
    <3> QED  BY <2>1, <3>1, FinalisedGood DEF FileGood, NotLow
  <2>2. CASE u = v
    BY <2>2 DEF SameCount
  <2> QED  BY <2>1, <2>2
<1>4. x \in Video /\ FileGood(x, levels) /\ SameCount(u, x) /\ x.state = "inprogress"
  <2>1. CASE u.handle = "none"
    <3>1. x \in Created(u, format) /\ ReasonTrue(u) /\ NotLow(u)
      BY <1>2, <1>3, <2>1 DEF FileGood
    <3> QED  BY <1>3, <2>1, <3>1, CreatedGood
  <2>2. CASE u.handle # "none"
    BY <1>2, <1>3, <2>2 DEF SameCount
  <2> QED  BY <2>1, <2>2
<1>5. SameCount(v, x)
  BY <1>3, <1>4 DEF SameCount
<1>6. CASE x.handle = "none"
  <2>1. w \in CAPTURE_StopVideoCapture(x) /\ Closable(x)
    BY <1>1, <1>4, <1>6 DEF FileGood, NotLow, Closable
  <2> QED  BY <1>4, <1>5, <2>1, StoppedGood DEF FileGood, NotLow, OneMore, SameCount
<1>7. CASE x.handle # "none"
  <2>1. w \in FrameWritten(x) /\ x.handle = "open"
    BY <1>1, <1>4, <1>7 DEF Video, Handles
  <2>2. w \in Video /\ FileGood(w, levels) /\ OneMore(x, w)
    BY <1>4, <2>1, FrameWrittenGood
  <2> QED  BY <1>5, <2>2 DEF OneMore, SameCount
<1> QED  BY <1>6, <1>7

-----------------------------------------------------------------------------
(* The frames of one present.                                              *)

\* As OneMore, for k frames.
More(v, w, k) ==
    /\ w.mode = v.mode /\ w.last = v.last /\ w.first = v.first
    /\ w.state \in {"off", "inprogress"}
    /\ w.state = "inprogress" /\ ~w.uneven => ~v.uneven /\ w.frames = v.frames + k

Writers == {v \in Video : FileGood(v, levels) /\ v.state # "pending"}

LEMMA TurnGood ==
    ASSUME levels \in [Modes -> Levels], NEW format \in Formats,
           NEW v \in Writers, NEW w \in FrameUnlessEnded(v, format)
    PROVE  w \in Writers /\ (v.state = "off" => w = v)
           /\ (v.state = "inprogress" => OneMore(v, w))
<1>1. v \in Video /\ FileGood(v, levels) /\ v.state \in {"off", "inprogress"}
  BY DEF Writers, Video, States
<1>2. CASE v.state = "off"
  BY <1>1, <1>2 DEF FrameUnlessEnded
<1>3. CASE v.state = "inprogress"
  <2>1. w \in AddFrame(v, format)
    BY <1>3 DEF FrameUnlessEnded
  <2>2. w \in Video /\ FileGood(w, levels) /\ OneMore(v, w)
    BY <1>1, <1>3, <2>1, AddFrameGood
  <2>3. w \in Writers
    BY <2>2 DEF Writers, OneMore
  <2> QED  BY <1>3, <2>2, <2>3
<1> QED  BY <1>1, <1>2, <1>3

\* n turns write n frames, unless one of them ends the recording or leaves a
\* frame out; the turns after the end change nothing.
LEMMA TurnsGood ==
    ASSUME levels \in [Modes -> Levels], NEW format \in Formats, NEW n \in Nat,
           NEW v \in Writers, v.state = "inprogress", NEW w \in AfterTurns(v, format, n)
    PROVE  w \in Writers /\ More(v, w, n)
<1> DEFINE Turn(S) == UNION {FrameUnlessEnded(u, format) : u \in S}
           A == CHOOSE f : f = [k \in 0 .. n |-> IF k = 0 THEN {v} ELSE Turn(f[k - 1])]
           G == [k \in 1 .. n |-> [S \in SUBSET Writers |-> Turn(S)]]
<1>1. AfterTurns(v, format, n) = A[n]
  BY DEF AfterTurns
<1>2. \A S \in SUBSET Writers : Turn(S) \in SUBSET Writers
  BY TurnGood
<1>3. G \in [1 .. n -> [SUBSET Writers -> SUBSET Writers]]
  BY <1>2
<1>4. PICK f : Iterates(f, n, SUBSET Writers, {v}, G)
  <2> HIDE DEF G
  <2>1. {v} \in SUBSET Writers
    OBVIOUS
  <2> QED  BY <1>3, <2>1, IterationExists
<1>5. f = [k \in 0 .. n |-> IF k = 0 THEN {v} ELSE Turn(f[k - 1])]
  <2>1. \A k \in 1 .. n : f[k - 1] \in SUBSET Writers
    BY <1>4 DEF Iterates
  <2> HIDE DEF Turn
  <2>2. \A k \in 1 .. n : f[k] = Turn(f[k - 1])
    BY <1>4, <2>1 DEF Iterates
  <2>3. \A k \in 0 .. n : k # 0 => k \in 1 .. n
    OBVIOUS
  <2>4. \A k \in 0 .. n : f[k] = IF k = 0 THEN {v} ELSE Turn(f[k - 1])
    BY <1>4, <2>2, <2>3 DEF Iterates
  <2>5. f = [k \in 0 .. n |-> f[k]]
    BY <1>4 DEF Iterates
  <2> QED  BY <2>4, <2>5
<1>6. A = [k \in 0 .. n |-> IF k = 0 THEN {v} ELSE Turn(A[k - 1])]
  <2> HIDE DEF Turn
  <2> QED  BY <1>5, Zenon
<1> DEFINE P == {k \in 0 .. n : \A u \in A[k] : u \in Writers /\ More(v, u, k)}
<1>7. 0 \in P
  <2>1. A[0] = {v}
    <3> HIDE DEF A, Turn
    <3> QED  BY <1>6
  <2>2. More(v, v, 0)
    BY DEF More, Writers, Video
  <2> HIDE DEF A
  <2> QED  BY <2>1, <2>2
<1>8. ASSUME NEW k \in 1 .. n, k - 1 \in P PROVE k \in P
  <2> SUFFICES ASSUME NEW u \in A[k] PROVE u \in Writers /\ More(v, u, k)
    OBVIOUS
  <2>1. A[k] = Turn(A[k - 1])
    <3>1. k \in 0 .. n /\ k # 0
      OBVIOUS
    <3> HIDE DEF A, Turn
    <3> QED  BY <1>6, <3>1
  <2>2. \A x \in A[k - 1] : x \in Writers /\ More(v, x, k - 1)
    BY <1>8
  <2> HIDE DEF A
  <2>3. PICK x \in A[k - 1] : u \in FrameUnlessEnded(x, format)
    BY <2>1
  <2>4. x \in Writers /\ More(v, x, k - 1)
    BY <2>2
  <2>5. /\ u \in Writers /\ (x.state = "off" => u = x)
        /\ (x.state = "inprogress" => OneMore(x, u))
    BY <2>3, <2>4, TurnGood
  <2>6. v.frames \in Nat /\ x.frames \in Nat
    BY <2>4 DEF Writers, Video
  <2> QED  BY <2>4, <2>5, <2>6 DEF More, OneMore
<1>9. P = 0 .. n
  <2>1. P \in SUBSET (0 .. n)
    OBVIOUS
  <2> HIDE DEF P
  <2> QED  BY <1>7, <1>8, <2>1, IntervalInduction
<1>10. n \in P
  <2> HIDE DEF P
  <2> QED  BY <1>9
<1> HIDE DEF A
<1> QED  BY <1>1, <1>10

\* The frames written are those emulated since the first.
InSync(v) ==
    v.state = "inprogress" /\ v.mode = "rendered" /\ ~v.uneven
        => IF v.frames = 0 THEN v.last = 0
                           ELSE v.last # 0 /\ v.frames = v.last - v.first + 1

\* What holds of the video recording between two steps.
VideoGood(v, ls) ==
    /\ v \in Video /\ FileGood(v, ls) /\ InSync(v)
    /\ v.state = "pending" => v.last = 0 /\ v.frames = 0

LEMMA BegunGood ==
    ASSUME NEW v, VideoGood(v, levels), v.state # "off",
           NEW w, w = [v EXCEPT !.state = Begun(@)]
    PROVE  VideoGood(w, levels) /\ w.state = "inprogress" /\ SameCount(v, w)
<1>1. w \in Video /\ w.state = "inprogress" /\ SameCount(v, w) /\ w.handle = v.handle
  BY DEF VideoGood, Video, States, Begun, SameCount
<1>2. FileGood(w, levels)
  BY DEF VideoGood, Video, States, Begun, FileGood, NotLow, ReasonTrue
<1>3. InSync(w)
  BY <1>1 DEF VideoGood, InSync, SameCount, Video, States
<1> QED  BY <1>1, <1>2, <1>3 DEF VideoGood

LEMMA RenderedFrameGood ==
    ASSUME levels \in [Modes -> Levels], rendered_frame_count \in 0 .. MaxFrames,
           VideoGood(video, levels), video.state # "off", video.mode = "rendered",
           NEW format \in Formats,
           NEW w \in CAPTURE_AddRenderedVideoFrame(video, format)
    PROVE  VideoGood(w, levels)
<1> DEFINE wanted == FramesToWrite(video)
           n == IF wanted > MaxPadding THEN 1 ELSE wanted
           begun == [video EXCEPT !.state = Begun(@)]
           start == [begun EXCEPT !.last = rendered_frame_count,
                                  !.first = IF video.frames = 0 THEN rendered_frame_count
                                                                  ELSE @,
                                  !.uneven = @ \/ n # wanted \/ rendered_frame_count = 0]
<1> USE StreamAssumption
<1>1. video \in Video /\ video.last \in Nat /\ video.first \in Nat /\ video.frames \in Nat
  BY DEF VideoGood, Video
<1>2. /\ wanted \in Nat /\ n \in Nat
      /\ video.last = 0 => wanted = 1
      /\ video.last # 0 /\ wanted # 0 => wanted = rendered_frame_count - video.last
      /\ wanted = 0 <=> n = 0
  BY <1>1 DEF FramesToWrite
<1>3. VideoGood(begun, levels) /\ begun.state = "inprogress" /\ SameCount(video, begun)
  BY BegunGood
<1>4. w \in IF n = 0 THEN {begun} ELSE AfterTurns(start, format, n)
  BY Zenon DEF CAPTURE_AddRenderedVideoFrame
<1>5. CASE n = 0
  <2> HIDE DEF begun, start, n, wanted
  <2> QED  BY <1>3, <1>4, <1>5
<1>6. CASE n # 0
  <2> HIDE DEF n, wanted, begun
  <2>1. begun \in Video /\ FileGood(begun, levels) /\ InSync(begun)
    BY <1>3 DEF VideoGood
  <2>2. /\ start \in Video /\ start.state = "inprogress" /\ start.mode = "rendered"
        /\ start.last = rendered_frame_count /\ start.frames = video.frames
        /\ start.first = IF video.frames = 0 THEN rendered_frame_count ELSE video.first
        /\ start.uneven = (video.uneven \/ n # wanted \/ rendered_frame_count = 0)
    <3> DEFINE f == IF video.frames = 0 THEN rendered_frame_count ELSE begun.first
               un == begun.uneven \/ n # wanted \/ rendered_frame_count = 0
    <3>1. f \in 0 .. MaxFrames
      BY <2>1 DEF Video
    <3>2. un \in BOOLEAN
      BY Zenon
    <3>3. start = [begun EXCEPT !.last = rendered_frame_count, !.first = f, !.uneven = un]
      OBVIOUS
    <3> HIDE DEF f, un, start
    <3>4. /\ start \in Video /\ start.state = begun.state /\ start.mode = begun.mode
          /\ start.last = rendered_frame_count /\ start.first = f /\ start.uneven = un
          /\ start.frames = begun.frames
      BY <2>1, <3>1, <3>2, <3>3 DEF Video
    <3>5. un = (video.uneven \/ n # wanted \/ rendered_frame_count = 0)
      BY <1>3 DEF SameCount, un
    <3> QED  BY <1>3, <3>4, <3>5 DEF SameCount, f
  <2>3. start \in Writers
    <3>1. FileGood(start, levels)
      BY <2>1 DEF FileGood, NotLow, ReasonTrue, Video
    <3> QED  BY <2>2, <3>1 DEF Writers
  <2> HIDE DEF start
  <2>4. w \in Writers /\ More(start, w, n)
    BY <1>2, <1>4, <1>6, <2>2, <2>3, TurnsGood
  <2>5. w \in Video /\ FileGood(w, levels) /\ w.state # "pending"
    BY <2>4 DEF Writers
  <2>6. InSync(w)
    <3> SUFFICES ASSUME w.state = "inprogress", ~w.uneven
                 PROVE  w.frames # 0 /\ w.last # 0 /\ w.frames = w.last - w.first + 1
      BY DEF InSync
    <3>1. ~start.uneven /\ w.frames = start.frames + n
          /\ w.last = start.last /\ w.first = start.first
      BY <2>4 DEF More
    <3>2. ~video.uneven /\ n = wanted /\ rendered_frame_count # 0
      BY <2>2, <3>1
    <3>3. IF video.frames = 0 THEN video.last = 0
          ELSE video.last # 0 /\ video.frames = video.last - video.first + 1
      BY <3>2 DEF VideoGood, InSync, Video, States
    <3> QED  BY <1>1, <1>2, <1>6, <2>2, <3>1, <3>2, <3>3
  <2> QED  BY <2>5, <2>6 DEF VideoGood
<1> QED  BY <1>5, <1>6

-----------------------------------------------------------------------------
(* The recordings.                                                         *)

Stream == [state : States, handle : Handles]

StreamGood(s) == s \in Stream /\ (s.handle = "open" => s.state = "inprogress")

StreamInv ==
    /\ levels \in [Modes -> Levels]
    /\ rendered_frame_count \in 0 .. MaxFrames
    /\ VideoGood(video, levels)
    /\ StreamGood(audio) /\ StreamGood(midi)

LEMMA DataAddedGood ==
    ASSUME NEW s, StreamGood(s), NEW t \in DataAdded(s) PROVE StreamGood(t)
BY DEF StreamGood, DataAdded, Stream, States, Handles

LEMMA StreamStoppedGood ==
    ASSUME NEW s, StreamGood(s) PROVE StreamGood(StreamStopped(s))
BY DEF StreamGood, StreamStopped, NoStream, Stream, States, Handles

LEMMA PendingGood ==
    ASSUME NEW s, StreamGood(s), s.state = "off"
    PROVE  StreamGood([s EXCEPT !.state = "pending"])
BY DEF StreamGood, Stream, States

\* A recording that is off or pending has no file whose level matters.
LEMMA OtherLevels ==
    ASSUME NEW v, NEW ls, VideoGood(v, ls), v.handle = "none", NEW other
    PROVE  VideoGood(v, other)
BY DEF VideoGood, FileGood

LEMMA InitStreamInv == Init => StreamInv
<1> SUFFICES ASSUME Init PROVE StreamInv
  OBVIOUS
<1>1. video \in Video
  BY StreamAssumption DEF Init, Video, States, Modes, Handles, Reasons
<1>2. FileGood(video, levels) /\ InSync(video) /\ video.state # "pending"
  BY DEF Init, FileGood, NotLow, ReasonTrue, InSync
<1>3. StreamGood(audio) /\ StreamGood(midi)
  BY DEF Init, NoStream, StreamGood, Stream, States, Handles
<1>4. levels \in [Modes -> Levels] /\ rendered_frame_count \in 0 .. MaxFrames
  BY StreamAssumption DEF Init
<1> QED  BY <1>1, <1>2, <1>3, <1>4 DEF StreamInv, VideoGood

LEMMA NextStreamInv == StreamInv /\ [Next]_vars => StreamInv'
<1> SUFFICES ASSUME StreamInv, [Next]_vars PROVE StreamInv'
  OBVIOUS
<1> USE DEF StreamInv
<1>1. CASE FrameEnds
  <2>1. PICK format \in Formats : video' \in RawFrame(video, format)
    BY <1>1 DEF FrameEnds
  <2>2. /\ UNCHANGED <<levels, audio, midi>>
        /\ rendered_frame_count' \in 0 .. MaxFrames
    BY <1>1, StreamAssumption DEF FrameEnds
  <2>3. VideoGood(video', levels)
    <3>1. CASE video.mode = "rendered" \/ video.state = "off"
      BY <2>1, <3>1 DEF RawFrame
    <3>2. CASE video.mode # "rendered" /\ video.state # "off"
      <4> DEFINE v == [video EXCEPT !.state = Begun(@)]
      <4>1. VideoGood(v, levels) /\ v.state = "inprogress" /\ SameCount(video, v)
        BY <3>2, BegunGood
      <4>2. video' \in AddFrame(v, format)
        BY <2>1, <3>2 DEF RawFrame
      <4> HIDE DEF v
      <4>3. video' \in Video /\ FileGood(video', levels) /\ OneMore(v, video')
        BY <4>1, <4>2, AddFrameGood DEF VideoGood
      <4> QED  BY <3>2, <4>1, <4>3 DEF VideoGood, InSync, OneMore, SameCount
    <3> QED  BY <3>1, <3>2
  <2> QED  BY <2>2, <2>3
<1>2. CASE Present
  <2>1. PICK format \in Formats : video' \in CAPTURE_AddRenderedVideoFrame(video, format)
    BY <1>2 DEF Present
  <2>2. /\ video.state # "off" /\ video.mode = "rendered"
        /\ UNCHANGED <<levels, rendered_frame_count, audio, midi>>
    BY <1>2 DEF Present
  <2>3. VideoGood(video', levels)
    BY <2>1, <2>2, RenderedFrameGood
  <2> QED  BY <2>2, <2>3
<1>3. ASSUME NEW mode \in Modes, CAPTURE_StartVideoCapture(mode) PROVE StreamInv'
  <2>1. /\ video.state = "off"
        /\ video' = [video EXCEPT !.mode = mode, !.last = 0, !.state = "pending",
                                  !.opened = FALSE, !.first = 0, !.frames = 0,
                                  !.uneven = FALSE]
        /\ UNCHANGED <<levels, rendered_frame_count, audio, midi>>
    BY <1>3 DEF CAPTURE_StartVideoCapture
  <2>2. /\ video' \in Video /\ video'.state = "pending" /\ video'.last = 0
        /\ video'.frames = 0 /\ ~video'.opened /\ video'.handle = video.handle
    <3>1. video \in Video /\ 0 \in 0 .. MaxFrames
      BY StreamAssumption DEF VideoGood
    <3> QED  BY <2>1, <3>1 DEF Video, States
  <2>3. ReasonTrue(video')
    BY <2>1 DEF VideoGood, FileGood, ReasonTrue, Video
  <2>4. video.handle # "open"
    BY <2>1 DEF VideoGood, FileGood
  <2>5. VideoGood(video', levels)
    BY <2>2, <2>3, <2>4 DEF VideoGood, FileGood, NotLow, InSync
  <2> QED  BY <2>1, <2>5
<1>4. CASE StopVideo
  <2>1. /\ video' \in CAPTURE_StopVideoCapture(video)
        /\ UNCHANGED <<levels, rendered_frame_count, audio, midi>>
    BY <1>4 DEF StopVideo
  <2>2. video \in Video /\ Closable(video) /\ (video.handle = "open" => video.state = "inprogress")
    BY DEF VideoGood, FileGood, NotLow, Closable
  <2>3. /\ video' \in Video /\ video'.handle = "none"
        /\ ReasonTrue(video') /\ video'.state = "off"
    BY <2>1, <2>2, StoppedGood
  <2>4. VideoGood(video', levels)
    BY <2>3 DEF VideoGood, FileGood, NotLow, InSync
  <2> QED  BY <2>1, <2>4
<1>5. CASE SetCompression
  <2>1. /\ video.state = "off" /\ levels' \in [Modes -> Levels]
        /\ UNCHANGED <<video, rendered_frame_count, audio, midi>>
    BY <1>5 DEF SetCompression
  <2>2. video.handle = "none"
    BY <2>1 DEF VideoGood, FileGood, Video, Handles
  <2>3. VideoGood(video, levels')
    BY <2>2, OtherLevels
  <2> QED  BY <2>1, <2>3
<1>6. CASE CAPTURE_AddAudioData
  <2>1. /\ video' = [video EXCEPT !.state = Begun(@)]
        /\ audio' \in DataAdded(audio)
        /\ UNCHANGED <<levels, rendered_frame_count, midi>>
    BY <1>6 DEF CAPTURE_AddAudioData
  <2>2. StreamGood(audio')
    BY <2>1, DataAddedGood
  <2>3. VideoGood(video', levels)
    <3>1. CASE video.state = "off"
      <4>1. video' = video
        BY <2>1, <3>1 DEF Begun, VideoGood, Video
      <4> QED  BY <4>1
    <3>2. CASE video.state # "off"
      BY <2>1, <3>2, BegunGood
    <3> QED  BY <3>1, <3>2
  <2> QED  BY <2>1, <2>2, <2>3
<1>7. CASE CAPTURE_AddMidiData
  BY <1>7, DataAddedGood DEF CAPTURE_AddMidiData
<1>8. CASE StartAudio
  BY <1>8, PendingGood DEF StartAudio
<1>9. CASE StopAudio
  BY <1>9, StreamStoppedGood DEF StopAudio
<1>10. CASE handle_capture_midi_event
  BY <1>10, PendingGood, StreamStoppedGood DEF handle_capture_midi_event
<1>11. CASE notify_capture_setting_updated
  <2>1. /\ StreamGood(audio') /\ StreamGood(midi')
        /\ levels' \in [Modes -> Levels] /\ UNCHANGED rendered_frame_count
    BY <1>11, StreamStoppedGood DEF notify_capture_setting_updated
  <2>2. PICK v \in IF video.state = "inprogress" THEN Finalised(video) ELSE {video} :
            video' = [v EXCEPT !.state = "off", !.mode = "raw", !.last = 0]
    BY <1>11 DEF notify_capture_setting_updated
  <2>3. v \in Video /\ v.handle = "none" /\ ReasonTrue(v)
    <3>1. CASE video.state = "inprogress"
      <4>1. video \in Video /\ Closable(video)
        BY DEF VideoGood, FileGood, NotLow, Closable
      <4> QED  BY <2>2, <3>1, <4>1, FinalisedGood
    <3>2. CASE video.state # "inprogress"
      BY <2>2, <3>2 DEF VideoGood, FileGood, Video, Handles
    <3> QED  BY <3>1, <3>2
  <2>4. /\ video' \in Video /\ video'.handle = "none" /\ video'.state = "off"
    <3>1. 0 \in 0 .. MaxFrames
      BY StreamAssumption
    <3> QED  BY <2>2, <2>3, <3>1 DEF Video, States, Modes
  <2>5. ReasonTrue(video')
    BY <2>2, <2>3 DEF ReasonTrue, Video
  <2>6. VideoGood(video', levels')
    BY <2>4, <2>5 DEF VideoGood, FileGood, NotLow, InSync
  <2> QED  BY <2>1, <2>6
<1>12. CASE UNCHANGED vars
  BY <1>12 DEF vars
<1> QED  BY <1>1, <1>2, <1>3, <1>4, <1>5, <1>6, <1>7, <1>8, <1>9, <1>10, <1>11, <1>12 DEF Next

\* The recordings keep their types; in particular a recording has never more
\* states than off, pending and in progress (capture.cpp 34-71).
THEOREM StreamsTyped == Spec => []TypeOK
<1>1. StreamInv => TypeOK
  BY DEF StreamInv, VideoGood, StreamGood, TypeOK, Video, Stream
<1> QED  BY InitStreamInv, NextStreamInv, <1>1, PTL DEF Spec

\* No sequence of frames, presents, failing files and changed settings leaves
\* a file open behind a capture that is off or pending, and an AVI file has
\* the compression level that is set (capture.cpp 401-467,
\* capture_video.cpp 225-515).
THEOREM FilesAlwaysMatch == Spec => []FilesMatchStates
<1>1. StreamInv => FilesMatchStates
  BY DEF StreamInv, VideoGood, FileGood, StreamGood, FilesMatchStates
<1> QED  BY InitStreamInv, NextStreamInv, <1>1, PTL DEF Spec

\* The reason that the status reports is the truth about the last capture,
\* however it ended (capture_video.cpp 225-515 and 693-744), but for the two
\* exceptions of the property: bytes lost when the file is closed after the
\* disk was found low, and bytes of a file that a change of format ended.
THEOREM ReasonsAlwaysTrue == Spec => []EndReasonTrue
<1>1. StreamInv => EndReasonTrue
  BY DEF StreamInv, VideoGood, FileGood, ReasonTrue, EndReasonTrue
<1> QED  BY InitStreamInv, NextStreamInv, <1>1, PTL DEF Spec

\* A recording in rendered mode has as many frames as were emulated, for any
\* pattern of frames and presents and any padding limit (capture.cpp 401-446),
\* unless it began before the first frame was emulated.
THEOREM RecordingsInSync == Spec => []InSyncWithEmulation
<1>1. StreamInv => InSyncWithEmulation
  BY DEF StreamInv, VideoGood, InSync, InSyncWithEmulation, Video
<1> QED  BY InitStreamInv, NextStreamInv, <1>1, PTL DEF Spec

-----------------------------------------------------------------------------
(* The images.                                                             *)

\* Thread t has image b at place i; the main thread is NumImageSavers.
Held(t, i, b) ==
    \/ t = NumImageSavers /\ i = 0 /\ main.image = b
    \/ t \in Savers /\ i = 0 /\ savers[t].image = b
    \/ t \in Savers /\ i \in 1..Len(savers[t].fifo.queue) /\ savers[t].fifo.queue[i] = b

Threads == Savers \cup {NumImageSavers}

\* ImagesOwned is BuffersOwned in these terms.
ImagesOwned ==
    /\ \A b \in Buffers : b \in live <=> \E t \in Threads, i \in Nat : Held(t, i, b)
    /\ \A b \in Buffers, t, u \in Threads, i, j \in Nat :
          Held(t, i, b) /\ Held(u, j, b) => t = u /\ i = j

ClosingPcs == {"stop", "wake", "join", "closed"}

\* The main thread has an image exactly while it waits to queue it, and a
\* reason to be where it queues images.
MainGood ==
    /\ main \in [pc : Pcs, todo : Seq(Singles), next : {"idle", "present", "rendered"},
                 image : Buffers \cup {NoBuffer}, closing : Savers, again : BOOLEAN]
    /\ current_image_saver_index \in Savers
    /\ live \subseteq Buffers
    /\ main.image # NoBuffer <=> main.pc \in {"enqueue", "waiting"}
    /\ main.pc \in {"copy", "enqueue", "waiting", "notify"} => main.todo # <<>>

SaverType ==
    [pc : {"dequeue", "waiting", "notify", "saving", "ended"},
     fifo : [queue : Seq(Buffers), capacity : Nat, is_running : BOOLEAN],
     image : Buffers \cup {NoBuffer}]

\* What a saver thread has at each point, and that it only ends when its queue
\* is stopped and empty.
SaverGood(v) ==
    /\ v.pc \in {"dequeue", "waiting", "ended"} => v.image = NoBuffer
    /\ v.pc = "saving" => v.image # NoBuffer
    /\ v.pc = "ended" \/ (v.pc = "notify" /\ v.image = NoBuffer)
       => ~v.fifo.is_running /\ v.fifo.queue = <<>>

SaversGood ==
    /\ savers \in [Savers -> SaverType]
    /\ \A s \in Savers : SaverGood(savers[s])

\* The queues run until the capturer is closed, which ends the threads one
\* after the other.
ClosedInOrder ==
    /\ main.pc \notin ClosingPcs => \A s \in Savers : savers[s].fifo.is_running
    /\ main.pc \in ClosingPcs => \A s \in 0..(main.closing - 1) : savers[s].pc = "ended"
    /\ main.pc = "closed" => \A s \in Savers : savers[s].pc = "ended"

RequestsGood ==
    /\ rate \in Rates /\ grouped_mode \in GroupedModes
    /\ state \in [Singles \cup {"grouped"} -> {"off", "pending", "inprogress"}]
    /\ path_initialised \in BOOLEAN
    /\ requests \in 0..MaxRequests

ImageInv == MainGood /\ SaversGood /\ ClosedInOrder /\ ImagesOwned

LEMMA ImageConstants ==
    /\ NumImageSavers \in Nat /\ NumImageSavers >= 1 /\ MaxQueuedImages \in Nat
    /\ Buffers \subseteq Nat /\ NoBuffer \notin Buffers
    /\ MaxRequests \in Nat
    /\ \A s \in Savers : s \in Nat /\ s < NumImageSavers /\ s # NumImageSavers
BY ImageCaptureAssumption DEF NoBuffer, Savers

LEMMA OpenGood == Open \in SaverType /\ SaverGood(Open) /\ Open.fifo.is_running
BY ImageConstants DEF Open, NewQueue, SaverType, SaverGood

LEMMA InitImages == ImageInit => ImageInv /\ RequestsGood
<1> SUFFICES ASSUME ImageInit PROVE ImageInv /\ RequestsGood
  OBVIOUS
<1> USE ImageConstants
<1>1. MainGood
  <2>1. 0 \in Savers /\ <<>> \in Seq(Singles)
    BY DEF Savers
  <2> QED  BY <2>1 DEF ImageInit, MainGood, Pcs
<1>2. \A s \in Savers : savers[s] = Open
  BY DEF ImageInit
<1>3. SaversGood
  BY <1>2, OpenGood DEF ImageInit, SaversGood
<1>4. ClosedInOrder
  BY <1>2, OpenGood DEF ImageInit, ClosedInOrder, ClosingPcs
<1>5. \A b \in Buffers, t \in Threads, i \in Nat : ~Held(t, i, b)
  BY <1>2 DEF ImageInit, Held, Open, NewQueue
<1>6. ImagesOwned
  BY <1>5 DEF ImageInit, ImagesOwned
<1>7. state \in [Singles \cup {"grouped"} -> {"off", "pending", "inprogress"}]
  BY DEF ImageInit, AllOff
<1>8. 0 \in 0..MaxRequests
  OBVIOUS
<1>9. RequestsGood
  BY <1>7, <1>8 DEF ImageInit, RequestsGood
<1> QED  BY <1>1, <1>3, <1>4, <1>6, <1>9 DEF ImageInv

\* Steps that move no image.
LEMMA SameImages ==
    ASSUME ImagesOwned, live' = live, main'.image = main.image,
           \A s \in Savers : /\ savers'[s].image = savers[s].image
                             /\ savers'[s].fifo.queue = savers[s].fifo.queue
    PROVE  ImagesOwned'
<1>1. \A b \in Buffers, t \in Threads, i \in Nat : Held(t, i, b)' <=> Held(t, i, b)
  BY DEF Held
<1>2. \A b \in Buffers : b \in live' <=> \E t \in Threads, i \in Nat : Held(t, i, b)'
  BY <1>1 DEF ImagesOwned
<1>3. \A b \in Buffers, t, u \in Threads, i, j \in Nat :
         Held(t, i, b)' /\ Held(u, j, b)' => t = u /\ i = j
  BY <1>1 DEF ImagesOwned
<1> QED  BY <1>2, <1>3 DEF ImagesOwned, Threads, Savers

\* One saver thread changes.
LEMMA SaverStep ==
    ASSUME SaversGood, NEW s \in Savers, NEW v \in SaverType, SaverGood(v),
           savers' = [savers EXCEPT ![s] = v]
    PROVE  /\ SaversGood' /\ savers'[s] = v
           /\ \A t \in Savers : t # s => savers'[t] = savers[t]
BY DEF SaversGood
MainType ==
    [pc : Pcs, todo : Seq(Singles), next : {"idle", "present", "rendered"},
     image : Buffers \cup {NoBuffer}, closing : Savers, again : BOOLEAN]

\* The steps of the main thread outside of queuing and closing.
LEMMA WantedIs ==
    ASSUME NEW f \in Singles, NEW formats PROVE Wanted(f, formats) \in Seq(Singles)
BY DEF Wanted

LEMMA FrameImages ==
    ASSUME ImageInv, savers' = savers, live' = live,
           current_image_saver_index' = current_image_saver_index,
           main.pc \in {"idle", "present"}, main' \in MainType, main'.image = main.image,
           main'.pc \in {"idle", "present", "copy"},
           main'.pc = "copy" => main'.todo # <<>>
    PROVE  ImageInv'
<1>1. MainGood'
  BY DEF ImageInv, MainGood, MainType
<1>2. SaversGood'
  BY DEF ImageInv, SaversGood
<1>3. ClosedInOrder'
  BY DEF ImageInv, ClosedInOrder, ClosingPcs
<1>4. ImagesOwned'
  BY SameImages DEF ImageInv
<1> QED  BY <1>1, <1>2, <1>3, <1>4 DEF ImageInv

LEMMA MainTyped == ASSUME MainGood PROVE main \in MainType
BY DEF MainGood, MainType

LEMMA FrameSteps ==
    ASSUME ImageInv, RequestsGood,
           \/ \E r \in DOMAIN state : Request(r)
           \/ RENDER_EndUpdate \/ halt_render
           \/ \E draw_active \in BOOLEAN : GFX_MaybePresentFrame(draw_active)
    PROVE  ImageInv' /\ RequestsGood'
<1>0. main \in MainType /\ MainGood
  BY MainTyped DEF ImageInv
<1>1. AfterFrame \in {"idle", "present"}
  BY DEF AfterFrame
<1>2. ASSUME NEW r \in DOMAIN state, Request(r) PROVE ImageInv' /\ RequestsGood'
  <2>1. main.pc = "idle" /\ main' = main /\ UNCHANGED <<savers, live, current_image_saver_index>>
    BY <1>2 DEF Request
  <2>2. ImageInv'
    BY <1>0, <2>1, FrameImages
  <2>3. requests' \in 0..MaxRequests
    BY <1>2, ImageConstants DEF Request, RequestsGood
  <2>4. RequestsGood'
    BY <1>2, <2>3 DEF Request, RequestsGood
  <2> QED  BY <2>2, <2>4
<1>3. CASE RENDER_EndUpdate
  <2>1. /\ main.pc = "idle" /\ UNCHANGED <<savers, live, current_image_saver_index>>
        /\ UNCHANGED <<rate, grouped_mode, requests>>
    BY <1>3 DEF RENDER_EndUpdate
  <2>2. CASE MaybeCaptureImage
    <3>1. PICK ok \in BOOLEAN :
            LET queued == IF IndexOf(ok) THEN CapturedFormats ELSE {}
                todo == Wanted("raw", queued) \o Wanted("upscaled", queued)
            IN  /\ path_initialised' = IF CapturedFormats = {} THEN path_initialised
                                                            ELSE IndexOf(ok)
                /\ main' = [main EXCEPT !.pc = IF todo = <<>> THEN AfterFrame ELSE "copy",
                                        !.todo = todo, !.next = AfterFrame]
      BY <2>2 DEF MaybeCaptureImage
    <3> DEFINE queued == IF IndexOf(ok) THEN CapturedFormats ELSE {}
               todo == Wanted("raw", queued) \o Wanted("upscaled", queued)
    <3>2. /\ Wanted("raw", queued) \in Seq(Singles)
          /\ Wanted("upscaled", queued) \in Seq(Singles)
      BY WantedIs DEF Singles
    <3>3. todo \in Seq(Singles)
      <4> HIDE DEF queued
      <4> QED  BY <3>2
    <3>4. main' = [main EXCEPT !.pc = IF todo = <<>> THEN AfterFrame ELSE "copy",
                               !.todo = todo, !.next = AfterFrame]
      BY <3>1
    <3>5. path_initialised' \in BOOLEAN
      BY <3>1 DEF IndexOf, RequestsGood
    <3> HIDE DEF todo
    <3>6. /\ main' \in MainType /\ main'.image = main.image
          /\ main'.pc \in {"idle", "present", "copy"}
          /\ main'.pc = "copy" => main'.todo # <<>>
      BY <1>0, <1>1, <3>3, <3>4 DEF MainType, Pcs
    <3>7. ImageInv'
      BY <2>1, <3>6, FrameImages
    <3>8. state' \in [Singles \cup {"grouped"} -> {"off", "pending", "inprogress"}]
      BY <2>2 DEF MaybeCaptureImage, StateAfterCapture, RequestsGood, Singles
    <3>9. RequestsGood'
      BY <2>1, <3>5, <3>8 DEF RequestsGood
    <3> QED  BY <3>7, <3>9
  <2>3. CASE main' = [main EXCEPT !.pc = AfterFrame] /\ UNCHANGED <<state, path_initialised>>
    <3>1. /\ main' \in MainType /\ main'.image = main.image
          /\ main'.pc \in {"idle", "present"}
      BY <1>0, <1>1, <2>3 DEF MainType, Pcs
    <3>2. ImageInv'
      BY <2>1, <3>1, FrameImages
    <3>3. RequestsGood'
      BY <2>1, <2>3 DEF RequestsGood
    <3> QED  BY <3>2, <3>3
  <2> QED  BY <1>3, <2>2, <2>3 DEF RENDER_EndUpdate
<1>4. CASE halt_render
  <2>1. /\ main' \in MainType /\ main'.image = main.image /\ main.pc = "idle"
        /\ main'.pc \in {"idle", "present"}
    BY <1>0, <1>1, <1>4 DEF halt_render, MainType, Pcs
  <2>2. /\ UNCHANGED <<savers, live, current_image_saver_index>>
        /\ UNCHANGED <<rate, grouped_mode, state, path_initialised, requests>>
    BY <1>4 DEF halt_render, capturer
  <2>3. ImageInv'
    BY <2>1, <2>2, FrameImages
  <2> QED  BY <2>2, <2>3 DEF RequestsGood
<1>5. ASSUME NEW draw_active \in BOOLEAN, GFX_MaybePresentFrame(draw_active)
      PROVE  ImageInv' /\ RequestsGood'
  <2>0. <<"rendered">> \in Seq(Singles) /\ <<"rendered">> # <<>>
    BY DEF Singles
  <2>1. \/ main' = [main EXCEPT !.pc = "copy", !.todo = <<"rendered">>, !.next = "rendered"]
        \/ main' = [main EXCEPT !.pc = "idle"]
    BY <1>5 DEF GFX_MaybePresentFrame
  <2>2. /\ main' \in MainType /\ main'.image = main.image
        /\ main'.pc \in {"idle", "present", "copy"}
        /\ main'.pc = "copy" => main'.todo # <<>>
    <3>1. CASE main' = [main EXCEPT !.pc = "copy", !.todo = <<"rendered">>, !.next = "rendered"]
      <4> DEFINE todo == <<"rendered">>
      <4> HIDE DEF todo
      <4>1. /\ main' = [main EXCEPT !.pc = "copy", !.todo = todo, !.next = "rendered"]
            /\ todo \in Seq(Singles) /\ todo # <<>>
        BY <2>0, <3>1 DEF todo
      <4> QED  BY <1>0, <4>1 DEF MainType, Pcs
    <3>2. CASE main' = [main EXCEPT !.pc = "idle"]
      BY <1>0, <3>2 DEF MainType, Pcs
    <3> QED  BY <2>1, <3>1, <3>2
  <2>3. /\ main.pc \in {"idle", "present"}
        /\ UNCHANGED <<savers, live, current_image_saver_index>>
        /\ UNCHANGED <<rate, grouped_mode, state, path_initialised, requests>>
    BY <1>5 DEF GFX_MaybePresentFrame, capturer
  <2>4. ImageInv'
    BY <2>2, <2>3, FrameImages
  <2> QED  BY <2>3, <2>4 DEF RequestsGood
<1> QED  BY <1>2, <1>3, <1>4, <1>5
-----------------------------------------------------------------------------
(* Images that move.                                                       *)

LEMMA IndexTyped ==
    ASSUME NEW s \in Savers PROVE (s + 1) % NumImageSavers \in Savers
BY ImageConstants DEF Savers

LEMMA GetNextImages ==
    ASSUME ImageInv, GetNextImageSaver PROVE ImageInv'
<1> DEFINE b == CHOOSE x \in Buffers \ live : \A y \in Buffers \ live : x <= y
<1>0. main \in MainType /\ MainGood
  BY MainTyped DEF ImageInv
<1>1. b \in Buffers /\ b \notin live
  <2>1. Buffers \ live # {} /\ Buffers \ live \in SUBSET Nat
    BY ImageConstants DEF GetNextImageSaver
  <2>2. \E x \in Buffers \ live : \A y \in Buffers \ live : x <= y
    BY <2>1, LeastNat
  <2> QED  BY <2>2
<1>2. /\ main.pc = "copy" /\ main' = [main EXCEPT !.pc = "enqueue", !.image = b]
      /\ live' = live \cup {b} /\ savers' = savers
  BY DEF GetNextImageSaver
<1> HIDE DEF b
<1>3. current_image_saver_index' \in Savers
  BY <1>0, IndexTyped DEF GetNextImageSaver, MainGood
<1>4. /\ main' \in MainType /\ main'.pc = "enqueue" /\ main'.image = b /\ b # NoBuffer
      /\ main'.todo = main.todo
  BY <1>0, <1>1, <1>2, ImageConstants DEF MainType, Pcs
<1>5. MainGood'
  BY <1>0, <1>1, <1>2, <1>3, <1>4 DEF MainGood, MainType
<1>6. SaversGood' /\ ClosedInOrder'
  BY <1>2, <1>4 DEF ImageInv, SaversGood, ClosedInOrder, ClosingPcs
<1>7. main.image \notin Buffers
  BY <1>0, <1>2, ImageConstants DEF MainGood
<1>8. \A c \in Buffers, t \in Threads, i \in Nat :
         Held(t, i, c)' <=> Held(t, i, c) \/ (t = NumImageSavers /\ i = 0 /\ c = b)
  BY <1>2, <1>4, <1>7, ImageConstants DEF Held
<1>9. \A t \in Threads, i \in Nat : ~Held(t, i, b)
  BY <1>1 DEF ImageInv, ImagesOwned
<1>10. NumImageSavers \in Threads /\ 0 \in Nat
  BY DEF Threads
<1>11. ImagesOwned'
  <2>1. \A c \in Buffers : c \in live' <=> \E t \in Threads, i \in Nat : Held(t, i, c)'
    BY <1>2, <1>8, <1>10 DEF ImageInv, ImagesOwned
  <2>2. \A c \in Buffers, t, u \in Threads, i, j \in Nat :
           Held(t, i, c)' /\ Held(u, j, c)' => t = u /\ i = j
    BY <1>8, <1>9 DEF ImageInv, ImagesOwned
  <2> QED  BY <2>1, <2>2 DEF ImagesOwned, Threads, Savers
<1> QED  BY <1>5, <1>6, <1>11 DEF ImageInv

LEMMA QueueImages == ASSUME ImageInv, QueueImage PROVE ImageInv'
<1> PICK s, x : s = current_image_saver_index /\ x = main.image
  OBVIOUS
<1> DEFINE q == savers[s].fifo
<1>0. main \in MainType /\ MainGood /\ SaversGood /\ s \in Savers /\ main.pc = "enqueue"
  BY MainTyped DEF ImageInv, MainGood, QueueImage
<1>1. /\ live' = live /\ current_image_saver_index' = current_image_saver_index
  BY DEF QueueImage, capturer
<1>2. CASE HasRoom(q)
  <2>1. /\ savers' = [savers EXCEPT ![s].fifo = Enqueue(@, x)]
        /\ main' = [main EXCEPT !.pc = "notify", !.image = NoBuffer]
    BY <1>2 DEF QueueImage
  <2>2. x \in Buffers /\ x # NoBuffer
    BY <1>0 DEF MainGood, MainType
  <2>3. q.is_running /\ savers[s] \in SaverType /\ SaverGood(savers[s])
    BY <1>0 DEF ImageInv, ClosedInOrder, ClosingPcs, SaversGood
  <2> DEFINE r == [q EXCEPT !.queue = Append(@, x)]
             v == [savers[s] EXCEPT !.fifo = r]
  <2>4. savers' = [savers EXCEPT ![s] = v]
    BY <1>0, <2>1, <2>3 DEF Enqueue, SaversGood
  <2>5. /\ q \in [queue : Seq(Buffers), capacity : Nat, is_running : BOOLEAN]
        /\ q.queue \in Seq(Buffers)
    BY <2>3 DEF SaverType
  <2>6. /\ r \in [queue : Seq(Buffers), capacity : Nat, is_running : BOOLEAN]
        /\ r.queue = Append(q.queue, x) /\ r.is_running = q.is_running
    <3> DEFINE longer == Append(q.queue, x)
    <3> HIDE DEF q
    <3>1. longer \in Seq(Buffers) /\ r = [q EXCEPT !.queue = longer]
      BY <2>2, <2>5
    <3> HIDE DEF longer, r
    <3>2. /\ r \in [queue : Seq(Buffers), capacity : Nat, is_running : BOOLEAN]
          /\ r.queue = longer /\ r.is_running = q.is_running
      BY <2>5, <3>1
    <3> QED  BY <3>2 DEF longer
  <2>7. v \in SaverType /\ v.fifo = r /\ v.pc = savers[s].pc /\ v.image = savers[s].image
    <3> HIDE DEF r
    <3> QED  BY <2>3, <2>6 DEF SaverType
  <2>8. SaverGood(v)
    <3> HIDE DEF v, r
    <3> QED  BY <2>3, <2>6, <2>7 DEF SaverGood
  <2> HIDE DEF v
  <2>9. /\ SaversGood' /\ savers'[s] = v
        /\ \A t \in Savers : t # s => savers'[t] = savers[t]
    BY <1>0, <2>4, <2>7, <2>8, SaverStep
  <2>10. /\ main' \in MainType /\ main'.pc = "notify" /\ main'.image = NoBuffer
         /\ main'.todo = main.todo
    BY <1>0, <2>1 DEF MainType, Pcs
  <2>11. MainGood'
    BY <1>0, <1>1, <2>10 DEF MainGood, MainType
  <2>12. ClosedInOrder'
    BY <1>0, <2>3, <2>6, <2>7, <2>9, <2>10 DEF ImageInv, ClosedInOrder, ClosingPcs
  <2> DEFINE n == Len(q.queue) + 1
  <2>13. /\ n \in Nat /\ n >= 1 /\ Len(r.queue) = n /\ r.queue[n] = x
         /\ \A i \in 1..Len(q.queue) : r.queue[i] = q.queue[i]
         /\ 1..n = 1..Len(q.queue) \cup {n} /\ n \notin 1..Len(q.queue)
    <3> HIDE DEF q
    <3> QED  BY <2>2, <2>5, <2>6
  <2> HIDE DEF r, n
  <2>14. \A c \in Buffers, t \in Threads, i \in Nat :
           Held(t, i, c)' <=> (t # NumImageSavers /\ Held(t, i, c)) \/ (t = s /\ i = n /\ c = x)
    <3>1. ASSUME NEW c \in Buffers, NEW t \in Threads, NEW i \in Nat, t # s
          PROVE  Held(t, i, c)' <=> (t # NumImageSavers /\ Held(t, i, c))
      BY <2>9, <2>10, <3>1, ImageConstants DEF Held, Threads
    <3>2. ASSUME NEW c \in Buffers, NEW i \in Nat
          PROVE  Held(s, i, c)' <=> Held(s, i, c) \/ (i = n /\ c = x)
      <4>1. Held(s, i, c)' <=> (i = 0 /\ v.image = c) \/ (i \in 1..n /\ r.queue[i] = c)
        BY <1>0, <1>1, <2>7, <2>9, <2>13, ImageConstants DEF Held
      <4>2. Held(s, i, c) <=> (i = 0 /\ v.image = c) \/ (i \in 1..Len(q.queue) /\ q.queue[i] = c)
        BY <1>0, <2>7, ImageConstants DEF Held
      <4> HIDE DEF q
      <4> QED  BY <2>13, <4>1, <4>2
    <3>3. s # NumImageSavers
      BY <1>0, ImageConstants
    <3> QED  BY <3>1, <3>2, <3>3
  <2>15. \A t \in Threads, i \in Nat : Held(t, i, x) => t = NumImageSavers
    <3>1. Held(NumImageSavers, 0, x) /\ NumImageSavers \in Threads
      BY DEF Held, Threads
    <3> QED  BY <2>2, <3>1 DEF ImageInv, ImagesOwned
  <2>16. \A c \in Buffers, i \in Nat : Held(NumImageSavers, i, c) => c = x
    BY ImageConstants DEF Held
  <2>17. s \in Threads /\ x \in live
    <3>1. Held(NumImageSavers, 0, x) /\ NumImageSavers \in Threads
      BY DEF Held, Threads
    <3> QED  BY <1>0, <2>2, <3>1 DEF ImageInv, ImagesOwned, Threads
  <2> HIDE DEF q
  <2>18. \A c \in Buffers : c \in live' <=> \E t \in Threads, i \in Nat : Held(t, i, c)'
    BY <1>1, <2>13, <2>14, <2>16, <2>17 DEF ImageInv, ImagesOwned
  <2>19. \A c \in Buffers, t, u \in Threads, i, j \in Nat :
           Held(t, i, c)' /\ Held(u, j, c)' => t = u /\ i = j
    BY <2>14, <2>15 DEF ImageInv, ImagesOwned
  <2>20. ImagesOwned'
    BY <2>18, <2>19 DEF ImagesOwned, Threads, Savers
  <2> QED  BY <2>9, <2>11, <2>12, <2>20 DEF ImageInv
<1>3. CASE ~HasRoom(q)
  <2>1. main' = [main EXCEPT !.pc = "waiting"] /\ savers' = savers
    BY <1>3 DEF QueueImage
  <2>2. /\ main' \in MainType /\ main'.pc = "waiting" /\ main'.image = main.image
        /\ main'.todo = main.todo
    BY <1>0, <2>1 DEF MainType, Pcs
  <2>3. MainGood'
    BY <1>0, <1>1, <2>2 DEF MainGood, MainType
  <2>4. SaversGood' /\ ClosedInOrder'
    BY <1>0, <2>1, <2>2 DEF ImageInv, SaversGood, ClosedInOrder, ClosingPcs
  <2>5. ImagesOwned'
    BY <1>1, <2>1, <2>2, SameImages DEF ImageInv
  <2> QED  BY <2>3, <2>4, <2>5 DEF ImageInv
<1> QED  BY <1>2, <1>3
LEMMA SaverMoves ==
    ASSUME ImageInv, NEW s \in Savers, NEW v \in SaverType, SaverGood(v),
           savers' = [savers EXCEPT ![s] = v],
           v.image = savers[s].image, v.fifo.queue = savers[s].fifo.queue,
           savers[s].pc = "ended" => v.pc = "ended",
           live' = live, main'.image = main.image
    PROVE  /\ SaversGood' /\ ImagesOwned' /\ savers'[s] = v
           /\ \A t \in Savers : t # s => savers'[t] = savers[t]
           /\ \A t \in Savers : savers[t].pc = "ended" => savers'[t].pc = "ended"
<1>1. /\ SaversGood' /\ savers'[s] = v
      /\ \A t \in Savers : t # s => savers'[t] = savers[t]
  BY SaverStep DEF ImageInv
<1>2. \A t \in Savers : /\ savers'[t].image = savers[t].image
                        /\ savers'[t].fifo.queue = savers[t].fifo.queue
                        /\ savers[t].pc = "ended" => savers'[t].pc = "ended"
  BY <1>1
<1>3. ImagesOwned'
  BY <1>2, SameImages DEF ImageInv
<1> QED  BY <1>1, <1>2, <1>3

LEMMA WokenGood ==
    ASSUME NEW v \in SaverType, SaverGood(v)
    PROVE  /\ Woken(v) \in SaverType /\ SaverGood(Woken(v))
           /\ Woken(v).image = v.image /\ Woken(v).fifo = v.fifo
           /\ v.pc = "ended" => Woken(v).pc = "ended"
<1> DEFINE w == Woken(v)
<1>1. /\ w \in SaverType /\ w.image = v.image /\ w.fifo = v.fifo
      /\ w.pc = IF v.pc = "waiting" THEN "dequeue" ELSE v.pc
  BY DEF Woken, SaverType
<1> HIDE DEF w
<1>2. SaverGood(w)
  BY <1>1 DEF SaverGood
<1> QED  BY <1>1, <1>2 DEF w

LEMMA SaverIs ==
    ASSUME ImageInv, NEW s \in Savers
    PROVE  savers[s] \in SaverType /\ SaverGood(savers[s])
BY DEF ImageInv, SaversGood

LEMMA NextStepOfMain ==
    ASSUME MainGood PROVE main.next = "rendered" \/ main.next \in {"idle", "present"}
BY DEF MainGood

LEMMA QueuedImages == ASSUME ImageInv, ImageQueued PROVE ImageInv'
<1> DEFINE s == current_image_saver_index
           left == Tail(main.todo)
           npc == CASE left # <<>> -> "copy"
                    [] left = <<>> /\ main.next = "rendered" -> "idle"
                    [] OTHER -> main.next
<1>0. main \in MainType /\ MainGood /\ SaversGood /\ s \in Savers /\ main.pc = "notify"
  BY MainTyped DEF ImageInv, MainGood, ImageQueued
<1>1. /\ savers' = [savers EXCEPT ![s] = Woken(savers[s])]
      /\ main' = [main EXCEPT !.todo = left, !.pc = npc]
      /\ live' = live /\ current_image_saver_index' = current_image_saver_index
  BY <1>0 DEF ImageQueued, NotifiedOfItem, SaversGood
<1>2. left \in Seq(Singles)
  BY <1>0 DEF MainGood, MainType
<1>3. npc \in {"copy", "idle", "present"} /\ (npc = "copy" => left # <<>>)
  <2> HIDE DEF left
  <2>1. main.next = "rendered" \/ main.next \in {"idle", "present"}
    BY <1>0, NextStepOfMain
  <2>2. CASE left # <<>>
    BY <2>2
  <2>3. CASE left = <<>> /\ main.next = "rendered"
    BY <2>3
  <2>4. CASE left = <<>> /\ main.next # "rendered"
    BY <2>1, <2>4
  <2> QED  BY <2>2, <2>3, <2>4
<1> HIDE DEF npc, left
<1>4. /\ main' \in MainType /\ main'.pc = npc /\ main'.todo = left
      /\ main'.image = main.image
  BY <1>0, <1>1, <1>2, <1>3 DEF MainType, Pcs
<1>5. MainGood'
  BY <1>0, <1>1, <1>3, <1>4 DEF MainGood, MainType
<1>6. savers[s] \in SaverType /\ SaverGood(savers[s])
  BY <1>0, SaverIs
<1> DEFINE v == Woken(savers[s])
<1>7. /\ v \in SaverType /\ SaverGood(v) /\ v.image = savers[s].image
      /\ v.fifo = savers[s].fifo /\ (savers[s].pc = "ended" => v.pc = "ended")
  BY <1>6, WokenGood
<1> HIDE DEF v
<1>8. /\ SaversGood' /\ ImagesOwned' /\ savers'[s] = v
      /\ \A t \in Savers : t # s => savers'[t] = savers[t]
  BY <1>0, <1>1, <1>4, <1>7, SaverMoves DEF v
<1>9. ClosedInOrder'
  BY <1>0, <1>3, <1>4, <1>7, <1>8 DEF ImageInv, ClosedInOrder, ClosingPcs
<1> QED  BY <1>5, <1>8, <1>9 DEF ImageInv

\* A step of a saver thread leaves the main thread's order of closing.
LEMMA CloseKept ==
    ASSUME ImageInv, SaversGood',
           main'.pc \in ClosingPcs <=> main.pc \in ClosingPcs,
           main'.pc = "closed" => main.pc = "closed", main'.closing = main.closing,
           \A t \in Savers : savers'[t].fifo.is_running = savers[t].fifo.is_running,
           \A t \in Savers : savers[t].pc = "ended" => savers'[t].pc = "ended"
    PROVE  ClosedInOrder'
<1>1. main.closing \in Savers
  BY DEF ImageInv, MainGood
<1>2. \A t \in 0..(main.closing - 1) : t \in Savers
  BY <1>1, ImageConstants DEF Savers
<1> QED  BY <1>2 DEF ImageInv, ClosedInOrder

LEMMA TakeImages ==
    ASSUME ImageInv, NEW s \in Savers, TakeImage(s) PROVE ImageInv'
<1> DEFINE q == savers[s].fifo
<1>0. /\ savers[s] \in SaverType /\ SaverGood(savers[s]) /\ savers[s].pc = "dequeue"
      /\ main' = main /\ live' = live
      /\ current_image_saver_index' = current_image_saver_index
  BY SaverIs DEF TakeImage, SaverAt, capturer
<1>1. MainGood'
  BY <1>0 DEF ImageInv, MainGood
<1>2. savers' = [savers EXCEPT ![s] =
             CASE ~HasItems(q) -> [savers[s] EXCEPT !.pc = "waiting"]
               [] NothingToDequeue(q) -> [savers[s] EXCEPT !.pc = "notify"]
               [] OTHER -> [savers[s] EXCEPT !.pc = "notify", !.image = Head(q.queue),
                                     !.fifo = Dequeue(q)]]
  BY DEF TakeImage, ImageInv, SaversGood
<1>3. CASE ~HasItems(q)
  <2> DEFINE v == [savers[s] EXCEPT !.pc = "waiting"]
  <2>1. savers' = [savers EXCEPT ![s] = v]
    BY <1>2, <1>3 DEF HasItems, NothingToDequeue
  <2>2. /\ v \in SaverType /\ v.image = savers[s].image /\ v.fifo = savers[s].fifo
        /\ v.pc = "waiting"
    BY <1>0 DEF SaverType
  <2> HIDE DEF v
  <2>3. SaverGood(v)
    BY <1>0, <2>2 DEF SaverGood
  <2>4. /\ SaversGood' /\ ImagesOwned' /\ savers'[s] = v
        /\ \A t \in Savers : t # s => savers'[t] = savers[t]
        /\ \A t \in Savers : savers[t].pc = "ended" => savers'[t].pc = "ended"
    BY <1>0, <2>1, <2>2, <2>3, SaverMoves
  <2>5. ClosedInOrder'
    BY <1>0, <2>2, <2>4, CloseKept
  <2> QED  BY <1>1, <2>4, <2>5 DEF ImageInv
<1>4. CASE HasItems(q) /\ NothingToDequeue(q)
  <2> DEFINE v == [savers[s] EXCEPT !.pc = "notify"]
  <2>1. savers' = [savers EXCEPT ![s] = v]
    BY <1>2, <1>4
  <2>2. /\ v \in SaverType /\ v.image = savers[s].image /\ v.fifo = savers[s].fifo
        /\ v.pc = "notify"
    BY <1>0 DEF SaverType
  <2> HIDE DEF v
  <2>3. SaverGood(v)
    BY <1>0, <1>4, <2>2 DEF SaverGood, NothingToDequeue
  <2>4. /\ SaversGood' /\ ImagesOwned' /\ savers'[s] = v
        /\ \A t \in Savers : t # s => savers'[t] = savers[t]
        /\ \A t \in Savers : savers[t].pc = "ended" => savers'[t].pc = "ended"
    BY <1>0, <2>1, <2>2, <2>3, SaverMoves
  <2>5. ClosedInOrder'
    BY <1>0, <2>2, <2>4, CloseKept
  <2> QED  BY <1>1, <2>4, <2>5 DEF ImageInv
<1>5. CASE HasItems(q) /\ ~NothingToDequeue(q)
  <2> DEFINE r == [q EXCEPT !.queue = Tail(@)]
             v == [savers[s] EXCEPT !.pc = "notify", !.image = Head(q.queue), !.fifo = r]
  <2>1. savers' = [savers EXCEPT ![s] = v]
    BY <1>2, <1>5 DEF Dequeue
  <2>2. /\ q \in [queue : Seq(Buffers), capacity : Nat, is_running : BOOLEAN]
        /\ q.queue \in Seq(Buffers) /\ q.queue # <<>> /\ savers[s].image = NoBuffer
    BY <1>0, <1>5 DEF SaverType, SaverGood, HasItems, NothingToDequeue
  <2>3. /\ Head(q.queue) \in Buffers /\ Head(q.queue) = q.queue[1]
        /\ Tail(q.queue) \in Seq(Buffers) /\ Len(Tail(q.queue)) = Len(q.queue) - 1
        /\ \A i \in 1..Len(q.queue) - 1 : Tail(q.queue)[i] = q.queue[i + 1]
        /\ Len(q.queue) \in Nat
    <3> HIDE DEF q
    <3> QED  BY <2>2
  <2>4. /\ r \in [queue : Seq(Buffers), capacity : Nat, is_running : BOOLEAN]
        /\ r.queue = Tail(q.queue) /\ r.is_running = q.is_running
    <3> HIDE DEF q
    <3> QED  BY <2>2, <2>3
  <2>5. /\ v \in SaverType /\ v.fifo = r /\ v.pc = "notify" /\ v.image = q.queue[1]
        /\ v.image \in Buffers
    <3> HIDE DEF r, q
    <3> QED  BY <1>0, <2>3, <2>4 DEF SaverType
  <2> HIDE DEF v, r
  <2>6. SaverGood(v)
    BY <2>5, ImageConstants DEF SaverGood
  <2>7. /\ SaversGood' /\ savers'[s] = v
        /\ \A t \in Savers : t # s => savers'[t] = savers[t]
    BY <2>1, <2>5, <2>6, SaverStep DEF ImageInv
  <2>8. ClosedInOrder'
    <3>1. \A t \in Savers : savers'[t].fifo.is_running = savers[t].fifo.is_running
      BY <2>4, <2>5, <2>7
    <3>2. \A t \in Savers : savers[t].pc = "ended" => savers'[t].pc = "ended"
      BY <1>0, <2>7
    <3> QED  BY <1>0, <2>7, <3>1, <3>2, CloseKept
  <2>9. ASSUME NEW c \in Buffers, NEW t \in Threads, NEW i \in Nat, t # s
        PROVE  Held(t, i, c)' <=> Held(t, i, c)
    BY <1>0, <2>7, <2>9, ImageConstants DEF Held, Threads
  <2>10. ASSUME NEW c \in Buffers, NEW i \in Nat
         PROVE  Held(s, i, c)' <=> Held(s, i + 1, c)
    <3>1. Held(s, i, c)' <=> (i = 0 /\ v.image = c)
                             \/ (i \in 1..Len(r.queue) /\ r.queue[i] = c)
      BY <2>5, <2>7, ImageConstants DEF Held
    <3>2. Held(s, i + 1, c) <=> i + 1 \in 1..Len(q.queue) /\ q.queue[i + 1] = c
      BY ImageConstants DEF Held
    <3>3. 1 \in 1..Len(q.queue)
      BY <2>2
    <3> HIDE DEF q
    <3>4. CASE i = 0
      BY <2>5, <3>1, <3>2, <3>3, <3>4
    <3>5. CASE i # 0
      <4>1. i \in 1..Len(r.queue) <=> i + 1 \in 1..Len(q.queue)
        BY <2>3, <2>4, <3>5
      <4>2. i \in 1..Len(r.queue) => r.queue[i] = q.queue[i + 1]
        BY <2>3, <2>4
      <4> QED  BY <3>1, <3>2, <3>5, <4>1, <4>2
    <3> QED  BY <3>4, <3>5
  <2>11. \A c \in Buffers : ~Held(s, 0, c)
    BY <2>2, ImageConstants DEF Held
  <2>12. s \in Threads /\ \A i \in Nat : i # 0 => i - 1 \in Nat /\ (i - 1) + 1 = i
    BY DEF Threads
  <2>13. ASSUME NEW c \in Buffers
         PROVE  (\E t \in Threads, i \in Nat : Held(t, i, c)')
                <=> (\E t \in Threads, i \in Nat : Held(t, i, c))
    <3>1. ASSUME NEW t \in Threads, NEW i \in Nat, Held(t, i, c)'
          PROVE  \E u \in Threads, j \in Nat : Held(u, j, c)
      <4>1. CASE t = s
        <5>1. i + 1 \in Nat
          OBVIOUS
        <5>2. Held(s, i + 1, c)
          BY <2>10, <3>1, <4>1
        <5> QED  BY <2>12, <5>1, <5>2
      <4> QED  BY <2>9, <3>1, <4>1
    <3>2. ASSUME NEW t \in Threads, NEW i \in Nat, Held(t, i, c)
          PROVE  \E u \in Threads, j \in Nat : Held(u, j, c)'
      <4>1. CASE t = s
        <5>1. i # 0
          BY <2>11, <3>2, <4>1
        <5>2. i - 1 \in Nat /\ (i - 1) + 1 = i
          BY <2>12, <5>1
        <5>3. Held(s, i - 1, c)'
          BY <2>10, <3>2, <4>1, <5>2
        <5> QED  BY <2>12, <5>2, <5>3
      <4> QED  BY <2>9, <3>2, <4>1
    <3> QED  BY <3>1, <3>2
  <2>14. ASSUME NEW c \in Buffers, NEW t \in Threads, NEW u \in Threads,
                NEW i \in Nat, NEW j \in Nat, Held(t, i, c)', Held(u, j, c)'
         PROVE  t = u /\ i = j
    <3> DEFINE before(k, w) == IF w = s THEN k + 1 ELSE k
    <3>1. \A k \in Nat, w \in Threads : before(k, w) \in Nat
      OBVIOUS
    <3>2. Held(t, before(i, t), c) /\ Held(u, before(j, u), c)
      BY <2>9, <2>10, <2>14
    <3>3. t = u /\ before(i, t) = before(j, u)
      <4> HIDE DEF before
      <4> QED  BY <3>1, <3>2 DEF ImageInv, ImagesOwned
    <3> QED  BY <3>3
  <2>15. ImagesOwned'
    <3>1. \A c \in Buffers : c \in live' <=> \E t \in Threads, i \in Nat : Held(t, i, c)'
      BY <1>0, <2>13 DEF ImageInv, ImagesOwned
    <3>2. \A c \in Buffers, t, u \in Threads, i, j \in Nat :
             Held(t, i, c)' /\ Held(u, j, c)' => t = u /\ i = j
      BY <2>14
    <3> QED  BY <3>1, <3>2 DEF ImagesOwned, Threads, Savers
  <2> QED  BY <1>1, <2>7, <2>8, <2>15 DEF ImageInv
<1> QED  BY <1>3, <1>4, <1>5
\* The main thread goes from waiting for room to trying again.
LEMMA MainWoken ==
    ASSUME ImageInv,
           main' = main \/ (main.pc = "waiting" /\ main' = [main EXCEPT !.pc = "enqueue"]),
           live' = live, current_image_saver_index' = current_image_saver_index
    PROVE  /\ MainGood' /\ main'.image = main.image /\ main'.closing = main.closing
           /\ main'.pc \in ClosingPcs <=> main.pc \in ClosingPcs
           /\ main'.pc = "closed" => main.pc = "closed"
<1>0. main \in MainType /\ MainGood
  BY MainTyped DEF ImageInv
<1>1. CASE main' = main
  BY <1>0, <1>1 DEF MainGood
<1>2. CASE main.pc = "waiting" /\ main' = [main EXCEPT !.pc = "enqueue"]
  <2>1. /\ main' \in MainType /\ main'.pc = "enqueue" /\ main'.image = main.image
        /\ main'.todo = main.todo /\ main'.closing = main.closing
    BY <1>0, <1>2 DEF MainType, Pcs
  <2>2. MainGood'
    BY <1>0, <1>2, <2>1 DEF MainGood, MainType
  <2> QED  BY <1>2, <2>1, <2>2 DEF ClosingPcs
<1> QED  BY <1>1, <1>2

LEMMA TakenImages ==
    ASSUME ImageInv, NEW s \in Savers, ImageTaken(s) PROVE ImageInv'
<1> DEFINE v == [savers[s] EXCEPT !.pc = IF savers[s].image = NoBuffer THEN "ended" ELSE "saving"]
<1>0. /\ savers[s] \in SaverType /\ SaverGood(savers[s]) /\ savers[s].pc = "notify"
      /\ live' = live /\ current_image_saver_index' = current_image_saver_index
      /\ main' = main \/ (main.pc = "waiting" /\ main' = [main EXCEPT !.pc = "enqueue"])
  BY SaverIs DEF ImageTaken, SaverAt, capturer, NotifiedOfRoom
<1>1. /\ MainGood' /\ main'.image = main.image /\ main'.closing = main.closing
      /\ main'.pc \in ClosingPcs <=> main.pc \in ClosingPcs
      /\ main'.pc = "closed" => main.pc = "closed"
  BY <1>0, MainWoken
<1>2. savers' = [savers EXCEPT ![s] = v]
  BY DEF ImageTaken, ImageInv, SaversGood
<1>3. /\ v \in SaverType /\ v.image = savers[s].image /\ v.fifo = savers[s].fifo
      /\ v.pc = IF savers[s].image = NoBuffer THEN "ended" ELSE "saving"
  BY <1>0 DEF SaverType
<1> HIDE DEF v
<1>4. SaverGood(v)
  BY <1>0, <1>3 DEF SaverGood
<1>5. /\ SaversGood' /\ ImagesOwned' /\ savers'[s] = v
      /\ \A t \in Savers : t # s => savers'[t] = savers[t]
      /\ \A t \in Savers : savers[t].pc = "ended" => savers'[t].pc = "ended"
  BY <1>0, <1>1, <1>2, <1>3, <1>4, SaverMoves
<1>6. ClosedInOrder'
  BY <1>1, <1>3, <1>5, CloseKept
<1> QED  BY <1>1, <1>5, <1>6 DEF ImageInv

LEMMA SaveImages ==
    ASSUME ImageInv, NEW s \in Savers, SaveImage(s) PROVE ImageInv'
<1> DEFINE v == [savers[s] EXCEPT !.pc = "dequeue", !.image = NoBuffer]
<1> PICK x : x = savers[s].image
  OBVIOUS
<1>0. /\ savers[s] \in SaverType /\ SaverGood(savers[s]) /\ savers[s].pc = "saving"
      /\ main' = main /\ live' = live \ {x}
      /\ current_image_saver_index' = current_image_saver_index
  BY SaverIs DEF SaveImage, SaverAt, LiveAfterSave
<1>1. MainGood'
  BY <1>0 DEF ImageInv, MainGood
<1>2. savers' = [savers EXCEPT ![s] = v]
  BY DEF SaveImage, ImageInv, SaversGood
<1>3. v \in SaverType /\ v.image = NoBuffer /\ v.fifo = savers[s].fifo /\ v.pc = "dequeue"
  BY <1>0 DEF SaverType
<1> HIDE DEF v
<1>4. SaverGood(v)
  BY <1>3 DEF SaverGood
<1>5. /\ SaversGood' /\ savers'[s] = v
      /\ \A t \in Savers : t # s => savers'[t] = savers[t]
  BY <1>2, <1>3, <1>4, SaverStep DEF ImageInv
<1>6. ClosedInOrder'
  <2>1. \A t \in Savers : savers'[t].fifo.is_running = savers[t].fifo.is_running
    BY <1>3, <1>5
  <2>2. \A t \in Savers : savers[t].pc = "ended" => savers'[t].pc = "ended"
    BY <1>0, <1>5
  <2> QED  BY <1>0, <1>5, <2>1, <2>2, CloseKept
<1>7. x \in Buffers /\ Held(s, 0, x) /\ s \in Threads
  BY <1>0 DEF SaverGood, SaverType, Held, Threads
<1>8. \A c \in Buffers, t \in Threads, i \in Nat :
         Held(t, i, c)' <=> Held(t, i, c) /\ ~(t = s /\ i = 0)
  <2>1. ASSUME NEW c \in Buffers, NEW t \in Threads, NEW i \in Nat, t # s
        PROVE  Held(t, i, c)' <=> Held(t, i, c)
    BY <1>0, <1>5, <2>1, ImageConstants DEF Held, Threads
  <2>2. ASSUME NEW c \in Buffers, NEW i \in Nat
        PROVE  Held(s, i, c)' <=> Held(s, i, c) /\ i # 0
    BY <1>3, <1>5, ImageConstants DEF Held
  <2> QED  BY <2>1, <2>2
<1>9. \A c \in Buffers : Held(s, 0, c) => c = x
  BY <1>7, ImageConstants DEF Held
<1>10. \A c \in Buffers : c \in live' <=> \E t \in Threads, i \in Nat : Held(t, i, c)'
  <2>1. \A t \in Threads, i \in Nat : Held(t, i, x) => t = s /\ i = 0
    BY <1>7 DEF ImageInv, ImagesOwned
  <2>2. ASSUME NEW c \in Buffers, c # x
        PROVE  c \in live' <=> \E t \in Threads, i \in Nat : Held(t, i, c)'
    BY <1>0, <1>8, <1>9, <2>2 DEF ImageInv, ImagesOwned
  <2>3. ~\E t \in Threads, i \in Nat : Held(t, i, x)'
    BY <1>7, <1>8, <2>1
  <2> QED  BY <1>0, <2>2, <2>3
<1>11. \A c \in Buffers, t, u \in Threads, i, j \in Nat :
          Held(t, i, c)' /\ Held(u, j, c)' => t = u /\ i = j
  BY <1>8 DEF ImageInv, ImagesOwned
<1>12. ImagesOwned'
  BY <1>10, <1>11 DEF ImagesOwned, Threads, Savers
<1> QED  BY <1>1, <1>5, <1>6, <1>12 DEF ImageInv

LEMMA WakeupImages == ASSUME ImageInv, SpuriousWakeup PROVE ImageInv'
<1>0. live' = live /\ current_image_saver_index' = current_image_saver_index
  BY DEF SpuriousWakeup, capturer
<1>1. ASSUME NEW s \in Savers, savers' = [savers EXCEPT ![s] = Woken(@)], main' = main
      PROVE  ImageInv'
  <2> DEFINE v == Woken(savers[s])
  <2>1. savers' = [savers EXCEPT ![s] = v]
    BY <1>1 DEF ImageInv, SaversGood
  <2>2. savers[s] \in SaverType /\ SaverGood(savers[s])
    BY SaverIs
  <2>3. /\ v \in SaverType /\ SaverGood(v) /\ v.image = savers[s].image
        /\ v.fifo = savers[s].fifo /\ (savers[s].pc = "ended" => v.pc = "ended")
    BY <2>2, WokenGood
  <2> HIDE DEF v
  <2>4. /\ SaversGood' /\ ImagesOwned' /\ savers'[s] = v
        /\ \A t \in Savers : t # s => savers'[t] = savers[t]
        /\ \A t \in Savers : savers[t].pc = "ended" => savers'[t].pc = "ended"
    BY <1>0, <1>1, <2>1, <2>3, SaverMoves
  <2>5. ClosedInOrder'
    BY <1>1, <2>3, <2>4, CloseKept
  <2>6. MainGood'
    BY <1>0, <1>1 DEF ImageInv, MainGood
  <2> QED  BY <2>4, <2>5, <2>6 DEF ImageInv
<1>2. CASE main.pc = "waiting" /\ main' = [main EXCEPT !.pc = "enqueue"] /\ savers' = savers
  <2>1. /\ MainGood' /\ main'.image = main.image /\ main'.closing = main.closing
        /\ main'.pc \in ClosingPcs <=> main.pc \in ClosingPcs
        /\ main'.pc = "closed" => main.pc = "closed"
    BY <1>0, <1>2, MainWoken
  <2>2. SaversGood'
    BY <1>2 DEF ImageInv, SaversGood
  <2>3. ImagesOwned'
    BY <1>0, <1>2, <2>1, SameImages DEF ImageInv
  <2>4. ClosedInOrder'
    BY <1>2, <2>1, <2>2, CloseKept
  <2> QED  BY <2>1, <2>2, <2>3, <2>4 DEF ImageInv
<1> QED  BY <1>1, <1>2 DEF SpuriousWakeup

-----------------------------------------------------------------------------
(* Closing.                                                                *)

LEMMA DestroyImages == ASSUME ImageInv, CAPTURE_Destroy PROVE ImageInv'
<1>0. main \in MainType /\ MainGood /\ main.pc = "idle"
  BY MainTyped DEF ImageInv, CAPTURE_Destroy
<1>1. PICK again \in BOOLEAN :
        main' = [main EXCEPT !.pc = "stop", !.closing = 0, !.again = again]
  BY DEF CAPTURE_Destroy
<1>2. UNCHANGED <<savers, live, current_image_saver_index>>
  BY DEF CAPTURE_Destroy, capturer
<1>3. 0 \in Savers
  BY ImageConstants DEF Savers
<1>4. /\ main' \in MainType /\ main'.pc = "stop" /\ main'.closing = 0
      /\ main'.image = main.image
  BY <1>0, <1>1, <1>3 DEF MainType, Pcs
<1>5. MainGood'
  BY <1>0, <1>2, <1>4 DEF MainGood, MainType
<1>6. SaversGood' /\ ClosedInOrder'
  <2>1. 0..(main'.closing - 1) = {}
    BY <1>4
  <2> QED  BY <1>2, <1>4, <2>1 DEF ImageInv, SaversGood, ClosedInOrder, ClosingPcs
<1>7. ImagesOwned'
  BY <1>2, <1>4, SameImages DEF ImageInv
<1> QED  BY <1>5, <1>6, <1>7 DEF ImageInv

LEMMA StopImages == ASSUME ImageInv, StopSaver PROVE ImageInv'
<1> DEFINE s == main.closing
           r == [savers[s].fifo EXCEPT !.is_running = FALSE]
           v == [savers[s] EXCEPT !.fifo = r]
<1>0. main \in MainType /\ MainGood /\ main.pc = "stop" /\ s \in Savers
  BY MainTyped DEF ImageInv, StopSaver, MainGood
<1>1. savers[s] \in SaverType /\ SaverGood(savers[s])
  BY <1>0, SaverIs
<1>2. savers' = [savers EXCEPT ![s] = v]
  BY <1>0 DEF StopSaver, Stop, ImageInv, SaversGood
<1>3. /\ main' = [main EXCEPT !.pc = "wake"]
      /\ UNCHANGED <<live, current_image_saver_index>>
  BY DEF StopSaver, capturer
<1>4. /\ r \in [queue : Seq(Buffers), capacity : Nat, is_running : BOOLEAN]
      /\ r.queue = savers[s].fifo.queue /\ ~r.is_running
  BY <1>1 DEF SaverType
<1> HIDE DEF r
<1>5. v \in SaverType /\ v.fifo = r /\ v.pc = savers[s].pc /\ v.image = savers[s].image
  BY <1>1, <1>4 DEF SaverType
<1> HIDE DEF v
<1>6. SaverGood(v)
  BY <1>1, <1>4, <1>5 DEF SaverGood
<1>7. /\ main' \in MainType /\ main'.pc = "wake" /\ main'.closing = main.closing
      /\ main'.image = main.image
  BY <1>0, <1>3 DEF MainType, Pcs
<1>8. /\ SaversGood' /\ ImagesOwned'
      /\ \A t \in Savers : savers[t].pc = "ended" => savers'[t].pc = "ended"
  BY <1>0, <1>2, <1>3, <1>4, <1>5, <1>6, <1>7, SaverMoves
<1>9. MainGood'
  BY <1>0, <1>3, <1>7 DEF MainGood, MainType
<1>10. \A t \in 0..(main.closing - 1) : t \in Savers
  BY <1>0, ImageConstants DEF Savers
<1>11. ClosedInOrder'
  BY <1>0, <1>7, <1>8, <1>10 DEF ImageInv, ClosedInOrder, ClosingPcs
<1> QED  BY <1>8, <1>9, <1>11 DEF ImageInv

LEMMA NotifyImages == ASSUME ImageInv, NotifyStopped PROVE ImageInv'
<1> DEFINE s == main.closing
           v == Woken(savers[s])
<1>0. main \in MainType /\ MainGood /\ main.pc = "wake" /\ s \in Savers
  BY MainTyped DEF ImageInv, NotifyStopped, MainGood
<1>1. savers[s] \in SaverType /\ SaverGood(savers[s])
  BY <1>0, SaverIs
<1>2. savers' = [savers EXCEPT ![s] = v]
  BY <1>0 DEF NotifyStopped, NotifiedOfStop, ImageInv, SaversGood
<1>3. /\ main' = [main EXCEPT !.pc = "join"]
      /\ UNCHANGED <<live, current_image_saver_index>>
  BY DEF NotifyStopped, capturer
<1>4. /\ v \in SaverType /\ SaverGood(v) /\ v.image = savers[s].image
      /\ v.fifo = savers[s].fifo /\ (savers[s].pc = "ended" => v.pc = "ended")
  BY <1>1, WokenGood
<1> HIDE DEF v
<1>7. /\ main' \in MainType /\ main'.pc = "join" /\ main'.closing = main.closing
      /\ main'.image = main.image
  BY <1>0, <1>3 DEF MainType, Pcs
<1>8. /\ SaversGood' /\ ImagesOwned'
      /\ \A t \in Savers : savers[t].pc = "ended" => savers'[t].pc = "ended"
  BY <1>0, <1>2, <1>3, <1>4, <1>7, SaverMoves
<1>9. MainGood'
  BY <1>0, <1>3, <1>7 DEF MainGood, MainType
<1>10. \A t \in 0..(main.closing - 1) : t \in Savers
  BY <1>0, ImageConstants DEF Savers
<1>11. ClosedInOrder'
  BY <1>0, <1>7, <1>8, <1>10 DEF ImageInv, ClosedInOrder, ClosingPcs
<1> QED  BY <1>8, <1>9, <1>11 DEF ImageInv

\* Threads that ended have no image.
LEMMA NothingHeld ==
    ASSUME ImageInv, \A s \in Savers : savers[s].pc = "ended", main.image = NoBuffer
    PROVE  live = {}
<1>1. \A s \in Savers : savers[s].image = NoBuffer /\ savers[s].fifo.queue = <<>>
  BY SaverIs DEF SaverGood
<1>2. \A b \in Buffers, t \in Threads, i \in Nat : ~Held(t, i, b)
  BY <1>1, ImageConstants DEF Held
<1>3. live \subseteq Buffers
  BY DEF ImageInv, MainGood
<1> QED  BY <1>2, <1>3 DEF ImageInv, ImagesOwned

LEMMA JoinImages == ASSUME ImageInv, JoinSaver PROVE ImageInv'
<1>0. /\ main \in MainType /\ MainGood /\ main.pc = "join" /\ main.closing \in Savers
      /\ live' = live
  BY MainTyped DEF ImageInv, JoinSaver, MainGood
<1>1. /\ main.closing \in 0..(NumImageSavers - 1) /\ main.image = NoBuffer
      /\ \A s \in 0..main.closing : savers[s].pc = "ended"
  <2>1. savers[main.closing].pc = "ended"
    BY DEF JoinSaver, Joined
  <2>2. \A s \in 0..(main.closing - 1) : savers[s].pc = "ended"
    BY <1>0 DEF ImageInv, ClosedInOrder, ClosingPcs
  <2>3. main.closing \in 0..(NumImageSavers - 1)
    BY <1>0 DEF Savers
  <2>4. \A s \in 0..main.closing : s = main.closing \/ s \in 0..(main.closing - 1)
    BY <2>3, ImageConstants
  <2>5. main.image = NoBuffer
    BY <1>0 DEF MainGood
  <2> QED  BY <2>1, <2>2, <2>3, <2>4, <2>5
<1>2. CASE /\ main.closing + 1 \in Savers
           /\ main' = [main EXCEPT !.pc = "stop", !.closing = @ + 1]
           /\ UNCHANGED <<capturer, savers>>
  <2>1. /\ main' \in MainType /\ main'.pc = "stop" /\ main'.closing = main.closing + 1
        /\ main'.image = main.image
    BY <1>0, <1>2 DEF MainType, Pcs
  <2>2. main'.closing - 1 = main.closing
    BY <1>1, <2>1, ImageConstants
  <2>3. MainGood'
    BY <1>0, <1>2, <2>1 DEF MainGood, MainType, capturer
  <2>4. SaversGood'
    BY <1>2 DEF ImageInv, SaversGood
  <2>5. ClosedInOrder'
    BY <1>1, <1>2, <2>1, <2>2 DEF ClosedInOrder, ClosingPcs
  <2>6. ImagesOwned'
    BY <1>0, <1>2, <2>1, SameImages DEF ImageInv
  <2> QED  BY <2>3, <2>4, <2>5, <2>6 DEF ImageInv
<1>3. ASSUME main.closing + 1 \notin Savers PROVE \A s \in Savers : savers[s].pc = "ended"
  <2>1. main.closing = NumImageSavers - 1
    BY <1>1, <1>3, ImageConstants DEF Savers
  <2> QED  BY <1>1, <2>1 DEF Savers
<1>4. CASE /\ main.closing + 1 \notin Savers
           /\ main' = [main EXCEPT !.pc = "closed"]
           /\ UNCHANGED <<current_image_saver_index, savers>>
  <2>1. /\ main' \in MainType /\ main'.pc = "closed" /\ main'.closing = main.closing
        /\ main'.image = main.image
    BY <1>0, <1>4 DEF MainType, Pcs
  <2>3. MainGood'
    BY <1>0, <1>4, <2>1 DEF MainGood, MainType
  <2>4. SaversGood'
    BY <1>4 DEF ImageInv, SaversGood
  <2>5. ClosedInOrder'
    <3>1. \A s \in 0..(main.closing - 1) : savers[s].pc = "ended"
      BY <1>0 DEF ImageInv, ClosedInOrder, ClosingPcs
    <3> QED  BY <1>3, <1>4, <2>1, <3>1 DEF ClosedInOrder, ClosingPcs
  <2>6. ImagesOwned'
    BY <1>0, <1>4, <2>1, SameImages DEF ImageInv
  <2> QED  BY <2>3, <2>4, <2>5, <2>6 DEF ImageInv
<1>5. CASE /\ main.closing + 1 \notin Savers
           /\ main' = [main EXCEPT !.pc = "idle", !.closing = 0, !.again = FALSE]
           /\ current_image_saver_index' = 0
           /\ savers' = [s \in Savers |-> Open]
  <2>0. 0 \in Savers
    BY ImageConstants DEF Savers
  <2>1. /\ main' \in MainType /\ main'.pc = "idle" /\ main'.image = NoBuffer
    BY <1>0, <1>1, <1>5, <2>0 DEF MainType, Pcs
  <2>2. \A s \in Savers : savers'[s] = Open
    BY <1>5
  <2>3. MainGood'
    BY <1>0, <1>5, <2>0, <2>1 DEF MainGood, MainType
  <2>4. SaversGood'
    BY <1>5, <2>2, OpenGood DEF SaversGood
  <2>5. ClosedInOrder'
    BY <2>1, <2>2, OpenGood DEF ClosedInOrder, ClosingPcs
  <2>6. live' = {}
    BY <1>0, <1>1, <1>3, <1>5, NothingHeld
  <2>7. \A b \in Buffers, t \in Threads, i \in Nat : ~Held(t, i, b)'
    BY <2>1, <2>2, ImageConstants DEF Held, Open, NewQueue
  <2>8. ImagesOwned'
    BY <2>6, <2>7 DEF ImagesOwned, Threads, Savers
  <2> QED  BY <2>3, <2>4, <2>5, <2>8 DEF ImageInv
<1> QED  BY <1>2, <1>4, <1>5 DEF JoinSaver

LEMMA RequestsKept ==
    ASSUME ImageInv, RequestsGood,
           \/ Main \/ (\E s \in Savers : Saver(s)) \/ SpuriousWakeup \/ CAPTURE_Destroy
    PROVE  RequestsGood'
<1>1. CASE ImageQueued
  <2>1. state' \in [Singles \cup {"grouped"} -> {"off", "pending", "inprogress"}]
    BY <1>1 DEF ImageQueued, StateAfterRendered, RequestsGood
  <2> QED  BY <1>1, <2>1 DEF ImageQueued, RequestsGood
<1>2. ASSUME NEW s \in Savers, SaveImage(s) PROVE RequestsGood'
  BY <1>2 DEF SaveImage, RequestsGood, IndexOf
<1>3. CASE CAPTURE_Destroy
  <2>1. requests' \in 0..MaxRequests
    <3>1. PICK again \in BOOLEAN : /\ again => requests < MaxRequests
                                   /\ requests' = requests + IF again THEN 1 ELSE 0
      BY <1>3 DEF CAPTURE_Destroy
    <3>2. requests \in 0..MaxRequests /\ MaxRequests \in Nat
      BY ImageConstants DEF RequestsGood
    <3>3. CASE again
      BY <3>1, <3>2, <3>3
    <3>4. CASE ~again
      BY <3>1, <3>2, <3>4
    <3> QED  BY <3>3, <3>4
  <2> QED  BY <1>3, <2>1 DEF CAPTURE_Destroy, RequestsGood, capturer
<1>4. CASE JoinSaver
  <2>1. AllOff \in [Singles \cup {"grouped"} -> {"off", "pending", "inprogress"}]
    BY DEF AllOff
  <2> QED  BY <1>4, <2>1 DEF JoinSaver, RequestsGood, capturer
<1>5. CASE UNCHANGED <<rate, grouped_mode, state, path_initialised, requests>>
  BY <1>5 DEF RequestsGood
<1> QED  BY <1>1, <1>2, <1>3, <1>4, <1>5
            DEF Main, Saver, GetNextImageSaver, QueueImage, StopSaver, NotifyStopped,
                TakeImage, ImageTaken, SpuriousWakeup, capturer

LEMMA NextImages ==
    ImageInv /\ RequestsGood /\ [ImageNext]_imageVars => ImageInv' /\ RequestsGood'
<1> SUFFICES ASSUME ImageInv, RequestsGood, [ImageNext]_imageVars PROVE ImageInv' /\ RequestsGood'
  OBVIOUS
<1>1. CASE \/ \E r \in DOMAIN state : Request(r)
           \/ RENDER_EndUpdate \/ halt_render
           \/ \E draw_active \in BOOLEAN : GFX_MaybePresentFrame(draw_active)
  BY <1>1, FrameSteps
<1>2. CASE Main
  BY <1>2, RequestsKept, GetNextImages, QueueImages, QueuedImages, StopImages, NotifyImages,
     JoinImages DEF Main
<1>3. ASSUME NEW s \in Savers, Saver(s) PROVE ImageInv' /\ RequestsGood'
  BY <1>3, RequestsKept, TakeImages, TakenImages, SaveImages DEF Saver
<1>4. CASE SpuriousWakeup
  BY <1>4, RequestsKept, WakeupImages
<1>5. CASE CAPTURE_Destroy
  BY <1>5, RequestsKept, DestroyImages
<1>6. CASE UNCHANGED imageVars
  <2>1. RequestsGood' /\ MainGood' /\ SaversGood' /\ ClosedInOrder'
    BY <1>6 DEF imageVars, RequestsGood, ImageInv, MainGood, SaversGood, ClosedInOrder
  <2>2. ImagesOwned'
    BY <1>6, SameImages DEF imageVars, ImageInv
  <2> QED  BY <2>1, <2>2 DEF ImageInv
<1> QED  BY <1>1, <1>2, <1>3, <1>4, <1>5, <1>6 DEF ImageNext, Closed

-----------------------------------------------------------------------------

LEMMA PlacesHeld ==
    ASSUME ImageInv, NEW b \in Buffers
    PROVE  Owners(b) = {p \in Threads \X Nat : Held(p[1], p[2], b)}
<1>1. \A s \in Savers : Len(savers[s].fifo.queue) \in Nat
  BY SaverIs DEF SaverType
<1>2. ASSUME NEW p \in Places
      PROVE  p \in Threads \X Nat /\ (ImageAt(p) = b <=> Held(p[1], p[2], b))
  <2>1. CASE p = <<NumImageSavers, 0>>
    BY <2>1, ImageConstants DEF ImageAt, Held, Threads
  <2>2. ASSUME NEW s \in Savers, p \in {s} \X (0..Len(savers[s].fifo.queue))
        PROVE  p \in Threads \X Nat /\ (ImageAt(p) = b <=> Held(p[1], p[2], b))
    <3>1. p[1] = s /\ p[2] \in 0..Len(savers[s].fifo.queue) /\ p = <<s, p[2]>>
      BY <2>2
    <3>2. s # NumImageSavers /\ p \in Threads \X Nat
      BY <1>1, <3>1, ImageConstants DEF Threads
    <3>3. p[2] # 0 => p[2] \in 1..Len(savers[s].fifo.queue)
      BY <1>1, <3>1
    <3> QED  BY <3>1, <3>2, <3>3 DEF ImageAt, Held
  <2> QED  BY <2>1, <2>2 DEF Places
<1>3. ASSUME NEW p \in Threads \X Nat, Held(p[1], p[2], b) PROVE p \in Places
  <2>1. p = <<p[1], p[2]>>
    OBVIOUS
  <2>2. CASE p[1] = NumImageSavers /\ p[2] = 0
    BY <2>1, <2>2 DEF Places
  <2>3. CASE p[1] \in Savers /\ p[2] \in 0..Len(savers[p[1]].fifo.queue)
    BY <2>1, <2>3 DEF Places
  <2>4. p[1] \in Savers => 0 \in 0..Len(savers[p[1]].fifo.queue)
    BY <1>1
  <2> QED  BY <1>3, <2>2, <2>3, <2>4 DEF Held
<1> QED  BY <1>2, <1>3 DEF Owners

LEMMA InvIsOwned == ImageInv => BuffersOwned
<1> SUFFICES ASSUME ImageInv PROVE BuffersOwned
  OBVIOUS
<1>1. ASSUME NEW b \in live PROVE \E p \in Owners(b) : Owners(b) = {p}
  <2>1. b \in Buffers
    BY DEF ImageInv, MainGood
  <2>2. PICK t \in Threads, i \in Nat : Held(t, i, b)
    BY <2>1 DEF ImageInv, ImagesOwned
  <2>3. \A p \in Threads \X Nat : Held(p[1], p[2], b) => p = <<t, i>>
    BY <2>1, <2>2 DEF ImageInv, ImagesOwned
  <2>4. Owners(b) = {<<t, i>>}
    BY <2>1, <2>2, <2>3, PlacesHeld
  <2> QED  BY <2>4
<1>2. ASSUME NEW b \in Buffers \ live PROVE Owners(b) = {}
  BY <1>2, PlacesHeld DEF ImageInv, ImagesOwned
<1>3. main.pc = "closed" => live = {}
  BY NothingHeld DEF ImageInv, MainGood, ClosedInOrder
<1> QED  BY <1>1, <1>2, <1>3 DEF BuffersOwned

ServiceGood ==
    /\ owed \in [Singles \cup {"grouped"} -> SUBSET Singles]
    /\ lost \subseteq Singles \cup {"grouped"}

LEMMA ServiceKept ==
    ASSUME RequestsGood, ServiceGood, [ImageNext]_imageVars PROVE ServiceGood'
<1> USE DEF ServiceGood
<1>0. DOMAIN state = Singles \cup {"grouped"} /\ DOMAIN owed = Singles \cup {"grouped"}
  BY DEF RequestsGood
<1>1. ASSUME NEW r \in DOMAIN state, Request(r) PROVE ServiceGood'
  <2>1. grouped_mode \subseteq Singles
    BY ImageCaptureAssumption DEF RequestsGood
  <2>2. (IF r = "grouped" THEN grouped_mode ELSE {r}) \in SUBSET Singles
    BY <1>0, <2>1
  <2> QED  BY <1>1, <2>2 DEF Request
<1>2. CASE RENDER_EndUpdate
  <2>1. Unnumbered \subseteq Singles \cup {"grouped"}
    BY DEF Unnumbered, Singles
  <2> QED  BY <1>2, <2>1 DEF RENDER_EndUpdate, MaybeCaptureImage
<1>3. CASE ImageQueued
  <2>1. OwedAfter(Head(main.todo)) \in [Singles \cup {"grouped"} -> SUBSET Singles]
    BY <1>0 DEF OwedAfter
  <2> QED  BY <1>3, <2>1 DEF ImageQueued
<1>4. CASE JoinSaver
  BY <1>0, <1>4 DEF JoinSaver
<1>5. CASE UNCHANGED service
  BY <1>5 DEF service
<1> QED  BY <1>1, <1>2, <1>3, <1>4, <1>5
            DEF ImageNext, Main, Saver, GetNextImageSaver, QueueImage, StopSaver,
                NotifyStopped, TakeImage, ImageTaken, SaveImage, SpuriousWakeup,
                CAPTURE_Destroy, halt_render, GFX_MaybePresentFrame, Closed, imageVars

LEMMA InitService == ImageInit => ServiceGood
BY DEF ImageInit, ServiceGood

LEMMA InvIsTyped == ImageInv /\ RequestsGood /\ ServiceGood => ImageTypeOK
BY DEF ImageInv, RequestsGood, ServiceGood, MainGood, SaversGood, SaverType, ImageTypeOK

\* Every allocated image has exactly one owner, for any number of saver threads,
\* of places in their queues and of requests: no image leaks, is saved twice or
\* is freed while it is read, and closing the capturer, with whatever is still
\* queued, leaves none.
THEOREM ImagesAlwaysOwned == ImageSpec => []BuffersOwned
BY InitImages, NextImages, InvIsOwned, PTL DEF ImageSpec

\* The image capturer keeps its types; in particular it is never asked to queue
\* an image when it has none left to queue.
THEOREM CapturerTyped == ImageSpec => []ImageTypeOK
BY InitImages, NextImages, InitService, ServiceKept, InvIsTyped, PTL DEF ImageSpec
=============================================================================
