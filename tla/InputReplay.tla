---------------------------- MODULE InputReplay -----------------------------
(***************************************************************************)
(* The replay of input sequences (webserver/input.cpp).  A sequence with   *)
(* frame numbers is replayed at the end of rendered frames, any other one, *)
(* and every text to type, by a chain of timer events: each fires one      *)
(* input event and schedules the next.  One replay of each sort may be     *)
(* under way, and both feed the keyboard that the host's own keys also     *)
(* feed.  All of it runs on the emulation thread.                          *)
(*                                                                         *)
(* Time is counted in milliseconds of the emulated timer.  As in the       *)
(* timer's queue, what is kept of a timer event is the time left to it.    *)
(***************************************************************************)
EXTENDS Integers, Sequences, FiniteSets, SequencesExt

CONSTANTS
    Requests,      \* bodies of /input/sequence: sequences of events
    Texts,         \* texts of /input/type: sequences of strokes, TRUE: shifted
    Step,          \* milliseconds between two typed characters
    Slots,         \* scancodes the keyboard's buffer holds (8)
    FrameCap,      \* events dispatched per frame at most (500)
    MaxAge,        \* bound: the ages below are not counted any further
    MaxHostKeys    \* bound on the number of keys of the host

\* What a request says of an event: its kind, the form of its timing ("t",
\* "delay" or "none") with its value, and its frame or NoFrame.
NoFrame == -1

ASSUME ReplayAssumption ==
    /\ Step \in Nat /\ Slots \in Nat /\ FrameCap \in Nat \ {0}
    /\ MaxAge \in Nat /\ MaxHostKeys \in Nat
    /\ Requests \subseteq Seq([kind : {"key", "mouse"}, form : {"t", "delay", "none"},
                               v : Nat, frame : Nat \cup {NoFrame}])
    /\ Texts \subseteq Seq(BOOLEAN)
    \* the ages are counted up to every time a client asks for
    /\ \A req \in Requests : (\A i \in DOMAIN req : req[i].frame = NoFrame)
                               => \A i \in DOMAIN req : req[i].v <= MaxAge
    /\ \A text \in Texts : \A n \in DOMAIN text : (n - 1) * Step <= MaxAge

VARIABLES
    pending,       \* pending_events
    timers,        \* time left to the timer events of pic_input_handler
    framePending,  \* frame_pending_events
    replaying,     \* frame_replay_active
    rel,           \* frames since frame_replay_start
    kbd,           \* the keyboard: used slots, overflow latch, whether the
                   \* controller takes the next scancode at once, scanning
    host,          \* keys of the host so far
    elapsed,       \* ghost: time since the chain was started
    gap,           \* ghost: time since the chain's last event
    first,         \* ghost: the frame the frame replay counts from
    out            \* ghost: the input events of the last step, with their age

ages == <<rel, elapsed, gap>>
replayVars == <<pending, timers, framePending, replaying, rel, kbd, host,
                elapsed, gap, first, out>>

ReplayInit ==
    /\ pending = <<>> /\ timers = <<>>
    /\ framePending = <<>> /\ replaying = FALSE /\ rel = 0
    /\ kbd = [used |-> 0, over |-> FALSE, ready |-> TRUE, scan |-> TRUE]
    /\ host = 0
    /\ elapsed = 0 /\ gap = 0 /\ first = 0 /\ out = <<>>

Older(age) == IF age < MaxAge THEN age + 1 ELSE age

-----------------------------------------------------------------------------
(* What the handlers make of a request.                                    *)

DelayFromTheStart(t, ev) == ev.v                \* mutant

\* The position of an event on the timeline, t being the one before it.
Position(t, ev) == CASE ev.form = "t"     -> ev.v
                    [] ev.form = "delay" -> t + ev.v
                    [] ev.form = "none"  -> t

\* InputSequenceCommand::Post: 'delay_ms' counts from the event before.
Parse(req) ==
    LET position[i \in 0 .. Len(req)] ==
            IF i = 0 THEN 0 ELSE Position(position[i - 1], req[i])
    IN  [i \in 1 .. Len(req) |->
            [kind |-> req[i].kind, t |-> position[i], asked |-> req[i],
             frame |-> IF req[i].frame = NoFrame THEN 0 ELSE req[i].frame]]

HasFrameData(req) == \E i \in DOMAIN req : req[i].frame # NoFrame

\* ExpandTextToEvents: a stroke presses and releases its key, and shift
\* around it, all at the time of the stroke.
StrokeEvents(n, shifted) ==
    [i \in 1 .. (IF shifted THEN 4 ELSE 2) |->
        [kind |-> "key", t |-> n * Step, frame |-> 0,
         asked |-> [kind |-> "key", form |-> "t", v |-> n * Step, frame |-> NoFrame]]]

Expand(text) ==
    LET typed[n \in 0 .. Len(text)] ==
            IF n = 0 THEN <<>> ELSE typed[n - 1] \o StrokeEvents(n - 1, text[n])
    IN  typed[Len(text)]

-----------------------------------------------------------------------------
(* The keyboard's buffer.                                                  *)

\* A scancode is passed on at once if the controller is ready; one that finds
\* the buffer full wipes it.
AddKey(k) ==
    IF ~k.scan \/ k.over THEN k
    ELSE IF k.ready THEN [k EXCEPT !.ready = FALSE]
    ELSE IF k.used < Slots THEN [k EXCEPT !.used = @ + 1]
    ELSE [k EXCEPT !.used = 0, !.over = TRUE]

FreeSlots(k) == IF k.over THEN 0 ELSE Slots - k.used

\* Scancodes the keyboard and the controller hold.
Load(k) == k.used + IF k.ready THEN 0 ELSE 1

dispatch_input_event(k, ev) == IF ev.kind = "key" THEN AddKey(k) ELSE k

NeverHeld(k, ev) == FALSE                       \* mutant

\* A key event is held back until the buffer has two free slots.
Held(k, ev) == ev.kind = "key" /\ FreeSlots(k) < 2

GuestReads ==
    /\ ~kbd.ready
    /\ kbd' = IF kbd.used > 0
              THEN [kbd EXCEPT !.over = FALSE, !.used = @ - 1]
              ELSE [kbd EXCEPT !.over = FALSE, !.ready = TRUE]
    /\ out' = <<>>
    /\ UNCHANGED <<pending, timers, framePending, replaying, host, ages, first>>

\* A key of the host, a typematic repeat or a key of a script.
HostKey ==
    /\ host < MaxHostKeys
    /\ host' = host + 1
    /\ kbd' = AddKey(kbd)
    /\ out' = <<>>
    /\ UNCHANGED <<pending, timers, framePending, replaying, ages, first>>

\* The guest enables or disables scanning, which empties the buffer.
GuestSetsScanning ==
    /\ kbd' = [kbd EXCEPT !.used = 0, !.over = FALSE, !.scan = ~@]
    /\ out' = <<>>
    /\ UNCHANGED <<pending, timers, framePending, replaying, host, ages, first>>

-----------------------------------------------------------------------------
(* The chain of timer events.                                              *)

\* A sequence is refused while another one is pending.
ChainFree == pending = <<>>

ExecutePicBased(events) ==
    /\ ChainFree
    /\ pending' = pending \o events
    /\ IF pending' = <<>>
       THEN UNCHANGED <<timers, elapsed, gap>>
       ELSE /\ timers' = Append(timers, Head(pending').t)
            /\ elapsed' = 0 /\ gap' = 0
    /\ out' = <<>>
    /\ UNCHANGED <<framePending, replaying, rel, kbd, host, first>>

PostTimed == \E req \in Requests : ~HasFrameData(req) /\ ExecutePicBased(Parse(req))

PostType == \E text \in Texts : ExecutePicBased(Expand(text))

NoRetry(ts) == ts                               \* mutant

\* backpressure_retry_ms
Retry(ts) == Append(ts, 1)

NextDelay(ev, next) == Max({next.t - ev.t, 0})

pic_input_handler ==
    /\ timers # <<>> /\ Head(timers) = 0
    /\ LET rest == Tail(timers) IN
       IF pending = <<>>
       THEN /\ timers' = rest /\ out' = <<>>
            /\ UNCHANGED <<pending, kbd, gap>>
       ELSE LET ev == Head(pending) IN
            IF Held(kbd, ev)
            THEN /\ timers' = Retry(rest) /\ out' = <<>>
                 /\ UNCHANGED <<pending, kbd, gap>>
            ELSE /\ pending' = Tail(pending)
                 /\ out' = << [ev |-> ev, by |-> "timer", at |-> elapsed, gap |-> gap] >>
                 /\ gap' = 0
                 /\ kbd' = dispatch_input_event(kbd, ev)
                 /\ timers' = IF pending' = <<>> THEN rest
                              ELSE Append(rest, NextDelay(ev, Head(pending')))
    /\ UNCHANGED <<framePending, replaying, rel, host, elapsed, first>>

\* Time passes once no timer event is due.
Tick ==
    /\ pending # <<>>
    /\ \A i \in DOMAIN timers : timers[i] > 0
    /\ timers' = [i \in DOMAIN timers |-> timers[i] - 1]
    /\ elapsed' = Older(elapsed) /\ gap' = Older(gap)
    /\ out' = <<>>
    /\ UNCHANGED <<pending, framePending, replaying, rel, kbd, host, first>>

-----------------------------------------------------------------------------
(* The replay by frames.                                                   *)

\* The frame that becomes frame 0: that of the first event that is not at
\* frame 0 and time 0.
FrameBase(events) ==
    LET i == SelectInSeq(events, LAMBDA e : e.frame > 0 \/ e.t > 0)
    IN  IF i = 0 THEN 0 ELSE events[i].frame

Normalized(events) ==
    LET base == FrameBase(events)
    IN  [i \in DOMAIN events |-> [events[i] EXCEPT !.frame = Max({@ - base, 0})]]

\* Ghost: the frame of the first event, but if that one is at frame 0 and time
\* 0, which the code takes for having no position, of the one that has.
AtStart(ev) == ev.frame = 0 /\ ev.t = 0

CountedFrom(events) ==
    IF AtStart(Head(events)) THEN FrameBase(events) ELSE Head(events).frame

ExecuteFrameBased(events) ==
    /\ ~replaying
    /\ framePending' = framePending \o Normalized(events)
    /\ replaying' = TRUE
    /\ rel' = 0 /\ first' = CountedFrom(events)
    /\ out' = <<>>
    /\ UNCHANGED <<pending, timers, kbd, host, elapsed, gap>>

PostFramed == \E req \in Requests : HasFrameData(req) /\ ExecuteFrameBased(Parse(req))

FrameDueEarly(f, n) == f <= n + 1               \* mutant

FrameDue(f, n) == f <= n

\* One round of the loop of ReplayDispatchFrame; once an event stays queued,
\* so do the ones after it.
DispatchOne(d, ev) ==
    IF d.left # <<>> \/ ~FrameDue(ev.frame, d.rel) \/ Len(d.out) >= FrameCap \/ Held(d.kbd, ev)
    THEN [d EXCEPT !.left = Append(@, ev)]
    ELSE [d EXCEPT !.kbd = dispatch_input_event(@, ev),
                   !.out = Append(@, [ev |-> ev, by |-> "frame", at |-> d.rel, gap |-> 0])]

\* What the loop leaves in frame n.
Dispatched(n) ==
    LET round[i \in 0 .. Len(framePending)] ==
            IF i = 0 THEN [kbd |-> kbd, left |-> <<>>, out |-> <<>>, rel |-> n]
            ELSE DispatchOne(round[i - 1], framePending[i])
    IN  round[Len(framePending)]

\* A frame ends: GFX_EndUpdate counts it and dispatches.
ReplayDispatchFrame ==
    /\ replaying
    /\ rel' = Older(rel)
    /\ LET d == Dispatched(rel')
       IN  /\ framePending' = d.left
           /\ kbd' = d.kbd
           /\ out' = d.out
    /\ replaying' = (framePending' # <<>>)
    /\ UNCHANGED <<pending, timers, host, elapsed, gap, first>>

-----------------------------------------------------------------------------

ReplayNext ==
    \/ PostTimed \/ PostType \/ PostFramed
    \/ pic_input_handler \/ Tick \/ ReplayDispatchFrame
    \/ GuestReads \/ HostKey \/ GuestSetsScanning

ReplaySpec == ReplayInit /\ [][ReplayNext]_replayVars

\* The emulated machine runs, draws frames and its program reads the keyboard.
FairSpec ==
    /\ ReplaySpec
    /\ WF_replayVars(pic_input_handler) /\ WF_replayVars(Tick)
    /\ WF_replayVars(ReplayDispatchFrame) /\ WF_replayVars(GuestReads)

-----------------------------------------------------------------------------

InputEvent == [kind : {"key", "mouse"}, t : Nat, frame : Nat,
               asked : [kind : {"key", "mouse"}, form : {"t", "delay", "none"},
                        v : Nat, frame : Nat \cup {NoFrame}]]

\* Types of the two queues, the keyboard and the ages.
ReplayTypeOK ==
    /\ pending \in Seq(InputEvent) /\ framePending \in Seq(InputEvent)
    /\ timers \in Seq(Nat)
    /\ replaying \in BOOLEAN
    /\ kbd \in [used : 0 .. Slots, over : BOOLEAN, ready : BOOLEAN, scan : BOOLEAN]
    /\ host \in 0 .. MaxHostKeys
    /\ {rel, elapsed, gap} \subseteq 0 .. MaxAge
    /\ first \in Nat
    /\ out \in Seq([ev : InputEvent, by : {"timer", "frame"}, at : 0 .. MaxAge, gap : 0 .. MaxAge])

Keys(events) == Cardinality({i \in DOMAIN events : events[i].ev.kind = "key"})

\* Every replayed key enters the keyboard's buffer while the guest has
\* scanning on: it neither overflows the buffer, which would wipe the keys
\* before it, nor is dropped by an overflow the host's keys caused, whichever
\* of the two replays sends it.
KeysEnterBuffer ==
    [][(out' # <<>> /\ kbd.scan) =>
            /\ Load(kbd') = Load(kbd) + Keys(out')
            /\ kbd'.over = kbd.over]_replayVars

\* A timed event is never early, however long keys were held back before it:
\* one placed with 't' fires no sooner than that after the start, one with
\* 'delay_ms' no sooner than that after the event before it.
TimingHonoured ==
    \A i \in DOMAIN out :
        LET a == out[i].ev.asked IN
        out[i].by = "timer" =>
            /\ a.form = "t" => out[i].at >= a.v
            /\ a.form = "delay" => out[i].gap >= a.v

\* Frames keep their distance from the first event: an event is not
\* dispatched before as many frames have passed as lie between the two in the
\* recording.  The exception is a first event at frame 0 and time 0: the code
\* passes it over when it looks for the frame that becomes 0 (input.cpp 305),
\* so the next event follows it at once and the later ones keep their distance
\* from that one only.
FramesKept ==
    \A i \in DOMAIN out :
        LET a == out[i].ev.asked IN a.frame # NoFrame => out[i].at >= a.frame - first

\* A replay ends, so that the next sequence is not refused for ever, unless
\* sequences of the other sort keep coming and take the free slots.
ReplaysEnd ==
    /\ <>[][~PostFramed]_replayVars => []<>(pending = <<>>)
    /\ <>[][~PostTimed /\ ~PostType]_replayVars => []<>(~replaying)

=============================================================================
