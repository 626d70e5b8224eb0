----------------------------- MODULE LuaScript ------------------------------
(***************************************************************************)
(* The life of an automation script: the commands load, start and stop     *)
(* (lua/lua_bridge_commands.cpp), the Lua state they act on                *)
(* (lua_engine.cpp), the coroutine that is resumed once per frame or by    *)
(* the reaper of stalled waits (lua_coroutine.cpp), and the calls a script *)
(* yields in (lua_api.cpp).                                                *)
(*                                                                         *)
(* Everything here runs on the emulation thread: the commands inside the   *)
(* bridge's drain, DispatchFrame at the end of a frame, ReapStalledWaits   *)
(* between frames.  Nothing interleaves with a script that executes, but   *)
(* commands, frames, reaping, the passing of wall-clock ceilings and the   *)
(* guest's use of the keyboard come in any order while it is suspended.    *)
(*                                                                         *)
(* The keyboard is seen through KEYBOARD_AddKey, KEYBOARD_GetBufferFreeSlots *)
(* and KEYBOARD_IsBufferEmpty; its full model is KeyboardController.       *)
(***************************************************************************)
EXTENDS Naturals, Sequences

CONSTANTS
    Scripts,       \* names of scripts a client may load
    Waits,         \* frame counts a script may pass to its waiting calls
    Texts,         \* texts to type: sequences of slots needed per stroke
    Slots,         \* scancodes the keyboard's buffer holds (8)
    MaxFrame,      \* bound on the number of frames
    Nested         \* whether scripts call waiting functions from coroutines
                   \* of their own

NoScript == "none"

ASSUME ScriptAssumption ==
    /\ Waits \subseteq Nat /\ Slots \in Nat /\ MaxFrame \in Nat
    /\ Texts \subseteq Seq(1 .. Slots)
    /\ NoScript \notin Scripts
    /\ Nested \in BOOLEAN

VARIABLES
    loaded,    \* LuaEngine::has_loaded_script
    name,      \* ScriptManager::params.name
    log,       \* the debug log is open
    st,        \* LuaCoroutine::state
    co,        \* LuaCoroutine::coroutine: "none" (null), "live" (a thread of
               \* the current Lua state) or "dead" (of a destroyed one)
    wait,      \* the fields of LuaCoroutine about waiting, a record
    frame,     \* LuaCoroutine::current_frame
    exec,      \* the script executes inside lua_resume
    frames,    \* the emulator's frame counter
    kbd,       \* the keyboard: used slots, overflow latch, whether the
               \* controller takes the next scancode at once, scanning
    call,      \* ghost: the call the script is suspended in
    owed,      \* ghost: strokes of the last type() not given to the keyboard
    answer     \* ghost: what wait_for_text returned last

engine == <<loaded, name, log>>
ghosts == <<call, owed, answer>>
vars == <<loaded, name, log, st, co, wait, frame, exec, frames, kbd,
          call, owed, answer>>

\* text, due, textWall: waiting_for_text, its frame deadline, and whether its
\* wall-clock ceiling has passed; typing, pending, typeWall: injecting_type,
\* pending_keys and the ceiling of type(); until: wait_until_frame.
NoWait == [text |-> FALSE, due |-> 0, textWall |-> FALSE,
           typing |-> FALSE, pending |-> <<>>, typeWall |-> FALSE, until |-> 0]

Init ==
    /\ loaded = FALSE /\ name = NoScript /\ log = FALSE
    /\ st = "idle" /\ co = "none" /\ wait = NoWait /\ frame = 0
    /\ exec = FALSE /\ frames = 0
    /\ kbd = [used |-> 0, over |-> FALSE, ready |-> TRUE, scan |-> TRUE]
    /\ call = "none" /\ owed = 0 /\ answer = "none"

Active == st \in {"running", "yielded"}

-----------------------------------------------------------------------------
(* The keyboard's buffer.                                                  *)

Fits(n) == n <= Slots

\* n scancodes are added one after the other.  The first is passed on at once
\* if the controller is ready; the one that finds the buffer full wipes it.
AddKeys(k, n) ==
    LET filled == k.used + n - (IF k.ready THEN 1 ELSE 0)
    IN  IF ~k.scan \/ k.over THEN k
        ELSE IF Fits(filled)
             THEN [k EXCEPT !.used = filled, !.ready = FALSE]
             ELSE [k EXCEPT !.used = 0, !.over = TRUE, !.ready = FALSE]

FreeSlots(k) == IF k.over THEN 0 ELSE Slots - k.used

IsBufferEmpty(k) == ~k.over /\ k.used = 0

CountsAKeyAsOneSlot(need) == 1                  \* mutant

\* The slots DrainPendingKeys asks for before it injects a stroke.
Needed(need) == need

\* One round of the loop of DrainPendingKeys; once a stroke does not fit, the
\* strokes after it stay queued too.
InjectStroke(d, need) ==
    IF d.left # <<>> \/ FreeSlots(d.kbd) < Needed(need)
    THEN [d EXCEPT !.left = Append(@, need)]
    ELSE [d EXCEPT !.kbd = AddKeys(@, need)]

DrainPendingKeys ==
    LET drained[i \in 0 .. Len(wait.pending)] ==
            IF i = 0 THEN [kbd |-> kbd, left |-> <<>>]
            ELSE InjectStroke(drained[i - 1], wait.pending[i])
    IN  drained[Len(wait.pending)]

\* The guest has read what the controller held: KEYBOARD_NotifyReadyForFrame.
GuestReads ==
    /\ ~exec
    /\ ~kbd.ready
    /\ kbd' = IF kbd.used > 0
              THEN [kbd EXCEPT !.over = FALSE, !.used = @ - 1]
              ELSE [kbd EXCEPT !.over = FALSE, !.ready = TRUE]
    /\ UNCHANGED <<engine, st, co, wait, frame, exec, frames, ghosts>>

\* A key of the host, of a replay or of the paced typing.
HostKey ==
    /\ ~exec
    /\ kbd' = AddKeys(kbd, 1)
    /\ UNCHANGED <<engine, st, co, wait, frame, exec, frames, ghosts>>

\* The guest enables or disables scanning, which empties the buffer.
GuestSetsScanning ==
    /\ ~exec
    /\ kbd' = [kbd EXCEPT !.used = 0, !.over = FALSE, !.scan = ~@]
    /\ UNCHANGED <<engine, st, co, wait, frame, exec, frames, ghosts>>

-----------------------------------------------------------------------------
(* The commands.  A command that is refused changes nothing.               *)

LoadWheneverAsked == TRUE                       \* mutant

\* LuaLoadCommand refuses to replace a script that has not ended.
MayLoad == ~Active

\* The Lua state is destroyed with all its threads; a text that does not
\* compile leaves an empty state, and leaves the debug log as it was.
LuaLoad(n) ==
    /\ ~exec
    /\ MayLoad
    /\ name' = n
    /\ co' = IF co = "none" THEN "none" ELSE "dead"
    /\ \/ loaded' = TRUE /\ log' \in BOOLEAN
       \/ loaded' = FALSE /\ UNCHANGED log
    /\ UNCHANGED <<st, wait, frame, exec, frames, kbd, ghosts>>

LuaStart ==
    /\ ~exec
    /\ loaded /\ ~Active
    /\ wait' = NoWait
    /\ co' = "live"
    /\ st' = "running"
    /\ frame' = 0
    /\ call' = "none" /\ owed' = 0 /\ answer' = "none"
    /\ UNCHANGED <<engine, exec, frames, kbd>>

LuaStop ==
    /\ ~exec
    /\ log' = FALSE
    /\ IF Active
       THEN wait' = NoWait /\ co' = "none" /\ st' = "idle" /\ call' = "none"
       ELSE UNCHANGED <<wait, co, st, call>>
    /\ UNCHANGED <<loaded, name, frame, exec, frames, kbd, owed, answer>>

-----------------------------------------------------------------------------
(* Resuming the coroutine: once per frame, or by the reaper.               *)

\* LuaCoroutine::ResumeWith up to the point where the script runs.
Resume ==
    /\ st' = "running" /\ exec' = TRUE /\ call' = "none"

NewFrame ==
    /\ ~exec
    /\ frames < MaxFrame
    /\ frames' = frames + 1
    /\ UNCHANGED <<engine, co>>

\* DispatchFrame with no script, or before a started script's first resume.
DispatchFrame ==
    /\ NewFrame
    /\ \/ /\ ~Active
          /\ UNCHANGED <<st, exec, call, frame>>
       \/ /\ st = "running"
          /\ frame' = frames'
          /\ Resume
    /\ UNCHANGED <<wait, kbd, owed, answer>>

\* DispatchFrame for a script in wait_for_text (CheckWaitForText): the text is
\* on the screen, or a deadline has passed, or the script goes on waiting.
DispatchTextWait ==
    /\ NewFrame
    /\ st = "yielded" /\ wait.text
    /\ frame' = frames'
    /\ \/ /\ answer' = "found"
          /\ wait' = [wait EXCEPT !.text = FALSE]
          /\ Resume
       \/ /\ frame' >= wait.due \/ wait.textWall
          /\ answer' = "timeout"
          /\ wait' = [wait EXCEPT !.text = FALSE]
          /\ Resume
       \/ /\ frame' < wait.due /\ ~wait.textWall
          /\ UNCHANGED <<answer, wait, st, exec, call>>
    /\ UNCHANGED <<kbd, owed>>

KeepInjecting(w) == [w EXCEPT !.pending = <<>>] \* mutant

\* FinishTypeInjection up to the resume.
StopInjecting(w) == [w EXCEPT !.typing = FALSE, !.pending = <<>>]

QueueIsEmpty(d) == d.left = <<>>                \* mutant

\* The queue is drained and the guest has taken the keys.
Typed(d) == d.left = <<>> /\ IsBufferEmpty(d.kbd)

DispatchType ==
    /\ NewFrame
    /\ st = "yielded" /\ ~wait.text /\ wait.typing
    /\ frame' = frames'
    /\ LET d == DrainPendingKeys
       IN  /\ kbd' = d.kbd
           /\ owed' = Len(d.left)
           /\ \/ /\ Typed(d) \/ wait.typeWall
                 /\ wait' = StopInjecting(wait)
                 /\ Resume
              \/ /\ ~Typed(d) /\ ~wait.typeWall
                 /\ wait' = [wait EXCEPT !.pending = d.left]
                 /\ UNCHANGED <<st, exec, call>>
    /\ UNCHANGED answer

FrameBefore(until) == frame' + 1 >= until       \* mutant

FrameReached(until) == frame' >= until

DispatchFrameWait ==
    /\ NewFrame
    /\ st = "yielded" /\ ~wait.text /\ ~wait.typing
    /\ frame' = frames'
    /\ \/ ~FrameReached(wait.until) /\ UNCHANGED <<st, exec, call>>
       \/ FrameReached(wait.until) /\ Resume
    /\ UNCHANGED <<wait, kbd, owed, answer>>

\* A wall-clock ceiling passes.
TextCeiling ==
    /\ ~exec /\ wait.text /\ ~wait.textWall
    /\ wait' = [wait EXCEPT !.textWall = TRUE]
    /\ UNCHANGED <<engine, st, co, frame, exec, frames, kbd, ghosts>>

TypeCeiling ==
    /\ ~exec /\ wait.typing /\ ~wait.typeWall
    /\ wait' = [wait EXCEPT !.typeWall = TRUE]
    /\ UNCHANGED <<engine, st, co, frame, exec, frames, kbd, ghosts>>

ReapTextOnly == wait.text /\ wait.textWall      \* mutant

\* The ceilings only: the frame deadlines are DispatchFrame's job.
Overdue == IF wait.text THEN wait.textWall ELSE wait.typing /\ wait.typeWall

ReapStalledWaits ==
    /\ ~exec
    /\ st = "yielded"
    /\ Overdue
    /\ IF wait.text
       THEN wait' = [wait EXCEPT !.text = FALSE] /\ answer' = "timeout"
       ELSE wait' = StopInjecting(wait) /\ UNCHANGED answer
    /\ Resume
    /\ UNCHANGED <<engine, co, frame, frames, kbd, owed>>

-----------------------------------------------------------------------------
(* The script, from a resume to its next yield, its end or an error.       *)

\* The script is suspended in call c.  A call made in a coroutine of the
\* script's own returns to the script instead, having set up its wait.
Yield(c) ==
    \/ st' = "yielded" /\ exec' = FALSE /\ call' = c
    \/ Nested /\ UNCHANGED <<st, exec, call>>

LuaKey ==
    /\ exec
    /\ kbd' = AddKeys(kbd, 1)
    /\ UNCHANGED <<engine, st, co, wait, frame, exec, frames, ghosts>>

LuaWaitFrames ==
    /\ exec
    /\ \E n \in Waits : wait' = [wait EXCEPT !.until = frame + n]
    /\ Yield("frames")
    /\ UNCHANGED <<engine, co, frame, frames, kbd, owed, answer>>

\* wait_for_text when the text is not on the screen yet (SetWaitForText).
LuaWaitForText ==
    /\ exec
    /\ \E n \in Waits :
        wait' = [wait EXCEPT !.text = TRUE, !.due = frame + n, !.textWall = FALSE]
    /\ Yield("text")
    /\ UNCHANGED <<engine, co, frame, frames, kbd, owed, answer>>

\* type() for a text with keys in it (QueueTypeInput).
LuaType ==
    /\ exec
    /\ \E t \in Texts :
        /\ t # <<>>
        /\ wait' = [wait EXCEPT !.typing = TRUE, !.pending = t, !.typeWall = FALSE]
        /\ owed' = Len(t)
    /\ Yield("type")
    /\ UNCHANGED <<engine, co, frame, frames, kbd, answer>>

\* coroutine.yield() in the script's main function.
PlainYield ==
    /\ exec
    /\ st' = "yielded" /\ exec' = FALSE /\ call' = "plain"
    /\ UNCHANGED <<engine, co, wait, frame, frames, kbd, owed, answer>>

\* The main function returns, or an error (of the script, of an API call or
\* of the instruction hook) ends it; ReportStateTransition closes the log.
ScriptEnds ==
    /\ exec
    /\ st' \in {"completed", "error"} /\ exec' = FALSE
    /\ log' = FALSE
    /\ UNCHANGED <<loaded, name, co, wait, frame, frames, kbd, ghosts>>

-----------------------------------------------------------------------------
Commands == (\E n \in Scripts : LuaLoad(n)) \/ LuaStart \/ LuaStop

Dispatch == DispatchFrame \/ DispatchTextWait \/ DispatchType \/ DispatchFrameWait

Script ==
    \/ LuaKey \/ LuaWaitFrames \/ LuaWaitForText \/ LuaType \/ PlainYield
    \/ ScriptEnds

Next ==
    \/ GuestReads \/ HostKey \/ GuestSetsScanning
    \/ Commands \/ Dispatch \/ TextCeiling \/ TypeCeiling \/ ReapStalledWaits
    \/ Script

Spec == Init /\ [][Next]_vars

(* Time passes and the machine loop calls the reaper between frames.       *)
(* Frames may stop coming, and the guest may stop reading keys.            *)
Fairness ==
    /\ WF_vars(TextCeiling) /\ WF_vars(TypeCeiling) /\ WF_vars(ReapStalledWaits)

FairSpec == Spec /\ Fairness

-----------------------------------------------------------------------------
(* Properties.                                                             *)

States == {"idle", "running", "yielded", "completed", "error"}

\* Types; a suspended script is in one of the calls that yield.
TypeOK ==
    /\ loaded \in BOOLEAN /\ name \in Scripts \union {NoScript}
    /\ log \in BOOLEAN
    /\ st \in States /\ co \in {"none", "live", "dead"}
    /\ wait \in [text : BOOLEAN, due : Nat, textWall : BOOLEAN,
                 typing : BOOLEAN, pending : Seq(1 .. Slots),
                 typeWall : BOOLEAN, until : Nat]
    /\ frame \in Nat /\ exec \in BOOLEAN /\ frames \in 0 .. MaxFrame
    /\ kbd \in [used : 0 .. Slots, over : BOOLEAN, ready : BOOLEAN,
                scan : BOOLEAN]
    /\ call \in {"none", "frames", "text", "type", "plain"}
    /\ owed \in Nat /\ answer \in {"none", "found", "timeout"}

\* A script that a frame or the reaper may resume is a thread of the Lua state
\* that exists: no order of loading, starting, stopping and ending leaves the
\* coroutine pointing into a closed state.
NoResumeOfDeadThread == Active => co = "live"

\* The wait a suspended script is polled for is the one it called.
PolledForItsCall ==
    st = "yielded" => /\ wait.text <=> call = "text"
                      /\ wait.typing <=> call = "type"

\* wait_frames returns after the frames it was asked for, wait_for_text says
\* timeout only when a deadline has passed.
WaitsHonoured ==
    [][exec' /\ ~exec =>
        /\ call = "frames" => frame' >= wait.until
        /\ call = "text" /\ answer' = "timeout" =>
              frame' >= wait.due \/ wait.textWall]_vars

\* type() returns when all keys were given to the keyboard and the guest has
\* taken them, or when its ceiling has passed.
TypeHonoured ==
    [][exec' /\ ~exec /\ call = "type" =>
        wait.typeWall \/ (owed' = 0 /\ IsBufferEmpty(kbd'))]_vars

\* Both: a call that suspended a script resumes it for its own reason and not
\* before that reason holds.
CallsHonoured == WaitsHonoured /\ TypeHonoured

\* However full other sources keep the keyboard's buffer, the keys of type()
\* never overflow it, which would wipe keys that were queued before.
TypeNeverOverflows ==
    [][wait.typing /\ frames' # frames => (kbd'.over => kbd.over)]_vars

\* With frames stalled and a guest that reads no keys, wait_for_text and
\* type() still come to an end.
StalledWaitsEnd == call \in {"text", "type"} ~> call = "none"
=============================================================================
