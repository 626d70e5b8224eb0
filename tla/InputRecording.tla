--------------------------- MODULE InputRecording ---------------------------
(***************************************************************************)
(* The recording of input (webserver/input.cpp).  Events are recorded by   *)
(* hooks on the emulation thread; a recording is started there too, by a   *)
(* command of the bridge, but it is paused and stopped by the             *)
(* threads of the web server.  Each access to the recording holds          *)
(* rec_mutex and is one step; the handlers are several such accesses.      *)
(* The emulation thread also serves the command that sets the CPU's rate,  *)
(* which asks whether a recording is active, and the hotkeys that change   *)
(* the rate, which do not ask.                                             *)
(*                                                                         *)
(* A command that times out in the bridge is withdrawn (module Bridge).    *)
(***************************************************************************)
EXTENDS Naturals, Sequences, FiniteSets, SequencesExt

CONSTANTS
    Clients,       \* threads of the web server
    Rates,         \* rates of the CPU, in cycles per millisecond
    MaxTime,       \* bound on the clock
    MaxEvents      \* bound on the number of input events

ASSUME RecordingAssumption == MaxTime \in Nat /\ MaxEvents \in Nat

VARIABLES
    active,        \* rec_active
    paused,        \* rec_paused
    buffer,        \* rec_buffer
    start,         \* rec_start_pic_ms and rec_start_frame
    now,           \* PIC_FullIndex and the frame counter
    emu,           \* the emulation thread: "run", or "setrate" once the rate
                   \* command has found no recording active
    pc,            \* where each client's handler is
    events,        \* input events so far
    rate,          \* the rate in force (CPU_CycleMax)
    heard,         \* ghost: events since the start, not made during a pause
    given,         \* ghost: events returned by stops, in order
    startRate,     \* ghost: the rate when the recording was started
    hotkey         \* ghost: a cycle hotkey was pressed since that start

recording == <<active, paused, buffer, start>>
rates == <<rate, startRate, hotkey>>
vars == <<recording, now, emu, pc, events, rates, heard, given>>

Init ==
    /\ active = FALSE /\ paused = FALSE /\ buffer = <<>> /\ start = 0
    /\ now = 0 /\ emu = "run"
    /\ pc = [c \in Clients |-> "idle"]
    /\ events = 0 /\ heard = {} /\ given = <<>>
    /\ rate \in Rates /\ startRate = rate /\ hotkey = FALSE

Goto(c, from, to) == pc[c] = from /\ pc' = [pc EXCEPT ![c] = to]

-----------------------------------------------------------------------------
(* The emulation thread.                                                   *)

\* rec_elapsed_ms_precise, and the frame relative to rec_start_frame.
Elapsed == now - start

\* A key, button, wheel or motion event reaches the hook: one of a replay is
\* not recorded, and neither is any during a pause.
OnEvent(replayed) ==
    /\ emu = "run"
    /\ events < MaxEvents
    /\ events' = events + 1
    /\ IF active /\ ~paused /\ ~replayed
       THEN /\ buffer' = Append(buffer, [id |-> events', t |-> Elapsed])
            /\ heard' = heard \cup {events'}
       ELSE UNCHANGED <<buffer, heard>>
    /\ UNCHANGED <<active, paused, start, now, emu, pc, rates, given>>

KeepBuffer(b) == b                              \* mutant

\* StartOnEmulationThread forgets the events of a recording that is active.
FreshBuffer(b) == <<>>

OnAnyThread == TRUE                             \* mutant

OnEmulationThread == emu = "run"

StartRecordingCommand(c) ==
    /\ OnEmulationThread
    /\ Goto(c, "starting", "idle")
    /\ buffer' = FreshBuffer(buffer)
    /\ active' = TRUE /\ paused' = FALSE /\ start' = now
    /\ heard' = {} /\ startRate' = rate /\ hotkey' = FALSE
    /\ UNCHANGED <<now, emu, events, rate, given>>

\* CyclesCommand with a new rate, refused while a recording is active.
CheckCycles ==
    /\ emu = "run"
    /\ ~active
    /\ emu' = "setrate"
    /\ UNCHANGED <<recording, now, pc, events, rates, heard, given>>

\* CPU_SetFixedCycles; in the legacy mode it fails and leaves the rate.
SetCycles ==
    /\ emu = "setrate"
    /\ emu' = "run"
    /\ rate' \in Rates
    /\ UNCHANGED <<recording, now, pc, events, startRate, hotkey, heard, given>>

\* cpu_increase_cycles and cpu_decrease_cycles, called by the mapper for a
\* hotkey.  At a limit, or at the rate "max", they leave the rate.
CycleHotkey ==
    /\ emu = "run"
    /\ rate' \in Rates
    /\ hotkey' = TRUE
    /\ UNCHANGED <<recording, now, emu, pc, events, startRate, heard, given>>

Time ==
    /\ emu = "run"
    /\ now < MaxTime
    /\ now' = now + 1
    /\ UNCHANGED <<recording, emu, pc, events, rates, heard, given>>

-----------------------------------------------------------------------------
(* The handlers.  One that finds the recording in the wrong state answers  *)
(* 409 and has no further effect.                                          *)

PostStart(c) ==
    /\ ~active
    /\ Goto(c, "idle", "starting")
    /\ UNCHANGED <<recording, now, emu, events, rates, heard, given>>

StartTimesOut(c) ==
    /\ Goto(c, "starting", "idle")
    /\ UNCHANGED <<recording, now, emu, events, rates, heard, given>>

PostPause(c) ==
    /\ active
    /\ Goto(c, "idle", "pausing")
    /\ UNCHANGED <<recording, now, emu, events, rates, heard, given>>

\* The recording may have ended since the check: then nothing is toggled, and
\* the handler answers 200 all the same.
Pause(c) ==
    /\ Goto(c, "pausing", "idle")
    /\ paused' = IF active THEN ~paused ELSE paused
    /\ UNCHANGED <<active, buffer, start, now, emu, events, rates, heard, given>>

BufferAfterStop(b) == b                         \* mutant

EmptyBuffer(b) == <<>>

PostStop(c) ==
    /\ pc[c] = "idle"
    /\ active
    /\ active' = FALSE /\ paused' = FALSE
    /\ given' = given \o buffer
    /\ buffer' = EmptyBuffer(buffer)
    /\ UNCHANGED <<start, now, emu, pc, events, rates, heard>>

-----------------------------------------------------------------------------

Handler(c) ==
    \/ PostStart(c) \/ StartRecordingCommand(c) \/ StartTimesOut(c)
    \/ PostPause(c) \/ Pause(c) \/ PostStop(c)

Next ==
    \/ \E replayed \in BOOLEAN : OnEvent(replayed)
    \/ CheckCycles \/ SetCycles \/ CycleHotkey \/ Time
    \/ \E c \in Clients : Handler(c)

Spec == Init /\ [][Next]_vars

-----------------------------------------------------------------------------

Event == [id : 1 .. MaxEvents, t : 0 .. MaxTime]

\* Types of the recording, the clock and the handlers.
TypeOK ==
    /\ active \in BOOLEAN /\ paused \in BOOLEAN
    /\ buffer \in Seq(Event) /\ given \in Seq(Event)
    /\ start \in 0 .. MaxTime /\ now \in 0 .. MaxTime
    /\ emu \in {"run", "setrate"}
    /\ pc \in [Clients -> {"idle", "starting", "pausing"}]
    /\ events \in 0 .. MaxEvents
    /\ heard \subseteq 1 .. MaxEvents
    /\ rate \in Rates /\ startRate \in Rates /\ hotkey \in BOOLEAN

\* A recording can be replayed: its times never go back and none lies in the
\* future, even when a second start overtook the check of the first.
RecordingOrdered ==
    /\ \A i, j \in DOMAIN buffer : i < j => buffer[i].t <= buffer[j].t
    /\ \A i \in DOMAIN buffer : buffer[i].t <= now - start

\* An event is returned at most once, and what an active recording will
\* return is exactly what was heard since it was started last, through
\* pauses, stops and starts of any clients.
EventsOnce ==
    /\ IsInjective([i \in DOMAIN (given \o buffer) |-> (given \o buffer)[i].id])
    /\ active => {buffer[i].id : i \in DOMAIN buffer} = heard

\* A recording that is active has been made at one rate of the CPU, unless a
\* cycle hotkey was pressed since its start: the command of the API never
\* changes the rate under it.  Its check and its change are two steps, but a
\* recording starts only on the thread that makes them.  The hotkeys have no
\* such check, and are the exception.
RateKept == active /\ ~hotkey => rate = startRate

=============================================================================
