----------------------------- MODULE AudioMixer -----------------------------
(***************************************************************************)
(* The threads that make the sound and the queues between them: the main   *)
(* thread, whose devices render a little audio in every emulated tick; the *)
(* mixer thread, which takes a block from every channel while it holds the *)
(* mixer's mutex (audio/mixer.cpp); the renderer thread of the internal    *)
(* MIDI synthesizers (midi/fluidsynth.cpp, and mt32.cpp and                *)
(* soundcanvas.cpp, which are built alike); and the callback of SDL.       *)
(*                                                                         *)
(* Everybody waits for everybody here: the mixer for the devices of the    *)
(* main thread and for the MIDI renderer, the main thread for the mutex,   *)
(* for room in the MIDI work queue and for the threads it joins, the       *)
(* renderer for room that the mixer makes.  Frames are counted; what they  *)
(* sound like is left out, and so is fast-forward mode.                    *)
(***************************************************************************)
EXTENDS RWQueue, FiniteSets

CONSTANTS
    Devices,          \* the audio devices that run on the main thread
    Kind,             \* what Devices are, see Kinds
    Block,            \* mixer.blocksize, in the frames a device makes in a tick
    PreBuffer,        \* the prebuffer setting, in the same unit
    CaptureCapacity,  \* capacity of mixer.capture_queue
    MaxMidiWorkFifoSize,
    MaxMessages,      \* bound: MIDI messages sent
    Setups            \* the channels, mixer states and captures to start with

\* speaker: PC speaker, LPT DAC and Sound Blaster; gus: Gravis UltraSound;
\* dac: the DACs of Tandy and PS/1; reelmagic: the MPEG player.
Kinds == {"speaker", "gus", "dac", "reelmagic"}

ASSUME AudioMixerAssumption ==
    /\ Devices \cap {"midi", "none", "hold", "final_output", "capture_queue"} = {}
    /\ Kind \in [Devices -> Kinds]
    /\ Block \in Nat \ {0} /\ PreBuffer \in Nat \ {0}
    /\ CaptureCapacity \in Nat /\ CaptureCapacity >= Block
    /\ MaxMidiWorkFifoSize \in Nat \ {0} /\ MaxMessages \in Nat
    /\ Setups \subseteq [channels : SUBSET (Devices \cup {"midi"}),
                         state : {"On", "NoSound"}, capturing : BOOLEAN]

Channels == Devices \cup {"midi"}

VARIABLES
    main,              \* the main thread: pc, what it is doing and with what
    mixer,             \* the mixer thread: pc, channels left to mix, frames left
    renderer,          \* the MIDI renderer: pc and frames left to enqueue
    sdl,               \* frames the callback of SDL still wants to dequeue
    holder,            \* who holds mixer.mutex
    queue,             \* the queues of audio frames
    work_fifo,         \* messages in the MIDI work queue, and is_running
    pointers,          \* devices whose global pointer is set
    channels,          \* mixer.channels: the registered channels
    is_enabled,        \* channels that are enabled
    woken,             \* channels woken since the mixer last mixed them
    state,             \* mixer.state
    thread_should_quit,
    capturing,         \* CAPTURE_IsCapturingAudio or ...Video
    sent               \* MIDI messages sent

vars == <<main, mixer, renderer, sdl, holder, queue, work_fifo, pointers, channels,
          is_enabled, woken, state, thread_should_quit, capturing, sent>>
registry == <<pointers, channels, is_enabled, woken>>
settings == <<state, thread_should_quit, capturing, sent>>

Queues == Channels \cup {"final_output", "capture_queue"}

\* Twice the block for a device, so that it can run ahead of the mixer.
CapacityOf(q) ==
    CASE q = "final_output"  -> Block + PreBuffer
      [] q = "capture_queue" -> CaptureCapacity
      [] q = "midi"          -> 2 * PreBuffer
      [] OTHER               -> 2 * Block

Init ==
    /\ main = [pc |-> "run", job |-> "none", want |-> 0, quitting |-> FALSE]
    /\ mixer = [pc |-> "loop", left |-> {}, now |-> "none", want |-> 0]
    /\ sdl = 0
    /\ holder = "none"
    /\ queue = [q \in Queues |-> NewFrameQueue(CapacityOf(q))]
    /\ work_fifo = [items |-> 0, is_running |-> TRUE]
    /\ \E s \in Setups :
         /\ channels = s.channels /\ state = s.state /\ capturing = s.capturing
         /\ renderer = [pc |-> IF "midi" \in s.channels THEN "loop" ELSE "ended", want |-> 0]
    /\ pointers = channels \cap Devices
    /\ is_enabled = {c \in channels : c \in Devices => Kind[c] # "reelmagic"}
    /\ woken = {} /\ thread_should_quit = FALSE /\ sent = 0

-----------------------------------------------------------------------------
(***************************************************************************)
(* The mixer thread.                                                       *)
(***************************************************************************)
\* mixer_thread_loop: the next pass, or the end of the thread.
MixerLoop ==
    /\ mixer.pc = "loop"
    /\ IF thread_should_quit
       THEN mixer' = [mixer EXCEPT !.pc = "ended"] /\ UNCHANGED holder
       ELSE /\ holder = "none" /\ holder' = "mixer"
            /\ mixer' = [mixer EXCEPT !.pc = "mix", !.left = channels]
    /\ UNCHANGED <<main, renderer, sdl, queue, work_fifo, registry, settings>>

\* mix_samples goes to the next channel; Mix asks an enabled one for a block.
NextChannel(c) ==
    /\ mixer.pc = "mix" /\ mixer.now = "none" /\ c \in mixer.left
    /\ mixer' = [mixer EXCEPT !.left = @ \ {c},
                              !.now = IF c \in is_enabled THEN c ELSE "none",
                              !.want = IF c \in is_enabled THEN Block ELSE 0]
    /\ UNCHANGED <<main, renderer, sdl, holder, queue, work_fifo, registry, settings>>

\* MIXER_PullFromQueueCallback and MixerCallback: a pass of BulkDequeue.
PullFromQueue(c) ==
    /\ mixer.now = c /\ mixer.want > 0
    /\ \E n \in ItemChunks(queue[c], mixer.want) :
         /\ queue' = [queue EXCEPT ![c] = Removed(@, n)]
         /\ mixer' = [mixer EXCEPT !.want = @ - n]
    /\ UNCHANGED <<main, renderer, sdl, holder, work_fifo, registry, settings>>

\* The block is complete, or the queue was stopped and the rest is silence.
\* The channel may fall asleep then, see MaybeSleep, but not so soon after it
\* was woken: the time it stays awake is many blocks long.
ChannelMixed(c) ==
    /\ mixer.now = c
    /\ mixer.want = 0 \/ Drained(queue[c])
    /\ mixer' = [mixer EXCEPT !.now = "none", !.want = 0]
    /\ woken' = woken \ {c}
    /\ \/ UNCHANGED is_enabled
       \/ /\ c \notin woken /\ (c \in Devices => Kind[c] # "reelmagic")
          /\ is_enabled' = is_enabled \ {c}
    /\ UNCHANGED <<main, renderer, sdl, holder, queue, work_fifo, pointers, channels,
                   settings>>

CaptureOverflows == queue["capture_queue"].size + Block > queue["capture_queue"].capacity

\* The end of mix_samples: a full capture queue is cleared ...
MakeRoomForCapture ==
    /\ mixer.pc = "mix" /\ mixer.now = "none" /\ mixer.left = {}
    /\ mixer' = [mixer EXCEPT !.pc = IF capturing THEN "capture" ELSE "unlock"]
    /\ queue' = IF capturing /\ CaptureOverflows
                THEN [queue EXCEPT !["capture_queue"] = Clear(@)] ELSE queue
    /\ UNCHANGED <<main, renderer, sdl, holder, work_fifo, registry, settings>>

\* ... before the block is added to it.
CaptureBlock ==
    /\ mixer.pc = "capture"
    /\ mixer' = [mixer EXCEPT !.pc = "unlock"]
    /\ queue' = [queue EXCEPT !["capture_queue"] = NonblockingBulkEnqueue(@, Block)]
    /\ UNCHANGED <<main, renderer, sdl, holder, work_fifo, registry, settings>>

\* The mutex is released; without sound the thread naps and starts again, else
\* it enqueues a block, of silence when the mixer is muted.
MixerUnlock ==
    /\ mixer.pc = "unlock"
    /\ holder' = "none"
    /\ mixer' = IF state = "NoSound" THEN [mixer EXCEPT !.pc = "loop"]
                ELSE [mixer EXCEPT !.pc = "output", !.want = Block]
    /\ UNCHANGED <<main, renderer, sdl, queue, work_fifo, registry, settings>>

\* A pass of BulkEnqueue into final_output; a stopped queue ends it.
EnqueueOutput ==
    /\ mixer.pc = "output"
    /\ \/ \E n \in RoomChunks(queue["final_output"], mixer.want) :
            /\ queue' = [queue EXCEPT !["final_output"] = Added(@, n)]
            /\ mixer' = [mixer EXCEPT !.want = @ - n, !.pc = IF mixer.want = n THEN "loop" ELSE @]
       \/ /\ ~queue["final_output"].is_running
          /\ mixer' = [mixer EXCEPT !.want = 0, !.pc = "loop"]
          /\ UNCHANGED queue
    /\ UNCHANGED <<main, renderer, sdl, holder, work_fifo, registry, settings>>

-----------------------------------------------------------------------------
(***************************************************************************)
(* The callback of SDL and the MIDI renderer.                              *)
(***************************************************************************)
\* mixer_callback: SDL asks for up to a block, and the size of the queue
\* bounds what the callback tries to dequeue.
SdlCallback ==
    /\ state # "NoSound" /\ main.pc # "gone" /\ sdl = 0
    /\ sdl' = Smaller(queue["final_output"].size, Block)
    /\ sdl' > 0
    /\ UNCHANGED <<main, mixer, renderer, holder, queue, work_fifo, registry, settings>>

SdlDequeue ==
    /\ sdl > 0
    /\ \/ \E n \in ItemChunks(queue["final_output"], sdl) :
            /\ queue' = [queue EXCEPT !["final_output"] = Removed(@, n)]
            /\ sdl' = sdl - n
       \/ Drained(queue["final_output"]) /\ sdl' = 0 /\ UNCHANGED queue
    /\ UNCHANGED <<main, mixer, renderer, holder, work_fifo, registry, settings>>

\* Render: ends when the work queue is stopped; applies a message if there is
\* one, after the frames that were due before it; renders ahead otherwise.
Render ==
    /\ renderer.pc = "loop"
    /\ IF ~work_fifo.is_running
       THEN renderer' = [renderer EXCEPT !.pc = "ended"] /\ UNCHANGED work_fifo
       ELSE IF work_fifo.items = 0
       THEN renderer' = [pc |-> "enqueue", want |-> 1] /\ UNCHANGED work_fifo
       ELSE /\ \E pending \in 0..1 :
                 renderer' = [pc |-> IF pending = 0 THEN "loop" ELSE "enqueue", want |-> pending]
            /\ work_fifo' = [work_fifo EXCEPT !.items = @ - 1]
    /\ UNCHANGED <<main, mixer, sdl, holder, queue, registry, settings>>

\* RenderAudioFramesToFifo: a pass of BulkEnqueue into audio_frame_fifo.
EnqueueRendered ==
    /\ renderer.pc = "enqueue"
    /\ \/ \E n \in RoomChunks(queue["midi"], renderer.want) :
            /\ queue' = [queue EXCEPT !["midi"] = Added(@, n)]
            /\ renderer' = [pc |-> IF renderer.want = n THEN "loop" ELSE "enqueue",
                            want |-> renderer.want - n]
       \/ /\ ~queue["midi"].is_running
          /\ renderer' = [pc |-> "loop", want |-> 0] /\ UNCHANGED queue
    /\ UNCHANGED <<main, mixer, sdl, holder, work_fifo, registry, settings>>

-----------------------------------------------------------------------------
(***************************************************************************)
(* The main thread between two locks of the mixer.                         *)
(***************************************************************************)
Running == main.pc = "run" /\ ~main.quitting

AnyDemand == 1                                  \* mutant

\* capture_callback asks for no more than what is there.
CaptureDemand == Smaller(queue["capture_queue"].size, 1)

\* A tick: the handlers of the enabled devices make a frame each, and
\* capture_callback takes one.
Tick ==
    /\ Running
    /\ queue' = [q \in Queues |->
                   IF q \in Devices \cap channels \cap is_enabled
                   THEN NonblockingBulkEnqueue(queue[q], 1) ELSE queue[q]]
    /\ main' = IF capturing /\ CaptureDemand > 0
               THEN [main EXCEPT !.pc = "capture", !.want = CaptureDemand] ELSE main
    /\ UNCHANGED <<mixer, renderer, sdl, holder, work_fifo, registry, settings>>

CaptureDequeue ==
    /\ main.pc = "capture"
    /\ \E n \in ItemChunks(queue["capture_queue"], main.want) :
         /\ queue' = [queue EXCEPT !["capture_queue"] = Removed(@, n)]
         /\ main' = [main EXCEPT !.want = @ - n, !.pc = IF main.want = n THEN "run" ELSE @]
    /\ UNCHANGED <<mixer, renderer, sdl, holder, work_fifo, registry, settings>>

StillAsleep(cs) == cs                           \* mutant

\* GetNumPendingAudioFrames wakes the channel up.
Awake(cs) == cs \cup {"midi"}

\* SendMidiMessage does so and waits for room in the work queue.
SendMidiMessage ==
    /\ Running /\ "midi" \in channels /\ sent < MaxMessages
    /\ is_enabled' = Awake(is_enabled) /\ woken' = Awake(woken)
    /\ main' = [main EXCEPT !.pc = "send"]
    /\ sent' = sent + 1
    /\ UNCHANGED <<mixer, renderer, sdl, holder, queue, work_fifo, pointers,
                   channels, state, thread_should_quit, capturing>>

EnqueueWork ==
    /\ main.pc = "send" /\ work_fifo.items < MaxMidiWorkFifoSize
    /\ work_fifo' = [work_fifo EXCEPT !.items = @ + 1]
    /\ main' = [main EXCEPT !.pc = "run"]
    /\ UNCHANGED <<mixer, renderer, sdl, holder, queue, registry, settings>>

\* A guest's access wakes a sleeping channel up or keeps it awake.
WakeUp(d) ==
    /\ Running /\ d \in channels /\ Kind[d] # "reelmagic"
    /\ is_enabled' = is_enabled \cup {d} /\ woken' = woken \cup {d}
    /\ UNCHANGED <<main, mixer, renderer, sdl, holder, queue, work_fifo, pointers,
                   channels, settings>>

\* Gus::Reset halts playback, and with it what gus_pic_callback renders.
GusReset(d) ==
    /\ Running /\ d \in channels /\ Kind[d] = "gus" /\ d \in is_enabled
    /\ is_enabled' = is_enabled \ {d}
    /\ UNCHANGED <<main, mixer, renderer, sdl, holder, queue, work_fifo, pointers,
                   channels, woken, settings>>

\* ActivatePlayerAudioFifo
ActivatePlayer(d) ==
    /\ Running /\ d \in channels /\ Kind[d] = "reelmagic" /\ d \notin is_enabled
    /\ queue' = [queue EXCEPT ![d] = Start(@)]
    /\ is_enabled' = is_enabled \cup {d}
    /\ UNCHANGED <<main, mixer, renderer, sdl, holder, work_fifo, pointers, channels,
                   woken, settings>>

LeftRunning(q) == q                             \* mutant

StoppedPlayer(q) == Stop(q)

\* DeactivatePlayerAudioFifo
DeactivatePlayer(d) ==
    /\ Running /\ d \in channels /\ Kind[d] = "reelmagic" /\ d \in is_enabled
    /\ is_enabled' = is_enabled \ {d}
    /\ queue' = [queue EXCEPT ![d] = StoppedPlayer(@)]
    /\ UNCHANGED <<main, mixer, renderer, sdl, holder, work_fifo, pointers, channels,
                   woken, settings>>

\* MIXER_Mute and MIXER_Unmute
ToggleMute ==
    /\ Running /\ state # "NoSound"
    /\ state' = IF state = "On" THEN "Muted" ELSE "On"
    /\ queue' = IF state = "On" THEN [queue EXCEPT !["final_output"] = Clear(@)] ELSE queue
    /\ UNCHANGED <<main, mixer, renderer, sdl, holder, work_fifo, registry,
                   thread_should_quit, capturing, sent>>

RequestExit ==
    /\ Running
    /\ main' = [main EXCEPT !.quitting = TRUE]
    /\ UNCHANGED <<mixer, renderer, sdl, holder, queue, work_fifo, registry, settings>>

-----------------------------------------------------------------------------
(***************************************************************************)
(* The main thread locking the mixer.  A job is what it locks it for: to   *)
(* change a setting or pause ("hold"), or to destroy a device or the MIDI  *)
(* synthesizer.  MIXER_LockMixerThread stops the queues that it reaches    *)
(* through the devices' global pointers, so that the mixer does not wait   *)
(* in them, and then waits for the mutex.                                  *)
(***************************************************************************)
StopsMidiToo(reached) ==                        \* mutant
    [q \in Queues |-> IF q \in reached \cup {"midi"} THEN Stop(queue[q]) ELSE queue[q]]

NotifyLockMixer(reached) ==
    [q \in Queues |-> IF q \in reached THEN Stop(queue[q]) ELSE queue[q]]

NotifyUnlockMixer(reached) ==
    [q \in Queues |-> IF q \in reached THEN Start(queue[q]) ELSE queue[q]]

\* The pointers are unique_ptrs, which are null already when the destructor of
\* what they pointed to runs.  Most devices take the lock before they reset
\* the pointer; the two DACs take it in their destructor.
PointersAtLock(job) ==
    IF job \in Devices /\ Kind[job] = "dac" THEN pointers \ {job} ELSE pointers

MIXER_LockMixerThread(job) ==
    /\ main.pc = "run"
    /\ job \in channels \cup {"hold"} /\ (job = "hold" => ~main.quitting)
    /\ pointers' = PointersAtLock(job)
    /\ queue' = NotifyLockMixer(pointers')
    /\ main' = [main EXCEPT !.pc = "lock", !.job = job]
    /\ UNCHANGED <<mixer, renderer, sdl, holder, work_fifo, channels, is_enabled,
                   woken, settings>>

NeverLocked ==                                  \* mutant: holder ignored
    /\ main.pc = "lock"
    /\ main' = [main EXCEPT !.pc = "locked"]
    /\ UNCHANGED <<mixer, renderer, sdl, holder, queue, work_fifo, registry, settings>>

LockAcquired ==
    /\ main.pc = "lock" /\ holder = "none"
    /\ holder' = "main"
    /\ main' = [main EXCEPT !.pc = "locked"]
    /\ UNCHANGED <<mixer, renderer, sdl, queue, work_fifo, registry, settings>>

\* A device is destroyed: its channel is disabled and deregistered, for which
\* the mixer is locked and unlocked once more: the queues of the other devices
\* run again.  ReelMagic's queue is no part of an object that is destroyed.
DestroyDevice(d) ==
    /\ main.pc = "locked" /\ main.job = d
    /\ is_enabled' = is_enabled \ {d} /\ woken' = woken \ {d}
    /\ channels' = channels \ {d}
    /\ pointers' = IF Kind[d] = "reelmagic" THEN pointers ELSE pointers \ {d}
    /\ queue' = NotifyUnlockMixer(pointers')
    /\ main' = [main EXCEPT !.pc = "unlock"]
    /\ UNCHANGED <<mixer, renderer, sdl, holder, work_fifo, settings>>

\* The destructor of the MIDI synthesizer stops both its queues ...
StopMidi ==
    /\ main.pc = "locked" /\ main.job = "midi"
    /\ is_enabled' = is_enabled \ {"midi"}
    /\ work_fifo' = [work_fifo EXCEPT !.is_running = FALSE]
    /\ queue' = [queue EXCEPT !["midi"] = Stop(@)]
    /\ main' = [main EXCEPT !.pc = "join"]
    /\ UNCHANGED <<mixer, renderer, sdl, holder, pointers, channels, woken, settings>>

\* ... and waits for the renderer before it deregisters the channel.
JoinRenderer ==
    /\ main.pc = "join" /\ renderer.pc = "ended"
    /\ channels' = channels \ {"midi"}
    /\ queue' = NotifyUnlockMixer(pointers)
    /\ main' = [main EXCEPT !.pc = "unlock"]
    /\ UNCHANGED <<mixer, renderer, sdl, holder, work_fifo, pointers, is_enabled,
                   woken, settings>>

EndHold ==
    /\ main.pc = "locked" /\ main.job = "hold"
    /\ main' = [main EXCEPT !.pc = "unlock"]
    /\ UNCHANGED <<mixer, renderer, sdl, holder, queue, work_fifo, registry, settings>>

MIXER_UnlockMixerThread ==
    /\ main.pc = "unlock"
    /\ queue' = NotifyUnlockMixer(pointers)
    /\ holder' = "none"
    /\ main' = [main EXCEPT !.pc = "run", !.job = "none"]
    /\ UNCHANGED <<mixer, renderer, sdl, work_fifo, registry, settings>>

\* MIXER_CloseAudioDevice, when DOSBOX_DestroyModules has destroyed the devices
\* and the MIDI synthesizer
CloseAudioDevice ==
    /\ main.pc = "run" /\ main.quitting /\ channels = {}
    /\ thread_should_quit' = TRUE
    /\ queue' = [queue EXCEPT !["final_output"] = Stop(@)]
    /\ main' = [main EXCEPT !.pc = "close"]
    /\ UNCHANGED <<mixer, renderer, sdl, holder, work_fifo, registry, state,
                   capturing, sent>>

\* The mixer thread is joined and SDL waits for its callback.
AudioDeviceClosed ==
    /\ main.pc = "close" /\ mixer.pc = "ended" /\ sdl = 0
    /\ main' = [main EXCEPT !.pc = "gone"]
    /\ UNCHANGED <<mixer, renderer, sdl, holder, queue, work_fifo, registry, settings>>

-----------------------------------------------------------------------------
MixerNext ==
    \/ MixerLoop \/ MakeRoomForCapture \/ CaptureBlock \/ MixerUnlock \/ EnqueueOutput
    \/ \E c \in Channels : NextChannel(c) \/ PullFromQueue(c) \/ ChannelMixed(c)

RendererNext == Render \/ EnqueueRendered

\* What the main thread does next when it is inside one of its operations.
MainGoesOn ==
    \/ CaptureDequeue \/ EnqueueWork \/ LockAcquired
    \/ (\E d \in Devices : DestroyDevice(d))
    \/ StopMidi \/ JoinRenderer \/ EndHold \/ MIXER_UnlockMixerThread
    \/ AudioDeviceClosed

\* What it does next once it shuts down.
ShutsDown ==
    main.quitting /\ ((\E c \in Channels : MIXER_LockMixerThread(c)) \/ CloseAudioDevice)

Guest ==
    \/ Tick \/ SendMidiMessage \/ ToggleMute \/ RequestExit
    \/ (\E d \in Devices :
          WakeUp(d) \/ GusReset(d) \/ ActivatePlayer(d) \/ DeactivatePlayer(d))
    \/ (\E j \in Channels \cup {"hold"} : ~main.quitting /\ MIXER_LockMixerThread(j))

Next == MixerNext \/ RendererNext \/ SdlCallback \/ SdlDequeue \/ MainGoesOn \/ ShutsDown \/ Guest

\* The threads are scheduled by the host, SDL's callback included.  The emulator
\* comes back to its ticks whatever the guest and the user do in between, and
\* gets the mutex or the captured frames because the mixer waits in every pass,
\* for the sound card or in a nap, for longer than it takes to wake up.
Fairness ==
    /\ WF_vars(MixerNext) /\ WF_vars(RendererNext)
    /\ WF_vars(SdlCallback) /\ WF_vars(SdlDequeue)
    /\ SF_vars(MainGoesOn) /\ WF_vars(ShutsDown) /\ SF_vars(Tick)

Spec == Init /\ [][Next]_vars /\ Fairness

-----------------------------------------------------------------------------
\* The mixer only touches a channel that is registered, whose device therefore
\* exists, and the renderer has ended when its synthesizer is freed.  What
\* destructors do relies on the mixer's mutex for this.
NoUseAfterFree ==
    /\ mixer.now # "none" => mixer.now \in channels
    /\ mixer.left \subseteq channels
    /\ "midi" \notin channels => renderer.pc = "ended"

\* MixerCallback of a MIDI synthesizer gets a whole block, or nothing from a
\* queue that is stopped: the assertions in it.
MidiBlockWhole ==
    (mixer.now = "midi" /\ Drained(queue["midi"])) => mixer.want \in {0, Block}

\* The mixer waits for audio that only the main thread makes.
MixerWaitsFor(d) ==
    mixer.now = d /\ mixer.want > 0 /\ queue[d].size = 0 /\ queue[d].is_running

\* MIXER_LockMixerThread does not stop the queue of a DAC that is being destroyed,
\* whose pointer is null already, and the mixer waits in that queue.
DacDeadlock ==
    main.pc = "lock" /\ \E d \in Devices : Kind[d] = "dac" /\ main.job = d /\ MixerWaitsFor(d)

\* The work queue is full, so the main thread waits for the renderer in
\* SendMidiMessage; the renderer waits for room in the queue of frames, that is
\* for the mixer; and the mixer waits for a device of the main thread.
MidiDeadlock ==
    /\ main.pc = "send" /\ work_fifo.items = MaxMidiWorkFifoSize
    /\ renderer.pc = "enqueue" /\ queue["midi"].size = queue["midi"].capacity
    /\ \E d \in Devices : MixerWaitsFor(d)

\* The main thread always comes back to the emulation, until all is closed: it
\* never waits for ever for the mutex, for room in the work queue, for captured
\* audio or for a thread it joins.  The code has two exceptions: a DAC destroyed
\* while the mixer waits for its audio, and a message sent to a full work queue
\* while the mixer waits for a device's audio.
MainNeverStuck == []<>(main.pc \in {"run", "gone"} \/ DacDeadlock \/ MidiDeadlock)

\* The mixer does not wait for ever in the queue of a channel, so that the other
\* channels are heard.  The exceptions are those two deadlocks, and a GUS that
\* was reset: nothing feeds its queue until the guest plays again.
QueueWaitsEnd ==
    []<>(mixer.now \notin Channels \ ({d \in Devices : Kind[d] = "gus"} \ is_enabled)
         \/ DacDeadlock \/ MidiDeadlock)
=============================================================================
