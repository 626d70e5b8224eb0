# A TLA+ verification project for dosbox-automation

dosbox-automation is a fork of DOSBox Staging that can be driven from outside: by an
HTTP API, by Lua scripts and by recorded input. What is difficult about it is not the
emulation of single devices, most of which is inherited and sequential, but the places
where the outside meets the machine: threads of the web server against the emulation
thread, several sources of keys against one small buffer, timeouts against late
answers, three devices that call each other back in the middle of their operations, and
the threads that save images and make sound, each of which waits for others.
This project models those places, checks them with TLC and proves the central
properties with TLAPS.

Paths are relative to the repository; `input.cpp` is `src/webserver/input.cpp`, and so
on. `PROJECT.json` has, for every definition, the source lines it models.

## 1. The system

### Threads

| Thread | Runs | Meets the others in |
|---|---|---|
| emulation thread | `normal_loop` (dosbox.cpp): PIC queue, CPU, ticks, frame ends, the bridge's drain, Lua, replay | bridge mutex, `rec_mutex`, freeze registry mutex, frame tap |
| web server threads | one HTTP handler each | the same |
| present thread | `GFX_CaptureRenderedImage`, `RenderedFrameTap::Deliver` | frame tap mutex |
| image savers (3) | `ImageSaver::SaveQueuedImages` | a queue each, the capture index |
| mixer thread | `mixer_thread_loop` (audio/mixer.cpp) | `mixer.mutex`, the queues of the devices, `final_output`, `capture_queue` |
| MIDI renderer | `Render` of the internal synthesizers (midi/fluidsynth.cpp, mt32.cpp, soundcanvas.cpp) | work queue, queue of audio frames |
| SDL's audio thread | `mixer_callback` | `final_output` |

### Components, their state and operations

| Component | State | Operations | Interacts with | Correct when |
|---|---|---|---|---|
| Bridge (bridge.cpp) | queue of raw pointers to commands on handler stacks, mutex, condition variable, `done` flags | ExecuteCommand with timeout, ProcessRequests | every endpoint that touches the machine | no pointer dangles; "ok" and "timeout" tell the truth; every call ends |
| Keyboard (keyboard.cpp) | buffer of 8 scancodes, overflow latch, repeat key, scanning flag, pending command | AddKey, typematic tick, commands, ClrBuffer | 8042 (both directions) | no key lost for ever, none repeats after its release |
| 8042 controller (intel8042.cpp) | 64-byte buffer, output port, waiting counters, port enables, dump flag, pending command, delay timer | reads and writes of ports 0x60/0x64, AddKbdFrame, AddAuxFrame | keyboard, PS/2 mouse, guest | counters agree with the bytes; a freed controller tells the device |
| PS/2 mouse (mouseif_ps2_bios.cpp) | movement pending, delay | transfer of frames, answers | 8042 | (its traffic only) |
| Lua scripts (lua_bridge_commands.cpp, lua_coroutine.cpp, lua_engine.cpp, lua_api.cpp) | Lua state, coroutine pointer, script state, wait flags and deadlines, keys to type | load, start, stop, per-frame dispatch, reaper, waiting calls | bridge, keyboard, frame counter, wall clock | no resume into a closed Lua state; each wait ends by its own condition |
| Input replay and paced typing (input.cpp) | two queues of events, a chain of timer events, frame base | post sequence, type, timer handler, frame dispatch | PIC queue, keyboard, frames | one chain; no event early; no key overflows the buffer; replays end |
| Input recording (input.cpp) | active and paused flags, buffer, start | start, pause, stop, status, hooks | bridge, input hooks, rate command | an event is returned once; times never go back; no command changes the CPU's rate meanwhile |
| Rendered frame tap (frame_tap.cpp, video.cpp) | requested flag, frame, two mutexes | request and wait, deliver | present thread | every copy of a frame has one owner; requests end |
| Memory freezes (freeze.cpp) | list of address, value, width | post, delete, clear, apply at frame end | guest memory | the guest finds the frozen values after a frame |
| Timer event queue (pic.cpp, pic.h) | pool of entries in two lists, cycle counters, ticks | add, remove, run queue, tick | all devices, the CPU | no entry lost; order by time and insertion; CPU slices end at events |
| Work queue (rwqueue.cpp) | items, capacity, running flag, two condition variables | enqueue, dequeue, in bulk or not, blocking or not, start, stop, clear | image savers, mixer, devices, MIDI | a stopped queue gives what it holds and lets everybody go |
| Image capture (image_capturer.cpp, image_saver.cpp, capture.cpp) | four request states, round-robin index, a queue and a thread per saver | requests, end of a frame, present, save, close | frame end, present, disk | every image has one owner and is freed; every request ends and is served; closing ends |
| Video, audio and MIDI capture (capture.cpp, capture_video.cpp, capture_audio.cpp, capture_midi.cpp, webserver/capture.cpp) | three states, file handles, write error, reason of the end, compression levels, last frame written | start, stop, add frame, audio or MIDI data, change of settings | frames, presents, mixer, bridge, disk | no file behind a capture that is off; the reported reason is true; the recording keeps the emulation's time |
| Audio mixer and devices (mixer.cpp, gus.cpp, tandy_sound.cpp, ps1audio.cpp, reelmagic/player.cpp, fluidsynth.cpp) | channels, their queues, mutex, mixer state, MIDI work queue | a pass of the mixer, a tick, sleep and wake up, mute, MIDI message, lock, destroy, close | every device that sounds, SDL, audio capture | nothing is used after it is freed; nobody waits for ever |

The end of a frame (`GFX_EndUpdate`, sdl_gui.cpp 1258-1260) calls the frame replay, the
freezes and the Lua dispatcher in this order, so that replay and script compete for the
same keyboard slots. `KEYBOARD_AddKey` is where all keys end: those of the host, of
replays, of paced typing and of scripts.

### What is hard here

* **Timeouts against late answers**: the bridge's `wait_for` and the tap's `wait_for` may
  end in the very moment the answer comes.
* **Check and act in different critical sections**: the endpoints of the recording; the
  rate command.
* **Reentrant callbacks**: reading port 0x60 notifies the keyboard, which adds a frame,
  which may flush the buffer, which notifies the mouse.
* **Small shared buffers**: eight scancodes with an overflow latch, filled by up to four
  sources.
* **Everyone waiting on everyone**: the mixer waits for devices of the main thread while it
  holds the mutex the main thread wants; the MIDI renderer waits for the mixer; the main
  thread waits for room in the MIDI queue and for the savers.
* **Files that fail half way**: a write that fails in the middle of the duplicates of one
  frame; errors that only show when the file is closed.
* **Independent sources of progress**: frames, timer events, wall-clock ceilings and the
  guest's own reads; each may stall.

`PROJECT.json` lists the hazards at their lines, with the properties that cover them.

## 2. The modules

| Module | Models | Proofs |
|---|---|---|
| `CommandService` | what the bridge promises, without threads | - |
| `Bridge` | bridge.cpp, bridge.h | `BridgeProofs` |
| `KeyboardController` | keyboard.cpp, intel8042.cpp, the frame hand-over of mouseif_ps2_bios.cpp | `KeyboardControllerProofs` |
| `LuaScript` | the life of a script | `LuaScriptProofs` |
| `InputReplay` | sequences, typing and frame replay of input.cpp | `InputRecordingProofs` |
| `InputRecording` | recording in input.cpp and the rate command of cpu.cpp | `InputRecordingProofs` |
| `FrameTap` | frame_tap.cpp, the frame handler of video.cpp | `FrameTapProofs` |
| `FreezeRegistry` | freeze.cpp | `FrameTapProofs` |
| `PicQueue` | the event queue of pic.cpp, the slices of normal_loop | `PicQueueProofs` |
| `RWQueue` | rwqueue.cpp, as operators on a queue; `ImageCapture` and `AudioMixer` extend it | - |
| `ImageCapture` | screenshots: capturer, saver threads, requests | `StreamCaptureProofs` |
| `StreamCapture` | video, audio and MIDI recordings, the capture commands of the web server | `StreamCaptureProofs` |
| `AudioMixer` | mixer thread, MIDI renderer, SDL's callback, the devices' queues | `AudioMixerProofs` |

Each `MC*` module gives the constants values for TLC, where a `.cfg` cannot.
Definitions marked `mutant` are the changed forms of the definition that follows, used
to show that a property notices the change; no specification uses them.

### Bridge

A command object lives on the stack of the handler thread that waits for it and is named
by that thread. `pc[h]` follows ExecuteCommand: constructed, waiting on the condition
variable, awake by notification (or spuriously), awake by the timeout, returned, thrown.
Handler sections under the mutex are single steps; the drain also holds the mutex but is
one step per executed command, so that timeouts happen in the middle of it. `runs` is a
ghost that counts executions. `Pending` and `Status` map the state to `CommandService`.

### KeyboardController

Everything runs on one thread, but the operations are reentrant. An operation is
therefore a function on the record `hw` of the hardware, composed in the order of the
calls in the code, and a step of the model is one operation. The mutual recursion of
flush, notification and frame push ends because a frame always fits after a flush; the
model states that bound as `BufferAssumption`: the longest scancode and answer of the
keyboard, the longest answer of the mouse (a polled frame behind its acknowledgement) and
the longest answer of the controller find room together (in the code 64 bytes of buffer;
scancodes of at most 8 bytes, answers of 3, 5 and 28). That longest answer is the copyright
string of command 0xa0, which unlike a dump does not keep the devices from sending, and for
which intel8042.cpp asserts sixteen bytes of room (1132). A command for the mouse is answered
by 0 to 5 bytes. Bytes are abstracted to their origin and to whether they skip the delay,
scancodes to their length, commands to groups with the same effect. The guest's repertoire is
a parameter, and `StrayBytes` says whether the guest also writes data bytes that no keyboard
command waits for. That guard is an assumption about the guest and not in the code; section
5 says what happens without it.

### LuaScript

State is that of `ScriptManager`, `LuaEngine` and `LuaCoroutine`. `exec` is true while
the script executes inside `lua_resume`; nothing interleaves then. A script is free to
make any sequence of the calls that yield or type. Its wall-clock ceilings pass at any
time (`TextCeiling`, `TypeCeiling`), the reaper runs between frames.

### InputReplay

Requests are sequences of events in the form the JSON body has them (absolute time,
delay, or no timing, and an optional frame); `Parse`, `Normalized` and `Expand` are the
conversions of the code. A timer event is the time left to it. The keyboard is
abstracted to used slots, latch, readiness of the controller and scanning. Ghosts keep
the age of the chain, the distance to its last event and what was asked for. Ages are
counted up to `MaxAge`; the module assumes that no request for the timers asks for more.

### InputRecording, FrameTap, FreezeRegistry

Every critical section is a step, every handler a sequence of steps. In the recording
`emu = "setrate"` is the point in the rate command between its check and its effect;
`CycleHotkey` are the hotkeys of cpu/cpu.cpp that change the rate as well. In
the tap a frame is a number and `owned`, `live` and `lost` follow its copies. In the
freezes the copy taken at the end of the frame is applied byte by byte, as
`MEM_BlockWrite` does (memory.cpp 206-210), while clients change the registry: each byte
goes through the guest's paging (`map`, which the guest changes between frames) and the
handler of the physical page, which may ignore it (ROM, no memory). A write to an absent
page runs the guest's page fault handler inside the call (`PageFault`), after which memory and
mapping may be anything.

### PicQueue

The two linked lists are sequences of entries. Times are in parts of a cycle, since the
code's doubles fall between cycles. `mode` is the place in `normal_loop` and
`PIC_RunQueue`; devices add and remove events in handlers, while the CPU executes and
between runs.

### RWQueue, ImageCapture

A method of `RWQueue` waits, acts under the queue's mutex and notifies after it has
unlocked it. In `ImageCapture` these are separate steps (`QueueImage` and `ImageQueued`,
`TakeImage` and `ImageTaken`, `StopSaver` and `NotifyStopped`), a thread that waits is in
pc "waiting" until somebody notifies it or it wakes up spuriously, so that a lost wakeup
would show. An image is the number of its heap buffer; `live` is a ghost, and so are `owed`,
the formats each request still waits for, and `lost`, the requests that lost one. The main thread
is either between two slices of the emulation ("idle") or inside one of the calls; in
host-rate mode presents come at any time in between.

### StreamCapture

All of it runs on the main thread; what is nondeterministic is the disk. An operation on
the AVI file is an operator from the writer's record to the set of records it may leave,
composed in the order of the calls: `AddFrame` finalises a file of another format, creates
one, writes the frame, stops. Ghosts record whether bytes of the capture are lost, whether
the disk was low, whether another file followed a loss, and how many frames a recording in
rendered mode has. The count of emulated frames starts at 0, as in sdl_gui.cpp 1189, where it
meets the 0 that stands for "no frame yet" in capture.cpp 418.

### AudioMixer

A pass of the mixer's loop is a step per channel and per pass of a bulk operation: what
interleaves with it is the main thread, in ticks (all devices add a frame to their queue),
in messages, mutes and resets, and in what needs the mutex. `main.job` is what the main
thread locks the mixer for. `pointers` are the devices' global pointers through which
`MIXER_LockMixerThread` reaches the queues; when a pointer becomes null relative to the
lock differs between devices, which is what `PointersAtLock` is about. Queues record
sizes; one unit is what a device makes in a tick. Waits are guards here, since every
waiter's condition is rechecked under the queue's mutex and each operation notifies. `woken`
are the channels that were woken since the mixer last mixed them: the sleeper keeps a channel
awake for at least 100 ms (`MinWaitMs`), a block takes a few.
Not modelled: fast-forward mode, resampling, devices that render on the mixer thread (they
never wait).

## 3. What TLC checks

All runs check deadlock but `audio_mixer`, where all threads end.

| Run | Configuration | Checks | States |
|---|---|---|---|
| `bridge` | 3 handler threads | no dangling command, answers are true, refinement of `CommandService`, every call is answered | 4,778 |
| `keyboard_guest` | 2 keys (1- and 2-byte), all keyboard commands, port disabling and dumps, 2-slot keyboard buffer | no stranded byte, a free controller serves the keyboard, no ghost repeat, overflow ends | 22,248 |
| `controller_guest` | 1 key, mouse answers of 0 to 5 bytes, all controller commands but the unimplemented RAM reads, a dump that all but fills the buffer | exact counters | 90,144 |
| `lua_script` | 2 scripts, waits of 0 and 2 frames, 4 slots, 4 frames | no resume of a dead thread, polled for the right call, calls honoured, type() never overflows, stalled waits end | 260,721 |
| `input_replay` | a timed sequence with all timing forms, two recorded ones with frames, one of which begins at frame 0 and time 0, a shifted character; 2 slots, 3 keys of the host | timing honoured, frames kept, keys enter the buffer, replays end | 75,461 |
| `input_recording` | 2 clients, 4 events, 3 time units, 2 rates, commands and hotkeys that set them | times ordered, events once, rate kept unless by hotkey | 512,680 |
| `frame_tap` | 3 clients, 4 copies | one owner, requests end | 3,142 |
| `freezes` | overlapping entries of all widths, one at the last address, over pages that are mapped, aliased, absent or read-only | frozen values hold | 1,330,760 |
| `pic_queue` | pool of 3 entries, 2 handlers, 3 ticks | entries conserved, order, removals exact, slices end at events, events fire on time | 671,895 |
| `image_capture` | 2 savers with queues of 1, 3 requests or changes, both presentation modes, two sets of formats | every image owned once and freed, screenshots end and are served, closing ends | 273,756 |
| `stream_capture` | 2 formats, 2 levels, 4 frames, padding of 2 | files match states, the end's reason is true, in sync with the emulation | 520,896 |
| `audio_mixer` | each kind of device alone with all that follows the mixer, and pairs of them without sound card; block of 2, 2 MIDI messages for a work queue of 1 | nothing used after free, whole MIDI blocks, the main thread is never stuck, waits in queues end | 627,273 |

The type invariants of the modules that have proofs are proved (section 4) and not run.

### Bounds and why they are enough

* *Bridge*: two threads suffice for every pairwise race; the third queues behind a drain
  while another is withdrawn. There is no bound on time or on calls.
* *Keyboard*: the buffers are 10 or 11 bytes and 2 or 1 scancodes instead of 64 and 8. What
  matters is that each can be full, be emptied by a flush and be overtaken by the other
  device; the frames and the copyright string are as long as `BufferAssumption` allows, and
  the controller's dump leaves one byte free (63 of 64 in the code). Runs are unbounded in
  length.
* *Lua*: four frames are enough for a wait of two frames to be set, missed, reached and
  followed by another. Four slots are what one shifted stroke needs: the tightest case.
* *Replay*: two slots are the code's own threshold (`free < 2`), the tightest case, and
  a frame cap of 2 instead of 500 makes a burst span frames. Ages saturate at `MaxAge`.
* *Recording*: four events and three time units allow two recordings with a pause, a
  start that overtakes another and a stop between check and act. The theorems need no
  bound.
* *Frame tap*: one client waits, one has just given up, one encodes; the theorems need no
  bound.
* *Freezes*: a byte has two values, the address space 16 addresses and a page two, so that
  wrap, overlap, truncation and values across two pages all happen. The mappings are the
  identity, two linear pages on one physical page, and a page moved and one absent.
* *PIC*: three entries, so that the pool runs dry while one is being served; delays of 0
  (same time), 1 (between cycles) and 5 (beyond the tick).
* *Images*: two savers and queues of one image, so that the main thread waits for room
  while the other saver is idle; three requests fill a queue and leave one pending when
  the setting changes or the capturer is closed.
* *Streams*: a padding limit of 2 and 4 frames make gaps below and above the limit, and
  leave room for a second recording after a first. Frames are no longer counted once a
  recording is uneven, where the property says nothing of them.
* *Mixer*: a block of two ticks, so that the mixer finds part of a block; the capture queue
  overflows with the second block. The second MIDI message finds the work queue full and the
  main thread waits for the renderer. Devices of different kinds meet pairwise. The theorems
  need no bound.

Entries of the pool and clients of the recording are interchangeable and used with
symmetry, in runs without liveness properties only.

### Fairness

* Bridge: `wait_for` has a fixed deadline, so a wait expires although it may be left and
  reentered (strong fairness); mutexes are obtained in the end; a drain that was begun
  goes on. Nothing makes the emulation thread drain, because the machine may be paused.
* Keyboard: the delay timer is an event of the machine and fires; a live guest reads what
  the port offers. The guest's commands are not fair.
* Lua: time passes and the machine loop calls the reaper. Frames are not fair, nor is the
  guest's use of the keyboard.
* Replay: the timer queue and frames go on and the guest reads the keyboard. New requests
  are not fair.
* Frame tap: the timeout elapses and a thread that is ready runs. Presenting is not fair.
* Images: threads run, frames keep ending, and drawing is active again and again (strong
  fairness of `RENDER_EndUpdate` and of a present that draws, since hotkeys and settings
  may come in between). Requests, failures and closing are not fair.
* Mixer: the host schedules the mixer, the renderer and SDL's callback (weak fairness). The
  emulator comes back to its ticks whatever the guest does (strong fairness of `Tick`), and
  gets the mutex or captured frames since the mixer leaves the mutex free in every pass for
  as long as it waits for the sound card or naps (strong fairness of `MainGoesOn`). The
  guest's accesses, resets, mutes and locks are not fair; a shutdown that was begun goes on.

## 4. What is proved

TLAPS proves these for every value of the constants (any number of threads, clients,
events, frames and texts).

Three of the proof modules are about two components and extend both: `FrameTapProofs` also
`FreezeRegistry`, `StreamCaptureProofs` also `ImageCapture`, `InputRecordingProofs` also
`InputReplay`. The second component's specification therefore has a name of its own
(`FreezeSpec`, `ImageSpec`, `ReplaySpec`).

**Bridge** (`TypeCorrect`, `NeverDangling`, `AnswersTrue`). `NoDanglingCommand` is not
inductive: the erase of a timed out command removes every pointer to it only because no
command is queued twice, and "timeout" is the truth only because `done`, the number of
executions and the drain's progress agree. The inductive invariant `IInv` adds
`QueuedOnce`, `DoneIsDrained`, `UndoneIsQueued` and `DoneCountsRuns`. Two lemmas say what
erasing an element of a duplicate-free sequence does.

**Bridge implements CommandService** (`BridgeImplementsService`, in the same module).
Step by step: entering the queue is Submit, one round of the drain is Perform, leaving
the wait is AnswerOk or AnswerTimeout, destruction is Forget, everything else stutters.
`IInv` provides that the head of `Pending` has not been executed and that an expired
call that is not done is still queued.

**KeyboardController** (`NothingStranded`, `NoKeyRepeatsAlone`, `CountersAlwaysExact`,
`KeyboardAlwaysServed`). An operation is a composition of smaller ones, so the proof
follows the composition and not the actions:

* `Kept(s, t)` says that t is well typed, strands no byte if s does not, and has the
  repeated key of s. Every operator of the controller and of the frame hand-over has a
  lemma that it gives `Kept`; the loops over bytes have one lemma each (`PutAllLeads`,
  `AddAllLeads`). `KbdInv` adds that there is no repeated key while the keyboard does not
  scan, which is why a release dropped then cannot leave one behind.
* `Grown(s, t, x, n)` says that n bytes of origin x came behind those of s, and counted.
  `Within` says that the counters agree with the bytes held and are bounded, except for
  the one byte a read of port 0x60 has in hand, which is either still counted or not any
  more. The bounds are what makes it inductive: they show that no frame pushed from within
  a read ever flushes, since such a flush would empty the port under the read.
  `Bounded` is `Within` with the bounds that hold between operations (an answer of
  the mouse, the copyright string or a dump of the controller, and the rest for the keyboard).
* `Served` says that a keyboard that may send (`is_ready_for_kbd_frame`) holds nothing back
  and drops nothing; `DumpLeft` that something of a dump is left to read as long as its flag is set,
  and that no command of the controller waits for a parameter then, because
  `write_data_port` would empty the buffer and leave the flag.
* The last two theorems assume `"ReadRam" \notin GuestCommands`, and the last one
  `~StrayBytes`; section 5 says what happens otherwise.

**LuaScript** (`NeverDeadThread`, `PolledRightly`, `CallsReturnForTheirReason`,
`ScriptTyped`, `TypingNeverOverflows`). The first needs that an executing script is in state
"running", which keeps the load command off. The second needs that a running script waits
for nothing, and the third, about steps, also that it is in no call (`ResumeInv`): then the
handler that resumes a script is the one of its own call. Both assume `~Nested`, see
section 5. The last says for a buffer of any size and any texts what
`DrainPendingKeys` is careful about: `KeysAdded` that scancodes that fit overflow
nothing, `KeysDrained` that the loop only adds such ones. It needs the type invariant, which
keeps the strokes that wait within the size of the buffer.

**InputRecording** (`RecordingTyped`, `RecordingsReplayable`, `EventsReturnedOnce`,
`RateAlwaysKept`). The invariant `RecInv` adds that the clock is not behind the start,
that the buffer is empty once a recording ended, that no recording is active between the
check and the effect of the rate command (which is why only a hotkey can change the rate
under one), and that identifiers in what was returned and
in the buffer are distinct and not in the future.

**InputReplay** (`ReplayTyped`, `TimingAlwaysHonoured`, `KeysAlwaysEnter`,
`FramesAlwaysKept`). `TimingHonoured` speaks of the events of the last step only. The
invariant `ReplayInv` says why the next one will be on time: the chain has one timer exactly
while events are pending (`ChainGood`), and the time left to it, added to the age of the
chain, reaches the time of the first pending event, and added to the age of the last event,
its delay (`OnTime`). A retry adds a millisecond to both, which is why keys held back never
make a later event early. That the delay of an event is the difference of two times of the
timeline is `Chained`, which `ParsedIs` and `ExpandedIs` establish for every request and text.

`KeysEnter` is about the steps that send events: for a timer, `KeyEnters` says that a key
that finds two free slots overflows nothing; for a frame, `Rounds` says it of the whole loop
of `ReplayDispatchFrame`, by induction over its rounds. `FramesAlwaysKept` needs a second
invariant, `FrameInv`, that every queued event has kept its distance from the event that the
code counts from: the first one, or, if that is at frame 0 and time 0, the one after it
(section 5).

**FrameTap** (`TapTyped`, `CopiesOwnedOnce`, `AskedOnlyWhileWaiting`). The invariant
`TapInv` adds what the locks give: the handler that waits is the holder of
`request_serializer`, the flag is up exactly then, the tap has a frame only then; and
that the number of a new copy is fresh.

**FreezeRegistry** (`FreezesAlwaysHold`, `AddressFrozenOnce`). `FrozenHolds` speaks of the
moment when `ApplyFreezes` returns; `Written` says it of the bytes applied so far, where
the last one written to a physical address decides. A byte keeps it because it changes one
address and no other (`ByteOf` and the lemmas on it are the arithmetic of bytes
and widths), because the mapping does not change during the call unless a page fault is
served, and because the copy is not the registry, which clients go on changing. The
second theorem is about the registry alone: a POST for an address that is frozen changes
its entry.

**ImageCapture** (`ImagesAlwaysOwned`, `CapturerTyped`). The invariant `ImageInv` adds to the
ownership of images that the main thread holds one exactly while it is to queue it
(`MainGood`), that a saver that saves has one, one that waits has none, and one that ended
has left its queue empty (`SaversGood`), and that the queues run until the capturer is
closed, which ends the savers one after the other (`ClosedInOrder`). `ImagesOwned` states
the ownership by thread and place: a live image is in exactly one.

**AudioMixer** (`NeverFreedUnderUse`, `MidiBlocksWhole`). That the mixer is in a registered
channel is not inductive: a channel is deregistered without looking at the mixer. The
invariant `MixInv` adds who holds the mutex where (the mixer exactly while it is among the
channels or at their output, the main thread while it changes them), that the mixer has no
channel in hand elsewhere, and that a stopped MIDI queue belongs to a synthesizer that is
being destroyed or is gone; the second theorem follows since the queue cannot be stopped
while the mixer is in it.

**PicQueue** (`QueueTyped`, `EntriesAlwaysConserved`, `QueueAlwaysInOrder`,
`QueueAlwaysArmed`, `SlicesEndAtEvents`, `EventsFireOnTime`). The invariant `QueueInv`
says that the queue, the free list and the entry being served partition the pool, that
the clock (cycles left, cycles to go, ticks) is within its tick, that the index of an
event is its due time seen from the start of the tick and nothing queued was due before
the event that fired last, that the queue is ordered by time and then by insertion, that
for every handler and value as many entries are queued as were added and not yet served or
removed, and that a slice ends at the first event. `InsertProps` says what the search for the place
of a new entry yields; `VisitedProps` and `WalkedProps` what the two loops that unlink
entries leave behind, by the pointers they really move; `Multiples` and `Quotient` are
about the division of times into ticks. The last theorem is about steps: an event fires
no sooner than it is due and never before one that was due earlier.

**StreamCapture** (`StreamsTyped`, `FilesAlwaysMatch`, `ReasonsAlwaysTrue`,
`RecordingsInSync`). The invariant `StreamInv` adds to the three properties that an
open file has the level that is set and neither a reason to end nor an error behind it but
a forgotten one, that low space ends the capture that finds it,
and that a recording that waits for its first frame has none; `Closable` says what may be
closed in the middle of an operation, where that does not hold. The frames that pad a gap are a loop
whose body may fail; `TurnsGood` proves what any number of its turns leaves.

Loops are recursive functions in these modules, and what they compute is proved by
induction. The library's induction theorems take an operator, which the provers cannot
instantiate; `LeastNat`, `IntervalInduction` and `IterationExists` state the same with
sets: a set of numbers up to n that has 0 and each successor is the whole interval, and an
iteration of functions exists. They follow from the well-foundedness of the natural
numbers.

The assumptions used are the named `ASSUME`s on the constants: they only give types,
exclude the constants for "nobody" and "no script", in `BufferAssumption` state the
sizes that make the code's recursion end and what intel8042.cpp asserts of the dump, and in
`ReplayAssumption` and `ImageCaptureAssumption` that the bounds of the model (`MaxAge`, the
number of `Buffers`) are wide enough not to be met.

### Only model-checked

* The liveness properties, since fairness is out of the prover's reach.
* Every invariant and action property of the runs is proved. What the theorems exclude by
  hypothesis (`ReadRam`, `StrayBytes`, `Nested`) is what section 5 describes.

## 5. Disagreements met while modelling

Statements of the repository that the code does not satisfy. Where one touches a property
above, the property names it as an exception in its comment, or a constant excludes it, so
that the runs show that nothing else goes wrong; without the exception, or with the other
value of the constant, TLC shows the case.

Sound:

* **A DAC destroyed while it plays** (`DacDeadlock`): `tandy_dac.reset()`
  (tandy_sound.cpp 634, 752) and `ps1_dac.reset()` (ps1audio.cpp 618) make the pointer
  null before the destructor runs, so `MIXER_LockMixerThread` in the destructor does not
  stop the DAC's own queue. If the mixer is waiting in it, it holds the mutex, and the main
  thread, which would feed the queue, waits for the mutex for ever. The comment at
  mixer.cpp 272-275 says that the queues are stopped "to avoid a deadlock". The other
  devices take the lock before they reset the pointer.
* **A GUS that was reset** (the exception in `QueueWaitsEnd`): `Gus::Reset` (gus.cpp 1083)
  disables the channel and with it what feeds the queue, while the mixer may be waiting
  there; all sound stops until the guest plays or something locks the mixer. mixer.cpp
  2623-2626 says that "we can always request at least a blocksize worth of audio".
* **Three threads waiting for each other** (`MidiDeadlock`): the
  main thread waits for room in the MIDI work queue, the renderer for room in the queue of
  audio frames, the mixer for audio of the main thread. It takes 10,410 messages that the
  renderer has not applied (midi.h 61).
* Muting clears `final_output` between the two calls of SDL's callback, which then blocks,
  and a cleared capture queue makes `capture_callback` wait; the comments at mixer.cpp 2592
  and 2555 say that neither blocks. The waits end (`MainNeverStuck`).

Keyboard, recording and replay:

* `write_data_port` enables the keyboard's port before the flush asks whether it was
  disabled (intel8042.cpp 997-999), so nobody notifies the keyboard; after an overflow its
  latch stays set although the controller is free (`StrayBytes = TRUE` violates
  `OverflowEnds`). keyboard.cpp 179 says "drop everything until the controllers queue gets
  free for the keyboard".
* `PostStart` checks and starts in different critical sections (input.cpp 758): two
  concurrent starts both succeed, the second discards the first one's events. openapi.json
  848 documents 409.
* A first event at frame 0 and time 0 is taken for one without position (input.cpp 305), so
  the second event loses its distance to it: of << frame 0, frame 2, frame 4 >> the first two
  are dispatched at once (the exception in `FramesKept`, a request of the run). The comment at
  input.cpp 297 says that the first event is at frame 0.
* The hotkeys that raise and lower the cycles (cpu/cpu.cpp 2899-3001, registered at 3272-3278)
  change the CPU's rate while a recording runs and ask nobody (the exception in `RateKept`);
  the comment at webserver/cpu.cpp 165 has the command refuse since a rate change "breaks
  replay determinism".

Capture:

* A grouped screenshot with rendered output loses its other formats when a present comes
  before the end of a frame, as it does in host-rate mode: `CapturePostRenderImage` clears
  `state.grouped` (image_capturer.cpp 187) before `MaybeCaptureImage` has seen it (an exception
  in `ScreenshotsEnd`). image_capturer.h 31-36 describes a group as all of its formats.
* The states of grouped and single requests do not exclude each other, as
  image_capturer.h 65-69 says; a rendered image of a single request may then be saved under
  an old path, or under none, and be lost.
* When the format changes in a recording, the reason of the new file overwrites a failure
  to finalise the old one (capture_video.cpp 463), which line 109 wants to be "impossible to
  miss"; a flush that fails after the disk ran low is reported as `disk_space_low` (line 407),
  while capture.h 82-84 and openapi.json 1510 say that `write_error` covers a failed final flush
  and low space means a clean stop. These are the two exceptions in `EndReasonTrue`.
* A rendered recording that starts before the first emulated frame gets a frame from every
  present until then, as its count 0 also means "none yet" (capture.cpp 418; the exception in
  `InSyncWithEmulation`).
* `last_stop_reason` is that of the recording before when one ends without a frame.
* The path given for an audio recording that is cancelled before its first data is used by
  the next one.

Others:

* A stray data byte during a diagnostic dump empties the buffer and leaves
  `is_diagnostic_dump` set (intel8042.cpp 999); both devices wait until the next command
  (`StrayBytes = TRUE` with DiagnosticDump).
* The unimplemented RAM reads answer without a flush (intel8042.cpp 946); a guest that
  issues many of them overflows the buffer and the counters are reset under a byte being
  read (`GuestCommands` with ReadRam).
* A script that calls `wait_for_text` in a coroutine of its own and `type` in its main
  function is polled for the former (lua_coroutine.cpp 261; `Nested = TRUE`).
* `PostPause` answers 200 when the recording ended between its check and the toggle
  (input.cpp 781), and the status is put together from several critical sections
  (input.cpp 815), while openapi.json describes it as atomic.
* A frame is lost when the quality parameter is bad (video.cpp 263; `EncodeThrows`).
* The range check of a freeze wraps in 32 bits (freeze.cpp 103; `InRange`).
* A freeze writes to a linear address (freeze.cpp 81, memory.cpp 206-210), which openapi.json
  2598 calls physical: with paging on, the value follows the guest's mapping of the moment, and
  a write to an absent page runs the guest's page fault handler inside the end of a frame.
* The end of one replay clears the title bar's mark of the other (input.cpp 241).

## 6. What is not modelled

* The CPU cores, FPU, video cards, registers and synthesis of sound devices, DOS and the
  shell: large, mostly sequential, and far beyond TLC; the CPU and the guest appear where they act on the
  modelled parts (cycles, port accesses, memory writes).
* HTTP, JSON, Lua's interpreter, SDL: libraries. A malformed request changes no state.
* Contents of bytes, frames and texts, logging, OSD and title bar.
* The allocator limits, instruction hook and rate limiter of the script engine: a script
  may fail at any call, which covers their effect.
* Rounding of doubles in the event queue.

`PROJECT.json` lists every part with its reason.

## 7. Plan

The order so far was: bridge, keyboard and controller, scripts, replay and recording,
frame tap, freezes, event queue, work queues with image capture, recordings, audio mixer.
Left:

1. Proofs: the order of events that `Normalized` and `Expand` give; that no event of a
   replay is lost or sent twice.
2. The web server's own life cycle: start, shutdown flag, listener thread, token
   (webserver.cpp 271-333, 494-602, 684-796), and what a shutdown does to handlers that
   wait in the bridge.
3. Composition at the end of a frame: replay, freezes and Lua over one keyboard, in place
   of the abstract host keys of `InputReplay` and `LuaScript`.
4. The two 8259 interrupt controllers of pic.cpp; the PS/2 mouse's protocol.
5. Drive swaps and the mount policy (drive.cpp 26-89).
