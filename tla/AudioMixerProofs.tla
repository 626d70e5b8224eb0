-------------------------- MODULE AudioMixerProofs --------------------------
(***************************************************************************)
(* What the mixer's mutex protects, for any devices and any sizes of the   *)
(* queues.  The invariant is strengthened by who holds the mutex where:    *)
(* the mixer exactly while it is among the channels or their output, the   *)
(* main thread while it changes them; and by what a stopped MIDI queue     *)
(* means, a synthesizer that is being destroyed or is gone.                *)
(***************************************************************************)
EXTENDS AudioMixer, TLAPS

Thread(t) == DOMAIN t = {"pc", "want"}
MainThread(t) == DOMAIN t = {"pc", "job", "want", "quitting"}
MixerThread(t) == DOMAIN t = {"pc", "left", "now", "want"}
FrameQueue(q) == DOMAIN q = {"size", "capacity", "is_running"}

\* The records have their fields, and only devices have global pointers.
Shapes ==
    /\ MainThread(main) /\ MixerThread(mixer) /\ Thread(renderer)
    /\ queue = [q \in Queues |-> queue[q]] /\ FrameQueue(queue["midi"])
    /\ pointers \subseteq Devices

MutexHeld ==
    /\ holder = "mixer" <=> mixer.pc \in {"mix", "capture", "unlock"}
    /\ main.pc \in {"locked", "join", "unlock"} => holder = "main"

MixerInside == mixer.pc # "mix" => mixer.now = "none" /\ mixer.left = {}

MidiStoppedByEnd ==
    ~queue["midi"].is_running => main.pc = "join" \/ "midi" \notin channels

MixInv == Shapes /\ MutexHeld /\ MixerInside /\ MidiStoppedByEnd /\ NoUseAfterFree

\* The invariant implies what the assertions in the MIDI callbacks need: while
\* the mixer is in the MIDI queue, nobody stops that queue.
LEMMA InvMidi == MixInv => MidiBlockWhole
BY AudioMixerAssumption
   DEF MixInv, MutexHeld, MixerInside, MidiStoppedByEnd, NoUseAfterFree, MidiBlockWhole, Drained

LEMMA InitMix == Init => MixInv
<1> SUFFICES ASSUME Init PROVE MixInv
    OBVIOUS
<1>1. \A q \in Queues : queue[q] = NewFrameQueue(CapacityOf(q))
    BY DEF Init
<1>2. "midi" \in Queues
    BY DEF Queues, Channels
<1>3. queue["midi"].is_running /\ FrameQueue(queue["midi"])
  <2>1. queue["midi"] = NewFrameQueue(CapacityOf("midi"))
    BY <1>1, <1>2
  <2>2. \A n : NewFrameQueue(n).is_running /\ FrameQueue(NewFrameQueue(n))
    BY DEF NewFrameQueue, FrameQueue
  <2> QED BY <2>1, <2>2
<1>4. queue = [q \in Queues |-> queue[q]] /\ pointers \subseteq Devices
    BY DEF Init
<1>5. MainThread(main) /\ MixerThread(mixer) /\ Thread(renderer)
    BY DEF Init, MainThread, MixerThread, Thread
<1>6. MutexHeld /\ MixerInside /\ NoUseAfterFree
    BY DEF Init, MutexHeld, MixerInside, NoUseAfterFree
<1> QED BY <1>3, <1>4, <1>5, <1>6 DEF MixInv, Shapes, MidiStoppedByEnd

\* A frame queue stays one, and only Stop and Start change whether it runs.
LEMMA QueueOps ==
    ASSUME NEW q, FrameQueue(q), NEW n
    PROVE  /\ FrameQueue(Stop(q))
           /\ FrameQueue(Added(q, n)) /\ Added(q, n).is_running = q.is_running
           /\ FrameQueue(Removed(q, n)) /\ Removed(q, n).is_running = q.is_running
BY DEF FrameQueue, Stop, Added, Removed

\* A step that leaves the MIDI queue alone, or running as it was.
QueueKept ==
    /\ queue' = [q \in Queues |-> queue'[q]] /\ FrameQueue(queue'["midi"])
    /\ queue'["midi"].is_running = queue["midi"].is_running

LEMMA Kept == ASSUME MixInv, UNCHANGED queue PROVE QueueKept
BY DEF MixInv, Shapes, QueueKept

LEMMA KeptElsewhere ==
    ASSUME MixInv, NEW d, NEW x, d # "midi", queue' = [queue EXCEPT ![d] = x]
    PROVE  QueueKept
BY DEF MixInv, Shapes, QueueKept, Queues, Channels

LEMMA KeptReached ==
    ASSUME MixInv, NEW R, R \subseteq Devices,
           queue' = NotifyLockMixer(R) \/ queue' = NotifyUnlockMixer(R)
    PROVE  QueueKept
BY AudioMixerAssumption
   DEF MixInv, Shapes, QueueKept, Queues, Channels, NotifyLockMixer, NotifyUnlockMixer

\* A step that also leaves the channels and the main thread alone keeps what a
\* stopped queue means.
LEMMA Untouched ==
    ASSUME MixInv, QueueKept, UNCHANGED <<channels, main>>
    PROVE  MidiStoppedByEnd'
BY DEF MixInv, MidiStoppedByEnd, QueueKept

LEMMA MixerSteps == ASSUME MixInv, MixerNext PROVE MixInv'
<1> USE DEF MixInv
<1>1. CASE MixerLoop
  <2>1. QueueKept /\ MidiStoppedByEnd'
    BY <1>1, Kept, Untouched DEF MixerLoop, registry
  <2>2. Shapes'
    BY <1>1, <2>1 DEF MixerLoop, Shapes, QueueKept, MixerThread, MainThread, Thread, registry
  <2>3. MutexHeld' /\ MixerInside' /\ NoUseAfterFree'
    BY <1>1 DEF MixerLoop, Shapes, MixerThread, MutexHeld, MixerInside, NoUseAfterFree, registry
  <2> QED BY <2>1, <2>2, <2>3
<1>2. ASSUME NEW c \in Channels, NextChannel(c) PROVE MixInv'
  <2>1. QueueKept /\ MidiStoppedByEnd'
    BY <1>2, Kept, Untouched DEF NextChannel, registry
  <2>2. Shapes'
    BY <1>2, <2>1 DEF NextChannel, Shapes, QueueKept, MixerThread, MainThread, Thread, registry
  <2>3. MutexHeld' /\ MixerInside' /\ NoUseAfterFree'
    BY <1>2 DEF NextChannel, Shapes, MixerThread, MutexHeld, MixerInside, NoUseAfterFree, registry
  <2> QED BY <2>1, <2>2, <2>3
<1>3. ASSUME NEW c \in Channels, PullFromQueue(c) PROVE MixInv'
  <2> PICK n : /\ queue' = [queue EXCEPT ![c] = Removed(queue[c], n)]
               /\ mixer' = [mixer EXCEPT !.want = @ - n]
               /\ UNCHANGED <<main, renderer, holder, registry>>
    BY <1>3 DEF PullFromQueue
  <2>1. QueueKept
    <3>1. CASE c # "midi"
      BY <3>1, KeptElsewhere
    <3>2. CASE c = "midi"
      <4>1. FrameQueue(queue["midi"]) /\ queue = [q \in Queues |-> queue[q]] /\ "midi" \in Queues
        BY DEF Shapes, Queues, Channels
      <4>2. queue'["midi"] = Removed(queue["midi"], n) /\ queue' = [q \in Queues |-> queue'[q]]
        BY <3>2, <4>1
      <4> QED  BY <4>1, <4>2, QueueOps DEF QueueKept
    <3> QED  BY <3>1, <3>2
  <2>2. MidiStoppedByEnd'
    BY <2>1, Untouched DEF registry
  <2>3. Shapes'
    BY <2>1 DEF Shapes, QueueKept, MixerThread, MainThread, Thread, registry
  <2>4. MutexHeld' /\ MixerInside' /\ NoUseAfterFree'
    BY DEF Shapes, MixerThread, MutexHeld, MixerInside, NoUseAfterFree, registry
  <2> QED BY <2>1, <2>2, <2>3, <2>4
<1>4. ASSUME NEW c \in Channels, ChannelMixed(c) PROVE MixInv'
  <2>1. QueueKept /\ MidiStoppedByEnd'
    BY <1>4, Kept, Untouched DEF ChannelMixed
  <2>2. Shapes'
    BY <1>4, <2>1 DEF ChannelMixed, Shapes, QueueKept, MixerThread, MainThread, Thread
  <2>3. MutexHeld' /\ MixerInside' /\ NoUseAfterFree'
    BY <1>4 DEF ChannelMixed, Shapes, MixerThread, MutexHeld, MixerInside, NoUseAfterFree
  <2> QED BY <2>1, <2>2, <2>3
<1>5. CASE MakeRoomForCapture \/ CaptureBlock
  <2>1. QueueKept
    BY <1>5, Kept, KeptElsewhere DEF MakeRoomForCapture, CaptureBlock
  <2>2. MidiStoppedByEnd'
    BY <1>5, <2>1, Untouched DEF MakeRoomForCapture, CaptureBlock, registry
  <2>3. Shapes'
    BY <1>5, <2>1 DEF MakeRoomForCapture, CaptureBlock, Shapes, QueueKept, MixerThread, MainThread, Thread, registry
  <2>4. MutexHeld' /\ MixerInside' /\ NoUseAfterFree'
    BY <1>5 DEF MakeRoomForCapture, CaptureBlock, Shapes, MixerThread, MutexHeld, MixerInside, NoUseAfterFree, registry
  <2> QED BY <2>1, <2>2, <2>3, <2>4
<1>6. CASE MixerUnlock
  <2>1. QueueKept /\ MidiStoppedByEnd'
    BY <1>6, Kept, Untouched DEF MixerUnlock, registry
  <2>2. Shapes'
    BY <1>6, <2>1 DEF MixerUnlock, Shapes, QueueKept, MixerThread, MainThread, Thread, registry
  <2>3. MutexHeld' /\ MixerInside' /\ NoUseAfterFree'
    BY <1>6 DEF MixerUnlock, Shapes, MixerThread, MutexHeld, MixerInside, NoUseAfterFree, registry
  <2> QED BY <2>1, <2>2, <2>3
<1>7. CASE EnqueueOutput
  <2>1. QueueKept
    BY <1>7, Kept, KeptElsewhere DEF EnqueueOutput
  <2>2. MidiStoppedByEnd'
    BY <1>7, <2>1, Untouched DEF EnqueueOutput, registry
  <2>3. Shapes'
    BY <1>7, <2>1 DEF EnqueueOutput, Shapes, QueueKept, MixerThread, MainThread, Thread, registry
  <2>4. MutexHeld' /\ MixerInside' /\ NoUseAfterFree'
    BY <1>7 DEF EnqueueOutput, Shapes, MixerThread, MutexHeld, MixerInside, NoUseAfterFree, registry
  <2> QED BY <2>1, <2>2, <2>3, <2>4
<1> QED BY <1>1, <1>2, <1>3, <1>4, <1>5, <1>6, <1>7 DEF MixerNext

LEMMA RendererAndSdlSteps ==
    ASSUME MixInv, RendererNext \/ SdlCallback \/ SdlDequeue PROVE MixInv'
<1> USE DEF MixInv
<1>1. CASE Render
  <2>1. QueueKept
    BY <1>1, Kept, KeptElsewhere DEF Render
  <2>2. MidiStoppedByEnd'
    BY <1>1, <2>1 DEF Render, Shapes, MainThread, MidiStoppedByEnd, QueueKept, registry
  <2>3. Shapes'
    BY <1>1, <2>1 DEF Render, Shapes, QueueKept, MixerThread, MainThread, Thread, registry
  <2>4. MutexHeld' /\ MixerInside' /\ NoUseAfterFree'
    BY <1>1 DEF Render, Shapes, MixerThread, MainThread, Thread, MutexHeld, MixerInside, NoUseAfterFree, registry
  <2> QED BY <2>2, <2>3, <2>4
<1>2. CASE EnqueueRendered
  <2>1. QueueKept
    <3>1. \/ \E n : queue' = [queue EXCEPT !["midi"] = Added(queue["midi"], n)]
          \/ UNCHANGED queue
      BY <1>2 DEF EnqueueRendered
    <3> QED BY <3>1, Kept, QueueOps DEF Shapes, QueueKept, Queues, Channels
  <2>2. MidiStoppedByEnd'
    BY <1>2, <2>1, Untouched DEF EnqueueRendered, registry
  <2>3. Shapes'
    BY <1>2, <2>1 DEF EnqueueRendered, Shapes, QueueKept, MixerThread, MainThread, Thread, registry
  <2>4. MutexHeld' /\ MixerInside' /\ NoUseAfterFree'
    BY <1>2 DEF EnqueueRendered, Shapes, MixerThread, MainThread, Thread, MutexHeld, MixerInside, NoUseAfterFree, registry
  <2> QED BY <2>2, <2>3, <2>4
<1>3. CASE SdlCallback \/ SdlDequeue
  <2>1. QueueKept
    BY <1>3, Kept, KeptElsewhere DEF SdlCallback, SdlDequeue
  <2>2. MidiStoppedByEnd'
    BY <1>3, <2>1 DEF SdlCallback, SdlDequeue, Shapes, MainThread, MidiStoppedByEnd, QueueKept, registry
  <2>3. Shapes'
    BY <1>3, <2>1 DEF SdlCallback, SdlDequeue, Shapes, QueueKept, MixerThread, MainThread, Thread, registry
  <2>4. MutexHeld' /\ MixerInside' /\ NoUseAfterFree'
    BY <1>3 DEF SdlCallback, SdlDequeue, Shapes, MixerThread, MainThread, Thread, MutexHeld, MixerInside, NoUseAfterFree, registry
  <2> QED BY <2>2, <2>3, <2>4
<1> QED BY <1>1, <1>2, <1>3 DEF RendererNext

LEMMA GuestSteps ==
    ASSUME MixInv, Guest, ~\E j \in Channels \cup {"hold"} : MIXER_LockMixerThread(j)
    PROVE  MixInv'
<1> USE DEF MixInv
<1>1. CASE Tick
  <2>1. QueueKept
    BY <1>1, AudioMixerAssumption DEF Tick, Shapes, QueueKept, Queues, Channels
  <2>2. MidiStoppedByEnd'
    BY <1>1, <2>1 DEF Tick, Running, Shapes, MainThread, MidiStoppedByEnd, QueueKept, registry
  <2>3. Shapes'
    BY <1>1, <2>1 DEF Tick, Shapes, QueueKept, MixerThread, MainThread, Thread, registry
  <2>4. MutexHeld' /\ MixerInside' /\ NoUseAfterFree'
    BY <1>1 DEF Tick, Running, Shapes, MixerThread, MainThread, Thread, MutexHeld, MixerInside, NoUseAfterFree, registry
  <2> QED BY <2>2, <2>3, <2>4
<1>2. CASE SendMidiMessage \/ ToggleMute \/ RequestExit
  <2>1. QueueKept
    BY <1>2, Kept, KeptElsewhere DEF SendMidiMessage, ToggleMute, RequestExit, Running
  <2>2. MidiStoppedByEnd'
    BY <1>2, <2>1 DEF SendMidiMessage, ToggleMute, RequestExit, Running, Shapes, MainThread, MidiStoppedByEnd, QueueKept, registry
  <2>3. Shapes'
    BY <1>2, <2>1 DEF SendMidiMessage, ToggleMute, RequestExit, Running, Shapes, QueueKept, MixerThread, MainThread, Thread, registry
  <2>4. MutexHeld' /\ MixerInside' /\ NoUseAfterFree'
    BY <1>2 DEF SendMidiMessage, ToggleMute, RequestExit, Running, Shapes, MixerThread, MainThread, Thread, MutexHeld, MixerInside, NoUseAfterFree, registry
  <2> QED BY <2>2, <2>3, <2>4
<1>3. ASSUME NEW d \in Devices, WakeUp(d) \/ GusReset(d) \/ ActivatePlayer(d) \/ DeactivatePlayer(d)
      PROVE  MixInv'
  <2>1. QueueKept
    BY <1>3, Kept, KeptElsewhere, AudioMixerAssumption DEF WakeUp, GusReset, ActivatePlayer, DeactivatePlayer
  <2>2. UNCHANGED <<main, mixer, renderer, holder, pointers, channels>>
    BY <1>3 DEF WakeUp, GusReset, ActivatePlayer, DeactivatePlayer
  <2> QED BY <2>1, <2>2, Untouched DEF Shapes, QueueKept, MutexHeld, MixerInside, NoUseAfterFree
<1> QED BY <1>1, <1>2, <1>3 DEF Guest

LEMMA LockSteps ==
    ASSUME MixInv, NEW j \in Channels \cup {"hold"}, MIXER_LockMixerThread(j)
    PROVE  MixInv'
<1> USE DEF MixInv
<1>1. pointers' \subseteq Devices
    BY DEF MIXER_LockMixerThread, PointersAtLock, Shapes
<1>2. QueueKept
    BY <1>1, KeptReached DEF MIXER_LockMixerThread
<1>3. MidiStoppedByEnd'
    BY <1>2 DEF MIXER_LockMixerThread, Shapes, MainThread, MidiStoppedByEnd, QueueKept
<1>4. Shapes'
    BY <1>1, <1>2 DEF MIXER_LockMixerThread, Shapes, QueueKept, MixerThread, MainThread, Thread
<1>5. MutexHeld' /\ MixerInside' /\ NoUseAfterFree'
    BY DEF MIXER_LockMixerThread, Shapes, MixerThread, MainThread, Thread, MutexHeld, MixerInside, NoUseAfterFree
<1> QED BY <1>3, <1>4, <1>5

LEMMA MainSteps == ASSUME MixInv, MainGoesOn \/ CloseAudioDevice PROVE MixInv'
<1> USE DEF MixInv
<1>1. CASE CaptureDequeue \/ EnqueueWork
  <2>1. QueueKept
    BY <1>1, Kept, KeptElsewhere DEF CaptureDequeue, EnqueueWork
  <2>2. MidiStoppedByEnd'
    BY <1>1, <2>1 DEF CaptureDequeue, EnqueueWork, Shapes, MainThread, MidiStoppedByEnd, QueueKept, registry
  <2>3. Shapes'
    BY <1>1, <2>1 DEF CaptureDequeue, EnqueueWork, Shapes, QueueKept, MixerThread, MainThread, Thread, registry
  <2>4. MutexHeld' /\ MixerInside' /\ NoUseAfterFree'
    BY <1>1 DEF CaptureDequeue, EnqueueWork, Shapes, MixerThread, MainThread, Thread, MutexHeld, MixerInside, NoUseAfterFree, registry
  <2> QED BY <2>2, <2>3, <2>4
<1>2. CASE LockAcquired \/ EndHold \/ AudioDeviceClosed
  <2>1. QueueKept
    BY <1>2, Kept, KeptElsewhere DEF LockAcquired, EndHold, AudioDeviceClosed
  <2>2. MidiStoppedByEnd'
    BY <1>2, <2>1 DEF LockAcquired, EndHold, AudioDeviceClosed, Shapes, MainThread, MidiStoppedByEnd, QueueKept, registry
  <2>3. Shapes'
    BY <1>2, <2>1 DEF LockAcquired, EndHold, AudioDeviceClosed, Shapes, QueueKept, MixerThread, MainThread, Thread, registry
  <2>4. MutexHeld' /\ MixerInside' /\ NoUseAfterFree'
    BY <1>2 DEF LockAcquired, EndHold, AudioDeviceClosed, Shapes, MixerThread, MainThread, Thread, MutexHeld, MixerInside, NoUseAfterFree, registry
  <2> QED BY <2>2, <2>3, <2>4
<1>3. CASE CloseAudioDevice
  <2>1. QueueKept
    BY <1>3, Kept, KeptElsewhere DEF CloseAudioDevice
  <2>2. MidiStoppedByEnd'
    BY <1>3, <2>1 DEF CloseAudioDevice, Shapes, MainThread, MidiStoppedByEnd, QueueKept, registry
  <2>3. Shapes'
    BY <1>3, <2>1 DEF CloseAudioDevice, Shapes, QueueKept, MixerThread, MainThread, Thread, registry
  <2>4. MutexHeld' /\ MixerInside' /\ NoUseAfterFree'
    BY <1>3 DEF CloseAudioDevice, Shapes, MixerThread, MainThread, Thread, MutexHeld, MixerInside, NoUseAfterFree, registry
  <2> QED BY <2>2, <2>3, <2>4
<1>4. ASSUME NEW d \in Devices, DestroyDevice(d) PROVE MixInv'
  <2>1. pointers' \subseteq Devices
    BY <1>4 DEF DestroyDevice, Shapes
  <2>2. QueueKept
    BY <1>4, <2>1, KeptReached DEF DestroyDevice
  <2>3. MidiStoppedByEnd'
    BY <1>4, <2>2 DEF DestroyDevice, Shapes, MainThread, MidiStoppedByEnd, QueueKept
  <2>4. Shapes'
    BY <1>4, <2>1, <2>2 DEF DestroyDevice, Shapes, QueueKept, MixerThread, MainThread, Thread
  <2>5. MutexHeld' /\ MixerInside' /\ NoUseAfterFree'
    BY <1>4, AudioMixerAssumption DEF DestroyDevice, Shapes, MixerThread, MainThread, Thread, MutexHeld, MixerInside, NoUseAfterFree
  <2> QED BY <2>3, <2>4, <2>5
<1>5. CASE StopMidi
  <2>1. queue' = [q \in Queues |-> queue'[q]] /\ FrameQueue(queue'["midi"])
    BY <1>5, QueueOps DEF StopMidi, Shapes, Queues, Channels
  <2>2. Shapes' /\ MidiStoppedByEnd'
    BY <1>5, <2>1 DEF StopMidi, Shapes, MixerThread, MainThread, Thread, MidiStoppedByEnd
  <2>3. MutexHeld' /\ MixerInside' /\ NoUseAfterFree'
    BY <1>5 DEF StopMidi, Shapes, MixerThread, MainThread, Thread, MutexHeld, MixerInside, NoUseAfterFree
  <2> QED BY <2>2, <2>3
<1>6. CASE JoinRenderer
  <2>1. QueueKept
    BY <1>6, KeptReached DEF JoinRenderer, Shapes
  <2>2. MidiStoppedByEnd'
    BY <1>6 DEF JoinRenderer, MidiStoppedByEnd
  <2>3. Shapes'
    BY <1>6, <2>1 DEF JoinRenderer, Shapes, QueueKept, MixerThread, MainThread, Thread
  <2>4. MutexHeld' /\ MixerInside' /\ NoUseAfterFree'
    BY <1>6 DEF JoinRenderer, Shapes, MixerThread, MainThread, Thread, MutexHeld, MixerInside, NoUseAfterFree
  <2> QED BY <2>2, <2>3, <2>4
<1>7. CASE MIXER_UnlockMixerThread
  <2>1. QueueKept
    BY <1>7, KeptReached DEF MIXER_UnlockMixerThread, Shapes
  <2>2. MidiStoppedByEnd'
    BY <1>7, <2>1 DEF MIXER_UnlockMixerThread, MidiStoppedByEnd, QueueKept, registry
  <2>3. Shapes'
    BY <1>7, <2>1 DEF MIXER_UnlockMixerThread, Shapes, QueueKept, MixerThread, MainThread, Thread, registry
  <2>4. MutexHeld' /\ MixerInside' /\ NoUseAfterFree'
    BY <1>7 DEF MIXER_UnlockMixerThread, Shapes, MixerThread, MainThread, Thread, MutexHeld, MixerInside, NoUseAfterFree, registry
  <2> QED BY <2>2, <2>3, <2>4
<1> QED BY <1>1, <1>2, <1>3, <1>4, <1>5, <1>6, <1>7 DEF MainGoesOn

LEMMA StepMix == MixInv /\ [Next]_vars => MixInv'
<1> SUFFICES ASSUME MixInv, [Next]_vars PROVE MixInv'
    OBVIOUS
<1>1. CASE UNCHANGED vars
    BY <1>1 DEF vars, MixInv, Shapes, MutexHeld, MixerInside, MidiStoppedByEnd, NoUseAfterFree
<1>2. CASE \E j \in Channels \cup {"hold"} : MIXER_LockMixerThread(j)
    BY <1>2, LockSteps
<1>3. CASE Guest /\ ~\E j \in Channels \cup {"hold"} : MIXER_LockMixerThread(j)
    BY <1>3, GuestSteps
<1>4. CASE ShutsDown
    BY <1>4, MainSteps, LockSteps DEF ShutsDown
<1> QED BY <1>1, <1>2, <1>3, <1>4, MixerSteps, RendererAndSdlSteps, MainSteps DEF Next

\* For any devices and any setup, the mixer only touches channels whose device
\* exists, and no synthesizer is freed under its renderer thread.
THEOREM NeverFreedUnderUse == Spec => []NoUseAfterFree
<1>1. MixInv => NoUseAfterFree
    BY DEF MixInv
<1> QED BY <1>1, InitMix, StepMix, PTL DEF Spec

\* For any sizes of blocks and queues, the callback of a MIDI synthesizer gets
\* a whole block or nothing.
THEOREM MidiBlocksWhole == Spec => []MidiBlockWhole
BY InitMix, StepMix, InvMidi, PTL DEF Spec
=============================================================================
