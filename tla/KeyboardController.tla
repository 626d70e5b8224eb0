------------------------- MODULE KeyboardController -------------------------
(***************************************************************************)
(* The emulated keyboard (hardware/input/keyboard.cpp), the frame hand-over *)
(* of the PS/2 mouse (mouseif_ps2_bios.cpp) and the 8042 controller both   *)
(* are attached to (intel8042.cpp).  All host input, the input replay and  *)
(* the Lua key injection end in KEYBOARD_AddKey; the guest sees the        *)
(* controller's data and command ports.                                    *)
(*                                                                         *)
(* The code runs on one thread, but the three devices call each other back *)
(* in the middle of their operations: a read of the data port notifies the *)
(* keyboard, which adds a frame to the controller's buffer, which may      *)
(* flush that buffer, which notifies the mouse.  An operation is therefore *)
(* a function from hardware state to hardware state composed in the order  *)
(* of the calls, and a step applies one operation.                         *)
(*                                                                         *)
(* Bytes are abstracted to their origin; scancodes to their length.        *)
(***************************************************************************)
EXTENDS Naturals, Sequences, FiniteSets

CONSTANTS
    BufferSize,      \* bytes in the controller's buffer (64)
    KbdBufferSize,   \* scancodes in the keyboard's buffer (8)
    Keys,            \* the keys of the host keyboard
    Length,          \* Length[k]: bytes of the scancode of key k
    NoRepeat,        \* the keys excluded from being repeated
    Pause, Rate,     \* ticks until a held key repeats, and between repeats
    AuxLength,       \* bytes of a mouse frame (3 or 4)
    CopyrightLength, \* bytes of the firmware's copyright string and its NUL (28)
    DumpLength,      \* bytes of the diagnostic dump (63)
    GuestCommands,   \* the kinds of bytes the guest writes to port 0x64
    GuestBytes,      \* the kinds of bytes the guest writes to port 0x60
    StrayBytes       \* whether the guest writes data bytes to port 0x60 that
                     \* no keyboard command waits for

NoKey == "none"

\* A frame never needs a flush right after a flush, which is what ends the
\* mutual recursion of the code: the longest scancode and the three bytes of
\* the keyboard's longest answer, the mouse's longest answer (a polled frame
\* behind its acknowledgement) and the controller's longest answer, the
\* copyright string, find room together.  The code's numbers are 8 + 3, 5 and
\* 28 bytes of 64; intel8042.cpp asserts sixteen bytes beside the string.
\* The dump, during which the devices send no frames, fits alone.
ASSUME BufferAssumption ==
    /\ BufferSize \in Nat /\ KbdBufferSize \in Nat \ {0}
    /\ DumpLength \in 1 .. BufferSize
    /\ AuxLength \in Nat /\ 3 <= AuxLength
    /\ CopyrightLength \in Nat \ {0}
    /\ AuxLength + CopyrightLength + 4 <= BufferSize
    /\ Length \in [Keys -> Nat] /\ NoKey \notin Keys
    /\ \A k \in Keys : Length[k] + AuxLength + CopyrightLength + 4 <= BufferSize
    /\ Pause \in Nat /\ Rate \in Nat

VARIABLES
    hw,     \* the state of the three devices, a record
    held    \* ghost: the keys the host holds down

vars == <<hw, held>>

(* Controller: buf, the bytes waiting behind the output port; new and src, *)
(* the byte in the port and its origin; waitK and waitA, the counters of   *)
(* unread bytes; offK and offA, the disabled ports; dump, is_diagnostic_   *)
(* dump; cmd, the command waiting for its parameter; ready, delay_expired; *)
(* quiet, should_skip_device_notify.                                       *)
(* Keyboard: q, lengths of the buffered scancodes; over, buffer_overflowed;*)
(* scan, is_scanning; kcmd, its command waiting for a parameter; rep and   *)
(* wait, the repeated key and its countdown.                               *)
(* Mouse: moved, has_data_for_frame; mready, its own delay has expired;    *)
(* rpt, should_report.                                                     *)
InitialHardware ==
    [buf |-> <<>>, new |-> FALSE, src |-> "ctl", waitK |-> 0, waitA |-> 0,
     offK |-> FALSE, offA |-> FALSE, dump |-> FALSE, cmd |-> "none",
     ready |-> TRUE, quiet |-> FALSE,
     q |-> <<>>, over |-> FALSE, scan |-> TRUE, kcmd |-> "none",
     rep |-> NoKey, wait |-> 0,
     moved |-> FALSE, mready |-> TRUE, rpt |-> FALSE]

-----------------------------------------------------------------------------
(* The controller's buffer.                                                *)

IsReadyForAuxFrame(s) == s.waitA = 0 /\ ~s.offA /\ ~s.dump

IsReadyForKbdFrame(s) == s.waitK = 0 /\ ~s.offK /\ ~s.dump

Byte(src, skip) == [src |-> src, skip |-> skip]

Reply(n) == [i \in 1 .. n |-> Byte("ctl", TRUE)]
KbdBytes(n) == [i \in 1 .. n |-> Byte("kbd", FALSE)]
AuxBytes(n) == [i \in 1 .. n |-> Byte("aux", i > 1)]

IsDisabled(s, src) == (src = "aux" /\ s.offA) \/ (src = "kbd" /\ s.offK)

\* One byte moves to the output port, unless the port is occupied, the
\* buffer is empty or the byte has to wait for the delay timer.
MaybeTransferBuffer(s) ==
    IF s.new \/ s.buf = <<>> \/ ~(s.ready \/ Head(s.buf).skip) THEN s
    ELSE [s EXCEPT !.buf = Tail(@), !.new = TRUE, !.src = Head(s.buf).src,
                   !.ready = FALSE]

ExpiredIdle(s) == [s EXCEPT !.ready = TRUE]     \* mutant

\* delay_handler: the next byte need not wait any longer.
Expired(s) == MaybeTransferBuffer([s EXCEPT !.ready = TRUE])

\* buffer_add for a byte there is room for.
BufferPut(s, b) ==
    IF IsDisabled(s, b.src) THEN s
    ELSE MaybeTransferBuffer(
        [s EXCEPT !.buf   = Append(@, b),
                  !.waitK = @ + (IF b.src = "kbd" THEN 1 ELSE 0),
                  !.waitA = @ + (IF b.src = "aux" THEN 1 ELSE 0)])

PutAll(s, bytes) ==
    LET put[i \in 0 .. Len(bytes)] == IF i = 0 THEN s ELSE BufferPut(put[i - 1], bytes[i])
    IN  put[Len(bytes)]

\* The frame the mouse or the keyboard would push now, if it has one and the
\* controller can take it, and the device once it has pushed it.
MouseMayPush(s) == s.mready /\ s.moved /\ IsReadyForAuxFrame(s)

MouseFrame(s) == IF MouseMayPush(s) /\ s.rpt THEN AuxBytes(AuxLength) ELSE <<>>

MousePushed(s) ==
    IF MouseMayPush(s) THEN [s EXCEPT !.moved = FALSE, !.mready = FALSE] ELSE s

KbdMayPush(s) == s.q # <<>> /\ IsReadyForKbdFrame(s)

KbdFrame(s) == IF KbdMayPush(s) THEN KbdBytes(Head(s.q)) ELSE <<>>

KbdPushed(s) == IF KbdMayPush(s) THEN [s EXCEPT !.q = Tail(@)] ELSE s

\* A device that could not send before and can now is told so.
FreedAux(before, s) == ~IsReadyForAuxFrame(before) /\ IsReadyForAuxFrame(s)

FreedKbd(before, s) == ~IsReadyForKbdFrame(before) /\ IsReadyForKbdFrame(s)

EmptiedButCounted(s) ==                         \* mutant
    [s EXCEPT !.buf = <<>>, !.new = FALSE, !.src = "ctl"]

Emptied(s) ==
    [s EXCEPT !.buf = <<>>, !.new = FALSE, !.src = "ctl", !.waitK = 0, !.waitA = 0]

\* flush_buffer: the frames pushed by the devices it notifies find room.
FlushBuffer(s) ==
    LET e == Emptied(s)
        a == IF ~s.quiet /\ FreedAux(s, e)
             THEN PutAll(MousePushed(e), MouseFrame(e)) ELSE e
    IN  IF ~s.quiet /\ FreedKbd(s, a)
        THEN PutAll([KbdPushed(a) EXCEPT !.over = FALSE], KbdFrame(a)) ELSE a

\* buffer_add: a byte that finds the buffer full flushes it and is lost.
BufferAdd(s, b) ==
    IF ~IsDisabled(s, b.src) /\ Len(s.buf) >= BufferSize
    THEN FlushBuffer(s) ELSE BufferPut(s, b)

BufferAddAll(s, bytes) ==
    LET add[i \in 0 .. Len(bytes)] == IF i = 0 THEN s ELSE BufferAdd(add[i - 1], bytes[i])
    IN  add[Len(bytes)]

EnforceBufferSpace(s, n) ==
    IF BufferSize < Len(s.buf) + n THEN FlushBuffer(s) ELSE s

\* I8042_AddKbdByte, I8042_AddKbdFrame, I8042_AddAuxByte, I8042_AddAuxFrame.
AddFrame(s, frame) ==
    IF frame = <<>> \/ IsDisabled(s, frame[1].src) THEN s
    ELSE BufferAddAll(EnforceBufferSpace(s, Len(frame)), frame)

MouseTransferFrame(s) == AddFrame(MousePushed(s), MouseFrame(s))

KbdTransferBuffer(s) == AddFrame(KbdPushed(s), KbdFrame(s))

NotifyKbd(s) == KbdTransferBuffer([s EXCEPT !.over = FALSE])

NotifyFreed(before, s) ==
    LET a == IF FreedAux(before, s) THEN MouseTransferFrame(s) ELSE s
    IN  IF FreedKbd(before, a) THEN NotifyKbd(a) ELSE a

-----------------------------------------------------------------------------
(* The keyboard.                                                           *)

ClearBufferKeepRepeat(s) ==                     \* mutant
    [s EXCEPT !.q = <<>>, !.over = FALSE]

ClearBuffer(s) ==
    [s EXCEPT !.q = <<>>, !.over = FALSE, !.rep = NoKey, !.wait = 0]

\* The keyboard's buffer_add: an overflow empties the buffer and latches.
KbdBufferAdd(s, n) ==
    IF s.over \/ n = 0 THEN s
    ELSE IF Len(s.q) = KbdBufferSize
         THEN [s EXCEPT !.q = <<>>, !.over = TRUE]
         ELSE KbdTransferBuffer([s EXCEPT !.q = Append(@, n)])

TypematicUpdate(s, k, pressed) ==
    IF k \in NoRepeat THEN s
    ELSE IF pressed
         THEN [s EXCEPT !.rep = k, !.wait = IF s.rep = k THEN Rate ELSE Pause]
         ELSE IF s.rep = k THEN [s EXCEPT !.rep = NoKey, !.wait = 0] ELSE s

KeyAdded(s, k, pressed) ==
    IF ~s.scan THEN s
    ELSE KbdBufferAdd(TypematicUpdate(s, k, pressed), Length[k])

TypematicTick(s) ==
    LET w == IF s.wait > 0 THEN s.wait - 1 ELSE 0
        t == [s EXCEPT !.wait = w]
    IN  IF w > 0 \/ s.rep = NoKey THEN t
        ELSE IF s.q # <<>> \/ ~IsReadyForKbdFrame(s)
             THEN [t EXCEPT !.wait = 1]
             ELSE KeyAdded(t, s.rep, TRUE)

Ack(s) == AddFrame(s, KbdBytes(1))

\* The keyboard's commands by effect on the buffers.  SetLeds stands for
\* SetTypeRate too, Set3Key and Set3All for the commands about set 3,
\* ClearEnable for ResetEnable, Echo for Resend and the unknown codes.
KbdCommands == {"SetLeds", "CodeSet", "Set3Key", "Echo", "Identify", "ClearEnable",
                "DefaultDisable", "Set3All", "Reset"}

\* A keyboard command, and the parameter of the one that waits for it.
KbdExecute(s, c) ==
    CASE c = "SetLeds"        -> [Ack(s) EXCEPT !.kcmd = c]
      [] c \in {"CodeSet", "Set3Key"}
                              -> [ClearBuffer(Ack(s)) EXCEPT !.kcmd = c]
      [] c = "Echo"           -> Ack(s)
      [] c = "Identify"       -> Ack(Ack(Ack(s)))
      [] c = "ClearEnable"    -> [ClearBuffer(Ack(s)) EXCEPT !.scan = TRUE]
      [] c = "DefaultDisable" -> [ClearBuffer(Ack(s)) EXCEPT !.scan = FALSE]
      [] c = "Set3All"        -> ClearBuffer(Ack(s))
      [] c = "Reset"          -> Ack([ClearBuffer(Ack(s)) EXCEPT !.scan = TRUE])

KbdParameter(s, c, b) ==
    CASE c = "SetLeds"                    -> Ack(s)
      [] c = "Set3Key"                    -> ClearBuffer(Ack(s))
      [] c = "CodeSet" /\ b = "set1"      -> Ack(ClearBuffer(s))
      [] c = "CodeSet" /\ b = "zero"      -> Ack(Ack(s))
      [] c = "CodeSet" /\ b = "other"     -> [Ack(s) EXCEPT !.kcmd = c]

\* The bytes without the highest bit, which are no commands.
DataBytes == {"zero", "set1", "other"}

KbdPortWrite(s, b) ==
    LET isCommand == b \notin DataBytes /\ s.kcmd # "Set3Key"
        c == IF isCommand THEN "none" ELSE s.kcmd
        t == [s EXCEPT !.kcmd = "none"]
    IN  IF c # "none" THEN KbdParameter(t, c, b)
        ELSE IF isCommand THEN KbdExecute(t, b) ELSE t

-----------------------------------------------------------------------------
(* The controller's ports.                                                 *)

\* The commands of port 0x64 by effect.  OtherParameter stands for those
\* whose parameter touches neither buffer nor ports, Query for those that
\* answer one byte, ReadRam for the unimplemented memory reads, which answer
\* without flushing first, Ignored for A20, vendor lines and unknown codes.
Commands == {"WriteByteConfig", "SimulateInputKbd", "SimulateInputAux",
             "WriteAux", "OtherParameter", "Query", "ReadFwCopyright",
             "ReadRam", "Ignored",
             "DisablePortAux", "EnablePortAux", "TestPortAux",
             "DisablePortKbd", "EnablePortKbd", "TestPortKbd",
             "TestController", "DiagnosticDump"}

ASSUME GuestAssumption ==
    GuestCommands \subseteq Commands /\ GuestBytes \subseteq DataBytes \cup KbdCommands

ExecuteCommand(s, c) ==
    CASE c \in {"WriteByteConfig", "SimulateInputKbd", "SimulateInputAux",
                "WriteAux", "OtherParameter"} -> [s EXCEPT !.cmd = c]
      [] c = "Query"          -> BufferAddAll(FlushBuffer(s), Reply(1))
      [] c = "ReadFwCopyright" ->
            BufferAddAll(FlushBuffer(s), Reply(CopyrightLength))
      [] c = "ReadRam"        -> BufferAddAll(s, Reply(1))
      [] c = "DisablePortAux" -> [s EXCEPT !.offA = TRUE]
      [] c = "EnablePortAux"  -> [s EXCEPT !.offA = FALSE]
      [] c = "DisablePortKbd" -> [s EXCEPT !.offK = TRUE]
      [] c = "EnablePortKbd"  -> [s EXCEPT !.offK = FALSE]
      [] c = "TestPortAux"    ->
            BufferAddAll(FlushBuffer([s EXCEPT !.offA = TRUE]), Reply(1))
      [] c = "TestPortKbd"    ->
            BufferAddAll(FlushBuffer([s EXCEPT !.offK = TRUE]), Reply(1))
      [] c = "TestController" ->
            BufferAddAll(FlushBuffer([s EXCEPT !.offA = TRUE, !.offK = TRUE]),
                         Reply(1))
      [] c = "DiagnosticDump" ->
            BufferAddAll([FlushBuffer(s) EXCEPT !.dump = TRUE],
                         Reply(DumpLength))
      [] OTHER                -> s

\* What the mouse answers to a byte, as the lengths of the frames it adds:
\* nothing where no mouse is configured; an acknowledgement or the echo of the
\* wrap mode; an acknowledgement and the identifier, the result of the self
\* test and the identifier, the three bytes of the status, or a polled frame.
PolledFrame == <<1, AuxLength, 0, 0>>

MouseAnswers == {<<0, 0, 0, 0>>, <<1, 0, 0, 0>>, <<1, 1, 0, 0>>, <<1, 1, 1, 0>>,
                 <<1, 1, 1, 1>>, PolledFrame}

\* A polled frame takes what the mouse had to report.
MouseTold(s, p) ==
    [s EXCEPT !.ready = FALSE, !.rpt = p.report, !.moved = @ /\ p.answer # PolledFrame]

MouseAnswered(s, p) ==
    LET add(t, i) == AddFrame(t, AuxBytes(p.answer[i]))
    IN  add(add(add(add(MouseTold(s, p), 1), 2), 3), 4)

\* The parameter of a controller command: for WriteByteConfig the new state
\* of the two ports, for WriteAux what the mouse answers and whether it
\* reports movements from then on.
Parameters ==
    CASE hw.cmd = "WriteByteConfig" -> [offA : BOOLEAN, offK : BOOLEAN]
      [] hw.cmd = "WriteAux"        -> [answer : MouseAnswers, report : BOOLEAN]
      [] OTHER                      -> {"any"}

ExecuteParameter(s, c, p) ==
    CASE c = "WriteByteConfig"  -> [s EXCEPT !.offA = p.offA, !.offK = p.offK]
      [] c = "SimulateInputKbd" -> BufferAddAll(FlushBuffer(s), KbdBytes(1))
      [] c = "SimulateInputAux" -> BufferAddAll(FlushBuffer(s), AuxBytes(1))
      [] c = "WriteAux"         -> MouseAnswered(s, p)
      [] OTHER                  -> s

FinishDumpSilently(s) ==                        \* mutant
    [s EXCEPT !.dump = @ /\ s.buf # <<>>]

\* The end of a diagnostic dump, noticed when its last byte is read.
FinishDump(s) ==
    IF ~(s.dump /\ s.buf = <<>>) THEN s
    ELSE LET t == [s EXCEPT !.dump = FALSE]
             a == IF IsReadyForAuxFrame(t)
                  THEN MouseTransferFrame(t) ELSE t
         IN  IF IsReadyForKbdFrame(a) THEN NotifyKbd(a) ELSE a

CountAuxRead(s) ==
    IF s.src # "aux" THEN s
    ELSE LET t == [s EXCEPT !.waitA = @ - 1]
         IN  IF IsReadyForAuxFrame(t)
             THEN MouseTransferFrame(t) ELSE t

CountKbdRead(s) ==
    IF s.src # "kbd" THEN s
    ELSE LET t == [s EXCEPT !.waitK = @ - 1]
         IN  IF IsReadyForKbdFrame(t) THEN NotifyKbd(t) ELSE t

DataRead(s) ==
    IF ~s.new THEN s
    ELSE [CountKbdRead(CountAuxRead(FinishDump(s)))
            EXCEPT !.new = FALSE, !.src = "ctl", !.ready = FALSE]

\* The end of the section that keeps flush_buffer from notifying.
NotifyAgain(s) == [s EXCEPT !.quiet = FALSE]

ToController(s, p) ==
    LET quiet == FlushBuffer([s EXCEPT !.cmd = "none", !.quiet = TRUE])
        t == NotifyAgain(ExecuteParameter(quiet, s.cmd, p))
    IN  NotifyFreed(s, t)

ToKeyboard(s, b) ==
    KbdPortWrite([FlushBuffer([s EXCEPT !.offK = FALSE]) EXCEPT !.ready = FALSE],
                 b)

CommandWritten(s, c) ==
    LET quiet == [s EXCEPT !.quiet = TRUE]
        e == IF s.dump THEN FlushBuffer([quiet EXCEPT !.dump = FALSE]) ELSE quiet
        t == NotifyAgain(ExecuteCommand([e EXCEPT !.cmd = "none"], c))
    IN  NotifyFreed(s, t)

-----------------------------------------------------------------------------
(* The steps: the host, the timers and the guest program.                  *)

Init == hw = InitialHardware /\ held = {}

\* KEYBOARD_AddKey from the mapper: a key goes down or comes up.
HostKey(k) ==
    /\ hw' = KeyAdded(hw, k, k \notin held)
    /\ held' = IF k \in held THEN held \ {k} ELSE held \union {k}

\* KEYBOARD_ClrBuffer, on focus changes and when the mapper or debugger ends.
ClrBuffer ==
    /\ hw' = ClearBuffer(hw)
    /\ UNCHANGED held

MouseMoved ==
    /\ hw' = MouseTransferFrame([hw EXCEPT !.moved = TRUE])
    /\ UNCHANGED held

MouseDelayHandler ==
    /\ ~hw.mready
    /\ hw' = MouseTransferFrame([hw EXCEPT !.mready = TRUE])
    /\ UNCHANGED held

DelayHandler ==
    /\ ~hw.ready
    /\ hw' = Expired(hw)
    /\ UNCHANGED held

Tick ==
    /\ hw.rep # NoKey \/ hw.wait > 0
    /\ hw' = TypematicTick(hw)
    /\ UNCHANGED held

ReadDataPort ==
    /\ hw.new
    /\ hw' = DataRead(hw)
    /\ UNCHANGED held

WriteDataPort ==
    /\ \/ hw.cmd # "none" /\ \E p \in Parameters : hw' = ToController(hw, p)
       \/ /\ hw.cmd = "none"
          /\ \E b \in GuestBytes :
                /\ b \in DataBytes /\ hw.kcmd = "none" => StrayBytes
                /\ hw' = ToKeyboard(hw, b)
    /\ UNCHANGED held

WriteCommandPort ==
    /\ \E c \in GuestCommands : hw' = CommandWritten(hw, c)
    /\ UNCHANGED held

Next ==
    \/ \E k \in Keys : HostKey(k)
    \/ ClrBuffer \/ MouseMoved \/ MouseDelayHandler \/ DelayHandler \/ Tick
    \/ ReadDataPort \/ WriteDataPort \/ WriteCommandPort

Spec == Init /\ [][Next]_vars

(* The timers are events of the machine's own scheduler and fire; the      *)
(* interrupt handler of a live guest reads what the port offers.           *)
Fairness == WF_vars(DelayHandler) /\ WF_vars(ReadDataPort)

FairSpec == Spec /\ Fairness

-----------------------------------------------------------------------------
(* Properties.                                                             *)

Count(src) == Cardinality({i \in DOMAIN hw.buf : hw.buf[i].src = src})
                + (IF hw.new /\ hw.src = src THEN 1 ELSE 0)

\* Types; in particular the counters of unread bytes never go below zero,
\* which is what the assertions of read_data_port demand.
TypeOK ==
    /\ Len(hw.buf) <= BufferSize
    /\ hw.waitK \in 0 .. BufferSize + 1 /\ hw.waitA \in 0 .. BufferSize + 1
    /\ Len(hw.q) <= KbdBufferSize
    /\ hw.rep \in Keys \union {NoKey} /\ hw.wait \in Nat
    /\ hw.cmd \in Commands \union {"none"} /\ ~hw.quiet
    /\ held \subseteq Keys

\* The counters that decide whether a device may send its next frame agree
\* with the bytes that really wait, through all flushes, disabled ports and
\* frames pushed from within a read: else a device would be locked out, or
\* two frames would mix.
CountersExact == hw.waitK = Count("kbd") /\ hw.waitA = Count("aux")

\* A byte in the buffer waits for a read or for the delay timer, so something
\* will move it on.
NoByteStranded == hw.buf # <<>> => hw.new \/ ~hw.ready

\* The keyboard's port is enabled and no byte of a dump is left to read.
PortOpen == ~hw.offK /\ ~(hw.dump /\ (hw.new \/ hw.buf # <<>>))

\* When the port is open and no keyboard byte waits in the controller, the
\* keyboard holds nothing back and drops nothing: whoever freed the
\* controller told it so.
FreeControllerServesKeyboard ==
    PortOpen /\ Count("kbd") = 0 => hw.q = <<>> /\ ~hw.over

\* Only a key the host holds down repeats: no sequence of scanning being
\* disabled and enabled, resets and dropped releases leaves a key repeating
\* after it was released.
NoGhostRepeat == hw.rep = NoKey \/ hw.rep \in held

\* If the guest reads what it is offered and in the end leaves the port open,
\* keys are not dropped for ever.
OverflowEnds == <>[]PortOpen => (hw.over ~> ~hw.over)
=============================================================================
