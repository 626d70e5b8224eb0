SPECIFICATION Spec
CONSTANTS
    Devices = {"speaker", "gus", "dac", "reelmagic"}
    Kind <- MCKind
    Block = 2
    PreBuffer = 1
    CaptureCapacity = 3
    MaxMidiWorkFifoSize = 1
    MaxMessages = 2
    Setups <- MCSetups
CHECK_DEADLOCK FALSE
INVARIANT NoUseAfterFree
INVARIANT MidiBlockWhole
PROPERTY MainNeverStuck
PROPERTY QueueWaitsEnd
