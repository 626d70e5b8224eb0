CONSTANTS
    BufferSize = 10
    KbdBufferSize = 2
    Keys = {"a", "b"}
    Length <- KeyLength
    NoRepeat = {}
    Pause = 1
    Rate = 1
    AuxLength = 3
    CopyrightLength = 1
    DumpLength = 2
    GuestCommands = {"DisablePortKbd", "EnablePortKbd", "DiagnosticDump"}
    GuestBytes <- KeyboardBytes
    StrayBytes = FALSE
SPECIFICATION FairSpec
INVARIANTS NoByteStranded FreeControllerServesKeyboard NoGhostRepeat
PROPERTY OverflowEnds
