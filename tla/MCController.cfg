CONSTANTS
    BufferSize = 11
    KbdBufferSize = 1
    Keys = {"a"}
    Length <- KeyLength
    NoRepeat = {"a"}
    Pause = 1
    Rate = 1
    AuxLength = 3
    CopyrightLength = 2
    DumpLength = 10
    GuestCommands <- AllButReadRam
    GuestBytes = {"Echo"}
    StrayBytes = FALSE
SPECIFICATION Spec
INVARIANTS CountersExact
