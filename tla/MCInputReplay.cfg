SPECIFICATION FairSpec
CONSTANTS
    Requests <- MCRequests
    Texts <- MCTexts
    Step = 2
    Slots = 2
    FrameCap = 2
    MaxAge = 3
    MaxHostKeys = 3
INVARIANTS TimingHonoured FramesKept
PROPERTIES KeysEnterBuffer ReplaysEnd
