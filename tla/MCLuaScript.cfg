CONSTANTS
    Scripts = {"a", "b"}
    Waits = {0, 2}
    Texts <- ShortTexts
    Slots = 4
    MaxFrame = 4
    Nested = FALSE
SPECIFICATION FairSpec
INVARIANTS NoResumeOfDeadThread PolledForItsCall
PROPERTIES CallsHonoured TypeNeverOverflows StalledWaitsEnd
