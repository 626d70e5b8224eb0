SPECIFICATION ImageSpec
CONSTANTS
    NumImageSavers = 2
    MaxQueuedImages = 1
    Buffers = {1, 2, 3, 4, 5}
    GroupedModes <- MCGroupedModes
    Rates = {"dos-rate", "host-rate"}
    MaxRequests = 3
INVARIANT BuffersOwned
PROPERTY ScreenshotsEnd
PROPERTY CloseEnds
