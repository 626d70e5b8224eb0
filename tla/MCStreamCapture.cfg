SPECIFICATION Spec
CONSTANTS
    Formats = {"320x200", "640x480"}
    Levels = {1, 2}
    MaxPadding = 2
    MaxFrames = 4
INVARIANT FilesMatchStates
INVARIANT EndReasonTrue
INVARIANT InSyncWithEmulation
