SPECIFICATION Spec
CONSTANTS
    e1 = e1
    e2 = e2
    e3 = e3
    Entries <- MCEntries
    Handlers = {"a", "b"}
    Vals = {0}
    Delays = {0, 1, 5}
    CycleMax = 2
    Sub = 2
    Overshoot = 1
    MaxAdds = 4
    MaxTicks = 2
SYMMETRY Symmetry
INVARIANTS EntriesConserved QueueInOrder QueueIsArmed SliceEndsAtEvent
PROPERTY FiresOnTime
