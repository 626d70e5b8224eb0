SPECIFICATION Spec
CONSTANTS
    c1 = c1
    c2 = c2
    Clients <- MCClients
    Rates = {1, 2}
    MaxTime = 3
    MaxEvents = 4
SYMMETRY Symmetry
INVARIANTS RecordingOrdered EventsOnce 
