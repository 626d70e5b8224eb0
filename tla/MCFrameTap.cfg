SPECIFICATION FairSpec
CONSTANTS
    Clients = {c1, c2, c3}
    MaxCopies = 4
INVARIANT OneOwner
PROPERTY RequestsEnd
