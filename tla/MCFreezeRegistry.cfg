SPECIFICATION FreezeSpec
CONSTANTS
    AddressSpace = 16
    MemTotal = 6
    PageSize = 2
    RamPages = {0, 1}
    Absent = Absent
    Mappings <- MCMappings
    ByteBase = 2
    Addresses <- MCAddresses
    Values = {1, 6}
    MaxEntries = 2
INVARIANT FrozenHolds
