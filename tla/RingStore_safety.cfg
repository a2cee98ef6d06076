SPECIFICATION HSpec
CONSTANTS
    Keys = {k1, k2, k3, k4}
    Values = {0, 1, 2, 5}
    Readers = {r1, r2}
    Capacity = 5
    SlotCount = 3
    SizeOf <- MCSizeOf
    HasBody <- MCHasBody
    NoEntry = NoEntry
    SizeModulus = 16
SYMMETRY Symmetry
INVARIANTS
    TypeOK
    Accounted
    MapMatchesSlots
    PinsExact
    DropHasReason
    DropOnlyBehindPins
    FutileEvictionOnlyBehindPins
    ScanBounded
PROPERTIES
    InUseStays
    Fifo
    ImplementsBoundedCache
CHECK_DEADLOCK TRUE
