SPECIFICATION HSpec
CONSTANTS
    Keys = {k1, k2, k3, k4}
    Values = {0, 1, 2}
    Readers = {r1}
    Capacity = 4
    SlotCount = 3
    SizeOf <- MCSizeOf
    HasBody <- MCHasBody
    NoEntry = NoEntry
    SizeModulus = 16
SYMMETRY Symmetry
PROPERTY
    FifoUnlessInUse
