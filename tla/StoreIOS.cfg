CONSTANTS
    StorageKey = {list, session}
    LongKey = {list}
    Short = {short}
    Long = {long1, long2}
    Missing = Missing
    MaxCalls = 2
    MaxFaults = 2
SPECIFICATION Spec
SYMMETRY LongSymmetry
INVARIANTS TypeOK Kept
PROPERTIES ImplementsStore
