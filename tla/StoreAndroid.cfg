CONSTANTS
    StorageKey = {list, session}
    StoredValue = {value1, value2}
    Missing = Missing
    MaxCalls = 2
    MaxFaults = 2
    MaxDeletions = 2
SPECIFICATION LiveSpec
INVARIANTS TypeOK
PROPERTIES ImplementsStore CallsEnd
