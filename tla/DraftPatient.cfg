CONSTANTS
    StorageKey = {"usermemberprivatekey", "tempmembers"}
    LongKey = {"tempmembers"}
    Long <- LongDrafts
    Missing = Missing
    Platform = "ios"
    Email = {ann, bob}
    MaxTaps = 1
    MaxCalls = 3
    MaxRemounts = 1
    MaxCrashes = 1
    MaxFaults = 0
    MaxDeletions = 0
SPECIFICATION LiveSpec
INVARIANTS NoDraftLeft RowsComplete DraftShowsSaved
PROPERTIES SaveReturns RowsArrive
