CONSTANTS
    StorageKey = {"usermemberprivatekey", "tempmembers"}
    LongKey = {"tempmembers"}
    Long <- LongDrafts
    Missing = Missing
    Platform = "ios"
    Email = {ann, bob}
    MaxTaps = 2
    MaxCalls = 3
    MaxRemounts = 0
    MaxCrashes = 0
    MaxFaults = 1
    MaxDeletions = 0
SPECIFICATION Spec
SYMMETRY EmailSymmetry
VIEW WithoutHistory
INVARIANTS TypeOK ScreensNest RowsRegistered DraftShowsSaved
