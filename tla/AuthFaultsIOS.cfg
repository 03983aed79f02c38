CONSTANTS
    StorageKey = {"useradminprivatekey", "usermemberprivatekey", "userloggedkey"}
    LongKey = {"usermemberprivatekey"}
    Long <- EveryList
    Missing = Missing
    Platform = "ios"
    Email = {ann, bob}
    NoEmail = NoEmail
    MaxTaps = 1
    MaxFaults = 2
    MaxDeletions = 0
    MaxInterrupts = 1
SPECIFICATION Spec
SYMMETRY EmailSymmetry
INVARIANTS SessionRegistered
CHECK_DEADLOCK FALSE
