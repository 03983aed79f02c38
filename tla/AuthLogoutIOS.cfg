CONSTANTS
    StorageKey = {"useradminprivatekey", "usermemberprivatekey", "userloggedkey"}
    LongKey = {"useradminprivatekey", "usermemberprivatekey"}
    Long <- EveryList
    Missing = Missing
    Platform = "ios"
    Email = {ann}
    NoEmail = NoEmail
    MaxTaps = 1
    MaxFaults = 1
    MaxDeletions = 0
    MaxInterrupts = 1
SPECIFICATION Spec
PROPERTIES RemovedForGood
CHECK_DEADLOCK FALSE
