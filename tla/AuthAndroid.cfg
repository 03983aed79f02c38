CONSTANTS
    StorageKey = {"useradminprivatekey", "usermemberprivatekey", "userloggedkey"}
    LongKey = {}
    Long = {}
    Missing = Missing
    Platform = "android"
    Email = {ann, bob}
    NoEmail = NoEmail
    MaxTaps = 1
    MaxFaults = 1
    MaxDeletions = 1
    MaxInterrupts = 1
SPECIFICATION Spec
SYMMETRY EmailSymmetry
PROPERTIES PromisedSpec RemovedForGood LostTogether
CHECK_DEADLOCK FALSE
