CONSTANTS
    StorageKey = {"useradminprivatekey", "usermemberprivatekey", "userloggedkey"}
    LongKey = {"useradminprivatekey", "usermemberprivatekey"}
    Long <- LongLists
    Missing = Missing
    Platform = "ios"
    Email = {ann, bob}
    NoEmail = NoEmail
    MaxTaps = 2
    MaxFaults = 0
    MaxDeletions = 0
    MaxInterrupts = 1
SPECIFICATION Spec
SYMMETRY EmailSymmetry
INVARIANTS EmailsUnique SessionMatchesScreen LogoutNeverInterrupts
