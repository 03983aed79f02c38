CONSTANTS
    StorageKey = {"useradminprivatekey", "usermemberprivatekey", "userloggedkey"}
    LongKey = {"useradminprivatekey", "usermemberprivatekey"}
    Long <- LongLists
    Missing = Missing
    Platform = "ios"
    Email = {ann, bob}
    NoEmail = NoEmail
    MaxTaps = 1
    MaxFaults = 0
    MaxDeletions = 0
    MaxInterrupts = 2
SPECIFICATION LiveSpec
INVARIANTS TypeOK OneScreen
PROPERTIES PromisedSpec LoadingEnds ScreenFollowsSession
