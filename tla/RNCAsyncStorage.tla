--------------------------- MODULE RNCAsyncStorage ---------------------------
(***************************************************************************)
(* AsyncStorage on iOS as RNCAsyncStorage.m keeps it.  Values up to        *)
(* RCTInlineValueThreshold characters (Short) are in the manifest, longer  *)
(* ones (Long) in a file each, to which the manifest's null refers, and in *)
(* a cache that the system may empty.  One serial queue runs the calls; a  *)
(* call touches files first and writes the manifest last, and the process  *)
(* can die in between.                                                     *)
(*                                                                         *)
(* Whatever reads or writes a file can fail (the device is locked, the     *)
(* disk is full).  A call is identified by its key: nothing here looks at  *)
(* the continuation.                                                       *)
(***************************************************************************)
EXTENDS Integers, SequencesExt

CONSTANTS
    StorageKey,
    LongKey,        \* keys that are given long values too
    Short, Long,
    Missing,        \* nil: no such entry, no such file
    MaxCalls,       \* bound: calls and callbacks under way
    MaxFaults       \* bound: calls that fail

InFile == "null"    \* kCFNull in the manifest: "there may be a data file"

ASSUME ValueAssumption ==
    /\ LongKey \subseteq StorageKey
    /\ Short \cap Long = {} /\ Missing \notin Short \cup Long
    /\ InFile \notin Short \cup Long \cup {Missing}
    /\ MaxCalls \in Nat \ {0} /\ MaxFaults \in Nat

VARIABLES
    manifest,       \* _manifest: key -> short value, InFile or Missing
    haveSetup,      \* _haveSetup
    haveDirectory,  \* RCTHasCreatedStorageDirectory
    cache,          \* RCTGetCache(): key -> long value or Missing
    manifestFile, files,
    requests, replies,
    underWay,       \* <<>>, or <<the call that has its last write to come>>
    faults,
    may,            \* history: key -> what its caller must expect to find
    filesFailed     \* history: a call failed at the file of a value

memory == <<manifest, haveSetup, haveDirectory, cache>>
onFiles == <<manifestFile, files>>
vars == <<memory, onFiles, requests, replies, underWay, faults, may, filesFailed>>

\* What the call that is about to run finds: a nil manifest is read first.
Loaded == IF haveSetup THEN manifest ELSE manifestFile

\* What getItem answers, what it answers with the cache emptied, and what a
\* restart finds.
Visible ==
    [key \in StorageKey |->
        IF Loaded[key] # InFile THEN Loaded[key]
        ELSE IF cache[key] # Missing THEN cache[key]
        ELSE files[key]]

Uncached ==
    [key \in StorageKey |-> IF Loaded[key] = InFile THEN files[key] ELSE Loaded[key]]

OnDisk ==
    [key \in StorageKey |->
        IF manifestFile[key] = InFile THEN files[key] ELSE manifestFile[key]]

\* The abstract store sees a call when its callback is sent, and until then
\* what was there before under the call's key.
Before(now, name) ==
    [key \in StorageKey |->
        IF underWay # <<>> /\ key = Head(requests).key THEN underWay[1][name]
        ELSE now[key]]

Mem == Before(Visible, "mem")
Staged == Before(Uncached, "staged")
Disk == Before(OnDisk, "disk")
Up == IF underWay = <<>> THEN haveSetup ELSE underWay[1].haveSetup

Store == INSTANCE AsyncStorage WITH
    Platform <- "ios",
    MaxDeletions <- 0, deletions <- 0,
    mem <- Mem, staged <- Staged, disk <- Disk,
    haveSetup <- Up

-----------------------------------------------------------------------------
(* The calls.                                                              *)

Ready(op) == underWay = <<>> /\ requests # <<>> /\ Head(requests).op = op

Key == Head(requests).key
Value == Head(requests).value

MayFail == faults < MaxFaults

\* callback(@[errors, result])
Callback(error, value) ==
    /\ replies' = Append(replies, [error |-> error, call |-> Head(requests).call,
                                   value |-> value])
    /\ requests' = Tail(requests)
    /\ faults' = IF error THEN faults + 1 ELSE faults

\* _ensureSetup has succeeded; the manifest is now the given one.
SetUp(newManifest) ==
    /\ manifest' = newManifest
    /\ haveSetup' = TRUE /\ haveDirectory' = TRUE

\* _ensureSetup fails: there is no directory, or the manifest cannot be read.
FailToSetUp ==
    /\ underWay = <<>> /\ requests # <<>> /\ MayFail
    /\ \/ ~haveDirectory /\ UNCHANGED haveDirectory
       \/ ~haveSetup /\ haveDirectory' = TRUE
    /\ Callback(TRUE, Missing)
    /\ UNCHANGED <<manifest, haveSetup, cache, onFiles, underWay, may, filesFailed>>

\* Mutant: a file is looked up in the cache only.
GetFromCache ==
    /\ Ready("get")
    /\ Callback(FALSE, IF Loaded[Key] = InFile THEN cache[Key] ELSE Loaded[Key])
    /\ SetUp(Loaded)
    /\ UNCHANGED <<cache, onFiles, underWay, may, filesFailed>>

\* The value is in the manifest or in the cache.
GetFromMemory ==
    /\ Ready("get")
    /\ Loaded[Key] # InFile \/ cache[Key] # Missing
    /\ Callback(FALSE, Visible[Key])
    /\ SetUp(Loaded)
    /\ UNCHANGED <<cache, onFiles, underWay, may, filesFailed>>

GetFromFile ==
    /\ Ready("get")
    /\ Loaded[Key] = InFile /\ cache[Key] = Missing
    /\ files[Key] # Missing
    /\ Callback(FALSE, files[Key])
    /\ SetUp(Loaded)
    /\ cache' = [cache EXCEPT ![Key] = files[Key]]
    /\ UNCHANGED <<onFiles, underWay, may, filesFailed>>

\* "file does not exist after all, so remove from manifest"
GetWithoutFile ==
    /\ Ready("get")
    /\ Loaded[Key] = InFile /\ cache[Key] = Missing
    /\ files[Key] = Missing
    /\ Callback(FALSE, Missing)
    /\ SetUp([Loaded EXCEPT ![Key] = Missing])
    /\ UNCHANGED <<cache, onFiles, underWay, may, filesFailed>>

\* A file that exists and cannot be read is dropped in the same way, and the
\* next write of the manifest makes that last.
FailToReadFile ==
    /\ Ready("get") /\ MayFail
    /\ Loaded[Key] = InFile /\ cache[Key] = Missing
    /\ files[Key] # Missing
    /\ Callback(TRUE, Missing)
    /\ SetUp([Loaded EXCEPT ![Key] = Missing])
    /\ may' = [may EXCEPT ![Key] = @ \cup {Missing}]
    /\ filesFailed' = TRUE
    /\ UNCHANGED <<cache, onFiles, underWay>>

\* The call has changed files and memory, the manifest is still to be written.
Entered(changed) ==
    /\ underWay' = <<[changed |-> changed, mem |-> Visible[Key], staged |-> Uncached[Key],
                      disk |-> OnDisk[Key], haveSetup |-> haveSetup]>>
    /\ UNCHANGED <<manifestFile, requests, replies, faults, filesFailed>>

\* removeItemAtPath:error:nil, which may leave the file where it is.
RemoveFile ==
    IF Loaded[Key] = InFile
    THEN /\ files' \in {files, [files EXCEPT ![Key] = Missing]}
         /\ cache' = [cache EXCEPT ![Key] = Missing]
    ELSE UNCHANGED <<files, cache>>

\* Mutant: the threshold is not looked at.
WriteInline ==
    /\ Ready("set")
    /\ SetUp([Loaded EXCEPT ![Key] = Value])
    /\ RemoveFile
    /\ Entered(TRUE)
    /\ may' = [may EXCEPT ![Key] = @ \cup {Value}]

\* Mutant: the manifest goes on referring to the file of a value that was long.
WriteShortBesideFile ==
    /\ Ready("set") /\ Value \in Short
    /\ SetUp(IF Loaded[Key] = InFile THEN Loaded ELSE [Loaded EXCEPT ![Key] = Value])
    /\ RemoveFile
    /\ Entered(TRUE)
    /\ may' = [may EXCEPT ![Key] = @ \cup {Value}]

\* A short value goes into the manifest.  One that replaces a long value has
\* removed the file before the manifest is written, so neither may be found.
WriteShort ==
    /\ Ready("set") /\ Value \in Short
    /\ SetUp([Loaded EXCEPT ![Key] = Value])
    /\ RemoveFile
    /\ Entered(TRUE)
    /\ may' = [may EXCEPT ![Key] = @ \cup {Value}
                                     \cup (IF Loaded[Key] = InFile THEN {Missing} ELSE {})]

\* A long value goes into its file, and the manifest is changed only when it
\* does not refer to the file yet.
WriteLong ==
    /\ Ready("set") /\ Value \in Long
    /\ SetUp([Loaded EXCEPT ![Key] = InFile])
    /\ files' = [files EXCEPT ![Key] = Value]
    /\ cache' = [cache EXCEPT ![Key] = Value]
    /\ Entered(Loaded[Key] # InFile)
    /\ may' = [may EXCEPT ![Key] = @ \cup {Value}]

\* The file is as it was, the cache has the new value all the same.
FailToWriteFile ==
    /\ Ready("set") /\ Value \in Long /\ MayFail
    /\ SetUp(Loaded)
    /\ cache' = [cache EXCEPT ![Key] = Value]
    /\ Callback(TRUE, Missing)
    /\ may' = [may EXCEPT ![Key] = @ \cup {Value}]
    /\ filesFailed' = TRUE
    /\ UNCHANGED <<onFiles, underWay>>

RemoveEntry ==
    /\ Ready("remove")
    /\ SetUp([Loaded EXCEPT ![Key] = Missing])
    /\ RemoveFile
    /\ Entered(Loaded[Key] # Missing)
    /\ may' = [may EXCEPT ![Key] = @ \cup {Missing}]

\* _writeManifest, if there is a change, and the callback.
WriteManifest ==
    /\ underWay # <<>> /\ underWay[1].changed
    /\ manifestFile' = manifest
    /\ Callback(FALSE, Missing)
    /\ may' = [may EXCEPT ![Key] = {Value}]
    /\ underWay' = <<>>
    /\ UNCHANGED <<memory, files, filesFailed>>

FailToWriteManifest ==
    /\ underWay # <<>> /\ underWay[1].changed /\ MayFail
    /\ Callback(TRUE, Missing)
    /\ underWay' = <<>>
    /\ UNCHANGED <<memory, onFiles, may, filesFailed>>

\* The manifest in memory had the change already.  If it was never written, what
\* is on disk is an earlier value, and has to be expected still.
SkipManifest ==
    /\ underWay # <<>> /\ ~underWay[1].changed
    /\ Callback(FALSE, Missing)
    /\ may' = [may EXCEPT ![Key] =
                 IF manifestFile[Key] = manifest[Key] THEN {Value}
                 ELSE {Value} \cup (@ \cap {OnDisk[Key]})]
    /\ underWay' = <<>>
    /\ UNCHANGED <<memory, onFiles, filesFailed>>

-----------------------------------------------------------------------------
(* JavaScript and the system.                                              *)

Request ==
    {Store!GetItem(key, key) : key \in StorageKey}
    \cup {Store!RemoveItem(key, key) : key \in StorageKey}
    \cup {Store!SetItem(key, value, key) : key \in StorageKey, value \in Short}
    \cup {Store!SetItem(key, value, key) : key \in LongKey, value \in Long}

Call ==
    /\ Len(requests) + Len(replies) < MaxCalls
    /\ \E r \in Request : requests' = Append(requests, r)
    /\ UNCHANGED <<memory, onFiles, replies, underWay, faults, may, filesFailed>>

RunCallback ==
    /\ replies # <<>>
    /\ replies' = Tail(replies)
    /\ UNCHANGED <<memory, onFiles, requests, underWay, faults, may, filesFailed>>

\* NSCache drops what it likes, and everything on a memory warning.
Evict(key) ==
    /\ cache[key] # Missing
    /\ cache' = [cache EXCEPT ![key] = Missing]
    /\ UNCHANGED <<manifest, haveSetup, haveDirectory, onFiles, requests, replies,
                   underWay, faults, may, filesFailed>>

NoEntry == [key \in StorageKey |-> Missing]

Crash ==
    /\ manifest' = NoEntry /\ cache' = NoEntry
    /\ haveSetup' = FALSE /\ haveDirectory' = FALSE
    /\ requests' = <<>> /\ replies' = <<>> /\ underWay' = <<>>
    /\ UNCHANGED <<onFiles, faults, may, filesFailed>>

Init ==
    /\ manifest = NoEntry /\ cache = NoEntry
    /\ haveSetup = FALSE /\ haveDirectory = FALSE
    /\ manifestFile = NoEntry /\ files = NoEntry
    /\ requests = <<>> /\ replies = <<>> /\ underWay = <<>>
    /\ faults = 0
    /\ may = [key \in StorageKey |-> {Missing}]
    /\ filesFailed = FALSE

QueueStep ==
    \/ FailToSetUp
    \/ GetFromMemory \/ GetFromFile \/ GetWithoutFile \/ FailToReadFile
    \/ WriteShort \/ WriteLong \/ FailToWriteFile
    \/ RemoveEntry
    \/ WriteManifest \/ FailToWriteManifest \/ SkipManifest

Next ==
    \/ QueueStep
    \/ Call \/ RunCallback
    \/ \E key \in StorageKey : Evict(key)
    \/ Crash

Spec == Init /\ [][Next]_vars

-----------------------------------------------------------------------------
(* Properties.                                                             *)

TypeOK ==
    /\ manifest \in [StorageKey -> Short \cup {InFile, Missing}]
    /\ manifestFile \in [StorageKey -> Short \cup {InFile, Missing}]
    /\ cache \in [StorageKey -> Long \cup {Missing}]
    /\ files \in [StorageKey -> Long \cup {Missing}]
    /\ haveSetup \in BOOLEAN /\ haveDirectory \in BOOLEAN
    /\ haveSetup => haveDirectory
    /\ faults \in 0..MaxFaults
    /\ filesFailed \in BOOLEAN
    /\ may \in [StorageKey -> SUBSET (Short \cup Long \cup {Missing})]

\* Whatever fails, whenever the cache is emptied and the process dies, neither a
\* read nor a restart finds anything but the last acknowledged value or that of
\* a later call that failed or was cut short; Missing only where a long value was
\* being shortened or its file could not be read; and an older value only where
\* the manifest in memory was never written and a later call skipped it.
Kept ==
    underWay = <<>> =>
        \A key \in StorageKey : {Visible[key], OnDisk[key]} \subseteq may[key]

\* This is the store the screens are modelled with: calls take effect one at a
\* time, in order, and a restart finds them all, but for the ones reported as
\* failed, whichever of the writes it was and wherever the process died.
StoreNext ==
    \/ Store!Execute \/ Store!Fail \/ Store!Restart(<<>>)
    \/ \E key \in StorageKey : Store!Evict(key)
    \/ \E r \in Request : Store!Answered(Append(requests, r), replies)
    \/ replies # <<>> /\ Store!Answered(requests, Tail(replies))

ImplementsStore ==
    /\ Store!StorageInit(<<>>)
    /\ [][StoreNext]_(Store!storageVars)

=============================================================================
