----------------------------- MODULE AsyncStorage -----------------------------
(***************************************************************************)
(* The key-value store the screens await: getItem, setItem and removeItem  *)
(* of @react-native-async-storage/async-storage.  Every call is queued on  *)
(* one serial native queue (a dispatch queue on iOS, a SerialExecutor on   *)
(* Android) and answered in the order of the queue.  A call carries the    *)
(* continuation of the handler that awaits it, which is the client's.      *)
(*                                                                         *)
(* mem is what getItem answers, disk what a restart finds.  On Android a   *)
(* call is a database transaction, and a database that does not open is    *)
(* deleted.  On iOS the values are in a manifest kept in memory and        *)
(* written as a whole after each change to it.  A Long value has a file of *)
(* its own, to which the manifest's null refers, and a place in a cache;   *)
(* it is in its file before the manifest refers to it.  Writes can fail,   *)
(* so what the manifest in memory and the files amount to, staged, is kept *)
(* apart from what is on disk, and from what the cache still answers.      *)
(* RNCAsyncStorage and SQLiteStorage are the two implementations.          *)
(***************************************************************************)
EXTENDS Integers, SequencesExt

CONSTANTS
    StorageKey,
    LongKey,        \* iOS: the keys whose values may be too long for the manifest
    Long,           \* and those of their values that are
    Missing,        \* null: the key is not stored
    Platform,       \* "ios" or "android"
    MaxFaults,      \* bound: calls that fail
    MaxDeletions    \* bound: Android databases deleted

ASSUME StorageAssumption ==
    /\ LongKey \subseteq StorageKey /\ Missing \notin Long
    /\ Platform \in {"ios", "android"}
    /\ MaxFaults \in Nat /\ MaxDeletions \in Nat

VARIABLES
    mem, disk,      \* StorageKey -> value or Missing
    staged,         \* what the next write of the manifest leaves on disk
    haveSetup,      \* the manifest has been read, the database is open
    requests,       \* calls not executed yet, oldest first
    replies,        \* callbacks JavaScript has not run yet, oldest first
    faults,         \* how many calls have failed
    filesFailed,    \* history: one of them at the file of a value
    deletions       \* how many databases have been deleted

stores == <<mem, disk, staged>>
failures == <<faults, filesFailed, deletions>>
storageVars == <<stores, haveSetup, requests, replies, failures>>

\* A fresh installation, and the first calls of the launched app.
NothingStored == [key \in StorageKey |-> Missing]

StorageInit(calls) ==
    /\ mem = NothingStored
    /\ disk = mem /\ staged = mem
    /\ haveSetup = FALSE
    /\ requests = calls /\ replies = <<>>
    /\ faults = 0 /\ filesFailed = FALSE /\ deletions = 0

GetItem(key, call) ==
    [op |-> "get", key |-> key, value |-> Missing, call |-> call]
SetItem(key, value, call) ==
    [op |-> "set", key |-> key, value |-> value, call |-> call]
RemoveItem(key, call) ==
    [op |-> "remove", key |-> key, value |-> Missing, call |-> call]

\* The store after the request: a removal leaves Missing, its value.
Written(store, r) ==
    IF r.op = "get" THEN store ELSE [store EXCEPT ![r.key] = r.value]

\* iOS: the value is too long for the manifest.
HasFile(key, value) == key \in LongKey /\ value \in Long

\* iOS: whether the manifest in memory has null for the key.  It has for a Long
\* value, and may have for a key that reads as missing: its file is gone since
\* a crash, and the manifest on disk refers to it as well.
MayRefer(key) ==
    IF staged[key] = Missing THEN {refers \in BOOLEAN : refers => disk[key] = Missing}
    ELSE {HasFile(key, staged[key])}

\* iOS writes the manifest only after a change to it: setting a Long value again
\* is none, nor is removing a key that is not in memory.
ChangesManifest(r, refers) ==
    \/ r.op = "set" /\ ~(HasFile(r.key, r.value) /\ refers)
    \/ r.op = "remove" /\ (refers \/ staged[r.key] # Missing)

\* The manifest on disk refers to the key's file, or may.
FileCounts(key) ==
    \/ HasFile(key, disk[key])
    \/ disk[key] = Missing /\ ~HasFile(key, staged[key])

\* Mutant: a removal reaches the copy in memory only.
PersistedSetsOnly(r) == {IF r.op = "set" THEN Written(staged, r) ELSE disk}

\* What the disk may hold after the call.  Writing the manifest writes no file,
\* and a file alone counts only when the manifest on disk refers to it.
Persisted(r) ==
    IF Platform = "android" THEN {Written(disk, r)}
    ELSE {IF ChangesManifest(r, refers) THEN Written(staged, r)
          ELSE IF HasFile(r.key, r.value) /\ FileCounts(r.key) THEN Written(disk, r)
          ELSE disk : refers \in MayRefer(r.key)}

\* iOS: the file of a Long value is written, or the one of the value it had
\* removed, before the manifest.
TouchesFile(r) ==
    /\ r.op # "get" /\ FileCounts(r.key)
    /\ HasFile(r.key, r.value) \/ HasFile(r.key, staged[r.key])

\* What a call that fails or is cut short may leave there.  On Android a row is
\* deleted at once when the activity's end has closed the database and, with it,
\* the transaction.
Remains(r) ==
    {disk} \cup
    (IF Platform = "android"
     THEN IF r.op = "remove" THEN {Written(disk, r)} ELSE {}
     ELSE IF TouchesFile(r)
     THEN {[disk EXCEPT ![r.key] = IF HasFile(r.key, r.value) THEN r.value ELSE Missing]}
     ELSE {})

Answer(r, error) ==
    [error |-> error, call |-> r.call,
     value |-> IF r.op = "get" /\ ~error THEN mem[r.key] ELSE Missing]

Execute ==
    /\ requests # <<>>
    /\ LET r == Head(requests) IN
       /\ mem' = Written(mem, r) /\ staged' = Written(staged, r)
       /\ disk' \in Persisted(r)
       /\ replies' = Append(replies, Answer(r, FALSE))
    /\ requests' = Tail(requests)
    /\ haveSetup' = TRUE
    /\ UNCHANGED failures

\* Android: the transaction is rolled back, as far as there is one.
FailsInDatabase(r) ==
    /\ Platform = "android"
    /\ disk' \in Remains(r) /\ mem' = disk' /\ staged' = disk'
    /\ haveSetup' \in {haveSetup, TRUE}
    /\ UNCHANGED filesFailed

\* iOS: the directory or the manifest cannot be read yet.
FailsToSetUp ==
    /\ Platform = "ios" /\ ~haveSetup
    /\ UNCHANGED <<stores, haveSetup, filesFailed>>

\* iOS: the manifest cannot be written, and the copy in memory has the change.
FailsToPersist(r) ==
    /\ Platform = "ios"
    /\ \E refers \in MayRefer(r.key) : ChangesManifest(r, refers)
    /\ mem' = Written(mem, r) /\ staged' = Written(staged, r)
    /\ disk' \in Remains(r)
    /\ haveSetup' = TRUE
    /\ UNCHANGED filesFailed

\* iOS: the file cannot be written.  It is as it was, the cache has the new value
\* all the same, and the manifest is left alone; it decides whether the cache
\* is looked at.
FailsToWriteFile(r) ==
    /\ Platform = "ios" /\ r.op = "set" /\ HasFile(r.key, r.value)
    /\ \E refers \in MayRefer(r.key) : mem' = IF refers THEN Written(mem, r) ELSE mem
    /\ UNCHANGED <<disk, staged>>
    /\ haveSetup' = TRUE /\ filesFailed' = TRUE

\* iOS: the file exists, is not in the cache and cannot be read, which drops its
\* key from the manifest in memory.
FailsToReadFile(r) ==
    /\ Platform = "ios" /\ r.op = "get"
    /\ HasFile(r.key, staged[r.key]) /\ mem[r.key] = staged[r.key]
    /\ mem' = [mem EXCEPT ![r.key] = Missing]
    /\ staged' = [staged EXCEPT ![r.key] = Missing]
    /\ UNCHANGED disk
    /\ haveSetup' = TRUE /\ filesFailed' = TRUE

Fail ==
    /\ requests # <<>> /\ faults < MaxFaults
    /\ LET r == Head(requests) IN
       /\ \/ FailsInDatabase(r)
          \/ FailsToSetUp \/ FailsToPersist(r)
          \/ FailsToWriteFile(r) \/ FailsToReadFile(r)
       /\ replies' = Append(replies, Answer(r, TRUE))
    /\ requests' = Tail(requests)
    /\ faults' = faults + 1
    /\ UNCHANGED deletions

\* iOS: the system empties the cache, which shows where it was ahead of a file.
Evict(key) ==
    /\ mem[key] # staged[key]
    /\ mem' = [mem EXCEPT ![key] = staged[key]]
    /\ UNCHANGED <<disk, staged, haveSetup, requests, replies, failures>>

\* Android: the oldest call cannot open the database, which is deleted; the
\* call goes on with an empty one.
DeleteDatabase ==
    /\ Platform = "android" /\ deletions < MaxDeletions
    /\ requests # <<>> /\ ~haveSetup
    /\ mem' = NothingStored /\ disk' = mem' /\ staged' = mem'
    /\ deletions' = deletions + 1
    /\ UNCHANGED <<haveSetup, requests, replies, faults, filesFailed>>

\* The process dies: calls and callbacks are gone, the disk stays, with or
\* without what the call under way does.  The store reads it again, and the
\* launched app makes the given first calls.
Restart(calls) ==
    /\ \/ UNCHANGED disk
       \/ requests # <<>> /\ disk' \in Remains(Head(requests))
    /\ mem' = disk' /\ staged' = disk'
    /\ haveSetup' = FALSE
    /\ requests' = calls /\ replies' = <<>>
    /\ UNCHANGED failures

\* JavaScript runs the oldest callback.  calls is what remains queued, with
\* what the handler calls next; others are the callbacks still to run.
Answered(calls, others) ==
    /\ requests' = calls /\ replies' = others
    /\ UNCHANGED <<stores, haveSetup, failures>>

\* Android: the activity is destroyed, which closes the database.
ActivityDestroyed(calls, others) ==
    /\ Platform = "android"
    /\ haveSetup' = FALSE
    /\ requests' = calls /\ replies' = others
    /\ UNCHANGED <<stores, failures>>

=============================================================================
