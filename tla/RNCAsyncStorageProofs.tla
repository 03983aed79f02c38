------------------------ MODULE RNCAsyncStorageProofs ------------------------
(***************************************************************************)
(* Proofs about iOS's store, for any keys, values and bounds: what it      *)
(* keeps whatever fails, and that it implements AsyncStorage.              *)
(***************************************************************************)
EXTENDS RNCAsyncStorage, SequenceTheorems, TLAPS

-----------------------------------------------------------------------------
(* The inductive invariant, in parts.                                      *)

Entry == Short \cup {InFile, Missing}
Content == Short \cup Long \cup {Missing}

\* The call's change is made in memory and, if its value is long, in its file.
Changed ==
    \/ manifest[Key] = Value /\ Value \notin Long
    \/ /\ manifest[Key] = InFile /\ files[Key] = Value
       /\ cache[Key] \in {Missing, Value}

\* A call is under way between its change and the write of the manifest.
CallInv ==
    /\ requests \in Seq(Request)
    /\ underWay # <<>> =>
         /\ requests # <<>> /\ Head(requests).op \in {"set", "remove"}
         /\ haveSetup
         /\ underWay[1].changed \in BOOLEAN
         /\ Changed

\* Only a key with long values is in a file.  A file the manifest on disk does not
\* refer to yet is there: it was written before, by the call that entered it.
FileInv ==
    \A key \in StorageKey :
        /\ Loaded[key] = InFile \/ manifestFile[key] = InFile => key \in LongKey
        /\ Loaded[key] = InFile /\ manifestFile[key] # InFile => files[key] # Missing

\* Kept holds within a call as well, of the cache and of the file it hides.
KeptInv ==
    \A key \in StorageKey :
        /\ Loaded[key] # InFile => Loaded[key] \in may[key]
        /\ Loaded[key] = InFile =>
             /\ files[key] \in may[key]
             /\ cache[key] # Missing => cache[key] \in may[key]
        /\ OnDisk[key] \in may[key]

SafeInv == TypeOK /\ CallInv /\ FileInv /\ KeptInv

\* What a call has done when its manifest is still to be written, in terms of what
\* was found under its key: whether its manifest had null there decided whether
\* it changes, and the disk is as it was or has the change to the file.
Counts(was) == was.disk \in Long \/ (was.disk = Missing /\ was.staged \notin Long)

Changes(r, was, refers) ==
    \/ r.op = "set" /\ ~(r.value \in Long /\ refers)
    \/ r.op = "remove" /\ (refers \/ was.staged # Missing)

Progress(r, was, onDisk) ==
    /\ \E refers \in BOOLEAN :
          /\ IF was.staged = Missing THEN refers => was.disk = Missing
             ELSE refers <=> was.staged \in Long
          /\ was.changed <=> Changes(r, was, refers)
    /\ was.staged \in Long \/ was.disk \in Long => r.key \in LongKey
    /\ \/ onDisk = was.disk
       \/ /\ Counts(was) /\ (r.value \in Long \/ was.staged \in Long)
          /\ onDisk = IF r.value \in Long THEN r.value ELSE Missing
    /\ ~was.changed =>
         onDisk = IF r.value \in Long /\ Counts(was) THEN r.value ELSE was.disk

ProgressInv ==
    underWay # <<>> => Progress(Head(requests), underWay[1], OnDisk[Key])

IInv == SafeInv /\ ProgressInv

-----------------------------------------------------------------------------
(* Requests, and what a call finds.                                        *)

\* A get or a removal asks for no value, a set for a short one or, if the key has
\* long values, for a long one.
LEMMA RequestIs ==
    ASSUME NEW r \in Request
    PROVE  /\ r.op \in {"get", "set", "remove"}
           /\ r.key \in StorageKey /\ r.call = r.key
           /\ r.op # "set" => r.value = Missing
           /\ r.op = "set" => \/ r.value \in Short
                              \/ r.value \in Long /\ r.key \in LongKey
BY ValueAssumption
   DEF Request, Store!GetItem, Store!SetItem, Store!RemoveItem

\* The call at the head of the queue, and the queue without it.
LEMMA HeadIs ==
    ASSUME requests \in Seq(Request), requests # <<>>
    PROVE  /\ Head(requests) \in Request
           /\ Tail(requests) \in Seq(Request)
           /\ Key \in StorageKey
           /\ Value \in Content
           /\ Value \in Long => Key \in LongKey
           /\ Head(requests).op # "set" => Value = Missing
           /\ Head(requests).op = "set" => Value # Missing
<1>1. Head(requests) \in Request /\ Tail(requests) \in Seq(Request)
  BY HeadTailProperties
<1> QED BY <1>1, RequestIs, ValueAssumption DEF Key, Value, Content

\* The manifest a call finds.
LEMMA LoadedIs ==
    ASSUME TypeOK
    PROVE  Loaded \in [StorageKey -> Entry]
BY DEF TypeOK, Loaded, Entry

\* The manifest a call finds after one that has set up.
LEMMA SetUpIs ==
    ASSUME NEW M, SetUp(M)
    PROVE  Loaded' = M /\ manifest' = M /\ haveSetup' = TRUE /\ haveDirectory' = TRUE
BY DEF SetUp, Loaded

-----------------------------------------------------------------------------
(* What the store keeps, whatever fails.                                   *)

LEMMA SafeInit == Init => SafeInv
<1> SUFFICES ASSUME Init PROVE SafeInv
  OBVIOUS
<1> USE ValueAssumption
<1>1. TypeOK
  <2>1. /\ haveSetup \in BOOLEAN /\ haveDirectory \in BOOLEAN /\ filesFailed \in BOOLEAN
        /\ haveSetup => haveDirectory
    BY Zenon DEF Init
  <2> QED BY <2>1 DEF Init, TypeOK, NoEntry
<1>2. CallInv
  BY EmptySeq DEF Init, CallInv
<1>3. FileInv /\ KeptInv
  BY DEF Init, FileInv, KeptInv, Loaded, OnDisk, NoEntry
<1> QED BY <1>1, <1>2, <1>3 DEF SafeInv

\* The steps of the serial queue.
LEMMA SafeQueueStep ==
    ASSUME SafeInv, QueueStep
    PROVE  SafeInv'
<1> USE ValueAssumption
<1>1. TypeOK /\ CallInv /\ FileInv /\ KeptInv
  BY DEF SafeInv
<1>2. requests \in Seq(Request) /\ requests # <<>>
  BY <1>1 DEF CallInv, QueueStep, FailToSetUp, Ready, GetFromMemory, GetFromFile,
              GetWithoutFile, FailToReadFile, WriteShort, WriteLong,
              FailToWriteFile, RemoveEntry, WriteManifest, FailToWriteManifest,
              SkipManifest
<1>3. /\ Tail(requests) \in Seq(Request)
      /\ Key \in StorageKey /\ Value \in Content
      /\ Value \in Long => Key \in LongKey
      /\ Head(requests).op # "set" => Value = Missing
  BY <1>2, HeadIs
<1>4. Loaded \in [StorageKey -> Entry]
  BY <1>1, LoadedIs
<1>5. CASE FailToSetUp
  <2>1. /\ UNCHANGED <<Loaded, OnDisk, manifest, haveSetup, cache, files,
                       manifestFile, may, filesFailed>>
        /\ underWay = <<>> /\ underWay' = <<>>
    BY <1>5 DEF FailToSetUp, Loaded, OnDisk, onFiles
  <2>2. TypeOK'
    <3>1. haveDirectory' \in BOOLEAN /\ (haveSetup' => haveDirectory')
      BY <1>1, <1>5, Zenon DEF FailToSetUp, TypeOK
    <3>2. faults' \in 0..MaxFaults
      BY <1>1, <1>5 DEF FailToSetUp, Callback, MayFail, TypeOK
    <3> QED BY <1>1, <2>1, <3>1, <3>2 DEF TypeOK
  <2>3. CallInv'
    BY <1>3, <1>5, <2>1 DEF FailToSetUp, Callback, CallInv
  <2>4. FileInv' /\ KeptInv'
    BY <1>1, <2>1 DEF FileInv, KeptInv
  <2> QED BY <2>2, <2>3, <2>4 DEF SafeInv
<1>6. CASE GetFromMemory
  <2>1. /\ UNCHANGED <<Loaded, OnDisk, cache, files, manifestFile, may, filesFailed>>
        /\ underWay = <<>> /\ underWay' = <<>>
        /\ manifest' = Loaded /\ haveSetup' = TRUE /\ haveDirectory' = TRUE
    BY <1>6, SetUpIs DEF GetFromMemory, OnDisk, onFiles, Ready
  <2>2. TypeOK'
    BY <1>1, <1>4, <1>6, <2>1 DEF GetFromMemory, Callback, TypeOK, Entry
  <2>3. CallInv'
    BY <1>3, <1>6, <2>1 DEF GetFromMemory, Callback, CallInv
  <2>4. FileInv' /\ KeptInv'
    BY <1>1, <2>1 DEF FileInv, KeptInv
  <2> QED BY <2>2, <2>3, <2>4 DEF SafeInv
<1>7. CASE GetFromFile
  <2>1. /\ UNCHANGED <<Loaded, OnDisk, files, manifestFile, may, filesFailed>>
        /\ underWay = <<>> /\ underWay' = <<>>
        /\ manifest' = Loaded /\ haveSetup' = TRUE /\ haveDirectory' = TRUE
        /\ cache' = [cache EXCEPT ![Key] = files[Key]]
    BY <1>7, SetUpIs DEF GetFromFile, OnDisk, onFiles, Ready
  <2>2. TypeOK'
    BY <1>1, <1>4, <1>7, <2>1 DEF GetFromFile, Callback, TypeOK, Entry
  <2>3. CallInv'
    BY <1>3, <1>7, <2>1 DEF GetFromFile, Callback, CallInv
  <2>4. FileInv' /\ KeptInv'
    BY <1>1, <1>3, <2>1 DEF FileInv, KeptInv, TypeOK
  <2> QED BY <2>2, <2>3, <2>4 DEF SafeInv
<1>8. CASE GetWithoutFile
  <2>1. /\ UNCHANGED <<OnDisk, cache, files, manifestFile, may, filesFailed>>
        /\ underWay = <<>> /\ underWay' = <<>>
        /\ manifest' = Loaded' /\ haveSetup' = TRUE /\ haveDirectory' = TRUE
        /\ Loaded' = [Loaded EXCEPT ![Key] = Missing]
        /\ Loaded[Key] = InFile /\ files[Key] = Missing
    BY <1>8, SetUpIs DEF GetWithoutFile, OnDisk, onFiles, Ready
  <2>2. TypeOK'
    BY <1>1, <1>4, <1>8, <2>1 DEF GetWithoutFile, Callback, TypeOK, Entry
  <2>3. CallInv'
    BY <1>3, <1>8, <2>1 DEF GetWithoutFile, Callback, CallInv
  <2>4. FileInv' /\ KeptInv'
    BY <1>1, <1>3, <1>4, <2>1 DEF FileInv, KeptInv
  <2> QED BY <2>2, <2>3, <2>4 DEF SafeInv
<1>9. CASE FailToReadFile
  <2>1. /\ UNCHANGED <<OnDisk, cache, files, manifestFile>>
        /\ underWay = <<>> /\ underWay' = <<>>
        /\ manifest' = Loaded' /\ haveSetup' = TRUE /\ haveDirectory' = TRUE
        /\ Loaded' = [Loaded EXCEPT ![Key] = Missing]
        /\ may' = [may EXCEPT ![Key] = @ \cup {Missing}]
        /\ filesFailed' = TRUE
    BY <1>9, SetUpIs DEF FailToReadFile, OnDisk, onFiles, Ready
  <2>2. TypeOK'
    BY <1>1, <1>3, <1>4, <1>9, <2>1
       DEF FailToReadFile, Callback, MayFail, TypeOK, Entry
  <2>3. CallInv'
    BY <1>3, <1>9, <2>1 DEF FailToReadFile, Callback, CallInv
  <2>4. FileInv' /\ KeptInv'
    BY <1>1, <1>3, <1>4, <2>1 DEF FileInv, KeptInv, TypeOK
  <2> QED BY <2>2, <2>3, <2>4 DEF SafeInv
<1>10. CASE WriteShort
  <2>1. /\ UNCHANGED <<manifestFile, requests, faults>>
        /\ Value \in Short /\ Head(requests).op = "set"
        /\ manifest' = Loaded' /\ haveSetup' = TRUE /\ haveDirectory' = TRUE
        /\ Loaded' = [Loaded EXCEPT ![Key] = Value]
        /\ may' = [may EXCEPT ![Key] = @ \cup {Value}
                     \cup (IF Loaded[Key] = InFile THEN {Missing} ELSE {})]
    BY <1>10, SetUpIs DEF WriteShort, Entered, Ready
  <2>2. /\ files' \in {files, [files EXCEPT ![Key] = Missing]}
        /\ cache' \in {cache, [cache EXCEPT ![Key] = Missing]}
        /\ Loaded[Key] # InFile => files' = files
    BY <1>10 DEF WriteShort, RemoveFile
  <2>3. TypeOK'
    <3>1. filesFailed' \in BOOLEAN
      BY <1>1, <1>10, Zenon DEF WriteShort, Entered, TypeOK
    <3> QED BY <1>1, <1>3, <1>4, <2>1, <2>2, <3>1 DEF TypeOK, Entry
  <2>4. CallInv'
    <3>1. underWay' = <<[changed |-> TRUE, mem |-> Visible[Key],
                         staged |-> Uncached[Key], disk |-> OnDisk[Key],
                         haveSetup |-> haveSetup]>>
      BY <1>10 DEF WriteShort, Entered
    <3>2. Changed'
      BY <1>1, <1>3, <1>4, <2>1 DEF Changed, Key, Value, Entry
    <3> QED BY <1>2, <2>1, <3>1, <3>2 DEF CallInv
  <2>5. FileInv'
    BY <1>1, <1>3, <1>4, <2>1, <2>2 DEF FileInv, TypeOK
  <2>6. KeptInv'
    BY <1>1, <1>3, <1>4, <2>1, <2>2 DEF KeptInv, TypeOK, OnDisk
  <2> QED BY <2>3, <2>4, <2>5, <2>6 DEF SafeInv
<1>11. CASE WriteLong
  <2>1. /\ UNCHANGED <<manifestFile, requests, faults, filesFailed>>
        /\ Value \in Long /\ Head(requests).op = "set"
        /\ manifest' = Loaded' /\ haveSetup' = TRUE /\ haveDirectory' = TRUE
        /\ Loaded' = [Loaded EXCEPT ![Key] = InFile]
        /\ files' = [files EXCEPT ![Key] = Value]
        /\ cache' = [cache EXCEPT ![Key] = Value]
        /\ may' = [may EXCEPT ![Key] = @ \cup {Value}]
    BY <1>11, SetUpIs DEF WriteLong, Entered, Ready
  <2>2. TypeOK'
    BY <1>1, <1>3, <1>4, <2>1 DEF TypeOK, Entry
  <2>3. CallInv'
    <3>1. underWay' = <<[changed |-> Loaded[Key] # InFile, mem |-> Visible[Key],
                         staged |-> Uncached[Key], disk |-> OnDisk[Key],
                         haveSetup |-> haveSetup]>>
      BY <1>11 DEF WriteLong, Entered
    <3>2. Changed'
      BY <1>1, <1>3, <1>4, <2>1 DEF Changed, Key, Value, Entry, TypeOK
    <3> QED BY <1>2, <2>1, <3>1, <3>2 DEF CallInv
  <2>4. FileInv'
    BY <1>1, <1>3, <1>4, <2>1 DEF FileInv, TypeOK
  <2>5. KeptInv'
    BY <1>1, <1>3, <1>4, <2>1 DEF KeptInv, TypeOK, OnDisk
  <2> QED BY <2>2, <2>3, <2>4, <2>5 DEF SafeInv
<1>12. CASE FailToWriteFile
  <2>1. /\ UNCHANGED <<manifestFile, files, Loaded, OnDisk>>
        /\ underWay = <<>> /\ underWay' = <<>>
        /\ Value \in Long
        /\ manifest' = Loaded /\ haveSetup' = TRUE /\ haveDirectory' = TRUE
        /\ cache' = [cache EXCEPT ![Key] = Value]
        /\ may' = [may EXCEPT ![Key] = @ \cup {Value}]
        /\ filesFailed' = TRUE
    BY <1>12, SetUpIs DEF FailToWriteFile, OnDisk, onFiles, Ready
  <2>2. TypeOK'
    BY <1>1, <1>3, <1>4, <1>12, <2>1
       DEF FailToWriteFile, Callback, MayFail, TypeOK, Entry
  <2>3. CallInv'
    BY <1>3, <1>12, <2>1 DEF FailToWriteFile, Callback, CallInv
  <2>4. FileInv'
    BY <1>1, <2>1 DEF FileInv
  <2>5. KeptInv'
    BY <1>1, <1>3, <1>4, <2>1 DEF KeptInv, TypeOK
  <2> QED BY <2>2, <2>3, <2>4, <2>5 DEF SafeInv
<1>13. CASE RemoveEntry
  <2>1. /\ UNCHANGED <<manifestFile, requests, faults, filesFailed>>
        /\ Value = Missing /\ Head(requests).op = "remove"
        /\ manifest' = Loaded' /\ haveSetup' = TRUE /\ haveDirectory' = TRUE
        /\ Loaded' = [Loaded EXCEPT ![Key] = Missing]
        /\ may' = [may EXCEPT ![Key] = @ \cup {Missing}]
    BY <1>3, <1>13, SetUpIs DEF RemoveEntry, Entered, Ready
  <2>2. /\ files' \in {files, [files EXCEPT ![Key] = Missing]}
        /\ cache' \in {cache, [cache EXCEPT ![Key] = Missing]}
    BY <1>13 DEF RemoveEntry, RemoveFile
  <2>3. TypeOK'
    BY <1>1, <1>3, <1>4, <2>1, <2>2 DEF TypeOK, Entry
  <2>4. CallInv'
    <3>1. underWay' = <<[changed |-> Loaded[Key] # Missing, mem |-> Visible[Key],
                         staged |-> Uncached[Key], disk |-> OnDisk[Key],
                         haveSetup |-> haveSetup]>>
      BY <1>13 DEF RemoveEntry, Entered
    <3>2. Changed'
      BY <1>1, <1>3, <1>4, <2>1 DEF Changed, Key, Value, Entry
    <3> QED BY <1>2, <2>1, <3>1, <3>2 DEF CallInv
  <2>5. FileInv'
    BY <1>1, <1>3, <1>4, <2>1, <2>2 DEF FileInv, TypeOK
  <2>6. KeptInv'
    BY <1>1, <1>3, <1>4, <2>1, <2>2 DEF KeptInv, TypeOK, OnDisk
  <2> QED BY <2>3, <2>4, <2>5, <2>6 DEF SafeInv
<1>14. CASE WriteManifest
  <2>1. /\ UNCHANGED <<manifest, cache, files, Loaded, haveSetup, haveDirectory,
                       filesFailed>>
        /\ underWay' = <<>> /\ haveSetup
        /\ manifestFile' = manifest /\ Loaded = manifest
        /\ may' = [may EXCEPT ![Key] = {Value}]
    BY <1>1, <1>14 DEF WriteManifest, CallInv, Loaded, memory
  <2>2. Changed
    BY <1>1, <1>14 DEF WriteManifest, CallInv
  <2>3. TypeOK'
    BY <1>1, <1>3, <1>14, <2>1 DEF WriteManifest, Callback, TypeOK, Content
  <2>4. CallInv'
    BY <1>3, <1>14, <2>1 DEF WriteManifest, Callback, CallInv
  <2>5. FileInv'
    BY <1>1, <2>1 DEF FileInv
  <2>6. KeptInv'
    BY <1>1, <1>3, <2>1, <2>2 DEF KeptInv, Changed, TypeOK, OnDisk, Content
  <2> QED BY <2>3, <2>4, <2>5, <2>6 DEF SafeInv
<1>15. CASE FailToWriteManifest
  <2>1. /\ UNCHANGED <<manifest, cache, files, manifestFile, Loaded, OnDisk,
                       haveSetup, haveDirectory, may, filesFailed>>
        /\ underWay' = <<>>
    BY <1>15 DEF FailToWriteManifest, Loaded, OnDisk, memory, onFiles
  <2>2. TypeOK'
    BY <1>1, <1>15, <2>1 DEF FailToWriteManifest, Callback, MayFail, TypeOK
  <2>3. CallInv'
    BY <1>3, <1>15, <2>1 DEF FailToWriteManifest, Callback, CallInv
  <2>4. FileInv' /\ KeptInv'
    BY <1>1, <2>1 DEF FileInv, KeptInv
  <2> QED BY <2>2, <2>3, <2>4 DEF SafeInv
<1>16. CASE SkipManifest
  <2>1. /\ UNCHANGED <<manifest, cache, files, manifestFile, Loaded, OnDisk,
                       haveSetup, haveDirectory, filesFailed>>
        /\ underWay' = <<>> /\ haveSetup /\ Loaded = manifest
        /\ may' = [may EXCEPT ![Key] =
                     IF manifestFile[Key] = manifest[Key] THEN {Value}
                     ELSE {Value} \cup (@ \cap {OnDisk[Key]})]
    BY <1>1, <1>16 DEF SkipManifest, CallInv, Loaded, OnDisk, memory, onFiles
  <2>2. Changed
    BY <1>1, <1>16 DEF SkipManifest, CallInv
  <2>3. TypeOK'
    <3>1. faults' \in 0..MaxFaults
      BY <1>1, <1>16 DEF SkipManifest, Callback, TypeOK
    <3>2. may' \in [StorageKey -> SUBSET Content]
      BY <1>1, <1>3, <2>1 DEF TypeOK, Content
    <3> QED BY <1>1, <2>1, <3>1, <3>2 DEF TypeOK, Content
  <2>4. CallInv'
    BY <1>3, <1>16, <2>1 DEF SkipManifest, Callback, CallInv
  <2>5. FileInv'
    BY <1>1, <2>1 DEF FileInv
  <2>6. KeptInv'
    <3>1. may'[Key] = IF manifestFile[Key] = manifest[Key] THEN {Value}
                      ELSE {Value} \cup (may[Key] \cap {OnDisk[Key]})
      BY <1>1, <1>3, <2>1 DEF TypeOK
    <3>2. OnDisk[Key] \in may'[Key]
      <4>1. CASE manifestFile[Key] = manifest[Key]
        BY <1>3, <2>2, <3>1, <4>1 DEF Changed, OnDisk, Content
      <4>2. CASE manifestFile[Key] # manifest[Key]
        BY <1>1, <1>3, <3>1, <4>2 DEF KeptInv
      <4> QED BY <4>1, <4>2
    <3>3. \A key \in StorageKey : key # Key => may'[key] = may[key]
      BY <1>1, <2>1 DEF TypeOK
    <3> QED BY <1>1, <1>3, <2>1, <2>2, <3>1, <3>2, <3>3
            DEF KeptInv, Changed, TypeOK, Content
  <2> QED BY <2>3, <2>4, <2>5, <2>6 DEF SafeInv
<1> QED BY <1>5, <1>6, <1>7, <1>8, <1>9, <1>10, <1>11, <1>12, <1>13, <1>14, <1>15,
           <1>16 DEF QueueStep

\* JavaScript calls, and runs callbacks.
LEMMA SafeCalls ==
    ASSUME SafeInv, Call \/ RunCallback
    PROVE  SafeInv'
<1>1. TypeOK /\ CallInv /\ FileInv /\ KeptInv
  BY DEF SafeInv
<1>2. UNCHANGED <<manifest, cache, files, manifestFile, Loaded, OnDisk, haveSetup,
                  haveDirectory, underWay, faults, may, filesFailed>>
  BY DEF Call, RunCallback, Loaded, OnDisk, memory, onFiles
<1>3. /\ requests' \in Seq(Request)
      /\ requests # <<>> => requests' # <<>> /\ Head(requests') = Head(requests)
  <2>1. CASE Call
    <3>1. PICK r \in Request : requests' = Append(requests, r)
      BY <2>1 DEF Call
    <3> QED BY <1>1, <3>1, AppendProperties DEF CallInv
  <2>2. CASE RunCallback
    BY <1>1, <2>2 DEF RunCallback, CallInv
  <2> QED BY <2>1, <2>2
<1>4. TypeOK' /\ FileInv' /\ KeptInv'
  BY <1>1, <1>2 DEF TypeOK, FileInv, KeptInv
<1>5. CallInv'
  BY <1>1, <1>2, <1>3 DEF CallInv, Changed, Key, Value
<1> QED BY <1>4, <1>5 DEF SafeInv

\* The system empties the cache.
LEMMA SafeEvict ==
    ASSUME SafeInv, NEW key \in StorageKey, Evict(key)
    PROVE  SafeInv'
<1>1. TypeOK /\ CallInv /\ FileInv /\ KeptInv
  BY DEF SafeInv
<1>2. /\ UNCHANGED <<manifest, files, manifestFile, Loaded, OnDisk, haveSetup,
                     haveDirectory, requests, underWay, faults, may, filesFailed>>
      /\ cache' = [cache EXCEPT ![key] = Missing]
  BY DEF Evict, Loaded, OnDisk, onFiles
<1>3. TypeOK' /\ FileInv' /\ KeptInv'
  BY <1>1, <1>2 DEF TypeOK, FileInv, KeptInv
<1>4. CallInv'
  <2>1. Changed => Changed'
    BY <1>1, <1>2 DEF Changed, Key, Value, TypeOK
  <2> QED BY <1>1, <1>2, <2>1 DEF CallInv
<1> QED BY <1>3, <1>4 DEF SafeInv

\* The process dies.
LEMMA SafeCrash ==
    ASSUME SafeInv, Crash
    PROVE  SafeInv'
<1>1. TypeOK /\ CallInv /\ FileInv /\ KeptInv
  BY DEF SafeInv
<1>2. /\ UNCHANGED <<files, manifestFile, OnDisk, faults, may, filesFailed>>
      /\ cache' = NoEntry /\ manifest' = NoEntry
      /\ haveSetup' = FALSE /\ haveDirectory' = FALSE
      /\ Loaded' = manifestFile
      /\ requests' = <<>> /\ underWay' = <<>>
  BY DEF Crash, Loaded, OnDisk, onFiles
<1>3. TypeOK'
  BY <1>1, <1>2 DEF TypeOK, NoEntry
<1>4. CallInv'
  BY <1>2, EmptySeq DEF CallInv
<1>5. FileInv' /\ KeptInv'
  BY <1>1, <1>2 DEF FileInv, KeptInv, OnDisk, NoEntry
<1> QED BY <1>3, <1>4, <1>5 DEF SafeInv

LEMMA SafeNext == SafeInv /\ [Next]_vars => SafeInv'
<1> SUFFICES ASSUME SafeInv, [Next]_vars PROVE SafeInv'
  OBVIOUS
<1>1. CASE UNCHANGED vars
  BY <1>1 DEF vars, memory, onFiles, SafeInv, TypeOK, CallInv, FileInv, KeptInv,
              Loaded, OnDisk, Changed, Key, Value, MayFail
<1>2. CASE QueueStep
  BY <1>2, SafeQueueStep
<1>3. CASE Call \/ RunCallback
  BY <1>3, SafeCalls
<1>4. CASE \E key \in StorageKey : Evict(key)
  BY <1>4, SafeEvict
<1>5. CASE Crash
  BY <1>5, SafeCrash
<1> QED BY <1>1, <1>2, <1>3, <1>4, <1>5 DEF Next

LEMMA Safe == Spec => []SafeInv
BY SafeInit, SafeNext, PTL DEF Spec

\* Every variable of the store keeps its type.
THEOREM StoreTypeCorrect == Spec => []TypeOK
<1>1. SafeInv => TypeOK
  BY DEF SafeInv
<1> QED BY <1>1, Safe, PTL

\* Whatever fails, whenever the cache is emptied and the process dies, a read and
\* a restart find a value their caller must expect: the last acknowledged one,
\* but for the exceptions Kept names.
THEOREM NothingElseIsFound == Spec => []Kept
<1>1. SafeInv => Kept
  <2> SUFFICES ASSUME SafeInv, NEW key \in StorageKey
               PROVE  Visible[key] \in may[key] /\ OnDisk[key] \in may[key]
    BY DEF Kept
  <2>1. Visible[key] \in may[key]
    BY DEF SafeInv, KeptInv, Visible
  <2> QED BY <2>1 DEF SafeInv, KeptInv
<1> QED BY <1>1, Safe, PTL

-----------------------------------------------------------------------------
(* What a call has done before it writes the manifest.                     *)

LEMMA ViewsAre ==
    ASSUME TypeOK
    PROVE  /\ Visible \in [StorageKey -> Content]
           /\ Uncached \in [StorageKey -> Content]
           /\ OnDisk \in [StorageKey -> Content]
<1>1. Loaded \in [StorageKey -> Entry]
  BY LoadedIs
<1> QED BY <1>1 DEF TypeOK, Visible, Uncached, OnDisk, Content, Entry

\* What a call that changes something leaves for the manifest to be written.
LEMMA ProgressWrite ==
    ASSUME SafeInv, WriteShort \/ WriteLong \/ RemoveEntry
    PROVE  ProgressInv'
<1> USE ValueAssumption
<1> DEFINE refers == Loaded[Key] = InFile
           was == underWay'[1]
           touched == IF Value \in Long THEN Value ELSE Missing
<1>1. TypeOK /\ FileInv /\ requests \in Seq(Request) /\ requests # <<>>
  BY DEF SafeInv, CallInv, Ready, WriteShort, WriteLong, RemoveEntry
<1>2. /\ Key \in StorageKey /\ Value \in Content
      /\ Head(requests).op # "set" => Value = Missing
  BY <1>1, HeadIs
<1>3. Loaded \in [StorageKey -> Entry]
  BY <1>1, LoadedIs
<1>4. /\ UNCHANGED <<requests, manifestFile>> /\ underWay' # <<>>
      /\ was.staged = Uncached[Key] /\ was.disk = OnDisk[Key]
  BY DEF WriteShort, WriteLong, RemoveEntry, Entered
<1>5. /\ Loaded[Key] = InFile => was.staged = files[Key]
      /\ Loaded[Key] # InFile => was.staged = Loaded[Key]
      /\ manifestFile[Key] = InFile => was.disk = files[Key]
      /\ manifestFile[Key] # InFile => was.disk = manifestFile[Key]
      /\ OnDisk'[Key] = IF manifestFile[Key] = InFile THEN files'[Key]
                        ELSE manifestFile[Key]
  BY <1>2, <1>4 DEF Uncached, OnDisk
<1>6. /\ files[Key] \in Long \cup {Missing}
      /\ manifestFile[Key] \in Entry /\ Loaded[Key] \in Entry
      /\ refers /\ manifestFile[Key] # InFile => files[Key] # Missing
      /\ refers \/ manifestFile[Key] = InFile => Key \in LongKey
  BY <1>1, <1>2, <1>3 DEF TypeOK, FileInv, Entry
<1>0. was.staged \in Long \/ was.disk \in Long => Key \in LongKey
  BY <1>5, <1>6 DEF Entry
<1>7. IF was.staged = Missing THEN refers => was.disk = Missing
      ELSE refers <=> was.staged \in Long
  BY <1>5, <1>6 DEF Entry
<1> SUFFICES /\ was.changed <=> Changes(Head(requests), was, refers)
             /\ \/ OnDisk'[Key] = was.disk
                \/ /\ Counts(was) /\ (Value \in Long \/ was.staged \in Long)
                   /\ OnDisk'[Key] = touched
             /\ ~was.changed =>
                  OnDisk'[Key] = IF Value \in Long /\ Counts(was) THEN Value
                                 ELSE was.disk
  BY <1>0, <1>2, <1>4, <1>7 DEF ProgressInv, Progress, Key, Value
<1>8. CASE WriteLong
  <2>1. /\ Value \in Long /\ Head(requests).op = "set"
        /\ files'[Key] = Value
        /\ was.changed <=> Loaded[Key] # InFile
    BY <1>1, <1>2, <1>8 DEF WriteLong, Ready, Entered, TypeOK
  <2>2. CASE manifestFile[Key] = InFile
    <3>1. Counts(was) /\ OnDisk'[Key] = Value
      BY <1>5, <1>6, <2>1, <2>2 DEF Counts, Entry
    <3> QED BY <2>1, <3>1 DEF Changes, Value
  <2>3. CASE manifestFile[Key] # InFile
    <3>1. OnDisk'[Key] = was.disk
      BY <1>5, <2>3
    <3>2. refers => ~Counts(was)
      BY <1>5, <1>6, <2>3 DEF Counts, Entry
    <3> QED BY <2>1, <3>1, <3>2 DEF Changes, Value
  <2> QED BY <2>2, <2>3
<1>9. CASE WriteShort \/ RemoveEntry
  <2>1. /\ Value \notin Long
        /\ files'[Key] = files[Key] \/ (refers /\ files'[Key] = Missing)
        /\ Head(requests).op \in {"set", "remove"}
    BY <1>1, <1>2, <1>9 DEF WriteShort, RemoveEntry, RemoveFile, Ready, TypeOK
  <2>2. \/ OnDisk'[Key] = was.disk
        \/ /\ Counts(was) /\ was.staged \in Long /\ refers
           /\ OnDisk'[Key] = touched
    BY <1>5, <1>6, <2>1 DEF Counts
  <2>3. was.changed <=> Changes(Head(requests), was, refers)
    <3>1. CASE WriteShort
      BY <2>1, <3>1 DEF WriteShort, Entered, Changes, Value, Ready
    <3>2. CASE RemoveEntry
      <4>1. Head(requests).op = "remove" /\ (was.changed <=> Loaded[Key] # Missing)
        BY <3>2 DEF RemoveEntry, Entered, Ready
      <4> QED BY <1>5, <1>6, <4>1 DEF Changes, Entry
    <3> QED BY <1>9, <3>1, <3>2
  <2>4. refers => was.changed
    <3>1. CASE WriteShort
      BY <3>1 DEF WriteShort, Entered
    <3>2. CASE RemoveEntry
      BY <3>2 DEF RemoveEntry, Entered
    <3> QED BY <1>9, <3>1, <3>2
  <2> QED BY <2>1, <2>2, <2>3, <2>4
<1> QED BY <1>8, <1>9

LEMMA ProgressNext == SafeInv /\ ProgressInv /\ [Next]_vars => ProgressInv'
<1> SUFFICES ASSUME SafeInv, ProgressInv, [Next]_vars PROVE ProgressInv'
  OBVIOUS
<1>1. CASE WriteShort \/ WriteLong \/ RemoveEntry
  BY <1>1, ProgressWrite
<1>2. CASE UNCHANGED <<OnDisk[Key], underWay, Head(requests)>>
  BY <1>2 DEF ProgressInv
<1>3. CASE underWay' = <<>>
  BY <1>3 DEF ProgressInv
<1>4. CASE UNCHANGED vars
  BY <1>4, <1>2 DEF vars, memory, onFiles, OnDisk, Key
<1>5. CASE QueueStep /\ ~(WriteShort \/ WriteLong \/ RemoveEntry)
  <2>1. underWay' = <<>>
    BY <1>5 DEF QueueStep, FailToSetUp, GetFromMemory, GetFromFile, GetWithoutFile,
                FailToReadFile, FailToWriteFile, WriteManifest, FailToWriteManifest,
                SkipManifest, Ready
  <2> QED BY <1>3, <2>1
<1>6. CASE Call \/ RunCallback \/ \E key \in StorageKey : Evict(key)
  <2>1. UNCHANGED <<OnDisk, underWay>>
    BY <1>6 DEF Call, RunCallback, Evict, OnDisk, onFiles
  <2>2. underWay # <<>> => Head(requests') = Head(requests)
    <3>1. CASE Call
      <4>1. PICK r \in Request : requests' = Append(requests, r)
        BY <3>1 DEF Call
      <4> QED BY <4>1, AppendProperties DEF SafeInv, CallInv
    <3> QED BY <1>6, <3>1 DEF RunCallback, Evict
  <2> QED BY <2>1, <2>2 DEF ProgressInv, Key
<1>7. CASE Crash
  BY <1>3, <1>7 DEF Crash
<1> QED BY <1>1, <1>4, <1>5, <1>6, <1>7 DEF Next

LEMMA Inductive == Spec => []IInv
<1>1. Init => ProgressInv
  BY DEF Init, ProgressInv
<1>2. Init => IInv
  BY <1>1, SafeInit DEF IInv
<1>3. IInv /\ [Next]_vars => IInv'
  BY SafeNext, ProgressNext DEF IInv
<1> QED BY <1>2, <1>3, PTL DEF Spec

-----------------------------------------------------------------------------
(* Each step in terms of the abstract store.                               *)

\* Between calls the store is what can be seen.
LEMMA Idle ==
    ASSUME underWay = <<>>
    PROVE  Mem = Visible /\ Staged = Uncached /\ Disk = OnDisk /\ Up = haveSetup
BY DEF Mem, Staged, Disk, Up, Before, Visible, Uncached, OnDisk

LEMMA IdlePrimed ==
    ASSUME underWay' = <<>>
    PROVE  /\ Mem' = Visible' /\ Staged' = Uncached' /\ Disk' = OnDisk'
           /\ Up' = haveSetup'
BY DEF Mem, Staged, Disk, Up, Before, Visible, Uncached, OnDisk

\* Within a call it is what could be seen before, under the call's key.
LEMMA Busy ==
    ASSUME IInv, underWay # <<>>
    PROVE  /\ requests # <<>> /\ Head(requests).op \in {"set", "remove"}
           /\ Key \in StorageKey /\ haveSetup
           /\ Mem = [Visible EXCEPT ![Key] = underWay[1].mem]
           /\ Staged = [Uncached EXCEPT ![Key] = underWay[1].staged]
           /\ Disk = [OnDisk EXCEPT ![Key] = underWay[1].disk]
<1>1. /\ requests \in Seq(Request) /\ requests # <<>> /\ haveSetup
      /\ Head(requests).op \in {"set", "remove"}
  BY DEF IInv, SafeInv, CallInv
<1>2. Key \in StorageKey
  BY <1>1, HeadIs
<1>3. /\ Mem = [Visible EXCEPT ![Key] = underWay[1].mem]
      /\ Staged = [Uncached EXCEPT ![Key] = underWay[1].staged]
      /\ Disk = [OnDisk EXCEPT ![Key] = underWay[1].disk]
  BY DEF Mem, Staged, Disk, Before, Visible, Uncached, OnDisk, Key
<1> QED BY <1>1, <1>2, <1>3

\* A value that is overwritten with what was there before.
LEMMA Overwritten ==
    ASSUME NEW D, NEW T, NEW f \in [D -> T], NEW x \in D, NEW y
    PROVE  [[f EXCEPT ![x] = y] EXCEPT ![x] = f[x]] = f
OBVIOUS

LEMMA WrittenIs ==
    ASSUME NEW store, Head(requests).op # "get"
    PROVE  Store!Written(store, Head(requests)) = [store EXCEPT ![Key] = Value]
BY DEF Store!Written, Key, Value

\* What the abstract store may have on disk after a call, and after a failure.
LEMMA PersistedIs ==
    ASSUME NEW r, NEW refers \in Store!MayRefer(r.key)
    PROVE  /\ Store!ChangesManifest(r, refers) =>
                Store!Written(Staged, r) \in Store!Persisted(r)
           /\ ~Store!ChangesManifest(r, refers) =>
                (IF Store!HasFile(r.key, r.value) /\ Store!FileCounts(r.key)
                 THEN Store!Written(Disk, r) ELSE Disk) \in Store!Persisted(r)
BY DEF Store!Persisted

LEMMA GetPersists ==
    ASSUME NEW r, r.op = "get", NEW refers \in Store!MayRefer(r.key)
    PROVE  Disk \in Store!Persisted(r)
BY PersistedIs DEF Store!ChangesManifest, Store!Written

LEMMA RemainsIs ==
    ASSUME NEW r
    PROVE  /\ Disk \in Store!Remains(r)
           /\ Store!TouchesFile(r) =>
                [Disk EXCEPT ![r.key] = IF Store!HasFile(r.key, r.value) THEN r.value
                                        ELSE Missing]
                  \in Store!Remains(r)
BY DEF Store!Remains

\* Whether the manifest has null for the key is as the abstract store has it.
LEMMA ReferenceIs ==
    ASSUME IInv, underWay = <<>>, NEW key \in StorageKey
    PROVE  (Loaded[key] = InFile) \in Store!MayRefer(key)
<1> USE ValueAssumption
<1>1. Staged[key] = Uncached[key] /\ Disk[key] = OnDisk[key]
  BY Idle
<1>2. /\ Loaded[key] \in Entry /\ manifestFile[key] \in Entry
      /\ files[key] \in Long \cup {Missing}
      /\ Loaded[key] = InFile /\ manifestFile[key] # InFile => files[key] # Missing
      /\ Loaded[key] = InFile => key \in LongKey
  BY LoadedIs DEF IInv, SafeInv, TypeOK, FileInv, Entry
<1>3. /\ Staged[key] = IF Loaded[key] = InFile THEN files[key] ELSE Loaded[key]
      /\ Disk[key] = IF manifestFile[key] = InFile THEN files[key]
                     ELSE manifestFile[key]
  BY <1>1 DEF Uncached, OnDisk
<1>4. IF Staged[key] = Missing THEN Loaded[key] = InFile => Disk[key] = Missing
      ELSE Loaded[key] = InFile <=> Store!HasFile(key, Staged[key])
  BY <1>2, <1>3 DEF Entry, Store!HasFile
<1>5. \A refers \in BOOLEAN :
         (IF Staged[key] = Missing THEN refers => Disk[key] = Missing
          ELSE refers <=> Store!HasFile(key, Staged[key])) => refers \in Store!MayRefer(key)
  BY DEF Store!MayRefer, Store!HasFile
<1> QED BY <1>4, <1>5

\* What a call under way has done is what the abstract store lets it do.
LEMMA ProgressIs ==
    ASSUME IInv, underWay # <<>>
    PROVE  /\ \E refers \in Store!MayRefer(Key) :
                underWay[1].changed <=> Store!ChangesManifest(Head(requests), refers)
           /\ OnDisk \in Store!Remains(Head(requests))
           /\ ~underWay[1].changed =>
                OnDisk = IF Store!HasFile(Key, Value) /\ Store!FileCounts(Key)
                         THEN Store!Written(Disk, Head(requests)) ELSE Disk
<1> DEFINE r == Head(requests)
           was == underWay[1]
<1>1. Progress(r, was, OnDisk[Key])
  BY DEF IInv, ProgressInv
<1>2. OnDisk \in [StorageKey -> Content] /\ Uncached \in [StorageKey -> Content]
  BY ViewsAre DEF IInv, SafeInv
<1>3. /\ Key \in StorageKey /\ r.op # "get"
      /\ Disk = [OnDisk EXCEPT ![Key] = was.disk]
      /\ Staged[Key] = was.staged /\ Disk[Key] = was.disk
  <2>1. /\ Key \in StorageKey /\ r.op # "get"
        /\ Staged = [Uncached EXCEPT ![Key] = was.staged]
        /\ Disk = [OnDisk EXCEPT ![Key] = was.disk]
    BY Busy
  <2> QED BY <1>2, <2>1
<1>0. /\ Value \in Long <=> Store!HasFile(Key, Value)
      /\ was.staged \in Long <=> Store!HasFile(Key, was.staged)
      /\ was.disk \in Long <=> Store!HasFile(Key, was.disk)
  BY <1>1, HeadIs DEF Progress, Key, Store!HasFile, IInv, SafeInv, CallInv
<1>4. /\ Counts(was) <=> Store!FileCounts(Key)
      /\ \A refers : Changes(r, was, refers) <=> Store!ChangesManifest(r, refers)
  BY <1>0, <1>3 DEF Counts, Changes, Store!FileCounts, Store!ChangesManifest, Key, Value
<1>5. \E refers \in Store!MayRefer(Key) :
         was.changed <=> Store!ChangesManifest(r, refers)
  <2>1. PICK refers \in BOOLEAN :
            /\ IF was.staged = Missing THEN refers => was.disk = Missing
               ELSE refers <=> was.staged \in Long
            /\ was.changed <=> Changes(r, was, refers)
    BY <1>1 DEF Progress
  <2>2. refers \in Store!MayRefer(Key)
    BY <1>0, <1>3, <2>1 DEF Store!MayRefer, Store!HasFile
  <2> QED BY <1>4, <2>1, <2>2
<1>6. \A value : [Disk EXCEPT ![Key] = value] = [OnDisk EXCEPT ![Key] = value]
  BY <1>2, <1>3
<1>7. \A value : OnDisk[Key] = value => OnDisk = [Disk EXCEPT ![Key] = value]
  BY <1>2, <1>3, <1>6
<1>8. OnDisk \in Store!Remains(r)
  <2>1. CASE OnDisk[Key] = was.disk
    BY <1>2, <1>3, <2>1, RemainsIs
  <2>2. CASE /\ Counts(was) /\ (Value \in Long \/ was.staged \in Long)
             /\ OnDisk[Key] = IF Value \in Long THEN Value ELSE Missing
    <3>1. Store!TouchesFile(r)
      BY <1>0, <1>3, <1>4, <2>2 DEF Store!TouchesFile, Key, Value
    <3>2. OnDisk = [Disk EXCEPT ![Key] = IF Store!HasFile(Key, Value) THEN Value
                                         ELSE Missing]
      BY <1>0, <1>7, <2>2
    <3> QED BY <3>1, <3>2, RemainsIs DEF Key, Value
  <2> QED BY <1>1, <2>1, <2>2 DEF Progress, Value
<1>9. ~was.changed => OnDisk = IF Store!HasFile(Key, Value) /\ Store!FileCounts(Key)
                               THEN Store!Written(Disk, r) ELSE Disk
  <2>1. ~was.changed => OnDisk[Key] = IF Store!HasFile(Key, Value) /\ Store!FileCounts(Key)
                                      THEN Value ELSE was.disk
    BY <1>0, <1>1, <1>4 DEF Progress, Value
  <2>2. Store!Written(Disk, r) = [Disk EXCEPT ![Key] = Value]
    BY <1>3, WrittenIs
  <2>3. OnDisk[Key] = was.disk => OnDisk = Disk
    BY <1>2, <1>3
  <2> QED BY <1>7, <2>1, <2>2, <2>3
<1> QED BY <1>5, <1>8, <1>9

LEMMA ExecuteIs ==
    ASSUME requests # <<>>, requests' = Tail(requests),
           Mem' = Store!Written(Mem, Head(requests)),
           Staged' = Store!Written(Staged, Head(requests)),
           Disk' \in Store!Persisted(Head(requests)),
           replies' = Append(replies, Store!Answer(Head(requests), FALSE)),
           Up' = TRUE, faults' = faults, filesFailed' = filesFailed
    PROVE  Store!Execute
BY DEF Store!Execute, Store!failures

LEMMA FailIs ==
    ASSUME requests # <<>>, requests' = Tail(requests),
           \/ Store!FailsToSetUp \/ Store!FailsToPersist(Head(requests))
           \/ Store!FailsToWriteFile(Head(requests))
           \/ Store!FailsToReadFile(Head(requests)),
           replies' = Append(replies, Store!Answer(Head(requests), TRUE)),
           faults < MaxFaults, faults' = faults + 1
    PROVE  Store!Fail
BY DEF Store!Fail

LEMMA AnswerIs ==
    ASSUME NEW error \in BOOLEAN, NEW value, Callback(error, value),
           value = IF Head(requests).op = "get" /\ ~error THEN Mem[Key] ELSE Missing
    PROVE  replies' = Append(replies, Store!Answer(Head(requests), error))
BY DEF Callback, Store!Answer, Key

-----------------------------------------------------------------------------
(* It implements the abstract store.                                       *)

\* A get is executed at once, and leaves what is seen as it is.
LEMMA GetExecutes ==
    ASSUME IInv, GetFromMemory \/ GetFromFile \/ GetWithoutFile
    PROVE  Store!Execute
<1> USE ValueAssumption
<1>1. /\ underWay = <<>> /\ underWay' = <<>> /\ haveSetup' = TRUE
      /\ requests # <<>> /\ Head(requests).op = "get"
      /\ UNCHANGED <<manifestFile, files, filesFailed>>
  BY SetUpIs DEF GetFromMemory, GetFromFile, GetWithoutFile, Ready, onFiles
<1>2. Key \in StorageKey
  BY <1>1, HeadIs DEF IInv, SafeInv, CallInv
<1>3. Loaded \in [StorageKey -> Entry] /\ cache \in [StorageKey -> Long \cup {Missing}]
  BY LoadedIs DEF IInv, SafeInv, TypeOK
<1>4. Visible' = Visible /\ Uncached' = Uncached
  <2>1. CASE GetFromMemory
    <3>1. Loaded' = Loaded /\ cache' = cache
      BY <2>1, SetUpIs DEF GetFromMemory
    <3> QED BY <1>1, <3>1 DEF Visible, Uncached
  <2>2. CASE GetFromFile
    <3>1. /\ Loaded' = Loaded /\ cache' = [cache EXCEPT ![Key] = files[Key]]
          /\ cache[Key] = Missing /\ Loaded[Key] = InFile
      BY <2>2, SetUpIs DEF GetFromFile
    <3> QED BY <1>1, <1>2, <1>3, <3>1 DEF Visible, Uncached
  <2>3. CASE GetWithoutFile
    <3>1. /\ Loaded' = [Loaded EXCEPT ![Key] = Missing] /\ cache' = cache
          /\ Loaded[Key] = InFile /\ cache[Key] = Missing /\ files[Key] = Missing
      BY <2>3, SetUpIs DEF GetWithoutFile
    <3> QED BY <1>1, <1>2, <1>3, <3>1 DEF Visible, Uncached
  <2> QED BY <2>1, <2>2, <2>3
<1>5. OnDisk' = OnDisk
  BY <1>1 DEF OnDisk
<1>6. Mem = Visible /\ Mem' = Mem /\ Staged' = Staged /\ Disk' = Disk /\ Up' = TRUE
  BY <1>1, <1>4, <1>5, Idle, IdlePrimed
<1>7. /\ Mem' = Store!Written(Mem, Head(requests))
      /\ Staged' = Store!Written(Staged, Head(requests))
  BY <1>1, <1>6 DEF Store!Written
<1>8. Disk' \in Store!Persisted(Head(requests))
  <2>1. (Loaded[Key] = InFile) \in Store!MayRefer(Head(requests).key)
    BY <1>1, <1>2, ReferenceIs DEF Key
  <2> QED BY <1>1, <1>6, <2>1, GetPersists
<1>9. Callback(FALSE, Visible[Key])
  BY <1>2 DEF GetFromMemory, GetFromFile, GetWithoutFile, Visible
<1>10. replies' = Append(replies, Store!Answer(Head(requests), FALSE))
  BY <1>1, <1>6, <1>9, AnswerIs
<1>11. requests' = Tail(requests) /\ faults' = faults
  BY <1>9 DEF Callback
<1> QED BY <1>1, <1>6, <1>7, <1>8, <1>10, <1>11, ExecuteIs

LEMMA SetUpFails ==
    ASSUME IInv, FailToSetUp
    PROVE  Store!Fail
<1>1. underWay = <<>> /\ underWay' = <<>> /\ requests # <<>>
  BY DEF FailToSetUp
<1>2. UNCHANGED <<Visible, Uncached, OnDisk, haveSetup, filesFailed>>
  BY DEF FailToSetUp, Visible, Uncached, OnDisk, Loaded, onFiles
<1>3. ~haveSetup
  BY Zenon DEF FailToSetUp, IInv, SafeInv, TypeOK
<1>4. Mem' = Mem /\ Staged' = Staged /\ Disk' = Disk /\ Up' = Up /\ ~Up
  BY <1>1, <1>2, <1>3, Idle, IdlePrimed
<1>5. Store!FailsToSetUp
  BY <1>2, <1>4 DEF Store!FailsToSetUp, Store!stores
<1>6. Callback(TRUE, Missing) /\ MayFail
  BY DEF FailToSetUp
<1>7. replies' = Append(replies, Store!Answer(Head(requests), TRUE))
  BY <1>6, AnswerIs
<1>8. requests' = Tail(requests) /\ faults < MaxFaults /\ faults' = faults + 1
  BY <1>6 DEF Callback, MayFail
<1> QED BY <1>1, <1>5, <1>7, <1>8, FailIs

LEMMA ReadFails ==
    ASSUME IInv, FailToReadFile
    PROVE  Store!Fail
<1> USE ValueAssumption
<1> DEFINE r == Head(requests)
<1>1. /\ underWay = <<>> /\ underWay' = <<>> /\ haveSetup' = TRUE
      /\ requests # <<>> /\ r.op = "get" /\ filesFailed' = TRUE
      /\ UNCHANGED <<manifestFile, files, cache>>
      /\ Loaded[Key] = InFile /\ cache[Key] = Missing /\ files[Key] # Missing
      /\ Loaded' = [Loaded EXCEPT ![Key] = Missing]
      /\ Callback(TRUE, Missing) /\ MayFail
  BY SetUpIs DEF FailToReadFile, Ready, onFiles
<1>2. Key \in StorageKey
  BY <1>1, HeadIs DEF IInv, SafeInv, CallInv
<1>3. /\ Loaded \in [StorageKey -> Entry] /\ files[Key] \in Long /\ Key \in LongKey
  BY <1>1, <1>2, LoadedIs DEF IInv, SafeInv, TypeOK, FileInv
<1>4. /\ Visible' = [Visible EXCEPT ![Key] = Missing]
      /\ Uncached' = [Uncached EXCEPT ![Key] = Missing]
      /\ Visible[Key] = files[Key] /\ Uncached[Key] = files[Key]
  BY <1>1, <1>2, <1>3 DEF Visible, Uncached
<1>5. OnDisk' = OnDisk
  BY <1>1 DEF OnDisk
<1>6. /\ Mem' = [Mem EXCEPT ![Key] = Missing]
      /\ Staged' = [Staged EXCEPT ![Key] = Missing]
      /\ Mem[Key] = Staged[Key] /\ Store!HasFile(Key, Staged[Key])
      /\ Disk' = Disk /\ Up' = TRUE
  BY <1>1, <1>3, <1>4, <1>5, Idle, IdlePrimed DEF Store!HasFile
<1>7. Store!FailsToReadFile(r)
  BY <1>1, <1>6 DEF Store!FailsToReadFile, Key
<1>8. replies' = Append(replies, Store!Answer(r, TRUE))
  BY <1>1, AnswerIs
<1>9. requests' = Tail(requests) /\ faults < MaxFaults /\ faults' = faults + 1
  BY <1>1 DEF Callback, MayFail
<1> QED BY <1>1, <1>7, <1>8, <1>9, FailIs

LEMMA FileFails ==
    ASSUME IInv, FailToWriteFile
    PROVE  Store!Fail
<1> USE ValueAssumption
<1> DEFINE r == Head(requests)
<1>1. /\ underWay = <<>> /\ underWay' = <<>> /\ haveSetup' = TRUE
      /\ requests # <<>> /\ r.op = "set" /\ Value \in Long /\ filesFailed' = TRUE
      /\ UNCHANGED <<manifestFile, files, Loaded>>
      /\ cache' = [cache EXCEPT ![Key] = Value]
      /\ Callback(TRUE, Missing) /\ MayFail
  BY SetUpIs DEF FailToWriteFile, Ready, onFiles
<1>2. Key \in StorageKey
  BY <1>1, HeadIs DEF IInv, SafeInv, CallInv
<1>3. cache \in [StorageKey -> Long \cup {Missing}]
  BY DEF IInv, SafeInv, TypeOK
<1>4. /\ Visible' = IF Loaded[Key] = InFile THEN [Visible EXCEPT ![Key] = Value]
                    ELSE Visible
      /\ Uncached' = Uncached /\ OnDisk' = OnDisk
  BY <1>1, <1>2, <1>3 DEF Visible, Uncached, OnDisk
<1>5. Store!Written(Mem, r) = [Mem EXCEPT ![Key] = Value]
  BY <1>1, WrittenIs
<1>6. /\ Mem' = IF Loaded[Key] = InFile THEN Store!Written(Mem, r) ELSE Mem
      /\ Staged' = Staged /\ Disk' = Disk /\ Up' = TRUE
  BY <1>1, <1>4, <1>5, Idle, IdlePrimed
<1>7. (Loaded[Key] = InFile) \in Store!MayRefer(r.key)
  BY <1>1, <1>2, ReferenceIs DEF Key
<1>8. Store!FailsToWriteFile(r)
  <2>1. Store!HasFile(r.key, r.value)
    BY <1>1, HeadIs DEF Store!HasFile, Key, Value, IInv, SafeInv, CallInv
  <2> QED BY <1>1, <1>6, <1>7, <2>1 DEF Store!FailsToWriteFile
<1>9. replies' = Append(replies, Store!Answer(r, TRUE))
  BY <1>1, AnswerIs
<1>10. requests' = Tail(requests) /\ faults < MaxFaults /\ faults' = faults + 1
  BY <1>1 DEF Callback, MayFail
<1> QED BY <1>1, <1>8, <1>9, <1>10, FailIs

\* Until the manifest is written, the abstract store has not seen the call.
LEMMA WriteIsNotSeen ==
    ASSUME IInv, WriteShort \/ WriteLong \/ RemoveEntry
    PROVE  UNCHANGED Store!storageVars
<1>1. /\ underWay = <<>> /\ underWay' # <<>>
      /\ underWay'[1].mem = Visible[Key] /\ underWay'[1].staged = Uncached[Key]
      /\ underWay'[1].disk = OnDisk[Key] /\ underWay'[1].haveSetup = haveSetup
      /\ UNCHANGED <<requests, replies, faults, filesFailed, manifestFile>>
  BY DEF WriteShort, WriteLong, RemoveEntry, Ready, Entered
<1>2. \A key \in StorageKey :
        key # Key => /\ Loaded'[key] = Loaded[key]
                     /\ cache'[key] = cache[key] /\ files'[key] = files[key]
  <2>1. /\ Loaded \in [StorageKey -> Entry]
        /\ cache \in [StorageKey -> Long \cup {Missing}]
        /\ files \in [StorageKey -> Long \cup {Missing}]
    BY LoadedIs DEF IInv, SafeInv, TypeOK
  <2>2. /\ Loaded' \in {[Loaded EXCEPT ![Key] = Value], [Loaded EXCEPT ![Key] = InFile],
                        [Loaded EXCEPT ![Key] = Missing]}
        /\ cache' \in {cache, [cache EXCEPT ![Key] = Value],
                       [cache EXCEPT ![Key] = Missing]}
        /\ files' \in {files, [files EXCEPT ![Key] = Value],
                       [files EXCEPT ![Key] = Missing]}
    <3>1. CASE WriteShort
      BY <3>1, SetUpIs DEF WriteShort, RemoveFile
    <3>2. CASE WriteLong
      BY <3>2, SetUpIs DEF WriteLong
    <3>3. CASE RemoveEntry
      BY <3>3, SetUpIs DEF RemoveEntry, RemoveFile
    <3> QED BY <3>1, <3>2, <3>3
  <2> QED BY <2>1, <2>2
<1>3. \A key \in StorageKey :
        key # Key => /\ Visible'[key] = Visible[key]
                     /\ Uncached'[key] = Uncached[key]
                     /\ OnDisk'[key] = OnDisk[key]
  BY <1>1, <1>2 DEF Visible, Uncached, OnDisk
<1>4. Mem' = Visible /\ Staged' = Uncached /\ Disk' = OnDisk
  <2>1. /\ Mem' = [key \in StorageKey |-> Visible[key]]
        /\ Staged' = [key \in StorageKey |-> Uncached[key]]
        /\ Disk' = [key \in StorageKey |-> OnDisk[key]]
    BY <1>1, <1>3 DEF Mem, Staged, Disk, Before, Key
  <2> QED BY <2>1 DEF Visible, Uncached, OnDisk
<1>5. Mem' = Mem /\ Staged' = Staged /\ Disk' = Disk /\ Up' = Up
  BY <1>1, <1>4, Idle DEF Up
<1> QED BY <1>1, <1>5 DEF Store!storageVars, Store!stores, Store!failures

\* The end of a call whose change is made in memory.
LEMMA EndOfCall ==
    ASSUME IInv, underWay # <<>>, underWay' = <<>>,
           UNCHANGED <<memory, files>>
    PROVE  /\ Mem' = Store!Written(Mem, Head(requests))
           /\ Staged' = Store!Written(Staged, Head(requests))
           /\ manifestFile' = manifest => Disk' = Staged'
           /\ manifestFile' = manifestFile => Disk' = OnDisk
           /\ Up' = TRUE
<1> USE ValueAssumption
<1> DEFINE r == Head(requests)
<1>1. /\ Key \in StorageKey /\ haveSetup /\ r.op # "get"
      /\ Mem = [Visible EXCEPT ![Key] = underWay[1].mem]
      /\ Staged = [Uncached EXCEPT ![Key] = underWay[1].staged]
  BY Busy
<1>2. /\ Loaded = manifest /\ Loaded' = manifest
      /\ cache' = cache /\ files' = files /\ haveSetup' = haveSetup
  BY <1>1 DEF Loaded, memory
<1>3. /\ Visible' = Visible /\ Uncached' = Uncached
      /\ manifestFile' = manifest => OnDisk' = Uncached
      /\ manifestFile' = manifestFile => OnDisk' = OnDisk
  BY <1>2 DEF Visible, Uncached, OnDisk
<1>4. haveSetup' = TRUE
  BY <1>1, <1>2, Zenon DEF IInv, SafeInv, TypeOK
<1>5. Visible[Key] = Value /\ Uncached[Key] = Value
  <2>1. Changed
    BY DEF IInv, SafeInv, CallInv
  <2>2. Value \in Content
    BY HeadIs DEF IInv, SafeInv, CallInv
  <2> QED BY <1>1, <1>2, <2>1, <2>2 DEF Changed, Visible, Uncached, Content
<1>6. Visible \in [StorageKey -> Content] /\ Uncached \in [StorageKey -> Content]
  BY ViewsAre DEF IInv, SafeInv
<1>7. /\ Store!Written(Mem, r) = [Mem EXCEPT ![Key] = Value]
      /\ Store!Written(Staged, r) = [Staged EXCEPT ![Key] = Value]
  BY <1>1, WrittenIs
<1>8. Visible = Store!Written(Mem, r)
  <2>1. [[Visible EXCEPT ![Key] = underWay[1].mem] EXCEPT ![Key] = Visible[Key]]
          = Visible
    BY <1>1, <1>6, Overwritten
  <2> QED BY <1>1, <1>5, <1>7, <2>1, Zenon
<1>9. Uncached = Store!Written(Staged, r)
  <2>1. [[Uncached EXCEPT ![Key] = underWay[1].staged] EXCEPT ![Key] = Uncached[Key]]
          = Uncached
    BY <1>1, <1>6, Overwritten
  <2> QED BY <1>1, <1>5, <1>7, <2>1, Zenon
<1> QED BY <1>3, <1>4, <1>8, <1>9, IdlePrimed

LEMMA ManifestExecutes ==
    ASSUME IInv, WriteManifest
    PROVE  Store!Execute
<1> DEFINE r == Head(requests)
<1>1. /\ underWay # <<>> /\ underWay[1].changed
      /\ underWay' = <<>> /\ manifestFile' = manifest
      /\ UNCHANGED <<memory, files, filesFailed>> /\ Callback(FALSE, Missing)
  BY DEF WriteManifest
<1>2. requests # <<>> /\ r.op \in {"set", "remove"}
  BY <1>1, Busy
<1>3. /\ Mem' = Store!Written(Mem, r) /\ Staged' = Store!Written(Staged, r)
      /\ Disk' = Staged' /\ Up' = TRUE
  BY <1>1, EndOfCall
<1>4. PICK refers \in Store!MayRefer(r.key) : Store!ChangesManifest(r, refers)
  BY <1>1, ProgressIs DEF Key
<1>5. Disk' \in Store!Persisted(r)
  BY <1>3, <1>4, PersistedIs
<1>6. replies' = Append(replies, Store!Answer(r, FALSE))
  BY <1>1, <1>2, AnswerIs
<1>7. requests' = Tail(requests) /\ faults' = faults
  BY <1>1 DEF Callback
<1> QED BY <1>1, <1>2, <1>3, <1>5, <1>6, <1>7, ExecuteIs

LEMMA SkippingExecutes ==
    ASSUME IInv, SkipManifest
    PROVE  Store!Execute
<1> DEFINE r == Head(requests)
<1>1. /\ underWay # <<>> /\ ~underWay[1].changed /\ underWay' = <<>>
      /\ manifestFile' = manifestFile
      /\ UNCHANGED <<memory, files, filesFailed>> /\ Callback(FALSE, Missing)
  BY DEF SkipManifest, onFiles
<1>2. requests # <<>> /\ r.op \in {"set", "remove"}
  BY <1>1, Busy
<1>3. /\ Mem' = Store!Written(Mem, r) /\ Staged' = Store!Written(Staged, r)
      /\ Disk' = OnDisk /\ Up' = TRUE
  BY <1>1, EndOfCall
<1>4. PICK refers \in Store!MayRefer(r.key) : ~Store!ChangesManifest(r, refers)
  BY <1>1, ProgressIs DEF Key
<1>5. OnDisk = IF Store!HasFile(r.key, r.value) /\ Store!FileCounts(r.key)
               THEN Store!Written(Disk, r) ELSE Disk
  BY <1>1, ProgressIs DEF Key, Value
<1>6. Disk' \in Store!Persisted(r)
  BY <1>3, <1>4, <1>5, PersistedIs
<1>7. replies' = Append(replies, Store!Answer(r, FALSE))
  BY <1>1, <1>2, AnswerIs
<1>8. requests' = Tail(requests) /\ faults' = faults
  BY <1>1 DEF Callback
<1> QED BY <1>1, <1>2, <1>3, <1>6, <1>7, <1>8, ExecuteIs

LEMMA ManifestFails ==
    ASSUME IInv, FailToWriteManifest
    PROVE  Store!Fail
<1> DEFINE r == Head(requests)
<1>1. /\ underWay # <<>> /\ underWay[1].changed /\ underWay' = <<>>
      /\ manifestFile' = manifestFile /\ MayFail
      /\ UNCHANGED <<memory, files, filesFailed>> /\ Callback(TRUE, Missing)
  BY DEF FailToWriteManifest, onFiles
<1>2. requests # <<>> /\ r.op \in {"set", "remove"}
  BY <1>1, Busy
<1>3. /\ Mem' = Store!Written(Mem, r) /\ Staged' = Store!Written(Staged, r)
      /\ Disk' = OnDisk /\ Up' = TRUE
  BY <1>1, EndOfCall
<1>4. /\ \E refers \in Store!MayRefer(r.key) : Store!ChangesManifest(r, refers)
      /\ Disk' \in Store!Remains(r)
  BY <1>1, <1>3, ProgressIs DEF Key
<1>5. Store!FailsToPersist(r)
  BY <1>1, <1>3, <1>4 DEF Store!FailsToPersist
<1>6. replies' = Append(replies, Store!Answer(r, TRUE))
  BY <1>1, <1>2, AnswerIs
<1>7. requests' = Tail(requests) /\ faults < MaxFaults /\ faults' = faults + 1
  BY <1>1 DEF Callback, MayFail
<1> QED BY <1>2, <1>5, <1>6, <1>7, FailIs

LEMMA CallsAreQueued ==
    ASSUME IInv, Call \/ RunCallback
    PROVE  StoreNext
<1>1. /\ UNCHANGED <<Visible, Uncached, OnDisk, haveSetup, underWay, faults, filesFailed>>
      /\ Len(requests') >= 0
  BY DEF Call, RunCallback, Loaded, Visible, Uncached, OnDisk, memory, onFiles
<1>2. underWay # <<>> => Head(requests') = Head(requests)
  <2>1. CASE Call
    <3>1. PICK r \in Request : requests' = Append(requests, r)
      BY <2>1 DEF Call
    <3> QED BY <3>1, AppendProperties DEF IInv, SafeInv, CallInv
  <2> QED BY <2>1 DEF RunCallback
<1>3. Mem' = Mem /\ Staged' = Staged /\ Disk' = Disk /\ Up' = Up
  BY <1>1, <1>2 DEF Mem, Staged, Disk, Up, Before
<1>4. UNCHANGED <<Store!stores, Store!failures>> /\ Up' = Up
  BY <1>1, <1>3 DEF Store!stores, Store!failures
<1>5. CASE Call
  <2>1. PICK r \in Request : requests' = Append(requests, r)
    BY <1>5 DEF Call
  <2>2. replies' = replies
    BY <1>5 DEF Call
  <2>3. Store!Answered(Append(requests, r), replies)
    BY <1>4, <2>1, <2>2 DEF Store!Answered
  <2> QED BY <2>3 DEF StoreNext
<1>6. CASE RunCallback
  <2>1. replies # <<>> /\ replies' = Tail(replies) /\ requests' = requests
    BY <1>6 DEF RunCallback
  <2>2. Store!Answered(requests, Tail(replies))
    BY <1>4, <2>1 DEF Store!Answered
  <2> QED BY <2>1, <2>2 DEF StoreNext
<1> QED BY <1>5, <1>6

\* Emptying the cache shows where it is ahead of a file, except under the key of
\* a call that the abstract store has not seen.
LEMMA EvictionShows ==
    ASSUME IInv, NEW key \in StorageKey, Evict(key)
    PROVE  Store!Evict(key) \/ UNCHANGED Store!storageVars
<1>1. /\ UNCHANGED <<Loaded, Uncached, OnDisk, haveSetup, underWay, requests, replies,
                     faults, filesFailed, files>>
      /\ cache' = [cache EXCEPT ![key] = Missing]
  BY DEF Evict, Loaded, Uncached, OnDisk, onFiles
<1>2. cache \in [StorageKey -> Long \cup {Missing}]
  BY DEF IInv, SafeInv, TypeOK
<1>3. Visible' = [Visible EXCEPT ![key] = Uncached[key]]
  BY <1>1, <1>2 DEF Visible, Uncached
<1>4. Staged' = Staged /\ Disk' = Disk /\ Up' = Up
  BY <1>1 DEF Staged, Disk, Up, Before
<1>5. Mem' = Mem \/ Mem' = [Mem EXCEPT ![key] = Staged[key]]
  <2>1. CASE underWay # <<>> /\ key = Key
    <3>1. \A other \in StorageKey : other # Key => Visible'[other] = Visible[other]
      BY <1>3, <2>1 DEF Visible
    <3> QED BY <1>1, <2>1, <3>1 DEF Mem, Before, Key
  <2>2. CASE ~(underWay # <<>> /\ key = Key)
    <3>1. Staged[key] = Uncached[key]
      BY <2>2 DEF Staged, Before, Key
    <3>2. \A other \in StorageKey :
            Visible'[other] = IF other = key THEN Uncached[key] ELSE Visible[other]
      BY <1>3 DEF Visible
    <3>3. \A other \in StorageKey :
            Mem'[other] = IF other = key THEN Uncached[key] ELSE Mem[other]
      BY <1>1, <2>2, <3>2 DEF Mem, Before, Key
    <3> QED BY <3>1, <3>3 DEF Mem, Before
  <2> QED BY <2>1, <2>2
<1>6. CASE Mem' = Mem
  BY <1>1, <1>4, <1>6 DEF Store!storageVars, Store!stores, Store!failures
<1>7. CASE Mem' # Mem
  <2>1. Mem[key] # Staged[key]
    BY <1>5, <1>7 DEF Mem, Before
  <2> QED BY <1>1, <1>4, <1>5, <1>7, <2>1 DEF Store!Evict, Store!failures
<1> QED BY <1>6, <1>7

\* A crash leaves on disk what was there before the call, or its file.
LEMMA CrashRestarts ==
    ASSUME IInv, Crash
    PROVE  Store!Restart(<<>>)
<1>1. /\ UNCHANGED <<OnDisk, files, manifestFile, faults, filesFailed>>
      /\ underWay' = <<>> /\ haveSetup' = FALSE
      /\ cache' = NoEntry /\ Loaded' = manifestFile
      /\ requests' = <<>> /\ replies' = <<>>
  BY DEF Crash, OnDisk, Loaded, onFiles
<1>2. Visible' = OnDisk /\ Uncached' = OnDisk
  BY <1>1 DEF Visible, Uncached, OnDisk, NoEntry
<1>3. Disk' = OnDisk /\ Mem' = Disk' /\ Staged' = Disk' /\ Up' = FALSE
  BY <1>1, <1>2, IdlePrimed
<1>4. \/ Disk' = Disk
      \/ requests # <<>> /\ Disk' \in Store!Remains(Head(requests))
  <2>1. CASE underWay = <<>>
    BY <1>3, <2>1, Idle
  <2>2. CASE underWay # <<>>
    BY <1>3, <2>2, Busy, ProgressIs
  <2> QED BY <2>1, <2>2
<1> QED BY <1>1, <1>3, <1>4 DEF Store!Restart, Store!failures

\* iOS's store is the one the screens are modelled with, whichever writes and
\* reads fail and wherever the process dies: its calls take effect one at a time,
\* in their order, when they are answered, and a restart finds them all but for
\* those reported as failed.
THEOREM StoreImplemented == Spec => ImplementsStore
<1>1. Init => Store!StorageInit(<<>>)
  <2> SUFFICES ASSUME Init PROVE Store!StorageInit(<<>>)
    OBVIOUS
  <2>1. Mem = NoEntry /\ Staged = NoEntry /\ Disk = NoEntry /\ Up = FALSE
    BY Idle DEF Init, NoEntry, Visible, Uncached, OnDisk, Loaded
  <2> QED BY <2>1 DEF Init, NoEntry, Store!StorageInit, Store!NothingStored
<1>2. IInv /\ [Next]_vars => [StoreNext]_(Store!storageVars)
  <2> SUFFICES ASSUME IInv, [Next]_vars
               PROVE  StoreNext \/ UNCHANGED Store!storageVars
    OBVIOUS
  <2>1. CASE UNCHANGED vars
    <3>1. UNCHANGED <<Visible, Uncached, OnDisk, underWay, requests, replies, faults,
                      filesFailed, haveSetup>>
      BY <2>1 DEF vars, memory, onFiles, Visible, Uncached, OnDisk, Loaded
    <3>2. UNCHANGED <<Mem, Staged, Disk, Up>>
      BY <3>1 DEF Mem, Staged, Disk, Up, Before
    <3> QED BY <3>1, <3>2 DEF Store!storageVars, Store!stores, Store!failures
  <2>2. CASE WriteShort \/ WriteLong \/ RemoveEntry
    BY <2>2, WriteIsNotSeen
  <2>3. CASE \E key \in StorageKey : Evict(key)
    BY <2>3, EvictionShows DEF StoreNext
  <2>4. CASE Call \/ RunCallback
    BY <2>4, CallsAreQueued
  <2>5. CASE Crash
    BY <2>5, CrashRestarts DEF StoreNext
  <2>6. CASE GetFromMemory \/ GetFromFile \/ GetWithoutFile
    BY <2>6, GetExecutes DEF StoreNext
  <2>7. CASE WriteManifest \/ SkipManifest
    BY <2>7, ManifestExecutes, SkippingExecutes DEF StoreNext
  <2>8. CASE FailToSetUp \/ FailToWriteManifest
    BY <2>8, SetUpFails, ManifestFails DEF StoreNext
  <2>9. CASE FailToReadFile \/ FailToWriteFile
    BY <2>9, ReadFails, FileFails DEF StoreNext
  <2> QED BY <2>1, <2>2, <2>3, <2>4, <2>5, <2>6, <2>7, <2>8, <2>9
          DEF Next, QueueStep
<1> QED BY <1>1, <1>2, Inductive, PTL DEF Spec, ImplementsStore

=============================================================================
