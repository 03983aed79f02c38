------------------------- MODULE SQLiteStorageProofs -------------------------
(***************************************************************************)
(* Proof that SQLiteStorage implements AsyncStorage, for any keys, values  *)
(* and bounds.                                                             *)
(***************************************************************************)
EXTENDS SQLiteStorage, SequenceTheorems, TLAPS

-----------------------------------------------------------------------------
(* Requests, and the queue that tasks and queue are together.              *)

LEMMA RequestFields ==
    ASSUME NEW r \in Request
    PROVE  /\ r.key \in StorageKey
           /\ r.op \in {"get", "set", "remove"}
           /\ r.value \in StoredValue \cup {Missing}
           /\ r.op = "remove" => r.value = Missing
  BY DEF Request, Store!GetItem, Store!SetItem, Store!RemoveItem

LEMMA FirstTask ==
    ASSUME TypeOK, tasks # <<>>
    PROVE  /\ Head(tasks) \in Request
           /\ Tail(tasks) \in Seq(Request)
           /\ tasks \o queue # <<>>
           /\ Head(tasks \o queue) = Head(tasks)
           /\ Tail(tasks \o queue) = Tail(tasks) \o queue
  <1>1. tasks \in Seq(Request) /\ queue \in Seq(Request)
    BY DEF TypeOK
  <1>2. /\ Head(tasks) \in Request /\ Tail(tasks) \in Seq(Request)
        /\ Len(Tail(tasks)) = Len(tasks) - 1
        /\ \A i \in 1..Len(Tail(tasks)) : Tail(tasks)[i] = tasks[i + 1]
    BY <1>1, HeadTailProperties
  <1>3. /\ tasks \o queue \in Seq(Request)
        /\ Len(tasks \o queue) = Len(tasks) + Len(queue)
        /\ \A i \in 1..(Len(tasks) + Len(queue)) :
             (tasks \o queue)[i] =
                IF i <= Len(tasks) THEN tasks[i] ELSE queue[i - Len(tasks)]
    BY <1>1, ConcatProperties
  <1>4. Len(tasks) \in Nat \ {0} /\ Len(queue) \in Nat
    BY <1>1, EmptySeq, LenProperties
  <1>5. tasks \o queue # <<>>
    BY <1>3, <1>4, EmptySeq
  <1>6. Head(tasks \o queue) = Head(tasks)
    BY <1>3, <1>4
  <1>7. Tail(tasks \o queue) = Tail(tasks) \o queue
    <2>1. /\ Tail(tasks \o queue) \in Seq(Request)
          /\ Len(Tail(tasks \o queue)) = Len(tasks) + Len(queue) - 1
          /\ \A i \in 1..(Len(tasks) + Len(queue) - 1) :
               Tail(tasks \o queue)[i] = (tasks \o queue)[i + 1]
      BY <1>3, <1>5, HeadTailProperties
    <2>2. /\ Tail(tasks) \o queue \in Seq(Request)
          /\ Len(Tail(tasks) \o queue) = Len(tasks) - 1 + Len(queue)
          /\ \A i \in 1..(Len(tasks) - 1 + Len(queue)) :
               (Tail(tasks) \o queue)[i] =
                  IF i <= Len(tasks) - 1 THEN Tail(tasks)[i]
                  ELSE queue[i - (Len(tasks) - 1)]
      BY <1>1, <1>2, ConcatProperties
    <2>3. ASSUME NEW i \in 1..(Len(tasks) + Len(queue) - 1)
          PROVE  Tail(tasks \o queue)[i] = (Tail(tasks) \o queue)[i]
      <3>1. i \in Int /\ i + 1 \in 1..(Len(tasks) + Len(queue))
        BY <1>4
      <3>2. CASE i <= Len(tasks) - 1
        BY <1>2, <1>3, <1>4, <2>1, <2>2, <3>1, <3>2
      <3>3. CASE ~(i <= Len(tasks) - 1)
        <4>1. i + 1 - Len(tasks) = i - (Len(tasks) - 1)
          BY <1>4, <3>1
        <4> QED BY <1>3, <1>4, <2>1, <2>2, <3>1, <3>3, <4>1
      <3> QED BY <3>2, <3>3
    <2>4. Len(tasks) + Len(queue) - 1 = Len(tasks) - 1 + Len(queue)
      BY <1>4
    <2> QED BY <2>1, <2>2, <2>3, <2>4, SeqEqual
  <1> QED BY <1>2, <1>5, <1>6, <1>7

LEMMA Written ==
    ASSUME NEW rows \in [StorageKey -> StoredValue \cup {Missing}], NEW r \in Request
    PROVE  /\ Store!Written(rows, r) \in [StorageKey -> StoredValue \cup {Missing}]
           /\ r.op = "get" => Store!Written(rows, r) = rows
           /\ r.op = "remove" => Store!Written(rows, r) = [rows EXCEPT ![r.key] = Missing]
  BY RequestFields DEF Store!Written

-----------------------------------------------------------------------------
(* The inductive invariant.                                                *)

\* What the call under way relies on.  Its transaction has changed no row yet,
\* only a removal that was done at once has; and while the database has been
\* open since the call began, it is open.
CallInv ==
    stage # "idle" =>
        /\ was.open => open
        /\ Head(tasks).op = "get" => stage \in {"ensure", "query"}
        /\ stage = "query" => Head(tasks).op = "get"
        /\ \/ table = was.table
           \/ /\ Head(tasks).op = "remove" /\ transaction = "none"
              /\ stage \in {"commit", "end"}
              /\ table = [was.table EXCEPT ![Head(tasks).key] = Missing]
        /\ tries = 1 => deletions < MaxDeletions

IInv == TypeOK /\ CallInv


LEMMA NoRowsOK ==
    /\ NoRows \in [StorageKey -> StoredValue \cup {Missing}]
    /\ NoCall \in [table : [StorageKey -> StoredValue \cup {Missing}], open : BOOLEAN]
    /\ NoCall.table = NoRows /\ NoCall.open = FALSE
  BY DEF NoRows, NoCall

\* Nothing of a call is left when its callback has been invoked.
LEMMA CallbackInv ==
    ASSUME TypeOK, tasks # <<>>, NEW failed \in BOOLEAN, NEW value,
           failed => MayFail,
           Callback(failed, value), tries' = 0, open' \in BOOLEAN,
           transaction' = "none",
           table' \in [StorageKey -> StoredValue \cup {Missing}]
    PROVE  IInv'
  <1>1. tasks' \in Seq(Request) /\ queue' = queue
    BY FirstTask DEF Callback
  <1>2. stage' = "idle" /\ error' = FALSE /\ was' = NoCall /\ deletions' = deletions
    BY DEF Callback
  <1>3. faults' \in 0..MaxFaults
    BY ValueAssumption DEF TypeOK, Callback, MayFail
  <1>4. was' \in [table : [StorageKey -> StoredValue \cup {Missing}], open : BOOLEAN]
    BY <1>2, NoRowsOK
  <1>5. TypeOK'
    <2>1. error' \in BOOLEAN /\ ~error'
      BY <1>2, Zenon
    <2> QED BY <1>1, <1>2, <1>3, <1>4, <2>1 DEF TypeOK
  <1>6. CallInv'
    BY <1>2 DEF CallInv
  <1> QED BY <1>5, <1>6 DEF IInv

LEMMA InitInv == Init => IInv
  <1> SUFFICES ASSUME Init PROVE IInv
    OBVIOUS
  <1>1. <<>> \in Seq(Request)
    BY EmptySeq
  <1>2. was \in [table : [StorageKey -> StoredValue \cup {Missing}], open : BOOLEAN]
    BY NoRowsOK DEF Init
  <1>3. TypeOK
    <2>1. error \in BOOLEAN /\ ~error /\ open \in BOOLEAN /\ ~open
      BY Zenon DEF Init
    <2> QED BY <1>1, <1>2, <2>1, NoRowsOK, ValueAssumption DEF Init, TypeOK
  <1>4. CallInv
    BY DEF Init, CallInv
  <1> QED BY <1>3, <1>4 DEF IInv

LEMMA ThreadStepInv == IInv /\ ThreadStep => IInv'
  <1> SUFFICES ASSUME IInv, ThreadStep PROVE IInv'
    OBVIOUS
  <1> USE DEF IInv
  <1>1. CASE Start
    <2>1. /\ was' \in [table : [StorageKey -> StoredValue \cup {Missing}], open : BOOLEAN]
          /\ was'.table = table /\ was'.open = open
      BY <1>1 DEF Start, TypeOK
    <2>2. /\ stage = "idle" /\ stage' = "ensure" /\ tasks # <<>> /\ error' = FALSE
          /\ tries = 0 /\ transaction = "none"
      BY <1>1 DEF Start, TypeOK
    <2>3. UNCHANGED <<queue, tasks, table, open, tries, transaction, faults, deletions>>
      BY <1>1 DEF Start, database
    <2>4. TypeOK'
      BY <2>1, <2>2, <2>3 DEF TypeOK
    <2>5. CallInv'
      BY <2>1, <2>2, <2>3 DEF CallInv
    <2> QED BY <2>4, <2>5
  <1>2. CASE FailToOpen
    BY <1>2 DEF FailToOpen, TypeOK, CallInv, thread
  <1>3. CASE DeleteDatabase
    <2>1. stage # "idle" /\ ~open /\ transaction = "none" /\ ~was.open
      BY <1>3 DEF DeleteDatabase, TypeOK, CallInv
    <2>2. deletions' \in 0..MaxDeletions
      BY <1>3, <2>1, ValueAssumption DEF DeleteDatabase, TypeOK, CallInv
    <2>3. /\ was' \in [table : [StorageKey -> StoredValue \cup {Missing}], open : BOOLEAN]
          /\ was'.table = table' /\ was'.open = was.open
      BY <1>3, NoRowsOK DEF DeleteDatabase, TypeOK
    <2> QED BY <1>3, <2>1, <2>2, <2>3, NoRowsOK DEF DeleteDatabase, TypeOK, CallInv
  <1>4. CASE FailToOpenAgain
    <2>1. stage # "idle" /\ ~open /\ transaction = "none" /\ tasks # <<>>
      BY <1>4 DEF FailToOpenAgain, TypeOK
    <2>2. CASE stage = "end" /\ Callback(TRUE, Missing)
      BY <1>4, <2>1, <2>2, CallbackInv DEF FailToOpenAgain, TypeOK
    <2>3. CASE /\ stage \in {"begin", "statement", "commit"}
               /\ stage' = "end" /\ error' = TRUE
               /\ UNCHANGED <<queue, tasks, was, replies, faults, deletions>>
      BY <1>4, <2>1, <2>3 DEF FailToOpenAgain, TypeOK, CallInv
    <2> QED BY <1>4, <2>2, <2>3 DEF FailToOpenAgain
  <1>5. CASE Ensure
    <2>1. tasks # <<>> /\ Head(tasks).op \in {"get", "set", "remove"}
      BY <1>5, FirstTask, RequestFields DEF Ensure, Proceed, TypeOK
    <2> QED BY <1>5, <2>1 DEF Ensure, Proceed, Opened, TypeOK, CallInv
  <1>6. ASSUME NEW failed \in BOOLEAN, Query(failed) PROVE IInv'
    BY <1>6, CallbackInv DEF Query, Opened, TypeOK
  <1>7. CASE Begin
    BY <1>7 DEF Begin, Proceed, Opened, TypeOK, CallInv
  <1>8. CASE Change
    BY <1>8 DEF Change, Proceed, TypeOK, CallInv
  <1>9. CASE RemoveAtOnce
    <2>1. Head(tasks) \in Request /\ Head(tasks).key \in StorageKey
      BY <1>9, FirstTask, RequestFields DEF RemoveAtOnce, Proceed, TypeOK
    <2>2. table' \in [StorageKey -> StoredValue \cup {Missing}]
      BY <1>9, <2>1 DEF RemoveAtOnce, TypeOK
    <2>3. table = was.table
      BY <1>9 DEF RemoveAtOnce, Proceed, CallInv
    <2> QED BY <1>9, <2>2, <2>3 DEF RemoveAtOnce, Proceed, Opened, TypeOK, CallInv, Key
  <1>10. CASE MarkSuccessful
    BY <1>10 DEF MarkSuccessful, Proceed, TypeOK, CallInv
  <1>11. CASE Throw
    BY <1>11 DEF Throw, Opened, TypeOK, CallInv
  <1>12. ASSUME NEW failed \in BOOLEAN, End(failed) PROVE IInv'
    <2>1. tasks # <<>> /\ Head(tasks) \in Request
      BY <1>12, FirstTask DEF End, TypeOK
    <2>2. table' \in [StorageKey -> StoredValue \cup {Missing}]
      BY <1>12, <2>1, Written DEF End, TypeOK
    <2> QED BY <1>12, <2>1, <2>2, CallbackInv DEF End, Opened
  <1> QED BY <1>1, <1>2, <1>3, <1>4, <1>5, <1>6, <1>7, <1>8, <1>9, <1>10, <1>11, <1>12
          DEF ThreadStep

LEMMA OtherStepInv ==
    IInv /\ (Call \/ Flush \/ RunCallback \/ CloseDatabase \/ Crash) => IInv'
  <1> SUFFICES ASSUME IInv, Call \/ Flush \/ RunCallback \/ CloseDatabase \/ Crash
               PROVE  IInv'
    OBVIOUS
  <1> USE DEF IInv
  <1>1. CASE Call
    <2>1. queue' \in Seq(Request)
      BY <1>1, AppendProperties DEF Call, TypeOK
    <2> QED BY <1>1, <2>1 DEF Call, TypeOK, CallInv, thread, database
  <1>2. CASE Flush
    <2>1. tasks' \in Seq(Request) /\ queue' \in Seq(Request)
      BY <1>2, ConcatProperties, EmptySeq DEF Flush, TypeOK
    <2>2. CASE stage = "idle"
      BY <1>2, <2>1, <2>2 DEF Flush, TypeOK, CallInv, thread, database
    <2>3. CASE stage # "idle"
      <3>1. tasks' # <<>> /\ Head(tasks') = Head(tasks)
        BY <1>2, <2>3, FirstTask DEF Flush, TypeOK
      <3> QED BY <1>2, <2>1, <2>3, <3>1 DEF Flush, TypeOK, CallInv, thread, database
    <2> QED BY <2>2, <2>3
  <1>3. CASE RunCallback
    BY <1>3 DEF RunCallback, TypeOK, CallInv, thread, database
  <1>4. CASE CloseDatabase
    <2>1. /\ was' \in [table : [StorageKey -> StoredValue \cup {Missing}], open : BOOLEAN]
          /\ was'.table = was.table /\ was'.open = FALSE
      BY <1>4 DEF CloseDatabase, TypeOK
    <2> QED BY <1>4, <2>1 DEF CloseDatabase, TypeOK, CallInv
  <1>5. CASE Crash
    <2>1. <<>> \in Seq(Request)
      BY EmptySeq
    <2>2. was' \in [table : [StorageKey -> StoredValue \cup {Missing}], open : BOOLEAN]
      BY <1>5, NoRowsOK DEF Crash
    <2>3. TypeOK'
      <3>1. error' \in BOOLEAN /\ ~error' /\ open' \in BOOLEAN /\ ~open'
        BY <1>5, Zenon DEF Crash
      <3> QED BY <1>5, <2>1, <2>2, <3>1 DEF Crash, TypeOK
    <2>4. CallInv'
      BY <1>5 DEF Crash, CallInv
    <2> QED BY <2>3, <2>4
  <1> QED BY <1>1, <1>2, <1>3, <1>4, <1>5

LEMMA StutterInv == IInv /\ UNCHANGED vars => IInv'
  BY DEF IInv, TypeOK, CallInv, vars, thread, database

LEMMA Inductive == Spec => []IInv
  <1>1. IInv /\ [Next]_vars => IInv'
    BY ThreadStepInv, OtherStepInv, StutterInv DEF Next
  <1> QED BY <1>1, InitInv, PTL DEF Spec

\* Every call finds its rows and leaves them of their kind, no transaction
\* outlives its database or its call, and nothing is tried again while the
\* database is open (AsyncStorageModule.java, ReactDatabaseSupplier.java).
THEOREM TypeCorrect == Spec => []TypeOK
  BY Inductive, PTL DEF IInv

-----------------------------------------------------------------------------
(* The refinement.  What the abstract store sees of a state.               *)

LEMMA StoresStay ==
    ASSUME Rows' = Rows, UNCHANGED <<faults, deletions>>
    PROVE  UNCHANGED <<Store!stores, Store!failures>>
  BY DEF Store!stores, Store!failures

LEMMA Stutter ==
    ASSUME Rows' = Rows, IsOpen' = IsOpen, Requests' = Requests,
           UNCHANGED <<replies, faults, deletions>>
    PROVE  UNCHANGED Store!storageVars
  BY DEF Store!storageVars, Store!stores, Store!failures

\* A step within a call that deletes nothing is none of the abstract store's.
LEMMA WithinCall ==
    ASSUME stage # "idle", stage' # "idle",
           UNCHANGED <<queue, tasks, was, replies, faults, deletions>>
    PROVE  UNCHANGED Store!storageVars
  <1>1. Rows' = Rows /\ IsOpen' = IsOpen /\ Requests' = Requests
    BY DEF Rows, IsOpen, Requests
  <1> QED BY <1>1, Stutter

\* The end of the active task, and of the oldest request.
LEMMA CallbackSeen ==
    ASSUME IInv, stage # "idle", NEW failed \in BOOLEAN, NEW value,
           Callback(failed, value)
    PROVE  /\ Requests # <<>> /\ Head(Requests) = Head(tasks)
           /\ Requests' = Tail(Requests)
           /\ Rows = was.table /\ Rows' = table'
           /\ IsOpen = was.open /\ IsOpen' = open'
           /\ replies' = Append(replies, [error |-> failed, call |-> Head(tasks).call,
                                          value |-> value])
           /\ faults' = IF failed THEN faults + 1 ELSE faults
           /\ deletions' = deletions
  <1>1. TypeOK /\ tasks # <<>>
    BY DEF IInv, TypeOK
  <1>2. /\ Requests # <<>> /\ Head(Requests) = Head(tasks)
        /\ Tail(Requests) = Tail(tasks) \o queue
    BY <1>1, FirstTask DEF Requests
  <1>3. Requests' = Tail(tasks) \o queue
    BY DEF Callback, Requests
  <1>4. stage' = "idle"
    BY DEF Callback
  <1> QED BY <1>2, <1>3, <1>4 DEF Rows, IsOpen, Callback

\* What a call has changed before its end: nothing, or it is a removal.
LEMMA LeftByCall ==
    ASSUME IInv, stage # "idle"
    PROVE  \/ table = was.table
           \/ Head(tasks).op = "remove" /\ table = Store!Written(was.table, Head(tasks))
  <1>1. Head(tasks) \in Request
    BY FirstTask DEF IInv, TypeOK
  <1>2. was.table \in [StorageKey -> StoredValue \cup {Missing}]
    BY DEF IInv, TypeOK
  <1> QED BY <1>1, <1>2, Written DEF IInv, CallInv

\* The abstract steps that answer a request, in these terms.
LEMMA ExecuteSeen ==
    ASSUME Requests # <<>>, Requests' = Tail(Requests),
           Rows' = Store!Written(Rows, Head(Requests)), IsOpen' = TRUE,
           replies' = Append(replies,
               [error |-> FALSE, call |-> Head(Requests).call,
                value |-> IF Head(Requests).op = "get" THEN Rows[Head(Requests).key]
                          ELSE Missing]),
           UNCHANGED <<faults, deletions>>
    PROVE  Store!Execute
  <1>1. Rows' \in Store!Persisted(Head(Requests))
    BY DEF Store!Persisted
  <1>2. replies' = Append(replies, Store!Answer(Head(Requests), FALSE))
    BY DEF Store!Answer
  <1> QED BY <1>1, <1>2 DEF Store!Execute, Store!failures

LEMMA FailSeen ==
    ASSUME Requests # <<>>, Requests' = Tail(Requests), faults < MaxFaults,
           \/ Rows' = Rows
           \/ Head(Requests).op = "remove" /\ Rows' = Store!Written(Rows, Head(Requests)),
           IsOpen' \in {IsOpen, TRUE},
           replies' = Append(replies, [error |-> TRUE, call |-> Head(Requests).call,
                                       value |-> Missing]),
           faults' = faults + 1, deletions' = deletions
    PROVE  Store!Fail
  <1>1. Rows' \in Store!Remains(Head(Requests))
    BY DEF Store!Remains
  <1>2. Store!FailsInDatabase(Head(Requests))
    BY <1>1 DEF Store!FailsInDatabase
  <1>3. replies' = Append(replies, Store!Answer(Head(Requests), TRUE))
    BY DEF Store!Answer
  <1> QED BY <1>2, <1>3 DEF Store!Fail

LEMMA StartRefines ==
    ASSUME IInv, Start
    PROVE  UNCHANGED Store!storageVars
  <1>1. /\ stage = "idle" /\ stage' # "idle" /\ was'.table = table /\ was'.open = open
        /\ UNCHANGED <<queue, tasks, replies, faults, deletions>>
    BY DEF Start
  <1> QED BY <1>1, Stutter DEF Rows, IsOpen, Requests

LEMMA DeleteRefines ==
    ASSUME IInv, DeleteDatabase
    PROVE  Store!DeleteDatabase
  <1>1. /\ stage # "idle" /\ stage' = stage /\ tasks # <<>> /\ ~was.open
        /\ deletions < MaxDeletions
    BY DEF IInv, TypeOK, CallInv, DeleteDatabase
  <1>2. was'.table = NoRows /\ was'.open = was.open
    BY DEF IInv, TypeOK, DeleteDatabase
  <1>3. NoRows = Store!NothingStored
    BY DEF NoRows, Store!NothingStored
  <1>4. tasks \o queue # <<>>
    BY <1>1, FirstTask DEF IInv
  <1>5. /\ Rows' = NoRows /\ IsOpen' = IsOpen /\ Requests' = Requests
        /\ ~IsOpen /\ Requests # <<>>
        /\ deletions' = deletions + 1 /\ UNCHANGED <<replies, faults>>
    BY <1>1, <1>2, <1>4 DEF DeleteDatabase, Rows, IsOpen, Requests
  <1> QED BY <1>1, <1>3, <1>5 DEF Store!DeleteDatabase

LEMMA QueryRefines ==
    ASSUME IInv, NEW failed \in BOOLEAN, Query(failed)
    PROVE  Store!Execute \/ Store!Fail
  <1> DEFINE value == IF failed THEN Missing ELSE table[Key]
  <1>1. /\ stage = "query" /\ (failed => MayFail) /\ open' = TRUE /\ table' = table
        /\ Callback(failed, value)
    BY DEF Query, Opened
  <1>2. Head(tasks).op = "get" /\ table = was.table
    BY <1>1 DEF IInv, CallInv
  <1>3. /\ Requests # <<>> /\ Head(Requests) = Head(tasks)
        /\ Requests' = Tail(Requests)
        /\ Rows = table /\ Rows' = table /\ IsOpen' = TRUE
        /\ replies' = Append(replies, [error |-> failed, call |-> Head(tasks).call,
                                       value |-> value])
        /\ faults' = IF failed THEN faults + 1 ELSE faults
        /\ deletions' = deletions
    BY <1>1, <1>2, CallbackSeen
  <1>4. CASE failed
    BY <1>1, <1>3, <1>4, FailSeen DEF MayFail
  <1>5. CASE ~failed
    <2>1. Rows' = Store!Written(Rows, Head(Requests))
      BY <1>2, <1>3 DEF Store!Written
    <2>2. failed = FALSE
      BY <1>5
    <2>3. value = Rows[Head(Requests).key]
      BY <1>3, <1>5 DEF Key
    <2> QED BY <1>2, <1>3, <1>5, <2>1, <2>2, <2>3, ExecuteSeen
  <1> QED BY <1>4, <1>5

LEMMA EndRefines ==
    ASSUME IInv, NEW failed \in BOOLEAN, End(failed)
    PROVE  Store!Execute \/ Store!Fail
  <1>1. /\ stage = "end" /\ (failed => MayFail) /\ open' = TRUE
        /\ ~failed => transaction = "successful"
        /\ table' = IF failed THEN table ELSE Store!Written(table, Head(tasks))
        /\ Callback(failed, Missing)
    BY DEF End, Opened
  <1>2. /\ Requests # <<>> /\ Head(Requests) = Head(tasks)
        /\ Requests' = Tail(Requests)
        /\ Rows = was.table /\ Rows' = table' /\ IsOpen' = TRUE
        /\ replies' = Append(replies, [error |-> failed, call |-> Head(tasks).call,
                                       value |-> Missing])
        /\ faults' = IF failed THEN faults + 1 ELSE faults
        /\ deletions' = deletions
    BY <1>1, CallbackSeen
  <1>3. CASE failed
    BY <1>1, <1>2, <1>3, LeftByCall, FailSeen DEF MayFail
  <1>4. CASE ~failed
    <2>1. table = was.table /\ Head(tasks).op # "get"
      BY <1>1, <1>4 DEF IInv, CallInv
    <2>2. failed = FALSE
      BY <1>4
    <2> QED BY <1>1, <1>2, <1>4, <2>1, <2>2, ExecuteSeen
  <1> QED BY <1>3, <1>4

LEMMA FailToOpenAgainRefines ==
    ASSUME IInv, FailToOpenAgain
    PROVE  Store!Fail \/ UNCHANGED Store!storageVars
  <1>1. stage # "idle" /\ ~open /\ open' = open /\ table' = table /\ MayFail
    BY DEF FailToOpenAgain, IInv, TypeOK
  <1>2. CASE /\ stage \in {"begin", "statement", "commit"}
             /\ stage' = "end"
             /\ UNCHANGED <<queue, tasks, was, replies, faults, deletions>>
    BY <1>1, <1>2, WithinCall
  <1>3. CASE stage = "end" /\ Callback(TRUE, Missing)
    <2>1. ~was.open /\ was.open \in BOOLEAN /\ open \in BOOLEAN
      BY <1>1 DEF IInv, TypeOK, CallInv
    <2>2. /\ Requests # <<>> /\ Head(Requests) = Head(tasks)
          /\ Requests' = Tail(Requests)
          /\ Rows = was.table /\ Rows' = table /\ IsOpen = was.open /\ IsOpen' = open
          /\ replies' = Append(replies, [error |-> TRUE, call |-> Head(tasks).call,
                                         value |-> Missing])
          /\ faults' = faults + 1
          /\ deletions' = deletions
      BY <1>1, <1>3, CallbackSeen
    <2>3. IsOpen' = IsOpen
      BY <1>1, <2>1, <2>2
    <2> QED BY <1>1, <1>3, <2>2, <2>3, LeftByCall, FailSeen DEF MayFail
  <1> QED BY <1>2, <1>3 DEF FailToOpenAgain

\* Every step of the executor and of ensureDatabase.
LEMMA ThreadStepRefines ==
    ASSUME IInv, ThreadStep
    PROVE  StoreNext \/ UNCHANGED Store!storageVars
  <1>1. CASE Start
    BY <1>1, StartRefines
  <1>2. CASE FailToOpen
    BY <1>2, WithinCall DEF FailToOpen, thread
  <1>3. CASE DeleteDatabase
    BY <1>3, DeleteRefines DEF StoreNext
  <1>4. CASE FailToOpenAgain
    BY <1>4, FailToOpenAgainRefines DEF StoreNext
  <1>5. CASE Ensure
    BY <1>5, WithinCall DEF Ensure, Proceed
  <1>6. ASSUME NEW failed \in BOOLEAN, Query(failed)
        PROVE  StoreNext \/ UNCHANGED Store!storageVars
    BY <1>6, QueryRefines DEF StoreNext
  <1>7. CASE Begin
    BY <1>7, WithinCall DEF Begin, Proceed
  <1>8. CASE Change
    BY <1>8, WithinCall DEF Change, Proceed
  <1>9. CASE RemoveAtOnce
    BY <1>9, WithinCall DEF RemoveAtOnce, Proceed
  <1>10. CASE MarkSuccessful
    BY <1>10, WithinCall DEF MarkSuccessful, Proceed
  <1>11. CASE Throw
    BY <1>11, WithinCall DEF Throw
  <1>12. ASSUME NEW failed \in BOOLEAN, End(failed)
         PROVE  StoreNext \/ UNCHANGED Store!storageVars
    BY <1>12, EndRefines DEF StoreNext
  <1> QED BY <1>1, <1>2, <1>3, <1>4, <1>5, <1>6, <1>7, <1>8, <1>9, <1>10, <1>11, <1>12
          DEF ThreadStep

\* Every step of JavaScript, the user interface's thread and the system.
LEMMA OtherStepRefines ==
    ASSUME IInv, Call \/ Flush \/ RunCallback \/ CloseDatabase \/ Crash
    PROVE  StoreNext \/ UNCHANGED Store!storageVars
  <1>0. tasks \in Seq(Request) /\ queue \in Seq(Request)
    BY DEF IInv, TypeOK
  <1>1. CASE Call
    <2>1. PICK r \in Request : queue' = Append(queue, r)
      BY <1>1 DEF Call
    <2>2. UNCHANGED <<tasks, stage, was, table, open, replies, faults, deletions>>
      BY <1>1 DEF Call, thread, database
    <2>3. Requests' = Append(tasks \o queue, r)
      <3>1. /\ tasks \o queue \in Seq(Request) /\ <<r>> \in Seq(Request)
        BY <1>0, ConcatProperties
      <3>2. Append(queue, r) = queue \o <<r>>
        BY <1>0, AppendIsConcat
      <3>3. Append(tasks \o queue, r) = (tasks \o queue) \o <<r>>
        BY <3>1, AppendIsConcat
      <3>4. (tasks \o queue) \o <<r>> = tasks \o (queue \o <<r>>)
        BY <1>0, <3>1, ConcatAssociative
      <3> QED BY <2>1, <2>2, <3>2, <3>3, <3>4 DEF Requests
    <2>4. Store!Answered(Append(tasks \o queue, r), replies)
      <3>1. Rows' = Rows /\ IsOpen' = IsOpen
        BY <2>2 DEF Rows, IsOpen
      <3> QED BY <2>2, <2>3, <3>1, StoresStay DEF Store!Answered
    <2> QED BY <2>4 DEF StoreNext
  <1>2. CASE Flush
    <2>1. Requests' = Requests
      BY <1>0, <1>2, ConcatProperties, ConcatEmptySeq DEF Flush, Requests
    <2>2. UNCHANGED <<stage, was, table, open, replies, faults, deletions>>
      BY <1>2 DEF Flush, thread, database
    <2> QED BY <2>1, <2>2, Stutter DEF Rows, IsOpen
  <1>3. CASE RunCallback
    <2>1. UNCHANGED <<queue, tasks, stage, was, table, open, faults, deletions>>
      BY <1>3 DEF RunCallback, thread, database
    <2>2. replies # <<>> /\ replies' = Tail(replies)
      BY <1>3 DEF RunCallback
    <2>3. Store!Answered(tasks \o queue, Tail(replies))
      <3>1. Rows' = Rows /\ IsOpen' = IsOpen /\ Requests' = tasks \o queue
        BY <2>1 DEF Rows, IsOpen, Requests
      <3> QED BY <2>1, <2>2, <3>1, StoresStay DEF Store!Answered
    <2> QED BY <2>2, <2>3 DEF StoreNext
  <1>4. CASE CloseDatabase
    <2>1. was'.table = was.table /\ was'.open = FALSE
      BY <1>4 DEF CloseDatabase, IInv, TypeOK
    <2>2. /\ UNCHANGED <<queue, tasks, stage, table, replies, faults, deletions>>
          /\ open' = FALSE
      BY <1>4 DEF CloseDatabase
    <2>3. Store!ActivityDestroyed(tasks \o queue, replies)
      <3>1. Rows' = Rows /\ IsOpen' = FALSE /\ Requests' = tasks \o queue
        BY <2>1, <2>2 DEF Rows, IsOpen, Requests
      <3> QED BY <2>2, <3>1, StoresStay DEF Store!ActivityDestroyed
    <2> QED BY <2>3 DEF StoreNext
  <1>5. CASE Crash
    <2>1. /\ stage' = "idle" /\ open' = FALSE /\ replies' = <<>>
          /\ UNCHANGED <<table, faults, deletions>>
      BY <1>5 DEF Crash
    <2>2. Requests' = <<>>
      <3>1. <<>> \in Seq(Request)
        BY EmptySeq
      <3> QED BY <1>5, <3>1, ConcatEmptySeq DEF Crash, Requests
    <2>3. Rows' = table /\ IsOpen' = FALSE
      BY <2>1 DEF Rows, IsOpen
    <2>4. \/ Rows' = Rows
          \/ Requests # <<>> /\ Rows' \in Store!Remains(Head(Requests))
      <3>1. CASE stage = "idle"
        BY <2>3, <3>1 DEF Rows
      <3>2. CASE stage # "idle"
        <4>1. Rows = was.table
          BY <3>2 DEF Rows
        <4>2. Requests # <<>> /\ Head(Requests) = Head(tasks)
          BY <3>2, FirstTask DEF IInv, TypeOK, Requests
        <4> QED BY <2>3, <3>2, <4>1, <4>2, LeftByCall DEF Store!Remains, Rows
      <3> QED BY <3>1, <3>2
    <2>5. Store!Restart(<<>>)
      BY <2>1, <2>2, <2>3, <2>4 DEF Store!Restart, Store!failures
    <2> QED BY <2>5 DEF StoreNext
  <1> QED BY <1>1, <1>2, <1>3, <1>4, <1>5

LEMMA InitRefines ==
    ASSUME Init
    PROVE  Store!StorageInit(<<>>)
  <1>1. tasks \o queue = <<>>
    <2>1. <<>> \in Seq(Request)
      BY EmptySeq
    <2> QED BY <2>1, ConcatEmptySeq DEF Init
  <1>2. Rows = Store!NothingStored /\ IsOpen = FALSE
    BY DEF Init, NoRows, Store!NothingStored, Rows, IsOpen
  <1>3. replies = <<>> /\ faults = 0 /\ deletions = 0
    BY DEF Init
  <1> QED BY <1>1, <1>2, <1>3, Zenon DEF Store!StorageInit, Requests

\* Calls take effect one at a time, in order and as a whole, although the
\* database is opened, closed and deleted under them and the process can die
\* between any two statements of AsyncStorageModule.java.
THEOREM Implements == Spec => ImplementsStore
  <1>1. IInv /\ [Next]_vars => [StoreNext]_(Store!storageVars)
    <2> SUFFICES ASSUME IInv, [Next]_vars
                 PROVE  StoreNext \/ UNCHANGED Store!storageVars
      OBVIOUS
    <2>1. CASE ThreadStep
      BY <2>1, ThreadStepRefines
    <2>2. CASE Call \/ Flush \/ RunCallback \/ CloseDatabase \/ Crash
      BY <2>2, OtherStepRefines
    <2>3. CASE UNCHANGED vars
      BY <2>3, Stutter DEF vars, thread, database, Rows, IsOpen, Requests
    <2> QED BY <2>1, <2>2, <2>3 DEF Next
  <1>2. Init => Store!StorageInit(<<>>)
    BY InitRefines
  <1> QED BY <1>1, <1>2, Inductive, PTL DEF Spec, ImplementsStore

=============================================================================
