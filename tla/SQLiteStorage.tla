---------------------------- MODULE SQLiteStorage ----------------------------
(***************************************************************************)
(* AsyncStorage on Android: MessageQueue.js collects the calls of a turn   *)
(* of JavaScript, SerialExecutor.java runs them one at a time on a thread  *)
(* of a pool, AsyncStorageModule.java makes each a transaction, and        *)
(* ReactDatabaseSupplier.java opens the database whenever it is needed and *)
(* deletes it when that fails.  The user interface's thread closes it when *)
(* the activity is destroyed, whatever the transaction under way has done. *)
(*                                                                         *)
(* Every use of the database goes through get(), which opens it if need    *)
(* be: a step below that leaves open TRUE includes that.  A call is        *)
(* identified by its key: nothing here looks at the continuation.          *)
(***************************************************************************)
EXTENDS Integers, SequencesExt

CONSTANTS
    StorageKey, StoredValue,
    Missing,        \* null: there is no row
    MaxCalls,       \* bound: calls and callbacks under way
    MaxFaults,      \* bound: calls that fail
    MaxDeletions    \* bound: databases deleted

ASSUME ValueAssumption ==
    /\ Missing \notin StoredValue
    /\ MaxCalls \in Nat \ {0} /\ MaxFaults \in Nat /\ MaxDeletions \in Nat

VARIABLES
    queue,          \* MessageQueue's _queue: calls not flushed yet
    tasks,          \* SerialExecutor's mActive and, after it, mTasks
    stage,          \* what the active task does next, "idle" if there is none
    table,          \* the committed rows: key -> value or Missing
    open,           \* mDb is open
    tries,          \* failed and prepared attempts of ensureDatabase
    transaction,    \* of the open database
    error,          \* the call under way will report one
    replies,
    faults, deletions,
    was             \* history: [table, open] when the call under way began

database == <<table, open, tries, transaction>>
thread == <<stage, error, was>>
vars == <<queue, tasks, thread, database, replies, faults, deletions>>

NoRows == [key \in StorageKey |-> Missing]
NoCall == [table |-> NoRows, open |-> FALSE]

\* The abstract store sees a call when its callback is invoked, and until then
\* what was there before.  No value is kept anywhere but in its row.
Rows == IF stage = "idle" THEN table ELSE was.table
IsOpen == IF stage = "idle" THEN open ELSE was.open
Requests == tasks \o queue

Store == INSTANCE AsyncStorage WITH
    Platform <- "android",
    LongKey <- {}, Long <- {}, filesFailed <- FALSE,
    mem <- Rows, staged <- Rows, disk <- Rows,
    haveSetup <- IsOpen,
    requests <- Requests

Key == Head(tasks).key
MayFail == faults < MaxFaults

-----------------------------------------------------------------------------
(* The executor and ensureDatabase.                                        *)

\* scheduleNext: the next task becomes the active one.
Start ==
    /\ stage = "idle" /\ tasks # <<>>
    /\ stage' = "ensure" /\ error' = FALSE
    /\ was' = [table |-> table, open |-> open]
    /\ UNCHANGED <<queue, tasks, database, replies, faults, deletions>>

\* callback.invoke, and the end of the active task.
Callback(failed, value) ==
    /\ replies' = Append(replies, [error |-> failed, call |-> Head(tasks).call,
                                   value |-> value])
    /\ tasks' = Tail(tasks)
    /\ faults' = IF failed THEN faults + 1 ELSE faults
    /\ stage' = "idle" /\ error' = FALSE /\ was' = NoCall
    /\ UNCHANGED <<queue, deletions>>

\* getWritableDatabase throws for the first time.
FailToOpen ==
    /\ stage # "idle" /\ ~open /\ tries = 0
    /\ deletions < MaxDeletions
    /\ tries' = 1
    /\ UNCHANGED <<queue, tasks, thread, table, open, transaction, replies,
                   faults, deletions>>

\* The second attempt begins with deleteDatabase.
DeleteDatabase ==
    /\ tries = 1
    /\ tries' = 2
    /\ table' = NoRows /\ was' = [was EXCEPT !.table = NoRows]
    /\ deletions' = deletions + 1
    /\ UNCHANGED <<queue, tasks, stage, error, open, transaction, replies, faults>>

\* get() has returned, with a database opened by the first or second attempt.
Opened ==
    /\ tries \in {0, 2}
    /\ open' = TRUE /\ tries' = 0

-----------------------------------------------------------------------------
(* multiGet, multiSet and multiRemove, of one key each.                    *)

Proceed(now, next) == stage = now /\ stage' = next

\* ensureDatabase and, for a set, compileStatement.
Ensure ==
    /\ Proceed("ensure", IF Head(tasks).op = "get" THEN "query" ELSE "begin")
    /\ Opened
    /\ UNCHANGED <<queue, tasks, error, was, table, transaction, replies, faults,
                   deletions>>

Query(failed) ==
    /\ stage = "query"
    /\ failed => MayFail
    /\ Opened
    /\ Callback(failed, IF failed THEN Missing ELSE table[Key])
    /\ UNCHANGED <<table, transaction>>

\* Mutant: the database is used without ensureDatabase.
BeginIfOpen ==
    /\ Proceed("begin", "statement")
    /\ open
    /\ transaction' = "open"
    /\ UNCHANGED <<queue, tasks, error, was, table, open, tries, replies, faults,
                   deletions>>

Begin ==
    /\ Proceed("begin", "statement")
    /\ Opened
    /\ transaction' = "open"
    /\ UNCHANGED <<queue, tasks, error, was, table, replies, faults, deletions>>

\* In the transaction the rows change when it ends.
Change ==
    /\ Proceed("statement", "commit")
    /\ transaction = "open" /\ transaction' = "changed"
    /\ UNCHANGED <<queue, tasks, error, was, table, open, tries, replies, faults,
                   deletions>>

\* The database of the transaction has been closed, and the removal is done in
\* another one, at once.
RemoveAtOnce ==
    /\ Proceed("statement", "commit")
    /\ transaction = "none" /\ Head(tasks).op = "remove"
    /\ Opened
    /\ table' = [table EXCEPT ![Key] = Missing]
    /\ UNCHANGED <<queue, tasks, error, was, transaction, replies, faults, deletions>>

MarkSuccessful ==
    /\ Proceed("commit", "end")
    /\ transaction = "changed" /\ transaction' = "successful"
    /\ UNCHANGED <<queue, tasks, error, was, table, open, tries, replies, faults,
                   deletions>>

\* Something of the try block throws: the disk or the database is full, or there
\* is no transaction in the database that get() has opened.
Throw ==
    /\ stage \in {"begin", "statement", "commit"} /\ stage' = "end"
    /\ MayFail
    /\ Opened
    /\ error' = TRUE
    /\ UNCHANGED <<queue, tasks, was, table, transaction, replies, faults, deletions>>

\* Mutant: the call's changes stay whether or not it got to its end.
EndCommits(failed) ==
    /\ stage = "end"
    /\ failed => MayFail
    /\ ~failed => ~error /\ transaction = "successful"
    /\ Opened
    /\ table' = IF transaction \in {"changed", "successful"}
                THEN Store!Written(table, Head(tasks)) ELSE table
    /\ transaction' = "none"
    /\ Callback(failed, Missing)

\* Mutant: there is no finally.
EndWithoutFinally(failed) ==
    /\ stage = "end"
    /\ failed => MayFail
    /\ ~failed => ~error /\ transaction = "successful"
    /\ Opened
    /\ table' = IF failed THEN table ELSE Store!Written(table, Head(tasks))
    /\ transaction' = IF failed THEN transaction ELSE "none"
    /\ Callback(failed, Missing)

\* endTransaction commits what is marked successful.  It may throw, and does
\* without a transaction; the changes are then rolled back.
End(failed) ==
    /\ stage = "end"
    /\ failed => MayFail
    /\ ~failed => ~error /\ transaction = "successful"
    /\ Opened
    /\ table' = IF failed THEN table ELSE Store!Written(table, Head(tasks))
    /\ transaction' = "none"
    /\ Callback(failed, Missing)

\* The second attempt to open the database has thrown too: an error in a try
\* block, and the end of the process outside of it (see Crash).
FailToOpenAgain ==
    /\ tries = 2 /\ MayFail
    /\ tries' = 0
    /\ \/ /\ stage \in {"begin", "statement", "commit"}
          /\ stage' = "end" /\ error' = TRUE
          /\ UNCHANGED <<queue, tasks, was, replies, faults, deletions>>
       \/ stage = "end" /\ Callback(TRUE, Missing)
    /\ UNCHANGED <<table, open, transaction>>

-----------------------------------------------------------------------------
(* JavaScript, the user interface's thread and the system.                 *)

Request ==
    {Store!GetItem(key, key) : key \in StorageKey}
    \cup {Store!RemoveItem(key, key) : key \in StorageKey}
    \cup {Store!SetItem(key, value, key) : key \in StorageKey, value \in StoredValue}

Call ==
    /\ Len(tasks) + Len(queue) + Len(replies) < MaxCalls
    /\ \E r \in Request : queue' = Append(queue, r)
    /\ UNCHANGED <<tasks, thread, database, replies, faults, deletions>>

\* The native modules' thread invokes the methods of the batch in order.
Flush ==
    /\ queue # <<>>
    /\ tasks' = tasks \o queue /\ queue' = <<>>
    /\ UNCHANGED <<thread, database, replies, faults, deletions>>

RunCallback ==
    /\ replies # <<>>
    /\ replies' = Tail(replies)
    /\ UNCHANGED <<queue, tasks, thread, database, faults, deletions>>

\* onHostDestroy.  It waits for an ensureDatabase under way, not for a
\* transaction, which is lost with the connection.
CloseDatabase ==
    /\ open
    /\ transaction # "none" => MayFail
    /\ open' = FALSE /\ transaction' = "none"
    /\ was' = [was EXCEPT !.open = FALSE]
    /\ UNCHANGED <<queue, tasks, stage, error, table, tries, replies, faults,
                   deletions>>

Crash ==
    /\ queue' = <<>> /\ tasks' = <<>> /\ replies' = <<>>
    /\ stage' = "idle" /\ error' = FALSE /\ was' = NoCall
    /\ open' = FALSE /\ tries' = 0 /\ transaction' = "none"
    /\ UNCHANGED <<table, faults, deletions>>

Init ==
    /\ queue = <<>> /\ tasks = <<>> /\ replies = <<>>
    /\ stage = "idle" /\ error = FALSE
    /\ table = NoRows
    /\ open = FALSE /\ tries = 0 /\ transaction = "none"
    /\ faults = 0 /\ deletions = 0
    /\ was = NoCall

ThreadStep ==
    \/ Start
    \/ FailToOpen \/ DeleteDatabase \/ FailToOpenAgain
    \/ Ensure
    \/ \E failed \in BOOLEAN : Query(failed)
    \/ Begin \/ Change \/ RemoveAtOnce \/ MarkSuccessful \/ Throw
    \/ \E failed \in BOOLEAN : End(failed)

Next ==
    \/ ThreadStep
    \/ Call \/ Flush \/ RunCallback
    \/ CloseDatabase
    \/ Crash

Spec == Init /\ [][Next]_vars

\* The pool gives the active task a thread, and nothing keeps it.
LiveSpec == Spec /\ WF_vars(ThreadStep)

-----------------------------------------------------------------------------
(* Properties.                                                             *)

\* Besides the types: a transaction belongs to an open database and to a call
\* that is past beginTransaction, so no call inherits one, and nothing is
\* retried while the database is open.
TypeOK ==
    /\ queue \in Seq(Request) /\ tasks \in Seq(Request)
    /\ table \in [StorageKey -> StoredValue \cup {Missing}]
    /\ open \in BOOLEAN /\ error \in BOOLEAN
    /\ was \in [table : [StorageKey -> StoredValue \cup {Missing}], open : BOOLEAN]
    /\ stage \in {"idle", "ensure", "query", "begin", "statement", "commit", "end"}
    /\ transaction \in {"none", "open", "changed", "successful"}
    /\ transaction # "none" => open /\ stage \in {"statement", "commit", "end"}
    /\ tries \in 0..2 /\ (tries > 0 => ~open /\ stage # "idle")
    /\ (stage # "idle" => tasks # <<>>) /\ (stage = "idle" => ~error)
    /\ faults \in 0..MaxFaults /\ deletions \in 0..MaxDeletions

\* Calls take effect one at a time, in order and as a whole, although the
\* database is opened, closed and deleted under them and the process can die
\* between any two of their statements.  A call that reports an error has
\* changed nothing, except that a removal may have removed.
StoreNext ==
    \/ Store!Execute \/ Store!Fail \/ Store!DeleteDatabase \/ Store!Restart(<<>>)
    \/ \E r \in Request : Store!Answered(Append(tasks \o queue, r), replies)
    \/ replies # <<>> /\ Store!Answered(tasks \o queue, Tail(replies))
    \/ Store!ActivityDestroyed(tasks \o queue, replies)

ImplementsStore ==
    Store!StorageInit(<<>>) /\ [][StoreNext]_(Store!storageVars)

\* A call that has begun ends, whether its database opens, is closed or fails
\* in the middle of it: the executor is never stuck with it.
CallsEnd == (stage # "idle") ~> (stage = "idle")

=============================================================================
