-------------------------- MODULE AuthSessionProofs --------------------------
(***************************************************************************)
(* Proofs about AuthSession, for any addresses, platform and bounds.       *)
(***************************************************************************)
EXTENDS AuthSession, SequenceTheorems, TLAPS

-----------------------------------------------------------------------------
(* Queues: what they hold after each operation on them.                    *)

IsQueue(queue) == queue \in Seq(ToSet(queue))

LEMMA QueueIntro ==
    ASSUME NEW S, NEW queue \in Seq(S)
    PROVE  IsQueue(queue) /\ ToSet(queue) \subseteq S
  <1>1. Range(queue) = ToSet(queue)
    BY DEF Range, ToSet
  <1>2. queue \in Seq(Range(queue))
    BY SeqOfRange
  <1>3. ToSet(queue) \subseteq S
    BY ElementOfSeq, LenProperties DEF ToSet
  <1> QED BY <1>1, <1>2, <1>3 DEF IsQueue

LEMMA QueueEmpty == IsQueue(<<>>) /\ ToSet(<<>>) = {}
  <1>1. IsQueue(<<>>)
    BY EmptySeq, QueueIntro
  <1>2. ToSet(<<>>) = {}
    BY DEF ToSet
  <1> QED BY <1>1, <1>2

LEMMA QueueAppend ==
    ASSUME NEW queue, IsQueue(queue), NEW r
    PROVE  IsQueue(Append(queue, r)) /\ ToSet(Append(queue, r)) = ToSet(queue) \cup {r}
  <1> DEFINE S == ToSet(queue) \cup {r}
  <1>1. queue \in Seq(S)
    BY SeqMonotonic DEF IsQueue
  <1>2. /\ Append(queue, r) \in Seq(S)
        /\ Len(Append(queue, r)) = Len(queue) + 1
        /\ \A i \in 1..Len(queue) : Append(queue, r)[i] = queue[i]
        /\ Append(queue, r)[Len(queue) + 1] = r
    BY <1>1, AppendProperties
  <1>3. IsQueue(Append(queue, r)) /\ ToSet(Append(queue, r)) \subseteq S
    BY <1>2, QueueIntro
  <1>4. DOMAIN queue = 1..Len(queue) /\ Len(queue) \in Nat
    BY <1>1, LenProperties
  <1>5. DOMAIN Append(queue, r) = 1..(Len(queue) + 1)
    BY <1>2, LenProperties
  <1>6. S \subseteq ToSet(Append(queue, r))
    <2> HIDE DEF S
    <2> SUFFICES ASSUME NEW x \in S PROVE \E i \in DOMAIN Append(queue, r) : Append(queue, r)[i] = x
      BY DEF ToSet
    <2>1. CASE x = r
      BY <2>1, <1>2, <1>4, <1>5
    <2>2. CASE x \in ToSet(queue)
      <3>1. PICK i \in DOMAIN queue : queue[i] = x
        BY <2>2 DEF ToSet
      <3> QED BY <3>1, <1>2, <1>4, <1>5
    <2> QED BY <2>1, <2>2 DEF S
  <1> QED BY <1>3, <1>6

LEMMA QueueHeadTail ==
    ASSUME NEW queue, IsQueue(queue), queue # <<>>
    PROVE  /\ Head(queue) \in ToSet(queue)
           /\ IsQueue(Tail(queue)) /\ ToSet(Tail(queue)) \subseteq ToSet(queue)
  <1>1. Head(queue) \in ToSet(queue) /\ Tail(queue) \in Seq(ToSet(queue))
    BY HeadTailProperties DEF IsQueue
  <1> QED BY <1>1, QueueIntro

LEMMA QueueConcat ==
    ASSUME NEW a, NEW b, IsQueue(a), IsQueue(b)
    PROVE  IsQueue(a \o b) /\ ToSet(a \o b) \subseteq ToSet(a) \cup ToSet(b)
  <1> DEFINE S == ToSet(a) \cup ToSet(b)
  <1>1. a \in Seq(S) /\ b \in Seq(S)
    BY SeqMonotonic DEF IsQueue
  <1>2. a \o b \in Seq(S)
    BY <1>1, ConcatProperties
  <1> QED BY <1>2, QueueIntro

LEMMA QueueOne ==
    ASSUME NEW r
    PROVE  IsQueue(<<r>>) /\ ToSet(<<r>>) = {r}
  <1>1. <<r>> \in Seq({r})
    OBVIOUS
  <1>2. ToSet(<<r>>) = {r}
    BY DEF ToSet
  <1> QED BY <1>1, <1>2, QueueIntro

LEMMA QueueDisowned ==
    ASSUME NEW queue, IsQueue(queue), NEW how
    PROVE  /\ IsQueue(Disowned(queue, how))
           /\ \A r \in ToSet(Disowned(queue, how)) : \E q \in ToSet(queue) :
                r = [q EXCEPT !.call.screen = IF @ = "closed" THEN @ ELSE how]
  <1> DEFINE D(q) == [q EXCEPT !.call.screen = IF @ = "closed" THEN @ ELSE how]
             S == {D(q) : q \in ToSet(queue)}
  <1>1. DOMAIN queue = 1..Len(queue) /\ Len(queue) \in Nat
    BY LenProperties DEF IsQueue
  <1>2. Disowned(queue, how) = [i \in 1..Len(queue) |-> D(queue[i])]
    BY <1>1 DEF Disowned
  <1>3. \A i \in 1..Len(queue) : D(queue[i]) \in S
    BY <1>1 DEF ToSet
  <1> HIDE DEF D, S
  <1>4. Disowned(queue, how) \in [1..Len(queue) -> S]
    BY <1>2, <1>3
  <1>5. Disowned(queue, how) \in Seq(S)
    BY <1>1, <1>4, SeqDef
  <1>6. IsQueue(Disowned(queue, how)) /\ ToSet(Disowned(queue, how)) \subseteq S
    BY <1>5, QueueIntro
  <1> QED BY <1>6 DEF S, D

-----------------------------------------------------------------------------
(* Handlers and their calls.                                               *)

LEMMA RequestDisowned ==
    ASSUME NEW q, RequestOK(q), NEW how \in {"mounted", "unmounted", "closed"}
    PROVE  RequestOK([q EXCEPT !.call.screen = IF @ = "closed" THEN @ ELSE how])
  <1> DEFINE d == [q EXCEPT !.call.screen = IF @ = "closed" THEN @ ELSE how]
  <1>1. q = [op |-> q.op, key |-> q.key, value |-> q.value, call |-> q.call]
    BY DEF RequestOK, GetItem, SetItem, RemoveItem
  <1>2. q.call \in HandlerCall
    BY DEF RequestOK
  <1>3. /\ d = [op |-> q.op, key |-> q.key, value |-> q.value, call |-> d.call]
        /\ d.call \in HandlerCall
        /\ d.call.at = q.call.at /\ d.call.email = q.call.email
        /\ d.call.isAdmin = q.call.isAdmin
    BY <1>1, <1>2 DEF HandlerCall
  <1> HIDE DEF d
  <1> QED BY <1>3 DEF RequestOK, GetItem, SetItem, RemoveItem, d

LEMMA ReplyDisowned ==
    ASSUME NEW q, ReplyOK(q), NEW how \in {"mounted", "unmounted", "closed"}
    PROVE  ReplyOK([q EXCEPT !.call.screen = IF @ = "closed" THEN @ ELSE how])
  <1> DEFINE d == [q EXCEPT !.call.screen = IF @ = "closed" THEN @ ELSE how]
  <1>1. /\ q = [error |-> q.error, call |-> q.call, value |-> q.value]
        /\ q.call \in HandlerCall
    BY DEF ReplyOK
  <1>2. /\ d = [error |-> q.error, call |-> d.call, value |-> q.value]
        /\ d.call \in HandlerCall
        /\ d.call.at = q.call.at /\ d.call.email = q.call.email
    BY <1>1 DEF HandlerCall
  <1> HIDE DEF d
  <1> QED BY <1>2 DEF ReplyOK, d

LEMMA QueuesDisowned ==
    ASSUME NEW calls, QueueOK(calls, RequestOK),
           NEW others, QueueOK(others, ReplyOK),
           NEW how \in {"mounted", "unmounted", "closed"}
    PROVE  /\ QueueOK(Disowned(calls, how), RequestOK)
           /\ QueueOK(Disowned(others, how), ReplyOK)
  <1>1. IsQueue(calls) /\ IsQueue(others)
    BY DEF QueueOK, IsQueue
  <1>2. IsQueue(Disowned(calls, how)) /\ IsQueue(Disowned(others, how))
    BY <1>1, QueueDisowned
  <1>3. ASSUME NEW r \in ToSet(Disowned(calls, how)) PROVE RequestOK(r)
    <2>1. PICK q \in ToSet(calls) :
            r = [q EXCEPT !.call.screen = IF @ = "closed" THEN @ ELSE how]
      BY <1>1, QueueDisowned
    <2>2. RequestOK(q)
      BY DEF QueueOK
    <2> QED BY <2>1, <2>2, RequestDisowned
  <1>4. ASSUME NEW r \in ToSet(Disowned(others, how)) PROVE ReplyOK(r)
    <2>1. PICK q \in ToSet(others) :
            r = [q EXCEPT !.call.screen = IF @ = "closed" THEN @ ELSE how]
      BY <1>1, QueueDisowned
    <2>2. ReplyOK(q)
      BY DEF QueueOK
    <2> QED BY <2>1, <2>2, ReplyDisowned
  <1> QED BY <1>2, <1>3, <1>4 DEF QueueOK, IsQueue

LEMMA MountCallsOK ==
    ASSUME NEW screen
    PROVE  QueueOK(MountCalls(screen), RequestOK)
  <1>1. \A at \in ReadsSession :
          RequestOK(GetItem(USER_LOGGEDIN_KEY, Handler(at, NoEmail, FALSE)))
    BY DEF RequestOK, GetItem, Handler, HandlerCall, ReadsSession, KnowsEmail,
           FindsUsers, SavesSession
  <1>2. \A r : IsQueue(<<r>>) /\ ToSet(<<r>>) = {r}
    BY QueueOne
  <1> DEFINE read(at) == GetItem(USER_LOGGEDIN_KEY, Handler(at, NoEmail, FALSE))
  <1>3. \A at \in ReadsSession : QueueOK(<<read(at)>>, RequestOK)
    <2> HIDE DEF read
    <2> SUFFICES ASSUME NEW at \in ReadsSession PROVE QueueOK(<<read(at)>>, RequestOK)
      OBVIOUS
    <2>1. RequestOK(read(at))
      BY <1>1 DEF read
    <2> QED BY <1>2, <2>1 DEF QueueOK, IsQueue
  <1>4. QueueOK(<<>>, RequestOK)
    BY QueueEmpty DEF QueueOK, IsQueue
  <1> QED BY <1>3, <1>4 DEF MountCalls, ReadsSession

LEMMA ConcatOK ==
    ASSUME NEW a, QueueOK(a, RequestOK), NEW b, QueueOK(b, RequestOK)
    PROVE  QueueOK(a \o b, RequestOK)
  BY QueueConcat DEF QueueOK, IsQueue

LEMMA AppendRequestOK ==
    ASSUME NEW queue, QueueOK(queue, RequestOK), NEW r, RequestOK(r)
    PROVE  QueueOK(Append(queue, r), RequestOK)
  <1>1. IsQueue(Append(queue, r)) /\ ToSet(Append(queue, r)) = ToSet(queue) \cup {r}
    BY QueueAppend DEF QueueOK, IsQueue
  <1> QED BY <1>1 DEF QueueOK, IsQueue

LEMMA AppendReplyOK ==
    ASSUME NEW queue, QueueOK(queue, ReplyOK), NEW r, ReplyOK(r)
    PROVE  QueueOK(Append(queue, r), ReplyOK)
  <1>1. IsQueue(Append(queue, r)) /\ ToSet(Append(queue, r)) = ToSet(queue) \cup {r}
    BY QueueAppend DEF QueueOK, IsQueue
  <1> QED BY <1>1 DEF QueueOK, IsQueue

LEMMA HeadTailRequestOK ==
    ASSUME NEW queue, QueueOK(queue, RequestOK), queue # <<>>
    PROVE  RequestOK(Head(queue)) /\ QueueOK(Tail(queue), RequestOK)
  BY QueueHeadTail DEF QueueOK, IsQueue

LEMMA HeadTailReplyOK ==
    ASSUME NEW queue, QueueOK(queue, ReplyOK), queue # <<>>
    PROVE  ReplyOK(Head(queue)) /\ QueueOK(Tail(queue), ReplyOK)
  BY QueueHeadTail DEF QueueOK, IsQueue

-----------------------------------------------------------------------------
(* Navigators and mounting.                                                *)

LEMMA InitialOK ==
    /\ NavigatorOK(MainInitial, MainRoute)
    /\ NavigatorOK(AuthInitial, AuthRoute)
  BY DEF NavigatorOK, MainInitial, AuthInitial, InitialState, Rehydrated,
         MainRoute, AuthRoute

\* Replacing the focused route of a navigator that knows the name keeps the
\* navigator well-formed; one that does not know it refuses.
LEMMA ReplaceOK ==
    ASSUME NEW names, NEW state, NavigatorOK(state, names), NEW name
    PROVE  /\ name \in names =>
                /\ NavigatorOK(Replace(state, names, state.index, name, NewKey), names)
                /\ Replace(state, names, state.index, name, NewKey) # NoState
           /\ name \notin names =>
                Replace(state, names, state.index, name, NewKey) = NoState
  <1> DEFINE R == [key : {InitialKey, NewKey}, name : names]
             routes == state.routes
             new == [key |-> NewKey, name |-> name]
             after == [routes EXCEPT ![state.index + 1] = new]
  <1>1. /\ state = [index |-> Len(routes) - 1, routes |-> routes]
        /\ routes \in Seq(R) /\ Len(routes) \in Nat \ {0}
    BY EmptySeq DEF NavigatorOK, Rehydrated
  <1>2. state.index = Len(routes) - 1 /\ state.index # -1
    BY <1>1
  <1>3. CASE name \in names
    <2>1. new \in R
      BY <1>3
    <2>2. state.index + 1 \in 1..Len(routes)
      BY <1>1, <1>2
    <2>3. after \in Seq(R) /\ Len(after) = Len(routes)
      <3> HIDE DEF R, routes, new
      <3>1. [routes EXCEPT ![state.index + 1] = new] \in Seq(R)
            /\ Len([routes EXCEPT ![state.index + 1] = new]) = Len(routes)
        BY <1>1, <2>1, <2>2, ExceptSeq
      <3> QED BY <3>1
    <2>4. Replace(state, names, state.index, name, NewKey)
            = [index |-> Len(after) - 1, routes |-> after]
      BY <1>1, <1>2, <1>3, <2>3 DEF Replace
    <2>5. after # <<>>
      BY <2>3, <1>1, EmptySeq
    <2>6. [index |-> Len(after) - 1, routes |-> after] # NoState
      BY <2>3, <1>1 DEF NoState
    <2>7. NavigatorOK([index |-> Len(after) - 1, routes |-> after], names)
      BY <2>3, <2>5 DEF NavigatorOK, Rehydrated
    <2> QED BY <1>3, <2>4, <2>6, <2>7
  <1>4. CASE name \notin names
    BY <1>4 DEF Replace
  <1> QED BY <1>3, <1>4

LEMMA ResetOK ==
    ASSUME NEW state
    PROVE  Reset(state, MainRoute, <<[key |-> NewKey, name |-> "AUTH"]>>) = MainInitial
  <1> DEFINE route == [key |-> NewKey, name |-> "AUTH"]
  <1>1. ToSet(<<route>>) = {route} /\ <<route>> # <<>>
    BY DEF ToSet
  <1>2. route.name \in MainRoute
    BY DEF MainRoute
  <1>3. Reset(state, MainRoute, <<route>>) = Rehydrated(<<route>>)
    BY <1>1, <1>2 DEF Reset
  <1> QED BY <1>3 DEF MainInitial, InitialState, Rehydrated

\* What mounting leaves of the type invariant for the next state.
LEMMA MountType ==
    ASSUME StoresOK, interrupts' \in 0..MaxInterrupts, cleanUp' \in BOOLEAN,
           NEW m, NavigatorOK(m, MainRoute), NEW a, NavigatorOK(a, AuthRoute),
           NEW calls, QueueOK(calls, RequestOK),
           NEW others, QueueOK(others, ReplyOK),
           Mount(m, a, calls, others)
    PROVE  TypeOK'
  <1>1. StoresOK'
    BY DEF StoresOK, StoreOK, Stored, Mount, Answered, stores, failures
  <1>2. /\ QueueOK(Disowned(calls, "unmounted"), RequestOK)
        /\ QueueOK(Disowned(others, "unmounted"), ReplyOK)
    BY QueuesDisowned
  <1>3. QueueOK(Disowned(calls, "unmounted") \o MountCalls(Focused(m, a)), RequestOK)
    BY <1>2, MountCallsOK, ConcatOK
  <1>4. QueuesOK'
    BY <1>2, <1>3 DEF QueuesOK, Mount, Answered
  <1>5. ScreensOK'
    BY DEF ScreensOK, Mount, FreshScreen
  <1> QED BY <1>1, <1>4, <1>5 DEF TypeOK

LEMMA ReplaceFromAuthType ==
    ASSUME TypeOK, interrupts' \in 0..MaxInterrupts,
           NEW name \in AuthRoute \cup {"HOME"},
           NEW calls, QueueOK(calls, RequestOK),
           NEW others, QueueOK(others, ReplyOK),
           ReplaceFromAuth(name, calls, others)
    PROVE  TypeOK'
  <1> DEFINE inner == Replace(auth, AuthRoute, auth.index, name, NewKey)
             outer == Replace(main, MainRoute, main.index, name, NewKey)
  <1>1. NavigatorOK(main, MainRoute) /\ NavigatorOK(auth, AuthRoute) /\ StoresOK
    BY DEF TypeOK, ScreensOK
  <1>2. CASE name \in AuthRoute
    <2>1. inner # NoState /\ NavigatorOK(inner, AuthRoute)
      BY <1>1, <1>2, ReplaceOK
    <2>2. Mount(main, inner, calls, others) /\ UNCHANGED cleanUp
      BY <2>1 DEF ReplaceFromAuth
    <2>3. cleanUp' \in BOOLEAN
      BY <2>2 DEF TypeOK, ScreensOK
    <2> QED BY <1>1, <2>1, <2>2, <2>3, MountType
  <1>3. CASE name = "HOME"
    <2>0. name \notin AuthRoute /\ name \in MainRoute
      BY <1>3 DEF AuthRoute, MainRoute
    <2>1. inner = NoState
      BY <1>1, <2>0, ReplaceOK
    <2>2. NavigatorOK(outer, MainRoute)
      BY <1>1, <2>0, ReplaceOK
    <2>3. Mount(outer, AuthInitial, calls, others) /\ cleanUp' = FALSE
      BY <2>1 DEF ReplaceFromAuth
    <2> QED BY <1>1, <2>2, <2>3, MountType, InitialOK
  <1> QED BY <1>2, <1>3

-----------------------------------------------------------------------------
(* Type correctness.                                                       *)

LEMMA KeyFacts ==
    /\ USER_ADMIN_KEY \in StorageKey /\ USER_MEMBER_KEY \in StorageKey
    /\ USER_LOGGEDIN_KEY \in StorageKey
    /\ \A b \in BOOLEAN : UserKey(b) \in StorageKey /\ UserKey(b) # USER_LOGGEDIN_KEY
  BY SessionAssumption DEF USER_ADMIN_KEY, USER_MEMBER_KEY, USER_LOGGEDIN_KEY, UserKey

\* The store stays typed under any call a handler makes.
LEMMA WrittenOK ==
    ASSUME NEW store, StoreOK(store), NEW r, RequestOK(r)
    PROVE  StoreOK(Written(store, r))
  <1>1. CASE r.op = "get"
    BY <1>1 DEF Written
  <1>2. CASE r.op # "get"
    <2>1. Written(store, r) = [store EXCEPT ![r.key] = r.value]
      BY <1>2 DEF Written
    <2>2. \/ /\ r.key = USER_LOGGEDIN_KEY /\ r.value \in Account \cup {Missing}
          \/ /\ \E b \in BOOLEAN : r.key = UserKey(b)
             /\ r.value \in Seq(Email)
      BY <1>2 DEF RequestOK, GetItem, SetItem, RemoveItem, Account, HandlerCall,
                  KnowsEmail, SavesSession
    <2>3. r.key \in StorageKey
      BY <2>2, KeyFacts
    <2>4. DOMAIN Written(store, r) = StorageKey
      BY <2>1 DEF StoreOK
    <2>5. \A key \in StorageKey :
            Written(store, r)[key] = IF key = r.key THEN r.value ELSE store[key]
      BY <2>1 DEF StoreOK
    <2>6. ASSUME NEW b \in BOOLEAN PROVE Stored(Written(store, r), b) \in Seq(Email)
      <3>1. UserKey(b) \in StorageKey /\ UserKey(b) # USER_LOGGEDIN_KEY
        BY KeyFacts
      <3>2. Stored(store, b) \in Seq(Email) /\ <<>> \in Seq(Email)
        BY EmptySeq DEF StoreOK
      <3>3. CASE r.key = UserKey(b)
        <4>1. r.value \in Seq(Email)
          BY <2>2, <3>1, <3>3
        <4> QED BY <2>5, <3>1, <3>2, <3>3, <4>1 DEF Stored, Users
      <3>4. CASE r.key # UserKey(b)
        BY <2>5, <3>1, <3>2, <3>4 DEF Stored
      <3> QED BY <3>3, <3>4
    <2>7. Written(store, r)[USER_LOGGEDIN_KEY] \in Account \cup {Missing}
      BY <2>2, <2>5, KeyFacts DEF StoreOK
    <2> QED BY <2>4, <2>6, <2>7 DEF StoreOK
  <1> QED BY <1>1, <1>2

LEMMA NothingStoredOK == StoreOK(NothingStored)
  BY EmptySeq, KeyFacts DEF NothingStored, StoreOK, Stored, Users

\* One key of a store taken from another, as when the cache is emptied.
LEMMA MixedOK ==
    ASSUME NEW store, StoreOK(store), NEW other, StoreOK(other), NEW key \in StorageKey
    PROVE  StoreOK([store EXCEPT ![key] = other[key]])
  <1> DEFINE mixed == [store EXCEPT ![key] = other[key]]
  <1>1. /\ DOMAIN mixed = StorageKey
        /\ \A k \in StorageKey : mixed[k] = IF k = key THEN other[k] ELSE store[k]
    BY DEF StoreOK
  <1> HIDE DEF mixed
  <1>2. ASSUME NEW b \in BOOLEAN PROVE Stored(mixed, b) \in Seq(Email)
    <2>1. UserKey(b) \in StorageKey
      BY KeyFacts
    <2>2. mixed[UserKey(b)] \in {other[UserKey(b)], store[UserKey(b)]}
      BY <1>1, <2>1
    <2> QED BY <2>2 DEF StoreOK, Stored
  <1>3. mixed[USER_LOGGEDIN_KEY] \in Account \cup {Missing}
    BY <1>1, KeyFacts DEF StoreOK
  <1>4. StoreOK(mixed)
    BY <1>1, <1>2, <1>3 DEF StoreOK
  <1> QED BY <1>4 DEF mixed

\* The store without a key, as when its file is gone.
Without(store, key) == [store EXCEPT ![key] = Missing]

LEMMA WithoutMixed ==
    ASSUME NEW store, NEW key \in StorageKey
    PROVE  Without(store, key) = [store EXCEPT ![key] = NothingStored[key]]
  <1>1. NothingStored[key] = Missing
    BY DEF NothingStored
  <1> QED BY <1>1 DEF Without

LEMMA WithoutOK ==
    ASSUME NEW store, StoreOK(store), NEW key \in StorageKey
    PROVE  StoreOK(Without(store, key))
  <1>1. StoreOK([store EXCEPT ![key] = NothingStored[key]])
    BY MixedOK, NothingStoredOK
  <1> QED BY <1>1, WithoutMixed

\* Whatever a call does to a copy of the store, succeeds or fails, leaves one of
\* these, and so does a crash.
Copies(r) ==
    {mem, disk, staged, Written(mem, r), Written(disk, r), Written(staged, r),
     Without(mem, r.key), Without(disk, r.key), Without(staged, r.key), NothingStored}

LEMMA CopiesOK ==
    ASSUME StoresOK, NEW r, RequestOK(r), NEW store \in Copies(r)
    PROVE  StoreOK(store)
  <1>1. StoreOK(mem) /\ StoreOK(disk) /\ StoreOK(staged)
    BY DEF StoresOK
  <1>2. StoreOK(Written(mem, r)) /\ StoreOK(Written(disk, r)) /\ StoreOK(Written(staged, r))
    BY <1>1, WrittenOK
  <1>3. r.key \in StorageKey
    BY KeyFacts DEF RequestOK, GetItem, SetItem, RemoveItem, HandlerCall
  <1>4. /\ StoreOK(Without(mem, r.key)) /\ StoreOK(Without(disk, r.key))
        /\ StoreOK(Without(staged, r.key))
    BY <1>1, <1>3, WithoutOK
  <1> QED BY <1>1, <1>2, <1>4, NothingStoredOK DEF Copies

LEMMA RemainsCopies ==
    ASSUME NEW r
    PROVE  Remains(r) \subseteq Copies(r)
  <1>1. CASE ~TouchesFile(r)
    BY <1>1 DEF Remains, Copies
  <1>2. CASE TouchesFile(r)
    <2>1. Written(disk, r) = [disk EXCEPT ![r.key] = r.value]
      BY <1>2 DEF TouchesFile, Written
    <2>2. [disk EXCEPT ![r.key] = IF HasFile(r.key, r.value) THEN r.value ELSE Missing]
            \in Copies(r)
      BY <2>1 DEF Copies, Without
    <2> QED BY <1>2, <2>2 DEF Remains, Copies
  <1> QED BY <1>1, <1>2

LEMMA StoreStepCases ==
    ASSUME StoreStep, NEW r, r = Head(requests)
    PROVE  /\ requests # <<>>
           /\ mem' \in Copies(r) /\ disk' \in Copies(r) /\ staged' \in Copies(r)
           /\ haveSetup' \in {haveSetup, TRUE} /\ filesFailed' \in {filesFailed, TRUE}
           /\ \/ /\ requests' = Tail(requests)
                 /\ \E error \in BOOLEAN : replies' = Append(replies, Answer(r, error))
              \/ UNCHANGED <<requests, replies>>
           /\ faults' = faults \/ (faults < MaxFaults /\ faults' = faults + 1)
           /\ deletions' = deletions
              \/ (deletions < MaxDeletions /\ deletions' = deletions + 1)
  <1>1. CASE Execute
    <2>1. Persisted(r) \subseteq Copies(r)
      BY DEF Persisted, Copies
    <2>2. mem' \in Copies(r) /\ staged' \in Copies(r)
      BY <1>1 DEF Execute, Copies
    <2>3. haveSetup' \in {haveSetup, TRUE} /\ filesFailed' \in {filesFailed, TRUE}
      BY <1>1, Zenon DEF Execute, failures
    <2> QED BY <1>1, <2>1, <2>2, <2>3 DEF Execute, failures
  <1>2. CASE Fail
    <2>1. /\ mem' \in Copies(r) /\ disk' \in Copies(r) /\ staged' \in Copies(r)
          /\ haveSetup' \in {haveSetup, TRUE} /\ filesFailed' \in {filesFailed, TRUE}
      <3>1. \/ FailsInDatabase(r) \/ FailsToSetUp \/ FailsToPersist(r)
            \/ FailsToWriteFile(r) \/ FailsToReadFile(r)
        BY <1>2 DEF Fail
      <3>2. Remains(r) \subseteq Copies(r)
        BY RemainsCopies
      <3>3. /\ mem \in Copies(r) /\ disk \in Copies(r) /\ staged \in Copies(r)
            /\ Written(mem, r) \in Copies(r) /\ Written(staged, r) \in Copies(r)
            /\ Without(mem, r.key) \in Copies(r) /\ Without(staged, r.key) \in Copies(r)
        BY DEF Copies
      <3>4. CASE FailsInDatabase(r)
        BY <3>2, <3>4, Zenon DEF FailsInDatabase
      <3>5. CASE FailsToSetUp
        BY <3>3, <3>5, Zenon DEF FailsToSetUp, stores
      <3>6. CASE FailsToPersist(r)
        BY <3>2, <3>3, <3>6, Zenon DEF FailsToPersist
      <3>7. CASE FailsToWriteFile(r)
        <4>1. mem' \in Copies(r)
          BY <3>3, <3>7 DEF FailsToWriteFile
        <4> QED BY <3>3, <3>7, <4>1, Zenon DEF FailsToWriteFile
      <3>8. CASE FailsToReadFile(r)
        BY <3>3, <3>8, Zenon DEF FailsToReadFile, Without
      <3> QED BY <3>1, <3>4, <3>5, <3>6, <3>7, <3>8
    <2> QED BY <1>2, <2>1 DEF Fail
  <1>3. CASE DeleteDatabase
    <2>1. filesFailed' \in {filesFailed, TRUE} /\ haveSetup' \in {haveSetup, TRUE}
      BY <1>3, Zenon DEF DeleteDatabase
    <2> QED BY <1>3, <2>1 DEF DeleteDatabase, Copies
  <1> QED BY <1>1, <1>2, <1>3 DEF StoreStep

LEMMA RestartCases ==
    ASSUME NEW calls, Restart(calls)
    PROVE  /\ mem' = disk' /\ staged' = disk'
           /\ disk' = disk \/ (requests # <<>> /\ disk' \in Copies(Head(requests)))
  BY RemainsCopies DEF Restart

LEMMA AnswerOK ==
    ASSUME StoresOK, NEW r, RequestOK(r), NEW error \in BOOLEAN
    PROVE  ReplyOK(Answer(r, error))
  <1>1. r.call \in HandlerCall /\ (r.call.at \in KnowsEmail => r.call.email \in Email)
    BY DEF RequestOK
  <1>2. CASE r.op = "get" /\ ~error
    <2>1. \/ /\ r.call.at \in ReadsSession /\ r.key = USER_LOGGEDIN_KEY
          \/ /\ r.call.at \in FindsUsers /\ r.key = UserKey(r.call.isAdmin)
      BY <1>2 DEF RequestOK, GetItem, SetItem, RemoveItem
    <2>2. CASE r.call.at \in ReadsSession /\ r.key = USER_LOGGEDIN_KEY
      BY <1>1, <1>2, <2>2 DEF ReplyOK, Answer, StoresOK, StoreOK
    <2>3. CASE r.call.at \in FindsUsers /\ r.key = UserKey(r.call.isAdmin)
      <3>1. r.call.isAdmin \in BOOLEAN
        BY <1>1 DEF HandlerCall
      <3>2. mem[r.key] # Missing => mem[r.key] \in Seq(Email)
        BY <2>3, <3>1 DEF StoresOK, StoreOK, Stored, Users
      <3> QED BY <1>1, <1>2, <2>3, <3>2 DEF ReplyOK, Answer
    <2> QED BY <2>1, <2>2, <2>3
  <1>3. CASE ~(r.op = "get" /\ ~error)
    BY <1>1, <1>3 DEF ReplyOK, Answer
  <1> QED BY <1>2, <1>3

LEMMA StoreStepType == TypeOK /\ StoreStep => TypeOK'
  <1> SUFFICES ASSUME TypeOK, StoreStep PROVE TypeOK'
    OBVIOUS
  <1> DEFINE r == Head(requests)
  <1> HIDE DEF r
  <1>0. r = Head(requests)
    BY DEF r
  <1>1. requests # <<>>
    BY <1>0, StoreStepCases
  <1>2. StoresOK /\ RequestOK(r) /\ QueueOK(Tail(requests), RequestOK)
    BY <1>0, <1>1, HeadTailRequestOK DEF TypeOK, QueuesOK
  <1>3. \A error \in BOOLEAN : QueueOK(Append(replies, Answer(r, error)), ReplyOK)
    BY <1>2, AnswerOK, AppendReplyOK DEF TypeOK, QueuesOK
  <1>4. \/ /\ requests' = Tail(requests)
           /\ \E error \in BOOLEAN : replies' = Append(replies, Answer(r, error))
        \/ UNCHANGED <<requests, replies>>
    BY <1>0, StoreStepCases
  <1>5. QueuesOK'
    BY <1>2, <1>3, <1>4 DEF TypeOK, QueuesOK
  <1>6. ScreensOK'
    BY DEF StoreStep, screenVars, navVars, TypeOK, ScreensOK
  <1>7. StoresOK'
    <2>1. mem' \in Copies(r) /\ disk' \in Copies(r) /\ staged' \in Copies(r)
      BY <1>0, StoreStepCases
    <2>2. StoreOK(mem') /\ StoreOK(disk') /\ StoreOK(staged')
      BY <1>2, <2>1, CopiesOK
    <2>3. StoreOK(mem)' /\ StoreOK(disk)' /\ StoreOK(staged)'
      BY <2>2 DEF StoreOK, Stored
    <2>4. haveSetup' \in BOOLEAN
      BY <1>0, <1>2, StoreStepCases DEF StoresOK
    <2>5. faults' \in 0..MaxFaults /\ deletions' \in 0..MaxDeletions
      <3>1. /\ faults' = faults \/ (faults < MaxFaults /\ faults' = faults + 1)
            /\ deletions' = deletions
               \/ (deletions < MaxDeletions /\ deletions' = deletions + 1)
        BY <1>0, StoreStepCases
      <3>2. /\ faults \in 0..MaxFaults /\ MaxFaults \in Nat
            /\ deletions \in 0..MaxDeletions /\ MaxDeletions \in Nat
        BY <1>2, StorageAssumption DEF StoresOK
      <3> QED BY <3>1, <3>2
    <2>6. interrupts' \in 0..MaxInterrupts
      BY <1>2 DEF StoreStep, StoresOK
    <2>7. filesFailed' \in BOOLEAN
      <3>1. filesFailed' \in {filesFailed, TRUE}
        BY <1>0, StoreStepCases
      <3> QED BY <1>2, <3>1, Zenon DEF StoresOK
    <2> QED BY <2>3, <2>4, <2>5, <2>6, <2>7 DEF StoresOK
  <1> QED BY <1>5, <1>6, <1>7 DEF TypeOK

\* The cache emptied of one key: only what memory answers changes.
LEMMA EmptyCacheCases ==
    ASSUME EmptyCache
    PROVE  /\ UNCHANGED <<disk, staged, haveSetup, requests, replies, faults, filesFailed,
                          deletions, main, auth, cleanUp, form, isLoading, userInfo,
                          interrupts>>
           /\ \E key \in StorageKey : /\ mem[key] # staged[key]
                                     /\ mem' = [mem EXCEPT ![key] = staged[key]]
  BY DEF EmptyCache, Evict, failures, screenVars, navVars

LEMMA EmptyCacheType == TypeOK /\ EmptyCache => TypeOK'
  <1> SUFFICES ASSUME TypeOK, EmptyCache PROVE TypeOK'
    OBVIOUS
  <1>1. StoreOK(mem')
    BY EmptyCacheCases, MixedOK DEF TypeOK, StoresOK
  <1>2. StoreOK(mem)'
    BY <1>1 DEF StoreOK, Stored
  <1>3. StoresOK'
    BY <1>2, EmptyCacheCases DEF TypeOK, StoresOK, StoreOK, Stored
  <1>4. QueuesOK' /\ ScreensOK'
    BY EmptyCacheCases DEF TypeOK, QueuesOK, ScreensOK
  <1> QED BY <1>3, <1>4 DEF TypeOK

LEMMA UserStepType == TypeOK /\ UserStep => TypeOK'
  <1> SUFFICES ASSUME TypeOK, UserStep PROVE TypeOK'
    OBVIOUS
  <1> USE DEF TypeOK
  <1>1. ASSUME NEW email \in Email \cup {NoEmail}, ChangeEmail(email) PROVE TypeOK'
    <2>1. StoresOK' /\ QueuesOK'
      BY <1>1 DEF ChangeEmail, storageVars, stores, failures, navVars, StoresOK,
                  StoreOK, Stored, QueuesOK
    <2>2. ScreensOK'
      BY <1>1 DEF ChangeEmail, navVars, ScreensOK
    <2> QED BY <2>1, <2>2
  <1>2. CASE ToggleSwitch
    <2>1. StoresOK' /\ QueuesOK'
      BY <1>2 DEF ToggleSwitch, storageVars, stores, failures, navVars, StoresOK,
                  StoreOK, Stored, QueuesOK
    <2>2. ScreensOK'
      BY <1>2 DEF ToggleSwitch, navVars, ScreensOK
    <2> QED BY <2>1, <2>2
  <1>3. ASSUME NEW request, RequestOK(request), Tap(request) PROVE TypeOK'
    <2>1. StoresOK' /\ ScreensOK'
      <3>1. StoresOK'
        BY <1>3 DEF Tap, Answered, stores, failures, StoresOK, StoreOK, Stored
      <3>2. ScreensOK'
        BY <1>3 DEF Tap, screenVars, navVars, ScreensOK
      <3> QED BY <3>1, <3>2
    <2>2. QueueOK(Append(requests, request), RequestOK)
      BY <1>3, AppendRequestOK DEF QueuesOK
    <2>3. QueuesOK'
      BY <1>3, <2>2 DEF Tap, Answered, QueuesOK
    <2> QED BY <2>1, <2>3
  <1>4. CASE SubmitLogin \/ SubmitSignup
    <2>1. PICK at \in FindsUsers : FindUser(at)
      BY <1>4 DEF SubmitLogin, SubmitSignup, FindsUsers
    <2>2. RequestOK(GetItem(UserKey(form.isAdmin), Handler(at, form.email, form.isAdmin)))
      BY <2>1 DEF FindUser, RequestOK, GetItem, Handler, HandlerCall, FindsUsers,
                  TapHandlers, ScreensOK
    <2> QED BY <2>1, <2>2, <1>3 DEF FindUser
  <1>5. CASE TapLogout
    <2>1. RequestOK(RemoveItem(USER_LOGGEDIN_KEY, Handler("logout", NoEmail, FALSE)))
      BY DEF RequestOK, RemoveItem, Handler, HandlerCall, TapHandlers, KnowsEmail,
             FindsUsers, SavesSession
    <2> QED BY <1>5, <2>1, <1>3 DEF TapLogout
  <1>6. CASE FollowLink
    <2>1. PICK name \in AuthRoute : ReplaceFromAuth(name, requests, replies)
      BY <1>6 DEF FollowLink, AuthRoute
    <2>2. interrupts' \in 0..MaxInterrupts
      BY <1>6 DEF FollowLink, StoresOK
    <2> QED BY <2>1, <2>2, ReplaceFromAuthType DEF QueuesOK
  <1> QED BY <1>1, <1>2, <1>4, <1>5, <1>6 DEF UserStep

LEMMA RunCallbackType == TypeOK /\ RunCallback => TypeOK'
  <1> SUFFICES ASSUME TypeOK, RunCallback PROVE TypeOK'
    OBVIOUS
  <1>1. replies # <<>>
    BY DEF RunCallback, IsUserLoggedIn, LoginFound, SignupFound, SignupAdded,
           SessionSaved, GetUserInfo, LoggedOut, Rejected, Awaited
  <1>2. /\ ReplyOK(Reply) /\ QueueOK(OtherReplies, ReplyOK)
        /\ QueueOK(requests, RequestOK) /\ StoresOK /\ ScreensOK
        /\ interrupts \in 0..MaxInterrupts
    BY <1>1, HeadTailReplyOK DEF TypeOK, QueuesOK, StoresOK, Reply, OtherReplies
  <1>3. Call \in HandlerCall /\ Call.isAdmin \in BOOLEAN
        /\ (Call.at \in KnowsEmail => Call.email \in Email)
    BY <1>2 DEF ReplyOK, Call, HandlerCall
  <1>4. ASSUME NEW calls, QueueOK(calls, RequestOK), Answered(calls, OtherReplies)
        PROVE  QueuesOK'
    BY <1>2, <1>4 DEF Answered, QueuesOK
  <1>5. ASSUME NEW calls, Answered(calls, OtherReplies), UNCHANGED interrupts
        PROVE  StoresOK'
    BY <1>2, <1>5 DEF Answered, stores, failures, StoresOK, StoreOK, Stored
  <1>6. ASSUME Finish, UNCHANGED <<form, interrupts>>, isLoading' \in BOOLEAN
        PROVE  TypeOK'
    <2>1. ScreensOK'
      BY <1>2, <1>6 DEF Finish, navVars, ScreensOK
    <2> QED BY <1>2, <1>4, <1>5, <1>6, <2>1 DEF Finish, navVars, TypeOK
  <1>7. ASSUME GoHome, UNCHANGED interrupts PROVE TypeOK'
    <2>1. CASE Call.screen = "closed"
      <3>1. Finish /\ UNCHANGED <<form, isLoading>>
        BY <1>7, <2>1 DEF GoHome
      <3>2. isLoading' \in BOOLEAN
        BY <1>2, <3>1 DEF ScreensOK
      <3> QED BY <1>6, <1>7, <3>1, <3>2
    <2>2. CASE Call.screen # "closed"
      <3>1. ReplaceFromAuth("HOME", requests, OtherReplies)
        BY <1>7, <2>2 DEF GoHome
      <3>2. interrupts' \in 0..MaxInterrupts
        BY <1>2, <1>7
      <3> QED BY <1>2, <3>1, <3>2, ReplaceFromAuthType
    <2> QED BY <2>1, <2>2
  <1>8. ASSUME NEW text \in {"", "User not found", "User already added"}, SetError(text)
        PROVE  form' \in [email : Email \cup {NoEmail}, isAdmin : BOOLEAN,
                          error : {"", "User not found", "User already added"}]
    BY <1>2, <1>8 DEF SetError, ScreensOK
  <1>9. ASSUME NEW request, RequestOK(request), UNCHANGED interrupts,
               GoOn(request, "")
        PROVE  TypeOK'
    <2>1. Answered(Append(requests, request), OtherReplies)
      BY <1>9 DEF GoOn
    <2>2. QueueOK(Append(requests, request), RequestOK)
      BY <1>2, <1>9, AppendRequestOK
    <2>3. QueuesOK'
      BY <1>4, <2>1, <2>2
    <2>4. StoresOK'
      BY <1>5, <1>9, <2>1
    <2>5. ScreensOK'
      BY <1>2, <1>8, <1>9 DEF GoOn, navVars, ScreensOK
    <2> QED BY <2>3, <2>4, <2>5 DEF TypeOK
  <1>10. ASSUME NEW text \in {"User not found", "User already added"},
                SetError(text), Finish, UNCHANGED <<isLoading, interrupts>>
         PROVE  TypeOK'
    <2>1. Answered(requests, OtherReplies)
      BY <1>10 DEF Finish, navVars
    <2>2. QueuesOK' /\ StoresOK'
      BY <1>2, <1>4, <1>5, <1>10, <2>1
    <2>3. ScreensOK'
      BY <1>2, <1>8, <1>10 DEF Finish, navVars, ScreensOK
    <2> QED BY <2>2, <2>3 DEF TypeOK
  <1>11. ASSUME NEW at \in SavesSession, Call.at \in KnowsEmail
         PROVE  RequestOK(Saved(at))
    <2>1. /\ [Call EXCEPT !.at = at] \in HandlerCall
          /\ [Call EXCEPT !.at = at].at = at
          /\ [Call EXCEPT !.at = at].email = Call.email
          /\ [Call EXCEPT !.at = at].isAdmin = Call.isAdmin
      BY <1>3, <1>11 DEF HandlerCall, SavesSession, TapHandlers
    <2> QED BY <1>3, <1>11, <2>1 DEF Saved, RequestOK, SetItem
  <1>12. CASE IsUserLoggedIn
    <2>1. CASE Reply.value # Missing /\ Call.screen # "closed"
      BY <1>7, <1>12, <2>1 DEF IsUserLoggedIn
    <2>2. CASE ~(Reply.value # Missing /\ Call.screen # "closed")
      <3>1. isLoading' \in BOOLEAN /\ Finish /\ UNCHANGED <<form, interrupts>>
        BY <1>2, <1>12, <2>2 DEF IsUserLoggedIn, ScreensOK
      <3> QED BY <1>6, <3>1
    <2> QED BY <2>1, <2>2
  <1>13. CASE LoginFound
    <2>1. Call.at \in KnowsEmail /\ "login.save" \in SavesSession
      BY <1>13 DEF LoginFound, Awaited, KnowsEmail, FindsUsers, SavesSession
    <2>2. RequestOK(Saved("login.save"))
      BY <1>11, <2>1
    <2> QED BY <1>9, <1>10, <1>13, <2>2 DEF LoginFound
  <1>14. CASE SignupFound
    <2>1. Call.at = "signup.find" /\ ~Reply.error
      BY <1>14 DEF SignupFound, Awaited
    <2>2. Users(Reply.value) \in Seq(Email)
      BY <1>2, <2>1, EmptySeq DEF ReplyOK, Call, Users, ReadsSession
    <2>3. Call.email \in Email
      BY <1>3, <2>1 DEF KnowsEmail, FindsUsers
    <2>4. <<Call.email>> \o Users(Reply.value) \in Seq(Email)
      BY <2>2, <2>3, ConcatProperties
    <2> DEFINE request == SetItem(UserKey(Call.isAdmin),
                                  <<Call.email>> \o Users(Reply.value),
                                  [Call EXCEPT !.at = "signup.add"])
    <2>5. RequestOK(request)
      <3>1. /\ [Call EXCEPT !.at = "signup.add"] \in HandlerCall
            /\ [Call EXCEPT !.at = "signup.add"].at = "signup.add"
            /\ [Call EXCEPT !.at = "signup.add"].email = Call.email
            /\ [Call EXCEPT !.at = "signup.add"].isAdmin = Call.isAdmin
        BY <1>3 DEF HandlerCall, TapHandlers
      <3> QED BY <2>3, <2>4, <3>1 DEF RequestOK, SetItem
    <2> QED BY <1>9, <1>10, <1>14, <2>5 DEF SignupFound
  <1>15. CASE SignupAdded
    <2>1. Call.at \in KnowsEmail /\ "signup.save" \in SavesSession
      BY <1>15 DEF SignupAdded, Awaited, KnowsEmail, SavesSession
    <2>2. RequestOK(Saved("signup.save"))
      BY <1>11, <2>1
    <2>3. QueueOK(Append(requests, Saved("signup.save")), RequestOK)
      BY <1>2, <2>2, AppendRequestOK
    <2>4. Answered(Append(requests, Saved("signup.save")), OtherReplies)
          /\ UNCHANGED <<screenVars, interrupts>>
      BY <1>15 DEF SignupAdded
    <2>5. QueuesOK' /\ StoresOK'
      BY <1>4, <1>5, <2>3, <2>4
    <2>6. ScreensOK'
      BY <1>2, <2>4 DEF screenVars, navVars, ScreensOK
    <2> QED BY <2>5, <2>6 DEF TypeOK
  <1>16. CASE SessionSaved
    BY <1>7, <1>16 DEF SessionSaved
  <1>17. CASE GetUserInfo
    <2>1. Call.at = "getUserInfo" /\ Answered(requests, OtherReplies)
          /\ UNCHANGED <<main, auth, cleanUp, form, isLoading, interrupts>>
      BY <1>17 DEF GetUserInfo, Awaited, navVars
    <2>2. Reply.value \in Account \cup {Missing}
      BY <1>2, <2>1 DEF ReplyOK, Call, FindsUsers
    <2>3. userInfo' \in Account \cup {Missing}
      BY <1>2, <1>17, <2>2 DEF GetUserInfo, ScreensOK
    <2>4. ScreensOK'
      BY <1>2, <2>1, <2>3 DEF ScreensOK
    <2> QED BY <1>2, <1>4, <1>5, <2>1, <2>4 DEF TypeOK
  <1>18. CASE LoggedOut
    <2>1. CASE Call.screen = "closed"
      <3>1. isLoading' \in BOOLEAN /\ Finish /\ UNCHANGED <<form, interrupts>>
        BY <1>2, <1>18, <2>1 DEF LoggedOut, ScreensOK
      <3> QED BY <1>6, <3>1
    <2>2. CASE Call.screen # "closed"
      <3>1. Mount(MainInitial, AuthInitial, requests, OtherReplies) /\ cleanUp' = FALSE
        BY <1>18, <2>2, ResetOK DEF LoggedOut, ResetToAuth
      <3>2. interrupts' \in 0..MaxInterrupts
        BY <1>2, <1>18 DEF LoggedOut
      <3> QED BY <1>2, <3>1, <3>2, MountType, InitialOK
    <2> QED BY <2>1, <2>2
  <1>19. CASE Rejected
    <2>1. isLoading' \in BOOLEAN /\ Finish /\ UNCHANGED <<form, interrupts>>
      BY <1>2, <1>19 DEF Rejected, ScreensOK
    <2> QED BY <1>6, <2>1
  <1> QED BY <1>12, <1>13, <1>14, <1>15, <1>16, <1>17, <1>18, <1>19 DEF RunCallback

LEMMA InitType == Init => TypeOK
  <1> SUFFICES ASSUME Init PROVE TypeOK
    OBVIOUS
  <1>1. StoresOK
    <2>1. StoreOK(mem) /\ StoreOK(disk) /\ StoreOK(staged)
      BY NothingStoredOK DEF Init, StorageInit
    <2>2. /\ haveSetup \in BOOLEAN /\ filesFailed \in BOOLEAN
          /\ faults = 0 /\ deletions = 0 /\ interrupts = 0
      BY DEF Init, StorageInit
    <2>3. 0 \in 0..MaxFaults /\ 0 \in 0..MaxDeletions /\ 0 \in 0..MaxInterrupts
      BY StorageAssumption, SessionAssumption
    <2> QED BY <2>1, <2>2, <2>3 DEF StoresOK
  <1>2. QueuesOK
    <2>1. QueueOK(MountCalls("LOGIN"), RequestOK) /\ QueueOK(<<>>, ReplyOK)
      BY MountCallsOK, QueueEmpty DEF QueueOK, IsQueue
    <2> QED BY <2>1 DEF Init, StorageInit, QueuesOK
  <1>3. ScreensOK
    BY InitialOK DEF Init, ScreensOK
  <1> QED BY <1>1, <1>2, <1>3 DEF TypeOK

LEMMA EnvironmentType ==
    TypeOK /\ (ChangeColorScheme \/ Crash \/ BackOutAndReturn) => TypeOK'
  <1> SUFFICES ASSUME TypeOK, ChangeColorScheme \/ Crash \/ BackOutAndReturn
               PROVE  TypeOK'
    OBVIOUS
  <1>1. interrupts' \in 0..MaxInterrupts
    <2>1. interrupts < MaxInterrupts /\ interrupts' = interrupts + 1
      BY DEF ChangeColorScheme, Crash, BackOutAndReturn
    <2>2. interrupts \in 0..MaxInterrupts /\ MaxInterrupts \in Nat
      BY SessionAssumption DEF TypeOK, StoresOK
    <2> QED BY <2>1, <2>2
  <1>2. CASE ChangeColorScheme
    BY <1>1, <1>2, MountType DEF ChangeColorScheme, TypeOK, ScreensOK, QueuesOK
  <1>3. QueueOK(MountCalls("LOGIN"), RequestOK) /\ QueueOK(<<>>, ReplyOK)
    BY MountCallsOK, QueueEmpty DEF QueueOK, IsQueue
  <1>4. CASE Crash
    <2>1. StoresOK'
      <3>1. PICK calls : Restart(calls)
        BY <1>4 DEF Crash
      <3>2. \/ disk' = disk
            \/ requests # <<>> /\ disk' \in Copies(Head(requests))
        BY <3>1, RestartCases
      <3>3. StoreOK(disk')
        BY <3>2, CopiesOK, HeadTailRequestOK DEF TypeOK, StoresOK, QueuesOK
      <3>4. StoreOK(mem)' /\ StoreOK(disk)' /\ StoreOK(staged)'
        BY <3>1, <3>3, RestartCases DEF StoreOK, Stored
      <3>5. UNCHANGED <<faults, filesFailed, deletions>> /\ haveSetup' \in BOOLEAN
        BY <3>1 DEF Restart, failures
      <3> QED BY <1>1, <3>4, <3>5 DEF TypeOK, StoresOK
    <2>2. QueuesOK'
      BY <1>3, <1>4 DEF Crash, Restart, QueuesOK
    <2>3. ScreensOK'
      BY <1>4, InitialOK DEF Crash, FreshScreen, ScreensOK
    <2> QED BY <2>1, <2>2, <2>3 DEF TypeOK
  <1>5. CASE BackOutAndReturn
    <2>1. StoresOK'
      BY <1>1, <1>5 DEF BackOutAndReturn, ActivityDestroyed, stores, failures, TypeOK,
                        StoresOK, StoreOK, Stored
    <2>2. /\ QueueOK(Disowned(requests, "closed"), RequestOK)
          /\ QueueOK(Disowned(replies, "closed"), ReplyOK)
      BY QueuesDisowned DEF TypeOK, QueuesOK
    <2>3. QueueOK(Disowned(requests, "closed") \o MountCalls("LOGIN"), RequestOK)
      BY <1>3, <2>2, ConcatOK
    <2>4. QueuesOK'
      BY <1>5, <2>2, <2>3 DEF BackOutAndReturn, ActivityDestroyed, QueuesOK
    <2>5. ScreensOK'
      BY <1>5, InitialOK DEF BackOutAndReturn, FreshScreen, ScreensOK
    <2> QED BY <2>1, <2>4, <2>5 DEF TypeOK
  <1> QED BY <1>2, <1>4, <1>5

LEMMA CleanUpType == TypeOK /\ CleanUpState => TypeOK'
  <1> SUFFICES ASSUME TypeOK, CleanUpState PROVE TypeOK'
    OBVIOUS
  <1>1. cleanUp' \in BOOLEAN /\ interrupts' \in 0..MaxInterrupts
    BY DEF CleanUpState, TypeOK, StoresOK
  <1>2. CASE auth = AuthInitial
    <2>1. UNCHANGED <<storageVars, main, auth, form, isLoading, userInfo, interrupts>>
      BY <1>2 DEF CleanUpState
    <2> QED BY <1>1, <2>1
            DEF TypeOK, StoresOK, StoreOK, Stored, QueuesOK, ScreensOK, storageVars,
                stores, failures
  <1>3. CASE auth # AuthInitial
    BY <1>1, <1>3, MountType, InitialOK DEF CleanUpState, TypeOK, ScreensOK, QueuesOK
  <1> QED BY <1>2, <1>3

LEMMA StutterType == TypeOK /\ UNCHANGED vars => TypeOK'
  BY DEF vars, storageVars, stores, failures, screenVars, navVars, TypeOK, StoresOK,
         StoreOK, Stored, QueuesOK, ScreensOK

\* The store, the queues and the navigators keep their shape in every
\* behaviour: every queued call is one some handler makes, carries what that
\* handler needs, and is answered with a value of the kind it reads.
THEOREM TypeCorrect == Spec => []TypeOK
  <1>1. TypeOK /\ [Next]_vars => TypeOK'
    BY UserStepType, StoreStepType, EmptyCacheType, RunCallbackType, CleanUpType,
       EnvironmentType, StutterType
       DEF Next
  <1> QED BY InitType, <1>1, PTL DEF Spec

-----------------------------------------------------------------------------
(* No address is listed twice.                                             *)

\* EmailsUnique alone is not inductive: a list that is read now is checked and
\* written back later, so the lists on their way must be free of repetitions
\* as well, in the answers that were read and in the calls that will write.
UniqueStore(store) == \A isAdmin \in BOOLEAN : IsInjective(Stored(store, isAdmin))

UniqueCalls(queue) ==
    \A r \in ToSet(queue) : r.call.at = "signup.add" => IsInjective(r.value)

UniqueAnswers(queue) ==
    \A r \in ToSet(queue) : r.call.at \in FindsUsers => IsInjective(Users(r.value))

UniqueInv == EmailsUnique /\ UniqueCalls(requests) /\ UniqueAnswers(replies)

LEMMA EmptyInjective == IsInjective(<<>>)
  BY DEF IsInjective

\* Putting a new address in front of a list keeps it free of repetitions.
LEMMA ConsInjective ==
    ASSUME NEW list \in Seq(Email), IsInjective(list),
           NEW email \in Email, ~Contains(list, email)
    PROVE  IsInjective(<<email>> \o list)
  <1> DEFINE longer == <<email>> \o list
  <1>1. /\ <<email>> \in Seq(Email) /\ Len(<<email>>) = 1 /\ <<email>>[1] = email
        /\ Len(list) \in Nat /\ DOMAIN list = 1..Len(list)
    BY LenProperties
  <1>2. /\ longer \in Seq(Email) /\ Len(longer) = 1 + Len(list)
        /\ \A i \in 1..(1 + Len(list)) :
             longer[i] = IF i <= 1 THEN <<email>>[i] ELSE list[i - 1]
    BY <1>1, ConcatProperties
  <1>3. DOMAIN longer = 1..(1 + Len(list))
    BY <1>2, LenProperties
  <1>4. longer[1] = email /\ \A i \in 2..(1 + Len(list)) : longer[i] = list[i - 1]
    BY <1>1, <1>2
  <1>5. \A i \in 1..Len(list) : list[i] # email
    BY DEF Contains
  <1> HIDE DEF longer
  <1> SUFFICES ASSUME NEW a \in DOMAIN longer, NEW b \in DOMAIN longer,
                      longer[a] = longer[b]
               PROVE  a = b
    BY DEF IsInjective, longer
  <1>6. CASE a = 1 \/ b = 1
    BY <1>1, <1>3, <1>4, <1>5, <1>6
  <1>7. CASE a # 1 /\ b # 1
    <2>0. a \in 2..(1 + Len(list)) /\ b \in 2..(1 + Len(list))
      BY <1>1, <1>3, <1>7
    <2>1. a - 1 \in DOMAIN list /\ b - 1 \in DOMAIN list /\ list[a - 1] = list[b - 1]
      BY <1>1, <1>4, <2>0
    <2>2. a - 1 = b - 1
      BY <2>1 DEF IsInjective
    <2> QED BY <1>1, <1>3, <1>7, <2>2
  <1> QED BY <1>6, <1>7

LEMMA UniqueParts ==
    EmailsUnique <=> UniqueStore(mem) /\ UniqueStore(disk) /\ UniqueStore(staged)
  BY DEF EmailsUnique, UniqueStore

LEMMA DisownedUnique ==
    ASSUME NEW calls, QueueOK(calls, RequestOK), UniqueCalls(calls),
           NEW others, QueueOK(others, ReplyOK), UniqueAnswers(others),
           NEW how \in {"mounted", "unmounted", "closed"}
    PROVE  UniqueCalls(Disowned(calls, how)) /\ UniqueAnswers(Disowned(others, how))
  <1>1. IsQueue(calls) /\ IsQueue(others)
    BY DEF QueueOK, IsQueue
  <1>2. ASSUME NEW r \in ToSet(Disowned(calls, how)), r.call.at = "signup.add"
        PROVE  IsInjective(r.value)
    <2>1. PICK q \in ToSet(calls) :
            r = [q EXCEPT !.call.screen = IF @ = "closed" THEN @ ELSE how]
      BY <1>1, QueueDisowned
    <2>2. /\ q = [op |-> q.op, key |-> q.key, value |-> q.value, call |-> q.call]
          /\ q.call \in HandlerCall
      <3>1. RequestOK(q)
        BY DEF QueueOK
      <3> QED BY <3>1 DEF RequestOK, GetItem, SetItem, RemoveItem
    <2>3. r.value = q.value /\ r.call.at = q.call.at
      BY <2>1, <2>2 DEF HandlerCall
    <2> QED BY <1>2, <2>3 DEF UniqueCalls
  <1>3. ASSUME NEW r \in ToSet(Disowned(others, how)), r.call.at \in FindsUsers
        PROVE  IsInjective(Users(r.value))
    <2>1. PICK q \in ToSet(others) :
            r = [q EXCEPT !.call.screen = IF @ = "closed" THEN @ ELSE how]
      BY <1>1, QueueDisowned
    <2>2. /\ q = [error |-> q.error, call |-> q.call, value |-> q.value]
          /\ q.call \in HandlerCall
      <3>1. ReplyOK(q)
        BY DEF QueueOK
      <3> QED BY <3>1 DEF ReplyOK
    <2>3. r.value = q.value /\ r.call.at = q.call.at
      BY <2>1, <2>2 DEF HandlerCall
    <2> QED BY <1>3, <2>3 DEF UniqueAnswers
  <1> QED BY <1>2, <1>3 DEF UniqueCalls, UniqueAnswers

LEMMA MountCallsUnique ==
    ASSUME NEW screen, NEW calls, QueueOK(calls, RequestOK), UniqueCalls(calls)
    PROVE  UniqueCalls(MountCalls(screen)) /\ UniqueCalls(calls \o MountCalls(screen))
  <1>1. UniqueCalls(MountCalls(screen))
    <2>1. \A r : ToSet(<<r>>) = {r}
      BY QueueOne
    <2> QED BY <2>1, QueueEmpty DEF UniqueCalls, MountCalls, GetItem, Handler
  <1>2. ToSet(calls \o MountCalls(screen)) \subseteq ToSet(calls) \cup ToSet(MountCalls(screen))
    BY MountCallsOK, QueueConcat DEF QueueOK, IsQueue
  <1> QED BY <1>1, <1>2 DEF UniqueCalls

LEMMA MountUnique ==
    ASSUME EmailsUnique, NEW m, NEW a,
           NEW calls, QueueOK(calls, RequestOK), UniqueCalls(calls),
           NEW others, QueueOK(others, ReplyOK), UniqueAnswers(others),
           Mount(m, a, calls, others)
    PROVE  UniqueInv'
  <1>1. /\ QueueOK(Disowned(calls, "unmounted"), RequestOK)
        /\ UniqueCalls(Disowned(calls, "unmounted"))
        /\ UniqueAnswers(Disowned(others, "unmounted"))
    BY QueuesDisowned, DisownedUnique
  <1>2. UniqueCalls(Disowned(calls, "unmounted") \o MountCalls(Focused(m, a)))
    BY <1>1, MountCallsUnique
  <1> QED BY <1>1, <1>2
          DEF UniqueInv, UniqueCalls, UniqueAnswers, EmailsUnique, Stored, Mount,
              Answered, stores, failures

LEMMA ReplaceFromAuthUnique ==
    ASSUME EmailsUnique, NEW name,
           NEW calls, QueueOK(calls, RequestOK), UniqueCalls(calls),
           NEW others, QueueOK(others, ReplyOK), UniqueAnswers(others),
           ReplaceFromAuth(name, calls, others)
    PROVE  UniqueInv'
  <1>1. PICK m, a : Mount(m, a, calls, others)
    BY DEF ReplaceFromAuth
  <1> QED BY <1>1, MountUnique

LEMMA WrittenUnique ==
    ASSUME NEW store, StoreOK(store), UniqueStore(store),
           NEW r, RequestOK(r), r.call.at = "signup.add" => IsInjective(r.value)
    PROVE  UniqueStore(Written(store, r))
  <1>1. CASE r.op = "get"
    BY <1>1 DEF Written
  <1>2. CASE r.op # "get"
    <2>1. Written(store, r) = [store EXCEPT ![r.key] = r.value]
      BY <1>2 DEF Written
    <2>2. \/ r.key = USER_LOGGEDIN_KEY
          \/ IsInjective(r.value) /\ r.value \in Seq(Email)
      BY <1>2 DEF RequestOK, GetItem, SetItem, RemoveItem
    <2>3. ASSUME NEW b \in BOOLEAN PROVE IsInjective(Stored(Written(store, r), b))
      <3>1. UserKey(b) \in StorageKey /\ UserKey(b) # USER_LOGGEDIN_KEY
        BY KeyFacts
      <3>2. Written(store, r)[UserKey(b)]
              = IF UserKey(b) = r.key THEN r.value ELSE store[UserKey(b)]
        BY <2>1, <3>1 DEF StoreOK
      <3>3. CASE r.key = UserKey(b)
        BY <2>2, <3>1, <3>2, <3>3, EmptyInjective DEF Stored, Users
      <3>4. CASE r.key # UserKey(b)
        BY <3>2, <3>4 DEF Stored, UniqueStore
      <3> QED BY <3>3, <3>4
    <2> QED BY <2>3 DEF UniqueStore
  <1> QED BY <1>1, <1>2

LEMMA NothingStoredUnique == UniqueStore(NothingStored)
  BY KeyFacts, EmptyInjective DEF NothingStored, UniqueStore, Stored, Users

LEMMA MixedUnique ==
    ASSUME NEW store, StoreOK(store), UniqueStore(store),
           NEW other, StoreOK(other), UniqueStore(other), NEW key \in StorageKey
    PROVE  UniqueStore([store EXCEPT ![key] = other[key]])
  <1> DEFINE mixed == [store EXCEPT ![key] = other[key]]
  <1>1. \A k \in StorageKey : mixed[k] = IF k = key THEN other[k] ELSE store[k]
    BY DEF StoreOK
  <1> HIDE DEF mixed
  <1>2. ASSUME NEW b \in BOOLEAN PROVE IsInjective(Stored(mixed, b))
    <2>1. UserKey(b) \in StorageKey
      BY KeyFacts
    <2>2. mixed[UserKey(b)] \in {other[UserKey(b)], store[UserKey(b)]}
      BY <1>1, <2>1
    <2> QED BY <2>2 DEF UniqueStore, Stored
  <1>3. UniqueStore(mixed)
    BY <1>2 DEF UniqueStore
  <1> QED BY <1>3 DEF mixed

LEMMA WithoutUnique ==
    ASSUME NEW store, StoreOK(store), UniqueStore(store), NEW key \in StorageKey
    PROVE  UniqueStore(Without(store, key))
  <1>1. UniqueStore([store EXCEPT ![key] = NothingStored[key]])
    BY MixedUnique, NothingStoredOK, NothingStoredUnique
  <1> QED BY <1>1, WithoutMixed

\* All copies stay free of repetitions under the oldest call, or a crash in it.
LEMMA CopiesUnique ==
    ASSUME TypeOK, UniqueInv, requests # <<>>,
           NEW store \in Copies(Head(requests))
    PROVE  UniqueStore(store)
  <1> DEFINE r == Head(requests)
  <1>1. /\ StoreOK(mem) /\ StoreOK(disk) /\ StoreOK(staged) /\ RequestOK(r)
        /\ IsQueue(requests)
    BY HeadTailRequestOK DEF TypeOK, StoresOK, QueuesOK, QueueOK, IsQueue
  <1>2. r \in ToSet(requests)
    BY <1>1, QueueHeadTail
  <1>3. r.call.at = "signup.add" => IsInjective(r.value)
    BY <1>2 DEF UniqueInv, UniqueCalls
  <1>4. UniqueStore(mem) /\ UniqueStore(disk) /\ UniqueStore(staged)
    BY UniqueParts DEF UniqueInv
  <1>5. /\ UniqueStore(Written(mem, r)) /\ UniqueStore(Written(disk, r))
        /\ UniqueStore(Written(staged, r))
    BY <1>1, <1>3, <1>4, WrittenUnique
  <1>6. r.key \in StorageKey
    BY <1>1, KeyFacts DEF RequestOK, GetItem, SetItem, RemoveItem, HandlerCall
  <1>7. /\ UniqueStore(Without(mem, r.key)) /\ UniqueStore(Without(disk, r.key))
        /\ UniqueStore(Without(staged, r.key))
    BY <1>1, <1>4, <1>6, WithoutUnique
  <1> QED BY <1>4, <1>5, <1>7, NothingStoredUnique DEF Copies

LEMMA StoreStepUnique == TypeOK /\ UniqueInv /\ StoreStep => UniqueInv'
  <1> SUFFICES ASSUME TypeOK, UniqueInv, StoreStep PROVE UniqueInv'
    OBVIOUS
  <1> DEFINE r == Head(requests)
  <1> HIDE DEF r
  <1>0. r = Head(requests)
    BY DEF r
  <1>1. /\ requests # <<>>
        /\ mem' \in Copies(r) /\ disk' \in Copies(r) /\ staged' \in Copies(r)
        /\ \/ /\ requests' = Tail(requests)
              /\ \E error \in BOOLEAN : replies' = Append(replies, Answer(r, error))
           \/ UNCHANGED <<requests, replies>>
    BY <1>0, StoreStepCases
  <1>2. UniqueStore(mem') /\ UniqueStore(disk') /\ UniqueStore(staged')
    BY <1>0, <1>1, CopiesUnique
  <1>3. EmailsUnique'
    BY <1>2 DEF EmailsUnique, UniqueStore, Stored
  <1>4. CASE UNCHANGED <<requests, replies>>
    BY <1>3, <1>4 DEF UniqueInv, UniqueCalls, UniqueAnswers
  <1>5. ASSUME NEW error \in BOOLEAN, requests' = Tail(requests),
               replies' = Append(replies, Answer(r, error))
        PROVE  UniqueInv'
    <2>1. RequestOK(r) /\ IsQueue(requests) /\ IsQueue(replies)
      BY <1>0, <1>1, HeadTailRequestOK DEF TypeOK, QueuesOK, QueueOK, IsQueue
    <2>2. ToSet(Tail(requests)) \subseteq ToSet(requests)
      BY <1>1, <2>1, QueueHeadTail
    <2>3. UniqueCalls(requests')
      BY <1>5, <2>2 DEF UniqueInv, UniqueCalls
    <2>4. ASSUME r.call.at \in FindsUsers
          PROVE  IsInjective(Users(Answer(r, error).value))
      <3>1. /\ r.op = "get" /\ r.call.isAdmin \in BOOLEAN
            /\ r.key = UserKey(r.call.isAdmin)
        BY <2>1, <2>4 DEF RequestOK, FindsUsers, ReadsSession, SavesSession, GetItem,
                          SetItem, RemoveItem, HandlerCall
      <3>2. IsInjective(Users(mem[r.key]))
        BY <3>1, UniqueParts DEF UniqueInv, UniqueStore, Stored
      <3> QED BY <3>2, EmptyInjective DEF Answer, Users
    <2>5. ToSet(replies') = ToSet(replies) \cup {Answer(r, error)}
      BY <1>5, <2>1, QueueAppend
    <2>6. Answer(r, error).call = r.call
      BY DEF Answer
    <2>7. UniqueAnswers(replies')
      BY <2>4, <2>5, <2>6 DEF UniqueInv, UniqueAnswers
    <2> QED BY <1>3, <2>3, <2>7 DEF UniqueInv, UniqueCalls, UniqueAnswers
  <1> QED BY <1>1, <1>4, <1>5

LEMMA EmptyCacheUnique == TypeOK /\ UniqueInv /\ EmptyCache => UniqueInv'
  <1> SUFFICES ASSUME TypeOK, UniqueInv, EmptyCache PROVE UniqueInv'
    OBVIOUS
  <1>1. UniqueStore(mem') /\ UniqueStore(disk') /\ UniqueStore(staged')
    BY EmptyCacheCases, MixedUnique, UniqueParts DEF UniqueInv, TypeOK, StoresOK
  <1>2. EmailsUnique'
    BY <1>1 DEF EmailsUnique, UniqueStore, Stored
  <1> QED BY <1>2, EmptyCacheCases DEF UniqueInv, UniqueCalls, UniqueAnswers

LEMMA UserStepUnique == TypeOK /\ UniqueInv /\ UserStep => UniqueInv'
  <1> SUFFICES ASSUME TypeOK, UniqueInv, UserStep PROVE UniqueInv'
    OBVIOUS
  <1>1. CASE UNCHANGED storageVars
    BY <1>1 DEF storageVars, stores, failures, UniqueInv, EmailsUnique, Stored,
                UniqueCalls, UniqueAnswers
  <1>2. ASSUME NEW request, request.call.at # "signup.add", Tap(request)
        PROVE  UniqueInv'
    <2>1. ToSet(Append(requests, request)) = ToSet(requests) \cup {request}
      BY QueueAppend DEF TypeOK, QueuesOK, QueueOK, IsQueue
    <2>2. UniqueCalls(Append(requests, request))
      BY <1>2, <2>1 DEF UniqueInv, UniqueCalls
    <2> QED BY <1>2, <2>2 DEF Tap, Answered, stores, failures, UniqueInv, EmailsUnique,
                              Stored, UniqueCalls, UniqueAnswers
  <1>3. CASE SubmitLogin \/ SubmitSignup \/ TapLogout
    BY <1>2, <1>3 DEF SubmitLogin, SubmitSignup, TapLogout, FindUser, GetItem,
                      RemoveItem, Handler
  <1>4. CASE FollowLink
    <2>1. PICK name : ReplaceFromAuth(name, requests, replies)
      BY <1>4 DEF FollowLink
    <2> QED BY <2>1, ReplaceFromAuthUnique DEF TypeOK, QueuesOK, UniqueInv
  <1> QED BY <1>1, <1>3, <1>4 DEF UserStep, ChangeEmail, ToggleSwitch

LEMMA RunCallbackUnique == TypeOK /\ UniqueInv /\ RunCallback => UniqueInv'
  <1> SUFFICES ASSUME TypeOK, UniqueInv, RunCallback PROVE UniqueInv'
    OBVIOUS
  <1>1. replies # <<>>
    BY DEF RunCallback, IsUserLoggedIn, LoginFound, SignupFound, SignupAdded,
           SessionSaved, GetUserInfo, LoggedOut, Rejected, Awaited
  <1>2. /\ QueueOK(requests, RequestOK) /\ QueueOK(OtherReplies, ReplyOK)
        /\ ReplyOK(Reply)
    BY <1>1, HeadTailReplyOK DEF TypeOK, QueuesOK, Reply, OtherReplies
  <1>3. Reply \in ToSet(replies) /\ ToSet(OtherReplies) \subseteq ToSet(replies)
    BY <1>1, QueueHeadTail DEF TypeOK, QueuesOK, QueueOK, IsQueue, Reply, OtherReplies
  <1>4. /\ EmailsUnique /\ UniqueCalls(requests) /\ UniqueAnswers(OtherReplies)
        /\ Call.at \in FindsUsers => IsInjective(Users(Reply.value))
    BY <1>3 DEF UniqueInv, UniqueAnswers, Call
  <1>5. ASSUME Answered(requests, OtherReplies) PROVE UniqueInv'
    BY <1>4, <1>5 DEF Answered, stores, failures, UniqueInv, EmailsUnique, Stored,
                      UniqueCalls, UniqueAnswers
  <1>6. ASSUME NEW request, request.call.at = "signup.add" => IsInjective(request.value),
               Answered(Append(requests, request), OtherReplies)
        PROVE  UniqueInv'
    <2>1. ToSet(Append(requests, request)) = ToSet(requests) \cup {request}
      BY <1>2, QueueAppend DEF QueueOK, IsQueue
    <2>2. UniqueCalls(Append(requests, request))
      BY <1>4, <1>6, <2>1 DEF UniqueCalls
    <2> QED BY <1>4, <1>6, <2>2 DEF Answered, stores, failures, UniqueInv, EmailsUnique,
                                    Stored, UniqueCalls, UniqueAnswers
  <1>7. ASSUME GoHome PROVE UniqueInv'
    BY <1>2, <1>4, <1>5, <1>7, ReplaceFromAuthUnique DEF GoHome, Finish
  <1>8. Call \in HandlerCall
    BY <1>2 DEF ReplyOK, Call
  <1>9. ASSUME NEW at \in SavesSession PROVE Saved(at).call.at # "signup.add"
    BY <1>8, <1>9 DEF Saved, SetItem, HandlerCall, SavesSession
  <1>10. CASE IsUserLoggedIn
    BY <1>5, <1>7, <1>10 DEF IsUserLoggedIn, Finish
  <1>11. CASE LoginFound
    <2>1. Saved("login.save").call.at # "signup.add"
      BY <1>9 DEF SavesSession
    <2> QED BY <1>5, <1>6, <1>11, <2>1 DEF LoginFound, GoOn, Finish
  <1>12. CASE SignupFound
    <2>1. Call.at = "signup.find"
      BY <1>12 DEF SignupFound, Awaited
    <2>2. /\ Call.email \in Email
          /\ IsInjective(Users(Reply.value))
          /\ Users(Reply.value) \in Seq(Email)
      BY <1>2, <1>4, <2>1, EmptySeq DEF ReplyOK, Call, Users, FindsUsers, KnowsEmail,
                                        ReadsSession
    <2>3. CASE Contains(Users(Reply.value), Call.email)
      BY <1>5, <1>12, <2>3 DEF SignupFound, Finish
    <2>4. CASE ~Contains(Users(Reply.value), Call.email)
      <3> DEFINE request == SetItem(UserKey(Call.isAdmin),
                                    <<Call.email>> \o Users(Reply.value),
                                    [Call EXCEPT !.at = "signup.add"])
      <3>1. IsInjective(<<Call.email>> \o Users(Reply.value))
        BY <2>2, <2>4, ConsInjective
      <3>2. IsInjective(request.value)
        BY <3>1 DEF SetItem
      <3>3. Answered(Append(requests, request), OtherReplies)
        BY <1>12, <2>4 DEF SignupFound, GoOn
      <3> QED BY <1>6, <3>2, <3>3
    <2> QED BY <2>3, <2>4
  <1>13. CASE SignupAdded
    <2>1. Saved("signup.save").call.at # "signup.add"
      BY <1>9 DEF SavesSession
    <2> QED BY <1>6, <1>13, <2>1 DEF SignupAdded
  <1>14. CASE SessionSaved
    BY <1>7, <1>14 DEF SessionSaved
  <1>15. CASE GetUserInfo
    BY <1>5, <1>15 DEF GetUserInfo
  <1>16. CASE LoggedOut
    <2>1. CASE Call.screen = "closed"
      BY <1>5, <1>16, <2>1 DEF LoggedOut, Finish
    <2>2. CASE Call.screen # "closed"
      BY <1>2, <1>4, <1>16, <2>2, MountUnique DEF LoggedOut, ResetToAuth
    <2> QED BY <2>1, <2>2
  <1>17. CASE Rejected
    BY <1>5, <1>17 DEF Rejected, Finish
  <1> QED BY <1>10, <1>11, <1>12, <1>13, <1>14, <1>15, <1>16, <1>17 DEF RunCallback

LEMMA EnvironmentUnique ==
    TypeOK /\ UniqueInv /\ (CleanUpState \/ ChangeColorScheme \/ Crash \/ BackOutAndReturn)
      => UniqueInv'
  <1> SUFFICES ASSUME TypeOK, UniqueInv,
                      CleanUpState \/ ChangeColorScheme \/ Crash \/ BackOutAndReturn
               PROVE  UniqueInv'
    OBVIOUS
  <1>0. CASE CleanUpState
    <2>1. CASE UNCHANGED storageVars
      BY <2>1 DEF storageVars, stores, failures, UniqueInv, EmailsUnique, Stored,
                  UniqueCalls, UniqueAnswers
    <2> QED BY <1>0, <2>1, MountUnique DEF CleanUpState, TypeOK, QueuesOK, UniqueInv
  <1>1. CASE ChangeColorScheme
    BY <1>1, MountUnique DEF ChangeColorScheme, TypeOK, QueuesOK, UniqueInv
  <1>2. CASE Crash
    <2>1. UniqueCalls(MountCalls("LOGIN"))
      BY MountCallsUnique, QueueEmpty DEF QueueOK, IsQueue, UniqueCalls
    <2>2. UniqueAnswers(<<>>)
      BY QueueEmpty DEF UniqueAnswers
    <2>3. Restart(MountCalls("LOGIN"))
      BY <1>2 DEF Crash
    <2>4. UniqueStore(disk') /\ mem' = disk' /\ staged' = disk'
      BY <2>3, RestartCases, CopiesUnique, UniqueParts DEF UniqueInv
    <2>5. EmailsUnique'
      BY <2>4 DEF EmailsUnique, UniqueStore, Stored
    <2> QED BY <2>1, <2>2, <2>3, <2>5 DEF Restart, UniqueInv, UniqueCalls, UniqueAnswers
  <1>3. CASE BackOutAndReturn
    <2>1. /\ QueueOK(Disowned(requests, "closed"), RequestOK)
          /\ UniqueCalls(Disowned(requests, "closed"))
          /\ UniqueAnswers(Disowned(replies, "closed"))
      BY QueuesDisowned, DisownedUnique DEF TypeOK, QueuesOK, UniqueInv
    <2>2. UniqueCalls(Disowned(requests, "closed") \o MountCalls("LOGIN"))
      BY <2>1, MountCallsUnique
    <2> QED BY <1>3, <2>1, <2>2 DEF BackOutAndReturn, ActivityDestroyed, stores,
                                    failures, UniqueInv, EmailsUnique, Stored,
                                    UniqueCalls, UniqueAnswers
  <1> QED BY <1>0, <1>1, <1>2, <1>3

\* However many sign-ups, remounts, failures and crashes overlap, no address
\* is ever listed twice, in memory or on disk.
THEOREM AccountsNeverRepeat == Spec => []EmailsUnique
  <1>1. Init => UniqueInv
    <2> SUFFICES ASSUME Init PROVE UniqueInv
      OBVIOUS
    <2>1. UniqueStore(mem) /\ UniqueStore(disk) /\ UniqueStore(staged)
      BY NothingStoredUnique DEF Init, StorageInit
    <2>2. UniqueCalls(requests) /\ UniqueAnswers(replies)
      BY MountCallsUnique, QueueEmpty
         DEF Init, StorageInit, QueueOK, IsQueue, UniqueCalls, UniqueAnswers
    <2> QED BY <2>1, <2>2, UniqueParts DEF UniqueInv
  <1>2. TypeOK /\ UniqueInv /\ [Next]_vars => UniqueInv'
    <2>1. UniqueInv /\ UNCHANGED vars => UniqueInv'
      BY DEF vars, storageVars, stores, failures, UniqueInv, EmailsUnique, Stored,
             UniqueCalls, UniqueAnswers
    <2> QED BY <2>1, UserStepUnique, StoreStepUnique, EmptyCacheUnique, RunCallbackUnique,
               EnvironmentUnique DEF Next
  <1>3. UniqueInv => EmailsUnique
    BY DEF UniqueInv
  <1> QED BY <1>1, <1>2, <1>3, TypeCorrect, PTL DEF Spec

-----------------------------------------------------------------------------
(* No navigator ever holds a second route.                                 *)

OneRoute(state) == Len(state.routes) = 1

AScreen(m, a) ==
    /\ OneRoute(m) /\ OneRoute(a)
    /\ Focused(m, a) \in {"LOGIN", "SIGNUP", "HOME"}

LEMMA InitialScreen == AScreen(MainInitial, AuthInitial)
  BY DEF AScreen, OneRoute, Focused, FocusedRoute, MainInitial, AuthInitial, InitialState

\* Replacing the only route of a navigator leaves the new one alone.
LEMMA ReplaceOnly ==
    ASSUME NEW names, NEW state, NavigatorOK(state, names), OneRoute(state),
           NEW name \in names
    PROVE  /\ OneRoute(Replace(state, names, state.index, name, NewKey))
           /\ FocusedRoute(Replace(state, names, state.index, name, NewKey)).name = name
           /\ Replace(state, names, state.index, name, NewKey) # NoState
  <1> DEFINE new == [key |-> NewKey, name |-> name]
             after == [state.routes EXCEPT ![1] = new]
  <1>1. /\ state = [index |-> 0, routes |-> state.routes]
        /\ state.routes \in Seq([key : {InitialKey, NewKey}, name : names])
        /\ Len(state.routes) = 1
    BY DEF NavigatorOK, Rehydrated, OneRoute
  <1>2. Replace(state, names, state.index, name, NewKey) = [index |-> 0, routes |-> after]
    BY <1>1 DEF Replace
  <1>3. Len(after) = 1 /\ after[1] = new
    BY <1>1, ExceptSeq
  <1>4. [index |-> 0, routes |-> after] # NoState
    BY DEF NoState
  <1> QED BY <1>2, <1>3, <1>4 DEF OneRoute, FocusedRoute

LEMMA ReplaceFromAuthScreen ==
    ASSUME TypeOK, OneScreen, NEW name \in AuthRoute \cup {"HOME"}, NEW calls, NEW others,
           ReplaceFromAuth(name, calls, others)
    PROVE  AScreen(main, auth)'
  <1> DEFINE inner == Replace(auth, AuthRoute, auth.index, name, NewKey)
             outer == Replace(main, MainRoute, main.index, name, NewKey)
  <1>1. /\ NavigatorOK(main, MainRoute) /\ OneRoute(main)
        /\ NavigatorOK(auth, AuthRoute) /\ OneRoute(auth)
    BY DEF TypeOK, ScreensOK, OneScreen, OneRoute
  <1>2. CASE name \in AuthRoute
    <2>1. OneRoute(inner) /\ FocusedRoute(inner).name = name /\ inner # NoState
      BY <1>1, <1>2, ReplaceOnly
    <2>2. main' = main /\ auth' = inner
      BY <2>1 DEF ReplaceFromAuth, Mount
    <2>3. Focused(main, inner) \in {"LOGIN", "SIGNUP", "HOME"}
      BY <1>2, <2>1 DEF OneScreen, Screen, Focused, AuthRoute
    <2> HIDE DEF inner
    <2> QED BY <1>1, <2>1, <2>2, <2>3 DEF AScreen, OneRoute, Focused, FocusedRoute
  <1>3. CASE name = "HOME"
    <2>0. name \notin AuthRoute /\ name \in MainRoute
      BY <1>3 DEF AuthRoute, MainRoute
    <2>1. inner = NoState
      BY <1>1, <2>0, ReplaceOK
    <2>2. OneRoute(outer) /\ FocusedRoute(outer).name = name
      BY <1>1, <2>0, ReplaceOnly
    <2>3. main' = outer /\ auth' = AuthInitial
      BY <2>1 DEF ReplaceFromAuth, Mount
    <2>4. Focused(outer, AuthInitial) = "HOME"
      BY <1>3, <2>2 DEF Focused
    <2> HIDE DEF outer
    <2> QED BY <2>2, <2>3, <2>4, InitialScreen DEF AScreen, OneRoute, Focused, FocusedRoute
  <1> QED BY <1>2, <1>3

\* Whatever is replaced, reset, remounted or restarted, exactly one screen
\* exists, and back can return to no other.
THEOREM OneScreenOnly == Spec => []OneScreen
  <1>1. Init => OneScreen
    BY InitialScreen DEF Init, AScreen, OneRoute, OneScreen, Screen
  <1>2. TypeOK /\ OneScreen /\ [Next]_vars => OneScreen'
    <2> SUFFICES ASSUME TypeOK, OneScreen, [Next]_vars PROVE OneScreen'
      OBVIOUS
    <2>0. AScreen(main, auth)' => OneScreen'
      BY DEF AScreen, OneRoute, OneScreen, Screen
    <2>1. CASE UNCHANGED <<main, auth>>
      BY <2>1 DEF OneScreen, Screen, Focused, FocusedRoute
    <2>2. ASSUME NEW calls, NEW others, Mount(MainInitial, AuthInitial, calls, others)
          PROVE  OneScreen'
      BY <2>0, <2>2, InitialScreen DEF Mount, AScreen, OneRoute, Focused, FocusedRoute
    <2>3. CASE main' = MainInitial /\ auth' = AuthInitial
      BY <2>0, <2>3, InitialScreen DEF AScreen, OneRoute, Focused, FocusedRoute
    <2>4. ASSUME NEW name \in AuthRoute \cup {"HOME"}, NEW calls, NEW others,
                 ReplaceFromAuth(name, calls, others)
          PROVE  OneScreen'
      BY <2>0, <2>4, ReplaceFromAuthScreen
    <2>5. CASE UserStep
      <3>1. CASE FollowLink
        BY <2>4, <3>1 DEF FollowLink, AuthRoute
      <3> QED BY <2>1, <2>5, <3>1
              DEF UserStep, ChangeEmail, ToggleSwitch, SubmitLogin, SubmitSignup,
                  TapLogout, FindUser, Tap, screenVars, navVars
    <2>6. CASE StoreStep
      BY <2>1, <2>6 DEF StoreStep, screenVars, navVars
    <2>7. CASE RunCallback
      <3>1. ASSUME GoHome PROVE OneScreen'
        BY <2>1, <2>4, <3>1 DEF GoHome, Finish, navVars
      <3>2. CASE LoggedOut
        <4>1. CASE Call.screen = "closed"
          BY <2>1, <3>2, <4>1 DEF LoggedOut, Finish, navVars
        <4>2. CASE Call.screen # "closed"
          BY <2>2, <3>2, <4>2, ResetOK DEF LoggedOut, ResetToAuth
        <4> QED BY <4>1, <4>2
      <3> QED BY <2>1, <2>7, <3>1, <3>2
              DEF RunCallback, IsUserLoggedIn, LoginFound, SignupFound, SignupAdded,
                  SessionSaved, GetUserInfo, Rejected, Finish, GoOn, screenVars, navVars
    <2>8. CASE ChangeColorScheme
      BY <2>1, <2>8 DEF ChangeColorScheme, Mount
    <2>9. CASE Crash \/ BackOutAndReturn
      BY <2>3, <2>9 DEF Crash, BackOutAndReturn
    <2>10. CASE CleanUpState
      <3>1. CASE UNCHANGED <<main, auth>>
        BY <2>1, <3>1
      <3>2. CASE Mount(main, AuthInitial, requests, replies)
        <4>1. main' = main /\ auth' = AuthInitial
          BY <3>2 DEF Mount
        <4>2. AScreen(main, AuthInitial)
          BY InitialScreen
             DEF AScreen, OneScreen, OneRoute, Screen, Focused, FocusedRoute, AuthInitial,
                 InitialState
        <4> QED BY <2>0, <4>1, <4>2 DEF AScreen, OneRoute, Focused, FocusedRoute
      <3> QED BY <2>10, <3>1, <3>2 DEF CleanUpState
    <2>11. CASE UNCHANGED vars
      BY <2>1, <2>11 DEF vars, screenVars, navVars
    <2>12. CASE EmptyCache
      BY <2>1, <2>12, EmptyCacheCases
    <2> QED BY <2>5, <2>6, <2>7, <2>8, <2>9, <2>10, <2>11, <2>12 DEF Next
  <1> QED BY <1>1, <1>2, TypeCorrect, PTL DEF Spec

=============================================================================
