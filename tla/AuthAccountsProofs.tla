-------------------------- MODULE AuthAccountsProofs --------------------------
(***************************************************************************)
(* Proofs that AuthSession keeps what Accounts promises a user who waits   *)
(* for one tap before the next, for any addresses, platform and bounds.    *)
(*                                                                         *)
(* With one tap under way, whatever a handler has read is still what is    *)
(* stored when it writes: that is the invariant.  When Android has deleted *)
(* the database in between, it is at least what is stored.  It holds until *)
(* the file of a list, on iOS, cannot be written or read.                  *)
(***************************************************************************)
EXTENDS AuthSessionProofs, FiniteSetTheorems

-----------------------------------------------------------------------------
(* At most one tap is under way.                                           *)

IsTap(r) == r.call.at \in TapHandlers

\* No tap is in the queue, and at most one is.
Quiet(queue) == \A i \in DOMAIN queue : ~IsTap(queue[i])

OneTap(queue) ==
    \A i, j \in DOMAIN queue : IsTap(queue[i]) /\ IsTap(queue[j]) => i = j

\* What the handler of a call knows of the store, and of an answer.
KnowsCall(store, r) ==
    LET list == Stored(store, r.call.isAdmin) IN
    /\ r.call.at = "signup.add" =>
         r.value = <<r.call.email>> \o list /\ ~Contains(list, r.call.email)
    /\ r.call.at \in SavesSession => Contains(list, r.call.email)

KnowsAnswer(store, r) ==
    LET list == Stored(store, r.call.isAdmin) IN
    ~r.error =>
        /\ r.call.at \in FindsUsers => Users(r.value) = list
        /\ r.call.at = "signup.add" => Contains(list, r.call.email)

\* The queues, and what their calls know of the store.
Held(store, calls, others) ==
    /\ OneTap(calls) /\ OneTap(others) /\ (Quiet(calls) \/ Quiet(others))
    /\ \A i \in DOMAIN calls : KnowsCall(store, calls[i])
    /\ \A i \in DOMAIN others : KnowsAnswer(store, others[i])

LEMMA QueueTail ==
    ASSUME NEW queue, IsQueue(queue), queue # <<>>
    PROVE  /\ Len(queue) \in Nat \ {0} /\ DOMAIN queue = 1..Len(queue)
           /\ DOMAIN Tail(queue) = 1..(Len(queue) - 1)
           /\ \A i \in 1..(Len(queue) - 1) : Tail(queue)[i] = queue[i + 1]
           /\ Head(queue) = queue[1]
<1>1. queue \in Seq(ToSet(queue))
  BY DEF IsQueue
<1>2. Len(queue) \in Nat \ {0} /\ DOMAIN queue = 1..Len(queue)
  BY <1>1, EmptySeq, LenProperties
<1>3. /\ Tail(queue) \in Seq(ToSet(queue)) /\ Len(Tail(queue)) = Len(queue) - 1
      /\ \A i \in 1..Len(Tail(queue)) : Tail(queue)[i] = queue[i + 1]
      /\ Head(queue) = queue[1]
  BY <1>1, HeadTailProperties
<1> QED BY <1>2, <1>3, LenProperties

LEMMA QueuePush ==
    ASSUME NEW queue, IsQueue(queue), NEW r
    PROVE  /\ Len(queue) \in Nat /\ DOMAIN queue = 1..Len(queue)
           /\ DOMAIN Append(queue, r) = 1..(Len(queue) + 1)
           /\ \A i \in 1..Len(queue) : Append(queue, r)[i] = queue[i]
           /\ Append(queue, r)[Len(queue) + 1] = r
<1>1. queue \in Seq(ToSet(queue) \cup {r})
  BY SeqMonotonic DEF IsQueue
<1>2. /\ Append(queue, r) \in Seq(ToSet(queue) \cup {r})
      /\ Len(Append(queue, r)) = Len(queue) + 1
      /\ \A i \in 1..Len(queue) : Append(queue, r)[i] = queue[i]
      /\ Append(queue, r)[Len(queue) + 1] = r
  BY <1>1, AppendProperties
<1> QED BY <1>1, <1>2, LenProperties

\* A quiet queue knows nothing.
LEMMA QuietKnows ==
    ASSUME NEW queue, Quiet(queue), NEW store
    PROVE  /\ OneTap(queue)
           /\ \A i \in DOMAIN queue : KnowsCall(store, queue[i])
           /\ \A i \in DOMAIN queue : KnowsAnswer(store, queue[i])
BY DEF Quiet, OneTap, KnowsCall, KnowsAnswer, IsTap, TapHandlers, FindsUsers,
       SavesSession

LEMMA TailOneTap ==
    ASSUME NEW queue, IsQueue(queue), queue # <<>>, OneTap(queue)
    PROVE  /\ OneTap(Tail(queue))
           /\ Quiet(queue) => Quiet(Tail(queue))
           /\ IsTap(Head(queue)) => Quiet(Tail(queue)) /\ ~Quiet(queue)
<1>1. /\ Len(queue) \in Nat \ {0} /\ DOMAIN queue = 1..Len(queue)
      /\ DOMAIN Tail(queue) = 1..(Len(queue) - 1)
      /\ \A i \in 1..(Len(queue) - 1) : Tail(queue)[i] = queue[i + 1]
      /\ Head(queue) = queue[1]
  BY QueueTail
<1>2. \A i \in DOMAIN Tail(queue) : i + 1 \in DOMAIN queue /\ i + 1 # 1
  BY <1>1
<1>3. 1 \in DOMAIN queue
  BY <1>1
<1>4. OneTap(Tail(queue))
  <2> SUFFICES ASSUME NEW i \in DOMAIN Tail(queue), NEW j \in DOMAIN Tail(queue),
                      IsTap(Tail(queue)[i]), IsTap(Tail(queue)[j])
               PROVE  i = j
    BY DEF OneTap
  <2>1. i + 1 = j + 1
    BY <1>1, <1>2 DEF OneTap
  <2> QED BY <1>1, <2>1
<1> QED BY <1>1, <1>2, <1>3, <1>4 DEF OneTap, Quiet

LEMMA PushOneTap ==
    ASSUME NEW queue, IsQueue(queue), NEW r
    PROVE  /\ OneTap(queue) /\ (Quiet(queue) \/ ~IsTap(r)) => OneTap(Append(queue, r))
           /\ Quiet(queue) /\ ~IsTap(r) => Quiet(Append(queue, r))
<1>1. /\ Len(queue) \in Nat /\ DOMAIN queue = 1..Len(queue)
      /\ DOMAIN Append(queue, r) = 1..(Len(queue) + 1)
      /\ \A i \in 1..Len(queue) : Append(queue, r)[i] = queue[i]
      /\ Append(queue, r)[Len(queue) + 1] = r
  BY QueuePush
<1> QED BY <1>1 DEF OneTap, Quiet

\* A callback is taken from the queue.
LEMMA HeldTail ==
    ASSUME NEW store, NEW calls, NEW others, IsQueue(others), others # <<>>,
           Held(store, calls, others)
    PROVE  /\ Held(store, calls, Tail(others))
           /\ KnowsAnswer(store, Head(others))
           /\ IsTap(Head(others)) => Quiet(calls) /\ Quiet(Tail(others))
<1>1. /\ Len(others) \in Nat \ {0} /\ DOMAIN others = 1..Len(others)
      /\ DOMAIN Tail(others) = 1..(Len(others) - 1)
      /\ \A i \in 1..(Len(others) - 1) : Tail(others)[i] = others[i + 1]
      /\ Head(others) = others[1]
  BY QueueTail
<1>2. /\ OneTap(Tail(others))
      /\ Quiet(others) => Quiet(Tail(others))
      /\ IsTap(Head(others)) => Quiet(Tail(others)) /\ ~Quiet(others)
  BY TailOneTap DEF Held
<1>3. \A i \in DOMAIN Tail(others) : KnowsAnswer(store, Tail(others)[i])
  <2>1. \A i \in DOMAIN Tail(others) :
          i + 1 \in DOMAIN others /\ Tail(others)[i] = others[i + 1]
    BY <1>1
  <2> QED BY <2>1 DEF Held
<1>4. KnowsAnswer(store, Head(others))
  <2>1. 1 \in DOMAIN others
    BY <1>1
  <2> QED BY <1>1, <2>1 DEF Held
<1> QED BY <1>2, <1>3, <1>4 DEF Held

\* The only tap under way makes its next call.
LEMMA HeldAppend ==
    ASSUME NEW store, NEW calls, NEW others, IsQueue(calls),
           Quiet(calls), Quiet(others), NEW r, KnowsCall(store, r)
    PROVE  Held(store, Append(calls, r), others)
<1>1. /\ Len(calls) \in Nat /\ DOMAIN calls = 1..Len(calls)
      /\ DOMAIN Append(calls, r) = 1..(Len(calls) + 1)
      /\ \A i \in 1..Len(calls) : Append(calls, r)[i] = calls[i]
      /\ Append(calls, r)[Len(calls) + 1] = r
  BY QueuePush
<1>2. OneTap(Append(calls, r))
  BY QuietKnows, PushOneTap
<1>3. \A i \in DOMAIN calls : KnowsCall(store, calls[i])
  BY QuietKnows
<1>4. \A i \in DOMAIN Append(calls, r) : KnowsCall(store, Append(calls, r)[i])
  BY <1>1, <1>3
<1> QED BY <1>2, <1>4, QuietKnows DEF Held

\* The store answers its oldest call, and changes for a tap's only.
LEMMA HeldAnswered ==
    ASSUME NEW before, NEW after, Held(before, requests, replies),
           IsQueue(requests), IsQueue(replies), requests # <<>>,
           NEW error \in BOOLEAN,
           KnowsAnswer(after, Answer(Head(requests), error)),
           after = before \/ IsTap(Head(requests))
    PROVE  Held(after, Tail(requests), Append(replies, Answer(Head(requests), error)))
<1> DEFINE r == Head(requests)
           answer == Answer(r, error)
<1>1. /\ OneTap(Tail(requests))
      /\ Quiet(requests) => Quiet(Tail(requests))
      /\ IsTap(r) => Quiet(Tail(requests)) /\ ~Quiet(requests)
  BY TailOneTap DEF Held
<1>2. answer.call = r.call
  BY DEF Answer
<1>3. IsTap(answer) <=> IsTap(r)
  BY <1>2 DEF IsTap
<1> HIDE DEF answer
<1>4. /\ Len(replies) \in Nat /\ DOMAIN replies = 1..Len(replies)
      /\ DOMAIN Append(replies, answer) = 1..(Len(replies) + 1)
      /\ \A i \in 1..Len(replies) : Append(replies, answer)[i] = replies[i]
      /\ Append(replies, answer)[Len(replies) + 1] = answer
  BY QueuePush
<1>5. /\ OneTap(Append(replies, answer))
      /\ Quiet(Tail(requests)) \/ Quiet(Append(replies, answer))
  <2>1. IsTap(answer) => Quiet(replies)
    BY <1>1, <1>3 DEF Held
  <2>2. Quiet(requests) \/ Quiet(replies)
    BY DEF Held
  <2> QED BY <1>1, <1>3, <2>1, <2>2, PushOneTap DEF Held
<1>6. \A i \in DOMAIN Tail(requests) : KnowsCall(after, Tail(requests)[i])
  <2>1. CASE IsTap(r)
    BY <1>1, <2>1, QuietKnows
  <2>2. CASE after = before
    <3>1. \A i \in DOMAIN Tail(requests) :
            i + 1 \in DOMAIN requests /\ Tail(requests)[i] = requests[i + 1]
      BY QueueTail
    <3> QED BY <2>2, <3>1 DEF Held
  <2> QED BY <2>1, <2>2
<1>7. \A i \in DOMAIN replies : KnowsAnswer(after, replies[i])
  <2>1. CASE IsTap(r)
    <3>1. Quiet(replies)
      BY <1>1, <2>1 DEF Held
    <3> QED BY <3>1, QuietKnows
  <2>2. CASE after = before
    BY <2>2 DEF Held
  <2> QED BY <2>1, <2>2
<1>8. KnowsAnswer(after, answer)
  BY DEF answer
<1>9. \A i \in DOMAIN Append(replies, answer) :
         KnowsAnswer(after, Append(replies, answer)[i])
  BY <1>4, <1>7, <1>8
<1>10. Held(after, Tail(requests), Append(replies, answer))
  BY <1>1, <1>5, <1>6, <1>9 DEF Held
<1> QED BY <1>10 DEF answer

\* Unmounting a screen changes nothing else of its handlers' calls.
SameCall(r, disowned, how) ==
    /\ disowned.call.at = r.call.at /\ disowned.call.email = r.call.email
    /\ disowned.call.isAdmin = r.call.isAdmin /\ disowned.value = r.value
    /\ disowned.call.screen \in {how, "closed"}
    /\ disowned.call.screen = "closed" <=> r.call.screen = "closed" \/ how = "closed"

LEMMA DisownedCalls ==
    ASSUME NEW how, NEW calls, QueueOK(calls, RequestOK),
           NEW others, QueueOK(others, ReplyOK)
    PROVE  /\ DOMAIN Disowned(calls, how) = DOMAIN calls
           /\ \A i \in DOMAIN calls : SameCall(calls[i], Disowned(calls, how)[i], how)
           /\ DOMAIN Disowned(others, how) = DOMAIN others
           /\ \A i \in DOMAIN others :
                /\ SameCall(others[i], Disowned(others, how)[i], how)
                /\ Disowned(others, how)[i].error = others[i].error
<1>1. \A i \in DOMAIN calls : RequestOK(calls[i])
  BY DEF QueueOK, ToSet
<1>2. \A i \in DOMAIN others : ReplyOK(others[i])
  BY DEF QueueOK, ToSet
<1>3. /\ DOMAIN Disowned(calls, how) = DOMAIN calls
      /\ \A i \in DOMAIN calls : Disowned(calls, how)[i] =
           [calls[i] EXCEPT !.call.screen = IF @ = "closed" THEN @ ELSE how]
      /\ DOMAIN Disowned(others, how) = DOMAIN others
      /\ \A i \in DOMAIN others : Disowned(others, how)[i] =
           [others[i] EXCEPT !.call.screen = IF @ = "closed" THEN @ ELSE how]
  BY DEF Disowned
<1>4. ASSUME NEW i \in DOMAIN calls
      PROVE  SameCall(calls[i], Disowned(calls, how)[i], how)
  <2>1. /\ calls[i] = [op |-> calls[i].op, key |-> calls[i].key,
                       value |-> calls[i].value, call |-> calls[i].call]
        /\ calls[i].call \in HandlerCall
    <3>1. RequestOK(calls[i])
      BY <1>1
    <3> QED BY <3>1 DEF RequestOK, GetItem, SetItem, RemoveItem
  <2> QED BY <1>3, <2>1 DEF HandlerCall, SameCall
<1>5. ASSUME NEW i \in DOMAIN others
      PROVE  /\ SameCall(others[i], Disowned(others, how)[i], how)
             /\ Disowned(others, how)[i].error = others[i].error
  <2>1. /\ others[i] = [error |-> others[i].error, call |-> others[i].call,
                        value |-> others[i].value]
        /\ others[i].call \in HandlerCall
    <3>1. ReplyOK(others[i])
      BY <1>2
    <3> QED BY <3>1 DEF ReplyOK
  <2> QED BY <1>3, <2>1 DEF HandlerCall, SameCall
<1> QED BY <1>3, <1>4, <1>5

\* Unmounting a screen takes no knowledge from its handlers, and mounting one
\* taps nothing.
LEMMA HeldDisowned ==
    ASSUME NEW store, NEW how,
           NEW calls, QueueOK(calls, RequestOK),
           NEW others, QueueOK(others, ReplyOK), Held(store, calls, others)
    PROVE  Held(store, Disowned(calls, how), Disowned(others, how))
<1> DEFINE c == Disowned(calls, how)
           o == Disowned(others, how)
<1>1. /\ DOMAIN c = DOMAIN calls /\ DOMAIN o = DOMAIN others
      /\ \A i \in DOMAIN calls : SameCall(calls[i], c[i], how)
      /\ \A i \in DOMAIN others : /\ SameCall(others[i], o[i], how)
                                   /\ o[i].error = others[i].error
  BY DisownedCalls
<1> HIDE DEF c, o
<1>2. OneTap(c) /\ OneTap(o) /\ (Quiet(c) \/ Quiet(o))
  BY <1>1 DEF Held, OneTap, Quiet, IsTap, SameCall
<1>3. \A i \in DOMAIN c : KnowsCall(store, c[i])
  BY <1>1 DEF Held, KnowsCall, SameCall
<1>4. \A i \in DOMAIN o : KnowsAnswer(store, o[i])
  BY <1>1 DEF Held, KnowsAnswer, SameCall
<1>5. Held(store, c, o)
  BY <1>2, <1>3, <1>4 DEF Held
<1> QED BY <1>5 DEF c, o

\* Mounting a screen makes the call of its effect.
SessionRead(at) == GetItem(USER_LOGGEDIN_KEY, Handler(at, NoEmail, FALSE))

LEMMA MountPushes ==
    ASSUME NEW queue, IsQueue(queue), NEW screen
    PROVE  \/ /\ screen \notin {"LOGIN", "HOME"}
              /\ queue \o MountCalls(screen) = queue
           \/ /\ screen = "LOGIN"
              /\ queue \o MountCalls(screen) = Append(queue, SessionRead("isUserLoggedIn"))
           \/ /\ screen = "HOME"
              /\ queue \o MountCalls(screen) = Append(queue, SessionRead("getUserInfo"))
<1>1. queue \in Seq(ToSet(queue))
  BY DEF IsQueue
<1>2. ASSUME NEW r PROVE queue \o <<r>> = Append(queue, r)
  <2> DEFINE S == ToSet(queue) \cup {r}
  <2>1. queue \in Seq(S) /\ r \in S
    BY <1>1, SeqMonotonic
  <2> HIDE DEF S
  <2> QED BY <2>1, AppendIsConcat
<1>3. queue \o <<>> = queue
  BY <1>1, ConcatEmptySeq
<1>4. MountCalls(screen) = IF screen = "LOGIN" THEN <<SessionRead("isUserLoggedIn")>>
                           ELSE IF screen = "HOME" THEN <<SessionRead("getUserInfo")>>
                           ELSE <<>>
  BY DEF MountCalls, SessionRead
<1> QED BY <1>2, <1>3, <1>4

LEMMA HeldMountCalls ==
    ASSUME NEW store, NEW calls, NEW others, IsQueue(calls),
           Held(store, calls, others), NEW screen
    PROVE  Held(store, calls \o MountCalls(screen), others)
<1>1. ASSUME NEW at \in ReadsSession
      PROVE  Held(store, Append(calls, SessionRead(at)), others)
  <2> DEFINE r == SessionRead(at)
  <2>1. ~IsTap(r) /\ KnowsCall(store, r)
    BY DEF SessionRead, GetItem, Handler, IsTap, TapHandlers, ReadsSession, KnowsCall,
           SavesSession
  <2> HIDE DEF r
  <2>2. /\ Len(calls) \in Nat /\ DOMAIN calls = 1..Len(calls)
        /\ DOMAIN Append(calls, r) = 1..(Len(calls) + 1)
        /\ \A i \in 1..Len(calls) : Append(calls, r)[i] = calls[i]
        /\ Append(calls, r)[Len(calls) + 1] = r
    BY QueuePush
  <2>3. OneTap(Append(calls, r)) /\ (Quiet(calls) => Quiet(Append(calls, r)))
    BY <2>1, PushOneTap DEF Held
  <2>4. \A i \in DOMAIN Append(calls, r) : KnowsCall(store, Append(calls, r)[i])
    BY <2>1, <2>2 DEF Held
  <2>5. Held(store, Append(calls, r), others)
    BY <2>3, <2>4 DEF Held
  <2> QED BY <2>5 DEF r
<1> QED BY <1>1, MountPushes DEF ReadsSession

-----------------------------------------------------------------------------
(* What a call does to the copies of the store.                            *)

\* A session belongs to an account stored beside it.
SessionIn(store) ==
    store[USER_LOGGEDIN_KEY] # Missing =>
        Contains(Stored(store, store[USER_LOGGEDIN_KEY].isAdmin),
                 store[USER_LOGGEDIN_KEY].email)

\* Memory lists at least what the disk does: a write that failed is in memory.
StoresKnow(m, d) ==
    /\ \A b \in BOOLEAN : ToSet(Stored(d, b)) \subseteq ToSet(Stored(m, b))
    /\ SessionIn(m) /\ SessionIn(d)

LEMMA ContainsIs ==
    ASSUME NEW list \in Seq(Email), NEW email
    PROVE  /\ Contains(list, email) <=> email \in ToSet(list)
           /\ email \in Email => ToSet(<<email>> \o list) = {email} \cup ToSet(list)
<1>1. Len(list) \in Nat /\ DOMAIN list = 1..Len(list)
  BY LenProperties
<1>2. Contains(list, email) <=> email \in ToSet(list)
  BY <1>1 DEF Contains, ToSet
<1>3. ASSUME email \in Email
      PROVE  ToSet(<<email>> \o list) = {email} \cup ToSet(list)
  <2> DEFINE longer == <<email>> \o list
  <2>1. <<email>> \in Seq(Email) /\ Len(<<email>>) = 1 /\ <<email>>[1] = email
    BY <1>3
  <2>2. /\ longer \in Seq(Email) /\ Len(longer) = 1 + Len(list)
        /\ \A i \in 1..(1 + Len(list)) :
             longer[i] = IF i <= 1 THEN <<email>>[i] ELSE list[i - 1]
    BY <1>1, <2>1, ConcatProperties
  <2>3. DOMAIN longer = 1..(1 + Len(list))
    BY <2>2, LenProperties
  <2>4. longer[1] = email /\ \A i \in 1..Len(list) : longer[i + 1] = list[i]
    BY <1>1, <2>1, <2>2
  <2>5. \A i \in 1..(1 + Len(list)) : i = 1 \/ (i - 1) \in 1..Len(list)
    BY <1>1
  <2>6. \A i \in 2..(1 + Len(list)) : longer[i] = list[i - 1]
    BY <1>1, <2>2
  <2> HIDE DEF longer
  <2>7. ToSet(longer) \subseteq {email} \cup ToSet(list)
    <3> SUFFICES ASSUME NEW i \in 1..(1 + Len(list))
                 PROVE  longer[i] \in {email} \cup ToSet(list)
      BY <2>3 DEF ToSet
    <3>1. CASE i = 1
      BY <2>4, <3>1
    <3>2. CASE i # 1
      <4>1. i \in 2..(1 + Len(list)) /\ i - 1 \in DOMAIN list
        BY <1>1, <3>2
      <4> QED BY <2>6, <4>1 DEF ToSet
    <3> QED BY <3>1, <3>2
  <2>8. {email} \cup ToSet(list) \subseteq ToSet(longer)
    <3>1. 1 \in DOMAIN longer /\ \A i \in DOMAIN list : i + 1 \in DOMAIN longer
      BY <1>1, <2>3
    <3>2. email \in ToSet(longer)
      BY <2>4, <3>1 DEF ToSet
    <3>3. \A i \in DOMAIN list : list[i] \in ToSet(longer)
      BY <1>1, <2>4, <3>1 DEF ToSet
    <3> QED BY <3>2, <3>3 DEF ToSet
  <2> QED BY <2>7, <2>8 DEF longer
<1> QED BY <1>2, <1>3

\* The store after each call that writes.
LEMMA WrittenEffect ==
    ASSUME NEW store, StoreOK(store), NEW r, RequestOK(r), r.op # "get"
    PROVE  LET after == Written(store, r) IN
           \/ /\ r.call.at = "signup.add"
              /\ r.call.isAdmin \in BOOLEAN /\ r.call.email \in Email
              /\ r.value \in Seq(Email)
              /\ \A b \in BOOLEAN : Stored(after, b) =
                   IF b = r.call.isAdmin THEN r.value ELSE Stored(store, b)
              /\ after[USER_LOGGEDIN_KEY] = store[USER_LOGGEDIN_KEY]
           \/ /\ r.call.at \in SavesSession
              /\ r.call.isAdmin \in BOOLEAN /\ r.call.email \in Email
              /\ r.key = USER_LOGGEDIN_KEY
              /\ \A b \in BOOLEAN : Stored(after, b) = Stored(store, b)
              /\ after[USER_LOGGEDIN_KEY] =
                   [email |-> r.call.email, isAdmin |-> r.call.isAdmin]
           \/ /\ r.call.at = "logout" /\ r.key = USER_LOGGEDIN_KEY
              /\ \A b \in BOOLEAN : Stored(after, b) = Stored(store, b)
              /\ after[USER_LOGGEDIN_KEY] = Missing
<1> DEFINE after == Written(store, r)
<1>1. after = [store EXCEPT ![r.key] = r.value]
  BY DEF Written
<1>2. r.call \in HandlerCall /\ r.call.isAdmin \in BOOLEAN
  BY DEF RequestOK, HandlerCall
<1>3. DOMAIN store = StorageKey
  BY DEF StoreOK
<1>4. \A b, c \in BOOLEAN : b = c \/ UserKey(b) # UserKey(c)
  <2>1. UserKey(TRUE) # UserKey(FALSE)
    BY DEF UserKey, USER_ADMIN_KEY, USER_MEMBER_KEY
  <2> QED BY <2>1, Zenon
<1>5. CASE r.call.at = "signup.add"
  <2>1. /\ r.key = UserKey(r.call.isAdmin) /\ r.value \in Seq(Email)
        /\ r.call.email \in Email
    BY <1>5 DEF RequestOK, SetItem, GetItem, RemoveItem, KnowsEmail, ReadsSession,
                FindsUsers, SavesSession
  <2>2. r.value # Missing
    BY <2>1, SessionAssumption
  <2>3. \A b \in BOOLEAN : b = r.call.isAdmin \/ UserKey(b) # UserKey(r.call.isAdmin)
    BY <1>2, <1>4
  <2>4. \A b \in BOOLEAN : Stored(after, b) =
          IF b = r.call.isAdmin THEN r.value ELSE Stored(store, b)
    BY <1>1, <1>2, <1>3, <2>1, <2>2, <2>3, KeyFacts DEF Stored, Users
  <2>5. after[USER_LOGGEDIN_KEY] = store[USER_LOGGEDIN_KEY]
    BY <1>1, <1>2, <1>3, <2>1, KeyFacts
  <2> QED BY <1>2, <1>5, <2>1, <2>4, <2>5
<1>6. CASE r.call.at \in SavesSession
  <2>1. /\ r.key = USER_LOGGEDIN_KEY /\ r.call.email \in Email
        /\ r.value = [email |-> r.call.email, isAdmin |-> r.call.isAdmin]
    BY <1>6 DEF RequestOK, SetItem, GetItem, RemoveItem, KnowsEmail, ReadsSession,
                FindsUsers, SavesSession
  <2> QED BY <1>1, <1>2, <1>3, <1>6, <2>1, KeyFacts DEF Stored
<1>7. CASE r.call.at = "logout"
  <2>1. r.key = USER_LOGGEDIN_KEY /\ r.value = Missing
    BY <1>7 DEF RequestOK, SetItem, GetItem, RemoveItem, KnowsEmail, ReadsSession,
                FindsUsers, SavesSession
  <2> QED BY <1>1, <1>3, <1>7, <2>1, KeyFacts DEF Stored
<1>8. r.call.at \in {"signup.add", "logout"} \cup SavesSession
  BY DEF RequestOK, GetItem
<1> QED BY <1>5, <1>6, <1>7, <1>8

\* The accounts Accounts speaks of.
AccountsIn(store) == {a \in Account : Contains(Stored(store, a.isAdmin), a.email)}

\* A call that knows what it writes keeps sessions beside their accounts, in memory
\* and on disk, whether or not the manifest is written.
LEMMA CallKeeps ==
    ASSUME StoreOK(mem), StoreOK(disk), StoresKnow(mem, disk),
           NEW r, RequestOK(r), r.op # "get", KnowsCall(mem, r)
    PROVE  /\ StoresKnow(Written(mem, r), disk)
           /\ StoresKnow(Written(mem, r), Written(mem, r))
           /\ r.key \in LongKey =>
                /\ StoresKnow(Written(mem, r), Written(disk, r))
                /\ SessionIn(Written(disk, r))
           /\ KnowsAnswer(Written(mem, r), Answer(r, FALSE))
<1> DEFINE m == Written(mem, r)
           d == Written(disk, r)
<1>1. /\ \A b \in BOOLEAN : Stored(mem, b) \in Seq(Email)
      /\ \A b \in BOOLEAN : Stored(disk, b) \in Seq(Email)
      /\ mem[USER_LOGGEDIN_KEY] # Missing =>
           mem[USER_LOGGEDIN_KEY].isAdmin \in BOOLEAN
      /\ disk[USER_LOGGEDIN_KEY] # Missing =>
           disk[USER_LOGGEDIN_KEY].isAdmin \in BOOLEAN
  BY DEF StoreOK, Account
<1>2. Answer(r, FALSE).call = r.call
  BY DEF Answer
<1>3. r.call.at \notin FindsUsers
  BY DEF RequestOK, GetItem, SetItem, RemoveItem, FindsUsers, ReadsSession,
         SavesSession
<1>4. CASE r.call.at = "signup.add"
  <2> DEFINE role == r.call.isAdmin
             email == r.call.email
  <2>1. /\ role \in BOOLEAN /\ email \in Email
        /\ r.value = <<email>> \o Stored(mem, role) /\ r.value \in Seq(Email)
        /\ \A b \in BOOLEAN : Stored(m, b) =
             IF b = role THEN r.value ELSE Stored(mem, b)
        /\ \A b \in BOOLEAN : Stored(d, b) =
             IF b = role THEN r.value ELSE Stored(disk, b)
        /\ m[USER_LOGGEDIN_KEY] = mem[USER_LOGGEDIN_KEY]
        /\ d[USER_LOGGEDIN_KEY] = disk[USER_LOGGEDIN_KEY]
    BY <1>4, WrittenEffect DEF KnowsCall, SavesSession
  <2>2. ToSet(r.value) = {email} \cup ToSet(Stored(mem, role))
    BY <1>1, <2>1, ContainsIs
  <2> HIDE DEF m, d, role, email
  <2>3. \A b \in BOOLEAN :
          /\ ToSet(Stored(mem, b)) \subseteq ToSet(Stored(m, b))
          /\ ToSet(Stored(disk, b)) \subseteq ToSet(Stored(d, b))
          /\ ToSet(Stored(disk, b)) \subseteq ToSet(Stored(m, b))
          /\ ToSet(Stored(d, b)) \subseteq ToSet(Stored(m, b))
    BY <2>1, <2>2 DEF StoresKnow
  <2>4. SessionIn(m) /\ SessionIn(d)
    <3>1. \A b \in BOOLEAN : Stored(m, b) \in Seq(Email) /\ Stored(d, b) \in Seq(Email)
      BY <1>1, <2>1
    <3>2. SessionIn(m)
      BY <1>1, <2>1, <2>3, <3>1, ContainsIs DEF StoresKnow, SessionIn
    <3>3. SessionIn(d)
      BY <1>1, <2>1, <2>3, <3>1, ContainsIs DEF StoresKnow, SessionIn
    <3> QED BY <3>2, <3>3
  <2>5. Contains(Stored(m, role), email)
    BY <1>1, <2>1, <2>2, ContainsIs
  <2>6. KnowsAnswer(m, Answer(r, FALSE))
    BY <1>2, <1>3, <2>5 DEF KnowsAnswer, role, email
  <2> QED BY <2>3, <2>4, <2>6 DEF StoresKnow, m, d
<1>5. CASE r.call.at \in SavesSession
  <2>1. /\ r.call.isAdmin \in BOOLEAN /\ r.key = USER_LOGGEDIN_KEY
        /\ \A b \in BOOLEAN : Stored(m, b) = Stored(mem, b)
        /\ m[USER_LOGGEDIN_KEY] =
             [email |-> r.call.email, isAdmin |-> r.call.isAdmin]
    BY <1>5, WrittenEffect DEF SavesSession
  <2>2. Contains(Stored(mem, r.call.isAdmin), r.call.email)
    BY <1>5 DEF KnowsCall
  <2>3. r.key \notin LongKey
    BY <2>1, SessionAssumption
       DEF USER_ADMIN_KEY, USER_MEMBER_KEY, USER_LOGGEDIN_KEY
  <2> HIDE DEF m, d
  <2>4. SessionIn(m)
    BY <2>1, <2>2 DEF SessionIn
  <2>5. KnowsAnswer(m, Answer(r, FALSE))
    BY <1>2, <1>3, <1>5 DEF KnowsAnswer, SavesSession
  <2> QED BY <2>1, <2>3, <2>4, <2>5 DEF StoresKnow, m, d
<1>6. CASE r.call.at = "logout"
  <2>1. /\ r.key = USER_LOGGEDIN_KEY
        /\ \A b \in BOOLEAN : Stored(m, b) = Stored(mem, b)
        /\ \A b \in BOOLEAN : Stored(d, b) = Stored(disk, b)
        /\ m[USER_LOGGEDIN_KEY] = Missing /\ d[USER_LOGGEDIN_KEY] = Missing
    BY <1>6, WrittenEffect DEF SavesSession
  <2> HIDE DEF m, d
  <2>2. KnowsAnswer(m, Answer(r, FALSE))
    BY <1>2, <1>3, <1>6 DEF KnowsAnswer
  <2> QED BY <2>1, <2>2 DEF StoresKnow, SessionIn, m, d
<1> QED BY <1>4, <1>5, <1>6, WrittenEffect

\* To Accounts, it registers, logs in or logs out.
LEMMA CallPromised ==
    ASSUME StoreOK(mem), NEW r, RequestOK(r), r.op # "get", KnowsCall(mem, r)
    PROVE  LET after == Written(mem, r) IN
           \/ \E a \in Account :
                /\ a \notin AccountsIn(mem)
                /\ AccountsIn(after) = AccountsIn(mem) \cup {a}
                /\ after[USER_LOGGEDIN_KEY] = mem[USER_LOGGEDIN_KEY]
           \/ \E a \in AccountsIn(mem) :
                /\ after[USER_LOGGEDIN_KEY] = a
                /\ AccountsIn(after) = AccountsIn(mem)
           \/ /\ after[USER_LOGGEDIN_KEY] = Missing
              /\ AccountsIn(after) = AccountsIn(mem)
<1> DEFINE m == Written(mem, r)
           a == [email |-> r.call.email, isAdmin |-> r.call.isAdmin]
<1>1. \A b \in BOOLEAN : Stored(mem, b) \in Seq(Email)
  BY DEF StoreOK
<1>2. CASE r.call.at = "signup.add"
  <2>1. /\ r.call.isAdmin \in BOOLEAN /\ r.call.email \in Email
        /\ r.value = <<r.call.email>> \o Stored(mem, r.call.isAdmin)
        /\ r.value \in Seq(Email)
        /\ ~Contains(Stored(mem, r.call.isAdmin), r.call.email)
        /\ \A b \in BOOLEAN : Stored(m, b) =
             IF b = r.call.isAdmin THEN r.value ELSE Stored(mem, b)
        /\ m[USER_LOGGEDIN_KEY] = mem[USER_LOGGEDIN_KEY]
    BY <1>2, WrittenEffect DEF KnowsCall, SavesSession
  <2>2. ToSet(r.value) = {r.call.email} \cup ToSet(Stored(mem, r.call.isAdmin))
    BY <1>1, <2>1, ContainsIs
  <2> HIDE DEF m
  <2>3. \A b \in BOOLEAN, e \in Email :
          Contains(Stored(m, b), e) <=>
            Contains(Stored(mem, b), e) \/ (b = r.call.isAdmin /\ e = r.call.email)
    <3> SUFFICES ASSUME NEW b \in BOOLEAN, NEW e \in Email
                 PROVE  Contains(Stored(m, b), e) <=>
                          \/ Contains(Stored(mem, b), e)
                          \/ b = r.call.isAdmin /\ e = r.call.email
      OBVIOUS
    <3>1. Stored(m, b) \in Seq(Email) /\ Stored(mem, b) \in Seq(Email)
      BY <1>1, <2>1
    <3>2. /\ Contains(Stored(m, b), e) <=> e \in ToSet(Stored(m, b))
          /\ Contains(Stored(mem, b), e) <=> e \in ToSet(Stored(mem, b))
      BY <3>1, ContainsIs
    <3> QED BY <2>1, <2>2, <3>2
  <2>4. a \in Account /\ a \notin AccountsIn(mem)
    BY <2>1 DEF Account, AccountsIn
  <2>5. AccountsIn(m) = AccountsIn(mem) \cup {a}
    <3>1. \A x \in Account : x = a <=> x.isAdmin = r.call.isAdmin /\ x.email = r.call.email
      BY DEF Account
    <3>2. \A x \in Account : x.isAdmin \in BOOLEAN /\ x.email \in Email
      BY DEF Account
    <3> HIDE DEF a
    <3> QED BY <2>3, <2>4, <3>1, <3>2 DEF AccountsIn
  <2> QED BY <2>1, <2>4, <2>5 DEF m
<1>3. CASE r.call.at \in SavesSession
  <2>1. /\ r.call.isAdmin \in BOOLEAN /\ r.call.email \in Email
        /\ \A b \in BOOLEAN : Stored(m, b) = Stored(mem, b)
        /\ m[USER_LOGGEDIN_KEY] = a
    BY <1>3, WrittenEffect DEF SavesSession
  <2>2. Contains(Stored(mem, r.call.isAdmin), r.call.email)
    BY <1>3 DEF KnowsCall
  <2> HIDE DEF m
  <2>3. AccountsIn(m) = AccountsIn(mem)
    BY <2>1 DEF AccountsIn, Account
  <2>4. a \in AccountsIn(mem)
    BY <2>1, <2>2 DEF AccountsIn, Account
  <2> QED BY <2>1, <2>3, <2>4 DEF m
<1>4. CASE r.call.at = "logout"
  <2>1. /\ \A b \in BOOLEAN : Stored(m, b) = Stored(mem, b)
        /\ m[USER_LOGGEDIN_KEY] = Missing
    BY <1>4, WrittenEffect DEF SavesSession
  <2> HIDE DEF m
  <2>2. AccountsIn(m) = AccountsIn(mem)
    BY <2>1 DEF AccountsIn, Account
  <2> QED BY <2>1, <2>2 DEF m
<1> QED BY <1>2, <1>3, <1>4, WrittenEffect

\* Everything the copies are, and whether they are what they should be.
Copied == <<mem, disk, staged, faults, filesFailed, deletions>>

Handling ==
    UserStep \/ RunCallback \/ ChangeColorScheme \/ CleanUpState \/ BackOutAndReturn

\* JavaScript leaves the store alone, and adds no answer.
LEMMA HandlersAnswerNothing ==
    ASSUME TypeOK, Handling
    PROVE  UNCHANGED Copied /\ DOMAIN replies' \subseteq DOMAIN replies
<1>1. IsQueue(replies)
  BY DEF TypeOK, QueuesOK, QueueOK, IsQueue
<1>2. ASSUME replies # <<>>
      PROVE  DOMAIN OtherReplies \subseteq DOMAIN replies
  <2>1. /\ Len(replies) \in Nat /\ DOMAIN replies = 1..Len(replies)
        /\ DOMAIN Tail(replies) = 1..(Len(replies) - 1)
    BY <1>1, <1>2, QueueTail
  <2>2. 1..(Len(replies) - 1) \subseteq 1..Len(replies)
    BY <2>1
  <2> QED BY <2>1, <2>2 DEF OtherReplies
<1>3. ASSUME NEW queue, NEW how
      PROVE  DOMAIN Disowned(queue, how) = DOMAIN queue
  BY DEF Disowned
<1>4. ASSUME NEW calls, NEW others, Answered(calls, others),
             DOMAIN others \subseteq DOMAIN replies
      PROVE  UNCHANGED Copied /\ DOMAIN replies' \subseteq DOMAIN replies
  BY <1>4 DEF Answered, stores, failures, Copied
<1>5. ASSUME NEW m, NEW a, NEW others, Mount(m, a, requests, others),
             DOMAIN others \subseteq DOMAIN replies
      PROVE  UNCHANGED Copied /\ DOMAIN replies' \subseteq DOMAIN replies
  BY <1>3, <1>5 DEF Mount, Answered, stores, failures, Copied
<1>6. CASE UNCHANGED storageVars
  BY <1>6 DEF storageVars, stores, failures, Copied
<1>7. CASE UserStep
  <2>1. ASSUME NEW r, Tap(r)
        PROVE  UNCHANGED Copied /\ DOMAIN replies' \subseteq DOMAIN replies
    BY <2>1, <1>4 DEF Tap
  <2>2. CASE SubmitLogin \/ SubmitSignup \/ TapLogout
    BY <2>1, <2>2 DEF SubmitLogin, SubmitSignup, FindUser, TapLogout
  <2>3. CASE FollowLink
    <3>1. PICK m, a : Mount(m, a, requests, replies)
      BY <2>3 DEF FollowLink, ReplaceFromAuth
    <3> QED BY <3>1, <1>5
  <2> QED BY <1>6, <1>7, <2>2, <2>3 DEF UserStep, ChangeEmail, ToggleSwitch
<1>8. CASE RunCallback
  <2>1. replies # <<>>
    BY <1>8 DEF RunCallback, IsUserLoggedIn, LoginFound, SignupFound, SignupAdded,
                SessionSaved, GetUserInfo, LoggedOut, Rejected, Awaited
  <2>2. \/ \E calls : Answered(calls, OtherReplies)
        \/ \E m, a : Mount(m, a, requests, OtherReplies)
    <3>1. GoHome => \/ \E calls : Answered(calls, OtherReplies)
                    \/ \E m, a : Mount(m, a, requests, OtherReplies)
      BY DEF GoHome, Finish, ReplaceFromAuth
    <3>2. IsUserLoggedIn \/ SessionSaved =>
            \/ \E calls : Answered(calls, OtherReplies)
            \/ \E m, a : Mount(m, a, requests, OtherReplies)
      BY <3>1 DEF IsUserLoggedIn, SessionSaved, Finish
    <3>3. LoginFound \/ SignupFound => \E calls : Answered(calls, OtherReplies)
      BY DEF LoginFound, SignupFound, GoOn, Finish
    <3>4. SignupAdded \/ GetUserInfo \/ Rejected => \E calls : Answered(calls, OtherReplies)
      BY DEF SignupAdded, GetUserInfo, Rejected, Finish
    <3>5. LoggedOut => \/ \E calls : Answered(calls, OtherReplies)
                       \/ \E m, a : Mount(m, a, requests, OtherReplies)
      BY DEF LoggedOut, Finish, ResetToAuth
    <3> QED BY <1>8, <3>2, <3>3, <3>4, <3>5 DEF RunCallback
  <2> QED BY <1>2, <1>4, <1>5, <2>1, <2>2
<1>9. CASE ChangeColorScheme \/ CleanUpState
  <2>1. UNCHANGED storageVars \/ \E m, a : Mount(m, a, requests, replies)
    BY <1>9 DEF ChangeColorScheme, CleanUpState
  <2> QED BY <1>5, <1>6, <2>1
<1>10. CASE BackOutAndReturn
  BY <1>3, <1>10 DEF BackOutAndReturn, ActivityDestroyed, stores, failures,
                          Copied
<1> QED BY <1>7, <1>8, <1>9, <1>10 DEF Handling

IsStore(store) == store = [key \in StorageKey |-> store[key]]

\* Nothing sets the two apart.
Faithful == Platform = "android" \/ MaxFaults = 0


\* All copies are stores.  Until the file of a value failed, what memory answers is
\* what the next manifest leaves, and where no write fails it is what disk has.
CopiesInv ==
    /\ IsStore(mem) /\ IsStore(disk) /\ IsStore(staged)
    /\ ~filesFailed => staged = mem
    /\ filesFailed => faults # 0
    /\ Faithful => mem = disk /\ ~filesFailed
    /\ Platform = "ios" => deletions = 0

\* A file that failed is not forgotten.
LEMMA FilesFailForGood ==
    ASSUME TypeOK, TypeOK', [Next]_vars, ~filesFailed'
    PROVE  ~filesFailed
<1>1. CASE filesFailed' = filesFailed
  BY <1>1
<1>2. CASE StoreStep
  <2>1. filesFailed' \in {filesFailed, TRUE}
    BY <1>2, StoreStepCases
  <2>2. filesFailed' # TRUE
    BY Zenon
  <2> QED BY <1>1, <2>1, <2>2
<1>3. CASE Handling
  BY <1>1, <1>3, HandlersAnswerNothing DEF Copied
<1>4. CASE Crash \/ EmptyCache
  BY <1>1, <1>4, EmptyCacheCases DEF Crash, Restart, failures
<1>5. CASE UNCHANGED vars
  BY <1>1, <1>5 DEF vars, storageVars, failures
<1> QED BY <1>2, <1>3, <1>4, <1>5 DEF Next, Handling

\* Where no write fails, no file does.
LEMMA NoFileFails ==
    ASSUME TypeOK, Faithful, ~filesFailed, StoreStep
    PROVE  ~filesFailed'
<1>1. CASE filesFailed' = filesFailed
  BY <1>1
<1>2. CASE Fail
  <2>1. faults < MaxFaults /\ faults \in 0..MaxFaults /\ MaxFaults \in Nat
    BY <1>2, StorageAssumption DEF Fail, TypeOK, StoresOK
  <2>2. Platform = "android"
    BY <2>1 DEF Faithful
  <2>3. FailsInDatabase(Head(requests))
    BY <1>2, <2>2 DEF Fail, FailsToSetUp, FailsToPersist, FailsToWriteFile, FailsToReadFile
  <2> QED BY <1>1, <2>3 DEF FailsInDatabase
<1>3. CASE Execute \/ DeleteDatabase
  BY <1>1, <1>3 DEF Execute, DeleteDatabase, failures
<1> QED BY <1>2, <1>3 DEF StoreStep

\* The old file is removed for a value the manifest has room for.
Shrinks(r) ==
    Platform = "ios" /\ HasFile(r.key, staged[r.key]) /\ ~HasFile(r.key, r.value)

LEMMA RemainsIs ==
    ASSUME NEW r, NEW left \in Remains(r)
    PROVE  \/ left = disk
           \/ /\ left = Written(disk, r) /\ r.op # "get"
              /\ r.key \in LongKey \/ Platform = "android"
           \/ r.op # "get" /\ Shrinks(r)
<1>0. Platform \in {"ios", "android"}
  BY StorageAssumption
<1>1. CASE Platform = "android"
  BY <1>1 DEF Remains
<1>2. CASE Platform = "ios" /\ TouchesFile(r) /\ HasFile(r.key, r.value)
  <2>1. r.key \in LongKey /\ r.op # "get"
    BY <1>2 DEF TouchesFile, HasFile
  <2> QED BY <1>2, <2>1 DEF Remains, Written
<1>3. CASE Platform = "ios" /\ TouchesFile(r) /\ ~HasFile(r.key, r.value)
  BY <1>3 DEF TouchesFile, Shrinks
<1>4. CASE Platform = "ios" /\ ~TouchesFile(r)
  BY <1>4 DEF Remains
<1> QED BY <1>0, <1>1, <1>2, <1>3, <1>4

\* iOS: what a call that succeeds leaves on disk.
LEMMA PersistedIs ==
    ASSUME TypeOK, NEW r, RequestOK(r), staged = mem, IsStore(mem), Platform = "ios",
           NEW left \in Persisted(r)
    PROVE  /\ r.op = "get" => left = disk
           /\ \/ left = disk \/ left = Written(mem, r)
              \/ r.key \in LongKey /\ left = Written(disk, r)
           /\ mem = disk => left = Written(mem, r)
<1>1. PICK refers \in MayRefer(r.key) :
        left = IF ChangesManifest(r, refers) THEN Written(mem, r)
               ELSE IF HasFile(r.key, r.value) /\ FileCounts(r.key) THEN Written(disk, r)
               ELSE disk
  BY DEF Persisted
<1>2. /\ r.op \in {"get", "set", "remove"}
      /\ r.op = "get" \/ r.op = "remove" => r.value = Missing
      /\ r.op = "remove" => r.key = USER_LOGGEDIN_KEY
      /\ r.key \in StorageKey
  BY KeyFacts DEF RequestOK, GetItem, SetItem, RemoveItem, HandlerCall
<1>3. \A key : ~HasFile(key, Missing)
  BY StorageAssumption DEF HasFile
<1>4. CASE ChangesManifest(r, refers)
  BY <1>1, <1>4 DEF ChangesManifest
<1>5. CASE ~ChangesManifest(r, refers) /\ r.op = "get"
  <2>1. left = disk /\ Written(mem, r) = mem
    BY <1>1, <1>2, <1>3, <1>5 DEF Written
  <2> QED BY <2>1
<1>6. CASE ~ChangesManifest(r, refers) /\ r.op = "set"
  <2>1. HasFile(r.key, r.value) /\ refers
    BY <1>6 DEF ChangesManifest
  <2>2. r.key \in LongKey
    BY <2>1 DEF HasFile
  <2>3. ASSUME mem = disk
        PROVE  FileCounts(r.key)
    <3>1. CASE mem[r.key] = Missing
      BY <1>3, <2>3, <3>1 DEF FileCounts
    <3>2. CASE mem[r.key] # Missing
      <4>1. refers = HasFile(r.key, mem[r.key])
        BY <3>2 DEF MayRefer
      <4> QED BY <2>1, <2>3, <4>1 DEF FileCounts
    <3> QED BY <3>1, <3>2
  <2>4. left = IF FileCounts(r.key) THEN Written(disk, r) ELSE disk
    BY <1>1, <1>6, <2>1
  <2> QED BY <1>6, <2>2, <2>3, <2>4
<1>7. CASE ~ChangesManifest(r, refers) /\ r.op = "remove"
  <2>1. mem[r.key] = Missing /\ r.value = Missing
    BY <1>2, <1>7 DEF ChangesManifest
  <2>2. left = disk
    BY <1>1, <1>3, <1>7, <2>1
  <2>3. Written(mem, r) = mem
    <3>1. [mem EXCEPT ![r.key] = Missing] = mem
      BY <1>2, <2>1 DEF IsStore
    <3> QED BY <1>7, <2>1, <3>1 DEF Written
  <2> QED BY <1>7, <2>2, <2>3
<1> QED BY <1>2, <1>4, <1>5, <1>6, <1>7

\* A call that is executed or fails, one platform's way or the other's, short of the
\* file of a value.
LEMMA StoreChanges ==
    ASSUME TypeOK, CopiesInv, Execute \/ Fail, ~filesFailed, ~filesFailed',
           NEW r, r = Head(requests)
    PROVE  /\ requests # <<>> /\ requests' = Tail(requests)
           /\ \E error \in BOOLEAN :
                /\ replies' = Append(replies, Answer(r, error))
                /\ error \/ mem' = Written(mem, r)
           /\ r.op = "get" => UNCHANGED <<mem, disk>>
           /\ \/ UNCHANGED <<mem, disk>>
              \/ /\ mem' = Written(mem, r)
                 /\ \/ disk' \in {disk, Written(mem, r)}
                    \/ r.key \in LongKey /\ disk' = Written(disk, r)
                    \/ r.op # "get" /\ Shrinks(r)
           /\ staged' = mem'
           /\ Faithful => mem' = disk'
           /\ deletions' = deletions
<1>0. /\ Platform \in {"ios", "android"} /\ MaxFaults \in Nat
      /\ staged = mem /\ (Faithful => mem = disk) /\ IsStore(mem)
  BY StorageAssumption DEF CopiesInv
<1>1. CASE Execute
  <2>1. /\ requests # <<>> /\ requests' = Tail(requests)
        /\ replies' = Append(replies, Answer(r, FALSE))
        /\ mem' = Written(mem, r) /\ staged' = mem' /\ disk' \in Persisted(r)
        /\ deletions' = deletions
    BY <1>0, <1>1 DEF Execute, failures
  <2>2. CASE Platform = "android"
    <3>1. disk' = Written(disk, r) /\ mem = disk
      BY <1>0, <2>1, <2>2 DEF Persisted, Faithful
    <3>2. r.op = "get" => UNCHANGED <<mem, disk>>
      BY <2>1, <3>1 DEF Written
    <3> QED BY <2>1, <3>1, <3>2
  <2>3. CASE Platform = "ios"
    <3>1. RequestOK(r)
      BY <2>1, HeadTailRequestOK DEF TypeOK, QueuesOK
    <3>2. /\ r.op = "get" => disk' = disk
          /\ \/ disk' = disk \/ disk' = Written(mem, r)
             \/ r.key \in LongKey /\ disk' = Written(disk, r)
          /\ mem = disk => disk' = Written(mem, r)
      BY <1>0, <2>1, <2>3, <3>1, PersistedIs
    <3>3. r.op = "get" => UNCHANGED <<mem, disk>>
      BY <2>1, <3>2 DEF Written
    <3> QED BY <1>0, <2>1, <3>2, <3>3
  <2> QED BY <1>0, <2>2, <2>3
<1>2. CASE Fail
  <2>1. /\ requests # <<>> /\ requests' = Tail(requests) /\ faults < MaxFaults
        /\ replies' = Append(replies, Answer(r, TRUE))
        /\ \/ FailsInDatabase(r) \/ FailsToSetUp \/ FailsToPersist(r)
           \/ FailsToWriteFile(r) \/ FailsToReadFile(r)
        /\ deletions' = deletions
    BY <1>2 DEF Fail
  <2>2. MaxFaults # 0
    BY <1>0, <2>1 DEF TypeOK, StoresOK
  <2>3. CASE FailsInDatabase(r)
    <3>1. /\ mem = disk /\ mem' = disk' /\ staged' = mem' /\ Platform = "android"
          /\ disk' \in {disk, Written(disk, r)}
      BY <1>0, <2>3 DEF FailsInDatabase, Remains, Faithful
    <3>2. r.op = "get" => disk' = disk
      BY <3>1 DEF Written
    <3> QED BY <2>1, <3>1, <3>2
  <2>4. CASE FailsToSetUp
    BY <1>0, <2>1, <2>4 DEF FailsToSetUp, stores
  <2>5. CASE FailsToPersist(r)
    <3>1. /\ Platform = "ios" /\ r.op # "get" /\ mem' = Written(mem, r) /\ staged' = mem'
          /\ disk' \in Remains(r)
      BY <1>0, <2>5 DEF FailsToPersist, ChangesManifest
    <3>2. disk' = disk \/ (r.key \in LongKey /\ disk' = Written(disk, r)) \/ Shrinks(r)
      BY <3>1, RemainsIs
    <3>3. ~Faithful
      BY <2>2, <3>1 DEF Faithful
    <3> QED BY <2>1, <3>1, <3>2, <3>3
  <2>6. CASE FailsToWriteFile(r) \/ FailsToReadFile(r)
    <3>1. filesFailed' = TRUE
      BY <2>6, Zenon DEF FailsToWriteFile, FailsToReadFile
    <3> QED BY <3>1, Zenon
  <2> QED BY <2>1, <2>3, <2>4, <2>5, <2>6
<1> QED BY <1>1, <1>2

LEMMA CopiesKept ==
    ASSUME TypeOK, TypeOK', CopiesInv, [Next]_vars
    PROVE  CopiesInv'
<1>0. Platform \in {"ios", "android"}
  BY StorageAssumption
<1>1. SUFFICES /\ IsStore(mem') /\ IsStore(disk') /\ IsStore(staged')
               /\ ~filesFailed' => staged' = mem'
               /\ filesFailed' => faults' # 0
               /\ Faithful => mem' = disk' /\ ~filesFailed'
               /\ Platform = "ios" => deletions' = 0
  BY DEF CopiesInv, IsStore, Faithful
<1>2. CASE UNCHANGED Copied
  BY <1>2 DEF CopiesInv, Copied
<1>3. CASE StoreStep
  <2> DEFINE r == Head(requests)
  <2>1. mem' \in Copies(r) /\ disk' \in Copies(r) /\ staged' \in Copies(r)
    BY <1>3, StoreStepCases
  <2>2. ASSUME NEW store \in Copies(r)
        PROVE  IsStore(store)
    <3>1. \A old : IsStore(old) => IsStore(Written(old, r)) /\ IsStore(Without(old, r.key))
      BY DEF IsStore, Written, Without
    <3>2. IsStore(NothingStored)
      BY DEF IsStore, NothingStored
    <3> QED BY <3>1, <3>2 DEF Copies, CopiesInv
  <2>3. CASE DeleteDatabase
    <3>1. /\ mem' = disk' /\ staged' = mem' /\ Platform = "android"
          /\ filesFailed' = filesFailed /\ faults' = faults
      BY <2>3 DEF DeleteDatabase
    <3> QED BY <2>1, <2>2, <3>1 DEF CopiesInv
  <2>4. CASE Execute \/ Fail
    <3>1. ~filesFailed' => staged' = mem' /\ (Faithful => mem' = disk')
      BY <2>4, FilesFailForGood, StoreChanges
    <3>2. Faithful => ~filesFailed'
      BY <1>3, NoFileFails DEF CopiesInv
    <3>3. Platform = "ios" => deletions' = 0
      BY <2>4 DEF Execute, Fail, failures, CopiesInv
    <3>4. filesFailed' => faults' # 0
      <4>1. CASE Execute
        BY <4>1 DEF Execute, failures, CopiesInv
      <4>2. CASE Fail
        BY <4>2, StorageAssumption DEF Fail, TypeOK, StoresOK
      <4> QED BY <2>4, <4>1, <4>2
    <3> QED BY <2>1, <2>2, <3>1, <3>2, <3>3, <3>4
  <2> QED BY <1>3, <2>3, <2>4 DEF StoreStep
<1>4. CASE Crash
  <2> DEFINE r == Head(requests)
  <2>1. /\ mem' = disk' /\ staged' = disk' /\ UNCHANGED <<faults, filesFailed, deletions>>
        /\ disk' = disk \/ disk' \in Remains(r)
    BY <1>4 DEF Crash, Restart, failures
  <2>2. IsStore(disk')
    BY <2>1 DEF CopiesInv, IsStore, Written, Remains
  <2> QED BY <2>1, <2>2 DEF CopiesInv
<1>5. CASE EmptyCache
  <2>1. /\ UNCHANGED <<disk, staged, faults, filesFailed, deletions>> /\ mem # staged
        /\ \E key \in StorageKey : mem' = [mem EXCEPT ![key] = staged[key]]
    BY <1>5, EmptyCacheCases
  <2>2. IsStore(mem')
    BY <2>1 DEF CopiesInv, IsStore
  <2> QED BY <2>1, <2>2 DEF CopiesInv
<1>6. CASE UNCHANGED vars
  BY <1>2, <1>6 DEF vars, storageVars, stores, failures, Copied
<1> QED BY <1>2, <1>3, <1>4, <1>5, <1>6, HandlersAnswerNothing DEF Next, Handling

-----------------------------------------------------------------------------
(* The invariant, until the file of a value fails or Android deletes a     *)
(* database.                                                               *)

KnowsInv ==
    ~filesFailed /\ deletions = 0 =>
        Held(mem, requests, replies) /\ StoresKnow(mem, disk)

\* A list that has its own file is never made shorter.
LEMMA NeverShrinks ==
    ASSUME CopiesInv, ~filesFailed, StoreOK(mem),
           NEW r, RequestOK(r), r.op # "get", KnowsCall(mem, r)
    PROVE  ~Shrinks(r)
<1> SUFFICES ASSUME Shrinks(r) PROVE FALSE
  OBVIOUS
<1>1. /\ r.key \in LongKey /\ mem[r.key] \in Long
      /\ r.value \notin Long
  BY DEF Shrinks, HasFile, CopiesInv
<1>2. r.key # USER_LOGGEDIN_KEY
  BY <1>1, SessionAssumption DEF USER_ADMIN_KEY, USER_MEMBER_KEY, USER_LOGGEDIN_KEY
<1>3. /\ r.call.at = "signup.add" /\ r.key = UserKey(r.call.isAdmin)
      /\ r.call.isAdmin \in BOOLEAN /\ r.call.email \in Email
  BY <1>2 DEF RequestOK, GetItem, SetItem, RemoveItem, KnowsEmail, HandlerCall
<1> DEFINE list == mem[r.key]
<1>4. list # Missing /\ Stored(mem, r.call.isAdmin) = list
  BY <1>1, <1>3, StorageAssumption DEF Stored, Users
<1>5. list \in Long \cap Seq(Email)
  BY <1>1, <1>3, <1>4 DEF StoreOK
<1>6. r.value = <<r.call.email>> \o list /\ ~Contains(list, r.call.email)
  BY <1>3, <1>4 DEF KnowsCall
<1> HIDE DEF list
<1>7. r.value \in Long
  BY <1>3, <1>5, <1>6, SessionAssumption
<1> QED BY <1>1, <1>7

LEMMA HeadKnows ==
    ASSUME TypeOK, requests # <<>>, NEW store, Held(store, requests, replies)
    PROVE  KnowsCall(store, Head(requests))
<1>1. IsQueue(requests)
  BY DEF TypeOK, QueuesOK, QueueOK, IsQueue
<1>2. 1 \in DOMAIN requests /\ Head(requests) = requests[1]
  BY <1>1, QueueTail
<1> QED BY <1>2 DEF Held

\* So of a call that knows what it writes either nothing is on disk, or all of it.
LEMMA HeadNeverShrinks ==
    ASSUME TypeOK, CopiesInv, KnowsInv, ~filesFailed, requests # <<>>,
           Head(requests).op # "get"
    PROVE  ~Shrinks(Head(requests))
<1>1. CASE Platform = "android"
  BY <1>1 DEF Shrinks
<1>2. CASE Platform = "ios"
  <2>1. KnowsCall(mem, Head(requests))
    BY <1>2, HeadKnows DEF CopiesInv, KnowsInv
  <2>2. RequestOK(Head(requests)) /\ StoreOK(mem)
    BY HeadTailRequestOK DEF TypeOK, QueuesOK, StoresOK
  <2> QED BY <2>1, <2>2, NeverShrinks
<1> QED BY <1>1, <1>2, StorageAssumption

LEMMA StoreTakes ==
    ASSUME TypeOK, CopiesInv, KnowsInv, Execute \/ Fail, ~filesFailed, ~filesFailed',
           NEW r, r = Head(requests)
    PROVE  /\ requests # <<>> /\ requests' = Tail(requests)
           /\ \E error \in BOOLEAN :
                /\ replies' = Append(replies, Answer(r, error))
                /\ error \/ mem' = Written(mem, r)
           /\ r.op = "get" => UNCHANGED <<mem, disk>>
           /\ \/ UNCHANGED <<mem, disk>>
              \/ /\ mem' = Written(mem, r)
                 /\ \/ disk' \in {disk, Written(mem, r)}
                    \/ r.key \in LongKey /\ disk' = Written(disk, r)
           /\ deletions' = deletions
<1>1. requests # <<>>
  BY StoreChanges
<1>2. r.op # "get" => ~Shrinks(r)
  BY <1>1, HeadNeverShrinks
<1> QED BY <1>2, StoreChanges

LEMMA CrashLeaves ==
    ASSUME TypeOK, CopiesInv, KnowsInv, Crash, ~filesFailed, NEW r, r = Head(requests)
    PROVE  /\ mem' = disk' /\ UNCHANGED <<filesFailed, deletions>>
           /\ \/ disk' = disk
              \/ /\ requests # <<>> /\ disk' = Written(disk, r) /\ r.op # "get"
                 /\ r.key \in LongKey \/ Platform = "android"
           /\ requests' = MountCalls("LOGIN") /\ replies' = <<>>
<1>1. /\ mem' = disk' /\ UNCHANGED <<filesFailed, deletions>>
      /\ disk' = disk \/ (requests # <<>> /\ disk' \in Remains(r))
      /\ requests' = MountCalls("LOGIN") /\ replies' = <<>>
  BY DEF Crash, Restart, failures
<1>2. requests # <<>> /\ r.op # "get" => ~Shrinks(r)
  BY HeadNeverShrinks
<1> QED BY <1>1, <1>2, RemainsIs

\* A step of what Accounts promises, or none.
PromisedStep == [deletions' = 0 => Promised!Next]_<<deletions, Promised!vars>>

LEMMA PrimedInv ==
    ASSUME Held(mem', requests', replies'), StoresKnow(mem', disk')
    PROVE  KnowsInv'
BY DEF KnowsInv, Held, OneTap, Quiet, IsTap, KnowsCall, KnowsAnswer, StoresKnow,
       SessionIn, Stored

\* A step of JavaScript: it leaves the store alone, and what the queues knew of some
\* store they know of it still.
StillHeld ==
    /\ UNCHANGED <<mem, disk, filesFailed, deletions>>
    /\ \A store : Held(store, requests, replies) => Held(store, requests', replies')

\* Such a step keeps the invariant, and promises nothing.
LEMMA QueuesKeep ==
    ASSUME KnowsInv, StillHeld
    PROVE  KnowsInv' /\ PromisedStep
<1>1. KnowsInv'
  <2>1. CASE ~filesFailed /\ deletions = 0
    <3>1. Held(mem, requests, replies) /\ StoresKnow(mem, disk)
      BY <2>1 DEF KnowsInv
    <3>2. Held(mem, requests', replies')
      BY <3>1 DEF StillHeld
    <3> QED BY <3>1, <3>2, PrimedInv DEF StillHeld
  <2>2. CASE filesFailed \/ deletions # 0
    BY <2>2 DEF KnowsInv, StillHeld
  <2> QED BY <2>1, <2>2
<1>2. UNCHANGED <<deletions, Promised!vars>>
  BY DEF StillHeld, Promised!vars, Session, Stored
<1> QED BY <1>1, <1>2 DEF PromisedStep

LEMMA NoTapsQuiet ==
    ASSUME TypeOK, TapsUnderWay < 1
    PROVE  Quiet(requests) /\ Quiet(replies)
<1> DEFINE C == {i \in DOMAIN requests : requests[i].call.at \in TapHandlers}
           A == {i \in DOMAIN replies : replies[i].call.at \in TapHandlers}
<1>1. /\ DOMAIN requests = 1..Len(requests) /\ Len(requests) \in Nat
      /\ DOMAIN replies = 1..Len(replies) /\ Len(replies) \in Nat
  BY LenProperties DEF TypeOK, QueuesOK, QueueOK
<1>2. IsFiniteSet(DOMAIN requests) /\ IsFiniteSet(DOMAIN replies)
  BY <1>1, FS_Interval
<1>3. IsFiniteSet(C) /\ IsFiniteSet(A)
  <2>1. C \subseteq DOMAIN requests /\ A \subseteq DOMAIN replies
    OBVIOUS
  <2> HIDE DEF C, A
  <2> QED BY <1>2, <2>1, FS_Subset
<1>4. Cardinality(C) + Cardinality(A) < 1
  BY DEF TapsUnderWay
<1> HIDE DEF C, A
<1>5. Cardinality(C) \in Nat /\ Cardinality(A) \in Nat
  BY <1>3, FS_CardinalityType
<1>6. Cardinality(C) = 0 /\ Cardinality(A) = 0
  BY <1>4, <1>5
<1>7. C = {} /\ A = {}
  BY <1>3, <1>6, FS_EmptySet
<1> QED BY <1>7 DEF C, A, Quiet, IsTap

\* With MaxTaps = 1, a tap finds no other under way.
LEMMA NoTap ==
    ASSUME TypeOK, MaxTaps = 1, TapsUnderWay < MaxTaps
    PROVE  Quiet(requests) /\ Quiet(replies)
BY NoTapsQuiet

\* The navigators show another screen, when a callback has been run or before.
LEMMA MountKeeps ==
    ASSUME NEW m, NEW a,
           QueueOK(requests, RequestOK), NEW others, QueueOK(others, ReplyOK),
           \A store : Held(store, requests, replies) => Held(store, requests, others),
           Mount(m, a, requests, others)
    PROVE  StillHeld
<1>1. /\ UNCHANGED <<mem, disk, filesFailed, deletions>>
      /\ requests' = Disowned(requests, "unmounted") \o MountCalls(Focused(m, a))
      /\ replies' = Disowned(others, "unmounted")
  BY DEF Mount, Answered, stores, failures
<1>2. IsQueue(Disowned(requests, "unmounted"))
  BY QueueDisowned DEF QueueOK, IsQueue
<1>3. ASSUME NEW store, Held(store, requests, replies)
      PROVE  Held(store, requests', replies')
  BY <1>1, <1>2, <1>3, HeldDisowned, HeldMountCalls
<1> QED BY <1>1, <1>3 DEF StillHeld

LEMMA UserKeeps ==
    ASSUME TypeOK, MaxTaps = 1, UserStep
    PROVE  StillHeld
<1>1. QueueOK(requests, RequestOK) /\ QueueOK(replies, ReplyOK)
  BY DEF TypeOK, QueuesOK
<1>2. CASE UNCHANGED storageVars
  BY <1>2 DEF storageVars, stores, failures, StillHeld
<1>3. ASSUME NEW r, Tap(r), r.call.at \in FindsUsers \cup {"logout"}
      PROVE  StillHeld
  <2>1. /\ UNCHANGED <<mem, disk, filesFailed, deletions>>
        /\ requests' = Append(requests, r) /\ replies' = replies
    BY <1>3 DEF Tap, Answered, stores, failures
  <2>2. \A store : KnowsCall(store, r)
    BY <1>3 DEF KnowsCall, FindsUsers, SavesSession
  <2>3. Quiet(requests) /\ Quiet(replies)
    BY <1>3, NoTap DEF Tap
  <2>4. \A store : Held(store, requests', replies')
    BY <1>1, <2>1, <2>2, <2>3, HeldAppend DEF QueueOK, IsQueue
  <2> QED BY <2>1, <2>4 DEF StillHeld
<1>4. CASE SubmitLogin \/ SubmitSignup
  BY <1>3, <1>4 DEF SubmitLogin, SubmitSignup, FindUser, GetItem, Handler, FindsUsers
<1>5. CASE TapLogout
  BY <1>3, <1>5 DEF TapLogout, RemoveItem, Handler
<1>6. CASE FollowLink
  <2>1. PICK m, a : Mount(m, a, requests, replies)
    BY <1>6 DEF FollowLink, ReplaceFromAuth
  <2> QED BY <1>1, <2>1, MountKeeps
<1> QED BY <1>2, <1>4, <1>5, <1>6 DEF UserStep, ChangeEmail, ToggleSwitch

\* A handler goes on with what it knows.
LEMMA CallbackKeeps ==
    ASSUME TypeOK, RunCallback
    PROVE  StillHeld
<1>1. replies # <<>>
  BY DEF RunCallback, IsUserLoggedIn, LoginFound, SignupFound, SignupAdded,
         SessionSaved, GetUserInfo, LoggedOut, Rejected, Awaited
<1>2. /\ QueueOK(requests, RequestOK) /\ QueueOK(OtherReplies, ReplyOK)
      /\ QueueOK(replies, ReplyOK) /\ ReplyOK(Reply)
  BY <1>1, HeadTailReplyOK DEF TypeOK, QueuesOK, Reply, OtherReplies
<1>3. ASSUME NEW store, Held(store, requests, replies)
      PROVE  /\ Held(store, requests, OtherReplies)
             /\ KnowsAnswer(store, Reply)
             /\ IsTap(Reply) => Quiet(requests) /\ Quiet(OtherReplies)
  BY <1>1, <1>2, <1>3, HeldTail DEF QueueOK, IsQueue, Reply, OtherReplies
<1>4. /\ Call \in HandlerCall
      /\ Reply.call = Call
  BY <1>2 DEF ReplyOK, Call
<1>5. ASSUME Answered(requests, OtherReplies)
      PROVE  StillHeld
  BY <1>3, <1>5 DEF Answered, stores, failures, StillHeld
<1>6. ASSUME NEW r, Call.at \in TapHandlers,
             \A store : KnowsAnswer(store, Reply) => KnowsCall(store, r),
             Answered(Append(requests, r), OtherReplies)
      PROVE  StillHeld
  <2>1. ASSUME NEW store, Held(store, requests, replies)
        PROVE  Held(store, Append(requests, r), OtherReplies)
    <3>1. KnowsCall(store, r) /\ Quiet(requests) /\ Quiet(OtherReplies)
      BY <1>3, <1>4, <1>6, <2>1 DEF IsTap
    <3> QED BY <1>2, <3>1, HeldAppend DEF QueueOK, IsQueue
  <2> QED BY <1>6, <2>1 DEF Answered, stores, failures, StillHeld
<1>7. ASSUME NEW m, NEW a, Mount(m, a, requests, OtherReplies)
      PROVE  StillHeld
  <2>1. \A store : Held(store, requests, replies) => Held(store, requests, OtherReplies)
    BY <1>3
  <2> QED BY <1>2, <1>7, <2>1, MountKeeps
<1>8. ASSUME GoHome PROVE StillHeld
  BY <1>5, <1>7, <1>8 DEF GoHome, Finish, ReplaceFromAuth
<1>9. ASSUME NEW at
      PROVE  /\ Saved(at).call = [Call EXCEPT !.at = at]
             /\ Saved(at).call.at = at /\ Saved(at).call.email = Call.email
             /\ Saved(at).call.isAdmin = Call.isAdmin
  BY <1>4 DEF Saved, SetItem, HandlerCall
<1>10. CASE IsUserLoggedIn
  BY <1>5, <1>8, <1>10 DEF IsUserLoggedIn, Finish
<1>11. CASE LoginFound
  <2>1. Call.at = "login.find" /\ ~Reply.error
    BY <1>11 DEF LoginFound, Awaited
  <2>2. CASE Contains(Users(Reply.value), Call.email)
    <3>1. ASSUME NEW store, KnowsAnswer(store, Reply)
          PROVE  KnowsCall(store, Saved("login.save"))
      <4>1. Contains(Stored(store, Call.isAdmin), Call.email)
        BY <1>4, <2>1, <2>2, <3>1 DEF KnowsAnswer, FindsUsers
      <4> QED BY <1>9, <4>1 DEF KnowsCall
    <3>2. Answered(Append(requests, Saved("login.save")), OtherReplies)
      BY <1>11, <2>2 DEF LoginFound, GoOn
    <3> QED BY <1>6, <2>1, <3>1, <3>2 DEF TapHandlers
  <2>3. CASE ~Contains(Users(Reply.value), Call.email)
    BY <1>5, <1>11, <2>3 DEF LoginFound, Finish
  <2> QED BY <2>2, <2>3
<1>12. CASE SignupFound
  <2>1. Call.at = "signup.find" /\ ~Reply.error
    BY <1>12 DEF SignupFound, Awaited
  <2>2. CASE ~Contains(Users(Reply.value), Call.email)
    <3> DEFINE r == SetItem(UserKey(Call.isAdmin),
                            <<Call.email>> \o Users(Reply.value),
                            [Call EXCEPT !.at = "signup.add"])
    <3>1. /\ r.value = <<Call.email>> \o Users(Reply.value)
          /\ r.call.at = "signup.add" /\ r.call.email = Call.email
          /\ r.call.isAdmin = Call.isAdmin
      BY <1>4 DEF SetItem, HandlerCall
    <3>2. Answered(Append(requests, r), OtherReplies)
      BY <1>12, <2>2 DEF SignupFound, GoOn
    <3> HIDE DEF r
    <3>3. ASSUME NEW store, KnowsAnswer(store, Reply)
          PROVE  KnowsCall(store, r)
      <4>1. Users(Reply.value) = Stored(store, Call.isAdmin)
        BY <1>4, <2>1, <3>3 DEF KnowsAnswer, FindsUsers
      <4> QED BY <2>2, <3>1, <4>1 DEF KnowsCall, SavesSession
    <3> QED BY <1>6, <2>1, <3>2, <3>3 DEF TapHandlers
  <2>3. CASE Contains(Users(Reply.value), Call.email)
    BY <1>5, <1>12, <2>3 DEF SignupFound, Finish
  <2> QED BY <2>2, <2>3
<1>13. CASE SignupAdded
  <2>1. Call.at = "signup.add" /\ ~Reply.error
    BY <1>13 DEF SignupAdded, Awaited
  <2>2. ASSUME NEW store, KnowsAnswer(store, Reply)
        PROVE  KnowsCall(store, Saved("signup.save"))
    <3>1. Contains(Stored(store, Call.isAdmin), Call.email)
      BY <1>4, <2>1, <2>2 DEF KnowsAnswer
    <3> QED BY <1>9, <3>1 DEF KnowsCall
  <2>3. Answered(Append(requests, Saved("signup.save")), OtherReplies)
    BY <1>13 DEF SignupAdded
  <2> QED BY <1>6, <2>1, <2>2, <2>3 DEF TapHandlers
<1>14. CASE SessionSaved
  BY <1>8, <1>14 DEF SessionSaved
<1>15. CASE GetUserInfo
  BY <1>5, <1>15 DEF GetUserInfo
<1>16. CASE LoggedOut
  BY <1>5, <1>7, <1>16 DEF LoggedOut, Finish, ResetToAuth
<1>17. CASE Rejected
  BY <1>5, <1>17 DEF Rejected, Finish
<1> QED BY <1>10, <1>11, <1>12, <1>13, <1>14, <1>15, <1>16, <1>17 DEF RunCallback

\* The call's effect, if it has one, is a step of Accounts.
LEMMA CallPromises ==
    ASSUME StoreOK(mem), deletions = 0, deletions' = deletions,
           NEW r, RequestOK(r), r.op # "get", KnowsCall(mem, r),
           mem' \in {mem, Written(mem, r)}
    PROVE  PromisedStep
<1>1. CASE mem' = mem
  <2>1. UNCHANGED <<deletions, Promised!vars>>
    BY <1>1 DEF Promised!vars, Session, Stored
  <2> QED BY <2>1 DEF PromisedStep
<1>2. CASE mem' = Written(mem, r)
  <2>1. \/ \E a \in Account :
             /\ a \notin AccountsIn(mem)
             /\ AccountsIn(mem') = AccountsIn(mem) \cup {a}
             /\ mem'[USER_LOGGEDIN_KEY] = mem[USER_LOGGEDIN_KEY]
        \/ \E a \in AccountsIn(mem) :
             /\ mem'[USER_LOGGEDIN_KEY] = a
             /\ AccountsIn(mem') = AccountsIn(mem)
        \/ /\ mem'[USER_LOGGEDIN_KEY] = Missing
           /\ AccountsIn(mem') = AccountsIn(mem)
    BY <1>2, CallPromised
  <2>2. AccountsIn(mem)' = AccountsIn(mem')
    BY DEF AccountsIn, Stored
  <2>3. AccountsIn(mem) \subseteq Account
    BY DEF AccountsIn
  <2>4. Promised!Next
    <3>1. CASE \E a \in Account :
                 /\ a \notin AccountsIn(mem)
                 /\ AccountsIn(mem') = AccountsIn(mem) \cup {a}
                 /\ mem'[USER_LOGGEDIN_KEY] = mem[USER_LOGGEDIN_KEY]
      <4>1. PICK a \in Account : Promised!Register(a)
        BY <2>2, <3>1 DEF Promised!Register, AccountsIn, Session
      <4> QED BY <4>1 DEF Promised!Next
    <3>2. CASE \E a \in AccountsIn(mem) :
                 /\ mem'[USER_LOGGEDIN_KEY] = a
                 /\ AccountsIn(mem') = AccountsIn(mem)
      <4>1. PICK a \in Account : Promised!LogIn(a)
        BY <2>2, <2>3, <3>2 DEF Promised!LogIn, AccountsIn, Session
      <4> QED BY <4>1 DEF Promised!Next
    <3>3. CASE /\ mem'[USER_LOGGEDIN_KEY] = Missing
               /\ AccountsIn(mem') = AccountsIn(mem)
      <4>1. Promised!LogOut
        BY <2>2, <3>3 DEF Promised!LogOut, AccountsIn, Session
      <4> QED BY <4>1 DEF Promised!Next
    <3> QED BY <2>1, <3>1, <3>2, <3>3
  <2> QED BY <2>4 DEF PromisedStep
<1> QED BY <1>1, <1>2

\* The store executes a call, fails it, or is deleted.
LEMMA StoreKeeps ==
    ASSUME TypeOK, CopiesInv, KnowsInv, StoreStep, ~filesFailed, ~filesFailed'
    PROVE  KnowsInv' /\ PromisedStep
<1> DEFINE r == Head(requests)
<1>0. deletions \in Nat /\ StoreOK(mem) /\ StoreOK(disk)
  BY StorageAssumption DEF TypeOK, StoresOK
<1>1. CASE DeleteDatabase \/ deletions # 0
  <2>1. deletions' = deletions \/ deletions' = deletions + 1
    BY StoreStepCases
  <2>2. DeleteDatabase => deletions' = deletions + 1
    BY DEF DeleteDatabase
  <2>3. deletions' # 0
    BY <1>0, <1>1, <2>1, <2>2
  <2> QED BY <2>3 DEF KnowsInv, PromisedStep
<1>2. CASE deletions = 0 /\ (Execute \/ Fail)
  <2>1. Held(mem, requests, replies) /\ StoresKnow(mem, disk)
    BY <1>2 DEF KnowsInv
  <2>2. /\ requests # <<>> /\ requests' = Tail(requests)
        /\ r.op = "get" => UNCHANGED <<mem, disk>>
        /\ \/ UNCHANGED <<mem, disk>>
           \/ /\ mem' = Written(mem, r)
              /\ \/ disk' \in {disk, Written(mem, r)}
                 \/ r.key \in LongKey /\ disk' = Written(disk, r)
        /\ deletions' = deletions
    BY <1>2, StoreTakes
  <2>3. PICK error \in BOOLEAN :
          /\ replies' = Append(replies, Answer(r, error))
          /\ error \/ mem' = Written(mem, r)
    BY <1>2, StoreTakes
  <2>4. RequestOK(r) /\ IsQueue(requests) /\ IsQueue(replies)
    BY <2>2, HeadTailRequestOK DEF TypeOK, QueuesOK, QueueOK, IsQueue
  <2>5. KnowsCall(mem, r)
    BY <2>1, <2>2, HeadKnows
  <2>6. CASE r.op = "get"
    <3>1. mem' = mem /\ disk' = disk
      BY <2>2, <2>6
    <3>2. KnowsAnswer(mem, Answer(r, error))
      <4>1. /\ r.call.at # "signup.add"
            /\ r.call.at \in FindsUsers =>
                 r.key = UserKey(r.call.isAdmin) /\ r.call.isAdmin \in BOOLEAN
        BY <2>4, <2>6 DEF RequestOK, GetItem, SetItem, RemoveItem, FindsUsers,
                          ReadsSession, SavesSession, HandlerCall
      <4>2. ASSUME error = FALSE
            PROVE  Answer(r, error).value = mem[r.key]
        BY <2>6, <4>2 DEF Answer
      <4>3. Answer(r, error).call = r.call /\ Answer(r, error).error = error
        BY DEF Answer
      <4>4. error = TRUE \/ error = FALSE
        OBVIOUS
      <4> QED BY <4>1, <4>2, <4>3, <4>4 DEF KnowsAnswer, Stored
    <3>3. Held(mem, requests', replies')
      BY <2>1, <2>2, <2>3, <2>4, <3>2, HeldAnswered
    <3>4. KnowsInv'
      BY <2>1, <3>1, <3>3, PrimedInv
    <3>5. UNCHANGED <<deletions, Promised!vars>>
      BY <2>2, <3>1 DEF Promised!vars, Session, Stored
    <3> QED BY <3>4, <3>5 DEF PromisedStep
  <2>7. CASE r.op # "get"
    <3>1. r.call.at \in {"signup.add", "logout"} \cup SavesSession /\ IsTap(r)
      BY <1>0, <2>4, <2>7, WrittenEffect DEF IsTap, TapHandlers, SavesSession
    <3>2. /\ StoresKnow(Written(mem, r), disk)
          /\ StoresKnow(Written(mem, r), Written(mem, r))
          /\ r.key \in LongKey => StoresKnow(Written(mem, r), Written(disk, r))
          /\ KnowsAnswer(Written(mem, r), Answer(r, FALSE))
      BY <1>0, <2>1, <2>4, <2>5, <2>7, CallKeeps
    <3>3. StoresKnow(mem', disk')
      BY <2>1, <2>2, <3>2
    <3>5. KnowsAnswer(mem', Answer(r, error))
      <4>1. CASE error = TRUE
        BY <4>1 DEF KnowsAnswer, Answer
      <4>2. CASE error = FALSE
        BY <2>3, <3>2, <4>2
      <4> QED BY <4>1, <4>2
    <3>6. Held(mem', requests', replies')
      BY <2>1, <2>2, <2>3, <2>4, <3>1, <3>5, HeldAnswered
    <3>7. KnowsInv'
      BY <3>3, <3>6, PrimedInv
    <3>8. PromisedStep
      BY <1>0, <1>2, <2>2, <2>4, <2>5, <2>7, CallPromises
    <3> QED BY <3>7, <3>8
  <2> QED BY <2>6, <2>7
<1> QED BY <1>1, <1>2 DEF StoreStep

\* The process dies, and the disk holds what the call under way has left there.
LEMMA CrashKeeps ==
    ASSUME TypeOK, CopiesInv, KnowsInv, Crash, ~filesFailed
    PROVE  KnowsInv' /\ (Faithful => PromisedStep)
<1> DEFINE r == Head(requests)
<1>0. StoreOK(mem) /\ StoreOK(disk)
  BY DEF TypeOK, StoresOK
<1>1. /\ mem' = disk' /\ UNCHANGED <<filesFailed, deletions>>
      /\ \/ disk' = disk
         \/ /\ requests # <<>> /\ disk' = Written(disk, r) /\ r.op # "get"
            /\ r.key \in LongKey \/ Platform = "android"
      /\ requests' = MountCalls("LOGIN") /\ replies' = <<>>
  BY CrashLeaves
<1>2. CASE deletions # 0
  BY <1>1, <1>2 DEF KnowsInv, PromisedStep
<1>3. CASE deletions = 0
  <2>1. Held(mem, requests, replies) /\ StoresKnow(mem, disk) /\ (Faithful => mem = disk)
    BY <1>3 DEF KnowsInv, CopiesInv
  <2>2. Held(mem', requests', replies')
    <3>1. MountCalls("LOGIN") = <<MountCalls("LOGIN")[1]>>
      BY DEF MountCalls
    <3>2. ~IsTap(MountCalls("LOGIN")[1])
      BY DEF MountCalls, GetItem, Handler, IsTap, TapHandlers
    <3>3. Quiet(MountCalls("LOGIN")) /\ Quiet(<<>>)
      BY <3>1, <3>2 DEF Quiet
    <3> QED BY <1>1, <3>3, QuietKnows DEF Held
  <2>3. CASE disk' = disk
    <3>1. StoresKnow(mem', disk')
      BY <1>1, <2>1, <2>3 DEF StoresKnow
    <3>2. KnowsInv'
      BY <1>1, <2>2, <3>1, PrimedInv
    <3>3. Faithful => UNCHANGED <<deletions, Promised!vars>>
      BY <1>1, <2>1, <2>3 DEF Promised!vars, Session, Stored
    <3> QED BY <3>2, <3>3 DEF PromisedStep
  <2>4. CASE disk' # disk
    <3>1. /\ requests # <<>> /\ disk' = Written(disk, r) /\ r.op # "get"
          /\ r.key \in LongKey \/ Platform = "android"
      BY <1>1, <2>4
    <3>2. RequestOK(r) /\ IsQueue(requests)
      BY <3>1, HeadTailRequestOK DEF TypeOK, QueuesOK, QueueOK, IsQueue
    <3>3. KnowsCall(mem, r)
      BY <2>1, <3>1, HeadKnows
    <3>5. StoresKnow(mem', disk')
      <4>1. CASE r.key \in LongKey
        <5>1. SessionIn(Written(disk, r))
          BY <1>0, <2>1, <3>1, <3>2, <3>3, <4>1, CallKeeps
        <5> QED BY <1>1, <3>1, <5>1 DEF StoresKnow
      <4>2. CASE Platform = "android"
        <5>1. mem = disk
          BY <2>1, <4>2 DEF Faithful
        <5>2. StoresKnow(Written(mem, r), Written(mem, r))
          BY <1>0, <2>1, <3>1, <3>2, <3>3, CallKeeps
        <5> QED BY <1>1, <3>1, <5>1, <5>2
      <4> QED BY <3>1, <4>1, <4>2
    <3>6. KnowsInv'
      BY <2>2, <3>5, PrimedInv
    <3>7. Faithful => PromisedStep
      <4>1. Faithful => mem' = Written(mem, r)
        BY <1>1, <2>1, <3>1
      <4> QED BY <1>0, <1>1, <1>3, <3>1, <3>2, <3>3, <4>1, CallPromises
    <3> QED BY <3>6, <3>7
  <2> QED BY <2>3, <2>4
<1> QED BY <1>2, <1>3

\* The navigators are mounted again, or their tree is closed and opened.
LEMMA RemountKeeps ==
    ASSUME TypeOK, ChangeColorScheme \/ CleanUpState \/ BackOutAndReturn
    PROVE  StillHeld
<1>1. QueueOK(requests, RequestOK) /\ QueueOK(replies, ReplyOK)
  BY DEF TypeOK, QueuesOK
<1>2. ASSUME NEW m, NEW a, Mount(m, a, requests, replies)
      PROVE  StillHeld
  BY <1>1, <1>2, MountKeeps
<1>3. CASE ChangeColorScheme
  BY <1>2, <1>3 DEF ChangeColorScheme
<1>4. CASE CleanUpState
  <2>1. CASE UNCHANGED storageVars
    BY <2>1 DEF storageVars, stores, failures, StillHeld
  <2> QED BY <1>2, <1>4, <2>1 DEF CleanUpState
<1>5. CASE BackOutAndReturn
  <2>1. /\ UNCHANGED <<mem, disk, filesFailed, deletions>>
        /\ requests' = Disowned(requests, "closed") \o MountCalls("LOGIN")
        /\ replies' = Disowned(replies, "closed")
    BY <1>5 DEF BackOutAndReturn, ActivityDestroyed, stores, failures
  <2>2. IsQueue(Disowned(requests, "closed"))
    BY <1>1, QueueDisowned DEF QueueOK, IsQueue
  <2>3. ASSUME NEW store, Held(store, requests, replies)
        PROVE  Held(store, requests', replies')
    BY <1>1, <2>1, <2>2, <2>3, HeldDisowned, HeldMountCalls
  <2> QED BY <2>1, <2>3 DEF StillHeld
<1> QED BY <1>3, <1>4, <1>5

-----------------------------------------------------------------------------
(* What the user who waits is promised.                                    *)

LEMMA InitKnows == Init => KnowsInv /\ Promised!Init
<1> SUFFICES ASSUME Init PROVE KnowsInv /\ Promised!Init
  OBVIOUS
<1>1. /\ mem = NothingStored /\ disk = NothingStored
      /\ requests = MountCalls("LOGIN") /\ replies = <<>>
  BY DEF Init, StorageInit
<1>2. Held(mem, requests, replies)
  <2>1. MountCalls("LOGIN") = <<MountCalls("LOGIN")[1]>>
    BY DEF MountCalls
  <2>2. ~IsTap(MountCalls("LOGIN")[1])
    BY DEF MountCalls, GetItem, Handler, IsTap, TapHandlers
  <2>3. Quiet(MountCalls("LOGIN")) /\ Quiet(<<>>)
    BY <2>1, <2>2 DEF Quiet
  <2> QED BY <1>1, <2>3, QuietKnows DEF Held
<1>4. /\ mem[USER_LOGGEDIN_KEY] = Missing
      /\ \A b \in BOOLEAN : Stored(mem, b) = <<>>
  BY <1>1, KeyFacts DEF NothingStored, Stored, Users
<1>5. StoresKnow(mem, disk)
  BY <1>1, <1>4 DEF StoresKnow, SessionIn
<1>6. AccountsIn(mem) = {}
  <2>1. \A e : ~Contains(<<>>, e)
    BY DEF Contains
  <2> QED BY <1>4, <2>1 DEF AccountsIn, Account
<1>7. Promised!Init
  BY <1>4, <1>6 DEF Promised!Init, AccountsIn, Session
<1> QED BY <1>2, <1>5, <1>7 DEF KnowsInv

LEMMA InitCopies == Init => CopiesInv
<1> SUFFICES ASSUME Init PROVE CopiesInv
  OBVIOUS
<1>1. /\ mem = NothingStored /\ disk = NothingStored /\ staged = NothingStored
      /\ filesFailed = FALSE /\ deletions = 0
  BY DEF Init, StorageInit
<1>2. IsStore(NothingStored)
  BY DEF IsStore, NothingStored
<1> QED BY <1>1, <1>2, Zenon DEF CopiesInv

LEMMA StepKeeps ==
    ASSUME TypeOK, TypeOK', CopiesInv, KnowsInv, MaxTaps = 1, [Next]_vars
    PROVE  KnowsInv' /\ (Faithful => PromisedStep)
<1>1. CASE filesFailed'
  <2>1. ~Faithful
    BY <1>1, CopiesKept DEF CopiesInv, Faithful
  <2> QED BY <1>1, <2>1 DEF KnowsInv
<1>2. CASE ~filesFailed'
  <2>1. ~filesFailed
    BY <1>2, FilesFailForGood
  <2>2. CASE UNCHANGED vars
    BY <2>2, QueuesKeep DEF vars, storageVars, stores, failures, StillHeld
  <2>3. CASE Handling
    BY <2>3, UserKeeps, CallbackKeeps, RemountKeeps, QueuesKeep DEF Handling
  <2>4. ~EmptyCache
    BY <2>1, EmptyCacheCases DEF CopiesInv
  <2> QED BY <1>2, <2>1, <2>2, <2>3, <2>4, StoreKeeps, CrashKeeps DEF Next, Handling
<1> QED BY <1>1, <1>2

\* SessionRegistered (a session, in memory or on disk, belongs to an account stored
\* beside it) for a user who waits for one tap before the next, until Android deletes
\* a database: wherever the process dies, and whatever fails but the file of a list.
\* On iOS that file failing does break it, so nothing more can be promised.
THEOREM SessionsAreRegistered ==
    ASSUME MaxTaps = 1
    PROVE  Spec => [](deletions = 0 => SessionRegistered)
<1>1. Init => CopiesInv /\ KnowsInv
  BY InitCopies, InitKnows
<1>2. TypeOK /\ TypeOK' /\ CopiesInv /\ KnowsInv /\ [Next]_vars => CopiesInv' /\ KnowsInv'
  BY CopiesKept, StepKeeps
<1>3. KnowsInv => (deletions = 0 => SessionRegistered)
  BY DEF KnowsInv, StoresKnow, SessionIn, SessionRegistered
<1> QED BY <1>1, <1>2, <1>3, TypeCorrect, PTL DEF Spec

\* AuthSession implements Accounts (no account is lost or added twice, and a session
\* belongs to an account that exists) for a user who waits for one tap before the
\* next, where nothing sets memory and disk apart: a failed write on iOS does, and
\* the next launch has lost what the user was told was added.
THEOREM AccountsImplemented ==
    ASSUME MaxTaps = 1, Platform = "android" \/ MaxFaults = 0
    PROVE  Spec => PromisedSpec
<1>0. Faithful
  BY DEF Faithful
<1>1. Init => CopiesInv /\ KnowsInv /\ Promised!Init
  BY InitCopies, InitKnows
<1>2. TypeOK /\ TypeOK' /\ CopiesInv /\ KnowsInv /\ [Next]_vars
        => CopiesInv' /\ KnowsInv' /\ PromisedStep
  BY <1>0, CopiesKept, StepKeeps
<1> QED BY <1>1, <1>2, TypeCorrect, PTL DEF Spec, PromisedSpec, PromisedStep

-----------------------------------------------------------------------------
(* What is removed, and what Android's deletion takes.                     *)

\* The answers a step adds: a removal that is said to have succeeded has.
RemovalsLast ==
    \A i \in DOMAIN replies' \ DOMAIN replies :
        replies'[i].call.at = "logout" /\ ~replies'[i].error =>
            disk'[USER_LOGGEDIN_KEY] = Missing

LEMMA RemovalsStep ==
    ASSUME TypeOK, CopiesInv, CopiesInv', Faithful, [Next]_vars
    PROVE  RemovalsLast
<1>1. CASE DOMAIN replies' \subseteq DOMAIN replies
  BY <1>1 DEF RemovalsLast
<1>2. CASE Execute \/ Fail
  <2> DEFINE r == Head(requests)
  <2>1. /\ requests # <<>>
        /\ \E error \in BOOLEAN :
             /\ replies' = Append(replies, Answer(r, error))
             /\ error \/ mem' = Written(mem, r)
        /\ mem' = disk'
    <3>1. ~filesFailed /\ ~filesFailed'
      BY DEF CopiesInv, Faithful
    <3> QED BY <1>2, <3>1, StoreChanges
  <2>2. PICK error \in BOOLEAN :
          /\ replies' = Append(replies, Answer(r, error))
          /\ error \/ mem' = Written(mem, r)
    BY <2>1
  <2>3. RequestOK(r) /\ StoreOK(mem) /\ IsQueue(replies)
    BY <2>1, HeadTailRequestOK DEF TypeOK, StoresOK, QueuesOK, QueueOK, IsQueue
  <2> HIDE DEF r
  <2>4. /\ Len(replies) \in Nat /\ DOMAIN replies = 1..Len(replies)
        /\ DOMAIN replies' = 1..(Len(replies) + 1)
        /\ replies'[Len(replies) + 1] = Answer(r, error)
    BY <2>2, <2>3, QueuePush
  <2>5. Answer(r, error).call = r.call /\ Answer(r, error).error = error
    BY DEF Answer
  <2>6. ASSUME r.call.at = "logout", error = FALSE
        PROVE  disk'[USER_LOGGEDIN_KEY] = Missing
    <3>1. r.op # "get"
      BY <2>3, <2>6 DEF RequestOK, GetItem, SetItem, RemoveItem, ReadsSession, FindsUsers
    <3>2. Written(mem, r)[USER_LOGGEDIN_KEY] = Missing
      BY <2>3, <2>6, <3>1, WrittenEffect DEF SavesSession
    <3> QED BY <2>1, <2>2, <2>6, <3>2
  <2>7. ASSUME NEW i \in DOMAIN replies' \ DOMAIN replies
        PROVE  i = Len(replies) + 1
    BY <2>4
  <2>8. error = TRUE \/ error = FALSE
    OBVIOUS
  <2> QED BY <2>4, <2>5, <2>6, <2>7, <2>8 DEF RemovalsLast
<1>3. CASE DeleteDatabase \/ EmptyCache \/ UNCHANGED vars
  BY <1>1, <1>3, EmptyCacheCases DEF DeleteDatabase, vars, storageVars
<1>4. CASE Crash
  BY <1>4 DEF Crash, Restart, RemovalsLast
<1> QED BY <1>1, <1>2, <1>3, <1>4, HandlersAnswerNothing DEF Next, StoreStep, Handling

\* Every account listed in one store is listed in the other.
ListsWithin(store, other) ==
    \A isAdmin \in BOOLEAN :
        ToSet(Stored(store, isAdmin)) \subseteq ToSet(Stored(other, isAdmin))

\* What the tap under way knows of is a store that lists at least what memory does:
\* memory itself, until Android deletes the database under it.
BuiltOn(store) ==
    Held(store, requests, replies) /\ StoreOK(store) /\ ListsWithin(mem, store)

BuiltInv == ~filesFailed => ListsWithin(disk, mem) /\ \E store : BuiltOn(store)

LEMMA BuiltPrimed ==
    ASSUME NEW store, Held(store, requests', replies'), StoreOK(store),
           ListsWithin(mem', store), ListsWithin(disk', mem')
    PROVE  BuiltInv'
BY DEF BuiltInv, BuiltOn, Held, OneTap, Quiet, IsTap, KnowsCall, KnowsAnswer,
       ListsWithin, Stored, StoreOK

\* What is written of a list has everything the list has.
LEMMA ListsGrow ==
    ASSUME NEW store, StoreOK(store), NEW more, StoreOK(more), ListsWithin(more, store),
           NEW fewer, StoreOK(fewer), ListsWithin(fewer, more),
           NEW r, RequestOK(r), r.op # "get", KnowsCall(store, r)
    PROVE  /\ ListsWithin(fewer, Written(fewer, r))
           /\ ListsWithin(fewer, Written(more, r))
           /\ ListsWithin(Written(fewer, r), Written(more, r))
<1> DEFINE f == Written(fewer, r)
           m == Written(more, r)
<1>1. CASE r.call.at = "signup.add"
  <2>1. /\ r.call.isAdmin \in BOOLEAN /\ r.call.email \in Email
        /\ \A b \in BOOLEAN :
             /\ Stored(f, b) = IF b = r.call.isAdmin THEN r.value ELSE Stored(fewer, b)
             /\ Stored(m, b) = IF b = r.call.isAdmin THEN r.value ELSE Stored(more, b)
    BY <1>1, WrittenEffect DEF SavesSession
  <2>2. r.value = <<r.call.email>> \o Stored(store, r.call.isAdmin)
    BY <1>1 DEF KnowsCall
  <2>3. Stored(store, r.call.isAdmin) \in Seq(Email)
    BY <2>1 DEF StoreOK
  <2>4. ToSet(Stored(store, r.call.isAdmin)) \subseteq ToSet(r.value)
    BY <2>1, <2>2, <2>3, ContainsIs
  <2> HIDE DEF f, m
  <2>5. ListsWithin(fewer, f) /\ ListsWithin(fewer, m) /\ ListsWithin(f, m)
    BY <2>1, <2>4 DEF ListsWithin
  <2> QED BY <2>5 DEF f, m
<1>2. CASE r.call.at # "signup.add"
  <2>1. \A b \in BOOLEAN : Stored(f, b) = Stored(fewer, b) /\ Stored(m, b) = Stored(more, b)
    BY <1>2, WrittenEffect
  <2> HIDE DEF f, m
  <2>2. ListsWithin(fewer, f) /\ ListsWithin(fewer, m) /\ ListsWithin(f, m)
    BY <2>1 DEF ListsWithin
  <2> QED BY <2>2 DEF f, m
<1> QED BY <1>1, <1>2

\* A tap that is answered knows of what is stored by then.
LEMMA AnsweredKnows ==
    ASSUME StoreOK(mem), NEW store, StoreOK(store), NEW r, RequestOK(r),
           KnowsCall(store, r), NEW error \in BOOLEAN,
           NEW after, error \/ after = Written(mem, r)
    PROVE  KnowsAnswer(after, Answer(r, error))
<1>1. Answer(r, error).call = r.call /\ Answer(r, error).error = error
  BY DEF Answer
<1>2. CASE error = TRUE
  BY <1>1, <1>2 DEF KnowsAnswer
<1>3. CASE error = FALSE
  <2>1. after = Written(mem, r)
    BY <1>3
  <2>2. CASE r.call.at \in FindsUsers
    <3>1. r.op = "get" /\ r.key = UserKey(r.call.isAdmin)
      BY <2>2 DEF RequestOK, GetItem, SetItem, RemoveItem, ReadsSession, FindsUsers,
                  SavesSession
    <3>2. after = mem /\ Answer(r, error).value = mem[r.key]
      BY <1>3, <2>1, <3>1 DEF Answer, Written
    <3> QED BY <1>1, <2>2, <3>1, <3>2 DEF KnowsAnswer, Stored, FindsUsers
  <2>3. CASE r.call.at = "signup.add"
    <3>1. r.op # "get"
      BY <2>3 DEF RequestOK, GetItem, SetItem, RemoveItem, ReadsSession, FindsUsers,
                  SavesSession
    <3>2. /\ r.call.isAdmin \in BOOLEAN /\ r.call.email \in Email
          /\ r.value \in Seq(Email) /\ Stored(after, r.call.isAdmin) = r.value
      BY <2>1, <2>3, <3>1, WrittenEffect DEF SavesSession
    <3>3. r.value = <<r.call.email>> \o Stored(store, r.call.isAdmin)
      BY <2>3 DEF KnowsCall
    <3>4. Stored(store, r.call.isAdmin) \in Seq(Email)
      BY <3>2 DEF StoreOK
    <3>5. r.call.email \in ToSet(r.value)
      <4> DEFINE list == Stored(store, r.call.isAdmin)
      <4>1. list \in Seq(Email) /\ r.value = <<r.call.email>> \o list
        BY <3>3, <3>4
      <4> HIDE DEF list
      <4>2. ToSet(<<r.call.email>> \o list) = {r.call.email} \cup ToSet(list)
        BY <3>2, <4>1, ContainsIs
      <4> QED BY <4>1, <4>2
    <3>6. Contains(r.value, r.call.email)
      BY <3>2, <3>5, ContainsIs
    <3> QED BY <1>1, <2>3, <3>2, <3>6 DEF KnowsAnswer, FindsUsers
  <2> QED BY <1>1, <2>2, <2>3 DEF KnowsAnswer
<1> QED BY <1>2, <1>3

\* The disk loses no account, or everything.
LosesAll == ListsWithin(disk, disk') \/ disk' = NothingStored

LEMMA NothingWithin ==
    ASSUME NEW store
    PROVE  ListsWithin(NothingStored, store)
<1>1. \A b \in BOOLEAN : Stored(NothingStored, b) = <<>>
  BY KeyFacts DEF NothingStored, Stored, Users
<1>2. ToSet(<<>>) = {}
  BY DEF ToSet
<1> QED BY <1>1, <1>2 DEF ListsWithin

LEMMA StoreBuilds ==
    ASSUME TypeOK, TypeOK', CopiesInv, KnowsInv, BuiltInv, StoreStep,
           ~filesFailed, ~filesFailed'
    PROVE  BuiltInv' /\ LosesAll
<1>0. StoreOK(mem) /\ StoreOK(mem') /\ StoreOK(disk) /\ ListsWithin(disk, mem)
  BY DEF TypeOK, StoresOK, StoreOK, Stored, BuiltInv
<1>1. PICK store : BuiltOn(store)
  BY DEF BuiltInv
<1>2. Held(store, requests, replies) /\ StoreOK(store) /\ ListsWithin(mem, store)
  BY <1>1 DEF BuiltOn
<1>3. CASE DeleteDatabase
  <2>1. /\ mem' = NothingStored /\ disk' = NothingStored
        /\ requests' = requests /\ replies' = replies
    BY <1>3 DEF DeleteDatabase
  <2>2. /\ ListsWithin(mem', store) /\ ListsWithin(disk', mem')
        /\ Held(store, requests', replies')
    BY <1>2, <2>1, NothingWithin
  <2> QED BY <1>2, <2>1, <2>2, BuiltPrimed DEF LosesAll
<1>4. CASE Execute \/ Fail
  <2> DEFINE r == Head(requests)
  <2>1. /\ requests # <<>> /\ requests' = Tail(requests)
        /\ \E error \in BOOLEAN :
             /\ replies' = Append(replies, Answer(r, error))
             /\ error \/ mem' = Written(mem, r)
        /\ r.op = "get" => UNCHANGED <<mem, disk>>
        /\ \/ UNCHANGED <<mem, disk>>
           \/ /\ mem' = Written(mem, r)
              /\ disk' \in {disk, Written(mem, r), Written(disk, r)}
    BY <1>4, StoreTakes
  <2>2. PICK error \in BOOLEAN :
          /\ replies' = Append(replies, Answer(r, error))
          /\ error \/ mem' = Written(mem, r)
    BY <2>1
  <2>3. RequestOK(r) /\ IsQueue(requests) /\ IsQueue(replies)
    BY <2>1, HeadTailRequestOK DEF TypeOK, QueuesOK, QueueOK, IsQueue
  <2>4. KnowsCall(store, r)
    BY <1>2, <2>1, HeadKnows
  <2>5. ListsWithin(disk', mem') /\ ListsWithin(disk, disk')
    <3>1. CASE UNCHANGED <<mem, disk>>
      BY <1>0, <3>1 DEF ListsWithin
    <3>2. CASE ~UNCHANGED <<mem, disk>>
      <4>1. r.op # "get" /\ mem' = Written(mem, r)
            /\ disk' \in {disk, Written(mem, r), Written(disk, r)}
        BY <2>1, <3>2
      <4>2. /\ ListsWithin(disk, Written(disk, r)) /\ ListsWithin(disk, Written(mem, r))
            /\ ListsWithin(Written(disk, r), Written(mem, r))
        BY <1>0, <1>2, <2>3, <2>4, <4>1, ListsGrow
      <4>3. ListsWithin(Written(mem, r), Written(mem, r)) /\ ListsWithin(disk, disk)
        BY DEF ListsWithin
      <4> QED BY <4>1, <4>2, <4>3
    <3> QED BY <3>1, <3>2
  <2>6. LosesAll
    BY <2>5 DEF LosesAll
  <2>7. CASE IsTap(r)
    <3>1. KnowsAnswer(mem', Answer(r, error))
      BY <1>0, <1>2, <2>2, <2>3, <2>4, AnsweredKnows
    <3>2. Held(mem', requests', replies')
      BY <1>2, <2>1, <2>2, <2>3, <2>7, <3>1, HeldAnswered
    <3>3. ListsWithin(mem', mem')
      BY DEF ListsWithin
    <3> QED BY <1>0, <2>5, <2>6, <3>2, <3>3, BuiltPrimed
  <2>8. CASE ~IsTap(r)
    <3>1. r.op = "get" /\ r.call.at \in ReadsSession
      BY <2>3, <2>8 DEF RequestOK, GetItem, IsTap, TapHandlers, FindsUsers, SavesSession
    <3>2. KnowsAnswer(store, Answer(r, error))
      BY <3>1 DEF KnowsAnswer, Answer, ReadsSession, FindsUsers
    <3>3. Held(store, requests', replies')
      BY <1>2, <2>1, <2>2, <2>3, <3>2, HeldAnswered
    <3> QED BY <1>2, <2>1, <2>5, <2>6, <3>1, <3>3, BuiltPrimed
  <2> QED BY <2>7, <2>8
<1> QED BY <1>3, <1>4 DEF StoreStep

LEMMA CrashBuilds ==
    ASSUME TypeOK, TypeOK', CopiesInv, KnowsInv, BuiltInv, Crash, ~filesFailed
    PROVE  BuiltInv' /\ LosesAll
<1> DEFINE r == Head(requests)
<1>0. StoreOK(mem) /\ StoreOK(mem') /\ StoreOK(disk) /\ ListsWithin(disk, mem)
  BY DEF TypeOK, StoresOK, StoreOK, Stored, BuiltInv
<1>1. /\ mem' = disk'
      /\ \/ disk' = disk
         \/ /\ requests # <<>> /\ disk' = Written(disk, r)
            /\ r.op # "get"
      /\ requests' = MountCalls("LOGIN") /\ replies' = <<>>
  BY CrashLeaves
<1>2. BuiltInv'
  <2>1. MountCalls("LOGIN") = <<MountCalls("LOGIN")[1]>>
    BY DEF MountCalls
  <2>2. ~IsTap(MountCalls("LOGIN")[1])
    BY DEF MountCalls, GetItem, Handler, IsTap, TapHandlers
  <2>3. Quiet(MountCalls("LOGIN")) /\ Quiet(<<>>)
    BY <2>1, <2>2 DEF Quiet
  <2>4. Held(mem', requests', replies')
    BY <1>1, <2>3, QuietKnows DEF Held
  <2>5. ListsWithin(mem', mem') /\ ListsWithin(disk', mem')
    BY <1>1 DEF ListsWithin
  <2> QED BY <1>0, <2>4, <2>5, BuiltPrimed
<1>3. CASE disk' = disk
  BY <1>2, <1>3 DEF LosesAll, ListsWithin
<1>4. CASE disk' # disk
  <2>1. PICK store : BuiltOn(store)
    BY DEF BuiltInv
  <2>2. Held(store, requests, replies) /\ StoreOK(store) /\ ListsWithin(mem, store)
    BY <2>1 DEF BuiltOn
  <2>3. requests # <<>> /\ disk' = Written(disk, r) /\ r.op # "get"
    BY <1>1, <1>4
  <2>4. RequestOK(r) /\ IsQueue(requests)
    BY <2>3, HeadTailRequestOK DEF TypeOK, QueuesOK, QueueOK, IsQueue
  <2>5. KnowsCall(store, r)
    BY <2>2, <2>3, HeadKnows
  <2>6. ListsWithin(disk, Written(disk, r))
    BY <1>0, <2>2, <2>3, <2>4, <2>5, ListsGrow
  <2> QED BY <1>2, <2>3, <2>6 DEF LosesAll
<1> QED BY <1>2, <1>3, <1>4

LEMMA BuiltStep ==
    ASSUME TypeOK, TypeOK', CopiesInv, KnowsInv, BuiltInv, MaxTaps = 1, [Next]_vars
    PROVE  BuiltInv' /\ (~filesFailed' => LosesAll)
<1>1. CASE filesFailed'
  BY <1>1 DEF BuiltInv
<1>2. CASE ~filesFailed'
  <2>0. ~filesFailed
    BY <1>2, FilesFailForGood
  <2>1. ASSUME StillHeld
        PROVE  BuiltInv' /\ LosesAll
    <3>1. PICK store : BuiltOn(store)
      BY <2>0 DEF BuiltInv
    <3>2. /\ Held(store, requests', replies') /\ StoreOK(store)
          /\ ListsWithin(mem', store) /\ ListsWithin(disk', mem')
      BY <2>0, <2>1, <3>1 DEF BuiltInv, BuiltOn, StillHeld
    <3>3. LosesAll
      BY <2>1 DEF LosesAll, ListsWithin, StillHeld
    <3> QED BY <3>2, <3>3, BuiltPrimed
  <2>2. CASE UNCHANGED vars
    BY <2>1, <2>2 DEF vars, storageVars, stores, failures, StillHeld
  <2>3. CASE Handling
    BY <2>1, <2>3, UserKeeps, CallbackKeeps, RemountKeeps DEF Handling
  <2>4. ~EmptyCache
    BY <2>0, EmptyCacheCases DEF CopiesInv
  <2> QED BY <1>2, <2>0, <2>2, <2>3, <2>4, StoreBuilds, CrashBuilds DEF Next, Handling
<1> QED BY <1>1, <1>2

LEMMA InitBuilt == Init => BuiltInv
<1> SUFFICES ASSUME Init PROVE BuiltInv
  OBVIOUS
<1>1. mem = NothingStored /\ disk = NothingStored
  BY DEF Init, StorageInit
<1>2. Held(mem, requests, replies)
  <2>1. KnowsInv /\ deletions = 0 /\ filesFailed = FALSE
    BY InitKnows DEF Init, StorageInit
  <2> QED BY <2>1, Zenon DEF KnowsInv
<1>3. BuiltOn(mem)
  BY <1>1, <1>2, NothingStoredOK DEF BuiltOn, ListsWithin
<1>4. ListsWithin(disk, mem)
  BY <1>1, NothingWithin
<1> QED BY <1>3, <1>4 DEF BuiltInv

\* RemovedForGood (a logout that has succeeded is not undone by a restart) for any
\* number of taps and deletions, where no write of the manifest can fail: on iOS one
\* that fails refutes it.
THEOREM RemovalsAreFinal ==
    ASSUME Platform = "android" \/ MaxFaults = 0
    PROVE  Spec => RemovedForGood
<1>0. Faithful
  BY DEF Faithful
<1>1. TypeOK /\ TypeOK' /\ CopiesInv /\ [Next]_vars => CopiesInv' /\ RemovalsLast
  BY <1>0, CopiesKept, RemovalsStep
<1> QED BY <1>1, InitCopies, TypeCorrect, PTL DEF Spec, RemovedForGood, RemovalsLast

\* LostTogether (accounts are lost all at once, with the session, or not at all) for a
\* user who waits for one tap before the next, wherever the process dies, however many
\* databases Android deletes with a handler under way, and whatever fails but the file
\* of a list on iOS, which may lose that list alone.
THEOREM LossesAreTotal ==
    ASSUME MaxTaps = 1
    PROVE  Spec => LostTogether
<1> DEFINE Loses ==
      ~filesFailed' /\
      (\E isAdmin \in BOOLEAN :
          ~(ToSet(Stored(disk, isAdmin)) \subseteq ToSet(Stored(disk, isAdmin)')))
      => disk' = NothingStored
<1>1. Init => CopiesInv /\ KnowsInv /\ BuiltInv
  BY InitCopies, InitKnows, InitBuilt
<1>2. TypeOK /\ TypeOK' /\ CopiesInv /\ KnowsInv /\ BuiltInv /\ [Next]_vars =>
        CopiesInv' /\ KnowsInv' /\ BuiltInv' /\ (~filesFailed' => LosesAll)
  BY CopiesKept, StepKeeps, BuiltStep
<1>3. (~filesFailed' => LosesAll) => Loses
  BY DEF LosesAll, ListsWithin, Stored
<1> QED BY <1>1, <1>2, <1>3, TypeCorrect, PTL DEF Spec, LostTogether

=============================================================================
