--------------------------- MODULE AuthScreensProofs ---------------------------
(***************************************************************************)
(* Proofs that AuthSession's screens agree with the session, and that a    *)
(* logout never reaches a form, for any number of taps, remounts and       *)
(* restarts.                                                               *)
(*                                                                         *)
(* What decides is the order of the queue: a screen's own read comes after *)
(* every call made before the screen was shown.                            *)
(***************************************************************************)
EXTENDS AuthAccountsProofs

-----------------------------------------------------------------------------
(* What a step does to the screen and to the queues.                       *)

\* The given screen is mounted, with these calls and callbacks left.
Shown(screen, calls, others) ==
    /\ Screen' = screen /\ isLoading' = TRUE /\ userInfo' = Missing
    /\ requests' = Disowned(calls, "unmounted") \o MountCalls(screen)
    /\ replies' = Disowned(others, "unmounted")
    /\ UNCHANGED <<mem, disk, faults>>

\* The tree is closed and another one shows Login.
Reopened ==
    /\ Platform = "android"
    /\ Screen' = "LOGIN" /\ isLoading' = TRUE /\ userInfo' = Missing
    /\ requests' = Disowned(requests, "closed") \o MountCalls("LOGIN")
    /\ replies' = Disowned(replies, "closed")
    /\ UNCHANGED <<mem, disk, faults>>

Relaunched ==
    /\ Screen' = "LOGIN" /\ isLoading' = TRUE /\ userInfo' = Missing
    /\ requests' = MountCalls("LOGIN") /\ replies' = <<>>
    /\ mem' = disk' /\ UNCHANGED faults

SameScreen == Screen' = Screen /\ isLoading' = isLoading /\ userInfo' = userInfo

\* The user types, or taps.
Tapped ==
    /\ SameScreen /\ UNCHANGED <<mem, disk, faults, replies>>
    /\ \/ requests' = requests
       \/ \E r : /\ requests' = Append(requests, r)
                 /\ r.call.screen = "mounted"
                 /\ \/ r.call.at \in FindsUsers
                    \/ r.call.at = "logout" /\ Screen = "HOME"

\* A callback mounts no screen.
Continued ==
    /\ Screen' = Screen /\ UNCHANGED <<mem, disk, faults>>
    /\ replies' = OtherReplies
    /\ \/ requests' = requests
       \/ \E r : /\ requests' = Append(requests, r)
                 /\ r.call.screen = Call.screen
                 /\ r.call.at \in SavesSession \cup {"signup.add"}
    /\ \/ isLoading' = isLoading
       \/ /\ Call.at = "isUserLoggedIn" /\ Call.screen = "mounted"
          /\ ~Reply.error /\ Reply.value = Missing
    /\ \/ userInfo' = userInfo
       \/ Call.at = "getUserInfo" /\ userInfo' = Reply.value
    /\ Call.at = "getUserInfo" /\ Call.screen = "mounted" /\ ~Reply.error =>
         userInfo' = Reply.value
    /\ ~Reply.error /\ Call.screen # "closed" =>
         Call.at \notin SavesSession \cup {"logout"}

LEMMA MountShows ==
    ASSUME NEW m, NEW a, NEW calls, NEW others, Mount(m, a, calls, others)
    PROVE  Shown(Focused(m, a), calls, others)
BY DEF Mount, FreshScreen, Answered, stores, failures, Shown, Screen

LEMMA OnlyRouteKnown ==
    ASSUME NEW names, NEW state, NavigatorOK(state, names), OneRoute(state)
    PROVE  FocusedRoute(state).name \in names
<1>1. /\ state = [index |-> 0, routes |-> state.routes]
      /\ state.routes \in Seq([key : {InitialKey, NewKey}, name : names])
      /\ Len(state.routes) = 1
  BY DEF NavigatorOK, Rehydrated, OneRoute
<1>2. state.routes[1] \in [key : {InitialKey, NewKey}, name : names]
  <2> DEFINE R == [key : {InitialKey, NewKey}, name : names]
  <2>1. state.routes \in Seq(R) /\ 1 \in 1..Len(state.routes)
    BY <1>1
  <2> HIDE DEF R
  <2>2. state.routes[1] \in R
    BY <2>1, ElementOfSeq
  <2> QED BY <2>2 DEF R
<1>3. state.index + 1 = 1
  BY <1>1
<1> QED BY <1>2, <1>3 DEF FocusedRoute

LEMMA MainFocus ==
    ASSUME TypeOK, OneScreen
    PROVE  /\ FocusedRoute(main).name \in MainRoute
           /\ Screen \in {"LOGIN", "SIGNUP"} <=> FocusedRoute(main).name = "AUTH"
           /\ Screen = "HOME" <=> FocusedRoute(main).name = "HOME"
<1>1. FocusedRoute(main).name \in MainRoute
  BY OnlyRouteKnown DEF TypeOK, ScreensOK, OneScreen, OneRoute
<1>2. FocusedRoute(auth).name \in AuthRoute
  BY OnlyRouteKnown DEF TypeOK, ScreensOK, OneScreen, OneRoute
<1> QED BY <1>1, <1>2 DEF OneScreen, Screen, Focused, MainRoute, AuthRoute

LEMMA InitialFocus ==
    /\ Focused(MainInitial, AuthInitial) = "LOGIN"
    /\ FocusedRoute(AuthInitial).name = "LOGIN"
BY DEF Focused, FocusedRoute, MainInitial, AuthInitial, InitialState

LEMMA ReplaceFromAuthShows ==
    ASSUME TypeOK, OneScreen, NEW name \in AuthRoute \cup {"HOME"},
           name \in AuthRoute => Screen \in {"LOGIN", "SIGNUP"},
           NEW calls, NEW others, ReplaceFromAuth(name, calls, others)
    PROVE  Shown(name, calls, others)
<1> DEFINE inner == Replace(auth, AuthRoute, auth.index, name, NewKey)
           outer == Replace(main, MainRoute, main.index, name, NewKey)
<1>1. /\ NavigatorOK(main, MainRoute) /\ OneRoute(main)
      /\ NavigatorOK(auth, AuthRoute) /\ OneRoute(auth)
  BY DEF TypeOK, ScreensOK, OneScreen, OneRoute
<1>2. CASE name \in AuthRoute
  <2>1. FocusedRoute(inner).name = name /\ inner # NoState
    BY <1>1, <1>2, ReplaceOnly
  <2>2. Mount(main, inner, calls, others)
    BY <2>1 DEF ReplaceFromAuth
  <2>3. Focused(main, inner) = name
    BY <1>2, <2>1, MainFocus DEF Focused
  <2> HIDE DEF inner
  <2> QED BY <2>2, <2>3, MountShows
<1>3. CASE name = "HOME"
  <2>0. name \notin AuthRoute /\ name \in MainRoute
    BY <1>3 DEF AuthRoute, MainRoute
  <2>1. inner = NoState
    BY <1>1, <2>0, ReplaceOK
  <2>2. FocusedRoute(outer).name = name
    BY <1>1, <2>0, ReplaceOnly
  <2>3. Mount(outer, AuthInitial, calls, others)
    BY <2>1 DEF ReplaceFromAuth
  <2>4. Focused(outer, AuthInitial) = name
    BY <1>3, <2>2 DEF Focused
  <2> HIDE DEF outer
  <2> QED BY <2>3, <2>4, MountShows
<1> QED BY <1>2, <1>3

LEMMA CallbackShows ==
    ASSUME TypeOK, OneScreen, RunCallback
    PROVE  /\ replies # <<>>
           /\ \/ /\ ~Reply.error /\ Call.screen # "closed"
                 /\ \/ Call.at = "isUserLoggedIn" /\ Reply.value # Missing
                    \/ Call.at \in SavesSession
                 /\ Shown("HOME", requests, OtherReplies)
              \/ /\ ~Reply.error /\ Call.screen # "closed" /\ Call.at = "logout"
                 /\ Shown("LOGIN", requests, OtherReplies)
              \/ Continued
<1>1. replies # <<>>
  BY DEF RunCallback, IsUserLoggedIn, LoginFound, SignupFound, SignupAdded,
         SessionSaved, GetUserInfo, LoggedOut, Rejected, Awaited
<1>2. Call \in HandlerCall
  BY <1>1, HeadTailReplyOK DEF TypeOK, QueuesOK, ReplyOK, Call, Reply
<1>3. ASSUME UNCHANGED <<main, auth>> PROVE Screen' = Screen
  BY <1>3 DEF Screen
<1>4. ASSUME Finish, \/ isLoading' = isLoading
                     \/ /\ Call.at = "isUserLoggedIn" /\ Call.screen = "mounted"
                        /\ ~Reply.error /\ Reply.value = Missing,
             Reply.error \/ Call.screen = "closed"
               \/ Call.at \notin SavesSession \cup {"logout", "getUserInfo"}
      PROVE  Continued
  BY <1>3, <1>4 DEF Finish, Answered, stores, failures, navVars, Continued
<1>5. ASSUME GoHome PROVE \/ Call.screen = "closed" /\ Finish /\ isLoading' = isLoading
                          \/ Call.screen # "closed" /\ Shown("HOME", requests, OtherReplies)
  BY <1>5, ReplaceFromAuthShows DEF GoHome, AuthRoute
<1>6. CASE IsUserLoggedIn
  <2>1. Call.at = "isUserLoggedIn" /\ ~Reply.error
    BY <1>6 DEF IsUserLoggedIn, Awaited
  <2>2. CASE Reply.value # Missing /\ Call.screen # "closed"
    BY <1>1, <1>5, <1>6, <2>1, <2>2 DEF IsUserLoggedIn
  <2>3. CASE ~(Reply.value # Missing /\ Call.screen # "closed")
    <3>1. Finish /\ isLoading' = (isLoading /\ Call.screen # "mounted")
      BY <1>6, <2>3 DEF IsUserLoggedIn
    <3>2. Call.screen = "mounted" \/ isLoading' = isLoading
      BY <3>1 DEF TypeOK, ScreensOK
    <3> QED BY <1>1, <1>4, <2>1, <2>3, <3>1, <3>2 DEF SavesSession
  <2> QED BY <2>2, <2>3
<1>7. ASSUME NEW at, NEW r, r.call = [Call EXCEPT !.at = at],
             at \in SavesSession \cup {"signup.add"},
             Answered(Append(requests, r), OtherReplies),
             UNCHANGED <<main, auth, isLoading, userInfo>>,
             Call.at \in FindsUsers \cup {"signup.add"}
      PROVE  Continued
  <2>1. r.call.at = at /\ r.call.screen = Call.screen
    BY <1>2, <1>7 DEF HandlerCall
  <2>2. \E q : /\ requests' = Append(requests, q)
               /\ q.call.screen = Call.screen
               /\ q.call.at \in SavesSession \cup {"signup.add"}
    BY <1>7, <2>1 DEF Answered
  <2> QED BY <1>3, <1>7, <2>2
          DEF Answered, stores, failures, Continued, FindsUsers, SavesSession
<1>8. CASE LoginFound
  <2>1. Call.at = "login.find"
    BY <1>8 DEF LoginFound, Awaited
  <2>2. CASE Contains(Users(Reply.value), Call.email)
    <3>1. Saved("login.save").call = [Call EXCEPT !.at = "login.save"]
      BY DEF Saved, SetItem
    <3> QED BY <1>1, <1>7, <1>8, <2>1, <2>2, <3>1
            DEF LoginFound, GoOn, navVars, FindsUsers, SavesSession
  <2>3. CASE ~Contains(Users(Reply.value), Call.email)
    BY <1>1, <1>4, <1>8, <2>1, <2>3 DEF LoginFound, SavesSession
  <2> QED BY <2>2, <2>3
<1>9. CASE SignupFound
  <2>1. Call.at = "signup.find"
    BY <1>9 DEF SignupFound, Awaited
  <2>2. CASE ~Contains(Users(Reply.value), Call.email)
    <3> DEFINE r == SetItem(UserKey(Call.isAdmin),
                            <<Call.email>> \o Users(Reply.value),
                            [Call EXCEPT !.at = "signup.add"])
    <3>1. r.call = [Call EXCEPT !.at = "signup.add"]
      BY DEF SetItem
    <3>2. GoOn(r, "")
      BY <1>9, <2>2 DEF SignupFound
    <3> HIDE DEF r
    <3> QED BY <1>1, <1>7, <2>1, <3>1, <3>2 DEF GoOn, navVars, FindsUsers
  <2>3. CASE Contains(Users(Reply.value), Call.email)
    BY <1>1, <1>4, <1>9, <2>1, <2>3 DEF SignupFound, SavesSession
  <2> QED BY <2>2, <2>3
<1>10. CASE SignupAdded
  <2>1. Call.at = "signup.add"
    BY <1>10 DEF SignupAdded, Awaited
  <2>2. Saved("signup.save").call = [Call EXCEPT !.at = "signup.save"]
    BY DEF Saved, SetItem
  <2> QED BY <1>1, <1>7, <1>10, <2>1, <2>2
          DEF SignupAdded, screenVars, navVars, SavesSession
<1>11. CASE SessionSaved
  <2>1. Call.at \in SavesSession /\ ~Reply.error
    BY <1>11 DEF SessionSaved, Awaited, SavesSession
  <2> QED BY <1>1, <1>4, <1>5, <1>11, <2>1 DEF SessionSaved
<1>12. CASE GetUserInfo
  <2>1. /\ Call.at = "getUserInfo" /\ ~Reply.error
        /\ Answered(requests, OtherReplies)
        /\ UNCHANGED <<main, auth, isLoading>>
        /\ userInfo' = IF Call.screen = "mounted" THEN Reply.value ELSE userInfo
    BY <1>12 DEF GetUserInfo, Awaited, navVars
  <2> QED BY <1>1, <1>3, <2>1 DEF Answered, stores, failures, Continued, SavesSession
<1>13. CASE LoggedOut
  <2>1. Call.at = "logout" /\ ~Reply.error
    BY <1>13 DEF LoggedOut, Awaited
  <2>2. CASE Call.screen = "closed"
    BY <1>1, <1>4, <1>13, <2>2 DEF LoggedOut
  <2>3. CASE Call.screen # "closed"
    <3>1. Mount(MainInitial, AuthInitial, requests, OtherReplies)
      BY <1>13, <2>3, ResetOK DEF LoggedOut, ResetToAuth
    <3> QED BY <1>1, <2>1, <2>3, <3>1, MountShows, InitialFocus
  <2> QED BY <2>2, <2>3
<1>14. CASE Rejected
  BY <1>1, <1>4, <1>14 DEF Rejected
<1> QED BY <1>6, <1>8, <1>9, <1>10, <1>11, <1>12, <1>13, <1>14 DEF RunCallback

LEMMA UserShows ==
    ASSUME TypeOK, OneScreen, UserStep
    PROVE  \/ Tapped
           \/ Shows("LOGIN") /\ Shown("SIGNUP", requests, replies)
           \/ Shows("SIGNUP") /\ Shown("LOGIN", requests, replies)
<1>1. ASSUME UNCHANGED <<storageVars, navVars, isLoading, userInfo>> PROVE Tapped
  BY <1>1 DEF storageVars, stores, failures, navVars, Tapped, SameScreen, Screen
<1>2. ASSUME NEW r, Tap(r), r.call.screen = "mounted",
             r.call.at \in FindsUsers \/ (r.call.at = "logout" /\ Screen = "HOME")
      PROVE  Tapped
  <2>1. \E q : /\ requests' = Append(requests, q)
               /\ q.call.screen = "mounted"
               /\ q.call.at \in FindsUsers \/ (q.call.at = "logout" /\ Screen = "HOME")
    BY <1>2 DEF Tap, Answered
  <2> QED BY <1>2, <2>1 DEF Tap, Answered, stores, failures, screenVars, navVars, Tapped,
                            SameScreen, Screen
<1>3. CASE SubmitLogin \/ SubmitSignup
  <2>1. PICK at \in FindsUsers : FindUser(at)
    BY <1>3 DEF SubmitLogin, SubmitSignup, FindsUsers
  <2> QED BY <1>2, <2>1 DEF FindUser, GetItem, Handler
<1>4. CASE TapLogout
  BY <1>2, <1>4 DEF TapLogout, RemoveItem, Handler, Shows
<1>5. CASE FollowLink
  BY <1>5, ReplaceFromAuthShows DEF FollowLink, AuthRoute, Shows
<1> QED BY <1>1, <1>3, <1>4, <1>5 DEF UserStep, ChangeEmail, ToggleSwitch

LEMMA EnvironmentShows ==
    ASSUME TypeOK, OneScreen,
           CleanUpState \/ ChangeColorScheme \/ Crash \/ BackOutAndReturn
    PROVE  \/ Tapped
           \/ Relaunched
           \/ Reopened
           \/ Shown(Screen, requests, replies)
           \/ Screen # "HOME" /\ Shown("LOGIN", requests, replies)
<1>1. CASE CleanUpState
  <2>1. CASE UNCHANGED <<storageVars, main, auth, form, isLoading, userInfo>>
    BY <2>1 DEF storageVars, stores, failures, Tapped, SameScreen, Screen
  <2>2. CASE Mount(main, AuthInitial, requests, replies)
    <3>1. Focused(main, AuthInitial) = IF Screen = "HOME" THEN "HOME" ELSE "LOGIN"
      BY MainFocus, InitialFocus DEF Focused, OneScreen
    <3> QED BY <2>2, <3>1, MountShows
  <2> QED BY <1>1, <2>1, <2>2 DEF CleanUpState
<1>2. CASE ChangeColorScheme
  BY <1>2, MountShows DEF ChangeColorScheme, Screen
<1>3. CASE Crash
  BY <1>3, InitialFocus DEF Crash, FreshScreen, Restart, failures, Relaunched, Screen
<1>4. CASE BackOutAndReturn
  BY <1>4, InitialFocus DEF BackOutAndReturn, FreshScreen, ActivityDestroyed, stores,
                            failures, Reopened, Screen
<1> QED BY <1>1, <1>2, <1>3, <1>4

-----------------------------------------------------------------------------
(* A logout that is still to reset the navigator was made before the read  *)
(* that ends Login's spinner, and is answered before it.                   *)

IsLoginRead(r) == r.call.at = "isUserLoggedIn" /\ r.call.screen = "mounted"
IsLogout(r) == r.call.at = "logout" /\ r.call.screen # "closed"

NoLoginRead(queue) == \A i \in DOMAIN queue : ~IsLoginRead(queue[i])
NoLogout(queue) == \A i \in DOMAIN queue : ~IsLogout(queue[i])

InOrder(queue) ==
    \A i, j \in DOMAIN queue : IsLoginRead(queue[i]) /\ IsLogout(queue[j]) => j < i

Ordered(calls, others) ==
    /\ InOrder(calls) /\ InOrder(others)
    /\ NoLoginRead(others) \/ NoLogout(calls)

LogoutInv ==
    /\ Ordered(requests, replies)
    /\ Screen # "LOGIN" => NoLoginRead(requests) /\ NoLoginRead(replies)
    /\ Screen = "HOME" \/ (Screen = "LOGIN" /\ isLoading)
       \/ (NoLogout(requests) /\ NoLogout(replies))

LEMMA OrderTail ==
    ASSUME NEW queue, IsQueue(queue), queue # <<>>
    PROVE  /\ InOrder(queue) =>
                /\ InOrder(Tail(queue))
                /\ IsLoginRead(Head(queue)) => NoLogout(Tail(queue))
           /\ NoLoginRead(queue) => NoLoginRead(Tail(queue)) /\ ~IsLoginRead(Head(queue))
           /\ NoLogout(queue) => NoLogout(Tail(queue)) /\ ~IsLogout(Head(queue))
<1>1. /\ Len(queue) \in Nat \ {0} /\ DOMAIN queue = 1..Len(queue)
      /\ DOMAIN Tail(queue) = 1..(Len(queue) - 1)
      /\ \A i \in 1..(Len(queue) - 1) : Tail(queue)[i] = queue[i + 1]
      /\ Head(queue) = queue[1]
  BY QueueTail
<1>2. \A i \in DOMAIN Tail(queue) :
        i \in Nat /\ i + 1 \in DOMAIN queue /\ i + 1 > 1 /\ Tail(queue)[i] = queue[i + 1]
  BY <1>1
<1>3. 1 \in DOMAIN queue
  BY <1>1
<1>4. InOrder(queue) => InOrder(Tail(queue))
  <2> SUFFICES ASSUME InOrder(queue),
                      NEW i \in DOMAIN Tail(queue), NEW j \in DOMAIN Tail(queue),
                      IsLoginRead(Tail(queue)[i]), IsLogout(Tail(queue)[j])
               PROVE  j < i
    BY DEF InOrder
  <2>1. j + 1 < i + 1
    BY <1>2 DEF InOrder
  <2> QED BY <1>2, <2>1
<1>5. ASSUME InOrder(queue), IsLoginRead(Head(queue)), NEW i \in DOMAIN Tail(queue)
      PROVE  ~IsLogout(Tail(queue)[i])
  <2>1. ~(i + 1 < 1)
    BY <1>2
  <2> QED BY <1>1, <1>2, <1>3, <1>5, <2>1 DEF InOrder
<1> QED BY <1>1, <1>2, <1>3, <1>4, <1>5 DEF NoLoginRead, NoLogout

LEMMA OrderPush ==
    ASSUME NEW queue, IsQueue(queue), NEW r
    PROVE  /\ InOrder(queue) /\ (IsLogout(r) => NoLoginRead(queue)) =>
                InOrder(Append(queue, r))
           /\ NoLoginRead(queue) /\ ~IsLoginRead(r) => NoLoginRead(Append(queue, r))
           /\ NoLogout(queue) /\ ~IsLogout(r) => NoLogout(Append(queue, r))
<1>1. /\ Len(queue) \in Nat /\ DOMAIN queue = 1..Len(queue)
      /\ DOMAIN Append(queue, r) = 1..(Len(queue) + 1)
      /\ \A i \in 1..Len(queue) : Append(queue, r)[i] = queue[i]
      /\ Append(queue, r)[Len(queue) + 1] = r
  BY QueuePush
<1>2. \A i \in DOMAIN Append(queue, r) :
        \/ i \in DOMAIN queue /\ i < Len(queue) + 1 /\ Append(queue, r)[i] = queue[i]
        \/ i = Len(queue) + 1 /\ Append(queue, r)[i] = r
  BY <1>1
<1>3. ~(IsLoginRead(r) /\ IsLogout(r))
  BY DEF IsLoginRead, IsLogout
<1>4. InOrder(queue) /\ (IsLogout(r) => NoLoginRead(queue)) => InOrder(Append(queue, r))
  <2> SUFFICES ASSUME InOrder(queue), IsLogout(r) => NoLoginRead(queue),
                      NEW i \in DOMAIN Append(queue, r), NEW j \in DOMAIN Append(queue, r),
                      IsLoginRead(Append(queue, r)[i]), IsLogout(Append(queue, r)[j])
               PROVE  j < i
    BY DEF InOrder
  <2>1. CASE i \in DOMAIN queue /\ Append(queue, r)[i] = queue[i]
    <3>1. ~IsLogout(r)
      BY <2>1 DEF NoLoginRead
    <3>2. j \in DOMAIN queue /\ Append(queue, r)[j] = queue[j]
      BY <1>2, <3>1
    <3> QED BY <2>1, <3>2 DEF InOrder
  <2>2. CASE i = Len(queue) + 1 /\ Append(queue, r)[i] = r
    BY <1>2, <1>3, <2>2
  <2> QED BY <1>2, <2>1, <2>2
<1> QED BY <1>2, <1>4 DEF NoLoginRead, NoLogout

LEMMA OrderMountCalls ==
    ASSUME NEW queue, IsQueue(queue), InOrder(queue), NEW screen
    PROVE  /\ InOrder(queue \o MountCalls(screen))
           /\ NoLoginRead(queue) /\ screen # "LOGIN" =>
                NoLoginRead(queue \o MountCalls(screen))
           /\ NoLogout(queue) => NoLogout(queue \o MountCalls(screen))
<1>1. /\ \A at \in ReadsSession : ~IsLogout(SessionRead(at))
      /\ ~IsLoginRead(SessionRead("getUserInfo"))
  BY DEF SessionRead, GetItem, Handler, IsLogout, IsLoginRead, ReadsSession
<1>2. ASSUME NEW at \in ReadsSession
      PROVE  /\ InOrder(Append(queue, SessionRead(at)))
             /\ NoLoginRead(queue) /\ at # "isUserLoggedIn" =>
                  NoLoginRead(Append(queue, SessionRead(at)))
             /\ NoLogout(queue) => NoLogout(Append(queue, SessionRead(at)))
  BY <1>1, OrderPush DEF ReadsSession
<1> QED BY <1>2, MountPushes DEF ReadsSession

\* Whatever the order was, a screen that is mounted puts its read last.
LEMMA OrderShown ==
    ASSUME NEW how \in {"unmounted", "closed"},
           NEW calls, QueueOK(calls, RequestOK),
           NEW others, QueueOK(others, ReplyOK), NEW screen
    PROVE  LET left == Disowned(calls, how) \o MountCalls(screen) IN
           /\ Ordered(left, Disowned(others, how))
           /\ NoLoginRead(Disowned(others, how))
           /\ screen # "LOGIN" => NoLoginRead(left)
           /\ NoLogout(calls) \/ how = "closed" => NoLogout(left)
           /\ NoLogout(others) \/ how = "closed" => NoLogout(Disowned(others, how))
<1> DEFINE c == Disowned(calls, how)
           o == Disowned(others, how)
<1>1. /\ DOMAIN c = DOMAIN calls /\ DOMAIN o = DOMAIN others
      /\ \A i \in DOMAIN calls : SameCall(calls[i], c[i], how)
      /\ \A i \in DOMAIN others : SameCall(others[i], o[i], how)
  BY DisownedCalls
<1> HIDE DEF c, o
<1>2. IsQueue(c)
  BY QueueDisowned DEF QueueOK, IsQueue, c
<1>3. NoLoginRead(c) /\ NoLoginRead(o)
  BY <1>1 DEF NoLoginRead, IsLoginRead, SameCall
<1>4. /\ NoLogout(calls) \/ how = "closed" => NoLogout(c)
      /\ NoLogout(others) \/ how = "closed" => NoLogout(o)
  BY <1>1 DEF NoLogout, IsLogout, SameCall
<1>5. InOrder(c) /\ InOrder(o)
  BY <1>3 DEF InOrder, NoLoginRead
<1>6. /\ InOrder(c \o MountCalls(screen))
      /\ screen # "LOGIN" => NoLoginRead(c \o MountCalls(screen))
      /\ NoLogout(c) => NoLogout(c \o MountCalls(screen))
  BY <1>2, <1>3, <1>5, OrderMountCalls
<1>7. /\ Ordered(c \o MountCalls(screen), o) /\ NoLoginRead(o)
      /\ screen # "LOGIN" => NoLoginRead(c \o MountCalls(screen))
      /\ NoLogout(calls) \/ how = "closed" => NoLogout(c \o MountCalls(screen))
      /\ NoLogout(others) \/ how = "closed" => NoLogout(o)
  BY <1>3, <1>4, <1>5, <1>6 DEF Ordered
<1> QED BY <1>7 DEF c, o

\* A step that mounts a screen keeps LogoutInv when the screen may be shown.
LEMMA LogoutShown ==
    ASSUME NEW screen, NEW others, Shown(screen, requests, others),
           QueueOK(requests, RequestOK), QueueOK(others, ReplyOK),
           screen \in {"LOGIN", "HOME"} \/ (NoLogout(requests) /\ NoLogout(others))
    PROVE  LogoutInv'
<1> DEFINE c == Disowned(requests, "unmounted") \o MountCalls(screen)
           o == Disowned(others, "unmounted")
<1>1. /\ Ordered(c, o) /\ NoLoginRead(o)
      /\ screen # "LOGIN" => NoLoginRead(c)
      /\ NoLogout(requests) => NoLogout(c)
      /\ NoLogout(others) => NoLogout(o)
  BY OrderShown
<1>2. Screen' = screen /\ isLoading' = TRUE /\ requests' = c /\ replies' = o
  BY DEF Shown
<1> HIDE DEF c, o
<1>3. /\ Ordered(requests', replies') /\ NoLoginRead(replies')
      /\ screen # "LOGIN" => NoLoginRead(requests')
      /\ NoLogout(requests) /\ NoLogout(others) =>
           NoLogout(requests') /\ NoLogout(replies')
  BY <1>1, <1>2
<1> QED BY <1>2, <1>3
        DEF LogoutInv, Ordered, InOrder, NoLoginRead, NoLogout, IsLoginRead, IsLogout

\* The store answers the oldest call.
LEMMA LogoutAnswered ==
    ASSUME TypeOK, LogoutInv, SameScreen, requests # <<>>, NEW error,
           requests' = Tail(requests),
           replies' = Append(replies, Answer(Head(requests), error))
    PROVE  LogoutInv'
<1> DEFINE r == Head(requests)
           a == Answer(r, error)
<1>1. (IsLoginRead(a) <=> IsLoginRead(r)) /\ (IsLogout(a) <=> IsLogout(r))
  BY DEF Answer, IsLoginRead, IsLogout
<1>2. IsQueue(requests) /\ IsQueue(replies)
  BY DEF TypeOK, QueuesOK, QueueOK, IsQueue
<1> HIDE DEF a
<1>3. /\ InOrder(requests) =>
           InOrder(Tail(requests)) /\ (IsLoginRead(r) => NoLogout(Tail(requests)))
      /\ NoLoginRead(requests) => NoLoginRead(Tail(requests)) /\ ~IsLoginRead(r)
      /\ NoLogout(requests) => NoLogout(Tail(requests)) /\ ~IsLogout(r)
  BY <1>2, OrderTail
<1>4. /\ InOrder(replies) /\ (IsLogout(a) => NoLoginRead(replies)) =>
           InOrder(Append(replies, a))
      /\ NoLoginRead(replies) /\ ~IsLoginRead(a) => NoLoginRead(Append(replies, a))
      /\ NoLogout(replies) /\ ~IsLogout(a) => NoLogout(Append(replies, a))
  BY <1>2, OrderPush
<1>5. Ordered(Tail(requests), Append(replies, a))
  <2>1. InOrder(requests) /\ InOrder(replies) /\ (NoLoginRead(replies) \/ NoLogout(requests))
    BY DEF LogoutInv, Ordered
  <2>2. NoLoginRead(Append(replies, a)) \/ NoLogout(Tail(requests))
    BY <1>1, <1>3, <1>4, <2>1
  <2> QED BY <1>1, <1>3, <1>4, <2>1, <2>2 DEF Ordered
<1>6. requests' = Tail(requests) /\ replies' = Append(replies, a)
  BY DEF a
<1> HIDE DEF r
<1>7. /\ Ordered(requests', replies')
      /\ Screen # "LOGIN" => NoLoginRead(requests') /\ NoLoginRead(replies')
      /\ NoLogout(requests) /\ NoLogout(replies) => NoLogout(requests') /\ NoLogout(replies')
  BY <1>1, <1>3, <1>4, <1>5, <1>6 DEF LogoutInv
<1> QED BY <1>7
        DEF LogoutInv, SameScreen, Ordered, InOrder, NoLoginRead, NoLogout, IsLoginRead,
            IsLogout

\* A new call that is no logout from elsewhere than Home, and no read of Login.
LEMMA LogoutPushed ==
    ASSUME NEW queue, IsQueue(queue), NEW others, Ordered(queue, others), NEW r,
           ~IsLoginRead(r),
           IsLogout(r) => NoLoginRead(queue) /\ NoLoginRead(others)
    PROVE  /\ Ordered(Append(queue, r), others)
           /\ NoLoginRead(queue) => NoLoginRead(Append(queue, r))
           /\ NoLogout(queue) /\ ~IsLogout(r) => NoLogout(Append(queue, r))
<1>1. /\ InOrder(queue) /\ (IsLogout(r) => NoLoginRead(queue)) => InOrder(Append(queue, r))
      /\ NoLoginRead(queue) /\ ~IsLoginRead(r) => NoLoginRead(Append(queue, r))
      /\ NoLogout(queue) /\ ~IsLogout(r) => NoLogout(Append(queue, r))
  BY OrderPush
<1> QED BY <1>1 DEF Ordered

LEMMA PrimedLogout ==
    ASSUME Ordered(requests', replies'),
           Screen' # "LOGIN" => NoLoginRead(requests') /\ NoLoginRead(replies'),
           \/ Screen' = "HOME" \/ (Screen' = "LOGIN" /\ isLoading')
           \/ NoLogout(requests') /\ NoLogout(replies')
    PROVE  LogoutInv'
BY DEF LogoutInv, Ordered, InOrder, NoLoginRead, NoLogout, IsLoginRead, IsLogout

LEMMA TappedLogout ==
    ASSUME TypeOK, LogoutInv, Tapped
    PROVE  LogoutInv'
<1>1. Screen' = Screen /\ isLoading' = isLoading /\ replies' = replies
  BY DEF Tapped, SameScreen
<1>2. CASE requests' = requests
  BY <1>1, <1>2, PrimedLogout DEF LogoutInv
<1>3. CASE requests' # requests
  <2>1. PICK r : /\ requests' = Append(requests, r)
                 /\ r.call.at \in FindsUsers \/ (r.call.at = "logout" /\ Screen = "HOME")
    BY <1>3 DEF Tapped
  <2>2. ~IsLoginRead(r) /\ (IsLogout(r) => Screen = "HOME")
    BY <2>1 DEF IsLoginRead, IsLogout, FindsUsers
  <2>3. IsQueue(requests) /\ Ordered(requests, replies)
        /\ (IsLogout(r) => NoLoginRead(requests) /\ NoLoginRead(replies))
    BY <2>2 DEF TypeOK, QueuesOK, QueueOK, IsQueue, LogoutInv
  <2>4. /\ Ordered(Append(requests, r), replies)
        /\ NoLoginRead(requests) => NoLoginRead(Append(requests, r))
        /\ NoLogout(requests) /\ ~IsLogout(r) => NoLogout(Append(requests, r))
    BY <2>2, <2>3, LogoutPushed
  <2> QED BY <1>1, <2>1, <2>2, <2>4, PrimedLogout DEF LogoutInv
<1> QED BY <1>2, <1>3

LEMMA ContinuedLogout ==
    ASSUME TypeOK, LogoutInv, replies # <<>>, Continued
    PROVE  LogoutInv'
<1>1. IsQueue(requests) /\ IsQueue(replies)
  BY DEF TypeOK, QueuesOK, QueueOK, IsQueue
<1>2. /\ InOrder(replies) =>
           InOrder(OtherReplies) /\ (IsLoginRead(Reply) => NoLogout(OtherReplies))
      /\ NoLoginRead(replies) => NoLoginRead(OtherReplies) /\ ~IsLoginRead(Reply)
      /\ NoLogout(replies) => NoLogout(OtherReplies) /\ ~IsLogout(Reply)
  BY <1>1, OrderTail DEF OtherReplies, Reply
<1>3. Ordered(requests, OtherReplies)
      /\ (IsLoginRead(Reply) => NoLogout(requests) /\ NoLogout(OtherReplies))
  BY <1>2 DEF LogoutInv, Ordered
<1>4. /\ Ordered(requests', OtherReplies)
      /\ NoLoginRead(requests) => NoLoginRead(requests')
      /\ NoLogout(requests) => NoLogout(requests')
  <2>1. CASE requests' = requests
    BY <1>3, <2>1
  <2>2. CASE requests' # requests
    <3>1. PICK r : /\ requests' = Append(requests, r)
                   /\ r.call.at \in SavesSession \cup {"signup.add"}
      BY <2>2 DEF Continued
    <3>2. ~IsLoginRead(r) /\ ~IsLogout(r)
      BY <3>1 DEF IsLoginRead, IsLogout, SavesSession
    <3> QED BY <1>1, <1>3, <3>1, <3>2, LogoutPushed
  <2> QED BY <2>1, <2>2
<1>5. /\ Screen' = Screen /\ replies' = OtherReplies
      /\ isLoading' = isLoading \/ IsLoginRead(Reply)
  BY DEF Continued, IsLoginRead, Call
<1>6. \/ Screen' = "HOME" \/ (Screen' = "LOGIN" /\ isLoading')
      \/ NoLogout(requests') /\ NoLogout(replies')
  BY <1>2, <1>3, <1>4, <1>5 DEF LogoutInv
<1>7. Screen' # "LOGIN" => NoLoginRead(requests') /\ NoLoginRead(replies')
  BY <1>2, <1>4, <1>5 DEF LogoutInv
<1> QED BY <1>4, <1>5, <1>6, <1>7, PrimedLogout

LEMMA LogoutInit ==
    /\ Ordered(MountCalls("LOGIN"), <<>>) /\ NoLogout(MountCalls("LOGIN"))
    /\ NoLogout(<<>>)
<1>1. MountCalls("LOGIN") = <<MountCalls("LOGIN")[1]>>
  BY DEF MountCalls
<1>2. ~IsLogout(MountCalls("LOGIN")[1])
  BY DEF MountCalls, GetItem, Handler, IsLogout
<1> QED BY <1>1, <1>2 DEF Ordered, InOrder, NoLoginRead, NoLogout

LEMMA LogoutStep ==
    ASSUME TypeOK, OneScreen, LogoutInv, [Next]_vars
    PROVE  LogoutInv'
<1>1. QueueOK(requests, RequestOK) /\ QueueOK(replies, ReplyOK)
      /\ Screen \in {"LOGIN", "SIGNUP", "HOME"}
  BY DEF TypeOK, QueuesOK, OneScreen
<1>2. ASSUME Shown("LOGIN", requests, replies) \/ Shown("HOME", requests, replies)
      PROVE  LogoutInv'
  BY <1>1, <1>2, LogoutShown
<1>3. ASSUME Screen = "SIGNUP" \/ Shows("LOGIN"), Shown("SIGNUP", requests, replies)
      PROVE  LogoutInv'
  <2>1. NoLogout(requests) /\ NoLogout(replies)
    BY <1>3 DEF LogoutInv, Shows
  <2> QED BY <1>1, <1>3, <2>1, LogoutShown
<1>4. CASE UserStep
  BY <1>2, <1>3, <1>4, UserShows, TappedLogout
<1>5. CASE StoreStep
  <2>1. SameScreen /\ requests # <<>>
    BY <1>5, StoreStepCases DEF StoreStep, screenVars, navVars, SameScreen, Screen
  <2>2. CASE UNCHANGED <<requests, replies>>
    BY <2>1, <2>2, PrimedLogout DEF SameScreen, LogoutInv
  <2>3. CASE ~UNCHANGED <<requests, replies>>
    <3>1. requests' = Tail(requests) /\ \E error \in BOOLEAN :
            replies' = Append(replies, Answer(Head(requests), error))
      BY <1>5, <2>3, StoreStepCases
    <3> QED BY <2>1, <3>1, LogoutAnswered
  <2> QED BY <2>2, <2>3
<1>6. CASE RunCallback
  <2>1. replies # <<>> /\ QueueOK(OtherReplies, ReplyOK)
    BY <1>1, <1>6, CallbackShows, HeadTailReplyOK DEF OtherReplies
  <2>2. ASSUME Shown("LOGIN", requests, OtherReplies) \/ Shown("HOME", requests, OtherReplies)
        PROVE  LogoutInv'
    BY <1>1, <2>1, <2>2, LogoutShown
  <2> QED BY <1>6, <2>1, <2>2, CallbackShows, ContinuedLogout
<1>7. CASE CleanUpState \/ ChangeColorScheme \/ Crash \/ BackOutAndReturn
  <2>1. ASSUME Relaunched PROVE LogoutInv'
    BY <2>1, LogoutInit, PrimedLogout DEF Relaunched
  <2>2. ASSUME Reopened PROVE LogoutInv'
    <3>1. /\ Ordered(requests', replies') /\ NoLogout(requests') /\ NoLogout(replies')
          /\ Screen' = "LOGIN"
      BY <1>1, <2>2, OrderShown DEF Reopened
    <3> QED BY <3>1, PrimedLogout
  <2>3. ASSUME Shown(Screen, requests, replies) PROVE LogoutInv'
    <3>1. CASE Screen = "SIGNUP"
      BY <1>3, <2>3, <3>1
    <3>2. CASE Screen # "SIGNUP"
      BY <1>1, <1>2, <2>3, <3>2
    <3> QED BY <3>1, <3>2
  <2> QED BY <1>2, <1>7, <2>1, <2>2, <2>3, EnvironmentShows, TappedLogout
<1>8. CASE UNCHANGED vars
  <2>1. Tapped
    BY <1>8 DEF vars, storageVars, stores, failures, screenVars, navVars, Tapped, SameScreen,
                Screen
  <2> QED BY <2>1, TappedLogout
<1>9. CASE EmptyCache
  <2>1. SameScreen /\ UNCHANGED <<requests, replies>>
    BY <1>9, EmptyCacheCases DEF SameScreen, Screen
  <2> QED BY <2>1, PrimedLogout DEF SameScreen, LogoutInv
<1> QED BY <1>4, <1>5, <1>6, <1>7, <1>8, <1>9 DEF Next

\* LogoutNeverInterrupts: while a logout is still to reset the navigator, no form can
\* be used, whatever was tapped twice, mounted anew, closed or restarted (Home.js:
\* logout and navigation.reset after its await).
THEOREM LogoutsStayAtHome == Spec => []LogoutNeverInterrupts
<1>1. Init => LogoutInv
  BY LogoutInit, InitialFocus DEF Init, StorageInit, LogoutInv, Screen, NoLoginRead
<1>2. TypeOK /\ OneScreen /\ LogoutInv /\ [Next]_vars => LogoutInv'
  BY LogoutStep
<1>3. LogoutInv => LogoutNeverInterrupts
  BY DEF LogoutInv, LogoutNeverInterrupts, NoLogout, IsLogout, Calls, ToSet
<1> QED BY <1>1, <1>2, <1>3, TypeCorrect, OneScreenOnly, PTL DEF Spec

-----------------------------------------------------------------------------
(* The screen agrees with the session, as far as the callbacks that are    *)
(* still to run know it.                                                   *)

IsWriter(r) == r.call.at \in SavesSession \cup {"logout"}
IsHomeRead(r) == r.call.at = "getUserInfo" /\ r.call.screen = "mounted"

NoWriter(queue) == \A i \in DOMAIN queue : ~IsWriter(queue[i])
NoHomeRead(queue) == \A i \in DOMAIN queue : ~IsHomeRead(queue[i])
NoneClosed(queue) == \A i \in DOMAIN queue : queue[i].call.screen # "closed"

\* No call that wrote the session was answered after this one.
LastWord(queue, i) == \A j \in DOMAIN queue : IsWriter(queue[j]) => j <= i

AgreesWith(session, r) ==
    /\ r.call.at \in ReadsSession => r.value = session
    /\ r.call.at \in SavesSession => session # Missing
    /\ r.call.at = "logout" => session = Missing

\* What the callbacks after the last writer, and that one, say of the session.
Told(session, others) ==
    \A i \in DOMAIN others :
        ~others[i].error /\ (LastWord(others, i) => AgreesWith(session, others[i]))

Agreement(session, screen, loading, info, calls, others) ==
    /\ screen = "SIGNUP" \/ (screen = "LOGIN" /\ ~loading) => session = Missing
    /\ screen = "HOME" =>
         /\ session # Missing
         /\ info = session \/ ~NoHomeRead(calls) \/ ~NoHomeRead(others)

ScreenInv ==
    /\ NoneClosed(requests) /\ NoneClosed(replies)
    /\ faults = 0 =>
         /\ Told(Session, replies)
         /\ NoWriter(replies) =>
              Agreement(Session, Screen, isLoading, userInfo, requests, replies)

LEMMA PrimedScreens ==
    ASSUME NoneClosed(requests'), NoneClosed(replies'), NEW session,
           session = mem'[USER_LOGGEDIN_KEY],
           faults' = 0 => /\ Told(session, replies')
                          /\ NoWriter(replies') =>
                               Agreement(session, Screen', isLoading', userInfo',
                                         requests', replies')
    PROVE  ScreenInv'
BY DEF ScreenInv, NoneClosed, Told, LastWord, IsWriter, AgreesWith, NoWriter, Agreement,
       NoHomeRead, IsHomeRead, Session

\* A callback is taken; it speaks of the session when no writer follows.
LEMMA ToldTail ==
    ASSUME NEW queue, IsQueue(queue), queue # <<>>
    PROVE  /\ NoneClosed(queue) =>
                NoneClosed(Tail(queue)) /\ Head(queue).call.screen # "closed"
           /\ NoHomeRead(Tail(queue)) /\ ~IsHomeRead(Head(queue)) => NoHomeRead(queue)
           /\ NoWriter(Tail(queue)) /\ ~IsWriter(Head(queue)) => NoWriter(queue)
           /\ \A session : Told(session, queue) =>
                /\ Told(session, Tail(queue)) /\ ~Head(queue).error
                /\ NoWriter(Tail(queue)) => AgreesWith(session, Head(queue))
<1>1. /\ Len(queue) \in Nat \ {0} /\ DOMAIN queue = 1..Len(queue)
      /\ DOMAIN Tail(queue) = 1..(Len(queue) - 1)
      /\ \A i \in 1..(Len(queue) - 1) : Tail(queue)[i] = queue[i + 1]
      /\ Head(queue) = queue[1]
  BY QueueTail
<1>2. /\ 1 \in DOMAIN queue
      /\ \A i \in DOMAIN Tail(queue) :
           i \in Nat /\ i + 1 \in DOMAIN queue /\ Tail(queue)[i] = queue[i + 1]
  BY <1>1
<1>3. ASSUME NEW j \in DOMAIN queue, j # 1
      PROVE  /\ j - 1 \in DOMAIN Tail(queue) /\ Tail(queue)[j - 1] = queue[j]
             /\ \A i \in DOMAIN Tail(queue) : j - 1 <= i => j <= i + 1
  BY <1>1, <1>3
<1>4. NoneClosed(queue) => NoneClosed(Tail(queue)) /\ Head(queue).call.screen # "closed"
  BY <1>1, <1>2 DEF NoneClosed
<1>5. NoHomeRead(Tail(queue)) /\ ~IsHomeRead(Head(queue)) => NoHomeRead(queue)
  BY <1>1, <1>3 DEF NoHomeRead
<1>6. NoWriter(Tail(queue)) /\ ~IsWriter(Head(queue)) => NoWriter(queue)
  BY <1>1, <1>3 DEF NoWriter
<1>7. ASSUME NEW session, Told(session, queue)
      PROVE  /\ Told(session, Tail(queue)) /\ ~Head(queue).error
             /\ NoWriter(Tail(queue)) => AgreesWith(session, Head(queue))
  <2>1. ASSUME NEW i \in DOMAIN Tail(queue), LastWord(Tail(queue), i)
        PROVE  LastWord(queue, i + 1)
    <3> SUFFICES ASSUME NEW j \in DOMAIN queue, IsWriter(queue[j]) PROVE j <= i + 1
      BY DEF LastWord
    <3>1. CASE j = 1
      BY <1>2, <3>1
    <3>2. CASE j # 1
      BY <1>3, <2>1, <3>2 DEF LastWord
    <3> QED BY <3>1, <3>2
  <2>2. Told(session, Tail(queue))
    BY <1>2, <1>7, <2>1 DEF Told
  <2>3. ~Head(queue).error
    BY <1>1, <1>2, <1>7 DEF Told
  <2>4. ASSUME NoWriter(Tail(queue)) PROVE LastWord(queue, 1)
    <3> SUFFICES ASSUME NEW j \in DOMAIN queue, IsWriter(queue[j]) PROVE j = 1
      BY DEF LastWord
    <3> QED BY <1>3, <2>4 DEF NoWriter
  <2> QED BY <1>1, <1>2, <1>7, <2>2, <2>3, <2>4 DEF Told
<1> QED BY <1>4, <1>5, <1>6, <1>7

\* A call is made, or a callback added that is the last word.
LEMMA ToldPush ==
    ASSUME NEW queue, IsQueue(queue), NEW r
    PROVE  /\ NoneClosed(queue) /\ r.call.screen # "closed" => NoneClosed(Append(queue, r))
           /\ NoHomeRead(Append(queue, r)) => NoHomeRead(queue) /\ ~IsHomeRead(r)
           /\ NoWriter(Append(queue, r)) => NoWriter(queue) /\ ~IsWriter(r)
           /\ \A before, after :
                /\ Told(before, queue) /\ ~r.error /\ AgreesWith(after, r)
                /\ before = after \/ IsWriter(r)
                => Told(after, Append(queue, r))
<1>1. /\ Len(queue) \in Nat /\ DOMAIN queue = 1..Len(queue)
      /\ DOMAIN Append(queue, r) = 1..(Len(queue) + 1)
      /\ \A i \in 1..Len(queue) : Append(queue, r)[i] = queue[i]
      /\ Append(queue, r)[Len(queue) + 1] = r
  BY QueuePush
<1>2. /\ \A i \in DOMAIN Append(queue, r) :
           \/ i \in DOMAIN queue /\ Append(queue, r)[i] = queue[i]
           \/ i = Len(queue) + 1 /\ Append(queue, r)[i] = r
      /\ \A i \in DOMAIN queue : /\ i \in DOMAIN Append(queue, r)
                                 /\ Append(queue, r)[i] = queue[i]
                                 /\ ~(Len(queue) + 1 <= i)
      /\ Len(queue) + 1 \in DOMAIN Append(queue, r)
  BY <1>1
<1>3. ASSUME NEW before, NEW after, Told(before, queue), ~r.error, AgreesWith(after, r),
             before = after \/ IsWriter(r)
      PROVE  Told(after, Append(queue, r))
  <2>1. ASSUME NEW i \in DOMAIN queue, LastWord(Append(queue, r), i)
        PROVE  LastWord(queue, i) /\ ~IsWriter(r)
    BY <1>1, <1>2, <2>1 DEF LastWord
  <2>2. ASSUME NEW i \in DOMAIN Append(queue, r)
        PROVE  /\ ~Append(queue, r)[i].error
               /\ LastWord(Append(queue, r), i) => AgreesWith(after, Append(queue, r)[i])
    <3>1. CASE i \in DOMAIN queue
      BY <1>2, <1>3, <2>1, <3>1 DEF Told
    <3>2. CASE i \notin DOMAIN queue
      BY <1>2, <1>3, <3>2
    <3> QED BY <3>1, <3>2
  <2> QED BY <2>2 DEF Told
<1> QED BY <1>2, <1>3 DEF NoneClosed, NoHomeRead, NoWriter

LEMMA ToldDisowned ==
    ASSUME NEW calls, QueueOK(calls, RequestOK), NoneClosed(calls),
           NEW others, QueueOK(others, ReplyOK), NoneClosed(others), NEW screen
    PROVE  LET left == Disowned(calls, "unmounted") \o MountCalls(screen)
               heard == Disowned(others, "unmounted") IN
           /\ NoneClosed(left) /\ NoneClosed(heard)
           /\ screen = "HOME" => ~NoHomeRead(left)
           /\ NoWriter(heard) => NoWriter(others)
           /\ \A session : Told(session, others) => Told(session, heard)
<1> DEFINE c == Disowned(calls, "unmounted")
           o == Disowned(others, "unmounted")
           left == c \o MountCalls(screen)
<1>1. /\ DOMAIN c = DOMAIN calls /\ DOMAIN o = DOMAIN others
      /\ \A i \in DOMAIN calls : SameCall(calls[i], c[i], "unmounted")
      /\ \A i \in DOMAIN others :
           SameCall(others[i], o[i], "unmounted") /\ o[i].error = others[i].error
  BY DisownedCalls
<1>2. IsQueue(c)
  BY QueueDisowned DEF QueueOK, IsQueue
<1> HIDE DEF c, o
<1>3. NoneClosed(c) /\ NoneClosed(o)
  BY <1>1 DEF NoneClosed, SameCall
<1>4. NoWriter(o) => NoWriter(others)
  BY <1>1 DEF NoWriter, IsWriter, SameCall
<1>5. ASSUME NEW session, Told(session, others) PROVE Told(session, o)
  <2>1. ASSUME NEW i \in DOMAIN o, LastWord(o, i) PROVE LastWord(others, i)
    BY <1>1, <2>1 DEF LastWord, IsWriter, SameCall
  <2>2. ASSUME NEW i \in DOMAIN o, AgreesWith(session, others[i])
        PROVE  AgreesWith(session, o[i])
    BY <1>1, <2>2 DEF AgreesWith, SameCall
  <2> QED BY <1>1, <1>5, <2>1, <2>2 DEF Told
<1>6. NoneClosed(left) /\ (screen = "HOME" => ~NoHomeRead(left))
  <2>1. /\ \A at \in ReadsSession : SessionRead(at).call.screen # "closed"
        /\ IsHomeRead(SessionRead("getUserInfo"))
    BY DEF SessionRead, GetItem, Handler, IsHomeRead, ReadsSession
  <2>2. ASSUME NEW at \in ReadsSession
        PROVE  /\ NoneClosed(Append(c, SessionRead(at)))
               /\ at = "getUserInfo" => ~NoHomeRead(Append(c, SessionRead(at)))
    BY <1>2, <1>3, <2>1, ToldPush
  <2> QED BY <1>2, <1>3, <2>2, MountPushes DEF ReadsSession
<1> HIDE DEF left
<1>7. /\ NoneClosed(left) /\ NoneClosed(o)
      /\ screen = "HOME" => ~NoHomeRead(left)
      /\ NoWriter(o) => NoWriter(others)
      /\ \A session : Told(session, others) => Told(session, o)
  BY <1>3, <1>4, <1>5, <1>6
<1> QED BY <1>7 DEF left, c, o

\* A screen is mounted, and agrees with what the remaining callbacks leave to say.
LEMMA ShownAgrees ==
    ASSUME ScreenInv, NEW screen \in {"LOGIN", "SIGNUP", "HOME"},
           QueueOK(requests, RequestOK),
           NEW others, QueueOK(others, ReplyOK), NoneClosed(others),
           faults = 0 =>
             /\ Told(Session, others)
             /\ NoWriter(others) => /\ screen = "SIGNUP" => Session = Missing
                                    /\ screen = "HOME" => Session # Missing,
           Shown(screen, requests, others)
    PROVE  ScreenInv'
<1> DEFINE left == Disowned(requests, "unmounted") \o MountCalls(screen)
           heard == Disowned(others, "unmounted")
<1>1. NoneClosed(requests)
  BY DEF ScreenInv
<1>2. /\ NoneClosed(left) /\ NoneClosed(heard)
      /\ screen = "HOME" => ~NoHomeRead(left)
      /\ NoWriter(heard) => NoWriter(others)
      /\ \A session : Told(session, others) => Told(session, heard)
  BY <1>1, ToldDisowned
<1>3. /\ Screen' = screen /\ isLoading' = TRUE /\ mem' = mem /\ faults' = faults
      /\ requests' = left /\ replies' = heard
  BY DEF Shown
<1> HIDE DEF left, heard
<1>4. ASSUME faults = 0, NoWriter(heard)
      PROVE  Agreement(Session, Screen', isLoading', userInfo', requests', replies')
  <2>1. /\ screen = "SIGNUP" => Session = Missing
        /\ screen = "HOME" => Session # Missing
    BY <1>2, <1>4
  <2>2. Agreement(Session, screen, TRUE, userInfo', left, heard)
    BY <1>2, <2>1 DEF Agreement
  <2> QED BY <1>3, <2>2, Zenon
<1>5. NoneClosed(requests') /\ NoneClosed(replies')
  BY <1>2, <1>3
<1>6. Session = mem'[USER_LOGGEDIN_KEY]
  BY <1>3 DEF Session
<1>7. faults' = 0 => /\ Told(Session, replies')
                     /\ NoWriter(replies') => Agreement(Session, Screen', isLoading',
                                                       userInfo', requests', replies')
  BY <1>2, <1>3, <1>4
<1> QED BY <1>5, <1>6, <1>7, PrimedScreens

LEMMA TappedAgrees ==
    ASSUME TypeOK, ScreenInv, Tapped
    PROVE  ScreenInv'
<1>1. /\ Screen' = Screen /\ isLoading' = isLoading /\ userInfo' = userInfo
      /\ replies' = replies /\ mem' = mem /\ faults' = faults
  BY DEF Tapped, SameScreen
<1>2. /\ NoneClosed(requests')
      /\ NoHomeRead(requests') => NoHomeRead(requests)
  <2>1. CASE requests' = requests
    BY <2>1 DEF ScreenInv
  <2>2. CASE requests' # requests
    <3>1. PICK r : requests' = Append(requests, r) /\ r.call.screen = "mounted"
      BY <2>2 DEF Tapped
    <3>2. IsQueue(requests) /\ NoneClosed(requests)
      BY DEF TypeOK, QueuesOK, QueueOK, IsQueue, ScreenInv
    <3> QED BY <3>1, <3>2, ToldPush
  <2> QED BY <2>1, <2>2
<1>3. NoneClosed(replies') /\ Session = mem'[USER_LOGGEDIN_KEY]
  BY <1>1 DEF ScreenInv, Session
<1>4. faults' = 0 => /\ Told(Session, replies')
                     /\ NoWriter(replies') => Agreement(Session, Screen', isLoading',
                                                       userInfo', requests', replies')
  BY <1>1, <1>2 DEF ScreenInv, Agreement
<1> QED BY <1>2, <1>3, <1>4, PrimedScreens

\* A callback that mounts no screen is no writer's, and reads what is stored unless a
\* writer's callback is still to come.
LEMMA ContinuedAgrees ==
    ASSUME TypeOK, ScreenInv, replies # <<>>, Continued
    PROVE  ScreenInv'
<1>0. IsQueue(requests) /\ IsQueue(replies)
  BY DEF TypeOK, QueuesOK, QueueOK, IsQueue
<1>1. /\ Screen' = Screen /\ replies' = OtherReplies /\ mem' = mem /\ faults' = faults
  BY DEF Continued
<1>2. /\ NoneClosed(OtherReplies) /\ Call.screen # "closed"
      /\ NoHomeRead(OtherReplies) /\ ~IsHomeRead(Reply) => NoHomeRead(replies)
      /\ NoWriter(OtherReplies) /\ ~IsWriter(Reply) => NoWriter(replies)
      /\ Told(Session, replies) =>
           /\ Told(Session, OtherReplies) /\ ~Reply.error
           /\ NoWriter(OtherReplies) => AgreesWith(Session, Reply)
  BY <1>0, ToldTail DEF OtherReplies, Reply, Call, ScreenInv
<1>3. NoneClosed(requests') /\ (NoHomeRead(requests') => NoHomeRead(requests))
  <2>1. CASE requests' = requests
    BY <2>1 DEF ScreenInv
  <2>2. CASE requests' # requests
    <3>1. PICK r : requests' = Append(requests, r) /\ r.call.screen = Call.screen
      BY <2>2 DEF Continued
    <3> QED BY <1>0, <1>2, <3>1, ToldPush DEF ScreenInv
  <2> QED BY <2>1, <2>2
<1>4. Session = mem'[USER_LOGGEDIN_KEY]
  BY <1>1 DEF Session
<1>5. ASSUME faults = 0, NoWriter(OtherReplies)
      PROVE  Agreement(Session, Screen', isLoading', userInfo', requests', replies')
  <2>1. ~Reply.error /\ AgreesWith(Session, Reply)
    BY <1>2, <1>5 DEF ScreenInv
  <2>2. ~IsWriter(Reply)
    BY <1>2, <2>1 DEF Continued, IsWriter, Call
  <2>3. Agreement(Session, Screen, isLoading, userInfo, requests, replies)
    BY <1>2, <1>5, <2>2 DEF ScreenInv
  <2>4. isLoading' = isLoading \/ Session = Missing
    BY <2>1 DEF Continued, AgreesWith, ReadsSession, Call
  <2>5. userInfo' = userInfo \/ userInfo' = Session
    BY <2>1 DEF Continued, AgreesWith, ReadsSession, Call
  <2>6. IsHomeRead(Reply) => userInfo' = Session
    BY <2>1 DEF Continued, AgreesWith, ReadsSession, Call, IsHomeRead
  <2> QED BY <1>1, <1>2, <1>3, <2>3, <2>4, <2>5, <2>6 DEF Agreement
<1>6. faults' = 0 => /\ Told(Session, replies')
                     /\ NoWriter(replies') => Agreement(Session, Screen', isLoading',
                                                       userInfo', requests', replies')
  BY <1>1, <1>2, <1>5 DEF ScreenInv
<1> QED BY <1>1, <1>2, <1>3, <1>4, <1>6, PrimedScreens

\* What is answered is what is stored then.
LEMMA StoreAgrees ==
    ASSUME TypeOK, ScreenInv, StoreStep, Platform = "ios"
    PROVE  ScreenInv'
<1> DEFINE r == Head(requests)
<1>1. /\ SameScreen /\ requests # <<>> /\ requests' = Tail(requests)
      /\ Execute \/ Fail
  BY DEF StoreStep, Execute, Fail, DeleteDatabase, screenVars, navVars, SameScreen, Screen
<1>2. PICK error \in BOOLEAN :
        /\ replies' = Append(replies, Answer(r, error))
        /\ IF error = TRUE THEN faults' = faults + 1
           ELSE faults' = faults /\ mem' = Written(mem, r)
  BY <1>1 DEF Execute, Fail, failures
<1> DEFINE a == Answer(r, error)
<1>3. /\ a.call = r.call /\ a.error = error
      /\ error = FALSE /\ r.op = "get" => a.value = mem[r.key]
  BY DEF Answer
<1>4. IsQueue(requests) /\ IsQueue(replies) /\ RequestOK(r) /\ StoreOK(mem)
      /\ faults \in Nat
  BY <1>1, HeadTailRequestOK, StorageAssumption DEF TypeOK, StoresOK, QueuesOK, QueueOK, IsQueue
<1>5. /\ NoneClosed(Tail(requests)) /\ r.call.screen # "closed"
      /\ NoHomeRead(Tail(requests)) /\ ~IsHomeRead(r) => NoHomeRead(requests)
  BY <1>1, <1>4, ToldTail DEF ScreenInv
<1> HIDE DEF a, r
<1>6. /\ NoneClosed(Append(replies, a))
      /\ NoHomeRead(Append(replies, a)) => NoHomeRead(replies) /\ ~IsHomeRead(a)
      /\ NoWriter(Append(replies, a)) => NoWriter(replies) /\ ~IsWriter(a)
      /\ \A before, after :
           /\ Told(before, replies) /\ ~a.error /\ AgreesWith(after, a)
           /\ before = after \/ IsWriter(a)
           => Told(after, Append(replies, a))
  BY <1>3, <1>4, <1>5, ToldPush DEF ScreenInv
<1>7. replies' = Append(replies, a)
  BY <1>2 DEF a
<1>8. (IsHomeRead(a) <=> IsHomeRead(r)) /\ (IsWriter(a) <=> IsWriter(r))
  BY <1>3 DEF IsHomeRead, IsWriter
<1>9. CASE error = TRUE
  <2>1. faults' # 0
    BY <1>2, <1>4, <1>9
  <2> QED BY <1>1, <1>5, <1>6, <1>7, <2>1, PrimedScreens
<1>10. CASE error = FALSE
  <2>1. faults' = faults /\ mem' = Written(mem, r) /\ a.error = FALSE
    BY <1>2, <1>3, <1>10
  <2> DEFINE session == mem'[USER_LOGGEDIN_KEY]
  <2>2. AgreesWith(session, a) /\ (Session = session \/ IsWriter(a))
    <3>1. CASE r.op = "get"
      <4>1. mem' = mem /\ a.value = mem[r.key]
        BY <1>3, <1>10, <2>1, <3>1 DEF Written
      <4>2. /\ r.call.at \in ReadsSession => r.key = USER_LOGGEDIN_KEY
            /\ r.call.at \notin SavesSession \cup {"logout"}
        BY <1>4, <3>1 DEF RequestOK, GetItem, SetItem, RemoveItem, ReadsSession,
                          FindsUsers, SavesSession
      <4> QED BY <1>3, <4>1, <4>2 DEF AgreesWith, Session
    <3>2. CASE r.op # "get"
      <4>1. \/ r.call.at = "signup.add" /\ session = Session
            \/ r.call.at \in SavesSession /\ session # Missing
            \/ r.call.at = "logout" /\ session = Missing
        <5>1. [email |-> r.call.email, isAdmin |-> r.call.isAdmin] # Missing
              \/ r.call.at \notin SavesSession
          BY <1>4, SessionAssumption DEF RequestOK, HandlerCall, KnowsEmail, SavesSession
        <5> QED BY <1>4, <2>1, <3>2, <5>1, WrittenEffect DEF Session
      <4>2. r.call.at \notin ReadsSession
        BY <4>1 DEF ReadsSession, SavesSession
      <4> QED BY <1>3, <4>1, <4>2 DEF AgreesWith, IsWriter, SavesSession
    <3> QED BY <3>1, <3>2
  <2> HIDE DEF session
  <2>3. ASSUME faults = 0 PROVE Told(session, replies')
    BY <1>6, <1>7, <2>1, <2>2, <2>3 DEF ScreenInv
  <2>4. ASSUME faults = 0, NoWriter(replies')
        PROVE  Agreement(session, Screen', isLoading', userInfo', requests', replies')
    <3>1. NoWriter(replies) /\ Session = session
      BY <1>6, <1>7, <2>2, <2>4
    <3>2. Agreement(Session, Screen, isLoading, userInfo, requests, replies)
      BY <2>4, <3>1 DEF ScreenInv
    <3>3. NoHomeRead(requests') /\ NoHomeRead(replies') =>
            NoHomeRead(requests) /\ NoHomeRead(replies)
      BY <1>1, <1>5, <1>6, <1>7, <1>8
    <3> QED BY <1>1, <3>1, <3>2, <3>3 DEF Agreement, SameScreen
  <2>5. session = mem'[USER_LOGGEDIN_KEY]
    BY DEF session
  <2> QED BY <1>1, <1>5, <1>6, <1>7, <2>1, <2>3, <2>4, <2>5, PrimedScreens
<1> QED BY <1>9, <1>10

LEMMA ScreenStep ==
    ASSUME TypeOK, OneScreen, CopiesInv, ScreenInv, [Next]_vars, Platform = "ios"
    PROVE  ScreenInv'
<1>1. /\ QueueOK(requests, RequestOK) /\ QueueOK(replies, ReplyOK)
      /\ NoneClosed(replies) /\ Screen \in {"LOGIN", "SIGNUP", "HOME"}
  BY DEF TypeOK, QueuesOK, OneScreen, ScreenInv
<1>2. ASSUME NEW screen \in {"LOGIN", "SIGNUP", "HOME"},
             screen = "SIGNUP" => Screen = "SIGNUP" \/ Shows("LOGIN"),
             screen = "HOME" => Screen = "HOME",
             Shown(screen, requests, replies)
      PROVE  ScreenInv'
  <2>1. faults = 0 =>
          /\ Told(Session, replies)
          /\ NoWriter(replies) => /\ screen = "SIGNUP" => Session = Missing
                                  /\ screen = "HOME" => Session # Missing
    BY <1>2 DEF ScreenInv, Agreement, Shows
  <2> QED BY <1>1, <1>2, <2>1, ShownAgrees
<1>3. CASE UserStep
  BY <1>2, <1>3, UserShows, TappedAgrees
<1>4. CASE StoreStep
  BY <1>4, StoreAgrees
<1>5. CASE RunCallback
  <2>1. replies # <<>>
    BY <1>5, CallbackShows
  <2>2. /\ QueueOK(OtherReplies, ReplyOK) /\ NoneClosed(OtherReplies)
        /\ Told(Session, replies) =>
             /\ Told(Session, OtherReplies) /\ ~Reply.error
             /\ NoWriter(OtherReplies) => AgreesWith(Session, Reply)
    BY <1>1, <2>1, HeadTailReplyOK, ToldTail DEF OtherReplies, Reply, QueueOK, IsQueue
  <2>3. ASSUME Shown("LOGIN", requests, OtherReplies) PROVE ScreenInv'
    <3>1. faults = 0 => Told(Session, OtherReplies)
      BY <2>2 DEF ScreenInv
    <3> QED BY <1>1, <2>2, <2>3, <3>1, ShownAgrees
  <2>4. ASSUME Shown("HOME", requests, OtherReplies),
               \/ Call.at = "isUserLoggedIn" /\ Reply.value # Missing
               \/ Call.at \in SavesSession
        PROVE  ScreenInv'
    <3>1. faults = 0 => /\ Told(Session, OtherReplies)
                        /\ NoWriter(OtherReplies) => Session # Missing
      BY <2>2, <2>4 DEF ScreenInv, AgreesWith, ReadsSession, Call
    <3> QED BY <1>1, <2>2, <2>4, <3>1, ShownAgrees
  <2> QED BY <1>5, <2>1, <2>3, <2>4, CallbackShows, ContinuedAgrees
<1>6. CASE CleanUpState \/ ChangeColorScheme \/ Crash \/ BackOutAndReturn
  <2>1. ASSUME Relaunched PROVE ScreenInv'
    <3>1. NoneClosed(MountCalls("LOGIN"))
      <4>1. MountCalls("LOGIN") = <<MountCalls("LOGIN")[1]>>
        BY DEF MountCalls
      <4>2. MountCalls("LOGIN")[1].call.screen # "closed"
        BY DEF MountCalls, GetItem, Handler
      <4> QED BY <4>1, <4>2 DEF NoneClosed
    <3>2. \A session : Told(session, <<>>)
      BY DEF Told
    <3>3. NoneClosed(<<>>)
      BY DEF NoneClosed
    <3>4. \A session :
            Agreement(session, Screen', isLoading', userInfo', requests', replies')
      BY <2>1 DEF Relaunched, Agreement
    <3> QED BY <2>1, <3>1, <3>2, <3>3, <3>4, PrimedScreens DEF Relaunched
  <2>2. ~Reopened
    BY DEF Reopened
  <2>3. ASSUME Shown(Screen, requests, replies) PROVE ScreenInv'
    BY <1>1, <1>2, <2>3
  <2> QED BY <1>2, <1>6, <2>1, <2>2, <2>3, EnvironmentShows, TappedAgrees
<1>7. CASE UNCHANGED vars
  <2>1. Tapped
    BY <1>7 DEF vars, storageVars, stores, failures, screenVars, navVars, Tapped, SameScreen,
                Screen
  <2> QED BY <2>1, TappedAgrees
<1>8. CASE EmptyCache
  <2>1. /\ SameScreen /\ UNCHANGED <<requests, replies, faults>>
        /\ mem # staged
    BY <1>8, EmptyCacheCases DEF SameScreen, Screen
  <2>2. faults' # 0
    BY <2>1 DEF CopiesInv
  <2> QED BY <2>1, <2>2, PrimedScreens DEF ScreenInv
<1> QED BY <1>3, <1>4, <1>5, <1>6, <1>7, <1>8 DEF Next

\* SessionMatchesScreen on iOS, for any number of taps under way at once: unless a call
\* has failed, the forms are usable only without a session and Home shows only with
\* one, its own, as soon as no tap is under way.  On Android a login that is under way
\* while its activity is closed saves its session after the new Login has looked.
THEOREM ScreensMatchTheSession ==
    ASSUME Platform = "ios"
    PROVE  Spec => []SessionMatchesScreen
<1>1. Init => ScreenInv
  <2> SUFFICES ASSUME Init PROVE ScreenInv
    OBVIOUS
  <2>1. NoneClosed(requests)
    <3>1. MountCalls("LOGIN") = <<MountCalls("LOGIN")[1]>>
      BY DEF MountCalls
    <3>2. MountCalls("LOGIN")[1].call.screen # "closed"
      BY DEF MountCalls, GetItem, Handler
    <3>3. requests = MountCalls("LOGIN")
      BY DEF Init, StorageInit
    <3> QED BY <3>1, <3>2, <3>3 DEF NoneClosed
  <2>2. replies = <<>> /\ Screen = "LOGIN" /\ isLoading = TRUE
    BY InitialFocus DEF Init, StorageInit, Screen
  <2> QED BY <2>1, <2>2 DEF ScreenInv, NoneClosed, Told, Agreement
<1>2. TypeOK /\ OneScreen /\ CopiesInv /\ ScreenInv /\ [Next]_vars => ScreenInv'
  BY ScreenStep
<1>3. TypeOK /\ ScreenInv => SessionMatchesScreen
  <2> SUFFICES ASSUME TypeOK, ScreenInv, TapsUnderWay = 0, faults = 0
               PROVE  /\ Shows("LOGIN") \/ Shows("SIGNUP") => Session = Missing
                      /\ Screen = "HOME" => Session # Missing
                      /\ Screen = "HOME" /\ Calls = {} => userInfo = Session
    BY DEF SessionMatchesScreen
  <2>1. NoWriter(replies)
    BY NoTapsQuiet DEF Quiet, IsTap, NoWriter, IsWriter, TapHandlers, SavesSession
  <2>2. Agreement(Session, Screen, isLoading, userInfo, requests, replies)
    BY <2>1 DEF ScreenInv
  <2>3. Calls = {} => NoHomeRead(requests) /\ NoHomeRead(replies)
    BY DEF Calls, ToSet, NoHomeRead
  <2> QED BY <2>2, <2>3 DEF Agreement, Shows
<1>4. TypeOK /\ TypeOK' /\ CopiesInv /\ [Next]_vars => CopiesInv'
  BY CopiesKept
<1> QED BY <1>1, <1>2, <1>3, <1>4, InitCopies, TypeCorrect, OneScreenOnly, PTL DEF Spec

=============================================================================
