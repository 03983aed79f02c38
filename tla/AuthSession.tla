----------------------------- MODULE AuthSession -----------------------------
(***************************************************************************)
(* Signing up, logging in and logging out: the Login, Signup and Home      *)
(* screens, the stack navigators that show one of them at a time, and the  *)
(* store they keep the accounts and the session in.                        *)
(*                                                                         *)
(* Every handler is async: it runs up to a call of the store, and goes on  *)
(* when the answer arrives, with what it read before, even when its screen *)
(* is no longer mounted (setState does nothing then, navigation still      *)
(* acts).  Between two steps the user types, taps and leaves, the colour   *)
(* scheme changes, the process dies.                                       *)
(*                                                                         *)
(* An account is its e-mail address and its role; the password and the     *)
(* name are carried along and decide nothing here.  NoEmail stands for any *)
(* input handleValidation refuses.                                         *)
(***************************************************************************)
EXTENDS AsyncStorage, StackRouter

CONSTANTS
    Email,          \* addresses that pass validation
    NoEmail,
    MaxTaps,        \* bound: Login, Sign up and Log out taps under way at once
    MaxInterrupts   \* bound: remounts, crashes and relaunches

USER_ADMIN_KEY == "useradminprivatekey"
USER_MEMBER_KEY == "usermemberprivatekey"
USER_LOGGEDIN_KEY == "userloggedkey"

ASSUME SessionAssumption ==
    /\ StorageKey = {USER_ADMIN_KEY, USER_MEMBER_KEY, USER_LOGGEDIN_KEY}
    /\ NoEmail \notin Email
    /\ Missing \notin Seq(Email) /\ Missing \notin [email : Email, isAdmin : BOOLEAN]
    /\ LongKey \subseteq {USER_ADMIN_KEY, USER_MEMBER_KEY}
    /\ \A users \in Long \cap Seq(Email), email \in Email :
          ~Contains(users, email) => <<email>> \o users \in Long
    /\ MaxTaps \in Nat \ {0} /\ MaxInterrupts \in Nat

VARIABLES
    main, auth,     \* MainNavigation and, nested in its AUTH route, AuthNavigation
    cleanUp,        \* an unmounted AuthNavigation's timer is still to run
    form,           \* the mounted Login or Signup: email.val, isAdmin, error
    isLoading,      \* Login's spinner
    userInfo,       \* Home's userInfo; Missing before it is read
    interrupts

navVars == <<main, auth, cleanUp>>
screenVars == <<navVars, form, isLoading, userInfo>>
vars == <<storageVars, screenVars, interrupts>>

Account == [email : Email, isAdmin : BOOLEAN]

UserKey(isAdmin) == IF isAdmin THEN USER_ADMIN_KEY ELSE USER_MEMBER_KEY

\* JSON.parse(item) || []
Users(item) == IF item = Missing THEN <<>> ELSE item

-----------------------------------------------------------------------------
(* Navigation.  Every replace and reset makes up a new route key, so the   *)
(* screen is always a new one; all the key itself tells is whether         *)
(* AuthNavigation has navigated, and its state is stored in its route.     *)

NewKey == "nanoid"
InitialKey == "initial"

MainRoute == {"AUTH", "HOME", "CREATE", "DETAIL", "LIST"}
AuthRoute == {"LOGIN", "SIGNUP"}

MainInitial == InitialState("AUTH", NewKey)
AuthInitial == InitialState("LOGIN", InitialKey)

Focused(m, a) ==
    IF FocusedRoute(m).name = "AUTH" THEN FocusedRoute(a).name
    ELSE FocusedRoute(m).name

Screen == Focused(main, auth)

\* The handler's next await, and what it still holds of its closure.  screen
\* says what became of the component: "closed" when the whole tree is gone.
Handler(at, email, isAdmin) ==
    [at |-> at, email |-> email, isAdmin |-> isAdmin, screen |-> "mounted"]

\* What a screen's effect calls on mounting.
MountCalls(screen) ==
    IF screen = "LOGIN" THEN
        <<GetItem(USER_LOGGEDIN_KEY, Handler("isUserLoggedIn", NoEmail, FALSE))>>
    ELSE IF screen = "HOME" THEN
        <<GetItem(USER_LOGGEDIN_KEY, Handler("getUserInfo", NoEmail, FALSE))>>
    ELSE <<>>

\* The handlers in a queue once their screen is unmounted, or its tree closed.
Disowned(queue, how) ==
    [i \in DOMAIN queue |->
        [queue[i] EXCEPT !.call.screen = IF @ = "closed" THEN @ ELSE how]]

\* Mutant: Login is usable before it knows whether a session is stored.
FreshScreenNotLoading ==
    /\ form' = [email |-> NoEmail, isAdmin |-> FALSE, error |-> ""]
    /\ isLoading' = FALSE
    /\ userInfo' = Missing

\* A newly mounted screen starts from its initial state.
FreshScreen ==
    /\ form' = [email |-> NoEmail, isAdmin |-> FALSE, error |-> ""]
    /\ isLoading' = TRUE
    /\ userInfo' = Missing

\* The navigators show another screen; calls and others are the queues left.
Mount(m, a, calls, others) ==
    /\ main' = m /\ auth' = a
    /\ FreshScreen
    /\ Answered(Disowned(calls, "unmounted") \o MountCalls(Focused(m, a)),
                Disowned(others, "unmounted"))

\* Mutant: the new screen is pushed on the one it should replace.
PushFromAuth(name, calls, others) ==
    LET inner == Push(auth, AuthRoute, name, NewKey)
        outer == Push(main, MainRoute, name, NewKey) IN
    IF inner # NoState
    THEN Mount(main, inner, calls, others) /\ UNCHANGED cleanUp
    ELSE Mount(outer, AuthInitial, calls, others) /\ cleanUp' = FALSE

\* navigation.replace(name) from Login or Signup: the inner navigator first,
\* and when it has no such screen the outer one.
ReplaceFromAuth(name, calls, others) ==
    LET inner == Replace(auth, AuthRoute, auth.index, name, NewKey)
        outer == Replace(main, MainRoute, main.index, name, NewKey) IN
    IF inner # NoState
    THEN Mount(main, inner, calls, others) /\ UNCHANGED cleanUp
    ELSE Mount(outer, AuthInitial, calls, others) /\ cleanUp' = FALSE

\* navigation.reset({ index: 0, routes: [{ name: "AUTH" }] })
ResetToAuth(calls, others) ==
    /\ Mount(Reset(main, MainRoute, <<[key |-> NewKey, name |-> "AUTH"]>>),
             AuthInitial, calls, others)
    /\ cleanUp' = FALSE

-----------------------------------------------------------------------------
(* The user.                                                               *)

TapHandlers == {"login.find", "login.save", "signup.find", "signup.add",
                "signup.save", "logout"}

TapsUnderWay ==
    Cardinality({i \in DOMAIN requests : requests[i].call.at \in TapHandlers})
    + Cardinality({i \in DOMAIN replies : replies[i].call.at \in TapHandlers})

\* Login renders nothing but a spinner while it is loading.
Shows(screen) == Screen = screen /\ (screen = "LOGIN" => ~isLoading)

ChangeEmail(email) ==
    /\ Shows("LOGIN") \/ Shows("SIGNUP")
    /\ form' = [form EXCEPT !.email = email]
    /\ UNCHANGED <<storageVars, navVars, isLoading, userInfo, interrupts>>

ToggleSwitch ==
    /\ Shows("LOGIN") \/ Shows("SIGNUP")
    /\ form' = [form EXCEPT !.isAdmin = ~@]
    /\ UNCHANGED <<storageVars, navVars, isLoading, userInfo, interrupts>>

\* A tap makes its handler's first call.
Tap(request) ==
    /\ TapsUnderWay < MaxTaps
    /\ Answered(Append(requests, request), replies)
    /\ UNCHANGED <<screenVars, interrupts>>

\* Input that is refused returns early and makes no call.
FindUser(at) ==
    /\ form.email # NoEmail
    /\ Tap(GetItem(UserKey(form.isAdmin), Handler(at, form.email, form.isAdmin)))

SubmitLogin == Shows("LOGIN") /\ FindUser("login.find")

SubmitSignup == Shows("SIGNUP") /\ FindUser("signup.find")

TapLogout ==
    /\ Shows("HOME")
    /\ Tap(RemoveItem(USER_LOGGEDIN_KEY, Handler("logout", NoEmail, FALSE)))

FollowLink ==
    /\ \/ Shows("LOGIN") /\ ReplaceFromAuth("SIGNUP", requests, replies)
       \/ Shows("SIGNUP") /\ ReplaceFromAuth("LOGIN", requests, replies)
    /\ UNCHANGED interrupts

-----------------------------------------------------------------------------
(* The handlers, from the answer of one call to the next.                  *)

Reply == Head(replies)
Call == Reply.call
OtherReplies == Tail(replies)

\* Mutant: an error is taken for a key that is not stored.
AwaitedOrFailed(at) == replies # <<>> /\ Call.at = at

Awaited(at) == replies # <<>> /\ Call.at = at /\ ~Reply.error

\* setState does nothing on a component that is not mounted.
SetError(text) ==
    form' = IF Call.screen = "mounted" THEN [form EXCEPT !.error = text]
            ELSE form

\* The handler makes its next call, and shows or clears its error.
GoOn(request, text) ==
    /\ Answered(Append(requests, request), OtherReplies)
    /\ SetError(text)
    /\ UNCHANGED <<navVars, isLoading, userInfo>>

Finish ==
    /\ Answered(requests, OtherReplies)
    /\ UNCHANGED <<navVars, userInfo>>

\* Mutant: the screen stays where it is.
GoNowhere == Finish /\ UNCHANGED <<form, isLoading>>

\* Only a tree that still exists can be navigated.
GoHome ==
    IF Call.screen = "closed" THEN Finish /\ UNCHANGED <<form, isLoading>>
    ELSE ReplaceFromAuth("HOME", requests, OtherReplies)

\* Mutant: the session is written over the list of accounts.
SavedAsUsers(at) == SetItem(UserKey(Call.isAdmin),
                            [email |-> Call.email, isAdmin |-> Call.isAdmin],
                            [Call EXCEPT !.at = at])

Saved(at) == SetItem(USER_LOGGEDIN_KEY,
                     [email |-> Call.email, isAdmin |-> Call.isAdmin],
                     [Call EXCEPT !.at = at])

\* Mutant: the spinner is left on when no session is stored.
IsUserLoggedInSpinning ==
    /\ Awaited("isUserLoggedIn")
    /\ IF Reply.value # Missing THEN GoHome
       ELSE Finish /\ UNCHANGED <<form, isLoading>>
    /\ UNCHANGED interrupts

IsUserLoggedIn ==
    /\ Awaited("isUserLoggedIn")
    /\ IF Reply.value # Missing /\ Call.screen # "closed"
       THEN GoHome
       ELSE /\ isLoading' = (isLoading /\ Call.screen # "mounted")
            /\ Finish /\ UNCHANGED form
    /\ UNCHANGED interrupts

LoginFound ==
    /\ Awaited("login.find")
    /\ IF Contains(Users(Reply.value), Call.email)
       THEN GoOn(Saved("login.save"), "")
       ELSE /\ SetError("User not found")
            /\ Finish /\ UNCHANGED isLoading
    /\ UNCHANGED interrupts

\* Mutant: the address is added whether or not it is listed.
SignupFoundUnchecked ==
    /\ Awaited("signup.find")
    /\ GoOn(SetItem(UserKey(Call.isAdmin),
                    <<Call.email>> \o Users(Reply.value),
                    [Call EXCEPT !.at = "signup.add"]), "")
    /\ UNCHANGED interrupts

\* Mutant: the new list holds the new account only.
SignupFoundAlone ==
    /\ Awaited("signup.find")
    /\ ~Contains(Users(Reply.value), Call.email)
    /\ GoOn(SetItem(UserKey(Call.isAdmin), <<Call.email>>,
                    [Call EXCEPT !.at = "signup.add"]), "")
    /\ UNCHANGED interrupts

\* Mutant: the session is written before the account.
SignupFoundSessionFirst ==
    /\ Awaited("signup.find")
    /\ ~Contains(Users(Reply.value), Call.email)
    /\ Answered(requests \o <<Saved("signup.save"),
                               SetItem(UserKey(Call.isAdmin),
                                       <<Call.email>> \o Users(Reply.value),
                                       [Call EXCEPT !.at = "signup.add"])>>,
                OtherReplies)
    /\ UNCHANGED <<screenVars, interrupts>>

SignupFound ==
    /\ Awaited("signup.find")
    /\ IF Contains(Users(Reply.value), Call.email)
       THEN /\ SetError("User already added")
            /\ Finish /\ UNCHANGED isLoading
       ELSE GoOn(SetItem(UserKey(Call.isAdmin),
                         <<Call.email>> \o Users(Reply.value),
                         [Call EXCEPT !.at = "signup.add"]), "")
    /\ UNCHANGED interrupts

SignupAdded ==
    /\ Awaited("signup.add")
    /\ Answered(Append(requests, Saved("signup.save")), OtherReplies)
    /\ UNCHANGED <<screenVars, interrupts>>

SessionSaved ==
    /\ Awaited("login.save") \/ Awaited("signup.save")
    /\ GoHome
    /\ UNCHANGED interrupts

GetUserInfo ==
    /\ Awaited("getUserInfo")
    /\ userInfo' = IF Call.screen = "mounted" THEN Reply.value ELSE userInfo
    /\ Answered(requests, OtherReplies)
    /\ UNCHANGED <<navVars, form, isLoading, interrupts>>

LoggedOut ==
    /\ Awaited("logout")
    /\ IF Call.screen = "closed" THEN Finish /\ UNCHANGED <<form, isLoading>>
       ELSE ResetToAuth(requests, OtherReplies)
    /\ UNCHANGED interrupts

\* No handler catches the error of a call: it ends there.
Rejected ==
    /\ replies # <<>> /\ Reply.error
    /\ Finish
    /\ UNCHANGED <<form, isLoading, interrupts>>

RunCallback ==
    \/ IsUserLoggedIn \/ LoginFound \/ SignupFound \/ SignupAdded
    \/ SessionSaved \/ GetUserInfo \/ LoggedOut \/ Rejected

-----------------------------------------------------------------------------
(* The environment.                                                        *)

\* App renders again when the colour scheme changes, the navigators create a
\* new Stack.Navigator, and every screen is mounted anew in the same state.
ChangeColorScheme ==
    /\ interrupts < MaxInterrupts
    /\ interrupts' = interrupts + 1
    /\ Mount(main, auth, requests, replies)
    /\ cleanUp' = (FocusedRoute(main).name = "AUTH")

\* The AuthNavigation that was unmounted removes, in a timeout, the state that
\* the one mounted instead has taken over, which then starts again.
CleanUpState ==
    /\ cleanUp
    /\ cleanUp' = FALSE
    /\ IF auth = AuthInitial
       THEN UNCHANGED <<storageVars, main, auth, form, isLoading, userInfo>>
       ELSE Mount(main, AuthInitial, requests, replies)
    /\ UNCHANGED interrupts

Crash ==
    /\ interrupts < MaxInterrupts
    /\ interrupts' = interrupts + 1
    /\ main' = MainInitial /\ auth' = AuthInitial /\ cleanUp' = FALSE
    /\ FreshScreen
    /\ Restart(MountCalls("LOGIN"))

\* Android's back button where no navigator can go back destroys the activity;
\* opened again, the same JavaScript renders a new tree.
BackOutAndReturn ==
    /\ GoBack(auth, FALSE, NewKey) = NoState
    /\ GoBack(main, FALSE, NewKey) = NoState
    /\ interrupts < MaxInterrupts
    /\ interrupts' = interrupts + 1
    /\ main' = MainInitial /\ auth' = AuthInitial /\ cleanUp' = FALSE
    /\ FreshScreen
    /\ ActivityDestroyed(Disowned(requests, "closed") \o MountCalls("LOGIN"),
                         Disowned(replies, "closed"))

StoreStep ==
    /\ Execute \/ Fail \/ DeleteDatabase
    /\ UNCHANGED <<screenVars, interrupts>>

\* iOS: memory runs short.
EmptyCache ==
    /\ \E key \in StorageKey : Evict(key)
    /\ UNCHANGED <<screenVars, interrupts>>

Init ==
    /\ StorageInit(MountCalls("LOGIN"))
    /\ main = MainInitial /\ auth = AuthInitial /\ cleanUp = FALSE
    /\ form = [email |-> NoEmail, isAdmin |-> FALSE, error |-> ""]
    /\ isLoading = TRUE
    /\ userInfo = Missing
    /\ interrupts = 0

UserStep ==
    \/ \E email \in Email \cup {NoEmail} : ChangeEmail(email)
    \/ ToggleSwitch
    \/ SubmitLogin \/ SubmitSignup
    \/ TapLogout
    \/ FollowLink

Next ==
    \/ UserStep
    \/ StoreStep
    \/ RunCallback
    \/ CleanUpState
    \/ ChangeColorScheme \/ Crash \/ BackOutAndReturn
    \/ EmptyCache

Spec == Init /\ [][Next]_vars

\* The native queue runs what is queued, JavaScript its callbacks and timers;
\* the user owes nothing.
LiveSpec ==
    Spec /\ WF_vars(StoreStep) /\ WF_vars(RunCallback) /\ WF_vars(CleanUpState)

-----------------------------------------------------------------------------
(* Properties.                                                             *)

Calls == {r.call : r \in ToSet(requests) \cup ToSet(replies)}

Stored(store, isAdmin) == Users(store[UserKey(isAdmin)])

Session == mem[USER_LOGGEDIN_KEY]

HandlerCall ==
    [at : TapHandlers \cup {"isUserLoggedIn", "getUserInfo"},
     email : Email \cup {NoEmail},
     isAdmin : BOOLEAN,
     screen : {"mounted", "unmounted", "closed"}]

ReadsSession == {"isUserLoggedIn", "getUserInfo"}
FindsUsers == {"login.find", "signup.find"}
SavesSession == {"login.save", "signup.save"}
KnowsEmail == FindsUsers \cup SavesSession \cup {"signup.add"}

\* The call of the store each handler step makes, and what it may carry.
RequestOK(r) ==
    /\ r.call \in HandlerCall
    /\ r.call.at \in KnowsEmail => r.call.email \in Email
    /\ \/ /\ r.call.at \in ReadsSession
          /\ r = GetItem(USER_LOGGEDIN_KEY, r.call)
       \/ /\ r.call.at \in FindsUsers
          /\ r = GetItem(UserKey(r.call.isAdmin), r.call)
       \/ /\ r.call.at = "signup.add"
          /\ r = SetItem(UserKey(r.call.isAdmin), r.value, r.call)
          /\ r.value \in Seq(Email)
       \/ /\ r.call.at \in SavesSession
          /\ r = SetItem(USER_LOGGEDIN_KEY, r.value, r.call)
          /\ r.value = [email |-> r.call.email, isAdmin |-> r.call.isAdmin]
       \/ /\ r.call.at = "logout"
          /\ r = RemoveItem(USER_LOGGEDIN_KEY, r.call)

ReplyOK(r) ==
    /\ r = [error |-> r.error, call |-> r.call, value |-> r.value]
    /\ r.error \in BOOLEAN
    /\ r.call \in HandlerCall
    /\ r.call.at \in KnowsEmail => r.call.email \in Email
    /\ r.value # Missing =>
        \/ r.call.at \in ReadsSession /\ r.value \in Account
        \/ r.call.at \in FindsUsers /\ r.value \in Seq(Email)

QueueOK(queue, OK(_)) ==
    /\ queue \in Seq(ToSet(queue))
    /\ \A r \in ToSet(queue) : OK(r)

\* Every key holds values of its kind.
StoreOK(store) ==
    /\ DOMAIN store = StorageKey
    /\ \A isAdmin \in BOOLEAN : Stored(store, isAdmin) \in Seq(Email)
    /\ store[USER_LOGGEDIN_KEY] \in Account \cup {Missing}

NavigatorOK(state, names) ==
    /\ state = Rehydrated(state.routes)
    /\ state.routes \in Seq([key : {InitialKey, NewKey}, name : names])
    /\ state.routes # <<>>

StoresOK ==
    /\ StoreOK(mem) /\ StoreOK(disk) /\ StoreOK(staged)
    /\ filesFailed \in BOOLEAN
    /\ haveSetup \in BOOLEAN
    /\ faults \in 0..MaxFaults /\ deletions \in 0..MaxDeletions
    /\ interrupts \in 0..MaxInterrupts

QueuesOK == QueueOK(requests, RequestOK) /\ QueueOK(replies, ReplyOK)

ScreensOK ==
    /\ NavigatorOK(main, MainRoute) /\ NavigatorOK(auth, AuthRoute)
    /\ form \in [email : Email \cup {NoEmail}, isAdmin : BOOLEAN,
                 error : {"", "User not found", "User already added"}]
    /\ cleanUp \in BOOLEAN /\ isLoading \in BOOLEAN
    /\ userInfo \in Account \cup {Missing}

\* The store keeps lists of addresses and one account, every queued call is
\* one a handler makes, with its answer of the matching kind, and the
\* navigators focus the last of at least one known route.
TypeOK == StoresOK /\ QueuesOK /\ ScreensOK

\* One address, one account of a role: sign-ups that overlap (two taps, a tap
\* and a remount) each check a list read earlier and write it back as a whole,
\* and still no address is ever listed twice, in the cache, the files or the
\* manifest, whichever of them failed before.
EmailsUnique ==
    \A isAdmin \in BOOLEAN :
        /\ IsInjective(Stored(mem, isAdmin))
        /\ IsInjective(Stored(disk, isAdmin))
        /\ IsInjective(Stored(staged, isAdmin))

\* Unless a call failed, the screens and the session agree as soon as no tap is
\* under way: the forms are usable only without a session, Home shows only with
\* one, and it shows the session's own account once it has read it, however many
\* stale handlers, remounts and restarts came before.
SessionMatchesScreen ==
    TapsUnderWay = 0 /\ faults = 0 =>
        /\ Shows("LOGIN") \/ Shows("SIGNUP") => Session = Missing
        /\ Screen = "HOME" => Session # Missing
        /\ Screen = "HOME" /\ Calls = {} => userInfo = Session

\* A late logout never throws the user out of a form: while its reset is still
\* to come, Home is shown, or Login is still loading (and will be after it).
LogoutNeverInterrupts ==
    \A call \in Calls :
        call.at = "logout" /\ call.screen # "closed" =>
            Screen = "HOME" \/ (Screen = "LOGIN" /\ isLoading)

\* Replacing and resetting leave nothing behind: back never returns from Home
\* to a form, nor from a form to Home.
OneScreen ==
    /\ Len(main.routes) = 1 /\ Len(auth.routes) = 1
    /\ Screen \in {"LOGIN", "SIGNUP", "HOME"}

\* A session, in memory or on disk, belongs to an account stored beside it,
\* wherever the process died and whatever failed but the file of a list: the
\* account is written first, and a crash or a manifest that cannot be written
\* keeps a prefix of the writes.  (A list's file that cannot be written leaves
\* its account in the cache, for a login to find, and one that cannot be read is
\* taken for no list by the next sign-up: RNCAsyncStorage.m.)
SessionRegistered ==
    ~filesFailed =>
        \A store \in {mem, disk} :
            LET session == store[USER_LOGGEDIN_KEY] IN
            session # Missing =>
                Contains(Stored(store, session.isAdmin), session.email)

\* "Removes an item for a `key`" (AsyncStorage.native.ts): once removeItem has
\* succeeded the item is gone for good, so a completed logout is one that a
\* restart does not undo.
RemovedForGood ==
    [][\A i \in DOMAIN replies' \ DOMAIN replies :
          replies'[i].call.at = "logout" /\ ~replies'[i].error =>
              disk'[USER_LOGGEDIN_KEY] = Missing]_vars

\* Login's spinner does not turn for ever.
LoadingEnds == (Screen = "LOGIN" /\ isLoading) ~> ~(Screen = "LOGIN" /\ isLoading)

\* A stored session ends up on Home, after a restart too, and without one the
\* user does not stay there, unless the session changes again first.
ScreenFollowsSession ==
    /\ (Session # Missing) ~> (Screen = "HOME" \/ Session = Missing)
    /\ (Session = Missing) ~> (Screen # "HOME" \/ Session # Missing)

\* The user who waits for one tap before the next gets what Accounts promises:
\* no account is lost and no session lacks its account, until Android deletes a
\* database that does not open.
Promised == INSTANCE Accounts WITH
    NoSession <- Missing,
    session <- Session,
    accounts <- {a \in Account : Contains(Stored(mem, a.isAdmin), a.email)}

PromisedSpec ==
    /\ Promised!Init
    /\ [][deletions' = 0 => Promised!Next]_<<deletions, Promised!vars>>

\* Accounts are lost all at once or not at all, and never without the session
\* (ReactDatabaseSupplier.ensureDatabase): no half of the stored data survives a
\* deletion for a later list to be built on.  On iOS nothing is lost at all before
\* the file of a list fails, which may lose that list alone.
LostTogether ==
    [][~filesFailed' /\
       (\E isAdmin \in BOOLEAN :
           ~(ToSet(Stored(disk, isAdmin)) \subseteq ToSet(Stored(disk, isAdmin)')))
       => disk' = NothingStored]_vars

=============================================================================
