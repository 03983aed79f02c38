# taskManager in TLA+

This directory holds TLA+ models of the React Native application `taskManager`,
the TLC runs that check them, and TLAPS proofs of what matters most in them.

- 1 [The system](#1-the-system): the inventory
- 2 [The modules](#2-the-modules): what models what
- 3 [The runs](#3-the-runs): what is checked, with which bounds and fairness
- 4 [The proofs](#4-the-proofs)
- 5 [Where code and words disagree](#5-where-code-and-words-disagree)
- 6 [What is not modelled](#6-what-is-not-modelled)
- 7 [The plan](#7-the-plan)

How to run: `tlc -config X.cfg M` with the pairs of section 3, and
`tlapm M.tla` with the eight modules whose name ends in `Proofs`.

## 1 The system

The repository is a React Native 0.68 / React 17 application with its
dependencies checked in. Its own code is some 1,270 lines of JavaScript in
`src/App.js`, `src/index.js` and `src/src/`; there is no README and no design
document, and one test, which renders `App` and asserts nothing. The behaviour
is decided by that code together with two vendored libraries it leans on at
every step: React Navigation (which screen is shown, and which screen a
`goBack` or `replace` really acts on) and AsyncStorage (the only persistent
state). The inventory below is complete for the application's code and names
the parts of the libraries it uses.

| component | state | operations | talks to |
|---|---|---|---|
| **App**, `App.js` | none (`useColorScheme`) | renders again when the colour scheme changes | mounts MainNavigation |
| **MainNavigation**, `routes/MainNavigation.js` | a native stack of AUTH, HOME, CREATE, DETAIL, LIST | `replace`, `reset`, `navigate`, `goBack`, swipe or system back | mounts AuthNavigation and the home pages; the navigator type is created in the component's body, so each render makes a new one and mounts everything anew |
| **AuthNavigation**, `routes/AuthNavigation.js` | a native stack of LOGIN and SIGNUP, kept in MainNavigation's AUTH route | `replace`; what it cannot handle goes to MainNavigation | mounts Login, Signup |
| **Login**, `pages/auth/Login.js` | e-mail, password (value, flag), role, error text, spinner | `isUserLoggedIn` on mounting, `handleSubmit`, the link | AsyncStorage, navigation |
| **Signup**, `pages/auth/Signup.js` | e-mail, password, name, role, error text | `handleSubmit`, the link | AsyncStorage, navigation |
| **Home**, `pages/home/Home.js` | the user's record | reads it on mounting; `logout`; `createTask` | AsyncStorage, navigation |
| **TaskCreation**, `pages/home/TaskCreation.js` | name, description, two dates, the members shown | reads the draft's members on focus; the arrow goes back and removes them | AsyncStorage, navigation |
| **MembersList**, `pages/home/MembersList.js` | rows (member, selected, value) | reads the draft, else the registered members; selects; Save | AsyncStorage, navigation |
| **TaskDetails**, `pages/home/TaskDetails.js` | none | none | - |
| **AsyncStorage** (vendored) | iOS, `RNCAsyncStorage.m`: a manifest in memory and on disk, a file per long value, a cache of those. Android, `AsyncStorageModule.java`, `ReactDatabaseSupplier.java`: a database, opened when needed | `getItem`, `setItem`, `removeItem`, one serial queue, answers by callback; Android: `onHostDestroy` closes the database | the bridge |
| **Bridge** (vendored), `MessageQueue.js` | the calls of a turn of JavaScript | enqueues, flushes | the native modules' threads |
| **Stack router and navigator** (vendored) | routes with keys, the focused index; the native stack | the actions of `CommonActions` and `StackActions`; the native dismissal event | - |

One thing about reachability: `Home.js` has a `return` (lines 31-41) before the
one that renders the Create button (43-66), so in this commit no tap leads to
CREATE, LIST or DETAIL. The two screens of the task draft are registered and
complete; they are modelled as they will run once that return is removed.

**What makes it hard.** Nothing here runs in parallel in JavaScript, but every
handler is `async`, and between two of its awaits the user, other handlers,
effects of newly mounted screens, timers, and the operating system act:

- a handler goes on with what it read before its await, after its screen was
  unmounted, and after the screen it navigates *from* is not the focused one;
- a list of accounts is one value: it is read, extended and written back as a
  whole, with an await in between (`Signup.js:112-151`);
- the account and the session are two writes, and the process can die between
  them (`Signup.js:148-158`);
- a change of the colour scheme unmounts every screen and mounts it again while
  handlers are under way, and the nested navigator that was unmounted cleans up
  *later*, in a timeout, a state that its successor has taken over;
- `goBack()` pops whatever is focused when it runs (`MembersList.js:46`);
- on iOS the user swipes a screen away natively and JavaScript hears of it
  afterwards;
- a failing write on iOS leaves the copy in memory changed, the file not; a call
  there touches files, then the manifest, and the process can die in between;
- on Android another thread closes the database under a transaction, and a
  database that does not open is deleted with everything in it.

**What makes it correct**, component by component: no account is lost or listed
twice; a session belongs to a registered account, in memory and after a
restart; the screen agrees with the session; a logout is final and disturbs no
form; the spinner ends; forms let complete input through only; a late native
event removes its own screen only; the draft's screens nest, show what is
stored, and a new draft starts empty; the store keeps what it acknowledged, runs
calls one at a time and in order, and ends each of them. `PROJECT.json` lists the hazards with
their lines and the properties aimed at them.

## 2 The modules

```
            RNCAsyncStorage  SQLiteStorage     (refinements of AsyncStorage)
                       :      :
StackRouter           AsyncStorage      Accounts        AuthForms
   |      \          /       \          :
StackNavigator   AuthSession  TaskDraft : (refinement of AuthSession)
   |                |    \       |
MCStackNavigator    |  MCAuthSession, MCTaskDraft
             AuthSessionProofs
                    |
             AuthAccountsProofs
                    |
             AuthScreensProofs

StackNavigatorProofs, RNCAsyncStorageProofs, SQLiteStorageProofs, AuthFormsProofs
and TaskDraftProofs extend the module of their name.
```

**StackRouter** is the router as pure operators on `[index, routes]`, one per
action (`StackRouter.tsx`, `BaseRouter.tsx`), each returning the new state or
`NoState` where the code returns `null`. Params, paths, `getId`, and the change
of the list of screens are left out: the application uses none of them. Keys
are arguments, since the code makes them up with `nanoid`.

**StackNavigator** is a navigator on its own: `nav` is its router state, and
`dismissals` are the native swipes JavaScript has not heard of. `Swipe` is the
gesture and `HandleDismissal` the `onDismissed` handler, which targets
its own route by key (`NativeStackView.native.tsx:413-421`); the other actions
are those a screen can dispatch. The handler pops `dismissCount` routes, which is 1
here: it is 1 of an interactive swipe and, on Android, always (`RNSScreen.mm:762-774`,
`ScreenDismissedEvent.kt:16`). Only holding the header's back button dismisses several
screens at once, and both navigators hide their header (`MainNavigation.js:13`,
`AuthNavigation.js:10`).

**AsyncStorage** is the store as its callers meet it: `requests` is the native
serial queue and `replies` the callbacks JavaScript has not run. `Execute` runs
the oldest call, `Fail` makes it fail the way each platform can, `Restart` is
what a new process finds. A request carries the client's *continuation*, i.e.
which await of which handler it answers and what that handler's closure holds;
the client's `RunCallback` takes it up from `replies`.

`mem` is what a `getItem` answers, `disk` what a restart finds, and `staged` what
the manifest in memory and the files amount to, which is what the next write of the
manifest leaves on disk. The three differ on iOS only. There a write of the manifest
writes no value's file, and a value's file alone counts only when the manifest on disk
refers to it (`FileCounts`), so what the disk holds after a call depends on what the
call writes of the two (`Persisted`, `TouchesFile`, `Remains`): a crash or a failing
write finds the file changed and the manifest not, or the other way round. Each place
where a call can fail is an alternative of `Fail`:

| alternative | where the call fails | what is left |
|---|---|---|
| `FailsToSetUp` | directory or manifest cannot be read | nothing has changed |
| `FailsToPersist` | the manifest cannot be written | the change is in memory, in `staged`, and perhaps in the value's file |
| `FailsToWriteFile` | a long value's file cannot be written | the cache has the new value if the manifest sends readers there; `staged` and `disk` have the old one |
| `FailsToReadFile` | a long value's file cannot be read | its key is gone from memory, and from the disk with the next write of the manifest |
| `FailsInDatabase` | Android's transaction | rolled back, as far as there was one |

`Evict` is the system emptying the cache, which shows where it was ahead of a file. The
history variable `filesFailed` says that one of the two failures of a value's file has
happened. On Android `DeleteDatabase` empties the store, and `ActivityDestroyed` closes
it.

**RNCAsyncStorage** is the iOS store itself: `manifest` and `manifestFile`,
`files`, the `cache`, `haveSetup`, and a call in two steps, since the process
can die between what `_writeEntry` or `multiRemove` does to files and memory
and the write of the manifest (`underWay`). Every read and write of a file can
fail, `removeItemAtPath:error:nil` without saying so, and `Evict` is `NSCache` under
pressure. `Visible`, `Uncached` and `OnDisk` are what the abstract `mem`, `staged` and
`disk` stand for; a call under way maps to the state before it (`Before`). The mapping
has no exceptions: every failure of the code, those of a value's file included, is a
behaviour of AsyncStorage, and so one that the session and the draft are checked
against. The history variable `may` is, per key, what the callers of the calls so far
must expect to find: `Kept` says how much of the store's promise is left after them.

**SQLiteStorage** is the Android store: the batch of `MessageQueue.js`
(`queue`), the tasks of `SerialExecutor.java`, and the active task's progress
through `multiGet`, `multiSet` or `multiRemove` (`stage`: ensure, then query, or
begin, statement, commit, end). `tries` is the loop of `ensureDatabase`,
`transaction` the one of the open database; `CloseDatabase` is `onHostDestroy` on
another thread, at any moment except during `ensureDatabase`, which is
synchronized. Closing in the middle loses the transaction: what the code then
does in a database without one is `RemoveAtOnce` or `Throw`. Whether a
connection that was closed still locks the file is left open: a following
statement may work, fail, or find a database that does not open. It implements
AsyncStorage with Platform = "android", a call under way mapping to `was`, the
rows at its start.

**AuthSession** composes these: Login, Signup, Home, both navigators and the
store. There is one action per handler step, from one await to the next:

| action | code |
|---|---|
| `SubmitLogin`, `SubmitSignup`, `TapLogout` | the handlers up to their first call |
| `LoginFound` -> `SessionSaved` | `Login.js` `handleSubmit` after each await |
| `SignupFound` -> `SignupAdded` -> `SessionSaved` | `Signup.js` `handleSubmit` after each await |
| `IsUserLoggedIn`, `GetUserInfo` | the mount effects of Login and Home after their await |
| `LoggedOut` | `Home.js` `logout` after its await |
| `Rejected` | an await that throws: none of the handlers catches |
| `ChangeColorScheme`, `CleanUpState` | everything is mounted anew, and the timeout of the AuthNavigation that was unmounted (`useNavigationBuilder.tsx:537-559`) |
| `Crash`, `BackOutAndReturn` | the process dies; Android's back button closes the activity while the same JavaScript goes on |

A `replace` bubbles as `useOnAction` does: AuthNavigation first, MainNavigation
when it has no such screen. `Mount` starts the new screen from its initial
state, makes its mount effect's call and marks handlers of the old screen as
no longer mounted: their `setState` does nothing, their navigation still acts.
A tree that Android closed cannot be navigated any more. The keys in
this module are two constants, for all a key decides here is whether
AuthNavigation has its first state still, which is not stored.
The lists of accounts hold e-mail addresses; password and name are carried
along by the code and compared nowhere.

**Accounts** is the abstract specification: accounts are only added, each once,
and sessions are of accounts that exist. `AuthSession!PromisedSpec` maps it onto
the store in memory.

**AuthForms** is what precedes `AuthSession`'s first call: the fields, their
flags, and the early returns, on either screen. In `AuthSession` all refused
input is one value, `NoEmail`.

**TaskDraft** composes the router and the store once more, for TaskCreation and
MembersList above Home. The screens stay mounted beneath one another, so
`Show` distinguishes those that stay from those that start anew, and the
focus effect runs when CREATE is mounted focused or focused again. A row keeps
its member, its selection and whether its number is positive, which is all
`TaskCreation.js` filters by; `Chosen` keeps each chosen row at its place in the
list, for what the screen shows of the rows is which ones, in that order. `MemberSignsUp` stands for a whole logout and
sign-up of somebody, the steps of which are AuthSession's. The history variable
`abandoned` says that the last draft was left by the system's back or a crash,
which leave its members in the store, and not by the arrow. A draft may be long, with a
file of its own on iOS, and may become short again: Save before the rows have arrived
writes an empty list over it, which takes the file away before the manifest is written
(`TouchesFile`). The list of users, which these screens only read, is short here.

Operators under a comment that begins with "Mutant:" are variants of the
definition below them with a plausible bug. They are used by no specification;
each shows that the property it is named with in `PROJECT.json` would notice.

## 3 The runs

| configuration | module | checks | distinct states |
|---|---|---|---|
| `MCStackNavigator` | `MCStackNavigator` | `NavOK`, `SwipedHasAScreenBeneath`, `DismissalRemovesOnlyItsRoute`, `GoingBackKeepsTheBottom` | 748 |
| `AuthPatient` | `MCAuthSession` | `TypeOK`, `OneScreen`, `PromisedSpec`, `LoadingEnds`, `ScreenFollowsSession` | 164 k |
| `AuthDoubleTaps` | `MCAuthSession` | `EmailsUnique`, `SessionMatchesScreen`, `LogoutNeverInterrupts` | 696 k |
| `AuthFaultsIOS` | `MCAuthSession` | `SessionRegistered` | 1,489 k |
| `AuthAndroid` | `MCAuthSession` | `PromisedSpec`, `RemovedForGood`, `LostTogether` | 343 k |
| `AuthLogoutIOS` | `MCAuthSession` | `RemovedForGood`, violated | - |
| `AuthForms` | `AuthForms` | `FlaggedIsRefused`, `SentIsComplete` | 3.8 k |
| `AuthFormsName` | `AuthForms` | `NameIsEnforced`, violated | - |
| `DraftPatient` | `MCTaskDraft` | `NoDraftLeft`, `RowsComplete`, `DraftShowsSaved`, `SaveReturns`, `RowsArrive` | 80 k |
| `DraftHasty` | `MCTaskDraft` | `TypeOK`, `ScreensNest`, `RowsRegistered`, `DraftShowsSaved` | 572 k |
| `StoreIOS` | `MCRNCAsyncStorage` | `TypeOK`, `Kept`, `ImplementsStore` | 511 k |
| `StoreAndroid` | `SQLiteStorage` | `TypeOK`, `ImplementsStore`, `CallsEnd` | 306 k |

**What they show.**

*The navigator.* In every order of router actions and swipes the state stays fit
to render, a swipe's event that arrives after the stack was pushed, popped,
replaced or reset removes exactly the swiped screen or nothing, it never meets
the bottom route (where POP would do nothing and the native stack stay one
screen short), and going back never changes the bottom screen.

*The session.* A user who waits for one tap before the next gets what Accounts
promises, across remounts, late mount effects, the clean-up timer and crashes
(`AuthPatient`), and on Android with a failing transaction and an activity closed
with calls under way as well, until a database that does not open is deleted;
what is lost then is everything at once, so no list is ever built on half of the
data (`AuthAndroid`). With two taps under way at once
the full promise does **not** hold: two overlapping sign-ups read the same list
and the later write drops the earlier account. What still holds then, in every
interleaving, is that no address is listed twice, that screen and session agree
as soon as no tap is under way, and that a logout reaches no usable form
(`AuthDoubleTaps`). A session has its account stored beside it, in memory and on disk,
wherever the process dies and although the manifest cannot be read or written, as long
as no *file of a list* fails (`AuthFaultsIOS`). That restriction is the code's, and the
run reaches what is beyond it: a sign-up whose list could not be written to its file
leaves the account in the cache, the login that finds it there stores a session, and the
disk then has that session without the account; a list that could not be read looks
empty to the next sign-up, which writes one account in its place.
Unless a call fails, the spinner ends and the screen follows the session
(`AuthPatient`).

*The draft.* A user who taps Save twice, leaves at any moment and
meets a failing call never gets screens out of order, a row that is nobody's or
a member listed twice; and TaskCreation, whenever everything has settled and
nothing failed, shows what is stored (`DraftHasty`). One who waits for Save and
leaves by the arrow leaves no draft behind, not even one abandoned earlier,
finds everybody listed in the next, gets back from every Save and sees the rows
arrive, and TaskCreation shows what is stored across a remount and a crash, too
(`DraftPatient`).

*The store.* On iOS, whatever fails, whenever the cache is emptied and the process
dies, a key is never found with anything but its last acknowledged value, that
of a later call that failed, or one of the exceptions `Kept` names; and all of that
is what AsyncStorage allows (`StoreIOS`). On Android the same holds of the database,
although it is opened, closed and deleted under the calls, and every call that has
begun ends (`StoreAndroid`). So what the session's and the draft's runs assume of the
store is what its code does.

**Bounds.** Each is a constant of its module and bounds a guard, never a state:

- *Two addresses*: the shortest list with an order, and two accounts to confuse.
  They are interchangeable, hence the symmetry in the safety runs; the runs
  with liveness properties use none.
- `MaxTaps` = 2 taps under way is what a race between handlers takes; each
  handler may in addition meet mount effects of other screens, which are not
  bounded. With 1 the user waits: that is the hypothesis of the `Patient`
  runs and not an approximation.
- `MaxInterrupts` (remounts, crashes and relaunches together) is 2 in
  `AuthPatient`, so that a second one meets what the first left, and 1 in the
  larger runs, all of whose properties are proved for any number.
- `MaxFaults` = 2 on iOS: one failing write to part memory and file, and
  another during what follows.
- `LongKey` and `Long`: in the session's iOS runs a list of accounts may be too long for
  the manifest, as it is after some ten sign-ups; the session never is. `Long` is the
  lists of two (`LongLists`), so that a list outgrows the manifest during the run, or
  all of them (`EveryList`), so that the first list has its file already. In
  `AuthFaultsIOS` one list is long and the other is not. In the draft's runs the drafts
  of two members are long (`LongDrafts`).
- `MaxDeletions` = 1 in `AuthAndroid`: one loss with handlers under way; 2 in
  `StoreAndroid`, so that the second attempt to open fails and another follows.
- `MaxCalls` = 3 for the draft: two Saves and the read one of them sets off.
  `MaxRemounts` and `MaxCrashes` are 1 in `DraftPatient`, whose user waits for one
  Save, and 0 in `DraftHasty`: two Saves under way *and* a remount or a crash are
  left to the theorems, which hold for any number of each.
- The stores: two keys, one of them with long values on iOS, two values to
  tell old from new, and two calls under way, one behind the other.
- `MaxDepth` = 3 routes and `MaxDismissals` = 2 events with 5 keys: the
  application's deepest stack, a route above and one beneath the dismissed
  one, and two events that can overtake changes. Five keys are three in
  the stack and two in events; a fresh one must exist when the stack is
  shorter.
- `MaxNameLength` = 3 is the first length that is accepted.

`DraftHasty` uses a view without the history variable `abandoned`, which no
guard reads and none of its four properties mentions; `StoreIOS` permutes the
two long values.

**Fairness.** `StoreStep`, `RunCallback` and `CleanUpState` are weakly fair: the
native queue is serial and runs what is queued, the event loop runs pending
callbacks and timers. In `SQLiteStorage` it is the active task's next step
(`ThreadStep`), whatever it is: the pool has given it a thread. Nothing is
assumed of the user, who may stop typing and tapping at any time, nor of colour
schemes, crashes and failures. The leads-to properties say what follows when the
user does nothing more, too.

**Deadlock** is checked except where a call can fail (`AuthFaultsIOS`,
`AuthAndroid`, `AuthLogoutIOS`): Login's mount effect catches nothing, so a
failed read leaves a spinner without any control. When the interrupts
are used up that is a state with no step, and it is really where the program
stops until the next start.

## 4 The proofs

The theorems hold for every set of addresses, keys, names and values and for all
values of the bounds, unless a hypothesis says otherwise. They rest on the
modules' named assumptions alone: `StorageAssumption` and `SessionAssumption` (the
three keys are the stored ones, `NoEmail` is no address, `Missing` is neither a list
of addresses nor an account, long values are lists, the bounds are naturals),
`ValueAssumption` of each store, `NavigatorAssumption`, and `DraftAssumption`, where
`Missing` is no list of rows or addresses either.

| module | theorem | states | under |
|---|---|---|---|
| `StackNavigatorProofs` | `StacksStayWellFormed` | `NavOK` | |
| | `SwipesNeverReachTheBottom` | `SwipedHasAScreenBeneath` | |
| | `DismissalsAreExact` | `DismissalRemovesOnlyItsRoute` | |
| | `BottomStays` | `GoingBackKeepsTheBottom` | |
| `AuthSessionProofs` | `TypeCorrect` | `TypeOK` | |
| | `AccountsNeverRepeat` | `EmailsUnique` | |
| | `OneScreenOnly` | `OneScreen` | |
| `AuthAccountsProofs` | `SessionsAreRegistered` | `SessionRegistered` | one tap; until a deletion or the failure of a list's file |
| | `AccountsImplemented` | `PromisedSpec` | one tap; faithful |
| | `RemovalsAreFinal` | `RemovedForGood` | faithful |
| | `LossesAreTotal` | `LostTogether` | one tap; on iOS until the failure of a list's file |
| `AuthScreensProofs` | `LogoutsStayAtHome` | `LogoutNeverInterrupts` | |
| | `ScreensMatchTheSession` | `SessionMatchesScreen` | iOS |
| `AuthFormsProofs` | `FlagsAreRight` | `FlaggedIsRefused` | |
| | `SubmissionsAreComplete` | `SentIsComplete` | |
| `TaskDraftProofs` | `ScreensStayNested` | `ScreensNest` | |
| | `DraftTypeCorrect` | `TypeOK` | |
| | `RowsAreRegistered` | `RowsRegistered` | |
| | `DraftIsCurrent` | `DraftShowsSaved` | |
| | `DraftsAreRemoved` | `NoDraftLeft` | one tap; until a failure |
| | `RowsAreComplete` | `RowsComplete` | one tap; until a failure |
| `RNCAsyncStorageProofs` | `StoreTypeCorrect` | `TypeOK` | |
| | `NothingElseIsFound` | `Kept` | |
| | `StoreImplemented` | `ImplementsStore` | |
| `SQLiteStorageProofs` | `TypeCorrect` | `TypeOK` | |
| | `Implements` | `ImplementsStore` | |

*One tap* is `MaxTaps = 1`, the user who waits. *Faithful* is `Platform = "android"`
or `MaxFaults = 0`: no write of iOS's manifest or files can fail. None of these hypotheses can
be dropped: with two taps under way the later sign-up writes a list without the
earlier one's account, and the second Save pops TaskCreation; an account whose write
failed on iOS is found in memory until the next launch, and then lost, and a session
whose removal was retried there comes back; after a deletion a handler under way saves
a session without its account; a failed removal leaves a draft. The restrictions
*until* are antecedents in the formula (`deletions = 0 => ...`, `faults = 0 => ...`,
and `~filesFailed => ...` in `SessionRegistered` and `LostTogether` themselves), not
assumptions on the constants.

**The navigator.** The invariant is `NavOK` with `SwipedHasAScreenBeneath`: a swiped
route is not the bottom one. Every action but `replace` and `reset` keeps the
bottom route, and those two put a route there whose key nobody has swiped. Most of
the proof is about the router's operators, each of which keeps a stack well formed
(`PushOK`, `PopOK`, `NavigateOK`, ...). Two of them search the stack from its
end, which rests on a finite set of numbers having a largest (`LargestOf`).

**The session.** `TypeOK` is inductive as it stands. It has to say of every queued
call that it is one some handler makes, with the key that handler uses and a value
of that key's kind (`RequestOK`), and of every callback that its value is of the kind
its handler expects (`ReplyOK`); the lists in `mem`, `staged` and `disk` stay lists of addresses
because of it. However a call ends, each of the three holds what one of them held
before, with what the call writes, without its key, or nothing at all
(`StoreStepCases`), so what is claimed of a store has to be shown of these copies only.

`EmailsUnique` is not inductive: a list about to be written was computed from an
answer read earlier. `UniqueInv` adds that every list *on its way*, in a `signup.add`
request or an answer to a `find`, is free of repetitions as well. Stale as it may be,
prepending an address that it does not contain keeps it so; no relation to the list
stored by now is needed, which is why overlapping sign-ups lose accounts but
never repeat one. `OneScreen` is inductive with `TypeOK`, and the work is in the
router: a `replace` that AuthNavigation does not know reaches MainNavigation and
leaves one route in each.

For what Accounts promises a user who waits, the relation to the store is what
matters. `Held(store, requests, replies)` says that at most one tap is in the queues
and what its handler *knows* of the store: an answer to a `find` is the stored
list, a list to be written is the stored one and one address it lacks, and a session
to be saved is of an account listed. With one tap only that tap's own calls
write, so nothing it knows goes stale; mount effects, remounts and Android's back,
which disown handlers and add reads, keep it (`StillHeld`). `KnowsInv` is this of
memory, with each session beside its account in memory and on disk
(`StoresKnow`), and memory listing at least what the disk lists. The last part is what
a crash after a failed write needs. It is claimed while no file of a value has failed and
no database was deleted. Up to then `staged` is `mem` (`CopiesInv`), so that a write of
the manifest leaves on disk what memory answers; and a list that has its own file is
never written shorter by a handler that knows the stored one (`NeverShrinks`), so that a
crash finds the file of the old list or of the new one and not none. Each step then is a step of Accounts
or none (`CallPromises`, `CrashKeeps`). A deletion ends this knowledge of memory, but
not of the store the handler read: `BuiltInv` says there is *some* store of which the
queues know and which lists at least what memory does, and memory at least what the
disk does. It survives a deletion, which empties both, and gives `LostTogether`: what is
written of such a list has everything memory and disk have (`ListsGrow`).
`RemovedForGood` needs `CopiesInv` only, memory and disk being the same store where
nothing fails on iOS, for any number of taps.

A late logout harms no form, however many are under way, because of an order in
two queues that are one: `LogoutInv` says that the read a Login makes on mounting is
queued after every logout still to reset, so while one is to come the read's answer
is too, and Login still shows its spinner. Where there is a form there is no logout.
`ScreenInv` is about the callbacks still to run. `Told` says that the last answer to a
saved session or a logout among them, and every read answered after it, tell what is
stored; when no such answer is left, screen and session agree, and Home has shown the
session's account or is going to read it. The theorem is for iOS
because on Android it is false without a further restriction: the login of an activity that
was closed saves its session after the new Login has looked, and cannot navigate.

**The draft.** The stack is one of three (`Stacks`). `RowsInv` carries the rows through
both screens, the three copies of the store, and the calls and answers between them,
relative to the registered members; that list is short, the same in all three copies, and
only grows, which is why rows read long ago stay rows of somebody. A draft that loses its
file to a failure or a crash is a store without it (`Draftless`), of which all this holds.
`FreshInv` is for `DraftShowsSaved`: while TaskCreation is focused and no call has
failed, its last read is queued behind every write, or is answered with what is stored
and still to be shown, or has been shown. As long as no call has failed the cache is not
ahead of the files (`AheadInv`), so that emptying it shows nothing older. `FreshInv` holds for any number of overlapping
Saves, since every return to the screen makes a new read. `SaveInv` (one Save at most,
and only while MembersList is there) and `ListInv` are for the user who waits: a
removal of the draft that is still queued precedes every later read of the list; until
then, what is stored, is being saved, or was answered is a complete list of rows.

**Android's store.** The refinement mapping shows a call when its callback is
invoked and, until then, the table and the connection of when it began (`was`).
`IInv` is `TypeOK` and `CallInv`: while a call is under way the table is what it was,
unless the call is a removal that found its transaction gone and was done at once; a
read is in none of the stages of a write; and a database that was open when the call
began, and was not closed since, is open. Hence a call that ends well has written
its value once (`ExecuteSeen`), one that fails has written nothing or is a removal
(`FailSeen`), and a process that dies in between leaves either. Each step maps
to one abstract step or to none: the opening of the database, the statements of the
transaction and the flush of the JavaScript queue are invisible; `deleteDatabase`,
the callback, the closing of the database and the end of the process are seen.

**The store of iOS.** `SafeInv`, which holds whatever fails, has `TypeOK`, what a call
between its change and the manifest's write has done (`CallInv`), that a file the
manifest on disk does not refer to yet is there (`FileInv`), and `Kept` within a call as
well, of the cache and of the file the cache hides (`KeptInv`): the cache is emptied at
any moment, and then the file is what is found. For the refinement, `ProgressInv` says
what a call under way has done, in terms of what was found under its key when it began:
whether it changes the manifest follows from whether that had null there, and the disk is
as it was or has the change to the value's file, which counts if the manifest on disk
refers to it. `WriteManifest` and `SkipManifest` then are the abstract `Execute`
(`ManifestExecutes`, `SkippingExecutes`), each failure is its alternative of `Fail`
(`SetUpFails`, `ReadFails`, `FileFails`, `ManifestFails`), an eviction is `Evict` or
nothing (`EvictionShows`), and a crash leaves what `Remains` allows (`CrashRestarts`).

**The forms.** Both invariants are inductive: `onChangeText` clears the flag with the
text, and both screens decide from the validation of this submission, never from the
flags of the last one.

The proofs about the session and the draft have a section on queues (what `Append`,
`Tail`, `\o` and `Disowned` do to what a queue holds and to its order), one lemma per
group of actions and invariant, and the temporal theorems last.

**Only model-checked** are `LoadingEnds`, `ScreenFollowsSession`, `SaveReturns`,
`RowsArrive` and `CallsEnd`: they are liveness properties, and the proof system
handles neither `ENABLED` nor fairness. `AuthLogoutIOS` and `AuthFormsName` are
counterexamples.

## 5 Where code and words disagree

- **A logout that is retried may not last (iOS).** `removeItem` "Removes an item
  for a `key`" (`AsyncStorage.native.ts:98`). When the manifest cannot be
  written, `multiRemove` has removed the key from the copy in memory already;
  tried again, it finds nothing to remove, writes nothing and reports success,
  and after a restart the session is back. Run `auth_logout_ios`.
- **A short name is accepted.** Signup flags a name of fewer than three
  characters with "Please enter valid name" (`Signup.js:50-57`), but
  `handleSubmit` tests `!nameValidation`, which is false of an object; a form
  with a valid address and password goes on with any name. Run
  `auth_forms_name`.

Two more disagree with a comment of the store's own code; the models show them
as behaviours, without a run of their own:

- **One failed open deletes the database (Android).** "We do 2 retries: first
  without database deletion and then with deletion"
  (`ReactDatabaseSupplier.java:78-79`). The loop makes two attempts in all, the
  second of which deletes first: `FailToOpen`, `DeleteDatabase` in
  SQLiteStorage. A busy or locked file costs every account.
- **A file that cannot be read passes for one that is not there (iOS).** "file
  does not exist after all, so remove from manifest"
  (`RNCAsyncStorage.m:600-601`) is also what happens when `RCTReadFile` fails:
  `FailToReadFile`. The key then reads as null, and the next write of the manifest
  makes that last. Of the manifest itself the code says why this is wrong
  (lines 533-536).

Met while modelling, and contradicted by nothing the repository says, so no
property claims otherwise: two sign-ups under way lose an account; a failed
read of the session leaves the spinner until the next start; a change of the
colour scheme in Signup throws the user back to Login a moment later; Save
tapped before the rows arrive erases the saved selection; Save tapped twice
leaves TaskCreation as well; the system's back and a crash keep the draft for the
next task, which then lacks the members registered since; on Android, leaving the
app from the first screen with a login under way can show the login form although
a session is stored, until the next mount;
on iOS, a change acknowledged after a failed write of the manifest may be skipped
and lost, a short value that replaces a long one can lose both, and a value whose
file was not written is read until the cache is emptied, and a session may be stored
meanwhile for an account that only the cache has; a list whose file cannot be read is
replaced by the next sign-up's; and on Android, a
handler under way while the database is deleted saves a session without its
account.

## 6 What is not modelled

- Params, paths, deep links, `getId`, listeners for `beforeRemove`: the
  application uses none.
- `multiMerge`, `clear`, `getAllKeys` of the store: not called. Several keys in
  one call: `getItem` and the others pass one. The delegate of iOS: none is set.
- A list of users with its own file below TaskDraft: AuthSession has it, and its
  failures.
- Several screens dismissed at once: they take the header's back button, which is hidden.
- The deletion of Android's database below TaskDraft: AuthSession has it.
- The draft's text fields, dates and date pickers: component state that no other
  code reads.
- The Pods' C++ (Boost, Folly, Flipper and the like, most of the repository by
  size): third-party libraries no code of the application calls.
- `TaskDetails`, `Styles`, the launchers of both platforms, the rest of
  `node_modules`: no state of the application's, or third-party code.
- The layout, the keyboard, the wording of messages.

## 7 The plan

The order was: the router and the store, on which everything rests;
the session, which is what the application is for; its forms; the draft; the two
stores as they are; then the proofs, in the same order. All of that is done: every
safety and action property of the passing runs is a theorem, with the hypotheses of
section 4. What is left:

1. `SessionMatchesScreen` on Android, for a closed activity without a login under
   way: the weakest hypothesis under which it holds there.
2. The deletion of Android's database below TaskDraft, with `NoDraftLeft` and
   `RowsComplete` until it happens.
3. The whole application: AuthSession and TaskDraft over one store and one
   MainNavigation, so that a logout with a draft open, and a draft of another
   user, become behaviours; and the navigator's swipes in it.
