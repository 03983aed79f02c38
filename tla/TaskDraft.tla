------------------------------ MODULE TaskDraft ------------------------------
(***************************************************************************)
(* Drafting a task: the TaskCreation screen over Home, the MembersList     *)
(* screen over it, and the draft's members, which the two screens pass to  *)
(* each other through the store under TEMP_MEMBERS.                        *)
(*                                                                         *)
(* TaskCreation reads them whenever it gains the focus and removes them    *)
(* when it is left by its arrow, MembersList reads them when it is mounted *)
(* and writes them on Save.  goBack names no screen: it pops whatever is   *)
(* focused by then.                                                        *)
(*                                                                         *)
(* Home opens TaskCreation by createTask, whose button is in a `return`    *)
(* that another one precedes: the screens are registered, complete and not *)
(* reachable yet.  A member is an e-mail address; the text fields and the  *)
(* dates of the draft never reach the store and are left out.  A draft may *)
(* be too long for the manifest; the users' list, which AuthSession writes *)
(* and these screens read, is a short one here.                            *)
(***************************************************************************)
EXTENDS AsyncStorage, StackRouter

CONSTANTS
    Email,
    MaxTaps,        \* bound: Saves under way while the user goes on
    MaxCalls,       \* bound: calls under way while the user goes on
    MaxRemounts,
    MaxCrashes

USER_MEMBER_KEY == "usermemberprivatekey"
TEMP_MEMBERS == "tempmembers"

ASSUME DraftAssumption ==
    /\ StorageKey = {USER_MEMBER_KEY, TEMP_MEMBERS}
    /\ LongKey \subseteq {TEMP_MEMBERS}
    /\ Missing \notin Seq(Email)
    /\ MaxTaps \in Nat \ {0} /\ MaxCalls \in Nat \ {0}
    /\ MaxRemounts \in Nat /\ MaxCrashes \in Nat

VARIABLES
    main,           \* MainNavigation
    membersList,    \* TaskCreation: the members it shows
    members,        \* MembersList: its rows
    abandoned,      \* history: the last draft was left otherwise than by the arrow
    remounts, crashes

draftVars == <<main, membersList, members>>
vars == <<storageVars, draftVars, abandoned, remounts, crashes>>

\* A row of MembersList: the member with what `...item` leaves of the defaults.
\* The number typed is abstracted to whether it is positive.
Row == [email : Email, isSelected : BOOLEAN, value : {"5", "0"}]

NewRow(email) == [email |-> email, isSelected |-> FALSE, value |-> "5"]

\* JSON.parse(item) || []
Listed(item) == IF item = Missing THEN <<>> ELSE item

\* TaskCreation shows those selected with a positive value, here each at its
\* place in the list.
Chosen(list) ==
    [i \in {k \in DOMAIN list : list[k].isSelected /\ list[k].value = "5"} |-> list[i]]

-----------------------------------------------------------------------------
(* Navigation.                                                             *)

NewKey == "nanoid"

MainRoute == {"AUTH", "HOME", "CREATE", "DETAIL", "LIST"}

Screens(m) == {r.name : r \in ToSet(m.routes)}
Screen == FocusedRoute(main).name

\* A handler's next await, and whether its screen is still mounted.
Handler(at) == [at |-> at, mounted |-> TRUE]

\* The screen whose state the handler sets; a Save sets none.
OwnerOf(at) == IF at = "create" THEN "CREATE" ELSE "LIST"

Disowned(queue, mounted) ==
    [i \in DOMAIN queue |->
        [queue[i] EXCEPT !.call.mounted = @ /\ OwnerOf(queue[i].call.at) \in mounted]]

\* Mutant: TaskCreation reads the members when it is mounted only.
CreateCallsOnMount(kept, m) ==
    IF FocusedRoute(m).name = "CREATE" /\ "CREATE" \notin kept
    THEN <<GetItem(TEMP_MEMBERS, Handler("create"))>> ELSE <<>>

\* The focus effect runs when CREATE is mounted focused, or focused again.
CreateCalls(kept, m) ==
    IF FocusedRoute(m).name = "CREATE" /\ ("CREATE" \notin kept \/ Screen # "CREATE")
    THEN <<GetItem(TEMP_MEMBERS, Handler("create"))>> ELSE <<>>

ListCalls(kept, m) ==
    IF "LIST" \in Screens(m) \ kept
    THEN <<GetItem(TEMP_MEMBERS, Handler("list.temp"))>> ELSE <<>>

\* The navigator shows state m, in which the kept screens stay mounted and the
\* others start anew; calls and others are the queues left.
Show(m, kept, calls, others) ==
    /\ main' = m
    /\ membersList' = IF "CREATE" \in kept THEN membersList ELSE <<>>
    /\ members' = IF "LIST" \in kept THEN members ELSE <<>>
    /\ Answered(Disowned(calls, kept) \o CreateCalls(kept, m) \o ListCalls(kept, m),
                Disowned(others, kept))

Navigated(m, calls, others) ==
    Show(m, Screens(main) \cap Screens(m), calls, others)

NavigateTo(name) ==
    Navigated(Navigate(main, MainRoute, name, NewKey), requests, replies)

Back == GoBack(main, FALSE, NewKey)

\* Where nothing is left to go back to, goBack does nothing.
BackOrStay == IF Back = NoState THEN main ELSE Back

-----------------------------------------------------------------------------
(* The user, who goes on while few calls are under way.                    *)

Under(at) ==
    Cardinality({i \in DOMAIN requests : requests[i].call.at = at})
    + Cardinality({i \in DOMAIN replies : replies[i].call.at = at})

On(screen) ==
    /\ Screen = screen
    /\ Under("save") < MaxTaps
    /\ Len(requests) + Len(replies) < MaxCalls
    /\ UNCHANGED <<remounts, crashes>>

CreateTask == On("HOME") /\ NavigateTo("CREATE") /\ UNCHANGED abandoned

AddMembers == On("CREATE") /\ NavigateTo("LIST") /\ UNCHANGED abandoned

\* Mutant: the arrow leaves the draft in the store.
HandleBackOnly ==
    /\ On("CREATE")
    /\ Navigated(Back, requests, replies)
    /\ abandoned' = FALSE

\* TaskCreation's arrow: back first, then the draft is removed.
HandleBack ==
    /\ On("CREATE")
    /\ Navigated(Back, Append(requests, RemoveItem(TEMP_MEMBERS, Handler("handleBack"))),
                 replies)
    /\ abandoned' = FALSE

LeaveList ==
    /\ On("LIST")
    /\ Navigated(Back, requests, replies)
    /\ UNCHANGED abandoned

\* The back button or gesture pops the screen and runs no handler.
SystemBack ==
    /\ On("CREATE") \/ On("LIST")
    /\ Navigated(Back, requests, replies)
    /\ abandoned' = (abandoned \/ Screen = "CREATE")

\* Mutant: the row that was there is kept beside the new one.
HandleMemberPressAppended(i) ==
    /\ On("LIST")
    /\ members' = Append(members, [members[i] EXCEPT !.isSelected = ~@])
    /\ UNCHANGED <<storageVars, main, membersList, abandoned>>

HandleMemberPress(i) ==
    /\ On("LIST")
    /\ members' = [members EXCEPT ![i].isSelected = ~@]
    /\ UNCHANGED <<storageVars, main, membersList, abandoned>>

HandleMemberValChange(i, val) ==
    /\ On("LIST")
    /\ members' = [members EXCEPT ![i].value = val]
    /\ UNCHANGED <<storageVars, main, membersList, abandoned>>

\* Save can be tapped before the rows have arrived, and then writes none.
HandleSubmit ==
    /\ On("LIST")
    /\ Answered(Append(requests, SetItem(TEMP_MEMBERS, members, Handler("save"))), replies)
    /\ UNCHANGED <<draftVars, abandoned>>

-----------------------------------------------------------------------------
(* The handlers, from the answer of one call to the next.                  *)

Reply == Head(replies)
Call == Reply.call
OtherReplies == Tail(replies)

Awaited(at) ==
    /\ replies # <<>> /\ Call.at = at /\ ~Reply.error
    /\ UNCHANGED <<abandoned, remounts, crashes>>

\* setState does nothing on a component that is not mounted.
SetMembers(rows) ==
    /\ members' = IF Call.mounted THEN rows ELSE members
    /\ Answered(requests, OtherReplies)
    /\ UNCHANGED <<main, membersList>>

CreateFetched ==
    /\ Awaited("create")
    /\ membersList' = IF Call.mounted THEN Chosen(Listed(Reply.value)) ELSE membersList
    /\ Answered(requests, OtherReplies)
    /\ UNCHANGED <<main, members>>

\* Mutant: a draft that is not stored ends the search.
TempFetchedOnly == Awaited("list.temp") /\ SetMembers(Listed(Reply.value))

\* Rows that were saved have both fields already, and keep them.
TempFetched ==
    /\ Awaited("list.temp")
    /\ IF Listed(Reply.value) = <<>>
       THEN /\ Answered(Append(requests, GetItem(USER_MEMBER_KEY,
                                                 [Call EXCEPT !.at = "list.users"])),
                        OtherReplies)
            /\ UNCHANGED draftVars
       ELSE SetMembers(Reply.value)

\* Mutant: the rows lack isSelected and value.
UsersFetchedBare ==
    /\ Awaited("list.users")
    /\ SetMembers([i \in DOMAIN Listed(Reply.value) |->
                     [email |-> Listed(Reply.value)[i]]])

UsersFetched ==
    /\ Awaited("list.users")
    /\ SetMembers([i \in DOMAIN Listed(Reply.value) |-> NewRow(Listed(Reply.value)[i])])

\* Mutant: Save stays on the list.
SavedAndStays ==
    /\ Awaited("save")
    /\ Answered(requests, OtherReplies)
    /\ UNCHANGED draftVars

\* Mutant: Save puts a new TaskCreation in the place of the list.
SavedAndReplaced ==
    /\ Awaited("save")
    /\ Navigated(Replace(main, MainRoute, main.index, "CREATE", NewKey),
                 requests, OtherReplies)

Saved ==
    /\ Awaited("save")
    /\ Navigated(BackOrStay, requests, OtherReplies)

Removed ==
    /\ Awaited("handleBack")
    /\ Answered(requests, OtherReplies)
    /\ UNCHANGED draftVars

Rejected ==
    /\ replies # <<>> /\ Reply.error
    /\ Answered(requests, OtherReplies)
    /\ UNCHANGED <<draftVars, abandoned, remounts, crashes>>

-----------------------------------------------------------------------------
(* The environment.                                                        *)

\* The screens are mounted anew when the colour scheme changes.
ChangeColorScheme ==
    /\ remounts < MaxRemounts
    /\ remounts' = remounts + 1
    /\ Show(main, {}, requests, replies)
    /\ UNCHANGED <<abandoned, crashes>>

\* The process dies; the session leads back to Home.
Crash ==
    /\ crashes < MaxCrashes
    /\ crashes' = crashes + 1
    /\ abandoned' = TRUE
    /\ main' = InitialState("HOME", NewKey)
    /\ membersList' = <<>> /\ members' = <<>>
    /\ Restart(<<>>)
    /\ UNCHANGED remounts

\* The user logs out and somebody signs up as a member: AuthSession's steps,
\* in one, none of which fails.
MemberSignsUp(email) ==
    LET users == Listed(mem[USER_MEMBER_KEY])
        r == SetItem(USER_MEMBER_KEY, <<email>> \o users, Handler("signup")) IN
    /\ On("HOME")
    /\ ~Contains(users, email)
    /\ mem' = Written(mem, r) /\ staged' = Written(staged, r)
    /\ disk' \in Persisted(r)
    /\ haveSetup' = TRUE
    /\ UNCHANGED <<requests, replies, failures, draftVars, abandoned>>

\* The deletion of Android's database is left to AuthSession.
StoreStep ==
    /\ Execute \/ Fail
    /\ UNCHANGED <<draftVars, abandoned, remounts, crashes>>

\* iOS: memory runs short.
EmptyCache ==
    /\ \E key \in StorageKey : Evict(key)
    /\ UNCHANGED <<draftVars, abandoned, remounts, crashes>>

Init ==
    /\ StorageInit(<<>>)
    /\ main = InitialState("HOME", NewKey)
    /\ membersList = <<>> /\ members = <<>>
    /\ abandoned = FALSE
    /\ remounts = 0 /\ crashes = 0

UserStep ==
    \/ CreateTask \/ AddMembers
    \/ HandleBack \/ LeaveList \/ SystemBack
    \/ \E i \in DOMAIN members :
          \/ HandleMemberPress(i)
          \/ \E val \in {"5", "0"} : HandleMemberValChange(i, val)
    \/ HandleSubmit
    \/ \E email \in Email : MemberSignsUp(email)

RunCallback ==
    CreateFetched \/ TempFetched \/ UsersFetched \/ Saved \/ Removed \/ Rejected

Next ==
    UserStep \/ StoreStep \/ RunCallback \/ ChangeColorScheme \/ Crash \/ EmptyCache

Spec == Init /\ [][Next]_vars

\* The native queue and JavaScript go on; the user owes nothing.
LiveSpec == Spec /\ WF_vars(StoreStep) /\ WF_vars(RunCallback)

-----------------------------------------------------------------------------
(* Properties.                                                             *)

Registered == Listed(mem[USER_MEMBER_KEY])

Settled == requests = <<>> /\ replies = <<>>

Emails(rows) == {r.email : r \in ToSet(rows)}

\* The draft's rows keep their shape on the way through the store, and its
\* members are never listed before somebody registered them.
TypeOK ==
    /\ members \in Seq(Row) /\ ToSet(membersList) \subseteq Row
    /\ \A store \in {mem, disk, staged} :
          /\ Listed(store[USER_MEMBER_KEY]) \in Seq(Email)
          /\ Listed(store[TEMP_MEMBERS]) \in Seq(Row)
    /\ \A r \in ToSet(requests) \cup ToSet(replies) :
          r.call \in [at : {"create", "list.temp", "list.users", "save", "handleBack"},
                      mounted : BOOLEAN]

\* goBack pops whatever is focused when it runs, a Save's late, and a second
\* Save's twice: still the screens are always Home, TaskCreation over it and
\* MembersList over that, and Home is never popped.
ScreensNest ==
    \E n \in 1..3 :
        [i \in DOMAIN main.routes |-> main.routes[i].name]
            = SubSeq(<<"HOME", "CREATE", "LIST">>, 1, n)

\* Whenever no call is under way, and none has failed, TaskCreation shows
\* exactly the members that are stored as chosen: after any order of saves,
\* returns, remounts and restarts, the last read came after the last write.
DraftShowsSaved ==
    Settled /\ faults = 0 /\ Screen = "CREATE" =>
        membersList = Chosen(Listed(mem[TEMP_MEMBERS]))

\* No member has two rows, or a row without being registered, whichever of
\* the two lists the rows were read from.
RowsRegistered ==
    \A rows \in {members, Listed(mem[TEMP_MEMBERS])} :
        /\ Cardinality(Emails(rows)) = Len(rows)
        /\ Emails(rows) \subseteq ToSet(Registered)

\* A user who waits for Save and leaves by the arrow leaves no draft behind, not
\* even one that was abandoned earlier: the removal comes after every write.
NoDraftLeft ==
    Settled /\ Screen = "HOME" /\ ~abandoned => mem[TEMP_MEMBERS] = Missing

\* ... and so finds every registered member in the list, those included who
\* registered after the last draft was begun.
RowsComplete ==
    Settled /\ Screen = "LIST" /\ ~abandoned => Emails(members) = ToSet(Registered)

\* A Save ends on the draft, which shows what was saved, or where the user or
\* a crash went meanwhile.
SaveReturns == (Under("save") > 0) ~> (Under("save") = 0 /\ Screen # "LIST")

\* The rows arrive as long as the list is shown.
RowsArrive ==
    (Screen = "LIST" /\ Registered # <<>>) ~> (members # <<>> \/ Screen # "LIST")

=============================================================================
