--------------------------- MODULE TaskDraftProofs ---------------------------
(***************************************************************************)
(* Proofs about TaskDraft, for any addresses, platform and bounds.  First  *)
(* what queues and screens become, then the rows on their way through the  *)
(* store, then what the draft shows and what is left of it.                *)
(***************************************************************************)
EXTENDS TaskDraft, SequenceTheorems, FiniteSetTheorems, TLAPS

-----------------------------------------------------------------------------
(* Queues: what they hold after each operation on them.                    *)

IsQueue(queue) == queue \in Seq(ToSet(queue))

LEMMA QueueOf ==
    ASSUME NEW S, NEW queue \in Seq(S)
    PROVE  IsQueue(queue)
<1>1. Range(queue) = ToSet(queue)
  BY DEF Range, ToSet
<1> QED BY <1>1, SeqOfRange DEF IsQueue

LEMMA QueueDomain ==
    ASSUME NEW queue, IsQueue(queue)
    PROVE  /\ Len(queue) \in Nat /\ DOMAIN queue = 1..Len(queue)
           /\ queue = <<>> <=> DOMAIN queue = {}
<1>1. Len(queue) \in Nat /\ DOMAIN queue = 1..Len(queue)
  BY LenProperties DEF IsQueue
<1>2. queue # <<>> => Len(queue) \in Nat \ {0}
  BY EmptySeq DEF IsQueue
<1>3. DOMAIN <<>> = {}
  OBVIOUS
<1> QED BY <1>1, <1>2, <1>3

LEMMA QueueTail ==
    ASSUME NEW queue, IsQueue(queue), queue # <<>>
    PROVE  /\ IsQueue(Tail(queue))
           /\ 1 \in DOMAIN queue /\ Head(queue) = queue[1]
           /\ \A i \in DOMAIN Tail(queue) :
                i \in Nat /\ i + 1 \in DOMAIN queue /\ Tail(queue)[i] = queue[i + 1]
           /\ \A i \in DOMAIN queue : i # 1 =>
                i \in Nat /\ i - 1 \in DOMAIN Tail(queue) /\ Tail(queue)[i - 1] = queue[i]
<1>1. queue \in Seq(ToSet(queue))
  BY DEF IsQueue
<1>2. Len(queue) \in Nat \ {0} /\ DOMAIN queue = 1..Len(queue)
  BY <1>1, EmptySeq, LenProperties
<1>3. /\ Tail(queue) \in Seq(ToSet(queue)) /\ Len(Tail(queue)) = Len(queue) - 1
      /\ \A i \in 1..Len(Tail(queue)) : Tail(queue)[i] = queue[i + 1]
      /\ Head(queue) = queue[1]
  BY <1>1, HeadTailProperties
<1>4. DOMAIN Tail(queue) = 1..(Len(queue) - 1)
  BY <1>3, LenProperties
<1>5. IsQueue(Tail(queue))
  BY <1>3, QueueOf
<1>6. ASSUME NEW i \in DOMAIN queue, i # 1
      PROVE  i \in Nat /\ i - 1 \in DOMAIN Tail(queue) /\ Tail(queue)[i - 1] = queue[i]
  BY <1>2, <1>3, <1>4, <1>6
<1> QED BY <1>2, <1>3, <1>4, <1>5, <1>6

LEMMA QueuePush ==
    ASSUME NEW queue, IsQueue(queue), NEW r
    PROVE  /\ IsQueue(Append(queue, r))
           /\ Len(queue) + 1 \in DOMAIN Append(queue, r)
           /\ Append(queue, r)[Len(queue) + 1] = r
           /\ \A i \in DOMAIN queue : /\ i \in DOMAIN Append(queue, r)
                                      /\ Append(queue, r)[i] = queue[i]
                                      /\ i \in Nat /\ i < Len(queue) + 1
           /\ \A i \in DOMAIN Append(queue, r) :
                i \in DOMAIN queue \/ i = Len(queue) + 1
<1>1. queue \in Seq(ToSet(queue) \cup {r})
  BY SeqMonotonic DEF IsQueue
<1>2. /\ Append(queue, r) \in Seq(ToSet(queue) \cup {r})
      /\ Len(Append(queue, r)) = Len(queue) + 1
      /\ \A i \in 1..Len(queue) : Append(queue, r)[i] = queue[i]
      /\ Append(queue, r)[Len(queue) + 1] = r
  BY <1>1, AppendProperties
<1>3. /\ Len(queue) \in Nat /\ DOMAIN queue = 1..Len(queue)
      /\ DOMAIN Append(queue, r) = 1..(Len(queue) + 1)
  BY <1>1, <1>2, LenProperties
<1>4. IsQueue(Append(queue, r))
  BY <1>2, QueueOf
<1> QED BY <1>2, <1>3, <1>4

At == {"create", "list.temp", "list.users", "save", "handleBack"}
HandlerCall == [at : At, mounted : BOOLEAN]

\* The call q once only the kept screens are mounted.
Forgotten(q, d, kept) ==
    /\ d = [q EXCEPT !.call = d.call]
    /\ d.call \in HandlerCall /\ d.call.at = q.call.at
    /\ d.call.mounted => q.call.mounted /\ OwnerOf(q.call.at) \in kept

LEMMA QueueDisowned ==
    ASSUME NEW queue, IsQueue(queue), NEW kept,
           \A i \in DOMAIN queue : queue[i].call \in HandlerCall
    PROVE  /\ IsQueue(Disowned(queue, kept)) /\ DOMAIN Disowned(queue, kept) = DOMAIN queue
           /\ \A i \in DOMAIN queue : Forgotten(queue[i], Disowned(queue, kept)[i], kept)
<1> DEFINE D(q) == [q EXCEPT !.call.mounted = @ /\ OwnerOf(q.call.at) \in kept]
<1>1. Len(queue) \in Nat /\ DOMAIN queue = 1..Len(queue)
  BY QueueDomain
<1>2. Disowned(queue, kept) = [i \in DOMAIN queue |-> D(queue[i])]
  BY DEF Disowned
<1>3. ASSUME NEW i \in DOMAIN queue PROVE Forgotten(queue[i], D(queue[i]), kept)
  <2>1. queue[i].call \in HandlerCall
    OBVIOUS
  <2>2. D(queue[i]).call = [queue[i].call EXCEPT
                               !.mounted = @ /\ OwnerOf(queue[i].call.at) \in kept]
    OBVIOUS
  <2>3. D(queue[i]) = [queue[i] EXCEPT !.call = D(queue[i]).call]
    OBVIOUS
  <2> DEFINE c == queue[i].call
             stays == c.mounted /\ OwnerOf(c.at) \in kept
  <2>4. [c EXCEPT !.mounted = stays] = [at |-> c.at, mounted |-> stays] /\ c.at \in At
    BY <2>1 DEF HandlerCall
  <2>5. stays \in BOOLEAN
    BY <2>1 DEF HandlerCall
  <2>6. D(queue[i]).call = [at |-> c.at, mounted |-> stays]
    BY <2>2, <2>4
  <2> HIDE DEF D
  <2>7. /\ D(queue[i]).call \in HandlerCall /\ D(queue[i]).call.at = c.at
        /\ D(queue[i]).call.mounted = stays
    BY <2>4, <2>5, <2>6 DEF HandlerCall
  <2>8. stays => c.mounted /\ OwnerOf(c.at) \in kept
    BY Zenon
  <2> QED BY <2>3, <2>7, <2>8 DEF Forgotten
<1> HIDE DEF D
<1>4. Disowned(queue, kept) \in [1..Len(queue) -> {D(queue[i]) : i \in DOMAIN queue}]
  BY <1>1, <1>2
<1>5. Disowned(queue, kept) \in Seq({D(queue[i]) : i \in DOMAIN queue})
  BY <1>1, <1>4, SeqDef
<1> QED BY <1>2, <1>3, <1>5, QueueOf

-----------------------------------------------------------------------------
(* Screens: the three stacks there are, and what leads from one to another. *)

Route(name) == [key |-> NewKey, name |-> name]

AtHome == Rehydrated(<<Route("HOME")>>)
AtCreate == Rehydrated(<<Route("HOME"), Route("CREATE")>>)
AtList == Rehydrated(<<Route("HOME"), Route("CREATE"), Route("LIST")>>)

Stacks == {AtHome, AtCreate, AtList}

LEMMA StackFacts ==
    /\ AtHome = [index |-> 0, routes |-> <<Route("HOME")>>]
    /\ AtCreate = [index |-> 1, routes |-> <<Route("HOME"), Route("CREATE")>>]
    /\ AtList = [index |-> 2,
                 routes |-> <<Route("HOME"), Route("CREATE"), Route("LIST")>>]
    /\ AtHome # AtCreate /\ AtHome # AtList /\ AtCreate # AtList
    /\ NoState \notin Stacks
BY DEF AtHome, AtCreate, AtList, Stacks, Rehydrated, NoState

LEMMA StackScreens ==
    /\ FocusedRoute(AtHome).name = "HOME" /\ Screens(AtHome) = {"HOME"}
    /\ FocusedRoute(AtCreate).name = "CREATE" /\ Screens(AtCreate) = {"HOME", "CREATE"}
    /\ FocusedRoute(AtList).name = "LIST" /\ Screens(AtList) = {"HOME", "CREATE", "LIST"}
<1>1. /\ FocusedRoute(AtHome).name = "HOME" /\ FocusedRoute(AtCreate).name = "CREATE"
      /\ FocusedRoute(AtList).name = "LIST"
  BY StackFacts DEF FocusedRoute, Route
<1>2. Screens(AtHome) = {"HOME"}
  BY StackFacts DEF Screens, ToSet, Route
<1>3. Screens(AtCreate) = {"HOME", "CREATE"}
  <2>1. ToSet(AtCreate.routes) = {Route("HOME"), Route("CREATE")}
    BY StackFacts DEF ToSet
  <2> QED BY <2>1 DEF Screens, Route
<1>4. Screens(AtList) = {"HOME", "CREATE", "LIST"}
  <2>1. ToSet(AtList.routes) = {Route("HOME"), Route("CREATE"), Route("LIST")}
    BY StackFacts DEF ToSet
  <2> QED BY <2>1 DEF Screens, Route
<1> QED BY <1>1, <1>2, <1>3, <1>4

LEMMA ScreenIs ==
    ASSUME main \in Stacks
    PROVE  /\ Screen \in {"HOME", "CREATE", "LIST"}
           /\ Screen = "HOME" <=> main = AtHome
           /\ Screen = "CREATE" <=> main = AtCreate
           /\ Screen = "LIST" <=> main = AtList
BY StackScreens DEF Stacks, Screen

\* Opening a screen pushes it: none is open twice.
LEMMA Opened ==
    /\ Navigate(AtHome, MainRoute, "CREATE", NewKey) = AtCreate
    /\ Navigate(AtCreate, MainRoute, "LIST", NewKey) = AtList
<1>1. ASSUME NEW state \in {AtHome, AtCreate}, NEW name \in MainRoute,
             \A i \in DOMAIN state.routes : state.routes[i].name # name
      PROVE  Navigate(state, MainRoute, name, NewKey)
               = Rehydrated(Append(state.routes, Route(name)))
  <2>1. Len(state.routes) \in Nat /\ DOMAIN state.routes = 1..Len(state.routes)
    BY StackFacts
  <2>2. FocusedRoute(state).name # name
    BY <1>1, StackFacts DEF FocusedRoute
  <2>3. {i \in 1..Len(state.routes) : state.routes[i].name = name} = {}
    BY <1>1, <2>1
  <2>4. SelectLastInSeq(state.routes, LAMBDA r : r.name = name) = 0
    BY <2>3 DEF SelectLastInSeq
  <2>5. IndexOfName(state, name) = -1
    BY <2>2, <2>4 DEF IndexOfName
  <2> QED BY <2>5 DEF Navigate, Push, Route
<1>2. /\ \A i \in DOMAIN AtHome.routes : AtHome.routes[i].name # "CREATE"
      /\ \A i \in DOMAIN AtCreate.routes : AtCreate.routes[i].name # "LIST"
  BY StackFacts DEF Route
<1>3. /\ Append(AtHome.routes, Route("CREATE")) = AtCreate.routes
      /\ Append(AtCreate.routes, Route("LIST")) = AtList.routes
  <2>1. ASSUME NEW a, NEW b, NEW c
        PROVE  Append(<<a>>, b) = <<a, b>> /\ Append(<<a, b>>, c) = <<a, b, c>>
    <3> DEFINE S == {a, b, c}
               one == <<a>>
               two == <<a, b>>
               three == <<a, b, c>>
    <3>1. /\ one \in Seq(S) /\ Len(one) = 1 /\ one[1] = a
          /\ two \in Seq(S) /\ Len(two) = 2 /\ two[1] = a /\ two[2] = b
          /\ three \in Seq(S) /\ Len(three) = 3
          /\ three[1] = a /\ three[2] = b /\ three[3] = c
      OBVIOUS
    <3>0. one \in Seq(S) /\ two \in Seq(S) /\ b \in S /\ c \in S
      OBVIOUS
    <3> HIDE DEF S, one, two, three
    <3>2. /\ Append(one, b) \in Seq(S) /\ Len(Append(one, b)) = 2
          /\ \A i \in 1..2 : Append(one, b)[i] = two[i]
      <4>1. /\ Append(one, b) \in Seq(S) /\ Len(Append(one, b)) = Len(one) + 1
            /\ \A i \in 1..Len(one) : Append(one, b)[i] = one[i]
            /\ Append(one, b)[Len(one) + 1] = b
        BY <3>0, AppendProperties
      <4> QED BY <3>1, <4>1
    <3>3. /\ Append(two, c) \in Seq(S) /\ Len(Append(two, c)) = 3
          /\ \A i \in 1..3 : Append(two, c)[i] = three[i]
      <4>1. /\ Append(two, c) \in Seq(S) /\ Len(Append(two, c)) = Len(two) + 1
            /\ \A i \in 1..Len(two) : Append(two, c)[i] = two[i]
            /\ Append(two, c)[Len(two) + 1] = c
        BY <3>0, AppendProperties
      <4> QED BY <3>1, <4>1
    <3>4. Append(one, b) = two /\ Append(two, c) = three
      BY <3>1, <3>2, <3>3, SeqEqual
    <3> QED BY <3>4 DEF one, two, three
  <2>2. /\ AtHome.routes = <<Route("HOME")>>
        /\ AtCreate.routes = <<Route("HOME"), Route("CREATE")>>
        /\ AtList.routes = <<Route("HOME"), Route("CREATE"), Route("LIST")>>
    BY StackFacts
  <2> QED BY <2>1, <2>2
<1>4. /\ Rehydrated(AtCreate.routes) = AtCreate /\ Rehydrated(AtList.routes) = AtList
  BY DEF AtCreate, AtList, Rehydrated
<1>5. "CREATE" \in MainRoute /\ "LIST" \in MainRoute
  BY DEF MainRoute
<1> QED BY <1>1, <1>2, <1>3, <1>4, <1>5

\* Going back pops the focused screen, and Home never.
LEMMA Closed ==
    /\ GoBack(AtHome, FALSE, NewKey) = NoState
    /\ GoBack(AtCreate, FALSE, NewKey) = AtHome
    /\ GoBack(AtList, FALSE, NewKey) = AtCreate
<1>1. GoBack(AtHome, FALSE, NewKey) = NoState
  BY StackFacts DEF GoBack
<1>2. ASSUME NEW routes, NEW below, NEW n \in {1, 2}, Len(routes) = n + 1,
             SubSeq(routes, 1, n) \o SubSeq(routes, n + 2, n + 1) = below
      PROVE  GoBack([index |-> n, routes |-> routes], FALSE, NewKey) = Rehydrated(below)
  <2> DEFINE state == [index |-> n, routes |-> routes]
  <2>1. state.index = n /\ state.routes = routes /\ n > 0
    OBVIOUS
  <2>2. (IF n - 1 + 1 > 1 THEN n - 1 + 1 ELSE 1) = n
    OBVIOUS
  <2> HIDE DEF state
  <2>3. Pop(state, n, 1)
          = Rehydrated(SubSeq(routes, 1, n) \o SubSeq(routes, n + 2, Len(routes)))
    BY <2>1, <2>2 DEF Pop
  <2>4. GoBack(state, FALSE, NewKey) = Pop(state, n, 1)
    BY <2>1 DEF GoBack, ActionIndex
  <2> QED BY <1>2, <2>3, <2>4 DEF state
<1>3. ASSUME NEW a, NEW b, NEW c
      PROVE  /\ SubSeq(<<a, b>>, 1, 1) \o SubSeq(<<a, b>>, 3, 2) = <<a>>
             /\ SubSeq(<<a, b, c>>, 1, 2) \o SubSeq(<<a, b, c>>, 4, 3) = <<a, b>>
  <2> DEFINE S == {a, b, c}
             two == <<a, b>>
             three == <<a, b, c>>
  <2>1. /\ SubSeq(two, 1, 1) \in Seq(S) /\ Len(SubSeq(two, 1, 1)) = 1
        /\ SubSeq(two, 1, 1)[1] = a
    <3>1. \A i \in 1..1 : two[i] \in S
      OBVIOUS
    <3>2. two[1] = a
      OBVIOUS
    <3> HIDE DEF two, S
    <3> QED BY <3>1, <3>2, SubSeqProperties
  <2>2. /\ SubSeq(three, 1, 2) \in Seq(S) /\ Len(SubSeq(three, 1, 2)) = 2
        /\ SubSeq(three, 1, 2)[1] = a /\ SubSeq(three, 1, 2)[2] = b
    <3>1. \A i \in 1..2 : three[i] \in S
      OBVIOUS
    <3>2. three[1] = a /\ three[2] = b
      OBVIOUS
    <3> HIDE DEF three, S
    <3> QED BY <3>1, <3>2, SubSeqProperties
  <2>3. /\ <<a>> \in Seq(S) /\ Len(<<a>>) = 1 /\ <<a>>[1] = a
        /\ two \in Seq(S) /\ Len(two) = 2 /\ two[1] = a /\ two[2] = b
    OBVIOUS
  <2> HIDE DEF S
  <2>4. SubSeq(two, 1, 1) = <<a>> /\ SubSeq(three, 1, 2) = two
    <3> HIDE DEF two, three
    <3>1. \A i \in 1..1 : SubSeq(two, 1, 1)[i] = <<a>>[i]
      BY <2>1, <2>3
    <3>2. \A i \in 1..2 : SubSeq(three, 1, 2)[i] = two[i]
      BY <2>2, <2>3
    <3> QED BY <2>1, <2>2, <2>3, <3>1, <3>2, SeqEqual
  <2>5. SubSeq(two, 3, 2) = <<>> /\ SubSeq(three, 4, 3) = <<>>
    <3> HIDE DEF two, three
    <3> QED BY SubSeqEmpty
  <2>6. <<a>> \o <<>> = <<a>> /\ two \o <<>> = two
    BY <2>3, ConcatEmptySeq
  <2> QED BY <2>4, <2>5, <2>6
<1>4. GoBack(AtCreate, FALSE, NewKey) = AtHome
  <2>1. Len(AtCreate.routes) = 1 + 1
    BY StackFacts
  <2>2. SubSeq(AtCreate.routes, 1, 1) \o SubSeq(AtCreate.routes, 1 + 2, 1 + 1)
          = AtHome.routes
    BY <1>3, StackFacts
  <2> QED BY <1>2, <2>1, <2>2, StackFacts DEF AtHome, Rehydrated
<1>5. GoBack(AtList, FALSE, NewKey) = AtCreate
  <2>1. Len(AtList.routes) = 2 + 1
    BY StackFacts
  <2>2. SubSeq(AtList.routes, 1, 2) \o SubSeq(AtList.routes, 2 + 2, 2 + 1)
          = AtCreate.routes
    BY <1>3, StackFacts
  <2> QED BY <1>2, <2>1, <2>2, StackFacts DEF AtCreate, Rehydrated
<1> QED BY <1>1, <1>4, <1>5

\* The navigator goes from one stack to another.
Went(from, to, calls, others) ==
    main = from /\ Show(to, Screens(from) \cap Screens(to), calls, others)

Removal == RemoveItem(TEMP_MEMBERS, Handler("handleBack"))
Below == IF main = AtList THEN AtCreate ELSE AtHome

\* The steps that show a stack: the user's, a Save's and the colour scheme's.
Going ==
    \/ /\ Under("save") < MaxTaps
       /\ \/ /\ \/ Went(AtHome, AtCreate, requests, replies)
                \/ Went(AtCreate, AtList, requests, replies)
                \/ Went(AtList, AtCreate, requests, replies)
             /\ abandoned => abandoned'
          \/ Went(AtCreate, AtHome, Append(requests, Removal), replies)
          \/ Went(AtCreate, AtHome, requests, replies) /\ abandoned'
    \/ Awaited("save") /\ Went(main, Below, requests, OtherReplies)
    \/ Show(main, {}, requests, replies) /\ abandoned' = abandoned

Edited ==
    \E i \in DOMAIN members :
        \/ HandleMemberPress(i)
        \/ \E val \in {"5", "0"} : HandleMemberValChange(i, val)

Heard == CreateFetched \/ TempFetched \/ UsersFetched \/ Removed \/ Rejected

LEMMA Moves ==
    ASSUME main \in Stacks, [Next]_vars
    PROVE  \/ StoreStep \/ Heard \/ Going
           \/ Edited \/ HandleSubmit
           \/ \E email \in Email : MemberSignsUp(email)
           \/ Crash \/ EmptyCache \/ UNCHANGED vars
<1>1. CASE CreateTask
  <2>1. Navigate(main, MainRoute, "CREATE", NewKey) = AtCreate /\ main = AtHome
    BY <1>1, ScreenIs, Opened DEF CreateTask, On
  <2> QED BY <1>1, <2>1 DEF CreateTask, On, NavigateTo, Navigated, Going, Went
<1>2. CASE AddMembers
  <2>1. Navigate(main, MainRoute, "LIST", NewKey) = AtList /\ main = AtCreate
    BY <1>2, ScreenIs, Opened DEF AddMembers, On
  <2> QED BY <1>2, <2>1 DEF AddMembers, On, NavigateTo, Navigated, Going, Went
<1>3. CASE HandleBack
  <2>1. Back = AtHome /\ main = AtCreate
    BY <1>3, ScreenIs, Closed DEF HandleBack, On, Back
  <2> QED BY <1>3, <2>1 DEF HandleBack, On, Navigated, Removal, Going, Went
<1>4. CASE LeaveList
  <2>1. Back = AtCreate /\ main = AtList
    BY <1>4, ScreenIs, Closed DEF LeaveList, On, Back
  <2> QED BY <1>4, <2>1 DEF LeaveList, On, Navigated, Going, Went
<1>5. CASE SystemBack
  <2>1. CASE On("CREATE")
    <3>1. Back = AtHome /\ main = AtCreate /\ Screen = "CREATE"
      BY <2>1, ScreenIs, Closed DEF On, Back
    <3>2. abandoned'
      BY <1>5, <3>1, Zenon DEF SystemBack
    <3> QED BY <1>5, <2>1, <3>1, <3>2 DEF SystemBack, On, Navigated, Going, Went
  <2>2. CASE On("LIST")
    <3>1. Back = AtCreate /\ main = AtList /\ Screen = "LIST"
      BY <2>2, ScreenIs, Closed DEF On, Back
    <3>2. abandoned => abandoned'
      BY <1>5, Zenon DEF SystemBack
    <3> QED BY <1>5, <2>2, <3>1, <3>2 DEF SystemBack, On, Navigated, Going, Went
  <2> QED BY <1>5, <2>1, <2>2 DEF SystemBack
<1>6. CASE Saved
  <2>1. BackOrStay = Below
    BY StackFacts, Closed DEF BackOrStay, Back, Below, Stacks
  <2> QED BY <1>6, <2>1 DEF Saved, Navigated, Going, Went
<1>7. CASE ChangeColorScheme
  BY <1>7 DEF ChangeColorScheme, Going
<1> QED BY <1>1, <1>2, <1>3, <1>4, <1>5, <1>6, <1>7
        DEF Next, UserStep, RunCallback, Edited, Heard

-----------------------------------------------------------------------------
(* The screens nest.                                                       *)

LEMMA StacksKept == main \in Stacks /\ [Next]_vars => main' \in Stacks
<1> SUFFICES ASSUME main \in Stacks, [Next]_vars PROVE main' \in Stacks
  OBVIOUS
<1>1. CASE Going
  BY <1>1 DEF Going, Went, Show, Below, Stacks
<1>2. CASE UNCHANGED main
  BY <1>2
<1>3. CASE Crash
  BY <1>3 DEF Crash, InitialState, AtHome, Rehydrated, Route, Stacks
<1>4. StoreStep \/ Heard \/ Edited \/ HandleSubmit
        \/ (\E email \in Email : MemberSignsUp(email)) \/ EmptyCache => UNCHANGED main
  BY DEF StoreStep, draftVars, Heard, CreateFetched, TempFetched, UsersFetched,
         SetMembers, Removed, Rejected, Edited, HandleMemberPress,
         HandleMemberValChange, HandleSubmit, MemberSignsUp, EmptyCache
<1> QED BY <1>1, <1>2, <1>3, <1>4, Moves DEF vars, draftVars

LEMMA InitialStack == Init => main \in Stacks
BY DEF Init, InitialState, AtHome, Rehydrated, Route, Stacks

Nested == main \in Stacks

LEMMA StacksOnly == Spec => []Nested
<1>1. Init => Nested
  BY InitialStack DEF Nested
<1>2. Nested /\ [Next]_vars => Nested'
  BY StacksKept DEF Nested, Stacks, AtHome, AtCreate, AtList
<1> QED BY <1>1, <1>2, PTL DEF Spec

\* ScreensNest: whenever a Save is answered, once or twice, on whatever screen,
\* there is Home, TaskCreation over it and MembersList over that, never anything
\* else.
THEOREM ScreensStayNested == Spec => []ScreensNest
<1>1. main \in Stacks => ScreensNest
  <2> DEFINE all == <<"HOME", "CREATE", "LIST">>
             name == {"HOME", "CREATE", "LIST"}
             names(m) == [i \in DOMAIN m.routes |-> m.routes[i].name]
  <2>1. /\ all \in Seq(name) /\ Len(all) = 3
        /\ all[1] = "HOME" /\ all[2] = "CREATE" /\ all[3] = "LIST"
    OBVIOUS
  <2>2. /\ Len(AtHome.routes) = 1 /\ DOMAIN AtHome.routes = 1..1
        /\ AtHome.routes[1].name = "HOME"
        /\ Len(AtCreate.routes) = 2 /\ DOMAIN AtCreate.routes = 1..2
        /\ AtCreate.routes[1].name = "HOME" /\ AtCreate.routes[2].name = "CREATE"
        /\ Len(AtList.routes) = 3 /\ DOMAIN AtList.routes = 1..3
        /\ AtList.routes[1].name = "HOME" /\ AtList.routes[2].name = "CREATE"
        /\ AtList.routes[3].name = "LIST"
    BY StackFacts DEF Route
  <2> HIDE DEF all
  <2>3. ASSUME NEW n \in 1..3, NEW m \in Stacks, DOMAIN m.routes = 1..n,
               \A i \in 1..n : m.routes[i].name = all[i]
        PROVE  names(m) = SubSeq(all, 1, n)
    <3>1. /\ SubSeq(all, 1, n) \in Seq(name) /\ Len(SubSeq(all, 1, n)) = n
          /\ \A i \in 1..n : SubSeq(all, 1, n)[i] = all[i]
      <4>1. \A i \in 1..n : all[i] \in name
        BY <2>1
      <4> QED BY <4>1, SubSeqProperties
    <3>2. DOMAIN SubSeq(all, 1, n) = 1..n
      BY <3>1, LenProperties
    <3> QED BY <2>3, <3>1, <3>2
  <2>4. /\ names(AtHome) = SubSeq(all, 1, 1) /\ names(AtCreate) = SubSeq(all, 1, 2)
        /\ names(AtList) = SubSeq(all, 1, 3)
    BY <2>1, <2>2, <2>3 DEF Stacks
  <2> QED BY <2>4 DEF ScreensNest, Stacks, all
<1>2. Nested => ScreensNest
  BY <1>1 DEF Nested
<1> QED BY <1>2, StacksOnly, PTL

-----------------------------------------------------------------------------
(* Rows and lists of members, given who is registered.                     *)

OneRowEach(rows) ==
    \A i, j \in DOMAIN rows : rows[i].email = rows[j].email => i = j

RowsOK(rows, users) ==
    rows \in Seq(Row) /\ OneRowEach(rows) /\ Emails(rows) \subseteq ToSet(users)

UsersOK(list, users) ==
    list \in Seq(Email) /\ IsInjective(list) /\ ToSet(list) \subseteq ToSet(users)

LEMMA EmptyOK ==
    ASSUME NEW users
    PROVE  RowsOK(<<>>, users) /\ UsersOK(<<>>, users)
<1>1. /\ <<>> \in Seq(Row) /\ <<>> \in Seq(Email)
      /\ DOMAIN <<>> = {} /\ ToSet(<<>>) = {}
  BY EmptySeq DEF ToSet
<1>2. Emails(<<>>) = {}
  BY <1>1 DEF Emails
<1> QED BY <1>1, <1>2 DEF RowsOK, UsersOK, OneRowEach, IsInjective

LEMMA SeqParts ==
    ASSUME NEW S, NEW s \in Seq(S)
    PROVE  /\ Len(s) \in Nat /\ DOMAIN s = 1..Len(s)
           /\ \A i \in DOMAIN s : s[i] \in S /\ s[i] \in ToSet(s)
           /\ \A x \in ToSet(s) : \E i \in DOMAIN s : s[i] = x
<1>1. Len(s) \in Nat /\ DOMAIN s = 1..Len(s)
  BY LenProperties
<1> QED BY <1>1, ElementOfSeq DEF ToSet

LEMMA EmailsOf ==
    ASSUME NEW rows \in Seq(Row)
    PROVE  /\ \A i \in DOMAIN rows : rows[i].email \in Emails(rows)
           /\ \A email \in Emails(rows) : \E i \in DOMAIN rows : rows[i].email = email
BY SeqParts DEF Emails

LEMMA FunctionIsSeq ==
    ASSUME NEW S, NEW T, NEW s \in Seq(S), NEW f, DOMAIN f = DOMAIN s,
           f = [i \in DOMAIN s |-> f[i]], \A i \in DOMAIN s : f[i] \in T
    PROVE  f \in Seq(T)
<1>1. Len(s) \in Nat /\ DOMAIN s = 1..Len(s)
  BY LenProperties
<1>2. f \in [1..Len(s) -> T]
  BY <1>1
<1> QED BY <1>1, <1>2, SeqDef

\* The defaults of a row leave one for each member of the list.
LEMMA NewRowsOK ==
    ASSUME NEW users, NEW list, UsersOK(list, users)
    PROVE  /\ RowsOK([i \in DOMAIN list |-> NewRow(list[i])], users)
           /\ Emails([i \in DOMAIN list |-> NewRow(list[i])]) = ToSet(list)
<1> DEFINE rows == [i \in DOMAIN list |-> NewRow(list[i])]
<1>1. list \in Seq(Email)
  BY DEF UsersOK
<1>2. \A i \in DOMAIN list : list[i] \in Email /\ list[i] \in ToSet(list)
  BY <1>1, SeqParts
<1>3. /\ DOMAIN rows = DOMAIN list /\ rows = [i \in DOMAIN list |-> rows[i]]
      /\ \A i \in DOMAIN list : rows[i] \in Row /\ rows[i].email = list[i]
  BY <1>2 DEF NewRow, Row
<1> HIDE DEF rows
<1>4. rows \in Seq(Row)
  BY <1>1, <1>3, FunctionIsSeq
<1>5. OneRowEach(rows)
  BY <1>3 DEF OneRowEach, UsersOK, IsInjective
<1>6. Emails(rows) = ToSet(list)
  <2>1. /\ \A i \in DOMAIN rows : rows[i].email \in Emails(rows)
        /\ \A email \in Emails(rows) : \E i \in DOMAIN rows : rows[i].email = email
    BY <1>4, EmailsOf
  <2>2. \A x \in ToSet(list) : \E i \in DOMAIN list : list[i] = x
    BY <1>1, SeqParts
  <2>3. ASSUME NEW email \in Emails(rows) PROVE email \in ToSet(list)
    BY <1>2, <1>3, <2>1
  <2>4. ASSUME NEW email \in ToSet(list) PROVE email \in Emails(rows)
    BY <1>3, <2>1, <2>2
  <2> QED BY <2>3, <2>4
<1>7. Emails(rows) \subseteq ToSet(users)
  BY <1>6 DEF UsersOK
<1> QED BY <1>4, <1>5, <1>6, <1>7 DEF RowsOK, rows

\* A row that is edited stays its member's.
LEMMA EditedRowsOK ==
    ASSUME NEW users, NEW rows, RowsOK(rows, users), NEW i \in DOMAIN rows,
           NEW row \in Row, row.email = rows[i].email
    PROVE  /\ RowsOK([rows EXCEPT ![i] = row], users)
           /\ Emails([rows EXCEPT ![i] = row]) = Emails(rows)
<1> DEFINE after == [rows EXCEPT ![i] = row]
<1>1. rows \in Seq(Row)
  BY DEF RowsOK
<1>2. /\ DOMAIN after = DOMAIN rows /\ after = [j \in DOMAIN rows |-> after[j]]
      /\ \A j \in DOMAIN rows : after[j] = IF j = i THEN row ELSE rows[j]
  OBVIOUS
<1> HIDE DEF after
<1>3. \A j \in DOMAIN rows : after[j] \in Row /\ after[j].email = rows[j].email
  BY <1>1, <1>2, SeqParts
<1>4. after \in Seq(Row)
  BY <1>1, <1>2, <1>3, FunctionIsSeq
<1>5. OneRowEach(after)
  BY <1>2, <1>3 DEF RowsOK, OneRowEach
<1>6. Emails(after) = Emails(rows)
  <2>1. /\ \A j \in DOMAIN rows : rows[j].email \in Emails(rows)
        /\ \A email \in Emails(rows) : \E j \in DOMAIN rows : rows[j].email = email
    BY <1>1, EmailsOf
  <2>2. /\ \A j \in DOMAIN after : after[j].email \in Emails(after)
        /\ \A email \in Emails(after) : \E j \in DOMAIN after : after[j].email = email
    BY <1>4, EmailsOf
  <2>3. ASSUME NEW email \in Emails(after) PROVE email \in Emails(rows)
    BY <1>2, <1>3, <2>1, <2>2
  <2>4. ASSUME NEW email \in Emails(rows) PROVE email \in Emails(after)
    BY <1>2, <1>3, <2>1, <2>2
  <2> QED BY <2>3, <2>4
<1> QED BY <1>4, <1>5, <1>6 DEF RowsOK, after

LEMMA ChosenRows ==
    ASSUME NEW rows \in Seq(Row)
    PROVE  ToSet(Chosen(rows)) \subseteq Row
<1>1. \A i \in DOMAIN Chosen(rows) : i \in DOMAIN rows /\ Chosen(rows)[i] = rows[i]
  BY DEF Chosen
<1> QED BY <1>1, SeqParts DEF ToSet

LEMMA OneEmailEach ==
    ASSUME NEW users, NEW rows, RowsOK(rows, users)
    PROVE  Cardinality(Emails(rows)) = Len(rows)
<1> DEFINE email == [i \in 1..Len(rows) |-> rows[i].email]
<1>1. rows \in Seq(Row) /\ Len(rows) \in Nat /\ DOMAIN rows = 1..Len(rows)
  BY SeqParts DEF RowsOK
<1>2. email \in Bijection(1..Len(rows), Emails(rows))
  <2>1. email \in [1..Len(rows) -> Emails(rows)]
    BY <1>1, EmailsOf
  <2>2. \A i, j \in 1..Len(rows) : email[i] = email[j] => i = j
    BY <1>1 DEF RowsOK, OneRowEach
  <2>3. \A e \in Emails(rows) : \E i \in 1..Len(rows) : email[i] = e
    BY <1>1, EmailsOf
  <2> HIDE DEF email
  <2> QED BY <2>1, <2>2, <2>3 DEF Bijection, Injection, Surjection, IsInjective
<1>3. ExistsBijection(1..Len(rows), Emails(rows))
  BY <1>2 DEF ExistsBijection
<1>4. IsFiniteSet(1..Len(rows)) /\ Cardinality(1..Len(rows)) = Len(rows)
  BY <1>1, FS_Interval
<1> QED BY <1>3, <1>4, FS_Bijection

-----------------------------------------------------------------------------
(* Calls, their answers and the store, given who is registered.            *)

RequestOK(r, users) ==
    /\ r = [op |-> r.op, key |-> r.key, value |-> r.value, call |-> r.call]
    /\ r.call \in HandlerCall
    /\ r.op = CASE r.call.at = "save" -> "set"
                [] r.call.at = "handleBack" -> "remove"
                [] OTHER -> "get"
    /\ r.key = IF r.call.at = "list.users" THEN USER_MEMBER_KEY ELSE TEMP_MEMBERS
    /\ r.call.at # "save" => r.value = Missing
    /\ RowsOK(Listed(r.value), users)

ReplyOK(r, users) ==
    /\ r = [error |-> r.error, call |-> r.call, value |-> r.value]
    /\ r.call \in HandlerCall
    /\ r.call.at # "list.users" => RowsOK(Listed(r.value), users)
    /\ r.call.at = "list.users" => UsersOK(Listed(r.value), users)

QueuesOK(calls, others, users) ==
    /\ IsQueue(calls) /\ (\A i \in DOMAIN calls : RequestOK(calls[i], users))
    /\ IsQueue(others) /\ (\A i \in DOMAIN others : ReplyOK(others[i], users))

StoreOK(store, users) ==
    /\ DOMAIN store = StorageKey
    /\ RowsOK(Listed(store[TEMP_MEMBERS]), users)
    /\ UsersOK(Listed(store[USER_MEMBER_KEY]), users)

LEMMA KeyFacts ==
    /\ USER_MEMBER_KEY # TEMP_MEMBERS
    /\ USER_MEMBER_KEY \in StorageKey /\ TEMP_MEMBERS \in StorageKey
BY DraftAssumption DEF USER_MEMBER_KEY, TEMP_MEMBERS

LEMMA NothingListed == Listed(Missing) = <<>>
BY DEF Listed

\* Whoever registers takes nothing from what was true.
LEMMA GrownOK ==
    ASSUME NEW users, NEW more, ToSet(users) \subseteq ToSet(more)
    PROVE  /\ \A rows : RowsOK(rows, users) => RowsOK(rows, more)
           /\ \A list : UsersOK(list, users) => UsersOK(list, more)
           /\ \A calls, others : QueuesOK(calls, others, users) =>
                                   QueuesOK(calls, others, more)
<1>1. \A rows : RowsOK(rows, users) => RowsOK(rows, more)
  BY DEF RowsOK
<1>2. \A list : UsersOK(list, users) => UsersOK(list, more)
  BY DEF UsersOK
<1>3. /\ \A r : RequestOK(r, users) => RequestOK(r, more)
      /\ \A r : ReplyOK(r, users) => ReplyOK(r, more)
  BY <1>1, <1>2 DEF RequestOK, ReplyOK
<1> QED BY <1>1, <1>2, <1>3 DEF QueuesOK

\* No call of the draft's writes the list of members.
LEMMA WrittenOK ==
    ASSUME NEW users, NEW store, StoreOK(store, users), NEW r, RequestOK(r, users)
    PROVE  /\ StoreOK(Written(store, r), users)
           /\ Written(store, r)[USER_MEMBER_KEY] = store[USER_MEMBER_KEY]
           /\ Written(store, r)[TEMP_MEMBERS] =
                IF r.call.at \in {"save", "handleBack"} THEN r.value
                ELSE store[TEMP_MEMBERS]
<1>1. r.call.at \in At
  BY DEF RequestOK, HandlerCall
<1>2. CASE r.call.at \in {"save", "handleBack"}
  <2>1. r.op # "get" /\ r.key = TEMP_MEMBERS
    BY <1>2 DEF RequestOK
  <2>2. Written(store, r) = [store EXCEPT ![TEMP_MEMBERS] = r.value]
    BY <2>1 DEF Written
  <2>3. /\ DOMAIN Written(store, r) = StorageKey
        /\ Written(store, r)[TEMP_MEMBERS] = r.value
        /\ Written(store, r)[USER_MEMBER_KEY] = store[USER_MEMBER_KEY]
    BY <2>2, KeyFacts DEF StoreOK
  <2> QED BY <1>2, <2>3 DEF StoreOK, RequestOK
<1>3. CASE r.call.at \notin {"save", "handleBack"}
  <2>1. r.op = "get"
    BY <1>3 DEF RequestOK
  <2> QED BY <1>3, <2>1 DEF Written
<1> QED BY <1>2, <1>3

LEMMA AnswerOK ==
    ASSUME NEW users, StoreOK(mem, users), NEW r, RequestOK(r, users), NEW error
    PROVE  ReplyOK(Answer(r, error), users)
<1>1. /\ Answer(r, error).call = r.call
      /\ Answer(r, error) = [error |-> error, call |-> r.call,
                              value |-> Answer(r, error).value]
      /\ Answer(r, error).value = Missing
         \/ (r.op = "get" /\ Answer(r, error).value = mem[r.key])
  BY DEF Answer
<1>2. /\ r.call \in HandlerCall
      /\ r.key = IF r.call.at = "list.users" THEN USER_MEMBER_KEY ELSE TEMP_MEMBERS
  BY DEF RequestOK
<1>3. /\ r.call.at # "list.users" => RowsOK(Listed(Answer(r, error).value), users)
      /\ r.call.at = "list.users" => UsersOK(Listed(Answer(r, error).value), users)
  BY <1>1, <1>2, NothingListed, EmptyOK DEF StoreOK
<1> HIDE DEF Answer
<1> QED BY <1>1, <1>2, <1>3 DEF ReplyOK

LEMMA PushOK ==
    ASSUME NEW users, NEW calls, NEW others, QueuesOK(calls, others, users), NEW r
    PROVE  /\ RequestOK(r, users) => QueuesOK(Append(calls, r), others, users)
           /\ ReplyOK(r, users) => QueuesOK(calls, Append(others, r), users)
<1>1. IsQueue(calls) /\ IsQueue(others)
  BY DEF QueuesOK
<1>2. ASSUME NEW queue, IsQueue(queue)
      PROVE  /\ IsQueue(Append(queue, r))
             /\ \A i \in DOMAIN Append(queue, r) :
                  \/ i \in DOMAIN queue /\ Append(queue, r)[i] = queue[i]
                  \/ Append(queue, r)[i] = r
  BY <1>2, QueuePush
<1> QED BY <1>1, <1>2 DEF QueuesOK

LEMMA PopOK ==
    ASSUME NEW users, NEW calls, NEW others, QueuesOK(calls, others, users)
    PROVE  /\ calls # <<>> => /\ RequestOK(Head(calls), users)
                              /\ QueuesOK(Tail(calls), others, users)
           /\ others # <<>> => /\ ReplyOK(Head(others), users)
                               /\ QueuesOK(calls, Tail(others), users)
<1>1. IsQueue(calls) /\ IsQueue(others)
  BY DEF QueuesOK
<1>2. ASSUME NEW queue, IsQueue(queue), queue # <<>>
      PROVE  /\ IsQueue(Tail(queue))
             /\ 1 \in DOMAIN queue /\ Head(queue) = queue[1]
             /\ \A i \in DOMAIN Tail(queue) :
                  i + 1 \in DOMAIN queue /\ Tail(queue)[i] = queue[i + 1]
  BY <1>2, QueueTail
<1> QED BY <1>1, <1>2 DEF QueuesOK

LEMMA DisownedOK ==
    ASSUME NEW users, NEW calls, NEW others, QueuesOK(calls, others, users), NEW kept
    PROVE  QueuesOK(Disowned(calls, kept), Disowned(others, kept), users)
<1>1. IsQueue(calls) /\ IsQueue(others)
  BY DEF QueuesOK
<1>2. ASSUME NEW q, RequestOK(q, users), NEW d, Forgotten(q, d, kept)
      PROVE  RequestOK(d, users)
  <2>1. d = [op |-> q.op, key |-> q.key, value |-> q.value, call |-> d.call]
    BY <1>2 DEF RequestOK, Forgotten
  <2> QED BY <1>2, <2>1 DEF RequestOK, Forgotten
<1>3. ASSUME NEW q, ReplyOK(q, users), NEW d, Forgotten(q, d, kept)
      PROVE  ReplyOK(d, users)
  <2>1. d = [error |-> q.error, call |-> d.call, value |-> q.value]
    BY <1>3 DEF ReplyOK, Forgotten
  <2> QED BY <1>3, <2>1 DEF ReplyOK, Forgotten
<1>4. \A i \in DOMAIN calls : RequestOK(calls[i], users) /\ calls[i].call \in HandlerCall
  BY DEF QueuesOK, RequestOK
<1>5. \A i \in DOMAIN others : ReplyOK(others[i], users) /\ others[i].call \in HandlerCall
  BY DEF QueuesOK, ReplyOK
<1>6. /\ IsQueue(Disowned(calls, kept)) /\ DOMAIN Disowned(calls, kept) = DOMAIN calls
      /\ \A i \in DOMAIN calls : Forgotten(calls[i], Disowned(calls, kept)[i], kept)
  BY <1>1, <1>4, QueueDisowned
<1>7. /\ IsQueue(Disowned(others, kept)) /\ DOMAIN Disowned(others, kept) = DOMAIN others
      /\ \A i \in DOMAIN others : Forgotten(others[i], Disowned(others, kept)[i], kept)
  BY <1>1, <1>5, QueueDisowned
<1> QED BY <1>2, <1>3, <1>4, <1>5, <1>6, <1>7 DEF QueuesOK

DraftRead == GetItem(TEMP_MEMBERS, Handler("create"))
ListRead == GetItem(TEMP_MEMBERS, Handler("list.temp"))

\* What is queued once the stack m is shown.
Mounted(calls, kept, m) == calls \o CreateCalls(kept, m) \o ListCalls(kept, m)

LEMMA MountedIs ==
    ASSUME NEW calls, IsQueue(calls), NEW kept, NEW m \in Stacks
    PROVE  Mounted(calls, kept, m) =
             IF m = AtCreate /\ ("CREATE" \notin kept \/ Screen # "CREATE")
             THEN Append(calls, DraftRead)
             ELSE IF m = AtList /\ "LIST" \notin kept THEN Append(calls, ListRead)
             ELSE calls
<1>1. ASSUME NEW queue, IsQueue(queue), NEW r
      PROVE  queue \o <<>> = queue /\ queue \o <<r>> = Append(queue, r)
  <2>1. queue \in Seq(ToSet(queue) \cup {r}) /\ r \in ToSet(queue) \cup {r}
    BY <1>1, SeqMonotonic DEF IsQueue
  <2> QED BY <2>1, ConcatEmptySeq, AppendIsConcat
<1>2. IsQueue(Append(calls, DraftRead))
  BY QueuePush
<1>3. CASE m = AtHome
  <2>1. CreateCalls(kept, m) = <<>> /\ ListCalls(kept, m) = <<>>
    BY <1>3, StackScreens DEF CreateCalls, ListCalls
  <2> QED BY <1>1, <1>3, <2>1, StackFacts DEF Mounted
<1>4. CASE m = AtCreate
  <2>1. /\ CreateCalls(kept, m) = IF "CREATE" \notin kept \/ Screen # "CREATE"
                                   THEN <<DraftRead>> ELSE <<>>
        /\ ListCalls(kept, m) = <<>>
    BY <1>4, StackScreens DEF CreateCalls, ListCalls, DraftRead
  <2> QED BY <1>1, <1>2, <1>4, <2>1, StackFacts DEF Mounted
<1>5. CASE m = AtList
  <2>1. /\ CreateCalls(kept, m) = <<>>
        /\ ListCalls(kept, m) = IF "LIST" \notin kept THEN <<ListRead>> ELSE <<>>
    BY <1>5, StackScreens DEF CreateCalls, ListCalls, ListRead
  <2> QED BY <1>1, <1>5, <2>1, StackFacts DEF Mounted
<1> QED BY <1>3, <1>4, <1>5 DEF Stacks

LEMMA MountedOK ==
    ASSUME NEW users, NEW calls, NEW others, QueuesOK(calls, others, users),
           NEW kept, NEW m \in Stacks
    PROVE  QueuesOK(Mounted(Disowned(calls, kept), kept, m), Disowned(others, kept), users)
<1>1. RequestOK(DraftRead, users) /\ RequestOK(ListRead, users)
  BY NothingListed, EmptyOK
     DEF DraftRead, ListRead, GetItem, Handler, RequestOK, HandlerCall, At
<1> DEFINE c == Disowned(calls, kept)
           o == Disowned(others, kept)
<1>2. QueuesOK(c, o, users)
  BY DisownedOK
<1> HIDE DEF c, o
<1>3. IsQueue(c)
  BY <1>2 DEF QueuesOK
<1>4. QueuesOK(Append(c, DraftRead), o, users) /\ QueuesOK(Append(c, ListRead), o, users)
  BY <1>1, <1>2, PushOK
<1>5. Mounted(c, kept, m) \in {c, Append(c, DraftRead), Append(c, ListRead)}
  BY <1>3, MountedIs
<1>6. QueuesOK(Mounted(c, kept, m), o, users)
  BY <1>2, <1>4, <1>5
<1> QED BY <1>6 DEF c, o

-----------------------------------------------------------------------------
(* Every row has a registered member of its own.                           *)

RowsHold(m, d, s, calls, others, rows, list) ==
    /\ StoreOK(m, Listed(m[USER_MEMBER_KEY])) /\ StoreOK(d, Listed(m[USER_MEMBER_KEY]))
    /\ StoreOK(s, Listed(m[USER_MEMBER_KEY]))
    /\ d[USER_MEMBER_KEY] = m[USER_MEMBER_KEY] /\ s[USER_MEMBER_KEY] = m[USER_MEMBER_KEY]
    /\ QueuesOK(calls, others, Listed(m[USER_MEMBER_KEY]))
    /\ RowsOK(rows, Listed(m[USER_MEMBER_KEY]))
    /\ ToSet(list) \subseteq Row

RowsInv == Nested /\ RowsHold(mem, disk, staged, requests, replies, members, membersList)

LEMMA RowsParts ==
    ASSUME RowsInv
    PROVE  /\ main \in Stacks
           /\ StoreOK(mem, Registered) /\ StoreOK(disk, Registered)
           /\ StoreOK(staged, Registered)
           /\ disk[USER_MEMBER_KEY] = mem[USER_MEMBER_KEY]
           /\ staged[USER_MEMBER_KEY] = mem[USER_MEMBER_KEY]
           /\ QueuesOK(requests, replies, Registered)
           /\ RowsOK(members, Registered) /\ ToSet(membersList) \subseteq Row
BY DEF RowsInv, Nested, RowsHold, Registered

\* A step that registers nobody.
LEMMA RowsPrimed ==
    ASSUME RowsInv, main' \in Stacks,
           mem'[USER_MEMBER_KEY] = mem[USER_MEMBER_KEY],
           disk'[USER_MEMBER_KEY] = mem[USER_MEMBER_KEY],
           staged'[USER_MEMBER_KEY] = mem[USER_MEMBER_KEY],
           StoreOK(mem', Registered), StoreOK(disk', Registered),
           StoreOK(staged', Registered),
           QueuesOK(requests', replies', Registered),
           RowsOK(members', Registered), ToSet(membersList') \subseteq Row
    PROVE  RowsInv'
<1>1. RowsHold(mem', disk', staged', requests', replies', members', membersList')
  BY DEF RowsHold, Registered
<1>2. Nested'
  BY DEF Nested, Stacks, AtHome, AtCreate, AtList
<1> QED BY <1>1, <1>2
        DEF RowsInv, RowsHold, StoreOK, QueuesOK, RowsOK, UsersOK, Listed

\* The store without the draft, as when its file is gone.
Draftless(store) == [store EXCEPT ![TEMP_MEMBERS] = Missing]

LEMMA DraftlessOK ==
    ASSUME NEW users, NEW store, StoreOK(store, users)
    PROVE  /\ StoreOK(Draftless(store), users)
           /\ Draftless(store)[USER_MEMBER_KEY] = store[USER_MEMBER_KEY]
<1>1. /\ DOMAIN Draftless(store) = StorageKey
      /\ Draftless(store)[TEMP_MEMBERS] = Missing
      /\ Draftless(store)[USER_MEMBER_KEY] = store[USER_MEMBER_KEY]
  BY KeyFacts DEF StoreOK, Draftless
<1> QED BY <1>1, NothingListed, EmptyOK DEF StoreOK

\* Whatever a call does to a copy of the store, succeeds or fails, leaves one of
\* these, and so does a crash.
Copies(r) ==
    {mem, disk, staged, Written(mem, r), Written(disk, r), Written(staged, r),
     Draftless(mem), Draftless(disk), Draftless(staged)}

LEMMA CopiesOK ==
    ASSUME RowsInv, NEW r, RequestOK(r, Registered), NEW store \in Copies(r)
    PROVE  /\ StoreOK(store, Registered)
           /\ store[USER_MEMBER_KEY] = mem[USER_MEMBER_KEY]
<1>1. ASSUME NEW old, StoreOK(old, Registered),
             old[USER_MEMBER_KEY] = mem[USER_MEMBER_KEY]
      PROVE  /\ StoreOK(Written(old, r), Registered)
             /\ Written(old, r)[USER_MEMBER_KEY] = mem[USER_MEMBER_KEY]
             /\ StoreOK(Draftless(old), Registered)
             /\ Draftless(old)[USER_MEMBER_KEY] = mem[USER_MEMBER_KEY]
  BY <1>1, WrittenOK, DraftlessOK
<1>2. CASE store \in {mem, Written(mem, r), Draftless(mem)}
  BY <1>1, <1>2, RowsParts
<1>3. CASE store \in {disk, Written(disk, r), Draftless(disk)}
  BY <1>1, <1>3, RowsParts
<1>4. CASE store \in {staged, Written(staged, r), Draftless(staged)}
  BY <1>1, <1>4, RowsParts
<1> QED BY <1>2, <1>3, <1>4 DEF Copies

\* Only a draft has a file.
LEMMA FileIsDrafts ==
    ASSUME NEW key, NEW value, HasFile(key, value)
    PROVE  key = TEMP_MEMBERS
BY DraftAssumption DEF HasFile

LEMMA RemainsCopies ==
    ASSUME NEW r
    PROVE  Remains(r) \subseteq Copies(r)
<1>1. CASE ~TouchesFile(r)
  BY <1>1 DEF Remains, Copies
<1>2. CASE TouchesFile(r)
  <2>1. Written(disk, r) = [disk EXCEPT ![r.key] = r.value] /\ r.key = TEMP_MEMBERS
    BY <1>2, FileIsDrafts DEF TouchesFile, Written
  <2>2. [disk EXCEPT ![r.key] = IF HasFile(r.key, r.value) THEN r.value ELSE Missing]
          \in Copies(r)
    BY <2>1 DEF Copies, Draftless
  <2> QED BY <1>2, <2>2 DEF Remains, Copies
<1> QED BY <1>1, <1>2

LEMMA StoreMoves ==
    ASSUME StoreStep
    PROVE  /\ requests # <<>> /\ requests' = Tail(requests)
           /\ UNCHANGED <<main, membersList, members, abandoned>>
           /\ mem' \in Copies(Head(requests)) /\ disk' \in Copies(Head(requests))
           /\ staged' \in Copies(Head(requests))
           /\ \E error : replies' = Append(replies, Answer(Head(requests), error))
           /\ \/ /\ faults' = faults /\ mem' = Written(mem, Head(requests))
                 /\ staged' = Written(staged, Head(requests))
                 /\ replies' = Append(replies, Answer(Head(requests), FALSE))
              \/ faults' = faults + 1
<1> DEFINE r == Head(requests)
<1>1. CASE Execute
  <2>1. Persisted(r) \subseteq Copies(r)
    BY DEF Persisted, Copies
  <2>2. Written(mem, r) \in Copies(r) /\ Written(staged, r) \in Copies(r)
    BY DEF Copies
  <2> QED BY <1>1, <2>1, <2>2 DEF Execute, failures, StoreStep, draftVars
<1>2. CASE Fail
  <2>1. \/ FailsInDatabase(r) \/ FailsToSetUp \/ FailsToPersist(r)
        \/ FailsToWriteFile(r) \/ FailsToReadFile(r)
    BY <1>2 DEF Fail
  <2>2. Remains(r) \subseteq Copies(r)
    BY RemainsCopies
  <2>3. /\ mem \in Copies(r) /\ disk \in Copies(r) /\ staged \in Copies(r)
        /\ Written(mem, r) \in Copies(r) /\ Written(staged, r) \in Copies(r)
        /\ Draftless(mem) \in Copies(r) /\ Draftless(staged) \in Copies(r)
    BY DEF Copies
  <2> HIDE DEF r
  <2>4. mem' \in Copies(r) /\ disk' \in Copies(r) /\ staged' \in Copies(r)
    <3>1. CASE FailsInDatabase(r)
      BY <2>2, <3>1, Zenon DEF FailsInDatabase
    <3>2. CASE FailsToSetUp
      BY <2>3, <3>2, Zenon DEF FailsToSetUp, stores
    <3>3. CASE FailsToPersist(r)
      BY <2>2, <2>3, <3>3, Zenon DEF FailsToPersist
    <3>4. CASE FailsToWriteFile(r)
      <4>1. mem' \in Copies(r)
        BY <2>3, <3>4 DEF FailsToWriteFile
      <4> QED BY <2>3, <3>4, <4>1, Zenon DEF FailsToWriteFile
    <3>5. CASE FailsToReadFile(r)
      <4>1. r.key = TEMP_MEMBERS
        BY <3>5, FileIsDrafts DEF FailsToReadFile
      <4> QED BY <2>3, <3>5, <4>1, Zenon DEF FailsToReadFile, Draftless
    <3> QED BY <2>1, <3>1, <3>2, <3>3, <3>4, <3>5
  <2> QED BY <1>2, <2>4 DEF Fail, StoreStep, draftVars, r
<1> QED BY <1>1, <1>2 DEF StoreStep

\* The cache is emptied.
LEMMA EmptyCacheMoves ==
    ASSUME EmptyCache
    PROVE  /\ UNCHANGED <<disk, staged, requests, replies, faults, main, membersList,
                          members, abandoned>>
           /\ mem # staged
           /\ \E key \in StorageKey : mem' = [mem EXCEPT ![key] = staged[key]]
BY DEF EmptyCache, Evict, failures, draftVars

\* What a callback does: it is the oldest one, and sets a list or goes on.
LEMMA HeardMoves ==
    ASSUME Heard
    PROVE  /\ replies # <<>> /\ replies' = Tail(replies)
           /\ UNCHANGED <<main, mem, disk, staged, faults, abandoned>>
           /\ \/ requests' = requests
              \/ /\ Call.at = "list.temp" /\ Listed(Reply.value) = <<>> /\ ~Reply.error
                 /\ requests' = Append(requests, GetItem(USER_MEMBER_KEY,
                                            [Call EXCEPT !.at = "list.users"]))
           /\ \/ members' = members
              \/ /\ Call.at = "list.temp" /\ Call.mounted
                 /\ Listed(Reply.value) # <<>> /\ members' = Reply.value
              \/ /\ Call.at = "list.users" /\ Call.mounted
                 /\ members' = [i \in DOMAIN Listed(Reply.value) |->
                                  NewRow(Listed(Reply.value)[i])]
           /\ \/ membersList' = membersList
              \/ /\ Call.at = "create" /\ Call.mounted
                 /\ membersList' = Chosen(Listed(Reply.value))
<1>1. CASE CreateFetched
  BY <1>1 DEF CreateFetched, Awaited, Answered, stores, failures, OtherReplies
<1>2. CASE TempFetched
  BY <1>2 DEF TempFetched, Awaited, Answered, stores, failures, OtherReplies, SetMembers,
              draftVars
<1>3. CASE UsersFetched
  BY <1>3 DEF UsersFetched, Awaited, Answered, stores, failures, OtherReplies, SetMembers
<1>4. CASE Removed \/ Rejected
  BY <1>4 DEF Removed, Rejected, Awaited, Answered, stores, failures, OtherReplies, draftVars
<1> QED BY <1>1, <1>2, <1>3, <1>4 DEF Heard

\* What the navigator shows.
LEMMA ShowMoves ==
    ASSUME NEW m, NEW kept, NEW calls, NEW others, Show(m, kept, calls, others)
    PROVE  /\ main' = m /\ UNCHANGED <<mem, disk, staged, faults>>
           /\ membersList' = IF "CREATE" \in kept THEN membersList ELSE <<>>
           /\ members' = IF "LIST" \in kept THEN members ELSE <<>>
           /\ requests' = Mounted(Disowned(calls, kept), kept, m)
           /\ replies' = Disowned(others, kept)
BY DEF Show, Answered, stores, failures, Mounted

LEMMA ShowRows ==
    ASSUME RowsInv, NEW m \in Stacks, NEW kept,
           NEW calls, NEW others, QueuesOK(calls, others, Registered),
           Show(m, kept, calls, others)
    PROVE  RowsInv'
<1>1. QueuesOK(requests', replies', Registered)
  BY MountedOK, ShowMoves
<1>2. RowsOK(members', Registered) /\ ToSet(membersList') \subseteq Row
  <2>1. ToSet(<<>>) = {}
    BY DEF ToSet
  <2> QED BY <2>1, RowsParts, EmptyOK, ShowMoves
<1> QED BY <1>1, <1>2, RowsParts, ShowMoves, RowsPrimed

LEMMA GoingRows == RowsInv /\ Going => RowsInv'
<1> SUFFICES ASSUME RowsInv, Going PROVE RowsInv'
  OBVIOUS
<1>1. /\ QueuesOK(requests, replies, Registered)
      /\ AtHome \in Stacks /\ AtCreate \in Stacks /\ main \in Stacks /\ Below \in Stacks
  BY RowsParts DEF Stacks, Below
<1>2. QueuesOK(Append(requests, Removal), replies, Registered)
  <2>1. RequestOK(Removal, Registered)
    BY NothingListed, EmptyOK DEF Removal, RemoveItem, Handler, RequestOK, HandlerCall, At
  <2> QED BY <1>1, <2>1, PushOK
<1>3. replies # <<>> => QueuesOK(requests, OtherReplies, Registered)
  BY <1>1, PopOK DEF OtherReplies
<1>4. ASSUME NEW from, NEW to \in Stacks, NEW calls, NEW others, Went(from, to, calls, others),
             QueuesOK(calls, others, Registered)
      PROVE  RowsInv'
  BY <1>4, ShowRows DEF Went
<1>5. AtList \in Stacks
  BY DEF Stacks
<1> QED BY <1>1, <1>2, <1>3, <1>4, <1>5, ShowRows DEF Going, Awaited

LEMMA StoreRows == RowsInv /\ StoreStep => RowsInv'
<1> SUFFICES ASSUME RowsInv, StoreStep PROVE RowsInv'
  OBVIOUS
<1> DEFINE r == Head(requests)
<1>1. requests # <<>> /\ QueuesOK(requests, replies, Registered)
  BY StoreMoves, RowsParts
<1>2. RequestOK(r, Registered) /\ QueuesOK(Tail(requests), replies, Registered)
  BY <1>1, PopOK
<1> HIDE DEF r
<1>3. /\ StoreOK(mem', Registered) /\ mem'[USER_MEMBER_KEY] = mem[USER_MEMBER_KEY]
      /\ StoreOK(disk', Registered) /\ disk'[USER_MEMBER_KEY] = mem[USER_MEMBER_KEY]
      /\ StoreOK(staged', Registered) /\ staged'[USER_MEMBER_KEY] = mem[USER_MEMBER_KEY]
  <2>1. mem' \in Copies(r) /\ disk' \in Copies(r) /\ staged' \in Copies(r)
    BY StoreMoves DEF r
  <2> QED BY <1>2, <2>1, CopiesOK
<1>4. QueuesOK(requests', replies', Registered)
  <2>1. PICK error : replies' = Append(replies, Answer(r, error))
    BY StoreMoves DEF r
  <2>2. ReplyOK(Answer(r, error), Registered)
    BY <1>2, AnswerOK, RowsParts
  <2>3. requests' = Tail(requests)
    BY StoreMoves
  <2> QED BY <1>2, <2>1, <2>2, <2>3, PushOK
<1> QED BY <1>3, <1>4, StoreMoves, RowsParts, RowsPrimed

LEMMA HeardRows == RowsInv /\ Heard => RowsInv'
<1> SUFFICES ASSUME RowsInv, Heard PROVE RowsInv'
  OBVIOUS
<1>1. replies # <<>> /\ QueuesOK(requests, replies, Registered)
  BY HeardMoves, RowsParts
<1>2. ReplyOK(Reply, Registered) /\ QueuesOK(requests, Tail(replies), Registered)
  BY <1>1, PopOK DEF Reply
<1>3. QueuesOK(requests', replies', Registered)
  <2> DEFINE r == GetItem(USER_MEMBER_KEY, [Call EXCEPT !.at = "list.users"])
  <2>1. RequestOK(r, Registered)
    <3>1. [Call EXCEPT !.at = "list.users"] = [at |-> "list.users", mounted |-> Call.mounted]
          /\ Call.mounted \in BOOLEAN
      BY <1>2 DEF Call, ReplyOK, HandlerCall
    <3>2. [Call EXCEPT !.at = "list.users"] \in HandlerCall
      BY <3>1 DEF HandlerCall, At
    <3> QED BY <3>1, <3>2, NothingListed, EmptyOK DEF GetItem, RequestOK
  <2>2. QueuesOK(Append(requests, r), Tail(replies), Registered)
    BY <1>2, <2>1, PushOK
  <2> HIDE DEF r
  <2>3. requests' \in {requests, Append(requests, r)} /\ replies' = Tail(replies)
    BY HeardMoves DEF r
  <2> QED BY <1>2, <2>2, <2>3
<1>4. RowsOK(members', Registered)
  <2>1. CASE members' = members
    BY <2>1, RowsParts
  <2>2. CASE Call.at = "list.temp" /\ Listed(Reply.value) # <<>> /\ members' = Reply.value
    <3>1. RowsOK(Listed(Reply.value), Registered)
      BY <1>2, <2>2 DEF ReplyOK, Call
    <3>2. Listed(Reply.value) = Reply.value
      BY <2>2 DEF Listed
    <3> QED BY <2>2, <3>1, <3>2
  <2>3. CASE Call.at = "list.users"
             /\ members' = [i \in DOMAIN Listed(Reply.value) |->
                              NewRow(Listed(Reply.value)[i])]
    <3>1. UsersOK(Listed(Reply.value), Registered)
      BY <1>2, <2>3 DEF ReplyOK, Call
    <3> QED BY <2>3, <3>1, NewRowsOK
  <2> QED BY <2>1, <2>2, <2>3, HeardMoves
<1>5. ToSet(membersList') \subseteq Row
  <2>1. CASE membersList' = membersList
    BY <2>1, RowsParts
  <2>2. CASE Call.at = "create" /\ membersList' = Chosen(Listed(Reply.value))
    <3>1. Listed(Reply.value) \in Seq(Row)
      BY <1>2, <2>2 DEF ReplyOK, Call, RowsOK
    <3> QED BY <2>2, <3>1, ChosenRows
  <2> QED BY <2>1, <2>2, HeardMoves
<1> QED BY <1>3, <1>4, <1>5, HeardMoves, RowsParts, RowsPrimed

LEMMA EditedMoves ==
    ASSUME RowsInv, Edited
    PROVE  /\ RowsOK(members', Registered) /\ Emails(members') = Emails(members)
           /\ Screen = "LIST"
           /\ UNCHANGED <<storageVars, main, membersList, abandoned>>
<1>1. PICK i \in DOMAIN members :
        \/ HandleMemberPress(i)
        \/ \E val \in {"5", "0"} : HandleMemberValChange(i, val)
  BY DEF Edited
<1>2. RowsOK(members, Registered) /\ members[i] \in Row
  <2>1. members \in Seq(Row)
    BY RowsParts DEF RowsOK
  <2> QED BY <2>1, RowsParts, SeqParts
<1>3. ASSUME NEW row \in Row, row.email = members[i].email,
             members' = [members EXCEPT ![i] = row]
      PROVE  RowsOK(members', Registered) /\ Emails(members') = Emails(members)
  BY <1>2, <1>3, EditedRowsOK
<1>4. CASE HandleMemberPress(i)
  <2> DEFINE row == [members[i] EXCEPT !.isSelected = ~@]
  <2>1. row \in Row /\ row.email = members[i].email
    BY <1>2 DEF Row
  <2>2. members' = [members EXCEPT ![i] = row]
    BY <1>4 DEF HandleMemberPress
  <2> HIDE DEF row
  <2> QED BY <1>3, <1>4, <2>1, <2>2 DEF HandleMemberPress, On
<1>5. CASE \E val \in {"5", "0"} : HandleMemberValChange(i, val)
  <2>1. PICK val \in {"5", "0"} : HandleMemberValChange(i, val)
    BY <1>5
  <2> DEFINE row == [members[i] EXCEPT !.value = val]
  <2>2. row \in Row /\ row.email = members[i].email
    BY <1>2 DEF Row
  <2>3. members' = [members EXCEPT ![i] = row]
    BY <2>1 DEF HandleMemberValChange
  <2> HIDE DEF row
  <2> QED BY <1>3, <2>1, <2>2, <2>3 DEF HandleMemberValChange, On
<1> QED BY <1>1, <1>4, <1>5

LEMMA EditedRows == RowsInv /\ Edited => RowsInv'
<1> SUFFICES ASSUME RowsInv, Edited PROVE RowsInv'
  OBVIOUS
<1>1. /\ RowsOK(members', Registered)
      /\ UNCHANGED <<main, membersList, mem, disk, staged, requests, replies>>
  BY EditedMoves DEF storageVars, stores
<1> QED BY <1>1, RowsParts, RowsPrimed

Submission == SetItem(TEMP_MEMBERS, members, Handler("save"))

LEMMA SubmitMoves ==
    ASSUME HandleSubmit
    PROVE  /\ Screen = "LIST" /\ Under("save") < MaxTaps
           /\ requests' = Append(requests, Submission) /\ replies' = replies
           /\ UNCHANGED <<mem, disk, staged, faults, main, membersList, members,
                          abandoned>>
BY DEF HandleSubmit, On, Answered, stores, failures, Submission, draftVars

LEMMA SubmitRows == RowsInv /\ HandleSubmit => RowsInv'
<1> SUFFICES ASSUME RowsInv, HandleSubmit PROVE RowsInv'
  OBVIOUS
<1>1. RequestOK(Submission, Registered)
  <2>1. RowsOK(Listed(members), Registered)
    BY RowsParts, EmptyOK DEF Listed
  <2> QED BY <2>1 DEF Submission, SetItem, Handler, RequestOK, HandlerCall, At
<1>2. QueuesOK(requests', replies', Registered)
  BY <1>1, SubmitMoves, RowsParts, PushOK
<1> QED BY <1>2, SubmitMoves, RowsParts, RowsPrimed

\* Signing up puts a member who was not there before the others.
LEMMA ConsOK ==
    ASSUME NEW list \in Seq(Email), IsInjective(list),
           NEW email \in Email, ~Contains(list, email)
    PROVE  /\ UsersOK(<<email>> \o list, <<email>> \o list)
           /\ ToSet(list) \subseteq ToSet(<<email>> \o list)
<1> DEFINE after == <<email>> \o list
<1>1. /\ Len(list) \in Nat /\ DOMAIN list = 1..Len(list)
      /\ \A i \in DOMAIN list : list[i] # email
  BY SeqParts DEF Contains
<1>2. /\ after \in Seq(Email) /\ Len(after) = 1 + Len(list)
      /\ \A i \in 1..(1 + Len(list)) :
           after[i] = IF i <= 1 THEN email ELSE list[i - 1]
  <2>1. <<email>> \in Seq(Email) /\ Len(<<email>>) = 1 /\ <<email>>[1] = email
    OBVIOUS
  <2> DEFINE one == <<email>>
  <2> HIDE DEF one
  <2>2. /\ one \o list \in Seq(Email) /\ Len(one \o list) = Len(one) + Len(list)
        /\ \A i \in 1..(Len(one) + Len(list)) :
             (one \o list)[i] = IF i <= Len(one) THEN one[i] ELSE list[i - Len(one)]
    BY <2>1, ConcatProperties DEF one
  <2>3. Len(one) = 1 /\ one[1] = email
    BY <2>1 DEF one
  <2>4. \A i \in 1..(1 + Len(list)) : i <= 1 => i = 1
    BY <1>1
  <2>5. /\ one \o list \in Seq(Email) /\ Len(one \o list) = 1 + Len(list)
        /\ \A i \in 1..(1 + Len(list)) :
             (one \o list)[i] = IF i <= 1 THEN email ELSE list[i - 1]
    BY <2>2, <2>3, <2>4
  <2> QED BY <2>5 DEF one
<1>3. DOMAIN after = 1..(1 + Len(list))
  BY <1>2, LenProperties
<1> HIDE DEF after
<1>4. IsInjective(after)
  <2> SUFFICES ASSUME NEW i \in 1..(1 + Len(list)), NEW j \in 1..(1 + Len(list)),
                      after[i] = after[j]
               PROVE  i = j
    BY <1>3 DEF IsInjective
  <2>1. \A k \in 1..(1 + Len(list)) : k = 1 \/ (~(k <= 1) /\ k - 1 \in DOMAIN list)
    BY <1>1
  <2>2. \A k \in 1..(1 + Len(list)) :
          \/ k = 1 /\ after[k] = email
          \/ k - 1 \in DOMAIN list /\ after[k] = list[k - 1]
    BY <1>2, <2>1
  <2>3. i - 1 = j - 1 => i = j
    OBVIOUS
  <2> QED BY <1>1, <2>2, <2>3 DEF IsInjective
<1>5. ToSet(list) \subseteq ToSet(after)
  <2> SUFFICES ASSUME NEW i \in DOMAIN list PROVE list[i] \in ToSet(after)
    BY DEF ToSet
  <2>1. i + 1 \in DOMAIN after /\ ~(i + 1 <= 1) /\ i + 1 - 1 = i
    BY <1>1, <1>3
  <2>2. after[i + 1] = list[i]
    BY <1>2, <1>3, <2>1
  <2> QED BY <2>1, <2>2 DEF ToSet
<1> QED BY <1>2, <1>4, <1>5 DEF UsersOK, after

\* The store in which the new member is registered.
Joined(store, email) ==
    [store EXCEPT ![USER_MEMBER_KEY] = <<email>> \o Registered]

LEMMA SignUpMoves ==
    ASSUME RowsInv, NEW email \in Email, MemberSignsUp(email)
    PROVE  /\ Registered' = <<email>> \o Registered
           /\ mem' = Joined(mem, email) /\ staged' = Joined(staged, email)
           /\ disk' \in {Joined(staged, email), Joined(disk, email)}
           /\ mem'[TEMP_MEMBERS] = mem[TEMP_MEMBERS]
           /\ UsersOK(Registered', Registered') /\ ToSet(Registered) \subseteq ToSet(Registered')
           /\ Screen = "HOME"
           /\ UNCHANGED <<requests, replies, faults, main, membersList, members, abandoned>>
<1> DEFINE r == SetItem(USER_MEMBER_KEY, <<email>> \o Registered, Handler("signup"))
<1>0. \A store : Written(store, r) = Joined(store, email)
  BY DEF SetItem, Written, Joined
<1>1. /\ mem' = Joined(mem, email) /\ staged' = Joined(staged, email)
      /\ disk' \in {Joined(staged, email), Joined(disk, email)}
  <2>1. /\ mem' = Written(mem, r) /\ staged' = Written(staged, r)
        /\ disk' \in Persisted(r)
    BY DEF MemberSignsUp, Registered
  <2>2. r.op = "set" /\ r.key = USER_MEMBER_KEY
    BY DEF SetItem
  <2> HIDE DEF r
  <2>3. ~HasFile(r.key, r.value)
    BY <2>2, FileIsDrafts, KeyFacts
  <2>4. \A refers : ChangesManifest(r, refers)
    BY <2>2, <2>3 DEF ChangesManifest
  <2>5. Persisted(r) \subseteq {Written(staged, r), Written(disk, r)}
    BY <2>4 DEF Persisted
  <2> QED BY <1>0, <2>1, <2>5
<1>2. /\ ~Contains(Registered, email) /\ Screen = "HOME"
      /\ UNCHANGED <<requests, replies, faults, main, membersList, members, abandoned>>
  BY DEF MemberSignsUp, On, draftVars, failures, Registered
<1>3. Registered \in Seq(Email) /\ IsInjective(Registered) /\ DOMAIN mem = StorageKey
  BY RowsParts DEF StoreOK, UsersOK, Registered
<1>4. /\ UsersOK(<<email>> \o Registered, <<email>> \o Registered)
      /\ ToSet(Registered) \subseteq ToSet(<<email>> \o Registered)
  BY <1>2, <1>3, ConsOK
<1> DEFINE after == <<email>> \o Registered
<1>5. after \in Seq(Email)
  BY <1>4 DEF UsersOK
<1> HIDE DEF after
<1>6. mem'[USER_MEMBER_KEY] = after /\ mem'[TEMP_MEMBERS] = mem[TEMP_MEMBERS]
  BY <1>1, <1>3, KeyFacts DEF Joined, after
<1>7. Registered' = after
  BY <1>5, <1>6, DraftAssumption DEF Registered, Listed
<1> QED BY <1>1, <1>2, <1>4, <1>6, <1>7 DEF after

LEMMA SignUpRows ==
    RowsInv /\ (\E email \in Email : MemberSignsUp(email)) => RowsInv'
<1> SUFFICES ASSUME RowsInv, NEW email \in Email, MemberSignsUp(email) PROVE RowsInv'
  OBVIOUS
<1> DEFINE more == <<email>> \o Registered
<1>1. /\ UsersOK(more, more) /\ ToSet(Registered) \subseteq ToSet(more) /\ Listed(more) = more
      /\ UNCHANGED <<requests, replies, main, membersList, members>>
  <2>1. more \in Seq(Email)
    BY SignUpMoves DEF UsersOK
  <2> QED BY <2>1, SignUpMoves, DraftAssumption DEF Listed
<1>2. ASSUME NEW store, StoreOK(store, Registered)
      PROVE  StoreOK(Joined(store, email), more) /\ Joined(store, email)[USER_MEMBER_KEY] = more
  <2>1. /\ DOMAIN Joined(store, email) = StorageKey
        /\ Joined(store, email)[TEMP_MEMBERS] = store[TEMP_MEMBERS]
        /\ Joined(store, email)[USER_MEMBER_KEY] = more
    BY <1>2, KeyFacts DEF StoreOK, Joined
  <2> HIDE DEF more
  <2>2. RowsOK(Listed(store[TEMP_MEMBERS]), more)
    BY <1>1, <1>2, GrownOK DEF StoreOK
  <2> QED BY <1>1, <2>1, <2>2 DEF StoreOK
<1> HIDE DEF more
<1>3. RowsOK(members, more) /\ QueuesOK(requests, replies, more)
  BY <1>1, GrownOK, RowsParts
<1>4. /\ StoreOK(mem', more) /\ mem'[USER_MEMBER_KEY] = more
      /\ StoreOK(staged', more) /\ staged'[USER_MEMBER_KEY] = more
  BY <1>2, RowsParts, SignUpMoves
<1>5. StoreOK(disk', more) /\ disk'[USER_MEMBER_KEY] = more
  <2>1. CASE disk' = Joined(staged, email)
    BY <1>2, <2>1, RowsParts
  <2>2. CASE disk' = Joined(disk, email)
    BY <1>2, <2>2, RowsParts
  <2> QED BY <2>1, <2>2, SignUpMoves
<1>6. RowsHold(mem', disk', staged', requests', replies', members', membersList')
  BY <1>1, <1>3, <1>4, <1>5, RowsParts DEF RowsHold
<1>7. Nested'
  BY <1>1, RowsParts DEF Nested, Stacks, AtHome, AtCreate, AtList
<1> QED BY <1>6, <1>7
        DEF RowsInv, RowsHold, StoreOK, QueuesOK, RowsOK, UsersOK, Listed

LEMMA EmptyCacheRows == RowsInv /\ EmptyCache => RowsInv'
<1> SUFFICES ASSUME RowsInv, EmptyCache PROVE RowsInv'
  OBVIOUS
<1>1. PICK key \in StorageKey : mem' = [mem EXCEPT ![key] = staged[key]]
  BY EmptyCacheMoves
<1>2. key = TEMP_MEMBERS \/ key = USER_MEMBER_KEY
  BY DraftAssumption
<1>3. /\ DOMAIN mem' = StorageKey /\ mem'[USER_MEMBER_KEY] = mem[USER_MEMBER_KEY]
      /\ mem'[TEMP_MEMBERS] \in {mem[TEMP_MEMBERS], staged[TEMP_MEMBERS]}
  BY <1>1, <1>2, RowsParts, KeyFacts DEF StoreOK
<1>4. StoreOK(mem', Registered)
  BY <1>3, RowsParts DEF StoreOK
<1> QED BY <1>3, <1>4, EmptyCacheMoves, RowsParts, RowsPrimed

LEMMA NoCalls == ASSUME NEW users PROVE QueuesOK(<<>>, <<>>, users)
<1>1. IsQueue(<<>>) /\ DOMAIN <<>> = {}
  BY EmptySeq DEF IsQueue
<1> QED BY <1>1 DEF QueuesOK

LEMMA CrashMoves ==
    ASSUME Crash
    PROVE  /\ main' = AtHome /\ membersList' = <<>> /\ members' = <<>>
           /\ requests' = <<>> /\ replies' = <<>> /\ abandoned'
           /\ disk' = disk \/ (requests # <<>> /\ disk' \in Copies(Head(requests)))
           /\ mem' = disk' /\ staged' = disk' /\ faults' = faults
<1>1. abandoned'
  BY Zenon DEF Crash
<1> QED BY <1>1, RemainsCopies
        DEF Crash, Restart, failures, InitialState, AtHome, Rehydrated, Route

LEMMA CrashRows == RowsInv /\ Crash => RowsInv'
<1> SUFFICES ASSUME RowsInv, Crash PROVE RowsInv'
  OBVIOUS
<1>1. /\ StoreOK(disk', Registered) /\ disk'[USER_MEMBER_KEY] = mem[USER_MEMBER_KEY]
  <2>1. CASE disk' = disk
    BY <2>1, RowsParts
  <2>2. CASE requests # <<>> /\ disk' \in Copies(Head(requests))
    <3>1. RequestOK(Head(requests), Registered)
      BY <2>2, RowsParts, PopOK
    <3> QED BY <2>2, <3>1, CopiesOK
  <2> QED BY <2>1, <2>2, CrashMoves
<1>2. /\ RowsOK(<<>>, Registered) /\ ToSet(<<>>) = {}
      /\ QueuesOK(<<>>, <<>>, Registered)
  BY EmptyOK, NoCalls DEF ToSet
<1> QED BY <1>1, <1>2, CrashMoves, RowsPrimed DEF Stacks

LEMMA IdleRows == RowsInv /\ UNCHANGED vars => RowsInv'
<1> SUFFICES ASSUME RowsInv, UNCHANGED vars PROVE RowsInv'
  OBVIOUS
<1>1. UNCHANGED <<main, mem, disk, staged, requests, replies, members, membersList>>
  BY DEF vars, storageVars, stores, draftVars
<1> QED BY <1>1, RowsParts, RowsPrimed DEF StoreOK

LEMMA InitRows == Init => RowsInv
<1> SUFFICES ASSUME Init PROVE RowsInv
  OBVIOUS
<1>1. /\ mem = NothingStored /\ disk = NothingStored /\ staged = NothingStored
      /\ requests = <<>> /\ replies = <<>>
      /\ members = <<>> /\ membersList = <<>>
  BY DEF Init, StorageInit
<1>2. /\ DOMAIN NothingStored = StorageKey
      /\ NothingStored[TEMP_MEMBERS] = Missing /\ NothingStored[USER_MEMBER_KEY] = Missing
  BY KeyFacts DEF NothingStored
<1>3. \A users : StoreOK(NothingStored, users)
  BY <1>2, NothingListed, EmptyOK DEF StoreOK
<1>4. ToSet(<<>>) = {}
  BY DEF ToSet
<1> QED BY <1>1, <1>3, <1>4, EmptyOK, NoCalls, InitialStack DEF RowsInv, Nested, RowsHold

LEMMA RowsInductive == RowsInv /\ [Next]_vars => RowsInv'
<1> SUFFICES ASSUME RowsInv, [Next]_vars PROVE RowsInv'
  OBVIOUS
<1>1. main \in Stacks
  BY RowsParts
<1> QED BY <1>1, Moves, StoreRows, HeardRows, GoingRows, EditedRows, SubmitRows,
           SignUpRows, CrashRows, EmptyCacheRows, IdleRows

LEMMA RowsAlways == Spec => []RowsInv
<1> QED BY InitRows, RowsInductive, PTL DEF Spec

\* TypeOK: the rows keep their shape through every copy of the store, whoever
\* reads them, in whatever order the calls are answered or fail.
THEOREM DraftTypeCorrect == Spec => []TypeOK
<1>1. RowsInv => TypeOK
  <2> SUFFICES ASSUME RowsInv PROVE TypeOK
    OBVIOUS
  <2>1. members \in Seq(Row) /\ ToSet(membersList) \subseteq Row
    BY RowsParts DEF RowsOK
  <2>2. \A store \in {mem, disk, staged} :
          /\ Listed(store[USER_MEMBER_KEY]) \in Seq(Email)
          /\ Listed(store[TEMP_MEMBERS]) \in Seq(Row)
    BY RowsParts DEF StoreOK, RowsOK, UsersOK
  <2>3. \A r \in ToSet(requests) \cup ToSet(replies) : r.call \in HandlerCall
    BY RowsParts DEF QueuesOK, RequestOK, ReplyOK, ToSet
  <2> QED BY <2>1, <2>2, <2>3 DEF TypeOK, HandlerCall, At
<1> QED BY <1>1, RowsAlways, PTL

\* RowsRegistered: no member is listed twice or without being registered, from
\* whichever of the two lists the rows were read, edited and saved again.
THEOREM RowsAreRegistered == Spec => []RowsRegistered
<1>1. RowsInv => RowsRegistered
  <2> SUFFICES ASSUME RowsInv, NEW rows \in {members, Listed(mem[TEMP_MEMBERS])}
               PROVE  /\ Cardinality(Emails(rows)) = Len(rows)
                      /\ Emails(rows) \subseteq ToSet(Registered)
    BY DEF RowsRegistered
  <2>1. RowsOK(rows, Registered)
    BY RowsParts DEF StoreOK
  <2> QED BY <2>1, OneEmailEach DEF RowsOK
<1> QED BY <1>1, RowsAlways, PTL

-----------------------------------------------------------------------------
(* What TaskCreation shows.  As long as no call has failed, one of three   *)
(* things is so while it is focused: a read is queued after every write,   *)
(* or its answer is to be shown yet, or has been.                          *)

Reads(q) == q.call.at = "create" /\ q.call.mounted
Writes(q) == q.call.at \in {"save", "handleBack"}

ReadLast(calls) ==
    \E i \in DOMAIN calls :
        Reads(calls[i]) /\ \A j \in DOMAIN calls : Writes(calls[j]) => j < i

NoWrites(calls) == \A i \in DOMAIN calls : ~Writes(calls[i])

AnsweredLast(others, value) ==
    \E i \in DOMAIN others :
        /\ Reads(others[i]) /\ others[i].value = value
        /\ \A j \in DOMAIN others : Reads(others[j]) => j <= i

NoReads(others) == \A i \in DOMAIN others : ~Reads(others[i])

Fresh(calls, others, value, list) ==
    \/ ReadLast(calls)
    \/ NoWrites(calls) /\ AnsweredLast(others, value)
    \/ NoWrites(calls) /\ NoReads(others) /\ list = Chosen(Listed(value))

NoErrors(others) == \A i \in DOMAIN others : others[i].error = FALSE

FreshHolds(failed, m, calls, others, value, list) ==
    /\ failed \in Nat
    /\ failed = 0 => NoErrors(others)
    /\ failed = 0 /\ m = AtCreate => Fresh(calls, others, value, list)

FreshInv == FreshHolds(faults, main, requests, replies, mem[TEMP_MEMBERS], membersList)

LEMMA FreshPrimed ==
    ASSUME FreshHolds(faults', main', requests', replies', mem'[TEMP_MEMBERS], membersList')
    PROVE  FreshInv'
BY DEF FreshInv, FreshHolds, Fresh, ReadLast, NoWrites, AnsweredLast, NoReads, Reads,
       Writes, NoErrors, AtCreate, Listed, Chosen, TEMP_MEMBERS

LEMMA ReadAppended ==
    ASSUME NEW calls, IsQueue(calls)
    PROVE  ReadLast(Append(calls, DraftRead))
<1>1. Reads(DraftRead) /\ ~Writes(DraftRead)
  BY DEF Reads, Writes, DraftRead, GetItem, Handler
<1> DEFINE queue == Append(calls, DraftRead)
<1>2. /\ Len(calls) + 1 \in DOMAIN queue /\ queue[Len(calls) + 1] = DraftRead
      /\ \A j \in DOMAIN queue : j = Len(calls) + 1 \/ j < Len(calls) + 1
  BY QueuePush
<1> HIDE DEF queue
<1>3. \A j \in DOMAIN queue : Writes(queue[j]) => j < Len(calls) + 1
  BY <1>1, <1>2
<1>4. ReadLast(queue)
  BY <1>1, <1>2, <1>3 DEF ReadLast
<1> QED BY <1>4 DEF queue

\* The oldest call is answered.
LEMMA FreshExecuted ==
    ASSUME NEW calls, NEW others, NEW value, NEW list, IsQueue(calls), IsQueue(others),
           calls # <<>>, Fresh(calls, others, value, list),
           NEW a, a.call = Head(calls).call, Reads(a) => a.value = value,
           NEW after, Writes(a) \/ after = value
    PROVE  Fresh(Tail(calls), Append(others, a), after, list)
<1> DEFINE rest == Tail(calls)
           more == Append(others, a)
<1>1. /\ 1 \in DOMAIN calls /\ Head(calls) = calls[1]
      /\ \A i \in DOMAIN rest : i \in Nat /\ i + 1 \in DOMAIN calls /\ rest[i] = calls[i + 1]
      /\ \A i \in DOMAIN calls : i # 1 =>
           i \in Nat /\ i - 1 \in DOMAIN rest /\ rest[i - 1] = calls[i]
  BY QueueTail
<1>2. /\ Len(others) + 1 \in DOMAIN more /\ more[Len(others) + 1] = a
      /\ \A i \in DOMAIN others : /\ i \in DOMAIN more /\ more[i] = others[i]
                                  /\ i \in Nat /\ i < Len(others) + 1
      /\ \A i \in DOMAIN more : i \in DOMAIN others \/ i = Len(others) + 1
  BY QueuePush
<1>3. Len(others) \in Nat
  BY QueueDomain
<1> HIDE DEF rest, more
<1> SUFFICES Fresh(rest, more, after, list)
  BY DEF rest, more
<1>4. Reads(a) => ~Writes(a)
  BY DEF Reads, Writes
<1>5. /\ Reads(a) <=> Reads(calls[1])
      /\ Writes(a) <=> Writes(calls[1])
  BY <1>1, Zenon DEF Reads, Writes
<1>6. NoWrites(rest) /\ Reads(a) => Fresh(rest, more, after, list)
  <2> SUFFICES ASSUME NoWrites(rest), Reads(a) PROVE AnsweredLast(more, after)
    BY DEF Fresh
  <2>1. a.value = after
    BY <1>4
  <2>2. \A j \in DOMAIN more : j <= Len(others) + 1
    BY <1>2, <1>3
  <2> QED BY <1>2, <2>1, <2>2 DEF AnsweredLast
<1>7. NoWrites(calls) => NoWrites(rest)
  BY <1>1 DEF NoWrites
<1>8. CASE ReadLast(calls)
  <2>1. PICK i \in DOMAIN calls :
          Reads(calls[i]) /\ \A j \in DOMAIN calls : Writes(calls[j]) => j < i
    BY <1>8 DEF ReadLast
  <2>2. CASE i = 1
    <3>1. NoWrites(rest)
      <4> SUFFICES ASSUME NEW j \in DOMAIN rest, Writes(rest[j]) PROVE FALSE
        BY DEF NoWrites
      <4>1. j \in Nat /\ j + 1 < 1
        BY <1>1, <2>1, <2>2
      <4> QED BY <4>1
    <3> QED BY <1>5, <1>6, <2>1, <2>2, <3>1
  <2>3. CASE i # 1
    <3>1. i \in Nat /\ i - 1 \in DOMAIN rest /\ Reads(rest[i - 1])
      BY <1>1, <2>1, <2>3
    <3>2. ASSUME NEW j \in DOMAIN rest, Writes(rest[j]) PROVE j < i - 1
      <4>1. j \in Nat /\ j + 1 < i
        BY <1>1, <2>1, <3>2
      <4> QED BY <3>1, <4>1
    <3> QED BY <3>1, <3>2 DEF ReadLast, Fresh
  <2> QED BY <2>2, <2>3
<1>9. CASE NoWrites(calls) /\ AnsweredLast(others, value) /\ ~Reads(a)
  <2>1. ~Writes(a)
    BY <1>1, <1>5, <1>9 DEF NoWrites
  <2>2. PICK i \in DOMAIN others : /\ Reads(others[i]) /\ others[i].value = value
                                   /\ \A j \in DOMAIN others : Reads(others[j]) => j <= i
    BY <1>9 DEF AnsweredLast
  <2>3. \A j \in DOMAIN more : Reads(more[j]) => j <= i
    BY <1>2, <1>9, <2>2
  <2> QED BY <1>2, <1>7, <1>9, <2>1, <2>2, <2>3 DEF AnsweredLast, Fresh
<1>10. CASE NoWrites(calls) /\ NoReads(others) /\ list = Chosen(Listed(value)) /\ ~Reads(a)
  <2>1. ~Writes(a)
    BY <1>1, <1>5, <1>10 DEF NoWrites
  <2>2. NoReads(more)
    BY <1>2, <1>10 DEF NoReads
  <2> QED BY <1>7, <1>10, <2>1, <2>2 DEF Fresh
<1>11. CASE NoWrites(calls) /\ Reads(a)
  BY <1>6, <1>7, <1>11
<1> QED BY <1>8, <1>9, <1>10, <1>11 DEF Fresh

\* The oldest callback runs.
LEMMA FreshHeard ==
    ASSUME NEW calls, NEW others, NEW value, NEW list, IsQueue(calls), IsQueue(others),
           others # <<>>, Fresh(calls, others, value, list),
           NEW r, ~Writes(r), NEW more \in {calls, Append(calls, r)}, NEW after,
           IF Reads(Head(others)) THEN after = Chosen(Listed(Head(others).value))
                                  ELSE after = list
    PROVE  Fresh(more, Tail(others), value, after)
<1> DEFINE rest == Tail(others)
<1>1. /\ 1 \in DOMAIN others /\ Head(others) = others[1]
      /\ \A i \in DOMAIN rest : i \in Nat /\ i + 1 \in DOMAIN others /\ rest[i] = others[i + 1]
      /\ \A i \in DOMAIN others : i # 1 =>
           i \in Nat /\ i - 1 \in DOMAIN rest /\ rest[i - 1] = others[i]
  BY QueueTail
<1>2. /\ \A i \in DOMAIN calls : i \in DOMAIN more /\ more[i] = calls[i]
      /\ \A i \in DOMAIN more :
           \/ i \in DOMAIN calls /\ more[i] = calls[i]
           \/ more[i] = r
  BY QueuePush
<1> HIDE DEF rest
<1>3. NoWrites(calls) => NoWrites(more)
  BY <1>2 DEF NoWrites
<1>4. CASE ReadLast(calls)
  <2>1. ReadLast(more)
    BY <1>2, <1>4 DEF ReadLast
  <2> QED BY <2>1 DEF Fresh, rest
<1>5. CASE NoWrites(calls) /\ AnsweredLast(others, value)
  <2>1. PICK i \in DOMAIN others : /\ Reads(others[i]) /\ others[i].value = value
                                   /\ \A j \in DOMAIN others : Reads(others[j]) => j <= i
    BY <1>5 DEF AnsweredLast
  <2>2. CASE i = 1
    <3>1. NoReads(rest)
      <4> SUFFICES ASSUME NEW j \in DOMAIN rest, Reads(rest[j]) PROVE FALSE
        BY DEF NoReads
      <4>1. j \in Nat /\ 1 <= j /\ j + 1 <= 1
        <5>1. IsQueue(rest)
          BY QueueTail DEF rest
        <5>2. j \in 1..Len(rest) /\ Len(rest) \in Nat
          BY <5>1, QueueDomain
        <5> QED BY <1>1, <2>1, <2>2, <5>2
      <4> QED BY <4>1
    <3> QED BY <1>1, <1>3, <1>5, <2>1, <2>2, <3>1 DEF Fresh, rest
  <2>3. CASE i # 1
    <3>1. /\ i \in Nat /\ i - 1 \in DOMAIN rest
          /\ Reads(rest[i - 1]) /\ rest[i - 1].value = value
      BY <1>1, <2>1, <2>3
    <3>2. ASSUME NEW j \in DOMAIN rest, Reads(rest[j]) PROVE j <= i - 1
      <4>1. j \in Nat /\ j + 1 <= i
        BY <1>1, <2>1, <3>2
      <4> QED BY <3>1, <4>1
    <3> QED BY <1>3, <1>5, <3>1, <3>2 DEF AnsweredLast, Fresh, rest
  <2> QED BY <2>2, <2>3
<1>6. CASE NoWrites(calls) /\ NoReads(others) /\ list = Chosen(Listed(value))
  <2>1. NoReads(rest) /\ ~Reads(Head(others))
    BY <1>1, <1>6 DEF NoReads
  <2> QED BY <1>3, <1>6, <2>1 DEF Fresh, rest
<1> QED BY <1>4, <1>5, <1>6 DEF Fresh

LEMMA NoErrorsKept ==
    ASSUME NEW users, NEW calls, NEW others, QueuesOK(calls, others, users), NoErrors(others)
    PROVE  /\ others # <<>> => Head(others).error = FALSE /\ NoErrors(Tail(others))
           /\ \A r : r.error = FALSE => NoErrors(Append(others, r))
           /\ \A kept : NoErrors(Disowned(others, kept))
<1>1. IsQueue(others) /\ \A i \in DOMAIN others : ReplyOK(others[i], users)
  BY DEF QueuesOK
<1>2. others # <<>> => Head(others).error = FALSE /\ NoErrors(Tail(others))
  <2> SUFFICES ASSUME others # <<>>
               PROVE  Head(others).error = FALSE /\ NoErrors(Tail(others))
    OBVIOUS
  <2>1. /\ 1 \in DOMAIN others /\ Head(others) = others[1]
        /\ \A i \in DOMAIN Tail(others) :
             i + 1 \in DOMAIN others /\ Tail(others)[i] = others[i + 1]
    BY <1>1, QueueTail
  <2> QED BY <2>1 DEF NoErrors
<1>3. ASSUME NEW r, r.error = FALSE PROVE NoErrors(Append(others, r))
  <2>1. \A i \in DOMAIN Append(others, r) :
          \/ i \in DOMAIN others /\ Append(others, r)[i] = others[i]
          \/ Append(others, r)[i] = r
    BY <1>1, QueuePush
  <2> QED BY <1>3, <2>1 DEF NoErrors
<1>4. ASSUME NEW kept PROVE NoErrors(Disowned(others, kept))
  <2>1. \A i \in DOMAIN others : others[i].call \in HandlerCall
    BY <1>1 DEF ReplyOK
  <2>2. /\ DOMAIN Disowned(others, kept) = DOMAIN others
        /\ \A i \in DOMAIN others : Forgotten(others[i], Disowned(others, kept)[i], kept)
    BY <1>1, <2>1, QueueDisowned
  <2>3. ASSUME NEW q, ReplyOK(q, users), NEW d, Forgotten(q, d, kept), q.error = FALSE
        PROVE  d.error = FALSE
    BY <2>3 DEF Forgotten, ReplyOK
  <2> QED BY <1>1, <2>2, <2>3 DEF NoErrors
<1> QED BY <1>2, <1>3, <1>4

LEMMA DraftHeard ==
    ASSUME Heard, Reply.error = FALSE
    PROVE  IF Reads(Reply) THEN membersList' = Chosen(Listed(Reply.value))
                           ELSE membersList' = membersList
<1>1. CASE CreateFetched
  <2>1. Call.at = "create" /\ membersList' = IF Call.mounted THEN Chosen(Listed(Reply.value))
                                             ELSE membersList
    BY <1>1 DEF CreateFetched, Awaited
  <2>2. Reads(Reply) <=> Call.mounted
    BY <2>1, Zenon DEF Reads, Call
  <2> QED BY <2>1, <2>2
<1>2. CASE TempFetched \/ UsersFetched \/ Removed
  <2>1. Call.at \in {"list.temp", "list.users", "handleBack"}
    BY <1>2 DEF TempFetched, UsersFetched, Removed, Awaited
  <2>2. ~Reads(Reply)
    BY <2>1 DEF Reads, Call
  <2>3. membersList' = membersList
    BY <1>2 DEF TempFetched, UsersFetched, Removed, SetMembers, draftVars
  <2> QED BY <2>2, <2>3
<1>3. ~Rejected
  BY DEF Rejected
<1> QED BY <1>1, <1>2, <1>3 DEF Heard

\* Whatever shows TaskCreation queues a read.
LEMMA ShowFresh ==
    ASSUME RowsInv, FreshInv, NEW m \in Stacks, NEW kept,
           NEW calls, NEW others, QueuesOK(calls, others, Registered),
           faults = 0 => NoErrors(others),
           m = AtCreate => "CREATE" \notin kept \/ Screen # "CREATE",
           Show(m, kept, calls, others)
    PROVE  FreshInv'
<1> DEFINE left == Disowned(calls, kept)
<1>1. IsQueue(left)
  BY DisownedOK DEF QueuesOK
<1> HIDE DEF left
<1>2. m = AtCreate => requests' = Append(left, DraftRead)
  BY <1>1, ShowMoves, MountedIs DEF left
<1>3. m = AtCreate => ReadLast(requests')
  BY <1>1, <1>2, ReadAppended
<1>4. faults = 0 => NoErrors(replies')
  <2>1. NoErrors(others) => NoErrors(Disowned(others, kept))
    BY NoErrorsKept
  <2>2. replies' = Disowned(others, kept)
    BY ShowMoves
  <2> QED BY <2>1, <2>2
<1>5. faults' = faults /\ faults \in Nat /\ main' = m
  BY ShowMoves DEF FreshInv, FreshHolds
<1> QED BY <1>3, <1>4, <1>5, FreshPrimed DEF FreshHolds, Fresh

LEMMA GoingFresh == RowsInv /\ FreshInv /\ Going => FreshInv'
<1> SUFFICES ASSUME RowsInv, FreshInv, Going PROVE FreshInv'
  OBVIOUS
<1>1. /\ QueuesOK(requests, replies, Registered)
      /\ AtHome \in Stacks /\ AtCreate \in Stacks /\ AtList \in Stacks
      /\ main \in Stacks /\ Below \in Stacks
  BY RowsParts DEF Stacks, Below
<1>2. QueuesOK(Append(requests, Removal), replies, Registered)
  <2>1. RequestOK(Removal, Registered)
    BY NothingListed, EmptyOK DEF Removal, RemoveItem, Handler, RequestOK, HandlerCall, At
  <2> QED BY <1>1, <2>1, PushOK
<1>3. replies # <<>> => /\ QueuesOK(requests, OtherReplies, Registered)
                        /\ faults = 0 => NoErrors(OtherReplies)
  BY <1>1, PopOK, NoErrorsKept DEF OtherReplies, FreshInv, FreshHolds
<1>4. ASSUME NEW from, NEW to \in Stacks, NEW calls, NEW others, Went(from, to, calls, others),
             QueuesOK(calls, others, Registered), faults = 0 => NoErrors(others),
             to = AtCreate => from # AtCreate
      PROVE  FreshInv'
  <2>1. main = from
    BY <1>4 DEF Went
  <2>2. to = AtCreate => Screen # "CREATE"
    BY <1>1, <1>4, <2>1, ScreenIs
  <2> QED BY <1>4, <2>2, ShowFresh DEF Went
<1>5. faults = 0 => NoErrors(replies)
  BY DEF FreshInv, FreshHolds
<1>6. /\ AtHome # AtCreate /\ AtList # AtCreate
      /\ Below = AtCreate => main # AtCreate
  BY StackFacts DEF Below
<1>7. Show(main, {}, requests, replies) => FreshInv'
  BY <1>1, <1>5, ShowFresh
<1> QED BY <1>1, <1>2, <1>3, <1>4, <1>5, <1>6, <1>7 DEF Going, Awaited

LEMMA StoreFresh == RowsInv /\ FreshInv /\ StoreStep => FreshInv'
<1> SUFFICES ASSUME RowsInv, FreshInv, StoreStep PROVE FreshInv'
  OBVIOUS
<1> DEFINE r == Head(requests)
           a == Answer(r, FALSE)
<1>1. requests # <<>> /\ QueuesOK(requests, replies, Registered)
  BY StoreMoves, RowsParts
<1>2. /\ RequestOK(r, Registered) /\ StoreOK(mem, Registered)
      /\ IsQueue(requests) /\ IsQueue(replies)
  BY <1>1, PopOK, RowsParts DEF QueuesOK
<1>3. faults \in Nat /\ (faults = 0 => NoErrors(replies))
  BY DEF FreshInv, FreshHolds
<1>4. CASE faults' = faults + 1
  BY <1>3, <1>4, FreshPrimed DEF FreshHolds
<1>5. CASE faults' = faults /\ mem' = Written(mem, r) /\ replies' = Append(replies, a)
  <2>1. a.call = r.call /\ a.error = FALSE
    BY DEF Answer
  <2>2. Reads(a) => a.value = mem[TEMP_MEMBERS]
    <3>1. Reads(a) => r.call.at = "create"
      BY <2>1 DEF Reads
    <3>2. r.call.at = "create" => r.op = "get" /\ r.key = TEMP_MEMBERS
      BY <1>2 DEF RequestOK
    <3> QED BY <3>1, <3>2 DEF Answer
  <2>3. Writes(a) \/ mem'[TEMP_MEMBERS] = mem[TEMP_MEMBERS]
    BY <1>2, <1>5, <2>1, WrittenOK DEF Writes
  <2> HIDE DEF r, a
  <2>4. faults = 0 => NoErrors(replies')
    BY <1>1, <1>3, <1>5, <2>1, NoErrorsKept
  <2>5. /\ main' = main /\ membersList' = membersList /\ requests' = Tail(requests)
    BY StoreMoves
  <2>6. Fresh(requests, replies, mem[TEMP_MEMBERS], membersList) =>
          Fresh(requests', replies', mem'[TEMP_MEMBERS], membersList')
    BY <1>1, <1>2, <1>5, <2>1, <2>2, <2>3, <2>5, FreshExecuted DEF r
  <2> QED BY <1>3, <1>5, <2>4, <2>5, <2>6, FreshPrimed DEF FreshInv, FreshHolds
<1> QED BY <1>4, <1>5, StoreMoves

LEMMA HeardFresh == RowsInv /\ FreshInv /\ Heard => FreshInv'
<1> SUFFICES ASSUME RowsInv, FreshInv, Heard PROVE FreshInv'
  OBVIOUS
<1> DEFINE r == GetItem(USER_MEMBER_KEY, [Call EXCEPT !.at = "list.users"])
<1>1. /\ replies # <<>> /\ QueuesOK(requests, replies, Registered)
      /\ IsQueue(requests) /\ IsQueue(replies)
      /\ replies' = Tail(replies) /\ UNCHANGED <<main, mem, faults>>
  BY HeardMoves, RowsParts DEF QueuesOK
<1>2. faults \in Nat /\ (faults = 0 => NoErrors(replies))
  BY DEF FreshInv, FreshHolds
<1>3. faults = 0 => Reply.error = FALSE /\ NoErrors(replies')
  BY <1>1, <1>2, NoErrorsKept DEF Reply
<1>4. ~Writes(r)
  <2>1. Reply.call \in HandlerCall
    BY <1>1, PopOK DEF Reply, ReplyOK
  <2>2. r.call.at = "list.users"
    BY <2>1 DEF GetItem, Call, HandlerCall
  <2> QED BY <2>2 DEF Writes
<1>5. requests' \in {requests, Append(requests, r)}
  BY HeardMoves
<1> HIDE DEF r
<1>6. faults = 0 /\ Fresh(requests, replies, mem[TEMP_MEMBERS], membersList) =>
        Fresh(requests', replies', mem'[TEMP_MEMBERS], membersList')
  BY <1>1, <1>3, <1>4, <1>5, DraftHeard, FreshHeard DEF Reply
<1> QED BY <1>1, <1>2, <1>3, <1>6, FreshPrimed DEF FreshInv, FreshHolds

\* The cache is ahead of a file only after a call has failed.
AheadInv == faults \in Nat /\ (faults = 0 => staged = mem)

LEMMA AheadInductive == RowsInv /\ AheadInv /\ [Next]_vars => AheadInv'
<1> SUFFICES ASSUME RowsInv, AheadInv, [Next]_vars PROVE AheadInv'
  OBVIOUS
<1>1. CASE UNCHANGED <<mem, staged, faults>>
  BY <1>1 DEF AheadInv
<1>2. CASE StoreStep
  <2>1. \/ /\ faults' = faults /\ mem' = Written(mem, Head(requests))
           /\ staged' = Written(staged, Head(requests))
        \/ faults' = faults + 1
    BY <1>2, StoreMoves
  <2> QED BY <2>1 DEF AheadInv
<1>3. CASE \E email \in Email : MemberSignsUp(email)
  BY <1>3, SignUpMoves DEF AheadInv
<1>4. CASE Crash
  BY <1>4, CrashMoves DEF AheadInv
<1>5. CASE EmptyCache
  BY <1>5, EmptyCacheMoves DEF AheadInv
<1>6. CASE Going
  BY <1>1, <1>6 DEF Going, Went, Show, Answered, stores, failures
<1>7. Edited \/ HandleSubmit \/ Heard \/ UNCHANGED vars => UNCHANGED <<mem, staged, faults>>
  BY EditedMoves, SubmitMoves, HeardMoves DEF vars, storageVars, stores, failures
<1> QED BY <1>1, <1>2, <1>3, <1>4, <1>5, <1>6, <1>7, Moves, RowsParts

LEMMA FreshInductive == RowsInv /\ AheadInv /\ FreshInv /\ [Next]_vars => FreshInv'
<1> SUFFICES ASSUME RowsInv, AheadInv, FreshInv, [Next]_vars PROVE FreshInv'
  OBVIOUS
<1>1. main \in Stacks
  BY RowsParts
<1>2. faults \in Nat /\ (faults = 0 => NoErrors(replies))
  BY DEF FreshInv, FreshHolds
\* The steps that do not concern TaskCreation leave it unfocused.
<1>3. CASE /\ main' = main \/ main' = AtHome
           /\ main # AtCreate \/ main' = AtHome
           /\ UNCHANGED faults /\ (replies' = replies \/ replies' = <<>>)
  <2>1. main' # AtCreate
    BY <1>3, StackFacts
  <2>2. NoErrors(<<>>)
    BY DEF NoErrors
  <2> QED BY <1>2, <1>3, <2>1, <2>2, FreshPrimed DEF FreshHolds
<1>4. Edited \/ HandleSubmit \/ (\E email \in Email : MemberSignsUp(email)) \/ Crash => FreshInv'
  <2>1. Edited \/ HandleSubmit \/ (\E email \in Email : MemberSignsUp(email))
          => UNCHANGED <<main, faults, replies>> /\ Screen \in {"LIST", "HOME"}
    BY EditedMoves, SubmitMoves, SignUpMoves DEF storageVars, failures
  <2>2. Screen \in {"LIST", "HOME"} => main # AtCreate
    BY <1>1, ScreenIs
  <2>3. Crash => main' = AtHome /\ UNCHANGED faults /\ replies' = <<>>
    BY CrashMoves
  <2> QED BY <1>3, <2>1, <2>2, <2>3
<1>5. CASE UNCHANGED vars
  BY <1>5, FreshPrimed DEF FreshInv, vars, storageVars, stores, failures, draftVars
<1>6. CASE EmptyCache
  <2>1. faults' # 0 /\ faults' \in Nat
    BY <1>6, EmptyCacheMoves DEF AheadInv
  <2> QED BY <2>1, FreshPrimed DEF FreshHolds
<1> QED BY <1>1, <1>4, <1>5, <1>6, Moves, StoreFresh, HeardFresh, GoingFresh

LEMMA InitFresh == Init => FreshInv
<1> SUFFICES ASSUME Init PROVE FreshInv
  OBVIOUS
<1>1. faults = 0 /\ replies = <<>> /\ main = AtHome
  BY DEF Init, StorageInit, InitialState, AtHome, Rehydrated, Route
<1>2. NoErrors(<<>>)
  BY DEF NoErrors
<1> QED BY <1>1, <1>2, StackFacts DEF FreshInv, FreshHolds

LEMMA InitAhead == Init => AheadInv
BY DEF Init, StorageInit, AheadInv

LEMMA FreshAlways == Spec => [](AheadInv /\ FreshInv)
<1> QED BY InitAhead, InitFresh, AheadInductive, FreshInductive, RowsAlways, PTL DEF Spec

\* DraftShowsSaved: however saves, returns, remounts and restarts follow upon
\* each other, a TaskCreation left alone shows what is stored.
THEOREM DraftIsCurrent == Spec => []DraftShowsSaved
<1>1. RowsInv /\ FreshInv => DraftShowsSaved
  <2> SUFFICES ASSUME RowsInv, FreshInv, Settled, faults = 0, Screen = "CREATE"
               PROVE  membersList = Chosen(Listed(mem[TEMP_MEMBERS]))
    BY DEF DraftShowsSaved
  <2>1. main = AtCreate
    BY RowsParts, ScreenIs
  <2>2. Fresh(<<>>, <<>>, mem[TEMP_MEMBERS], membersList)
    BY <2>1 DEF FreshInv, FreshHolds, Settled
  <2>3. ~ReadLast(<<>>) /\ ~AnsweredLast(<<>>, mem[TEMP_MEMBERS])
    BY DEF ReadLast, AnsweredLast
  <2> QED BY <2>2, <2>3 DEF Fresh
<1> QED BY <1>1, RowsAlways, FreshAlways, PTL

-----------------------------------------------------------------------------
(* A user who waits for Save: there is one at most, and only on the list.  *)

IsSave(q) == q.call.at = "save"
NoSaves(queue) == \A i \in DOMAIN queue : ~IsSave(queue[i])
LoneSave(queue) ==
    \A i, j \in DOMAIN queue : IsSave(queue[i]) /\ IsSave(queue[j]) => i = j

OneSave(calls, others) ==
    /\ LoneSave(calls) /\ LoneSave(others)
    /\ NoSaves(calls) \/ NoSaves(others)

SaveHolds(m, calls, others) ==
    /\ OneSave(calls, others)
    /\ m # AtList => NoSaves(calls) /\ NoSaves(others)

SaveInv == SaveHolds(main, requests, replies)

LEMMA SavePrimed ==
    ASSUME SaveHolds(main', requests', replies')
    PROVE  SaveInv'
BY DEF SaveInv, SaveHolds, OneSave, LoneSave, NoSaves, IsSave, AtList

LEMMA NoSavesOne ==
    ASSUME NEW calls, NEW others, NoSaves(calls), NoSaves(others), NEW m
    PROVE  SaveHolds(m, calls, others)
BY DEF SaveHolds, OneSave, LoneSave, NoSaves

\* Users who wait have none under way when they go on.
LEMMA NoneUnderWay ==
    ASSUME RowsInv, Under("save") < 1
    PROVE  NoSaves(requests) /\ NoSaves(replies)
<1> DEFINE C == {i \in DOMAIN requests : requests[i].call.at = "save"}
           A == {i \in DOMAIN replies : replies[i].call.at = "save"}
<1>1. /\ DOMAIN requests = 1..Len(requests) /\ Len(requests) \in Nat
      /\ DOMAIN replies = 1..Len(replies) /\ Len(replies) \in Nat
  BY RowsParts, QueueDomain DEF QueuesOK
<1>2. IsFiniteSet(DOMAIN requests) /\ IsFiniteSet(DOMAIN replies)
  BY <1>1, FS_Interval
<1>3. IsFiniteSet(C) /\ IsFiniteSet(A)
  <2>1. C \subseteq DOMAIN requests /\ A \subseteq DOMAIN replies
    OBVIOUS
  <2> HIDE DEF C, A
  <2> QED BY <1>2, <2>1, FS_Subset
<1>4. Cardinality(C) + Cardinality(A) < 1
  BY DEF Under
<1> HIDE DEF C, A
<1>5. Cardinality(C) \in Nat /\ Cardinality(A) \in Nat
  BY <1>3, FS_CardinalityType
<1>6. Cardinality(C) = 0 /\ Cardinality(A) = 0
  BY <1>4, <1>5
<1>7. C = {} /\ A = {}
  BY <1>3, <1>6, FS_EmptySet
<1> QED BY <1>7 DEF C, A, NoSaves, IsSave

LEMMA SavesPopped ==
    ASSUME NEW queue, IsQueue(queue), queue # <<>>
    PROVE  /\ NoSaves(queue) => NoSaves(Tail(queue)) /\ ~IsSave(Head(queue))
           /\ LoneSave(queue) => LoneSave(Tail(queue))
           /\ LoneSave(queue) /\ IsSave(Head(queue)) => NoSaves(Tail(queue))
<1> DEFINE rest == Tail(queue)
<1>1. /\ 1 \in DOMAIN queue /\ Head(queue) = queue[1]
      /\ \A i \in DOMAIN rest : i \in Nat /\ i + 1 \in DOMAIN queue /\ rest[i] = queue[i + 1]
  BY QueueTail
<1>2. \A i \in DOMAIN rest : i + 1 # 1
  <2>1. IsQueue(rest)
    BY QueueTail
  <2> QED BY <2>1, QueueDomain
<1> HIDE DEF rest
<1>3. NoSaves(queue) => NoSaves(rest) /\ ~IsSave(Head(queue))
  BY <1>1 DEF NoSaves
<1>4. LoneSave(queue) => LoneSave(rest)
  <2> SUFFICES ASSUME LoneSave(queue), NEW i \in DOMAIN rest, NEW j \in DOMAIN rest,
                      IsSave(rest[i]), IsSave(rest[j])
               PROVE  i = j
    BY DEF LoneSave
  <2>1. i + 1 = j + 1
    BY <1>1 DEF LoneSave
  <2> QED BY <1>1, <2>1
<1>5. LoneSave(queue) /\ IsSave(Head(queue)) => NoSaves(rest)
  BY <1>1, <1>2 DEF LoneSave, NoSaves
<1> QED BY <1>3, <1>4, <1>5 DEF rest

LEMMA SavesPushed ==
    ASSUME NEW queue, IsQueue(queue), NEW r
    PROVE  /\ NoSaves(queue) => LoneSave(Append(queue, r))
           /\ ~IsSave(r) => /\ NoSaves(queue) => NoSaves(Append(queue, r))
                            /\ LoneSave(queue) => LoneSave(Append(queue, r))
<1> DEFINE more == Append(queue, r)
<1>1. /\ more[Len(queue) + 1] = r
      /\ \A i \in DOMAIN queue : more[i] = queue[i]
      /\ \A i \in DOMAIN more : i \in DOMAIN queue \/ i = Len(queue) + 1
  BY QueuePush
<1> HIDE DEF more
<1>2. NoSaves(queue) => LoneSave(more)
  BY <1>1 DEF NoSaves, LoneSave
<1>3. ~IsSave(r) /\ NoSaves(queue) => NoSaves(more)
  BY <1>1 DEF NoSaves
<1>4. ~IsSave(r) /\ LoneSave(queue) => LoneSave(more)
  BY <1>1 DEF LoneSave
<1> QED BY <1>2, <1>3, <1>4 DEF more

LEMMA SavesDisowned ==
    ASSUME NEW users, NEW calls, NEW others, QueuesOK(calls, others, users), NEW kept,
           NEW queue \in {calls, others}
    PROVE  /\ IsQueue(Disowned(queue, kept))
           /\ NoSaves(queue) => NoSaves(Disowned(queue, kept))
           /\ LoneSave(queue) => LoneSave(Disowned(queue, kept))
<1>1. IsQueue(queue) /\ \A i \in DOMAIN queue : queue[i].call \in HandlerCall
  BY DEF QueuesOK, RequestOK, ReplyOK
<1>2. /\ IsQueue(Disowned(queue, kept)) /\ DOMAIN Disowned(queue, kept) = DOMAIN queue
      /\ \A i \in DOMAIN queue : Forgotten(queue[i], Disowned(queue, kept)[i], kept)
  BY <1>1, QueueDisowned
<1>3. \A i \in DOMAIN queue : IsSave(Disowned(queue, kept)[i]) <=> IsSave(queue[i])
  BY <1>2 DEF Forgotten, IsSave
<1> QED BY <1>2, <1>3 DEF NoSaves, LoneSave

\* A screen's own reads are no saves.
LEMMA ShowSaves ==
    ASSUME RowsInv, NEW m \in Stacks, NEW kept,
           NEW calls, NEW others, QueuesOK(calls, others, Registered),
           SaveHolds(m, calls, others), Show(m, kept, calls, others)
    PROVE  SaveInv'
<1> DEFINE left == Disowned(calls, kept)
<1>1. /\ IsQueue(left)
      /\ NoSaves(calls) => NoSaves(left)
      /\ LoneSave(calls) => LoneSave(left)
  BY SavesDisowned
<1>2. /\ NoSaves(others) => NoSaves(replies')
      /\ LoneSave(others) => LoneSave(replies')
  <2>1. replies' = Disowned(others, kept)
    BY ShowMoves
  <2> QED BY <2>1, SavesDisowned
<1>3. requests' = Mounted(left, kept, m) /\ main' = m
  BY ShowMoves
<1> HIDE DEF left
<1>4. requests' \in {left, Append(left, DraftRead), Append(left, ListRead)}
  BY <1>1, <1>3, MountedIs
<1>5. ~IsSave(DraftRead) /\ ~IsSave(ListRead)
  BY DEF IsSave, DraftRead, ListRead, GetItem, Handler
<1>6. /\ NoSaves(left) => NoSaves(requests')
      /\ LoneSave(left) => LoneSave(requests')
  BY <1>1, <1>4, <1>5, SavesPushed
<1> QED BY <1>1, <1>2, <1>3, <1>6, SavePrimed DEF SaveHolds, OneSave

\* A Save is answered on the list, and was the only one.
LEMMA SavedOnList ==
    ASSUME RowsInv, SaveInv, Awaited("save")
    PROVE  /\ main = AtList /\ Below = AtCreate
           /\ NoSaves(requests) /\ NoSaves(OtherReplies)
<1>1. replies # <<>> /\ IsQueue(replies) /\ IsSave(Head(replies))
  BY RowsParts DEF Awaited, Call, Reply, IsSave, QueuesOK
<1>2. LoneSave(replies) /\ ~NoSaves(replies)
  BY <1>1, SavesPopped DEF SaveInv, SaveHolds, OneSave
<1> QED BY <1>1, <1>2, SavesPopped DEF SaveInv, SaveHolds, OneSave, OtherReplies, Below

LEMMA GoingSaves ==
    ASSUME MaxTaps = 1, RowsInv, SaveInv, Going
    PROVE  SaveInv'
<1>1. /\ QueuesOK(requests, replies, Registered) /\ IsQueue(requests)
      /\ AtHome \in Stacks /\ AtCreate \in Stacks /\ AtList \in Stacks /\ main \in Stacks
  BY RowsParts DEF Stacks, QueuesOK
<1>2. /\ QueuesOK(Append(requests, Removal), replies, Registered)
      /\ NoSaves(requests) => NoSaves(Append(requests, Removal))
  <2>1. RequestOK(Removal, Registered)
    BY NothingListed, EmptyOK DEF Removal, RemoveItem, Handler, RequestOK, HandlerCall, At
  <2>2. ~IsSave(Removal)
    BY DEF Removal, RemoveItem, Handler, IsSave
  <2> QED BY <1>1, <2>1, <2>2, PushOK, SavesPushed
<1>3. ASSUME NEW from, NEW to \in Stacks, NEW calls, NEW others, Went(from, to, calls, others),
             QueuesOK(calls, others, Registered), NoSaves(calls), NoSaves(others)
      PROVE  SaveInv'
  BY <1>3, ShowSaves, NoSavesOne DEF Went
<1>4. Under("save") < MaxTaps => NoSaves(requests) /\ NoSaves(replies)
  BY NoneUnderWay
<1>5. Awaited("save") /\ Went(main, Below, requests, OtherReplies) => SaveInv'
  <2> SUFFICES ASSUME Awaited("save"), Went(main, Below, requests, OtherReplies)
               PROVE  SaveInv'
    OBVIOUS
  <2>1. QueuesOK(requests, OtherReplies, Registered)
    BY <1>1, PopOK DEF OtherReplies, Awaited
  <2> QED BY <1>1, <1>3, <2>1, SavedOnList
<1>6. Show(main, {}, requests, replies) => SaveInv'
  BY <1>1, ShowSaves DEF SaveInv
<1> QED BY <1>1, <1>2, <1>3, <1>4, <1>5, <1>6 DEF Going

LEMMA SaveInductive ==
    ASSUME MaxTaps = 1, RowsInv, SaveInv, [Next]_vars
    PROVE  SaveInv'
<1>1. /\ IsQueue(requests) /\ IsQueue(replies) /\ main \in Stacks
      /\ QueuesOK(requests, replies, Registered)
  BY RowsParts DEF QueuesOK
<1>2. CASE StoreStep
  <2>1. PICK error : replies' = Append(replies, Answer(Head(requests), error))
    BY <1>2, StoreMoves
  <2> DEFINE a == Answer(Head(requests), error)
  <2>2. IsSave(a) <=> IsSave(Head(requests))
    BY DEF Answer, IsSave
  <2> HIDE DEF a
  <2>3. /\ requests # <<>> /\ requests' = Tail(requests) /\ main' = main
        /\ replies' = Append(replies, a)
    BY <1>2, <2>1, StoreMoves DEF a
  <2>4. SaveHolds(main', requests', replies')
    <3>1. CASE IsSave(Head(requests))
      <4>1. ~NoSaves(requests) /\ NoSaves(Tail(requests)) /\ NoSaves(replies) /\ main = AtList
        BY <1>1, <2>3, <3>1, SavesPopped DEF SaveInv, SaveHolds, OneSave
      <4>2. LoneSave(Append(replies, a))
        BY <1>1, <4>1, SavesPushed
      <4> QED BY <2>3, <4>1, <4>2 DEF SaveHolds, OneSave, LoneSave, NoSaves
    <3>2. CASE ~IsSave(Head(requests))
      BY <1>1, <2>2, <2>3, <3>2, SavesPopped, SavesPushed DEF SaveInv, SaveHolds, OneSave
    <3> QED BY <3>1, <3>2
  <2> QED BY <2>4, SavePrimed
<1>3. CASE Heard
  <2> DEFINE r == GetItem(USER_MEMBER_KEY, [Call EXCEPT !.at = "list.users"])
  <2>1. /\ replies # <<>> /\ replies' = Tail(replies) /\ main' = main
        /\ requests' \in {requests, Append(requests, r)}
    BY <1>3, HeardMoves
  <2>2. ~IsSave(r)
    <3>1. Reply.call \in HandlerCall
      BY <1>1, <2>1, PopOK DEF Reply, ReplyOK
    <3> QED BY <3>1 DEF GetItem, Call, HandlerCall, IsSave
  <2> HIDE DEF r
  <2>3. /\ NoSaves(requests) => NoSaves(requests')
        /\ LoneSave(requests) => LoneSave(requests')
        /\ NoSaves(replies) => NoSaves(replies')
        /\ LoneSave(replies) => LoneSave(replies')
    BY <1>1, <2>1, <2>2, SavesPopped, SavesPushed
  <2> QED BY <2>1, <2>3, SavePrimed DEF SaveInv, SaveHolds, OneSave
<1>4. CASE HandleSubmit
  <2>1. NoSaves(requests) /\ NoSaves(replies) /\ main = AtList
    BY <1>1, <1>4, SubmitMoves, NoneUnderWay, ScreenIs
  <2>2. LoneSave(Append(requests, Submission))
    BY <1>1, <2>1, SavesPushed
  <2>3. /\ requests' = Append(requests, Submission) /\ replies' = replies /\ main' = main
    BY <1>4, SubmitMoves
  <2> QED BY <2>1, <2>2, <2>3, SavePrimed DEF SaveHolds, OneSave, SaveInv
<1>5. UNCHANGED <<main, requests, replies>> => SaveInv'
  BY SavePrimed DEF SaveInv
<1>6. Edited \/ (\E email \in Email : MemberSignsUp(email)) \/ EmptyCache \/ UNCHANGED vars
        => UNCHANGED <<main, requests, replies>>
  BY EditedMoves, SignUpMoves, EmptyCacheMoves DEF vars, storageVars, draftVars
<1>7. Crash => SaveInv'
  <2>1. NoSaves(<<>>)
    BY DEF NoSaves
  <2> QED BY <2>1, CrashMoves, NoSavesOne, SavePrimed
<1> QED BY <1>1, <1>2, <1>3, <1>4, <1>5, <1>6, <1>7, Moves, GoingSaves

LEMMA InitSaves == Init => SaveInv
<1> SUFFICES ASSUME Init PROVE SaveInv
  OBVIOUS
<1>1. requests = <<>> /\ replies = <<>>
  BY DEF Init, StorageInit
<1>2. NoSaves(<<>>)
  BY DEF NoSaves
<1> QED BY <1>1, <1>2, NoSavesOne DEF SaveInv

-----------------------------------------------------------------------------
(* ... and finds the draft removed, and every member in the list.  Only    *)
(* the list on the screen has reads under way that it will hear of, and a  *)
(* removal still queued comes before them.                                 *)

IsRemoval(q) == q.call.at = "handleBack"
ToList(q) == q.call.at \in {"list.temp", "list.users"} /\ q.call.mounted
NoneToList(queue) == \A i \in DOMAIN queue : ~ToList(queue[i])

RemovalComes(calls) ==
    \E i \in DOMAIN calls :
        IsRemoval(calls[i]) /\ \A j \in DOMAIN calls : ToList(calls[j]) => i < j

Complete(rows, users) == Emails(rows) = ToSet(users)
Fine(value, users) == Listed(value) = <<>> \/ Complete(Listed(value), users)

AnswerFine(q, users) ==
    IF q.call.at = "list.temp" THEN Fine(q.value, users)
    ELSE ToSet(Listed(q.value)) = ToSet(users)

Reading(m, calls, others, users, rows) ==
    m = AtList =>
        \/ Complete(rows, users)
        \/ rows = <<>> /\ (~NoneToList(calls) \/ ~NoneToList(others))

Stored(m, calls, value, users) ==
    \/ RemovalComes(calls)
    \/ IF m = AtHome THEN value = Missing ELSE Fine(value, users)

SavesFine(calls, users) ==
    \A i \in DOMAIN calls : IsSave(calls[i]) => Fine(calls[i].value, users)

AnswersFine(others, users) ==
    \A i \in DOMAIN others : ToList(others[i]) => AnswerFine(others[i], users)

ListHolds(m, calls, others, value, users, rows) ==
    /\ Stored(m, calls, value, users) /\ SavesFine(calls, users)
    /\ AnswersFine(others, users) /\ Reading(m, calls, others, users, rows)

ReadsOnList(m, calls, others) == m # AtList => NoneToList(calls) /\ NoneToList(others)

ListInv ==
    /\ ReadsOnList(main, requests, replies)
    /\ faults = 0 => abandoned \/ ListHolds(main, requests, replies, mem[TEMP_MEMBERS],
                                            Registered, members)

LEMMA ListPrimed ==
    ASSUME ReadsOnList(main', requests', replies'),
           faults' = 0 => abandoned' \/ ListHolds(main', requests', replies',
                                          mem'[TEMP_MEMBERS], Registered', members')
    PROVE  ListInv'
BY DEF ListInv, ReadsOnList, ListHolds, Stored, SavesFine, AnswersFine, Reading,
       RemovalComes, IsRemoval, NoneToList, ToList, IsSave, AnswerFine, Fine, Complete,
       Emails, Listed, AtList, AtHome, TEMP_MEMBERS

LEMMA ListPopped ==
    ASSUME NEW queue, IsQueue(queue), queue # <<>>
    PROVE  /\ NoneToList(queue) => NoneToList(Tail(queue)) /\ ~ToList(Head(queue))
           /\ NoneToList(Tail(queue)) /\ ~ToList(Head(queue)) => NoneToList(queue)
<1> DEFINE rest == Tail(queue)
<1>1. /\ 1 \in DOMAIN queue /\ Head(queue) = queue[1]
      /\ \A i \in DOMAIN rest : i + 1 \in DOMAIN queue /\ rest[i] = queue[i + 1]
      /\ \A i \in DOMAIN queue : i # 1 => i - 1 \in DOMAIN rest /\ rest[i - 1] = queue[i]
  BY QueueTail
<1> HIDE DEF rest
<1>2. NoneToList(queue) => NoneToList(rest) /\ ~ToList(Head(queue))
  BY <1>1 DEF NoneToList
<1>3. NoneToList(rest) /\ ~ToList(Head(queue)) => NoneToList(queue)
  BY <1>1 DEF NoneToList
<1> QED BY <1>2, <1>3 DEF rest

LEMMA ListPushed ==
    ASSUME NEW queue, IsQueue(queue), NEW r
    PROVE  /\ NoneToList(Append(queue, r)) <=> NoneToList(queue) /\ ~ToList(r)
           /\ RemovalComes(queue) => RemovalComes(Append(queue, r))
           /\ \A users : ~IsSave(r) \/ Fine(r.value, users) =>
                (SavesFine(queue, users) => SavesFine(Append(queue, r), users))
           /\ \A users : ~ToList(r) \/ AnswerFine(r, users) =>
                (AnswersFine(queue, users) => AnswersFine(Append(queue, r), users))
<1> DEFINE more == Append(queue, r)
<1>1. /\ Len(queue) + 1 \in DOMAIN more /\ more[Len(queue) + 1] = r
      /\ \A i \in DOMAIN queue : /\ i \in DOMAIN more /\ more[i] = queue[i]
                                 /\ i < Len(queue) + 1
      /\ \A i \in DOMAIN more : i \in DOMAIN queue \/ i = Len(queue) + 1
  BY QueuePush
<1> HIDE DEF more
<1>2. NoneToList(more) <=> NoneToList(queue) /\ ~ToList(r)
  BY <1>1 DEF NoneToList
<1>3. RemovalComes(queue) => RemovalComes(more)
  BY <1>1 DEF RemovalComes
<1>4. ASSUME NEW users, ~IsSave(r) \/ Fine(r.value, users), SavesFine(queue, users)
      PROVE  SavesFine(more, users)
  BY <1>1, <1>4 DEF SavesFine
<1>5. ASSUME NEW users, ~ToList(r) \/ AnswerFine(r, users), AnswersFine(queue, users)
      PROVE  AnswersFine(more, users)
  BY <1>1, <1>5 DEF AnswersFine
<1> QED BY <1>2, <1>3, <1>4, <1>5 DEF more

\* The oldest call is answered.
LEMMA ListExecuted ==
    ASSUME NEW calls, NEW others, IsQueue(calls), IsQueue(others), calls # <<>>,
           NEW m, NEW value, NEW users, NEW rows,
           ListHolds(m, calls, others, value, users, rows),
           m = AtHome => NoSaves(calls),
           NEW a, a.call = Head(calls).call,
           a.call.at = "list.temp" => a.value = value,
           a.call.at = "list.users" => ToSet(Listed(a.value)) = ToSet(users),
           NEW after, after = IF Writes(a) THEN Head(calls).value ELSE value,
           IsRemoval(a) => Head(calls).value = Missing
    PROVE  ListHolds(m, Tail(calls), Append(others, a), after, users, rows)
<1> DEFINE rest == Tail(calls)
           more == Append(others, a)
<1>1. /\ 1 \in DOMAIN calls /\ Head(calls) = calls[1]
      /\ \A i \in DOMAIN rest : i \in Nat /\ i + 1 \in DOMAIN calls /\ rest[i] = calls[i + 1]
      /\ \A i \in DOMAIN calls : i # 1 =>
           i \in Nat /\ i - 1 \in DOMAIN rest /\ rest[i - 1] = calls[i]
      /\ \A i \in DOMAIN calls : i \in Nat /\ 1 <= i
  BY QueueTail, QueueDomain
<1>2. /\ NoneToList(more) <=> NoneToList(others) /\ ~ToList(a)
      /\ ~ToList(a) \/ AnswerFine(a, users) =>
           (AnswersFine(others, users) => AnswersFine(more, users))
  BY ListPushed
<1>3. NoneToList(rest) /\ ~ToList(Head(calls)) => NoneToList(calls)
  BY ListPopped
<1> HIDE DEF rest, more
<1> SUFFICES ListHolds(m, rest, more, after, users, rows)
  BY DEF rest, more
<1>4. /\ IsSave(a) <=> IsSave(calls[1])
      /\ IsRemoval(a) <=> IsRemoval(calls[1])
      /\ ToList(a) <=> ToList(calls[1])
      /\ Writes(a) <=> IsSave(a) \/ IsRemoval(a)
  BY <1>1, Zenon DEF IsSave, IsRemoval, ToList, Writes
<1>5. Stored(m, rest, after, users)
  <2>1. CASE IsSave(a)
    <3>1. m # AtHome
      BY <1>1, <1>4, <2>1 DEF NoSaves
    <3>2. Fine(after, users)
      BY <1>1, <1>4, <2>1 DEF ListHolds, SavesFine
    <3> QED BY <3>1, <3>2 DEF Stored
  <2>2. CASE IsRemoval(a)
    <3>1. after = Missing
      BY <1>4, <2>2
    <3> QED BY <3>1, NothingListed DEF Stored, Fine
  <2>3. CASE ~IsSave(a) /\ ~IsRemoval(a)
    <3>1. after = value
      BY <1>4, <2>3
    <3>2. RemovalComes(calls) => RemovalComes(rest)
      <4> SUFFICES ASSUME NEW i \in DOMAIN calls, IsRemoval(calls[i]),
                          \A j \in DOMAIN calls : ToList(calls[j]) => i < j
                   PROVE  RemovalComes(rest)
        BY DEF RemovalComes
      <4>1. i # 1
        BY <1>4, <2>3
      <4>2. i \in Nat /\ i - 1 \in DOMAIN rest /\ IsRemoval(rest[i - 1])
        BY <1>1, <4>1
      <4>3. ASSUME NEW j \in DOMAIN rest, ToList(rest[j]) PROVE i - 1 < j
        <5>1. j \in Nat /\ i < j + 1
          BY <1>1, <4>3
        <5> QED BY <4>2, <5>1
      <4> QED BY <4>2, <4>3 DEF RemovalComes
    <3> QED BY <3>1, <3>2 DEF ListHolds, Stored
  <2> QED BY <2>1, <2>2, <2>3
<1>6. SavesFine(rest, users)
  BY <1>1 DEF ListHolds, SavesFine
<1>7. AnswersFine(more, users)
  <2>1. ToList(a) => AnswerFine(a, users)
    <3> SUFFICES ASSUME ToList(a) PROVE AnswerFine(a, users)
      OBVIOUS
    <3>1. CASE a.call.at = "list.users"
      BY <3>1 DEF AnswerFine
    <3>2. CASE a.call.at = "list.temp"
      <4>1. ~RemovalComes(calls)
        BY <1>1, <1>4 DEF RemovalComes
      <4>2. Fine(value, users)
        BY <4>1, NothingListed DEF ListHolds, Stored, Fine
      <4> QED BY <3>2, <4>2 DEF AnswerFine
    <3> QED BY <3>1, <3>2 DEF ToList
  <2> QED BY <1>2, <2>1 DEF ListHolds
<1>8. Reading(m, rest, more, users, rows)
  BY <1>1, <1>2, <1>3, <1>4 DEF ListHolds, Reading
<1> QED BY <1>5, <1>6, <1>7, <1>8 DEF ListHolds

\* What a handler calls next is for the list it was called for.
LEMMA ListGoesOn ==
    ASSUME Heard, Reply.call \in HandlerCall
    PROVE  \/ requests' = requests
           \/ \E r : /\ ToList(r) <=> ToList(Reply)
                     /\ ~IsSave(r) /\ requests' = Append(requests, r)
<1> DEFINE r == GetItem(USER_MEMBER_KEY, [Call EXCEPT !.at = "list.users"])
<1>1. CASE Call.at = "list.temp" /\ requests' = Append(requests, r)
  <2>1. r.call = [at |-> "list.users", mounted |-> Call.mounted]
    BY DEF GetItem, Call, HandlerCall
  <2>2. r.call.at = "list.users" /\ r.call.mounted = Call.mounted
    BY <2>1
  <2> HIDE DEF r
  <2>3. ToList(r) <=> ToList(Reply)
    BY <1>1, <2>2, Zenon DEF ToList, Call
  <2>4. ~IsSave(r)
    BY <2>2 DEF IsSave
  <2> QED BY <1>1, <2>3, <2>4
<1> QED BY <1>1, HeardMoves

\* What the handlers do for the list on the screen, and for no other.
LEMMA ListHeard ==
    ASSUME Heard, Reply.error = FALSE
    PROVE  IF ToList(Reply)
           THEN \/ /\ Call.at = "list.temp" /\ members' = members
                   /\ requests' = Append(requests, GetItem(USER_MEMBER_KEY,
                                            [Call EXCEPT !.at = "list.users"]))
                \/ /\ Call.at = "list.temp" /\ Listed(Reply.value) # <<>>
                   /\ members' = Listed(Reply.value)
                \/ /\ Call.at = "list.users"
                   /\ members' = [i \in DOMAIN Listed(Reply.value) |->
                                    NewRow(Listed(Reply.value)[i])]
           ELSE members' = members
<1>1. CASE TempFetched
  <2>1. Call.at = "list.temp"
    BY <1>1 DEF TempFetched, Awaited
  <2>2. ToList(Reply) <=> Call.mounted
    BY <2>1, Zenon DEF ToList, Call
  <2>3. CASE Listed(Reply.value) = <<>>
    BY <1>1, <2>1, <2>3 DEF TempFetched, Answered, draftVars
  <2>4. CASE Listed(Reply.value) # <<>>
    <3>1. Listed(Reply.value) = Reply.value
      BY <2>4 DEF Listed
    <3>2. members' = IF Call.mounted THEN Reply.value ELSE members
      BY <1>1, <2>4 DEF TempFetched, SetMembers
    <3> QED BY <2>1, <2>2, <2>4, <3>1, <3>2
  <2> QED BY <2>3, <2>4
<1>2. CASE UsersFetched
  <2>1. Call.at = "list.users"
    BY <1>2 DEF UsersFetched, Awaited
  <2>2. ToList(Reply) <=> Call.mounted
    BY <2>1, Zenon DEF ToList, Call
  <2>3. members' = IF Call.mounted
                   THEN [i \in DOMAIN Listed(Reply.value) |-> NewRow(Listed(Reply.value)[i])]
                   ELSE members
    BY <1>2 DEF UsersFetched, SetMembers
  <2> QED BY <2>1, <2>2, <2>3
<1>3. CASE CreateFetched \/ Removed
  <2>1. Call.at \in {"create", "handleBack"} /\ members' = members
    BY <1>3 DEF CreateFetched, Removed, Awaited, draftVars
  <2> QED BY <2>1 DEF ToList, Call
<1>4. ~Rejected
  BY DEF Rejected
<1> QED BY <1>1, <1>2, <1>3, <1>4 DEF Heard

LEMMA HeardList ==
    ASSUME RowsInv, FreshInv, ListInv, Heard
    PROVE  ListInv'
<1>1. /\ replies # <<>> /\ QueuesOK(requests, replies, Registered)
      /\ IsQueue(requests) /\ IsQueue(replies)
      /\ replies' = Tail(replies) /\ UNCHANGED <<main, mem, faults, abandoned>>
  BY HeardMoves, RowsParts DEF QueuesOK
<1>2. ReplyOK(Reply, Registered) /\ Reply.call \in HandlerCall
  BY <1>1, PopOK DEF Reply, ReplyOK
<1>3. /\ NoneToList(replies) => NoneToList(replies') /\ ~ToList(Reply)
      /\ NoneToList(replies') /\ ~ToList(Reply) => NoneToList(replies)
  BY <1>1, ListPopped DEF Reply
<1>4. /\ NoneToList(requests') => NoneToList(requests)
      /\ NoneToList(requests) /\ ~ToList(Reply) => NoneToList(requests')
      /\ RemovalComes(requests) => RemovalComes(requests')
      /\ SavesFine(requests, Registered) => SavesFine(requests', Registered)
      /\ requests' = requests \/ (ToList(Reply) => ~NoneToList(requests'))
  BY <1>1, <1>2, ListGoesOn, ListPushed
<1>5. ReadsOnList(main', requests', replies')
  BY <1>1, <1>3, <1>4 DEF ListInv, ReadsOnList
<1>6. Registered' = Registered
  BY <1>1 DEF Registered, Listed
<1>7. ASSUME faults = 0,
             ListHolds(main, requests, replies, mem[TEMP_MEMBERS], Registered, members)
      PROVE  ListHolds(main, requests', replies', mem[TEMP_MEMBERS], Registered, members')
  <2>1. Reply.error = FALSE
    BY <1>1, <1>7, NoErrorsKept DEF FreshInv, FreshHolds, Reply
  <2>2. Stored(main, requests', mem[TEMP_MEMBERS], Registered) /\ SavesFine(requests', Registered)
    BY <1>4, <1>7 DEF ListHolds, Stored
  <2>3. AnswersFine(replies', Registered) /\ (ToList(Reply) => AnswerFine(Reply, Registered))
    <3>1. /\ 1 \in DOMAIN replies /\ Reply = replies[1]
          /\ \A i \in DOMAIN replies' : i + 1 \in DOMAIN replies /\ replies'[i] = replies[i + 1]
      BY <1>1, QueueTail DEF Reply
    <3> QED BY <1>7, <3>1 DEF ListHolds, AnswersFine
  <2>4. Reading(main, requests, replies, Registered, members)
    BY <1>7 DEF ListHolds
  <2>5. Reading(main, requests', replies', Registered, members')
    <3>1. CASE ~ToList(Reply)
      BY <1>3, <1>4, <2>1, <2>4, <3>1, ListHeard DEF Reading
    <3>2. CASE ToList(Reply) /\ Call.at = "list.temp" /\ members' = members
               /\ requests' = Append(requests, GetItem(USER_MEMBER_KEY,
                                            [Call EXCEPT !.at = "list.users"]))
      <4>1. ~NoneToList(requests')
        <5> DEFINE r == GetItem(USER_MEMBER_KEY, [Call EXCEPT !.at = "list.users"])
        <5>1. r.call = [at |-> "list.users", mounted |-> Call.mounted]
          BY <1>2 DEF GetItem, Call, HandlerCall
        <5>2. r.call.at = "list.users" /\ r.call.mounted = Reply.call.mounted
          BY <5>1 DEF Call
        <5>3. requests' = Append(requests, r)
          BY <3>2
        <5> HIDE DEF r
        <5>4. ToList(r)
          BY <3>2, <5>2, Zenon DEF ToList
        <5> QED BY <1>1, <5>3, <5>4, ListPushed
      <4> QED BY <2>4, <3>2, <4>1 DEF Reading
    <3>3. CASE ToList(Reply) /\ Call.at = "list.temp" /\ Listed(Reply.value) # <<>>
               /\ members' = Listed(Reply.value)
      <4>1. Fine(Reply.value, Registered)
        BY <2>3, <3>3 DEF AnswerFine, Call
      <4> QED BY <3>3, <4>1 DEF Fine, Reading
    <3>4. CASE ToList(Reply) /\ Call.at = "list.users"
               /\ members' = [i \in DOMAIN Listed(Reply.value) |->
                                NewRow(Listed(Reply.value)[i])]
      <4>1. ToSet(Listed(Reply.value)) = ToSet(Registered) /\ UsersOK(Listed(Reply.value), Registered)
        BY <1>2, <2>3, <3>4 DEF AnswerFine, Call, ReplyOK
      <4>2. Emails(members') = ToSet(Listed(Reply.value))
        BY <3>4, <4>1, NewRowsOK
      <4> QED BY <4>1, <4>2 DEF Reading, Complete
    <3> QED BY <2>1, <3>1, <3>2, <3>3, <3>4, ListHeard
  <2> QED BY <2>2, <2>3, <2>5 DEF ListHolds
<1> QED BY <1>1, <1>5, <1>6, <1>7, ListPrimed DEF ListInv

LEMMA StoreList ==
    ASSUME RowsInv, SaveInv, ListInv, FreshInv, StoreStep
    PROVE  ListInv'
<1> DEFINE r == Head(requests)
<1>1. PICK error : replies' = Append(replies, Answer(r, error))
  BY StoreMoves
<1>2. /\ requests # <<>> /\ requests' = Tail(requests)
      /\ UNCHANGED <<main, members, abandoned>>
      /\ mem' \in Copies(r)
  BY StoreMoves
<1>3. /\ IsQueue(requests) /\ IsQueue(replies)
      /\ RequestOK(r, Registered) /\ StoreOK(mem, Registered)
  BY <1>2, RowsParts, PopOK DEF QueuesOK
<1>4. Registered' = Registered
  <2>1. mem'[USER_MEMBER_KEY] = mem[USER_MEMBER_KEY]
    <3> HIDE DEF r
    <3> QED BY <1>2, <1>3, CopiesOK
  <2> QED BY <2>1 DEF Registered, Listed
<1>5. ReadsOnList(main', requests', replies')
  <2> DEFINE a == Answer(r, error)
  <2>1. ToList(a) <=> ToList(r)
    BY DEF Answer, ToList
  <2> HIDE DEF a
  <2>2. /\ NoneToList(requests) => NoneToList(requests') /\ ~ToList(r)
        /\ NoneToList(replies') <=> NoneToList(replies) /\ ~ToList(a)
    BY <1>1, <1>2, <1>3, ListPopped, ListPushed DEF a
  <2> QED BY <1>2, <2>1, <2>2 DEF ListInv, ReadsOnList
<1>6. CASE faults' = faults + 1
  <2>1. faults' # 0
    BY <1>6 DEF FreshInv, FreshHolds
  <2> QED BY <1>5, <2>1, ListPrimed
<1>7. CASE faults' = faults /\ mem' = Written(mem, r) /\ replies' = Append(replies, Answer(r, FALSE))
  <2> DEFINE a == Answer(r, FALSE)
  <2>1. a.call = r.call /\ r.call.at \in At
    BY <1>3 DEF Answer, RequestOK, HandlerCall
  <2>2. /\ a.call.at = "list.temp" => a.value = mem[TEMP_MEMBERS]
        /\ a.call.at = "list.users" => a.value = mem[USER_MEMBER_KEY]
    BY <1>3, <2>1 DEF RequestOK, Answer
  <2>3. mem'[TEMP_MEMBERS] = IF Writes(a) THEN r.value ELSE mem[TEMP_MEMBERS]
    <3>1. Written(mem, r)[TEMP_MEMBERS] =
            IF r.call.at \in {"save", "handleBack"} THEN r.value ELSE mem[TEMP_MEMBERS]
      BY <1>3, WrittenOK
    <3>2. mem' = Written(mem, r) /\ a.call = r.call
      BY <1>7, <2>1
    <3> HIDE DEF a
    <3> QED BY <3>1, <3>2 DEF Writes
  <2>4. IsRemoval(a) => r.value = Missing
    BY <1>3, <2>1 DEF IsRemoval, RequestOK
  <2>5. replies' = Append(replies, a)
    BY <1>7
  <2>6. main = AtHome => NoSaves(requests)
    BY StackFacts DEF SaveInv, SaveHolds
  <2> HIDE DEF a
  <2>7. ListHolds(main, requests, replies, mem[TEMP_MEMBERS], Registered, members) =>
          ListHolds(main, requests', replies', mem'[TEMP_MEMBERS], Registered, members)
    BY <1>2, <1>3, <2>1, <2>2, <2>3, <2>4, <2>5, <2>6, ListExecuted DEF Registered
  <2> QED BY <1>2, <1>4, <1>5, <1>7, <2>7, ListPrimed DEF ListInv
<1> QED BY <1>6, <1>7, StoreMoves

\* A list that is shown is new: no handler of an earlier one reaches it.
LEMMA ShowList ==
    ASSUME RowsInv, NEW m \in Stacks, NEW kept, "LIST" \notin kept,
           NEW calls, NEW others, QueuesOK(calls, others, Registered),
           Show(m, kept, calls, others)
    PROVE  /\ ReadsOnList(main', requests', replies')
           /\ \A value : /\ SavesFine(calls, Registered)
                         /\ \/ \E i \in DOMAIN calls : IsRemoval(calls[i])
                            \/ IF m = AtHome THEN value = Missing ELSE Fine(value, Registered)
                => ListHolds(main', requests', replies', value, Registered, members')
<1> DEFINE left == Disowned(calls, kept)
           heard == Disowned(others, kept)
<1>1. /\ IsQueue(calls) /\ \A i \in DOMAIN calls : RequestOK(calls[i], Registered)
      /\ IsQueue(others) /\ \A i \in DOMAIN others : ReplyOK(others[i], Registered)
  BY DEF QueuesOK
<1>2. /\ \A i \in DOMAIN calls : calls[i].call \in HandlerCall
      /\ \A i \in DOMAIN others : others[i].call \in HandlerCall
  BY <1>1 DEF RequestOK, ReplyOK
<1>3. /\ IsQueue(left) /\ DOMAIN left = DOMAIN calls
      /\ \A i \in DOMAIN calls : Forgotten(calls[i], left[i], kept)
  BY <1>1, <1>2, QueueDisowned
<1>4. /\ DOMAIN heard = DOMAIN others
      /\ \A i \in DOMAIN others : Forgotten(others[i], heard[i], kept)
  BY <1>1, <1>2, QueueDisowned
<1>5. /\ requests' = Mounted(left, kept, m) /\ replies' = heard /\ main' = m
      /\ members' = <<>>
  BY ShowMoves
<1> HIDE DEF left, heard
<1>6. ASSUME NEW q, NEW d, Forgotten(q, d, kept) PROVE ~ToList(d)
  <2> SUFFICES ASSUME ToList(d) PROVE FALSE
    OBVIOUS
  <2>1. d.call.at \in {"list.temp", "list.users"} /\ d.call.mounted
    BY Zenon DEF ToList
  <2>2. (d.call.mounted => OwnerOf(q.call.at) \in kept) /\ d.call.at = q.call.at
    BY <1>6, Zenon DEF Forgotten
  <2>3. OwnerOf(d.call.at) \in kept
    BY <2>1, <2>2, Zenon
  <2> QED BY <2>1, <2>3 DEF OwnerOf
<1>7. NoneToList(left) /\ NoneToList(heard)
  BY <1>3, <1>4, <1>6 DEF NoneToList
<1>8. requests' = IF m = AtList THEN Append(left, ListRead)
                  ELSE IF m = AtCreate /\ ("CREATE" \notin kept \/ Screen # "CREATE")
                  THEN Append(left, DraftRead) ELSE left
  BY <1>3, <1>5, MountedIs, StackFacts
<1>9. /\ ToList(ListRead) /\ ~ToList(DraftRead)
      /\ ~IsSave(ListRead) /\ ~IsSave(DraftRead)
  BY DEF ToList, IsSave, ListRead, DraftRead, GetItem, Handler
<1>10. ReadsOnList(main', requests', replies')
  BY <1>3, <1>5, <1>7, <1>8, <1>9, ListPushed DEF ReadsOnList
<1>11. ASSUME NEW value, SavesFine(calls, Registered),
              \/ \E i \in DOMAIN calls : IsRemoval(calls[i])
              \/ IF m = AtHome THEN value = Missing ELSE Fine(value, Registered)
       PROVE  ListHolds(main', requests', replies', value, Registered, members')
  <2>1. SavesFine(left, Registered) /\ AnswersFine(heard, Registered)
    <3>1. \A i \in DOMAIN calls : IsSave(left[i]) => /\ IsSave(calls[i])
                                                    /\ left[i].value = calls[i].value
      <4>1. ASSUME NEW q, RequestOK(q, Registered), NEW d, Forgotten(q, d, kept)
            PROVE  d.value = q.value /\ (IsSave(d) => IsSave(q))
        BY <4>1 DEF Forgotten, RequestOK, IsSave
      <4> QED BY <1>1, <1>3, <4>1
    <3> QED BY <1>3, <1>7, <1>11, <3>1 DEF SavesFine, AnswersFine, NoneToList
  <2>2. (\E i \in DOMAIN calls : IsRemoval(calls[i])) => RemovalComes(left)
    <3>1. \A i \in DOMAIN calls : IsRemoval(calls[i]) => IsRemoval(left[i])
      BY <1>3 DEF Forgotten, IsRemoval
    <3> QED BY <1>3, <1>7, <3>1 DEF RemovalComes, NoneToList
  <2>3. /\ SavesFine(requests', Registered)
        /\ RemovalComes(left) => RemovalComes(requests')
        /\ m = AtList => ~NoneToList(requests')
    BY <1>3, <1>8, <1>9, <2>1, ListPushed
  <2> QED BY <1>5, <1>11, <2>1, <2>2, <2>3 DEF ListHolds, Stored, Reading
<1> QED BY <1>10, <1>11

LEMMA GoingList ==
    ASSUME MaxTaps = 1, RowsInv, FreshInv, SaveInv, ListInv, Going
    PROVE  ListInv'
<1>1. /\ QueuesOK(requests, replies, Registered) /\ IsQueue(requests)
      /\ AtHome \in Stacks /\ AtCreate \in Stacks /\ AtList \in Stacks /\ main \in Stacks
      /\ Below \in Stacks
  BY RowsParts DEF Stacks, QueuesOK, Below
<1>2. /\ QueuesOK(Append(requests, Removal), replies, Registered)
      /\ \E i \in DOMAIN Append(requests, Removal) : IsRemoval(Append(requests, Removal)[i])
      /\ NoSaves(requests) => SavesFine(Append(requests, Removal), Registered)
  <2>1. RequestOK(Removal, Registered)
    BY NothingListed, EmptyOK DEF Removal, RemoveItem, Handler, RequestOK, HandlerCall, At
  <2>2. IsRemoval(Removal) /\ ~IsSave(Removal)
    BY DEF Removal, RemoveItem, Handler, IsRemoval, IsSave
  <2>3. NoSaves(requests) => SavesFine(requests, Registered)
    BY DEF NoSaves, SavesFine
  <2>4. QueuesOK(Append(requests, Removal), replies, Registered)
    BY <1>1, <2>1, PushOK
  <2>5. \E i \in DOMAIN Append(requests, Removal) : IsRemoval(Append(requests, Removal)[i])
    BY <1>1, <2>2, QueuePush
  <2>6. NoSaves(requests) => SavesFine(Append(requests, Removal), Registered)
    BY <1>1, <2>2, <2>3, ListPushed
  <2> QED BY <2>4, <2>5, <2>6
<1>3. UNCHANGED <<mem, faults>> /\ Registered' = Registered
  <2>1. UNCHANGED <<mem, faults>>
    BY ShowMoves DEF Going, Went
  <2> QED BY <2>1 DEF Registered, Listed
<1> DEFINE Sound(to, calls) ==
      /\ SavesFine(calls, Registered)
      /\ \/ \E i \in DOMAIN calls : IsRemoval(calls[i])
         \/ IF to = AtHome THEN mem[TEMP_MEMBERS] = Missing
                           ELSE Fine(mem[TEMP_MEMBERS], Registered)
<1>4. ASSUME NEW to \in Stacks, NEW kept, "LIST" \notin kept, NEW calls, NEW others,
             QueuesOK(calls, others, Registered), Show(to, kept, calls, others),
             faults = 0 => abandoned' \/ Sound(to, calls)
      PROVE  ListInv'
  BY <1>3, <1>4, ShowList, ListPrimed
<1>5. ASSUME faults = 0, ~abandoned
      PROVE  /\ Sound(main, requests) /\ SavesFine(requests, Registered)
             /\ main = AtHome => Sound(AtCreate, requests)
             /\ main = AtCreate => Sound(AtList, requests)
             /\ main = AtList => Sound(AtCreate, requests)
  <2>1. Stored(main, requests, mem[TEMP_MEMBERS], Registered) /\ SavesFine(requests, Registered)
    BY <1>5 DEF ListInv, ListHolds
  <2> QED BY <2>1, NothingListed, StackFacts DEF Stored, RemovalComes, Fine
<1> HIDE DEF Sound
<1>6. ASSUME NEW from \in Stacks, NEW to \in Stacks, from # to, NEW calls, NEW others,
             Went(from, to, calls, others), QueuesOK(calls, others, Registered),
             faults = 0 => abandoned' \/ Sound(to, calls)
      PROVE  ListInv'
  <2>1. "LIST" \notin Screens(from) \cap Screens(to)
    BY <1>6, StackScreens DEF Stacks
  <2>2. Show(to, Screens(from) \cap Screens(to), calls, others)
    BY <1>6 DEF Went
  <2> QED BY <1>4, <1>6, <2>1, <2>2
<1>7. ASSUME abandoned => abandoned',
             \/ Went(AtHome, AtCreate, requests, replies)
             \/ Went(AtCreate, AtList, requests, replies)
             \/ Went(AtList, AtCreate, requests, replies)
      PROVE  ListInv'
  BY <1>1, <1>5, <1>6, <1>7, StackFacts DEF Went
<1>8. ASSUME Under("save") < MaxTaps, Went(AtCreate, AtHome, Append(requests, Removal), replies)
      PROVE  ListInv'
  <2>1. NoSaves(requests)
    BY <1>8, NoneUnderWay
  <2>2. Sound(AtHome, Append(requests, Removal))
    BY <1>2, <2>1 DEF Sound
  <2> QED BY <1>1, <1>2, <1>6, <1>8, <2>2, StackFacts
<1>9. ASSUME Went(AtCreate, AtHome, requests, replies), abandoned'
      PROVE  ListInv'
  BY <1>1, <1>6, <1>9, StackFacts
<1>10. ASSUME Awaited("save"), Went(main, Below, requests, OtherReplies)
       PROVE  ListInv'
  <2>1. main = AtList /\ Below = AtCreate
    BY <1>10, SavedOnList
  <2>2. QueuesOK(requests, OtherReplies, Registered)
    BY <1>1, <1>10, PopOK DEF OtherReplies, Awaited
  <2>3. abandoned' = abandoned
    BY <1>10 DEF Awaited
  <2> QED BY <1>1, <1>5, <1>6, <1>10, <2>1, <2>2, <2>3, StackFacts
<1>11. ASSUME Show(main, {}, requests, replies), abandoned' = abandoned
       PROVE  ListInv'
  BY <1>1, <1>4, <1>5, <1>11
<1> QED BY <1>7, <1>8, <1>9, <1>10, <1>11 DEF Going

LEMMA ListInductive ==
    ASSUME MaxTaps = 1, RowsInv, AheadInv, FreshInv, SaveInv, ListInv, [Next]_vars
    PROVE  ListInv'
<1>1. /\ IsQueue(requests) /\ main \in Stacks
  BY RowsParts DEF QueuesOK
<1>2. ASSUME UNCHANGED <<main, requests, replies, mem, faults, abandoned>>,
             \/ members' = members
             \/ members # <<>> /\ Emails(members') = Emails(members)
      PROVE  ListInv'
  <2>1. Registered' = Registered
    BY <1>2 DEF Registered, Listed
  <2>2. Reading(main, requests, replies, Registered, members) =>
          Reading(main, requests, replies, Registered, members')
    BY <1>2 DEF Reading, Complete
  <2> QED BY <1>2, <2>1, <2>2, ListPrimed DEF ListInv, ListHolds
<1>3. CASE Edited
  <2>1. members # <<>>
    BY <1>3 DEF Edited
  <2>2. UNCHANGED <<main, requests, replies, mem, faults, abandoned>>
        /\ Emails(members') = Emails(members)
    BY <1>3, EditedMoves DEF storageVars, stores, failures
  <2> QED BY <1>2, <2>1, <2>2
<1>4. CASE HandleSubmit
  <2>1. /\ Screen = "LIST" /\ requests' = Append(requests, Submission)
        /\ UNCHANGED <<main, replies, mem, faults, members, abandoned>>
    BY <1>4, SubmitMoves
  <2>2. main = AtList
    BY <1>1, <2>1, ScreenIs
  <2>3. Registered' = Registered
    BY <2>1 DEF Registered, Listed
  <2>4. ~ToList(Submission) /\ Submission.value = members
    BY DEF Submission, SetItem, Handler, ToList
  <2>5. ASSUME ListHolds(main, requests, replies, mem[TEMP_MEMBERS], Registered, members)
        PROVE  ListHolds(main, requests', replies, mem[TEMP_MEMBERS], Registered, members)
    <3>1. Fine(members, Registered)
      BY <2>2, <2>5 DEF ListHolds, Reading, Fine, Listed
    <3>2. /\ NoneToList(requests') <=> NoneToList(requests)
          /\ RemovalComes(requests) => RemovalComes(requests')
          /\ SavesFine(requests, Registered) => SavesFine(requests', Registered)
      BY <1>1, <2>1, <2>4, <3>1, ListPushed
    <3> QED BY <2>5, <3>2 DEF ListHolds, Stored, Reading
  <2>6. ReadsOnList(main, requests', replies)
    BY <2>2 DEF ReadsOnList
  <2> QED BY <2>1, <2>3, <2>5, <2>6, ListPrimed DEF ListInv
<1>5. CASE \E email \in Email : MemberSignsUp(email)
  <2>1. PICK email \in Email : MemberSignsUp(email)
    BY <1>5
  <2>2. /\ Screen = "HOME" /\ mem'[TEMP_MEMBERS] = mem[TEMP_MEMBERS]
        /\ UNCHANGED <<requests, replies, faults, main, members, abandoned>>
    BY <2>1, SignUpMoves
  <2>3. main = AtHome /\ main # AtList
    BY <1>1, <2>2, ScreenIs, StackFacts
  <2>4. NoSaves(requests) /\ NoneToList(replies)
    BY <2>3 DEF SaveInv, SaveHolds, ListInv, ReadsOnList
  <2>5. ASSUME NEW users, NEW more, NEW value,
               ListHolds(main, requests, replies, value, users, members)
        PROVE  ListHolds(main, requests, replies, value, more, members)
    BY <2>3, <2>4, <2>5
       DEF ListHolds, Stored, SavesFine, AnswersFine, Reading, NoSaves, NoneToList
  <2> QED BY <2>2, <2>5, ListPrimed DEF ListInv
<1>6. CASE Crash
  <2>1. NoneToList(<<>>)
    BY DEF NoneToList
  <2> QED BY <1>6, <2>1, CrashMoves, ListPrimed DEF ReadsOnList
<1>7. CASE UNCHANGED vars
  BY <1>2, <1>7 DEF vars, storageVars, stores, failures, draftVars
<1>8. CASE EmptyCache
  <2>1. UNCHANGED <<main, requests, replies>> /\ faults' # 0
    BY <1>8, EmptyCacheMoves DEF AheadInv
  <2> QED BY <2>1, ListPrimed DEF ListInv
<1> QED BY <1>1, <1>3, <1>4, <1>5, <1>6, <1>7, <1>8, Moves, StoreList, HeardList, GoingList

LEMMA InitList == Init => ListInv
<1> SUFFICES ASSUME Init PROVE ListInv
  OBVIOUS
<1>1. /\ requests = <<>> /\ replies = <<>> /\ main = AtHome /\ mem[TEMP_MEMBERS] = Missing
  BY KeyFacts DEF Init, StorageInit, NothingStored, InitialState, AtHome, Rehydrated, Route
<1>2. NoneToList(<<>>) /\ DOMAIN <<>> = {}
  BY DEF NoneToList
<1> QED BY <1>1, <1>2, StackFacts
        DEF ListInv, ReadsOnList, ListHolds, Stored, SavesFine, AnswersFine, Reading

LEMMA ListAlways ==
    ASSUME MaxTaps = 1
    PROVE  Spec => []ListInv
<1>1. Init => SaveInv /\ ListInv
  BY InitSaves, InitList
<1>2. RowsInv /\ AheadInv /\ FreshInv /\ SaveInv /\ ListInv /\ [Next]_vars
        => SaveInv' /\ ListInv'
  BY SaveInductive, ListInductive
<1> QED BY <1>1, <1>2, RowsAlways, FreshAlways, PTL DEF Spec

\* NoDraftLeft: a user who waits for Save and leaves by the arrow leaves nothing
\* behind, as long as no call has failed.
THEOREM DraftsAreRemoved ==
    ASSUME MaxTaps = 1
    PROVE  Spec => [](faults = 0 => NoDraftLeft)
<1>1. RowsInv /\ ListInv => (faults = 0 => NoDraftLeft)
  <2> SUFFICES ASSUME RowsInv, ListInv, faults = 0, Settled, Screen = "HOME", ~abandoned
               PROVE  mem[TEMP_MEMBERS] = Missing
    BY DEF NoDraftLeft
  <2>1. main = AtHome
    BY RowsParts, ScreenIs
  <2>2. Stored(main, <<>>, mem[TEMP_MEMBERS], Registered)
    BY DEF ListInv, ListHolds, Settled
  <2>3. ~RemovalComes(<<>>)
    BY DEF RemovalComes
  <2> QED BY <2>1, <2>2, <2>3 DEF Stored
<1> QED BY <1>1, RowsAlways, ListAlways, PTL

\* RowsComplete: ... and such a user finds every registered member in the list.
THEOREM RowsAreComplete ==
    ASSUME MaxTaps = 1
    PROVE  Spec => [](faults = 0 => RowsComplete)
<1>1. RowsInv /\ ListInv => (faults = 0 => RowsComplete)
  <2> SUFFICES ASSUME RowsInv, ListInv, faults = 0, Settled, Screen = "LIST", ~abandoned
               PROVE  Emails(members) = ToSet(Registered)
    BY DEF RowsComplete
  <2>1. main = AtList
    BY RowsParts, ScreenIs
  <2>2. Reading(main, <<>>, <<>>, Registered, members)
    BY DEF ListInv, ListHolds, Settled
  <2>3. NoneToList(<<>>)
    BY DEF NoneToList
  <2> QED BY <2>1, <2>2, <2>3 DEF Reading, Complete
<1> QED BY <1>1, RowsAlways, ListAlways, PTL

=============================================================================
