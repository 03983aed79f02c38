----------------------------- MODULE StackRouter -----------------------------
(***************************************************************************)
(* The stack router of @react-navigation/routers as pure operators: what   *)
(* each action makes of a navigator's state.  A state is the pair of the   *)
(* routes, bottom first, and the 0-based index of the focused route.  A    *)
(* route keeps its key and its name; params, path and history entries are  *)
(* left out, for nothing in the application reads them.                    *)
(*                                                                         *)
(* Every key argument stands for the `${name}-${nanoid()}` the router      *)
(* makes up, so callers pass a key that no route has.                      *)
(***************************************************************************)
EXTENDS Integers, SequencesExt

\* `null`: the router did not handle the action.
NoState == [index |-> -1, routes |-> <<>>]

FocusedRoute(state) == state.routes[state.index + 1]

RouteKeys(state) == {r.key : r \in ToSet(state.routes)}

\* routes.findIndex((r) => r.key === key): 0-based, -1 when there is none.
IndexOfKey(state, key) ==
    SelectInSeq(state.routes, LAMBDA r : r.key = key) - 1

-----------------------------------------------------------------------------

\* A navigator mounted for the first time holds its initial route only.
InitialState(name, key) ==
    [index |-> 0, routes |-> <<[key |-> key, name |-> name]>>]

\* A partial state whose names were checked: the last route is focused,
\* whatever index the payload carries.
Rehydrated(routes) == [index |-> Len(routes) - 1, routes |-> routes]

\* Mutant: the target of the action is ignored.
ActionIndexUntargeted(state, targeted, source) == state.index

\* The route an action is about: the source when the action is targeted at
\* this very navigator, the focused one otherwise, whoever sent it.
ActionIndex(state, targeted, source) ==
    IF targeted THEN IndexOfKey(state, source) ELSE state.index

Replace(state, names, index, name, key) ==
    IF index = -1 \/ name \notin names
    THEN NoState
    ELSE [state EXCEPT !.routes[index + 1] = [key |-> key, name |-> name]]

\* Mutant: the new route is not focused.
PushUnfocused(state, names, name, key) ==
    IF name \notin names
    THEN NoState
    ELSE [state EXCEPT !.routes = Append(@, [key |-> key, name |-> name])]

Push(state, names, name, key) ==
    IF name \notin names
    THEN NoState
    ELSE Rehydrated(Append(state.routes, [key |-> key, name |-> name]))

\* The `count` routes that end at index go, the bottom one always stays, and
\* so do the routes above index.
Pop(state, index, count) ==
    LET kept == IF index - count + 1 > 1 THEN index - count + 1 ELSE 1 IN
    IF index > 0
    THEN Rehydrated(SubSeq(state.routes, 1, kept)
                      \o SubSeq(state.routes, index + 2, Len(state.routes)))
    ELSE NoState

PopToTop(state) == Pop(state, state.index, Len(state.routes) - 1)

GoBack(state, targeted, source) ==
    IF state.index > 0
    THEN Pop(state, ActionIndex(state, targeted, source), 1)
    ELSE NoState

\* The focused route when it has the name already, else the topmost that has.
IndexOfName(state, name) ==
    IF FocusedRoute(state).name = name
    THEN state.index
    ELSE SelectLastInSeq(state.routes, LAMBDA r : r.name = name) - 1

\* Mutant: the routes beneath the one navigated to are dropped as well.
NavigateAlone(state, names, name, key) ==
    LET index == IndexOfName(state, name) IN
    IF name \notin names THEN NoState
    ELSE IF index = -1 THEN Push(state, names, name, key)
    ELSE Rehydrated(SubSeq(state.routes, index + 1, index + 1))

Navigate(state, names, name, key) ==
    LET index == IndexOfName(state, name) IN
    IF name \notin names THEN NoState
    ELSE IF index = -1 THEN Push(state, names, name, key)
    ELSE [index |-> index, routes |-> SubSeq(state.routes, 1, index + 1)]

\* CommonActions.reset with a partial state; the keys are made up afterwards,
\* when the navigator rehydrates it.
Reset(state, names, routes) ==
    IF routes = <<>> \/ \E r \in ToSet(routes) : r.name \notin names
    THEN NoState
    ELSE Rehydrated(routes)

\* Mutant: only the focused route is kept.
RouteFocusAlone(state, key) ==
    LET index == IndexOfKey(state, key) IN
    IF index = -1 \/ index = state.index
    THEN state
    ELSE Rehydrated(SubSeq(state.routes, index + 1, index + 1))

\* A nested screen that is navigated to focuses its ancestors.
RouteFocus(state, key) ==
    LET index == IndexOfKey(state, key) IN
    IF index = -1 \/ index = state.index
    THEN state
    ELSE [index |-> index, routes |-> SubSeq(state.routes, 1, index + 1)]

-----------------------------------------------------------------------------

\* useOnAction: a navigator that is the action's target treats an unhandled
\* action as handled, so that it does not reach the parent.
Handled(state, targeted, result) ==
    IF targeted /\ result = NoState THEN state ELSE result

=============================================================================
