---------------------------- MODULE StackNavigator ----------------------------
(***************************************************************************)
(* One native stack navigator: the router state that useNavigationBuilder  *)
(* keeps, every action a screen can dispatch to it, and the native side of *)
(* the stack, where an iOS user swipes a screen away before JavaScript     *)
(* hears of it (onDismissed).  The event names the dismissed route, so     *)
(* that it is still right when the stack has changed in the meantime;      *)
(* goBack, pop and replace name nobody and act on the focused route.       *)
(***************************************************************************)
EXTENDS StackRouter

CONSTANTS
    RouteName,      \* the screens registered with the navigator
    Key,            \* the keys the router can make up
    MaxDepth,       \* bound: longest stack that push and navigate build
    MaxDismissals   \* bound: swipes whose event is still on its way

ASSUME NavigatorAssumption ==
    /\ RouteName # {} /\ Key # {}
    /\ MaxDepth \in Nat \ {0}
    /\ MaxDismissals \in Nat

VARIABLES
    nav,            \* the navigator's state
    dismissals      \* keys of the routes swiped away, oldest first

vars == <<nav, dismissals>>

Route == [key : Key, name : RouteName]

\* nanoid never repeats a key: not one in the stack, not one in an event.
FreshKey == Key \ (RouteKeys(nav) \cup ToSet(dismissals))

\* Install what the router returned; an unhandled action changes nothing.
Apply(result) ==
    /\ result # NoState
    /\ nav' = result
    /\ UNCHANGED dismissals

Init ==
    /\ \E name \in RouteName, key \in Key : nav = InitialState(name, key)
    /\ dismissals = <<>>

ReplaceRoute(name, key) ==
    Apply(Replace(nav, RouteName, ActionIndex(nav, FALSE, key), name, key))

PushRoute(name, key) ==
    /\ Len(nav.routes) < MaxDepth
    /\ Apply(Push(nav, RouteName, name, key))

NavigateTo(name, key) ==
    /\ IndexOfName(nav, name) # -1 \/ Len(nav.routes) < MaxDepth
    /\ Apply(Navigate(nav, RouteName, name, key))

PopRoutes(count) == Apply(Pop(nav, nav.index, count))

PopAll == Apply(PopToTop(nav))

GoBackAny == Apply(GoBack(nav, FALSE, nav.index))

ResetTo(name, key) ==
    Apply(Reset(nav, RouteName, <<[key |-> key, name |-> name]>>))

FocusRoute(key) == Apply(RouteFocus(nav, key))

\* The screens the native stack still shows: what was swiped is gone there.
Shown == {i \in DOMAIN nav.routes : nav.routes[i].key \notin ToSet(dismissals)}

\* The gesture starts on the topmost native screen and needs one beneath it.
Swipe(i) ==
    /\ Len(dismissals) < MaxDismissals
    /\ i \in Shown /\ i # 1
    /\ \A j \in Shown : j <= i
    /\ dismissals' = Append(dismissals, nav.routes[i].key)
    /\ UNCHANGED nav

\* onDismissed: POP of dismissCount routes, with source: route.key and target:
\* state.key.  The count is 1 of a swipe, and on Android always; only holding the
\* header's back button dismisses more, and both navigators hide their header.
HandleDismissal ==
    /\ dismissals # <<>>
    /\ LET index == ActionIndex(nav, TRUE, Head(dismissals)) IN
       nav' = Handled(nav, TRUE, Pop(nav, index, 1))
    /\ dismissals' = Tail(dismissals)

Next ==
    \/ \E name \in RouteName, key \in FreshKey :
          \/ ReplaceRoute(name, key)
          \/ PushRoute(name, key)
          \/ NavigateTo(name, key)
          \/ ResetTo(name, key)
    \/ \E count \in 1..MaxDepth : PopRoutes(count)
    \/ PopAll
    \/ GoBackAny
    \/ \E key \in RouteKeys(nav) : FocusRoute(key)
    \/ \E i \in DOMAIN nav.routes : Swipe(i)
    \/ HandleDismissal

Spec == Init /\ [][Next]_vars

-----------------------------------------------------------------------------

\* What the native stack needs of the state it renders: at least one route,
\* the last one focused, known names, and no key twice (React would mix up
\* the two screens).
NavOK ==
    /\ nav.routes \in Seq(Route) /\ nav.routes # <<>>
    /\ nav = Rehydrated(nav.routes)
    /\ \A i, j \in DOMAIN nav.routes :
          nav.routes[i].key = nav.routes[j].key => i = j
    /\ dismissals \in Seq(Key)

\* A late onDismissed removes the screen the user swiped and no other, even
\* when the stack was pushed, popped, replaced or reset since the swipe.
DismissalRemovesOnlyItsRoute ==
    [][dismissals # <<>> /\ dismissals' = Tail(dismissals) =>
         ToSet(nav'.routes) =
            {r \in ToSet(nav.routes) : r.key # Head(dismissals)}]_vars

\* However the user goes back (goBack, pop, a swipe, navigating to an earlier
\* screen, in any order), the bottom screen stays: only replace and reset,
\* which never leave a deeper stack behind, can change it.
GoingBackKeepsTheBottom ==
    [][\/ nav'.routes[1] = nav.routes[1]
       \/ Len(nav'.routes) = 1 /\ nav'.routes[1].key \notin RouteKeys(nav)]_vars

\* A swiped screen always has one beneath it, whatever the stack went through
\* since: handling the event can never meet the bottom route, where POP does
\* nothing and the native stack would be one screen short for good.
SwipedHasAScreenBeneath ==
    \A i \in DOMAIN dismissals : dismissals[i] # nav.routes[1].key

=============================================================================
