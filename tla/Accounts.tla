------------------------------- MODULE Accounts -------------------------------
(***************************************************************************)
(* What signing up, logging in and logging out promise, with the screens,  *)
(* the queues and the interleavings left out: accounts are only ever       *)
(* added, each once, and a session belongs to an account that exists.      *)
(***************************************************************************)
CONSTANTS Account, NoSession

VARIABLES accounts, session

vars == <<accounts, session>>

Init == accounts = {} /\ session = NoSession

Register(account) ==
    /\ account \notin accounts
    /\ accounts' = accounts \cup {account}
    /\ UNCHANGED session

LogIn(account) ==
    /\ account \in accounts
    /\ session' = account
    /\ UNCHANGED accounts

LogOut ==
    /\ session' = NoSession
    /\ UNCHANGED accounts

Next ==
    \/ \E account \in Account : Register(account) \/ LogIn(account)
    \/ LogOut

Spec == Init /\ [][Next]_vars

=============================================================================
