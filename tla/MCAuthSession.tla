---------------------------- MODULE MCAuthSession ----------------------------
(***************************************************************************)
(* TLC instances of AuthSession.  Addresses may be permuted in the runs    *)
(* that check no liveness property.                                        *)
(***************************************************************************)
EXTENDS AuthSession

EmailSymmetry == Permutations(Email)

\* iOS: the lists that exceed the manifest's threshold, here from the first or
\* from the second account on.
ListsFrom(n) ==
    {users \in SeqOf(Email, Cardinality(Email)) : IsInjective(users) /\ Len(users) >= n}
EveryList == ListsFrom(1)
LongLists == ListsFrom(2)

=============================================================================
