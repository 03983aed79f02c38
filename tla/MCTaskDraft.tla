----------------------------- MODULE MCTaskDraft -----------------------------
(***************************************************************************)
(* TLC instances of TaskDraft.  Addresses may be permuted, and the history *)
(* left out of the states, in the runs that check no property of either.   *)
(***************************************************************************)
EXTENDS TaskDraft

EmailSymmetry == Permutations(Email)

\* iOS: the drafts that exceed the manifest's threshold, here those of two members.
LongDrafts == {rows \in TupleOf(Row, 2) : rows[1].email # rows[2].email}

WithoutHistory == <<storageVars, draftVars, remounts, crashes>>

=============================================================================
