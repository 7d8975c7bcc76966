----------------------------- MODULE MCListLock -----------------------------
(* ListLock for TLC: tabs of two users, and interchangeable requests.       *)
EXTENDS ListLock, TLC

CONSTANTS alice, bob, tabA, tabB

MCOwner == [t \in Tab |-> IF t = tabB THEN bob ELSE alice]
Symmetry == Permutations(Request)
=============================================================================
