---------------------------- MODULE MCLockStore ----------------------------
(* LockStore for TLC: requests and conversations are interchangeable.       *)
EXTENDS LockStore, TLC

Symmetry == Permutations(Requests) \union Permutations(Conversations)

=============================================================================
