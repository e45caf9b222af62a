-------------------------- MODULE MCRedisLockStore --------------------------
(* RedisLockStore for TLC: requests and workers are interchangeable.        *)
EXTENDS RedisLockStore, TLC

Symmetry == Permutations(Requests) \union Permutations(Workers)

=============================================================================
