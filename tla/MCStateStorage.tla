--------------------------- MODULE MCStateStorage ---------------------------
(***************************************************************************)
(* The storage manager for TLC: two threads, a cache smaller than the      *)
(* number of accounts, so that eviction meets pending changes.             *)
(***************************************************************************)
EXTENDS StateStorage, TLC

Symmetry == Permutations(Threads) \cup Permutations(Accounts) \cup Permutations(Values)
=============================================================================
