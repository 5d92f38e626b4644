----------------------------- MODULE MCCacheBranch -----------------------------
(* CacheBranch with the symmetries TLC may use in its safety runs.              *)
EXTENDS CacheBranch

SymmetricActors == Permutations(Callers) \cup Permutations(Locks) \cup Permutations(Keys)
================================================================================
