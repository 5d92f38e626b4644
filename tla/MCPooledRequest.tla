---------------------------- MODULE MCPooledRequest ----------------------------
(* PooledRequest with the symmetries TLC may use in its safety runs.            *)
EXTENDS PooledRequest

SymmetricActors == Permutations(Tasks) \cup Permutations(Keys) \cup Permutations(Hosts)
                   \cup Permutations(Entries)
================================================================================
