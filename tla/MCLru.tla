-------------------------------- MODULE MCLru --------------------------------
(* Bounded instance of the cache: keys 0 and 2 share a bucket.               *)
EXTENDS LruProperties

\* One capacity that main rejects, one where every new key evicts.
MCCapacities == {-1, 1, 2}

MCSymmetry == Permutations(Nodes)

=============================================================================
