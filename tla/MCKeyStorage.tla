---------------------------- MODULE MCKeyStorage ----------------------------
(***************************************************************************)
(* Symmetry for model checking KeyStorage.                                 *)
(***************************************************************************)
EXTENDS KeyStorage, TLC

StorageSymmetry == Permutations(Threads) \cup Permutations(LockIds)
=============================================================================
