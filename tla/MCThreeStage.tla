---------------------------- MODULE MCThreeStage ----------------------------
(***************************************************************************)
(* Values for the constants of ThreeStage: callers are process infos.      *)
(***************************************************************************)
EXTENDS ThreeStage, TLC

CONSTANTS T1, T2, K1, K2

ThreadSymmetry == Permutations(Threads)

OneProcess == {[user |-> "u1", name |-> "p1", token |-> K1]}

\* One process, two tokens: the same uid with a second access token.
MixedTokens == OneProcess \cup {[user |-> "u1", name |-> "p1", token |-> K2]}
=============================================================================
