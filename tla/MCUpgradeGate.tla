--------------------------- MODULE MCUpgradeGate ----------------------------
(***************************************************************************)
(* Key files of every kind for model checking UpgradeGate.                 *)
(***************************************************************************)
EXTENDS UpgradeGate, TLC

CONSTANTS K1, K2, U1

CeAndRdb == K1 :> "ce" @@ K2 :> "rdb"
FrontAndCe == K1 :> "front" @@ K2 :> "ce"
OfFirst == K1 :> U1 @@ K2 :> U1
ThreadSymmetry == Permutations(Threads)
=============================================================================
