-------------------------------- MODULE MCTrh -------------------------------
(* One or two helpers, a few requests, one cancellation.                   *)
EXTENDS Trh, TLC

CONSTANTS h1, h2

OneHelper == {h1}
TwoHelpers == {h1, h2}
HelperSymmetry == Permutations(TwoHelpers)
=============================================================================
