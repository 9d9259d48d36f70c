----------------------------- MODULE MCModeGate -----------------------------
(* ModeGate for TLC: interchangeable requests.                             *)
EXTENDS ModeGate, TLC

RequestSymmetry == Permutations(Request)
=============================================================================
