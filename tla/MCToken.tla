------------------------------- MODULE MCToken -------------------------------
(* The token alone, for TLC: a small u64 so that additions overflow. *)
EXTENDS Token, TLC

mcSymmetry == Permutations(Accounts)
=============================================================================
