----------------------------- MODULE MCSessions -----------------------------
(***************************************************************************)
(* Sessions on a small instance: four calls of two users, a clock that     *)
(* outlives a refresh token, one restart of Redis.                         *)
(***************************************************************************)
EXTENDS Sessions, TLC

MCSymmetry == Permutations(Request) \cup Permutations(User)
=============================================================================
