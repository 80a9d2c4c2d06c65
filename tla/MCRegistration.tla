--------------------------- MODULE MCRegistration ---------------------------
(***************************************************************************)
(* Registration with up to four requests for two emails and nicknames.     *)
(***************************************************************************)
EXTENDS Registration, TLC

MCSymmetry == Permutations(Request) \cup Permutations(Email) \cup Permutations(Nickname)
=============================================================================
