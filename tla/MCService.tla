----------------------------- MODULE MCService -----------------------------
(***************************************************************************)
(* The service on a small instance: two bookings that overlap, calls that  *)
(* change the status of either, and a clock of half minutes.               *)
(***************************************************************************)
EXTENDS Service, TLC

CONSTANTS b1, b2, p1, s1

MCBookers == {b1, b2}

MCOne == {p1}

\* A start at a whole minute and one half a minute later.
MCStart == b1 :> 62 @@ b2 :> 63

MCWanted == [r \in MCBookers |-> [space |-> s1, start |-> MCStart[r], end |-> 70]]

MCPatch == [id : MCBookers, target : {"CONFIRMED", "CANCELLED"}]
============================================================================
