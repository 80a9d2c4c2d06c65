----------------------------- MODULE MCBooking -----------------------------
(***************************************************************************)
(* Booking on small instances: two or three calls, one or two spaces, and  *)
(* calls that overlap in part, touch, lie apart or end before they start.  *)
(***************************************************************************)
EXTENDS Booking, TLC

CONSTANTS r1, r2, r3, s1, s2

MCThree == {r1, r2, r3}

MCTwo == {r1, r2}

At(s, start, end) == [space |-> s, start |-> start, end |-> end]

\* [0,2) and [1,3) overlap, [2,4) touches the first and overlaps the second,
\* [3,1) is the wrong way round.
MCCalls == {At(s1, 0, 2), At(s1, 1, 3), At(s1, 2, 4), At(s1, 3, 1)}

MCCallsTwoSpaces == MCCalls \cup {At(s2, 1, 3)}

MCPairCalls == {At(s1, 0, 2), At(s1, 1, 3)}

MCSymmetry == Permutations(Request)
============================================================================
