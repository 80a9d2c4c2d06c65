--------------------------- MODULE MCStatusUpdate ---------------------------
(***************************************************************************)
(* StatusUpdate on small instances: two or three calls about one or two    *)
(* reservations, a pool with and without a connection to spare, failures.  *)
(***************************************************************************)
EXTENDS StatusUpdate, TLC

CONSTANTS r1, r2, r3, i1, i2

MCThree == {r1, r2, r3}

MCTwo == {r1, r2}

To(i, target) == [id |-> i, target |-> target]

\* Confirmations that meet each other and every other change of one row.
MCCalls == {To(i1, t) : t \in {"CONFIRMED", "CANCELLED", "COMPLETED"}}

MCTwoRows == MCCalls \cup {To(i2, "CONFIRMED")}

MCConfirm == {To(i1, "CONFIRMED"), To(i2, "CONFIRMED")}

MCSymmetry == Permutations(Request)
=============================================================================
