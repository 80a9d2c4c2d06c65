----------------------------- MODULE MCCatalogue -----------------------------
(***************************************************************************)
(* Catalogue with one old space and one old review of it.                  *)
(***************************************************************************)
EXTENDS Catalogue, TLC

CONSTANTS r1, r2, r3, o1, u1, u2, s1, v1, v2, f1, f2

MCOld == o1 :> [user |-> u1, space |-> s1]

\* All begins with v1; one PATCH may undo another or set another field.
MCDto == {f1 :> v2, f1 :> v1, f2 :> v2, f1 :> v2 @@ f2 :> v2}

\* The last request may be about what the first creates.  The second user only
\* writes and removes reviews.
MCAbout(r) == IF r = r3 THEN {s1, o1, r1} ELSE {s1, o1}

MCCall(r) ==
    \/ call[r].kind = "create" /\ call[r].dto = [c \in Field |-> v1]
       /\ (call[r].table = "reviews" => call[r].space \in {s1, r1} \ {r})
    \/ call[r].kind = "patch" /\ call[r].dto \in MCDto
       /\ call[r].user = u1 /\ call[r].item \in MCAbout(r)
    \/ call[r].kind = "remove" /\ call[r].item \in MCAbout(r)
       /\ (call[r].table = "spaces" => call[r].user = u1)

MCInit == /\ call \in [Request -> Call]
          /\ \A r \in Request : MCCall(r)
          /\ Init
          /\ \A i \in Item : row[i] # Absent => \A c \in Field : row[i][c] = v1

MCSpec == MCInit /\ [][Next]_vars
=============================================================================
