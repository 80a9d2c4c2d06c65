------------------------------ MODULE Catalogue ------------------------------
(***************************************************************************)
(* SpacesService and ReviewsService: POST, PATCH and DELETE on /spaces and *)
(* /reviews.                                                               *)
(*                                                                         *)
(* Each statement is a transaction of its own.  A creation of a review     *)
(* looks for one of the same user and space first; no constraint of the    *)
(* table keeps a second one out.  A PATCH reads the row, sets the fields   *)
(* of its dto in the copy and saves the copy: save reads the row again,    *)
(* removed or not, and updates the columns in which the copy differs,      *)
(* deletedAt among them.                                                   *)
(***************************************************************************)
EXTENDS Integers, FiniteSets, Functions

CONSTANTS Request,   \* the calls; what a call creates is named after it
          OldSpace,  \* the spaces there already
          Old,       \* the reviews there already: [review -> [user, space]]
          User,
          Field,     \* the columns a dto may name (images of a space is none)
          Value      \* what they may hold

OldReview == DOMAIN Old
Space == Request \cup OldSpace
Item == Space \cup OldReview

Column == Field \cup {"deletedAt"}

\* A row of either table: its fields and whether deletedAt is set.
Row == {f \in [Column -> Value \cup {"null", "set"}] :
            /\ \A c \in Field : f[c] \in Value
            /\ f["deletedAt"] \in {"null", "set"}}

Absent == [c \in Column |-> "absent"]

NewRow(fields) == [c \in Column |-> IF c \in Field THEN fields[c] ELSE "null"]

ASSUME CatalogueAssumption ==
    /\ "absent" \notin Value
    /\ "deletedAt" \notin Field
    /\ Request \cap OldReview = {} /\ Request \cap OldSpace = {} /\ OldReview \cap OldSpace = {}
    /\ Old \in [OldReview -> [user : User, space : OldSpace]]
    /\ \A i, j \in OldReview : Old[i] = Old[j] => i = j

\* A PATCH names some of the fields.
PatchDto == UNION {[C -> Value] : C \in SUBSET Field}

Table == {"spaces", "reviews"}

Call == [kind : {"create"}, table : {"spaces"}, dto : [Field -> Value]]
        \cup [kind : {"create"}, table : {"reviews"}, user : User, space : Space,
              dto : [Field -> Value]]
        \cup [kind : {"patch"}, table : Table, user : User, item : Item, dto : PatchDto]
        \cup [kind : {"remove"}, table : Table, user : User, item : Item]

VARIABLES row,      \* both tables
          call,     \* what each request asks for
          pc,       \* the statement each request sends next, or its reply
          copy,     \* the row a PATCH works on
          diff,     \* the columns its save is going to write
          missed,   \* columns changed between its first and its second read
          late,     \* columns changed between its second read and its UPDATE
          unsure,   \* creations whose check for a review did not see all
          revived   \* items that a save brought back

vars == <<row, call, pc, copy, diff, missed, late, unsure, revived>>

Reply == {"created", "exists", "failed", "notFound", "patched", "removed"}
Statement == {"insert", "reload", "update", "delete"}

TypeOK == /\ row \in [Item -> Row \cup {Absent}]
          /\ call \in [Request -> Call]
          /\ pc \in [Request -> {"idle"} \cup Statement \cup Reply]
          /\ copy \in [Request -> Row \cup {Absent}]
          /\ diff \in [Request -> SUBSET Column]
          /\ missed \in [Request -> SUBSET Column]
          /\ late \in [Request -> SUBSET Column]
          /\ unsure \in SUBSET Request
          /\ revived \in SUBSET Item

-----------------------------------------------------------------------------
TableOf(i) == IF i \in OldSpace THEN "spaces"
              ELSE IF i \in OldReview THEN "reviews"
              ELSE call[i].table

Live(i) == row[i]["deletedAt"] = "null"

Is(i, table) == TableOf(i) = table /\ row[i] # Absent

\* Whose review i is, and of which space.
About(i) == IF i \in OldReview THEN <<Old[i].user, Old[i].space>>
            ELSE <<call[i].user, call[i].space>>

Creates(r, table) == call[r].kind = "create" /\ call[r].table = table

\* What a read by id finds.  A review is asked for with its user.
FoundFor(r) == LET i == call[r].item
               IN  /\ Is(i, call[r].table)
                   /\ Live(i)
                   /\ call[r].table = "reviews" => About(i)[1] = call[r].user

SpaceLive(r) == Is(call[r].space, "spaces") /\ Live(call[r].space)

\* The join of the query with the space leaves out the reviews of a removed one.
Seen(r) == {i \in Item : /\ SpaceLive(r)
                         /\ Is(i, "reviews")
                         /\ Live(i)
                         /\ About(i) = About(r)}

\* Other requests that are at a statement about item i.
At(statement, r, i) == {q \in Request \ {r} : pc[q] = statement /\ call[q].item = i}

Goto(r, to) == pc' = [pc EXCEPT ![r] = to]

\* Item i gets new columns: copies of it are out of date.
Change(r, i, new) ==
    LET Outdated(seen, statement) ==
            [q \in Request |-> IF q \in At(statement, r, i)
                               THEN seen[q] \cup {c \in Column : row[i][c] # new[c]}
                               ELSE seen[q]]
    IN  /\ row' = [row EXCEPT ![i] = new]
        /\ missed' = Outdated(missed, "reload")
        /\ late' = Outdated(late, "update")

Init == /\ \E fields \in [OldSpace \cup OldReview -> [Field -> Value]],
              gone \in SUBSET OldSpace :
               row = [i \in Item |-> IF i \in Request THEN Absent
                                     ELSE IF i \in gone
                                     THEN [NewRow(fields[i]) EXCEPT !["deletedAt"] = "set"]
                                     ELSE NewRow(fields[i])]
        /\ call \in [Request -> Call]
        /\ pc = [r \in Request |-> "idle"]
        /\ copy = [r \in Request |-> Absent]
        /\ diff = [r \in Request |-> {}]
        /\ missed = [r \in Request |-> {}]
        /\ late = [r \in Request |-> {}]
        /\ unsure = {}
        /\ revived = {}

-----------------------------------------------------------------------------
\* createSpace: save of a new entity.
CreateSpace(r) ==
    /\ pc[r] = "idle" /\ Creates(r, "spaces")
    /\ Goto(r, "created")
    /\ row' = [row EXCEPT ![r] = NewRow(call[r].dto)]
    /\ UNCHANGED <<call, copy, diff, missed, late, unsure, revived>>

\* createReviews

\* Mutant: the answer of the query is ignored.
CheckIgnored(r) ==
    /\ pc[r] = "idle" /\ Creates(r, "reviews")
    /\ Goto(r, "insert")
    /\ unsure' = unsure \cup {q \in {r} : ~SpaceLive(r)}
    /\ UNCHANGED <<row, call, copy, diff, missed, late, revived>>

\* exists.  A check that is made for a removed space sees nothing.
Check(r) ==
    /\ pc[r] = "idle" /\ Creates(r, "reviews")
    /\ Goto(r, IF Seen(r) # {} THEN "exists" ELSE "insert")
    /\ unsure' = unsure \cup {q \in {r} : ~SpaceLive(r)}
    /\ UNCHANGED <<row, call, copy, diff, missed, late, revived>>

\* save of a new entity.  It comes too late for the checks already made.
Insert(r) ==
    /\ pc[r] = "insert" /\ Is(call[r].space, "spaces")
    /\ Goto(r, "created")
    /\ row' = [row EXCEPT ![r] = NewRow(call[r].dto)]
    /\ unsure' = unsure \cup {q \in Request \ {r} : pc[q] = "insert" /\ About(q) = About(r)}
    /\ UNCHANGED <<call, copy, diff, missed, late, revived>>

\* The foreign key rejects a space without a row, removed ones have theirs.
InsertRejected(r) ==
    /\ pc[r] = "insert" /\ ~Is(call[r].space, "spaces")
    /\ Goto(r, "failed")
    /\ UNCHANGED <<row, call, copy, diff, missed, late, unsure, revived>>

-----------------------------------------------------------------------------
\* updateSpaces and updateReviews

\* Mutant: the fields of the dto alone are saved.
ReadDtoOnly(r) ==
    /\ pc[r] = "idle" /\ call[r].kind = "patch"
    /\ IF FoundFor(r)
       THEN Goto(r, "reload") /\ copy' = [copy EXCEPT ![r] = call[r].dto]
       ELSE Goto(r, "notFound") /\ UNCHANGED copy
    /\ UNCHANGED <<row, call, diff, missed, late, unsure, revived>>

\* findOne; the fields of the dto are set in the copy.
Read(r) ==
    /\ pc[r] = "idle" /\ call[r].kind = "patch"
    /\ IF FoundFor(r)
       THEN /\ Goto(r, "reload")
            /\ copy' = [copy EXCEPT ![r] =
                          [c \in Column |-> IF c \in DOMAIN call[r].dto THEN call[r].dto[c]
                                            ELSE row[call[r].item][c]]]
       ELSE Goto(r, "notFound") /\ UNCHANGED copy
    /\ UNCHANGED <<row, call, diff, missed, late, unsure, revived>>

\* Mutant: every column of the copy is written.
ReloadAll(r) ==
    /\ pc[r] = "reload"
    /\ Goto(r, "update")
    /\ diff' = [diff EXCEPT ![r] = Column]
    /\ UNCHANGED <<row, call, copy, missed, late, unsure, revived>>

\* Mutant: only live rows are compared, a removal is not seen.
ReloadLive(r) ==
    /\ pc[r] = "reload"
    /\ LET differs == {c \in Field : copy[r][c] # row[call[r].item][c]}
       IN  /\ diff' = [diff EXCEPT ![r] = differs]
           /\ Goto(r, IF differs = {} THEN "patched" ELSE "update")
    /\ UNCHANGED <<row, call, copy, missed, late, unsure, revived>>

\* save, first part: the row is read again and compared.
Reload(r) ==
    /\ pc[r] = "reload"
    /\ LET differs == {c \in Column : copy[r][c] # row[call[r].item][c]}
       IN  /\ diff' = [diff EXCEPT ![r] = differs]
           /\ Goto(r, IF differs = {} THEN "patched" ELSE "update")
    /\ UNCHANGED <<row, call, copy, missed, late, unsure, revived>>

\* save, second part: UPDATE of the columns that differed, by id.
Update(r) ==
    /\ pc[r] = "update"
    /\ Goto(r, "patched")
    /\ LET i == call[r].item
           new == [c \in Column |-> IF c \in diff[r] THEN copy[r][c] ELSE row[i][c]]
       IN  /\ Change(r, i, new)
           /\ revived' = revived \cup {j \in {i} : ~Live(i) /\ new["deletedAt"] = "null"}
    /\ UNCHANGED <<call, copy, diff, unsure>>

-----------------------------------------------------------------------------
\* removeSpaces and removeReview

Look(r) ==
    /\ pc[r] = "idle" /\ call[r].kind = "remove"
    /\ Goto(r, IF FoundFor(r) THEN "delete" ELSE "notFound")
    /\ UNCHANGED <<row, call, copy, diff, missed, late, unsure, revived>>

\* softDelete, by id.
Delete(r) ==
    /\ pc[r] = "delete"
    /\ Goto(r, "removed")
    /\ LET i == call[r].item IN Change(r, i, [row[i] EXCEPT !["deletedAt"] = "set"])
    /\ UNCHANGED <<call, copy, diff, unsure, revived>>

-----------------------------------------------------------------------------
Handle(r) == \/ CreateSpace(r)
             \/ Check(r) \/ Insert(r) \/ InsertRejected(r)
             \/ Read(r) \/ Reload(r) \/ Update(r)
             \/ Look(r) \/ Delete(r)

Quiet == /\ \A r \in Request : pc[r] \in Reply
         /\ UNCHANGED vars

Next == (\E r \in Request : Handle(r)) \/ Quiet

Spec == Init /\ [][Next]_vars

-----------------------------------------------------------------------------
\* Safety.

\* A save writes, besides the fields of its dto, only what another call changed
\* between its two reads: neither a field nor a removal is undone otherwise.
OnlyStaleCopiesOverwrite ==
    [][\A r \in Request : Update(r) =>
         \A c \in Column :
             row'[call[r].item][c] # row[call[r].item][c] =>
                 call[r].kind = "patch" /\ (c \in DOMAIN call[r].dto \/ c \in missed[r])]_vars

\* A PATCH answers with its copy, which is the row as the save leaves it, but for
\* what another call changed after the comparison.
AnswerIsRow ==
    [][\A r \in Request : pc[r] # "patched" /\ pc'[r] = "patched" =>
         \A c \in Column : copy[r][c] = row'[call[r].item][c] \/ c \in late[r]]_vars

\* Two reviews of one user and space are the work of creations that overlapped,
\* of one made while the space was not there, or of a save that brought one back.
DuplicatesExplained ==
    \A i, j \in Item :
        /\ i # j
        /\ \A k \in {i, j} : Is(k, "reviews") /\ Live(k)
        /\ About(i) = About(j)
        => {i, j} \cap (unsure \cup revived) # {}
=============================================================================
