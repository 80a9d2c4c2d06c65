--------------------------- MODULE CatalogueProofs ---------------------------
(***************************************************************************)
(* Proofs about Catalogue, for any calls, spaces, reviews, users, fields.  *)
(***************************************************************************)
EXTENDS Catalogue, TLAPS

\* Who holds a copy holds a row, of an item that exists, and an item exists from
\* the answer to its creation on.
CopyDiscipline ==
    \A r \in Request :
        /\ pc[r] # "created" => row[r] = Absent
        /\ pc[r] = "insert" => Creates(r, "reviews")
        /\ pc[r] \in {"reload", "update"} =>
              /\ call[r].kind = "patch"
              /\ copy[r] \in Row
              /\ row[call[r].item] \in Row
        /\ pc[r] = "delete" => call[r].kind = "remove" /\ row[call[r].item] \in Row

\* What sets a copy apart from the row is the dto or has been missed.
DiffDiscipline ==
    \A r \in Request : \A c \in Column :
        /\ pc[r] = "reload" /\ copy[r][c] # row[call[r].item][c] =>
              c \in DOMAIN call[r].dto \/ c \in missed[r]
        /\ pc[r] = "update" /\ c \in diff[r] =>
              c \in DOMAIN call[r].dto \/ c \in missed[r]

\* Where the row is not yet what the copy says and the save is not going to write
\* it, another call came late.
LateDiscipline ==
    \A r \in Request : \A c \in Column :
        pc[r] = "update" /\ c \notin diff[r] /\ copy[r][c] # row[call[r].item][c] => c \in late[r]

\* Nothing but a save that brings something back comes between a check that has
\* seen all and its insert.
CheckFresh ==
    \A r \in Request : \A j \in Item :
        /\ pc[r] = "insert" /\ r \notin unsure
        /\ Is(j, "reviews") /\ Live(j) /\ About(j) = About(r)
        => j \in revived

IInv == /\ TypeOK
        /\ CopyDiscipline /\ DiffDiscipline /\ LateDiscipline
        /\ CheckFresh /\ DuplicatesExplained

\* The two saves of a new entity.
Creation(r) == CreateSpace(r) \/ Insert(r)

-----------------------------------------------------------------------------
LEMMA CallFields ==
    ASSUME NEW c \in Call
    PROVE  /\ c.kind \in {"create", "patch", "remove"}
           /\ c.table \in Table
           /\ c.kind = "create" => c.dto \in [Field -> Value]
           /\ c.kind = "create" /\ c.table = "reviews" => c.user \in User /\ c.space \in Space
           /\ c.kind = "patch" => c.item \in Item /\ c.dto \in PatchDto
           /\ c.kind = "remove" => c.item \in Item
BY DEF Call, Table

LEMMA NewRowIsRow ==
    ASSUME NEW f \in [Field -> Value]
    PROVE  NewRow(f) \in Row /\ NewRow(f)["deletedAt"] = "null"
BY CatalogueAssumption DEF NewRow, Row, Column

LEMMA ColumnsOfRow ==
    ASSUME NEW w \in Row
    PROVE  /\ w \in [Column -> Value \cup {"null", "set"}]
           /\ \A c \in Field : w[c] \in Value
           /\ w["deletedAt"] \in {"null", "set"}
BY DEF Row

\* Columns taken from two rows make a row.
LEMMA MergedRow ==
    ASSUME NEW v \in Row, NEW w \in Row, NEW C
    PROVE  [c \in Column |-> IF c \in C THEN v[c] ELSE w[c]] \in Row
BY CatalogueAssumption, ColumnsOfRow DEF Row, Column

\* So does a row with the fields of a dto.
LEMMA PatchedRow ==
    ASSUME NEW d \in PatchDto, NEW w \in Row
    PROVE  [c \in Column |-> IF c \in DOMAIN d THEN d[c] ELSE w[c]] \in Row
<1>1. PICK C \in SUBSET Field : d \in [C -> Value]
  BY DEF PatchDto
<1> QED
  BY <1>1, CatalogueAssumption, ColumnsOfRow DEF Row, Column

LEMMA LiveIsRow ==
    ASSUME TypeOK, NEW i \in Item, Live(i)
    PROVE  row[i] \in Row
BY DEF TypeOK, Live, Absent, Column

\* The review a user finds is a row.
LEMMA FoundIsRow ==
    ASSUME TypeOK, NEW r \in Request, call[r].kind \in {"patch", "remove"}, FoundFor(r)
    PROVE  call[r].item \in Item /\ row[call[r].item] \in Row
BY CallFields, LiveIsRow DEF TypeOK, FoundFor

\* What a creation leaves.
LEMMA CreationAdds ==
    ASSUME TypeOK, CopyDiscipline, NEW r \in Request, Creation(r)
    PROVE  /\ r \in Item
           /\ row[r] = Absent
           /\ call[r].kind = "create"
           /\ NewRow(call[r].dto) \in Row
           /\ row' = [row EXCEPT ![r] = NewRow(call[r].dto)]
           /\ row'[r] = NewRow(call[r].dto)
           /\ pc[r] # "created" /\ pc' = [pc EXCEPT ![r] = "created"]
           /\ UNCHANGED <<call, copy, diff, missed, late, revived>>
<1>1. r \in Item
  BY DEF Item, Space
<1>2. call[r].kind = "create"
  BY DEF Creation, CreateSpace, Insert, CopyDiscipline, Creates
<1>3. call[r].dto \in [Field -> Value]
  BY <1>2, CallFields DEF TypeOK
<1> QED
  BY <1>1, <1>2, <1>3, NewRowIsRow
     DEF TypeOK, Creation, CreateSpace, Insert, CopyDiscipline, Goto

\* An UPDATE and a softDelete put one row for another.
LEMMA UpdatedRow ==
    ASSUME TypeOK, CopyDiscipline, NEW r \in Request, Update(r)
    PROVE  /\ call[r].item \in Item
           /\ \E new \in Row : Change(r, call[r].item, new)
<1> DEFINE i == call[r].item
           new == [c \in Column |-> IF c \in diff[r] THEN copy[r][c] ELSE row[i][c]]
<1>1. i \in Item /\ copy[r] \in Row /\ row[i] \in Row
  BY CallFields DEF TypeOK, CopyDiscipline, Update
<1>2. \A v, w \in Row, C \in {diff[r]} :
        [c \in Column |-> IF c \in C THEN v[c] ELSE w[c]] \in Row
  BY MergedRow
<1>3. new \in Row
  BY <1>1, <1>2, Zenon
<1>4. Change(r, i, new)
  BY DEF Update
<1> QED
  BY <1>1, <1>3, <1>4

LEMMA DeletedRow ==
    ASSUME TypeOK, CopyDiscipline, NEW r \in Request, Delete(r)
    PROVE  /\ call[r].item \in Item
           /\ \E new \in Row : Change(r, call[r].item, new) /\ new["deletedAt"] = "set"
<1> DEFINE i == call[r].item
           new == [row[i] EXCEPT !["deletedAt"] = "set"]
<1>1. i \in Item /\ row[i] \in Row
  BY CallFields DEF TypeOK, CopyDiscipline, Delete
<1>2. new \in Row /\ new["deletedAt"] = "set"
  BY <1>1, CatalogueAssumption, ColumnsOfRow DEF Row, Column
<1>3. Change(r, i, new)
  BY DEF Delete
<1> QED
  BY <1>1, <1>2, <1>3

-----------------------------------------------------------------------------
LEMMA InitInvariant == Init => IInv
<1> SUFFICES ASSUME Init PROVE IInv
  OBVIOUS
<1>1. PICK fields \in [OldSpace \cup OldReview -> [Field -> Value]], gone \in SUBSET OldSpace :
         row = [i \in Item |-> IF i \in Request THEN Absent
                               ELSE IF i \in gone
                               THEN [NewRow(fields[i]) EXCEPT !["deletedAt"] = "set"]
                               ELSE NewRow(fields[i])]
  BY DEF Init
<1>2. \A i \in OldSpace \cup OldReview :
         NewRow(fields[i]) \in Row /\ [NewRow(fields[i]) EXCEPT !["deletedAt"] = "set"] \in Row
  <2>1. \A i \in OldSpace \cup OldReview : NewRow(fields[i]) \in Row
    BY NewRowIsRow
  <2>2. \A w \in Row : [w EXCEPT !["deletedAt"] = "set"] \in Row
    BY CatalogueAssumption, ColumnsOfRow DEF Row, Column
  <2> QED
    BY <2>1, <2>2
<1>3. \A i \in Item \ Request : i \in OldSpace \cup OldReview
  BY DEF Item, Space
<1>4. row \in [Item -> Row \cup {Absent}]
  BY <1>1, <1>2, <1>3
<1>5. TypeOK
  BY <1>4 DEF Init, TypeOK
<1>6. \A i \in Request : row[i] = Absent
  BY <1>1 DEF Item, Space
<1>7. DuplicatesExplained
  <2>1. \A i \in Item : Is(i, "reviews") => i \in OldReview
    BY <1>3, <1>6 DEF Is, TableOf
  <2> QED
    BY <2>1, CatalogueAssumption DEF DuplicatesExplained, About
<1> QED
  BY <1>5, <1>6, <1>7
     DEF Init, IInv, CopyDiscipline, DiffDiscipline, LateDiscipline, CheckFresh

LEMMA TypeStep == IInv /\ [Next]_vars => TypeOK'
<1> USE DEF IInv, TypeOK
<1> SUFFICES ASSUME IInv, [Next]_vars PROVE TypeOK'
  OBVIOUS
<1>1. ASSUME NEW r \in Request, Check(r)
      PROVE  TypeOK'
  BY <1>1 DEF Check, Goto, Statement, Reply
<1>2. ASSUME NEW r \in Request, Creation(r)
      PROVE  TypeOK'
  <2>1. unsure' \in SUBSET Request
    BY <1>2 DEF Creation, CreateSpace, Insert
  <2> QED
    BY <1>2, <2>1, CreationAdds DEF Reply
<1>3. ASSUME NEW r \in Request, Read(r)
      PROVE  TypeOK'
  <2>1. CASE FoundFor(r)
    <3>1. call[r].dto \in PatchDto /\ row[call[r].item] \in Row
      BY <1>3, <2>1, CallFields, FoundIsRow DEF Read
    <3> QED
      BY <1>3, <2>1, <3>1, PatchedRow DEF Read, Goto, Statement, Reply
  <2>2. CASE ~FoundFor(r)
    BY <1>3, <2>2 DEF Read, Goto, Statement, Reply
  <2> QED
    BY <2>1, <2>2
<1>4. ASSUME NEW r \in Request, Reload(r)
      PROVE  TypeOK'
  BY <1>4 DEF Reload, Goto, Statement, Reply
<1>5. ASSUME NEW r \in Request, Update(r)
      PROVE  TypeOK'
  <2>1. call[r].item \in Item
    BY <1>5, UpdatedRow
  <2>2. PICK new \in Row : Change(r, call[r].item, new)
    BY <1>5, UpdatedRow
  <2>3. revived' \in SUBSET Item
    BY <1>5, <2>1 DEF Update
  <2> QED
    BY <1>5, <2>1, <2>2, <2>3 DEF Update, Change, Goto, Statement, Reply
<1>6. ASSUME NEW r \in Request, Look(r)
      PROVE  TypeOK'
  BY <1>6 DEF Look, Goto, Statement, Reply
<1>7. ASSUME NEW r \in Request, Delete(r)
      PROVE  TypeOK'
  <2>1. call[r].item \in Item
    BY <1>7, DeletedRow
  <2>2. PICK new \in Row : Change(r, call[r].item, new)
    BY <1>7, DeletedRow
  <2> QED
    BY <1>7, <2>1, <2>2 DEF Delete, Change, Goto, Statement, Reply
<1>8. ASSUME NEW r \in Request, InsertRejected(r)
      PROVE  TypeOK'
  BY <1>8 DEF InsertRejected, Goto, Reply
<1>9. CASE UNCHANGED vars
  BY <1>9 DEF vars
<1> QED
  BY <1>1, <1>2, <1>3, <1>4, <1>5, <1>6, <1>7, <1>8, <1>9 DEF Next, Handle, Quiet, Creation

\* A row of the table stays a row of the table.
LEMMA RowsStay ==
    ASSUME IInv, [Next]_vars, NEW i \in Item, row[i] \in Row
    PROVE  row'[i] \in Row
<1> USE DEF IInv, TypeOK
<1>1. ASSUME NEW r \in Request, Creation(r)
      PROVE  row'[i] \in Row
  BY <1>1, CreationAdds
<1>2. ASSUME NEW r \in Request, Update(r)
      PROVE  row'[i] \in Row
  <2>1. PICK new \in Row : Change(r, call[r].item, new)
    BY <1>2, UpdatedRow
  <2> QED
    BY <2>1 DEF Change
<1>3. ASSUME NEW r \in Request, Delete(r)
      PROVE  row'[i] \in Row
  <2>1. PICK new \in Row : Change(r, call[r].item, new)
    BY <1>3, DeletedRow
  <2> QED
    BY <2>1 DEF Change
<1>4. CASE UNCHANGED row
  BY <1>4
<1> QED
  BY <1>1, <1>2, <1>3, <1>4
     DEF Next, Handle, vars, Creation, Check, InsertRejected, Read, Reload, Look, Quiet

LEMMA AbsentIsNoRow == Absent \notin Row
BY DEF Absent, Row, Column

\* An item comes to be with the answer to its creation.
LEMMA AbsentStays ==
    ASSUME IInv, [Next]_vars, NEW i \in Item, row[i] = Absent,
           i \in Request => pc'[i] # "created"
    PROVE  row'[i] = Absent
<1> USE DEF IInv, TypeOK
<1>1. ASSUME NEW r \in Request, Creation(r)
      PROVE  row'[i] = Absent
  BY <1>1, CreationAdds
<1>2. ASSUME NEW r \in Request, Update(r)
      PROVE  row'[i] = Absent
  <2>1. row[call[r].item] \in Row
    BY <1>2 DEF Update, CopyDiscipline
  <2> QED
    BY <1>2, <2>1, AbsentIsNoRow DEF Update, Change
<1>3. ASSUME NEW r \in Request, Delete(r)
      PROVE  row'[i] = Absent
  <2>1. row[call[r].item] \in Row
    BY <1>3 DEF Delete, CopyDiscipline
  <2> QED
    BY <1>3, <2>1, AbsentIsNoRow DEF Delete, Change
<1>4. CASE UNCHANGED row
  BY <1>4
<1> QED
  BY <1>1, <1>2, <1>3, <1>4
     DEF Next, Handle, vars, Creation, Check, InsertRejected, Read, Reload, Look, Quiet

LEMMA CopyStep == IInv /\ [Next]_vars => CopyDiscipline'
<1> SUFFICES ASSUME IInv, [Next]_vars PROVE CopyDiscipline'
  OBVIOUS
<1>a. \A r \in Request : row[r] = Absent /\ pc'[r] # "created" => row'[r] = Absent
  BY AbsentStays DEF Item, Space
<1> USE DEF IInv, TypeOK, CopyDiscipline
<1>0. \A i \in Item : row[i] \in Row => row'[i] \in Row
  BY RowsStay
<1>1. \A q \in Request : call[q].kind \in {"patch", "remove"} => call[q].item \in Item
  BY CallFields
<1>2. call' = call
  BY DEF Next, Handle, vars, CreateSpace, Check, Insert, InsertRejected, Read, Reload, Update,
         Look, Delete, Quiet
<1>3. ASSUME NEW r \in Request, Check(r)
      PROVE  CopyDiscipline'
  BY <1>a, <1>0, <1>1, <1>2, <1>3, CallFields DEF Check, Goto, Creates
<1>4. ASSUME NEW r \in Request, Creation(r)
      PROVE  CopyDiscipline'
  BY <1>a, <1>0, <1>1, <1>2, <1>4, CreationAdds DEF Creates
<1>5. ASSUME NEW r \in Request, Read(r)
      PROVE  CopyDiscipline'
  <2>1. CASE FoundFor(r)
    <3>1. call[r].dto \in PatchDto /\ row[call[r].item] \in Row
      BY <1>5, <2>1, CallFields, FoundIsRow DEF Read
    <3>2. copy'[r] \in Row /\ \A q \in Request \ {r} : copy'[q] = copy[q]
      BY <1>5, <2>1, <3>1, PatchedRow DEF Read
    <3> QED
      BY <1>a, <1>0, <1>1, <1>2, <1>5, <2>1, <3>1, <3>2 DEF Read, Goto, Creates
  <2>2. CASE ~FoundFor(r)
    BY <1>a, <1>0, <1>1, <1>2, <1>5, <2>2 DEF Read, Goto, Creates
  <2> QED
    BY <2>1, <2>2
<1>6. ASSUME NEW r \in Request, Reload(r)
      PROVE  CopyDiscipline'
  BY <1>a, <1>0, <1>1, <1>2, <1>6 DEF Reload, Goto, Creates
<1>7. ASSUME NEW r \in Request, Update(r)
      PROVE  CopyDiscipline'
  BY <1>a, <1>0, <1>1, <1>2, <1>7 DEF Update, Goto, Creates
<1>8. ASSUME NEW r \in Request, Look(r)
      PROVE  CopyDiscipline'
  <2>1. FoundFor(r) => row[call[r].item] \in Row
    BY <1>8, FoundIsRow DEF Look
  <2> QED
    BY <1>a, <1>0, <1>1, <1>2, <1>8, <2>1 DEF Look, Goto, Creates
<1>9. ASSUME NEW r \in Request, Delete(r)
      PROVE  CopyDiscipline'
  BY <1>a, <1>0, <1>1, <1>2, <1>9 DEF Delete, Goto, Creates
<1>10. ASSUME NEW r \in Request, InsertRejected(r)
      PROVE  CopyDiscipline'
  BY <1>a, <1>0, <1>1, <1>2, <1>10 DEF InsertRejected, Goto, Creates
<1>11. CASE UNCHANGED vars
  BY <1>11 DEF vars, Creates
<1> QED
  BY <1>3, <1>4, <1>5, <1>6, <1>7, <1>8, <1>9, <1>10, <1>11
     DEF Next, Handle, Quiet, Creation

\* What a Change does to the copies of the row: it is noted where it will count.
LEMMA ChangeIsNoted ==
    ASSUME IInv, NEW r \in Request, NEW i \in Item, NEW new \in Row, Change(r, i, new),
           NEW q \in Request \ {r}, NEW c \in Column
    PROVE  /\ pc[q] = "reload" /\ copy[q][c] # row'[call[q].item][c] =>
                 c \in DOMAIN call[q].dto \/ c \in missed'[q]
           /\ pc[q] = "update" => missed'[q] = missed[q]
           /\ pc[q] = "update" /\ c \notin diff[q] /\ copy[q][c] # row'[call[q].item][c] =>
                 c \in late'[q]
<1> USE DEF IInv, TypeOK, Change, At
<1>1. pc[q] \in {"reload", "update"} => call[q].item \in Item
  BY CallFields DEF CopyDiscipline
<1>2. CASE call[q].item # i
  BY <1>1, <1>2 DEF DiffDiscipline, LateDiscipline
<1>3. CASE call[q].item = i
  <2>1. row'[i] = new
    OBVIOUS
  <2>2. CASE pc[q] = "reload"
    <3>1. missed'[q] = missed[q] \cup {d \in Column : row[i][d] # new[d]}
      BY <1>3, <2>2
    <3> QED
      BY <1>3, <2>1, <2>2, <3>1 DEF DiffDiscipline
  <2>3. CASE pc[q] = "update"
    <3>1. late'[q] = late[q] \cup {d \in Column : row[i][d] # new[d]}
      BY <1>3, <2>3
    <3>2. missed'[q] = missed[q]
      BY <2>3
    <3> QED
      BY <1>3, <2>1, <2>3, <3>1, <3>2 DEF LateDiscipline
  <2> QED
    BY <2>2, <2>3
<1> QED
  BY <1>2, <1>3

LEMMA DiffStep == IInv /\ [Next]_vars => DiffDiscipline' /\ LateDiscipline'
<1> SUFFICES ASSUME IInv, [Next]_vars PROVE DiffDiscipline' /\ LateDiscipline'
  OBVIOUS
<1> USE DEF IInv, TypeOK
<1>1. ASSUME NEW r \in Request, Creation(r)
      PROVE  DiffDiscipline' /\ LateDiscipline'
  <2>1. \A q \in Request : pc[q] \in {"reload", "update"} =>
            call[q].item \in Item /\ call[q].item # r
    BY <1>1, CreationAdds, AbsentIsNoRow, CallFields DEF CopyDiscipline
  <2> QED
    BY <1>1, <2>1, CreationAdds DEF DiffDiscipline, LateDiscipline
<1>2. ASSUME NEW r \in Request, Read(r)
      PROVE  DiffDiscipline' /\ LateDiscipline'
  <2>1. CASE FoundFor(r)
    <3>1. \A c \in Column : copy'[r][c] # row[call[r].item][c] => c \in DOMAIN call[r].dto
      BY <1>2, <2>1 DEF Read
    <3>2. \A q \in Request \ {r} : copy'[q] = copy[q]
      BY <1>2, <2>1 DEF Read
    <3> QED
      BY <1>2, <2>1, <3>1, <3>2 DEF Read, Goto, DiffDiscipline, LateDiscipline
  <2>2. CASE ~FoundFor(r)
    BY <1>2, <2>2 DEF Read, Goto, DiffDiscipline, LateDiscipline
  <2> QED
    BY <2>1, <2>2
<1>3. ASSUME NEW r \in Request, Reload(r)
      PROVE  DiffDiscipline' /\ LateDiscipline'
  BY <1>3 DEF Reload, Goto, DiffDiscipline, LateDiscipline
<1>4. ASSUME NEW r \in Request, Update(r) \/ Delete(r)
      PROVE  DiffDiscipline' /\ LateDiscipline'
  <2>1. PICK new \in Row : Change(r, call[r].item, new)
    BY <1>4, UpdatedRow, DeletedRow
  <2>2. call[r].item \in Item
    BY <1>4, UpdatedRow, DeletedRow
  <2>3. \A q \in Request \ {r}, c \in Column :
           /\ pc[q] = "reload" /\ copy[q][c] # row'[call[q].item][c] =>
                 c \in DOMAIN call[q].dto \/ c \in missed'[q]
           /\ pc[q] = "update" => missed'[q] = missed[q]
           /\ pc[q] = "update" /\ c \notin diff[q] /\ copy[q][c] # row'[call[q].item][c] =>
                 c \in late'[q]
    BY <2>1, <2>2, ChangeIsNoted
  <2>4. pc'[r] \notin {"reload", "update"} /\ \A q \in Request \ {r} : pc'[q] = pc[q]
    BY <1>4 DEF Update, Delete, Goto
  <2>5. UNCHANGED <<call, copy, diff>>
    BY <1>4 DEF Update, Delete
  <2> HIDE DEF IInv, TypeOK
  <2>6. DiffDiscipline
    BY DEF IInv
  <2> QED
    BY <2>3, <2>4, <2>5, <2>6 DEF DiffDiscipline, LateDiscipline
<1>5. ASSUME NEW r \in Request, Check(r) \/ Look(r) \/ InsertRejected(r)
      PROVE  DiffDiscipline' /\ LateDiscipline'
  BY <1>5 DEF Check, Look, InsertRejected, Goto, DiffDiscipline, LateDiscipline
<1>6. CASE UNCHANGED vars
  BY <1>6 DEF vars, DiffDiscipline, LateDiscipline
<1> QED
  BY <1>1, <1>2, <1>3, <1>4, <1>5, <1>6 DEF Next, Handle, Quiet, Creation

-----------------------------------------------------------------------------
\* A request moves by its own steps only.
LEMMA OwnSteps ==
    ASSUME TypeOK, [Next]_vars, NEW r \in Request, pc'[r] # pc[r]
    PROVE  Handle(r)
<1>1. ASSUME NEW q \in Request, Handle(q)
      PROVE  \E to : pc' = [pc EXCEPT ![q] = to]
  BY <1>1 DEF Handle, CreateSpace, Check, Insert, InsertRejected, Read, Reload, Update, Look, Delete, Goto
<1>2. ASSUME NEW q \in Request, Handle(q)
      PROVE  q = r
  BY <1>1, <1>2 DEF TypeOK
<1> QED
  BY <1>2 DEF Next, Quiet, vars

\* What no step takes back.
LEMMA Lasting ==
    ASSUME IInv, [Next]_vars
    PROVE  /\ call' = call
           /\ unsure \subseteq unsure'
           /\ revived \subseteq revived'
           /\ \A i \in Item : About(i)' = About(i) /\ TableOf(i)' = TableOf(i)
<1>1. call' = call
  BY DEF Next, Handle, vars, CreateSpace, Check, Insert, InsertRejected, Read, Reload, Update,
         Look, Delete, Quiet
<1>2. unsure \subseteq unsure' /\ revived \subseteq revived'
  BY DEF Next, Handle, vars, CreateSpace, Check, Insert, InsertRejected, Read, Reload, Update,
         Look, Delete, Quiet
<1> QED
  BY <1>1, <1>2 DEF About, TableOf

LEMMA LiveIsThere ==
    ASSUME NEW i, Live(i)
    PROVE  row[i] # Absent
BY DEF Live, Absent, Column

\* An item that comes to life is a new one or one that a save brings back.
LEMMA ComesToLife ==
    ASSUME IInv, [Next]_vars, NEW i \in Item, ~Live(i), Live(i)'
    PROVE  \/ i \in revived'
           \/ i \in Request /\ Creation(i)
<1> USE DEF IInv, TypeOK
<1>1. ASSUME NEW r \in Request, Creation(r)
      PROVE  i = r
  BY <1>1, CreationAdds DEF Live
<1>2. ASSUME NEW r \in Request, Update(r)
      PROVE  i \in revived'
  <2> DEFINE j == call[r].item
             new == [c \in Column |-> IF c \in diff[r] THEN copy[r][c] ELSE row[j][c]]
  <2>1. Change(r, j, new) /\ revived' = revived \cup {k \in {j} : ~Live(k) /\ new["deletedAt"] = "null"}
    BY <1>2 DEF Update
  <2>2. i = j /\ row'[i] = new
    <3> HIDE DEF new
    <3> QED
      BY <2>1 DEF Change, Live
  <2> QED
    BY <2>1, <2>2 DEF Live
<1>3. ASSUME NEW r \in Request, Delete(r)
      PROVE  FALSE
  <2>1. PICK new \in Row : Change(r, call[r].item, new) /\ new["deletedAt"] = "set"
    BY <1>3, DeletedRow
  <2> QED
    BY <2>1 DEF Change, Live
<1>4. CASE UNCHANGED row
  BY <1>4 DEF Live
<1> QED
  BY <1>1, <1>2, <1>3, <1>4
     DEF Next, Handle, vars, Creation, Check, InsertRejected, Read, Reload, Look, Quiet

\* A review that comes to life is one that a save brings back or an inserted one.
LEMMA ReviewComesToLife ==
    ASSUME IInv, [Next]_vars, NEW i \in Item, ~Live(i), Live(i)', TableOf(i) = "reviews"
    PROVE  \/ i \in revived'
           \/ i \in Request /\ Insert(i)
<1>1. ASSUME i \in Request, CreateSpace(i)
      PROVE  FALSE
  BY <1>1, CatalogueAssumption DEF CreateSpace, Creates, TableOf
<1> QED
  BY <1>1, ComesToLife DEF Creation

LEMMA FreshStep == IInv /\ [Next]_vars => CheckFresh'
<1> SUFFICES ASSUME IInv, [Next]_vars,
                    NEW r \in Request, NEW j \in Item,
                    pc'[r] = "insert", r \notin unsure',
                    Is(j, "reviews")', Live(j)', About(j)' = About(r)'
             PROVE  j \in revived'
  BY DEF CheckFresh
<1> USE DEF IInv, TypeOK
<1>0. r \in Item /\ r \notin unsure /\ About(j) = About(r) /\ TableOf(j) = "reviews"
  BY Lasting DEF Item, Space, Is
<1>1. CASE pc[r] = "insert"
  <2>1. CASE Live(j)
    BY <1>0, <1>1, <2>1, Lasting, LiveIsThere DEF CheckFresh, Is
  <2>2. CASE ~Live(j)
    <3>1. CASE j \in Request /\ Insert(j)
      <4>1. j # r
        BY <1>1, <3>1 DEF Insert, Goto
      <4> QED
        BY <1>0, <1>1, <3>1, <4>1 DEF Insert
    <3> QED
      BY <1>0, <2>2, <3>1, ReviewComesToLife
  <2> QED
    BY <2>1, <2>2
<1>2. CASE pc[r] # "insert"
  <2>1. Check(r) /\ Seen(r) = {}
    <3>1. Handle(r)
      BY <1>2, OwnSteps
    <3> QED
      BY <1>2, <3>1 DEF Handle, CreateSpace, Check, Insert, InsertRejected, Read, Reload, Update,
                        Look, Delete, Goto
  <2>2. SpaceLive(r)
    BY <2>1 DEF Check
  <2>3. ~Live(j)
    BY <1>0, <2>1, <2>2, LiveIsThere DEF Seen, Is
  <2> QED
    BY <2>1, <2>3 DEF Check, Live
<1> QED
  BY <1>1, <1>2

LEMMA DuplicatesStep == IInv /\ [Next]_vars => DuplicatesExplained'
<1> SUFFICES ASSUME IInv, [Next]_vars,
                    NEW i \in Item, NEW j \in Item, i # j,
                    \A k \in {i, j} : Is(k, "reviews")' /\ Live(k)',
                    About(i)' = About(j)'
             PROVE  {i, j} \cap (unsure' \cup revived') # {}
  BY DEF DuplicatesExplained
<1> USE DEF IInv, TypeOK
<1>1. About(i) = About(j) /\ TableOf(i) = "reviews" /\ TableOf(j) = "reviews"
  BY Lasting DEF Is
<1>2. CASE Live(i) /\ Live(j)
  BY <1>1, <1>2, Lasting, LiveIsThere DEF DuplicatesExplained, Is
<1>3. ASSUME NEW k \in {i, j}, k \in Request, Insert(k)
      PROVE  {i, j} \cap (unsure' \cup revived') # {}
  <2>1. PICK l \in {i, j} : l # k
    OBVIOUS
  <2>2. Live(l) /\ Is(l, "reviews")
    BY <1>1, <1>3, <2>1, LiveIsThere DEF Insert, Live, Is
  <2>3. pc[k] = "insert" /\ About(l) = About(k)
    BY <1>1, <1>3, <2>1 DEF Insert
  <2>4. k \in unsure \/ l \in revived
    BY <1>3, <2>2, <2>3 DEF CheckFresh
  <2> QED
    BY <2>4, Lasting
<1>4. CASE ~(Live(i) /\ Live(j))
  BY <1>1, <1>3, <1>4, ReviewComesToLife
<1> QED
  BY <1>2, <1>4

-----------------------------------------------------------------------------
\* The inductive invariant holds.
THEOREM InvariantHolds == Spec => []IInv
<1>1. Init => IInv
  BY InitInvariant
<1>2. IInv /\ [Next]_vars => IInv'
  BY TypeStep, CopyStep, DiffStep, FreshStep, DuplicatesStep DEF IInv
<1> QED
  BY <1>1, <1>2, PTL DEF Spec

\* The variables keep their types.
THEOREM TypeCorrect == Spec => []TypeOK
<1>1. IInv => TypeOK
  BY DEF IInv
<1> QED
  BY <1>1, InvariantHolds, PTL

\* Two live reviews of one user and space have one of the three reasons.
THEOREM DuplicatesAlwaysExplained == Spec => []DuplicatesExplained
<1>1. IInv => DuplicatesExplained
  BY DEF IInv
<1> QED
  BY <1>1, InvariantHolds, PTL

\* A save writes only the fields of its dto and what it missed.
THEOREM OnlyStaleCopies == Spec => OnlyStaleCopiesOverwrite
<1> DEFINE Step == \A r \in Request : Update(r) =>
                     \A c \in Column :
                       row'[call[r].item][c] # row[call[r].item][c] =>
                         call[r].kind = "patch" /\ (c \in DOMAIN call[r].dto \/ c \in missed[r])
<1>1. IInv => Step
  <2> SUFFICES ASSUME IInv, NEW r \in Request, Update(r), NEW c \in Column,
                      row'[call[r].item][c] # row[call[r].item][c]
               PROVE  call[r].kind = "patch" /\ (c \in DOMAIN call[r].dto \/ c \in missed[r])
    OBVIOUS
  <2>1. call[r].item \in Item /\ call[r].kind = "patch"
    BY UpdatedRow DEF IInv, CopyDiscipline, Update
  <2>2. c \in diff[r]
    BY <2>1 DEF IInv, TypeOK, Update, Change
  <2> QED
    BY <2>1, <2>2 DEF IInv, DiffDiscipline, Update
<1>2. IInv => [Step]_vars
  BY <1>1
<1> QED
  BY <1>2, InvariantHolds, PTL DEF OnlyStaleCopiesOverwrite

\* A PATCH answers with the row its save left, but for what changed late.
THEOREM AnswersAreRows == Spec => AnswerIsRow
<1> DEFINE Step == \A r \in Request : pc[r] # "patched" /\ pc'[r] = "patched" =>
                     \A c \in Column : copy[r][c] = row'[call[r].item][c] \/ c \in late[r]
<1>1. IInv /\ [Next]_vars => Step
  <2> SUFFICES ASSUME IInv, [Next]_vars, NEW r \in Request, pc[r] # "patched", pc'[r] = "patched",
                      NEW c \in Column
               PROVE  copy[r][c] = row'[call[r].item][c] \/ c \in late[r]
    OBVIOUS
  <2>1. Reload(r) \/ Update(r)
    <3>1. Handle(r)
      BY OwnSteps DEF IInv
    <3> QED
      BY <3>1 DEF Handle, CreateSpace, Check, Insert, InsertRejected, Read, Reload, Update,
                  Look, Delete, Goto, IInv, TypeOK
  <2>2. CASE Reload(r)
    BY <2>2 DEF Reload, Goto, IInv, TypeOK
  <2>3. CASE Update(r)
    <3>1. call[r].item \in Item
      BY <2>3, UpdatedRow DEF IInv
    <3> QED
      BY <2>3, <3>1 DEF IInv, TypeOK, LateDiscipline, Update, Change
  <2> QED
    BY <2>1, <2>2, <2>3
<1>2. IInv /\ [Next]_vars => [Step]_vars
  BY <1>1
<1> QED
  BY <1>2, InvariantHolds, PTL DEF Spec, AnswerIsRow
=============================================================================
