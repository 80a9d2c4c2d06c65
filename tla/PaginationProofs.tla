-------------------------- MODULE PaginationProofs --------------------------
(***************************************************************************)
(* Proofs about Pagination, for tables and pages of every size: what a     *)
(* client is served in which order, and what it has been served when it    *)
(* comes to the end.                                                       *)
(***************************************************************************)
EXTENDS Pagination, FiniteSetTheorems, TLAPS

\* What the client asked for.
Asked == order \in {"ASC", "DESC"}

LEMMA SomeIds ==
    ASSUME NEW S \in SUBSET Id
    PROVE  IsFiniteSet(S) /\ Cardinality(S) \in Nat
<1>1. IsFiniteSet(Id)
  BY FS_Interval, BoundAssumption DEF Id
<1>2. IsFiniteSet(S)
  BY <1>1, FS_Subset
<1> QED BY <1>2, FS_CardinalityType

\* Rows come in one order.
LEMMA OneOrder ==
    ASSUME Asked
    PROVE  /\ \A i \in Id : ~Before(i, i)
           /\ \A i, j \in Id : i # j => Before(i, j) \/ Before(j, i)
           /\ \A i, j \in Id : Before(i, j) => ~Before(j, i)
           /\ \A i, j, k \in Id : Before(i, j) /\ Before(j, k) => Before(i, k)
  BY BoundAssumption DEF Asked, Before, Id

\* Ranks count from zero and grow along the order.
LEMMA Ranks ==
    ASSUME Asked, NEW S \in SUBSET Id
    PROVE  /\ \A i \in S : Rank(S, i) \in Nat /\ Rank(S, i) < Cardinality(S)
           /\ \A i, j \in S : Before(i, j) => Rank(S, i) < Rank(S, j)
<1> DEFINE Earlier(i) == {j \in S : Before(j, i)}
<1>1. ASSUME NEW A \in SUBSET S, NEW B \in SUBSET A, NEW x \in A, x \notin B
      PROVE  /\ Cardinality(A) \in Nat /\ Cardinality(B) \in Nat
             /\ Cardinality(B) < Cardinality(A)
  <2>1. IsFiniteSet(A) /\ Cardinality(A) \in Nat /\ Cardinality(B) \in Nat
    BY SomeIds
  <2>2. Cardinality(B) =< Cardinality(A) /\ (Cardinality(A) = Cardinality(B) => A = B)
    BY <2>1, FS_Subset
  <2> QED BY <1>1, <2>1, <2>2
<1>2. ASSUME NEW i \in S
      PROVE  Rank(S, i) \in Nat /\ Rank(S, i) < Cardinality(S)
  <2>1. Earlier(i) \in SUBSET S /\ i \notin Earlier(i)
    BY OneOrder
  <2>2. Cardinality(Earlier(i)) \in Nat /\ Cardinality(Earlier(i)) < Cardinality(S)
    BY <1>1, <2>1
  <2> QED BY <2>2 DEF Rank
<1>3. ASSUME NEW i \in S, NEW j \in S, Before(i, j)
      PROVE  Rank(S, i) < Rank(S, j)
  <2>1. i \in Earlier(j) /\ i \notin Earlier(i)
    BY <1>3, OneOrder
  <2>2. Earlier(i) \in SUBSET Earlier(j)
    BY <1>3, OneOrder
  <2>3. Earlier(j) \in SUBSET S
    OBVIOUS
  <2>4. Cardinality(Earlier(i)) < Cardinality(Earlier(j))
    BY <1>1, <2>1, <2>2, <2>3
  <2> QED BY <2>4 DEF Rank
<1> QED BY <1>2, <1>3

\* Every number below the size of S is the rank of one of its rows.
LEMMA EveryRank ==
    ASSUME Asked, NEW S \in SUBSET Id, NEW k \in 1 .. Cardinality(S)
    PROVE  \E i \in S : Rank(S, i) = k - 1
<1> DEFINE D == 1 .. Cardinality(S)
           f == [i \in S |-> Rank(S, i) + 1]
<1>1. IsFiniteSet(S) /\ Cardinality(S) \in Nat
  BY SomeIds
<1>2. IsFiniteSet(D) /\ Cardinality(D) = Cardinality(S)
  <2>1. 1 \in Int /\ Cardinality(S) \in Int /\ (1 > Cardinality(S) => Cardinality(S) = 0)
    BY <1>1
  <2> QED BY <2>1, FS_Interval
<1>3. f \in [S -> D]
  BY <1>1, Ranks
<1>4. \A i, j \in S : f[i] = f[j] => i = j
  <2> SUFFICES ASSUME NEW i \in S, NEW j \in S, f[i] = f[j], i # j
               PROVE  FALSE
    OBVIOUS
  <2>1. Rank(S, i) = Rank(S, j)
    BY Ranks
  <2>2. Before(i, j) \/ Before(j, i)
    BY OneOrder
  <2> QED BY <2>1, <2>2, Ranks
<1>5. f \in Injection(S, D)
  BY <1>3, <1>4 DEF Injection, IsInjective
<1>6. f \in Surjection(S, D)
  <2> HIDE DEF f, D
  <2> QED BY <1>2, <1>5, FS_Injection
<1>7. \E i \in S : f[i] = k
  BY <1>6 DEF Surjection
<1>8. PICK i \in S : f[i] = k
  BY <1>7
<1>9. Rank(S, i) = k - 1
  BY <1>8, Ranks
<1> QED BY <1>9

\* The rows of a query, each once, in the order asked for.
LEMMA SortedRows ==
    ASSUME Asked, NEW S \in SUBSET Id
    PROVE  /\ Sorted(S) \in Seq(S)
           /\ Len(Sorted(S)) = Cardinality(S)
           /\ \A k \in 1 .. Cardinality(S) : Sorted(S)[k] \in S
           /\ \A k, n \in 1 .. Cardinality(S) : k < n => Before(Sorted(S)[k], Sorted(S)[n])
           /\ \A i \in S : \E k \in 1 .. Cardinality(S) : Sorted(S)[k] = i
<1>1. Cardinality(S) \in Nat
  BY SomeIds
<1>2. ASSUME NEW k \in 1 .. Cardinality(S)
      PROVE  Sorted(S)[k] \in S /\ Rank(S, Sorted(S)[k]) = k - 1
  <2>1. \E i \in S : Rank(S, i) = k - 1
    BY EveryRank
  <2>2. Sorted(S)[k] = CHOOSE i \in S : Rank(S, i) = k - 1
    BY DEF Sorted
  <2> QED BY <2>1, <2>2
<1>3. Sorted(S) \in Seq(S) /\ Len(Sorted(S)) = Cardinality(S)
  <2>1. Sorted(S) \in [1 .. Cardinality(S) -> S]
    BY <1>2 DEF Sorted
  <2> QED BY <1>1, <2>1
<1>4. ASSUME NEW k \in 1 .. Cardinality(S), NEW n \in 1 .. Cardinality(S), k < n
      PROVE  Before(Sorted(S)[k], Sorted(S)[n])
  <2> DEFINE i == Sorted(S)[k]
             j == Sorted(S)[n]
  <2>1. i \in S /\ j \in S /\ Rank(S, i) = k - 1 /\ Rank(S, j) = n - 1
    BY <1>2
  <2> HIDE DEF i, j
  <2>2. i # j /\ ~Before(j, i)
    BY <1>1, <1>4, <2>1, Ranks
  <2>3. Before(i, j)
    BY <2>1, <2>2, OneOrder
  <2> QED BY <2>3 DEF i, j
<1>5. ASSUME NEW i \in S
      PROVE  \E k \in 1 .. Cardinality(S) : Sorted(S)[k] = i
  <2>1. Rank(S, i) \in Nat /\ Rank(S, i) < Cardinality(S)
    BY Ranks
  <2>2. PICK k \in 1 .. Cardinality(S) : k = Rank(S, i) + 1
    BY <1>1, <2>1
  <2> DEFINE j == Sorted(S)[k]
  <2>3. j \in S /\ Rank(S, j) = Rank(S, i)
    BY <1>1, <1>2, <2>1, <2>2
  <2> HIDE DEF j
  <2>4. i = j
    BY <2>1, <2>3, OneOrder, Ranks
  <2> QED BY <2>4 DEF j
<1> QED BY <1>2, <1>3, <1>4, <1>5

-----------------------------------------------------------------------------
\* What a request is answered with.

LEMMA FoundRows ==
    ASSUME NEW f \in Filter
    PROVE  Found(f) \in SUBSET Id /\ Cardinality(Found(f)) \in Nat
<1>1. Found(f) \in SUBSET Id
  BY DEF Found, There
<1> QED BY <1>1, SomeIds

\* The answer to a request: the chosen ids that the query still finds, in order.
LEMMA RowsOfPage ==
    ASSUME Asked, filter \in Filter
    PROVE  /\ Rows \in Seq(Id)
           /\ ToSet(Rows) = chosen \cap Found(filter)
           /\ Len(Rows) = Cardinality(chosen \cap Found(filter))
           /\ \A k, n \in 1 .. Len(Rows) : k < n => Before(Rows[k], Rows[n])
<1> DEFINE S == chosen \cap Found(filter)
<1>1. S \in SUBSET Id
  BY FoundRows
<1>2. Cardinality(S) \in Nat
  BY <1>1, SomeIds
<1>3. Rows = Sorted(S)
  BY DEF Rows
<1> HIDE DEF S
<1>4. /\ Sorted(S) \in Seq(S) /\ Len(Sorted(S)) = Cardinality(S)
      /\ \A k \in 1 .. Cardinality(S) : Sorted(S)[k] \in S
      /\ \A k, n \in 1 .. Cardinality(S) : k < n => Before(Sorted(S)[k], Sorted(S)[n])
      /\ \A i \in S : \E k \in 1 .. Cardinality(S) : Sorted(S)[k] = i
  BY <1>1, SortedRows
<1> DEFINE rows == Sorted(S)
<1>5. rows \in Seq(Id) /\ DOMAIN rows = 1 .. Cardinality(S)
  <2> HIDE DEF rows
  <2>1. rows \in Seq(S) /\ Len(rows) = Cardinality(S)
    BY <1>4 DEF rows
  <2> QED BY <1>1, <2>1
<1>6. ToSet(rows) = S
  BY <1>4, <1>5 DEF ToSet
<1> QED BY <1>3, <1>4, <1>5, <1>6 DEF S

\* The rows of the first n pages.
Upto(f, n) == {i \in Found(f) : Rank(Found(f), i) < Take * n}

LEMMA Pages ==
    ASSUME NEW n \in Nat \ {0}
    PROVE  /\ Take * n \in Nat /\ Take * (n - 1) \in Nat
           /\ Take * n = Take * (n - 1) + Take
<1>1. Take \in Nat \ {0}
  BY BoundAssumption
<1> QED BY <1>1

\* The n-th page goes on where the one before ended.
LEMMA NextPage ==
    ASSUME Asked, NEW f \in Filter, NEW n \in Nat \ {0}
    PROVE  /\ Upto(f, n) = Upto(f, n - 1) \cup PageIds(f, n)
           /\ Cardinality(Upto(f, n)) =
                 Cardinality(Upto(f, n - 1)) + Cardinality(PageIds(f, n))
<1> DEFINE A == Upto(f, n - 1)
           B == PageIds(f, n)
<1>1. Found(f) \in SUBSET Id
  BY FoundRows
<1>2. /\ Take \in Nat \ {0}
      /\ Take * n \in Nat /\ Take * (n - 1) \in Nat /\ Take * n = Take * (n - 1) + Take
  BY Pages, BoundAssumption
<1>3. \A i \in Found(f) : Rank(Found(f), i) \in Nat
  BY <1>1, Ranks
<1>4. ASSUME NEW i \in Found(f)
      PROVE  /\ i \in Upto(f, n) <=> i \in A \/ i \in B
             /\ ~(i \in A /\ i \in B)
  <2> DEFINE r == Rank(Found(f), i)
             low == Take * (n - 1)
             high == Take * n
  <2>1. /\ i \in Upto(f, n) <=> r < high
        /\ i \in A <=> r < low
        /\ i \in B <=> r \in low .. high - 1
    BY DEF Upto, PageIds
  <2>2. r \in Nat /\ low \in Nat /\ high \in Nat /\ high = low + Take /\ Take \in Nat
    BY <1>2, <1>3
  <2> HIDE DEF r, low, high
  <2> QED BY <2>1, <2>2
<1>5. Upto(f, n) \in SUBSET Found(f) /\ A \in SUBSET Found(f) /\ B \in SUBSET Found(f)
  BY DEF Upto, PageIds
<1> HIDE DEF A, B
<1>6. Upto(f, n) = A \cup B /\ A \cap B = {}
  BY <1>4, <1>5
<1>7. /\ IsFiniteSet(A) /\ Cardinality(A) \in Nat
      /\ IsFiniteSet(B) /\ Cardinality(B) \in Nat
  BY <1>1, <1>5, SomeIds
<1>8. Cardinality(A \cup B) = Cardinality(A) + Cardinality(B)
  BY <1>6, <1>7, FS_Union, FS_EmptySet
<1> QED BY <1>6, <1>8 DEF A, B

\* A row that is found and not on the first page comes after all of that page,
\* and the page is full.
LEMMA FirstPageIsFirst ==
    ASSUME Asked, NEW f \in Filter, NEW i \in Found(f), i \notin PageIds(f, 1)
    PROVE  /\ Cardinality(PageIds(f, 1)) = Take
           /\ \A j \in PageIds(f, 1) : Before(j, i)
<1> DEFINE S == Found(f)
           P == PageIds(f, 1)
<1>1. S \in SUBSET Id /\ Cardinality(S) \in Nat
  BY FoundRows
<1>2. Take \in Nat \ {0}
  BY BoundAssumption
<1>3. Take * (1 - 1) = 0 /\ Take * 1 = Take
  BY <1>2
<1>4. P = {j \in S : Rank(S, j) \in 0 .. Take - 1}
  BY <1>3 DEF PageIds
<1> HIDE DEF S, P
<1>5. /\ \A j \in S : Rank(S, j) \in Nat /\ Rank(S, j) < Cardinality(S)
      /\ \A j, k \in S : Before(j, k) => Rank(S, j) < Rank(S, k)
  BY <1>1, Ranks
<1>6. \A j \in S : j \in P <=> Rank(S, j) < Take
  BY <1>2, <1>4, <1>5
<1>7. i \in S /\ Rank(S, i) >= Take
  <2>1. i \in S /\ i \notin P
    BY DEF S, P
  <2> QED BY <1>2, <1>5, <1>6, <2>1
<1>8. ASSUME NEW j \in P
      PROVE  Before(j, i)
  <2>1. j \in S /\ Rank(S, j) < Take
    BY <1>4, <1>6
  <2>2. i # j /\ ~Before(i, j)
    BY <1>2, <1>5, <1>7, <2>1
  <2> QED BY <1>1, <1>7, <2>1, <2>2, OneOrder
<1>9. PICK m \in S : Rank(S, m) = Take
  <2> DEFINE k == Take + 1
  <2>1. k \in 1 .. Cardinality(S) /\ k - 1 = Take
    BY <1>1, <1>2, <1>5, <1>7
  <2> HIDE DEF k
  <2>2. \E m \in S : Rank(S, m) = k - 1
    BY <1>1, <2>1, EveryRank
  <2> QED BY <2>1, <2>2
<1>10. P = {j \in S : Before(j, m)}
  <2>1. ASSUME NEW j \in S
        PROVE  j \in P <=> Before(j, m)
    <3>1. Before(j, m) => Rank(S, j) < Take
      BY <1>5, <1>9
    <3>2. Before(m, j) => ~(Rank(S, j) < Take)
      BY <1>2, <1>5, <1>9
    <3>3. j = m => ~(Rank(S, j) < Take) /\ ~Before(j, m)
      BY <1>1, <1>2, <1>9, OneOrder
    <3> QED BY <1>1, <1>6, <3>1, <3>2, <3>3, OneOrder
  <2> QED BY <1>4, <2>1
<1>11. Cardinality(P) = Take
  BY <1>9, <1>10 DEF Rank
<1> QED BY <1>8, <1>11 DEF P

LEMMA DivisionRoundsDown ==
    ASSUME NEW c \in Nat, NEW t \in Nat \ {0}
    PROVE  c \div t \in Int /\ c < t * (c \div t) + t
OBVIOUS

\* Who has read totalPage pages has read every row.
LEMMA PagesAreEnough ==
    ASSUME Asked, NEW f \in Filter, NEW n \in Nat \ {0}, ~(n < TotalPage(f))
    PROVE  Upto(f, n) = Found(f)
<1> DEFINE N == Cardinality(Found(f))
           q == (N + Take - 1) \div Take
<1>1. Take \in Nat \ {0} /\ N \in Nat
  BY BoundAssumption, FoundRows
<1>2. q \in Int /\ n >= q
  BY <1>1 DEF TotalPage
<1>3. N + Take - 1 < Take * q + Take
  <2>1. N + Take - 1 \in Nat
    BY <1>1
  <2> QED BY <1>1, <2>1, DivisionRoundsDown
<1>4. \A i \in Found(f) : Rank(Found(f), i) \in Nat /\ Rank(Found(f), i) < N
  BY FoundRows, Ranks
<1> HIDE DEF N, q
<1>5. Take * n >= Take * q
  BY <1>1, <1>2
<1>6. Take * n \in Nat /\ Take * q \in Int
  BY <1>1, <1>2
<1>7. Take * n >= N
  BY <1>1, <1>3, <1>5, <1>6
<1>8. \A i \in Found(f) : Rank(Found(f), i) < Take * n
  BY <1>1, <1>4, <1>6, <1>7
<1> QED BY <1>8 DEF Upto

-----------------------------------------------------------------------------
\* The invariant.

\* A row that was there all the time is there.
StableThere == stable \subseteq There

\* A request that has begun ends; a cursor reader skips and counts nothing.
RequestUnderWay ==
    /\ step # "ids" => reading
    /\ kind = "cursor" => step # "count" /\ page = 1

\* A stable row that the client asked for and was not served.
Missing(i) == Passes(first, i) /\ i \notin ToSet(served)

\* While a cursor reader goes on, the filter is the client's own until a row is
\* served and then leads on from the last one; every missing stable row is still to
\* be found.  A page that is under way was chosen by this filter, and a missing row
\* that is not on it comes after all of it.
CursorDiscipline ==
    kind = "cursor" /\ ~overrides =>
        /\ reading => /\ filter = IF served = <<>> THEN first ELSE Cursor(Last(served))
                      /\ \A i \in stable : Missing(i) => Passes(filter, i)
        /\ step = "rows" =>
              /\ \A c \in chosen : Passes(filter, c)
              /\ \A i \in stable : Missing(i) /\ i \notin chosen =>
                    Cardinality(chosen) = Take /\ \A c \in chosen : Before(c, i)

\* How many pages have been read.
PagesRead == IF step = "count" THEN page ELSE page - 1

\* A page reader keeps the client's filter; while nothing changes it has been
\* served the rows of the query up to the page it is at, each once, and all of them
\* at the end.
PageDiscipline ==
    kind = "page" =>
        /\ filter = first
        /\ quiet => /\ step = "rows" => chosen = PageIds(first, page)
                    /\ ToSet(served) = Upto(first, PagesRead)
                    /\ Len(served) = Cardinality(Upto(first, PagesRead))
        /\ quiet /\ ~reading => Upto(first, PagesRead) = Found(first)

IInv == /\ TypeOK /\ StableThere /\ RequestUnderWay
        /\ CursorDiscipline /\ ServedInOrder /\ StableRowsServed
        /\ PageDiscipline

LEMMA TypeStep == TypeOK /\ [Next]_vars => TypeOK'
<1> SUFFICES ASSUME TypeOK, [Next]_vars
             PROVE  TypeOK'
  OBVIOUS
<1> USE DEF TypeOK
<1>1. Asked
  BY DEF Asked
<1>2. Rows \in Seq(Id)
  BY <1>1, RowsOfPage
<1>3. CASE SelectIds
  <2>1. PageIds(filter, page) \in SUBSET Id
    BY FoundRows DEF PageIds
  <2> QED BY <1>3, <2>1 DEF SelectIds
<1>4. CASE ReadCursor
  <2>1. Take \in Nat \ {0}
    BY BoundAssumption
  <2>2. ASSUME Len(Rows) = Take
        PROVE  Cursor(Last(Rows)) \in Filter
    <3>1. Last(Rows) \in Id
      BY <1>2, <2>1, <2>2 DEF Last
    <3> QED BY <3>1 DEF Cursor, Filter
  <2>3. /\ served' = served \o Rows
        /\ reading' = (Len(Rows) = Take)
        /\ filter' = IF Len(Rows) = Take THEN Cursor(Last(Rows)) ELSE filter
        /\ step' = "ids"
        /\ UNCHANGED <<row, kind, overrides, order, first, page, chosen, stable, quiet>>
    BY <1>4 DEF ReadCursor
  <2> QED BY <1>2, <2>2, <2>3
<1>5. CASE ReadPage
  BY <1>2, <1>5 DEF ReadPage
<1>6. CASE CountRows
  <2>1. TotalPage(filter) \in Int
    <3>1. Take \in Nat \ {0} /\ Cardinality(Found(filter)) \in Nat
      BY BoundAssumption, FoundRows
    <3>2. Cardinality(Found(filter)) + Take - 1 \in Nat
      BY <3>1
    <3> QED BY <3>1, <3>2, DivisionRoundsDown DEF TotalPage
  <2>2. reading' \in BOOLEAN
    BY <1>6, <2>1 DEF CountRows
  <2>3. page' \in Nat \ {0}
    BY <1>6 DEF CountRows
  <2>4. /\ step' = "ids"
        /\ UNCHANGED <<row, kind, overrides, order, first, filter, chosen, served, stable,
                       quiet>>
    BY <1>6 DEF CountRows
  <2> QED BY <2>2, <2>3, <2>4
<1>7. ASSUME NEW i \in Id, InsertRow(i) \/ EndInsert(i) \/ RemoveRow(i)
      PROVE  TypeOK'
  BY <1>7 DEF InsertRow, EndInsert, RemoveRow, RowState, Reader
<1>8. CASE Quiet \/ UNCHANGED vars
  BY <1>8 DEF Quiet, vars
<1> QED BY <1>3, <1>4, <1>5, <1>6, <1>7, <1>8 DEF Next, Read

LEMMA InitTyped == Init => TypeOK
<1> SUFFICES ASSUME Init
             PROVE  TypeOK
  OBVIOUS
<1>1. row \in [Id -> RowState] /\ stable \in SUBSET Id
  BY DEF Init, RowState, There
<1>2. filter \in Filter /\ page \in Nat \ {0} /\ served \in Seq(Id)
  BY DEF Init
<1> QED BY <1>1, <1>2 DEF Init, TypeOK

\* The variables keep their types, whatever the table does between the requests of
\* paginate and however long the client reads.
THEOREM TypeCorrect == Spec => []TypeOK
BY InitTyped, TypeStep, PTL DEF Spec

\* What a query finds depends on the rows that are there and on the request.
LEMMA SameAnswers ==
    ASSUME There' = There, UNCHANGED <<overrides, order, first>>
    PROVE  /\ Found(first)' = Found(first)
           /\ \A n \in Nat : /\ Upto(first, n)' = Upto(first, n)
                             /\ PageIds(first, n)' = PageIds(first, n)
<1>1. Found(first)' = Found(first)
  BY DEF Found
<1>2. ASSUME NEW S, NEW i
      PROVE  Rank(S, i)' = Rank(S, i)
  BY DEF Rank, Before
<1> QED BY <1>1, <1>2 DEF Upto, PageIds

\* What happens to the table between two statements of the reader: stable rows
\* become fewer at most, and the list is quiet only if nothing came or went.
LEMMA TableStep ==
    ASSUME TypeOK, StableThere,
           NEW i \in Id, InsertRow(i) \/ EndInsert(i) \/ RemoveRow(i)
    PROVE  /\ UNCHANGED Reader
           /\ stable' \subseteq stable
           /\ stable' \subseteq There'
           /\ quiet' => quiet /\ There' = There
<1> USE DEF TypeOK, StableThere, There
<1>1. CASE InsertRow(i)
  BY <1>1 DEF InsertRow
<1>2. CASE EndInsert(i)
  BY <1>2 DEF EndInsert
<1>3. CASE RemoveRow(i)
  BY <1>3 DEF RemoveRow
<1> QED BY <1>1, <1>2, <1>3

LEMMA TableKeeps ==
    ASSUME IInv, NEW i \in Id, InsertRow(i) \/ EndInsert(i) \/ RemoveRow(i)
    PROVE  /\ StableThere' /\ RequestUnderWay'
           /\ CursorDiscipline' /\ ServedInOrder' /\ StableRowsServed'
           /\ PageDiscipline'
<1>1. /\ UNCHANGED <<kind, overrides, order, first, filter, page, step, chosen, served,
                     reading>>
      /\ stable' \subseteq stable /\ stable' \subseteq There'
      /\ quiet' => quiet /\ There' = There
  BY TableStep DEF IInv, Reader
<1>2. StableThere'
  BY <1>1 DEF StableThere
<1>3. RequestUnderWay'
  BY <1>1 DEF IInv, RequestUnderWay
<1>4. CursorDiscipline'
  BY <1>1 DEF IInv, CursorDiscipline, Cursor, Passes, Missing, Before
<1>5. ServedInOrder'
  BY <1>1 DEF IInv, ServedInOrder, Before
<1>6. StableRowsServed'
  BY <1>1 DEF IInv, StableRowsServed, Passes, Before
<1>7. PageDiscipline'
  <2>1. ASSUME quiet'
        PROVE  /\ Found(first)' = Found(first)
               /\ \A n \in Nat : /\ Upto(first, n)' = Upto(first, n)
                                 /\ PageIds(first, n)' = PageIds(first, n)
    BY <1>1, <2>1, SameAnswers
  <2>2. PagesRead' = PagesRead /\ PagesRead \in Nat /\ page \in Nat
    BY <1>1 DEF IInv, TypeOK, PagesRead
  <2>3. ASSUME quiet'
        PROVE  /\ Upto(first, PagesRead)' = Upto(first, PagesRead)
               /\ PageIds(first, page)' = PageIds(first, page)
               /\ Found(first)' = Found(first)
    BY <1>1, <2>1, <2>2, <2>3 DEF Upto, PageIds
  <2> QED BY <1>1, <2>3 DEF IInv, PageDiscipline
<1> QED BY <1>2, <1>3, <1>4, <1>5, <1>6, <1>7

\* What a client has been served with one more page.
LEMMA OnePageMore ==
    ASSUME NEW s \in Seq(Id), NEW t \in Seq(Id)
    PROVE  /\ s \o t \in Seq(Id)
           /\ ToSet(s \o t) = ToSet(s) \cup ToSet(t)
           /\ Len(s \o t) = Len(s) + Len(t)
           /\ \A k \in 1 .. Len(s) : (s \o t)[k] = s[k]
           /\ \A k \in 1 .. Len(t) : (s \o t)[Len(s) + k] = t[k]
<1> DEFINE u == s \o t
<1>1. /\ u \in Seq(Id)
      /\ Len(u) = Len(s) + Len(t)
      /\ \A k \in 1 .. Len(s) : u[k] = s[k]
      /\ \A k \in 1 .. Len(t) : u[Len(s) + k] = t[k]
  OBVIOUS
<1> HIDE DEF u
<1>2. ASSUME NEW v \in Seq(Id), NEW i
      PROVE  i \in ToSet(v) <=> \E k \in 1 .. Len(v) : v[k] = i
  <2>1. DOMAIN v = 1 .. Len(v)
    OBVIOUS
  <2> QED BY <2>1, Zenon DEF ToSet
<1>3. Len(s) \in Nat /\ Len(t) \in Nat
  OBVIOUS
<1>4. ASSUME NEW i \in ToSet(u)
      PROVE  i \in ToSet(s) \cup ToSet(t)
  <2>1. PICK k \in 1 .. Len(u) : u[k] = i
    BY <1>1, <1>2
  <2>2. CASE k =< Len(s)
    BY <1>1, <1>2, <1>3, <2>1, <2>2
  <2>3. CASE k > Len(s)
    <3>1. k - Len(s) \in 1 .. Len(t) /\ k = Len(s) + (k - Len(s))
      BY <1>1, <1>3, <2>1, <2>3
    <3>2. t[k - Len(s)] = i
      BY <1>1, <2>1, <3>1
    <3> QED BY <1>2, <3>1, <3>2
  <2> QED BY <1>3, <2>1, <2>2, <2>3
<1>5. ASSUME NEW i \in ToSet(s)
      PROVE  i \in ToSet(u)
  <2>1. PICK k \in 1 .. Len(s) : s[k] = i
    BY <1>2
  <2>2. k \in 1 .. Len(u) /\ u[k] = i
    BY <1>1, <1>3, <2>1
  <2> QED BY <1>1, <1>2, <2>2
<1>6. ASSUME NEW i \in ToSet(t)
      PROVE  i \in ToSet(u)
  <2>1. PICK k \in 1 .. Len(t) : t[k] = i
    BY <1>2
  <2>2. Len(s) + k \in 1 .. Len(u) /\ u[Len(s) + k] = i
    BY <1>1, <1>3, <2>1
  <2> QED BY <1>1, <1>2, <2>2
<1>7. ToSet(u) = ToSet(s) \cup ToSet(t)
  BY <1>4, <1>5, <1>6
<1> QED BY <1>1, <1>7 DEF u

\* The first statement of a request.
LEMMA SelectKeeps ==
    ASSUME IInv, SelectIds
    PROVE  /\ StableThere' /\ RequestUnderWay'
           /\ CursorDiscipline' /\ ServedInOrder' /\ StableRowsServed'
           /\ PageDiscipline'
<1>1. /\ Asked /\ filter \in Filter /\ stable \subseteq There /\ page \in Nat
  BY DEF IInv, TypeOK, StableThere, Asked
<1>2. /\ reading /\ step = "ids" /\ step' = "rows"
      /\ chosen' = PageIds(filter, page)
      /\ UNCHANGED <<row, kind, overrides, order, first, filter, page, served, reading,
                     stable, quiet>>
  BY DEF SelectIds, GoesOn
<1>3. StableThere' /\ RequestUnderWay'
  BY <1>2 DEF IInv, StableThere, There, RequestUnderWay
<1>4. ServedInOrder' /\ StableRowsServed'
  BY <1>2 DEF IInv, ServedInOrder, StableRowsServed, Before, Passes
<1>5. CursorDiscipline'
  <2> SUFFICES ASSUME kind = "cursor", ~overrides
               PROVE  /\ \A c \in chosen' : Passes(filter, c)
                      /\ \A i \in stable : Missing(i) /\ i \notin chosen' =>
                            Cardinality(chosen') = Take /\ \A c \in chosen' : Before(c, i)
    BY <1>2 DEF IInv, CursorDiscipline, Cursor, Passes, Missing, Before
  <2>1. chosen' = PageIds(filter, 1)
    BY <1>2 DEF IInv, RequestUnderWay
  <2>2. \A c \in chosen' : Passes(filter, c)
    BY <2>1 DEF PageIds, Found
  <2>3. ASSUME NEW i \in stable, Missing(i), i \notin chosen'
        PROVE  Cardinality(chosen') = Take /\ \A c \in chosen' : Before(c, i)
    <3>1. i \in Found(filter)
      BY <1>1, <1>2, <2>3 DEF IInv, CursorDiscipline, Found
    <3> QED BY <1>1, <2>1, <2>3, <3>1, FirstPageIsFirst
  <2> QED BY <2>2, <2>3
<1>6. PageDiscipline'
  <2>1. /\ Found(first)' = Found(first)
        /\ \A n \in Nat : /\ Upto(first, n)' = Upto(first, n)
                          /\ PageIds(first, n)' = PageIds(first, n)
    BY <1>2, SameAnswers DEF There
  <2>2. PagesRead' = PagesRead /\ PagesRead \in Nat
    BY <1>2 DEF IInv, TypeOK, PagesRead
  <2>3. /\ Upto(first, PagesRead)' = Upto(first, PagesRead)
        /\ PageIds(first, page)' = PageIds(first, page)
    BY <1>1, <1>2, <2>1, <2>2 DEF Upto, PageIds
  <2> QED BY <1>2, <2>1, <2>3 DEF IInv, PageDiscipline
<1> QED BY <1>3, <1>4, <1>5, <1>6

\* The second one of a cursor reader.
LEMMA CursorKeeps ==
    ASSUME IInv, ReadCursor
    PROVE  /\ StableThere' /\ RequestUnderWay'
           /\ CursorDiscipline' /\ ServedInOrder' /\ StableRowsServed'
           /\ PageDiscipline'
<1> DEFINE rows == Rows
<1>1. /\ Asked /\ Take \in Nat \ {0} /\ filter \in Filter /\ chosen \in SUBSET Id
      /\ served \in Seq(Id) /\ stable \subseteq There /\ stable \in SUBSET Id
  BY BoundAssumption DEF IInv, TypeOK, StableThere, Asked
<1>2. /\ kind = "cursor" /\ step = "rows" /\ step' = "ids" /\ reading
      /\ served' = served \o rows
      /\ reading' = (Len(rows) = Take)
      /\ filter' = IF Len(rows) = Take THEN Cursor(Last(rows)) ELSE filter
      /\ UNCHANGED <<row, kind, overrides, order, first, page, chosen, stable, quiet>>
  BY DEF ReadCursor, IInv, RequestUnderWay
<1>3. /\ rows \in Seq(Id)
      /\ ToSet(rows) = chosen \cap Found(filter)
      /\ Len(rows) = Cardinality(chosen \cap Found(filter))
      /\ \A k, n \in 1 .. Len(rows) : k < n => Before(rows[k], rows[n])
  BY <1>1, RowsOfPage
<1> HIDE DEF rows
<1>4. /\ served' \in Seq(Id)
      /\ ToSet(served') = ToSet(served) \cup ToSet(rows)
      /\ Len(served') = Len(served) + Len(rows)
      /\ \A k \in 1 .. Len(served) : served'[k] = served[k]
      /\ \A k \in 1 .. Len(rows) : served'[Len(served) + k] = rows[k]
  BY <1>1, <1>2, <1>3, OnePageMore
<1>5. StableThere' /\ RequestUnderWay'
  BY <1>1, <1>2 DEF IInv, StableThere, There, RequestUnderWay
<1>6. PageDiscipline'
  BY <1>2 DEF PageDiscipline
<1>7. CASE overrides
  BY <1>2, <1>5, <1>6, <1>7 DEF CursorDiscipline, ServedInOrder, StableRowsServed
<1>8. CASE ~overrides
  <2>1. /\ filter = IF served = <<>> THEN first ELSE Cursor(Last(served))
        /\ \A i \in stable : Missing(i) => Passes(filter, i)
        /\ \A c \in chosen : Passes(filter, c)
        /\ \A i \in stable : Missing(i) /\ i \notin chosen =>
              Cardinality(chosen) = Take /\ \A c \in chosen : Before(c, i)
    BY <1>2, <1>8 DEF IInv, CursorDiscipline
  \* The page comes after what was served before.
  <2>2. ASSUME NEW k \in 1 .. Len(served), NEW c \in chosen
        PROVE  Before(served[k], c)
    <3> DEFINE last == served[Len(served)]
    <3>1. Len(served) \in 1 .. Len(served) /\ served # <<>>
      BY <1>1
    <3>2. served[k] \in Id /\ last \in Id /\ c \in Id
      BY <1>1, <3>1
    <3>3. filter = Cursor(last)
      BY <2>1, <3>1 DEF Last
    <3>4. Before(last, c)
      BY <1>1, <2>1, <3>2, <3>3 DEF Passes, Cursor, Before, Asked
    <3>5. k = Len(served) \/ k < Len(served)
      BY <1>1
    <3>6. served[k] = last \/ Before(served[k], last)
      BY <1>2, <1>8, <3>1, <3>5 DEF IInv, ServedInOrder
    <3> HIDE DEF last
    <3> QED BY <1>1, <3>2, <3>4, <3>6, OneOrder
  \* A stable row that is missing after this page comes after all of it.
  <2>3. ASSUME NEW i \in stable, Passes(first, i), i \notin ToSet(served')
        PROVE  /\ Missing(i) /\ i \notin chosen
               /\ Cardinality(chosen) = Take /\ \A c \in chosen : Before(c, i)
    <3>1. Missing(i)
      BY <1>4, <2>3 DEF Missing
    <3>2. i \in Found(filter)
      BY <1>1, <2>1, <3>1 DEF Found
    <3>3. i \notin chosen
      BY <1>3, <1>4, <2>3, <3>2
    <3> QED BY <2>1, <3>1, <3>3
  <2>4. ASSUME Len(rows) = Take
        PROVE  /\ served' # <<>> /\ Last(served') = Last(rows)
               /\ Last(rows) \in chosen
    <3>1. Take \in 1 .. Len(rows) /\ Last(rows) = rows[Take]
      BY <1>1, <1>3, <2>4 DEF Last
    <3>2. Len(served') = Len(served) + Take /\ Len(served) \in Nat
      BY <1>1, <1>4, <2>4
    <3>3. served' # <<>> /\ Last(served') = served'[Len(served) + Take]
      BY <1>1, <1>4, <3>2 DEF Last
    <3>4. served'[Len(served) + Take] = rows[Take]
      BY <1>4, <3>1
    <3>5. rows[Take] \in ToSet(rows)
      BY <1>3, <3>1 DEF ToSet
    <3> QED BY <1>3, <3>1, <3>3, <3>4, <3>5
  <2>5. CursorDiscipline'
    <3> SUFFICES ASSUME reading'
                 PROVE  /\ filter' = IF served' = <<>> THEN first ELSE Cursor(Last(served'))
                        /\ \A i \in stable : Passes(first, i) /\ i \notin ToSet(served') =>
                              Passes(filter', i)
      BY <1>2 DEF CursorDiscipline, Cursor, Passes, Missing
    <3>1. Len(rows) = Take /\ filter' = Cursor(Last(rows))
      BY <1>2
    <3>2. ASSUME NEW i \in stable, Passes(first, i), i \notin ToSet(served')
          PROVE  Passes(filter', i)
      <4>1. Before(Last(rows), i) /\ Last(rows) \in Id /\ i \in Id
        BY <1>1, <2>3, <2>4, <3>1, <3>2
      <4> QED BY <1>1, <3>1, <4>1 DEF Passes, Cursor, Before, Asked
    <3> QED BY <2>4, <3>1, <3>2
  <2>6. ServedInOrder'
    <3> SUFFICES ASSUME NEW k \in 1 .. Len(served'), NEW n \in 1 .. Len(served'), k < n
                 PROVE  Before(served'[k], served'[n])
      BY <1>2 DEF ServedInOrder, Before
    <3>1. CASE n =< Len(served)
      <4>1. k \in 1 .. Len(served) /\ n \in 1 .. Len(served)
        BY <1>1, <3>1
      <4> QED BY <1>2, <1>4, <1>8, <4>1 DEF IInv, ServedInOrder
    <3>2. CASE k > Len(served)
      <4>1. /\ k - Len(served) \in 1 .. Len(rows) /\ n - Len(served) \in 1 .. Len(rows)
            /\ k - Len(served) < n - Len(served)
            /\ k = Len(served) + (k - Len(served)) /\ n = Len(served) + (n - Len(served))
        BY <1>1, <1>3, <1>4, <3>2
      <4> QED BY <1>3, <1>4, <4>1
    <3>3. CASE k =< Len(served) /\ n > Len(served)
      <4>1. /\ k \in 1 .. Len(served) /\ n - Len(served) \in 1 .. Len(rows)
            /\ n = Len(served) + (n - Len(served))
        BY <1>1, <1>3, <1>4, <3>3
      <4>2. served'[k] = served[k] /\ served'[n] = rows[n - Len(served)]
        BY <1>4, <4>1
      <4>3. rows[n - Len(served)] \in ToSet(rows)
        BY <1>3, <4>1 DEF ToSet
      <4> QED BY <1>3, <2>2, <4>1, <4>2, <4>3
    <3> QED BY <1>1, <3>1, <3>2, <3>3
  <2>7. StableRowsServed'
    <3> SUFFICES ASSUME NEW i \in stable, Passes(first, i), i \notin ToSet(served')
                 PROVE  /\ \A j \in ToSet(served') : Before(j, i)
                        /\ reading' \/ ~(chosen \subseteq ToSet(served'))
      BY <1>2 DEF StableRowsServed, Passes, Before
    <3>1. /\ Missing(i) /\ i \notin chosen
          /\ Cardinality(chosen) = Take /\ \A c \in chosen : Before(c, i)
      BY <2>3
    <3>2. ASSUME NEW j \in ToSet(served')
          PROVE  Before(j, i)
      <4>1. CASE j \in ToSet(served)
        BY <1>2, <1>8, <3>1, <4>1 DEF IInv, StableRowsServed, Missing
      <4>2. CASE j \in ToSet(rows)
        BY <1>3, <3>1, <4>2
      <4> QED BY <1>4, <4>1, <4>2
    <3>3. ASSUME ~reading'
          PROVE  ~(chosen \subseteq ToSet(served'))
      <4>1. chosen \cap Found(filter) # chosen
        BY <1>2, <1>3, <3>1, <3>3
      <4>2. PICK c \in chosen : c \notin Found(filter)
        BY <4>1
      <4>3. c \notin ToSet(rows)
        BY <1>3, <4>2
      <4>4. c \notin ToSet(served)
        <5> SUFFICES ASSUME c \in ToSet(served)
                     PROVE  FALSE
          OBVIOUS
        <5>1. PICK k \in 1 .. Len(served) : served[k] = c
          BY <1>1 DEF ToSet
        <5> QED BY <1>1, <2>2, <5>1, OneOrder
      <4> QED BY <1>4, <4>2, <4>3, <4>4
    <3> QED BY <3>2, <3>3
  <2> QED BY <1>5, <1>6, <2>5, <2>6, <2>7
<1> QED BY <1>7, <1>8

\* The second one of a page reader.
LEMMA PageKeeps ==
    ASSUME IInv, ReadPage
    PROVE  /\ StableThere' /\ RequestUnderWay'
           /\ CursorDiscipline' /\ ServedInOrder' /\ StableRowsServed'
           /\ PageDiscipline'
<1> DEFINE rows == Rows
<1>1. /\ Asked /\ filter \in Filter /\ page \in Nat \ {0} /\ served \in Seq(Id)
      /\ first \in Filter
  BY DEF IInv, TypeOK, Asked
<1>2. /\ kind = "page" /\ step = "rows" /\ step' = "count" /\ reading
      /\ served' = served \o rows
      /\ UNCHANGED <<row, kind, overrides, order, first, filter, page, chosen, reading,
                     stable, quiet>>
  BY DEF ReadPage, IInv, RequestUnderWay
<1>3. /\ rows \in Seq(Id)
      /\ ToSet(rows) = chosen \cap Found(filter)
      /\ Len(rows) = Cardinality(chosen \cap Found(filter))
  BY <1>1, RowsOfPage
<1> HIDE DEF rows
<1>4. /\ ToSet(served') = ToSet(served) \cup ToSet(rows)
      /\ Len(served') = Len(served) + Len(rows)
  BY <1>1, <1>2, <1>3, OnePageMore
<1>5. /\ StableThere' /\ RequestUnderWay' /\ CursorDiscipline' /\ ServedInOrder'
      /\ StableRowsServed'
  BY <1>2 DEF IInv, StableThere, There, RequestUnderWay, CursorDiscipline, ServedInOrder,
              StableRowsServed
<1>6. filter = first /\ filter' = first'
  BY <1>2 DEF IInv, PageDiscipline
<1>7. Upto(first, PagesRead)' = Upto(first, page) /\ Found(first)' = Found(first)
  <2>1. There' = There
    BY <1>2 DEF There
  <2>2. Found(first)' = Found(first) /\ Upto(first, page)' = Upto(first, page)
    BY <1>1, <1>2, <2>1, SameAnswers DEF Upto
  <2> QED BY <1>2, <2>2 DEF Upto, PagesRead
<1>8. ASSUME quiet
      PROVE  /\ ToSet(served') = Upto(first, page)
             /\ Len(served') = Cardinality(Upto(first, page))
  <2>1. /\ chosen = PageIds(first, page)
        /\ ToSet(served) = Upto(first, page - 1)
        /\ Len(served) = Cardinality(Upto(first, page - 1))
    BY <1>2, <1>8 DEF IInv, PageDiscipline, PagesRead
  <2>2. chosen \cap Found(filter) = PageIds(first, page)
    BY <1>6, <2>1 DEF PageIds
  <2>3. /\ Upto(first, page) = Upto(first, page - 1) \cup PageIds(first, page)
        /\ Cardinality(Upto(first, page)) =
              Cardinality(Upto(first, page - 1)) + Cardinality(PageIds(first, page))
    BY <1>1, NextPage
  <2> QED BY <1>3, <1>4, <2>1, <2>2, <2>3
<1>9. PageDiscipline'
  BY <1>2, <1>6, <1>7, <1>8 DEF PageDiscipline
<1> QED BY <1>5, <1>9

\* The third one of a page reader.
LEMMA CountKeeps ==
    ASSUME IInv, CountRows
    PROVE  /\ StableThere' /\ RequestUnderWay'
           /\ CursorDiscipline' /\ ServedInOrder' /\ StableRowsServed'
           /\ PageDiscipline'
<1>1. /\ step = "count" /\ step' = "ids" /\ page' = page + 1
      /\ reading' = (page < TotalPage(filter))
      /\ UNCHANGED <<row, kind, overrides, order, first, filter, chosen, served, stable,
                     quiet>>
  BY DEF CountRows
<1>2. kind = "page" /\ kind' = "page"
  BY <1>1 DEF IInv, TypeOK, RequestUnderWay
<1>3. /\ StableThere' /\ RequestUnderWay' /\ CursorDiscipline' /\ ServedInOrder'
      /\ StableRowsServed'
  BY <1>1, <1>2 DEF IInv, StableThere, There, RequestUnderWay, CursorDiscipline,
                    ServedInOrder, StableRowsServed
<1>4. Asked /\ page \in Nat \ {0} /\ first \in Filter /\ filter = first
  BY <1>2 DEF IInv, TypeOK, PageDiscipline, Asked
<1>5. /\ PagesRead' = page /\ PagesRead = page
      /\ Found(first)' = Found(first)
      /\ Upto(first, PagesRead)' = Upto(first, PagesRead)
  <2>1. There' = There
    BY <1>1 DEF There
  <2>2. /\ Found(first)' = Found(first)
        /\ \A n \in Nat : Upto(first, n)' = Upto(first, n)
    BY <1>1, <2>1, SameAnswers
  <2>3. PagesRead' = page /\ PagesRead = page
    BY <1>1, <1>4 DEF PagesRead
  <2>4. Upto(first, PagesRead)' = Upto(first, PagesRead)
    BY <1>1, <1>4, <2>2, <2>3 DEF Upto
  <2> QED BY <2>2, <2>3, <2>4
<1>6. ASSUME ~reading'
      PROVE  Upto(first, PagesRead) = Found(first)
  BY <1>1, <1>4, <1>5, <1>6, PagesAreEnough
<1>7. PageDiscipline'
  BY <1>1, <1>2, <1>4, <1>5, <1>6 DEF IInv, PageDiscipline
<1> QED BY <1>3, <1>7

-----------------------------------------------------------------------------
\* The theorems.

\* Every step of a client and of the table keeps the invariant.
THEOREM InvariantHolds == Spec => []IInv
<1>1. Init => IInv
  <2> SUFFICES ASSUME Init
               PROVE  IInv
    OBVIOUS
  <2>1. TypeOK
    BY InitTyped
  <2>2. StableThere /\ RequestUnderWay /\ CursorDiscipline /\ ServedInOrder
    BY DEF Init, StableThere, RequestUnderWay, CursorDiscipline, ServedInOrder, Missing
  <2>3. StableRowsServed
    BY DEF Init, StableRowsServed, ToSet
  <2>4. Upto(first, 0) = {} /\ Cardinality({}) = 0
    <3>1. Take * 0 = 0 /\ Found(first) \in SUBSET Id /\ Asked
      BY <2>1, BoundAssumption, FoundRows DEF TypeOK, Asked
    <3>2. \A i \in Found(first) : Rank(Found(first), i) \in Nat
      BY <3>1, Ranks
    <3> QED BY <3>1, <3>2, FS_EmptySet DEF Upto
  <2>5. PageDiscipline
    <3>1. /\ filter = first /\ quiet /\ reading /\ step = "ids" /\ page = 1
          /\ served = <<>>
      BY DEF Init
    <3>2. PagesRead = 0
      BY <3>1 DEF PagesRead
    <3>3. ToSet(served) = {} /\ Len(served) = 0
      BY <3>1 DEF ToSet
    <3> QED BY <2>4, <3>1, <3>2, <3>3 DEF PageDiscipline
  <2> QED BY <2>1, <2>2, <2>3, <2>5 DEF IInv
<1>2. IInv /\ [Next]_vars => IInv'
  <2> SUFFICES ASSUME IInv, [Next]_vars
               PROVE  IInv'
    OBVIOUS
  <2>1. TypeOK'
    BY TypeStep DEF IInv
  <2>2. CASE SelectIds
    BY <2>1, <2>2, SelectKeeps DEF IInv
  <2>3. CASE ReadCursor
    BY <2>1, <2>3, CursorKeeps DEF IInv
  <2>4. CASE ReadPage
    BY <2>1, <2>4, PageKeeps DEF IInv
  <2>5. CASE CountRows
    BY <2>1, <2>5, CountKeeps DEF IInv
  <2>6. CASE \E i \in Id : InsertRow(i) \/ EndInsert(i) \/ RemoveRow(i)
    BY <2>1, <2>6, TableKeeps DEF IInv
  <2>7. CASE Quiet \/ UNCHANGED vars
    <3>1. UNCHANGED vars
      BY <2>7 DEF Quiet
    <3>2. There' = There /\ PagesRead' = PagesRead
      BY <3>1 DEF vars, There, PagesRead
    <3>3. /\ Found(first)' = Found(first)
          /\ Upto(first, PagesRead)' = Upto(first, PagesRead)
          /\ PageIds(first, page)' = PageIds(first, page)
      BY <3>1, <3>2 DEF vars, Upto, PageIds, Found, Passes, Rank, Before
    <3>4. /\ StableThere' /\ RequestUnderWay' /\ CursorDiscipline' /\ ServedInOrder'
          /\ StableRowsServed'
      BY <3>1 DEF IInv, vars, StableThere, There, RequestUnderWay, CursorDiscipline, Cursor,
                  Missing, Passes, ServedInOrder, Before, StableRowsServed
    <3>5. PageDiscipline'
      BY <3>1, <3>3 DEF IInv, vars, PageDiscipline
    <3> QED BY <2>1, <3>4, <3>5 DEF IInv
  <2> QED BY <2>2, <2>3, <2>4, <2>5, <2>6, <2>7 DEF Next, Read
<1> QED BY <1>1, <1>2, PTL DEF Spec

\* A reader who follows the next links of paginate gets every row at most once
\* and in the order he asked for, for tables and pages of every size and whatever
\* is inserted, committed late or removed between his requests.
THEOREM AlwaysServedInOrder == Spec => []ServedInOrder
<1>1. IInv => ServedInOrder
  BY DEF IInv
<1> QED BY <1>1, InvariantHolds, PTL

\* What a reader of the next links of paginate misses of the rows that stay is the
\* tail after his last row, and nothing at the end unless a row of his last page
\* was removed between the statement that chose it and the one that read it.
THEOREM OnlyATailIsMissed == Spec => []StableRowsServed
<1>1. IInv => StableRowsServed
  BY DEF IInv
<1> QED BY <1>1, InvariantHolds, PTL

\* The pages that hasNextPage leads to are a partition of a table that does not
\* change: every row of the query is on one of them, and on one only.
THEOREM PagesAlwaysPartition == Spec => []PagesPartition
<1>1. IInv => PagesPartition
  <2> SUFFICES ASSUME IInv, kind = "page", quiet, ~reading
               PROVE  /\ ToSet(served) = Found(first)
                      /\ Len(served) = Cardinality(Found(first))
    BY DEF PagesPartition
  <2>1. Upto(first, PagesRead) = Found(first)
    BY DEF IInv, PageDiscipline
  <2> QED BY <2>1 DEF IInv, PageDiscipline
<1> QED BY <1>1, InvariantHolds, PTL
=============================================================================
