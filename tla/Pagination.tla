----------------------------- MODULE Pagination -----------------------------
(***************************************************************************)
(* CommonService.paginate: a client reads a list page by page while the    *)
(* table changes under it.                                                 *)
(*                                                                         *)
(* A cursor reader follows the next link of each answer; a page reader     *)
(* asks for page 1, 2, ... as long as hasNextPage says so.  Ids come from  *)
(* the sequence of the table when a row is inserted and the row is seen    *)
(* when its transaction commits, so rows need not appear in the order of   *)
(* their ids.  Rows are removed by setting deletedAt.                      *)
(*                                                                         *)
(* Every list joins relations, so TypeORM reads a page in two statements:  *)
(* one selects the ids of the page with LIMIT and OFFSET, the next the     *)
(* rows with these ids that still match; findAndCount counts in a third.   *)
(***************************************************************************)
EXTENDS Integers, FiniteSets, SequencesExt

CONSTANTS MaxId,     \* bound on the ids the table hands out
          Take,      \* rows on a page
          MaxServed  \* bound on the rows a reader is looked at for

Id == 1 .. MaxId

ASSUME BoundAssumption == {MaxId, Take, MaxServed} \subseteq Nat \ {0}

\* The filter on id of a request.  Two of them would write the same key of the
\* where object and leave the later one, so a request has one or none.
NoFilter == [op |-> "none", id |-> 1]
Filter == {NoFilter} \cup [op : {"more_than", "less_than"}, id : Id]

VARIABLES row,       \* what became of each id: unused, pending, there, gone
          kind,      \* "cursor" or "page", how the client reads
          overrides, \* the service passes a where of its own (a USER's lists)
          order,     \* order__id of the request
          first,     \* the filter of the first request
          filter,    \* the filter of the next request
          page,      \* the page of the next request
          step,      \* the statement the request sends next: ids, rows or count
          chosen,    \* the ids that the page was selected by last
          served,    \* the ids served so far, in the order they came
          reading,   \* there is a next request to make
          stable,    \* rows that have been there since the first request
          quiet      \* no row came or went since the first request

vars == <<row, kind, overrides, order, first, filter, page, step, chosen, served,
          reading, stable, quiet>>

RowState == {"unused", "pending", "there", "gone"}

TypeOK == /\ row \in [Id -> RowState]
          /\ kind \in {"cursor", "page"}
          /\ overrides \in BOOLEAN
          /\ order \in {"ASC", "DESC"}
          /\ first \in Filter /\ filter \in Filter
          /\ page \in Nat \ {0}
          /\ step \in {"ids", "rows", "count"}
          /\ chosen \in SUBSET Id
          /\ served \in Seq(Id)
          /\ reading \in BOOLEAN
          /\ stable \in SUBSET Id
          /\ quiet \in BOOLEAN

-----------------------------------------------------------------------------
There == {i \in Id : row[i] = "there"}

\* Mutant: the bound itself passes.
PassesBound(f, i) == CASE f.op = "more_than" -> i >= f.id
                       [] f.op = "less_than" -> i =< f.id
                       [] OTHER              -> TRUE

Passes(f, i) == CASE f.op = "more_than" -> i > f.id
                  [] f.op = "less_than" -> i < f.id
                  [] OTHER              -> TRUE

\* The rows a query finds.  A where in the override options replaces the one
\* that was parsed from the request, cursor and all.
Found(f) == {i \in There : overrides \/ Passes(f, i)}

Before(i, j) == IF order = "ASC" THEN i < j ELSE i > j

\* How many rows of S come before i.
Rank(S, i) == Cardinality({j \in S : Before(j, i)})

\* The rows of a query in the order of the request: the k-th has k - 1 before it.
Sorted(S) == [k \in 1 .. Cardinality(S) |-> CHOOSE i \in S : Rank(S, i) = k - 1]

\* skip and take: the ids of the n-th page.
PageIds(f, n) == {i \in Found(f) : Rank(Found(f), i) \in Take * (n - 1) .. Take * n - 1}

\* The rows of the page: those of the chosen ids that the query still finds.
Rows == Sorted(chosen \cap Found(filter))

\* Math.ceil(count / take).
TotalPage(f) == (Cardinality(Found(f)) + Take - 1) \div Take

\* Mutants: the comparison of the other order; the row after the last one; the
\* filter of this request once more.
OtherCursor(last) == [op |-> IF order = "ASC" THEN "less_than" ELSE "more_than", id |-> last]
CursorPast(last) == [op |-> IF order = "ASC" THEN "more_than" ELSE "less_than", id |-> last + 1]
SameFilter(last) == filter

\* The filter of the next link: the cursor replaces both filters on id.
Cursor(last) == [op |-> IF order = "ASC" THEN "more_than" ELSE "less_than", id |-> last]

-----------------------------------------------------------------------------
Init == /\ row \in [Id -> {"unused", "there"}]
        /\ \A i, j \in Id : i < j /\ row[j] = "there" => row[i] = "there"
        /\ kind \in {"cursor", "page"}
        /\ overrides \in BOOLEAN
        /\ order \in {"ASC", "DESC"}
        /\ first \in Filter /\ filter = first
        /\ page = 1
        /\ step = "ids" /\ chosen = {}
        /\ served = <<>>
        /\ reading = TRUE
        /\ stable = There
        /\ quiet = TRUE

\* The bound can only stop a reader whose cursors are ignored.
GoesOn == reading /\ Len(served) < MaxServed

\* A request begins.  A cursor reader is at its first page after every link.
SelectIds ==
    /\ GoesOn /\ step = "ids"
    /\ chosen' = PageIds(filter, page)
    /\ step' = "rows"
    /\ UNCHANGED <<row, kind, overrides, order, first, filter, page, served, reading,
                   stable, quiet>>

\* The answer to a cursor reader.  A full page comes with a next link.
ReadCursor ==
    /\ kind = "cursor" /\ step = "rows"
    /\ step' = "ids"
    /\ LET full == Len(Rows) = Take
       IN  /\ served' = served \o Rows
           /\ reading' = full
           /\ filter' = IF full THEN Cursor(Last(Rows)) ELSE filter
    /\ UNCHANGED <<row, kind, overrides, order, first, page, chosen, stable, quiet>>

\* A page reader's rows, whose number is not known yet.
ReadPage ==
    /\ kind = "page" /\ step = "rows"
    /\ step' = "count"
    /\ served' = served \o Rows
    /\ UNCHANGED <<row, kind, overrides, order, first, filter, page, chosen, reading,
                   stable, quiet>>

\* Mutant: there is a next page only if there are two.
CountRowsShort ==
    /\ step = "count"
    /\ step' = "ids"
    /\ reading' = (page + 1 < TotalPage(filter))
    /\ page' = page + 1
    /\ UNCHANGED <<row, kind, overrides, order, first, filter, chosen, served, stable,
                   quiet>>

\* hasNextPage decides whether the client asks for one page more.
CountRows ==
    /\ step = "count"
    /\ step' = "ids"
    /\ reading' = (page < TotalPage(filter))
    /\ page' = page + 1
    /\ UNCHANGED <<row, kind, overrides, order, first, filter, chosen, served, stable,
                   quiet>>

Reader == <<kind, overrides, order, first, filter, page, step, chosen, served, reading>>

\* A transaction inserts a row: the sequence gives it the next id.
InsertRow(i) == /\ row[i] = "unused"
                /\ \A j \in Id : j < i => row[j] # "unused"
                /\ row' = [row EXCEPT ![i] = "pending"]
                /\ UNCHANGED <<Reader, stable, quiet>>

\* It commits, or its id is lost.
EndInsert(i) == /\ row[i] = "pending"
                /\ \E end \in {"there", "gone"} : row' = [row EXCEPT ![i] = end]
                /\ quiet' = FALSE
                /\ UNCHANGED <<Reader, stable>>

RemoveRow(i) == /\ row[i] = "there"
                /\ row' = [row EXCEPT ![i] = "gone"]
                /\ stable' = stable \ {i}
                /\ quiet' = FALSE
                /\ UNCHANGED Reader

-----------------------------------------------------------------------------
Read == SelectIds \/ ReadCursor \/ ReadPage \/ CountRows

\* Nothing more is asked for.
Quiet == ~GoesOn /\ step = "ids" /\ UNCHANGED vars

Next == Read \/ (\E i \in Id : InsertRow(i) \/ EndInsert(i) \/ RemoveRow(i)) \/ Quiet

Spec == Init /\ [][Next]_vars

\* The client goes on reading.
FairSpec == Spec /\ WF_vars(Read)

-----------------------------------------------------------------------------
\* Safety.

\* A cursor reader gets every row at most once and in the order it asked for,
\* whatever is inserted, committed late or removed while it reads.
ServedInOrder ==
    kind = "cursor" /\ ~overrides =>
        \A k, n \in 1 .. Len(served) : k < n => Before(served[k], served[n])

\* What a cursor reader misses of the rows that match its first request and are
\* there all the time is a tail: every one that comes before a row it was served
\* was served too.  At the end it misses none, unless a row of its last page was
\* removed between the two statements: such a page is short, so it has no next
\* link, whatever comes after it.
StableRowsServed ==
    kind = "cursor" /\ ~overrides =>
        \A i \in stable :
            Passes(first, i) /\ i \notin ToSet(served) =>
                /\ \A j \in ToSet(served) : Before(j, i)
                /\ reading \/ ~(chosen \subseteq ToSet(served))

\* A page reader of a table that does not change gets every matching row once.
PagesPartition ==
    kind = "page" /\ quiet /\ ~reading =>
        /\ ToSet(served) = Found(first)
        /\ Len(served) = Cardinality(Found(first))

\* Liveness: a reader comes to an end, unless a service with a where of its own
\* answers every cursor with the first page.
ReaderFinishes == overrides \/ <>(~reading)
=============================================================================
