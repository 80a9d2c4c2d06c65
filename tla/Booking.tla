------------------------------ MODULE Booking ------------------------------
(***************************************************************************)
(* POST /reservations/:spaceId as PostgreSQL sees it: one transaction of   *)
(* the TransactionInterceptor per call around                              *)
(* ReservationsService.createReservation, running beside the other calls   *)
(* and beside POST, DELETE and PATCH of /spaces.                           *)
(*                                                                         *)
(* A step of this module is one statement sent to the database, because    *)
(* the handler gives up the event loop at every await and the other        *)
(* requests run there.  Row locks are not a variable: which rows a         *)
(* transaction has locked follows from how far it is.                      *)
(***************************************************************************)
EXTENDS Integers, FiniteSets

CONSTANTS Request,   \* the calls to POST /reservations/:spaceId
          Space,     \* the ids of spaces
          Call,      \* the bodies and paths the calls may have
          PoolSize   \* connections of the pg pool

ASSUME CallAssumption == Call \subseteq [space : Space, start : Int, end : Int]
ASSUME PoolAssumption == PoolSize \in Nat \ {0}

VARIABLES space,     \* the spaces table: absent, live or soft-deleted rows
          patching,  \* spaces of which a PATCH /spaces call holds a live copy
          call,      \* what each request asks for
          pc,        \* the statement each request sends next, or its reply
          guarded,   \* requests whose locking read returned the space row
          booked     \* requests whose reservations row is committed

vars == <<space, patching, call, pc, guarded, booked>>

SpaceState == {"absent", "live", "deleted"}

Statement == {"lock", "check", "save", "commit", "refuse", "abort"}

Reply == {"created", "refused", "failed"}

TypeOK == /\ space \in [Space -> SpaceState]
          /\ patching \in SUBSET Space
          /\ call \in [Request -> Call]
          /\ pc \in [Request -> {"idle"} \cup Statement \cup Reply]
          /\ guarded \in SUBSET Request
          /\ booked \in SUBSET Request

-----------------------------------------------------------------------------
\* Connections and locks.

\* Mutant: catchError rolls back but does not release.
OpenUntilSuccess == {r \in Request : pc[r] \in Statement \cup {"refused", "failed"}}

\* A request holds its connection from the interceptor's connect() to its
\* release().
Open == {r \in Request : pc[r] \in Statement}

SameSpace(r, q) == call[r].space = call[q].space

\* Mutant: the locking read runs outside the transaction, so the lock is gone
\* with the overlap query.
ExclusiveForCheckOnly(r) == r \in guarded /\ pc[r] = "check"

\* FOR UPDATE on the space row, held to the end of the transaction.
Exclusive(r) == r \in guarded /\ r \in Open

\* FOR KEY SHARE on the space row, taken by the foreign key of the INSERT.
KeyShare(r) == pc[r] = "commit"

\* Mutant: the read of the space takes no lock.
PlainRead(r) == FALSE

\* What a FOR UPDATE read of r's space waits for.
SpaceRowLocked(r) ==
    \E q \in Request \ {r} : SameSpace(q, r) /\ (Exclusive(q) \/ KeyShare(q))

\* What an INSERT that refers to r's space waits for.
SpaceRowHeld(r) == \E q \in Request \ {r} : SameSpace(q, r) /\ Exclusive(q)

\* Mutant: the lock of createReservation does not stop an UPDATE of the space.
UpdateNeverBlocked(s) == FALSE

\* What an UPDATE of space s waits for.
SpaceUpdateBlocked(s) == \E q \in Request : call[q].space = s /\ Exclusive(q)

-----------------------------------------------------------------------------
\* The overlap query of createReservation.

\* Mutant: the query looks for reservations around the new one only.
Contains(new, row) == row.start < new.start /\ row.end > new.end

\* startTime < dto.endTime and endTime > dto.startTime.
Overlaps(new, row) == row.start < new.end /\ row.end > new.start

\* Mutant: the query sees rows that are not committed.
VisibleUncommitted(r) ==
    {q \in booked \cup {p \in Request : KeyShare(p)} :
        q # r /\ SameSpace(q, r) /\ space[call[r].space] = "live"}

\* The reservations a query finds when it joins them with the space of r: a
\* join leaves out the rows of a soft-deleted space.  Their status is not
\* looked at: a cancelled reservation still counts.
Visible(r) == {q \in booked : SameSpace(q, r) /\ space[call[r].space] = "live"}

Conflicts(r) == {q \in Visible(r) : Overlaps(call[r], call[q])}

-----------------------------------------------------------------------------
Init == /\ space \in [Space -> {"absent", "live"}]
        /\ patching = {}
        /\ call \in [Request -> Call]
        /\ pc = [r \in Request |-> "idle"]
        /\ guarded = {}
        /\ booked = {}

\* Request r goes on to statement, or is answered with it.
Goto(r, next) == pc' = [pc EXCEPT ![r] = next]

\* The interceptor takes a connection when one is free and starts the
\* transaction.
Begin(r) == /\ pc[r] = "idle"
            /\ Cardinality(Open) < PoolSize
            /\ Goto(r, "lock")
            /\ UNCHANGED <<space, patching, call, guarded, booked>>

\* findOne with lock pessimistic_write.  A removed or unknown space returns no
\* row and locks none, and the handler goes on all the same.
LockSpace(r) ==
    /\ pc[r] = "lock"
    /\ \/ /\ space[call[r].space] = "live"
          /\ ~SpaceRowLocked(r)
          /\ guarded' = guarded \cup {r}
       \/ /\ space[call[r].space] # "live"
          /\ UNCHANGED guarded
    /\ Goto(r, "check")
    /\ UNCHANGED <<space, patching, call, booked>>

\* The overlap query.  A row found ends the call with the 400.
CheckOverlap(r) ==
    /\ pc[r] = "check"
    /\ Goto(r, IF Conflicts(r) = {} THEN "save" ELSE "refuse")
    /\ UNCHANGED <<space, patching, call, guarded, booked>>

\* The INSERT.  The foreign key rejects a space that was never created.
SaveRow(r) ==
    /\ pc[r] = "save"
    /\ \/ space[call[r].space] = "absent" /\ Goto(r, "abort")
       \/ /\ space[call[r].space] # "absent"
          /\ ~SpaceRowHeld(r)
          /\ Goto(r, "commit")
    /\ UNCHANGED <<space, patching, call, guarded, booked>>

\* The handler returned: COMMIT and release, then the 201.
Commit(r) == /\ pc[r] = "commit"
             /\ booked' = booked \cup {r}
             /\ Goto(r, "created")
             /\ UNCHANGED <<space, patching, call, guarded>>

\* Mutant: catchError does not throw the error again.
RollbackOnly(r) == /\ pc[r] \in {"refuse", "abort"}
                   /\ Goto(r, "undefined")
                   /\ UNCHANGED <<space, patching, call, guarded, booked>>

\* The handler threw: ROLLBACK and release, then the error is rethrown, the
\* 400 of the overlap or a 500.
Rollback(r) ==
    /\ pc[r] \in {"refuse", "abort"}
    /\ Goto(r, IF pc[r] = "refuse" THEN "refused" ELSE "failed")
    /\ UNCHANGED <<space, patching, call, guarded, booked>>

\* The connection breaks while a statement is under way.  PostgreSQL ends the
\* transaction; a COMMIT under way may have happened before.
ConnectionLost(r) ==
    /\ r \in Open
    /\ \/ pc[r] = "commit" /\ booked' = booked \cup {r}
       \/ UNCHANGED booked
    /\ Goto(r, "failed")
    /\ UNCHANGED <<space, patching, call, guarded>>

-----------------------------------------------------------------------------
\* The calls on /spaces, each UPDATE its own transaction.

CreateSpace(s) == /\ space[s] = "absent"
                  /\ space' = [space EXCEPT ![s] = "live"]
                  /\ UNCHANGED <<patching, call, pc, guarded, booked>>

\* softDelete, after a read that found the row (or the call is a 404).
RemoveSpace(s) == /\ space[s] = "live"
                  /\ ~SpaceUpdateBlocked(s)
                  /\ space' = [space EXCEPT ![s] = "deleted"]
                  /\ UNCHANGED <<patching, call, pc, guarded, booked>>

\* updateSpaces reads the row ...
PatchRead(s) == /\ space[s] = "live"
                /\ patching' = patching \cup {s}
                /\ UNCHANGED <<space, call, pc, guarded, booked>>

\* ... and saves its copy.  The save compares the copy with the row it reads
\* again, so a removal in between is undone (deletedAt is written back as
\* null), unless the removal came after that second read.
PatchSave(s) == /\ s \in patching
                /\ ~SpaceUpdateBlocked(s)
                /\ \/ UNCHANGED space
                   \/ space' = [space EXCEPT ![s] = "live"]
                /\ patching' = patching \ {s}
                /\ UNCHANGED <<call, pc, guarded, booked>>

-----------------------------------------------------------------------------
Handle(r) == \/ Begin(r) \/ LockSpace(r) \/ CheckOverlap(r)
             \/ SaveRow(r) \/ Commit(r) \/ Rollback(r)

Manage(s) == CreateSpace(s) \/ RemoveSpace(s) \/ PatchRead(s) \/ PatchSave(s)

\* Every call has been answered and nothing more need happen.
Quiet == /\ \A r \in Request : pc[r] \in Reply
         /\ UNCHANGED vars

Next == \/ \E r \in Request : Handle(r) \/ ConnectionLost(r)
        \/ \E s \in Space : Manage(s)
        \/ Quiet

Spec == Init /\ [][Next]_vars

-----------------------------------------------------------------------------
\* Safety.

Instants(c) == c.start .. (c.end - 1)

\* Reservations whose calls locked their space never share an instant of it,
\* in whatever order the statements of the calls reach the database: this is
\* what the row lock and the overlap query of createReservation are for.
NoDoubleBooking ==
    \A r, q \in booked \cap guarded :
        r # q /\ SameSpace(r, q) => Instants(call[r]) \cap Instants(call[q]) = {}

\* What the overlap query told a call that holds the lock is still true when
\* its INSERT and its COMMIT run, whoever else books, removes or patches the
\* space between the statements.
CheckStillHolds ==
    \A r \in guarded : pc[r] \in {"save", "commit"} =>
        \A q \in booked : SameSpace(q, r) => ~Overlaps(call[r], call[q])

\* A space is not removed under a call that has locked its row.
LockedSpaceStaysLive ==
    \A r \in Request : Exclusive(r) => space[call[r].space] = "live"

\* Whoever is told that the period is taken is told the truth: a committed
\* reservation of the space overlaps it, never one that is rolled back.
RefusalJustified ==
    \A r \in Request : pc[r] \in {"refuse", "refused"} =>
        \E q \in booked : SameSpace(q, r) /\ Overlaps(call[r], call[q])

-----------------------------------------------------------------------------
\* The ledger this protocol implements: a reply is an answer, a committed row
\* an entry, exclusive when its call had locked the space.

Ledger == INSTANCE BookingLedger WITH
              outcome   <- [r \in Request |-> IF pc[r] \in Reply THEN pc[r] ELSE "open"],
              ledger    <- booked,
              exclusive <- booked \cap guarded

\* Booking implements BookingLedger.
ImplementsLedger == Ledger!Spec

-----------------------------------------------------------------------------
\* What a document of the repository says and the protocol does not keep.

\* Of overlapping calls for one space at most one gets a 201, which the
\* end-to-end test of the concurrent calls has as its title.
OneOfOverlapping ==
    \A r, q \in Request :
        r # q /\ SameSpace(r, q) /\ pc[r] = "created" /\ pc[q] = "created" =>
            Instants(call[r]) \cap Instants(call[q]) = {}
============================================================================
