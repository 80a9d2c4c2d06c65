------------------------------- MODULE Service -------------------------------
(***************************************************************************)
(* The service as its parts share it: the calls that book and the calls    *)
(* that change the status of what was booked, in transactions of one pool; *)
(* the chat rooms and the reminder, whose statements ask the same pool for *)
(* a connection; one table of reservations; one process, which may be      *)
(* started again.                                                          *)
(*                                                                         *)
(* A reservation has the name of the call that books it.                   *)
(***************************************************************************)
EXTENDS Reminder

CONSTANTS Booker,    \* the calls to POST /reservations/:spaceId
          Patcher,   \* the calls to PATCH /reservations/:reservationId
          Space,
          Wanted,    \* what each booker asks for
          Patch,     \* what the patchers may ask for
          PoolSize   \* connections of the pg pool

VARIABLES space, patching, bookCall, bookPc, guarded, booked,
          room, patchCall, patchPc, wrote, kept, stale, lost, patchFaults

B == INSTANCE Booking WITH
        Request <- Booker, Call <- {Wanted[r] : r \in Booker},
        call <- bookCall, pc <- bookPc

S == INSTANCE StatusUpdate WITH
        Request <- Patcher, Id <- Booker, Call <- Patch, MaxFaults <- 0,
        call <- patchCall, pc <- patchPc, faults <- patchFaults

ASSUME ServiceAssumption ==
    /\ Id = Booker
    /\ Wanted \in [Booker -> [space : Space, start : Nat, end : Int]]
    /\ Start = [r \in Booker |-> Wanted[r].start]
    /\ Patch \subseteq [id : Booker, target : S!Status]
    /\ PoolSize \in Nat \ {0}

bookVars == <<space, patching, bookCall, bookPc, guarded, booked>>

\* The variables of StatusUpdate besides the table.
patchVars == <<room, patchCall, patchPc, wrote, kept, stale, lost, patchFaults>>

-----------------------------------------------------------------------------
\* A connection is free for a transaction or for a statement outside of one.
Free == Cardinality(B!Open) + Cardinality(S!Open) < PoolSize

ServiceInit == /\ Init /\ B!Init /\ S!Init
               /\ \A s \in Space : space[s] = "live"
               /\ bookCall = Wanted
               /\ \A i \in Id : status[i] = "absent"

\* POST /reservations/:spaceId.
Book(r) == /\ \/ B!Begin(r) /\ Free /\ UNCHANGED vars
              \/ /\ B!LockSpace(r) \/ B!CheckOverlap(r) \/ B!SaveRow(r) \/ B!Rollback(r)
                 /\ UNCHANGED vars
              \/ B!Commit(r) /\ StatusChanges(r, "PENDING")
           /\ UNCHANGED patchVars

\* PATCH /reservations/:reservationId.  The statements of the chat room run on
\* connections of their own.
Change(r) == /\ \/ /\ S!Begin(r) \/ S!FindRoom(r) \/ S!InsertRoom(r) \/ S!RereadRoom(r)
                   /\ Free
                   /\ UNCHANGED vars
                \/ /\ S!ReadRow(r) \/ S!Reload(r) \/ S!Update(r) \/ S!Rollback(r)
                   /\ UNCHANGED vars
                \/ /\ S!Commit(r)
                   /\ IF status' = status THEN UNCHANGED vars
                      ELSE StatusChanges(S!id(r), patchCall[r].target)
             /\ UNCHANGED bookVars

\* The reminder.  Its query, too, waits for a connection.
Remind == /\ Fire \/ \E t \in pending : (Query(t) /\ Free) \/ QueryFails(t)
          /\ UNCHANGED <<bookVars, patchVars>>

Tick == TimePasses /\ UNCHANGED <<bookVars, patchVars>>

\* Requests under way when the process dies are never answered.
Dead(pc, open) == [r \in DOMAIN pc |-> IF r \in open THEN "failed" ELSE pc[r]]

\* The process dies and is started again.  PostgreSQL ends its transactions;
\* what was done before stays: a COMMIT or an INSERT whose answer nobody hears
\* is a step before this one.
ProcessRestart == /\ Restart
                  /\ bookPc' = Dead(bookPc, B!Open)
                  /\ patchPc' = Dead(patchPc, S!Open)
                  /\ UNCHANGED <<space, patching, bookCall, guarded, booked>>
                  /\ UNCHANGED <<room, patchCall, wrote, kept, stale, lost, patchFaults>>

\* Every call has been answered and the clock has stopped.
ServiceQuiet == /\ \A r \in Booker : bookPc[r] \in B!Reply
                /\ \A r \in Patcher : patchPc[r] \in S!Reply
                /\ now = MaxTime /\ now < Minute * minute /\ pending = {}
                /\ UNCHANGED <<vars, bookVars, patchVars>>

ServiceNext == \/ \E r \in Booker : Book(r)
               \/ \E r \in Patcher : Change(r)
               \/ Remind \/ Tick \/ ProcessRestart \/ ServiceQuiet

serviceVars == <<vars, bookVars, patchVars>>

ServiceSpec == ServiceInit /\ [][ServiceNext]_serviceVars

\* The event loop resumes every handler whose statement is answered, and the
\* database answers every statement it can.
ServiceFairness == /\ \A r \in Booker : WF_serviceVars(Book(r))
                   /\ \A r \in Patcher : WF_serviceVars(Change(r))

ServiceFairSpec == ServiceSpec /\ ServiceFairness

ServiceTypeOK == TypeOK /\ B!TypeOK /\ S!TypeOK

-----------------------------------------------------------------------------
\* Whoever is reminded of his stay has the chat room in which he can ask about it,
\* although the room, the status and the reminder are written by three transactions
\* and the process may die between any two of them.
ToldHasRoom == \A i \in Id : told[i] > 0 => i \in room

\* The bookings of the service are a ledger that survives the death of the process: no
\* two reservations that locked their space share an instant, no call is refused but for
\* a reservation that stands, and of a call cut short the reservation is there or not.
LedgerSurvives == B!ImplementsLedger

\* Liveness: every call is answered although all of them, the chat rooms and the
\* reminder ask one pool for connections, as long as fewer calls change a status at
\* a time than the pool has connections.
EveryRequestAnswered ==
    Cardinality(Patcher) < PoolSize =>
        /\ \A r \in Booker : <>(bookPc[r] \in B!Reply)
        /\ \A r \in Patcher : <>(patchPc[r] \in S!Reply)
=============================================================================
