---------------------------- MODULE StatusUpdate ----------------------------
(***************************************************************************)
(* PATCH /reservations/:reservationId: the TransactionInterceptor around   *)
(* ReservationsService.updateStatusReservation, and the chat room that     *)
(* ChatsService.createChatRoom makes for a confirmed reservation.          *)
(*                                                                         *)
(* The chat room is written through the repository of ChatsService, which  *)
(* is not the repository of the transaction: its statements run on other   *)
(* connections of the same pool and commit on their own.  A request that   *)
(* confirms therefore asks for a second connection while it holds one, and *)
(* what it did to the chats table survives its own rollback.               *)
(***************************************************************************)
EXTENDS Integers, FiniteSets

CONSTANTS Request,   \* the calls to PATCH /reservations/:reservationId
          Id,        \* the ids of reservations
          Call,      \* the paths and bodies the calls may have
          PoolSize,  \* connections of the pg pool
          MaxFaults  \* bound on the database failures of a behaviour

Status == {"PENDING", "CONFIRMED", "CANCELLED", "COMPLETED"}

ASSUME CallAssumption == Call \subseteq [id : Id, target : Status]
ASSUME PoolAssumption == PoolSize \in Nat \ {0}
ASSUME FaultAssumption == MaxFaults \in Nat

VARIABLES status,  \* the committed status column, "absent" without a row
          room,    \* reservations that have a row in chats
          call,    \* what each request asks for
          pc,      \* the statement each request sends next, or its reply
          wrote,   \* requests that have sent their UPDATE
          kept,    \* requests whose UPDATE leaves the status as it is
          stale,   \* requests whose copy of the row missed a later commit
          lost,    \* requests whose connection broke under their handler
          faults   \* how many failures there were

vars == <<status, room, call, pc, wrote, kept, stale, lost, faults>>

\* Statements of the handler on its own connection, on the connections of
\* ChatsService, and what the interceptor sends in the end.
Row == {"read", "reload", "update"}
Room == {"find", "insert", "reread"}
End == {"commit", "missing", "final", "abort"}

Statement == Row \cup Room \cup End

Reply == {"done", "notfound", "refused", "failed"}

TypeOK == /\ status \in [Id -> Status \cup {"absent"}]
          /\ room \in SUBSET Id
          /\ call \in [Request -> Call]
          /\ pc \in [Request -> {"idle"} \cup Statement \cup Reply]
          /\ wrote \in SUBSET Request
          /\ kept \in SUBSET Request
          /\ stale \in SUBSET Request
          /\ lost \in SUBSET Request
          /\ faults \in 0 .. MaxFaults

-----------------------------------------------------------------------------
id(r) == call[r].id

\* Requests that hold a connection with an open transaction.
Open == {r \in Request : pc[r] \in Statement /\ r \notin lost}

\* Mutant: a query runner that is never released keeps one connection.
OneConnectionKept == Cardinality(Open) + 1 < PoolSize

ConnectionFree == Cardinality(Open) < PoolSize

\* Mutant: the status is committed before the chat room is made.
LockedUntilRoom(r) ==
    \E q \in Request \ {r} : /\ id(q) = id(r)
                            /\ q \in wrote \cap Open
                            /\ pc[q] \notin Room

\* What an UPDATE of r's reservation waits for: a transaction that has updated
\* the row and is not over.
RowLocked(r) == \E q \in Request \ {r} : id(q) = id(r) /\ q \in wrote \cap Open

\* Requests whose copy of the row of r is out of date once r has committed.
Outdated(r) == {q \in Request \ {r} : id(q) = id(r) /\ pc[q] \in {"reload", "update"}}

\* Request r goes on to a statement, or is answered.
Goto(r, next) == pc' = [pc EXCEPT ![r] = next]

Confirms(r) == call[r].target = "CONFIRMED"

\* Mutant: createChatRoom is not awaited.
AfterSaveNoRoom(r) == "commit"

\* Mutant: the room is made whatever the new status.
AfterSaveAnyStatus(r) == "find"

\* Where the handler goes after its save.
AfterSave(r) == IF Confirms(r) THEN "find" ELSE "commit"

-----------------------------------------------------------------------------
Init == /\ status \in [Id -> {"absent", "PENDING"}]
        /\ room = {}
        /\ call \in [Request -> Call]
        /\ pc = [r \in Request |-> "idle"]
        /\ wrote = {} /\ kept = {} /\ stale = {} /\ lost = {}
        /\ faults = 0

\* A committed POST /reservations/:spaceId.
Book(i) == /\ status[i] = "absent"
           /\ status' = [status EXCEPT ![i] = "PENDING"]
           /\ UNCHANGED <<room, call, pc, wrote, kept, stale, lost, faults>>

\* The interceptor takes a connection and starts the transaction.
Begin(r) == /\ pc[r] = "idle"
            /\ ConnectionFree
            /\ Goto(r, "read")
            /\ UNCHANGED <<status, room, call, wrote, kept, stale, lost, faults>>

\* Mutant: the 400 for a completed reservation is missing.
ReadAnyRow(r) == /\ pc[r] = "read"
                 /\ Goto(r, IF status[id(r)] = "absent" THEN "missing" ELSE "reload")
                 /\ UNCHANGED <<status, room, call, wrote, kept, stale, lost, faults>>

\* findOne without a lock, the 404 and the 400, then the status is set in the
\* copy.
ReadRow(r) ==
    /\ pc[r] = "read"
    /\ Goto(r, CASE status[id(r)] = "absent"    -> "missing"
                 [] status[id(r)] = "COMPLETED" -> "final"
                 [] OTHER                       -> "reload")
    /\ UNCHANGED <<status, room, call, wrote, kept, stale, lost, faults>>

\* save reads the row again and compares.  No difference, no UPDATE; a stale
\* copy always differs, in its version column at least, and the UPDATE will
\* write the columns that differ.
Reload(r) ==
    /\ pc[r] = "reload"
    /\ LET same == status[id(r)] = call[r].target
       IN  /\ Goto(r, IF same /\ r \notin stale THEN AfterSave(r) ELSE "update")
           /\ kept' = IF same /\ r \in stale THEN kept \cup {r} ELSE kept
    /\ UNCHANGED <<status, room, call, wrote, stale, lost, faults>>

\* The UPDATE of the save.  It names the row by its id alone, so it succeeds
\* whatever version the row has by now.
Update(r) == /\ pc[r] = "update"
             /\ ~RowLocked(r)
             /\ wrote' = wrote \cup {r}
             /\ Goto(r, AfterSave(r))
             /\ UNCHANGED <<status, room, call, kept, stale, lost, faults>>

\* createChatRoom looks for the room ...
FindRoom(r) == /\ pc[r] = "find"
               /\ ConnectionFree
               /\ Goto(r, IF id(r) \in room THEN "commit" ELSE "insert")
               /\ UNCHANGED <<status, room, call, wrote, kept, stale, lost, faults>>

\* ... and inserts one, committed at once.  The reservation of a room is
\* unique: a room made in between turns the INSERT into an error.
InsertRoom(r) == /\ pc[r] = "insert"
                 /\ ConnectionFree
                 /\ room' = room \cup {id(r)}
                 /\ Goto(r, IF id(r) \in room THEN "abort" ELSE "reread")
                 /\ UNCHANGED <<status, call, wrote, kept, stale, lost, faults>>

RereadRoom(r) == /\ pc[r] = "reread"
                 /\ ConnectionFree
                 /\ Goto(r, "commit")
                 /\ UNCHANGED <<status, room, call, wrote, kept, stale, lost, faults>>

\* The row of r takes the status r asked for, unless it had it when save
\* compared: then the UPDATE leaves the status as it is by now.
Write(r) == /\ status' = IF r \in kept THEN status
                         ELSE [status EXCEPT ![id(r)] = call[r].target]
            /\ stale' = stale \cup Outdated(r)

\* COMMIT, release, 200.  Without its connection the interceptor cannot
\* commit, which is a 500.
Commit(r) ==
    /\ pc[r] = "commit"
    /\ \/ r \in lost /\ Goto(r, "failed") /\ UNCHANGED <<status, stale>>
       \/ /\ r \notin lost
          /\ Goto(r, "done")
          /\ IF r \in wrote THEN Write(r) ELSE UNCHANGED <<status, stale>>
    /\ UNCHANGED <<room, call, wrote, kept, lost, faults>>

\* Mutant: catchError does not throw the error again.
RollbackOnly(r) == /\ pc[r] \in {"missing", "final", "abort"}
                   /\ Goto(r, "undefined")
                   /\ UNCHANGED <<status, room, call, wrote, kept, stale, lost, faults>>

\* ROLLBACK, release, and the error of the handler: 404, 400 or 500.
Rollback(r) ==
    /\ pc[r] \in {"missing", "final", "abort"}
    /\ Goto(r, CASE pc[r] = "missing" -> "notfound"
                 [] pc[r] = "final"   -> "refused"
                 [] OTHER             -> "failed")
    /\ UNCHANGED <<status, room, call, wrote, kept, stale, lost, faults>>

-----------------------------------------------------------------------------
\* Failures.

Fault == faults < MaxFaults /\ faults' = faults + 1

\* The connection of the transaction breaks.  A statement under way on it
\* fails, a COMMIT perhaps after it was done.  A handler that is busy with the
\* chat room does not notice and goes on.
LoseConnection(r) ==
    /\ r \in Open
    /\ Fault
    /\ \/ /\ pc[r] \in Room
          /\ lost' = lost \cup {r}
          /\ UNCHANGED <<status, stale, pc>>
       \/ /\ pc[r] \notin Room
          /\ Goto(r, "failed")
          /\ \/ pc[r] = "commit" /\ r \in wrote /\ Write(r)
             \/ UNCHANGED <<status, stale>>
          /\ UNCHANGED lost
    /\ UNCHANGED <<room, call, wrote, kept>>

\* A statement of createChatRoom fails, an INSERT perhaps after it was done.
RoomError(r) ==
    /\ pc[r] \in Room
    /\ Fault
    /\ \/ pc[r] = "insert" /\ room' = room \cup {id(r)}
       \/ UNCHANGED room
    /\ Goto(r, "abort")
    /\ UNCHANGED <<status, call, wrote, kept, stale, lost>>

-----------------------------------------------------------------------------
Handle(r) == \/ Begin(r) \/ ReadRow(r) \/ Reload(r) \/ Update(r)
             \/ FindRoom(r) \/ InsertRoom(r) \/ RereadRoom(r)
             \/ Commit(r) \/ Rollback(r)

\* Every call has been answered and nothing more need happen.
Quiet == /\ \A r \in Request : pc[r] \in Reply
         /\ UNCHANGED vars

Next == \/ \E r \in Request : Handle(r) \/ LoseConnection(r) \/ RoomError(r)
        \/ \E i \in Id : Book(i)
        \/ Quiet

Spec == Init /\ [][Next]_vars

\* The event loop resumes every handler whose statement is answered, and the
\* database answers every statement it can.  Nothing makes a failure happen.
Fairness == \A r \in Request : WF_vars(Handle(r))

FairSpec == Spec /\ Fairness

-----------------------------------------------------------------------------
\* Safety.

\* A reservation that is confirmed has its chat room, although the room and
\* the status are not written by one transaction and either can fail.
ConfirmedHasRoom == \A i \in Id : status[i] = "CONFIRMED" => i \in room

\* The INSERT of a room meets no room, whichever requests confirm the same
\* reservation at a time: the unique constraint behind the unguarded
\* find-then-insert of createChatRoom is needed only after a failure.
NoRoomCollision ==
    faults = 0 => \A r \in Request : pc[r] = "insert" => id(r) \notin room

\* Without failures no room is made for nothing: some request that confirms the
\* reservation has been or can still be committed.
RoomHasConfirmer ==
    faults = 0 =>
        \A i \in room : \E r \in Request :
            id(r) = i /\ Confirms(r) /\ pc[r] \in {"reread", "commit", "done"}

\* A completed reservation gets another status only from a request that works
\* on a copy of the row from before its completion.
CompletedUnlessStale ==
    [][\A i \in Id : status[i] = "COMPLETED" /\ status'[i] # "COMPLETED" =>
          \E r \in wrote \cap stale : id(r) = i /\ pc[r] = "commit"]_vars

\* Liveness: every call is answered.
EveryPatchAnswered == \A r \in Request : <>(pc[r] \in Reply)

-----------------------------------------------------------------------------
\* What a document of the repository says and the handler does not keep.

\* Who works on a copy that another administrator's change has overtaken is
\* told so by a 409 and does not get a 200.
ConflictDetected == \A r \in wrote \cap stale : pc[r] # "done"

\* A confirmation in progress leads to a chat room.
ConfirmationMakesRoom ==
    \A r \in Request : (pc[r] = "find") ~> (id(r) \in room)
=============================================================================
