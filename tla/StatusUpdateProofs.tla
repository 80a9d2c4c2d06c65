------------------------ MODULE StatusUpdateProofs ------------------------
(***************************************************************************)
(* Proofs about StatusUpdate for any calls, any reservations, any pool and *)
(* any number of failures.                                                 *)
(***************************************************************************)
EXTENDS StatusUpdate, TLAPS

\* A request that has not missed a commit works on a row that is not final,
\* and a row is being written by one request at most.
CopyDiscipline ==
    /\ \A r \in wrote : pc[r] \notin {"idle"} \cup Row
    /\ \A r \in Request :
          (pc[r] \in {"reload", "update"} \/ r \in wrote \cap Open) /\ r \notin stale
              => status[id(r)] \notin {"absent", "COMPLETED"}
    /\ \A r, q \in wrote \cap Open : id(r) = id(q) => r = q

\* The handler reaches the chat room only to confirm, commits a confirmation
\* only with a room, and needs a new room only after its own UPDATE: who finds
\* the status as he wants it finds the room of whoever set it.
RoomDiscipline ==
    /\ \A r \in Request : pc[r] \in Room => Confirms(r)
    /\ \A r \in Request :
          pc[r] = "reread" \/ (pc[r] = "commit" /\ Confirms(r)) => id(r) \in room
    /\ faults = 0 =>
          /\ lost = {}
          /\ \A r \in Request :
                pc[r] \in {"find", "insert"} /\ id(r) \notin room => r \in wrote

\* What holds whatever becomes of the requests, also if all of them
\* end at once.
Core == /\ TypeOK
        /\ CopyDiscipline
        /\ RoomDiscipline
        /\ ConfirmedHasRoom
        /\ NoRoomCollision

IInv == Core /\ RoomHasConfirmer

-----------------------------------------------------------------------------
\* Type correctness.

LEMMA TypeStep == TypeOK /\ [Next]_vars => TypeOK'
<1> USE CallAssumption, FaultAssumption
    DEF TypeOK, Status, Statement, Row, Room, End, Reply, id
<1> SUFFICES ASSUME TypeOK, [Next]_vars PROVE TypeOK'
  OBVIOUS
<1>1. ASSUME NEW r \in Request, Begin(r) PROVE TypeOK'
  BY <1>1 DEF Begin, Goto
<1>2. ASSUME NEW r \in Request, ReadRow(r) PROVE TypeOK'
  BY <1>2 DEF ReadRow, Goto
<1>3. ASSUME NEW r \in Request, Reload(r) PROVE TypeOK'
  BY <1>3 DEF Reload, Goto, AfterSave
<1>4. ASSUME NEW r \in Request, Update(r) PROVE TypeOK'
  BY <1>4 DEF Update, Goto, AfterSave
<1>5. ASSUME NEW r \in Request, FindRoom(r) PROVE TypeOK'
  BY <1>5 DEF FindRoom, Goto
<1>6. ASSUME NEW r \in Request, InsertRoom(r) PROVE TypeOK'
  BY <1>6 DEF InsertRoom, Goto
<1>7. ASSUME NEW r \in Request, RereadRoom(r) PROVE TypeOK'
  BY <1>7 DEF RereadRoom, Goto
<1>8. ASSUME NEW r \in Request, Commit(r) PROVE TypeOK'
  BY <1>8 DEF Commit, Goto, Write, Outdated
<1>9. ASSUME NEW r \in Request, Rollback(r) PROVE TypeOK'
  BY <1>9 DEF Rollback, Goto
<1>10. ASSUME NEW r \in Request, LoseConnection(r) PROVE TypeOK'
  BY <1>10 DEF LoseConnection, Goto, Write, Outdated, Fault
<1>11. ASSUME NEW r \in Request, RoomError(r) PROVE TypeOK'
  BY <1>11 DEF RoomError, Goto, Fault
<1>12. ASSUME NEW i \in Id, Book(i) PROVE TypeOK'
  BY <1>12 DEF Book
<1>13. CASE UNCHANGED vars
  BY <1>13 DEF vars
<1> QED
  BY <1>1, <1>2, <1>3, <1>4, <1>5, <1>6, <1>7, <1>8, <1>9, <1>10, <1>11, <1>12, <1>13
  DEF Next, Handle, Quiet

-----------------------------------------------------------------------------
\* Each part of the invariant is preserved by every step.

LEMMA CopyStep == Core /\ [Next]_vars => CopyDiscipline'
<1> USE CallAssumption
    DEF Core, TypeOK, CopyDiscipline, Open, Status, Statement, Row, Room, End,
        Reply, id
<1> SUFFICES ASSUME Core, [Next]_vars PROVE CopyDiscipline'
  OBVIOUS
<1>1. ASSUME NEW r \in Request, Begin(r) PROVE CopyDiscipline'
  BY <1>1 DEF Begin, Goto
<1>2. ASSUME NEW r \in Request, ReadRow(r) PROVE CopyDiscipline'
  BY <1>2 DEF ReadRow, Goto
<1>3. ASSUME NEW r \in Request, Reload(r) PROVE CopyDiscipline'
  BY <1>3 DEF Reload, Goto, AfterSave
<1>4. ASSUME NEW r \in Request, Update(r) PROVE CopyDiscipline'
  BY <1>4 DEF Update, Goto, AfterSave, RowLocked
<1>5. ASSUME NEW r \in Request, FindRoom(r) PROVE CopyDiscipline'
  BY <1>5 DEF FindRoom, Goto
<1>6. ASSUME NEW r \in Request, InsertRoom(r) PROVE CopyDiscipline'
  BY <1>6 DEF InsertRoom, Goto
<1>7. ASSUME NEW r \in Request, RereadRoom(r) PROVE CopyDiscipline'
  BY <1>7 DEF RereadRoom, Goto
<1>8. ASSUME NEW r \in Request, Commit(r) PROVE CopyDiscipline'
  BY <1>8 DEF Commit, Goto, Write, Outdated
<1>9. ASSUME NEW r \in Request, Rollback(r) PROVE CopyDiscipline'
  BY <1>9 DEF Rollback, Goto
<1>10. ASSUME NEW r \in Request, LoseConnection(r) PROVE CopyDiscipline'
  BY <1>10 DEF LoseConnection, Goto, Write, Outdated, Fault
<1>11. ASSUME NEW r \in Request, RoomError(r) PROVE CopyDiscipline'
  BY <1>11 DEF RoomError, Goto, Fault
<1>12. ASSUME NEW i \in Id, Book(i) PROVE CopyDiscipline'
  BY <1>12 DEF Book
<1>13. CASE UNCHANGED vars
  BY <1>13 DEF vars
<1> QED
  BY <1>1, <1>2, <1>3, <1>4, <1>5, <1>6, <1>7, <1>8, <1>9, <1>10, <1>11, <1>12, <1>13
  DEF Next, Handle, Quiet

LEMMA RoomStep == Core /\ [Next]_vars => RoomDiscipline'
<1> USE FaultAssumption
    DEF Core, TypeOK, CopyDiscipline, RoomDiscipline, ConfirmedHasRoom, Open,
        Statement, Row, Room, End, Reply, Confirms, id
<1> SUFFICES ASSUME Core, [Next]_vars PROVE RoomDiscipline'
  OBVIOUS
<1>1. ASSUME NEW r \in Request, Begin(r) PROVE RoomDiscipline'
  BY <1>1 DEF Begin, Goto
<1>2. ASSUME NEW r \in Request, ReadRow(r) PROVE RoomDiscipline'
  BY <1>2 DEF ReadRow, Goto
<1>3. ASSUME NEW r \in Request, Reload(r) PROVE RoomDiscipline'
  <2>1. /\ UNCHANGED <<wrote, room, call, lost, faults>>
        /\ \A q \in Request \ {r} : pc'[q] = pc[q]
    BY <1>3 DEF Reload, Goto
  <2>2. CASE status[id(r)] = call[r].target /\ r \notin stale /\ Confirms(r)
    <3>1. pc'[r] = "find"
      BY <1>3, <2>2 DEF Reload, Goto, AfterSave
    <3>2. id(r) \in room
      BY <2>2, CallAssumption
    <3> QED
      BY <2>1, <2>2, <3>1, <3>2
  <2>3. CASE status[id(r)] = call[r].target /\ r \notin stale /\ ~Confirms(r)
    <3>1. pc'[r] = "commit"
      BY <1>3, <2>3 DEF Reload, Goto, AfterSave
    <3> QED
      BY <2>1, <2>3, <3>1
  <2>4. CASE ~(status[id(r)] = call[r].target /\ r \notin stale)
    <3>1. pc'[r] = "update"
      BY <1>3, <2>4 DEF Reload, Goto
    <3> QED
      BY <2>1, <3>1
  <2> QED
    BY <2>2, <2>3, <2>4
<1>4. ASSUME NEW r \in Request, Update(r) PROVE RoomDiscipline'
  <2>1. /\ wrote' = wrote \cup {r} /\ UNCHANGED <<room, call, lost, faults>>
        /\ \A q \in Request \ {r} : pc'[q] = pc[q]
    BY <1>4 DEF Update, Goto
  <2>2. CASE Confirms(r)
    <3>1. pc'[r] = "find"
      BY <1>4, <2>2 DEF Update, Goto, AfterSave
    <3> QED
      BY <2>1, <2>2, <3>1
  <2>3. CASE ~Confirms(r)
    <3>1. pc'[r] = "commit"
      BY <1>4, <2>3 DEF Update, Goto, AfterSave
    <3> QED
      BY <2>1, <2>3, <3>1
  <2> QED
    BY <2>2, <2>3
<1>5. ASSUME NEW r \in Request, FindRoom(r) PROVE RoomDiscipline'
  BY <1>5 DEF FindRoom, Goto
<1>6. ASSUME NEW r \in Request, InsertRoom(r) PROVE RoomDiscipline'
  BY <1>6 DEF InsertRoom, Goto
<1>7. ASSUME NEW r \in Request, RereadRoom(r) PROVE RoomDiscipline'
  BY <1>7 DEF RereadRoom, Goto
<1>8. ASSUME NEW r \in Request, Commit(r) PROVE RoomDiscipline'
  BY <1>8 DEF Commit, Goto, Write, Outdated
<1>9. ASSUME NEW r \in Request, Rollback(r) PROVE RoomDiscipline'
  BY <1>9 DEF Rollback, Goto
<1>10. ASSUME NEW r \in Request, LoseConnection(r) PROVE RoomDiscipline'
  BY <1>10 DEF LoseConnection, Goto, Write, Outdated, Fault
<1>11. ASSUME NEW r \in Request, RoomError(r) PROVE RoomDiscipline'
  BY <1>11 DEF RoomError, Goto, Fault
<1>12. ASSUME NEW i \in Id, Book(i) PROVE RoomDiscipline'
  BY <1>12 DEF Book
<1>13. CASE UNCHANGED vars
  BY <1>13 DEF vars
<1> QED
  BY <1>1, <1>2, <1>3, <1>4, <1>5, <1>6, <1>7, <1>8, <1>9, <1>10, <1>11, <1>12, <1>13
  DEF Next, Handle, Quiet

LEMMA ConfirmedStep == Core /\ [Next]_vars => ConfirmedHasRoom'
<1> USE CallAssumption
    DEF Core, TypeOK, RoomDiscipline, ConfirmedHasRoom, Room, Confirms, id
<1> SUFFICES ASSUME Core, [Next]_vars PROVE ConfirmedHasRoom'
  OBVIOUS
<1>1. ASSUME NEW r \in Request, Begin(r) PROVE ConfirmedHasRoom'
  BY <1>1 DEF Begin, Goto
<1>2. ASSUME NEW r \in Request, ReadRow(r) PROVE ConfirmedHasRoom'
  BY <1>2 DEF ReadRow, Goto
<1>3. ASSUME NEW r \in Request, Reload(r) PROVE ConfirmedHasRoom'
  BY <1>3 DEF Reload, Goto, AfterSave
<1>4. ASSUME NEW r \in Request, Update(r) PROVE ConfirmedHasRoom'
  BY <1>4 DEF Update, Goto, AfterSave
<1>5. ASSUME NEW r \in Request, FindRoom(r) PROVE ConfirmedHasRoom'
  BY <1>5 DEF FindRoom, Goto
<1>6. ASSUME NEW r \in Request, InsertRoom(r) PROVE ConfirmedHasRoom'
  BY <1>6 DEF InsertRoom, Goto
<1>7. ASSUME NEW r \in Request, RereadRoom(r) PROVE ConfirmedHasRoom'
  BY <1>7 DEF RereadRoom, Goto
<1>8. ASSUME NEW r \in Request, Commit(r) PROVE ConfirmedHasRoom'
  BY <1>8 DEF Commit, Goto, Write, Outdated
<1>9. ASSUME NEW r \in Request, Rollback(r) PROVE ConfirmedHasRoom'
  BY <1>9 DEF Rollback, Goto
<1>10. ASSUME NEW r \in Request, LoseConnection(r) PROVE ConfirmedHasRoom'
  BY <1>10 DEF LoseConnection, Goto, Write, Outdated, Fault
<1>11. ASSUME NEW r \in Request, RoomError(r) PROVE ConfirmedHasRoom'
  BY <1>11 DEF RoomError, Goto, Fault
<1>12. ASSUME NEW i \in Id, Book(i) PROVE ConfirmedHasRoom'
  BY <1>12 DEF Book
<1>13. CASE UNCHANGED vars
  BY <1>13 DEF vars
<1> QED
  BY <1>1, <1>2, <1>3, <1>4, <1>5, <1>6, <1>7, <1>8, <1>9, <1>10, <1>11, <1>12, <1>13
  DEF Next, Handle, Quiet

LEMMA CollisionStep == Core /\ [Next]_vars => NoRoomCollision'
<1> USE FaultAssumption
    DEF Core, TypeOK, CopyDiscipline, RoomDiscipline, NoRoomCollision, Open,
        Statement, Row, Room, End, Reply, id
<1> SUFFICES ASSUME Core, [Next]_vars PROVE NoRoomCollision'
  OBVIOUS
<1>1. ASSUME NEW r \in Request, Begin(r) PROVE NoRoomCollision'
  BY <1>1 DEF Begin, Goto
<1>2. ASSUME NEW r \in Request, ReadRow(r) PROVE NoRoomCollision'
  BY <1>2 DEF ReadRow, Goto
<1>3. ASSUME NEW r \in Request, Reload(r) PROVE NoRoomCollision'
  BY <1>3 DEF Reload, Goto, AfterSave
<1>4. ASSUME NEW r \in Request, Update(r) PROVE NoRoomCollision'
  BY <1>4 DEF Update, Goto, AfterSave
<1>5. ASSUME NEW r \in Request, FindRoom(r) PROVE NoRoomCollision'
  BY <1>5 DEF FindRoom, Goto
<1>6. ASSUME NEW r \in Request, InsertRoom(r) PROVE NoRoomCollision'
  BY <1>6 DEF InsertRoom, Goto
<1>7. ASSUME NEW r \in Request, RereadRoom(r) PROVE NoRoomCollision'
  BY <1>7 DEF RereadRoom, Goto
<1>8. ASSUME NEW r \in Request, Commit(r) PROVE NoRoomCollision'
  BY <1>8 DEF Commit, Goto, Write, Outdated
<1>9. ASSUME NEW r \in Request, Rollback(r) PROVE NoRoomCollision'
  BY <1>9 DEF Rollback, Goto
<1>10. ASSUME NEW r \in Request, LoseConnection(r) PROVE NoRoomCollision'
  BY <1>10 DEF LoseConnection, Goto, Write, Outdated, Fault
<1>11. ASSUME NEW r \in Request, RoomError(r) PROVE NoRoomCollision'
  BY <1>11 DEF RoomError, Goto, Fault
<1>12. ASSUME NEW i \in Id, Book(i) PROVE NoRoomCollision'
  BY <1>12 DEF Book
<1>13. CASE UNCHANGED vars
  BY <1>13 DEF vars
<1> QED
  BY <1>1, <1>2, <1>3, <1>4, <1>5, <1>6, <1>7, <1>8, <1>9, <1>10, <1>11, <1>12, <1>13
  DEF Next, Handle, Quiet

LEMMA ConfirmerStep == IInv /\ [Next]_vars => RoomHasConfirmer'
<1> USE FaultAssumption
    DEF IInv, Core, TypeOK, RoomDiscipline, NoRoomCollision, RoomHasConfirmer,
        Statement, Row, Room, End, Reply, Confirms, id
<1> SUFFICES ASSUME IInv, [Next]_vars PROVE RoomHasConfirmer'
  OBVIOUS
<1>1. ASSUME NEW r \in Request, Begin(r) PROVE RoomHasConfirmer'
  BY <1>1 DEF Begin, Goto
<1>2. ASSUME NEW r \in Request, ReadRow(r) PROVE RoomHasConfirmer'
  BY <1>2 DEF ReadRow, Goto
<1>3. ASSUME NEW r \in Request, Reload(r) PROVE RoomHasConfirmer'
  BY <1>3 DEF Reload, Goto, AfterSave
<1>4. ASSUME NEW r \in Request, Update(r) PROVE RoomHasConfirmer'
  BY <1>4 DEF Update, Goto, AfterSave
<1>5. ASSUME NEW r \in Request, FindRoom(r) PROVE RoomHasConfirmer'
  BY <1>5 DEF FindRoom, Goto
<1>6. ASSUME NEW r \in Request, InsertRoom(r) PROVE RoomHasConfirmer'
  BY <1>6 DEF InsertRoom, Goto
<1>7. ASSUME NEW r \in Request, RereadRoom(r) PROVE RoomHasConfirmer'
  BY <1>7 DEF RereadRoom, Goto
<1>8. ASSUME NEW r \in Request, Commit(r) PROVE RoomHasConfirmer'
  BY <1>8 DEF Commit, Goto, Write, Outdated
<1>9. ASSUME NEW r \in Request, Rollback(r) PROVE RoomHasConfirmer'
  BY <1>9 DEF Rollback, Goto
<1>10. ASSUME NEW r \in Request, LoseConnection(r) PROVE RoomHasConfirmer'
  BY <1>10 DEF LoseConnection, Goto, Write, Outdated, Fault
<1>11. ASSUME NEW r \in Request, RoomError(r) PROVE RoomHasConfirmer'
  BY <1>11 DEF RoomError, Goto, Fault
<1>12. ASSUME NEW i \in Id, Book(i) PROVE RoomHasConfirmer'
  BY <1>12 DEF Book
<1>13. CASE UNCHANGED vars
  BY <1>13 DEF vars
<1> QED
  BY <1>1, <1>2, <1>3, <1>4, <1>5, <1>6, <1>7, <1>8, <1>9, <1>10, <1>11, <1>12, <1>13
  DEF Next, Handle, Quiet

-----------------------------------------------------------------------------
\* The invariant and what it implies.

LEMMA InitInvariant == Init => IInv
  BY CallAssumption, FaultAssumption
  DEF Init, IInv, Core, TypeOK, CopyDiscipline, RoomDiscipline, ConfirmedHasRoom,
      NoRoomCollision, RoomHasConfirmer, Open, Status, Statement, Row, Room, End

LEMMA CoreStep == Core /\ [Next]_vars => Core'
  BY TypeStep, CopyStep, RoomStep, ConfirmedStep, CollisionStep DEF Core

THEOREM InvariantHolds == Spec => []IInv
<1>1. IInv /\ [Next]_vars => IInv'
  BY CoreStep, ConfirmerStep DEF IInv
<1> QED
  BY <1>1, InitInvariant, PTL DEF Spec

\* The variables keep their types.
THEOREM TypeCorrect == Spec => []TypeOK
<1>1. IInv => TypeOK
  BY DEF IInv, Core
<1> QED
  BY <1>1, InvariantHolds, PTL

\* A confirmed reservation always has a chat room, failures included.
THEOREM ConfirmedAlwaysHasRoom == Spec => []ConfirmedHasRoom
<1>1. IInv => ConfirmedHasRoom
  BY DEF IInv, Core
<1> QED
  BY <1>1, InvariantHolds, PTL

\* Without failures the unique constraint on chat rooms is never met.
THEOREM RoomsNeverCollide == Spec => []NoRoomCollision
<1>1. IInv => NoRoomCollision
  BY DEF IInv, Core
<1> QED
  BY <1>1, InvariantHolds, PTL

\* Without failures every room belongs to a confirmation.
THEOREM RoomsHaveConfirmers == Spec => []RoomHasConfirmer
<1>1. IInv => RoomHasConfirmer
  BY DEF IInv
<1> QED
  BY <1>1, InvariantHolds, PTL

\* A step that takes a reservation out of its final status.
FinalUnlessStale ==
    \A i \in Id : status[i] = "COMPLETED" /\ status'[i] # "COMPLETED" =>
        \E r \in wrote \cap stale : id(r) = i /\ pc[r] = "commit"

LEMMA FinalStep == Core /\ [Next]_vars => FinalUnlessStale
<1> SUFFICES ASSUME Core, [Next]_vars, NEW i \in Id,
                    status[i] = "COMPLETED", status'[i] # "COMPLETED"
             PROVE  \E r \in wrote \cap stale : id(r) = i /\ pc[r] = "commit"
  BY DEF FinalUnlessStale
<1>1. PICK r \in Request : pc[r] = "commit" /\ r \in wrote \cap Open /\ Write(r)
  BY DEF Next, Handle, Quiet, vars, Begin, ReadRow, Reload, Update, FindRoom, InsertRoom,
         RereadRoom, Commit, Rollback, LoseConnection, RoomError, Book, Open, Statement,
         End, Core, TypeOK
<1>2. id(r) = i
  BY <1>1 DEF Write, Core, TypeOK
<1>3. r \in stale
  BY <1>1, <1>2 DEF Core, CopyDiscipline
<1> QED
  BY <1>1, <1>2, <1>3

\* Only a stale copy takes a reservation out of its final status.
THEOREM CompletedFinalUnlessStale == Spec => CompletedUnlessStale
<1>1. IInv /\ [Next]_vars => [FinalUnlessStale]_vars
  BY FinalStep DEF IInv
<1> QED
  BY <1>1, InvariantHolds, PTL DEF Spec, CompletedUnlessStale, FinalUnlessStale
===========================================================================
