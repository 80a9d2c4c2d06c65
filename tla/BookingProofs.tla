--------------------------- MODULE BookingProofs ---------------------------
(***************************************************************************)
(* Proofs about Booking for any set of calls, any spaces and any pool.     *)
(***************************************************************************)
EXTENDS Booking, TLAPS

\* What the locks and the replies stand for while the calls run: the part of
\* the inductive invariant that no client sees.
LockDiscipline ==
    /\ \A r \in guarded : pc[r] \notin {"idle", "lock"}
    /\ \A r, q \in Request :
          r # q /\ SameSpace(r, q) /\ Exclusive(r) => ~Exclusive(q) /\ ~KeyShare(q)
    /\ \A r \in booked : pc[r] \in {"created", "failed"}
    /\ \A r \in Request : pc[r] = "created" => r \in booked

IInv == /\ TypeOK
        /\ LockDiscipline
        /\ LockedSpaceStaysLive
        /\ CheckStillHolds
        /\ NoDoubleBooking
        /\ RefusalJustified

\* Calls that the overlap query lets pass reserve no common instant, the ones
\* that end before they start included.
LEMMA NoOverlapNoCommonInstant ==
    ASSUME NEW c \in [space : Space, start : Int, end : Int],
           NEW d \in [space : Space, start : Int, end : Int],
           ~Overlaps(c, d)
    PROVE  Instants(c) \cap Instants(d) = {}
  BY DEF Overlaps, Instants

\* The order in which the two calls came does not matter to the query.
LEMMA OverlapsSymmetric ==
    ASSUME NEW c \in [space : Space, start : Int, end : Int],
           NEW d \in [space : Space, start : Int, end : Int]
    PROVE  Overlaps(c, d) <=> Overlaps(d, c)
  BY DEF Overlaps

-----------------------------------------------------------------------------
\* Type correctness.

LEMMA TypeStep == TypeOK /\ [Next]_vars => TypeOK'
<1> USE DEF TypeOK, SpaceState, Statement, Reply
<1> SUFFICES ASSUME TypeOK, [Next]_vars PROVE TypeOK'
  OBVIOUS
<1>1. ASSUME NEW r \in Request, Begin(r) PROVE TypeOK'
  BY <1>1 DEF Begin, Goto
<1>2. ASSUME NEW r \in Request, LockSpace(r) PROVE TypeOK'
  BY <1>2 DEF LockSpace, Goto
<1>3. ASSUME NEW r \in Request, CheckOverlap(r) PROVE TypeOK'
  BY <1>3 DEF CheckOverlap, Goto
<1>4. ASSUME NEW r \in Request, SaveRow(r) PROVE TypeOK'
  BY <1>4 DEF SaveRow, Goto
<1>5. ASSUME NEW r \in Request, Commit(r) PROVE TypeOK'
  BY <1>5 DEF Commit, Goto
<1>6. ASSUME NEW r \in Request, Rollback(r) PROVE TypeOK'
  BY <1>6 DEF Rollback, Goto
<1>7. ASSUME NEW r \in Request, ConnectionLost(r) PROVE TypeOK'
  BY <1>7 DEF ConnectionLost, Goto
<1>8. ASSUME NEW s \in Space, Manage(s) PROVE TypeOK'
  BY <1>8 DEF Manage, CreateSpace, RemoveSpace, PatchRead, PatchSave
<1>9. CASE UNCHANGED vars
  BY <1>9 DEF vars
<1> QED
  BY <1>1, <1>2, <1>3, <1>4, <1>5, <1>6, <1>7, <1>8, <1>9 DEF Next, Handle, Quiet

\* The variables keep their types.
THEOREM TypeCorrect == Spec => []TypeOK
<1>1. Init => TypeOK
  BY DEF Init, TypeOK, SpaceState
<1> QED
  BY <1>1, TypeStep, PTL DEF Spec

-----------------------------------------------------------------------------
\* Each part of the invariant is preserved by every step.

LEMMA LockStep == IInv /\ [Next]_vars => LockDiscipline'
<1> USE
    DEF IInv, TypeOK, LockDiscipline, Exclusive, KeyShare, Open, SameSpace,
        Statement, Reply
<1> SUFFICES ASSUME IInv, [Next]_vars PROVE LockDiscipline'
  OBVIOUS
<1>1. ASSUME NEW r \in Request, Begin(r) PROVE LockDiscipline'
  BY <1>1 DEF Begin, Goto
<1>2. ASSUME NEW r \in Request, LockSpace(r) PROVE LockDiscipline'
  BY <1>2 DEF LockSpace, Goto, SpaceRowLocked
<1>3. ASSUME NEW r \in Request, CheckOverlap(r) PROVE LockDiscipline'
  BY <1>3 DEF CheckOverlap, Goto
<1>4. ASSUME NEW r \in Request, SaveRow(r) PROVE LockDiscipline'
  BY <1>4 DEF SaveRow, Goto, SpaceRowHeld
<1>5. ASSUME NEW r \in Request, Commit(r) PROVE LockDiscipline'
  BY <1>5 DEF Commit, Goto
<1>6. ASSUME NEW r \in Request, Rollback(r) PROVE LockDiscipline'
  BY <1>6 DEF Rollback, Goto
<1>7. ASSUME NEW r \in Request, ConnectionLost(r) PROVE LockDiscipline'
  BY <1>7 DEF ConnectionLost, Goto
<1>8. ASSUME NEW s \in Space, CreateSpace(s) PROVE LockDiscipline'
  BY <1>8 DEF CreateSpace
<1>9. ASSUME NEW s \in Space, RemoveSpace(s) PROVE LockDiscipline'
  BY <1>9 DEF RemoveSpace
<1>10. ASSUME NEW s \in Space, PatchRead(s) PROVE LockDiscipline'
  BY <1>10 DEF PatchRead
<1>11. ASSUME NEW s \in Space, PatchSave(s) PROVE LockDiscipline'
  BY <1>11 DEF PatchSave
<1>12. CASE UNCHANGED vars
  BY <1>12 DEF vars
<1> QED
  BY <1>1, <1>2, <1>3, <1>4, <1>5, <1>6, <1>7, <1>8, <1>9, <1>10, <1>11, <1>12
  DEF Next, Handle, Manage, Quiet

LEMMA LiveStep == IInv /\ [Next]_vars => LockedSpaceStaysLive'
<1> USE
    DEF IInv, TypeOK, LockDiscipline, LockedSpaceStaysLive, Exclusive, KeyShare,
        Open, Statement, Reply, SpaceState
<1> SUFFICES ASSUME IInv, [Next]_vars PROVE LockedSpaceStaysLive'
  OBVIOUS
<1>1. ASSUME NEW r \in Request, Begin(r) PROVE LockedSpaceStaysLive'
  BY <1>1 DEF Begin, Goto
<1>2. ASSUME NEW r \in Request, LockSpace(r) PROVE LockedSpaceStaysLive'
  BY <1>2 DEF LockSpace, Goto
<1>3. ASSUME NEW r \in Request, CheckOverlap(r) PROVE LockedSpaceStaysLive'
  BY <1>3 DEF CheckOverlap, Goto
<1>4. ASSUME NEW r \in Request, SaveRow(r) PROVE LockedSpaceStaysLive'
  BY <1>4 DEF SaveRow, Goto
<1>5. ASSUME NEW r \in Request, Commit(r) PROVE LockedSpaceStaysLive'
  BY <1>5 DEF Commit, Goto
<1>6. ASSUME NEW r \in Request, Rollback(r) PROVE LockedSpaceStaysLive'
  BY <1>6 DEF Rollback, Goto
<1>7. ASSUME NEW r \in Request, ConnectionLost(r) PROVE LockedSpaceStaysLive'
  BY <1>7 DEF ConnectionLost, Goto
<1>8. ASSUME NEW s \in Space, CreateSpace(s) PROVE LockedSpaceStaysLive'
  BY <1>8 DEF CreateSpace
<1>9. ASSUME NEW s \in Space, RemoveSpace(s) PROVE LockedSpaceStaysLive'
  BY <1>9 DEF RemoveSpace, SpaceUpdateBlocked
<1>10. ASSUME NEW s \in Space, PatchRead(s) PROVE LockedSpaceStaysLive'
  BY <1>10 DEF PatchRead
<1>11. ASSUME NEW s \in Space, PatchSave(s) PROVE LockedSpaceStaysLive'
  <2>1. \A q \in Request : Exclusive(q)' <=> Exclusive(q)
    BY <1>11 DEF PatchSave
  <2>2. call' = call /\ \A x \in Space : space'[x] = space[x] \/ space'[x] = "live"
    BY <1>11 DEF PatchSave
  <2> QED
    BY <2>1, <2>2, CallAssumption
<1>12. CASE UNCHANGED vars
  BY <1>12 DEF vars
<1> QED
  BY <1>1, <1>2, <1>3, <1>4, <1>5, <1>6, <1>7, <1>8, <1>9, <1>10, <1>11, <1>12
  DEF Next, Handle, Manage, Quiet

LEMMA CheckStep == IInv /\ [Next]_vars => CheckStillHolds'
<1> USE
    DEF IInv, TypeOK, LockDiscipline, LockedSpaceStaysLive, CheckStillHolds,
        Exclusive, KeyShare, Open, SameSpace, Statement, Reply
<1> SUFFICES ASSUME IInv, [Next]_vars PROVE CheckStillHolds'
  OBVIOUS
<1>1. ASSUME NEW r \in Request, Begin(r) PROVE CheckStillHolds'
  BY <1>1 DEF Begin, Goto
<1>2. ASSUME NEW r \in Request, LockSpace(r) PROVE CheckStillHolds'
  BY <1>2 DEF LockSpace, Goto
<1>3. ASSUME NEW r \in Request, CheckOverlap(r) PROVE CheckStillHolds'
  BY <1>3 DEF CheckOverlap, Goto, Conflicts, Visible
<1>4. ASSUME NEW r \in Request, SaveRow(r) PROVE CheckStillHolds'
  BY <1>4 DEF SaveRow, Goto
<1>5. ASSUME NEW r \in Request, Commit(r) PROVE CheckStillHolds'
  BY <1>5 DEF Commit, Goto
<1>6. ASSUME NEW r \in Request, Rollback(r) PROVE CheckStillHolds'
  BY <1>6 DEF Rollback, Goto
<1>7. ASSUME NEW r \in Request, ConnectionLost(r) PROVE CheckStillHolds'
  BY <1>7 DEF ConnectionLost, Goto
<1>8. ASSUME NEW s \in Space, CreateSpace(s) PROVE CheckStillHolds'
  BY <1>8 DEF CreateSpace
<1>9. ASSUME NEW s \in Space, RemoveSpace(s) PROVE CheckStillHolds'
  BY <1>9 DEF RemoveSpace
<1>10. ASSUME NEW s \in Space, PatchRead(s) PROVE CheckStillHolds'
  BY <1>10 DEF PatchRead
<1>11. ASSUME NEW s \in Space, PatchSave(s) PROVE CheckStillHolds'
  BY <1>11 DEF PatchSave
<1>12. CASE UNCHANGED vars
  BY <1>12 DEF vars
<1> QED
  BY <1>1, <1>2, <1>3, <1>4, <1>5, <1>6, <1>7, <1>8, <1>9, <1>10, <1>11, <1>12
  DEF Next, Handle, Manage, Quiet

\* A call that commits joins the reservations its check was true of.
LEMMA EnterTable ==
    ASSUME IInv, NEW r \in Request, pc[r] = "commit",
           booked' = booked \cup {r}, UNCHANGED <<call, guarded>>
    PROVE  NoDoubleBooking'
<1> USE DEF SameSpace
<1> DEFINE Apart(p, q) == Instants(call[p]) \cap Instants(call[q]) = {}
<1>1. ASSUME NEW q \in booked, r \in guarded, SameSpace(q, r)
      PROVE  Apart(r, q) /\ Apart(q, r)
  <2>1. ~Overlaps(call[r], call[q])
    BY <1>1 DEF IInv, CheckStillHolds
  <2>2. /\ call[r] \in [space : Space, start : Int, end : Int]
        /\ call[q] \in [space : Space, start : Int, end : Int]
    BY CallAssumption DEF IInv, TypeOK
  <2>3. Apart(r, q)
    BY <2>1, <2>2, NoOverlapNoCommonInstant
  <2> QED
    BY <2>3
<1>2. ASSUME NEW p \in booked' \cap guarded', NEW q \in booked' \cap guarded',
             p # q, SameSpace(p, q)'
      PROVE  Apart(p, q)'
  <2>1. /\ p \in guarded /\ q \in guarded /\ SameSpace(p, q) /\ SameSpace(q, p)
        /\ Apart(p, q)' <=> Apart(p, q)
    BY <1>2 DEF Instants
  <2>2. CASE p \in booked /\ q \in booked
    BY <1>2, <2>1, <2>2 DEF IInv, NoDoubleBooking
  <2>3. CASE p = r
    BY <1>1, <1>2, <2>1, <2>3
  <2>4. CASE q = r
    BY <1>1, <1>2, <2>1, <2>4
  <2> QED
    BY <1>2, <2>2, <2>3, <2>4
<1> QED
  BY <1>2 DEF NoDoubleBooking

LEMMA BookStep == IInv /\ [Next]_vars => NoDoubleBooking'
<1> USE CallAssumption
    DEF IInv, TypeOK, LockDiscipline, CheckStillHolds, NoDoubleBooking, SameSpace,
        Open, Statement, Reply
<1> SUFFICES ASSUME IInv, [Next]_vars PROVE NoDoubleBooking'
  OBVIOUS
<1>1. ASSUME NEW r \in Request, Begin(r) PROVE NoDoubleBooking'
  BY <1>1 DEF Begin, Goto
<1>2. ASSUME NEW r \in Request, LockSpace(r) PROVE NoDoubleBooking'
  BY <1>2 DEF LockSpace, Goto
<1>3. ASSUME NEW r \in Request, CheckOverlap(r) PROVE NoDoubleBooking'
  BY <1>3 DEF CheckOverlap, Goto
<1>4. ASSUME NEW r \in Request, SaveRow(r) PROVE NoDoubleBooking'
  BY <1>4 DEF SaveRow, Goto
<1>5. ASSUME NEW r \in Request, Commit(r) PROVE NoDoubleBooking'
  BY <1>5, EnterTable DEF Commit
<1>6. ASSUME NEW r \in Request, Rollback(r) PROVE NoDoubleBooking'
  BY <1>6 DEF Rollback, Goto
<1>7. ASSUME NEW r \in Request, ConnectionLost(r) PROVE NoDoubleBooking'
  <2>1. CASE booked' = booked
    BY <1>7, <2>1 DEF ConnectionLost
  <2>2. CASE pc[r] = "commit" /\ booked' = booked \cup {r}
    BY <1>7, <2>2, EnterTable DEF ConnectionLost
  <2> QED
    BY <1>7, <2>1, <2>2 DEF ConnectionLost
<1>8. ASSUME NEW s \in Space, CreateSpace(s) PROVE NoDoubleBooking'
  BY <1>8 DEF CreateSpace
<1>9. ASSUME NEW s \in Space, RemoveSpace(s) PROVE NoDoubleBooking'
  BY <1>9 DEF RemoveSpace
<1>10. ASSUME NEW s \in Space, PatchRead(s) PROVE NoDoubleBooking'
  BY <1>10 DEF PatchRead
<1>11. ASSUME NEW s \in Space, PatchSave(s) PROVE NoDoubleBooking'
  BY <1>11 DEF PatchSave
<1>12. CASE UNCHANGED vars
  BY <1>12 DEF vars
<1> QED
  BY <1>1, <1>2, <1>3, <1>4, <1>5, <1>6, <1>7, <1>8, <1>9, <1>10, <1>11, <1>12
  DEF Next, Handle, Manage, Quiet

LEMMA RefusalStep == IInv /\ [Next]_vars => RefusalJustified'
<1> USE
    DEF IInv, TypeOK, LockDiscipline, RefusalJustified, SameSpace, Open,
        Statement, Reply
<1> SUFFICES ASSUME IInv, [Next]_vars PROVE RefusalJustified'
  OBVIOUS
<1>1. ASSUME NEW r \in Request, Begin(r) PROVE RefusalJustified'
  BY <1>1 DEF Begin, Goto
<1>2. ASSUME NEW r \in Request, LockSpace(r) PROVE RefusalJustified'
  BY <1>2 DEF LockSpace, Goto
<1>3. ASSUME NEW r \in Request, CheckOverlap(r) PROVE RefusalJustified'
  BY <1>3 DEF CheckOverlap, Goto, Conflicts, Visible
<1>4. ASSUME NEW r \in Request, SaveRow(r) PROVE RefusalJustified'
  BY <1>4 DEF SaveRow, Goto
<1>5. ASSUME NEW r \in Request, Commit(r) PROVE RefusalJustified'
  BY <1>5 DEF Commit, Goto
<1>6. ASSUME NEW r \in Request, Rollback(r) PROVE RefusalJustified'
  BY <1>6 DEF Rollback, Goto
<1>7. ASSUME NEW r \in Request, ConnectionLost(r) PROVE RefusalJustified'
  BY <1>7 DEF ConnectionLost, Goto
<1>8. ASSUME NEW s \in Space, CreateSpace(s) PROVE RefusalJustified'
  BY <1>8 DEF CreateSpace
<1>9. ASSUME NEW s \in Space, RemoveSpace(s) PROVE RefusalJustified'
  BY <1>9 DEF RemoveSpace
<1>10. ASSUME NEW s \in Space, PatchRead(s) PROVE RefusalJustified'
  BY <1>10 DEF PatchRead
<1>11. ASSUME NEW s \in Space, PatchSave(s) PROVE RefusalJustified'
  BY <1>11 DEF PatchSave
<1>12. CASE UNCHANGED vars
  BY <1>12 DEF vars
<1> QED
  BY <1>1, <1>2, <1>3, <1>4, <1>5, <1>6, <1>7, <1>8, <1>9, <1>10, <1>11, <1>12
  DEF Next, Handle, Manage, Quiet

-----------------------------------------------------------------------------
\* The invariant and what it implies.

LEMMA InitInvariant == Init => IInv
  BY DEF Init, IInv, TypeOK, SpaceState, LockDiscipline, LockedSpaceStaysLive,
         CheckStillHolds, NoDoubleBooking, RefusalJustified, Exclusive, KeyShare,
         Open, Statement

LEMMA InvariantStep == IInv /\ [Next]_vars => IInv'
  BY TypeStep, LockStep, LiveStep, CheckStep, BookStep, RefusalStep DEF IInv

THEOREM InvariantHolds == Spec => []IInv
  BY InitInvariant, InvariantStep, PTL DEF Spec

\* Calls that locked their space never get a common instant of it.
THEOREM NeverDoubleBooked == Spec => []NoDoubleBooking
<1>1. IInv => NoDoubleBooking
  BY DEF IInv
<1> QED
  BY <1>1, InvariantHolds, PTL

\* The answer of the overlap query stays true until the reservation is
\* committed.
THEOREM CheckNeverStale == Spec => []CheckStillHolds
<1>1. IInv => CheckStillHolds
  BY DEF IInv
<1> QED
  BY <1>1, InvariantHolds, PTL

\* A locked space is not removed.
THEOREM LockedSpaceNeverRemoved == Spec => []LockedSpaceStaysLive
<1>1. IInv => LockedSpaceStaysLive
  BY DEF IInv
<1> QED
  BY <1>1, InvariantHolds, PTL

\* A refusal names a period that is taken for good.
THEOREM RefusalsTrue == Spec => []RefusalJustified
<1>1. IInv => RefusalJustified
  BY DEF IInv
<1> QED
  BY <1>1, InvariantHolds, PTL

-----------------------------------------------------------------------------
\* Booking implements BookingLedger.

\* The answer a request has had, as the ledger sees it.
outcome == [r \in Request |-> IF pc[r] \in Reply THEN pc[r] ELSE "open"]

LEMMA LedgerInit == Init => Ledger!Init
  BY CallAssumption DEF Init, Ledger!Init, Ledger!Calls, Reply

\* Steps of the handler before its answer, and the calls on the spaces, do not
\* show in the ledger.
LEMMA SilentStep ==
    ASSUME IInv,
           UNCHANGED <<call, booked>>, booked \cap guarded' = booked \cap guarded,
           \/ UNCHANGED pc
           \/ \E r \in Request, next \in Statement : pc[r] \notin Reply /\ Goto(r, next)
    PROVE  UNCHANGED Ledger!vars
<1>1. outcome' = outcome
  BY DEF outcome, IInv, TypeOK, Goto, Statement, Reply
<1> QED
  BY <1>1 DEF Ledger!vars, outcome

\* An answer of the handler is an answer of the ledger.
LEMMA AnswerStep ==
    ASSUME IInv, NEW r \in Request, NEW reply \in Reply,
           pc[r] \in Statement, Goto(r, reply), UNCHANGED call
    PROVE  Ledger!Answer(r, reply)
  BY DEF Ledger!Answer, IInv, TypeOK, Goto, Statement, Reply

\* A commit enters the reservation, exclusively when its space is locked.
LEMMA EnterStep ==
    ASSUME IInv, NEW r \in Request, pc[r] = "commit",
           booked' = booked \cup {r}, UNCHANGED <<call, guarded>>
    PROVE  Ledger!Enter(r)
<1>1. CASE r \in guarded
  <2>1. ASSUME NEW q \in booked \cap guarded
        PROVE  ~Ledger!Clash(call[r], call[q])
    <3>1. /\ call[r] \in [space : Space, start : Int, end : Int]
          /\ call[q] \in [space : Space, start : Int, end : Int]
      BY CallAssumption DEF IInv, TypeOK
    <3>2. SameSpace(q, r) => ~Overlaps(call[r], call[q])
      BY <1>1 DEF IInv, CheckStillHolds
    <3>3. SameSpace(q, r) => Instants(call[r]) \cap Instants(call[q]) = {}
      BY <3>1, <3>2, NoOverlapNoCommonInstant
    <3> QED
      BY <3>3 DEF Ledger!Clash, Ledger!SameSpace, Ledger!Instants, SameSpace, Instants
  <2>2. (booked \cap guarded)' = (booked \cap guarded) \cup {r}
    BY <1>1
  <2> QED
    BY <2>1, <2>2 DEF Ledger!Enter
<1>2. CASE r \notin guarded
  BY <1>2 DEF Ledger!Enter
<1> QED
  BY <1>1, <1>2

\* A refusal is contested by an entry.
LEMMA RefuseStep ==
    ASSUME IInv, NEW r \in Request, pc[r] = "refuse", Goto(r, "refused"),
           UNCHANGED <<call, booked, guarded>>
    PROVE  Ledger!Refuse(r)
<1>1. PICK q \in booked : SameSpace(q, r) /\ Overlaps(call[r], call[q])
  BY DEF IInv, RefusalJustified
<1>2. /\ call[r] \in [space : Space, start : Int, end : Int]
      /\ call[q] \in [space : Space, start : Int, end : Int]
  BY CallAssumption DEF IInv, TypeOK
<1>3. ASSUME Instants(call[r]) # {}, Instants(call[q]) # {}
      PROVE  Instants(call[r]) \cap Instants(call[q]) # {}
  <2>1. call[r].start < call[r].end /\ call[q].start < call[q].end
    BY <1>2, <1>3 DEF Instants
  <2>2. CASE call[q].start =< call[r].start
    <3>1. call[r].start \in Instants(call[r]) /\ call[r].start \in Instants(call[q])
      BY <1>1, <1>2, <2>1, <2>2 DEF Overlaps, Instants
    <3> QED
      BY <3>1
  <2>3. CASE call[r].start =< call[q].start
    <3>1. call[q].start \in Instants(call[r]) /\ call[q].start \in Instants(call[q])
      BY <1>1, <1>2, <2>1, <2>3 DEF Overlaps, Instants
    <3> QED
      BY <3>1
  <2> QED
    BY <1>2, <2>2, <2>3
<1>4. Ledger!Contests(call[r], call[q])
  BY <1>1, <1>3 DEF Ledger!Contests, Ledger!Clash, Ledger!SameSpace, Ledger!Instants,
                    SameSpace, Instants
<1>5. Ledger!Answer(r, "refused")
  BY AnswerStep DEF Reply, Statement
<1> QED
  BY <1>4, <1>5 DEF Ledger!Refuse

LEMMA LedgerStep == IInv /\ [Next]_vars => [Ledger!Next]_(Ledger!vars)
<1> SUFFICES ASSUME IInv, [Next]_vars PROVE [Ledger!Next]_(Ledger!vars)
  OBVIOUS
<1>1. ASSUME NEW r \in Request, Begin(r) PROVE UNCHANGED Ledger!vars
  BY <1>1, SilentStep DEF Begin, Statement, Reply
<1>2. ASSUME NEW r \in Request, LockSpace(r) PROVE UNCHANGED Ledger!vars
  <2>1. r \notin booked
    BY <1>2 DEF LockSpace, IInv, LockDiscipline
  <2>2. UNCHANGED <<call, booked>> /\ booked \cap guarded' = booked \cap guarded
    BY <1>2, <2>1 DEF LockSpace
  <2> QED
    BY <1>2, <2>2, SilentStep DEF LockSpace, Statement, Reply
<1>3. ASSUME NEW r \in Request, CheckOverlap(r) PROVE UNCHANGED Ledger!vars
  BY <1>3, SilentStep DEF CheckOverlap, Statement, Reply
<1>4. ASSUME NEW r \in Request, SaveRow(r) PROVE UNCHANGED Ledger!vars
  BY <1>4, SilentStep DEF SaveRow, Statement, Reply
<1>5. ASSUME NEW r \in Request, Commit(r) PROVE Ledger!Accept(r)
  BY <1>5, AnswerStep, EnterStep DEF Commit, Ledger!Accept, Statement, Reply
<1>6. ASSUME NEW r \in Request, Rollback(r) PROVE Ledger!Refuse(r) \/ Ledger!Fail(r)
  <2>1. CASE pc[r] = "refuse"
    BY <1>6, <2>1, RefuseStep DEF Rollback
  <2>2. CASE pc[r] = "abort"
    BY <1>6, <2>2, AnswerStep DEF Rollback, Ledger!Fail, Statement, Reply
  <2> QED
    BY <1>6, <2>1, <2>2 DEF Rollback
<1>7. ASSUME NEW r \in Request, ConnectionLost(r) PROVE Ledger!Fail(r)
  <2>1. Ledger!Answer(r, "failed")
    BY <1>7, AnswerStep DEF ConnectionLost, Open, Reply
  <2>2. CASE booked' = booked
    BY <1>7, <2>1, <2>2 DEF ConnectionLost, Ledger!Fail
  <2>3. CASE pc[r] = "commit" /\ booked' = booked \cup {r}
    BY <1>7, <2>1, <2>3, EnterStep DEF ConnectionLost, Ledger!Fail
  <2> QED
    BY <1>7, <2>2, <2>3 DEF ConnectionLost
<1>8. ASSUME NEW s \in Space, Manage(s) PROVE UNCHANGED Ledger!vars
  BY <1>8, SilentStep DEF Manage, CreateSpace, RemoveSpace, PatchRead, PatchSave
<1>9. CASE UNCHANGED vars
  BY <1>9 DEF vars, Ledger!vars
<1> QED
  BY <1>1, <1>2, <1>3, <1>4, <1>5, <1>6, <1>7, <1>8, <1>9
  DEF Next, Handle, Quiet, Ledger!Next

\* Every behaviour of the transactions is a behaviour of the ledger.
THEOREM BookingImplementsLedger == Spec => ImplementsLedger
  BY LedgerInit, LedgerStep, InvariantHolds, PTL DEF Spec, ImplementsLedger, Ledger!Spec
============================================================================
