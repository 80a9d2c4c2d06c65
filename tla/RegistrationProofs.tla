------------------------- MODULE RegistrationProofs -------------------------
(***************************************************************************)
(* Proofs about Registration, for any requests, emails and nicknames.      *)
(***************************************************************************)
EXTENDS Registration, TLAPS

\* Who asked and has not been overtaken since still has the values to himself.
AskedDiscipline ==
    \A r \in Request \ overtaken :
        /\ pc[r] \in {"nickname", "insert"} => SameEmail(r) = {}
        /\ pc[r] = "insert" => SameNickname(r) = {}

IInv == TypeOK /\ AskedDiscipline /\ RefusalBacked /\ ConflictOnlyIfOvertaken

\* Users stay, and what requests ask for stays.
LEMMA UsersStay ==
    ASSUME [Next]_vars
    PROVE  /\ call' = call /\ user \subseteq user' /\ overtaken \subseteq overtaken'
           /\ \A r \in Request : SameEmail(r) \subseteq SameEmail(r)'
           /\ \A r \in Request : SameNickname(r) \subseteq SameNickname(r)'
<1>1. call' = call /\ user \subseteq user' /\ overtaken \subseteq overtaken'
  BY DEF Next, Handle, CheckEmail, CheckNickname, Insert, StoreToken, StatementFails,
         AddUser, Quiet, vars
<1> QED
  BY <1>1 DEF SameEmail, SameNickname

LEMMA TypeStep == TypeOK /\ [Next]_vars => TypeOK'
<1> SUFFICES ASSUME TypeOK, [Next]_vars PROVE TypeOK'
  OBVIOUS
<1> USE DEF TypeOK, Goto, Reply, Inserted, AddUser
<1>1. ASSUME NEW r \in Request, CheckEmail(r) \/ CheckNickname(r) \/ StoreToken(r)
      PROVE  TypeOK'
  BY <1>1 DEF CheckEmail, CheckNickname, StoreToken
<1>2. ASSUME NEW r \in Request, Insert(r)
      PROVE  TypeOK'
  <2>1. CASE SameEmail(r) \cup SameNickname(r) # {}
    BY <1>2, <2>1 DEF Insert
  <2>2. CASE SameEmail(r) \cup SameNickname(r) = {}
    BY <1>2, <2>2 DEF Insert, Overtakes
  <2> QED
    BY <2>1, <2>2
<1>3. ASSUME NEW r \in Request, StatementFails(r)
      PROVE  TypeOK'
  <2>1. CASE UNCHANGED <<user, overtaken>>
    BY <1>3, <2>1 DEF StatementFails
  <2>2. CASE AddUser(r)
    BY <1>3, <2>2 DEF StatementFails, Overtakes
  <2> QED
    BY <1>3, <2>1, <2>2 DEF StatementFails
<1>4. CASE UNCHANGED vars
  BY <1>4 DEF vars
<1> QED
  BY <1>1, <1>2, <1>3, <1>4 DEF Next, Handle, Quiet

LEMMA AskedStep == IInv /\ [Next]_vars => AskedDiscipline'
<1> SUFFICES ASSUME IInv, [Next]_vars, NEW q \in Request, q \notin overtaken'
             PROVE  /\ pc'[q] \in {"nickname", "insert"} => SameEmail(q)' = {}
                    /\ pc'[q] = "insert" => SameNickname(q)' = {}
  BY DEF AskedDiscipline
<1> USE DEF IInv, TypeOK, Goto, SameEmail, SameNickname, AskedDiscipline
<1>0. q \notin overtaken
  BY UsersStay
<1>1. ASSUME NEW r \in Request, CheckEmail(r) \/ CheckNickname(r) \/ StoreToken(r)
      PROVE  /\ pc'[q] \in {"nickname", "insert"} => SameEmail(q)' = {}
             /\ pc'[q] = "insert" => SameNickname(q)' = {}
  BY <1>0, <1>1 DEF CheckEmail, CheckNickname, StoreToken
<1>2. ASSUME NEW r \in Request, Insert(r) \/ StatementFails(r)
      PROVE  /\ pc'[q] \in {"nickname", "insert"} => SameEmail(q)' = {}
             /\ pc'[q] = "insert" => SameNickname(q)' = {}
  <2>1. CASE user' = user
    BY <1>0, <1>2, <2>1 DEF Insert, StatementFails, AddUser
  <2>2. CASE AddUser(r)
    BY <1>0, <1>2, <2>2 DEF Insert, StatementFails, AddUser, Overtakes
  <2> QED
    BY <1>2, <2>1, <2>2 DEF Insert, StatementFails
<1>3. CASE UNCHANGED vars
  BY <1>0, <1>3 DEF vars
<1> QED
  BY <1>1, <1>2, <1>3 DEF Next, Handle, Quiet

LEMMA RefusalStep == IInv /\ [Next]_vars => RefusalBacked'
<1> SUFFICES ASSUME IInv, [Next]_vars, NEW q \in Request
             PROVE  /\ pc'[q] = "emailTaken" => SameEmail(q)' # {}
                    /\ pc'[q] = "nicknameTaken" => SameNickname(q)' # {}
                    /\ pc'[q] = "conflict" => SameEmail(q)' \cup SameNickname(q)' # {}
  BY DEF RefusalBacked
<1>1. SameEmail(q) \subseteq SameEmail(q)' /\ SameNickname(q) \subseteq SameNickname(q)'
  BY UsersStay
<1>2. /\ pc'[q] = "emailTaken" => SameEmail(q) # {}
      /\ pc'[q] = "nicknameTaken" => SameNickname(q) # {}
      /\ pc'[q] = "conflict" => SameEmail(q) \cup SameNickname(q) # {}
  BY DEF IInv, TypeOK, RefusalBacked, Next, Handle, CheckEmail, CheckNickname, Insert,
         StoreToken, StatementFails, Goto, Quiet, vars
<1> QED
  BY <1>1, <1>2

LEMMA ConflictStep == IInv /\ [Next]_vars => ConflictOnlyIfOvertaken'
<1> SUFFICES ASSUME IInv, [Next]_vars, NEW q \in Request, pc'[q] = "conflict"
             PROVE  q \in overtaken'
  BY DEF ConflictOnlyIfOvertaken
<1>1. CASE pc[q] = "conflict"
  BY <1>1, UsersStay DEF IInv, ConflictOnlyIfOvertaken
<1>2. CASE pc[q] # "conflict"
  <2>1. Insert(q) /\ SameEmail(q) \cup SameNickname(q) # {}
    BY <1>2 DEF IInv, TypeOK, Next, Handle, CheckEmail, CheckNickname, Insert,
                StoreToken, StatementFails, Goto, Quiet, vars
  <2> QED
    BY <2>1, UsersStay DEF IInv, AskedDiscipline, Insert
<1> QED
  BY <1>1, <1>2

-----------------------------------------------------------------------------
\* The inductive invariant holds.
THEOREM InvariantHolds == Spec => []IInv
<1>1. Init => IInv
  BY DEF Init, IInv, TypeOK, Inserted, AskedDiscipline, RefusalBacked, ConflictOnlyIfOvertaken,
         SameEmail, SameNickname
<1>2. IInv /\ [Next]_vars => IInv'
  BY TypeStep, AskedStep, RefusalStep, ConflictStep DEF IInv
<1> QED
  BY <1>1, <1>2, PTL DEF Spec

\* The variables keep their types, and the users are those of requests whose insert
\* was done.
THEOREM TypeCorrect == Spec => []TypeOK
<1>1. IInv => TypeOK
  BY DEF IInv
<1> QED
  BY <1>1, InvariantHolds, PTL

\* Every refusal is backed by a user who has the value.
THEOREM RefusalsBacked == Spec => []RefusalBacked
<1>1. IInv => RefusalBacked
  BY DEF IInv
<1> QED
  BY <1>1, InvariantHolds, PTL

\* The unique columns reject only requests that were overtaken.
THEOREM ConflictsOvertaken == Spec => []ConflictOnlyIfOvertaken
<1>1. IInv => ConflictOnlyIfOvertaken
  BY DEF IInv
<1> QED
  BY <1>1, InvariantHolds, PTL
=============================================================================
