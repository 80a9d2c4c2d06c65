--------------------------- MODULE SessionsProofs ---------------------------
(***************************************************************************)
(* Proofs about Sessions for any calls, users and lifetimes.               *)
(***************************************************************************)
EXTENDS Sessions, TLAPS

\* No SET of a login is outstanding for a user who is out, and only such a SET
\* brings a token that serves.
OutDiscipline ==
    /\ \A u \in out : /\ ~LoggingIn(u)
                      /\ stored[u] # NoToken => ~stored[u].sub
    /\ \A r \in Request : pc[r] = "set" => ~token[r].sub

\* A key outlives the token in it, which is the token of its user.
KeyDiscipline ==
    /\ \A r \in Request :
          /\ pc[r] \in {"access", "refresh", "login", "set"} => token[r] \in Token
          /\ pc[r] = "logout" => token[r] \in AccessToken
    /\ \A r \in Setting : token[r].iat =< now
    /\ \A u \in User : stored[u] # NoToken =>
          stored[u].user = u /\ stored[u].iat + Life =< until[u]

\* The same of the dump.
DumpDiscipline ==
    \A u \in User : dump.stored[u] # NoToken =>
        /\ dump.stored[u].user = u
        /\ dump.stored[u].iat + Life =< dump.until[u]
        /\ u \in dump.out => ~dump.stored[u].sub

IInv == TypeOK /\ OutDiscipline /\ KeyDiscipline /\ DumpDiscipline

\* Each part of the invariant is preserved by every step.

LEMMA TypeStep == IInv /\ [Next]_vars => TypeOK'
<1> USE TimeAssumption, NoTokenAssumption DEF IInv, TypeOK, KeyDiscipline, Setting, Token,
       AccessToken, Key, Dump
<1> SUFFICES ASSUME IInv, [Next]_vars PROVE TypeOK'
  OBVIOUS
<1>1. ASSUME NEW r \in Request, NEW u \in User, Login(r, u)
      PROVE  TypeOK'
  BY <1>1 DEF Login, LoginToken, Goto
<1>2. ASSUME NEW r \in Request, Logout(r)
      PROVE  TypeOK'
  BY <1>2 DEF Logout, Answer, Goto
<1>3. ASSUME NEW r \in Request, NEW t \in handed, Present(r, t)
      PROVE  TypeOK'
  BY <1>3 DEF Present, Answer, Goto
<1>4. ASSUME NEW r \in Request, Get(r)
      PROVE  TypeOK'
  <2>1. CASE \E reply \in {"denied", "ok"} : Answer(r, reply)
    BY <1>4, <2>1 DEF Get, Answer, Goto, Admit
  <2>2. CASE token' = [token EXCEPT ![r] = Rotated(token[r])] /\ Goto(r, "set") /\ UNCHANGED entry
    BY <1>4, <2>2 DEF Get, Rotated, Goto
  <2> QED
    BY <1>4, <2>1, <2>2 DEF Get
<1>5. ASSUME NEW r \in Request, Set(r)
      PROVE  TypeOK'
  BY <1>5 DEF Set, Store, KeyLife, Answer, Goto, Admit
<1>6. ASSUME NEW r \in Request, RedisFails(r)
      PROVE  TypeOK'
  <2>1. CASE r \in Setting /\ Store(r)
    BY <1>6, <2>1 DEF RedisFails, Store, KeyLife, Answer, Goto
  <2>2. CASE UNCHANGED <<stored, until>>
    BY <1>6, <2>2 DEF RedisFails, Answer, Goto
  <2> QED
    BY <1>6, <2>1, <2>2 DEF RedisFails
<1>7. CASE Tick
  BY <1>7 DEF Tick
<1>8. CASE UNCHANGED vars
  BY <1>8 DEF vars
<1>9. ASSUME NEW r \in Request, NEW u \in User, Guard(r, u)
      PROVE  TypeOK'
  BY <1>9 DEF Guard, Answer, Goto
<1>10. CASE Save
  BY <1>10 DEF Save
<1>11. CASE Restart
  BY <1>11 DEF Restart
<1> QED
  BY <1>1, <1>2, <1>3, <1>4, <1>5, <1>6, <1>7, <1>8, <1>9, <1>10, <1>11 DEF Next, Quiet

LEMMA OutStep == IInv /\ [Next]_vars => OutDiscipline'
<1> USE NoTokenAssumption DEF IInv, TypeOK, KeyDiscipline, OutDiscipline, DumpDiscipline,
       LoggingIn, Setting, Key, Dump
<1> SUFFICES ASSUME IInv, [Next]_vars PROVE OutDiscipline'
  OBVIOUS
<1>1. ASSUME NEW r \in Request, NEW u \in User, Login(r, u)
      PROVE  OutDiscipline'
  BY <1>1 DEF Login, LoginToken, Goto
<1>2. ASSUME NEW r \in Request, Logout(r)
      PROVE  OutDiscipline'
  <2>1. token[r].user \in User
    BY <1>2 DEF Logout, AccessToken
  <2>2. \A q \in Request : pc'[q] \in {"login", "set"} =>
            q # r /\ pc[q] = pc'[q] /\ token'[q] = token[q]
    BY <1>2 DEF Logout, Answer, Goto
  <2> QED
    BY <1>2, <2>1, <2>2 DEF Logout
<1>3. ASSUME NEW r \in Request, NEW t \in handed, Present(r, t)
      PROVE  OutDiscipline'
  BY <1>3 DEF Present, Answer, Goto
<1>4. ASSUME NEW r \in Request, Get(r)
      PROVE  OutDiscipline'
  <2>1. CASE \E reply \in {"denied", "ok"} : Answer(r, reply)
    BY <1>4, <2>1 DEF Get, Answer, Goto
  <2>2. CASE token' = [token EXCEPT ![r] = Rotated(token[r])] /\ Goto(r, "set") /\ UNCHANGED entry
    BY <1>4, <2>2 DEF Get, Rotated, Goto
  <2> QED
    BY <1>4, <2>1, <2>2 DEF Get
<1>5. ASSUME NEW r \in Request, Set(r)
      PROVE  OutDiscipline'
  BY <1>5 DEF Set, Store, KeyLife, Answer, Goto
<1>6. ASSUME NEW r \in Request, RedisFails(r)
      PROVE  OutDiscipline'
  <2>1. CASE r \in Setting /\ Store(r)
    BY <1>6, <2>1 DEF RedisFails, Store, KeyLife, Answer, Goto
  <2>2. CASE UNCHANGED <<stored, until>>
    BY <1>6, <2>2 DEF RedisFails, Answer, Goto
  <2> QED
    BY <1>6, <2>1, <2>2 DEF RedisFails
<1>7. CASE Tick
  BY <1>7 DEF Tick
<1>8. CASE UNCHANGED vars
  BY <1>8 DEF vars
<1>9. ASSUME NEW r \in Request, NEW u \in User, Guard(r, u)
      PROVE  OutDiscipline'
  BY <1>9 DEF Guard, Answer, Goto
<1>10. CASE Save
  BY <1>10 DEF Save
<1>11. CASE Restart
  BY <1>11 DEF Restart
<1> QED
  BY <1>1, <1>2, <1>3, <1>4, <1>5, <1>6, <1>7, <1>8, <1>9, <1>10, <1>11 DEF Next, Quiet

LEMMA KeyStep == IInv /\ [Next]_vars => KeyDiscipline'
<1> USE TimeAssumption, NoTokenAssumption DEF IInv, TypeOK, KeyDiscipline, DumpDiscipline,
       Setting, Token, AccessToken, Key, Dump
<1> SUFFICES ASSUME IInv, [Next]_vars PROVE KeyDiscipline'
  OBVIOUS
<1>1. ASSUME NEW r \in Request, NEW u \in User, Login(r, u)
      PROVE  KeyDiscipline'
  BY <1>1 DEF Login, LoginToken, Goto
<1>2. ASSUME NEW r \in Request, Logout(r)
      PROVE  KeyDiscipline'
  BY <1>2 DEF Logout, Answer, Goto
<1>3. ASSUME NEW r \in Request, NEW t \in handed, Present(r, t)
      PROVE  KeyDiscipline'
  BY <1>3 DEF Present, Answer, Goto
<1>4. ASSUME NEW r \in Request, Get(r)
      PROVE  KeyDiscipline'
  <2>1. CASE \E reply \in {"denied", "ok"} : Answer(r, reply)
    BY <1>4, <2>1 DEF Get, Answer, Goto
  <2>2. CASE token' = [token EXCEPT ![r] = Rotated(token[r])] /\ Goto(r, "set") /\ UNCHANGED entry
    BY <1>4, <2>2 DEF Get, Rotated, Goto
  <2> QED
    BY <1>4, <2>1, <2>2 DEF Get
<1>5. ASSUME NEW r \in Request, Set(r)
      PROVE  KeyDiscipline'
  BY <1>5 DEF Set, Store, KeyLife, Answer, Goto
<1>6. ASSUME NEW r \in Request, RedisFails(r)
      PROVE  KeyDiscipline'
  <2>1. CASE r \in Setting /\ Store(r)
    BY <1>6, <2>1 DEF RedisFails, Store, KeyLife, Answer, Goto
  <2>2. CASE UNCHANGED <<stored, until>>
    BY <1>6, <2>2 DEF RedisFails, Answer, Goto
  <2> QED
    BY <1>6, <2>1, <2>2 DEF RedisFails
<1>7. CASE Tick
  BY <1>7 DEF Tick
<1>8. CASE UNCHANGED vars
  BY <1>8 DEF vars
<1>9. ASSUME NEW r \in Request, NEW u \in User, Guard(r, u)
      PROVE  KeyDiscipline'
  BY <1>9 DEF Guard, Answer, Goto
<1>10. CASE Save
  BY <1>10 DEF Save
<1>11. CASE Restart
  BY <1>11 DEF Restart
<1> QED
  BY <1>1, <1>2, <1>3, <1>4, <1>5, <1>6, <1>7, <1>8, <1>9, <1>10, <1>11 DEF Next, Quiet

LEMMA DumpStep == IInv /\ [Next]_vars => DumpDiscipline'
<1> SUFFICES ASSUME IInv, [Next]_vars PROVE DumpDiscipline'
  OBVIOUS
<1>1. CASE Save
  BY <1>1 DEF Save, IInv, TypeOK, OutDiscipline, KeyDiscipline, DumpDiscipline, Key
<1>2. CASE UNCHANGED dump
  BY <1>2 DEF IInv, DumpDiscipline
<1> QED
  BY <1>1, <1>2 DEF Next, Quiet, vars, Login, Guard, Present, Get, Set, Logout, RedisFails, Tick,
                    Restart, Dump

-----------------------------------------------------------------------------
\* The invariant and what it implies.

THEOREM InvariantHolds == Spec => []IInv
<1>1. Init => IInv
  BY TimeAssumption
  DEF Init, IInv, TypeOK, OutDiscipline, KeyDiscipline, DumpDiscipline, LoggingIn, Setting, Key
<1>2. IInv /\ [Next]_vars => IInv'
  BY TypeStep, OutStep, KeyStep, DumpStep DEF IInv
<1> QED
  BY <1>1, <1>2, PTL DEF Spec

\* The variables keep their types.
THEOREM TypeCorrect == Spec => []TypeOK
<1>1. IInv => TypeOK
  BY DEF IInv
<1> QED
  BY <1>1, InvariantHolds, PTL

\* After a logout no token of the user serves until the next login.
THEOREM LogoutAlwaysHolds == Spec => []LogoutHolds
<1>1. IInv => LogoutHolds
  BY NoTokenAssumption DEF IInv, TypeOK, OutDiscipline, LogoutHolds, Serves, Lookup, Key
<1> QED
  BY <1>1, InvariantHolds, PTL

\* While a user is out no access token is signed for him.
THEOREM OutNeverAdmitted == Spec => OutStaysOut
<1>1. ASSUME IInv, [Next]_vars, NEW u \in out \cap out'
      PROVE  entry'[u] = entry[u]
  <2> USE NoTokenAssumption DEF IInv, TypeOK, OutDiscipline, KeyDiscipline, Key
  <2>1. u \in User /\ ~LoggingIn(u) /\ \A t \in Token : t.user = u => Lookup(t) # t
    BY <1>1 DEF Lookup
  <2>2. ASSUME NEW r \in Request, Get(r) PROVE entry'[u] = entry[u]
    <3>1. token[r] \in Token /\ token[r].user \in User
      BY <1>1, <2>2 DEF Get, Token
    <3>2. CASE token[r].user = u
      BY <1>1, <2>1, <2>2, <3>1, <3>2 DEF Get
    <3>3. CASE token[r].user # u
      BY <1>1, <2>1, <2>2, <3>1, <3>3 DEF Get, Admit
    <3> QED
      BY <3>2, <3>3
  <2>3. ASSUME NEW r \in Request, Set(r) PROVE entry'[u] = entry[u]
    BY <1>1, <2>1, <2>3 DEF Set, LoggingIn, Admit
  <2> QED
    BY <1>1, <2>2, <2>3
       DEF Next, Quiet, vars, Login, Guard, Present, Logout, RedisFails, Tick, Save, Restart
<1>2. IInv /\ [Next]_vars => [\A u \in out \cap out' : entry'[u] = entry[u]]_vars
  BY <1>1
<1> QED
  BY <1>2, InvariantHolds, PTL DEF Spec, OutStaysOut

\* A session is ended by its expiry, by its own user or with Redis.
THEOREM SessionsEndForAReason == Spec => SessionEndsForAReason
<1> DEFINE Reason(t) ==
      \/ now' >= t.iat + Life
      \/ \E r \in Setting \ Setting' : token[r].user = t.user
      \/ \E r \in Request : Logout(r) /\ token[r].user = t.user
      \/ Restart
<1>1. ASSUME IInv, [Next]_vars, NEW t \in Token, Serves(t), ~Serves(t)'
      PROVE  Reason(t)
  <2> USE TimeAssumption, NoTokenAssumption
      DEF IInv, TypeOK, KeyDiscipline, Setting, Token, Serves, Lookup, Expired
  <2>1. t.sub /\ t.user \in User /\ stored[t.user] = t /\ now < t.iat + Life
    BY <1>1
  <2>2. stored'[t.user] = t => Reason(t)
    BY <1>1, <2>1
  <2>3. ASSUME NEW r \in Request, NEW u \in User, Login(r, u) \/ Guard(r, u) PROVE Reason(t)
    BY <2>1, <2>2, <2>3 DEF Login, Guard
  <2>4. ASSUME NEW r \in Request, Logout(r) PROVE Reason(t)
    <3>1. CASE token[r].user = t.user
      BY <2>4, <3>1
    <3>2. CASE token[r].user # t.user
      BY <1>1, <2>1, <2>2, <2>4, <3>2 DEF Logout
    <3> QED
      BY <3>1, <3>2
  <2>5. ASSUME NEW r \in Request, NEW s \in handed, Present(r, s) PROVE Reason(t)
    BY <2>1, <2>2, <2>5 DEF Present
  <2>6. ASSUME NEW r \in Request, Get(r) PROVE Reason(t)
    BY <2>1, <2>2, <2>6 DEF Get
  <2>7. ASSUME NEW r \in Request, Set(r) \/ RedisFails(r) PROVE Reason(t)
    <3>1. CASE r \in Setting /\ token[r].user = t.user
      <4>1. r \notin Setting'
        BY <1>1, <2>7, <3>1 DEF Set, RedisFails, Answer, Goto
      <4> QED
        BY <3>1, <4>1
    <3>2. CASE r \in Setting /\ token[r].user # t.user
      <4>1. stored'[t.user] = stored[t.user]
        BY <1>1, <2>1, <2>7, <3>2 DEF Set, RedisFails, Store
      <4> QED
        BY <2>1, <2>2, <4>1
    <3>3. CASE r \notin Setting
      <4>1. stored' = stored
        BY <2>7, <3>3 DEF Set, RedisFails
      <4> QED
        BY <2>1, <2>2, <4>1
    <3> QED
      BY <3>1, <3>2, <3>3
  <2>8. CASE Tick
    BY <1>1, <2>1, <2>2, <2>8 DEF Tick
  <2>9. CASE Save \/ UNCHANGED vars
    BY <2>1, <2>2, <2>9 DEF Save, vars
  <2>10. CASE Restart
    BY <2>10
  <2> QED
    BY <1>1, <2>3, <2>4, <2>5, <2>6, <2>7, <2>8, <2>9, <2>10 DEF Next, Quiet
<1>2. IInv /\ [Next]_vars => [\A t \in Token : Serves(t) /\ ~Serves(t)' => Reason(t)]_vars
  BY <1>1
<1> QED
  BY <1>2, InvariantHolds, PTL DEF Spec, SessionEndsForAReason
=============================================================================
