---------------------------- MODULE Registration ----------------------------
(***************************************************************************)
(* POST /auth/register/email: AuthService.registerWithEmail and            *)
(* UsersService.createUser.                                                *)
(*                                                                         *)
(* A registration asks whether its email is taken, then whether its        *)
(* nickname is, and inserts the user, each by a statement of its own; the  *)
(* unique columns of the table have the last word.  Then the refresh token *)
(* is stored in Redis, which may fail with the user already made.  Any     *)
(* other statement may fail, too, the INSERT perhaps after it was done.    *)
(***************************************************************************)
EXTENDS Naturals

CONSTANTS Request, Email, Nickname

Call == [email : Email, nickname : Nickname]

VARIABLES call,      \* what each request registers
          pc,        \* the statement each request sends next, or its reply
          user,      \* requests whose user is in the table
          overtaken  \* requests that lost a value to another after asking for it

vars == <<call, pc, user, overtaken>>

\* The last three are errors the handler does not expect: a 500.
Reply == {"created", "emailTaken", "nicknameTaken", "conflict", "noSession", "failed"}

\* Requests that got past the insert.
Inserted == {"set", "created", "noSession"}

\* Besides their users there are those of inserts whose answer was lost.
TypeOK == /\ call \in [Request -> Call]
          /\ pc \in [Request -> {"email", "nickname", "insert", "set"} \cup Reply]
          /\ user \subseteq {r \in Request : pc[r] \in Inserted \cup {"failed"}}
          /\ {r \in Request : pc[r] \in Inserted} \subseteq user
          /\ overtaken \in SUBSET Request

-----------------------------------------------------------------------------
Goto(r, to) == pc' = [pc EXCEPT ![r] = to]

SameEmail(r) == {q \in user : call[q].email = call[r].email}
SameNickname(r) == {q \in user : call[q].nickname = call[r].nickname}

\* Requests whose question about a value of r has been answered already.
Overtakes(r) ==
    {q \in Request \ {r} :
        \/ pc[q] \in {"nickname", "insert"} /\ call[q].email = call[r].email
        \/ pc[q] = "insert" /\ call[q].nickname = call[r].nickname}

Init == /\ call \in [Request -> Call]
        /\ pc = [r \in Request |-> "email"]
        /\ user = {}
        /\ overtaken = {}

-----------------------------------------------------------------------------
CheckEmail(r) ==
    /\ pc[r] = "email"
    /\ Goto(r, IF SameEmail(r) # {} THEN "emailTaken" ELSE "nickname")
    /\ UNCHANGED <<call, user, overtaken>>

\* Mutant: the question about the nickname is not asked.
NicknameUnchecked(r) ==
    /\ pc[r] = "nickname"
    /\ Goto(r, "insert")
    /\ UNCHANGED <<call, user, overtaken>>

CheckNickname(r) ==
    /\ pc[r] = "nickname"
    /\ Goto(r, IF SameNickname(r) # {} THEN "nicknameTaken" ELSE "insert")
    /\ UNCHANGED <<call, user, overtaken>>

\* Mutants: the save is not awaited, its rejection is lost; the row of a
\* rejected insert counts for the others.
InsertNotAwaited(r) ==
    /\ pc[r] = "insert"
    /\ Goto(r, "set")
    /\ IF SameEmail(r) \cup SameNickname(r) # {}
       THEN UNCHANGED <<user, overtaken>>
       ELSE user' = user \cup {r} /\ overtaken' = overtaken \cup Overtakes(r)
    /\ UNCHANGED call

InsertFirstCome(r) ==
    /\ pc[r] = "insert"
    /\ IF Overtakes(r) # {}
       THEN Goto(r, "conflict") /\ UNCHANGED <<user, overtaken>>
       ELSE /\ Goto(r, "set")
            /\ user' = user \cup {r}
            /\ overtaken' = overtaken \cup Overtakes(r)
    /\ UNCHANGED call

\* The row of r is committed, to the cost of requests that asked before.
AddUser(r) == /\ user' = user \cup {r}
              /\ overtaken' = overtaken \cup Overtakes(r)

\* save: a unique column that has the value already rejects the row.
Insert(r) ==
    /\ pc[r] = "insert"
    /\ IF SameEmail(r) \cup SameNickname(r) # {}
       THEN Goto(r, "conflict") /\ UNCHANGED <<user, overtaken>>
       ELSE Goto(r, "set") /\ AddUser(r)
    /\ UNCHANGED call

\* A statement fails in the database or on the way from it.
StatementFails(r) ==
    /\ pc[r] \in {"email", "nickname", "insert"}
    /\ Goto(r, "failed")
    /\ \/ UNCHANGED <<user, overtaken>>
       \/ pc[r] = "insert" /\ SameEmail(r) \cup SameNickname(r) = {} /\ AddUser(r)
    /\ UNCHANGED call

\* loginUser: the SET is answered, or rejected.
StoreToken(r) ==
    /\ pc[r] = "set"
    /\ \E end \in {"created", "noSession"} : Goto(r, end)
    /\ UNCHANGED <<call, user, overtaken>>

Handle(r) == CheckEmail(r) \/ CheckNickname(r) \/ Insert(r) \/ StoreToken(r)
             \/ StatementFails(r)

\* Everybody has a reply.
Quiet == (\A r \in Request : pc[r] \in Reply) /\ UNCHANGED vars

Next == (\E r \in Request : Handle(r)) \/ Quiet

Spec == Init /\ [][Next]_vars

-----------------------------------------------------------------------------
\* Safety.

\* Who is refused, by an answer or by the table, lost to a user who is there,
\* if perhaps one whose own registration was answered with an error.
RefusalBacked ==
    \A r \in Request :
        /\ pc[r] = "emailTaken" => SameEmail(r) # {}
        /\ pc[r] = "nicknameTaken" => SameNickname(r) # {}
        /\ pc[r] = "conflict" => SameEmail(r) \cup SameNickname(r) # {}

\* The table rejects only who was overtaken after asking.
ConflictOnlyIfOvertaken ==
    \A r \in Request : pc[r] = "conflict" => r \in overtaken
=============================================================================
