------------------------------ MODULE Sessions ------------------------------
(***************************************************************************)
(* Sessions: what AuthService keeps in Redis under refresh_token_<user>,   *)
(* how login, POST /auth/token/access, POST /auth/token/refresh and logout *)
(* read and write it, and what the access tokens they hand out still open. *)
(*                                                                         *)
(* A step is one Redis command with the code around it up to the next      *)
(* await.  A token is what its JWT says: two tokens of one user signed in  *)
(* one second with the same claims are the same token.  Access tokens are  *)
(* kept nowhere by the server; of a user's, only the last to expire counts.*)
(* Redis may be restarted from an older dump.                              *)
(***************************************************************************)
EXTENDS Integers

CONSTANTS Request,     \* calls to the auth endpoints
          User,        \* the registered users
          Life,        \* how long a refresh token and its Redis key live
          AccessLife,  \* how long an access token lives
          MaxTime,     \* bound on the clock
          MaxRestarts, \* bound on the restarts of Redis
          NoToken      \* what GET returns without a key

Token == [user : User, sub : BOOLEAN, iat : 0 .. MaxTime]

\* All that AccessTokenGuard takes from an access token besides its expiry.
AccessToken == [user : User]

ASSUME TimeAssumption ==
    Life \in Nat \ {0} /\ AccessLife \in Nat \ {0} /\ MaxTime \in Nat /\ MaxRestarts \in Nat
ASSUME NoTokenAssumption == NoToken \notin Token

VARIABLES now,     \* seconds
          stored,  \* the value of refresh_token_<user>
          until,   \* when Redis drops that key
          pc,      \* the Redis command each call waits for, or its reply
          token,   \* the token a call came with, later the one it signed
          handed,  \* refresh tokens the clients have been given
          entry,   \* when the last access token of each user expires
          dump,    \* the keys, and who was out, when Redis last saved them
          restarts,
          out      \* users who logged out and have not come back since

vars == <<now, stored, until, pc, token, handed, entry, dump, restarts, out>>

Key == Token \cup {NoToken}

TypeOK == /\ now \in 0 .. MaxTime
          /\ stored \in [User -> Key]
          /\ until \in [User -> 0 .. MaxTime + Life]
          /\ pc \in [Request -> {"idle", "access", "refresh", "login",
                                 "set", "logout", "ok", "denied", "failed"}]
          /\ token \in [Request -> Key \cup AccessToken]
          /\ handed \in SUBSET Token
          /\ entry \in [User -> 0 .. MaxTime + AccessLife]
          /\ dump \in [stored : [User -> Key], until : [User -> 0 .. MaxTime + Life],
                       out : SUBSET User]
          /\ restarts \in 0 .. MaxRestarts
          /\ out \in SUBSET User

-----------------------------------------------------------------------------
\* The token of a login names its user by email and by id.
LoginToken(u) == [user |-> u, sub |-> TRUE, iat |-> now]

\* Mutant: the id of the new token is read from the sub of the old one.
RotatedWithSub(t) == [user |-> t.user, sub |-> TRUE, iat |-> now]

\* Mutant: the new token is dated ahead.
RotatedAhead(t) == [user |-> t.user, sub |-> FALSE, iat |-> now + 1]

\* The token of a rotation is signed for the claims of the old token, which
\* have an email and a sub but no id: the new token has no sub.
Rotated(t) == [user |-> t.user, sub |-> FALSE, iat |-> now]

\* Mutant: the key lives shorter than the token in it.
ShortKeyLife == Life - 1

\* EX 60 * 60 * 2, the same two hours as the token's expiresIn.
KeyLife == Life

Expired(t) == now >= t.iat + Life

\* GET refresh_token_<sub of t>.  Nothing is ever stored for a token without
\* a sub.
Lookup(t) == IF t.sub THEN stored[t.user] ELSE NoToken

\* Tokens for which the server would do something.
Serves(t) == ~Expired(t) /\ Lookup(t) = t

Goto(r, next) == pc' = [pc EXCEPT ![r] = next]

\* The call ends with a reply and forgets its token.
Answer(r, reply) == Goto(r, reply) /\ token' = [token EXCEPT ![r] = NoToken]

\* Calls whose SET is to come, of a login or of a rotation.
Setting == {r \in Request : pc[r] \in {"login", "set"}}

\* A login of u whose SET is to come.
LoggingIn(u) ==
    \E r \in Request : pc[r] = "login" /\ token[r].user = u

\* An access token is signed for u.
Admit(u) == entry' = [entry EXCEPT ![u] = now + AccessLife]

Dump == <<dump, restarts>>

-----------------------------------------------------------------------------
Init == /\ now = 0
        /\ stored = [u \in User |-> NoToken]
        /\ until = [u \in User |-> 0]
        /\ pc = [r \in Request |-> "idle"]
        /\ token = [r \in Request |-> NoToken]
        /\ handed = {}
        /\ entry = [u \in User |-> 0]
        /\ dump = [stored |-> stored, until |-> until, out |-> {}]
        /\ restarts = 0
        /\ out = {}

\* loginUser, after the password was found right: sign.
Login(r, u) == /\ pc[r] = "idle"
               /\ token' = [token EXCEPT ![r] = LoginToken(u)]
               /\ out' = out \ {u}
               /\ Goto(r, "login")
               /\ UNCHANGED <<now, stored, until, handed, entry, Dump>>

\* rotateAccessToken and rotateRefreshToken: verify the JWT.  For an expired one
\* verify throws, which nobody catches: a 500.
Present(r, t) ==
    /\ pc[r] = "idle"
    /\ \/ Expired(t) /\ Answer(r, "failed")
       \/ /\ ~Expired(t) /\ \E kind \in {"access", "refresh"} : Goto(r, kind)
          /\ token' = [token EXCEPT ![r] = t]
    /\ UNCHANGED <<now, stored, until, handed, entry, Dump, out>>

\* GET and compare.  The access token is signed and returned at once; a
\* refresh token is signed and goes to Redis first.
Get(r) ==
    /\ pc[r] \in {"access", "refresh"}
    /\ \/ /\ Lookup(token[r]) # token[r]
          /\ Answer(r, "denied") /\ UNCHANGED entry
       \/ /\ Lookup(token[r]) = token[r] /\ pc[r] = "access"
          /\ Answer(r, "ok") /\ Admit(token[r].user)
       \/ /\ Lookup(token[r]) = token[r] /\ pc[r] = "refresh"
          /\ Goto(r, "set")
          /\ token' = [token EXCEPT ![r] = Rotated(token[r])]
          /\ UNCHANGED entry
    /\ UNCHANGED <<now, stored, until, handed, Dump, out>>

Store(r) == /\ stored' = [stored EXCEPT ![token[r].user] = token[r]]
            /\ until' = [until EXCEPT ![token[r].user] = now + KeyLife]

\* SET key token EX, then the token goes to the client, that of a login with an
\* access token.
Set(r) == /\ r \in Setting
          /\ Store(r)
          /\ Answer(r, "ok")
          /\ handed' = handed \cup {token[r]}
          /\ IF pc[r] = "login" THEN Admit(token[r].user) ELSE UNCHANGED entry
          /\ UNCHANGED <<now, Dump, out>>

\* A Redis command fails, a SET perhaps after it was done: the client gets a
\* 500.
RedisFails(r) == /\ \/ r \in Setting /\ Store(r)
                    \/ /\ r \in Setting \/ pc[r] \in {"access", "refresh", "logout"}
                       /\ UNCHANGED <<stored, until>>
                 /\ Answer(r, "failed")
                 /\ UNCHANGED <<now, handed, entry, Dump, out>>

\* AccessTokenGuard of a logout, with an access token of u: the token verifies
\* and the user is found, or else the answer is a 401, also for an error.
Guard(r, u) ==
    /\ pc[r] = "idle" /\ entry[u] > 0
    /\ \/ now < entry[u] /\ Goto(r, "logout") /\ token' = [token EXCEPT ![r] = [user |-> u]]
       \/ Answer(r, "denied")
    /\ UNCHANGED <<now, stored, until, handed, entry, Dump, out>>

\* DEL refresh_token_<user>.
Logout(r) ==
    /\ pc[r] = "logout"
    /\ LET u == token[r].user
       IN  /\ stored' = [stored EXCEPT ![u] = NoToken]
           /\ out' = IF LoggingIn(u) THEN out ELSE out \cup {u}
    /\ Answer(r, "ok")
    /\ UNCHANGED <<now, until, handed, entry, Dump>>

\* A second passes and Redis drops the keys whose time has come.
Tick == /\ now < MaxTime
        /\ now' = now + 1
        /\ stored' = [u \in User |-> IF until[u] <= now' THEN NoToken ELSE stored[u]]
        /\ UNCHANGED <<until, pc, token, handed, entry, Dump, out>>

\* Redis writes its keys to disk: on its own schedule, or before it stops.
Save == /\ restarts < MaxRestarts
        /\ dump' = [stored |-> stored, until |-> until, out |-> out]
        /\ UNCHANGED <<now, stored, until, pc, token, handed, entry, restarts, out>>

\* Redis dies and is started again with the keys of the dump whose time has not
\* come, which has seen the logouts up to then only.
Restart == /\ restarts < MaxRestarts
           /\ restarts' = restarts + 1
           /\ stored' = [u \in User |-> IF dump.until[u] <= now THEN NoToken
                                        ELSE dump.stored[u]]
           /\ until' = dump.until
           /\ out' = out \cap dump.out
           /\ UNCHANGED <<now, pc, token, handed, entry, dump>>

-----------------------------------------------------------------------------
Quiet == /\ \A r \in Request : pc[r] \in {"ok", "denied", "failed"}
         /\ UNCHANGED vars

Next == \/ \E r \in Request :
             \/ \E u \in User : Login(r, u) \/ Guard(r, u)
             \/ \E t \in handed : Present(r, t)
             \/ Get(r) \/ Set(r) \/ Logout(r) \/ RedisFails(r)
        \/ Tick \/ Save \/ Restart
        \/ Quiet

Spec == Init /\ [][Next]_vars

-----------------------------------------------------------------------------
\* Safety.

\* A logout that Redis remembers is final until the next login: no token of the
\* user serves any more, not even when a rotation that read the key before the DEL
\* writes it after, nor when Redis comes back from an older dump.
LogoutHolds == \A u \in out, t \in Token : t.user = u => ~Serves(t)

\* While a user is out the API is not opened to him again: the access tokens he
\* has run out, and no rotation gives him another.
OutStaysOut == [][\A u \in out \cap out' : entry'[u] = entry[u]]_vars

\* A token in use stops serving only at its own expiry, or because its own
\* user logged in, rotated or logged out, or with Redis: never by the expiry of
\* the key, never by what another user does.
SessionEndsForAReason ==
    [][\A t \in Token : Serves(t) /\ ~Serves(t)' =>
          \/ now' >= t.iat + Life
          \/ \E r \in Setting \ Setting' : token[r].user = t.user
          \/ \E r \in Request : Logout(r) /\ token[r].user = t.user
          \/ Restart]_vars

-----------------------------------------------------------------------------
\* What a test of the repository says and the rotation does not keep.

\* An unexpired refresh token that is the one stored for its user is good for a
\* new access token.
StoredTokenServes ==
    \A u \in User : stored[u] \in handed /\ ~Expired(stored[u]) => Serves(stored[u])
=============================================================================
