--------------------------- MODULE BookingLedger ---------------------------
(***************************************************************************)
(* What POST /reservations/:spaceId promises, with no transaction, lock,   *)
(* connection or space row in sight: a ledger of committed reservations to *)
(* which a call is added in one step or from which it stays out.           *)
(*                                                                         *)
(* An entry is exclusive when its call found the space open: exclusive     *)
(* entries of one space never share an instant.  The other entries (calls  *)
(* for a space that had been removed) are promised nothing of the kind.    *)
(***************************************************************************)
EXTENDS Integers

CONSTANTS Request,  \* the calls to POST /reservations/:spaceId
          Space     \* the ids of the spaces

VARIABLES call,      \* what each request asks for
          outcome,   \* how each request was answered, "open" until it is
          ledger,    \* requests whose reservation is committed
          exclusive  \* those entries whose call found the space open

vars == <<call, outcome, ledger, exclusive>>

Calls == [space : Space, start : Int, end : Int]

\* The instants a call reserves: the start is included, the end is not, and
\* a period that ends before it starts reserves nothing.
Instants(c) == c.start .. (c.end - 1)

SameSpace(c, d) == c.space = d.space

\* Two calls that cannot both be exclusive.
Clash(c, d) == SameSpace(c, d) /\ Instants(c) \cap Instants(d) # {}

\* An entry that justifies refusing a call.  An empty period may be refused
\* because of any reservation of its space.
Contests(c, d) ==
    /\ SameSpace(c, d)
    /\ Instants(c) # {} /\ Instants(d) # {} => Clash(c, d)

Init == /\ call \in [Request -> Calls]
        /\ outcome = [r \in Request |-> "open"]
        /\ ledger = {}
        /\ exclusive = {}

Answer(r, reply) ==
    /\ outcome[r] = "open"
    /\ outcome' = [outcome EXCEPT ![r] = reply]
    /\ UNCHANGED call

Enter(r) ==
    /\ ledger' = ledger \cup {r}
    /\ \/ /\ \A q \in exclusive : ~Clash(call[r], call[q])
          /\ exclusive' = exclusive \cup {r}
       \/ UNCHANGED exclusive

Accept(r) == Answer(r, "created") /\ Enter(r)

Refuse(r) == /\ Answer(r, "refused")
             /\ \E q \in ledger : Contests(call[r], call[q])
             /\ UNCHANGED <<ledger, exclusive>>

\* A failure leaves its caller in the dark: the entry may have been made.
Fail(r) == Answer(r, "failed") /\ (Enter(r) \/ UNCHANGED <<ledger, exclusive>>)

\* Some calls are never answered, all at once: what the ledger holds it keeps.
Crash == /\ \E R \in SUBSET Request :
               outcome' = [r \in Request |-> IF r \in R /\ outcome[r] = "open" THEN "failed"
                                             ELSE outcome[r]]
         /\ UNCHANGED <<call, ledger, exclusive>>

Next == \/ \E r \in Request : Accept(r) \/ Refuse(r) \/ Fail(r)
        \/ Crash

Spec == Init /\ [][Next]_vars
============================================================================
