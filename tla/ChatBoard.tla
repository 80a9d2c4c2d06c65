------------------------------ MODULE ChatBoard ------------------------------
(***************************************************************************)
(* What the /chats namespace promises, with no connection, statement or    *)
(* failure in sight: boards that sockets join and leave.  A message is     *)
(* posted, and may later be published: in one step to all who are at its   *)
(* board, but for its sender.                                              *)
(***************************************************************************)
EXTENDS Sequences

CONSTANTS Socket, Chat, Message

VARIABLES call,       \* who sends each message and to which chat
          room,       \* the sockets at each board
          posted,     \* the messages that are kept
          published,  \* those that have been read out
          inbox       \* what each socket has heard, in order

vars == <<call, room, posted, published, inbox>>

Init == /\ call \in [Message -> [by : Socket, chat : Chat]]
        /\ room = [c \in Chat |-> {}]
        /\ posted = {} /\ published = {}
        /\ inbox = [s \in Socket |-> <<>>]

Join(s, c) == /\ room' = [room EXCEPT ![c] = @ \cup {s}]
              /\ UNCHANGED <<call, posted, published, inbox>>

Leave(s) == /\ room' = [c \in Chat |-> room[c] \ {s}]
            /\ UNCHANGED <<call, posted, published, inbox>>

Post(m) == /\ m \notin posted
           /\ posted' = posted \cup {m}
           /\ UNCHANGED <<call, room, published, inbox>>

Publish(m) ==
    /\ m \in posted \ published
    /\ published' = published \cup {m}
    /\ inbox' = [s \in Socket |-> IF s \in room[call[m].chat] /\ s # call[m].by
                                  THEN Append(inbox[s], m) ELSE inbox[s]]
    /\ UNCHANGED <<call, room, posted>>

Next == \/ \E s \in Socket : Leave(s) \/ \E c \in Chat : Join(s, c)
        \/ \E m \in Message : Post(m) \/ Publish(m)

Spec == Init /\ [][Next]_vars
=============================================================================
