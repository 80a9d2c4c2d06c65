----------------------------- MODULE ChatGateway -----------------------------
(***************************************************************************)
(* The /chats namespace: ChatsGateway and MessagesService.                 *)
(*                                                                         *)
(* A connection looks its user up while its other events are already being *)
(* handled.  A message is saved, read again with its chat, and emitted to  *)
(* the socket room of the chat but for the sender's own socket; between    *)
(* these, sockets join, disconnect and send.  Messages are named after the *)
(* send_message events that bring them.                                    *)
(***************************************************************************)
EXTENDS Integers, Sequences

CONSTANTS Socket,    \* connections; a client that comes back has a new one
          Chat,      \* ids of chat rooms
          Message,
          MaxFaults  \* bound on the statements that fail

ASSUME FaultAssumption == MaxFaults \in Nat

VARIABLES conn,    \* how far each connection is
          room,    \* the sockets that joined each room
          made,    \* chats with a row in the table
          call,    \* who sends each message and to which chat
          pc,      \* what is done next for a message, or what became of it
          saved,   \* the message table
          inbox,   \* receive_message events sent to each socket, in order
          owed,    \* members since the message was saved
          faults

vars == <<conn, room, made, call, pc, saved, inbox, owed, faults>>

Connected == {s \in Socket : conn[s] \in {"finding", "ready"}}

\* Only connected sockets are in rooms.
TypeOK == /\ conn \in [Socket -> {"new", "finding", "ready", "gone"}]
          /\ room \in [Chat -> SUBSET Connected]
          /\ made \in SUBSET Chat
          /\ call \in [Message -> [by : Socket, chat : Chat]]
          /\ pc \in [Message -> {"idle", "save", "reread", "sent", "rejected", "lost"}]
          /\ saved \in SUBSET Message
          /\ inbox \in [Socket -> Seq(Message)]
          /\ owed \in [Message -> SUBSET Socket]
          /\ faults \in 0 .. MaxFaults

-----------------------------------------------------------------------------
Goto(m, to) == pc' = [pc EXCEPT ![m] = to]

\* The sockets that socket.to(chat) reaches.
Others(m) == room[call[m].chat] \ {call[m].by}

Received(s) == {inbox[s][k] : k \in 1 .. Len(inbox[s])}

Deliver(m, to) ==
    inbox' = [s \in Socket |-> IF s \in to THEN Append(inbox[s], m) ELSE inbox[s]]

Init == /\ conn = [s \in Socket |-> "new"]
        /\ room = [c \in Chat |-> {}]
        /\ made \in SUBSET Chat
        /\ call \in [Message -> [by : Socket, chat : Chat]]
        /\ pc = [m \in Message |-> "idle"]
        /\ saved = {}
        /\ inbox = [s \in Socket |-> <<>>]
        /\ owed = [m \in Message |-> {}]
        /\ faults = 0

-----------------------------------------------------------------------------
\* handleConnection, up to its await.  Without a valid token it disconnects.
Connect(s) ==
    /\ conn[s] = "new"
    /\ \E next \in {"finding", "gone"} : conn' = [conn EXCEPT ![s] = next]
    /\ UNCHANGED <<room, made, call, pc, saved, inbox, owed, faults>>

\* The user is found, and his socket may send.
UserFound(s) ==
    /\ conn[s] = "finding"
    /\ conn' = [conn EXCEPT ![s] = "ready"]
    /\ UNCHANGED <<room, made, call, pc, saved, inbox, owed, faults>>

\* Mutant: the rooms are not left.
DisconnectInRooms(s) ==
    /\ s \in Connected
    /\ conn' = [conn EXCEPT ![s] = "gone"]
    /\ owed' = [m \in Message |-> owed[m] \ {s}]
    /\ UNCHANGED <<room, made, call, pc, saved, inbox, faults>>

\* The user is not found, or the client goes: the socket leaves its rooms.
Disconnect(s) ==
    /\ s \in Connected
    /\ conn' = [conn EXCEPT ![s] = "gone"]
    /\ room' = [c \in Chat |-> room[c] \ {s}]
    /\ owed' = [m \in Message |-> owed[m] \ {s}]
    /\ UNCHANGED <<made, call, pc, saved, inbox, faults>>

\* join_room asks neither for a user nor for a chat.
JoinRoom(s, c) ==
    /\ s \in Connected
    /\ room' = [room EXCEPT ![c] = @ \cup {s}]
    /\ UNCHANGED <<conn, made, call, pc, saved, inbox, owed, faults>>

\* send_message: before its user is found the socket has none to send for.
SendMessage(m) ==
    /\ pc[m] = "idle" /\ call[m].by \in Connected
    /\ Goto(m, IF conn[call[m].by] = "ready" THEN "save" ELSE "rejected")
    /\ UNCHANGED <<conn, room, made, call, saved, inbox, owed, faults>>

-----------------------------------------------------------------------------
\* Mutant: the message is emitted before it is known to be saved.
SaveEmitting(m) ==
    /\ pc[m] = "save"
    /\ Deliver(m, Others(m))
    /\ IF call[m].chat \in made
       THEN Goto(m, "sent") /\ saved' = saved \cup {m} /\ owed' = [owed EXCEPT ![m] = Others(m)]
       ELSE Goto(m, "rejected") /\ UNCHANGED <<saved, owed>>
    /\ UNCHANGED <<conn, room, made, call, faults>>

\* createMessage, save: the foreign key rejects a message to no chat.
Save(m) ==
    /\ pc[m] = "save"
    /\ IF call[m].chat \in made
       THEN Goto(m, "reread") /\ saved' = saved \cup {m} /\ owed' = [owed EXCEPT ![m] = Others(m)]
       ELSE Goto(m, "rejected") /\ UNCHANGED <<saved, owed>>
    /\ UNCHANGED <<conn, room, made, call, inbox, faults>>

\* Mutants: the members are sent the message one at a time; nobody is when the
\* sender has gone.
EmitOneByOne(m) ==
    /\ pc[m] = "reread"
    /\ LET left == {s \in Others(m) : m \notin Received(s)}
       IN  \/ left = {} /\ Goto(m, "sent") /\ UNCHANGED inbox
           \/ \E s \in left : Deliver(m, {s}) /\ UNCHANGED pc
    /\ UNCHANGED <<conn, room, made, call, saved, owed, faults>>

EmitWhileConnected(m) ==
    /\ pc[m] = "reread"
    /\ Goto(m, "sent")
    /\ Deliver(m, IF call[m].by \in Connected THEN Others(m) ELSE {})
    /\ UNCHANGED <<conn, room, made, call, saved, owed, faults>>

\* createMessage, findOne, and the emit to whoever is in the room by then.
Emit(m) ==
    /\ pc[m] = "reread"
    /\ Goto(m, "sent")
    /\ Deliver(m, Others(m))
    /\ UNCHANGED <<conn, room, made, call, saved, owed, faults>>

\* A statement fails: after the save the message stays and nobody is told.
StatementFails(m) ==
    /\ faults < MaxFaults /\ faults' = faults + 1
    /\ \/ pc[m] = "save" /\ Goto(m, "rejected") /\ UNCHANGED saved
       \/ pc[m] = "save" /\ call[m].chat \in made /\ Goto(m, "lost") /\ saved' = saved \cup {m}
       \/ pc[m] = "reread" /\ Goto(m, "lost") /\ UNCHANGED saved
    /\ UNCHANGED <<conn, room, made, call, inbox, owed>>

\* A confirmation makes the room of its reservation.
MakeChat(c) ==
    /\ c \notin made
    /\ made' = made \cup {c}
    /\ UNCHANGED <<conn, room, call, pc, saved, inbox, owed, faults>>

-----------------------------------------------------------------------------
Handle(m) == SendMessage(m) \/ Save(m) \/ Emit(m) \/ StatementFails(m)

Attend(s) == \/ Connect(s) \/ UserFound(s) \/ Disconnect(s)
             \/ \E c \in Chat : JoinRoom(s, c)

\* Everybody has gone and nothing is under way.
Quiet == /\ \A s \in Socket : conn[s] = "gone"
         /\ \A m \in Message : pc[m] \notin {"save", "reread"}
         /\ UNCHANGED vars

Next == \/ \E m \in Message : Handle(m)
        \/ \E s \in Socket : Attend(s)
        \/ \E c \in Chat : MakeChat(c)
        \/ Quiet

Spec == Init /\ [][Next]_vars

-----------------------------------------------------------------------------
\* Safety.

\* Whatever two sockets both receive, they receive in the same order, although
\* the handlers of the messages overlap.
SameOrder ==
    \A s, t \in Socket : \A j, k \in 1 .. Len(inbox[s]) : \A x, y \in 1 .. Len(inbox[t]) :
        inbox[s][j] = inbox[t][x] /\ inbox[s][k] = inbox[t][y] => (j < k <=> x < y)

\* Once a message is out, every socket that has been in the room since it was
\* saved has received it, the sender gone or not.
MembersServed ==
    \A m \in Message : pc[m] = "sent" => \A s \in owed[m] : m \in Received(s)

\* What a socket receives is in the table, comes once, and is not its own.
ReceivedIsSaved ==
    \A s \in Socket :
        /\ \A j, k \in 1 .. Len(inbox[s]) : inbox[s][j] = inbox[s][k] => j = k
        /\ \A m \in Received(s) : m \in saved /\ call[m].by # s

-----------------------------------------------------------------------------
\* The boards this protocol implements: what is in the table is posted, what has been
\* emitted is published.

Board == INSTANCE ChatBoard WITH
             posted    <- saved,
             published <- {m \in Message : pc[m] = "sent"}

\* ChatGateway implements ChatBoard.
ImplementsBoard == Board!Spec
=============================================================================
