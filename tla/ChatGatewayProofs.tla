-------------------------- MODULE ChatGatewayProofs --------------------------
(***************************************************************************)
(* Proofs about ChatGateway, for any sockets, chats and messages.          *)
(***************************************************************************)
EXTENDS ChatGateway, TLAPS

\* A message is received only after it has been emitted, and it has been saved
\* by then.
SentDiscipline ==
    /\ \A s \in Socket : \A k \in 1 .. Len(inbox[s]) :
           pc[inbox[s][k]] = "sent" /\ call[inbox[s][k]].by # s
    /\ \A m \in Message : pc[m] \in {"reread", "sent"} => m \in saved

\* Who is owed a message is in its room.
OwedDiscipline == \A m \in Message : owed[m] \subseteq Others(m)

IInv == /\ TypeOK /\ SentDiscipline /\ OwedDiscipline
        /\ SameOrder /\ MembersServed /\ ReceivedIsSaved

-----------------------------------------------------------------------------
LEMMA InitInvariant == Init => IInv
<1> SUFFICES ASSUME Init PROVE IInv
  OBVIOUS
<1>0. <<>> \in Seq(Message) /\ Len(<<>>) = 0
  OBVIOUS
<1>1. \A s \in Socket : inbox[s] \in Seq(Message) /\ Len(inbox[s]) = 0
  BY <1>0, Zenon DEF Init
<1>2. TypeOK
  BY <1>1, FaultAssumption DEF Init, TypeOK, Connected
<1>3. SentDiscipline
  BY <1>1 DEF Init, SentDiscipline
<1>4. SameOrder /\ ReceivedIsSaved
  BY <1>1 DEF SameOrder, ReceivedIsSaved, Received
<1> QED
  BY <1>2, <1>3, <1>4 DEF Init, IInv, OwedDiscipline, MembersServed

\* The inbox of a socket after an emit.
LEMMA Delivered ==
    ASSUME TypeOK, NEW m \in Message, Emit(m), NEW s \in Socket
    PROVE  /\ s \in Others(m) =>
                /\ Len(inbox'[s]) = Len(inbox[s]) + 1
                /\ inbox'[s][Len(inbox[s]) + 1] = m
                /\ \A k \in 1 .. Len(inbox[s]) : inbox'[s][k] = inbox[s][k]
           /\ s \notin Others(m) => inbox'[s] = inbox[s]
           /\ inbox'[s] \in Seq(Message)
           /\ Len(inbox[s]) \in Nat
<1>1. inbox[s] \in Seq(Message)
  BY DEF TypeOK
<1>2. inbox'[s] = IF s \in Others(m) THEN Append(inbox[s], m) ELSE inbox[s]
  BY DEF Emit, Deliver
<1> QED
  BY <1>1, <1>2

\* What stands at a place of it is the message, or what stood there.
LEMMA DeliveredAt ==
    ASSUME TypeOK, NEW m \in Message, Emit(m), NEW s \in Socket,
           NEW n \in 1 .. Len(inbox'[s])
    PROVE  \/ n = Len(inbox[s]) + 1 /\ inbox'[s][n] = m
           \/ n \in 1 .. Len(inbox[s]) /\ inbox'[s][n] = inbox[s][n]
<1>1. Len(inbox[s]) \in Nat
  BY Delivered
<1>2. CASE s \in Others(m)
  <2>1. /\ Len(inbox'[s]) = Len(inbox[s]) + 1
        /\ inbox'[s][Len(inbox[s]) + 1] = m
        /\ \A k \in 1 .. Len(inbox[s]) : inbox'[s][k] = inbox[s][k]
    BY <1>2, Delivered
  <2>2. n = Len(inbox[s]) + 1 \/ n \in 1 .. Len(inbox[s])
    BY <1>1, <2>1
  <2> QED
    BY <2>1, <2>2
<1>3. CASE s \notin Others(m)
  <2>1. inbox'[s] = inbox[s]
    BY <1>3, Delivered
  <2> QED
    BY <2>1
<1> QED
  BY <1>2, <1>3

\* The steps that deliver nothing.
LEMMA InboxKept ==
    ASSUME [Next]_vars, \A m \in Message : ~Emit(m)
    PROVE  inbox' = inbox
BY DEF Next, Handle, Attend, SendMessage, Save, StatementFails, Connect, UserFound,
       Disconnect, JoinRoom, MakeChat, Quiet, vars

LEMMA CallKept == [Next]_vars => call' = call
BY DEF Next, Handle, Attend, SendMessage, Save, Emit, StatementFails, Connect, UserFound,
       Disconnect, JoinRoom, MakeChat, Quiet, vars

LEMMA TypeStep == TypeOK /\ [Next]_vars => TypeOK'
<1> SUFFICES ASSUME TypeOK, [Next]_vars PROVE TypeOK'
  OBVIOUS
<1> USE DEF TypeOK, Connected
<1>1. ASSUME NEW m \in Message, SendMessage(m)
      PROVE  TypeOK'
  BY <1>1 DEF SendMessage, Goto
<1>2. ASSUME NEW m \in Message, Save(m)
      PROVE  TypeOK'
  <2>1. Others(m) \in SUBSET Socket
    BY DEF Others
  <2>2. CASE call[m].chat \in made
    BY <1>2, <2>1, <2>2 DEF Save, Goto
  <2>3. CASE call[m].chat \notin made
    BY <1>2, <2>3 DEF Save, Goto
  <2> QED
    BY <2>2, <2>3
<1>3. ASSUME NEW m \in Message, Emit(m)
      PROVE  TypeOK'
  <2>1. inbox' \in [Socket -> Seq(Message)]
    BY <1>3, Delivered DEF Emit, Deliver
  <2> QED
    BY <1>3, <2>1 DEF Emit, Goto
<1>4. ASSUME NEW m \in Message, StatementFails(m)
      PROVE  TypeOK'
  BY <1>4, FaultAssumption DEF StatementFails, Goto
<1>5. ASSUME NEW s \in Socket, Connect(s) \/ UserFound(s)
      PROVE  TypeOK'
  BY <1>5 DEF Connect, UserFound
<1>6. ASSUME NEW s \in Socket, Disconnect(s)
      PROVE  TypeOK'
  BY <1>6 DEF Disconnect
<1>7. ASSUME NEW s \in Socket, NEW c \in Chat, JoinRoom(s, c)
      PROVE  TypeOK'
  BY <1>7 DEF JoinRoom
<1>8. ASSUME NEW c \in Chat, MakeChat(c)
      PROVE  TypeOK'
  BY <1>8 DEF MakeChat
<1>9. CASE UNCHANGED vars
  BY <1>9 DEF vars
<1> QED
  BY <1>1, <1>2, <1>3, <1>4, <1>5, <1>6, <1>7, <1>8, <1>9 DEF Next, Handle, Attend, Quiet

-----------------------------------------------------------------------------
LEMMA SentStep == IInv /\ [Next]_vars => SentDiscipline'
<1> SUFFICES ASSUME IInv, [Next]_vars PROVE SentDiscipline'
  OBVIOUS
<1>1. ASSUME NEW m \in Message, pc'[m] \in {"reread", "sent"}
      PROVE  m \in saved'
  BY <1>1 DEF IInv, TypeOK, SentDiscipline, Next, Handle, Attend, SendMessage, Save, Emit,
              StatementFails, Connect, UserFound, Disconnect, JoinRoom, MakeChat, Quiet, vars, Goto
<1>2. ASSUME NEW s \in Socket, NEW k \in 1 .. Len(inbox'[s])
      PROVE  pc'[inbox'[s][k]] = "sent" /\ call'[inbox'[s][k]].by # s
  <2>1. ASSUME NEW m \in Message, Emit(m)
        PROVE  pc'[inbox'[s][k]] = "sent" /\ call'[inbox'[s][k]].by # s
    <3>1. pc' = [pc EXCEPT ![m] = "sent"] /\ call' = call
      BY <2>1 DEF Emit, Goto
    <3>2. CASE s \in Others(m) /\ k = Len(inbox[s]) + 1
      <4>1. inbox'[s][k] = m
        BY <2>1, <3>2, Delivered DEF IInv
      <4> QED
        BY <3>1, <3>2, <4>1 DEF IInv, TypeOK, Others
    <3>3. CASE k \in 1 .. Len(inbox[s]) /\ inbox'[s][k] = inbox[s][k]
      BY <3>1, <3>3 DEF IInv, TypeOK, SentDiscipline
    <3>4. \/ s \in Others(m) /\ k = Len(inbox[s]) + 1
          \/ k \in 1 .. Len(inbox[s]) /\ inbox'[s][k] = inbox[s][k]
      BY <1>2, <2>1, Delivered DEF IInv
    <3> QED
      BY <3>2, <3>3, <3>4
  <2>2. CASE \A m \in Message : ~Emit(m)
    <3>1. inbox' = inbox /\ call' = call
      BY <2>2, InboxKept, CallKept
    <3>2. inbox[s][k] \in Message /\ pc[inbox[s][k]] = "sent" /\ call[inbox[s][k]].by # s
      BY <1>2, <3>1 DEF IInv, TypeOK, SentDiscipline
    <3>3. \A m \in Message : pc[m] = "sent" => pc'[m] = "sent"
      BY DEF IInv, TypeOK, Next, Handle, Attend, SendMessage, Save, Emit, StatementFails,
             Connect, UserFound, Disconnect, JoinRoom, MakeChat, Quiet, vars, Goto
    <3> QED
      BY <3>1, <3>2, <3>3
  <2> QED
    BY <2>1, <2>2
<1> QED
  BY <1>1, <1>2 DEF SentDiscipline

LEMMA OwedStep == IInv /\ [Next]_vars => OwedDiscipline'
<1> SUFFICES ASSUME IInv, [Next]_vars PROVE OwedDiscipline'
  OBVIOUS
<1> USE DEF IInv, TypeOK, OwedDiscipline, Others
<1>1. ASSUME NEW m \in Message, Save(m)
      PROVE  OwedDiscipline'
  <2>1. room' = room /\ call' = call
    BY <1>1 DEF Save
  <2>2. \A n \in Message : owed'[n] \subseteq Others(n)
    <3>1. CASE owed' = [owed EXCEPT ![m] = Others(m)]
      <4> HIDE DEF Others
      <4> QED
        BY <3>1
    <3>2. CASE owed' = owed
      BY <3>2
    <3> QED
      BY <1>1, <3>1, <3>2 DEF Save
  <2> QED
    BY <2>1, <2>2
<1>2. ASSUME NEW s \in Socket, Disconnect(s)
      PROVE  OwedDiscipline'
  BY <1>2 DEF Disconnect
<1>3. ASSUME NEW s \in Socket, NEW c \in Chat, JoinRoom(s, c)
      PROVE  OwedDiscipline'
  BY <1>3 DEF JoinRoom
<1>4. CASE UNCHANGED <<room, owed, call>>
  BY <1>4
<1> QED
  BY <1>1, <1>2, <1>3, <1>4 DEF Next, Handle, Attend, SendMessage, Emit, StatementFails,
     Connect, UserFound, MakeChat, Quiet, vars

LEMMA ReceivedStep == IInv /\ [Next]_vars => ReceivedIsSaved'
<1> SUFFICES ASSUME IInv, [Next]_vars, NEW s \in Socket
             PROVE  /\ \A j, k \in 1 .. Len(inbox'[s]) : inbox'[s][j] = inbox'[s][k] => j = k
                    /\ \A m \in Received(s)' : m \in saved' /\ call'[m].by # s
  BY DEF ReceivedIsSaved
<1>1. SentDiscipline'
  BY SentStep
<1>2. ASSUME NEW m \in Received(s)'
      PROVE  m \in saved' /\ call'[m].by # s
  <2>1. TypeOK'
    BY TypeStep DEF IInv
  <2>2. PICK k \in 1 .. Len(inbox'[s]) : m = inbox'[s][k]
    BY <1>2 DEF Received
  <2>3. m \in Message
    BY <2>1, <2>2 DEF TypeOK
  <2> QED
    BY <1>1, <2>2, <2>3 DEF SentDiscipline
<1>3. ASSUME NEW j \in 1 .. Len(inbox'[s]), NEW k \in 1 .. Len(inbox'[s]),
             inbox'[s][j] = inbox'[s][k]
      PROVE  j = k
  <2>1. ASSUME NEW m \in Message, Emit(m)
        PROVE  j = k
    <3>1. \A n \in 1 .. Len(inbox[s]) : inbox[s][n] # m
      BY <2>1 DEF IInv, SentDiscipline, Emit
    <3>2. \A n \in 1 .. Len(inbox'[s]) :
             \/ n = Len(inbox[s]) + 1 /\ inbox'[s][n] = m
             \/ n \in 1 .. Len(inbox[s]) /\ inbox'[s][n] = inbox[s][n]
      BY <2>1, DeliveredAt DEF IInv
    <3> QED
      BY <1>3, <3>1, <3>2 DEF IInv, ReceivedIsSaved
  <2>2. CASE \A m \in Message : ~Emit(m)
    BY <1>3, <2>2, InboxKept DEF IInv, ReceivedIsSaved
  <2> QED
    BY <2>1, <2>2
<1> QED
  BY <1>2, <1>3

LEMMA ServedStep == IInv /\ [Next]_vars => MembersServed'
<1> SUFFICES ASSUME IInv, [Next]_vars, NEW n \in Message, pc'[n] = "sent",
                    NEW s \in owed'[n]
             PROVE  n \in Received(s)'
  BY DEF MembersServed
<1>1. s \in Socket
  BY TypeStep DEF IInv, TypeOK
<1>2. ASSUME NEW m \in Message, Emit(m)
      PROVE  n \in Received(s)'
  <2>1. owed' = owed /\ pc' = [pc EXCEPT ![m] = "sent"]
    BY <1>2 DEF Emit, Goto
  <2>2. CASE n = m
    <3>1. s \in Others(m)
      BY <2>1, <2>2 DEF IInv, OwedDiscipline
    <3> QED
      BY <1>1, <1>2, <2>2, <3>1, Delivered DEF IInv, Received
  <2>3. CASE n # m
    <3>1. PICK k \in 1 .. Len(inbox[s]) : n = inbox[s][k]
      BY <2>1, <2>3 DEF IInv, TypeOK, MembersServed, Received
    <3>2. k \in 1 .. Len(inbox'[s]) /\ inbox'[s][k] = n
      BY <1>1, <1>2, <3>1, Delivered DEF IInv
    <3> QED
      BY <3>2 DEF Received
  <2> QED
    BY <2>2, <2>3
<1>3. CASE \A m \in Message : ~Emit(m)
  <2>1. inbox' = inbox
    BY <1>3, InboxKept
  <2>2. ASSUME NEW m \in Message, Save(m)
        PROVE  pc[n] = "sent" /\ owed'[n] = owed[n]
    <3>1. CASE call[m].chat \in made
      BY <2>2, <3>1 DEF IInv, TypeOK, Save, Goto
    <3>2. CASE call[m].chat \notin made
      BY <2>2, <3>2 DEF IInv, TypeOK, Save, Goto
    <3> QED
      BY <3>1, <3>2
  <2>3. ASSUME NEW u \in Socket, Disconnect(u)
        PROVE  pc[n] = "sent" /\ s \in owed[n]
    BY <2>3 DEF Disconnect
  <2>4. ASSUME UNCHANGED <<pc, owed>>
        PROVE  pc[n] = "sent" /\ s \in owed[n]
    BY <2>4
  <2>5. ASSUME NEW m \in Message, SendMessage(m) \/ StatementFails(m)
        PROVE  pc[n] = "sent" /\ s \in owed[n]
    BY <2>5 DEF IInv, TypeOK, SendMessage, StatementFails, Goto
  <2>6. pc[n] = "sent" /\ s \in owed[n]
    BY <1>3, <2>2, <2>3, <2>4, <2>5 DEF Next, Handle, Attend, Connect, UserFound, JoinRoom, MakeChat,
                                     Quiet, vars
  <2>7. Received(s)' = Received(s)
    BY <2>1 DEF Received
  <2> QED
    BY <2>6, <2>7 DEF IInv, MembersServed
<1> QED
  BY <1>2, <1>3

\* A message that is emitted comes last wherever it comes, and nowhere twice.
LEMMA OrderStep == IInv /\ [Next]_vars => SameOrder'
<1> SUFFICES ASSUME IInv, [Next]_vars, NEW s \in Socket, NEW t \in Socket,
                    NEW j \in 1 .. Len(inbox'[s]), NEW k \in 1 .. Len(inbox'[s]),
                    NEW x \in 1 .. Len(inbox'[t]), NEW y \in 1 .. Len(inbox'[t]),
                    inbox'[s][j] = inbox'[t][x], inbox'[s][k] = inbox'[t][y]
             PROVE  j < k <=> x < y
  BY DEF SameOrder
<1>1. ASSUME NEW m \in Message, Emit(m)
      PROVE  j < k <=> x < y
  <2>1. \A u \in Socket : \A n \in 1 .. Len(inbox[u]) : inbox[u][n] # m
    BY <1>1 DEF IInv, SentDiscipline, Emit
  <2>2. \A u \in Socket : \A n \in 1 .. Len(inbox'[u]) :
           \/ n = Len(inbox[u]) + 1 /\ inbox'[u][n] = m
           \/ n \in 1 .. Len(inbox[u]) /\ inbox'[u][n] = inbox[u][n]
    BY <1>1, DeliveredAt DEF IInv
  <2>3. Len(inbox[s]) \in Nat /\ Len(inbox[t]) \in Nat
    BY <1>1, Delivered DEF IInv
  <2>4. ASSUME NEW u \in Socket, NEW n \in 1 .. Len(inbox'[u])
        PROVE  n = Len(inbox[u]) + 1 <=> inbox'[u][n] = m
    <3>1. CASE n = Len(inbox[u]) + 1 /\ inbox'[u][n] = m
      BY <3>1
    <3>2. CASE n \in 1 .. Len(inbox[u]) /\ inbox'[u][n] = inbox[u][n]
      <4>1. inbox[u][n] # m
        BY <2>1, <3>2
      <4>2. Len(inbox[u]) \in Nat
        BY <1>1, Delivered DEF IInv
      <4> QED
        BY <3>2, <4>1, <4>2
    <3> QED
      BY <2>2, <3>1, <3>2
  <2>5. /\ j = Len(inbox[s]) + 1 <=> inbox'[s][j] = m
        /\ k = Len(inbox[s]) + 1 <=> inbox'[s][k] = m
        /\ x = Len(inbox[t]) + 1 <=> inbox'[t][x] = m
        /\ y = Len(inbox[t]) + 1 <=> inbox'[t][y] = m
    BY <2>4
  <2>6. CASE inbox'[s][j] # m /\ inbox'[s][k] # m
    <3>1. /\ j \in 1 .. Len(inbox[s]) /\ inbox[s][j] = inbox'[s][j]
          /\ k \in 1 .. Len(inbox[s]) /\ inbox[s][k] = inbox'[s][k]
      BY <2>2, <2>6
    <3>2. /\ x \in 1 .. Len(inbox[t]) /\ inbox[t][x] = inbox'[t][x]
          /\ y \in 1 .. Len(inbox[t]) /\ inbox[t][y] = inbox'[t][y]
      BY <2>2, <2>6
    <3> QED
      BY <3>1, <3>2 DEF IInv, SameOrder
  <2>7. CASE inbox'[s][j] = m
    <3>1. j = Len(inbox[s]) + 1 /\ x = Len(inbox[t]) + 1
      BY <2>5, <2>7
    <3>2. /\ k \in Int /\ k =< Len(inbox[s]) + 1
          /\ y \in Int /\ y =< Len(inbox[t]) + 1
      <4>1. \A u \in Socket : \A n \in 1 .. Len(inbox'[u]) :
               n = Len(inbox[u]) + 1 \/ n \in 1 .. Len(inbox[u])
        BY <2>2
      <4>2. /\ k = Len(inbox[s]) + 1 \/ k \in 1 .. Len(inbox[s])
            /\ y = Len(inbox[t]) + 1 \/ y \in 1 .. Len(inbox[t])
        BY <4>1
      <4> QED
        BY <2>3, <4>2
    <3> QED
      BY <2>3, <3>1, <3>2
  <2>8. CASE inbox'[s][j] # m /\ inbox'[s][k] = m
    <3>1. k = Len(inbox[s]) + 1 /\ y = Len(inbox[t]) + 1
      BY <2>5, <2>8
    <3>2. j \in 1 .. Len(inbox[s]) /\ x \in 1 .. Len(inbox[t])
      BY <2>2, <2>8
    <3> QED
      BY <2>3, <3>1, <3>2
  <2> QED
    BY <2>6, <2>7, <2>8
<1>2. CASE \A m \in Message : ~Emit(m)
  <2>1. inbox' = inbox
    BY <1>2, InboxKept
  <2>2. /\ j \in 1 .. Len(inbox[s]) /\ k \in 1 .. Len(inbox[s])
        /\ x \in 1 .. Len(inbox[t]) /\ y \in 1 .. Len(inbox[t])
        /\ inbox[s][j] = inbox[t][x] /\ inbox[s][k] = inbox[t][y]
    BY <2>1
  <2> QED
    BY <2>2 DEF IInv, SameOrder
<1> QED
  BY <1>1, <1>2

-----------------------------------------------------------------------------
\* The inductive invariant holds.
THEOREM InvariantHolds == Spec => []IInv
<1>1. Init => IInv
  BY InitInvariant
<1>2. IInv /\ [Next]_vars => IInv'
  BY TypeStep, SentStep, OwedStep, ReceivedStep, ServedStep, OrderStep DEF IInv
<1> QED
  BY <1>1, <1>2, PTL DEF Spec

\* The variables keep their types, and rooms hold connected sockets only.
THEOREM TypeCorrect == Spec => []TypeOK
<1>1. IInv => TypeOK
  BY DEF IInv
<1> QED
  BY <1>1, InvariantHolds, PTL

\* Any two sockets see the messages both receive in one order.
THEOREM OrderAgreed == Spec => []SameOrder
<1>1. IInv => SameOrder
  BY DEF IInv
<1> QED
  BY <1>1, InvariantHolds, PTL

\* Who stays in a room receives what is saved and sent meanwhile.
THEOREM MembersAlwaysServed == Spec => []MembersServed
<1>1. IInv => MembersServed
  BY DEF IInv
<1> QED
  BY <1>1, InvariantHolds, PTL

\* Messages are received once, only when saved, and not by their sender.
THEOREM ReceivedAlwaysSaved == Spec => []ReceivedIsSaved
<1>1. IInv => ReceivedIsSaved
  BY DEF IInv
<1> QED
  BY <1>1, InvariantHolds, PTL

-----------------------------------------------------------------------------
\* ChatGateway implements ChatBoard.

\* The messages that have been emitted.
Sent == {m \in Message : pc[m] = "sent"}

\* A message that is about to be saved is not in the table.
SaveDiscipline == \A m \in Message : pc[m] \in {"idle", "save"} => m \notin saved

LEMMA SaveDisciplineHolds == Spec => []SaveDiscipline
<1>1. Init => SaveDiscipline
  BY DEF Init, SaveDiscipline
<1>2. TypeOK /\ SaveDiscipline /\ [Next]_vars => SaveDiscipline'
  BY DEF TypeOK, SaveDiscipline, Goto, Next, Handle, Attend, SendMessage, Save, Emit,
         StatementFails, Connect, UserFound, Disconnect, JoinRoom, MakeChat, Quiet, vars
<1> QED
  BY <1>1, <1>2, TypeCorrect, PTL DEF Spec

LEMMA BoardInit == Init => Board!Init
  BY DEF Init, Board!Init

\* A message that goes on to another statement, or fails, does not show on the board.
LEMMA Unseen ==
    ASSUME TypeOK, UNCHANGED <<call, room, saved, inbox>>,
           \/ UNCHANGED pc
           \/ \E m \in Message, to \in {"save", "rejected", "lost"} :
                 pc[m] # "sent" /\ Goto(m, to)
    PROVE  UNCHANGED Board!vars
<1>1. Sent' = Sent
  BY DEF Sent, TypeOK, Goto
<1> QED
  BY <1>1 DEF Board!vars, Sent

\* A save posts its message.
LEMMA Posts ==
    ASSUME TypeOK, SaveDiscipline, NEW m \in Message, pc[m] = "save",
           saved' = saved \cup {m}, NEW to \in {"reread", "lost"}, Goto(m, to),
           UNCHANGED <<call, room, inbox>>
    PROVE  Board!Post(m)
<1>1. Sent' = Sent
  BY DEF Sent, TypeOK, Goto
<1> QED
  BY <1>1 DEF Board!Post, Sent, SaveDiscipline

\* An emit publishes its message.
LEMMA Publishes ==
    ASSUME TypeOK, SentDiscipline, NEW m \in Message, Emit(m)
    PROVE  Board!Publish(m)
<1>1. Sent' = Sent \cup {m} /\ m \in saved \ Sent
  BY DEF Sent, TypeOK, Emit, Goto, SentDiscipline
<1>2. inbox' = [s \in Socket |-> IF s \in room[call[m].chat] /\ s # call[m].by
                                 THEN Append(inbox[s], m) ELSE inbox[s]]
  BY DEF Emit, Deliver, Others
<1> QED
  BY <1>1, <1>2 DEF Board!Publish, Sent, Emit

LEMMA BoardStep == IInv /\ SaveDiscipline /\ [Next]_vars => [Board!Next]_(Board!vars)
<1> SUFFICES ASSUME IInv, SaveDiscipline, [Next]_vars
             PROVE  [Board!Next]_(Board!vars)
  OBVIOUS
<1>0. TypeOK /\ SentDiscipline
  BY DEF IInv
<1>1. ASSUME NEW m \in Message, SendMessage(m) PROVE UNCHANGED Board!vars
  BY <1>0, <1>1, Unseen DEF SendMessage
<1>2. ASSUME NEW m \in Message, Save(m) PROVE [Board!Next]_(Board!vars)
  <2>1. CASE call[m].chat \in made
    BY <1>0, <1>2, <2>1, Posts DEF Save, Board!Next
  <2>2. CASE call[m].chat \notin made
    BY <1>0, <1>2, <2>2, Unseen DEF Save
  <2> QED
    BY <2>1, <2>2
<1>3. ASSUME NEW m \in Message, Emit(m) PROVE Board!Next
  BY <1>0, <1>3, Publishes DEF Board!Next
<1>4. ASSUME NEW m \in Message, StatementFails(m) PROVE [Board!Next]_(Board!vars)
  <2>1. CASE saved' = saved
    BY <1>0, <1>4, <2>1, Unseen DEF StatementFails
  <2>2. CASE pc[m] = "save" /\ Goto(m, "lost") /\ saved' = saved \cup {m}
    BY <1>0, <1>4, <2>2, Posts DEF StatementFails, Board!Next
  <2> QED
    BY <1>4, <2>1, <2>2 DEF StatementFails
<1>5. ASSUME NEW s \in Socket, Connect(s) \/ UserFound(s) PROVE UNCHANGED Board!vars
  BY <1>5, <1>0, Unseen DEF Connect, UserFound
<1>6. ASSUME NEW s \in Socket, Disconnect(s) PROVE Board!Next
  BY <1>6 DEF Disconnect, Board!Next, Board!Leave
<1>7. ASSUME NEW s \in Socket, NEW c \in Chat, JoinRoom(s, c) PROVE Board!Next
  BY <1>7 DEF JoinRoom, Board!Next, Board!Join
<1>8. ASSUME NEW c \in Chat, MakeChat(c) PROVE UNCHANGED Board!vars
  BY <1>8, <1>0, Unseen DEF MakeChat
<1>9. CASE UNCHANGED vars
  BY <1>9, <1>0, Unseen DEF vars
<1> QED
  BY <1>1, <1>2, <1>3, <1>4, <1>5, <1>6, <1>7, <1>8, <1>9 DEF Next, Handle, Attend, Quiet

\* Every behaviour of the gateway is one of the boards: a message is published in one
\* step to exactly those who are in its room.
THEOREM GatewayImplementsBoard == Spec => ImplementsBoard
  BY BoardInit, BoardStep, SaveDisciplineHolds, InvariantHolds, PTL
  DEF Spec, ImplementsBoard, Board!Spec
=============================================================================
