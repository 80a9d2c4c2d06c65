---------------------------- MODULE MCChatGateway ----------------------------
(***************************************************************************)
(* ChatGateway with three sockets, two messages, two chats and a failure.  *)
(***************************************************************************)
EXTENDS ChatGateway, TLC

MCSymmetry == Permutations(Socket) \cup Permutations(Message) \cup Permutations(Chat)
=============================================================================
