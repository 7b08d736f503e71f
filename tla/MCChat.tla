-------------------------------- MODULE MCChat --------------------------------
(* Three programs, one per behaviour: the chat client, the chat server, and *)
(* a program that uses ce_client directly with one worker, the only number  *)
(* for which connect can succeed.                                          *)
EXTENDS Chat

VARIABLE program

vars == <<clientVars, serverVars, chatVars, program>>

Init == ClientInit /\ ServerInit /\ ChatInit /\ program \in {"chat", "server", "library"}

LibraryCall ==
  \/ \E valid \in BOOLEAN : CallConnect([valid |-> valid, workers |-> 1])
  \/ \E size \in 0 .. 1 : ce_client_send(size)
  \/ Disconnect

(* The steps each thread takes by itself once called.                       *)
Calling == ~fault /\ (ce_client_connect \/ ce_client_disconnect) /\ UNCHANGED <<serverVars, chatVars, program>>
Receiving == ~fault /\ _ce_client_routine /\ UNCHANGED <<serverVars, chatVars, program>>
PeerActs == ~fault /\ Peer /\ UNCHANGED <<serverVars, chatVars, program>>

Library == program = "library" /\ ~fault /\ LibraryCall /\ UNCHANGED <<serverVars, chatVars, program>>
ChatClient == program = "chat" /\ ClientImpl /\ UNCHANGED program
ChatServer ==
  /\ program = "server"
  /\ \/ startup
     \/ ce_server_startup /\ UNCHANGED <<clientVars, chatVars>>
  /\ UNCHANGED program

Next == Calling \/ Receiving \/ PeerActs \/ Library \/ ChatClient \/ ChatServer

(* Both threads are scheduled; neither the peer nor the user need do more.  *)
Spec == Init /\ [][Next]_vars /\ WF_vars(Calling) /\ WF_vars(Receiving)
=============================================================================
