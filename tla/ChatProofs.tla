------------------------------ MODULE ChatProofs ------------------------------
(***************************************************************************)
(* Proofs about ce_client.c, ce_server.c and the program chat, for any     *)
(* number of connections one after another.                                *)
(***************************************************************************)
EXTENDS MCChat, SequenceLemmas

Unstarted == {"idle", "failed", "socket", "connect", "new", "add", "create"}
Threaded == {"spin", "connected", "close", "join"}
Ended == {"destory", "done"}

Records ==
  /\ client = [mem |-> client.mem, fd |-> client.fd, stop |-> client.stop]
  /\ io = [mem |-> io.mem, stop |-> io.stop, entries |-> io.entries, lost |-> io.lost]

(* The receive thread lives between pthread_create and pthread_join.       *)
Thread ==
  /\ caller \in Unstarted \cup Threaded \cup Ended
  /\ caller \in Unstarted => receiver = "none"
  /\ caller \in Threaded =>
       receiver \in {"routine", "loop", "recv", "enqueue", "leave", "exited"}
  /\ caller \in Ended => receiver = "exited"
  /\ closes = IF receiver = "exited" THEN 1 ELSE 0

(* What connect has taken, and disconnect or a failure has given back.     *)
Memory ==
  /\ caller \in {"idle", "failed", "done"} \/ client.mem = "live"
  /\ caller \in {"idle", "socket", "connect", "new"} => io = NoIo
  /\ caller = "add" => io = ce_io_new
  /\ caller \in {"create", "destory"} \cup Threaded => io.mem = "live"
  /\ caller = "failed" => client.mem # "live" /\ io.mem # "live"

(* The socket, and what *result says of it.                                *)
Socket ==
  /\ caller \in {"idle", "socket"} => client.fd = "none"
  /\ caller \in {"connect", "new", "add", "create", "spin", "connected", "close"}
       => client.fd = "open"
  /\ caller \in {"join"} \cup Ended => client.fd = "closed"
  /\ caller = "failed" =>
       \/ conf.valid /\ client.fd = "open" /\ result = "server_no_response"
       \/ conf.valid /\ client.fd = "none" /\ result = "socket_error"
       \/ ~conf.valid /\ client.fd = "none"
  /\ caller \notin {"idle", "failed"} => conf.valid

ClientInv == Records /\ Thread /\ Memory /\ Socket

(* There is no client, no thread and no io at first.                       *)
LEMMA InitClient == Init => ClientInv
BY DEF Init, ClientInit, ClientInv, Records, Thread, Memory, Socket, Unstarted, Threaded,
       Ended, NoClient, NoIo

(* Each step of ce_client_connect, failing or not, keeps the invariant.    *)
LEMMA ConnectClient ==
  ASSUME ClientInv, ce_client_connect
  PROVE  ClientInv'
<1> USE DEF ClientInv, Records, Thread, Memory, Socket, Unstarted, Threaded, Ended, NoIo
<1>1. ASSUME NEW ok \in BOOLEAN, OpenSocket(ok)
      PROVE  ClientInv'
  <2>1. CASE ok
    BY <1>1, <2>1 DEF OpenSocket
  <2>2. CASE ~ok
    <3>1. /\ client' = [mem |-> "freed", fd |-> "none", stop |-> client.stop]
          /\ caller = "socket" /\ caller' = "failed" /\ result' = "socket_error"
          /\ UNCHANGED <<receiver, conf, io, closes>>
      BY <1>1, <2>2 DEF OpenSocket
    <3>2. io.mem = "none" /\ conf.valid
      BY <3>1
    <3>3. QED
      BY <3>1, <3>2
  <2>3. QED
    BY <2>1, <2>2
<1>2. ASSUME NEW ok \in BOOLEAN, Connect(ok)
      PROVE  ClientInv'
  BY <1>2 DEF Connect
<1>3. CASE NewIo
  BY <1>3 DEF NewIo, ce_io_new
<1>4. CASE AddToIo
  <2>1. /\ io' = [ce_io_new EXCEPT !.entries = 1]
        /\ client' = [client EXCEPT !.stop = TRUE]
        /\ caller = "add" /\ caller' = "create" /\ UNCHANGED <<receiver, conf, closes>>
    <3>1. caller = "add" /\ ~io.stop /\ io.entries = 0 /\ io = ce_io_new
      BY <1>4 DEF AddToIo, ce_io_new
    <3>2. ce_io_add(io) = {[io |-> [io EXCEPT !.entries = @ + 1], ret |-> "true"]}
      BY <3>1 DEF ce_io_add, dictFind
    <3>3. [io EXCEPT !.entries = @ + 1] = [ce_io_new EXCEPT !.entries = 1]
      BY <3>1 DEF ce_io_new
    <3>4. QED
      BY <1>4, <3>1, <3>2, <3>3 DEF AddToIo
  <2>2. QED
    BY <2>1 DEF ce_io_new
<1>5. CASE CreateReceiver
  BY <1>5 DEF CreateReceiver
<1>6. CASE Spin
  BY <1>6 DEF Spin
<1>7. QED
  BY <1>1, <1>2, <1>3, <1>4, <1>5, <1>6 DEF ce_client_connect

(* ce_client_disconnect ends the receive thread before it frees anything.  *)
LEMMA DisconnectClient ==
  ASSUME ClientInv, Disconnect \/ ce_client_disconnect
  PROVE  ClientInv'
<1> USE DEF ClientInv, Records, Thread, Memory, Socket, Unstarted, Threaded, Ended
<1>1. CASE Disconnect
  BY <1>1 DEF Disconnect
<1>2. CASE CloseSocket
  BY <1>2 DEF CloseSocket
<1>3. CASE JoinReceiver
  BY <1>3 DEF JoinReceiver
<1>4. CASE FreeClient
  BY <1>4 DEF FreeClient, ce_io_destory
<1>5. QED
  BY <1>1, <1>2, <1>3, <1>4 DEF ce_client_disconnect

(* A new call of ce_client_connect starts from what the last one left.     *)
LEMMA CallClient ==
  ASSUME ClientInv, NEW c, CallConnect(c)
  PROVE  ClientInv'
BY DEF ClientInv, Records, Thread, Memory, Socket, Unstarted, Threaded, Ended,
       CallConnect, NoClient, NoIo

(* ce_client_send only reads the client.                                   *)
LEMMA SendClient ==
  ASSUME ClientInv, NEW size, ce_client_send(size)
  PROVE  ClientInv'
<1>1. UNCHANGED <<caller, receiver, conf, client, io, result, closes>>
  BY DEF ce_client_send, ce_io_push, ThroughKey, Refused
<1>2. QED
  BY <1>1 DEF ClientInv, Records, Thread, Memory, Socket

(* The receive thread clears the flag, reads the socket and leaves.        *)
LEMMA ReceiveClient ==
  ASSUME ClientInv, _ce_client_routine \/ Peer
  PROVE  ClientInv'
<1> USE DEF ClientInv, Records, Thread, Memory, Socket, Unstarted, Threaded, Ended,
            CallerKeeps, Receiver
<1>1. CASE StartRoutine
  BY <1>1 DEF StartRoutine
<1>2. CASE StartReceive
  BY <1>2 DEF StartReceive
<1>3. CASE Enqueue
  <2>1. /\ receiver = "enqueue" /\ receiver' \in {"loop", "leave"}
        /\ UNCHANGED <<caller, conf, result, io, client, closes>>
    BY <1>3 DEF Enqueue, ce_io_enqueue, ThroughKey, Refused
  <2>2. QED
    BY <2>1
<1>4. CASE LeaveRoutine
  BY <1>4 DEF LeaveRoutine
<1>5. CASE Peer
  BY <1>5 DEF Peer, Received
<1>6. QED
  BY <1>1, <1>2, <1>3, <1>4, <1>5 DEF _ce_client_routine

(* No step of any of the three programs breaks the invariant of the        *)
(* client.                                                                 *)
LEMMA NextClientInv == ClientInv /\ [Next]_vars => ClientInv'
<1> SUFFICES ASSUME ClientInv, [Next]_vars
             PROVE  ClientInv'
  OBVIOUS
<1>1. CASE UNCHANGED clientVars
  BY <1>1 DEF clientVars, ClientInv, Records, Thread, Memory, Socket
<1>2. CASE ClientImpl
  BY <1>1, <1>2, CallClient
     DEF ClientImpl, setSession, setConnectChangeListener, setLoginListener, Setter,
         setServer, login, login_return
<1>3. QED
  BY <1>1, <1>2, ConnectClient, DisconnectClient, CallClient, SendClient, ReceiveClient
     DEF Next, Calling, Receiving, PeerActs, Library, LibraryCall, ChatClient,
         ChatServer, startup, vars

(* The invariant of the client holds in every run of every program.        *)
LEMMA SpecClientInv == Spec => []ClientInv
BY InitClient, NextClientInv, PTL DEF Spec

(* _ce_client_routine finds the client and its io allocated to its last    *)
(* line, and on_close was called exactly once when disconnect returns.     *)
THEOREM SpecReceiverSafe == Spec => []ReceiverSafe
<1>1. ClientInv => ReceiverSafe
  BY DEF ClientInv, Thread, Memory, Socket, Unstarted, Threaded, Ended, ReceiverSafe
<1>2. QED
  BY <1>1, SpecClientInv, PTL

-----------------------------------------------------------------------------
(* ce_server_startup                                                       *)

StartupInv ==
  /\ server = [mem |-> server.mem, fd |-> server.fd]
  /\ starter \in {"idle", "listen", "keepalive", "loop", "register", "failed"}
  /\ starter = "idle" => server = NoServer /\ init_ref = 0
  /\ starter \notin {"idle", "failed"} => init_ref = 1
  /\ loop = [mem |-> loop.mem, apidata |-> loop.apidata]
  /\ starter \in {"idle", "listen", "keepalive", "loop"} =>
       loop = [mem |-> "none", apidata |-> "none"]
  /\ starter = "register" =>
       loop.apidata = "server" /\ (loop.mem = "live" \/ crashed)
  /\ starter = "failed" =>
       /\ server.mem # "live" /\ server.fd # "open" /\ init_ref = 0
       /\ loop.mem = "live" <=> loop.apidata = "server"

(* ce_server_startup gives back what it took wherever it fails.            *)
LEMMA NextStartup == StartupInv /\ [Next]_vars => StartupInv'
<1> SUFFICES ASSUME StartupInv, [Next]_vars
             PROVE  StartupInv'
  OBVIOUS
<1> USE DEF StartupInv, NoServer
<1>1. CASE UNCHANGED serverVars
  BY <1>1 DEF serverVars
<1>2. CASE CallStartup(TRUE)
  BY <1>2 DEF CallStartup, ce_sock_init
<1>3. ASSUME NEW ok \in BOOLEAN, Listen(ok)
      PROVE  StartupInv'
  BY <1>3 DEF Listen, Fail, ce_sock_init
<1>4. ASSUME NEW ok \in BOOLEAN, KeepAlive(ok)
      PROVE  StartupInv'
  BY <1>4 DEF KeepAlive, Fail, ce_sock_init
<1>5. ASSUME NEW ok \in BOOLEAN, CreateLoop(ok)
      PROVE  StartupInv'
  <2>1. /\ starter = "loop" /\ starter' = "register"
        /\ loop' = [mem |-> IF ok THEN "live" ELSE "none", apidata |-> "server"]
        /\ crashed' = ~ok /\ UNCHANGED <<server, init_ref>>
    BY <1>5 DEF CreateLoop
  <2>2. QED
    BY <2>1
<1>6. CASE RegisterAccept
  <2>1. /\ starter = "register" /\ ~Registered
        /\ loop.mem = "live" /\ loop.apidata = "server" /\ init_ref = 1
    BY <1>6 DEF RegisterAccept, Registered
  <2>2. /\ server' = [mem |-> "freed", fd |-> IF server.fd = "open" THEN "closed" ELSE "none"]
        /\ init_ref' = 0 /\ starter' = "failed" /\ UNCHANGED loop
    BY <1>6, <2>1 DEF RegisterAccept, Fail, ce_sock_init
  <2>3. server'.mem = "freed" /\ server'.fd # "open"
    BY <2>2
  <2>4. QED
    BY <2>1, <2>2, <2>3
<1>7. QED
  BY <1>1, <1>2, <1>3, <1>4, <1>5, <1>6
     DEF Next, Calling, Receiving, PeerActs, Library, ChatClient, ChatServer, startup,
         ce_server_startup, ClientImpl, setSession, setConnectChangeListener,
         setLoginListener, Setter, setServer, login, login_return, vars

(* When ce_client_connect or ce_server_startup returns NULL, everything it *)
(* took is given back, but for the socket of a server that did not answer, *)
(* and the event loop of a start-up whose registration was refused.        *)
THEOREM SpecFailureReleases == Spec => []FailureReleases
<1>1. Init => StartupInv
  BY DEF Init, ServerInit, StartupInv, NoServer
<1>2. ClientInv /\ StartupInv => FailureReleases
  <2>1. ClientInv => ConnectReleases
    BY DEF ClientInv, Memory, Socket, ConnectReleases
  <2>2. StartupInv => StartupReleases
    BY DEF StartupInv, StartupReleases, Held
  <2>3. QED
    BY <2>1, <2>2 DEF FailureReleases
<1>3. QED
  BY <1>1, <1>2, NextStartup, SpecClientInv, PTL DEF Spec

-----------------------------------------------------------------------------
-----------------------------------------------------------------------------
(* ClientImpl::login                                                       *)

(* All that login reported, after its first report.                        *)
Told(what) == reports = <<"connecting">> \o what

(* The client of the chat program asks for two workers, so no connection   *)
(* of it gets beyond ce_io_new; what it reported is what *result said.     *)
ChatInv ==
  /\ program # "chat" => ui = "idle" /\ reports = << >>
  /\ program = "chat" =>
       /\ conf.workers # 1 /\ caller \in {"idle", "failed", "socket", "connect", "new"}
       /\ ui \in {"idle", "login", "crashed"}
       /\ ui = "login" => Told(<< >>)
       /\ ui = "idle" =>
            /\ caller \in {"idle", "failed"}
            /\ reports # << >> => caller = "failed" /\ _client = "NULL"
            /\ reports # << >> /\ conf.valid =>
                 \/ client.fd = "open" /\ Told(<<"disconnected", "no response">>)
                 \/ client.fd = "none" /\ Told(<<"init error">>)

(* login reports what ce_client_connect did, step by step.                 *)
LEMMA NextChat == ClientInv /\ ChatInv /\ [Next]_vars => ChatInv'
<1> SUFFICES ASSUME ClientInv, ChatInv, [Next]_vars
             PROVE  ChatInv'
  OBVIOUS
<1>1. CASE UNCHANGED <<ui, reports, _client, caller, conf, client, program>>
  BY <1>1 DEF ChatInv, Told
<1>2. CASE program # "chat"
  <2>1. UNCHANGED <<ui, reports, program>>
    BY <1>2
       DEF Next, Calling, Receiving, PeerActs, Library, ChatClient, ChatServer, startup,
           chatVars, vars
  <2>2. QED
    BY <1>2, <2>1 DEF ChatInv
<1>3. ASSUME program = "chat", ce_client_connect, UNCHANGED <<chatVars, program>>
      PROVE  ChatInv'
  <2>1. caller \in {"socket", "connect"} /\ caller' \in {"failed", "connect", "new"}
    BY <1>3
       DEF ChatInv, ce_client_connect, OpenSocket, Connect, NewIo, AddToIo,
           CreateReceiver, Spin
  <2>2. UNCHANGED conf /\ ui # "idle"
    BY <1>3, <2>1
       DEF ChatInv, ce_client_connect, OpenSocket, Connect, NewIo, AddToIo,
           CreateReceiver, Spin
  <2>3. QED
    BY <1>3, <2>1, <2>2 DEF ChatInv, Told, chatVars
<1>4. ASSUME program = "chat", ce_client_disconnect
      PROVE  ChatInv'
  BY <1>4
     DEF ChatInv, ce_client_disconnect, CloseSocket, JoinReceiver, FreeClient
<1>5. ASSUME program = "chat", _ce_client_routine \/ Peer
      PROVE  ChatInv'
  BY <1>5
     DEF ChatInv, ClientInv, Thread, Unstarted, _ce_client_routine, Peer, StartRoutine,
         StartReceive, Received, Enqueue, LeaveRoutine, Receiver
<1>6. ASSUME program = "chat", UNCHANGED program, login
      PROVE  ChatInv'
  <2>1. CASE "connect listener" \in set
    <3>1. /\ CallConnect([valid |-> port, workers |-> 2])
          /\ reports' = <<"connecting">> /\ ui' = "login"
      BY <1>6, <2>1 DEF login
    <3>2. conf'.workers # 1 /\ caller' \in {"socket", "failed"}
      BY <3>1 DEF CallConnect
    <3>3. Told(<< >>)'
      BY <3>1 DEF Told
    <3>4. program' = "chat" /\ ui' = "login"
      BY <1>6, <3>1
    <3>5. QED
      BY <3>2, <3>3, <3>4 DEF ChatInv
  <2>2. CASE "connect listener" \notin set
    BY <1>6, <2>2 DEF login, Crash, clientVars, ChatInv
  <2>3. QED
    BY <2>1, <2>2
<1>7. ASSUME program = "chat", UNCHANGED program, login_return
      PROVE  ChatInv'
  <2>1. /\ ui = "login" /\ caller = "failed" /\ _client' = "NULL"
        /\ Told(<< >>) /\ UNCHANGED <<caller, conf, client>>
    BY <1>7 DEF login_return, ChatInv, clientVars
  <2>2. ui' = "crashed" \/ (ui' = "idle" /\ \E taken \in Taken : reports' = reports \o Answer(taken))
    BY <1>7 DEF login_return, Crash
  <2>3. ASSUME conf.valid, NEW taken \in Taken, reports' = reports \o Answer(taken)
        PROVE  \/ client.fd = "open" /\ Told(<<"disconnected", "no response">>)'
               \/ client.fd = "none" /\ Told(<<"init error">>)'
    <3>1. reports = <<"connecting">>
      BY <2>1 DEF Told
    <3>2. \/ client.fd = "open" /\ result = "server_no_response"
          \/ client.fd = "none" /\ result = "socket_error"
      BY <2>1, <2>3 DEF ClientInv, Socket
    <3>3. taken = result
      BY <2>3, <3>2 DEF Taken
    <3>4. QED
      BY <2>3, <3>1, <3>2, <3>3 DEF Answer, Told
  <2>4. CASE ui' = "crashed"
    BY <1>7, <2>1, <2>4 DEF ChatInv
  <2>5. ASSUME ui' = "idle", NEW taken \in Taken, reports' = reports \o Answer(taken)
        PROVE  ChatInv'
    BY <1>7, <2>1, <2>3, <2>5 DEF ChatInv, Told
  <2>6. QED
    BY <2>2, <2>4, <2>5
<1>8. ASSUME program = "chat", UNCHANGED program,
             \/ setSession \/ setConnectChangeListener \/ setLoginListener
             \/ \E valid \in BOOLEAN : setServer(valid)
      PROVE  ChatInv'
  BY <1>1, <1>8
     DEF setSession, setConnectChangeListener, setLoginListener, Setter, setServer,
         clientVars
<1>9. QED
  BY <1>1, <1>2, <1>3, <1>4, <1>5, <1>6, <1>7, <1>8
     DEF Next, Calling, Receiving, PeerActs, Library, ChatClient, ChatServer, ClientImpl,
         vars, chatVars, clientVars

(* No failed login leaves a client; and one whose port was accepted tells  *)
(* its listeners what happened: a refused connection is reported as such,  *)
(* a missing socket as an initialisation error.                            *)
THEOREM SpecLoginTruthful == Spec => []LoginTruthful
<1>1. Init => ChatInv
  BY DEF Init, ClientInit, ChatInit, ChatInv
<1>2. ClientInv /\ ChatInv => LoginTruthful
  <2>0. ClientInv /\ ChatInv /\ ui = "idle" /\ reports # << >> =>
          (caller = "failed" => _client = "NULL" /\ client.mem # "live")
    BY DEF ChatInv, ClientInv, Memory
  <2> SUFFICES ASSUME ChatInv, ui = "idle", reports # << >>, conf.valid
               PROVE  /\ client.fd = "open" <=> reports = <<"connecting", "disconnected", "no response">>
                      /\ client.fd = "none" <=> reports = <<"connecting", "init error">>
    BY <2>0 DEF LoginTruthful
  <2>1. /\ _client = "NULL"
        /\ \/ client.fd = "open" /\ Told(<<"disconnected", "no response">>)
           \/ client.fd = "none" /\ Told(<<"init error">>)
    BY DEF ChatInv
  <2>2. /\ <<"connecting">> \o <<"disconnected", "no response">>
             = <<"connecting", "disconnected", "no response">>
        /\ <<"connecting">> \o <<"init error">> = <<"connecting", "init error">>
        /\ <<"connecting", "disconnected", "no response">> # <<"connecting", "init error">>
    <3>1. <<"connecting">> \o <<"disconnected", "no response">>
             = <<"connecting", "disconnected", "no response">>
      BY JoinedTuples
    <3>2. <<"connecting">> \o <<"init error">> = <<"connecting", "init error">>
      BY JoinedTuples
    <3>3. Len(<<"connecting", "disconnected", "no response">>) # Len(<<"connecting", "init error">>)
      OBVIOUS
    <3>4. QED
      BY <3>1, <3>2, <3>3
  <2>3. QED
    BY <2>1, <2>2 DEF Told
<1>3. QED
  BY <1>1, <1>2, NextChat, SpecClientInv, PTL DEF Spec
=============================================================================
