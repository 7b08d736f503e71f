------------------------------- MODULE CeClient -------------------------------
(***************************************************************************)
(* ce_client.c: one connection.  The processes are the thread that calls   *)
(* ce_client_connect, ce_client_send and ce_client_disconnect, and the     *)
(* receive thread that connect starts; the peer and the network decide     *)
(* what socket, connect and recv return.                                   *)
(*                                                                         *)
(* On Linux, close() does not wake a thread that is blocked in recv() on   *)
(* the socket; a recv() that starts after the close fails.  (That the      *)
(* number of a closed socket may be given out again is left out.)          *)
(* Operators with an underscore in their name are faulty variants.         *)
(***************************************************************************)
EXTENDS CeIo

CONSTANT MaxConnects   \* how often connect is called (a bound)

VARIABLES
  caller,    \* where the calling thread is
  receiver,  \* where the receive thread is
  conf,      \* what connect looks at of its ce_conf_t
  client,    \* the ce_client_t: its memory, socket and flag stop
  io,        \* client->io
  result,    \* *result, which starts as the caller left it
  closes,    \* how often on_close was called for this client
  connects,  \* history: calls of connect
  fault      \* a step had undefined behaviour: nothing is said after it

clientVars == <<caller, receiver, conf, client, io, result, closes, connects, fault>>

NoClient == [mem |-> "none", fd |-> "none", stop |-> FALSE]

ClientInit ==
  /\ caller = "idle" /\ receiver = "none"
  /\ conf = [valid |-> FALSE, workers |-> 0]
  /\ client = NoClient /\ io = NoIo
  /\ result = "unset" /\ closes = 0 /\ connects = 0 /\ fault = FALSE

-----------------------------------------------------------------------------
(* ce_client_connect                                                       *)

(* The checks of the arguments return without setting *result.              *)
CallConnect(c) ==
  /\ caller \in {"idle", "failed", "done"} /\ connects < MaxConnects
  /\ conf' = c /\ connects' = connects + 1
  /\ result' = "unset" /\ closes' = 0 /\ io' = NoIo /\ receiver' = "none"
  /\ client' = IF c.valid THEN [NoClient EXCEPT !.mem = "live"] ELSE NoClient
  /\ caller' = IF c.valid THEN "socket" ELSE "failed"
  /\ UNCHANGED fault

OpenSocket_Forgets(ok) ==
  /\ caller = "socket"
  /\ client' = [client EXCEPT !.fd = IF ok THEN "open" ELSE "none",
                              !.mem = IF ok THEN "live" ELSE "freed"]
  /\ caller' = IF ok THEN "connect" ELSE "failed"
  /\ UNCHANGED <<receiver, conf, io, result, closes, connects, fault>>

OpenSocket(ok) ==
  /\ caller = "socket"
  /\ client' = [client EXCEPT !.fd = IF ok THEN "open" ELSE "none",
                              !.mem = IF ok THEN "live" ELSE "freed"]
  /\ caller' = IF ok THEN "connect" ELSE "failed"
  /\ result' = IF ok THEN result ELSE "socket_error"
  /\ UNCHANGED <<receiver, conf, io, closes, connects, fault>>

Connect_KeepClient(ok) ==
  /\ caller = "connect"
  /\ caller' = IF ok THEN "new" ELSE "failed"
  /\ result' = IF ok THEN result ELSE "server_no_response"
  /\ UNCHANGED <<receiver, conf, client, io, closes, connects, fault>>

(* When the connection is refused the client is freed; its socket stays.    *)
Connect(ok) ==
  /\ caller = "connect"
  /\ client' = [client EXCEPT !.mem = IF ok THEN "live" ELSE "freed"]
  /\ caller' = IF ok THEN "new" ELSE "failed"
  /\ result' = IF ok THEN result ELSE "server_no_response"
  /\ UNCHANGED <<receiver, conf, io, closes, connects, fault>>

(* ce_io_new: ce_tp_create does not return for more than one thread (see    *)
(* ThreadPool, where CreateReturns is refuted).                            *)
NewIo ==
  /\ caller = "new" /\ conf.workers = 1
  /\ io' = ce_io_new
  /\ caller' = "add"
  /\ UNCHANGED <<receiver, conf, client, result, closes, connects, fault>>

(* stop is set before the receive thread, which clears it, is created.      *)
AddToIo ==
  /\ caller = "add"
  /\ \E added \in ce_io_add(io) :
       IF added.ret = "true"
         THEN /\ io' = added.io
              /\ client' = [client EXCEPT !.stop = TRUE]
              /\ caller' = "create" /\ UNCHANGED result
         ELSE /\ io' = ce_io_destory(added.io)
              /\ client' = [client EXCEPT !.fd = "closed", !.mem = "freed"]
              /\ caller' = "failed" /\ result' = "init_error"
  /\ UNCHANGED <<receiver, conf, closes, connects, fault>>

CreateReceiver ==
  /\ caller = "create"
  /\ receiver' = "routine" /\ caller' = "spin"
  /\ UNCHANGED <<conf, client, io, result, closes, connects, fault>>

(* while (!client->stop) usleep(...), and on success *result is not set.    *)
Spin ==
  /\ caller = "spin"
  /\ caller' = IF client.stop THEN "connected" ELSE "spin"
  /\ UNCHANGED <<receiver, conf, client, io, result, closes, connects, fault>>

ce_client_connect ==
  \/ \E ok \in BOOLEAN : OpenSocket(ok) \/ Connect(ok)
  \/ NewIo \/ AddToIo \/ CreateReceiver \/ Spin

-----------------------------------------------------------------------------
(* ce_client_send, ce_client_disconnect                                    *)

ce_client_send(size) ==
  /\ caller = "connected"
  /\ \E pushed \in ce_io_push(io, size) :
       /\ io' = pushed.io /\ fault' = (pushed.ret = "undefined")
  /\ UNCHANGED <<caller, receiver, conf, client, result, closes, connects>>

Disconnect ==
  /\ caller = "connected"
  /\ client' = [client EXCEPT !.stop = TRUE]
  /\ caller' = "close"
  /\ UNCHANGED <<receiver, conf, io, result, closes, connects, fault>>

CloseSocket_StopOnly ==
  /\ caller = "close" /\ caller' = "join"
  /\ UNCHANGED <<receiver, conf, client, io, result, closes, connects, fault>>

CloseSocket ==
  /\ caller = "close" /\ caller' = "join"
  /\ client' = [client EXCEPT !.fd = "closed"]
  /\ UNCHANGED <<receiver, conf, io, result, closes, connects, fault>>

JoinReceiver_Skipped ==
  /\ caller = "join" /\ caller' = "destory"
  /\ UNCHANGED <<receiver, conf, client, io, result, closes, connects, fault>>

JoinReceiver ==
  /\ caller = "join" /\ receiver = "exited" /\ caller' = "destory"
  /\ UNCHANGED <<receiver, conf, client, io, result, closes, connects, fault>>

(* ce_io_destory, then the client is freed.                                 *)
FreeClient ==
  /\ caller = "destory" /\ caller' = "done"
  /\ io' = ce_io_destory(io)
  /\ client' = [client EXCEPT !.mem = "freed"]
  /\ UNCHANGED <<receiver, conf, result, closes, connects, fault>>

ce_client_disconnect == CloseSocket \/ JoinReceiver \/ FreeClient

-----------------------------------------------------------------------------
(* _ce_client_routine                                                      *)

Receiver(from, to) == receiver = from /\ receiver' = to
CallerKeeps == UNCHANGED <<caller, conf, result, connects>>

(* The flag is cleared whatever disconnect may have stored in it.           *)
StartRoutine ==
  /\ Receiver("routine", "loop")
  /\ client' = [client EXCEPT !.stop = FALSE]
  /\ CallerKeeps /\ UNCHANGED <<io, closes, fault>>

(* The condition of the loop, and the start of recv: on a closed socket it  *)
(* fails at once.                                                          *)
StartReceive ==
  /\ Receiver("loop", IF client.stop \/ client.fd = "closed" THEN "leave" ELSE "recv")
  /\ CallerKeeps /\ UNCHANGED <<client, io, closes, fault>>

(* Data arrive, or the peer closes or the connection breaks.                *)
Received(size) ==
  /\ Receiver("recv", IF size > 0 THEN "enqueue" ELSE "leave")
  /\ CallerKeeps /\ UNCHANGED <<client, io, closes, fault>>

Enqueue ==
  \E queued \in ce_io_enqueue(io) :
    /\ Receiver("enqueue", IF queued.ret = "true" THEN "loop" ELSE "leave")
    /\ io' = queued.io /\ fault' = (queued.ret = "undefined")
    /\ CallerKeeps /\ UNCHANGED <<client, closes>>

LeaveRoutine ==
  /\ Receiver("leave", "exited")
  /\ closes' = closes + 1
  /\ CallerKeeps /\ UNCHANGED <<client, io, fault>>

_ce_client_routine ==
  StartRoutine \/ StartReceive \/ Enqueue \/ LeaveRoutine

Peer == \E size \in {-1, 0, 1} : Received(size)

-----------------------------------------------------------------------------
(* While the receive thread runs, the client and the io it uses are         *)
(* allocated (_ce_client_routine reads both to its last line); and when     *)
(* disconnect has freed them, on_close was called exactly once.             *)
ReceiverSafe ==
  ~fault =>
    /\ receiver \notin {"none", "exited"} => client.mem = "live" /\ io.mem = "live"
    /\ caller = "done" => closes = 1 /\ client.fd = "closed"

(* When connect returns NULL the client is freed, and so is the socket, if  *)
(* there was one, except when the server did not respond: the early return  *)
(* of the failed connect() forgets it.                                     *)
ConnectReleases ==
  caller = "failed" =>
    /\ client.mem # "live" /\ io.mem # "live"
    /\ client.fd = "open" => result = "server_no_response"

(* ce_client_disconnect returns, although the receive thread may clear the  *)
(* flag that disconnect has set: unless a recv() was under way when the     *)
(* socket was closed, which then lasts until the peer does something.       *)
DisconnectReturns ==
  (caller = "join" /\ receiver # "recv") ~> (caller = "done" \/ fault)
=============================================================================
