------------------------------- MODULE CeServer -------------------------------
(***************************************************************************)
(* ce_server.c, ce_server_startup: start-up on the builds that poll with    *)
(* epoll or kqueue.  It replaces the state that the event loop keeps for    *)
(* the kernel by the server, so the first registration asks the kernel to   *)
(* poll on server->fd, which is refused: start-up always fails there, and   *)
(* what follows (ce_io_new, the event thread and every handler) is never    *)
(* reached.                                                                *)
(* Operators with an underscore in their name are faulty variants.         *)
(***************************************************************************)
EXTENDS Integers

VARIABLES
  starter,   \* where ce_server_startup is
  server,    \* the ce_server_t: its memory and its listening socket
  loop,      \* the event loop
  init_ref,  \* the balance of ce_sock_init(true) and ce_sock_init(false)
  crashed    \* a null pointer was used

serverVars == <<starter, server, loop, init_ref, crashed>>

NoServer == [mem |-> "none", fd |-> "none"]

ServerInit ==
  /\ starter = "idle" /\ server = NoServer /\ init_ref = 0 /\ crashed = FALSE
  /\ loop = [mem |-> "none", apidata |-> "none"]

ce_sock_init(init) == init_ref' = init_ref + (IF init THEN 1 ELSE -1)

(* The checks of the arguments come first.                                  *)
CallStartup(valid) ==
  /\ starter = "idle"
  /\ IF valid
       THEN starter' = "listen" /\ ce_sock_init(TRUE)
            /\ server' = [NoServer EXCEPT !.mem = "live"]
       ELSE starter' = "failed" /\ UNCHANGED <<init_ref, server>>
  /\ UNCHANGED <<loop, crashed>>

(* The error returns: the socket is closed if there is one, the server is   *)
(* freed; an event loop that was created is left behind.                   *)
Fail ==
  /\ server' = [mem |-> "freed", fd |-> IF server.fd = "open" THEN "closed" ELSE "none"]
  /\ ce_sock_init(FALSE)
  /\ starter' = "failed"
  /\ UNCHANGED <<loop, crashed>>

Listen(ok) ==
  /\ starter = "listen"
  /\ IF ok
       THEN starter' = "keepalive" /\ server' = [server EXCEPT !.fd = "open"]
            /\ UNCHANGED <<loop, init_ref, crashed>>
       ELSE Fail

KeepAlive_NoRelease(ok) ==
  /\ starter = "keepalive"
  /\ starter' = IF ok THEN "loop" ELSE "failed"
  /\ UNCHANGED <<server, loop, init_ref, crashed>>

KeepAlive(ok) ==
  /\ starter = "keepalive"
  /\ IF ok THEN starter' = "loop" /\ UNCHANGED <<server, loop, init_ref, crashed>>
           ELSE Fail

(* aeCreateEventLoop fails when the kernel has no poll descriptor left; the *)
(* result is used unchecked.                                               *)
CreateLoop(ok) ==
  /\ starter = "loop"
  /\ starter' = "register" /\ crashed' = ~ok
  /\ loop' = [mem |-> IF ok THEN "live" ELSE "none", apidata |-> "server"]
  /\ UNCHANGED <<server, init_ref>>

(* aeCreateFileEvent polls on the first field of apidata.                   *)
Registered == loop.apidata = "poll state"

RegisterAccept ==
  /\ starter = "register" /\ ~crashed
  /\ IF Registered
       THEN starter' = "started" /\ UNCHANGED <<server, loop, init_ref, crashed>>
       ELSE Fail

ce_server_startup ==
  \/ \E ok \in BOOLEAN : Listen(ok) \/ KeepAlive(ok) \/ CreateLoop(ok)
  \/ RegisterAccept

(* What start-up has taken and not given back.                              *)
Held ==
  {what \in {"server", "socket", "sock_init", "event loop"} :
     CASE what = "server" -> server.mem = "live"
       [] what = "socket" -> server.fd = "open"
       [] what = "sock_init" -> init_ref # 0
       [] what = "event loop" -> loop.mem = "live"}

(* When ce_server_startup has returned NULL it holds nothing, if it failed  *)
(* before the event loop was given the server as its apidata; afterwards    *)
(* exactly the event loop, which no error return deletes.                  *)
StartupReleases ==
  starter = "failed" =>
    Held = IF loop.apidata = "server" THEN {"event loop"} ELSE {}
=============================================================================
