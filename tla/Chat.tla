--------------------------------- MODULE Chat ---------------------------------
(***************************************************************************)
(* The program chat over the library: ClientImpl (Client.cpp), whose login  *)
(* calls ce_client_connect and reports to its listeners, and ServerImpl     *)
(* (Server.cpp), which main starts.  isAuthed is always FALSE, and          *)
(* disconnect and the chat functions are stubs that return FALSE.          *)
(***************************************************************************)
EXTENDS CeClient, CeServer, Sequences

VARIABLES
  ui,        \* where ClientImpl::login is
  set,       \* which of _ip, _session and the listeners have been set
  port,      \* _port > 0
  _client,   \* ClientImpl::_client: NULL or the client
  reports    \* what the listeners were told by the current or last login

chatVars == <<ui, set, port, _client, reports>>

(* _session is not initialised: whether it looks empty is not known.        *)
ChatInit ==
  /\ ui = "idle" /\ set \in {{}, {"session"}} /\ port = FALSE
  /\ _client = "NULL" /\ reports = <<>>

Setter(what) ==
  /\ ui = "idle" /\ what \notin set
  /\ set' = set \cup {what}
  /\ UNCHANGED <<ui, port, _client, reports, clientVars, serverVars>>

setSession == Setter("session")
setConnectChangeListener == Setter("connect listener")
setLoginListener == Setter("login listener")

setServer(valid) ==
  /\ ui = "idle" /\ set' = set \cup {"ip"} /\ port' = valid
  /\ <<set, port>> # <<set', port'>>
  /\ UNCHANGED <<ui, _client, reports, clientVars, serverVars>>

(* A listener that is not set is a null pointer.                            *)
Crash == ui' = "crashed" /\ UNCHANGED reports

(* Returns FALSE when there is no address or session.                       *)
login ==
  /\ ui = "idle" /\ {"ip", "session"} \subseteq set
  /\ IF "connect listener" \in set
       THEN /\ CallConnect([valid |-> port, workers |-> 2])
            /\ reports' = <<"connecting">> /\ ui' = "login"
       ELSE Crash /\ UNCHANGED clientVars
  /\ UNCHANGED <<set, port, _client, serverVars>>

(* switch (result): on a result that connect did not set, any case is taken *)
(* or none.                                                                *)
Results == {"ok", "server_no_response", "init_error", "socket_error"}
Taken == IF result = "unset" THEN Results \cup {"none"} ELSE {result}

Answer(taken) ==
  CASE taken = "ok" -> <<"connected">>
    [] taken = "server_no_response" -> <<"disconnected", "no response">>
    [] taken = "none" -> <<>>
    [] OTHER -> <<"init error">>

NeedsLoginListener(taken) == taken \in Results \ {"ok"}

login_return ==
  /\ ui = "login" /\ caller \in {"connected", "failed"}
  /\ _client' = IF caller = "failed" THEN "NULL" ELSE "client"
  /\ \E taken \in Taken :
       IF NeedsLoginListener(taken) /\ "login listener" \notin set
         THEN Crash
         ELSE ui' = "idle" /\ reports' = reports \o Answer(taken)
  /\ UNCHANGED <<set, port, clientVars, serverVars>>

ClientImpl ==
  \/ setSession \/ setConnectChangeListener \/ setLoginListener
  \/ \E valid \in BOOLEAN : setServer(valid)
  \/ login \/ login_return

(* ServerImpl::startup: the configuration is a valid one.                   *)
startup == CallStartup(TRUE) /\ UNCHANGED <<chatVars, clientVars>>

-----------------------------------------------------------------------------
(* What connect and start-up had taken when they failed is given back, but   *)
(* for the socket of a refused connection (ce_client.c:116-120) and the      *)
(* event loop of a start-up that failed at its registration                 *)
(* (ce_server.c:198-206): those two are leaked, and nothing else.            *)
FailureReleases == ConnectReleases /\ StartupReleases

(* A login that failed leaves no client.  What it told its listeners is     *)
(* what happened whenever ce_client_connect accepted the port: a refused    *)
(* connection is reported as such, a missing socket as an initialisation    *)
(* error.  When the port was not accepted, *result is read unset and the    *)
(* report may be any, "connected" with a client that is NULL included.       *)
LoginTruthful ==
  ui = "idle" /\ reports # <<>> =>
    /\ caller = "failed" => _client = "NULL" /\ client.mem # "live"
    /\ conf.valid =>
         /\ client.fd = "open" <=> reports = <<"connecting", "disconnected", "no response">>
         /\ client.fd = "none" <=> reports = <<"connecting", "init error">>
=============================================================================
