----------------------------- MODULE WebServer -----------------------------
(* The web interface started from the shell (web_server.go): web start and  *)
(* web stop at the prompt, one goroutine for each server, the terminal      *)
(* sessions it serves and the first use of the engine (app.go:39-47).       *)
(* webServer, webToken, kiInitialized and kiEngine are plain variables, so  *)
(* each use of them by a goroutine is a step of its own.                    *)
EXTENDS Naturals, FiniteSets

CONSTANTS
  MaxServers,  \* bound: servers started in a session
  Patient,     \* the user types only when every goroutine has come to rest
  Users        \* the requests that need the engine: the prompt's and the web's

NoServer == 0
Servers == 1..MaxServers

VARIABLES
  webServer,   \* the server web stop would stop
  token,       \* webToken, as the server it was made for
  started,     \* number of servers started so far
  server,      \* server -> "none", "begun", "made", "listening", "failed", "down", "gone"
  taken,       \* the port is another program's
  stopping,    \* the server stopWebBackground is shutting down, or NoServer
  pty,         \* a session's reader of the shell: "off", "reads", "ended"
  ws,          \* its reader of the browser: the same
  finished,    \* done is closed (once)
  shell,       \* its shell: "none", "runs", "exited", "reaped"
  kiInitialized, kiEngine,
  user         \* user -> "idle", "init", "use", or the engine it used

web == <<webServer, token, started, server, taken, stopping>>
session == <<pty, ws, finished, shell>>
engine == <<kiInitialized, kiEngine, user>>
vars == <<webServer, token, started, server, taken, stopping, pty, ws, finished, shell,
          kiInitialized, kiEngine, user>>

Init ==
  /\ webServer = NoServer /\ token = NoServer /\ started = 0
  /\ server = [s \in Servers |-> "none"] /\ taken \in BOOLEAN /\ stopping = NoServer
  /\ pty = "off" /\ ws = "off" /\ finished = FALSE /\ shell = "none"
  /\ kiInitialized = FALSE /\ kiEngine = "stub" /\ user = [u \in Users |-> "idle"]

---------------------------------------------------------------------------
(* The server. *)

AtRest == stopping = NoServer /\ \A s \in Servers : server[s] \in {"none", "listening", "gone"}
Types == Patient => AtRest

\* startWebBackground: the goroutine begins with the server not yet made.
Start ==
  /\ Types /\ started < MaxServers /\ stopping = NoServer
  /\ webServer = NoServer
  /\ token' = started + 1
  /\ started' = started + 1
  /\ server' = [server EXCEPT ![started + 1] = "begun"]
  /\ UNCHANGED <<webServer, taken, stopping, session, engine>>

\* runWebServer: the handlers, webServer = srv.
Make(s) ==
  /\ server[s] = "begun"
  /\ server' = [server EXCEPT ![s] = "made"]
  /\ webServer' = s
  /\ UNCHANGED <<token, started, taken, stopping, session, engine>>

\* ListenAndServe: no two servers have the port.
Listen(s) ==
  /\ server[s] = "made"
  /\ server' = [server EXCEPT ![s] =
       IF taken \/ \E o \in Servers : server[o] = "listening" THEN "failed" ELSE "listening"]
  /\ UNCHANGED <<webServer, token, started, taken, stopping, session, engine>>

Return_KeepsIt(s) ==
  /\ server[s] \in {"failed", "down"}
  /\ server' = [server EXCEPT ![s] = "gone"]
  /\ UNCHANGED <<webServer, token, started, taken, stopping, session, engine>>

\* ListenAndServe returned: the goroutine clears webServer, whosever it is.
Return(s) ==
  /\ server[s] \in {"failed", "down"}
  /\ server' = [server EXCEPT ![s] = "gone"]
  /\ webServer' = NoServer
  /\ UNCHANGED <<token, started, taken, stopping, session, engine>>

\* stopWebBackground: Shutdown, then webServer = nil.
Stop ==
  /\ Types /\ stopping = NoServer
  /\ webServer # NoServer
  /\ stopping' = webServer
  /\ server' = [server EXCEPT ![webServer] = IF server[webServer] \in {"made", "listening"}
                                             THEN "down" ELSE @]
  /\ UNCHANGED <<webServer, token, started, taken, session, engine>>

Stopped ==
  /\ stopping # NoServer
  /\ stopping' = NoServer
  /\ webServer' = NoServer
  /\ UNCHANGED <<token, started, server, taken, session, engine>>

---------------------------------------------------------------------------
(* A terminal session (handleTerminalWS): a shell on a pseudo terminal, two *)
(* goroutines that copy, and the handler that waits for done.               *)

Open ==
  /\ shell = "none" /\ \E s \in Servers : server[s] = "listening"
  /\ shell' = "runs" /\ pty' = "reads" /\ ws' = "reads"
  /\ UNCHANGED <<finished, web, engine>>

ShellExits ==
  /\ shell = "runs" /\ shell' = "exited"
  /\ UNCHANGED <<pty, ws, finished, web, engine>>

\* Read fails once the shell is gone or the handler closed the terminal.
PtyEnds ==
  /\ pty = "reads" /\ shell \in {"exited", "reaped"}
  /\ pty' = "ended" /\ finished' = TRUE
  /\ UNCHANGED <<ws, shell, web, engine>>

\* ReadMessage fails: the browser left, or the handler closed the connection.
WsEnds ==
  /\ ws = "reads" /\ ws' = "ended" /\ finished' = TRUE
  /\ UNCHANGED <<pty, shell, web, engine>>

\* <-done, Kill, Wait; the deferred closes end the reader that is left.
CloseSession ==
  /\ finished /\ shell \in {"runs", "exited"}
  /\ shell' = "reaped"
  /\ UNCHANGED <<pty, ws, finished, web, engine>>

---------------------------------------------------------------------------
(* ensureKIEngine by the prompt and by the handlers of web requests.        *)

Ensure(u) ==
  /\ user[u] = "idle"
  /\ user' = [user EXCEPT ![u] = IF kiInitialized THEN "use" ELSE "init"]
  /\ kiInitialized' = TRUE
  /\ UNCHANGED <<kiEngine, web, session>>

InitEngine(u) ==
  /\ user[u] = "init"
  /\ kiEngine' = "provider"
  /\ user' = [user EXCEPT ![u] = "use"]
  /\ UNCHANGED <<kiInitialized, web, session>>

Use(u) ==
  /\ user[u] = "use"
  /\ user' = [user EXCEPT ![u] = kiEngine]
  /\ UNCHANGED <<kiInitialized, kiEngine, web, session>>

Next ==
  \/ Start \/ Stop \/ Stopped
  \/ \E s \in Servers : Make(s) \/ Listen(s) \/ Return(s)
  \/ Open \/ ShellExits \/ PtyEnds \/ WsEnds \/ CloseSession
  \/ \E u \in Users : Ensure(u) \/ InitEngine(u) \/ Use(u)

Spec == Init /\ [][Next]_vars

---------------------------------------------------------------------------
(* When the goroutines have come to rest, a server that serves is the one   *)
(* web stop would stop, with the token the user was told, and web stop has  *)
(* nothing to stop when none serves (web_server.go:45-84, 117).        *)
RunningIsKnown ==
  AtRest =>
    \A s \in Servers : server[s] = "listening" <=> webServer = s /\ token = s
=============================================================================
