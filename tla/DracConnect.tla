---------------------------- MODULE DracConnect -----------------------------
(***************************************************************************)
(* How ctrlReader gets from an account to a console: getDracType and its   *)
(* web requests (dracDetect.go), the table of contexts through which C     *)
(* finds its sockets again (glue.go), connect_start_ctrl and the switch    *)
(* to TLS (protocol.c, glue_gossl.go, glue_openssl.go), up to the video.   *)
(* The sessions of several hosts run at the same time and share the table, *)
(* and so do a session that has ended and waits for its clients, and the   *)
(* next one of its host.                                                   *)
(*                                                                         *)
(* What the dialogue does after the login is in DracProtocol, how the      *)
(* goroutines of a session end is in DracSession.                          *)
(***************************************************************************)
EXTENDS Accounts

CONSTANTS
  Sessions,    \* objects of type DracCtx, each used once
  Installations, \* what may answer at the hosts
  NoHost,
  GoodAccount  \* the account every DRAC accepts

(* A DRAC 6 stands for all the later ones, and may want TLS; anything else *)
(* is unknown, and nothing may answer at all.                              *)
Kinds == {"drac4", "drac5", "drac6", "drac6 with tls", "unknown", "nothing"}

ASSUME ConnectAssumption ==
  /\ Installations \subseteq [Hosts -> Kinds]
  /\ IsFiniteSet(Sessions) /\ NoHost \notin Hosts
  /\ GoodAccount \in Accounts /\ GoodAccount # Account("", "")

VARIABLES
  kind,        \* what answers at a host
  status,      \* dracstates: what the page says of a host
  web,         \* of a DRAC: the sessions of its web server that wait for a logout
  host,        \* of a session
  pc,          \* of its ctrlReader
  account,     \* its login and passwd
  console,     \* what it will log in to the console with
  failed,      \* whether its getDracType returns an error
  socket,      \* its ctrlSocket and videoSocket
  ctxId,       \* the id in its context, -1 if it has none
  refs,        \* dracCtxRefs: whose context an id is
  nextId,      \* dracCtxRefsNextID
  through,     \* the kind of socket its login went to
  alive        \* the daemon

ownVars  == <<host, account>>
glueVars == <<socket, ctxId, refs, nextId, through>>
connectVars == <<kind, status, web, ownVars, pc, console, failed, glueVars, alive>>

Channels  == {"ctrl", "video"}
NoSockets == [c \in Channels |-> "none"]
SocketKinds == {"none", "plain", "tls", "broken"}
Probing   == {"get", "login", "page", "logout"}
Ids       == 0 .. Cardinality(Sessions)

ConnectTypeOK ==
  /\ kind \in [Hosts -> Kinds]
  /\ status \in [Hosts -> {"disconnected", "connecting", "connected", "connection error",
                           "auth error", "video connected", "video connection error", "ready"}]
  /\ web \in [Hosts -> Ids]
  /\ host \in [Sessions -> Hosts \cup {NoHost}] /\ account \in [Sessions -> Accounts]
  /\ pc \in [Sessions -> Probing \cup {"new", "dial", "init", "read", "initVideo", "up",
                               "close", "over", "freed"}]
  /\ console \in [Sessions -> {"nothing", "account", "session"}]
  /\ failed \in [Sessions -> BOOLEAN]
  /\ socket \in [Sessions -> [Channels -> SocketKinds]]
  /\ ctxId \in [Sessions -> Ids \cup {-1}] /\ nextId \in Ids
  /\ DOMAIN refs \subseteq Ids /\ \A id \in DOMAIN refs : refs[id] \in Sessions
  /\ through \in [Sessions -> SocketKinds]
  /\ alive \in BOOLEAN

ConnectInit ==
  /\ kind \in Installations
  /\ status = [h \in Hosts |-> "disconnected"]
  /\ web = [h \in Hosts |-> 0]
  /\ host = [s \in Sessions |-> NoHost]
  /\ pc = [s \in Sessions |-> "new"]
  /\ account = [s \in Sessions |-> Account("", "")]
  /\ console = [s \in Sessions |-> "nothing"]
  /\ failed = [s \in Sessions |-> FALSE]
  /\ socket = [s \in Sessions |-> NoSockets]
  /\ ctxId = [s \in Sessions |-> -1] /\ refs = << >> /\ nextId = 0
  /\ through = [s \in Sessions |-> "none"] /\ alive = TRUE

Goto(s, there) == pc' = [pc EXCEPT ![s] = there]
Says(s, what)  == status' = [status EXCEPT ![host[s]] = what]
Is(s, kinds)   == kind[host[s]] \in kinds
Modern(s)      == Is(s, {"drac6", "drac6 with tls"})

(* setupDracClient made the session, and dracHandler starts its reader.    *)
KeptStatus(h) == status

Connecting(h) == [status EXCEPT ![h] = "connecting"]

Begin(s, h, a) ==
  /\ pc[s] = "new"
  /\ host' = [host EXCEPT ![s] = h] /\ account' = [account EXCEPT ![s] = a]
  /\ Goto(s, "get")
  /\ status' = Connecting(h)
  /\ UNCHANGED <<kind, web, console, failed, glueVars, alive>>

-----------------------------------------------------------------------------
(* getDracType.  A DRAC 6 or later wants the account on the console, the   *)
(* older ones a session of their web server; of another one it panics.     *)
GetFrontPage(s) ==
  /\ pc[s] = "get"
  /\ \/ /\ Modern(s)
        /\ console' = [console EXCEPT ![s] = "account"]
        /\ Goto(s, "dial")
        /\ UNCHANGED alive
     \/ /\ Is(s, {"drac4", "drac5"})
        /\ Goto(s, "login")
        /\ UNCHANGED <<console, alive>>
     \/ /\ Is(s, {"unknown"})
        /\ alive' = FALSE
        /\ UNCHANGED <<pc, console>>
  /\ UNCHANGED <<kind, status, web, ownVars, failed, glueVars>>

GetFails(s) ==
  /\ pc[s] = "get"
  /\ Goto(s, "close") /\ Says(s, "connection error")
  /\ UNCHANGED <<kind, web, ownVars, console, failed, glueVars, alive>>

(* The login of the web server.  With a wrong account there is an answer   *)
(* too, which nobody looks at.                                             *)
PostLogin(s) ==
  /\ pc[s] = "login"
  /\ web' = [web EXCEPT ![host[s]] = IF account[s] = GoodAccount THEN @ + 1 ELSE @]
  /\ Goto(s, "page")
  /\ UNCHANGED <<kind, status, ownVars, console, failed, glueVars, alive>>

(* The request or its answer is lost, or the client timed out.             *)
PostLoginFails(s) ==
  /\ pc[s] = "login"
  /\ Goto(s, "close") /\ Says(s, "connection error")
  /\ UNCHANGED <<kind, web, ownVars, console, failed, glueVars, alive>>

(* The page of the console names the session and the ports, if there is a  *)
(* session; getValue and Atoi make nothing, and port 0, of what is missing. *)
GetConsolePage(s) ==
  /\ pc[s] = "page"
  /\ console' = [console EXCEPT ![s] = IF account[s] = GoodAccount THEN "session" ELSE "nothing"]
  /\ Goto(s, "logout")
  /\ UNCHANGED <<kind, status, web, ownVars, failed, glueVars, alive>>

(* The logout is deferred: it comes before every return from here on.      *)
NotDeferred == "close"

Deferred == "logout"

GetConsolePageFails(s) ==
  /\ pc[s] = "page"
  /\ failed' = [failed EXCEPT ![s] = TRUE]
  /\ Goto(s, Deferred)
  /\ UNCHANGED <<kind, status, web, ownVars, console, glueVars, alive>>

Logout(s) ==
  /\ pc[s] = "logout"
  /\ web' = [web EXCEPT ![host[s]] = IF account[s] = GoodAccount THEN @ - 1 ELSE @]
  /\ \/ /\ failed[s]
        /\ Goto(s, "close") /\ Says(s, "connection error")
     \/ /\ ~failed[s]
        /\ Goto(s, "dial") /\ UNCHANGED status
  /\ UNCHANGED <<kind, ownVars, console, failed, glueVars, alive>>

-----------------------------------------------------------------------------
(* The table of contexts.                                                  *)
SizeOfTable == Cardinality(DOMAIN refs)

Fresh == nextId

AllocDracClientCtx(s) ==
  /\ ctxId' = [ctxId EXCEPT ![s] = Fresh]
  /\ refs' = [id \in DOMAIN refs \cup {Fresh} |-> IF id = Fresh THEN s ELSE refs[id]]
  /\ nextId' = nextId + 1

FreeDracClientCtx(s) ==
  /\ refs' = [id \in DOMAIN refs \ {ctxId[s]} |-> refs[id]]
  /\ ctxId' = [ctxId EXCEPT ![s] = -1]

GetDracCtx(s) == refs[ctxId[s]]

(* Without a port the dial fails.                                          *)
Dial(s) ==
  /\ pc[s] = "dial" /\ console[s] # "nothing"
  /\ socket' = [socket EXCEPT ![s].ctrl = "plain"]
  /\ AllocDracClientCtx(s)
  /\ Goto(s, "init") /\ Says(s, "connected")
  /\ UNCHANGED <<kind, web, ownVars, console, failed, through, alive>>

DialFails(s) ==
  /\ pc[s] = "dial"
  /\ Goto(s, "close") /\ Says(s, "connection error")
  /\ UNCHANGED <<kind, web, ownVars, console, failed, glueVars, alive>>

(* GlueStartSslCtrl and GlueStartSslVideo: only after a handshake the      *)
(* socket is replaced; after a failed one the code goes on as if.  The     *)
(* socket is that of the session which the table gives for the context.    *)
TlsSocket(s, c) == {"tls", "broken"}

GlueStartSsl(s, c) ==
  \E k \in TlsSocket(s, c) : socket' = [socket EXCEPT ![GetDracCtx(s)][c] = k]

(* handle_init_response_ctrl and drac4_send_login: TLS, and then the login *)
(* on what there is.  A DRAC 6 says in its init response whether it wants  *)
(* TLS, for a DRAC 5 the code says so itself, and a DRAC 4 has none.       *)
WantsTls(s) == Is(s, {"drac5", "drac6 with tls"})

SendLogin(s) ==
  /\ pc[s] = "init"
  /\ IF WantsTls(s) THEN GlueStartSsl(s, "ctrl") ELSE UNCHANGED socket
  /\ through' = [through EXCEPT ![s] = socket'[GetDracCtx(s)].ctrl]
  /\ Goto(s, "read")
  /\ UNCHANGED <<kind, status, web, ownVars, console, failed, ctxId, refs, nextId, alive>>

(* What the DRAC can read, and what it accepts.                            *)
Readable(s) == socket[s].ctrl = (IF WantsTls(s) THEN "tls" ELSE "plain")
Accepts(s)  == Readable(s) /\ (console[s] = "account" => account[s] = GoodAccount)

LoginRefused(s) ==
  /\ pc[s] = "read" /\ Readable(s) /\ ~Accepts(s)
  /\ Says(s, "auth error")
  /\ UNCHANGED <<kind, web, ownVars, pc, console, failed, glueVars, alive>>

(* An accepted login: all but a DRAC 4 want a second connection.           *)
LoginAccepted(s) ==
  /\ pc[s] = "read" /\ Accepts(s)
  /\ \/ /\ Is(s, {"drac4"})
        /\ Goto(s, "up")
        /\ UNCHANGED <<socket, status>>
     \/ /\ ~Is(s, {"drac4"})
        /\ socket' = [socket EXCEPT ![s].video = "plain"]
        /\ Goto(s, "initVideo") /\ Says(s, "video connected")
     \/ /\ ~Is(s, {"drac4"})
        /\ Goto(s, "close") /\ Says(s, "video connection error")
        /\ UNCHANGED socket
  /\ UNCHANGED <<kind, web, ownVars, console, failed, ctxId, refs, nextId, through, alive>>

(* handle_init_response_video; a DRAC 5 gets no TLS here.                  *)
StartVideo(s) ==
  /\ pc[s] = "initVideo"
  /\ IF Is(s, {"drac6 with tls"}) THEN GlueStartSsl(s, "video") ELSE UNCHANGED socket
  /\ Goto(s, "up")
  /\ UNCHANGED <<kind, status, web, ownVars, console, failed, ctxId, refs, nextId, through,
                 alive>>

(* videoUpdate with the first picture and with every other one.            *)
VideoUpdate(s) ==
  /\ pc[s] = "up" /\ status[host[s]] # "ready"
  /\ Says(s, "ready")
  /\ UNCHANGED <<kind, web, ownVars, pc, console, failed, glueVars, alive>>

(* A socket fails, or is closed by the timer or by killSessionHandler: a   *)
(* read that waits for the DRAC returns an error.                          *)
Waiting(s) ==
  \/ pc[s] \in {"read", "up"}
  \/ pc[s] \in {"init", "initVideo"} /\ Modern(s)

SocketFails(s) ==
  /\ Waiting(s)
  /\ Goto(s, "close")
  /\ UNCHANGED <<kind, status, web, ownVars, console, failed, glueVars, alive>>

(* dracHandler takes the session out of dracmap, ...                       *)
Finish(s) ==
  /\ pc[s] = "close"
  /\ Goto(s, "over")
  /\ UNCHANGED <<kind, status, web, ownVars, console, failed, glueVars, alive>>

(* ... and when the last client has left frees what it has.                *)
Free(s) ==
  /\ pc[s] = "over"
  /\ IF ctxId[s] >= 0 THEN FreeDracClientCtx(s) ELSE UNCHANGED <<ctxId, refs>>
  /\ socket' = [socket EXCEPT ![s] = NoSockets] /\ through' = [through EXCEPT ![s] = "none"]
  /\ account' = [account EXCEPT ![s] = Account("", "")]
  /\ console' = [console EXCEPT ![s] = "nothing"] /\ failed' = [failed EXCEPT ![s] = FALSE]
  /\ host' = [host EXCEPT ![s] = NoHost]
  /\ Goto(s, "freed")
  /\ UNCHANGED <<kind, status, web, nextId, alive>>

Probe(s) ==
  \/ GetFrontPage(s) \/ GetFails(s)
  \/ PostLogin(s) \/ PostLoginFails(s)
  \/ GetConsolePage(s) \/ GetConsolePageFails(s)
  \/ Logout(s)

Connect(s) ==
  \/ Dial(s) \/ DialFails(s)
  \/ SendLogin(s) \/ LoginRefused(s) \/ LoginAccepted(s)
  \/ StartVideo(s) \/ VideoUpdate(s)
  \/ SocketFails(s)
  \/ Free(s)

-----------------------------------------------------------------------------
Current(s) == pc[s] \notin {"new", "over", "freed"}

(* The old DRACs have few web sessions: however the probing ends after a   *)
(* login, it asks for the logout.  (Nobody repeats one that gets lost.)    *)
WebLoggedOut ==
  \A h \in Hosts :
    (\A s \in Sessions : host[s] = h => pc[s] \notin Probing) => web[h] = 0

(* C finds through its context the sockets of its own session, whichever   *)
(* sessions came and went; freed contexts leave nothing in the table.      *)
OwnSockets ==
  /\ \A s \in Sessions : ctxId[s] >= 0 => ctxId[s] \in DOMAIN refs /\ GetDracCtx(s) = s
  /\ DOMAIN refs = {ctxId[s] : s \in Sessions} \ {-1}

(* A login on a socket without TLS means that the DRAC did not want any,   *)
(* and so does a video without TLS of a DRAC that is asked about it; where *)
(* a handshake failed, the socket is useless rather than in clear.         *)
TlsKept ==
  \A s \in Sessions :
    /\ through[s] = "plain" => ~WantsTls(s)
    /\ pc[s] = "up" /\ Is(s, {"drac6 with tls"}) => socket[s].video # "plain"

(* The page says "auth error" of an account that is wrong, and of a video  *)
(* only when it was right, whatever the session before had: the form shows *)
(* "Invalid login or password" for the first, and opens the console for    *)
(* "ready".                                                                *)
StatusOfAccount ==
  \A s \in Sessions : Current(s) =>
    /\ status[host[s]] = "auth error" => account[s] # GoodAccount
    /\ status[host[s]] \in {"video connected", "ready"} => account[s] = GoodAccount
=============================================================================
