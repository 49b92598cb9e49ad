---------------------------- MODULE VncHandshake ----------------------------
(***************************************************************************)
(* The start of a connection: handleVncConnection (vnc.go) up to its       *)
(* command loop, and the browser (rfb.js).  What the two say next depends  *)
(* on the version the browser has answered with, and nothing on the wire   *)
(* tells one message from another.                                         *)
(***************************************************************************)
EXTENDS Integers, Sequences

CONSTANTS Versions  \* what a browser may answer; 0 is no version at all

ASSUME VersionAssumption == Versions \subseteq Nat

VARIABLES
  version,     \* of the browser
  server,      \* what handleVncConnection waits for
  browser,     \* what the browser waits for
  toBrowser, toServer

handshakeVars == <<version, server, browser, toBrowser, toServer>>

ServerStates  == {"greet", "version", "security", "shared", "loop", "closed"}
BrowserStates == {"ProtocolVersion", "Security", "SecurityResult", "ServerInitialisation",
                  "normal", "confused", "gone"}
ServerSays    == {"greeting", "types", "scheme", "result", "init"}
BrowserSays   == {"version", "no version", "security", "shared"}

HandshakeTypeOK ==
  /\ version \in Versions
  /\ server \in ServerStates /\ browser \in BrowserStates
  /\ toBrowser \in Seq(ServerSays) /\ Len(toBrowser) <= 2
  /\ toServer \in Seq(BrowserSays) /\ Len(toServer) <= 2

HandshakeInit ==
  /\ version \in Versions
  /\ server = "greet" /\ browser = "ProtocolVersion"
  /\ toBrowser = <<>> /\ toServer = <<>>

-----------------------------------------------------------------------------
(* handleVncConnection.                                                    *)
Greet ==
  /\ server = "greet"
  /\ toBrowser' = <<"greeting">>
  /\ server' = "version"
  /\ UNCHANGED <<version, browser, toServer>>

(* A byte is a byte: the server too takes what comes for what it expects.  *)
ServerReads(state) ==
  /\ server = state
  /\ toServer # <<>>
  /\ toServer' = Tail(toServer)
  /\ UNCHANGED <<version, browser>>

Refuse ==
  /\ ServerReads("version")
  /\ Head(toServer) = "no version"
  /\ server' = "closed"
  /\ UNCHANGED toBrowser

OfferTypes ==
  /\ ServerReads("version")
  /\ Head(toServer) = "version"
  /\ version >= 7
  /\ toBrowser' = Append(toBrowser, "types")
  /\ server' = "security"

DecideScheme ==
  /\ ServerReads("version")
  /\ Head(toServer) = "version"
  /\ version < 7
  /\ toBrowser' = Append(toBrowser, "scheme")
  /\ server' = "shared"

From7 == 7

ResultFrom == 8

ReadSecurity ==
  /\ ServerReads("security")
  /\ toBrowser' = IF version >= ResultFrom THEN Append(toBrowser, "result") ELSE toBrowser
  /\ server' = "shared"

ReadShared ==
  /\ ServerReads("shared")
  /\ toBrowser' = Append(toBrowser, "init")
  /\ server' = "loop"

(* A read fails: the connection is closed, without a session.              *)
ReadFails ==
  /\ server \in {"version", "security", "shared"}
  /\ browser \in {"gone", "confused"} /\ toServer = <<>>
  /\ server' = "closed"
  /\ UNCHANGED <<version, browser, toBrowser, toServer>>

-----------------------------------------------------------------------------
(* The browser, which takes whatever comes for what it expects.            *)
Expects ==
  CASE browser = "ProtocolVersion"      -> "greeting"
    [] browser = "Security"             -> IF version >= 7 THEN "types" ELSE "scheme"
    [] browser = "SecurityResult"       -> "result"
    [] browser = "ServerInitialisation" -> "init"

Answer ==
  CASE browser = "ProtocolVersion" -> <<IF version = 0 THEN "no version" ELSE "version">>
    [] browser = "Security" ->
         IF version >= 8 THEN <<"security">>
         ELSE IF version = 7 THEN <<"security", "shared">> ELSE <<"shared">>
    [] browser = "SecurityResult" -> <<"shared">>
    [] browser = "ServerInitialisation" -> <<>>

After ==
  CASE browser = "ProtocolVersion" -> "Security"
    [] browser = "Security" ->
         IF version >= 8 THEN "SecurityResult" ELSE "ServerInitialisation"
    [] browser = "SecurityResult" -> "ServerInitialisation"
    [] browser = "ServerInitialisation" -> "normal"

InHandshake == browser \notin {"normal", "confused", "gone"}

TakeMessage ==
  /\ InHandshake /\ toBrowser # <<>>
  /\ toBrowser' = Tail(toBrowser)
  /\ \/ /\ Head(toBrowser) = Expects
        /\ browser' = After
        /\ toServer' = toServer \o Answer
     \/ /\ Head(toBrowser) # Expects
        /\ browser' = "confused"
        /\ UNCHANGED toServer
  /\ UNCHANGED <<version, server>>

LeaveEarly ==
  /\ InHandshake \* what it sent may still arrive
  /\ browser' = "gone"
  /\ UNCHANGED <<version, server, toBrowser, toServer>>

HandshakeServer == Greet \/ Refuse \/ OfferTypes \/ DecideScheme \/ ReadSecurity \/ ReadShared \/ ReadFails
HandshakeNext   == HandshakeServer \/ TakeMessage \/ LeaveEarly

-----------------------------------------------------------------------------
(* Whatever version the browser answers with, it never takes a message of  *)
(* the server for another one.                                             *)
SameProtocol == browser # "confused"

(* When the browser believes the connection to stand, the command loop     *)
(* runs, and nothing of the handshake is left for it to take for a command. *)
BothReady == browser = "normal" => server = "loop" /\ toServer = <<>> /\ toBrowser = <<>>

(* The handshake comes to an end: no read waits for what is not sent.      *)
HandshakeEnds == <>(server = "closed" \/ browser = "normal" \/ (browser = "gone" /\ server = "loop"))
=============================================================================
