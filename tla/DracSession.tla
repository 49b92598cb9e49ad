---------------------------- MODULE DracSession ----------------------------
(***************************************************************************)
(* The life of the shared console sessions of one host (drac.go, the       *)
(* request handlers of http.go, the end of handleVncConnection in vnc.go). *)
(*                                                                         *)
(* A session is one DracCtx.  Four kinds of goroutine meet on it:          *)
(*   - dracHandler, which owns the session and frees it;                   *)
(*   - ctrlReader and videoReader, which read the two sockets of the DRAC  *)
(*     and broadcast frames through videoUpdate;                           *)
(*   - VNC viewers (handleVncConnection), linked in vncClients;            *)
(*   - HTTP requests, counted in otherClientCount: Requests wait for a     *)
(*     frame (png, gif), Connects only join and leave (the POST on "/").   *)
(* All channels are unbuffered, so a send and its receive are one joint    *)
(* step; dracmapLock is taken where the code takes it, and is a variable   *)
(* because a request holds it while it writes to its client.               *)
(***************************************************************************)
EXTENDS Integers, FiniteSets

CONSTANTS
  Sessions,   \* identities for the DracCtx objects the host may need
  Viewers,    \* VNC connections, each of which joins once
  Requests,   \* png and gif requests
  Connects,   \* POST requests of the connect form
  NoSession,  \* the nil *DracCtx
  NoClient    \* nobody: the lock is free, the broadcast has no element

Others  == Requests \cup Connects
Clients == Viewers \cup Others

ASSUME SessionAssumption == NoSession \notin Sessions
ASSUME ClientAssumption ==
  /\ NoClient \notin Clients
  /\ Viewers \cap Others = {} /\ Requests \cap Connects = {}
  /\ IsFiniteSet(Others)

VARIABLES
  dracmap,           \* dracmap[host]
  lock,              \* the request that holds dracmapLock across a write
  status,            \* dracstates[host], with the session that wrote it
  panic,             \* why the daemon died, "none" while it runs
  handler,           \* where dracHandler is
  dracFinished,      \* its local of that name
  ctrl, video,       \* where ctrlReader and videoReader are
  dracType,          \* only whether the frames come on the control socket
  ctrlSocket, videoSocket,
  ctx,               \* the C client_ctx
  update,            \* where the reader is inside videoUpdate
  cursor, served,    \* its loop over vncClients: the element, those done
  hasFrame,          \* lastPngFrame is set and animatedFrameList not empty
  sentFirstFrame,    \* and firstFrameEvent is closed
  vncClients,
  otherClientCount,
  client,            \* where the goroutine of a client is
  sess,              \* its dracCtx
  chan,              \* videoChannel of a viewer: is anybody receiving?
  conn,              \* the network connection of a viewer
  reply              \* what a request answered

registryVars == <<dracmap, vncClients, otherClientCount, sess>>
handlerVars  == <<handler, dracFinished>>
ctrlVars     == <<ctrl, ctrlSocket, dracType>>
videoVars    == <<video, videoSocket>>
updateVars   == <<update, cursor, served>>
frameVars    == <<hasFrame, sentFirstFrame>>
viewerVars   == <<chan, conn>>
vars == <<registryVars, handlerVars, ctrlVars, videoVars, updateVars, frameVars,
          viewerVars, client, reply, lock, status, panic, ctx>>

-----------------------------------------------------------------------------
HandlerStates == {"unborn", "select", "finishing", "check", "reaping", "cleanup", "exited"}
CtrlStates    == {"unborn", "detect", "dial", "start", "read", "dialVideo", "update",
                  "closing", "waitVideo", "finSend", "exited"}
VideoStates   == {"none", "read", "update", "finSend", "exited"}
SocketStates  == {"nil", "open", "closed"}
ClientStates  == {"new", "joining", "serving", "waiting", "writing", "leaving", "left", "gone"}
StatusValues  == {"disconnected", "connecting", "connected", "connection error",
                  "video connected", "video connection error", "auth error", "ready"}
Panics        == {"none", "unimplemented", "nil ctx", "freed ctx", "closed channel"}

(* Every variable stays within its declared values. *)
TypeOK ==
  /\ dracmap \in Sessions \cup {NoSession}
  /\ lock \in Requests \cup {NoClient}
  /\ status \in [sess : Sessions \cup {NoSession}, state : StatusValues]
  /\ panic \in Panics
  /\ handler \in [Sessions -> HandlerStates]
  /\ dracFinished \in [Sessions -> BOOLEAN]
  /\ ctrl \in [Sessions -> CtrlStates]
  /\ video \in [Sessions -> VideoStates]
  /\ dracType \in [Sessions -> {"unknown", "drac4", "drac5+"}]
  /\ ctrlSocket \in [Sessions -> SocketStates]
  /\ videoSocket \in [Sessions -> SocketStates]
  /\ ctx \in [Sessions -> {"nil", "live", "freed"}]
  /\ update \in [Sessions -> {"none", "save", "next", "send"}]
  /\ cursor \in [Sessions -> Viewers \cup {NoClient}]
  /\ served \in [Sessions -> SUBSET Viewers]
  /\ hasFrame \in [Sessions -> BOOLEAN]
  /\ sentFirstFrame \in [Sessions -> BOOLEAN]
  /\ vncClients \in [Sessions -> SUBSET Viewers]
  /\ otherClientCount \in [Sessions -> Nat]
  /\ client \in [Clients -> ClientStates]
  /\ sess \in [Clients -> Sessions \cup {NoSession}]
  /\ chan \in [Viewers -> {"open", "deaf", "closed"}]
  /\ conn \in [Viewers -> {"open", "closed"}]
  /\ reply \in [Requests -> {"none", "image", "error"}]

Init ==
  /\ dracmap = NoSession
  /\ lock = NoClient
  /\ status = [sess |-> NoSession, state |-> "disconnected"]
  /\ panic = "none"
  /\ handler = [s \in Sessions |-> "unborn"]
  /\ dracFinished = [s \in Sessions |-> FALSE]
  /\ ctrl = [s \in Sessions |-> "unborn"]
  /\ video = [s \in Sessions |-> "none"]
  /\ dracType = [s \in Sessions |-> "unknown"]
  /\ ctrlSocket = [s \in Sessions |-> "nil"]
  /\ videoSocket = [s \in Sessions |-> "nil"]
  /\ ctx = [s \in Sessions |-> "nil"]
  /\ update = [s \in Sessions |-> "none"]
  /\ cursor = [s \in Sessions |-> NoClient]
  /\ served = [s \in Sessions |-> {}]
  /\ hasFrame = [s \in Sessions |-> FALSE]
  /\ sentFirstFrame = [s \in Sessions |-> FALSE]
  /\ vncClients = [s \in Sessions |-> {}]
  /\ otherClientCount = [s \in Sessions |-> 0]
  /\ client = [c \in Clients |-> "new"]
  /\ sess = [c \in Clients |-> NoSession]
  /\ chan = [v \in Viewers |-> "open"]
  /\ conn = [v \in Viewers |-> "open"]
  /\ reply = [r \in Requests |-> "none"]

(* A panic in any goroutine but that of a request ends the whole daemon.   *)
Alive == panic = "none"

LockFree == lock = NoClient
Writes(s, state) == status' = [sess |-> s, state |-> state]

-----------------------------------------------------------------------------
(* The clients.                                                            *)

(* A client holds a place in the session from the moment setupDracClient   *)
(* links it until its teardown unlinks it.                                 *)
Members(s) == {c \in Clients : sess[c] = s /\ client[c] \notin {"new", "left", "gone"}}

CountAfterJoin(s) == otherClientCount[s] + 1

(* setupDracClient, its critical section: join the session of the map, or  *)
(* start one with its two goroutines.  The "connecting" picture it may     *)
(* send to a viewer has a receiver (bufferedVideoWriter has just started), *)
(* so the send under the lock does not block.                              *)
Setup(c, s) ==
  /\ Alive
  /\ client[c] = "new"
  /\ LockFree
  /\ IF dracmap = NoSession
     THEN /\ handler[s] = "unborn"
          /\ dracmap' = s
          /\ handler' = [handler EXCEPT ![s] = "select"]
          /\ ctrl' = [ctrl EXCEPT ![s] = "detect"]
          /\ Writes(s, "connecting")
     ELSE /\ dracmap = s
          /\ UNCHANGED <<dracmap, handler, ctrl, status>>
  /\ IF c \in Viewers
     THEN /\ vncClients' = [vncClients EXCEPT ![s] = @ \cup {c}]
          /\ UNCHANGED otherClientCount
     ELSE /\ otherClientCount' = [otherClientCount EXCEPT ![s] = CountAfterJoin(s)]
          /\ UNCHANGED vncClients
  /\ sess' = [sess EXCEPT ![c] = s]
  /\ client' = [client EXCEPT ![c] = "joining"]
  /\ UNCHANGED <<dracFinished, ctrlSocket, dracType, videoVars, updateVars, frameVars,
                 viewerVars, reply, lock, panic, ctx>>

(* Where a client goes once dracHandler has taken its clientEvent.         *)
AfterEvent(c) ==
  CASE client[c] = "left" -> "gone"
    [] client[c] = "joining" /\ c \in Viewers  -> "serving"
    [] client[c] = "joining" /\ c \in Requests -> "waiting"
    [] OTHER -> "leaving"

(* The rendezvous on clientEvent; dracHandler looks at its members only    *)
(* when the DRAC connection is over.                                       *)
ClientEventIgnoresEnd(s) == "select"

EventLeadsTo(s) == IF dracFinished[s] THEN "check" ELSE "select"

ClientEvent(s, c) ==
  /\ Alive
  /\ handler[s] = "select"
  /\ sess[c] = s /\ client[c] \in {"joining", "left"}
  /\ client' = [client EXCEPT ![c] = AfterEvent(c)]
  /\ handler' = [handler EXCEPT ![s] = EventLeadsTo(s)]
  /\ UNCHANGED <<registryVars, dracFinished, ctrlVars, videoVars, updateVars, frameVars,
                 viewerVars, reply, lock, status, panic, ctx>>

(* A browser goes away.                                                    *)
HangUp(v) ==
  /\ Alive
  /\ client[v] \in {"joining", "serving"}
  /\ conn[v] = "open"
  /\ conn' = [conn EXCEPT ![v] = "closed"]
  /\ UNCHANGED <<registryVars, handlerVars, ctrlVars, videoVars, updateVars, frameVars,
                 chan, client, reply, lock, status, panic, ctx>>

(* A key or mouse event of a viewer calls into C with whatever ctx the     *)
(* session has, from the goroutine of the viewer and under no lock.        *)
InputWithoutContext(v) ==
  /\ Alive
  /\ client[v] = "serving"
  /\ ctx[sess[v]] # "live"
  /\ panic' = IF ctx[sess[v]] = "nil" THEN "nil ctx" ELSE "freed ctx"
  /\ UNCHANGED <<registryVars, handlerVars, ctrlVars, videoVars, updateVars, frameVars,
                 viewerVars, client, reply, lock, status, ctx>>

(* The command loop of handleVncConnection ends on a read error, and stops *)
(* bufferedVideoWriter: nobody receives on videoChannel any more.          *)
ReadError(v) ==
  /\ Alive
  /\ client[v] = "serving"
  /\ conn[v] = "closed"
  /\ client' = [client EXCEPT ![v] = "leaving"]
  /\ chan' = [chan EXCEPT ![v] = "deaf"]
  /\ UNCHANGED <<registryVars, handlerVars, ctrlVars, videoVars, updateVars, frameVars,
                 conn, reply, lock, status, panic, ctx>>

(* teardownDracClient: unlink the viewer and close its channel.            *)
TeardownViewer(v) ==
  /\ Alive
  /\ client[v] = "leaving"
  /\ LockFree
  /\ vncClients' = [vncClients EXCEPT ![sess[v]] = @ \ {v}]
  /\ chan' = [chan EXCEPT ![v] = "closed"]
  /\ client' = [client EXCEPT ![v] = "left"]
  /\ UNCHANGED <<dracmap, otherClientCount, sess, handlerVars, ctrlVars, videoVars,
                 updateVars, frameVars, conn, reply, lock, status, panic, ctx>>

(* pngHostHandler and gifHostHandler after firstFrameEvent: with a frame   *)
(* the answer is written under dracmapLock, without one it is an error.    *)
ReadFrame(r) ==
  /\ Alive
  /\ client[r] = "waiting"
  /\ sentFirstFrame[sess[r]]
  /\ LockFree
  /\ IF hasFrame[sess[r]]
     THEN /\ client' = [client EXCEPT ![r] = "writing"]
          /\ lock' = r
          /\ UNCHANGED reply
     ELSE /\ client' = [client EXCEPT ![r] = "leaving"]
          /\ reply' = [reply EXCEPT ![r] = "error"]
          /\ UNCHANGED lock
  /\ UNCHANGED <<registryVars, handlerVars, ctrlVars, videoVars, updateVars, frameVars,
                 viewerVars, status, panic, ctx>>

(* The write returns and the deferred Unlock runs.                         *)
Written(r) ==
  /\ Alive
  /\ client[r] = "writing"
  /\ client' = [client EXCEPT ![r] = "leaving"]
  /\ reply' = [reply EXCEPT ![r] = "image"]
  /\ lock' = NoClient
  /\ UNCHANGED <<registryVars, handlerVars, ctrlVars, videoVars, updateVars, frameVars,
                 viewerVars, status, panic, ctx>>

(* teardownDracRequest.                                                    *)
TeardownRequest(c) ==
  /\ Alive
  /\ client[c] = "leaving"
  /\ LockFree
  /\ otherClientCount' = [otherClientCount EXCEPT ![sess[c]] = @ - 1]
  /\ client' = [client EXCEPT ![c] = "left"]
  /\ UNCHANGED <<dracmap, vncClients, sess, handlerVars, ctrlVars, videoVars, updateVars,
                 frameVars, viewerVars, reply, lock, status, panic, ctx>>

(* killSessionHandler; a nil ctrlSocket panics in the goroutine of the     *)
(* request, where net/http recovers.                                       *)
KillSession(s) ==
  /\ Alive
  /\ dracmap = s
  /\ LockFree
  /\ ctrlSocket[s] = "open"
  /\ ctrlSocket' = [ctrlSocket EXCEPT ![s] = "closed"]
  /\ UNCHANGED <<registryVars, handlerVars, ctrl, dracType, videoVars, updateVars,
                 frameVars, viewerVars, client, reply, lock, status, panic, ctx>>

-----------------------------------------------------------------------------
(* dracHandler.                                                            *)

NoClientsForgetsViewers(s)  == otherClientCount[s] <= 0
NoClientsForgetsRequests(s) == vncClients[s] = {}

NoClients(s) == otherClientCount[s] <= 0 /\ vncClients[s] = {}

(* The rendezvous on dracFinishedEvent, the last step of ctrlReader.       *)
FinishEvent(s) ==
  /\ Alive
  /\ handler[s] = "select"
  /\ ctrl[s] = "finSend"
  /\ ctrl' = [ctrl EXCEPT ![s] = "exited"]
  /\ handler' = [handler EXCEPT ![s] = "finishing"]
  /\ UNCHANGED <<registryVars, dracFinished, ctrlSocket, dracType, videoVars, updateVars,
                 frameVars, viewerVars, client, reply, lock, status, panic, ctx>>

(* The connections teardownVncClient closes.                               *)
DroppedForgetsAll(s) == {}

Dropped(s) == IF NoClients(s) THEN {} ELSE vncClients[s]

(* Its critical section: forget the session, and drop the viewers that are *)
(* still on it or leave the loop when nobody is.                           *)
HandlerFinish(s) ==
  /\ Alive
  /\ handler[s] = "finishing"
  /\ LockFree
  /\ dracFinished' = [dracFinished EXCEPT ![s] = TRUE]
  /\ dracmap' = NoSession
  /\ handler' = [handler EXCEPT ![s] = IF NoClients(s) THEN "cleanup" ELSE "select"]
  /\ conn' = [v \in Viewers |-> IF v \in Dropped(s) THEN "closed" ELSE conn[v]]
  /\ UNCHANGED <<vncClients, otherClientCount, sess, ctrlVars, videoVars, updateVars,
                 frameVars, chan, client, reply, lock, status, panic, ctx>>

(* After a clientEvent of a finished session: leave the loop with the last *)
(* member.                                                                 *)
HandlerCheck(s) ==
  /\ Alive
  /\ handler[s] = "check"
  /\ LockFree
  /\ handler' = [handler EXCEPT ![s] = IF NoClients(s) THEN "cleanup" ELSE "select"]
  /\ UNCHANGED <<registryVars, dracFinished, ctrlVars, videoVars, updateVars, frameVars,
                 viewerVars, client, reply, lock, status, panic, ctx>>

(* The 30 second timer, its check under the lock ...                       *)
HandlerTimeout(s) ==
  /\ Alive
  /\ handler[s] = "select"
  /\ LockFree
  /\ NoClients(s)
  /\ handler' = [handler EXCEPT ![s] = "reaping"]
  /\ UNCHANGED <<registryVars, dracFinished, ctrlVars, videoVars, updateVars, frameVars,
                 viewerVars, client, reply, lock, status, panic, ctx>>

ReapedSocketKept(s) == ctrlSocket[s]

ReapedSocket(s) == IF ctrlSocket[s] = "nil" THEN "nil" ELSE "closed"

(* ... and the Close that follows outside it.                              *)
HandlerReap(s) ==
  /\ Alive
  /\ handler[s] = "reaping"
  /\ ctrlSocket' = [ctrlSocket EXCEPT ![s] = ReapedSocket(s)]
  /\ handler' = [handler EXCEPT ![s] = "select"]
  /\ UNCHANGED <<registryVars, dracFinished, ctrl, dracType, videoVars, updateVars,
                 frameVars, viewerVars, client, reply, lock, status, panic, ctx>>

(* What follows the loop: release the waiters, the frames and the context. *)
HandlerCleanup(s) ==
  /\ Alive
  /\ handler[s] = "cleanup"
  /\ handler' = [handler EXCEPT ![s] = "exited"]
  /\ sentFirstFrame' = [sentFirstFrame EXCEPT ![s] = TRUE]
  /\ hasFrame' = [hasFrame EXCEPT ![s] = FALSE]
  /\ ctx' = [ctx EXCEPT ![s] = IF @ = "nil" THEN "nil" ELSE "freed"]
  /\ UNCHANGED <<registryVars, dracFinished, ctrlVars, videoVars, updateVars, viewerVars,
                 client, reply, lock, status, panic>>

-----------------------------------------------------------------------------
(* ctrlReader.                                                             *)

(* getDracType: the probe fails, recognises a DRAC, or panics on anything  *)
(* else, in a goroutine nobody recovers.                                   *)
DetectFails(s) ==
  /\ Alive
  /\ ctrl[s] = "detect"
  /\ ctrl' = [ctrl EXCEPT ![s] = "closing"]
  /\ Writes(s, "connection error")
  /\ UNCHANGED <<registryVars, handlerVars, ctrlSocket, dracType, videoVars, updateVars,
                 frameVars, viewerVars, client, reply, lock, panic, ctx>>

DetectUnknown(s) ==
  /\ Alive
  /\ ctrl[s] = "detect"
  /\ panic' = "unimplemented"
  /\ UNCHANGED <<registryVars, handlerVars, ctrlVars, videoVars, updateVars, frameVars,
                 viewerVars, client, reply, lock, status, ctx>>

DetectOk(s) ==
  /\ Alive
  /\ ctrl[s] = "detect"
  /\ \E t \in {"drac4", "drac5+"} : dracType' = [dracType EXCEPT ![s] = t]
  /\ ctrl' = [ctrl EXCEPT ![s] = "dial"]
  /\ UNCHANGED <<registryVars, handlerVars, ctrlSocket, videoVars, updateVars, frameVars,
                 viewerVars, client, reply, lock, status, panic, ctx>>

DialFails(s) ==
  /\ Alive
  /\ ctrl[s] = "dial"
  /\ ctrl' = [ctrl EXCEPT ![s] = "closing"]
  /\ Writes(s, "connection error")
  /\ UNCHANGED <<registryVars, handlerVars, ctrlSocket, dracType, videoVars, updateVars,
                 frameVars, viewerVars, client, reply, lock, panic, ctx>>

DialOk(s) ==
  /\ Alive
  /\ ctrl[s] = "dial"
  /\ ctrl' = [ctrl EXCEPT ![s] = "start"]
  /\ ctrlSocket' = [ctrlSocket EXCEPT ![s] = "open"]
  /\ Writes(s, "connected")
  /\ UNCHANGED <<registryVars, handlerVars, dracType, videoVars, updateVars, frameVars,
                 viewerVars, client, reply, lock, panic, ctx>>

(* AllocDracClientCtx and connect_start_ctrl.                              *)
StartCtrl(s) ==
  /\ Alive
  /\ ctrl[s] = "start"
  /\ ctrl' = [ctrl EXCEPT ![s] = "read"]
  /\ ctx' = [ctx EXCEPT ![s] = "live"]
  /\ UNCHANGED <<registryVars, handlerVars, ctrlSocket, dracType, videoVars, updateVars,
                 frameVars, viewerVars, client, reply, lock, status, panic>>

(* incoming_data_ctrl returned NEED_TO_CONNECT_VIDEO.  The DRAC answers    *)
(* the one login of connect_start_ctrl once.                               *)
LoginOk(s) ==
  /\ Alive
  /\ ctrl[s] = "read" /\ ctrlSocket[s] = "open"
  /\ dracType[s] = "drac5+" /\ video[s] = "none"
  /\ ctrl' = [ctrl EXCEPT ![s] = "dialVideo"]
  /\ UNCHANGED <<registryVars, handlerVars, ctrlSocket, dracType, videoVars, updateVars,
                 frameVars, viewerVars, client, reply, lock, status, panic, ctx>>

VideoDialFails(s) ==
  /\ Alive
  /\ ctrl[s] = "dialVideo"
  /\ ctrl' = [ctrl EXCEPT ![s] = "closing"]
  /\ ctrlSocket' = [ctrlSocket EXCEPT ![s] = "closed"]
  /\ Writes(s, "video connection error")
  /\ UNCHANGED <<registryVars, handlerVars, dracType, videoVars, updateVars, frameVars,
                 viewerVars, client, reply, lock, panic, ctx>>

VideoDialOk(s) ==
  /\ Alive
  /\ ctrl[s] = "dialVideo"
  /\ ctrl' = [ctrl EXCEPT ![s] = "read"]
  /\ videoSocket' = [videoSocket EXCEPT ![s] = "open"]
  /\ video' = [video EXCEPT ![s] = "read"]
  /\ Writes(s, "video connected")
  /\ UNCHANGED <<registryVars, handlerVars, ctrlSocket, dracType, updateVars, frameVars,
                 viewerVars, client, reply, lock, panic, ctx>>

(* incoming_data_ctrl returned a login failure; the loop goes on reading.  *)
LoginFails(s) ==
  /\ Alive
  /\ ctrl[s] = "read" /\ ctrlSocket[s] = "open"
  /\ dracType[s] = "drac5+" /\ video[s] = "none"
  /\ Writes(s, "auth error")
  /\ UNCHANGED <<registryVars, handlerVars, ctrlVars, videoVars, updateVars, frameVars,
                 viewerVars, client, reply, lock, panic, ctx>>

(* The read fails: the DRAC went away, or somebody closed the socket.      *)
CtrlReadFails(s) ==
  /\ Alive
  /\ ctrl[s] = "read"
  /\ ctrl' = [ctrl EXCEPT ![s] = "closing"]
  /\ UNCHANGED <<registryVars, handlerVars, ctrlSocket, dracType, videoVars, updateVars,
                 frameVars, viewerVars, client, reply, lock, status, panic, ctx>>

(* After the loop: close the video socket and wait for its reader, if any. *)
AfterCloseWithoutWait(s) == "finSend"

AfterClose(s) == IF videoSocket[s] = "nil" THEN "finSend" ELSE "waitVideo"

CtrlClose(s) ==
  /\ Alive
  /\ ctrl[s] = "closing"
  /\ videoSocket' = [videoSocket EXCEPT ![s] = IF @ = "nil" THEN "nil" ELSE "closed"]
  /\ ctrl' = [ctrl EXCEPT ![s] = AfterClose(s)]
  /\ UNCHANGED <<registryVars, handlerVars, ctrlSocket, dracType, video, updateVars,
                 frameVars, viewerVars, client, reply, lock, status, panic, ctx>>

(* The rendezvous on videoFinishedEvent, the last step of videoReader.     *)
VideoFinished(s) ==
  /\ Alive
  /\ ctrl[s] = "waitVideo"
  /\ video[s] = "finSend"
  /\ ctrl' = [ctrl EXCEPT ![s] = "finSend"]
  /\ video' = [video EXCEPT ![s] = "exited"]
  /\ UNCHANGED <<registryVars, handlerVars, ctrlSocket, dracType, videoSocket, updateVars,
                 frameVars, viewerVars, client, reply, lock, status, panic, ctx>>

-----------------------------------------------------------------------------
(* videoReader, and videoUpdate in the goroutine of either reader.         *)

VideoReadFails(s) ==
  /\ Alive
  /\ video[s] = "read"
  /\ video' = [video EXCEPT ![s] = "finSend"]
  /\ UNCHANGED <<registryVars, handlerVars, ctrlVars, videoSocket, updateVars, frameVars,
                 viewerVars, client, reply, lock, status, panic, ctx>>

(* A packet completes a frame (NEW_FRAME_READY, first saved for the png    *)
(* and gif requests) or says that there is no signal (VIDEO_IS_DOWN).      *)
BeginUpdate(s) ==
  /\ Alive
  /\ update[s] = "none"
  /\ \/ /\ video[s] = "read" /\ videoSocket[s] = "open"
        /\ video' = [video EXCEPT ![s] = "update"]
        /\ UNCHANGED ctrl
     \/ /\ ctrl[s] = "read" /\ ctrlSocket[s] = "open" /\ dracType[s] = "drac4"
        /\ ctrl' = [ctrl EXCEPT ![s] = "update"]
        /\ UNCHANGED video
  /\ \E first \in {"save", "next"} : update' = [update EXCEPT ![s] = first]
  /\ cursor' = [cursor EXCEPT ![s] = NoClient]
  /\ served' = [served EXCEPT ![s] = {}]
  /\ UNCHANGED <<registryVars, handlerVars, ctrlSocket, dracType, videoSocket, frameVars,
                 viewerVars, client, reply, lock, status, panic, ctx>>

(* saveFrameForAnimation.                                                  *)
SaveFrame(s) ==
  /\ Alive
  /\ update[s] = "save"
  /\ LockFree
  /\ hasFrame' = [hasFrame EXCEPT ![s] = TRUE]
  /\ sentFirstFrame' = [sentFirstFrame EXCEPT ![s] = TRUE]
  /\ update' = [update EXCEPT ![s] = "next"]
  /\ UNCHANGED <<registryVars, handlerVars, ctrlVars, videoVars, cursor, served,
                 viewerVars, client, reply, lock, status, panic, ctx>>

(* The loop over vncClients runs under no lock.  Next() of an element that *)
(* was removed meanwhile is nil, and ends the loop early.                  *)
LoopOver(s) ==
  \/ cursor[s] # NoClient /\ cursor[s] \notin vncClients[s]
  \/ vncClients[s] \subseteq served[s]

NextElement(s, v) ==
  /\ Alive
  /\ update[s] = "next"
  /\ ~ LoopOver(s)
  /\ v \in vncClients[s] \ served[s]
  /\ update' = [update EXCEPT ![s] = "send"]
  /\ cursor' = [cursor EXCEPT ![s] = v]
  /\ served' = [served EXCEPT ![s] = @ \cup {v}]
  /\ UNCHANGED <<registryVars, handlerVars, ctrlVars, videoVars, frameVars,
                 viewerVars, client, reply, lock, status, panic, ctx>>

(* bufferedVideoWriter receives whenever it is alive, so a send is done at *)
(* once; between its end and the close of the channel the send blocks, and *)
(* the close makes it panic.                                               *)
SendFrame(s) ==
  /\ Alive
  /\ update[s] = "send"
  /\ chan[cursor[s]] = "open"
  /\ update' = [update EXCEPT ![s] = "next"]
  /\ UNCHANGED <<registryVars, handlerVars, ctrlVars, videoVars, cursor, served, frameVars,
                 viewerVars, client, reply, lock, status, panic, ctx>>

SendOnClosed(s) ==
  /\ Alive
  /\ update[s] = "send"
  /\ chan[cursor[s]] = "closed"
  /\ panic' = "closed channel"
  /\ UNCHANGED <<registryVars, handlerVars, ctrlVars, videoVars, updateVars, frameVars,
                 viewerVars, client, reply, lock, status, ctx>>

EndUpdate(s) ==
  /\ Alive
  /\ update[s] = "next"
  /\ LoopOver(s)
  /\ Writes(s, "ready")
  /\ update' = [update EXCEPT ![s] = "none"]
  /\ video' = [video EXCEPT ![s] = IF @ = "update" THEN "read" ELSE @]
  /\ ctrl' = [ctrl EXCEPT ![s] = IF @ = "update" THEN "read" ELSE @]
  /\ UNCHANGED <<registryVars, handlerVars, ctrlSocket, dracType, videoSocket, cursor,
                 served, frameVars, viewerVars, client, reply, lock, panic, ctx>>

-----------------------------------------------------------------------------
ViewerStep(v) == HangUp(v) \/ InputWithoutContext(v) \/ ReadError(v) \/ TeardownViewer(v)

HandlerStep(s) ==
  \/ FinishEvent(s) \/ HandlerFinish(s) \/ HandlerCheck(s)
  \/ HandlerTimeout(s) \/ HandlerReap(s) \/ HandlerCleanup(s)

CtrlStep(s) ==
  \/ DetectFails(s) \/ DetectUnknown(s) \/ DetectOk(s) \/ DialFails(s) \/ DialOk(s)
  \/ StartCtrl(s) \/ LoginOk(s) \/ LoginFails(s) \/ VideoDialFails(s) \/ VideoDialOk(s)
  \/ CtrlReadFails(s) \/ CtrlClose(s) \/ VideoFinished(s)

UpdateStep(s) ==
  \/ VideoReadFails(s) \/ BeginUpdate(s) \/ SaveFrame(s)
  \/ \E v \in Viewers : NextElement(s, v)
  \/ SendFrame(s) \/ SendOnClosed(s) \/ EndUpdate(s)

Next ==
  \/ \E c \in Clients, s \in Sessions : Setup(c, s) \/ ClientEvent(s, c)
  \/ \E v \in Viewers : ViewerStep(v)
  \/ \E r \in Requests : ReadFrame(r) \/ Written(r)
  \/ \E c \in Others : TeardownRequest(c)
  \/ \E s \in Sessions : KillSession(s) \/ HandlerStep(s) \/ CtrlStep(s) \/ UpdateStep(s)

Spec == Init /\ [][Next]_vars

(* Fairness.  Every step the daemon takes by itself is taken eventually:   *)
(* goroutines run, probes and dials have timeouts, a read on a closed      *)
(* socket fails.  Nothing is assumed of a DRAC or of a viewer, but that a  *)
(* client of the png and gif pages reads its answer.                       *)
(* The select of dracHandler chooses at random among the channels that are *)
(* ready, serves the senders of one channel in order, and restarts its     *)
(* timer on every turn: a sender that finds it in the loop again and again *)
(* is served, hence the strong fairness.                                   *)
ReaderFairness(s) ==
  /\ WF_vars(CtrlClose(s))
  /\ WF_vars(StartCtrl(s))
  /\ WF_vars(VideoFinished(s))
  /\ WF_vars(DetectFails(s) \/ DetectUnknown(s) \/ DetectOk(s))
  /\ WF_vars(DialFails(s) \/ DialOk(s))
  /\ WF_vars(VideoDialFails(s) \/ VideoDialOk(s))
  /\ WF_vars(ctrlSocket[s] = "closed" /\ CtrlReadFails(s))
  /\ WF_vars(videoSocket[s] = "closed" /\ VideoReadFails(s))
  /\ WF_vars(SaveFrame(s))
  /\ WF_vars((\E v \in Viewers : NextElement(s, v)) \/ SendFrame(s) \/ SendOnClosed(s)
             \/ EndUpdate(s))

HandlerFairness(s) ==
  /\ WF_vars(HandlerFinish(s))
  /\ WF_vars(HandlerCheck(s))
  /\ WF_vars(HandlerReap(s))
  /\ WF_vars(HandlerCleanup(s))
  /\ WF_vars(HandlerTimeout(s))
  /\ SF_vars(FinishEvent(s))
  /\ \A c \in Clients : SF_vars(ClientEvent(s, c))

ClientFairness ==
  /\ \A v \in Viewers : WF_vars(ReadError(v)) /\ WF_vars(TeardownViewer(v))
  /\ \A r \in Requests : WF_vars(ReadFrame(r)) /\ WF_vars(Written(r))
  /\ \A c \in Others : WF_vars(TeardownRequest(c))

FairSpec ==
  /\ Spec
  /\ \A s \in Sessions : ReaderFairness(s) /\ HandlerFairness(s)
  /\ ClientFairness

-----------------------------------------------------------------------------
(* The C context of a session is freed only when nothing in the daemon can *)
(* call into C with it: both readers are gone, and so is every client, the *)
(* last calls of which come from goroutines no lock protects.              *)
NoUseAfterFree ==
  \A s \in Sessions : ctx[s] = "freed" =>
    /\ ctrl[s] = "exited"
    /\ video[s] \in {"none", "exited"}
    /\ Members(s) = {}

(* The frames of a session stay while a request writes one of them to its  *)
(* client, although dracHandler releases them under no lock.               *)
FrameStaysDuringWrite ==
  \A r \in Requests : client[r] = "writing" => hasFrame[sess[r]]

(* The state that /status/<host> shows is written only by the current      *)
(* session of the host: a session that is over, and its readers, never     *)
(* overwrite what a newer one reported.                                    *)
StatusFromCurrent ==
  [][status' # status => status'.sess = dracmap']_vars

(* dracHandler, its readers and the clients together keep the promise of   *)
(* SessionRegistry.                                                        *)
Phase(s) ==
  CASE handler[s] = "unborn" -> "unborn"
    [] handler[s] = "exited" -> "released"
    [] handler[s] \notin {"unborn", "exited"} /\ dracFinished[s] -> "over"
    [] OTHER -> "live"

Registry == INSTANCE SessionRegistry WITH
  Session <- Sessions, Client <- Clients, None <- NoSession,
  current <- dracmap,
  phase   <- [s \in Sessions |-> Phase(s)],
  members <- [s \in Sessions |-> Members(s)],
  seen    <- {c \in Clients : client[c] # "new"}

ImplementsRegistry == Registry!Spec

-----------------------------------------------------------------------------
(* Unless the daemon dies, a viewer of a session that lost its DRAC is     *)
(* disconnected: it does not keep a frozen picture for ever.               *)
FailedSessionDropsViewers ==
  \A v \in Viewers, s \in Sessions :
    (dracFinished[s] /\ v \in vncClients[s]) ~> (v \notin vncClients[s] \/ panic # "none")

(* A session that is over and has lost its last member ends: dracHandler   *)
(* does not wait for an event that nobody will send.                       *)
DrainedSessionEnds ==
  \A s \in Sessions :
    (dracFinished[s] /\ Members(s) = {}) ~> (handler[s] = "exited" \/ panic # "none")

(* A session nobody uses gives its connection to the DRAC back, unless a   *)
(* client comes back first.                                                *)
IdleSessionReaped ==
  \A s \in Sessions :
    (dracmap = s /\ Members(s) = {})
      ~> (dracFinished[s] \/ Members(s) # {} \/ panic # "none")

(* A request that waits for a screenshot of a session that lost its DRAC   *)
(* is answered, with the last frame or with an error.                      *)
FailedSessionAnswersRequests ==
  \A r \in Requests, s \in Sessions :
    (dracFinished[s] /\ sess[r] = s /\ client[r] = "waiting")
      ~> (client[r] # "waiting" \/ panic # "none")

(* A client that left its session is done: the send on clientEvent that    *)
(* ends its goroutine finds dracHandler listening.                         *)
TeardownReturns ==
  \A c \in Clients : client[c] = "left" ~> (client[c] = "gone" \/ panic # "none")

(* When one of the viewers that share a session leaves, the daemon does    *)
(* not die of the frame it broadcasts at that moment.                      *)
SharingIsSafe == panic # "closed channel"

-----------------------------------------------------------------------------
(* The inductive invariant behind the safety properties.  One session: in  *)
(* which order its goroutines end.                                         *)
SessionInv(s) ==
  /\ handler[s] = "unborn" <=> ctrl[s] = "unborn"
  /\ dracmap = s <=> handler[s] # "unborn" /\ ~ dracFinished[s]
  /\ ctrl[s] = "exited" <=> handler[s] = "finishing" \/ dracFinished[s]
  /\ handler[s] = "finishing" => ~ dracFinished[s]
  /\ handler[s] \in {"check", "cleanup", "exited"} => dracFinished[s]
  /\ video[s] = "none" <=> videoSocket[s] = "nil"
  /\ ctrl[s] \in {"unborn", "dialVideo"} => video[s] = "none"
  /\ ctrl[s] \in {"finSend", "exited"} => video[s] \in {"none", "exited"}
  /\ update[s] # "none" => ctrl[s] = "update" \/ video[s] = "update"
  /\ ctx[s] = "freed" => handler[s] = "exited"

(* The list and the counter hold exactly the members, and dracHandler has  *)
(* left its loop only without members.                                     *)
MemberInv(s) ==
  /\ vncClients[s] = Members(s) \cap Viewers
  /\ otherClientCount[s] = Cardinality(Members(s) \cap Others)
  /\ handler[s] = "unborn" => Members(s) = {}
  /\ handler[s] \in {"cleanup", "exited"} => Members(s) = {}

ClientInv ==
  /\ \A c \in Clients : client[c] = "new" <=> sess[c] = NoSession
  /\ FrameStaysDuringWrite

(* TypeOK and these three are inductive: the lists dracHandler looks at    *)
(* under the lock say the truth about the goroutines that use the session. *)
IInv ==
  /\ TypeOK
  /\ \A s \in Sessions : SessionInv(s) /\ MemberInv(s)
  /\ ClientInv
=============================================================================
