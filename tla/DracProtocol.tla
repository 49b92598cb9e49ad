---------------------------- MODULE DracProtocol ----------------------------
(***************************************************************************)
(* What the daemon makes of the messages of one DRAC: the handlers of      *)
(* protocol.c, load_data of decoder.c, and what the two readers of drac.go *)
(* do with the results.  One call of incoming_data handles every message   *)
(* that one Read has completed (Reassembly cuts the stream), and returns   *)
(* the result of the last.                                                 *)
(*                                                                         *)
(* A frame is known by its number, and is a message or two: the first has  *)
(* the flag bof, the last eof.  dirty says whether it changes a pixel: the *)
(* pixels themselves are left out, and the picture is known by the last    *)
(* frame that has changed it.  Every DRAC has one size of screen.          *)
(***************************************************************************)
EXTENDS Integers, Sequences

CONSTANTS
  DracTypes,   \* the types to consider, of "DRAC4", "DRAC5", "DRAC6"
  LoginCodes,  \* the answers to a login, 0 is success
  MaxFrames,   \* bound: frames the DRAC sends
  MaxOthers,   \* bound: other messages the DRAC sends unasked
  MaxPipe,     \* bound: messages on their way on one socket
  MaxBatch     \* bound: messages that one Read completes

ASSUME TypeAssumption  == DracTypes \subseteq {"DRAC4", "DRAC5", "DRAC6"}
ASSUME CodeAssumption  == LoginCodes \subseteq 0 .. 255
ASSUME BoundAssumption ==
  MaxFrames \in Nat /\ MaxOthers \in Nat /\ MaxPipe \in Nat /\ MaxBatch \in Nat

Sockets == {"ctrl", "video"}

VARIABLES
  dracType,
  pipe,            \* by socket: the messages on their way, whole
  batch,           \* by socket: messages the running call has still to handle
  r,               \* by socket: the local of that name
  reader,          \* by socket: "off", "read", "call"
  loginSent, session_id,
  framebuffer,     \* whether there is one
  picture,         \* the last frame that has changed it
  fb_dirty, needs_refresh, frame_count,
  packet_buffer,   \* the messages whose data it has
  decoded,         \* the last packet_buffer that was decoded
  refreshes, keepalives,   \* how often they were sent to the DRAC
  shown,           \* what the viewers got last: a frame, Down or Nothing
  status,
  answered,        \* the DRAC: its answer to the login
  frame, part,     \*   the frame it is in, and the next message of it
  joinedMid,       \*   whether it was within a frame when the video began
  others           \*   the messages it sent unasked

goVars      == <<reader, shown, status>>
callVars    == <<batch, r>>
loginVars   == <<loginSent, session_id>>
decoderVars == <<framebuffer, picture, fb_dirty, needs_refresh, frame_count, packet_buffer, decoded>>
askVars     == <<refreshes, keepalives>>
dracVars    == <<answered, frame, part, joinedMid, others>>
vars == <<dracType, pipe, goVars, callVars, loginVars, decoderVars, askVars, dracVars>>

NoFrame == 0
Down    == -1
Nothing == -2
Unanswered == -1
NEED_TO_CONNECT_VIDEO == 1
NEW_FRAME_READY == 2
VIDEO_IS_DOWN == 3
ERR_LOGIN_FAILURE == -11
ERR_LOGIN_FAILURE_MAX == -30

FrameMessages ==
  [type : {"frame"}, frame : 1 .. MaxFrames, part : 1 .. 2, bof : BOOLEAN, eof : BOOLEAN,
   dirty : BOOLEAN]
Messages ==
  FrameMessages \cup [type : {"login"}, code : LoginCodes]
  \cup [type : {"init", "servers", "sharing", "other", "connected", "refused", "down"}]

TypeOK ==
  /\ dracType \in DracTypes
  /\ \A s \in Sockets : \A i \in 1 .. Len(pipe[s]) : pipe[s][i] \in Messages
  /\ batch \in [Sockets -> 0 .. MaxBatch]
  /\ r \in [Sockets -> {-1, 0, NEED_TO_CONNECT_VIDEO, NEW_FRAME_READY, VIDEO_IS_DOWN}
                      \cup -265 .. ERR_LOGIN_FAILURE]
  /\ reader \in [Sockets -> {"off", "read", "call"}]
  /\ loginSent \in BOOLEAN /\ session_id \in BOOLEAN
  /\ framebuffer \in BOOLEAN /\ picture \in 0 .. MaxFrames
  /\ fb_dirty \in BOOLEAN /\ needs_refresh \in BOOLEAN
  /\ frame_count \in 0 .. 2 * MaxFrames
  /\ \A i \in 1 .. Len(packet_buffer) : packet_buffer[i] \in FrameMessages
  /\ refreshes \in Nat /\ keepalives \in Nat
  /\ shown \in Nothing .. MaxFrames
  /\ status \in {"connected", "video connection error", "video connected", "auth error", "ready"}
  /\ answered \in LoginCodes \cup {Unanswered} /\ joinedMid \in BOOLEAN
  /\ frame \in 1 .. MaxFrames + 1 /\ part \in 1 .. 2 /\ others \in 0 .. MaxOthers

(* connect_start_ctrl has run: to a DRAC6 it sends a header, to the others *)
(* the login.                                                              *)
Init ==
  /\ dracType \in DracTypes
  /\ pipe = [s \in Sockets |-> IF s = "ctrl" /\ dracType = "DRAC6" THEN <<[type |-> "init"]>>
                               ELSE <<>>]
  /\ batch = [s \in Sockets |-> 0] /\ r = [s \in Sockets |-> 0]
  /\ reader = [s \in Sockets |-> IF s = "ctrl" THEN "read" ELSE "off"]
  /\ loginSent = (dracType # "DRAC6") /\ session_id = FALSE
  /\ framebuffer = FALSE /\ picture = NoFrame
  /\ fb_dirty = FALSE /\ needs_refresh = FALSE /\ frame_count = 0
  /\ packet_buffer = <<>> /\ decoded = <<>>
  /\ refreshes = 0 /\ keepalives = 0
  /\ shown = Nothing /\ status = "connected"
  /\ answered = Unanswered /\ frame = 1 /\ others = 0
  /\ joinedMid \in IF dracType = "DRAC4" THEN {FALSE} ELSE BOOLEAN
  /\ part = IF joinedMid THEN 2 ELSE 1

-----------------------------------------------------------------------------
(* The DRAC.  It answers the login once and then sends its video, which    *)
(* may start within a frame when it is shared, and other messages.         *)

Put(s, m) ==
  /\ Len(pipe[s]) < MaxPipe
  /\ pipe' = [pipe EXCEPT ![s] = Append(@, m)]

AnswerLogin(code) ==
  /\ loginSent /\ answered = Unanswered
  /\ answered' = code
  /\ Put("ctrl", [type |-> "login", code |-> code])
  /\ UNCHANGED <<dracType, goVars, callVars, loginVars, decoderVars, askVars, frame, part,
                 joinedMid, others>>

SendOther(s, type) ==
  /\ s = "ctrl" => loginSent /\ type \in {"servers", "sharing", "other"}
  /\ s = "video" => reader["video"] # "off" /\ type \in {"connected", "refused", "down", "other"}
  /\ others < MaxOthers
  /\ others' = others + 1
  /\ Put(s, [type |-> type])
  /\ UNCHANGED <<dracType, goVars, callVars, loginVars, decoderVars, askVars, answered, frame,
                 part, joinedMid>>

VideoOn == IF dracType = "DRAC4" THEN answered # Unanswered ELSE reader["video"] # "off"

SendFrame(eof, dirty) ==
  /\ VideoOn
  /\ frame <= MaxFrames
  /\ part = 2 => eof
  /\ Put(IF dracType = "DRAC4" THEN "ctrl" ELSE "video",
         [type |-> "frame", frame |-> frame, part |-> part, bof |-> part = 1, eof |-> eof,
          dirty |-> dirty])
  /\ frame' = IF eof THEN frame + 1 ELSE frame
  /\ part' = IF eof THEN 1 ELSE 2
  /\ UNCHANGED <<dracType, goVars, callVars, loginVars, decoderVars, askVars, answered,
                 joinedMid, others>>

-----------------------------------------------------------------------------
(* The readers.                                                            *)

(* Read returns what completes k messages; incoming_data begins.           *)
Read(s, k) ==
  /\ reader[s] = "read"
  /\ k <= Len(pipe[s])
  /\ reader' = [reader EXCEPT ![s] = "call"]
  /\ batch' = [batch EXCEPT ![s] = k]
  /\ r' = [r EXCEPT ![s] = 0]
  /\ UNCHANGED <<dracType, pipe, shown, status, loginVars, decoderVars, askVars, dracVars>>

(* The next message m of the call, whose handler returns result.           *)
Handles(s, m, result) ==
  /\ reader[s] = "call" /\ batch[s] > 0
  /\ m = Head(pipe[s])
  /\ pipe' = [pipe EXCEPT ![s] = Tail(@)]
  /\ batch' = [batch EXCEPT ![s] = @ - 1]
  /\ r' = [r EXCEPT ![s] = result]
  /\ UNCHANGED <<dracType, goVars, dracVars>>

(* handle_init_response_ctrl: the login follows.                           *)
HandleInit ==
  /\ Handles("ctrl", [type |-> "init"], 0)
  /\ loginSent' = TRUE
  /\ UNCHANGED <<session_id, decoderVars, askVars>>

(* handle_login_msg, and for a DRAC4 the placeholder frame.                *)
LoginResult(code) ==
  IF code = 0 THEN NEED_TO_CONNECT_VIDEO ELSE ERR_LOGIN_FAILURE - (code - 1)

HandleLogin(code) ==
  /\ dracType # "DRAC4"
  /\ Handles("ctrl", [type |-> "login", code |-> code], LoginResult(code))
  /\ UNCHANGED <<loginVars, decoderVars, askVars>>

HandleLogin4(code) ==
  /\ dracType = "DRAC4"
  /\ Handles("ctrl", [type |-> "login", code |-> code], NEW_FRAME_READY)
  /\ framebuffer' = TRUE /\ picture' = NoFrame
  /\ UNCHANGED <<loginVars, askVars, fb_dirty, needs_refresh, frame_count, packet_buffer, decoded>>

HandleServers ==
  /\ Handles("ctrl", [type |-> "servers"], 0)
  /\ session_id' = (dracType # "DRAC4" \/ session_id)
  /\ UNCHANGED <<loginSent, decoderVars, askVars>>

HandleVideoDown ==
  /\ Handles("video", [type |-> "down"], VIDEO_IS_DOWN)
  /\ UNCHANGED <<loginVars, decoderVars, askVars>>

HandleVideoRefused ==
  /\ Handles("video", [type |-> "refused"], -1)
  /\ UNCHANGED <<loginVars, decoderVars, askVars>>

HandleOther(s, type) ==
  /\ type = "init" => s = "video"
  /\ Handles(s, [type |-> type], 0)
  /\ UNCHANGED <<loginVars, decoderVars, askVars>>

(* load_data, up to what it decodes.                                       *)
NotCleared(m) == packet_buffer

Cleared(m) == IF m.bof THEN <<>> ELSE packet_buffer

SkipsWithoutFramebuffer(m) == ~ (framebuffer \/ m.bof)

Skips(m) == needs_refresh \/ ~ (framebuffer \/ m.bof)

CountFrame(m, n) == frame_count' = frame_count + (IF m.eof THEN n ELSE 0)

Load(m) ==
  /\ framebuffer' = (framebuffer \/ m.bof)
  /\ IF Skips(m)
     THEN packet_buffer' = Cleared(m) /\ UNCHANGED <<picture, decoded>>
     ELSE /\ packet_buffer' = Append(Cleared(m), m)
          /\ decoded' = IF m.eof THEN packet_buffer' ELSE decoded
          /\ picture' = IF m.eof /\ m.dirty THEN m.frame ELSE picture

Ready(m) == m.eof /\ ~ Skips(m)

(* handle_msg_video: NEW_FRAME_READY only for a frame that changed the     *)
(* picture; a refresh when the video began within a frame.                 *)
Published(m) == Ready(m) /\ (fb_dirty \/ m.dirty)

StillNeeds(m) == Skips(m) /\ frame_count' <= 2

HandleFrame ==
  /\ pipe["video"] # <<>>
  /\ LET m == Head(pipe["video"])
     IN  /\ m.type = "frame"
         /\ Handles("video", m, IF Published(m) THEN NEW_FRAME_READY ELSE 0)
         /\ Load(m) /\ CountFrame(m, 1)
         /\ fb_dirty' = ((fb_dirty \/ (Ready(m) /\ m.dirty)) /\ ~ Published(m))
         /\ needs_refresh' = StillNeeds(m)
         /\ refreshes' = refreshes + (IF Skips(m) /\ frame_count' > 2 THEN 1 ELSE 0)
  /\ UNCHANGED <<loginVars, keepalives>>

(* drac4_handle_msg_ctrl counts a frame, and load_data counts it again.    *)
KeepaliveDue(m) == m.eof /\ (frame_count + 1) % 8 = 0

HandleFrame4 ==
  /\ pipe["ctrl"] # <<>>
  /\ LET m == Head(pipe["ctrl"])
     IN  /\ m.type = "frame"
         /\ Handles("ctrl", m, IF Ready(m) THEN NEW_FRAME_READY ELSE 0)
         /\ Load(m) /\ CountFrame(m, 2)
         /\ fb_dirty' = (fb_dirty \/ (Ready(m) /\ m.dirty))
         /\ needs_refresh' = Skips(m)
         /\ keepalives' = keepalives + (IF KeepaliveDue(m) THEN 1 ELSE 0)
  /\ UNCHANGED <<loginVars, refreshes>>

-----------------------------------------------------------------------------
(* incoming_data returns: videoUpdate, or the video socket.                *)

Returns(s) == reader[s] = "call" /\ batch[s] = 0

Update(s) ==
  /\ Returns(s)
  /\ r[s] \in {NEW_FRAME_READY, VIDEO_IS_DOWN}
  /\ shown' = IF r[s] = NEW_FRAME_READY THEN picture ELSE Down
  /\ status' = "ready"
  /\ reader' = [reader EXCEPT ![s] = "read"]
  /\ UNCHANGED <<dracType, pipe, callVars, loginVars, decoderVars, askVars, dracVars>>

ConnectVideo ==
  /\ Returns("ctrl") /\ r["ctrl"] = NEED_TO_CONNECT_VIDEO
  /\ status' = "video connected"
  /\ reader' = [s \in Sockets |-> "read"]
  /\ pipe' = IF dracType = "DRAC6" THEN [pipe EXCEPT !["video"] = <<[type |-> "init"]>>] ELSE pipe
  /\ UNCHANGED <<dracType, callVars, loginVars, decoderVars, askVars, dracVars, shown>>

ConnectVideoFails ==
  /\ Returns("ctrl") /\ r["ctrl"] = NEED_TO_CONNECT_VIDEO
  /\ status' = "video connection error"
  /\ reader' = [reader EXCEPT !["ctrl"] = "off"]
  /\ UNCHANGED <<dracType, pipe, callVars, loginVars, decoderVars, askVars, dracVars, shown>>

LoginRefused(result) == result <= ERR_LOGIN_FAILURE /\ result >= ERR_LOGIN_FAILURE_MAX

Idle(s) ==
  /\ Returns(s)
  /\ r[s] \notin {NEW_FRAME_READY, VIDEO_IS_DOWN}
  /\ s = "ctrl" => r[s] # NEED_TO_CONNECT_VIDEO
  /\ status' = IF s = "ctrl" /\ LoginRefused(r[s]) THEN "auth error" ELSE status
  /\ reader' = [reader EXCEPT ![s] = "read"]
  /\ UNCHANGED <<dracType, pipe, callVars, loginVars, decoderVars, askVars, dracVars, shown>>

-----------------------------------------------------------------------------
Drac ==
  \/ \E code \in LoginCodes : AnswerLogin(code)
  \/ \E s \in Sockets :
       \E type \in {"servers", "sharing", "other", "connected", "refused", "down"} :
         SendOther(s, type)
  \/ \E eof, dirty \in BOOLEAN : SendFrame(eof, dirty)

Handler ==
  \/ HandleInit \/ HandleServers \/ HandleVideoDown \/ HandleVideoRefused
  \/ \E code \in LoginCodes : HandleLogin(code) \/ HandleLogin4(code)
  \/ \E s \in Sockets : \E type \in {"sharing", "other", "connected", "init"} : HandleOther(s, type)
  \/ HandleFrame \/ HandleFrame4

Reader ==
  \/ \E s \in Sockets : (\E k \in 1 .. MaxBatch : Read(s, k)) \/ Update(s) \/ Idle(s)
  \/ ConnectVideo \/ ConnectVideoFails

Next == Drac \/ Handler \/ Reader

Spec == Init /\ [][Next]_vars

-----------------------------------------------------------------------------
(* What is decoded is one frame, from its first message to its last: a     *)
(* frame that began before the video was connected, or was given up, never *)
(* ends up in the picture (bof and needs_refresh in load_data).            *)
DecodedWhole ==
  decoded # <<>> =>
    /\ decoded[1].bof /\ decoded[Len(decoded)].eof
    /\ \A i \in 1 .. Len(decoded) : decoded[i].part = i /\ decoded[i].frame = decoded[1].frame

(* A video that began within a frame is shown only after a refresh of the  *)
(* whole screen was asked for ("in order to have consistent video",        *)
(* decoder.c:63).                                                          *)
RefreshBeforePicture == joinedMid /\ shown \in 1 .. MaxFrames => refreshes > 0

(* It is asked for once, however many messages were skipped meanwhile.     *)
RefreshOnce == refreshes <= 1

(* So the refresh comes when it is needed, and then only once.             *)
RefreshRight == TypeOK /\ RefreshBeforePicture /\ RefreshOnce

(* Nothing on its way, nothing being handled, no frame begun.              *)
Quiet == part = 1 /\ \A s \in Sockets : pipe[s] = <<>> /\ reader[s] # "call"

(* When nothing is on its way, the viewers have the picture the DRAC sent  *)
(* last (NEW_FRAME_READY and fb_dirty together).  With MaxBatch > 1 the    *)
(* code does something else: the result of a message is overwritten by the *)
(* next one of the same Read.                                              *)
ShownIsCurrent == Quiet /\ picture # NoFrame => shown \in {picture, Down}

(* A login the DRAC has accepted leads to its video, unless it cannot be   *)
(* connected; with MaxBatch > 1 the code may forget it.                    *)
AcceptedLoginHasVideo ==
  /\ Quiet /\ dracType # "DRAC4"
  /\ answered = 0
  => reader["video"] = "read" \/ status = "video connection error"

(* A DRAC4 is sent a keepalive every 8 frames (protocol.c:360; what the    *)
(* code does: never, since the frames are counted twice).                  *)
KeepaliveEvery8 ==
  dracType = "DRAC4" /\ pipe["ctrl"] = <<>> => 8 * (keepalives + 1) >= frame
=============================================================================
