--------------------------- MODULE VncConnection ----------------------------
(***************************************************************************)
(* One connection of a browser: the handshake (VncHandshake), then its     *)
(* commands on one way (VncCommands) and the pictures it asks for on the   *)
(* other (VncUpdates).  Which frame is written when is in FramePipeline.   *)
(***************************************************************************)
EXTENDS VncHandshake, VncCommands, VncUpdates

VARIABLES pendingVideoUpdates

vars == <<handshakeVars, commandVars, updateVars, pendingVideoUpdates>>

TypeOK ==
  /\ HandshakeTypeOK /\ CommandsTypeOK /\ UpdatesTypeOK
  /\ pendingVideoUpdates \in 0 .. MaxSent

Init == HandshakeInit /\ CommandsInit /\ UpdatesInit /\ pendingVideoUpdates = 0

Handshake ==
  /\ HandshakeNext
  /\ UNCHANGED <<commandVars, updateVars, pendingVideoUpdates>>

(* The browser begins when it has read the ServerInit message.             *)
BrowserSends ==
  /\ browser = "normal"
  /\ SendAny
  /\ UNCHANGED <<handshakeVars, updateVars, pendingVideoUpdates>>

Transport ==
  /\ ArriveSome \/ Read
  /\ UNCHANGED <<handshakeVars, updateVars, pendingVideoUpdates>>

(* A turn of the command loop; an update request goes to videoWriter.      *)
CommandLoop ==
  /\ server = "loop"
  /\ Handle
  /\ pendingVideoUpdates' =
       pendingVideoUpdates + (IF sent[Len(handled')] = "request" THEN 1 ELSE 0)
  /\ UNCHANGED <<handshakeVars, updateVars>>

VideoWriter ==
  /\ pendingVideoUpdates > 0
  /\ SendAnyFrame
  /\ pendingVideoUpdates' = pendingVideoUpdates - 1
  /\ UNCHANGED <<handshakeVars, commandVars>>

BrowserDraws ==
  /\ browser = "normal"
  /\ TakeUpdate
  /\ UNCHANGED <<handshakeVars, commandVars, pendingVideoUpdates>>

Next == Handshake \/ BrowserSends \/ Transport \/ CommandLoop \/ VideoWriter \/ BrowserDraws

Spec == Init /\ [][Next]_vars

(* The daemon answers in the handshake, TCP delivers, the command loop     *)
(* runs, and a browser that is still there reads what it gets; it need     *)
(* send no command.                                                        *)
FairSpec ==
  /\ Spec
  /\ WF_vars(HandshakeServer /\ UNCHANGED <<commandVars, updateVars, pendingVideoUpdates>>)
  /\ WF_vars(TakeMessage /\ UNCHANGED <<commandVars, updateVars, pendingVideoUpdates>>)
  /\ WF_vars(Transport) /\ WF_vars(CommandLoop)

-----------------------------------------------------------------------------
(* Both ends are always in the same protocol and at the same message of    *)
(* it, and the browser sends its first command to a server that reads      *)
(* commands.                                                               *)
BothAgree == TypeOK /\ SameProtocol /\ BothReady

(* A connection goes on: the handshake ends, and no command stays          *)
(* unhandled for good.                                                     *)
ConnectionGoesOn == HandshakeEnds /\ EveryCommandHandled
=============================================================================
