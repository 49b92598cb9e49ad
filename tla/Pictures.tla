------------------------------ MODULE Pictures ------------------------------
(***************************************************************************)
(* From the commands of the DRAC to the pictures of a session: a packet is *)
(* decoded (Decoder), and if there is something new to show it is saved    *)
(* for the animation (AnimationWindow) and sent to the viewers             *)
(* (FramePipeline has that).  Time passes between packets.                 *)
(***************************************************************************)
EXTENDS Decoder, AnimationWindow

CONSTANT Placeholders   \* [width, height]: the placeholder of a DRAC 4, 640 x 480 in the code

ASSUME PlaceholderAssumption == \A p \in Placeholders : p.width \in Nat /\ p.height \in Nat

VARIABLE isDrac4

pictureVars == <<decoderVars, animationVars, isDrac4>>

PicturesTypeOK == DecoderTypeOK /\ AnimationTypeOK /\ isDrac4 \in BOOLEAN

PicturesInit ==
  /\ \/ isDrac4 = FALSE /\ DecoderInit(0, 0)
     \/ isDrac4 = TRUE /\ \E p \in Placeholders : DecoderInit(p.width, p.height)
  /\ isDrac4 => codec = "dvc7"
  /\ AnimationInit

(* drac4_handle_msg_ctrl answers the login response with a gray picture,   *)
(* for a screen that is blanked sends none.                                *)
Placeholder ==
  /\ isDrac4 /\ saved = <<>>
  /\ SaveFrameForAnimation(framebuffer)
  /\ UNCHANGED <<decoderVars, isDrac4>>

DracStep ==
  /\ isDrac4 => saved # <<>>
  /\ Drac
  /\ isDrac4 => codec' = "dvc7"
  /\ UNCHANGED <<animationVars, isDrac4>>

Decoding == DecodePacket /\ UNCHANGED <<animationVars, isDrac4>>

(* Only the message of a DRAC 5 or 6 asks whether a pixel was drawn.       *)
NewFrame == isDrac4 \/ dirty

EndOfPacket ==
  /\ EndPacket(~isDrac4)
  /\ IF NewFrame THEN SaveFrameForAnimation(framebuffer) ELSE UNCHANGED animationVars
  /\ UNCHANGED isDrac4

Time ==
  /\ state = "idle"
  /\ \E t \in Steps : Pass(t)
  /\ UNCHANGED <<decoderVars, isDrac4>>

PicturesNext == Placeholder \/ DracStep \/ Decoding \/ EndOfPacket \/ Time

PicturesSpec == PicturesInit /\ [][PicturesNext]_pictureVars

-----------------------------------------------------------------------------
(* Between packets, the newest picture that was saved for the animation,   *)
(* which is the one the viewers were sent, is the screen of the DRAC: no   *)
(* change is missed by fb_dirty.                                           *)
NewestIsScreen ==
  state = "idle" /\ packets > 0 =>
    animatedFrameList # <<>> /\ Last(animatedFrameList).picture = screen.pixels

(* The decoder shows the screen of the DRAC, pixel for pixel, while it     *)
(* decodes and at the end of a packet.                                     *)
DecodesScreen == PicturesTypeOK /\ DecodedSoFar /\ SameAtEnd
=============================================================================
