----------------------------- MODULE VncUpdates -----------------------------
(***************************************************************************)
(* The way of a picture to the browser: sendVncFrame (vnc.go) writes one   *)
(* update, or a resize before it, and the browser (rfb.js) reads them off  *)
(* the stream again.  An update carries a png of a certain size, in the    *)
(* compact length of the tight encoding.                                   *)
(***************************************************************************)
EXTENDS Integers, Sequences

CONSTANTS
  Sizes,       \* the lengths of pngs considered
  Screens,     \* the sizes of the screen of the DRAC
  FirstScreen, \* 640 x 480, what the ServerInit message says
  MaxWire      \* bound: messages on their way

ASSUME SizeAssumption   == Sizes \subseteq Nat
ASSUME ScreenAssumption == FirstScreen \in Screens /\ MaxWire \in Nat

VARIABLES
  clientSize,  \* clientCtx.width and height
  wire,        \* the messages on their way
  desktop,     \* the size of the browser's canvas
  drawn,       \* the screen and the length of the last png it drew
  inStep       \* whether the browser still reads where a message begins

updateVars == <<clientSize, wire, desktop, drawn, inStep>>

Nobody == [screen |-> FirstScreen, size |-> 0, on |-> FirstScreen, read |-> 0]

-----------------------------------------------------------------------------
(* The compact length, seven bits in a byte, of which the highest says     *)
(* that another one follows.                                               *)
Low(n)  == n % 128
More(n) == 128 + Low(n)

OneByteUpTo128(size) ==
  IF size <= 128 THEN <<size>>
  ELSE IF size <= 16383 THEN <<More(size), Low(size \div 128)>>
  ELSE <<More(size), More(size \div 128), Low(size \div 16384)>>

CompactLength(size) ==
  IF size <= 127 THEN <<size>>
  ELSE IF size <= 16383 THEN <<More(size), Low(size \div 128)>>
  ELSE IF size <= 4194303
  THEN <<More(size), More(size \div 128), Low(size \div 16384)>>
  ELSE <<>>

(* getTightCLength, of the bytes that follow the control byte; without a   *)
(* length it takes the first bytes of the png, a signature.                *)
PngSignature == <<137, 80, 78>>

ReadLength(bytes) ==
  LET b == bytes \o PngSignature
      second == IF b[1] >= 128 THEN Low(b[2]) * 128 ELSE 0
      third  == IF b[1] >= 128 /\ b[2] >= 128 THEN b[3] * 16384 ELSE 0
  IN  Low(b[1]) + second + third

-----------------------------------------------------------------------------
UpdatesTypeOK ==
  /\ clientSize \in Screens /\ desktop \in Screens
  /\ Len(wire) <= MaxWire + 1
  /\ \A i \in 1 .. Len(wire) : wire[i].type = "picture" => wire[i].length \in Seq(0 .. 255)
  /\ drawn.on \in Screens /\ drawn.read \in Nat
  /\ inStep \in BOOLEAN

UpdatesInit ==
  /\ clientSize = FirstScreen /\ desktop = FirstScreen
  /\ wire = <<>> /\ drawn = Nobody /\ inStep = TRUE

Resize(screen) == [type |-> "resize", screen |-> screen]
Picture(screen, size) ==
  [type |-> "picture", screen |-> screen, size |-> size, length |-> CompactLength(size)]

(* sendVncFrame; the frame of every writer comes here one after the other. *)
ResizeFirst(screen) == IF screen # clientSize THEN <<Resize(screen)>> ELSE <<>>

SendVncFrame(screen, size) ==
  /\ Len(wire) < MaxWire
  /\ wire' = wire \o ResizeFirst(screen) \o <<Picture(screen, size)>>
  /\ clientSize' = screen
  /\ UNCHANGED <<desktop, drawn, inStep>>

(* The browser.                                                            *)
TakeResize ==
  /\ wire # <<>> /\ inStep
  /\ Head(wire).type = "resize"
  /\ desktop' = Head(wire).screen
  /\ wire' = Tail(wire)
  /\ UNCHANGED <<clientSize, drawn, inStep>>

TakePicture ==
  /\ wire # <<>> /\ inStep
  /\ Head(wire).type = "picture"
  /\ LET p == Head(wire)
     IN  /\ drawn' = [screen |-> p.screen, size |-> p.size, on |-> desktop,
                      read |-> ReadLength(p.length)]
         /\ inStep' = (ReadLength(p.length) = p.size)
  /\ wire' = Tail(wire)
  /\ UNCHANGED <<clientSize, desktop>>

SendAnyFrame == \E screen \in Screens, size \in Sizes : SendVncFrame(screen, size)
TakeUpdate   == TakeResize \/ TakePicture

-----------------------------------------------------------------------------
(* The browser finds the end of every png where it is, and so the next     *)
(* update: the length it reads is the length that was written.             *)
StaysInStep == inStep

(* A png is drawn on a canvas of its size, also when the screen changes    *)
(* while updates are on their way.                                         *)
PictureFits == drawn.on = drawn.screen

(* So the browser reads every update for what it is, and draws it whole.   *)
UpdatesRight == StaysInStep /\ PictureFits
=============================================================================
