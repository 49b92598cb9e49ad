------------------------ MODULE VncConnection_proofs ------------------------
(***************************************************************************)
(* Proofs about a browser and its connection to the daemon, for any        *)
(* versions, commands, screens, lengths, hosts and bounds.                 *)
(*                                                                         *)
(* VncConnection: the browser reads every update for what it is and draws  *)
(* it on a canvas of its size, the command loop takes the commands the     *)
(* browser sent, and in the handshake both stay in the same protocol.      *)
(*                                                                         *)
(* BrowserPage: console, address and error of the page are those of one    *)
(* host, the page never waits for nothing, and it forgets no key that is   *)
(* down at the other end.                                                  *)
(***************************************************************************)
EXTENDS VncConnection, BrowserPage, Streams

-----------------------------------------------------------------------------
(* The compact length of a png.                                            *)

(* Seven bits at a time.                                                   *)
LEMMA Digits ==
  ASSUME NEW n \in Nat
  PROVE  /\ n \div 128 \in Nat /\ Low(n) \in 0 .. 127 /\ n = Low(n) + 128 * (n \div 128)
         /\ More(n) \in 128 .. 255 /\ Low(More(n)) = Low(n)
BY SMT DEF Low, More

LEMMA ThirdDigit ==
  ASSUME NEW n \in Nat
  PROVE  (n \div 128) \div 128 = n \div 16384 /\ n \div 16384 \in Nat
BY SMT

(* getTightCLength reads what the compact length says, up to 21 bits.      *)
LEMMA LengthRead ==
  ASSUME NEW n \in Nat, n <= 2097151
  PROVE  ReadLength(CompactLength(n)) = n /\ CompactLength(n) \in Seq(0 .. 255)
<1>1. CASE n <= 127
  <2>1. CompactLength(n) = <<n>> /\ n \in 0 .. 255
    BY SMT, <1>1 DEF CompactLength
  <2> QED BY SMT, <1>1, <2>1 DEF ReadLength, Low, PngSignature
<1>2. CASE n > 127 /\ n <= 16383
  <2> DEFINE a == More(n)
             b == Low(n \div 128)
  <2>1. CompactLength(n) = <<a, b>>
    BY SMT, <1>2 DEF CompactLength
  <2>2. a \in 128 .. 255 /\ Low(a) = Low(n) /\ b \in 0 .. 127
    BY SMT, Digits
  <2>3. b = n \div 128 /\ n = Low(n) + 128 * b
    BY SMT, <1>2, Digits DEF Low
  <2> HIDE DEF a, b
  <2>4. Low(a) \in Nat /\ Low(b) = b
    BY SMT, <2>2 DEF Low
  <2>5. ReadLength(<<a, b>>) = Low(a) + Low(b) * 128
    BY SMT, <2>2, <2>4 DEF ReadLength, PngSignature
  <2> QED BY SMT, <2>1, <2>2, <2>3, <2>4, <2>5 DEF Low
<1>3. CASE n > 16383
  <2> DEFINE a == More(n)
             b == More(n \div 128)
             c == Low(n \div 16384)
  <2>1. CompactLength(n) = <<a, b, c>>
    BY SMT, <1>3 DEF CompactLength
  <2>2. a \in 128 .. 255 /\ Low(a) = Low(n) /\ b \in 128 .. 255 /\ Low(b) = Low(n \div 128)
        /\ c \in 0 .. 127
    BY SMT, Digits, ThirdDigit
  <2>3. c = n \div 16384
    BY SMT, <1>3, ThirdDigit DEF Low
  <2>4. n \div 128 \in Nat /\ Low(n) \in Nat /\ n = Low(n) + 128 * (n \div 128)
    BY SMT, Digits
  <2>5. /\ Low(n \div 128) \in Nat
        /\ n \div 128 = Low(n \div 128) + 128 * ((n \div 128) \div 128)
    BY SMT, Digits, <2>4
  <2> HIDE DEF a, b, c
  <2>6. ReadLength(<<a, b, c>>) = Low(a) + Low(b) * 128 + c * 16384
    BY SMT, <2>2 DEF ReadLength, PngSignature
  <2>7. n = Low(n) + 128 * (Low(n \div 128) + 128 * (n \div 16384)) /\ n \div 16384 \in Nat
    BY SMT, <2>4, <2>5, ThirdDigit
  <2> QED BY SMT, <2>1, <2>2, <2>3, <2>4, <2>5, <2>6, <2>7
<1> QED BY SMT, <1>1, <1>2, <1>3

(* Whatever the length, it is written in bytes, and a length is read.      *)
LEMMA LengthTypes ==
  ASSUME NEW n \in Nat
  PROVE  CompactLength(n) \in Seq(0 .. 255) /\ ReadLength(CompactLength(n)) \in Nat
<1>1. CompactLength(n) \in Seq(0 .. 255)
  <2>1. /\ More(n) \in 0 .. 255 /\ More(n \div 128) \in 0 .. 255
        /\ Low(n \div 128) \in 0 .. 255 /\ Low(n \div 16384) \in 0 .. 255
    BY SMT DEF More, Low
  <2>2. n <= 127 => n \in 0 .. 255
    BY SMT
  <2> DEFINE one   == <<n>>
             two   == <<More(n), Low(n \div 128)>>
             three == <<More(n), More(n \div 128), Low(n \div 16384)>>
             none  == <<>>
  <2>3. /\ n <= 127 => one \in Seq(0 .. 255)
        /\ two \in Seq(0 .. 255) /\ three \in Seq(0 .. 255) /\ none \in Seq(0 .. 255)
    BY SMT, <2>1, <2>2
  <2>4. CompactLength(n) = IF n <= 127 THEN one ELSE IF n <= 16383 THEN two
                           ELSE IF n <= 4194303 THEN three ELSE none
    BY SMT DEF CompactLength
  <2> HIDE DEF one, two, three, none
  <2> QED BY SMT, <2>3, <2>4
<1> DEFINE s == CompactLength(n)
           b == s \o PngSignature
<1> HIDE DEF s
<1>2. Len(s) \in Nat /\ Len(b) = Len(s) + 3 /\ b \in Seq(0 .. 255)
  BY SMT, <1>1 DEF PngSignature, s
<1>3. b[1] \in 0 .. 255 /\ b[2] \in 0 .. 255 /\ b[3] \in 0 .. 255
  <2> HIDE DEF b
  <2>1. 1 \in 1 .. Len(b) /\ 2 \in 1 .. Len(b) /\ 3 \in 1 .. Len(b)
    BY SMT, <1>2
  <2> QED BY SMT, <1>2, <2>1, ElementOfSeq
<1>4. ReadLength(s) = Low(b[1]) + (IF b[1] >= 128 THEN Low(b[2]) * 128 ELSE 0)
                        + (IF b[1] >= 128 /\ b[2] >= 128 THEN b[3] * 16384 ELSE 0)
  BY SMT DEF ReadLength
<1> HIDE DEF b
<1>5. Low(b[1]) \in Nat /\ Low(b[2]) \in Nat /\ b[3] \in Nat
  BY SMT, <1>3 DEF Low
<1>6. ReadLength(s) \in Nat
  BY SMT, <1>4, <1>5
<1> QED BY <1>1, <1>6 DEF s

-----------------------------------------------------------------------------
(* The updates.                                                            *)

(* What sendVncFrame writes.                                               *)
Updates == {Resize(screen) : screen \in Screens}
             \cup {Picture(screen, size) : screen \in Screens, size \in Sizes}

(* The size of the canvas when the first i messages on the wire are read.  *)
CanvasAfter(i) == IF i = 0 THEN desktop ELSE wire[i].screen

(* Every picture on the wire finds a canvas of its size, and the daemon    *)
(* knows the canvas behind the last one.                                   *)
Announced ==
  /\ \A i \in 1 .. Len(wire) : wire[i].type = "picture" => wire[i].screen = CanvasAfter(i - 1)
  /\ clientSize = CanvasAfter(Len(wire))

WireInv == UpdatesTypeOK /\ wire \in Seq(Updates) /\ Announced /\ PictureFits

(* Pngs of up to 2 MiB, whose length three bytes of seven bits can say.    *)
ShortPngs == \A size \in Sizes : size <= 2097151

LEMMA UpdateFields ==
  /\ \A screen \in Screens : /\ Resize(screen) \in Updates /\ Resize(screen).type = "resize"
                             /\ Resize(screen).screen = screen
  /\ \A screen \in Screens, size \in Sizes :
       /\ Picture(screen, size) \in Updates /\ Picture(screen, size).type = "picture"
       /\ Picture(screen, size).screen = screen /\ Picture(screen, size).size = size
       /\ Picture(screen, size).length = CompactLength(size)
  /\ \A u \in Updates : \/ u.type = "resize" /\ u.screen \in Screens
                        \/ /\ u.type = "picture" /\ u.screen \in Screens /\ u.size \in Sizes
                           /\ u.length = CompactLength(u.size)
BY DEF Updates, Resize, Picture

LEMMA UpdateLengths ==
  ASSUME NEW w \in Seq(Updates)
  PROVE  /\ Len(w) \in Nat
         /\ \A i \in 1 .. Len(w) :
              /\ w[i] \in Updates /\ w[i].screen \in Screens
              /\ w[i].type = "picture" => w[i].length \in Seq(0 .. 255) /\ ReadLength(w[i].length) \in Nat
<1>1. Len(w) \in Nat /\ \A i \in 1 .. Len(w) : w[i] \in Updates
  BY LenProperties, ElementOfSeq
<1>2. ASSUME NEW u \in Updates
      PROVE  /\ u.screen \in Screens
             /\ u.type = "picture" => u.length \in Seq(0 .. 255) /\ ReadLength(u.length) \in Nat
  <2>1. u.type = "picture" => u.size \in Nat /\ u.length = CompactLength(u.size)
    BY UpdateFields, SizeAssumption
  <2>2. ASSUME u.type = "picture"
        PROVE  u.length \in Seq(0 .. 255) /\ ReadLength(u.length) \in Nat
    BY <2>1, <2>2, LengthTypes
  <2>3. u.screen \in Screens
    BY UpdateFields
  <2> QED BY <2>2, <2>3
<1> QED BY <1>1, <1>2

(* sendVncFrame: the resize goes before the picture.                       *)
LEMMA FrameSent ==
  ASSUME WireInv, NEW screen \in Screens, NEW size \in Sizes, SendVncFrame(screen, size)
  PROVE  WireInv'
<1> DEFINE p == Picture(screen, size)
           r == Resize(screen)
<1> PICK L \in Nat : L = Len(wire)
  BY LenProperties DEF WireInv
<1>1. /\ L < MaxWire /\ wire' = wire \o ResizeFirst(screen) \o <<p>> /\ clientSize' = screen
      /\ UNCHANGED <<desktop, drawn, inStep>>
  BY DEF SendVncFrame
<1>2. wire \in Seq(Updates) /\ L \in Nat /\ MaxWire \in Nat
  BY ScreenAssumption, LenProperties DEF WireInv
<1>3. p \in Updates /\ r \in Updates /\ p.type = "picture" /\ p.screen = screen
      /\ r.type = "resize" /\ r.screen = screen
  BY UpdateFields
<1>4. /\ \A i \in 1 .. L : wire[i].type = "picture" => wire[i].screen = CanvasAfter(i - 1)
      /\ clientSize = CanvasAfter(L)
  BY DEF WireInv, Announced
<1> HIDE DEF p, r
<1>5. \A i \in 0 .. L : (\A k \in 1 .. L : wire'[k] = wire[k]) => CanvasAfter(i)' = CanvasAfter(i)
  BY <1>1, <1>2 DEF CanvasAfter
<1>6. CASE screen = clientSize
  <2>1. /\ wire' \in Seq(Updates) /\ Len(wire') = L + 1 /\ wire'[L + 1] = p
        /\ \A i \in 1 .. L : wire'[i] = wire[i]
    BY <1>1, <1>2, <1>3, <1>6 DEF ResizeFirst
  <2>2. ASSUME NEW i \in 1 .. L + 1, wire'[i].type = "picture"
        PROVE  wire'[i].screen = CanvasAfter(i - 1)'
    <3>1. CASE i <= L
      <4>1. i \in 1 .. L /\ i - 1 \in 0 .. L
        BY <1>2, <3>1
      <4> QED BY <1>4, <1>5, <2>1, <2>2, <4>1
    <3>2. CASE i = L + 1
      <4>1. i - 1 = L /\ L \in 0 .. L
        BY <1>2, <3>2
      <4> QED BY <1>3, <1>4, <1>5, <1>6, <2>1, <3>2, <4>1
    <3> QED BY <1>2, <3>1, <3>2
  <2>3. CanvasAfter(L + 1)' = screen
    BY <1>2, <1>3, <2>1 DEF CanvasAfter
  <2>4. Len(wire') <= MaxWire + 1
    BY <1>1, <1>2, <2>1
  <2> QED BY <1>1, <2>1, <2>2, <2>3, <2>4, UpdateLengths DEF WireInv, Announced, UpdatesTypeOK, PictureFits
<1>7. CASE screen # clientSize
  <2> DEFINE w == wire \o <<r>>
  <2>1. w \in Seq(Updates) /\ Len(w) = L + 1 /\ w[L + 1] = r /\ \A i \in 1 .. L : w[i] = wire[i]
    BY <1>2, <1>3
  <2>2. wire' = w \o <<p>>
    BY <1>1, <1>7 DEF ResizeFirst, r
  <2> HIDE DEF w
  <2>3. /\ wire' \in Seq(Updates) /\ Len(wire') = L + 2 /\ wire'[L + 2] = p /\ wire'[L + 1] = r
        /\ \A i \in 1 .. L : wire'[i] = wire[i]
    <3>1. Len(wire') = (L + 1) + 1 /\ wire'[(L + 1) + 1] = p /\ \A i \in 1 .. L + 1 : wire'[i] = w[i]
      BY <1>2, <1>3, <2>1, <2>2
    <3>2. (L + 1) + 1 = L + 2 /\ L + 1 \in 1 .. L + 1 /\ 1 .. L \subseteq 1 .. L + 1
      BY <1>2
    <3>3. wire' \in Seq(Updates)
      BY <1>3, <2>1, <2>2
    <3> QED BY <2>1, <3>1, <3>2, <3>3
  <2>4. CanvasAfter(L + 1)' = screen /\ CanvasAfter(L + 2)' = screen
    BY <1>2, <1>3, <2>3 DEF CanvasAfter
  <2>5. ASSUME NEW i \in 1 .. L + 2, wire'[i].type = "picture"
        PROVE  wire'[i].screen = CanvasAfter(i - 1)'
    <3>1. CASE i <= L
      <4>1. i \in 1 .. L /\ i - 1 \in 0 .. L
        BY <1>2, <3>1
      <4> QED BY <1>4, <1>5, <2>3, <2>5, <4>1
    <3>2. CASE i = L + 1
      BY <1>3, <2>3, <2>5, <3>2
    <3>3. CASE i = L + 2
      <4>1. i - 1 = L + 1
        BY <1>2, <3>3
      <4> QED BY <1>3, <2>3, <2>4, <3>3, <4>1
    <3> QED BY <1>2, <3>1, <3>2, <3>3
  <2>6. Len(wire') <= MaxWire + 1
    BY <1>1, <1>2, <2>3
  <2> QED BY <1>1, <2>3, <2>4, <2>5, <2>6, UpdateLengths DEF WireInv, Announced, UpdatesTypeOK, PictureFits
<1> QED BY <1>6, <1>7

(* The browser takes the first message off the wire, and has the canvas    *)
(* that message is for.                                                    *)
LEMMA FirstTaken ==
  ASSUME WireInv, wire # <<>>, wire' = Tail(wire), UNCHANGED clientSize,
         desktop' = wire[1].screen, PictureFits', drawn'.on \in Screens, drawn'.read \in Nat,
         inStep' \in BOOLEAN
  PROVE  WireInv'
<1> PICK L \in Nat : L = Len(wire)
  BY LenProperties DEF WireInv
<1>1. wire \in Seq(Updates) /\ L >= 1 /\ L <= MaxWire + 1 /\ MaxWire \in Nat
  BY EmptySeq, ScreenAssumption DEF WireInv, UpdatesTypeOK
<1>2. wire' \in Seq(Updates) /\ Len(wire') = L - 1 /\ \A i \in 1 .. L - 1 : wire'[i] = wire[i + 1]
  BY <1>1, HeadTailProperties
<1>3. \A i \in 0 .. L - 1 : CanvasAfter(i)' = CanvasAfter(i + 1)
  <2> SUFFICES ASSUME NEW i \in 0 .. L - 1 PROVE CanvasAfter(i)' = CanvasAfter(i + 1)
    OBVIOUS
  <2>1. CASE i = 0
    BY <2>1 DEF CanvasAfter
  <2>2. CASE i # 0
    <3>1. i \in 1 .. L - 1 /\ i + 1 # 0
      BY <2>2
    <3> QED BY <1>2, <2>2, <3>1 DEF CanvasAfter
  <2> QED BY <2>1, <2>2
<1>4. /\ \A i \in 1 .. L : wire[i].type = "picture" => wire[i].screen = CanvasAfter(i - 1)
      /\ clientSize = CanvasAfter(L)
  BY DEF WireInv, Announced
<1>5. ASSUME NEW i \in 1 .. L - 1, wire'[i].type = "picture"
      PROVE  wire'[i].screen = CanvasAfter(i - 1)'
  <2>1. i + 1 \in 1 .. L /\ i - 1 \in 0 .. L - 1 /\ (i + 1) - 1 = i /\ (i - 1) + 1 = i
    OBVIOUS
  <2> QED BY <1>2, <1>3, <1>4, <1>5, <2>1
<1>6. clientSize' = CanvasAfter(L - 1)'
  <2>1. L - 1 \in 0 .. L - 1 /\ (L - 1) + 1 = L
    BY <1>1
  <2> QED BY <1>3, <1>4, <2>1
<1>7. desktop' \in Screens /\ Len(wire') <= MaxWire + 1
  <2>1. 1 \in 1 .. L
    BY <1>1
  <2> QED BY <1>1, <1>2, <2>1, UpdateLengths
<1> QED BY <1>2, <1>5, <1>6, <1>7, UpdateLengths DEF WireInv, Announced, UpdatesTypeOK

LEMMA UpdateTaken ==
  ASSUME WireInv, TakeUpdate
  PROVE  WireInv'
<1>1. wire # <<>> /\ wire' = Tail(wire) /\ UNCHANGED clientSize
  BY DEF TakeUpdate, TakeResize, TakePicture
<1>2. wire \in Seq(Updates) /\ 1 \in 1 .. Len(wire) /\ Head(wire) = wire[1]
  BY <1>1, EmptySeq, LenProperties DEF WireInv
<1>3. CASE TakeResize
  BY <1>1, <1>2, <1>3, FirstTaken DEF TakeResize, WireInv, UpdatesTypeOK, PictureFits
<1>4. CASE TakePicture
  <2>1. wire[1].type = "picture" /\ wire[1].screen = desktop
    BY <1>2, <1>4 DEF TakePicture, WireInv, Announced, CanvasAfter
  <2>2. /\ drawn'.on = desktop /\ drawn'.screen = wire[1].screen
        /\ drawn'.read = ReadLength(wire[1].length) /\ inStep' \in BOOLEAN /\ desktop' = desktop
    BY <1>2, <1>4 DEF TakePicture
  <2> QED BY <1>1, <1>2, <2>1, <2>2, FirstTaken, UpdateLengths DEF PictureFits, WireInv, UpdatesTypeOK
<1> QED BY <1>3, <1>4 DEF TakeUpdate

(* The length the browser reads is the length that was written.            *)
LEMMA StepKept ==
  ASSUME WireInv, ShortPngs, inStep, TakeUpdate
  PROVE  inStep'
<1>1. CASE TakeResize
  BY <1>1 DEF TakeResize
<1>2. CASE TakePicture
  <2>1. wire \in Seq(Updates) /\ 1 \in 1 .. Len(wire) /\ Head(wire) = wire[1]
    BY <1>2, EmptySeq, LenProperties DEF WireInv, TakePicture
  <2>2. wire[1].type = "picture" /\ wire[1] \in Updates
    BY <1>2, <2>1, ElementOfSeq DEF TakePicture
  <2>3. wire[1].size \in Sizes /\ wire[1].length = CompactLength(wire[1].size)
    BY <2>2, UpdateFields
  <2>4. ReadLength(wire[1].length) = wire[1].size
    <3> PICK size \in Sizes : size = wire[1].size
      BY <2>3
    <3>1. size \in Nat /\ size <= 2097151
      BY SizeAssumption DEF ShortPngs
    <3> QED BY <2>3, <3>1, LengthRead
  <2> QED BY <1>2, <2>1, <2>4 DEF TakePicture
<1> QED BY <1>1, <1>2 DEF TakeUpdate

LEMMA WireInit == Init => WireInv /\ inStep
<1> SUFFICES ASSUME Init PROVE WireInv /\ inStep
  OBVIOUS
<1>1. /\ clientSize = FirstScreen /\ desktop = FirstScreen /\ FirstScreen \in Screens
      /\ wire = <<>> /\ drawn.on = FirstScreen /\ drawn.screen = FirstScreen /\ drawn.read = 0
      /\ inStep = TRUE
  BY ScreenAssumption DEF Init, UpdatesInit, Nobody
<1>2. wire \in Seq(Updates) /\ Len(wire) = 0 /\ Len(wire) <= MaxWire + 1
  BY <1>1, EmptySeq, ScreenAssumption
<1> QED BY <1>1, <1>2 DEF WireInv, UpdatesTypeOK, Announced, CanvasAfter, PictureFits

LEMMA WireStep == WireInv /\ [Next]_vars => WireInv'
<1> SUFFICES ASSUME WireInv, [Next]_vars PROVE WireInv'
  OBVIOUS
<1>1. CASE UNCHANGED updateVars
  BY <1>1 DEF updateVars, WireInv, UpdatesTypeOK, Announced, CanvasAfter, PictureFits
<1>2. CASE VideoWriter
  BY <1>2, FrameSent DEF VideoWriter, SendAnyFrame
<1>3. CASE BrowserDraws
  BY <1>3, UpdateTaken DEF BrowserDraws
<1> QED BY <1>1, <1>2, <1>3 DEF Next, vars, Handshake, BrowserSends, Transport, CommandLoop

(* The browser finds every png where it begins and ends, and draws it on a *)
(* canvas of its size, also when the screen changes while updates are on   *)
(* their way: for any screens, and pngs of up to 2 MiB.                    *)
THEOREM UpdatesAreRight ==
  ASSUME ShortPngs
  PROVE  Spec => []UpdatesRight
<1>1. Init => WireInv /\ inStep
  BY WireInit
<1>2. WireInv /\ inStep /\ [Next]_vars => (WireInv /\ inStep)'
  <2> SUFFICES ASSUME WireInv, inStep, [Next]_vars PROVE inStep'
    BY WireStep
  <2>1. CASE BrowserDraws
    BY <2>1, StepKept DEF BrowserDraws
  <2>2. CASE ~ BrowserDraws
    BY <2>2 DEF Next, vars, updateVars, Handshake, BrowserSends, Transport, CommandLoop,
                VideoWriter, SendAnyFrame, SendVncFrame
  <2> QED BY <2>1, <2>2
<1>3. WireInv /\ inStep => UpdatesRight
  BY DEF WireInv, UpdatesRight, StaysInStep
<1> QED BY <1>1, <1>2, <1>3, PTL DEF Spec

-----------------------------------------------------------------------------
(* The commands.                                                           *)

(* A message arrives whole and fits into the buffer of the reader.         *)
WholeMessages == ~ Splits /\ BufSize >= LongestMessage

(* The lengths of the commands sent.                                       *)
Lengths == [i \in 1 .. Len(sent) |-> Length(sent[i])]

(* The buffer begins where the command loop is, and each message on the    *)
(* way where the one before it ends; st says after which commands.         *)
CutAt(st) ==
  /\ st \in [1 .. Len(messages) + 1 -> 0 .. Len(sent)]
  /\ Laid(buffered, Len(handled), st[1], Lengths)
  /\ \A k \in 1 .. Len(messages) : Laid(messages[k], st[k], st[k + 1], Lengths)
  /\ st[Len(messages) + 1] = Len(sent)

WholeCommands == \E st \in [1 .. Len(messages) + 1 -> 0 .. Len(sent)] : CutAt(st)

Arrived ==
  /\ \A k \in 1 .. Len(messages) : Len(messages[k]) <= LongestMessage
  /\ arrived # 0 => messages # <<>> /\ arrived = Len(messages[1])

CommandInv == CommandsTypeOK /\ CommandsWhole /\ WholeCommands /\ Arrived

(* The command loop reads as many bytes as the browser sends.              *)
LEMMA LengthOfKind ==
  ASSUME NEW kind \in Kinds
  PROVE  /\ Length(kind) \in 6 .. 20 /\ Length(kind) \in Nat /\ 1 \in 1 .. Length(kind)
         /\ Operands(kind) = Length(kind)
<1>1. kind \in {"pixelFormat", "encodings", "request", "key", "pointer"}
  BY KindAssumption
<1>2. Length(kind) \in 6 .. 20 /\ Operands(kind) = Length(kind)
  BY <1>1 DEF Length, Operands
<1> QED BY <1>2

LEMMA CommandBytes ==
  ASSUME NEW i \in 1 .. MaxSent, NEW kind \in Kinds
  PROVE  /\ Command(i, kind) \in Seq(Bytes) /\ Len(Command(i, kind)) = Length(kind)
         /\ \A j \in 1 .. Length(kind) : Command(i, kind)[j] = <<i, j>>
<1>1. Length(kind) \in 6 .. 20
  BY LengthOfKind
<1>2. Length(kind) \in Nat /\ 1 .. Length(kind) \subseteq 1 .. 20
  BY <1>1
<1>3. Command(i, kind) \in [1 .. Length(kind) -> Bytes]
  BY <1>2 DEF Command, Bytes
<1>4. Command(i, kind) \in Seq(Bytes)
  BY <1>2, <1>3, SeqDef
<1> QED BY <1>2, <1>3, <1>4, LenProperties DEF Command

(* FlattenSeq puts up to four sequences together.                          *)
LEMMA Flattened ==
  ASSUME NEW S, NEW seqs \in Seq(Seq(S)), Len(seqs) \in 1 .. 4
  PROVE  \E f : /\ FlattenSeq(seqs) = f[Len(seqs)] /\ f[1] = seqs[1]
                /\ \A i \in 2 .. Len(seqs) : f[i] = f[i - 1] \o seqs[i]
<1> DEFINE n == Len(seqs)
           F(f) == f = [i \in 1 .. n |-> IF i = 1 THEN seqs[i] ELSE f[i - 1] \o seqs[i]]
           two   == seqs[1] \o seqs[2]
           three == two \o seqs[3]
           g == [i \in 1 .. n |-> IF i = 1 THEN seqs[i] ELSE IF i = 2 THEN two
                                  ELSE IF i = 3 THEN three ELSE three \o seqs[4]]
<1>1. F(g)
  <2>1. ASSUME NEW i \in 1 .. n
        PROVE  g[i] = IF i = 1 THEN seqs[i] ELSE g[i - 1] \o seqs[i]
    <3>1. n \in 1 .. 4 /\ i \in 1 .. n
      OBVIOUS
    <3> HIDE DEF n, two, three
    <3>2. CASE i = 1
      BY <3>2
    <3>3. CASE i = 2
      <4>1. 1 \in 1 .. n /\ i - 1 = 1
        BY <3>1, <3>3
      <4> QED BY <3>3, <4>1 DEF two
    <3>4. CASE i = 3
      <4>1. 2 \in 1 .. n /\ i - 1 = 2
        BY <3>1, <3>4
      <4> QED BY <3>4, <4>1 DEF three
    <3>5. CASE i = 4
      <4>1. 3 \in 1 .. n /\ i - 1 = 3
        BY <3>1, <3>5
      <4> QED BY <3>5, <4>1
    <3>6. i \in {1, 2, 3, 4}
      BY <3>1
    <3> QED BY <3>2, <3>3, <3>4, <3>5, <3>6
  <2> HIDE DEF n, two, three
  <2>2. g = [i \in 1 .. n |-> g[i]]
    OBVIOUS
  <2> HIDE DEF g
  <2> QED BY <2>1, <2>2
<1> DEFINE f == CHOOSE f : F(f)
<1> HIDE DEF g
<1>2. F(f)
  <2> HIDE DEF F
  <2> QED BY <1>1
<1>3. FlattenSeq(seqs) = f[n]
  BY DEF FlattenSeq
<1> HIDE DEF f
<1>4. n \in 1 .. n /\ 1 \in 1 .. n /\ 2 .. n \subseteq 1 .. n /\ 1 \notin 2 .. n
  OBVIOUS
<1> HIDE DEF n
<1>5. f[1] = seqs[1] /\ \A i \in 2 .. n : f[i] = f[i - 1] \o seqs[i]
  BY <1>2, <1>4
<1> QED BY <1>3, <1>5 DEF n

(* A WebSocket message with some commands.                                 *)
LEMMA MessageLaid ==
  ASSUME NEW L \in Nat, NEW commands \in Seq(Kinds), Len(commands) \in 1 .. 4,
         L + Len(commands) <= MaxSent, NEW len,
         \A n \in 1 .. Len(commands) : len[L + n] = Length(commands[n])
  PROVE  \E f : /\ FlattenSeq([n \in DOMAIN commands |-> Command(L + n, commands[n])]) = f[Len(commands)]
                /\ Len(f[1]) = Length(commands[1])
                /\ \A n \in 2 .. Len(commands) : Len(f[n]) = Len(f[n - 1]) + Length(commands[n])
                /\ \A n \in 1 .. Len(commands) : f[n] \in Seq(Bytes) /\ Laid(f[n], L, L + n, len)
<1> DEFINE N == Len(commands)
           c == [n \in 1 .. N |-> Command(L + n, commands[n])]
<1>1. N \in 1 .. 4 /\ N \in Nat /\ DOMAIN commands = 1 .. N /\ \A n \in 1 .. N : commands[n] \in Kinds
  BY LenProperties, ElementOfSeq
<1>2. MaxSent \in Nat /\ \A n \in 1 .. N : L + n \in 1 .. MaxSent
  BY BufferAssumption
<1>3. ASSUME NEW n \in 1 .. N
      PROVE  /\ c[n] \in Seq(Bytes) /\ Len(c[n]) = Length(commands[n])
             /\ Length(commands[n]) \in Nat
             /\ Laid(c[n], L + n - 1, L + n, len)
  <2>1. /\ c[n] \in Seq(Bytes) /\ Len(c[n]) = Length(commands[n])
        /\ \A j \in 1 .. Length(commands[n]) : c[n][j] = <<L + n, j>>
    BY <1>1, <1>2, CommandBytes
  <2>2. L + n \in Nat \ {0} /\ Length(commands[n]) \in Nat /\ len[L + n] = Length(commands[n])
    <3>1. commands[n] \in Kinds /\ n \in 1 .. Len(commands)
      BY <1>1
    <3>2. L + n \in Nat \ {0}
      BY <3>1
    <3>3. len[L + n] = Length(commands[n])
      BY <3>1
    <3>4. Length(commands[n]) \in Nat
      BY <3>1, LengthOfKind
    <3> QED BY <3>2, <3>3, <3>4
  <2> DEFINE s == c[n]
             i == L + n
  <2>3. /\ s \in Seq(Bytes) /\ i \in Nat \ {0} /\ len[i] = Len(s)
        /\ \A j \in 1 .. Len(s) : s[j] = <<i, j>>
    <3> HIDE DEF c, N
    <3> QED BY <2>1, <2>2
  <2> HIDE DEF s, i
  <2>4. Laid(s, i - 1, i, len)
    BY <2>3, LaidMessage
  <2> QED BY <2>1, <2>2, <2>4 DEF s, i
<1>4. c \in Seq(Seq(Bytes)) /\ Len(c) = N
  <2>1. c \in [1 .. N -> Seq(Bytes)]
    BY <1>3
  <2> HIDE DEF c
  <2>2. c \in Seq(Seq(Bytes))
    BY <1>1, <2>1, SeqDef
  <2> QED BY <1>1, <2>1, <2>2, LenProperties
<1>5. [n \in DOMAIN commands |-> Command(L + n, commands[n])] = c
  BY <1>1
<1> HIDE DEF N, c
<1>6. PICK f : /\ FlattenSeq(c) = f[N] /\ f[1] = c[1]
               /\ \A i \in 2 .. N : f[i] = f[i - 1] \o c[i]
  BY <1>1, <1>4, Flattened
<1>7. \A i \in L + 1 .. L + N : len[i] \in Nat
  <2> SUFFICES ASSUME NEW i \in L + 1 .. L + N PROVE len[i] \in Nat
    OBVIOUS
  <2>1. i - L \in 1 .. N /\ L + (i - L) = i
    BY <1>1
  <2> QED BY <1>3, <2>1 DEF N
<1> DEFINE P(n) == f[n] \in Seq(Bytes) /\ Laid(f[n], L, L + n, len) /\ Len(f[n]) \in Nat
<1>8. P(1)
  <2>1. 1 \in 1 .. N /\ L + 1 - 1 = L
    BY <1>1
  <2> QED BY <1>3, <1>6, <2>1, LenProperties
<1>9. ASSUME NEW n \in 2 .. N, P(n - 1)
      PROVE  P(n) /\ Len(f[n]) = Len(f[n - 1]) + Length(commands[n])
  <2>1. n \in 1 .. N /\ f[n] = f[n - 1] \o c[n]
    <3>1. n \in 1 .. N
      BY <1>1
    <3> QED BY <1>6, <3>1
  <2>2. /\ L \in Nat /\ L + (n - 1) \in Nat /\ L + n \in Nat /\ L + n - 1 = L + (n - 1)
        /\ L + 1 .. L + n \subseteq L + 1 .. L + N
    BY <1>1
  <2>3. \A i \in L + 1 .. L + n : len[i] \in Nat
    BY <1>7, <2>2
  <2>4. c[n] \in Seq(Bytes) /\ Len(c[n]) = Length(commands[n]) /\ Laid(c[n], L + (n - 1), L + n, len)
    BY <1>3, <2>1, <2>2
  <2>5. Laid(f[n - 1] \o c[n], L, L + n, len)
    BY <1>9, <2>2, <2>3, <2>4, LaidConcat
  <2>6. f[n] \in Seq(Bytes) /\ Len(f[n]) = Len(f[n - 1]) + Len(c[n])
    <3> DEFINE a == f[n - 1]
               d == c[n]
    <3>1. a \in Seq(Bytes) /\ d \in Seq(Bytes) /\ f[n] = a \o d
      BY <1>9, <2>1, <2>4
    <3> HIDE DEF a, d
    <3>2. f[n] \in Seq(Bytes) /\ Len(f[n]) = Len(a) + Len(d)
      BY <3>1, ConcatProperties
    <3> QED BY <3>2 DEF a, d
  <2> QED BY <2>1, <2>4, <2>5, <2>6, LenProperties
<1>10. \A n \in 1 .. N : P(n)
  <2>1. 2 \in 2 .. N => P(2)
    BY <1>8, <1>9
  <2>2. 3 \in 2 .. N => P(3)
    <3>1. 3 \in 2 .. N => 2 \in 2 .. N
      BY <1>1
    <3> HIDE DEF P
    <3> QED BY <1>9, <2>1, <3>1
  <2>3. 4 \in 2 .. N => P(4)
    <3>1. 4 \in 2 .. N => 3 \in 2 .. N
      BY <1>1
    <3> HIDE DEF P
    <3> QED BY <1>9, <2>2, <3>1
  <2>4. \A n \in 1 .. N : n = 1 \/ (n = 2 /\ 2 \in 2 .. N) \/ (n = 3 /\ 3 \in 2 .. N) \/ (n = 4 /\ 4 \in 2 .. N)
    BY <1>1
  <2> HIDE DEF P
  <2> QED BY <1>8, <2>1, <2>2, <2>3, <2>4
<1>11. \A n \in 2 .. N : Len(f[n]) = Len(f[n - 1]) + Length(commands[n])
  <2>1. \A n \in 2 .. N : n - 1 \in 1 .. N
    BY <1>1
  <2> HIDE DEF P
  <2> QED BY <1>9, <1>10, <2>1
<1>12. Len(f[1]) = Length(commands[1])
  <2>1. 1 \in 1 .. N
    BY <1>1
  <2> QED BY <1>3, <1>6, <2>1
<1> QED BY <1>5, <1>6, <1>10, <1>11, <1>12 DEF N

LEMMA CommandFacts ==
  ASSUME CommandInv
  PROVE  /\ sent \in Seq(Kinds) /\ Len(sent) \in Nat /\ Len(sent) <= MaxSent /\ MaxSent \in Nat
         /\ \A i \in 1 .. Len(sent) : sent[i] \in Kinds /\ Lengths[i] = Length(sent[i])
         /\ \A i \in 1 .. Len(sent) : Lengths[i] \in 6 .. 20 /\ Lengths[i] \in Nat
         /\ messages \in Seq(Seq(Bytes)) /\ Len(messages) \in Nat
         /\ \A k \in 1 .. Len(messages) : messages[k] \in Seq(Bytes)
         /\ buffered \in Seq(Bytes) /\ Len(buffered) \in Nat
         /\ handled \in Seq(Seq(Bytes)) /\ Len(handled) \in Nat /\ Len(handled) <= Len(sent)
<1>1. /\ sent \in Seq(Kinds) /\ Len(sent) <= MaxSent /\ messages \in Seq(Seq(Bytes))
      /\ buffered \in Seq(Bytes) /\ handled \in Seq(Seq(Bytes)) /\ Len(handled) <= Len(sent)
  BY DEF CommandInv, CommandsTypeOK
<1>2. /\ Len(sent) \in Nat /\ Len(messages) \in Nat /\ Len(buffered) \in Nat /\ Len(handled) \in Nat
      /\ \A i \in 1 .. Len(sent) : sent[i] \in Kinds
      /\ \A k \in 1 .. Len(messages) : messages[k] \in Seq(Bytes)
  BY <1>1, LenProperties, ElementOfSeq
<1>3. \A i \in 1 .. Len(sent) : Lengths[i] = Length(sent[i])
  BY DEF Lengths
<1>4. \A i \in 1 .. Len(sent) : Lengths[i] \in 6 .. 20 /\ Lengths[i] \in Nat
  <2>1. \A i \in 1 .. Len(sent) : Lengths[i] \in 6 .. 20
    BY <1>2, <1>3, LengthOfKind
  <2> QED BY <2>1
<1> QED BY <1>1, <1>2, <1>3, <1>4, BufferAssumption

LEMMA CommandsOfMessage ==
  ASSUME NEW commands \in {Opening, Requests} \cup OneOf(Kinds)
  PROVE  /\ commands \in Seq(Kinds) /\ Len(commands) \in 1 .. 4
         /\ \/ Len(commands) = 4 /\ commands[1] = "pixelFormat" /\ commands[2] = "encodings"
                                 /\ commands[3] = "request" /\ commands[4] = "request"
            \/ Len(commands) = 2 /\ commands[1] = "request" /\ commands[2] = "request"
            \/ Len(commands) = 1 /\ commands[1] \in Kinds
<1>1. CASE commands = Opening
  BY <1>1, KindAssumption DEF Opening
<1>2. CASE commands = Requests
  BY <1>2, KindAssumption DEF Requests
<1>3. CASE commands \in OneOf(Kinds)
  <2>1. PICK kind \in Kinds : commands = <<kind>>
    BY <1>3 DEF OneOf
  <2>2. commands \in Seq(Kinds) /\ Len(commands) = 1 /\ commands[1] = kind
    BY <2>1
  <2> QED BY <2>2
<1> QED BY <1>1, <1>2, <1>3

(* What the browser sends at once is no longer than its first message.     *)
LEMMA MessageFits ==
  ASSUME NEW commands \in {Opening, Requests} \cup OneOf(Kinds), NEW f,
         Len(f[1]) = Length(commands[1]),
         \A n \in 2 .. Len(commands) : Len(f[n]) = Len(f[n - 1]) + Length(commands[n])
  PROVE  Len(f[Len(commands)]) <= LongestMessage
<1>1. /\ Length("pixelFormat") = 20 /\ Length("encodings") = 8 /\ Length("request") = 10
      /\ LongestMessage = 48
  BY DEF Length, LongestMessage
<1>2. CASE /\ Len(commands) = 4 /\ commands[1] = "pixelFormat" /\ commands[2] = "encodings"
           /\ commands[3] = "request" /\ commands[4] = "request"
  <2>1. 2 \in 2 .. 4 /\ 3 \in 2 .. 4 /\ 4 \in 2 .. 4 /\ 2 - 1 = 1 /\ 3 - 1 = 2 /\ 4 - 1 = 3
    OBVIOUS
  <2>2. Len(f[1]) = 20 /\ Len(f[2]) = Len(f[1]) + 8 /\ Len(f[3]) = Len(f[2]) + 10 /\ Len(f[4]) = Len(f[3]) + 10
    BY <1>1, <1>2, <2>1
  <2> QED BY <1>1, <1>2, <2>2
<1>3. CASE Len(commands) = 2 /\ commands[1] = "request" /\ commands[2] = "request"
  <2>1. 2 \in 2 .. 2 /\ 2 - 1 = 1
    OBVIOUS
  <2>2. Len(f[1]) = 10 /\ Len(f[2]) = Len(f[1]) + 10
    BY <1>1, <1>3, <2>1
  <2> QED BY <1>1, <1>3, <2>2
<1>4. CASE Len(commands) = 1 /\ commands[1] \in Kinds
  <2>1. Length(commands[1]) \in 6 .. 20
    BY <1>4, LengthOfKind
  <2> QED BY <1>1, <1>4, <2>1
<1> QED BY <1>2, <1>3, <1>4, CommandsOfMessage

LEMMA CommandsSent ==
  ASSUME CommandInv, NEW commands \in {Opening, Requests} \cup OneOf(Kinds), Send(commands)
  PROVE  CommandInv'
<1> PICK L \in Nat, M \in Nat : L = Len(sent) /\ M = Len(messages)
  BY CommandFacts
<1> PICK N \in 1 .. 4 : N = Len(commands)
  BY CommandsOfMessage
<1> DEFINE m == FlattenSeq([n \in DOMAIN commands |-> Command(L + n, commands[n])])
<1>1. /\ L + N <= MaxSent /\ sent' = sent \o commands /\ messages' = Append(messages, m)
      /\ UNCHANGED <<arrived, buffered, handled>>
  BY DEF Send
<1>2. commands \in Seq(Kinds) /\ L + N \in Nat /\ sent \in Seq(Kinds) /\ MaxSent \in Nat
  BY CommandsOfMessage, CommandFacts
<1>3. /\ sent' \in Seq(Kinds) /\ Len(sent') = L + N
      /\ \A i \in 1 .. L : sent'[i] = sent[i]
      /\ \A n \in 1 .. N : sent'[L + n] = commands[n]
  <2>1. /\ sent' \in Seq(Kinds) /\ Len(sent') = L + N
        /\ \A i \in 1 .. L + N : sent'[i] = IF i <= L THEN sent[i] ELSE commands[i - L]
    BY <1>1, <1>2, ConcatProperties
  <2>2. \A n \in 1 .. N : L + n \in 1 .. L + N /\ ~ (L + n <= L) /\ L + n - L = n
    OBVIOUS
  <2>3. \A i \in 1 .. L : i \in 1 .. L + N /\ i <= L
    OBVIOUS
  <2>4. \A i \in 1 .. L : sent'[i] = sent[i]
    BY <2>1, <2>3
  <2>5. ASSUME NEW n \in 1 .. N PROVE sent'[L + n] = commands[n]
    <3>1. L + n \in 1 .. L + N /\ ~ (L + n <= L) /\ L + n - L = n
      BY <2>2
    <3>2. sent'[L + n] = commands[L + n - L]
      BY <2>1, <3>1
    <3> QED BY <3>1, <3>2
  <2> QED BY <2>1, <2>4, <2>5
<1>4. /\ \A i \in 1 .. L : Lengths'[i] = Lengths[i]
      /\ \A n \in 1 .. N : Lengths'[L + n] = Length(commands[n])
      /\ \A i \in 1 .. L + N : Lengths'[i] \in Nat
  <2>1. \A i \in 1 .. L + N : Lengths'[i] = Length(sent'[i]) /\ sent'[i] \in Kinds
    BY <1>3, ElementOfSeq DEF Lengths
  <2>2. \A n \in 1 .. N : L + n \in 1 .. L + N
    OBVIOUS
  <2>3. \A i \in 1 .. L : i \in 1 .. L + N
    OBVIOUS
  <2>4. \A i \in 1 .. L + N : Length(sent'[i]) \in Nat
    BY <2>1, LengthOfKind
  <2> QED BY <1>3, <2>1, <2>2, <2>3, <2>4, CommandFacts
<1>5. m \in Seq(Bytes) /\ Laid(m, L, L + N, Lengths') /\ Len(m) <= LongestMessage
  <2>1. PICK f : /\ m = f[N] /\ Len(f[1]) = Length(commands[1])
                 /\ \A n \in 2 .. N : Len(f[n]) = Len(f[n - 1]) + Length(commands[n])
                 /\ \A n \in 1 .. N : f[n] \in Seq(Bytes) /\ Laid(f[n], L, L + n, Lengths')
    BY <1>1, <1>2, <1>4, MessageLaid
  <2>2. N \in 1 .. N
    OBVIOUS
  <2>3. Len(f[N]) <= LongestMessage
    BY <2>1, MessageFits
  <2> HIDE DEF m
  <2> QED BY <2>1, <2>2, <2>3
<1> HIDE DEF m
<1>6. /\ messages' \in Seq(Seq(Bytes)) /\ Len(messages') = M + 1 /\ messages'[M + 1] = m
      /\ \A k \in 1 .. M : messages'[k] = messages[k]
  BY <1>1, <1>5, CommandFacts, AppendProperties
<1>7. CommandsTypeOK'
  <2>1. Len(handled) <= L + N
    BY CommandFacts
  <2> QED BY <1>1, <1>3, <1>6, <2>1 DEF CommandInv, CommandsTypeOK
<1>8. CommandsWhole'
  <2>1. \A i \in 1 .. Len(handled) : i \in 1 .. L
    BY CommandFacts
  <2> QED BY <1>1, <1>3, <2>1 DEF CommandInv, CommandsWhole
<1>9. Arrived'
  <2>1. \A k \in 1 .. M + 1 : k \in 1 .. M \/ k = M + 1
    OBVIOUS
  <2>2. messages # <<>> => 1 \in 1 .. M
    BY CommandFacts, EmptySeq
  <2>3. messages' # <<>>
    BY <1>6, EmptySeq
  <2> QED BY <1>1, <1>5, <1>6, <2>1, <2>2, <2>3 DEF CommandInv, Arrived
<1>10. WholeCommands'
  <2>1. PICK st \in [1 .. M + 1 -> 0 .. L] : CutAt(st)
    BY DEF CommandInv, WholeCommands
  <2> DEFINE new == [k \in 1 .. M + 2 |-> IF k <= M + 1 THEN st[k] ELSE L + N]
  <2>2. /\ new \in [1 .. M + 2 -> 0 .. L + N] /\ new[M + 2] = L + N
        /\ \A k \in 1 .. M + 1 : new[k] = st[k] /\ st[k] \in 0 .. L
    OBVIOUS
  <2> HIDE DEF new
  <2>3. /\ Laid(buffered, Len(handled), st[1], Lengths)
        /\ \A k \in 1 .. M : Laid(messages[k], st[k], st[k + 1], Lengths)
        /\ st[M + 1] = L
    BY <2>1 DEF CutAt
  <2>4. \A i \in Nat : \A j \in 0 .. L : \A k \in i + 1 .. j : k \in 1 .. L
    OBVIOUS
  <2>5. 1 \in 1 .. M + 1 /\ M + 1 \in 1 .. M + 1 /\ (M + 1) + 1 = M + 2
        /\ \A k \in 1 .. M : k \in 1 .. M + 1 /\ k + 1 \in 1 .. M + 1
    OBVIOUS
  <2>6. Laid(buffered, Len(handled), new[1], Lengths')
    <3>1. Len(handled) \in Nat /\ st[1] \in Nat /\ st[1] \in 0 .. L /\ new[1] = st[1]
      BY <2>2, <2>5, CommandFacts
    <3>2. \A k \in Len(handled) + 1 .. st[1] : Lengths'[k] = Lengths[k]
      BY <1>4, <2>4, <3>1
    <3> QED BY <2>3, <3>1, <3>2, LaidSame
  <2>7. ASSUME NEW k \in 1 .. M PROVE Laid(messages[k], new[k], new[k + 1], Lengths')
    <3>1. /\ st[k] \in Nat /\ st[k + 1] \in Nat /\ st[k + 1] \in 0 .. L
          /\ new[k] = st[k] /\ new[k + 1] = st[k + 1]
      BY <2>2, <2>5
    <3>2. \A i \in st[k] + 1 .. st[k + 1] : Lengths'[i] = Lengths[i]
      BY <1>4, <2>4, <3>1
    <3> QED BY <2>3, <3>1, <3>2, LaidSame
  <2>8. \A k \in 1 .. M + 1 : Laid(messages'[k], new[k], new[k + 1], Lengths')
    <3>1. Laid(m, new[M + 1], new[(M + 1) + 1], Lengths')
      BY <1>5, <2>2, <2>3, <2>5
    <3>2. \A k \in 1 .. M + 1 : k \in 1 .. M \/ k = M + 1
      OBVIOUS
    <3> QED BY <1>6, <2>7, <3>1, <3>2
  <2>9. Len(messages') + 1 = M + 2 /\ Len(sent') = L + N
    BY <1>3, <1>6
  <2>10. CutAt(new)'
    BY <1>1, <1>6, <2>2, <2>6, <2>8, <2>9 DEF CutAt
  <2> QED BY <2>2, <2>9, <2>10 DEF WholeCommands
<1> QED BY <1>7, <1>8, <1>9, <1>10 DEF CommandInv

LEMMA MessageArrives ==
  ASSUME CommandInv, WholeMessages, NEW k \in 1 .. LongestMessage, Arrive(k)
  PROVE  CommandInv'
<1>1. /\ messages # <<>> /\ arrived' = Len(messages[1])
      /\ UNCHANGED <<sent, messages, buffered, handled>>
  BY DEF Arrive, WholeMessages
<1>2. Len(messages[1]) \in 0 .. LongestMessage
  <2>1. 1 \in 1 .. Len(messages)
    BY <1>1, CommandFacts, EmptySeq
  <2>2. Len(messages[1]) \in Nat /\ Len(messages[1]) <= LongestMessage
    BY <2>1, CommandFacts, LenProperties DEF CommandInv, Arrived
  <2> QED BY <2>2 DEF LongestMessage, Length
<1>3. CommandsTypeOK' /\ CommandsWhole' /\ Arrived'
  BY <1>1, <1>2 DEF CommandInv, CommandsTypeOK, CommandsWhole, Arrived
<1>4. WholeCommands'
  BY <1>1 DEF CommandInv, WholeCommands, CutAt, Lengths
<1> QED BY <1>3, <1>4 DEF CommandInv

(* The reader takes the whole message, which the buffer has room for.      *)
LEMMA MessageRead ==
  ASSUME CommandInv, WholeMessages, Read
  PROVE  CommandInv'
<1> PICK L \in Nat, M \in Nat : L = Len(sent) /\ M = Len(messages)
  BY CommandFacts
<1> DEFINE m == messages[1]
<1>1. /\ arrived > 0 /\ messages' = Tail(messages) /\ arrived' = 0
      /\ buffered' = buffered \o First(m, Smaller(BufSize, arrived))
      /\ UNCHANGED <<sent, handled>>
  BY DEF Read, Remaining
<1>2. messages # <<>> /\ arrived = Len(m) /\ 1 \in 1 .. M
  BY <1>1, CommandFacts, EmptySeq DEF CommandInv, Arrived
<1>3. m \in Seq(Bytes) /\ Len(m) \in Nat /\ Len(m) <= LongestMessage
  BY <1>2, CommandFacts, LenProperties DEF CommandInv, Arrived
<1>4. First(m, Smaller(BufSize, arrived)) = m
  <2>1. BufSize \in Nat /\ LongestMessage \in Nat /\ BufSize >= LongestMessage
    BY BufferAssumption DEF WholeMessages, LongestMessage, Length
  <2> HIDE DEF m
  <2>2. Smaller(BufSize, arrived) = Len(m)
    BY <1>2, <1>3, <2>1 DEF Smaller
  <2> QED BY <1>3, <2>2, SubSeqFull DEF First
<1>5. buffered' \in Seq(Bytes)
  <2> HIDE DEF m
  <2> QED BY <1>1, <1>3, <1>4, CommandFacts, ConcatProperties
<1>6. /\ messages' \in Seq(Seq(Bytes)) /\ Len(messages') = M - 1 /\ M >= 1
      /\ \A k \in 1 .. M - 1 : messages'[k] = messages[k + 1]
  BY <1>1, <1>2, CommandFacts, HeadTailProperties
<1>7. CommandsTypeOK' /\ CommandsWhole'
  BY <1>1, <1>5, <1>6 DEF CommandInv, CommandsTypeOK, CommandsWhole, LongestMessage, Length
<1>8. Arrived'
  <2>1. \A k \in 1 .. M - 1 : k + 1 \in 1 .. M
    OBVIOUS
  <2> QED BY <1>1, <1>6, <2>1 DEF CommandInv, Arrived
<1>9. WholeCommands'
  <2>1. PICK st \in [1 .. M + 1 -> 0 .. L] : CutAt(st)
    BY DEF CommandInv, WholeCommands
  <2> DEFINE new == [k \in 1 .. M |-> st[k + 1]]
  <2>2. \A k \in 1 .. M : k + 1 \in 1 .. M + 1 /\ k \in 1 .. M + 1
    OBVIOUS
  <2>3. new \in [1 .. M -> 0 .. L] /\ \A k \in 1 .. M : new[k] = st[k + 1]
    BY <2>2
  <2> HIDE DEF new
  <2>4. /\ Laid(buffered, Len(handled), st[1], Lengths)
        /\ \A k \in 1 .. M : Laid(messages[k], st[k], st[k + 1], Lengths)
        /\ st[M + 1] = L
    BY <2>1 DEF CutAt
  <2>5. Laid(buffered', Len(handled), new[1], Lengths)
    <3>1. /\ Len(handled) \in Nat /\ st[1] \in Nat /\ st[2] \in Nat /\ st[2] \in 0 .. L /\ new[1] = st[2]
          /\ buffered \in Seq(Bytes)
      BY <1>2, <2>2, <2>3, CommandFacts
    <3>2. \A i \in Len(handled) + 1 .. st[2] : i \in 1 .. L
      BY <3>1
    <3>3. \A i \in Len(handled) + 1 .. st[2] : Lengths[i] \in Nat
      BY <3>2, CommandFacts
    <3>4. Laid(m, st[1], st[2], Lengths)
      BY <1>2, <2>4
    <3> HIDE DEF m
    <3>5. Laid(buffered \o m, Len(handled), st[2], Lengths)
      BY <1>3, <2>4, <3>1, <3>3, <3>4, LaidConcat
    <3> QED BY <1>1, <1>4, <3>1, <3>5
  <2>6. \A k \in 1 .. M - 1 : Laid(messages'[k], new[k], new[k + 1], Lengths)
    <3>1. \A k \in 1 .. M - 1 : k \in 1 .. M /\ k + 1 \in 1 .. M
      OBVIOUS
    <3> QED BY <1>6, <2>3, <2>4, <3>1
  <2>7. new[M] = L /\ Len(messages') + 1 = M
    <3>1. M \in 1 .. M
      BY <1>6
    <3> QED BY <1>6, <2>3, <2>4, <3>1
  <2>8. Lengths' = Lengths
    BY <1>1 DEF Lengths
  <2>9. CutAt(new)'
    BY <1>1, <1>6, <2>3, <2>5, <2>6, <2>7, <2>8 DEF CutAt
  <2> QED BY <1>1, <2>3, <2>7, <2>9 DEF WholeCommands
<1> QED BY <1>7, <1>8, <1>9 DEF CommandInv

LEMMA Taken ==
  ASSUME NEW q \in Seq(Bytes), q # <<>>, NEW h \in Nat, NEW n \in Nat, NEW len,
         \A i \in h + 1 .. n : len[i] \in Nat, Laid(q, h, n, len), NEW l, l = len[h + 1]
  PROVE  /\ h < n /\ l \in 0 .. Len(q) /\ Begins(q, h + 1, l)
         /\ First(q, l) \in Seq(Bytes) /\ Len(First(q, l)) = l /\ Begins(First(q, l), h + 1, l)
         /\ Rest(q, l) \in Seq(Bytes) /\ Laid(Rest(q, l), h + 1, n, len)
BY LaidTake DEF First, Rest

(* A turn of the command loop takes the next command and no byte more.     *)
LEMMA CommandHandled ==
  ASSUME CommandInv, Handle
  PROVE  /\ CommandInv' /\ Len(handled') = Len(handled) + 1
<1> PICK L \in Nat, h \in Nat, M \in Nat :
       L = Len(sent) /\ h = Len(handled) /\ h <= L /\ M = Len(messages)
  BY CommandFacts
<1>1. /\ buffered # <<>> /\ Len(buffered) >= Wanted
      /\ handled' = Append(handled, First(buffered, Wanted)) /\ buffered' = Rest(buffered, Wanted)
      /\ UNCHANGED <<sent, messages, arrived>>
  BY DEF Handle
<1>2. PICK st \in [1 .. M + 1 -> 0 .. L] : CutAt(st)
  BY DEF CommandInv, WholeCommands
<1>3. /\ Laid(buffered, h, st[1], Lengths) /\ st[1] \in 0 .. L
      /\ \A k \in 1 .. M : Laid(messages[k], st[k], st[k + 1], Lengths)
      /\ st[M + 1] = L
  <2>1. 1 \in 1 .. M + 1
    OBVIOUS
  <2> QED BY <1>2, <2>1 DEF CutAt
<1> PICK s \in Nat : s = st[1] /\ s <= L
  BY <1>3
<1>4. \A i \in h + 1 .. s : Lengths[i] \in Nat
  <2>1. \A i \in h + 1 .. s : i \in 1 .. L
    OBVIOUS
  <2> QED BY <2>1, CommandFacts
<1> PICK l : l = Lengths[h + 1]
  OBVIOUS
<1>5. /\ h < s /\ l \in 0 .. Len(buffered) /\ Begins(buffered, h + 1, l)
      /\ First(buffered, l) \in Seq(Bytes) /\ Len(First(buffered, l)) = l
      /\ Begins(First(buffered, l), h + 1, l)
      /\ Rest(buffered, l) \in Seq(Bytes) /\ Laid(Rest(buffered, l), h + 1, s, Lengths)
  <2>1. buffered \in Seq(Bytes) /\ buffered # <<>>
    BY <1>1, CommandFacts
  <2>2. Laid(buffered, h, s, Lengths) /\ \A i \in h + 1 .. s : Lengths[i] \in Nat
    BY <1>3, <1>4
  <2>3. h < s /\ l \in 0 .. Len(buffered)
    BY <2>1, <2>2, Taken
  <2>4. Begins(buffered, h + 1, l) /\ Begins(First(buffered, l), h + 1, l)
    BY <2>1, <2>2, Taken
  <2>5. First(buffered, l) \in Seq(Bytes) /\ Len(First(buffered, l)) = l
    BY <2>1, <2>3, Cut DEF First
  <2>6. Rest(buffered, l) \in Seq(Bytes) /\ Laid(Rest(buffered, l), h + 1, s, Lengths)
    BY <2>1, <2>2, Taken
  <2> QED BY <2>3, <2>4, <2>5, <2>6
<1>6. h + 1 \in 1 .. L /\ h + 1 \in 1 .. MaxSent /\ sent[h + 1] \in Kinds /\ Lengths[h + 1] = Length(sent[h + 1])
  <2>1. h + 1 \in 1 .. L
    BY <1>5
  <2>2. h + 1 \in 1 .. MaxSent
    BY <2>1, CommandFacts
  <2> QED BY <2>1, <2>2, CommandFacts
<1>7. Wanted = Length(sent[h + 1]) /\ Length(sent[h + 1]) \in Nat
  <2>1. /\ Length(sent[h + 1]) \in 6 .. 20 /\ Length(sent[h + 1]) \in Nat
        /\ Operands(sent[h + 1]) = Length(sent[h + 1])
    BY <1>6, LengthOfKind
  <2>2. 1 \in 1 .. Length(sent[h + 1])
    BY <1>6, LengthOfKind
  <2>3. buffered[1] = <<h + 1, 1>>
    BY <1>5, <1>6, <2>2 DEF Begins
  <2> QED BY <1>1, <2>1, <2>3 DEF Wanted
<1> PICK n \in Nat : n = Wanted /\ n = Length(sent[h + 1]) /\ n = Lengths[h + 1]
  <2>1. Wanted \in Nat
    BY <1>7
  <2> QED BY <1>6, <1>7, <2>1
<1> PICK a, b : a = First(buffered, n) /\ b = Rest(buffered, n)
  OBVIOUS
<1>8. /\ a \in Seq(Bytes) /\ Len(a) = n /\ Begins(a, h + 1, n)
      /\ b \in Seq(Bytes) /\ Laid(b, h + 1, s, Lengths)
  BY <1>5
<1>9. a = Command(h + 1, sent[h + 1])
  <2> DEFINE c == Command(h + 1, sent[h + 1])
             Q == Bytes
  <2>1. c \in Seq(Q) /\ Len(c) = n /\ \A j \in 1 .. n : c[j] = <<h + 1, j>>
    BY <1>6, CommandBytes
  <2>2. a \in Seq(Q) /\ Len(a) = n /\ \A j \in 1 .. n : a[j] = c[j]
    BY <1>8, <2>1 DEF Begins
  <2> HIDE DEF c, Q
  <2>3. a = c
    BY <2>1, <2>2, SeqEqual
  <2> QED BY <2>3 DEF c
<1>10. /\ handled' \in Seq(Seq(Bytes)) /\ Len(handled') = h + 1 /\ handled'[h + 1] = a
       /\ \A i \in 1 .. h : handled'[i] = handled[i]
  <2>1. handled' = Append(handled, a) /\ a \in Seq(Bytes) /\ handled \in Seq(Seq(Bytes))
    BY <1>1, <1>8, CommandFacts
  <2> QED BY <2>1, AppendProperties
<1>11. CommandsTypeOK'
  <2>1. buffered' \in Seq(Bytes)
    BY <1>1, <1>8
  <2>2. h + 1 <= L
    BY <1>6
  <2> QED BY <1>1, <1>10, <2>2, <2>1 DEF CommandInv, CommandsTypeOK, LongestMessage, Length
<1>12. CommandsWhole'
  <2>1. \A i \in 1 .. h + 1 : i \in 1 .. h \/ i = h + 1
    OBVIOUS
  <2> QED BY <1>1, <1>9, <1>10, <2>1 DEF CommandInv, CommandsWhole
<1>13. Arrived'
  BY <1>1 DEF CommandInv, Arrived
<1>14. WholeCommands'
  <2>1. Laid(b, h + 1, s, Lengths)
    BY <1>8
  <2>2. Lengths' = Lengths
    BY <1>1 DEF Lengths
  <2>3. CutAt(st)'
    BY <1>1, <1>3, <1>10, <2>1, <2>2 DEF CutAt
  <2> QED BY <1>1, <2>3 DEF WholeCommands
<1> QED BY <1>10, <1>11, <1>12, <1>13, <1>14 DEF CommandInv

LEMMA CommandInit == Init => CommandInv
<1> SUFFICES ASSUME Init PROVE CommandInv
  OBVIOUS
<1>1. /\ sent = <<>> /\ messages = <<>> /\ arrived = 0 /\ buffered = <<>> /\ handled = <<>>
      /\ Len(sent) = 0 /\ Len(messages) = 0 /\ Len(handled) = 0
      /\ \A S : <<>> \in Seq(S)
  BY EmptySeq DEF Init, CommandsInit
<1>2. CommandsTypeOK /\ CommandsWhole /\ Arrived
  BY <1>1, BufferAssumption
     DEF CommandsTypeOK, CommandsWhole, Arrived, LongestMessage, Length
<1>3. WholeCommands
  <2> DEFINE st == [k \in 1 .. 1 |-> 0]
  <2>1. st \in [1 .. Len(messages) + 1 -> 0 .. Len(sent)] /\ st[1] = 0
    BY <1>1
  <2> HIDE DEF st
  <2>2. Laid(<<>>, 0, 0, Lengths)
    BY LaidNothing
  <2>3. CutAt(st)
    BY <1>1, <2>1, <2>2 DEF CutAt
  <2> QED BY <2>1, <2>3 DEF WholeCommands
<1> QED BY <1>2, <1>3 DEF CommandInv

(* Update requests not yet answered are commands that were handled.        *)
Pending == pendingVideoUpdates \in 0 .. Len(handled)

LEMMA CommandStep ==
  ASSUME WholeMessages, CommandInv, Pending, [Next]_vars
  PROVE  CommandInv' /\ Pending'
<1> PICK h \in Nat : h = Len(handled)
  BY CommandFacts
<1>1. CASE UNCHANGED <<commandVars, pendingVideoUpdates>>
  BY <1>1 DEF commandVars, CommandInv, CommandsTypeOK, CommandsWhole, WholeCommands, CutAt,
              Lengths, Arrived, Pending
<1>2. CASE BrowserSends
  <2>1. CommandInv'
    BY <1>2, CommandsSent DEF BrowserSends, SendAny
  <2> QED BY <1>2, <2>1 DEF BrowserSends, SendAny, Send, Pending
<1>3. CASE Transport
  <2>1. CommandInv'
    BY <1>3, MessageArrives, MessageRead DEF Transport, ArriveSome
  <2> QED BY <1>3, <2>1 DEF Transport, ArriveSome, Arrive, Read, Pending
<1>4. CASE CommandLoop
  <2>1. CommandInv' /\ Len(handled') = h + 1
    BY <1>4, CommandHandled DEF CommandLoop
  <2>2. pendingVideoUpdates' \in {pendingVideoUpdates, pendingVideoUpdates + 1}
    BY <1>4 DEF CommandLoop, Pending
  <2> QED BY <2>1, <2>2 DEF Pending
<1>5. CASE VideoWriter
  <2>1. UNCHANGED commandVars
    BY <1>5 DEF VideoWriter
  <2>2. CommandInv' /\ Len(handled') = h
    BY <2>1 DEF commandVars, CommandInv, CommandsTypeOK, CommandsWhole, WholeCommands, CutAt,
                Lengths, Arrived
  <2> QED BY <1>5, <2>2 DEF VideoWriter, Pending
<1> QED BY <1>1, <1>2, <1>3, <1>4, <1>5 DEF Next, vars, Handshake, BrowserDraws

(* The command loop takes exactly the commands of the browser, each once,  *)
(* whole and in order: for any commands, while messages arrive whole and   *)
(* fit into the reader's buffer.                                           *)
THEOREM CommandsAreWhole ==
  ASSUME WholeMessages
  PROVE  Spec => []CommandsWhole
<1>1. Init => CommandInv /\ Pending
  BY CommandInit, EmptySeq DEF Pending, Init, CommandsInit
<1>2. CommandInv /\ Pending /\ [Next]_vars => (CommandInv /\ Pending)'
  BY CommandStep
<1>3. CommandInv => CommandsWhole
  BY DEF CommandInv
<1> QED BY <1>1, <1>2, <1>3, PTL DEF Spec

-----------------------------------------------------------------------------
(* The handshake.                                                          *)

At(s, b, answers, asked) ==
  server = s /\ browser = b /\ toBrowser = answers /\ toServer = asked

(* How far both are, while the browser is there.                           *)
Beginning ==
  \/ At("greet", "ProtocolVersion", <<>>, <<>>)
  \/ At("version", "ProtocolVersion", <<"greeting">>, <<>>)
  \/ At("version", "Security", <<>>, <<IF version = 0 THEN "no version" ELSE "version">>)

Refused == version = 0 /\ At("closed", "Security", <<>>, <<>>)

Before7 ==
  /\ version \in 1 .. 6
  /\ At("shared", "Security", <<"scheme">>, <<>>)

Offered ==
  /\ version >= 7
  /\ At("security", "Security", <<"types">>, <<>>)

In7 ==
  /\ version = 7
  /\ At("security", "ServerInitialisation", <<>>, <<"security", "shared">>)

After7 ==
  /\ version >= 8
  /\ \/ At("security", "SecurityResult", <<>>, <<"security">>)
     \/ At("shared", "SecurityResult", <<"result">>, <<>>)

Ending ==
  \/ At("shared", "ServerInitialisation", <<>>, <<"shared">>)
  \/ At("loop", "ServerInitialisation", <<"init">>, <<>>)
  \/ At("loop", "normal", <<>>, <<>>)

Phase == Beginning \/ Refused \/ Before7 \/ Offered \/ In7 \/ After7 \/ Ending

FewOnTheWay ==
  /\ Len(toBrowser) + Len(toServer) <= 2
  /\ server = "greet" => toServer = <<>>

HandshakeInv == HandshakeTypeOK /\ FewOnTheWay /\ (browser # "gone" => Phase)

LEMMA PhaseTypes ==
  ASSUME version \in Versions, Phase
  PROVE  HandshakeTypeOK /\ FewOnTheWay
<1>1. /\ server \in ServerStates /\ browser \in BrowserStates
      /\ server = "greet" => toServer = <<>>
  BY DEF Phase, Beginning, Refused, Before7, Offered, In7, After7, Ending, At, ServerStates,
         BrowserStates
<1>2. /\ toBrowser \in {<<>>, <<"greeting">>, <<"scheme">>, <<"types">>, <<"result">>, <<"init">>}
      /\ toServer = <<>> \/ toBrowser = <<>>
      /\ toServer \in {<<>>, <<"no version">>, <<"version">>, <<"security">>, <<"shared">>,
                       <<"security", "shared">>}
  BY DEF Phase, Beginning, Refused, Before7, Offered, In7, After7, Ending, At
<1>3. /\ toBrowser \in Seq(ServerSays) /\ Len(toBrowser) \in Nat /\ Len(toBrowser) <= 1
      /\ toBrowser = <<>> => Len(toBrowser) = 0
  <2>1. ASSUME NEW m \in ServerSays PROVE <<m>> \in Seq(ServerSays) /\ Len(<<m>>) = 1
    OBVIOUS
  <2>2. toBrowser = <<>> \/ \E m \in ServerSays : toBrowser = <<m>>
    BY <1>2 DEF ServerSays
  <2>3. <<>> \in Seq(ServerSays) /\ Len(<<>>) = 0
    BY EmptySeq
  <2>4. CASE toBrowser = <<>>
    BY <2>3, <2>4
  <2>5. CASE \E m \in ServerSays : toBrowser = <<m>>
    BY <2>1, <2>5
  <2> QED BY <2>2, <2>4, <2>5
<1>4. /\ toServer \in Seq(BrowserSays) /\ Len(toServer) \in Nat /\ Len(toServer) <= 2
      /\ toServer = <<>> => Len(toServer) = 0
  <2>1. ASSUME NEW m \in BrowserSays PROVE <<m>> \in Seq(BrowserSays) /\ Len(<<m>>) = 1
    OBVIOUS
  <2>2. ASSUME NEW m \in BrowserSays, NEW n \in BrowserSays
        PROVE  <<m, n>> \in Seq(BrowserSays) /\ Len(<<m, n>>) = 2
    OBVIOUS
  <2>3. \/ toServer = <<>> \/ \E m \in BrowserSays : toServer = <<m>>
        \/ \E m, n \in BrowserSays : toServer = <<m, n>>
    BY <1>2 DEF BrowserSays
  <2>4. <<>> \in Seq(BrowserSays) /\ Len(<<>>) = 0
    BY EmptySeq
  <2>5. CASE toServer = <<>>
    BY <2>4, <2>5
  <2>6. CASE \E m \in BrowserSays : toServer = <<m>>
    BY <2>1, <2>6
  <2>7. CASE \E m, n \in BrowserSays : toServer = <<m, n>>
    BY <2>2, <2>7
  <2> QED BY <2>3, <2>5, <2>6, <2>7
<1>5. Len(toBrowser) + Len(toServer) <= 2
  <2>1. toServer = <<>> \/ toBrowser = <<>>
    BY <1>2
  <2> QED BY <1>3, <1>4, <2>1
<1> QED BY <1>1, <1>3, <1>4, <1>5 DEF HandshakeTypeOK, FewOnTheWay

LEMMA Literals ==
  /\ \A m : Head(<<m>>) = m /\ Tail(<<m>>) = <<>> /\ <<m>> # <<>>
  /\ \A m : Append(<<>>, m) = <<m>> /\ <<>> \o <<m>> = <<m>>
  /\ \A m, n : Head(<<m, n>>) = m /\ Tail(<<m, n>>) = <<n>> /\ <<m, n>> # <<>>
               /\ <<>> \o <<m, n>> = <<m, n>>
OBVIOUS

(* What the server can read where it is.                                   *)
LEMMA Readable ==
  ASSUME version \in Nat, Phase, toServer # <<>>
  PROVE  /\ toBrowser = <<>>
         /\ server = "version" =>
              browser = "Security" /\ toServer = <<IF version = 0 THEN "no version" ELSE "version">>
         /\ server = "security" =>
              \/ version = 7 /\ browser = "ServerInitialisation" /\ toServer = <<"security", "shared">>
              \/ version >= 8 /\ browser = "SecurityResult" /\ toServer = <<"security">>
         /\ server = "shared" => browser = "ServerInitialisation" /\ toServer = <<"shared">>
BY DEF Phase, Beginning, Refused, Before7, Offered, In7, After7, Ending, At

LEMMA PhaseServer ==
  ASSUME version \in Nat, Phase, HandshakeServer
  PROVE  Phase'
<1>1. CASE Greet
  <2>1. At("greet", "ProtocolVersion", <<>>, <<>>)
    BY <1>1 DEF Greet, Phase, Beginning, Refused, Before7, Offered, In7, After7, Ending, At
  <2> QED BY <1>1, <2>1 DEF Greet, Phase, Beginning, At
<1>2. CASE Refuse
  <2>1. /\ toBrowser = <<>> /\ browser = "Security"
        /\ toServer = <<IF version = 0 THEN "no version" ELSE "version">>
        /\ Head(toServer) = "no version" /\ toServer' = Tail(toServer) /\ server' = "closed"
        /\ UNCHANGED <<version, browser, toBrowser>>
    BY <1>2, Readable DEF Refuse, ServerReads
  <2>2. PICK m : m = (IF version = 0 THEN "no version" ELSE "version") /\ toServer = <<m>>
    BY <2>1
  <2>3. m = "no version" /\ toServer' = <<>>
    BY <2>1, <2>2, Literals
  <2>4. version = 0
    BY <2>2, <2>3
  <2> QED BY <2>1, <2>3, <2>4 DEF Phase, Refused, At
<1>3. CASE OfferTypes
  <2>1. /\ toBrowser = <<>> /\ browser = "Security" /\ version >= 7
        /\ toServer = <<IF version = 0 THEN "no version" ELSE "version">>
        /\ toServer' = Tail(toServer) /\ server' = "security"
        /\ toBrowser' = Append(toBrowser, "types") /\ UNCHANGED <<version, browser>>
    BY <1>3, Readable DEF OfferTypes, ServerReads
  <2>2. toServer' = <<>> /\ toBrowser' = <<"types">>
    BY <2>1, Literals
  <2> QED BY <2>1, <2>2 DEF Phase, Offered, At
<1>4. CASE DecideScheme
  <2>1. /\ toBrowser = <<>> /\ browser = "Security" /\ version < 7
        /\ toServer = <<IF version = 0 THEN "no version" ELSE "version">>
        /\ Head(toServer) = "version" /\ toServer' = Tail(toServer) /\ server' = "shared"
        /\ toBrowser' = Append(toBrowser, "scheme") /\ UNCHANGED <<version, browser>>
    BY <1>4, Readable DEF DecideScheme, ServerReads
  <2>2. PICK m : m = (IF version = 0 THEN "no version" ELSE "version") /\ toServer = <<m>>
    BY <2>1
  <2>3. m = "version" /\ toServer' = <<>> /\ toBrowser' = <<"scheme">>
    BY <2>1, <2>2, Literals
  <2>4. version # 0
    BY <2>2, <2>3
  <2>5. version < 7
    BY <2>1
  <2>6. version \in 1 .. 6
    BY <2>4, <2>5
  <2> QED BY <2>1, <2>3, <2>6 DEF Phase, Before7, At
<1>5. CASE ReadSecurity
  <2>1. /\ server = "security" /\ toServer # <<>> /\ toServer' = Tail(toServer) /\ server' = "shared"
        /\ toBrowser' = IF version >= 8 THEN Append(toBrowser, "result") ELSE toBrowser
        /\ UNCHANGED <<version, browser>>
    BY <1>5 DEF ReadSecurity, ServerReads, ResultFrom
  <2>2. toBrowser = <<>>
    BY <2>1, Readable
  <2>3. CASE version = 7 /\ browser = "ServerInitialisation" /\ toServer = <<"security", "shared">>
    <3>1. toServer' = <<"shared">> /\ toBrowser' = <<>>
      BY <2>1, <2>2, <2>3, Literals
    <3> QED BY <2>1, <2>3, <3>1 DEF Phase, Ending, At
  <2>4. CASE version >= 8 /\ browser = "SecurityResult" /\ toServer = <<"security">>
    <3>1. toServer' = <<>> /\ toBrowser' = <<"result">>
      BY <2>1, <2>2, <2>4, Literals
    <3> QED BY <2>1, <2>4, <3>1 DEF Phase, After7, At
  <2> QED BY <2>1, <2>3, <2>4, Readable
<1>6. CASE ReadShared
  <2>1. /\ server = "shared" /\ toServer # <<>> /\ toServer' = Tail(toServer) /\ server' = "loop"
        /\ toBrowser' = Append(toBrowser, "init") /\ UNCHANGED <<version, browser>>
    BY <1>6 DEF ReadShared, ServerReads
  <2>2. toBrowser = <<>> /\ browser = "ServerInitialisation" /\ toServer = <<"shared">>
    BY <2>1, Readable
  <2>3. toServer' = <<>> /\ toBrowser' = <<"init">>
    BY <2>1, <2>2, Literals
  <2> QED BY <2>1, <2>2, <2>3 DEF Phase, Ending, At
<1>7. CASE ReadFails
  BY <1>7 DEF ReadFails, Phase, Beginning, Refused, Before7, Offered, In7, After7, Ending, At
<1> QED BY <1>1, <1>2, <1>3, <1>4, <1>5, <1>6, <1>7 DEF HandshakeServer

(* What the browser finds is what it expects.                              *)
LEMMA Expected ==
  ASSUME version \in Nat, Phase, TakeMessage
  PROVE  /\ toServer = <<>>
         /\ \/ /\ browser = "ProtocolVersion" /\ toBrowser = <<"greeting">> /\ server = "version"
            \/ /\ browser = "Security" /\ toBrowser = <<"scheme">> /\ server = "shared"
               /\ version \in 1 .. 6
            \/ /\ browser = "Security" /\ toBrowser = <<"types">> /\ server = "security"
               /\ version >= 7
            \/ /\ browser = "SecurityResult" /\ toBrowser = <<"result">> /\ server = "shared"
               /\ version >= 8
            \/ /\ browser = "ServerInitialisation" /\ toBrowser = <<"init">> /\ server = "loop"
BY DEF TakeMessage, InHandshake, Phase, Beginning, Refused, Before7, Offered, In7, After7, Ending, At

LEMMA PhaseBrowser ==
  ASSUME version \in Nat, Phase, TakeMessage
  PROVE  Phase'
<1>1. /\ toBrowser' = Tail(toBrowser) /\ UNCHANGED <<version, server>>
      /\ \/ Head(toBrowser) = Expects /\ browser' = After /\ toServer' = toServer \o Answer
         \/ Head(toBrowser) # Expects
  BY DEF TakeMessage
<1>2. toServer = <<>>
  BY Expected
<1>3. CASE browser = "ProtocolVersion" /\ toBrowser = <<"greeting">> /\ server = "version"
  <2>1. /\ Expects = "greeting" /\ After = "Security"
        /\ Answer = <<IF version = 0 THEN "no version" ELSE "version">>
    BY <1>3 DEF Expects, After, Answer
  <2>2. /\ toBrowser' = <<>> /\ browser' = "Security"
        /\ toServer' = <<IF version = 0 THEN "no version" ELSE "version">>
    BY <1>1, <1>2, <1>3, <2>1, Literals
  <2> QED BY <1>1, <1>3, <2>2 DEF Phase, Beginning, At
<1>4. CASE browser = "Security" /\ toBrowser = <<"scheme">> /\ server = "shared" /\ version \in 1 .. 6
  <2>1. Expects = "scheme" /\ After = "ServerInitialisation" /\ Answer = <<"shared">>
    BY <1>4 DEF Expects, After, Answer
  <2>2. toBrowser' = <<>> /\ browser' = "ServerInitialisation" /\ toServer' = <<"shared">>
    BY <1>1, <1>2, <1>4, <2>1, Literals
  <2> QED BY <1>1, <1>4, <2>2 DEF Phase, Ending, At
<1>5. CASE browser = "Security" /\ toBrowser = <<"types">> /\ server = "security" /\ version >= 7
  <2>1. CASE version = 7
    <3>1. Expects = "types" /\ After = "ServerInitialisation" /\ Answer = <<"security", "shared">>
      BY <1>5, <2>1 DEF Expects, After, Answer
    <3>2. toBrowser' = <<>> /\ browser' = "ServerInitialisation" /\ toServer' = <<"security", "shared">>
      BY <1>1, <1>2, <1>5, <3>1, Literals
    <3> QED BY <1>1, <1>5, <2>1, <3>2 DEF Phase, In7, At
  <2>2. CASE version >= 8
    <3>1. Expects = "types" /\ After = "SecurityResult" /\ Answer = <<"security">>
      BY <1>5, <2>2 DEF Expects, After, Answer
    <3>2. toBrowser' = <<>> /\ browser' = "SecurityResult" /\ toServer' = <<"security">>
      BY <1>1, <1>2, <1>5, <3>1, Literals
    <3> QED BY <1>1, <1>5, <2>2, <3>2 DEF Phase, After7, At
  <2> QED BY <1>5, <2>1, <2>2
<1>6. CASE browser = "SecurityResult" /\ toBrowser = <<"result">> /\ server = "shared" /\ version >= 8
  <2>1. Expects = "result" /\ After = "ServerInitialisation" /\ Answer = <<"shared">>
    BY <1>6 DEF Expects, After, Answer
  <2>2. toBrowser' = <<>> /\ browser' = "ServerInitialisation" /\ toServer' = <<"shared">>
    BY <1>1, <1>2, <1>6, <2>1, Literals
  <2> QED BY <1>1, <1>6, <2>2 DEF Phase, Ending, At
<1>7. CASE browser = "ServerInitialisation" /\ toBrowser = <<"init">> /\ server = "loop"
  <2>1. Expects = "init" /\ After = "normal" /\ Answer = <<>>
    BY <1>7 DEF Expects, After, Answer
  <2>2. toBrowser' = <<>> /\ browser' = "normal" /\ toServer' = <<>>
    BY <1>1, <1>2, <1>7, <2>1, Literals
  <2> QED BY <1>1, <1>7, <2>2 DEF Phase, Ending, At
<1> QED BY <1>3, <1>4, <1>5, <1>6, <1>7, Expected

(* A server whose browser has gone reads what there still is.              *)
LEMMA ServerAlone ==
  ASSUME HandshakeInv, browser = "gone", HandshakeServer
  PROVE  HandshakeTypeOK' /\ FewOnTheWay' /\ browser' = "gone"
<1> PICK d \in Nat, u \in Nat : d = Len(toBrowser) /\ u = Len(toServer)
  BY LenProperties DEF HandshakeInv, HandshakeTypeOK
<1>1. /\ version \in Versions /\ toBrowser \in Seq(ServerSays) /\ toServer \in Seq(BrowserSays)
      /\ d + u <= 2 /\ (server = "greet" => toServer = <<>>)
  BY DEF HandshakeInv, HandshakeTypeOK, FewOnTheWay
<1>2. CASE Greet
  <2>1. <<"greeting">> \in Seq(ServerSays) /\ Len(<<"greeting">>) = 1 /\ Len(<<>>) = 0
    BY DEF ServerSays
  <2>2. toServer = <<>> /\ toBrowser' = <<"greeting">> /\ server' = "version" /\ UNCHANGED <<version, browser, toServer>>
    BY <1>1, <1>2 DEF Greet
  <2>3. Len(toBrowser') = 1 /\ Len(toServer') = 0 /\ toBrowser' \in Seq(ServerSays) /\ toServer' \in Seq(BrowserSays)
    BY <1>1, <2>1, <2>2
  <2> QED BY <1>1, <2>2, <2>3 DEF HandshakeInv, HandshakeTypeOK, FewOnTheWay, ServerStates
<1>3. CASE ReadFails
  BY <1>1, <1>3 DEF ReadFails, HandshakeInv, HandshakeTypeOK, FewOnTheWay, ServerStates
<1>4. CASE Refuse \/ OfferTypes \/ DecideScheme \/ ReadSecurity \/ ReadShared
  <2>1. /\ toServer # <<>> /\ toServer' = Tail(toServer) /\ UNCHANGED <<version, browser>>
        /\ server' \in {"closed", "security", "shared", "loop"}
        /\ toBrowser' = toBrowser \/ \E m \in ServerSays : toBrowser' = Append(toBrowser, m)
    BY <1>4 DEF Refuse, OfferTypes, DecideScheme, ReadSecurity, ReadShared, ServerReads, ServerSays
  <2>2. toServer' \in Seq(BrowserSays) /\ Len(toServer') = u - 1 /\ u >= 1
    BY <1>1, <2>1, HeadTailProperties, EmptySeq
  <2>3. toBrowser' \in Seq(ServerSays) /\ Len(toBrowser') \in {d, d + 1}
    <3>1. toBrowser \in Seq(ServerSays)
      BY <1>1
    <3>2. ASSUME NEW m \in ServerSays
          PROVE  Append(toBrowser, m) \in Seq(ServerSays) /\ Len(Append(toBrowser, m)) = d + 1
      BY <3>1, AppendProperties
    <3> QED BY <2>1, <3>1, <3>2
  <2>4. d + u <= 2
    BY <1>1
  <2>5. Len(toBrowser') <= 2 /\ Len(toServer') <= 2 /\ Len(toBrowser') + Len(toServer') <= 2
    BY <2>2, <2>3, <2>4
  <2> QED BY <1>1, <2>1, <2>2, <2>3, <2>5 DEF HandshakeInv, HandshakeTypeOK, FewOnTheWay, ServerStates
<1> QED BY <1>2, <1>3, <1>4 DEF HandshakeServer

LEMMA HandshakeBegins == Init => HandshakeInv
<1> SUFFICES ASSUME Init PROVE HandshakeInv
  OBVIOUS
<1>1. version \in Versions /\ Phase
  BY DEF Init, HandshakeInit, Phase, Beginning, At
<1> QED BY <1>1, PhaseTypes DEF HandshakeInv

LEMMA HandshakeStep == HandshakeInv /\ [Next]_vars => HandshakeInv'
<1> SUFFICES ASSUME HandshakeInv, [Next]_vars PROVE HandshakeInv'
  OBVIOUS
<1>1. version \in Versions /\ version \in Nat
  BY VersionAssumption DEF HandshakeInv, HandshakeTypeOK
<1>2. CASE UNCHANGED handshakeVars
  BY <1>2 DEF handshakeVars, HandshakeInv, HandshakeTypeOK, FewOnTheWay, Phase, Beginning, Refused,
              Before7, Offered, In7, After7, Ending, At
<1>3. ASSUME Phase', version' = version PROVE HandshakeInv'
  <2>1. (version \in Versions /\ Phase => HandshakeTypeOK /\ FewOnTheWay)'
    BY PhaseTypes, PTL
  <2> QED BY <1>1, <1>3, <2>1 DEF HandshakeInv
<1>4. CASE HandshakeServer
  <2>1. version' = version
    BY <1>4 DEF HandshakeServer, Greet, Refuse, OfferTypes, DecideScheme, ReadSecurity, ReadShared,
                ReadFails, ServerReads
  <2>2. CASE browser = "gone"
    BY <1>4, <2>2, ServerAlone DEF HandshakeInv
  <2>3. CASE browser # "gone"
    BY <1>1, <1>3, <1>4, <2>1, <2>3, PhaseServer DEF HandshakeInv
  <2> QED BY <2>2, <2>3
<1>5. CASE TakeMessage
  <2>1. browser # "gone" /\ version' = version
    BY <1>5 DEF TakeMessage, InHandshake
  <2> QED BY <1>1, <1>3, <1>5, <2>1, PhaseBrowser DEF HandshakeInv
<1>6. CASE LeaveEarly
  BY <1>6 DEF LeaveEarly, HandshakeInv, HandshakeTypeOK, FewOnTheWay, BrowserStates
<1> QED BY <1>2, <1>4, <1>5, <1>6
        DEF Next, Handshake, HandshakeNext, vars, BrowserSends, Transport, CommandLoop, VideoWriter,
            BrowserDraws

(* Both ends stay in the same protocol, whatever version the browser       *)
(* answers with, and when the browser begins the command loop runs and     *)
(* nothing of the handshake is left on the wire.                           *)
THEOREM BothEndsAgree ==
  ASSUME WholeMessages
  PROVE  Spec => []BothAgree
<1> DEFINE Inv == HandshakeInv /\ CommandInv /\ Pending /\ WireInv
<1>1. Init => Inv
  BY HandshakeBegins, CommandInit, WireInit, EmptySeq DEF Pending, Init, CommandsInit
<1>2. Inv /\ [Next]_vars => Inv'
  BY HandshakeStep, CommandStep, WireStep
<1>3. Inv => BothAgree
  <2> SUFFICES ASSUME Inv PROVE BothAgree
    OBVIOUS
  <2>1. HandshakeTypeOK /\ SameProtocol /\ BothReady
    BY DEF HandshakeInv, SameProtocol, BothReady, Phase, Beginning, Refused, Before7, Offered, In7,
           After7, Ending, At
  <2>2. CommandsTypeOK /\ UpdatesTypeOK
    BY DEF CommandInv, WireInv
  <2>3. pendingVideoUpdates \in 0 .. MaxSent
    BY CommandFacts DEF Pending
  <2> QED BY <2>1, <2>2, <2>3 DEF BothAgree, TypeOK
<1> QED BY <1>1, <1>2, <1>3, PTL DEF Spec

-----------------------------------------------------------------------------
(* From here on: BrowserPage.                                              *)

Rfb ==
  [host : Hosts, state : {"connect", "normal", "disconnect", "disconnected", "failed"},
   socket : {"opening", "open", "closing", "closed"},
   disconnTimer : BOOLEAN, failTimer : BOOLEAN]

(* The page is about the hosts one after the other.                        *)
InTurn == pageFaults \subseteq {"form hidden"}

(* A host has one request under way at most.                               *)
OneRequest == InTurn => \A h \in Hosts : posts[h] + polls[h] <= 1

(* While the host of the page is polled, the form is hidden: nobody can    *)
(* ask for it again.                                                       *)
FormHidden == InTurn => \A h \in Hosts : h = rfbhost /\ polls[h] > 0 => ~form

(* A live console is that of the page, of its host, which nothing is asked *)
(* about any more, and the form is hidden behind it.                       *)
ConsoleAlone ==
  InTurn => \A i \in DOMAIN rfbs : Live(i) =>
    /\ i = rfb /\ rfbs[i].host = rfbhost
    /\ ~Requested(rfbhost) /\ ~form

(* The form and the progress bar are never shown together.                 *)
FormOrProgress == ~(form /\ progress.shown)

PageInv ==
  /\ PageTypeOK /\ AddressIsHost /\ ErrorNamesHost /\ WaitsForAnswer
  /\ OneRequest /\ FormHidden /\ ConsoleAlone /\ FormOrProgress

-----------------------------------------------------------------------------
(* Every end of an RFB object is one, of the same host, and is not live.   *)
LEMMA RfbEnds ==
  ASSUME NEW r \in Rfb
  PROVE  /\ [r EXCEPT !.socket = "closed"] \in Rfb
         /\ [r EXCEPT !.socket = "closed"].host = r.host
         /\ [r EXCEPT !.socket = "closed"].state = r.state
         /\ Disconnecting(r) \in Rfb /\ Disconnecting(r).state = "disconnect"
         /\ Failed(r) \in Rfb /\ Failed(r).state = "failed"
         /\ Disconnected(r) \in Rfb /\ Disconnected(r).state \in {"disconnected", "failed"}
         /\ [Disconnected(r) EXCEPT !.failTimer = FALSE] \in Rfb
         /\ [Disconnected(r) EXCEPT !.failTimer = FALSE].state \in {"disconnected", "failed"}
<1>1. Closing(r) \in Rfb
  BY DEF Closing, Rfb
<1> PICK c \in Rfb : c = Closing(r)
  BY <1>1
<1>2. Disconnecting(r) \in Rfb /\ Disconnecting(r).state = "disconnect"
  BY DEF Disconnecting, Rfb
<1>3. Failed(r) \in Rfb /\ Failed(r).state = "failed"
  BY DEF Failed, Rfb
<1>4. Disconnected(r) \in Rfb /\ Disconnected(r).state \in {"disconnected", "failed"}
  BY DEF Disconnected, Rfb
<1> PICK d \in Rfb : d = Disconnected(r)
  BY <1>4
<1>5. /\ [Disconnected(r) EXCEPT !.failTimer = FALSE] \in Rfb
      /\ [Disconnected(r) EXCEPT !.failTimer = FALSE].state \in {"disconnected", "failed"}
  BY <1>4 DEF Rfb
<1>6. /\ [r EXCEPT !.socket = "closed"] \in Rfb
      /\ [r EXCEPT !.socket = "closed"].host = r.host
      /\ [r EXCEPT !.socket = "closed"].state = r.state
  BY DEF Rfb
<1> QED BY <1>2, <1>3, <1>4, <1>5, <1>6

LEMMA RfbsTyped ==
  ASSUME PageTypeOK
  PROVE  rfbs \in Seq(Rfb) /\ \A i \in DOMAIN rfbs : rfbs[i] \in Rfb
<1>1. rfbs \in Seq(Rfb)
  BY DEF PageTypeOK, Rfb
<1> QED BY <1>1

(* One RFB object changes.                                                 *)
LEMMA OneBecomes ==
  ASSUME PageTypeOK, NEW i \in DOMAIN rfbs, NEW r \in Rfb, Becomes(i, r)
  PROVE  /\ rfbs' \in Seq(Rfb) /\ Len(rfbs') = Len(rfbs) /\ DOMAIN rfbs' = DOMAIN rfbs
         /\ rfbs'[i] = r /\ \A j \in DOMAIN rfbs : j # i => rfbs'[j] = rfbs[j]
BY RfbsTyped, ExceptSeq DEF Becomes

(* An RFB object that ends takes no other one's place.                     *)
LEMMA OneEnds ==
  ASSUME PageTypeOK, NEW i \in DOMAIN rfbs, NEW r \in Rfb, Becomes(i, r),
         r.state \notin {"connect", "normal"}
  PROVE  /\ ~Live(i)'
         /\ \A j \in DOMAIN rfbs : Live(j)' => j # i /\ Live(j) /\ rfbs'[j] = rfbs[j]
BY OneBecomes DEF Live

-----------------------------------------------------------------------------
(* What only the RFB objects know of: a console that opens, or one that    *)
(* ends unnoticed, changes nothing for the page.                           *)
RestOfPage == <<rfbhost, hash, popstates, form, progress, alert, posts, polls, rfb, pageFaults>>

LEMMA RfbChanges ==
  ASSUME PageInv, NEW i \in DOMAIN rfbs, NEW r \in Rfb, Becomes(i, r), UNCHANGED RestOfPage,
         r.state \in {"connect", "normal"} => Live(i) /\ r.host = rfbs[i].host
  PROVE  PageInv'
<1>1. /\ rfbs' \in Seq(Rfb) /\ Len(rfbs') = Len(rfbs) /\ DOMAIN rfbs' = DOMAIN rfbs
      /\ rfbs'[i] = r /\ \A j \in DOMAIN rfbs : j # i => rfbs'[j] = rfbs[j]
  BY OneBecomes DEF PageInv
<1>2. PageTypeOK'
  BY <1>1 DEF PageInv, PageTypeOK, RestOfPage, Rfb
<1>3. \A j \in DOMAIN rfbs : Live(j)' => Live(j) /\ rfbs'[j].host = rfbs[j].host
  BY <1>1 DEF Live
<1>4. ConsoleAlone'
  BY <1>1, <1>3 DEF PageInv, ConsoleAlone, InTurn, Requested, RestOfPage
<1>5. (/\ AddressIsHost /\ ErrorNamesHost /\ WaitsForAnswer
       /\ OneRequest /\ FormHidden /\ FormOrProgress)'
  BY DEF PageInv, AddressIsHost, ErrorNamesHost, WaitsForAnswer, OneRequest, FormHidden,
         FormOrProgress, InTurn, Requested, RestOfPage
<1> QED BY <1>2, <1>4, <1>5 DEF PageInv

LEMMA RfbOpensKeeps ==
  ASSUME PageInv, NEW i \in DOMAIN rfbs, RfbOpens(i)
  PROVE  PageInv'
<1> PICK r \in Rfb : r = rfbs[i]
  BY RfbsTyped DEF PageInv
<1> PICK o : o = [r EXCEPT !.state = "normal", !.socket = "open"]
  OBVIOUS
<1>2. o \in Rfb /\ o.host = r.host
  BY DEF Rfb
<1>3. Becomes(i, o) /\ UNCHANGED RestOfPage /\ Live(i)
  BY DEF RfbOpens, RestOfPage, Live
<1> QED BY <1>2, <1>3, RfbChanges

LEMMA FailTimerKeeps ==
  ASSUME PageInv, NEW i \in DOMAIN rfbs, FailTimer(i)
  PROVE  PageInv'
<1> PICK r \in Rfb : r = rfbs[i]
  BY RfbsTyped DEF PageInv
<1> PICK o : o = [Disconnected(r) EXCEPT !.failTimer = FALSE]
  OBVIOUS
<1>2. o \in Rfb /\ o.state \notin {"connect", "normal"}
  BY RfbEnds
<1>3. Becomes(i, o) /\ UNCHANGED RestOfPage
  BY DEF FailTimer, RestOfPage
<1> QED BY <1>2, <1>3, RfbChanges

(* The address is left: what the error does to the page.                   *)
LEMMA ErrorShown ==
  ASSUME PageTypeOK, AddressIsHost, NEW names \in Addresses, NEW host \in Addresses,
         ShowError(names, host), UNCHANGED rfbhost
  PROVE  /\ AddressIsHost' /\ hash' \in Addresses /\ popstates' \in Nat
         /\ form' = TRUE /\ progress' \in [shown : BOOLEAN, host : Addresses]
         /\ progress'.shown = FALSE
         /\ alert' \in [names : Addresses, of : Addresses] /\ alert'.names = names /\ alert'.of = host
<1>1. hash' = NoHost /\ NoHost \in Addresses
  BY DEF ShowError, GoTo, Addresses
<1>2. popstates' \in Nat /\ (popstates' = 0 => popstates = 0 /\ hash = NoHost)
  <2>1. popstates' = popstates + (IF NoHost # hash THEN 1 ELSE 0) /\ popstates \in Nat
    BY DEF ShowError, GoTo, PageTypeOK
  <2> QED BY <2>1
<1>3. AddressIsHost'
  BY <1>1, <1>2 DEF AddressIsHost
<1>4. progress' \in [shown : BOOLEAN, host : Addresses] /\ progress'.shown = FALSE
  BY DEF ShowError, PageTypeOK
<1>5. alert' \in [names : Addresses, of : Addresses] /\ alert'.names = names /\ alert'.of = host
  BY DEF ShowError
<1> QED BY <1>1, <1>2, <1>3, <1>4, <1>5 DEF ShowError

(* A console fails: that of the page while it is about the hosts in turn.  *)
LEMMA RfbFailsKeeps ==
  ASSUME PageInv, NEW i \in DOMAIN rfbs, NEW r \in Rfb, r.host = rfbs[i].host,
         RfbFails(i, r), (pageFaults' = pageFaults /\ Live(i)) \/ pageFaults' = pageFaults \cup {"slow"}
  PROVE  PageInv'
<1>1. Failed(r) \in Rfb /\ Failed(r).state = "failed" /\ r.host \in Addresses /\ rfbhost \in Addresses
  BY RfbEnds DEF Rfb, Addresses, PageInv, PageTypeOK
<1> PICK f \in Rfb : f = Failed(r)
  BY <1>1
<1>2. /\ Becomes(i, f) /\ f.state \notin {"connect", "normal"} /\ ShowError(rfbhost, r.host)
      /\ UNCHANGED <<rfbhost, posts, polls, rfb>>
  BY <1>1 DEF RfbFails
<1>3. /\ rfbs' \in Seq(Rfb) /\ Len(rfbs') = Len(rfbs) /\ DOMAIN rfbs' = DOMAIN rfbs
      /\ \A j \in DOMAIN rfbs : Live(j)' => j # i /\ Live(j) /\ rfbs'[j] = rfbs[j]
  BY <1>2, OneBecomes, OneEnds DEF PageInv
<1>4. /\ AddressIsHost' /\ hash' \in Addresses /\ popstates' \in Nat
      /\ form' = TRUE /\ progress' \in [shown : BOOLEAN, host : Addresses]
      /\ progress'.shown = FALSE
      /\ alert' \in [names : Addresses, of : Addresses] /\ alert'.names = rfbhost /\ alert'.of = r.host
  BY <1>1, <1>2, ErrorShown DEF PageInv
<1>5. PageTypeOK'
  BY <1>2, <1>3, <1>4 DEF PageInv, PageTypeOK, Rfb
<1>6. InTurn' => InTurn /\ Live(i)
  <2>1. pageFaults' = pageFaults \cup {"slow"} => ~InTurn'
    <3> SUFFICES ASSUME pageFaults' = pageFaults \cup {"slow"}, InTurn' PROVE FALSE
      OBVIOUS
    <3>1. "slow" \in pageFaults' /\ "slow" \notin {"form hidden"}
      OBVIOUS
    <3> QED BY <3>1 DEF InTurn
  <2> QED BY <2>1 DEF InTurn
<1>7. InTurn' => \A j \in DOMAIN rfbs : ~Live(j)'
  BY <1>3, <1>6 DEF PageInv, ConsoleAlone
<1>8. ConsoleAlone'
  BY <1>3, <1>7 DEF ConsoleAlone
<1>9. ErrorNamesHost'
  <2>1. InTurn' => r.host = rfbhost
    BY <1>6 DEF PageInv, ConsoleAlone
  <2> QED BY <1>4, <2>1 DEF ErrorNamesHost, InTurn
<1>10. InTurn' => ~Requested(rfbhost) /\ rfbhost \in Hosts
  BY <1>6 DEF PageInv, ConsoleAlone, Rfb
<1>11. OneRequest' /\ FormHidden'
  <2>1. OneRequest'
    BY <1>2, <1>6 DEF PageInv, OneRequest
  <2>2. \A h \in Hosts : InTurn' /\ h = rfbhost => polls[h] = 0
    <3> SUFFICES ASSUME NEW h \in Hosts, InTurn', h = rfbhost PROVE polls[h] = 0
      OBVIOUS
    <3>1. posts[h] \in Nat /\ polls[h] \in Nat
      BY DEF PageInv, PageTypeOK
    <3> QED BY <1>10, <3>1 DEF Requested
  <2> QED BY <1>2, <2>1, <2>2 DEF FormHidden
<1>12. FormOrProgress' /\ WaitsForAnswer'
  BY <1>4 DEF FormOrProgress, WaitsForAnswer
<1> QED BY <1>4, <1>5, <1>8, <1>9, <1>11, <1>12 DEF PageInv

LEMMA RfbClosesKeeps ==
  ASSUME PageInv, NEW i \in DOMAIN rfbs, RfbCloses(i)
  PROVE  PageInv'
<1> PICK r \in Rfb : r = rfbs[i]
  BY RfbsTyped DEF PageInv
<1> PICK c : c = [r EXCEPT !.socket = "closed"]
  OBVIOUS
<1>2. c \in Rfb /\ c.host = r.host /\ c.state = r.state
  BY RfbEnds
<1>3. Disconnected(c) \in Rfb /\ Disconnected(c).state \notin {"connect", "normal"}
  BY <1>2, RfbEnds
<1>4. \/ Live(i) /\ RfbFails(i, c) /\ UNCHANGED pageFaults
      \/ Becomes(i, Disconnected(c)) /\ UNCHANGED RestOfPage
      \/ ~Live(i) /\ Becomes(i, c) /\ UNCHANGED RestOfPage
  BY DEF RfbCloses, RestOfPage
<1>5. CASE Live(i) /\ RfbFails(i, c) /\ UNCHANGED pageFaults
  BY <1>2, <1>5, RfbFailsKeeps
<1>6. CASE Becomes(i, Disconnected(c)) /\ UNCHANGED RestOfPage
  BY <1>3, <1>6, RfbChanges
<1>7. CASE ~Live(i) /\ Becomes(i, c) /\ UNCHANGED RestOfPage
  <2>1. c.state \notin {"connect", "normal"}
    BY <1>2, <1>7 DEF Live
  <2> QED BY <1>2, <1>7, <2>1, RfbChanges
<1> QED BY <1>4, <1>5, <1>6, <1>7

LEMMA DisconnTimerKeeps ==
  ASSUME PageInv, NEW i \in DOMAIN rfbs, DisconnTimer(i)
  PROVE  PageInv'
<1>1. rfbs[i] \in Rfb
  BY RfbsTyped DEF PageInv
<1> QED BY <1>1, RfbFailsKeeps DEF DisconnTimer

-----------------------------------------------------------------------------
(* Requests and their answers.                                             *)
LEMMA Counts ==
  ASSUME PageTypeOK
  PROVE  /\ posts \in [Hosts -> Nat] /\ polls \in [Hosts -> Nat]
         /\ \A h \in Hosts : posts[h] \in Nat /\ polls[h] \in Nat
BY DEF PageTypeOK

(* One request more or less of one host.                                   *)
LEMMA OneMore ==
  ASSUME NEW f \in [Hosts -> Nat], NEW h \in Hosts
  PROVE  /\ [f EXCEPT ![h] = @ + 1] \in [Hosts -> Nat]
         /\ [f EXCEPT ![h] = @ + 1][h] = f[h] + 1
         /\ \A g \in Hosts : g # h => [f EXCEPT ![h] = @ + 1][g] = f[g]
OBVIOUS

LEMMA OneLess ==
  ASSUME NEW f \in [Hosts -> Nat], NEW h \in Hosts, f[h] > 0
  PROVE  /\ [f EXCEPT ![h] = @ - 1] \in [Hosts -> Nat]
         /\ [f EXCEPT ![h] = @ - 1][h] = f[h] - 1
         /\ \A g \in Hosts : g # h => [f EXCEPT ![h] = @ - 1][g] = f[g]
<1>1. f[h] - 1 \in Nat
  OBVIOUS
<1> QED BY <1>1

LEMMA FewerRequests ==
  ASSUME PageTypeOK, OneRequest, UNCHANGED pageFaults,
         posts' \in [Hosts -> Nat], polls' \in [Hosts -> Nat],
         \A g \in Hosts : posts'[g] <= posts[g] /\ polls'[g] <= polls[g]
  PROVE  OneRequest'
<1> SUFFICES ASSUME InTurn, NEW g \in Hosts PROVE posts'[g] + polls'[g] <= 1
  BY DEF OneRequest, InTurn
<1>1. posts[g] + polls[g] <= 1
  BY DEF OneRequest
<1>2. posts[g] \in Nat /\ polls[g] \in Nat /\ posts'[g] \in Nat /\ polls'[g] \in Nat
  BY Counts
<1>3. posts'[g] <= posts[g] /\ polls'[g] <= polls[g]
  OBVIOUS
<1> QED BY <1>1, <1>2, <1>3

(* A request about another host ends: the page does not notice.            *)
LEMMA DropKeeps ==
  ASSUME PageInv, NEW h \in Hosts, Stale(h), Drop,
         posts' \in [Hosts -> Nat], polls' \in [Hosts -> Nat],
         \A g \in Hosts : posts'[g] <= posts[g] /\ polls'[g] <= polls[g],
         \A g \in Hosts : g # h => posts'[g] = posts[g] /\ polls'[g] = polls[g]
  PROVE  PageInv'
<1> USE DEF Drop
<1>1. PageTypeOK'
  BY DEF PageInv, PageTypeOK
<1>2. \A g \in Hosts : g = rfbhost => posts'[g] = posts[g] /\ polls'[g] = polls[g]
  BY DEF Stale
<1>3. rfbhost \in Hosts => (Requested(rfbhost)' <=> Requested(rfbhost))
  BY <1>2 DEF Requested
<1>4. OneRequest'
  BY FewerRequests DEF PageInv
<1>5. FormHidden'
  BY <1>2 DEF PageInv, FormHidden, InTurn
<1>6. ConsoleAlone'
  <2> SUFFICES ASSUME InTurn, NEW i \in DOMAIN rfbs, Live(i)
               PROVE  i = rfb /\ rfbs[i].host = rfbhost /\ ~Requested(rfbhost)' /\ ~form
    BY DEF ConsoleAlone, InTurn, Live, Requested
  <2>1. i = rfb /\ rfbs[i].host = rfbhost /\ ~Requested(rfbhost) /\ ~form
    BY DEF PageInv, ConsoleAlone
  <2>2. rfbs[i] \in Rfb
    BY RfbsTyped DEF PageInv
  <2>3. rfbhost \in Hosts
    BY <2>1, <2>2 DEF Rfb
  <2> QED BY <1>3, <2>1, <2>3
<1>7. WaitsForAnswer'
  <2>1. rfbhost # NoHost => rfbhost \in Hosts
    BY DEF PageInv, PageTypeOK, Addresses
  <2> QED BY <1>3, <2>1 DEF PageInv, WaitsForAnswer, Requested
<1>8. AddressIsHost' /\ ErrorNamesHost' /\ FormOrProgress'
  BY DEF PageInv, AddressIsHost, ErrorNamesHost, FormOrProgress
<1> QED BY <1>1, <1>4, <1>5, <1>6, <1>7, <1>8 DEF PageInv

(* The last request about the host of the page ends in an error.           *)
LEMMA ErrorKeeps ==
  ASSUME PageInv, NEW h \in Hosts, h = rfbhost, Requested(h), ShowError(h, h),
         UNCHANGED <<rfbhost, rfbs, rfb, pageFaults>>,
         posts' \in [Hosts -> Nat], polls' \in [Hosts -> Nat],
         \A g \in Hosts : posts'[g] <= posts[g] /\ polls'[g] <= polls[g],
         posts'[h] + polls'[h] < posts[h] + polls[h]
  PROVE  PageInv'
<1>1. /\ AddressIsHost' /\ hash' \in Addresses /\ popstates' \in Nat
      /\ form' = TRUE /\ progress' \in [shown : BOOLEAN, host : Addresses]
      /\ progress'.shown = FALSE
      /\ alert' \in [names : Addresses, of : Addresses] /\ alert'.names = h /\ alert'.of = h
  BY ErrorShown DEF PageInv, Addresses
<1>2. PageTypeOK'
  BY <1>1 DEF PageInv, PageTypeOK
<1>3. OneRequest'
  BY FewerRequests DEF PageInv
<1>4. InTurn => polls'[h] = 0
  <2> SUFFICES ASSUME InTurn PROVE polls'[h] = 0
    OBVIOUS
  <2>1. posts[h] + polls[h] <= 1
    BY DEF PageInv, OneRequest
  <2>2. posts[h] \in Nat /\ polls[h] \in Nat /\ posts'[h] \in Nat /\ polls'[h] \in Nat
    BY Counts DEF PageInv
  <2> QED BY <2>1, <2>2
<1>5. FormHidden'
  <2> SUFFICES ASSUME InTurn, NEW g \in Hosts, g = rfbhost PROVE ~(polls'[g] > 0)
    BY DEF FormHidden, InTurn
  <2> QED BY <1>4
<1>6. InTurn => \A i \in DOMAIN rfbs : ~Live(i)
  BY DEF PageInv, ConsoleAlone
<1>7. ConsoleAlone' /\ ErrorNamesHost' /\ FormOrProgress' /\ WaitsForAnswer'
  BY <1>1, <1>6 DEF ConsoleAlone, ErrorNamesHost, FormOrProgress, WaitsForAnswer, InTurn, Live
<1> QED BY <1>1, <1>2, <1>3, <1>5, <1>7 DEF PageInv

LEMMA RequestFailsKeeps ==
  ASSUME PageInv, NEW h \in Hosts, RequestFails(h)
  PROVE  PageInv'
<1>1. /\ posts \in [Hosts -> Nat] /\ polls \in [Hosts -> Nat]
      /\ \A g \in Hosts : posts[g] \in Nat /\ polls[g] \in Nat
  BY Counts DEF PageInv
<1>2. /\ posts' \in [Hosts -> Nat] /\ polls' \in [Hosts -> Nat]
      /\ \A g \in Hosts : posts'[g] <= posts[g] /\ polls'[g] <= polls[g]
      /\ \A g \in Hosts : g # h => posts'[g] = posts[g] /\ polls'[g] = polls[g]
      /\ posts'[h] + polls'[h] < posts[h] + polls[h]
      /\ Requested(h)
  <2>1. CASE posts[h] > 0 /\ posts' = [posts EXCEPT ![h] = @ - 1] /\ UNCHANGED polls
    <3>1. posts' \in [Hosts -> Nat] /\ posts'[h] = posts[h] - 1 /\ \A g \in Hosts : g # h => posts'[g] = posts[g]
      BY <1>1, <2>1, OneLess
    <3>2. \A g \in Hosts : posts'[g] <= posts[g] /\ polls'[g] <= polls[g]
      BY <1>1, <2>1, <3>1
    <3> QED BY <1>1, <2>1, <3>1, <3>2 DEF Requested
  <2>2. CASE polls[h] > 0 /\ polls' = [polls EXCEPT ![h] = @ - 1] /\ UNCHANGED posts
    <3>1. polls' \in [Hosts -> Nat] /\ polls'[h] = polls[h] - 1 /\ \A g \in Hosts : g # h => polls'[g] = polls[g]
      BY <1>1, <2>2, OneLess
    <3>2. \A g \in Hosts : posts'[g] <= posts[g] /\ polls'[g] <= polls[g]
      BY <1>1, <2>2, <3>1
    <3> QED BY <1>1, <2>2, <3>1, <3>2 DEF Requested
  <2> QED BY <2>1, <2>2 DEF RequestFails
<1>3. CASE Stale(h)
  <2>1. Drop
    BY <1>3 DEF RequestFails
  <2> QED BY <1>2, <1>3, <2>1, DropKeeps
<1>4. CASE ~Stale(h)
  <2>1. h = rfbhost /\ ShowError(h, h) /\ UNCHANGED <<rfbhost, rfbs, rfb, pageFaults>>
    BY <1>4 DEF RequestFails, Stale
  <2> QED BY <1>2, <2>1, ErrorKeeps
<1> QED BY <1>3, <1>4

LEMMA PostAnsweredKeeps ==
  ASSUME PageInv, NEW h \in Hosts, PostAnswered(h)
  PROVE  PageInv'
<1>1. /\ posts \in [Hosts -> Nat] /\ polls \in [Hosts -> Nat]
      /\ \A g \in Hosts : posts[g] \in Nat /\ polls[g] \in Nat
  BY Counts DEF PageInv
<1>2. posts[h] > 0 /\ posts' = [posts EXCEPT ![h] = @ - 1]
  BY DEF PostAnswered
<1>3. /\ posts' \in [Hosts -> Nat] /\ posts'[h] = posts[h] - 1
      /\ \A g \in Hosts : g # h => posts'[g] = posts[g]
  BY <1>1, <1>2, OneLess
<1>4. \A g \in Hosts : posts'[g] <= posts[g]
  BY <1>1, <1>3
<1>5. Requested(h)
  BY <1>1, <1>2 DEF Requested
<1>6. CASE Stale(h) /\ Drop /\ UNCHANGED polls
  BY <1>1, <1>3, <1>4, <1>6, DropKeeps
<1>7. CASE /\ ~Stale(h) /\ Connecting(h) /\ PollAgain(h)
           /\ UNCHANGED <<rfbhost, hash, popstates, alert, rfbs, rfb, pageFaults>>
  <2>1. h = rfbhost /\ form' = FALSE /\ progress' = [shown |-> TRUE, host |-> h]
    BY <1>7 DEF Stale, Connecting
  <2>2. /\ polls' \in [Hosts -> Nat] /\ polls'[h] = polls[h] + 1
        /\ \A g \in Hosts : g # h => polls'[g] = polls[g]
    BY <1>1, <1>7, OneMore DEF PollAgain
  <2>3. PageTypeOK'
    BY <1>3, <1>7, <2>1, <2>2 DEF PageInv, PageTypeOK, Addresses
  <2>4. OneRequest'
    <3> SUFFICES ASSUME InTurn, NEW g \in Hosts PROVE posts'[g] + polls'[g] <= 1
      BY <1>7 DEF OneRequest, InTurn
    <3>1. posts[g] + polls[g] <= 1
      BY DEF PageInv, OneRequest
    <3> QED BY <1>1, <1>3, <2>2, <3>1
  <2>5. InTurn => \A i \in DOMAIN rfbs : ~Live(i)
    BY <1>5, <2>1 DEF PageInv, ConsoleAlone
  <2>6. ConsoleAlone' /\ FormHidden' /\ FormOrProgress'
    BY <1>7, <2>1, <2>5 DEF ConsoleAlone, FormHidden, FormOrProgress, InTurn, Live
  <2>7. Requested(rfbhost)'
    BY <1>1, <1>3, <1>7, <2>1, <2>2 DEF Requested
  <2>8. WaitsForAnswer' /\ AddressIsHost' /\ ErrorNamesHost'
    BY <1>7, <2>7 DEF PageInv, WaitsForAnswer, AddressIsHost, ErrorNamesHost
  <2> QED BY <2>3, <2>4, <2>6, <2>8 DEF PageInv
<1>8. CASE /\ ~Stale(h)
           /\ pageFaults' = pageFaults \cup (IF form THEN {} ELSE {"form hidden"})
           /\ UNCHANGED <<rfbhost, hash, popstates, form, progress, alert, polls, rfbs, rfb>>
  <2>1. h = rfbhost /\ (InTurn' => InTurn)
    BY <1>8 DEF Stale, InTurn
  <2>2. PageTypeOK'
    BY <1>3, <1>8 DEF PageInv, PageTypeOK
  <2>3. OneRequest'
    <3> SUFFICES ASSUME InTurn, NEW g \in Hosts PROVE posts'[g] + polls'[g] <= 1
      BY <2>1 DEF OneRequest
    <3>1. posts[g] + polls[g] <= 1
      BY DEF PageInv, OneRequest
    <3>2. polls'[g] = polls[g] /\ posts[g] \in Nat /\ polls[g] \in Nat
      BY <1>1, <1>8
    <3>3. posts'[g] = posts[g] \/ posts'[g] = posts[g] - 1
      BY <1>3
    <3> QED BY <3>1, <3>2, <3>3
  <2>4. InTurn => \A i \in DOMAIN rfbs : ~Live(i)
    BY <1>5, <2>1 DEF PageInv, ConsoleAlone
  <2>5. ConsoleAlone'
    BY <1>8, <2>1, <2>4 DEF ConsoleAlone, Live
  <2>6. FormHidden'
    BY <1>8, <2>1 DEF PageInv, FormHidden
  <2>7. WaitsForAnswer'
    <3>1. CASE form
      BY <1>8, <3>1 DEF PageInv, FormOrProgress, WaitsForAnswer
    <3>2. CASE ~form
      BY <1>8, <3>2 DEF WaitsForAnswer
    <3> QED BY <3>1, <3>2
  <2>8. AddressIsHost' /\ ErrorNamesHost' /\ FormOrProgress'
    BY <1>8, <2>1 DEF PageInv, AddressIsHost, ErrorNamesHost, FormOrProgress, InTurn
  <2> QED BY <2>2, <2>3, <2>5, <2>6, <2>7, <2>8 DEF PageInv
<1> QED BY <1>6, <1>7, <1>8 DEF PostAnswered

(* The first console of the page, or the next one.                         *)
LEMMA StartKeeps ==
  ASSUME PageInv, NEW h \in Hosts, h = rfbhost, polls[h] > 0,
         UNCHANGED <<rfbhost, hash, popstates, form, alert, posts, pageFaults>>,
         polls' = [polls EXCEPT ![h] = @ - 1],
         progress' = [progress EXCEPT !.shown = FALSE], StartRfbConnection(h)
  PROVE  PageInv'
<1>1. /\ posts \in [Hosts -> Nat] /\ polls \in [Hosts -> Nat]
      /\ \A g \in Hosts : posts[g] \in Nat /\ polls[g] \in Nat
  BY Counts DEF PageInv
<1>2. /\ polls' \in [Hosts -> Nat] /\ polls'[h] = polls[h] - 1
      /\ \A g \in Hosts : g # h => polls'[g] = polls[g]
  BY <1>1, OneLess
<1>3. \A g \in Hosts : polls'[g] <= polls[g]
  BY <1>1, <1>2
<1> PICK r : r = [host |-> h, state |-> "connect", socket |-> "opening",
                  disconnTimer |-> FALSE, failTimer |-> FALSE]
  OBVIOUS
<1>4. r \in Rfb /\ r.host = h
  BY DEF Rfb
<1>5. /\ rfbs' \in Seq(Rfb) /\ Len(rfbs') = Len(rfbs) + 1 /\ rfb' = Len(rfbs) + 1
      /\ rfbs'[Len(rfbs) + 1] = r /\ \A i \in 1 .. Len(rfbs) : rfbs'[i] = rfbs[i]
  BY <1>4, RfbsTyped, AppendProperties DEF StartRfbConnection, PageInv
<1>6. Len(rfbs) \in Nat /\ DOMAIN rfbs = 1 .. Len(rfbs) /\ DOMAIN rfbs' = 1 .. Len(rfbs) + 1
  BY <1>5, RfbsTyped, LenProperties DEF PageInv
<1>7. progress' \in [shown : BOOLEAN, host : Addresses] /\ progress'.shown = FALSE
  BY DEF PageInv, PageTypeOK
<1>8. rfb' \in 0 .. Len(rfbs')
  BY <1>5, <1>6
<1>9. PageTypeOK'
  BY <1>1, <1>2, <1>5, <1>7, <1>8 DEF PageInv, PageTypeOK, Rfb
<1>10. OneRequest'
  BY <1>1, <1>2, <1>3, FewerRequests DEF PageInv
<1>11. InTurn => posts[h] = 0 /\ polls[h] = 1 /\ ~form
  BY <1>1 DEF PageInv, OneRequest, FormHidden
<1>12. InTurn => \A i \in 1 .. Len(rfbs) : ~Live(i)
  BY <1>1, <1>6 DEF PageInv, ConsoleAlone, Requested
<1>13. ConsoleAlone'
  <2> SUFFICES ASSUME InTurn, NEW i \in 1 .. Len(rfbs) + 1, Live(i)'
               PROVE  i = rfb' /\ rfbs'[i].host = rfbhost /\ ~Requested(rfbhost)' /\ ~form
    BY <1>6 DEF ConsoleAlone, InTurn
  <2>1. i = Len(rfbs) + 1
    BY <1>5, <1>6, <1>12 DEF Live
  <2>2. ~Requested(rfbhost)'
    BY <1>2, <1>11 DEF Requested
  <2> QED BY <1>4, <1>5, <1>11, <2>1, <2>2
<1>14. FormHidden'
  BY <1>11 DEF FormHidden, InTurn
<1>15. WaitsForAnswer' /\ FormOrProgress' /\ AddressIsHost' /\ ErrorNamesHost'
  BY <1>7 DEF PageInv, WaitsForAnswer, FormOrProgress, AddressIsHost, ErrorNamesHost
<1> QED BY <1>9, <1>10, <1>13, <1>14, <1>15 DEF PageInv

LEMMA PollAnsweredKeeps ==
  ASSUME PageInv, NEW h \in Hosts, NEW status, PollAnswered(h, status)
  PROVE  PageInv'
<1>1. /\ posts \in [Hosts -> Nat] /\ polls \in [Hosts -> Nat]
      /\ \A g \in Hosts : posts[g] \in Nat /\ polls[g] \in Nat
  BY Counts DEF PageInv
<1>2. polls[h] > 0 /\ posts' = posts
  BY DEF PollAnswered
<1>3. Requested(h)
  BY <1>1, <1>2 DEF Requested
<1>4. ASSUME polls' = [polls EXCEPT ![h] = @ - 1]
      PROVE  /\ polls' \in [Hosts -> Nat] /\ polls'[h] = polls[h] - 1
             /\ \A g \in Hosts : g # h => polls'[g] = polls[g]
             /\ \A g \in Hosts : posts'[g] <= posts[g] /\ polls'[g] <= polls[g]
  <2>1. /\ polls' \in [Hosts -> Nat] /\ polls'[h] = polls[h] - 1
        /\ \A g \in Hosts : g # h => polls'[g] = polls[g]
    BY <1>1, <1>2, <1>4, OneLess
  <2> QED BY <1>1, <1>2, <2>1
<1>5. CASE Stale(h) /\ Drop /\ polls' = [polls EXCEPT ![h] = @ - 1]
  BY <1>1, <1>2, <1>4, <1>5, DropKeeps
<1>6. CASE /\ ~Stale(h)
           /\ IF status = "connecting" THEN Connecting(h)
              ELSE UNCHANGED form /\ progress' = [progress EXCEPT !.host = h]
           /\ StaysPolling(h)
           /\ UNCHANGED <<rfbhost, hash, popstates, alert, rfbs, rfb, pageFaults>>
  <2>1. h = rfbhost /\ polls' = polls
    BY <1>6 DEF Stale, StaysPolling
  <2>2. h \in Addresses /\ form \in BOOLEAN /\ progress \in [shown : BOOLEAN, host : Addresses]
    BY DEF PageInv, PageTypeOK, Addresses
  <2>3. /\ progress' \in [shown : BOOLEAN, host : Addresses]
        /\ form' \in BOOLEAN /\ (form' => form) /\ FormOrProgress'
    <3>1. CASE Connecting(h)
      BY <2>2, <3>1 DEF Connecting, FormOrProgress
    <3>2. CASE UNCHANGED form /\ progress' = [progress EXCEPT !.host = h]
      <4>1. progress' \in [shown : BOOLEAN, host : Addresses] /\ progress'.shown = progress.shown
        BY <2>2, <3>2
      <4>2. FormOrProgress'
        BY <3>2, <4>1 DEF PageInv, FormOrProgress
      <4> QED BY <2>2, <3>2, <4>1, <4>2
    <3> QED BY <1>6, <3>1, <3>2
  <2>4. PageTypeOK'
    BY <1>2, <1>6, <2>1, <2>3 DEF PageInv, PageTypeOK
  <2>5. InTurn => \A i \in DOMAIN rfbs : ~Live(i)
    BY <1>3, <2>1 DEF PageInv, ConsoleAlone
  <2>6. ConsoleAlone' /\ FormHidden' /\ OneRequest'
    BY <1>2, <1>6, <2>1, <2>3, <2>5
       DEF PageInv, ConsoleAlone, FormHidden, OneRequest, InTurn, Live
  <2>7. Requested(rfbhost)'
    BY <1>2, <1>3, <1>6, <2>1 DEF Requested
  <2>8. WaitsForAnswer' /\ AddressIsHost' /\ ErrorNamesHost'
    BY <1>6, <2>7 DEF PageInv, WaitsForAnswer, AddressIsHost, ErrorNamesHost
  <2> QED BY <2>3, <2>4, <2>6, <2>8 DEF PageInv
<1>7. CASE /\ ~Stale(h) /\ polls' = [polls EXCEPT ![h] = @ - 1]
           /\ progress' = [progress EXCEPT !.shown = FALSE]
           /\ StartRfbConnection(h)
           /\ UNCHANGED <<rfbhost, hash, popstates, form, alert, pageFaults>>
  <2>1. h = rfbhost
    BY <1>7 DEF Stale
  <2> QED BY <1>2, <1>7, <2>1, StartKeeps
<1>8. CASE /\ ~Stale(h) /\ polls' = [polls EXCEPT ![h] = @ - 1]
           /\ ShowError(h, h) /\ UNCHANGED <<rfbhost, rfbs, rfb, pageFaults>>
  <2>1. h = rfbhost
    BY <1>8 DEF Stale
  <2>2. posts'[h] + polls'[h] < posts[h] + polls[h]
    BY <1>1, <1>2, <1>4, <1>8
  <2> QED BY <1>1, <1>2, <1>3, <1>4, <1>8, <2>1, <2>2, ErrorKeeps
<1> QED BY <1>5, <1>6, <1>7, <1>8 DEF PollAnswered

-----------------------------------------------------------------------------
(* The page turns to a host that no live console is of: the form or the    *)
(* address names it.                                                       *)
LEMMA ConnectKeeps ==
  ASSUME PageInv, NEW h \in Hosts, Connect(h), UNCHANGED <<form, progress>>,
         hash' \in Addresses, popstates' \in Nat, AddressIsHost',
         rfbs' \in Seq(Rfb), rfb' \in 0 .. Len(rfbs'),
         InTurn => \A i \in DOMAIN rfbs' : ~Live(i)'
  PROVE  PageInv'
<1>1. /\ posts \in [Hosts -> Nat] /\ polls \in [Hosts -> Nat]
      /\ \A g \in Hosts : posts[g] \in Nat /\ polls[g] \in Nat
  BY Counts DEF PageInv
<1>2. rfbhost' = h /\ polls' = polls /\ alert' = NoAlert
  BY DEF Connect
<1>3. posts' = [posts EXCEPT ![h] = @ + 1]
  BY DEF Connect
<1>4. /\ posts' \in [Hosts -> Nat] /\ posts'[h] = posts[h] + 1
      /\ \A g \in Hosts : g # h => posts'[g] = posts[g]
  BY <1>1, <1>3, OneMore
<1>5. pageFaults' = pageFaults \cup (IF Requested(h) THEN {"again"} ELSE {})
  BY DEF Connect
<1>6. pageFaults' \subseteq {"again", "slow", "form hidden"}
  BY <1>5 DEF PageInv, PageTypeOK
<1>7. NoAlert \in [names : Addresses, of : Addresses] /\ NoAlert.names = NoAlert.of
  BY DEF NoAlert, Addresses
<1>8. PageTypeOK'
  BY <1>1, <1>2, <1>4, <1>6, <1>7 DEF PageInv, PageTypeOK, Rfb, Addresses
<1>9. InTurn' => InTurn /\ posts[h] = 0 /\ polls[h] = 0
  <2> SUFFICES ASSUME InTurn' PROVE InTurn /\ posts[h] = 0 /\ polls[h] = 0
    OBVIOUS
  <2>1. ~Requested(h)
    <3> SUFFICES ASSUME Requested(h) PROVE FALSE
      OBVIOUS
    <3>1. "again" \in pageFaults' /\ "again" \notin {"form hidden"}
      BY <1>5
    <3> QED BY <3>1 DEF InTurn
  <2>2. posts[h] = 0 /\ polls[h] = 0
    BY <1>1, <2>1 DEF Requested
  <2> QED BY <1>5, <2>2 DEF InTurn
<1>10. OneRequest'
  <2> SUFFICES ASSUME InTurn', NEW g \in Hosts PROVE posts'[g] + polls'[g] <= 1
    BY DEF OneRequest
  <2>1. CASE g = h
    BY <1>2, <1>4, <1>9, <2>1
  <2>2. CASE g # h
    <3>1. posts[g] + polls[g] <= 1
      BY <1>9 DEF PageInv, OneRequest
    <3> QED BY <1>2, <1>4, <2>2, <3>1
  <2> QED BY <2>1, <2>2
<1>11. FormHidden'
  <2> SUFFICES ASSUME InTurn' PROVE ~(polls'[h] > 0)
    BY <1>2 DEF FormHidden
  <2> QED BY <1>2, <1>9
<1>12. ConsoleAlone'
  BY <1>9 DEF ConsoleAlone
<1>13. Requested(rfbhost)'
  BY <1>1, <1>2, <1>4 DEF Requested
<1>14. WaitsForAnswer' /\ ErrorNamesHost' /\ FormOrProgress'
  BY <1>2, <1>7, <1>13 DEF PageInv, WaitsForAnswer, ErrorNamesHost, FormOrProgress
<1> QED BY <1>8, <1>10, <1>11, <1>12, <1>14 DEF PageInv

(* What the user does.                                                     *)
LEMMA GoesTo ==
  ASSUME PageTypeOK, NEW address \in Addresses, GoTo(address)
  PROVE  /\ hash' = address /\ popstates' \in Nat
         /\ popstates' = 0 => popstates = 0 /\ address = hash
<1>1. popstates' = popstates + (IF address # hash THEN 1 ELSE 0) /\ popstates \in Nat
  BY DEF GoTo, PageTypeOK
<1> QED BY <1>1 DEF GoTo

LEMMA SubmitKeeps ==
  ASSUME PageInv, NEW h \in Hosts, Submit(h)
  PROVE  PageInv'
<1>1. h \in Addresses /\ Connect(h) /\ GoTo(h) /\ form /\ UNCHANGED <<form, progress, rfbs, rfb>>
  BY DEF Submit, Addresses
<1>2. hash' \in Addresses /\ popstates' \in Nat /\ hash' = h
  BY <1>1, GoesTo DEF PageInv
<1>3. AddressIsHost'
  BY <1>1, <1>2 DEF AddressIsHost, Connect
<1>4. InTurn => \A i \in DOMAIN rfbs : ~Live(i)
  BY <1>1 DEF PageInv, ConsoleAlone
<1>5. InTurn => \A i \in DOMAIN rfbs' : ~Live(i)'
  BY <1>1, <1>4 DEF Live
<1>6. rfbs' \in Seq(Rfb) /\ rfb' \in 0 .. Len(rfbs')
  BY <1>1, RfbsTyped DEF PageInv, PageTypeOK
<1> QED BY <1>1, <1>2, <1>3, <1>5, <1>6, ConnectKeeps

LEMMA NavigateKeeps ==
  ASSUME PageInv, NEW address \in Addresses, Navigate(address)
  PROVE  PageInv'
<1> DEFINE rest == <<rfbhost, form, progress, alert, posts, polls, rfbs, rfb, pageFaults>>
<1>1. address # hash /\ GoTo(address) /\ UNCHANGED rest
  BY DEF Navigate
<1>2. hash' \in Addresses /\ popstates' \in Nat /\ popstates' # 0
  BY <1>1, GoesTo DEF PageInv
<1>3. PageTypeOK'
  BY <1>1, <1>2 DEF PageInv, PageTypeOK
<1>4. AddressIsHost'
  BY <1>2 DEF AddressIsHost
<1>5. (/\ ErrorNamesHost /\ WaitsForAnswer /\ OneRequest
       /\ FormHidden /\ ConsoleAlone /\ FormOrProgress)'
  BY <1>1 DEF PageInv, ErrorNamesHost, WaitsForAnswer, OneRequest, FormHidden, ConsoleAlone,
              FormOrProgress, InTurn, Live, Requested
<1> QED BY <1>3, <1>4, <1>5 DEF PageInv

-----------------------------------------------------------------------------
(* The page follows its address, and hangs up what it showed.              *)
LEMMA PopstateKeeps ==
  ASSUME PageInv, Popstate
  PROVE  PageInv'
<1>1. /\ popstates > 0 /\ popstates' = popstates - 1 /\ popstates' \in Nat
      /\ UNCHANGED hash
  <2>1. popstates \in Nat
    BY DEF PageInv, PageTypeOK
  <2>2. popstates > 0 /\ popstates' = popstates - 1 /\ UNCHANGED hash
    BY DEF Popstate
  <2> QED BY <2>1, <2>2
<1>2. CASE /\ hash = rfbhost
           /\ UNCHANGED <<rfbhost, form, progress, alert, posts, polls, rfbs, rfb, pageFaults>>
  <2>1. PageTypeOK'
    BY <1>1, <1>2 DEF PageInv, PageTypeOK
  <2>2. AddressIsHost'
    BY <1>1, <1>2 DEF AddressIsHost
  <2>3. (/\ ErrorNamesHost /\ WaitsForAnswer /\ OneRequest
         /\ FormHidden /\ ConsoleAlone /\ FormOrProgress)'
    BY <1>2 DEF PageInv, ErrorNamesHost, WaitsForAnswer, OneRequest, FormHidden, ConsoleAlone,
                FormOrProgress, InTurn, Live, Requested
  <2> QED BY <2>1, <2>2, <2>3 DEF PageInv
<1>3. ASSUME HangUp(rfb), rfb' = 0
      PROVE  /\ rfbs' \in Seq(Rfb) /\ rfb' \in 0 .. Len(rfbs')
             /\ InTurn => \A i \in DOMAIN rfbs' : ~Live(i)'
  <2>1. rfbs \in Seq(Rfb) /\ rfb \in 0 .. Len(rfbs) /\ Len(rfbs) \in Nat
    BY RfbsTyped, LenProperties DEF PageInv, PageTypeOK
  <2>2. InTurn => \A i \in DOMAIN rfbs : Live(i) => i = rfb
    BY DEF PageInv, ConsoleAlone
  <2>3. CASE rfb = 0
    <3>1. rfbs' = rfbs /\ 0 \notin DOMAIN rfbs
      BY <1>3, <2>1, <2>3, LenProperties DEF HangUp
    <3> QED BY <1>3, <2>1, <2>2, <2>3, <3>1 DEF Live
  <2>4. CASE rfb # 0
    <3>1. rfb \in DOMAIN rfbs
      BY <2>1, <2>4, LenProperties
    <3>2. rfbs[rfb] \in Rfb
      BY <3>1, RfbsTyped DEF PageInv
    <3> PICK r \in Rfb : r = Disconnecting(rfbs[rfb])
      BY <3>2, RfbEnds
    <3>3. r.state \notin {"connect", "normal"} /\ Becomes(rfb, r)
      BY <1>3, <2>4, <3>2, RfbEnds DEF HangUp
    <3>4. rfbs' \in Seq(Rfb) /\ Len(rfbs') = Len(rfbs) /\ DOMAIN rfbs' = DOMAIN rfbs
      BY <3>1, <3>3, OneBecomes DEF PageInv
    <3>5. \A j \in DOMAIN rfbs : Live(j)' => j # rfb /\ Live(j)
      BY <3>1, <3>3, OneEnds DEF PageInv
    <3> QED BY <1>3, <2>1, <2>2, <3>4, <3>5
  <2> QED BY <2>3, <2>4
<1>4. CASE /\ hash # rfbhost /\ HangUp(rfb) /\ rfb' = 0 /\ hash = NoHost
           /\ LeaveHost /\ form' = TRUE /\ progress' = [progress EXCEPT !.shown = FALSE]
           /\ UNCHANGED <<alert, posts, polls, pageFaults>>
  <2>1. /\ rfbs' \in Seq(Rfb) /\ rfb' \in 0 .. Len(rfbs')
        /\ InTurn => \A i \in DOMAIN rfbs' : ~Live(i)'
    BY <1>3, <1>4
  <2>2. rfbhost' = NoHost /\ NoHost \in Addresses /\ NoHost \notin Hosts
    BY <1>4, PageAssumption DEF LeaveHost, Addresses
  <2>3. progress' \in [shown : BOOLEAN, host : Addresses] /\ progress'.shown = FALSE
    BY <1>4 DEF PageInv, PageTypeOK
  <2>4. PageTypeOK'
    BY <1>1, <1>4, <2>1, <2>2, <2>3 DEF PageInv, PageTypeOK, Rfb
  <2>5. ConsoleAlone'
    BY <1>4, <2>1 DEF ConsoleAlone, InTurn
  <2>6. FormHidden' /\ FormOrProgress' /\ WaitsForAnswer' /\ AddressIsHost'
    BY <1>1, <1>4, <2>2, <2>3 DEF FormHidden, FormOrProgress, WaitsForAnswer, AddressIsHost
  <2>7. OneRequest' /\ ErrorNamesHost'
    BY <1>4 DEF PageInv, OneRequest, ErrorNamesHost, InTurn
  <2> QED BY <2>4, <2>5, <2>6, <2>7 DEF PageInv
<1>5. CASE /\ hash # rfbhost /\ HangUp(rfb) /\ rfb' = 0 /\ hash # NoHost
           /\ Connect(hash) /\ UNCHANGED <<form, progress>>
  <2>1. /\ rfbs' \in Seq(Rfb) /\ rfb' \in 0 .. Len(rfbs')
        /\ InTurn => \A i \in DOMAIN rfbs' : ~Live(i)'
    BY <1>3, <1>5
  <2> PICK h \in Hosts : h = hash
    BY <1>5 DEF PageInv, PageTypeOK, Addresses
  <2>2. AddressIsHost' /\ hash' \in Addresses
    BY <1>1, <1>5 DEF AddressIsHost, Connect, Addresses
  <2>3. Connect(h)
    BY <1>5
  <2> QED BY <1>1, <1>5, <2>1, <2>2, <2>3, ConnectKeeps
<1> QED BY <1>2, <1>4, <1>5 DEF Popstate

-----------------------------------------------------------------------------
(* The page begins with nothing but its form, and at most one request.     *)
LEMMA PageStarts ==
  ASSUME PageInit
  PROVE  PageInv
<1>1. /\ \A h \in Hosts : posts[h] = (IF h = hash THEN 1 ELSE 0)
      /\ \A h \in Hosts : polls[h] = 0
  BY DEF PageInit
<1>2. rfbs = <<>> /\ rfbs \in Seq(Rfb) /\ Len(rfbs) = 0 /\ DOMAIN rfbs = {}
  BY EmptySeq DEF PageInit
<1>3. PageTypeOK
  BY <1>2 DEF PageInit, PageTypeOK, Rfb, NoAlert, Addresses
<1>4. OneRequest /\ FormHidden
  BY <1>1 DEF OneRequest, FormHidden
<1>5. ConsoleAlone /\ AddressIsHost /\ ErrorNamesHost /\ WaitsForAnswer /\ FormOrProgress
  BY <1>2 DEF PageInit, ConsoleAlone, AddressIsHost, ErrorNamesHost, WaitsForAnswer,
              FormOrProgress, NoAlert
<1> QED BY <1>3, <1>4, <1>5 DEF PageInv

(* What only the user and the keyboard do.                                 *)
LEMMA PageSame ==
  ASSUME PageInv, UNCHANGED pageVars
  PROVE  PageInv'
BY DEF pageVars, PageInv, PageTypeOK, ErrorNamesHost, WaitsForAnswer, OneRequest, FormHidden,
       ConsoleAlone, FormOrProgress, AddressIsHost, InTurn, Live, Requested

(* RFB objects are only added.                                             *)
LEMMA RfbsStay ==
  ASSUME PageTypeOK,
         \/ UNCHANGED rfbs
         \/ \E i \in DOMAIN rfbs : \E r : Becomes(i, r)
         \/ \E r : rfbs' = Append(rfbs, r)
  PROVE  Len(rfbs') \in Nat /\ Len(rfbs) <= Len(rfbs')
<1>1. rfbs \in Seq(Rfb) /\ Len(rfbs) \in Nat /\ DOMAIN rfbs = 1 .. Len(rfbs)
  BY RfbsTyped, LenProperties
<1>2. CASE UNCHANGED rfbs
  BY <1>1, <1>2
<1>3. CASE \E i \in DOMAIN rfbs : \E r : Becomes(i, r)
  <2> PICK i \in DOMAIN rfbs : \E r : Becomes(i, r)
    BY <1>3
  <2> PICK r : Becomes(i, r)
    OBVIOUS
  <2>1. rfbs \in Seq(Rfb \cup {r}) /\ r \in Rfb \cup {r}
    BY <1>1, SeqMonotonic
  <2>2. Len(rfbs') = Len(rfbs)
    BY <2>1, ExceptSeq DEF Becomes
  <2> QED BY <1>1, <2>2
<1>4. CASE \E r : rfbs' = Append(rfbs, r)
  <2> PICK r : rfbs' = Append(rfbs, r)
    BY <1>4
  <2>1. rfbs \in Seq(Rfb \cup {r}) /\ r \in Rfb \cup {r}
    BY <1>1, SeqMonotonic
  <2>2. Len(rfbs') = Len(rfbs) + 1
    BY <2>1, AppendProperties
  <2> PICK m \in Nat : m = Len(rfbs)
    BY <1>1
  <2>3. Len(rfbs') = m + 1
    BY <2>2
  <2>4. m + 1 \in Nat /\ m <= m + 1
    OBVIOUS
  <2> QED BY <2>3, <2>4
<1> QED BY <1>2, <1>3, <1>4

-----------------------------------------------------------------------------
BrowserInv == PageInv /\ BrowserTypeOK

(* The keyboard stays with a console there is.                             *)
LEMMA KeyboardStays ==
  ASSUME BrowserInv, PageStep, PageInv', Len(rfbs') \in Nat, Len(rfbs) <= Len(rfbs')
  PROVE  BrowserInv'
<1>1. owner \in 0 .. Len(rfbs) /\ visits' \in 0 .. MaxVisits
  BY DEF BrowserInv, BrowserTypeOK, PageStep
<1>2. owner' = owner \/ owner' = 0
  BY DEF PageStep, KeyboardFollows
<1>3. Len(rfbs) \in Nat
  BY RfbsTyped, LenProperties DEF BrowserInv, PageInv
<1>4. owner' \in 0 .. Len(rfbs')
  BY <1>1, <1>2, <1>3
<1> QED BY <1>1, <1>4 DEF BrowserInv, PageInv, BrowserTypeOK

LEMMA PageStepKeeps ==
  ASSUME BrowserInv, PageStep
  PROVE  BrowserInv'
<1> USE DEF BrowserInv
<1>1. CASE Popstate
  <2>1. PageInv'
    BY <1>1, PopstateKeeps
  <2>2. UNCHANGED rfbs \/ \E i \in DOMAIN rfbs : \E r : Becomes(i, r)
    <3>1. rfb \in 0 .. Len(rfbs) /\ DOMAIN rfbs = 1 .. Len(rfbs) /\ Len(rfbs) \in Nat
      BY RfbsTyped, LenProperties DEF PageInv, PageTypeOK
    <3>2. UNCHANGED rfbs \/ HangUp(rfb)
      BY <1>1 DEF Popstate
    <3>3. UNCHANGED rfbs \/ (rfb \in DOMAIN rfbs /\ Becomes(rfb, Disconnecting(rfbs[rfb])))
      BY <3>1, <3>2 DEF HangUp
    <3> QED BY <3>3
  <2>3. Len(rfbs') \in Nat /\ Len(rfbs) <= Len(rfbs')
    BY <2>2, RfbsStay DEF PageInv
  <2> QED BY <2>1, <2>3, KeyboardStays
<1>2. ASSUME NEW h \in Hosts, PostAnswered(h) \/ RequestFails(h) PROVE BrowserInv'
  <2>1. PageInv'
    BY <1>2, PostAnsweredKeeps, RequestFailsKeeps
  <2>2. UNCHANGED rfbs
    BY <1>2 DEF PostAnswered, RequestFails, Drop
  <2>3. Len(rfbs') \in Nat /\ Len(rfbs) <= Len(rfbs')
    BY <2>2, RfbsStay DEF PageInv
  <2> QED BY <2>1, <2>3, KeyboardStays
<1>3. ASSUME NEW h \in Hosts, NEW status, PollAnswered(h, status) PROVE BrowserInv'
  <2>1. PageInv'
    BY <1>3, PollAnsweredKeeps
  <2>2. UNCHANGED rfbs \/ \E r : rfbs' = Append(rfbs, r)
    BY <1>3 DEF PollAnswered, Drop, StartRfbConnection
  <2>3. Len(rfbs') \in Nat /\ Len(rfbs) <= Len(rfbs')
    BY <2>2, RfbsStay DEF PageInv
  <2> QED BY <2>1, <2>3, KeyboardStays
<1>4. ASSUME NEW i \in DOMAIN rfbs, RfbCloses(i) \/ FailTimer(i) \/ DisconnTimer(i) PROVE BrowserInv'
  <2>1. PageInv'
    BY <1>4, RfbClosesKeeps, FailTimerKeeps, DisconnTimerKeeps
  <2>2. \E r : Becomes(i, r)
    BY <1>4 DEF RfbCloses, RfbFails, FailTimer, DisconnTimer
  <2>3. Len(rfbs') \in Nat /\ Len(rfbs) <= Len(rfbs')
    BY <2>2, RfbsStay DEF PageInv
  <2> QED BY <2>1, <2>3, KeyboardStays
<1> QED BY <1>1, <1>2, <1>3, <1>4 DEF PageStep, RequestsAnswered

LEMMA PageNext ==
  ASSUME BrowserInv, BrowserNext
  PROVE  BrowserInv'
<1>1. CASE ConsoleOpens
  <2> PICK i \in DOMAIN rfbs : RfbOpens(i) /\ (owner' = i \/ owner' = owner) /\ visits' = visits
    BY <1>1 DEF ConsoleOpens
  <2>1. PageInv'
    BY RfbOpensKeeps DEF BrowserInv
  <2>2. \E r : Becomes(i, r)
    BY DEF RfbOpens
  <2>3. Len(rfbs') \in Nat /\ Len(rfbs) <= Len(rfbs')
    BY <2>2, RfbsStay DEF BrowserInv, PageInv
  <2>4. Len(rfbs) \in Nat /\ DOMAIN rfbs = 1 .. Len(rfbs)
    BY RfbsTyped, LenProperties DEF BrowserInv, PageInv
  <2>5. owner \in 0 .. Len(rfbs) /\ visits \in 0 .. MaxVisits
    BY DEF BrowserInv, BrowserTypeOK
  <2>6. owner' \in 0 .. Len(rfbs')
    BY <2>3, <2>4, <2>5
  <2> QED BY <2>1, <2>5, <2>6 DEF BrowserInv, PageInv, BrowserTypeOK
<1>2. CASE PageStep
  BY <1>2, PageStepKeeps
<1>3. CASE UserNavigates
  <2>1. PageInv'
    BY <1>3, SubmitKeeps, NavigateKeeps DEF UserNavigates, BrowserInv
  <2>2. rfbs' = rfbs /\ owner' = owner /\ visits < MaxVisits /\ visits' = visits + 1
    BY <1>3 DEF UserNavigates, Submit, Navigate
  <2>3. owner \in 0 .. Len(rfbs) /\ visits \in 0 .. MaxVisits
    BY DEF BrowserInv, BrowserTypeOK
  <2>4. visits' \in 0 .. MaxVisits
    BY <2>2, <2>3, BrowserAssumption
  <2> QED BY <2>1, <2>2, <2>3, <2>4 DEF BrowserInv, PageInv, BrowserTypeOK
<1>4. CASE Types
  <2>1. PageInv' /\ rfbs' = rfbs /\ owner' = owner /\ visits' = visits
    BY <1>4, PageSame DEF Types, BrowserInv, pageVars
  <2> QED BY <2>1 DEF BrowserInv, PageInv, BrowserTypeOK
<1> QED BY <1>1, <1>2, <1>3, <1>4 DEF BrowserNext

LEMMA PageInvariant == BrowserSpec => []BrowserInv
<1>1. BrowserInit => BrowserInv
  <2> SUFFICES ASSUME BrowserInit PROVE BrowserInv
    OBVIOUS
  <2>1. PageInv /\ owner = 0 /\ visits = 0
    BY PageStarts DEF BrowserInit
  <2>2. Len(rfbs) \in Nat
    BY <2>1, RfbsTyped, LenProperties DEF PageInv
  <2> QED BY <2>1, <2>2, BrowserAssumption DEF BrowserInv, PageInv, BrowserTypeOK
<1>2. BrowserInv /\ [BrowserNext]_browserVars => BrowserInv'
  <2> SUFFICES ASSUME BrowserInv, [BrowserNext]_browserVars PROVE BrowserInv'
    OBVIOUS
  <2>1. CASE BrowserNext
    BY <2>1, PageNext
  <2>2. CASE UNCHANGED browserVars
    <3>1. PageInv' /\ rfbs' = rfbs /\ owner' = owner /\ visits' = visits
      BY <2>2, PageSame DEF browserVars, BrowserInv, pageVars
    <3> QED BY <3>1 DEF BrowserInv, PageInv, BrowserTypeOK
  <2> QED BY <2>1, <2>2
<1> QED BY <1>1, <1>2, PTL DEF BrowserSpec

(* Console, address and error of the page are those of one host, in every  *)
(* order of answers, popstate events, closes and timers, for any hosts and *)
(* any number of consoles (connect.html and rfb.js in assets.go).          *)
THEOREM PageIsOfOneHost == BrowserSpec => []PageFollowsHost
<1>1. BrowserInv => PageFollowsHost
  BY DEF BrowserInv, PageInv, PageFollowsHost, OneConsole, ConsoleAlone, InTurn
<1> QED BY <1>1, PageInvariant, PTL

(* A page that shows its progress has a request under way about its host.  *)
THEOREM PageNeverWaitsForNothing == BrowserSpec => []WaitsForAnswer
<1>1. BrowserInv => WaitsForAnswer
  BY DEF BrowserInv, PageInv
<1> QED BY <1>1, PageInvariant, PTL

-----------------------------------------------------------------------------
(* The keyboard.                                                           *)
Levels == {"plain", "shift", "third"}

Keysyms == Keys \X Levels

KeyIds == (Keys \cup {NoKey}) \X Levels

(* What the filters hand on.                                               *)
KeyEvent ==
  [type : {"keydown", "keyup", "releaseall", "stall"}, keyId : KeyIds,
   keysym : Keysyms \cup {NoKeysym}, escape : BOOLEAN, with : SUBSET Modifiers]
  \cup
  [type : {"keypress"}, keyId : KeyIds, keysym : Keysyms, escape : BOOLEAN, with : SUBSET Modifiers]

TrackEntry == [keyId : KeyIds, keysyms : SUBSET Keysyms, ignoreKeyPress : BOOLEAN]

(* What the page tracks and what the other end has, between two events.    *)
Chained ==
  [entries : Seq(TrackEntry),
   end : [downs : SUBSET Keysyms, wrong : SUBSET {"guess", "third", "shortcut"}]]

Explained(acc) == acc.end.downs \subseteq AllKeysyms(acc.entries) \cup Syms(CharModifiers)

(* The inductive invariant.  Nobody has typed at a console to which no     *)
(* user turned, and when it ends what is down is a character modifier.     *)
KeyboardInv ==
  /\ KeyboardTypeOK
  /\ tracked \in Seq(TrackEntry) /\ queue \in Seq(KeyEvent)
  /\ pressing \in {NoPress} \cup [key : Keys, with : SUBSET Modifiers]
  /\ grabbed /\ platform = NoKey => pressing = NoPress /\ ~timer /\ down = {}
  /\ "late" \notin faults =>
       down \subseteq (IF grabbed THEN AllKeysyms(tracked) ELSE {}) \cup Syms(CharModifiers)

-----------------------------------------------------------------------------
(* The platforms: a marker names none.                                     *)
LEMMA CharModifiersTyped ==
  /\ CharModifiers \subseteq Modifiers /\ OnKeyboard \subseteq Modifiers
  /\ Syms(CharModifiers) \subseteq Keysyms
  /\ platform = NoKey => CharModifiers = {"Alt", "Control", "Level3"}
  /\ CharModifiers \subseteq {"Alt", "Control", "Level3"}
<1>1. CharModifiers \subseteq {"Alt", "Control", "Level3"}
  BY DEF CharModifiers, CharModifierOf
<1>2. platform = NoKey => CharModifiers = {"Alt", "Control", "Level3"}
  BY KeyboardAssumption DEF CharModifiers, CharModifierOf
<1>3. \A m \in CharModifiers : m \in Keys /\ <<m, "plain">> \in Keysyms
  BY <1>1 DEF Keys, Modifiers, Keysyms, Levels
<1> QED BY <1>1, <1>2, <1>3 DEF Syms, OnKeyboard, Modifiers

(* What each event of the DOM becomes.                                     *)
LEMMA EventsTyped ==
  ASSUME NEW k \in Keys, NEW mods \in SUBSET Modifiers, NEW state
  PROVE  /\ Decoded("keydown", k, mods, state) \in KeyEvent
         /\ Decoded("keyup", k, mods, state) \in KeyEvent
         /\ Level(k, mods) \in Levels
         /\ \A level \in Levels : DecodedPress(k, level, mods, state) \in KeyEvent
<1>1. Level(k, mods) \in Levels
  BY DEF Level, Levels
<1>2. KeyId(k, mods) \in KeyIds
  BY <1>1 DEF KeyId, KeyIds, Levels
<1>3. NoKeysym \in Keysyms \cup {NoKeysym} /\ Guess(k, mods) \in Keysyms \cup {NoKeysym}
  BY DEF Guess, Keysyms, Levels
<1>4. ASSUME NEW type \in {"keydown", "keyup"} PROVE Decoded(type, k, mods, state) \in KeyEvent
  <2> DEFINE keysym == IF type # "keydown" \/ NonCharacterKey(k) \/ ActiveCharModifier(state)
                          \/ HasShortcutModifier(state) THEN Guess(k, mods) ELSE NoKeysym
  <2>1. keysym \in Keysyms \cup {NoKeysym}
    BY <1>3
  <2>2. Decoded(type, k, mods, state) = Event(type, KeyId(k, mods), keysym, mods)
    BY DEF Decoded
  <2> HIDE DEF keysym
  <2> QED BY <1>2, <2>1, <2>2 DEF Event, KeyEvent
<1>5. ASSUME NEW level \in Levels PROVE DecodedPress(k, level, mods, state) \in KeyEvent
  <2>1. ActiveCharModifier(state) \in BOOLEAN
    BY DEF ActiveCharModifier
  <2>2. <<k, level>> \in Keysyms /\ <<NoKey, level>> \in KeyIds
    BY DEF Keysyms, KeyIds
  <2> QED BY <2>1, <2>2 DEF DecodedPress, Event, KeyEvent
<1> QED BY <1>1, <1>4, <1>5

LEMMA OneEvent ==
  ASSUME NEW type \in {"keydown", "keyup", "releaseall", "stall"},
         NEW keysym \in Keysyms \cup {NoKeysym}
  PROVE  /\ Event(type, NoId, keysym, {}) \in KeyEvent
         /\ <<Event(type, NoId, keysym, {})>> \in Seq(KeyEvent)
<1>1. NoId \in KeyIds
  BY DEF NoId, KeyIds, Levels
<1>2. Event(type, NoId, keysym, {}) \in KeyEvent
  BY <1>1 DEF Event, KeyEvent
<1> QED BY <1>2

LEMMA SyncEventsTyped ==
  ASSUME NEW state, NEW mods, NEW key
  PROVE  SyncEvents(state, mods, key) \in Seq(KeyEvent)
<1> DEFINE synced(m) ==
             IF m \in OutOfSync(state, mods, key)
             THEN <<Event(IF m \in mods THEN "keydown" ELSE "keyup", NoId, <<m, "plain">>, {})>>
             ELSE <<>>
<1>1. ASSUME NEW m \in Modifiers PROVE synced(m) \in Seq(KeyEvent)
  <2>1. <<m, "plain">> \in Keysyms
    BY DEF Keysyms, Keys, Levels
  <2>2. <<Event(IF m \in mods THEN "keydown" ELSE "keyup", NoId, <<m, "plain">>, {})>> \in Seq(KeyEvent)
    BY <2>1, OneEvent
  <2>3. <<>> \in Seq(KeyEvent)
    BY EmptySeq
  <2> QED BY <2>2, <2>3
<1>2. SyncEvents(state, mods, key)
        = synced("Control") \o synced("Alt") \o synced("Level3") \o synced("Shift") \o synced("Meta")
  BY DEF SyncEvents
<1> HIDE DEF synced
<1>3. /\ synced("Control") \in Seq(KeyEvent) /\ synced("Alt") \in Seq(KeyEvent)
      /\ synced("Level3") \in Seq(KeyEvent) /\ synced("Shift") \in Seq(KeyEvent)
      /\ synced("Meta") \in Seq(KeyEvent)
  BY <1>1 DEF Modifiers
<1>4. synced("Control") \o synced("Alt") \in Seq(KeyEvent)
  BY <1>3, ConcatProperties
<1>5. synced("Control") \o synced("Alt") \o synced("Level3") \in Seq(KeyEvent)
  BY <1>3, <1>4, ConcatProperties
<1>6. synced("Control") \o synced("Alt") \o synced("Level3") \o synced("Shift") \in Seq(KeyEvent)
  BY <1>3, <1>5, ConcatProperties
<1> QED BY <1>2, <1>3, <1>6, ConcatProperties

-----------------------------------------------------------------------------
(* RemoveAt leaves the other elements.                                     *)
Removed(t, r, n, u) ==
  /\ Len(u) = n - 1 /\ DOMAIN u = 1 .. n - 1
  /\ \A j \in 1 .. n - 1 : u[j] = t[IF j < r THEN j ELSE j + 1]
  /\ \A i \in 1 .. n : i # r => \E j \in 1 .. n - 1 : u[j] = t[i]

LEMMA WithoutOne ==
  ASSUME NEW S, NEW t \in Seq(S), NEW n \in Nat, n = Len(t), NEW r \in 1 .. n
  PROVE  RemoveAt(t, r) \in Seq(S) /\ Removed(t, r, n, RemoveAt(t, r))
<1> DEFINE front == SubSeq(t, 1, r - 1)
           back  == SubSeq(t, r + 1, n)
<1>1. RemoveAt(t, r) = front \o back
  BY DEF RemoveAt
<1>2. \A i \in 1 .. n : t[i] \in S
  BY ElementOfSeq
<1>3. /\ front \in Seq(S) /\ Len(front) = r - 1 /\ \A i \in 1 .. r - 1 : front[i] = t[i]
  BY <1>2, SubSeqProperties
<1>4. /\ back \in Seq(S) /\ Len(back) = n - r /\ \A i \in 1 .. n - r : back[i] = t[r + i]
  BY <1>2, SubSeqProperties
<1> HIDE DEF front, back
<1>5. /\ front \o back \in Seq(S) /\ Len(front \o back) = n - 1
      /\ \A i \in 1 .. n - 1 : (front \o back)[i] = IF i <= r - 1 THEN front[i] ELSE back[i - (r - 1)]
  <2>1. /\ front \o back \in Seq(S) /\ Len(front \o back) = Len(front) + Len(back)
        /\ \A i \in 1 .. Len(front) + Len(back) :
             (front \o back)[i] = IF i <= Len(front) THEN front[i] ELSE back[i - Len(front)]
    BY <1>3, <1>4, ConcatProperties
  <2>2. Len(front) = r - 1 /\ Len(front) + Len(back) = n - 1
    BY <1>3, <1>4
  <2> QED BY <2>1, <2>2
<1>6. DOMAIN (front \o back) = 1 .. n - 1
  BY <1>5, LenProperties
<1>7. ASSUME NEW j \in 1 .. n - 1 PROVE (front \o back)[j] = t[IF j < r THEN j ELSE j + 1]
  <2>1. CASE j < r
    <3>1. j \in 1 .. r - 1 /\ j <= r - 1
      BY <2>1
    <3> QED BY <1>3, <1>5, <2>1, <3>1
  <2>2. CASE ~(j < r)
    <3> PICK k \in 1 .. n - r : k = j - (r - 1)
      BY <2>2
    <3>1. ~(j <= r - 1) /\ r + k = j + 1
      BY <2>2
    <3> QED BY <1>4, <1>5, <2>2, <3>1
  <2> QED BY <2>1, <2>2
<1>8. ASSUME NEW i \in 1 .. n, i # r PROVE \E j \in 1 .. n - 1 : (front \o back)[j] = t[i]
  <2>1. CASE i < r
    <3>1. i \in 1 .. n - 1
      BY <2>1
    <3>2. (front \o back)[i] = t[i]
      BY <1>7, <2>1, <3>1
    <3> QED BY <3>1, <3>2
  <2>2. CASE i > r
    <3> PICK j \in 1 .. n - 1 : j = i - 1
      BY <2>2
    <3>1. ~(j < r) /\ j + 1 = i
      BY <2>2
    <3>2. (front \o back)[j] = t[i]
      BY <1>7, <3>1
    <3> QED BY <3>2
  <2>3. i < r \/ i > r
    BY <1>8
  <2> QED BY <2>1, <2>2, <2>3
<1>9. Removed(t, r, n, front \o back)
  BY <1>5, <1>6, <1>7, <1>8 DEF Removed
<1> QED BY <1>1, <1>5, <1>9

-----------------------------------------------------------------------------
(* TrackKeyState: what is down at the other end has an entry, before and   *)
(* after each event.                                                       *)
LEMMA EntryTyped ==
  ASSUME NEW e \in KeyEvent
  PROVE  Entry(e.keyId) \in TrackEntry /\ Entry(e.keyId).keysyms = {}
BY DEF KeyEvent, Entry, TrackEntry

LEMMA WithKeysymKeeps ==
  ASSUME NEW t \in Seq(TrackEntry), t # <<>>, NEW keysym \in Keysyms, NEW ignore \in BOOLEAN
  PROVE  /\ WithKeysym(t, keysym, ignore) \in Seq(TrackEntry)
         /\ AllKeysyms(t) \cup {keysym} \subseteq AllKeysyms(WithKeysym(t, keysym, ignore))
<1> PICK n \in Nat : n = Len(t)
  OBVIOUS
<1>1. n \in 1 .. n /\ DOMAIN t = 1 .. n /\ \A i \in 1 .. n : t[i] \in TrackEntry
  BY EmptySeq, LenProperties, ElementOfSeq
<1> DEFINE last == [t[n] EXCEPT !.keysyms = @ \cup {keysym}, !.ignoreKeyPress = @ \/ ignore]
<1>2. t[n] \in TrackEntry
  BY <1>1
<1>3. last \in TrackEntry /\ last.keysyms = t[n].keysyms \cup {keysym}
  BY <1>2 DEF TrackEntry
<1>4. WithKeysym(t, keysym, ignore) = [t EXCEPT ![n] = last]
  BY DEF WithKeysym
<1> HIDE DEF last
<1>5. /\ [t EXCEPT ![n] = last] \in Seq(TrackEntry) /\ Len([t EXCEPT ![n] = last]) = n
      /\ DOMAIN [t EXCEPT ![n] = last] = 1 .. n
  BY <1>1, <1>3, ExceptSeq
<1>6. \A i \in 1 .. n : [t EXCEPT ![n] = last][i] = IF i = n THEN last ELSE t[i]
  BY <1>1
<1>7. \A i \in 1 .. n : t[i].keysyms \subseteq [t EXCEPT ![n] = last][i].keysyms
  BY <1>3, <1>6
<1>8. keysym \in [t EXCEPT ![n] = last][n].keysyms
  BY <1>1, <1>3, <1>6
<1> QED BY <1>1, <1>4, <1>5, <1>7, <1>8 DEF AllKeysyms

LEMMA TrackDownKeeps ==
  ASSUME NEW t \in Seq(TrackEntry), NEW e \in KeyEvent
  PROVE  LET next == TrackDown(t, e) IN
         /\ next.entries \in Seq(TrackEntry)
         /\ next.passed \in BOOLEAN /\ next.ups = {}
         /\ next.passed => e.keysym \in Keysyms
         /\ AllKeysyms(t) \cup (IF next.passed THEN {e.keysym} ELSE {}) \subseteq AllKeysyms(next.entries)
<1> DEFINE entries == IF t = <<>> \/ e.keyId = NoId \/ Last(t).keyId # e.keyId
                      THEN Append(t, Entry(e.keyId)) ELSE t
<1>1. Append(t, Entry(e.keyId)) \in Seq(TrackEntry) /\ Append(t, Entry(e.keyId)) # <<>>
  BY EntryTyped, AppendProperties
<1>2. AllKeysyms(t) \subseteq AllKeysyms(Append(t, Entry(e.keyId)))
  <2> PICK n \in Nat : n = Len(t)
    OBVIOUS
  <2>1. /\ DOMAIN t = 1 .. n /\ DOMAIN Append(t, Entry(e.keyId)) = 1 .. n + 1
        /\ \A i \in 1 .. n : Append(t, Entry(e.keyId))[i] = t[i]
    BY EntryTyped, AppendProperties, LenProperties
  <2>2. \A i \in 1 .. n : i \in 1 .. n + 1
    OBVIOUS
  <2> QED BY <2>1, <2>2 DEF AllKeysyms
<1>3. entries \in Seq(TrackEntry) /\ entries # <<>> /\ AllKeysyms(t) \subseteq AllKeysyms(entries)
  BY <1>1, <1>2
<1>4. TrackDown(t, e) = IF e.keysym = NoKeysym THEN Tracked(entries, FALSE, {})
                        ELSE Tracked(WithKeysym(entries, e.keysym, TRUE), TRUE, {})
  BY DEF TrackDown
<1> HIDE DEF entries
<1>5. CASE e.keysym = NoKeysym
  BY <1>3, <1>4, <1>5 DEF Tracked
<1>6. CASE e.keysym # NoKeysym
  <2>1. e.keysym \in Keysyms
    BY <1>6 DEF KeyEvent
  <2>2. /\ WithKeysym(entries, e.keysym, TRUE) \in Seq(TrackEntry)
        /\ AllKeysyms(entries) \cup {e.keysym} \subseteq AllKeysyms(WithKeysym(entries, e.keysym, TRUE))
    BY <1>3, <2>1, WithKeysymKeeps
  <2>3. TrackDown(t, e) = Tracked(WithKeysym(entries, e.keysym, TRUE), TRUE, {})
    BY <1>4, <1>6
  <2>4. /\ TrackDown(t, e).entries = WithKeysym(entries, e.keysym, TRUE)
        /\ TrackDown(t, e).passed = TRUE /\ TrackDown(t, e).ups = {}
    BY <2>3 DEF Tracked
  <2>5. AllKeysyms(t) \cup {e.keysym} \subseteq AllKeysyms(WithKeysym(entries, e.keysym, TRUE))
    BY <1>3, <2>2
  <2> QED BY <2>1, <2>2, <2>4, <2>5
<1> QED BY <1>5, <1>6

LEMMA TrackPressKeeps ==
  ASSUME NEW t \in Seq(TrackEntry), NEW e \in KeyEvent, e.type = "keypress"
  PROVE  LET next == TrackPress(t, e) IN
         /\ next.entries \in Seq(TrackEntry)
         /\ next.passed \in BOOLEAN /\ next.ups = {}
         /\ next.passed => e.keysym \in Keysyms
         /\ AllKeysyms(t) \cup (IF next.passed THEN {e.keysym} ELSE {}) \subseteq AllKeysyms(next.entries)
<1> DEFINE entries == IF t = <<>> THEN <<Entry(e.keyId)>> ELSE t
<1>1. entries \in Seq(TrackEntry) /\ entries # <<>>
  BY EntryTyped
<1>2. AllKeysyms(t) \subseteq AllKeysyms(entries)
  <2>1. CASE t = <<>>
    BY <2>1 DEF AllKeysyms
  <2> QED BY <2>1
<1>3. TrackPress(t, e) = IF Last(entries).ignoreKeyPress THEN Tracked(entries, FALSE, {})
                         ELSE Tracked(WithKeysym(entries, e.keysym, FALSE), TRUE, {})
  BY DEF TrackPress
<1>4. e.keysym \in Keysyms
  BY DEF KeyEvent
<1> HIDE DEF entries
<1>5. CASE Last(entries).ignoreKeyPress
  BY <1>1, <1>2, <1>3, <1>5 DEF Tracked
<1>6. CASE ~Last(entries).ignoreKeyPress
  <2>1. /\ WithKeysym(entries, e.keysym, FALSE) \in Seq(TrackEntry)
        /\ AllKeysyms(entries) \cup {e.keysym} \subseteq AllKeysyms(WithKeysym(entries, e.keysym, FALSE))
    BY <1>1, <1>4, WithKeysymKeeps
  <2>2. TrackPress(t, e) = Tracked(WithKeysym(entries, e.keysym, FALSE), TRUE, {})
    BY <1>3, <1>6
  <2>3. /\ TrackPress(t, e).entries = WithKeysym(entries, e.keysym, FALSE)
        /\ TrackPress(t, e).passed = TRUE /\ TrackPress(t, e).ups = {}
    BY <2>2 DEF Tracked
  <2>4. AllKeysyms(t) \cup {e.keysym} \subseteq AllKeysyms(WithKeysym(entries, e.keysym, FALSE))
    BY <1>2, <2>1
  <2> QED BY <1>4, <2>1, <2>3, <2>4
<1> QED BY <1>5, <1>6

LEMMA ReleasedIsEntry ==
  ASSUME NEW t \in Seq(TrackEntry), t # <<>>, NEW e
  PROVE  Released(t, e) \in 1 .. Len(t)
<1>1. DOMAIN t = 1 .. Len(t) /\ Len(t) \in Nat /\ Len(t) # 0
  BY EmptySeq, LenProperties
<1>2. Matching(t, e) \subseteq 1 .. Len(t)
  BY <1>1 DEF Matching
<1>3. CASE Matching(t, e) = {}
  BY <1>1, <1>3 DEF Released
<1>4. CASE Matching(t, e) # {}
  <2>1. Matching(t, e) \subseteq Nat
    BY <1>1, <1>2
  <2>2. \E i \in Matching(t, e) : \A j \in Matching(t, e) : i <= j
    BY <1>4, <2>1, Smallest
  <2>3. Released(t, e) \in Matching(t, e)
    BY <1>4, <2>2 DEF Released
  <2> QED BY <1>2, <2>3
<1> QED BY <1>3, <1>4

LEMMA TrackUpKeeps ==
  ASSUME NEW t \in Seq(TrackEntry), NEW e \in KeyEvent
  PROVE  LET next == TrackUp(t, e) IN
         /\ next.entries \in Seq(TrackEntry)
         /\ next.passed = FALSE /\ next.ups \subseteq Keysyms
         /\ AllKeysyms(t) \ next.ups \subseteq AllKeysyms(next.entries)
<1>1. CASE t = <<>>
  BY <1>1 DEF TrackUp, Tracked
<1>2. CASE t # <<>>
  <2> PICK n \in Nat : n = Len(t)
    OBVIOUS
  <2> PICK r \in 1 .. n : r = Released(t, e)
    BY <1>2, ReleasedIsEntry
  <2>1. DOMAIN t = 1 .. n /\ \A i \in 1 .. n : t[i] \in TrackEntry
    BY LenProperties, ElementOfSeq
  <2>2. TrackUp(t, e) = Tracked(RemoveAt(t, r), FALSE, t[r].keysyms)
    BY <1>2 DEF TrackUp
  <2>3. t[r].keysyms \subseteq Keysyms
    BY <2>1 DEF TrackEntry
  <2>4. RemoveAt(t, r) \in Seq(TrackEntry) /\ Removed(t, r, n, RemoveAt(t, r))
    BY WithoutOne
  <2>5. \A i \in DOMAIN t : i # r => t[i].keysyms \subseteq AllKeysyms(RemoveAt(t, r))
    BY <2>1, <2>4 DEF AllKeysyms, Removed
  <2>6. AllKeysyms(t) \ t[r].keysyms \subseteq AllKeysyms(RemoveAt(t, r))
    BY <2>5 DEF AllKeysyms
  <2> QED BY <2>2, <2>3, <2>4, <2>6 DEF Tracked
<1> QED BY <1>1, <1>2

LEMMA TrackAllUpKeeps ==
  ASSUME NEW t \in Seq(TrackEntry)
  PROVE  LET next == TrackAllUp(t) IN
         /\ next.entries \in Seq(TrackEntry)
         /\ next.passed = FALSE /\ next.ups \subseteq Keysyms
         /\ AllKeysyms(t) \ next.ups = {}
<1>1. \A i \in DOMAIN t : t[i].keysyms \subseteq Keysyms
  <2>1. \A i \in DOMAIN t : t[i] \in TrackEntry
    BY LenProperties, ElementOfSeq
  <2> QED BY <2>1 DEF TrackEntry
<1>2. AllKeysyms(t) \subseteq Keysyms
  BY <1>1 DEF AllKeysyms
<1> QED BY <1>2 DEF TrackAllUp, Tracked

(* What an event passes on: a keydown of a keysym that is tracked, or      *)
(* keyups of all that is not tracked any more.                             *)
LEMMA TrackKeeps ==
  ASSUME NEW t \in Seq(TrackEntry), NEW e \in KeyEvent, e.type # "stall"
  PROVE  LET next == Track(t, e) IN
         /\ next.entries \in Seq(TrackEntry)
         /\ next.passed \in BOOLEAN /\ next.ups \subseteq Keysyms
         /\ next.passed =>
              e.keysym \in Keysyms /\ AllKeysyms(t) \cup {e.keysym} \subseteq AllKeysyms(next.entries)
         /\ ~next.passed => AllKeysyms(t) \ next.ups \subseteq AllKeysyms(next.entries)
<1>1. e.type \in {"keydown", "keypress", "keyup", "releaseall"}
  BY DEF KeyEvent
<1>2. CASE e.type = "keydown"
  <2>1. Track(t, e) = TrackDown(t, e)
    BY <1>2 DEF Track
  <2> QED BY <2>1, TrackDownKeeps
<1>3. CASE e.type = "keypress"
  <2>1. Track(t, e) = TrackPress(t, e)
    BY <1>3 DEF Track
  <2> QED BY <1>3, <2>1, TrackPressKeeps
<1>4. CASE e.type = "keyup"
  <2>1. Track(t, e) = TrackUp(t, e)
    BY <1>4 DEF Track
  <2> QED BY <2>1, TrackUpKeeps
<1>5. CASE e.type = "releaseall"
  <2>1. Track(t, e) = TrackAllUp(t)
    BY <1>5 DEF Track
  <2> QED BY <2>1, TrackAllUpKeeps
<1> QED BY <1>1, <1>2, <1>3, <1>4, <1>5

-----------------------------------------------------------------------------
(* One event through the last three filters.                               *)
End == [downs : SUBSET Keysyms, wrong : SUBSET {"guess", "third", "shortcut"}]

LEMMA EscapedKeeps ==
  ASSUME NEW end \in End, NEW e, e.keysym \in Keysyms
  PROVE  /\ Escaped(end, e) \in End
         /\ Escaped(end, e).downs \subseteq end.downs \cup {e.keysym} \cup Syms(CharModifiers)
<1> DEFINE undone == Undo(end, e)
           taken  == TakeDown(undone, e)
<1>1. undone \in End /\ undone.downs \subseteq end.downs
  BY DEF End, Undo, TakeUps
<1>2. Amiss(undone.downs, e) \subseteq {"third", "shortcut"}
  BY DEF Amiss
<1> HIDE DEF undone
<1>3. taken \in End /\ taken.downs \subseteq end.downs \cup {e.keysym}
  BY <1>1, <1>2 DEF End, TakeDown
<1>4. Escaped(end, e) = Redo(taken, e)
  BY DEF Escaped, undone
<1> HIDE DEF taken
<1> QED BY <1>3, <1>4, CharModifiersTyped DEF End, Redo

LEMMA ThroughKeeps ==
  ASSUME NEW acc \in Chained, NEW e \in KeyEvent, e.type # "stall"
  PROVE  /\ Through(acc, e) \in Chained
         /\ Explained(acc) => Explained(Through(acc, e))
<1> DEFINE next == Track(acc.entries, e)
           end  == IF next.passed THEN Escaped(acc.end, e) ELSE TakeUps(acc.end, next.ups)
<1>1. acc.entries \in Seq(TrackEntry) /\ acc.end \in End
  BY DEF Chained, End
<1>2. /\ next.entries \in Seq(TrackEntry)
      /\ next.passed \in BOOLEAN /\ next.ups \subseteq Keysyms
      /\ next.passed =>
           e.keysym \in Keysyms
           /\ AllKeysyms(acc.entries) \cup {e.keysym} \subseteq AllKeysyms(next.entries)
      /\ ~next.passed => AllKeysyms(acc.entries) \ next.ups \subseteq AllKeysyms(next.entries)
  BY <1>1, TrackKeeps
<1> HIDE DEF next
<1>3. /\ end \in End
      /\ acc.end.downs \subseteq AllKeysyms(acc.entries) \cup Syms(CharModifiers) =>
           end.downs \subseteq AllKeysyms(next.entries) \cup Syms(CharModifiers)
  <2>1. CASE next.passed
    <3>1. end = Escaped(acc.end, e)
      BY <2>1
    <3>2. /\ Escaped(acc.end, e) \in End
          /\ Escaped(acc.end, e).downs \subseteq acc.end.downs \cup {e.keysym} \cup Syms(CharModifiers)
      BY <1>1, <1>2, <2>1, EscapedKeeps
    <3> QED BY <1>2, <2>1, <3>1, <3>2
  <2>2. CASE ~next.passed
    <3>1. end \in End /\ end.downs = acc.end.downs \ next.ups
      BY <1>1, <2>2 DEF TakeUps, End
    <3> QED BY <1>2, <2>2, <3>1
  <2> QED BY <1>2, <2>1, <2>2
<1>4. Guesses(acc.entries, e) \subseteq {"guess"}
  BY DEF Guesses
<1>5. Through(acc, e) = [entries |-> next.entries,
                         end |-> [end EXCEPT !.wrong = @ \cup Guesses(acc.entries, e)]]
  BY DEF Through, next
<1> HIDE DEF end
<1>6. /\ [end EXCEPT !.wrong = @ \cup Guesses(acc.entries, e)] \in End
      /\ [end EXCEPT !.wrong = @ \cup Guesses(acc.entries, e)].downs = end.downs
  BY <1>3, <1>4 DEF End
<1> QED BY <1>2, <1>3, <1>5, <1>6 DEF Chained, End, Explained

-----------------------------------------------------------------------------
(* The chain over the events of a queue is the function it is written as.  *)
Queued == {q \in Seq(KeyEvent) : \A i \in 1 .. Len(q) : q[i].type # "stall"}

LEMMA VerifiedTyped ==
  ASSUME NEW q \in Queued, NEW i \in 1 .. Len(q)
  PROVE  Verified(q, i) \in KeyEvent /\ Verified(q, i).type # "stall"
<1> PICK n \in Nat : n = Len(q)
  BY DEF Queued
<1>1. \A j \in 1 .. n : q[j] \in KeyEvent /\ q[j].type # "stall"
  BY ElementOfSeq DEF Queued
<1>2. CASE ~Follows(q, i)
  BY <1>1, <1>2 DEF Verified
<1>3. CASE Follows(q, i)
  <2>1. /\ i \in 1 .. n /\ i + 1 \in 1 .. n
        /\ q[i].type = "keydown" /\ q[i + 1].type = "keypress"
    BY <1>3 DEF Follows
  <2>2. q[i] \in KeyEvent /\ q[i + 1] \in KeyEvent
    BY <1>1, <2>1
  <2>3. q[i + 1].keysym \in Keysyms /\ q[i + 1].escape \in BOOLEAN
    BY <2>1, <2>2 DEF KeyEvent
  <2>4. q[i] \in [type : {"keydown", "keyup", "releaseall", "stall"}, keyId : KeyIds,
                  keysym : Keysyms \cup {NoKeysym}, escape : BOOLEAN, with : SUBSET Modifiers]
    BY <2>1, <2>2 DEF KeyEvent
  <2>5. Merged(q[i], q[i + 1]) \in KeyEvent /\ Merged(q[i], q[i + 1]).type = "keydown"
    BY <2>1, <2>3, <2>4 DEF Merged, KeyEvent
  <2> QED BY <1>3, <2>5 DEF Verified
<1> QED BY <1>2, <1>3

LEMMA AfterEventsChain ==
  ASSUME NEW q, NEW n \in Nat, n = Len(q)
  PROVE  \E f :
           /\ f[0] = [entries |-> tracked, end |-> [downs |-> down, wrong |-> amiss]]
           /\ \A i \in 1 .. n :
                f[i] = IF Follows(q, i - 1) THEN f[i - 1] ELSE Through(f[i - 1], Verified(q, i))
           /\ f[n] = AfterEvents(q)
<1> DEFINE start == [entries |-> tracked, end |-> [downs |-> down, wrong |-> amiss]]
<1> DEFINE step(f, i) == IF i = 0 THEN start
                         ELSE IF Follows(q, i - 1) THEN f[i - 1]
                         ELSE Through(f[i - 1], Verified(q, i))
           chain(f, m) == f = [i \in 0 .. m |-> step(f, i)]
<1>1. AfterEvents(q) = (CHOOSE f : chain(f, n))[n]
  BY DEF AfterEvents
<1>2. \A f, g, i : f[i - 1] = g[i - 1] => step(f, i) = step(g, i)
  OBVIOUS
<1>3. \A f : step(f, 0) = start
  OBVIOUS
<1>4. \A f, i : i # 0 =>
        step(f, i) = IF Follows(q, i - 1) THEN f[i - 1] ELSE Through(f[i - 1], Verified(q, i))
  OBVIOUS
<1> HIDE DEF step
<1>5. \A m \in Nat : \E f : chain(f, m)
  <2> DEFINE T == {m \in Nat : ~ \E f : chain(f, m)}
  <2> SUFFICES ASSUME T # {} PROVE FALSE
    OBVIOUS
  <2> PICK m \in T : \A k \in T : m <= k
    BY Smallest
  <2>1. CASE m = 0
    <3> DEFINE f == [i \in 0 .. 0 |-> start]
    <3>1. \A i \in 0 .. 0 : f[i] = step(f, i)
      BY <1>3
    <3>2. chain(f, 0)
      BY <3>1
    <3> QED BY <2>1, <3>2
  <2>2. CASE m # 0
    <3> PICK l \in Nat : m = l + 1
      <4>1. m - 1 \in Nat /\ m = (m - 1) + 1
        BY <2>2
      <4> QED BY <4>1
    <3>1. l \notin T
      OBVIOUS
    <3> PICK f : chain(f, l)
      BY <3>1
    <3> DEFINE g == [i \in 0 .. l + 1 |-> IF i <= l THEN f[i] ELSE step(f, l + 1)]
    <3>2. ASSUME NEW i \in 0 .. l + 1 PROVE g[i] = step(g, i)
      <4>1. CASE i = 0
        <5>1. g[i] = f[0] /\ 0 \in 0 .. l
          BY <4>1
        <5>2. f[0] = step(f, 0)
          BY <5>1
        <5> QED BY <1>3, <4>1, <5>1, <5>2
      <4>2. CASE i # 0
        <5>1. i - 1 \in 0 .. l /\ i - 1 \in 0 .. l + 1 /\ i - 1 <= l
          BY <4>2
        <5>2. g[i - 1] = f[i - 1]
          BY <5>1
        <5>3. step(g, i) = step(f, i)
          BY <1>2, <5>2
        <5>4. g[i] = step(f, i)
          <6>1. CASE i <= l
            <7>1. i \in 0 .. l
              BY <6>1
            <7>2. f[i] = step(f, i)
              BY <7>1
            <7> QED BY <6>1, <7>2
          <6>2. CASE ~(i <= l)
            <7>1. i = l + 1
              BY <6>2
            <7> QED BY <6>2, <7>1
          <6> QED BY <6>1, <6>2
        <5> QED BY <5>3, <5>4
      <4> QED BY <4>1, <4>2
    <3>3. chain(g, l + 1)
      BY <3>2
    <3> QED BY <3>3
  <2> QED BY <2>1, <2>2
<1> DEFINE f == CHOOSE f : chain(f, n)
<1>6. chain(f, n)
  BY <1>5
<1>7. AfterEvents(q) = f[n]
  BY <1>1
<1> HIDE DEF f
<1>8. \A i \in 0 .. n : f[i] = step(f, i)
  BY <1>6
<1> HIDE DEF chain
<1>9. f[0] = start
  BY <1>3, <1>8
<1>10. ASSUME NEW i \in 1 .. n
       PROVE  f[i] = IF Follows(q, i - 1) THEN f[i - 1] ELSE Through(f[i - 1], Verified(q, i))
  <2>1. i \in 0 .. n /\ i # 0
    OBVIOUS
  <2> QED BY <1>4, <1>8, <2>1
<1> QED BY <1>7, <1>9, <1>10

LEMMA AfterEventsKeeps ==
  ASSUME NEW q \in Queued, NEW start \in Chained,
         start = [entries |-> tracked, end |-> [downs |-> down, wrong |-> amiss]]
  PROVE  AfterEvents(q) \in Chained /\ (Explained(start) => Explained(AfterEvents(q)))
<1> PICK n \in Nat : n = Len(q)
  BY DEF Queued
<1> PICK f :
      /\ f[0] = start
      /\ \A i \in 1 .. n :
           f[i] = IF Follows(q, i - 1) THEN f[i - 1] ELSE Through(f[i - 1], Verified(q, i))
      /\ f[n] = AfterEvents(q)
  BY AfterEventsChain
<1> DEFINE good(acc) == acc \in Chained /\ (Explained(start) => Explained(acc))
<1>1. good(start)
  OBVIOUS
<1>2. ASSUME NEW acc, good(acc), NEW i \in 1 .. n PROVE good(Through(acc, Verified(q, i)))
  BY <1>2, VerifiedTyped, ThroughKeeps
<1> HIDE DEF good
<1>3. \A i \in 0 .. n : good(f[i])
  <2> DEFINE T == {i \in 0 .. n : ~ good(f[i])}
  <2> SUFFICES ASSUME T # {} PROVE FALSE
    OBVIOUS
  <2>1. T \subseteq Nat
    OBVIOUS
  <2> PICK i \in T : \A k \in T : i <= k
    BY <2>1, Smallest
  <2>2. i \in 0 .. n /\ ~ good(f[i])
    OBVIOUS
  <2>3. i # 0
    BY <1>1, <2>2
  <2>4. i \in 1 .. n /\ i - 1 \in 0 .. n /\ ~(i <= i - 1)
    BY <2>2, <2>3
  <2>5. good(f[i - 1])
    BY <2>4
  <2>6. good(Through(f[i - 1], Verified(q, i)))
    BY <1>2, <2>4, <2>5
  <2>7. f[i] = IF Follows(q, i - 1) THEN f[i - 1] ELSE Through(f[i - 1], Verified(q, i))
    BY <2>4
  <2> QED BY <2>2, <2>5, <2>6, <2>7
<1> QED BY <1>3 DEF good

-----------------------------------------------------------------------------
(* What is passed on, now or from the queue.                               *)
LEMMA PassOnKeeps ==
  ASSUME KeyboardInv, NEW q \in Queued, PassOn(q)
  PROVE  /\ tracked' \in Seq(TrackEntry)
         /\ down' \subseteq Keysyms /\ amiss' \subseteq {"guess", "third", "shortcut"}
         /\ "late" \notin faults =>
              down' \subseteq (IF grabbed THEN AllKeysyms(tracked') ELSE {}) \cup Syms(CharModifiers)
<1> DEFINE start == [entries |-> tracked, end |-> [downs |-> down, wrong |-> amiss]]
<1>1. start \in Chained
  BY DEF KeyboardInv, KeyboardTypeOK, Chained, Keysyms, Levels
<1>2. Explained(start) <=> down \subseteq AllKeysyms(tracked) \cup Syms(CharModifiers)
  BY DEF Explained
<1>3. start = [entries |-> tracked, end |-> [downs |-> down, wrong |-> amiss]]
  OBVIOUS
<1> HIDE DEF start
<1>4. AfterEvents(q) \in Chained /\ (Explained(start) => Explained(AfterEvents(q)))
  BY <1>1, <1>3, AfterEventsKeeps
<1>5. /\ tracked' = AfterEvents(q).entries
      /\ grabbed => down' = AfterEvents(q).end.downs /\ amiss' = AfterEvents(q).end.wrong
      /\ ~grabbed => down' = down /\ amiss' = amiss
  BY DEF PassOn
<1>6. /\ AfterEvents(q).entries \in Seq(TrackEntry)
      /\ AfterEvents(q).end.downs \subseteq Keysyms
      /\ AfterEvents(q).end.wrong \subseteq {"guess", "third", "shortcut"}
  BY <1>4 DEF Chained
<1>7. CASE grabbed
  BY <1>2, <1>4, <1>5, <1>6, <1>7 DEF Explained, KeyboardInv
<1>8. CASE ~grabbed
  BY <1>5, <1>6, <1>8 DEF KeyboardInv, KeyboardTypeOK, Keysyms, Levels
<1> QED BY <1>7, <1>8

LEMMA FirstStallExists ==
  ASSUME NEW q \in Seq(KeyEvent), NEW n \in Nat, n = Len(q)
  PROVE  /\ FirstStall(q) \in 1 .. n + 1
         /\ FirstStall(q) = n + 1 \/ q[FirstStall(q)].type = "stall"
         /\ \A j \in 1 .. FirstStall(q) - 1 : q[j].type # "stall"
<1> DEFINE T == {i \in 1 .. n + 1 : i = n + 1 \/ q[i].type = "stall"}
<1>1. T \subseteq Nat /\ n + 1 \in T
  OBVIOUS
<1> PICK i \in T : \A k \in T : i <= k
  BY <1>1, Smallest
<1>2. ASSUME NEW j \in 1 .. i - 1 PROVE q[j].type # "stall"
  <2>1. j \in 1 .. n + 1 /\ ~(i <= j)
    OBVIOUS
  <2> QED BY <2>1
<1>3. /\ i \in 1 .. Len(q) + 1
      /\ i = Len(q) + 1 \/ q[i].type = "stall"
      /\ \A j \in 1 .. i - 1 : q[j].type # "stall"
  BY <1>2
<1> HIDE DEF T
<1> QED BY <1>3 DEF FirstStall

LEMMA ProcessKeeps ==
  ASSUME KeyboardInv, NEW q \in Seq(KeyEvent), Process(q)
  PROVE  /\ tracked' \in Seq(TrackEntry) /\ queue' \in Seq(KeyEvent)
         /\ queue' # <<>> => timer'
         /\ down' \subseteq Keysyms /\ amiss' \subseteq {"guess", "third", "shortcut"}
         /\ "late" \notin faults =>
              down' \subseteq (IF grabbed THEN AllKeysyms(tracked') ELSE {}) \cup Syms(CharModifiers)
<1> PICK n \in Nat : n = Len(q)
  OBVIOUS
<1> PICK f \in 1 .. n + 1 : f = FirstStall(q) /\ \A j \in 1 .. f - 1 : q[j].type # "stall"
  BY FirstStallExists
<1>1. \A j \in 1 .. n : q[j] \in KeyEvent
  BY ElementOfSeq
<1>2. /\ PassOn(SubSeq(q, 1, f - 1)) /\ queue' = SubSeq(q, f + 1, n)
      /\ timer' = (f <= n)
  BY DEF Process, WaitsAtStall
<1>3. SubSeq(q, 1, f - 1) \in Queued
  <2>1. /\ SubSeq(q, 1, f - 1) \in Seq(KeyEvent) /\ Len(SubSeq(q, 1, f - 1)) = f - 1
        /\ \A j \in 1 .. f - 1 : SubSeq(q, 1, f - 1)[j] = q[j]
    BY <1>1, SubSeqProperties
  <2> QED BY <2>1 DEF Queued
<1>4. SubSeq(q, f + 1, n) \in Seq(KeyEvent)
  BY <1>1, SubSeqProperties
<1>5. SubSeq(q, f + 1, n) # <<>> => f <= n
  <2> SUFFICES ASSUME f = n + 1 PROVE SubSeq(q, f + 1, n) = <<>>
    OBVIOUS
  <2> QED BY SubSeqEmpty
<1> QED BY <1>2, <1>3, <1>4, <1>5, PassOnKeeps

LEMMA FeedKeeps ==
  ASSUME KeyboardInv, NEW events \in Seq(KeyEvent), Feed(events)
  PROVE  /\ tracked' \in Seq(TrackEntry) /\ queue' \in Seq(KeyEvent)
         /\ queue' # <<>> => timer'
         /\ down' \subseteq Keysyms /\ amiss' \subseteq {"guess", "third", "shortcut"}
         /\ "late" \notin faults =>
              down' \subseteq (IF grabbed THEN AllKeysyms(tracked') ELSE {}) \cup Syms(CharModifiers)
<1>1. CASE timer
  <2>1. queue' = queue \o events /\ queue \in Seq(KeyEvent) /\ timer'
    BY <1>1 DEF Feed, KeyboardInv
  <2>2. queue' \in Seq(KeyEvent)
    BY <2>1, ConcatProperties
  <2> QED BY <1>1, <2>1, <2>2 DEF Feed, KeyboardInv, KeyboardTypeOK, Keysyms, Levels
<1>2. CASE ~timer
  BY <1>2, ProcessKeeps DEF Feed
<1> QED BY <1>1, <1>2

-----------------------------------------------------------------------------
(* What the user, the browser and the page do.                             *)
LEMMA FedKeeps ==
  ASSUME KeyboardInv, NEW events \in Seq(KeyEvent), Feed(events),
         UNCHANGED <<platform, grabbed>>, ~(grabbed /\ platform = NoKey),
         held' \subseteq Keys, believed' \subseteq Modifiers,
         pressing' \in {NoPress} \cup [key : Keys, with : SUBSET Modifiers],
         faults \subseteq faults', faults' \subseteq {"left", "repeat", "late"}
  PROVE  KeyboardInv'
<1>1. CharModifiers' = CharModifiers
  BY DEF CharModifiers
<1> DEFINE syms == Syms(CharModifiers)
<1>2. syms' = syms
  BY <1>1 DEF Syms
<1> HIDE DEF syms
<1>3. /\ tracked' \in Seq(TrackEntry) /\ queue' \in Seq(KeyEvent)
      /\ queue' # <<>> => timer'
      /\ down' \subseteq Keysyms /\ amiss' \subseteq {"guess", "third", "shortcut"}
      /\ "late" \notin faults =>
           down' \subseteq (IF grabbed THEN AllKeysyms(tracked') ELSE {}) \cup syms
  BY FeedKeeps DEF syms
<1>4. KeyboardTypeOK'
  BY <1>3 DEF KeyboardTypeOK, Keysyms, Levels
<1>5. "late" \notin faults' =>
        down' \subseteq (IF grabbed' THEN AllKeysyms(tracked') ELSE {}) \cup syms'
  BY <1>2, <1>3
<1> QED BY <1>3, <1>4, <1>5 DEF KeyboardInv, syms

LEMMA KeyDownKeeps ==
  ASSUME KeyboardInv, NEW k \in Keys, KeyDown(k)
  PROVE  KeyboardInv'
<1> DEFINE mods  == Mods(held')
           known == believed \cup Mods({k})
           state == Synced(known, mods, k)
           stall == IF Stalls(k, state) THEN <<Stall>> ELSE <<>>
           events == SyncEvents(known, mods, k) \o stall \o <<Decoded("keydown", k, mods, state)>>
<1>1. /\ held' = held \cup {k} /\ believed' = state /\ Feed(events)
      /\ pressing' = IF Suppressed(k, state) THEN NoPress ELSE [key |-> k, with |-> mods]
      /\ faults \subseteq faults' /\ faults' \subseteq faults \cup {"repeat"}
      /\ UNCHANGED <<platform, grabbed>> /\ platform # NoKey
  BY DEF KeyDown, Acts
<1>2. held \subseteq Keys /\ believed \subseteq Modifiers /\ faults \subseteq {"left", "repeat", "late"}
  BY DEF KeyboardInv, KeyboardTypeOK
<1>3. mods \subseteq Modifiers /\ known \subseteq Modifiers /\ state \subseteq Modifiers
  BY <1>2 DEF Mods, Synced
<1>4. events \in Seq(KeyEvent)
  <2>1. SyncEvents(known, mods, k) \in Seq(KeyEvent)
    BY SyncEventsTyped
  <2>2. <<Stall>> \in Seq(KeyEvent) /\ <<>> \in Seq(KeyEvent)
    BY OneEvent, EmptySeq DEF Stall
  <2>4. stall \in Seq(KeyEvent)
    BY <2>2
  <2> HIDE DEF mods, known, state, stall
  <2>6. Decoded("keydown", k, mods, state) \in KeyEvent
    BY <1>3, EventsTyped
  <2>3. <<Decoded("keydown", k, mods, state)>> \in Seq(KeyEvent)
    BY <2>6
  <2>5. SyncEvents(known, mods, k) \o stall \in Seq(KeyEvent)
    BY <2>1, <2>4, ConcatProperties
  <2> QED BY <2>3, <2>5, ConcatProperties
<1> HIDE DEF mods, known, state, stall, events
<1>5. pressing' \in {NoPress} \cup [key : Keys, with : SUBSET Modifiers]
  BY <1>1, <1>3
<1> QED BY <1>1, <1>2, <1>3, <1>4, <1>5, FedKeeps

LEMMA KeyUpKeeps ==
  ASSUME KeyboardInv, NEW k \in Keys, KeyUp(k)
  PROVE  KeyboardInv'
<1> DEFINE mods  == Mods(held')
           known == believed \ {k}
           state == Synced(known, mods, k)
           events == SyncEvents(known, mods, k) \o <<Decoded("keyup", k, mods, state)>>
<1>1. /\ held' = held \ {k} /\ believed' = state /\ Feed(events)
      /\ UNCHANGED <<platform, grabbed, pressing, faults>> /\ platform # NoKey
  BY DEF KeyUp, Acts
<1>2. /\ held \subseteq Keys /\ believed \subseteq Modifiers /\ faults \subseteq {"left", "repeat", "late"}
      /\ pressing \in {NoPress} \cup [key : Keys, with : SUBSET Modifiers]
  BY DEF KeyboardInv, KeyboardTypeOK
<1>3. mods \subseteq Modifiers /\ known \subseteq Modifiers /\ state \subseteq Modifiers
  BY <1>2 DEF Mods, Synced
<1>4. events \in Seq(KeyEvent)
  <2>1. SyncEvents(known, mods, k) \in Seq(KeyEvent)
    BY SyncEventsTyped
  <2>2. <<Decoded("keyup", k, mods, state)>> \in Seq(KeyEvent)
    BY <1>3, EventsTyped
  <2> QED BY <2>1, <2>2, ConcatProperties
<1> HIDE DEF mods, known, state, events
<1> QED BY <1>1, <1>2, <1>3, <1>4, FedKeeps

LEMMA MouseMovesKeeps ==
  ASSUME KeyboardInv, MouseMoves
  PROVE  KeyboardInv'
<1>1. /\ believed' = Synced(believed, Mods(held), NoKey)
      /\ Feed(SyncEvents(believed, Mods(held), NoKey))
      /\ UNCHANGED <<platform, grabbed, held, pressing, faults>> /\ platform # NoKey
  BY DEF MouseMoves, Acts
<1>2. /\ held \subseteq Keys /\ believed \subseteq Modifiers /\ faults \subseteq {"left", "repeat", "late"}
      /\ pressing \in {NoPress} \cup [key : Keys, with : SUBSET Modifiers]
  BY DEF KeyboardInv, KeyboardTypeOK
<1>3. Synced(believed, Mods(held), NoKey) \subseteq Modifiers
  BY <1>2 DEF Mods, Synced
<1>4. SyncEvents(believed, Mods(held), NoKey) \in Seq(KeyEvent)
  BY SyncEventsTyped
<1> QED BY <1>1, <1>2, <1>3, <1>4, FedKeeps

LEMMA KeyPressKeeps ==
  ASSUME KeyboardInv, KeyPress
  PROVE  KeyboardInv'
<1>1. /\ held \subseteq Keys /\ believed \subseteq Modifiers /\ faults \subseteq {"left", "repeat", "late"}
      /\ pressing \in [key : Keys, with : SUBSET Modifiers] /\ ~(grabbed /\ platform = NoKey)
  BY DEF KeyboardInv, KeyboardTypeOK, KeyPress
<1>2. pressing.key \in Keys /\ pressing.with \subseteq Modifiers
  BY <1>1
<1>3. Level(pressing.key, pressing.with) \in Levels /\ "plain" \in Levels
  BY <1>2, EventsTyped DEF Levels
<1> PICK level \in Levels : Feed(<<DecodedPress(pressing.key, level, pressing.with, believed)>>)
  BY <1>3 DEF KeyPress
<1>4. <<DecodedPress(pressing.key, level, pressing.with, believed)>> \in Seq(KeyEvent)
  <2>1. DecodedPress(pressing.key, level, pressing.with, believed) \in KeyEvent
    BY <1>2, EventsTyped
  <2> QED BY <2>1
<1>5. /\ UNCHANGED <<platform, grabbed, held, believed, faults>> /\ pressing' = NoPress
  BY DEF KeyPress
<1> QED BY <1>1, <1>4, <1>5, FedKeeps

LEMMA BlurKeeps ==
  ASSUME KeyboardInv, Blur
  PROVE  KeyboardInv'
<1>1. /\ Feed(<<Event("releaseall", NoId, NoKeysym, {})>>)
      /\ held' \in {held, {}} /\ faults' = faults \cup {"left"}
      /\ UNCHANGED <<platform, grabbed, believed, pressing>> /\ platform # NoKey
  BY DEF Blur, Acts, ReleaseAll
<1>2. /\ held \subseteq Keys /\ believed \subseteq Modifiers /\ faults \subseteq {"left", "repeat", "late"}
      /\ pressing \in {NoPress} \cup [key : Keys, with : SUBSET Modifiers]
  BY DEF KeyboardInv, KeyboardTypeOK
<1>3. <<Event("releaseall", NoId, NoKeysym, {})>> \in Seq(KeyEvent)
  BY OneEvent
<1>4. held' \subseteq Keys
  BY <1>1, <1>2
<1> QED BY <1>1, <1>2, <1>3, <1>4, FedKeeps

LEMMA TimerFiresKeeps ==
  ASSUME KeyboardInv, TimerFires
  PROVE  KeyboardInv'
<1>1. /\ Process(queue) /\ timer
      /\ UNCHANGED <<platform, grabbed, held, believed, pressing, faults>>
  BY DEF TimerFires
<1>2. queue \in Seq(KeyEvent) /\ ~(grabbed /\ platform = NoKey)
  BY <1>1 DEF KeyboardInv
<1>3. CharModifiers' = CharModifiers
  BY <1>1 DEF CharModifiers
<1> DEFINE syms == Syms(CharModifiers)
<1>4. syms' = syms
  BY <1>3 DEF Syms
<1> HIDE DEF syms
<1>5. /\ tracked' \in Seq(TrackEntry) /\ queue' \in Seq(KeyEvent)
      /\ queue' # <<>> => timer'
      /\ down' \subseteq Keysyms /\ amiss' \subseteq {"guess", "third", "shortcut"}
      /\ "late" \notin faults =>
           down' \subseteq (IF grabbed THEN AllKeysyms(tracked') ELSE {}) \cup syms
  BY <1>1, <1>2, ProcessKeeps DEF syms
<1>6. KeyboardTypeOK'
  BY <1>1, <1>5 DEF KeyboardInv, KeyboardTypeOK, Keysyms, Levels
<1>7. pressing' \in {NoPress} \cup [key : Keys, with : SUBSET Modifiers]
  BY <1>1 DEF KeyboardInv
<1>8. "late" \notin faults' =>
        down' \subseteq (IF grabbed' THEN AllKeysyms(tracked') ELSE {}) \cup syms'
  BY <1>1, <1>4, <1>5
<1>9. grabbed' /\ platform' = NoKey => FALSE
  BY <1>1, <1>2
<1> QED BY <1>5, <1>6, <1>7, <1>8, <1>9 DEF KeyboardInv, syms

LEMMA TurnToKeeps ==
  ASSUME KeyboardInv, TurnTo
  PROVE  KeyboardInv'
<1>1. /\ grabbed /\ platform = NoKey /\ platform' # NoKey /\ held' \subseteq OnKeyboard'
      /\ UNCHANGED <<grabbed, believed, queue, timer, tracked, pressing, down, amiss, faults>>
  BY KeyboardAssumption DEF TurnTo
<1>2. OnKeyboard' \subseteq Keys
  BY DEF OnKeyboard, CharModifiers, CharModifierOf, Keys, Modifiers
<1>3. down = {}
  BY <1>1 DEF KeyboardInv
<1>4. KeyboardTypeOK'
  BY <1>1, <1>2 DEF KeyboardInv, KeyboardTypeOK
<1>5. tracked' \in Seq(TrackEntry) /\ queue' \in Seq(KeyEvent)
      /\ pressing' \in {NoPress} \cup [key : Keys, with : SUBSET Modifiers]
  BY <1>1 DEF KeyboardInv
<1> QED BY <1>1, <1>3, <1>4, <1>5 DEF KeyboardInv

LEMMA GrabKeeps ==
  ASSUME Grab
  PROVE  KeyboardInv'
<1>1. tracked' \in Seq(TrackEntry) /\ queue' \in Seq(KeyEvent)
  BY EmptySeq DEF Grab
<1> QED BY <1>1 DEF Grab, KeyboardInv, KeyboardTypeOK

LEMMA UngrabKeeps ==
  ASSUME KeyboardInv, Ungrab
  PROVE  KeyboardInv'
<1>1. /\ grabbed' = FALSE /\ tracked' = <<>> /\ queue' = <<>> /\ timer' = FALSE
      /\ platform' = NoKey /\ held' = {} /\ believed' = {} /\ pressing' = pressing
  BY DEF Ungrab
<1>2. tracked' \in Seq(TrackEntry) /\ queue' \in Seq(KeyEvent)
  BY <1>1, EmptySeq
<1>3. /\ down' \subseteq Keysyms /\ amiss' \subseteq {"guess", "third", "shortcut"}
      /\ faults' \subseteq {"left", "repeat", "late"}
      /\ "late" \notin faults' => down' \subseteq Syms(CharModifiers)
  <2>1. CASE timer
    BY <2>1 DEF Ungrab, KeyboardInv, KeyboardTypeOK, Keysyms, Levels
  <2>2. CASE ~timer
    <3>1. PassOn(<<Event("releaseall", NoId, NoKeysym, {})>>) /\ faults' = faults
      BY <2>2 DEF Ungrab
    <3>2. <<Event("releaseall", NoId, NoKeysym, {})>> \in Queued
      <4>1. Event("releaseall", NoId, NoKeysym, {}).type # "stall"
        BY DEF Event
      <4> QED BY <4>1, OneEvent DEF Queued
    <3>3. AllKeysyms(tracked') = {}
      BY <1>1 DEF AllKeysyms
    <3> QED BY <3>1, <3>2, <3>3, PassOnKeeps DEF KeyboardInv, KeyboardTypeOK
  <2> QED BY <2>1, <2>2
<1>4. Syms(CharModifiers) \subseteq Syms(CharModifiers)'
  <2>1. CharModifiers' = CharModifierOf(NoKey)
    BY <1>1 DEF CharModifiers
  <2>2. CharModifierOf(NoKey) = {"Alt", "Control", "Level3"}
    BY KeyboardAssumption DEF CharModifierOf
  <2>3. CharModifiers \subseteq CharModifiers'
    BY <2>1, <2>2, CharModifiersTyped
  <2> QED BY <2>3 DEF Syms
<1>5. KeyboardTypeOK'
  BY <1>1, <1>3 DEF KeyboardTypeOK, Keysyms, Levels
<1>6. pressing' \in {NoPress} \cup [key : Keys, with : SUBSET Modifiers]
  BY <1>1 DEF KeyboardInv
<1>7. "late" \notin faults' => down' \subseteq Syms(CharModifiers)'
  BY <1>3, <1>4
<1> QED BY <1>1, <1>2, <1>5, <1>6, <1>7 DEF KeyboardInv

LEMMA ForgetKeeps ==
  ASSUME KeyboardInv, Forget
  PROVE  KeyboardInv'
BY DEF Forget, KeyboardInv, KeyboardTypeOK

(* Nothing of the keyboard but the focus, or a keypress event is not owed  *)
(* any more.                                                               *)
LEMMA KeyboardSame ==
  ASSUME KeyboardInv,
         UNCHANGED <<platform, grabbed, held, believed, queue, timer, tracked, down, amiss, faults>>,
         pressing' \in {pressing, NoPress}
  PROVE  KeyboardInv'
<1>1. CharModifiers' = CharModifiers
  BY DEF CharModifiers
<1>2. KeyboardTypeOK'
  BY DEF KeyboardInv, KeyboardTypeOK
<1> QED BY <1>1, <1>2 DEF KeyboardInv, Syms, AllKeysyms

LEMMA KeyboardStarts ==
  ASSUME KeyboardInit
  PROVE  KeyboardInv
<1>1. tracked \in Seq(TrackEntry) /\ queue \in Seq(KeyEvent)
  BY EmptySeq DEF KeyboardInit
<1> QED BY <1>1 DEF KeyboardInit, KeyboardInv, KeyboardTypeOK

LEMMA KeyboardNext ==
  ASSUME KeyboardInv, BrowserNext
  PROVE  KeyboardInv'
<1>1. CASE ConsoleOpens
  BY <1>1, GrabKeeps, KeyboardSame DEF ConsoleOpens, keyVars
<1>2. CASE PageStep
  <2>1. KeyboardFollows
    BY <1>2 DEF PageStep
  <2> QED BY <2>1, ForgetKeeps, UngrabKeeps, KeyboardSame DEF KeyboardFollows, keyVars
<1>3. CASE UserNavigates
  BY <1>3, KeyboardSame DEF UserNavigates, keyVars
<1>4. CASE Types
  <2>1. ASSUME NEW k \in Letters \cup Odd \cup OnKeyboard, KeyDown(k) \/ KeyUp(k) PROVE KeyboardInv'
    <3>1. k \in Keys
      BY CharModifiersTyped DEF Keys
    <3> QED BY <2>1, <3>1, KeyDownKeeps, KeyUpKeeps
  <2>2. CASE Focus
    BY <2>2, KeyboardSame DEF Focus, Acts
  <2>3. CASE NoKeyPress
    BY <2>3, KeyboardSame DEF NoKeyPress
  <2> QED BY <1>4, <2>1, <2>2, <2>3, TurnToKeeps, MouseMovesKeeps, BlurKeeps, KeyPressKeeps,
             TimerFiresKeeps DEF Types, UserTypes
<1> QED BY <1>1, <1>2, <1>3, <1>4 DEF BrowserNext

(* The page forgets no key that is down at the other end, whatever keys,   *)
(* timers, focus and the end of the connection do: the filters of          *)
(* keyboard.js and the handlers of input.js.                               *)
THEOREM KeysAreRemembered == BrowserSpec => []NoKeyIsForgotten
<1>1. BrowserInit => KeyboardInv
  BY KeyboardStarts DEF BrowserInit
<1>2. KeyboardInv /\ [BrowserNext]_browserVars => KeyboardInv'
  BY KeyboardNext, KeyboardSame DEF browserVars, keyVars
<1>3. KeyboardInv => NoKeyIsForgotten
  BY DEF KeyboardInv, NoKeyIsForgotten, DownIsTracked
<1> QED BY <1>1, <1>2, <1>3, PTL DEF BrowserSpec

-----------------------------------------------------------------------------
(* What the filters are at between two events, when the page saw them all: *)
(* the keys held, the modifiers believed held, and the key that repeats.   *)
Moment == [held : SUBSET Keys, believed : SUBSET Modifiers, last : KeyIds]

(* The key of an entry; those that sync made up name none.                 *)
KeyOf(x) == IF x.keyId = NoId THEN (CHOOSE sym \in x.keysyms : TRUE)[1] ELSE x.keyId[1]

EntryRight(x) ==
  /\ x.keysyms \subseteq {KeyOf(x)} \X Levels
  /\ x.keyId = NoId => \E m \in Modifiers : x.keysyms = {<<m, "plain">>}
  /\ KeyOf(x) \in Modifiers => <<KeyOf(x), "plain">> \in x.keysyms

(* One entry for each key the page knows of, the key that repeats last.    *)
EntriesRight(t, s) ==
  /\ \A i \in DOMAIN t :
       /\ EntryRight(t[i]) /\ KeyOf(t[i]) \in s.held
       /\ KeyOf(t[i]) \in Modifiers => KeyOf(t[i]) \in s.believed
  /\ \A i, j \in DOMAIN t : KeyOf(t[i]) = KeyOf(t[j]) => i = j
  /\ \A m \in s.believed : \E i \in DOMAIN t : KeyOf(t[i]) = m
  /\ s.last # NoId => t # <<>> /\ t[Len(t)].keyId = s.last

EndRight(downs, B) == \A m \in Modifiers : <<m, "plain">> \in downs <=> m \in B

Good(acc, s) ==
  EntriesRight(acc.entries, s) /\ EndRight(acc.end.downs, s.believed) /\ acc.end.wrong = {}

(* A guess excuses all that follows it.                                    *)
Sound(acc, s) == "guess" \in acc.end.wrong \/ Good(acc, s)

-----------------------------------------------------------------------------
(* From one moment to the next by an event, C the character modifier.      *)
TypedWith(C, e, B) ==
  /\ e.with \cap Flagged \subseteq B
  /\ e.escape => C \subseteq B
  /\ e.keysym[2] = "third" => e.escape \/ C \cap B = {}

Stalled(e, s, t) == e.type = "stall" /\ t = s

ModifierDown(e, s, t) ==
  /\ e.type = "keydown" /\ ~e.escape
  /\ \E m \in Modifiers \ s.believed :
       /\ e.keyId = NoId \/ e.keyId[1] = m
       /\ e.keysym = <<m, "plain">>
       /\ t = [held |-> s.held \cup {m}, believed |-> s.believed \cup {m}, last |-> NoId]

CharacterDown(C, e, s, t) ==
  /\ e.type = "keydown" /\ e.keyId[1] \in Keys \ Modifiers
  /\ e.keysym \in {NoKeysym} \cup ({e.keyId[1]} \X Levels)
  /\ e.keyId[1] \notin s.held \/ e.keyId = s.last
  /\ TypedWith(C, e, s.believed)
  /\ t = [held |-> s.held \cup {e.keyId[1]}, believed |-> s.believed, last |-> e.keyId]

Pressed(C, e, s, t) ==
  /\ e.type = "keypress" /\ s.last[1] \in Keys \ Modifiers
  /\ e.keysym \in {s.last[1]} \X Levels
  /\ TypedWith(C, e, s.believed)
  /\ t = s

KeyIsUp(e, s, t) ==
  /\ e.type = "keyup" /\ e.keyId[1] \in Keys
  /\ t = [held |-> s.held \ {e.keyId[1]}, believed |-> s.believed \ {e.keyId[1]},
          last |-> IF e.keyId[1] \in Modifiers \/ s.last[1] = e.keyId[1] THEN NoId ELSE s.last]

Fits(C, e, s, t) ==
  Stalled(e, s, t) \/ ModifierDown(e, s, t) \/ CharacterDown(C, e, s, t) \/ Pressed(C, e, s, t)
  \/ KeyIsUp(e, s, t)

(* The events q lead from s to t.                                          *)
LeadsOver(C, q, at) ==
  \A i \in 1 .. Len(q) :
    Fits(C, q[i], at[i - 1], at[i]) /\ (q[i].type = "keydown" => ~q[i].escape)

Leads(C, q, s, t) ==
  \E at \in [0 .. Len(q) -> Moment] : at[0] = s /\ at[Len(q)] = t /\ LeadsOver(C, q, at)

-----------------------------------------------------------------------------
LEMMA KeyOfNamed ==
  ASSUME NEW x, x.keyId # NoId
  PROVE  KeyOf(x) = x.keyId[1]
BY DEF KeyOf

LEMMA KeyOfModifier ==
  ASSUME NEW x, NEW m, x.keyId = NoId, x.keysyms = {<<m, "plain">>}
  PROVE  KeyOf(x) = m
<1>1. (CHOOSE sym \in x.keysyms : TRUE) = <<m, "plain">>
  OBVIOUS
<1> QED BY <1>1 DEF KeyOf

LEMMA NamesKey ==
  ASSUME NEW id, id[1] \in Keys
  PROVE  id # NoId
<1>1. NoKey \notin Keys /\ NoId[1] = NoKey
  BY KeyboardAssumption DEF Keys, NoId
<1> QED BY <1>1

(* A new entry behind the n entries t.                                     *)
Gained(t, n, id, keysyms, u) ==
  /\ u \in Seq(TrackEntry) /\ Len(u) = n + 1 /\ \A i \in 1 .. n : u[i] = t[i]
  /\ u[n + 1].keyId = id /\ u[n + 1].keysyms = keysyms

(* A new entry, of a key that has none.                                    *)
LEMMA NewEntry ==
  ASSUME NEW n \in Nat, NEW t \in Seq(TrackEntry), Len(t) = n,
         NEW id, NEW keysyms, NEW u, Gained(t, n, id, keysyms, u),
         NEW s \in Moment, EntriesRight(t, s), NEW w \in Moment,
         NEW k, k = KeyOf(u[n + 1]), EntryRight(u[n + 1]),
         \A i \in 1 .. n : KeyOf(t[i]) # k,
         w.held = s.held \cup {k}, w.believed = s.believed \cup ({k} \cap Modifiers),
         w.last # NoId => id = w.last
  PROVE  EntriesRight(u, w)
<1>0. /\ u \in Seq(TrackEntry) /\ Len(u) = n + 1 /\ \A i \in 1 .. n : u[i] = t[i]
      /\ u[n + 1].keyId = id
  BY DEF Gained
<1>1. DOMAIN t = 1 .. n /\ DOMAIN u = 1 .. n + 1 /\ u # <<>>
  BY <1>0, EmptySeq, LenProperties
<1>2. ASSUME NEW i \in 1 .. n + 1 PROVE i \in 1 .. n \/ i = n + 1
  OBVIOUS
<1>3. 1 .. n \subseteq 1 .. n + 1 /\ n + 1 \in 1 .. n + 1
  OBVIOUS
<1>4. ASSUME NEW i \in 1 .. n + 1
      PROVE  /\ EntryRight(u[i]) /\ KeyOf(u[i]) \in w.held
             /\ KeyOf(u[i]) \in Modifiers => KeyOf(u[i]) \in w.believed
  <2>1. CASE i \in 1 .. n
    <3>1. /\ EntryRight(t[i]) /\ KeyOf(t[i]) \in s.held
          /\ KeyOf(t[i]) \in Modifiers => KeyOf(t[i]) \in s.believed
      BY <1>1, <2>1 DEF EntriesRight
    <3> QED BY <1>0, <2>1, <3>1
  <2>2. CASE i = n + 1
    BY <2>2
  <2> QED BY <1>2, <2>1, <2>2
<1>5. ASSUME NEW i \in 1 .. n + 1, NEW j \in 1 .. n + 1, KeyOf(u[i]) = KeyOf(u[j]) PROVE i = j
  <2>1. CASE i \in 1 .. n /\ j \in 1 .. n
    <3>1. KeyOf(t[i]) = KeyOf(t[j])
      BY <1>0, <1>5, <2>1
    <3> QED BY <1>1, <2>1, <3>1 DEF EntriesRight
  <2>2. CASE i \in 1 .. n /\ j = n + 1
    BY <1>0, <1>5, <2>2
  <2>3. CASE j \in 1 .. n /\ i = n + 1
    BY <1>0, <1>5, <2>3
  <2> QED BY <1>2, <2>1, <2>2, <2>3
<1>6. ASSUME NEW m \in w.believed PROVE \E i \in 1 .. n + 1 : KeyOf(u[i]) = m
  <2>1. CASE m \in s.believed
    <3> PICK i \in 1 .. n : KeyOf(t[i]) = m
      BY <1>1, <2>1 DEF EntriesRight
    <3> QED BY <1>0, <1>3
  <2>2. CASE m = k
    BY <1>3, <2>2
  <2> QED BY <2>1, <2>2
<1> QED BY <1>0, <1>1, <1>4, <1>5, <1>6 DEF EntriesRight

(* The last of the n entries t has more keysyms.                           *)
LastGets(t, n, more, u) ==
  /\ u \in Seq(TrackEntry) /\ Len(u) = n /\ \A i \in 1 .. n : i # n => u[i] = t[i]
  /\ u[n].keyId = t[n].keyId /\ u[n].keysyms = t[n].keysyms \cup more

(* The last entry gets another keysym of its key.                          *)
LEMMA SameEntry ==
  ASSUME NEW n \in Nat, NEW t \in Seq(TrackEntry), Len(t) = n, n # 0,
         NEW more, NEW u, LastGets(t, n, more, u),
         NEW s \in Moment, EntriesRight(t, s), s.last # NoId,
         more \subseteq {s.last[1]} \X Levels
  PROVE  EntriesRight(u, s)
<1>0. /\ u \in Seq(TrackEntry) /\ Len(u) = n /\ \A i \in 1 .. n : i # n => u[i] = t[i]
      /\ u[n].keyId = t[n].keyId /\ u[n].keysyms = t[n].keysyms \cup more
  BY DEF LastGets
<1>1. DOMAIN t = 1 .. n /\ DOMAIN u = 1 .. n /\ u # <<>> /\ n \in 1 .. n
  BY <1>0, EmptySeq, LenProperties
<1>2. t[n].keyId = s.last /\ KeyOf(t[n]) = s.last[1] /\ KeyOf(u[n]) = s.last[1]
  BY <1>0, <1>1, KeyOfNamed DEF EntriesRight
<1>3. \A i \in 1 .. n : KeyOf(u[i]) = KeyOf(t[i])
  BY <1>0, <1>2
<1>4. EntryRight(t[n])
  BY <1>1 DEF EntriesRight
<1>5. EntryRight(u[n])
  BY <1>0, <1>2, <1>4 DEF EntryRight
<1>6. ASSUME NEW i \in 1 .. n PROVE EntryRight(u[i])
  BY <1>0, <1>1, <1>5 DEF EntriesRight
<1> QED BY <1>0, <1>1, <1>2, <1>3, <1>6 DEF EntriesRight

(* The entry of a key that comes up is removed.                            *)
LEMMA EntryGone ==
  ASSUME NEW n \in Nat, NEW t \in Seq(TrackEntry), n = Len(t), NEW r \in 1 .. n,
         NEW s \in Moment, EntriesRight(t, s), NEW w \in Moment, NEW k, k = KeyOf(t[r]),
         w.held = s.held \ {k}, w.believed = s.believed \ {k},
         w.last # NoId => w.last = s.last /\ s.last # NoId /\ s.last[1] # k
  PROVE  EntriesRight(RemoveAt(t, r), w)
<1>1. RemoveAt(t, r) \in Seq(TrackEntry) /\ Removed(t, r, n, RemoveAt(t, r))
  BY WithoutOne
<1> PICK u \in Seq(TrackEntry) : u = RemoveAt(t, r) /\ Removed(t, r, n, u)
  BY <1>1
<1>3. /\ Len(u) = n - 1 /\ DOMAIN u = 1 .. n - 1 /\ DOMAIN t = 1 .. n
      /\ \A j \in 1 .. n - 1 : u[j] = t[IF j < r THEN j ELSE j + 1]
      /\ \A i \in 1 .. n : i # r => \E j \in 1 .. n - 1 : u[j] = t[i]
  BY LenProperties DEF Removed
<1>4. ASSUME NEW j \in 1 .. n - 1
      PROVE  \E i \in 1 .. n : i # r /\ u[j] = t[i] /\ i = IF j < r THEN j ELSE j + 1
  <2>1. CASE j < r
    <3>1. j \in 1 .. n /\ j # r
      BY <2>1
    <3> QED BY <1>3, <2>1, <3>1
  <2>2. CASE ~(j < r)
    <3>1. j + 1 \in 1 .. n /\ j + 1 # r
      BY <2>2
    <3> QED BY <1>3, <2>2, <3>1
  <2> QED BY <2>1, <2>2
<1>5. \A i \in 1 .. n : i # r => KeyOf(t[i]) # k
  BY <1>3 DEF EntriesRight
<1>6. ASSUME NEW j \in 1 .. n - 1
      PROVE  /\ EntryRight(u[j]) /\ KeyOf(u[j]) \in w.held
             /\ KeyOf(u[j]) \in Modifiers => KeyOf(u[j]) \in w.believed
  <2> PICK i \in 1 .. n : i # r /\ u[j] = t[i]
    BY <1>4
  <2>1. /\ EntryRight(t[i]) /\ KeyOf(t[i]) \in s.held
        /\ KeyOf(t[i]) \in Modifiers => KeyOf(t[i]) \in s.believed
    BY <1>3 DEF EntriesRight
  <2> QED BY <1>5, <2>1
<1>7. ASSUME NEW j \in 1 .. n - 1, NEW l \in 1 .. n - 1, KeyOf(u[j]) = KeyOf(u[l]) PROVE j = l
  <2> PICK i \in 1 .. n : i # r /\ u[j] = t[i] /\ i = IF j < r THEN j ELSE j + 1
    BY <1>4
  <2> PICK h \in 1 .. n : h # r /\ u[l] = t[h] /\ h = IF l < r THEN l ELSE l + 1
    BY <1>4
  <2>1. i = h
    <3>1. KeyOf(t[i]) = KeyOf(t[h])
      BY <1>7
    <3> QED BY <1>3, <3>1 DEF EntriesRight
  <2>2. (IF j < r THEN j ELSE j + 1) = (IF l < r THEN l ELSE l + 1)
    BY <2>1
  <2> QED BY <2>2
<1>8. ASSUME NEW m \in w.believed PROVE \E j \in 1 .. n - 1 : KeyOf(u[j]) = m
  <2> PICK i \in 1 .. n : KeyOf(t[i]) = m
    BY <1>3 DEF EntriesRight
  <2>1. i # r
    OBVIOUS
  <2>2. \E j \in 1 .. n - 1 : u[j] = t[i]
    BY <1>3, <2>1
  <2> QED BY <2>2
<1>9. ASSUME w.last # NoId PROVE u # <<>> /\ u[Len(u)].keyId = w.last
  <2>1. t # <<>> /\ t[n].keyId = s.last
    BY <1>9 DEF EntriesRight
  <2>2. KeyOf(t[n]) # k
    BY <1>9, <2>1, KeyOfNamed
  <2>3. n # r /\ n \in 1 .. n
    BY <2>2
  <2>4. n - 1 \in 1 .. n - 1 /\ ~(n - 1 < r) /\ (n - 1) + 1 = n
    BY <2>3
  <2>5. u[n - 1] = t[n]
    BY <1>3, <2>4
  <2>6. u # <<>>
    BY <1>3, <2>4, EmptySeq
  <2> QED BY <1>3, <1>9, <2>1, <2>5, <2>6
<1> QED BY <1>3, <1>6, <1>7, <1>8, <1>9 DEF EntriesRight

-----------------------------------------------------------------------------
(* What a key down makes of the entries.                                   *)
Passed(e) == IF e.keysym = NoKeysym THEN {} ELSE {e.keysym}

LEMMA WithKeysymIs ==
  ASSUME NEW t \in Seq(TrackEntry), NEW n \in Nat, n = Len(t), n # 0,
         NEW keysym \in Keysyms, NEW ignore \in BOOLEAN
  PROVE  LastGets(t, n, {keysym}, WithKeysym(t, keysym, ignore))
<1>1. n \in 1 .. n /\ DOMAIN t = 1 .. n /\ \A i \in 1 .. n : t[i] \in TrackEntry
  BY LenProperties, ElementOfSeq
<1> DEFINE last == [t[n] EXCEPT !.keysyms = @ \cup {keysym}, !.ignoreKeyPress = @ \/ ignore]
<1>2. t[n] \in TrackEntry
  BY <1>1
<1>3. last \in TrackEntry /\ last.keysyms = t[n].keysyms \cup {keysym} /\ last.keyId = t[n].keyId
  BY <1>2 DEF TrackEntry
<1>4. WithKeysym(t, keysym, ignore) = [t EXCEPT ![n] = last]
  BY DEF WithKeysym
<1> HIDE DEF last
<1>5. [t EXCEPT ![n] = last] \in Seq(TrackEntry) /\ Len([t EXCEPT ![n] = last]) = n
  BY <1>1, <1>3, ExceptSeq
<1>6. \A i \in 1 .. n : [t EXCEPT ![n] = last][i] = IF i = n THEN last ELSE t[i]
  BY <1>1
<1> QED BY <1>1, <1>3, <1>4, <1>5, <1>6 DEF LastGets

LEMMA DownAppends ==
  ASSUME NEW t \in Seq(TrackEntry), NEW n \in Nat, n = Len(t), NEW e \in KeyEvent,
         n # 0 => e.keyId = NoId \/ t[n].keyId # e.keyId
  PROVE  LET next == TrackDown(t, e) IN
         /\ next.passed = (e.keysym # NoKeysym) /\ next.ups = {}
         /\ Gained(t, n, e.keyId, Passed(e), next.entries)
<1> DEFINE a == Append(t, Entry(e.keyId))
<1>1. /\ a \in Seq(TrackEntry) /\ Len(a) = n + 1 /\ \A i \in 1 .. n : a[i] = t[i]
      /\ a[n + 1].keyId = e.keyId /\ a[n + 1].keysyms = {}
  <2>1. Entry(e.keyId) \in TrackEntry
    BY EntryTyped
  <2>2. Entry(e.keyId).keyId = e.keyId /\ Entry(e.keyId).keysyms = {}
    BY DEF Entry
  <2>3. /\ a \in Seq(TrackEntry) /\ Len(a) = n + 1 /\ \A i \in 1 .. n : a[i] = t[i]
        /\ a[n + 1] = Entry(e.keyId)
    BY <2>1, AppendProperties
  <2> QED BY <2>2, <2>3
<1>2. t = <<>> \/ e.keyId = NoId \/ Last(t).keyId # e.keyId
  <2>1. t # <<>> => n # 0
    BY EmptySeq
  <2> QED BY <2>1 DEF Last
<1>3. TrackDown(t, e) = IF e.keysym = NoKeysym THEN Tracked(a, FALSE, {})
                        ELSE Tracked(WithKeysym(a, e.keysym, TRUE), TRUE, {})
  BY <1>2 DEF TrackDown
<1> HIDE DEF a
<1>4. CASE e.keysym = NoKeysym
  <2>1. TrackDown(t, e).entries = a /\ TrackDown(t, e).passed = FALSE /\ TrackDown(t, e).ups = {}
    BY <1>3, <1>4 DEF Tracked
  <2>2. Passed(e) = {} /\ (e.keysym # NoKeysym) = FALSE
    BY <1>4 DEF Passed
  <2> QED BY <1>1, <2>1, <2>2 DEF Gained
<1>5. CASE e.keysym # NoKeysym
  <2>1. e.keysym \in Keysyms
    BY <1>5 DEF KeyEvent
  <2> PICK m \in Nat : m = n + 1 /\ m # 0
    OBVIOUS
  <2>5. m = Len(a) /\ TRUE \in BOOLEAN
    BY <1>1
  <2>2. LastGets(a, m, {e.keysym}, WithKeysym(a, e.keysym, TRUE))
    BY <1>1, <2>1, <2>5, WithKeysymIs
  <2>3. \A i \in 1 .. n : i \in 1 .. m /\ i # m
    OBVIOUS
  <2>4. /\ TrackDown(t, e).entries = WithKeysym(a, e.keysym, TRUE)
        /\ TrackDown(t, e).passed = TRUE /\ TrackDown(t, e).ups = {}
    BY <1>3, <1>5 DEF Tracked
  <2> QED BY <1>1, <1>5, <2>2, <2>3, <2>4 DEF Passed, LastGets, Gained
<1> QED BY <1>4, <1>5

LEMMA DownStays ==
  ASSUME NEW t \in Seq(TrackEntry), NEW n \in Nat, n = Len(t), n # 0, NEW e \in KeyEvent,
         e.keyId # NoId, t[n].keyId = e.keyId
  PROVE  LET next == TrackDown(t, e) IN
         /\ next.passed = (e.keysym # NoKeysym) /\ next.ups = {}
         /\ LastGets(t, n, Passed(e), next.entries)
<1>1. ~(t = <<>> \/ e.keyId = NoId \/ Last(t).keyId # e.keyId)
  <2>1. t # <<>>
    BY EmptySeq
  <2> QED BY <2>1 DEF Last
<1>2. TrackDown(t, e) = IF e.keysym = NoKeysym THEN Tracked(t, FALSE, {})
                        ELSE Tracked(WithKeysym(t, e.keysym, TRUE), TRUE, {})
  BY <1>1 DEF TrackDown
<1>3. CASE e.keysym = NoKeysym
  <2>1. TrackDown(t, e).entries = t /\ TrackDown(t, e).passed = FALSE /\ TrackDown(t, e).ups = {}
    BY <1>2, <1>3 DEF Tracked
  <2>2. Passed(e) = {} /\ (e.keysym # NoKeysym) = FALSE
    BY <1>3 DEF Passed
  <2> QED BY <2>1, <2>2 DEF LastGets
<1>4. CASE e.keysym # NoKeysym
  <2>1. e.keysym \in Keysyms
    BY <1>4 DEF KeyEvent
  <2>2. /\ TrackDown(t, e).entries = WithKeysym(t, e.keysym, TRUE)
        /\ TrackDown(t, e).passed = TRUE /\ TrackDown(t, e).ups = {}
    BY <1>2, <1>4 DEF Tracked
  <2>3. LastGets(t, n, {e.keysym}, WithKeysym(t, e.keysym, TRUE))
    BY <2>1, WithKeysymIs
  <2>4. Passed(e) = {e.keysym} /\ (e.keysym # NoKeysym) = TRUE
    BY <1>4 DEF Passed
  <2> QED BY <2>2, <2>3, <2>4
<1> QED BY <1>3, <1>4

(* A keypress adds to the last entry, or nothing.                          *)
LEMMA PressStays ==
  ASSUME NEW t \in Seq(TrackEntry), NEW n \in Nat, n = Len(t), n # 0, NEW e \in KeyEvent,
         e.type = "keypress"
  PROVE  LET next == TrackPress(t, e) IN
         /\ next.passed \in BOOLEAN /\ next.ups = {}
         /\ LastGets(t, n, IF next.passed THEN {e.keysym} ELSE {}, next.entries)
<1>1. t # <<>>
  BY EmptySeq
<1>2. TrackPress(t, e) = IF Last(t).ignoreKeyPress THEN Tracked(t, FALSE, {})
                         ELSE Tracked(WithKeysym(t, e.keysym, FALSE), TRUE, {})
  BY <1>1 DEF TrackPress
<1>3. CASE Last(t).ignoreKeyPress
  BY <1>2, <1>3 DEF Tracked, LastGets
<1>4. CASE ~Last(t).ignoreKeyPress
  <2>1. e.keysym \in Keysyms
    BY DEF KeyEvent
  <2>2. /\ TrackPress(t, e).entries = WithKeysym(t, e.keysym, FALSE)
        /\ TrackPress(t, e).passed = TRUE /\ TrackPress(t, e).ups = {}
    BY <1>2, <1>4 DEF Tracked
  <2>3. LastGets(t, n, {e.keysym}, WithKeysym(t, e.keysym, FALSE))
    BY <2>1, WithKeysymIs
  <2> QED BY <2>2, <2>3
<1> QED BY <1>3, <1>4

-----------------------------------------------------------------------------
(* What goes to the other end is typed there as here.                      *)
LEMMA CharacterRight ==
  ASSUME NEW end \in End, NEW B, EndRight(end.downs, B), end.wrong = {},
         NEW e, e.keysym \in Keysyms, e.keysym[1] \notin Modifiers, e.with \subseteq Modifiers,
         TypedWith(CharModifiers, e, B)
  PROVE  Escaped(end, e).wrong = {} /\ EndRight(Escaped(end, e).downs, B)
<1> DEFINE undone == Undo(end, e)
           taken  == TakeDown(undone, e)
<1>1. \A m \in Modifiers : <<m, "plain">> \in Syms(CharModifiers) <=> m \in CharModifiers
  BY DEF Syms
<1>2. /\ undone \in End /\ undone.wrong = {}
      /\ undone.downs = end.downs \ (IF e.escape THEN Syms(CharModifiers) ELSE {})
  BY DEF End, Undo, TakeUps
<1>3. e.keysym[2] = "third" => undone.downs \cap Syms(CharModifiers) = {}
  <2> SUFFICES ASSUME e.keysym[2] = "third", ~e.escape, NEW sym \in end.downs, sym \in Syms(CharModifiers)
               PROVE  FALSE
    BY <1>2
  <2>1. CharModifiers \cap B = {}
    BY DEF TypedWith
  <2> PICK m \in CharModifiers : sym = <<m, "plain">>
    BY DEF Syms
  <2>2. m \in Modifiers
    BY CharModifiersTyped
  <2> QED BY <2>1, <2>2 DEF EndRight
<1>4. Syms((e.with \cap Flagged) \ (IF e.escape THEN CharModifiers ELSE {})) \subseteq undone.downs
  <2> SUFFICES ASSUME NEW m \in e.with \cap Flagged, e.escape => m \notin CharModifiers
               PROVE  <<m, "plain">> \in undone.downs
    BY DEF Syms
  <2>1. m \in B /\ m \in Modifiers
    BY DEF TypedWith
  <2>2. <<m, "plain">> \in end.downs
    BY <2>1 DEF EndRight
  <2> QED BY <1>1, <1>2, <2>1, <2>2
<1>5. Amiss(undone.downs, e) = {}
  BY <1>3, <1>4 DEF Amiss
<1> HIDE DEF undone
<1>6. taken \in End /\ taken.wrong = {} /\ taken.downs = undone.downs \cup {e.keysym}
  BY <1>2, <1>5 DEF TakeDown, End
<1>7. Escaped(end, e) = Redo(taken, e)
  BY DEF Escaped, undone
<1> HIDE DEF taken
<1>8. /\ Escaped(end, e).wrong = {}
      /\ Escaped(end, e).downs = taken.downs \cup (IF e.escape THEN Syms(CharModifiers) ELSE {})
  BY <1>6, <1>7 DEF Redo, End
<1>9. ASSUME NEW m \in Modifiers
      PROVE  <<m, "plain">> \in Escaped(end, e).downs <=> m \in B
  <2>1. <<m, "plain">> \in end.downs <=> m \in B
    BY DEF EndRight
  <2>2. <<m, "plain">> # e.keysym
    BY <1>9
  <2>3. e.escape => (m \in CharModifiers => m \in B)
    BY DEF TypedWith
  <2> QED BY <1>1, <1>2, <1>6, <1>8, <2>1, <2>2, <2>3
<1> QED BY <1>8, <1>9 DEF EndRight

LEMMA ModifierRight ==
  ASSUME NEW end \in End, NEW B, EndRight(end.downs, B), end.wrong = {},
         NEW e, NEW m \in Modifiers, e.keysym = <<m, "plain">>, ~e.escape
  PROVE  Escaped(end, e).wrong = {} /\ EndRight(Escaped(end, e).downs, B \cup {m})
<1>1. Amiss(end.downs, e) = {}
  BY DEF Amiss
<1>2. Escaped(end, e) = [downs |-> end.downs \cup {<<m, "plain">>}, wrong |-> {}]
  BY <1>1 DEF Escaped, Undo, Redo, TakeDown
<1> QED BY <1>2 DEF EndRight

-----------------------------------------------------------------------------
(* One event through the last three filters.                               *)
LEMMA ThroughPassed ==
  ASSUME NEW acc \in Chained, NEW e \in KeyEvent, Track(acc.entries, e).passed = TRUE,
         Guesses(acc.entries, e) = {}
  PROVE  /\ Through(acc, e).entries = Track(acc.entries, e).entries
         /\ Through(acc, e).end.downs = Escaped(acc.end, e).downs
         /\ Through(acc, e).end.wrong = Escaped(acc.end, e).wrong
<1>1. Through(acc, e) = [entries |-> Track(acc.entries, e).entries,
                         end |-> [Escaped(acc.end, e) EXCEPT !.wrong = @ \cup {}]]
  BY DEF Through
<1>2. \E d, w : Escaped(acc.end, e) = [downs |-> d, wrong |-> w]
  BY DEF Escaped, Redo, TakeDown, Undo, TakeUps, Chained
<1> QED BY <1>1, <1>2

LEMMA ThroughKept ==
  ASSUME NEW acc \in Chained, NEW e \in KeyEvent, Track(acc.entries, e).passed = FALSE
  PROVE  /\ Through(acc, e).entries = Track(acc.entries, e).entries
         /\ Through(acc, e).end.downs = acc.end.downs \ Track(acc.entries, e).ups
         /\ Through(acc, e).end.wrong = acc.end.wrong \cup Guesses(acc.entries, e)
<1>1. Through(acc, e)
        = [entries |-> Track(acc.entries, e).entries,
           end |-> [TakeUps(acc.end, Track(acc.entries, e).ups) EXCEPT !.wrong = @ \cup Guesses(acc.entries, e)]]
  BY DEF Through
<1>2. TakeUps(acc.end, Track(acc.entries, e).ups)
        = [downs |-> acc.end.downs \ Track(acc.entries, e).ups, wrong |-> acc.end.wrong]
  <2>1. acc.end \in End
    BY DEF Chained, End
  <2> QED BY <2>1 DEF TakeUps, End
<1> QED BY <1>1, <1>2

LEMMA NoGuess ==
  ASSUME NEW t, NEW e, e.type # "keyup"
  PROVE  Guesses(t, e) = {}
BY DEF Guesses

LEMMA LastOfMoment ==
  ASSUME NEW t \in Seq(TrackEntry), NEW n \in Nat, n = Len(t), NEW s, EntriesRight(t, s)
  PROVE  /\ \A i \in 1 .. n :
              /\ EntryRight(t[i]) /\ KeyOf(t[i]) \in s.held
              /\ KeyOf(t[i]) \in Modifiers => KeyOf(t[i]) \in s.believed
         /\ \A i, j \in 1 .. n : KeyOf(t[i]) = KeyOf(t[j]) => i = j
         /\ s.last # NoId => n # 0 /\ n \in 1 .. n /\ t[n].keyId = s.last
<1>1. DOMAIN t = 1 .. n /\ (t # <<>> => n # 0)
  BY EmptySeq, LenProperties
<1> QED BY <1>1 DEF EntriesRight

LEMMA ModifierDownGood ==
  ASSUME NEW acc \in Chained, NEW e \in KeyEvent, NEW s \in Moment, NEW w \in Moment,
         Good(acc, s), ModifierDown(e, s, w)
  PROVE  Good(Through(acc, e), w)
<1> PICK m \in Modifiers \ s.believed :
      /\ e.keyId = NoId \/ e.keyId[1] = m
      /\ e.keysym = <<m, "plain">>
      /\ w = [held |-> s.held \cup {m}, believed |-> s.believed \cup {m}, last |-> NoId]
  BY DEF ModifierDown
<1> PICK t \in Seq(TrackEntry) : t = acc.entries
  BY DEF Chained
<1> PICK n \in Nat : n = Len(t)
  OBVIOUS
<1> PICK next : next = Track(t, e)
  OBVIOUS
<1>1. EntriesRight(t, s) /\ EndRight(acc.end.downs, s.believed) /\ acc.end.wrong = {} /\ acc.end \in End
  BY DEF Good, Chained, End
<1>2. \A i \in 1 .. n : KeyOf(t[i]) # m
  BY <1>1, LastOfMoment
<1>3. e.type = "keydown" /\ ~e.escape /\ Guesses(t, e) = {}
  BY NoGuess DEF ModifierDown
<1>4. next = TrackDown(t, e)
  BY <1>3 DEF Track
<1>5. n # 0 => e.keyId = NoId \/ t[n].keyId # e.keyId
  <2> SUFFICES ASSUME n # 0, e.keyId # NoId, t[n].keyId = e.keyId PROVE FALSE
    OBVIOUS
  <2>1. n \in 1 .. n /\ KeyOf(t[n]) = m
    BY KeyOfNamed
  <2> QED BY <1>2, <2>1
<1>6. e.keysym # NoKeysym /\ Passed(e) = {<<m, "plain">>}
  <2>1. m # NoKey
    BY KeyboardAssumption
  <2>2. e.keysym # NoKeysym
    BY <2>1 DEF NoKeysym
  <2> QED BY <2>2 DEF Passed
<1>7. next.passed = TRUE /\ Gained(t, n, e.keyId, Passed(e), next.entries)
  BY <1>4, <1>5, <1>6, DownAppends
<1> PICK x : x = next.entries[n + 1]
  OBVIOUS
<1>8. KeyOf(x) = m /\ EntryRight(x)
  <2>3. x.keyId = e.keyId /\ x.keysyms = {<<m, "plain">>}
    BY <1>6, <1>7 DEF Gained
  <2>1. KeyOf(x) = m
    <3>1. CASE e.keyId = NoId
      BY <2>3, <3>1, KeyOfModifier
    <3>2. CASE e.keyId # NoId
      BY <2>3, <3>2, KeyOfNamed
    <3> QED BY <3>1, <3>2
  <2>2. "plain" \in Levels
    BY DEF Levels
  <2> QED BY <2>1, <2>2, <2>3 DEF EntryRight
<1>9. EntriesRight(next.entries, w)
  <2>1. /\ w.held = s.held \cup {m} /\ w.believed = s.believed \cup ({m} \cap Modifiers)
        /\ (w.last # NoId => e.keyId = w.last)
    OBVIOUS
  <2>2. m = KeyOf(next.entries[n + 1]) /\ EntryRight(next.entries[n + 1])
    BY <1>8
  <2> PICK id : id = e.keyId
    OBVIOUS
  <2>3. Gained(t, n, id, Passed(e), next.entries) /\ (w.last # NoId => id = w.last)
    BY <1>7, <2>1
  <2> QED BY <1>1, <1>2, <2>1, <2>2, <2>3, NewEntry
<1>10. Escaped(acc.end, e).wrong = {} /\ EndRight(Escaped(acc.end, e).downs, s.believed \cup {m})
  BY <1>1, <1>3, ModifierRight
<1>11. /\ Through(acc, e).entries = next.entries
       /\ Through(acc, e).end.downs = Escaped(acc.end, e).downs
       /\ Through(acc, e).end.wrong = {}
  BY <1>3, <1>7, <1>10, ThroughPassed
<1> QED BY <1>9, <1>10, <1>11 DEF Good

LEMMA CharacterDownGood ==
  ASSUME NEW acc \in Chained, NEW e \in KeyEvent, NEW s \in Moment, NEW w \in Moment,
         Good(acc, s), CharacterDown(CharModifiers, e, s, w)
  PROVE  Good(Through(acc, e), w)
<1> PICK k \in Keys \ Modifiers : k = e.keyId[1]
  BY DEF CharacterDown
<1> PICK t \in Seq(TrackEntry) : t = acc.entries
  BY DEF Chained
<1> PICK n \in Nat : n = Len(t)
  OBVIOUS
<1> PICK next : next = Track(t, e)
  OBVIOUS
<1>1. EntriesRight(t, s) /\ EndRight(acc.end.downs, s.believed) /\ acc.end.wrong = {} /\ acc.end \in End
  BY DEF Good, Chained, End
<1>2. /\ \A i \in 1 .. n : EntryRight(t[i]) /\ KeyOf(t[i]) \in s.held
      /\ s.last # NoId => n # 0 /\ n \in 1 .. n /\ t[n].keyId = s.last
  BY <1>1, LastOfMoment
<1>3. /\ e.type = "keydown" /\ Guesses(t, e) = {} /\ e.keyId # NoId
      /\ e.keysym \in {NoKeysym} \cup ({k} \X Levels)
      /\ k \notin s.held \/ e.keyId = s.last
      /\ TypedWith(CharModifiers, e, s.believed)
      /\ w = [held |-> s.held \cup {k}, believed |-> s.believed, last |-> e.keyId]
  BY NoGuess, NamesKey DEF CharacterDown
<1>4. next = TrackDown(t, e)
  BY <1>3 DEF Track
<1>5. Passed(e) \subseteq {k} \X Levels
  BY <1>3 DEF Passed
<1>6. next.passed = (e.keysym # NoKeysym) /\ next.ups = {} /\ EntriesRight(next.entries, w)
  <2>1. CASE e.keyId = s.last
    <3>1. n # 0 /\ t[n].keyId = e.keyId /\ KeyOf(t[n]) = k /\ n \in 1 .. n
      BY <1>2, <1>3, <2>1, KeyOfNamed
    <3>2. k \in s.held /\ w = s
      <4>1. k \in s.held
        BY <1>2, <3>1
      <4> QED BY <1>3, <2>1, <4>1 DEF Moment
    <3>3. /\ next.passed = (e.keysym # NoKeysym) /\ next.ups = {}
          /\ LastGets(t, n, Passed(e), next.entries)
      BY <1>3, <1>4, <3>1, DownStays
    <3>4. EntriesRight(next.entries, s)
      BY <1>1, <1>3, <1>5, <2>1, <3>1, <3>3, SameEntry
    <3> QED BY <3>2, <3>3, <3>4
  <2>2. CASE k \notin s.held
    <3>1. \A i \in 1 .. n : KeyOf(t[i]) # k
      BY <1>2, <2>2
    <3>2. n # 0 => e.keyId = NoId \/ t[n].keyId # e.keyId
      <4> SUFFICES ASSUME n # 0, t[n].keyId = e.keyId PROVE FALSE
        OBVIOUS
      <4>1. n \in 1 .. n /\ KeyOf(t[n]) = k
        BY <1>3, KeyOfNamed
      <4> QED BY <3>1, <4>1
    <3>3. /\ next.passed = (e.keysym # NoKeysym) /\ next.ups = {}
          /\ Gained(t, n, e.keyId, Passed(e), next.entries)
      BY <1>4, <3>2, DownAppends
    <3> PICK x : x = next.entries[n + 1]
      OBVIOUS
    <3>8. x.keyId = e.keyId /\ x.keysyms = Passed(e)
      BY <3>3 DEF Gained
    <3>4. KeyOf(x) = k
      BY <1>3, <3>8, KeyOfNamed
    <3>5. EntryRight(x)
      BY <1>3, <1>5, <3>4, <3>8 DEF EntryRight
    <3>6. /\ w.held = s.held \cup {k} /\ w.believed = s.believed \cup ({k} \cap Modifiers)
          /\ (w.last # NoId => e.keyId = w.last)
      BY <1>3
    <3>7. EntriesRight(next.entries, w)
      BY <1>1, <3>1, <3>3, <3>4, <3>5, <3>6, NewEntry
    <3> QED BY <3>3, <3>7
  <2> QED BY <1>3, <2>1, <2>2
<1>7. CASE e.keysym = NoKeysym
  <2>1. next.passed = FALSE
    BY <1>6, <1>7
  <2>3. /\ Through(acc, e).entries = next.entries
        /\ Through(acc, e).end.downs = acc.end.downs \ next.ups
        /\ Through(acc, e).end.wrong = acc.end.wrong \cup Guesses(acc.entries, e)
    BY <2>1, ThroughKept
  <2>2. /\ Through(acc, e).entries = next.entries
        /\ Through(acc, e).end.downs = acc.end.downs
        /\ Through(acc, e).end.wrong = {}
    BY <1>1, <1>3, <1>6, <2>3
  <2> QED BY <1>1, <1>3, <1>6, <2>2 DEF Good
<1>8. CASE e.keysym # NoKeysym
  <2>1. next.passed = TRUE
    BY <1>6, <1>8
  <2>2. e.keysym \in Keysyms /\ e.keysym[1] = k /\ e.keysym[1] \notin Modifiers /\ e.with \subseteq Modifiers
    BY <1>3, <1>8 DEF KeyEvent
  <2>3. Escaped(acc.end, e).wrong = {} /\ EndRight(Escaped(acc.end, e).downs, s.believed)
    BY <1>1, <1>3, <2>2, CharacterRight
  <2>4. /\ Through(acc, e).entries = next.entries
        /\ Through(acc, e).end.downs = Escaped(acc.end, e).downs
        /\ Through(acc, e).end.wrong = {}
    BY <1>3, <2>1, <2>3, ThroughPassed
  <2> QED BY <1>3, <1>6, <2>3, <2>4 DEF Good
<1> QED BY <1>7, <1>8

LEMMA PressedGood ==
  ASSUME NEW acc \in Chained, NEW e \in KeyEvent, NEW s \in Moment, NEW w \in Moment,
         Good(acc, s), Pressed(CharModifiers, e, s, w)
  PROVE  Good(Through(acc, e), w)
<1> PICK t \in Seq(TrackEntry) : t = acc.entries
  BY DEF Chained
<1> PICK n \in Nat : n = Len(t)
  OBVIOUS
<1> PICK next : next = Track(t, e)
  OBVIOUS
<1>1. EntriesRight(t, s) /\ EndRight(acc.end.downs, s.believed) /\ acc.end.wrong = {} /\ acc.end \in End
  BY DEF Good, Chained, End
<1>2. /\ e.type = "keypress" /\ Guesses(t, e) = {} /\ s.last # NoId /\ s.last[1] \notin Modifiers
      /\ e.keysym \in {s.last[1]} \X Levels /\ TypedWith(CharModifiers, e, s.believed) /\ w = s
  BY NoGuess, NamesKey DEF Pressed
<1>3. n # 0
  BY <1>1, <1>2, LastOfMoment
<1>4. next = TrackPress(t, e)
  BY <1>2 DEF Track
<1>5. /\ next.passed \in BOOLEAN /\ next.ups = {}
      /\ LastGets(t, n, IF next.passed THEN {e.keysym} ELSE {}, next.entries)
  BY <1>2, <1>3, <1>4, PressStays
<1> PICK more : more = IF next.passed THEN {e.keysym} ELSE {}
  OBVIOUS
<1>6. more \subseteq {s.last[1]} \X Levels
  BY <1>2
<1>7. EntriesRight(next.entries, s)
  BY <1>1, <1>2, <1>3, <1>5, <1>6, SameEntry
<1>8. CASE next.passed = FALSE
  <2>1. /\ Through(acc, e).entries = next.entries
        /\ Through(acc, e).end.downs = acc.end.downs \ next.ups
        /\ Through(acc, e).end.wrong = acc.end.wrong \cup Guesses(acc.entries, e)
    BY <1>8, ThroughKept
  <2>2. Through(acc, e).end.downs = acc.end.downs /\ Through(acc, e).end.wrong = {}
    BY <1>1, <1>2, <1>5, <2>1
  <2> QED BY <1>1, <1>2, <1>7, <2>1, <2>2 DEF Good
<1>9. CASE next.passed = TRUE
  <2>1. e.keysym \in Keysyms /\ e.keysym[1] \notin Modifiers /\ e.with \subseteq Modifiers
    BY <1>2 DEF KeyEvent
  <2>2. Escaped(acc.end, e).wrong = {} /\ EndRight(Escaped(acc.end, e).downs, s.believed)
    BY <1>1, <1>2, <2>1, CharacterRight
  <2>3. /\ Through(acc, e).entries = next.entries
        /\ Through(acc, e).end.downs = Escaped(acc.end, e).downs
        /\ Through(acc, e).end.wrong = {}
    BY <1>2, <1>9, <2>2, ThroughPassed
  <2> QED BY <1>2, <1>7, <2>2, <2>3 DEF Good
<1> QED BY <1>5, <1>8, <1>9

(* A key that comes up: its own entry goes, or it was a guess.             *)
LEMMA KeyUpSound ==
  ASSUME NEW acc \in Chained, NEW e \in KeyEvent, NEW s \in Moment, NEW w \in Moment,
         Good(acc, s), KeyIsUp(e, s, w)
  PROVE  Sound(Through(acc, e), w)
<1> PICK k \in Keys : k = e.keyId[1]
  BY DEF KeyIsUp
<1> PICK t \in Seq(TrackEntry) : t = acc.entries
  BY DEF Chained
<1> PICK n \in Nat : n = Len(t)
  OBVIOUS
<1> PICK next : next = Track(t, e)
  OBVIOUS
<1>1. EntriesRight(t, s) /\ EndRight(acc.end.downs, s.believed) /\ acc.end.wrong = {} /\ acc.end \in End
  BY DEF Good, Chained, End
<1>2. /\ e.type = "keyup" /\ e.keyId # NoId
      /\ w = [held |-> s.held \ {k}, believed |-> s.believed \ {k},
              last |-> IF k \in Modifiers \/ s.last[1] = k THEN NoId ELSE s.last]
  BY NamesKey DEF KeyIsUp
<1>3. next = TrackUp(t, e)
  BY <1>2 DEF Track
<1>4. next.passed = FALSE
  BY <1>3 DEF TrackUp, Tracked
<1>5. /\ Through(acc, e).entries = next.entries
      /\ Through(acc, e).end.downs = acc.end.downs \ next.ups
      /\ Through(acc, e).end.wrong = acc.end.wrong \cup Guesses(acc.entries, e)
  BY <1>4, ThroughKept
<1>6. CASE t = <<>>
  <2>1. DOMAIN t = {}
    BY <1>6
  <2>2. s.believed = {} /\ s.last = NoId
    BY <1>1, <1>6, <2>1 DEF EntriesRight
  <2>3. w.believed = {} /\ w.last = NoId
    BY <1>2, <2>2
  <2>4. next.entries = t /\ next.ups = {} /\ Guesses(t, e) = {}
    BY <1>3, <1>6 DEF TrackUp, Tracked, Guesses
  <2>5. EntriesRight(t, w)
    BY <2>1, <2>3 DEF EntriesRight
  <2>6. Through(acc, e).end.downs = acc.end.downs /\ Through(acc, e).end.wrong = {}
    BY <1>1, <1>5, <2>4
  <2> QED BY <1>1, <1>5, <2>2, <2>3, <2>4, <2>5, <2>6 DEF Sound, Good
<1>7. CASE t # <<>> /\ t[Released(t, e)].keyId # e.keyId
  <2>1. Guesses(t, e) = {"guess"}
    BY <1>2, <1>7 DEF Guesses
  <2> QED BY <1>5, <2>1 DEF Sound
<1>8. CASE t # <<>> /\ t[Released(t, e)].keyId = e.keyId
  <2> PICK r \in 1 .. n : r = Released(t, e)
    BY <1>8, ReleasedIsEntry
  <2>1. KeyOf(t[r]) = k
    BY <1>2, <1>8, KeyOfNamed
  <2>2. next.entries = RemoveAt(t, r) /\ next.ups = t[r].keysyms
    BY <1>3, <1>8 DEF TrackUp, Tracked
  <2>3. Guesses(t, e) = {}
    BY <1>2, <1>8 DEF Guesses
  <2>4. EntryRight(t[r])
    BY <1>1, LastOfMoment
  <2>5. EntriesRight(next.entries, w)
    <3>1. /\ w.held = s.held \ {k} /\ w.believed = s.believed \ {k}
          /\ w.last # NoId => w.last = s.last /\ s.last # NoId /\ s.last[1] # k
      BY <1>2
    <3>2. EntriesRight(RemoveAt(t, r), w)
      BY <1>1, <2>1, <3>1, EntryGone
    <3> QED BY <2>2, <3>2
  <2>6. EndRight(acc.end.downs \ next.ups, w.believed)
    <3> SUFFICES ASSUME NEW m \in Modifiers
                 PROVE  <<m, "plain">> \in acc.end.downs \ t[r].keysyms <=> m \in s.believed \ {k}
      BY <1>2, <2>2 DEF EndRight
    <3>1. <<m, "plain">> \in acc.end.downs <=> m \in s.believed
      BY <1>1 DEF EndRight
    <3>2. <<m, "plain">> \in t[r].keysyms <=> m = k
      BY <2>1, <2>4 DEF EntryRight
    <3> QED BY <3>1, <3>2
  <2> QED BY <1>1, <1>5, <2>3, <2>5, <2>6 DEF Sound, Good
<1> QED BY <1>6, <1>7, <1>8

LEMMA GuessStays ==
  ASSUME NEW acc \in Chained, NEW e, "guess" \in acc.end.wrong
  PROVE  "guess" \in Through(acc, e).end.wrong
<1> DEFINE next == Track(acc.entries, e)
           end  == IF next.passed THEN Escaped(acc.end, e) ELSE TakeUps(acc.end, next.ups)
<1>1. Through(acc, e).end = [end EXCEPT !.wrong = @ \cup Guesses(acc.entries, e)]
  BY DEF Through
<1>2. acc.end \in End
  BY DEF Chained, End
<1> HIDE DEF next
<1>3. \E d, x : end = [downs |-> d, wrong |-> x] /\ "guess" \in x
  <2>1. \E d, x : Escaped(acc.end, e) = [downs |-> d, wrong |-> x] /\ "guess" \in x
    <3> PICK c, wrong : acc.end = [downs |-> c, wrong |-> wrong] /\ "guess" \in wrong
      BY <1>2 DEF End
    <3>1. PICK d : Undo(acc.end, e) = [downs |-> d, wrong |-> wrong]
      <4>1. Undo(acc.end, e) = [downs |-> IF e.escape THEN c \ Syms(CharModifiers) ELSE c, wrong |-> wrong]
        BY DEF Undo, TakeUps
      <4> QED BY <4>1
    <3> PICK x : x = wrong \cup Amiss(d, e)
      OBVIOUS
    <3>3. TakeDown(Undo(acc.end, e), e) = [downs |-> d \cup {e.keysym}, wrong |-> x]
      BY <3>1 DEF TakeDown
    <3> PICK y : y = TakeDown(Undo(acc.end, e), e)
      OBVIOUS
    <3> PICK b : b = d \cup {e.keysym}
      OBVIOUS
    <3>4. y = [downs |-> b, wrong |-> x]
      BY <3>3
    <3>5. \E a : Redo(y, e) = [downs |-> a, wrong |-> x]
      <4>1. CASE e.escape
        <5>1. Redo(y, e) = [downs |-> b \cup Syms(CharModifiers), wrong |-> x]
          BY <3>4, <4>1 DEF Redo
        <5> QED BY <5>1
      <4>2. CASE ~e.escape
        BY <3>4, <4>2 DEF Redo
      <4> QED BY <4>1, <4>2
    <3>6. Escaped(acc.end, e) = Redo(y, e) /\ "guess" \in x
      BY DEF Escaped
    <3> QED BY <3>5, <3>6
  <2>2. \E d, x : TakeUps(acc.end, next.ups) = [downs |-> d, wrong |-> x] /\ "guess" \in x
    <3>1. TakeUps(acc.end, next.ups) = [downs |-> acc.end.downs \ next.ups, wrong |-> acc.end.wrong]
      BY <1>2 DEF TakeUps, End
    <3> QED BY <3>1
  <2> QED BY <2>1, <2>2
<1> HIDE DEF end
<1> QED BY <1>1, <1>3

LEMMA ThroughSound ==
  ASSUME NEW acc \in Chained, NEW e \in KeyEvent, e.type # "stall",
         NEW s \in Moment, NEW w \in Moment, Fits(CharModifiers, e, s, w), Sound(acc, s)
  PROVE  Sound(Through(acc, e), w)
<1>1. CASE "guess" \in acc.end.wrong
  BY <1>1, GuessStays DEF Sound
<1>2. CASE Good(acc, s)
  <2>1. ~Stalled(e, s, w)
    BY DEF Stalled
  <2>2. CASE ModifierDown(e, s, w)
    BY <1>2, <2>2, ModifierDownGood DEF Sound
  <2>3. CASE CharacterDown(CharModifiers, e, s, w)
    BY <1>2, <2>3, CharacterDownGood DEF Sound
  <2>4. CASE Pressed(CharModifiers, e, s, w)
    BY <1>2, <2>4, PressedGood DEF Sound
  <2>5. CASE KeyIsUp(e, s, w)
    BY <1>2, <2>5, KeyUpSound
  <2> QED BY <2>1, <2>2, <2>3, <2>4, <2>5 DEF Fits
<1> QED BY <1>1, <1>2 DEF Sound

-----------------------------------------------------------------------------
(* The events of a queue, one after the other.                             *)
LEMMA MergedFits ==
  ASSUME NEW C, NEW e \in KeyEvent, NEW p \in KeyEvent, NEW s \in Moment, NEW t \in Moment, NEW w,
         e.type = "keydown", p.type = "keypress", ~e.escape,
         Fits(C, e, s, t), Fits(C, p, t, w)
  PROVE  Fits(C, Merged(e, p), s, t)
<1>1. Pressed(C, p, t, w)
  BY DEF Fits, Stalled, ModifierDown, CharacterDown, KeyIsUp
<1>2. t.last # NoId
  BY <1>1, NamesKey DEF Pressed
<1>3. CharacterDown(C, e, s, t)
  <2>1. ~ModifierDown(e, s, t)
    BY <1>2 DEF ModifierDown
  <2> QED BY <2>1 DEF Fits, Stalled, Pressed, KeyIsUp
<1> PICK m : m = Merged(e, p)
  OBVIOUS
<1>4. /\ m.type = "keydown" /\ m.keyId = e.keyId /\ m.keysym = p.keysym /\ m.with = e.with
      /\ m.escape = (p.escape /\ e.keysym # p.keysym)
  <2>1. e \in [type : {"keydown", "keyup", "releaseall", "stall"}, keyId : KeyIds,
               keysym : Keysyms \cup {NoKeysym}, escape : BOOLEAN, with : SUBSET Modifiers]
    BY DEF KeyEvent
  <2> QED BY <2>1 DEF Merged
<1>5. t.believed = s.believed /\ t.last = e.keyId
  BY <1>3 DEF CharacterDown
<1>6. m.keysym \in {e.keyId[1]} \X Levels
  BY <1>1, <1>4, <1>5 DEF Pressed
<1>7. TypedWith(C, m, s.believed)
  <2>1. TypedWith(C, e, s.believed) /\ TypedWith(C, p, s.believed)
    BY <1>1, <1>3, <1>5 DEF CharacterDown, Pressed
  <2>2. m.escape => C \subseteq s.believed
    BY <1>4, <2>1 DEF TypedWith
  <2>3. m.keysym[2] = "third" => m.escape \/ C \cap s.believed = {}
    <3>1. CASE e.keysym = p.keysym
      BY <1>4, <2>1, <3>1 DEF TypedWith
    <3>2. CASE e.keysym # p.keysym
      BY <1>4, <2>1, <3>2 DEF TypedWith
    <3> QED BY <3>1, <3>2
  <2> QED BY <1>4, <2>1, <2>2, <2>3 DEF TypedWith
<1>8. CharacterDown(C, m, s, t)
  BY <1>3, <1>4, <1>6, <1>7 DEF CharacterDown
<1> QED BY <1>8 DEF Fits

LEMMA AfterEventsSound ==
  ASSUME NEW q \in Queued, NEW n \in Nat, n = Len(q), NEW start \in Chained,
         start = [entries |-> tracked, end |-> [downs |-> down, wrong |-> amiss]],
         NEW at \in [0 .. n -> Moment], LeadsOver(CharModifiers, q, at), Sound(start, at[0])
  PROVE  Sound(AfterEvents(q), at[n])
<1> PICK f :
      /\ f[0] = start
      /\ \A i \in 1 .. n :
           f[i] = IF Follows(q, i - 1) THEN f[i - 1] ELSE Through(f[i - 1], Verified(q, i))
      /\ f[n] = AfterEvents(q)
  BY AfterEventsChain
<1>1. \A i \in 1 .. n : /\ q[i] \in KeyEvent /\ q[i].type # "stall" /\ i - 1 \in 0 .. n /\ i \in 0 .. n
                        /\ Fits(CharModifiers, q[i], at[i - 1], at[i])
                        /\ q[i].type = "keydown" => ~q[i].escape
  BY ElementOfSeq DEF Queued, LeadsOver
<1> DEFINE good(acc, s) == acc \in Chained /\ Sound(acc, s)
<1>2. good(f[0], at[0])
  OBVIOUS
<1>3. ASSUME NEW i \in 1 .. n, good(f[i - 1], at[i - 1]) PROVE good(f[i], at[i])
  <2>1. CASE Follows(q, i - 1)
    <3>1. q[i].type = "keypress"
      <4>1. (i - 1) + 1 = i
        OBVIOUS
      <4> QED BY <2>1, <4>1 DEF Follows
    <3>2. at[i] = at[i - 1]
      BY <1>1, <3>1 DEF Fits, Stalled, ModifierDown, CharacterDown, KeyIsUp, Pressed
    <3>3. f[i] = f[i - 1]
      BY <2>1
    <3> QED BY <1>3, <3>2, <3>3
  <2>2. CASE ~Follows(q, i - 1)
    <3>1. f[i] = Through(f[i - 1], Verified(q, i))
      BY <2>2
    <3>2. Verified(q, i) \in KeyEvent /\ Verified(q, i).type # "stall"
      BY VerifiedTyped
    <3>3. at[i - 1] \in Moment /\ at[i] \in Moment
      BY <1>1
    <3>4. Fits(CharModifiers, Verified(q, i), at[i - 1], at[i])
      <4>1. CASE Follows(q, i)
        <5> PICK j \in 1 .. n : j = i + 1 /\ j - 1 = i
          BY <4>1 DEF Follows
        <5>1. q[i].type = "keydown" /\ q[j].type = "keypress"
          BY <4>1 DEF Follows
        <5>2. Fits(CharModifiers, q[j], at[i], at[j]) /\ q[j] \in KeyEvent /\ q[i] \in KeyEvent
          BY <1>1
        <5>3. Fits(CharModifiers, Merged(q[i], q[j]), at[i - 1], at[i])
          BY <1>1, <3>3, <5>1, <5>2, MergedFits
        <5> QED BY <4>1, <5>3 DEF Verified
      <4>2. CASE ~Follows(q, i)
        BY <1>1, <4>2 DEF Verified
      <4> QED BY <4>1, <4>2
    <3>5. f[i] \in Chained
      BY <1>3, <3>1, <3>2, ThroughKeeps
    <3>6. Sound(f[i], at[i])
      BY <1>3, <3>1, <3>2, <3>3, <3>4, ThroughSound
    <3> QED BY <3>5, <3>6
  <2> QED BY <2>1, <2>2
<1> HIDE DEF good
<1>4. \A i \in 0 .. n : good(f[i], at[i])
  <2> DEFINE T == {i \in 0 .. n : ~ good(f[i], at[i])}
  <2> SUFFICES ASSUME T # {} PROVE FALSE
    OBVIOUS
  <2>1. T \subseteq Nat
    OBVIOUS
  <2> PICK i \in T : \A k \in T : i <= k
    BY <2>1, Smallest
  <2>2. i \in 0 .. n /\ ~ good(f[i], at[i])
    OBVIOUS
  <2>3. i # 0
    BY <1>2, <2>2
  <2>4. i \in 1 .. n /\ i - 1 \in 0 .. n /\ ~(i <= i - 1)
    BY <2>2, <2>3
  <2>5. good(f[i - 1], at[i - 1])
    BY <2>4
  <2> QED BY <1>3, <2>2, <2>4, <2>5
<1> QED BY <1>4 DEF good

-----------------------------------------------------------------------------
(* Queues, taken apart and put together.                                   *)
LEMMA LeadsNothing ==
  ASSUME NEW C, NEW s \in Moment
  PROVE  Leads(C, <<>>, s, s)
<1> DEFINE at == [i \in 0 .. 0 |-> s]
<1>1. Len(<<>>) = 0 /\ 1 .. 0 = {} /\ 0 .. 0 = {0}
  BY EmptySeq
<1>2. at \in [0 .. 0 -> Moment] /\ at[0] = s
  BY <1>1
<1>3. LeadsOver(C, <<>>, at)
  BY <1>1 DEF LeadsOver
<1> HIDE DEF at
<1> QED BY <1>1, <1>2, <1>3 DEF Leads

LEMMA NothingLeads ==
  ASSUME NEW C, NEW s, NEW t, Leads(C, <<>>, s, t)
  PROVE  t = s
<1>1. Len(<<>>) = 0
  BY EmptySeq
<1> QED BY <1>1 DEF Leads

LEMMA LeadsOne ==
  ASSUME NEW C, NEW e, NEW s \in Moment, NEW t \in Moment, Fits(C, e, s, t),
         e.type = "keydown" => ~e.escape
  PROVE  Leads(C, <<e>>, s, t)
<1> DEFINE at == [i \in 0 .. 1 |-> IF i = 0 THEN s ELSE t]
<1>1. Len(<<e>>) = 1 /\ <<e>>[1] = e /\ 1 .. 1 = {1}
  OBVIOUS
<1>2. at \in [0 .. 1 -> Moment] /\ at[0] = s /\ at[1] = t
  OBVIOUS
<1> HIDE DEF at
<1>3. LeadsOver(C, <<e>>, at)
  <2> SUFFICES ASSUME NEW i \in 1 .. 1
               PROVE  Fits(C, <<e>>[i], at[i - 1], at[i]) /\ (<<e>>[i].type = "keydown" => ~<<e>>[i].escape)
    BY <1>1 DEF LeadsOver
  <2>1. i = 1 /\ i - 1 = 0
    OBVIOUS
  <2> QED BY <1>1, <1>2, <2>1
<1> QED BY <1>1, <1>2, <1>3 DEF Leads

LEMMA LeadsBoth ==
  ASSUME NEW C, NEW p \in Seq(KeyEvent), NEW q \in Seq(KeyEvent), NEW s, NEW t, NEW w,
         Leads(C, p, s, t), Leads(C, q, t, w)
  PROVE  Leads(C, p \o q, s, w)
<1> PICK a \in Nat : a = Len(p)
  OBVIOUS
<1> PICK b \in Nat : b = Len(q)
  OBVIOUS
<1>1. /\ p \o q \in Seq(KeyEvent) /\ Len(p \o q) = a + Len(q)
      /\ \A j \in 1 .. Len(p \o q) : (p \o q)[j] = IF j <= a THEN p[j] ELSE q[j - a]
  BY Joined
<1> PICK n \in Nat : n = a + b /\ n = Len(p \o q)
  BY <1>1
<1> PICK f \in [0 .. a -> Moment] : f[0] = s /\ f[a] = t /\ LeadsOver(C, p, f)
  BY DEF Leads
<1> PICK g \in [0 .. b -> Moment] : g[0] = t /\ g[b] = w /\ LeadsOver(C, q, g)
  BY DEF Leads
<1> DEFINE at == [i \in 0 .. n |-> IF i <= a THEN f[i] ELSE g[i - a]]
<1>2. ASSUME NEW i \in 0 .. n PROVE (i <= a => i \in 0 .. a) /\ (~(i <= a) => i - a \in 0 .. b)
  OBVIOUS
<1>3. at \in [0 .. n -> Moment]
  BY <1>2
<1>4. /\ at[0] = s /\ \A i \in 0 .. n : i <= a => at[i] = f[i]
      /\ \A i \in 0 .. n : i >= a => at[i] = g[i - a]
  <2>1. 0 \in 0 .. n /\ 0 <= a
    OBVIOUS
  <2>2. ASSUME NEW i \in 0 .. n, i >= a PROVE at[i] = g[i - a]
    <3>1. CASE i = a
      <4>1. i - a = 0 /\ i <= a
        BY <3>1
      <4> QED BY <3>1, <4>1
    <3>2. CASE i # a
      <4>1. ~(i <= a)
        BY <2>2, <3>2
      <4> QED BY <4>1
    <3> QED BY <3>1, <3>2
  <2> QED BY <2>1, <2>2
<1> HIDE DEF at
<1>5. at[n] = w
  <2>1. n \in 0 .. n /\ n >= a /\ n - a = b
    OBVIOUS
  <2> QED BY <1>4, <2>1
<1>6. ASSUME NEW i \in 1 .. n
      PROVE  /\ Fits(C, (p \o q)[i], at[i - 1], at[i])
             /\ (p \o q)[i].type = "keydown" => ~(p \o q)[i].escape
  <2>1. CASE i <= a
    <3>1. i \in 1 .. a /\ i - 1 \in 0 .. n /\ i \in 0 .. n /\ i - 1 <= a
      BY <2>1
    <3>2. (p \o q)[i] = p[i] /\ at[i - 1] = f[i - 1] /\ at[i] = f[i]
      BY <1>1, <1>4, <2>1, <3>1
    <3> QED BY <3>1, <3>2 DEF LeadsOver
  <2>2. CASE ~(i <= a)
    <3>0. i - a \in 1 .. b /\ (i - a) - 1 = (i - 1) - a
      BY <2>2
    <3> PICK j \in 1 .. b : j = i - a /\ j - 1 = (i - 1) - a
      BY <3>0
    <3>1. i - 1 \in 0 .. n /\ i \in 0 .. n /\ i - 1 >= a /\ i >= a
      BY <2>2
    <3>2. (p \o q)[i] = q[j] /\ at[i - 1] = g[j - 1] /\ at[i] = g[j]
      BY <1>1, <1>4, <2>2, <3>1
    <3> QED BY <3>2 DEF LeadsOver
  <2> QED BY <2>1, <2>2
<1>7. LeadsOver(C, p \o q, at)
  BY <1>6 DEF LeadsOver
<1> QED BY <1>3, <1>4, <1>5, <1>7 DEF Leads

LEMMA LeadsPart ==
  ASSUME NEW C, NEW q \in Seq(KeyEvent), NEW n \in Nat, n = Len(q),
         NEW at \in [0 .. n -> Moment], LeadsOver(C, q, at),
         NEW a \in 0 .. n, NEW b \in a .. n
  PROVE  Leads(C, SubSeq(q, a + 1, b), at[a], at[b])
<1> PICK p : p = SubSeq(q, a + 1, b)
  OBVIOUS
<1> PICK l \in Nat : l = b - a
  OBVIOUS
<1>1. Len(p) = l /\ \A i \in 1 .. l : p[i] = q[a + i]
  <2>1. \A i \in a + 1 .. b : q[i] \in KeyEvent
    BY ElementOfSeq
  <2>2. /\ Len(SubSeq(q, a + 1, b)) = IF a + 1 <= b THEN b - (a + 1) + 1 ELSE 0
        /\ \A i \in 1 .. b - (a + 1) + 1 : SubSeq(q, a + 1, b)[i] = q[(a + 1) + i - 1]
    BY <2>1, SubSeqProperties
  <2>3. \A i \in 1 .. l : i \in 1 .. b - (a + 1) + 1 /\ (a + 1) + i - 1 = a + i
    OBVIOUS
  <2> QED BY <2>2, <2>3
<1> DEFINE f == [i \in 0 .. l |-> at[a + i]]
<1>2. \A i \in 0 .. l : a + i \in 0 .. n
  OBVIOUS
<1>3. f \in [0 .. l -> Moment]
  BY <1>2
<1>4. f[0] = at[a] /\ f[l] = at[b]
  <2>1. 0 \in 0 .. l /\ l \in 0 .. l /\ a + 0 = a /\ a + l = b
    OBVIOUS
  <2> QED BY <2>1
<1>5. \A i \in 0 .. l : f[i] = at[a + i]
  OBVIOUS
<1> HIDE DEF f
<1>6. ASSUME NEW i \in 1 .. l
      PROVE  Fits(C, p[i], f[i - 1], f[i]) /\ (p[i].type = "keydown" => ~p[i].escape)
  <2> PICK j \in 1 .. n : j = a + i /\ j - 1 = a + (i - 1)
    OBVIOUS
  <2>1. i \in 0 .. l /\ i - 1 \in 0 .. l
    OBVIOUS
  <2>2. p[i] = q[j] /\ f[i - 1] = at[j - 1] /\ f[i] = at[j]
    BY <1>1, <1>5, <2>1
  <2> QED BY <2>2 DEF LeadsOver
<1>7. LeadsOver(C, p, f)
  BY <1>1, <1>6 DEF LeadsOver
<1> QED BY <1>1, <1>3, <1>4, <1>7 DEF Leads

-----------------------------------------------------------------------------
(* What is passed on, now or from the queue.                               *)
Acc == [entries |-> tracked, end |-> [downs |-> down, wrong |-> amiss]]

LEMMA AccTyped ==
  ASSUME KeyboardInv
  PROVE  Acc \in Chained
BY DEF KeyboardInv, KeyboardTypeOK, Acc, Chained, Keysyms, Levels

LEMMA ProcessSound ==
  ASSUME KeyboardInv, grabbed, NEW q \in Seq(KeyEvent), Process(q),
         NEW s, NEW t, Leads(CharModifiers, q, s, t), Sound(Acc, s)
  PROVE  \E m \in Moment : Leads(CharModifiers, queue', m, t) /\ Sound(Acc', m)
<1> PICK C : C = CharModifiers
  OBVIOUS
<1> PICK n \in Nat : n = Len(q)
  OBVIOUS
<1> PICK f \in 1 .. n + 1 :
      /\ f = FirstStall(q)
      /\ f = n + 1 \/ q[f].type = "stall"
      /\ \A j \in 1 .. f - 1 : q[j].type # "stall"
  BY FirstStallExists
<1>0. PassOn(SubSeq(q, 1, f - 1)) /\ queue' = SubSeq(q, f + 1, n)
  BY DEF Process
<1> PICK at \in [0 .. n -> Moment] : at[0] = s /\ at[n] = t /\ LeadsOver(C, q, at)
  BY DEF Leads
<1> PICK l \in 0 .. n : l = f - 1
  OBVIOUS
<1> PICK p : p = SubSeq(q, 1, f - 1)
  OBVIOUS
<1>1. PassOn(p) /\ queue' = SubSeq(q, f + 1, n)
  BY <1>0
<1>2. p \in Queued /\ Len(p) = l
  <2>1. \A j \in 1 .. n : q[j] \in KeyEvent
    BY ElementOfSeq
  <2>2. /\ SubSeq(q, 1, f - 1) \in Seq(KeyEvent) /\ Len(SubSeq(q, 1, f - 1)) = f - 1
        /\ \A j \in 1 .. f - 1 : SubSeq(q, 1, f - 1)[j] = q[j]
    BY <2>1, SubSeqProperties
  <2> QED BY <2>2 DEF Queued
<1>3. Leads(C, p, s, at[l])
  <2>1. 0 \in 0 .. n /\ l \in 0 .. n /\ 0 + 1 = 1 /\ l = f - 1
    OBVIOUS
  <2>2. Leads(C, SubSeq(q, 0 + 1, l), at[0], at[l])
    BY <2>1, LeadsPart
  <2> QED BY <2>1, <2>2
<1>4. PICK g \in [0 .. l -> Moment] : g[0] = s /\ g[l] = at[l] /\ LeadsOver(C, p, g)
  BY <1>2, <1>3 DEF Leads
<1>5. AfterEvents(p) \in Chained /\ Sound(AfterEvents(p), at[l])
  <2>1. Acc \in Chained
    BY AccTyped
  <2>2. Acc = [entries |-> tracked, end |-> [downs |-> down, wrong |-> amiss]]
    BY DEF Acc
  <2>3. AfterEvents(p) \in Chained
    BY <1>2, <2>1, <2>2, AfterEventsKeeps
  <2>4. Sound(AfterEvents(p), g[l])
    <3>1. l \in Nat /\ l = Len(p) /\ p \in Queued /\ Sound(Acc, g[0])
      BY <1>2, <1>4
    <3>2. LeadsOver(CharModifiers, p, g)
      BY <1>4
    <3> QED BY <2>1, <2>2, <3>1, <3>2, AfterEventsSound
  <2> QED BY <1>4, <2>3, <2>4
<1>6. Acc' = AfterEvents(p)
  <2>1. /\ tracked' = AfterEvents(p).entries
        /\ down' = AfterEvents(p).end.downs /\ amiss' = AfterEvents(p).end.wrong
    BY <1>1 DEF PassOn
  <2> QED BY <1>5, <2>1 DEF Acc, Chained
<1>7. at[l] \in Moment
  OBVIOUS
<1>8. CASE f = n + 1
  <2>1. l = n
    BY <1>8
  <2>2. SubSeq(q, f + 1, n) = <<>>
    BY <1>8, SubSeqEmpty
  <2>3. t \in Moment /\ t = at[l]
    BY <1>7, <2>1
  <2>4. Leads(C, <<>>, t, t)
    BY <2>3, LeadsNothing
  <2>5. Leads(C, queue', t, t)
    BY <1>1, <2>2, <2>4
  <2> QED BY <1>5, <1>6, <2>3, <2>5
<1>9. CASE f # n + 1
  <2>1. f \in 1 .. n /\ f \in 0 .. n /\ n \in f .. n
    BY <1>9
  <2>2. Leads(C, queue', at[f], t)
    BY <1>1, <2>1, LeadsPart
  <2>3. at[f] = at[l]
    <3>1. q[f].type = "stall" /\ Fits(C, q[f], at[f - 1], at[f])
      BY <1>9, <2>1 DEF LeadsOver
    <3> QED BY <3>1 DEF Fits, Stalled, ModifierDown, CharacterDown, Pressed, KeyIsUp
  <2> QED BY <1>5, <1>6, <1>7, <2>2, <2>3
<1> QED BY <1>8, <1>9

LEMMA FeedSound ==
  ASSUME KeyboardInv, grabbed, NEW events \in Seq(KeyEvent), Feed(events),
         NEW s \in Moment, NEW t, NEW w,
         Leads(CharModifiers, queue, s, t), Leads(CharModifiers, events, t, w), Sound(Acc, s)
  PROVE  \E m \in Moment : Leads(CharModifiers, queue', m, w) /\ Sound(Acc', m)
<1>1. CASE timer
  <2>1. queue' = queue \o events /\ queue \in Seq(KeyEvent) /\ UNCHANGED <<tracked, down, amiss>>
    BY <1>1 DEF Feed, KeyboardInv
  <2>2. Leads(CharModifiers, queue', s, w)
    BY <2>1, LeadsBoth
  <2>3. Acc' = Acc
    BY <2>1 DEF Acc
  <2> QED BY <2>2, <2>3
<1>2. CASE ~timer
  <2>1. queue = <<>> /\ Process(events)
    BY <1>2 DEF Feed, KeyboardInv, KeyboardTypeOK
  <2>2. t = s
    BY <2>1, NothingLeads
  <2> QED BY <2>1, <2>2, ProcessSound
<1> QED BY <1>1, <1>2

-----------------------------------------------------------------------------
(* ModifierSync makes up the modifiers that went down unseen.              *)
LEMMA SyncOneLeads ==
  ASSUME NEW C, NEW s \in Moment, NEW O, O \subseteq s.held, O # {} => s.last = NoId,
         NEW m \in Modifiers, NEW B \in SUBSET Modifiers, m \in O => m \notin B, NEW q,
         m \in O => q = <<Event("keydown", NoId, <<m, "plain">>, {})>>,
         m \notin O => q = <<>>
  PROVE  Leads(C, q, [s EXCEPT !.believed = B], [s EXCEPT !.believed = B \cup ({m} \cap O)])
<1> PICK a \in Moment : a = [s EXCEPT !.believed = B]
  BY DEF Moment
<1> PICK b \in Moment : b = [s EXCEPT !.believed = B \cup ({m} \cap O)]
  BY DEF Moment
<1>1. CASE m \in O
  <2> PICK e : e = Event("keydown", NoId, <<m, "plain">>, {})
    OBVIOUS
  <2>1. e.type = "keydown" /\ e.keyId = NoId /\ e.keysym = <<m, "plain">> /\ e.escape = FALSE
    BY DEF Event
  <2>2. /\ a.held = s.held /\ a.believed = B
        /\ b = [held |-> s.held, believed |-> B \cup {m}, last |-> NoId] /\ s.held \cup {m} = s.held
    BY <1>1 DEF Moment
  <2>3. ModifierDown(e, a, b)
    BY <1>1, <2>1, <2>2 DEF ModifierDown
  <2>4. Leads(C, <<e>>, a, b)
    BY <2>1, <2>3, LeadsOne DEF Fits
  <2> QED BY <1>1, <2>4
<1>2. CASE m \notin O
  <2>1. a = b
    BY <1>2 DEF Moment
  <2>2. Leads(C, <<>>, a, a)
    BY LeadsNothing
  <2> QED BY <1>2, <2>1, <2>2
<1> QED BY <1>1, <1>2

LEMMA SyncLeads ==
  ASSUME NEW C, NEW state, NEW mods, NEW key, NEW s \in Moment,
         NEW O, O = OutOfSync(state, mods, key), O \subseteq mods,
         O \subseteq s.held \ s.believed, O # {} => s.last = NoId
  PROVE  Leads(C, SyncEvents(state, mods, key), s, [s EXCEPT !.believed = @ \cup O])
<1> DEFINE synced(m) ==
             IF m \in OutOfSync(state, mods, key)
             THEN <<Event(IF m \in mods THEN "keydown" ELSE "keyup", NoId, <<m, "plain">>, {})>>
             ELSE <<>>
           at(B) == [s EXCEPT !.believed = B]
<1>1. ASSUME NEW m \in Modifiers
      PROVE  /\ synced(m) \in Seq(KeyEvent)
             /\ m \in O => synced(m) = <<Event("keydown", NoId, <<m, "plain">>, {})>>
             /\ m \notin O => synced(m) = <<>>
  <2>1. <<m, "plain">> \in Keysyms
    BY DEF Keysyms, Keys, Levels
  <2>2. <<Event("keydown", NoId, <<m, "plain">>, {})>> \in Seq(KeyEvent) /\ <<>> \in Seq(KeyEvent)
    BY <2>1, OneEvent, EmptySeq
  <2>3. /\ m \in O => synced(m) = <<Event("keydown", NoId, <<m, "plain">>, {})>>
        /\ m \notin O => synced(m) = <<>>
    OBVIOUS
  <2> HIDE DEF synced
  <2> QED BY <2>2, <2>3
<1>2. SyncEvents(state, mods, key)
        = synced("Control") \o synced("Alt") \o synced("Level3") \o synced("Shift") \o synced("Meta")
  BY DEF SyncEvents
<1> HIDE DEF synced
<1>3. ASSUME NEW m \in Modifiers, NEW B \in SUBSET Modifiers, m \in O => m \notin B
      PROVE  Leads(C, synced(m), at(B), at(B \cup ({m} \cap O)))
  BY <1>1, <1>3, SyncOneLeads
<1>4. s.believed \subseteq Modifiers /\ O \subseteq Modifiers /\ at(s.believed) = s
  BY DEF OutOfSync, Flagged, Moment
<1> DEFINE B1 == s.believed \cup ({"Control"} \cap O)
           B2 == B1 \cup ({"Alt"} \cap O)
           B3 == B2 \cup ({"Level3"} \cap O)
           B4 == B3 \cup ({"Shift"} \cap O)
           B5 == B4 \cup ({"Meta"} \cap O)
<1>5. /\ "Control" \in Modifiers /\ "Alt" \in Modifiers /\ "Level3" \in Modifiers
      /\ "Shift" \in Modifiers /\ "Meta" \in Modifiers
  BY DEF Modifiers
<1>6. B5 = s.believed \cup O
  BY <1>4 DEF Modifiers
<1>7. B1 \subseteq Modifiers /\ B2 \subseteq Modifiers /\ B3 \subseteq Modifiers /\ B4 \subseteq Modifiers
  BY <1>4
<1>8. Leads(C, synced("Control"), s, at(B1))
  <2>1. "Control" \in O => "Control" \notin s.believed
    OBVIOUS
  <2>2. Leads(C, synced("Control"), at(s.believed), at(B1))
    BY <1>3, <1>4, <1>5, <2>1
  <2> QED BY <1>4, <2>2
<1>9. Leads(C, synced("Alt"), at(B1), at(B2))
  <2>1. "Alt" \in O => "Alt" \notin B1
    OBVIOUS
  <2> QED BY <1>3, <1>5, <1>7, <2>1
<1>10. Leads(C, synced("Level3"), at(B2), at(B3))
  <2>1. "Level3" \in O => "Level3" \notin B2
    OBVIOUS
  <2> QED BY <1>3, <1>5, <1>7, <2>1
<1>11. Leads(C, synced("Shift"), at(B3), at(B4))
  <2>1. "Shift" \in O => "Shift" \notin B3
    OBVIOUS
  <2> QED BY <1>3, <1>5, <1>7, <2>1
<1>12. Leads(C, synced("Meta"), at(B4), at(B5))
  <2>1. "Meta" \in O => "Meta" \notin B4
    OBVIOUS
  <2> QED BY <1>3, <1>5, <1>7, <2>1
<1> HIDE DEF at, B1, B2, B3, B4, B5
<1>13. /\ synced("Control") \in Seq(KeyEvent) /\ synced("Alt") \in Seq(KeyEvent)
       /\ synced("Level3") \in Seq(KeyEvent) /\ synced("Shift") \in Seq(KeyEvent)
       /\ synced("Meta") \in Seq(KeyEvent)
  BY <1>1, <1>5
<1>14. /\ synced("Control") \o synced("Alt") \in Seq(KeyEvent)
       /\ Leads(C, synced("Control") \o synced("Alt"), s, at(B2))
  BY <1>8, <1>9, <1>13, LeadsBoth, ConcatProperties
<1>15. /\ synced("Control") \o synced("Alt") \o synced("Level3") \in Seq(KeyEvent)
       /\ Leads(C, synced("Control") \o synced("Alt") \o synced("Level3"), s, at(B3))
  BY <1>10, <1>13, <1>14, LeadsBoth, ConcatProperties
<1>16. /\ synced("Control") \o synced("Alt") \o synced("Level3") \o synced("Shift") \in Seq(KeyEvent)
       /\ Leads(C, synced("Control") \o synced("Alt") \o synced("Level3") \o synced("Shift"), s, at(B4))
  BY <1>11, <1>13, <1>15, LeadsBoth, ConcatProperties
<1>17. Leads(C, SyncEvents(state, mods, key), s, at(B5))
  BY <1>2, <1>12, <1>13, <1>16, LeadsBoth
<1> QED BY <1>6, <1>17 DEF at

(* What is out of sync: what was down before the page could see it.        *)
Missed(H, B, key) == ((H \cap Flagged) \ B) \ {key}

(* What an event tells and what is believed, of the keys but that of the   *)
(* event.                                                                  *)
Tells(H, B, key, known, mods) ==
  B \subseteq H /\ known \ {key} = B \ {key} /\ mods \ {key} = Mods(H) \ {key}

LEMMA OutOfSyncIs ==
  ASSUME NEW H, NEW B, NEW key, NEW known, NEW mods, Tells(H, B, key, known, mods)
  PROVE  /\ OutOfSync(known, mods, key) = Missed(H, B, key) /\ Missed(H, B, key) \subseteq mods
         /\ Synced(known, mods, key) = known \cup Missed(H, B, key)
<1> PICK O : O = Missed(H, B, key)
  OBVIOUS
<1>1. \A m \in Flagged \ {key} : (m \in known <=> m \in B) /\ (m \in mods <=> m \in H)
  BY DEF Tells, Mods, Flagged
<1>2. OutOfSync(known, mods, key) = O
  BY <1>1 DEF Tells, OutOfSync, Missed
<1>3. O \subseteq mods /\ O \cap known = {}
  BY <1>1 DEF Missed
<1> QED BY <1>2, <1>3 DEF Synced

-----------------------------------------------------------------------------
(* What the page saw and believes, between two events of the DOM.          *)
Now ==
  [held |-> held, believed |-> believed,
   last |-> IF repeating = NoRepeat \/ repeating.changed THEN NoId
            ELSE KeyId(repeating.key, Mods(held))]

(* Nothing was left out so far, and the queue tells the rest.              *)
Typing ==
  /\ believed \subseteq held
  /\ repeating \in {NoRepeat} \cup [key : Keys \ Modifiers, changed : BOOLEAN]
  /\ Now.last # NoId => held \cap Flagged \subseteq believed
  /\ pressing # NoPress => Now.last[1] = pressing.key /\ pressing.with \cap Flagged \subseteq believed
  /\ \E s \in Moment : Leads(CharModifiers, queue, s, Now) /\ Sound(Acc, s)

TypingInv ==
  /\ platform \in Platforms \cup {NoKey}
  /\ ~grabbed => /\ platform = NoKey /\ pressing = NoPress /\ ~timer
                 /\ queue = <<>> /\ tracked = <<>> /\ (SawAll => amiss = {})
  /\ grabbed /\ platform = NoKey =>
       tracked = <<>> /\ queue = <<>> /\ repeating = NoRepeat /\ believed = {} /\ amiss = {}
  /\ grabbed /\ platform # NoKey /\ faults = {} => Typing

-----------------------------------------------------------------------------
LEMMA CharModifiersSame ==
  ASSUME UNCHANGED platform
  PROVE  CharModifiers' = CharModifiers
BY DEF CharModifiers

(* The third level is typed with modifiers that events tell of, or with    *)
(* the one they do not.                                                    *)
LEMMA ThirdLevel ==
  ASSUME TypingInv, platform # NoKey
  PROVE  CharModifiers \subseteq Flagged \/ \E m : CharModifiers = {m}
<1>1. platform \in {"linux", "windows", "mac"}
  BY KeyboardAssumption DEF TypingInv
<1>2. CharModifiers \in {{"Level3"}, {"Alt", "Control"}, {"Alt"}}
  BY <1>1 DEF CharModifiers, CharModifierOf
<1> QED BY <1>2 DEF Flagged, Modifiers

LEMMA KeyIdTyped ==
  ASSUME NEW k \in Keys, NEW mods
  PROVE  KeyId(k, mods) \in KeyIds /\ KeyId(k, mods)[1] = k /\ KeyId(k, mods) # NoId
<1>1. Level(k, mods) \in Levels
  BY DEF Level, Levels
<1>2. KeyId(k, mods) \in KeyIds /\ KeyId(k, mods)[1] = k
  BY <1>1 DEF KeyId, KeyIds, Levels
<1> QED BY <1>2, NamesKey

LEMMA NowTyped ==
  ASSUME KeyboardInv, Typing
  PROVE  /\ Now \in Moment
         /\ Now.held = held /\ Now.believed = believed
         /\ Now.last = IF repeating = NoRepeat \/ repeating.changed THEN NoId
                       ELSE KeyId(repeating.key, Mods(held))
         /\ Now.last # NoId =>
              /\ repeating \in [key : Keys \ Modifiers, changed : {FALSE}]
              /\ Now.last[1] = repeating.key
<1>1. held \subseteq Keys /\ believed \subseteq Modifiers
  BY DEF KeyboardInv, KeyboardTypeOK
<1>2. NoId \in KeyIds
  BY DEF NoId, KeyIds, Levels
<1>3. repeating # NoRepeat => repeating.key \in Keys \ Modifiers /\ repeating.changed \in BOOLEAN
  BY DEF Typing
<1>4. repeating # NoRepeat =>
        KeyId(repeating.key, Mods(held)) \in KeyIds /\ KeyId(repeating.key, Mods(held))[1] = repeating.key
  BY <1>3, KeyIdTyped
<1> QED BY <1>1, <1>2, <1>3, <1>4 DEF Now, Moment, Typing

LEMMA NowNext ==
  ASSUME UNCHANGED <<platform, named>>
  PROVE  Now' = [held |-> held', believed |-> believed',
                 last |-> IF repeating' = NoRepeat \/ repeating'.changed THEN NoId
                          ELSE KeyId(repeating'.key, Mods(held'))]
BY DEF Now, KeyId, Level, CharModifiers, Mods

-----------------------------------------------------------------------------
(* What the user and the browser do.                                       *)
LEMMA TypingStays ==
  ASSUME TypingInv, UNCHANGED <<platform, grabbed>>, grabbed, platform # NoKey,
         faults' = {} => Typing'
  PROVE  TypingInv'
BY DEF TypingInv

(* The events that an action feeds lead from what was to what is.          *)
LEMMA FedSound ==
  ASSUME KeyboardInv, Typing, grabbed, UNCHANGED platform,
         NEW events \in Seq(KeyEvent), Feed(events), Leads(CharModifiers, events, Now, Now')
  PROVE  (\E s \in Moment : Leads(CharModifiers, queue, s, Now) /\ Sound(Acc, s))'
<1> PICK s \in Moment : Leads(CharModifiers, queue, s, Now) /\ Sound(Acc, s)
  BY DEF Typing
<1>1. \E m \in Moment : Leads(CharModifiers, queue', m, Now') /\ Sound(Acc', m)
  BY FeedSound
<1>2. CharModifiers' = CharModifiers
  BY CharModifiersSame
<1> QED BY <1>1, <1>2

(* What is out of sync with the keys held, k aside.                        *)
Unseen(k) == Missed(held, believed, k)

LEMMA UnseenLeads ==
  ASSUME KeyboardInv, Typing, NEW k, NEW known, NEW mods,
         known \ {k} = believed \ {k}, mods \ {k} = Mods(held) \ {k}
  PROVE  /\ Synced(known, mods, k) = known \cup Unseen(k)
         /\ Leads(CharModifiers, SyncEvents(known, mods, k), Now, [Now EXCEPT !.believed = @ \cup Unseen(k)])
         /\ SyncEvents(known, mods, k) \in Seq(KeyEvent)
<1> PICK O : O = Unseen(k)
  OBVIOUS
<1>1. /\ OutOfSync(known, mods, k) = O /\ O \subseteq mods
      /\ Synced(known, mods, k) = known \cup O
  <2>1. O = Missed(held, believed, k) /\ Tells(held, believed, k, known, mods)
    BY DEF Typing, Unseen, Tells
  <2> QED BY <2>1, OutOfSyncIs
<1>2. Now \in Moment /\ O \subseteq Now.held \ Now.believed
  BY NowTyped DEF Unseen, Missed
<1>3. O # {} => Now.last = NoId
  BY DEF Typing, Unseen, Missed
<1>4. Leads(CharModifiers, SyncEvents(known, mods, k), Now, [Now EXCEPT !.believed = @ \cup O])
  BY <1>1, <1>2, <1>3, SyncLeads
<1> QED BY <1>1, <1>4, SyncEventsTyped

LEMMA MouseMovesTyping ==
  ASSUME KeyboardInv, TypingInv, MouseMoves
  PROVE  TypingInv'
<1>1. /\ believed' = Synced(believed, Mods(held), NoKey)
      /\ Feed(SyncEvents(believed, Mods(held), NoKey))
      /\ UNCHANGED <<platform, named, grabbed, held, pressing, repeating, faults>>
      /\ platform # NoKey /\ grabbed /\ pressing = NoPress
  BY DEF MouseMoves, Acts, Listening
<1> SUFFICES ASSUME faults = {} PROVE Typing'
  BY <1>1, TypingStays
<1>2. Typing
  BY <1>1 DEF TypingInv
<1>3. /\ Synced(believed, Mods(held), NoKey) = believed \cup Unseen(NoKey)
      /\ Leads(CharModifiers, SyncEvents(believed, Mods(held), NoKey), Now,
               [Now EXCEPT !.believed = @ \cup Unseen(NoKey)])
      /\ SyncEvents(believed, Mods(held), NoKey) \in Seq(KeyEvent)
  BY <1>2, UnseenLeads
<1>4. Now' = [Now EXCEPT !.believed = @ \cup Unseen(NoKey)]
  <2>1. Now' = [held |-> held', believed |-> believed',
                last |-> IF repeating' = NoRepeat \/ repeating'.changed THEN NoId
                         ELSE KeyId(repeating'.key, Mods(held'))]
    BY <1>1, NowNext
  <2>2. Now' = [held |-> held, believed |-> believed \cup Unseen(NoKey), last |-> Now.last]
    BY <1>1, <1>2, <1>3, <2>1, NowTyped
  <2> QED BY <1>2, <2>2, NowTyped DEF Moment
<1>5. (\E s \in Moment : Leads(CharModifiers, queue, s, Now) /\ Sound(Acc, s))'
  BY <1>1, <1>2, <1>3, <1>4, FedSound
<1>6. believed' \subseteq held' /\ (held' \cap Flagged \subseteq believed')
  <2>1. NoKey \notin held
    BY KeyboardAssumption DEF KeyboardInv, KeyboardTypeOK, Keys
  <2> QED BY <1>1, <1>2, <1>3, <2>1 DEF Unseen, Missed, Typing
<1> QED BY <1>1, <1>2, <1>5, <1>6 DEF Typing

LEMMA KeyUpTyping ==
  ASSUME KeyboardInv, TypingInv, NEW k \in Keys, KeyUp(k)
  PROVE  TypingInv'
<1> DEFINE mods  == Mods(held')
           known == believed \ {k}
           state == Synced(known, mods, k)
           sync  == SyncEvents(known, mods, k)
           e     == Decoded("keyup", k, mods, state)
           O     == Unseen(k)
<1>1. /\ held' = held \ {k} /\ believed' = state /\ Feed(sync \o <<e>>) /\ k \in held
      /\ repeating' = IF k = repeating.key THEN NoRepeat ELSE ModifierChanges(k)
      /\ UNCHANGED <<platform, named, grabbed, pressing, faults>>
      /\ platform # NoKey /\ grabbed /\ pressing = NoPress
  BY DEF KeyUp, Acts, Listening
<1> SUFFICES ASSUME faults = {} PROVE Typing'
  BY <1>1, TypingStays
<1>2. Typing
  BY <1>1 DEF TypingInv
<1>3. mods \subseteq Modifiers /\ mods \ {k} = Mods(held) \ {k}
  BY <1>1 DEF Mods
<1>4. /\ state = known \cup O
      /\ Leads(CharModifiers, sync, Now, [Now EXCEPT !.believed = @ \cup O])
      /\ sync \in Seq(KeyEvent)
  BY <1>2, <1>3, UnseenLeads
<1>5. e.type = "keyup" /\ e.keyId = KeyId(k, mods) /\ e \in KeyEvent
  BY <1>3, EventsTyped DEF Decoded, Event
<1> HIDE DEF mods, state, sync, e
<1>6. /\ Now \in Moment /\ Now.held = held /\ Now.believed = believed
      /\ Now.last = IF repeating = NoRepeat \/ repeating.changed THEN NoId
                    ELSE KeyId(repeating.key, Mods(held))
      /\ Now.last # NoId =>
              /\ repeating \in [key : Keys \ Modifiers, changed : {FALSE}]
              /\ Now.last[1] = repeating.key
  BY <1>2, NowTyped
<1>7. e.keyId[1] = k
  BY <1>5, KeyIdTyped
<1>8. NoId[1] # k
  BY KeyboardAssumption DEF NoId, Keys
<1> PICK l : l = IF k \in Modifiers \/ Now.last[1] = k THEN NoId ELSE Now.last
  OBVIOUS
<1>9. /\ repeating' \in {NoRepeat} \cup [key : Keys \ Modifiers, changed : BOOLEAN]
      /\ Now' = [held |-> held \ {k}, believed |-> state, last |-> l]
  <2>0. Now' = [held |-> held \ {k}, believed |-> state,
                last |-> IF repeating' = NoRepeat \/ repeating'.changed THEN NoId
                         ELSE KeyId(repeating'.key, Mods(held'))]
    BY <1>1, NowNext
  <2>1. CASE k = repeating.key
    <3>1. repeating' = NoRepeat
      BY <1>1, <2>1
    <3>2. l = NoId
      BY <1>6, <2>1
    <3> QED BY <2>0, <3>1, <3>2
  <2>2. CASE k # repeating.key /\ repeating = NoRepeat
    <3>1. repeating' = NoRepeat
      BY <1>1, <2>2 DEF ModifierChanges, NoRepeat
    <3>2. l = NoId
      BY <1>6, <2>2
    <3> QED BY <2>0, <3>1, <3>2
  <2>3. CASE k # repeating.key /\ repeating # NoRepeat /\ k \in Modifiers
    <3>1. repeating \in [key : Keys \ Modifiers, changed : BOOLEAN]
      BY <1>2, <2>3 DEF Typing
    <3>2. repeating' = [key |-> repeating.key, changed |-> TRUE]
      BY <1>1, <2>3, <3>1 DEF ModifierChanges
    <3>3. l = NoId
      BY <2>3
    <3> QED BY <2>0, <3>1, <3>2, <3>3
  <2>4. CASE k # repeating.key /\ repeating # NoRepeat /\ k \notin Modifiers
    <3>1. repeating \in [key : Keys \ Modifiers, changed : BOOLEAN]
      BY <1>2, <2>4 DEF Typing
    <3>2. repeating' = repeating
      <4>1. repeating' = [repeating EXCEPT !.changed = @ \/ FALSE]
        BY <1>1, <2>4 DEF ModifierChanges
      <4>2. (repeating.changed \/ FALSE) = repeating.changed
        BY <3>1
      <4> QED BY <3>1, <4>1, <4>2
    <3>3. Mods(held') = Mods(held)
      BY <1>1, <2>4 DEF Mods
    <3>4. l = Now.last
      BY <1>6, <1>8, <2>4
    <3> QED BY <1>6, <2>0, <3>1, <3>2, <3>3, <3>4
  <2> QED BY <2>1, <2>2, <2>3, <2>4
<1> PICK m \in Moment : m = [Now EXCEPT !.believed = @ \cup O]
  <2>1. O \subseteq Modifiers
    BY DEF Unseen, Missed, Flagged
  <2> QED BY <1>6, <2>1 DEF Moment
<1>10. Now' \in Moment
  <2>1. state \subseteq Modifiers /\ l \in KeyIds
    BY <1>4, <1>6 DEF Unseen, Missed, Flagged, Moment, NoId, KeyIds, Levels, KeyboardInv, KeyboardTypeOK
  <2> QED BY <1>6, <1>9, <2>1 DEF Moment
<1>11. KeyIsUp(e, m, Now')
  <2>1. m.held = held /\ m.believed = believed \cup O /\ m.last = Now.last
    BY <1>6 DEF Moment
  <2>2. state = (believed \cup O) \ {k}
    BY <1>4 DEF Unseen, Missed
  <2> QED BY <1>5, <1>7, <1>9, <2>1, <2>2 DEF KeyIsUp
<1>12. Leads(CharModifiers, <<e>>, m, Now')
  BY <1>5, <1>10, <1>11, LeadsOne DEF Fits
<1>13. <<e>> \in Seq(KeyEvent) /\ sync \o <<e>> \in Seq(KeyEvent)
  BY <1>4, <1>5, ConcatProperties
<1>14. Leads(CharModifiers, sync \o <<e>>, Now, Now')
  BY <1>4, <1>12, <1>13, LeadsBoth
<1>15. (\E s \in Moment : Leads(CharModifiers, queue, s, Now) /\ Sound(Acc, s))'
  BY <1>1, <1>2, <1>13, <1>14, FedSound
<1>16. believed' \subseteq held' /\ (held' \cap Flagged \subseteq believed')
  BY <1>1, <1>2, <1>4 DEF Unseen, Missed, Typing
<1> QED BY <1>1, <1>9, <1>15, <1>16 DEF Typing

LEMMA KeyDownTyping ==
  ASSUME KeyboardInv, TypingInv, NEW k \in Keys, KeyDown(k)
  PROVE  TypingInv'
<1> DEFINE mods  == Mods(held')
           known == believed \cup Mods({k})
           state == Synced(known, mods, k)
           sync  == SyncEvents(known, mods, k)
           stall == IF Stalls(k, state) THEN <<Stall>> ELSE <<>>
           e     == Decoded("keydown", k, mods, state)
           O     == Unseen(k)
<1>1. /\ held' = held \cup {k} /\ believed' = state /\ Feed(sync \o stall \o <<e>>)
      /\ \/ /\ k \notin held
            /\ repeating' = IF k \in Modifiers THEN ModifierChanges(k) ELSE [key |-> k, changed |-> FALSE]
            /\ UNCHANGED faults
         \/ /\ k \in held /\ k = repeating.key
            /\ faults' = faults \cup (IF repeating.changed THEN {"repeat"} ELSE {})
            /\ UNCHANGED repeating
      /\ pressing' = IF Suppressed(k, state) THEN NoPress ELSE [key |-> k, with |-> mods]
      /\ UNCHANGED <<platform, named, grabbed>> /\ platform # NoKey /\ grabbed
  BY DEF KeyDown, Acts, Listening
<1> SUFFICES ASSUME faults' = {} PROVE Typing'
  BY <1>1, TypingStays
<1>2. faults = {} /\ (k \in held => ~repeating.changed)
  BY <1>1
<1>3. Typing
  BY <1>1, <1>2 DEF TypingInv
<1>4. /\ mods \subseteq Modifiers /\ mods \ {k} = Mods(held) \ {k}
      /\ known \ {k} = believed \ {k} /\ (k \in Modifiers => known = believed \cup {k})
      /\ (k \notin Modifiers => known = believed)
  BY <1>1 DEF Mods
<1>5. /\ state = known \cup O
      /\ Leads(CharModifiers, sync, Now, [Now EXCEPT !.believed = @ \cup O])
      /\ sync \in Seq(KeyEvent)
  BY <1>3, <1>4, UnseenLeads
<1>6. /\ e.type = "keydown" /\ e.keyId = KeyId(k, mods) /\ e.escape = FALSE /\ e.with = mods
      /\ e.keysym \in {Guess(k, mods), NoKeysym} /\ (k \in Modifiers => e.keysym = Guess(k, mods))
      /\ e \in KeyEvent
  BY <1>4, EventsTyped DEF Decoded, Event, NonCharacterKey
<1>7. pressing' = NoPress \/ (pressing' = [key |-> k, with |-> mods] /\ k \notin Modifiers)
  BY <1>1 DEF Suppressed, NonCharacterKey
<1>8. stall = <<>> \/ stall = <<Stall>>
  OBVIOUS
<1> HIDE DEF mods, known, state, sync, stall, e
<1>9. /\ Now \in Moment /\ Now.held = held /\ Now.believed = believed
      /\ Now.last = IF repeating = NoRepeat \/ repeating.changed THEN NoId
                    ELSE KeyId(repeating.key, Mods(held))
  BY <1>3, NowTyped
<1>10. O \subseteq Modifiers /\ held \subseteq Keys /\ believed \subseteq Modifiers /\ believed \subseteq held
  BY <1>3 DEF Unseen, Missed, Flagged, KeyboardInv, KeyboardTypeOK, Typing
<1> PICK m \in Moment : m = [Now EXCEPT !.believed = @ \cup O]
  BY <1>9, <1>10 DEF Moment
<1>11. m.held = held /\ m.believed = believed \cup O /\ m.last = Now.last
  BY <1>9 DEF Moment
<1>12. Now' = [held |-> held \cup {k}, believed |-> known \cup O,
               last |-> IF repeating' = NoRepeat \/ repeating'.changed THEN NoId
                        ELSE KeyId(repeating'.key, mods)]
  BY <1>1, <1>5, NowNext DEF mods
<1>13. KeyId(k, mods) \in KeyIds /\ KeyId(k, mods)[1] = k
  BY KeyIdTyped
<1>14. mods \cap Flagged \subseteq believed'
  BY <1>1, <1>4, <1>5, <1>10 DEF Unseen, Missed, Mods
<1>15. /\ repeating' \in {NoRepeat} \cup [key : Keys \ Modifiers, changed : BOOLEAN]
       /\ Fits(CharModifiers, e, m, Now') /\ Now' \in Moment
       /\ k \notin Modifiers => Now'.last = KeyId(k, mods)
  <2>1. CASE k \in Modifiers
    <3>1. repeating.key # k
      <4>1. NoRepeat.key = NoKey /\ NoKey \notin Keys
        BY KeyboardAssumption DEF NoRepeat, Keys
      <4> QED BY <1>3, <2>1, <4>1 DEF Typing
    <3>2. k \notin held /\ repeating' = ModifierChanges(k)
      BY <1>1, <2>1, <3>1
    <3>3. /\ repeating' \in {NoRepeat} \cup [key : Keys \ Modifiers, changed : BOOLEAN]
          /\ repeating' = NoRepeat \/ repeating'.changed
      <4>1. CASE repeating = NoRepeat
        BY <3>2, <4>1 DEF ModifierChanges, NoRepeat
      <4>2. CASE repeating # NoRepeat
        <5>1. repeating \in [key : Keys \ Modifiers, changed : BOOLEAN]
          BY <1>3, <4>2 DEF Typing
        <5>2. repeating' = [key |-> repeating.key, changed |-> TRUE]
          BY <2>1, <3>2, <4>2, <5>1 DEF ModifierChanges
        <5> QED BY <5>1, <5>2
      <4> QED BY <4>1, <4>2
    <3>4. Now' = [held |-> m.held \cup {k}, believed |-> m.believed \cup {k}, last |-> NoId]
      BY <1>4, <1>11, <1>12, <2>1, <3>3
    <3>5. e.keysym = <<k, "plain">>
      BY <1>6, <2>1, KeyboardAssumption DEF Guess
    <3>6. k \in Modifiers \ m.believed
      BY <1>10, <1>11, <2>1, <3>2 DEF Unseen, Missed
    <3>7. ModifierDown(e, m, Now')
      BY <1>6, <1>13, <3>4, <3>5, <3>6 DEF ModifierDown
    <3>8. NoId \in KeyIds
      BY DEF NoId, KeyIds, Levels
    <3>9. Now' \in Moment
      BY <1>10, <1>11, <2>1, <3>4, <3>8 DEF Moment
    <3> QED BY <2>1, <3>3, <3>7, <3>9 DEF Fits
  <2>2. CASE k \notin Modifiers
    <3>1. /\ repeating' \in [key : Keys \ Modifiers, changed : {FALSE}] /\ repeating'.key = k
          /\ k \notin held \/ KeyId(k, mods) = Now.last
      <4>1. CASE k \notin held
        <5>1. repeating' = [key |-> k, changed |-> FALSE]
          BY <1>1, <2>2, <4>1
        <5>2. FALSE \in {FALSE} /\ k \in Keys \ Modifiers
          BY <2>2
        <5> PICK rep : rep = [key |-> k, changed |-> FALSE]
          OBVIOUS
        <5>3. rep \in [key : Keys \ Modifiers, changed : {FALSE}] /\ rep.key = k
          BY <5>2
        <5>4. repeating' = rep
          BY <5>1
        <5> QED BY <4>1, <5>3, <5>4
      <4>2. CASE k \in held
        <5>1. k = repeating.key /\ repeating' = repeating /\ ~repeating.changed
          BY <1>1, <1>2, <4>2
        <5>2. repeating # NoRepeat
          BY <5>1, KeyboardAssumption DEF NoRepeat, Keys
        <5>3. repeating \in [key : Keys \ Modifiers, changed : BOOLEAN]
          BY <1>3, <5>2 DEF Typing
        <5>4. mods = Mods(held)
          BY <1>1, <4>2 DEF mods, Mods
        <5>5. Now.last = KeyId(k, mods)
          BY <1>9, <5>1, <5>2, <5>4
        <5> QED BY <5>1, <5>3, <5>5
      <4> QED BY <4>1, <4>2
    <3>2. repeating' # NoRepeat /\ ~repeating'.changed
      <4>1. NoRepeat.key = NoKey /\ NoKey \notin Keys
        BY KeyboardAssumption DEF NoRepeat, Keys
      <4>2. repeating' # NoRepeat
        BY <3>1, <4>1
      <4>3. \A rep \in [key : Keys \ Modifiers, changed : {FALSE}] : ~rep.changed
        OBVIOUS
      <4> QED BY <3>1, <4>2, <4>3
    <3>3. Now' = [held |-> m.held \cup {k}, believed |-> m.believed, last |-> KeyId(k, mods)]
      BY <1>4, <1>11, <1>12, <2>2, <3>1, <3>2
    <3>4. e.keysym \in {NoKeysym} \cup ({k} \X Levels) /\ e.keysym[2] # "third"
      BY <1>6 DEF Guess, NoKeysym, Levels
    <3>5. TypedWith(CharModifiers, e, m.believed)
      BY <1>1, <1>4, <1>5, <1>6, <1>11, <1>14, <2>2, <3>4 DEF TypedWith
    <3>6. CharacterDown(CharModifiers, e, m, Now')
      BY <1>6, <1>11, <1>13, <2>2, <3>1, <3>3, <3>4, <3>5 DEF CharacterDown
    <3>7. Now' \in Moment
      BY <1>10, <1>11, <1>13, <3>3 DEF Moment
    <3> QED BY <3>1, <3>3, <3>6, <3>7 DEF Fits
  <2> QED BY <2>1, <2>2
<1>16. stall \in Seq(KeyEvent) /\ Leads(CharModifiers, stall, m, m)
  <2>1. CASE stall = <<>>
    <3>1. Leads(CharModifiers, <<>>, m, m)
      BY LeadsNothing
    <3> QED BY <2>1, <3>1, EmptySeq
  <2>2. CASE stall = <<Stall>>
    <3>1. Stall.type = "stall"
      BY DEF Stall, Event
    <3>2. Leads(CharModifiers, <<Stall>>, m, m)
      BY <3>1, LeadsOne DEF Fits, Stalled
    <3>3. <<Stall>> \in Seq(KeyEvent)
      BY OneEvent DEF Stall
    <3> QED BY <2>2, <3>2, <3>3
  <2> QED BY <1>8, <2>1, <2>2
<1>17. Leads(CharModifiers, <<e>>, m, Now')
  BY <1>6, <1>15, LeadsOne
<1>18. <<e>> \in Seq(KeyEvent) /\ sync \o stall \in Seq(KeyEvent) /\ sync \o stall \o <<e>> \in Seq(KeyEvent)
  BY <1>5, <1>6, <1>16, ConcatProperties
<1>19. Leads(CharModifiers, sync \o stall, Now, m)
  BY <1>5, <1>16, LeadsBoth
<1>20. Leads(CharModifiers, sync \o stall \o <<e>>, Now, Now')
  BY <1>17, <1>18, <1>19, LeadsBoth
<1>21. (\E s \in Moment : Leads(CharModifiers, queue, s, Now) /\ Sound(Acc, s))'
  BY <1>1, <1>3, <1>18, <1>20, FedSound
<1>22. believed' \subseteq held' /\ (held' \cap Flagged \subseteq believed')
  BY <1>1, <1>4, <1>5, <1>10 DEF Unseen, Missed, Flagged
<1>23. pressing' # NoPress => Now'.last[1] = pressing'.key /\ pressing'.with \cap Flagged \subseteq believed'
  BY <1>7, <1>13, <1>14, <1>15
<1> QED BY <1>15, <1>21, <1>22, <1>23 DEF Typing

LEMMA KeyPressTyping ==
  ASSUME KeyboardInv, TypingInv, KeyPress
  PROVE  TypingInv'
<1> PICK full : full = Level(pressing.key, pressing.with)
  OBVIOUS
<1> PICK level \in {full, IF full = "third" THEN "plain" ELSE full} :
      Feed(<<DecodedPress(pressing.key, level, pressing.with, believed)>>)
  BY DEF KeyPress
<1> PICK e : e = DecodedPress(pressing.key, level, pressing.with, believed)
  OBVIOUS
<1>1. /\ pressing # NoPress /\ pressing' = NoPress
      /\ UNCHANGED <<platform, named, grabbed, held, focused, believed, repeating, faults, userEvents>>
  BY DEF KeyPress
<1>2. grabbed /\ platform # NoKey
  BY <1>1 DEF TypingInv, KeyboardInv
<1> SUFFICES ASSUME faults = {} PROVE Typing'
  BY <1>1, <1>2, TypingStays
<1>3. Typing
  BY <1>2 DEF TypingInv
<1>4. pressing \in [key : Keys, with : SUBSET Modifiers]
  BY <1>1 DEF KeyboardInv
<1>5. /\ Now.last[1] = pressing.key /\ pressing.with \cap Flagged \subseteq believed
      /\ Now.believed = believed /\ Now \in Moment
      /\ Now.last # NoId =>
              /\ repeating \in [key : Keys \ Modifiers, changed : {FALSE}]
              /\ Now.last[1] = repeating.key
  BY <1>1, <1>3, NowTyped DEF Typing
<1>6. Now.last # NoId /\ pressing.key \in Keys \ Modifiers
  BY <1>4, <1>5, NamesKey
<1>7. level \in Levels
  BY <1>6, EventsTyped DEF Levels, Level
<1>8. /\ e.type = "keypress" /\ e.keysym = <<pressing.key, level>> /\ e.with = pressing.with
      /\ e.escape = ActiveCharModifier(believed) /\ e \in KeyEvent
  BY <1>4, <1>7, EventsTyped DEF DecodedPress, Event
<1>9. level = "third" => e.escape \/ CharModifiers \cap believed = {}
  <2> SUFFICES ASSUME level = "third", ~(CharModifiers \subseteq believed)
               PROVE  CharModifiers \cap believed = {}
    BY <1>8 DEF ActiveCharModifier
  <2>1. full = "third"
    OBVIOUS
  <2>2. CharModifiers \subseteq pressing.with
    BY <1>6, <2>1 DEF Level
  <2>3. ~(CharModifiers \subseteq Flagged)
    BY <1>5, <2>2
  <2> QED BY <1>2, <2>3, ThirdLevel
<1>10. TypedWith(CharModifiers, e, Now.believed)
  <2>1. e.with \cap Flagged \subseteq Now.believed
    BY <1>5, <1>8
  <2>2. e.escape => CharModifiers \subseteq Now.believed
    BY <1>5, <1>8 DEF ActiveCharModifier
  <2>3. e.keysym[2] = "third" => e.escape \/ CharModifiers \cap Now.believed = {}
    <3>1. e.keysym[2] = level /\ Now.believed = believed
      BY <1>5, <1>8
    <3> QED BY <1>9, <3>1
  <2> QED BY <2>1, <2>2, <2>3 DEF TypedWith
<1>11. Now' = Now
  BY <1>1, NowNext DEF Now
<1>12. Pressed(CharModifiers, e, Now, Now')
  BY <1>5, <1>6, <1>7, <1>8, <1>10, <1>11 DEF Pressed
<1>13. Leads(CharModifiers, <<e>>, Now, Now')
  BY <1>5, <1>8, <1>11, <1>12, LeadsOne DEF Fits
<1>14. Feed(<<e>>) /\ <<e>> \in Seq(KeyEvent)
  BY <1>8
<1>15. (\E s \in Moment : Leads(CharModifiers, queue, s, Now) /\ Sound(Acc, s))'
  BY <1>1, <1>2, <1>3, <1>13, <1>14, FedSound
<1> QED BY <1>1, <1>3, <1>11, <1>15 DEF Typing

LEMMA TimerFiresTyping ==
  ASSUME KeyboardInv, TypingInv, TimerFires
  PROVE  TypingInv'
<1>1. /\ Process(queue) /\ timer
      /\ UNCHANGED <<platform, named, grabbed, held, believed, pressing, repeating, faults>>
  BY DEF TimerFires
<1>2. grabbed /\ platform # NoKey
  BY <1>1 DEF TypingInv, KeyboardInv
<1> SUFFICES ASSUME faults = {} PROVE Typing'
  BY <1>1, <1>2, TypingStays
<1>3. Typing
  BY <1>2 DEF TypingInv
<1>4. Now' = Now
  BY <1>1, NowNext DEF Now
<1> PICK s \in Moment : Leads(CharModifiers, queue, s, Now) /\ Sound(Acc, s)
  BY <1>3 DEF Typing
<1>5. queue \in Seq(KeyEvent)
  BY DEF KeyboardInv
<1>6. \E m \in Moment : Leads(CharModifiers, queue', m, Now') /\ Sound(Acc', m)
  BY <1>1, <1>2, <1>4, <1>5, ProcessSound
<1>7. CharModifiers' = CharModifiers
  BY <1>1, CharModifiersSame
<1> QED BY <1>1, <1>3, <1>4, <1>6, <1>7 DEF Typing

LEMMA TurnToTyping ==
  ASSUME KeyboardInv, TypingInv, TurnTo
  PROVE  TypingInv'
<1>1. /\ grabbed' /\ grabbed /\ platform = NoKey /\ platform' \in Platforms /\ platform' # NoKey
      /\ UNCHANGED <<believed, queue, tracked, pressing, repeating, down, amiss>>
  BY KeyboardAssumption DEF TurnTo
<1>2. /\ tracked' = <<>> /\ queue' = <<>> /\ repeating' = NoRepeat /\ believed' = {} /\ amiss' = {}
      /\ pressing' = NoPress /\ down' = {}
  BY <1>1 DEF TypingInv, KeyboardInv
<1>3. held' \subseteq Keys
  BY TurnToKeeps DEF KeyboardInv, KeyboardTypeOK
<1>4. Now' = [held |-> held', believed |-> {}, last |-> NoId]
  BY <1>2 DEF Now
<1>5. Now' \in Moment /\ Now'.last = NoId
  <2>1. NoId \in KeyIds
    BY DEF NoId, KeyIds, Levels
  <2> QED BY <1>3, <1>4, <2>1 DEF Moment
<1>6. Leads(CharModifiers', queue', Now', Now')
  BY <1>2, <1>5, LeadsNothing
<1>7. Good(Acc', Now')
  <2>1. Acc'.entries = <<>> /\ Acc'.end.downs = {} /\ Acc'.end.wrong = {}
    BY <1>2 DEF Acc
  <2>2. EntriesRight(<<>>, Now')
    <3>1. DOMAIN <<>> = {}
      BY EmptySeq
    <3> QED BY <1>4, <1>5, <3>1 DEF EntriesRight
  <2>3. EndRight({}, Now'.believed)
    BY <1>4 DEF EndRight
  <2> QED BY <2>1, <2>2, <2>3 DEF Good
<1>8. Typing'
  BY <1>2, <1>4, <1>5, <1>6, <1>7 DEF Typing, Sound
<1> QED BY <1>1, <1>8 DEF TypingInv

LEMMA BlurTyping ==
  ASSUME TypingInv, Blur
  PROVE  TypingInv'
<1>1. UNCHANGED <<platform, grabbed>> /\ grabbed /\ platform # NoKey /\ faults' # {}
  BY DEF Blur, Acts, Listening
<1> QED BY <1>1, TypingStays

LEMMA GrabTyping ==
  ASSUME Grab
  PROVE  TypingInv'
BY DEF Grab, TypingInv

(* Nothing was amiss as long as the page saw all.                          *)
LEMMA SawAllAmiss ==
  ASSUME TypingInv, SawAll
  PROVE  amiss = {}
<1>1. CASE grabbed /\ platform # NoKey
  <2>1. Typing /\ "guess" \notin amiss
    BY <1>1 DEF SawAll, TypingInv
  <2> PICK s \in Moment : Sound(Acc, s)
    BY <2>1 DEF Typing
  <2> QED BY <2>1 DEF Sound, Good, Acc
<1>2. CASE ~(grabbed /\ platform # NoKey)
  BY <1>2 DEF TypingInv
<1> QED BY <1>1, <1>2

(* The keyups of the end are no guess.                                     *)
LEMMA ReleaseAllPassed ==
  ASSUME KeyboardInv, PassOn(<<Event("releaseall", NoId, NoKeysym, {})>>)
  PROVE  amiss' = amiss
<1> PICK e : e = Event("releaseall", NoId, NoKeysym, {})
  OBVIOUS
<1>1. e.type = "releaseall" /\ e \in KeyEvent
  BY OneEvent DEF Event
<1> PICK q : q = <<e>>
  OBVIOUS
<1>2. Len(q) = 1 /\ q[1] = e /\ ~Follows(q, 0) /\ ~Follows(q, 1)
  BY DEF Follows
<1>3. Verified(q, 1) = e
  BY <1>2 DEF Verified
<1>4. Acc \in Chained /\ Acc.end.wrong = amiss
  BY AccTyped DEF Acc
<1>5. AfterEvents(q) = Through(Acc, e)
  <2>1. 1 \in Nat /\ 1 \in 1 .. 1 /\ 1 - 1 = 0
    OBVIOUS
  <2> PICK f :
        /\ f[0] = [entries |-> tracked, end |-> [downs |-> down, wrong |-> amiss]]
        /\ \A i \in 1 .. 1 :
             f[i] = IF Follows(q, i - 1) THEN f[i - 1] ELSE Through(f[i - 1], Verified(q, i))
        /\ f[1] = AfterEvents(q)
    BY <1>2, <2>1, AfterEventsChain
  <2>2. f[0] = Acc
    BY DEF Acc
  <2> QED BY <1>2, <1>3, <2>1, <2>2
<1>6. Track(Acc.entries, e).passed = FALSE /\ Guesses(Acc.entries, e) = {}
  BY <1>1, NoGuess DEF Track, TrackAllUp, Tracked
<1>7. Through(Acc, e).end.wrong = amiss
  BY <1>1, <1>4, <1>6, ThroughKept
<1> QED BY <1>5, <1>7 DEF PassOn

LEMMA UngrabTyping ==
  ASSUME KeyboardInv, TypingInv, Ungrab, pressing = NoPress
  PROVE  TypingInv'
<1>1. /\ grabbed' = FALSE /\ platform' = NoKey /\ pressing' = NoPress /\ timer' = FALSE
      /\ queue' = <<>> /\ tracked' = <<>>
  BY DEF Ungrab
<1>2. SawAll' => amiss' = {}
  <2>1. CASE timer
    BY <2>1 DEF Ungrab, SawAll
  <2>2. CASE ~timer
    <3>1. PassOn(<<Event("releaseall", NoId, NoKeysym, {})>>) /\ faults' = faults
      BY <2>2 DEF Ungrab
    <3>2. amiss' = amiss
      BY <3>1, ReleaseAllPassed
    <3>3. SawAll' => SawAll
      BY <3>1, <3>2 DEF SawAll
    <3> QED BY <3>2, <3>3, SawAllAmiss
  <2> QED BY <2>1, <2>2
<1> QED BY <1>1, <1>2 DEF TypingInv

LEMMA ForgetTyping ==
  ASSUME TypingInv, Forget, ~grabbed
  PROVE  TypingInv'
BY DEF Forget, TypingInv

(* Nothing but the focus, or a keypress event is not owed any more.        *)
LEMMA TypingSame ==
  ASSUME TypingInv, pressing' \in {pressing, NoPress},
         UNCHANGED <<platform, named, grabbed, held, believed, queue, timer, tracked, repeating,
                     down, amiss, faults>>
  PROVE  TypingInv'
<1>1. Now' = Now /\ Acc' = Acc /\ CharModifiers' = CharModifiers
  BY NowNext, CharModifiersSame DEF Now, Acc
<1>2. Typing => Typing'
  BY <1>1 DEF Typing
<1>3. SawAll' => SawAll
  BY DEF SawAll
<1> QED BY <1>2, <1>3 DEF TypingInv

(* Who owns the keyboard has grabbed it.                                   *)
OwnerInv == KeyboardInv /\ TypingInv /\ (owner = 0 => ~grabbed)

LEMMA OwnerNext ==
  ASSUME OwnerInv, BrowserInv, BrowserNext
  PROVE  OwnerInv'
<1> USE DEF OwnerInv
<1>0. KeyboardInv'
  BY KeyboardNext
<1>1. CASE ConsoleOpens
  <2> PICK i \in DOMAIN rfbs : IF owner = 0 THEN Grab /\ owner' = i ELSE UNCHANGED <<keyVars, owner>>
    BY <1>1 DEF ConsoleOpens
  <2>1. CASE owner = 0
    <3>1. DOMAIN rfbs = 1 .. Len(rfbs) /\ Len(rfbs) \in Nat
      BY RfbsTyped, LenProperties DEF BrowserInv, PageInv
    <3>2. Grab /\ owner' # 0
      BY <2>1, <3>1
    <3> QED BY <1>0, <3>2, GrabTyping
  <2>2. CASE owner # 0
    BY <1>0, <2>2, TypingSame DEF keyVars
  <2> QED BY <2>1, <2>2
<1>2. CASE PageStep
  <2>1. KeyboardFollows /\ pressing = NoPress
    BY <1>2 DEF PageStep
  <2>2. CASE owner = 0
    <3>1. Forget /\ ~grabbed /\ UNCHANGED <<owner, grabbed>>
      BY <2>1, <2>2 DEF KeyboardFollows, Forget
    <3> QED BY <1>0, <3>1, ForgetTyping
  <2>3. CASE owner # 0 /\ rfbs'[owner].state # "normal"
    <3>1. Ungrab /\ ~grabbed'
      BY <2>1, <2>3 DEF KeyboardFollows, Ungrab
    <3> QED BY <1>0, <2>1, <3>1, UngrabTyping
  <2>4. CASE owner # 0 /\ rfbs'[owner].state = "normal"
    <3>1. UNCHANGED <<keyVars, owner>>
      BY <2>1, <2>4 DEF KeyboardFollows
    <3> QED BY <1>0, <3>1, TypingSame DEF keyVars
  <2> QED BY <2>2, <2>3, <2>4
<1>3. CASE UserNavigates
  <2>1. UNCHANGED <<keyVars, owner>>
    BY <1>3 DEF UserNavigates
  <2> QED BY <1>0, <2>1, TypingSame DEF keyVars
<1>4. CASE Types
  <2>1. UNCHANGED owner /\ (UserTypes \/ KeyPress \/ NoKeyPress \/ TimerFires)
    BY <1>4 DEF Types
  <2>2. UNCHANGED grabbed
    BY <2>1 DEF UserTypes, TurnTo, KeyDown, KeyUp, MouseMoves, Blur, Focus, Acts, KeyPress, NoKeyPress,
                TimerFires
  <2>3. ASSUME NEW k \in Letters \cup Odd \cup OnKeyboard, KeyDown(k) \/ KeyUp(k) PROVE TypingInv'
    <3>1. k \in Keys
      BY CharModifiersTyped DEF Keys
    <3> QED BY <2>3, <3>1, KeyDownTyping, KeyUpTyping
  <2>4. CASE Focus
    <3>1. /\ pressing' = pressing
          /\ UNCHANGED <<platform, named, grabbed, held, believed, queue, timer, tracked, repeating,
                         down, amiss, faults>>
      BY <2>4 DEF Focus, Acts
    <3> QED BY <1>0, <2>1, <2>2, <3>1, TypingSame
  <2>5. CASE NoKeyPress
    <3>1. /\ pressing' = NoPress
          /\ UNCHANGED <<platform, named, grabbed, held, believed, queue, timer, tracked, repeating,
                         down, amiss, faults>>
      BY <2>5 DEF NoKeyPress
    <3> QED BY <1>0, <2>1, <2>2, <3>1, TypingSame
  <2>6. TypingInv'
    BY <2>1, <2>3, <2>4, <2>5, TurnToTyping, MouseMovesTyping, BlurTyping, KeyPressTyping,
       TimerFiresTyping DEF UserTypes
  <2> QED BY <1>0, <2>1, <2>2, <2>6
<1> QED BY <1>1, <1>2, <1>3, <1>4 DEF BrowserNext

LEMMA OwnerStarts ==
  ASSUME BrowserInit
  PROVE  OwnerInv
<1>1. KeyboardInit /\ owner = 0
  BY DEF BrowserInit
<1>2. KeyboardInv
  BY <1>1, KeyboardStarts
<1>3. TypingInv
  BY <1>1 DEF KeyboardInit, TypingInv
<1> QED BY <1>1, <1>2, <1>3 DEF OwnerInv, KeyboardInit

(* With all the keys up the filters track none.                            *)
LEMMA AllUp ==
  ASSUME KeyboardInv, Typing, "guess" \notin amiss, queue = <<>>, held = {}
  PROVE  tracked = <<>>
<1> PICK s \in Moment : Leads(CharModifiers, queue, s, Now) /\ Sound(Acc, s)
  BY DEF Typing
<1>1. s = Now
  BY NothingLeads
<1>2. Now.held = {} /\ EntriesRight(tracked, Now)
  BY <1>1, NowTyped DEF Sound, Good, Acc
<1>3. DOMAIN tracked = {}
  BY <1>2 DEF EntriesRight
<1>4. tracked \in Seq(TrackEntry)
  BY DEF KeyboardInv
<1> QED BY <1>3, <1>4, LenProperties, EmptySeq

(* What is typed at the page arrives as it was typed, whatever the order   *)
(* of keys, keypress events, timers, and movements of the mouse, and of    *)
(* modifiers the page did not see go down, on every platform: characters   *)
(* of the third level without the modifier for it, keys with the modifiers *)
(* held; and the page tracks nothing when all keys are up, as long as it   *)
(* saw every event and guessed none (keyboard.js in assets.go).            *)
THEOREM KeysArriveAsTyped == BrowserSpec => []TypedAsHere
<1>1. BrowserInit => OwnerInv
  BY OwnerStarts
<1>2. BrowserInv /\ OwnerInv /\ [BrowserNext]_browserVars => OwnerInv'
  <2> SUFFICES ASSUME BrowserInv, OwnerInv, [BrowserNext]_browserVars PROVE OwnerInv'
    OBVIOUS
  <2>1. CASE BrowserNext
    BY <2>1, OwnerNext
  <2>2. CASE UNCHANGED browserVars
    <3>1. KeyboardInv'
      BY <2>2, KeyboardSame DEF browserVars, keyVars, OwnerInv
    <3>2. TypingInv'
      BY <2>2, TypingSame DEF browserVars, keyVars, OwnerInv
    <3> QED BY <2>2, <3>1, <3>2 DEF browserVars, keyVars, OwnerInv
  <2> QED BY <2>1, <2>2
<1>3. OwnerInv => TypedAsHere
  <2> SUFFICES ASSUME KeyboardInv, TypingInv PROVE NothingAmiss /\ NothingLeft
    BY DEF OwnerInv, TypedAsHere
  <2>1. NothingAmiss
    BY SawAllAmiss DEF NothingAmiss
  <2>2. ASSUME SawAll, Quiet, held = {} PROVE tracked = <<>>
    <3>1. queue = <<>> /\ "guess" \notin amiss
      BY <2>2 DEF Quiet, SawAll
    <3>2. CASE grabbed /\ platform # NoKey
      <4>1. Typing
        BY <2>2, <3>2 DEF SawAll, TypingInv
      <4> QED BY <2>2, <3>1, <4>1, AllUp
    <3>3. CASE ~(grabbed /\ platform # NoKey)
      BY <3>3 DEF TypingInv
    <3> QED BY <3>2, <3>3
  <2> QED BY <2>1, <2>2 DEF NothingLeft
<1> QED BY <1>1, <1>2, <1>3, PageInvariant, PTL DEF BrowserSpec

=============================================================================
