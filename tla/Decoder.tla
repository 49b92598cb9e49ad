------------------------------- MODULE Decoder ------------------------------
(***************************************************************************)
(* decode_packet and its commands (decoder.c), against a DRAC that draws   *)
(* its screen with them.  A packet is a sequence of commands; a byte holds *)
(* the command and some bits of its operand, and bytes of the same run     *)
(* command that follow each other are one command with a longer run.       *)
(*                                                                         *)
(* The sizes are parameters: the code has 5 bits of a run in a byte and    *)
(* many shades of color, 4 pixels in the first byte of a choice and 7 in   *)
(* each other one.  How packets get here is in DracProtocol.               *)
(***************************************************************************)
EXTENDS Integers, Sequences, FiniteSetsExt

CONSTANTS
  Screens,          \* what the DRAC shows: [width, height, pixels]
  Colors, Gray,     \* what the DRAC draws with, and what init_framebuffer does
  Base,             \* 32 in the code: 5 bits of a run in a byte
  FirstChoices,     \* 4 in the code
  MoreChoices,      \* 7 in the code
  Codecs,           \* "dvc7" (and all of a DRAC 4), "dvc15"
  MaxPackets        \* bound: packets of the DRAC

Area(s) == s.width * s.height

ASSUME ScreenAssumption ==
  \A s \in Screens :
    s.width \in Nat \ {0} /\ s.height \in Nat \ {0} /\ s.pixels \in [1 .. Area(s) -> Colors]
ASSUME DecoderAssumption ==
  /\ Base \in Nat \ {0} /\ FirstChoices \in Nat \ {0} /\ MoreChoices \in Nat \ {0}
  /\ Codecs \subseteq {"dvc7", "dvc15"} /\ MaxPackets \in Nat

VARIABLES
  before, screen,  \* of the DRAC: what it has sent, and what it shows
  drawn,           \* how many pixels of that the packet has
  packet, codec,
  width, height,
  framebuffer,     \* the pixels 1 .. width * height; the code counts from 0
  pointer,         \* pointer_index: how many pixels are decoded
  bytesRead,
  dirty,           \* fb_dirty
  state,           \* "idle", "drawing" at the DRAC, "decoding"
  packets

dracVars    == <<before, screen, drawn, packet, codec, packets>>
decoderVars == <<dracVars, width, height, framebuffer, pointer, bytesRead, dirty, state>>

DecoderTypeOK ==
  /\ before \in Screens /\ screen \in Screens /\ drawn \in 0 .. Area(screen)
  /\ codec \in Codecs
  /\ framebuffer \in [1 .. width * height -> Colors \cup {Gray}]
  /\ pointer \in 0 .. width * height
  /\ bytesRead \in 0 .. Len(packet)
  /\ dirty \in BOOLEAN /\ state \in {"idle", "drawing", "decoding"}
  /\ packets \in 0 .. MaxPackets

Grayed(w, h) == [q \in 1 .. w * h |-> Gray]

(* Before any packet there is a framebuffer of some size (that of a DRAC 4 *)
(* is made at its login) or none, which a size of 0 stands for.            *)
DecoderInit(w, h) ==
  /\ before \in Screens /\ screen = before /\ drawn = 0
  /\ packet = <<>> /\ codec \in Codecs
  /\ width = w /\ height = h /\ framebuffer = Grayed(w, h)
  /\ pointer = 0 /\ bytesRead = 0 /\ dirty = FALSE
  /\ state = "idle" /\ packets = 0

-----------------------------------------------------------------------------
(* The two colors of a choice: that of the pixel before, and the nearest   *)
(* other one before it.                                                    *)
Other(pixels, p) ==
  LET others == {q \in 1 .. p : pixels[q] # pixels[p]}
  IN  IF others = {} THEN pixels[p] ELSE pixels[Max(others)]

-----------------------------------------------------------------------------
(* The DRAC.  Its screen may change, and it draws what changed, with any   *)
(* commands that come to that; at first, and with a new size, all of it.   *)
BeginPacket(s) ==
  /\ state = "idle" /\ packets < MaxPackets
  /\ packets = 0 => s = screen
  /\ packets' = packets + 1
  /\ before' = screen /\ screen' = s
  /\ codec' \in Codecs
  /\ state' = "drawing"
  /\ UNCHANGED <<drawn, packet, width, height, framebuffer, pointer, bytesRead, dirty>>

SameSize  == before.width = screen.width /\ before.height = screen.height
Same(q)   == packets > 1 /\ SameSize /\ before.pixels[q] = screen.pixels[q]
After(n)  == drawn + 1 .. drawn + n

Draw(bytes, n) ==
  /\ packet' = packet \o bytes
  /\ drawn' = drawn + n
  /\ UNCHANGED <<before, screen, codec, width, height, framebuffer, pointer, bytesRead, dirty,
                 state, packets>>

(* A run has at most five digits, the lowest first and none too many.  The *)
(* codec dvc7 counts it from 2.                                            *)
Digits ==
  {digits \in UNION {[1 .. k -> 0 .. Base - 1] : k \in 1 .. 5} :
     Len(digits) > 1 => digits[Len(digits)] # 0}

Number(digits) ==
  LET digit(k) == IF k <= Len(digits) THEN digits[k] ELSE 0
  IN  digit(1) + Base * (digit(2) + Base * (digit(3) + Base * (digit(4) + Base * digit(5))))

Bias == IF codec = "dvc7" THEN 2 ELSE 0

DrawRun(op, digits) ==
  LET n == Number(digits) + Bias IN
  /\ state = "drawing" /\ drawn + n <= Area(screen) /\ n > 0
  /\ packet # <<>> => packet[Len(packet)].op # op
  /\ \A q \in After(n) :
       CASE op = "NC" -> Same(q)
         [] op = "CL" -> drawn > 0 /\ screen.pixels[q] = screen.pixels[drawn]
         [] op = "CA" -> drawn >= screen.width
                         /\ screen.pixels[q] = screen.pixels[q - screen.width]
  /\ Draw([k \in 1 .. Len(digits) |-> [op |-> op, arg |-> digits[k]]], n)

DrawPixel ==
  /\ state = "drawing" /\ drawn < Area(screen)
  /\ Draw(<<[op |-> "MP", color |-> screen.pixels[drawn + 1]]>>, 1)

ChoiceByte(op, from, n, more) ==
  [op |-> op, more |-> more,
   bits |-> [c \in 1 .. n |-> screen.pixels[from + c] # screen.pixels[drawn]]]

DrawChoice(more) ==
  LET n       == FirstChoices + more * MoreChoices
      from(m) == drawn + FirstChoices + (m - 1) * MoreChoices
  IN  /\ state = "drawing" /\ drawn > 0 /\ drawn + n <= Area(screen)
      /\ \A q \in After(n) :
           screen.pixels[q] \in {screen.pixels[drawn], Other(screen.pixels, drawn)}
      /\ Draw(<<ChoiceByte("MS", drawn, FirstChoices, more > 0)>>
              \o [m \in 1 .. more |-> ChoiceByte("", from(m), MoreChoices, m < more)], n)

(* What follows may be left out if it did not change.  load_data makes a   *)
(* new framebuffer if the size did.                                        *)
SendPacket ==
  /\ state = "drawing"
  /\ \A q \in drawn + 1 .. Area(screen) : Same(q)
  /\ state' = "decoding"
  /\ width' = screen.width /\ height' = screen.height
  /\ framebuffer' = IF width = screen.width /\ height = screen.height THEN framebuffer
                    ELSE Grayed(screen.width, screen.height)
  /\ pointer' = 0 /\ bytesRead' = 0
  /\ UNCHANGED <<dracVars, dirty>>

-----------------------------------------------------------------------------
(* A turn of the loop of decode_packet, by the command it reads.           *)
Command == packet[bytesRead + 1]

AllButPixel == {"CA", "CL", "MS"}

Draws == {"CA", "CL", "MS", "MP"}

Decode(op) ==
  /\ state = "decoding" /\ bytesRead < Len(packet) /\ Command.op = op
  /\ dirty' = (dirty \/ op \in Draws)
  /\ UNCHANGED <<dracVars, width, height, state>>

(* getRunLength: up to five bytes with the same command.                   *)
RunEnd ==
  Max({b \in bytesRead + 1 .. Len(packet) :
         b <= bytesRead + 5 /\ \A c \in bytesRead + 1 .. b : packet[c].op = Command.op})

Run ==
  LET arg(k) == IF bytesRead + k <= RunEnd THEN packet[bytesRead + k].arg ELSE 0
  IN  arg(1) + arg(2) * Base + arg(3) * (Base * Base) + arg(4) * (Base * Base * Base)
        + arg(5) * (Base * Base * Base * Base) + Bias

Covered(q) == pointer < q /\ q <= pointer + Run

ProcessNC ==
  /\ Decode("NC")
  /\ bytesRead' = RunEnd /\ pointer' = pointer + Run
  /\ UNCHANGED framebuffer

(* Ignored on the first line.                                              *)
BelowFirstPixel == pointer > width

BelowFirstLine == pointer >= width

Above[q \in DOMAIN framebuffer] ==
  IF Covered(q) THEN Above[q - width] ELSE framebuffer[q]

ProcessCA ==
  /\ Decode("CA")
  /\ bytesRead' = RunEnd
  /\ IF BelowFirstLine THEN framebuffer' = Above /\ pointer' = pointer + Run
     ELSE UNCHANGED <<framebuffer, pointer>>

ProcessCL ==
  /\ Decode("CL")
  /\ framebuffer' = [q \in DOMAIN framebuffer |->
                       framebuffer[IF Covered(q) THEN pointer ELSE q]]
  /\ bytesRead' = RunEnd /\ pointer' = pointer + Run

ProcessMP ==
  /\ Decode("MP")
  /\ framebuffer' = [framebuffer EXCEPT ![pointer + 1] = Command.color]
  /\ pointer' = pointer + 1 /\ bytesRead' = bytesRead + 1

(* A byte is read before it is known to fit on the screen; the first that  *)
(* does not ends the choice.                                               *)
ProcessMS ==
  LET room   == width * height - pointer
      last   == Min({b \in bytesRead + 1 .. Len(packet) : packet[b].op \in {"MS", ""} /\ ~packet[b].more})
      fit    == (room - FirstChoices) \div MoreChoices + 1
      read   == IF room < FirstChoices THEN 1 ELSE Min({last - bytesRead, fit + 1})
      shown  == IF room < FirstChoices THEN 0 ELSE Min({read, fit})
      pixels == IF shown = 0 THEN 0 ELSE FirstChoices + (shown - 1) * MoreChoices
      bit(n) == IF n <= FirstChoices THEN Command.bits[n]
                ELSE LET k == n - FirstChoices - 1
                     IN  packet[bytesRead + 2 + k \div MoreChoices].bits[(k % MoreChoices) + 1]
  IN  /\ Decode("MS")
      /\ framebuffer' = [q \in DOMAIN framebuffer |->
           IF q <= pointer \/ q > pointer + pixels THEN framebuffer[q]
           ELSE IF bit(q - pointer) THEN Other(framebuffer, pointer) ELSE framebuffer[pointer]]
      /\ pointer' = pointer + pixels
      /\ bytesRead' = bytesRead + read

(* The end of a packet; reset says whether handle_msg_video looked at      *)
(* fb_dirty, which a DRAC 4 does not.                                      *)
PacketDecoded == state = "decoding" /\ bytesRead = Len(packet)

EndPacket(reset) ==
  /\ PacketDecoded
  /\ state' = "idle" /\ dirty' = (dirty /\ ~reset)
  /\ packet' = <<>> /\ drawn' = 0 /\ pointer' = 0 /\ bytesRead' = 0
  /\ UNCHANGED <<before, screen, codec, packets, width, height, framebuffer>>

Drac ==
  \/ \E s \in Screens : BeginPacket(s)
  \/ \E op \in {"NC", "CL", "CA"}, digits \in Digits : DrawRun(op, digits)
  \/ DrawPixel
  \/ \E more \in 0 .. Area(screen) : DrawChoice(more)
  \/ SendPacket

DecodePacket == ProcessNC \/ ProcessCA \/ ProcessCL \/ ProcessMP \/ ProcessMS

-----------------------------------------------------------------------------
(* While a packet is decoded, what is decoded is what the DRAC has drawn,  *)
(* pixel for pixel, with any mixture of commands and either codec          *)
(* (getRunLength and the commands of decoder.c).                           *)
DecodedSoFar ==
  state = "decoding" => \A q \in 1 .. pointer : framebuffer[q] = screen.pixels[q]

(* decode_packet ends where the DRAC ended, with the whole of its screen.  *)
SameAtEnd == PacketDecoded => pointer = drawn /\ framebuffer = screen.pixels
=============================================================================
