----------------------------- MODULE Reassembly -----------------------------
(***************************************************************************)
(* How the byte stream of a DRAC socket becomes messages again:            *)
(* incoming_data_ctrl and incoming_data_video (protocol.c), called with    *)
(* what each Read of the reader returns (drac.go).                         *)
(*                                                                         *)
(* The unit is four bytes, half a header, so that a chunk may end within   *)
(* a header.  Message number i of n units is the sequence of the units     *)
(* <<i, 1>> .. <<i, n>>; the second one holds its length.  The results of  *)
(* the handlers, and what Go does with them, are in DracProtocol.          *)
(***************************************************************************)
EXTENDS Integers, Sequences, FiniteSets

CONSTANTS
  Sizes,       \* lengths of the messages the DRAC sends
  BufferSize,  \* BUFFER_SIZE
  ChunkSize,   \* the buffer of the reader, the most a Read returns
  MaxSent      \* bound: messages sent

Header == 2

ASSUME SizeAssumption ==
  /\ BufferSize \in Nat /\ ChunkSize \in Nat \ {0} /\ MaxSent \in Nat
  /\ ChunkSize <= BufferSize
  /\ \A n \in Sizes : n \in Nat /\ n >= Header /\ n <= BufferSize

VARIABLES
  socket,      \* "ctrl" or "video": which of the two functions
  sent,        \* the lengths of the messages sent
  wire,        \* the units on their way
  buffer,      \* ctrl_buffer or video_buffer, from ptr on
  moved,       \* whether ptr has left the start of the buffer
  call,        \* "idle", or "parse" within incoming_data
  msg_size,    \* its local of that name
  handled,     \* the messages the handlers got
  dropped,     \* whether a chunk was refused with ERR_OVERFLOW
  aborted      \* whether an assert has failed

vars == <<socket, sent, wire, buffer, moved, call, msg_size, handled, dropped, aborted>>

Uninitialised == -1
Units == (1 .. MaxSent) \X (1 .. BufferSize)

TypeOK ==
  /\ socket \in {"ctrl", "video"}
  /\ sent \in Seq(Sizes) /\ Len(sent) <= MaxSent
  /\ wire \in Seq(Units)
  /\ buffer \in Seq(Units) /\ Len(buffer) <= BufferSize
  /\ moved \in BOOLEAN
  /\ call \in {"idle", "parse"}
  /\ msg_size \in Nat \cup {Uninitialised}
  /\ handled \in Seq(Seq(Units))
  /\ dropped \in BOOLEAN /\ aborted \in BOOLEAN

Init ==
  /\ socket \in {"ctrl", "video"}
  /\ sent = <<>> /\ wire = <<>> /\ buffer = <<>> /\ handled = <<>>
  /\ moved = FALSE /\ call = "idle" /\ msg_size = Uninitialised
  /\ dropped = FALSE /\ aborted = FALSE

-----------------------------------------------------------------------------
Message(i, n) == [j \in 1 .. n |-> <<i, j>>]

(* The DRAC writes a message.                                              *)
Send(n) ==
  /\ Len(sent) < MaxSent
  /\ sent' = Append(sent, n)
  /\ wire' = wire \o Message(Len(sent) + 1, n)
  /\ UNCHANGED <<socket, buffer, moved, call, msg_size, handled, dropped, aborted>>

First(s, n) == SubSeq(s, 1, n)
Rest(s, n)  == SubSeq(s, n + 1, Len(s))

(* The length in the header: garbage, a length of any message, when the    *)
(* stream is out of step.                                                  *)
Lengths(u) == IF u[2] = Header THEN {sent[u[1]]} ELSE Sizes

(* A Read returns k units.  A chunk that does not fit is refused whole.    *)
FitsBelow(k)  == Len(buffer) + k < BufferSize

Fits(k) == Len(buffer) + k <= BufferSize

Refuse(k) ==
  /\ call = "idle" /\ ~ aborted
  /\ k <= Len(wire)
  /\ ~ Fits(k)
  /\ wire' = Rest(wire, k)
  /\ dropped' = TRUE
  /\ UNCHANGED <<socket, sent, buffer, moved, call, msg_size, handled, aborted>>

Receive(k) ==
  /\ call = "idle" /\ ~ aborted
  /\ k <= Len(wire)
  /\ Fits(k)
  /\ buffer' = buffer \o First(wire, k)
  /\ wire' = Rest(wire, k)
  /\ call' = "parse" /\ moved' = FALSE
  /\ msg_size' = Uninitialised
  /\ UNCHANGED <<socket, sent, handled, dropped, aborted>>

(* One turn of the loop.                                                   *)
IncompleteAtEnd(n) == n >= Len(buffer)

Incomplete(n) == n > Len(buffer)

Handle ==
  /\ call = "parse"
  /\ Len(buffer) >= Header
  /\ \E n \in Lengths(buffer[Header]) :
       /\ ~ Incomplete(n)
       /\ handled' = Append(handled, First(buffer, n))
       /\ buffer' = Rest(buffer, n)
  /\ moved' = TRUE
  /\ msg_size' = 0
  /\ UNCHANGED <<socket, sent, wire, call, dropped, aborted>>

(* memmove: what is left goes to the start of the buffer.                  *)
LeftWhereItWas(rest) ==
  IF rest # <<>> /\ moved THEN First(handled[Len(handled)] \o rest, Len(rest)) ELSE rest

Left(rest) == rest

(* After the loop, with msg_size = n.  Only incoming_data_video returns    *)
(* early when it has no header, and only incoming_data_ctrl asserts; what  *)
(* an uninitialised msg_size compares to is not defined.                   *)
AssertMayFail(n) ==
  /\ socket = "ctrl"
  /\ IF n = Uninitialised THEN buffer # <<>> ELSE n # 0 /\ n <= Len(buffer)

AssertMayHold(n) ==
  \/ socket = "video"
  \/ n \in {Uninitialised, 0}
  \/ n > Len(buffer)

Return ==
  /\ call = "parse"
  /\ \E n \in IF Len(buffer) < Header THEN {msg_size}
              ELSE {l \in Lengths(buffer[Header]) : Incomplete(l)} :
       \/ AssertMayHold(n) /\ UNCHANGED aborted
       \/ AssertMayFail(n) /\ aborted' = TRUE
  /\ buffer' = Left(buffer)
  /\ call' = "idle" /\ msg_size' = Uninitialised
  /\ UNCHANGED <<socket, sent, wire, moved, handled, dropped>>

Next ==
  \/ \E n \in Sizes : Send(n)
  \/ \E k \in 1 .. ChunkSize : Refuse(k) \/ Receive(k)
  \/ Handle
  \/ Return

Spec == Init /\ [][Next]_vars

(* The reader reads on; the DRAC need not send anything.                   *)
FairSpec ==
  Spec /\ WF_vars(\E k \in 1 .. ChunkSize : Refuse(k) \/ Receive(k)) /\ WF_vars(Handle) /\ WF_vars(Return)

-----------------------------------------------------------------------------
(* However TCP cuts the stream, the handlers get the messages of the DRAC, *)
(* each once, whole and in order (the loop and the memmove of protocol.c). *)
HandledInOrder ==
  ~ dropped => /\ Len(handled) <= Len(sent)
               /\ \A i \in 1 .. Len(handled) : handled[i] = Message(i, sent[i])

(* Between two reads no whole message waits in the buffer: a frame that    *)
(* has arrived is not held back until the DRAC sends something else.       *)
NothingWaits ==
  /\ call = "idle" /\ ~ dropped
  => \/ Len(handled) = Len(sent) /\ buffer = <<>>
     \/ Len(handled) < Len(sent) /\ Len(buffer) < sent[Len(handled) + 1]

(* Every message is handled whole, in its turn, and as soon as it is there. *)
HandledAtOnce == TypeOK /\ HandledInOrder /\ NothingWaits

(* ERR_OVERFLOW loses a chunk in the middle of the stream, for good; it    *)
(* happens only when the DRAC sends a message longer than this bound (with *)
(* the sizes of the code, 65535 and 32768: longer than 32768 bytes).       *)
LargestSafe == BufferSize - ChunkSize + 1
OnlyLongMessagesOverflow ==
  dropped => \E i \in 1 .. Len(sent) : sent[i] > LargestSafe

(* Everything sent is handled in the end, when the messages are short.     *)
EverythingHandled ==
  \A i \in 1 .. MaxSent :
    Len(sent) >= i ~> Len(handled) >= i \/ dropped \/ aborted

(* The assertion of protocol.c:151 holds: what is asked for next is longer *)
(* than what is there (what the code does: with less than a header in the  *)
(* buffer it compares an uninitialised msg_size).                          *)
AssertHolds == ~ aborted
=============================================================================
