---------------------------- MODULE VncCommands ----------------------------
(***************************************************************************)
(* The way of a browser's commands to the daemon: WebSocket messages, of   *)
(* which WsConn.Read (wsconn.go) makes a byte stream again for the         *)
(* bufio.Reader of handleVncConnection, whose loop (vnc.go) takes a        *)
(* command and its operands off it.  What the commands do is in            *)
(* FramePipeline (the update request) and DracProtocol.                    *)
(*                                                                         *)
(* Byte j of command i is the pair <<i, j>>.                               *)
(***************************************************************************)
EXTENDS Integers, Sequences, SequencesExt

CONSTANTS
  Kinds,     \* the commands considered
  BufSize,   \* the buffer of the bufio.Reader, what a Read asks for
  Splits,    \* whether a message may arrive in parts
  MaxSent    \* bound: commands of the browser

ASSUME KindAssumption ==
  /\ {"pixelFormat", "encodings", "request"} \subseteq Kinds \* those it begins with
  /\ Kinds \subseteq {"pixelFormat", "encodings", "request", "key", "pointer"}
ASSUME BufferAssumption ==
  BufSize \in Nat \ {0} /\ Splits \in BOOLEAN /\ MaxSent \in Nat

VARIABLES
  sent,      \* the commands, in the order they were sent
  messages,  \* the WebSocket messages not yet read, as bytes
  arrived,   \* how much of the first one has arrived
  buffered,  \* what the bufio.Reader holds
  handled    \* what the command loop took for commands

commandVars == <<sent, messages, arrived, buffered, handled>>

(* As the browser sends them (rfb.js), with one encoding.                  *)
Length(kind) ==
  CASE kind = "pixelFormat" -> 20
    [] kind = "encodings"   -> 8
    [] kind = "request"     -> 10
    [] kind = "key"         -> 8
    [] kind = "pointer"     -> 6

(* As the command loop reads them: the command and its operands.           *)
WithoutPadding(kind) ==
  CASE kind = "pixelFormat" -> 1 + 3 + 13 + 3
    [] kind = "encodings"   -> 1 + 1 + 2 + 4
    [] kind = "request"     -> 1 + 9
    [] kind = "key"         -> 1 + 1 + 4
    [] kind = "pointer"     -> 1 + 1 + 2 + 2

Operands(kind) ==
  CASE kind = "pixelFormat" -> 1 + 3 + 13 + 3
    [] kind = "encodings"   -> 1 + 1 + 2 + 4
    [] kind = "request"     -> 1 + 9
    [] kind = "key"         -> 1 + 1 + 2 + 4
    [] kind = "pointer"     -> 1 + 1 + 2 + 2

LongestMessage == Length("pixelFormat") + Length("encodings") + 2 * Length("request")

Bytes == (1 .. MaxSent) \X (1 .. 20)

CommandsTypeOK ==
  /\ sent \in Seq(Kinds) /\ Len(sent) <= MaxSent
  /\ messages \in Seq(Seq(Bytes))
  /\ arrived \in 0 .. LongestMessage
  /\ buffered \in Seq(Bytes)
  /\ handled \in Seq(Seq(Bytes)) /\ Len(handled) <= Len(sent)

CommandsInit ==
  /\ sent = <<>> /\ messages = <<>> /\ arrived = 0
  /\ buffered = <<>> /\ handled = <<>>

Command(i, kind) == [j \in 1 .. Length(kind) |-> <<i, j>>]

First(s, n) == SubSeq(s, 1, n)
Rest(s, n)  == SubSeq(s, n + 1, Len(s))

(* The browser sends several commands in a message when it begins, and     *)
(* when it asks for two updates (fbUpdateRequests).                        *)
Opening   == <<"pixelFormat", "encodings", "request", "request">>
Requests  == <<"request", "request">>
OneOf(set) == {<<kind>> : kind \in set}

Send(commands) ==
  /\ Len(sent) + Len(commands) <= MaxSent
  /\ commands = Opening <=> sent = <<>>
  /\ sent' = sent \o commands
  /\ messages' = Append(messages,
       FlattenSeq([n \in DOMAIN commands |-> Command(Len(sent) + n, commands[n])]))
  /\ UNCHANGED <<arrived, buffered, handled>>

(* TCP delivers k bytes more of the first message.                         *)
Arrive(k) ==
  /\ messages # <<>>
  /\ arrived + k <= Len(messages[1])
  /\ Splits \/ arrived + k = Len(messages[1])
  /\ arrived' = arrived + k
  /\ UNCHANGED <<sent, messages, buffered, handled>>

(* WsConn.Read, called when the parser needs bytes it has not got.  The    *)
(* receiver is a copy, so the reader of the message is forgotten, and the  *)
(* next call takes the next message.                                       *)
Smaller(a, b) == IF a < b THEN a ELSE b

Remaining == Tail(messages)

Wanted == IF buffered = <<>> THEN 1 ELSE Operands(sent[buffered[1][1]])

Read ==
  /\ arrived > 0
  /\ Len(buffered) < Wanted
  /\ buffered' = buffered \o First(messages[1], Smaller(BufSize, arrived))
  /\ messages' = Remaining
  /\ arrived' = 0
  /\ UNCHANGED <<sent, handled>>

(* A turn of the command loop.                                             *)
Handle ==
  /\ buffered # <<>> /\ Len(buffered) >= Wanted
  /\ handled' = Append(handled, First(buffered, Wanted))
  /\ buffered' = Rest(buffered, Wanted)
  /\ UNCHANGED <<sent, messages, arrived>>

SendAny    == \E commands \in {Opening, Requests} \cup OneOf(Kinds) : Send(commands)
ArriveSome == \E k \in 1 .. LongestMessage : Arrive(k)

-----------------------------------------------------------------------------
(* The command loop takes exactly the commands of the browser, each once,  *)
(* whole and in order.  With messages that arrive in parts, or are longer  *)
(* than the buffer, the code loses the rest of them.                       *)
CommandsWhole ==
  \A i \in 1 .. Len(handled) : handled[i] = Command(i, sent[i])

(* The command loop never stays behind for good: again and again it has    *)
(* handled all that was sent.                                              *)
EveryCommandHandled == []<>(Len(handled) = Len(sent))
=============================================================================
