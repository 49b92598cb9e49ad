------------------------- MODULE Reassembly_proofs -------------------------
(***************************************************************************)
(* Proofs about Reassembly: however the stream is cut, the handlers get    *)
(* the messages whole, in order and at once, and only a long message makes *)
(* the buffer overflow; for any sizes of messages, buffer and chunks.      *)
(***************************************************************************)
EXTENDS Reassembly, Streams

(* The units of the messages sent so far.                                  *)
Known(lens) == (1 .. Len(lens)) \X (1 .. BufferSize)

(* While no chunk was refused, what is in the buffer and on the wire is    *)
(* what was sent and not yet handled, without a gap.                       *)
Stream == buffer \o wire
InStep ==
  ~ dropped => Laid(Stream, Len(handled), Len(sent), sent)

StreamInv ==
  /\ TypeOK
  /\ buffer \in Seq(Known(sent)) /\ wire \in Seq(Known(sent))
  /\ HandledInOrder /\ NothingWaits /\ InStep
  /\ OnlyLongMessagesOverflow

-----------------------------------------------------------------------------
(* A message in units.                                                     *)
LEMMA MessageUnits ==
  ASSUME NEW i \in Nat \ {0}, NEW n \in 1 .. BufferSize, NEW lens, i = Len(lens)
  PROVE  /\ Message(i, n) \in Seq(Known(lens)) /\ Len(Message(i, n)) = n
         /\ \A j \in 1 .. n : Message(i, n)[j] = <<i, j>>
<1>1. Message(i, n) \in [1 .. n -> Known(lens)] /\ n \in Nat
  BY SizeAssumption DEF Message, Known
<1>2. Message(i, n) \in Seq(Known(lens))
  BY <1>1, SeqDef
<1> QED BY <1>1, <1>2, LenProperties DEF Message

-----------------------------------------------------------------------------
(* The steps.                                                              *)

(* The units of the messages sent are units, and the lengths are naturals. *)
LEMMA SentTypes ==
  ASSUME NEW lens \in Seq(Sizes), Len(lens) <= MaxSent
  PROVE  /\ lens \in Seq(Nat) /\ Len(lens) \in Nat
         /\ \A i \in 1 .. Len(lens) : lens[i] \in Header .. BufferSize /\ lens[i] \in Sizes
         /\ Known(lens) \subseteq Units
<1>1. Sizes \subseteq Nat
  BY SizeAssumption
<1>2. lens \in Seq(Nat) /\ Len(lens) \in Nat
  BY <1>1, SeqMonotonic, LenProperties
<1>3. ASSUME NEW i \in 1 .. Len(lens) PROVE lens[i] \in Header .. BufferSize /\ lens[i] \in Sizes
  <2>1. lens[i] \in Sizes
    BY ElementOfSeq
  <2> QED BY <2>1, SizeAssumption DEF Header
<1>4. Known(lens) \subseteq Units
  BY <1>2, SizeAssumption DEF Known, Units
<1> QED BY <1>2, <1>3, <1>4

(* What StreamInv says, without its definition.                            *)
LEMMA StreamFacts ==
  ASSUME StreamInv
  PROVE  /\ sent \in Seq(Sizes) /\ sent \in Seq(Nat) /\ Len(sent) \in Nat /\ Len(sent) <= MaxSent
         /\ \A i \in 1 .. Len(sent) : sent[i] \in Header .. BufferSize /\ sent[i] \in Sizes
         /\ Known(sent) \subseteq Units
         /\ buffer \in Seq(Known(sent)) /\ Len(buffer) \in Nat /\ Len(buffer) <= BufferSize
         /\ wire \in Seq(Known(sent)) /\ Len(wire) \in Nat
         /\ Stream \in Seq(Known(sent)) /\ Len(Stream) = Len(buffer) + Len(wire)
         /\ \A i \in 1 .. Len(buffer) : Stream[i] = buffer[i]
         /\ handled \in Seq(Seq(Units)) /\ Len(handled) \in Nat
         /\ ~ dropped => /\ Len(handled) \in 0 .. Len(sent)
                         /\ Laid(Stream, Len(handled), Len(sent), sent)
<1>1. sent \in Seq(Sizes) /\ Len(sent) <= MaxSent
  BY DEF StreamInv, TypeOK
<1>2. /\ buffer \in Seq(Known(sent)) /\ wire \in Seq(Known(sent)) /\ Len(buffer) <= BufferSize
      /\ handled \in Seq(Seq(Units))
  BY DEF StreamInv, TypeOK
<1>3. Len(buffer) \in Nat /\ Len(wire) \in Nat /\ Len(handled) \in Nat
  BY <1>2, LenProperties
<1>4. /\ Stream \in Seq(Known(sent)) /\ Len(Stream) = Len(buffer) + Len(wire)
      /\ \A i \in 1 .. Len(buffer) : Stream[i] = buffer[i]
  BY <1>2, <1>3, ConcatProperties DEF Stream
<1>5. ~ dropped => /\ Len(handled) \in 0 .. Len(sent)
                   /\ Laid(Stream, Len(handled), Len(sent), sent)
  BY <1>1, <1>3, SentTypes DEF StreamInv, HandledInOrder, InStep
<1> QED BY <1>1, <1>2, <1>3, <1>4, <1>5, SentTypes

(* The next message, when there is one, is what the stream begins with.    *)
LEMMA NextMessage ==
  ASSUME StreamInv, ~ dropped
  PROVE  LET h == Len(handled) IN
         /\ h = Len(sent) => buffer = <<>>
         /\ h < Len(sent) => /\ h + 1 \in 1 .. Len(sent)
                             /\ \A j \in 1 .. sent[h + 1] :
                                  j <= Len(buffer) => buffer[j] = <<h + 1, j>>
         /\ Len(buffer) >= Header => h < Len(sent) /\ Lengths(buffer[Header]) = {sent[h + 1]}
<1> DEFINE h == Len(handled)
<1>1. /\ Laid(Stream, h, Len(sent), sent) /\ h \in Nat /\ Len(sent) \in Nat
      /\ Stream \in Seq(Known(sent))
      /\ \A i \in h + 1 .. Len(sent) : sent[i] \in Nat
  BY StreamFacts DEF Header
<1>2. /\ h = Len(sent) => Stream = <<>>
      /\ h < Len(sent) => \A j \in 1 .. sent[h + 1] : Stream[j] = <<h + 1, j>>
  <2> HIDE DEF h
  <2> QED BY <1>1, LaidFirst
<1>3. ASSUME h = Len(sent) PROVE buffer = <<>>
  <2>1. Len(Stream) = 0
    BY <1>2, <1>3, EmptySeq
  <2>2. Len(buffer) = 0
    BY <2>1, StreamFacts
  <2> QED BY <2>2, StreamFacts, EmptySeq
<1>4. h < Len(sent) => /\ h + 1 \in 1 .. Len(sent)
                       /\ \A j \in 1 .. sent[h + 1] : j <= Len(buffer) => buffer[j] = <<h + 1, j>>
  <2> SUFFICES ASSUME h < Len(sent)
               PROVE  /\ h + 1 \in 1 .. Len(sent)
                      /\ \A j \in 1 .. sent[h + 1] : j <= Len(buffer) => buffer[j] = <<h + 1, j>>
    OBVIOUS
  <2>1. h + 1 \in 1 .. Len(sent)
    BY StreamFacts
  <2>2. sent[h + 1] \in Nat
    BY <2>1, StreamFacts DEF Header
  <2> QED BY <1>2, <2>1, <2>2, StreamFacts
<1>5. ASSUME Len(buffer) >= Header
      PROVE  h < Len(sent) /\ Lengths(buffer[Header]) = {sent[h + 1]}
  <2>1. h < Len(sent)
    BY <1>3, <1>5, StreamFacts, EmptySeq DEF Header
  <2>2. Header \in 1 .. sent[h + 1]
    <3>1. h + 1 \in 1 .. Len(sent)
      BY <2>1, <1>4
    <3> QED BY <3>1, StreamFacts, SizeAssumption DEF Header
  <2>3. buffer[Header] = <<h + 1, Header>>
    BY <1>4, <1>5, <2>1, <2>2
  <2> QED BY <2>1, <2>3 DEF Lengths
<1> QED BY <1>3, <1>4, <1>5

(* The lengths in a header are lengths of messages.                        *)
LEMMA LengthsAreSizes ==
  ASSUME StreamInv, Len(buffer) >= Header
  PROVE  Lengths(buffer[Header]) \subseteq Sizes
<1>1. Header \in 1 .. Len(buffer)
  BY StreamFacts DEF Header
<1>2. buffer[Header] \in Known(sent)
  BY <1>1, StreamFacts, ElementOfSeq
<1>3. buffer[Header][1] \in 1 .. Len(sent)
  BY <1>2 DEF Known
<1> QED BY <1>3, StreamFacts DEF Lengths

(* Only a message that is too long can leave no room for a chunk: between  *)
(* two reads less than one message is in the buffer.                       *)
LEMMA RefusedIsLong ==
  ASSUME StreamInv, NEW k \in 1 .. ChunkSize, Refuse(k)
  PROVE  \E i \in 1 .. Len(sent) : sent[i] > LargestSafe
<1>1. CASE dropped
  BY <1>1 DEF StreamInv, OnlyLongMessagesOverflow
<1>2. CASE ~ dropped
  <2> DEFINE h == Len(handled)
  <2>1. Len(buffer) + k > BufferSize /\ call = "idle"
    BY StreamFacts, SizeAssumption DEF Refuse, Fits
  <2>2. buffer # <<>>
    BY <2>1, SizeAssumption, EmptySeq
  <2>3. h < Len(sent) /\ Len(buffer) < sent[h + 1]
    BY <1>2, <2>1, <2>2 DEF StreamInv, NothingWaits
  <2>4. h + 1 \in 1 .. Len(sent) /\ sent[h + 1] \in Nat
    <3>1. h + 1 \in 1 .. Len(sent)
      BY <1>2, <2>3, StreamFacts
    <3> QED BY <3>1, StreamFacts DEF Header
  <2>5. sent[h + 1] > LargestSafe
    <3> DEFINE n == sent[h + 1]
    <3> HIDE DEF n
    <3>1. n \in Nat /\ Len(buffer) < n
      BY <2>3, <2>4 DEF n
    <3>2. n > LargestSafe
      BY <3>1, <2>1, StreamFacts, SizeAssumption DEF LargestSafe
    <3> QED BY <3>2 DEF n
  <2> QED BY <2>4, <2>5
<1> QED BY <1>1, <1>2

(* A message more is sent.                                                 *)
LEMMA SendStep ==
  ASSUME StreamInv, NEW n \in Sizes, Send(n)
  PROVE  StreamInv'
<1> DEFINE L == Len(sent)
           m == Message(L + 1, n)
<1>1. n \in Header .. BufferSize /\ n \in Nat /\ L \in Nat /\ MaxSent \in Nat
  BY StreamFacts, SizeAssumption DEF Header
<1>2. /\ sent' = Append(sent, n) /\ wire' = wire \o m /\ L < MaxSent
      /\ UNCHANGED <<socket, buffer, moved, call, msg_size, handled, dropped, aborted>>
  BY DEF Send
<1>3. /\ sent' \in Seq(Sizes) /\ Len(sent') = L + 1 /\ sent'[L + 1] = n
      /\ \A i \in 1 .. L : sent'[i] = sent[i]
  BY <1>2, StreamFacts, AppendProperties
<1>4. m \in Seq(Known(sent')) /\ Len(m) = n /\ \A j \in 1 .. n : m[j] = <<L + 1, j>>
  BY <1>1, <1>3, MessageUnits DEF Header
<1>5. Known(sent) \subseteq Known(sent') /\ Known(sent') \subseteq Units
  <2>1. Len(sent') <= MaxSent
    BY <1>1, <1>2, <1>3
  <2>2. 1 .. Len(sent) \subseteq 1 .. Len(sent')
    BY <1>1, <1>3
  <2>3. Known(sent) \subseteq Known(sent')
    BY <2>2 DEF Known
  <2> QED BY <1>3, <2>1, <2>3, SentTypes
<1>6. buffer \in Seq(Known(sent')) /\ wire \in Seq(Known(sent'))
  BY <1>5, StreamFacts, SeqMonotonic
<1>7. wire' \in Seq(Known(sent'))
  BY <1>2, <1>4, <1>6, ConcatProperties
<1>8. TypeOK'
  <2>1. wire' \in Seq(Units)
    BY <1>5, <1>7, SeqMonotonic
  <2> QED BY <1>1, <1>2, <1>3, <2>1 DEF StreamInv, TypeOK
<1>9. HandledInOrder'
  BY <1>1, <1>2, <1>3, StreamFacts DEF StreamInv, HandledInOrder
<1>10. NothingWaits'
  <2> SUFFICES ASSUME call = "idle", ~ dropped
               PROVE  Len(handled) < L + 1 /\ Len(buffer) < sent'[Len(handled) + 1]
    BY <1>2, <1>3 DEF NothingWaits
  <2>1. CASE Len(handled) = L /\ buffer = <<>>
    BY <1>1, <1>3, <2>1, EmptySeq DEF Header
  <2>2. CASE Len(handled) < L /\ Len(buffer) < sent[Len(handled) + 1]
    <3>1. Len(handled) + 1 \in 1 .. L
      BY <2>2, StreamFacts
    <3> QED BY <1>1, <1>3, <2>2, <3>1, StreamFacts
  <2> QED BY <2>1, <2>2 DEF StreamInv, NothingWaits
<1>11. InStep'
  <2> SUFFICES ASSUME ~ dropped PROVE InStep'
    BY <1>2 DEF InStep
  <2>1. Stream' = Stream \o m
    <3>1. (buffer \o wire) \o m = buffer \o (wire \o m)
      BY <1>4, <1>6, ConcatAssociative
    <3> HIDE DEF m
    <3> QED BY <1>2, <3>1 DEF Stream
  <2>2. /\ Len(handled) \in Nat /\ Laid(Stream, Len(handled), L, sent)
        /\ Stream \in Seq(Known(sent')) /\ L + 1 \in Nat \ {0} /\ (L + 1) - 1 = L
    BY <1>1, <1>5, StreamFacts, SeqMonotonic
  <2>3. \A i \in Len(handled) + 1 .. L + 1 : sent'[i] \in Nat
    <3> SUFFICES ASSUME NEW i \in Len(handled) + 1 .. L + 1 PROVE sent'[i] \in Nat
      OBVIOUS
    <3>1. i = L + 1 \/ i \in 1 .. L
      BY <1>1, <2>2
    <3>2. \A k \in 1 .. L : sent[k] \in Nat
      BY StreamFacts DEF Header
    <3> QED BY <1>1, <1>3, <3>1, <3>2
  <2>4. Laid(Stream, Len(handled), L, sent')
    BY <1>1, <1>3, <2>2, LaidSame
  <2>5. Laid(m, L, L + 1, sent')
    <3> HIDE DEF m
    <3> QED BY <1>3, <1>4, <2>2, LaidMessage
  <2>6. Laid(Stream \o m, Len(handled), L + 1, sent')
    <3> HIDE DEF m
    <3> QED BY <1>1, <1>4, <2>2, <2>3, <2>4, <2>5, LaidConcat
  <2> QED BY <1>2, <1>3, <2>1, <2>6 DEF InStep
<1>12. OnlyLongMessagesOverflow'
  BY <1>1, <1>2, <1>3 DEF StreamInv, OnlyLongMessagesOverflow, LargestSafe
<1> QED BY <1>2, <1>6, <1>7, <1>8, <1>9, <1>10, <1>11, <1>12 DEF StreamInv

(* A Read returns k units, and there is room for them.                     *)
LEMMA ReceiveStep ==
  ASSUME StreamInv, NEW k \in 1 .. ChunkSize, Receive(k)
  PROVE  StreamInv'
<1> DEFINE S == Known(sent)
<1>1. /\ k \in 0 .. Len(wire) /\ Len(buffer) + k <= BufferSize
      /\ buffer' = buffer \o First(wire, k) /\ wire' = Rest(wire, k)
      /\ call' = "parse" /\ moved' = FALSE /\ msg_size' = Uninitialised
      /\ UNCHANGED <<socket, sent, handled, dropped, aborted>>
  BY StreamFacts, SizeAssumption DEF Receive, Fits
<1>2. /\ First(wire, k) \in Seq(S) /\ Len(First(wire, k)) = k
      /\ Rest(wire, k) \in Seq(S)
      /\ First(wire, k) \o Rest(wire, k) = wire
  BY <1>1, StreamFacts, Cut DEF First, Rest
<1>3. buffer' \in Seq(S) /\ wire' \in Seq(S) /\ Len(buffer') <= BufferSize
  <2>1. buffer \in Seq(S)
    BY StreamFacts
  <2>2. buffer \o First(wire, k) \in Seq(S) /\ Len(buffer \o First(wire, k)) = Len(buffer) + k
    <3> HIDE DEF S
    <3> QED BY <1>2, <2>1, ConcatProperties
  <2> QED BY <1>1, <1>2, <2>2
<1>4. Stream' = Stream
  <2>1. (buffer \o First(wire, k)) \o Rest(wire, k) = buffer \o (First(wire, k) \o Rest(wire, k))
    <3> DEFINE a == First(wire, k)
               b == Rest(wire, k)
    <3>1. buffer \in Seq(S) /\ a \in Seq(S) /\ b \in Seq(S)
      BY <1>2, StreamFacts
    <3> HIDE DEF S, a, b
    <3>2. (buffer \o a) \o b = buffer \o (a \o b)
      BY <3>1, ConcatAssociative
    <3> QED BY <3>2 DEF a, b
  <2> QED BY <1>1, <1>2, <2>1 DEF Stream
<1>5. TypeOK'
  <2>1. buffer' \in Seq(Units) /\ wire' \in Seq(Units)
    BY <1>3, StreamFacts, SeqMonotonic
  <2> QED BY <1>1, <1>3, <2>1 DEF StreamInv, TypeOK
<1>6. HandledInOrder' /\ OnlyLongMessagesOverflow' /\ NothingWaits'
  BY <1>1 DEF StreamInv, HandledInOrder, OnlyLongMessagesOverflow, LargestSafe, NothingWaits
<1>7. InStep'
  BY <1>1, <1>4 DEF StreamInv, InStep
<1> QED BY <1>1, <1>3, <1>5, <1>6, <1>7 DEF StreamInv

(* A Read returns k units too many.                                        *)
LEMMA RefuseStep ==
  ASSUME StreamInv, NEW k \in 1 .. ChunkSize, Refuse(k)
  PROVE  StreamInv'
<1>1. /\ k \in 0 .. Len(wire) /\ wire' = Rest(wire, k) /\ dropped' = TRUE
      /\ UNCHANGED <<socket, sent, buffer, moved, call, msg_size, handled, aborted>>
  BY StreamFacts DEF Refuse
<1>2. wire' \in Seq(Known(sent))
  BY <1>1, StreamFacts, Cut DEF First, Rest
<1>3. TypeOK'
  <2>1. wire' \in Seq(Units)
    BY <1>2, StreamFacts, SeqMonotonic
  <2> QED BY <1>1, <2>1 DEF StreamInv, TypeOK
<1>4. HandledInOrder' /\ NothingWaits' /\ InStep'
  BY <1>1 DEF HandledInOrder, NothingWaits, InStep
<1>5. OnlyLongMessagesOverflow'
  BY <1>1, RefusedIsLong DEF OnlyLongMessagesOverflow, LargestSafe
<1> QED BY <1>1, <1>2, <1>3, <1>4, <1>5 DEF StreamInv

(* A message is handled.                                                   *)
LEMMA HandleStep ==
  ASSUME StreamInv, Handle
  PROVE  StreamInv'
<1> DEFINE S == Known(sent)
           h == Len(handled)
<1>1. PICK n \in Lengths(buffer[Header]) :
        ~ Incomplete(n) /\ handled' = Append(handled, First(buffer, n)) /\ buffer' = Rest(buffer, n)
  BY DEF Handle
<1>2. /\ Len(buffer) >= Header /\ moved' = TRUE /\ msg_size' = 0 /\ call = "parse"
      /\ UNCHANGED <<socket, sent, wire, call, dropped, aborted>>
  BY DEF Handle
<1>3. n \in 0 .. Len(buffer)
  <2>1. n \in Sizes
    BY <1>2, LengthsAreSizes
  <2>2. n \in Nat
    BY <2>1, SizeAssumption
  <2> QED BY <1>1, <2>2, StreamFacts DEF Incomplete
<1>4. /\ First(buffer, n) \in Seq(S) /\ Len(First(buffer, n)) = n
      /\ \A j \in 1 .. n : First(buffer, n)[j] = buffer[j]
      /\ Rest(buffer, n) \in Seq(S) /\ Len(Rest(buffer, n)) = Len(buffer) - n
      /\ \A j \in 1 .. Len(buffer) - n : Rest(buffer, n)[j] = buffer[n + j]
      /\ First(buffer, n) \o Rest(buffer, n) = buffer
  BY <1>3, StreamFacts, Cut DEF First, Rest
<1>5. /\ handled' \in Seq(Seq(Units)) /\ Len(handled') = h + 1
      /\ \A i \in 1 .. h : handled'[i] = handled[i]
      /\ handled'[h + 1] = First(buffer, n)
  <2>1. First(buffer, n) \in Seq(Units)
    BY <1>4, StreamFacts, SeqMonotonic
  <2> QED BY <1>1, <2>1, StreamFacts, AppendProperties
<1>6. TypeOK'
  <2>1. buffer' \in Seq(Units) /\ Len(buffer') <= BufferSize
    <3>1. Rest(buffer, n) \in Seq(Units)
      BY <1>4, StreamFacts, SeqMonotonic
    <3>2. Len(buffer) - n <= BufferSize
      BY <1>3, StreamFacts, SizeAssumption
    <3> QED BY <1>1, <1>4, <3>1, <3>2
  <2> QED BY <1>2, <1>5, <2>1 DEF StreamInv, TypeOK
<1>7. ASSUME ~ dropped
      PROVE  h \in 0 .. Len(sent) - 1 /\ n = sent[h + 1] /\ First(buffer, n) = Message(h + 1, sent[h + 1])
  <2>1. h < Len(sent) /\ Lengths(buffer[Header]) = {sent[h + 1]}
    BY <1>2, <1>7, NextMessage
  <2>2. h \in 0 .. Len(sent) - 1 /\ n = sent[h + 1]
    BY <1>7, <2>1, StreamFacts
  <2>3. \A j \in 1 .. n : buffer[j] = <<h + 1, j>>
    BY <1>3, <1>7, <2>1, <2>2, NextMessage, StreamFacts
  <2>4. \A j \in 1 .. n : First(buffer, n)[j] = Message(h + 1, n)[j]
    BY <1>4, <2>3 DEF Message
  <2>5. First(buffer, n) = Message(h + 1, n)
    <3>1. First(buffer, n) \in [1 .. n -> S]
      BY <1>4, LenProperties
    <3> QED BY <2>4, <3>1 DEF Message
  <2> QED BY <2>2, <2>5
<1>8. HandledInOrder'
  <2> SUFFICES ASSUME ~ dropped
               PROVE  /\ h + 1 <= Len(sent)
                      /\ \A i \in 1 .. h + 1 : handled'[i] = Message(i, sent[i])
    BY <1>2, <1>5 DEF HandledInOrder
  <2>1. \A i \in 1 .. h : handled[i] = Message(i, sent[i])
    BY DEF StreamInv, HandledInOrder
  <2>2. h \in Nat /\ Len(sent) \in Nat
    BY StreamFacts
  <2>3. h + 1 <= Len(sent) /\ handled'[h + 1] = Message(h + 1, sent[h + 1])
    BY <1>5, <1>7, <2>2
  <2> QED BY <1>5, <2>1, <2>2, <2>3
<1>9. InStep'
  <2> SUFFICES ASSUME ~ dropped PROVE InStep'
    BY <1>2 DEF InStep
  <2> DEFINE t == Rest(buffer, n) \o wire
  <2>1. /\ Laid(Stream, h, Len(sent), sent) /\ Stream \in Seq(S)
        /\ \A i \in h + 1 .. Len(sent) : sent[i] \in Nat
    BY StreamFacts DEF Header
  <2>2. /\ t \in Seq(S) /\ Len(t) = Len(buffer) - n + Len(wire)
        /\ \A j \in 1 .. Len(t) :
             t[j] = IF j <= Len(buffer) - n THEN Rest(buffer, n)[j] ELSE wire[j - (Len(buffer) - n)]
    <3>1. Rest(buffer, n) \in Seq(S) /\ wire \in Seq(S) /\ Len(Rest(buffer, n)) = Len(buffer) - n
      BY <1>4, StreamFacts
    <3>2. Len(buffer) - n \in Nat
      BY <1>3, StreamFacts
    <3> HIDE DEF S
    <3> QED BY <3>1, <3>2, Joined
  <2>3. /\ Len(Stream) = Len(buffer) + Len(wire)
        /\ \A j \in 1 .. Len(buffer) + Len(wire) :
             Stream[j] = IF j <= Len(buffer) THEN buffer[j] ELSE wire[j - Len(buffer)]
    BY StreamFacts, ConcatProperties DEF Stream
  <2>4. Len(t) = Len(Stream) - n
    BY <1>3, <2>2, <2>3, StreamFacts
  <2>5. ASSUME NEW j \in 1 .. Len(t) PROVE t[j] = Stream[n + j]
    <3> HIDE DEF t
    <3>1. n \in Nat /\ Len(buffer) \in Nat /\ Len(wire) \in Nat /\ Len(t) = Len(buffer) - n + Len(wire)
      BY <1>3, <2>2, StreamFacts
    <3>2. n + j \in 1 .. Len(buffer) + Len(wire) /\ j \in Nat \ {0}
      BY <3>1
    <3>3. CASE j <= Len(buffer) - n
      <4>1. n + j <= Len(buffer) /\ j \in 1 .. Len(buffer) - n
        BY <3>1, <3>2, <3>3
      <4> QED BY <1>4, <2>2, <2>3, <3>2, <3>3, <4>1
    <3>4. CASE ~ (j <= Len(buffer) - n)
      <4>1. ~ (n + j <= Len(buffer)) /\ j - (Len(buffer) - n) = (n + j) - Len(buffer)
        BY <3>1, <3>2, <3>4
      <4> QED BY <2>2, <2>3, <3>2, <3>4, <4>1
    <3> QED BY <3>3, <3>4
  <2> HIDE DEF t
  <2>6. n = sent[h + 1] /\ h \in Nat /\ Len(sent) \in Nat /\ h < Len(sent)
    BY <1>7, StreamFacts
  <2>7. Laid(t, h + 1, Len(sent), sent)
    BY <2>1, <2>2, <2>4, <2>5, <2>6, LaidRest
  <2>8. Stream' = t
    BY <1>1, <1>2 DEF Stream, t
  <2> QED BY <1>2, <1>5, <2>7, <2>8 DEF InStep
<1>10. NothingWaits' /\ OnlyLongMessagesOverflow'
  BY <1>2 DEF NothingWaits, StreamInv, OnlyLongMessagesOverflow, LargestSafe
<1>11. buffer' \in Seq(Known(sent')) /\ wire' \in Seq(Known(sent'))
  BY <1>1, <1>2, <1>4, StreamFacts
<1> QED BY <1>6, <1>8, <1>9, <1>10, <1>11 DEF StreamInv

(* incoming_data returns: what is left is less than a message.             *)
LEMMA ReturnStep ==
  ASSUME StreamInv, Return
  PROVE  StreamInv'
<1>1. /\ call' = "idle" /\ msg_size' = Uninitialised /\ buffer' = buffer
      /\ aborted' \in BOOLEAN
      /\ UNCHANGED <<socket, sent, wire, moved, handled, dropped>>
  BY DEF Return, Left, StreamInv, TypeOK
<1>2. Stream' = Stream
  BY <1>1 DEF Stream
<1>3. TypeOK'
  BY <1>1 DEF StreamInv, TypeOK
<1>4. HandledInOrder' /\ InStep' /\ OnlyLongMessagesOverflow'
  BY <1>1, <1>2 DEF StreamInv, HandledInOrder, InStep, OnlyLongMessagesOverflow, LargestSafe
<1>5. NothingWaits'
  <2> DEFINE h == Len(handled)
  <2> SUFFICES ASSUME ~ dropped
               PROVE  \/ h = Len(sent) /\ buffer = <<>>
                      \/ h < Len(sent) /\ Len(buffer) < sent[h + 1]
    BY <1>1 DEF NothingWaits
  <2>1. h \in Nat /\ Len(sent) \in Nat /\ h <= Len(sent) /\ Len(buffer) \in Nat
    BY StreamFacts
  <2>2. CASE h = Len(sent)
    BY <2>2, NextMessage
  <2>3. CASE h < Len(sent)
    <3>1. h + 1 \in 1 .. Len(sent) /\ sent[h + 1] \in Header .. BufferSize
      BY <2>1, <2>3, StreamFacts
    <3>2. CASE Len(buffer) < Header
      BY <2>1, <2>3, <3>1, <3>2 DEF Header
    <3>3. CASE ~ (Len(buffer) < Header)
      <4>1. Len(buffer) >= Header
        BY <2>1, <3>3 DEF Header
      <4>2. \E n \in Lengths(buffer[Header]) : Incomplete(n)
        BY <3>3 DEF Return
      <4>3. Lengths(buffer[Header]) = {sent[h + 1]}
        BY <4>1, NextMessage
      <4> QED BY <2>1, <2>3, <3>1, <4>2, <4>3 DEF Incomplete, Header
    <3> QED BY <3>2, <3>3
  <2> QED BY <2>1, <2>2, <2>3
<1>6. buffer' \in Seq(Known(sent')) /\ wire' \in Seq(Known(sent'))
  BY <1>1, StreamFacts
<1> QED BY <1>3, <1>4, <1>5, <1>6 DEF StreamInv

-----------------------------------------------------------------------------
LEMMA StreamInit == Init => StreamInv
<1> SUFFICES ASSUME Init PROVE StreamInv
  OBVIOUS
<1>1. Len(<<>>) = 0 /\ \A S : <<>> \in Seq(S)
  BY EmptySeq
<1>2. TypeOK
  <2>1. Len(sent) <= MaxSent /\ Len(buffer) <= BufferSize
    BY <1>1, SizeAssumption DEF Init
  <2>2. sent \in Seq(Sizes) /\ wire \in Seq(Units) /\ buffer \in Seq(Units) /\ handled \in Seq(Seq(Units))
    BY <1>1 DEF Init
  <2> QED BY <2>1, <2>2 DEF Init, TypeOK
<1>3. buffer \in Seq(Known(sent)) /\ wire \in Seq(Known(sent))
  BY <1>1 DEF Init
<1>4. HandledInOrder /\ NothingWaits /\ OnlyLongMessagesOverflow
  BY <1>1 DEF Init, HandledInOrder, NothingWaits, OnlyLongMessagesOverflow
<1>5. InStep
  <2>1. Stream = <<>>
    BY DEF Init, Stream
  <2> QED BY <1>1, <2>1, LaidNothing DEF InStep, Init
<1> QED BY <1>2, <1>3, <1>4, <1>5 DEF StreamInv

(* The inductive invariant: what is in the buffer and on the wire is what  *)
(* was sent and not yet handled, message after message, while nothing was  *)
(* refused.                                                                *)
THEOREM StreamInvariance == Spec => []StreamInv
<1>1. StreamInv /\ [Next]_vars => StreamInv'
  <2>1. ASSUME StreamInv, Next PROVE StreamInv'
    BY <2>1, SendStep, RefuseStep, ReceiveStep, HandleStep, ReturnStep DEF Next
  <2>2. ASSUME StreamInv, UNCHANGED vars PROVE StreamInv'
    BY <2>2 DEF vars, StreamInv, TypeOK, HandledInOrder, NothingWaits, InStep, Stream,
                OnlyLongMessagesOverflow, LargestSafe
  <2> QED BY <2>1, <2>2
<1> QED BY StreamInit, <1>1, PTL DEF Spec

(* However the stream is cut, incoming_data hands the messages on whole,   *)
(* each once, in order and as soon as they are there.                      *)
THEOREM MessagesHandledAtOnce == Spec => []HandledAtOnce
<1>1. StreamInv => HandledAtOnce
  BY DEF StreamInv, HandledAtOnce
<1> QED BY <1>1, StreamInvariance, PTL

(* A chunk is refused with ERR_OVERFLOW only when the DRAC sends a message *)
(* longer than BUFFER_SIZE less a Read.                                    *)
THEOREM ShortMessagesFit == Spec => []OnlyLongMessagesOverflow
<1>1. StreamInv => OnlyLongMessagesOverflow
  BY DEF StreamInv
<1> QED BY <1>1, StreamInvariance, PTL
=============================================================================
