------------------------ MODULE FramePipeline_proofs ------------------------
(***************************************************************************)
(* Proofs about what becomes of a frame, for any screens, commands, sizes  *)
(* and times and for any number of viewers and of frames.                  *)
(*                                                                         *)
(* FramePipeline: the count of references is exact, no frame is freed in   *)
(* use nor left behind, the newest frame reaches every viewer that was     *)
(* served, and each viewer's pair of goroutines is a slot for the latest   *)
(* frame.                                                                  *)
(*                                                                         *)
(* Pictures: the decoder shows the screen of the DRAC pixel for pixel, no  *)
(* change of it is missed, and the animation keeps its window and plays in *)
(* time.                                                                   *)
(***************************************************************************)
EXTENDS FramePipeline, Pictures, FiniteSetTheorems, Streams

(* Where the reader is decides which frame it holds: none between two      *)
(* updates, the newest one within an update.  Until the first viewer of an *)
(* update nobody has been served.                                          *)
ReaderInv ==
  /\ inC \subseteq 1 .. made
  /\ lastPngFrame <= made
  /\ reader \in {"read", "over"} => frame = NoFrame
  /\ reader \notin {"read", "over"} => frame = made /\ made > 0
  /\ reader \in {"read", "save", "over"} => served = {}
  /\ reader = "send" => cursor \in served
  /\ reader = "over" => lastPngFrame = NoFrame

(* A frame in C memory is freed exactly when its count has come to zero;   *)
(* the count never rises again after that.                                 *)
FreeInv == \A f \in inC : f \in freed <=> refcount[f] = 0

(* The three goroutines of a viewer agree on how far it has come.          *)
ViewerInv(v) ==
  /\ command[v] = "new" => /\ v \notin served
                           /\ buffering[v] = "on" /\ buffer[v] = NoFrame
                           /\ writer[v] = "wait" /\ shown[v] = NoFrame
  /\ v \in vncClients <=> command[v] \notin {"new", "gone"}
  /\ buffering[v] = "on" <=> command[v] \notin {"stopped", "gone"}
  /\ buffering[v] # "on" => buffer[v] = NoFrame
  /\ buffering[v] = "off" <=> writer[v] = "off"
  /\ writer[v] = "write" <=> writing[v] # NoFrame
  /\ writer[v] = "wait" => pendingVideoUpdates[v] = 0
  /\ writer[v] \in {"ready", "write"} => pendingVideoUpdates[v] > 0

(* Whether the newest frame may already be with v.                         *)
Served(v) == v \in served /\ (reader = "send" => v # cursor)

(* What waits for a viewer is newer than what it has, and nothing it has   *)
(* is as new as the frame of the update that has not come to it yet.       *)
OrderInv(v) ==
  /\ buffer[v] # NoFrame => buffer[v] > writing[v] /\ buffer[v] > shown[v]
  /\ writing[v] # NoFrame => writing[v] > shown[v]
  /\ \A f \in {buffer[v], writing[v], shown[v]} :
       /\ f <= made
       /\ reader \in {"save", "next", "send"} /\ ~ Served(v) => f < made

FrameInv ==
  /\ TypeOK /\ ReaderInv /\ RefcountExact /\ FreeInv
  /\ \A v \in Viewers : ViewerInv(v) /\ OrderInv(v)
  /\ NewestFrameKept /\ NeverUnasked
-----------------------------------------------------------------------------
(* The count of the holders, place by place.                               *)
One(held) == IF held THEN 1 ELSE 0
Slots(h, f) == {v \in Viewers : h[v] = f}
Count(f) ==
  One(frame = f) + One(frame = f /\ reader \in {"send", "panic"}) + One(lastPngFrame = f)
  + Cardinality(Slots(buffer, f)) + Cardinality(Slots(writing, f))

(* A set that has at most one element, x, more than S.                     *)
LEMMA AtMostOneMore ==
  ASSUME NEW S, IsFiniteSet(S), NEW x, x \notin S, NEW T, T \in {S, S \cup {x}}
  PROVE  /\ IsFiniteSet(T)
         /\ Cardinality(T) = Cardinality(S) + One(x \in T)
         /\ Cardinality(T) \in Nat /\ Cardinality(S) \in Nat
<1>1. CASE x \in T
  BY <1>1, FS_AddElement, FS_CardinalityType DEF One
<1>2. CASE x \notin T
  BY <1>2, FS_CardinalityType DEF One
<1> QED BY <1>1, <1>2

(* Viewers with a tag in front are as many as the viewers.                 *)
LEMMA Tagged ==
  ASSUME NEW S \in SUBSET Viewers, NEW tag
  PROVE  LET T == {<<tag, v>> : v \in S}
         IN  IsFiniteSet(T) /\ Cardinality(T) = Cardinality(S) /\ Cardinality(S) \in Nat
<1> DEFINE T == {<<tag, v>> : v \in S}
           b == [v \in S |-> <<tag, v>>]
<1>1. IsFiniteSet(S)
  BY ViewerAssumption, FS_Subset
<1>2. b \in Bijection(S, T)
  <2>1. b \in [S -> T]
    OBVIOUS
  <2>2. \A u, v \in S : b[u] = b[v] => u = v
    OBVIOUS
  <2>3. \A t \in T : \E v \in S : b[v] = t
    OBVIOUS
  <2> HIDE DEF b, T
  <2> QED BY <2>1, <2>2, <2>3 DEF Bijection, Injection, Surjection, IsInjective
<1>3. ExistsBijection(S, T)
  BY <1>2 DEF ExistsBijection
<1> QED BY <1>1, <1>3, FS_Bijection, FS_CardinalityType

(* Slots that differ at v only: v leaves those of what was there and joins *)
(* those of what is there now.                                             *)
LEMMA SlotWritten ==
  ASSUME NEW h, NEW g, NEW f, NEW v \in Viewers, \A u \in Viewers \ {v} : g[u] = h[u]
  PROVE  Cardinality(Slots(g, f)) = Cardinality(Slots(h, f)) + One(g[v] = f) - One(h[v] = f)
<1> DEFINE R == Slots(h, f) \ {v}
<1>1. IsFiniteSet(R)
  BY ViewerAssumption, FS_Subset, R \subseteq Viewers DEF Slots
<1>2. v \notin R /\ Slots(h, f) \in {R, R \cup {v}} /\ (v \in Slots(h, f) <=> h[v] = f)
  BY DEF Slots
<1>3. Slots(g, f) \in {R, R \cup {v}} /\ (v \in Slots(g, f) <=> g[v] = f)
  BY DEF Slots
<1> HIDE DEF R
<1>4. Cardinality(Slots(h, f)) = Cardinality(R) + One(h[v] = f) /\ Cardinality(R) \in Nat
  BY <1>1, <1>2, AtMostOneMore DEF One
<1>5. Cardinality(Slots(g, f)) = Cardinality(R) + One(g[v] = f)
  BY <1>1, <1>2, <1>3, AtMostOneMore DEF One
<1> QED BY <1>4, <1>5 DEF One

(* The holders of a frame, counted place by place.                         *)
LEMMA HoldersCounted ==
  \A f : /\ Cardinality(Holders(f)) = Count(f) /\ Count(f) \in Nat
         /\ Count(f) = 0 <=> Holders(f) = {}
<1> TAKE f
<1> DEFINE S1 == {<<"bufferedVideoWriter", v>> : v \in Slots(buffer, f)}
           S2 == {<<"videoWriter", v>> : v \in Slots(writing, f)}
           x3 == <<"lastPngFrame", NoViewer>>
           x4 == <<"videoChannel", cursor>>
           x5 == <<"videoUpdate", NoViewer>>
           T2 == S1 \cup S2
           T3 == T2 \cup {x3 : y \in {lastPngFrame} \cap {f}}
           T4 == T3 \cup {x4 : z \in {y \in {frame} \cap {f} : reader \in {"send", "panic"}}}
           T5 == T4 \cup {x5 : y \in {frame} \cap {f}}
<1>1. /\ IsFiniteSet(S1) /\ Cardinality(S1) = Cardinality(Slots(buffer, f))
      /\ IsFiniteSet(S2) /\ Cardinality(S2) = Cardinality(Slots(writing, f))
      /\ Cardinality(Slots(buffer, f)) \in Nat /\ Cardinality(Slots(writing, f)) \in Nat
  <2>1. Slots(buffer, f) \in SUBSET Viewers /\ Slots(writing, f) \in SUBSET Viewers
    BY DEF Slots
  <2> QED BY <2>1, Tagged
<1>2. /\ IsFiniteSet(T2)
      /\ Cardinality(T2) = Cardinality(Slots(buffer, f)) + Cardinality(Slots(writing, f))
  <2>1. S1 \cap S2 = {}
    OBVIOUS
  <2>2. Cardinality(S1 \cap S2) = 0
    BY <2>1, FS_EmptySet
  <2> HIDE DEF S1, S2, T3, T4, T5
  <2>3. IsFiniteSet(T2) /\ Cardinality(T2) = Cardinality(S1) + Cardinality(S2) - 0
    BY <1>1, <2>2, FS_Union
  <2> QED BY <1>1, <2>3
<1>3. x3 \notin T2 /\ T3 \in {T2, T2 \cup {x3}} /\ (x3 \in T3 <=> lastPngFrame = f)
  OBVIOUS
<1>4. x4 \notin T3 /\ T4 \in {T3, T3 \cup {x4}}
      /\ (x4 \in T4 <=> frame = f /\ reader \in {"send", "panic"})
  OBVIOUS
<1>5. x5 \notin T4 /\ T5 \in {T4, T4 \cup {x5}} /\ (x5 \in T5 <=> frame = f)
  <2>1. x5 \notin T2 /\ x5 # x3 /\ x5 # x4
    OBVIOUS
  <2> HIDE DEF T2, x3, x4, x5
  <2> QED BY <2>1
<1>6. Holders(f) = T5
  BY DEF Holders, Slots
<1> HIDE DEF T2, T3, T4, T5, x3, x4, x5
<1>7. IsFiniteSet(T3) /\ Cardinality(T3) = Cardinality(T2) + One(lastPngFrame = f)
  BY <1>2, <1>3, AtMostOneMore DEF One
<1>8. IsFiniteSet(T4) /\ Cardinality(T4) = Cardinality(T3) + One(frame = f /\ reader \in {"send", "panic"})
  BY <1>7, <1>4, AtMostOneMore DEF One
<1>9. IsFiniteSet(T5) /\ Cardinality(T5) = Cardinality(T4) + One(frame = f)
  BY <1>8, <1>5, AtMostOneMore DEF One
<1>10. Cardinality(T5) = Count(f) /\ Count(f) \in Nat
  BY <1>1, <1>2, <1>7, <1>8, <1>9 DEF Count, One
<1> QED BY <1>6, <1>9, <1>10, FS_EmptySet

(* The same after a step.                                                  *)
LEMMA HoldersCountedNext ==
  (\A f : /\ Cardinality(Holders(f)) = Count(f) /\ Count(f) \in Nat
          /\ Count(f) = 0 <=> Holders(f) = {})'
BY HoldersCounted, PTL

-----------------------------------------------------------------------------
USE DEF countVars, readerVars, viewVars, netVars

(* What acquire and release do to the count of a frame.                    *)
LEMMA AcquireCounts ==
  ASSUME NEW count \in [Frames -> Nat], NEW g
  PROVE  /\ Acquired(count, g) \in [Frames -> Nat]
         /\ \A f \in Frames : Acquired(count, g)[f] = count[f] + (IF g = f THEN 1 ELSE 0)
<1>1. ASSUME NEW f \in Frames
      PROVE  /\ Acquired(count, g)[f] \in Nat
             /\ Acquired(count, g)[f] = count[f] + (IF g = f THEN 1 ELSE 0)
  <2>1. CASE g = f
    BY <2>1 DEF Acquired, One
  <2>2. CASE g # f
    BY <2>2 DEF Acquired, One
  <2> QED BY <2>1, <2>2
<1>2. Acquired(count, g) = [f \in Frames |-> Acquired(count, g)[f]]
  BY DEF Acquired
<1> QED BY <1>1, <1>2

LEMMA ReleaseCounts ==
  ASSUME NEW count \in [Frames -> Nat], NEW g, Release(g, count)
  PROVE  /\ \A f \in Frames : refcount'[f] = count[f] - (IF g = f THEN 1 ELSE 0)
         /\ \A f \in Frames : f \in freed' <=> f \in freed \/ (g = f /\ f \in inC /\ refcount'[f] = 0)
BY DEF Release, Frees, One

(* Every step moves the counts as it moves the holders.                    *)
LEMMA CountStep ==
  ASSUME FrameInv, Next
  PROVE  refcount' \in [Frames -> Nat] /\ RefcountExact'
<1>0. /\ refcount \in [Frames -> Nat] /\ made \in 0 .. MaxFrames /\ MaxFrames \in Nat
      /\ frame \in FrameOrNil /\ lastPngFrame \in FrameOrNil
      /\ buffer \in [Viewers -> FrameOrNil] /\ writing \in [Viewers -> FrameOrNil]
      /\ ReaderInv /\ \A v \in Viewers : ViewerInv(v)
  BY FrameAssumption DEF FrameInv, TypeOK
<1>1. ASSUME NEW f \in Frames
      PROVE  refcount'[f] = Count(f)'
  <2> DEFINE b == Cardinality(Slots(buffer, f))
             w == Cardinality(Slots(writing, f))
             held == One(frame = f) + One(frame = f /\ reader \in {"send", "panic"})
                     + One(lastPngFrame = f)
             heldNext == One(frame' = f) + One(frame' = f /\ reader' \in {"send", "panic"})
                         + One(lastPngFrame' = f)
             bNext == Cardinality(Slots(buffer', f))
             wNext == Cardinality(Slots(writing', f))
  <2>1. refcount[f] = held + b + w /\ Count(f)' = heldNext + bNext + wNext
    <3>1. refcount[f] = Count(f)
      BY HoldersCounted DEF FrameInv, RefcountExact
    <3> QED BY <3>1 DEF Count, Slots
  <2>2. b \in Nat /\ w \in Nat
    <3>1. Slots(buffer, f) \in SUBSET Viewers /\ Slots(writing, f) \in SUBSET Viewers
      BY DEF Slots
    <3> QED BY <3>1, Tagged
  <2>3. ASSUME NEW v \in Viewers, \A u \in Viewers \ {v} : buffer'[u] = buffer[u]
        PROVE  bNext = b + One(buffer'[v] = f) - One(buffer[v] = f)
    BY <2>3, SlotWritten
  <2>4. ASSUME NEW v \in Viewers, \A u \in Viewers \ {v} : writing'[u] = writing[u]
        PROVE  wNext = w + One(writing'[v] = f) - One(writing[v] = f)
    BY <2>4, SlotWritten
  <2>n. NoFrame # f
    BY <1>0 DEF NoFrame, Frames, Connecting
  <2>5. (buffer' = buffer => bNext = b) /\ (writing' = writing => wNext = w)
    OBVIOUS
  <2> HIDE DEF b, w, bNext, wNext
  <2> USE <1>0, <2>n
  <2>6. ASSUME NewFrameReady PROVE refcount'[f] = Count(f)'
    <3>1. refcount'[f] = refcount[f] + One(made + 1 = f)
      BY <2>6, AcquireCounts DEF NewFrameReady, Make, One
    <3>2. heldNext = held + One(made + 1 = f) /\ held \in Nat
      BY <2>6 DEF NewFrameReady, Make, ReaderInv, One
    <3>3. bNext = b /\ wNext = w
      BY <2>6, <2>5 DEF NewFrameReady, Make, One
    <3> HIDE DEF held, heldNext
    <3> QED BY <2>1, <2>2, <3>1, <3>2, <3>3 DEF One
  <2>7. ASSUME VideoIsDown PROVE refcount'[f] = Count(f)'
    <3>1. refcount'[f] = refcount[f] + One(made + 1 = f)
      BY <2>7, AcquireCounts DEF VideoIsDown, Make, One
    <3>2. heldNext = held + One(made + 1 = f) /\ held \in Nat
      BY <2>7 DEF VideoIsDown, Make, ReaderInv, One
    <3>3. bNext = b /\ wNext = w
      BY <2>7, <2>5 DEF VideoIsDown, Make, One
    <3> HIDE DEF held, heldNext
    <3> QED BY <2>1, <2>2, <3>1, <3>2, <3>3 DEF One
  <2>8. ASSUME SaveFrame PROVE refcount'[f] = Count(f)'
    <3>1. refcount'[f] = refcount[f] + One(frame = f) - One(lastPngFrame = f)
      BY <2>8, AcquireCounts, ReleaseCounts DEF SaveFrame, SavedReference, One
    <3>2. heldNext = held + One(frame = f) - One(lastPngFrame = f) /\ held \in Nat
      BY <2>8 DEF SaveFrame, SavedReference, ReaderInv, One
    <3>3. bNext = b /\ wNext = w
      BY <2>8, <2>5 DEF SaveFrame, SavedReference, One
    <3> HIDE DEF held, heldNext
    <3> QED BY <2>1, <2>2, <3>1, <3>2, <3>3 DEF One
  <2>9. ASSUME SendOnClosed PROVE refcount'[f] = Count(f)'
    <3>1. refcount'[f] = refcount[f]
      BY <2>9 DEF SendOnClosed
    <3>2. heldNext = held /\ held \in Nat
      BY <2>9 DEF SendOnClosed, ReaderInv, One
    <3>3. bNext = b /\ wNext = w
      BY <2>9, <2>5 DEF SendOnClosed, One
    <3> HIDE DEF held, heldNext
    <3> QED BY <2>1, <2>2, <3>1, <3>2, <3>3 DEF One
  <2>10. ASSUME EndUpdate PROVE refcount'[f] = Count(f)'
    <3>1. refcount'[f] = refcount[f] - One(frame = f)
      BY <2>10, ReleaseCounts DEF EndUpdate, One
    <3>2. heldNext = held - One(frame = f) /\ held \in Nat
      BY <2>10 DEF EndUpdate, ReaderInv, One
    <3>3. bNext = b /\ wNext = w
      BY <2>10, <2>5 DEF EndUpdate, One
    <3> HIDE DEF held, heldNext
    <3> QED BY <2>1, <2>2, <3>1, <3>2, <3>3 DEF One
  <2>11. ASSUME EndSession PROVE refcount'[f] = Count(f)'
    <3>1. refcount'[f] = refcount[f] - One(lastPngFrame = f)
      BY <2>11, ReleaseCounts DEF EndSession, One
    <3>2. heldNext = held - One(lastPngFrame = f) /\ held \in Nat
      BY <2>11 DEF EndSession, ReaderInv, One
    <3>3. bNext = b /\ wNext = w
      BY <2>11, <2>5 DEF EndSession, One
    <3> HIDE DEF held, heldNext
    <3> QED BY <2>1, <2>2, <3>1, <3>2, <3>3 DEF One
  <2>12. ASSUME NEW v \in Viewers, NextViewer(v) PROVE refcount'[f] = Count(f)'
    <3>1. refcount'[f] = refcount[f] + One(frame = f)
      BY <2>12, AcquireCounts DEF NextViewer, One
    <3>2. heldNext = held + One(frame = f) /\ held \in Nat
      BY <2>12 DEF NextViewer, ReaderInv, One
    <3>3. bNext = b /\ wNext = w
      BY <2>12, <2>5 DEF NextViewer, One
    <3> HIDE DEF held, heldNext
    <3> QED BY <2>1, <2>2, <3>1, <3>2, <3>3 DEF One
  <2>13. ASSUME NEW v \in Viewers, Buffer(v) PROVE refcount'[f] = Count(f)'
    <3>1. refcount'[f] = refcount[f] - One(buffer[v] = f)
      BY <2>13, ReleaseCounts DEF Buffer, Overrun, Newest, One
    <3>2. heldNext = held - One(frame = f) /\ held \in Nat
      BY <2>13 DEF Buffer, Overrun, Newest, ReaderInv, One
    <3>3. bNext = b + One(frame = f) - One(buffer[v] = f) /\ wNext = w
      BY <2>13, <2>5, <2>3 DEF Buffer, Overrun, Newest, One
    <3> HIDE DEF held, heldNext
    <3> QED BY <2>1, <2>2, <3>1, <3>2, <3>3 DEF One
  <2>14. ASSUME NEW v \in Viewers, Join(v) PROVE refcount'[f] = Count(f)'
    <3>1. refcount'[f] = refcount[f] + One(lastPngFrame = NoFrame /\ Connecting = f)
      BY <2>14, AcquireCounts DEF Join, One
    <3>2. heldNext = held /\ held \in Nat
      BY <2>14 DEF Join, ReaderInv, One
    <3>3. bNext = b + One(lastPngFrame = NoFrame /\ Connecting = f) /\ wNext = w
      BY <2>14, <2>5, <2>3 DEF Join, One, ViewerInv
    <3> HIDE DEF held, heldNext
    <3> QED BY <2>1, <2>2, <3>1, <3>2, <3>3 DEF One
  <2>15. ASSUME NEW v \in Viewers, Ask(v) \/ Request(v) PROVE refcount'[f] = Count(f)'
    <3>1. refcount'[f] = refcount[f]
      BY <2>15 DEF Ask, Request
    <3>2. heldNext = held /\ held \in Nat
      BY <2>15 DEF Ask, Request, ReaderInv, One
    <3>3. bNext = b /\ wNext = w
      BY <2>15, <2>5 DEF Ask, Request, One
    <3> HIDE DEF held, heldNext
    <3> QED BY <2>1, <2>2, <3>1, <3>2, <3>3 DEF One
  <2>16. ASSUME NEW v \in Viewers, HandOver(v) PROVE refcount'[f] = Count(f)'
    <3>1. refcount'[f] = refcount[f]
      BY <2>16 DEF HandOver, HandedOver
    <3>2. heldNext = held /\ held \in Nat
      BY <2>16 DEF HandOver, HandedOver, ReaderInv, One
    <3>3. bNext = b - One(buffer[v] = f) /\ wNext = w + One(buffer[v] = f)
      <4>1. /\ buffer'[v] = NoFrame /\ \A u \in Viewers \ {v} : buffer'[u] = buffer[u]
            /\ writing'[v] = buffer[v] /\ \A u \in Viewers \ {v} : writing'[u] = writing[u]
            /\ writing[v] = NoFrame
        BY <2>16 DEF HandOver, HandedOver, ViewerInv
      <4>2. bNext = b + One(NoFrame = f) - One(buffer[v] = f)
        BY <4>1, <2>3
      <4>3. wNext = w + One(buffer[v] = f) - One(NoFrame = f)
        BY <4>1, <2>4
      <4> QED BY <2>2, <4>2, <4>3 DEF One
    <3> HIDE DEF held, heldNext
    <3> QED BY <2>1, <2>2, <3>1, <3>2, <3>3 DEF One
  <2>17. ASSUME NEW v \in Viewers, Written(v) PROVE refcount'[f] = Count(f)'
    <3>1. refcount'[f] = refcount[f] - One(writing[v] = f)
      BY <2>17, ReleaseCounts DEF Written, One
    <3>2. heldNext = held /\ held \in Nat
      BY <2>17 DEF Written, ReaderInv, One
    <3>3. bNext = b /\ wNext = w - One(writing[v] = f)
      <4>1. writing'[v] = NoFrame /\ \A u \in Viewers \ {v} : writing'[u] = writing[u]
        BY <2>17 DEF Written
      <4>2. wNext = w + One(NoFrame = f) - One(writing[v] = f)
        BY <4>1, <2>4
      <4> QED BY <2>2, <2>5, <2>17, <4>2 DEF Written, One
    <3> HIDE DEF held, heldNext
    <3> QED BY <2>1, <2>2, <3>1, <3>2, <3>3 DEF One
  <2>18. ASSUME NEW v \in Viewers, StopBuffering(v) PROVE refcount'[f] = Count(f)'
    <3>1. refcount'[f] = refcount[f] - One(buffer[v] = f)
      BY <2>18, ReleaseCounts DEF StopBuffering, LastFrame, One
    <3>2. heldNext = held /\ held \in Nat
      BY <2>18 DEF StopBuffering, LastFrame, ReaderInv, One
    <3>3. bNext = b - One(buffer[v] = f) /\ wNext = w
      <4>1. buffer'[v] = NoFrame /\ \A u \in Viewers \ {v} : buffer'[u] = buffer[u]
        BY <2>18 DEF StopBuffering
      <4>2. bNext = b + One(NoFrame = f) - One(buffer[v] = f)
        BY <4>1, <2>3
      <4> QED BY <2>2, <2>5, <2>18, <4>2 DEF StopBuffering, One
    <3> HIDE DEF held, heldNext
    <3> QED BY <2>1, <2>2, <3>1, <3>2, <3>3 DEF One
  <2>19. ASSUME NEW v \in Viewers, HangUp(v) \/ StopWriting(v) \/ Teardown(v) PROVE refcount'[f] = Count(f)'
    <3>1. refcount'[f] = refcount[f]
      BY <2>19 DEF HangUp, StopWriting, Teardown
    <3>2. heldNext = held /\ held \in Nat
      BY <2>19 DEF HangUp, StopWriting, Teardown, ReaderInv, One
    <3>3. bNext = b /\ wNext = w
      BY <2>19, <2>5 DEF HangUp, StopWriting, Teardown, One
    <3> HIDE DEF held, heldNext
    <3> QED BY <2>1, <2>2, <3>1, <3>2, <3>3 DEF One
  <2> QED BY <2>6, <2>7, <2>8, <2>9, <2>10, <2>11, <2>12, <2>13, <2>14, <2>15, <2>16, <2>17, <2>18, <2>19
     DEF Next, VideoUpdate, Viewer
<1>2. refcount' = [f \in Frames |-> refcount'[f]]
  BY <1>0 DEF Next, VideoUpdate, Viewer, NewFrameReady, VideoIsDown, Make, SaveFrame, SendOnClosed,
     EndUpdate, EndSession, NextViewer, Buffer, Join, Ask, Request, HandOver, Written, HangUp,
     StopBuffering, StopWriting, Teardown, Acquired, Release
<1>3. \A f \in Frames : Count(f)' \in Nat /\ Cardinality(Holders(f)') = Count(f)'
  BY HoldersCountedNext
<1> QED BY <1>1, <1>2, <1>3 DEF RefcountExact

(* Every step keeps the types.                                             *)
LEMMA TypeStep ==
  ASSUME FrameInv, Next
  PROVE  TypeOK'
<1>0. TypeOK /\ ReaderInv /\ (\A v \in Viewers : ViewerInv(v)) /\ MaxFrames \in Nat /\ MaxAsked \in Nat
  BY FrameAssumption DEF FrameInv
<1>t. refcount' \in [Frames -> Nat]
  BY CountStep
<1>1. ASSUME NewFrameReady PROVE TypeOK'
  <2>1. made' \in 0 .. MaxFrames /\ frame' \in FrameOrNil /\ inC' \subseteq Frames
    BY <1>0, <1>1 DEF NewFrameReady, Make, TypeOK, Frames, FrameOrNil, Connecting
  <2> QED BY <1>0, <1>t, <1>1, <2>1 DEF NewFrameReady, Make, TypeOK
<1>2. ASSUME VideoIsDown PROVE TypeOK'
  <2>1. made' \in 0 .. MaxFrames /\ frame' \in FrameOrNil
    BY <1>0, <1>2 DEF VideoIsDown, Make, TypeOK, Frames, FrameOrNil, Connecting
  <2> QED BY <1>0, <1>t, <1>2, <2>1 DEF VideoIsDown, Make, TypeOK
<1>3. ASSUME SaveFrame PROVE TypeOK'
  BY <1>0, <1>t, <1>3 DEF SaveFrame, Release, Frees, TypeOK, Frames, FrameOrNil
<1>4. ASSUME SendOnClosed PROVE TypeOK'
  BY <1>0, <1>t, <1>4 DEF SendOnClosed, TypeOK, Frames, FrameOrNil
<1>5. ASSUME EndUpdate PROVE TypeOK'
  BY <1>0, <1>t, <1>5 DEF EndUpdate, Release, Frees, TypeOK, Frames, FrameOrNil
<1>6. ASSUME EndSession PROVE TypeOK'
  BY <1>0, <1>t, <1>6 DEF EndSession, Release, Frees, TypeOK, Frames, FrameOrNil
<1>7. ASSUME NEW v \in Viewers, NextViewer(v) PROVE TypeOK'
  BY <1>0, <1>t, <1>7 DEF NextViewer, LoopOver, TypeOK, Frames, FrameOrNil
<1>8. ASSUME NEW v \in Viewers, Buffer(v) PROVE TypeOK'
  BY <1>0, <1>t, <1>8 DEF Buffer, Overrun, Newest, Receives, Release, Frees, TypeOK, Frames, FrameOrNil
<1>9. ASSUME NEW v \in Viewers, Join(v) PROVE TypeOK'
  <2>1. Connecting \in FrameOrNil
    BY <1>0 DEF Frames, FrameOrNil, Connecting
  <2>2. buffer' \in [Viewers -> FrameOrNil]
    BY <1>0, <1>9, <2>1 DEF Join, TypeOK
  <2> QED BY <1>0, <1>t, <1>9, <2>2 DEF Join, TypeOK
<1>10. ASSUME NEW v \in Viewers, Ask(v) PROVE TypeOK'
  BY <1>0, <1>t, <1>10 DEF Ask, TypeOK, Frames, FrameOrNil
<1>11. ASSUME NEW v \in Viewers, Request(v) PROVE TypeOK'
  <2>1. pendingVideoUpdates' \in [Viewers -> Nat]
    BY <1>0, <1>11 DEF Request, TypeOK
  <2> QED BY <1>0, <1>t, <1>11, <2>1 DEF Request, TypeOK
<1>12. ASSUME NEW v \in Viewers, HandOver(v) PROVE TypeOK'
  BY <1>0, <1>t, <1>12 DEF HandOver, HandedOver, TypeOK, Frames, FrameOrNil
<1>13. ASSUME NEW v \in Viewers, Written(v) PROVE TypeOK'
  <2>1. pendingVideoUpdates[v] > 0 /\ pendingVideoUpdates[v] \in Nat
    BY <1>0, <1>13 DEF Written, ViewerInv, TypeOK
  <2>2. pendingVideoUpdates' \in [Viewers -> Nat] /\ sent' \in [Viewers -> Nat]
    BY <1>0, <1>13, <2>1 DEF Written, Spent, TypeOK
  <2>3. writer' \in [Viewers -> {"wait", "ready", "write", "off"}]
    BY <1>0, <1>13 DEF Written, TypeOK
  <2>4. writing' \in [Viewers -> FrameOrNil] /\ shown' \in [Viewers -> FrameOrNil]
    BY <1>0, <1>13 DEF Written, TypeOK, FrameOrNil
  <2>5. freed' \subseteq inC'
    BY <1>0, <1>13 DEF Written, Release, Frees, TypeOK
  <2> QED BY <1>0, <1>t, <1>13, <2>2, <2>3, <2>4, <2>5 DEF Written, TypeOK
<1>14. ASSUME NEW v \in Viewers, HangUp(v) PROVE TypeOK'
  BY <1>0, <1>t, <1>14 DEF HangUp, TypeOK, Frames, FrameOrNil
<1>15. ASSUME NEW v \in Viewers, StopBuffering(v) PROVE TypeOK'
  BY <1>0, <1>t, <1>15 DEF StopBuffering, LastFrame, Release, Frees, TypeOK, Frames, FrameOrNil
<1>16. ASSUME NEW v \in Viewers, StopWriting(v) PROVE TypeOK'
  BY <1>0, <1>t, <1>16 DEF StopWriting, TypeOK, Frames, FrameOrNil
<1>17. ASSUME NEW v \in Viewers, Teardown(v) PROVE TypeOK'
  BY <1>0, <1>t, <1>17 DEF Teardown, TypeOK, Frames, FrameOrNil
<1> QED
  BY <1>1, <1>2, <1>3, <1>4, <1>5, <1>6, <1>7, <1>8, <1>9, <1>10, <1>11, <1>12, <1>13, <1>14,
     <1>15, <1>16, <1>17 DEF Next, VideoUpdate, Viewer

(* Every step keeps what the reader holds.                                 *)
LEMMA ReaderStep ==
  ASSUME FrameInv, Next
  PROVE  ReaderInv'
<1>0. ReaderInv /\ made \in Nat /\ frame \in Int /\ lastPngFrame \in Int /\ NoFrame = -1
      /\ \A v \in Viewers : ViewerInv(v)
  BY FrameAssumption DEF FrameInv, TypeOK, FrameOrNil, Frames, NoFrame, Connecting
<1>1. ASSUME NewFrameReady PROVE ReaderInv'
  BY <1>0, <1>1 DEF NewFrameReady, Make, ReaderInv
<1>2. ASSUME VideoIsDown PROVE ReaderInv'
  BY <1>0, <1>2 DEF VideoIsDown, Make, ReaderInv
<1>3. ASSUME SaveFrame PROVE ReaderInv'
  BY <1>0, <1>3 DEF SaveFrame, ReaderInv
<1>4. ASSUME SendOnClosed PROVE ReaderInv'
  BY <1>0, <1>4 DEF SendOnClosed, ReaderInv
<1>5. ASSUME EndUpdate PROVE ReaderInv'
  BY <1>0, <1>5 DEF EndUpdate, ReaderInv
<1>6. ASSUME EndSession PROVE ReaderInv'
  BY <1>0, <1>6 DEF EndSession, ReaderInv
<1>7. ASSUME NEW v \in Viewers, NextViewer(v) PROVE ReaderInv'
  BY <1>0, <1>7 DEF NextViewer, LoopOver, ReaderInv
<1>8. ASSUME NEW v \in Viewers, Buffer(v) PROVE ReaderInv'
  BY <1>0, <1>8 DEF Buffer, Overrun, Newest, Receives, ReaderInv
<1>9. ASSUME NEW v \in Viewers, Join(v) PROVE ReaderInv'
  BY <1>0, <1>9 DEF Join, ReaderInv
<1>10. ASSUME NEW v \in Viewers, Ask(v) PROVE ReaderInv'
  BY <1>0, <1>10 DEF Ask, ReaderInv
<1>11. ASSUME NEW v \in Viewers, Request(v) PROVE ReaderInv'
  BY <1>0, <1>11 DEF Request, ReaderInv
<1>12. ASSUME NEW v \in Viewers, HandOver(v) PROVE ReaderInv'
  BY <1>0, <1>12 DEF HandOver, HandedOver, ReaderInv
<1>13. ASSUME NEW v \in Viewers, Written(v) PROVE ReaderInv'
  BY <1>0, <1>13 DEF Written, Spent, ReaderInv
<1>14. ASSUME NEW v \in Viewers, HangUp(v) PROVE ReaderInv'
  BY <1>0, <1>14 DEF HangUp, ReaderInv
<1>15. ASSUME NEW v \in Viewers, StopBuffering(v) PROVE ReaderInv'
  BY <1>0, <1>15 DEF StopBuffering, LastFrame, ReaderInv
<1>16. ASSUME NEW v \in Viewers, StopWriting(v) PROVE ReaderInv'
  BY <1>0, <1>16 DEF StopWriting, ReaderInv
<1>17. ASSUME NEW v \in Viewers, Teardown(v) PROVE ReaderInv'
  BY <1>0, <1>17 DEF Teardown, ReaderInv
<1> QED
  BY <1>1, <1>2, <1>3, <1>4, <1>5, <1>6, <1>7, <1>8, <1>9, <1>10, <1>11, <1>12, <1>13, <1>14,
     <1>15, <1>16, <1>17 DEF Next, VideoUpdate, Viewer

(* A frame that is held has a count.                                       *)
LEMMA HeldIsCounted ==
  ASSUME TypeOK, RefcountExact, NEW f \in Frames, Holders(f) # {}
  PROVE  refcount[f] > 0
<1>1. refcount[f] = Count(f) /\ Count(f) # 0 /\ Count(f) \in Nat
  BY HoldersCounted DEF RefcountExact
<1> QED BY <1>1

(* Every step keeps it that the frames without a count are the freed ones: *)
(* a reference is only acquired for a frame that somebody holds.           *)
LEMMA FreeStep ==
  ASSUME FrameInv, Next
  PROVE  FreeInv'
<1>0. FreeInv /\ inC \subseteq Frames /\ freed \subseteq inC /\ refcount \in [Frames -> Nat]
  BY DEF FrameInv, TypeOK
<1>h. \A f \in Frames : Holders(f) # {} => refcount[f] > 0
  BY HeldIsCounted DEF FrameInv
<1>i. inC \subseteq 1 .. made /\ made \in Nat /\ MaxFrames \in Nat
  BY FrameAssumption DEF FrameInv, ReaderInv, TypeOK
<1>r. ASSUME NEW g, Release(g, refcount), inC' = inC, g \in inC => refcount[g] > 0
      PROVE  FreeInv'
  BY <1>0, <1>r, ReleaseCounts DEF FreeInv
<1>1. ASSUME NewFrameReady PROVE FreeInv'
  <2>1. /\ refcount' = Acquired(refcount, made + 1) /\ freed' = freed
        /\ inC' = inC \cup {made + 1} /\ made + 1 \in Frames
    BY <1>0, <1>i, <1>1 DEF NewFrameReady, Make, Frames, Connecting
  <2>2. \A f \in Frames : refcount'[f] = refcount[f] + (IF made + 1 = f THEN 1 ELSE 0)
    BY <1>0, <2>1, AcquireCounts DEF One
  <2>3. made + 1 \notin freed /\ made + 1 \notin inC
    BY <1>0, <1>i
  <2> QED BY <1>0, <2>1, <2>2, <2>3 DEF FreeInv
<1>2. ASSUME VideoIsDown PROVE FreeInv'
  <2>1. \A f \in inC : refcount'[f] = refcount[f]
    BY <1>0, <1>i, <1>2, AcquireCounts DEF VideoIsDown, Make, One
  <2> QED BY <1>0, <1>2, <2>1 DEF VideoIsDown, Make, FreeInv
<1>3. ASSUME SaveFrame PROVE FreeInv'
  <2>1. Release(lastPngFrame, SavedReference(frame)) /\ inC' = inC
    BY <1>3 DEF SaveFrame
  <2>2. /\ SavedReference(frame) \in [Frames -> Nat]
        /\ \A f \in Frames : SavedReference(frame)[f] = refcount[f] + One(frame = f)
    BY <1>0, AcquireCounts DEF SavedReference, One
  <2>3. /\ frame \in inC => refcount[frame] > 0
        /\ lastPngFrame \in inC => refcount[lastPngFrame] > 0
    BY <1>0, <1>h DEF Holders
  <2> QED BY <1>0, <2>1, <2>2, <2>3, ReleaseCounts DEF FreeInv, One
<1>4. ASSUME SendOnClosed PROVE FreeInv'
  BY <1>0, <1>4 DEF SendOnClosed, FreeInv
<1>5. ASSUME EndUpdate PROVE FreeInv'
  <2>1. Release(frame, refcount) /\ inC' = inC
    BY <1>5 DEF EndUpdate
  <2>2. frame \in inC => refcount[frame] > 0
    BY <1>0, <1>h, <1>5 DEF Holders, EndUpdate
  <2> QED BY <1>0, <2>1, <2>2, <1>r
<1>6. ASSUME EndSession PROVE FreeInv'
  <2>1. Release(lastPngFrame, refcount) /\ inC' = inC
    BY <1>6 DEF EndSession
  <2>2. lastPngFrame \in inC => refcount[lastPngFrame] > 0
    BY <1>0, <1>h, <1>6 DEF Holders, EndSession
  <2> QED BY <1>0, <2>1, <2>2, <1>r
<1>7. ASSUME NEW v \in Viewers, NextViewer(v) PROVE FreeInv'
  <2>1. frame \in inC => refcount[frame] > 0
    BY <1>0, <1>h DEF Holders
  <2> QED BY <1>0, <1>7, <2>1, AcquireCounts DEF NextViewer, FreeInv, One
<1>8. ASSUME NEW v \in Viewers, Buffer(v) PROVE FreeInv'
  <2>1. Release(buffer[v], refcount) /\ inC' = inC
    BY <1>8 DEF Buffer, Overrun
  <2>2. buffer[v] \in inC => refcount[buffer[v]] > 0
    BY <1>0, <1>h, <1>8 DEF Holders, Buffer, Overrun
  <2> QED BY <1>0, <2>1, <2>2, <1>r
<1>9. ASSUME NEW v \in Viewers, Join(v) PROVE FreeInv'
  <2>1. \A f \in inC : refcount'[f] = refcount[f]
    BY <1>0, <1>i, <1>9, AcquireCounts DEF Join, Connecting, One
  <2> QED BY <1>0, <1>9, <2>1 DEF Join, FreeInv
<1>10. ASSUME NEW v \in Viewers, Ask(v) PROVE FreeInv'
  BY <1>0, <1>10 DEF Ask, FreeInv
<1>11. ASSUME NEW v \in Viewers, Request(v) PROVE FreeInv'
  BY <1>0, <1>11 DEF Request, FreeInv
<1>12. ASSUME NEW v \in Viewers, HandOver(v) PROVE FreeInv'
  BY <1>0, <1>12 DEF HandOver, HandedOver, FreeInv
<1>13. ASSUME NEW v \in Viewers, Written(v) PROVE FreeInv'
  <2>1. Release(writing[v], refcount) /\ inC' = inC
    BY <1>13 DEF Written
  <2>2. writing[v] \in inC => refcount[writing[v]] > 0
    BY <1>0, <1>h, <1>13 DEF Holders, Written
  <2> QED BY <1>0, <2>1, <2>2, <1>r
<1>14. ASSUME NEW v \in Viewers, HangUp(v) PROVE FreeInv'
  BY <1>0, <1>14 DEF HangUp, FreeInv
<1>15. ASSUME NEW v \in Viewers, StopBuffering(v) PROVE FreeInv'
  <2>1. Release(buffer[v], refcount) /\ inC' = inC
    BY <1>15 DEF StopBuffering, LastFrame
  <2>2. buffer[v] \in inC => refcount[buffer[v]] > 0
    BY <1>0, <1>h, <1>15 DEF Holders, StopBuffering, LastFrame
  <2> QED BY <1>0, <2>1, <2>2, <1>r
<1>16. ASSUME NEW v \in Viewers, StopWriting(v) PROVE FreeInv'
  BY <1>0, <1>16 DEF StopWriting, FreeInv
<1>17. ASSUME NEW v \in Viewers, Teardown(v) PROVE FreeInv'
  BY <1>0, <1>17 DEF Teardown, FreeInv
<1> QED
  BY <1>1, <1>2, <1>3, <1>4, <1>5, <1>6, <1>7, <1>8, <1>9, <1>10, <1>11, <1>12, <1>13, <1>14,
     <1>15, <1>16, <1>17 DEF Next, VideoUpdate, Viewer

(* Every step keeps the three goroutines of a viewer in agreement.         *)
LEMMA ViewerStep ==
  ASSUME FrameInv, Next, NEW u \in Viewers
  PROVE  ViewerInv(u)'
<1>0. TypeOK /\ ReaderInv /\ \A v \in Viewers : ViewerInv(v)
  BY DEF FrameInv
<1> USE DEF TypeOK, ReaderInv
<1>1. ASSUME NewFrameReady PROVE ViewerInv(u)'
  BY <1>0, <1>1 DEF NewFrameReady, Make, ViewerInv
<1>2. ASSUME VideoIsDown PROVE ViewerInv(u)'
  BY <1>0, <1>2 DEF VideoIsDown, Make, ViewerInv
<1>3. ASSUME SaveFrame PROVE ViewerInv(u)'
  BY <1>0, <1>3 DEF SaveFrame, ViewerInv
<1>4. ASSUME SendOnClosed PROVE ViewerInv(u)'
  BY <1>0, <1>4 DEF SendOnClosed, ViewerInv
<1>5. ASSUME EndUpdate PROVE ViewerInv(u)'
  BY <1>0, <1>5 DEF EndUpdate, ViewerInv
<1>6. ASSUME EndSession PROVE ViewerInv(u)'
  BY <1>0, <1>6 DEF EndSession, ViewerInv
<1>7. ASSUME NEW v \in Viewers, NextViewer(v) PROVE ViewerInv(u)'
  BY <1>0, <1>7 DEF NextViewer, LoopOver, ViewerInv
<1>8. ASSUME NEW v \in Viewers, Buffer(v) PROVE ViewerInv(u)'
  BY <1>0, <1>8 DEF Buffer, Overrun, Newest, Receives, ViewerInv
<1>9. ASSUME NEW v \in Viewers, Join(v) PROVE ViewerInv(u)'
  BY <1>0, <1>9 DEF Join, ViewerInv
<1>10. ASSUME NEW v \in Viewers, Ask(v) PROVE ViewerInv(u)'
  BY <1>0, <1>10 DEF Ask, ViewerInv
<1>11. ASSUME NEW v \in Viewers, Request(v) PROVE ViewerInv(u)'
  BY <1>0, <1>11 DEF Request, ViewerInv
<1>12. ASSUME NEW v \in Viewers, HandOver(v) PROVE ViewerInv(u)'
  BY <1>0, <1>12 DEF HandOver, HandedOver, ViewerInv
<1>13. ASSUME NEW v \in Viewers, Written(v) PROVE ViewerInv(u)'
  BY <1>0, <1>13 DEF Written, Spent, ViewerInv
<1>14. ASSUME NEW v \in Viewers, HangUp(v) PROVE ViewerInv(u)'
  BY <1>0, <1>14 DEF HangUp, ViewerInv
<1>15. ASSUME NEW v \in Viewers, StopBuffering(v) PROVE ViewerInv(u)'
  BY <1>0, <1>15 DEF StopBuffering, LastFrame, ViewerInv
<1>16. ASSUME NEW v \in Viewers, StopWriting(v) PROVE ViewerInv(u)'
  BY <1>0, <1>16 DEF StopWriting, ViewerInv
<1>17. ASSUME NEW v \in Viewers, Teardown(v) PROVE ViewerInv(u)'
  BY <1>0, <1>17 DEF Teardown, ViewerInv
<1> QED
  BY <1>1, <1>2, <1>3, <1>4, <1>5, <1>6, <1>7, <1>8, <1>9, <1>10, <1>11, <1>12, <1>13, <1>14,
     <1>15, <1>16, <1>17 DEF Next, VideoUpdate, Viewer

(* Every step keeps the frames of a viewer in the order they were made.    *)
LEMMA OrderStep ==
  ASSUME FrameInv, Next, NEW u \in Viewers
  PROVE  OrderInv(u)'
<1>0. /\ ReaderInv /\ ViewerInv(u) /\ OrderInv(u) /\ made \in Nat /\ NoFrame = -1
      /\ \A v \in Viewers : /\ buffer[v] \in Int /\ buffer[v] >= NoFrame
                            /\ writing[v] \in Int /\ writing[v] >= NoFrame
                            /\ shown[v] \in Int /\ shown[v] >= NoFrame
      /\ buffer \in [Viewers -> FrameOrNil] /\ writing \in [Viewers -> FrameOrNil]
      /\ shown \in [Viewers -> FrameOrNil]
  <2>1. \A f \in FrameOrNil : f \in Int /\ f >= NoFrame
    BY FrameAssumption DEF FrameOrNil, Frames, NoFrame, Connecting
  <2> QED BY <2>1 DEF FrameInv, TypeOK, NoFrame
<1> USE DEF ReaderInv, ViewerInv
<1>1. ASSUME NewFrameReady PROVE OrderInv(u)'
  BY <1>0, <1>1 DEF NewFrameReady, Make, OrderInv, Served
<1>2. ASSUME VideoIsDown PROVE OrderInv(u)'
  BY <1>0, <1>2 DEF VideoIsDown, Make, OrderInv, Served
<1>3. ASSUME SaveFrame PROVE OrderInv(u)'
  BY <1>0, <1>3 DEF SaveFrame, OrderInv, Served
<1>4. ASSUME SendOnClosed PROVE OrderInv(u)'
  BY <1>0, <1>4 DEF SendOnClosed, OrderInv, Served
<1>5. ASSUME EndUpdate PROVE OrderInv(u)'
  BY <1>0, <1>5 DEF EndUpdate, OrderInv, Served
<1>6. ASSUME EndSession PROVE OrderInv(u)'
  BY <1>0, <1>6 DEF EndSession, OrderInv, Served
<1>7. ASSUME NEW v \in Viewers, NextViewer(v) PROVE OrderInv(u)'
  BY <1>0, <1>7 DEF NextViewer, LoopOver, OrderInv, Served
<1>8. ASSUME NEW v \in Viewers, Buffer(v) PROVE OrderInv(u)'
  BY <1>0, <1>8 DEF Buffer, Overrun, Newest, Receives, OrderInv, Served
<1>9. ASSUME NEW v \in Viewers, Join(v) PROVE OrderInv(u)'
  BY <1>0, <1>9 DEF Join, Connecting, OrderInv, Served
<1>10. ASSUME NEW v \in Viewers, Ask(v) PROVE OrderInv(u)'
  BY <1>0, <1>10 DEF Ask, OrderInv, Served
<1>11. ASSUME NEW v \in Viewers, Request(v) PROVE OrderInv(u)'
  BY <1>0, <1>11 DEF Request, OrderInv, Served
<1>12. ASSUME NEW v \in Viewers, HandOver(v) PROVE OrderInv(u)'
  BY <1>0, <1>12 DEF HandOver, HandedOver, OrderInv, Served
<1>13. ASSUME NEW v \in Viewers, Written(v) PROVE OrderInv(u)'
  BY <1>0, <1>13 DEF Written, Spent, OrderInv, Served
<1>14. ASSUME NEW v \in Viewers, HangUp(v) PROVE OrderInv(u)'
  BY <1>0, <1>14 DEF HangUp, OrderInv, Served
<1>15. ASSUME NEW v \in Viewers, StopBuffering(v) PROVE OrderInv(u)'
  BY <1>0, <1>15 DEF StopBuffering, LastFrame, OrderInv, Served
<1>16. ASSUME NEW v \in Viewers, StopWriting(v) PROVE OrderInv(u)'
  BY <1>0, <1>16 DEF StopWriting, OrderInv, Served
<1>17. ASSUME NEW v \in Viewers, Teardown(v) PROVE OrderInv(u)'
  BY <1>0, <1>17 DEF Teardown, OrderInv, Served
<1> QED
  BY <1>1, <1>2, <1>3, <1>4, <1>5, <1>6, <1>7, <1>8, <1>9, <1>10, <1>11, <1>12, <1>13, <1>14,
     <1>15, <1>16, <1>17 DEF Next, VideoUpdate, Viewer

(* Every step keeps the newest frame of those it was handed to.            *)
LEMMA NewestStep ==
  ASSUME FrameInv, Next
  PROVE  NewestFrameKept'
<1>0. /\ NewestFrameKept /\ ReaderInv /\ \A v \in Viewers : ViewerInv(v) /\ OrderInv(v)
      /\ served \subseteq Viewers /\ made \in Nat /\ NoFrame = -1
      /\ buffer \in [Viewers -> FrameOrNil] /\ writing \in [Viewers -> FrameOrNil]
      /\ shown \in [Viewers -> FrameOrNil] /\ buffering \in [Viewers -> {"on", "stopping", "off"}]
      /\ \A v \in Viewers : writing[v] \in Int /\ shown[v] \in Int
  <2>1. \A f \in FrameOrNil : f \in Int
    BY FrameAssumption DEF FrameOrNil, Frames, NoFrame, Connecting
  <2> QED BY <2>1 DEF FrameInv, TypeOK, NoFrame
<1> USE DEF ReaderInv, ViewerInv, OrderInv
<1>1. ASSUME NewFrameReady PROVE NewestFrameKept'
  BY <1>0, <1>1 DEF NewFrameReady, Make, NewestFrameKept
<1>2. ASSUME VideoIsDown PROVE NewestFrameKept'
  BY <1>0, <1>2 DEF VideoIsDown, Make, NewestFrameKept
<1>3. ASSUME SaveFrame PROVE NewestFrameKept'
  BY <1>0, <1>3 DEF SaveFrame, NewestFrameKept
<1>4. ASSUME SendOnClosed PROVE NewestFrameKept'
  BY <1>0, <1>4 DEF SendOnClosed, NewestFrameKept
<1>5. ASSUME EndUpdate PROVE NewestFrameKept'
  BY <1>0, <1>5 DEF EndUpdate, NewestFrameKept
<1>6. ASSUME EndSession PROVE NewestFrameKept'
  BY <1>0, <1>6 DEF EndSession, NewestFrameKept
<1>7. ASSUME NEW v \in Viewers, NextViewer(v) PROVE NewestFrameKept'
  BY <1>0, <1>7 DEF NextViewer, LoopOver, NewestFrameKept
<1>8. ASSUME NEW v \in Viewers, Buffer(v) PROVE NewestFrameKept'
  BY <1>0, <1>8 DEF Buffer, Overrun, Newest, Receives, NewestFrameKept
<1>9. ASSUME NEW v \in Viewers, Join(v) PROVE NewestFrameKept'
  BY <1>0, <1>9 DEF Join, Connecting, NewestFrameKept
<1>10. ASSUME NEW v \in Viewers, Ask(v) PROVE NewestFrameKept'
  BY <1>0, <1>10 DEF Ask, NewestFrameKept
<1>11. ASSUME NEW v \in Viewers, Request(v) PROVE NewestFrameKept'
  BY <1>0, <1>11 DEF Request, NewestFrameKept
<1>12. ASSUME NEW v \in Viewers, HandOver(v) PROVE NewestFrameKept'
  BY <1>0, <1>12 DEF HandOver, HandedOver, NewestFrameKept
<1>13. ASSUME NEW v \in Viewers, Written(v) PROVE NewestFrameKept'
  BY <1>0, <1>13 DEF Written, Spent, NewestFrameKept
<1>14. ASSUME NEW v \in Viewers, HangUp(v) PROVE NewestFrameKept'
  BY <1>0, <1>14 DEF HangUp, NewestFrameKept
<1>15. ASSUME NEW v \in Viewers, StopBuffering(v) PROVE NewestFrameKept'
  BY <1>0, <1>15 DEF StopBuffering, LastFrame, NewestFrameKept
<1>16. ASSUME NEW v \in Viewers, StopWriting(v) PROVE NewestFrameKept'
  BY <1>0, <1>16 DEF StopWriting, NewestFrameKept
<1>17. ASSUME NEW v \in Viewers, Teardown(v) PROVE NewestFrameKept'
  BY <1>0, <1>17 DEF Teardown, NewestFrameKept
<1> QED
  BY <1>1, <1>2, <1>3, <1>4, <1>5, <1>6, <1>7, <1>8, <1>9, <1>10, <1>11, <1>12, <1>13, <1>14,
     <1>15, <1>16, <1>17 DEF Next, VideoUpdate, Viewer

(* Every step keeps the balance of the requests of a browser.              *)
LEMMA UnaskedStep ==
  ASSUME FrameInv, Next
  PROVE  NeverUnasked'
<1>0. /\ NeverUnasked
      /\ command \in [Viewers -> {"new", "read", "request", "stop", "stopped", "gone"}]
      /\ pendingVideoUpdates \in [Viewers -> Nat]
      /\ asked \in [Viewers -> 0 .. MaxAsked] /\ sent \in [Viewers -> Nat] /\ MaxAsked \in Nat
  BY FrameAssumption DEF FrameInv, TypeOK
<1>1. ASSUME NewFrameReady PROVE NeverUnasked'
  BY <1>0, <1>1 DEF NewFrameReady, Make, NeverUnasked
<1>2. ASSUME VideoIsDown PROVE NeverUnasked'
  BY <1>0, <1>2 DEF VideoIsDown, Make, NeverUnasked
<1>3. ASSUME SaveFrame PROVE NeverUnasked'
  BY <1>0, <1>3 DEF SaveFrame, NeverUnasked
<1>4. ASSUME SendOnClosed PROVE NeverUnasked'
  BY <1>0, <1>4 DEF SendOnClosed, NeverUnasked
<1>5. ASSUME EndUpdate PROVE NeverUnasked'
  BY <1>0, <1>5 DEF EndUpdate, NeverUnasked
<1>6. ASSUME EndSession PROVE NeverUnasked'
  BY <1>0, <1>6 DEF EndSession, NeverUnasked
<1>7. ASSUME NEW v \in Viewers, NextViewer(v) PROVE NeverUnasked'
  BY <1>0, <1>7 DEF NextViewer, LoopOver, NeverUnasked
<1>8. ASSUME NEW v \in Viewers, Buffer(v) PROVE NeverUnasked'
  BY <1>0, <1>8 DEF Buffer, Overrun, Newest, Receives, NeverUnasked
<1>9. ASSUME NEW v \in Viewers, Join(v) PROVE NeverUnasked'
  BY <1>0, <1>9 DEF Join, NeverUnasked
<1>10. ASSUME NEW v \in Viewers, Ask(v) PROVE NeverUnasked'
  BY <1>0, <1>10 DEF Ask, NeverUnasked
<1>11. ASSUME NEW v \in Viewers, Request(v) PROVE NeverUnasked'
  <2> SUFFICES ASSUME NEW u \in Viewers
               PROVE  asked[u] = sent[u] + pendingVideoUpdates'[u] + (IF command'[u] = "request" THEN 1 ELSE 0)
    BY <1>11 DEF Request, NeverUnasked
  <2>1. asked[u] = sent[u] + pendingVideoUpdates[u] + (IF command[u] = "request" THEN 1 ELSE 0)
    BY <1>0 DEF NeverUnasked
  <2>2. CASE u = v
    <3>1. pendingVideoUpdates'[u] = pendingVideoUpdates[u] + 1 /\ command[u] = "request" /\ command'[u] = "read"
      BY <1>0, <1>11, <2>2 DEF Request
    <3> QED BY <1>0, <2>1, <3>1
  <2>3. CASE u # v
    BY <1>0, <1>11, <2>1, <2>3 DEF Request
  <2> QED BY <2>2, <2>3
<1>12. ASSUME NEW v \in Viewers, HandOver(v) PROVE NeverUnasked'
  BY <1>0, <1>12 DEF HandOver, HandedOver, NeverUnasked
<1>13. ASSUME NEW v \in Viewers, Written(v) PROVE NeverUnasked'
  BY <1>0, <1>13 DEF Written, Spent, NeverUnasked
<1>14. ASSUME NEW v \in Viewers, HangUp(v) PROVE NeverUnasked'
  BY <1>0, <1>14 DEF HangUp, NeverUnasked
<1>15. ASSUME NEW v \in Viewers, StopBuffering(v) PROVE NeverUnasked'
  BY <1>0, <1>15 DEF StopBuffering, LastFrame, NeverUnasked
<1>16. ASSUME NEW v \in Viewers, StopWriting(v) PROVE NeverUnasked'
  BY <1>0, <1>16 DEF StopWriting, NeverUnasked
<1>17. ASSUME NEW v \in Viewers, Teardown(v) PROVE NeverUnasked'
  BY <1>0, <1>17 DEF Teardown, NeverUnasked
<1> QED
  BY <1>1, <1>2, <1>3, <1>4, <1>5, <1>6, <1>7, <1>8, <1>9, <1>10, <1>11, <1>12, <1>13, <1>14,
     <1>15, <1>16, <1>17 DEF Next, VideoUpdate, Viewer

-----------------------------------------------------------------------------
LEMMA FrameInvInit == Init => FrameInv
<1> SUFFICES ASSUME Init PROVE FrameInv
  OBVIOUS
<1>1. TypeOK
  BY FrameAssumption DEF Init, TypeOK, Frames, FrameOrNil, Connecting
<1>2. RefcountExact
  <2>1. \A f \in Frames : Holders(f) = {}
    BY DEF Init, Holders, Frames, Connecting, NoFrame
  <2> QED BY <2>1, HoldersCounted DEF RefcountExact, Init
<1>3. ReaderInv /\ FreeInv
  BY DEF Init, ReaderInv, FreeInv, NoFrame
<1>4. ASSUME NEW v \in Viewers PROVE ViewerInv(v) /\ OrderInv(v)
  BY <1>4 DEF Init, ViewerInv, OrderInv, NoFrame
<1>5. NewestFrameKept /\ NeverUnasked
  BY DEF Init, NewestFrameKept, NeverUnasked
<1> QED BY <1>1, <1>2, <1>3, <1>4, <1>5 DEF FrameInv

LEMMA FrameInvStep == FrameInv /\ [Next]_vars => FrameInv'
<1>1. ASSUME FrameInv, Next PROVE FrameInv'
  BY <1>1, TypeStep, ReaderStep, CountStep, FreeStep, ViewerStep, OrderStep, NewestStep, UnaskedStep
     DEF FrameInv
<1>2. ASSUME FrameInv, UNCHANGED vars PROVE FrameInv'
  BY <1>2 DEF vars, FrameInv, TypeOK, ReaderInv, RefcountExact, FreeInv, ViewerInv, OrderInv, Served,
              NewestFrameKept, NeverUnasked, Holders
<1> QED BY <1>1, <1>2

(* The inductive invariant: what the reader and a viewer hold at each of   *)
(* their steps, the counts of it, and the order of a viewer's frames.      *)
THEOREM FrameInvariance == Spec => []FrameInv
BY FrameInvInit, FrameInvStep, PTL DEF Spec

(* acquire and release in drac.go, vnc.go and frame.go balance: the count  *)
(* of a frame is the number of places that hold it.                        *)
THEOREM CountIsExact == Spec => []RefcountExact
<1>1. FrameInv => RefcountExact
  BY DEF FrameInv
<1> QED BY <1>1, FrameInvariance, PTL

(* Nobody holds a frame that was given to cFree.                           *)
LEMMA FreedIsUnheld == FrameInv => NoFrameUsedAfterFree
<1> SUFFICES ASSUME FrameInv, NEW f \in freed PROVE Holders(f) = {}
  BY DEF NoFrameUsedAfterFree
<1>1. f \in inC /\ f \in Frames
  BY DEF FrameInv, TypeOK
<1>2. refcount[f] = 0
  BY <1>1 DEF FrameInv, FreeInv
<1> QED BY <1>1, <1>2, HeldIsCounted DEF FrameInv

(* No frame is read after cFree; the newest one is on its way to every     *)
(* viewer the reader has served; a browser is sent only what it asked for. *)
THEOREM Delivery == Spec => []DeliveryInv
<1>1. FrameInv => DeliveryInv
  BY FreedIsUnheld DEF FrameInv, DeliveryInv
<1> QED BY <1>1, FrameInvariance, PTL

(* A session that is over has given all its C memory back.                 *)
THEOREM NoFrameLeaks == Spec => []EveryFrameFreed
<1>1. FrameInv => EveryFrameFreed
  <2> SUFFICES ASSUME FrameInv, reader = "over",
                      \A v \in Viewers : command[v] = "new" \/ (command[v] = "gone" /\ writer[v] = "off")
               PROVE  freed = inC
    BY DEF EveryFrameFreed
  <2>1. frame = NoFrame /\ lastPngFrame = NoFrame
    BY DEF FrameInv, ReaderInv
  <2>2. \A v \in Viewers : buffer[v] = NoFrame /\ writing[v] = NoFrame
    BY DEF FrameInv, ViewerInv
  <2>3. ASSUME NEW f \in inC PROVE refcount[f] = 0
    <3>1. f \in Frames /\ f # NoFrame
      BY <2>3, FrameAssumption DEF FrameInv, TypeOK, Frames, NoFrame, Connecting
    <3>2. Holders(f) = {}
      BY <2>1, <2>2, <3>1 DEF Holders
    <3>3. refcount[f] = Count(f) /\ Count(f) = 0
      BY <3>1, <3>2, HoldersCounted DEF FrameInv, RefcountExact
    <3> QED BY <3>3
  <2> QED BY <2>3 DEF FrameInv, FreeInv, TypeOK
<1> QED BY <1>1, FrameInvariance, PTL

-----------------------------------------------------------------------------
(* The refinement.  What a viewer is owed, has taken and whether it takes  *)
(* frames, as LatestFrame sees them.                                       *)
credit == [v \in Viewers |-> pendingVideoUpdates[v] - (IF writer[v] = "write" THEN 1 ELSE 0)]
seen == [v \in Viewers |-> Taken(v)]
open == [v \in Viewers |-> buffering[v] = "on"]
SlotNext == Slot!Next \/ UNCHANGED Slot!vars

LEMMA SlotStep == FrameInv /\ [Next]_vars => SlotNext
<1> SUFFICES ASSUME FrameInv, [Next]_vars PROVE SlotNext
  OBVIOUS
<1>0. /\ ReaderInv /\ \A v \in Viewers : ViewerInv(v) /\ OrderInv(v)
      /\ made \in Nat /\ frame \in FrameOrNil /\ NoFrame = -1
      /\ buffer \in [Viewers -> FrameOrNil] /\ writing \in [Viewers -> FrameOrNil]
      /\ shown \in [Viewers -> FrameOrNil] /\ buffering \in [Viewers -> {"on", "stopping", "off"}]
      /\ writer \in [Viewers -> {"wait", "ready", "write", "off"}]
      /\ pendingVideoUpdates \in [Viewers -> Nat]
  BY DEF FrameInv, TypeOK, NoFrame
<1>s. ASSUME buffer' = buffer, credit' = credit, seen' = seen, open' = open PROVE SlotNext
  BY <1>s DEF SlotNext, Slot!vars, credit, seen, open
<1> USE DEF SlotNext
<1>1. ASSUME NewFrameReady PROVE SlotNext
  <2>1. buffer' = buffer /\ credit' = credit /\ seen' = seen /\ open' = open
    BY <1>0, <1>1 DEF NewFrameReady, Make, credit, seen, open, Taken
  <2> QED BY <2>1, <1>s
<1>2. ASSUME VideoIsDown PROVE SlotNext
  <2>1. buffer' = buffer /\ credit' = credit /\ seen' = seen /\ open' = open
    BY <1>0, <1>2 DEF VideoIsDown, Make, credit, seen, open, Taken
  <2> QED BY <2>1, <1>s
<1>3. ASSUME SaveFrame PROVE SlotNext
  <2>1. buffer' = buffer /\ credit' = credit /\ seen' = seen /\ open' = open
    BY <1>0, <1>3 DEF SaveFrame, credit, seen, open, Taken
  <2> QED BY <2>1, <1>s
<1>4. ASSUME SendOnClosed PROVE SlotNext
  <2>1. buffer' = buffer /\ credit' = credit /\ seen' = seen /\ open' = open
    BY <1>0, <1>4 DEF SendOnClosed, credit, seen, open, Taken
  <2> QED BY <2>1, <1>s
<1>5. ASSUME EndUpdate PROVE SlotNext
  <2>1. buffer' = buffer /\ credit' = credit /\ seen' = seen /\ open' = open
    BY <1>0, <1>5 DEF EndUpdate, credit, seen, open, Taken
  <2> QED BY <2>1, <1>s
<1>6. ASSUME EndSession PROVE SlotNext
  <2>1. buffer' = buffer /\ credit' = credit /\ seen' = seen /\ open' = open
    BY <1>0, <1>6 DEF EndSession, credit, seen, open, Taken
  <2> QED BY <2>1, <1>s
<1>7. ASSUME NEW v \in Viewers, NextViewer(v) PROVE SlotNext
  <2>1. buffer' = buffer /\ credit' = credit /\ seen' = seen /\ open' = open
    BY <1>0, <1>7 DEF NextViewer, LoopOver, credit, seen, open, Taken
  <2> QED BY <2>1, <1>s
<1>8. ASSUME NEW v \in Viewers, Buffer(v) PROVE SlotNext
  <2>1. open[v] /\ open' = open /\ credit' = credit /\ seen' = seen
    BY <1>8 DEF Buffer, Receives, open, credit, seen, Taken
  <2>2. buffer' = [buffer EXCEPT ![v] = frame]
    BY <1>8 DEF Buffer, Newest
  <2>3. frame > buffer[v] /\ frame > seen[v] /\ frame \in FrameOrNil
    BY <1>0, <1>8 DEF Buffer, OrderInv, Served, ReaderInv, seen, Taken
  <2>4. Slot!Put(v, frame)
    BY <2>1, <2>2, <2>3 DEF Slot!Put, open, credit, seen
  <2> QED BY <2>3, <2>4 DEF Slot!Next
<1>9. ASSUME NEW v \in Viewers, Join(v) PROVE SlotNext
  <2>1. open' = open /\ credit' = credit /\ seen' = seen
    BY <1>9 DEF Join, open, credit, seen, Taken
  <2>2. CASE lastPngFrame = NoFrame
    <3>1. buffer' = [buffer EXCEPT ![v] = Connecting] /\ open[v]
      BY <1>0, <1>9, <2>2 DEF Join, ViewerInv, open
    <3>2. Connecting > buffer[v] /\ Connecting > seen[v] /\ Connecting \in FrameOrNil
      BY <1>0, <1>9, FrameAssumption DEF Join, ViewerInv, seen, Taken, Connecting, FrameOrNil, Frames
    <3>3. Slot!Put(v, Connecting)
      BY <2>1, <3>1, <3>2 DEF Slot!Put, open, credit, seen
    <3> QED BY <3>2, <3>3 DEF Slot!Next
  <2>3. CASE lastPngFrame # NoFrame
    BY <1>9, <2>1, <2>3, <1>s DEF Join
  <2> QED BY <2>2, <2>3
<1>10. ASSUME NEW v \in Viewers, Ask(v) PROVE SlotNext
  <2>1. buffer' = buffer /\ credit' = credit /\ seen' = seen /\ open' = open
    BY <1>0, <1>10 DEF Ask, credit, seen, open, Taken
  <2> QED BY <2>1, <1>s
<1>11. ASSUME NEW v \in Viewers, Request(v) PROVE SlotNext
  <2>1. credit' = [credit EXCEPT ![v] = @ + 1]
    <3> SUFFICES ASSUME NEW u \in Viewers PROVE credit'[u] = [credit EXCEPT ![v] = @ + 1][u]
      BY DEF credit
    <3>1. CASE u = v
      BY <1>0, <1>11, <3>1 DEF Request, credit
    <3>2. CASE u # v
      BY <1>0, <1>11, <3>2 DEF Request, credit
    <3> QED BY <3>1, <3>2
  <2>2. buffer' = buffer /\ seen' = seen /\ open' = open
    BY <1>0, <1>11 DEF Request, seen, open, Taken
  <2>3. Slot!Ask(v)
    BY <2>1, <2>2 DEF Slot!Ask, open, credit, seen
  <2> QED BY <2>3 DEF Slot!Next
<1>12. ASSUME NEW v \in Viewers, HandOver(v) PROVE SlotNext
  <2>1. open[v] /\ open' = open /\ buffer[v] # NoFrame
    BY <1>12 DEF HandOver, open
  <2>2. credit[v] > 0 /\ credit' = [credit EXCEPT ![v] = @ - 1]
    <3>1. credit[v] > 0
      BY <1>0, <1>12 DEF HandOver, credit, ViewerInv
    <3> SUFFICES ASSUME NEW u \in Viewers PROVE credit'[u] = [credit EXCEPT ![v] = @ - 1][u]
      BY <3>1 DEF credit
    <3>2. CASE u = v
      BY <1>0, <1>12, <3>2 DEF HandOver, credit
    <3>3. CASE u # v
      BY <1>0, <1>12, <3>3 DEF HandOver, credit
    <3> QED BY <3>2, <3>3
  <2>3. seen' = [seen EXCEPT ![v] = buffer[v]] /\ buffer' = [buffer EXCEPT ![v] = NoFrame]
    BY <1>0, <1>12 DEF HandOver, HandedOver, seen, Taken
  <2>4. Slot!Take(v)
    BY <2>1, <2>2, <2>3 DEF Slot!Take, open, credit, seen
  <2> QED BY <2>4 DEF Slot!Next
<1>13. ASSUME NEW v \in Viewers, Written(v) PROVE SlotNext
  <2>1. buffer' = buffer /\ open' = open
    BY <1>13 DEF Written, open
  <2>2. credit' = credit
    BY <1>0, <1>13 DEF Written, Spent, credit
  <2>3. seen' = seen
    BY <1>0, <1>13 DEF Written, seen, Taken
  <2> QED BY <2>1, <2>2, <2>3, <1>s
<1>14. ASSUME NEW v \in Viewers, HangUp(v) PROVE SlotNext
  <2>1. buffer' = buffer /\ credit' = credit /\ seen' = seen /\ open' = open
    BY <1>0, <1>14 DEF HangUp, credit, seen, open, Taken
  <2> QED BY <2>1, <1>s
<1>15. ASSUME NEW v \in Viewers, StopBuffering(v) PROVE SlotNext
  <2>1. open[v] /\ open' = [open EXCEPT ![v] = FALSE]
    BY <1>0, <1>15 DEF StopBuffering, open, ViewerInv
  <2>2. buffer' = [buffer EXCEPT ![v] = NoFrame] /\ credit' = credit /\ seen' = seen
    BY <1>15 DEF StopBuffering, credit, seen, Taken
  <2>3. Slot!Close(v)
    BY <2>1, <2>2 DEF Slot!Close, open, credit, seen
  <2> QED BY <2>3 DEF Slot!Next
<1>16. ASSUME NEW v \in Viewers, StopWriting(v) PROVE SlotNext
  <2>1. buffer' = buffer /\ open' = open
    BY <1>0, <1>16 DEF StopWriting, open
  <2>2. credit' = credit /\ seen' = seen
    BY <1>0, <1>16 DEF StopWriting, credit, seen, Taken
  <2> QED BY <2>1, <2>2, <1>s
<1>17. ASSUME NEW v \in Viewers, Teardown(v) PROVE SlotNext
  <2>1. buffer' = buffer /\ credit' = credit /\ seen' = seen /\ open' = open
    BY <1>0, <1>17 DEF Teardown, credit, seen, open, Taken
  <2> QED BY <2>1, <1>s
<1>18. ASSUME UNCHANGED vars PROVE SlotNext
  BY <1>18, <1>s DEF vars, credit, seen, open, Taken
<1> QED
  BY <1>1, <1>2, <1>3, <1>4, <1>5, <1>6, <1>7, <1>8, <1>9, <1>10, <1>11, <1>12, <1>13, <1>14,
     <1>15, <1>16, <1>17, <1>18 DEF Next, VideoUpdate, Viewer

(* bufferedVideoWriter and videoWriter keep the promise of their comment:  *)
(* each viewer has a slot for the latest frame, whatever the others do.    *)
THEOREM LatestFrameImplemented == Spec => ImplementsLatestFrame
<1>1. Init => Slot!Init
  <2> SUFFICES ASSUME Init PROVE Slot!Init
    OBVIOUS
  <2>1. credit = [v \in Viewers |-> 0]
    BY DEF Init, credit
  <2>2. seen = [v \in Viewers |-> NoFrame] /\ open = [v \in Viewers |-> TRUE]
    BY DEF Init, seen, open, Taken
  <2> QED BY <2>1, <2>2 DEF Init, Slot!Init, credit, seen, open
<1>2. FrameInv /\ [Next]_vars => [Slot!Next]_(Slot!vars)
  BY SlotStep DEF SlotNext
<1> QED BY <1>1, <1>2, FrameInvariance, PTL DEF Spec, Slot!Spec, ImplementsLatestFrame

-----------------------------------------------------------------------------
(* From here on: Pictures.                                                 *)

-----------------------------------------------------------------------------
(* The pictures for the animation.                                         *)
Pixels == UNION {[1 .. n -> Colors \cup {Gray}] : n \in Nat}

Frame == [picture : Pixels, ts : Nat]

InOrder(list) == \A i, j \in 1 .. Len(list) : i <= j => list[i].ts <= list[j].ts

AnimationInv ==
  /\ now \in 0 .. MaxTime
  /\ saved \in Seq(Frame) /\ InOrder(saved)
  /\ \A i \in 1 .. Len(saved) : saved[i].ts <= now
  /\ saved = <<>> => animatedFrameList = <<>>
  /\ KeepsWindow

(* What is left of the list when the old ones are dropped from the front.  *)
LEMMA DropOldProperties ==
  ASSUME NEW list \in Seq(Frame), list # <<>>
  PROVE  \E m \in 1 .. Len(list) :
           /\ DropOld(list) = SubSeq(list, m, Len(list))
           /\ m = Len(list) \/ ~Old(list[m])
           /\ \A i \in 1 .. m - 1 : Old(list[i])
<1> DEFINE stays == {i \in DOMAIN list : i = Len(list) \/ ~Old(list[i])}
           first == CHOOSE i \in stays : \A j \in stays : i <= j
<1>1. Len(list) \in Nat \ {0} /\ DOMAIN list = 1 .. Len(list)
  BY EmptySeq, LenProperties
<1>2. stays \subseteq Nat /\ Len(list) \in stays /\ stays \subseteq 1 .. Len(list)
  BY <1>1
<1> HIDE DEF stays
<1>3. first \in stays /\ \A j \in stays : first <= j
  <2>1. \E m \in stays : \A k \in stays : m <= k
    BY <1>2, Smallest
  <2> QED BY <2>1
<1>4. DropOld(list) = SubSeq(list, first, Len(list))
  BY DEF DropOld, stays
<1> HIDE DEF first
<1> PICK m \in 1 .. Len(list) : m = first
  BY <1>2, <1>3
<1>5. m = Len(list) \/ ~Old(list[m])
  BY <1>3 DEF stays
<1>6. ASSUME NEW i \in 1 .. m - 1 PROVE Old(list[i])
  <2> PICK n \in Nat : n = Len(list)
    BY <1>1
  <2>1. i < m /\ i \in 1 .. n /\ i # n
    OBVIOUS
  <2>2. i \notin stays
    <3>1. ~(m <= i)
      BY <2>1
    <3> QED BY <1>3, <3>1
  <2> QED BY <1>1, <2>1, <2>2 DEF stays
<1> QED BY <1>4, <1>5, <1>6

(* The part of a list from a place on.                                     *)
LEMMA TailPart ==
  ASSUME NEW S, NEW s \in Seq(S), NEW k \in 1 .. Len(s)
  PROVE  /\ SubSeq(s, k, Len(s)) \in Seq(S) /\ Len(SubSeq(s, k, Len(s))) = Len(s) - k + 1
         /\ \A i \in 1 .. Len(s) - k + 1 : SubSeq(s, k, Len(s))[i] = s[k + i - 1]
<1>1. Len(s) \in Nat /\ \A i \in k .. Len(s) : s[i] \in S
  BY LenProperties
<1> QED BY <1>1, SubSeqProperties

LEMMA PartOfAppend ==
  ASSUME NEW S, NEW s \in Seq(S), NEW e \in S, NEW k \in 1 .. Len(s)
  PROVE  Append(SubSeq(s, k, Len(s)), e) = SubSeq(Append(s, e), k, Len(s) + 1)
<1> DEFINE part == SubSeq(s, k, Len(s))
           more == Append(s, e)
<1> PICK n \in Nat : n = Len(s)
  BY LenProperties
<1>1. part \in Seq(S) /\ Len(part) = n - k + 1 /\ \A i \in 1 .. n - k + 1 : part[i] = s[k + i - 1]
  BY TailPart
<1>2. /\ more \in Seq(S) /\ Len(more) = n + 1 /\ more[n + 1] = e
      /\ \A i \in 1 .. n : more[i] = s[i]
  BY AppendProperties
<1> HIDE DEF part, more
<1> DEFINE left  == Append(part, e)
           right == SubSeq(more, k, n + 1)
<1>3. /\ left \in Seq(S) /\ Len(left) = n - k + 2 /\ left[n - k + 2] = e
      /\ \A i \in 1 .. n - k + 1 : left[i] = part[i]
  <2>0. n - k + 1 \in Nat
    OBVIOUS
  <2> PICK l \in Nat : l = n - k + 1
    BY <2>0
  <2>1. part \in Seq(S) /\ Len(part) = l
    BY <1>1
  <2>2. /\ left \in Seq(S) /\ Len(left) = l + 1 /\ left[l + 1] = e
        /\ \A i \in 1 .. l : left[i] = part[i]
    BY <2>1, AppendProperties
  <2>3. l + 1 = n - k + 2
    OBVIOUS
  <2> QED BY <2>2, <2>3
<1>4. k \in 1 .. Len(more)
  BY <1>2
<1>5. right \in Seq(S) /\ Len(right) = n + 1 - k + 1 /\ \A i \in 1 .. n + 1 - k + 1 : right[i] = more[k + i - 1]
  BY <1>2, <1>4, TailPart
<1> HIDE DEF left, right
<1>6. ASSUME NEW i \in 1 .. n - k + 2 PROVE left[i] = right[i]
  <2>1. CASE i = n - k + 2
    <3>1. k + i - 1 = n + 1 /\ i \in 1 .. n + 1 - k + 1
      BY <2>1
    <3> QED BY <1>2, <1>3, <1>5, <2>1, <3>1
  <2>2. CASE i \in 1 .. n - k + 1
    <3>1. k + i - 1 \in 1 .. n /\ i \in 1 .. n + 1 - k + 1
      BY <2>2
    <3> QED BY <1>1, <1>2, <1>3, <1>5, <2>2, <3>1
  <2> QED BY <2>1, <2>2
<1>7. n - k + 2 = n + 1 - k + 1
  OBVIOUS
<1>8. left = right
  BY <1>3, <1>5, <1>6, <1>7, SeqEqual
<1> QED BY <1>8 DEF left, right, part, more

(* saveFrameForAnimation keeps the window.                                 *)
LEMMA SaveFrameKeeps ==
  ASSUME AnimationInv, NEW picture \in Pixels, SaveFrameForAnimation(picture)
  PROVE  /\ AnimationInv' /\ saved' # <<>>
         /\ animatedFrameList' # <<>> /\ Last(animatedFrameList').picture = picture
<1>0. /\ now \in Nat /\ now \in 0 .. MaxTime /\ Window \in Nat
      /\ saved \in Seq(Frame) /\ InOrder(saved)
      /\ \A i \in 1 .. Len(saved) : saved[i].ts <= now
      /\ saved = <<>> => animatedFrameList = <<>>
  BY WindowAssumption DEF AnimationInv
<1> PICK e \in Frame : e = [picture |-> picture, ts |-> now]
  BY <1>0 DEF Frame
<1> PICK n \in Nat : n = Len(saved)
  BY <1>0, LenProperties
<1>1. /\ now' = now /\ saved' = Append(saved, e)
      /\ animatedFrameList' = DropOld(Append(animatedFrameList, e))
  BY DEF SaveFrameForAnimation
<1>2. /\ saved' \in Seq(Frame) /\ saved' # <<>> /\ Len(saved') = n + 1 /\ saved'[n + 1] = e
      /\ \A i \in 1 .. n : saved'[i] = saved[i]
  BY <1>0, <1>1, AppendProperties
<1>3. e.picture = picture /\ e.ts = now /\ now \in Nat /\ Window \in Nat
  BY <1>0
<1>4. \A i \in 1 .. n : saved[i] \in Frame /\ saved[i].ts \in Nat /\ saved[i].ts <= now
  <2>1. \A i \in 1 .. n : saved[i] \in Frame
    BY <1>0
  <2> QED BY <1>0, <2>1 DEF Frame
<1>5. \E k \in 1 .. n + 1 :
        /\ Append(animatedFrameList, e) = SubSeq(saved', k, n + 1)
        /\ \A i \in 1 .. n : i < k => now - saved[i].ts > Window
  <2>1. CASE saved = <<>>
    <3>1. n = 0 /\ animatedFrameList = saved
      BY <1>0, <2>1, EmptySeq
    <3>2. Append(animatedFrameList, e) = SubSeq(saved', 1, n + 1)
      BY <1>1, <1>2, <3>1, SubSeqFull
    <3> QED BY <3>1, <3>2
  <2>2. CASE saved # <<>>
    <3> PICK k \in DOMAIN saved :
          /\ animatedFrameList = SubSeq(saved, k, Len(saved))
          /\ \A i \in DOMAIN saved : i >= k <=> Last(saved).ts - saved[i].ts <= Window
      BY <2>2 DEF KeepsWindow, AnimationInv
    <3>1. DOMAIN saved = 1 .. n /\ k \in 1 .. n /\ Last(saved) = saved[n] /\ n \in 1 .. n
      BY <1>0, LenProperties DEF Last
    <3>2. Append(animatedFrameList, e) = SubSeq(saved', k, n + 1)
      BY <1>0, <1>1, <3>1, PartOfAppend
    <3>3. ASSUME NEW i \in 1 .. n, i < k PROVE now - saved[i].ts > Window
      <4>1. ~(saved[n].ts - saved[i].ts <= Window)
        BY <3>1, <3>3
      <4>2. saved[n].ts <= now /\ saved[n].ts \in Nat /\ saved[i].ts \in Nat
        BY <1>4, <3>1
      <4> QED BY <1>3, <4>1, <4>2
    <3>4. k \in 1 .. n + 1
      BY <3>1
    <3> QED BY <3>2, <3>3, <3>4
  <2> QED BY <2>1, <2>2
<1>6. PICK k \in 1 .. n + 1 :
      /\ Append(animatedFrameList, e) = SubSeq(saved', k, n + 1)
      /\ \A i \in 1 .. n : i < k => now - saved[i].ts > Window
  BY <1>5
<1> DEFINE list == SubSeq(saved', k, n + 1)
<1>k. n + 1 - k \in Nat
  OBVIOUS
<1> PICK l \in Nat : l = n + 1 - k
  BY <1>k
<1>7. list \in Seq(Frame) /\ Len(list) = l + 1 /\ \A i \in 1 .. l + 1 : list[i] = saved'[k + i - 1]
  <2>1. k \in 1 .. Len(saved') /\ n + 1 - k + 1 = l + 1
    BY <1>2
  <2> QED BY <1>2, <2>1, TailPart
<1>8. animatedFrameList' = DropOld(list) /\ list # <<>>
  <2>1. l + 1 # 0
    OBVIOUS
  <2> QED BY <1>1, <1>6, <1>7, <2>1, EmptySeq
<1> HIDE DEF list
<1>m. PICK m \in 1 .. l + 1 :
      /\ DropOld(list) = SubSeq(list, m, l + 1)
      /\ m = l + 1 \/ ~Old(list[m])
      /\ \A i \in 1 .. m - 1 : Old(list[i])
  BY <1>7, <1>8, DropOldProperties
<1> PICK o \in 1 .. n + 1 : o = k + m - 1
  OBVIOUS
<1>l. list = SubSeq(saved', k, n + 1)
  BY DEF list
<1>9. animatedFrameList' = SubSeq(saved', o, n + 1)
  <2>1. /\ k \in 1 .. Len(saved') /\ n + 1 \in 1 .. Len(saved')
        /\ m \in 1 .. (n + 1) - k + 1 /\ l + 1 \in 1 .. (n + 1) - k + 1
        /\ k + (l + 1) - 1 = n + 1
    BY <1>2
  <2>2. SubSeq(SubSeq(saved', k, n + 1), m, l + 1) = SubSeq(saved', k + m - 1, k + (l + 1) - 1)
    BY <1>2, <2>1, SubSeqOfSubSeq
  <2> QED BY <1>8, <1>l, <1>m, <2>1, <2>2
<1>10. \A i \in 1 .. n + 1 : saved'[i] \in Frame /\ saved'[i].ts \in Nat /\ saved'[i].ts <= now
  <2> SUFFICES ASSUME NEW i \in 1 .. n + 1
               PROVE  saved'[i] \in Frame /\ saved'[i].ts \in Nat /\ saved'[i].ts <= now
    OBVIOUS
  <2>1. CASE i = n + 1
    BY <1>2, <1>3, <2>1
  <2>2. CASE i # n + 1
    <3>1. i \in 1 .. n
      BY <2>2
    <3> QED BY <1>2, <1>4, <3>1
  <2> QED BY <2>1, <2>2
<1>11. InOrder(saved)'
  <2> SUFFICES ASSUME NEW i \in 1 .. n + 1, NEW j \in 1 .. n + 1, i <= j
               PROVE  saved'[i].ts <= saved'[j].ts
    BY <1>2 DEF InOrder
  <2>1. CASE j = n + 1
    BY <1>2, <1>3, <1>10, <2>1
  <2>2. CASE j # n + 1
    <3>1. i \in 1 .. n /\ j \in 1 .. n
      BY <2>2
    <3> QED BY <1>0, <1>2, <3>1 DEF InOrder
  <2> QED BY <2>1, <2>2
<1>12. ASSUME NEW i \in 1 .. n + 1 PROVE i >= o <=> now - saved'[i].ts <= Window
  <2>1. CASE i < k
    <3>1. i \in 1 .. n /\ ~(i >= o)
      BY <2>1
    <3>2. now - saved'[i].ts > Window
      BY <1>2, <1>6, <2>1, <3>1
    <3> PICK t \in Nat : t = saved'[i].ts
      BY <1>10
    <3>3. ~(now - t <= Window)
      BY <1>3, <3>2
    <3> QED BY <3>1, <3>3
  <2>2. CASE k <= i /\ i < o
    <3> PICK d \in Nat : d = i - k
      <4>1. i - k \in Nat
        BY <2>2
      <4> QED BY <4>1
    <3>k. d < m - 1 /\ m - 1 < l + 1
      BY <2>2
    <3>0. i - k + 1 = d + 1 /\ d + 1 \in 1 .. m - 1 /\ d + 1 \in 1 .. l + 1 /\ k + (d + 1) - 1 = i
      BY <3>k
    <3> PICK j \in 1 .. m - 1 : j = d + 1
      BY <3>0
    <3>1. list[j] = saved'[i] /\ Old(list[j])
      BY <1>7, <1>m, <3>0
    <3>2. now - saved'[i].ts > Window
      BY <3>1 DEF Old
    <3> PICK t \in Nat : t = saved'[i].ts
      BY <1>10
    <3>3. ~(now - t <= Window)
      BY <1>3, <3>2
    <3>4. ~(i >= o)
      BY <2>2
    <3> QED BY <3>3, <3>4
  <2>3. CASE o <= i
    <3>0. saved'[o].ts \in Nat /\ saved'[i].ts \in Nat
      BY <1>10
    <3>1. now - saved'[o].ts <= Window
      <4>1. list[m] = saved'[o]
        BY <1>7
      <4>2. CASE m = l + 1
        <5>1. o = n + 1
          BY <4>2
        <5> QED BY <1>2, <1>3, <5>1
      <4>3. CASE ~Old(list[m])
        <5>1. ~(now - saved'[o].ts > Window)
          BY <4>1, <4>3 DEF Old
        <5> PICK t \in Nat : t = saved'[o].ts
          BY <3>0
        <5> QED BY <1>3, <5>1
      <4> QED BY <1>m, <4>2, <4>3
    <3>2. saved'[o].ts <= saved'[i].ts
      BY <1>2, <1>11, <2>3 DEF InOrder
    <3>3. PICK t \in Nat : t = saved'[o].ts
      BY <3>0
    <3>4. PICK u \in Nat : u = saved'[i].ts
      BY <3>0
    <3>5. now - t <= Window /\ t <= u /\ now \in Nat /\ Window \in Nat
      BY <1>3, <3>1, <3>2, <3>3, <3>4
    <3>6. now - u <= Window
      BY <3>5
    <3> QED BY <2>3, <3>4, <3>6
  <2> QED BY <2>1, <2>2, <2>3
<1>13. KeepsWindow'
  <2>1. DOMAIN saved' = 1 .. n + 1 /\ Last(saved') = e /\ o \in DOMAIN saved'
    BY <1>2, LenProperties DEF Last
  <2>2. \A i \in DOMAIN saved' : i >= o <=> Last(saved').ts - saved'[i].ts <= Window
    BY <1>3, <1>12, <2>1
  <2>3. animatedFrameList' = SubSeq(saved', o, Len(saved'))
    BY <1>2, <1>9
  <2> QED BY <2>1, <2>2, <2>3 DEF KeepsWindow
<1>14. animatedFrameList' # <<>> /\ Last(animatedFrameList').picture = picture
  <2>0. n + 1 - o \in Nat
    OBVIOUS
  <2> PICK p \in Nat : p = n + 1 - o
    BY <2>0
  <2>1. /\ animatedFrameList' \in Seq(Frame) /\ Len(animatedFrameList') = p + 1
        /\ animatedFrameList'[p + 1] = saved'[o + (p + 1) - 1]
    <3>0. n + 1 - o + 1 = p + 1 /\ p + 1 \in 1 .. n + 1 - o + 1
      BY <2>0
    <3>1. o \in 1 .. Len(saved')
      BY <1>2
    <3> QED BY <1>2, <1>9, <3>0, <3>1, TailPart
  <2>2. o + (p + 1) - 1 = n + 1
    BY <2>0
  <2>3. Last(animatedFrameList') = e
    BY <1>2, <2>1, <2>2 DEF Last
  <2> QED BY <1>3, <2>1, <2>3, EmptySeq
<1>15. AnimationInv'
  BY <1>0, <1>1, <1>2, <1>10, <1>11, <1>13 DEF AnimationInv
<1> QED BY <1>2, <1>14, <1>15

LEMMA PassKeeps ==
  ASSUME AnimationInv, NEW t \in Steps, Pass(t)
  PROVE  AnimationInv' /\ UNCHANGED <<animatedFrameList, saved>>
<1>1. now \in Nat /\ t \in Nat /\ MaxTime \in Nat
  BY WindowAssumption DEF AnimationInv
<1>2. now' = now + t /\ now + t <= MaxTime /\ animatedFrameList' = animatedFrameList /\ saved' = saved
  BY DEF Pass
<1>3. now' \in 0 .. MaxTime /\ now <= now' /\ now' \in Nat
  BY <1>1, <1>2
<1>4. ASSUME NEW i \in 1 .. Len(saved) PROVE saved[i].ts <= now'
  <2>1. saved[i] \in Frame
    BY DEF AnimationInv
  <2>2. saved[i].ts \in Nat /\ saved[i].ts <= now
    BY <2>1 DEF AnimationInv, Frame
  <2> QED BY <1>1, <1>3, <2>2
<1>5. KeepsWindow'
  BY <1>2 DEF AnimationInv, KeepsWindow
<1> QED BY <1>2, <1>3, <1>4, <1>5 DEF AnimationInv, InOrder

(* The list is in the order of its times, which have passed.               *)
LEMMA ListInOrder ==
  ASSUME AnimationInv
  PROVE  /\ animatedFrameList \in Seq(Frame) /\ InOrder(animatedFrameList)
         /\ \A i \in 1 .. Len(animatedFrameList) :
              animatedFrameList[i].ts \in Nat /\ animatedFrameList[i].ts <= now
<1> USE DEF AnimationInv
<1>1. CASE saved = <<>>
  BY <1>1, EmptySeq DEF InOrder
<1>2. CASE saved # <<>>
  <2> PICK k \in DOMAIN saved : animatedFrameList = SubSeq(saved, k, Len(saved))
    BY <1>2 DEF KeepsWindow
  <2> PICK n \in Nat : n = Len(saved)
    BY LenProperties
  <2>1. DOMAIN saved = 1 .. n /\ saved \in Seq(Frame)
    BY LenProperties
  <2>2. n - k \in Nat
    BY <2>1
  <2> PICK l \in Nat : l = n - k
    BY <2>2
  <2>3. n - k + 1 = l + 1 /\ k \in 1 .. n
    BY <2>1
  <2>4. /\ animatedFrameList \in Seq(Frame) /\ Len(animatedFrameList) = l + 1
        /\ \A i \in 1 .. l + 1 : animatedFrameList[i] = saved[k + i - 1]
    BY <2>1, <2>3, TailPart
  <2>5. ASSUME NEW i \in 1 .. l + 1
        PROVE  /\ k + i - 1 \in 1 .. n
               /\ animatedFrameList[i].ts \in Nat /\ animatedFrameList[i].ts <= now
    <3>1. k + i - 1 \in 1 .. n
      BY <2>3
    <3>2. saved[k + i - 1] \in Frame
      BY <2>1, <3>1
    <3> QED BY <2>4, <3>1, <3>2 DEF Frame
  <2>6. ASSUME NEW i \in 1 .. l + 1, NEW j \in 1 .. l + 1, i <= j
        PROVE  animatedFrameList[i].ts <= animatedFrameList[j].ts
    <3>1. k + i - 1 \in 1 .. n /\ k + j - 1 \in 1 .. n /\ k + i - 1 <= k + j - 1
      BY <2>3, <2>6
    <3> QED BY <2>4, <3>1 DEF InOrder
  <2> QED BY <2>4, <2>5, <2>6 DEF InOrder
<1> QED BY <1>1, <1>2

(* A delay of less than a byte is written as it is.                        *)
LEMMA DelayPlayed ==
  ASSUME NEW d \in 0 .. 255
  PROVE  PlayedDelay(ControlBlock(d)) = d
<1>1. d % 256 = d
  OBVIOUS
<1>2. ControlBlock(d)[2] = d % 256 /\ ControlBlock(d)[3] = 0
  BY DEF ControlBlock
<1> QED BY <1>1, <1>2 DEF PlayedDelay

(* Start is a function that satisfies its equation: the times since the    *)
(* first picture are one, and there is no other.                           *)
LEMMA StartsInTime ==
  ASSUME AnimationInv, animatedFrameList # <<>>,
         \A i \in DOMAIN animatedFrameList : Delay(animatedFrameList, i) < 256
  PROVE  \A i \in 1 .. Len(animatedFrameList) + 1 :
           Start[i] = (IF i <= Len(animatedFrameList) THEN animatedFrameList[i].ts ELSE now)
                      - animatedFrameList[1].ts
<1>1. /\ animatedFrameList \in Seq(Frame) /\ InOrder(animatedFrameList) /\ now \in Nat
      /\ \A i \in 1 .. Len(animatedFrameList) :
           animatedFrameList[i].ts \in Nat /\ animatedFrameList[i].ts <= now
  BY ListInOrder, WindowAssumption DEF AnimationInv
<1> PICK n \in Nat \ {0} : n = Len(animatedFrameList)
  BY <1>1, EmptySeq
<1> DEFINE at(i) == IF i <= n THEN animatedFrameList[i].ts ELSE now
           step(i) == PlayedDelay(ControlBlock(Delay(animatedFrameList, i)))
           f == [i \in 1 .. n + 1 |-> at(i) - at(1)]
           eq(g) == [i \in 1 .. n + 1 |-> IF i = 1 THEN 0 ELSE g[i - 1] + step(i - 1)]
<1>2. \A i \in 1 .. n + 1 : at(i) \in Nat
  BY <1>1
<1>3. ASSUME NEW i \in 1 .. n PROVE step(i) = at(i + 1) - at(i)
  <2>1. Delay(animatedFrameList, i) = at(i + 1) - at(i)
    <3>1. CASE i < n
      BY <3>1 DEF Delay
    <3>2. CASE i = n
      BY <3>2 DEF Delay
    <3> QED BY <3>1, <3>2
  <2>2. at(i) <= at(i + 1)
    <3>1. CASE i < n
      BY <1>1, <3>1 DEF InOrder
    <3>2. CASE i = n
      BY <1>1, <3>2
    <3> QED BY <3>1, <3>2
  <2>3. Delay(animatedFrameList, i) < 256
    BY <1>1, LenProperties
  <2>4. at(i) \in Nat /\ at(i + 1) \in Nat
    BY <1>2
  <2> HIDE DEF at
  <2>5. Delay(animatedFrameList, i) \in 0 .. 255
    <3>1. PICK a \in Nat : a = at(i)
      BY <2>4
    <3>2. PICK b \in Nat : b = at(i + 1)
      BY <2>4
    <3>3. b - a < 256 /\ a <= b
      BY <2>1, <2>2, <2>3, <3>1, <3>2
    <3>4. b - a \in 0 .. 255
      BY <3>3
    <3> QED BY <2>1, <3>1, <3>2, <3>4
  <2> QED BY <2>1, <2>5, DelayPlayed
<1> HIDE DEF at, step
<1>4. f = eq(f)
  <2>1. ASSUME NEW i \in 1 .. n + 1 PROVE f[i] = eq(f)[i]
    <3>1. CASE i = 1
      BY <1>2, <3>1
    <3>2. CASE i # 1
      <4>1. i - 1 \in 1 .. n /\ (i - 1) + 1 = i /\ i - 1 \in 1 .. n + 1
        BY <3>2
      <4>2. step(i - 1) = at(i) - at(i - 1) /\ f[i - 1] = at(i - 1) - at(1)
        BY <1>3, <4>1
      <4>3. at(i) \in Nat /\ at(i - 1) \in Nat /\ at(1) \in Nat
        BY <1>2, <4>1
      <4> QED BY <3>2, <4>2, <4>3
    <3> QED BY <3>1, <3>2
  <2> QED BY <2>1
<1>5. Start = CHOOSE g : g = eq(g)
  BY DEF Start, step
<1> HIDE DEF f, eq
<1>6. Start = eq(Start)
  BY <1>4, <1>5
<1>7. /\ \A i \in 1 .. n + 1 : Start[i] = IF i = 1 THEN 0 ELSE Start[i - 1] + step(i - 1)
      /\ \A i \in 1 .. n + 1 : f[i] = IF i = 1 THEN 0 ELSE f[i - 1] + step(i - 1)
  BY <1>4, <1>6 DEF eq
<1>8. \A i \in 1 .. n + 1 : Start[i] = f[i]
  <2> DEFINE wrong == {i \in 1 .. n + 1 : Start[i] # f[i]}
  <2> SUFFICES ASSUME wrong # {} PROVE FALSE
    OBVIOUS
  <2>1. PICK i \in wrong : \A j \in wrong : i <= j
    <3>1. wrong \subseteq Nat
      OBVIOUS
    <3> QED BY <3>1, Smallest
  <2>2. i # 1
    BY <1>7, <2>1
  <2>3. i - 1 \in 1 .. n + 1 /\ i \in 1 .. n + 1
    BY <2>2
  <2>4. Start[i - 1] = f[i - 1]
    BY <2>1, <2>3
  <2> QED BY <1>7, <2>2, <2>3, <2>4
<1> QED BY <1>8 DEF f, at

-----------------------------------------------------------------------------
(* The commands of a packet.                                               *)
RunOps == {"NC", "CL", "CA"}

Byte ==
  [op : RunOps, arg : 0 .. Base - 1] \cup [op : {"MP"}, color : Colors]
    \cup [op : {"MS", ""}, more : BOOLEAN,
          bits : [1 .. FirstChoices -> BOOLEAN] \cup [1 .. MoreChoices -> BOOLEAN]]

(* What a run shows of pixel i when p are drawn.                           *)
RunShows(op, p, i) ==
  CASE op = "NC" -> Same(i)
    [] op = "CL" -> p > 0 /\ screen.pixels[i] = screen.pixels[p]
    [] op = "CA" -> p >= screen.width /\ screen.pixels[i] = screen.pixels[i - screen.width]

(* The bytes e + 1 .. f are a command that draws the pixels p + 1 .. q.    *)
RunDrawn(e, f, p, q) ==
  \E op \in RunOps, digits \in Digits :
    /\ f = e + Len(digits) /\ q = p + Number(digits) + Bias /\ p < q
    /\ \A k \in 1 .. Len(digits) : packet[e + k].op = op /\ packet[e + k].arg = digits[k]
    /\ f < Len(packet) => packet[f + 1].op # op
    /\ \A i \in p + 1 .. q : RunShows(op, p, i)

PixelDrawn(e, f, p, q) ==
  f = e + 1 /\ q = p + 1 /\ packet[f].op = "MP" /\ packet[f].color = screen.pixels[q]

(* The pixels of the byte k of a choice begin behind this one.             *)
Behind(p, k) == IF k = 0 THEN p ELSE p + FirstChoices + (k - 1) * MoreChoices

InByte(k) == IF k = 0 THEN FirstChoices ELSE MoreChoices

ChoiceDrawn(e, f, p, q) ==
  \E more \in Nat :
    /\ f = e + 1 + more /\ q = Behind(p, more + 1) /\ p > 0
    /\ \A k \in 0 .. more :
         /\ packet[e + 1 + k].op = (IF k = 0 THEN "MS" ELSE "")
         /\ packet[e + 1 + k].more <=> k < more
         /\ \A c \in 1 .. InByte(k) :
              packet[e + 1 + k].bits[c] <=> screen.pixels[Behind(p, k) + c] # screen.pixels[p]
    /\ \A i \in p + 1 .. q : screen.pixels[i] \in {screen.pixels[p], Other(screen.pixels, p)}

Drawn(e, f, p, q) == RunDrawn(e, f, p, q) \/ PixelDrawn(e, f, p, q) \/ ChoiceDrawn(e, f, p, q)

(* The places <<byte, pixel>> between the commands of the packet.          *)
Places(at) ==
  /\ at \subseteq (0 .. Len(packet)) \X (0 .. Area(screen))
  /\ <<0, 0>> \in at /\ <<Len(packet), drawn>> \in at
  /\ \A p \in 0 .. Area(screen) : <<Len(packet), p>> \in at => p = drawn
  /\ \A e \in 0 .. Len(packet) - 1, p \in 0 .. Area(screen) : <<e, p>> \in at =>
       \E f \in e + 1 .. Len(packet), q \in p .. Area(screen) :
         <<f, q>> \in at /\ Drawn(e, f, p, q)

PacketLaid == \E at \in SUBSET (Nat \X Nat) : Places(at) /\ <<bytesRead, pointer>> \in at

IdleInv ==
  /\ packet = <<>> /\ drawn = 0 /\ pointer = 0 /\ bytesRead = 0
  /\ packets > 0 => width = screen.width /\ height = screen.height /\ framebuffer = screen.pixels

DrawingInv ==
  /\ pointer = 0 /\ bytesRead = 0 /\ packets > 0
  /\ packets > 1 => width = before.width /\ height = before.height /\ framebuffer = before.pixels

DecodingInv ==
  /\ packets > 0 /\ width = screen.width /\ height = screen.height
  /\ \A i \in 1 .. pointer : framebuffer[i] = screen.pixels[i]
  /\ \A i \in pointer + 1 .. Area(screen) : Same(i) => framebuffer[i] = screen.pixels[i]
  /\ \A i \in drawn + 1 .. Area(screen) : Same(i)
  /\ dirty \/ \A i \in 1 .. pointer : Same(i)

DecoderInv ==
  /\ DecoderTypeOK /\ width \in Nat /\ height \in Nat
  /\ packet \in Seq(Byte) /\ PacketLaid
  /\ state = "idle" => IdleInv
  /\ state = "drawing" => DrawingInv
  /\ state = "decoding" => DecodingInv

-----------------------------------------------------------------------------
(* Numbers.                                                                *)
LEMMA DivMod ==
  ASSUME NEW n \in Nat, NEW d \in Nat \ {0}
  PROVE  n = d * (n \div d) + (n % d) /\ n % d \in 0 .. d - 1 /\ n \div d \in Nat
OBVIOUS

LEMMA Times ==
  ASSUME NEW a \in Nat, NEW b \in Nat, NEW d \in Nat \ {0}, a < b
  PROVE  a * d \in Nat /\ a * d + d <= b * d
OBVIOUS

LEMMA Horner ==
  ASSUME NEW B \in Nat, NEW a \in Nat, NEW b \in Nat, NEW c \in Nat, NEW d \in Nat, NEW e \in Nat
  PROVE  /\ a + B * (b + B * (c + B * (d + B * e)))
              = a + b * B + c * (B * B) + d * (B * B * B) + e * (B * B * B * B)
         /\ a + B * (b + B * (c + B * (d + B * e))) \in Nat
OBVIOUS

LEMMA MaxIs ==
  ASSUME NEW S, S \subseteq Int, NEW m \in S, \A b \in S : b <= m
  PROVE  Max(S) = m
<1>1. Max(S) \in S /\ \A b \in S : Max(S) >= b
  BY DEF Max
<1>2. PICK n \in Int : n = Max(S)
  BY <1>1
<1>3. n >= m /\ n <= m
  BY <1>1, <1>2
<1>4. n = m
  BY <1>3
<1> QED BY <1>2, <1>4

LEMMA MinIs ==
  ASSUME NEW S, S \subseteq Int, NEW m \in S, \A b \in S : m <= b
  PROVE  Min(S) = m
<1>1. Min(S) \in S /\ \A b \in S : Min(S) =< b
  BY DEF Min
<1>2. PICK n \in Int : n = Min(S)
  BY <1>1
<1>3. n >= m /\ n <= m
  BY <1>1, <1>2
<1>4. n = m
  BY <1>3
<1> QED BY <1>2, <1>4

(* The digits of a run.                                                    *)
LEMMA DigitsType ==
  ASSUME NEW digits \in Digits
  PROVE  /\ Len(digits) \in 1 .. 5 /\ 1 \in 1 .. Len(digits) /\ digits \in Seq(0 .. Base - 1)
         /\ \A k \in 1 .. Len(digits) : digits[k] \in 0 .. Base - 1
         /\ Number(digits) \in Nat
<1>1. PICK n \in 1 .. 5 : digits \in [1 .. n -> 0 .. Base - 1]
  BY DEF Digits
<1>2. n \in Nat
  BY <1>1
<1>3. digits \in Seq(0 .. Base - 1)
  BY <1>1, <1>2, SeqDef
<1>4. Len(digits) = n
  BY <1>1, <1>2, <1>3, LenProperties
<1>5. \A k \in 1 .. Len(digits) : digits[k] \in 0 .. Base - 1
  BY <1>1, <1>4
<1> DEFINE digit(k) == IF k <= Len(digits) THEN digits[k] ELSE 0
<1>6. Base \in Nat
  BY DecoderAssumption
<1>7. \A k \in 1 .. 5 : digit(k) \in Nat
  BY <1>1, <1>4, <1>5, <1>6
<1>8. Number(digits) = digit(1) + Base * (digit(2) + Base * (digit(3) + Base * (digit(4) + Base * digit(5))))
  BY DEF Number
<1> HIDE DEF digit
<1>9. digit(1) \in Nat /\ digit(2) \in Nat /\ digit(3) \in Nat /\ digit(4) \in Nat /\ digit(5) \in Nat
  BY <1>7
<1>10. Number(digits) \in Nat
  BY <1>6, <1>8, <1>9, Horner
<1> QED BY <1>1, <1>3, <1>4, <1>5, <1>10

LEMMA BiasType == Bias \in 0 .. 2
BY DEF Bias

LEMMA UpToFive ==
  ASSUME NEW e \in Nat, NEW n \in 1 .. 5
  PROVE  e + n <= e + 5
OBVIOUS

(* getRunLength finds the end of the run and its length.                   *)
LEMMA RunRead ==
  ASSUME packet \in Seq(Byte), NEW e \in Nat, bytesRead = e, NEW op, NEW digits \in Digits,
         e + Len(digits) <= Len(packet),
         \A k \in 1 .. Len(digits) : packet[e + k].op = op /\ packet[e + k].arg = digits[k],
         e + Len(digits) < Len(packet) => packet[e + Len(digits) + 1].op # op
  PROVE  Command.op = op /\ RunEnd = e + Len(digits) /\ Run = Number(digits) + Bias
<1> PICK n \in 1 .. 5 : n = Len(digits)
  BY DigitsType
<1> PICK m \in Nat : m = Len(packet)
  BY LenProperties
<1>1. Command.op = op
  BY DEF Command
<1> DEFINE S == {b \in bytesRead + 1 .. Len(packet) :
                   b <= bytesRead + 5 /\ \A c \in bytesRead + 1 .. b : packet[c].op = Command.op}
<1>2. e + n \in S
  <2>1. ASSUME NEW c \in e + 1 .. e + n PROVE packet[c].op = op
    <3>1. c - e \in 1 .. n /\ e + (c - e) = c
      BY <2>1
    <3> QED BY <3>1
  <2>2. e + n \in e + 1 .. m
    <3>1. e + 1 <= e + n /\ e + n <= m
      OBVIOUS
    <3> QED BY <3>1
  <2>3. e + n <= e + 5
    BY UpToFive
  <2> QED BY <1>1, <2>1, <2>2, <2>3
<1>3. ASSUME NEW b \in S PROVE b <= e + n
  <2>1. SUFFICES ASSUME b > e + n PROVE FALSE
    OBVIOUS
  <2>2. e + n + 1 \in e + 1 .. b /\ e + n < m
    BY <2>1
  <2>3. packet[e + n + 1].op = op
    BY <1>1, <1>3, <2>2
  <2> QED BY <2>2, <2>3
<1>4. S \subseteq Int
  OBVIOUS
<1>5. RunEnd = Max(S)
  BY DEF RunEnd
<1> HIDE DEF S
<1>6. RunEnd = e + n
  BY <1>2, <1>3, <1>4, <1>5, MaxIs
<1> DEFINE arg(k) == IF bytesRead + k <= RunEnd THEN packet[bytesRead + k].arg ELSE 0
           digit(k) == IF k <= Len(digits) THEN digits[k] ELSE 0
<1>7. ASSUME NEW k \in 1 .. 5 PROVE arg(k) = digit(k) /\ digit(k) \in Nat
  <2>1. CASE k <= n
    <3>1. k \in 1 .. Len(digits)
      BY <2>1
    <3>2. digits[k] \in 0 .. Base - 1 /\ Base \in Nat
      BY <3>1, DigitsType, DecoderAssumption
    <3> QED BY <1>6, <3>1, <3>2, <2>1
  <2>2. CASE k > n
    BY <1>6, <2>2
  <2> QED BY <2>1, <2>2
<1>8. Run = arg(1) + arg(2) * Base + arg(3) * (Base * Base) + arg(4) * (Base * Base * Base)
              + arg(5) * (Base * Base * Base * Base) + Bias
  BY DEF Run
<1>9. Number(digits) = digit(1) + Base * (digit(2) + Base * (digit(3) + Base * (digit(4) + Base * digit(5))))
  BY DEF Number
<1> HIDE DEF arg, digit
<1>10. /\ arg(1) = digit(1) /\ arg(2) = digit(2) /\ arg(3) = digit(3) /\ arg(4) = digit(4) /\ arg(5) = digit(5)
       /\ digit(1) \in Nat /\ digit(2) \in Nat /\ digit(3) \in Nat /\ digit(4) \in Nat /\ digit(5) \in Nat
  BY <1>7
<1>11. Base \in Nat
  BY DecoderAssumption
<1>12. Number(digits) = digit(1) + digit(2) * Base + digit(3) * (Base * Base)
                          + digit(4) * (Base * Base * Base) + digit(5) * (Base * Base * Base * Base)
  <2> PICK d1 \in Nat, d2 \in Nat, d3 \in Nat, d4 \in Nat, d5 \in Nat :
        digit(1) = d1 /\ digit(2) = d2 /\ digit(3) = d3 /\ digit(4) = d4 /\ digit(5) = d5
    BY <1>10
  <2>1. d1 + Base * (d2 + Base * (d3 + Base * (d4 + Base * d5)))
          = d1 + d2 * Base + d3 * (Base * Base) + d4 * (Base * Base * Base) + d5 * (Base * Base * Base * Base)
    BY <1>11, Horner
  <2> QED BY <1>9, <2>1
<1>13. Run = Number(digits) + Bias
  BY <1>8, <1>10, <1>12
<1> QED BY <1>1, <1>6, <1>13

-----------------------------------------------------------------------------
(* The commands of the packet, read one after the other.                   *)
LEMMA ScreenType ==
  ASSUME NEW s \in Screens
  PROVE  /\ s.width \in Nat \ {0} /\ s.height \in Nat \ {0} /\ Area(s) \in Nat \ {0}
         /\ Area(s) = s.width * s.height
         /\ s.pixels \in [1 .. Area(s) -> Colors]
<1>1. s.width \in Nat \ {0} /\ s.height \in Nat \ {0} /\ s.pixels \in [1 .. Area(s) -> Colors]
  BY ScreenAssumption
<1>2. PICK w \in Nat \ {0}, h \in Nat \ {0} : w = s.width /\ h = s.height
  BY <1>1
<1>3. w * h \in Nat \ {0}
  OBVIOUS
<1>4. Area(s) = s.width * s.height
  BY DEF Area
<1> QED BY <1>1, <1>2, <1>3, <1>4

LEMMA PlacesKept ==
  ASSUME UNCHANGED <<before, screen, drawn, packet, codec, packets>>, NEW at, Places(at)
  PROVE  Places(at)'
<1>1. /\ before' = before /\ screen' = screen /\ drawn' = drawn /\ packet' = packet /\ codec' = codec
      /\ packets' = packets
  OBVIOUS
<1>2. \A i : Same(i)' <=> Same(i)
  BY <1>1 DEF Same, SameSize
<1>3. \A op, p, i : RunShows(op, p, i)' <=> RunShows(op, p, i)
  BY <1>1, <1>2 DEF RunShows
<1>4. Bias' = Bias
  BY <1>1 DEF Bias
<1>5. \A e, f, p, q : RunDrawn(e, f, p, q)' <=> RunDrawn(e, f, p, q)
  BY <1>1, <1>3, <1>4 DEF RunDrawn
<1>6. \A e, f, p, q : PixelDrawn(e, f, p, q)' <=> PixelDrawn(e, f, p, q)
  BY <1>1 DEF PixelDrawn
<1>7. \A e, f, p, q : ChoiceDrawn(e, f, p, q)' <=> ChoiceDrawn(e, f, p, q)
  BY <1>1 DEF ChoiceDrawn
<1>8. \A e, f, p, q : Drawn(e, f, p, q)' <=> Drawn(e, f, p, q)
  BY <1>5, <1>6, <1>7 DEF Drawn
<1> QED BY <1>1, <1>8 DEF Places

(* The next command of the packet is one that the DRAC has drawn.          *)
LEMMA NextDrawn ==
  ASSUME DecoderInv, bytesRead < Len(packet)
  PROVE  \E at \in SUBSET (Nat \X Nat) :
           /\ Places(at) /\ <<bytesRead, pointer>> \in at
           /\ \E f \in bytesRead + 1 .. Len(packet), q \in pointer .. Area(screen) :
                <<f, q>> \in at /\ Drawn(bytesRead, f, pointer, q)
<1>1. PICK at \in SUBSET (Nat \X Nat) : Places(at) /\ <<bytesRead, pointer>> \in at
  BY DEF DecoderInv, PacketLaid
<1>2. bytesRead \in 0 .. Len(packet) /\ pointer \in 0 .. Area(screen)
  BY <1>1 DEF Places
<1>3. Len(packet) \in Nat
  BY LenProperties DEF DecoderInv
<1>4. bytesRead \in 0 .. Len(packet) - 1
  BY <1>2, <1>3
<1>5. \E f \in bytesRead + 1 .. Len(packet), q \in pointer .. Area(screen) :
        <<f, q>> \in at /\ Drawn(bytesRead, f, pointer, q)
  BY <1>1, <1>2, <1>4 DEF Places
<1> QED BY <1>1, <1>5

(* What a command must do for the invariant to hold behind it.             *)
LEMMA Advance ==
  ASSUME DecoderInv, state = "decoding",
         UNCHANGED <<dracVars, width, height, state>>,
         NEW at \in SUBSET (Nat \X Nat), Places(at), <<bytesRead, pointer>> \in at,
         NEW f \in bytesRead + 1 .. Len(packet), NEW q \in pointer .. Area(screen), <<f, q>> \in at,
         bytesRead' = f, pointer' = q,
         framebuffer' = [i \in 1 .. Area(screen) |->
                           IF i \in pointer + 1 .. q THEN screen.pixels[i] ELSE framebuffer[i]],
         dirty' \in BOOLEAN, dirty => dirty',
         dirty' \/ \A i \in pointer + 1 .. q : Same(i)
  PROVE  DecoderInv'
<1>1. /\ before' = before /\ screen' = screen /\ drawn' = drawn /\ packet' = packet /\ codec' = codec
      /\ packets' = packets /\ width' = width /\ height' = height /\ state' = state
  BY DEF dracVars
<1>2. DecoderTypeOK /\ DecodingInv /\ width \in Nat /\ height \in Nat /\ packet \in Seq(Byte)
  BY DEF DecoderInv
<1>3. PICK n \in Nat : n = Area(screen) /\ n = width * height
  BY <1>2, ScreenType DEF DecoderTypeOK, DecodingInv
<1>4. PICK p \in 0 .. n : p = pointer
  BY <1>2, <1>3 DEF DecoderTypeOK
<1>5. PICK e \in Nat : e = bytesRead
  BY <1>2 DEF DecoderTypeOK
<1>6. PICK m \in Nat : m = Len(packet)
  BY <1>2, LenProperties
<1>7. q \in 0 .. n /\ f \in 0 .. m
  BY <1>3, <1>4, <1>5, <1>6
<1>8. Area(screen)' = Area(screen) /\ \A i : Same(i)' <=> Same(i)
  BY <1>1 DEF Area, Same, SameSize
<1> DEFINE shows(i) == IF i \in pointer + 1 .. q THEN screen.pixels[i] ELSE framebuffer[i]
<1> HIDE DEF shows
<1>12. \A i \in 1 .. n : framebuffer'[i] = shows(i)
  BY <1>3 DEF shows
<1>13. framebuffer' \in [1 .. n -> Colors \cup {Gray}]
  <2>1. \A i \in 1 .. n : screen.pixels[i] \in Colors /\ framebuffer[i] \in Colors \cup {Gray}
    BY <1>2, <1>3, ScreenType DEF DecoderTypeOK
  <2>2. \A i \in 1 .. n : shows(i) \in Colors \cup {Gray}
    BY <2>1 DEF shows
  <2>3. framebuffer' = [i \in 1 .. n |-> shows(i)]
    BY <1>3 DEF shows
  <2> QED BY <2>2, <2>3
<1>9. DecoderTypeOK'
  <2>1. width' * height' = n
    BY <1>1, <1>3
  <2>2. /\ framebuffer' \in [1 .. n -> Colors \cup {Gray}] /\ pointer' \in 0 .. n
        /\ bytesRead' \in 0 .. Len(packet') /\ dirty' \in BOOLEAN
    BY <1>1, <1>3, <1>6, <1>7, <1>13
  <2>3. drawn' \in 0 .. Area(screen)'
    BY <1>1, <1>2, <1>8 DEF DecoderTypeOK
  <2>4. /\ before' \in Screens /\ screen' \in Screens /\ codec' \in Codecs
        /\ state' \in {"idle", "drawing", "decoding"} /\ packets' \in 0 .. MaxPackets
    BY <1>1, <1>2 DEF DecoderTypeOK
  <2> QED BY <2>1, <2>2, <2>3, <2>4 DEF DecoderTypeOK
<1>10. PacketLaid'
  BY <1>1, PlacesKept DEF PacketLaid
<1>11. DecodingInv'
  <2>1. packets' > 0 /\ width' = screen'.width /\ height' = screen'.height
    BY <1>1, <1>2 DEF DecodingInv
  <2>2. ASSUME NEW i \in 1 .. q PROVE framebuffer'[i] = screen.pixels[i]
    <3>1. i \in 1 .. n /\ (i \in 1 .. p \/ i \in p + 1 .. q)
      BY <1>3, <1>4, <1>7
    <3>2. CASE i \in p + 1 .. q
      BY <1>3, <1>4, <1>12, <3>1, <3>2 DEF shows
    <3>3. CASE i \in 1 .. p
      <4>1. framebuffer[i] = screen.pixels[i]
        BY <1>2, <1>4, <3>3 DEF DecodingInv
      <4> QED BY <1>3, <1>4, <1>12, <3>1, <3>3, <4>1 DEF shows
    <3> QED BY <3>1, <3>2, <3>3
  <2>3. ASSUME NEW i \in q + 1 .. n, Same(i) PROVE framebuffer'[i] = screen.pixels[i]
    <3>1. i \in 1 .. n /\ i \in p + 1 .. n /\ ~(i \in p + 1 .. q)
      BY <1>3, <1>4, <1>7
    <3>2. framebuffer[i] = screen.pixels[i]
      BY <1>2, <1>3, <1>4, <2>3, <3>1 DEF DecodingInv
    <3> QED BY <1>3, <1>4, <1>12, <3>1, <3>2 DEF shows
  <2>4. dirty' \/ \A i \in 1 .. q : Same(i)
    <3>1. SUFFICES ASSUME ~dirty', NEW i \in 1 .. q PROVE Same(i)
      OBVIOUS
    <3>2. ~dirty
      BY <3>1
    <3>3. CASE i \in p + 1 .. q
      BY <1>4, <3>1, <3>3
    <3>4. CASE i \in 1 .. p
      BY <1>2, <1>4, <3>2, <3>4 DEF DecodingInv
    <3> QED BY <1>4, <1>7, <3>1, <3>3, <3>4
  <2>5. \A i \in drawn + 1 .. n : Same(i)
    BY <1>2, <1>3 DEF DecodingInv
  <2> QED BY <1>1, <1>3, <1>8, <2>1, <2>2, <2>3, <2>4, <2>5 DEF DecodingInv
<1> QED BY <1>1, <1>2, <1>9, <1>10, <1>11 DEF DecoderInv

(* A command that draws sets fb_dirty.                                     *)
LEMMA DecodeSets ==
  ASSUME DecoderInv, NEW op, Decode(op)
  PROVE  dirty' \in BOOLEAN /\ (dirty => dirty') /\ (op \in Draws => dirty')
<1>1. dirty \in BOOLEAN
  BY DEF DecoderInv, DecoderTypeOK
<1>2. dirty' = (dirty \/ op \in Draws)
  BY DEF Decode
<1>3. CASE dirty \/ op \in Draws
  <2>1. dirty' = TRUE
    BY <1>2, <1>3
  <2> QED BY <2>1
<1>4. CASE ~dirty /\ ~(op \in Draws)
  <2>1. dirty' = FALSE
    BY <1>2, <1>4
  <2> QED BY <1>4, <2>1
<1> QED BY <1>3, <1>4

LEMMA DecodingTypes ==
  ASSUME DecoderInv, state = "decoding"
  PROVE  /\ screen \in Screens /\ Area(screen) \in Nat /\ width * height = Area(screen)
         /\ width \in Nat \ {0} /\ width = screen.width
         /\ bytesRead \in Nat /\ pointer \in 0 .. Area(screen)
         /\ packet \in Seq(Byte) /\ Len(packet) \in Nat
         /\ framebuffer \in [1 .. Area(screen) -> Colors \cup {Gray}]
         /\ screen.pixels \in [1 .. Area(screen) -> Colors]
         /\ \A i \in 1 .. pointer : framebuffer[i] = screen.pixels[i]
         /\ \A i \in pointer + 1 .. Area(screen) : Same(i) => framebuffer[i] = screen.pixels[i]
<1>1. DecoderTypeOK /\ DecodingInv /\ packet \in Seq(Byte)
  BY DEF DecoderInv
<1>2. /\ screen \in Screens /\ Area(screen) \in Nat /\ width * height = Area(screen)
      /\ width \in Nat \ {0} /\ width = screen.width
      /\ screen.pixels \in [1 .. Area(screen) -> Colors]
  BY <1>1, ScreenType DEF DecoderTypeOK, DecodingInv
<1>3. /\ Len(packet) \in Nat /\ bytesRead \in Nat /\ pointer \in 0 .. Area(screen)
      /\ framebuffer \in [1 .. Area(screen) -> Colors \cup {Gray}]
  BY <1>1, <1>2, LenProperties DEF DecoderTypeOK
<1> QED BY <1>1, <1>2, <1>3 DEF DecodingInv

(* If the next command is a run, getRunLength finds all of it.             *)
LEMMA RunFound ==
  ASSUME DecoderInv, NEW op \in RunOps, Decode(op)
  PROVE  \E at \in SUBSET (Nat \X Nat) :
           /\ Places(at) /\ <<bytesRead, pointer>> \in at /\ <<RunEnd, pointer + Run>> \in at
           /\ RunEnd \in bytesRead + 1 .. Len(packet)
           /\ pointer + Run \in pointer .. Area(screen) /\ Run \in Nat \ {0}
           /\ \A i \in pointer + 1 .. pointer + Run : RunShows(op, pointer, i)
<1>1. state = "decoding" /\ bytesRead < Len(packet) /\ packet[bytesRead + 1].op = op
  BY DEF Decode, Command
<1>2. PICK at \in SUBSET (Nat \X Nat) :
        /\ Places(at) /\ <<bytesRead, pointer>> \in at
        /\ \E f \in bytesRead + 1 .. Len(packet), q \in pointer .. Area(screen) :
             <<f, q>> \in at /\ Drawn(bytesRead, f, pointer, q)
  BY <1>1, NextDrawn
<1>3. PICK f \in bytesRead + 1 .. Len(packet), q \in pointer .. Area(screen) :
        <<f, q>> \in at /\ Drawn(bytesRead, f, pointer, q)
  BY <1>2
<1>4. bytesRead \in Nat /\ pointer \in Nat /\ packet \in Seq(Byte) /\ Len(packet) \in Nat
  BY <1>1, DecodingTypes
<1>5. RunDrawn(bytesRead, f, pointer, q)
  <2>1. op # "MP" /\ op # "MS"
    BY DEF RunOps
  <2>2. ~PixelDrawn(bytesRead, f, pointer, q)
    BY <1>1, <2>1 DEF PixelDrawn
  <2>3. ~ChoiceDrawn(bytesRead, f, pointer, q)
    <3>1. SUFFICES ASSUME ChoiceDrawn(bytesRead, f, pointer, q) PROVE FALSE
      OBVIOUS
    <3>2. PICK more \in Nat :
            \A k \in 0 .. more : packet[bytesRead + 1 + k].op = (IF k = 0 THEN "MS" ELSE "")
      BY <3>1 DEF ChoiceDrawn
    <3>3. 0 \in 0 .. more /\ bytesRead + 1 + 0 = bytesRead + 1
      BY <1>4
    <3>4. packet[bytesRead + 1].op = "MS"
      BY <3>2, <3>3
    <3> QED BY <1>1, <2>1, <3>4
  <2> QED BY <1>3, <2>2, <2>3 DEF Drawn
<1>6. PICK c \in RunOps, digits \in Digits :
        /\ f = bytesRead + Len(digits) /\ q = pointer + Number(digits) + Bias /\ pointer < q
        /\ \A k \in 1 .. Len(digits) : packet[bytesRead + k].op = c /\ packet[bytesRead + k].arg = digits[k]
        /\ f < Len(packet) => packet[f + 1].op # c
        /\ \A i \in pointer + 1 .. q : RunShows(c, pointer, i)
  BY <1>5 DEF RunDrawn
<1>7. 1 \in 1 .. Len(digits) /\ Number(digits) \in Nat
  BY DigitsType
<1>8. c = op
  <2>1. packet[bytesRead + 1].op = c
    BY <1>6, <1>7
  <2> QED BY <1>1, <2>1
<1>9. f <= Len(packet)
  BY <1>3
<1>10. RunEnd = f /\ Run = Number(digits) + Bias
  BY <1>4, <1>6, <1>9, RunRead
<1>11. Run \in Nat \ {0} /\ q = pointer + Run
  <2> PICK b \in 0 .. 2 : b = Bias
    BY BiasType
  <2> PICK n \in Nat, p \in Nat : n = Number(digits) /\ p = pointer
    BY <1>4, <1>7
  <2>1. q = pointer + Number(digits) + Bias /\ pointer < q
    BY <1>6
  <2>2. q = p + n + b /\ p < q
    BY <2>1
  <2>3. n + b \in Nat \ {0}
    BY <2>2
  <2> QED BY <1>10, <2>2, <2>3
<1> QED BY <1>2, <1>3, <1>6, <1>8, <1>10, <1>11

LEMMA NCKeeps ==
  ASSUME DecoderInv, ProcessNC
  PROVE  DecoderInv'
<1>1. Decode("NC") /\ bytesRead' = RunEnd /\ pointer' = pointer + Run /\ framebuffer' = framebuffer
  BY DEF ProcessNC
<1>2. state = "decoding" /\ UNCHANGED <<dracVars, width, height, state>>
  BY <1>1 DEF Decode
<1>3. "NC" \in RunOps
  BY DEF RunOps
<1>4. PICK at \in SUBSET (Nat \X Nat) :
        /\ Places(at) /\ <<bytesRead, pointer>> \in at /\ <<RunEnd, pointer + Run>> \in at
        /\ RunEnd \in bytesRead + 1 .. Len(packet)
        /\ pointer + Run \in pointer .. Area(screen) /\ Run \in Nat \ {0}
        /\ \A i \in pointer + 1 .. pointer + Run : RunShows("NC", pointer, i)
  BY <1>1, <1>3, RunFound
<1>5. \A i \in pointer + 1 .. pointer + Run : Same(i)
  BY <1>4 DEF RunShows
<1>6. framebuffer' = [i \in 1 .. Area(screen) |->
                        IF i \in pointer + 1 .. pointer + Run THEN screen.pixels[i] ELSE framebuffer[i]]
  <2>1. ASSUME NEW i \in pointer + 1 .. pointer + Run PROVE framebuffer[i] = screen.pixels[i]
    <3>1. i \in pointer + 1 .. Area(screen)
      BY <1>2, <1>4, DecodingTypes
    <3> QED BY <1>2, <1>5, <3>1, DecodingTypes
  <2>2. framebuffer = [i \in 1 .. Area(screen) |-> framebuffer[i]]
    BY <1>2, DecodingTypes
  <2> QED BY <1>1, <2>1, <2>2
<1>7. dirty' \in BOOLEAN /\ (dirty => dirty')
  BY <1>1, DecodeSets
<1> QED BY <1>1, <1>2, <1>4, <1>5, <1>6, <1>7, Advance

LEMMA CLKeeps ==
  ASSUME DecoderInv, ProcessCL
  PROVE  DecoderInv'
<1>1. /\ Decode("CL") /\ bytesRead' = RunEnd /\ pointer' = pointer + Run
      /\ framebuffer' = [q \in DOMAIN framebuffer |-> framebuffer[IF Covered(q) THEN pointer ELSE q]]
  BY DEF ProcessCL
<1>2. state = "decoding" /\ UNCHANGED <<dracVars, width, height, state>>
  BY <1>1 DEF Decode
<1>3. "CL" \in RunOps /\ "CL" \in Draws
  BY DEF RunOps, Draws
<1>4. PICK at \in SUBSET (Nat \X Nat) :
        /\ Places(at) /\ <<bytesRead, pointer>> \in at /\ <<RunEnd, pointer + Run>> \in at
        /\ RunEnd \in bytesRead + 1 .. Len(packet)
        /\ pointer + Run \in pointer .. Area(screen) /\ Run \in Nat \ {0}
        /\ \A i \in pointer + 1 .. pointer + Run : RunShows("CL", pointer, i)
  BY <1>1, <1>3, RunFound
<1>5. \A i \in pointer + 1 .. pointer + Run : pointer > 0 /\ screen.pixels[i] = screen.pixels[pointer]
  BY <1>4 DEF RunShows
<1>6. framebuffer' = [i \in 1 .. Area(screen) |->
                        IF i \in pointer + 1 .. pointer + Run THEN screen.pixels[i] ELSE framebuffer[i]]
  <2>1. pointer \in Nat /\ DOMAIN framebuffer = 1 .. Area(screen)
    BY <1>2, DecodingTypes
  <2>2. ASSUME NEW i \in 1 .. Area(screen)
        PROVE  framebuffer[IF Covered(i) THEN pointer ELSE i]
                 = IF i \in pointer + 1 .. pointer + Run THEN screen.pixels[i] ELSE framebuffer[i]
    <3>1. Covered(i) <=> i \in pointer + 1 .. pointer + Run
      BY <1>4, <2>1 DEF Covered
    <3>2. CASE i \in pointer + 1 .. pointer + Run
      <4>1. pointer \in 1 .. pointer
        BY <1>5, <2>1, <3>2
      <4>2. framebuffer[pointer] = screen.pixels[pointer]
        BY <1>2, <4>1, DecodingTypes
      <4> QED BY <1>5, <3>1, <3>2, <4>2
    <3>3. CASE ~(i \in pointer + 1 .. pointer + Run)
      BY <3>1, <3>3
    <3> QED BY <3>2, <3>3
  <2> QED BY <1>1, <2>1, <2>2
<1>7. dirty' \in BOOLEAN /\ (dirty => dirty') /\ dirty'
  BY <1>1, <1>3, DecodeSets
<1> QED BY <1>1, <1>2, <1>4, <1>6, <1>7, Advance

(* Each pixel of a CA is that of the line above, which may be a pixel of   *)
(* the same run: the recursive function is the screen.                     *)
LEMMA AboveIsScreen ==
  ASSUME NEW n \in Nat, NEW w \in Nat \ {0}, NEW p \in Nat, NEW r \in Nat,
         pointer = p, width = w, Run = r, w <= p, p + r <= n,
         framebuffer \in [1 .. n -> Colors \cup {Gray}], screen.pixels \in [1 .. n -> Colors],
         \A i \in 1 .. p : framebuffer[i] = screen.pixels[i],
         \A i \in p + 1 .. p + r : screen.pixels[i] = screen.pixels[i - w]
  PROVE  Above = [i \in 1 .. n |-> IF i \in p + 1 .. p + r THEN screen.pixels[i] ELSE framebuffer[i]]
<1> DEFINE f == [i \in 1 .. n |-> IF i \in p + 1 .. p + r THEN screen.pixels[i] ELSE framebuffer[i]]
           eq(g) == [i \in 1 .. n |-> IF i \in p + 1 .. p + r THEN g[i - w] ELSE framebuffer[i]]
<1>1. \A i \in 1 .. n : Covered(i) <=> i \in p + 1 .. p + r
  BY DEF Covered
<1>2. f = eq(f)
  <2>1. ASSUME NEW i \in 1 .. n PROVE f[i] = eq(f)[i]
    <3>1. CASE i \in p + 1 .. p + r
      <4>1. i - w \in 1 .. n /\ (i - w \in 1 .. p \/ i - w \in p + 1 .. p + r)
        BY <3>1
      <4>2. f[i - w] = screen.pixels[i - w]
        BY <4>1
      <4> QED BY <3>1, <4>2
    <3>2. CASE ~(i \in p + 1 .. p + r)
      BY <3>2
    <3> QED BY <3>1, <3>2
  <2> QED BY <2>1
<1>3. Above = CHOOSE g : g = eq(g)
  <2> DEFINE code(g) == [q \in DOMAIN framebuffer |-> IF Covered(q) THEN g[q - width] ELSE framebuffer[q]]
  <2>1. Above = CHOOSE g : g = code(g)
    BY DEF Above
  <2>2. ASSUME NEW g PROVE code(g) = eq(g)
    <3>1. DOMAIN framebuffer = 1 .. n
      OBVIOUS
    <3> QED BY <1>1, <3>1
  <2> HIDE DEF code, eq
  <2> QED BY <2>1, <2>2
<1> HIDE DEF f, eq
<1>4. Above = eq(Above)
  BY <1>2, <1>3
<1>5. /\ \A i \in 1 .. n : Above[i] = IF i \in p + 1 .. p + r THEN Above[i - w] ELSE framebuffer[i]
      /\ \A i \in 1 .. n : f[i] = IF i \in p + 1 .. p + r THEN f[i - w] ELSE framebuffer[i]
  BY <1>2, <1>4 DEF eq
<1>6. \A i \in 1 .. n : Above[i] = f[i]
  <2> DEFINE wrong == {i \in 1 .. n : Above[i] # f[i]}
  <2> SUFFICES ASSUME wrong # {} PROVE FALSE
    OBVIOUS
  <2>1. PICK i \in wrong : \A j \in wrong : i <= j
    <3>1. wrong \subseteq Nat
      OBVIOUS
    <3> QED BY <3>1, Smallest
  <2>2. i \in 1 .. n /\ Above[i] # f[i]
    BY <2>1
  <2>3. i \in p + 1 .. p + r
    BY <1>5, <2>2
  <2>4. i - w \in 1 .. n /\ i - w < i
    BY <2>2, <2>3
  <2>5. Above[i - w] = f[i - w]
    BY <2>1, <2>4
  <2> QED BY <1>5, <2>2, <2>3, <2>5
<1>7. Above = [i \in 1 .. n |-> Above[i]] /\ f = [i \in 1 .. n |-> f[i]]
  <2>1. Above = [i \in 1 .. n |-> IF i \in p + 1 .. p + r THEN Above[i - w] ELSE framebuffer[i]]
    BY <1>4 DEF eq
  <2>2. f = [i \in 1 .. n |-> IF i \in p + 1 .. p + r THEN screen.pixels[i] ELSE framebuffer[i]]
    BY DEF f
  <2> QED BY <2>1, <2>2
<1>8. Above = f
  BY <1>6, <1>7
<1> QED BY <1>8 DEF f

LEMMA CAKeeps ==
  ASSUME DecoderInv, ProcessCA
  PROVE  DecoderInv'
<1>1. /\ Decode("CA") /\ bytesRead' = RunEnd
      /\ IF BelowFirstLine THEN framebuffer' = Above /\ pointer' = pointer + Run
         ELSE UNCHANGED <<framebuffer, pointer>>
  BY DEF ProcessCA
<1>2. state = "decoding" /\ UNCHANGED <<dracVars, width, height, state>>
  BY <1>1 DEF Decode
<1>3. "CA" \in RunOps /\ "CA" \in Draws
  BY DEF RunOps, Draws
<1>4. PICK at \in SUBSET (Nat \X Nat) :
        /\ Places(at) /\ <<bytesRead, pointer>> \in at /\ <<RunEnd, pointer + Run>> \in at
        /\ RunEnd \in bytesRead + 1 .. Len(packet)
        /\ pointer + Run \in pointer .. Area(screen) /\ Run \in Nat \ {0}
        /\ \A i \in pointer + 1 .. pointer + Run : RunShows("CA", pointer, i)
  BY <1>1, <1>3, RunFound
<1>5. \A i \in pointer + 1 .. pointer + Run :
        pointer >= screen.width /\ screen.pixels[i] = screen.pixels[i - screen.width]
  BY <1>4 DEF RunShows
<1>6. PICK n \in Nat, w \in Nat \ {0}, p \in Nat, r \in Nat \ {0} :
        n = Area(screen) /\ w = width /\ w = screen.width /\ p = pointer /\ r = Run
  BY <1>2, <1>4, DecodingTypes
<1>7. dirty' \in BOOLEAN /\ (dirty => dirty') /\ dirty'
  BY <1>1, <1>3, DecodeSets
<1>8. w <= p
  <2>1. p + 1 \in p + 1 .. p + r
    OBVIOUS
  <2> QED BY <1>5, <1>6, <2>1
<1>9. framebuffer' = Above /\ pointer' = pointer + Run
  BY <1>1, <1>6, <1>8 DEF BelowFirstLine
<1>10. p + r <= n
  BY <1>4, <1>6
<1>11. \A i \in p + 1 .. p + r : screen.pixels[i] = screen.pixels[i - w]
  BY <1>5, <1>6
<1>12. Above = [i \in 1 .. n |-> IF i \in p + 1 .. p + r THEN screen.pixels[i] ELSE framebuffer[i]]
  <2>1. /\ framebuffer \in [1 .. n -> Colors \cup {Gray}] /\ screen.pixels \in [1 .. n -> Colors]
        /\ \A i \in 1 .. p : framebuffer[i] = screen.pixels[i]
    BY <1>2, <1>6, DecodingTypes
  <2>2. pointer = p /\ width = w /\ Run = r
    BY <1>6
  <2> QED BY <1>8, <1>10, <1>11, <2>1, <2>2, AboveIsScreen
<1>13. framebuffer' = [i \in 1 .. Area(screen) |->
                        IF i \in pointer + 1 .. pointer + Run THEN screen.pixels[i] ELSE framebuffer[i]]
  BY <1>6, <1>9, <1>12
<1> QED BY <1>1, <1>2, <1>4, <1>7, <1>9, <1>13, Advance

LEMMA MPKeeps ==
  ASSUME DecoderInv, ProcessMP
  PROVE  DecoderInv'
<1>1. /\ Decode("MP") /\ bytesRead' = bytesRead + 1 /\ pointer' = pointer + 1
      /\ framebuffer' = [framebuffer EXCEPT ![pointer + 1] = packet[bytesRead + 1].color]
  BY DEF ProcessMP, Command
<1>2. /\ state = "decoding" /\ UNCHANGED <<dracVars, width, height, state>>
      /\ bytesRead < Len(packet) /\ packet[bytesRead + 1].op = "MP"
  BY <1>1 DEF Decode, Command
<1>3. PICK at \in SUBSET (Nat \X Nat) :
        /\ Places(at) /\ <<bytesRead, pointer>> \in at
        /\ \E f \in bytesRead + 1 .. Len(packet), q \in pointer .. Area(screen) :
             <<f, q>> \in at /\ Drawn(bytesRead, f, pointer, q)
  BY <1>2, NextDrawn
<1>4. PICK f \in bytesRead + 1 .. Len(packet), q \in pointer .. Area(screen) :
        <<f, q>> \in at /\ Drawn(bytesRead, f, pointer, q)
  BY <1>3
<1>5. PICK e \in Nat, p \in Nat, n \in Nat :
        e = bytesRead /\ p = pointer /\ n = Area(screen)
  BY <1>2, DecodingTypes
<1>6. ~RunDrawn(bytesRead, f, pointer, q)
  <2>1. SUFFICES ASSUME RunDrawn(bytesRead, f, pointer, q) PROVE FALSE
    OBVIOUS
  <2>2. PICK op \in RunOps, digits \in Digits :
          \A k \in 1 .. Len(digits) : packet[bytesRead + k].op = op
    BY <2>1 DEF RunDrawn
  <2>3. 1 \in 1 .. Len(digits)
    BY DigitsType
  <2>4. packet[bytesRead + 1].op = op
    BY <2>2, <2>3
  <2> QED BY <1>2, <2>4 DEF RunOps
<1>7. ~ChoiceDrawn(bytesRead, f, pointer, q)
  <2>1. SUFFICES ASSUME ChoiceDrawn(bytesRead, f, pointer, q) PROVE FALSE
    OBVIOUS
  <2>2. PICK more \in Nat :
          \A k \in 0 .. more : packet[bytesRead + 1 + k].op = (IF k = 0 THEN "MS" ELSE "")
    BY <2>1 DEF ChoiceDrawn
  <2>3. 0 \in 0 .. more /\ bytesRead + 1 + 0 = bytesRead + 1
    BY <1>5
  <2>4. packet[bytesRead + 1].op = "MS"
    BY <2>2, <2>3
  <2> QED BY <1>2, <2>4
<1>8. f = bytesRead + 1 /\ q = pointer + 1 /\ packet[f].color = screen.pixels[q]
  BY <1>4, <1>6, <1>7 DEF Drawn, PixelDrawn
<1>9. framebuffer' = [i \in 1 .. Area(screen) |->
                        IF i \in pointer + 1 .. q THEN screen.pixels[i] ELSE framebuffer[i]]
  <2>1. DOMAIN framebuffer = 1 .. Area(screen)
    BY <1>2, DecodingTypes
  <2>2. \A i \in 1 .. n : i \in pointer + 1 .. q <=> i = pointer + 1
    BY <1>5, <1>8
  <2> QED BY <1>1, <1>5, <1>8, <2>1, <2>2
<1>10. "MP" \in Draws
  BY DEF Draws
<1>11. dirty' \in BOOLEAN /\ (dirty => dirty') /\ dirty'
  BY <1>1, <1>10, DecodeSets
<1> QED BY <1>1, <1>2, <1>3, <1>4, <1>8, <1>9, <1>11, Advance

(* The nearest other color is the same on two screens that are the same up *)
(* to here.                                                                *)
LEMMA OtherSame ==
  ASSUME NEW f, NEW g, NEW p \in Nat \ {0}, \A i \in 1 .. p : f[i] = g[i]
  PROVE  /\ Other(f, p) = Other(g, p)
         /\ Other(f, p) \in {f[i] : i \in 1 .. p}
<1> DEFINE S == {q \in 1 .. p : f[q] # f[p]}
           T == {q \in 1 .. p : g[q] # g[p]}
<1>1. p \in 1 .. p
  OBVIOUS
<1>2. S = T /\ f[p] = g[p]
  BY <1>1
<1>3. CASE S = {}
  BY <1>1, <1>2, <1>3 DEF Other
<1>4. CASE S # {}
  <2>1. PICK m \in S : \A b \in S : b <= m
    <3> DEFINE U == {p - q : q \in S}
    <3>1. U \subseteq Nat /\ U # {}
      BY <1>4
    <3>2. PICK u \in U : \A k \in U : u <= k
      BY <3>1, Smallest
    <3>3. PICK m \in S : u = p - m
      BY <3>2
    <3>4. ASSUME NEW b \in S PROVE b <= m
      <4>1. p - b \in U
        OBVIOUS
      <4>2. u <= p - b
        BY <3>2, <4>1
      <4>3. b \in 1 .. p /\ m \in 1 .. p
        OBVIOUS
      <4> QED BY <3>3, <4>2, <4>3
    <3> QED BY <3>4
  <2>2. m \in 1 .. p /\ S \subseteq Int
    OBVIOUS
  <2>3. Other(f, p) = f[Max(S)] /\ Other(g, p) = g[Max(T)]
    BY <1>2, <1>4 DEF Other
  <2> HIDE DEF S, T
  <2>4. Max(S) = m
    BY <2>1, <2>2, MaxIs
  <2> QED BY <1>2, <2>2, <2>3, <2>4
<1> QED BY <1>3, <1>4

(* The pixels of a choice are divided among its bytes.                     *)
LEMMA InItsByte ==
  ASSUME NEW more \in Nat, NEW i \in 1 .. FirstChoices + more * MoreChoices, i > FirstChoices
  PROVE  \E b \in 0 .. more - 1, c \in 1 .. MoreChoices :
           /\ b = (i - FirstChoices - 1) \div MoreChoices
           /\ c = ((i - FirstChoices - 1) % MoreChoices) + 1
           /\ i = FirstChoices + b * MoreChoices + c
<1> PICK F \in Nat, d \in Nat \ {0} : F = FirstChoices /\ d = MoreChoices
  BY DecoderAssumption
<1> PICK t \in Nat : t = more * d
  OBVIOUS
<1>1. PICK j \in Nat : j = i - F - 1 /\ j < t
  OBVIOUS
<1>2. j = d * (j \div d) + (j % d) /\ j % d \in 0 .. d - 1 /\ j \div d \in Nat
  BY DivMod
<1>3. PICK b \in Nat, r \in 0 .. d - 1 : b = j \div d /\ r = j % d
  BY <1>2
<1>4. j = d * b + r
  BY <1>2, <1>3
<1>5. d * b = b * d /\ b * d \in Nat
  OBVIOUS
<1>6. b < more
  <2>1. CASE more < b
    <3>1. more * d + d <= b * d
      BY <2>1, Times
    <3> QED BY <1>1, <1>4, <1>5, <3>1
  <2>2. CASE more = b
    BY <1>1, <1>4, <1>5, <2>2
  <2> QED BY <2>1, <2>2
<1>7. i = F + b * d + (r + 1) /\ r + 1 \in 1 .. d
  BY <1>1, <1>4, <1>5
<1>8. b \in 0 .. more - 1
  BY <1>6
<1> QED BY <1>1, <1>3, <1>7, <1>8

(* What the loops of a choice come to: it is read and shown as drawn.      *)
ChoiceBytes(e, more) ==
  \A k \in 0 .. more : /\ packet[e + 1 + k].op = (IF k = 0 THEN "MS" ELSE "")
                       /\ packet[e + 1 + k].more <=> k < more

LEMMA ChoiceRead ==
  ASSUME packet \in Seq(Byte), NEW e \in Nat, NEW more \in Nat, e + 1 + more <= Len(packet),
         ChoiceBytes(e, more)
  PROVE  Min({b \in e + 1 .. Len(packet) : packet[b].op \in {"MS", ""} /\ ~packet[b].more}) = e + 1 + more
<1> DEFINE ends(b) == packet[b].op \in {"MS", ""} /\ ~packet[b].more
           S == {b \in e + 1 .. Len(packet) : ends(b)}
<1> HIDE DEF ends
<1> PICK m \in Nat : m = Len(packet)
  BY LenProperties
<1>1. e + 1 + more \in S
  <2>1. more \in 0 .. more /\ e + 1 + more \in e + 1 .. m
    OBVIOUS
  <2>2. packet[e + 1 + more].op \in {"MS", ""}
    BY <2>1 DEF ChoiceBytes
  <2>3. ~(more < more)
    OBVIOUS
  <2>4. ~packet[e + 1 + more].more
    BY <2>1, <2>3 DEF ChoiceBytes
  <2>5. ends(e + 1 + more)
    BY <2>2, <2>4 DEF ends
  <2> QED BY <2>1, <2>5
<1>2. ASSUME NEW b \in S PROVE e + 1 + more <= b
  <2>1. SUFFICES ASSUME b < e + 1 + more PROVE FALSE
    OBVIOUS
  <2>2. b \in e + 1 .. m /\ ends(b)
    OBVIOUS
  <2>3. PICK k \in 0 .. more : k = b - e - 1
    BY <2>1, <2>2
  <2>4. k < more /\ b = e + 1 + k
    BY <2>1, <2>2, <2>3
  <2> QED BY <2>2, <2>4 DEF ChoiceBytes, ends
<1>3. S \subseteq Int
  OBVIOUS
<1> HIDE DEF S
<1>4. Min(S) = e + 1 + more
  BY <1>1, <1>2, <1>3, MinIs
<1> QED BY <1>4 DEF S, ends

LEMMA ChoiceFits ==
  ASSUME NEW more \in Nat, NEW room \in Nat, FirstChoices + more * MoreChoices <= room
  PROVE  LET fit == (room - FirstChoices) \div MoreChoices + 1
         IN  /\ ~(room < FirstChoices)
             /\ Min({more + 1, fit + 1}) = more + 1 /\ Min({more + 1, fit}) = more + 1
<1> PICK F \in Nat, d \in Nat \ {0} : F = FirstChoices /\ d = MoreChoices
  BY DecoderAssumption
<1> PICK t \in Nat : t = more * d
  OBVIOUS
<1>1. PICK j \in Nat : j = room - F /\ t <= j
  OBVIOUS
<1>2. j = d * (j \div d) + (j % d) /\ j % d \in 0 .. d - 1 /\ j \div d \in Nat
  BY DivMod
<1>3. PICK b \in Nat, r \in 0 .. d - 1 : b = j \div d /\ r = j % d
  BY <1>2
<1>4. d * b = b * d /\ b * d \in Nat /\ j = b * d + r
  BY <1>2, <1>3
<1>5. more <= b
  <2>1. SUFFICES ASSUME b < more PROVE FALSE
    OBVIOUS
  <2>2. b * d + d <= more * d
    BY <2>1, Times
  <2> QED BY <1>1, <1>4, <2>2
<1>6. (room - FirstChoices) \div MoreChoices + 1 = b + 1
  BY <1>1, <1>3
<1>7. Min({more + 1, (b + 1) + 1}) = more + 1
  <2> DEFINE S == {more + 1, (b + 1) + 1}
  <2>1. S \subseteq Int /\ more + 1 \in S /\ \A x \in S : more + 1 <= x
    BY <1>5
  <2> HIDE DEF S
  <2>2. Min(S) = more + 1
    BY <2>1, MinIs
  <2> QED BY <2>2 DEF S
<1>8. Min({more + 1, b + 1}) = more + 1
  <2> DEFINE S == {more + 1, b + 1}
  <2>1. S \subseteq Int /\ more + 1 \in S /\ \A x \in S : more + 1 <= x
    BY <1>5
  <2> HIDE DEF S
  <2>2. Min(S) = more + 1
    BY <2>1, MinIs
  <2> QED BY <2>2 DEF S
<1>9. ~(room < FirstChoices)
  BY <1>1
<1> QED BY <1>6, <1>7, <1>8, <1>9

LEMMA MSKeeps ==
  ASSUME DecoderInv, ProcessMS
  PROVE  DecoderInv'
<1> DEFINE room   == width * height - pointer
           last   == Min({b \in bytesRead + 1 .. Len(packet) :
                            packet[b].op \in {"MS", ""} /\ ~packet[b].more})
           fit    == (room - FirstChoices) \div MoreChoices + 1
           read   == IF room < FirstChoices THEN 1 ELSE Min({last - bytesRead, fit + 1})
           shows  == IF room < FirstChoices THEN 0 ELSE Min({read, fit})
           pixels == IF shows = 0 THEN 0 ELSE FirstChoices + (shows - 1) * MoreChoices
           bit(i) == IF i <= FirstChoices THEN Command.bits[i]
                     ELSE packet[bytesRead + 2 + (i - FirstChoices - 1) \div MoreChoices]
                            .bits[((i - FirstChoices - 1) % MoreChoices) + 1]
<1>1. /\ Decode("MS") /\ bytesRead' = bytesRead + read /\ pointer' = pointer + pixels
      /\ framebuffer' = [i \in DOMAIN framebuffer |->
           IF i <= pointer \/ i > pointer + pixels THEN framebuffer[i]
           ELSE IF bit(i - pointer) THEN Other(framebuffer, pointer) ELSE framebuffer[pointer]]
  BY DEF ProcessMS
<1> HIDE DEF room, last, fit, read, shows, pixels, bit
<1>2. /\ state = "decoding" /\ UNCHANGED <<dracVars, width, height, state>>
      /\ bytesRead < Len(packet) /\ packet[bytesRead + 1].op = "MS"
  BY <1>1 DEF Decode, Command
<1>3. PICK at \in SUBSET (Nat \X Nat) :
        /\ Places(at) /\ <<bytesRead, pointer>> \in at
        /\ \E f \in bytesRead + 1 .. Len(packet), q \in pointer .. Area(screen) :
             <<f, q>> \in at /\ Drawn(bytesRead, f, pointer, q)
  BY <1>2, NextDrawn
<1>4. PICK f \in bytesRead + 1 .. Len(packet), q \in pointer .. Area(screen) :
        <<f, q>> \in at /\ Drawn(bytesRead, f, pointer, q)
  BY <1>3
<1>5. PICK e \in Nat, p \in Nat, n \in Nat, m \in Nat :
        e = bytesRead /\ p = pointer /\ n = Area(screen) /\ n = width * height /\ m = Len(packet)
  BY <1>2, DecodingTypes
<1>6. PICK F \in Nat \ {0}, d \in Nat \ {0} : F = FirstChoices /\ d = MoreChoices
  BY DecoderAssumption
<1>7. ~RunDrawn(bytesRead, f, pointer, q)
  <2>1. SUFFICES ASSUME RunDrawn(bytesRead, f, pointer, q) PROVE FALSE
    OBVIOUS
  <2>2. PICK op \in RunOps, digits \in Digits :
          \A k \in 1 .. Len(digits) : packet[bytesRead + k].op = op
    BY <2>1 DEF RunDrawn
  <2>4. 1 \in 1 .. Len(digits)
    BY DigitsType
  <2>5. packet[bytesRead + 1].op = op
    BY <2>2, <2>4
  <2> QED BY <1>2, <2>5 DEF RunOps
<1>8. ~PixelDrawn(bytesRead, f, pointer, q)
  BY <1>2 DEF PixelDrawn
<1>9. ChoiceDrawn(bytesRead, f, pointer, q)
  BY <1>4, <1>7, <1>8 DEF Drawn
<1>10. PICK more \in Nat :
        /\ f = bytesRead + 1 + more /\ q = Behind(pointer, more + 1) /\ pointer > 0
        /\ \A k \in 0 .. more :
             /\ packet[bytesRead + 1 + k].op = (IF k = 0 THEN "MS" ELSE "")
             /\ packet[bytesRead + 1 + k].more <=> k < more
             /\ \A c \in 1 .. InByte(k) :
                  packet[bytesRead + 1 + k].bits[c]
                    <=> screen.pixels[Behind(pointer, k) + c] # screen.pixels[pointer]
        /\ \A i \in pointer + 1 .. q : screen.pixels[i] \in {screen.pixels[pointer], Other(screen.pixels, pointer)}
  BY <1>9 DEF ChoiceDrawn
<1>11. PICK t \in Nat : t = more * d /\ t = more * MoreChoices
  BY <1>6
<1>12. q = p + F + t /\ f = e + 1 + more /\ q <= n /\ f <= m /\ p > 0
  <2>1. (more + 1) - 1 = more /\ more + 1 # 0
    OBVIOUS
  <2>2. Behind(pointer, more + 1) = p + F + t
    BY <1>5, <1>6, <1>11, <2>1 DEF Behind
  <2>3. f = bytesRead + 1 + more /\ q = Behind(pointer, more + 1) /\ pointer > 0
    BY <1>10
  <2>4. q = p + F + t
    BY <2>2, <2>3
  <2>5. f = e + 1 + more
    BY <1>5, <2>3
  <2>6. q <= n
    BY <1>5, <2>4
  <2>7. f <= m
    BY <1>5, <2>5
  <2>8. p > 0
    BY <1>5, <2>3
  <2> QED BY <2>4, <2>5, <2>6, <2>7, <2>8
<1>13. last = e + 1 + more
  <2>1. ChoiceBytes(e, more)
    BY <1>5, <1>10 DEF ChoiceBytes
  <2>2. packet \in Seq(Byte) /\ e + 1 + more <= Len(packet)
    BY <1>2, <1>5, <1>12, DecodingTypes
  <2> QED BY <1>5, <2>1, <2>2, ChoiceRead DEF last
<1>14. read = more + 1 /\ shows = more + 1
  <2>1. PICK r \in Nat : r = room /\ F + t <= r
    BY <1>5, <1>12 DEF room
  <2>2. FirstChoices + more * MoreChoices <= r
    BY <1>6, <1>11, <2>1
  <2>3. ~(room < FirstChoices) /\ Min({more + 1, fit + 1}) = more + 1 /\ Min({more + 1, fit}) = more + 1
    BY <2>1, <2>2, ChoiceFits DEF fit
  <2>4. last - bytesRead = more + 1
    BY <1>5, <1>13
  <2>5. read = more + 1
    BY <2>3, <2>4 DEF read
  <2> QED BY <2>3, <2>5 DEF shows
<1>15. pixels = F + t
  <2>1. (more + 1) - 1 = more /\ more + 1 # 0
    OBVIOUS
  <2> QED BY <1>6, <1>11, <1>14, <2>1 DEF pixels
<1>16. ASSUME NEW i \in 1 .. F + t
       PROVE  bit(i) <=> screen.pixels[pointer + i] # screen.pixels[pointer]
  <2>1. CASE i <= F
    <3>1. 0 \in 0 .. more /\ i \in 1 .. InByte(0)
      BY <1>6, <2>1 DEF InByte
    <3>2. packet[bytesRead + 1 + 0].bits[i] <=> screen.pixels[Behind(pointer, 0) + i] # screen.pixels[pointer]
      BY <1>10, <3>1
    <3>3. bytesRead + 1 + 0 = bytesRead + 1 /\ Behind(pointer, 0) = pointer
      BY <1>5 DEF Behind
    <3>4. bit(i) = packet[bytesRead + 1].bits[i]
      BY <1>6, <2>1 DEF bit, Command
    <3> QED BY <3>2, <3>3, <3>4
  <2>2. CASE i > F
    <3>1. i \in 1 .. FirstChoices + more * MoreChoices /\ i > FirstChoices
      BY <1>6, <1>11, <2>2
    <3>2. PICK b \in 0 .. more - 1, c \in 1 .. MoreChoices :
            /\ b = (i - FirstChoices - 1) \div MoreChoices
            /\ c = ((i - FirstChoices - 1) % MoreChoices) + 1
            /\ i = FirstChoices + b * MoreChoices + c
      BY <3>1, InItsByte
    <3>3. bit(i) = packet[bytesRead + 2 + b].bits[c]
      BY <1>6, <2>2, <3>2 DEF bit
    <3>4. b + 1 \in 0 .. more /\ c \in 1 .. InByte(b + 1)
      BY <3>2 DEF InByte
    <3>5. packet[bytesRead + 1 + (b + 1)].bits[c]
            <=> screen.pixels[Behind(pointer, b + 1) + c] # screen.pixels[pointer]
      BY <1>10, <3>4
    <3>6. bytesRead + 1 + (b + 1) = bytesRead + 2 + b
      BY <1>5
    <3>7. Behind(pointer, b + 1) + c = pointer + i
      <4>1. (b + 1) - 1 = b /\ b + 1 # 0
        OBVIOUS
      <4>2. Behind(pointer, b + 1) = pointer + FirstChoices + b * MoreChoices
        BY <4>1 DEF Behind
      <4>3. PICK x \in Nat : x = b * MoreChoices
        BY <1>6
      <4>4. Behind(pointer, b + 1) = p + F + x
        BY <1>5, <1>6, <4>2, <4>3
      <4>5. i = F + x + c
        BY <1>6, <3>2, <4>3
      <4>6. p + F + x + c = p + i
        BY <4>5
      <4> QED BY <1>5, <4>4, <4>6
    <3> QED BY <3>3, <3>5, <3>6, <3>7
  <2> QED BY <2>1, <2>2
<1>17. Other(framebuffer, pointer) = Other(screen.pixels, pointer) /\ framebuffer[pointer] = screen.pixels[pointer]
  <2>1. \A i \in 1 .. p : framebuffer[i] = screen.pixels[i]
    BY <1>2, <1>5, DecodingTypes
  <2>2. p \in Nat \ {0} /\ p \in 1 .. p
    BY <1>12
  <2> QED BY <1>5, <2>1, <2>2, OtherSame
<1>18. framebuffer' = [i \in 1 .. Area(screen) |->
                        IF i \in pointer + 1 .. q THEN screen.pixels[i] ELSE framebuffer[i]]
  <2>1. DOMAIN framebuffer = 1 .. Area(screen)
    BY <1>2, DecodingTypes
  <2> DEFINE comes(i) == IF i <= pointer \/ i > pointer + pixels THEN framebuffer[i]
                        ELSE IF bit(i - pointer) THEN Other(framebuffer, pointer) ELSE framebuffer[pointer]
  <2>2. ASSUME NEW i \in 1 .. n
        PROVE  comes(i) = IF i \in pointer + 1 .. q THEN screen.pixels[i] ELSE framebuffer[i]
    <3>1. (i <= pointer \/ i > pointer + pixels) <=> ~(i \in pointer + 1 .. q)
      BY <1>5, <1>12, <1>15
    <3>2. CASE i \in pointer + 1 .. q
      <4>1. i - pointer \in 1 .. F + t /\ pointer + (i - pointer) = i
        BY <1>5, <1>12, <3>2
      <4>2. bit(i - pointer) <=> screen.pixels[i] # screen.pixels[pointer]
        BY <1>16, <4>1
      <4>3. screen.pixels[i] \in {screen.pixels[pointer], Other(screen.pixels, pointer)}
        BY <1>10, <3>2
      <4>4. CASE bit(i - pointer)
        BY <1>17, <3>1, <3>2, <4>2, <4>3, <4>4
      <4>5. CASE ~bit(i - pointer)
        BY <1>17, <3>1, <3>2, <4>2, <4>5
      <4> QED BY <4>4, <4>5
    <3>3. CASE ~(i \in pointer + 1 .. q)
      BY <3>1, <3>3
    <3> QED BY <3>2, <3>3
  <2>3. framebuffer' = [i \in 1 .. n |-> comes(i)]
    BY <1>1, <1>5, <2>1
  <2> HIDE DEF comes
  <2> QED BY <1>5, <2>2, <2>3
<1>19. bytesRead' = f /\ pointer' = q
  BY <1>1, <1>5, <1>12, <1>14, <1>15
<1>20. "MS" \in Draws
  BY DEF Draws
<1>21. dirty' \in BOOLEAN /\ (dirty => dirty') /\ dirty'
  BY <1>1, <1>20, DecodeSets
<1> QED BY <1>2, <1>3, <1>4, <1>18, <1>19, <1>21, Advance

LEMMA DecodePacketKeeps ==
  ASSUME DecoderInv, DecodePacket
  PROVE  DecoderInv'
BY NCKeeps, CAKeeps, CLKeeps, MPKeeps, MSKeeps DEF DecodePacket

-----------------------------------------------------------------------------
(* What the DRAC draws is laid out at the end of the packet.               *)
LEMMA SameKept ==
  ASSUME UNCHANGED <<before, screen, codec, packets>>
  PROVE  /\ \A i : Same(i)' <=> Same(i)
         /\ \A op, p, i : RunShows(op, p, i)' <=> RunShows(op, p, i)
         /\ Bias' = Bias /\ Area(screen)' = Area(screen)
<1>1. before' = before /\ screen' = screen /\ codec' = codec /\ packets' = packets
  OBVIOUS
<1>2. \A i : Same(i)' <=> Same(i)
  BY <1>1 DEF Same, SameSize
<1>3. \A op, p, i : RunShows(op, p, i)' <=> RunShows(op, p, i)
  BY <1>1, <1>2 DEF RunShows
<1>4. Bias' = Bias
  BY <1>1 DEF Bias
<1>5. Area(screen)' = Area(screen)
  BY <1>1 DEF Area
<1> QED BY <1>2, <1>3, <1>4, <1>5

LEMMA StaysDrawn ==
  ASSUME packet \in Seq(Byte), NEW bytes \in Seq(Byte), bytes # <<>>, packet' = packet \o bytes,
         UNCHANGED <<before, screen, codec, packets>>,
         packet # <<>> /\ packet[Len(packet)].op \in RunOps => packet[Len(packet)].op # bytes[1].op,
         NEW e \in Nat, NEW f \in e + 1 .. Len(packet), NEW p, NEW q, Drawn(e, f, p, q)
  PROVE  Drawn(e, f, p, q)'
<1> PICK l \in Nat, m \in Nat \ {0} : l = Len(packet) /\ m = Len(bytes)
  BY LenProperties, EmptySeq
<1>1. /\ Len(packet') = l + m /\ \A i \in 1 .. l : packet'[i] = packet[i]
      /\ packet'[l + 1] = bytes[1]
  BY ConcatProperties
<1>2. screen' = screen
  OBVIOUS
<1>3. CASE RunDrawn(e, f, p, q)
  <2>1. PICK op \in RunOps, digits \in Digits :
          /\ f = e + Len(digits) /\ q = p + Number(digits) + Bias /\ p < q
          /\ \A k \in 1 .. Len(digits) : packet[e + k].op = op /\ packet[e + k].arg = digits[k]
          /\ f < Len(packet) => packet[f + 1].op # op
          /\ \A i \in p + 1 .. q : RunShows(op, p, i)
    BY <1>3 DEF RunDrawn
  <2>2. PICK n \in 1 .. 5 : n = Len(digits)
    BY DigitsType
  <2>3. f = e + n /\ f <= l
    BY <2>1, <2>2
  <2>4. ASSUME NEW k \in 1 .. Len(digits) PROVE packet'[e + k].op = op /\ packet'[e + k].arg = digits[k]
    <3>1. e + k \in 1 .. l
      BY <2>2, <2>3
    <3> QED BY <1>1, <2>1, <3>1
  <2>5. ASSUME f < Len(packet') PROVE packet'[f + 1].op # op
    <3>1. CASE f < l
      <4>1. f + 1 \in 1 .. l
        BY <3>1
      <4> QED BY <1>1, <2>1, <3>1, <4>1
    <3>2. CASE f = l
      <4>1. n \in 1 .. Len(digits) /\ e + n = l /\ l > 0
        BY <2>2, <2>3, <3>2
      <4>2. packet[l].op = op
        BY <2>1, <4>1
      <4>3. packet # <<>>
        BY <4>1, EmptySeq
      <4>4. op # bytes[1].op
        BY <4>2, <4>3
      <4> QED BY <1>1, <3>2, <4>4
    <3> QED BY <2>3, <3>1, <3>2
  <2>6. \A i \in p + 1 .. q : RunShows(op, p, i)'
    BY <2>1, SameKept
  <2>7. q = p + Number(digits) + Bias'
    BY <2>1, SameKept
  <2>8. f = e + Len(digits) /\ p < q
    BY <2>1
  <2>9. RunDrawn(e, f, p, q)'
    BY <2>4, <2>5, <2>6, <2>7, <2>8 DEF RunDrawn
  <2> QED BY <2>9 DEF Drawn
<1>4. CASE PixelDrawn(e, f, p, q)
  <2>1. f \in 1 .. l
    OBVIOUS
  <2>2. PixelDrawn(e, f, p, q)'
    BY <1>1, <1>2, <1>4, <2>1 DEF PixelDrawn
  <2> QED BY <2>2 DEF Drawn
<1>5. CASE ChoiceDrawn(e, f, p, q)
  <2>1. PICK more \in Nat :
          /\ f = e + 1 + more /\ q = Behind(p, more + 1) /\ p > 0
          /\ \A k \in 0 .. more :
               /\ packet[e + 1 + k].op = (IF k = 0 THEN "MS" ELSE "")
               /\ packet[e + 1 + k].more <=> k < more
               /\ \A c \in 1 .. InByte(k) :
                    packet[e + 1 + k].bits[c] <=> screen.pixels[Behind(p, k) + c] # screen.pixels[p]
          /\ \A i \in p + 1 .. q : screen.pixels[i] \in {screen.pixels[p], Other(screen.pixels, p)}
    BY <1>5 DEF ChoiceDrawn
  <2>5. f = e + 1 + more /\ q = Behind(p, more + 1) /\ p > 0
    BY <2>1
  <2>2. f = e + 1 + more /\ f <= l
    BY <2>5
  <2>3. ASSUME NEW k \in 0 .. more PROVE packet'[e + 1 + k] = packet[e + 1 + k]
    <3>1. e + 1 + k \in 1 .. l
      BY <2>2
    <3> QED BY <1>1, <3>1
  <2>6. ASSUME NEW k \in 0 .. more
        PROVE  /\ packet'[e + 1 + k].op = (IF k = 0 THEN "MS" ELSE "")
               /\ packet'[e + 1 + k].more <=> k < more
               /\ \A c \in 1 .. InByte(k) :
                    packet'[e + 1 + k].bits[c] <=> screen'.pixels[Behind(p, k) + c] # screen'.pixels[p]
    <3>1. packet'[e + 1 + k] = packet[e + 1 + k]
      BY <2>3
    <3>2. /\ packet[e + 1 + k].op = (IF k = 0 THEN "MS" ELSE "")
          /\ packet[e + 1 + k].more <=> k < more
      BY <2>1
    <3>3. \A c \in 1 .. InByte(k) :
            packet[e + 1 + k].bits[c] <=> screen.pixels[Behind(p, k) + c] # screen.pixels[p]
      BY <2>1
    <3> QED BY <1>2, <3>1, <3>2, <3>3
  <2>7. \A i \in p + 1 .. q : screen'.pixels[i] \in {screen'.pixels[p], Other(screen'.pixels, p)}
    BY <1>2, <2>1
  <2>4. ChoiceDrawn(e, f, p, q)'
    BY <2>5, <2>6, <2>7 DEF ChoiceDrawn
  <2> QED BY <2>4 DEF Drawn
<1> QED BY <1>3, <1>4, <1>5 DEF Drawn

LEMMA DrawKeeps ==
  ASSUME DecoderInv, state = "drawing", NEW bytes \in Seq(Byte), bytes # <<>>, NEW n \in Nat,
         Draw(bytes, n),
         packet # <<>> /\ packet[Len(packet)].op \in RunOps => packet[Len(packet)].op # bytes[1].op,
         NEW l, l = Len(packet), NEW d, d = drawn, d + n <= Area(screen),
         NEW m, m = l + Len(bytes), Drawn(l, m, d, d + n)'
  PROVE  DecoderInv'
<1>1. /\ packet' = packet \o bytes /\ drawn' = drawn + n
      /\ UNCHANGED <<before, screen, codec, width, height, framebuffer, pointer, bytesRead, dirty,
                     state, packets>>
  BY DEF Draw
<1>2. DecoderTypeOK /\ DrawingInv /\ width \in Nat /\ height \in Nat /\ packet \in Seq(Byte)
  BY DEF DecoderInv
<1>3. PICK b \in Nat \ {0} : b = Len(bytes)
  BY EmptySeq
<1>4. PICK a \in Nat : a = Area(screen)
  BY <1>2, ScreenType DEF DecoderTypeOK
<1>5. l \in Nat /\ m = l + b /\ m \in Nat /\ d \in 0 .. a /\ d + n \in 0 .. a
  BY <1>2, <1>3, <1>4, LenProperties DEF DecoderTypeOK
<1>6. packet' \in Seq(Byte) /\ Len(packet') = m
  BY <1>1, <1>2, ConcatProperties
<1>7. PICK at \in SUBSET (Nat \X Nat) : Places(at) /\ <<bytesRead, pointer>> \in at
  BY DEF DecoderInv, PacketLaid
<1> DEFINE more == at \cup {<<m, d + n>>}
<1>8. /\ at \subseteq (0 .. l) \X (0 .. a) /\ <<0, 0>> \in at /\ <<l, d>> \in at
      /\ \A p \in 0 .. a : <<l, p>> \in at => p = d
  BY <1>4, <1>7 DEF Places
<1>9. \A e \in 0 .. l - 1, p \in 0 .. a : <<e, p>> \in at =>
        \E f \in e + 1 .. l, q \in p .. a : <<f, q>> \in at /\ Drawn(e, f, p, q)
  BY <1>4, <1>7 DEF Places
<1>10. Area(screen)' = a
  BY <1>1, <1>4, SameKept
<1>11. more \subseteq (0 .. m) \X (0 .. a) /\ more \in SUBSET (Nat \X Nat)
  BY <1>5, <1>8
<1>12. <<0, 0>> \in more /\ <<m, d + n>> \in more /\ <<bytesRead', pointer'>> \in more
  BY <1>1, <1>7, <1>8
<1>13. ASSUME NEW p \in 0 .. a, <<m, p>> \in more PROVE p = d + n
  <2>1. ~(<<m, p>> \in at)
    BY <1>3, <1>5, <1>8
  <2> QED BY <1>13, <2>1
<1>14. ASSUME NEW e \in 0 .. m - 1, NEW p \in 0 .. a, <<e, p>> \in more
       PROVE  \E f \in e + 1 .. m, q \in p .. a : <<f, q>> \in more /\ Drawn(e, f, p, q)'
  <2>1. e \in Nat /\ e < m
    BY <1>5
  <2>2. <<e, p>> \in at
    BY <1>14, <2>1
  <2>3. e \in 0 .. l
    BY <1>8, <2>2
  <2>4. CASE e = l
    <3>1. p = d
      BY <1>8, <2>2, <2>4
    <3>2. m \in e + 1 .. m /\ d + n \in p .. a
      BY <1>3, <1>5, <2>4, <3>1
    <3>3. Drawn(e, m, p, d + n)'
      BY <2>4, <3>1
    <3> QED BY <1>12, <3>2, <3>3
  <2>5. CASE e # l
    <3>1. e \in 0 .. l - 1
      BY <1>5, <2>3, <2>5
    <3>2. PICK f \in e + 1 .. l, q \in p .. a : <<f, q>> \in at /\ Drawn(e, f, p, q)
      BY <1>9, <2>2, <3>1
    <3>3. Drawn(e, f, p, q)'
      BY <1>1, <1>2, <2>1, <3>2, StaysDrawn
    <3>4. f \in e + 1 .. m /\ <<f, q>> \in more
      BY <1>3, <1>5, <3>2
    <3> QED BY <3>3, <3>4
  <2> QED BY <2>4, <2>5
<1> HIDE DEF more
<1>15. Places(more)'
  <2>1. more \subseteq (0 .. Len(packet')) \X (0 .. Area(screen)')
    BY <1>6, <1>10, <1>11
  <2>2. <<0, 0>> \in more /\ <<Len(packet'), drawn'>> \in more
    BY <1>1, <1>6, <1>12
  <2>3. \A p \in 0 .. Area(screen)' : <<Len(packet'), p>> \in more => p = drawn'
    BY <1>1, <1>6, <1>10, <1>13
  <2>4. \A e \in 0 .. Len(packet') - 1, p \in 0 .. Area(screen)' : <<e, p>> \in more =>
          \E f \in e + 1 .. Len(packet'), q \in p .. Area(screen)' :
            <<f, q>> \in more /\ Drawn(e, f, p, q)'
    BY <1>6, <1>10, <1>14
  <2> QED BY <2>1, <2>2, <2>3, <2>4 DEF Places
<1>16. PacketLaid'
  BY <1>11, <1>12, <1>15 DEF PacketLaid
<1>17. DecoderTypeOK'
  <2>1. bytesRead' \in 0 .. Len(packet')
    BY <1>1, <1>2, <1>3, <1>5, <1>6 DEF DecoderTypeOK
  <2>2. drawn' \in 0 .. Area(screen)'
    BY <1>1, <1>5, <1>10
  <2> QED BY <1>1, <1>2, <2>1, <2>2 DEF DecoderTypeOK
<1>18. DrawingInv'
  BY <1>1, <1>2 DEF DrawingInv
<1> QED BY <1>1, <1>2, <1>6, <1>16, <1>17, <1>18 DEF DecoderInv

LEMMA DrawRunKeeps ==
  ASSUME DecoderInv, NEW op \in RunOps, NEW digits \in Digits, DrawRun(op, digits)
  PROVE  DecoderInv'
<1> DEFINE byte(k) == [op |-> op, arg |-> digits[k]]
           bytes   == [k \in 1 .. Len(digits) |-> byte(k)]
<1>1. PICK n \in Nat : n = Number(digits) + Bias
  <2> PICK b \in 0 .. 2 : b = Bias
    BY BiasType
  <2>1. Number(digits) \in Nat
    BY DigitsType
  <2> QED BY <2>1
<1>2. /\ state = "drawing" /\ drawn + n <= Area(screen) /\ n > 0
      /\ packet # <<>> => packet[Len(packet)].op # op
      /\ \A q \in After(n) :
           CASE op = "NC" -> Same(q)
             [] op = "CL" -> drawn > 0 /\ screen.pixels[q] = screen.pixels[drawn]
             [] op = "CA" -> drawn >= screen.width
                             /\ screen.pixels[q] = screen.pixels[q - screen.width]
      /\ Draw(bytes, n)
  BY <1>1 DEF DrawRun
<1>3. \A q \in drawn + 1 .. drawn + n : RunShows(op, drawn, q)
  BY <1>2 DEF RunShows, After
<1>4. /\ Len(digits) \in 1 .. 5 /\ 1 \in 1 .. Len(digits)
      /\ \A k \in 1 .. Len(digits) : digits[k] \in 0 .. Base - 1
  BY DigitsType
<1>5. \A k \in 1 .. Len(digits) : byte(k) \in Byte
  BY <1>4 DEF Byte
<1> HIDE DEF byte
<1>6. bytes \in Seq(Byte) /\ Len(bytes) = Len(digits) /\ \A k \in 1 .. Len(digits) : bytes[k] = byte(k)
  <2>1. Len(digits) \in Nat
    BY <1>4
  <2>2. bytes \in [1 .. Len(digits) -> Byte]
    BY <1>5
  <2>3. bytes \in Seq(Byte)
    BY <2>1, <2>2, SeqDef
  <2>4. Len(bytes) = Len(digits)
    BY <2>1, <2>2, <2>3, LenProperties
  <2> QED BY <2>3, <2>4
<1> HIDE DEF bytes
<1>12. \A k \in 1 .. Len(digits) : byte(k).op = op /\ byte(k).arg = digits[k]
  BY DEF byte
<1>7. bytes # <<>> /\ bytes[1].op = op
  <2>1. Len(bytes) # 0
    BY <1>4, <1>6
  <2>2. bytes # <<>>
    BY <2>1, EmptySeq
  <2>3. bytes[1].op = op
    BY <1>4, <1>6, <1>12
  <2> QED BY <2>2, <2>3
<1>8. PICK l \in Nat, d \in Nat, m \in Nat :
        l = Len(packet) /\ d = drawn /\ m = l + Len(bytes) /\ m = l + Len(digits)
  <2>1. drawn \in Nat
    <3>1. Area(screen) \in Nat
      BY ScreenType DEF DecoderInv, DecoderTypeOK
    <3> QED BY <3>1 DEF DecoderInv, DecoderTypeOK
  <2>2. Len(packet) \in Nat
    BY LenProperties DEF DecoderInv
  <2>3. Len(bytes) = Len(digits)
    BY <1>6
  <2>4. PICK k \in Nat : k = Len(digits)
    BY <1>4
  <2> QED BY <2>1, <2>2, <2>3, <2>4
<1>9. packet' = packet \o bytes /\ UNCHANGED <<before, screen, codec, packets>>
  BY <1>2 DEF Draw
<1>10. RunDrawn(l, m, d, d + n)'
  <2>1. ASSUME NEW k \in 1 .. Len(digits) PROVE packet'[l + k].op = op /\ packet'[l + k].arg = digits[k]
    <3>1. packet'[l + k] = bytes[k]
      <4>1. packet \in Seq(Byte) /\ bytes \in Seq(Byte) /\ Len(packet) = l
        BY <1>6, <1>8 DEF DecoderInv
      <4>2. /\ Len(packet \o bytes) = m
            /\ \A j \in 1 .. m : (packet \o bytes)[j] = IF j <= l THEN packet[j] ELSE bytes[j - l]
        <5>1. /\ Len(packet \o bytes) = l + Len(bytes)
              /\ \A j \in 1 .. Len(packet \o bytes) :
                   (packet \o bytes)[j] = IF j <= l THEN packet[j] ELSE bytes[j - l]
          BY <4>1, Joined
        <5> QED BY <1>8, <5>1
      <4>3. PICK c \in Nat : c = Len(digits)
        BY <1>4
      <4>4. l + k \in 1 .. m /\ ~(l + k <= l) /\ l + k - l = k
        BY <1>8, <4>3
      <4>5. (packet \o bytes)[l + k] = bytes[k]
        BY <4>2, <4>4
      <4> QED BY <1>9, <4>5
    <3> QED BY <1>6, <1>12, <3>1
  <2>2. Len(packet') = m
    BY <1>6, <1>8, <1>9, ConcatProperties DEF DecoderInv
  <2>3. \A i \in d + 1 .. d + n : RunShows(op, d, i)'
    BY <1>3, <1>8, <1>9, SameKept
  <2>4. d + n = d + Number(digits) + Bias'
    <3> PICK b \in 0 .. 2 : b = Bias
      BY BiasType
    <3>1. Number(digits) \in Nat /\ Bias' = Bias
      BY <1>9, DigitsType, SameKept
    <3> QED BY <1>1, <3>1
  <2>5. d < d + n
    BY <1>2
  <2>6. m < Len(packet') => packet'[m + 1].op # op
    BY <2>2
  <2> QED BY <1>8, <2>1, <2>3, <2>4, <2>5, <2>6 DEF RunDrawn
<1>11. Drawn(l, m, d, d + n)'
  BY <1>10 DEF Drawn
<1> QED BY <1>2, <1>6, <1>7, <1>8, <1>11, DrawKeeps

LEMMA DrawPixelKeeps ==
  ASSUME DecoderInv, DrawPixel
  PROVE  DecoderInv'
<1>1. state = "drawing" /\ drawn < Area(screen)
  BY DEF DrawPixel
<1>2. PICK byte : byte = [op |-> "MP", color |-> screen.pixels[drawn + 1]]
  OBVIOUS
<1>3. Draw(<<byte>>, 1)
  BY <1>2 DEF DrawPixel
<1>4. PICK a \in Nat, d \in Nat : a = Area(screen) /\ d = drawn /\ d < a
  BY <1>1, ScreenType DEF DecoderInv, DecoderTypeOK
<1>5. byte \in Byte
  <2>1. d + 1 \in 1 .. a
    BY <1>4
  <2>2. screen.pixels[drawn + 1] \in Colors
    BY <1>4, <2>1, ScreenType DEF DecoderInv, DecoderTypeOK
  <2> QED BY <1>2, <2>2 DEF Byte
<1>6. <<byte>> \in Seq(Byte) /\ <<byte>> # <<>> /\ Len(<<byte>>) = 1 /\ <<byte>>[1] = byte
  BY <1>5
<1>7. PICK l \in Nat, m \in Nat : l = Len(packet) /\ m = l + Len(<<byte>>) /\ m = l + 1
  BY <1>6, LenProperties DEF DecoderInv
<1>8. packet' = packet \o <<byte>> /\ screen' = screen
  BY <1>3 DEF Draw
<1>9. packet'[m] = byte
  BY <1>6, <1>7, <1>8, ConcatProperties DEF DecoderInv
<1>10. PixelDrawn(l, m, d, d + 1)'
  BY <1>2, <1>4, <1>7, <1>8, <1>9 DEF PixelDrawn
<1>11. Drawn(l, m, d, d + 1)'
  BY <1>10 DEF Drawn
<1>12. \A op \in RunOps : op # <<byte>>[1].op
  BY <1>2, <1>6 DEF RunOps
<1>13. d + 1 <= Area(screen)
  BY <1>4
<1> QED BY <1>1, <1>3, <1>4, <1>6, <1>7, <1>11, <1>12, <1>13, DrawKeeps

LEMMA DrawChoiceKeeps ==
  ASSUME DecoderInv, NEW more \in Nat, DrawChoice(more)
  PROVE  DecoderInv'
<1> DEFINE n       == FirstChoices + more * MoreChoices
           from(k) == drawn + FirstChoices + (k - 1) * MoreChoices
           first   == ChoiceByte("MS", drawn, FirstChoices, more > 0)
           next(k) == ChoiceByte("", from(k), MoreChoices, k < more)
           rest    == [k \in 1 .. more |-> next(k)]
<1>1. /\ state = "drawing" /\ drawn > 0 /\ drawn + n <= Area(screen)
      /\ \A q \in After(n) : screen.pixels[q] \in {screen.pixels[drawn], Other(screen.pixels, drawn)}
      /\ Draw(<<first>> \o rest, n)
  BY DEF DrawChoice
<1>2. PICK F \in Nat \ {0}, c \in Nat \ {0} : F = FirstChoices /\ c = MoreChoices
  BY DecoderAssumption
<1>3. PICK t \in Nat : t = more * c
  BY <1>2
<1>4. n = F + t /\ n \in Nat
  BY <1>2, <1>3
<1> HIDE DEF n, from, first, next
<1>5. PICK d \in Nat, a \in Nat, l \in Nat :
        d = drawn /\ a = Area(screen) /\ l = Len(packet) /\ d > 0 /\ d + n <= a
  <2>1. Area(screen) \in Nat
    BY ScreenType DEF DecoderInv, DecoderTypeOK
  <2>2. drawn \in Nat
    BY <2>1 DEF DecoderInv, DecoderTypeOK
  <2>3. Len(packet) \in Nat
    BY LenProperties DEF DecoderInv
  <2> QED BY <1>1, <2>1, <2>2, <2>3
<1>6. /\ first.op = "MS" /\ (first.more <=> more > 0)
      /\ \A i \in 1 .. FirstChoices :
           first.bits[i] <=> screen.pixels[drawn + i] # screen.pixels[drawn]
  BY DEF first, ChoiceByte
<1>7. \A k \in 1 .. more :
        /\ next(k).op = "" /\ (next(k).more <=> k < more)
        /\ \A i \in 1 .. MoreChoices :
             next(k).bits[i] <=> screen.pixels[from(k) + i] # screen.pixels[drawn]
  BY DEF next, ChoiceByte
<1>8. first \in Byte
  BY DEF first, ChoiceByte, Byte
<1>9. \A k \in 1 .. more : next(k) \in Byte
  BY DEF next, ChoiceByte, Byte
<1>10. /\ rest \in Seq(Byte) /\ Len(rest) = more /\ \A k \in 1 .. more : rest[k] = next(k)
  <2>1. rest \in [1 .. more -> Byte]
    BY <1>9
  <2>2. rest \in Seq(Byte)
    BY <2>1, SeqDef
  <2>3. Len(rest) = more
    BY <2>1, <2>2, LenProperties
  <2> QED BY <2>2, <2>3
<1> HIDE DEF rest
<1>11. PICK bytes : bytes = <<first>> \o rest
  OBVIOUS
<1>12. <<first>> \in Seq(Byte) /\ Len(<<first>>) = 1 /\ <<first>>[1] = first
  BY <1>8
<1>13. /\ bytes \in Seq(Byte) /\ Len(bytes) = 1 + more
       /\ \A i \in 1 .. 1 + more : bytes[i] = IF i <= 1 THEN <<first>>[i] ELSE rest[i - 1]
  BY <1>10, <1>11, <1>12, ConcatProperties
<1>14. bytes[1] = first
  <2>1. 1 \in 1 .. 1 + more /\ 1 <= 1
    OBVIOUS
  <2> QED BY <1>12, <1>13, <2>1
<1>15. ASSUME NEW k \in 1 .. more PROVE bytes[1 + k] = next(k)
  <2>1. 1 + k \in 1 .. 1 + more /\ ~(1 + k <= 1) /\ (1 + k) - 1 = k
    OBVIOUS
  <2> QED BY <1>10, <1>13, <2>1
<1>16. bytes # <<>>
  <2>1. Len(bytes) # 0
    BY <1>13
  <2> QED BY <2>1, EmptySeq
<1>17. packet' = packet \o bytes /\ screen' = screen
  BY <1>1, <1>11 DEF Draw
<1>18. ASSUME NEW k \in 0 .. more PROVE packet'[l + 1 + k] = bytes[1 + k]
  <2>1. PICK b \in Nat : b = Len(bytes) /\ b = 1 + more
    BY <1>13
  <2>2. PICK x \in 1 .. l + b : x = l + 1 + k /\ ~(x <= l) /\ x - l = 1 + k
    BY <2>1
  <2>3. packet \in Seq(Byte) /\ bytes \in Seq(Byte) /\ Len(packet) = l
    BY <1>5, <1>13 DEF DecoderInv
  <2>4. /\ Len(packet \o bytes) = l + Len(bytes)
        /\ \A j \in 1 .. Len(packet \o bytes) :
             (packet \o bytes)[j] = IF j <= l THEN packet[j] ELSE bytes[j - l]
    BY <2>3, Joined
  <2>5. \A j \in 1 .. l + b : (packet \o bytes)[j] = IF j <= l THEN packet[j] ELSE bytes[j - l]
    BY <2>1, <2>4
  <2>6. (packet \o bytes)[x] = IF x <= l THEN packet[x] ELSE bytes[x - l]
    BY <2>5
  <2>7. (packet \o bytes)[x] = bytes[1 + k]
    BY <2>2, <2>6, Zenon
  <2> QED BY <1>17, <2>2, <2>7, Zenon
<1>19. PICK m \in Nat : m = l + 1 + more /\ m = l + Len(bytes)
  <2>1. Len(bytes) = 1 + more
    BY <1>13
  <2>2. PICK b \in Nat : b = 1 + more
    OBVIOUS
  <2>3. l + b \in Nat /\ l + b = l + 1 + more
    BY <2>2
  <2> QED BY <2>1, <2>2, <2>3
<1>20. ChoiceDrawn(l, m, d, d + n)'
  <2>1. d + n = Behind(d, more + 1)
    <3>1. (more + 1) - 1 = more /\ more + 1 # 0
      OBVIOUS
    <3>2. Behind(d, more + 1) = d + FirstChoices + more * MoreChoices
      BY <3>1 DEF Behind
    <3> QED BY <1>2, <1>3, <1>4, <3>2
  <2>2. ASSUME NEW k \in 0 .. more
        PROVE  /\ packet'[l + 1 + k].op = (IF k = 0 THEN "MS" ELSE "")
               /\ packet'[l + 1 + k].more <=> k < more
               /\ \A i \in 1 .. InByte(k) :
                    packet'[l + 1 + k].bits[i] <=> screen'.pixels[Behind(d, k) + i] # screen'.pixels[d]
    <3>1. CASE k = 0
      <4>1. packet'[l + 1 + k] = first
        <5>1. 1 + k = 1
          BY <3>1
        <5>2. packet'[l + 1 + k] = bytes[1 + k]
          BY <1>18
        <5> QED BY <1>14, <5>1, <5>2
      <4>2. Behind(d, k) = drawn /\ InByte(k) = FirstChoices
        BY <1>5, <3>1 DEF Behind, InByte
      <4>3. more > 0 <=> k < more
        BY <3>1
      <4> QED BY <1>5, <1>6, <1>17, <3>1, <4>1, <4>2, <4>3
    <3>2. CASE k # 0
      <4>1. k \in 1 .. more
        BY <3>2
      <4>2. packet'[l + 1 + k] = next(k)
        BY <1>15, <1>18, <4>1
      <4>3. Behind(d, k) = from(k) /\ InByte(k) = MoreChoices
        BY <1>5, <3>2 DEF Behind, InByte, from
      <4> QED BY <1>5, <1>7, <1>17, <3>2, <4>1, <4>2, <4>3
    <3> QED BY <3>1, <3>2
  <2>3. \A i \in d + 1 .. d + n : screen'.pixels[i] \in {screen'.pixels[d], Other(screen'.pixels, d)}
    BY <1>1, <1>5, <1>17 DEF After
  <2> QED BY <1>5, <1>19, <2>1, <2>2, <2>3 DEF ChoiceDrawn
<1>21. Drawn(l, m, d, d + n)'
  BY <1>20 DEF Drawn
<1>22. \A op \in RunOps : op # bytes[1].op
  BY <1>6, <1>14 DEF RunOps
<1>23. Draw(bytes, n)
  BY <1>1, <1>11
<1> QED BY <1>1, <1>4, <1>5, <1>13, <1>16, <1>19, <1>21, <1>22, <1>23, DrawKeeps

(* An empty packet is laid out.                                            *)
LEMMA LaidNone ==
  ASSUME packet' = <<>>, drawn' = 0, bytesRead' = 0, pointer' = 0, screen' \in Screens
  PROVE  PacketLaid'
<1>1. Len(packet') = 0 /\ Area(screen') \in Nat
  BY EmptySeq, ScreenType
<1>2. Places({<<0, 0>>})'
  <2>1. {<<0, 0>>} \subseteq (0 .. 0) \X (0 .. Area(screen'))
    BY <1>1
  <2>2. \A p \in 0 .. Area(screen') : <<0, p>> \in {<<0, 0>>} => p = 0
    OBVIOUS
  <2>3. 0 .. 0 - 1 = {}
    OBVIOUS
  <2> QED BY <1>1, <2>1, <2>2, <2>3 DEF Places
<1>3. {<<0, 0>>} \in SUBSET (Nat \X Nat)
  OBVIOUS
<1> QED BY <1>2, <1>3 DEF PacketLaid

LEMMA BeginPacketKeeps ==
  ASSUME DecoderInv, NEW s \in Screens, BeginPacket(s)
  PROVE  DecoderInv'
<1>1. /\ state = "idle" /\ packets < MaxPackets /\ packets' = packets + 1
      /\ before' = screen /\ screen' = s /\ codec' \in Codecs /\ state' = "drawing"
      /\ UNCHANGED <<drawn, packet, width, height, framebuffer, pointer, bytesRead, dirty>>
  BY DEF BeginPacket
<1>2. DecoderTypeOK /\ IdleInv /\ width \in Nat /\ height \in Nat
  BY <1>1 DEF DecoderInv
<1>3. PacketLaid'
  <2>1. packet' = <<>> /\ drawn' = 0 /\ bytesRead' = 0 /\ pointer' = 0 /\ screen' \in Screens
    BY <1>1, <1>2 DEF IdleInv
  <2> QED BY <2>1, LaidNone
<1>4. DecoderTypeOK'
  <2>1. packets' \in 0 .. MaxPackets
    BY <1>1, <1>2, DecoderAssumption DEF DecoderTypeOK
  <2>2. drawn' \in 0 .. Area(screen)'
    <3>1. Area(s) \in Nat
      BY ScreenType
    <3>2. Area(screen)' = Area(s)
      BY <1>1 DEF Area
    <3> QED BY <1>1, <1>2, <3>1, <3>2 DEF IdleInv
  <2>3. before' \in Screens /\ screen' \in Screens /\ codec' \in Codecs
    BY <1>1, <1>2 DEF DecoderTypeOK
  <2>4. state' \in {"idle", "drawing", "decoding"}
    BY <1>1
  <2> QED BY <1>1, <1>2, <2>1, <2>2, <2>3, <2>4 DEF DecoderTypeOK
<1>5. DrawingInv'
  <2>1. packets \in Nat
    BY <1>2 DEF DecoderTypeOK
  <2>2. packets' > 0 /\ (packets' > 1 => packets > 0)
    BY <1>1, <2>1
  <2> QED BY <1>1, <1>2, <2>2 DEF IdleInv, DrawingInv
<1>6. packet' \in Seq(Byte)
  BY <1>1 DEF DecoderInv
<1> QED BY <1>1, <1>2, <1>3, <1>4, <1>5, <1>6 DEF DecoderInv

LEMMA SendPacketKeeps ==
  ASSUME DecoderInv, SendPacket
  PROVE  DecoderInv'
<1>1. /\ state = "drawing" /\ state' = "decoding"
      /\ \A q \in drawn + 1 .. Area(screen) : Same(q)
      /\ width' = screen.width /\ height' = screen.height
      /\ framebuffer' = IF width = screen.width /\ height = screen.height THEN framebuffer
                        ELSE Grayed(screen.width, screen.height)
      /\ pointer' = 0 /\ bytesRead' = 0 /\ dirty' = dirty
  BY DEF SendPacket
<1>2. /\ before' = before /\ screen' = screen /\ drawn' = drawn /\ packet' = packet /\ codec' = codec
      /\ packets' = packets
  BY DEF SendPacket, dracVars
<1>3. DecoderTypeOK /\ DrawingInv /\ packet \in Seq(Byte)
  BY <1>1 DEF DecoderInv
<1>4. /\ screen.width \in Nat /\ screen.height \in Nat /\ Area(screen) \in Nat
      /\ Area(screen) = screen.width * screen.height
  BY <1>3, ScreenType DEF DecoderTypeOK
<1>5. Area(screen)' = Area(screen) /\ \A i : Same(i)' <=> Same(i)
  BY <1>2, SameKept
<1>6. framebuffer' \in [1 .. Area(screen) -> Colors \cup {Gray}]
  <2>1. CASE width = screen.width /\ height = screen.height
    BY <1>1, <1>3, <1>4, <2>1 DEF DecoderTypeOK
  <2>2. CASE ~(width = screen.width /\ height = screen.height)
    BY <1>1, <1>4, <2>2 DEF Grayed
  <2> QED BY <2>1, <2>2
<1>7. DecoderTypeOK'
  <2>1. drawn' \in 0 .. Area(screen)'
    BY <1>2, <1>3, <1>5 DEF DecoderTypeOK
  <2>2. width' * height' = Area(screen)
    BY <1>1, <1>4
  <2>3. framebuffer' \in [1 .. width' * height' -> Colors \cup {Gray}] /\ pointer' \in 0 .. width' * height'
    BY <1>1, <1>4, <1>6, <2>2
  <2>4. bytesRead' \in 0 .. Len(packet')
    BY <1>1, <1>2, <1>3, LenProperties
  <2>5. before' \in Screens /\ screen' \in Screens /\ codec' \in Codecs /\ dirty' \in BOOLEAN
        /\ packets' \in 0 .. MaxPackets
    BY <1>1, <1>2, <1>3 DEF DecoderTypeOK
  <2>6. state' \in {"idle", "drawing", "decoding"}
    BY <1>1
  <2> QED BY <2>1, <2>3, <2>4, <2>5, <2>6 DEF DecoderTypeOK
<1>8. PacketLaid'
  <2>1. PICK at \in SUBSET (Nat \X Nat) : Places(at)
    BY DEF DecoderInv, PacketLaid
  <2>2. Places(at)'
    BY <1>2, <2>1, PlacesKept
  <2>3. <<bytesRead', pointer'>> \in at
    BY <1>1, <2>1 DEF Places
  <2> QED BY <2>2, <2>3 DEF PacketLaid
<1>9. DecodingInv'
  <2>1. ASSUME NEW i \in 1 .. Area(screen), Same(i) PROVE framebuffer'[i] = screen.pixels[i]
    <3>1. /\ packets > 1 /\ before.width = screen.width /\ before.height = screen.height
          /\ before.pixels[i] = screen.pixels[i]
      BY <2>1 DEF Same, SameSize
    <3>2. width = before.width /\ height = before.height /\ framebuffer = before.pixels
      BY <1>3, <3>1 DEF DrawingInv
    <3> QED BY <1>1, <3>1, <3>2
  <2>2. 1 .. pointer' = {} /\ pointer' + 1 .. Area(screen) = 1 .. Area(screen)
    BY <1>1
  <2>3. packets' > 0 /\ width' = screen'.width /\ height' = screen'.height
    BY <1>1, <1>2, <1>3 DEF DrawingInv
  <2>4. \A i \in drawn' + 1 .. Area(screen)' : Same(i)'
    BY <1>1, <1>2, <1>5
  <2>5. \A i \in pointer' + 1 .. Area(screen)' : Same(i)' => framebuffer'[i] = screen'.pixels[i]
    BY <1>2, <1>5, <2>1, <2>2
  <2> QED BY <2>2, <2>3, <2>4, <2>5 DEF DecodingInv
<1>10. width' \in Nat /\ height' \in Nat /\ packet' \in Seq(Byte)
  BY <1>1, <1>2, <1>3, <1>4
<1> QED BY <1>1, <1>7, <1>8, <1>9, <1>10 DEF DecoderInv

(* At the end of a packet the framebuffer is the screen, and if nothing    *)
(* was drawn the screen did not change.                                    *)
LEMMA AtEnd ==
  ASSUME DecoderInv, PacketDecoded
  PROVE  /\ pointer = drawn /\ framebuffer = screen.pixels
         /\ ~dirty => packets > 1 /\ screen.pixels = before.pixels
<1>1. state = "decoding" /\ bytesRead = Len(packet)
  BY DEF PacketDecoded
<1>2. DecodingInv /\ before \in Screens /\ screen \in Screens
  BY <1>1 DEF DecoderInv, DecoderTypeOK
<1>3. PICK at \in SUBSET (Nat \X Nat) : Places(at) /\ <<bytesRead, pointer>> \in at
  BY DEF DecoderInv, PacketLaid
<1>4. pointer \in 0 .. Area(screen)
  BY <1>3 DEF Places
<1>5. pointer = drawn
  BY <1>1, <1>3, <1>4 DEF Places
<1>6. PICK n \in Nat \ {0}, p \in Nat : n = Area(screen) /\ p = pointer /\ p <= n
  <2>1. Area(screen) \in Nat \ {0}
    BY <1>2, ScreenType
  <2> QED BY <1>4, <2>1
<1>7. ASSUME NEW i \in 1 .. n PROVE framebuffer[i] = screen.pixels[i] /\ (~dirty => Same(i))
  <2>1. CASE i \in 1 .. p
    BY <1>2, <1>6, <2>1 DEF DecodingInv
  <2>2. CASE i \in p + 1 .. n
    <3>1. Same(i)
      BY <1>2, <1>5, <1>6, <2>2 DEF DecodingInv
    <3>2. framebuffer[i] = screen.pixels[i]
      BY <1>2, <1>6, <2>2, <3>1 DEF DecodingInv
    <3> QED BY <3>1, <3>2
  <2> QED BY <2>1, <2>2
<1>8. framebuffer = screen.pixels
  <2>1. framebuffer \in [1 .. n -> Colors \cup {Gray}] /\ screen.pixels \in [1 .. n -> Colors]
    BY <1>1, <1>6, DecodingTypes
  <2>2. framebuffer = [i \in 1 .. n |-> framebuffer[i]] /\ screen.pixels = [i \in 1 .. n |-> screen.pixels[i]]
    BY <2>1
  <2> QED BY <1>7, <2>2
<1>9. ASSUME ~dirty PROVE packets > 1 /\ screen.pixels = before.pixels
  <2>1. \A i \in 1 .. n : Same(i)
    BY <1>7, <1>9
  <2>2. 1 \in 1 .. n
    OBVIOUS
  <2>3. packets > 1 /\ before.width = screen.width /\ before.height = screen.height
    BY <2>1, <2>2 DEF Same, SameSize
  <2>4. Area(before) = n
    BY <1>6, <2>3 DEF Area
  <2>5. before.pixels \in [1 .. n -> Colors] /\ screen.pixels \in [1 .. n -> Colors]
    BY <1>2, <1>6, <2>4, ScreenType
  <2>6. \A i \in 1 .. n : before.pixels[i] = screen.pixels[i]
    BY <2>1 DEF Same
  <2>7. screen.pixels = [i \in 1 .. n |-> screen.pixels[i]] /\ before.pixels = [i \in 1 .. n |-> before.pixels[i]]
    BY <2>5
  <2> QED BY <2>3, <2>6, <2>7
<1> QED BY <1>5, <1>8, <1>9

LEMMA EndPacketKeeps ==
  ASSUME DecoderInv, NEW reset, EndPacket(reset)
  PROVE  DecoderInv'
<1>1. /\ PacketDecoded /\ state' = "idle" /\ dirty' = (dirty /\ ~reset)
      /\ packet' = <<>> /\ drawn' = 0 /\ pointer' = 0 /\ bytesRead' = 0
      /\ UNCHANGED <<before, screen, codec, packets, width, height, framebuffer>>
  BY DEF EndPacket
<1>2. DecoderTypeOK /\ DecodingInv /\ width \in Nat /\ height \in Nat
  BY <1>1 DEF DecoderInv, PacketDecoded
<1>3. PacketLaid'
  <2>1. screen' \in Screens
    BY <1>1, <1>2 DEF DecoderTypeOK
  <2> QED BY <1>1, <2>1, LaidNone
<1>4. framebuffer = screen.pixels
  BY <1>1, AtEnd
<1>5. IdleInv'
  BY <1>1, <1>2, <1>4 DEF IdleInv, DecodingInv
<1>6. DecoderTypeOK'
  <2>1. Area(screen)' \in Nat /\ width' * height' \in Nat /\ Len(packet') = 0
    <3>1. Area(screen)' = Area(screen) /\ width' * height' = width * height
      BY <1>1 DEF Area
    <3>2. width * height \in Nat
      BY <1>2
    <3>3. Area(screen) \in Nat
      BY <1>2, ScreenType DEF DecoderTypeOK
    <3> QED BY <1>1, <3>1, <3>2, <3>3, EmptySeq
  <2>2. /\ drawn' \in 0 .. Area(screen)' /\ pointer' \in 0 .. width' * height'
        /\ bytesRead' \in 0 .. Len(packet')
    BY <1>1, <2>1
  <2>3. dirty' \in BOOLEAN
    BY <1>1
  <2>4. state' \in {"idle", "drawing", "decoding"}
    BY <1>1
  <2> QED BY <1>1, <1>2, <2>2, <2>3, <2>4 DEF DecoderTypeOK
<1>7. packet' \in Seq(Byte)
  BY <1>1
<1> QED BY <1>1, <1>2, <1>3, <1>5, <1>6, <1>7 DEF DecoderInv

LEMMA DecoderInitKeeps ==
  ASSUME NEW w \in Nat, NEW h \in Nat, DecoderInit(w, h)
  PROVE  DecoderInv
<1>1. /\ before \in Screens /\ screen = before /\ drawn = 0 /\ packet = <<>> /\ codec \in Codecs
      /\ width = w /\ height = h /\ framebuffer = Grayed(w, h)
      /\ pointer = 0 /\ bytesRead = 0 /\ dirty = FALSE /\ state = "idle" /\ packets = 0
  BY DEF DecoderInit
<1>2. PacketLaid
  <2>1. Len(packet) = 0 /\ Area(screen) \in Nat
    BY <1>1, EmptySeq, ScreenType
  <2>2. Places({<<0, 0>>})
    <3>1. {<<0, 0>>} \subseteq (0 .. 0) \X (0 .. Area(screen))
      BY <2>1
    <3>2. \A p \in 0 .. Area(screen) : <<0, p>> \in {<<0, 0>>} => p = 0
      OBVIOUS
    <3>3. 0 .. 0 - 1 = {}
      OBVIOUS
    <3> QED BY <1>1, <2>1, <3>1, <3>2, <3>3 DEF Places
  <2>3. {<<0, 0>>} \in SUBSET (Nat \X Nat)
    OBVIOUS
  <2> QED BY <1>1, <2>2, <2>3 DEF PacketLaid
<1>3. DecoderTypeOK
  <2>1. Area(screen) \in Nat /\ width * height \in Nat /\ Len(packet) = 0
    BY <1>1, EmptySeq, ScreenType
  <2>2. drawn \in 0 .. Area(screen) /\ pointer \in 0 .. width * height /\ bytesRead \in 0 .. Len(packet)
    BY <1>1, <2>1
  <2>3. framebuffer \in [1 .. width * height -> Colors \cup {Gray}]
    BY <1>1 DEF Grayed
  <2>4. packets \in 0 .. MaxPackets
    BY <1>1, DecoderAssumption
  <2> QED BY <1>1, <2>2, <2>3, <2>4 DEF DecoderTypeOK
<1>4. IdleInv
  BY <1>1 DEF IdleInv
<1>5. packet \in Seq(Byte)
  BY <1>1
<1> QED BY <1>1, <1>2, <1>3, <1>4, <1>5 DEF DecoderInv

-----------------------------------------------------------------------------
(* The inductive invariant: beside those of the two parts, the newest      *)
(* picture is the screen before, while the DRAC draws and it is decoded.   *)
NewestIsBefore ==
  state # "idle" /\ packets > 1 =>
    animatedFrameList # <<>> /\ Last(animatedFrameList).picture = before.pixels

PicturesInv == DecoderInv /\ AnimationInv /\ isDrac4 \in BOOLEAN /\ NewestIsScreen /\ NewestIsBefore

LEMMA DecoderKept ==
  ASSUME DecoderInv, UNCHANGED decoderVars
  PROVE  DecoderInv'
<1>1. /\ before' = before /\ screen' = screen /\ drawn' = drawn /\ packet' = packet /\ codec' = codec
      /\ packets' = packets /\ width' = width /\ height' = height /\ framebuffer' = framebuffer
      /\ pointer' = pointer /\ bytesRead' = bytesRead /\ dirty' = dirty /\ state' = state
  BY DEF decoderVars, dracVars
<1>2. PacketLaid'
  <2>1. PICK at \in SUBSET (Nat \X Nat) : Places(at) /\ <<bytesRead, pointer>> \in at
    BY DEF DecoderInv, PacketLaid
  <2>2. Places(at)'
    BY <1>1, <2>1, PlacesKept
  <2> QED BY <1>1, <2>1, <2>2 DEF PacketLaid
<1>3. Area(screen)' = Area(screen) /\ \A i : Same(i)' <=> Same(i)
  BY <1>1, SameKept
<1>4. DecoderTypeOK'
  BY <1>1, <1>3 DEF DecoderInv, DecoderTypeOK
<1>5. IdleInv => IdleInv'
  BY <1>1 DEF IdleInv
<1>6. DrawingInv => DrawingInv'
  BY <1>1 DEF DrawingInv
<1>7. DecodingInv => DecodingInv'
  BY <1>1, <1>3 DEF DecodingInv
<1> QED BY <1>1, <1>2, <1>4, <1>5, <1>6, <1>7 DEF DecoderInv

LEMMA AnimationKept ==
  ASSUME AnimationInv, UNCHANGED animationVars
  PROVE  AnimationInv'
BY DEF AnimationInv, animationVars, InOrder, KeepsWindow

LEMMA DracKeeps ==
  ASSUME DecoderInv, Drac
  PROVE  DecoderInv' /\ (state' = "idle" => FALSE)
         /\ (state = "idle" => before' = screen /\ (packets' > 1 => packets > 0))
         /\ (state # "idle" => before' = before /\ packets' = packets)
<1>1. ASSUME NEW s \in Screens, BeginPacket(s)
      PROVE  DecoderInv' /\ state = "idle" /\ state' = "drawing" /\ before' = screen
             /\ (packets' > 1 => packets > 0)
  <2>1. packets \in Nat
    BY DEF DecoderInv, DecoderTypeOK
  <2>2. packets' = packets + 1 /\ state = "idle" /\ state' = "drawing" /\ before' = screen
    BY <1>1 DEF BeginPacket
  <2>3. packets' > 1 => packets > 0
    BY <2>1, <2>2
  <2> QED BY <1>1, <2>2, <2>3, BeginPacketKeeps
<1>2. ASSUME NEW op \in {"NC", "CL", "CA"}, NEW digits \in Digits, DrawRun(op, digits)
      PROVE  DecoderInv' /\ state = "drawing" /\ state' = "drawing" /\ before' = before /\ packets' = packets
  <2>1. op \in RunOps
    BY DEF RunOps
  <2> QED BY <1>2, <2>1, DrawRunKeeps DEF DrawRun, Draw
<1>3. ASSUME DrawPixel
      PROVE  DecoderInv' /\ state = "drawing" /\ state' = "drawing" /\ before' = before /\ packets' = packets
  BY <1>3, DrawPixelKeeps DEF DrawPixel, Draw
<1>4. ASSUME NEW more \in 0 .. Area(screen), DrawChoice(more)
      PROVE  DecoderInv' /\ state = "drawing" /\ state' = "drawing" /\ before' = before /\ packets' = packets
  <2>1. more \in Nat
    <3>1. Area(screen) \in Nat
      BY ScreenType DEF DecoderInv, DecoderTypeOK
    <3> QED BY <3>1
  <2> QED BY <1>4, <2>1, DrawChoiceKeeps DEF DrawChoice, Draw
<1>5. ASSUME SendPacket
      PROVE  DecoderInv' /\ state = "drawing" /\ state' = "decoding" /\ before' = before /\ packets' = packets
  BY <1>5, SendPacketKeeps DEF SendPacket, dracVars
<1>6. CASE \E s \in Screens : BeginPacket(s)
  BY <1>1, <1>6
<1>7. CASE \E op \in {"NC", "CL", "CA"}, digits \in Digits : DrawRun(op, digits)
  BY <1>2, <1>7
<1>8. CASE \E more \in 0 .. Area(screen) : DrawChoice(more)
  BY <1>4, <1>8
<1> QED BY <1>3, <1>5, <1>6, <1>7, <1>8 DEF Drac

LEMMA PicturesInitially == PicturesInit => PicturesInv
<1> SUFFICES ASSUME PicturesInit PROVE PicturesInv
  OBVIOUS
<1>1. DecoderInv /\ state = "idle" /\ packets = 0
  <2>1. CASE DecoderInit(0, 0)
    BY <2>1, DecoderInitKeeps DEF DecoderInit
  <2>2. CASE \E p \in Placeholders : DecoderInit(p.width, p.height)
    <3>1. PICK p \in Placeholders : DecoderInit(p.width, p.height)
      BY <2>2
    <3>2. p.width \in Nat /\ p.height \in Nat
      BY PlaceholderAssumption
    <3> QED BY <3>1, <3>2, DecoderInitKeeps DEF DecoderInit
  <2> QED BY <2>1, <2>2 DEF PicturesInit
<1>2. AnimationInv
  <2>1. animatedFrameList = <<>> /\ now = 0 /\ saved = <<>>
    BY DEF PicturesInit, AnimationInit
  <2>2. now \in 0 .. MaxTime
    BY <2>1, WindowAssumption
  <2>3. InOrder(saved) /\ \A i \in 1 .. Len(saved) : saved[i].ts <= now
    BY <2>1, EmptySeq DEF InOrder
  <2>4. KeepsWindow
    BY <2>1 DEF KeepsWindow
  <2> QED BY <2>1, <2>2, <2>3, <2>4 DEF AnimationInv
<1>3. isDrac4 \in BOOLEAN
  BY DEF PicturesInit
<1>4. NewestIsScreen /\ NewestIsBefore
  BY <1>1 DEF NewestIsScreen, NewestIsBefore
<1> QED BY <1>1, <1>2, <1>3, <1>4 DEF PicturesInv

LEMMA FramebufferIsPicture ==
  ASSUME DecoderInv
  PROVE  framebuffer \in Pixels
<1>1. /\ framebuffer \in [1 .. width * height -> Colors \cup {Gray}]
      /\ width \in Nat /\ height \in Nat
  BY DEF DecoderInv, DecoderTypeOK
<1>2. PICK n \in Nat : n = width * height
  BY <1>1
<1> QED BY <1>1, <1>2 DEF Pixels

LEMMA PicturesStepwise == PicturesInv /\ [PicturesNext]_pictureVars => PicturesInv'
<1> SUFFICES ASSUME PicturesInv, [PicturesNext]_pictureVars PROVE PicturesInv'
  OBVIOUS
<1>1. DecoderInv /\ AnimationInv /\ isDrac4 \in BOOLEAN /\ NewestIsScreen /\ NewestIsBefore
  BY DEF PicturesInv
<1>2. CASE Placeholder
  <2>1. saved = <<>> /\ SaveFrameForAnimation(framebuffer) /\ UNCHANGED decoderVars /\ isDrac4' = isDrac4
    BY <1>2 DEF Placeholder
  <2>2. DecoderInv' /\ AnimationInv'
    BY <1>1, <2>1, DecoderKept, SaveFrameKeeps, FramebufferIsPicture
  <2>3. animatedFrameList = <<>>
    BY <1>1, <2>1 DEF AnimationInv
  <2>4. state' = state /\ packets' = packets
    BY <2>1 DEF decoderVars, dracVars
  <2>5. ~(state = "idle" /\ packets > 0) /\ ~(state # "idle" /\ packets > 1)
    BY <1>1, <2>3 DEF NewestIsScreen, NewestIsBefore
  <2>6. NewestIsScreen' /\ NewestIsBefore'
    BY <2>4, <2>5 DEF NewestIsScreen, NewestIsBefore
  <2> QED BY <1>1, <2>1, <2>2, <2>6 DEF PicturesInv
<1>3. CASE DracStep
  <2>1. Drac /\ UNCHANGED animationVars /\ isDrac4' = isDrac4
    BY <1>3 DEF DracStep
  <2>2. /\ DecoderInv' /\ state' # "idle"
        /\ (state = "idle" => before' = screen /\ (packets' > 1 => packets > 0))
        /\ (state # "idle" => before' = before /\ packets' = packets)
    BY <1>1, <2>1, DracKeeps
  <2>3. AnimationInv' /\ animatedFrameList' = animatedFrameList
    BY <1>1, <2>1, AnimationKept DEF animationVars
  <2>4. NewestIsScreen'
    BY <2>2 DEF NewestIsScreen
  <2>5. NewestIsBefore'
    BY <1>1, <2>2, <2>3 DEF NewestIsScreen, NewestIsBefore
  <2> QED BY <1>1, <2>1, <2>2, <2>3, <2>4, <2>5 DEF PicturesInv
<1>4. CASE Decoding
  <2>1. DecodePacket /\ UNCHANGED animationVars /\ isDrac4' = isDrac4
    BY <1>4 DEF Decoding
  <2>2. state = "decoding" /\ state' = "decoding" /\ UNCHANGED dracVars
    BY <2>1 DEF DecodePacket, ProcessNC, ProcessCA, ProcessCL, ProcessMP, ProcessMS, Decode
  <2>3. before' = before /\ packets' = packets
    BY <2>2 DEF dracVars
  <2>4. DecoderInv'
    BY <1>1, <2>1, DecodePacketKeeps
  <2>5. AnimationInv' /\ animatedFrameList' = animatedFrameList
    BY <1>1, <2>1, AnimationKept DEF animationVars
  <2>6. NewestIsScreen' /\ NewestIsBefore'
    BY <1>1, <2>2, <2>3, <2>5 DEF NewestIsScreen, NewestIsBefore
  <2> QED BY <1>1, <2>1, <2>4, <2>5, <2>6 DEF PicturesInv
<1>5. CASE EndOfPacket
  <2>1. /\ EndPacket(~isDrac4) /\ isDrac4' = isDrac4
        /\ IF NewFrame THEN SaveFrameForAnimation(framebuffer) ELSE UNCHANGED animationVars
    BY <1>5 DEF EndOfPacket
  <2>2. PacketDecoded /\ state = "decoding" /\ state' = "idle" /\ screen' = screen
    BY <2>1 DEF EndPacket, PacketDecoded
  <2>3. DecoderInv'
    BY <1>1, <2>1, EndPacketKeeps
  <2>4. framebuffer = screen.pixels /\ (~dirty => packets > 1 /\ screen.pixels = before.pixels)
    BY <1>1, <2>2, AtEnd
  <2>5. CASE NewFrame
    <3>1. AnimationInv' /\ animatedFrameList' # <<>> /\ Last(animatedFrameList').picture = framebuffer
      BY <1>1, <2>1, <2>5, SaveFrameKeeps, FramebufferIsPicture
    <3>2. NewestIsScreen'
      BY <2>2, <2>4, <3>1 DEF NewestIsScreen
    <3>3. NewestIsBefore'
      BY <2>2 DEF NewestIsBefore
    <3> QED BY <1>1, <2>1, <2>3, <3>1, <3>2, <3>3 DEF PicturesInv
  <2>6. CASE ~NewFrame
    <3>1. UNCHANGED animationVars /\ ~dirty
      BY <2>1, <2>6 DEF NewFrame
    <3>2. AnimationInv' /\ animatedFrameList' = animatedFrameList
      BY <1>1, <3>1, AnimationKept DEF animationVars
    <3>3. animatedFrameList # <<>> /\ Last(animatedFrameList).picture = screen.pixels
      BY <1>1, <2>2, <2>4, <3>1 DEF NewestIsBefore
    <3>4. NewestIsScreen'
      BY <2>2, <3>2, <3>3 DEF NewestIsScreen
    <3>5. NewestIsBefore'
      BY <2>2 DEF NewestIsBefore
    <3> QED BY <1>1, <2>1, <2>3, <3>2, <3>4, <3>5 DEF PicturesInv
  <2> QED BY <2>5, <2>6
<1>6. CASE Time
  <2>1. PICK t \in Steps : Pass(t)
    BY <1>6 DEF Time
  <2>2. UNCHANGED decoderVars /\ isDrac4' = isDrac4
    BY <1>6 DEF Time
  <2>3. AnimationInv' /\ animatedFrameList' = animatedFrameList
    BY <1>1, <2>1, PassKeeps
  <2>4. DecoderInv'
    BY <1>1, <2>2, DecoderKept
  <2>5. state' = state /\ packets' = packets /\ before' = before /\ screen' = screen
    BY <2>2 DEF decoderVars, dracVars
  <2>6. NewestIsScreen' /\ NewestIsBefore'
    BY <1>1, <2>3, <2>5 DEF NewestIsScreen, NewestIsBefore
  <2> QED BY <1>1, <2>2, <2>3, <2>4, <2>6 DEF PicturesInv
<1>7. CASE UNCHANGED pictureVars
  <2>1. UNCHANGED decoderVars /\ UNCHANGED animationVars /\ isDrac4' = isDrac4
    BY <1>7 DEF pictureVars
  <2>2. DecoderInv' /\ AnimationInv'
    BY <1>1, <2>1, DecoderKept, AnimationKept
  <2>3. /\ state' = state /\ packets' = packets /\ before' = before /\ screen' = screen
        /\ animatedFrameList' = animatedFrameList
    BY <2>1 DEF decoderVars, dracVars, animationVars
  <2>4. NewestIsScreen' /\ NewestIsBefore'
    BY <1>1, <2>3 DEF NewestIsScreen, NewestIsBefore
  <2> QED BY <1>1, <2>1, <2>2, <2>4 DEF PicturesInv
<1> QED BY <1>2, <1>3, <1>4, <1>5, <1>6, <1>7 DEF PicturesNext

LEMMA PicturesInvariant == PicturesSpec => []PicturesInv
BY PicturesInitially, PicturesStepwise, PTL DEF PicturesSpec

(* The decoder shows the screen of the DRAC, whatever mixture of commands  *)
(* it was drawn with: decode_packet and the commands of decoder.c.         *)
THEOREM DecoderShowsScreen == PicturesSpec => []DecodesScreen
<1>1. PicturesInv => DecodesScreen
  <2> SUFFICES ASSUME PicturesInv PROVE DecodesScreen
    OBVIOUS
  <2>1. DecoderInv /\ AnimationInv /\ isDrac4 \in BOOLEAN
    BY DEF PicturesInv
  <2>2. AnimationTypeOK
    <3>1. animatedFrameList \in Seq(Frame) /\ now \in 0 .. MaxTime /\ now \in Nat
      BY <2>1, ListInOrder, WindowAssumption DEF AnimationInv
    <3>2. ASSUME NEW i \in DOMAIN animatedFrameList PROVE animatedFrameList[i].ts \in 0 .. now
      <4>1. i \in 1 .. Len(animatedFrameList)
        BY <3>1, LenProperties
      <4> QED BY <2>1, <3>1, <4>1, ListInOrder
    <3> QED BY <3>1, <3>2 DEF AnimationTypeOK
  <2>3. PicturesTypeOK
    BY <2>1, <2>2 DEF PicturesTypeOK, DecoderInv
  <2>4. DecodedSoFar
    BY <2>1 DEF DecodedSoFar, DecoderInv, DecodingInv
  <2>5. SameAtEnd
    BY <2>1, AtEnd DEF SameAtEnd
  <2> QED BY <2>3, <2>4, <2>5 DEF DecodesScreen
<1> QED BY <1>1, PicturesInvariant, PTL

(* fb_dirty misses no change: between packets the newest picture is the    *)
(* screen of the DRAC (handle_msg_video, drac4_handle_msg_video).          *)
THEOREM NoChangeIsMissed == PicturesSpec => []NewestIsScreen
<1>1. PicturesInv => NewestIsScreen
  BY DEF PicturesInv
<1> QED BY <1>1, PicturesInvariant, PTL

(* saveFrameForAnimation keeps every picture of the window, and no other.  *)
THEOREM WindowIsKept == PicturesSpec => []KeepsWindow
<1>1. PicturesInv => KeepsWindow
  BY DEF PicturesInv, AnimationInv
<1> QED BY <1>1, PicturesInvariant, PTL

(* What encodeGif and WriteGif make of the times plays every picture when  *)
(* it was shown, if every delay fits in the byte that is taken for it.     *)
THEOREM AnimationPlaysInTime == PicturesSpec => []PlaysInTime
<1>1. PicturesInv => PlaysInTime
  BY StartsInTime DEF PicturesInv, PlaysInTime
<1> QED BY <1>1, PicturesInvariant, PTL
=============================================================================
