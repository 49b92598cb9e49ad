------------------------ MODULE DracProtocol_proofs -------------------------
(***************************************************************************)
(* Proofs about DracProtocol: for any answers to the login, any number of  *)
(* frames and of messages in a Read, and any type of DRAC, only whole      *)
(* frames are decoded (DecodedWhole), and a video that began within a      *)
(* frame is shown after a refresh, which is asked for once (RefreshRight). *)
(*                                                                         *)
(* The invariant says where in the video the daemon is: the messages of    *)
(* frames on their way lead from there, one after the other, to where the  *)
(* DRAC is (InOrder), and what load_data keeps is that of its place (Fits).*)
(***************************************************************************)
EXTENDS DracProtocol, SequenceTheorems, TLAPS

-----------------------------------------------------------------------------
(* A place in the video: the next message of which frame.                  *)

Positions == [frame : 1 .. MaxFrames + 1, part : 1 .. 2]

IsFrame(m) == m.type = "frame"

Starts(at, m) ==
  IsFrame(m) => /\ m.frame = at.frame /\ m.part = at.part /\ m.bof = (at.part = 1)
                /\ at.part = 2 => m.eof

Succ(at, m) ==
  IF ~ IsFrame(m) THEN at
  ELSE IF m.eof THEN [frame |-> at.frame + 1, part |-> 1] ELSE [frame |-> at.frame, part |-> 2]

(* The messages lead from one place to another, by way of pos.             *)
Leads(list, pos, from, to) ==
  /\ pos[0] = from /\ pos[Len(list)] = to
  /\ \A i \in 0 .. Len(list) : pos[i].frame <= to.frame
  /\ \A i \in 1 .. Len(list) : Starts(pos[i - 1], list[i]) /\ pos[i] = Succ(pos[i - 1], list[i])

InOrder(list, from, to) == \E pos \in [0 .. Len(list) -> Positions] : Leads(list, pos, from, to)

-----------------------------------------------------------------------------
(* What there is, where the next message is that at says.                  *)

Begun(f) ==
  /\ Len(packet_buffer) = 1
  /\ packet_buffer[1].bof /\ packet_buffer[1].part = 1 /\ packet_buffer[1].frame = f

Fits(at) ==
  /\ frame_count = IF dracType = "DRAC4" THEN 2 * (at.frame - 1) ELSE at.frame - 1
  /\ at.part = 2 /\ framebuffer /\ ~ needs_refresh => Begun(at.frame)
  /\ ~ joinedMid => /\ ~ needs_refresh /\ refreshes = 0
                    /\ (framebuffer \/ (at.frame = 1 /\ at.part = 1))
  /\ joinedMid =>
       /\ dracType # "DRAC4"
       /\ (framebuffer \/ at.frame = 1 \/ (at.frame = 2 /\ at.part = 1))
       /\ at.frame = 1 => at.part = 2 /\ ~ framebuffer /\ ~ needs_refresh
       /\ at.frame \in 2 .. 3 => needs_refresh
       /\ at.frame <= 3 => refreshes = 0 /\ picture = NoFrame
       /\ at.frame >= 4 => ~ needs_refresh /\ refreshes = 1

(* The socket of the video, and where the DRAC is.                         *)
Wire == IF dracType = "DRAC4" THEN "ctrl" ELSE "video"

Sent == [frame |-> frame, part |-> part]

VideoInv == \E at \in Positions : InOrder(pipe[Wire], at, Sent) /\ Fits(at)

(* The video of a DRAC 4 comes on its one socket, that of the others on a  *)
(* second one, which is connected once: for the one answer to the login.   *)
IsLogin(m) == m.type = "login"

Elsewhere ==
  /\ dracType # "DRAC4" => \A i \in 1 .. Len(pipe["ctrl"]) : ~ IsFrame(pipe["ctrl"][i])
  /\ reader["video"] = "off" => pipe["video"] = <<>>
  /\ dracType = "DRAC4" => reader["video"] = "off" /\ r["ctrl"] # NEED_TO_CONNECT_VIDEO

LoginOnce ==
  /\ answered = Unanswered => \A i \in 1 .. Len(pipe["ctrl"]) : ~ IsLogin(pipe["ctrl"][i])
  /\ \A i, j \in 1 .. Len(pipe["ctrl"]) : IsLogin(pipe["ctrl"][i]) /\ IsLogin(pipe["ctrl"][j]) => i = j
  /\ \A i \in 1 .. Len(pipe["ctrl"]) :
       IsLogin(pipe["ctrl"][i]) => reader["video"] = "off" /\ r["ctrl"] # NEED_TO_CONNECT_VIDEO
  /\ answered = Unanswered => reader["video"] = "off" /\ r["ctrl"] # NEED_TO_CONNECT_VIDEO
  /\ reader["ctrl"] = "call" /\ r["ctrl"] = NEED_TO_CONNECT_VIDEO => reader["video"] = "off"

Results == {-1, 0, NEED_TO_CONNECT_VIDEO, NEW_FRAME_READY, VIDEO_IS_DOWN} \cup -265 .. ERR_LOGIN_FAILURE

Statuses == {"connected", "video connection error", "video connected", "auth error", "ready"}

ProtocolTypes ==
  /\ dracType \in DracTypes
  /\ pipe \in [Sockets -> Seq(Messages)]
  /\ batch \in [Sockets -> 0 .. MaxBatch] /\ \A s \in Sockets : batch[s] <= Len(pipe[s])
  /\ r \in [Sockets -> Results]
  /\ reader \in [Sockets -> {"off", "read", "call"}]
  /\ loginSent \in BOOLEAN /\ session_id \in BOOLEAN
  /\ framebuffer \in BOOLEAN /\ picture \in 0 .. MaxFrames
  /\ fb_dirty \in BOOLEAN /\ needs_refresh \in BOOLEAN
  /\ packet_buffer \in Seq(FrameMessages)
  /\ refreshes \in Nat /\ keepalives \in Nat
  /\ shown \in Nothing .. MaxFrames /\ status \in Statuses
  /\ answered \in LoginCodes \cup {Unanswered} /\ joinedMid \in BOOLEAN
  /\ frame \in 1 .. MaxFrames + 1 /\ part \in 1 .. 2 /\ others \in 0 .. MaxOthers

ProtocolInv ==
  /\ ProtocolTypes /\ Elsewhere /\ LoginOnce /\ VideoInv
  /\ DecodedWhole /\ RefreshBeforePicture

-----------------------------------------------------------------------------
(* Messages that are in order, with one more at the end, and without the   *)
(* first.                                                                  *)

LEMMA Appended ==
  ASSUME NEW S, NEW s \in Seq(S), NEW m \in S
  PROVE  /\ Append(s, m) \in Seq(S) /\ Len(Append(s, m)) = Len(s) + 1
         /\ Append(s, m)[Len(s) + 1] = m /\ \A i \in 1 .. Len(s) : Append(s, m)[i] = s[i]
BY AppendProperties

LEMMA First ==
  ASSUME NEW S, NEW s \in Seq(S), s # <<>>
  PROVE  /\ Len(s) \in Nat /\ Len(s) >= 1 /\ Head(s) = s[1] /\ Head(s) \in S
         /\ Tail(s) \in Seq(S) /\ Len(Tail(s)) = Len(s) - 1
         /\ \A i \in 1 .. Len(s) - 1 : Tail(s)[i] = s[i + 1]
<1>1. Len(s) \in Nat /\ Len(s) # 0
  BY EmptySeq, LenProperties
<1>2. Tail(s) \in Seq(S) /\ Len(Tail(s)) = Len(s) - 1 /\ \A i \in 1 .. Len(Tail(s)) : Tail(s)[i] = s[i + 1]
  BY HeadTailProperties
<1>3. Head(s) = s[1] /\ Head(s) \in S
  BY HeadTailProperties
<1> QED BY <1>1, <1>2, <1>3

LEMMA OrderOfNone ==
  ASSUME NEW at \in Positions, NEW list, Len(list) = 0
  PROVE  InOrder(list, at, at)
<1> DEFINE pos == [i \in 0 .. 0 |-> at]
<1>1. pos \in [0 .. Len(list) -> Positions]
  BY SMT
<1>2. at.frame <= at.frame
  BY DEF Positions
<1>3. Leads(list, pos, at, at)
  BY <1>2 DEF Leads
<1> QED BY <1>1, <1>3 DEF InOrder

LEMMA OrderAppend ==
  ASSUME NEW list, NEW n \in Nat, Len(list) = n, NEW more, Len(more) = n + 1,
         \A i \in 1 .. n : more[i] = list[i],
         NEW from, NEW to \in Positions, InOrder(list, from, to),
         NEW next \in Positions, Starts(to, more[n + 1]), next = Succ(to, more[n + 1]),
         to.frame <= next.frame
  PROVE  InOrder(more, from, next)
<1> PICK pos \in [0 .. n -> Positions] : Leads(list, pos, from, to)
  BY DEF InOrder
<1>1. /\ pos[0] = from /\ pos[n] = to /\ \A i \in 0 .. n : pos[i].frame <= to.frame
      /\ \A i \in 1 .. n : Starts(pos[i - 1], list[i]) /\ pos[i] = Succ(pos[i - 1], list[i])
  BY DEF Leads
<1> DEFINE new == [i \in 0 .. n + 1 |-> IF i <= n THEN pos[i] ELSE next]
<1>2. new \in [0 .. n + 1 -> Positions] /\ new[n + 1] = next /\ \A i \in 0 .. n : new[i] = pos[i]
  OBVIOUS
<1> HIDE DEF new
<1>3. \A i \in 0 .. n : pos[i].frame \in Int /\ to.frame \in Int /\ next.frame \in Int
  BY DEF Positions
<1>4. \A i \in 0 .. n + 1 : new[i].frame <= next.frame
  <2>1. \A i \in 0 .. n : new[i].frame <= next.frame
    BY <1>1, <1>2, <1>3
  <2>2. new[n + 1].frame <= next.frame
    BY <1>2, <1>3
  <2>3. \A i \in 0 .. n + 1 : i \in 0 .. n \/ i = n + 1
    OBVIOUS
  <2> QED BY <2>1, <2>2, <2>3
<1>5. ASSUME NEW i \in 1 .. n + 1
      PROVE  Starts(new[i - 1], more[i]) /\ new[i] = Succ(new[i - 1], more[i])
  <2>1. CASE i = n + 1
    BY <1>1, <1>2, <2>1
  <2>2. CASE i \in 1 .. n
    <3>1. i - 1 \in 0 .. n /\ i \in 0 .. n
      BY <2>2
    <3> QED BY <1>1, <1>2, <2>2, <3>1
  <2> QED BY <2>1, <2>2
<1>6. new[0] = from
  BY <1>1, <1>2
<1>7. Leads(more, new, from, next)
  BY <1>2, <1>4, <1>5, <1>6 DEF Leads
<1> QED BY <1>2, <1>7 DEF InOrder

LEMMA OrderRest ==
  ASSUME NEW list, NEW n \in Nat, Len(list) = n + 1, NEW rest, Len(rest) = n,
         \A i \in 1 .. n : rest[i] = list[i + 1],
         NEW from, NEW to, InOrder(list, from, to)
  PROVE  /\ Starts(from, list[1]) /\ Succ(from, list[1]) \in Positions
         /\ InOrder(rest, Succ(from, list[1]), to)
<1> PICK pos \in [0 .. n + 1 -> Positions] : Leads(list, pos, from, to)
  BY DEF InOrder
<1>1. /\ pos[0] = from /\ pos[n + 1] = to /\ \A i \in 0 .. n + 1 : pos[i].frame <= to.frame
      /\ \A i \in 1 .. n + 1 : Starts(pos[i - 1], list[i]) /\ pos[i] = Succ(pos[i - 1], list[i])
  BY DEF Leads
<1>2. Starts(from, list[1]) /\ pos[1] = Succ(from, list[1]) /\ pos[1] \in Positions
  <2>1. 1 \in 1 .. n + 1 /\ 1 \in 0 .. n + 1 /\ 1 - 1 = 0
    OBVIOUS
  <2> QED BY <1>1, <2>1
<1> DEFINE new == [i \in 0 .. n |-> pos[i + 1]]
<1>3. new \in [0 .. n -> Positions] /\ \A i \in 0 .. n : new[i] = pos[i + 1]
  OBVIOUS
<1> HIDE DEF new
<1>4. \A i \in 0 .. n : new[i].frame <= to.frame
  <2>1. \A i \in 0 .. n : i + 1 \in 0 .. n + 1
    OBVIOUS
  <2> QED BY <1>1, <1>3, <2>1
<1>5. ASSUME NEW i \in 1 .. n
      PROVE  Starts(new[i - 1], rest[i]) /\ new[i] = Succ(new[i - 1], rest[i])
  <2>1. i - 1 \in 0 .. n /\ i \in 0 .. n /\ (i - 1) + 1 = i /\ i + 1 \in 1 .. n + 1 /\ (i + 1) - 1 = i
    OBVIOUS
  <2>2. new[i - 1] = pos[i] /\ new[i] = pos[i + 1]
    BY <1>3, <2>1
  <2>3. Starts(pos[i], list[i + 1]) /\ pos[i + 1] = Succ(pos[i], list[i + 1])
    BY <1>1, <2>1
  <2> QED BY <2>2, <2>3
<1>6. new[0] = pos[1] /\ new[n] = to
  BY <1>1, <1>3
<1>7. Leads(rest, new, Succ(from, list[1]), to)
  BY <1>2, <1>4, <1>5, <1>6 DEF Leads
<1> QED BY <1>2, <1>3, <1>7 DEF InOrder

(* Nothing but the place of the DRAC is left when nothing is on its way.   *)
LEMMA OrderEnds ==
  ASSUME NEW list, NEW from, NEW to, InOrder(list, from, to)
  PROVE  Len(list) = 0 => from = to
BY DEF InOrder, Leads

-----------------------------------------------------------------------------
(* The first invariant: what holds of the variables implies what the runs  *)
(* check, and it holds at first.                                           *)

LEMMA PlaceTypes ==
  ASSUME NEW at \in Positions
  PROVE  /\ at.frame \in Int /\ at.frame >= 1 /\ at.frame <= MaxFrames + 1
         /\ at.part = 1 \/ at.part = 2
         /\ at = [frame |-> at.frame, part |-> at.part]
BY BoundAssumption DEF Positions

LEMMA PlaceOf ==
  ASSUME NEW f \in 1 .. MaxFrames + 1, NEW p \in 1 .. 2
  PROVE  /\ [frame |-> f, part |-> p] \in Positions
         /\ [frame |-> f, part |-> p].frame = f /\ [frame |-> f, part |-> p].part = p
BY DEF Positions

LEMMA TypesAreRight == ProtocolInv => TypeOK /\ RefreshOnce
<1> SUFFICES ASSUME ProtocolInv  PROVE TypeOK /\ RefreshOnce
  OBVIOUS
<1> PICK at \in Positions : Fits(at)
  BY DEF ProtocolInv, VideoInv
<1>1. frame_count = IF dracType = "DRAC4" THEN 2 * (at.frame - 1) ELSE at.frame - 1
  BY DEF Fits
<1>2. frame_count \in 0 .. 2 * MaxFrames
  BY <1>1, PlaceTypes, BoundAssumption
<1>3. \A s \in Sockets : \A i \in 1 .. Len(pipe[s]) : pipe[s][i] \in Messages
  <2>1. \A s \in Sockets : pipe[s] \in Seq(Messages)
    BY DEF ProtocolInv, ProtocolTypes
  <2> QED BY <2>1, ElementOfSeq
<1>4. \A i \in 1 .. Len(packet_buffer) : packet_buffer[i] \in FrameMessages
  <2>1. packet_buffer \in Seq(FrameMessages)
    BY DEF ProtocolInv, ProtocolTypes
  <2> QED BY <2>1, ElementOfSeq
<1>5. TypeOK
  BY <1>2, <1>3, <1>4 DEF ProtocolInv, ProtocolTypes, TypeOK, Results, Statuses
<1>6. refreshes <= 1
  <2>1. joinedMid \in BOOLEAN /\ refreshes \in Nat
    BY DEF ProtocolInv, ProtocolTypes
  <2>2. /\ ~ joinedMid => refreshes = 0
        /\ joinedMid /\ at.frame <= 3 => refreshes = 0
        /\ joinedMid /\ at.frame >= 4 => refreshes = 1
    BY DEF Fits
  <2> QED BY <2>1, <2>2, PlaceTypes
<1> QED BY <1>5, <1>6 DEF RefreshOnce

LEMMA FitsStays ==
  ASSUME UNCHANGED <<dracType, frame_count, framebuffer, needs_refresh, packet_buffer, joinedMid,
                     refreshes, picture>>
  PROVE  \A at \in Positions : Fits(at) => Fits(at)'
BY DEF Fits, Begun

LEMMA ProtocolBegins == Init => ProtocolInv
<1> SUFFICES ASSUME Init  PROVE ProtocolInv
  OBVIOUS
<1>1. /\ pipe \in [Sockets -> Seq(Messages)]
      /\ pipe["video"] = <<>> /\ Len(pipe["video"]) = 0
      /\ \A i \in 1 .. Len(pipe["ctrl"]) : pipe["ctrl"][i].type = "init"
      /\ dracType = "DRAC4" => pipe["ctrl"] = <<>> /\ Len(pipe["ctrl"]) = 0
  <2>1. [type |-> "init"] \in Messages
    BY DEF Messages
  <2>2. <<[type |-> "init"]>> \in Seq(Messages) /\ <<>> \in Seq(Messages)
    BY <2>1
  <2>3. pipe = [s \in Sockets |-> IF s = "ctrl" /\ dracType = "DRAC6" THEN <<[type |-> "init"]>>
                               ELSE <<>>]
    BY DEF Init
  <2>4. pipe["ctrl"] = IF dracType = "DRAC6" THEN <<[type |-> "init"]>> ELSE <<>>
    BY <2>3 DEF Sockets
  <2>5. pipe["video"] = <<>>
    BY <2>3 DEF Sockets
  <2>6. pipe \in [Sockets -> Seq(Messages)]
    BY <2>2, <2>3
  <2>7. \A i \in 1 .. Len(pipe["ctrl"]) : pipe["ctrl"][i].type = "init"
    BY <2>4
  <2> QED BY <2>4, <2>5, <2>6, <2>7
<1>2. frame = 1 /\ frame \in 1 .. MaxFrames + 1 /\ part \in 1 .. 2 /\ joinedMid \in BOOLEAN
  <2>1. frame = 1 /\ part = (IF joinedMid THEN 2 ELSE 1)
    BY DEF Init
  <2>2. joinedMid \in BOOLEAN
    BY DEF Init
  <2> QED BY <2>1, <2>2, BoundAssumption
<1>3. ProtocolTypes
  <2>1. \A s \in Sockets : pipe[s] \in Seq(Messages)
    BY <1>1
  <2>2. \A s \in Sockets : Len(pipe[s]) \in Nat
    BY <2>1, LenProperties
  <2>3. /\ dracType \in DracTypes
        /\ batch \in [Sockets -> 0 .. MaxBatch] /\ \A s \in Sockets : batch[s] <= Len(pipe[s])
    <3>1. dracType \in DracTypes /\ batch = [s \in Sockets |-> 0]
      BY DEF Init
    <3>2. batch \in [Sockets -> 0 .. MaxBatch] /\ \A s \in Sockets : batch[s] = 0
      BY <3>1, BoundAssumption
    <3> QED BY <2>2, <3>1, <3>2
  <2>4. r \in [Sockets -> Results] /\ reader \in [Sockets -> {"off", "read", "call"}]
    BY DEF Init, Results
  <2>5. /\ packet_buffer \in Seq(FrameMessages) /\ picture \in 0 .. MaxFrames
        /\ refreshes \in Nat /\ keepalives \in Nat /\ others \in 0 .. MaxOthers
    BY BoundAssumption DEF Init, NoFrame
  <2>6. shown \in Nothing .. MaxFrames
    BY BoundAssumption DEF Init, Nothing
  <2>7. /\ status \in Statuses /\ answered \in LoginCodes \cup {Unanswered}
        /\ loginSent \in BOOLEAN /\ session_id \in BOOLEAN /\ framebuffer \in BOOLEAN
        /\ fb_dirty \in BOOLEAN /\ needs_refresh \in BOOLEAN
    BY DEF Init, Statuses
  <2> QED BY <1>1, <1>2, <2>3, <2>4, <2>5, <2>6, <2>7 DEF ProtocolTypes
<1>4. Elsewhere
  <2>1. reader["video"] = "off" /\ r["ctrl"] # NEED_TO_CONNECT_VIDEO
    BY DEF Init, Sockets, NEED_TO_CONNECT_VIDEO
  <2> QED BY <1>1, <2>1 DEF Elsewhere, IsFrame
<1>5. LoginOnce
  <2>1. reader["video"] = "off" /\ r["ctrl"] # NEED_TO_CONNECT_VIDEO
    BY DEF Init, Sockets, NEED_TO_CONNECT_VIDEO
  <2> QED BY <1>1, <2>1 DEF LoginOnce, IsLogin
<1>6. VideoInv
  <2>1. Sent \in Positions /\ Sent.frame = 1 /\ Sent.part = part
    BY <1>2, PlaceOf DEF Sent
  <2>2. Len(pipe[Wire]) = 0
    BY <1>1 DEF Wire
  <2>3. InOrder(pipe[Wire], Sent, Sent)
    BY <2>1, <2>2, OrderOfNone
  <2>4. Fits(Sent)
    <3>1. CASE joinedMid
      <4>1. dracType # "DRAC4" /\ part = 2
        BY <3>1 DEF Init
      <4>2. /\ frame_count = 0 /\ ~ framebuffer /\ ~ needs_refresh /\ refreshes = 0
            /\ picture = NoFrame
        BY DEF Init
      <4>3. Sent.frame - 1 = 0
        BY <2>1
      <4>4. frame_count = IF dracType = "DRAC4" THEN 2 * (Sent.frame - 1) ELSE Sent.frame - 1
        BY <4>1, <4>2, <4>3
      <4>5. ~ (Sent.frame \in 2 .. 3) /\ ~ (Sent.frame >= 4)
        BY <2>1
      <4> QED BY <2>1, <3>1, <4>1, <4>2, <4>4, <4>5 DEF Fits
    <3>2. CASE ~ joinedMid
      BY <2>1, <3>2 DEF Init, Fits
    <3> QED BY <1>2, <3>1, <3>2
  <2> QED BY <2>1, <2>3, <2>4 DEF VideoInv
<1>7. DecodedWhole
  BY DEF Init, DecodedWhole
<1>8. RefreshBeforePicture
  <2>1. shown = Nothing
    BY DEF Init
  <2> QED BY <2>1 DEF RefreshBeforePicture, Nothing
<1> QED BY <1>3, <1>4, <1>5, <1>6, <1>7, <1>8 DEF ProtocolInv

-----------------------------------------------------------------------------
(* The messages on their way after a step that puts one more there, or     *)
(* takes the first away.                                                   *)

LEMMA Types ==
  ASSUME ProtocolInv
  PROVE  /\ pipe \in [Sockets -> Seq(Messages)]
         /\ batch \in [Sockets -> 0 .. MaxBatch] /\ \A s \in Sockets : batch[s] <= Len(pipe[s])
         /\ r \in [Sockets -> Results]
         /\ reader \in [Sockets -> {"off", "read", "call"}]
         /\ frame \in 1 .. MaxFrames + 1 /\ part \in 1 .. 2 /\ joinedMid \in BOOLEAN
         /\ answered \in LoginCodes \cup {Unanswered}
         /\ packet_buffer \in Seq(FrameMessages) /\ picture \in 0 .. MaxFrames
         /\ refreshes \in Nat /\ keepalives \in Nat
         /\ framebuffer \in BOOLEAN /\ needs_refresh \in BOOLEAN /\ fb_dirty \in BOOLEAN
BY DEF ProtocolInv, ProtocolTypes

LEMMA PutGives ==
  ASSUME ProtocolInv, NEW s \in Sockets, NEW m \in Messages, Put(s, m)
  PROVE  /\ pipe' \in [Sockets -> Seq(Messages)]
         /\ \A t \in Sockets : batch[t] <= Len(pipe'[t])
         /\ \A t \in Sockets : t # s => pipe'[t] = pipe[t]
         /\ Len(pipe[s]) \in Nat /\ Len(pipe'[s]) = Len(pipe[s]) + 1
         /\ pipe'[s][Len(pipe[s]) + 1] = m
         /\ \A i \in 1 .. Len(pipe[s]) : pipe'[s][i] = pipe[s][i]
<1>1. pipe[s] \in Seq(Messages) /\ Len(pipe[s]) \in Nat
  BY Types, LenProperties
<1>2. /\ pipe'[s] = Append(pipe[s], m)
      /\ \A t \in Sockets : t # s => pipe'[t] = pipe[t]
      /\ pipe' = [pipe EXCEPT ![s] = Append(pipe[s], m)]
  BY Types DEF Put
<1>3. Append(pipe[s], m) \in Seq(Messages) /\ Len(Append(pipe[s], m)) = Len(pipe[s]) + 1
      /\ Append(pipe[s], m)[Len(pipe[s]) + 1] = m
      /\ \A i \in 1 .. Len(pipe[s]) : Append(pipe[s], m)[i] = pipe[s][i]
  BY <1>1, Appended
<1>4. pipe' \in [Sockets -> Seq(Messages)]
  BY <1>2, <1>3, Types
<1>5. \A t \in Sockets : batch[t] <= Len(pipe'[t])
  <2>1. \A t \in Sockets : batch[t] \in Int /\ batch[t] <= Len(pipe[t])
    BY Types, BoundAssumption
  <2> QED BY <1>1, <1>2, <1>3, <2>1
<1> QED BY <1>1, <1>2, <1>3, <1>4, <1>5

LEMMA HandleTakes ==
  ASSUME ProtocolInv, NEW s \in Sockets, NEW m, NEW result, Handles(s, m, result)
  PROVE  /\ m = pipe[s][1] /\ m \in Messages /\ Len(pipe[s]) \in Nat /\ Len(pipe[s]) >= 1
         /\ pipe' \in [Sockets -> Seq(Messages)]
         /\ batch' \in [Sockets -> 0 .. MaxBatch] /\ \A t \in Sockets : batch'[t] <= Len(pipe'[t])
         /\ \A t \in Sockets : t # s => pipe'[t] = pipe[t]
         /\ Len(pipe'[s]) = Len(pipe[s]) - 1
         /\ \A i \in 1 .. Len(pipe[s]) - 1 : pipe'[s][i] = pipe[s][i + 1]
         /\ r'[s] = result /\ \A t \in Sockets : t # s => r'[t] = r[t]
         /\ result \in Results => r' \in [Sockets -> Results]
<1>1. pipe[s] \in Seq(Messages) /\ batch[s] \in Int /\ batch[s] <= Len(pipe[s]) /\ batch[s] > 0
  BY Types, BoundAssumption DEF Handles
<1>2. pipe[s] # <<>>
  BY <1>1
<1>3. /\ Len(pipe[s]) \in Nat /\ Len(pipe[s]) >= 1
      /\ Head(pipe[s]) = pipe[s][1] /\ Head(pipe[s]) \in Messages
      /\ Tail(pipe[s]) \in Seq(Messages) /\ Len(Tail(pipe[s])) = Len(pipe[s]) - 1
      /\ \A i \in 1 .. Len(pipe[s]) - 1 : Tail(pipe[s])[i] = pipe[s][i + 1]
  BY <1>1, <1>2, First
<1>4. /\ pipe' = [pipe EXCEPT ![s] = Tail(pipe[s])] /\ pipe'[s] = Tail(pipe[s])
      /\ \A t \in Sockets : t # s => pipe'[t] = pipe[t]
  BY Types DEF Handles
<1>5. pipe' \in [Sockets -> Seq(Messages)]
  BY <1>3, <1>4, Types
<1>6. /\ batch' = [batch EXCEPT ![s] = batch[s] - 1] /\ batch'[s] = batch[s] - 1
      /\ \A t \in Sockets : t # s => batch'[t] = batch[t]
  BY Types DEF Handles
<1>7. batch' \in [Sockets -> 0 .. MaxBatch] /\ \A t \in Sockets : batch'[t] <= Len(pipe'[t])
  <2>1. batch[s] - 1 \in 0 .. MaxBatch
    BY <1>1, Types, BoundAssumption
  <2>2. batch' \in [Sockets -> 0 .. MaxBatch]
    BY <1>6, <2>1, Types
  <2>3. batch'[s] <= Len(pipe'[s])
    BY <1>1, <1>3, <1>4, <1>6
  <2>4. \A t \in Sockets : t # s => batch'[t] <= Len(pipe'[t])
    BY <1>4, <1>6, Types
  <2> QED BY <2>2, <2>3, <2>4
<1>8. r' = [r EXCEPT ![s] = result] /\ r'[s] = result /\ \A t \in Sockets : t # s => r'[t] = r[t]
  BY Types DEF Handles
<1>9. result \in Results => r' \in [Sockets -> Results]
  BY <1>8, Types
<1>10. m = pipe[s][1] /\ m \in Messages
  BY <1>3 DEF Handles
<1> QED BY <1>3, <1>4, <1>5, <1>7, <1>8, <1>9, <1>10

(* The video is in order after a step that changes no message of it.       *)
LEMMA WireIs ==
  ASSUME ProtocolInv
  PROVE  Wire \in Sockets /\ pipe[Wire] \in Seq(Messages) /\ Len(pipe[Wire]) \in Nat
         /\ Sent \in Positions /\ Sent.frame = frame /\ Sent.part = part
<1>1. Wire \in Sockets
  BY DEF Wire, Sockets
<1>2. pipe[Wire] \in Seq(Messages) /\ Len(pipe[Wire]) \in Nat
  BY <1>1, Types, LenProperties
<1>3. Sent \in Positions /\ Sent.frame = frame /\ Sent.part = part
  BY Types, PlaceOf DEF Sent
<1> QED BY <1>1, <1>2, <1>3

LEMMA VideoStays ==
  ASSUME ProtocolInv, UNCHANGED <<dracType, frame, part>>, pipe'[Wire] = pipe[Wire],
         \A at \in Positions : Fits(at) => Fits(at)'
  PROVE  VideoInv'
<1> PICK at \in Positions : InOrder(pipe[Wire], at, Sent) /\ Fits(at)
  BY DEF ProtocolInv, VideoInv
<1>1. Wire' = Wire /\ Sent' = Sent
  BY DEF Wire, Sent
<1>2. Fits(at)'
  OBVIOUS
<1>3. InOrder(pipe'[Wire'], at, Sent')
  BY <1>1
<1> QED BY <1>2, <1>3 DEF VideoInv

LEMMA VideoGets ==
  ASSUME ProtocolInv, UNCHANGED <<dracType, frame, part>>,
         NEW s \in Sockets, NEW m \in Messages, ~ IsFrame(m), Put(s, m),
         \A at \in Positions : Fits(at) => Fits(at)'
  PROVE  VideoInv'
<1>1. CASE s # Wire
  <2>1. pipe'[Wire] = pipe[Wire]
    BY <1>1, PutGives, WireIs
  <2> QED BY <2>1, VideoStays
<1>2. CASE s = Wire
  <2> PICK at \in Positions : InOrder(pipe[Wire], at, Sent) /\ Fits(at)
    BY DEF ProtocolInv, VideoInv
  <2>1. Wire' = Wire /\ Sent' = Sent
    BY DEF Wire, Sent
  <2>2. Starts(Sent, m) /\ Succ(Sent, m) = Sent
    BY DEF Starts, Succ
  <2> PICK now : now = pipe'[s]
    OBVIOUS
  <2>3. /\ Len(pipe[s]) \in Nat /\ Len(now) = Len(pipe[s]) + 1
        /\ now[Len(pipe[s]) + 1] = m /\ \A i \in 1 .. Len(pipe[s]) : now[i] = pipe[s][i]
    BY PutGives
  <2>4. Sent.frame <= Sent.frame
    BY WireIs, Types, BoundAssumption
  <2>5. InOrder(pipe[s], at, Sent)
    BY <1>2
  <2>6. InOrder(now, at, Sent)
    BY <2>2, <2>3, <2>4, <2>5, WireIs, OrderAppend
  <2>7. InOrder(pipe'[Wire'], at, Sent')
    BY <1>2, <2>1, <2>6
  <2>8. Fits(at)'
    OBVIOUS
  <2> QED BY <2>7, <2>8 DEF VideoInv
<1> QED BY <1>1, <1>2

LEMMA VideoGives ==
  ASSUME ProtocolInv, UNCHANGED <<dracType, frame, part>>,
         NEW s \in Sockets, NEW m, ~ IsFrame(m), NEW result, Handles(s, m, result),
         \A at \in Positions : Fits(at) => Fits(at)'
  PROVE  VideoInv'
<1>1. CASE s # Wire
  <2>1. pipe'[Wire] = pipe[Wire]
    BY <1>1, HandleTakes, WireIs
  <2> QED BY <2>1, VideoStays
<1>2. CASE s = Wire
  <2> PICK at \in Positions : InOrder(pipe[Wire], at, Sent) /\ Fits(at)
    BY DEF ProtocolInv, VideoInv
  <2>1. Wire' = Wire /\ Sent' = Sent
    BY DEF Wire, Sent
  <2> PICK now : now = pipe'[s]
    OBVIOUS
  <2> PICK n \in Nat : n = Len(pipe[s]) - 1
    BY HandleTakes
  <2>2. /\ Len(pipe[s]) = n + 1 /\ Len(now) = n
        /\ m = pipe[s][1] /\ \A i \in 1 .. n : now[i] = pipe[s][i + 1]
    BY HandleTakes
  <2>3. InOrder(pipe[s], at, Sent)
    BY <1>2
  <2>4. InOrder(now, Succ(at, m), Sent)
    BY <2>2, <2>3, OrderRest
  <2>5. Succ(at, m) = at
    BY DEF Succ
  <2>6. InOrder(pipe'[Wire'], at, Sent')
    BY <1>2, <2>1, <2>4, <2>5
  <2>7. Fits(at)'
    OBVIOUS
  <2> QED BY <2>6, <2>7 DEF VideoInv
<1> QED BY <1>1, <1>2

(* The next message of the video is the one at its place.                  *)
LEMMA NextOfVideo ==
  ASSUME ProtocolInv, NEW m, IsFrame(m), NEW result, Handles(Wire, m, result),
         UNCHANGED <<frame, part>>
  PROVE  \E at \in Positions :
           /\ Fits(at) /\ Starts(at, m) /\ m \in FrameMessages
           /\ Succ(at, m) \in Positions /\ InOrder(pipe'[Wire'], Succ(at, m), Sent')
<1> PICK at \in Positions : InOrder(pipe[Wire], at, Sent) /\ Fits(at)
  BY DEF ProtocolInv, VideoInv
<1>1. Wire' = Wire /\ Sent' = Sent
  BY DEF Wire, Sent, Handles
<1> PICK now : now = pipe'[Wire]
  OBVIOUS
<1> PICK n \in Nat : n = Len(pipe[Wire]) - 1
  BY WireIs, HandleTakes
<1>2. /\ Len(pipe[Wire]) = n + 1 /\ Len(now) = n /\ m \in Messages
      /\ m = pipe[Wire][1] /\ \A i \in 1 .. n : now[i] = pipe[Wire][i + 1]
  BY WireIs, HandleTakes
<1>3. /\ Starts(at, m) /\ Succ(at, m) \in Positions
      /\ InOrder(now, Succ(at, m), Sent)
  BY <1>2, OrderRest
<1>4. m \in FrameMessages
  BY <1>2 DEF Messages, IsFrame
<1> QED BY <1>1, <1>3, <1>4

-----------------------------------------------------------------------------
(* A message of a frame: what load_data keeps fits the next place, and     *)
(* what it decodes is whole.                                               *)

Counts == IF dracType = "DRAC4" THEN 2 ELSE 1

(* What both handlers of frames do.                                        *)
Takes(m) ==
  /\ Load(m) /\ CountFrame(m, Counts)
  /\ needs_refresh' = (Skips(m) /\ (dracType = "DRAC4" \/ frame_count' <= 2))
  /\ refreshes' = refreshes + (IF dracType # "DRAC4" /\ Skips(m) /\ frame_count' > 2 THEN 1 ELSE 0)
  /\ UNCHANGED <<dracType, joinedMid, shown>>

LEMMA Loaded ==
  ASSUME ProtocolInv, NEW at \in Positions, Fits(at),
         NEW m \in FrameMessages, Starts(at, m), IsFrame(m), Load(m), ~ Skips(m)
  PROVE  /\ packet_buffer' \in Seq(FrameMessages)
         /\ at.part = 1 => packet_buffer' = <<m>>
         /\ at.part = 2 => /\ Len(packet_buffer') = 2 /\ packet_buffer'[2] = m
                           /\ packet_buffer'[1].bof /\ packet_buffer'[1].part = 1
                           /\ packet_buffer'[1].frame = m.frame
<1>1. m.frame = at.frame /\ m.part = at.part /\ m.bof = (at.part = 1)
  BY DEF Starts
<1>2. packet_buffer' = Append(Cleared(m), m)
  BY DEF Load
<1>3. CASE at.part = 1
  <2>1. Cleared(m) = <<>>
    BY <1>1, <1>3 DEF Cleared
  <2>2. packet_buffer' = <<m>>
    BY <1>2, <2>1
  <2> QED BY <1>3, <2>2
<1>4. CASE at.part = 2
  <2>0. ~ m.bof
    <3>1. ~ (at.part = 1)
      BY <1>4
    <3> QED BY <1>1, <3>1
  <2>1. Cleared(m) = packet_buffer
    BY <2>0 DEF Cleared
  <2>2. framebuffer /\ ~ needs_refresh
    BY <2>0 DEF Skips
  <2>3. Begun(at.frame)
    BY <1>4, <2>2 DEF Fits
  <2>4. packet_buffer \in Seq(FrameMessages)
    BY Types
  <2>5. Len(packet_buffer) = 1 /\ 1 \in 1 .. 1
    BY <2>3 DEF Begun
  <2>6. /\ packet_buffer' \in Seq(FrameMessages) /\ Len(packet_buffer') = 2
        /\ packet_buffer'[2] = m /\ packet_buffer'[1] = packet_buffer[1]
    BY <1>2, <2>1, <2>4, <2>5, Appended
  <2> QED BY <1>1, <1>4, <2>3, <2>6 DEF Begun
<1> QED BY <1>3, <1>4, PlaceTypes

LEMMA LoadTypes ==
  ASSUME ProtocolInv, NEW at \in Positions, Fits(at),
         NEW m \in FrameMessages, Starts(at, m), IsFrame(m), Takes(m)
  PROVE  /\ packet_buffer' \in Seq(FrameMessages) /\ picture' \in 0 .. MaxFrames
         /\ framebuffer' \in BOOLEAN /\ needs_refresh' \in BOOLEAN
         /\ refreshes' \in Nat /\ refreshes' >= refreshes
<1>1. m.bof \in BOOLEAN /\ m.frame \in 0 .. MaxFrames
  BY BoundAssumption DEF FrameMessages
<1>2. packet_buffer' \in Seq(FrameMessages)
  <2>1. CASE Skips(m)
    <3>1. packet_buffer' = Cleared(m)
      BY <2>1 DEF Takes, Load
    <3>2. <<>> \in Seq(FrameMessages)
      OBVIOUS
    <3> QED BY <3>1, <3>2, Types DEF Cleared
  <2>2. CASE ~ Skips(m)
    BY <2>2, Loaded DEF Takes
  <2> QED BY <2>1, <2>2
<1>3. picture' \in 0 .. MaxFrames
  <2>1. picture' = picture \/ picture' = m.frame
    BY DEF Takes, Load
  <2> QED BY <1>1, <2>1, Types
<1>4. framebuffer' \in BOOLEAN
  BY <1>1, Types DEF Takes, Load
<1>5. needs_refresh' \in BOOLEAN
  BY DEF Takes
<1>6. refreshes' \in Nat /\ refreshes' >= refreshes
  <2>1. refreshes' = refreshes \/ refreshes' = refreshes + 1
    BY Types DEF Takes
  <2> QED BY <2>1, Types
<1> QED BY <1>2, <1>3, <1>4, <1>5, <1>6

LEMMA CountFits ==
  ASSUME ProtocolInv, NEW at \in Positions, Fits(at),
         NEW m \in FrameMessages, Starts(at, m), IsFrame(m), Takes(m),
         NEW next \in Positions, next = Succ(at, m)
  PROVE  /\ frame_count' = IF dracType = "DRAC4" THEN 2 * (next.frame - 1) ELSE next.frame - 1
         /\ m.eof => next.frame = at.frame + 1 /\ next.part = 1
         /\ ~ m.eof => next.frame = at.frame /\ next.part = 2 /\ at.part = 1
<1>1. /\ m.eof => next.frame = at.frame + 1 /\ next.part = 1
      /\ ~ m.eof => next.frame = at.frame /\ next.part = 2 /\ at.part = 1
  <2>1. /\ m.eof => next = [frame |-> at.frame + 1, part |-> 1]
        /\ ~ m.eof => next = [frame |-> at.frame, part |-> 2]
    BY DEF Succ
  <2>2. ~ m.eof => at.part = 1
    BY PlaceTypes DEF Starts
  <2> QED BY <2>1, <2>2
<1>2. frame_count = IF dracType = "DRAC4" THEN 2 * (at.frame - 1) ELSE at.frame - 1
  BY DEF Fits
<1>3. frame_count' = frame_count + (IF m.eof THEN (IF dracType = "DRAC4" THEN 2 ELSE 1) ELSE 0)
  BY DEF Takes, CountFrame, Counts
<1>4. at.frame \in Int
  BY PlaceTypes
<1>5. CASE m.eof
  <2>1. next.frame = at.frame + 1
    BY <1>1, <1>5
  <2>2. frame_count' = IF dracType = "DRAC4" THEN 2 * (next.frame - 1) ELSE next.frame - 1
    BY <1>2, <1>3, <1>4, <1>5, <2>1
  <2> QED BY <1>1, <2>2
<1>6. CASE ~ m.eof
  <2>1. next.frame = at.frame
    BY <1>1, <1>6
  <2>2. frame_count' = IF dracType = "DRAC4" THEN 2 * (next.frame - 1) ELSE next.frame - 1
    BY <1>2, <1>3, <1>4, <1>6, <2>1
  <2> QED BY <1>1, <2>2
<1> QED BY <1>5, <1>6

(* A message that is not skipped.                                          *)
LEMMA KeptFits ==
  ASSUME ProtocolInv, NEW at \in Positions, Fits(at),
         NEW m \in FrameMessages, Starts(at, m), IsFrame(m), Takes(m),
         NEW next \in Positions, next = Succ(at, m), ~ Skips(m)
  PROVE  /\ framebuffer' /\ ~ needs_refresh' /\ refreshes' = refreshes
         /\ next.part = 2 => Begun(next.frame)'
         /\ DecodedWhole'
<1>1. framebuffer' /\ ~ needs_refresh' /\ refreshes' = refreshes
  <2>1. framebuffer \/ m.bof
    BY DEF Skips
  <2>2. refreshes + 0 = refreshes
    BY Types
  <2> QED BY <2>1, <2>2 DEF Takes, Load
<1>2. /\ m.frame = at.frame /\ m.part = at.part /\ m.bof = (at.part = 1)
  BY DEF Starts
<1>3. Load(m)
  BY DEF Takes
<1>4. next.part = 2 => Begun(next.frame)'
  <2> SUFFICES ASSUME next.part = 2  PROVE Begun(next.frame)'
    OBVIOUS
  <2>1. ~ m.eof /\ next.frame = at.frame /\ at.part = 1
    BY CountFits
  <2>2. packet_buffer' = <<m>>
    BY <1>3, <2>1, Loaded
  <2>3. Len(packet_buffer') = 1 /\ packet_buffer'[1] = m
    BY <2>2
  <2> QED BY <1>2, <2>1, <2>3 DEF Begun
<1>5. DecodedWhole'
  <2>1. CASE m.eof
    <3>1. decoded' = packet_buffer'
      BY <2>1 DEF Takes, Load
    <3>2. CASE at.part = 1
      <4>1. decoded' = <<m>>
        BY <1>3, <3>1, <3>2, Loaded
      <4>2. Len(decoded') = 1 /\ decoded'[1] = m
        BY <4>1
      <4>3. \A i \in 1 .. Len(decoded') : i = 1
        BY <4>2
      <4> QED BY <1>2, <2>1, <3>2, <4>2, <4>3 DEF DecodedWhole
    <3>3. CASE at.part = 2
      <4>1. /\ Len(decoded') = 2 /\ decoded'[2] = m /\ decoded'[1].bof
            /\ decoded'[1].part = 1 /\ decoded'[1].frame = m.frame
        BY <1>3, <3>1, <3>3, Loaded
      <4>2. \A i \in 1 .. Len(decoded') : i = 1 \/ i = 2
        BY <4>1
      <4> QED BY <1>2, <2>1, <3>3, <4>1, <4>2 DEF DecodedWhole
    <3> QED BY <3>2, <3>3, PlaceTypes
  <2>2. CASE ~ m.eof
    <3>1. decoded' = decoded
      BY <2>2 DEF Takes, Load
    <3> QED BY <3>1 DEF ProtocolInv, DecodedWhole
  <2> QED BY <2>1, <2>2
<1> QED BY <1>1, <1>4, <1>5

(* A message that is skipped: the video began within a frame, and is not   *)
(* at its fourth frame yet.                                                *)
LEMMA SkippedPlace ==
  ASSUME ProtocolInv, NEW at \in Positions, Fits(at),
         NEW m \in FrameMessages, Starts(at, m), IsFrame(m), Skips(m)
  PROVE  /\ joinedMid /\ dracType # "DRAC4" /\ at.frame \in 1 .. 3
         /\ refreshes = 0 /\ picture = NoFrame
         /\ at.frame = 1 => m.eof
         /\ at.frame \in 2 .. 3 => framebuffer \/ m.bof
<1>1. m.bof = (at.part = 1) /\ (at.part = 2 => m.eof) /\ m.bof \in BOOLEAN
  BY DEF Starts, FrameMessages
<1>2. needs_refresh \/ (~ framebuffer /\ ~ m.bof)
  BY DEF Skips
<1>3. joinedMid
  <2> SUFFICES ASSUME ~ joinedMid  PROVE FALSE
    BY Types
  <2>1. ~ needs_refresh /\ (framebuffer \/ at.part = 1)
    BY DEF Fits
  <2> QED BY <1>1, <1>2, <2>1
<1>4. at.frame \in 1 .. 3
  <2> SUFFICES ASSUME at.frame >= 4  PROVE FALSE
    BY PlaceTypes
  <2>1. ~ needs_refresh /\ (framebuffer \/ at.frame = 1 \/ at.frame = 2)
    BY <1>3 DEF Fits
  <2>2. framebuffer
    BY <2>1
  <2> QED BY <1>2, <2>1, <2>2
<1>5. dracType # "DRAC4" /\ (at.frame = 1 => at.part = 2)
  BY <1>3 DEF Fits
<1>6. refreshes = 0 /\ picture = NoFrame
  BY <1>3, <1>4 DEF Fits
<1>7. at.frame \in 2 .. 3 => framebuffer \/ m.bof
  <2>1. framebuffer \/ at.frame = 1 \/ (at.frame = 2 /\ at.part = 1)
    BY <1>3 DEF Fits
  <2>2. at.part = 1 => m.bof
    BY <1>1
  <2>3. at.frame # 1 \/ ~ (at.frame \in 2 .. 3)
    OBVIOUS
  <2> QED BY <2>1, <2>2, <2>3
<1> QED BY <1>1, <1>3, <1>4, <1>5, <1>6, <1>7

LEMMA SkippedFits ==
  ASSUME ProtocolInv, NEW at \in Positions, Fits(at),
         NEW m \in FrameMessages, Starts(at, m), IsFrame(m), Takes(m),
         NEW next \in Positions, next = Succ(at, m), Skips(m)
  PROVE  Fits(next)'
<1>1. /\ joinedMid' /\ dracType' # "DRAC4" /\ at.frame \in 1 .. 3
      /\ refreshes = 0 /\ picture' = NoFrame
      /\ at.frame = 1 => m.eof
      /\ at.frame \in 2 .. 3 => framebuffer'
  BY SkippedPlace DEF Takes, Load
<1>2. /\ frame_count' = next.frame - 1
      /\ m.eof => next.frame = at.frame + 1 /\ next.part = 1
      /\ ~ m.eof => next.frame = at.frame /\ next.part = 2 /\ at.part = 1
  <2>1. dracType # "DRAC4"
    BY <1>1 DEF Takes
  <2> QED BY <2>1, CountFits
<1>3. next.frame \in 2 .. 4 /\ (next.frame = 4 => next.part = 1)
  BY <1>1, <1>2
<1>4. needs_refresh' = (frame_count' <= 2)
  BY <1>1 DEF Takes
<1>5. refreshes' = IF frame_count' > 2 THEN 1 ELSE 0
  BY <1>1 DEF Takes
<1>6. framebuffer' \/ (next.frame = 2 /\ next.part = 1)
  BY <1>1, <1>2
<1>7. next.frame \in 2 .. 3 => needs_refresh'
  <2>1. next.frame \in 2 .. 3 => next.frame - 1 <= 2
    OBVIOUS
  <2> QED BY <1>2, <1>4, <2>1
<1>8. next.frame <= 3 => refreshes' = 0
  BY <1>2, <1>3, <1>5
<1>9. next.frame >= 4 => ~ needs_refresh' /\ refreshes' = 1
  <2>1. next.frame >= 4 => next.frame - 1 > 2 /\ ~ (next.frame - 1 <= 2)
    BY <1>3
  <2> QED BY <1>2, <1>4, <1>5, <2>1
<1>10. next.frame # 1 /\ (next.part = 2 => next.frame \in 2 .. 3)
  BY <1>3
<1>11. next.part = 2 => needs_refresh'
  BY <1>7, <1>10
<1> QED BY <1>1, <1>2, <1>6, <1>7, <1>8, <1>9, <1>10, <1>11 DEF Fits

LEMMA FrameFits ==
  ASSUME ProtocolInv, NEW at \in Positions, Fits(at),
         NEW m \in FrameMessages, Starts(at, m), IsFrame(m), Takes(m),
         NEW next \in Positions, next = Succ(at, m)
  PROVE  Fits(next)' /\ DecodedWhole'
<1>1. CASE Skips(m)
  <2>1. Fits(next)'
    BY <1>1, SkippedFits
  <2>2. decoded' = decoded
    BY <1>1 DEF Takes, Load
  <2>3. DecodedWhole'
    BY <2>2 DEF ProtocolInv, DecodedWhole
  <2> QED BY <2>1, <2>3
<1>2. CASE ~ Skips(m)
  <2>1. /\ framebuffer' /\ ~ needs_refresh' /\ refreshes' = refreshes
        /\ next.part = 2 => Begun(next.frame)'
        /\ DecodedWhole'
    BY <1>2, KeptFits
  <2>2. frame_count' = IF dracType' = "DRAC4" THEN 2 * (next.frame - 1) ELSE next.frame - 1
    <3>1. dracType' = dracType
      BY DEF Takes
    <3> QED BY <3>1, CountFits
  <2>3. joinedMid' = joinedMid /\ dracType' = dracType
    BY DEF Takes
  <2>4. ~ joinedMid => refreshes' = 0
    BY <2>1 DEF Fits
  <2>5. joinedMid => at.frame >= 4 /\ refreshes' = 1 /\ dracType # "DRAC4"
    <3> SUFFICES ASSUME joinedMid  PROVE at.frame >= 4 /\ refreshes' = 1 /\ dracType # "DRAC4"
      OBVIOUS
    <3>1. /\ at.frame = 1 => at.part = 2 /\ ~ framebuffer
          /\ at.frame \in 2 .. 3 => needs_refresh
          /\ at.frame >= 4 => refreshes = 1
          /\ dracType # "DRAC4"
      BY DEF Fits
    <3>2. ~ needs_refresh /\ (framebuffer \/ m.bof)
      BY <1>2 DEF Skips
    <3>3. m.bof => at.part = 1
      BY DEF Starts
    <3>4. at.frame # 1
      BY <3>1, <3>2, <3>3
    <3>5. at.frame >= 4
      BY <3>1, <3>2, <3>4, PlaceTypes
    <3> QED BY <2>1, <3>1, <3>5
  <2>6. joinedMid => next.frame >= 4
    BY <2>5, CountFits, PlaceTypes
  <2>7. next.frame >= 4 => next.frame # 1 /\ ~ (next.frame \in 2 .. 3) /\ ~ (next.frame <= 3)
    BY PlaceTypes
  <2>8. Fits(next)'
    BY <2>1, <2>2, <2>3, <2>4, <2>5, <2>6, <2>7 DEF Fits
  <2> QED BY <2>1, <2>8
<1> QED BY <1>1, <1>2

-----------------------------------------------------------------------------
(* The DRAC.                                                               *)

LEMMA RefreshStays ==
  ASSUME ProtocolInv, UNCHANGED <<joinedMid, shown>>, refreshes' \in Nat, refreshes' >= refreshes
  PROVE  RefreshBeforePicture'
<1>1. refreshes \in Nat
  BY Types
<1>2. joinedMid /\ shown \in 1 .. MaxFrames => refreshes > 0
  BY DEF ProtocolInv, RefreshBeforePicture
<1> QED BY <1>1, <1>2 DEF RefreshBeforePicture

LEMMA RefreshUnchanged ==
  ASSUME ProtocolInv, UNCHANGED <<joinedMid, shown, refreshes>>
  PROVE  RefreshBeforePicture'
BY DEF ProtocolInv, RefreshBeforePicture

LEMMA DecodedUnchanged ==
  ASSUME ProtocolInv, UNCHANGED decoded
  PROVE  DecodedWhole'
BY DEF ProtocolInv, DecodedWhole

LEMMA AnswerLoginKeeps ==
  ASSUME ProtocolInv, NEW code \in LoginCodes, AnswerLogin(code)
  PROVE  ProtocolInv'
<1> PICK m : m = [type |-> "login", code |-> code]
  OBVIOUS
<1>1. m \in Messages /\ ~ IsFrame(m) /\ IsLogin(m)
  BY DEF Messages, IsFrame, IsLogin
<1>2. /\ answered = Unanswered /\ answered' = code /\ Put("ctrl", m) /\ "ctrl" \in Sockets
      /\ UNCHANGED <<dracType, reader, shown, status, batch, r, loginSent, session_id, framebuffer, picture,
                     fb_dirty, needs_refresh, frame_count, packet_buffer, decoded, refreshes,
                     keepalives, frame, part, joinedMid, others>>
  BY DEF AnswerLogin, goVars, callVars, loginVars, decoderVars, askVars, Sockets
<1>3. answered' \in LoginCodes \cup {Unanswered} /\ answered' # Unanswered
  BY <1>2, CodeAssumption DEF Unanswered
<1>4. /\ pipe' \in [Sockets -> Seq(Messages)] /\ \A t \in Sockets : batch[t] <= Len(pipe'[t])
      /\ pipe'["video"] = pipe["video"]
      /\ Len(pipe["ctrl"]) \in Nat /\ Len(pipe'["ctrl"]) = Len(pipe["ctrl"]) + 1
      /\ pipe'["ctrl"][Len(pipe["ctrl"]) + 1] = m
      /\ \A i \in 1 .. Len(pipe["ctrl"]) : pipe'["ctrl"][i] = pipe["ctrl"][i]
  BY <1>1, <1>2, PutGives DEF Sockets
<1>5. ProtocolTypes'
  BY <1>2, <1>3, <1>4 DEF ProtocolInv, ProtocolTypes
<1>6. Elsewhere'
  <2>1. \A i \in 1 .. Len(pipe'["ctrl"]) : i \in 1 .. Len(pipe["ctrl"]) \/ i = Len(pipe["ctrl"]) + 1
    BY <1>4
  <2>2. dracType # "DRAC4" => \A i \in 1 .. Len(pipe'["ctrl"]) : ~ IsFrame(pipe'["ctrl"][i])
    BY <1>1, <1>4, <2>1 DEF ProtocolInv, Elsewhere
  <2> QED BY <1>2, <1>4, <2>2 DEF ProtocolInv, Elsewhere
<1>7. LoginOnce'
  <2>1. \A i \in 1 .. Len(pipe["ctrl"]) : ~ IsLogin(pipe'["ctrl"][i])
    BY <1>2, <1>4 DEF ProtocolInv, LoginOnce
  <2>2. \A i \in 1 .. Len(pipe'["ctrl"]) : IsLogin(pipe'["ctrl"][i]) => i = Len(pipe["ctrl"]) + 1
    BY <1>4, <2>1
  <2>3. reader["video"] = "off" /\ r["ctrl"] # NEED_TO_CONNECT_VIDEO
    BY <1>2 DEF ProtocolInv, LoginOnce
  <2> QED BY <1>2, <1>3, <2>2, <2>3 DEF LoginOnce
<1>8. VideoInv'
  BY <1>1, <1>2, FitsStays, VideoGets
<1> QED BY <1>2, <1>5, <1>6, <1>7, <1>8, RefreshUnchanged, DecodedUnchanged DEF ProtocolInv

(* A message that is no login.                                             *)
LEMMA PutKeeps ==
  ASSUME ProtocolInv, NEW s \in Sockets, NEW m \in Messages, Put(s, m), ~ IsLogin(m),
         IsFrame(m) => s = "video" \/ dracType = "DRAC4",
         s = "video" => reader["video"] # "off",
         UNCHANGED <<dracType, reader, r, answered>>
  PROVE  Elsewhere' /\ LoginOnce'
<1>1. CASE s = "ctrl"
  <2>1. /\ pipe'["video"] = pipe["video"]
        /\ Len(pipe["ctrl"]) \in Nat /\ Len(pipe'["ctrl"]) = Len(pipe["ctrl"]) + 1
        /\ pipe'["ctrl"][Len(pipe["ctrl"]) + 1] = m
        /\ \A i \in 1 .. Len(pipe["ctrl"]) : pipe'["ctrl"][i] = pipe["ctrl"][i]
    BY <1>1, PutGives DEF Sockets
  <2>2. \A i \in 1 .. Len(pipe'["ctrl"]) : i \in 1 .. Len(pipe["ctrl"]) \/ i = Len(pipe["ctrl"]) + 1
    BY <2>1
  <2>3. dracType # "DRAC4" => \A i \in 1 .. Len(pipe'["ctrl"]) : ~ IsFrame(pipe'["ctrl"][i])
    <3>1. dracType # "DRAC4" => ~ IsFrame(m)
      BY <1>1
    <3> QED BY <2>1, <2>2, <3>1 DEF ProtocolInv, Elsewhere
  <2>4. Elsewhere'
    BY <2>1, <2>3 DEF ProtocolInv, Elsewhere
  <2>5. \A i \in 1 .. Len(pipe'["ctrl"]) :
          IsLogin(pipe'["ctrl"][i]) => i \in 1 .. Len(pipe["ctrl"]) /\ IsLogin(pipe["ctrl"][i])
    BY <2>1, <2>2
  <2>6. LoginOnce'
    BY <2>5 DEF ProtocolInv, LoginOnce
  <2> QED BY <2>4, <2>6
<1>2. CASE s = "video"
  <2>1. pipe'["ctrl"] = pipe["ctrl"]
    BY <1>2, PutGives DEF Sockets
  <2>2. Elsewhere'
    BY <1>2, <2>1 DEF ProtocolInv, Elsewhere
  <2>3. LoginOnce'
    BY <2>1 DEF ProtocolInv, LoginOnce
  <2> QED BY <2>2, <2>3
<1> QED BY <1>1, <1>2 DEF Sockets

LEMMA SendOtherKeeps ==
  ASSUME ProtocolInv, NEW s \in Sockets,
         NEW type \in {"servers", "sharing", "other", "connected", "refused", "down"},
         SendOther(s, type)
  PROVE  ProtocolInv'
<1> PICK m : m = [type |-> type]
  OBVIOUS
<1>1. m \in Messages /\ ~ IsFrame(m) /\ ~ IsLogin(m)
  BY DEF Messages, IsFrame, IsLogin
<1>2. /\ others < MaxOthers /\ others' = others + 1 /\ Put(s, m)
      /\ s = "video" => reader["video"] # "off"
      /\ UNCHANGED <<dracType, reader, shown, status, batch, r, loginSent, session_id, framebuffer, picture,
                     fb_dirty, needs_refresh, frame_count, packet_buffer, decoded, refreshes,
                     keepalives, answered, frame, part, joinedMid>>
  BY DEF SendOther, goVars, callVars, loginVars, decoderVars, askVars
<1>3. /\ pipe' \in [Sockets -> Seq(Messages)] /\ \A t \in Sockets : batch[t] <= Len(pipe'[t])
  BY <1>1, <1>2, PutGives
<1>4. others' \in 0 .. MaxOthers
  BY <1>2, BoundAssumption DEF ProtocolInv, ProtocolTypes
<1>5. ProtocolTypes'
  BY <1>2, <1>3, <1>4 DEF ProtocolInv, ProtocolTypes
<1>6. Elsewhere' /\ LoginOnce'
  BY <1>1, <1>2, PutKeeps
<1>7. VideoInv'
  BY <1>1, <1>2, FitsStays, VideoGets
<1> QED BY <1>2, <1>5, <1>6, <1>7, RefreshUnchanged, DecodedUnchanged DEF ProtocolInv

LEMMA SendFrameKeeps ==
  ASSUME ProtocolInv, NEW eof \in BOOLEAN, NEW dirty \in BOOLEAN, SendFrame(eof, dirty)
  PROVE  ProtocolInv'
<1> PICK m : m = [type |-> "frame", frame |-> frame, part |-> part, bof |-> part = 1, eof |-> eof,
                  dirty |-> dirty]
  OBVIOUS
<1>1. /\ VideoOn /\ frame <= MaxFrames /\ (part = 2 => eof) /\ Put(Wire, m)
      /\ frame' = IF eof THEN frame + 1 ELSE frame
      /\ part' = IF eof THEN 1 ELSE 2
      /\ UNCHANGED <<dracType, reader, shown, status, batch, r, loginSent, session_id, framebuffer, picture,
                     fb_dirty, needs_refresh, frame_count, packet_buffer, decoded, refreshes,
                     keepalives, answered, joinedMid, others>>
  BY DEF SendFrame, Wire, goVars, callVars, loginVars, decoderVars, askVars
<1>2. /\ m.type = "frame" /\ m.frame = frame /\ m.part = part /\ m.bof = (part = 1)
      /\ m.eof = eof
  OBVIOUS
<1>3. m \in Messages /\ IsFrame(m) /\ ~ IsLogin(m)
  <2>1. frame \in 1 .. MaxFrames
    BY <1>1, Types, BoundAssumption
  <2>2. m \in FrameMessages
    BY <2>1, Types DEF FrameMessages
  <2> QED BY <1>2, <2>2 DEF Messages, IsFrame, IsLogin
<1>4. /\ pipe' \in [Sockets -> Seq(Messages)] /\ \A t \in Sockets : batch[t] <= Len(pipe'[t])
  BY <1>1, <1>3, WireIs, PutGives
<1>5. frame' \in 1 .. MaxFrames + 1 /\ part' \in 1 .. 2 /\ frame <= frame'
  BY <1>1, Types, BoundAssumption
<1>6. ProtocolTypes'
  BY <1>1, <1>4, <1>5 DEF ProtocolInv, ProtocolTypes
<1>7. Elsewhere' /\ LoginOnce'
  <2>1. Wire = "video" \/ dracType = "DRAC4"
    BY DEF Wire
  <2>2. Wire = "video" => reader["video"] # "off"
    BY <1>1 DEF Wire, VideoOn
  <2> QED BY <1>1, <1>3, <2>1, <2>2, WireIs, PutKeeps
<1>8. VideoInv'
  <2> PICK at \in Positions : InOrder(pipe[Wire], at, Sent) /\ Fits(at)
    BY DEF ProtocolInv, VideoInv
  <2>1. Wire' = Wire
    BY <1>1 DEF Wire
  <2> PICK now : now = pipe'[Wire]
    OBVIOUS
  <2>2. /\ Len(now) = Len(pipe[Wire]) + 1 /\ now[Len(pipe[Wire]) + 1] = m
        /\ \A i \in 1 .. Len(pipe[Wire]) : now[i] = pipe[Wire][i]
    BY <1>1, <1>3, WireIs, PutGives
  <2> PICK next : next = [frame |-> frame', part |-> part']
    OBVIOUS
  <2>3. next \in Positions /\ next.frame = frame'
    BY <1>5, PlaceOf
  <2>4. Starts(Sent, m)
    BY <1>1, <1>2, WireIs DEF Starts
  <2>5. next = Succ(Sent, m)
    <3>1. CASE eof
      BY <1>1, <1>2, <1>3, <3>1, WireIs DEF Succ
    <3>2. CASE ~ eof
      BY <1>1, <1>2, <1>3, <3>2, WireIs DEF Succ
    <3> QED BY <3>1, <3>2
  <2>6. Sent.frame <= next.frame
    BY <1>5, <2>3, WireIs
  <2>7. InOrder(now, at, next)
    <3> PICK n \in Nat : n = Len(pipe[Wire])
      BY WireIs
    <3>1. /\ Len(pipe[Wire]) = n /\ Len(now) = n + 1 /\ now[n + 1] = m
          /\ \A i \in 1 .. n : now[i] = pipe[Wire][i]
      BY <2>2
    <3>2. Sent \in Positions /\ InOrder(pipe[Wire], at, Sent)
      BY WireIs
    <3>3. Starts(Sent, now[n + 1]) /\ next = Succ(Sent, now[n + 1])
      BY <2>4, <2>5, <3>1
    <3> QED BY <2>3, <2>6, <3>1, <3>2, <3>3, OrderAppend
  <2>8. Sent' = next
    BY DEF Sent
  <2>9. Fits(at)'
    BY <1>1, FitsStays
  <2> QED BY <2>1, <2>7, <2>8, <2>9 DEF VideoInv
<1> QED BY <1>1, <1>6, <1>7, <1>8, RefreshUnchanged, DecodedUnchanged DEF ProtocolInv

-----------------------------------------------------------------------------
(* The handlers.                                                           *)

LEMMA HandleKeeps ==
  ASSUME ProtocolInv, NEW s \in Sockets, NEW m, NEW result \in Results, Handles(s, m, result),
         result = NEED_TO_CONNECT_VIDEO => s = "ctrl" /\ IsLogin(m) /\ dracType # "DRAC4"
  PROVE  Elsewhere' /\ LoginOnce'
<1>1. UNCHANGED <<dracType, reader, answered>>
  BY DEF Handles, goVars, dracVars
<1>2. CASE s = "ctrl"
  <2> PICK old : old = pipe["ctrl"]
    OBVIOUS
  <2> PICK now : now = pipe'["ctrl"]
    OBVIOUS
  <2>1. /\ pipe'["video"] = pipe["video"] /\ m = old[1]
        /\ Len(old) \in Nat /\ Len(old) >= 1 /\ Len(now) = Len(old) - 1
        /\ \A i \in 1 .. Len(old) - 1 : now[i] = old[i + 1]
        /\ r'["ctrl"] = result
    BY <1>2, HandleTakes DEF Sockets
  <2>2. \A i \in 1 .. Len(now) : i + 1 \in 1 .. Len(old) /\ i \in Int /\ now[i] = old[i + 1]
    BY <2>1
  <2>3. 1 \in 1 .. Len(old)
    BY <2>1
  <2>4. dracType # "DRAC4" => \A i \in 1 .. Len(now) : ~ IsFrame(now[i])
    BY <2>2 DEF ProtocolInv, Elsewhere
  <2>5. Elsewhere'
    BY <1>1, <1>2, <2>1, <2>4 DEF ProtocolInv, Elsewhere
  <2>6. ASSUME NEW i \in 1 .. Len(now), IsLogin(now[i])
        PROVE  IsLogin(old[i + 1]) /\ ~ IsLogin(m)
    <3>1. IsLogin(old[i + 1]) /\ i + 1 \in 1 .. Len(old)
      BY <2>2, <2>6
    <3>2. i + 1 # 1
      OBVIOUS
    <3>3. \A a, b \in 1 .. Len(old) : IsLogin(old[a]) /\ IsLogin(old[b]) => a = b
      BY DEF ProtocolInv, LoginOnce
    <3> QED BY <2>1, <2>3, <3>1, <3>2, <3>3
  <2>7. answered = Unanswered =>
          /\ \A i \in 1 .. Len(now) : ~ IsLogin(now[i])
          /\ ~ IsLogin(m) /\ reader["video"] = "off"
    BY <2>1, <2>2, <2>3 DEF ProtocolInv, LoginOnce
  <2>8. \A i, j \in 1 .. Len(now) : IsLogin(now[i]) /\ IsLogin(now[j]) => i = j
    <3> SUFFICES ASSUME NEW i \in 1 .. Len(now), NEW j \in 1 .. Len(now),
                        IsLogin(now[i]), IsLogin(now[j])
                 PROVE  i = j
      OBVIOUS
    <3>1. i + 1 \in 1 .. Len(old) /\ j + 1 \in 1 .. Len(old)
      BY <2>2
    <3>2. IsLogin(old[i + 1]) /\ IsLogin(old[j + 1])
      BY <2>6
    <3>3. i + 1 = j + 1
      BY <3>1, <3>2 DEF ProtocolInv, LoginOnce
    <3> QED BY <3>3
  <2>9. \A i \in 1 .. Len(now) :
          IsLogin(now[i]) => reader["video"] = "off" /\ r'["ctrl"] # NEED_TO_CONNECT_VIDEO
    <3> SUFFICES ASSUME NEW i \in 1 .. Len(now), IsLogin(now[i])
                 PROVE  reader["video"] = "off" /\ r'["ctrl"] # NEED_TO_CONNECT_VIDEO
      OBVIOUS
    <3>1. i + 1 \in 1 .. Len(old) /\ IsLogin(old[i + 1]) /\ ~ IsLogin(m)
      BY <2>2, <2>6
    <3>2. reader["video"] = "off"
      BY <3>1 DEF ProtocolInv, LoginOnce
    <3> QED BY <2>1, <3>1, <3>2
  <2>10. r'["ctrl"] = NEED_TO_CONNECT_VIDEO => reader["video"] = "off" /\ answered # Unanswered
    BY <2>1, <2>3, <2>7 DEF ProtocolInv, LoginOnce
  <2>11. LoginOnce'
    BY <1>1, <2>7, <2>8, <2>9, <2>10 DEF LoginOnce
  <2> QED BY <2>5, <2>11
<1>3. CASE s = "video"
  <2>1. /\ pipe'["ctrl"] = pipe["ctrl"] /\ r'["ctrl"] = r["ctrl"]
        /\ Len(pipe["video"]) \in Nat /\ Len(pipe["video"]) >= 1
    BY <1>3, HandleTakes DEF Sockets
  <2>2. reader["video"] # "off"
    <3>1. pipe["video"] # <<>>
      BY <2>1
    <3> QED BY <3>1 DEF ProtocolInv, Elsewhere
  <2>3. Elsewhere'
    BY <1>1, <2>1, <2>2 DEF ProtocolInv, Elsewhere
  <2>4. LoginOnce'
    BY <1>1, <2>1 DEF ProtocolInv, LoginOnce
  <2> QED BY <2>3, <2>4
<1> QED BY <1>2, <1>3 DEF Sockets

(* A handler of a message that is no frame, and which changes no picture.  *)
LEMMA OtherHandlerKeeps ==
  ASSUME ProtocolInv, NEW s \in Sockets, NEW m, NEW result \in Results, Handles(s, m, result),
         ~ IsFrame(m),
         result = NEED_TO_CONNECT_VIDEO => s = "ctrl" /\ IsLogin(m) /\ dracType # "DRAC4",
         loginSent' \in BOOLEAN, session_id' \in BOOLEAN, UNCHANGED <<decoderVars, askVars>>
  PROVE  ProtocolInv'
<1>1. UNCHANGED <<dracType, reader, shown, status, answered, frame, part, joinedMid, others, framebuffer,
                  picture, fb_dirty, needs_refresh, frame_count, packet_buffer, decoded,
                  refreshes, keepalives>>
  BY DEF Handles, goVars, dracVars, decoderVars, askVars
<1>2. /\ pipe' \in [Sockets -> Seq(Messages)] /\ r' \in [Sockets -> Results]
      /\ batch' \in [Sockets -> 0 .. MaxBatch] /\ \A t \in Sockets : batch'[t] <= Len(pipe'[t])
  BY HandleTakes
<1>3. ProtocolTypes'
  BY <1>1, <1>2 DEF ProtocolInv, ProtocolTypes
<1>4. Elsewhere' /\ LoginOnce'
  BY HandleKeeps
<1>5. VideoInv'
  BY <1>1, FitsStays, VideoGives
<1> QED BY <1>1, <1>3, <1>4, <1>5, RefreshUnchanged, DecodedUnchanged DEF ProtocolInv

LEMMA SomeResults ==
  /\ 0 \in Results /\ -1 \in Results /\ NEW_FRAME_READY \in Results /\ VIDEO_IS_DOWN \in Results
  /\ NEED_TO_CONNECT_VIDEO \notin {0, -1, NEW_FRAME_READY, VIDEO_IS_DOWN}
  /\ "ctrl" \in Sockets /\ "video" \in Sockets
BY DEF Results, NEW_FRAME_READY, VIDEO_IS_DOWN, NEED_TO_CONNECT_VIDEO, Sockets

LEMMA LoginResultIs ==
  ASSUME NEW code \in LoginCodes
  PROVE  LoginResult(code) \in Results
BY CodeAssumption DEF LoginResult, Results, ERR_LOGIN_FAILURE, NEED_TO_CONNECT_VIDEO

LEMMA OtherHandlersKeep ==
  ASSUME ProtocolInv,
         \/ HandleInit \/ HandleServers \/ HandleVideoDown \/ HandleVideoRefused
         \/ \E code \in LoginCodes : HandleLogin(code)
         \/ \E s \in Sockets : \E type \in {"sharing", "other", "connected", "init"} : HandleOther(s, type)
  PROVE  ProtocolInv'
<1>1. loginSent \in BOOLEAN /\ session_id \in BOOLEAN
  BY DEF ProtocolInv, ProtocolTypes
<1>2. CASE HandleInit
  <2> PICK m : m = [type |-> "init"]
    OBVIOUS
  <2>1. /\ Handles("ctrl", m, 0) /\ loginSent' = TRUE /\ session_id' = session_id
        /\ UNCHANGED <<decoderVars, askVars>>
    BY <1>2 DEF HandleInit
  <2>2. ~ IsFrame(m)
    BY DEF IsFrame
  <2> QED BY <1>1, <2>1, <2>2, SomeResults, OtherHandlerKeeps
<1>3. CASE HandleServers
  <2> PICK m : m = [type |-> "servers"]
    OBVIOUS
  <2>1. /\ Handles("ctrl", m, 0) /\ loginSent' = loginSent /\ session_id' \in BOOLEAN
        /\ UNCHANGED <<decoderVars, askVars>>
    BY <1>1, <1>3 DEF HandleServers
  <2>2. ~ IsFrame(m)
    BY DEF IsFrame
  <2> QED BY <1>1, <2>1, <2>2, SomeResults, OtherHandlerKeeps
<1>4. CASE HandleVideoDown
  <2> PICK m : m = [type |-> "down"]
    OBVIOUS
  <2>1. /\ Handles("video", m, VIDEO_IS_DOWN) /\ UNCHANGED <<loginSent, session_id>>
        /\ UNCHANGED <<decoderVars, askVars>>
    BY <1>4 DEF HandleVideoDown, loginVars
  <2>2. ~ IsFrame(m)
    BY DEF IsFrame
  <2> QED BY <1>1, <2>1, <2>2, SomeResults, OtherHandlerKeeps
<1>5. CASE HandleVideoRefused
  <2> PICK m : m = [type |-> "refused"]
    OBVIOUS
  <2>1. /\ Handles("video", m, -1) /\ UNCHANGED <<loginSent, session_id>>
        /\ UNCHANGED <<decoderVars, askVars>>
    BY <1>5 DEF HandleVideoRefused, loginVars
  <2>2. ~ IsFrame(m)
    BY DEF IsFrame
  <2> QED BY <1>1, <2>1, <2>2, SomeResults, OtherHandlerKeeps
<1>6. ASSUME NEW code \in LoginCodes, HandleLogin(code)  PROVE ProtocolInv'
  <2> PICK m : m = [type |-> "login", code |-> code]
    OBVIOUS
  <2>1. /\ dracType # "DRAC4" /\ Handles("ctrl", m, LoginResult(code))
        /\ UNCHANGED <<loginSent, session_id>> /\ UNCHANGED <<decoderVars, askVars>>
    BY <1>6 DEF HandleLogin, loginVars
  <2>2. ~ IsFrame(m) /\ IsLogin(m)
    BY DEF IsFrame, IsLogin
  <2> QED BY <1>1, <2>1, <2>2, SomeResults, LoginResultIs, OtherHandlerKeeps
<1>7. ASSUME NEW s \in Sockets, NEW type \in {"sharing", "other", "connected", "init"},
             HandleOther(s, type)
      PROVE  ProtocolInv'
  <2> PICK m : m = [type |-> type]
    OBVIOUS
  <2>1. /\ Handles(s, m, 0)
        /\ UNCHANGED <<loginSent, session_id>> /\ UNCHANGED <<decoderVars, askVars>>
    BY <1>7 DEF HandleOther, loginVars
  <2>2. ~ IsFrame(m)
    BY DEF IsFrame
  <2> QED BY <1>1, <2>1, <2>2, SomeResults, OtherHandlerKeeps
<1> QED BY <1>2, <1>3, <1>4, <1>5, <1>6, <1>7

(* The placeholder is shown to a DRAC 4, whose video begins with a frame.  *)
LEMMA HandleLogin4Keeps ==
  ASSUME ProtocolInv, NEW code \in LoginCodes, HandleLogin4(code)
  PROVE  ProtocolInv'
<1> PICK m : m = [type |-> "login", code |-> code]
  OBVIOUS
<1>1. /\ dracType = "DRAC4" /\ Handles("ctrl", m, NEW_FRAME_READY)
      /\ framebuffer' = TRUE /\ picture' = NoFrame
      /\ UNCHANGED <<loginSent, session_id, refreshes, keepalives, fb_dirty, needs_refresh, frame_count,
                     packet_buffer, decoded>>
      /\ UNCHANGED <<dracType, reader, shown, status, answered, frame, part, joinedMid, others>>
  BY DEF HandleLogin4, Handles, loginVars, askVars, goVars, dracVars
<1>2. ~ IsFrame(m)
  BY DEF IsFrame
<1>3. /\ pipe' \in [Sockets -> Seq(Messages)] /\ r' \in [Sockets -> Results]
      /\ batch' \in [Sockets -> 0 .. MaxBatch] /\ \A t \in Sockets : batch'[t] <= Len(pipe'[t])
  BY <1>1, SomeResults, HandleTakes
<1>4. picture' \in 0 .. MaxFrames
  BY <1>1, BoundAssumption DEF NoFrame
<1>5. ProtocolTypes'
  BY <1>1, <1>3, <1>4 DEF ProtocolInv, ProtocolTypes
<1>6. Elsewhere' /\ LoginOnce'
  BY <1>1, SomeResults, HandleKeeps
<1>7. ASSUME NEW at \in Positions, Fits(at)  PROVE Fits(at)'
  <2>1. ~ joinedMid
    BY <1>1, <1>7 DEF Fits
  <2>2. at.part = 2 => framebuffer
    BY <1>7, <2>1 DEF Fits
  <2>3. at.part = 2 /\ ~ needs_refresh => Begun(at.frame)'
    BY <1>1, <1>7, <2>2 DEF Fits, Begun
  <2> QED BY <1>1, <1>7, <2>1, <2>3 DEF Fits
<1>8. VideoInv'
  BY <1>1, <1>2, <1>7, SomeResults, VideoGives
<1> QED BY <1>1, <1>5, <1>6, <1>8, RefreshUnchanged, DecodedUnchanged DEF ProtocolInv

LEMMA FrameHandlerKeeps ==
  ASSUME ProtocolInv, NEW m, NEW result \in Results, Handles(Wire, m, result),
         result # NEED_TO_CONNECT_VIDEO, IsFrame(m), Load(m), CountFrame(m, Counts),
         needs_refresh' = (Skips(m) /\ (dracType = "DRAC4" \/ frame_count' <= 2)),
         refreshes' = refreshes
                      + (IF dracType # "DRAC4" /\ Skips(m) /\ frame_count' > 2 THEN 1 ELSE 0),
         fb_dirty' \in BOOLEAN, keepalives' \in Nat, UNCHANGED loginVars
  PROVE  ProtocolInv'
<1>1. UNCHANGED <<dracType, reader, shown, status, answered, frame, part, joinedMid, others,
                  loginSent, session_id>>
  BY DEF Handles, goVars, dracVars, loginVars
<1>2. /\ pipe' \in [Sockets -> Seq(Messages)] /\ r' \in [Sockets -> Results]
      /\ batch' \in [Sockets -> 0 .. MaxBatch] /\ \A t \in Sockets : batch'[t] <= Len(pipe'[t])
  BY WireIs, HandleTakes
<1> PICK at \in Positions :
           /\ Fits(at) /\ Starts(at, m) /\ m \in FrameMessages
           /\ Succ(at, m) \in Positions /\ InOrder(pipe'[Wire'], Succ(at, m), Sent')
  BY <1>1, NextOfVideo
<1> PICK next \in Positions : next = Succ(at, m)
  OBVIOUS
<1>3. Takes(m)
  BY <1>1 DEF Takes
<1>4. /\ packet_buffer' \in Seq(FrameMessages) /\ picture' \in 0 .. MaxFrames
      /\ framebuffer' \in BOOLEAN /\ needs_refresh' \in BOOLEAN
      /\ refreshes' \in Nat /\ refreshes' >= refreshes
  BY <1>3, LoadTypes
<1>5. ProtocolTypes'
  BY <1>1, <1>2, <1>4 DEF ProtocolInv, ProtocolTypes
<1>6. Elsewhere' /\ LoginOnce'
  BY WireIs, HandleKeeps
<1>7. Fits(next)' /\ DecodedWhole'
  BY <1>3, FrameFits
<1>8. VideoInv'
  BY <1>7 DEF VideoInv
<1>9. RefreshBeforePicture'
  BY <1>1, <1>4, RefreshStays
<1> QED BY <1>5, <1>6, <1>7, <1>8, <1>9 DEF ProtocolInv

LEMMA HandleFrameKeeps ==
  ASSUME ProtocolInv, HandleFrame
  PROVE  ProtocolInv'
<1> PICK m : m = Head(pipe["video"])
  OBVIOUS
<1> PICK result : result = IF Published(m) THEN NEW_FRAME_READY ELSE 0
  OBVIOUS
<1>1. /\ IsFrame(m) /\ Handles("video", m, result) /\ Load(m) /\ CountFrame(m, 1)
      /\ fb_dirty' = ((fb_dirty \/ (Ready(m) /\ m.dirty)) /\ ~ Published(m))
      /\ needs_refresh' = (Skips(m) /\ frame_count' <= 2)
      /\ refreshes' = refreshes + (IF Skips(m) /\ frame_count' > 2 THEN 1 ELSE 0)
      /\ UNCHANGED loginVars /\ keepalives' = keepalives
  BY DEF HandleFrame, IsFrame, StillNeeds
<1>2. dracType # "DRAC4"
  <2>1. pipe["video"] # <<>>
    BY DEF HandleFrame
  <2> QED BY <2>1 DEF ProtocolInv, Elsewhere
<1>3. Wire = "video" /\ Counts = 1
  BY <1>2 DEF Wire, Counts
<1>4. result \in Results /\ result # NEED_TO_CONNECT_VIDEO
  BY SomeResults
<1>5. fb_dirty' \in BOOLEAN /\ keepalives' \in Nat
  BY <1>1, Types
<1>6. /\ needs_refresh' = (Skips(m) /\ (dracType = "DRAC4" \/ frame_count' <= 2))
      /\ refreshes' = refreshes
                      + (IF dracType # "DRAC4" /\ Skips(m) /\ frame_count' > 2 THEN 1 ELSE 0)
  BY <1>1, <1>2
<1> QED BY <1>1, <1>3, <1>4, <1>5, <1>6, FrameHandlerKeeps

LEMMA HandleFrame4Keeps ==
  ASSUME ProtocolInv, HandleFrame4
  PROVE  ProtocolInv'
<1> PICK m : m = Head(pipe["ctrl"])
  OBVIOUS
<1> PICK result : result = IF Ready(m) THEN NEW_FRAME_READY ELSE 0
  OBVIOUS
<1>1. /\ IsFrame(m) /\ Handles("ctrl", m, result) /\ Load(m) /\ CountFrame(m, 2)
      /\ fb_dirty' = (fb_dirty \/ (Ready(m) /\ m.dirty))
      /\ needs_refresh' = Skips(m)
      /\ keepalives' = keepalives + (IF KeepaliveDue(m) THEN 1 ELSE 0)
      /\ UNCHANGED loginVars /\ refreshes' = refreshes
  BY DEF HandleFrame4, IsFrame
<1>2. dracType = "DRAC4"
  <2>1. m = pipe["ctrl"][1] /\ 1 \in 1 .. Len(pipe["ctrl"])
    BY <1>1, SomeResults, HandleTakes
  <2> QED BY <1>1, <2>1 DEF ProtocolInv, Elsewhere
<1>3. Wire = "ctrl" /\ Counts = 2
  BY <1>2 DEF Wire, Counts
<1>4. result \in Results /\ result # NEED_TO_CONNECT_VIDEO
  BY SomeResults
<1>5. fb_dirty' \in BOOLEAN /\ keepalives' \in Nat
  BY <1>1, Types
<1>6. needs_refresh' = (Skips(m) /\ (dracType = "DRAC4" \/ frame_count' <= 2))
  BY <1>1, <1>2 DEF Skips
<1>7. refreshes' = refreshes
                   + (IF dracType # "DRAC4" /\ Skips(m) /\ frame_count' > 2 THEN 1 ELSE 0)
  <2>1. refreshes + 0 = refreshes
    BY Types
  <2> QED BY <1>1, <1>2, <2>1
<1> QED BY <1>1, <1>3, <1>4, <1>5, <1>6, <1>7, FrameHandlerKeeps

-----------------------------------------------------------------------------
(* The readers.                                                            *)

LEMMA ReadKeeps ==
  ASSUME ProtocolInv, NEW s \in Sockets, NEW k \in 1 .. MaxBatch, Read(s, k)
  PROVE  ProtocolInv'
<1>1. /\ reader[s] = "read" /\ k <= Len(pipe[s])
      /\ reader' = [reader EXCEPT ![s] = "call"] /\ batch' = [batch EXCEPT ![s] = k]
      /\ r' = [r EXCEPT ![s] = 0]
      /\ UNCHANGED <<dracType, pipe, shown, status, loginSent, session_id, framebuffer, picture, fb_dirty,
                     needs_refresh, frame_count, packet_buffer, decoded, refreshes, keepalives,
                     answered, frame, part, joinedMid, others>>
  BY DEF Read, loginVars, decoderVars, askVars, dracVars
<1>2. k \in 0 .. MaxBatch
  BY BoundAssumption
<1>3. batch' \in [Sockets -> 0 .. MaxBatch] /\ \A t \in Sockets : batch'[t] <= Len(pipe[t])
  <2>1. batch'[s] = k /\ \A t \in Sockets : t # s => batch'[t] = batch[t]
    BY <1>1, Types
  <2>2. \A t \in Sockets : batch'[t] <= Len(pipe[t])
    BY <1>1, <2>1, Types
  <2> QED BY <1>1, <1>2, <2>2, Types
<1>4. r' \in [Sockets -> Results] /\ reader' \in [Sockets -> {"off", "read", "call"}]
  BY <1>1, SomeResults, Types
<1>5. ProtocolTypes'
  BY <1>1, <1>3, <1>4 DEF ProtocolInv, ProtocolTypes
<1>6. /\ r'["ctrl"] = NEED_TO_CONNECT_VIDEO => s = "video" /\ r["ctrl"] = NEED_TO_CONNECT_VIDEO
      /\ reader'["video"] = "off" <=> reader["video"] = "off"
      /\ s = "video" => reader'["ctrl"] = reader["ctrl"] /\ r'["ctrl"] = r["ctrl"]
  <2>1. CASE s = "ctrl"
    <3>1. r'["ctrl"] = 0 /\ reader'["video"] = reader["video"]
      BY <1>1, <2>1, Types, SomeResults
    <3> QED BY <2>1, <3>1, SomeResults
  <2>2. CASE s = "video"
    <3>1. reader'["video"] = "call" /\ reader["video"] = "read"
      BY <1>1, <2>2, Types
    <3>2. reader'["ctrl"] = reader["ctrl"] /\ r'["ctrl"] = r["ctrl"]
      BY <1>1, <2>2, Types, SomeResults
    <3> QED BY <2>2, <3>1, <3>2
  <2> QED BY <2>1, <2>2 DEF Sockets
<1>7. Elsewhere'
  <2>1. r["ctrl"] # NEED_TO_CONNECT_VIDEO => r'["ctrl"] # NEED_TO_CONNECT_VIDEO
    BY <1>6
  <2> QED BY <1>1, <1>6, <2>1 DEF ProtocolInv, Elsewhere
<1>8. LoginOnce'
  BY <1>1, <1>6 DEF ProtocolInv, LoginOnce
<1>9. VideoInv'
  BY <1>1, FitsStays, VideoStays
<1> QED BY <1>1, <1>5, <1>7, <1>8, <1>9, RefreshUnchanged, DecodedUnchanged DEF ProtocolInv

(* A reader whose call has returned reads again, or has ended.             *)
LEMMA ReturnKeeps ==
  ASSUME ProtocolInv, NEW s \in Sockets, reader[s] = "call",
         NEW to \in {"off", "read"}, to = "off" => s = "ctrl",
         reader' = [reader EXCEPT ![s] = to],
         shown' \in Nothing .. MaxFrames, status' \in Statuses,
         UNCHANGED <<dracType, pipe, batch, r, loginSent, session_id, framebuffer, picture, fb_dirty,
                     needs_refresh, frame_count, packet_buffer, decoded, refreshes, keepalives,
                     answered, frame, part, joinedMid, others>>
  PROVE  ProtocolTypes' /\ Elsewhere' /\ LoginOnce' /\ VideoInv' /\ DecodedWhole'
<1>1. reader' \in [Sockets -> {"off", "read", "call"}]
  BY Types
<1>2. ProtocolTypes'
  BY <1>1 DEF ProtocolInv, ProtocolTypes
<1>3. /\ reader'["video"] = "off" <=> reader["video"] = "off"
      /\ reader'["ctrl"] = "call" => reader["ctrl"] = "call"
  <2>1. CASE s = "ctrl"
    BY <2>1, Types DEF Sockets
  <2>2. CASE s = "video"
    BY <2>2, Types DEF Sockets
  <2> QED BY <2>1, <2>2 DEF Sockets
<1>4. Elsewhere'
  BY <1>3 DEF ProtocolInv, Elsewhere
<1>5. LoginOnce'
  BY <1>3 DEF ProtocolInv, LoginOnce
<1>6. VideoInv'
  BY FitsStays, VideoStays
<1> QED BY <1>2, <1>4, <1>5, <1>6, DecodedUnchanged

LEMMA UpdateKeeps ==
  ASSUME ProtocolInv, NEW s \in Sockets, Update(s)
  PROVE  ProtocolInv'
<1>1. /\ reader[s] = "call" /\ shown' = (IF r[s] = NEW_FRAME_READY THEN picture ELSE Down)
      /\ status' = "ready" /\ reader' = [reader EXCEPT ![s] = "read"]
      /\ UNCHANGED <<dracType, pipe, batch, r, loginSent, session_id, framebuffer, picture, fb_dirty,
                     needs_refresh, frame_count, packet_buffer, decoded, refreshes, keepalives,
                     answered, frame, part, joinedMid, others>>
  BY DEF Update, Returns, callVars, loginVars, decoderVars, askVars, dracVars
<1>2. /\ shown' \in Nothing .. MaxFrames /\ status' \in Statuses
      /\ shown' \in 1 .. MaxFrames => picture # NoFrame
  BY <1>1, Types, BoundAssumption DEF Nothing, Down, NoFrame, Statuses
<1>3. ProtocolTypes' /\ Elsewhere' /\ LoginOnce' /\ VideoInv' /\ DecodedWhole'
  BY <1>1, <1>2, ReturnKeeps
<1>4. joinedMid /\ picture # NoFrame => refreshes > 0
  <2> PICK at \in Positions : Fits(at)
    BY DEF ProtocolInv, VideoInv
  <2>1. joinedMid /\ at.frame <= 3 => picture = NoFrame
    BY DEF Fits
  <2>2. joinedMid /\ at.frame >= 4 => refreshes = 1
    BY DEF Fits
  <2> QED BY <2>1, <2>2, PlaceTypes
<1>5. RefreshBeforePicture'
  BY <1>1, <1>2, <1>4 DEF RefreshBeforePicture
<1> QED BY <1>3, <1>5 DEF ProtocolInv

LEMMA IdleKeeps ==
  ASSUME ProtocolInv, NEW s \in Sockets, Idle(s)
  PROVE  ProtocolInv'
<1>1. /\ reader[s] = "call" /\ shown' = shown
      /\ status' = (IF s = "ctrl" /\ LoginRefused(r[s]) THEN "auth error" ELSE status)
      /\ reader' = [reader EXCEPT ![s] = "read"]
      /\ UNCHANGED <<dracType, pipe, batch, r, loginSent, session_id, framebuffer, picture, fb_dirty,
                     needs_refresh, frame_count, packet_buffer, decoded, refreshes, keepalives,
                     answered, frame, part, joinedMid, others>>
  BY DEF Idle, Returns, callVars, loginVars, decoderVars, askVars, dracVars
<1>2. shown' \in Nothing .. MaxFrames /\ status' \in Statuses
  BY <1>1 DEF ProtocolInv, ProtocolTypes, Statuses
<1>3. ProtocolTypes' /\ Elsewhere' /\ LoginOnce' /\ VideoInv' /\ DecodedWhole'
  BY <1>1, <1>2, ReturnKeeps
<1> QED BY <1>1, <1>3, RefreshUnchanged DEF ProtocolInv

LEMMA ConnectVideoFailsKeeps ==
  ASSUME ProtocolInv, ConnectVideoFails
  PROVE  ProtocolInv'
<1>1. /\ reader["ctrl"] = "call" /\ shown' = shown /\ status' = "video connection error"
      /\ reader' = [reader EXCEPT !["ctrl"] = "off"]
      /\ UNCHANGED <<dracType, pipe, batch, r, loginSent, session_id, framebuffer, picture, fb_dirty,
                     needs_refresh, frame_count, packet_buffer, decoded, refreshes, keepalives,
                     answered, frame, part, joinedMid, others>>
  BY DEF ConnectVideoFails, Returns, callVars, loginVars, decoderVars, askVars, dracVars
<1>2. shown' \in Nothing .. MaxFrames /\ status' \in Statuses
  BY <1>1 DEF ProtocolInv, ProtocolTypes, Statuses
<1>3. ProtocolTypes' /\ Elsewhere' /\ LoginOnce' /\ VideoInv' /\ DecodedWhole'
  BY <1>1, <1>2, SomeResults, ReturnKeeps
<1> QED BY <1>1, <1>3, RefreshUnchanged DEF ProtocolInv

(* The second socket begins with nothing, or with what answers the header. *)
LEMMA ConnectVideoKeeps ==
  ASSUME ProtocolInv, ConnectVideo
  PROVE  ProtocolInv'
<1>1. /\ reader["ctrl"] = "call" /\ r["ctrl"] = NEED_TO_CONNECT_VIDEO
      /\ status' = "video connected" /\ reader' = [s \in Sockets |-> "read"]
      /\ pipe' = (IF dracType = "DRAC6" THEN [pipe EXCEPT !["video"] = <<[type |-> "init"]>>] ELSE pipe)
      /\ UNCHANGED <<dracType, shown, batch, r, loginSent, session_id, framebuffer, picture, fb_dirty,
                     needs_refresh, frame_count, packet_buffer, decoded, refreshes, keepalives,
                     answered, frame, part, joinedMid, others>>
  BY DEF ConnectVideo, Returns, callVars, loginVars, decoderVars, askVars, dracVars
<1>2. /\ answered # Unanswered /\ dracType # "DRAC4" /\ reader["video"] = "off"
      /\ \A i \in 1 .. Len(pipe["ctrl"]) : ~ IsLogin(pipe["ctrl"][i])
      /\ pipe["video"] = <<>>
  BY <1>1 DEF ProtocolInv, LoginOnce, Elsewhere
<1> PICK m : m = [type |-> "init"]
  OBVIOUS
<1>3. m \in Messages /\ ~ IsFrame(m)
  BY DEF Messages, IsFrame
<1> PICK now : now = pipe'["video"]
  OBVIOUS
<1>4. now = <<m>> \/ now = <<>>
  <2>1. CASE dracType = "DRAC6"
    BY <1>1, <2>1, Types, SomeResults
  <2>2. CASE dracType # "DRAC6"
    BY <1>1, <1>2, <2>2
  <2> QED BY <2>1, <2>2
<1>5. <<m>> \in Seq(Messages)
  <2> PICK message \in Messages : message = m
    BY <1>3
  <2>1. <<message>> \in Seq(Messages)
    OBVIOUS
  <2> QED BY <2>1
<1>6. pipe'["ctrl"] = pipe["ctrl"] /\ pipe' \in [Sockets -> Seq(Messages)]
  <2>1. CASE dracType = "DRAC6"
    <3>1. pipe' = [pipe EXCEPT !["video"] = <<m>>]
      BY <1>1, <2>1
    <3> QED BY <1>5, <3>1, Types, SomeResults
  <2>2. CASE dracType # "DRAC6"
    BY <1>1, <2>2, Types
  <2> QED BY <2>1, <2>2
<1>7. \A t \in Sockets : batch[t] <= Len(pipe'[t])
  <2>1. batch["ctrl"] <= Len(pipe'["ctrl"])
    BY <1>6, Types, SomeResults
  <2>2. batch["video"] <= Len(pipe["video"]) /\ batch["video"] \in Int
    BY Types, SomeResults, BoundAssumption
  <2>3. Len(pipe["video"]) = 0
    BY <1>2
  <2>4. batch["video"] <= Len(now)
    <3>1. Len(now) = 0 \/ Len(now) = 1
      BY <1>4
    <3> QED BY <2>2, <2>3, <3>1
  <2> QED BY <2>1, <2>4 DEF Sockets
<1>8. reader' \in [Sockets -> {"off", "read", "call"}] /\ status' \in Statuses
  BY <1>1 DEF Statuses
<1>9. ProtocolTypes'
  BY <1>1, <1>6, <1>7, <1>8 DEF ProtocolInv, ProtocolTypes
<1>10. reader'["video"] = "read" /\ reader'["ctrl"] = "read"
  BY <1>1, SomeResults
<1>11. Elsewhere'
  BY <1>1, <1>2, <1>6, <1>10 DEF ProtocolInv, Elsewhere
<1>12. LoginOnce'
  BY <1>1, <1>2, <1>6, <1>10 DEF LoginOnce
<1>13. VideoInv'
  <2> PICK at \in Positions : InOrder(pipe[Wire], at, Sent) /\ Fits(at)
    BY DEF ProtocolInv, VideoInv
  <2>1. Wire = "video" /\ Wire' = "video" /\ Sent' = Sent
    BY <1>1, <1>2 DEF Wire, Sent
  <2>2. at = Sent
    <3>1. Len(pipe[Wire]) = 0
      BY <1>2, <2>1
    <3> QED BY <3>1, OrderEnds
  <2>3. at.frame <= at.frame
    BY PlaceTypes
  <2>4. InOrder(now, at, at)
    <3>1. CASE now = <<>>
      <4>1. Len(now) = 0
        BY <3>1
      <4> QED BY <4>1, OrderOfNone
    <3>2. CASE now = <<m>>
      <4> PICK none : none = <<>>
        OBVIOUS
      <4> PICK n \in Nat : n = 0
        OBVIOUS
      <4>1. InOrder(none, at, at) /\ Len(none) = n
        BY OrderOfNone
      <4>2. Len(now) = n + 1 /\ now[n + 1] = m /\ \A i \in 1 .. n : now[i] = none[i]
        BY <3>2
      <4>3. Starts(at, now[n + 1]) /\ at = Succ(at, now[n + 1])
        BY <1>3, <4>2 DEF Starts, Succ
      <4> QED BY <2>3, <4>1, <4>2, <4>3, OrderAppend
    <3> QED BY <1>4, <3>1, <3>2
  <2>5. Fits(at)'
    BY <1>1, FitsStays
  <2> QED BY <2>1, <2>2, <2>4, <2>5 DEF VideoInv
<1> QED BY <1>1, <1>9, <1>11, <1>12, <1>13, RefreshUnchanged, DecodedUnchanged DEF ProtocolInv

-----------------------------------------------------------------------------
(* Every step.                                                             *)

LEMMA ProtocolStep == ProtocolInv /\ [Next]_vars => ProtocolInv'
<1> SUFFICES ASSUME ProtocolInv, [Next]_vars  PROVE ProtocolInv'
  OBVIOUS
<1>1. CASE UNCHANGED vars
  <2>1. UNCHANGED <<dracType, pipe, reader, shown, status, batch, r, loginSent, session_id, framebuffer,
                    picture, fb_dirty, needs_refresh, frame_count, packet_buffer, decoded,
                    refreshes, keepalives, answered, frame, part, joinedMid, others>>
    BY <1>1 DEF vars, goVars, callVars, loginVars, decoderVars, askVars, dracVars
  <2>2. ProtocolTypes' /\ Elsewhere'
    BY <2>1 DEF ProtocolInv, ProtocolTypes, Elsewhere
  <2>3. LoginOnce'
    BY <2>1 DEF ProtocolInv, LoginOnce
  <2>4. VideoInv'
    BY <2>1, FitsStays, VideoStays
  <2> QED BY <2>1, <2>2, <2>3, <2>4, RefreshUnchanged, DecodedUnchanged DEF ProtocolInv
<1>2. CASE Drac
  BY <1>2, AnswerLoginKeeps, SendOtherKeeps, SendFrameKeeps DEF Drac
<1>3. CASE Handler
  BY <1>3, OtherHandlersKeep, HandleLogin4Keeps, HandleFrameKeeps, HandleFrame4Keeps DEF Handler
<1>4. CASE Reader
  BY <1>4, ReadKeeps, UpdateKeeps, IdleKeeps, ConnectVideoKeeps, ConnectVideoFailsKeeps DEF Reader
<1> QED BY <1>1, <1>2, <1>3, <1>4 DEF Next

(* The messages of frames on their way lead from the place load_data has   *)
(* come to, to the one the DRAC has (protocol.c handles them in order, and *)
(* decoder.c counts and keeps them), and the login is answered once.       *)
THEOREM ProtocolInvariance == Spec => []ProtocolInv
<1> QED BY ProtocolBegins, ProtocolStep, PTL DEF Spec

(* Whatever comes, load_data decodes one frame from its first message to   *)
(* its last: a frame that began before the video was connected, or that is *)
(* skipped until the refresh, is never part of it.                         *)
THEOREM WholeFramesDecoded == Spec => []DecodedWhole
<1>1. ProtocolInv => DecodedWhole
  BY DEF ProtocolInv
<1> QED BY <1>1, ProtocolInvariance, PTL

(* A video that began within a frame reaches the viewers only after a      *)
(* refresh of the whole screen was asked for, which is asked for once.     *)
THEOREM RefreshIsRight == Spec => []RefreshRight
<1>1. ProtocolInv => RefreshRight
  BY TypesAreRight DEF ProtocolInv, RefreshRight
<1> QED BY <1>1, ProtocolInvariance, PTL
=============================================================================
