--------------------------- MODULE AnimationWindow --------------------------
(***************************************************************************)
(* The pictures for an animation: the list that saveFrameForAnimation      *)
(* (drac.go) keeps, what encodeGif (gif.go) makes of its times, and what   *)
(* WriteGif (gif.c) writes of them.  Times are in units of 1/100 s.        *)
(***************************************************************************)
EXTENDS Integers, Sequences, SequencesExt

CONSTANTS
  Window,   \* 500 in the code
  Steps,    \* how much time passes
  MaxTime   \* bound

ASSUME WindowAssumption ==
  Window \in Nat /\ Steps \subseteq Nat \ {0} /\ MaxTime \in Nat

VARIABLES
  animatedFrameList,
  now,
  saved     \* history: every picture, with its time

animationVars == <<animatedFrameList, now, saved>>

AnimationInit == animatedFrameList = <<>> /\ now = 0 /\ saved = <<>>

AnimationTypeOK ==
  /\ now \in 0 .. MaxTime
  /\ \A i \in DOMAIN animatedFrameList : animatedFrameList[i].ts \in 0 .. now

Pass(t) ==
  /\ now + t <= MaxTime
  /\ now' = now + t
  /\ UNCHANGED <<animatedFrameList, saved>>

(* saveFrameForAnimation: the old ones go from the front, one must stay.   *)
Old(frame) == now - frame.ts > Window

DropOne(list) == IF Len(list) > 1 /\ Old(list[1]) THEN Tail(list) ELSE list

DropOld(list) ==
  LET stays == {i \in DOMAIN list : i = Len(list) \/ ~Old(list[i])}
  IN  SubSeq(list, CHOOSE i \in stays : \A j \in stays : i <= j, Len(list))

SaveFrameForAnimation(picture) ==
  LET frame == [picture |-> picture, ts |-> now]
  IN  /\ animatedFrameList' = DropOld(Append(animatedFrameList, frame))
      /\ saved' = Append(saved, frame)
      /\ UNCHANGED now

-----------------------------------------------------------------------------
(* encodeGif: a picture stays until the next one, the last one until now.  *)
SincePrevious(list, i) == list[i].ts - (IF i > 1 THEN list[i - 1].ts ELSE 0)

Delay(list, i) == (IF i < Len(list) THEN list[i + 1].ts ELSE now) - list[i].ts

(* WriteGif writes the delay as two bytes, of which a player takes the     *)
(* first for flags and the second for the low byte of the delay.           *)
ControlBlock(delay) == <<(delay \div 256) % 256, delay % 256, 0, 0>>

PlayedDelay(block) == block[2] + 256 * block[3]

(* When a picture starts in the animation, counted from the first one.     *)
Start[i \in 1 .. Len(animatedFrameList) + 1] ==
  IF i = 1 THEN 0
  ELSE Start[i - 1] + PlayedDelay(ControlBlock(Delay(animatedFrameList, i - 1)))

-----------------------------------------------------------------------------
(* The list is the newest part of what was shown: all of the pictures that *)
(* saveFrameForAnimation was called with in the window before the newest,  *)
(* and none that is older.                                                 *)
KeepsWindow ==
  saved # <<>> =>
    \E oldest \in DOMAIN saved :
      /\ animatedFrameList = SubSeq(saved, oldest, Len(saved))
      /\ \A i \in DOMAIN saved : i >= oldest <=> Last(saved).ts - saved[i].ts <= Window

(* The animation plays every picture when the screen showed it, and lasts  *)
(* until now, as long as every delay fits in the byte that WriteGif gives  *)
(* it: no picture stays for 2.56 s or more.                                *)
PlaysInTime ==
  (\A i \in DOMAIN animatedFrameList : Delay(animatedFrameList, i) < 256) =>
    \A i \in 1 .. Len(animatedFrameList) + 1 :
      animatedFrameList # <<>> =>
        Start[i] = (IF i <= Len(animatedFrameList) THEN animatedFrameList[i].ts ELSE now)
                   - animatedFrameList[1].ts
=============================================================================
