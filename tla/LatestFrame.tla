---------------------------- MODULE LatestFrame ----------------------------
(***************************************************************************)
(* What bufferedVideoWriter and videoWriter promise (vnc.go): "buffers     *)
(* latest incoming drac video frame while we wait for the vnc client to    *)
(* drain a video frame".  Per viewer there is one slot; the reader         *)
(* overwrites it with newer frames and never waits, and a browser takes    *)
(* what is in it, once for every request it has made.                      *)
(***************************************************************************)
EXTENDS Integers

CONSTANTS Viewers, FrameOrNil, NoFrame

VARIABLES
  slot,    \* the frame that waits for the browser, or NoFrame
  credit,  \* the requests not yet answered
  seen,    \* the last frame taken for the browser
  open     \* whether the viewer still takes frames

vars == <<slot, credit, seen, open>>

Init ==
  /\ slot = [v \in Viewers |-> NoFrame]
  /\ credit = [v \in Viewers |-> 0]
  /\ seen = [v \in Viewers |-> NoFrame]
  /\ open = [v \in Viewers |-> TRUE]

(* Newer than what the viewer has, in either place.                        *)
Put(v, f) ==
  /\ open[v]
  /\ f > slot[v] /\ f > seen[v]
  /\ slot' = [slot EXCEPT ![v] = f]
  /\ UNCHANGED <<credit, seen, open>>

Ask(v) ==
  /\ credit' = [credit EXCEPT ![v] = @ + 1]
  /\ UNCHANGED <<slot, seen, open>>

Take(v) ==
  /\ open[v]
  /\ slot[v] # NoFrame /\ credit[v] > 0
  /\ seen' = [seen EXCEPT ![v] = slot[v]]
  /\ slot' = [slot EXCEPT ![v] = NoFrame]
  /\ credit' = [credit EXCEPT ![v] = @ - 1]
  /\ UNCHANGED open

Close(v) ==
  /\ open[v]
  /\ open' = [open EXCEPT ![v] = FALSE]
  /\ slot' = [slot EXCEPT ![v] = NoFrame]
  /\ UNCHANGED <<credit, seen>>

Next ==
  \E v \in Viewers :
    Ask(v) \/ Take(v) \/ Close(v) \/ \E f \in FrameOrNil : Put(v, f)

Spec == Init /\ [][Next]_vars
=============================================================================
