--------------------------- MODULE FramePipeline ---------------------------
(***************************************************************************)
(* The way of a frame from the decoder to the browsers of one session:     *)
(* videoUpdate (drac.go) makes it and hands it to every viewer,            *)
(* bufferedVideoWriter (vnc.go) keeps the latest one of a viewer,          *)
(* videoWriter sends it when the browser has asked for one, and frame.go   *)
(* counts the references, since the picture lives in C memory.             *)
(*                                                                         *)
(* A frame is known by the order in which videoUpdate made it; the picture *)
(* "connecting", of which every viewer gets a frame of its own, is counted *)
(* as one frame before them.  There is one reader: the DRAC sends its      *)
(* video on one of the two sockets.  Of the command                        *)
(* loop of a viewer only the update requests and its end are here; the end *)
(* of the session is dracHandler's release of lastPngFrame, which comes    *)
(* after the readers and the viewers (DracSession).                        *)
(***************************************************************************)
EXTENDS Integers, FiniteSets

CONSTANTS
  Viewers,
  NoViewer,
  MaxFrames,    \* bound: the frames that are ever made
  MaxAsked      \* bound: the update requests of one browser

ASSUME ViewerAssumption == NoViewer \notin Viewers /\ IsFiniteSet(Viewers)
ASSUME FrameAssumption  == MaxFrames \in Nat /\ MaxAsked \in Nat

Connecting == 0
NoFrame    == -1
Frames     == Connecting .. MaxFrames
FrameOrNil == Frames \cup {NoFrame}

VARIABLES
  made,        \* how many frames videoUpdate has made
  inC,         \* those with a backingData
  refcount,
  freed,       \* the frames cFree was called for
  reader,      \* where the reader is in videoUpdate, "over" after the session
  frame,       \* its local of that name
  cursor, served,  \* its loop over vncClients
  lastPngFrame,
  vncClients,
  command,     \* where the command loop of a viewer is
  buffer,      \* the local "frame" of bufferedVideoWriter
  buffering,   \* whether bufferedVideoWriter runs, is stopping, has stopped
  writing,     \* the local "frame" of videoWriter
  writer,      \* where videoWriter is
  pendingVideoUpdates,
  asked, sent, shown   \* by browser: requests made, frames got, the last one

readerVars == <<reader, frame, cursor, served>>
countVars  == <<made, inC, refcount, freed>>
viewVars   == <<command, buffer, buffering, writing, writer, pendingVideoUpdates>>
netVars    == <<asked, sent, shown>>
vars == <<countVars, readerVars, lastPngFrame, vncClients, viewVars, netVars>>

TypeOK ==
  /\ made \in 0 .. MaxFrames
  /\ inC \subseteq Frames
  /\ refcount \in [Frames -> Nat]
  /\ freed \subseteq inC
  /\ reader \in {"read", "save", "next", "send", "over", "panic"}
  /\ frame \in FrameOrNil
  /\ cursor \in Viewers \cup {NoViewer}
  /\ served \subseteq Viewers
  /\ lastPngFrame \in FrameOrNil
  /\ vncClients \subseteq Viewers
  /\ command \in [Viewers -> {"new", "read", "request", "stop", "stopped", "gone"}]
  /\ buffer \in [Viewers -> FrameOrNil]
  /\ buffering \in [Viewers -> {"on", "stopping", "off"}]
  /\ writing \in [Viewers -> FrameOrNil]
  /\ writer \in [Viewers -> {"wait", "ready", "write", "off"}]
  /\ pendingVideoUpdates \in [Viewers -> Nat]
  /\ asked \in [Viewers -> 0 .. MaxAsked]
  /\ sent \in [Viewers -> Nat]
  /\ shown \in [Viewers -> FrameOrNil]

Init ==
  /\ made = 0 /\ inC = {} /\ freed = {}
  /\ refcount = [f \in Frames |-> 0]
  /\ reader = "read" /\ frame = NoFrame /\ cursor = NoViewer /\ served = {}
  /\ lastPngFrame = NoFrame
  /\ vncClients = {}
  /\ command = [v \in Viewers |-> "new"]
  /\ buffer = [v \in Viewers |-> NoFrame]
  /\ buffering = [v \in Viewers |-> "on"]
  /\ writing = [v \in Viewers |-> NoFrame]
  /\ writer = [v \in Viewers |-> "wait"]
  /\ pendingVideoUpdates = [v \in Viewers |-> 0]
  /\ asked = [v \in Viewers |-> 0]
  /\ sent = [v \in Viewers |-> 0]
  /\ shown = [v \in Viewers |-> NoFrame]

-----------------------------------------------------------------------------
(* frame.go.                                                               *)

Acquired(count, f) == [count EXCEPT ![f] = @ + 1]

(* release: the last one frees the picture, unless it is an asset.         *)
Frees(f, count) == count[f] = 1 /\ f \in inC

(* To count and free: of the frame f, after the references in count.       *)
Release(f, count) ==
  /\ refcount' = [g \in Frames |-> count[g] - (IF g = f THEN 1 ELSE 0)]
  /\ freed' = freed \cup {g \in {f} \cap Frames : Frees(g, count)}

(* newFrame and newFrameFromBytes: the maker holds the first reference.    *)
Make(pictures) ==
  /\ made < MaxFrames
  /\ made' = made + 1
  /\ inC' = inC \cup pictures
  /\ refcount' = Acquired(refcount, made + 1)
  /\ frame' = made + 1

-----------------------------------------------------------------------------
(* videoUpdate.                                                            *)

(* NEW_FRAME_READY: the picture is encoded and first saved.                *)
NewFrameReady ==
  /\ reader = "read"
  /\ Make({made + 1})
  /\ reader' = "save"
  /\ UNCHANGED <<freed, cursor, served, lastPngFrame, vncClients, viewVars, netVars>>

(* VIDEO_IS_DOWN: the picture is an asset.                                 *)
VideoIsDown ==
  /\ reader = "read"
  /\ Make({})
  /\ reader' = "next" /\ cursor' = NoViewer /\ served' = {}
  /\ UNCHANGED <<freed, lastPngFrame, vncClients, viewVars, netVars>>

SavedReference(f) == Acquired(refcount, f)

(* saveFrameForAnimation: keep this frame, let the previous one go.        *)
SaveFrame ==
  /\ reader = "save"
  /\ Release(lastPngFrame, SavedReference(frame))
  /\ lastPngFrame' = frame
  /\ reader' = "next" /\ cursor' = NoViewer /\ served' = {}
  /\ UNCHANGED <<made, inC, frame, vncClients, viewVars, netVars>>

(* The next element of the list; Next() of one that was removed is nil.    *)
LoopOver ==
  \/ cursor # NoViewer /\ cursor \notin vncClients
  \/ vncClients \subseteq served

NextViewer(v) ==
  /\ reader = "next"
  /\ ~ LoopOver
  /\ v \in vncClients \ served
  /\ refcount' = Acquired(refcount, frame)
  /\ cursor' = v /\ served' = served \cup {v}
  /\ reader' = "send"
  /\ UNCHANGED <<made, inC, freed, frame, lastPngFrame, vncClients, viewVars, netVars>>

(* The send on videoChannel and its receive in bufferedVideoWriter, which  *)
(* drops a frame it still has.                                             *)
ReceivesWhenEmpty(v) == buffering[v] = "on" /\ buffer[v] = NoFrame

Receives(v) == buffering[v] = "on"

OverrunLeaks(v) == NoFrame

Overrun(v) == buffer[v]

OverrunKept(v) == IF buffer[v] = NoFrame THEN frame ELSE buffer[v]

Newest(v) == frame

Buffer(v) ==
  /\ reader = "send" /\ cursor = v
  /\ Receives(v)
  /\ Release(Overrun(v), refcount)
  /\ buffer' = [buffer EXCEPT ![v] = Newest(v)]
  /\ reader' = "next"
  /\ UNCHANGED <<made, inC, frame, cursor, served, lastPngFrame, vncClients, command,
                 buffering, writing, writer, pendingVideoUpdates, netVars>>

(* The viewer has closed its channel: the send panics (DracSession).       *)
SendOnClosed ==
  /\ reader = "send"
  /\ command[cursor] = "gone"
  /\ reader' = "panic"
  /\ UNCHANGED <<countVars, frame, cursor, served, lastPngFrame, vncClients, viewVars, netVars>>

EndUpdate ==
  /\ reader = "next"
  /\ LoopOver
  /\ Release(frame, refcount)
  /\ frame' = NoFrame /\ cursor' = NoViewer /\ served' = {}
  /\ reader' = "read"
  /\ UNCHANGED <<made, inC, lastPngFrame, vncClients, viewVars, netVars>>

(* dracHandler after its loop: the reader has ended, and nobody is left.   *)
EndSession ==
  /\ reader = "read"
  /\ vncClients = {}
  /\ Release(lastPngFrame, refcount)
  /\ lastPngFrame' = NoFrame
  /\ reader' = "over"
  /\ UNCHANGED <<made, inC, frame, cursor, served, vncClients, viewVars, netVars>>

-----------------------------------------------------------------------------
(* A viewer.                                                               *)

Alive == reader # "panic"

(* setupDracClient: before the first frame the viewer gets the picture     *)
(* "connecting", whose only reference goes to bufferedVideoWriter.         *)
Join(v) ==
  /\ Alive
  /\ command[v] = "new"
  /\ reader # "over"
  /\ command' = [command EXCEPT ![v] = "read"]
  /\ vncClients' = vncClients \cup {v}
  /\ IF lastPngFrame = NoFrame
     THEN refcount' = Acquired(refcount, Connecting) /\ buffer' = [buffer EXCEPT ![v] = Connecting]
     ELSE UNCHANGED <<refcount, buffer>>
  /\ UNCHANGED <<made, inC, freed, readerVars, lastPngFrame, buffering, writing, writer,
                 pendingVideoUpdates, netVars>>

(* The browser sends a FramebufferUpdateRequest, and the command loop      *)
(* offers it on sendVideoChannel.                                          *)
Ask(v) ==
  /\ Alive
  /\ command[v] = "read"
  /\ asked[v] < MaxAsked
  /\ asked' = [asked EXCEPT ![v] = @ + 1]
  /\ command' = [command EXCEPT ![v] = "request"]
  /\ UNCHANGED <<countVars, readerVars, lastPngFrame, vncClients, buffer, buffering, writing,
                 writer, pendingVideoUpdates, sent, shown>>

(* videoWriter takes the request, in either of its selects.                *)
Request(v) ==
  /\ Alive
  /\ command[v] = "request"
  /\ writer[v] \in {"wait", "ready"}
  /\ command' = [command EXCEPT ![v] = "read"]
  /\ pendingVideoUpdates' = [pendingVideoUpdates EXCEPT ![v] = @ + 1]
  /\ writer' = [writer EXCEPT ![v] = "ready"]
  /\ UNCHANGED <<countVars, readerVars, lastPngFrame, vncClients, buffer, buffering, writing,
                 netVars>>

(* The send on frameChannel hands the reference over as well.              *)
HandedTwice(v) == buffer[v]

HandedOver(v) == NoFrame

HandOver(v) ==
  /\ Alive
  /\ buffering[v] = "on" /\ buffer[v] # NoFrame
  /\ writer[v] = "ready"
  /\ writing' = [writing EXCEPT ![v] = buffer[v]]
  /\ buffer' = [buffer EXCEPT ![v] = HandedOver(v)]
  /\ writer' = [writer EXCEPT ![v] = "write"]
  /\ UNCHANGED <<countVars, readerVars, lastPngFrame, vncClients, command, buffering,
                 pendingVideoUpdates, netVars>>

SpentAll(v) == 0

Spent(v) == pendingVideoUpdates[v] - 1

(* sendVncFrame returns.                                                   *)
Written(v) ==
  /\ Alive
  /\ writer[v] = "write"
  /\ Release(writing[v], refcount)
  /\ writing' = [writing EXCEPT ![v] = NoFrame]
  /\ pendingVideoUpdates' = [pendingVideoUpdates EXCEPT ![v] = Spent(v)]
  /\ writer' = [writer EXCEPT ![v] = IF Spent(v) < 1 THEN "wait" ELSE "ready"]
  /\ sent' = [sent EXCEPT ![v] = @ + 1]
  /\ shown' = [shown EXCEPT ![v] = writing[v]]
  /\ UNCHANGED <<made, inC, readerVars, lastPngFrame, vncClients, command, buffer, buffering,
                 asked>>

(* The connection is gone: the command loop ends ...                       *)
HangUp(v) ==
  /\ Alive
  /\ command[v] = "read"
  /\ command' = [command EXCEPT ![v] = "stop"]
  /\ UNCHANGED <<countVars, readerVars, lastPngFrame, vncClients, buffer, buffering, writing,
                 writer, pendingVideoUpdates, netVars>>

(* ... it stops bufferedVideoWriter, which drops its frame ...             *)
KeptFrame(v) == NoFrame

LastFrame(v) == buffer[v]

StopBuffering(v) ==
  /\ Alive
  /\ command[v] = "stop"
  /\ command' = [command EXCEPT ![v] = "stopped"]
  /\ buffering' = [buffering EXCEPT ![v] = "stopping"]
  /\ Release(LastFrame(v), refcount)
  /\ buffer' = [buffer EXCEPT ![v] = NoFrame]
  /\ UNCHANGED <<made, inC, readerVars, lastPngFrame, vncClients, writing, writer,
                 pendingVideoUpdates, netVars>>

(* ... and stops videoWriter when that is not writing.                     *)
StopWriting(v) ==
  /\ Alive
  /\ buffering[v] = "stopping"
  /\ writer[v] \in {"wait", "ready"}
  /\ buffering' = [buffering EXCEPT ![v] = "off"]
  /\ writer' = [writer EXCEPT ![v] = "off"]
  /\ UNCHANGED <<countVars, readerVars, lastPngFrame, vncClients, command, buffer, writing,
                 pendingVideoUpdates, netVars>>

(* teardownDracClient unlinks the viewer and closes videoChannel.          *)
Teardown(v) ==
  /\ Alive
  /\ command[v] = "stopped"
  /\ command' = [command EXCEPT ![v] = "gone"]
  /\ vncClients' = vncClients \ {v}
  /\ UNCHANGED <<countVars, readerVars, lastPngFrame, buffer, buffering, writing, writer,
                 pendingVideoUpdates, netVars>>

-----------------------------------------------------------------------------
VideoUpdate ==
  \/ NewFrameReady \/ VideoIsDown \/ SaveFrame
  \/ \E v \in Viewers : NextViewer(v) \/ Buffer(v)
  \/ SendOnClosed \/ EndUpdate \/ EndSession

Viewer(v) ==
  \/ Join(v) \/ Ask(v) \/ Request(v) \/ HandOver(v) \/ Written(v)
  \/ HangUp(v) \/ StopBuffering(v) \/ StopWriting(v) \/ Teardown(v)

Next == VideoUpdate \/ \E v \in Viewers : Viewer(v)

Spec == Init /\ [][Next]_vars

(* Go runs every goroutine that can go on.  Nothing is assumed of the DRAC *)
(* (whether it sends another frame) or of the browsers (whether they ask,  *)
(* or leave).                                                              *)
DaemonFairness ==
  /\ WF_vars(SaveFrame) /\ WF_vars(\E v \in Viewers : NextViewer(v))
  /\ WF_vars(SendOnClosed) /\ WF_vars(EndUpdate)
  /\ \A v \in Viewers : /\ WF_vars(Buffer(v)) /\ WF_vars(StopBuffering(v))
                        /\ WF_vars(Teardown(v))

(* A browser that reads what it is sent, and a videoWriter whose selects   *)
(* do not starve the frame: a request is pending only so often.            *)
BrowserFairness(v) ==
  /\ WF_vars(Request(v)) /\ WF_vars(HandOver(v))
  /\ WF_vars(Written(v)) /\ WF_vars(StopWriting(v))

FairSpec == Spec /\ DaemonFairness

-----------------------------------------------------------------------------
(* Properties.                                                             *)

(* The places that hold a reference to the frame f: the local of           *)
(* videoUpdate, the acquired one of a send, lastPngFrame, and the locals   *)
(* of the two goroutines of every viewer.                                  *)
Holders(f) ==
  {<<"videoUpdate", NoViewer>> : x \in {frame} \cap {f}}
  \cup {<<"videoChannel", cursor>> : x \in {y \in {frame} \cap {f} : reader \in {"send", "panic"}}}
  \cup {<<"lastPngFrame", NoViewer>> : x \in {lastPngFrame} \cap {f}}
  \cup {<<"bufferedVideoWriter", v>> : v \in {u \in Viewers : buffer[u] = f}}
  \cup {<<"videoWriter", v>> : v \in {u \in Viewers : writing[u] = f}}

(* refcount counts the holders, whatever the order in which the reader,    *)
(* the buffers, the writers and the leaving viewers acquire, hand over and *)
(* release (the balance of acquire and release over drac.go and vnc.go).   *)
RefcountExact == \A f \in Frames : refcount[f] = Cardinality(Holders(f))

(* cFree is called for a frame only when nobody can still read its data:   *)
(* not while it is encoded, saved, buffered or written to a browser.       *)
NoFrameUsedAfterFree == \A f \in freed : Holders(f) = {}

(* When the session is over and the viewers are gone, the C memory of      *)
(* every frame has been given back.                                        *)
EveryFrameFreed ==
  /\ reader = "over"
  /\ \A v \in Viewers : command[v] = "new" \/ (command[v] = "gone" /\ writer[v] = "off")
  => freed = inC

(* A frame that was sent to a viewer is not lost: until the next one it is *)
(* buffered, being written or shown, so an overrun drops only older ones.  *)
NewestFrameKept ==
  \A v \in served :
    /\ reader \in {"next", "send"}
    /\ reader = "send" => v # cursor
    /\ buffering[v] = "on"
    => frame \in {buffer[v], writing[v], shown[v]}

(* A browser gets a frame only for a request it has made: what it asked    *)
(* for is what it got, what is pending and what the command loop offers.   *)
NeverUnasked ==
  \A v \in Viewers :
    asked[v] = sent[v] + pendingVideoUpdates[v] + (IF command[v] = "request" THEN 1 ELSE 0)

(* A frame in use is alive, the newest one is on its way to every viewer   *)
(* that was served, and a request is answered once.                        *)
DeliveryInv == TypeOK /\ NoFrameUsedAfterFree /\ NewestFrameKept /\ NeverUnasked

(* Per viewer the two goroutines are a slot for the latest frame that the  *)
(* reader overwrites and a request empties (LatestFrame): the picture of a *)
(* browser never goes back in time nor repeats.                            *)
Taken(v) == IF writer[v] = "write" THEN writing[v] ELSE shown[v]
Slot == INSTANCE LatestFrame WITH
  slot <- buffer,
  credit <- [v \in Viewers |-> pendingVideoUpdates[v] - (IF writer[v] = "write" THEN 1 ELSE 0)],
  seen <- [v \in Viewers |-> Taken(v)],
  open <- [v \in Viewers |-> buffering[v] = "on"]
ImplementsLatestFrame == Slot!Spec

(* A browser that does not read, or does not ask, delays neither the       *)
(* reader nor the other viewers: the send on its channel is received or    *)
(* the reader panics (DracSession), it does not block.                     *)
SlowBrowserDelaysNobody == reader = "send" ~> reader # "send"

(* A browser that reads gets an answer to each request once there is a     *)
(* frame, also to the second of two requests that arrived before the first *)
(* frame (comment at vnc.go:308), unless it leaves, and whether or not the *)
(* other browsers read.                                                    *)
Answered(v, n) ==
  /\ asked[v] > n /\ sent[v] = n
  /\ buffer[v] # NoFrame
  ~> sent[v] > n \/ command[v] \notin {"read", "request"} \/ ~ Alive

RequestAnswered ==
  \A v \in Viewers : BrowserFairness(v) => \A n \in 0 .. MaxAsked - 1 : Answered(v, n)

(* Who shares a console sees its screen: a viewer that asks gets the       *)
(* latest picture when there is one (what the code does: it gets nothing   *)
(* before the DRAC sends another frame).                                   *)
SharerSeesScreen ==
  \A v \in vncClients :
    /\ reader = "read" /\ lastPngFrame # NoFrame
    /\ writer[v] = "ready" /\ command[v] = "read"
    => {buffer[v], writing[v], shown[v]} # {NoFrame}

(* Every viewer that stays gets the newest frame (what the code does: the  *)
(* loop ends early when the viewer it has just served is removed).         *)
Missed(v) == v \in vncClients /\ buffering[v] = "on" /\ v \notin served
EveryViewerServed ==
  [][reader = "next" /\ reader' = "read" => \A v \in Viewers : ~ Missed(v)]_vars
=============================================================================
