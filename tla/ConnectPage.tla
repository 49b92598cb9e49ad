---------------------------- MODULE ConnectPage -----------------------------
(***************************************************************************)
(* The page that the daemon serves (connect.html in assets.go): the form,  *)
(* the polling of /status, the address, and the RFB objects of rfb.js that *)
(* show a console.                                                         *)
(*                                                                         *)
(* Everything here is one thread of events: answers to requests, popstate  *)
(* events, timers, the events of WebSockets, the user.  A handler sees     *)
(* what the others did since its request or timer began.                   *)
(***************************************************************************)
EXTENDS Naturals, Sequences

CONSTANTS
  Hosts,
  NoHost,    \* the empty address
  MaxRfbs    \* bound: consoles opened

ASSUME PageAssumption == NoHost \notin Hosts /\ MaxRfbs \in Nat

VARIABLES
  rfbhost,   \* the host the page is about
  hash,      \* the host in the address
  popstates, \* popstate events to come
  form,      \* whether the form is displayed
  progress,  \* whether the progress bar is, and of which host it tells
  alert,     \* the error shown: the host it names and the one that failed
  posts, polls, \* of a host: the requests that wait for an answer
  rfbs,      \* the RFB objects made
  rfb,       \* which of them is the page's, 0 if none
  pageFaults \* history: what the page is not made for

pageVars == <<rfbhost, hash, popstates, form, progress, alert, posts, polls, rfbs, rfb, pageFaults>>

Addresses == Hosts \cup {NoHost}
Ends      == {"connection error", "video connection error", "auth error"}
Waits     == {"connecting", "connected", "video connected"}
NoAlert   == [names |-> NoHost, of |-> NoHost]

PageTypeOK ==
  /\ rfbhost \in Addresses /\ hash \in Addresses /\ popstates \in Nat
  /\ form \in BOOLEAN /\ progress \in [shown : BOOLEAN, host : Addresses]
  /\ alert \in [names : Addresses, of : Addresses]
  /\ posts \in [Hosts -> Nat] /\ polls \in [Hosts -> Nat]
  /\ rfbs \in Seq([host : Hosts, state : {"connect", "normal", "disconnect", "disconnected", "failed"},
                   socket : {"opening", "open", "closing", "closed"},
                   disconnTimer : BOOLEAN, failTimer : BOOLEAN])
  /\ rfb \in 0 .. Len(rfbs)
  /\ pageFaults \subseteq {"again", "slow", "form hidden"}

Live(i) == rfbs[i].state \in {"connect", "normal"}
Requested(h) == posts[h] + polls[h] > 0

-----------------------------------------------------------------------------
(* The page is loaded, perhaps with a host in its address.                 *)
PageInit ==
  /\ hash \in Addresses /\ rfbhost = hash /\ popstates = 0
  /\ form = TRUE /\ progress = [shown |-> FALSE, host |-> NoHost] /\ alert = NoAlert
  /\ posts = [h \in Hosts |-> IF h = hash THEN 1 ELSE 0]
  /\ polls = [h \in Hosts |-> 0]
  /\ rfbs = <<>> /\ rfb = 0 /\ pageFaults = {}

(* An assignment to window.location: a popstate event follows.             *)
GoTo(address) ==
  /\ hash' = address
  /\ popstates' = popstates + (IF address # hash THEN 1 ELSE 0)

ShowError(named, of) ==
  /\ form' = TRUE
  /\ progress' = [progress EXCEPT !.shown = FALSE]
  /\ alert' = [names |-> named, of |-> of]
  /\ GoTo(NoHost)

(* connect: a POST for the host, which is the page's from now on.          *)
Connect(h) ==
  /\ rfbhost' = h
  /\ posts' = [posts EXCEPT ![h] = @ + 1]
  /\ alert' = NoAlert
  /\ pageFaults' = pageFaults \cup (IF Requested(h) THEN {"again"} ELSE {})
  /\ UNCHANGED polls

-----------------------------------------------------------------------------
(* The states of an RFB object (updateState of rfb.js).  In all those      *)
(* below it takes the keyboard away and closes its socket.                 *)
Closing(r) == IF r.socket \in {"opening", "open"} THEN [r EXCEPT !.socket = "closing"] ELSE r

Disconnecting(r) == [Closing(r) EXCEPT !.state = "disconnect", !.disconnTimer = TRUE]
Failed(r)        == [Closing(r) EXCEPT !.state = "failed", !.disconnTimer = FALSE, !.failTimer = TRUE]
Disconnected(r)  ==
  [Closing(r) EXCEPT !.state = IF r.state = "failed" THEN "failed" ELSE "disconnected",
                     !.disconnTimer = FALSE]

Becomes(i, r) == rfbs' = [rfbs EXCEPT ![i] = r]

(* The socket and the handshake (VncHandshake); then the keyboard is its.  *)
RfbOpens(i) ==
  /\ rfbs[i].state = "connect"
  /\ Becomes(i, [rfbs[i] EXCEPT !.state = "normal", !.socket = "open"])
  /\ UNCHANGED <<rfbhost, hash, popstates, form, progress, alert, posts, polls, rfb, pageFaults>>

(* failed: updateRfbState reports an error of the host the page is about.  *)
RfbFails(i, r) ==
  /\ Becomes(i, Failed(r))
  /\ ShowError(rfbhost, r.host)
  /\ UNCHANGED <<rfbhost, posts, polls, rfb>>

(* The close event of a WebSocket.                                         *)
RfbCloses(i) ==
  LET closed == [rfbs[i] EXCEPT !.socket = "closed"] IN
  /\ rfbs[i].socket # "closed"
  /\ CASE Live(i) -> RfbFails(i, closed) /\ UNCHANGED pageFaults
       [] rfbs[i].state = "disconnect" ->
            /\ Becomes(i, Disconnected(closed))
            /\ UNCHANGED <<rfbhost, hash, popstates, form, progress, alert, posts, polls, rfb, pageFaults>>
       [] OTHER ->
            /\ Becomes(i, closed)
            /\ UNCHANGED <<rfbhost, hash, popstates, form, progress, alert, posts, polls, rfb, pageFaults>>

(* 50 ms after a failure.                                                  *)
FailTimer(i) ==
  /\ rfbs[i].failTimer
  /\ Becomes(i, [Disconnected(rfbs[i]) EXCEPT !.failTimer = FALSE])
  /\ UNCHANGED <<rfbhost, hash, popstates, form, progress, alert, posts, polls, rfb, pageFaults>>

(* 3 s after a disconnect to which no close event came.                    *)
DisconnTimer(i) ==
  /\ rfbs[i].disconnTimer
  /\ RfbFails(i, rfbs[i])
  /\ pageFaults' = pageFaults \cup {"slow"}

-----------------------------------------------------------------------------
(* updateProgress.                                                         *)
StaysPolling(h) == UNCHANGED polls

PollAgain(h) == polls' = [polls EXCEPT ![h] = @ + 1]

Connecting(h) ==
  /\ form' = FALSE
  /\ progress' = [shown |-> TRUE, host |-> h]

StartRfbConnection(h) ==
  /\ Len(rfbs) < MaxRfbs
  /\ rfbs' = Append(rfbs, [host |-> h, state |-> "connect", socket |-> "opening",
                           disconnTimer |-> FALSE, failTimer |-> FALSE])
  /\ rfb' = Len(rfbs')

(* An answer that comes when the page is about another host is dropped,    *)
(* and with it the polling of its host.                                    *)
AnyAnswer(h) == FALSE

Stale(h) == h # rfbhost

Drop == UNCHANGED <<rfbhost, hash, popstates, form, progress, alert, rfbs, rfb, pageFaults>>

(* The answer to a POST.                                                   *)
PostAnswered(h) ==
  /\ posts[h] > 0 /\ posts' = [posts EXCEPT ![h] = @ - 1]
  /\ \/ Stale(h) /\ Drop /\ UNCHANGED polls
     \/ /\ ~Stale(h)
        /\ Connecting(h) /\ PollAgain(h)
        /\ UNCHANGED <<rfbhost, hash, popstates, alert, rfbs, rfb, pageFaults>>
     \/ /\ ~Stale(h) (* "need credentials": only the fields are cleared *)
        /\ pageFaults' = pageFaults \cup (IF form THEN {} ELSE {"form hidden"})
        /\ UNCHANGED <<rfbhost, hash, popstates, form, progress, alert, polls, rfbs, rfb>>

(* The answer to a GET of /status.                                         *)
PollAnswered(h, status) ==
  /\ polls[h] > 0
  /\ \/ /\ Stale(h) /\ Drop
        /\ polls' = [polls EXCEPT ![h] = @ - 1]
     \/ /\ ~Stale(h) /\ status \in Waits
        /\ IF status = "connecting" THEN Connecting(h)
           ELSE UNCHANGED form /\ progress' = [progress EXCEPT !.host = h]
        /\ StaysPolling(h)
        /\ UNCHANGED <<rfbhost, hash, popstates, alert, rfbs, rfb, pageFaults>>
     \/ /\ ~Stale(h) /\ status = "ready"
        /\ polls' = [polls EXCEPT ![h] = @ - 1]
        /\ progress' = [progress EXCEPT !.shown = FALSE]
        /\ StartRfbConnection(h)
        /\ UNCHANGED <<rfbhost, hash, popstates, form, alert, pageFaults>>
     \/ /\ ~Stale(h) /\ status \in Ends
        /\ polls' = [polls EXCEPT ![h] = @ - 1]
        /\ ShowError(h, h)
        /\ UNCHANGED <<rfbhost, rfbs, rfb, pageFaults>>
  /\ UNCHANGED posts

(* A request fails.                                                        *)
RequestFails(h) ==
  /\ \/ posts[h] > 0 /\ posts' = [posts EXCEPT ![h] = @ - 1] /\ UNCHANGED polls
     \/ polls[h] > 0 /\ polls' = [polls EXCEPT ![h] = @ - 1] /\ UNCHANGED posts
  /\ IF Stale(h) THEN Drop
     ELSE ShowError(h, h) /\ UNCHANGED <<rfbhost, rfbs, rfb, pageFaults>>

-----------------------------------------------------------------------------
(* The popstate event: the page follows its address.                       *)
LeaveHost == rfbhost' = NoHost

HangUp(i) == IF i = 0 THEN UNCHANGED rfbs ELSE Becomes(i, Disconnecting(rfbs[i]))

Popstate ==
  /\ popstates > 0 /\ popstates' = popstates - 1
  /\ \/ /\ hash = rfbhost
        /\ UNCHANGED <<rfbhost, form, progress, alert, posts, polls, rfbs, rfb, pageFaults>>
     \/ /\ hash # rfbhost
        /\ HangUp(rfb) /\ rfb' = 0
        /\ \/ /\ hash = NoHost
              /\ LeaveHost /\ form' = TRUE
              /\ progress' = [progress EXCEPT !.shown = FALSE]
              /\ UNCHANGED <<alert, posts, polls, pageFaults>>
           \/ /\ hash # NoHost
              /\ Connect(hash)
              /\ UNCHANGED <<form, progress>>
  /\ UNCHANGED hash

(* The user: the form, a link or the back button.                          *)
Submit(h) ==
  /\ form
  /\ Connect(h) /\ GoTo(h)
  /\ UNCHANGED <<form, progress, rfbs, rfb>>

Navigate(address) ==
  /\ address # hash /\ GoTo(address)
  /\ UNCHANGED <<rfbhost, form, progress, alert, posts, polls, rfbs, rfb, pageFaults>>

-----------------------------------------------------------------------------
RequestsAnswered ==
  \/ \E h \in Hosts : PostAnswered(h) \/ RequestFails(h)
  \/ \E h \in Hosts, status \in Waits \cup Ends \cup {"ready"} : PollAnswered(h, status)

(* As long as it is about the hosts one after the other, the page has one  *)
(* console, and it is that of the host it is about: whatever answers and   *)
(* events are still to come, those of other hosts were hung up.  (A host   *)
(* connected to again while it is being connected to gets two.  One that   *)
(* is hung up too slowly ends as an error of the page, which shows the     *)
(* form beside the console of the next host.)                              *)
OneConsole ==
  pageFaults \subseteq {"form hidden"} =>
    \A i \in DOMAIN rfbs : Live(i) => i = rfb /\ rfbs[i].host = rfbhost

(* When no event is to come, the page is about the host in its address.    *)
AddressIsHost == popstates = 0 => rfbhost = hash

(* The page never waits for nothing: while it shows its progress, a        *)
(* request about its host is on its way.  (But for "need credentials" with *)
(* the form hidden behind the progress of another host.)                   *)
WaitsForAnswer ==
  progress.shown /\ rfbhost # NoHost /\ "form hidden" \notin pageFaults => Requested(rfbhost)

(* An error names the host that failed, unless a console is hung up so     *)
(* slowly that its timer reports the failure as that of the next host.     *)
ErrorNamesHost ==
  pageFaults \subseteq {"form hidden"} => alert.names = alert.of
=============================================================================
