# Verification of dracd

dracd (`drac.go`, `vnc.go`, `http.go`, and a C protocol library) bridges the
remote console of Dell servers (DRAC) to browsers. This directory holds TLA+
models of it, the TLC configurations that check them, and TLAPS proofs. The page
and the JavaScript client that the daemon serves (`assets.go`) are part of it.

## 1. The system

| component | state | operations | talks to |
|---|---|---|---|
| session life (`drac.go`, `http.go`, end of `vnc.go`) | `dracmap`, `dracmapLock`, and per `DracCtx`: `vncClients`, `otherClientCount`, `clientEvent`, `firstFrameEvent`, sockets, C context, last frames; `dracstates` | `setupDracClient`, `teardownDracClient`, `teardownDracRequest`, `dracHandler` (select loop), `ctrlReader`, `videoReader`, `videoUpdate`, `saveFrameForAnimation`, png / gif / kill handlers | goroutines meet on unbuffered channels and on one global mutex |
| frame pipeline (`vnc.go`, `frame.go`) | per viewer: `videoChannel`, `frameChannel`, `sendVideoChannel`, two stop channels, `pendingVideoUpdates`; per `Frame`: `refcount` | `bufferedVideoWriter`, `videoWriter`, the command loop, `acquire`, `release` | fed by `videoUpdate`, drained by the browser |
| VNC encoding (`vnc.go: sendVncFrame`) | width and height last announced | compact length, resize rectangle | noVNC |
| DRAC framing (`protocol.c: incoming_data_*`) | `ctrl_buffer`, `video_buffer` | one call per socket read | the two readers |
| DRAC dialogue (`protocol.c: handle_*`, `drac4_*`, `send_*`) | `session_id`, `ctrl_ssl`, `frame_count`, `needs_refresh`, RC4 state | one handler per message | the DRAC |
| decoder (`decoder.c`) | framebuffer, packet buffer, `pointer_index`, `codec`, `needs_refresh` | `load_data`, `decode_packet` and its commands | dialogue, `getFrame` |
| recent hosts and credentials (`drac.go`, `http.go`) | `recentDracs` | part of `setupDracClient`, `getRecentDrac`, `connectHandler` | session life |
| probing (`dracDetect.go`) | cookies of one HTTP client | `getDracType` | session life, which sees only its three outcomes |
| glue (`glue*.go`, `goglue.c`) | `dracCtxRefs` table | alloc, free, look up; writes to sockets | C library and Go |
| connect page (`connect.html` in `assets.go`) | `rfbhost`, the address, form and progress bar, `rfb` | `connect`, `pollStatus`, `updateProgress`, `showError`, the popstate handler | `connectHandler` and `statusHandler` over HTTP; the RFB object |
| keyboard of the page (`keyboard.js`, `input.js` in `assets.go`) | believed modifiers, queue behind a timer, tracked keys | five filters from DOM events to key events | the user; the command loop of `vnc.go` |
| WebSocket adapter (`wsconn.go`) | `reader` of the current message | `Read`, `Write`, deadlines | `handleVncConnection` |
| GIF, PNG (`gif.c`, `gif.go`, `util.c`) | none between calls | quantize, encode | session life |
| RC4, MD5 (`rc4.c`, `md5.c`) | key stream; none | encrypt, digest | dialogue |
| key map (`keymap.go`), rest of `assets.go`, `main.go` | constant tables, libraries, start-up | | |

### What is hard

* Four kinds of goroutine share a session. The list of viewers is read under no
  lock by the broadcast, the C context is used by the viewers under no lock and
  freed by `dracHandler` under none; only the order in which the goroutines end
  makes that safe.
* Every end of a session is a negotiation: a reader fails, `dracHandler` drops
  the viewers, waits for the last client, and frees. Every channel is
  unbuffered, so a party that leaves early strands the other.
* A session may fail before it has a context, a socket or a frame.
* A slow browser must not slow the DRAC reader or the other viewers down.
* The DRAC byte stream is cut at arbitrary places by TCP.
* Several viewers share one keyboard, one mouse and, at a DRAC 4, one cipher,
  under no lock, and `ctrlReader` writes to the same socket.
* What a session logs in with is put together from a form, a list and what was
  typed before, in critical sections of different requests.
* The page is one thread, but answers, popstate events, timers and closes of
  sockets come in any order, and most of them speak of a host it may have left.
* A browser says of a key first what it is and later what it types; the page
  waits for the second with a timer, and takes modifiers back in between.

### What makes each part correct

| component | correctness |
|---|---|
| session life | what is shared is released once and last; only the current session of a host reports; whoever waits is let go; an unused session ends |
| frame pipeline | references balance; the newest frame survives an overrun; a browser gets exactly what it asked for, never an older picture after a newer one |
| VNC commands, VNC updates | both ends agree where a message ends |
| DRAC framing | messages are handled whole, once, in order and at once, however TCP cuts them |
| DRAC dialogue | no half frame is decoded; a refresh comes before a picture that needs it; no result is forgotten |
| VNC handshake | neither end takes a message for another one, and none waits for what is not sent |
| decoder commands | the framebuffer is the screen of the DRAC, whichever commands and codec it chose |
| animation | what is kept is the last five seconds, and it plays as it was seen |
| recent hosts and credentials | one entry for a host, the newest kept; no session with the account of another host |
| probing, glue | a logout on every way out; C finds its own sockets; no login in clear where TLS is wanted |
| input to the DRAC | what is up in the browsers is up at the DRAC, and the pointer follows |
| connect page | one console, that of the host in the address; never a progress bar without a request |
| keyboard of the page | a key arrives as it was typed, and comes up |

## 2. Modules

| module | models | state and actions |
|---|---|---|
| `DracSession` | every goroutine of the sessions of one host: `drac.go`, the request handlers of `http.go`, the ends of a viewer in `vnc.go` | Program counters `handler`, `ctrl`, `video`, `update`, `client` stand for the places where the goroutines block or release the lock. One action per critical section or channel operation: a rendezvous on an unbuffered channel is one joint action (`ClientEvent`, `FinishEvent`, `SendFrame`, `VideoFinished`). `dracmapLock` is a variable because `ReadFrame` .. `Written` hold it across a network write; the other critical sections are atomic and guarded by `LockFree`. |
| `SessionRegistry` | what the registry promises | `Open`, `Join`, `Leave`, `End`, `Release` |
| `FramePipeline` | frames from `videoUpdate` through `bufferedVideoWriter` and `videoWriter` to the browsers, and `frame.go` | locals that hold a `*Frame` (`frame`, `lastPngFrame`, `buffer`, `writing`), `refcount`, `freed`. `Buffer`, `HandOver`, `Request`, `Written` are the cases of the selects; `StopBuffering` .. `Teardown` is the end of a viewer |
| `LatestFrame` | what the two goroutines of a viewer promise: a slot for the latest frame | `Put`, `Ask`, `Take`, `Close` |
| `Reassembly` | `incoming_data_ctrl` and `incoming_data_video` | a byte stream in units of half a header; `Receive`, `Refuse`, `Handle`, `Return` are the steps of one call |
| `DracProtocol` | the message handlers of `protocol.c`, `load_data`, what the readers do with the results | one action per handler; `Read` begins a call with the messages one `Read` has completed; `Update`, `ConnectVideo` act on the result of the call |
| `VncHandshake` | `handleVncConnection` up to its loop, and `rfb.js` | `server` and `browser` are what each waits for; one action per message |
| `VncCommands` | `WsConn.Read`, the `bufio.Reader` and the command loop | bytes of WebSocket messages; `Read`, `Handle` |
| `VncUpdates` | `sendVncFrame` and how `rfb.js` reads it | `SendVncFrame`, `TakeResize`, `TakePicture` |
| `VncConnection` | the three above as one connection | commands begin when the browser has read the ServerInit message, pictures when it has asked |
| `KeyMap` | `keymap.go` | the tables as functions, by groups of keys; `UsbCode` is the look-up |
| `ConsoleInput` | key and pointer events of several viewers, `send_key`, `send_mouse`, the state of the cipher | `SendKey`, or `StartEncrypting`, `Encrypt`, `WriteKey` where a DRAC 4 makes it three steps; `SendMouse`; the login of `ctrlReader` in between |
| `Accounts`, `RecentDracs` | `recentDracs`, `getRecentDrac`, `connectHandler`, the accounts in `setupDracClient` | `Post` and `SubmitForm` are the two critical sections of the form |
| `DracConnect` | `ctrlReader` of the sessions of several hosts up to the video: `getDracType`, the table of contexts, TLS, the login, `dracstates` | one action per web request, per dial and per answer |
| `SessionStart` | the two above as one | a session begins with the account that the list has completed |
| `Decoder` | `decode_packet` and its commands, and a DRAC that draws with them | `DrawRun`, `DrawPixel`, `DrawChoice` build a packet; `ProcessNC` .. `ProcessMS` are the turns of the loop |
| `AnimationWindow` | `saveFrameForAnimation`, `encodeGif`, the delay bytes of `WriteGif` | `SaveFrameForAnimation`, `Pass` |
| `Pictures` | the two above as one | the end of a packet saves the framebuffer if it is dirty |
| `ConnectPage` | `connect.html` and the life of RFB objects | one action per handler: `PostAnswered`, `PollAnswered`, `RequestFails`, `Popstate`, `Submit`, `RfbCloses`, the timers |
| `BrowserKeyboard` | `keyboard.js` and the handlers of `input.js` | one action per DOM event or timer, which goes through all five filters; `down` is what the other end has |
| `BrowserPage` | the two above as one | a console that opens grabs the keyboard, one that ends gives it back |
| `DracSession_proofs`, `FramePipeline_proofs`, `Reassembly_proofs`, `DracProtocol_proofs`, `VncConnection_proofs`, `SessionStart_proofs`, `ConsoleInput_proofs` | theorems about the module each is named after, and about the parts that module is made of; those of `Pictures` are behind those of the frames they become, and those of `BrowserPage` behind those of the other end of its connection | an inductive invariant, one lemma per action, then the theorems |
| `Streams` | lemmas: messages one after the other in a stream of bytes, and the smallest of a set of numbers | no state; used by four of the above |

The modules meet as the code does. `Reassembly` hands whole messages to
`DracProtocol`. A frame that `DracProtocol` publishes is one that
`FramePipeline` makes, and `DracSession` decides who is there to receive it and
when the pipeline ends. `VncCommands` delivers the update requests of
`FramePipeline`, and `VncUpdates` is what its `Written` writes. What one module
keeps of another is one variable: `DracSession` has only `hasFrame` of the
frames, `FramePipeline` only `EndSession` of the session. These
are not composed into one specification; `VncConnection`, `SessionStart`,
`Pictures` and `BrowserPage` are compositions.

The operators that no action uses (`NoClientsForgetsViewers`, `AfterCloseWithoutWait`
and the like), each next to the definition it deviates from, are plausible bugs:
put in that definition's place they must break a property, which shows that the
property can fail.

## 3. Runs

| run | question | result |
|---|---|---|
| `session_safety` | Over two successive sessions of a host, with a viewer and a screenshot request: is everything shared released last (`NoUseAfterFree`, `FrameStaysDuringWrite`), is the shown status the current session's (`StatusFromCurrent`), is `SessionRegistry` implemented, and does the invariant of the proofs (`IInv`) hold? | holds, 409 165 states |
| `session_liveness` | Two viewers, one request: are viewers of a failed session dropped, does a session without members end, is an idle one reaped? | holds, 209 323 states |
| `sharing_panic` | Can a viewer leave during a broadcast? | violated |
| `frames_safety` | Three frames, two viewers, two requests each: exact reference counts, nothing freed early or never, newest frame kept, no unasked frame, pictures only advance, every viewer a `LatestFrame` | holds, 2 364 605 states |
| `frames_liveness` | Does a browser that does not read delay anyone, and is every request of one that reads answered? | holds, 566 205 states |
| `reassembly` | Four messages of three lengths, cut in every way | holds, 21 677 states |
| `protocol` | DRAC4, 5 and 6, four frames, any order of messages: only whole frames are decoded, one refresh before a picture that needs it | holds, 1 830 917 states |
| `vnc_connection` | Browsers of four versions: do both ends of the handshake mean the same (`SameProtocol`, `BothReady`, `HandshakeEnds`), does the command loop take exactly the browser's commands, and does the browser find every update, up to pngs of 2 097 151 bytes, and draw it on a canvas of its size? | holds, 288 406 states |
| `console_input` | Two viewers at the keyboard and mouse of a DRAC 4 or 6, during and after the login: does the DRAC understand every key, and have no key or button down that no browser has? | holds, 1 052 407 states |
| `session_start` | Three hosts, three sessions, a form and visitors: the list of recent hosts and its accounts, the logout of the probing, the table of contexts, TLS, and the status of an account | holds, 2 276 240 states |
| `pictures` | Three packets of a DRAC that draws three small screens in every way: is the framebuffer its screen, is every change shown, does the animation keep its window and its time? | holds, 2 405 199 states |
| `browser_page` | One browser, two hosts: one console and that of the address, whatever comes in which order; four keys at a console on two platforms: do they arrive as typed (`TypedAsHere`), and is none forgotten that is down (`NoKeyIsForgotten`)? | holds, 2 593 600 states |

Properties that are two sides of one promise are checked as one conjunction of
named parts, each with a comment of its own: `DeliveryInv` (`FramePipeline`),
`HandledAtOnce` (`Reassembly`), `RefreshRight` (`DracProtocol`), `BothAgree`,
`UpdatesRight` and `ConnectionGoesOn` (`VncConnection` and its parts),
`MouseFollows` (`ConsoleInput`), `RightSockets` (`SessionStart`), `DecodesScreen`
(`Pictures`), `PageFollowsHost`, `NoKeyIsForgotten` and
`TypedAsHere` (`BrowserPage` and its parts). The type
invariant of a module is a part of one of them, and of `IInv` in `DracSession`.

Bounds, and why they are enough:

* `session_*`: a session object is used once, so two of them show whatever an
  old session can do to its successor; three would only repeat the second step.
  Two viewers show the broadcast to a list whose element leaves. One request is
  enough to hold the counter above zero and the lock during a write. The
  theorems cover every number. The symmetry set (sessions, viewers, requests) is
  used where no liveness is checked. `Connects` (the form on "/") appear in the
  theorems; they are requests that do not wait.
* `frames_*`: `MaxFrames = 3` lets a frame be written, one be buffered and one
  overrun it; `MaxAsked = 2` gives the second request during the first.
* `reassembly`: buffer 7, chunk 4 and messages of 2, 4 and 5 units keep the
  order of the real 65535, 32768 and message lengths: the header may be cut, a
  chunk may hold several messages, and the longest message may overflow.
* `protocol`: four frames pass the threshold `frame_count > 2` of the repeated
  refresh; two messages in a `Read` show the overwriting of a result; login codes
  0, 1 and 21 are success and the ends of the range of refusals.
* `vnc_connection`: version 0 is an answer that is refused, 3, 7 and 8 the ones
  whose dialogues differ. Six commands are the four of the opening message and
  two more of five kinds, one of which may come with another; the buffer has its
  real size, 4096. Lengths around 127, 16383 and 2097151, two sizes of the screen
  and two updates on their way.
* `console_input`: four events press and release two keys, or click and move.
  The five keysyms are two that share a key, one without a key, one beyond the
  table and a modifier; masks have the left button, another one, or none.
* `session_start`: `MaxRecent = 2` drops the third host (10 in the code drop the
  eleventh). Three sessions are two hosts at the same time and one again, and
  give the table of contexts its only interesting case, an id freed between two
  others. One word for logins and passwords, with the empty one, makes four
  accounts; hosts are told apart by which of them they know.
* `pictures`: six pixels in three colors, in two shapes, are two lines below the
  first and a choice between two colors. `Base`, `FirstChoices` and
  `MoreChoices` are scaled so that runs of two bytes and choices of two bytes
  fit. The limit of five bytes of a run, a line copied above the first one, and
  a choice that does not fit on the screen are modelled and not reached, because
  no DRAC draws so. Steps of 2.5 s reach the window of five and pass it.
* `browser_page`: a second host and three navigations give there, back and there
  again; two consoles are the one that ends and the next. One letter whose
  character can be guessed, one that cannot, and every modifier of the platform;
  four events make a chord of two modifiers and a letter, and a release. (Of
  `TypedAsHere` more was tried with the keyboard alone, eight events and one
  letter on Linux, six on Windows; that is how the repeated key of section 5 was
  met, before the theorem covered any number of events.) Typing is
  at the first console and while the page waits for nothing, and such a console
  may end at any time; what the two know of each other is only whether the
  console holds the keyboard.

`CHECK_DEADLOCK FALSE` is stated in every configuration: each system stops when
its bounded clients, frames or messages are used up, and the daemon may stop in
a panic.

### Fairness

* `DracSession!FairSpec`: every step the daemon takes by itself is weakly fair:
  Go runs goroutines, probes and dials have timeouts, a read on a closed socket
  fails. Nothing is assumed of a DRAC (it may never send) nor of a viewer (it
  may never leave). Two assumptions need a word. A client of the png page reads
  its answer: the code holds `dracmapLock` meanwhile, and one that does not
  would stop every session. A sender on `clientEvent` or `dracFinishedEvent` is
  strongly fair: the select of `dracHandler` chooses at random among the ready
  channels and serves the senders of one channel in order.
* `FramePipeline!FairSpec`: the reader, `bufferedVideoWriter` and the teardown
  are weakly fair; browsers are not. `RequestAnswered` itself assumes, for the
  one browser it speaks of, that this one reads.
* `Reassembly` and `VncConnection`: the reading loops, TCP's delivery and the
  daemon's side of the handshake are fair, and so is a browser that is still
  there in reading the handshake; nobody need send a command.
* The other modules state no fairness: what they wait for is a person, or a
  machine that need not answer.

## 4. Proofs

What follows is proved for every value of the constants that satisfies the
assumptions of the modules, with TLAPS and nothing taken on trust. Where the
table names a property, a run of section 3 checks it on an instance.

| theorem | property | statement |
|---|---|---|
| `DracSession_proofs` | | |
| `Invariance` | `IInv` | the inductive invariant |
| `TypeCorrect` | | `otherClientCount` is never negative |
| `FreedLast` | `NoUseAfterFree` | the C context goes last |
| `FramesStay` | `FrameStaysDuringWrite` | no frame is released while a request writes it |
| `StatusIsCurrent` | `StatusFromCurrent` | only the current session reports |
| `RegistryImplemented` | `ImplementsRegistry` | the refinement of `SessionRegistry` |
| `NoClientsNoMembers` | | the test of `drac.go:239` and `251` implies that no client uses the session |
| `FramePipeline_proofs` | | |
| `FrameInvariance` | | the inductive invariant `FrameInv` |
| `CountIsExact` | `RefcountExact` | references balance |
| `Delivery` | `DeliveryInv` | nothing is used after it was freed, the newest frame is kept, none is sent unasked |
| `NoFrameLeaks` | `EveryFrameFreed` | a session that is over has freed its frames |
| `LatestFrameImplemented` | `ImplementsLatestFrame` | each viewer refines `LatestFrame` |
| `DecoderShowsScreen` | `DecodesScreen` | the framebuffer is the screen of the DRAC |
| `NoChangeIsMissed` | `NewestIsScreen` | what was saved and sent last is that screen |
| `WindowIsKept` | `KeepsWindow` | the list for an animation is the window |
| `AnimationPlaysInTime` | `PlaysInTime` | the animation plays as it was seen |
| `Reassembly_proofs` | | |
| `StreamInvariance` | | the inductive invariant `StreamInv` |
| `MessagesHandledAtOnce` | `HandledAtOnce` | whole, once, in order, and none left between two calls |
| `ShortMessagesFit` | `OnlyLongMessagesOverflow` | only a message longer than `LargestSafe` is refused |
| `DracProtocol_proofs` | | |
| `ProtocolInvariance` | | the inductive invariant `ProtocolInv` |
| `WholeFramesDecoded` | `DecodedWhole` | no half frame is decoded |
| `RefreshIsRight` | `RefreshRight` | one refresh, before a picture that needs it |
| `VncConnection_proofs` | | |
| `UpdatesAreRight` | `UpdatesRight` | if `ShortPngs` |
| `CommandsAreWhole` | `CommandsWhole` | if `WholeMessages` |
| `BothEndsAgree` | `BothAgree` | if `WholeMessages` |
| `PageIsOfOneHost` | `PageFollowsHost` | console, address and error are of one host |
| `PageNeverWaitsForNothing` | `WaitsForAnswer` | no progress bar without a request |
| `KeysAreRemembered` | `NoKeyIsForgotten` | what is down at the other end is tracked |
| `KeysArriveAsTyped` | `TypedAsHere` | keys arrive as typed, and none is tracked once all are up |
| `SessionStart_proofs` | | |
| `StartInvariance` | | the inductive invariant `StartInv` |
| `RecentHostsListed` | `NewestListed` | the list holds the hosts started last |
| `PasswordsStay` | `PasswordKept` | an action property |
| `ListedAccountsTried` | `TriesListedAccount` | a session logs in with what the list shows |
| `WebServersLeft` | `WebLoggedOut` | a logout on every way out of the probing |
| `SocketsAreRight` | `RightSockets` | the table of contexts, TLS |
| `StatusIsOfAccount` | `StatusOfAccount` | "auth error" and "ready" are true |
| `ConsoleInput_proofs` | | |
| `InputInvariance` | | the inductive invariant `InputInv` |
| `EveryKeyUnderstood` | `KeysUnderstood` | both ends of the cipher stay together |
| `KeysComeUpAtTheDrac` | `NoKeySticks` | no key is down that nobody holds |
| `MouseIsThere` | `MouseFollows` | buttons and pointer |

Each module goes the same way: a lemma that the initial states satisfy the
invariant, one lemma per action (or kind of action) that it is kept, a lemma
over `Next`, and the theorems that follow. What each invariant adds to the
properties, and why it is needed:

* `DracSession`. `NoUseAfterFree` alone is not inductive: why may `dracHandler`
  free? Because it left its loop, which it does only when `vncClients` is empty
  and `otherClientCount <= 0`. That says something about goroutines only if the
  list and the counter are truthful: `MemberInv`. `CountedMembers` and
  `NoClientsNoMembers` turn the counter into a statement about a set
  (cardinality of finite sets). And because both readers are gone by then, which
  is an order of program counters over the end of `ctrlReader`: `SessionInv`.
  `ClientInv` carries the clients' own view. For the refinement `PhaseKept` shows
  that the abstract phase of a session changes in three actions only.
* `FramePipeline`. A count that equals the cardinality of `Holders` moves with
  each `acquire` and `release` only if one knows which of its places each
  goroutine holds at its step (`ReaderInv`, `ViewerInv`), so that no place is
  entered twice or emptied twice; `FreeInv` says that a frame is freed exactly
  when its count has come to zero. `OrderInv` orders the frames of one viewer
  (written, being written, buffered, in the reader's hand), which the newest
  frame and the refinement rest on.
* `Reassembly`. While nothing was refused, the buffer followed by the wire is
  what was sent and not yet handled, message after message (`InStep`); `LaidOut`
  of `Streams` says so by giving the place where each message ends, which is a
  function and no fold, and so can be reasoned about without an induction over
  sequences. A header that is read is then the header of the next message.
* `DracProtocol`. The frames on their way lead from the place where `load_data`
  is to the one where the DRAC is (`InOrder`: again a function, from messages to
  places), and what `load_data` keeps is that of its place (`Fits`): the message
  in the packet buffer, the count, whether it skips, and how often it has asked
  for a refresh. `LoginOnce` is why the video socket is connected once and starts
  empty; without it a second one would begin within a frame.
* `VncConnection`. The commands are laid out in messages, buffer and channel as
  those of `Reassembly` are; the updates are read where they were written
  because the compact length of the one before was, a fact of arithmetic about
  `div` and `mod` (`LengthRead`). In the handshake what each end waits for decides
  what is on the wire.
* `Pictures`. The bytes of a packet are laid out as commands that the DRAC drew:
  `Places` is a set of pairs, a byte and a pixel, that a command begins at, from
  the first to the last, and from each of them a command leads to a next one
  (`Drawn` says which commands that may be). It takes the place of a sum over
  the bytes, for decoding needs only that the place it has come to is one of
  them. Beside that, what is decoded equals the screen, what is not decoded and
  did not change already does, what is behind the last command did not change,
  and `dirty` is set or nothing has changed so far (`DecodingInv`); the last is
  why no change is missed. That `Run` is the number the DRAC wrote is
  arithmetic over five digits (`Horner`). `NewestIsBefore`
  carries the newest picture over a packet. The list for the animation is the
  part of `saved` that begins at some place, with times in order (`AnimationInv`).
* `BrowserPage`. Until one of the faults of section 5 has happened (`InTurn`) a
  host has one request under way, the form is hidden while the host of the page
  is polled, and a live console is that of the page and of its host, about
  which nothing is asked any more (`ConsoleAlone`): what an answer, a timer
  or a close may find is then the host in the address, or a host that was left,
  and those are told apart by `Stale`. `KeyboardInv` adds to the two
  properties of the keyboard what the filters hand on, that nobody has typed
  before a user came, and that at the end of a console only a character modifier
  may be down; each of the filters keeps it (`TrackKeeps`, `ThroughKeeps`).
  That keys arrive as typed says more, for what the filters do to an event
  depends on those that wait before it in the queue, behind a stall. `TypingInv`
  therefore has moments: the keys held, the modifiers believed held, and the key
  that repeats. Each event of the queue leads from one moment to the next
  (`Leads`, again a function), the last of which is `Now`, and at the first one
  the last filters are as they should be (`Good`): `tracked` has one entry for
  each key the page knows of, with keysyms of that key only, the one that repeats
  last, and the modifiers down at the other end are those believed. An
  event that fits a moment takes `Good` to the next one (`ThroughSound`), also
  a keydown merged with its keypress (`MergedFits`), or is a guess, of which
  the property says nothing; what `ModifierSync` makes up fits as well
  (`SyncLeads`), because what is out of sync is what went down unseen.
* `SessionStart`. A host has one session at a time (`OneEach`), because
  `dracmap` says so until the session is over. Hence a status is that of the
  current session and a login at a web server is that of the one session that
  will log out (`WebCounted`). `nextId` is above every id in the table
  (`IdsGiven`). The list is the first part of the hosts in the order in which
  they were started, in which no host is twice (`RecentInv`).
* `ConsoleInput`. Both ends of the cipher have counted the same keys, or one is
  being sent (`CipherInSync`); a key that is down at the DRAC is held by a
  browser, or by one that has yet to write its release (`KeysExplained`), from
  which it follows that none sticks although several keysyms share one code.
  Of the tables only the range is used.

`IInv` is checked in `session_safety`. No configuration names the other inductive
invariants, which are stated in the modules of their proofs.

Three hypotheses are stated with theorems, and each is one that the code gives,
or whose failure is in section 5:

* `ShortPngs` (no png of 2 097 152 bytes or more): bit 21 of the length is lost
  in `vnc.go:372`. A png of a console is far below that.
* `WholeMessages` (`~ Splits`, and the buffer of the `bufio.Reader` holds the
  longest message the page sends): `wsconn.go:23` loses the rest of a message
  that arrives in parts. The buffer has 4096 bytes and the longest message of the
  page 48. `vnc_connection` has `Splits = FALSE` for the same reason.

Assumptions on constants are named in the modules, and TLC evaluates them in
every run: finite sets where something is counted, bounds that are numbers,
markers (`NoSession`, `NoViewer`, `NoHost`) that are not among what they mark.
`KindAssumption` names the five kinds of command that the page sends, which
`vnc.go:181` tells apart by one byte; `InputAssumption` admits every keysym.

### Only model-checked

Liveness: fairness and `ENABLED` are out of reach of the prover. These are the
properties of `session_liveness` and `frames_liveness`, `EverythingHandled` and
`ConnectionGoesOn`.

The library's theorems for induction take an operator as a parameter, which the
installed provers cannot instantiate. Where a proof needs an induction, for the
chain of filters over the queue (`AfterEvents`), the copying of lines (`Above`)
and the times of an animation (`Start`), the function is recursive on numbers, and
what holds of every value is proved from the smallest number for which it would
not hold (`Smallest` in `Streams`: the natural numbers are well-founded).

None of the modules has a `RECURSIVE` operator.

## 5. Known disagreements

Where the code does something else than its documentation says, or than a reader
would expect. The first has a run; the others are reproduced by adding the
property named to the configuration described, and the rest of the list was met
while modelling and is in the models as the code has it.

| where | what happens | property |
|---|---|---|
| `drac.go:64`, `390` | A viewer leaves during a broadcast: send on a closed channel, and the daemon dies. | `SharingIsSafe`, run `sharing_panic` |
| `drac.go:239`, `267` | A screenshot request of a session that fails before its first frame waits for ever, and keeps the session. | `FailedSessionAnswersRequests`; `MCDracLive.cfg` without viewers |
| `drac.go:377` | A client sends its event to a `dracHandler` that has left its loop, and never returns. | `TeardownReturns`; `MCDracLive.cfg` without viewers, `Connects = {c1}` |
| `drac.go:355` | Who joins after the first frame gets no picture until the screen changes. | `SharerSeesScreen`; `MCFramePipeline.cfg`, one frame |
| `drac.go:61` | A viewer is removed while the loop stands on it: those behind it miss the frame. | `EveryViewerServed`; `MCFramePipeline.cfg`, one frame |
| `protocol.c:141` | The accepted login shares a `Read` with another message: its result is overwritten, and there is no video. | `AcceptedLoginHasVideo`; `MCDracProtocol.cfg` (it holds with `MaxBatch = 1`) |
| `protocol.c:188` | A changed frame and an unchanged one in one `Read`: the first is not shown. | `ShownIsCurrent`; `MCDracProtocol.cfg` (it holds with `MaxBatch = 1`) |
| `protocol.c:361`, `decoder.c:59` | A frame is counted twice, so the keepalive of every eighth frame is never sent; `NOTES:4` says "drac4 needs keepalives". | `KeepaliveEvery8`; DRAC4, `MaxFrames = 8` |
| `protocol.c:151` | The assertion compares an uninitialised `msg_size` when less than a header is in the buffer. | `AssertHolds`; `MCReassembly.cfg` |
| `wsconn.go:23` | The receiver is a copy: the rest of a WebSocket message that came in parts is lost. | `CommandsWhole`; `MCVncConnection.cfg` with `Splits = TRUE` |
| `vnc.go:372` | The third byte of the compact length loses bit 21: a png of 2 097 152 bytes or more breaks the stream. | `StaysInStep`; `MCVncConnection.cfg` with `Sizes = {2097152}` |
| `vnc.go:216`, `rc4.c:38` | Two viewers of a DRAC 4 type at the same time: the cipher is advanced by both under no lock, and the DRAC understands no key any more. `README.md:5` says of two people "they could both see the screen and control it". | `BothControlIt`; `MCConsoleInput.cfg` |
| `vnc.go:208` | Keysym 255 is taken for one of the first table, which ends at 254: the look-up panics, and the deferred teardown ends the daemon. | `KeysEndNobody`; `MCConsoleInput.cfg` |
| `drac.go:304` | `README.md:6` says of a screenshot "it assumes the default drac password (root/calvin)"; a host that is not in the list is asked with an empty account. | `DefaultAccount`; `MCSessionStart.cfg` |
| `assets.go:2414` | "Release (key up) all keys that are in a down state": behind a stalled keydown the release comes after the connection is gone. | `UngrabReleases`; `MCBrowserPage.cfg` |

Without a property, because the property that covers the code around it leaves
the case out by name (a history variable records it):

* `vnc.go:150`: a viewer that leaves with a key or a button down leaves it down
  (`faults` of `ConsoleInput`). `protocol.c:475`: a DRAC 4 is told of a click or
  of a movement, never of both (`pointer.moved`).
* `dracDetect.go:114`: a wrong account at a DRAC 4 or 5 is reported as
  "connection error", not as "auth error". `drac.go:307`: an account that is
  given while a session runs is not looked at.
* `gif.c:103`: the bytes of a delay are swapped, so a picture that stays for
  2.56 s or more loses the high byte, which sets flags instead. `gif.c:71`, and
  the comment there: the canvas of an animation has the size of its first frame.
* `assets.go:7137`: connecting to a host again while it is being connected to, or
  to another one and back, gives two consoles. `assets.go:4578`: a console that
  closes slowly reports its failure as that of the next host. `assets.go:7070`:
  "need credentials" does not show the form again. (`pageFaults`.)
* `assets.go:2271`: AltGr released within an escape is pressed again and sticks,
  which is why `DownIsTracked` excepts it. `assets.go:2227`: a keyup that
  fits no key releases another one. A key that repeats after a modifier has
  changed is tracked as a second one (`assets.go:2182`), of which its release
  takes one away. (`faults`, `amiss`.)
* Not in the models, or without a property that could be true:
  `dracstates` is written under no lock by the readers of several hosts
  (`drac.go:69`); a DRAC that accepts a login twice gets two `videoReader`s
  (`drac.go:181`); an unknown type of DRAC ends the daemon (`dracDetect.go:149`,
  `DetectUnknown` and `GetFrontPage`); killing a session without a socket
  dereferences nil (`http.go:186`, `KillSession`); the answer to a screenshot is
  written under `dracmapLock` (`http.go:92`), so a client that does not read stops
  every session; the circumflex, F11 and F12 have no key code (`keymap.go`).

## 6. Abstractions, and what is not modelled

* `DracSession`: one host. Hosts share the lock and the table of C contexts;
  what several of them do at once is in `DracConnect`. `dracType` is only whether
  frames come on the control socket.
* `FramePipeline`: one reader (a DRAC sends its video on one socket); the picture
  "connecting", of which each viewer has its own, counts as frame 0.
* `Reassembly`: the results of the handlers are not here; a negative one skips
  the assertion. A stream out of step reads any length.
* `DracProtocol`: pixels are left out, and the picture is known by the last frame
  that changed it. One size of screen; a DRAC answers a login once; the stream
  of a DRAC 4 starts with a whole frame. The power commands, which nothing in the
  daemon calls, are left out.
* `VncCommands`: `clientCutText`, which the served page never sends, and the
  deadlines of `WsConn`, which nobody sets. A message of several commands arrives
  whole or not at all unless `Splits`.
* `ConsoleInput`: of RC4 its state, as the number of keys encrypted; a race of
  two encryptions leaves either count or a state of neither. A write to a socket
  is one step.
* `DracConnect`: a web page is the kind of DRAC that serves it; the strings that
  are looked for in it are left out. TLS either succeeds or breaks the socket.
* `Decoder`: a color is a model value; the conversion of 7 and 15 bits to RGB is
  left out. A copied line above the first one, a run of more than five bytes and
  a choice that does not fit are modelled, and no DRAC of the runs draws so.
* `AnimationWindow`: a picture is what was shown; the choice of 256 colors and
  LZW are left out.
* `ConnectPage`: the answers of `statusHandler` are external (any status at any
  time, but "disconnected", which makes the page ask again and no more); a popstate
  event comes only when the address changes. `killSession`, which changes only
  the list of sessions, is left out.
* `BrowserKeyboard`: of keysyms, whether a name or a code gives them, and their
  level. The branch on `evt.altGraphKey` is left out: browsers do not set it. The compositions of dead keys are left out.
* Not modelled: `goglue.c`, `util.c` and the quantizing part of `gif.c` (calls of
  libpng and giflib, pixel arithmetic, no state between calls), `md5.c` (a
  sequential digest), `main.go` (it registers routes), and of `assets.go`
  what is neither this daemon's page nor on the path of its messages:
  `display.js`, `websock.js` below whole messages, the mouse handlers,
  `keysymdef.js`, `base64.js`, `des.js`, the encodings and authentications
  that the daemon never sends, and third-party libraries. This is most of
  the 7282 lines of that file: data, and code that runs here with no input.

## 7. What is left

Every safety invariant and action property of the passing runs has a theorem.
Liveness stays with TLC. The four hazards without a property are those of section 5 that
happen (`drac.go:267`, `drac.go:61`, `drac.go:355`, `protocol.c:188`): a property
of each is stated there and fails.

The parts of the code that could still be modelled are in section 6; the one with
state worth a module is the mouse handlers and `websock.js` of the page.
