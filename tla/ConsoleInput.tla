---------------------------- MODULE ConsoleInput ----------------------------
(***************************************************************************)
(* Keys and mouse on their way from the browsers of one session to its     *)
(* DRAC: the key and pointer events of the command loop (vnc.go), send_key *)
(* and send_mouse (protocol.c), and the cipher of a DRAC 4 (rc4.c).        *)
(*                                                                         *)
(* Every viewer has a command loop of its own, none of them takes a lock,  *)
(* and ctrlReader writes the login to the same socket.  TCP keeps the      *)
(* order of the writes, so a write is what the DRAC gets: its state moves  *)
(* with the write.  The model begins when the session has a C context      *)
(* (before that, see InputWithoutContext of DracSession).                  *)
(***************************************************************************)
EXTENDS KeyMap, FiniteSets

CONSTANTS
  Viewers,
  Keys,        \* the keysyms typed
  Masks,       \* the button masks of the browser: bit 0 is the left button
  Positions,   \* the positions pointed at
  Types,       \* the types of DRAC considered
  LoginParts,  \* in how many writes the login goes out
  MaxEvents    \* bound: events of all the browsers

ASSUME InputAssumption ==
  /\ Keys \subseteq Nat /\ Positions # {}
  /\ Masks \subseteq 0 .. 255 /\ 0 \in Masks
  /\ Types \subseteq {4, 5, 6, 7, 8}
  /\ LoginParts \in Nat \ {0} /\ MaxEvents \in Nat

VARIABLES
  dracType,
  login,      \* of ctrlReader: parts of the login written; above, the key is set
  pc, message,\* of a viewer: within send_key, and the key it sends
  held, mask, \* of a browser: the keys and the buttons down
  oldButtonMask,
  cipher,     \* of the daemon: how many keys were encrypted, or Garbled
  drac,       \* what the DRAC made of what it got
  pointer,    \* the last pointer event: its position, and whether a movement
  faults,     \* history: what happened that the code does not guard against
  events,
  alive       \* of the daemon

vars == <<dracType, login, pc, message, held, mask, oldButtonMask, cipher,
          drac, pointer, faults, events, alive>>

Garbled == -1
NoKey   == [code |-> None, down |-> FALSE, at |-> 0]
Codes   == {UsbCode(k) : k \in {key \in Keys : ~OutOfTable(key)}} \cup {None}

TypeOK ==
  /\ dracType \in Types /\ login \in 0 .. LoginParts + 1
  /\ pc \in [Viewers -> {"loop", "encrypt", "write", "gone"}]
  /\ message \in [Viewers -> [code : Codes, down : BOOLEAN, at : -1 .. MaxEvents]]
  /\ held \in [Viewers -> SUBSET Keys] /\ mask \in [Viewers -> Masks]
  /\ oldButtonMask \in [Viewers -> Masks]
  /\ cipher \in -1 .. MaxEvents
  /\ drac.down \subseteq Codes \ {None} /\ drac.buttons \in Masks \cup {0, 1}
  /\ drac.cipher \in 0 .. MaxEvents /\ drac.misread \in BOOLEAN
  /\ faults \subseteq {"early", "overlap", "left"}
  /\ events \in 0 .. MaxEvents /\ alive \in BOOLEAN

Nowhere == CHOOSE p \in Positions : TRUE

Init ==
  /\ dracType \in Types /\ login = 0
  /\ pc = [v \in Viewers |-> "loop"] /\ message = [v \in Viewers |-> NoKey]
  /\ held = [v \in Viewers |-> {}]
  /\ mask = [v \in Viewers |-> 0] /\ oldButtonMask = [v \in Viewers |-> 0]
  /\ cipher = 0
  /\ drac = [down |-> {}, buttons |-> 0, at |-> Nowhere, cipher |-> 0, misread |-> FALSE]
  /\ pointer = [at |-> Nowhere, moved |-> TRUE]
  /\ faults = {} /\ events = 0 /\ alive = TRUE

-----------------------------------------------------------------------------
(* The DRAC.  Whatever comes before or within the login it cannot read.    *)
LoggedIn == login = LoginParts + 1

NeverUp(down, code) == drac.down \cup {code}

Pressed(down, code) == IF down THEN drac.down \cup {code} ELSE drac.down \ {code}

GetsKey(code, down) ==
  drac' = IF LoggedIn THEN [drac EXCEPT !.down = Pressed(down, code)]
          ELSE [drac EXCEPT !.misread = TRUE]

(* A DRAC 4 deciphers key number drac.cipher, whichever it gets.           *)
GetsEncrypted(key) ==
  drac' = IF LoggedIn /\ key.at = drac.cipher
          THEN [drac EXCEPT !.down = Pressed(key.down, key.code), !.cipher = @ + 1]
          ELSE [drac EXCEPT !.misread = TRUE, !.cipher = IF LoggedIn THEN @ + 1 ELSE @]

GetsMouse(changes) == drac' = IF LoggedIn THEN changes ELSE [drac EXCEPT !.misread = TRUE]

-----------------------------------------------------------------------------
(* ctrlReader in connect_start_ctrl: the login in several writes, and then *)
(* the key of the cipher.                                                  *)
WriteLogin ==
  /\ alive /\ login < LoginParts
  /\ login' = login + 1
  /\ UNCHANGED <<dracType, pc, message, held, mask, oldButtonMask, cipher, drac, pointer, faults, events, alive>>

SetKey ==
  /\ alive /\ login = LoginParts
  /\ login' = LoginParts + 1
  /\ cipher' = 0
  /\ UNCHANGED <<dracType, pc, message, held, mask, oldButtonMask, drac, pointer, faults, events, alive>>

-----------------------------------------------------------------------------
(* A turn of the command loop of viewer v.                                 *)
Event(v) ==
  /\ alive /\ pc[v] = "loop" /\ events < MaxEvents
  /\ events' = events + 1
  /\ UNCHANGED <<dracType, login, alive>>

Early == IF LoggedIn THEN {} ELSE {"early"}
InSendKey(v) == pc[v] \in {"encrypt", "write"}
Overlap(v) == IF \E w \in Viewers \ {v} : InSendKey(w) THEN {"overlap"} ELSE {}

(* The browser reports a key that goes down, again and again while it is   *)
(* held, and one that comes up.                                            *)
Typed(v, key, down) ==
  /\ down \/ key \in held[v]
  /\ held' = [held EXCEPT ![v] = IF down THEN @ \cup {key} ELSE @ \ {key}]
  /\ UNCHANGED <<mask, oldButtonMask, pointer>>

IgnoreKey(v, key, down) ==
  /\ Event(v) /\ Typed(v, key, down)
  /\ ~OutOfTable(key) /\ ~(UsbCode(key) >= 0)
  /\ UNCHANGED <<pc, message, cipher, drac, faults>>

(* send_key in one write.                                                  *)
SendKey(v, key, down) ==
  /\ Event(v) /\ Typed(v, key, down)
  /\ ~OutOfTable(key) /\ UsbCode(key) >= 0 /\ dracType # 4
  /\ GetsKey(UsbCode(key), down)
  /\ faults' = faults \cup Early
  /\ UNCHANGED <<pc, message, cipher>>

(* send_key with rc4_encrypt, which reads the state of the cipher, ...     *)
StartEncrypting(v, key, down) ==
  /\ Event(v) /\ Typed(v, key, down)
  /\ ~OutOfTable(key) /\ UsbCode(key) >= 0 /\ dracType = 4
  /\ message' = [message EXCEPT ![v] = [code |-> UsbCode(key), down |-> down, at |-> cipher]]
  /\ pc' = [pc EXCEPT ![v] = "encrypt"]
  /\ faults' = faults \cup Early \cup Overlap(v)
  /\ UNCHANGED <<cipher, drac>>

(* ... writes it back, for which two viewers may race, ...                 *)
NotStored(v, at) == {at}

Advanced(v, at) ==
  IF cipher # at \/ \E w \in Viewers \ {v} : pc[w] = "encrypt"
  THEN {Garbled, cipher} \cup (IF at = Garbled THEN {} ELSE {at + 1})
  ELSE IF at = Garbled THEN {Garbled} ELSE {at + 1}

Encrypt(v) ==
  /\ alive /\ pc[v] = "encrypt"
  /\ cipher' \in Advanced(v, message[v].at)
  /\ pc' = [pc EXCEPT ![v] = "write"]
  /\ UNCHANGED <<dracType, login, message, held, mask, oldButtonMask, drac, pointer, faults, events, alive>>

(* ... and a write of what came out.                                       *)
WriteKey(v) ==
  /\ alive /\ pc[v] = "write"
  /\ GetsEncrypted(message[v])
  /\ pc' = [pc EXCEPT ![v] = "loop"]
  /\ message' = [message EXCEPT ![v] = NoKey]
  /\ UNCHANGED <<dracType, login, held, mask, oldButtonMask, cipher, pointer, faults, events, alive>>

(* The look-up of keysym 255 panics.  net/http recovers from that, but     *)
(* teardownDracClient closes videoChannel with bufferedVideoWriter still   *)
(* at it, and the nil frame it receives panics where nobody recovers.      *)
KeyPanics(v, key) ==
  /\ alive /\ pc[v] = "loop" /\ events < MaxEvents
  /\ OutOfTable(key)
  /\ alive' = FALSE
  /\ UNCHANGED <<dracType, login, pc, message, held, mask, oldButtonMask, cipher, drac, pointer, faults, events>>

-----------------------------------------------------------------------------
(* send_mouse.  A DRAC 4 is told of the left button or of a movement, the  *)
(* others of all the buttons and the position.                             *)
Left(m) == m % 2

Clicked(m)       == [drac EXCEPT !.buttons = Left(m)]
Moved(at)        == [drac EXCEPT !.at = at]
Pointed(m, at)   == [drac EXCEPT !.buttons = m, !.at = at]
KeptMask(old, m) == old

NewMask(old, m)  == m

SendMouse(v, m, at) ==
  /\ Event(v)
  /\ mask' = [mask EXCEPT ![v] = m]
  /\ pointer' = [at |-> at, moved |-> m = mask[v]]
  /\ GetsMouse(IF dracType # 4 THEN Pointed(m, at)
               ELSE IF m # oldButtonMask[v] THEN Clicked(m) ELSE Moved(at))
  /\ oldButtonMask' = [oldButtonMask EXCEPT ![v] = NewMask(@, m)]
  /\ faults' = faults \cup Early
  /\ UNCHANGED <<pc, message, held, cipher>>

(* The browser goes away, with what it holds down.                         *)
HangUp(v) ==
  /\ alive /\ pc[v] = "loop"
  /\ pc' = [pc EXCEPT ![v] = "gone"]
  /\ faults' = faults \cup {"left"}
  /\ UNCHANGED <<dracType, login, message, held, mask, oldButtonMask, cipher, drac, pointer, events, alive>>

CommandLoop(v) ==
  \/ \E key \in Keys, down \in BOOLEAN :
       \/ IgnoreKey(v, key, down)
       \/ SendKey(v, key, down)
       \/ StartEncrypting(v, key, down)
  \/ Encrypt(v)
  \/ WriteKey(v)
  \/ \E key \in Keys : KeyPanics(v, key)
  \/ \E m \in Masks, at \in Positions : SendMouse(v, m, at)
  \/ HangUp(v)

Next == WriteLogin \/ SetKey \/ \E v \in Viewers : CommandLoop(v)

Spec == Init /\ [][Next]_vars

-----------------------------------------------------------------------------
Quiet == alive /\ \A v \in Viewers : pc[v] = "loop"

(* The DRAC reads every key that is typed after the login, unless two      *)
(* viewers of a DRAC 4 type at the same time: both ends of the cipher are  *)
(* at the same key.                                                        *)
KeysUnderstood == faults \subseteq {"left"} => ~drac.misread

(* When no browser holds a key, none is down at the DRAC, although several *)
(* keysyms share a key, and several viewers a keyboard.  (A viewer that    *)
(* leaves does leave its keys down.)                                       *)
NoKeySticks ==
  Quiet /\ faults = {} /\ (\A v \in Viewers : held[v] = {}) => drac.down = {}

(* In the same way for the buttons, of which a DRAC 4 is told only when    *)
(* a mask is not the one before.                                           *)
NoButtonSticks ==
  Quiet /\ faults = {} /\ (\A v \in Viewers : mask[v] = 0) => drac.buttons = 0

(* After a movement the pointer of the DRAC is where the browser's is.     *)
(* (After a click it need not be: a DRAC 4 is not told where it was.)      *)
PointerFollows ==
  Quiet /\ faults = {} /\ (pointer.moved \/ dracType # 4) => drac.at = pointer.at

(* So buttons and pointer of the DRAC are those of the browsers.           *)
MouseFollows == TypeOK /\ NoButtonSticks /\ PointerFollows

-----------------------------------------------------------------------------
(* What README.md:5 promises of two people at one console.  Not so for a   *)
(* DRAC 4, of which two viewers share the cipher without a lock.           *)
BothControlIt == "early" \notin faults => ~drac.misread

(* No key ends the daemon.  Keysym 255 does.                               *)
KeysEndNobody == alive
=============================================================================
