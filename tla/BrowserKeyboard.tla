-------------------------- MODULE BrowserKeyboard ---------------------------
(***************************************************************************)
(* What the page makes of the keyboard: the chain ModifierSync,            *)
(* KeyEventDecoder, VerifyCharModifier, TrackKeyState, EscapeModifiers of  *)
(* keyboard.js behind the handlers of input.js, which the daemon serves    *)
(* from assets.go.  Its output are the key events that vnc.go reads.       *)
(*                                                                         *)
(* A key that types a character is in Letters when the page can guess the  *)
(* character from the key code, and in Odd when it cannot.  A modifier is  *)
(* its own key and keysym.  A keysym of a letter is the pair of the key    *)
(* and a level: plain, shift, or third (typed with the modifier of the     *)
(* platform for that: AltGr, Ctrl+Alt, Option).                            *)
(***************************************************************************)
EXTENDS Naturals, SequencesExt

CONSTANTS
  Letters, Odd,
  Platforms,   \* those considered
  Naming,      \* whether key events carry a key name: a set of booleans
  NoKey,
  MaxEvents    \* bound: events of the user

Modifiers == {"Control", "Alt", "Level3", "Shift", "Meta"}

(* altGraphKey is a flag that browsers leave undefined.                    *)
Flagged == Modifiers \ {"Level3"}

ASSUME KeyboardAssumption ==
  /\ Letters \cap Odd = {} /\ (Letters \cup Odd) \cap Modifiers = {}
  /\ NoKey \notin Letters \cup Odd \cup Modifiers \cup {"linux", "windows", "mac"}
  /\ Platforms \subseteq {"linux", "windows", "mac"}
  /\ Naming \subseteq BOOLEAN /\ MaxEvents \in Nat

CharModifierOf(p) ==
  CASE p = "linux" -> {"Level3"} [] p = "windows" -> {"Alt", "Control"} [] p = "mac" -> {"Alt"}
    [] OTHER -> {"Alt", "Control", "Level3"}

VARIABLES
  platform, named, \* those of the user at the console, NoKey before there is one
  grabbed,   \* the keyboard handlers are installed, the connection is open
  held,      \* the keys that are physically down
  focused,
  believed,  \* state of ModifierSync
  queue, timer,   \* of VerifyCharModifier
  tracked,   \* state of TrackKeyState
  pressing,  \* the keypress event the browser owes: its key and its modifiers
  repeating, \* the key that repeats, and whether a modifier changed meanwhile
  down,      \* at the other end: the keysyms down
  amiss,     \* history: what was typed at the other end otherwise than here
  faults,    \* history: what the chain does not compensate
  userEvents

keyVars == <<platform, named, grabbed, held, focused, believed, queue, timer, tracked,
             pressing, repeating, down, amiss, faults, userEvents>>

Keys == Letters \cup Odd \cup Modifiers
CharModifiers == CharModifierOf(platform)
(* The modifiers of the keyboard at hand.                                  *)
OnKeyboard == CharModifiers \cup {"Control", "Shift"}

NoPress  == [key |-> NoKey, with |-> {}]
NoRepeat == [key |-> NoKey, changed |-> FALSE]
NoKeysym == <<NoKey, "plain">>
NoId     == <<NoKey, "plain">>

-----------------------------------------------------------------------------
(* The DOM.                                                                *)
Level(k, mods) ==
  IF k \in Modifiers THEN "plain"
  ELSE IF CharModifiers \subseteq mods THEN "third"
  ELSE IF "Shift" \in mods THEN "shift" ELSE "plain"

(* getKey: with a name, the key of an event changes with the modifiers.    *)
KeyId(k, mods) == <<k, IF named THEN Level(k, mods) ELSE "plain">>

(* nonCharacterKey: of the keys here, those that type nothing.             *)
NonCharacterKey(k) == k \in Modifiers

(* getKeysym of a keydown or keyup event, which has only a key code.       *)
Guess(k, mods) ==
  IF k \in Odd THEN NoKeysym
  ELSE <<k, IF k \in Letters /\ "Shift" \in mods THEN "shift" ELSE "plain">>

-----------------------------------------------------------------------------
(* ModifierSync.                                                           *)
ActiveCharModifier(state) == CharModifiers \subseteq state
HasShortcutModifier(state) ==
  IF ActiveCharModifier(state) THEN state \ {"Shift"} # CharModifiers
  ELSE state \ {"Shift"} # {}

OutOfSync(state, mods, key) == {m \in Flagged \ {key} : (m \in state) # (m \in mods)}
Synced(state, mods, key) ==
  (state \ OutOfSync(state, mods, key)) \cup (OutOfSync(state, mods, key) \cap mods)

Event(type, id, keysym, mods) ==
  [type |-> type, keyId |-> id, keysym |-> keysym, escape |-> FALSE, with |-> mods]

(* The events sync makes up have no key.                                   *)
SyncEvents(state, mods, key) ==
  LET synced(m) ==
        IF m \in OutOfSync(state, mods, key)
        THEN <<Event(IF m \in mods THEN "keydown" ELSE "keyup", NoId, <<m, "plain">>, {})>>
        ELSE <<>>
  IN synced("Control") \o synced("Alt") \o synced("Level3") \o synced("Shift") \o synced("Meta")

-----------------------------------------------------------------------------
(* process of KeyEventDecoder.                                             *)
Stall == Event("stall", NoId, NoKeysym, {})

Decoded(type, k, mods, state) ==
  Event(type, KeyId(k, mods),
        IF type # "keydown" \/ NonCharacterKey(k) \/ ActiveCharModifier(state) \/ HasShortcutModifier(state)
        THEN Guess(k, mods) ELSE NoKeysym,
        mods)

DecodedPress(k, level, mods, state) ==
  [Event("keypress", <<NoKey, level>>, <<k, level>>, mods)
     EXCEPT !.escape = ActiveCharModifier(state)]

(* Whether the browser is kept from a keypress event.                      *)
Suppressed(k, state) == NonCharacterKey(k) \/ HasShortcutModifier(state)
Stalls(k, state) == ActiveCharModifier(state) /\ ~NonCharacterKey(k)

-----------------------------------------------------------------------------
(* VerifyCharModifier: a keypress that follows its keydown is merged with  *)
(* it; all other events are passed on (q has no stall).                    *)
Merged(keydown, keypress) ==
  [keydown EXCEPT !.keysym = keypress.keysym,
                  !.escape = keypress.escape /\ keydown.keysym # keypress.keysym]

Follows(q, i) ==
  i \in 1 .. Len(q) - 1 /\ q[i].type = "keydown" /\ q[i + 1].type = "keypress"

Verified(q, i) == IF Follows(q, i) THEN Merged(q[i], q[i + 1]) ELSE q[i]

-----------------------------------------------------------------------------
(* TrackKeyState: the entries after an event, whether it passes that on as *)
(* a keydown, and the keysyms it passes on keyups of.                      *)
Entry(id) == [keyId |-> id, keysyms |-> {}, ignoreKeyPress |-> FALSE]

WithKeysym(t, keysym, ignore) ==
  [t EXCEPT ![Len(t)].keysyms = @ \cup {keysym}, ![Len(t)].ignoreKeyPress = @ \/ ignore]

Tracked(entries, passed, ups) == [entries |-> entries, passed |-> passed, ups |-> ups]

TrackDown(t, e) ==
  LET entries == IF t = <<>> \/ e.keyId = NoId \/ Last(t).keyId # e.keyId
                 THEN Append(t, Entry(e.keyId)) ELSE t
  IN IF e.keysym = NoKeysym THEN Tracked(entries, FALSE, {})
     ELSE Tracked(WithKeysym(entries, e.keysym, TRUE), TRUE, {})

TrackPress(t, e) ==
  LET entries == IF t = <<>> THEN <<Entry(e.keyId)>> ELSE t
  IN IF Last(entries).ignoreKeyPress THEN Tracked(entries, FALSE, {})
     ELSE Tracked(WithKeysym(entries, e.keysym, FALSE), TRUE, {})

Matching(t, e) == {i \in DOMAIN t : t[i].keyId = e.keyId}

(* The first entry of the key, and the last of all when there is none.     *)
Released(t, e) ==
  IF Matching(t, e) = {} THEN Len(t)
  ELSE CHOOSE i \in Matching(t, e) : \A j \in Matching(t, e) : i <= j

OnlyItsKeysym(t, e) ==
  IF t = <<>> THEN Tracked(t, FALSE, {})
  ELSE Tracked(RemoveAt(t, Released(t, e)), FALSE, {e.keysym})

TrackUp(t, e) ==
  IF t = <<>> THEN Tracked(t, FALSE, {})
  ELSE Tracked(RemoveAt(t, Released(t, e)), FALSE, t[Released(t, e)].keysyms)

AllKeysyms(t) == UNION {t[i].keysyms : i \in DOMAIN t}

TrackAllUp(t) == Tracked(<<>>, FALSE, AllKeysyms(t))

Track(t, e) ==
  CASE e.type = "keydown"  -> TrackDown(t, e)
    [] e.type = "keypress" -> TrackPress(t, e)
    [] e.type = "keyup"    -> TrackUp(t, e)
    [] e.type = "releaseall" -> TrackAllUp(t)

-----------------------------------------------------------------------------
(* The other end takes the key events.  What is not typed there as here:   *)
(* a character of the third level while the modifier for it is down, and a *)
(* key without a modifier that is held.                                    *)
Syms(modifiers) == {<<m, "plain">> : m \in modifiers}

Amiss(downs, e) ==
  (IF e.keysym[2] = "third" /\ downs \cap Syms(CharModifiers) # {} THEN {"third"} ELSE {})
  \cup
  (IF /\ e.keysym[1] \notin Modifiers
      /\ ~(Syms((e.with \cap Flagged) \ (IF e.escape THEN CharModifiers ELSE {})) \subseteq downs)
   THEN {"shortcut"} ELSE {})

TakeDown(end, e) ==
  [downs |-> end.downs \cup {e.keysym}, wrong |-> end.wrong \cup Amiss(end.downs, e)]

TakeUps(end, keysyms) == [end EXCEPT !.downs = @ \ keysyms]

(* EscapeModifiers: the character modifier is undone before the character, *)
(* and redone behind it.                                                   *)
NotUndone(end, e) == end

Undo(end, e) == IF e.escape THEN TakeUps(end, Syms(CharModifiers)) ELSE end

Redo(end, e) == IF e.escape THEN [end EXCEPT !.downs = @ \cup Syms(CharModifiers)] ELSE end

Escaped(end, e) == Redo(TakeDown(Undo(end, e), e), e)

(* A key that comes up takes the entry of another one with it.             *)
Guesses(t, e) ==
  IF /\ e.type = "keyup" /\ t # <<>>
     /\ LET entry == t[Released(t, e)] IN
        entry.keyId # e.keyId \/ (e.keyId = NoId /\ e.keysym \notin entry.keysyms)
  THEN {"guess"} ELSE {}

(* One event through the last three filters; [entries, end] is what the    *)
(* page tracks and what the other end has.                                 *)
Through(acc, e) ==
  LET next == Track(acc.entries, e)
      end  == IF next.passed THEN Escaped(acc.end, e) ELSE TakeUps(acc.end, next.ups)
  IN [entries |-> next.entries, end |-> [end EXCEPT !.wrong = @ \cup Guesses(acc.entries, e)]]

AfterEvents(q) ==
  LET after[i \in 0 .. Len(q)] ==
        IF i = 0 THEN [entries |-> tracked, end |-> [downs |-> down, wrong |-> amiss]]
        ELSE IF Follows(q, i - 1) THEN after[i - 1]
        ELSE Through(after[i - 1], Verified(q, i))
  IN after[Len(q)]

PassOn(q) ==
  LET acc == AfterEvents(q) IN
     /\ tracked' = acc.entries
     /\ IF grabbed THEN down' = acc.end.downs /\ amiss' = acc.end.wrong ELSE UNCHANGED <<down, amiss>>

(* Where the first stall is, behind the end when there is none.            *)
FirstStall(q) ==
  CHOOSE i \in 1 .. Len(q) + 1 :
    /\ i = Len(q) + 1 \/ q[i].type = "stall"
    /\ \A j \in 1 .. i - 1 : q[j].type # "stall"

WaitsAtStall(q) == FirstStall(q) <= Len(q)

(* process of VerifyCharModifier: it passes on what is before the first    *)
(* stall, and waits there.                                                 *)
Process(q) ==
  /\ PassOn(SubSeq(q, 1, FirstStall(q) - 1))
  /\ queue' = SubSeq(q, FirstStall(q) + 1, Len(q))
  /\ timer' = WaitsAtStall(q)

(* Events are handled one by one while no timer runs, so that a keypress   *)
(* never follows its keydown at once.                                      *)
Feed(events) ==
  IF timer THEN queue' = queue \o events /\ UNCHANGED <<timer, tracked, down, amiss>>
  ELSE Process(events)

-----------------------------------------------------------------------------
(* What the user does.                                                     *)
Acts ==
  /\ userEvents < MaxEvents /\ pressing = NoPress /\ platform # NoKey
  /\ userEvents' = userEvents + 1
  /\ UNCHANGED <<platform, named, grabbed>>

Listening == grabbed /\ focused

Mods(keys) == keys \cap Modifiers

(* A modifier does not end the repeating of another key.                   *)
ModifierChanges(k) ==
  [repeating EXCEPT !.changed = @ \/ (k \in Modifiers /\ repeating # NoRepeat)]

KeyDown(k) ==
  /\ Acts /\ Listening
  /\ \/ /\ k \notin held
        /\ repeating' = IF k \in Modifiers THEN ModifierChanges(k) ELSE [key |-> k, changed |-> FALSE]
        /\ UNCHANGED faults
     \/ /\ k \in held /\ k = repeating.key
        /\ faults' = faults \cup (IF repeating.changed THEN {"repeat"} ELSE {})
        /\ UNCHANGED repeating
  /\ held' = held \cup {k}
  /\ LET mods  == Mods(held')
         known == believed \cup Mods({k})
         state == Synced(known, mods, k)
     IN /\ believed' = state
        /\ Feed(SyncEvents(known, mods, k)
                \o (IF Stalls(k, state) THEN <<Stall>> ELSE <<>>)
                \o <<Decoded("keydown", k, mods, state)>>)
        /\ pressing' = IF Suppressed(k, state) THEN NoPress ELSE [key |-> k, with |-> mods]
  /\ UNCHANGED focused

(* The keypress event: with the modifier for the third level it may not    *)
(* come, or come with the plain character.                                 *)
KeyPress ==
  /\ pressing # NoPress
  /\ LET full == Level(pressing.key, pressing.with) IN
     \E level \in {full, IF full = "third" THEN "plain" ELSE full} :
       Feed(<<DecodedPress(pressing.key, level, pressing.with, believed)>>)
  /\ pressing' = NoPress
  /\ UNCHANGED <<platform, named, grabbed, held, focused, believed, repeating, faults, userEvents>>

NoKeyPress ==
  /\ pressing # NoPress /\ Level(pressing.key, pressing.with) = "third"
  /\ pressing' = NoPress
  /\ UNCHANGED <<platform, named, grabbed, held, focused, believed, queue, timer, tracked,
                 repeating, down, amiss, faults, userEvents>>

KeyUp(k) ==
  /\ Acts /\ Listening /\ k \in held
  /\ held' = held \ {k}
  /\ repeating' = IF k = repeating.key THEN NoRepeat ELSE ModifierChanges(k)
  /\ LET mods  == Mods(held')
         known == believed \ {k}
         state == Synced(known, mods, k)
     IN /\ believed' = state
        /\ Feed(SyncEvents(known, mods, k) \o <<Decoded("keyup", k, mods, state)>>)
  /\ UNCHANGED <<focused, pressing, faults>>

(* A movement of the mouse tells of the modifiers, too.                    *)
MouseMoves ==
  /\ Acts /\ Listening
  /\ OutOfSync(believed, Mods(held), NoKey) # {}
  /\ believed' = Synced(believed, Mods(held), NoKey)
  /\ Feed(SyncEvents(believed, Mods(held), NoKey))
  /\ UNCHANGED <<held, focused, pressing, repeating, faults>>

ReleaseAll == Feed(<<Event("releaseall", NoId, NoKeysym, {})>>)

(* Elsewhere keys may come up and go down unseen.                          *)
Blur ==
  /\ Acts /\ Listening
  /\ ReleaseAll
  /\ focused' = FALSE
  /\ held' \in {held, {}}
  /\ repeating' = NoRepeat
  /\ faults' = faults \cup {"left"}
  /\ UNCHANGED <<believed, pressing>>

Focus ==
  /\ Acts /\ grabbed /\ ~focused
  /\ focused' = TRUE
  /\ UNCHANGED <<held, believed, queue, timer, tracked, pressing, repeating, down, amiss, faults>>

(* The 5 ms of a stall are over.                                           *)
TimerFires ==
  /\ timer
  /\ Process(queue)
  /\ UNCHANGED <<platform, named, grabbed, held, focused, believed, pressing, repeating, faults, userEvents>>

-----------------------------------------------------------------------------
KeyboardInit ==
  /\ grabbed = FALSE
  /\ platform = NoKey /\ named = FALSE
  /\ focused = TRUE /\ held = {}
  /\ believed = {} /\ queue = <<>> /\ timer = FALSE /\ tracked = <<>>
  /\ pressing = NoPress /\ repeating = NoRepeat
  /\ down = {} /\ amiss = {} /\ faults = {} /\ userEvents = 0

(* A new Keyboard object.                                                  *)
Grab ==
  /\ grabbed' = TRUE
  /\ platform' = NoKey /\ named' = FALSE
  /\ focused' = TRUE /\ held' = {}
  /\ believed' = {} /\ queue' = <<>> /\ timer' = FALSE /\ tracked' = <<>>
  /\ pressing' = NoPress /\ repeating' = NoRepeat
  /\ down' = {} /\ amiss' = {} /\ faults' = {} /\ userEvents' = 0

(* The user turns to the console, perhaps with modifiers held that the     *)
(* page did not see go down.                                               *)
TurnTo ==
  /\ grabbed /\ platform = NoKey
  /\ platform' \in Platforms /\ named' \in Naming
  /\ held' \in SUBSET OnKeyboard'
  /\ UNCHANGED <<grabbed, focused, believed, queue, timer, tracked, pressing, repeating,
                 down, amiss, faults, userEvents>>

(* ungrab, and the socket is closed: all keys are released, but behind a   *)
(* stall it comes too late.  (What the chain still holds is lost with the  *)
(* Keyboard object; the keys held are those of the next one.)              *)
Ungrab ==
  /\ grabbed' = FALSE
  /\ IF timer THEN faults' = faults \cup {"late"} /\ UNCHANGED <<down, amiss>>
     ELSE PassOn(<<Event("releaseall", NoId, NoKeysym, {})>>) /\ UNCHANGED faults
  /\ tracked' = <<>> /\ queue' = <<>> /\ timer' = FALSE
  /\ platform' = NoKey /\ named' = FALSE /\ focused' = TRUE /\ userEvents' = 0
  /\ held' = {} /\ believed' = {} /\ repeating' = NoRepeat
  /\ UNCHANGED pressing

(* The other end is gone, and the keys with it.                            *)
Forget ==
  /\ down' = {} /\ amiss' = {} /\ faults' = {}
  /\ UNCHANGED <<platform, named, grabbed, held, focused, believed, queue, timer, tracked,
                 pressing, repeating, userEvents>>

UserTypes ==
  \/ TurnTo
  \/ \E k \in Letters \cup Odd \cup OnKeyboard : KeyDown(k) \/ KeyUp(k)
  \/ MouseMoves \/ Blur \/ Focus

-----------------------------------------------------------------------------
KeyboardTypeOK ==
  /\ held \subseteq Keys /\ believed \subseteq Modifiers
  /\ queue # <<>> => timer
  /\ down \subseteq Keys \X {"plain", "shift", "third"}
  /\ faults \subseteq {"left", "repeat", "late"}
  /\ amiss \subseteq {"guess", "third", "shortcut"}

Quiet == queue = <<>> /\ ~timer /\ pressing = NoPress

(* Whatever order keys, timers, focus and the end of the connection come   *)
(* in, the page forgets no key that is down at the other end, but for the  *)
(* character modifier, which an escape presses again: with nothing tracked *)
(* no key is down there.                                                   *)
DownIsTracked ==
  "late" \notin faults => down \subseteq AllKeysyms(tracked) \cup Syms(CharModifiers)

(* None but keys go there, and those that are down are tracked.            *)
NoKeyIsForgotten == KeyboardTypeOK /\ DownIsTracked

(* The page saw every event, and what it made of them was no guess.        *)
SawAll == faults = {} /\ "guess" \notin amiss

(* A character of the third level arrives with its modifier undone, and a  *)
(* key with the modifiers it was typed with, also those that were down     *)
(* before the page could see them.                                         *)
NothingAmiss == SawAll => amiss = {}

(* Nothing is tracked when all the keys are up.                            *)
NothingLeft == SawAll /\ Quiet /\ held = {} => tracked = <<>>

(* So every key arrives as it is typed, and its release as well.           *)
TypedAsHere == NothingAmiss /\ NothingLeft

(* What a comment says of ungrab, "Release (key up) all keys that are in a *)
(* down state".                                                            *)
UngrabReleases == ~grabbed => down = {}
=============================================================================
