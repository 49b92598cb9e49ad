------------------------ MODULE ConsoleInput_proofs -------------------------
(***************************************************************************)
(* Proofs about ConsoleInput: for any number of viewers, keys, buttons and *)
(* positions, and any type of DRAC, it reads every key that is typed after *)
(* the login by one viewer at a time (KeysUnderstood), no key sticks       *)
(* (NoKeySticks), and its mouse is that of the browsers (MouseFollows).    *)
(*                                                                         *)
(* The first rests on both ends of the cipher being at the same key        *)
(* (CipherInSync), the second on whose key it is that is down (Explained). *)
(* The table of the keys is not looked into: what is said holds of any.    *)
(***************************************************************************)
EXTENDS ConsoleInput, FiniteSetTheorems, TLAPS

-----------------------------------------------------------------------------
(* The invariant.                                                          *)

DracType == [down : SUBSET (Codes \ {None}), buttons : Masks \cup {0, 1}, at : Positions,
             cipher : Int, misread : BOOLEAN]

(* A key that was encrypted and not yet written was counted as an event.   *)
Sending == {v \in Viewers : InSendKey(v)}

Counted ==
  /\ events \in 0 .. MaxEvents
  /\ cipher \in Int /\ -1 <= cipher /\ cipher <= events
  /\ drac.cipher >= 0 /\ IsFiniteSet(Sending) /\ drac.cipher + Cardinality(Sending) <= events
  /\ \A v \in Viewers : /\ message[v].at \in Int /\ -1 <= message[v].at /\ message[v].at <= events
                        /\ pc[v] = "encrypt" => message[v].at < events

InputTypes ==
  /\ dracType \in Types /\ login \in 0 .. LoginParts + 1
  /\ pc \in [Viewers -> {"loop", "encrypt", "write", "gone"}]
  /\ message \in [Viewers -> [code : Codes, down : BOOLEAN, at : Int]]
  /\ held \in [Viewers -> SUBSET Keys] /\ mask \in [Viewers -> Masks]
  /\ oldButtonMask \in [Viewers -> Masks]
  /\ drac \in DracType
  /\ faults \subseteq {"early", "overlap", "left"} /\ alive \in BOOLEAN

(* As long as nobody typed before the login, and no two viewers at once,   *)
(* one key at most is under way, and the DRAC deciphers as many as the     *)
(* daemon encrypted.                                                       *)
CipherInSync ==
  faults \subseteq {"left"} =>
    /\ ~ drac.misread
    /\ \A v, w \in Viewers : InSendKey(v) /\ InSendKey(w) => v = w
    /\ \A v \in Viewers : InSendKey(v) => LoggedIn /\ message[v].at = drac.cipher
    /\ LoggedIn => \/ cipher = drac.cipher /\ \A v \in Viewers : pc[v] # "write"
                   \/ cipher = drac.cipher + 1 /\ \E v \in Viewers : pc[v] = "write"

(* A key is down at the DRAC because a viewer holds one with its code, or  *)
(* because what tells that it came up is under way.                        *)
Explained(code) ==
  \/ \E v \in Viewers : \E key \in held[v] : UsbCode(key) = code
  \/ \E v \in Viewers : InSendKey(v) /\ message[v].code = code /\ ~ message[v].down

HeldToo(v) ==
  /\ message[v].code >= 0
  /\ message[v].down => \E key \in held[v] : UsbCode(key) = message[v].code

KeysExplained ==
  /\ \A v \in Viewers : InSendKey(v) => HeldToo(v)
  /\ faults = {} => \A code \in drac.down : code >= 0 /\ Explained(code)

MouseInv ==
  /\ oldButtonMask = mask
  /\ faults = {} => /\ drac.buttons # 0 => \E v \in Viewers : mask[v] # 0
                    /\ pointer.moved \/ dracType # 4 => drac.at = pointer.at

InputInv ==
  /\ InputTypes /\ Counted
  /\ ~ LoggedIn => drac.cipher = 0
  /\ CipherInSync /\ KeysExplained /\ MouseInv

-----------------------------------------------------------------------------
(* What it says.                                                           *)

LEMMA TypesFollow == InputInv => TypeOK
<1> SUFFICES ASSUME InputInv PROVE TypeOK
  OBVIOUS
<1>1. InputTypes /\ Counted /\ MaxEvents \in Nat
  BY InputAssumption DEF InputInv
<1>2. \A v \in Viewers : message[v].at \in -1 .. MaxEvents
  BY <1>1 DEF Counted
<1>3. message \in [Viewers -> [code : Codes, down : BOOLEAN, at : -1 .. MaxEvents]]
  BY <1>1, <1>2 DEF InputTypes
<1>4. cipher \in -1 .. MaxEvents /\ events \in 0 .. MaxEvents
  BY <1>1 DEF Counted
<1>5. drac.cipher \in 0 .. MaxEvents
  <2>1. Cardinality(Sending) \in Nat /\ drac.cipher \in Int
    BY <1>1, FS_CardinalityType DEF Counted, InputTypes, DracType
  <2> QED BY <1>1, <2>1 DEF Counted
<1>6. drac.down \subseteq Codes \ {None} /\ drac.buttons \in Masks \cup {0, 1} /\ drac.misread \in BOOLEAN
  BY <1>1 DEF InputTypes, DracType
<1> QED BY <1>1, <1>3, <1>4, <1>5, <1>6 DEF InputTypes, TypeOK

LEMMA InputBegins == Init => InputInv
<1> SUFFICES ASSUME Init PROVE InputInv
  OBVIOUS
<1>1. /\ drac = [down |-> {}, buttons |-> 0, at |-> Nowhere, cipher |-> 0, misread |-> FALSE]
      /\ \A v \in Viewers : pc[v] = "loop" /\ message[v] = NoKey
      /\ cipher = 0 /\ events = 0 /\ login = 0
  BY DEF Init
<1>0. LoginParts \in Nat \ {0} /\ MaxEvents \in Nat /\ 0 \in Masks
  BY InputAssumption
<1>2. Nowhere \in Positions /\ None \in Codes
  <2>0. Positions # {}
    BY InputAssumption
  <2>1. \E p \in Positions : TRUE
    BY <2>0
  <2>2. Nowhere \in Positions
    BY <2>1 DEF Nowhere
  <2> QED BY <2>2 DEF Codes
<1>3. InputTypes
  <2>1. drac \in DracType
    BY <1>0, <1>1, <1>2 DEF DracType
  <2>2. NoKey \in [code : Codes, down : BOOLEAN, at : Int]
    BY <1>2 DEF NoKey
  <2>3. login \in 0 .. LoginParts + 1
    BY <1>0, <1>1
  <2> QED BY <1>0, <1>1, <2>1, <2>2, <2>3 DEF Init, InputTypes
<1>4. \A v \in Viewers : ~ InSendKey(v)
  BY <1>1 DEF InSendKey
<1>5. Counted
  <2>1. Sending = {}
    BY <1>4 DEF Sending
  <2>2. IsFiniteSet(Sending) /\ Cardinality(Sending) = 0
    BY <2>1, FS_EmptySet
  <2>3. \A v \in Viewers : message[v].at = 0 /\ pc[v] # "encrypt"
    BY <1>1 DEF NoKey
  <2>4. drac.cipher = 0
    BY <1>1
  <2> QED BY <1>0, <1>1, <2>2, <2>3, <2>4 DEF Counted
<1>6. ~ LoggedIn
  BY <1>0, <1>1 DEF LoggedIn
<1>7. CipherInSync /\ KeysExplained /\ MouseInv
  BY <1>1, <1>4, <1>6 DEF CipherInSync, KeysExplained, MouseInv, Init
<1> QED BY <1>1, <1>3, <1>5, <1>7 DEF InputInv

-----------------------------------------------------------------------------
(* What steps have in common.                                              *)

LEMMA LeftIsBit == ASSUME NEW m \in Masks PROVE Left(m) \in {0, 1}
<1>1. m \in Nat
  BY InputAssumption
<1> QED BY <1>1 DEF Left

(* A turn of the loop that sends nothing, and one that sends.              *)
LEMMA SameSending ==
  ASSUME \A v \in Viewers : InSendKey(v)' <=> InSendKey(v)
  PROVE  Sending' = Sending
BY DEF Sending

LEMMA MoreSending ==
  ASSUME Counted, InputTypes, NEW v \in Viewers, ~ InSendKey(v), InSendKey(v)',
         \A w \in Viewers \ {v} : InSendKey(w)' <=> InSendKey(w)
  PROVE  IsFiniteSet(Sending') /\ Cardinality(Sending') = Cardinality(Sending) + 1
<1>1. Sending' = Sending \cup {v} /\ v \notin Sending
  BY DEF Sending
<1>2. IsFiniteSet(Sending)
  BY DEF Counted
<1>3. IsFiniteSet(Sending \cup {v}) /\ Cardinality(Sending \cup {v}) = Cardinality(Sending) + 1
  BY <1>1, <1>2, FS_AddElement
<1> QED BY <1>1, <1>3

LEMMA LessSending ==
  ASSUME Counted, InputTypes, NEW v \in Viewers, InSendKey(v), ~ InSendKey(v)',
         \A w \in Viewers \ {v} : InSendKey(w)' <=> InSendKey(w)
  PROVE  IsFiniteSet(Sending') /\ Cardinality(Sending') = Cardinality(Sending) - 1
<1>1. Sending' = Sending \ {v} /\ v \in Sending
  BY DEF Sending
<1>2. IsFiniteSet(Sending)
  BY DEF Counted
<1>3. IsFiniteSet(Sending \ {v}) /\ Cardinality(Sending \ {v}) = Cardinality(Sending) - 1
  BY <1>1, <1>2, FS_RemoveElement
<1> QED BY <1>1, <1>3

(* The cardinality is a number.                                            *)
LEMMA SendingCounted == Counted => Cardinality(Sending) \in Nat
BY FS_CardinalityType DEF Counted

-----------------------------------------------------------------------------
(* One lemma for each step.                                                *)

LEMMA LoginStep ==
  ASSUME InputInv, WriteLogin \/ SetKey
  PROVE  InputInv'
<1>1. InputTypes /\ Counted /\ CipherInSync /\ KeysExplained /\ MouseInv /\ (~ LoggedIn => drac.cipher = 0)
  BY DEF InputInv
<1>2. login \in 0 .. LoginParts + 1 /\ LoginParts \in Nat \ {0} /\ ~ LoggedIn
  BY <1>1, InputAssumption DEF InputTypes, WriteLogin, SetKey, LoggedIn
<1>3. login' = login + 1 /\ login' \in 0 .. LoginParts + 1
  BY <1>2 DEF WriteLogin, SetKey
<1>4. UNCHANGED <<dracType, pc, message, held, mask, oldButtonMask, drac, pointer, faults, events, alive>>
  BY DEF WriteLogin, SetKey
<1>5. cipher' = cipher \/ cipher' = 0
  BY DEF WriteLogin, SetKey
<1>6. InputTypes'
  BY <1>1, <1>3, <1>4 DEF InputTypes
<1>7. Counted'
  <2>1. Sending' = Sending
    BY <1>4, SameSending DEF InSendKey
  <2>2. cipher' \in Int /\ -1 <= cipher' /\ cipher' <= events
    BY <1>1, <1>5 DEF Counted
  <2> QED BY <1>1, <1>4, <2>1, <2>2 DEF Counted
<1>8. \A v \in Viewers : InSendKey(v)' = InSendKey(v)
  BY <1>4 DEF InSendKey
<1>9. KeysExplained'
  BY <1>1, <1>4, <1>8 DEF KeysExplained, HeldToo, Explained
<1>10. MouseInv'
  BY <1>1, <1>4 DEF MouseInv
<1>11. CipherInSync'
  <2> SUFFICES ASSUME faults \subseteq {"left"} PROVE CipherInSync'
    BY <1>4 DEF CipherInSync
  <2>1. \A v \in Viewers : ~ InSendKey(v)
    BY <1>1, <1>2 DEF CipherInSync
  <2>2. \A v \in Viewers : ~ InSendKey(v)' /\ pc'[v] # "write"
    BY <1>8, <2>1 DEF InSendKey
  <2>3. LoggedIn' => cipher' = 0
    BY <1>2, <1>3, <1>4 DEF WriteLogin, SetKey, LoggedIn
  <2> QED BY <1>1, <1>2, <1>4, <2>2, <2>3 DEF CipherInSync
<1> QED BY <1>1, <1>2, <1>4, <1>6, <1>7, <1>9, <1>10, <1>11 DEF InputInv

LEMMA IgnoreKeyStep ==
  ASSUME InputInv, NEW v \in Viewers, NEW key \in Keys, NEW down \in BOOLEAN, IgnoreKey(v, key, down)
  PROVE  InputInv'
<1>1. InputTypes /\ Counted /\ CipherInSync /\ KeysExplained /\ MouseInv /\ (~ LoggedIn => drac.cipher = 0)
  BY DEF InputInv
<1>2. /\ events < MaxEvents /\ events' = events + 1 /\ pc[v] = "loop"
      /\ held' = [held EXCEPT ![v] = IF down THEN @ \cup {key} ELSE @ \ {key}]
      /\ UNCHANGED <<dracType, login, alive, mask, oldButtonMask, pointer, pc, message, cipher, drac, faults>>
      /\ ~ (UsbCode(key) >= 0)
  BY DEF IgnoreKey, Event, Typed
<1>3. InputTypes'
  BY <1>1, <1>2 DEF InputTypes
<1>4. \A w \in Viewers : InSendKey(w)' = InSendKey(w)
  BY <1>2 DEF InSendKey
<1>5. Counted'
  <2>1. Sending' = Sending
    BY <1>4, SameSending
  <2>2. Cardinality(Sending) \in Nat /\ MaxEvents \in Nat
    BY <1>1, SendingCounted, InputAssumption
  <2>3. events' \in 0 .. MaxEvents /\ events <= events'
    BY <1>1, <1>2, <2>2 DEF Counted
  <2> QED BY <1>1, <1>2, <2>1, <2>2, <2>3 DEF Counted, InputTypes, DracType
<1>6. LoggedIn' = LoggedIn /\ MouseInv'
  BY <1>1, <1>2 DEF LoggedIn, MouseInv
<1>7. CipherInSync'
  BY <1>1, <1>2, <1>4, <1>6 DEF CipherInSync
<1>8. KeysExplained'
  <2>2. \A w \in Viewers : \A k \in held[w] : UsbCode(k) >= 0 => k \in held'[w]
    BY <1>1, <1>2 DEF InputTypes
  <2>1. message' = message /\ drac' = drac /\ faults' = faults
    BY <1>2
  <2>3. ASSUME NEW w \in Viewers, InSendKey(w)' PROVE HeldToo(w)'
    <3>1. HeldToo(w) /\ InSendKey(w)
      BY <1>1, <1>4, <2>3 DEF KeysExplained
    <3>2. message'[w].code >= 0
      BY <2>1, <3>1 DEF HeldToo
    <3>3. ASSUME message[w].down PROVE \E k \in held'[w] : UsbCode(k) = message[w].code
      BY <2>2, <3>1, <3>3 DEF HeldToo
    <3> QED BY <2>1, <3>2, <3>3 DEF HeldToo
  <2>4. \A code : code >= 0 /\ Explained(code) => Explained(code)'
    BY <1>2, <1>4, <2>2 DEF Explained
  <2>5. ASSUME faults = {} PROVE \A code \in drac.down : code >= 0 /\ Explained(code)'
    BY <1>1, <2>4, <2>5 DEF KeysExplained
  <2> QED BY <2>1, <2>3, <2>5 DEF KeysExplained
<1> QED BY <1>1, <1>2, <1>3, <1>5, <1>6, <1>7, <1>8 DEF InputInv

(* What a key that is typed does to the codes that are held.               *)
LEMMA TypedHolds ==
  ASSUME InputTypes, NEW v \in Viewers, NEW key \in Keys, NEW down \in BOOLEAN, Typed(v, key, down)
  PROVE  /\ held' \in [Viewers -> SUBSET Keys] /\ \A w \in Viewers \ {v} : held'[w] = held[w]
         /\ \A k \in held[v] : k # key \/ down => k \in held'[v]
         /\ down => key \in held'[v]
BY DEF Typed, InputTypes

(* A code that is not the one typed stays explained, by a viewer that      *)
(* holds it or by what is under way.                                       *)
LEMMA StaysExplained ==
  ASSUME InputTypes, NEW v \in Viewers, NEW key \in Keys, NEW down \in BOOLEAN, Typed(v, key, down),
         NEW code, Explained(code), code # UsbCode(key) \/ down,
         \A w \in Viewers : InSendKey(w) => InSendKey(w)' /\ message'[w] = message[w]
  PROVE  Explained(code)'
<1>1. CASE \E w \in Viewers : \E k \in held[w] : UsbCode(k) = code
  <2>0. PICK w \in Viewers : \E k \in held[w] : UsbCode(k) = code
    BY <1>1
  <2>1. PICK k \in held[w] : UsbCode(k) = code
    BY <2>0
  <2>2. k \in held'[w]
    BY <2>1, TypedHolds
  <2> QED BY <2>1, <2>2 DEF Explained
<1>2. CASE \E w \in Viewers : InSendKey(w) /\ message[w].code = code /\ ~ message[w].down
  BY <1>2 DEF Explained
<1> QED BY <1>1, <1>2 DEF Explained

(* The other viewers hold what they did.                                   *)
LEMMA OthersHold ==
  ASSUME InputTypes, KeysExplained, NEW v \in Viewers, NEW w \in Viewers \ {v}, InSendKey(w),
         held'[w] = held[w], message'[w] = message[w]
  PROVE  HeldToo(w)'
<1>1. HeldToo(w)
  BY DEF KeysExplained
<1> QED BY <1>1 DEF HeldToo

LEMMA OneMoreEvent ==
  ASSUME Counted, events < MaxEvents, events' = events + 1
  PROVE  events' \in 0 .. MaxEvents /\ events \in Nat
<1>1. events \in Nat /\ MaxEvents \in Nat
  BY InputAssumption DEF Counted
<1> QED BY <1>1

LEMMA SendKeyStep ==
  ASSUME InputInv, NEW v \in Viewers, NEW key \in Keys, NEW down \in BOOLEAN, SendKey(v, key, down)
  PROVE  InputInv'
<1>1. InputTypes /\ Counted /\ CipherInSync /\ KeysExplained /\ MouseInv /\ (~ LoggedIn => drac.cipher = 0)
  BY DEF InputInv
<1>2. /\ events < MaxEvents /\ events' = events + 1 /\ pc[v] = "loop" /\ faults' = faults \cup Early
      /\ Typed(v, key, down) /\ GetsKey(UsbCode(key), down)
      /\ UNCHANGED <<dracType, login, alive, mask, oldButtonMask, pointer, pc, message, cipher>>
      /\ UsbCode(key) >= 0 /\ ~ OutOfTable(key)
  BY DEF SendKey, Event, Typed
<1>3. UsbCode(key) \in Codes \ {None}
  <2>1. ~ (None >= 0)
    BY DEF None
  <2> QED BY <1>2, <2>1 DEF Codes
<1> DEFINE c == UsbCode(key)
<1> HIDE DEF c
<1>4. drac' = IF LoggedIn THEN [drac EXCEPT !.down = Pressed(down, c)] ELSE [drac EXCEPT !.misread = TRUE]
  BY <1>2 DEF GetsKey, c
<1>5. drac \in DracType /\ c \in Codes \ {None} /\ c >= 0
  BY <1>1, <1>2, <1>3 DEF InputTypes, c
<1>6. /\ drac' \in DracType /\ drac'.cipher = drac.cipher /\ drac'.buttons = drac.buttons /\ drac'.at = drac.at
      /\ LoggedIn => drac'.misread = drac.misread /\ drac'.down = Pressed(down, c)
  BY <1>4, <1>5 DEF DracType, Pressed
<1>7. faults' \subseteq {"early", "overlap", "left"} /\ faults \subseteq faults' /\ (~ LoggedIn => "early" \in faults')
  BY <1>1, <1>2 DEF Early, InputTypes
<1>8. InputTypes'
  BY <1>1, <1>2, <1>6, <1>7, TypedHolds DEF InputTypes
<1>9. \A w \in Viewers : InSendKey(w)' = InSendKey(w)
  BY <1>2 DEF InSendKey
<1>10. Counted'
  <2>1. Sending' = Sending
    BY <1>9, SameSending
  <2>2. Cardinality(Sending) \in Nat /\ events' \in 0 .. MaxEvents /\ events \in Nat
    BY <1>1, <1>2, SendingCounted, OneMoreEvent
  <2>3. drac'.cipher + Cardinality(Sending) <= events'
    BY <1>1, <1>2, <1>5, <1>6, <2>2 DEF Counted, DracType
  <2> QED BY <1>1, <1>2, <1>6, <2>1, <2>2, <2>3 DEF Counted
<1>11. LoggedIn' = LoggedIn /\ (~ LoggedIn' => drac'.cipher = 0)
  BY <1>1, <1>2, <1>6 DEF LoggedIn
<1>12. CipherInSync'
  <2> SUFFICES ASSUME faults' \subseteq {"left"} PROVE CipherInSync'
    BY DEF CipherInSync
  <2>1. LoggedIn /\ faults \subseteq {"left"}
    BY <1>7
  <2> QED BY <1>1, <1>2, <1>6, <1>9, <1>11, <2>1 DEF CipherInSync
<1>13. MouseInv'
  <2>1. faults' = {} => faults = {}
    BY <1>7
  <2> QED BY <1>1, <1>2, <1>6, <2>1 DEF MouseInv
<1>14. KeysExplained'
  <2>1. ASSUME NEW w \in Viewers, InSendKey(w)' PROVE HeldToo(w)'
    <3>1. w \in Viewers \ {v} /\ InSendKey(w)
      BY <1>2, <1>9, <2>1 DEF InSendKey
    <3> QED BY <1>1, <1>2, <3>1, OthersHold, TypedHolds
  <2>2. ASSUME faults' = {}, NEW code \in drac'.down PROVE code >= 0 /\ Explained(code)'
    <3>1. faults = {} /\ LoggedIn
      BY <1>7, <2>2
    <3>2. CASE code = c /\ down
      <4>1. key \in held'[v] /\ UsbCode(key) = code
        BY <1>1, <1>2, <3>2, TypedHolds DEF c
      <4> QED BY <1>5, <3>2, <4>1 DEF Explained
    <3>3. CASE ~ (code = c /\ down)
      <4>1. code \in drac.down /\ (code # UsbCode(key) \/ down)
        BY <1>6, <2>2, <3>1, <3>3 DEF Pressed, c
      <4>2. code >= 0 /\ Explained(code)
        BY <1>1, <3>1, <4>1 DEF KeysExplained
      <4> QED BY <1>1, <1>2, <1>9, <4>1, <4>2, StaysExplained
    <3> QED BY <3>2, <3>3
  <2> QED BY <2>1, <2>2 DEF KeysExplained
<1> QED BY <1>8, <1>10, <1>11, <1>12, <1>13, <1>14 DEF InputInv

LEMMA StartEncryptingStep ==
  ASSUME InputInv, NEW v \in Viewers, NEW key \in Keys, NEW down \in BOOLEAN, StartEncrypting(v, key, down)
  PROVE  InputInv'
<1>1. InputTypes /\ Counted /\ CipherInSync /\ KeysExplained /\ MouseInv /\ (~ LoggedIn => drac.cipher = 0)
  BY DEF InputInv
<1>2. /\ events < MaxEvents /\ events' = events + 1 /\ pc[v] = "loop"
      /\ faults' = faults \cup Early \cup Overlap(v)
      /\ Typed(v, key, down) /\ pc' = [pc EXCEPT ![v] = "encrypt"]
      /\ message' = [message EXCEPT ![v] = [code |-> UsbCode(key), down |-> down, at |-> cipher]]
      /\ UNCHANGED <<dracType, login, alive, mask, oldButtonMask, pointer, cipher, drac>>
      /\ UsbCode(key) >= 0 /\ ~ OutOfTable(key)
  BY DEF StartEncrypting, Event, Typed
<1>3. UsbCode(key) \in Codes
  BY <1>2 DEF Codes
<1> DEFINE c == UsbCode(key)
<1> HIDE DEF c
<1>4. /\ message'[v] = [code |-> c, down |-> down, at |-> cipher] /\ pc'[v] = "encrypt"
      /\ \A w \in Viewers \ {v} : message'[w] = message[w] /\ pc'[w] = pc[w]
  BY <1>1, <1>2 DEF InputTypes, c
<1>5. ~ InSendKey(v) /\ InSendKey(v)' /\ \A w \in Viewers \ {v} : InSendKey(w)' = InSendKey(w)
  BY <1>2, <1>4 DEF InSendKey
<1>6. /\ faults' \subseteq {"early", "overlap", "left"} /\ faults \subseteq faults'
      /\ ~ LoggedIn => "early" \in faults'
      /\ (\E w \in Viewers \ {v} : InSendKey(w)) => "overlap" \in faults'
  BY <1>1, <1>2 DEF Early, Overlap, InputTypes
<1>7. InputTypes'
  <2>1. [code |-> c, down |-> down, at |-> cipher] \in [code : Codes, down : BOOLEAN, at : Int]
    BY <1>1, <1>3 DEF c, Counted
  <2>2. message' \in [Viewers -> [code : Codes, down : BOOLEAN, at : Int]]
    BY <1>1, <1>2, <2>1 DEF InputTypes, c
  <2> QED BY <1>1, <1>2, <1>6, <2>2, TypedHolds DEF InputTypes
<1>8. Counted'
  <2>1. IsFiniteSet(Sending') /\ Cardinality(Sending') = Cardinality(Sending) + 1
    BY <1>1, <1>5, MoreSending
  <2>2. Cardinality(Sending) \in Nat /\ events' \in 0 .. MaxEvents /\ events \in Nat
    BY <1>1, <1>2, SendingCounted, OneMoreEvent
  <2>3. drac.cipher + Cardinality(Sending') <= events'
    BY <1>1, <1>2, <2>1, <2>2 DEF Counted, InputTypes, DracType
  <2>4. cipher \in Int /\ -1 <= cipher /\ cipher < events'
    BY <1>1, <1>2, <2>2 DEF Counted
  <2>5. message'[v].at \in Int /\ -1 <= message'[v].at /\ message'[v].at < events'
    BY <1>4, <2>4
  <2>6. ASSUME NEW w \in Viewers \ {v}
        PROVE  /\ message'[w].at \in Int /\ -1 <= message'[w].at /\ message'[w].at <= events'
               /\ pc'[w] = "encrypt" => message'[w].at < events'
    BY <1>1, <1>2, <1>4, <2>2 DEF Counted
  <2>7. \A w \in Viewers : /\ message'[w].at \in Int /\ -1 <= message'[w].at /\ message'[w].at <= events'
                           /\ pc'[w] = "encrypt" => message'[w].at < events'
    BY <2>2, <2>5, <2>6
  <2> QED BY <1>1, <1>2, <2>1, <2>2, <2>3, <2>4, <2>7 DEF Counted
<1>9. LoggedIn' = LoggedIn /\ (~ LoggedIn' => drac'.cipher = 0)
  BY <1>1, <1>2 DEF LoggedIn
<1>10. CipherInSync'
  <2> SUFFICES ASSUME faults' \subseteq {"left"} PROVE CipherInSync'
    BY DEF CipherInSync
  <2>1. LoggedIn /\ faults \subseteq {"left"} /\ \A w \in Viewers \ {v} : ~ InSendKey(w)
    BY <1>6
  <2>2. \A w \in Viewers : pc[w] # "write"
    BY <1>2, <2>1 DEF InSendKey
  <2>3. cipher = drac.cipher /\ ~ drac.misread
    BY <1>1, <2>1, <2>2 DEF CipherInSync
  <2>4. \A w \in Viewers : (InSendKey(w)' => w = v) /\ pc'[w] # "write"
    BY <1>4, <1>5, <2>1, <2>2
  <2>5. message'[v].at = drac.cipher
    BY <1>4, <2>3
  <2> QED BY <1>2, <1>9, <2>1, <2>3, <2>4, <2>5 DEF CipherInSync
<1>11. MouseInv'
  <2>1. faults' = {} => faults = {}
    BY <1>6
  <2> QED BY <1>1, <1>2, <2>1 DEF MouseInv
<1>12. KeysExplained'
  <2>1. ASSUME NEW w \in Viewers, InSendKey(w)' PROVE HeldToo(w)'
    <3>1. CASE w = v
      <4>1. c >= 0 /\ (down => key \in held'[v]) /\ UsbCode(key) = c
        BY <1>1, <1>2, TypedHolds DEF c
      <4>2. HeldToo(v)'
        BY <1>4, <4>1 DEF HeldToo
      <4> QED BY <3>1, <4>2
    <3>2. CASE w # v
      BY <1>1, <1>2, <1>4, <1>5, <2>1, <3>2, OthersHold, TypedHolds
    <3> QED BY <3>1, <3>2
  <2>2. ASSUME faults' = {}, NEW code \in drac'.down PROVE code >= 0 /\ Explained(code)'
    <3>1. faults = {} /\ code \in drac.down
      BY <1>2, <1>6, <2>2
    <3>2. code >= 0 /\ Explained(code)
      BY <1>1, <3>1 DEF KeysExplained
    <3>3. CASE code = c /\ ~ down
      <4>1. InSendKey(v)' /\ message'[v].code = code /\ ~ message'[v].down
        BY <1>4, <1>5, <3>3
      <4> QED BY <3>2, <4>1 DEF Explained
    <3>4. CASE ~ (code = c /\ ~ down)
      <4>1. code # UsbCode(key) \/ down
        BY <3>4 DEF c
      <4>2. \A w \in Viewers : InSendKey(w) => InSendKey(w)' /\ message'[w] = message[w]
        BY <1>4, <1>5
      <4> QED BY <1>1, <1>2, <3>2, <4>1, <4>2, StaysExplained
    <3> QED BY <3>3, <3>4
  <2> QED BY <2>1, <2>2 DEF KeysExplained
<1> QED BY <1>7, <1>8, <1>9, <1>10, <1>11, <1>12 DEF InputInv

LEMMA EncryptStep ==
  ASSUME InputInv, NEW v \in Viewers, Encrypt(v)
  PROVE  InputInv'
<1>1. InputTypes /\ Counted /\ CipherInSync /\ KeysExplained /\ MouseInv /\ (~ LoggedIn => drac.cipher = 0)
  BY DEF InputInv
<1>2. /\ pc[v] = "encrypt" /\ cipher' \in Advanced(v, message[v].at) /\ pc' = [pc EXCEPT ![v] = "write"]
      /\ UNCHANGED <<dracType, login, message, held, mask, oldButtonMask, drac, pointer, faults, events, alive>>
  BY DEF Encrypt
<1>3. pc'[v] = "write" /\ \A w \in Viewers \ {v} : pc'[w] = pc[w]
  BY <1>1, <1>2 DEF InputTypes
<1>4. \A w \in Viewers : InSendKey(w)' = InSendKey(w)
  BY <1>2, <1>3 DEF InSendKey
<1>5. InputTypes'
  BY <1>1, <1>2 DEF InputTypes
<1>6. LoggedIn' = LoggedIn /\ MouseInv' /\ KeysExplained'
  BY <1>1, <1>2, <1>4 DEF LoggedIn, MouseInv, KeysExplained, HeldToo, Explained
<1>7. Counted'
  <2>1. Sending' = Sending
    BY <1>4, SameSending
  <2>2. cipher' = -1 \/ cipher' = cipher \/ cipher' = message[v].at + 1
    BY <1>2 DEF Advanced, Garbled
  <2>3. cipher' \in Int /\ -1 <= cipher' /\ cipher' <= events
    <3>1. events \in Nat
      BY <1>1 DEF Counted
    <3>2. message[v].at \in Int /\ -1 <= message[v].at /\ message[v].at < events
      BY <1>1, <1>2 DEF Counted
    <3> QED BY <1>1, <2>2, <3>1, <3>2 DEF Counted
  <2>4. \A w \in Viewers : pc'[w] = "encrypt" => pc[w] = "encrypt"
    BY <1>3
  <2> QED BY <1>1, <1>2, <2>1, <2>3, <2>4 DEF Counted
<1>8. CipherInSync'
  <2> SUFFICES ASSUME faults \subseteq {"left"} PROVE CipherInSync'
    BY <1>2 DEF CipherInSync
  <2>1. InSendKey(v) /\ LoggedIn /\ message[v].at = drac.cipher /\ \A w \in Viewers : InSendKey(w) => w = v
    BY <1>1, <1>2 DEF CipherInSync, InSendKey
  <2>2. \A w \in Viewers : pc[w] # "write" /\ (w # v => pc[w] # "encrypt")
    BY <1>2, <2>1 DEF InSendKey
  <2>3. cipher = drac.cipher
    BY <1>1, <2>1, <2>2 DEF CipherInSync
  <2>4. drac.cipher \in Int /\ drac.cipher >= 0
    BY <1>1 DEF Counted, InputTypes, DracType
  <2>5. cipher' = drac.cipher + 1
    <3>1. drac.cipher # Garbled
      BY <2>4 DEF Garbled
    <3> QED BY <1>2, <2>1, <2>2, <2>3, <3>1 DEF Advanced
  <2> QED BY <1>1, <1>2, <1>3, <1>4, <1>6, <2>1, <2>5 DEF CipherInSync
<1> QED BY <1>1, <1>2, <1>5, <1>6, <1>7, <1>8 DEF InputInv

LEMMA WriteKeyStep ==
  ASSUME InputInv, NEW v \in Viewers, WriteKey(v)
  PROVE  InputInv'
<1>1. InputTypes /\ Counted /\ CipherInSync /\ KeysExplained /\ MouseInv /\ (~ LoggedIn => drac.cipher = 0)
  BY DEF InputInv
<1>2. /\ pc[v] = "write" /\ pc' = [pc EXCEPT ![v] = "loop"] /\ message' = [message EXCEPT ![v] = NoKey]
      /\ UNCHANGED <<dracType, login, held, mask, oldButtonMask, cipher, pointer, faults, events, alive>>
      /\ GetsEncrypted(message[v])
  BY DEF WriteKey
<1> PICK key \in [code : Codes, down : BOOLEAN, at : Int] : key = message[v]
  BY <1>1 DEF InputTypes
<1>3. /\ pc'[v] = "loop" /\ message'[v] = NoKey
      /\ \A w \in Viewers \ {v} : pc'[w] = pc[w] /\ message'[w] = message[w]
  BY <1>1, <1>2 DEF InputTypes
<1>4. InSendKey(v) /\ ~ InSendKey(v)' /\ \A w \in Viewers \ {v} : InSendKey(w)' = InSendKey(w)
  BY <1>2, <1>3 DEF InSendKey
<1>5. drac \in DracType /\ key.code \in Codes /\ key.code >= 0 /\ ~ (None >= 0)
  BY <1>1, <1>4 DEF InputTypes, KeysExplained, HeldToo, None
<1>6. drac' = IF LoggedIn /\ key.at = drac.cipher
              THEN [drac EXCEPT !.down = Pressed(key.down, key.code), !.cipher = @ + 1]
              ELSE [drac EXCEPT !.misread = TRUE, !.cipher = IF LoggedIn THEN @ + 1 ELSE @]
  BY <1>2 DEF GetsEncrypted
<1>7. drac' \in DracType /\ drac'.buttons = drac.buttons /\ drac'.at = drac.at
  <2>1. Pressed(key.down, key.code) \in SUBSET (Codes \ {None})
    BY <1>5 DEF Pressed, DracType
  <2>0. drac.cipher \in Int /\ drac.cipher + 1 \in Int
    BY <1>5 DEF DracType
  <2>2. CASE LoggedIn /\ key.at = drac.cipher
    <3>1. drac' = [drac EXCEPT !.down = Pressed(key.down, key.code), !.cipher = drac.cipher + 1]
      BY <1>5, <1>6, <2>2 DEF DracType
    <3> QED BY <1>5, <2>0, <2>1, <3>1 DEF DracType
  <2>3. CASE ~ (LoggedIn /\ key.at = drac.cipher)
    <3>1. drac' = [drac EXCEPT !.misread = TRUE, !.cipher = IF LoggedIn THEN drac.cipher + 1 ELSE drac.cipher]
      BY <1>5, <1>6, <2>3 DEF DracType
    <3> QED BY <1>5, <2>0, <3>1 DEF DracType
  <2> QED BY <2>2, <2>3
<1>8. /\ LoggedIn => drac'.cipher = drac.cipher + 1
      /\ ~ LoggedIn => drac'.cipher = drac.cipher
      /\ LoggedIn /\ key.at = drac.cipher => /\ drac'.misread = drac.misread
                                            /\ drac'.down = Pressed(key.down, key.code)
  BY <1>5, <1>6 DEF DracType
<1>9. InputTypes'
  <2>1. NoKey \in [code : Codes, down : BOOLEAN, at : Int]
    <3>1. None \in Codes
      BY DEF Codes
    <3> QED BY <3>1 DEF NoKey
  <2> QED BY <1>1, <1>2, <1>7, <2>1 DEF InputTypes
<1>10. Counted'
  <2>1. IsFiniteSet(Sending') /\ Cardinality(Sending') = Cardinality(Sending) - 1
    BY <1>1, <1>4, LessSending
  <2>2. Cardinality(Sending) \in Nat /\ drac.cipher \in Int /\ drac.cipher >= 0 /\ events \in Nat
    BY <1>1, <1>5, SendingCounted DEF Counted, DracType
  <2>3. drac.cipher + Cardinality(Sending) <= events
    BY <1>1 DEF Counted
  <2>4. drac'.cipher = drac.cipher + 1 \/ drac'.cipher = drac.cipher
    BY <1>8
  <2>5. drac'.cipher >= 0 /\ drac'.cipher + Cardinality(Sending') <= events
    BY <2>1, <2>2, <2>3, <2>4
  <2>6. message'[v].at = 0 /\ pc'[v] # "encrypt"
    BY <1>3 DEF NoKey
  <2>7. \A w \in Viewers : /\ message'[w].at \in Int /\ -1 <= message'[w].at /\ message'[w].at <= events
                           /\ pc'[w] = "encrypt" => message'[w].at < events
    BY <1>1, <1>3, <2>2, <2>6 DEF Counted
  <2> QED BY <1>1, <1>2, <2>1, <2>5, <2>7 DEF Counted
<1>11. LoggedIn' = LoggedIn /\ (~ LoggedIn' => drac'.cipher = 0)
  BY <1>1, <1>2, <1>8 DEF LoggedIn
<1>12. ASSUME faults \subseteq {"left"}
       PROVE  /\ LoggedIn /\ key.at = drac.cipher /\ cipher = drac.cipher + 1 /\ ~ drac.misread
              /\ \A w \in Viewers \ {v} : ~ InSendKey(w)
  BY <1>1, <1>2, <1>4, <1>12 DEF CipherInSync
<1>13. CipherInSync'
  <2> SUFFICES ASSUME faults \subseteq {"left"} PROVE CipherInSync'
    BY <1>2 DEF CipherInSync
  <2>1. ~ drac'.misread /\ cipher = drac'.cipher
    BY <1>8, <1>12
  <2>2. \A w \in Viewers : ~ InSendKey(w)'
    BY <1>4, <1>12
  <2>3. \A w \in Viewers : pc'[w] # "write"
    BY <2>2 DEF InSendKey
  <2> QED BY <1>2, <2>1, <2>2, <2>3 DEF CipherInSync
<1>14. MouseInv'
  BY <1>1, <1>2, <1>7 DEF MouseInv
<1>15. KeysExplained'
  <2>1. ASSUME NEW w \in Viewers, InSendKey(w)' PROVE HeldToo(w)'
    BY <1>1, <1>2, <1>3, <1>4, <2>1, OthersHold
  <2>2. ASSUME faults = {}, NEW code \in drac'.down PROVE code >= 0 /\ Explained(code)'
    <3>1. /\ LoggedIn /\ key.at = drac.cipher /\ \A w \in Viewers \ {v} : ~ InSendKey(w)
          /\ drac'.down = Pressed(key.down, key.code)
      BY <1>8, <1>12, <2>2
    <3>2. CASE key.down /\ code = key.code
      <4>1. PICK k \in held[v] : UsbCode(k) = code
        BY <1>1, <1>4, <3>2 DEF KeysExplained, HeldToo
      <4>2. k \in held'[v]
        BY <1>2
      <4> QED BY <1>5, <3>2, <4>1, <4>2 DEF Explained
    <3>3. CASE ~ (key.down /\ code = key.code)
      <4>1. code \in drac.down /\ (code # key.code \/ key.down)
        BY <2>2, <3>1, <3>3 DEF Pressed
      <4>2. code >= 0 /\ Explained(code)
        BY <1>1, <2>2, <4>1 DEF KeysExplained
      <4>3. \E w \in Viewers : \E k \in held[w] : UsbCode(k) = code
        BY <3>1, <4>1, <4>2 DEF Explained
      <4> QED BY <1>2, <4>2, <4>3 DEF Explained
    <3> QED BY <3>2, <3>3
  <2> QED BY <1>2, <2>1, <2>2 DEF KeysExplained
<1> QED BY <1>9, <1>10, <1>11, <1>13, <1>14, <1>15 DEF InputInv

LEMMA SendMouseStep ==
  ASSUME InputInv, NEW v \in Viewers, NEW m \in Masks, NEW at \in Positions, SendMouse(v, m, at)
  PROVE  InputInv'
<1>1. InputTypes /\ Counted /\ CipherInSync /\ KeysExplained /\ MouseInv /\ (~ LoggedIn => drac.cipher = 0)
  BY DEF InputInv
<1>2. /\ events < MaxEvents /\ events' = events + 1 /\ pc[v] = "loop" /\ faults' = faults \cup Early
      /\ mask' = [mask EXCEPT ![v] = m] /\ oldButtonMask' = [oldButtonMask EXCEPT ![v] = m]
      /\ pointer' = [at |-> at, moved |-> m = mask[v]]
      /\ UNCHANGED <<dracType, login, alive, pc, message, held, cipher>>
  BY DEF SendMouse, Event, NewMask
<1>3. oldButtonMask = mask /\ mask \in [Viewers -> Masks] /\ drac \in DracType
  BY <1>1 DEF MouseInv, InputTypes
<1>4. /\ ~ LoggedIn => drac' = [drac EXCEPT !.misread = TRUE]
      /\ LoggedIn /\ dracType # 4 => drac' = [drac EXCEPT !.buttons = m, !.at = at]
      /\ LoggedIn /\ dracType = 4 /\ m # mask[v] => drac' = [drac EXCEPT !.buttons = Left(m)]
      /\ LoggedIn /\ dracType = 4 /\ m = mask[v] => drac' = [drac EXCEPT !.at = at]
  BY <1>3 DEF SendMouse, GetsMouse, Pointed, Clicked, Moved
<1>5. Left(m) \in {0, 1} /\ Left(0) = 0
  BY LeftIsBit DEF Left
<1>6. /\ drac' \in DracType /\ drac'.down = drac.down /\ drac'.cipher = drac.cipher
      /\ LoggedIn => drac'.misread = drac.misread
  <2>1. CASE ~ LoggedIn
    BY <1>3, <1>4, <2>1 DEF DracType
  <2>2. CASE LoggedIn /\ dracType # 4
    BY <1>3, <1>4, <2>2 DEF DracType
  <2>3. CASE LoggedIn /\ dracType = 4 /\ m # mask[v]
    BY <1>3, <1>4, <1>5, <2>3 DEF DracType
  <2>4. CASE LoggedIn /\ dracType = 4 /\ m = mask[v]
    BY <1>3, <1>4, <2>4 DEF DracType
  <2> QED BY <2>1, <2>2, <2>3, <2>4
<1>7. faults' \subseteq {"early", "overlap", "left"} /\ faults \subseteq faults' /\ (~ LoggedIn => "early" \in faults')
  BY <1>1, <1>2 DEF Early, InputTypes
<1>8. InputTypes'
  BY <1>1, <1>2, <1>6, <1>7 DEF InputTypes
<1>9. \A w \in Viewers : InSendKey(w)' = InSendKey(w)
  BY <1>2 DEF InSendKey
<1>10. Counted'
  <2>1. Sending' = Sending
    BY <1>9, SameSending
  <2>2. Cardinality(Sending) \in Nat /\ events' \in 0 .. MaxEvents /\ events \in Nat
    BY <1>1, <1>2, SendingCounted, OneMoreEvent
  <2>3. drac'.cipher + Cardinality(Sending) <= events'
    BY <1>1, <1>2, <1>3, <1>6, <2>2 DEF Counted, DracType
  <2> QED BY <1>1, <1>2, <1>6, <2>1, <2>2, <2>3 DEF Counted
<1>11. LoggedIn' = LoggedIn /\ (~ LoggedIn' => drac'.cipher = 0)
  BY <1>1, <1>2, <1>6 DEF LoggedIn
<1>12. CipherInSync'
  <2> SUFFICES ASSUME faults' \subseteq {"left"} PROVE CipherInSync'
    BY DEF CipherInSync
  <2>1. LoggedIn /\ faults \subseteq {"left"}
    BY <1>7
  <2> QED BY <1>1, <1>2, <1>6, <1>9, <1>11, <2>1 DEF CipherInSync
<1>13. KeysExplained'
  <2>1. faults' = {} => faults = {}
    BY <1>7
  <2> QED BY <1>1, <1>2, <1>6, <1>9, <2>1 DEF KeysExplained, HeldToo, Explained
<1>14. MouseInv'
  <2>1. oldButtonMask' = mask' /\ mask'[v] = m /\ \A w \in Viewers \ {v} : mask'[w] = mask[w]
    BY <1>2, <1>3
  <2> SUFFICES ASSUME faults' = {}
               PROVE  /\ drac'.buttons # 0 => \E w \in Viewers : mask'[w] # 0
                      /\ pointer'.moved \/ dracType # 4 => drac'.at = pointer'.at
    BY <1>2, <2>1 DEF MouseInv
  <2>2. LoggedIn /\ faults = {}
    BY <1>7
  <2>3. pointer'.at = at /\ (pointer'.moved <=> m = mask[v])
    BY <1>2
  <2>4. CASE dracType # 4
    <3>1. drac'.buttons = m /\ drac'.at = at
      BY <1>3, <1>4, <2>2, <2>4 DEF DracType
    <3> QED BY <2>1, <2>3, <3>1
  <2>5. CASE dracType = 4 /\ m # mask[v]
    <3>1. drac'.buttons = Left(m)
      BY <1>3, <1>4, <2>2, <2>5 DEF DracType
    <3> QED BY <1>5, <2>1, <2>3, <2>5, <3>1
  <2>6. CASE dracType = 4 /\ m = mask[v]
    <3>1. drac'.buttons = drac.buttons /\ drac'.at = at
      BY <1>3, <1>4, <2>2, <2>6 DEF DracType
    <3>2. mask' = mask
      BY <1>2, <1>3, <2>6
    <3> QED BY <1>1, <2>2, <2>3, <3>1, <3>2 DEF MouseInv
  <2> QED BY <2>4, <2>5, <2>6
<1> QED BY <1>8, <1>10, <1>11, <1>12, <1>13, <1>14 DEF InputInv

(* Every step.                                                             *)
LEMMA InputStep == InputInv /\ [Next]_vars => InputInv'
<1> SUFFICES ASSUME InputInv, [Next]_vars PROVE InputInv'
  OBVIOUS
<1>1. InputTypes /\ Counted /\ CipherInSync /\ KeysExplained /\ MouseInv /\ (~ LoggedIn => drac.cipher = 0)
  BY DEF InputInv
<1>2. CASE UNCHANGED vars
  <2>1. UNCHANGED <<dracType, login, pc, message, held, mask, oldButtonMask, cipher, drac, pointer, faults, events, alive>>
    BY <1>2 DEF vars
  <2>2. \A w \in Viewers : InSendKey(w)' = InSendKey(w)
    BY <2>1 DEF InSendKey
  <2>3. Sending' = Sending
    BY <2>2, SameSending
  <2>4. InputTypes' /\ Counted'
    BY <1>1, <2>1, <2>3 DEF InputTypes, Counted
  <2>5. LoggedIn' = LoggedIn /\ CipherInSync'
    BY <1>1, <2>1, <2>2 DEF LoggedIn, CipherInSync
  <2>6. KeysExplained' /\ MouseInv'
    BY <1>1, <2>1, <2>2 DEF KeysExplained, HeldToo, Explained, MouseInv
  <2> QED BY <1>1, <2>1, <2>4, <2>5, <2>6 DEF InputInv
<1>3. CASE WriteLogin \/ SetKey
  BY <1>3, LoginStep
<1>4. ASSUME NEW v \in Viewers, NEW key \in Keys, KeyPanics(v, key) PROVE InputInv'
  <2>1. UNCHANGED <<dracType, login, pc, message, held, mask, oldButtonMask, cipher, drac, pointer, faults, events>>
        /\ alive' = FALSE
    BY <1>4 DEF KeyPanics
  <2>2. \A w \in Viewers : InSendKey(w)' = InSendKey(w)
    BY <2>1 DEF InSendKey
  <2>3. Sending' = Sending
    BY <2>2, SameSending
  <2>4. InputTypes' /\ Counted'
    BY <1>1, <2>1, <2>3 DEF InputTypes, Counted
  <2>5. LoggedIn' = LoggedIn /\ CipherInSync'
    BY <1>1, <2>1, <2>2 DEF LoggedIn, CipherInSync
  <2>6. KeysExplained' /\ MouseInv'
    BY <1>1, <2>1, <2>2 DEF KeysExplained, HeldToo, Explained, MouseInv
  <2> QED BY <1>1, <2>1, <2>4, <2>5, <2>6 DEF InputInv
<1>5. ASSUME NEW v \in Viewers, HangUp(v) PROVE InputInv'
  <2>1. /\ UNCHANGED <<dracType, login, message, held, mask, oldButtonMask, cipher, drac, pointer, events, alive>>
        /\ pc[v] = "loop" /\ pc' = [pc EXCEPT ![v] = "gone"] /\ faults' = faults \cup {"left"}
    BY <1>5 DEF HangUp
  <2>2. pc'[v] = "gone" /\ \A w \in Viewers \ {v} : pc'[w] = pc[w]
    BY <1>1, <2>1 DEF InputTypes
  <2>3. \A w \in Viewers : InSendKey(w)' = InSendKey(w) /\ (pc'[w] = "write" <=> pc[w] = "write")
                           /\ (pc'[w] = "encrypt" => pc[w] = "encrypt")
    BY <2>1, <2>2 DEF InSendKey
  <2>4. Sending' = Sending
    BY <2>3, SameSending
  <2>5. InputTypes'
    BY <1>1, <2>1 DEF InputTypes
  <2>6. Counted'
    BY <1>1, <2>1, <2>3, <2>4 DEF Counted
  <2>7. LoggedIn' = LoggedIn
    BY <2>1 DEF LoggedIn
  <2>8. CipherInSync'
    <3> SUFFICES ASSUME faults' \subseteq {"left"} PROVE CipherInSync'
      BY DEF CipherInSync
    <3>1. faults \subseteq {"left"}
      BY <2>1
    <3> QED BY <1>1, <2>1, <2>3, <2>7, <3>1 DEF CipherInSync
  <2>9. faults' # {}
    BY <2>1
  <2>10. KeysExplained' /\ MouseInv'
    BY <1>1, <2>1, <2>3, <2>9 DEF KeysExplained, HeldToo, MouseInv
  <2> QED BY <1>1, <2>1, <2>5, <2>6, <2>7, <2>8, <2>10 DEF InputInv
<1>6. ASSUME NEW v \in Viewers, CommandLoop(v) PROVE InputInv'
  <2>1. ASSUME NEW key \in Keys, NEW down \in BOOLEAN,
               IgnoreKey(v, key, down) \/ SendKey(v, key, down) \/ StartEncrypting(v, key, down)
        PROVE  InputInv'
    BY <2>1, IgnoreKeyStep, SendKeyStep, StartEncryptingStep
  <2>2. CASE Encrypt(v) \/ WriteKey(v)
    BY <2>2, EncryptStep, WriteKeyStep
  <2>3. ASSUME NEW m \in Masks, NEW at \in Positions, SendMouse(v, m, at) PROVE InputInv'
    BY <2>3, SendMouseStep
  <2> QED BY <1>4, <1>5, <1>6, <2>1, <2>2, <2>3 DEF CommandLoop
<1> QED BY <1>2, <1>3, <1>6 DEF Next

(* The invariant of every state there is.                                  *)
THEOREM InputInvariance == Spec => []InputInv
<1>1. Init => InputInv
  BY InputBegins
<1>2. InputInv /\ [Next]_vars => InputInv'
  BY InputStep
<1> QED BY <1>1, <1>2, PTL DEF Spec

-----------------------------------------------------------------------------
(* What follows from it.                                                   *)

(* ConsoleInput.KeysUnderstood: as long as nobody types before the login,  *)
(* nor two viewers of a DRAC 4 at once, rc4_encrypt and the DRAC are at    *)
(* the same key, whoever types and whoever leaves.                         *)
THEOREM EveryKeyUnderstood == Spec => []KeysUnderstood
<1>1. InputInv => KeysUnderstood
  BY DEF InputInv, CipherInSync, KeysUnderstood
<1> QED BY <1>1, InputInvariance, PTL

(* ConsoleInput.NoKeySticks: a key that is down at the DRAC is held by a   *)
(* browser, or send_key has yet to write that it came up; that keysyms     *)
(* share a code, and viewers a DRAC, leaves none down that nobody holds.   *)
THEOREM KeysComeUpAtTheDrac == Spec => []NoKeySticks
<1>1. InputInv => NoKeySticks
  <2> SUFFICES ASSUME InputInv, Quiet, faults = {}, \A v \in Viewers : held[v] = {}, NEW code \in drac.down
               PROVE  FALSE
    BY DEF NoKeySticks
  <2>1. Explained(code)
    BY DEF InputInv, KeysExplained
  <2>2. \A v \in Viewers : ~ InSendKey(v)
    BY DEF Quiet, InSendKey
  <2> QED BY <2>1, <2>2 DEF Explained
<1> QED BY <1>1, InputInvariance, PTL

(* ConsoleInput.MouseFollows: the buttons of a DRAC are up when those of   *)
(* all the browsers are, and its pointer is where the last movement went,  *)
(* also of a DRAC 4, which send_mouse tells of the one or the other.       *)
THEOREM MouseIsThere == Spec => []MouseFollows
<1>1. InputInv => MouseFollows
  <2> SUFFICES ASSUME InputInv PROVE MouseFollows
    OBVIOUS
  <2>1. MouseInv
    BY DEF InputInv
  <2>2. TypeOK
    BY TypesFollow
  <2> QED BY <2>1, <2>2 DEF MouseInv, MouseFollows, NoButtonSticks, PointerFollows
<1> QED BY <1>1, InputInvariance, PTL
=============================================================================
