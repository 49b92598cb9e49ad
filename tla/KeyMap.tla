------------------------------- MODULE KeyMap -------------------------------
(***************************************************************************)
(* From the keysyms of X11, which a browser sends, to the key codes of USB *)
(* that a DRAC wants: the tables of keymap.go and the look-up in vnc.go.   *)
(* A table is a function; the value None stands for "no such key".         *)
(***************************************************************************)
EXTENDS Integers, TLC

None == -1

(* A key of a table: the codes first, first + 1, ... for keysyms in a row. *)
Row(keysyms, first) == LET low == CHOOSE k \in keysyms : \A i \in keysyms : k <= i
                       IN  [k \in keysyms |-> first + k - low]

Letters == Row(97 .. 122, 4) @@ Row(65 .. 90, 4)

Digits == Row(49 .. 57, 30) @@ (48 :> 39)

(* Space ! " # $ % & ' ( ) * +                                             *)
UpToPlus ==
  32 :> 44 @@ 33 :> 30 @@ 34 :> 52 @@ 35 :> 32 @@ 36 :> 33 @@ 37 :> 34 @@
  38 :> 36 @@ 39 :> 52 @@ 40 :> 38 @@ 41 :> 39 @@ 42 :> 37 @@ 43 :> 46

(* , - . / and : ; < = > ? @                                               *)
UpToAt ==
  44 :> 54 @@ 45 :> 45 @@ 46 :> 55 @@ 47 :> 56 @@ 58 :> 51 @@ 59 :> 51 @@
  60 :> 54 @@ 61 :> 46 @@ 62 :> 55 @@ 63 :> 56 @@ 64 :> 31

(* [ \ ] _ ` and { | } ~, without the circumflex                           *)
UpToTilde ==
  91 :> 47 @@ 92 :> 49 @@ 93 :> 48 @@ 95 :> 45 @@ 96 :> 53 @@
  123 :> 47 @@ 124 :> 49 @@ 125 :> 48 @@ 126 :> 53

(* The first table ends at 254, one before the last keysym looked up in it. *)
x11ToUsb1 ==
  Letters @@ Digits @@ UpToPlus @@ UpToAt @@ UpToTilde @@ [k \in 0 .. 254 |-> None]

(* Backspace, tab, clear, return, pause, scroll lock, sys req, escape.     *)
Control ==
  8 :> 42 @@ 9 :> 43 @@ 11 :> 156 @@ 13 :> 40 @@ 19 :> 72 @@ 20 :> 71 @@
  21 :> 70 @@ 27 :> 41

(* Home, the arrows, page up and down, end; select .. help, num lock.      *)
Cursor ==
  80 :> 74 @@ 81 :> 80 @@ 82 :> 82 @@ 83 :> 79 @@ 84 :> 81 @@ 85 :> 75 @@
  86 :> 78 @@ 87 :> 77 @@ 96 :> 119 @@ 98 :> 116 @@ 99 :> 73 @@ 101 :> 122 @@
  103 :> 118 @@ 104 :> 126 @@ 105 :> 155 @@ 106 :> 117 @@ 127 :> 83

(* The key pad, and F1 to F10.                                             *)
KeyPad ==
  128 :> 205 @@ 137 :> 186 @@ 141 :> 88 @@ 170 :> 85 @@ 174 :> 220 @@
  175 :> 84 @@ 176 :> 98 @@ Row(177 .. 185, 89) @@ 189 :> 103
Functions1To10 == Row(190 .. 199, 58)

(* Shift, control, caps lock and alt, left and right; delete.              *)
Modifiers ==
  225 :> 225 @@ 226 :> 229 @@ 227 :> 224 @@ 228 :> 228 @@ 229 :> 57 @@
  233 :> 226 @@ 234 :> 230 @@ 255 :> 76

x11ToUsb2 ==
  Control @@ Cursor @@ KeyPad @@ Functions1To10 @@ Modifiers @@ [k \in 0 .. 255 |-> None]

-----------------------------------------------------------------------------
(* The look-up of the command loop.  It takes 255 for a keysym of the      *)
(* first table, which makes it panic.                                      *)
Page2 == 65280 \* 0xFF00

OutOfTable(key) == key \in 0 .. 255 /\ key \notin DOMAIN x11ToUsb1

UsbCode(key) ==
  IF key \in 0 .. 255 THEN x11ToUsb1[key]
  ELSE IF key \in Page2 .. Page2 + 255 THEN x11ToUsb2[key - Page2]
  ELSE None
=============================================================================
