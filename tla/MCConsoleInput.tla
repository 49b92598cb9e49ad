--------------------------- MODULE MCConsoleInput ---------------------------
(* 1 and !, which share a key; the circumflex, which has none; the y with  *)
(* two dots, which is not in the table; the left shift key.                *)
EXTENDS ConsoleInput

Typing == {49, 33, 94, 255, 65505}
Symm   == Permutations(Viewers)
=============================================================================
