--------------------------- MODULE MCSessionStart ---------------------------
EXTENDS SessionStart

CONSTANTS h1, h2, h3

Good == Account("a", "a")
Symm == Permutations(Sessions)

(* At the third host nothing answers.                                      *)
Installed(first, second) ==
  [h \in {h1, h2, h3} |-> IF h = h1 THEN first ELSE IF h = h2 THEN second ELSE "nothing"]

Racks == {Installed("drac4", "drac6"), Installed("drac5", "drac6 with tls"),
          Installed("unknown", "nothing")}
=============================================================================
