----------------------------- MODULE MCPictures -----------------------------
(* Two screens of a size that differ in a pixel, and one of another shape. *)
EXTENDS Pictures

CONSTANTS blk, wht, red

Screen(x, y, p) == [width |-> x, height |-> y, pixels |-> p]

MCScreens ==
  {Screen(2, 3, <<red, blk, wht, blk, blk, wht>>), Screen(2, 3, <<red, blk, wht, blk, blk, blk>>),
   Screen(3, 2, <<red, blk, blk, red, wht, wht>>)}

MCPlaceholders == {[width |-> 3, height |-> 2]}
=============================================================================
