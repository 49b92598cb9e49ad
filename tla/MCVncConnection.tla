-------------------------- MODULE MCVncConnection ---------------------------
(* The lengths around every boundary of the compact encoding.              *)
EXTENDS VncConnection, TLC

Short == {127, 128, 16383, 16384, 2097151}
=============================================================================
