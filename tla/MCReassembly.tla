---------------------------- MODULE MCReassembly ----------------------------
EXTENDS Reassembly, TLC
=============================================================================
