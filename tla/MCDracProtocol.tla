--------------------------- MODULE MCDracProtocol ---------------------------
EXTENDS DracProtocol, TLC
=============================================================================
