--------------------------- MODULE MCBrowserPage ----------------------------
EXTENDS BrowserPage, TLC

CONSTANTS h1, h2
Symm == Permutations(Hosts)
=============================================================================
