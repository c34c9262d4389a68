--------------------------- MODULE MCTerminalPanes ---------------------------
EXTENDS TerminalPanes

Symmetric == Permutations(NewPanes)
=============================================================================
