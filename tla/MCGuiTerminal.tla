--------------------------- MODULE MCGuiTerminal ---------------------------
(* GuiTerminal with named sessions, tabs and share calls for TLC.          *)
EXTENDS GuiTerminal, TLC
Symmetric == Permutations(Sessions) \cup Permutations(Sharers)
=============================================================================
