------------------------- MODULE MCTerminalRuntime -------------------------
(* A terminal and its clients on small instances.  The clients are model     *)
(* values given in the configurations and interchangeable.                   *)
EXTENDS TerminalRuntime, TLC

ClientSymmetry == Permutations(Clients)
=============================================================================
