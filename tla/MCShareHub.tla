----------------------------- MODULE MCShareHub -----------------------------
(* A shared terminal and its viewers on small instances.  The viewers are    *)
(* model values given in the configurations and interchangeable.             *)
EXTENDS ShareHub, TLC

ViewerSymmetry == Permutations(Viewers)
=============================================================================
