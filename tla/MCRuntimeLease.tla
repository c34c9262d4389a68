--------------------------- MODULE MCRuntimeLease ---------------------------
(* The lease on small instances.  The sets are model values given in the    *)
(* configurations; host instances are interchangeable.                      *)
EXTENDS RuntimeLease, TLC

HostSymmetry == Permutations(Hosts)
=============================================================================
