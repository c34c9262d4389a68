--------------------------- MODULE MCDurableState ---------------------------
EXTENDS DurableState
=============================================================================
