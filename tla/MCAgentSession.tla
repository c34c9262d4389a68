--------------------------- MODULE MCAgentSession ---------------------------
(* AgentSession with named calls for TLC.                                  *)
EXTENDS AgentSession
CONSTANTS c1, c2, c3
TwoCalls == {c1, c2}
ThreeCalls == {c1, c2, c3}
Safe == {c1}
Unknown == {c3}
None == {}
=============================================================================
