-------------------------- MODULE MCAgentOwnership --------------------------
EXTENDS AgentOwnership
=============================================================================
