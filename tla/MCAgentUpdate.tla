--------------------------- MODULE MCAgentUpdate ---------------------------
EXTENDS AgentUpdate
============================================================================
