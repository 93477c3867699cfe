----------------------------- MODULE MCAgentLoop -----------------------------
EXTENDS AgentLoop

CONSTANTS l1, l2
==============================================================================
