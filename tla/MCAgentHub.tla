----------------------------- MODULE MCAgentHub -----------------------------
EXTENDS AgentHub
=============================================================================
