---------------------------- MODULE MCAgentTurn ----------------------------
EXTENDS AgentTurn, TLC

CONSTANTS w1, w2
=============================================================================
