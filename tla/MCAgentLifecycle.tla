--------------------------- MODULE MCAgentLifecycle ---------------------------
(* Instances of AgentLifecycle.                                            *)
EXTENDS AgentLifecycle, TLC

CONSTANTS a1, a2

Symmetry == Permutations(Agents)
===============================================================================
