--------------------------- MODULE MCAgentSession ---------------------------
(* Small instances of AgentSession for TLC.                                 *)
EXTENDS AgentSession, TLC

Symmetry ==
    Permutations(Socket) \cup Permutations(Slot) \cup Permutations(Agent)
    \cup Permutations(Token) \cup Permutations(Name)
=============================================================================
