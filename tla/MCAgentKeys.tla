---------------------------- MODULE MCAgentKeys ----------------------------
(* One member, one agent, two teams, three keys; two overlapping requests  *)
(* beside the administrators.                                              *)
EXTENDS AgentKeys, TLC

Symmetry == Permutations(Request) \cup Permutations(Agent) \cup Permutations(Team)
              \cup Permutations(Key)
=============================================================================
