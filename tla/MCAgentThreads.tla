--------------------------- MODULE MCAgentThreads ---------------------------
(* Instances of AgentThreads for TLC; no symmetry where liveness is checked. *)
EXTENDS AgentThreads, TLC

Symmetry ==
    Permutations(Workers) \cup Permutations(Messages) \cup Permutations(Threads)
=============================================================================
