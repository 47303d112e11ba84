---------------------------- MODULE MCAgentMemory -----------------------------
(* Instances of AgentMemory for TLC: requests and keys are model values,   *)
(* interchangeable.                                                        *)
EXTENDS AgentMemory, TLC

Symmetry == Permutations(Requests) \union Permutations(Keys)
=============================================================================
