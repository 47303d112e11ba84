------------------------ MODULE MCExecutionLifecycle ------------------------
(* Instances of ExecutionLifecycle for TLC: ids are model values,          *)
(* interchangeable in the safety runs.                                     *)
EXTENDS ExecutionLifecycle, TLC

Symmetry == Permutations(Requests) \union Permutations(Tasks)
============================================================================
