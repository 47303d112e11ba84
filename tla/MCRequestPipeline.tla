-------------------------- MODULE MCRequestPipeline ---------------------------
(* Instances of RequestPipeline for TLC: ids and slugs are model values,   *)
(* interchangeable.                                                        *)
EXTENDS RequestPipeline, TLC

Symmetry == Permutations(Requests) \union Permutations(Tenants)
              \union Permutations(Keys) \union Permutations(Workflows)
              \union Permutations(Slugs)
============================================================================
