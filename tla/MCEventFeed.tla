----------------------------- MODULE MCEventFeed ------------------------------
(* Instances of EventFeed for TLC: ids and types are model values,         *)
(* interchangeable.                                                        *)
EXTENDS EventFeed, TLC

Symmetry == Permutations(Messages) \union Permutations(Deliveries)
              \union Permutations(Types)
============================================================================
