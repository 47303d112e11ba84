-------------------------- MODULE MCDocumentPipeline --------------------------
(* Instances of DocumentPipeline for TLC: ids are model values,            *)
(* interchangeable in the safety runs.                                     *)
EXTENDS DocumentPipeline, TLC

Symmetry == Permutations(Requests) \union Permutations(Chunks)
              \union Permutations(Embeddings)
============================================================================
