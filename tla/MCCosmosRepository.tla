------------------------- MODULE MCCosmosRepository -------------------------
(* Instances of CosmosRepository for TLC: model values for ids, edits and   *)
(* workers.  Ids, edits and workers are interchangeable.                    *)
EXTENDS CosmosRepository, TLC

Symmetry == Permutations(Ids) \cup Permutations(Edits) \cup Permutations(Workers)
=============================================================================
