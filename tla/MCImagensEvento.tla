--------------------------- MODULE MCImagensEvento ---------------------------
(* Symmetry of ImagensEvento for TLC: events, paths and request slots are   *)
(* each interchangeable.                                                    *)
EXTENDS ImagensEvento, TLC

Symmetry == Permutations(Ids) \cup Permutations(Arquivos) \cup Permutations(Requests)
=============================================================================
