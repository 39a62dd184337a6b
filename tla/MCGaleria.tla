------------------------------ MODULE MCGaleria ------------------------------
(* Symmetry of Galeria and Recompressao for TLC: keys, request slots, and   *)
(* the paths with and without .webp are each interchangeable.               *)
EXTENDS Recompressao, TLC

Symmetry ==
  Permutations(Albuns) \cup Permutations(Fotos) \cup Permutations(Arquivos \ Webp)
  \cup Permutations(Webp) \cup Permutations(Requests)
=============================================================================
