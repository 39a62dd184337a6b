----------------------------- MODULE MCCadastro -----------------------------
(* Symmetry of Cadastro for TLC.                                           *)
EXTENDS Cadastro, TLC

Symmetry == Permutations(Contas) \cup Permutations(Requests)
=============================================================================
