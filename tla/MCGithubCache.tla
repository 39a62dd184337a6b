--------------------------- MODULE MCGithubCache ---------------------------
(* Bounds of GithubCache for TLC.                                          *)
EXTENDS GithubCache, TLC

CONSTANT MaxNow   \* time stops here

TimeBound == now <= MaxNow

Symmetry == Permutations(Keys) \cup Permutations(Requests)
=============================================================================
