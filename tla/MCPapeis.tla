------------------------------ MODULE MCPapeis ------------------------------
(* Values of the constants of Papeis for TLC.                              *)
EXTENDS Papeis, TLC

CONSTANTS s, a, u,    \* a super_admin, an admin and a user without a row
          k1, k2      \* the keys of the first two rows

Initially ==
  [x \in Users |-> CASE x = s -> [id |-> k1, role |-> "super_admin"]
                     [] x = a -> [id |-> k2, role |-> "admin"]
                     [] OTHER -> Nenhum]

\* Fresh keys and request slots are interchangeable.
Symmetry == Permutations(RowIds \ {k1, k2}) \cup Permutations(Requests)
=============================================================================
