----------------------------- MODULE MCEventos ------------------------------
(* Values of the constants of Eventos for TLC.                             *)
EXTENDS Eventos, TLC

CONSTANTS a,              \* the user who may review
          n1, n2, n3, n4  \* names

\* The other users are promoted and demoted while requests run.
ChangingRoles ==
  [u \in Users |-> IF u = a THEN {"admin"} ELSE {"participante", "moderador"}]

\* n1 and n2 are "Meetup" and " MEETUP": one name, one slug.  n3 is "Meetup 2":
\* another name, whose own slug is the second slug of "Meetup".  n4 is
\* "Meetup!": another name with the same slug as "Meetup".
Norm == [n \in Nomes |-> IF n = n2 THEN n1 ELSE n]
Slugified == [n \in Nomes |-> IF n = n3 THEN <<1, 2>> ELSE <<1>>]

\* Identifiers are fresh uuids: no handler tells one from another.
Symmetry == Permutations(Ids)
=============================================================================
