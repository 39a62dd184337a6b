------------------------------- MODULE Slugs --------------------------------
(***************************************************************************)
(* How a slug is made unique (app/utils/slug.py, and the repository query  *)
(* that feeds it).  A slug is the sequence of its dash-separated tokens,   *)
(* each a number: "meetup-python" is <<m, p>>, and appending "-2" appends  *)
(* the token 2, so that the slug of an event *named* "Meetup 2" and the    *)
(* second slug of "Meetup" are the same value, as they are in the program. *)
(***************************************************************************)
EXTENDS Naturals, Sequences, FiniteSets, SequencesExt

Slug == Seq(Nat)

\* The slugs that list_slugs_starting_with returns: those with base as prefix.
SlugsStartingWith(base, slugs) == {s \in slugs : IsPrefix(base, s)}

\* The suffixes the loop of resolve_unique_slug could stop at.  Among the
\* Cardinality(used) + 1 candidates at least one is free.
FreeSuffixes(base, used) ==
  {k \in 2 .. Cardinality(used) + 2 : Append(base, k) \notin used}

LeastFreeSuffix(base, used) ==
  CHOOSE k \in FreeSuffixes(base, used) :
    \A j \in FreeSuffixes(base, used) : k <= j

ResolveUniqueSlug(base, used) ==
  IF base \notin used THEN base
                      ELSE Append(base, LeastFreeSuffix(base, used))

\* The slugs a name with this base may carry: the base, or the base and a
\* numeric suffix from 2 upwards.
IsVariantOf(slug, base) ==
  \/ slug = base
  \/ /\ Len(slug) = Len(base) + 1
     /\ IsPrefix(base, slug)
     /\ slug[Len(slug)] >= 2
=============================================================================
