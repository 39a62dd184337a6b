----------------------------- MODULE GithubCache -----------------------------
(***************************************************************************)
(* The in-memory cache in front of the GitHub API                          *)
(* (app/integrations/github.py) under concurrent requests: each of the     *)
(* four lookups reads the cache, awaits GitHub, and stores what it got.    *)
(* Nothing joins two lookups of one key that are under way.                *)
(*                                                                         *)
(* A value is the time at which GitHub gave it: how old an answer is, is   *)
(* all that the properties ask of it.                                      *)
(***************************************************************************)
EXTENDS Integers

CONSTANTS
  Keys,      \* cache keys: a lookup with its repository and count
  Requests,  \* slots for lookups in flight
  TTL,       \* _CACHE_TTL_SECONDS
  Timeout,   \* a lookup is over, answered or failed, after this long
  Ausente

ASSUME TimesAssumption == TTL \in Nat /\ Timeout \in Nat

Entry == [expires_at : Nat, value : Nat]
Lookup == [key : Keys, pc : {"fetch", "set"}, since : Nat, value : Nat]

ASSUME AusenteAssumption == Ausente \notin Entry /\ Ausente \notin Lookup

VARIABLES
  now,     \* time.time()
  cache,   \* [Keys -> Entry or Ausente]
  req      \* [Requests -> Lookup or Ausente]

varsCache == <<now, cache, req>>

Ocioso(q) == req[q] = Ausente
EmVoo(q, pc) == req[q] # Ausente /\ req[q].pc = pc

\* _cache_get answers from the cache.
Valid(k) == cache[k] # Ausente /\ now <= cache[k].expires_at

InitCache ==
  /\ now = 0
  /\ cache = [k \in Keys |-> Ausente]
  /\ req = [q \in Requests |-> Ausente]

\* Defective variant: the client has no timeout.
TickUnbounded ==
  /\ now' = now + 1
  /\ UNCHANGED <<cache, req>>

\* Time passes, for no lookup beyond its timeout.
Tick ==
  /\ \A q \in Requests : req[q] # Ausente => now < req[q].since + Timeout
  /\ now' = now + 1
  /\ UNCHANGED <<cache, req>>

\* A lookup misses: an expired entry is deleted, and GitHub is asked.
Miss(q, k) ==
  /\ Ocioso(q)
  /\ ~Valid(k)
  /\ cache' = [cache EXCEPT ![k] = Ausente]
  /\ req' = [req EXCEPT ![q] = [key |-> k, pc |-> "fetch", since |-> now, value |-> now]]
  /\ UNCHANGED now

\* GitHub answers with what it has now.
Answer(q) ==
  /\ EmVoo(q, "fetch")
  /\ req' = [req EXCEPT ![q].pc = "set", ![q].value = now]
  /\ UNCHANGED <<now, cache>>

\* Defective variant: an entry that is there gets another period.
CacheSetExtends(q) ==
  /\ EmVoo(q, "set")
  /\ LET k == req[q].key
     IN cache' = [cache EXCEPT ![k] =
          [expires_at |-> now + TTL,
           value |-> IF cache[k] = Ausente THEN req[q].value ELSE cache[k].value]]
  /\ req' = [req EXCEPT ![q] = Ausente]
  /\ UNCHANGED now

\* _cache_set: stored for TTL seconds from now, over whatever is there.
CacheSet(q) ==
  /\ EmVoo(q, "set")
  /\ cache' = [cache EXCEPT ![req[q].key] =
                  [expires_at |-> now + TTL, value |-> req[q].value]]
  /\ req' = [req EXCEPT ![q] = Ausente]
  /\ UNCHANGED now

\* An error status (502), a timeout, a body without the keys expected: nothing
\* is stored.
Fail(q) ==
  /\ ~Ocioso(q)
  /\ req' = [req EXCEPT ![q] = Ausente]
  /\ UNCHANGED <<now, cache>>

NextCache ==
  \/ Tick
  \/ \E q \in Requests :
       \/ \E k \in Keys : Miss(q, k)
       \/ Answer(q)
       \/ CacheSet(q)
       \/ Fail(q)

SpecCache == InitCache /\ [][NextCache]_varsCache

-----------------------------------------------------------------------------
(* Properties.                                                             *)

\* Types; the times a lookup notes are in order and none is in the future.
CacheTypeOK ==
  /\ now \in Nat
  /\ cache \in [Keys -> Entry \cup {Ausente}]
  /\ req \in [Requests -> Lookup \cup {Ausente}]
  /\ \A q \in Requests : req[q] # Ausente =>
       /\ req[q].since <= req[q].value /\ req[q].value <= now
       /\ now <= req[q].since + Timeout

\* What the cache answers is at most TTL plus one lookup old, although a slow
\* lookup may store an older value over a newer one and start its period anew.
AnswersAreFresh ==
  \A k \in Keys : Valid(k) => now <= cache[k].value + TTL + Timeout
=============================================================================
