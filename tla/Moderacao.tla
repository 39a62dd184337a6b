----------------------------- MODULE Moderacao ------------------------------
(***************************************************************************)
(* What the platform promises about an event, whatever requests run at the *)
(* same time.  An event sent by a participant is pending: it is not public *)
(* until it is decided.  One registered by the staff, or decided once, is  *)
(* released: it may be public or not.  A removed event never comes back.   *)
(***************************************************************************)
CONSTANT Ids

VARIABLES
  fase,     \* [Ids -> Fases]
  publico   \* the events that anonymous visitors see

Fases == {"novo", "pendente", "liberado", "removido"}

vars == <<fase, publico>>

Init == fase = [e \in Ids |-> "novo"] /\ publico = {}

Becomes(e, f) == fase' = [fase EXCEPT ![e] = f]

\* e becomes public or hidden; nothing else does.
MayShow(e) == publico' \in {publico \cup {e}, publico \ {e}}

Submit(e)   == fase[e] = "novo" /\ Becomes(e, "pendente") /\ UNCHANGED publico
Register(e) == fase[e] = "novo" /\ Becomes(e, "liberado") /\ MayShow(e)
Decide(e)   == fase[e] = "pendente" /\ Becomes(e, "liberado") /\ MayShow(e)
Edit(e)     == fase[e] = "liberado" /\ UNCHANGED fase /\ MayShow(e)
Remove(e)   == /\ fase[e] \in {"pendente", "liberado"}
               /\ Becomes(e, "removido")
               /\ publico' = publico \ {e}

Next ==
  \E e \in Ids : Submit(e) \/ Register(e) \/ Decide(e) \/ Edit(e) \/ Remove(e)

Spec == Init /\ [][Next]_vars

\* Only released events are public.
OnlyReleasedArePublic == \A e \in publico : fase[e] = "liberado"
=============================================================================
