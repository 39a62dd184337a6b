----------------------------- MODULE MCEtiquetas -----------------------------
(* Values of the constants of Etiquetas for TLC: an admin and a participant *)
(* who owns the event.                                                      *)
EXTENDS Etiquetas, TLC

CONSTANTS a, p

PapeisMC == [u \in Users |-> IF u = a THEN "admin" ELSE "participante"]
DonoMC == [e \in Eventos |-> p]
=============================================================================
