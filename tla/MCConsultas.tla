----------------------------- MODULE MCConsultas -----------------------------
(* The rows and filters of the run of Consultas, in the week of the days 7   *)
(* to 13, of which 8 is today; and Auditoria beside it.  They share no table: *)
(* a behaviour is about the events or about the log, not both.               *)
EXTENDS Auditoria, TLC

CONSTANTS ana, bia, t   \* ana is the reader; t is a tag

\* A past event of the reader, two coming ones of somebody else in this week and
\* the next, one that the reader has submitted, on a day that does not exist, and
\* a coming one written as 9/1/..., whose key is no date.
LinhasMC ==
  {[status |-> "publicado",  dono |-> ana, dia |-> 7,  data |-> 7, formato |-> TRUE,
    tags |-> {t}, semana |-> TRUE],
   [status |-> "publicado",  dono |-> bia, dia |-> 9,  data |-> 9, formato |-> TRUE,
    tags |-> {},  semana |-> FALSE],
   [status |-> "publicado",  dono |-> bia, dia |-> 14, data |-> 14, formato |-> TRUE,
    tags |-> {t}, semana |-> TRUE],
   [status |-> "em_analise", dono |-> ana, dia |-> 15, data |-> Nenhum, formato |-> TRUE,
    tags |-> {},  semana |-> TRUE],
   [status |-> "publicado",  dono |-> bia, dia |-> 15, data |-> 9, formato |-> FALSE,
    tags |-> {},  semana |-> TRUE]}

\* A reviewer lists pending events first, a participant its own events, the
\* public page the coming ones, the panel a range of dates.
FiltrosMC ==
  {[Vazio EXCEPT !.pendentes = TRUE],
   [Vazio EXCEPT !.dono = ana],
   [Vazio EXCEPT !.status = "publicado", !.quando = "upcoming"],
   [Vazio EXCEPT !.de = 9, !.ate = 14]}

\* Records differ only by what they store.
Symmetry == Permutations(Registros)

OnlyEvents == registros = [r \in Registros |-> Nenhum] /\ auditor = Nenhum
OnlyLog == usados = {} /\ leitor = Nenhum /\ papel \in REVIEW_ROLES

NextMC ==
  \/ OnlyEvents /\ Next /\ UNCHANGED varsLog
  \/ OnlyLog /\ NextLog /\ UNCHANGED vars

InitMC == Init /\ InitLog

SpecMC == InitMC /\ [][NextMC]_<<vars, varsLog>>
=============================================================================
