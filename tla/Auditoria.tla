----------------------------- MODULE Auditoria ------------------------------
(***************************************************************************)
(* Reading the audit log (app/repositories/audit_repository.py,            *)
(* app/services/audit_service.py): its pages, newest first, and the recent *)
(* activity of the dashboard (app/services/dashboard_service.py), beside   *)
(* the requests whose writes the triggers record.                          *)
(*                                                                         *)
(* created_at is now(), the beginning of the transaction: the records of   *)
(* one transaction share it, and it may lie before that of records already *)
(* visible.  Nothing removes or changes a record.  Pages are cut as those  *)
(* of Consultas are, and each SELECT may order equal times in its own way. *)
(***************************************************************************)
EXTENDS Consultas

CONSTANTS
  Registros,  \* primary keys of audit_log
  Momentos,   \* times
  Atores      \* users, and Nenhum for a write without a caller

Registro == [momento : Momentos, autor : Atores]

\* The query parameters; Nenhum for an absent one.
FiltroLog == [autor : Atores, desde : Momentos \cup {Nenhum}]

ASSUME LogAssumption ==
  /\ Momentos \subseteq Nat /\ Nenhum \in Atores /\ Nenhum \notin Momentos \cup Registro
  /\ IsFiniteSet(Registros)

VARIABLES
  registros,  \* [Registros -> Registro or Nenhum]: the committed table
  auditor     \* the reader's request (for the log, its walk over the pages)

varsLog == <<registros, auditor>>

Gravados == {r \in Registros : registros[r] # Nenhum}

\* A request has its op, its filter, the SELECTs still to be made in order
\* (faltam), its page, and what it has got: total, lidos, usuarios.  History:
\* inicio, the records that matched when it began.
Proxima(leitura) ==
  auditor # Nenhum /\ auditor.faltam # <<>> /\ Head(auditor.faltam) = leitura
Respondido == auditor # Nenhum => auditor.faltam = <<>>

InitLog ==
  /\ registros = [r \in Registros |-> Nenhum]
  /\ auditor = Nenhum

-----------------------------------------------------------------------------
(* The queries.                                                            *)

\* The conditions of list_logs (action, entity and date_to are of the same kind).
CasaLog(r, f) ==
  /\ registros[r] # Nenhum
  /\ f.autor \in {Nenhum, registros[r].autor}
  /\ f.desde # Nenhum => registros[r].momento >= f.desde

CasamLog(f) == {r \in Registros : CasaLog(r, f)}

MesmoMomento(r, s) == registros[r].momento = registros[s].momento

\* ORDER BY created_at DESC, in all the ways that leaves open.
Ordens(f) ==
  {s \in SetToSeqs(CasamLog(f)) :
     \A i, j \in DOMAIN s : i < j => registros[s[i]].momento >= registros[s[j]].momento}

-----------------------------------------------------------------------------
(* Requests of an admin, one SELECT after another.                         *)

StartLog(op, f, faltam) ==
  /\ Respondido
  /\ papel \in REVIEW_ROLES
  /\ auditor' = [op |-> op, filtro |-> f, faltam |-> faltam, pagina |-> 1, total |-> 0,
                 lidos |-> {}, usuarios |-> {}, inicio |-> CasamLog(f)]
  /\ UNCHANGED registros

\* GET /audit-logs?page=1..., page after page until one comes back short.
ListAuditLogs(f) == StartLog("paginas", f, <<"contar", "pagina">>)

\* Defective variant: the users are read before the records.
GetRecentActivityUsersFirst ==
  StartLog("atividade", [autor |-> Nenhum, desde |-> Nenhum], <<"usuarios", "contar", "pagina">>)

\* _get_recent_activity: the first page, then the users that any record names.
GetRecentActivity ==
  StartLog("atividade", [autor |-> Nenhum, desde |-> Nenhum], <<"contar", "pagina", "usuarios">>)

CountLogs ==
  /\ Proxima("contar")
  /\ auditor' = [auditor EXCEPT !.faltam = Tail(@), !.total = Cardinality(CasamLog(auditor.filtro))]
  /\ UNCHANGED registros

ListLogs ==
  /\ Proxima("pagina")
  /\ \E s \in Ordens(auditor.filtro) :
       LET itens == Page(s, auditor.pagina)
           segue == auditor.op = "paginas" /\ Len(itens) = PageSize
       IN auditor' = [auditor EXCEPT
                        !.lidos = @ \cup ToSet(itens),
                        !.faltam = IF segue THEN <<"contar", "pagina">> ELSE Tail(@),
                        !.pagina = IF segue THEN @ + 1 ELSE @]
  /\ UNCHANGED registros

ListDistinctUsers ==
  /\ Proxima("usuarios")
  /\ auditor' = [auditor EXCEPT
                   !.faltam = Tail(@),
                   !.usuarios = {registros[r].autor : r \in Gravados} \ {Nenhum}]
  /\ UNCHANGED registros

\* A transaction that began at m commits what the triggers recorded of it.
Record(S, a, m) ==
  /\ S # {} /\ S \cap Gravados = {}
  /\ registros' = [r \in Registros |-> IF r \in S THEN [momento |-> m, autor |-> a]
                                       ELSE registros[r]]
  /\ auditor' = IF Respondido THEN Nenhum ELSE auditor

NextLog ==
  \/ \E f \in FiltroLog : ListAuditLogs(f)
  \/ GetRecentActivity
  \/ CountLogs
  \/ ListLogs
  \/ ListDistinctUsers
  \/ \E S \in SUBSET Registros, a \in Atores, m \in Momentos : Record(S, a, m)

SpecLog == InitLog /\ [][NextLog]_varsLog

-----------------------------------------------------------------------------
(* Properties.                                                             *)

\* A reader that goes through the pages sees every record that was there when it
\* began, whatever is recorded meanwhile in whatever order of times, unless
\* another record has its time: the two may change places between two SELECTs.
\* Without such a pair, and with nothing recorded meanwhile, the total is that
\* of the pages.  And each of the dashboard's recent records has its author
\* among the users that come with them, although they are read later.
LogReadsAreSound ==
  auditor # Nenhum /\ auditor.faltam = <<>> =>
    LET casam == CasamLog(auditor.filtro)
        empatado(r) == \E s \in casam \ {r} : MesmoMomento(r, s)
    IN  CASE auditor.op = "paginas" ->
               /\ \A r \in auditor.inicio \ auditor.lidos : empatado(r)
               /\ casam = auditor.inicio /\ (\A r \in casam : ~empatado(r))
                    => auditor.total = Cardinality(auditor.lidos)
          [] auditor.op = "atividade" ->
               \A r \in auditor.lidos : registros[r].autor \in auditor.usuarios \cup {Nenhum}
=============================================================================
