------------------------------ MODULE Consultas ------------------------------
(***************************************************************************)
(* What readers of table eventos get while others write to it: the paged   *)
(* listing (GET /events, page after page), one event (GET                  *)
(* /events/slug/{slug_or_id}), the recommendations, the metrics and the    *)
(* dashboard's summary.                                                    *)
(*                                                                         *)
(* The session is READ COMMITTED: every SELECT of a request sees its own   *)
(* snapshot, and a handler with several of them mixes moments.  Readers    *)
(* change nothing, so one reader is enough; the writers are module         *)
(* Eventos, seen from here as rows that come, change and go.               *)
(*                                                                         *)
(* An identifier is the created_at of its row.  It is the time at which    *)
(* the writer's transaction began, not the one at which the row became     *)
(* visible: a row may appear behind newer ones.  The free text of search   *)
(* is left out (one more condition on the row).  Not every data_evento is  *)
(* DD/MM/YYYY: the requests see to it, but rows written by other means may *)
(* hold anything, and EventoRead does not take them.                       *)
(***************************************************************************)
EXTENDS Naturals, FiniteSets, SequencesExt

CONSTANTS
  Ids,        \* events, by created_at
  Donos,      \* users that create events
  Eu,         \* the reader, one of them
  Statuses,   \* the statuses that rows take
  Datas,      \* values of data_evento as substr keys, in the order of the strings,
              \* and calendar dates
  SemData,    \* those of them that are no calendar date (31/02/2027)
  Hoje,       \* date.today()
  Tags,
  Linhas,     \* the rows that events take
  Filtros,    \* the filters that the reader asks for
  PageSize,
  Limite,     \* the length of the recommendations and of the summary's lists
  Papeis,     \* the roles that the reader may have in turn
  Nenhum

REVIEW_ROLES == {"super_admin", "admin"}

\* A row.  Of data_evento: its substr key, the date that parse_event_date makes of
\* it if any, and whether it is DD/MM/YYYY, without which EventoRead does not
\* validate the row.  semana tells whether dia_semana is one of the seven names.
Linha == [status : Statuses, dono : Donos, dia : Datas, data : Datas \cup {Nenhum},
          formato : BOOLEAN, tags : SUBSET Tags, semana : BOOLEAN]

\* parse_event_date of DD/MM/YYYY: the date of the key, None for what is no date.
\* Of anything else ("9/1/2030") it may be a date that the key does not tell.
ParseEventDate(dia) == IF dia \in SemData THEN Nenhum ELSE dia

\* The query parameters of a listing; Nenhum stands for an absent one.
Filtro == [status : Statuses \cup {Nenhum}, dono : Donos \cup {Nenhum},
           quando : {"upcoming", "past", Nenhum}, de : Datas \cup {Nenhum},
           ate : Datas \cup {Nenhum}, pendentes : BOOLEAN]

ASSUME IdsAssumption == Ids \subseteq Nat /\ IsFiniteSet(Ids)
ASSUME DatasAssumption == Datas \subseteq Nat /\ SemData \subseteq Datas /\ Hoje \in Nat
ASSUME PageAssumption == PageSize \in Nat \ {0} /\ Limite \in Nat
ASSUME FiltrosAssumption == Filtros \subseteq Filtro /\ Eu \in Donos
ASSUME LinhasAssumption ==
  /\ Linhas \subseteq Linha /\ Nenhum \notin Linha
  /\ \A linha \in Linhas : linha.formato => linha.data = ParseEventDate(linha.dia)
ASSUME NenhumAssumption == Nenhum \notin {"em_analise", "upcoming", "past"} \cup Nat

VARIABLES
  eventos,  \* [Ids -> Linha or Nenhum]: the committed table
  usados,   \* identifiers given to a row so far
  papel,    \* the role of the reader in user_roles
  leitor,   \* the reader's request (for a listing, its walk over the pages)
  hist      \* history: the rows that matched when the request began; was one
            \* of them lost or moved during it, was anything written since,
            \* was the event asked for visible at some moment of it

vars == <<eventos, usados, papel, leitor, hist>>

Vivos == {e \in Ids : eventos[e] # Nenhum}

-----------------------------------------------------------------------------
(* The queries.                                                            *)

\* _apply_filters, on a row.
Casa(linha, f) ==
  /\ linha # Nenhum
  /\ f.status \in {Nenhum, linha.status}
  /\ f.dono \in {Nenhum, linha.dono}
  /\ f.quando = "upcoming" => linha.dia >= Hoje
  /\ f.quando = "past" => linha.dia < Hoje
  /\ f.de # Nenhum => linha.dia >= f.de
  /\ f.ate # Nenhum => linha.dia <= f.ate

Casam(f) == {e \in Ids : Casa(eventos[e], f)}

\* Those of them that EventoRead takes.
Validos(f) == {e \in Casam(f) : eventos[e].formato}

\* ORDER BY and sorted: the elements of S as Antes, a strict total order, has them.
EmOrdem(S, Antes(_, _)) ==
  CHOOSE s \in SetToSeqs(S) : \A i, j \in DOMAIN s : i < j => Antes(s[i], s[j])

\* _order_by: pending reviews first where asked for, then the newest.
Fila(linha, f) == IF f.pendentes /\ linha.status # "em_analise" THEN 1 ELSE 0

Listados(f) ==
  LET Antes(a, b) == \/ Fila(eventos[a], f) < Fila(eventos[b], f)
                     \/ Fila(eventos[a], f) = Fila(eventos[b], f) /\ a > b
  IN  EmOrdem(Casam(f), Antes)

Menor(a, b) == IF a < b THEN a ELSE b

\* Defective variant: pages counted from zero.
PageFromZero(s, p) == SubSeq(s, p * PageSize + 1, Menor((p + 1) * PageSize, Len(s)))

\* Defective variant: LIMIT without OFFSET.
PageNoOffset(s, p) == SubSeq(s, 1, Menor(PageSize, Len(s)))

\* OFFSET (page - 1) * page_size LIMIT page_size.
Page(s, p) == SubSeq(s, (p - 1) * PageSize + 1, Menor(p * PageSize, Len(s)))

\* count_stmt of list_filtered.
Counted(f) == Cardinality(Casam(f))

\* Defective variant: what is submitted is shown to everyone.
CanViewSubmitted(linha, logado, r) ==
  \/ linha.status \in {"publicado", "em_analise"}
  \/ logado /\ r \in REVIEW_ROLES
  \/ logado /\ linha.dono = Eu

\* _can_view_event.
CanView(linha, logado, r) ==
  \/ linha.status = "publicado"
  \/ logado /\ r \in REVIEW_ROLES
  \/ logado /\ linha.dono = Eu

\* _serialize_events: a row that does not validate is left out of the answer.
SerializeEvents(itens) == {e \in ToSet(itens) : eventos[e].formato}

\* is it a coming event, with a date that can be parsed?
Futuro(linha) == linha.data # Nenhum /\ linha.data >= Hoje

SameWeek(a, b) == a # Nenhum /\ b # Nenhum /\ a \div 7 = b \div 7

\* Defective variant: the week counts before the tags.
SortKeyWeekFirst(match, semana, data) ==
  <<IF semana THEN 0 ELSE 1, IF match THEN 0 ELSE 1, data>>

\* sort_key of get_recommended_events: a common tag, the same week, the nearest.
SortKey(match, semana, data) ==
  <<IF match THEN 0 ELSE 1, IF semana THEN 0 ELSE 1, data>>

KeyLess(k, l) == \/ k[1] < l[1]
                 \/ k[1] = l[1] /\ k[2] < l[2]
                 \/ k[1] = l[1] /\ k[2] = l[2] /\ k[3] < l[3]

Publicados == {e \in Vivos : eventos[e].status = "publicado"}
Proximos == {e \in Publicados : Futuro(eventos[e])}

\* Defective variant: the coming events in the order of the query, newest first.
NearestUnsorted == LET Antes(a, b) == a > b IN EmOrdem(Proximos, Antes)

\* get_upcoming_events: the nearest first; on one day as the query gives them
\* (the time of day is left out).
Nearest ==
  LET Antes(a, b) == \/ eventos[a].data < eventos[b].data
                     \/ eventos[a].data = eventos[b].data /\ a > b
  IN  EmOrdem(Proximos, Antes)

\* The first of a list, as many as there is room for.
Primeiros(s) == SubSeq(s, 1, Menor(Limite, Len(s)))

\* What the reader is meant to see: published events, its own, and as a
\* reviewer every event.
Visivel(linha, logado, r) ==
  (linha.status = "publicado") \/ (logado /\ (linha.dono = Eu \/ r \in REVIEW_ROLES))

-----------------------------------------------------------------------------
(* Requests.  Idle, then one access after another, then "fim" until the    *)
(* reader asks for something else.                                         *)

Vazio == [status |-> Nenhum, dono |-> Nenhum, quando |-> Nenhum, de |-> Nenhum,
          ate |-> Nenhum, pendentes |-> FALSE]

\* What a reader asks for and has got so far (each op uses its own fields).
Leitura ==
  [op : {"lista", "ver", "recomenda", "metricas", "painel"},
   pc : {"contar", "pagina", "papel", "publicados", "tags", "periodo", "status",
         "limites", "leituras", "fim"},
   filtro : Filtros \cup {Vazio}, pagina : 1..(Cardinality(Ids) + 1),
   total : 0..Cardinality(Ids), lidos : SUBSET Ids, logado : BOOLEAN,
   alvo : Ids \cup {Nenhum}, lida : Linhas \cup {Nenhum}, mostrado : BOOLEAN,
   linhas : UNION {[S -> Linhas] : S \in SUBSET Ids}, resposta : Seq(Ids),
   porPeriodo : 0..Cardinality(Ids), porDia : 0..Cardinality(Ids),
   limites : SUBSET Datas, erro : BOOLEAN,
   faltam : SUBSET {"contagens", "proximos", "pendentes"}, pendentes : Seq(Ids)]

Nova(op, pc) ==
  [op |-> op, pc |-> pc, filtro |-> Vazio, pagina |-> 1, total |-> 0, lidos |-> {},
   logado |-> FALSE, alvo |-> Nenhum, lida |-> Nenhum, mostrado |-> FALSE,
   linhas |-> [e \in {} |-> Nenhum], resposta |-> <<>>, porPeriodo |-> 0, porDia |-> 0,
   limites |-> {}, erro |-> FALSE, faltam |-> {}, pendentes |-> <<>>]

Livre == leitor # Nenhum => leitor.pc = "fim"
At(op, pc) == leitor # Nenhum /\ leitor.op = op /\ leitor.pc = pc

Inicio(casam, visivel) ==
  [inicio |-> casam, mexeu |-> FALSE, tocado |-> FALSE, visivel |-> visivel]

Init ==
  /\ eventos = [e \in Ids |-> Nenhum]
  /\ usados = {}
  /\ papel \in Papeis
  /\ leitor = Nenhum
  /\ hist = Inicio({}, FALSE)

\* GET /events?page=1..., first SELECT of the first page: the count.
ListEvents(f) ==
  /\ Livre
  /\ leitor' = [Nova("lista", "pagina") EXCEPT !.filtro = f, !.total = Counted(f)]
  /\ hist' = Inicio(Validos(f), FALSE)
  /\ UNCHANGED <<eventos, usados, papel>>

\* The count of the following pages, each a request of its own.
ListCount ==
  /\ At("lista", "contar")
  /\ leitor' = [leitor EXCEPT !.pc = "pagina", !.total = Counted(leitor.filtro)]
  /\ UNCHANGED <<eventos, usados, papel, hist>>

\* Second SELECT: the rows of the page, of which those that do not validate are
\* left out.  The walk goes on until the SELECT comes back short, which the reader
\* knows from the length of the answer only where nothing is left out.
ListPage ==
  LET itens == Page(Listados(leitor.filtro), leitor.pagina)
      ultima == Len(itens) < PageSize
  IN  /\ At("lista", "pagina")
      /\ leitor' = [leitor EXCEPT
                      !.lidos = @ \cup SerializeEvents(itens),
                      !.pc = IF ultima THEN "fim" ELSE "contar",
                      !.pagina = IF ultima THEN @ ELSE @ + 1]
      /\ UNCHANGED <<eventos, usados, papel, hist>>

\* GET /events/slug/{slug_or_id}: the row first (404 when there is none)...
GetBySlugOrId(e, logado) ==
  /\ Livre
  /\ e \in Vivos
  /\ leitor' = [Nova("ver", "papel") EXCEPT !.alvo = e, !.logado = logado,
                                            !.lida = eventos[e]]
  /\ hist' = Inicio({}, Visivel(eventos[e], logado, papel))
  /\ UNCHANGED <<eventos, usados, papel>>

\* ... then the role of the caller, and the decision about the row read, which
\* ends in a 500 where the row does not validate.
GetRoleAndShow ==
  /\ At("ver", "papel")
  /\ leitor' = [leitor EXCEPT !.pc = "fim",
                              !.mostrado = /\ CanView(leitor.lida, leitor.logado, papel)
                                           /\ leitor.lida.formato]
  /\ UNCHANGED <<eventos, usados, papel, hist>>

\* GET /events/{e}/recommended: the event itself...
GetRecommended(e) ==
  /\ Livre
  /\ e \in Vivos
  /\ leitor' = [Nova("recomenda", "publicados") EXCEPT
                  !.alvo = e, !.linhas = [x \in {e} |-> eventos[e]]]
  /\ hist' = Inicio({}, FALSE)
  /\ UNCHANGED <<eventos, usados, papel>>

\* ... the published events, of which the coming ones are candidates...
ListPublished ==
  LET S == Proximos \ {leitor.alvo}
  IN  /\ At("recomenda", "publicados")
      /\ leitor' = [leitor EXCEPT
                      !.pc = "tags",
                      !.linhas = [e \in S \cup DOMAIN @ |-> IF e \in S THEN eventos[e] ELSE @[e]]]
      /\ UNCHANGED <<eventos, usados, papel, hist>>

\* The tags of an event in get_event_tags_map, which has those that have one.
TagsMap(e) == IF eventos[e] = Nenhum THEN {} ELSE eventos[e].tags

\* The key of candidate e for the event alvo, of which the rows have been read.
Chave(linhas, alvo, e) ==
  SortKey(TagsMap(e) \cap TagsMap(alvo) # {},
          SameWeek(linhas[e].data, linhas[alvo].data), linhas[e].data)

\* The candidates sorted by their keys (a stable sort of the newest first).
AntesNaRecomendacao(linhas, alvo, a, b) ==
  \/ KeyLess(Chave(linhas, alvo, a), Chave(linhas, alvo, b))
  \/ Chave(linhas, alvo, a) = Chave(linhas, alvo, b) /\ a > b

Recomendados(linhas, alvo) ==
  LET Antes(a, b) == AntesNaRecomendacao(linhas, alvo, a, b)
  IN  EmOrdem(DOMAIN linhas \ {alvo}, Antes)

\* ... and the tags of all events, by which the candidates are sorted.  One that
\* does not validate among the first ends the request in a 500.
GetTagsAndSort ==
  LET escolhidos == Primeiros(Recomendados(leitor.linhas, leitor.alvo))
      falha == \E e \in ToSet(escolhidos) : ~leitor.linhas[e].formato
  IN  /\ At("recomenda", "tags")
      /\ leitor' = [leitor EXCEPT !.pc = "fim", !.erro = falha,
                                  !.resposta = IF falha THEN <<>> ELSE escolhidos]
      /\ UNCHANGED <<eventos, usados, papel, hist>>

\* Weekdays are free text, of which the seven names are recognised; the others
\* are in no group.
Reconhecidos(f) == {e \in Casam(f) : eventos[e].semana}
PorDiaSemana(f) == Cardinality(Reconhecidos(f))

\* GET /events/metrics: one SELECT after another.  First the weekdays...
GetMetrics(f) ==
  /\ Livre
  /\ leitor' = [Nova("metricas", "periodo") EXCEPT !.filtro = f, !.porDia = PorDiaSemana(f)]
  /\ hist' = Inicio({}, FALSE)
  /\ UNCHANGED <<eventos, usados, papel>>

\* ... then the periods (modality, city, month and tags are of the same kind).
CountByPeriodo ==
  /\ At("metricas", "periodo")
  /\ leitor' = [leitor EXCEPT !.pc = "status", !.porPeriodo = Counted(leitor.filtro)]
  /\ UNCHANGED <<eventos, usados, papel, hist>>

\* Defective variant: the statuses are counted without the dates asked for.
CountByStatusUndated ==
  /\ At("metricas", "status")
  /\ leitor' = [leitor EXCEPT !.pc = "limites", !.total = Counted(Vazio)]
  /\ UNCHANGED <<eventos, usados, papel, hist>>

\* count_by_status, of which total_eventos is the sum.
CountByStatus ==
  /\ At("metricas", "status")
  /\ leitor' = [leitor EXCEPT !.pc = "limites", !.total = Counted(leitor.filtro)]
  /\ UNCHANGED <<eventos, usados, papel, hist>>

\* date.fromisoformat of the first and the last date, when there are both.
MediaFails(total, limites) ==
  total > 0 /\ limites # {} /\ limites \cap SemData # {}

\* The first and the last date, if any.
DateBounds(f) ==
  LET dias == {eventos[e].dia : e \in Casam(f)}
  IN  {d \in dias : (\A x \in dias : d <= x) \/ (\A x \in dias : x <= d)}

\* The last SELECT, and the average per week from what has been read.
GetDateBounds ==
  LET limites == DateBounds(leitor.filtro)
  IN  /\ At("metricas", "limites")
      /\ leitor' = [leitor EXCEPT !.pc = "fim", !.limites = limites,
                                  !.erro = MediaFails(leitor.total, limites)]
      /\ UNCHANGED <<eventos, usados, papel, hist>>

\* GET /dashboard/summary: the role decides which reads there will be.  They are
\* gathered on one session, whose connection takes them in any order.  The
\* counts of other tables and the recent activity are left out.
GetSummary ==
  /\ Livre
  /\ leitor' = [Nova("painel", "leituras") EXCEPT
                  !.faltam = {"contagens", "proximos"} \cup
                             (IF papel \in REVIEW_ROLES THEN {"pendentes"} ELSE {})]
  /\ hist' = Inicio({}, FALSE)
  /\ UNCHANGED <<eventos, usados, papel>>

\* The request r after one of its reads, which brought the events of lista.  The
\* answer takes all reads, and is a 500 where one of those events does not validate.
Lido(r, leitura, lista) ==
  LET faltam == r.faltam \ {leitura}
  IN  [r EXCEPT !.faltam = faltam, !.pc = IF faltam = {} THEN "fim" ELSE @,
                !.erro = @ \/ \E e \in ToSet(lista) : ~eventos[e].formato]

SummaryRead(leitura) ==
  /\ At("painel", "leituras") /\ leitura \in leitor.faltam
  /\ UNCHANGED <<eventos, usados, papel, hist>>

\* One SELECT counts all rows and those of this week, by their keys, not dates
\* (today, month, year, periods and the caller's own are of the same kind).
CountDashboardPeriods ==
  /\ SummaryRead("contagens")
  /\ leitor' = [Lido(leitor, "contagens", <<>>) EXCEPT
                  !.total = Cardinality(Vivos),
                  !.porDia = Cardinality({e \in Vivos : SameWeek(eventos[e].dia, Hoje)})]

GetUpcomingEvents ==
  /\ SummaryRead("proximos")
  /\ leitor' = [Lido(leitor, "proximos", Primeiros(Nearest)) EXCEPT
                  !.resposta = Primeiros(Nearest)]

GetPendingReview ==
  /\ SummaryRead("pendentes")
  /\ LET lista == Primeiros(Listados([Vazio EXCEPT !.status = "em_analise"]))
     IN  leitor' = [Lido(leitor, "pendentes", lista) EXCEPT !.pendentes = lista]

-----------------------------------------------------------------------------
(* The writers (module Eventos), and the history of the request.           *)

\* A row of the listing is lost to it, changes place in it, or validates no more.
Perturba(f, novos) ==
  \E e \in Ids : /\ Casa(eventos[e], f)
                 /\ Casa(novos[e], f) => \/ Fila(novos[e], f) # Fila(eventos[e], f)
                                         \/ eventos[e].formato /\ ~novos[e].formato

\* The table becomes `novos` and the reader's role r.  A request that has been
\* answered is over by then.
Grava(novos, r) ==
  /\ eventos' = novos
  /\ papel' = r
  /\ leitor' = IF Livre THEN Nenhum ELSE leitor
  /\ hist' = IF Livre THEN Inicio({}, FALSE)
             ELSE [hist EXCEPT
                     !.tocado = TRUE,
                     !.mexeu = @ \/ Perturba(leitor.filtro, novos),
                     !.visivel = \/ @
                                 \/ /\ leitor.op = "ver"
                                    /\ novos[leitor.alvo] # Nenhum
                                    /\ Visivel(novos[leitor.alvo], leitor.logado, r)]

CreateEvent(e, linha) ==
  /\ e \notin usados
  /\ usados' = usados \cup {e}
  /\ Grava([eventos EXCEPT ![e] = linha], papel)

UpdateEvent(e, linha) ==
  /\ e \in Vivos
  /\ linha # eventos[e] /\ linha.dono = eventos[e].dono
  /\ Grava([eventos EXCEPT ![e] = linha], papel)
  /\ UNCHANGED usados

DeleteEvent(e) ==
  /\ e \in Vivos
  /\ Grava([eventos EXCEPT ![e] = Nenhum], papel)
  /\ UNCHANGED usados

\* PUT and DELETE of the reader's role (module Papeis).
ChangeRole(r) ==
  /\ r # papel
  /\ Grava(eventos, r)
  /\ UNCHANGED usados

Read ==
  \/ \E f \in Filtros : (ListEvents(f) \/ GetMetrics(f))
  \/ \E e \in Ids : GetRecommended(e)
  \/ \E e \in Ids, logado \in BOOLEAN : GetBySlugOrId(e, logado)
  \/ ListCount \/ ListPage
  \/ GetRoleAndShow
  \/ ListPublished \/ GetTagsAndSort
  \/ CountByPeriodo \/ CountByStatus \/ GetDateBounds
  \/ GetSummary
  \/ CountDashboardPeriods \/ GetUpcomingEvents \/ GetPendingReview

Write ==
  \/ \E e \in Ids, linha \in Linhas : (CreateEvent(e, linha) \/ UpdateEvent(e, linha))
  \/ \E e \in Ids : DeleteEvent(e)
  \/ \E r \in Papeis : ChangeRole(r)

Next == Read \/ Write

Spec == Init /\ [][Next]_vars

-----------------------------------------------------------------------------
(* Properties.                                                             *)

\* Types: the table, the reader's role, the request and its history.
TypeOK ==
  /\ eventos \in [Ids -> Linhas \cup {Nenhum}]
  /\ usados \subseteq Ids /\ Vivos \subseteq usados
  /\ papel \in Papeis
  /\ leitor \in Leitura \cup {Nenhum}
  /\ hist \in [inicio : SUBSET Ids, mexeu : BOOLEAN, tocado : BOOLEAN, visivel : BOOLEAN]

\* A reader that goes through the pages until the SELECT of one comes back short
\* has seen every event that matched when it began and validates (a DD/MM/YYYY
\* data_evento), whatever was created meanwhile, as long as no event of the
\* listing was removed, filtered out, spoilt or moved behind another (approving a
\* pending event, which moves it, makes a reviewer miss one).  When nothing at all
\* is written meanwhile, the total that comes with the pages exceeds the events
\* they hold by exactly those that do not validate.
WalksMissNothing ==
  At("lista", "fim") =>
    /\ ~hist.mexeu => hist.inicio \subseteq leitor.lidos
    /\ ~hist.tocado =>
         LET fora == {e \in Casam(leitor.filtro) : ~eventos[e].formato}
         IN  leitor.total = Cardinality(leitor.lidos) + Cardinality(fora)

\* GET /events/slug/{slug_or_id} reads the row before the role: what it shows was
\* visible to its reader at some moment of the request, or is gone by the time it
\* is shown.
ShownWasVisible ==
  At("ver", "fim") /\ leitor.mostrado => hist.visivel \/ leitor.alvo \notin Vivos

\* When nothing is written meanwhile: the request fails only where a coming event
\* does not validate; otherwise the recommendations are coming published events
\* other than the one shown, as many as asked for, and none left out shares a tag
\* where one shown does not, nor is in the week where an equal in tags is not, nor
\* is nearer than an equal in both.
RecommendsTheBest ==
  At("recomenda", "fim") /\ ~hist.tocado =>
    LET pode == Proximos \ {leitor.alvo}
        dados == ToSet(leitor.resposta)
        Tag(e) == eventos[e].tags \cap eventos[leitor.alvo].tags # {}
        Week(e) == SameWeek(eventos[e].data, eventos[leitor.alvo].data)
    IN  IF leitor.erro
          THEN \E e \in pode : ~eventos[e].formato
          ELSE /\ dados \subseteq pode
               /\ Cardinality(dados) = Menor(Limite, Cardinality(pode))
               /\ \A x \in dados, y \in pode \ dados :
                    /\ Tag(y) => Tag(x)
                    /\ (Tag(x) <=> Tag(y)) /\ Week(y) => Week(x)
                    /\ (Tag(x) <=> Tag(y)) /\ (Week(x) <=> Week(y)) =>
                         eventos[x].data <= eventos[y].data

\* The metrics fail only where the first or the last data_evento is no calendar
\* date, never because the events counted are gone when the dates are read; and
\* when nothing is written meanwhile the parts add up: the periods sum to the
\* total and the weekdays do not exceed it (no percentage over 100).
MetricsAreSound ==
  At("metricas", "fim") =>
    /\ leitor.erro => leitor.limites \cap SemData # {}
    /\ ~hist.tocado => leitor.porPeriodo = leitor.total /\ leitor.porDia <= leitor.total

\* When nothing is written meanwhile, the summary fails only where an event that it
\* lists does not validate; otherwise its reads fit together whatever their order:
\* no event is both coming and pending, those listed are among those counted (of
\* the week too, which is counted by keys and listed by dates), no coming event
\* left out is nearer than one listed, and a reviewer, nobody else, gets the
\* pending ones, newest first.
SummaryFits ==
  At("painel", "fim") /\ ~hist.tocado =>
    LET proximos == ToSet(leitor.resposta)
        pendentes == ToSet(leitor.pendentes)
        fora == {e \in Vivos : eventos[e].status = "em_analise"} \ pendentes
    IN  IF leitor.erro
          THEN \E e \in proximos \cup pendentes : ~eventos[e].formato
          ELSE /\ proximos \cap pendentes = {}
               /\ Cardinality(proximos \cup pendentes) <= leitor.total
               /\ Cardinality({e \in proximos : SameWeek(eventos[e].data, Hoje)}) <= leitor.porDia
               /\ \A x \in proximos, y \in Publicados \ proximos :
                    Futuro(eventos[y]) => eventos[x].data <= eventos[y].data
               /\ IF papel \in REVIEW_ROLES
                    THEN \A y \in fora : Len(leitor.pendentes) = Limite
                                         /\ \A x \in pendentes : x > y
                    ELSE pendentes = {}
=============================================================================
