------------------------------ MODULE Etiquetas ------------------------------
(***************************************************************************)
(* The tags of events (app/repositories/tag_repository.py) beside requests *)
(* on the tags themselves (NomesUnicos).                                   *)
(*                                                                         *)
(* PUT /events/{id}/tags is one transaction, DELETE the event's rows and   *)
(* INSERT the new ones in the order of the body, at PostgreSQL's READ      *)
(* COMMITTED.  The DELETE works on the rows committed when it starts and   *)
(* waits for the transactions that are deleting one of them; rows inserted *)
(* meanwhile it does not see.  An INSERT waits for a transaction that has  *)
(* written or deleted a row with its event and tag.  A cycle of waiting    *)
(* transactions is found by the database, which makes one of them fail.    *)
(***************************************************************************)
EXTENDS NomesUnicos, SequencesExt

CONSTANTS
  Eventos, dono,  \* ids, and [Eventos -> Users]: created_by of those of events
  MaxPedidas      \* length of the longest list of tags in a body

\* A row of evento_tags.  Its key tells it from rows with the same event and
\* tag that were there before; there are enough for all that a request may hold.
Ligacao == [evento : Eventos, tag : Chaves, id : 0..Cardinality(Requests)]

\* PUT of the tags of an event: the rows the DELETE has found, and how many of
\* the tags asked for are inserted so far, not committed.
SetRequest ==
  [op : {"set"}, pc : {"delete", "insert"}, evento : Eventos,
   pedidas : BoundedSeq(Chaves, MaxPedidas), linhas : SUBSET Ligacao, feitas : 0..MaxPedidas]

ASSUME DonoAssumption == dono \in [Eventos -> Users]
ASSUME SetAssumption == Nenhum \notin SetRequest /\ MaxPedidas \in Nat /\ IsFiniteSet(Requests)

VARIABLE ligacoes  \* SUBSET Ligacao: the committed rows of evento_tags

vars == <<varsNomes, ligacoes>>

LinhasDe(e) == {l \in ligacoes : l.evento = e}
LinhasDaTag(t) == {l \in ligacoes : l.tag = t}
TagsDe(e) == {l.tag : l \in LinhasDe(e)}

Init ==
  /\ InitNomes
  /\ ligacoes = {}

-----------------------------------------------------------------------------
(* Locks.                                                                  *)

\* Transactions with rows of evento_tags, other than q's: those they are
\* deleting and the tags they have inserted (whose rows in tags they share).
Outras(q) == {p \in Requests \ {q} : At(p, "set", "insert")}
Inseridas(p) == {req[p].pedidas[k] : k \in 1..req[p].feitas}
ApagandoTag(p, t) == \E l \in req[p].linhas : l.tag = t

\* The tag that q inserts next.
Proxima(q) == req[q].pedidas[req[q].feitas + 1]
FaltaInserir(q) == At(q, "set", "insert") /\ req[q].feitas < Len(req[q].pedidas)

\* The transactions that q waits for.
WaitsFor(q) ==
  {p \in Outras(q) :
     \/ At(q, "set", "delete") /\ req[p].linhas \cap req[q].linhas # {}
     \/ /\ FaltaInserir(q)
        /\ req[p].evento = req[q].evento
        /\ Proxima(q) \in Inseridas(p) \/ ApagandoTag(p, Proxima(q))
     \/ /\ At(q, "update", "gravar")
        /\ req[q].chave \in Inseridas(p)
     \/ /\ At(q, "delete", "gravar")
        /\ req[q].chave \in Inseridas(p) \/ ApagandoTag(p, req[q].chave)}

OnCycle(q) ==
  \E S \in SUBSET Requests :
    q \in S /\ \A p \in S : WaitsFor(p) \cap S # {} /\ \E o \in S : p \in WaitsFor(o)

-----------------------------------------------------------------------------
(* Requests.                                                               *)

\* The router reads the event for a participant only, who has to be its owner.
OwnsIfParticipant(u, e) == papeis[u] = "participante" => e \in SemEvento \/ dono[e] = u
NaoEncontrado(u, e) == papeis[u] = "participante" /\ e \in SemEvento

\* PUT /events/{e}/tags: the DELETE starts, on the rows committed by now.
SetEventTags(q, u, e, ts) ==
  LET r == [op |-> "set", pc |-> "delete", evento |-> e, pedidas |-> ts,
            linhas |-> LinhasDe(e), feitas |-> 0]
  IN  /\ Idle(q)
      /\ tabela = "tags"
      /\ RequirePermission("canCreateEvents", papeis[u])
      /\ OwnsIfParticipant(u, e)
      /\ IF NaoEncontrado(u, e) THEN Answer(q, r, 404) ELSE Start(q, r)
      /\ UNCHANGED <<tabela, nomes, ligacoes>>

\* Defective variant: the deletion is committed on its own.
DeleteRowsCommitted(q) ==
  /\ At(q, "set", "delete")
  /\ WaitsFor(q) = {}
  /\ ligacoes' = ligacoes \ req[q].linhas
  /\ GoOn(q, [req[q] EXCEPT !.pc = "insert", !.linhas = {}])
  /\ UNCHANGED <<tabela, nomes>>

\* Defective variant: the rows are those of the list, there or not.
DeleteRowsStale(q) ==
  /\ At(q, "set", "delete")
  /\ WaitsFor(q) = {}
  /\ GoOn(q, [req[q] EXCEPT !.pc = "insert"])
  /\ UNCHANGED <<tabela, nomes, ligacoes>>

\* The DELETE has the rows that are still there.
DeleteRows(q) ==
  /\ At(q, "set", "delete")
  /\ WaitsFor(q) = {}
  /\ GoOn(q, [req[q] EXCEPT !.pc = "insert", !.linhas = @ \cap ligacoes])
  /\ UNCHANGED <<tabela, nomes, ligacoes>>

\* The next INSERT.  An event or a tag that is not there (foreign keys), a tag
\* that the event has through a row the DELETE did not see, or that the body
\* repeats (unique constraint), fail the request.
InsertRow(q) ==
  LET e == req[q].evento
      t == Proxima(q)
  IN  /\ FaltaInserir(q)
      /\ WaitsFor(q) = {}
      /\ IF \/ e \in SemEvento
            \/ nomes[t] = Nenhum
            \/ t \in Inseridas(q)
            \/ \E l \in LinhasDe(e) \ req[q].linhas : l.tag = t
           THEN Answer(q, req[q], 500)
           ELSE GoOn(q, [req[q] EXCEPT !.feitas = @ + 1])
      /\ UNCHANGED <<tabela, nomes, ligacoes>>

\* The row of event e and tag t, with a key that no row and no request has.
NovaLinha(e, t) ==
  LET em_uso == ligacoes \cup UNION {req[p].linhas : p \in {r \in Requests : ~Idle(r) /\ req[r].op = "set"}}
      livre(i) == [evento |-> e, tag |-> t, id |-> i] \notin em_uso
  IN  [evento |-> e, tag |-> t, id |-> CHOOSE i \in 0..Cardinality(Requests) : livre(i)]

\* The commit.
CommitTags(q) ==
  /\ At(q, "set", "insert")
  /\ ~FaltaInserir(q)
  /\ ligacoes' = (ligacoes \ req[q].linhas)
                 \cup {NovaLinha(req[q].evento, t) : t \in Inseridas(q)}
  /\ Answer(q, req[q], 200)
  /\ UNCHANGED <<tabela, nomes>>

\* Defective variant: the PUT is made again after a deadlock.
DeadlockRetries(q) ==
  /\ OnCycle(q)
  /\ GoOn(q, [req[q] EXCEPT !.pc = "delete", !.linhas = LinhasDe(req[q].evento), !.feitas = 0])
  /\ UNCHANGED <<tabela, nomes, ligacoes>>

\* deadlock_detected: the transaction is rolled back and its request fails.
Deadlock(q) ==
  /\ OnCycle(q)
  /\ Answer(q, req[q], 500)
  /\ UNCHANGED <<tabela, nomes, ligacoes>>

\* Commit of a POST or PUT of a row (a name is part of a key of its table: the
\* row is locked against transactions that refer to it).
SaveRow(q) == Save(q) /\ WaitsFor(q) = {} /\ UNCHANGED ligacoes

\* Defective variant: the events keep the rows of the tag.
DeleteRowOnly(q) == RepoDelete(q) /\ WaitsFor(q) = {} /\ UNCHANGED ligacoes

\* Commit of a DELETE: a tag goes with its rows (cascade).
DeleteRow(q) ==
  /\ RepoDelete(q)
  /\ WaitsFor(q) = {}
  /\ ligacoes' = ligacoes \ LinhasDaTag(req[q].chave)

\* What the request does next by itself.
Step(q) ==
  \/ (LookUp(q) \/ Refresh(q)) /\ UNCHANGED ligacoes
  \/ SaveRow(q)
  \/ DeleteRow(q)
  \/ DeleteRows(q)
  \/ InsertRow(q)
  \/ CommitTags(q)
  \/ Deadlock(q)

Next ==
  \E q \in Requests :
    \/ NewNameRequest(q) /\ UNCHANGED ligacoes
    \/ \E u \in Users, e \in Eventos, ts \in BoundedSeq(Chaves, MaxPedidas) : SetEventTags(q, u, e, ts)
    \/ Step(q)
    \/ RequestEnds(q) /\ UNCHANGED ligacoes

\* A request goes on, and the database serves those that wait for a lock in the
\* order in which they came: one whose lock is free again and again gets it.
Fairness == \A q \in Requests : SF_vars(Step(q))

Spec == Init /\ [][Next]_vars /\ Fairness

-----------------------------------------------------------------------------
(* Properties.                                                             *)

Resposta == [a : NameRequest \cup SetRequest, codigo : {200, 404, 409, 500}]

\* Types; only tags are linked, and the rows a transaction is deleting are there.
TypeOK ==
  /\ tabela \in Tabelas
  /\ nomes \in [Chaves -> Nomes \cup {Nulo, Nenhum}]
  /\ ligacoes \subseteq Ligacao
  /\ req \in [Requests -> NameRequest \cup SetRequest \cup {Nenhum}]
  /\ juntas \subseteq {q \in Requests : ~Idle(q)}
  /\ resposta \in Resposta \cup {Nenhum}
  /\ tabela # "tags" => ligacoes = {}
  /\ \A q \in Requests : At(q, "set", "insert") => req[q].linhas \subseteq ligacoes

\* An event names only tags that exist, each of them once, whatever is deleted
\* or set at the same time: the tags map joins the tables without a check.
LinksAreSound ==
  \A l \in ligacoes :
    /\ nomes[l.tag] # Nenhum
    /\ \A k \in ligacoes \ {l} : k.evento # l.evento \/ k.tag # l.tag

\* A request that met no other is answered what the table says.  A 500 without
\* a race is a null, a community renamed to a taken name, an album for an event
\* that has one or does not exist, or a list of tags that repeats one, names one
\* that is not there, or is for an event that does not exist.  A PUT of tags that
\* is answered 200 has left the event with what it asked for, whatever earlier
\* races have left; for no event, only an empty list is.  (Of two at once the
\* second does not delete what the first inserts.)
AloneAnswersAreRight ==
  resposta # Nenhum =>
    LET r == resposta.a
        ts == ToSet(r.pedidas)
        nenhum == r.evento \in SemEvento
    IN  IF r.op # "set" THEN NameAnswerIsRight(r, resposta.codigo)
        ELSE CASE resposta.codigo = 200 -> TagsDe(r.evento) = ts /\ (nenhum => ts = {})
               [] resposta.codigo = 404 -> nenhum
               [] OTHER -> \/ nenhum /\ ts # {}
                           \/ ~IsInjective(r.pedidas)
                           \/ \E t \in ts : nomes[t] = Nenhum

\* An event loses a tag only when a PUT that does not name it is committed whole,
\* or when the tag is deleted: a PUT that fails on one tag takes none away.
NoTagIsLostHalfway ==
  [][\A e \in Eventos, t \in Chaves :
       t \in TagsDe(e) /\ t \notin TagsDe(e)'
       => \E q \in Requests :
            /\ ~Idle(q) /\ req'[q] = Nenhum
            /\ \/ req[q].op = "delete" /\ req[q].chave = t
               \/ /\ req[q].op = "set" /\ req[q].evento = e /\ t \notin ToSet(req[q].pedidas)
                  /\ ToSet(req[q].pedidas) \subseteq TagsDe(e)']_vars

\* Every request ends, also those that wait for each other.
RequestsEnd == \A q \in Requests : ~Idle(q) ~> Idle(q)
=============================================================================
