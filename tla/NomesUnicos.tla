----------------------------- MODULE NomesUnicos -----------------------------
(***************************************************************************)
(* The four tables with a column that an index makes unique: the name of   *)
(* tags and communities, the github_username of contributors, and the      *)
(* event, if any, of an album.  Create, update and delete under concurrent *)
(* requests (app/services/tag_service.py, contribuinte_service.py,         *)
(* comunidade_service.py, galeria_service.py and their repositories).      *)
(*                                                                         *)
(* They differ in who looks a name up before it is written and in who      *)
(* turns the refusal of the index into a 409; elsewhere it is a 500.       *)
(* Module Etiquetas composes the requests with those on tags of events;    *)
(* the photos of albums are the subject of Galeria.                        *)
(***************************************************************************)
EXTENDS Permissoes, FiniteSets

CONSTANTS
  Users, papeis,  \* accounts, [Users -> Role]
  Chaves,         \* primary keys: fresh uuids
  Nomes,          \* names; of albums, ids of events
  SemEvento,      \* the ids that are of no event; the others are there to stay
  Nulo,           \* null, which the body of a PUT may name, and an album may have
  Requests,       \* slots for requests in flight
  Nenhum          \* no row, no request, no answer

Tabelas == {"tags", "contribuintes", "comunidades", "albuns"}

\* A request in flight: the row, the name it wants, the name it has read.
NameRequest ==
  [op : {"create", "update", "delete"}, pc : {"procurar", "gravar", "refresh"},
   chave : Chaves, nome : Nomes \cup {Nulo, Nenhum}, lido : Nomes \cup {Nulo, Nenhum}]

ASSUME PapeisAssumption == papeis \in [Users -> Role]
ASSUME NomesAssumption ==
  Nulo \notin Nomes /\ Nenhum \notin Nomes \cup {Nulo} /\ Nenhum \notin NameRequest

VARIABLES
  tabela,    \* which of the tables: it never changes
  nomes,     \* [Chaves -> Nomes, Nulo or Nenhum]: the committed rows
  req,       \* [Requests -> request or Nenhum]
  juntas,    \* history: requests in flight that have met another one
  resposta   \* history: the answer just given to a request that met no other

varsNomes == <<tabela, nomes, req, juntas, resposta>>

Idle(q) == req[q] = Nenhum
At(q, op, pc) == req[q] # Nenhum /\ req[q].op = op /\ req[q].pc = pc

\* The first access of a request, which then goes on as r.
Start(q, r) ==
  /\ Idle(q)
  /\ req' = [req EXCEPT ![q] = r]
  /\ LET outras == {p \in Requests : ~Idle(p)}
     IN juntas' = IF outras = {} THEN {} ELSE outras \cup {q}
  /\ resposta' = Nenhum

\* Another access.
GoOn(q, r) ==
  /\ req' = [req EXCEPT ![q] = r]
  /\ resposta' = Nenhum
  /\ UNCHANGED juntas

\* The answer; the first access of a request may be the last.
Answer(q, r, codigo) ==
  /\ req' = [req EXCEPT ![q] = Nenhum]
  /\ juntas' = juntas \ {q}
  /\ resposta' = IF \E p \in Requests \ {q} : ~Idle(p) THEN Nenhum
                 ELSE IF q \in juntas THEN Nenhum
                 ELSE [a |-> r, codigo |-> codigo]

\* The permission each table's routes ask for.
Permissao(op) ==
  CASE tabela = "tags" -> IF op = "delete" THEN "canDeleteTags" ELSE "canManageTags"
    [] tabela = "contribuintes" -> "canManageContributors"
    [] tabela = "comunidades" -> "canManageComunidades"
    [] tabela = "albuns" -> "canManageGaleria"

\* get_by_nome, get_by_github_username.
Existing(n) == \E c \in Chaves : nomes[c] = n

\* The unique index, for which no two nulls are equal.
NomeLivre(n, c) == n = Nulo \/ \A d \in Chaves \ {c} : nomes[d] # n

\* Where a name may be null, and what the column takes: the event of an album is
\* a foreign key.
AceitaNulo(n) == n = Nulo => tabela = "albuns"
Aceita(n) == AceitaNulo(n) /\ (tabela = "albuns" => n \notin SemEvento)

\* uuid4: a key that no row and no request has.
NovaChave(c) ==
  /\ nomes[c] = Nenhum
  /\ c \notin {req[q].chave : q \in {p \in Requests : ~Idle(p) /\ req[p].op # "set"}}

InitNomes ==
  /\ tabela \in Tabelas
  /\ nomes = [c \in Chaves |-> Nenhum]
  /\ req = [q \in Requests |-> Nenhum]
  /\ juntas = {}
  /\ resposta = Nenhum

-----------------------------------------------------------------------------
\* Does POST look the name up?
LooksUpFirst == tabela \in {"tags", "contribuintes"}

\* POST: a name may be looked up first.
Create(q, u, c, n) ==
  LET r == [op |-> "create", pc |-> "gravar", chave |-> c, nome |-> n, lido |-> Nenhum]
  IN  /\ Idle(q)
      /\ RequirePermission(Permissao("create"), papeis[u])
      /\ NovaChave(c)
      /\ AceitaNulo(n)
      /\ IF LooksUpFirst /\ Existing(n) THEN Answer(q, r, 409) ELSE Start(q, r)
      /\ UNCHANGED <<tabela, nomes>>

\* Defective variant: a contributor's new name is not looked up.
LooksUpTagsOnly(n) == tabela = "tags"

\* Is a name that differs from the one read looked up?
LooksUp(n) == tabela = "tags" \/ (tabela = "contribuintes" /\ n # Nulo)

\* PUT with a name other than the row's, first access: the row.
Update(q, u, c, n) ==
  LET r == [op |-> "update", pc |-> IF LooksUp(n) THEN "procurar" ELSE "gravar",
            chave |-> c, nome |-> n, lido |-> nomes[c]]
  IN  /\ Idle(q)
      /\ RequirePermission(Permissao("update"), papeis[u])
      /\ n # nomes[c]
      /\ IF nomes[c] = Nenhum THEN Answer(q, r, 404) ELSE Start(q, r)
      /\ UNCHANGED <<tabela, nomes>>

\* PUT, the look-up, which may also find the row itself, renamed meanwhile.
LookUp(q) ==
  /\ At(q, "update", "procurar")
  /\ IF Existing(req[q].nome) THEN Answer(q, req[q], 409)
                              ELSE GoOn(q, [req[q] EXCEPT !.pc = "gravar"])
  /\ UNCHANGED <<tabela, nomes>>

\* Who turns the refusal of the index into a conflict.
HandlesIndex(op) == op = "create" /\ tabela \in {"contribuintes", "comunidades"}

\* Commit of a POST or a PUT.  A row that is gone, a null where none may be, an
\* event that does not exist, and a taken name are errors.
Save(q) ==
  LET r == req[q]
      ok == Aceita(r.nome) /\ (r.op = "update" => nomes[r.chave] # Nenhum)
  IN  /\ At(q, "create", "gravar") \/ At(q, "update", "gravar")
      /\ IF ok /\ NomeLivre(r.nome, r.chave)
           THEN /\ nomes' = [nomes EXCEPT ![r.chave] = r.nome]
                /\ GoOn(q, [r EXCEPT !.pc = "refresh"])
           ELSE /\ Answer(q, r, IF ok /\ HandlesIndex(r.op) THEN 409 ELSE 500)
                /\ UNCHANGED nomes
      /\ UNCHANGED tabela

\* db.refresh reads the row for the answer: gone, the request fails although
\* what it wrote was committed.
Refresh(q) ==
  /\ At(q, "create", "refresh") \/ At(q, "update", "refresh")
  /\ Answer(q, req[q], IF nomes[req[q].chave] = Nenhum THEN 500 ELSE 200)
  /\ UNCHANGED <<tabela, nomes>>

\* DELETE, first access: the row.
Delete(q, u, c) ==
  LET r == [op |-> "delete", pc |-> "gravar", chave |-> c, nome |-> Nenhum, lido |-> nomes[c]]
  IN  /\ Idle(q)
      /\ RequirePermission(Permissao("delete"), papeis[u])
      /\ IF nomes[c] = Nenhum THEN Answer(q, r, 404) ELSE Start(q, r)
      /\ UNCHANGED <<tabela, nomes>>

\* Commit of a DELETE; a row already gone is no error.
RepoDelete(q) ==
  /\ At(q, "delete", "gravar")
  /\ nomes' = [nomes EXCEPT ![req[q].chave] = Nenhum]
  /\ Answer(q, req[q], 200)
  /\ UNCHANGED tabela

\* The process is stopped, or the database is gone: nothing more is written.
RequestEnds(q) ==
  /\ ~Idle(q)
  /\ req' = [req EXCEPT ![q] = Nenhum]
  /\ juntas' = juntas \ {q}
  /\ resposta' = Nenhum
  /\ UNCHANGED <<tabela, nomes>>

\* The first accesses.
NewNameRequest(q) ==
  \E u \in Users, c \in Chaves :
    \/ \E n \in Nomes \cup {Nulo} : Create(q, u, c, n) \/ Update(q, u, c, n)
    \/ Delete(q, u, c)

-----------------------------------------------------------------------------
\* What a request that met no other is answered, r being the request: POST and
\* PUT a conflict only when another row has the name (a 500 where nobody asks
\* before the index does), a 500 for a null or for an event that does not exist,
\* and otherwise the name is stored.
NameAnswerIsRight(r, codigo) ==
  LET livre == NomeLivre(r.nome, r.chave)
      pergunta == LooksUpFirst \/ HandlesIndex(r.op)
  IN  /\ codigo = 404 <=> r.op # "create" /\ r.lido = Nenhum
      /\ codigo = 409 => pergunta /\ ~livre
      /\ codigo = 500 => ~Aceita(r.nome) \/ (~pergunta /\ ~livre)
      /\ codigo = 200 =>
           IF r.op = "delete" THEN nomes[r.chave] = Nenhum
                              ELSE nomes[r.chave] = r.nome /\ livre /\ Aceita(r.nome)
=============================================================================
