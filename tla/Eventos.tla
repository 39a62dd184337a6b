------------------------------ MODULE Eventos -------------------------------
(***************************************************************************)
(* The life of the rows of table eventos under concurrent HTTP requests:   *)
(* POST /events, PUT /events/{id}, DELETE /events/{id} and the publish,    *)
(* approve and reject operations of app/services/evento_service.py.        *)
(*                                                                         *)
(* Every request has its own session on a READ COMMITTED database, so a    *)
(* request is a sequence of atomic database accesses, each of which sees   *)
(* what the others have committed so far.  A handler reads the row, checks *)
(* what it read, changes its own copy and commits; the commit writes only  *)
(* the columns whose value differs from the one that was READ, whatever    *)
(* the row holds by then (SQLAlchemy's unit of work, autoflush off).       *)
(*                                                                         *)
(* The role of the caller is read from user_roles at the start of the      *)
(* request.  That table is changed by other requests (module Papeis); here *)
(* the read returns any role that the user may hold, RolesOf[u].  It       *)
(* touches no other state, so it is one step with the first read of the    *)
(* events table that follows it.                                           *)
(***************************************************************************)
EXTENDS Permissoes, Slugs

CONSTANTS
  Users,       \* identities that call the API
  Ids,         \* event identifiers (fresh uuids: never used twice)
  Requests,    \* slots for requests in flight
  Nomes,       \* event names as clients type them
  Motivos,     \* reasons given with a rejection
  Nenhum,      \* Python's None, SQL's NULL, "no row", "no request"
  RolesOf,     \* [Users -> SUBSET Role]: the roles a user may hold
  NormPy,      \* [Nomes -> ...]: nome.strip().lower() in Python
  NormSQL,     \* [Nomes -> ...]: lower(trim(nome)) in the database
  SlugBase,    \* [Nomes -> Slug]: generate_slug
  Statuses     \* the statuses that clients send

EventoStatus == {"rascunho", "publicado", "arquivado", "em_analise", "recusado"}
REVIEW_ROLES == {"super_admin", "admin"}
REVIEW_STATUSES == {"em_analise", "recusado"}

ASSUME IdsAssumption == IsFiniteSet(Ids)
ASSUME RolesAssumption == RolesOf \in [Users -> SUBSET Role]
ASSUME SlugAssumption == SlugBase \in [Nomes -> Slug]
ASSUME StatusAssumption == Statuses \subseteq EventoStatus

Linha == [nome : Nomes, slug : Slug, status : EventoStatus,
          motivo_recusa : Motivos \cup {Nenhum}, created_by : Users]

ASSUME NenhumAssumption ==
  /\ Nenhum \notin Linha
  /\ Nenhum \notin Motivos \cup Nomes \cup EventoStatus \cup Ids

Operation == {"create", "update", "delete", "publish", "approve", "reject"}

\* A request in flight: what it was asked, the role it read, the row as it
\* read it (lido) and as it wants it (novo), and the access it does next.
Request == [op : Operation, pc : {"nome", "slug", "gravar"}, ator : Users,
            papel : Role, alvo : Ids \cup {Nenhum},
            lido : Linha \cup {Nenhum}, novo : Linha]

ASSUME RequestAssumption == Nenhum \notin Request

VARIABLES
  eventos,     \* [Ids -> Linha or Nenhum]: the committed table
  usados,      \* identifiers already given to a row
  req,         \* [Requests -> Request or Nenhum]
  semRevisao   \* history: events created by a participant whose status no
               \* reviewer has changed since

vars == <<eventos, usados, req, semRevisao>>

Vivos == {e \in Ids : eventos[e] # Nenhum}

-----------------------------------------------------------------------------
(* Reads and rules of the handlers.                                        *)

\* Defective variant: the names are compared as typed.
NameTakenAsTyped(nome, excluido) ==
  \E e \in Vivos \ {excluido} : eventos[e].nome = nome

\* get_by_nome: another row whose stored name, trimmed and lowered by the
\* database, equals the given name as stripped and lowered by Python.
NameTaken(nome, excluido) ==
  \E e \in Vivos \ {excluido} : NormSQL[eventos[e].nome] = NormPy[nome]

UsedSlugs(base, excluido) ==
  SlugsStartingWith(base, {eventos[e].slug : e \in Vivos \ {excluido}})

\* Defective variants: the row under review is not refused; the owner is
\* checked for moderators only.
CanUpdateUnderReview(linha, status, ator, papel) ==
  /\ papel \in {"moderador", "participante"} => linha.created_by = ator
  /\ papel \notin REVIEW_ROLES => status \notin REVIEW_STATUSES

CanUpdateAnyones(linha, status, ator, papel) ==
  /\ papel = "moderador" => linha.created_by = ator
  /\ papel \notin REVIEW_ROLES =>
       /\ linha.status # "em_analise"
       /\ status \notin REVIEW_STATUSES

\* _ensure_can_update_event, for the row read and the status sent (if any).
CanUpdate(linha, status, ator, papel) ==
  /\ papel \in {"moderador", "participante"} => linha.created_by = ator
  /\ papel \notin REVIEW_ROLES =>
       /\ linha.status # "em_analise"
       /\ status \notin REVIEW_STATUSES

\* Defective variant: only published events go back.
BackToReviewIfPublished(linha, papel) ==
  papel = "participante" /\ linha.status = "publicado"

\* A participant's edit of a decided event sends it back to review.
BackToReview(linha, papel) ==
  papel = "participante" /\ linha.status \in {"publicado", "recusado"}

\* Defective variant: the keys absent from the body are written as null.
EditedWithNulls(linha, nome, status, papel) ==
  [linha EXCEPT
     !.nome   = nome,
     !.status = IF BackToReview(linha, papel) THEN "em_analise" ELSE status,
     !.motivo_recusa = IF BackToReview(linha, papel) THEN Nenhum ELSE @]

\* The row the handler of PUT wants, from the row read and the body sent.
Edited(linha, nome, status, papel) ==
  [linha EXCEPT
     !.nome   = IF nome = Nenhum THEN @ ELSE nome,
     !.status = IF BackToReview(linha, papel) THEN "em_analise"
                ELSE IF status = Nenhum THEN @ ELSE status,
     !.motivo_recusa = IF BackToReview(linha, papel) THEN Nenhum ELSE @]

\* Defective variant: the client's status is stored for everyone.
InitialStatusAsSent(status, papel) == status

\* What create_event stores as status: participants' events await review.
InitialStatus(status, papel) ==
  IF papel = "participante" THEN "em_analise" ELSE status

\* The flush: a column is written when its value differs from the value READ.
Flushed(atual, lido, novo) ==
  LET Col(a, l, n) == IF n # l THEN n ELSE a
  IN  [nome          |-> Col(atual.nome, lido.nome, novo.nome),
       slug          |-> Col(atual.slug, lido.slug, novo.slug),
       status        |-> Col(atual.status, lido.status, novo.status),
       motivo_recusa |-> Col(atual.motivo_recusa, lido.motivo_recusa,
                             novo.motivo_recusa),
       created_by    |-> atual.created_by]

SlugFree(slug, e) == \A i \in Vivos \ {e} : eventos[i].slug # slug

-----------------------------------------------------------------------------
Idle(q) == req[q] = Nenhum
At(q, pc) == req[q] # Nenhum /\ req[q].pc = pc

Start(q, op, pc, u, r, e, lido, novo) ==
  req' = [req EXCEPT ![q] = [op |-> op, pc |-> pc, ator |-> u, papel |-> r,
                             alvo |-> e, lido |-> lido, novo |-> novo]]

Init ==
  /\ eventos = [e \in Ids |-> Nenhum]
  /\ usados = {}
  /\ req = [q \in Requests |-> Nenhum]
  /\ semRevisao = {}

\* POST /events, up to the name check of create_event.
CreateEvent(q, u, r, nome, status) ==
  /\ Idle(q)
  /\ RequirePermission("canCreateEvents", r)
  /\ ~NameTaken(nome, Nenhum)
  /\ Start(q, "create", "slug", u, r, Nenhum, Nenhum,
           [nome |-> nome, slug |-> << >>, status |-> InitialStatus(status, r),
            motivo_recusa |-> Nenhum, created_by |-> u])
  /\ UNCHANGED <<eventos, usados, semRevisao>>

\* PUT /events/{id}: the row is read and checked; Nenhum for nome or status
\* is a body without that key.  (An explicit null leaves no trace: the name is
\* stripped first, the status may not be NULL or is overruled by BackToReview.)
UpdateEvent(q, u, r, e, nome, status) ==
  /\ Idle(q)
  /\ RequirePermission("canEditEvents", r)
  /\ e \in Vivos
  /\ CanUpdate(eventos[e], status, u, r)
  /\ Start(q, "update", IF nome = Nenhum THEN "gravar" ELSE "nome", u, r, e,
           eventos[e], Edited(eventos[e], nome, status, r))
  /\ UNCHANGED <<eventos, usados, semRevisao>>

\* Defective variant: the slug is not refreshed when the name changes.
EnsureUniqueNameKeepsSlug(q) ==
  /\ At(q, "nome")
  /\ ~NameTaken(req[q].novo.nome, req[q].alvo)
  /\ req' = [req EXCEPT ![q].pc = "gravar"]
  /\ UNCHANGED <<eventos, usados, semRevisao>>

\* The name check of update_event, made after the row was read.
EnsureUniqueName(q) ==
  /\ At(q, "nome")
  /\ ~NameTaken(req[q].novo.nome, req[q].alvo)
  /\ req' = [req EXCEPT ![q].pc =
               IF req[q].novo.nome # req[q].lido.nome THEN "slug" ELSE "gravar"]
  /\ UNCHANGED <<eventos, usados, semRevisao>>

\* _resolve_slug: the slugs in use are read and a free one is chosen.
ResolveSlug(q) ==
  /\ At(q, "slug")
  /\ LET base == SlugBase[req[q].novo.nome]
         used == UsedSlugs(base, req[q].alvo)
     IN  req' = [req EXCEPT ![q].pc = "gravar",
                            ![q].novo.slug = ResolveUniqueSlug(base, used)]
  /\ UNCHANGED <<eventos, usados, semRevisao>>

\* Defective variant: approve leaves the reason of an earlier rejection.
ApproveEventKeepsMotivo(q, u, r, e) ==
  /\ Idle(q)
  /\ RequireRole(REVIEW_ROLES, r)
  /\ e \in Vivos
  /\ Start(q, "approve", "gravar", u, r, e, eventos[e],
           [eventos[e] EXCEPT !.status = "publicado"])
  /\ UNCHANGED <<eventos, usados, semRevisao>>

\* POST /events/{id}/publish: the row is read; one under review is refused.
PublishEvent(q, u, r, e) ==
  /\ Idle(q)
  /\ RequirePermission("canPublishEvents", r)
  /\ e \in Vivos
  /\ eventos[e].status # "em_analise"
  /\ Start(q, "publish", "gravar", u, r, e, eventos[e],
           [eventos[e] EXCEPT !.status = "publicado"])
  /\ UNCHANGED <<eventos, usados, semRevisao>>

\* POST /events/{id}/approve.
ApproveEvent(q, u, r, e) ==
  /\ Idle(q)
  /\ RequireRole(REVIEW_ROLES, r)
  /\ e \in Vivos
  /\ Start(q, "approve", "gravar", u, r, e, eventos[e],
           [eventos[e] EXCEPT !.status = "publicado",
                              !.motivo_recusa = Nenhum])
  /\ UNCHANGED <<eventos, usados, semRevisao>>

\* POST /events/{id}/reject.
RejectEvent(q, u, r, e, motivo) ==
  /\ Idle(q)
  /\ RequireRole(REVIEW_ROLES, r)
  /\ e \in Vivos
  /\ Start(q, "reject", "gravar", u, r, e, eventos[e],
           [eventos[e] EXCEPT !.status = "recusado",
                              !.motivo_recusa = motivo])
  /\ UNCHANGED <<eventos, usados, semRevisao>>

\* DELETE /events/{id}: the row is read.
DeleteEvent(q, u, r, e) ==
  /\ Idle(q)
  /\ RequirePermission("canDeleteEvents", r)
  /\ e \in Vivos
  /\ Start(q, "delete", "gravar", u, r, e, eventos[e], eventos[e])
  /\ UNCHANGED <<eventos, usados, semRevisao>>

-----------------------------------------------------------------------------
(* The commits.  An INSERT or UPDATE that meets the unique index on slug,  *)
(* and an UPDATE whose row is gone, fail: only RequestEnds is then left.   *)

RepoCreate(q, e) ==
  /\ At(q, "gravar") /\ req[q].op = "create"
  /\ e \in Ids \ usados
  /\ SlugFree(req[q].novo.slug, e)
  /\ eventos' = [eventos EXCEPT ![e] = req[q].novo]
  /\ usados' = usados \cup {e}
  /\ req' = [req EXCEPT ![q] = Nenhum]
  /\ semRevisao' = IF req[q].papel = "participante" THEN semRevisao \cup {e}
                                                    ELSE semRevisao

RepoUpdate(q) ==
  /\ At(q, "gravar") /\ req[q].op \notin {"create", "delete"}
  /\ req[q].alvo \in Vivos
  /\ LET e == req[q].alvo
         linha == Flushed(eventos[e], req[q].lido, req[q].novo)
     IN  /\ SlugFree(linha.slug, e)
         /\ eventos' = [eventos EXCEPT ![e] = linha]
         /\ semRevisao' =
              IF /\ req[q].papel \in REVIEW_ROLES
                 /\ linha.status # eventos[e].status
              THEN semRevisao \ {e} ELSE semRevisao
  /\ req' = [req EXCEPT ![q] = Nenhum]
  /\ UNCHANGED usados

\* The DELETE of a row that is already gone matches nothing and succeeds.
RepoDelete(q) ==
  /\ At(q, "gravar") /\ req[q].op = "delete"
  /\ eventos' = [eventos EXCEPT ![req[q].alvo] = Nenhum]
  /\ req' = [req EXCEPT ![q] = Nenhum]
  /\ UNCHANGED <<usados, semRevisao>>

\* The request ends and leaves no trace: an error answer after the first
\* access (409 for the name, 500 for a failed commit), or a process that
\* was stopped before the commit.
RequestEnds(q) ==
  /\ ~Idle(q)
  /\ req' = [req EXCEPT ![q] = Nenhum]
  /\ UNCHANGED <<eventos, usados, semRevisao>>

Next ==
  \E q \in Requests :
    \/ EnsureUniqueName(q)
    \/ ResolveSlug(q)
    \/ \E e \in Ids : RepoCreate(q, e)
    \/ RepoUpdate(q)
    \/ RepoDelete(q)
    \/ RequestEnds(q)
    \/ \E u \in Users : \E r \in RolesOf[u] :
         \/ \E nome \in Nomes, status \in Statuses :
              CreateEvent(q, u, r, nome, status)
         \/ \E e \in Ids :
              \/ PublishEvent(q, u, r, e)
              \/ ApproveEvent(q, u, r, e)
              \/ DeleteEvent(q, u, r, e)
              \/ \E motivo \in Motivos : RejectEvent(q, u, r, e, motivo)
              \/ \E nome \in Nomes \cup {Nenhum},
                    status \in Statuses \cup {Nenhum} :
                   UpdateEvent(q, u, r, e, nome, status)

Spec == Init /\ [][Next]_vars

-----------------------------------------------------------------------------
(* Properties.                                                             *)

\* The request of q is answered, or dropped, by this step.
Answered(q) == req[q] # Nenhum /\ req'[q] = Nenhum

\* Types, and where a request keeps the row it read: every operation but
\* create works on an existing identifier and on a row it has read.
TypeOK ==
  /\ eventos \in [Ids -> Linha \cup {Nenhum}]
  /\ usados \subseteq Ids
  /\ Vivos \subseteq usados
  /\ req \in [Requests -> Request \cup {Nenhum}]
  /\ \A q \in Requests :
       /\ At(q, "nome") => req[q].op = "update"
       /\ At(q, "slug") => req[q].op \in {"create", "update"}
       /\ ~Idle(q) /\ req[q].op # "create" =>
            req[q].alvo \in usados /\ req[q].lido \in Linha
  /\ semRevisao \subseteq usados

\* The review gate under any interleaving: an event that a participant sent
\* (create_event stores em_analise) stays em_analise, and so out of every
\* public listing, until a request of an admin or super_admin changes its
\* status.  No publish or PUT of anyone else, started at any moment, gets it
\* out, because each refuses the row it read while it waits for review.
ReviewBeforePublic ==
  \A e \in semRevisao \cap Vivos : eventos[e].status = "em_analise"

\* A request that read the role participante changes no row of someone else,
\* and PUT of a moderador changes none either, although the ownership is
\* checked on a row read several accesses before the commit.
OnlyOwnEvents ==
  [][\A q \in Requests : \A e \in Vivos :
       /\ Answered(q)
       /\ eventos'[e] # eventos[e]
       /\ \/ req[q].papel = "participante"
          \/ req[q].papel = "moderador" /\ req[q].op = "update"
       => eventos[e].created_by = req[q].ator]_vars

\* A decision is applied whole: after approve the event is published without
\* a reason for rejection, after reject it is rejected with the given reason.
DecisionsAreWhole ==
  [][\A q \in Requests : \A e \in Vivos :
       /\ Answered(q) /\ req[q].alvo = e
       /\ eventos' # eventos /\ eventos'[e] # Nenhum
       => /\ req[q].op = "approve" =>
               /\ eventos'[e].status = "publicado"
               /\ eventos'[e].motivo_recusa = Nenhum
          /\ req[q].op = "reject" =>
               /\ eventos'[e].status = "recusado"
               /\ eventos'[e].motivo_recusa = req[q].novo.motivo_recusa]_vars

\* The review gate after a decision, too.  An event that is published or rejected
\* when a participant's edit of it is committed waits for review afterwards,
\* whatever status the body asks for; and only a request of an admin or
\* super_admin takes an event out of there, also for the second time
\* (publish_event and _ensure_can_update_event refuse everyone else).  A draft or
\* an archived event is not decided: a participant who owns one (a reviewer or a
\* moderator left it so, or the user was a moderator once) may publish it by a
\* PUT with status publicado, and update_event lets it through.
EditsReturnToReview ==
  [][\A q \in Requests : \A e \in Vivos :
       /\ Answered(q) /\ req[q].alvo = e
       /\ eventos' # eventos /\ eventos'[e] # Nenhum
       => /\ /\ req[q].papel = "participante"
             /\ eventos[e].status \in {"publicado", "recusado"}
             => eventos'[e].status = "em_analise"
          /\ /\ eventos[e].status = "em_analise"
             /\ eventos'[e].status # "em_analise"
             => req[q].papel \in REVIEW_ROLES]_vars

\* No two events carry the same name, up to case and surrounding blanks:
\* create_event and update_event answer 409 to the second.
NamesAreUnique ==
  \A e, i \in Vivos :
    e # i => NormPy[eventos[e].nome] # NormPy[eventos[i].nome]

\* The slug follows the name: it is the slug of the event's present name, or
\* that slug with a numeric suffix, after any sequence of creations and renames.
\* And a resolved slug can be stored: when a request is about to commit, no
\* other row holds the slug that _resolve_slug gave it, so that the unique index
\* never turns a valid request into a 500.
SlugFollowsName ==
  /\ \A e \in Vivos : IsVariantOf(eventos[e].slug, SlugBase[eventos[e].nome])
  /\ \A q \in Requests :
       At(q, "gravar") => SlugFree(req[q].novo.slug, req[q].alvo)

-----------------------------------------------------------------------------
(* What the moderation promises (module Moderacao), and this system as an  *)
(* implementation of it.                                                   *)

Fase ==
  [e \in Ids |-> IF e \notin usados THEN "novo"
                 ELSE IF e \notin Vivos THEN "removido"
                 ELSE IF e \in semRevisao THEN "pendente" ELSE "liberado"]

Publico == {e \in Vivos : eventos[e].status = "publicado"}

M == INSTANCE Moderacao WITH fase <- Fase, publico <- Publico

\* Whatever requests interleave, the table behaves as the moderation says:
\* a pending event is not public, leaves that phase by a decision or by being
\* removed, and what was removed does not come back.
ImplementsModeration == M!Spec
=============================================================================
