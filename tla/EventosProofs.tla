--------------------------- MODULE EventosProofs ----------------------------
(***************************************************************************)
(* Theorems about Eventos for any number of users, events and concurrent   *)
(* requests: type correctness, the review gate, ownership of edits, and    *)
(* the moderation (module Moderacao) implemented by the table.             *)
(***************************************************************************)
EXTENDS Eventos, FiniteSetTheorems, TLAPS

-----------------------------------------------------------------------------
(* What resolve_unique_slug guarantees for every base and every finite set *)
(* of used slugs.                                                          *)

\* Every non-empty set of naturals has a least element.
LEMMA LeastNatural ==
  ASSUME NEW S, S \subseteq Nat, S # {}
  PROVE  \E k \in S : \A j \in S : k <= j
<1> DEFINE Below(k) == 0 .. k - 1
           T == {Below(k) : k \in S}
           R == StrictSubsetOrdering(Nat)
<1>1. \A k \in S : Below(k) \in FiniteSubsetsOf(Nat)
  BY FS_Interval DEF FiniteSubsetsOf
<1>2. T \subseteq FiniteSubsetsOf(Nat) /\ T # {}
  BY <1>1
<1>3. PICK x \in T : \A y \in T : <<y, x>> \notin R
  BY <1>2, WFMin, FS_StrictSubsetOrderingWellFounded
<1>4. PICK k \in S : x = Below(k)
  OBVIOUS
<1>5. ASSUME NEW j \in S, j < k
      PROVE  FALSE
  <2>1. Below(j) \subseteq Below(k) /\ j \in Below(k) /\ j \notin Below(j)
    BY <1>5
  <2>2. <<Below(j), Below(k)>> \in R
    BY <1>1, <2>1 DEF StrictSubsetOrdering, FiniteSubsetsOf
  <2> QED BY <1>3, <1>4, <2>2
<1> QED BY <1>5

\* Among the suffixes 2 .. Cardinality(used) + 2 one is free: there is one
\* more of them than there are used slugs, and they give different slugs.
LEMMA SomeSuffixIsFree ==
  ASSUME NEW base \in Slug, NEW used, IsFiniteSet(used)
  PROVE  FreeSuffixes(base, used) # {}
<1> DEFINE n == Cardinality(used)
           K == 2 .. n + 2
           f == [k \in K |-> Append(base, k)]
<1>1. n \in Nat
  BY FS_CardinalityType
<1>2. SUFFICES ASSUME \A k \in K : Append(base, k) \in used
               PROVE  FALSE
  BY DEF FreeSuffixes
<1>3. Cardinality(K) = n + 1
  BY <1>1, FS_Interval
<1>4. \A j, k \in K : f[j] = f[k] => j = k
  BY <1>1 DEF Slug
<1>5. f \in Injection(K, used)
  BY <1>2, <1>4 DEF Injection, IsInjective
<1>6. Cardinality(K) <= n
  BY <1>5, FS_Injection
<1> QED BY <1>1, <1>3, <1>6

\* The slug returned is the base or the base with a numeric suffix from 2 on,
\* and nobody uses it.
THEOREM ResolvedSlugIsNew ==
  ASSUME NEW base \in Slug, NEW used, IsFiniteSet(used)
  PROVE  /\ ResolveUniqueSlug(base, used) \in Slug
         /\ ResolveUniqueSlug(base, used) \notin used
         /\ IsVariantOf(ResolveUniqueSlug(base, used), base)
<1> DEFINE k == LeastFreeSuffix(base, used)
<1>1. CASE base \notin used
  BY <1>1 DEF ResolveUniqueSlug, IsVariantOf
<1>2. CASE base \in used
  <2>1. Cardinality(used) \in Nat
    BY FS_CardinalityType
  <2>2. FreeSuffixes(base, used) \subseteq Nat
    BY <2>1 DEF FreeSuffixes
  <2>3. k \in FreeSuffixes(base, used)
    BY <2>2, SomeSuffixIsFree, LeastNatural DEF LeastFreeSuffix
  <2>4. k \in Nat /\ k >= 2 /\ Append(base, k) \notin used
    BY <2>1, <2>3 DEF FreeSuffixes
  <2>5. ResolveUniqueSlug(base, used) = Append(base, k)
    BY <1>2 DEF ResolveUniqueSlug
  <2>6. Append(base, k) \in Slug /\ IsVariantOf(Append(base, k), base)
    BY <2>4 DEF Slug, IsVariantOf, IsPrefix
  <2> QED BY <2>4, <2>5, <2>6
<1> QED BY <1>1, <1>2

-----------------------------------------------------------------------------
(* The inductive invariant.                                                *)

\* Why the gate holds: a publish or PUT of someone who may not review was
\* begun on a row out of review, so its event is no longer one that awaits
\* its first decision; and that set only grows by fresh identifiers.
GateInv ==
  \A q \in Requests : ~Idle(q) =>
    /\ req[q].op \in {"approve", "reject"} => req[q].papel \in REVIEW_ROLES
    /\ req[q].op = "create" /\ req[q].papel = "participante" =>
         req[q].novo.status = "em_analise"
    /\ req[q].op \in {"update", "publish"} /\ req[q].papel \notin REVIEW_ROLES =>
         req[q].alvo \notin semRevisao

\* Why ownership holds: created_by never changes, so the owner read is the
\* owner at the commit.
OwnerInv ==
  \A q \in Requests : ~Idle(q) /\ req[q].op # "create" =>
    /\ req[q].alvo \in Vivos =>
         req[q].lido.created_by = eventos[req[q].alvo].created_by
    /\ req[q].papel = "participante" => req[q].op = "update"
    /\ req[q].op = "update" /\ req[q].papel \in {"moderador", "participante"} =>
         req[q].lido.created_by = req[q].ator

IInv == TypeOK /\ ReviewBeforePublic /\ GateInv /\ OwnerInv

-----------------------------------------------------------------------------
(* The operators keep the types.                                           *)

LEMMA EditedIsRow ==
  ASSUME NEW linha \in Linha, NEW nome \in Nomes \cup {Nenhum},
         NEW status \in Statuses \cup {Nenhum}, NEW papel
  PROVE  /\ Edited(linha, nome, status, papel) \in Linha
         /\ Edited(linha, nome, status, papel).created_by = linha.created_by
BY StatusAssumption DEF Edited, Linha, EventoStatus

LEMMA FlushedIsRow ==
  ASSUME NEW atual \in Linha, NEW lido \in Linha, NEW novo \in Linha
  PROVE  /\ Flushed(atual, lido, novo) \in Linha
         /\ Flushed(atual, lido, novo).created_by = atual.created_by
BY DEF Flushed, Linha

LEMMA UsedSlugsFinite ==
  ASSUME TypeOK, NEW base, NEW excluido
  PROVE  IsFiniteSet(UsedSlugs(base, excluido))
<1> DEFINE E == Vivos \ {excluido}
           S == {eventos[e].slug : e \in E}
           f == [e \in E |-> eventos[e].slug]
<1>1. IsFiniteSet(E)
  BY IdsAssumption, FS_Subset DEF Vivos
<1>2. f \in Surjection(E, S)
  BY DEF Surjection
<1>3. IsFiniteSet(S)
  BY <1>1, <1>2, FS_Surjection
<1>4. UsedSlugs(base, excluido) \subseteq S
  BY DEF UsedSlugs, SlugsStartingWith
<1> QED BY <1>3, <1>4, FS_Subset

\* A step that only puts a well formed request in a slot keeps the types.
LEMMA RequestType ==
  ASSUME TypeOK, NEW q \in Requests, NEW rec \in Request,
         rec.pc = "nome" => rec.op = "update",
         rec.pc = "slug" => rec.op \in {"create", "update"},
         rec.op # "create" => rec.alvo \in usados /\ rec.lido \in Linha,
         req' = [req EXCEPT ![q] = rec],
         UNCHANGED <<eventos, usados, semRevisao>>
  PROVE  TypeOK'
<1>1. req'[q] = rec /\ \A k \in Requests \ {q} : req'[k] = req[k]
  BY DEF TypeOK
<1>2. ASSUME NEW k \in Requests
      PROVE  /\ At(k, "nome")' => req'[k].op = "update"
             /\ At(k, "slug")' => req'[k].op \in {"create", "update"}
             /\ ~Idle(k)' /\ req'[k].op # "create" =>
                  req'[k].alvo \in usados /\ req'[k].lido \in Linha
  <2>1. CASE k = q
    BY <1>1, <2>1 DEF At
  <2>2. CASE k # q
    BY <1>1, <2>2 DEF At, Idle, TypeOK
  <2> QED BY <2>1, <2>2
<1> QED BY <1>2 DEF TypeOK, Vivos

LEMMA StartType ==
  ASSUME TypeOK, NEW q \in Requests, NEW u \in Users, NEW r \in Role,
         NEW op \in Operation, NEW pc \in {"nome", "slug", "gravar"},
         NEW e \in Ids \cup {Nenhum}, NEW lido \in Linha \cup {Nenhum},
         NEW novo \in Linha,
         pc = "nome" => op = "update",
         pc = "slug" => op \in {"create", "update"},
         op # "create" => e \in usados /\ lido \in Linha,
         Start(q, op, pc, u, r, e, lido, novo),
         UNCHANGED <<eventos, usados, semRevisao>>
  PROVE  TypeOK'
<1> DEFINE rec == [op |-> op, pc |-> pc, ator |-> u, papel |-> r, alvo |-> e,
                   lido |-> lido, novo |-> novo]
<1>1. rec \in Request
  BY DEF Request
<1> QED BY <1>1, RequestType DEF Start

-----------------------------------------------------------------------------
(* Type correctness.                                                       *)

LEMMA InitType == Init => TypeOK
BY DEF Init, TypeOK, Vivos, At, Idle

LEMMA NextType == TypeOK /\ [Next]_vars => TypeOK'
<1> SUFFICES ASSUME TypeOK, [Next]_vars PROVE TypeOK'
  OBVIOUS
<1>1. ASSUME NEW q \in Requests, EnsureUniqueName(q) PROVE TypeOK'
  <2> DEFINE pc == IF req[q].novo.nome # req[q].lido.nome THEN "slug" ELSE "gravar"
             rec == [req[q] EXCEPT !.pc = pc]
  <2>1. req[q] \in Request /\ req[q].op = "update"
        /\ req[q].alvo \in usados /\ req[q].lido \in Linha
    BY <1>1 DEF TypeOK, EnsureUniqueName, At, Idle
  <2>2. rec \in Request /\ rec.op = "update" /\ rec.pc # "nome"
        /\ rec.alvo = req[q].alvo /\ rec.lido = req[q].lido
    BY <2>1 DEF Request
  <2>3. req' = [req EXCEPT ![q] = rec]
    BY <1>1 DEF EnsureUniqueName
  <2>4. UNCHANGED <<eventos, usados, semRevisao>>
    BY <1>1 DEF EnsureUniqueName
  <2> HIDE DEF rec
  <2> QED BY <2>1, <2>2, <2>3, <2>4, RequestType
<1>2. ASSUME NEW q \in Requests, ResolveSlug(q) PROVE TypeOK'
  <2> DEFINE base == SlugBase[req[q].novo.nome]
             slug == ResolveUniqueSlug(base, UsedSlugs(base, req[q].alvo))
             rec == [req[q] EXCEPT !.pc = "gravar", !.novo.slug = slug]
  <2>1. /\ req[q] \in Request
        /\ req[q].op # "create" => req[q].alvo \in usados /\ req[q].lido \in Linha
    BY <1>2 DEF TypeOK, ResolveSlug, At, Idle
  <2>2. slug \in Slug
    BY <2>1, SlugAssumption, UsedSlugsFinite, ResolvedSlugIsNew DEF Request, Linha
  <2>3. req' = [req EXCEPT ![q] = rec]
    BY <1>2 DEF ResolveSlug
  <2>4. UNCHANGED <<eventos, usados, semRevisao>>
    BY <1>2 DEF ResolveSlug
  <2> HIDE DEF slug
  <2>5. /\ rec \in Request /\ rec.pc = "gravar" /\ rec.op = req[q].op
        /\ rec.alvo = req[q].alvo /\ rec.lido = req[q].lido
    BY <2>1, <2>2 DEF Request, Linha
  <2> HIDE DEF rec
  <2> QED BY <2>1, <2>3, <2>4, <2>5, RequestType
<1>3. ASSUME NEW q \in Requests, NEW e \in Ids, RepoCreate(q, e) PROVE TypeOK'
  <2>1. req[q].novo \in Linha
    BY <1>3 DEF TypeOK, RepoCreate, At, Request
  <2> QED BY <1>3, <2>1 DEF TypeOK, RepoCreate, At, Idle, Vivos
<1>4. ASSUME NEW q \in Requests, RepoUpdate(q) PROVE TypeOK'
  <2> DEFINE e == req[q].alvo
             linha == Flushed(eventos[e], req[q].lido, req[q].novo)
  <2>1. /\ e \in Vivos /\ e \in Ids /\ eventos[e] \in Linha
        /\ req[q].lido \in Linha /\ req[q].novo \in Linha
    BY <1>4 DEF TypeOK, RepoUpdate, At, Idle, Request, Vivos
  <2>2. linha \in Linha
    BY <2>1, FlushedIsRow
  <2>3. eventos' = [eventos EXCEPT ![e] = linha] /\ semRevisao' \subseteq semRevisao
    BY <1>4 DEF RepoUpdate
  <2> HIDE DEF linha
  <2> QED BY <1>4, <2>1, <2>2, <2>3 DEF TypeOK, RepoUpdate, At, Idle, Vivos
<1>5. ASSUME NEW q \in Requests, RepoDelete(q) PROVE TypeOK'
  BY <1>5 DEF TypeOK, RepoDelete, At, Idle, Vivos
<1>6. ASSUME NEW q \in Requests, RequestEnds(q) PROVE TypeOK'
  BY <1>6 DEF TypeOK, RequestEnds, At, Idle, Vivos
<1>7. ASSUME NEW q \in Requests, NEW u \in Users, NEW r \in RolesOf[u],
             NEW nome \in Nomes, NEW status \in Statuses,
             CreateEvent(q, u, r, nome, status)
      PROVE  TypeOK'
  <2> DEFINE novo == [nome |-> nome, slug |-> << >>,
                      status |-> InitialStatus(status, r),
                      motivo_recusa |-> Nenhum, created_by |-> u]
  <2>1. r \in Role
    BY RolesAssumption
  <2>2. novo \in Linha
    BY StatusAssumption DEF Linha, Slug, InitialStatus, EventoStatus
  <2> QED BY <1>7, <2>1, <2>2, StartType DEF CreateEvent, Operation
<1>8. ASSUME NEW q \in Requests, NEW u \in Users, NEW r \in RolesOf[u], NEW e \in Ids,
             \/ PublishEvent(q, u, r, e)
             \/ ApproveEvent(q, u, r, e)
             \/ DeleteEvent(q, u, r, e)
             \/ \E motivo \in Motivos : RejectEvent(q, u, r, e, motivo)
             \/ \E nome \in Nomes \cup {Nenhum}, status \in Statuses \cup {Nenhum} :
                  UpdateEvent(q, u, r, e, nome, status)
      PROVE  TypeOK'
  <2>1. r \in Role
    BY RolesAssumption
  <2>2. e \in Vivos /\ e \in usados /\ eventos[e] \in Linha
    BY <1>8 DEF TypeOK, Vivos, PublishEvent, ApproveEvent, DeleteEvent,
                RejectEvent, UpdateEvent
  <2>3. CASE PublishEvent(q, u, r, e)
    <3>1. [eventos[e] EXCEPT !.status = "publicado"] \in Linha
      BY <2>2 DEF Linha, EventoStatus
    <3> QED BY <2>1, <2>2, <2>3, <3>1, StartType DEF PublishEvent, Operation
  <2>4. CASE ApproveEvent(q, u, r, e)
    <3>1. [eventos[e] EXCEPT !.status = "publicado", !.motivo_recusa = Nenhum] \in Linha
      BY <2>2 DEF Linha, EventoStatus
    <3> QED BY <2>1, <2>2, <2>4, <3>1, StartType DEF ApproveEvent, Operation
  <2>5. CASE DeleteEvent(q, u, r, e)
    BY <2>1, <2>2, <2>5, StartType DEF DeleteEvent, Operation
  <2>6. ASSUME NEW motivo \in Motivos, RejectEvent(q, u, r, e, motivo)
        PROVE  TypeOK'
    <3>1. [eventos[e] EXCEPT !.status = "recusado", !.motivo_recusa = motivo] \in Linha
      BY <2>2 DEF Linha, EventoStatus
    <3> QED BY <2>1, <2>2, <2>6, <3>1, StartType DEF RejectEvent, Operation
  <2>7. ASSUME NEW nome \in Nomes \cup {Nenhum}, NEW status \in Statuses \cup {Nenhum},
               UpdateEvent(q, u, r, e, nome, status)
        PROVE  TypeOK'
    <3>1. Edited(eventos[e], nome, status, r) \in Linha
      BY <2>2, EditedIsRow
    <3> QED BY <2>1, <2>2, <2>7, <3>1, StartType DEF UpdateEvent, Operation
  <2> QED BY <1>8, <2>3, <2>4, <2>5, <2>6, <2>7
<1>9. CASE UNCHANGED vars
  BY <1>9 DEF TypeOK, vars, At, Idle, Vivos
<1> QED BY <1>1, <1>2, <1>3, <1>4, <1>5, <1>6, <1>7, <1>8, <1>9 DEF Next

\* Every reachable state is well typed; in particular every slug resolved is a
\* slug, and every request but a creation works on a row it has read.
THEOREM TypeCorrect == Spec => []TypeOK
BY InitType, NextType, PTL DEF Spec

-----------------------------------------------------------------------------
(* The inductive invariant is preserved.                                   *)

\* A step that fills the slot of q with rec leaves the rows alone: what has to
\* be shown is what GateInv and OwnerInv say of rec.
LEMMA SlotInv ==
  ASSUME IInv, NEW q \in Requests, NEW rec \in Request,
         req' = [req EXCEPT ![q] = rec],
         UNCHANGED <<eventos, usados, semRevisao>>,
         rec.op \in {"approve", "reject"} => rec.papel \in REVIEW_ROLES,
         rec.op = "create" /\ rec.papel = "participante" =>
           rec.novo.status = "em_analise",
         rec.op \in {"update", "publish"} /\ rec.papel \notin REVIEW_ROLES =>
           rec.alvo \notin semRevisao,
         rec.op # "create" =>
           /\ rec.alvo \in Vivos => rec.lido.created_by = eventos[rec.alvo].created_by
           /\ rec.papel = "participante" => rec.op = "update"
           /\ rec.op = "update" /\ rec.papel \in {"moderador", "participante"} =>
                rec.lido.created_by = rec.ator
  PROVE  ReviewBeforePublic' /\ GateInv' /\ OwnerInv'
<1>1. req'[q] = rec /\ \A k \in Requests \ {q} : req'[k] = req[k]
  BY DEF IInv, TypeOK
<1>2. ReviewBeforePublic'
  BY DEF IInv, ReviewBeforePublic, Vivos
<1>3. GateInv'
  BY <1>1 DEF IInv, GateInv, Idle
<1>4. OwnerInv'
  BY <1>1 DEF IInv, OwnerInv, Idle, Vivos
<1> QED BY <1>2, <1>3, <1>4

\* The same for a request that starts on the row it has just read.
LEMMA StartInv ==
  ASSUME IInv, NEW q \in Requests, NEW u \in Users, NEW r \in Role,
         NEW op \in Operation \ {"create"}, NEW pc \in {"nome", "slug", "gravar"},
         NEW e \in Vivos, NEW novo \in Linha,
         Start(q, op, pc, u, r, e, eventos[e], novo),
         UNCHANGED <<eventos, usados, semRevisao>>,
         op \in {"approve", "reject"} => r \in REVIEW_ROLES,
         op \in {"update", "publish"} /\ r \notin REVIEW_ROLES =>
           eventos[e].status # "em_analise",
         r = "participante" => op = "update",
         op = "update" /\ r \in {"moderador", "participante"} =>
           eventos[e].created_by = u
  PROVE  ReviewBeforePublic' /\ GateInv' /\ OwnerInv'
<1> DEFINE rec == [op |-> op, pc |-> pc, ator |-> u, papel |-> r, alvo |-> e,
                   lido |-> eventos[e], novo |-> novo]
<1>1. rec \in Request
  BY DEF Request, IInv, TypeOK, Vivos
<1>2. req' = [req EXCEPT ![q] = rec]
  BY DEF Start
<1>3. op \in {"update", "publish"} /\ r \notin REVIEW_ROLES => e \notin semRevisao
  BY DEF IInv, ReviewBeforePublic
<1> QED BY <1>1, <1>2, <1>3, SlotInv

\* A commit frees the slot of q; the other requests keep what they hold.
LEMMA NextInv == IInv /\ [Next]_vars => IInv'
<1> SUFFICES ASSUME IInv, [Next]_vars
             PROVE  ReviewBeforePublic' /\ GateInv' /\ OwnerInv'
  BY NextType DEF IInv
<1> USE DEF IInv
<1>1. ASSUME NEW q \in Requests, EnsureUniqueName(q)
      PROVE  ReviewBeforePublic' /\ GateInv' /\ OwnerInv'
  <2> DEFINE pc == IF req[q].novo.nome # req[q].lido.nome THEN "slug" ELSE "gravar"
             rec == [req[q] EXCEPT !.pc = pc]
  <2>1. ~Idle(q) /\ req[q] \in Request
    BY <1>1 DEF TypeOK, EnsureUniqueName, At, Idle
  <2>2. /\ rec \in Request /\ rec.op = req[q].op /\ rec.papel = req[q].papel
        /\ rec.ator = req[q].ator /\ rec.alvo = req[q].alvo
        /\ rec.lido = req[q].lido /\ rec.novo = req[q].novo
    BY <2>1 DEF Request
  <2>3. req' = [req EXCEPT ![q] = rec] /\ UNCHANGED <<eventos, usados, semRevisao>>
    BY <1>1 DEF EnsureUniqueName
  <2> HIDE DEF rec
  <2>4. /\ rec.op \in {"approve", "reject"} => rec.papel \in REVIEW_ROLES
        /\ rec.op = "create" /\ rec.papel = "participante" =>
             rec.novo.status = "em_analise"
        /\ rec.op \in {"update", "publish"} /\ rec.papel \notin REVIEW_ROLES =>
             rec.alvo \notin semRevisao
    BY <2>1, <2>2 DEF GateInv
  <2>5. rec.op # "create" =>
          /\ rec.alvo \in Vivos => rec.lido.created_by = eventos[rec.alvo].created_by
          /\ rec.papel = "participante" => rec.op = "update"
          /\ rec.op = "update" /\ rec.papel \in {"moderador", "participante"} =>
               rec.lido.created_by = rec.ator
    BY <2>1, <2>2 DEF OwnerInv
  <2> QED BY <2>2, <2>3, <2>4, <2>5, SlotInv
<1>2. ASSUME NEW q \in Requests, ResolveSlug(q)
      PROVE  ReviewBeforePublic' /\ GateInv' /\ OwnerInv'
  <2> DEFINE base == SlugBase[req[q].novo.nome]
             slug == ResolveUniqueSlug(base, UsedSlugs(base, req[q].alvo))
             rec == [req[q] EXCEPT !.pc = "gravar", !.novo.slug = slug]
  <2>1. ~Idle(q) /\ req[q] \in Request
    BY <1>2 DEF TypeOK, ResolveSlug, At, Idle
  <2>2. slug \in Slug
    BY <2>1, SlugAssumption, UsedSlugsFinite, ResolvedSlugIsNew DEF Request, Linha
  <2>3. req' = [req EXCEPT ![q] = rec] /\ UNCHANGED <<eventos, usados, semRevisao>>
    BY <1>2 DEF ResolveSlug
  <2> HIDE DEF slug
  <2>4. /\ rec \in Request /\ rec.op = req[q].op /\ rec.papel = req[q].papel
        /\ rec.ator = req[q].ator /\ rec.alvo = req[q].alvo
        /\ rec.lido = req[q].lido /\ rec.novo.status = req[q].novo.status
    BY <2>1, <2>2 DEF Request, Linha
  <2> HIDE DEF rec
  <2>5. /\ rec.op \in {"approve", "reject"} => rec.papel \in REVIEW_ROLES
        /\ rec.op = "create" /\ rec.papel = "participante" =>
             rec.novo.status = "em_analise"
        /\ rec.op \in {"update", "publish"} /\ rec.papel \notin REVIEW_ROLES =>
             rec.alvo \notin semRevisao
    BY <2>1, <2>4 DEF GateInv
  <2>6. rec.op # "create" =>
          /\ rec.alvo \in Vivos => rec.lido.created_by = eventos[rec.alvo].created_by
          /\ rec.papel = "participante" => rec.op = "update"
          /\ rec.op = "update" /\ rec.papel \in {"moderador", "participante"} =>
               rec.lido.created_by = rec.ator
    BY <2>1, <2>4 DEF OwnerInv
  <2> QED BY <2>3, <2>4, <2>5, <2>6, SlotInv
<1>3. ASSUME NEW q \in Requests, NEW e \in Ids, RepoCreate(q, e)
      PROVE  ReviewBeforePublic' /\ GateInv' /\ OwnerInv'
  <2>1. /\ req[q] \in Request /\ ~Idle(q) /\ req[q].op = "create" /\ e \notin usados
        /\ req'[q] = Nenhum /\ \A k \in Requests \ {q} : req'[k] = req[k]
    BY <1>3 DEF RepoCreate, At, Idle, TypeOK
  <2>2. /\ eventos'[e] = req[q].novo
        /\ \A i \in Ids \ {e} : eventos'[i] = eventos[i]
    BY <1>3 DEF RepoCreate, TypeOK
  <2>3. /\ semRevisao' \subseteq semRevisao \cup {e}
        /\ req[q].papel # "participante" => semRevisao' = semRevisao
        /\ e \notin semRevisao
    BY <1>3, <2>1 DEF RepoCreate, TypeOK
  <2>4. \A k \in Requests : ~Idle(k) /\ req[k].op # "create" => req[k].alvo # e
    BY <2>1 DEF TypeOK
  <2>5. ReviewBeforePublic'
    BY <2>1, <2>2, <2>3 DEF ReviewBeforePublic, GateInv, Vivos
  <2>6. GateInv'
    BY <2>1, <2>3, <2>4 DEF GateInv, Idle
  <2>7. OwnerInv'
    BY <2>1, <2>2, <2>4 DEF OwnerInv, Idle, Vivos
  <2> QED BY <2>5, <2>6, <2>7
<1>4. ASSUME NEW q \in Requests, RepoUpdate(q)
      PROVE  ReviewBeforePublic' /\ GateInv' /\ OwnerInv'
  <2> DEFINE e == req[q].alvo
             linha == Flushed(eventos[e], req[q].lido, req[q].novo)
  <2>1. /\ req[q] \in Request /\ ~Idle(q) /\ req[q].op \in Operation \ {"create", "delete"}
        /\ e \in Vivos /\ e \in Ids /\ eventos[e] \in Linha
        /\ req[q].lido \in Linha /\ req[q].novo \in Linha
        /\ req'[q] = Nenhum /\ \A k \in Requests \ {q} : req'[k] = req[k]
    BY <1>4 DEF RepoUpdate, At, Idle, TypeOK, Request, Vivos
  <2>2. /\ eventos'[e] = linha
        /\ \A i \in Ids \ {e} : eventos'[i] = eventos[i]
    BY <1>4, <2>1 DEF RepoUpdate, TypeOK
  <2>3. linha \in Linha /\ linha.created_by = eventos[e].created_by
    BY <2>1, FlushedIsRow
  <2>4. /\ semRevisao' \subseteq semRevisao
        /\ req[q].papel \in REVIEW_ROLES /\ linha.status # eventos[e].status =>
             e \notin semRevisao'
    BY <1>4 DEF RepoUpdate
  <2> HIDE DEF linha
  <2>5. req[q].papel \notin REVIEW_ROLES => e \notin semRevisao
    BY <2>1 DEF GateInv, Operation
  <2>6. ReviewBeforePublic'
    BY <2>1, <2>2, <2>4, <2>5 DEF ReviewBeforePublic, Vivos
  <2>7. GateInv'
    BY <2>1, <2>4 DEF GateInv, Idle
  <2>8. OwnerInv'
    BY <2>1, <2>2, <2>3 DEF OwnerInv, Idle, Vivos
  <2> QED BY <2>6, <2>7, <2>8
<1>5. ASSUME NEW q \in Requests, RepoDelete(q)
      PROVE  ReviewBeforePublic' /\ GateInv' /\ OwnerInv'
  <2>1. /\ req'[q] = Nenhum /\ \A k \in Requests \ {q} : req'[k] = req[k]
        /\ \A i \in Ids : eventos'[i] \in {eventos[i], Nenhum}
        /\ semRevisao' = semRevisao
    BY <1>5 DEF RepoDelete, TypeOK
  <2> QED BY <2>1 DEF ReviewBeforePublic, GateInv, OwnerInv, Idle, Vivos
<1>6. ASSUME NEW q \in Requests, RequestEnds(q)
      PROVE  ReviewBeforePublic' /\ GateInv' /\ OwnerInv'
  BY <1>6 DEF RequestEnds, TypeOK, ReviewBeforePublic, GateInv, OwnerInv, Idle, Vivos
<1>7. ASSUME NEW q \in Requests, NEW u \in Users, NEW r \in RolesOf[u],
             NEW nome \in Nomes, NEW status \in Statuses,
             CreateEvent(q, u, r, nome, status)
      PROVE  ReviewBeforePublic' /\ GateInv' /\ OwnerInv'
  <2> DEFINE novo == [nome |-> nome, slug |-> << >>,
                      status |-> InitialStatus(status, r),
                      motivo_recusa |-> Nenhum, created_by |-> u]
             rec == [op |-> "create", pc |-> "slug", ator |-> u, papel |-> r,
                     alvo |-> Nenhum, lido |-> Nenhum, novo |-> novo]
  <2>1. novo \in Linha /\ r \in Role
    BY RolesAssumption, StatusAssumption DEF Linha, Slug, InitialStatus, EventoStatus
  <2>2. r = "participante" => novo.status = "em_analise"
    BY DEF InitialStatus
  <2> HIDE DEF novo
  <2>3. rec \in Request
    BY <2>1 DEF Request, Operation
  <2>4. req' = [req EXCEPT ![q] = rec] /\ UNCHANGED <<eventos, usados, semRevisao>>
    BY <1>7 DEF CreateEvent, Start, novo
  <2> QED BY <2>2, <2>3, <2>4, SlotInv
<1>8. ASSUME NEW q \in Requests, NEW u \in Users, NEW r \in RolesOf[u], NEW e \in Ids,
             \/ PublishEvent(q, u, r, e)
             \/ ApproveEvent(q, u, r, e)
             \/ DeleteEvent(q, u, r, e)
             \/ \E motivo \in Motivos : RejectEvent(q, u, r, e, motivo)
             \/ \E nome \in Nomes \cup {Nenhum}, status \in Statuses \cup {Nenhum} :
                  UpdateEvent(q, u, r, e, nome, status)
      PROVE  ReviewBeforePublic' /\ GateInv' /\ OwnerInv'
  <2>1. r \in Role
    BY RolesAssumption
  <2>2. e \in Vivos /\ eventos[e] \in Linha
    BY <1>8 DEF TypeOK, Vivos, PublishEvent, ApproveEvent, DeleteEvent,
                RejectEvent, UpdateEvent
  <2>3. CASE PublishEvent(q, u, r, e)
    <3>1. [eventos[e] EXCEPT !.status = "publicado"] \in Linha
      BY <2>2 DEF Linha, EventoStatus
    <3> QED BY <2>1, <2>2, <2>3, <3>1, StartInv
            DEF PublishEvent, Operation, RequirePermission, PERMISSIONS, Staff, Admins
  <2>4. CASE ApproveEvent(q, u, r, e)
    <3>1. [eventos[e] EXCEPT !.status = "publicado", !.motivo_recusa = Nenhum] \in Linha
      BY <2>2 DEF Linha, EventoStatus
    <3> QED BY <2>1, <2>2, <2>4, <3>1, StartInv
            DEF ApproveEvent, Operation, RequireRole, REVIEW_ROLES
  <2>5. CASE DeleteEvent(q, u, r, e)
    BY <2>1, <2>2, <2>5, StartInv
       DEF DeleteEvent, Operation, RequirePermission, PERMISSIONS, Staff, Admins
  <2>6. ASSUME NEW motivo \in Motivos, RejectEvent(q, u, r, e, motivo)
        PROVE  ReviewBeforePublic' /\ GateInv' /\ OwnerInv'
    <3>1. [eventos[e] EXCEPT !.status = "recusado", !.motivo_recusa = motivo] \in Linha
      BY <2>2 DEF Linha, EventoStatus
    <3> QED BY <2>1, <2>2, <2>6, <3>1, StartInv
            DEF RejectEvent, Operation, RequireRole, REVIEW_ROLES
  <2>7. ASSUME NEW nome \in Nomes \cup {Nenhum}, NEW status \in Statuses \cup {Nenhum},
               UpdateEvent(q, u, r, e, nome, status)
        PROVE  ReviewBeforePublic' /\ GateInv' /\ OwnerInv'
    <3>1. Edited(eventos[e], nome, status, r) \in Linha
      BY <2>2, EditedIsRow
    <3>2. /\ r \notin REVIEW_ROLES => eventos[e].status # "em_analise"
          /\ r \in {"moderador", "participante"} => eventos[e].created_by = u
      BY <2>7 DEF UpdateEvent, CanUpdate
    <3> QED BY <2>1, <2>2, <2>7, <3>1, <3>2, StartInv DEF UpdateEvent, Operation
  <2> QED BY <1>8, <2>3, <2>4, <2>5, <2>6, <2>7
<1>9. CASE UNCHANGED vars
  BY <1>9 DEF vars, ReviewBeforePublic, GateInv, OwnerInv, Idle, Vivos
<1> QED BY <1>1, <1>2, <1>3, <1>4, <1>5, <1>6, <1>7, <1>8, <1>9 DEF Next

LEMMA InitInv == Init => IInv
BY InitType DEF Init, IInv, ReviewBeforePublic, GateInv, OwnerInv, Idle

LEMMA Invariant == Spec => []IInv
BY InitInv, NextInv, PTL DEF Spec

\* An event sent by a participant is never public before a reviewer decides,
\* however many requests interleave.
THEOREM ReviewGate == Spec => []ReviewBeforePublic
BY Invariant, PTL DEF IInv

-----------------------------------------------------------------------------
(* Who changes whose rows.                                                 *)

\* Only the three commits touch the table.
LEMMA CommitsOnly ==
  ASSUME [Next]_vars
  PROVE  \/ UNCHANGED <<eventos, usados, semRevisao>>
         \/ \E q \in Requests : \/ \E e \in Ids : RepoCreate(q, e)
                                \/ RepoUpdate(q)
                                \/ RepoDelete(q)
<1>1. CASE UNCHANGED vars
  BY <1>1 DEF vars
<1>2. ASSUME NEW q \in Requests,
             \/ EnsureUniqueName(q) \/ ResolveSlug(q) \/ RequestEnds(q)
      PROVE  UNCHANGED <<eventos, usados, semRevisao>>
  BY <1>2 DEF EnsureUniqueName, ResolveSlug, RequestEnds
<1>3. ASSUME NEW q \in Requests, NEW u \in Users, NEW r \in RolesOf[u],
             NEW nome \in Nomes, NEW status \in Statuses,
             CreateEvent(q, u, r, nome, status)
      PROVE  UNCHANGED <<eventos, usados, semRevisao>>
  BY <1>3 DEF CreateEvent
<1>4. ASSUME NEW q \in Requests, NEW u \in Users, NEW r \in RolesOf[u], NEW e \in Ids,
             \/ PublishEvent(q, u, r, e)
             \/ ApproveEvent(q, u, r, e)
             \/ DeleteEvent(q, u, r, e)
             \/ \E motivo \in Motivos : RejectEvent(q, u, r, e, motivo)
             \/ \E nome \in Nomes \cup {Nenhum}, status \in Statuses \cup {Nenhum} :
                  UpdateEvent(q, u, r, e, nome, status)
      PROVE  UNCHANGED <<eventos, usados, semRevisao>>
  BY <1>4 DEF PublishEvent, ApproveEvent, DeleteEvent, RejectEvent, UpdateEvent
<1> QED BY <1>1, <1>2, <1>3, <1>4 DEF Next

LEMMA OwnStep ==
  ASSUME IInv, [Next]_vars, NEW q \in Requests, NEW e \in Vivos,
         Answered(q), eventos'[e] # eventos[e],
         \/ req[q].papel = "participante"
         \/ req[q].papel = "moderador" /\ req[q].op = "update"
  PROVE  eventos[e].created_by = req[q].ator
<1> USE DEF IInv
<1>1. ~Idle(q) /\ req[q] \in Request /\ req'[q] = Nenhum /\ e \in Ids
  BY DEF Answered, Idle, TypeOK, Vivos
<1>2. req[q].op \in {"create", "update"}
  BY <1>1 DEF OwnerInv
<1>3. UNCHANGED <<eventos, usados, semRevisao>>
      \/ \E k \in Requests : \/ \E i \in Ids : RepoCreate(k, i)
                            \/ RepoUpdate(k)
                            \/ RepoDelete(k)
  BY CommitsOnly
<1>4. ASSUME NEW k \in Requests, NEW i \in Ids, RepoCreate(k, i) PROVE FALSE
  <2>1. i # e
    BY <1>4 DEF RepoCreate, TypeOK
  <2> QED BY <1>4, <2>1 DEF RepoCreate, TypeOK
<1>5. ASSUME NEW k \in Requests, RepoUpdate(k) PROVE eventos[e].created_by = req[q].ator
  <2>1. k = q
    BY <1>1, <1>5 DEF RepoUpdate, TypeOK, Idle
  <2>2. req[q].op = "update" /\ req[q].alvo = e
    BY <1>2, <1>5, <2>1 DEF RepoUpdate, TypeOK
  <2>3. req[q].lido.created_by = eventos[e].created_by
    BY <1>1, <2>2 DEF OwnerInv
  <2> QED BY <1>1, <2>2, <2>3 DEF OwnerInv
<1>6. ASSUME NEW k \in Requests, RepoDelete(k) PROVE FALSE
  <2>1. k = q
    BY <1>1, <1>6 DEF RepoDelete, TypeOK, Idle
  <2> QED BY <1>2, <1>6, <2>1 DEF RepoDelete
<1> QED BY <1>3, <1>4, <1>5, <1>6

\* A participant changes only rows of their own, and so does PUT of a
\* moderador, although the owner is checked long before the commit.
THEOREM Ownership == Spec => OnlyOwnEvents
<1>1. IInv /\ [Next]_vars =>
        [\A q \in Requests : \A e \in Vivos :
           /\ Answered(q)
           /\ eventos'[e] # eventos[e]
           /\ \/ req[q].papel = "participante"
              \/ req[q].papel = "moderador" /\ req[q].op = "update"
           => eventos[e].created_by = req[q].ator]_vars
  BY OwnStep
<1> QED BY <1>1, Invariant, PTL DEF Spec, OnlyOwnEvents

-----------------------------------------------------------------------------
(* The moderation is implemented.                                          *)

LEMMA InitModeration == Init => M!Init
BY DEF Init, M!Init, Fase, Publico, Vivos

LEMMA StepModeration == IInv /\ IInv' /\ [Next]_vars => [M!Next]_(M!vars)
<1> SUFFICES ASSUME IInv, IInv', [Next]_vars
             PROVE  (\E e \in Ids : \/ M!Submit(e) \/ M!Register(e) \/ M!Decide(e)
                                    \/ M!Edit(e) \/ M!Remove(e))
                    \/ (Fase' = Fase /\ Publico' = Publico)
  BY DEF M!Next, M!vars
<1> USE DEF IInv, M!Becomes, M!MayShow
<1>1. ASSUME NEW q \in Requests, NEW e \in Ids, RepoCreate(q, e)
      PROVE  M!Submit(e) \/ M!Register(e)
  <2>1. /\ req[q] \in Request /\ ~Idle(q) /\ req[q].op = "create" /\ e \notin usados
        /\ req[q].novo # Nenhum
    BY <1>1, NenhumAssumption DEF RepoCreate, At, Idle, TypeOK, Request
  <2>2. /\ eventos'[e] = req[q].novo /\ usados' = usados \cup {e}
        /\ \A i \in Ids \ {e} : eventos'[i] = eventos[i]
    BY <1>1 DEF RepoCreate, TypeOK
  <2>3. e \notin Vivos /\ Vivos' = Vivos \cup {e}
    BY <2>1, <2>2 DEF TypeOK, Vivos
  <2>4. Fase[e] = "novo"
    BY <2>1 DEF Fase
  <2>5. CASE req[q].papel = "participante"
    <3>1. semRevisao' = semRevisao \cup {e} /\ req[q].novo.status = "em_analise"
      BY <1>1, <2>1, <2>5 DEF RepoCreate, GateInv
    <3>2. Fase' = [Fase EXCEPT ![e] = "pendente"]
      BY <2>1, <2>2, <2>3, <3>1 DEF Fase
    <3>3. Publico' = Publico
      BY <2>2, <2>3, <3>1 DEF Publico, Vivos
    <3> QED BY <2>4, <3>2, <3>3 DEF M!Submit
  <2>6. CASE req[q].papel # "participante"
    <3>1. semRevisao' = semRevisao /\ e \notin semRevisao
      BY <1>1, <2>1, <2>6 DEF RepoCreate, TypeOK
    <3>2. Fase' = [Fase EXCEPT ![e] = "liberado"]
      BY <2>1, <2>2, <2>3, <3>1 DEF Fase
    <3>3. Publico' \in {Publico \cup {e}, Publico \ {e}}
      BY <2>2, <2>3 DEF Publico, Vivos
    <3> QED BY <2>4, <3>2, <3>3 DEF M!Register
  <2> QED BY <2>5, <2>6
<1>2. ASSUME NEW q \in Requests, RepoUpdate(q)
      PROVE  \/ M!Decide(req[q].alvo) \/ M!Edit(req[q].alvo)
             \/ (Fase' = Fase /\ Publico' = Publico)
  <2> DEFINE e == req[q].alvo
  <2>1. /\ ~Idle(q) /\ e \in Vivos /\ e \in Ids /\ e \in usados
        /\ usados' = usados /\ semRevisao' \in {semRevisao, semRevisao \ {e}}
        /\ \A i \in Ids \ {e} : eventos'[i] = eventos[i]
    BY <1>2 DEF RepoUpdate, At, Idle, TypeOK, Vivos
  <2>2. eventos'[e] \in Linha /\ eventos'[e] # Nenhum /\ Vivos' = Vivos
    <3>1. req[q].lido \in Linha /\ req[q].novo \in Linha /\ eventos[e] \in Linha
      BY <1>2, <2>1 DEF RepoUpdate, TypeOK, Idle, Request, Vivos
    <3>2. eventos'[e] = Flushed(eventos[e], req[q].lido, req[q].novo)
      BY <1>2, <2>1 DEF RepoUpdate, TypeOK
    <3> QED BY <2>1, <3>1, <3>2, FlushedIsRow, NenhumAssumption DEF Vivos
  <2>3. Publico' \in {Publico \cup {e}, Publico \ {e}}
    BY <2>1, <2>2 DEF Publico, Vivos
  <2>4. CASE e \notin semRevisao
    <3>1. Fase[e] = "liberado"
      BY <2>1, <2>4 DEF Fase, Vivos
    <3>2. Fase' = Fase
      BY <2>1, <2>2, <2>4 DEF Fase, Vivos
    <3> QED BY <2>3, <3>1, <3>2 DEF M!Edit
  <2>5. CASE e \in semRevisao /\ e \in semRevisao'
    <3>1. eventos[e].status = "em_analise" /\ eventos'[e].status = "em_analise"
      BY <2>1, <2>2, <2>5 DEF ReviewBeforePublic
    <3>2. Fase' = Fase
      BY <2>1, <2>2, <2>5 DEF Fase, Vivos
    <3>3. Publico' = Publico
      BY <2>1, <2>2, <3>1 DEF Publico, Vivos
    <3> QED BY <3>2, <3>3
  <2>6. CASE e \in semRevisao /\ e \notin semRevisao'
    <3>1. Fase[e] = "pendente"
      BY <2>1, <2>6 DEF Fase, Vivos
    <3>2. Fase' = [Fase EXCEPT ![e] = "liberado"]
      BY <2>1, <2>2, <2>6 DEF Fase, Vivos
    <3> QED BY <2>3, <3>1, <3>2 DEF M!Decide
  <2> QED BY <2>4, <2>5, <2>6
<1>3. ASSUME NEW q \in Requests, RepoDelete(q)
      PROVE  M!Remove(req[q].alvo) \/ (Fase' = Fase /\ Publico' = Publico)
  <2> DEFINE e == req[q].alvo
  <2>1. /\ e \in Ids /\ e \in usados /\ usados' = usados /\ semRevisao' = semRevisao
        /\ eventos' = [eventos EXCEPT ![e] = Nenhum]
    BY <1>3 DEF RepoDelete, At, Idle, TypeOK
  <2>2. eventos'[e] = Nenhum /\ \A i \in Ids \ {e} : eventos'[i] = eventos[i]
    BY <2>1 DEF TypeOK
  <2>3. Publico' = Publico \ {e}
    BY <2>2 DEF Publico, Vivos
  <2>4. CASE eventos[e] = Nenhum
    <3>1. eventos' = eventos
      BY <2>1, <2>4 DEF TypeOK
    <3> QED BY <2>1, <3>1 DEF Fase, Publico, Vivos
  <2>5. CASE eventos[e] # Nenhum
    <3>1. Fase[e] \in {"pendente", "liberado"}
      BY <2>1, <2>5 DEF Fase, Vivos
    <3>2. Fase' = [Fase EXCEPT ![e] = "removido"]
      BY <2>1, <2>2 DEF Fase, Vivos
    <3> QED BY <2>3, <3>1, <3>2 DEF M!Remove
  <2> QED BY <2>4, <2>5
<1>4. ASSUME UNCHANGED <<eventos, usados, semRevisao>>
      PROVE  Fase' = Fase /\ Publico' = Publico
  BY <1>4 DEF Fase, Publico, Vivos
<1>5. \/ UNCHANGED <<eventos, usados, semRevisao>>
      \/ \E q \in Requests : \/ \E e \in Ids : RepoCreate(q, e)
                             \/ RepoUpdate(q)
                             \/ RepoDelete(q)
  BY CommitsOnly
<1>6. \A q \in Requests : RepoUpdate(q) \/ RepoDelete(q) => req[q].alvo \in Ids
  BY DEF RepoUpdate, RepoDelete, At, Idle, TypeOK, Vivos
<1> QED BY <1>1, <1>2, <1>3, <1>4, <1>5, <1>6

\* The table of events, with any number of concurrent requests, implements
\* the moderation that the platform promises.
THEOREM Moderated == Spec => ImplementsModeration
<1>1. Spec => M!Init
  BY InitModeration DEF Spec
<1>2. Spec => [][M!Next]_(M!vars)
  BY StepModeration, Invariant, PTL DEF Spec
<1> QED BY <1>1, <1>2, PTL DEF ImplementsModeration, M!Spec

-----------------------------------------------------------------------------
(* One request at a time: the row that a request read is still the row when *)
(* it commits, and what it looked up still holds.                          *)

OneAtATime == \A p, q \in Requests : p = q

\* The handlers' strip().lower() and the database's lower(trim()) agree.
NamesAgree == \A n \in Nomes : NormPy[n] = NormSQL[n]

SlugsDiffer == \A e, i \in Vivos : e # i => eventos[e].slug # eventos[i].slug

SlugsFitNames == \A e \in Vivos : IsVariantOf(eventos[e].slug, SlugBase[eventos[e].nome])

\* The row read, the slug about to be stored, and what the request decided.
UpToDate(r) ==
  /\ r.op = "create" => r.alvo = Nenhum
  /\ r.op # "create" => r.alvo \in Vivos /\ r.lido = eventos[r.alvo]
  /\ r.pc = "nome" => r.novo.slug = r.lido.slug
  /\ r.pc = "gravar" =>
       SlugFree(r.novo.slug, r.alvo) /\ IsVariantOf(r.novo.slug, SlugBase[r.novo.nome])
  /\ r.op = "approve" => r.novo.status = "publicado" /\ r.novo.motivo_recusa = Nenhum
  /\ r.op = "reject" => r.novo.status = "recusado"
  /\ r.op # "create" /\ r.papel = "participante" /\ r.lido.status \in {"publicado", "recusado"} =>
       r.novo.status = "em_analise"
  /\ r.op \in {"update", "publish"} /\ r.lido.status = "em_analise" => r.papel \in REVIEW_ROLES

SoloInv == SlugsDiffer /\ SlugsFitNames /\ \A q \in Requests : ~Idle(q) => UpToDate(req[q])

\* The name was free when it was looked up, and is.
SoloNames ==
  /\ NamesAreUnique
  /\ \A q \in Requests :
       ~Idle(q) /\ req[q].pc # "nome" => ~NameTaken(req[q].novo.nome, req[q].alvo)


\* A base is a prefix of every slug resolved from it, so that a slug which is
\* not among those with that prefix is nobody's.
LEMMA ResolvedSlugIsFree ==
  ASSUME TypeOK, NEW base \in Slug, NEW e
  PROVE  LET slug == ResolveUniqueSlug(base, UsedSlugs(base, e))
         IN  SlugFree(slug, e) /\ IsVariantOf(slug, base)
<1> DEFINE slug == ResolveUniqueSlug(base, UsedSlugs(base, e))
<1>1. slug \in Slug /\ slug \notin UsedSlugs(base, e) /\ IsVariantOf(slug, base)
  BY UsedSlugsFinite, ResolvedSlugIsNew
<1> HIDE DEF slug
<1>2. IsPrefix(base, slug)
  BY <1>1 DEF IsVariantOf, IsPrefix, Slug
<1>3. SlugFree(slug, e)
  BY <1>1, <1>2 DEF UsedSlugs, SlugsStartingWith, SlugFree
<1> QED BY <1>1, <1>3 DEF slug

\* A step that writes no row and leaves rec in the slot.
LEMMA SoloSlot ==
  ASSUME OneAtATime, TypeOK, SoloInv, NEW q \in Requests, NEW rec,
         req' = [req EXCEPT ![q] = rec], UNCHANGED eventos, UpToDate(rec)
  PROVE  SoloInv'
<1>1. req'[q] = rec /\ \A k \in Requests : k = q
  BY DEF OneAtATime, TypeOK
<1>2. SlugsDiffer' /\ SlugsFitNames'
  BY DEF SoloInv, SlugsDiffer, SlugsFitNames, Vivos
<1>3. UpToDate(req[q])'
  BY <1>1 DEF UpToDate, SlugFree, Vivos
<1> QED BY <1>1, <1>2, <1>3 DEF SoloInv

\* A commit leaves no request, so that only the rows are left to look at.
LEMMA SoloCommit ==
  ASSUME OneAtATime, TypeOK, NEW q \in Requests, req' = [req EXCEPT ![q] = Nenhum],
         SlugsDiffer', SlugsFitNames'
  PROVE  SoloInv'
BY DEF OneAtATime, TypeOK, SoloInv, Idle

LEMMA SoloNext == ASSUME OneAtATime PROVE IInv /\ SoloInv /\ [Next]_vars => SoloInv'
<1> SUFFICES ASSUME IInv, SoloInv, [Next]_vars PROVE SoloInv'
  OBVIOUS
<1> USE DEF IInv
<1>1. ASSUME NEW q \in Requests, EnsureUniqueName(q) PROVE SoloInv'
  <2> DEFINE pc == IF req[q].novo.nome # req[q].lido.nome THEN "slug" ELSE "gravar"
             rec == [req[q] EXCEPT !.pc = pc]
  <2>1. ~Idle(q) /\ req[q] \in Request /\ req[q].pc = "nome" /\ req[q].op = "update"
        /\ UpToDate(req[q])
    BY <1>1 DEF TypeOK, EnsureUniqueName, At, Idle, SoloInv
  <2>2. /\ rec.op = req[q].op /\ rec.papel = req[q].papel /\ rec.alvo = req[q].alvo
        /\ rec.lido = req[q].lido /\ rec.novo = req[q].novo /\ rec.pc = pc
    BY <2>1 DEF Request
  <2>3. req' = [req EXCEPT ![q] = rec] /\ UNCHANGED eventos
    BY <1>1 DEF EnsureUniqueName
  <2> HIDE DEF rec
  <2>4. pc = "gravar" => SlugFree(rec.novo.slug, rec.alvo)
                         /\ IsVariantOf(rec.novo.slug, SlugBase[rec.novo.nome])
    BY <2>1, <2>2 DEF UpToDate, SoloInv, SlugsDiffer, SlugsFitNames, SlugFree
  <2>5. UpToDate(rec)
    BY <2>1, <2>2, <2>4 DEF UpToDate
  <2> QED BY <2>3, <2>5, SoloSlot
<1>2. ASSUME NEW q \in Requests, ResolveSlug(q) PROVE SoloInv'
  <2> DEFINE base == SlugBase[req[q].novo.nome]
             slug == ResolveUniqueSlug(base, UsedSlugs(base, req[q].alvo))
             rec == [req[q] EXCEPT !.pc = "gravar", !.novo.slug = slug]
  <2>1. ~Idle(q) /\ req[q] \in Request /\ UpToDate(req[q])
        /\ req[q].op \in {"create", "update"}
    BY <1>2 DEF TypeOK, ResolveSlug, At, Idle, SoloInv
  <2>2. SlugFree(slug, req[q].alvo) /\ IsVariantOf(slug, base)
    BY <2>1, SlugAssumption, ResolvedSlugIsFree DEF Request, Linha
  <2>3. req' = [req EXCEPT ![q] = rec] /\ UNCHANGED eventos
    BY <1>2 DEF ResolveSlug
  <2> HIDE DEF slug
  <2>4. /\ rec.op = req[q].op /\ rec.papel = req[q].papel /\ rec.alvo = req[q].alvo
        /\ rec.lido = req[q].lido /\ rec.novo.status = req[q].novo.status
        /\ rec.novo.nome = req[q].novo.nome /\ rec.novo.slug = slug /\ rec.pc = "gravar"
    BY <2>1 DEF Request, Linha
  <2> HIDE DEF rec
  <2>5. UpToDate(rec)
    BY <2>1, <2>2, <2>4 DEF UpToDate
  <2> QED BY <2>3, <2>5, SoloSlot
<1>3. ASSUME NEW q \in Requests, NEW e \in Ids, RepoCreate(q, e) PROVE SoloInv'
  <2>1. /\ ~Idle(q) /\ req[q].op = "create" /\ req[q].pc = "gravar" /\ e \notin Vivos
        /\ req' = [req EXCEPT ![q] = Nenhum] /\ SlugFree(req[q].novo.slug, e)
        /\ eventos' = [eventos EXCEPT ![e] = req[q].novo]
    BY <1>3 DEF RepoCreate, At, Idle, TypeOK
  <2>2. IsVariantOf(req[q].novo.slug, SlugBase[req[q].novo.nome])
    BY <2>1 DEF SoloInv, UpToDate
  <2>3. eventos'[e] = req[q].novo /\ \A i \in Ids \ {e} : eventos'[i] = eventos[i]
    BY <2>1 DEF TypeOK
  <2>4. SlugsDiffer' /\ SlugsFitNames'
    BY <2>1, <2>2, <2>3 DEF SoloInv, SlugsDiffer, SlugsFitNames, SlugFree, Vivos
  <2> QED BY <2>1, <2>4, SoloCommit
<1>4. ASSUME NEW q \in Requests, RepoUpdate(q) PROVE SoloInv'
  <2> DEFINE e == req[q].alvo
             linha == Flushed(eventos[e], req[q].lido, req[q].novo)
  <2>1. /\ ~Idle(q) /\ req[q].op # "create" /\ req[q].pc = "gravar" /\ e \in Vivos /\ e \in Ids
        /\ req' = [req EXCEPT ![q] = Nenhum] /\ SlugFree(linha.slug, e)
        /\ eventos' = [eventos EXCEPT ![e] = linha]
    BY <1>4 DEF RepoUpdate, At, Idle, Vivos
  <2>2. /\ IsVariantOf(req[q].novo.slug, SlugBase[req[q].novo.nome])
        /\ req[q].lido = eventos[e]
    BY <2>1 DEF SoloInv, UpToDate
  <2>3. linha.slug = req[q].novo.slug /\ linha.nome = req[q].novo.nome
    BY <2>2 DEF Flushed
  <2>4. eventos'[e] = linha /\ \A i \in Ids \ {e} : eventos'[i] = eventos[i]
    BY <2>1 DEF TypeOK
  <2> HIDE DEF linha
  <2>5. SlugsDiffer' /\ SlugsFitNames'
    BY <2>1, <2>2, <2>3, <2>4 DEF SoloInv, SlugsDiffer, SlugsFitNames, SlugFree, Vivos
  <2> QED BY <2>1, <2>5, SoloCommit
<1>5. ASSUME NEW q \in Requests, RepoDelete(q) PROVE SoloInv'
  <2>1. /\ req' = [req EXCEPT ![q] = Nenhum]
        /\ \A i \in Ids : eventos'[i] \in {eventos[i], Nenhum}
    BY <1>5 DEF RepoDelete, TypeOK
  <2>2. SlugsDiffer' /\ SlugsFitNames'
    BY <2>1 DEF SoloInv, SlugsDiffer, SlugsFitNames, Vivos
  <2> QED BY <2>1, <2>2, SoloCommit
<1>6. ASSUME NEW q \in Requests, RequestEnds(q) PROVE SoloInv'
  <2>1. req' = [req EXCEPT ![q] = Nenhum] /\ UNCHANGED eventos
    BY <1>6 DEF RequestEnds
  <2>2. SlugsDiffer' /\ SlugsFitNames'
    BY <2>1 DEF SoloInv, SlugsDiffer, SlugsFitNames, Vivos
  <2> QED BY <2>1, <2>2, SoloCommit
<1>7. ASSUME NEW q \in Requests, NEW u \in Users, NEW r \in RolesOf[u],
             NEW nome \in Nomes, NEW status \in Statuses,
             CreateEvent(q, u, r, nome, status)
      PROVE  SoloInv'
  <2> DEFINE novo == [nome |-> nome, slug |-> << >>,
                      status |-> InitialStatus(status, r),
                      motivo_recusa |-> Nenhum, created_by |-> u]
             rec == [op |-> "create", pc |-> "slug", ator |-> u, papel |-> r,
                     alvo |-> Nenhum, lido |-> Nenhum, novo |-> novo]
  <2>1. req' = [req EXCEPT ![q] = rec] /\ UNCHANGED eventos
    BY <1>7 DEF CreateEvent, Start
  <2>2. UpToDate(rec)
    BY DEF UpToDate
  <2> QED BY <2>1, <2>2, SoloSlot
<1>8. ASSUME NEW q \in Requests, NEW u \in Users, NEW r \in RolesOf[u], NEW e \in Ids,
             \/ PublishEvent(q, u, r, e)
             \/ ApproveEvent(q, u, r, e)
             \/ DeleteEvent(q, u, r, e)
             \/ \E motivo \in Motivos : RejectEvent(q, u, r, e, motivo)
             \/ \E nome \in Nomes \cup {Nenhum}, status \in Statuses \cup {Nenhum} :
                  UpdateEvent(q, u, r, e, nome, status)
      PROVE  SoloInv'
  <2>1. e \in Vivos /\ eventos[e] \in Linha /\ UNCHANGED eventos
    BY <1>8 DEF TypeOK, Vivos, PublishEvent, ApproveEvent, DeleteEvent,
                RejectEvent, UpdateEvent
  <2>2. SlugFree(eventos[e].slug, e) /\ IsVariantOf(eventos[e].slug, SlugBase[eventos[e].nome])
    BY <2>1 DEF SoloInv, SlugsDiffer, SlugsFitNames, SlugFree
  <2>3. ASSUME NEW op \in {"publish", "approve", "reject", "delete"}, NEW novo,
               Start(q, op, "gravar", u, r, e, eventos[e], novo),
               novo.nome = eventos[e].nome, novo.slug = eventos[e].slug,
               r # "participante",
               op = "approve" => novo.status = "publicado" /\ novo.motivo_recusa = Nenhum,
               op = "reject" => novo.status = "recusado",
               op = "publish" => eventos[e].status # "em_analise"
        PROVE  SoloInv'
    <3> DEFINE rec == [op |-> op, pc |-> "gravar", ator |-> u, papel |-> r, alvo |-> e,
                       lido |-> eventos[e], novo |-> novo]
    <3>1. UpToDate(rec)
      BY <2>1, <2>2, <2>3 DEF UpToDate
    <3>2. req' = [req EXCEPT ![q] = rec]
      BY <2>3 DEF Start
    <3> QED BY <2>1, <3>1, <3>2, SoloSlot
  <2>4. CASE PublishEvent(q, u, r, e)
    BY <2>1, <2>3, <2>4 DEF PublishEvent, Linha, RequirePermission, PERMISSIONS, Staff, Admins
  <2>5. CASE ApproveEvent(q, u, r, e)
    <3> DEFINE novo == [eventos[e] EXCEPT !.status = "publicado", !.motivo_recusa = Nenhum]
    <3>1. /\ novo.nome = eventos[e].nome /\ novo.slug = eventos[e].slug
          /\ novo.status = "publicado" /\ novo.motivo_recusa = Nenhum
      BY <2>1 DEF Linha
    <3>2. Start(q, "approve", "gravar", u, r, e, eventos[e], novo) /\ r # "participante"
      BY <2>5 DEF ApproveEvent, RequireRole, REVIEW_ROLES
    <3> QED BY <2>3, <3>1, <3>2
  <2>6. CASE DeleteEvent(q, u, r, e)
    BY <2>1, <2>3, <2>6 DEF DeleteEvent, Linha, RequirePermission, PERMISSIONS, Staff, Admins
  <2>7. ASSUME NEW motivo \in Motivos, RejectEvent(q, u, r, e, motivo) PROVE SoloInv'
    <3> DEFINE novo == [eventos[e] EXCEPT !.status = "recusado", !.motivo_recusa = motivo]
    <3>1. /\ novo.nome = eventos[e].nome /\ novo.slug = eventos[e].slug
          /\ novo.status = "recusado"
      BY <2>1 DEF Linha
    <3>2. Start(q, "reject", "gravar", u, r, e, eventos[e], novo) /\ r # "participante"
      BY <2>7 DEF RejectEvent, RequireRole, REVIEW_ROLES
    <3> QED BY <2>3, <3>1, <3>2
  <2>8. ASSUME NEW nome \in Nomes \cup {Nenhum}, NEW status \in Statuses \cup {Nenhum},
               UpdateEvent(q, u, r, e, nome, status)
        PROVE  SoloInv'
    <3> DEFINE novo == Edited(eventos[e], nome, status, r)
               pc == IF nome = Nenhum THEN "gravar" ELSE "nome"
               rec == [op |-> "update", pc |-> pc, ator |-> u, papel |-> r, alvo |-> e,
                       lido |-> eventos[e], novo |-> novo]
    <3>1. req' = [req EXCEPT ![q] = rec] /\ CanUpdate(eventos[e], status, u, r)
      BY <2>8 DEF UpdateEvent, Start
    <3>2. /\ novo.slug = eventos[e].slug /\ (nome = Nenhum => novo.nome = eventos[e].nome)
          /\ BackToReview(eventos[e], r) => novo.status = "em_analise"
      BY <2>1 DEF Edited, Linha
    <3>3. pc = "gravar" => nome = Nenhum
      OBVIOUS
    <3> HIDE DEF novo, pc
    <3>4. UpToDate(rec)
      BY <2>1, <2>2, <3>1, <3>2, <3>3 DEF UpToDate, BackToReview, CanUpdate
    <3> QED BY <2>1, <3>1, <3>4, SoloSlot
  <2> QED BY <1>8, <2>4, <2>5, <2>6, <2>7, <2>8
<1>9. CASE UNCHANGED vars
  BY <1>9 DEF vars, SoloInv, SlugsDiffer, SlugsFitNames, UpToDate, SlugFree, Idle, Vivos
<1> QED BY <1>1, <1>2, <1>3, <1>4, <1>5, <1>6, <1>7, <1>8, <1>9 DEF Next

LEMMA SoloInvariant == ASSUME OneAtATime PROVE Spec => []SoloInv
<1>1. Init => SoloInv
  BY DEF Init, SoloInv, SlugsDiffer, SlugsFitNames, Vivos, Idle
<1> QED BY <1>1, SoloNext, Invariant, PTL DEF Spec

\* One request at a time: an event's slug is always that of its present name, and
\* a slug resolved can be stored, however names and suffixes collide.
THEOREM SlugsFollowNames == ASSUME OneAtATime PROVE Spec => []SlugFollowsName
<1>1. SoloInv => SlugFollowsName
  BY DEF SoloInv, SlugsFitNames, UpToDate, SlugFollowsName, At, Idle
<1> QED BY <1>1, SoloInvariant, PTL


\* What a commit of the only request stores is the row as that request wants it.
LEMMA SoloUpdate ==
  ASSUME TypeOK, SoloInv, NEW q \in Requests, RepoUpdate(q), NEW e \in Vivos, req[q].alvo = e
  PROVE  /\ UpToDate(req[q]) /\ req[q].lido = eventos[e]
         /\ eventos'[e].nome = req[q].novo.nome /\ eventos'[e].slug = req[q].novo.slug
         /\ eventos'[e].status = req[q].novo.status
         /\ eventos'[e].motivo_recusa = req[q].novo.motivo_recusa
<1>1. ~Idle(q) /\ req[q].op # "create"
  BY DEF RepoUpdate, At, Idle
<1>2. UpToDate(req[q]) /\ req[q].lido = eventos[e]
  BY <1>1 DEF SoloInv, UpToDate
<1>3. eventos'[e] = Flushed(eventos[e], req[q].lido, req[q].novo)
  BY DEF RepoUpdate, TypeOK, Vivos
<1> QED BY <1>2, <1>3 DEF Flushed

\* A step that answers the request on e and leaves e a row is its commit.
LEMMA AnsweredCommit ==
  ASSUME OneAtATime, IInv, [Next]_vars, NEW q \in Requests, NEW e \in Vivos,
         Answered(q), req[q].alvo = e, req[q].op # "create",
         eventos' # eventos, eventos'[e] # Nenhum
  PROVE  RepoUpdate(q)
<1>1. \A k \in Requests : k = q
  BY DEF OneAtATime
<1>2. ~(\E i \in Ids : RepoCreate(q, i)) /\ ~RepoDelete(q)
  BY DEF RepoCreate, RepoDelete, IInv, TypeOK, Vivos
<1> QED BY <1>1, <1>2, CommitsOnly

\* One request at a time: approve and reject are applied whole.
THEOREM DecisionsWhole == ASSUME OneAtATime PROVE Spec => DecisionsAreWhole
<1>1. IInv /\ SoloInv /\ [Next]_vars =>
        [\A q \in Requests : \A e \in Vivos :
           /\ Answered(q) /\ req[q].alvo = e
           /\ eventos' # eventos /\ eventos'[e] # Nenhum
           => /\ req[q].op = "approve" =>
                   /\ eventos'[e].status = "publicado"
                   /\ eventos'[e].motivo_recusa = Nenhum
              /\ req[q].op = "reject" =>
                   /\ eventos'[e].status = "recusado"
                   /\ eventos'[e].motivo_recusa = req[q].novo.motivo_recusa]_vars
  <2> SUFFICES ASSUME IInv, SoloInv, [Next]_vars, NEW q \in Requests, NEW e \in Vivos,
                      Answered(q), req[q].alvo = e, req[q].op \in {"approve", "reject"},
                      eventos' # eventos, eventos'[e] # Nenhum
               PROVE  /\ req[q].op = "approve" =>
                           /\ eventos'[e].status = "publicado"
                           /\ eventos'[e].motivo_recusa = Nenhum
                      /\ req[q].op = "reject" =>
                           /\ eventos'[e].status = "recusado"
                           /\ eventos'[e].motivo_recusa = req[q].novo.motivo_recusa
    OBVIOUS
  <2>1. RepoUpdate(q)
    BY AnsweredCommit
  <2> QED BY <2>1, SoloUpdate DEF IInv, UpToDate
<1> QED BY <1>1, Invariant, SoloInvariant, PTL DEF Spec, DecisionsAreWhole

\* One request at a time: a participant's edit of a decided event sends it back to
\* review, and only a reviewer's request takes an event out of review.
THEOREM EditsAreReviewed == ASSUME OneAtATime PROVE Spec => EditsReturnToReview
<1>1. IInv /\ SoloInv /\ [Next]_vars =>
        [\A q \in Requests : \A e \in Vivos :
           /\ Answered(q) /\ req[q].alvo = e
           /\ eventos' # eventos /\ eventos'[e] # Nenhum
           => /\ /\ req[q].papel = "participante"
                 /\ eventos[e].status \in {"publicado", "recusado"}
                 => eventos'[e].status = "em_analise"
              /\ /\ eventos[e].status = "em_analise"
                 /\ eventos'[e].status # "em_analise"
                 => req[q].papel \in REVIEW_ROLES]_vars
  <2> SUFFICES ASSUME IInv, SoloInv, [Next]_vars, NEW q \in Requests, NEW e \in Vivos,
                      Answered(q), req[q].alvo = e,
                      eventos' # eventos, eventos'[e] # Nenhum
               PROVE  /\ /\ req[q].papel = "participante"
                         /\ eventos[e].status \in {"publicado", "recusado"}
                         => eventos'[e].status = "em_analise"
                      /\ /\ eventos[e].status = "em_analise"
                         /\ eventos'[e].status # "em_analise"
                         => req[q].papel \in REVIEW_ROLES
    OBVIOUS
  <2>1. ~Idle(q) /\ req[q] \in Request /\ req[q].op # "create"
    BY NenhumAssumption DEF Answered, Idle, SoloInv, UpToDate, Vivos, IInv, TypeOK
  <2>2. RepoUpdate(q) /\ req[q].op # "delete"
    BY <2>1, AnsweredCommit DEF RepoUpdate
  <2>3. /\ UpToDate(req[q]) /\ req[q].lido = eventos[e]
        /\ eventos'[e].status = req[q].novo.status
    BY <2>2, SoloUpdate DEF IInv
  <2>4. req[q].op \in {"approve", "reject"} => req[q].papel \in REVIEW_ROLES
    BY <2>1 DEF IInv, GateInv
  <2>5. req[q].op \in {"update", "publish", "approve", "reject"}
    BY <2>1, <2>2 DEF Request, Operation
  <2> QED BY <2>1, <2>3, <2>4, <2>5 DEF UpToDate
<1> QED BY <1>1, Invariant, SoloInvariant, PTL DEF Spec, EditsReturnToReview

-----------------------------------------------------------------------------
(* Names, one request at a time.                                           *)

LEMMA SoloNamesSlot ==
  ASSUME OneAtATime, TypeOK, SoloNames, NEW q \in Requests, NEW rec,
         req' = [req EXCEPT ![q] = rec], UNCHANGED eventos,
         rec.pc # "nome" => ~NameTaken(rec.novo.nome, rec.alvo)
  PROVE  SoloNames'
<1>1. req'[q] = rec /\ \A k \in Requests : k = q
  BY DEF OneAtATime, TypeOK
<1> QED BY <1>1 DEF SoloNames, NamesAreUnique, NameTaken, Vivos, Idle

LEMMA SoloNamesNext ==
  ASSUME OneAtATime, NamesAgree
  PROVE  IInv /\ SoloInv /\ SoloNames /\ [Next]_vars => SoloNames'
<1> SUFFICES ASSUME IInv, SoloInv, SoloNames, [Next]_vars PROVE SoloNames'
  OBVIOUS
<1> USE DEF IInv
<1>1. ASSUME NEW e \in Vivos PROVE ~NameTaken(eventos[e].nome, e)
  BY <1>1 DEF SoloNames, NamesAreUnique, NameTaken, NamesAgree, TypeOK, Vivos, Linha
<1>2. ASSUME NEW q \in Requests, EnsureUniqueName(q) PROVE SoloNames'
  <2> DEFINE pc == IF req[q].novo.nome # req[q].lido.nome THEN "slug" ELSE "gravar"
             rec == [req[q] EXCEPT !.pc = pc]
  <2>1. ~Idle(q) /\ req[q] \in Request /\ ~NameTaken(req[q].novo.nome, req[q].alvo)
    BY <1>2 DEF TypeOK, EnsureUniqueName, At, Idle
  <2>2. rec.alvo = req[q].alvo /\ rec.novo = req[q].novo
    BY <2>1 DEF Request
  <2>3. req' = [req EXCEPT ![q] = rec] /\ UNCHANGED eventos
    BY <1>2 DEF EnsureUniqueName
  <2> HIDE DEF rec
  <2> QED BY <2>1, <2>2, <2>3, SoloNamesSlot
<1>3. ASSUME NEW q \in Requests, ResolveSlug(q) PROVE SoloNames'
  <2> DEFINE base == SlugBase[req[q].novo.nome]
             slug == ResolveUniqueSlug(base, UsedSlugs(base, req[q].alvo))
             rec == [req[q] EXCEPT !.pc = "gravar", !.novo.slug = slug]
  <2>1. ~Idle(q) /\ req[q] \in Request /\ req[q].pc # "nome"
    BY <1>3 DEF TypeOK, ResolveSlug, At, Idle
  <2>2. ~NameTaken(req[q].novo.nome, req[q].alvo)
    BY <2>1 DEF SoloNames
  <2>3. req' = [req EXCEPT ![q] = rec] /\ UNCHANGED eventos
    BY <1>3 DEF ResolveSlug
  <2> HIDE DEF slug
  <2>4. rec.alvo = req[q].alvo /\ rec.novo.nome = req[q].novo.nome
    BY <2>1 DEF Request, Linha
  <2> HIDE DEF rec
  <2> QED BY <2>2, <2>3, <2>4, SoloNamesSlot
<1>4. ASSUME NEW q \in Requests, req' = [req EXCEPT ![q] = Nenhum], NamesAreUnique'
      PROVE  SoloNames'
  BY <1>4 DEF OneAtATime, TypeOK, SoloNames, Idle
<1>5. ASSUME NEW q \in Requests, NEW e \in Ids, RepoCreate(q, e) PROVE SoloNames'
  <2>1. /\ ~Idle(q) /\ req[q].op = "create" /\ req[q].pc = "gravar" /\ req[q] \in Request
        /\ req' = [req EXCEPT ![q] = Nenhum] /\ eventos' = [eventos EXCEPT ![e] = req[q].novo]
    BY <1>5 DEF RepoCreate, At, Idle, TypeOK
  <2>2. ~NameTaken(req[q].novo.nome, Nenhum) /\ req[q].novo.nome \in Nomes
    BY <2>1 DEF SoloNames, SoloInv, UpToDate, Request, Linha
  <2>3. \A i \in Vivos : NormPy[eventos[i].nome] # NormPy[req[q].novo.nome]
    BY <2>2, NenhumAssumption DEF NameTaken, NamesAgree, TypeOK, Vivos, Linha
  <2>4. eventos'[e] = req[q].novo /\ \A i \in Ids \ {e} : eventos'[i] = eventos[i]
    BY <2>1 DEF TypeOK
  <2>5. NamesAreUnique'
    BY <2>3, <2>4 DEF SoloNames, NamesAreUnique, Vivos
  <2> QED BY <1>4, <2>1, <2>5
<1>6. ASSUME NEW q \in Requests, RepoUpdate(q) PROVE SoloNames'
  <2> DEFINE e == req[q].alvo
  <2>1. /\ ~Idle(q) /\ req[q].pc = "gravar" /\ e \in Vivos /\ req[q] \in Request
        /\ req' = [req EXCEPT ![q] = Nenhum]
    BY <1>6 DEF RepoUpdate, At, Idle, TypeOK
  <2>2. eventos'[e].nome = req[q].novo.nome /\ \A i \in Ids \ {e} : eventos'[i] = eventos[i]
    BY <1>6, <2>1, SoloUpdate DEF RepoUpdate, TypeOK
  <2>3. ~NameTaken(req[q].novo.nome, e) /\ req[q].novo.nome \in Nomes
    BY <2>1 DEF SoloNames, Request, Linha
  <2>4. \A i \in Vivos \ {e} : NormPy[eventos[i].nome] # NormPy[req[q].novo.nome]
    BY <2>3 DEF NameTaken, NamesAgree, TypeOK, Vivos, Linha
  <2>5. NamesAreUnique'
    BY <2>1, <2>2, <2>4 DEF SoloNames, NamesAreUnique, Vivos
  <2> QED BY <1>4, <2>1, <2>5
<1>7. ASSUME NEW q \in Requests, RepoDelete(q) PROVE SoloNames'
  <2>1. /\ req' = [req EXCEPT ![q] = Nenhum]
        /\ \A i \in Ids : eventos'[i] \in {eventos[i], Nenhum}
    BY <1>7 DEF RepoDelete, TypeOK
  <2>2. NamesAreUnique'
    BY <2>1 DEF SoloNames, NamesAreUnique, Vivos
  <2> QED BY <1>4, <2>1, <2>2
<1>8. ASSUME NEW q \in Requests, RequestEnds(q) PROVE SoloNames'
  <2>1. req' = [req EXCEPT ![q] = Nenhum] /\ NamesAreUnique'
    BY <1>8 DEF RequestEnds, SoloNames, NamesAreUnique, Vivos
  <2> QED BY <1>4, <2>1
<1>9. ASSUME NEW q \in Requests, NEW op, NEW pc, NEW u, NEW r, NEW alvo, NEW lido, NEW novo,
             Start(q, op, pc, u, r, alvo, lido, novo), UNCHANGED eventos,
             pc # "nome" => ~NameTaken(novo.nome, alvo)
      PROVE  SoloNames'
  <2> DEFINE rec == [op |-> op, pc |-> pc, ator |-> u, papel |-> r, alvo |-> alvo,
                     lido |-> lido, novo |-> novo]
  <2>1. req' = [req EXCEPT ![q] = rec] /\ rec.pc = pc /\ rec.novo = novo /\ rec.alvo = alvo
    BY <1>9 DEF Start
  <2> HIDE DEF rec
  <2> QED BY <1>9, <2>1, SoloNamesSlot
<1>10. ASSUME NEW q \in Requests, NEW u \in Users, NEW r \in RolesOf[u],
             NEW nome \in Nomes, NEW status \in Statuses,
             CreateEvent(q, u, r, nome, status)
      PROVE  SoloNames'
  BY <1>9, <1>10 DEF CreateEvent
<1>11. ASSUME NEW q \in Requests, NEW u \in Users, NEW r \in RolesOf[u], NEW e \in Ids,
             \/ PublishEvent(q, u, r, e)
             \/ ApproveEvent(q, u, r, e)
             \/ DeleteEvent(q, u, r, e)
             \/ \E motivo \in Motivos : RejectEvent(q, u, r, e, motivo)
             \/ \E nome \in Nomes \cup {Nenhum}, status \in Statuses \cup {Nenhum} :
                  UpdateEvent(q, u, r, e, nome, status)
      PROVE  SoloNames'
  <2>1. e \in Vivos /\ eventos[e] \in Linha /\ UNCHANGED eventos
    BY <1>11 DEF TypeOK, Vivos, PublishEvent, ApproveEvent, DeleteEvent,
                RejectEvent, UpdateEvent
  <2>2. ~NameTaken(eventos[e].nome, e)
    BY <1>1, <2>1
  <2>3. ASSUME NEW op, NEW novo, novo.nome = eventos[e].nome,
               Start(q, op, "gravar", u, r, e, eventos[e], novo)
        PROVE  SoloNames'
    BY <1>9, <2>1, <2>2, <2>3
  <2>4. CASE PublishEvent(q, u, r, e)
    BY <2>1, <2>3, <2>4 DEF PublishEvent, Linha
  <2>5. CASE ApproveEvent(q, u, r, e)
    <3> DEFINE novo == [eventos[e] EXCEPT !.status = "publicado", !.motivo_recusa = Nenhum]
    <3>1. novo.nome = eventos[e].nome /\ Start(q, "approve", "gravar", u, r, e, eventos[e], novo)
      BY <2>1, <2>5 DEF ApproveEvent, Linha
    <3> QED BY <2>3, <3>1
  <2>6. CASE DeleteEvent(q, u, r, e)
    BY <2>3, <2>6 DEF DeleteEvent
  <2>7. ASSUME NEW motivo \in Motivos, RejectEvent(q, u, r, e, motivo) PROVE SoloNames'
    <3> DEFINE novo == [eventos[e] EXCEPT !.status = "recusado", !.motivo_recusa = motivo]
    <3>1. novo.nome = eventos[e].nome /\ Start(q, "reject", "gravar", u, r, e, eventos[e], novo)
      BY <2>1, <2>7 DEF RejectEvent, Linha
    <3> QED BY <2>3, <3>1
  <2>8. ASSUME NEW nome \in Nomes \cup {Nenhum}, NEW status \in Statuses \cup {Nenhum},
               UpdateEvent(q, u, r, e, nome, status)
        PROVE  SoloNames'
    <3> DEFINE novo == Edited(eventos[e], nome, status, r)
               pc == IF nome = Nenhum THEN "gravar" ELSE "nome"
    <3>1. Start(q, "update", pc, u, r, e, eventos[e], novo)
      BY <2>8 DEF UpdateEvent
    <3>2. nome = Nenhum => novo.nome = eventos[e].nome
      BY <2>1 DEF Edited, Linha
    <3>3. pc # "nome" => nome = Nenhum
      OBVIOUS
    <3> HIDE DEF novo, pc
    <3> QED BY <1>9, <2>1, <2>2, <3>1, <3>2, <3>3
  <2> QED BY <1>11, <2>4, <2>5, <2>6, <2>7, <2>8
<1>12. CASE UNCHANGED vars
  BY <1>12 DEF vars, SoloNames, NamesAreUnique, NameTaken, Idle, Vivos
<1> QED BY <1>2, <1>3, <1>5, <1>6, <1>7, <1>8, <1>10, <1>11, <1>12 DEF Next

\* One request at a time, and where Python and the database agree on blanks and
\* case: no two events carry the same name.
THEOREM NamesStayUnique == ASSUME OneAtATime, NamesAgree PROVE Spec => []NamesAreUnique
<1>1. Init => SoloNames
  BY DEF Init, SoloNames, NamesAreUnique, Vivos, Idle
<1>2. SoloNames => NamesAreUnique
  BY DEF SoloNames
<1> QED BY <1>1, <1>2, SoloNamesNext, SoloInvariant, Invariant, PTL DEF Spec

=============================================================================
