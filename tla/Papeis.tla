------------------------------- MODULE Papeis -------------------------------
(***************************************************************************)
(* The table user_roles under concurrent requests: PUT and DELETE          *)
(* /users/{id}/role (app/services/role_service.py), and the role part of   *)
(* POST /auth/oauth/callback (app/services/auth_service.py).               *)
(*                                                                         *)
(* A row has its own primary key; UPDATE and DELETE address the row by it, *)
(* so that a row removed and created again is another row.  Within a       *)
(* request a second SELECT of a row that the handler still holds returns   *)
(* the object it holds, with the role of the first read (the session's     *)
(* identity map); an UPDATE is sent only when the role differs from that.  *)
(***************************************************************************)
EXTENDS Permissoes, FiniteSets

CONSTANTS
  Users,      \* accounts
  RowIds,     \* primary keys of user_roles: fresh uuids, never used twice
  Requests,   \* slots for requests in flight
  Nenhum,     \* no row, no request
  Initial     \* [Users -> Row or Nenhum]: what the table starts with

Row == [id : RowIds, role : Role]

ASSUME InitialAssumption ==
  /\ Initial \in [Users -> Row \cup {Nenhum}]
  /\ \A u, v \in Users : u # v /\ Initial[u] # Nenhum /\ Initial[v] # Nenhum =>
       Initial[u].id # Initial[v].id
ASSUME NenhumAssumption == Nenhum \notin Row

Operation == {"assign", "remove", "oauth"}

\* A request in flight: the caller, the role read for the caller, the user it
\* is about, the role to store, and the row its handler holds (lido).
Request == [op : Operation, pc : {"target", "upsert", "gravar"}, ator : Users,
            papel : Role, alvo : Users, novo : Role, lido : Row \cup {Nenhum}]

ASSUME RequestAssumption == Nenhum \notin Request

VARIABLES
  papeis,   \* [Users -> Row or Nenhum]: the committed table
  usados,   \* primary keys already given out
  req,      \* [Requests -> Request or Nenhum]
  mexidos   \* history: the requests in flight to whose target something was
            \* committed since they first looked at it

vars == <<papeis, usados, req, mexidos>>

\* get_user_role: the stored role, or the default.
UserRole(u) == IF papeis[u] = Nenhum THEN DEFAULT_ROLE ELSE papeis[u].role

Idle(q) == req[q] = Nenhum
At(q, pc) == req[q] # Nenhum /\ req[q].pc = pc

Start(q, op, pc, u, r, alvo, novo) ==
  req' = [req EXCEPT ![q] = [op |-> op, pc |-> pc, ator |-> u, papel |-> r,
                             alvo |-> alvo, novo |-> novo, lido |-> Nenhum]]

Init ==
  /\ papeis = Initial
  /\ usados = {Initial[u].id : u \in {v \in Users : Initial[v] # Nenhum}}
  /\ req = [q \in Requests |-> Nenhum]
  /\ mexidos = {}

\* Defective variant: an admin may store any role.
AssignAnyRole(q, u, alvo, novo) ==
  /\ Idle(q)
  /\ RequireRole(Admins, UserRole(u))
  /\ Start(q, "assign", IF UserRole(u) = "admin" THEN "target" ELSE "upsert",
           u, UserRole(u), alvo, novo)
  /\ UNCHANGED <<papeis, usados>>

\* PUT /users/{alvo}/role: the caller's role is read.  A super_admin may store
\* any role; an admin only moderador, and looks at the target first.
AssignUserRole(q, u, alvo, novo) ==
  /\ Idle(q)
  /\ RequireRole(Admins, UserRole(u))
  /\ UserRole(u) = "admin" => novo = "moderador"
  /\ Start(q, "assign", IF UserRole(u) = "admin" THEN "target" ELSE "upsert",
           u, UserRole(u), alvo, novo)
  /\ UNCHANGED <<papeis, usados>>

\* DELETE /users/{alvo}/role.
RemoveUserRole(q, u, alvo) ==
  /\ Idle(q)
  /\ RequireRole(Admins, UserRole(u))
  /\ Start(q, "remove", IF UserRole(u) = "admin" THEN "target" ELSE "upsert",
           u, UserRole(u), alvo, DEFAULT_ROLE)
  /\ UNCHANGED <<papeis, usados>>

\* The role part of a social login: a user without a row is given one.
OAuthCallback(q, u) ==
  /\ Idle(q)
  /\ papeis[u] = Nenhum
  /\ Start(q, "oauth", "upsert", u, DEFAULT_ROLE, u, "participante")
  /\ UNCHANGED <<papeis, usados>>

\* Defective variant: only super_admins are out of an admin's reach.
CheckTargetSuperAdmin(q) ==
  /\ At(q, "target")
  /\ LET row == papeis[req[q].alvo]
     IN  /\ row = Nenhum => req[q].op = "assign"
         /\ row # Nenhum => row.role # "super_admin"
         /\ req' = [req EXCEPT ![q].pc = "upsert", ![q].lido = row]
  /\ UNCHANGED <<papeis, usados>>

\* An admin's look at the target: one who is admin or super_admin is refused
\* (and a DELETE of a row that is not there is done: RequestEnds).
CheckTarget(q) ==
  /\ At(q, "target")
  /\ LET row == papeis[req[q].alvo]
     IN  /\ row = Nenhum => req[q].op = "assign"
         /\ row # Nenhum => row.role \notin Admins
         /\ req' = [req EXCEPT ![q].pc = "upsert", ![q].lido = row]
  /\ UNCHANGED <<papeis, usados>>

\* The get_role inside upsert_role and remove_role.  The row already held is
\* kept as it was read; a row not there ends a DELETE (RequestEnds).
ReadAgain(q) ==
  /\ At(q, "upsert")
  /\ LET row  == papeis[req[q].alvo]
         held == req[q].lido
     IN  /\ row = Nenhum => req[q].op # "remove"
         /\ req' = [req EXCEPT ![q].pc = "gravar",
                      ![q].lido = IF row # Nenhum /\ held # Nenhum /\ row.id = held.id
                                  THEN held ELSE row]
  /\ UNCHANGED <<papeis, usados>>

\* The row the request holds is still the row in the table.
HoldsRow(q) ==
  /\ papeis[req[q].alvo] # Nenhum
  /\ req[q].lido # Nenhum
  /\ papeis[req[q].alvo].id = req[q].lido.id

\* upsert_role without a row: INSERT.  Meeting the unique index on user_id
\* it fails (RequestEnds).
InsertRole(q, id) ==
  /\ At(q, "gravar") /\ req[q].op # "remove"
  /\ req[q].lido = Nenhum
  /\ papeis[req[q].alvo] = Nenhum
  /\ id \in RowIds \ usados
  /\ papeis' = [papeis EXCEPT ![req[q].alvo] = [id |-> id, role |-> req[q].novo]]
  /\ usados' = usados \cup {id}
  /\ req' = [req EXCEPT ![q] = Nenhum]

\* upsert_role with a row: UPDATE, when the role differs from the one held.
\* A row that is gone by then is an error (RequestEnds).
UpdateRole(q) ==
  /\ At(q, "gravar") /\ req[q].op # "remove"
  /\ HoldsRow(q)
  /\ papeis' = IF req[q].novo # req[q].lido.role
               THEN [papeis EXCEPT ![req[q].alvo].role = req[q].novo]
               ELSE papeis
  /\ req' = [req EXCEPT ![q] = Nenhum]
  /\ UNCHANGED usados

\* remove_role: DELETE by primary key; a row that is gone is no error.
DeleteRole(q) ==
  /\ At(q, "gravar") /\ req[q].op = "remove"
  /\ papeis' = IF HoldsRow(q) THEN [papeis EXCEPT ![req[q].alvo] = Nenhum] ELSE papeis
  /\ req' = [req EXCEPT ![q] = Nenhum]
  /\ UNCHANGED usados

\* The request ends without an effect: refused, nothing to remove, a failed
\* commit, or a process that was stopped.
RequestEnds(q) ==
  /\ ~Idle(q)
  /\ req' = [req EXCEPT ![q] = Nenhum]
  /\ UNCHANGED <<papeis, usados>>

Step ==
  \E q \in Requests :
    \/ CheckTarget(q)
    \/ ReadAgain(q)
    \/ \E id \in RowIds : InsertRole(q, id)
    \/ UpdateRole(q)
    \/ DeleteRole(q)
    \/ RequestEnds(q)
    \/ \E u \in Users :
         \/ OAuthCallback(q, u)
         \/ \E alvo \in Users :
              \/ RemoveUserRole(q, u, alvo)
              \/ \E novo \in Role : AssignUserRole(q, u, alvo, novo)

\* A request waits in "target" until it has looked.
Raced ==
  mexidos' = {p \in Requests :
                /\ req'[p] # Nenhum
                /\ req'[p].pc # "target"
                /\ \/ p \in mexidos
                   \/ papeis'[req'[p].alvo] # papeis[req'[p].alvo]}

Next == Step /\ Raced

Spec == Init /\ [][Next]_vars

-----------------------------------------------------------------------------
(* Properties.                                                             *)

Answered(q) == req[q] # Nenhum /\ req'[q] = Nenhum

\* Types; the keys in the table have been given out and are not shared, and so
\* has the key of every row that a request still holds.
TypeOK ==
  /\ papeis \in [Users -> Row \cup {Nenhum}]
  /\ usados \subseteq RowIds
  /\ req \in [Requests -> Request \cup {Nenhum}]
  /\ \A u \in Users : papeis[u] # Nenhum =>
       /\ papeis[u].id \in usados
       /\ \A v \in Users \ {u} : papeis[v] # Nenhum => papeis[u].id # papeis[v].id
  /\ \A q \in Requests : req[q] # Nenhum =>
       /\ req[q].op = "assign" /\ req[q].papel = "admin" => req[q].novo = "moderador"
       /\ req[q].lido # Nenhum => req[q].lido.id \in usados
  /\ mexidos \subseteq Requests

\* No interleaving makes an admin: whoever becomes admin or super_admin does so
\* by a request whose caller was a super_admin.  A registration, a login or an
\* admin's request never does it, even on rows that changed under them.
OnlySuperAdminMakesAdmins ==
  [][\A u \in Users :
       /\ papeis'[u] # papeis[u]
       /\ papeis'[u] # Nenhum
       /\ papeis'[u].role \in Admins
       => \E q \in Requests : Answered(q) /\ req[q].papel = "super_admin"
                              /\ req[q].alvo = u]_vars

\* Only a race breaks the rules of role_service and auth_service.  Unless
\* somebody else's request on the same user is committed between a request's
\* first look at that user and its own commit, an admin changes no row of an
\* admin or super_admin, whether it was read once or twice on the way, and a
\* social login gives participante to a user without a row and never takes a
\* stored role away.
OnlyRacesBreakTheRules ==
  [][\A q \in Requests \ mexidos :
       /\ Answered(q)
       /\ papeis[req[q].alvo] # Nenhum
       /\ papeis'[req[q].alvo] # papeis[req[q].alvo]
       => /\ req[q].op # "oauth"
          /\ req[q].papel = "admin" => papeis[req[q].alvo].role \notin Admins]_vars

\* An admin does not touch admins: a row whose role is admin or super_admin
\* when a request of an admin is committed stays as it is.
AdminsAreOutOfReach ==
  [][\A q \in Requests :
       /\ Answered(q)
       /\ req[q].papel = "admin"
       /\ papeis[req[q].alvo] # Nenhum
       /\ papeis[req[q].alvo].role \in Admins
       => papeis'[req[q].alvo] = papeis[req[q].alvo]]_vars
=============================================================================
