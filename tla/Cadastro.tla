------------------------------ MODULE Cadastro ------------------------------
(***************************************************************************)
(* How an account comes by its profile and its role: registration and      *)
(* social login (app/services/auth_service.py), the user's own edits and   *)
(* the admins' changes (app/services/role_service.py).  A registration     *)
(* writes to three places, the account at Supabase, the profile and the    *)
(* role, each committed on its own, and may stop after any of them.        *)
(*                                                                         *)
(* Supabase is external: an account is created at once (e-mail             *)
(* confirmation disabled) and a second sign_up of its e-mail is refused.   *)
(* Of a profile only the origin of the name is kept; which role a row      *)
(* stores is the subject of Papeis.                                        *)
(***************************************************************************)
EXTENDS FiniteSets

CONSTANTS
  Contas,    \* people, each with one e-mail
  Requests,  \* slots for requests in flight
  Nenhum     \* no account, no row, no name, no request

\* Whose name the profile shows: the form's, the social provider's, the user's
\* own edit, or none.
Nome == {"formulario", "provider", "usuario", Nenhum}

\* A request in flight, and for a social login whether it found no role.
Request == [op : {"register", "oauth"}, pc : {"papel", "perfil"}, conta : Contas,
            sem_papel : BOOLEAN]

ASSUME NenhumAssumption ==
  /\ Nenhum \notin {"email", "social"} \cup {"formulario", "provider", "usuario"}
  /\ Nenhum \notin [nome : Nome] /\ Nenhum \notin Request

VARIABLES
  contas,   \* [Contas -> "email", "social" or Nenhum]: accounts by their origin
  perfis,   \* [Contas -> [nome : Nome] or Nenhum]: user_profiles
  papeis,   \* SUBSET Contas: who has a row in user_roles
  req       \* [Requests -> Request or Nenhum]

vars == <<contas, perfis, papeis, req>>

Idle(q) == req[q] = Nenhum
At(q, op, pc) == req[q] # Nenhum /\ req[q].op = op /\ req[q].pc = pc
End(q) == req' = [req EXCEPT ![q] = Nenhum]

Init ==
  /\ contas = [u \in Contas |-> Nenhum]
  /\ perfis = [u \in Contas |-> Nenhum]
  /\ papeis = {}
  /\ req = [q \in Requests |-> Nenhum]

\* Defective variant: sign_up of an account that is there goes on with it.
RegisterAgain(q, u) ==
  /\ Idle(q)
  /\ contas' = [contas EXCEPT ![u] = "email"]
  /\ req' = [req EXCEPT ![q] = [op |-> "register", pc |-> "perfil", conta |-> u,
                                sem_papel |-> TRUE]]
  /\ UNCHANGED <<perfis, papeis>>

\* POST /auth/register: sign_up.  An account that is there is a 409.
Register(q, u) ==
  /\ Idle(q)
  /\ contas[u] = Nenhum
  /\ contas' = [contas EXCEPT ![u] = "email"]
  /\ req' = [req EXCEPT ![q] = [op |-> "register", pc |-> "perfil", conta |-> u,
                                sem_papel |-> TRUE]]
  /\ UNCHANGED <<perfis, papeis>>

\* POST /auth/oauth/callback: the account is there (created with the person's
\* consent at the provider), and its role is looked for.
OAuthCallback(q, u) ==
  /\ Idle(q)
  /\ contas' = [contas EXCEPT ![u] = IF @ = Nenhum THEN "social" ELSE @]
  /\ LET sem == u \notin papeis
     IN req' = [req EXCEPT ![q] = [op |-> "oauth", pc |-> IF sem THEN "papel" ELSE "perfil",
                                   conta |-> u, sem_papel |-> sem]]
  /\ UNCHANGED <<perfis, papeis>>

\* upsert_profile: the row is created, or the columns named are overwritten.
Upserted(u, nome) == [perfis EXCEPT ![u] = [nome |-> nome]]

\* Defective variant: a registration answers without storing the role.
RegisterProfileLast(q) ==
  /\ At(q, "register", "perfil")
  /\ perfis' = Upserted(req[q].conta, "formulario")
  /\ End(q)
  /\ UNCHANGED <<contas, papeis>>

\* register: the profile with what the form says.
RegisterProfile(q) ==
  /\ At(q, "register", "perfil")
  /\ perfis' = Upserted(req[q].conta, "formulario")
  /\ req' = [req EXCEPT ![q].pc = "papel"]
  /\ UNCHANGED <<contas, papeis>>

\* register: the role, and the answer.
RegisterRole(q) ==
  /\ At(q, "register", "papel")
  /\ papeis' = papeis \cup {req[q].conta}
  /\ End(q)
  /\ UNCHANGED <<contas, perfis>>

\* oauth_callback: the role for one who had none.
OAuthRole(q) ==
  /\ At(q, "oauth", "papel")
  /\ papeis' = papeis \cup {req[q].conta}
  /\ req' = [req EXCEPT ![q].pc = "perfil"]
  /\ UNCHANGED <<contas, perfis>>

\* Defective variant: the provider's name is taken at every login.
OAuthProfileAlways(q) ==
  /\ At(q, "oauth", "perfil")
  /\ perfis' = Upserted(req[q].conta, "provider")
  /\ End(q)
  /\ UNCHANGED <<contas, papeis>>

\* oauth_callback: the profile, and the answer.  The provider's name is stored
\* only for one who had no role; otherwise the name stays (none in a new row).
OAuthProfile(q) ==
  /\ At(q, "oauth", "perfil")
  /\ LET u == req[q].conta
     IN perfis' = Upserted(u, IF req[q].sem_papel THEN "provider"
                              ELSE IF perfis[u] = Nenhum THEN Nenhum ELSE perfis[u].nome)
  /\ End(q)
  /\ UNCHANGED <<contas, papeis>>

\* PUT /users/me/profile with a name.
UpsertMyProfile(u) ==
  /\ contas[u] # Nenhum
  /\ perfis' = Upserted(u, "usuario")
  /\ UNCHANGED <<contas, papeis, req>>

\* PUT and DELETE /users/{u}/role.
AssignRole(u) ==
  /\ contas[u] # Nenhum
  /\ papeis' = papeis \cup {u}
  /\ UNCHANGED <<contas, perfis, req>>

RemoveRole(u) ==
  /\ papeis' = papeis \ {u}
  /\ UNCHANGED <<contas, perfis, req>>

\* The request ends where it is: an error of the database (500 "Tente novamente
\* mais tarde"), a process that was stopped.
RequestEnds(q) ==
  /\ ~Idle(q)
  /\ End(q)
  /\ UNCHANGED <<contas, perfis, papeis>>

Next ==
  \/ \E u \in Contas : UpsertMyProfile(u) \/ AssignRole(u) \/ RemoveRole(u)
  \/ \E q \in Requests :
       \/ \E u \in Contas : Register(q, u) \/ OAuthCallback(q, u)
       \/ RegisterProfile(q)
       \/ RegisterRole(q)
       \/ OAuthRole(q)
       \/ OAuthProfile(q)
       \/ RequestEnds(q)

Spec == Init /\ [][Next]_vars

-----------------------------------------------------------------------------
(* Properties.                                                             *)

\* The step answers the request that q has in flight, with success.
Answers(q) ==
  /\ req[q] # Nenhum /\ req'[q] = Nenhum
  /\ <<perfis, papeis>>' # <<perfis, papeis>>

Registering(u) == \E q \in Requests : req[q] # Nenhum /\ req[q].op = "register" /\ req[q].conta = u

\* Types; only accounts have profiles, roles and requests, and at most one
\* registration of an account is under way.
TypeOK ==
  /\ contas \in [Contas -> {"email", "social", Nenhum}]
  /\ perfis \in [Contas -> [nome : Nome] \cup {Nenhum}]
  /\ papeis \subseteq Contas
  /\ req \in [Requests -> Request \cup {Nenhum}]
  /\ \A u \in Contas : contas[u] = Nenhum =>
       perfis[u] = Nenhum /\ u \notin papeis /\ ~Registering(u)
  /\ \A p, q \in Requests :
       /\ p # q /\ req[p] # Nenhum /\ req[q] # Nenhum
       /\ req[p].op = "register" /\ req[q].op = "register"
       => req[p].conta # req[q].conta

\* A registration that is answered has stored everything, whatever the user and
\* the admins did with the account while it was under way.
RegistrationIsComplete ==
  [][\A q \in Requests :
       Answers(q) /\ req[q].op = "register"
       => perfis'[req[q].conta] # Nenhum /\ req[q].conta \in papeis']_vars

\* The name a user has chosen is only lost to a registration still under way or
\* to a social login that found the user without a role.
OwnNameIsKept ==
  [][\A u \in Contas :
       /\ perfis[u] # Nenhum /\ perfis[u].nome = "usuario"
       /\ perfis'[u] # perfis[u]
       => \E q \in Requests : req[q] # Nenhum /\ req[q].conta = u /\ req[q].sem_papel]_vars

\* A registration by e-mail that failed can be made again: no account is left
\* without a profile, since a second sign_up is refused as already registered.
RegistrationCanBeRetried ==
  \A u \in Contas : contas[u] = "email" => perfis[u] # Nenhum \/ Registering(u)
=============================================================================
