---------------------------- MODULE CadastroProofs ----------------------------
(***************************************************************************)
(* Proofs about registration and social login (Cadastro), for any number   *)
(* of people and concurrent requests.  The invariant adds to the types     *)
(* that a request works on an account that is there, and what a            *)
(* registration has already stored at each of its steps.                   *)
(***************************************************************************)
EXTENDS Cadastro, TLAPS

\* What a request knows of its account: it is there; a registration stores the
\* form's name, whoever has a role by then, and once that is done the account
\* has a profile.
RequestsInv ==
  \A q \in Requests : ~Idle(q) =>
    /\ contas[req[q].conta] # Nenhum
    /\ req[q].op = "register" => req[q].sem_papel
    /\ At(q, "register", "papel") => perfis[req[q].conta] # Nenhum

IInv == TypeOK /\ RequestsInv

LEMMA InitIInv == Init => IInv
  BY DEF Init, IInv, TypeOK, RequestsInv, Idle, Registering

-----------------------------------------------------------------------------
(* Steps.                                                                  *)

\* Accounts and profiles stay.
Grows ==
  /\ contas' \in [Contas -> {"email", "social", Nenhum}]
  /\ perfis' \in [Contas -> [nome : Nome] \cup {Nenhum}]
  /\ papeis' \subseteq Contas
  /\ \A u \in Contas : /\ contas[u] # Nenhum => contas'[u] # Nenhum
                       /\ perfis[u] # Nenhum => perfis'[u] # Nenhum
                       /\ contas'[u] = Nenhum => perfis'[u] = perfis[u] /\ u \notin papeis' \ papeis

\* A step of one request, or of none, that leaves the others where they are: what
\* has to be shown is what the invariant says of the request it leaves behind.
LEMMA StepInv ==
  ASSUME IInv, Grows, NEW q \in Requests,
         req' \in [Requests -> Request \cup {Nenhum}],
         \A p \in Requests : p # q => req'[p] = req[p],
         req'[q] # Nenhum =>
           /\ contas'[req'[q].conta] # Nenhum
           /\ req'[q].op = "register" =>
                /\ req'[q].sem_papel
                /\ req'[q].pc = "papel" => perfis'[req'[q].conta] # Nenhum
                /\ \/ req[q] # Nenhum /\ req[q].op = "register" /\ req[q].conta = req'[q].conta
                   \/ contas[req'[q].conta] = Nenhum
  PROVE  IInv'
<1>1. ASSUME NEW p \in Requests, req'[p] # Nenhum
      PROVE  /\ contas'[req'[p].conta] # Nenhum /\ req'[p].conta \in Contas
             /\ req'[p].op = "register" => req'[p].sem_papel
             /\ At(p, "register", "papel")' => perfis'[req'[p].conta] # Nenhum
  <2>1. req'[p].conta \in Contas
    BY <1>1 DEF Request
  <2>2. CASE p = q
    BY <1>1, <2>1, <2>2 DEF At
  <2>3. CASE p # q
    BY <1>1, <2>1, <2>3 DEF At, IInv, RequestsInv, Grows, Idle
  <2> QED BY <2>1, <2>2, <2>3
<1>2. ASSUME NEW p \in Requests, NEW r \in Requests, p # r,
             req'[p] # Nenhum, req'[r] # Nenhum,
             req'[p].op = "register", req'[r].op = "register"
      PROVE  req'[p].conta # req'[r].conta
  <2>1. CASE p # q /\ r # q
    BY <1>2, <2>1 DEF IInv, TypeOK
  <2>2. CASE p = q
    <3>1. r # q /\ req[r] # Nenhum /\ req[r].op = "register" /\ req'[r].conta = req[r].conta
      BY <1>2, <2>2
    <3> QED BY <1>2, <2>2, <3>1 DEF IInv, TypeOK, Registering, RequestsInv, Idle
  <2>3. CASE r = q
    <3>1. p # q /\ req[p] # Nenhum /\ req[p].op = "register" /\ req'[p].conta = req[p].conta
      BY <1>2, <2>3
    <3> QED BY <1>2, <2>3, <3>1 DEF IInv, TypeOK, Registering, RequestsInv, Idle
  <2> QED BY <2>1, <2>2, <2>3
<1>3. ASSUME NEW u \in Contas, contas'[u] = Nenhum
      PROVE  perfis'[u] = Nenhum /\ u \notin papeis' /\ ~Registering(u)'
  <2>1. contas[u] = Nenhum
    BY <1>3 DEF Grows
  <2> QED BY <1>1, <1>3, <2>1 DEF IInv, TypeOK, Grows, Registering
<1>4. TypeOK'
  BY <1>2, <1>3 DEF TypeOK, Grows
<1>5. RequestsInv'
  BY <1>1 DEF RequestsInv, Idle
<1> QED BY <1>4, <1>5 DEF IInv

\* Steps of nobody's request.
LEMMA OtherInv ==
  ASSUME IInv, Grows, req' = req
  PROVE  IInv'
<1>1. TypeOK'
  BY DEF IInv, TypeOK, Grows, Registering
<1>2. RequestsInv'
  BY DEF IInv, TypeOK, RequestsInv, Grows, Idle, At, Request
<1> QED BY <1>1, <1>2 DEF IInv

\* A profile written for an account.
LEMMA UpsertedGrows ==
  ASSUME IInv, NEW u \in Contas, contas[u] # Nenhum, NEW nome \in Nome,
         perfis' = Upserted(u, nome), UNCHANGED <<contas, papeis>>
  PROVE  Grows /\ perfis'[u] = [nome |-> nome]
<1>1. [nome |-> nome] \in [nome : Nome] /\ [nome |-> nome] # Nenhum
  BY NenhumAssumption
<1>2. /\ perfis' = [perfis EXCEPT ![u] = [nome |-> nome]]
      /\ perfis \in [Contas -> [nome : Nome] \cup {Nenhum}]
      /\ contas \in [Contas -> {"email", "social", Nenhum}] /\ papeis \subseteq Contas
  BY DEF Upserted, IInv, TypeOK
<1>3. /\ perfis' \in [Contas -> [nome : Nome] \cup {Nenhum}] /\ perfis'[u] # Nenhum
      /\ \A v \in Contas : v # u => perfis'[v] = perfis[v]
      /\ perfis'[u] = [nome |-> nome]
  BY <1>1, <1>2
<1> QED BY <1>2, <1>3 DEF Grows

\* A role given or taken.
LEMMA RolesGrow ==
  ASSUME IInv, NEW u \in Contas, contas[u] # Nenhum \/ papeis' \subseteq papeis,
         papeis' \in {papeis \cup {u}, papeis \ {u}}, UNCHANGED <<contas, perfis>>
  PROVE  Grows
  BY DEF IInv, TypeOK, Grows

\* The first access of a request, with the account it finds or makes.
LEMMA StartInv ==
  ASSUME IInv, NEW q \in Requests, Idle(q), NEW u \in Contas, NEW rec \in Request,
         rec.conta = u, rec.op = "register" => rec.sem_papel /\ rec.pc = "perfil" /\ contas[u] = Nenhum,
         NEW origem \in {"email", "social", Nenhum}, origem # Nenhum,
         contas' = [contas EXCEPT ![u] = origem],
         req' = [req EXCEPT ![q] = rec], UNCHANGED <<perfis, papeis>>
  PROVE  IInv'
<1>1. /\ contas' \in [Contas -> {"email", "social", Nenhum}] /\ contas'[u] # Nenhum
      /\ \A v \in Contas : v # u => contas'[v] = contas[v]
  BY DEF IInv, TypeOK
<1>2. Grows
  BY <1>1 DEF IInv, TypeOK, Grows
<1>3. /\ req' \in [Requests -> Request \cup {Nenhum}] /\ req'[q] = rec
      /\ \A p \in Requests : p # q => req'[p] = req[p]
  BY DEF IInv, TypeOK
<1> QED BY <1>1, <1>2, <1>3, StepInv

\* A later access, which leaves the request at rec.
LEMMA GoesOnInv ==
  ASSUME IInv, NEW q \in Requests, ~Idle(q), NEW pc \in {"papel", "perfil"}, Grows,
         req' = [req EXCEPT ![q].pc = pc],
         req[q].op = "register" /\ pc = "papel" => perfis'[req[q].conta] # Nenhum
  PROVE  IInv'
<1> DEFINE rec == [req[q] EXCEPT !.pc = pc]
<1>1. req[q] \in Request /\ req \in [Requests -> Request \cup {Nenhum}]
  BY DEF IInv, TypeOK, Idle
<1>2. /\ rec \in Request /\ rec.op = req[q].op /\ rec.conta = req[q].conta
      /\ rec.sem_papel = req[q].sem_papel /\ rec.pc = pc /\ req' = [req EXCEPT ![q] = rec]
  BY <1>1 DEF Request
<1> HIDE DEF rec
<1>3. /\ req' \in [Requests -> Request \cup {Nenhum}] /\ req'[q] = rec
      /\ \A p \in Requests : p # q => req'[p] = req[p]
  BY <1>1, <1>2
<1>4. contas'[rec.conta] # Nenhum
  BY <1>1, <1>2 DEF Grows, IInv, RequestsInv, Request
<1>5. rec.op = "register" => rec.sem_papel
  BY <1>2 DEF IInv, RequestsInv
<1> QED BY <1>2, <1>3, <1>4, <1>5, StepInv DEF Idle

\* The last access of a request.
LEMMA EndInv ==
  ASSUME IInv, NEW q \in Requests, Grows, End(q)
  PROVE  IInv'
<1>1. /\ req' \in [Requests -> Request \cup {Nenhum}] /\ req'[q] = Nenhum
      /\ \A p \in Requests : p # q => req'[p] = req[p]
  BY DEF End, IInv, TypeOK
<1> QED BY <1>1, StepInv

\* The account of a request.
LEMMA RequestHolds ==
  ASSUME IInv, NEW q \in Requests, ~Idle(q)
  PROVE  /\ req[q] \in Request /\ req[q].conta \in Contas
         /\ contas[req[q].conta] # Nenhum
  BY DEF IInv, TypeOK, RequestsInv, Idle, Request

LEMMA NextIInv == IInv /\ [Next]_vars => IInv'
<1> SUFFICES ASSUME IInv, [Next]_vars PROVE IInv'
  OBVIOUS
<1>1. ASSUME NEW u \in Contas, UpsertMyProfile(u) PROVE IInv'
  BY <1>1, UpsertedGrows, OtherInv DEF UpsertMyProfile, Nome
<1>2. ASSUME NEW u \in Contas, AssignRole(u) \/ RemoveRole(u) PROVE IInv'
  BY <1>2, RolesGrow, OtherInv DEF AssignRole, RemoveRole
<1>3. ASSUME NEW q \in Requests, NEW u \in Contas, Register(q, u) PROVE IInv'
  <2> DEFINE rec == [op |-> "register", pc |-> "perfil", conta |-> u, sem_papel |-> TRUE]
  <2>1. rec \in Request /\ "email" # Nenhum
    BY NenhumAssumption DEF Request
  <2> QED BY <1>3, <2>1, StartInv DEF Register
<1>4. ASSUME NEW q \in Requests, NEW u \in Contas, OAuthCallback(q, u) PROVE IInv'
  <2> DEFINE sem == u \notin papeis
             rec == [op |-> "oauth", pc |-> IF sem THEN "papel" ELSE "perfil",
                     conta |-> u, sem_papel |-> sem]
             origem == IF contas[u] = Nenhum THEN "social" ELSE contas[u]
  <2>1. rec \in Request /\ rec.conta = u /\ rec.op = "oauth"
    BY DEF Request
  <2>2. origem \in {"email", "social", Nenhum} /\ origem # Nenhum
    BY NenhumAssumption DEF IInv, TypeOK
  <2>3. /\ contas' = [contas EXCEPT ![u] = origem] /\ req' = [req EXCEPT ![q] = rec]
        /\ Idle(q) /\ UNCHANGED <<perfis, papeis>>
    BY <1>4 DEF OAuthCallback
  <2> HIDE DEF rec, origem
  <2> QED BY <2>1, <2>2, <2>3, StartInv
<1>5. ASSUME NEW q \in Requests, RegisterProfile(q) PROVE IInv'
  <2>1. ~Idle(q) /\ UNCHANGED <<contas, papeis>>
    BY <1>5 DEF RegisterProfile, At, Idle
  <2>2. Grows /\ perfis'[req[q].conta] = [nome |-> "formulario"]
    BY <1>5, <2>1, RequestHolds, UpsertedGrows DEF RegisterProfile, Nome
  <2>3. [nome |-> "formulario"] # Nenhum
    BY NenhumAssumption DEF Nome
  <2> QED BY <1>5, <2>1, <2>2, <2>3, GoesOnInv DEF RegisterProfile
<1>6. ASSUME NEW q \in Requests, RegisterRole(q) PROVE IInv'
  <2>1. ~Idle(q)
    BY <1>6 DEF RegisterRole, At, Idle
  <2>2. Grows
    BY <1>6, <2>1, RequestHolds, RolesGrow DEF RegisterRole
  <2> QED BY <1>6, <2>2, EndInv DEF RegisterRole
<1>7. ASSUME NEW q \in Requests, OAuthRole(q) PROVE IInv'
  <2>1. ~Idle(q) /\ req[q].op = "oauth"
    BY <1>7 DEF OAuthRole, At, Idle
  <2>2. Grows
    BY <1>7, <2>1, RequestHolds, RolesGrow DEF OAuthRole
  <2> QED BY <1>7, <2>1, <2>2, GoesOnInv DEF OAuthRole
<1>8. ASSUME NEW q \in Requests, OAuthProfile(q) PROVE IInv'
  <2> DEFINE u == req[q].conta
             nome == IF req[q].sem_papel THEN "provider"
                     ELSE IF perfis[u] = Nenhum THEN Nenhum ELSE perfis[u].nome
  <2>1. ~Idle(q) /\ UNCHANGED <<contas, papeis>> /\ perfis' = Upserted(u, nome) /\ End(q)
    BY <1>8 DEF OAuthProfile, At, Idle
  <2>2. u \in Contas /\ contas[u] # Nenhum
    BY <2>1, RequestHolds
  <2>3. nome \in Nome
    BY <2>2 DEF IInv, TypeOK, Nome
  <2> HIDE DEF u, nome
  <2> QED BY <2>1, <2>2, <2>3, UpsertedGrows, EndInv
<1>9. ASSUME NEW q \in Requests, RequestEnds(q) PROVE IInv'
  <2>1. Grows
    BY <1>9 DEF RequestEnds, Grows, IInv, TypeOK
  <2> QED BY <1>9, <2>1, EndInv DEF RequestEnds
<1>10. CASE UNCHANGED vars
  BY <1>10 DEF vars, IInv, TypeOK, RequestsInv, Idle, At, Registering
<1> QED BY <1>1, <1>2, <1>3, <1>4, <1>5, <1>6, <1>7, <1>8, <1>9, <1>10 DEF Next

LEMMA Invariance == Spec => []IInv
  BY InitIInv, NextIInv, PTL DEF Spec

-----------------------------------------------------------------------------
(* The theorems.                                                           *)

\* Profiles, roles and requests only are of accounts that exist, and no account
\* is registered twice at a time: sign_up refuses the second (auth_service.py).
THEOREM TypeCorrect == Spec => []TypeOK
<1>1. IInv => TypeOK
  BY DEF IInv
<1> QED BY <1>1, Invariance, PTL

\* The requests that a step ends.
LEMMA EndsOf ==
  ASSUME IInv, Next, NEW q \in Requests, req[q] # Nenhum, req'[q] = Nenhum
  PROVE  RegisterRole(q) \/ OAuthProfile(q) \/ RequestEnds(q)
<1>1. req \in [Requests -> Request \cup {Nenhum}] /\ Nenhum \notin Request
  BY NenhumAssumption DEF IInv, TypeOK
<1>2. ASSUME NEW p \in Requests, NEW u \in Contas, Register(p, u) \/ OAuthCallback(p, u)
      PROVE  FALSE
  <2>1. p # q
    BY <1>2 DEF Register, OAuthCallback, Idle
  <2> QED BY <1>1, <1>2, <2>1 DEF Register, OAuthCallback
<1>3. ASSUME NEW p \in Requests, RegisterProfile(p) \/ OAuthRole(p) PROVE FALSE
  <2>1. PICK pc \in {"papel", "perfil"} : req' = [req EXCEPT ![p] = [req[p] EXCEPT !.pc = pc]]
    BY <1>3 DEF RegisterProfile, OAuthRole
  <2>2. p # q
    <3>1. p = q => [req[p] EXCEPT !.pc = pc] \in Request
      BY <1>1 DEF Request
    <3> QED BY <1>1, <2>1, <3>1
  <2> QED BY <1>1, <2>1, <2>2
<1>4. ASSUME NEW p \in Requests, End(p) PROVE p = q
  BY <1>1, <1>4 DEF End
<1> QED
  BY <1>2, <1>3, <1>4
  DEF Next, UpsertMyProfile, AssignRole, RemoveRole, RegisterRole, OAuthProfile, RequestEnds

\* Whoever is answered 201 to POST /auth/register has a profile and a role,
\* whatever the admins do meanwhile with the role of the new account.
THEOREM RegistrationStoresAll == Spec => RegistrationIsComplete
<1> DEFINE Step ==
      \A q \in Requests :
        Answers(q) /\ req[q].op = "register"
        => perfis'[req[q].conta] # Nenhum /\ req[q].conta \in papeis'
<1>1. IInv /\ [Next]_vars => [Step]_vars
  <2> SUFFICES ASSUME IInv, Next, NEW q \in Requests, Answers(q), req[q].op = "register"
               PROVE  perfis'[req[q].conta] # Nenhum /\ req[q].conta \in papeis'
    OBVIOUS
  <2>1. RegisterRole(q)
    BY EndsOf DEF Answers, OAuthProfile, RequestEnds, At
  <2> QED BY <2>1 DEF RegisterRole, At, IInv, RequestsInv, Idle
<1> QED BY <1>1, Invariance, PTL DEF Spec, RegistrationIsComplete

\* A name that the user has typed (PUT /users/me/profile) is only overwritten by
\* a registration still under way, or by a social login that found no role.
THEOREM OwnNamesStay == Spec => OwnNameIsKept
<1> DEFINE Step ==
      \A u \in Contas :
        /\ perfis[u] # Nenhum /\ perfis[u].nome = "usuario"
        /\ perfis'[u] # perfis[u]
        => \E q \in Requests : req[q] # Nenhum /\ req[q].conta = u /\ req[q].sem_papel
<1>1. IInv /\ [Next]_vars => [Step]_vars
  <2> SUFFICES ASSUME IInv, Next, NEW u \in Contas, perfis[u] # Nenhum,
                      perfis[u].nome = "usuario", perfis'[u] # perfis[u]
               PROVE  \E q \in Requests : req[q] # Nenhum /\ req[q].conta = u /\ req[q].sem_papel
    OBVIOUS
  <2>1. perfis \in [Contas -> [nome : Nome] \cup {Nenhum}]
    BY DEF IInv, TypeOK
  <2>2. perfis[u] = [nome |-> "usuario"]
    BY <2>1
  <2>3. ASSUME NEW v \in Contas, UpsertMyProfile(v) PROVE FALSE
    BY <2>1, <2>2, <2>3 DEF UpsertMyProfile, Upserted
  <2>4. ASSUME NEW q \in Requests, RegisterProfile(q) \/ OAuthProfile(q)
        PROVE  req[q] # Nenhum /\ req[q].conta = u /\ req[q].sem_papel
    <3>1. req[q] # Nenhum
      BY <2>4 DEF RegisterProfile, OAuthProfile, At
    <3>2. req[q].conta = u
      BY <2>1, <2>4 DEF RegisterProfile, OAuthProfile, Upserted
    <3>3. CASE RegisterProfile(q)
      BY <3>1, <3>2, <3>3 DEF RegisterProfile, At, IInv, RequestsInv, Idle
    <3>4. CASE OAuthProfile(q) /\ ~req[q].sem_papel
      <4>1. perfis' = [perfis EXCEPT ![u] = [nome |-> perfis[u].nome]]
        BY <3>2, <3>4 DEF OAuthProfile, Upserted
      <4> QED BY <2>1, <2>2, <4>1
    <3> QED BY <2>4, <3>1, <3>2, <3>3, <3>4
  <2> QED
    BY <2>3, <2>4
    DEF Next, AssignRole, RemoveRole, Register, OAuthCallback, RegisterRole, OAuthRole,
        RequestEnds
<1> QED BY <1>1, Invariance, PTL DEF Spec, OwnNameIsKept
=============================================================================
