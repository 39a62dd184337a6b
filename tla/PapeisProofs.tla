---------------------------- MODULE PapeisProofs ----------------------------
(***************************************************************************)
(* Theorems of module Papeis, for any number of users, rows and requests.  *)
(*                                                                         *)
(* IInv adds to the types what each request in flight was allowed to ask:  *)
(* the caller of PUT and DELETE was an admin or a super_admin when the     *)
(* request read its role, an admin only ever stores moderador (in TypeOK), *)
(* and a social login only ever stores participante.  RaceInv adds what a  *)
(* request that nobody raced still knows of its target.                    *)
(***************************************************************************)
EXTENDS Papeis, TLAPS

AskedInv ==
  \A q \in Requests : req[q] # Nenhum =>
    /\ req[q].op \in {"assign", "remove"} => req[q].papel \in Admins
    /\ req[q].op = "oauth" => req[q].novo = "participante" /\ req[q].pc # "target"

IInv == TypeOK /\ AskedInv

\* A request in flight whose target nobody has changed since the first look: an
\* admin that has looked knows that the target is no admin, a social login that
\* the user has no row.
RaceInv ==
  /\ \A q \in mexidos : req[q] # Nenhum
  /\ \A q \in Requests \ mexidos :
       req[q] # Nenhum /\ req[q].pc # "target" /\ papeis[req[q].alvo] # Nenhum =>
         /\ req[q].op # "oauth"
         /\ req[q].papel = "admin" => papeis[req[q].alvo].role \notin Admins

-----------------------------------------------------------------------------
\* What every step that opens a request leaves true.
LEMMA StartInv ==
  ASSUME IInv, NEW q \in Requests, NEW op \in Operation,
         NEW pc \in {"target", "upsert"}, NEW u \in Users, NEW r \in Role,
         NEW alvo \in Users, NEW novo \in Role,
         Start(q, op, pc, u, r, alvo, novo),
         UNCHANGED <<papeis, usados>>, mexidos' \subseteq Requests,
         op = "assign" /\ r = "admin" => novo = "moderador",
         op \in {"assign", "remove"} => r \in Admins,
         op = "oauth" => novo = "participante" /\ pc # "target"
  PROVE  IInv'
<1> DEFINE rec == [op |-> op, pc |-> pc, ator |-> u, papel |-> r,
                   alvo |-> alvo, novo |-> novo, lido |-> Nenhum]
<1>1. rec \in Request
  BY DEF Request
<1>2. req' = [req EXCEPT ![q] = rec]
  BY DEF Start
<1> HIDE DEF rec
<1>3. /\ req' \in [Requests -> Request \cup {Nenhum}]
      /\ req'[q] = rec
      /\ \A k \in Requests \ {q} : req'[k] = req[k]
  BY <1>1, <1>2 DEF IInv, TypeOK
<1>4. TypeOK'
  BY <1>3 DEF IInv, TypeOK, rec
<1>5. AskedInv'
  BY <1>3 DEF IInv, AskedInv, rec
<1> QED BY <1>4, <1>5 DEF IInv

\* A read on behalf of a request only changes its step and the row it holds.
LEMMA ReadInv ==
  ASSUME IInv, NEW q \in Requests, req[q] # Nenhum,
         NEW pc \in {"upsert", "gravar"}, NEW lido \in Row \cup {Nenhum},
         lido # Nenhum => lido.id \in usados,
         req' = [req EXCEPT ![q].pc = pc, ![q].lido = lido],
         UNCHANGED <<papeis, usados>>, mexidos' \subseteq Requests
  PROVE  IInv'
<1> DEFINE rec == [req[q] EXCEPT !.pc = pc, !.lido = lido]
<1>1. req[q] \in Request
  BY DEF IInv, TypeOK
<1>2. /\ rec \in Request /\ rec # Nenhum
      /\ rec.op = req[q].op /\ rec.papel = req[q].papel
      /\ rec.novo = req[q].novo /\ rec.lido = lido /\ rec.pc = pc
  BY <1>1, RequestAssumption DEF Request
<1>3. req' = [req EXCEPT ![q] = rec]
  BY DEF IInv, TypeOK
<1> HIDE DEF rec
<1>4. /\ req' \in [Requests -> Request \cup {Nenhum}]
      /\ req'[q] = rec
      /\ \A k \in Requests \ {q} : req'[k] = req[k]
  <2>1. req \in [Requests -> Request \cup {Nenhum}]
    BY DEF IInv, TypeOK
  <2> QED BY <1>2, <1>3, <2>1
<1>5. TypeOK'
  BY <1>2, <1>4 DEF IInv, TypeOK
<1>6. AskedInv'
  BY <1>2, <1>4 DEF IInv, AskedInv
<1> QED BY <1>5, <1>6 DEF IInv

\* A request that ends takes nothing with it.
LEMMA EndInv ==
  ASSUME IInv, NEW q \in Requests, req' = [req EXCEPT ![q] = Nenhum]
  PROVE  /\ req' \in [Requests -> Request \cup {Nenhum}]
         /\ AskedInv'
         /\ \A k \in Requests : req'[k] \in {req[k], Nenhum}
BY DEF IInv, TypeOK, AskedInv

-----------------------------------------------------------------------------
LEMMA InitInv == Init => IInv
BY InitialAssumption DEF Init, IInv, TypeOK, AskedInv, Row

LEMMA CommitInv ==
  ASSUME IInv, NEW q \in Requests,
         \/ \E id \in RowIds : InsertRole(q, id)
         \/ UpdateRole(q)
         \/ DeleteRole(q)
         \/ RequestEnds(q),
         mexidos' \subseteq Requests
  PROVE  IInv'
<1> USE DEF IInv
<1>1. req' = [req EXCEPT ![q] = Nenhum]
  BY DEF InsertRole, UpdateRole, DeleteRole, RequestEnds
<1>2. /\ req' \in [Requests -> Request \cup {Nenhum}]
      /\ AskedInv'
      /\ \A k \in Requests : req'[k] \in {req[k], Nenhum}
  BY <1>1, EndInv
<1>3. ASSUME NEW id \in RowIds, InsertRole(q, id) PROVE TypeOK'
  <2> DEFINE alvo == req[q].alvo
             row == [id |-> id, role |-> req[q].novo]
  <2>1. /\ req[q] \in Request /\ alvo \in Users /\ id \notin usados
        /\ papeis' = [papeis EXCEPT ![alvo] = row] /\ usados' = usados \cup {id}
    BY <1>3 DEF InsertRole, At, TypeOK, Request
  <2>2. row \in Row /\ row.id = id
    BY <2>1 DEF Row, Request
  <2> HIDE DEF row
  <2>3. /\ papeis'[alvo] = row /\ \A v \in Users \ {alvo} : papeis'[v] = papeis[v]
        /\ papeis' \in [Users -> Row \cup {Nenhum}]
    BY <2>1, <2>2 DEF TypeOK
  <2>4. \A v \in Users : papeis[v] # Nenhum => papeis[v].id # id
    BY <2>1 DEF TypeOK
  <2> QED BY <1>2, <2>1, <2>2, <2>3, <2>4 DEF TypeOK
<1>4. CASE UpdateRole(q)
  <2> DEFINE alvo == req[q].alvo
             row == [papeis[alvo] EXCEPT !.role = req[q].novo]
  <2>1. /\ req[q] \in Request /\ alvo \in Users /\ papeis[alvo] \in Row
        /\ usados' = usados
        /\ papeis' = papeis \/ papeis' = [papeis EXCEPT ![alvo] = row]
    BY <1>4 DEF UpdateRole, HoldsRow, At, TypeOK, Request
  <2>2. row \in Row /\ row.id = papeis[alvo].id /\ papeis[alvo] # Nenhum
    BY <2>1, NenhumAssumption DEF Row, Request
  <2> HIDE DEF row
  <2>3. CASE papeis' = papeis
    BY <1>2, <2>1, <2>3 DEF TypeOK
  <2>4. CASE papeis' = [papeis EXCEPT ![alvo] = row]
    <3>1. /\ papeis'[alvo] = row /\ \A v \in Users \ {alvo} : papeis'[v] = papeis[v]
          /\ papeis' \in [Users -> Row \cup {Nenhum}]
      BY <2>1, <2>2, <2>4 DEF TypeOK
    <3> QED BY <1>2, <2>1, <2>2, <3>1 DEF TypeOK
  <2> QED BY <2>1, <2>3, <2>4
<1>5. CASE DeleteRole(q)
  <2>1. /\ usados' = usados /\ papeis' \in [Users -> Row \cup {Nenhum}]
        /\ \A v \in Users : papeis'[v] \in {papeis[v], Nenhum}
    BY <1>5 DEF DeleteRole, TypeOK
  <2> QED BY <1>2, <2>1 DEF TypeOK
<1>6. CASE RequestEnds(q)
  BY <1>2, <1>6 DEF RequestEnds, TypeOK
<1> QED BY <1>2, <1>3, <1>4, <1>5, <1>6

LEMMA NextInv == IInv /\ [Next]_vars => IInv'
<1> SUFFICES ASSUME IInv, [Next]_vars PROVE IInv'
  OBVIOUS
<1>0. mexidos' \subseteq Requests
  BY DEF Next, Raced, vars, IInv, TypeOK
<1>1. \A v \in Users : UserRole(v) \in Role
  BY DEF IInv, TypeOK, UserRole, Row, DEFAULT_ROLE, Role
<1>2. ASSUME NEW q \in Requests, CheckTarget(q) PROVE IInv'
  <2>1. /\ req[q] # Nenhum /\ req[q].alvo \in Users
        /\ papeis[req[q].alvo] \in Row \cup {Nenhum}
    BY <1>2 DEF CheckTarget, At, IInv, TypeOK, Request
  <2> QED BY <1>0, <1>2, <2>1, ReadInv DEF CheckTarget, IInv, TypeOK
<1>3. ASSUME NEW q \in Requests, ReadAgain(q) PROVE IInv'
  <2> DEFINE row == papeis[req[q].alvo]
             lido == IF row # Nenhum /\ req[q].lido # Nenhum /\ row.id = req[q].lido.id
                     THEN req[q].lido ELSE row
  <2>1. /\ req[q] # Nenhum /\ req[q] \in Request /\ req[q].alvo \in Users
        /\ row \in Row \cup {Nenhum}
        /\ req[q].lido \in Row \cup {Nenhum}
    BY <1>3 DEF ReadAgain, At, IInv, TypeOK, Request
  <2>2. lido \in Row \cup {Nenhum} /\ (lido # Nenhum => lido.id \in usados)
    BY <2>1 DEF IInv, TypeOK
  <2>3. req' = [req EXCEPT ![q].pc = "gravar", ![q].lido = lido]
        /\ UNCHANGED <<papeis, usados>>
    BY <1>3 DEF ReadAgain
  <2> QED BY <1>0, <2>1, <2>2, <2>3, ReadInv
<1>4. ASSUME NEW q \in Requests, NEW u \in Users, OAuthCallback(q, u) PROVE IInv'
  BY <1>0, <1>4, StartInv DEF OAuthCallback, Operation, Role, DEFAULT_ROLE
<1>5. ASSUME NEW q \in Requests, NEW u \in Users, NEW alvo \in Users,
             RemoveUserRole(q, u, alvo)
      PROVE  IInv'
  BY <1>0, <1>1, <1>5, StartInv
     DEF RemoveUserRole, RequireRole, Operation, Role, DEFAULT_ROLE
<1>6. ASSUME NEW q \in Requests, NEW u \in Users, NEW alvo \in Users, NEW novo \in Role,
             AssignUserRole(q, u, alvo, novo)
      PROVE  IInv'
  BY <1>0, <1>1, <1>6, StartInv DEF AssignUserRole, RequireRole, Operation
<1>7. CASE UNCHANGED vars
  BY <1>7 DEF vars, IInv, TypeOK, AskedInv
<1> QED BY <1>0, <1>2, <1>3, <1>4, <1>5, <1>6, <1>7, CommitInv DEF Next, Step

LEMMA Invariant == Spec => []IInv
BY InitInv, NextInv, PTL DEF Spec

\* Every table and request has its type; no two users share a row.
THEOREM TypeCorrect == Spec => []TypeOK
BY Invariant, PTL DEF IInv

-----------------------------------------------------------------------------
\* The request answered by a step that changes the table is the one that
\* inserted, updated or deleted the row of its target, and no other row.
LEMMA TableStep ==
  ASSUME IInv, [Next]_vars, papeis' # papeis
  PROVE  \E q \in Requests :
           /\ Answered(q)
           /\ \A k \in Requests \ {q} : ~Answered(k)
           /\ \A v \in Users \ {req[q].alvo} : papeis'[v] = papeis[v]
           /\ (\E id \in RowIds : InsertRole(q, id)) \/ UpdateRole(q) \/ DeleteRole(q)
<1> USE DEF IInv
<1>1. PICK q \in Requests :
        (\E id \in RowIds : InsertRole(q, id)) \/ UpdateRole(q) \/ DeleteRole(q)
  BY DEF Next, Step, vars, CheckTarget, ReadAgain, RequestEnds, OAuthCallback,
         RemoveUserRole, AssignUserRole
<1>2. req[q] # Nenhum /\ req' = [req EXCEPT ![q] = Nenhum]
  BY <1>1 DEF InsertRole, UpdateRole, DeleteRole, At
<1>3. Answered(q) /\ \A k \in Requests \ {q} : ~Answered(k)
  BY <1>2 DEF Answered, TypeOK
<1>4. \A v \in Users \ {req[q].alvo} : papeis'[v] = papeis[v]
  BY <1>1 DEF InsertRole, UpdateRole, DeleteRole, TypeOK
<1> QED BY <1>1, <1>3, <1>4

\* Whoever becomes admin or super_admin does so by a request of a super_admin,
\* whatever registrations, logins and requests of admins run at the same time.
THEOREM NoOtherWayToAdmin == Spec => OnlySuperAdminMakesAdmins
<1>1. ASSUME IInv, [Next]_vars, NEW u \in Users,
             papeis'[u] # papeis[u], papeis'[u] # Nenhum, papeis'[u].role \in Admins
      PROVE  \E q \in Requests : Answered(q) /\ req[q].papel = "super_admin"
                                 /\ req[q].alvo = u
  <2>1. PICK q \in Requests :
          /\ Answered(q) /\ \A v \in Users \ {req[q].alvo} : papeis'[v] = papeis[v]
          /\ (\E id \in RowIds : InsertRole(q, id)) \/ UpdateRole(q) \/ DeleteRole(q)
    BY <1>1, TableStep
  <2>2. /\ req[q].alvo = u /\ req[q] # Nenhum /\ req[q] \in Request
        /\ papeis \in [Users -> Row \cup {Nenhum}]
    BY <1>1, <2>1 DEF IInv, TypeOK, Answered
  <2>3. ~DeleteRole(q)
    BY <1>1, <2>2 DEF DeleteRole
  <2>4. req[q].op # "remove" /\ papeis'[u].role = req[q].novo
    <3>1. CASE \E id \in RowIds : InsertRole(q, id)
      BY <2>2, <3>1 DEF InsertRole
    <3>2. CASE UpdateRole(q)
      <4>1. papeis[u] \in Row /\ papeis' = [papeis EXCEPT ![u].role = req[q].novo]
        BY <1>1, <2>2, <3>2 DEF UpdateRole, HoldsRow
      <4> QED BY <2>2, <3>2, <4>1 DEF UpdateRole, Row
    <3> QED BY <2>1, <2>3, <3>1, <3>2
  <2>5. req[q].op = "assign" /\ req[q].papel \in Admins /\ req[q].papel # "admin"
    BY <1>1, <2>2, <2>4 DEF IInv, TypeOK, AskedInv, Request, Operation, Admins
  <2> QED BY <2>1, <2>2, <2>5 DEF Admins
<1>2. IInv /\ [Next]_vars =>
        [\A u \in Users :
           /\ papeis'[u] # papeis[u]
           /\ papeis'[u] # Nenhum
           /\ papeis'[u].role \in Admins
           => \E q \in Requests : Answered(q) /\ req[q].papel = "super_admin"
                                  /\ req[q].alvo = u]_vars
  BY <1>1
<1> QED BY <1>2, Invariant, PTL DEF Spec, OnlySuperAdminMakesAdmins

-----------------------------------------------------------------------------
\* What a step does to the request of a slot: nothing, it opens it, it moves it on
\* without changing what it is about, or it ends it.
LEMMA SlotStep ==
  ASSUME IInv, Step, NEW p \in Requests, req'[p] # Nenhum
  PROVE  \/ req'[p] = req[p]
         \/ /\ req[p] # Nenhum /\ papeis' = papeis
            /\ req'[p].alvo = req[p].alvo /\ req'[p].op = req[p].op
            /\ req'[p].papel = req[p].papel
            /\ \/ req[p].pc # "target"
               \/ papeis[req[p].alvo] # Nenhum => papeis[req[p].alvo].role \notin Admins
         \/ /\ papeis' = papeis
            /\ req'[p].pc # "target" =>
                 IF req'[p].op = "oauth" THEN papeis[req'[p].alvo] = Nenhum
                                         ELSE req'[p].papel # "admin"
<1> USE DEF IInv
<1>1. req \in [Requests -> Request \cup {Nenhum}]
  BY DEF TypeOK
<1>2. ASSUME NEW q \in Requests,
             CheckTarget(q) \/ ReadAgain(q)
      PROVE  \/ req'[p] = req[p]
             \/ /\ req[p] # Nenhum /\ papeis' = papeis
                /\ req'[p].alvo = req[p].alvo /\ req'[p].op = req[p].op
                /\ req'[p].papel = req[p].papel
                /\ \/ req[p].pc # "target"
                   \/ papeis[req[p].alvo] # Nenhum =>
                        papeis[req[p].alvo].role \notin Admins
  <2>1. CASE p # q
    BY <1>1, <1>2, <2>1 DEF CheckTarget, ReadAgain
  <2>2. CASE p = q
    <3>1. /\ req[p] # Nenhum /\ req[p] \in Request /\ papeis' = papeis
          /\ \/ req[p].pc # "target"
             \/ papeis[req[p].alvo] # Nenhum => papeis[req[p].alvo].role \notin Admins
      BY <1>1, <1>2, <2>2 DEF CheckTarget, ReadAgain, At
    <3>2. PICK pc, lido : req' = [req EXCEPT ![p].pc = pc, ![p].lido = lido]
      BY <1>2, <2>2 DEF CheckTarget, ReadAgain
    <3>3. req'[p] = [req[p] EXCEPT !.pc = pc, !.lido = lido]
      BY <1>1, <3>2
    <3>4. /\ req'[p].alvo = req[p].alvo /\ req'[p].op = req[p].op
          /\ req'[p].papel = req[p].papel
      BY <3>1, <3>3 DEF Request
    <3> QED BY <3>1, <3>4
  <2> QED BY <2>1, <2>2
<1>3. ASSUME NEW q \in Requests,
             \/ \E id \in RowIds : InsertRole(q, id)
             \/ UpdateRole(q) \/ DeleteRole(q) \/ RequestEnds(q)
      PROVE  req'[p] = req[p]
  BY <1>1, <1>3 DEF InsertRole, UpdateRole, DeleteRole, RequestEnds
<1>4. ASSUME NEW q \in Requests, NEW u \in Users, NEW alvo \in Users, NEW novo \in Role,
             \/ OAuthCallback(q, u)
             \/ RemoveUserRole(q, u, alvo)
             \/ AssignUserRole(q, u, alvo, novo)
      PROVE  \/ req'[p] = req[p]
             \/ /\ papeis' = papeis
                /\ req'[p].pc # "target" =>
                     IF req'[p].op = "oauth" THEN papeis[req'[p].alvo] = Nenhum
                                             ELSE req'[p].papel # "admin"
  <2>1. CASE p # q
    BY <1>1, <1>4, <2>1 DEF OAuthCallback, RemoveUserRole, AssignUserRole, Start
  <2>2. CASE p = q
    BY <1>1, <1>4, <2>2 DEF OAuthCallback, RemoveUserRole, AssignUserRole, Start
  <2> QED BY <2>1, <2>2
<1>5. \E x \in Role : TRUE
  BY DEF Role
<1> QED BY <1>2, <1>3, <1>4, <1>5 DEF Step

LEMMA RaceNext == IInv /\ RaceInv /\ [Next]_vars => RaceInv'
<1> SUFFICES ASSUME IInv, RaceInv, [Next]_vars PROVE RaceInv'
  OBVIOUS
<1>1. CASE UNCHANGED vars
  BY <1>1 DEF vars, RaceInv
<1>2. CASE Next
  <2>1. \A q \in mexidos' : req'[q] # Nenhum
    BY <1>2 DEF Next, Raced
  <2>2. ASSUME NEW q \in Requests, q \notin mexidos', req'[q] # Nenhum,
               req'[q].pc # "target", papeis'[req'[q].alvo] # Nenhum
        PROVE  /\ req'[q].op # "oauth"
               /\ req'[q].papel = "admin" => papeis'[req'[q].alvo].role \notin Admins
    <3>1. q \notin mexidos /\ papeis'[req'[q].alvo] = papeis[req'[q].alvo]
      BY <1>2, <2>2 DEF Next, Raced
    <3>2. CASE req'[q] = req[q]
      BY <2>2, <3>1, <3>2 DEF RaceInv
    <3>3. CASE /\ req[q] # Nenhum /\ papeis' = papeis
               /\ req'[q].alvo = req[q].alvo /\ req'[q].op = req[q].op
               /\ req'[q].papel = req[q].papel
               /\ \/ req[q].pc # "target"
                  \/ papeis[req[q].alvo] # Nenhum => papeis[req[q].alvo].role \notin Admins
      BY <2>2, <3>1, <3>3 DEF RaceInv, IInv, AskedInv
    <3>4. CASE /\ papeis' = papeis
               /\ IF req'[q].op = "oauth" THEN papeis[req'[q].alvo] = Nenhum
                                          ELSE req'[q].papel # "admin"
      BY <2>2, <3>4
    <3> QED BY <1>2, <2>2, <3>2, <3>3, <3>4, SlotStep DEF Next
  <2> QED BY <2>1, <2>2 DEF RaceInv
<1> QED BY <1>1, <1>2

LEMMA RaceInvariant == Spec => [](IInv /\ RaceInv)
<1>1. Init => RaceInv
  BY DEF Init, RaceInv
<1> QED BY <1>1, InitInv, NextInv, RaceNext, PTL DEF Spec

\* A request that nobody raced on its target keeps the rules: an admin leaves
\* admins alone and a social login takes no role away.
THEOREM RulesHoldWithoutRaces == Spec => OnlyRacesBreakTheRules
<1>1. ASSUME IInv, RaceInv, [Next]_vars, NEW q \in Requests \ mexidos, Answered(q),
             papeis[req[q].alvo] # Nenhum,
             papeis'[req[q].alvo] # papeis[req[q].alvo]
      PROVE  /\ req[q].op # "oauth"
             /\ req[q].papel = "admin" => papeis[req[q].alvo].role \notin Admins
  <2>1. (\E id \in RowIds : InsertRole(q, id)) \/ UpdateRole(q) \/ DeleteRole(q)
    BY <1>1, TableStep
  <2>2. req[q] # Nenhum /\ req[q].pc = "gravar"
    BY <2>1 DEF InsertRole, UpdateRole, DeleteRole, At
  <2> QED BY <1>1, <2>2 DEF RaceInv
<1>2. IInv /\ RaceInv /\ [Next]_vars =>
        [\A q \in Requests \ mexidos :
           /\ Answered(q)
           /\ papeis[req[q].alvo] # Nenhum
           /\ papeis'[req[q].alvo] # papeis[req[q].alvo]
           => /\ req[q].op # "oauth"
              /\ req[q].papel = "admin" => papeis[req[q].alvo].role \notin Admins]_vars
  BY <1>1
<1> QED BY <1>2, RaceInvariant, PTL DEF Spec, OnlyRacesBreakTheRules
=============================================================================
