--------------------------- MODULE EtiquetasProofs ---------------------------
(***************************************************************************)
(* Proofs about Etiquetas, for any number of rows, events and concurrent   *)
(* requests.  The inductive invariant adds what the row locks guarantee of *)
(* the transactions that are replacing the tags of an event: the tags they *)
(* have inserted stay there, the event has them through no other row, and  *)
(* no two transactions share a row or an inserted tag (LockInv).  A second *)
(* one, AloneInv, says what a request that met no other can rely on.       *)
(***************************************************************************)
EXTENDS Etiquetas, FiniteSetTheorems, TLAPS

\* TypeOK without its history variables.
TypesInv ==
  /\ tabela \in Tabelas
  /\ nomes \in [Chaves -> Nomes \cup {Nulo, Nenhum}]
  /\ ligacoes \subseteq Ligacao
  /\ req \in [Requests -> NameRequest \cup SetRequest \cup {Nenhum}]
  /\ tabela # "tags" => ligacoes = {}
  /\ \A q \in Requests : At(q, "set", "insert") => req[q].linhas \subseteq ligacoes

HistInv ==
  /\ juntas \subseteq {q \in Requests : ~Idle(q)}
  /\ resposta \in Resposta \cup {Nenhum}

\* What a request holds: rows of its event, each tag once, and a name to write.
RequestOk(r) ==
  r # Nenhum =>
    /\ r.op = "set" => /\ tabela = "tags"
                       /\ r.feitas <= Len(r.pedidas)
                       /\ r.pc = "delete" => r.feitas = 0
                       /\ \A l \in r.linhas : l.evento = r.evento
                       /\ \A k, l \in r.linhas : k.tag = l.tag => k = l
    /\ r.op \in {"create", "update"} => r.nome # Nenhum

RequestsOk == \A q \in Requests : RequestOk(req[q])

LockInv ==
  \A q \in Requests : At(q, "set", "insert") =>
    /\ \A t \in Inseridas(q) : nomes[t] # Nenhum
    /\ \A l \in ligacoes \ req[q].linhas : l.evento = req[q].evento => l.tag \notin Inseridas(q)
    /\ \A p \in Requests \ {q} : At(p, "set", "insert") =>
         /\ req[p].linhas \cap req[q].linhas = {}
         /\ req[p].evento = req[q].evento => Inseridas(p) \cap Inseridas(q) = {}

RowInv == TypesInv /\ LinksAreSound /\ RequestsOk /\ LockInv

IInv == RowInv /\ HistInv

-----------------------------------------------------------------------------
(* Requests.                                                               *)

LEMMA Ops ==
  /\ \A r \in NameRequest : r # Nenhum /\ r.op \in {"create", "update", "delete"}
       /\ r.chave \in Chaves /\ r.nome \in Nomes \cup {Nulo, Nenhum}
  /\ \A r \in SetRequest : r # Nenhum /\ r.op = "set" /\ r.pc \in {"delete", "insert"}
       /\ r.evento \in Eventos /\ r.linhas \subseteq Ligacao /\ r.feitas \in 0..MaxPedidas
  BY NomesAssumption, SetAssumption DEF NameRequest, SetRequest

LEMMA SetLists ==
  ASSUME NEW r \in SetRequest
  PROVE  r.pedidas \in Seq(Chaves) /\ Len(r.pedidas) \in 0..MaxPedidas
<1>1. r.pedidas \in BoundedSeq(Chaves, MaxPedidas)
  BY DEF SetRequest
<1>2. PICK m \in 0..MaxPedidas : r.pedidas \in [1..m -> Chaves]
  BY <1>1 DEF BoundedSeq, SeqOf
<1> QED
  BY <1>2, SetAssumption

\* The history after each kind of access.
LEMMA HistStart ==
  ASSUME HistInv, NEW q \in Requests, NEW r, r # Nenhum,
         req \in [Requests -> NameRequest \cup SetRequest \cup {Nenhum}], Start(q, r)
  PROVE  HistInv'
  BY DEF HistInv, Start, Idle

LEMMA HistGoOn ==
  ASSUME HistInv, NEW q \in Requests, NEW r, r # Nenhum,
         req \in [Requests -> NameRequest \cup SetRequest \cup {Nenhum}], GoOn(q, r)
  PROVE  HistInv'
  BY DEF HistInv, GoOn, Idle

LEMMA HistAnswer ==
  ASSUME HistInv, NEW q \in Requests, NEW r \in NameRequest \cup SetRequest,
         NEW codigo \in {200, 404, 409, 500},
         req \in [Requests -> NameRequest \cup SetRequest \cup {Nenhum}], Answer(q, r, codigo)
  PROVE  HistInv'
<1>1. [a |-> r, codigo |-> codigo] \in Resposta
  BY DEF Resposta
<1>2. resposta' \in Resposta \cup {Nenhum}
  BY <1>1 DEF Answer
<1>3. juntas' \subseteq {p \in Requests : req'[p] # Nenhum}
  BY DEF Answer, HistInv, Idle
<1> QED
  BY <1>2, <1>3 DEF HistInv, Idle

\* A step that writes no row, of a request that is not left with inserted rows.
LEMMA Framed ==
  ASSUME RowInv, NEW q \in Requests, NEW r \in NameRequest \cup SetRequest \cup {Nenhum},
         RequestOk(r), r \in SetRequest => r.pc = "delete",
         req' = [req EXCEPT ![q] = r], UNCHANGED <<tabela, nomes, ligacoes>>
  PROVE  RowInv'
<1> USE DEF RowInv
<1>1. req'[q] = r /\ \A p \in Requests : p # q => req'[p] = req[p]
  BY DEF TypesInv
<1>2. ~At(q, "set", "insert")'
  BY <1>1, Ops DEF At
<1>3. \A p \in Requests : At(p, "set", "insert")' => p # q /\ At(p, "set", "insert")
  BY <1>1, <1>2 DEF At
<1>4. \A p \in Requests : p # q => Inseridas(p)' = Inseridas(p)
  BY <1>1 DEF Inseridas
<1>5. TypesInv'
  BY <1>1, <1>3 DEF TypesInv
<1>6. LinksAreSound'
  BY DEF LinksAreSound
<1>7. RequestsOk'
  BY <1>1 DEF RequestsOk, RequestOk
<1>8. LockInv'
  BY <1>1, <1>3, <1>4 DEF LockInv
<1> QED
  BY <1>5, <1>6, <1>7, <1>8

-----------------------------------------------------------------------------
(* The steps.                                                              *)

LEMMA InitIInv == Init => IInv
<1> SUFFICES ASSUME Init PROVE IInv
  OBVIOUS
<1> USE DEF Init, InitNomes
<1>1. \A q \in Requests : req[q] = Nenhum
  OBVIOUS
<1>2. TypesInv /\ RequestsOk
  BY <1>1 DEF TypesInv, RequestsOk, RequestOk, At
<1>3. LinksAreSound
  BY DEF LinksAreSound
<1>4. LockInv /\ HistInv
  BY <1>1 DEF LockInv, HistInv, At
<1> QED
  BY <1>2, <1>3, <1>4 DEF IInv, RowInv

\* The first access of a request on a name: it reads the row.
LEMMA NameStartStep ==
  ASSUME IInv, NEW q \in Requests, NewNameRequest(q), UNCHANGED ligacoes
  PROVE  IInv'
<1> USE DEF IInv, RowInv
<1>1. ASSUME NEW r \in NameRequest, RequestOk(r), Start(q, r), UNCHANGED <<tabela, nomes>>
      PROVE  IInv'
  <2>1. r \notin SetRequest /\ r # Nenhum
    BY Ops
  <2>2. req' = [req EXCEPT ![q] = r]
    BY <1>1 DEF Start
  <2>3. RowInv'
    BY <1>1, <2>1, <2>2, Framed
  <2>4. HistInv'
    BY <1>1, <2>1, HistStart DEF TypesInv
  <2> QED
    BY <2>3, <2>4
<1>2. ASSUME NEW r \in NameRequest, NEW codigo \in {200, 404, 409, 500},
             Answer(q, r, codigo), UNCHANGED <<tabela, nomes>>
      PROVE  IInv'
  <2>1. req' = [req EXCEPT ![q] = Nenhum] /\ RequestOk(Nenhum) /\ Nenhum \notin SetRequest
    BY <1>2, SetAssumption DEF Answer, RequestOk
  <2>2. RowInv'
    BY <1>2, <2>1, Framed
  <2>3. HistInv'
    BY <1>2, HistAnswer DEF TypesInv
  <2> QED
    BY <2>2, <2>3
<1>3. PICK u \in Users, c \in Chaves :
        \/ \E n \in Nomes \cup {Nulo} : Create(q, u, c, n) \/ Update(q, u, c, n)
        \/ Delete(q, u, c)
  BY DEF NewNameRequest
<1>4. ASSUME NEW n \in Nomes \cup {Nulo}, Create(q, u, c, n) PROVE IInv'
  <2> DEFINE r == [op |-> "create", pc |-> "gravar", chave |-> c, nome |-> n, lido |-> Nenhum]
  <2>1. r \in NameRequest /\ RequestOk(r)
    BY NomesAssumption DEF NameRequest, RequestOk
  <2>2. Start(q, r) \/ Answer(q, r, 409)
    BY <1>4 DEF Create
  <2>3. UNCHANGED <<tabela, nomes>>
    BY <1>4 DEF Create
  <2> QED
    BY <1>1, <1>2, <2>1, <2>2, <2>3
<1>5. ASSUME NEW n \in Nomes \cup {Nulo}, Update(q, u, c, n) PROVE IInv'
  <2> DEFINE r == [op |-> "update", pc |-> IF LooksUp(n) THEN "procurar" ELSE "gravar",
                   chave |-> c, nome |-> n, lido |-> nomes[c]]
  <2>1. r \in NameRequest /\ RequestOk(r)
    BY NomesAssumption DEF NameRequest, RequestOk, TypesInv
  <2>2. Start(q, r) \/ Answer(q, r, 404)
    BY <1>5 DEF Update
  <2>3. UNCHANGED <<tabela, nomes>>
    BY <1>5 DEF Update
  <2> QED
    BY <1>1, <1>2, <2>1, <2>2, <2>3
<1>6. CASE Delete(q, u, c)
  <2> DEFINE r == [op |-> "delete", pc |-> "gravar", chave |-> c, nome |-> Nenhum, lido |-> nomes[c]]
  <2>1. r \in NameRequest /\ RequestOk(r)
    BY NomesAssumption DEF NameRequest, RequestOk, TypesInv
  <2>2. Start(q, r) \/ Answer(q, r, 404)
    BY <1>6 DEF Delete
  <2>3. UNCHANGED <<tabela, nomes>>
    BY <1>6 DEF Delete
  <2> QED
    BY <1>1, <1>2, <2>1, <2>2, <2>3
<1> QED
  BY <1>3, <1>4, <1>5, <1>6

\* A request that is answered, or goes on with its name, and writes nothing.
LEMMA AnsweredStep ==
  ASSUME IInv, NEW q \in Requests, ~Idle(q), NEW codigo \in {200, 404, 409, 500},
         Answer(q, req[q], codigo), UNCHANGED <<tabela, nomes, ligacoes>>
  PROVE  IInv'
<1>1. req[q] \in NameRequest \cup SetRequest
  BY DEF IInv, RowInv, TypesInv, Idle
<1>2. req' = [req EXCEPT ![q] = Nenhum] /\ RequestOk(Nenhum) /\ Nenhum \notin SetRequest
  BY SetAssumption DEF Answer, RequestOk
<1>3. RowInv'
  BY <1>2, Framed DEF IInv
<1>4. HistInv'
  BY <1>1, HistAnswer DEF IInv, RowInv, TypesInv
<1> QED
  BY <1>3, <1>4 DEF IInv

LEMMA LookUpStep ==
  ASSUME IInv, NEW q \in Requests, LookUp(q), UNCHANGED ligacoes
  PROVE  IInv'
<1> DEFINE r == [req[q] EXCEPT !.pc = "gravar"]
<1>1. ~Idle(q) /\ req[q].op = "update" /\ UNCHANGED <<tabela, nomes>>
  BY DEF LookUp, At, Idle
<1>2. req[q] \in NameRequest
  BY <1>1, Ops DEF IInv, RowInv, TypesInv, Idle
<1>3. r \in NameRequest /\ r.op = "update" /\ r.nome = req[q].nome
  BY <1>1, <1>2 DEF NameRequest
<1>4. RequestOk(req[q])
  BY DEF IInv, RowInv, RequestsOk
<1>5. RequestOk(r)
  BY <1>1, <1>3, <1>4 DEF RequestOk, Idle
<1>6. r # Nenhum /\ r \notin SetRequest
  BY <1>3, Ops
<1>7. Answer(q, req[q], 409) \/ GoOn(q, r)
  BY DEF LookUp
<1>8. ASSUME GoOn(q, r) PROVE IInv'
  <2>1. req' = [req EXCEPT ![q] = r]
    BY <1>8 DEF GoOn
  <2> QED
    BY <1>1, <1>3, <1>5, <1>6, <1>8, <2>1, Framed, HistGoOn DEF IInv, RowInv, TypesInv
<1> QED
  BY <1>1, <1>7, <1>8, AnsweredStep

LEMMA RefreshStep ==
  ASSUME IInv, NEW q \in Requests, Refresh(q), UNCHANGED ligacoes
  PROVE  IInv'
<1>1. ~Idle(q) /\ UNCHANGED <<tabela, nomes>>
  BY DEF Refresh, At, Idle
<1>2. Answer(q, req[q], 500) \/ Answer(q, req[q], 200)
  BY DEF Refresh
<1> QED
  BY <1>1, <1>2, AnsweredStep

LEMMA EndStep ==
  ASSUME IInv, NEW q \in Requests, RequestEnds(q), UNCHANGED ligacoes
  PROVE  IInv'
<1>1. req' = [req EXCEPT ![q] = Nenhum] /\ UNCHANGED <<tabela, nomes, ligacoes>>
  BY DEF RequestEnds
<1>2. RowInv'
  BY <1>1, SetAssumption, Framed DEF IInv, RequestOk
<1>3. HistInv'
  BY DEF IInv, RowInv, TypesInv, HistInv, RequestEnds, Idle
<1> QED
  BY <1>2, <1>3 DEF IInv

LEMMA DeadlockStep ==
  ASSUME IInv, NEW q \in Requests, Deadlock(q)
  PROVE  IInv'
<1>1. ~Idle(q)
  BY DEF Deadlock, OnCycle, WaitsFor, FaltaInserir, At, Idle
<1> QED
  BY <1>1, AnsweredStep DEF Deadlock

\* The DELETE starts on the event's rows, which are sound.
LEMMA SetStartStep ==
  ASSUME IInv, NEW q \in Requests, NEW u \in Users, NEW e \in Eventos,
         NEW ts \in BoundedSeq(Chaves, MaxPedidas), SetEventTags(q, u, e, ts)
  PROVE  IInv'
<1> DEFINE r == [op |-> "set", pc |-> "delete", evento |-> e, pedidas |-> ts,
                 linhas |-> LinhasDe(e), feitas |-> 0]
<1>1. r \in SetRequest /\ r.pc = "delete"
  BY SetAssumption DEF SetRequest, LinhasDe, IInv, RowInv, TypesInv
<1>2. Len(ts) \in Nat
  BY <1>1, SetLists
<1>3. RequestOk(r)
  <2>1. \A k, l \in LinhasDe(e) : k.evento = e /\ (k.tag = l.tag => k = l)
    BY DEF LinhasDe, IInv, RowInv, LinksAreSound
  <2> QED
    BY <1>2, <2>1 DEF RequestOk, SetEventTags
<1>4. (Start(q, r) \/ Answer(q, r, 404)) /\ UNCHANGED <<tabela, nomes, ligacoes>>
  BY DEF SetEventTags
<1> HIDE DEF r
<1>5. CASE Start(q, r)
  <2>1. req' = [req EXCEPT ![q] = r] /\ r # Nenhum
    BY <1>1, <1>5, Ops DEF Start
  <2>2. RowInv'
    BY <1>1, <1>3, <1>4, <2>1, Framed DEF IInv
  <2>3. HistInv'
    BY <1>5, <2>1, HistStart DEF IInv, RowInv, TypesInv
  <2> QED
    BY <2>2, <2>3 DEF IInv
<1>6. CASE Answer(q, r, 404)
  <2>1. req' = [req EXCEPT ![q] = Nenhum] /\ RequestOk(Nenhum) /\ Nenhum \notin SetRequest
    BY <1>6, SetAssumption DEF Answer, RequestOk
  <2>2. RowInv'
    BY <1>4, <2>1, Framed DEF IInv
  <2>3. HistInv'
    BY <1>1, <1>6, HistAnswer DEF IInv, RowInv, TypesInv
  <2> QED
    BY <2>2, <2>3 DEF IInv
<1> QED
  BY <1>4, <1>5, <1>6

\* The DELETE gets its locks: nobody else is deleting one of the rows.
LEMMA DeleteRowsStep ==
  ASSUME IInv, NEW q \in Requests, DeleteRows(q)
  PROVE  IInv'
<1> DEFINE r == [req[q] EXCEPT !.pc = "insert", !.linhas = @ \cap ligacoes]
<1> USE DEF IInv, RowInv
<1>1. At(q, "set", "delete") /\ WaitsFor(q) = {} /\ GoOn(q, r) /\ UNCHANGED <<tabela, nomes, ligacoes>>
  BY DEF DeleteRows
<1>2. req[q] \in SetRequest
  BY <1>1, Ops DEF TypesInv, At
<1>3. /\ r \in SetRequest /\ r.evento = req[q].evento /\ r.linhas = req[q].linhas \cap ligacoes
      /\ r.pedidas = req[q].pedidas /\ r.feitas = req[q].feitas /\ r.op = "set"
      /\ r.pc = "insert"
  BY <1>2 DEF SetRequest, TypesInv
<1> HIDE DEF r
<1>4. req' = [req EXCEPT ![q] = r] /\ r # Nenhum
  BY <1>1, <1>3, Ops DEF GoOn
<1>5. req'[q] = r /\ \A p \in Requests : p # q => req'[p] = req[p]
  BY <1>4 DEF TypesInv
<1>6. HistInv'
  BY <1>1, <1>4, HistGoOn DEF TypesInv
<1>7. TypesInv'
  BY <1>1, <1>3, <1>4, <1>5 DEF TypesInv, At
<1>8. LinksAreSound'
  BY <1>1 DEF LinksAreSound
<1>9. RequestsOk'
  <2>1. RequestOk(req[q])
    BY DEF RequestsOk
  <2>2. RequestOk(r)
    BY <1>2, <1>3, <2>1, Ops DEF RequestOk
  <2> QED
    BY <1>1, <1>5, <2>2 DEF RequestsOk, RequestOk
<1>10. LockInv'
  <2>1. req[q].feitas = 0
    BY <1>1, <1>2, Ops DEF RequestsOk, RequestOk, At
  <2>2. Inseridas(q)' = {}
    BY <1>3, <1>5, <2>1 DEF Inseridas
  <2>3. \A p \in Requests : p # q =>
          /\ At(p, "set", "insert")' <=> At(p, "set", "insert")
          /\ Inseridas(p)' = Inseridas(p)
    BY <1>5 DEF At, Inseridas
  <2>4. \A p \in Requests : p # q /\ At(p, "set", "insert") => req[p].linhas \cap req[q].linhas = {}
    BY <1>1 DEF WaitsFor, Outras
  <2>5. ASSUME NEW p \in Requests, At(p, "set", "insert")', p # q
        PROVE  /\ \A t \in Inseridas(p)' : nomes'[t] # Nenhum
               /\ \A l \in ligacoes' \ req'[p].linhas : l.evento = req'[p].evento => l.tag \notin Inseridas(p)'
    BY <1>1, <1>5, <2>3, <2>5 DEF LockInv
  <2>6. ASSUME NEW p \in Requests, At(p, "set", "insert")', p # q,
               NEW o \in Requests \ {p}, At(o, "set", "insert")', o # q
        PROVE  /\ req'[o].linhas \cap req'[p].linhas = {}
               /\ req'[o].evento = req'[p].evento => Inseridas(o)' \cap Inseridas(p)' = {}
    BY <1>5, <2>3, <2>6 DEF LockInv
  <2>7. ASSUME NEW p \in Requests, At(p, "set", "insert")', p # q
        PROVE  req'[p].linhas \cap req'[q].linhas = {}
    BY <1>3, <1>5, <2>3, <2>4, <2>7
  <2> QED
    BY <2>2, <2>5, <2>6, <2>7 DEF LockInv
<1> QED
  BY <1>6, <1>7, <1>8, <1>9, <1>10

\* An INSERT: the tag is there, no committed row that stays has it, and whoever
\* else is inserting for the event has another one.
LEMMA InsertRowStep ==
  ASSUME IInv, NEW q \in Requests, InsertRow(q)
  PROVE  IInv'
<1> DEFINE r == [req[q] EXCEPT !.feitas = @ + 1]
           t == Proxima(q)
           e == req[q].evento
<1> USE DEF IInv, RowInv
<1>1. /\ At(q, "set", "insert") /\ ~Idle(q) /\ FaltaInserir(q) /\ WaitsFor(q) = {}
      /\ UNCHANGED <<tabela, nomes, ligacoes>>
  BY DEF InsertRow, FaltaInserir, At, Idle
<1>2. Answer(q, req[q], 500) \/ GoOn(q, r)
  BY DEF InsertRow
<1>3. ASSUME GoOn(q, r) PROVE IInv'
  <2>1. req[q] \in SetRequest
    BY <1>1, Ops DEF TypesInv, At
  <2>2. /\ req[q].pedidas \in Seq(Chaves) /\ req[q].feitas \in Nat
        /\ req[q].feitas < Len(req[q].pedidas) /\ Len(req[q].pedidas) \in 0..MaxPedidas
    BY <1>1, <2>1, SetLists, Ops, SetAssumption DEF FaltaInserir
  <2>3. /\ r \in SetRequest /\ r.evento = e /\ r.linhas = req[q].linhas /\ r.op = "set"
        /\ r.pedidas = req[q].pedidas /\ r.feitas = req[q].feitas + 1 /\ r.pc = "insert"
    BY <1>1, <2>1, <2>2, SetAssumption DEF SetRequest, At
  <2>4. t \in Chaves /\ t = req[q].pedidas[req[q].feitas + 1]
    BY <2>2 DEF Proxima
  <2>5. /\ nomes[t] # Nenhum /\ t \notin Inseridas(q)
        /\ \A l \in ligacoes \ req[q].linhas : l.evento = e => l.tag # t
    <3>1. req'[q] # Nenhum
      BY <1>3, <2>3, Ops DEF GoOn, TypesInv
    <3>2. ~Answer(q, req[q], 500)
      BY <3>1 DEF Answer, TypesInv
    <3> QED
      BY <3>2 DEF InsertRow, LinhasDe
  <2> HIDE DEF r, t
  <2>6. req' = [req EXCEPT ![q] = r] /\ r # Nenhum
    BY <1>3, <2>3, Ops DEF GoOn
  <2>7. req'[q] = r /\ \A p \in Requests : p # q => req'[p] = req[p]
    BY <2>6 DEF TypesInv
  <2>8. HistInv'
    BY <1>3, <2>6, HistGoOn DEF TypesInv
  <2>9. TypesInv'
    BY <1>1, <2>3, <2>6, <2>7 DEF TypesInv, At
  <2>10. LinksAreSound'
    BY <1>1 DEF LinksAreSound
  <2>11. RequestsOk'
    <3>1. RequestOk(req[q]) /\ req[q] # Nenhum
      BY <1>1 DEF RequestsOk, At, Idle
    <3>2. RequestOk(r)
      BY <2>1, <2>2, <2>3, <3>1, Ops DEF RequestOk
    <3> QED
      BY <1>1, <2>7, <3>2 DEF RequestsOk, RequestOk
  <2>12. Inseridas(q)' = Inseridas(q) \cup {t}
    <3>1. Inseridas(q)' = {req[q].pedidas[k] : k \in 1..(req[q].feitas + 1)}
      BY <2>3, <2>7 DEF Inseridas
    <3>2. 1..(req[q].feitas + 1) = (1..req[q].feitas) \cup {req[q].feitas + 1}
      BY <2>2
    <3> QED
      BY <2>4, <3>1, <3>2 DEF Inseridas
  <2>13. \A p \in Requests : p # q =>
          /\ At(p, "set", "insert")' <=> At(p, "set", "insert")
          /\ Inseridas(p)' = Inseridas(p)
    BY <2>7 DEF At, Inseridas
  <2>14. \A p \in Requests : p # q /\ At(p, "set", "insert") /\ req[p].evento = e => t \notin Inseridas(p)
    BY <1>1 DEF WaitsFor, Outras, t
  <2>15. LockInv'
    <3>1. ASSUME NEW p \in Requests, At(p, "set", "insert")'
          PROVE  /\ \A k \in Inseridas(p)' : nomes'[k] # Nenhum
                 /\ \A l \in ligacoes' \ req'[p].linhas : l.evento = req'[p].evento => l.tag \notin Inseridas(p)'
      BY <1>1, <2>3, <2>5, <2>7, <2>12, <2>13, <3>1 DEF LockInv
    <3>2. ASSUME NEW p \in Requests, At(p, "set", "insert")',
                 NEW o \in Requests \ {p}, At(o, "set", "insert")'
          PROVE  /\ req'[o].linhas \cap req'[p].linhas = {}
                 /\ req'[o].evento = req'[p].evento => Inseridas(o)' \cap Inseridas(p)' = {}
      <4>1. /\ At(p, "set", "insert") /\ At(o, "set", "insert")
            /\ req'[p].linhas = req[p].linhas /\ req'[o].linhas = req[o].linhas
            /\ req'[p].evento = req[p].evento /\ req'[o].evento = req[o].evento
        BY <1>1, <2>3, <2>7, <2>13, <3>2
      <4>2. /\ req[o].linhas \cap req[p].linhas = {}
            /\ req[o].evento = req[p].evento => Inseridas(o) \cap Inseridas(p) = {}
        BY <4>1 DEF LockInv
      <4>3. CASE p # q /\ o # q
        BY <2>13, <4>1, <4>2, <4>3
      <4>4. CASE p = q
        BY <2>12, <2>13, <2>14, <4>1, <4>2, <4>4
      <4>5. CASE o = q
        BY <2>12, <2>13, <2>14, <4>1, <4>2, <4>5
      <4> QED
        BY <4>3, <4>4, <4>5
    <3> QED
      BY <3>1, <3>2 DEF LockInv
  <2> QED
    BY <2>8, <2>9, <2>10, <2>11, <2>15
<1> QED
  BY <1>1, <1>2, <1>3, AnsweredStep

LEMMA InseridasTypes ==
  ASSUME RowInv, NEW p \in Requests, At(p, "set", "insert")
  PROVE  Inseridas(p) \subseteq Chaves
<1>1. req[p] \in SetRequest /\ req[p].feitas <= Len(req[p].pedidas)
  BY Ops DEF RowInv, TypesInv, At, RequestsOk, RequestOk
<1>2. req[p].pedidas \in Seq(Chaves) /\ req[p].feitas \in Nat
  BY <1>1, SetLists, Ops, SetAssumption
<1> QED
  BY <1>1, <1>2 DEF Inseridas

\* The commit of a name: a row that was there has one, before and after.
LEMMA SaveRowStep ==
  ASSUME IInv, NEW q \in Requests, SaveRow(q)
  PROVE  IInv'
<1> DEFINE r == [req[q] EXCEPT !.pc = "refresh"]
           c == req[q].chave
<1> USE DEF IInv, RowInv
<1>1. ~Idle(q) /\ req[q].op \in {"create", "update"} /\ UNCHANGED <<tabela, ligacoes>>
  BY DEF SaveRow, Save, At, Idle
<1>2. req[q] \in NameRequest /\ c \in Chaves /\ req[q].nome \in Nomes \cup {Nulo, Nenhum}
  BY <1>1, Ops DEF TypesInv, Idle
<1>3. RequestOk(req[q]) /\ req[q].nome # Nenhum
  BY <1>1 DEF RequestsOk, RequestOk, Idle
<1>4. CASE nomes' = [nomes EXCEPT ![c] = req[q].nome] /\ GoOn(q, r)
  <2>1. r \in NameRequest /\ r.op = req[q].op /\ r.nome = req[q].nome
    BY <1>2 DEF NameRequest
  <2> HIDE DEF r
  <2>2. req' = [req EXCEPT ![q] = r] /\ r # Nenhum /\ r.op # "set"
    BY <1>1, <1>4, <2>1, Ops DEF GoOn
  <2>3. req'[q] = r /\ \A p \in Requests : p # q => req'[p] = req[p]
    BY <2>2 DEF TypesInv
  <2>4. /\ \A d \in Chaves : nomes[d] # Nenhum => nomes'[d] # Nenhum
        /\ nomes' \in [Chaves -> Nomes \cup {Nulo, Nenhum}]
    BY <1>2, <1>3, <1>4 DEF TypesInv
  <2>5. \A p \in Requests : At(p, "set", "insert")' => p # q /\ At(p, "set", "insert")
    BY <2>2, <2>3 DEF At
  <2>6. \A p \in Requests : p # q => Inseridas(p)' = Inseridas(p)
    BY <2>3 DEF Inseridas
  <2>7. TypesInv'
    BY <1>1, <2>1, <2>2, <2>3, <2>4, <2>5 DEF TypesInv
  <2>8. LinksAreSound'
    <3>1. \A l \in ligacoes : l.tag \in Chaves
      BY DEF TypesInv, Ligacao
    <3> QED
      BY <1>1, <2>4, <3>1 DEF LinksAreSound
  <2>9. RequestsOk'
    BY <1>1, <1>3, <2>1, <2>2, <2>3 DEF RequestsOk, RequestOk
  <2>10. LockInv'
    <3>1. \A p \in Requests : At(p, "set", "insert") => Inseridas(p) \subseteq Chaves
      BY InseridasTypes
    <3> QED
      BY <1>1, <2>3, <2>4, <2>5, <2>6, <3>1 DEF LockInv
  <2>11. HistInv'
    BY <1>4, <2>2, HistGoOn DEF TypesInv, r
  <2> QED
    BY <2>7, <2>8, <2>9, <2>10, <2>11
<1>5. CASE UNCHANGED nomes /\ (Answer(q, req[q], 409) \/ Answer(q, req[q], 500))
  BY <1>1, <1>5, AnsweredStep
<1> QED
  BY <1>4, <1>5 DEF SaveRow, Save

\* The commit of a deletion: no transaction has inserted, or is deleting, a row of
\* the tag.
LEMMA DeleteRowStep ==
  ASSUME IInv, NEW q \in Requests, DeleteRow(q)
  PROVE  IInv'
<1> DEFINE c == req[q].chave
<1> USE DEF IInv, RowInv
<1>1. /\ ~Idle(q) /\ At(q, "delete", "gravar") /\ WaitsFor(q) = {} /\ UNCHANGED tabela
      /\ nomes' = [nomes EXCEPT ![c] = Nenhum] /\ Answer(q, req[q], 200)
      /\ ligacoes' = ligacoes \ LinhasDaTag(c)
  BY DEF DeleteRow, RepoDelete, At, Idle
<1>2. req[q] \in NameRequest /\ c \in Chaves
  BY <1>1, Ops DEF TypesInv, At
<1>3. req' = [req EXCEPT ![q] = Nenhum]
  BY <1>1 DEF Answer
<1>4. req'[q] = Nenhum /\ \A p \in Requests : p # q => req'[p] = req[p]
  BY <1>3 DEF TypesInv
<1>5. \A p \in Requests : At(p, "set", "insert")' => p # q /\ At(p, "set", "insert")
  BY <1>4 DEF At
<1>6. \A p \in Requests : At(p, "set", "insert") =>
        c \notin Inseridas(p) /\ \A l \in req[p].linhas : l.tag # c
  BY <1>1 DEF WaitsFor, Outras, ApagandoTag, At, FaltaInserir
<1>7. \A p \in Requests : p # q => Inseridas(p)' = Inseridas(p)
  BY <1>4 DEF Inseridas
<1>8. /\ nomes' \in [Chaves -> Nomes \cup {Nulo, Nenhum}]
      /\ \A d \in Chaves : d # c => nomes'[d] = nomes[d]
  BY <1>1, <1>2 DEF TypesInv
<1>9. \A l \in ligacoes' : l \in ligacoes /\ l.tag # c /\ l.tag \in Chaves
  BY <1>1 DEF LinhasDaTag, TypesInv, Ligacao
<1>10. TypesInv'
  BY <1>1, <1>3, <1>4, <1>5, <1>6, <1>8 DEF TypesInv, LinhasDaTag
<1>11. LinksAreSound'
  BY <1>8, <1>9 DEF LinksAreSound
<1>12. RequestsOk'
  BY <1>1, <1>4 DEF RequestsOk, RequestOk
<1>13. LockInv'
  <2>1. \A p \in Requests : At(p, "set", "insert") => \A t \in Inseridas(p) : t \in Chaves
    BY InseridasTypes DEF At
  <2>2. ASSUME NEW p \in Requests, At(p, "set", "insert")'
        PROVE  /\ \A t \in Inseridas(p)' : nomes'[t] # Nenhum
               /\ \A l \in ligacoes' \ req'[p].linhas : l.evento = req'[p].evento => l.tag \notin Inseridas(p)'
    BY <1>4, <1>5, <1>6, <1>7, <1>8, <1>9, <2>1, <2>2 DEF LockInv
  <2>3. ASSUME NEW p \in Requests, At(p, "set", "insert")',
               NEW o \in Requests \ {p}, At(o, "set", "insert")'
        PROVE  /\ req'[o].linhas \cap req'[p].linhas = {}
               /\ req'[o].evento = req'[p].evento => Inseridas(o)' \cap Inseridas(p)' = {}
    BY <1>4, <1>5, <1>7, <2>3 DEF LockInv
  <2> QED
    BY <2>2, <2>3 DEF LockInv
<1>14. HistInv'
  BY <1>1, <1>2, HistAnswer DEF TypesInv
<1> QED
  BY <1>10, <1>11, <1>12, <1>13, <1>14

\* There is a key for a new row: each of the requests, the committing one standing
\* for the table, has at most one row of the event and the tag.
LEMMA NewRow ==
  ASSUME RowInv, NEW q \in Requests, At(q, "set", "insert"), NEW e \in Eventos, NEW t \in Chaves
  PROVE  NovaLinha(e, t) \in Ligacao /\ NovaLinha(e, t).evento = e /\ NovaLinha(e, t).tag = t
<1> DEFINE N == Cardinality(Requests)
           row(i) == [evento |-> e, tag |-> t, id |-> i]
           sets == {r \in Requests : ~Idle(r) /\ req[r].op = "set"}
           em_uso == ligacoes \cup UNION {req[p].linhas : p \in sets}
           f == [i \in 0..N |-> IF row(i) \in ligacoes THEN q
                                ELSE CHOOSE p \in sets : p # q /\ row(i) \in req[p].linhas]
<1>1. N \in Nat /\ IsFiniteSet(0..N) /\ Cardinality(0..N) = N + 1
  BY SetAssumption, FS_CardinalityType, FS_Interval
<1>2. \E i \in 0..N : row(i) \notin em_uso
  <2> SUFFICES ASSUME \A i \in 0..N : row(i) \in em_uso PROVE FALSE
    OBVIOUS
  <2>1. q \in sets /\ req[q].linhas \subseteq ligacoes
    BY DEF At, Idle, RowInv, TypesInv
  <2>2. ASSUME NEW i \in 0..N
        PROVE  /\ f[i] \in Requests
               /\ row(i) \in ligacoes => f[i] = q
               /\ row(i) \notin ligacoes => f[i] \in sets /\ f[i] # q /\ row(i) \in req[f[i]].linhas
    <3>1. CASE row(i) \in ligacoes
      BY <3>1
    <3>2. CASE row(i) \notin ligacoes
      <4>1. \E p \in sets : p # q /\ row(i) \in req[p].linhas
        BY <2>1, <3>2
      <4> QED
        BY <3>2, <4>1
    <3> QED
      BY <3>1, <3>2
  <2>3. f \in [0..N -> Requests]
    BY <2>2
  <2>4. PICK i, j \in 0..N : i # j /\ f[i] = f[j]
    <3> HIDE DEF f, N
    <3> QED
      BY <1>1, <2>3, FS_PigeonHole, SetAssumption DEF N
  <2>5. row(i) # row(j) /\ row(i).tag = row(j).tag /\ row(i).evento = row(j).evento
    BY <2>4
  <2>6. CASE row(i) \in ligacoes
    <3>1. row(j) \in ligacoes
      BY <2>2, <2>4, <2>6
    <3> QED
      BY <2>5, <2>6, <3>1 DEF RowInv, LinksAreSound
  <2>7. CASE row(i) \notin ligacoes
    <3>1. f[i] \in sets /\ row(i) \in req[f[i]].linhas /\ row(j) \in req[f[i]].linhas
      BY <2>2, <2>4, <2>7
    <3>2. RequestOk(req[f[i]])
      BY <3>1 DEF RowInv, RequestsOk
    <3> QED
      BY <2>5, <3>1, <3>2 DEF RequestOk, Idle
  <2> QED
    BY <2>6, <2>7
<1>3. NovaLinha(e, t) = row(CHOOSE i \in 0..N : row(i) \notin em_uso)
  BY DEF NovaLinha
<1>4. (CHOOSE i \in 0..N : row(i) \notin em_uso) \in 0..N
  BY <1>2
<1> QED
  BY <1>3, <1>4 DEF Ligacao

\* The commit of a list.
LEMMA CommitTagsStep ==
  ASSUME IInv, NEW q \in Requests, CommitTags(q)
  PROVE  IInv'
<1> DEFINE e == req[q].evento
           novas == {NovaLinha(e, t) : t \in Inseridas(q)}
<1> USE DEF IInv, RowInv
<1>1. /\ At(q, "set", "insert") /\ Answer(q, req[q], 200) /\ UNCHANGED <<tabela, nomes>>
      /\ ligacoes' = (ligacoes \ req[q].linhas) \cup novas
  BY DEF CommitTags
<1>2. req[q] \in SetRequest /\ e \in Eventos /\ tabela = "tags" /\ \A t \in Inseridas(q) : t \in Chaves
  BY <1>1, Ops, InseridasTypes DEF TypesInv, At, RequestsOk, RequestOk
<1>3. req' = [req EXCEPT ![q] = Nenhum]
  BY <1>1 DEF Answer
<1>4. req'[q] = Nenhum /\ \A p \in Requests : p # q => req'[p] = req[p]
  BY <1>3 DEF TypesInv
<1>5. \A p \in Requests : At(p, "set", "insert")' => p # q /\ At(p, "set", "insert")
  BY <1>4 DEF At
<1>6. \A p \in Requests : p # q => Inseridas(p)' = Inseridas(p)
  BY <1>4 DEF Inseridas
<1>7. \A l \in novas : l \in Ligacao /\ l.evento = e /\ l.tag \in Inseridas(q) /\ l = NovaLinha(e, l.tag)
  BY <1>1, <1>2, NewRow
<1> HIDE DEF novas
<1>8. TypesInv'
  BY <1>1, <1>2, <1>3, <1>4, <1>5, <1>7 DEF TypesInv, LockInv
<1>9. LinksAreSound'
  <2>1. ASSUME NEW l \in ligacoes' PROVE nomes'[l.tag] # Nenhum
    BY <1>1, <1>7 DEF LinksAreSound, LockInv
  <2>2. ASSUME NEW l \in ligacoes', NEW k \in ligacoes', k # l, k.evento = l.evento, k.tag = l.tag
        PROVE  FALSE
    <3>1. CASE l \in novas /\ k \in novas
      BY <1>7, <2>2, <3>1
    <3>2. CASE l \in novas /\ k \in ligacoes \ req[q].linhas
      BY <1>1, <1>7, <2>2, <3>2 DEF LockInv
    <3>3. CASE k \in novas /\ l \in ligacoes \ req[q].linhas
      BY <1>1, <1>7, <2>2, <3>3 DEF LockInv
    <3>4. CASE l \in ligacoes /\ k \in ligacoes
      BY <2>2, <3>4 DEF LinksAreSound
    <3> QED
      BY <1>1, <3>1, <3>2, <3>3, <3>4
  <2> QED
    BY <2>1, <2>2 DEF LinksAreSound
<1>10. RequestsOk'
  BY <1>1, <1>4 DEF RequestsOk, RequestOk
<1>11. LockInv'
  <2>1. ASSUME NEW p \in Requests, At(p, "set", "insert")', NEW l \in ligacoes' \ req'[p].linhas,
               l.evento = req'[p].evento
        PROVE  l.tag \notin Inseridas(p)'
    <3>1. /\ p # q /\ At(p, "set", "insert") /\ req'[p] = req[p] /\ Inseridas(p)' = Inseridas(p)
      BY <1>4, <1>5, <1>6, <2>1
    <3>2. CASE l \in novas
      BY <1>1, <1>7, <2>1, <3>1, <3>2 DEF LockInv
    <3>3. CASE l \in ligacoes
      BY <2>1, <3>1, <3>3 DEF LockInv
    <3> QED
      BY <1>1, <3>2, <3>3
  <2>2. ASSUME NEW p \in Requests, At(p, "set", "insert")'
        PROVE  \A t \in Inseridas(p)' : nomes'[t] # Nenhum
    BY <1>1, <1>5, <1>6, <2>2 DEF LockInv
  <2>3. ASSUME NEW p \in Requests, At(p, "set", "insert")',
               NEW o \in Requests \ {p}, At(o, "set", "insert")'
        PROVE  /\ req'[o].linhas \cap req'[p].linhas = {}
               /\ req'[o].evento = req'[p].evento => Inseridas(o)' \cap Inseridas(p)' = {}
    BY <1>4, <1>5, <1>6, <2>3 DEF LockInv
  <2> QED
    BY <2>1, <2>2, <2>3 DEF LockInv
<1>12. HistInv'
  BY <1>1, <1>2, HistAnswer DEF TypesInv
<1> QED
  BY <1>8, <1>9, <1>10, <1>11, <1>12

LEMMA NextIInv == IInv /\ [Next]_vars => IInv'
<1> SUFFICES ASSUME IInv, [Next]_vars PROVE IInv'
  OBVIOUS
<1>1. ASSUME NEW q \in Requests, Step(q) PROVE IInv'
  BY <1>1, LookUpStep, RefreshStep, SaveRowStep, DeleteRowStep, DeleteRowsStep, InsertRowStep,
     CommitTagsStep, DeadlockStep DEF Step
<1>2. ASSUME NEW q \in Requests,
             \E u \in Users, e \in Eventos, ts \in BoundedSeq(Chaves, MaxPedidas) : SetEventTags(q, u, e, ts)
      PROVE  IInv'
  BY <1>2, SetStartStep
<1>3. CASE UNCHANGED vars
  <2>1. UNCHANGED <<tabela, nomes, req, juntas, resposta, ligacoes>>
    BY <1>3 DEF vars, varsNomes
  <2>2. TypesInv' /\ HistInv'
    BY <2>1 DEF IInv, RowInv, TypesInv, HistInv, At, Idle
  <2>3. LinksAreSound' /\ RequestsOk'
    BY <2>1 DEF IInv, RowInv, LinksAreSound, RequestsOk, RequestOk
  <2>4. LockInv'
    <3>1. \A p \in Requests : /\ At(p, "set", "insert")' <=> At(p, "set", "insert")
                              /\ Inseridas(p)' = Inseridas(p)
      BY <2>1 DEF At, Inseridas
    <3> QED
      BY <2>1, <3>1 DEF IInv, RowInv, LockInv
  <2> QED
    BY <2>2, <2>3, <2>4 DEF IInv, RowInv
<1> QED
  BY <1>1, <1>2, <1>3, NameStartStep, EndStep DEF Next

LEMMA Invariant == Spec => []IInv
  BY InitIInv, NextIInv, PTL DEF Spec

-----------------------------------------------------------------------------
\* Rows, requests and answers keep their types; what a transaction is deleting is
\* there until it commits.
THEOREM TypeCorrect == Spec => []TypeOK
<1>1. IInv => TypeOK
  BY DEF IInv, RowInv, TypesInv, HistInv, TypeOK
<1> QED
  BY <1>1, Invariant, PTL

\* An event names only tags that exist, each once: PUTs of its tags, renames and
\* deletions of tags in any interleaving the row locks allow.
THEOREM LinksStaySound == Spec => []LinksAreSound
<1>1. IInv => LinksAreSound
  BY DEF IInv, RowInv
<1> QED
  BY <1>1, Invariant, PTL

\* An event loses a tag only to the commit of a whole list without it or to the
\* deletion of the tag: a list that fails on one of its tags takes none away.
THEOREM TagsAreNotLost == Spec => NoTagIsLostHalfway
<1> DEFINE A == \A e \in Eventos, t \in Chaves :
       t \in TagsDe(e) /\ t \notin TagsDe(e)'
       => \E q \in Requests :
            /\ ~Idle(q) /\ req'[q] = Nenhum
            /\ \/ req[q].op = "delete" /\ req[q].chave = t
               \/ /\ req[q].op = "set" /\ req[q].evento = e /\ t \notin ToSet(req[q].pedidas)
                  /\ ToSet(req[q].pedidas) \subseteq TagsDe(e)'
<1>1. IInv /\ [Next]_vars => A
  <2> SUFFICES ASSUME IInv, [Next]_vars, NEW e \in Eventos, NEW t \in Chaves,
                      t \in TagsDe(e), t \notin TagsDe(e)'
               PROVE  \E q \in Requests :
                        /\ ~Idle(q) /\ req'[q] = Nenhum
                        /\ \/ req[q].op = "delete" /\ req[q].chave = t
                           \/ /\ req[q].op = "set" /\ req[q].evento = e
                              /\ t \notin ToSet(req[q].pedidas)
                              /\ ToSet(req[q].pedidas) \subseteq TagsDe(e)'
    OBVIOUS
  <2>1. PICK l \in ligacoes : l.evento = e /\ l.tag = t /\ l \notin ligacoes'
    BY DEF TagsDe, LinhasDe
  <2>2. PICK q \in Requests : DeleteRow(q) \/ CommitTags(q)
    <3>1. ligacoes' # ligacoes
      BY <2>1
    <3>2. \E q \in Requests : Step(q)
      BY <3>1 DEF Next, SetEventTags, vars
    <3>3. PICK q \in Requests : Step(q)
      BY <3>2
    <3>4. DeleteRow(q) \/ CommitTags(q)
      BY <3>1, <3>3 DEF Step, SaveRow, DeleteRows, InsertRow, Deadlock
    <3> QED
      BY <3>4
  <2>3. CASE DeleteRow(q)
    BY <2>1, <2>3 DEF DeleteRow, RepoDelete, Answer, LinhasDaTag, At, Idle, IInv, RowInv, TypesInv
  <2>4. CASE CommitTags(q)
    <3>1. /\ At(q, "set", "insert") /\ ~FaltaInserir(q) /\ Answer(q, req[q], 200)
          /\ ligacoes' = (ligacoes \ req[q].linhas) \cup {NovaLinha(req[q].evento, k) : k \in Inseridas(q)}
      BY <2>4 DEF CommitTags
    <3>2. ~Idle(q) /\ req'[q] = Nenhum /\ req[q].op = "set"
      BY <3>1 DEF At, Idle, Answer, IInv, RowInv, TypesInv
    <3>3. req[q] \in SetRequest /\ RequestOk(req[q])
      BY <3>1, Ops DEF At, IInv, RowInv, TypesInv, RequestsOk
    <3>4. req[q].evento = e
      BY <2>1, <3>1, <3>2, <3>3, Ops DEF RequestOk
    <3>5. Inseridas(q) = ToSet(req[q].pedidas)
      <4>1. req[q].pedidas \in Seq(Chaves) /\ req[q].feitas \in Nat
        BY <3>3, SetLists, Ops, SetAssumption
      <4>2. req[q].feitas = Len(req[q].pedidas)
        BY <3>1, <3>2, <3>3, <4>1, Ops DEF RequestOk, FaltaInserir
      <4> QED
        BY <4>1, <4>2 DEF Inseridas, ToSet
    <3>6. Inseridas(q) \subseteq TagsDe(e)'
      <4>1. \A k \in Inseridas(q) : NovaLinha(e, k) \in ligacoes' /\ NovaLinha(e, k).evento = e
                                    /\ NovaLinha(e, k).tag = k
        BY <3>1, <3>4, NewRow, InseridasTypes DEF IInv
      <4> QED
        BY <4>1 DEF TagsDe, LinhasDe
    <3> QED
      BY <3>2, <3>4, <3>5, <3>6
  <2> QED
    BY <2>2, <2>3, <2>4
<1> QED
  BY <1>1, Invariant, PTL DEF Spec, NoTagIsLostHalfway

-----------------------------------------------------------------------------
(* Requests that meet no other.  What such a request has read still holds: *)
(* nobody else is there to change it.                                      *)

\* Only an album may have a null.
NullsInv == \A c \in Chaves : nomes[c] = Nulo => tabela = "albuns"

Alone(q) == ~Idle(q) /\ q \notin juntas

\* The name of a POST has been looked up where POST looks it up; a PUT has read
\* the row as it is and, about to write, has looked up the new name.
NameIsFresh(q) ==
  LET r == req[q]
  IN  /\ r.op = "create" => /\ AceitaNulo(r.nome)
                            /\ r.pc # "refresh" /\ LooksUpFirst => ~Existing(r.nome)
      /\ r.op \in {"update", "delete"} => r.lido # Nenhum
      /\ r.op = "update" =>
           /\ r.pc # "refresh" => nomes[r.chave] = r.lido /\ r.nome # r.lido
           /\ r.pc = "procurar" => LooksUp(r.nome)
           /\ r.pc = "gravar" /\ LooksUp(r.nome) => ~Existing(r.nome)
      /\ r.op \in {"create", "update"} /\ r.pc = "refresh" =>
           nomes[r.chave] = r.nome /\ NomeLivre(r.nome, r.chave) /\ Aceita(r.nome)

\* A PUT of tags is replacing all the rows of the event, by different ones.
ListIsFresh(q) ==
  LET r == req[q]
  IN  r.op = "set" =>
        /\ r.linhas = LinhasDe(r.evento)
        /\ r.evento \in SemEvento => r.feitas = 0
        /\ \A i, j \in 1..r.feitas : r.pedidas[i] = r.pedidas[j] => i = j

Fresh(q) == NameIsFresh(q) /\ ListIsFresh(q)

AloneInv == \A q \in Requests :
  Alone(q) => Fresh(q) /\ \A p \in Requests \ {q} : Idle(p)

AloneIInv == NullsInv /\ AloneInv /\ AloneAnswersAreRight


\* The history of an answer: it is recorded of a request that is alone.
LEMMA AnswerHistory ==
  ASSUME NEW q \in Requests, NEW r, NEW codigo, Answer(q, r, codigo)
  PROVE  \/ resposta' = Nenhum
         \/ /\ resposta' = [a |-> r, codigo |-> codigo]
            /\ q \notin juntas /\ \A p \in Requests \ {q} : Idle(p)
  BY DEF Answer

\* The first access of q: if it is alone, what it will do must be fresh.
LEMMA AloneStart ==
  ASSUME RowInv, HistInv, AloneIInv, NEW q \in Requests, NEW r, r # Nenhum, Start(q, r),
         UNCHANGED <<tabela, nomes>>, (\A p \in Requests : Idle(p)) => Fresh(q)'
  PROVE  AloneIInv'
<1>1. Idle(q) /\ req' = [req EXCEPT ![q] = r] /\ resposta' = Nenhum
  BY DEF Start
<1>2. req'[q] = r /\ \A p \in Requests : p # q => req'[p] = req[p]
  BY <1>1 DEF RowInv, TypesInv
<1>3. ASSUME NEW k \in Requests, Alone(k)'
      PROVE  Fresh(k)' /\ \A p \in Requests \ {k} : Idle(p)'
  <2>1. k \notin juntas'
    BY <1>3 DEF Alone
  <2>2. \A p \in Requests : Idle(p)
    BY <1>2, <1>3, <2>1 DEF Start, Alone, Idle
  <2>3. k = q
    BY <1>2, <1>3, <2>2 DEF Alone, Idle
  <2> QED
    BY <1>2, <2>2, <2>3 DEF Idle
<1>4. NullsInv' /\ AloneAnswersAreRight'
  BY <1>1 DEF AloneIInv, NullsInv, AloneAnswersAreRight
<1> QED
  BY <1>3, <1>4 DEF AloneIInv, AloneInv

\* Another access of q; a request beside it is not alone, whatever is written.
LEMMA AloneGoOn ==
  ASSUME RowInv, HistInv, AloneIInv, NEW q \in Requests, ~Idle(q), NEW r, r # Nenhum, GoOn(q, r),
         NullsInv', Alone(q) => Fresh(q)'
  PROVE  AloneIInv'
<1>1. req' = [req EXCEPT ![q] = r] /\ resposta' = Nenhum /\ juntas' = juntas
  BY DEF GoOn
<1>2. req'[q] = r /\ \A p \in Requests : p # q => req'[p] = req[p]
  BY <1>1 DEF RowInv, TypesInv
<1>3. ASSUME NEW k \in Requests, Alone(k)'
      PROVE  Fresh(k)' /\ \A p \in Requests \ {k} : Idle(p)'
  <2>1. Alone(k)
    BY <1>1, <1>2, <1>3 DEF Alone, Idle
  <2>2. \A p \in Requests \ {k} : Idle(p)
    BY <2>1 DEF AloneIInv, AloneInv
  <2>3. k = q
    BY <2>2
  <2> QED
    BY <1>2, <2>1, <2>2, <2>3 DEF Idle
<1>4. AloneAnswersAreRight'
  BY <1>1 DEF AloneAnswersAreRight
<1> QED
  BY <1>3, <1>4 DEF AloneIInv, AloneInv

\* The end of q, also at its first access, when it must leave the rows alone.
LEMMA AloneEnd ==
  ASSUME RowInv, HistInv, AloneIInv, NEW q \in Requests,
         req' = [req EXCEPT ![q] = Nenhum], juntas' = juntas \ {q},
         Idle(q) => UNCHANGED <<tabela, nomes, ligacoes>>
  PROVE  AloneInv'
<1>1. req'[q] = Nenhum /\ \A p \in Requests : p # q => req'[p] = req[p]
  BY DEF RowInv, TypesInv
<1>2. ASSUME NEW k \in Requests, Alone(k)'
      PROVE  Fresh(k)' /\ \A p \in Requests \ {k} : Idle(p)'
  <2>1. k # q /\ Alone(k) /\ req'[k] = req[k]
    BY <1>1, <1>2 DEF Alone, Idle
  <2>2. Fresh(k) /\ \A p \in Requests \ {k} : Idle(p)
    BY <2>1 DEF AloneIInv, AloneInv
  <2>3. UNCHANGED <<tabela, nomes, ligacoes>>
    BY <2>1, <2>2
  <2>4. Fresh(k)'
    BY <2>1, <2>2, <2>3 DEF Fresh, NameIsFresh, ListIsFresh, Aceita, AceitaNulo, LooksUpFirst, LooksUp,
                            Existing, NomeLivre, LinhasDe
  <2> QED
    BY <1>1, <2>2, <2>4 DEF Idle
<1> QED
  BY <1>2 DEF AloneInv

LEMMA AloneAnswer ==
  ASSUME RowInv, HistInv, AloneIInv, NEW q \in Requests, NEW r, NEW codigo, Answer(q, r, codigo),
         Idle(q) => UNCHANGED <<tabela, nomes, ligacoes>>,
         NullsInv', AloneAnswersAreRight'
  PROVE  AloneIInv'
<1>1. req' = [req EXCEPT ![q] = Nenhum] /\ juntas' = juntas \ {q}
  BY DEF Answer
<1> QED
  BY <1>1, AloneEnd DEF AloneIInv


\* The first access of a request on a name: a conflict is another row's name, and
\* a request that goes on alone has read the rows as they are.
LEMMA NewNameAlone ==
  ASSUME RowInv, HistInv, AloneIInv, NEW q \in Requests, NewNameRequest(q), UNCHANGED ligacoes
  PROVE  AloneIInv'
<1>1. PICK u \in Users, c \in Chaves :
        \/ \E n \in Nomes \cup {Nulo} : Create(q, u, c, n) \/ Update(q, u, c, n)
        \/ Delete(q, u, c)
  BY DEF NewNameRequest
<1>2. UNCHANGED <<tabela, nomes, ligacoes>> /\ Idle(q)
  BY <1>1 DEF Create, Update, Delete
<1>3. NullsInv'
  BY <1>2 DEF AloneIInv, NullsInv
<1>4. ASSUME NEW r \in NameRequest, NEW codigo, Answer(q, r, codigo), NameAnswerIsRight(r, codigo)'
      PROVE  AloneIInv'
  <2>1. r.op # "set"
    BY Ops
  <2>2. AloneAnswersAreRight'
    BY <1>4, <2>1, AnswerHistory DEF AloneAnswersAreRight
  <2> QED
    BY <1>2, <1>3, <1>4, <2>2, AloneAnswer
<1>5. ASSUME NEW r \in NameRequest, Start(q, r), (\A p \in Requests : Idle(p)) => NameIsFresh(q)'
      PROVE  AloneIInv'
  <2>1. req'[q] = r /\ r # Nenhum /\ r.op # "set"
    BY <1>5, Ops DEF Start, RowInv, TypesInv
  <2>2. ListIsFresh(q)'
    BY <2>1 DEF ListIsFresh
  <2> QED
    BY <1>2, <1>5, <2>1, <2>2, AloneStart DEF Fresh
<1>6. \A r \in NameRequest : Start(q, r) => req'[q] = r
  BY DEF Start, RowInv, TypesInv
<1>7. ASSUME NEW n \in Nomes \cup {Nulo}, Create(q, u, c, n) PROVE AloneIInv'
  <2> DEFINE r == [op |-> "create", pc |-> "gravar", chave |-> c, nome |-> n, lido |-> Nenhum]
  <2>1. r \in NameRequest
    BY NomesAssumption DEF NameRequest
  <2>2. CASE LooksUpFirst /\ Existing(n)
    <3>1. Answer(q, r, 409) /\ nomes[c] = Nenhum /\ n # Nulo /\ n # Nenhum
      BY <1>7, <2>2, NomesAssumption DEF Create, NovaChave, Aceita, AceitaNulo, LooksUpFirst
    <3>2. PICK d \in Chaves : nomes[d] = n
      BY <2>2 DEF Existing
    <3>3. NameAnswerIsRight(r, 409)'
      BY <1>2, <2>2, <3>1, <3>2 DEF NameAnswerIsRight, NomeLivre, LooksUpFirst
    <3> QED
      BY <1>4, <2>1, <3>1, <3>3
  <2>3. CASE ~(LooksUpFirst /\ Existing(n))
    <3>1. Start(q, r) /\ AceitaNulo(n)
      BY <1>7, <2>3 DEF Create
    <3>2. NameIsFresh(q)'
      BY <1>2, <1>6, <2>1, <2>3, <3>1 DEF NameIsFresh, Aceita, AceitaNulo, LooksUpFirst, Existing
    <3> QED
      BY <1>5, <2>1, <3>1, <3>2
  <2> QED
    BY <2>2, <2>3
<1>8. ASSUME NEW n \in Nomes \cup {Nulo}, Update(q, u, c, n) PROVE AloneIInv'
  <2>1. PICK r \in NameRequest :
          r = [op |-> "update", pc |-> IF LooksUp(n) THEN "procurar" ELSE "gravar",
               chave |-> c, nome |-> n, lido |-> nomes[c]]
    <3>1. (IF LooksUp(n) THEN "procurar" ELSE "gravar") \in {"procurar", "gravar", "refresh"}
      OBVIOUS
    <3> QED
      BY <3>1 DEF NameRequest, RowInv, TypesInv
  <2>2. CASE nomes[c] = Nenhum
    <3>1. Answer(q, r, 404)
      BY <1>8, <2>1, <2>2 DEF Update
    <3>2. NameAnswerIsRight(r, 404)'
      BY <2>1, <2>2 DEF NameAnswerIsRight
    <3> QED
      BY <1>4, <2>1, <3>1, <3>2
  <2>3. CASE nomes[c] # Nenhum
    <3>1. Start(q, r)
      BY <1>8, <2>1, <2>3 DEF Update
    <3>2. NameIsFresh(q)'
      BY <1>2, <1>6, <1>8, <2>1, <2>3, <3>1 DEF NameIsFresh, LooksUp, Update
    <3> QED
      BY <1>5, <2>1, <3>1, <3>2
  <2> QED
    BY <2>2, <2>3
<1>9. CASE Delete(q, u, c)
  <2>1. PICK r \in NameRequest :
          r = [op |-> "delete", pc |-> "gravar", chave |-> c, nome |-> Nenhum, lido |-> nomes[c]]
    BY NomesAssumption DEF NameRequest, RowInv, TypesInv
  <2>2. CASE nomes[c] = Nenhum
    <3>1. Answer(q, r, 404)
      BY <1>9, <2>1, <2>2 DEF Delete
    <3>2. NameAnswerIsRight(r, 404)'
      BY <2>1, <2>2 DEF NameAnswerIsRight
    <3> QED
      BY <1>4, <2>1, <3>1, <3>2
  <2>3. CASE nomes[c] # Nenhum
    <3>1. Start(q, r)
      BY <1>9, <2>1, <2>3 DEF Delete
    <3>2. NameIsFresh(q)'
      BY <1>6, <2>1, <2>3, <3>1 DEF NameIsFresh
    <3> QED
      BY <1>5, <2>1, <3>1, <3>2
  <2> QED
    BY <2>2, <2>3
<1> QED
  BY <1>1, <1>7, <1>8, <1>9

\* The look-up of a PUT on its own finds another row: its own has another name.
LEMMA LookUpAlone ==
  ASSUME RowInv, HistInv, AloneIInv, NEW q \in Requests, LookUp(q), UNCHANGED ligacoes
  PROVE  AloneIInv'
<1> DEFINE r == [req[q] EXCEPT !.pc = "gravar"]
<1>1. /\ ~Idle(q) /\ req[q].op = "update" /\ req[q].pc = "procurar"
      /\ UNCHANGED <<tabela, nomes, ligacoes>>
  BY DEF LookUp, At, Idle
<1>2. req[q] \in NameRequest
  BY <1>1, Ops DEF RowInv, TypesInv, Idle
<1>3. NullsInv'
  BY <1>1 DEF AloneIInv, NullsInv
<1>4. CASE Existing(req[q].nome)
  <2>1. Answer(q, req[q], 409)
    BY <1>4 DEF LookUp
  <2>2. ASSUME Alone(q) PROVE NameAnswerIsRight(req[q], 409)
    <3>1. /\ LooksUp(req[q].nome) /\ req[q].lido # Nenhum
          /\ nomes[req[q].chave] = req[q].lido /\ req[q].nome # req[q].lido
      BY <1>1, <2>2 DEF AloneIInv, AloneInv, Fresh, NameIsFresh
    <3>2. LooksUpFirst /\ req[q].nome # Nulo
      BY <1>4, <3>1 DEF LooksUp, LooksUpFirst, AloneIInv, NullsInv, Existing
    <3> QED
      BY <1>1, <1>4, <3>1, <3>2 DEF NameAnswerIsRight, NomeLivre, Existing
  <2>3. AloneAnswersAreRight'
    <3>1. CASE resposta' = Nenhum
      BY <3>1 DEF AloneAnswersAreRight
    <3>2. CASE resposta' # Nenhum
      <4>1. resposta' = [a |-> req[q], codigo |-> 409] /\ Alone(q)
        BY <1>1, <2>1, <3>2, AnswerHistory DEF Alone
      <4> QED
        BY <1>1, <2>2, <4>1 DEF AloneAnswersAreRight, NameAnswerIsRight, NomeLivre, LooksUpFirst,
                                HandlesIndex, Aceita, AceitaNulo
    <3> QED
      BY <3>1, <3>2
  <2> QED
    BY <1>1, <1>3, <2>1, <2>3, AloneAnswer
<1>5. CASE ~Existing(req[q].nome)
  <2>1. GoOn(q, r)
    BY <1>5 DEF LookUp
  <2>2. /\ r.op = "update" /\ r.pc = "gravar" /\ r.nome = req[q].nome /\ r.chave = req[q].chave
        /\ r.lido = req[q].lido /\ r \in NameRequest
    BY <1>1, <1>2 DEF NameRequest
  <2> HIDE DEF r
  <2>3. req'[q] = r /\ r # Nenhum
    BY <2>1, <2>2, Ops DEF GoOn, RowInv, TypesInv
  <2>4. ASSUME Alone(q) PROVE Fresh(q)'
    <3>1. NameIsFresh(q)
      BY <2>4 DEF AloneIInv, AloneInv, Fresh
    <3> QED
      BY <1>1, <1>5, <2>2, <2>3, <3>1 DEF Fresh, NameIsFresh, ListIsFresh, Existing, LooksUp
  <2> QED
    BY <1>1, <1>3, <2>1, <2>3, <2>4, AloneGoOn
<1> QED
  BY <1>4, <1>5


\* The commit of a name.  The look-up of a request on its own still holds, so that
\* the index refuses only a name that nobody looked up; a row that is gone cannot be.
LEMMA SaveRowAlone ==
  ASSUME RowInv, HistInv, AloneIInv, NEW q \in Requests, SaveRow(q)
  PROVE  AloneIInv'
<1> DEFINE r == req[q]
           s == [r EXCEPT !.pc = "refresh"]
           ok == Aceita(r.nome) /\ (r.op = "update" => nomes[r.chave] # Nenhum)
<1>1. /\ ~Idle(q) /\ r.op \in {"create", "update"} /\ r.pc = "gravar"
      /\ UNCHANGED <<tabela, ligacoes>>
  BY DEF SaveRow, Save, At, Idle
<1>2. r \in NameRequest /\ r.chave \in Chaves /\ r.nome \in Nomes \cup {Nulo, Nenhum}
  BY <1>1, Ops DEF RowInv, TypesInv, Idle
<1>3. r.nome # Nenhum
  BY <1>1 DEF RowInv, RequestsOk, RequestOk, Idle
<1>4. CASE ok /\ NomeLivre(r.nome, r.chave)
  <2>1. nomes' = [nomes EXCEPT ![r.chave] = r.nome] /\ GoOn(q, s)
    BY <1>4 DEF SaveRow, Save
  <2>2. nomes'[r.chave] = r.nome /\ \A c \in Chaves : c # r.chave => nomes'[c] = nomes[c]
    BY <1>2, <2>1 DEF RowInv, TypesInv
  <2>3. NullsInv'
    BY <1>1, <1>4, <2>2 DEF AloneIInv, NullsInv, Aceita, AceitaNulo
  <2>4. /\ s \in NameRequest /\ s.op = r.op /\ s.pc = "refresh" /\ s.nome = r.nome
        /\ s.chave = r.chave /\ s.lido = r.lido
    BY <1>2 DEF NameRequest
  <2> HIDE DEF s
  <2>5. req'[q] = s /\ s # Nenhum /\ s.op # "set"
    BY <1>1, <2>1, <2>4, Ops DEF GoOn, RowInv, TypesInv
  <2>6. ASSUME Alone(q) PROVE Fresh(q)'
    <3>1. r.op = "update" => r.lido # Nenhum
      BY <2>6 DEF AloneIInv, AloneInv, Fresh, NameIsFresh
    <3>2. NomeLivre(r.nome, r.chave) => r.nome = Nulo \/ \A d \in Chaves \ {r.chave} : nomes'[d] # r.nome
      BY <2>2 DEF NomeLivre
    <3> QED
      BY <1>1, <1>4, <2>2, <2>4, <2>5, <3>1, <3>2 DEF Fresh, NameIsFresh, ListIsFresh, Aceita, AceitaNulo, NomeLivre
  <2> QED
    BY <1>1, <2>1, <2>3, <2>5, <2>6, AloneGoOn
<1>5. CASE ~(ok /\ NomeLivre(r.nome, r.chave))
  <2> DEFINE codigo == IF ok /\ HandlesIndex(r.op) THEN 409 ELSE 500
  <2>1. Answer(q, r, codigo) /\ UNCHANGED nomes
    BY <1>5 DEF SaveRow, Save
  <2>2. NullsInv'
    BY <1>1, <2>1 DEF AloneIInv, NullsInv
  <2>3. ASSUME Alone(q)
        PROVE  /\ r.op = "update" => r.lido # Nenhum /\ nomes[r.chave] # Nenhum
               /\ r.op = "create" => AceitaNulo(r.nome)
               /\ LooksUpFirst => NomeLivre(r.nome, r.chave)
    <3>1. NameIsFresh(q)
      BY <2>3 DEF AloneIInv, AloneInv, Fresh
    <3>2. r.op = "update" /\ ~LooksUp(r.nome) /\ LooksUpFirst => r.nome = Nulo
      BY <1>1 DEF LooksUp, LooksUpFirst
    <3>3. ~Existing(r.nome) => NomeLivre(r.nome, r.chave)
      BY DEF Existing, NomeLivre
    <3>4. r.nome = Nulo => NomeLivre(r.nome, r.chave)
      BY DEF NomeLivre
    <3> QED
      BY <1>1, <3>1, <3>2, <3>3, <3>4 DEF NameIsFresh
  <2>4. ASSUME Alone(q) PROVE NameAnswerIsRight(r, codigo)
    <3>1. codigo = 409 => ok /\ HandlesIndex(r.op)
      OBVIOUS
    <3>2. codigo \in {409, 500} /\ (codigo = 500 => ~ok \/ ~HandlesIndex(r.op))
      OBVIOUS
    <3> HIDE DEF codigo
    <3>3. codigo = 500 => ~Aceita(r.nome) \/ (~(LooksUpFirst \/ HandlesIndex(r.op)) /\ ~NomeLivre(r.nome, r.chave))
      BY <1>1, <1>5, <2>3, <2>4, <3>2
    <3>4. codigo = 409 => ~NomeLivre(r.nome, r.chave)
      BY <1>5, <3>1
    <3>5. codigo # 404 /\ codigo # 200
      BY <3>2
    <3> QED
      BY <1>1, <2>3, <2>4, <3>1, <3>3, <3>4, <3>5 DEF NameAnswerIsRight
  <2> HIDE DEF codigo
  <2>5. AloneAnswersAreRight'
    <3>1. CASE resposta' = Nenhum
      BY <3>1 DEF AloneAnswersAreRight
    <3>2. CASE resposta' # Nenhum
      <4>1. resposta' = [a |-> r, codigo |-> codigo] /\ Alone(q)
        BY <1>1, <2>1, <3>2, AnswerHistory DEF Alone
      <4>2. resposta'.a = req[q] /\ resposta'.codigo = codigo
        BY <4>1
      <4> QED
        BY <1>1, <2>1, <2>4, <4>1, <4>2 DEF AloneAnswersAreRight, NameAnswerIsRight, NomeLivre, LooksUpFirst,
                                       HandlesIndex, Aceita, AceitaNulo
    <3> QED
      BY <3>1, <3>2
  <2> QED
    BY <1>1, <2>1, <2>2, <2>5, AloneAnswer
<1> QED
  BY <1>4, <1>5

\* The refresh of a request on its own finds what it wrote.
LEMMA RefreshAlone ==
  ASSUME RowInv, HistInv, AloneIInv, NEW q \in Requests, Refresh(q), UNCHANGED ligacoes
  PROVE  AloneIInv'
<1> DEFINE r == req[q]
           codigo == IF nomes[r.chave] = Nenhum THEN 500 ELSE 200
<1>1. /\ ~Idle(q) /\ r.op \in {"create", "update"} /\ r.pc = "refresh"
      /\ Answer(q, r, codigo) /\ UNCHANGED <<tabela, nomes, ligacoes>>
  BY DEF Refresh, At, Idle
<1>2. NullsInv'
  BY <1>1 DEF AloneIInv, NullsInv
<1>3. ASSUME Alone(q)
      PROVE  /\ nomes[r.chave] = r.nome /\ NomeLivre(r.nome, r.chave) /\ codigo = 200
             /\ Aceita(r.nome)
             /\ r.op = "update" => r.lido # Nenhum
  <2>1. r.nome # Nenhum
    BY <1>1 DEF RowInv, RequestsOk, RequestOk, Idle
  <2> QED
    BY <1>1, <1>3, <2>1 DEF AloneIInv, AloneInv, Fresh, NameIsFresh
<1> HIDE DEF codigo
<1>4. AloneAnswersAreRight'
  <2>1. CASE resposta' = Nenhum
    BY <2>1 DEF AloneAnswersAreRight
  <2>2. CASE resposta' # Nenhum
    <3>1. resposta' = [a |-> r, codigo |-> 200] /\ Alone(q)
      BY <1>1, <1>3, <2>2, AnswerHistory DEF Alone
    <3>2. resposta'.a = req[q] /\ resposta'.codigo = 200
      BY <3>1
    <3> QED
      BY <1>1, <1>3, <3>1, <3>2 DEF AloneAnswersAreRight, NameAnswerIsRight, NomeLivre,
                                           Aceita, AceitaNulo
  <2> QED
    BY <2>1, <2>2
<1> QED
  BY <1>1, <1>2, <1>4, AloneAnswer

\* A deletion leaves no row, whoever else was there.
LEMMA DeleteRowAlone ==
  ASSUME RowInv, HistInv, AloneIInv, NEW q \in Requests, DeleteRow(q)
  PROVE  AloneIInv'
<1> DEFINE r == req[q]
<1>1. /\ ~Idle(q) /\ r.op = "delete" /\ Answer(q, r, 200) /\ UNCHANGED tabela
      /\ nomes' = [nomes EXCEPT ![r.chave] = Nenhum]
  BY DEF DeleteRow, RepoDelete, At, Idle
<1>2. r.chave \in Chaves
  BY <1>1, Ops DEF RowInv, TypesInv, Idle
<1>3. nomes'[r.chave] = Nenhum /\ \A c \in Chaves : c # r.chave => nomes'[c] = nomes[c]
  BY <1>1, <1>2 DEF RowInv, TypesInv
<1>4. NullsInv'
  BY <1>1, <1>3, NomesAssumption DEF AloneIInv, NullsInv
<1>5. AloneAnswersAreRight'
  <2>1. CASE resposta' = Nenhum
    BY <2>1 DEF AloneAnswersAreRight
  <2>2. CASE resposta' # Nenhum
    <3>1. resposta' = [a |-> r, codigo |-> 200] /\ Alone(q)
      BY <1>1, <2>2, AnswerHistory DEF Alone
    <3>2. resposta'.a = req[q] /\ resposta'.codigo = 200
      BY <3>1
    <3>3. r.lido # Nenhum
      BY <1>1, <3>1 DEF AloneIInv, AloneInv, Fresh, NameIsFresh
    <3> QED
      BY <1>1, <1>3, <3>2, <3>3 DEF AloneAnswersAreRight, NameAnswerIsRight
  <2> QED
    BY <2>1, <2>2
<1> QED
  BY <1>1, <1>4, <1>5, AloneAnswer


LEMMA EndAlone ==
  ASSUME RowInv, HistInv, AloneIInv, NEW q \in Requests, RequestEnds(q), UNCHANGED ligacoes
  PROVE  AloneIInv'
<1>1. /\ req' = [req EXCEPT ![q] = Nenhum] /\ juntas' = juntas \ {q} /\ resposta' = Nenhum
      /\ UNCHANGED <<tabela, nomes, ligacoes>>
  BY DEF RequestEnds
<1> QED
  BY <1>1, AloneEnd DEF AloneIInv, NullsInv, AloneAnswersAreRight

\* Who waits for nobody is on no cycle.
LEMMA DeadlockAlone ==
  ASSUME RowInv, HistInv, AloneIInv, NEW q \in Requests, Deadlock(q)
  PROVE  AloneIInv'
<1>1. OnCycle(q) /\ Answer(q, req[q], 500) /\ UNCHANGED <<tabela, nomes, ligacoes>>
  BY DEF Deadlock
<1>2. PICK p \in Requests \ {q} : At(p, "set", "insert")
  BY <1>1 DEF OnCycle, WaitsFor, Outras
<1>3. resposta' = Nenhum
  BY <1>1, <1>2, AnswerHistory DEF At, Idle
<1>4. NullsInv' /\ AloneAnswersAreRight'
  BY <1>1, <1>3 DEF AloneIInv, NullsInv, AloneAnswersAreRight
<1> QED
  BY <1>1, <1>4, AloneAnswer

\* The DELETE starts on all the rows of the event.
LEMMA SetStartAlone ==
  ASSUME RowInv, HistInv, AloneIInv, NEW q \in Requests, NEW u \in Users, NEW e \in Eventos,
         NEW ts \in BoundedSeq(Chaves, MaxPedidas), SetEventTags(q, u, e, ts)
  PROVE  AloneIInv'
<1> DEFINE r == [op |-> "set", pc |-> "delete", evento |-> e, pedidas |-> ts,
                 linhas |-> LinhasDe(e), feitas |-> 0]
<1>1. r \in SetRequest
  BY SetAssumption DEF SetRequest, LinhasDe, RowInv, TypesInv
<1>2. /\ Start(q, r) \/ (Answer(q, r, 404) /\ e \in SemEvento)
      /\ UNCHANGED <<tabela, nomes, ligacoes>>
  BY DEF SetEventTags, NaoEncontrado
<1>3. CASE Start(q, r)
  <2>1. r # Nenhum /\ req'[q] = r
    BY <1>1, <1>3, Ops DEF Start, RowInv, TypesInv
  <2>2. Fresh(q)'
    BY <1>2, <2>1 DEF Fresh, NameIsFresh, ListIsFresh, LinhasDe
  <2> QED
    BY <1>2, <1>3, <2>1, <2>2, AloneStart
<1>4. CASE Answer(q, r, 404) /\ e \in SemEvento
  <2>1. r.op = "set" /\ r.evento \in SemEvento
    BY <1>4
  <2> HIDE DEF r
  <2>2. NullsInv'
    BY <1>2 DEF AloneIInv, NullsInv
  <2>3. resposta' = Nenhum \/ resposta' = [a |-> r, codigo |-> 404]
    BY <1>4, AnswerHistory
  <2>4. resposta' = Nenhum \/ (resposta'.a = r /\ resposta'.codigo = 404)
    BY <2>3
  <2>5. AloneAnswersAreRight'
    BY <2>1, <2>4 DEF AloneAnswersAreRight
  <2> QED
    BY <1>2, <1>4, <2>2, <2>5, AloneAnswer
<1> QED
  BY <1>2, <1>3, <1>4

\* The rows it found are still the event's when it has their locks.
LEMMA DeleteRowsAlone ==
  ASSUME RowInv, HistInv, AloneIInv, NEW q \in Requests, DeleteRows(q)
  PROVE  AloneIInv'
<1> DEFINE r == [req[q] EXCEPT !.pc = "insert", !.linhas = @ \cap ligacoes]
<1>1. At(q, "set", "delete") /\ ~Idle(q) /\ GoOn(q, r) /\ UNCHANGED <<tabela, nomes, ligacoes>>
  BY DEF DeleteRows, At, Idle
<1>2. req[q] \in SetRequest
  BY <1>1, Ops DEF RowInv, TypesInv, At
<1>3. /\ r \in SetRequest /\ r.evento = req[q].evento /\ r.linhas = req[q].linhas \cap ligacoes
      /\ r.pedidas = req[q].pedidas /\ r.feitas = req[q].feitas /\ r.op = "set"
  BY <1>2 DEF SetRequest, RowInv, TypesInv
<1> HIDE DEF r
<1>4. r # Nenhum /\ req'[q] = r
  BY <1>1, <1>3, Ops DEF GoOn, RowInv, TypesInv
<1>5. ASSUME Alone(q) PROVE Fresh(q)'
  <2>1. ListIsFresh(q) /\ req[q].op = "set"
    BY <1>1, <1>5 DEF AloneIInv, AloneInv, Fresh, At
  <2> QED
    BY <1>1, <1>3, <1>4, <2>1 DEF Fresh, NameIsFresh, ListIsFresh, LinhasDe
<1>6. NullsInv'
  BY <1>1 DEF AloneIInv, NullsInv
<1> QED
  BY <1>1, <1>4, <1>5, <1>6, AloneGoOn

\* An INSERT on its own fails on an event or a tag that is not there or on a tag
\* that the body repeats: no row of the event is left.
LEMMA InsertRowAlone ==
  ASSUME RowInv, HistInv, AloneIInv, NEW q \in Requests, InsertRow(q)
  PROVE  AloneIInv'
<1> DEFINE r == [req[q] EXCEPT !.feitas = @ + 1]
           n == req[q].feitas
           ts == req[q].pedidas
           t == Proxima(q)
           falha == \/ req[q].evento \in SemEvento
                    \/ nomes[t] = Nenhum
                    \/ t \in Inseridas(q)
                    \/ \E l \in LinhasDe(req[q].evento) \ req[q].linhas : l.tag = t
<1>1. /\ At(q, "set", "insert") /\ ~Idle(q) /\ FaltaInserir(q) /\ UNCHANGED <<tabela, nomes, ligacoes>>
  BY DEF InsertRow, FaltaInserir, At, Idle
<1>2. req[q] \in SetRequest /\ req[q].op = "set"
  BY <1>1, Ops DEF RowInv, TypesInv, At
<1>3. ts \in Seq(Chaves) /\ n \in Nat /\ n < Len(ts) /\ Len(ts) \in 0..MaxPedidas /\ t = ts[n + 1]
  BY <1>1, <1>2, SetLists, Ops, SetAssumption DEF FaltaInserir, Proxima
<1>4. NullsInv'
  BY <1>1 DEF AloneIInv, NullsInv
<1>5. CASE falha
  <2>1. Answer(q, req[q], 500)
    BY <1>5 DEF InsertRow
  <2>2. ASSUME Alone(q)
        PROVE  \/ req[q].evento \in SemEvento /\ ToSet(ts) # {}
               \/ ~IsInjective(ts)
               \/ \E k \in ToSet(ts) : nomes[k] = Nenhum
    <3>0. t \in ToSet(ts)
      BY <1>3 DEF ToSet
    <3>1. req[q].linhas = LinhasDe(req[q].evento)
      BY <1>2, <2>2 DEF AloneIInv, AloneInv, Fresh, ListIsFresh
    <3>2. CASE nomes[t] = Nenhum
      BY <1>3, <3>2 DEF ToSet
    <3>3. CASE t \in Inseridas(q)
      <4>1. PICK k \in 1..n : ts[k] = ts[n + 1]
        BY <1>3, <3>3 DEF Inseridas
      <4>2. k \in DOMAIN ts /\ n + 1 \in DOMAIN ts /\ k # n + 1
        BY <1>3
      <4> QED
        BY <4>1, <4>2 DEF IsInjective
    <3> QED
      BY <1>5, <3>0, <3>1, <3>2, <3>3
  <2>3. AloneAnswersAreRight'
    <3>1. CASE resposta' = Nenhum
      BY <3>1 DEF AloneAnswersAreRight
    <3>2. CASE resposta' # Nenhum
      <4>1. resposta' = [a |-> req[q], codigo |-> 500] /\ Alone(q)
        BY <1>1, <2>1, <3>2, AnswerHistory DEF Alone
      <4>2. resposta'.a = req[q] /\ resposta'.codigo = 500
        BY <4>1
      <4> QED
        BY <1>1, <1>2, <2>2, <4>1, <4>2 DEF AloneAnswersAreRight
    <3> QED
      BY <3>1, <3>2
  <2> QED
    BY <1>1, <1>4, <2>1, <2>3, AloneAnswer
<1>6. CASE ~falha
  <2>1. GoOn(q, r) /\ t \notin Inseridas(q) /\ req[q].evento \notin SemEvento
    BY <1>6 DEF InsertRow
  <2>2. /\ r \in SetRequest /\ r.evento = req[q].evento /\ r.linhas = req[q].linhas /\ r.op = "set"
        /\ r.pedidas = ts /\ r.feitas = n + 1
    BY <1>2, <1>3, SetAssumption DEF SetRequest
  <2> HIDE DEF r, t
  <2>3. r # Nenhum /\ req'[q] = r
    BY <2>1, <2>2, Ops DEF GoOn, RowInv, TypesInv
  <2>4. ASSUME Alone(q) PROVE Fresh(q)'
    <3>1. ListIsFresh(q)
      BY <2>4 DEF AloneIInv, AloneInv, Fresh
    <3>2. \A i \in 1..n : ts[i] # ts[n + 1]
      BY <1>3, <2>1 DEF Inseridas
    <3>3. \A i, j \in 1..(n + 1) : ts[i] = ts[j] => i = j
      <4>1. \A i, j \in 1..n : ts[i] = ts[j] => i = j
        BY <1>2, <3>1 DEF ListIsFresh
      <4> HIDE DEF ts
      <4> QED
        BY <1>3, <3>2, <4>1
    <3> QED
      BY <1>1, <1>2, <2>1, <2>2, <2>3, <3>1, <3>3 DEF Fresh, NameIsFresh, ListIsFresh, LinhasDe
  <2> QED
    BY <1>1, <1>4, <2>1, <2>3, <2>4, AloneGoOn
<1> QED
  BY <1>5, <1>6

\* The commit leaves the event with what was asked for: all its rows are replaced.
LEMMA CommitTagsAlone ==
  ASSUME RowInv, HistInv, AloneIInv, NEW q \in Requests, CommitTags(q)
  PROVE  AloneIInv'
<1> DEFINE e == req[q].evento
           ts == req[q].pedidas
           novas == {NovaLinha(e, t) : t \in Inseridas(q)}
<1>1. /\ At(q, "set", "insert") /\ ~Idle(q) /\ ~FaltaInserir(q) /\ Answer(q, req[q], 200)
      /\ UNCHANGED <<tabela, nomes>> /\ ligacoes' = (ligacoes \ req[q].linhas) \cup novas
  BY DEF CommitTags, At, Idle
<1>2. req[q] \in SetRequest /\ req[q].op = "set" /\ e \in Eventos /\ \A t \in Inseridas(q) : t \in Chaves
  BY <1>1, Ops, InseridasTypes DEF RowInv, TypesInv, At
<1>3. Inseridas(q) = ToSet(ts)
  <2>1. ts \in Seq(Chaves) /\ req[q].feitas \in Nat
    BY <1>2, SetLists, Ops, SetAssumption
  <2>2. req[q].feitas = Len(ts)
    BY <1>1, <1>2, <2>1 DEF RowInv, RequestsOk, RequestOk, FaltaInserir, Idle
  <2> QED
    BY <2>1, <2>2 DEF Inseridas, ToSet
<1>4. \A t \in Inseridas(q) : NovaLinha(e, t).evento = e /\ NovaLinha(e, t).tag = t
  BY <1>1, <1>2, NewRow
<1>8. ASSUME Alone(q), e \in SemEvento PROVE ToSet(ts) = {}
  <2>1. req[q].feitas = 0
    BY <1>2, <1>8 DEF AloneIInv, AloneInv, Fresh, ListIsFresh
  <2> QED
    BY <1>3, <2>1 DEF Inseridas
<1>5. ASSUME Alone(q) PROVE {l.tag : l \in {k \in ligacoes' : k.evento = e}} = ToSet(ts)
  <2>1. req[q].linhas = LinhasDe(e)
    BY <1>2, <1>5 DEF AloneIInv, AloneInv, Fresh, ListIsFresh
  <2>2. {k \in ligacoes' : k.evento = e} = novas
    BY <1>1, <1>4, <2>1 DEF LinhasDe
  <2>3. {l.tag : l \in novas} = Inseridas(q)
    BY <1>4
  <2> QED
    BY <1>3, <2>2, <2>3
<1>6. AloneAnswersAreRight'
  <2>1. CASE resposta' = Nenhum
    BY <2>1 DEF AloneAnswersAreRight
  <2>2. CASE resposta' # Nenhum
    <3>1. resposta' = [a |-> req[q], codigo |-> 200] /\ Alone(q)
      BY <1>1, <2>2, AnswerHistory DEF Alone
    <3>2. resposta'.a = req[q] /\ resposta'.codigo = 200
      BY <3>1
    <3>3. {l.tag : l \in {k \in ligacoes' : k.evento = e}} = ToSet(ts)
      BY <1>5, <3>1
    <3>4. e \in SemEvento => ToSet(ts) = {}
      BY <1>8, <3>1
    <3> QED
      BY <1>2, <3>2, <3>3, <3>4 DEF AloneAnswersAreRight, TagsDe, LinhasDe
  <2> QED
    BY <2>1, <2>2
<1>7. NullsInv'
  BY <1>1 DEF AloneIInv, NullsInv
<1> QED
  BY <1>1, <1>6, <1>7, AloneAnswer

LEMMA NextAlone == IInv /\ AloneIInv /\ [Next]_vars => AloneIInv'
<1> SUFFICES ASSUME RowInv, HistInv, AloneIInv, [Next]_vars PROVE AloneIInv'
  BY DEF IInv
<1>1. ASSUME NEW q \in Requests, Step(q) PROVE AloneIInv'
  BY <1>1, LookUpAlone, RefreshAlone, SaveRowAlone, DeleteRowAlone, DeleteRowsAlone, InsertRowAlone,
     CommitTagsAlone, DeadlockAlone DEF Step
<1>2. ASSUME NEW q \in Requests,
             \E u \in Users, e \in Eventos, ts \in BoundedSeq(Chaves, MaxPedidas) : SetEventTags(q, u, e, ts)
      PROVE  AloneIInv'
  BY <1>2, SetStartAlone
<1>3. CASE UNCHANGED vars
  <2>1. UNCHANGED <<tabela, nomes, req, juntas, resposta, ligacoes>>
    BY <1>3 DEF vars, varsNomes
  <2> QED
    BY <2>1 DEF AloneIInv, NullsInv, AloneInv, AloneAnswersAreRight, Alone, Fresh, NameIsFresh, ListIsFresh,
                Idle, Aceita, AceitaNulo, LooksUpFirst, LooksUp, HandlesIndex, Existing, NomeLivre, LinhasDe, TagsDe,
                NameAnswerIsRight
<1> QED
  BY <1>1, <1>2, <1>3, NewNameAlone, EndAlone DEF Next

\* A request that meets no other is answered what the table says: a conflict only
\* for another row's name, no 500 but the expected ones (among them the event that
\* does not exist), and after a 200 the name, or the whole list of tags, is there;
\* whatever earlier races have left.
THEOREM LoneRequestsAreAnsweredRight == Spec => []AloneAnswersAreRight
<1>1. Init => AloneIInv
  BY NomesAssumption DEF Init, InitNomes, AloneIInv, NullsInv, AloneInv, AloneAnswersAreRight, Alone, Idle
<1>2. AloneIInv => AloneAnswersAreRight
  BY DEF AloneIInv
<1> QED
  BY <1>1, <1>2, NextAlone, Invariant, PTL DEF Spec

=============================================================================
