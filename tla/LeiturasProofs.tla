--------------------------- MODULE LeiturasProofs ---------------------------
(***************************************************************************)
(* What readers are told while others write: the pages, metrics and        *)
(* recommendations of Consultas, the audit log of Auditoria, and the       *)
(* answers of GithubCache, for tables, pages and caches of any size.       *)
(***************************************************************************)
EXTENDS Auditoria, GithubCache, FiniteSetTheorems, SequenceTheorems, TLAPS

-----------------------------------------------------------------------------
(* Sequences of all elements of a finite set, each once.                   *)

LEMMA Enumeration ==
  ASSUME NEW S, IsFiniteSet(S), NEW s \in SetToSeqs(S)
  PROVE  /\ Cardinality(S) \in Nat
         /\ s \in [1..Cardinality(S) -> S]
         /\ DOMAIN s = 1..Cardinality(S)
         /\ Len(s) = Cardinality(S)
         /\ s \in Seq(S)
         /\ \A i, j \in 1..Cardinality(S) : s[i] = s[j] => i = j
         /\ \A x \in S : \E i \in 1..Cardinality(S) : s[i] = x
<1> DEFINE D == 1..Cardinality(S)
<1>1. Cardinality(S) \in Nat
  BY FS_CardinalityType
<1>2. s \in [D -> S] /\ \A i, j \in D : s[i] = s[j] => i = j
  BY DEF SetToSeqs
<1>3. IsFiniteSet(D) /\ Cardinality(D) = Cardinality(S)
  BY <1>1, FS_Interval
<1>4. s \in Injection(D, S)
  BY <1>2 DEF Injection, IsInjective
<1>5. s \in Surjection(D, S)
  BY <1>3, <1>4, FS_Injection
<1>6. \A x \in S : \E i \in D : s[i] = x
  BY <1>5 DEF Surjection
<1>7. Len(s) = Cardinality(S) /\ s \in Seq(S)
  BY <1>1, <1>2
<1> QED BY <1>1, <1>2, <1>6, <1>7

\* The first k elements are k.
LEMMA Prefix ==
  ASSUME NEW S, IsFiniteSet(S), NEW s \in SetToSeqs(S), NEW k \in 0..Cardinality(S)
  PROVE  /\ IsFiniteSet({s[i] : i \in 1..k})
         /\ Cardinality({s[i] : i \in 1..k}) = k
<1> DEFINE T == {s[i] : i \in 1..k}
           f == [i \in 1..k |-> s[i]]
<1>1. Cardinality(S) \in Nat /\ \A i, j \in 1..Cardinality(S) : s[i] = s[j] => i = j
  BY Enumeration
<1>2. k \in Nat /\ 1..k \subseteq 1..Cardinality(S)
  BY <1>1
<1>3. IsFiniteSet(1..k) /\ Cardinality(1..k) = k
  BY <1>2, FS_Interval
<1>4. f \in Surjection(1..k, T)
  BY DEF Surjection
<1>5. f \in Injection(1..k, T)
  BY <1>1, <1>2, <1>4 DEF Injection, IsInjective, Surjection
<1> QED BY <1>3, <1>4, <1>5, FS_Surjection

OrdemEstrita(S, R) ==
  /\ \A a \in S : <<a, a>> \notin R
  /\ \A a, b \in S : a # b => <<a, b>> \in R \/ <<b, a>> \in R
  /\ \A a, b, c \in S : <<a, b>> \in R /\ <<b, c>> \in R => <<a, c>> \in R

TemSequencia(S, R) ==
  \E s \in SetToSeqs(S) : \A i, j \in DOMAIN s : i < j => <<s[i], s[j]>> \in R

\* A set on which R is a strict total order has a sequence in the order of R: the
\* place of an element is one more than the number of those before it.
LEMMA OrderExists ==
  ASSUME NEW S, NEW R, IsFiniteSet(S), OrdemEstrita(S, R)
  PROVE  TemSequencia(S, R)
<1> /\ \A a \in S : <<a, a>> \notin R
    /\ \A a, b \in S : a # b => <<a, b>> \in R \/ <<b, a>> \in R
    /\ \A a, b, c \in S : <<a, b>> \in R /\ <<b, c>> \in R => <<a, c>> \in R
  BY DEF OrdemEstrita
<1> DEFINE n == Cardinality(S)
           Antes(x) == {y \in S : <<y, x>> \in R}
           posto == [x \in S |-> Cardinality(Antes(x)) + 1]
<1>1. n \in Nat
  BY FS_CardinalityType
<1>2. ASSUME NEW x \in S
      PROVE  IsFiniteSet(Antes(x)) /\ Cardinality(Antes(x)) \in Nat /\ Cardinality(Antes(x)) < n
  <2>1. IsFiniteSet(Antes(x)) /\ Cardinality(Antes(x)) <= n
    BY FS_Subset
  <2>2. Antes(x) # S
    OBVIOUS
  <2>3. Cardinality(Antes(x)) # n
    BY <2>2, FS_Subset
  <2> QED BY <1>1, <2>1, <2>3, FS_CardinalityType
<1>3. ASSUME NEW x \in S, NEW y \in S, <<x, y>> \in R
      PROVE  posto[x] < posto[y]
  <2>1. Antes(x) \subseteq Antes(y) /\ x \in Antes(y) /\ x \notin Antes(x)
    BY <1>3
  <2>2. Cardinality(Antes(x)) <= Cardinality(Antes(y)) /\ Cardinality(Antes(x)) # Cardinality(Antes(y))
    BY <1>2, <2>1, FS_Subset
  <2>3. posto[x] = Cardinality(Antes(x)) + 1 /\ posto[y] = Cardinality(Antes(y)) + 1
    OBVIOUS
  <2>4. Cardinality(Antes(x)) \in Nat /\ Cardinality(Antes(y)) \in Nat
    BY <1>2
  <2> HIDE DEF posto, Antes
  <2> QED BY <2>2, <2>3, <2>4
<1>4. posto \in [S -> 1..n]
  <2>1. ASSUME NEW x \in S PROVE Cardinality(Antes(x)) + 1 \in 1..n
    <3>1. Cardinality(Antes(x)) \in Nat /\ Cardinality(Antes(x)) < n
      BY <1>2
    <3> HIDE DEF Antes, n
    <3> QED BY <1>1, <3>1
  <2> HIDE DEF Antes, n
  <2> QED BY <2>1
<1>5. \A x, y \in S : posto[x] = posto[y] => x = y
  <2> SUFFICES ASSUME NEW x \in S, NEW y \in S, posto[x] = posto[y], x # y
               PROVE  FALSE
    OBVIOUS
  <2>1. posto[x] < posto[y] \/ posto[y] < posto[x]
    BY <1>3
  <2>2. posto[x] \in Nat /\ posto[y] \in Nat
    BY <1>4
  <2> HIDE DEF posto
  <2> QED BY <2>1, <2>2
<1> HIDE DEF posto
<1>6. posto \in Surjection(S, 1..n)
  <2>1. posto \in Injection(S, 1..n)
    BY <1>4, <1>5 DEF Injection, IsInjective
  <2>2. IsFiniteSet(1..n) /\ Cardinality(1..n) = n
    BY <1>1, FS_Interval
  <2> QED BY <2>1, <2>2, FS_Injection
<1> DEFINE s == [i \in 1..n |-> CHOOSE x \in S : posto[x] = i]
<1>7. \A i \in 1..n : s[i] \in S /\ posto[s[i]] = i
  BY <1>6 DEF Surjection
<1>8. s \in SetToSeqs(S)
  BY <1>7 DEF SetToSeqs
<1>9. ASSUME NEW i \in 1..n, NEW j \in 1..n, i < j
      PROVE  <<s[i], s[j]>> \in R
  <2>1. s[i] # s[j] /\ ~(posto[s[j]] < posto[s[i]])
    BY <1>7, <1>9
  <2>2. <<s[i], s[j]>> \in R \/ <<s[j], s[i]>> \in R
    BY <1>7, <2>1
  <2> QED BY <1>3, <1>7, <2>1, <2>2
<1>10. DOMAIN s = 1..n
  OBVIOUS
<1> QED BY <1>8, <1>9, <1>10 DEF TemSequencia

-----------------------------------------------------------------------------
(* Pages of such a sequence.                                               *)

LEMMA Bounds ==
  ASSUME NEW p \in Nat \ {0}
  PROVE  /\ (p - 1) * PageSize \in Nat /\ p * PageSize \in Nat
         /\ p * PageSize = (p - 1) * PageSize + PageSize
         /\ PageSize \in Nat /\ PageSize > 0
<1>1. PageSize \in Nat /\ PageSize > 0
  BY PageAssumption
<1>2. \A m, k \in Nat : m * k \in Nat /\ (m + 1) * k \in Nat /\ (m + 1) * k = m * k + k
  OBVIOUS
<1>3. p - 1 \in Nat /\ (p - 1) + 1 = p
  OBVIOUS
<1>4. ((p - 1) + 1) * PageSize = (p - 1) * PageSize + PageSize
  BY <1>1, <1>2, <1>3
<1> QED BY <1>1, <1>2, <1>3, <1>4

\* A page holds the elements at its places, and a short one is the last.
LEMMA PageHolds ==
  ASSUME NEW S, IsFiniteSet(S), NEW s \in SetToSeqs(S), NEW p \in Nat \ {0}
  PROVE  /\ ToSet(Page(s, p)) \subseteq S
         /\ \A i \in 1..Cardinality(S) :
              (p - 1) * PageSize < i /\ i <= p * PageSize => s[i] \in ToSet(Page(s, p))
         /\ Len(Page(s, p)) < PageSize => Cardinality(S) < p * PageSize
         /\ Len(Page(s, p)) \in Nat /\ Len(Page(s, p)) <= PageSize
         /\ Len(Page(s, p)) = PageSize => p * PageSize <= Cardinality(S)
<1> DEFINE n == Cardinality(S)
           a == (p - 1) * PageSize
           b == p * PageSize
           m == Menor(b, Len(s))
           t == Page(s, p)
<1>1. n \in Nat /\ Len(s) = n /\ s \in [1..n -> S]
  BY Enumeration
<1>2. a \in Nat /\ b \in Nat /\ b = a + PageSize /\ PageSize \in Nat /\ PageSize > 0
  BY Bounds
<1> HIDE DEF n, a, b
<1>3. m \in Nat /\ m <= b /\ m <= n /\ (m = b \/ m = n)
  BY <1>1, <1>2 DEF Menor
<1>4. t = SubSeq(s, a + 1, m)
  BY DEF Page, a, b
<1> HIDE DEF m, t
<1>5. \A i \in (a + 1)..m : s[i] \in S
  BY <1>1, <1>2, <1>3
<1>6. /\ t \in Seq(S)
      /\ Len(t) = IF a + 1 <= m THEN m - (a + 1) + 1 ELSE 0
      /\ \A i \in 1..(m - (a + 1) + 1) : t[i] = s[(a + 1) + i - 1]
  BY <1>2, <1>3, <1>4, <1>5, SubSeqProperties
<1>7. ToSet(t) \subseteq S
  BY <1>6 DEF ToSet
<1>8. ASSUME NEW i \in 1..n, a < i, i <= b
      PROVE  s[i] \in ToSet(t)
  <2>1. i <= m
    BY <1>1, <1>2, <1>3, <1>8
  <2>2. i - a \in 1..(m - (a + 1) + 1) /\ (a + 1) + (i - a) - 1 = i
    BY <1>1, <1>2, <1>3, <1>8, <2>1
  <2>3. t[i - a] = s[i]
    BY <1>6, <2>2
  <2>4. i - a \in DOMAIN t
    BY <1>2, <1>3, <1>6, <2>2
  <2> QED BY <2>3, <2>4 DEF ToSet
<1>9. ASSUME Len(t) < PageSize
      PROVE  n < b
  BY <1>1, <1>2, <1>3, <1>6, <1>9
<1>10. Len(t) \in Nat /\ Len(t) <= PageSize
  BY <1>1, <1>2, <1>3, <1>6
<1>11. ASSUME Len(t) = PageSize
       PROVE  b <= n
  BY <1>1, <1>2, <1>3, <1>6, <1>11
<1> QED BY <1>7, <1>8, <1>9, <1>10, <1>11 DEF n, a, b, t

-----------------------------------------------------------------------------
(* The audit log.  A walk over its pages has, at each page, every record   *)
(* that was there when it began, or the record lies beyond the pages read, *)
(* or shares its time with another.  Records come, at whatever place, and  *)
(* never go: those with a time of their own only move to later pages.      *)

\* The SELECTs that requests have before them.
PassosPaginas == {<<"contar", "pagina">>, <<"pagina">>, <<>>}
PassosAtividade == {<<"contar", "pagina", "usuarios">>, <<"pagina", "usuarios">>, <<"usuarios">>, <<>>}

Consulta ==
  [op : {"paginas", "atividade"}, filtro : FiltroLog, faltam : PassosPaginas \cup PassosAtividade,
   pagina : Nat \ {0}, total : Nat, lidos : SUBSET Registros, usuarios : SUBSET Atores,
   inicio : SUBSET Registros]

Empatado(f, r) == \E s \in CasamLog(f) \ {r} : MesmoMomento(r, s)

\* The records listed at the place of r and before it.
Ate(f, r) == {s \in CasamLog(f) : registros[s].momento >= registros[r].momento}

PassosOK(a) ==
  /\ a.op = "paginas" => a.faltam \in PassosPaginas
  /\ a.op = "atividade" => a.faltam \in PassosAtividade

LidosOK(a) == a.lidos \subseteq CasamLog(a.filtro) /\ a.inicio \subseteq CasamLog(a.filtro)

TotalOK(a) ==
  /\ a.op = "paginas" /\ a.faltam \in {<<"pagina">>, <<>>}
  /\ CasamLog(a.filtro) = a.inicio
  => a.total = Cardinality(a.inicio)

PercursoOK(a) ==
  a.op = "paginas" =>
    \A r \in a.inicio \ a.lidos :
      \/ Empatado(a.filtro, r)
      \/ a.faltam # <<>> /\ (a.pagina - 1) * PageSize < Cardinality(Ate(a.filtro, r))

AutoresOK(a) ==
  a.op = "atividade" /\ a.faltam = <<>> =>
    \A r \in a.lidos : registros[r].autor \in a.usuarios \cup {Nenhum}

ConsultaOK(a) ==
  a \in Consulta /\ PassosOK(a) /\ LidosOK(a) /\ TotalOK(a) /\ PercursoOK(a) /\ AutoresOK(a)

LogInv ==
  /\ registros \in [Registros -> Registro \cup {Nenhum}]
  /\ auditor # Nenhum => ConsultaOK(auditor)

\* What is before a request is one of seven lists.
LEMMA Passos ==
  /\ Head(<<"contar", "pagina">>) = "contar" /\ Tail(<<"contar", "pagina">>) = <<"pagina">>
  /\ Head(<<"pagina">>) = "pagina" /\ Tail(<<"pagina">>) = <<>>
  /\ Head(<<"contar", "pagina", "usuarios">>) = "contar"
  /\ Tail(<<"contar", "pagina", "usuarios">>) = <<"pagina", "usuarios">>
  /\ Head(<<"pagina", "usuarios">>) = "pagina" /\ Tail(<<"pagina", "usuarios">>) = <<"usuarios">>
  /\ Head(<<"usuarios">>) = "usuarios" /\ Tail(<<"usuarios">>) = <<>>
  OBVIOUS

LEMMA Distintos ==
  /\ <<"contar", "pagina">> # <<"pagina">>
  /\ <<"contar", "pagina">> # <<>> /\ <<"pagina">> # <<>>
  /\ <<"usuarios">> # <<>> /\ <<"pagina", "usuarios">> # <<>>
  /\ <<"contar", "pagina", "usuarios">> # <<>>
  OBVIOUS

LEMMA LogFinite ==
  ASSUME NEW f
  PROVE  /\ CasamLog(f) \subseteq Registros /\ IsFiniteSet(CasamLog(f))
         /\ Cardinality(CasamLog(f)) \in Nat
         /\ \A r : Ate(f, r) \subseteq CasamLog(f)
         /\ \A r : IsFiniteSet(Ate(f, r)) /\ Cardinality(Ate(f, r)) \in Nat
                   /\ Cardinality(Ate(f, r)) <= Cardinality(CasamLog(f))
<1>1. CasamLog(f) \subseteq Registros
  BY DEF CasamLog
<1>2. IsFiniteSet(CasamLog(f)) /\ Cardinality(CasamLog(f)) \in Nat
  BY <1>1, LogAssumption, FS_Subset, FS_CardinalityType
<1>3. \A r : Ate(f, r) \subseteq CasamLog(f)
  BY DEF Ate
<1>4. ASSUME NEW r
      PROVE  IsFiniteSet(Ate(f, r)) /\ Cardinality(Ate(f, r)) \in Nat
             /\ Cardinality(Ate(f, r)) <= Cardinality(CasamLog(f))
  BY <1>2, <1>3, FS_Subset, FS_CardinalityType
<1> QED BY <1>1, <1>2, <1>3, <1>4

\* A record with a time of its own has its place in every order of the query.
LEMMA PlaceInLog ==
  ASSUME LogInv, NEW f, NEW s \in Ordens(f), NEW r \in CasamLog(f), ~Empatado(f, r)
  PROVE  /\ Cardinality(Ate(f, r)) \in 1..Cardinality(CasamLog(f))
         /\ s[Cardinality(Ate(f, r))] = r
<1> DEFINE S == CasamLog(f)
           M(x) == registros[x].momento
<1>1. IsFiniteSet(S) /\ Cardinality(S) \in Nat
  BY LogFinite
<1>2. s \in SetToSeqs(S) /\ \A i, j \in DOMAIN s : i < j => M(s[i]) >= M(s[j])
  BY DEF Ordens
<1>3. \A x \in S : M(x) \in Nat
  BY LogAssumption DEF LogInv, CasamLog, CasaLog, Registro
<1>4. /\ DOMAIN s = 1..Cardinality(S)
      /\ \A i \in 1..Cardinality(S) : s[i] \in S
      /\ \A i, j \in 1..Cardinality(S) : s[i] = s[j] => i = j
      /\ \A x \in S : \E i \in 1..Cardinality(S) : s[i] = x
  BY <1>1, <1>2, Enumeration
<1>5. PICK i \in 1..Cardinality(S) : s[i] = r
  BY <1>4
<1>6. \A x \in S \ {r} : M(x) # M(r)
  BY DEF Empatado, MesmoMomento
<1>7. ASSUME NEW j \in 1..Cardinality(S)
      PROVE  j <= i <=> M(s[j]) >= M(r)
  <2>1. CASE j < i
    BY <1>1, <1>2, <1>4, <1>5, <2>1
  <2>2. CASE j = i
    BY <1>1, <1>3, <1>5, <2>2
  <2>3. CASE j > i
    <3>1. M(r) >= M(s[j]) /\ s[j] # r /\ s[j] \in S
      BY <1>1, <1>2, <1>4, <1>5, <2>3
    <3>2. ~(M(s[j]) >= M(r))
      BY <1>3, <1>6, <3>1
    <3> QED BY <1>1, <2>3, <3>2
  <2> QED BY <1>1, <2>1, <2>2, <2>3
<1>8. Ate(f, r) = {s[j] : j \in 1..i}
  <2>1. Ate(f, r) \subseteq {s[j] : j \in 1..i}
    <3> SUFFICES ASSUME NEW x \in Ate(f, r) PROVE \E j \in 1..i : x = s[j]
      OBVIOUS
    <3>1. PICK j \in 1..Cardinality(S) : s[j] = x
      BY <1>4 DEF Ate
    <3>2. j <= i
      BY <1>7, <3>1 DEF Ate
    <3> QED BY <1>1, <3>1, <3>2
  <2>2. ASSUME NEW j \in 1..i PROVE s[j] \in Ate(f, r)
    <3>1. j \in 1..Cardinality(S) /\ j <= i
      BY <1>1
    <3> QED BY <1>4, <1>7, <3>1 DEF Ate
  <2> QED BY <2>1, <2>2
<1>9. Cardinality(Ate(f, r)) = i
  BY <1>1, <1>2, <1>8, Prefix
<1> QED BY <1>5, <1>9

LEMMA LogInit == InitLog => LogInv
  BY DEF InitLog, LogInv

\* While nothing is recorded, what is known of a request is about the same log.
LEMMA SameLog ==
  ASSUME LogInv, UNCHANGED registros, auditor' # Nenhum => ConsultaOK(auditor')
  PROVE  LogInv'
<1>1. \A f : CasamLog(f)' = CasamLog(f)
  BY DEF CasamLog, CasaLog
<1>2. \A f, r : Ate(f, r)' = Ate(f, r)
  BY <1>1 DEF Ate
<1>3. \A f, r : Empatado(f, r)' = Empatado(f, r)
  BY <1>1 DEF Empatado, MesmoMomento
<1>4. ASSUME NEW a, ConsultaOK(a)
      PROVE  ConsultaOK(a)'
  BY <1>1, <1>2, <1>3, <1>4
     DEF ConsultaOK, PassosOK, LidosOK, TotalOK, PercursoOK, AutoresOK
<1>5. PICK b : b = auditor'
  OBVIOUS
<1>6. ConsultaOK(b)' => ConsultaOK(auditor)'
  BY <1>5
<1> QED BY <1>4, <1>5, <1>6 DEF LogInv

LEMMA StartLogStep ==
  ASSUME LogInv, NEW op \in {"paginas", "atividade"}, NEW f \in FiltroLog, NEW faltam,
         op = "paginas" => faltam = <<"contar", "pagina">>,
         op = "atividade" => faltam = <<"contar", "pagina", "usuarios">>,
         StartLog(op, f, faltam)
  PROVE  LogInv'
<1> DEFINE b == [op |-> op, filtro |-> f, faltam |-> faltam, pagina |-> 1, total |-> 0,
                 lidos |-> {}, usuarios |-> {}, inicio |-> CasamLog(f)]
<1>1. b \in Consulta
  <2>1. CasamLog(f) \subseteq Registros
    BY LogFinite
  <2> QED BY <2>1 DEF Consulta, PassosPaginas, PassosAtividade
<1>2. PassosOK(b) /\ LidosOK(b)
  BY DEF PassosOK, LidosOK, PassosPaginas, PassosAtividade
<1>3. TotalOK(b) /\ AutoresOK(b)
  BY Distintos DEF TotalOK, AutoresOK
<1>4. PercursoOK(b)
  <2> SUFFICES ASSUME op = "paginas", NEW r \in CasamLog(f)
               PROVE  (1 - 1) * PageSize < Cardinality(Ate(f, r))
    BY Distintos DEF PercursoOK
  <2>1. registros[r].momento \in Nat
    BY LogAssumption DEF LogInv, CasamLog, CasaLog, Registro
  <2>2. r \in Ate(f, r)
    BY <2>1 DEF Ate
  <2>3. Cardinality(Ate(f, r)) # 0 /\ Cardinality(Ate(f, r)) \in Nat
    BY <2>2, LogFinite, FS_EmptySet
  <2>4. (1 - 1) * PageSize = 0
    BY PageAssumption
  <2> QED BY <2>3, <2>4
<1>5. ConsultaOK(b)
  BY <1>1, <1>2, <1>3, <1>4 DEF ConsultaOK
<1>6. auditor' = b /\ UNCHANGED registros
  BY DEF StartLog
<1> QED BY <1>5, <1>6, SameLog

LEMMA CountLogsStep ==
  ASSUME LogInv, CountLogs
  PROVE  LogInv'
<1>1. PICK a \in Consulta : a = auditor /\ ConsultaOK(a)
  BY DEF LogInv, CountLogs, Proxima, ConsultaOK
<1>2. PICK b : b = auditor'
  OBVIOUS
<1>3. b = [a EXCEPT !.faltam = Tail(@), !.total = Cardinality(CasamLog(a.filtro))]
  BY <1>1, <1>2 DEF CountLogs
<1>4. UNCHANGED registros /\ Head(a.faltam) = "contar" /\ a.faltam # <<>>
  BY <1>1 DEF CountLogs, Proxima
<1>5. b.faltam = Tail(a.faltam)
  BY <1>3 DEF Consulta
<1>6. \/ a.op = "paginas" /\ a.faltam = <<"contar", "pagina">> /\ b.faltam = <<"pagina">>
      \/ a.op = "atividade" /\ a.faltam = <<"contar", "pagina", "usuarios">>
                            /\ b.faltam = <<"pagina", "usuarios">>
  BY <1>1, <1>4, <1>5, Passos DEF ConsultaOK, PassosOK, PassosPaginas, PassosAtividade, Consulta
<1>7. /\ b.op = a.op /\ b.filtro = a.filtro /\ b.pagina = a.pagina /\ b.lidos = a.lidos
      /\ b.usuarios = a.usuarios /\ b.inicio = a.inicio
      /\ b.total = Cardinality(CasamLog(a.filtro))
      /\ b = [op |-> a.op, filtro |-> a.filtro, faltam |-> b.faltam, pagina |-> a.pagina,
              total |-> b.total, lidos |-> a.lidos, usuarios |-> a.usuarios, inicio |-> a.inicio]
  BY <1>1, <1>3 DEF Consulta
<1>8. b \in Consulta
  <2>1. b.total \in Nat /\ b.faltam \in PassosPaginas \cup PassosAtividade
    BY <1>6, <1>7, LogFinite DEF PassosPaginas, PassosAtividade
  <2> QED BY <1>1, <1>7, <2>1 DEF Consulta
<1>9. PassosOK(b) /\ LidosOK(b) /\ TotalOK(b)
  BY <1>1, <1>6, <1>7 DEF ConsultaOK, PassosOK, LidosOK, TotalOK, PassosPaginas, PassosAtividade
<1>10. PercursoOK(b)
  BY <1>1, <1>6, <1>7, Distintos DEF ConsultaOK, PercursoOK
<1>11. AutoresOK(b)
  BY <1>1, <1>6, <1>7, Distintos DEF ConsultaOK, AutoresOK
<1> QED BY <1>2, <1>4, <1>8, <1>9, <1>10, <1>11, SameLog DEF ConsultaOK

\* The page read has every record of a time of its own that lies on it.
LEMMA ListLogsStep ==
  ASSUME LogInv, ListLogs
  PROVE  LogInv'
<1>1. PICK a \in Consulta : a = auditor /\ ConsultaOK(a)
  BY DEF LogInv, ListLogs, Proxima, ConsultaOK
<1> DEFINE f == a.filtro
<1>2. PICK s \in Ordens(f) :
        LET itens == Page(s, a.pagina)
            segue == a.op = "paginas" /\ Len(itens) = PageSize
        IN  auditor' = [a EXCEPT !.lidos = @ \cup ToSet(itens),
                                 !.faltam = IF segue THEN <<"contar", "pagina">> ELSE Tail(@),
                                 !.pagina = IF segue THEN @ + 1 ELSE @]
  BY <1>1 DEF ListLogs
<1> DEFINE itens == Page(s, a.pagina)
           segue == a.op = "paginas" /\ Len(itens) = PageSize
<1>3. PICK b : b = auditor'
  OBVIOUS
<1>4. /\ b.op = a.op /\ b.filtro = f /\ b.usuarios = a.usuarios /\ b.inicio = a.inicio
      /\ b.total = a.total
      /\ b.lidos = a.lidos \cup ToSet(itens)
      /\ b.faltam = IF segue THEN <<"contar", "pagina">> ELSE Tail(a.faltam)
      /\ b.pagina = IF segue THEN a.pagina + 1 ELSE a.pagina
      /\ b = [op |-> a.op, filtro |-> f, faltam |-> b.faltam, pagina |-> b.pagina,
              total |-> a.total, lidos |-> b.lidos, usuarios |-> a.usuarios, inicio |-> a.inicio]
  BY <1>1, <1>2, <1>3 DEF Consulta
<1>5. UNCHANGED registros /\ Head(a.faltam) = "pagina" /\ a.faltam # <<>>
  BY <1>1 DEF ListLogs, Proxima
<1>6. \/ a.op = "paginas" /\ a.faltam = <<"pagina">>
         /\ b.faltam = IF segue THEN <<"contar", "pagina">> ELSE <<>>
      \/ a.op = "atividade" /\ a.faltam = <<"pagina", "usuarios">>
         /\ b.faltam = <<"usuarios">> /\ ~segue
  BY <1>1, <1>4, <1>5, Passos DEF ConsultaOK, PassosOK, PassosPaginas, PassosAtividade, Consulta
<1>7. a.pagina \in Nat \ {0} /\ s \in SetToSeqs(CasamLog(f)) /\ IsFiniteSet(CasamLog(f))
  BY LogFinite DEF Consulta, Ordens
<1>8. /\ ToSet(itens) \subseteq CasamLog(f)
      /\ \A i \in 1..Cardinality(CasamLog(f)) :
           (a.pagina - 1) * PageSize < i /\ i <= a.pagina * PageSize => s[i] \in ToSet(itens)
      /\ Len(itens) < PageSize => Cardinality(CasamLog(f)) < a.pagina * PageSize
  BY <1>7, PageHolds
<1>9. Len(itens) \in Nat /\ Len(itens) <= PageSize
  BY <1>7, PageHolds
<1> HIDE DEF itens, segue, f
<1>10. b \in Consulta
  <2>1. b.faltam \in PassosPaginas \cup PassosAtividade
    BY <1>6 DEF PassosPaginas, PassosAtividade
  <2>2. b.lidos \subseteq Registros /\ b.pagina \in Nat \ {0}
    BY <1>1, <1>4, <1>7, <1>8, LogFinite DEF Consulta
  <2> QED BY <1>1, <1>4, <2>1, <2>2 DEF Consulta, f
<1>11. PassosOK(b) /\ LidosOK(b)
  BY <1>1, <1>4, <1>6, <1>8
     DEF ConsultaOK, PassosOK, LidosOK, PassosPaginas, PassosAtividade, f
<1>12. TotalOK(b)
  BY <1>1, <1>4, <1>6, Distintos DEF ConsultaOK, TotalOK, f
<1>13. AutoresOK(b)
  BY <1>4, <1>6, Distintos DEF AutoresOK
<1>14. PercursoOK(b)
  <2> SUFFICES ASSUME a.op = "paginas", NEW r \in a.inicio, r \notin a.lidos, r \notin ToSet(itens),
                      ~Empatado(f, r)
               PROVE  b.faltam # <<>> /\ (b.pagina - 1) * PageSize < Cardinality(Ate(f, r))
    BY <1>4 DEF PercursoOK
  <2> DEFINE k == Cardinality(Ate(f, r))
  <2>1. r \in CasamLog(f) /\ (a.pagina - 1) * PageSize < k
    BY <1>1 DEF ConsultaOK, LidosOK, PercursoOK, f
  <2>2. k \in 1..Cardinality(CasamLog(f)) /\ s[k] = r
    BY <2>1, PlaceInLog
  <2>3. ~(k <= a.pagina * PageSize)
    BY <1>8, <2>1, <2>2
  <2>4. a.pagina * PageSize \in Nat /\ PageSize \in Nat /\ Cardinality(CasamLog(f)) \in Nat
    BY <1>7, Bounds, LogFinite
  <2> HIDE DEF k
  <2>5. ~(Len(itens) < PageSize) /\ a.pagina * PageSize < k
    BY <1>8, <2>2, <2>3, <2>4
  <2>6. segue /\ b.pagina - 1 = a.pagina
    BY <1>4, <1>7, <1>9, <2>4, <2>5 DEF segue
  <2> QED BY <1>6, <2>5, <2>6, Distintos DEF k
<1> QED BY <1>3, <1>5, <1>10, <1>11, <1>12, <1>13, <1>14, SameLog DEF ConsultaOK

LEMMA ListUsersStep ==
  ASSUME LogInv, ListDistinctUsers
  PROVE  LogInv'
<1>1. PICK a \in Consulta : a = auditor /\ ConsultaOK(a)
  BY DEF LogInv, ListDistinctUsers, Proxima, ConsultaOK
<1>2. PICK b : b = auditor'
  OBVIOUS
<1> DEFINE U == {registros[r].autor : r \in Gravados} \ {Nenhum}
<1>3. /\ b = [a EXCEPT !.faltam = Tail(@), !.usuarios = U]
      /\ UNCHANGED registros /\ Head(a.faltam) = "usuarios" /\ a.faltam # <<>>
  BY <1>1, <1>2 DEF ListDistinctUsers, Proxima
<1> HIDE DEF U
<1>4. /\ b.op = a.op /\ b.filtro = a.filtro /\ b.pagina = a.pagina /\ b.lidos = a.lidos
      /\ b.usuarios = U /\ b.inicio = a.inicio /\ b.total = a.total
      /\ b.faltam = Tail(a.faltam)
      /\ b = [op |-> a.op, filtro |-> a.filtro, faltam |-> b.faltam, pagina |-> a.pagina,
              total |-> b.total, lidos |-> a.lidos, usuarios |-> U, inicio |-> a.inicio]
  BY <1>1, <1>3 DEF Consulta
<1>5. a.op = "atividade" /\ a.faltam = <<"usuarios">> /\ b.faltam = <<>>
  BY <1>1, <1>3, <1>4, Passos DEF ConsultaOK, PassosOK, PassosPaginas, PassosAtividade, Consulta
<1>6. a.lidos \subseteq Gravados
  BY <1>1 DEF ConsultaOK, LidosOK, CasamLog, CasaLog, Gravados
<1>7. b \in Consulta
  <2>1. U \subseteq Atores
    BY DEF U, Gravados, LogInv, Registro
  <2> QED BY <1>1, <1>4, <1>5, <2>1 DEF Consulta, PassosPaginas
<1>8. PassosOK(b) /\ LidosOK(b)
  BY <1>1, <1>4, <1>5 DEF ConsultaOK, PassosOK, LidosOK, PassosAtividade
<1>9. TotalOK(b)
  BY <1>4, <1>5 DEF TotalOK
<1>10. PercursoOK(b)
  BY <1>4, <1>5 DEF PercursoOK
<1>11. AutoresOK(b)
  BY <1>4, <1>6 DEF AutoresOK, U
<1> QED BY <1>2, <1>3, <1>7, <1>8, <1>9, <1>10, <1>11, SameLog DEF ConsultaOK

\* Records come and stay as they are.
LEMMA RecordKeeps ==
  ASSUME LogInv, NEW S \in SUBSET Registros, NEW a \in Atores, NEW m \in Momentos, Record(S, a, m)
  PROVE  /\ registros' \in [Registros -> Registro \cup {Nenhum}]
         /\ \A r \in Gravados : registros'[r] = registros[r]
         /\ \A f : CasamLog(f) \subseteq CasamLog(f)'
         /\ \A f, r : r \in CasamLog(f) /\ Empatado(f, r) => Empatado(f, r)'
         /\ \A f, r : r \in CasamLog(f) =>
              Cardinality(Ate(f, r)) <= Cardinality(Ate(f, r)')
<1>1. registros' \in [Registros -> Registro \cup {Nenhum}]
  BY DEF Record, LogInv, Registro
<1>2. \A r \in Gravados : registros'[r] = registros[r]
  BY DEF Record, Gravados
<1>3. \A f : CasamLog(f) \subseteq Gravados
  BY DEF CasamLog, CasaLog, Gravados
<1>4. \A f : CasamLog(f) \subseteq CasamLog(f)'
  BY <1>2 DEF CasamLog, CasaLog, Gravados
<1>5. \A f, r : r \in CasamLog(f) /\ Empatado(f, r) => Empatado(f, r)'
  BY <1>2, <1>3, <1>4 DEF Empatado, MesmoMomento
<1>6. ASSUME NEW f, NEW r \in CasamLog(f)
      PROVE  Cardinality(Ate(f, r)) <= Cardinality(Ate(f, r)')
  <2>1. Ate(f, r) \subseteq Ate(f, r)'
    BY <1>2, <1>3, <1>4 DEF Ate
  <2>2. IsFiniteSet(Ate(f, r)')
    <3>1. Ate(f, r)' \subseteq Registros
      BY DEF Ate, CasamLog
    <3> QED BY <3>1, LogAssumption, FS_Subset
  <2> QED BY <2>1, <2>2, FS_Subset
<1> QED BY <1>1, <1>2, <1>4, <1>5, <1>6

LEMMA RecordStep ==
  ASSUME LogInv, NEW S \in SUBSET Registros, NEW a \in Atores, NEW m \in Momentos, Record(S, a, m)
  PROVE  LogInv'
<1>1. registros' \in [Registros -> Registro \cup {Nenhum}]
  BY RecordKeeps
<1>2. CASE Respondido
  BY <1>1, <1>2 DEF Record, LogInv
<1>3. CASE ~Respondido
  <2>1. PICK b \in Consulta : b = auditor /\ ConsultaOK(b)
    BY <1>3 DEF LogInv, Respondido, ConsultaOK
  <2>2. auditor' = b /\ b.faltam # <<>>
    BY <1>3, <2>1 DEF Record, Respondido
  <2>3. b.lidos \subseteq CasamLog(b.filtro) /\ b.inicio \subseteq CasamLog(b.filtro)
        /\ CasamLog(b.filtro) \subseteq CasamLog(b.filtro)'
    BY <2>1, RecordKeeps DEF ConsultaOK, LidosOK
  <2>4. PassosOK(b)' /\ LidosOK(b)' /\ AutoresOK(b)'
    BY <2>1, <2>2, <2>3 DEF ConsultaOK, PassosOK, LidosOK, AutoresOK
  <2>5. TotalOK(b)'
    BY <2>1, <2>3 DEF ConsultaOK, TotalOK
  <2>6. PercursoOK(b)'
    <3> SUFFICES ASSUME b.op = "paginas", NEW r \in b.inicio, r \notin b.lidos, ~Empatado(b.filtro, r)'
                 PROVE  (b.pagina - 1) * PageSize < Cardinality(Ate(b.filtro, r)')
      BY <2>2 DEF PercursoOK
    <3>1. r \in CasamLog(b.filtro) /\ ~Empatado(b.filtro, r)
      BY <2>3, RecordKeeps
    <3>2. (b.pagina - 1) * PageSize < Cardinality(Ate(b.filtro, r))
      BY <2>1, <3>1 DEF ConsultaOK, PercursoOK
    <3>3. Cardinality(Ate(b.filtro, r)) <= Cardinality(Ate(b.filtro, r)')
      BY <3>1, RecordKeeps
    <3>4. /\ Cardinality(Ate(b.filtro, r)) \in Nat
          /\ (b.pagina - 1) * PageSize \in Nat
      BY Bounds, LogFinite DEF Consulta
    <3>5. Cardinality(Ate(b.filtro, r)') \in Nat
      <4>1. Ate(b.filtro, r)' \subseteq Registros
        BY DEF Ate, CasamLog
      <4> QED BY <4>1, LogAssumption, FS_Subset, FS_CardinalityType
    <3> QED BY <3>2, <3>3, <3>4, <3>5
  <2>7. ConsultaOK(b)'
    BY <2>4, <2>5, <2>6 DEF ConsultaOK
  <2>8. ConsultaOK(auditor)'
    BY <2>2, <2>7
  <2> QED BY <1>1, <2>8 DEF LogInv
<1> QED BY <1>2, <1>3

LEMMA LogNext == LogInv /\ [NextLog]_varsLog => LogInv'
<1> SUFFICES ASSUME LogInv, [NextLog]_varsLog PROVE LogInv'
  OBVIOUS
<1>1. ASSUME NEW f \in FiltroLog, ListAuditLogs(f) PROVE LogInv'
  BY <1>1, StartLogStep DEF ListAuditLogs
<1>2. ASSUME GetRecentActivity PROVE LogInv'
  <2>1. [autor |-> Nenhum, desde |-> Nenhum] \in FiltroLog
    BY LogAssumption DEF FiltroLog
  <2> QED BY <1>2, <2>1, StartLogStep DEF GetRecentActivity
<1>3. ASSUME UNCHANGED varsLog PROVE LogInv'
  BY <1>3, SameLog DEF varsLog, LogInv
<1> QED BY <1>1, <1>2, <1>3, CountLogsStep, ListLogsStep, ListUsersStep, RecordStep DEF NextLog

\* The walk over the pages of the audit log and the recent activity of the
\* dashboard (AuditRepository.list_logs, DashboardService._get_recent_activity),
\* whatever the triggers record meanwhile.
THEOREM LogIsReadSoundly == SpecLog => []LogReadsAreSound
<1>1. LogInv => LogReadsAreSound
  <2> SUFFICES ASSUME LogInv, auditor # Nenhum, auditor.faltam = <<>> PROVE LogReadsAreSound
    BY DEF LogReadsAreSound
  <2>1. ConsultaOK(auditor)
    BY DEF LogInv
  <2> DEFINE f == auditor.filtro
  <2>2. ASSUME auditor.op = "paginas", NEW r \in auditor.inicio \ auditor.lidos
        PROVE  Empatado(f, r)
    BY <2>1, <2>2 DEF ConsultaOK, PercursoOK
  <2>3. ASSUME auditor.op = "paginas", CasamLog(f) = auditor.inicio,
               \A r \in CasamLog(f) : ~Empatado(f, r)
        PROVE  auditor.total = Cardinality(auditor.lidos)
    <3>1. auditor.lidos = auditor.inicio
      BY <2>1, <2>2, <2>3 DEF ConsultaOK, LidosOK
    <3>2. auditor.total = Cardinality(auditor.inicio)
      BY <2>1, <2>3 DEF ConsultaOK, TotalOK
    <3> QED BY <3>1, <3>2
  <2>4. auditor.op = "atividade" =>
          \A r \in auditor.lidos : registros[r].autor \in auditor.usuarios \cup {Nenhum}
    BY <2>1 DEF ConsultaOK, AutoresOK
  <2>5. auditor.op \in {"paginas", "atividade"}
    BY <2>1 DEF ConsultaOK, Consulta
  <2> QED BY <2>2, <2>3, <2>4, <2>5 DEF LogReadsAreSound, Empatado
<1> QED BY <1>1, LogInit, LogNext, PTL DEF SpecLog

-----------------------------------------------------------------------------
(* The orders of Consultas are strict and total, so their sequences exist. *)

LEMMA EventsFinite ==
  /\ IsFiniteSet(Ids) /\ Cardinality(Ids) \in Nat /\ Ids \subseteq Nat
  /\ \A S \in SUBSET Ids : IsFiniteSet(S) /\ Cardinality(S) \in 0..Cardinality(Ids)
<1>1. ASSUME NEW S \in SUBSET Ids
      PROVE  IsFiniteSet(S) /\ Cardinality(S) \in 0..Cardinality(Ids)
  <2>1. IsFiniteSet(S) /\ Cardinality(S) <= Cardinality(Ids)
    BY IdsAssumption, FS_Subset
  <2>2. Cardinality(S) \in Nat /\ Cardinality(Ids) \in Nat
    BY <2>1, IdsAssumption, FS_CardinalityType
  <2> QED BY <2>1, <2>2
<1> QED BY <1>1, IdsAssumption, FS_CardinalityType

\* A finite set of events can be listed by a key, the newest first among equals.
LEMMA ListedByKey ==
  ASSUME NEW S, S \subseteq Nat, IsFiniteSet(S), NEW K \in [S -> Nat]
  PROVE  \E s \in SetToSeqs(S) : \A i, j \in DOMAIN s : i < j =>
           K[s[i]] < K[s[j]] \/ (K[s[i]] = K[s[j]] /\ s[i] > s[j])
<1> DEFINE Antes(a, b) == K[a] < K[b] \/ (K[a] = K[b] /\ a > b)
           R == {p \in S \X S : Antes(p[1], p[2])}
<1>1. \A a, b \in S : <<a, b>> \in R <=> Antes(a, b)
  OBVIOUS
<1>2. ASSUME NEW a \in S PROVE K[a] \in Nat /\ a \in Nat
  OBVIOUS
<1>3. ASSUME NEW a \in S PROVE ~Antes(a, a)
  BY <1>2
<1>4. ASSUME NEW a \in S, NEW b \in S, a # b PROVE Antes(a, b) \/ Antes(b, a)
  BY <1>2, <1>4
<1>5. ASSUME NEW a \in S, NEW b \in S, NEW c \in S, Antes(a, b), Antes(b, c) PROVE Antes(a, c)
  <2>1. /\ K[a] \in Nat /\ K[b] \in Nat /\ K[c] \in Nat
        /\ a \in Nat /\ b \in Nat /\ c \in Nat
    OBVIOUS
  <2> QED BY <1>5, <2>1
<1> HIDE DEF Antes, R
<1>6. TemSequencia(S, R)
  <2>1. OrdemEstrita(S, R)
    BY <1>1, <1>3, <1>4, <1>5 DEF OrdemEstrita
  <2> QED BY <2>1, OrderExists
<1>7. PICK s \in SetToSeqs(S) : \A i, j \in DOMAIN s : i < j => <<s[i], s[j]>> \in R
  BY <1>6 DEF TemSequencia
<1>8. \A i \in DOMAIN s : s[i] \in S
  BY <1>7, Enumeration
<1>9. \A i, j \in DOMAIN s : i < j => Antes(s[i], s[j])
  BY <1>1, <1>7, <1>8
<1> QED BY <1>7, <1>9 DEF Antes

AntesNaLista(f, a, b) ==
  \/ Fila(eventos[a], f) < Fila(eventos[b], f)
  \/ Fila(eventos[a], f) = Fila(eventos[b], f) /\ a > b

LEMMA ListadosOrdered ==
  ASSUME NEW f
  PROVE  /\ Listados(f) \in SetToSeqs(Casam(f))
         /\ \A i, j \in DOMAIN Listados(f) :
              i < j => AntesNaLista(f, Listados(f)[i], Listados(f)[j])
<1> DEFINE S == Casam(f)
           K == [x \in S |-> Fila(eventos[x], f)]
<1>1. S \subseteq Nat /\ IsFiniteSet(S)
  BY EventsFinite DEF Casam
<1>2. K \in [S -> Nat]
  BY DEF Fila
<1> HIDE DEF K
<1>3. PICK s \in SetToSeqs(S) : \A i, j \in DOMAIN s : i < j =>
        K[s[i]] < K[s[j]] \/ (K[s[i]] = K[s[j]] /\ s[i] > s[j])
  BY <1>1, <1>2, ListedByKey
<1>4. \A i \in DOMAIN s : s[i] \in S /\ K[s[i]] = Fila(eventos[s[i]], f)
  BY <1>1, <1>3, Enumeration DEF K
<1>5. \A i, j \in DOMAIN s : i < j => AntesNaLista(f, s[i], s[j])
  BY <1>3, <1>4 DEF AntesNaLista
<1>6. \E t \in SetToSeqs(S) : \A i, j \in DOMAIN t : i < j => AntesNaLista(f, t[i], t[j])
  BY <1>3, <1>5
<1> QED BY <1>6 DEF Listados, EmOrdem, AntesNaLista

AntesNoTempo(a, b) ==
  \/ eventos[a].data < eventos[b].data
  \/ eventos[a].data = eventos[b].data /\ a > b

\* A coming event has a date.
LEMMA ComingDated ==
  ASSUME TypeOK
  PROVE  /\ Proximos \subseteq Ids /\ IsFiniteSet(Proximos)
         /\ \A e \in Proximos : eventos[e] \in Linhas /\ eventos[e].data \in Nat
<1>1. Proximos \subseteq Vivos /\ Vivos \subseteq Ids
  BY DEF Proximos, Publicados, Vivos
<1>2. \A e \in Vivos : eventos[e] \in Linhas
  BY DEF TypeOK, Vivos
<1>3. \A e \in Proximos : eventos[e].data # Nenhum
  BY DEF Proximos, Futuro
<1> QED BY <1>1, <1>2, <1>3, EventsFinite, LinhasAssumption, DatasAssumption DEF Linha

LEMMA NearestOrdered ==
  ASSUME TypeOK
  PROVE  /\ Nearest \in SetToSeqs(Proximos)
         /\ \A i, j \in DOMAIN Nearest : i < j => AntesNoTempo(Nearest[i], Nearest[j])
<1> DEFINE S == Proximos
           K == [x \in S |-> eventos[x].data]
<1>1. S \subseteq Nat /\ IsFiniteSet(S)
  BY ComingDated, EventsFinite
<1>2. \A a \in S : eventos[a].data \in Nat
  BY ComingDated
<1>3. K \in [S -> Nat]
  BY <1>2
<1> HIDE DEF K
<1>4. PICK s \in SetToSeqs(S) : \A i, j \in DOMAIN s : i < j =>
        K[s[i]] < K[s[j]] \/ (K[s[i]] = K[s[j]] /\ s[i] > s[j])
  BY <1>1, <1>3, ListedByKey
<1>5. \A i \in DOMAIN s : s[i] \in S /\ K[s[i]] = eventos[s[i]].data
  BY <1>1, <1>4, Enumeration DEF K
<1>6. \A i, j \in DOMAIN s : i < j => AntesNoTempo(s[i], s[j])
  BY <1>4, <1>5 DEF AntesNoTempo
<1>7. \E t \in SetToSeqs(S) : \A i, j \in DOMAIN t : i < j => AntesNoTempo(t[i], t[j])
  BY <1>4, <1>6
<1> QED BY <1>7 DEF Nearest, EmOrdem, AntesNoTempo

LEMMA RecomendadosOrdered ==
  ASSUME NEW T \in SUBSET Ids, NEW linhas \in [T -> Linhas], NEW alvo,
         \A e \in T \ {alvo} : linhas[e].data \in Nat
  PROVE  /\ Recomendados(linhas, alvo) \in SetToSeqs(T \ {alvo})
         /\ \A i, j \in DOMAIN Recomendados(linhas, alvo) :
              i < j => AntesNaRecomendacao(linhas, alvo, Recomendados(linhas, alvo)[i],
                                           Recomendados(linhas, alvo)[j])
<1> DEFINE S == T \ {alvo}
           Antes(a, b) == AntesNaRecomendacao(linhas, alvo, a, b)
           R == {p \in S \X S : Antes(p[1], p[2])}
           K(e) == Chave(linhas, alvo, e)
<1>1. S \subseteq Nat /\ IsFiniteSet(S)
  BY EventsFinite
<1>2. \A a \in S : K(a) \in Nat \X Nat \X Nat
  BY DEF Chave, SortKey
<1>3. \A a, b \in S : <<a, b>> \in R <=> Antes(a, b)
  OBVIOUS
<1>4. \A k, l, m \in Nat \X Nat \X Nat :
        /\ ~KeyLess(k, k)
        /\ k # l => KeyLess(k, l) \/ KeyLess(l, k)
        /\ KeyLess(k, l) /\ KeyLess(l, m) => KeyLess(k, m)
  BY DEF KeyLess
<1>5. /\ \A a \in S : ~Antes(a, a)
      /\ \A a, b \in S : a # b => Antes(a, b) \/ Antes(b, a)
      /\ \A a, b, c \in S : Antes(a, b) /\ Antes(b, c) => Antes(a, c)
  <2> HIDE DEF K
  <2>1. \A a, b : Antes(a, b) <=> KeyLess(K(a), K(b)) \/ (K(a) = K(b) /\ a > b)
    BY DEF AntesNaRecomendacao, K
  <2> HIDE DEF Antes
  <2> QED BY <1>1, <1>2, <1>4, <2>1
<1> HIDE DEF R
<1>6. TemSequencia(S, R)
  <2>1. OrdemEstrita(S, R)
    BY <1>3, <1>5 DEF OrdemEstrita
  <2> QED BY <1>1, <2>1, OrderExists
<1>7. PICK s \in SetToSeqs(S) : \A i, j \in DOMAIN s : i < j => <<s[i], s[j]>> \in R
  BY <1>6 DEF TemSequencia
<1>8. \A i \in DOMAIN s : s[i] \in S
  BY <1>1, Enumeration
<1>9. \A i, j \in DOMAIN s : i < j => Antes(s[i], s[j])
  BY <1>3, <1>7, <1>8
<1>10. \E t \in SetToSeqs(S) : \A i, j \in DOMAIN t : i < j => Antes(t[i], t[j])
  BY <1>9
<1>11. DOMAIN linhas = T
  OBVIOUS
<1>12. Recomendados(linhas, alvo)
         = CHOOSE t \in SetToSeqs(S) : \A i, j \in DOMAIN t : i < j => Antes(t[i], t[j])
  BY <1>11 DEF Recomendados, EmOrdem
<1> HIDE DEF S
<1> DEFINE Ordenada(t) == \A i, j \in DOMAIN t : i < j => Antes(t[i], t[j])
<1>13. \E t \in SetToSeqs(S) : Ordenada(t)
  BY <1>10
<1>14. Recomendados(linhas, alvo) = CHOOSE t \in SetToSeqs(S) : Ordenada(t)
  BY <1>12
<1> HIDE DEF Ordenada
<1>15. Recomendados(linhas, alvo) \in SetToSeqs(S) /\ Ordenada(Recomendados(linhas, alvo))
  BY <1>13, <1>14, Zenon
<1> QED BY <1>15 DEF Ordenada, S

-----------------------------------------------------------------------------
(* The invariant of a reader of events: for each kind of request, what is  *)
(* known at each of its accesses, when nothing has been written meanwhile  *)
(* (~h.tocado), when nothing it lists was lost or moved (~h.mexeu), or in  *)
(* any case.                                                               *)

AteNaLista(f, e) == {x \in Casam(f) : x = e \/ AntesNaLista(f, x, e)}

\* The event was seen visible, or is gone, unless it is still not to be shown.
VerOK(a, h) ==
  a.op = "ver" =>
    /\ a.pc \in {"papel", "fim"} /\ a.alvo \in Ids \cap usados
    /\ a.pc = "papel" =>
         /\ a.lida \in Linhas
         /\ a.lida.status = "publicado" \/ (a.logado /\ a.lida.dono = Eu) => h.visivel
         /\ a.logado /\ papel \in REVIEW_ROLES => h.visivel \/ a.alvo \notin Vivos
    /\ a.pc = "fim" /\ a.mostrado => h.visivel \/ a.alvo \notin Vivos

\* An event that was there at the beginning is read, or beyond the pages read.
PaginasOK(a, h) ==
  ~h.mexeu =>
    /\ h.inicio \subseteq Validos(a.filtro)
    /\ \A e \in h.inicio \ a.lidos :
         a.pc # "fim" /\ (a.pagina - 1) * PageSize < Cardinality(AteNaLista(a.filtro, e))

SomaOK(a, h) ==
  ~h.tocado =>
    /\ ~h.mexeu /\ h.inicio = Validos(a.filtro) /\ a.lidos \subseteq Validos(a.filtro)
    /\ a.pc \in {"pagina", "fim"} => a.total = Counted(a.filtro)

ListaOK(a, h) ==
  a.op = "lista" => a.pc \in {"contar", "pagina", "fim"} /\ PaginasOK(a, h) /\ SomaOK(a, h)

MetricasOK(a, h) ==
  a.op = "metricas" =>
    /\ a.pc \in {"periodo", "status", "limites", "fim"}
    /\ a.pc = "fim" /\ a.erro => a.limites \cap SemData # {}
    /\ ~h.tocado =>
         /\ a.porDia = PorDiaSemana(a.filtro)
         /\ a.pc \in {"status", "limites", "fim"} => a.porPeriodo = Counted(a.filtro)
         /\ a.pc \in {"limites", "fim"} => a.total = Counted(a.filtro)

\* The recommendations of a are the best of the events there are, unless one of
\* those does not validate.
Melhores(a) ==
  LET pode == Proximos \ {a.alvo}
      dados == ToSet(a.resposta)
      Tag(e) == eventos[e].tags \cap eventos[a.alvo].tags # {}
      Week(e) == SameWeek(eventos[e].data, eventos[a.alvo].data)
  IN  IF a.erro
        THEN \E e \in pode : ~eventos[e].formato
        ELSE /\ dados \subseteq pode
             /\ Cardinality(dados) = Menor(Limite, Cardinality(pode))
             /\ \A x \in dados, y \in pode \ dados :
                  /\ Tag(y) => Tag(x)
                  /\ (Tag(x) <=> Tag(y)) /\ Week(y) => Week(x)
                  /\ (Tag(x) <=> Tag(y)) /\ (Week(x) <=> Week(y)) =>
                       eventos[x].data <= eventos[y].data

RecomendaOK(a, h) ==
  a.op = "recomenda" =>
    /\ a.pc \in {"publicados", "tags", "fim"} /\ a.alvo \in Ids
    /\ a.pc = "publicados" => DOMAIN a.linhas = {a.alvo}
    /\ a.pc = "tags" => \A e \in DOMAIN a.linhas \ {a.alvo} : a.linhas[e].data \in Nat
    /\ ~h.tocado =>
         /\ a.alvo \in Vivos
         /\ a.pc = "publicados" => a.linhas[a.alvo] = eventos[a.alvo]
         /\ a.pc = "tags" =>
              /\ DOMAIN a.linhas = Proximos \cup {a.alvo}
              /\ \A e \in DOMAIN a.linhas : a.linhas[e] = eventos[e]
         /\ a.pc = "fim" => Melhores(a)

\* What each read of the summary has brought.
Submetidos == {e \in Vivos : eventos[e].status = "em_analise"}
DestaSemana(S) == {e \in S : SameWeek(eventos[e].dia, Hoje)}

ContagensOK(a) ==
  a.total = Cardinality(Vivos) /\ a.porDia = Cardinality(DestaSemana(Vivos))

ProximosOK(a) ==
  /\ ToSet(a.resposta) \subseteq Proximos
  /\ \A x \in ToSet(a.resposta), y \in Proximos \ ToSet(a.resposta) :
       eventos[x].data <= eventos[y].data

PendentesOK(a) ==
  /\ ToSet(a.pendentes) \subseteq Submetidos
  /\ \A y \in Submetidos \ ToSet(a.pendentes) :
       Len(a.pendentes) = Limite /\ \A x \in ToSet(a.pendentes) : x > y

\* One of the events S does not validate.
Falha(S) == \E e \in S : ~eventos[e].formato

\* The summary fails for an event that it lists, and lists only what it has read.
FalhaOK(a) ==
  /\ "proximos" \in a.faltam => a.resposta = <<>>
  /\ "pendentes" \in a.faltam => a.pendentes = <<>>
  /\ a.erro <=> Falha(ToSet(a.resposta)) \/ Falha(ToSet(a.pendentes))

PainelOK(a, h) ==
  a.op = "painel" =>
    /\ a.pc \in {"leituras", "fim"} /\ (a.pc = "fim" => a.faltam = {})
    /\ ~h.tocado =>
         /\ FalhaOK(a)
         /\ "contagens" \notin a.faltam => ContagensOK(a)
         /\ "proximos" \notin a.faltam => ProximosOK(a)
         /\ "pendentes" \notin a.faltam /\ papel \in REVIEW_ROLES => PendentesOK(a)
         /\ papel \notin REVIEW_ROLES => "pendentes" \notin a.faltam /\ a.pendentes = <<>>

LeituraOK(a, h) ==
  VerOK(a, h) /\ ListaOK(a, h) /\ MetricasOK(a, h) /\ RecomendaOK(a, h) /\ PainelOK(a, h)

Historia == [inicio : SUBSET Ids, mexeu : BOOLEAN, tocado : BOOLEAN, visivel : BOOLEAN]

ReadInv == TypeOK /\ (leitor # Nenhum => LeituraOK(leitor, hist))

LEMMA ReadInit == Init => ReadInv
  BY LinhasAssumption DEF Init, ReadInv, TypeOK, Vivos, Inicio

\* A step that leaves the table and the role alone is about the request only.
LEMMA SameTable ==
  ASSUME ReadInv, UNCHANGED <<eventos, usados, papel>>,
         NEW b \in Leitura, leitor' = b, NEW h \in Historia, hist' = h, LeituraOK(b, h)
  PROVE  ReadInv'
<1>1. /\ \A f : Casam(f)' = Casam(f) /\ Validos(f)' = Validos(f)
      /\ \A f : Counted(f)' = Counted(f)
      /\ \A f : PorDiaSemana(f)' = PorDiaSemana(f)
      /\ \A f, x, y : AntesNaLista(f, x, y)' = AntesNaLista(f, x, y)
  BY DEF Casam, Validos, Casa, Counted, PorDiaSemana, Reconhecidos, AntesNaLista
<1>2. \A f, e : AteNaLista(f, e)' = AteNaLista(f, e)
  BY <1>1 DEF AteNaLista
<1>3. /\ Vivos' = Vivos /\ Proximos' = Proximos /\ Submetidos' = Submetidos
      /\ DestaSemana(Vivos)' = DestaSemana(Vivos)
  BY DEF Vivos, Proximos, Publicados, Submetidos, DestaSemana
<1>4. VerOK(b, h)' /\ ListaOK(b, h)' /\ MetricasOK(b, h)'
  BY <1>1, <1>2, <1>3 DEF LeituraOK, VerOK, ListaOK, PaginasOK, SomaOK, MetricasOK
<1>5. Melhores(b)' = Melhores(b)
  BY <1>3 DEF Melhores
<1>6. RecomendaOK(b, h)'
  BY <1>3, <1>5 DEF LeituraOK, RecomendaOK
<1>7. ContagensOK(b)' = ContagensOK(b) /\ ProximosOK(b)' = ProximosOK(b)
      /\ PendentesOK(b)' = PendentesOK(b) /\ FalhaOK(b)' = FalhaOK(b)
  BY <1>3 DEF ContagensOK, ProximosOK, PendentesOK, FalhaOK, Falha
<1>8. PainelOK(b, h)'
  BY <1>7 DEF LeituraOK, PainelOK
<1>9. LeituraOK(b, h)'
  BY <1>4, <1>6, <1>8 DEF LeituraOK
<1>10. TypeOK'
  BY <1>3 DEF ReadInv, TypeOK, Historia
<1>11. LeituraOK(leitor, hist)'
  BY <1>9
<1> QED BY <1>10, <1>11 DEF ReadInv

\* A write: the requests in flight keep what they have read, and no row comes
\* back under an identifier that was used.
LEMMA GravaStep ==
  ASSUME ReadInv, NEW novos \in [Ids -> Linhas \cup {Nenhum}], NEW r \in Papeis, Grava(novos, r),
         usados' \subseteq Ids, usados \subseteq usados', Vivos' \subseteq usados',
         \A e \in usados : eventos[e] = Nenhum => novos[e] = Nenhum
  PROVE  ReadInv'
<1>1. eventos' = novos /\ papel' = r
  BY DEF Grava
<1>2. CASE Livre
  BY <1>1, <1>2 DEF Grava, Inicio, ReadInv, TypeOK
<1>3. CASE ~Livre
  <2>1. PICK a \in Leitura : a = leitor /\ leitor' = a /\ a.pc # "fim" /\ LeituraOK(a, hist)
    BY <1>3 DEF ReadInv, TypeOK, Livre, Grava
  <2>2. PICK h : h = hist'
    OBVIOUS
  <2> DEFINE mexeu == hist.mexeu \/ Perturba(a.filtro, novos)
             visivel == \/ hist.visivel
                        \/ /\ a.op = "ver" /\ novos[a.alvo] # Nenhum
                           /\ Visivel(novos[a.alvo], a.logado, r)
  <2>3. h = [hist EXCEPT !.tocado = TRUE, !.mexeu = mexeu, !.visivel = visivel]
    BY <1>3, <2>1, <2>2 DEF Grava
  <2>4. hist \in Historia
    BY DEF ReadInv, TypeOK, Historia
  <2>5. mexeu \in BOOLEAN /\ visivel \in BOOLEAN
    BY <2>4 DEF Historia, Perturba, Visivel
  <2>6. h \in Historia /\ h.inicio = hist.inicio /\ h.tocado
    BY <2>3, <2>4, <2>5 DEF Historia
  <2>7. (h.mexeu <=> mexeu) /\ (h.visivel <=> visivel)
    BY <2>3, <2>4, <2>5 DEF Historia
  <2>8. TypeOK'
    BY <1>1, <2>1, <2>2, <2>6 DEF ReadInv, TypeOK, Historia
  <2>9. VerOK(a, h)'
    <3> SUFFICES ASSUME a.op = "ver" PROVE VerOK(a, h)'
      BY DEF VerOK
    <3>1. /\ a.pc = "papel" /\ a.alvo \in Ids \cap usados /\ a.lida \in Linhas
          /\ a.lida.status = "publicado" \/ (a.logado /\ a.lida.dono = Eu) => hist.visivel
          /\ a.logado /\ papel \in REVIEW_ROLES => hist.visivel \/ a.alvo \notin Vivos
      BY <2>1 DEF LeituraOK, VerOK
    <3>2. a.logado /\ r \in REVIEW_ROLES => h.visivel \/ novos[a.alvo] = Nenhum
      BY <2>7, <3>1 DEF Visivel
    <3>3. hist.visivel => h.visivel
      BY <2>7
    <3>4. a.logado /\ papel' \in REVIEW_ROLES => h.visivel \/ a.alvo \notin Vivos'
      BY <1>1, <3>2 DEF Vivos
    <3> QED BY <3>1, <3>3, <3>4 DEF VerOK
  <2>10. ListaOK(a, h)'
    <3> SUFFICES ASSUME a.op = "lista" PROVE ListaOK(a, h)'
      BY DEF ListaOK
    <3>1. a.pc \in {"contar", "pagina"} /\ PaginasOK(a, hist)
      BY <2>1 DEF LeituraOK, ListaOK
    <3>2. SomaOK(a, h)'
      BY <2>6 DEF SomaOK
    <3>3. PaginasOK(a, h)'
      <4> SUFFICES ASSUME ~h.mexeu PROVE PaginasOK(a, h)'
        BY DEF PaginasOK
      <4> DEFINE f == a.filtro
      <4>1. ~hist.mexeu /\ ~Perturba(f, novos)
        BY <2>7
      <4>2. \A e \in Casam(f) : /\ e \in Casam(f)' /\ Fila(novos[e], f) = Fila(eventos[e], f)
                                /\ eventos[e].formato => novos[e].formato
        BY <1>1, <4>1 DEF Perturba, Casam
      <4>3. ASSUME NEW e \in h.inicio \ a.lidos
            PROVE  (a.pagina - 1) * PageSize < Cardinality(AteNaLista(f, e)')
        <5>1. e \in Casam(f) /\ (a.pagina - 1) * PageSize < Cardinality(AteNaLista(f, e))
          BY <2>6, <3>1, <4>1 DEF PaginasOK, Validos
        <5>2. AteNaLista(f, e) \subseteq AteNaLista(f, e)'
          BY <1>1, <4>2, <5>1 DEF AteNaLista, AntesNaLista
        <5>3. AteNaLista(f, e) \subseteq Ids /\ AteNaLista(f, e)' \subseteq Ids
          BY DEF AteNaLista, Casam
        <5>4. /\ Cardinality(AteNaLista(f, e)) <= Cardinality(AteNaLista(f, e)')
              /\ Cardinality(AteNaLista(f, e)) \in Nat /\ Cardinality(AteNaLista(f, e)') \in Nat
          BY <5>2, <5>3, EventsFinite, FS_Subset, FS_CardinalityType
        <5>5. (a.pagina - 1) * PageSize \in Nat
          <6>1. a.pagina \in Nat \ {0}
            BY EventsFinite DEF Leitura
          <6> QED BY <6>1, Bounds
        <5> QED BY <5>1, <5>4, <5>5
      <4>4. h.inicio \subseteq Validos(f)'
        BY <1>1, <2>6, <3>1, <4>1, <4>2 DEF PaginasOK, Validos
      <4> QED BY <3>1, <4>3, <4>4 DEF PaginasOK
    <3> QED BY <3>1, <3>2, <3>3 DEF ListaOK
  <2>11. MetricasOK(a, h)' /\ RecomendaOK(a, h)' /\ PainelOK(a, h)'
    BY <2>1, <2>6 DEF LeituraOK, MetricasOK, RecomendaOK, PainelOK
  <2>12. LeituraOK(a, h)'
    BY <2>9, <2>10, <2>11 DEF LeituraOK
  <2>13. LeituraOK(leitor, hist)'
    BY <2>1, <2>2, <2>12
  <2> QED BY <2>8, <2>13 DEF ReadInv
<1> QED BY <1>2, <1>3

LEMMA WriteStep == ReadInv /\ Write => ReadInv'
<1> SUFFICES ASSUME ReadInv, Write PROVE ReadInv'
  OBVIOUS
<1>1. /\ eventos \in [Ids -> Linhas \cup {Nenhum}] /\ papel \in Papeis
      /\ usados \subseteq Ids /\ Vivos \subseteq usados
  BY DEF ReadInv, TypeOK
<1>2. ASSUME NEW e \in Ids, NEW linha \in Linhas, CreateEvent(e, linha) PROVE ReadInv'
  <2> DEFINE novos == [eventos EXCEPT ![e] = linha]
  <2>1. e \notin usados /\ usados' = usados \cup {e} /\ Grava(novos, papel) /\ eventos' = novos
    BY <1>2 DEF CreateEvent, Grava
  <2>2. Vivos' \subseteq usados'
    BY <1>1, <2>1 DEF Vivos
  <2>3. /\ novos \in [Ids -> Linhas \cup {Nenhum}]
        /\ \A x \in usados : eventos[x] = Nenhum => novos[x] = Nenhum
    BY <1>1, <2>1, <2>2
  <2> HIDE DEF novos
  <2> QED BY <1>1, <2>1, <2>2, <2>3, GravaStep
<1>3. ASSUME NEW e \in Ids, NEW linha \in Linhas, UpdateEvent(e, linha) PROVE ReadInv'
  <2> DEFINE novos == [eventos EXCEPT ![e] = linha]
  <2>1. e \in Vivos /\ usados' = usados /\ Grava(novos, papel) /\ eventos' = novos
    BY <1>3 DEF UpdateEvent, Grava
  <2>2. Vivos' \subseteq usados' /\ eventos[e] # Nenhum
    BY <1>1, <2>1 DEF Vivos
  <2>3. /\ novos \in [Ids -> Linhas \cup {Nenhum}]
        /\ \A x \in usados : eventos[x] = Nenhum => novos[x] = Nenhum
    BY <1>1, <2>1, <2>2
  <2> HIDE DEF novos
  <2> QED BY <1>1, <2>1, <2>2, <2>3, GravaStep
<1>4. ASSUME NEW e \in Ids, DeleteEvent(e) PROVE ReadInv'
  <2> DEFINE novos == [eventos EXCEPT ![e] = Nenhum]
  <2>1. usados' = usados /\ Grava(novos, papel) /\ eventos' = novos
    BY <1>4 DEF DeleteEvent, Grava
  <2>2. Vivos' \subseteq usados'
    BY <1>1, <2>1 DEF Vivos
  <2>3. /\ novos \in [Ids -> Linhas \cup {Nenhum}]
        /\ \A x \in usados : eventos[x] = Nenhum => novos[x] = Nenhum
    BY <1>1, <2>1, <2>2
  <2> HIDE DEF novos
  <2> QED BY <1>1, <2>1, <2>2, <2>3, GravaStep
<1>5. ASSUME NEW r \in Papeis, ChangeRole(r) PROVE ReadInv'
  <2>1. usados' = usados /\ Grava(eventos, r) /\ eventos' = eventos
    BY <1>5 DEF ChangeRole, Grava
  <2>2. Vivos' \subseteq usados'
    BY <1>1, <2>1 DEF Vivos
  <2> QED BY <1>1, <2>1, <2>2, GravaStep
<1> QED BY <1>2, <1>3, <1>4, <1>5 DEF Write

-----------------------------------------------------------------------------
(* The accesses of each kind of request.                                   *)

\* Of a request only what its own kind says matters.
LEMMA OnlyOwnKind ==
  ASSUME NEW b, NEW h
  PROVE  /\ b.op = "ver" /\ VerOK(b, h) => LeituraOK(b, h)
         /\ b.op = "lista" /\ ListaOK(b, h) => LeituraOK(b, h)
         /\ b.op = "metricas" /\ MetricasOK(b, h) => LeituraOK(b, h)
         /\ b.op = "recomenda" /\ RecomendaOK(b, h) => LeituraOK(b, h)
         /\ b.op = "painel" /\ PainelOK(b, h) => LeituraOK(b, h)
  BY DEF LeituraOK, VerOK, ListaOK, MetricasOK, RecomendaOK, PainelOK

\* A request begins with nothing read.
LEMMA NovaTyped ==
  ASSUME NEW op \in {"lista", "ver", "recomenda", "metricas", "painel"},
         NEW pc \in {"contar", "pagina", "papel", "publicados", "tags", "periodo", "status",
                     "limites", "leituras", "fim"}
  PROVE  Nova(op, pc) \in Leitura
<1>1. Cardinality(Ids) \in Nat
  BY EventsFinite
<1>2. 1 \in 1..(Cardinality(Ids) + 1) /\ 0 \in 0..Cardinality(Ids)
  BY <1>1
<1>3. [e \in {} |-> Nenhum] \in UNION {[S -> Linhas] : S \in SUBSET Ids}
  <2>1. [e \in {} |-> Nenhum] \in [{} -> Linhas]
    OBVIOUS
  <2> QED BY <2>1
<1>4. <<>> \in Seq(Ids)
  OBVIOUS
<1> QED BY <1>2, <1>3, <1>4 DEF Nova, Leitura

LEMMA InicioTyped ==
  ASSUME NEW S \in SUBSET Ids, NEW v \in BOOLEAN
  PROVE  /\ Inicio(S, v) \in Historia /\ Inicio(S, v).inicio = S
         /\ ~Inicio(S, v).mexeu /\ ~Inicio(S, v).tocado /\ Inicio(S, v).visivel = v
  BY DEF Inicio, Historia

LEMMA CountedTyped ==
  ASSUME NEW f
  PROVE  /\ Casam(f) \subseteq Ids /\ IsFiniteSet(Casam(f))
         /\ Counted(f) \in 0..Cardinality(Ids)
         /\ PorDiaSemana(f) \in 0..Cardinality(Ids) /\ PorDiaSemana(f) <= Counted(f)
<1>1. Casam(f) \subseteq Ids /\ Reconhecidos(f) \subseteq Casam(f)
  BY DEF Casam, Reconhecidos
<1>2. Reconhecidos(f) \subseteq Ids
  BY <1>1
<1>3. IsFiniteSet(Casam(f)) /\ Cardinality(Reconhecidos(f)) <= Cardinality(Casam(f))
  BY <1>1, EventsFinite, FS_Subset
<1> QED BY <1>1, <1>2, <1>3, EventsFinite DEF Counted, PorDiaSemana

\* The page that e is on, in the order of the query.
LEMMA PlaceInList ==
  ASSUME NEW f, NEW e \in Casam(f)
  PROVE  /\ Cardinality(AteNaLista(f, e)) \in 1..Cardinality(Casam(f))
         /\ Listados(f)[Cardinality(AteNaLista(f, e))] = e
<1> DEFINE S == Casam(f)
           s == Listados(f)
           Antes(a, b) == AntesNaLista(f, a, b)
<1>1. S \subseteq Nat /\ IsFiniteSet(S)
  BY CountedTyped, EventsFinite
<1>2. s \in SetToSeqs(S) /\ \A i, j \in DOMAIN s : i < j => Antes(s[i], s[j])
  BY ListadosOrdered
<1> HIDE DEF s
<1>3. /\ DOMAIN s = 1..Cardinality(S) /\ Cardinality(S) \in Nat
      /\ \A i \in 1..Cardinality(S) : s[i] \in S
      /\ \A i, j \in 1..Cardinality(S) : s[i] = s[j] => i = j
      /\ \A x \in S : \E i \in 1..Cardinality(S) : s[i] = x
  BY <1>1, <1>2, Enumeration
<1>4. PICK i \in 1..Cardinality(S) : s[i] = e
  BY <1>3
<1>5. \A a, b \in S : Antes(a, b) => a # b /\ ~Antes(b, a)
  <2>1. \A a : Fila(eventos[a], f) \in Nat
    BY DEF Fila
  <2> QED BY <1>1, <2>1 DEF AntesNaLista
<1> HIDE DEF Antes
<1>6. ASSUME NEW j \in 1..Cardinality(S)
      PROVE  j <= i <=> s[j] = e \/ Antes(s[j], e)
  <2>1. CASE j < i
    BY <1>2, <1>3, <1>4, <2>1
  <2>2. CASE j = i
    BY <1>3, <1>4, <2>2
  <2>3. CASE j > i
    BY <1>2, <1>3, <1>4, <1>5, <2>3
  <2> QED BY <1>3, <2>1, <2>2, <2>3
<1>7. AteNaLista(f, e) = {s[j] : j \in 1..i}
  <2>1. AteNaLista(f, e) \subseteq {s[j] : j \in 1..i}
    <3> SUFFICES ASSUME NEW x \in AteNaLista(f, e) PROVE \E j \in 1..i : x = s[j]
      OBVIOUS
    <3>1. PICK j \in 1..Cardinality(S) : s[j] = x
      BY <1>3 DEF AteNaLista
    <3>2. j <= i
      BY <1>6, <3>1 DEF AteNaLista, Antes
    <3> QED BY <1>3, <3>1, <3>2
  <2>2. ASSUME NEW j \in 1..i PROVE s[j] \in AteNaLista(f, e)
    <3>1. j \in 1..Cardinality(S) /\ j <= i
      BY <1>3
    <3> QED BY <1>3, <1>6, <3>1 DEF AteNaLista, Antes
  <2> QED BY <2>1, <2>2
<1>8. i \in 0..Cardinality(S)
  BY <1>3
<1>9. Cardinality({s[j] : j \in 1..i}) = i
  BY <1>1, <1>2, <1>8, Prefix
<1> QED BY <1>3, <1>4, <1>7, <1>9 DEF s

LEMMA ListEventsStep ==
  ASSUME ReadInv, NEW f \in Filtros, ListEvents(f)
  PROVE  ReadInv'
<1>1. PICK b : b = leitor'
  OBVIOUS
<1>2. PICK h : h = hist'
  OBVIOUS
<1>3. h \in Historia /\ h.inicio = Validos(f) /\ ~h.mexeu /\ ~h.tocado
  BY <1>2, CountedTyped, InicioTyped DEF ListEvents, Validos
<1>4. b = [Nova("lista", "pagina") EXCEPT !.filtro = f, !.total = Counted(f)]
  BY <1>1 DEF ListEvents
<1>5. /\ b.op = "lista" /\ b.pc = "pagina" /\ b.filtro = f /\ b.pagina = 1
      /\ b.total = Counted(f) /\ b.lidos = {}
  BY <1>4 DEF Nova
<1>6. b \in Leitura
  <2>1. PICK n \in Leitura : n = Nova("lista", "pagina")
    BY NovaTyped
  <2>2. b = [n EXCEPT !.filtro = f, !.total = Counted(f)]
    BY <1>4, <2>1
  <2> QED BY <2>2, CountedTyped DEF Leitura
<1>7. PaginasOK(b, h)
  <2> SUFFICES ASSUME NEW e \in Casam(f)
               PROVE  (1 - 1) * PageSize < Cardinality(AteNaLista(f, e))
    BY <1>3, <1>5 DEF PaginasOK, Validos
  <2>1. Cardinality(AteNaLista(f, e)) >= 1 /\ Cardinality(AteNaLista(f, e)) \in Nat
    BY PlaceInList
  <2>2. (1 - 1) * PageSize = 0
    BY PageAssumption
  <2> QED BY <2>1, <2>2
<1>8. ListaOK(b, h)
  BY <1>3, <1>5, <1>7 DEF ListaOK, SomaOK
<1>9. LeituraOK(b, h)
  BY <1>5, <1>8, OnlyOwnKind
<1> QED BY <1>1, <1>2, <1>3, <1>6, <1>9, SameTable DEF ListEvents

LEMMA ListCountStep ==
  ASSUME ReadInv, ListCount
  PROVE  ReadInv'
<1>1. PICK a \in Leitura : a = leitor /\ a.op = "lista" /\ a.pc = "contar" /\ LeituraOK(a, hist)
  BY DEF ReadInv, TypeOK, ListCount, At
<1>2. PICK b : b = leitor'
  OBVIOUS
<1>3. b = [a EXCEPT !.pc = "pagina", !.total = Counted(a.filtro)]
  BY <1>1, <1>2 DEF ListCount
<1>4. /\ b.op = "lista" /\ b.pc = "pagina" /\ b.filtro = a.filtro /\ b.pagina = a.pagina
      /\ b.total = Counted(a.filtro) /\ b.lidos = a.lidos
  BY <1>1, <1>3 DEF Leitura
<1>5. b \in Leitura
  BY <1>3, CountedTyped DEF Leitura
<1>6. ListaOK(b, hist)
  BY <1>1, <1>4 DEF LeituraOK, ListaOK, PaginasOK, SomaOK
<1>7. LeituraOK(b, hist)
  BY <1>4, <1>6, OnlyOwnKind
<1>8. hist \in Historia /\ hist' = hist
  BY DEF ReadInv, TypeOK, Historia, ListCount
<1> QED BY <1>2, <1>5, <1>7, <1>8, SameTable DEF ListCount

LEMMA ListPageStep ==
  ASSUME ReadInv, ListPage
  PROVE  ReadInv'
<1>1. PICK a \in Leitura : a = leitor /\ a.op = "lista" /\ a.pc = "pagina" /\ LeituraOK(a, hist)
  BY DEF ReadInv, TypeOK, ListPage, At
<1>2. PICK b : b = leitor'
  OBVIOUS
<1> DEFINE f == a.filtro
           itens == Page(Listados(f), a.pagina)
           ultima == Len(itens) < PageSize
<1>3. b = [a EXCEPT !.lidos = @ \cup SerializeEvents(itens),
                    !.pc = IF ultima THEN "fim" ELSE "contar",
                    !.pagina = IF ultima THEN @ ELSE @ + 1]
  BY <1>1, <1>2 DEF ListPage
<1>4. a.pagina \in Nat \ {0} /\ a.pagina \in 1..(Cardinality(Ids) + 1) /\ Cardinality(Ids) \in Nat
  BY EventsFinite DEF Leitura
<1>5. /\ ToSet(itens) \subseteq Casam(f)
      /\ \A i \in 1..Cardinality(Casam(f)) :
           (a.pagina - 1) * PageSize < i /\ i <= a.pagina * PageSize
           => Listados(f)[i] \in ToSet(itens)
      /\ Len(itens) < PageSize => Cardinality(Casam(f)) < a.pagina * PageSize
      /\ Len(itens) \in Nat /\ Len(itens) <= PageSize
      /\ Len(itens) = PageSize => a.pagina * PageSize <= Cardinality(Casam(f))
  BY <1>4, PageHolds, CountedTyped, ListadosOrdered
<1> HIDE DEF itens
<1>6. /\ b.op = "lista" /\ b.filtro = f /\ b.total = a.total
      /\ b.lidos = a.lidos \cup SerializeEvents(itens)
      /\ b.pc = IF ultima THEN "fim" ELSE "contar"
      /\ b.pagina = IF ultima THEN a.pagina ELSE a.pagina + 1
  BY <1>1, <1>3 DEF Leitura
<1>7. PageSize \in Nat /\ PageSize > 0 /\ a.pagina * PageSize \in Nat /\ a.pagina <= a.pagina * PageSize
  <2>1. PageSize \in Nat /\ PageSize > 0 /\ a.pagina * PageSize \in Nat
    BY <1>4, Bounds
  <2>2. \A m, n \in Nat : n > 0 => m <= m * n
    OBVIOUS
  <2> QED BY <1>4, <2>1, <2>2
<1>8. Cardinality(Casam(f)) \in Nat /\ Cardinality(Casam(f)) <= Cardinality(Ids)
  BY <1>4, CountedTyped DEF Counted
<1>9. b \in Leitura
  <2>1. b.pagina \in 1..(Cardinality(Ids) + 1)
    BY <1>4, <1>5, <1>6, <1>7, <1>8
  <2>2. b.lidos \subseteq Ids /\ b.pc \in {"fim", "contar"}
    BY <1>5, <1>6, CountedTyped DEF Leitura, SerializeEvents
  <2> QED BY <1>3, <1>6, <2>1, <2>2 DEF Leitura
<1>10. PaginasOK(b, hist)
  <2> SUFFICES ASSUME ~hist.mexeu, NEW e \in hist.inicio, e \notin a.lidos,
                      e \notin SerializeEvents(itens)
               PROVE  ~ultima /\ a.pagina * PageSize < Cardinality(AteNaLista(f, e))
    BY <1>1, <1>4, <1>6 DEF PaginasOK, LeituraOK, ListaOK
  <2> DEFINE k == Cardinality(AteNaLista(f, e))
  <2>1. e \in Validos(f) /\ e \in Casam(f) /\ (a.pagina - 1) * PageSize < k
    BY <1>1 DEF LeituraOK, ListaOK, PaginasOK, Validos
  <2>2. k \in 1..Cardinality(Casam(f)) /\ Listados(f)[k] = e
    BY <2>1, PlaceInList
  <2> HIDE DEF k
  <2>3. e \notin ToSet(itens)
    BY <2>1 DEF Validos, SerializeEvents
  <2>4. ~(k <= a.pagina * PageSize)
    BY <1>5, <2>1, <2>2, <2>3
  <2> QED BY <1>5, <1>7, <1>8, <2>2, <2>4 DEF k
<1>11. SomaOK(b, hist)
  BY <1>1, <1>5, <1>6 DEF LeituraOK, ListaOK, SomaOK, SerializeEvents, Validos
<1>12. LeituraOK(b, hist)
  BY <1>6, <1>10, <1>11, OnlyOwnKind DEF ListaOK
<1>13. hist \in Historia /\ hist' = hist
  BY DEF ReadInv, TypeOK, Historia, ListPage
<1> QED BY <1>2, <1>9, <1>12, <1>13, SameTable DEF ListPage

LEMMA GetBySlugOrIdStep ==
  ASSUME ReadInv, NEW e \in Ids, NEW logado \in BOOLEAN, GetBySlugOrId(e, logado)
  PROVE  ReadInv'
<1>1. PICK b : b = leitor'
  OBVIOUS
<1>2. PICK h : h = hist'
  OBVIOUS
<1>3. e \in Vivos /\ e \in usados /\ eventos[e] \in Linhas
  BY DEF GetBySlugOrId, ReadInv, TypeOK, Vivos
<1>4. Visivel(eventos[e], logado, papel) \in BOOLEAN
  BY DEF Visivel
<1>5. h \in Historia /\ h.visivel = Visivel(eventos[e], logado, papel)
  BY <1>2, <1>4, InicioTyped DEF GetBySlugOrId
<1>6. PICK n \in Leitura : n = Nova("ver", "papel")
  BY NovaTyped
<1>7. b = [n EXCEPT !.alvo = e, !.logado = logado, !.lida = eventos[e]]
  BY <1>1, <1>6 DEF GetBySlugOrId
<1>8. n.op = "ver" /\ n.pc = "papel"
  BY <1>6 DEF Nova
<1>9. b.op = "ver" /\ b.pc = "papel" /\ b.alvo = e /\ b.logado = logado /\ b.lida = eventos[e]
  BY <1>7, <1>8 DEF Leitura
<1>10. b \in Leitura
  BY <1>3, <1>7 DEF Leitura
<1>11. VerOK(b, h)
  BY <1>3, <1>5, <1>9 DEF VerOK, Visivel
<1>12. LeituraOK(b, h)
  BY <1>9, <1>11, OnlyOwnKind
<1> QED BY <1>1, <1>2, <1>5, <1>10, <1>12, SameTable DEF GetBySlugOrId

LEMMA GetRoleAndShowStep ==
  ASSUME ReadInv, GetRoleAndShow
  PROVE  ReadInv'
<1>1. PICK a \in Leitura : a = leitor /\ a.op = "ver" /\ a.pc = "papel" /\ LeituraOK(a, hist)
  BY DEF ReadInv, TypeOK, GetRoleAndShow, At
<1>2. PICK b : b = leitor'
  OBVIOUS
<1> DEFINE m == CanView(a.lida, a.logado, papel) /\ a.lida.formato
<1>3. b = [a EXCEPT !.pc = "fim", !.mostrado = m]
  BY <1>1, <1>2 DEF GetRoleAndShow
<1>4. m \in BOOLEAN
  OBVIOUS
<1> HIDE DEF m
<1>5. b.op = "ver" /\ b.pc = "fim" /\ b.alvo = a.alvo /\ b.mostrado = m
  BY <1>1, <1>3 DEF Leitura
<1>6. b \in Leitura
  BY <1>3, <1>4 DEF Leitura
<1>7. VerOK(b, hist)
  BY <1>1, <1>5 DEF LeituraOK, VerOK, CanView, m
<1>8. LeituraOK(b, hist)
  BY <1>5, <1>7, OnlyOwnKind
<1>9. hist \in Historia /\ hist' = hist
  BY DEF ReadInv, TypeOK, Historia, GetRoleAndShow
<1> QED BY <1>2, <1>6, <1>8, <1>9, SameTable DEF GetRoleAndShow

LEMMA GetMetricsStep ==
  ASSUME ReadInv, NEW f \in Filtros, GetMetrics(f)
  PROVE  ReadInv'
<1>1. PICK b : b = leitor'
  OBVIOUS
<1>2. PICK h : h = hist'
  OBVIOUS
<1>3. h \in Historia
  BY <1>2, InicioTyped DEF GetMetrics
<1>4. PICK n \in Leitura : n = Nova("metricas", "periodo")
  BY NovaTyped
<1>5. b = [n EXCEPT !.filtro = f, !.porDia = PorDiaSemana(f)]
  BY <1>1, <1>4 DEF GetMetrics
<1>6. n.op = "metricas" /\ n.pc = "periodo"
  BY <1>4 DEF Nova
<1>7. b.op = "metricas" /\ b.pc = "periodo" /\ b.filtro = f /\ b.porDia = PorDiaSemana(f)
  BY <1>5, <1>6 DEF Leitura
<1>8. b \in Leitura
  BY <1>5, CountedTyped DEF Leitura
<1>9. LeituraOK(b, h)
  BY <1>7, OnlyOwnKind DEF MetricasOK
<1> QED BY <1>1, <1>2, <1>3, <1>8, <1>9, SameTable DEF GetMetrics

LEMMA CountByPeriodoStep ==
  ASSUME ReadInv, CountByPeriodo
  PROVE  ReadInv'
<1>1. PICK a \in Leitura : a = leitor /\ a.op = "metricas" /\ a.pc = "periodo" /\ LeituraOK(a, hist)
  BY DEF ReadInv, TypeOK, CountByPeriodo, At
<1>2. PICK b : b = leitor'
  OBVIOUS
<1>3. b = [a EXCEPT !.pc = "status", !.porPeriodo = Counted(a.filtro)]
  BY <1>1, <1>2 DEF CountByPeriodo
<1>4. /\ b.op = "metricas" /\ b.pc = "status" /\ b.filtro = a.filtro /\ b.porDia = a.porDia
      /\ b.porPeriodo = Counted(a.filtro)
  BY <1>1, <1>3 DEF Leitura
<1>5. b \in Leitura
  BY <1>3, CountedTyped DEF Leitura
<1>6. LeituraOK(b, hist)
  BY <1>1, <1>4, OnlyOwnKind DEF LeituraOK, MetricasOK
<1>7. hist \in Historia /\ hist' = hist
  BY DEF ReadInv, TypeOK, Historia, CountByPeriodo
<1> QED BY <1>2, <1>5, <1>6, <1>7, SameTable DEF CountByPeriodo

LEMMA CountByStatusStep ==
  ASSUME ReadInv, CountByStatus
  PROVE  ReadInv'
<1>1. PICK a \in Leitura : a = leitor /\ a.op = "metricas" /\ a.pc = "status" /\ LeituraOK(a, hist)
  BY DEF ReadInv, TypeOK, CountByStatus, At
<1>2. PICK b : b = leitor'
  OBVIOUS
<1>3. b = [a EXCEPT !.pc = "limites", !.total = Counted(a.filtro)]
  BY <1>1, <1>2 DEF CountByStatus
<1>4. /\ b.op = "metricas" /\ b.pc = "limites" /\ b.filtro = a.filtro /\ b.porDia = a.porDia
      /\ b.porPeriodo = a.porPeriodo /\ b.total = Counted(a.filtro)
  BY <1>1, <1>3 DEF Leitura
<1>5. b \in Leitura
  BY <1>3, CountedTyped DEF Leitura
<1>6. LeituraOK(b, hist)
  BY <1>1, <1>4, OnlyOwnKind DEF LeituraOK, MetricasOK
<1>7. hist \in Historia /\ hist' = hist
  BY DEF ReadInv, TypeOK, Historia, CountByStatus
<1> QED BY <1>2, <1>5, <1>6, <1>7, SameTable DEF CountByStatus

LEMMA GetDateBoundsStep ==
  ASSUME ReadInv, GetDateBounds
  PROVE  ReadInv'
<1>1. PICK a \in Leitura : a = leitor /\ a.op = "metricas" /\ a.pc = "limites" /\ LeituraOK(a, hist)
  BY DEF ReadInv, TypeOK, GetDateBounds, At
<1>2. PICK b : b = leitor'
  OBVIOUS
<1> DEFINE L == DateBounds(a.filtro)
<1>3. b = [a EXCEPT !.pc = "fim", !.limites = L, !.erro = MediaFails(a.total, L)]
  BY <1>1, <1>2 DEF GetDateBounds
<1>4. L \subseteq Datas
  BY LinhasAssumption DEF DateBounds, Casam, Casa, ReadInv, TypeOK, Linha
<1>5. MediaFails(a.total, L) \in BOOLEAN
  BY DEF MediaFails
<1> HIDE DEF L
<1>6. /\ b.op = "metricas" /\ b.pc = "fim" /\ b.filtro = a.filtro /\ b.porDia = a.porDia
      /\ b.porPeriodo = a.porPeriodo /\ b.total = a.total
      /\ b.limites = L /\ b.erro = MediaFails(a.total, L)
  BY <1>1, <1>3 DEF Leitura
<1>7. b \in Leitura
  BY <1>3, <1>4, <1>5 DEF Leitura
<1>8. b.erro => b.limites \cap SemData # {}
  BY <1>6 DEF MediaFails
<1>9. LeituraOK(b, hist)
  BY <1>1, <1>6, <1>8, OnlyOwnKind DEF LeituraOK, MetricasOK
<1>10. hist \in Historia /\ hist' = hist
  BY DEF ReadInv, TypeOK, Historia, GetDateBounds
<1> QED BY <1>2, <1>7, <1>9, <1>10, SameTable DEF GetDateBounds

\* The first elements of a sequence: who is left out comes later, and then there
\* are Limite of them.
LEMMA PrimeirosHold ==
  ASSUME NEW S, IsFiniteSet(S), NEW s \in SetToSeqs(S)
  PROVE  /\ Primeiros(s) \in Seq(S)
         /\ ToSet(Primeiros(s)) \subseteq S
         /\ Cardinality(ToSet(Primeiros(s))) = Menor(Limite, Cardinality(S))
         /\ \A x \in ToSet(Primeiros(s)), y \in S \ ToSet(Primeiros(s)) :
              \E i, j \in DOMAIN s : i < j /\ s[i] = x /\ s[j] = y
         /\ \A y \in S \ ToSet(Primeiros(s)) : Len(Primeiros(s)) = Limite
<1> DEFINE n == Cardinality(S)
           k == Menor(Limite, Len(s))
           t == Primeiros(s)
<1>1. /\ n \in Nat /\ Len(s) = n /\ s \in [1..n -> S] /\ DOMAIN s = 1..n
      /\ \A x \in S : \E i \in 1..n : s[i] = x
  BY Enumeration
<1>2. k \in 0..n /\ k = Menor(Limite, n) /\ Limite \in Nat /\ (k = n \/ k = Limite)
  BY <1>1, PageAssumption DEF Menor
<1>3. t = SubSeq(s, 1, k)
  BY DEF Primeiros
<1> HIDE DEF k, t, n
<1>4. \A i \in 1..k : i \in 1..n /\ s[i] \in S
  BY <1>1, <1>2
<1>5. /\ t \in Seq(S) /\ Len(t) = IF 1 <= k THEN k - 1 + 1 ELSE 0
      /\ \A i \in 1..(k - 1 + 1) : t[i] = s[1 + i - 1]
  BY <1>2, <1>3, <1>4, SubSeqProperties
<1>6. Len(t) = k /\ DOMAIN t = 1..k /\ \A i \in 1..k : t[i] = s[i]
  <2>1. Len(t) = k
    BY <1>2, <1>5
  <2>2. ASSUME NEW i \in 1..k PROVE t[i] = s[i]
    BY <1>2, <1>5
  <2> QED BY <1>5, <2>1, <2>2
<1>7. ToSet(t) = {s[i] : i \in 1..k}
  BY <1>6 DEF ToSet
<1>8. Cardinality(ToSet(t)) = k
  BY <1>2, <1>7, Prefix DEF n
<1>9. ASSUME NEW y \in S \ ToSet(t)
      PROVE  \E j \in 1..n : s[j] = y /\ k < j /\ k = Limite
  <2>1. PICK j \in 1..n : s[j] = y
    BY <1>1
  <2>2. ~(j <= k)
    BY <1>2, <1>7, <2>1
  <2> QED BY <1>1, <1>2, <2>1, <2>2
<1>10. ASSUME NEW x \in ToSet(t), NEW y \in S \ ToSet(t)
       PROVE  \E i, j \in DOMAIN s : i < j /\ s[i] = x /\ s[j] = y
  <2>1. PICK i \in 1..k : s[i] = x
    BY <1>7
  <2>2. PICK j \in 1..n : s[j] = y /\ k < j
    BY <1>9
  <2>3. i \in DOMAIN s /\ j \in DOMAIN s /\ i < j
    BY <1>1, <1>2, <2>1, <2>2
  <2> QED BY <2>1, <2>2, <2>3
<1>11. ToSet(t) \subseteq S
  BY <1>4, <1>7
<1> QED BY <1>2, <1>5, <1>6, <1>8, <1>9, <1>10, <1>11 DEF t, n

LEMMA RowsTyped ==
  ASSUME NEW T \in SUBSET Ids, NEW d \in [T -> Linhas]
  PROVE  d \in UNION {[S -> Linhas] : S \in SUBSET Ids}
  OBVIOUS

LEMMA GetRecommendedStep ==
  ASSUME ReadInv, NEW e \in Ids, GetRecommended(e)
  PROVE  ReadInv'
<1>1. PICK b : b = leitor'
  OBVIOUS
<1>2. PICK h : h = hist'
  OBVIOUS
<1>3. e \in Vivos /\ eventos[e] \in Linhas
  BY DEF GetRecommended, ReadInv, TypeOK, Vivos
<1>4. h \in Historia
  BY <1>2, InicioTyped DEF GetRecommended
<1>5. PICK n \in Leitura : n = Nova("recomenda", "publicados")
  BY NovaTyped
<1> DEFINE d == [x \in {e} |-> eventos[e]]
<1>6. b = [n EXCEPT !.alvo = e, !.linhas = d]
  BY <1>1, <1>5 DEF GetRecommended
<1>7. n.op = "recomenda" /\ n.pc = "publicados"
  BY <1>5 DEF Nova
<1>8. DOMAIN d = {e} /\ d[e] = eventos[e] /\ d \in UNION {[S -> Linhas] : S \in SUBSET Ids}
  <2>1. d \in [{e} -> Linhas]
    BY <1>3
  <2> QED BY <2>1, RowsTyped
<1> HIDE DEF d
<1>9. b.op = "recomenda" /\ b.pc = "publicados" /\ b.alvo = e /\ b.linhas = d
  BY <1>6, <1>7 DEF Leitura
<1>10. b \in Leitura
  BY <1>6, <1>8 DEF Leitura
<1>11. RecomendaOK(b, h)
  BY <1>3, <1>8, <1>9 DEF RecomendaOK
<1>12. LeituraOK(b, h)
  BY <1>9, <1>11, OnlyOwnKind
<1> QED BY <1>1, <1>2, <1>4, <1>10, <1>12, SameTable DEF GetRecommended

LEMMA ListPublishedStep ==
  ASSUME ReadInv, ListPublished
  PROVE  ReadInv'
<1>1. PICK a \in Leitura :
        a = leitor /\ a.op = "recomenda" /\ a.pc = "publicados" /\ LeituraOK(a, hist)
  BY DEF ReadInv, TypeOK, ListPublished, At
<1>2. PICK b : b = leitor'
  OBVIOUS
<1> DEFINE P == Proximos \ {a.alvo}
           d == [e \in P \cup DOMAIN a.linhas |-> IF e \in P THEN eventos[e] ELSE a.linhas[e]]
<1>3. b = [a EXCEPT !.pc = "tags", !.linhas = d]
  BY <1>1, <1>2 DEF ListPublished
<1>4. a.alvo \in Ids /\ DOMAIN a.linhas = {a.alvo} /\ a.linhas \in [{a.alvo} -> Linhas]
  <2>1. a.alvo \in Ids /\ DOMAIN a.linhas = {a.alvo}
    BY <1>1 DEF LeituraOK, RecomendaOK
  <2>2. PICK T \in SUBSET Ids : a.linhas \in [T -> Linhas]
    BY DEF Leitura
  <2> QED BY <2>1, <2>2
<1>5. \A e \in P : e \in Ids /\ eventos[e] \in Linhas /\ eventos[e].data \in Nat
  BY ComingDated DEF ReadInv
<1>6. d \in UNION {[S -> Linhas] : S \in SUBSET Ids}
  <2>1. P \cup DOMAIN a.linhas \in SUBSET Ids
    BY <1>4, <1>5
  <2>2. d \in [P \cup DOMAIN a.linhas -> Linhas]
    BY <1>4, <1>5
  <2> HIDE DEF d
  <2> QED BY <2>1, <2>2, RowsTyped
<1>7. /\ DOMAIN d = Proximos \cup {a.alvo}
      /\ \A e \in DOMAIN d : d[e] = IF e \in P THEN eventos[e] ELSE a.linhas[e]
  BY <1>4
<1> HIDE DEF d
<1>8. b.op = "recomenda" /\ b.pc = "tags" /\ b.alvo = a.alvo /\ b.linhas = d
  BY <1>1, <1>3 DEF Leitura
<1>9. b \in Leitura
  BY <1>3, <1>6 DEF Leitura
<1>10. ~hist.tocado => a.alvo \in Vivos /\ \A e \in DOMAIN d : d[e] = eventos[e]
  BY <1>1, <1>7 DEF LeituraOK, RecomendaOK
<1>11. RecomendaOK(b, hist)
  BY <1>4, <1>5, <1>7, <1>8, <1>10 DEF RecomendaOK
<1>12. LeituraOK(b, hist)
  BY <1>8, <1>11, OnlyOwnKind
<1>13. hist \in Historia /\ hist' = hist
  BY DEF ReadInv, TypeOK, Historia, ListPublished
<1> QED BY <1>2, <1>9, <1>12, <1>13, SameTable DEF ListPublished

\* What comes before in the order of the key is better, or as good.
LEMMA KeyPrefers ==
  ASSUME NEW m1 \in BOOLEAN, NEW w1 \in BOOLEAN, NEW d1 \in Nat,
         NEW m2 \in BOOLEAN, NEW w2 \in BOOLEAN, NEW d2 \in Nat,
         KeyLess(SortKey(m1, w1, d1), SortKey(m2, w2, d2)) \/ SortKey(m1, w1, d1) = SortKey(m2, w2, d2)
  PROVE  /\ m2 => m1
         /\ (m1 <=> m2) /\ w2 => w1
         /\ (m1 <=> m2) /\ (w1 <=> w2) => d1 <= d2
  BY DEF KeyLess, SortKey

LEMMA GetTagsAndSortStep ==
  ASSUME ReadInv, GetTagsAndSort
  PROVE  ReadInv'
<1>1. PICK a \in Leitura : a = leitor /\ a.op = "recomenda" /\ a.pc = "tags" /\ LeituraOK(a, hist)
  BY DEF ReadInv, TypeOK, GetTagsAndSort, At
<1>2. PICK b : b = leitor'
  OBVIOUS
<1> DEFINE alvo == a.alvo
           s == Recomendados(a.linhas, alvo)
           t == Primeiros(s)
           falha == \E e \in ToSet(t) : ~a.linhas[e].formato
           u == IF falha THEN <<>> ELSE t
<1>3. b = [a EXCEPT !.pc = "fim", !.erro = falha, !.resposta = u]
  BY <1>1, <1>2 DEF GetTagsAndSort
<1>4. PICK T \in SUBSET Ids : a.linhas \in [T -> Linhas]
  BY DEF Leitura
<1> DEFINE S == T \ {alvo}
<1>5. /\ s \in SetToSeqs(S)
      /\ \A i, j \in DOMAIN s : i < j => AntesNaRecomendacao(a.linhas, alvo, s[i], s[j])
  <2>1. \A e \in S : a.linhas[e].data \in Nat
    BY <1>1, <1>4 DEF LeituraOK, RecomendaOK
  <2> QED BY <1>4, <2>1, RecomendadosOrdered
<1> HIDE DEF s
<1>6. IsFiniteSet(S) /\ S \subseteq Ids
  BY EventsFinite
<1>7. /\ t \in Seq(S) /\ ToSet(t) \subseteq S
      /\ Cardinality(ToSet(t)) = Menor(Limite, Cardinality(S))
      /\ \A x \in ToSet(t), y \in S \ ToSet(t) :
           \E i, j \in DOMAIN s : i < j /\ s[i] = x /\ s[j] = y
  BY <1>5, <1>6, PrimeirosHold
<1> HIDE DEF t
<1>8. u \in Seq(Ids) /\ falha \in BOOLEAN
  BY <1>6, <1>7
<1> HIDE DEF u, falha
<1>9. b.op = "recomenda" /\ b.pc = "fim" /\ b.alvo = alvo /\ b.resposta = u /\ b.erro = falha
  BY <1>1, <1>3 DEF Leitura
<1>10. b \in Leitura
  BY <1>3, <1>8 DEF Leitura
<1>11. ASSUME ~hist.tocado
       PROVE  alvo \in Vivos /\ Melhores(b)
  <2>1. /\ alvo \in Vivos /\ T = Proximos \cup {alvo}
        /\ \A e \in T : a.linhas[e] = eventos[e]
    BY <1>1, <1>4, <1>11 DEF LeituraOK, RecomendaOK
  <2>2. S = Proximos \ {alvo} /\ S \subseteq Vivos
    BY <2>1 DEF Proximos, Publicados
  <2> DEFINE Tag(e) == eventos[e].tags \cap eventos[alvo].tags # {}
             Week(e) == SameWeek(eventos[e].data, eventos[alvo].data)
             K(e) == SortKey(Tag(e), Week(e), eventos[e].data)
  <2>3. \A e \in S : Chave(a.linhas, alvo, e) = K(e)
    BY <2>1, <2>2 DEF Chave, TagsMap, Vivos
  <2>4. \A e : Tag(e) \in BOOLEAN /\ Week(e) \in BOOLEAN
    BY DEF SameWeek
  <2>5. \A e \in S : eventos[e].data \in Nat
    BY <2>2, ComingDated DEF ReadInv
  <2>6. ASSUME NEW x \in ToSet(t), NEW y \in S \ ToSet(t)
        PROVE  KeyLess(K(x), K(y)) \/ K(x) = K(y)
    <3>1. AntesNaRecomendacao(a.linhas, alvo, x, y)
      BY <1>5, <1>7
    <3> QED BY <1>7, <2>3, <3>1 DEF AntesNaRecomendacao
  <2>7. ASSUME NEW x \in ToSet(t), NEW y \in S \ ToSet(t)
        PROVE  /\ Tag(y) => Tag(x)
               /\ (Tag(x) <=> Tag(y)) /\ Week(y) => Week(x)
               /\ (Tag(x) <=> Tag(y)) /\ (Week(x) <=> Week(y)) => eventos[x].data <= eventos[y].data
    <3>1. KeyLess(K(x), K(y)) \/ K(x) = K(y)
      BY <2>6
    <3>2. /\ Tag(x) \in BOOLEAN /\ Week(x) \in BOOLEAN /\ eventos[x].data \in Nat
          /\ Tag(y) \in BOOLEAN /\ Week(y) \in BOOLEAN /\ eventos[y].data \in Nat
      BY <1>7, <2>4, <2>5
    <3> HIDE DEF Tag, Week
    <3> QED BY <3>1, <3>2, KeyPrefers
  <2>8. falha => \E e \in S : ~eventos[e].formato
    BY <1>7, <2>1 DEF falha
  <2>9. ~falha => u = t
    BY DEF u
  <2>10. CASE falha
    BY <1>9, <2>1, <2>2, <2>8, <2>10 DEF Melhores
  <2>11. CASE ~falha
    <3>1. ~b.erro /\ b.resposta = t /\ b.alvo = alvo
      BY <1>9, <2>9, <2>11
    <3>2. /\ ToSet(b.resposta) \subseteq Proximos \ {b.alvo}
          /\ Cardinality(ToSet(b.resposta)) = Menor(Limite, Cardinality(Proximos \ {b.alvo}))
      BY <1>7, <2>2, <3>1
    <3>3. ASSUME NEW x \in ToSet(b.resposta), NEW y \in (Proximos \ {b.alvo}) \ ToSet(b.resposta)
          PROVE  /\ Tag(y) => Tag(x)
                 /\ (Tag(x) <=> Tag(y)) /\ Week(y) => Week(x)
                 /\ (Tag(x) <=> Tag(y)) /\ (Week(x) <=> Week(y)) => eventos[x].data <= eventos[y].data
      BY <2>2, <2>7, <3>1
    <3>4. Melhores(b)
      BY <3>1, <3>2, <3>3 DEF Melhores
    <3> QED BY <2>1, <3>4
  <2> QED BY <2>1, <2>10, <2>11
<1>12. RecomendaOK(b, hist)
  BY <1>1, <1>9, <1>11 DEF LeituraOK, RecomendaOK
<1>13. LeituraOK(b, hist)
  BY <1>9, <1>12, OnlyOwnKind
<1>14. hist \in Historia /\ hist' = hist
  BY DEF ReadInv, TypeOK, Historia, GetTagsAndSort
<1> QED BY <1>2, <1>10, <1>13, <1>14, SameTable DEF GetTagsAndSort

LEMMA GetSummaryStep ==
  ASSUME ReadInv, GetSummary
  PROVE  ReadInv'
<1>1. PICK b : b = leitor'
  OBVIOUS
<1>2. PICK h : h = hist'
  OBVIOUS
<1>3. h \in Historia
  BY <1>2, InicioTyped DEF GetSummary
<1>4. PICK n \in Leitura : n = Nova("painel", "leituras")
  BY NovaTyped
<1> DEFINE F == {"contagens", "proximos"} \cup (IF papel \in REVIEW_ROLES THEN {"pendentes"} ELSE {})
<1>5. b = [n EXCEPT !.faltam = F]
  BY <1>1, <1>4 DEF GetSummary
<1>6. /\ n.op = "painel" /\ n.pc = "leituras"
      /\ n.pendentes = <<>> /\ n.resposta = <<>> /\ ~n.erro
  BY <1>4 DEF Nova
<1>7. /\ b.op = "painel" /\ b.pc = "leituras" /\ b.faltam = F
      /\ b.pendentes = <<>> /\ b.resposta = <<>> /\ ~b.erro
  BY <1>5, <1>6 DEF Leitura
<1>8. b \in Leitura
  BY <1>5 DEF Leitura
<1>9. PainelOK(b, h)
  <2>1. FalhaOK(b)
    BY <1>7 DEF FalhaOK, Falha, ToSet
  <2> QED BY <1>7, <2>1 DEF PainelOK
<1>10. LeituraOK(b, h)
  BY <1>7, <1>9, OnlyOwnKind
<1> QED BY <1>1, <1>2, <1>3, <1>8, <1>10, SameTable DEF GetSummary

\* The summary's request c after the read l of a, which brought the events of lista:
\* what it leaves to be read and whether it fails.
LidoOK(c, a, l, lista) ==
  /\ c = Lido(a, l, lista) /\ c.op = "painel" /\ c.faltam = a.faltam \ {l}
  /\ c.pc = (IF c.faltam = {} THEN "fim" ELSE "leituras")
  /\ c.total = a.total /\ c.porDia = a.porDia
  /\ c.resposta = a.resposta /\ c.pendentes = a.pendentes
  /\ c.erro <=> a.erro \/ Falha(ToSet(lista))

LEMMA LidoTyped ==
  ASSUME NEW a \in Leitura, a.op = "painel", a.pc = "leituras",
         NEW l \in {"contagens", "proximos", "pendentes"}, NEW lista
  PROVE  \E c \in Leitura : LidoOK(c, a, l, lista)
<1> DEFINE F == a.faltam \ {l}
           passo == IF F = {} THEN "fim" ELSE a.pc
           falha == a.erro \/ Falha(ToSet(lista))
<1>1. PICK c : c = Lido(a, l, lista)
  OBVIOUS
<1>2. c = [a EXCEPT !.faltam = F, !.pc = passo, !.erro = falha]
  BY <1>1 DEF Lido, Falha
<1>3. /\ F \in SUBSET {"contagens", "proximos", "pendentes"} /\ passo \in {a.pc, "fim"}
      /\ falha \in BOOLEAN
  BY DEF Leitura
<1> HIDE DEF F, passo, falha
<1>4. c \in Leitura
  <2>1. PICK b : b = [a EXCEPT !.faltam = F, !.erro = falha]
    OBVIOUS
  <2>2. b \in Leitura
    BY <1>3, <2>1 DEF Leitura
  <2>3. passo \in {b.pc, "fim"} /\ c = [b EXCEPT !.pc = passo]
    BY <1>2, <1>3, <2>1 DEF Leitura
  <2> QED BY <2>2, <2>3 DEF Leitura
<1>5. /\ c.op = a.op /\ c.faltam = F /\ c.pc = passo
      /\ c.total = a.total /\ c.porDia = a.porDia
  BY <1>2 DEF Leitura
<1>6. c.resposta = a.resposta /\ c.pendentes = a.pendentes /\ c.erro = falha
  BY <1>2 DEF Leitura
<1>7. LidoOK(c, a, l, lista)
  BY <1>1, <1>5, <1>6 DEF LidoOK, F, passo, falha
<1> QED BY <1>4, <1>7

LEMMA CountDashboardPeriodsStep ==
  ASSUME ReadInv, CountDashboardPeriods
  PROVE  ReadInv'
<1>1. PICK a \in Leitura : a = leitor /\ a.op = "painel" /\ a.pc = "leituras" /\ LeituraOK(a, hist)
  BY DEF ReadInv, TypeOK, CountDashboardPeriods, SummaryRead, At
<1>2. PICK b : b = leitor'
  OBVIOUS
<1>3. PICK c \in Leitura : LidoOK(c, a, "contagens", <<>>)
  BY <1>1, LidoTyped
<1> DEFINE t == Cardinality(Vivos)
           d == Cardinality(DestaSemana(Vivos))
<1>4. b = [c EXCEPT !.total = t, !.porDia = d]
  BY <1>1, <1>2, <1>3 DEF CountDashboardPeriods, DestaSemana, LidoOK
<1>5. t \in 0..Cardinality(Ids) /\ d \in 0..Cardinality(Ids)
  <2>1. Vivos \subseteq Ids /\ DestaSemana(Vivos) \subseteq Ids
    BY DEF Vivos, DestaSemana
  <2> QED BY <2>1, EventsFinite
<1> HIDE DEF t, d
<1>6. /\ b.op = "painel" /\ b.pc = (IF b.faltam = {} THEN "fim" ELSE "leituras")
      /\ b.faltam = a.faltam \ {"contagens"} /\ b.total = t /\ b.porDia = d
      /\ b.resposta = a.resposta /\ b.pendentes = a.pendentes /\ b.erro = c.erro
  BY <1>3, <1>4 DEF Leitura, LidoOK
<1>7. b \in Leitura
  BY <1>4, <1>5 DEF Leitura
<1>8. ContagensOK(b) /\ (ProximosOK(a) => ProximosOK(b)) /\ (PendentesOK(a) => PendentesOK(b))
  BY <1>6 DEF ContagensOK, ProximosOK, PendentesOK, t, d
<1>9. PainelOK(b, hist)
  <2>1. ~Falha(ToSet(<<>>))
    BY DEF Falha, ToSet
  <2>2. FalhaOK(a) => FalhaOK(b)
    BY <1>3, <1>6, <2>1 DEF FalhaOK, LidoOK
  <2> QED BY <1>1, <1>6, <1>8, <2>2 DEF LeituraOK, PainelOK
<1>10. LeituraOK(b, hist)
  BY <1>6, <1>9, OnlyOwnKind
<1>11. hist \in Historia /\ hist' = hist
  BY DEF ReadInv, TypeOK, Historia, CountDashboardPeriods, SummaryRead
<1> QED BY <1>2, <1>7, <1>10, <1>11, SameTable DEF CountDashboardPeriods, SummaryRead

LEMMA GetUpcomingEventsStep ==
  ASSUME ReadInv, GetUpcomingEvents
  PROVE  ReadInv'
<1>1. PICK a \in Leitura : a = leitor /\ a.op = "painel" /\ a.pc = "leituras" /\ LeituraOK(a, hist)
  BY DEF ReadInv, TypeOK, GetUpcomingEvents, SummaryRead, At
<1>2. PICK b : b = leitor'
  OBVIOUS
<1> DEFINE t == Primeiros(Nearest)
<1>3. PICK c \in Leitura : LidoOK(c, a, "proximos", t)
  BY <1>1, LidoTyped
<1>4. b = [c EXCEPT !.resposta = t]
  BY <1>1, <1>2, <1>3 DEF GetUpcomingEvents, LidoOK
<1>5. /\ Proximos \subseteq Ids /\ IsFiniteSet(Proximos)
      /\ \A x \in Proximos : eventos[x].data \in Nat
  BY ComingDated DEF ReadInv
<1>6. /\ Nearest \in SetToSeqs(Proximos)
      /\ \A i, j \in DOMAIN Nearest : i < j => AntesNoTempo(Nearest[i], Nearest[j])
  BY NearestOrdered DEF ReadInv
<1>7. /\ t \in Seq(Proximos) /\ ToSet(t) \subseteq Proximos
      /\ \A x \in ToSet(t), y \in Proximos \ ToSet(t) :
           \E i, j \in DOMAIN Nearest : i < j /\ Nearest[i] = x /\ Nearest[j] = y
  BY <1>5, <1>6, PrimeirosHold
<1> HIDE DEF t
<1>8. \A x \in ToSet(t), y \in Proximos \ ToSet(t) : eventos[x].data <= eventos[y].data
  <2> SUFFICES ASSUME NEW x \in ToSet(t), NEW y \in Proximos \ ToSet(t)
               PROVE  eventos[x].data <= eventos[y].data
    OBVIOUS
  <2>1. AntesNoTempo(x, y)
    BY <1>6, <1>7
  <2>2. eventos[x].data \in Nat /\ eventos[y].data \in Nat
    BY <1>5, <1>7
  <2> QED BY <2>1, <2>2 DEF AntesNoTempo
<1>9. /\ b.op = "painel" /\ b.pc = (IF b.faltam = {} THEN "fim" ELSE "leituras")
      /\ b.faltam = a.faltam \ {"proximos"} /\ b.total = a.total /\ b.porDia = a.porDia
      /\ b.resposta = t /\ b.pendentes = a.pendentes /\ b.erro = c.erro
  BY <1>3, <1>4 DEF Leitura, LidoOK
<1>10. b \in Leitura
  <2>1. t \in Seq(Ids)
    BY <1>5, <1>7
  <2> QED BY <1>4, <2>1 DEF Leitura
<1>11. ProximosOK(b) /\ (ContagensOK(a) => ContagensOK(b)) /\ (PendentesOK(a) => PendentesOK(b))
  BY <1>7, <1>8, <1>9 DEF ContagensOK, ProximosOK, PendentesOK
<1>12. PainelOK(b, hist)
  <2>1. "proximos" \in a.faltam
    BY <1>1 DEF GetUpcomingEvents, SummaryRead
  <2>2. FalhaOK(a) => FalhaOK(b)
    <3>1. a.resposta = <<>> => ~Falha(ToSet(a.resposta))
      BY DEF Falha, ToSet
    <3> QED BY <1>3, <1>9, <2>1, <3>1 DEF FalhaOK, LidoOK
  <2> QED BY <1>1, <1>9, <1>11, <2>2 DEF LeituraOK, PainelOK
<1>13. LeituraOK(b, hist)
  BY <1>9, <1>12, OnlyOwnKind
<1>14. hist \in Historia /\ hist' = hist
  BY DEF ReadInv, TypeOK, Historia, GetUpcomingEvents, SummaryRead
<1> QED BY <1>2, <1>10, <1>13, <1>14, SameTable DEF GetUpcomingEvents, SummaryRead

LEMMA GetPendingReviewStep ==
  ASSUME ReadInv, GetPendingReview
  PROVE  ReadInv'
<1>1. PICK a \in Leitura : a = leitor /\ a.op = "painel" /\ a.pc = "leituras" /\ LeituraOK(a, hist)
  BY DEF ReadInv, TypeOK, GetPendingReview, SummaryRead, At
<1>2. PICK b : b = leitor'
  OBVIOUS
<1> DEFINE f == [Vazio EXCEPT !.status = "em_analise"]
           s == Listados(f)
           t == Primeiros(s)
<1>3. PICK c \in Leitura : LidoOK(c, a, "pendentes", t)
  BY <1>1, LidoTyped
<1>4. b = [c EXCEPT !.pendentes = t]
  BY <1>1, <1>2, <1>3 DEF GetPendingReview, LidoOK
<1>5. /\ f.status = "em_analise" /\ f.dono = Nenhum /\ f.quando = Nenhum /\ f.de = Nenhum
      /\ f.ate = Nenhum /\ f.pendentes = FALSE
  BY DEF Vazio
<1> HIDE DEF f
<1>6. Casam(f) = Submetidos
  BY <1>5, NenhumAssumption DEF Casam, Casa, Submetidos, Vivos
<1>7. Submetidos \subseteq Ids /\ IsFiniteSet(Submetidos)
  BY <1>6, CountedTyped
<1>8. /\ s \in SetToSeqs(Submetidos)
      /\ \A i, j \in DOMAIN s : i < j => AntesNaLista(f, s[i], s[j])
  BY <1>6, ListadosOrdered
<1> HIDE DEF s
<1>9. /\ t \in Seq(Submetidos) /\ ToSet(t) \subseteq Submetidos
      /\ \A x \in ToSet(t), y \in Submetidos \ ToSet(t) :
           \E i, j \in DOMAIN s : i < j /\ s[i] = x /\ s[j] = y
      /\ \A y \in Submetidos \ ToSet(t) : Len(t) = Limite
  BY <1>7, <1>8, PrimeirosHold
<1> HIDE DEF t
<1>10. \A x \in ToSet(t), y \in Submetidos \ ToSet(t) : x > y
  <2>1. \A x, y : AntesNaLista(f, x, y) => x > y
    BY <1>5 DEF AntesNaLista, Fila
  <2> QED BY <1>8, <1>9, <2>1
<1>11. /\ b.op = "painel" /\ b.pc = (IF b.faltam = {} THEN "fim" ELSE "leituras")
       /\ b.faltam = a.faltam \ {"pendentes"} /\ b.total = a.total /\ b.porDia = a.porDia
       /\ b.resposta = a.resposta /\ b.pendentes = t /\ b.erro = c.erro
  BY <1>3, <1>4 DEF Leitura, LidoOK
<1>12. b \in Leitura
  <2>1. t \in Seq(Ids)
    BY <1>7, <1>9
  <2> QED BY <1>4, <2>1 DEF Leitura
<1>13. PendentesOK(b) /\ (ContagensOK(a) => ContagensOK(b)) /\ (ProximosOK(a) => ProximosOK(b))
  BY <1>9, <1>10, <1>11 DEF ContagensOK, ProximosOK, PendentesOK
<1>14. "pendentes" \in a.faltam
  BY <1>1 DEF GetPendingReview, SummaryRead
<1>15. PainelOK(b, hist)
  <2>1. FalhaOK(a) => FalhaOK(b)
    <3>1. a.pendentes = <<>> => ~Falha(ToSet(a.pendentes))
      BY DEF Falha, ToSet
    <3> QED BY <1>3, <1>11, <1>14, <3>1 DEF FalhaOK, LidoOK
  <2> QED BY <1>1, <1>11, <1>13, <1>14, <2>1 DEF LeituraOK, PainelOK
<1>16. LeituraOK(b, hist)
  BY <1>11, <1>15, OnlyOwnKind
<1>17. hist \in Historia /\ hist' = hist
  BY DEF ReadInv, TypeOK, Historia, GetPendingReview, SummaryRead
<1> QED BY <1>2, <1>12, <1>16, <1>17, SameTable DEF GetPendingReview, SummaryRead

LEMMA ReadNext == ReadInv /\ [Next]_vars => ReadInv'
<1> SUFFICES ASSUME ReadInv, [Next]_vars PROVE ReadInv'
  OBVIOUS
<1>1. ASSUME Read PROVE ReadInv'
  BY <1>1, ListEventsStep, GetMetricsStep, GetRecommendedStep, GetBySlugOrIdStep, ListCountStep,
     ListPageStep, GetRoleAndShowStep, ListPublishedStep, GetTagsAndSortStep, CountByPeriodoStep,
     CountByStatusStep, GetDateBoundsStep, GetSummaryStep, CountDashboardPeriodsStep,
     GetUpcomingEventsStep, GetPendingReviewStep
     DEF Read
<1>2. ASSUME UNCHANGED vars PROVE ReadInv'
  <2>1. CASE leitor = Nenhum
    BY <1>2, <2>1 DEF vars, ReadInv, TypeOK, Vivos
  <2>2. CASE leitor # Nenhum
    <3>1. PICK b \in Leitura : b = leitor /\ leitor' = b /\ LeituraOK(b, hist)
      BY <1>2, <2>2 DEF vars, ReadInv, TypeOK
    <3>2. PICK h \in Historia : h = hist /\ hist' = h
      BY <1>2 DEF vars, ReadInv, TypeOK, Historia
    <3>3. LeituraOK(b, h) /\ UNCHANGED <<eventos, usados, papel>>
      BY <1>2, <3>1, <3>2 DEF vars
    <3> QED BY <3>1, <3>2, <3>3, SameTable
  <2> QED BY <2>1, <2>2
<1> QED BY <1>1, <1>2, WriteStep DEF Next

LEMMA Invariance == Spec => []ReadInv
  BY ReadInit, ReadNext, PTL DEF Spec

\* The table, the role, the reader's request and its history keep their types.
THEOREM TypeCorrect == Spec => []TypeOK
<1>1. ReadInv => TypeOK
  BY DEF ReadInv
<1> QED BY <1>1, Invariance, PTL

\* A walk over the pages of GET /events (EventoRepository.list_filtered), beside
\* any writers, for any page size and number of events.
THEOREM WalksAreComplete == Spec => []WalksMissNothing
<1>1. ReadInv => WalksMissNothing
  <2> SUFFICES ASSUME ReadInv, At("lista", "fim") PROVE WalksMissNothing
    BY DEF WalksMissNothing
  <2>1. PaginasOK(leitor, hist) /\ SomaOK(leitor, hist) /\ leitor.pc = "fim"
    BY DEF ReadInv, At, LeituraOK, ListaOK
  <2>2. ~hist.mexeu => hist.inicio \subseteq leitor.lidos
    BY <2>1 DEF PaginasOK
  <2>3. ~hist.tocado =>
          leitor.lidos = Validos(leitor.filtro) /\ leitor.total = Counted(leitor.filtro)
    BY <2>1, <2>2 DEF SomaOK
  <2> DEFINE C == Casam(leitor.filtro)
             V == Validos(leitor.filtro)
             fora == {e \in C : ~eventos[e].formato}
  <2>4. Cardinality(C) = Cardinality(V) + Cardinality(fora)
    <3>1. /\ C = V \cup fora /\ V \cap fora = {}
          /\ V \subseteq Ids /\ fora \subseteq Ids
      BY CountedTyped DEF Validos
    <3>2. /\ IsFiniteSet(V) /\ IsFiniteSet(fora)
          /\ Cardinality(V) \in Nat /\ Cardinality(fora) \in Nat
      BY <3>1, EventsFinite, FS_CardinalityType
    <3>3. Cardinality(V \cup fora) = Cardinality(V) + Cardinality(fora) - Cardinality(V \cap fora)
      BY <3>2, FS_Union
    <3>4. Cardinality(V \cap fora) = 0
      BY <3>1, FS_EmptySet
    <3> HIDE DEF V, fora, C
    <3> QED BY <3>1, <3>2, <3>3, <3>4
  <2>5. ~hist.tocado => leitor.total = Cardinality(leitor.lidos) + Cardinality(fora)
    BY <2>3, <2>4 DEF Counted
  <2> QED BY <2>2, <2>5 DEF WalksMissNothing
<1> QED BY <1>1, Invariance, PTL

\* GET /events/slug/{slug_or_id} shows only what its reader could see at some
\* moment of the request (_can_view_event), although the role is read later.
THEOREM OnlyVisibleIsShown == Spec => []ShownWasVisible
<1>1. ReadInv => ShownWasVisible
  BY DEF ReadInv, ShownWasVisible, At, LeituraOK, VerOK
<1> QED BY <1>1, Invariance, PTL

\* The recommendations (get_recommended_events) are the best there are.
THEOREM BestAreRecommended == Spec => []RecommendsTheBest
<1>1. ReadInv => RecommendsTheBest
  BY DEF ReadInv, RecommendsTheBest, At, LeituraOK, RecomendaOK, Melhores
<1> QED BY <1>1, Invariance, PTL

\* The metrics (get_metrics) add up, and fail for a date that is none only.
THEOREM MetricsAddUp == Spec => []MetricsAreSound
<1>1. ReadInv => MetricsAreSound
  <2> SUFFICES ASSUME ReadInv, At("metricas", "fim") PROVE MetricsAreSound
    BY DEF MetricsAreSound
  <2>1. MetricasOK(leitor, hist) /\ leitor.op = "metricas" /\ leitor.pc = "fim"
    BY DEF ReadInv, At, LeituraOK
  <2>2. PorDiaSemana(leitor.filtro) <= Counted(leitor.filtro)
    BY CountedTyped
  <2> QED BY <2>1, <2>2 DEF MetricasOK, MetricsAreSound
<1> QED BY <1>1, Invariance, PTL

\* The parts of GET /dashboard/summary fit together, in whatever order its reads
\* are made on the connection they share.
THEOREM SummaryIsConsistent == Spec => []SummaryFits
<1>1. ReadInv => SummaryFits
  <2> SUFFICES ASSUME ReadInv, At("painel", "fim"), ~hist.tocado PROVE SummaryFits
    BY DEF SummaryFits
  <2> DEFINE proximos == ToSet(leitor.resposta)
             pendentes == ToSet(leitor.pendentes)
  <2>1. /\ ContagensOK(leitor) /\ ProximosOK(leitor) /\ FalhaOK(leitor)
        /\ papel \in REVIEW_ROLES => PendentesOK(leitor)
        /\ papel \notin REVIEW_ROLES => leitor.pendentes = <<>>
    BY DEF ReadInv, At, LeituraOK, PainelOK
  <2>2. papel \notin REVIEW_ROLES => pendentes = {}
    BY <2>1 DEF ToSet
  <2>3. /\ proximos \subseteq Proximos /\ pendentes \subseteq Submetidos
        /\ proximos \subseteq Vivos /\ pendentes \subseteq Vivos /\ Vivos \subseteq Ids
    BY <2>1, <2>2 DEF ProximosOK, PendentesOK, Proximos, Publicados, Submetidos, Vivos
  <2>4. proximos \cap pendentes = {}
    BY <2>3 DEF Proximos, Publicados, Submetidos
  <2>5. Cardinality(proximos \cup pendentes) <= leitor.total
    <3>1. proximos \cup pendentes \subseteq Vivos /\ IsFiniteSet(Vivos)
      BY <2>3, EventsFinite
    <3> QED BY <2>1, <3>1, FS_Subset DEF ContagensOK
  <2>6. ASSUME ~leitor.erro
        PROVE  Cardinality({e \in proximos : SameWeek(eventos[e].data, Hoje)}) <= leitor.porDia
    <3>1. \A e \in proximos : eventos[e].data = eventos[e].dia
      <4>1. \A e \in proximos : eventos[e].formato
        BY <2>1, <2>6 DEF FalhaOK, Falha
      <4>2. \A e \in Proximos : eventos[e] \in Linhas /\ eventos[e].data # Nenhum
        BY ComingDated DEF ReadInv, Proximos, Futuro
      <4> QED BY <2>3, <4>1, <4>2, LinhasAssumption DEF ParseEventDate
    <3>2. DestaSemana(proximos) \subseteq DestaSemana(Vivos) /\ DestaSemana(Vivos) \subseteq Ids
      BY <2>3 DEF DestaSemana
    <3>3. IsFiniteSet(DestaSemana(Vivos))
      BY <3>2, EventsFinite
    <3>4. Cardinality(DestaSemana(proximos)) <= leitor.porDia
      BY <2>1, <3>2, <3>3, FS_Subset DEF ContagensOK
    <3>5. {e \in proximos : SameWeek(eventos[e].data, Hoje)} = DestaSemana(proximos)
      BY <3>1 DEF DestaSemana
    <3> QED BY <3>4, <3>5
  <2>7. \A x \in proximos, y \in Publicados \ proximos :
          Futuro(eventos[y]) => eventos[x].data <= eventos[y].data
    BY <2>1 DEF ProximosOK, Proximos
  <2>8. papel \in REVIEW_ROLES =>
          \A y \in Submetidos \ pendentes : Len(leitor.pendentes) = Limite /\ \A x \in pendentes : x > y
    BY <2>1 DEF PendentesOK
  <2>9. leitor.erro => \E e \in proximos \cup pendentes : ~eventos[e].formato
    BY <2>1 DEF FalhaOK, Falha
  <2> HIDE DEF proximos, pendentes
  <2> QED BY <2>2, <2>4, <2>5, <2>6, <2>7, <2>8, <2>9 DEF SummaryFits, Submetidos, proximos, pendentes
<1> QED BY <1>1, Invariance, PTL

-----------------------------------------------------------------------------
(* The cached reads of GithubCache.  The inductive invariant says of every *)
(* entry, valid or not, that its period ends at most TTL plus one lookup   *)
(* after the time of its value.                                            *)

PeriodsAreShort ==
  \A k \in Keys : cache[k] # Ausente => cache[k].expires_at <= cache[k].value + TTL + Timeout

CacheInv == CacheTypeOK /\ PeriodsAreShort

LEMMA CacheInit == InitCache => CacheInv
  BY TimesAssumption, AusenteAssumption DEF InitCache, CacheInv, CacheTypeOK, PeriodsAreShort

LEMMA TickStep ==
  ASSUME CacheInv, Tick
  PROVE  CacheInv'
<1>1. now \in Nat /\ now' = now + 1 /\ UNCHANGED <<cache, req>>
  BY DEF CacheInv, CacheTypeOK, Tick
<1>2. \A q \in Requests : req[q] # Ausente =>
        /\ req[q].since \in Nat /\ req[q].value \in Nat
        /\ now < req[q].since + Timeout
  BY DEF CacheInv, CacheTypeOK, Lookup, Tick
<1>3. CacheTypeOK'
  BY <1>1, <1>2, TimesAssumption, AusenteAssumption DEF CacheInv, CacheTypeOK
<1>4. PeriodsAreShort'
  BY <1>1 DEF CacheInv, PeriodsAreShort
<1> QED BY <1>3, <1>4 DEF CacheInv

LEMMA MissStep ==
  ASSUME NEW q \in Requests, NEW k \in Keys, CacheInv, Miss(q, k)
  PROVE  CacheInv'
<1> DEFINE r == [key |-> k, pc |-> "fetch", since |-> now, value |-> now]
<1>1. now \in Nat /\ r \in Lookup /\ r # Ausente
  BY TimesAssumption, AusenteAssumption DEF CacheInv, CacheTypeOK, Lookup
<1>2. /\ cache' \in [Keys -> Entry \cup {Ausente}] /\ req' \in [Requests -> Lookup \cup {Ausente}]
      /\ req'[q] = r /\ \A p \in Requests : p # q => req'[p] = req[p]
      /\ \A j \in Keys : cache'[j] = cache[j] \/ cache'[j] = Ausente
      /\ now' = now
  BY <1>1 DEF CacheInv, CacheTypeOK, Miss
<1>3. CacheTypeOK'
  BY <1>1, <1>2, TimesAssumption, AusenteAssumption DEF CacheInv, CacheTypeOK
<1>4. PeriodsAreShort'
  BY <1>2 DEF CacheInv, PeriodsAreShort
<1> QED BY <1>3, <1>4 DEF CacheInv

LEMMA AnswerStep ==
  ASSUME NEW q \in Requests, CacheInv, Answer(q)
  PROVE  CacheInv'
<1> DEFINE r == [req[q] EXCEPT !.pc = "set", !.value = now]
<1>1. req[q] \in Lookup /\ req[q] # Ausente /\ now \in Nat
  BY TimesAssumption, AusenteAssumption DEF CacheInv, CacheTypeOK, Answer, EmVoo
<1>2. r \in Lookup /\ r # Ausente /\ r.since = req[q].since /\ r.value = now
  BY <1>1, TimesAssumption, AusenteAssumption DEF Lookup
<1>3. /\ req' \in [Requests -> Lookup \cup {Ausente}]
      /\ req'[q] = r /\ \A p \in Requests : p # q => req'[p] = req[p]
      /\ UNCHANGED <<now, cache>>
  BY <1>1, <1>2 DEF CacheInv, CacheTypeOK, Answer
<1>4. req[q].since <= now /\ now <= req[q].since + Timeout
  BY <1>1, TimesAssumption, AusenteAssumption DEF CacheInv, CacheTypeOK, Lookup
<1> HIDE DEF r
<1>5. CacheTypeOK'
  BY <1>1, <1>2, <1>3, <1>4 DEF CacheInv, CacheTypeOK
<1>6. PeriodsAreShort'
  BY <1>3 DEF CacheInv, PeriodsAreShort
<1> QED BY <1>5, <1>6 DEF CacheInv

LEMMA CacheSetStep ==
  ASSUME NEW q \in Requests, CacheInv, CacheSet(q)
  PROVE  CacheInv'
<1> DEFINE e == [expires_at |-> now + TTL, value |-> req[q].value]
<1>1. req[q] \in Lookup /\ req[q] # Ausente /\ now \in Nat
  BY TimesAssumption, AusenteAssumption DEF CacheInv, CacheTypeOK, CacheSet, EmVoo
<1>2. e \in Entry /\ e # Ausente /\ req[q].key \in Keys
  BY <1>1, TimesAssumption, AusenteAssumption DEF Lookup, Entry
<1>3. /\ cache' \in [Keys -> Entry \cup {Ausente}] /\ req' \in [Requests -> Lookup \cup {Ausente}]
      /\ req'[q] = Ausente /\ \A p \in Requests : p # q => req'[p] = req[p]
      /\ cache'[req[q].key] = e
      /\ \A j \in Keys : j # req[q].key => cache'[j] = cache[j]
      /\ now' = now
  BY <1>1, <1>2 DEF CacheInv, CacheTypeOK, CacheSet
<1>4. e.expires_at <= e.value + TTL + Timeout
  <2>1. /\ req[q].since \in Nat /\ req[q].value \in Nat
        /\ req[q].since <= req[q].value /\ now <= req[q].since + Timeout
    BY <1>1 DEF CacheInv, CacheTypeOK, Lookup
  <2> QED BY <1>1, <2>1, TimesAssumption, AusenteAssumption
<1>5. CacheTypeOK'
  BY <1>3 DEF CacheInv, CacheTypeOK
<1>6. PeriodsAreShort'
  BY <1>3, <1>4 DEF CacheInv, PeriodsAreShort
<1> QED BY <1>5, <1>6 DEF CacheInv

LEMMA CacheNext ==
  CacheInv /\ [NextCache]_varsCache => CacheInv'
<1> SUFFICES ASSUME CacheInv, [NextCache]_varsCache PROVE CacheInv'
  OBVIOUS
<1>1. ASSUME NEW q \in Requests, Fail(q) PROVE CacheInv'
  BY <1>1 DEF Fail, CacheInv, CacheTypeOK, PeriodsAreShort
<1>2. CASE UNCHANGED varsCache
  BY <1>2 DEF varsCache, CacheInv, CacheTypeOK, PeriodsAreShort
<1> QED BY <1>1, <1>2, TickStep, MissStep, AnswerStep, CacheSetStep DEF NextCache

LEMMA CacheInvariance == SpecCache => []CacheInv
  BY CacheInit, CacheNext, PTL DEF SpecCache

\* Entries and lookups keep their types, and a lookup notes its times in order.
THEOREM CacheTypeCorrect == SpecCache => []CacheTypeOK
<1>1. CacheInv => CacheTypeOK
  BY DEF CacheInv
<1> QED BY <1>1, CacheInvariance, PTL

\* An answer of the cache is at most TTL plus one lookup old (_cache_get,
\* _cache_set), however many lookups of a key are under way at once.
THEOREM CacheFreshness == SpecCache => []AnswersAreFresh
<1>1. CacheInv => AnswersAreFresh
  <2> SUFFICES ASSUME CacheInv, NEW k \in Keys, Valid(k)
               PROVE  now <= cache[k].value + TTL + Timeout
    BY DEF AnswersAreFresh
  <2>1. /\ now \in Nat /\ cache[k].expires_at \in Nat /\ cache[k].value \in Nat
        /\ now <= cache[k].expires_at
        /\ cache[k].expires_at <= cache[k].value + TTL + Timeout
    BY DEF CacheInv, CacheTypeOK, PeriodsAreShort, Valid, Entry
  <2> QED BY <2>1, TimesAssumption, AusenteAssumption
<1> QED BY <1>1, CacheInvariance, PTL
=============================================================================
