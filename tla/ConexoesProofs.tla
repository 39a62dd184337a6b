--------------------------- MODULE ConexoesProofs ---------------------------
(***************************************************************************)
(* Proofs about Conexoes, for any pool and any number of requests.  The    *)
(* invariant adds to the properties what is true of a server whose         *)
(* requests have never met: there is one request in flight and one open    *)
(* connection at most, and from get_db on it has the caller's name or none.*)
(***************************************************************************)
EXTENDS Conexoes, FiniteSetTheorems, TLAPS

AloneInv ==
  ~juntas =>
    /\ \A p, q \in Requests : ~Idle(p) /\ ~Idle(q) => p = q
    /\ \A c, d \in abertas : c = d
    /\ \A q \in Requests : ~Idle(q) /\ req[q].pc # "get_db" =>
         \A c \in abertas : contexto[c] \in {req[q].user, Nenhum}

IInv == TypeOK /\ ConnectionsAreExclusive /\ AloneInv /\ AuditNamesCallerUntilRequestsMeet

-----------------------------------------------------------------------------
(* Sequences without repetitions.                                          *)

LEMMA EmptyPool == ToSet(<<>>) = {} /\ IsInjective(<<>>)
  BY DEF ToSet, IsInjective

LEMMA AppendNew ==
  ASSUME NEW S, NEW s \in Seq(S), NEW c \in S
  PROVE  /\ Append(s, c) \in Seq(S)
         /\ ToSet(Append(s, c)) = ToSet(s) \cup {c}
         /\ IsInjective(s) /\ c \notin ToSet(s) => IsInjective(Append(s, c))
<1>1. /\ Append(s, c) \in Seq(S) /\ Len(Append(s, c)) = Len(s) + 1
      /\ \A i \in 1..Len(s) : Append(s, c)[i] = s[i]
      /\ Append(s, c)[Len(s) + 1] = c
  OBVIOUS
<1>2. Len(s) \in Nat /\ DOMAIN s = 1..Len(s) /\ DOMAIN Append(s, c) = 1..(Len(s) + 1)
  OBVIOUS
<1>3. ToSet(Append(s, c)) = ToSet(s) \cup {c}
  <2>1. ASSUME NEW x \in ToSet(Append(s, c)) PROVE x \in ToSet(s) \cup {c}
    <3>1. PICK i \in 1..(Len(s) + 1) : x = Append(s, c)[i]
      BY <1>2 DEF ToSet
    <3>2. i \in 1..Len(s) \/ i = Len(s) + 1
      BY <1>2
    <3> QED
      BY <1>1, <1>2, <3>1, <3>2 DEF ToSet
  <2>2. ASSUME NEW x \in ToSet(s) PROVE x \in ToSet(Append(s, c))
    <3>1. PICK i \in 1..Len(s) : x = s[i]
      BY <1>2 DEF ToSet
    <3>2. i \in 1..(Len(s) + 1)
      BY <1>2
    <3> QED
      BY <1>1, <1>2, <3>1, <3>2 DEF ToSet
  <2>3. c \in ToSet(Append(s, c))
    <3>1. Len(s) + 1 \in 1..(Len(s) + 1)
      BY <1>2
    <3> QED
      BY <1>1, <1>2, <3>1 DEF ToSet
  <2> QED
    BY <2>1, <2>2, <2>3
<1>4. ASSUME IsInjective(s), c \notin ToSet(s),
             NEW i \in 1..(Len(s) + 1), NEW j \in 1..(Len(s) + 1),
             Append(s, c)[i] = Append(s, c)[j]
      PROVE  i = j
  <2>1. \A k \in 1..Len(s) : s[k] # c
    BY <1>2, <1>4 DEF ToSet
  <2>2. /\ i \in 1..Len(s) \/ i = Len(s) + 1
        /\ j \in 1..Len(s) \/ j = Len(s) + 1
    BY <1>2
  <2> QED
    BY <1>1, <1>2, <1>4, <2>1, <2>2 DEF IsInjective
<1> QED
  BY <1>1, <1>2, <1>3, <1>4 DEF IsInjective

LEMMA WithoutHead ==
  ASSUME NEW S, NEW s \in Seq(S), s # <<>>, IsInjective(s)
  PROVE  /\ Head(s) \in S /\ Tail(s) \in Seq(S)
         /\ ToSet(s) = ToSet(Tail(s)) \cup {Head(s)}
         /\ Head(s) \notin ToSet(Tail(s))
         /\ IsInjective(Tail(s))
<1>1. /\ Len(s) \in Nat \ {0} /\ DOMAIN s = 1..Len(s)
      /\ Head(s) = s[1] /\ Head(s) \in S
      /\ Tail(s) \in Seq(S) /\ Len(Tail(s)) = Len(s) - 1
      /\ \A i \in 1..(Len(s) - 1) : Tail(s)[i] = s[i + 1]
  OBVIOUS
<1>2. DOMAIN Tail(s) = 1..(Len(s) - 1)
  BY <1>1
<1>3. ToSet(s) = ToSet(Tail(s)) \cup {Head(s)}
  <2>1. ASSUME NEW x \in ToSet(s) PROVE x \in ToSet(Tail(s)) \cup {Head(s)}
    <3>1. PICK i \in 1..Len(s) : x = s[i]
      BY <1>1 DEF ToSet
    <3>2. i = 1 \/ (i - 1 \in 1..(Len(s) - 1) /\ s[i] = Tail(s)[i - 1])
      BY <1>1
    <3> QED
      BY <1>1, <1>2, <3>1, <3>2 DEF ToSet
  <2>2. ASSUME NEW x \in ToSet(Tail(s)) PROVE x \in ToSet(s)
    <3>1. PICK i \in 1..(Len(s) - 1) : x = Tail(s)[i]
      BY <1>2 DEF ToSet
    <3>2. i + 1 \in 1..Len(s) /\ s[i + 1] = x
      BY <1>1, <3>1
    <3> QED
      BY <1>1, <3>2 DEF ToSet
  <2>3. Head(s) \in ToSet(s)
    <3>1. 1 \in 1..Len(s)
      BY <1>1
    <3> QED
      BY <1>1, <3>1 DEF ToSet
  <2> QED
    BY <2>1, <2>2, <2>3
<1>4. Head(s) \notin ToSet(Tail(s))
  <2> SUFFICES ASSUME NEW i \in 1..(Len(s) - 1) PROVE s[1] # Tail(s)[i]
    BY <1>1, <1>2 DEF ToSet
  <2>1. i + 1 \in 1..Len(s) /\ 1 \in 1..Len(s) /\ i + 1 # 1
    BY <1>1
  <2> QED
    BY <1>1, <2>1 DEF IsInjective
<1>5. IsInjective(Tail(s))
  <2> SUFFICES ASSUME NEW i \in 1..(Len(s) - 1), NEW j \in 1..(Len(s) - 1),
                      Tail(s)[i] = Tail(s)[j]
               PROVE  i = j
    BY <1>2 DEF IsInjective
  <2>1. i + 1 \in 1..Len(s) /\ j + 1 \in 1..Len(s) /\ s[i + 1] = s[j + 1]
    BY <1>1
  <2>2. i + 1 = j + 1
    BY <1>1, <2>1 DEF IsInjective
  <2> QED
    BY <1>1, <2>2
<1> QED
  BY <1>1, <1>3, <1>4, <1>5

-----------------------------------------------------------------------------
(* The steps.                                                              *)

LEMMA InitIInv == Init => IInv
<1> SUFFICES ASSUME Init PROVE IInv
  OBVIOUS
<1> USE NenhumAssumption DEF Init
<1>1. TypeOK
  <2>1. pool \in Seq(Conns) /\ abertas \subseteq Conns
    OBVIOUS
  <2>2. contexto \in [Conns -> Caller \cup {Nenhum}] /\ req \in [Requests -> Request \cup {Nenhum}]
    OBVIOUS
  <2> QED
    BY <2>1, <2>2 DEF TypeOK
<1>2. \A q \in Requests : Idle(q) /\ \A c \in Conns : ~Holds(q, c)
  BY DEF Idle, Holds
<1>3. ConnectionsAreExclusive
  BY <1>2, EmptyPool DEF ConnectionsAreExclusive
<1>4. AloneInv /\ AuditNamesCallerUntilRequestsMeet
  BY <1>2 DEF AloneInv, AuditNamesCallerUntilRequestsMeet
<1> QED
  BY <1>1, <1>3, <1>4 DEF IInv

\* A connection that a request gives back is idle, once, or closed.
LEMMA Returned ==
  ASSUME TypeOK, ConnectionsAreExclusive, NEW q \in Requests, NEW c \in Conns, Holds(q, c),
         NEW x \in Caller \cup {Nenhum}, Return(c, x),
         NEW r \in Request \cup {Nenhum}, r = Nenhum \/ r.conn = Nenhum,
         req' = [req EXCEPT ![q] = r]
  PROVE  /\ pool' \in Seq(Conns) /\ abertas' \subseteq abertas
         /\ contexto' \in [Conns -> Caller \cup {Nenhum}]
         /\ c \in abertas
         /\ c \in abertas' => contexto'[c] = x
         /\ ConnectionsAreExclusive'
<1> DEFINE usadas == {d \in Conns : \E p \in Requests : Holds(p, d)}
<1>1. /\ pool \in Seq(Conns) /\ IsInjective(pool) /\ c \in usadas
      /\ usadas \cap ToSet(pool) = {} /\ usadas \cup ToSet(pool) = abertas
      /\ \A p \in Requests : p # q => ~Holds(p, c)
  BY DEF TypeOK, ConnectionsAreExclusive
<1>2. \A p \in Requests, d \in Conns : Holds(p, d)' <=> p # q /\ Holds(p, d)
  BY NenhumAssumption DEF Holds, Idle, TypeOK
<1>3. \A d \in Conns : Holds(q, d) => d = c
  BY DEF Holds
<1>4. {d \in Conns : \E p \in Requests : Holds(p, d)'} = usadas \ {c}
  BY <1>1, <1>2, <1>3
<1>5. \A p1, p2 \in Requests, d \in Conns : p1 # p2 => ~(Holds(p1, d)' /\ Holds(p2, d)')
  BY <1>2 DEF ConnectionsAreExclusive
<1>6. CASE Len(pool) < pool_size
  <2>1. pool' = Append(pool, c) /\ abertas' = abertas
    BY <1>6 DEF Return
  <2>2. contexto' = [contexto EXCEPT ![c] = x]
    BY <1>6 DEF Return
  <2>3. pool' \in Seq(Conns) /\ IsInjective(pool') /\ ToSet(pool') = ToSet(pool) \cup {c}
    BY <1>1, <2>1, AppendNew
  <2>4. ConnectionsAreExclusive'
    BY <1>1, <1>4, <1>5, <2>1, <2>3 DEF ConnectionsAreExclusive
  <2> QED
    BY <1>1, <2>1, <2>2, <2>3, <2>4 DEF TypeOK
<1>7. CASE ~(Len(pool) < pool_size)
  <2>1. pool' = pool /\ abertas' = abertas \ {c} /\ contexto' = [contexto EXCEPT ![c] = Nenhum]
    BY <1>7 DEF Return
  <2>2. ConnectionsAreExclusive'
    BY <1>1, <1>4, <1>5, <2>1 DEF ConnectionsAreExclusive
  <2> QED
    BY <1>1, <2>1, <2>2 DEF TypeOK
<1> QED
  BY <1>6, <1>7

\* A request that moves on without touching its connection, or begins without one.
LEMMA Kept ==
  ASSUME TypeOK, ConnectionsAreExclusive, NEW q \in Requests,
         NEW r \in Request \cup {Nenhum},
         \A d \in Conns : Holds(q, d) <=> r # Nenhum /\ r.conn = d,
         req' = [req EXCEPT ![q] = r], UNCHANGED <<pool, abertas>>
  PROVE  ConnectionsAreExclusive'
<1>1. \A p \in Requests, d \in Conns : Holds(p, d)' <=> Holds(p, d)
  BY DEF Holds, Idle, TypeOK
<1> QED
  BY <1>1 DEF ConnectionsAreExclusive

\* A connection that nobody holds is handed out.
LEMMA Taken ==
  ASSUME TypeOK, ConnectionsAreExclusive, NEW q \in Requests, Waits(q),
         NEW c \in Conns, \A p \in Requests : ~Holds(p, c),
         pool' \in Seq(Conns), IsInjective(pool'), c \notin ToSet(pool'),
         ToSet(pool') \subseteq ToSet(pool),
         abertas' = {d \in Conns : \E p \in Requests : Holds(p, d)} \cup ToSet(pool') \cup {c},
         req' = [req EXCEPT ![q].conn = c]
  PROVE  /\ ConnectionsAreExclusive' /\ req' \in [Requests -> Request \cup {Nenhum}]
         /\ \A p \in Requests :
              /\ Idle(p)' <=> Idle(p)
              /\ ~Idle(p) => req'[p].pc = req[p].pc /\ req'[p].user = req[p].user
<1>1. req[q] \in Request /\ req[q].conn = Nenhum
  BY DEF Waits, Idle, TypeOK
<1>2. /\ req' = [req EXCEPT ![q] = [req[q] EXCEPT !.conn = c]]
      /\ [req[q] EXCEPT !.conn = c] \in Request
  BY <1>1 DEF TypeOK, Request
<1>3. \A p \in Requests, d \in Conns : Holds(p, d)' <=> (p = q /\ d = c) \/ Holds(p, d)
  <2> DEFINE r == [req[q] EXCEPT !.conn = c]
  <2>1. r # Nenhum /\ r.conn = c /\ req'[q] = r
    BY <1>1, <1>2, NenhumAssumption DEF TypeOK, Request
  <2>2. \A p \in Requests : p # q => req'[p] = req[p]
    BY <1>2 DEF TypeOK
  <2>3. \A d \in Conns : ~Holds(q, d)
    BY <1>1, NenhumAssumption DEF Holds
  <2> QED
    BY <2>1, <2>2, <2>3 DEF Holds, Idle
<1>4. {d \in Conns : \E p \in Requests : Holds(p, d)'}
      = {d \in Conns : \E p \in Requests : Holds(p, d)} \cup {c}
  BY <1>3
<1>5. \A p1, p2 \in Requests, d \in Conns : p1 # p2 => ~(Holds(p1, d)' /\ Holds(p2, d)')
  BY <1>3 DEF ConnectionsAreExclusive
<1>6. \A p \in Requests :
        /\ Idle(p)' <=> Idle(p)
        /\ ~Idle(p) => req'[p].pc = req[p].pc /\ req'[p].user = req[p].user
  <2> DEFINE r == [req[q] EXCEPT !.conn = c]
  <2>1. r # Nenhum /\ r.pc = req[q].pc /\ r.user = req[q].user /\ req[q] # Nenhum
    BY <1>1, <1>2, NenhumAssumption DEF Request
  <2>2. req'[q] = r /\ \A p \in Requests : p # q => req'[p] = req[p]
    BY <1>2 DEF TypeOK
  <2> QED
    BY <2>1, <2>2 DEF Idle
<1>7. ConnectionsAreExclusive'
  BY <1>4, <1>5 DEF ConnectionsAreExclusive
<1>8. req' \in [Requests -> Request \cup {Nenhum}]
  BY <1>2 DEF TypeOK
<1> QED
  BY <1>6, <1>7, <1>8

\* There is a connection to open, within the limit.
LEMMA SpareConnection ==
  ASSUME abertas \subseteq Conns, MayOpen
  PROVE  (CHOOSE c \in Conns : c \notin abertas) \in Conns \ abertas
<1>1. Cardinality(abertas) \in Nat /\ Cardinality(Conns) \in Nat
  BY PoolAssumption, FS_Subset, FS_CardinalityType
<1>2. Cardinality(abertas) # Cardinality(Conns)
  BY <1>1, PoolAssumption DEF MayOpen
<1>3. \E c \in Conns : c \notin abertas
  BY <1>2
<1> QED
  BY <1>3

LEMMA BeginStep ==
  ASSUME IInv, NEW q \in Requests, NEW u \in Caller, BeginRequest(q, u)
  PROVE  IInv'
<1> DEFINE r == [user |-> u, pc |-> "get_db", conn |-> Nenhum, resta |-> MaxTransacoes]
<1> USE DEF BeginRequest, IInv
<1>1. r \in Request /\ r # Nenhum /\ r.pc = "get_db" /\ req' = [req EXCEPT ![q] = r]
  BY PoolAssumption, NenhumAssumption DEF Request
<1>2. /\ \A d \in Conns : Holds(q, d) <=> r # Nenhum /\ r.conn = d
      /\ TypeOK /\ ConnectionsAreExclusive /\ UNCHANGED <<pool, abertas>>
  BY NenhumAssumption DEF Holds
<1> HIDE DEF r, BeginRequest, IInv
<1>3. ConnectionsAreExclusive'
  BY <1>1, <1>2, Kept
<1> USE DEF BeginRequest, IInv
<1>4. req'[q] = r /\ \A p \in Requests : p # q => req'[p] = req[p]
  BY <1>1 DEF TypeOK
<1>5. TypeOK'
  BY <1>1 DEF TypeOK
<1>6. AloneInv'
  <2> SUFFICES ASSUME ~juntas' PROVE AloneInv'
    BY DEF AloneInv
  <2>1. ~juntas /\ \A p \in Requests : Idle(p)
    OBVIOUS
  <2>2. \A p \in Requests : ~Idle(p)' => p = q
    BY <1>4, <2>1 DEF Idle
  <2>3. \A c, d \in abertas' : c = d
    BY <2>1 DEF AloneInv
  <2> QED
    BY <1>1, <1>4, <2>2, <2>3 DEF AloneInv
<1>7. AuditNamesCallerUntilRequestsMeet'
  BY DEF AuditNamesCallerUntilRequestsMeet
<1> QED
  BY <1>3, <1>5, <1>6, <1>7

LEMMA TransactionStep ==
  ASSUME IInv, NEW q \in Requests, BeginTransaction(q)
  PROVE  IInv'
<1> DEFINE r == [req[q] EXCEPT !.pc = "transacao", !.resta = @ - 1]
<1> USE DEF BeginTransaction, IInv
<1>1. req[q] \in Request /\ req[q] # Nenhum
  BY DEF TypeOK, Idle
<1>2. /\ r \in Request /\ r # Nenhum /\ req' = [req EXCEPT ![q] = r]
      /\ r.conn = req[q].conn /\ r.user = req[q].user
  BY <1>1, PoolAssumption, NenhumAssumption DEF TypeOK, Request
<1>3. \A d \in Conns : Holds(q, d) <=> r # Nenhum /\ r.conn = d
  BY <1>1, <1>2 DEF Holds, Idle
<1>4. ConnectionsAreExclusive'
  BY <1>2, <1>3, Kept
<1>5. req'[q] = r /\ \A p \in Requests : p # q => req'[p] = req[p]
  BY <1>2 DEF TypeOK
<1>6. TypeOK'
  BY <1>2 DEF TypeOK
<1>7. \A p \in Requests : Idle(p)' <=> Idle(p)
  BY <1>1, <1>2, <1>5 DEF Idle
<1>8. AloneInv'
  BY <1>2, <1>5, <1>7 DEF AloneInv
<1>9. AuditNamesCallerUntilRequestsMeet'
  BY DEF AuditNamesCallerUntilRequestsMeet
<1> QED
  BY <1>4, <1>6, <1>8, <1>9

LEMMA CheckoutIdleStep ==
  ASSUME IInv, NEW q \in Requests, CheckoutIdle(q)
  PROVE  IInv'
<1> DEFINE c == Head(pool)
<1> USE DEF CheckoutIdle, IInv
<1>1. /\ c \in Conns /\ Tail(pool) \in Seq(Conns) /\ IsInjective(Tail(pool))
      /\ ToSet(pool) = ToSet(Tail(pool)) \cup {c} /\ c \notin ToSet(Tail(pool))
  BY WithoutHead DEF TypeOK, ConnectionsAreExclusive
<1>2. \A p \in Requests : ~Holds(p, c)
  BY <1>1 DEF ConnectionsAreExclusive
<1>3. /\ req' = [req EXCEPT ![q].conn = c] /\ pool' = Tail(pool) /\ abertas' = abertas
      /\ Waits(q)
  OBVIOUS
<1>4. abertas' = {d \in Conns : \E p \in Requests : Holds(p, d)} \cup ToSet(pool') \cup {c}
  BY <1>1, <1>3 DEF ConnectionsAreExclusive
<1>5. /\ ConnectionsAreExclusive' /\ req' \in [Requests -> Request \cup {Nenhum}]
      /\ \A p \in Requests :
           /\ Idle(p)' <=> Idle(p)
           /\ ~Idle(p) => req'[p].pc = req[p].pc /\ req'[p].user = req[p].user
  BY <1>1, <1>2, <1>3, <1>4, Taken
<1>6. PICK x \in {contexto[c], Nenhum} : contexto' = [contexto EXCEPT ![c] = x]
  OBVIOUS
<1>7. TypeOK'
  BY <1>1, <1>3, <1>5, <1>6 DEF TypeOK
<1>8. \A d \in abertas : contexto'[d] \in {contexto[d], Nenhum}
  BY <1>1, <1>6 DEF TypeOK
<1>9. AloneInv'
  <2>0. AloneInv /\ juntas' = juntas /\ abertas' = abertas
    OBVIOUS
  <2> HIDE DEF CheckoutIdle, IInv, c
  <2> SUFFICES ASSUME ~juntas' PROVE AloneInv'
    BY DEF AloneInv
  <2>1. /\ \A p1, p2 \in Requests : ~Idle(p1)' /\ ~Idle(p2)' => p1 = p2
        /\ \A d1, d2 \in abertas' : d1 = d2
    BY <1>5, <2>0 DEF AloneInv, Idle
  <2>2. ASSUME NEW p \in Requests, ~Idle(p)', req'[p].pc # "get_db", NEW d \in abertas'
        PROVE  contexto'[d] \in {req'[p].user, Nenhum}
    <3>1. ~Idle(p) /\ req[p].pc # "get_db" /\ req'[p].user = req[p].user /\ d \in abertas
      BY <1>5, <2>0, <2>2 DEF Idle
    <3>2. contexto[d] \in {req[p].user, Nenhum}
      BY <2>0, <3>1 DEF AloneInv
    <3> QED
      BY <1>8, <3>1, <3>2
  <2> QED
    BY <2>1, <2>2 DEF AloneInv
<1>10. AuditNamesCallerUntilRequestsMeet'
  BY DEF AuditNamesCallerUntilRequestsMeet
<1> QED
  BY <1>5, <1>7, <1>9, <1>10

LEMMA CheckoutNewStep ==
  ASSUME IInv, NEW q \in Requests, CheckoutNew(q)
  PROVE  IInv'
<1> DEFINE c == CHOOSE c \in Conns : c \notin abertas
<1> USE DEF CheckoutNew, IInv
<1>1. c \in Conns /\ c \notin abertas
  BY SpareConnection DEF TypeOK
<1> HIDE DEF c
<1>2. /\ req' = [req EXCEPT ![q].conn = c] /\ pool' = pool /\ pool = <<>>
      /\ abertas' = abertas \cup {c} /\ contexto' = [contexto EXCEPT ![c] = Nenhum]
      /\ Waits(q)
  BY DEF c
<1>3. \A p \in Requests : ~Holds(p, c)
  BY <1>1 DEF ConnectionsAreExclusive
<1>4. /\ pool' \in Seq(Conns) /\ IsInjective(pool') /\ ToSet(pool') = {} /\ ToSet(pool) = {}
  BY <1>2, EmptyPool DEF TypeOK
<1>5. abertas' = {d \in Conns : \E p \in Requests : Holds(p, d)} \cup ToSet(pool') \cup {c}
  BY <1>2, <1>4 DEF ConnectionsAreExclusive
<1>6. /\ ConnectionsAreExclusive' /\ req' \in [Requests -> Request \cup {Nenhum}]
      /\ \A p \in Requests :
           /\ Idle(p)' <=> Idle(p)
           /\ ~Idle(p) => req'[p].pc = req[p].pc /\ req'[p].user = req[p].user
  BY <1>1, <1>2, <1>3, <1>4, <1>5, Taken
<1>7. TypeOK'
  BY <1>1, <1>2, <1>6 DEF TypeOK
<1>8. AloneInv'
  <2> SUFFICES ASSUME ~juntas' PROVE AloneInv'
    BY DEF AloneInv
  <2>1. \A p \in Requests : ~Idle(p) => p = q
    BY <1>2 DEF AloneInv, Waits
  <2>2. abertas = {}
    <3>1. \A d \in Conns : ~Holds(q, d)
      BY NenhumAssumption DEF Holds, Waits
    <3> QED
      BY <1>4, <2>1, <3>1 DEF ConnectionsAreExclusive, Holds
  <2>3. \A d \in abertas' : d = c /\ contexto'[d] = Nenhum
    BY <1>1, <1>2, <2>2 DEF TypeOK
  <2>4. \A p1, p2 \in Requests : ~Idle(p1)' /\ ~Idle(p2)' => p1 = p2
    BY <1>6, <2>1 DEF Idle
  <2> QED
    BY <2>3, <2>4 DEF AloneInv
<1>9. AuditNamesCallerUntilRequestsMeet'
  BY DEF AuditNamesCallerUntilRequestsMeet
<1> QED
  BY <1>6, <1>7, <1>8, <1>9

\* A request that gives its connection back and goes on with the handler.
LEMMA HandlerStep ==
  ASSUME IInv, NEW q \in Requests, ~Idle(q), req[q].conn # Nenhum,
         NEW x \in Caller \cup {Nenhum}, Return(req[q].conn, x),
         ~juntas => x \in {req[q].user, Nenhum},
         req' = [req EXCEPT ![q].pc = "handler", ![q].conn = Nenhum],
         UNCHANGED <<aberto, juntas>>
  PROVE  /\ ConnectionsAreExclusive' /\ AloneInv'
         /\ aberto' \in BOOLEAN /\ pool' \in Seq(Conns) /\ abertas' \subseteq Conns
         /\ contexto' \in [Conns -> Caller \cup {Nenhum}]
         /\ req' \in [Requests -> Request \cup {Nenhum}] /\ juntas' \in BOOLEAN
<1> DEFINE c == req[q].conn
           r == [req[q] EXCEPT !.pc = "handler", !.conn = Nenhum]
<1> USE DEF IInv
<1>1. req[q] \in Request /\ c \in Conns /\ Holds(q, c)
  BY DEF TypeOK, Idle, Request, Holds
<1>2. /\ r \in Request /\ r # Nenhum /\ r.conn = Nenhum /\ r.user = req[q].user
      /\ req' = [req EXCEPT ![q] = r]
  BY <1>1, NenhumAssumption DEF TypeOK, Request
<1> HIDE DEF c, r
<1>3. Return(c, x)
  BY DEF c
<1>4. /\ pool' \in Seq(Conns) /\ abertas' \subseteq abertas
      /\ contexto' \in [Conns -> Caller \cup {Nenhum}]
      /\ c \in abertas
      /\ c \in abertas' => contexto'[c] = x
      /\ ConnectionsAreExclusive'
  BY <1>1, <1>2, <1>3, Returned
<1>5. req'[q] = r /\ \A p \in Requests : p # q => req'[p] = req[p]
  BY <1>2 DEF TypeOK
<1>6. AloneInv'
  <2> SUFFICES ASSUME ~juntas' PROVE AloneInv'
    BY DEF AloneInv
  <2>1. \A p \in Requests : ~Idle(p)' => p = q
    BY <1>5 DEF AloneInv, Idle
  <2>2. \A d \in abertas' : d = c
    BY <1>4 DEF AloneInv
  <2> QED
    BY <1>2, <1>4, <1>5, <2>1, <2>2 DEF AloneInv
<1> QED
  BY <1>2, <1>4, <1>6 DEF TypeOK

LEMMA GetDbStep ==
  ASSUME IInv, NEW q \in Requests, GetDb(q)
  PROVE  IInv'
<1> USE DEF IInv
<1>1. ~Idle(q) /\ req[q].conn # Nenhum /\ req[q].user \in Caller
  BY DEF GetDb, HasConn, TypeOK, Idle, Request
<1>2. /\ Return(req[q].conn, req[q].user)
      /\ req' = [req EXCEPT ![q].pc = "handler", ![q].conn = Nenhum]
      /\ UNCHANGED <<aberto, juntas>> /\ audit' = Nenhum
  BY DEF GetDb
<1>3. /\ ConnectionsAreExclusive' /\ AloneInv'
      /\ aberto' \in BOOLEAN /\ pool' \in Seq(Conns) /\ abertas' \subseteq Conns
      /\ contexto' \in [Conns -> Caller \cup {Nenhum}]
      /\ req' \in [Requests -> Request \cup {Nenhum}] /\ juntas' \in BOOLEAN
  BY <1>1, <1>2, HandlerStep
<1> QED
  BY <1>2, <1>3 DEF TypeOK, AuditNamesCallerUntilRequestsMeet

LEMMA CommitStep ==
  ASSUME IInv, NEW q \in Requests, CommitWrite(q)
  PROVE  IInv'
<1> DEFINE x == contexto[req[q].conn]
<1> USE DEF IInv
<1>1. /\ ~Idle(q) /\ req[q].conn \in Conns /\ req[q].conn # Nenhum /\ req[q].user \in Caller
      /\ Holds(q, req[q].conn) /\ req[q].pc = "transacao"
  BY DEF CommitWrite, HasConn, TypeOK, Idle, Request, Holds
<1>2. /\ Return(req[q].conn, x)
      /\ req' = [req EXCEPT ![q].pc = "handler", ![q].conn = Nenhum]
      /\ UNCHANGED <<aberto, juntas>>
      /\ audit' = [autor |-> req[q].user, registrado |-> x]
  BY DEF CommitWrite
<1>3. x \in Caller \cup {Nenhum} /\ req[q].conn \in abertas
  BY <1>1 DEF TypeOK, ConnectionsAreExclusive
<1>4. ~juntas => x \in {req[q].user, Nenhum}
  BY <1>1, <1>3 DEF AloneInv
<1> HIDE DEF x
<1>5. /\ ConnectionsAreExclusive' /\ AloneInv'
      /\ aberto' \in BOOLEAN /\ pool' \in Seq(Conns) /\ abertas' \subseteq Conns
      /\ contexto' \in [Conns -> Caller \cup {Nenhum}]
      /\ req' \in [Requests -> Request \cup {Nenhum}] /\ juntas' \in BOOLEAN
  BY <1>1, <1>2, <1>3, <1>4, HandlerStep
<1>6. TypeOK'
  BY <1>1, <1>2, <1>3, <1>5 DEF TypeOK
<1>7. AuditNamesCallerUntilRequestsMeet'
  BY <1>2, <1>4 DEF AuditNamesCallerUntilRequestsMeet
<1> QED
  BY <1>5, <1>6, <1>7

LEMMA EndStep ==
  ASSUME IInv, NEW q \in Requests, RequestEnds(q)
  PROVE  IInv'
<1> USE DEF IInv
<1>1. req[q] \in Request /\ req' = [req EXCEPT ![q] = Nenhum] /\ UNCHANGED <<aberto, juntas>>
  BY DEF RequestEnds, TypeOK, Idle
<1>2. /\ ConnectionsAreExclusive' /\ pool' \in Seq(Conns) /\ abertas' \subseteq abertas
      /\ contexto' \in [Conns -> Caller \cup {Nenhum}]
  <2>1. CASE req[q].conn = Nenhum
    <3>1. \A d \in Conns : ~Holds(q, d)
      BY <2>1, NenhumAssumption DEF Holds
    <3>2. UNCHANGED <<pool, abertas, contexto>>
      BY <2>1 DEF RequestEnds
    <3> QED
      BY <1>1, <3>1, <3>2, Kept DEF TypeOK
  <2>2. CASE req[q].conn # Nenhum
    <3> DEFINE c == req[q].conn
               x == contexto[c]
    <3>1. c \in Conns /\ Holds(q, c) /\ x \in Caller \cup {Nenhum} /\ Return(c, x)
      BY <1>1, <2>2 DEF RequestEnds, TypeOK, Request, Holds
    <3> QED
      BY <1>1, <3>1, Returned
  <2> QED
    BY <2>1, <2>2
<1>3. TypeOK'
  BY <1>1, <1>2 DEF TypeOK, RequestEnds
<1>4. \A p \in Requests : ~Idle(p)' => p # q /\ ~Idle(p)
  BY <1>1 DEF Idle, TypeOK
<1>5. AloneInv'
  <2> SUFFICES ASSUME ~juntas' PROVE AloneInv'
    BY DEF AloneInv
  <2>1. ~Idle(q) /\ \A p \in Requests : Idle(p)'
    BY <1>1, <1>4 DEF AloneInv, RequestEnds
  <2> QED
    BY <1>1, <1>2, <2>1 DEF AloneInv
<1>6. AuditNamesCallerUntilRequestsMeet'
  BY DEF AuditNamesCallerUntilRequestsMeet, RequestEnds
<1> QED
  BY <1>2, <1>3, <1>5, <1>6

LEMMA NextIInv == IInv /\ [Next]_vars => IInv'
<1> SUFFICES ASSUME IInv, [Next]_vars PROVE IInv'
  OBVIOUS
<1>1. ASSUME NEW q \in Requests, NEW u \in Caller, BeginRequest(q, u) PROVE IInv'
  BY <1>1, BeginStep
<1>2. ASSUME NEW q \in Requests, BeginTransaction(q) PROVE IInv'
  BY <1>2, TransactionStep
<1>3. ASSUME NEW q \in Requests, CheckoutIdle(q) PROVE IInv'
  BY <1>3, CheckoutIdleStep
<1>4. ASSUME NEW q \in Requests, CheckoutNew(q) PROVE IInv'
  BY <1>4, CheckoutNewStep
<1>5. ASSUME NEW q \in Requests, GetDb(q) PROVE IInv'
  BY <1>5, GetDbStep
<1>6. ASSUME NEW q \in Requests, CommitWrite(q) PROVE IInv'
  BY <1>6, CommitStep
<1>7. ASSUME NEW q \in Requests, RequestEnds(q) PROVE IInv'
  BY <1>7, EndStep
<1>8. CASE Shutdown
  BY <1>8 DEF Shutdown, IInv, TypeOK, ConnectionsAreExclusive, AloneInv,
              AuditNamesCallerUntilRequestsMeet, Holds, Idle
<1>9. CASE UNCHANGED vars
  BY <1>9 DEF vars, IInv, TypeOK, ConnectionsAreExclusive, AloneInv,
              AuditNamesCallerUntilRequestsMeet, Holds, Idle
<1> QED
  BY <1>1, <1>2, <1>3, <1>4, <1>5, <1>6, <1>7, <1>8, <1>9 DEF Next

LEMMA Invariant == Spec => []IInv
  BY InitIInv, NextIInv, PTL DEF Spec

-----------------------------------------------------------------------------
\* The pool holds connections, each with a setting that a request has left there
\* or none, and requests have the shapes of get_db and its handlers.
THEOREM TypeCorrect == Spec => []TypeOK
<1>1. IInv => TypeOK
  BY DEF IInv
<1> QED
  BY <1>1, Invariant, PTL

\* No connection serves two requests, none in use is idle, and none is lost, for
\* any pool, overflow and number of requests, with connections that die, requests
\* that fail, and a server that stops.
THEOREM ConnectionsStayExclusive == Spec => []ConnectionsAreExclusive
<1>1. IInv => ConnectionsAreExclusive
  BY DEF IInv
<1> QED
  BY <1>1, Invariant, PTL

\* A server whose requests have never met records no wrong author, however large
\* its pool: it has opened one connection, and get_db renames it.
THEOREM AuditIsRightAlone == Spec => []AuditNamesCallerUntilRequestsMeet
<1>1. IInv => AuditNamesCallerUntilRequestsMeet
  BY DEF IInv
<1> QED
  BY <1>1, Invariant, PTL
=============================================================================
