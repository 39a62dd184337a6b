------------------------------ MODULE Conexoes ------------------------------
(***************************************************************************)
(* The connection pool, who waits for it, and the user the database's      *)
(* audit triggers see (app/db/session.py).  get_db stores the caller's id  *)
(* in a setting of the database SESSION and commits, which returns the     *)
(* connection to the pool: the transactions of the handler take a          *)
(* connection again, each the one that has been idle longest (or a new     *)
(* one), with whatever setting it has, and keep it until they commit, also *)
(* across calls to the storage.  A request has one session (get_db is      *)
(* called once for all its dependencies), so at most one connection.       *)
(***************************************************************************)
EXTENDS Naturals, Sequences, FiniteSets, SequencesExt

CONSTANTS
  Users,          \* accounts
  Ninguem,        \* the empty string: no caller
  Conns,          \* connections (a closed one may be opened again)
  Requests,       \* slots for requests in flight
  pool_size, max_overflow,
  MaxTransacoes,  \* transactions of one handler, of which there are few
  Nenhum          \* no connection, no request, no record, a setting never stored

ASSUME PoolAssumption ==
  /\ pool_size \in Nat \ {0} /\ max_overflow \in Nat /\ MaxTransacoes \in Nat
  /\ IsFiniteSet(Conns) /\ pool_size + max_overflow <= Cardinality(Conns)
Caller == Users \cup {Ninguem}

\* A request in flight: its caller, where it is, the connection of its
\* transaction, and the transactions its handler may still begin.
Request == [user : Caller, pc : {"get_db", "handler", "transacao"},
            conn : Conns \cup {Nenhum}, resta : 0..MaxTransacoes]

ASSUME NenhumAssumption ==
  Nenhum \notin Conns \cup Users \cup Request /\ Ninguem \notin Users /\ Nenhum # Ninguem

VARIABLES
  aberto,    \* does the server accept requests?
  pool,      \* idle connections, the one idle longest first
  abertas,   \* open connections, as the pool counts them
  contexto,  \* [Conns -> Caller or Nenhum]: app.current_user_id
  audit,     \* the record the triggers have just made, or Nenhum
  req,       \* [Requests -> Request or Nenhum]
  juntas     \* history: have two requests ever been in flight at once?

vars == <<aberto, pool, abertas, contexto, audit, req, juntas>>

Idle(q) == req[q] = Nenhum
Waits(q) == ~Idle(q) /\ req[q].pc \in {"get_db", "transacao"} /\ req[q].conn = Nenhum
HasConn(q, pc) == ~Idle(q) /\ req[q].pc = pc /\ req[q].conn # Nenhum
Holds(q, c) == ~Idle(q) /\ req[q].conn = c

Init ==
  /\ aberto = TRUE
  /\ pool = <<>>
  /\ abertas = {}
  /\ contexto = [c \in Conns |-> Nenhum]
  /\ audit = Nenhum
  /\ req = [q \in Requests |-> Nenhum]
  /\ juntas = FALSE

\* Back to the pool, with the setting x; a connection the pool has no place for
\* is closed.
Return(c, x) ==
  IF Len(pool) < pool_size
    THEN /\ pool' = Append(pool, c)
         /\ contexto' = [contexto EXCEPT ![c] = x]
         /\ UNCHANGED abertas
    ELSE /\ abertas' = abertas \ {c}
         /\ contexto' = [contexto EXCEPT ![c] = Nenhum]
         /\ UNCHANGED pool

\* A request comes in, with or without a caller.
BeginRequest(q, u) ==
  /\ aberto
  /\ Idle(q)
  /\ req' = [req EXCEPT ![q] = [user |-> u, pc |-> "get_db", conn |-> Nenhum,
                                resta |-> MaxTransacoes]]
  /\ juntas' = (juntas \/ \E p \in Requests : ~Idle(p))
  /\ audit' = Nenhum
  /\ UNCHANGED <<aberto, pool, abertas, contexto>>

\* The handler needs the database: its session begins a transaction.
BeginTransaction(q) ==
  /\ ~Idle(q) /\ req[q].pc = "handler" /\ req[q].resta > 0
  /\ req' = [req EXCEPT ![q].pc = "transacao", ![q].resta = @ - 1]
  /\ audit' = Nenhum
  /\ UNCHANGED <<aberto, pool, abertas, contexto, juntas>>

\* It gets the connection idle longest.  One that is found dead
\* (pool_pre_ping) or is too old (pool_recycle) is replaced by a new one.
CheckoutIdle(q) ==
  /\ Waits(q)
  /\ pool # <<>>
  /\ LET c == Head(pool)
     IN  /\ \E x \in {contexto[c], Nenhum} : contexto' = [contexto EXCEPT ![c] = x]
         /\ req' = [req EXCEPT ![q].conn = c]
  /\ pool' = Tail(pool)
  /\ audit' = Nenhum
  /\ UNCHANGED <<aberto, abertas, juntas>>

MayOpen == Cardinality(abertas) < pool_size + max_overflow

\* No connection is idle: a new one is opened, within the limit.
CheckoutNew(q) ==
  /\ Waits(q)
  /\ pool = <<>>
  /\ MayOpen
  /\ LET c == CHOOSE c \in Conns : c \notin abertas
     IN  /\ abertas' = abertas \cup {c}
         /\ contexto' = [contexto EXCEPT ![c] = Nenhum]
         /\ req' = [req EXCEPT ![q].conn = c]
  /\ audit' = Nenhum
  /\ UNCHANGED <<aberto, pool, juntas>>

\* Defective variant: nothing is stored for a request without a caller.
GetDbOnlyCallers(q) ==
  /\ HasConn(q, "get_db")
  /\ Return(req[q].conn, IF req[q].user = Ninguem THEN contexto[req[q].conn] ELSE req[q].user)
  /\ req' = [req EXCEPT ![q].pc = "handler", ![q].conn = Nenhum]
  /\ audit' = Nenhum
  /\ UNCHANGED <<aberto, juntas>>

\* Defective variant: the connection is returned and still used.
GetDbKeeps(q) ==
  /\ HasConn(q, "get_db")
  /\ Return(req[q].conn, req[q].user)
  /\ req' = [req EXCEPT ![q].pc = "handler"]
  /\ audit' = Nenhum
  /\ UNCHANGED <<aberto, juntas>>

\* get_db: the setting is stored for the database session and committed.
GetDb(q) ==
  /\ HasConn(q, "get_db")
  /\ Return(req[q].conn, req[q].user)
  /\ req' = [req EXCEPT ![q].pc = "handler", ![q].conn = Nenhum]
  /\ audit' = Nenhum
  /\ UNCHANGED <<aberto, juntas>>

\* A transaction of the handler writes and commits; the triggers record the
\* setting of its connection.
CommitWrite(q) ==
  /\ HasConn(q, "transacao")
  /\ audit' = [autor |-> req[q].user, registrado |-> contexto[req[q].conn]]
  /\ Return(req[q].conn, contexto[req[q].conn])
  /\ req' = [req EXCEPT ![q].pc = "handler", ![q].conn = Nenhum]
  /\ UNCHANGED <<aberto, juntas>>

\* Defective variant: a session without a connection returns it all the same.
RequestEndsReturnsAlways(q) ==
  /\ ~Idle(q)
  /\ pool' = Append(pool, req[q].conn)
  /\ req' = [req EXCEPT ![q] = Nenhum]
  /\ audit' = Nenhum
  /\ UNCHANGED <<aberto, abertas, contexto, juntas>>

\* Defective variant: the session is not closed.
RequestEndsLeaks(q) ==
  /\ ~Idle(q)
  /\ req' = [req EXCEPT ![q] = Nenhum]
  /\ audit' = Nenhum
  /\ UNCHANGED <<aberto, pool, abertas, contexto, juntas>>

\* The request ends, answered, failed or tired of waiting for a connection; what
\* its session holds is rolled back and returned.
RequestEnds(q) ==
  /\ ~Idle(q)
  /\ IF req[q].conn = Nenhum THEN UNCHANGED <<pool, abertas, contexto>>
                             ELSE Return(req[q].conn, contexto[req[q].conn])
  /\ req' = [req EXCEPT ![q] = Nenhum]
  /\ audit' = Nenhum
  /\ UNCHANGED <<aberto, juntas>>

\* The server stops accepting requests and waits for those in flight.
Shutdown ==
  /\ aberto
  /\ aberto' = FALSE
  /\ audit' = Nenhum
  /\ UNCHANGED <<pool, abertas, contexto, req, juntas>>

Next ==
  \/ \E q \in Requests :
       \/ \E u \in Caller : BeginRequest(q, u)
       \/ BeginTransaction(q)
       \/ CheckoutIdle(q)
       \/ CheckoutNew(q)
       \/ GetDb(q)
       \/ CommitWrite(q)
       \/ RequestEnds(q)
  \/ Shutdown

\* A free connection is handed out, and a handler that is not waiting for one
\* goes on until it answers.  Nobody need ever give up waiting.
Fairness ==
  \A q \in Requests :
    /\ WF_vars(CheckoutIdle(q) \/ CheckoutNew(q))
    /\ WF_vars(GetDb(q))
    /\ WF_vars(~Waits(q) /\ RequestEnds(q))

Spec == Init /\ [][Next]_vars /\ Fairness

-----------------------------------------------------------------------------
(* Properties.                                                             *)

\* Types: what is idle in the pool is a connection, and every record of the
\* triggers has the caller it is about.
TypeOK ==
  /\ aberto \in BOOLEAN
  /\ pool \in Seq(Conns)
  /\ abertas \subseteq Conns
  /\ contexto \in [Conns -> Caller \cup {Nenhum}]
  /\ audit \in [autor : Caller, registrado : Caller \cup {Nenhum}] \cup {Nenhum}
  /\ req \in [Requests -> Request \cup {Nenhum}]
  /\ juntas \in BOOLEAN

\* Every open connection is either idle, once, or in the hands of one request:
\* two never share one, none in use is handed out, and none is lost to the pool,
\* which would count it against its limit for ever.
ConnectionsAreExclusive ==
  LET usadas == {c \in Conns : \E q \in Requests : Holds(q, c)}
  IN  /\ IsInjective(pool)
      /\ usadas \cap ToSet(pool) = {}
      /\ usadas \cup ToSet(pool) = abertas
      /\ \A p, q \in Requests, c \in Conns : p # q => ~(Holds(p, c) /\ Holds(q, c))

\* As long as no two requests have ever met, what the triggers record is the
\* caller of the request that wrote, or nothing when the connection was replaced
\* after get_db; never another user, also for the writes of requests without a
\* caller.  From the first meeting on the handler may get a connection that the
\* other request has named its caller on.
AuditNamesCallerUntilRequestsMeet ==
  ~juntas /\ audit # Nenhum => audit.registrado \in {audit.autor, Nenhum}

\* More requests than connections are all served, without any of them timing
\* out: nobody holds a connection while waiting for one, and each is returned.
\* So a server that stops accepting requests ends those in flight.
ShutdownEnds == ~aberto ~> \A q \in Requests : Idle(q)
=============================================================================
