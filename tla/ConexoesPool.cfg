SPECIFICATION Spec
CONSTANTS
  Users = {u1}
  Ninguem = Ninguem
  Conns = {c1, c2}
  Requests = {q1, q2, q3}
  pool_size = 1
  max_overflow = 1
  MaxTransacoes = 2
  Nenhum = Nenhum
INVARIANTS TypeOK ConnectionsAreExclusive AuditNamesCallerUntilRequestsMeet
PROPERTY ShutdownEnds
CHECK_DEADLOCK FALSE
