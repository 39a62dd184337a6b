SPECIFICATION Spec
CONSTANTS
  Contas = {u1, u2}
  Requests = {q1, q2}
  Nenhum = Nenhum
INVARIANTS TypeOK
PROPERTIES RegistrationIsComplete OwnNameIsKept
SYMMETRY Symmetry
