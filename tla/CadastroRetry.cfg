SPECIFICATION Spec
CONSTANTS
  Contas = {u1, u2}
  Requests = {q1}
  Nenhum = Nenhum
INVARIANTS RegistrationCanBeRetried
SYMMETRY Symmetry
