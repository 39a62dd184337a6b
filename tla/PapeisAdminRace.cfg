SPECIFICATION Spec
CONSTANTS
  s = s a = a u = u
  k1 = k1 k2 = k2
  Users = {s, a, u}
  RowIds = {k1, k2, k3}
  Requests = {q1, q2}
  Nenhum = Nenhum
  Initial <- Initially
PROPERTIES AdminsAreOutOfReach
SYMMETRY Symmetry
CHECK_DEADLOCK FALSE
