SPECIFICATION Spec
CONSTANTS
  a = a
  n1 = n1 n2 = n2 n3 = n3 n4 = n4
  Users = {u1, a}
  Ids = {e1, e2, e3}
  Requests = {q1}
  Nomes = {n1, n2, n3, n4}
  Motivos = {x}
  Nenhum = Nenhum
  RolesOf <- ChangingRoles
  NormPy <- Norm
  NormSQL <- Norm
  SlugBase <- Slugified
  Statuses = {"publicado", "rascunho"}
SYMMETRY Symmetry
INVARIANTS NamesAreUnique SlugFollowsName
PROPERTIES DecisionsAreWhole EditsReturnToReview
