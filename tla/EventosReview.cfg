SPECIFICATION Spec
CONSTANTS
  a = a
  n1 = n1 n2 = n2 n3 = n3 n4 = n4
  Users = {u1, u2, a}
  Ids = {e1}
  Requests = {q1, q2}
  Nomes = {n1}
  Motivos = {x}
  Nenhum = Nenhum
  RolesOf <- ChangingRoles
  NormPy <- Norm
  NormSQL <- Norm
  SlugBase <- Slugified
  Statuses = {"publicado", "rascunho", "arquivado", "em_analise", "recusado"}
INVARIANTS TypeOK ReviewBeforePublic
PROPERTIES OnlyOwnEvents ImplementsModeration
