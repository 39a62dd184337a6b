SPECIFICATION Spec
CONSTANTS
  a = a p = p
  Users = {a, p}
  papeis <- PapeisMC
  Chaves = {t1, t2}
  Nomes = {n1, n2}
  SemEvento = {n2, e2}
  Nulo = Nulo
  Requests = {q1, q2}
  Nenhum = Nenhum
  Eventos = {e1, e2}
  dono <- DonoMC
  MaxPedidas = 2
INVARIANTS TypeOK LinksAreSound AloneAnswersAreRight
PROPERTIES NoTagIsLostHalfway RequestsEnd
