SPECIFICATION SpecMC
CONSTANTS
  ana = ana bia = bia t = t
  Ids = {1, 2, 3}
  Donos = {ana, bia}
  Eu = ana
  Statuses = {"publicado", "em_analise"}
  Datas = {7, 9, 14, 15}
  SemData = {15}
  Hoje = 8
  Tags = {t}
  Linhas <- LinhasMC
  Filtros <- FiltrosMC
  PageSize = 1
  Limite = 1
  Papeis = {"participante", "admin"}
  Nenhum = Nenhum
  Registros = {r1, r2, r3}
  Momentos = {1, 2}
  Atores = {ana, bia, Nenhum}
INVARIANTS TypeOK WalksMissNothing LogReadsAreSound ShownWasVisible RecommendsTheBest MetricsAreSound SummaryFits
SYMMETRY Symmetry
