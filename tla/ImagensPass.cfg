SPECIFICATION Spec
CONSTANTS
  Ids = {e1, e2}
  Arquivos = {x1, x2, x3}
  Externa = Externa
  Requests = {q1}
  MaxCopias = 1
  Nenhum = Nenhum
INVARIANTS TypeOK CompressedOnce
PROPERTIES ImagesAreNotTakenFromOthers
SYMMETRY Symmetry
