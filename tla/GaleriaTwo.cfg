SPECIFICATION SpecScript
CONSTANTS
  Albuns = {a1}
  Fotos = {f1, f2}
  Arquivos = {x1, x2, w1, w2}
  Webp = {w1, w2}
  Requests = {q1, q2}
  Nenhum = Nenhum
INVARIANTS ScriptTypeOK PhotosHaveAnAlbum FilesAreNotShared
PROPERTIES RowsOutliveFiles OnlyCondemnedPhotosLoseTheirFile
SYMMETRY Symmetry
