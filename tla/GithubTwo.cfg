SPECIFICATION SpecCache
CONSTANTS
  Keys = {k1, k2}
  Requests = {q1, q2}
  TTL = 3
  Timeout = 2
  MaxNow = 12
  Ausente = Ausente
INVARIANTS CacheTypeOK AnswersAreFresh
CONSTRAINT TimeBound
SYMMETRY Symmetry
