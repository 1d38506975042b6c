SPECIFICATION Spec
CONSTANTS
  Programas <- DosProgramas
  EstimacionInicial = 4
  Grado = 2
  Duraciones = {6}
  Repeticiones = {1, 2}
  MaxInterrupciones = 1
  MaxCaidas = 1
INVARIANT
  RespuestaSiemprePropia
CHECK_DEADLOCK FALSE
