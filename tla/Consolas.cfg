SPECIFICATION SpecJusta
CONSTANTS
  Programas <- DosProgramas
  EstimacionInicial = 4
  Grado = 2
  Duraciones = {6}
  Repeticiones = {1, 2}
  MaxInterrupciones = 1
  MaxCaidas = 1
INVARIANTS
  TypeOK
  RespuestaPropia
  LlegaEntero
  RestanteExacto
  SwapPropio
PROPERTIES
  TodasRespondidas
CHECK_DEADLOCK FALSE
