SPECIFICATION Spec
CONSTANTS
  Procesos = {p1, p2}
  Nadie = Nadie
  Paginas = {x, y}
  GradoMultiprogramacion = 2
  CantidadMarcos = 4
  MarcosPorProceso = 2
  EntradasTlb = 1
  AlgoritmoReemplazo = "CLOCK-M"
  MaxSuspensiones = 1
SYMMETRY Simetria
INVARIANTS
  SuspendidoFuera
CHECK_DEADLOCK FALSE
