SPECIFICATION Spec
CONSTANTS
  Procesos = {p1}
  Nadie = Nadie
  Paginas = {x, y, z}
  GradoMultiprogramacion = 1
  CantidadMarcos = 2
  MarcosPorProceso = 2
  EntradasTlb = 1
  AlgoritmoReemplazo = "CLOCK-M"
  MaxSuspensiones = 2
SYMMETRY Simetria
INVARIANTS
  TypeOK
  AccesoPropio
  CopiaVigente
  ModificadaBasta
  MarcosExactos
  SuspendidoFuera
  SinEsperas
CHECK_DEADLOCK FALSE
