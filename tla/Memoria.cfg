SPECIFICATION Spec
CONSTANTS
  Procesos = {p1, p2, p3}
  Nadie = Nadie
  Paginas = {x, y}
  GradoMultiprogramacion = 2
  CantidadMarcos = 2
  MarcosPorProceso = 1
  EntradasTlb = 1
  AlgoritmoReemplazo = "CLOCK"
  MaxSuspensiones = 0
SYMMETRY Simetria
INVARIANTS
  AccesoPropio
  CopiaVigente
  MarcosExactos
  CuotaRespetada
