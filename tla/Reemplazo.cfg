SPECIFICATION Spec
CONSTANTS
  EntradasPorTabla = 2
  TamanioPagina = 8
  TamanioMemoria = 76
  Algoritmos = {"CLOCK", "CLOCK-M"}
  CantidadesDeMarcos = {2, 3}
  Accedidas = {0, 12, 20, 24}
  PrimerosLibres = {5, 8}
  MaxSegundos <- Segundos
  MaxSuspensiones <- Suspensiones
INVARIANTS
  TypeOK
  PunteroPropio
  MiradasAcotadas
  AccesoEnSuPagina
PROPERTIES
  VictimaExacta
  RecienCargadaQueda
  ImplementaReloj
