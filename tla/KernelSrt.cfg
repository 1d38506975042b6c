SPECIFICATION Spec
CONSTANTS
  Procesos = {p1, p2}
  Nadie = Nadie
  GradoMultiprogramacion = 2
  Algoritmo = "SRT"
  Expiran = TRUE
  MaxBloqueos = 1
  EstimacionInicial = 0
  Estimaciones <- MenosOMas
SYMMETRY Simetria
INVARIANTS
  TypeOK
  ExclusionCpu
  Conservacion
PROPERTIES
  ImplementaArcos
