SPECIFICATION Spec
CONSTANTS
  Procesos = {p1, p2, p3}
  Nadie = Nadie
  GradoMultiprogramacion = 1
  Algoritmo = "FIFO"
  Expiran = TRUE
  MaxBloqueos = 2
  EstimacionInicial = 0
  Estimaciones = {0}
SYMMETRY Simetria
INVARIANTS
  SemaforosExactos
  RespuestasExactas
  GradoExacto
  BusquedaExacta
PROPERTIES
  ImplementaCicloDeVida
