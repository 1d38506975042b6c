SPECIFICATION Spec
CONSTANTS
  Procesos = {p1, p2, p3}
  Nadie = Nadie
  GradoMultiprogramacion = 2
  Algoritmo = "FIFO"
  Expiran = FALSE
  MaxBloqueos = 3
  EstimacionInicial = 0
  Estimaciones = {0}
SYMMETRY Simetria
INVARIANTS
  TablaPropia
