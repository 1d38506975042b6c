SPECIFICATION SpecJusta
CONSTANTS
  Procesos = {p1, p2}
  Nadie = Nadie
  GradoMultiprogramacion = 1
  Algoritmo = "FIFO"
  Expiran = TRUE
  MaxBloqueos = 2
  EstimacionInicial = 0
  Estimaciones = {0}
PROPERTIES
  TodosTerminan
