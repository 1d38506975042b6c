\* The servers wait for ever once the kernel has nothing left to send.
CHECK_DEADLOCK FALSE
SPECIFICATION Spec
CONSTANTS
  p1 = p1
  p2 = p2
  p3 = p3
  Nadie = Nadie
  Procesos <- Tres
  Programa <- Programas
  MaxInterrupciones = 1
INVARIANTS
  SinPerdidos
