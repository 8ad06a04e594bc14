\* Two processes in a memory for one of them, a device of each type and one pass at a time.
CONSTANTS
  c1 = c1
  Nadie = Nadie
  Procesos = {1, 2}
  CPUs = {c1}
  Algoritmo = "FIFO"
  CantidadColas = 1
  QueuePreemption = FALSE
  PrioridadOriginal <- MismaPrioridad
  Tipos = {"SLEEP", "STDIN", "STDOUT"}
  Dispositivos <- UnoDeCadaTipo
  Tam <- UnByteCadaUno
  Capacidad = 1
  Reintentos = 1
  Programa <- ProgramasIO
  MaxFallas = 0
  MaxSegFault = 1
  MaxPasadas = 1
  MaxCarreras = 1
SPECIFICATION Spec
INVARIANTS
  TokensDeIO
  NadieCorreConIOEnCurso
  ListoEnMemoria
CHECK_DEADLOCK FALSE
