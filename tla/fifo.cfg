\* FIFO, two CPUs, three processes, blocking IO and segmentation faults.
CONSTANTS
  c1 = c1
  c2 = c2
  Nadie = Nadie
  Procesos = {0, 1, 2}
  CPUs = {c1, c2}
  Algoritmo = "FIFO"
  CantidadColas = 1
  QueuePreemption = FALSE
  PrioridadOriginal <- MismaPrioridad
  Mutexes = {}
  Inicial = 0
  Syscalls = {"SLEEP", "INIT_PROC", "SEG_FAULT"}
  MaxSyscalls <- LlamadasPorProceso
  MaxCaidas = 0
  AlgoritmoDeCola <- UnaColaFIFO
  ProgramasCorrectos = TRUE
SPECIFICATION EspecificacionJusta
INVARIANTS
  TokensSuficientes
  EjecucionTieneResponsable
PROPERTIES
  TodoTermina
CHECK_DEADLOCK FALSE
