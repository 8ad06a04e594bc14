\* A CPU that disconnects, and programs that misuse the mutexes: CMN, two CPUs.
CONSTANTS
  c1 = c1
  c2 = c2
  m1 = m1
  Nadie = Nadie
  Procesos = {0, 1}
  CPUs = {c1, c2}
  Algoritmo = "CMN"
  CantidadColas = 2
  QueuePreemption = TRUE
  PrioridadOriginal <- PrioridadPorPid
  Mutexes = {m1}
  Inicial = 0
  Syscalls = {"INIT_PROC", "MUTEX_CREATE", "MUTEX_LOCK", "MUTEX_UNLOCK", "SEG_FAULT"}
  MaxSyscalls <- TomaYSuelta
  MaxCaidas = 1
  AlgoritmoDeCola <- UnaColaFIFO
  ProgramasCorrectos = FALSE
SPECIFICATION Spec
PROPERTIES
  ExitEsTerminal
SYMMETRY Simetria
CHECK_DEADLOCK FALSE
