\* One CPU, CMN with preemption and inheritance, two mutexes.
CONSTANTS
  c1 = c1
  m1 = m1
  m2 = m2
  Nadie = Nadie
  Procesos = {0, 1, 2}
  CPUs = {c1}
  Algoritmo = "CMN"
  CantidadColas = 3
  QueuePreemption = TRUE
  PrioridadOriginal <- InvertidaTrasInicial
  Mutexes = {m1, m2}
  Inicial = 0
  Syscalls = {"INIT_PROC", "MUTEX_CREATE", "MUTEX_LOCK", "MUTEX_UNLOCK"}
  MaxSyscalls <- CuatroCadaUno
  MaxCaidas = 0
  AlgoritmoDeCola <- UnaColaFIFO
  ProgramasCorrectos = TRUE
SPECIFICATION Spec
INVARIANTS
  EsperasCoherentes
  PrioridadHeredadaConMutex
  BloqueoTieneDespertador
CHECK_DEADLOCK FALSE
