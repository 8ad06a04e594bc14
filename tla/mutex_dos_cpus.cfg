\* Two CPUs, CMN with preemption and inheritance, three processes and one mutex.
CONSTANTS
  c1 = c1
  c2 = c2
  m1 = m1
  Nadie = Nadie
  Procesos = {0, 1, 2}
  CPUs = {c1, c2}
  Algoritmo = "CMN"
  CantidadColas = 3
  QueuePreemption = TRUE
  PrioridadOriginal <- InvertidaTrasInicial
  Mutexes = {m1}
  Inicial = 0
  Syscalls = {"INIT_PROC", "MUTEX_CREATE", "MUTEX_LOCK", "MUTEX_UNLOCK"}
  MaxSyscalls <- TomaYSuelta
  MaxCaidas = 0
  AlgoritmoDeCola <- UnaColaFIFO
  ProgramasCorrectos = TRUE
SPECIFICATION Spec
INVARIANTS
  ListasSegunEstado
  PosesionReal
SYMMETRY Simetria
CHECK_DEADLOCK FALSE
