\* Round robin with compaction and blocking IO: two CPUs, two processes.
CONSTANTS
  c1 = c1
  c2 = c2
  Nadie = Nadie
  Procesos = {0, 1}
  CPUs = {c1, c2}
  Algoritmo = "RR"
  CantidadColas = 1
  QueuePreemption = FALSE
  PrioridadOriginal <- MismaPrioridad
  Mutexes = {}
  Inicial = 0
  Syscalls = {"INIT_PROC", "MEM_ALLOC", "SLEEP"}
  MaxSyscalls <- LlamadasPorProceso
  MaxCaidas = 0
  AlgoritmoDeCola <- UnaColaFIFO
  ProgramasCorrectos = TRUE
SPECIFICATION Spec
INVARIANTS
  TypeOK
  EjecucionSegunTablas
  DespachoSoloACPULibre
  CPUsSiguenElProtocolo
SYMMETRY Simetria
CHECK_DEADLOCK FALSE
