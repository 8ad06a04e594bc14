\* Two processes in a memory for one of them, one device, a mutex and two passes at a time.
CONSTANTS
  c1 = c1
  c2 = c2
  Nadie = Nadie
  Procesos = {1, 2}
  CPUs = {c1, c2}
  Algoritmo = "FIFO"
  CantidadColas = 1
  QueuePreemption = FALSE
  PrioridadOriginal <- MismaPrioridad
  Tipos = {"SLEEP"}
  Dispositivos <- UnoDeCadaTipo
  Tam <- UnByteCadaUno
  Capacidad = 1
  Reintentos = 2
  Programa <- ProgramasMediano
  MaxFallas = 1
  MaxSegFault = 0
  MaxPasadas = 2
  MaxCarreras = 0
SPECIFICATION EspecificacionJusta
INVARIANTS
  BloqueadoEsperaAlgo
  SuspReadyConReintento
PROPERTIES
  
  TodosTerminan
CHECK_DEADLOCK FALSE
