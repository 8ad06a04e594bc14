\* Two CPUs, two programs that share a mutex, one interrupt and one move.
CONSTANTS
  c1 = c1
  c2 = c2
  Nadie = Nadie
  Procesos = {1, 2}
  CPUs = {c1, c2}
  Programa <- ProgramasSesion
  MaxInterrupciones = 1
  MaxReubicaciones = 1
  MaxSticks = 0
  MaxRechazos = 0
SPECIFICATION EspecificacionJusta
CONSTRAINT HastaElDesvio
INVARIANTS
  ContextoAlDia
  TablaAlDia
PROPERTIES
  SesionesTerminan
CHECK_DEADLOCK FALSE
