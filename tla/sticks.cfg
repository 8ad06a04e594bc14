\* One CPU, two programs, a Memory Stick that connects late and two interrupts.
CONSTANTS
  c1 = c1
  Nadie = Nadie
  Procesos = {1, 2}
  CPUs = {c1}
  Programa <- ProgramasSticks
  MaxInterrupciones = 2
  MaxReubicaciones = 1
  MaxSticks = 1
  MaxRechazos = 1
SPECIFICATION Spec
INVARIANTS
  InstruccionCorrecta
CHECK_DEADLOCK FALSE
