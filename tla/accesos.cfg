SPECIFICATION EspecificacionJusta
CONSTANTS
  c1 = c1
  km = km
  p1 = p1
  p2 = p2
  Nadie = Nadie
  Procesos = {p1, p2}
  Ids = {0, 1}
  CPUs = {c1}
  KM = km
  CantidadSticks = 3
  TamStick <- MCTamStick
  BaseStick <- MCBaseStick
  Configurado = 1
  Base <- MCBase
  Largo <- MCLargo
  SegMax = 4
  Modulo = 16
  Bytes = {0, 1, 2}
  Inicial = 0
  Valores = {1}
  Dato <- MCDato
  Direcciones = {0, 1, 4}
  TamRegistro = {1, 3}
  TamPedido = {0, 2, 15}
  MaxAccesos = 3
INVARIANTS
  TypeOK
PROPERTIES
  ImplementaMemoriaPlana
  AccesosTerminan
CHECK_DEADLOCK FALSE
