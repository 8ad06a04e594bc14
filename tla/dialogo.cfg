\* Two threads of the scheduler, one compaction, one stick that is lost, and texts of
\* no byte, of two words, the first of which may be the code of the notice, and of as many bytes
\* as that code.
CONSTANTS
  h1 = h1
  h2 = h2
  Nadie = Nadie
  Hilos = {h1, h2}
  Pedidos <- PedidosDialogo
  Textos <- TextosDialogo
  MaxCompactaciones = 1
  MaxCaidas = 1
SPECIFICATION EspecificacionJusta
INVARIANTS
  RespuestaPropia
  BSODSoloPorCorrupcion
PROPERTIES
  PedidosTerminan
  CorrupcionTerminaKS
CHECK_DEADLOCK FALSE
