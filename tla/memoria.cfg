\* Sticks of one and two bytes, two processes with two segments each, a swap of two
\* blocks.
CONSTANTS
  p1 = p1
  p2 = p2
  i1 = i1
  i2 = i2
  Ninguno = Ninguno
  Procesos = {p1, p2}
  Ids = {i1, i2}
  Tamanios = {0, 1, 2}
  Sticks = {1, 2}
  Tamanio <- UnoYDos
  Estrategia = "BEST"
  Bloques = 2
  TamanioBloque = 2
  MaxFallas = 1
  MaxEscritos = 1
  ConexionEnCaliente = FALSE
SPECIFICATION Spec
INVARIANTS
  TypeOK
  SegmentosDisjuntos
  HuecosLibres
  HuecosConsolidados
  SinFugas
  BloquesConDuenio
  MuertosSinRecursos
  SuspensionConservaContenido
PROPERTIES
  CompactacionAlcanza
SYMMETRY Simetria
